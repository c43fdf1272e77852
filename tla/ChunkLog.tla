------------------------------ MODULE ChunkLog ------------------------------
(***************************************************************************)
(* The leveling log of the driver (driver/vscsi.c, vrelocation.c,          *)
(* vflush.c, recovery.c): writes are gathered in a cache, the cache is     *)
(* purged sequentially into the current chunk together with a PURGE_CTL,   *)
(* a full chunk is closed with a CHUNK_CTL, and the log moves on to a      *)
(* chunk whose live blocks were meanwhile relocated into the current one.  *)
(*                                                                         *)
(* The unit is the 8-sector block: positions, sizes and Used count blocks. *)
(* A purge is CacheSize blocks, the last of which is its PURGE_CTL.  The   *)
(* contents of a block are the set of the writes still visible in its two  *)
(* halves: its head, where a write may end, and its tail, where the next   *)
(* one goes on.                                                            *)
(***************************************************************************)
EXTENDS Naturals, Sequences, FiniteSets

CONSTANTS
  MAX_CHUNKS,                  \* chunks of the device
  SIZE_OF_MAP,                 \* logical blocks of the virtual disk
  CacheSize,                   \* SIZE_OF_CACHE, in blocks
  PURGES,                      \* purges of a chunk
  RELOCATION_LIMIT_PERCENTAGE,
  RELOCATION_READ_MAX_GAP,     \* in blocks
  WEIGHT_LIFE, WEIGHT_SPEED,
  Readers,                     \* the read threads
  Kinds,                       \* request kinds the environment issues
  MaxWrites, MaxFailures,      \* bounds of the exploration
  FinalizeAnytime,             \* may a finalizing flush meet a clean, non-empty cache?
  TornFirstChunk,              \* may a crash tear the CHUNK_CTL of the first chunk?
  NotMapped, Torn, NoRequest, NotReading

LastPurgePos == PURGES * CacheSize  \* LAST_PURGE_POS, in blocks
LastCachePos == CacheSize - 1       \* LAST_CACHE_POS, in blocks
Chunks    == 0..(MAX_CHUNKS - 1)
Blocks    == 0..(SIZE_OF_MAP - 1)
Positions == 0..(LastPurgePos - 1)
Places    == Chunks \X Positions
PurgePlaces == Chunks \X {n * CacheSize : n \in 0..(PURGES - 1)}

ASSUME Geometry ==
  /\ MAX_CHUNKS \in Nat /\ MAX_CHUNKS >= 3
  /\ SIZE_OF_MAP \in Nat /\ SIZE_OF_MAP >= 1
  /\ CacheSize \in Nat /\ CacheSize >= 2
  /\ PURGES \in Nat /\ PURGES >= 2
  /\ RELOCATION_LIMIT_PERCENTAGE \in Nat
  /\ RELOCATION_LIMIT_PERCENTAGE * CacheSize <= 100 * LastCachePos
  /\ RELOCATION_READ_MAX_GAP \in Nat \ {0}
  /\ WEIGHT_LIFE \in Nat /\ WEIGHT_SPEED \in Nat
ASSUME Parameters ==
  /\ Kinds \subseteq {"full", "head", "tail", "inner", "flush", "final"}
  /\ MaxWrites \in Nat /\ MaxFailures \in Nat
  /\ FinalizeAnytime \in BOOLEAN /\ TornFirstChunk \in BOOLEAN
  /\ NotMapped \notin Blocks /\ NotMapped \notin Places
ASSUME SomeReaders == IsFiniteSet(Readers)

VARIABLES
  mode,                        \* DeviceExtension->Mode
  Map, Used, SCN, WCN,         \* Ctx->Map and the fields of Ctx->ChunkInfo
  ChunkNo, NextChunkNo, ChunkLBA, \* Ctx->ChunkCtl is kept as its LBA table
  FinalizedPos, PurgePos,
  cache, CacheDirty,           \* blocks below CachePos: CacheLBA with CacheMem
  RelocationPrepared, RelocationDone, NextLBA, \* NextLBA: LBA table of Ctx->NextChunkCtl
  RelocatePos, WindowStart, WindowEnd, RelocateMem, RelocateTarget, RelocateSource,
  req, step,                   \* what the "other" thread works on, and where it is
  reading, marked,             \* places of the reads in flight, marked read threads
  data, purgeCtl, chunkCtl,    \* the medium
  scan,                        \* progress of DoRecovery1
  saved, writes, failures      \* the last snapshot committed; counters

logVars   == <<Map, Used, SCN, WCN, ChunkNo, NextChunkNo, ChunkLBA, FinalizedPos, PurgePos>>
cacheVars == <<cache, CacheDirty>>
relocVars == <<RelocationPrepared, RelocationDone, NextLBA, RelocatePos, WindowStart,
               WindowEnd, RelocateMem, RelocateTarget, RelocateSource>>
readVars  == <<reading, marked>>
diskVars  == <<data, purgeCtl, chunkCtl>>
bookVars  == <<saved, writes, failures>>
vars == <<mode, logVars, cacheVars, relocVars, req, step, readVars, diskVars, scan, bookVars>>

-----------------------------------------------------------------------------
(* Views of the state *)

Halves   == {"head", "tail"}
Garbage  == SIZE_OF_MAP * (MaxWrites + 1)    \* a write nobody made
WriteId(b) == writes[b] * SIZE_OF_MAP + b

Whole(w)     == Halves \X {w}
Half(h, old) == {x \in old : x[1] = h}

\* The halves a write replaces, and those it reaches into: an inner one replaces none.
Covers(kind)  == {h \in Halves : kind \in {"full", h}}
Reaches(kind) == IF kind = "inner" THEN Halves ELSE Covers(kind)
Written(kind, w, old) == {x \in old : x[1] \notin Covers(kind)} \cup (Reaches(kind) \X {w})

PlaceWrite(d, b) == IF Map[b] = NotMapped THEN {} ELSE d[Map[b]]

CachedAtButLast(b) == {i \in 1..(Len(cache) - 1) : cache[i].lba = b}   \* mutant
CachedAt(b) == {i \in 1..Len(cache) : cache[i].lba = b}
Cached(b)   == CachedAt(b) # {}

\* The last block of the cache is open while CachePos is not a multiple of 8:
\* its tail is still to be filled from the medium.
CacheOpen == \E i \in 1..Len(cache) : i = Len(cache) /\ cache[i].open

\* What a read of block b returns: cache first, then the mapped place, else zeroes.
Content == [b \in Blocks |->
              IF Cached(b)
              THEN UNION {cache[i].data \cup IF cache[i].open THEN Half("tail", PlaceWrite(data, b)) ELSE {}
                          : i \in CachedAt(b)}
              ELSE PlaceWrite(data, b)]

PurgeRange == PurgePos .. (PurgePos + LastCachePos)
FirstPos(c) == IF c = 0 THEN CacheSize ELSE 0

IsLive(c, lba, p) == lba[p] \in Blocks /\ Map[lba[p]] = <<c, p>>
Live(p) == IsLive(NextChunkNo, NextLBA, p)

-----------------------------------------------------------------------------
(* Shared steps *)

\* A block mapped into a chunk with a larger SCN keeps its place.
TakesAlways(b, c, scn) == TRUE                                          \* mutant
Takes(b, c, scn) == Map[b] # NotMapped => scn[Map[b][1]] <= scn[c]

LeftBehindAll(moved, d)   == {b \in Blocks : Map[b] # NotMapped /\ Map[b][1] = d}  \* mutant
LeftBehindNever(moved, d) == {}                                         \* mutant
LeftBehind(moved, d) == {b \in moved : Map[b] # NotMapped /\ Map[b][1] = d}

\* Of the positions P that name a block in the table lba the last one counts.
NamedAt(lba, P, b)  == {p \in P : lba[p] = b}
LatestAt(lba, P, b) == CHOOSE p \in NamedAt(lba, P, b) : \A q \in NamedAt(lba, P, b) : q <= p
MovedBy(lba, P, c, scn) == {b \in Blocks : NamedAt(lba, P, b) # {} /\ Takes(b, c, scn)}

\* UpdateMap over the positions P of chunk c, whose LBA table is lba.
UpdateMap(lba, P, c, scn) ==
  LET moved == MovedBy(lba, P, c, scn)
  IN /\ Map'  = [b \in Blocks |-> IF b \in moved THEN <<c, LatestAt(lba, P, b)>> ELSE Map[b]]
     /\ Used' = [d \in Chunks |-> (Used[d] + IF d = c THEN Cardinality(moved) ELSE 0)
                                  - Cardinality(LeftBehind(moved, d))]

\* ChunkCtl->LBA with the entries of one purge filled in.
RecordPurgeNot(lba) == ChunkLBA                                         \* mutant
RecordPurge(lba) == [p \in Positions |-> IF p \in PurgeRange THEN lba[p] ELSE ChunkLBA[p]]

\* The log goes on in chunk c, which becomes the newest one.
SucceedByOwn(c) == SCN' = [SCN EXCEPT ![c] = @ + 1]                      \* mutant
SucceedBy(c) == SCN' = [SCN EXCEPT ![c] = SCN[ChunkNo] + 1]

\* FindNextChunk: the lowest-numbered chunk of least score among those with few enough
\* live blocks to be relocated in time, or of least Used when there is none.
NextChunks(cur, pos) ==
  LET others   == Chunks \ {cur}
      eligible == {c \in others :
                     Used[c] * 100 < (LastPurgePos - pos) * RELOCATION_LIMIT_PERCENTAGE}
      Life(c)  == IF WCN[c] < WCN[cur] THEN 2 * WCN[c] ELSE WCN[cur] + WCN[c]
      Score(c) == (Used[c] * (1 + WEIGHT_SPEED)) \div 32 + Life(c) * (1 + WEIGHT_LIFE)
      pool     == IF eligible # {} THEN eligible ELSE others
      Rank(c)  == IF eligible # {} THEN Score(c) ELSE Used[c]
  IN {c \in pool : \A d \in pool : Rank(c) < Rank(d) \/ (Rank(c) = Rank(d) /\ c <= d)}

FindNextChunk(cur, pos) ==
  /\ NextChunkNo' \in NextChunks(cur, pos)
  /\ RelocationDone' = FALSE
  /\ RelocationPrepared' = FALSE
  /\ UNCHANGED <<NextLBA, RelocatePos, WindowStart, WindowEnd, RelocateMem,
                 RelocateTarget, RelocateSource>>

\* ChangeModeAtomic(ACTIVE, ERROR)
DegradeNot == mode' = mode                                              \* mutant
Degrade == mode' = IF mode = "ACTIVE" THEN "ERROR" ELSE mode

\* MarkReadingThreads
MarkedNone == {}                                                        \* mutant
Marked == {r \in Readers : reading[r] # NotReading}

-----------------------------------------------------------------------------
(* The medium: what a write of the cache or of a chunk control reaches *)

PurgedLBA(p) == IF p - PurgePos < Len(cache) THEN cache[p - PurgePos + 1].lba ELSE NotMapped

NewPurgeCtl == [scn |-> SCN[ChunkNo], lba |-> [i \in 0..LastCachePos |-> PurgedLBA(PurgePos + i)]]

\* Blocks beyond CachePos are written with whatever the cache memory holds.
PurgedData == [l \in Places |->
                 IF l[1] = ChunkNo /\ l[2] \in PurgeRange
                 THEN IF l[2] - PurgePos < Len(cache) THEN cache[l[2] - PurgePos + 1].data
                                                      ELSE Whole(Garbage)
                 ELSE data[l]]

NewChunkCtl == [scn |-> SCN[ChunkNo], wcn |-> WCN[ChunkNo],
                next |-> NextChunkNo, nextWcn |-> WCN[NextChunkNo],
                start |-> FirstPos(ChunkNo), end |-> PurgePos, lba |-> ChunkLBA]

\* A write cut short leaves all, some or none of its sectors new; its control sector,
\* the last one, may be left with a bad checksum.
WriteReaches(effect) ==
  CASE step = "purge" /\ effect = "all" ->
         /\ data' = PurgedData
         /\ purgeCtl' = [purgeCtl EXCEPT ![<<ChunkNo, PurgePos>>] = NewPurgeCtl]
         /\ UNCHANGED chunkCtl
    [] step = "purge" /\ effect = "some" ->
         data' = PurgedData /\ UNCHANGED <<purgeCtl, chunkCtl>>
    [] step = "purge" /\ effect = "torn" ->
         /\ data' = PurgedData
         /\ purgeCtl' = [purgeCtl EXCEPT ![<<ChunkNo, PurgePos>>] = Torn]
         /\ UNCHANGED chunkCtl
    [] step = "finalize" /\ effect = "all" ->
         chunkCtl' = [chunkCtl EXCEPT ![ChunkNo] = NewChunkCtl] /\ UNCHANGED <<data, purgeCtl>>
    [] step = "finalize" /\ effect = "torn" /\ (TornFirstChunk \/ SCN[ChunkNo] > 1) ->
         chunkCtl' = [chunkCtl EXCEPT ![ChunkNo] = Torn] /\ UNCHANGED <<data, purgeCtl>>
    [] OTHER -> UNCHANGED diskVars

Effects == IF step = "purge" THEN {"none", "some", "torn", "all"}
           ELSE IF step = "finalize" THEN {"none", "torn", "all"} ELSE {"none"}

\* The log goes on in the current chunk if the next purge of its SCN is there, which holds
\* too for a purge that reached the medium but was not acknowledged.
PurgeOnMediumStale(ctl) == /\ PurgePos < LastPurgePos                    \* mutant
                           /\ ctl[<<ChunkNo, PurgePos>>] # Torn
PurgeOnMedium(ctl) == /\ PurgePos < LastPurgePos
                      /\ ctl[<<ChunkNo, PurgePos>>] # Torn
                      /\ ctl[<<ChunkNo, PurgePos>>].scn = SCN[ChunkNo]

-----------------------------------------------------------------------------
(* The "other" thread: writes.  Each action is one turn of the loop of      *)
(* ExecuteWriteHandler, or the completion of the I/O it started.            *)

IsWrite == req.kind \in {"full", "head", "tail", "inner"}
Writing == step = "handler" /\ IsWrite /\ mode = "ACTIVE"
Relocating == Writing /\ PurgePos < LastPurgePos /\ RelocationPrepared /\ ~RelocationDone
Ready      == Writing /\ PurgePos < LastPurgePos /\ RelocationPrepared /\ RelocationDone

\* LevelingDispatch admits requests in ACTIVE mode only; the thread serves one at a time.
DispatchWrite(k, b) ==
  /\ step = "idle" /\ mode = "ACTIVE" /\ k \in Kinds \ {"flush", "final"}
  /\ writes[b] < MaxWrites
  /\ writes' = [writes EXCEPT ![b] = @ + 1]
  /\ req' = [kind |-> k, block |-> b]
  /\ step' = "handler"
  /\ UNCHANGED <<mode, logVars, cacheVars, relocVars, readVars, diskVars, scan, saved, failures>>

DispatchFlush(k) ==
  /\ step = "idle" /\ mode = "ACTIVE" /\ k \in Kinds \cap {"flush", "final"}
  /\ k = "final" => FinalizeAnytime \/ CacheDirty \/ cache = <<>>
  /\ req' = [kind |-> k, block |-> 0]
  /\ step' = "handler"
  /\ UNCHANGED <<mode, logVars, cacheVars, relocVars, readVars, diskVars, scan, bookVars>>

WriteAbort ==
  /\ step = "handler" /\ IsWrite /\ mode # "ACTIVE"
  /\ step' = "idle" /\ req' = NoRequest
  /\ UNCHANGED <<mode, logVars, cacheVars, relocVars, readVars, diskVars, scan, bookVars>>

\* ExecutePurgeCache fills in the controls and starts the write.
ExecutePurgeCache ==
  /\ ChunkLBA' = RecordPurge([p \in PurgeRange |-> PurgedLBA(p)])
  /\ step' = "purge"
  /\ UNCHANGED <<mode, Map, Used, SCN, WCN, ChunkNo, NextChunkNo, FinalizedPos, PurgePos,
                 cacheVars, relocVars, req, readVars, diskVars, scan, bookVars>>

\* ExecutePurgeChunk builds the control in the memory of the cache.
ExecutePurgeChunk ==
  /\ WCN' = [WCN EXCEPT ![ChunkNo] = @ + 1]
  /\ cache' = [i \in 1..Len(cache) |-> [cache[i] EXCEPT !.data = Whole(Garbage)]]
  /\ step' = "finalize"
  /\ UNCHANGED <<mode, Map, Used, SCN, ChunkNo, NextChunkNo, ChunkLBA, FinalizedPos, PurgePos,
                 CacheDirty, relocVars, req, reading, diskVars, scan, bookVars>>

CloseChunk ==
  /\ Writing /\ PurgePos = LastPurgePos /\ FinalizedPos < LastPurgePos
  /\ marked' = marked \cup Marked
  /\ ExecutePurgeChunk

SwitchChunk ==
  /\ Writing /\ PurgePos = LastPurgePos /\ FinalizedPos = LastPurgePos
  /\ SucceedBy(NextChunkNo)
  /\ ChunkNo' = NextChunkNo
  /\ PurgePos' = FirstPos(NextChunkNo)
  /\ FinalizedPos' = FirstPos(NextChunkNo)
  /\ FindNextChunk(NextChunkNo, FirstPos(NextChunkNo))
  /\ UNCHANGED <<mode, Map, Used, WCN, ChunkLBA, cacheVars, req, step, readVars, diskVars,
                 scan, bookVars>>

PrepareRelocate ==
  /\ Writing /\ PurgePos < LastPurgePos /\ ~RelocationPrepared
  /\ step' = "prepare"
  /\ UNCHANGED <<mode, logVars, cacheVars, relocVars, req, readVars, diskVars, scan, bookVars>>

\* The control of the next chunk is taken as it is read, its checksum is not verified.
PrepareRelocateDone ==
  /\ step = "prepare"
  /\ NextLBA' = IF chunkCtl[NextChunkNo] = Torn THEN [p \in Positions |-> NotMapped]
                                                ELSE chunkCtl[NextChunkNo].lba
  /\ RelocateTarget' = LastPurgePos - PurgePos
  /\ RelocateSource' = Used[NextChunkNo]
  /\ RelocatePos' = 0 /\ WindowStart' = 0 /\ WindowEnd' = 0
  /\ RelocationPrepared' = TRUE
  /\ step' = IF marked = {} THEN "handler" ELSE "marked"
  /\ UNCHANGED <<mode, logVars, cacheVars, RelocationDone, RelocateMem, req, readVars, diskVars,
                 scan, bookVars>>

\* ExecuteRelocateCached first asks whether relocation keeps pace with the purges.
QuotaMetLate == RelocateSource * (LastPurgePos - PurgePos)              \* mutant
                  >= RelocateTarget * (Used[NextChunkNo] - Len(cache))
QuotaMet == RelocateSource * (LastPurgePos - CacheSize - PurgePos)
              >= RelocateTarget * (Used[NextChunkNo] - Len(cache))

RelocateQuota ==
  /\ Relocating
  /\ IF QuotaMet THEN RelocationDone' = TRUE /\ step' = "handler"
                 ELSE RelocationDone' = FALSE /\ step' = "copy"
  /\ UNCHANGED <<mode, logVars, cacheVars, RelocationPrepared, NextLBA, RelocatePos, WindowStart,
                 WindowEnd, RelocateMem, RelocateTarget, RelocateSource, req, readVars, diskVars,
                 scan, bookVars>>

LeftToRelocateAfter == {p \in (RelocatePos + 1)..(LastPurgePos - 1) : Live(p)}  \* mutant
LeftToRelocate == {p \in RelocatePos..(LastPurgePos - 1) : Live(p)}
First(p, S) == p \in S /\ \A q \in S : p <= q
InWindow(p) == WindowStart <= p /\ p < WindowEnd

RelocateEndGivesUp ==                                                   \* mutant
  /\ step = "copy" /\ (LeftToRelocate = {} \/ Len(cache) >= LastCachePos)
  /\ RelocatePos' = LastPurgePos
  /\ RelocationDone' = TRUE /\ step' = "handler"
  /\ UNCHANGED <<mode, logVars, cacheVars, RelocationPrepared, NextLBA, WindowStart, WindowEnd,
                 RelocateMem, RelocateTarget, RelocateSource, req, readVars, diskVars, scan,
                 bookVars>>
RelocateEnd ==
  /\ step = "copy"
  /\ \/ LeftToRelocate = {} /\ RelocatePos' = LastPurgePos
     \/ /\ Len(cache) >= LastCachePos
        /\ \E p \in LeftToRelocate : First(p, LeftToRelocate) /\ RelocatePos' = p
  /\ RelocationDone' = TRUE /\ step' = "handler"
  /\ UNCHANGED <<mode, logVars, cacheVars, RelocationPrepared, NextLBA, WindowStart, WindowEnd,
                 RelocateMem, RelocateTarget, RelocateSource, req, readVars, diskVars, scan,
                 bookVars>>

RelocateCopy ==
  /\ step = "copy" /\ Len(cache) < LastCachePos
  /\ \E p \in LeftToRelocate :
       /\ First(p, LeftToRelocate) /\ InWindow(p)
       /\ cache' = Append(cache, [lba |-> NextLBA[p], data |-> RelocateMem[p], open |-> FALSE])
       /\ RelocatePos' = p + 1
  /\ UNCHANGED <<mode, logVars, CacheDirty, RelocationPrepared, RelocationDone, NextLBA,
                 WindowStart, WindowEnd, RelocateMem, RelocateTarget, RelocateSource, req, step,
                 readVars, diskVars, scan, bookVars>>

\* The live blocks ExecuteRelocate takes into one read: no gap of dead blocks from the
\* first one on is as long as RELOCATION_READ_MAX_GAP.
Reached(p) ==
  {i \in p..(LastPurgePos - 1) :
     /\ i < p + CacheSize /\ Live(i)
     /\ \A j \in p..i : \/ j < p + RELOCATION_READ_MAX_GAP
                        \/ \E l \in p..(j - 1) : Live(l) /\ j <= l + RELOCATION_READ_MAX_GAP}

ExecuteRelocateShort ==                                                 \* mutant
  /\ step = "copy" /\ Len(cache) < LastCachePos
  /\ \E p \in LeftToRelocate :
       /\ First(p, LeftToRelocate) /\ ~InWindow(p)
       /\ RelocatePos' = p /\ WindowStart' = p
       /\ \E e \in Reached(p) : (\A i \in Reached(p) : i <= e) /\ WindowEnd' = e
  /\ step' = "relocate"
  /\ UNCHANGED <<mode, logVars, cacheVars, RelocationPrepared, RelocationDone, NextLBA,
                 RelocateMem, RelocateTarget, RelocateSource, req, readVars, diskVars, scan,
                 bookVars>>
ExecuteRelocate ==
  /\ step = "copy" /\ Len(cache) < LastCachePos
  /\ \E p \in LeftToRelocate :
       /\ First(p, LeftToRelocate) /\ ~InWindow(p)
       /\ RelocatePos' = p /\ WindowStart' = p
       /\ \E e \in Reached(p) : (\A i \in Reached(p) : i <= e) /\ WindowEnd' = e + 1
  /\ step' = "relocate"
  /\ UNCHANGED <<mode, logVars, cacheVars, RelocationPrepared, RelocationDone, NextLBA,
                 RelocateMem, RelocateTarget, RelocateSource, req, readVars, diskVars, scan,
                 bookVars>>

RelocateReadFromStart ==                                                \* mutant
  /\ step = "relocate"
  /\ RelocateMem' = [p \in Positions |-> IF InWindow(p) THEN data[<<NextChunkNo, p - WindowStart>>]
                                                       ELSE {}]
  /\ step' = "handler"
  /\ UNCHANGED <<mode, logVars, cacheVars, RelocationPrepared, RelocationDone, NextLBA,
                 RelocatePos, WindowStart, WindowEnd, RelocateTarget, RelocateSource, req,
                 readVars, diskVars, scan, bookVars>>
RelocateRead ==
  /\ step = "relocate"
  /\ RelocateMem' = [p \in Positions |-> IF InWindow(p) THEN data[<<NextChunkNo, p>>] ELSE {}]
  /\ step' = "handler"
  /\ UNCHANGED <<mode, logVars, cacheVars, RelocationPrepared, RelocationDone, NextLBA,
                 RelocatePos, WindowStart, WindowEnd, RelocateTarget, RelocateSource, req,
                 readVars, diskVars, scan, bookVars>>

\* A write that finds its block in the cache changes it there; CacheDirty is set only if
\* a part of it is appended, which takes an open block.  The tail of an open block goes on
\* where its head ended, and closes it.
ToTheEnd == req.kind \in {"full", "tail"}

WriteHit ==
  /\ Ready
  /\ \E i \in CachedAt(req.block) :
       /\ cache' = [cache EXCEPT ![i].data = Written(req.kind, WriteId(req.block), @),
                                 ![i].open = @ /\ ~ToTheEnd]
       /\ CacheDirty' = (CacheDirty \/ (ToTheEnd /\ cache[i].open))
  /\ step' = "idle" /\ req' = NoRequest
  /\ UNCHANGED <<mode, logVars, relocVars, readVars, diskVars, scan, bookVars>>

WritePurge == Ready /\ ~Cached(req.block) /\ ~CacheOpen /\ Len(cache) >= LastCachePos
              /\ ExecutePurgeCache

\* The block whose old contents are needed: the open one, or the one written inside or at
\* its tail.  For a tail only the head is filled in, and the block stays open for it.
FillBlock == IF CacheOpen THEN cache[Len(cache)].lba ELSE req.block

Filled(old) == IF CacheOpen
               THEN [cache EXCEPT ![Len(cache)].data = @ \cup Half("tail", old), ![Len(cache)].open = FALSE]
               ELSE Append(cache, [lba |-> req.block,
                                   data |-> IF req.kind = "tail" THEN Half("head", old) ELSE old,
                                   open |-> (req.kind = "tail")])

\* cache_fill_read: read the mapped place, or fill with zeroes at once.
CacheFill ==
  /\ IF Map[FillBlock] # NotMapped THEN step' = "fill" /\ UNCHANGED cache
                                   ELSE cache' = Filled({}) /\ UNCHANGED step
  /\ UNCHANGED <<mode, logVars, CacheDirty, relocVars, req, readVars, diskVars, scan, bookVars>>

WriteFill ==
  /\ Ready
  /\ \/ CacheOpen /\ (FillBlock # req.block \/ req.kind = "inner") /\ ~(Cached(req.block) /\ FillBlock # req.block)
     \/ ~CacheOpen /\ req.kind \in {"tail", "inner"} /\ ~Cached(req.block) /\ Len(cache) < LastCachePos
  /\ CacheFill

CacheFillReadDone ==
  /\ step = "fill"
  /\ cache' = Filled(data[Map[FillBlock]])
  /\ step' = "handler"
  /\ UNCHANGED <<mode, logVars, CacheDirty, relocVars, req, readVars, diskVars, scan, bookVars>>

WriteAppend ==
  /\ Ready /\ req.kind \in {"full", "head"}
  /\ ~Cached(req.block) /\ ~CacheOpen /\ Len(cache) < LastCachePos
  /\ cache' = Append(cache, [lba |-> req.block, data |-> Written(req.kind, WriteId(req.block), {}),
                             open |-> (req.kind = "head")])
  /\ CacheDirty' = TRUE
  /\ step' = "idle" /\ req' = NoRequest
  /\ UNCHANGED <<mode, logVars, relocVars, readVars, diskVars, scan, bookVars>>

-----------------------------------------------------------------------------
(* Flushes: ExecuteFlushHandler does not look at the mode. *)

Flushing == step = "handler" /\ req.kind \in {"flush", "final"}
ToFinalize == req.kind = "final" /\ FinalizedPos < PurgePos

FlushFill     == Flushing /\ CacheOpen /\ CacheFill
FlushPurge    == Flushing /\ ~CacheOpen /\ CacheDirty /\ ExecutePurgeCache
FlushFinalize == Flushing /\ ~CacheOpen /\ ~CacheDirty /\ ToFinalize
                 /\ UNCHANGED marked /\ ExecutePurgeChunk

FlushDone ==
  /\ Flushing /\ ~CacheOpen /\ ~CacheDirty /\ ~ToFinalize
  /\ step' = "idle" /\ req' = NoRequest
  /\ UNCHANGED <<mode, logVars, cacheVars, relocVars, readVars, diskVars, scan, bookVars>>

-----------------------------------------------------------------------------
(* Completions of the writes to the medium *)

PurgeCacheDone ==
  /\ step = "purge"
  /\ WriteReaches("all")
  /\ UpdateMap([p \in PurgeRange |-> PurgedLBA(p)], PurgePos..(PurgePos + Len(cache) - 1),
               ChunkNo, SCN)
  /\ cache' = <<>> /\ CacheDirty' = FALSE
  /\ PurgePos' = PurgePos + CacheSize
  /\ RelocationDone' = FALSE
  /\ saved' = Content
  /\ step' = "handler"
  /\ UNCHANGED <<mode, SCN, WCN, ChunkNo, NextChunkNo, ChunkLBA, FinalizedPos, RelocationPrepared,
                 NextLBA, RelocatePos, WindowStart, WindowEnd, RelocateMem, RelocateTarget,
                 RelocateSource, req, readVars, scan, writes, failures>>

PurgeChunkDone ==
  /\ step = "finalize"
  /\ WriteReaches("all")
  /\ FinalizedPos' = PurgePos
  /\ step' = "handler"
  /\ UNCHANGED <<mode, Map, Used, SCN, WCN, ChunkNo, NextChunkNo, ChunkLBA, PurgePos, cacheVars,
                 relocVars, req, readVars, scan, bookVars>>

\* Any of the thread's requests may fail, after its retries, whatever it reached.
IoFails ==
  /\ step \in {"prepare", "relocate", "fill", "purge", "finalize"}
  /\ failures < MaxFailures
  /\ failures' = failures + 1
  /\ \E effect \in Effects : WriteReaches(effect)
  /\ Degrade
  /\ step' = "handler"
  /\ UNCHANGED <<logVars, cacheVars, relocVars, req, readVars, scan, saved, writes>>

-----------------------------------------------------------------------------
(* Read threads.  Only a read of a mapped place stays in flight. *)

StartRead(r, b) ==
  /\ mode = "ACTIVE" /\ reading[r] = NotReading
  /\ Map[b] # NotMapped /\ (\A i \in CachedAt(b) : cache[i].open)
  /\ reading' = [reading EXCEPT ![r] = [place |-> Map[b], expected |-> data[Map[b]]]]
  /\ UNCHANGED <<mode, logVars, cacheVars, relocVars, req, step, marked, diskVars, scan, bookVars>>

FinishReadAlone(r) ==                                                   \* mutant
  /\ reading[r] # NotReading
  /\ reading' = [reading EXCEPT ![r] = NotReading]
  /\ marked' = marked \ {r}
  /\ UNCHANGED <<mode, logVars, cacheVars, relocVars, req, step, diskVars, scan, bookVars>>
FinishRead(r) ==
  /\ reading[r] # NotReading
  /\ reading' = [reading EXCEPT ![r] = NotReading]
  /\ marked' = marked \ {r}
  /\ step' = IF step = "marked" /\ marked' = {} THEN "handler" ELSE step
  /\ UNCHANGED <<mode, logVars, cacheVars, relocVars, req, diskVars, scan, bookVars>>

-----------------------------------------------------------------------------
(* Power loss, re-initialization and recovery *)

\* InitializeLevelingCtx: everything below the medium starts from zeroed memory.
LoseMemory(effect) ==
  /\ WriteReaches(effect)
  /\ saved' = IF scan = MAX_CHUNKS + 2 /\ PurgeOnMedium(purgeCtl') THEN Content ELSE saved
  /\ mode' = "RECOVERY" /\ scan' = 0
  /\ Map' = [b \in Blocks |-> NotMapped]
  /\ Used' = [c \in Chunks |-> 0] /\ SCN' = [c \in Chunks |-> 0] /\ WCN' = [c \in Chunks |-> 0]
  /\ ChunkNo' = 1 /\ NextChunkNo' = 0 /\ ChunkLBA' = [p \in Positions |-> 0]
  /\ FinalizedPos' = 0 /\ PurgePos' = 0
  /\ cache' = <<>> /\ CacheDirty' = FALSE
  /\ RelocationPrepared' = FALSE /\ RelocationDone' = FALSE
  /\ NextLBA' = [p \in Positions |-> 0] /\ RelocateMem' = [p \in Positions |-> {}]
  /\ RelocatePos' = 0 /\ WindowStart' = 0 /\ WindowEnd' = 0
  /\ RelocateTarget' = 0 /\ RelocateSource' = 0
  /\ req' = NoRequest /\ step' = "idle"
  /\ reading' = [r \in Readers |-> NotReading] /\ marked' = {}
  /\ UNCHANGED <<writes, failures>>

Crash == \E effect \in Effects : LoseMemory(effect)

\* A device in ERROR mode is given up and checked anew once its requests are over.
Reinitialize == mode = "ERROR" /\ step = "idle" /\ Marked = {} /\ LoseMemory("none")

ScanChunk ==
  /\ mode = "RECOVERY" /\ scan \in Chunks
  /\ scan' = scan + 1
  /\ LET ctl == chunkCtl[scan]
     IN IF ctl = Torn
        THEN UNCHANGED <<Map, Used, SCN, WCN, ChunkNo, ChunkLBA>>
        ELSE /\ SCN' = [SCN EXCEPT ![scan] = ctl.scn]
             /\ WCN' = [WCN EXCEPT ![scan] = ctl.wcn]
             /\ UpdateMap(ctl.lba, ctl.start..(ctl.end - 1), scan, SCN')
             /\ IF SCN[ChunkNo] <= ctl.scn THEN ChunkNo' = scan /\ ChunkLBA' = ctl.lba
                                           ELSE UNCHANGED <<ChunkNo, ChunkLBA>>
  /\ UNCHANGED <<mode, NextChunkNo, FinalizedPos, PurgePos, cacheVars, relocVars, req, step,
                 readVars, diskVars, bookVars>>

\* The newest control tells where the log goes on: behind its End or, when its chunk is
\* full, at the start of the chunk it names.
RecoverPosition ==
  /\ mode = "RECOVERY" /\ scan = MAX_CHUNKS
  /\ scan' = scan + 1
  /\ LET ctl == chunkCtl[ChunkNo]
         end == IF ctl = Torn THEN 0 ELSE ctl.end
     IN IF end = LastPurgePos
        THEN /\ SucceedBy(ctl.next)
             /\ WCN' = [WCN EXCEPT ![ctl.next] = IF @ < ctl.nextWcn THEN ctl.nextWcn ELSE @]
             /\ ChunkNo' = ctl.next
             /\ PurgePos' = FirstPos(ctl.next) /\ FinalizedPos' = FirstPos(ctl.next)
        ELSE PurgePos' = end /\ FinalizedPos' = end /\ UNCHANGED <<SCN, WCN, ChunkNo>>
  /\ UNCHANGED <<mode, Map, Used, NextChunkNo, ChunkLBA, cacheVars, relocVars, req, step,
                 readVars, diskVars, bookVars>>

ReplayPurge ==
  /\ mode = "RECOVERY" /\ scan = MAX_CHUNKS + 1 /\ PurgeOnMedium(purgeCtl)
  /\ LET lba == [p \in PurgeRange |-> purgeCtl[<<ChunkNo, PurgePos>>].lba[p - PurgePos]]
     IN /\ ChunkLBA' = RecordPurge(lba)
        /\ UpdateMap(lba, PurgeRange, ChunkNo, SCN)
  /\ PurgePos' = PurgePos + CacheSize
  /\ UNCHANGED <<mode, SCN, WCN, ChunkNo, NextChunkNo, FinalizedPos, cacheVars, relocVars, req,
                 step, readVars, diskVars, scan, bookVars>>

FinishRecovery ==
  /\ mode = "RECOVERY" /\ scan = MAX_CHUNKS + 1 /\ ~PurgeOnMedium(purgeCtl)
  /\ FindNextChunk(ChunkNo, PurgePos)
  /\ mode' = "ACTIVE" /\ scan' = scan + 1
  /\ UNCHANGED <<Map, Used, SCN, WCN, ChunkNo, ChunkLBA, FinalizedPos, PurgePos, cacheVars, req,
                 step, readVars, diskVars, bookVars>>

RecoveryFails ==
  /\ mode = "RECOVERY" /\ failures < MaxFailures
  /\ failures' = failures + 1
  /\ mode' = "ERROR"
  /\ UNCHANGED <<logVars, cacheVars, relocVars, req, step, readVars, diskVars, scan, saved, writes>>

-----------------------------------------------------------------------------
(* The medium as SetLevelingConfig leaves it: chunk 1 is first, and on a fixed disk its *)
(* first purge holds a partition table in block 0.                                      *)
FormatLBA(fixed) == [p \in Positions |-> IF fixed /\ p = 0 THEN 0 ELSE NotMapped]

Formatted(fixed) ==
  /\ data = [l \in Places |-> IF fixed /\ l = <<1, 0>> THEN Whole(0) ELSE Whole(Garbage)]
  /\ purgeCtl = [l \in PurgePlaces |->
                   IF fixed /\ l = <<1, 0>>
                   THEN [scn |-> 1, lba |-> [i \in 0..LastCachePos |-> IF i = 0 THEN 0 ELSE NotMapped]]
                   ELSE Torn]
  /\ chunkCtl = [c \in Chunks |->
                   IF c = 1 THEN [scn |-> 1, wcn |-> 1, next |-> 1, nextWcn |-> 0, start |-> 0,
                                  end |-> IF fixed THEN CacheSize ELSE 0, lba |-> FormatLBA(fixed)]
                            ELSE Torn]
  /\ saved = [b \in Blocks |-> IF fixed /\ b = 0 THEN Whole(0) ELSE {}]

Init ==
  /\ \E fixed \in BOOLEAN : Formatted(fixed)
  /\ mode = "RECOVERY" /\ scan = 0
  /\ Map = [b \in Blocks |-> NotMapped]
  /\ Used = [c \in Chunks |-> 0] /\ SCN = [c \in Chunks |-> 0] /\ WCN = [c \in Chunks |-> 0]
  /\ ChunkNo = 1 /\ NextChunkNo = 0 /\ ChunkLBA = [p \in Positions |-> 0]
  /\ FinalizedPos = 0 /\ PurgePos = 0
  /\ cache = <<>> /\ CacheDirty = FALSE
  /\ RelocationPrepared = FALSE /\ RelocationDone = FALSE
  /\ NextLBA = [p \in Positions |-> 0] /\ RelocateMem = [p \in Positions |-> {}]
  /\ RelocatePos = 0 /\ WindowStart = 0 /\ WindowEnd = 0
  /\ RelocateTarget = 0 /\ RelocateSource = 0
  /\ req = NoRequest /\ step = "idle"
  /\ reading = [r \in Readers |-> NotReading] /\ marked = {}
  /\ writes = [b \in Blocks |-> 0] /\ failures = 0

\* The thread at work on a request.
Serve ==
  \/ WriteAbort \/ CloseChunk \/ SwitchChunk \/ PrepareRelocate \/ PrepareRelocateDone
  \/ RelocateQuota \/ RelocateEnd \/ RelocateCopy \/ ExecuteRelocate \/ RelocateRead
  \/ WriteHit \/ WritePurge \/ WriteFill \/ CacheFillReadDone \/ WriteAppend
  \/ FlushFill \/ FlushPurge \/ FlushFinalize \/ FlushDone
  \/ PurgeCacheDone \/ PurgeChunkDone \/ IoFails

Recover == ScanChunk \/ RecoverPosition \/ ReplayPurge \/ FinishRecovery

Next ==
  \/ \E k \in Kinds, b \in Blocks : DispatchWrite(k, b)
  \/ \E k \in Kinds : DispatchFlush(k)
  \/ Serve
  \/ \E r \in Readers, b \in Blocks : StartRead(r, b)
  \/ \E r \in Readers : FinishRead(r)
  \/ Crash \/ Reinitialize \/ Recover \/ RecoveryFails

Spec == Init /\ [][Next]_vars

\* Completions arrive: the thread, the readers and the recovery worker are not left waiting.
FairSpec == Spec /\ WF_vars(Serve) /\ WF_vars(Recover)
                 /\ \A r \in Readers : WF_vars(FinishRead(r))

-----------------------------------------------------------------------------
(* Properties *)

Loaded == scan = MAX_CHUNKS + 2

Ids == Halves \X (0..Garbage)
PurgeEnds   == {n * CacheSize : n \in 0..PURGES}
LBATable    == [Positions -> Blocks \cup {NotMapped}]
CacheEntries == [lba : Blocks, data : SUBSET Ids, open : BOOLEAN]
PurgeCtls == [scn : Nat, lba : [0..LastCachePos -> Blocks \cup {NotMapped}]]
ChunkCtls == [scn : Nat, wcn : Nat, next : Chunks, nextWcn : Nat,
              start : {0, CacheSize}, end : PurgeEnds, lba : LBATable]

ASSUME TornIsNoControl == Torn \notin PurgeCtls /\ Torn \notin ChunkCtls

LogTypeOK ==
  /\ Map \in [Blocks -> Places \cup {NotMapped}]
  /\ Used \in [Chunks -> Nat] /\ SCN \in [Chunks -> Nat] /\ WCN \in [Chunks -> Nat]
  /\ ChunkNo \in Chunks /\ NextChunkNo \in Chunks
  /\ ChunkLBA \in LBATable
  /\ FinalizedPos \in PurgeEnds /\ PurgePos \in PurgeEnds

CacheTypeOK == cache \in Seq(CacheEntries) /\ CacheDirty \in BOOLEAN

RelocationTypeOK ==
  /\ RelocationPrepared \in BOOLEAN /\ RelocationDone \in BOOLEAN
  /\ NextLBA \in LBATable
  /\ RelocatePos \in 0..LastPurgePos
  /\ WindowStart \in 0..LastPurgePos /\ WindowEnd \in 0..LastPurgePos
  /\ RelocateMem \in [Positions -> SUBSET Ids]
  /\ RelocateTarget \in Nat /\ RelocateSource \in Nat

ThreadTypeOK ==
  /\ mode \in {"RECOVERY", "ACTIVE", "ERROR"}
  /\ step \in {"idle", "handler", "copy", "prepare", "marked", "relocate", "fill", "purge",
               "finalize"}
  /\ step # "idle" => req \in [kind : Kinds, block : Blocks]
  /\ reading \in [Readers -> {NotReading} \cup [place : Places, expected : SUBSET Ids]]
  /\ marked \subseteq Readers
  /\ scan \in 0..(MAX_CHUNKS + 2)

DiskTypeOK ==
  /\ data \in [Places -> SUBSET Ids]
  /\ purgeCtl \in [PurgePlaces -> PurgeCtls \cup {Torn}]
  /\ chunkCtl \in [Chunks -> ChunkCtls \cup {Torn}]

BookTypeOK ==
  /\ saved \in [Blocks -> SUBSET Ids]
  /\ writes \in [Blocks -> 0..MaxWrites] /\ failures \in 0..MaxFailures

\* Every variable stays in its type; in particular Used never falls below zero and the
\* positions stay on the boundaries of purges, inside the chunk.
TypeOK == /\ LogTypeOK /\ CacheTypeOK /\ RelocationTypeOK
          /\ ThreadTypeOK /\ DiskTypeOK /\ BookTypeOK

\* The cache holds a block once, only its last block is open, and it leaves room for the
\* control of the purge (the assertions of ExecutePurgeCache and ExecuteWriteHandler).
CacheConsistent ==
  /\ Len(cache) <= LastCachePos
  /\ \A i, j \in 1..Len(cache) : cache[i].lba = cache[j].lba => i = j
  /\ \A i \in 1..Len(cache) : cache[i].open => i = Len(cache)

\* What holds between the steps of the thread, and makes CacheConsistent inductive.
CachePhases ==
  /\ PurgePos = LastPurgePos => cache = <<>> /\ ~CacheDirty
  /\ step \in {"copy", "fill", "purge"} => PurgePos < LastPurgePos
  /\ step = "copy" => ~RelocationDone
  /\ step \in {"copy", "fill"} => RelocationPrepared
  /\ step = "fill" =>
       /\ RelocationDone /\ Map[FillBlock] # NotMapped
       /\ ~CacheOpen => Len(cache) < LastCachePos /\ ~Cached(req.block)
  /\ mode = "RECOVERY" => cache = <<>> /\ ~CacheDirty /\ step = "idle"
  /\ ~RelocationPrepared => cache = <<>>
  /\ step = "prepare" => ~RelocationPrepared

\* Until the relocation is done for a purge the cache holds only blocks copied from the
\* next chunk, all from below the place the relocation has come to.
RelocatedOnly ==
  ~RelocationDone =>
    \A i \in 1..Len(cache) :
      ~cache[i].open /\ \E q \in Positions : q < RelocatePos /\ Map[cache[i].lba] = <<NextChunkNo, q>>

\* ChunkInfo.Used is the number of blocks mapped into the chunk, also halfway in recovery.
UsedCounts ==
  \A c \in Chunks : Used[c] = Cardinality({b \in Blocks : Map[b] # NotMapped /\ Map[b][1] = c})

\* When a chunk is full the next one holds no live block (the assertion at vscsi.c:233).
NextChunkIsEmpty == Loaded /\ PurgePos = LastPurgePos => Used[NextChunkNo] = 0

\* Recovery never meets the "Broken relocation consistency" of recovery.c:136-139: the
\* chunk named by the newest full chunk holds no block only it knows of.
RelocationConsistent ==
  mode = "RECOVERY" /\ scan = MAX_CHUNKS /\ chunkCtl[ChunkNo] # Torn
    => (chunkCtl[ChunkNo].end = LastPurgePos => Used[chunkCtl[ChunkNo].next] = 0)

\* The blocks still to be relocated never get ahead of the room left in the chunk.
RelocationKeepsPace ==
  Loaded /\ RelocationPrepared =>
    RelocateSource * (LastPurgePos - PurgePos) >= RelocateTarget * Used[NextChunkNo]

\* The LBA table read from the next chunk names all its live blocks (vrelocation.c:29-42),
\* and no more are relocated than there are (vrelocation.c:62).
RelocationSeesAll ==
  Loaded /\ RelocationPrepared =>
    /\ Used[NextChunkNo] = Cardinality({p \in Positions : Live(p)})
    /\ ~RelocationDone /\ step \in {"handler", "copy"} /\ PurgePos < LastPurgePos
         => Used[NextChunkNo] >= Len(cache)

\* A purge only overwrites places no block is mapped to.
NoLiveOverwritten ==
  step = "purge" => \A b \in Blocks : Map[b] # NotMapped
                      => ~(Map[b][1] = ChunkNo /\ Map[b][2] \in PurgeRange)

\* A read in flight finds at its place what was there when it was started, and the place
\* is not being written (MarkReadingThreads and WaitMarkedThreads...).
ReadsUndisturbed ==
  \A r \in Readers : reading[r] # NotReading =>
    /\ data[reading[r].place] = reading[r].expected
    /\ ~(step = "purge" /\ reading[r].place[1] = ChunkNo /\ reading[r].place[2] \in PurgeRange)

\* The chunk in use is the newest one: recovery starts from it after the next restart.
CurrentIsNewest ==
  Loaded => \A c \in Chunks \ {ChunkNo} : SCN[c] < SCN[ChunkNo]

Shown == IF Loaded THEN Content ELSE saved
Accepted == IF step # "idle" /\ IsWrite
            THEN [block |-> req.block, covers |-> Covers(req.kind), reaches |-> Reaches(req.kind),
                  token |-> WriteId(req.block)]
            ELSE NoRequest
Store == INSTANCE SnapshotStore WITH Parts <- Halves, Tokens <- 0..Garbage, None <- NoRequest,
                                     contents <- Shown, accepted <- Accepted

\* The log behaves as the store: a step does the write that was accepted, or commits all
\* blocks, or falls back to the last commit; relocation, switching, recovery and failures
\* show nothing.
StoreSpec == Store!Spec

\* The writes a block may show: those made to it, and in block 0 what SetLevelingConfig put there.
MadeTo(b) == {n * SIZE_OF_MAP + b : n \in 1..writes[b]} \cup (IF b = 0 THEN {0} ELSE {})

\* No block ever shows, now or after a power loss, what was written to another one, what an
\* earlier life of its place left there, or what the cache memory held beyond CachePos.
OnlyOwnWrites ==
  \A b \in Blocks : \A x \in Shown[b] \cup saved[b] : x[2] \in MadeTo(b)

\* A power loss takes back no more blocks than one cache holds.
LossIsBounded == Cardinality({b \in Blocks : Shown[b] # saved[b]}) <= LastCachePos

\* While the thread waits, one of the readers it waits for still reads: the last one wakes
\* it, and no reader is marked that is not at work (vgate.c:236-262, 378-386).
WaitsForReaders ==
  /\ \A r \in marked : reading[r] # NotReading
  /\ step = "marked" => marked # {}

\* Every request the thread takes up comes to an end.
RequestsEnd == (step # "idle") ~> (step = "idle")

-----------------------------------------------------------------------------
(* Why requests end: how far the thread is from the end of the one it is at *)

One(P) == IF P THEN 1 ELSE 0

\* More room is left in the chunk than the relocation of the next one takes.
Slack == Used[NextChunkNo] * CacheSize < (LastPurgePos - PurgePos) * LastCachePos

\* The chunks that relocation may have to fill up before there is slack; only chunk 0, which
\* has a purge less, can be one that the choice of the next chunk leaves without.
ChunksToFill == IF Slack THEN 0 ELSE IF NextChunkNo # 0 THEN 1 ELSE 2

\* The cache holds a block that is not one of the next chunk's.
Mixed == \E i \in 1..Len(cache) : Map[cache[i].lba] = NotMapped \/ Map[cache[i].lba][1] # NextChunkNo

\* What is still to be done before the purge at PurgePos.
Stage == IF PurgePos = LastPurgePos
         THEN IF step = "finalize" THEN 6 ELSE IF FinalizedPos < LastPurgePos THEN 7 ELSE 5
         ELSE IF ~RelocationPrepared THEN IF step = "prepare" THEN 3 ELSE 4
         ELSE IF step = "marked" THEN 2 ELSE IF ~RelocationDone THEN 1 ELSE 0

Windowed == \E p \in LeftToRelocate : First(p, LeftToRelocate) /\ InWindow(p)

StillToDo == CASE Stage = 2 -> Cardinality(marked)
               [] Stage = 1 -> LastPurgePos - RelocatePos
               [] OTHER     -> 0

Turn == CASE Stage = 1 -> IF step = "relocate" THEN 3 ELSE IF step = "handler" THEN 2 ELSE 1
          [] Stage = 0 -> IF step = "purge" THEN 1
                          ELSE (IF CacheOpen THEN 4 ELSE 2) + One(step # "fill")
          [] OTHER     -> 0

FlushStage == IF CacheOpen THEN 5 + One(step # "fill")
              ELSE IF step = "purge" THEN 3 ELSE IF CacheDirty THEN 4
              ELSE IF step = "finalize" THEN 1 ELSE IF ToFinalize THEN 2 ELSE 0

\* A failure sends the thread back; a purge takes it on only if no block is left in the cache
\* that was written, or if the relocation is so far ahead that a block will fit.
Distance ==
  IF IsWrite
  THEN << MaxFailures - failures, One(~Cached(req.block)), One(Mixed), ChunksToFill,
          LastPurgePos - PurgePos, Stage, StillToDo, One(~Windowed), Turn >>
  ELSE << MaxFailures - failures, FlushStage, 0, 0, 0, 0, 0, 0, 0 >>

\* Lexicographically less.
Below(d, e) == \E i \in DOMAIN e : d[i] < e[i] /\ \A j \in 1..(i - 1) : d[j] = e[j]

\* Every step of the thread at a request ends it or comes nearer to its end, and so does the
\* last reader it waits for; what the other readers do takes it no farther.
StepsComeNearer ==
  [][step # "idle" /\ step' # "idle" =>
       /\ Serve => Below(Distance', Distance)
       /\ Distance' = Distance \/ Below(Distance', Distance)]_vars

\* Ejecting the disk or shutting down saves everything written before (readme_en.txt:59).
EjectSavesEverything == [][FlushDone /\ req.kind = "final" => saved = Content]_vars

\* ASSERT(Ctx->CachePos == 0) of ExecutePurgeChunk (vscsi.c:493).
CacheEmptyAtPurgeChunk == step = "finalize" => cache = <<>>

=============================================================================
