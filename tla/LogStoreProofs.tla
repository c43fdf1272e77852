--------------------------- MODULE LogStoreProofs ---------------------------
(***************************************************************************)
(* What ChunkLog shows to those who read: a read in flight finds its place *)
(* as it was, and the log behaves as SnapshotStore says.  For every        *)
(* geometry with room for all blocks in all but one of the chunks.         *)
(***************************************************************************)
EXTENDS LogMapProofs

-----------------------------------------------------------------------------
(* Reads in flight *)

\* A read in flight was sent to a place behind PurgePos, or its reader is marked and waited
\* for before the next purge.
ReadsKept ==
  /\ ~Loaded => \A r \in Readers : reading[r] = NotReading
  /\ \A r \in Readers : reading[r] # NotReading =>
       /\ data[reading[r].place] = reading[r].expected
       /\ reading[r].place[1] = ChunkNo => reading[r].place[2] < PurgePos \/ r \in marked
       /\ step = "finalize" \/ FinalizedPos = LastPurgePos =>
            (reading[r].place[1] = NextChunkNo => r \in marked)
  /\ marked # {} => step = "marked" \/ ~RelocationPrepared \/ PurgePos = LastPurgePos
  /\ step = "finalize" \/ FinalizedPos = LastPurgePos => PurgePos = LastPurgePos

\* Reads are kept by a step that leaves the log, the readers and the data alone.
LEMMA ReadsFrame ==
  ASSUME ReadsKept,
         UNCHANGED <<ChunkNo, NextChunkNo, FinalizedPos, PurgePos, RelocationPrepared, reading,
                     marked, data, scan>>,
         step' = "finalize" => step = "finalize", step = "marked" => step' = "marked"
  PROVE  ReadsKept'
BY DEF ReadsKept, Loaded

\* Most steps of the thread do.
LEMMA ThreadStepsKeepReads ==
  ASSUME ReadsKept,
         \/ \E k \in Kinds, b \in Blocks : DispatchWrite(k, b)
         \/ \E k \in Kinds : DispatchFlush(k)
         \/ WriteAbort \/ FlushDone
         \/ PrepareRelocate \/ RelocateQuota \/ RelocateEnd \/ RelocateCopy \/ ExecuteRelocate
         \/ RelocateRead
         \/ WriteHit \/ WritePurge \/ WriteFill \/ CacheFillReadDone \/ WriteAppend
         \/ FlushFill \/ FlushPurge
         \/ RecoveryFails \/ UNCHANGED vars
  PROVE  ReadsKept'
<1>1. ASSUME NEW k \in Kinds, NEW b \in Blocks, DispatchWrite(k, b) PROVE ReadsKept'
  BY <1>1, ReadsFrame DEF DispatchWrite, logVars, relocVars, readVars, diskVars
<1>2. ASSUME NEW k \in Kinds, DispatchFlush(k) PROVE ReadsKept'
  BY <1>2, ReadsFrame DEF DispatchFlush, logVars, relocVars, readVars, diskVars
<1>3. CASE WriteAbort \/ FlushDone
  BY <1>3, ReadsFrame DEF WriteAbort, FlushDone, Flushing, logVars, relocVars, readVars, diskVars
<1>4. CASE PrepareRelocate \/ RelocateQuota
  BY <1>4, ReadsFrame DEF PrepareRelocate, RelocateQuota, Relocating, Writing, logVars, relocVars,
     readVars, diskVars
<1>5. CASE RelocateEnd \/ RelocateCopy \/ ExecuteRelocate \/ RelocateRead
  BY <1>5, ReadsFrame DEF RelocateEnd, RelocateCopy, ExecuteRelocate, RelocateRead, logVars,
     readVars, diskVars
<1>6. CASE WriteHit \/ WriteAppend \/ CacheFillReadDone
  BY <1>6, ReadsFrame DEF WriteHit, WriteAppend, CacheFillReadDone, Ready, Writing, logVars,
     relocVars, readVars, diskVars
<1>7. CASE WriteFill \/ FlushFill
  BY <1>7, ReadsFrame DEF WriteFill, FlushFill, CacheFill, Ready, Writing, Flushing, logVars,
     relocVars, readVars, diskVars
<1>8. CASE WritePurge \/ FlushPurge
  BY <1>8, ReadsFrame DEF WritePurge, FlushPurge, ExecutePurgeCache, Ready, Writing, Flushing,
     relocVars, readVars, diskVars
<1>9. CASE RecoveryFails \/ UNCHANGED vars
  BY <1>9, ReadsFrame DEF RecoveryFails, vars, logVars, relocVars, readVars, diskVars
<1> QED BY <1>1, <1>2, <1>3, <1>4, <1>5, <1>6, <1>7, <1>8, <1>9

\* The control of the next chunk has been read: the marked readers are waited for.
LEMMA PrepareRelocateDoneKeepsReads ==
  ASSUME ReadsKept, PrepareRelocateDone
  PROVE  ReadsKept'
<1>1. /\ UNCHANGED <<ChunkNo, NextChunkNo, FinalizedPos, PurgePos, reading, marked, data, scan>>
      /\ step' = IF marked = {} THEN "handler" ELSE "marked"
  BY DEF PrepareRelocateDone, logVars, readVars, diskVars
<1> QED BY <1>1 DEF ReadsKept, Loaded

\* A read is sent to the place where its block is mapped.
LEMMA StartReadKeepsReads ==
  ASSUME IInv, Order, MapInv, ReadsKept, NEW r \in Readers, NEW b \in Blocks, StartRead(r, b)
  PROVE  ReadsKept'
<1> DEFINE read == [place |-> Map[b], expected |-> data[Map[b]]]
<1>1. /\ mode = "ACTIVE" /\ Map[b] # NotMapped
      /\ UNCHANGED <<scan, step, marked, data, ChunkNo, NextChunkNo, FinalizedPos, PurgePos,
                     RelocationPrepared>>
      /\ \A q \in Readers : reading'[q] = IF q = r THEN read ELSE reading[q]
  BY DEF StartRead, logVars, relocVars, diskVars, IInv, TypeOK, ThreadTypeOK
<1>2. Loaded
  BY <1>1 DEF Order, OrderPhases
<1>3. Map[b][1] = ChunkNo => Map[b][2] < PurgePos
  BY <1>1, <1>2 DEF MapInv, Running, Log, Agrees, Says
<1>4. step = "finalize" \/ FinalizedPos = LastPurgePos => Map[b][1] # NextChunkNo
  <2> SUFFICES ASSUME step = "finalize" \/ FinalizedPos = LastPurgePos
               PROVE  Map[b][1] # NextChunkNo
    OBVIOUS
  <2>1. In(Map, NextChunkNo) = {}
    BY <1>2, FullChunkSucceeds DEF ReadsKept
  <2> QED BY <1>1, <2>1 DEF In
<1>5. read.place = Map[b] /\ read.expected = data[Map[b]]
  OBVIOUS
<1> HIDE DEF read
<1> QED BY <1>1, <1>2, <1>3, <1>4, <1>5 DEF ReadsKept, Loaded

\* A read that ends frees the marked reader.
LEMMA FinishReadKeepsReads ==
  ASSUME TypeOK, ReadsKept, NEW r \in Readers, FinishRead(r)
  PROVE  ReadsKept'
<1>1. /\ UNCHANGED <<scan, data, ChunkNo, NextChunkNo, FinalizedPos, PurgePos, RelocationPrepared>>
      /\ marked' = marked \ {r} /\ step' = IF step = "marked" /\ marked' = {} THEN "handler" ELSE step
      /\ \A q \in Readers : reading'[q] = IF q = r THEN NotReading ELSE reading[q]
  BY DEF FinishRead, logVars, relocVars, diskVars, TypeOK, ThreadTypeOK
<1> QED BY <1>1 DEF ReadsKept, Loaded

\* What a write reaches of the medium is no place of a read.
LEMMA WriteMissesReads ==
  ASSUME IInv, MapInv, ReadsKept, NEW effect, WriteReaches(effect),
         NEW r \in Readers, reading[r] # NotReading
  PROVE  data'[reading[r].place] = data[reading[r].place]
<1>1. CASE UNCHANGED data
  BY <1>1
<1>2. CASE step = "purge" /\ data' = PurgedData
  <2>1. RelocationPrepared /\ PurgePos < LastPurgePos /\ PurgePos # LastPurgePos
    BY <1>2, PurgePosition DEF IInv, TypeOK, CachePhases, MapInv, Relocation, PacePhases
  <2>2. marked = {}
    BY <1>2, <2>1 DEF ReadsKept
  <2>3. reading[r].place \in Places /\ reading[r].place[2] \in Nat
    BY SmallNumbers DEF IInv, TypeOK, ThreadTypeOK, Places
  <2>4. ~(reading[r].place[1] = ChunkNo /\ reading[r].place[2] \in PurgeRange)
    BY <2>2, <2>3, PurgePosition DEF ReadsKept, PurgeRange, IInv, TypeOK
  <2> QED BY <1>2, <2>3, <2>4 DEF PurgedData
<1> QED BY <1>1, <1>2 DEF WriteReaches, diskVars

\* A write to the medium misses the reads in flight.
LEMMA WritesKeepReads ==
  ASSUME IInv, MapInv, ReadsKept, PurgeCacheDone \/ PurgeChunkDone \/ IoFails
  PROVE  ReadsKept'
<1>1. PICK effect : WriteReaches(effect)
  BY DEF PurgeCacheDone, PurgeChunkDone, IoFails
<1>2. /\ UNCHANGED <<scan, ChunkNo, NextChunkNo, RelocationPrepared, reading, marked>>
      /\ step' = "handler" /\ step # "marked"
  BY DEF PurgeCacheDone, PurgeChunkDone, IoFails, logVars, relocVars, readVars
<1>3. \A r \in Readers : reading[r] # NotReading => data'[reading[r].place] = data[reading[r].place]
  BY <1>1, WriteMissesReads
<1>4. PurgePos \in Nat /\ CacheSize \in Nat /\ LastPurgePos \in Nat
      /\ \A r \in Readers : reading[r] # NotReading => reading[r].place[2] \in Nat
  BY PurgePosition, Sizes, SmallNumbers DEF IInv, TypeOK, ThreadTypeOK, Places
<1>5. CASE PurgeCacheDone
  <2>1. step = "purge" /\ PurgePos' = PurgePos + CacheSize /\ UNCHANGED FinalizedPos
    BY <1>5 DEF PurgeCacheDone
  <2>2. PurgePos < LastPurgePos /\ PurgePos # LastPurgePos
    BY <1>4, <2>1 DEF IInv, CachePhases
  <2> QED BY <1>2, <1>3, <1>4, <2>1, <2>2 DEF ReadsKept, Loaded
<1>6. CASE PurgeChunkDone
  <2>1. step = "finalize" /\ FinalizedPos' = PurgePos /\ UNCHANGED PurgePos
    BY <1>6 DEF PurgeChunkDone
  <2> QED BY <1>2, <1>3, <2>1 DEF ReadsKept, Loaded
<1>7. CASE IoFails
  <2>1. UNCHANGED <<FinalizedPos, PurgePos>>
    BY <1>7 DEF IoFails, logVars
  <2> QED BY <1>2, <1>3, <2>1 DEF ReadsKept, Loaded
<1> QED BY <1>5, <1>6, <1>7

\* A chunk that is closed because it is full marks all readers at work.
LEMMA CloseChunkKeepsReads ==
  ASSUME ReadsKept, CloseChunk
  PROVE  ReadsKept'
<1>1. /\ PurgePos = LastPurgePos /\ marked' = marked \cup Marked /\ step' = "finalize"
      /\ UNCHANGED <<scan, ChunkNo, NextChunkNo, FinalizedPos, PurgePos, RelocationPrepared,
                     reading, data>>
  BY DEF CloseChunk, ExecutePurgeChunk, relocVars, diskVars
<1> QED BY <1>1 DEF ReadsKept, Marked, Loaded

\* The log moves on to the next chunk: its readers are marked.
LEMMA SwitchChunkKeepsReads ==
  ASSUME Order, ReadsKept, SwitchChunk, Order', TypeOK
  PROVE  ReadsKept'
<1>1. /\ FinalizedPos = LastPurgePos /\ ChunkNo' = NextChunkNo /\ step' = "handler"
      /\ FinalizedPos' = FirstPos(NextChunkNo) /\ ~RelocationPrepared'
      /\ UNCHANGED <<scan, reading, marked, data>>
  BY DEF SwitchChunk, Writing, FindNextChunk, readVars, diskVars
<1>2. FinalizedPos' # LastPurgePos
  BY <1>1, SmallNumbers, OrderTypes
<1> QED BY <1>1, <1>2 DEF ReadsKept, Loaded

\* No read is in flight from a restart until recovery is over.
LEMMA RestartKeepsReads ==
  ASSUME Crash \/ Reinitialize
  PROVE  ReadsKept'
<1>1. /\ \A r \in Readers : reading'[r] = NotReading
      /\ step' = "idle" /\ marked' = {} /\ FinalizedPos' = 0
  BY DEF Crash, Reinitialize, LoseMemory
<1> QED BY <1>1, Sizes DEF ReadsKept

\* No read is in flight during recovery.
LEMMA RecoverKeepsReads ==
  ASSUME IInv, MapInv, Order', ReadsKept, Order, Recover
  PROVE  ReadsKept'
<1>1. /\ mode = "RECOVERY" /\ ~Loaded /\ UNCHANGED <<step, reading, marked>>
      /\ (Loaded' => FinishRecovery)
  BY Geometry DEF Recover, ScanChunk, RecoverPosition, ReplayPurge, FinishRecovery, readVars, Loaded,
     Chunks
<1>2. step = "idle" /\ ~RelocationPrepared /\ FinalizedPos # LastPurgePos
  BY <1>1 DEF IInv, CachePhases, MapInv, Relocation, PacePhases, Order, Closed
<1>3. FinalizedPos' # LastPurgePos
  <2>1. CASE FinishRecovery
    BY <1>2, <2>1 DEF FinishRecovery
  <2> QED BY <1>1, <2>1 DEF Order, Closed
<1>4. ~RelocationPrepared'
  BY <1>2 DEF Recover, ScanChunk, RecoverPosition, ReplayPurge, FinishRecovery, relocVars,
     FindNextChunk
<1> QED BY <1>1, <1>2, <1>3, <1>4 DEF ReadsKept

\* Reads are kept by every step, if no flush finalizes.
LEMMA NextKeepsReads ==
  ASSUME "final" \notin Kinds, IInv, Order, Order', MapInv, ReadsKept, [Next]_vars
  PROVE  ReadsKept'
<1>1. TypeOK /\ ~FlushFinalize
  BY DEF IInv, TypeOK, ThreadTypeOK, FlushFinalize, Flushing, ToFinalize
<1>2. CASE Serve
  <2>1. CASE \/ WriteAbort \/ FlushDone
             \/ PrepareRelocate \/ RelocateQuota \/ RelocateEnd \/ RelocateCopy \/ ExecuteRelocate
             \/ RelocateRead
             \/ WriteHit \/ WritePurge \/ WriteFill \/ CacheFillReadDone \/ WriteAppend
             \/ FlushFill \/ FlushPurge
    BY <2>1, ThreadStepsKeepReads
  <2>2. CASE CloseChunk BY <2>2, CloseChunkKeepsReads
  <2>3. CASE SwitchChunk BY <1>1, <2>3, SwitchChunkKeepsReads
  <2>4. CASE PrepareRelocateDone BY <2>4, PrepareRelocateDoneKeepsReads
  <2>5. CASE PurgeCacheDone \/ PurgeChunkDone \/ IoFails BY <2>5, WritesKeepReads
  <2> QED BY <1>1, <1>2, <2>1, <2>2, <2>3, <2>4, <2>5 DEF Serve
<1>3. CASE Crash \/ Reinitialize
  BY <1>3, RestartKeepsReads
<1>4. CASE Recover
  BY <1>4, RecoverKeepsReads
<1>5. ASSUME NEW r \in Readers, NEW b \in Blocks, StartRead(r, b) PROVE ReadsKept'
  BY <1>5, StartReadKeepsReads
<1>6. ASSUME NEW r \in Readers, FinishRead(r) PROVE ReadsKept'
  BY <1>1, <1>6, FinishReadKeepsReads
<1>7. CASE \/ \E k \in Kinds, b \in Blocks : DispatchWrite(k, b)
           \/ \E k \in Kinds : DispatchFlush(k)
           \/ RecoveryFails \/ UNCHANGED vars
  BY <1>7, ThreadStepsKeepReads
<1> QED BY <1>2, <1>3, <1>4, <1>5, <1>6, <1>7 DEF Next

\* No read is in flight at first.
LEMMA InitReads == Init => ReadsKept
BY Sizes DEF Init, ReadsKept

\* A read in flight finds its place as it was when it was sent there: chunks are closed
\* under marked readers and used again only when these are through (vscsi.c:216-243,
\* MarkReadingThreads).  Assumed is that no flush finalizes; with one it is false.
THEOREM ReadsSafe ==
  ~TornFirstChunk /\ Capacity /\ "final" \notin Kinds /\ Spec => []ReadsUndisturbed
<1> SUFFICES ASSUME ~TornFirstChunk, Capacity, "final" \notin Kinds
             PROVE  Spec => []ReadsUndisturbed
  OBVIOUS
<1>1. Init => ReadsKept
  BY InitReads
<1>2. IInv /\ Order /\ MapInv /\ ReadsKept /\ Order' /\ [Next]_vars => ReadsKept'
  BY NextKeepsReads
<1>3. IInv /\ MapInv /\ ReadsKept => ReadsUndisturbed
  <2> SUFFICES ASSUME IInv, MapInv, ReadsKept, NEW r \in Readers, reading[r] # NotReading, step = "purge"
               PROVE  ~(reading[r].place[1] = ChunkNo /\ reading[r].place[2] \in PurgeRange)
    BY DEF ReadsUndisturbed, ReadsKept
  <2>1. RelocationPrepared /\ PurgePos # LastPurgePos
    BY PurgePosition DEF IInv, TypeOK, CachePhases, MapInv, Relocation, PacePhases
  <2>2. marked = {}
    BY <2>1 DEF ReadsKept
  <2>3. reading[r].place[2] \in Nat
    BY SmallNumbers DEF IInv, TypeOK, ThreadTypeOK, Places
  <2> QED BY <2>2, <2>3, PurgePosition DEF ReadsKept, PurgeRange, IInv, TypeOK
<1> QED BY <1>1, <1>2, <1>3, MapKept, PTL DEF Spec
-----------------------------------------------------------------------------
(* What a cache shows *)

\* What a map shows of the medium, and what a cache shows above it.
Placed(m, d) == [b \in Blocks |-> IF m[b] = NotMapped THEN {} ELSE d[m[b]]]

Above(entry, old) == entry.data \cup IF entry.open THEN Half("tail", old) ELSE {}

Seen(c, m, d) ==
  [b \in Blocks |->
     IF \E i \in 1..Len(c) : c[i].lba = b
     THEN UNION {Above(c[i], Placed(m, d)[b]) : i \in {j \in 1..Len(c) : c[j].lba = b}}
     ELSE Placed(m, d)[b]]

HoldsOnce(c) == \A i, j \in 1..Len(c) : c[i].lba = c[j].lba => i = j

\* Content is what the cache shows above the map.
LEMMA ContentSeen == Content = Seen(cache, Map, data) /\ Content' = Seen(cache', Map', data')
BY DEF Content, Seen, Above, Placed, Cached, CachedAt, PlaceWrite

\* A block is shown by its one entry, or else by its place.
LEMMA SeenIn ==
  ASSUME NEW c, NEW m, NEW d, HoldsOnce(c), NEW i \in 1..Len(c), c[i].lba \in Blocks
  PROVE  Seen(c, m, d)[c[i].lba] = Above(c[i], Placed(m, d)[c[i].lba])
<1> DEFINE at == {j \in 1..Len(c) : c[j].lba = c[i].lba}
<1>1. at = {i}
  BY DEF HoldsOnce
<1>2. Seen(c, m, d)[c[i].lba] = UNION {Above(c[j], Placed(m, d)[c[i].lba]) : j \in at}
  BY DEF Seen
<1> HIDE DEF at
<1>3. {Above(c[j], Placed(m, d)[c[i].lba]) : j \in at} = {Above(c[i], Placed(m, d)[c[i].lba])}
  BY <1>1
<1> QED BY <1>2, <1>3

\* A block that is not in the cache is shown by its place.
LEMMA SeenBelow ==
  ASSUME NEW c, NEW m, NEW d, NEW b \in Blocks, \A i \in 1..Len(c) : c[i].lba # b
  PROVE  Seen(c, m, d)[b] = Placed(m, d)[b]
BY DEF Seen

\* The caches c and e differ in the entry k of e.
DifferAt(c, e, k) ==
  /\ HoldsOnce(c) /\ HoldsOnce(e) /\ k \in 1..Len(e) /\ e[k].lba \in Blocks
  /\ \A i \in 1..Len(c) : c[i].lba # e[k].lba => i \in 1..Len(e) /\ e[i] = c[i]
  /\ \A i \in 1..Len(e) : e[i].lba # e[k].lba => i \in 1..Len(c) /\ e[i] = c[i]

ShowsAt(c, e, k, m, d) ==
  /\ Seen(e, m, d)[e[k].lba] = Above(e[k], Placed(m, d)[e[k].lba])
  /\ \A b \in Blocks : b # e[k].lba => Seen(e, m, d)[b] = Seen(c, m, d)[b]

\* A step that puts one entry in the cache changes what is shown of one block.
LEMMA OneSeen ==
  ASSUME NEW c, NEW e, NEW m, NEW d, NEW k, DifferAt(c, e, k)
  PROVE  ShowsAt(c, e, k, m, d)
<1> USE DEF DifferAt, ShowsAt
<1>1. Seen(e, m, d)[e[k].lba] = Above(e[k], Placed(m, d)[e[k].lba])
  BY SeenIn
<1>2. ASSUME NEW b \in Blocks, b # e[k].lba PROVE Seen(e, m, d)[b] = Seen(c, m, d)[b]
  <2>1. CASE \E i \in 1..Len(c) : c[i].lba = b
    <3>1. PICK i \in 1..Len(c) : c[i].lba = b
      BY <2>1
    <3>2. i \in 1..Len(e) /\ e[i] = c[i]
      BY <1>2, <3>1
    <3> QED BY <3>1, <3>2, SeenIn
  <2>2. CASE \A i \in 1..Len(c) : c[i].lba # b
    <3>1. \A i \in 1..Len(e) : e[i].lba # b
      BY <1>2, <2>2
    <3> QED BY <2>2, <3>1, SeenBelow
  <2> QED BY <2>1, <2>2
<1> QED BY <1>1, <1>2

\* What a write leaves shown of its block.
Overwritten(kind, w, old) ==
  IF kind = "inner" THEN old \cup (Halves \X {w})
                    ELSE {x \in old : x[1] \notin Covers(kind)} \cup (Covers(kind) \X {w})

\* What is seen of a block whose entry has some data, and of one that is written to.
Beneath(old, place, open) == old \cup IF open THEN Half("tail", place) ELSE {}

Left(kind, w, old, place, open) ==
  Beneath(Written(kind, w, old), place, open /\ kind \notin {"full", "tail"})

\* What a write leaves of a block is what the store writes.
LEMMA WrittenShows ==
  ASSUME NEW kind \in {"full", "head", "tail", "inner"}, NEW w, NEW old \in SUBSET Ids,
         NEW place \in SUBSET Ids, NEW open \in BOOLEAN
  PROVE  Left(kind, w, old, place, open) = Overwritten(kind, w, Beneath(old, place, open))
<1> USE DEF Left, Beneath, Overwritten
<1>1. \A x \in old \cup place : x[1] \in Halves
  BY DEF Ids
<1>2. CASE kind = "full"
  BY <1>1, <1>2 DEF Written, Reaches, Covers, Halves, Half
<1>3. CASE kind = "head"
  BY <1>1, <1>3 DEF Written, Reaches, Covers, Halves, Half
<1>4. CASE kind = "tail"
  BY <1>1, <1>4 DEF Written, Reaches, Covers, Halves, Half
<1>5. CASE kind = "inner"
  <2>1. Covers(kind) = {} /\ Reaches(kind) = Halves
    BY <1>5 DEF Covers, Reaches, Halves
  <2>2. Written(kind, w, old) = old \cup (Halves \X {w})
    BY <2>1 DEF Written
  <2> QED BY <1>5, <2>2
<1> QED BY <1>2, <1>3, <1>4, <1>5

\* The name of a write is one of the tokens of the store.
LEMMA WriteTokens ==
  ASSUME BookTypeOK, NEW b \in Blocks
  PROVE  WriteId(b) \in 0..Garbage
<1>1. Written("inner", WriteId(b), {}) \in SUBSET Ids
  BY WriteIds
<1>2. <<"head", WriteId(b)>> \in Written("inner", WriteId(b), {})
  BY DEF Written, Reaches, Halves
<1>3. <<"head", WriteId(b)>> \in Ids
  BY <1>1, <1>2
<1> QED BY <1>3 DEF Ids

\* Content is a function on the blocks, now and after a step.
LEMMA ContentIsFunction == /\ Content = [b \in Blocks |-> Content[b]]
                           /\ Content' = [b \in Blocks |-> Content'[b]]
BY DEF Content

\* The same of a step that changes the cache.
LEMMA OneSeenNow ==
  ASSUME NEW k, DifferAt(cache, cache', k)
  PROVE  /\ Seen(cache', Map, data)[cache'[k].lba] = Above(cache'[k], Placed(Map, data)[cache'[k].lba])
         /\ \A b \in Blocks : b # cache'[k].lba => Seen(cache', Map, data)[b] = Seen(cache, Map, data)[b]
<1>1. ShowsAt(cache, cache', k, Map, data)
  BY OneSeen
<1> QED BY <1>1 DEF ShowsAt

\* An entry put at the end of the cache.
LEMMA AppendShows ==
  ASSUME IInv, IInv', NEW entry, entry.lba \in Blocks, cache' = Append(cache, entry),
         UNCHANGED <<Map, data>>
  PROVE  /\ Content' = [Content EXCEPT ![entry.lba] = Above(entry, Placed(Map, data)[entry.lba])]
         /\ Content[entry.lba] = Placed(Map, data)[entry.lba]
<1> DEFINE n == Len(cache)
<1>1. /\ n \in Nat /\ Len(cache') = n + 1 /\ cache'[n + 1] = entry
      /\ \A i \in 1..n : cache'[i] = cache[i]
  BY LenProperties, AppendProperties DEF IInv, TypeOK, CacheTypeOK
<1>2. HoldsOnce(cache) /\ HoldsOnce(cache')
  BY DEF IInv, CacheConsistent, HoldsOnce
<1> HIDE DEF n
<1>3. /\ n + 1 \in 1..Len(cache') /\ 1..n \subseteq 1..Len(cache')
      /\ \A i \in 1..Len(cache') : i = n + 1 \/ i \in 1..n
  BY <1>1
<1>4. \A i \in 1..n : cache[i].lba # entry.lba
  BY <1>1, <1>2, <1>3 DEF HoldsOnce
<1>5. n = Len(cache)
  BY DEF n
<1>6. /\ Seen(cache', Map, data)[entry.lba] = Above(entry, Placed(Map, data)[entry.lba])
      /\ \A b \in Blocks : b # entry.lba => Seen(cache', Map, data)[b] = Seen(cache, Map, data)[b]
  <2>1. PICK k \in 1..Len(cache') : cache'[k] = entry /\ k = n + 1
    BY <1>1, <1>3
  <2>2. \A i \in 1..Len(cache) : cache[i].lba # cache'[k].lba
                                 => i \in 1..Len(cache') /\ cache'[i] = cache[i]
    BY <1>1, <1>3, <1>5
  <2>3. \A i \in 1..Len(cache') : cache'[i].lba # cache'[k].lba
                                  => i \in 1..Len(cache) /\ cache'[i] = cache[i]
    BY <1>1, <1>3, <1>5, <2>1
  <2>4. /\ Seen(cache', Map, data)[cache'[k].lba] = Above(cache'[k], Placed(Map, data)[cache'[k].lba])
        /\ \A b \in Blocks : b # cache'[k].lba => Seen(cache', Map, data)[b] = Seen(cache, Map, data)[b]
    <3>1. cache'[k].lba \in Blocks /\ k \in 1..Len(cache')
      BY <1>3, <2>1
    <3>2. DifferAt(cache, cache', k)
      BY <1>2, <2>2, <2>3, <3>1 DEF DifferAt
    <3> QED BY <3>2, OneSeenNow
  <2> QED BY <2>1, <2>4
<1>7. Content' = [Content EXCEPT ![entry.lba] = Above(entry, Placed(Map, data)[entry.lba])]
  BY <1>6, ContentSeen, ContentIsFunction
<1> QED BY <1>4, <1>5, <1>7, ContentSeen, SeenBelow

\* An entry put in the place of one for the same block.
LEMMA ReplaceShows ==
  ASSUME IInv, IInv', NEW k \in 1..Len(cache), NEW entry, entry.lba = cache[k].lba,
         cache' = [cache EXCEPT ![k] = entry], UNCHANGED <<Map, data>>
  PROVE  LET old == Placed(Map, data)[entry.lba]
         IN /\ entry.lba \in Blocks
            /\ Content' = [Content EXCEPT ![entry.lba] = Above(entry, old)]
            /\ Content[entry.lba] = Above(cache[k], old)
<1>1. /\ cache \in [1..Len(cache) -> CacheEntries] /\ Len(cache) \in Nat
      /\ DOMAIN cache' = 1..Len(cache') /\ Len(cache') \in Nat
  BY LenProperties DEF IInv, TypeOK, CacheTypeOK
<1>2. HoldsOnce(cache) /\ HoldsOnce(cache')
  BY DEF IInv, CacheConsistent, HoldsOnce
<1>3. /\ cache[k].lba \in Blocks /\ 1..Len(cache') = 1..Len(cache) /\ cache'[k] = entry
      /\ \A i \in 1..Len(cache) : cache'[i] = IF i = k THEN entry ELSE cache[i]
  BY <1>1 DEF CacheEntries
<1>4. /\ Seen(cache', Map, data)[entry.lba] = Above(entry, Placed(Map, data)[entry.lba])
      /\ \A b \in Blocks : b # entry.lba => Seen(cache', Map, data)[b] = Seen(cache, Map, data)[b]
  <2>1. k \in 1..Len(cache') /\ cache'[k].lba \in Blocks
    BY <1>3
  <2>2. \A i \in 1..Len(cache) : cache[i].lba # cache'[k].lba
                                 => i \in 1..Len(cache') /\ cache'[i] = cache[i]
    BY <1>3
  <2>3. \A i \in 1..Len(cache') : cache'[i].lba # cache'[k].lba
                                  => i \in 1..Len(cache) /\ cache'[i] = cache[i]
    BY <1>3
  <2>4. /\ Seen(cache', Map, data)[cache'[k].lba] = Above(cache'[k], Placed(Map, data)[cache'[k].lba])
        /\ \A b \in Blocks : b # cache'[k].lba => Seen(cache', Map, data)[b] = Seen(cache, Map, data)[b]
    <3>1. DifferAt(cache, cache', k)
      BY <1>2, <2>1, <2>2, <2>3 DEF DifferAt
    <3> QED BY <3>1, OneSeenNow
  <2> QED BY <1>3, <2>4
<1>5. Content' = [Content EXCEPT ![entry.lba] = Above(entry, Placed(Map, data)[entry.lba])]
  BY <1>4, ContentSeen, ContentIsFunction
<1> QED BY <1>2, <1>3, <1>5, ContentSeen, SeenIn

\* What a map shows is sets of writes.
LEMMA PlacedTypes == LogTypeOK /\ DiskTypeOK => Placed(Map, data) \in [Blocks -> SUBSET Ids]
BY DEF Placed, LogTypeOK, DiskTypeOK

\* Filling in what was there shows nothing new.
LEMMA FilledShows ==
  ASSUME IInv, IInv', step # "idle", cache' = Filled(Placed(Map, data)[FillBlock]),
         UNCHANGED <<Map, data>>
  PROVE  Content' = Content
<1> DEFINE old == Placed(Map, data)[FillBlock]
<1>1. CASE CacheOpen
  <2> DEFINE n == Len(cache)
             e == [cache[n] EXCEPT !.data = @ \cup Half("tail", old), !.open = FALSE]
  <2>1. n \in 1..Len(cache) /\ cache[n].open /\ FillBlock = cache[n].lba
    BY <1>1 DEF CacheOpen, FillBlock
  <2>2. cache \in [1..n -> CacheEntries]
    BY LenProperties DEF IInv, TypeOK, CacheTypeOK
  <2>3. cache[n] \in CacheEntries
    BY <2>1, <2>2
  <2>4. e.lba = cache[n].lba /\ e.data = cache[n].data \cup Half("tail", old) /\ e.open = FALSE
    BY <2>3 DEF CacheEntries
  <2>5. cache' = [cache EXCEPT ![n] = e]
    BY <1>1, <2>1, <2>2, <2>3 DEF Filled, CacheEntries
  <2>6. Above(e, old) = Above(cache[n], old)
    BY <2>1, <2>4 DEF Above
  <2> HIDE DEF e, n, old
  <2>7. Content' = [Content EXCEPT ![e.lba] = Above(e, Placed(Map, data)[e.lba])]
        /\ Content[e.lba] = Above(cache[n], Placed(Map, data)[e.lba])
    BY <2>1, <2>4, <2>5, ReplaceShows
  <2>8. Placed(Map, data)[e.lba] = old
    BY <2>1, <2>4 DEF old
  <2> QED BY <2>6, <2>7, <2>8, ContentIsFunction
<1>2. CASE ~CacheOpen
  <2> DEFINE e == [lba |-> req.block, data |-> IF req.kind = "tail" THEN Half("head", old) ELSE old,
                   open |-> (req.kind = "tail")]
  <2>1. FillBlock = req.block /\ req.block \in Blocks /\ e.lba = req.block
    BY <1>2 DEF FillBlock, IInv, TypeOK, ThreadTypeOK
  <2>2. cache' = Append(cache, e)
    BY <1>2 DEF Filled
  <2>3. Above(e, old) = old
    <3>1. old \in SUBSET Ids
      BY <2>1, PlacedTypes DEF IInv, TypeOK
    <3>2. Half("head", old) \cup Half("tail", old) = old
      BY <3>1 DEF Ids, Half, Halves
    <3> QED BY <3>2 DEF Above
  <2>4. Placed(Map, data)[e.lba] = old
    BY <2>1
  <2> HIDE DEF e, old
  <2>5. Content' = [Content EXCEPT ![e.lba] = Above(e, Placed(Map, data)[e.lba])]
        /\ Content[e.lba] = Placed(Map, data)[e.lba]
    BY <2>1, <2>2, AppendShows
  <2> QED BY <2>3, <2>4, <2>5, ContentIsFunction
<1> QED BY <1>1, <1>2

-----------------------------------------------------------------------------
(* What the medium shows *)

\* The snapshot saved is what the log on the medium shows, in memory as in recovery.
Saves ==
  /\ Loaded => saved = Placed(Map, data)
  /\ ~Loaded => \E m \in Maps, cur \in Chunks, s \in Nat, from \in PurgeEnds, t \in LBATable,
                   x \in PurgeEnds :
                  OnMedium(m, cur, s, from, t, x) /\ saved = Placed(m, data)

\* The medium d holds the cache behind PurgePos.
HoldsCache(d) == \A i \in 1..Len(cache) : d[<<ChunkNo, PurgePos + i - 1>>] = cache[i].data

\* A purge not acknowledged has left the data of the cache, too.
Purging == Loaded /\ PurgeOnMedium(purgeCtl) => HoldsCache(data)

\* The blocks read ahead for relocation are still those on the medium.
Window ==
  mode = "ACTIVE" /\ step # "relocate" /\ RelocationPrepared =>
    \A p \in Positions : InWindow(p) => RelocateMem[p] = data[<<NextChunkNo, p>>]

\* Only a write relocates, and a flush that finalizes is not sent to a clean cache.
Served ==
  /\ step = "copy" => IsWrite /\ mode = "ACTIVE"
  /\ step # "idle" /\ req.kind = "final" =>
       (CacheDirty \/ cache = <<>>) /\ (step = "fill" => CacheOpen)

StoreInv == Saves /\ Purging /\ Window /\ Served

Stutters == Shown' = Shown /\ saved' = saved

\* What is behind PurgePos is shown by no map.
LEMMA BehindIsHidden ==
  ASSUME IInv, MapInv, Loaded, NEW d,
         \A l \in Places : ~(l[1] = ChunkNo /\ l[2] \in PurgeRange) => d[l] = data[l]
  PROVE  Placed(Map, d) = Placed(Map, data)
<1>1. \A b \in Blocks : Map[b] # NotMapped => Map[b] \in Places
  BY DEF IInv, TypeOK, LogTypeOK
<1>2. \A b \in Blocks : Map[b] # NotMapped => d[Map[b]] = data[Map[b]]
  BY <1>1, NothingBehind
<1> QED BY <1>2 DEF Placed

\* A purge of the cache shows on the medium what the cache showed above it.
LEMMA PurgedShows ==
  ASSUME IInv, MapInv, Loaded, PurgePos < LastPurgePos, ~CacheOpen, NEW d, HoldsCache(d),
         \A l \in Places : ~(l[1] = ChunkNo /\ l[2] \in PurgeRange) => d[l] = data[l]
  PROVE  Placed(Purged, d) = Content
<1> DEFINE lba == [p \in PurgeRange |-> PurgedLBA(p)]
           P   == PurgePos..(PurgePos + Len(cache) - 1)
<1>1. /\ PurgePos \in Nat /\ Len(cache) \in Nat /\ Len(cache) <= LastCachePos /\ LastCachePos \in Nat
      /\ P \subseteq PurgeRange /\ PurgeRange \subseteq Positions
  <2>1. /\ PurgePos \in Nat /\ Len(cache) \in Nat /\ Len(cache) <= LastCachePos /\ LastCachePos \in Nat
    BY PurgePosition, Sizes DEF IInv, TypeOK, CacheTypeOK, CacheConsistent
  <2>2. PurgeRange \subseteq Positions
    BY PurgeInside DEF IInv, TypeOK
  <2> QED BY <2>1, <2>2 DEF PurgeRange
<1>2. \A p \in P : p - PurgePos + 1 \in 1..Len(cache) /\ lba[p] = cache[p - PurgePos + 1].lba
  BY <1>1 DEF PurgedLBA
<1>3. \A i \in 1..Len(cache) : PurgePos + i - 1 \in P /\ lba[PurgePos + i - 1] = cache[i].lba
                              /\ cache[i].lba \in Blocks /\ ~cache[i].open
  <2> TAKE i \in 1..Len(cache)
  <2>1. PurgePos + i - 1 \in P /\ (PurgePos + i - 1) - PurgePos + 1 = i
    BY <1>1
  <2>2. cache[i] \in CacheEntries
    BY ElementOfSeq DEF IInv, TypeOK, CacheTypeOK
  <2>3. ~cache[i].open
    BY DEF IInv, CacheConsistent, CacheOpen
  <2> HIDE DEF P, lba
  <2> QED BY <1>2, <2>1, <2>2, <2>3 DEF CacheEntries
<1>4. P \in SUBSET Positions
  BY <1>1
<1>5. HoldsOnce(cache)
  BY DEF IInv, CacheConsistent, HoldsOnce
<1>6. Placed(Map, d) = Placed(Map, data)
  BY BehindIsHidden
<1> HIDE DEF lba, P
<1>7. ASSUME NEW b \in Blocks PROVE Placed(Purged, d)[b] = Content[b]
  <2>1. CASE \E i \in 1..Len(cache) : cache[i].lba = b
    <3>1. PICK i \in 1..Len(cache) : cache[i].lba = b
      BY <2>1
    <3> DEFINE q == LatestAt(lba, P, b)
    <3>2. NamedAt(lba, P, b) # {}
      BY <1>3, <3>1 DEF NamedAt
    <3>3. q \in P /\ lba[q] = b
      BY <1>4, <3>2, LatestNames
    <3>4. q = PurgePos + i - 1
      <4>1. q - PurgePos + 1 = i
        BY <1>2, <1>5, <3>1, <3>3 DEF HoldsOnce
      <4>2. q \in Nat
        BY <1>4, <3>3, SmallNumbers
      <4> QED BY <1>1, <4>1, <4>2
    <3>5. Purged[b] = <<ChunkNo, q>>
      BY <3>2 DEF Purged, Moved, lba, P
    <3>6. <<ChunkNo, q>> # NotMapped
      <4>1. <<ChunkNo, q>> \in Places
        BY <1>4, <3>3 DEF Places, IInv, TypeOK, LogTypeOK
      <4> QED BY <4>1, Parameters
    <3> HIDE DEF q
    <3>7. Placed(Purged, d)[b] = cache[i].data
      BY <3>1, <3>4, <3>5, <3>6 DEF Placed, HoldsCache
    <3>8. Content[b] = Above(cache[i], Placed(Map, data)[b])
      BY <1>3, <1>5, <3>1, SeenIn, ContentSeen
    <3>9. Above(cache[i], Placed(Map, data)[b]) = cache[i].data
      BY <1>3 DEF Above
    <3> QED BY <3>7, <3>8, <3>9
  <2>2. CASE \A i \in 1..Len(cache) : cache[i].lba # b
    <3>1. NamedAt(lba, P, b) = {}
      BY <1>2, <2>2 DEF NamedAt
    <3>2. Purged[b] = Map[b]
      BY <3>1 DEF Purged, Moved, lba, P
    <3>3. Content[b] = Placed(Map, data)[b]
      BY <2>2, SeenBelow, ContentSeen
    <3> QED BY <1>6, <3>2, <3>3 DEF Placed
  <2> QED BY <2>1, <2>2
<1> QED BY <1>7, ContentIsFunction DEF Placed

\* What a write to the medium reaches shows there as the log has it.
LEMMA WriteReachesShows ==
  ASSUME IInv, MapInv, Loaded, Purging, NEW effect, WriteReaches(effect)
  PROVE  /\ Placed(Map, data') = Placed(Map, data)
         /\ PurgeOnMedium(purgeCtl') => HoldsCache(data')
         /\ \A l \in Places : ~(l[1] = ChunkNo /\ l[2] \in PurgeRange) => data'[l] = data[l]
<1>1. data' = PurgedData \/ UNCHANGED <<data, purgeCtl>>
  BY DEF WriteReaches, diskVars
<1>2. \A l \in Places : ~(l[1] = ChunkNo /\ l[2] \in PurgeRange) => data'[l] = data[l]
  BY <1>1 DEF PurgedData
<1>3. CASE data' = PurgedData /\ PurgePos < LastPurgePos
  <2>1. /\ PurgePos \in Nat /\ Len(cache) \in Nat /\ Len(cache) <= LastCachePos /\ LastCachePos \in Nat
        /\ PurgeRange \subseteq Positions /\ ChunkNo \in Chunks
    BY <1>3, PurgePosition, Sizes, PurgeFits DEF PurgeRange, IInv, TypeOK, LogTypeOK, CacheTypeOK,
       CacheConsistent
  <2>2. ASSUME NEW i \in 1..Len(cache)
        PROVE  data'[<<ChunkNo, PurgePos + i - 1>>] = cache[i].data
    <3>1. PurgePos + i - 1 \in PurgeRange /\ (PurgePos + i - 1) - PurgePos = i - 1
          /\ i - 1 < Len(cache) /\ (i - 1) + 1 = i
      BY <2>1 DEF PurgeRange
    <3>2. <<ChunkNo, PurgePos + i - 1>> \in Places
      BY <2>1, <3>1 DEF Places
    <3> QED BY <1>3, <3>1, <3>2 DEF PurgedData
  <2> QED BY <1>2, <2>2, BehindIsHidden DEF HoldsCache
<1>4. CASE UNCHANGED <<data, purgeCtl>>
  BY <1>4 DEF Purging, PurgeOnMedium, HoldsCache
<1>5. CASE ~(PurgePos < LastPurgePos)
  BY <1>2, <1>5, BehindIsHidden DEF PurgeOnMedium
<1> QED BY <1>1, <1>3, <1>4, <1>5

-----------------------------------------------------------------------------
(* Steps that show nothing *)

\* The snapshot stays what the medium shows when data and snapshot stay.
LEMMA SavesFrame ==
  ASSUME Saves, UNCHANGED <<data, saved>>, Loaded' <=> Loaded, Loaded => Map' = Map,
         ~Loaded => UNCHANGED <<chunkCtl, purgeCtl>>
  PROVE  Saves'
<1>1. CASE Loaded
  BY <1>1 DEF Saves
<1>2. CASE ~Loaded
  <2>1. PICK m \in Maps, cur \in Chunks, s \in Nat, from \in PurgeEnds, t \in LBATable, x \in PurgeEnds :
          OnMedium(m, cur, s, from, t, x) /\ saved = Placed(m, data)
    BY <1>2 DEF Saves
  <2>2. Resumes(cur, s, from)' <=> Resumes(cur, s, from)
    BY <1>2 DEF Resumes, Leads, Precedes, Present
  <2>3. OnMedium(m, cur, s, from, t, x)'
    BY <1>2, <2>1, <2>2 DEF OnMedium
  <2>4. saved' = Placed(m, data')
    BY <2>1
  <2> QED BY <1>2, <2>3, <2>4 DEF Saves
<1> QED BY <1>1, <1>2

\* A step that leaves cache, map and data alone shows nothing.
LEMMA QuietStep ==
  ASSUME StoreInv, UNCHANGED <<Map, data, cache, scan, ChunkNo, SCN, PurgePos, purgeCtl, saved>>,
         ~Loaded => UNCHANGED chunkCtl
  PROVE  Saves' /\ Purging' /\ Stutters
<1>1. Loaded' <=> Loaded
  BY DEF Loaded
<1>2. Saves'
  BY <1>1, SavesFrame DEF StoreInv
<1>3. Purging'
  BY <1>1 DEF StoreInv, Purging, PurgeOnMedium, HoldsCache
<1>4. Content' = Content
  BY ContentSeen
<1> QED BY <1>1, <1>2, <1>3, <1>4 DEF Stutters, Shown

\* What was read ahead stays with the data.
LEMMA WindowFrame ==
  ASSUME Window, UNCHANGED <<data, NextChunkNo, RelocateMem, WindowStart, WindowEnd>>,
         mode' = "ACTIVE" /\ step' # "relocate" /\ RelocationPrepared'
           => mode = "ACTIVE" /\ step # "relocate" /\ RelocationPrepared
  PROVE  Window'
BY DEF Window, InWindow

\* What is served stays with the request.
LEMMA ServedFrame ==
  ASSUME Served, UNCHANGED <<cache, CacheDirty>>,
         step' = "copy" => IsWrite' /\ mode' = "ACTIVE",
         step' # "idle" /\ req'.kind = "final" =>
           step # "idle" /\ req' = req /\ (step' = "fill" => step = "fill" \/ CacheOpen)
  PROVE  Served'
BY DEF Served, CacheOpen

\* Requests and reads come and go.
LEMMA RequestStepsStutter ==
  ASSUME StoreInv,
         \/ \E k \in Kinds, b \in Blocks : DispatchWrite(k, b)
         \/ \E r \in Readers, b \in Blocks : StartRead(r, b)
         \/ \E r \in Readers : FinishRead(r)
         \/ WriteAbort \/ FlushDone \/ RecoveryFails \/ UNCHANGED vars
  PROVE  StoreInv' /\ Stutters
<1>1. UNCHANGED <<logVars, cacheVars, relocVars, diskVars, scan, saved>>
  BY DEF DispatchWrite, StartRead, FinishRead, WriteAbort, FlushDone, RecoveryFails, vars, bookVars
<1>2. /\ mode' = "ACTIVE" => mode = "ACTIVE"
      /\ step = "relocate" => step' = "relocate"
  BY DEF DispatchWrite, StartRead, FinishRead, WriteAbort, FlushDone, Flushing, RecoveryFails, vars
<1>3. Served'
  <2>1. ASSUME NEW k \in Kinds, NEW b \in Blocks, DispatchWrite(k, b) PROVE Served'
    BY <1>1, <2>1, ServedFrame DEF DispatchWrite, StoreInv, cacheVars
  <2>2. CASE WriteAbort \/ FlushDone
    BY <1>1, <2>2, ServedFrame DEF WriteAbort, FlushDone, StoreInv, cacheVars
  <2>3. CASE RecoveryFails
    BY <1>1, <2>3, ServedFrame DEF RecoveryFails, StoreInv, cacheVars, Served
  <2>4. ASSUME NEW r \in Readers, NEW b \in Blocks, StartRead(r, b) PROVE Served'
    BY <1>1, <2>4, ServedFrame DEF StartRead, StoreInv, cacheVars, Served, IsWrite
  <2>5. ASSUME NEW r \in Readers, FinishRead(r) PROVE Served'
    BY <1>1, <2>5, ServedFrame DEF FinishRead, StoreInv, cacheVars, Served, IsWrite
  <2>6. CASE UNCHANGED vars
    BY <1>1, <2>6, ServedFrame DEF vars, StoreInv, cacheVars, Served, IsWrite
  <2> QED BY <2>1, <2>2, <2>3, <2>4, <2>5, <2>6
<1>4. Window'
  BY <1>1, <1>2, WindowFrame DEF StoreInv, relocVars, logVars, diskVars
<1>5. Saves' /\ Purging' /\ Stutters
  BY <1>1, QuietStep DEF logVars, cacheVars, diskVars
<1> QED BY <1>3, <1>4, <1>5 DEF StoreInv

\* A flush is sent to a dirty cache, or to an empty one.
LEMMA DispatchFlushStutters ==
  ASSUME ~FinalizeAnytime, StoreInv, NEW k \in Kinds, DispatchFlush(k)
  PROVE  StoreInv' /\ Stutters
<1>1. /\ UNCHANGED <<mode, logVars, cacheVars, relocVars, diskVars, scan, saved>>
      /\ step = "idle" /\ step' = "handler" /\ req' = [kind |-> k, block |-> 0]
      /\ k = "final" => CacheDirty \/ cache = <<>>
  BY DEF DispatchFlush, bookVars
<1>2. Served'
  BY <1>1 DEF Served, cacheVars
<1>3. Window'
  BY <1>1, WindowFrame DEF StoreInv, relocVars, logVars, diskVars
<1>4. Saves' /\ Purging' /\ Stutters
  BY <1>1, QuietStep DEF logVars, cacheVars, diskVars
<1> QED BY <1>2, <1>3, <1>4 DEF StoreInv

\* Relocation up to the copy, the beginning of a purge, and a fill that is sent.
LEMMA ThreadStepsStutter ==
  ASSUME IInv, Order, StoreInv,
         \/ PrepareRelocate \/ PrepareRelocateDone \/ RelocateQuota \/ RelocateEnd
         \/ ExecuteRelocate \/ RelocateRead \/ WritePurge \/ FlushPurge
         \/ (WriteFill \/ FlushFill) /\ UNCHANGED cache
  PROVE  StoreInv' /\ Stutters
<1>1. /\ UNCHANGED <<mode, Map, data, cache, CacheDirty, scan, ChunkNo, NextChunkNo, SCN, PurgePos,
                     purgeCtl, chunkCtl, saved, req>>
      /\ step # "idle"
  BY DEF PrepareRelocate, PrepareRelocateDone, RelocateQuota, RelocateEnd, ExecuteRelocate,
     RelocateRead, WritePurge, FlushPurge, WriteFill, FlushFill, CacheFill, ExecutePurgeCache,
     Relocating, Ready, Writing, Flushing, logVars, cacheVars, diskVars, bookVars
<1>2. Saves' /\ Purging' /\ Stutters
  BY <1>1, QuietStep
<1>3. Served'
  <2>1. step' = "copy" => IsWrite /\ mode = "ACTIVE"
    BY DEF PrepareRelocate, PrepareRelocateDone, RelocateQuota, RelocateEnd, ExecuteRelocate,
       RelocateRead, WritePurge, FlushPurge, WriteFill, FlushFill, CacheFill, ExecutePurgeCache,
       Relocating, Ready, Writing, Flushing
  <2>2. step' = "fill" => IsWrite \/ CacheOpen
    BY DEF PrepareRelocate, PrepareRelocateDone, RelocateQuota, RelocateEnd, ExecuteRelocate,
       RelocateRead, WritePurge, FlushPurge, WriteFill, FlushFill, CacheFill, ExecutePurgeCache,
       Relocating, Ready, Writing, Flushing
  <2> QED BY <1>1, <2>1, <2>2, ServedFrame DEF StoreInv, IsWrite
<1>4. Window'
  <2>1. CASE RelocateRead
    <3>1. /\ RelocateMem' = [p \in Positions |-> IF InWindow(p) THEN data[<<NextChunkNo, p>>] ELSE {}]
          /\ UNCHANGED <<WindowStart, WindowEnd>>
      BY <2>1 DEF RelocateRead
    <3> QED BY <1>1, <3>1 DEF Window, InWindow
  <2>2. CASE PrepareRelocateDone
    <3>1. WindowStart' = 0 /\ WindowEnd' = 0
      BY <2>2 DEF PrepareRelocateDone
    <3> QED BY <3>1, SmallNumbers DEF Window, InWindow
  <2>3. CASE ExecuteRelocate
    BY <2>3 DEF ExecuteRelocate, Window
  <2>4. CASE \/ PrepareRelocate \/ RelocateQuota \/ RelocateEnd \/ WritePurge \/ FlushPurge
             \/ WriteFill \/ FlushFill
    <3>1. UNCHANGED <<RelocateMem, WindowStart, WindowEnd, RelocationPrepared>> /\ step # "relocate"
      BY <2>4 DEF PrepareRelocate, RelocateQuota, RelocateEnd, WritePurge, FlushPurge,
         WriteFill, FlushFill, CacheFill, ExecutePurgeCache, Relocating, Ready, Writing, Flushing,
         relocVars
    <3> QED BY <1>1, <3>1, WindowFrame DEF StoreInv
  <2> QED BY <2>1, <2>2, <2>3, <2>4
<1> QED BY <1>2, <1>3, <1>4 DEF StoreInv

\* The control of a chunk is built in the memory of a cache that is empty.
LEMMA PurgeChunkBeginsStutters ==
  ASSUME IInv, Order, StoreInv, CloseChunk \/ FlushFinalize
  PROVE  StoreInv' /\ Stutters
<1>1. /\ ExecutePurgeChunk /\ step = "handler" /\ step' = "finalize"
      /\ UNCHANGED <<mode, Map, data, CacheDirty, scan, ChunkNo, NextChunkNo, SCN, PurgePos,
                     purgeCtl, chunkCtl, saved, req, relocVars>>
      /\ cache' = [i \in 1..Len(cache) |-> [cache[i] EXCEPT !.data = Whole(Garbage)]]
  BY DEF CloseChunk, FlushFinalize, ExecutePurgeChunk, Writing, Flushing, diskVars, bookVars
<1>2. cache = <<>>
  <2>1. CASE CloseChunk
    BY <2>1 DEF CloseChunk, Writing, IInv, CachePhases
  <2>2. CASE FlushFinalize
    BY <2>2 DEF FlushFinalize, Flushing, ToFinalize, StoreInv, Served
  <2> QED BY <2>1, <2>2
<1>3. cache' = cache
  <2>1. Len(cache) = 0 /\ 1..Len(cache) = {}
    BY <1>2
  <2> QED BY <1>1, <1>2, <2>1
<1>4. Saves' /\ Purging' /\ Stutters
  BY <1>1, <1>3, QuietStep
<1>5. Served'
  BY <1>1, <1>3, ServedFrame DEF StoreInv
<1>6. Window'
  BY <1>1, WindowFrame DEF StoreInv, relocVars
<1> QED BY <1>4, <1>5, <1>6 DEF StoreInv

-----------------------------------------------------------------------------
(* Steps of the cache *)

\* A step that changes only the cache keeps what the medium shows.
LEMMA CacheStepKeepsStore ==
  ASSUME IInv, Order, MapInv, StoreInv, step # "idle",
         UNCHANGED <<Map, data, scan, ChunkNo, NextChunkNo, SCN, PurgePos, purgeCtl, chunkCtl, saved,
                     mode, RelocationPrepared, RelocateMem, WindowStart, WindowEnd>>,
         mode = "ACTIVE" \/ CacheOpen \/ step = "fill",
         step # "relocate"
  PROVE  Saves' /\ Purging' /\ Window' /\ Shown = Content /\ Shown' = Content'
<1>1. Loaded /\ Loaded'
  BY DEF Order, OrderPhases, Loaded
<1>2. ~PurgeOnMedium(purgeCtl)
  BY <1>1 DEF MapInv, Unacknowledged
<1>3. Purging'
  BY <1>2 DEF Purging, PurgeOnMedium
<1>4. Saves'
  BY <1>1, SavesFrame DEF StoreInv
<1>5. Window'
  BY WindowFrame DEF StoreInv
<1> QED BY <1>1, <1>3, <1>4, <1>5 DEF Shown

\* Relocation puts into the cache what is at the place of the block.
LEMMA RelocateCopyStutters ==
  ASSUME IInv, IInv', Order, MapInv, StoreInv, RelocateCopy
  PROVE  StoreInv' /\ Stutters
<1>1. /\ step = "copy" /\ mode = "ACTIVE" /\ IsWrite /\ step' = "copy" /\ RelocationPrepared
      /\ UNCHANGED <<Map, data, scan, ChunkNo, NextChunkNo, SCN, PurgePos, purgeCtl, chunkCtl, saved,
                     mode, RelocationPrepared, RelocateMem, WindowStart, WindowEnd, req>>
  BY DEF RelocateCopy, StoreInv, Served, IInv, CachePhases, logVars, diskVars, bookVars
<1>2. Saves' /\ Purging' /\ Window' /\ Shown = Content /\ Shown' = Content'
  BY <1>1, CacheStepKeepsStore
<1>3. Served'
  BY <1>1 DEF Served, IsWrite
<1>4. PICK p \in LeftToRelocate : /\ InWindow(p)
        /\ cache' = Append(cache, [lba |-> NextLBA[p], data |-> RelocateMem[p], open |-> FALSE])
  BY DEF RelocateCopy
<1> DEFINE e == [lba |-> NextLBA[p], data |-> RelocateMem[p], open |-> FALSE]
<1>5. e.lba = NextLBA[p] /\ e.data = RelocateMem[p] /\ ~e.open /\ cache' = Append(cache, e)
  BY <1>4
<1>6. /\ NextLBA[p] \in Blocks /\ Map[NextLBA[p]] = <<NextChunkNo, p>> /\ p \in Positions
      /\ Map[NextLBA[p]] # NotMapped
  <2>1. NextLBA[p] \in Blocks /\ Map[NextLBA[p]] = <<NextChunkNo, p>>
    BY <1>4 DEF LeftToRelocate, Live, IsLive
  <2>2. p \in Positions
    <3>1. RelocatePos \in Nat /\ LastPurgePos \in Nat
      BY Sizes, SmallNumbers DEF IInv, TypeOK, RelocationTypeOK
    <3> QED BY <1>4, <3>1 DEF LeftToRelocate, Positions
  <2>3. <<NextChunkNo, p>> \in Places
    BY <2>2 DEF Places, IInv, TypeOK, LogTypeOK
  <2> QED BY <2>1, <2>2, <2>3, Parameters
<1>7. RelocateMem[p] = data[<<NextChunkNo, p>>]
  BY <1>1, <1>4, <1>6 DEF StoreInv, Window
<1>8. Placed(Map, data)[e.lba] = e.data
  BY <1>5, <1>6, <1>7 DEF Placed
<1> HIDE DEF e
<1>9. /\ Content' = [Content EXCEPT ![e.lba] = Above(e, Placed(Map, data)[e.lba])]
      /\ Content[e.lba] = Placed(Map, data)[e.lba]
  BY <1>1, <1>5, <1>6, AppendShows
<1>10. Above(e, Placed(Map, data)[e.lba]) = Placed(Map, data)[e.lba]
  BY <1>5, <1>8 DEF Above
<1>11. Content' = Content
  BY <1>9, <1>10, ContentIsFunction
<1> QED BY <1>1, <1>2, <1>3, <1>11 DEF StoreInv, Stutters

\* Filling the open block, or the one written to, shows nothing either.
LEMMA FillStutters ==
  ASSUME IInv, IInv', Order, MapInv, StoreInv,
         CacheFillReadDone \/ ((WriteFill \/ FlushFill) /\ cache' # cache)
  PROVE  StoreInv' /\ Stutters
<1>1. /\ UNCHANGED <<Map, data, scan, ChunkNo, NextChunkNo, SCN, PurgePos, purgeCtl, chunkCtl, saved,
                     mode, RelocationPrepared, RelocateMem, WindowStart, WindowEnd, req, CacheDirty>>
      /\ step \in {"handler", "fill"} /\ step' = "handler"
      /\ mode = "ACTIVE" \/ CacheOpen \/ step = "fill"
  BY DEF WriteFill, FlushFill, CacheFillReadDone, CacheFill, Ready, Writing, Flushing, logVars,
     diskVars, bookVars, relocVars
<1>2. Saves' /\ Purging' /\ Window' /\ Shown = Content /\ Shown' = Content'
  BY <1>1, CacheStepKeepsStore
<1>3. FillBlock \in Blocks
  <2>1. CASE CacheOpen
    <3>1. Len(cache) \in 1..Len(cache)
      BY <2>1 DEF CacheOpen
    <3>2. cache[Len(cache)] \in CacheEntries
      BY <3>1, ElementOfSeq DEF IInv, TypeOK, CacheTypeOK
    <3> QED BY <2>1, <3>2 DEF FillBlock, CacheEntries
  <2>2. CASE ~CacheOpen
    BY <1>1, <2>2 DEF FillBlock, IInv, TypeOK, ThreadTypeOK
  <2> QED BY <2>1, <2>2
<1>4. cache' = Filled(Placed(Map, data)[FillBlock])
  <2>1. CASE CacheFillReadDone
    <3>1. Map[FillBlock] # NotMapped /\ cache' = Filled(data[Map[FillBlock]])
      BY <2>1 DEF CacheFillReadDone, IInv, CachePhases
    <3> QED BY <1>3, <3>1 DEF Placed
  <2>2. CASE (WriteFill \/ FlushFill) /\ cache' # cache
    <3>1. Map[FillBlock] = NotMapped /\ cache' = Filled({})
      BY <2>2 DEF WriteFill, FlushFill, CacheFill
    <3> QED BY <1>3, <3>1 DEF Placed
  <2> QED BY <2>1, <2>2
<1>5. Content' = Content
  BY <1>1, <1>4, FilledShows
<1>6. Served'
  <2>1. req.kind = "final" => CacheDirty
    <3>1. CASE CacheFillReadDone
      <4>1. req.kind = "final" => cache # <<>>
        BY <3>1 DEF CacheFillReadDone, StoreInv, Served, CacheOpen
      <4> QED BY <1>1, <4>1 DEF StoreInv, Served
    <3>2. CASE WriteFill
      BY <3>2 DEF WriteFill, Ready, Writing, IsWrite
    <3>3. CASE FlushFill
      <4>1. cache # <<>>
        BY <3>3 DEF FlushFill, CacheOpen
      <4> QED BY <1>1, <4>1 DEF StoreInv, Served
    <3> QED BY <3>1, <3>2, <3>3
  <2> QED BY <1>1, <2>1 DEF Served
<1> QED BY <1>1, <1>2, <1>5, <1>6 DEF StoreInv, Stutters

Writes == Content' = [Content EXCEPT ![req.block] = Overwritten(req.kind, WriteId(req.block), @)]

\* A write to a block in the cache is a write to the store.
LEMMA WriteHitWrites ==
  ASSUME IInv, IInv', Order, MapInv, StoreInv, WriteHit
  PROVE  StoreInv' /\ Writes /\ Shown = Content /\ Shown' = Content' /\ saved' = saved
<1>1. /\ UNCHANGED <<Map, data, scan, ChunkNo, NextChunkNo, SCN, PurgePos, purgeCtl, chunkCtl, saved,
                     mode, RelocationPrepared, RelocateMem, WindowStart, WindowEnd>>
      /\ step = "handler" /\ step' = "idle" /\ mode = "ACTIVE" /\ IsWrite
  BY DEF WriteHit, Ready, Writing, logVars, diskVars, bookVars, relocVars
<1>2. Saves' /\ Purging' /\ Window' /\ Shown = Content /\ Shown' = Content'
  BY <1>1, CacheStepKeepsStore
<1>3. Served'
  BY <1>1 DEF Served
<1> DEFINE b == req.block
           w == WriteId(b)
<1>4. b \in Blocks /\ w \in 0..Garbage
  <2>1. b \in Blocks
    BY <1>1 DEF IInv, TypeOK, ThreadTypeOK
  <2>2. WriteId(b) \in 0..Garbage
    BY <2>1, WriteTokens DEF IInv, TypeOK
  <2> QED BY <2>1, <2>2
<1>5. PICK k \in CachedAt(b) :
        cache' = [cache EXCEPT ![k].data = Written(req.kind, w, @), ![k].open = @ /\ ~ToTheEnd]
  BY DEF WriteHit
<1>6. k \in 1..Len(cache) /\ cache[k].lba = b
  BY <1>5 DEF CachedAt
<1>7. cache \in [1..Len(cache) -> CacheEntries] /\ cache[k] \in CacheEntries
  BY <1>6, LenProperties, ElementOfSeq DEF IInv, TypeOK, CacheTypeOK
<1> DEFINE e == [cache[k] EXCEPT !.data = Written(req.kind, w, @), !.open = @ /\ ~ToTheEnd]
           old == Placed(Map, data)[b]
<1>8. /\ e.lba = b /\ e.data = Written(req.kind, w, cache[k].data)
      /\ e.open = (cache[k].open /\ ~ToTheEnd)
  BY <1>6, <1>7 DEF CacheEntries
<1>9. cache' = [cache EXCEPT ![k] = e]
  BY <1>5, <1>6, <1>7 DEF CacheEntries
<1>10. old \in SUBSET Ids
  BY <1>4, PlacedTypes DEF IInv, TypeOK
<1>11. Above(e, old) = Overwritten(req.kind, w, Above(cache[k], old))
  <2>1. req.kind \in {"full", "head", "tail", "inner"} /\ cache[k].data \in SUBSET Ids
        /\ cache[k].open \in BOOLEAN
    BY <1>1, <1>7 DEF IsWrite, CacheEntries
  <2> HIDE DEF e, w, b, old
  <2>2. Left(req.kind, w, cache[k].data, old, cache[k].open)
          = Overwritten(req.kind, w, Beneath(cache[k].data, old, cache[k].open))
    BY <1>10, <2>1, WrittenShows
  <2> QED BY <1>8, <2>2 DEF Above, Left, Beneath, ToTheEnd
<1> HIDE DEF e
<1>12. Content' = [Content EXCEPT ![b] = Above(e, old)] /\ Content[b] = Above(cache[k], old)
  <2>1. e.lba = cache[k].lba
    BY <1>6, <1>8
  <2>2. /\ Content' = [Content EXCEPT ![e.lba] = Above(e, Placed(Map, data)[e.lba])]
        /\ Content[e.lba] = Above(cache[k], Placed(Map, data)[e.lba])
    BY <1>1, <1>6, <1>9, <2>1, ReplaceShows
  <2> HIDE DEF b
  <2> QED BY <1>8, <2>2
<1>13. Writes
  BY <1>11, <1>12 DEF Writes
<1> QED BY <1>1, <1>2, <1>3, <1>13 DEF StoreInv

\* So is one that puts its block in the cache.
LEMMA WriteAppendWrites ==
  ASSUME IInv, IInv', Order, MapInv, StoreInv, WriteAppend
  PROVE  StoreInv' /\ Writes /\ Shown = Content /\ Shown' = Content' /\ saved' = saved
<1>1. /\ UNCHANGED <<Map, data, scan, ChunkNo, NextChunkNo, SCN, PurgePos, purgeCtl, chunkCtl, saved,
                     mode, RelocationPrepared, RelocateMem, WindowStart, WindowEnd>>
      /\ step = "handler" /\ step' = "idle" /\ mode = "ACTIVE" /\ req.kind \in {"full", "head"}
  BY DEF WriteAppend, Ready, Writing, logVars, diskVars, bookVars, relocVars
<1>2. Saves' /\ Purging' /\ Window' /\ Shown = Content /\ Shown' = Content'
  BY <1>1, CacheStepKeepsStore
<1>3. Served'
  BY <1>1 DEF Served
<1> DEFINE b == req.block
           w == WriteId(b)
           e == [lba |-> b, data |-> Written(req.kind, w, {}), open |-> (req.kind = "head")]
           old == Placed(Map, data)[b]
<1>4. b \in Blocks /\ w \in 0..Garbage
  <2>1. b \in Blocks
    BY <1>1 DEF IInv, TypeOK, ThreadTypeOK
  <2>2. WriteId(b) \in 0..Garbage
    BY <2>1, WriteTokens DEF IInv, TypeOK
  <2> QED BY <2>1, <2>2
<1>5. /\ cache' = Append(cache, e) /\ e.lba = b /\ e.data = Written(req.kind, w, {})
      /\ e.open = (req.kind = "head")
  BY DEF WriteAppend
<1>6. old \in SUBSET Ids
  BY <1>4, PlacedTypes DEF IInv, TypeOK
<1>7. Above(e, old) = Overwritten(req.kind, w, old)
  <2> HIDE DEF e, w, b, old
  <2>1. \A x \in old : x[1] \in Halves
    BY <1>6 DEF Ids
  <2>2. CASE req.kind = "full"
    BY <1>5, <2>1, <2>2 DEF Above, Overwritten, Written, Reaches, Covers, Halves
  <2>3. CASE req.kind = "head"
    BY <1>5, <2>1, <2>3 DEF Above, Overwritten, Written, Reaches, Covers, Halves, Half
  <2> QED BY <1>1, <2>2, <2>3
<1> HIDE DEF e
<1>8. Content' = [Content EXCEPT ![b] = Above(e, old)] /\ Content[b] = old
  BY <1>1, <1>4, <1>5, AppendShows
<1>9. Writes
  BY <1>7, <1>8 DEF Writes
<1> QED BY <1>1, <1>2, <1>3, <1>9 DEF StoreInv

-----------------------------------------------------------------------------
(* Steps of the medium *)

\* An empty cache shows the medium.
LEMMA EmptyShows == cache' = <<>> => Content' = Placed(Map', data')
<1> SUFFICES ASSUME cache' = <<>> PROVE Content' = Placed(Map', data')
  OBVIOUS
<1>1. \A i \in 1..Len(cache') : FALSE
  OBVIOUS
<1>2. \A b \in Blocks : Content'[b] = Placed(Map', data')[b]
  BY <1>1, ContentSeen DEF Seen
<1> QED BY <1>2, ContentIsFunction DEF Placed

\* A write to the current chunk does not touch the blocks read ahead from the next one.
LEMMA WindowElsewhere ==
  ASSUME IInv, Order, Loaded, Window,
         \A l \in Places : ~(l[1] = ChunkNo /\ l[2] \in PurgeRange) => data'[l] = data[l],
         UNCHANGED <<NextChunkNo, RelocateMem, WindowStart, WindowEnd, mode, RelocationPrepared>>,
         step # "relocate"
  PROVE  Window'
<1>1. NextChunkNo # ChunkNo /\ NextChunkNo \in Chunks
  BY DEF Order, Closed, IInv, TypeOK, LogTypeOK
<1>2. \A p \in Positions : data'[<<NextChunkNo, p>>] = data[<<NextChunkNo, p>>]
  BY <1>1 DEF Places
<1> QED BY <1>2 DEF Window, InWindow

\* A purge that is acknowledged saves what is shown.
LEMMA PurgeCacheDoneSaves ==
  ASSUME IInv, IInv', Order, MapInv, StoreInv, PurgeCacheDone
  PROVE  StoreInv' /\ Shown' = Shown /\ saved' = Shown'
<1>1. /\ step = "purge" /\ step' = "handler" /\ WriteReaches("all") /\ saved' = Content
      /\ cache' = <<>> /\ ~CacheDirty' /\ PurgePos < LastPurgePos
      /\ UNCHANGED <<scan, SCN, ChunkNo, NextChunkNo, mode, RelocationPrepared, RelocateMem,
                     WindowStart, WindowEnd>>
  BY DEF PurgeCacheDone, IInv, CachePhases
<1>2. Loaded /\ Loaded' /\ ~CacheOpen
  BY <1>1 DEF Order, OrderPhases, Loaded, MapInv, Relocation, PacePhases
<1>3. PurgeOnMedium(purgeCtl')
  <2>1. purgeCtl' = [purgeCtl EXCEPT ![<<ChunkNo, PurgePos>>] = NewPurgeCtl]
    BY <1>1 DEF WriteReaches
  <2> QED BY <1>1, <2>1, NewPurge DEF IInv, PurgeOnMedium
<1>4. /\ HoldsCache(data')
      /\ \A l \in Places : ~(l[1] = ChunkNo /\ l[2] \in PurgeRange) => data'[l] = data[l]
  BY <1>1, <1>2, <1>3, WriteReachesShows DEF StoreInv
<1>5. Placed(Map', data') = Content
  BY <1>1, <1>2, <1>4, PurgedShows, PurgeMoves
<1>6. Content' = Placed(Map', data')
  BY <1>1, EmptyShows
<1>7. Saves' /\ Purging' /\ Served'
  BY <1>1, <1>2, <1>5 DEF Saves, Purging, HoldsCache, Served
<1>8. Window'
  BY <1>1, <1>2, <1>4, WindowElsewhere DEF StoreInv
<1> QED BY <1>1, <1>2, <1>5, <1>6, <1>7, <1>8 DEF StoreInv, Shown

\* A write that fails, and one of a control, show nothing, whatever they reached.
LEMMA IoFailsStutters ==
  ASSUME IInv, Order, MapInv, StoreInv, IoFails
  PROVE  StoreInv' /\ Stutters
<1>1. PICK effect \in Effects : WriteReaches(effect)
  BY DEF IoFails
<1>2. /\ UNCHANGED <<logVars, cacheVars, relocVars, req, scan, saved>>
      /\ step' = "handler" /\ step # "idle" /\ mode' # "ACTIVE"
  BY DEF IoFails, Degrade
<1>3. Loaded /\ Loaded'
  BY <1>2 DEF Order, OrderPhases, Loaded
<1>4. Placed(Map, data') = Placed(Map, data) /\ (PurgeOnMedium(purgeCtl') => HoldsCache(data'))
  BY <1>1, <1>3, WriteReachesShows DEF StoreInv
<1>5. Saves'
  BY <1>2, <1>3, <1>4 DEF StoreInv, Saves, logVars
<1>6. Purging'
  BY <1>2, <1>4 DEF Purging, PurgeOnMedium, HoldsCache, logVars, cacheVars
<1>7. Window'
  BY <1>2 DEF Window
<1>8. Served'
  BY <1>2, ServedFrame DEF StoreInv, cacheVars
<1>9. Content' = Content
  BY <1>2, <1>4, ContentSeen DEF Seen, logVars, cacheVars
<1> QED BY <1>2, <1>3, <1>5, <1>6, <1>7, <1>8, <1>9 DEF StoreInv, Stutters, Shown

\* The control of a chunk shows nothing.
LEMMA PurgeChunkDoneStutters ==
  ASSUME IInv, Order, MapInv, StoreInv, PurgeChunkDone
  PROVE  StoreInv' /\ Stutters
<1>1. /\ UNCHANGED <<mode, Map, data, cache, CacheDirty, scan, ChunkNo, NextChunkNo, SCN, PurgePos,
                     purgeCtl, saved, req, relocVars>>
      /\ step = "finalize" /\ step' = "handler"
  BY DEF PurgeChunkDone, WriteReaches, cacheVars, bookVars
<1>2. Loaded
  BY <1>1 DEF Order, OrderPhases
<1>3. Saves' /\ Purging' /\ Stutters
  BY <1>1, <1>2, QuietStep
<1>4. Served'
  BY <1>1, ServedFrame DEF StoreInv
<1>5. Window'
  BY <1>1, WindowFrame DEF StoreInv, relocVars
<1> QED BY <1>3, <1>4, <1>5 DEF StoreInv

\* A full chunk is left with an empty cache.
LEMMA SwitchChunkStutters ==
  ASSUME IInv, Order, MapInv, StoreInv, SwitchChunk
  PROVE  StoreInv' /\ Stutters
<1>1. /\ UNCHANGED <<mode, Map, data, cache, CacheDirty, scan, purgeCtl, chunkCtl, saved, req, step>>
      /\ step = "handler" /\ cache = <<>> /\ ~RelocationPrepared' /\ mode = "ACTIVE"
  BY DEF SwitchChunk, Writing, FindNextChunk, IInv, CachePhases, cacheVars, diskVars, bookVars
<1>2. Loaded /\ Loaded'
  BY <1>1 DEF Order, OrderPhases, Loaded
<1>3. Saves'
  BY <1>1, <1>2, SavesFrame DEF StoreInv
<1>4. Purging' /\ Window'
  BY <1>1 DEF Purging, HoldsCache, Window
<1>5. Served'
  BY <1>1, ServedFrame DEF StoreInv
<1>6. Content' = Content
  BY <1>1, ContentSeen
<1> QED BY <1>1, <1>2, <1>3, <1>4, <1>5, <1>6 DEF StoreInv, Stutters, Shown

-----------------------------------------------------------------------------
(* Restart and recovery *)

\* What is left when the memory is lost is the snapshot: of now if the purge under way has
\* come through, and of the last purge otherwise.
LEMMA RestartSaves ==
  ASSUME ~TornFirstChunk, Capacity, IInv, IInv', Order, Order', MapInv, StoreInv, Crash \/ Reinitialize
  PROVE  StoreInv' /\ Shown' = saved' /\ (saved' = saved \/ saved' = Shown)
<1>1. PICK effect : LoseMemory(effect)
  BY DEF Crash, Reinitialize
<1>2. /\ WriteReaches(effect) /\ scan' = 0 /\ cache' = <<>> /\ ~RelocationPrepared' /\ step' = "idle"
      /\ saved' = IF Loaded /\ PurgeOnMedium(purgeCtl') THEN Content ELSE saved
  BY <1>1 DEF LoseMemory, Loaded
<1>3. ~Loaded'
  BY <1>2, Geometry DEF Loaded
<1>4. DiskHasNewest' /\ DiskTypeOK'
  BY DEF Order, IInv, TypeOK
<1>5. Saves'
  <2>1. CASE Loaded
    <3>1. PICK m \in Maps, cur \in Chunks, s \in Nat, from \in PurgeEnds, t \in LBATable,
               x \in PurgeEnds :
            OnMedium(m, cur, s, from, t, x)' /\ m = IF PurgeOnMedium(purgeCtl') THEN Purged ELSE Map
      BY <1>2, <1>4, <2>1, MediumIsWhole
    <3>2. /\ Placed(Map, data') = Placed(Map, data)
          /\ PurgeOnMedium(purgeCtl') => HoldsCache(data')
          /\ \A l \in Places : ~(l[1] = ChunkNo /\ l[2] \in PurgeRange) => data'[l] = data[l]
      BY <1>2, <2>1, WriteReachesShows DEF StoreInv
    <3>3. saved' = Placed(m, data')
      <4>1. CASE PurgeOnMedium(purgeCtl')
        <5>1. ~CacheOpen /\ PurgePos < LastPurgePos
          BY <1>2, <2>1, <4>1, WriteReachesLog DEF PurgeOnMedium
        <5>2. Placed(Purged, data') = Content
          BY <2>1, <3>2, <4>1, <5>1, PurgedShows
        <5> QED BY <1>2, <2>1, <3>1, <4>1, <5>2
      <4>2. CASE ~PurgeOnMedium(purgeCtl')
        BY <1>2, <2>1, <3>1, <3>2, <4>2 DEF StoreInv, Saves
      <4> QED BY <4>1, <4>2
    <3> QED BY <1>3, <3>1, <3>3 DEF Saves
  <2>2. CASE ~Loaded
    <3>1. UNCHANGED <<data, chunkCtl, purgeCtl>>
      BY <1>2, <2>2 DEF WriteReaches, diskVars, Order, OrderPhases
    <3> QED BY <1>2, <1>3, <2>2, <3>1, SavesFrame DEF StoreInv
  <2> QED BY <2>1, <2>2
<1>6. Purging' /\ Window' /\ Served'
  BY <1>2, <1>3 DEF Purging, Window, Served
<1> QED BY <1>2, <1>3, <1>5, <1>6 DEF StoreInv, Shown

\* Recovery shows the snapshot until it ends, and then the map it has found.
LEMMA RecoverStutters ==
  ASSUME IInv, Order, MapInv, StoreInv, Recover
  PROVE  StoreInv' /\ Stutters
<1>1. /\ mode = "RECOVERY" /\ ~Loaded /\ UNCHANGED <<step, cacheVars, diskVars, saved>>
      /\ (Loaded' => FinishRecovery) /\ (FinishRecovery => Loaded')
  BY Geometry DEF Recover, ScanChunk, RecoverPosition, ReplayPurge, FinishRecovery, Loaded, Chunks,
     bookVars
<1>2. step = "idle" /\ cache = <<>> /\ ~RelocationPrepared
  BY <1>1 DEF IInv, CachePhases, MapInv, Relocation, PacePhases
<1>3. ~RelocationPrepared'
  BY <1>2 DEF Recover, ScanChunk, RecoverPosition, ReplayPurge, FinishRecovery, relocVars,
     FindNextChunk
<1>4. Purging' /\ Window' /\ Served'
  BY <1>1, <1>2, <1>3 DEF Purging, HoldsCache, Window, Served, cacheVars
<1>5. CASE ~FinishRecovery
  <2>1. Saves'
    BY <1>1, <1>5, SavesFrame DEF StoreInv, diskVars
  <2> QED BY <1>1, <1>4, <1>5, <2>1 DEF StoreInv, Stutters, Shown
<1>6. CASE FinishRecovery
  <2>1. PICK m \in Maps, cur \in Chunks, s \in Nat, from \in PurgeEnds, t \in LBATable, x \in PurgeEnds :
          OnMedium(m, cur, s, from, t, x) /\ saved = Placed(m, data)
    BY <1>1 DEF StoreInv, Saves
  <2>2. PICK s2 \in Nat, from2 \in PurgeEnds, t2 \in LBATable :
          OnMedium(Map, ChunkNo, s2, from2, t2, PurgePos)
    BY <1>6, EndOfLog
  <2>3. Map \in Maps /\ ChunkNo \in Chunks /\ PurgePos \in PurgeEnds /\ DiskTypeOK /\ Medium
    BY DEF IInv, TypeOK, LogTypeOK, Maps, MapInv
  <2>4. m = Map
    BY <2>1, <2>2, <2>3, MediumUnique
  <2>5. Map' = Map /\ data' = data
    BY <1>1, <1>6 DEF FinishRecovery, diskVars
  <2>6. saved' = Placed(Map', data')
    BY <1>1, <2>1, <2>4, <2>5
  <2>7. Content' = Placed(Map', data')
    BY <1>1, <1>2, EmptyShows DEF cacheVars
  <2> QED BY <1>1, <1>4, <1>6, <2>6, <2>7 DEF StoreInv, Saves, Stutters, Shown
<1> QED BY <1>5, <1>6

-----------------------------------------------------------------------------
(* The log is a snapshot store *)

\* A formatted medium shows what was saved.
LEMMA InitStore == Init => StoreInv /\ Store!Init
<1> SUFFICES ASSUME Init PROVE StoreInv /\ Store!Init
  OBVIOUS
<1>1. ~Loaded /\ step = "idle" /\ cache = <<>> /\ ~RelocationPrepared
  BY Geometry DEF Init, Loaded
<1>2. Saves
  <2>1. PICK fixed \in BOOLEAN : Formatted(fixed)
    BY DEF Init
  <2>2. PICK m \in Maps, s \in Nat, from \in PurgeEnds, t \in LBATable, x \in PurgeEnds :
          /\ OnMedium(m, 1, s, from, t, x)
          /\ saved = [b \in Blocks |-> IF m[b] = NotMapped THEN {} ELSE data[m[b]]]
    BY <2>1, FormatHoldsLog
  <2>3. saved = Placed(m, data)
    BY <2>2 DEF Placed
  <2>4. 1 \in Chunks
    BY Geometry DEF Chunks
  <2> QED BY <1>1, <2>2, <2>3, <2>4 DEF Saves
<1>3. Purging /\ Window /\ Served
  BY <1>1 DEF Purging, Window, Served
<1>4. Shown = saved /\ saved \in [Blocks -> SUBSET (Halves \X (0..Garbage))]
  BY <1>1, InitIInv DEF Shown, IInv, TypeOK, BookTypeOK, Ids
<1>5. Accepted = NoRequest
  BY <1>1 DEF Accepted
<1> QED BY <1>2, <1>3, <1>4, <1>5 DEF StoreInv, Store!Init, Store!Contents

\* What the thread has taken up is a request of the store.
LEMMA AcceptedType ==
  BookTypeOK /\ req.block \in Blocks /\ step # "idle" /\ IsWrite =>
    /\ Accepted \in Store!Requests
    /\ Accepted.block = req.block /\ Accepted.token = WriteId(req.block)
    /\ \A old : Store!After(old, Accepted) = Overwritten(req.kind, WriteId(req.block), old)
<1> SUFFICES ASSUME BookTypeOK, req.block \in Blocks, step # "idle", IsWrite
             PROVE  /\ Accepted \in Store!Requests
                    /\ Accepted.block = req.block /\ Accepted.token = WriteId(req.block)
                    /\ \A old : Store!After(old, Accepted) = Overwritten(req.kind, WriteId(req.block), old)
  OBVIOUS
<1> DEFINE w == WriteId(req.block)
<1>1. w \in 0..Garbage
  BY WriteTokens
<1>2. Accepted = [block |-> req.block, covers |-> Covers(req.kind), reaches |-> Reaches(req.kind),
                  token |-> w]
  BY DEF Accepted
<1> HIDE DEF w
<1>3. /\ Covers(req.kind) \subseteq Halves /\ Reaches(req.kind) \subseteq Halves
      /\ Covers(req.kind) \subseteq Reaches(req.kind) /\ Reaches(req.kind) # {}
  BY DEF IsWrite, Covers, Reaches, Halves
<1>4. Accepted \in Store!Requests
  BY <1>1, <1>2, <1>3 DEF Store!Requests
<1>5. ASSUME NEW old PROVE Store!After(old, Accepted) = Overwritten(req.kind, w, old)
  <2>1. Store!After(old, Accepted)
          = {x \in old : x[1] \notin Covers(req.kind)} \cup (Reaches(req.kind) \X {w})
    BY <1>2 DEF Store!After
  <2>2. CASE req.kind = "inner"
    <3>1. Covers(req.kind) = {} /\ Reaches(req.kind) = Halves
      BY <2>2 DEF Covers, Reaches, Halves
    <3>2. {x \in old : x[1] \notin Covers(req.kind)} = old
      BY <3>1
    <3> QED BY <2>1, <2>2, <3>1, <3>2 DEF Overwritten
  <2>3. CASE req.kind # "inner"
    BY <2>1, <2>3 DEF Overwritten, Reaches
  <2> QED BY <2>2, <2>3
<1> QED BY <1>2, <1>4, <1>5 DEF w

\* A write in the cache is the accepted write to the store, done.
LEMMA WritesAreWrites ==
  ASSUME IInv, WriteHit \/ WriteAppend, Writes, Shown = Content, Shown' = Content', saved' = saved
  PROVE  Store!Write
<1>1. step # "idle" /\ IsWrite /\ step' = "idle"
  BY DEF WriteHit, WriteAppend, Ready, Writing
<1>2. req.block \in Blocks /\ BookTypeOK
  BY <1>1 DEF IInv, TypeOK, ThreadTypeOK
<1>3. /\ Accepted \in Store!Requests /\ Accepted.block = req.block
      /\ \A old : Store!After(old, Accepted) = Overwritten(req.kind, WriteId(req.block), old)
  BY <1>1, <1>2, AcceptedType
<1>4. Accepted' = NoRequest
  BY <1>1 DEF Accepted
<1>5. Shown' = [Shown EXCEPT ![Accepted.block] = Store!After(@, Accepted)]
  BY <1>3 DEF Writes
<1> QED BY <1>3, <1>4, <1>5 DEF Store!Write

\* A write taken up is accepted.
LEMMA DispatchAccepts ==
  ASSUME IInv', NEW k \in Kinds, NEW b \in Blocks, DispatchWrite(k, b), Stutters
  PROVE  Store!Accept
<1>1. step = "idle" /\ step' # "idle" /\ req' = [kind |-> k, block |-> b]
  BY DEF DispatchWrite
<1>2. k \in {"full", "head", "tail", "inner"}
  BY Parameters DEF DispatchWrite
<1>3. IsWrite' /\ (req.block)' \in Blocks /\ BookTypeOK'
  BY <1>1, <1>2 DEF IsWrite, IInv, TypeOK
<1>4. Accepted' \in Store!Requests
  <2>1. (BookTypeOK /\ req.block \in Blocks /\ step # "idle" /\ IsWrite =>
           Accepted \in Store!Requests)'
    BY AcceptedType, PTL
  <2> QED BY <1>1, <1>3, <2>1
<1>5. Accepted = NoRequest
  BY <1>1 DEF Accepted
<1> QED BY <1>4, <1>5 DEF Store!Accept, Stutters

\* One given up is refused.
LEMMA AbortRefuses ==
  ASSUME IInv, WriteAbort, Stutters
  PROVE  Store!Refuse
<1>1. step # "idle" /\ IsWrite /\ step' = "idle"
  BY DEF WriteAbort
<1>2. req.block \in Blocks /\ BookTypeOK
  BY <1>1 DEF IInv, TypeOK, ThreadTypeOK
<1>3. Accepted \in Store!Requests
  BY <1>1, <1>2, AcceptedType
<1>4. Accepted' = NoRequest
  BY <1>1 DEF Accepted
<1> QED BY <1>3, <1>4 DEF Store!Refuse, Stutters

\* All other steps leave the accepted write as it is.
LEMMA AcceptedKept ==
  ASSUME \/ Serve /\ ~WriteAbort /\ ~WriteHit /\ ~WriteAppend
         \/ \E k \in Kinds : DispatchFlush(k)
         \/ \E r \in Readers, b \in Blocks : StartRead(r, b)
         \/ \E r \in Readers : FinishRead(r)
         \/ Recover \/ RecoveryFails \/ UNCHANGED vars
  PROVE  Accepted' = Accepted
<1>1. CASE Serve /\ ~WriteAbort /\ ~WriteHit /\ ~WriteAppend /\ ~FlushDone
  <2>1. UNCHANGED <<req, writes>> /\ step # "idle" /\ step' # "idle"
    BY <1>1 DEF Serve, CloseChunk, SwitchChunk, PrepareRelocate, PrepareRelocateDone, RelocateQuota,
       RelocateEnd, RelocateCopy, ExecuteRelocate, RelocateRead, WritePurge, WriteFill,
       CacheFillReadDone, FlushFill, FlushPurge, FlushFinalize, PurgeCacheDone, PurgeChunkDone,
       IoFails, CacheFill, ExecutePurgeCache, ExecutePurgeChunk, Relocating, Ready, Writing,
       Flushing, bookVars
  <2> QED BY <2>1 DEF Accepted, IsWrite, WriteId
<1>2. CASE FlushDone
  BY <1>2 DEF FlushDone, Flushing, Accepted, IsWrite
<1>3. ASSUME NEW k \in Kinds, DispatchFlush(k) PROVE Accepted' = Accepted
  BY <1>3 DEF DispatchFlush, Accepted, IsWrite
<1>4. ASSUME NEW r \in Readers, NEW b \in Blocks, StartRead(r, b) PROVE Accepted' = Accepted
  BY <1>4 DEF StartRead, Accepted, IsWrite, WriteId, bookVars
<1>5. ASSUME NEW r \in Readers, FinishRead(r) PROVE Accepted' = Accepted
  <2>1. UNCHANGED <<req, writes>> /\ (step' = "idle" <=> step = "idle")
    BY <1>5 DEF FinishRead, bookVars
  <2> QED BY <2>1 DEF Accepted, IsWrite, WriteId
<1>6. CASE Recover \/ RecoveryFails \/ UNCHANGED vars
  <2>1. UNCHANGED <<req, step, writes>>
    BY <1>6 DEF Recover, ScanChunk, RecoverPosition, ReplayPurge, FinishRecovery, RecoveryFails,
       vars, bookVars
  <2> QED BY <2>1 DEF Accepted, IsWrite, WriteId
<1> QED BY <1>1, <1>2, <1>3, <1>4, <1>5, <1>6

\* The steps of the store, with those of the log that do the accepted write.
StoreSteps ==
  \/ (WriteHit \/ WriteAppend) /\ Store!Write
  \/ Store!Accept \/ Store!Refuse \/ Store!Save \/ Store!Crash
  \/ UNCHANGED Store!vars

\* Every step of the log is one of these.
LEMMA NextStore ==
  ASSUME ~TornFirstChunk, Capacity, ~FinalizeAnytime, IInv, IInv', Order, Order', MapInv, StoreInv,
         [Next]_vars
  PROVE  StoreInv' /\ StoreSteps
<1>1. Stutters /\ Accepted' = Accepted => UNCHANGED Store!vars
  BY DEF Stutters, Store!vars
<1>2. CASE WriteHit \/ WriteAppend
  <2>1. StoreInv' /\ Writes /\ Shown = Content /\ Shown' = Content' /\ saved' = saved
    BY <1>2, WriteHitWrites, WriteAppendWrites
  <2>2. Store!Write
    BY <1>2, <2>1, WritesAreWrites
  <2> QED BY <1>2, <2>1, <2>2 DEF StoreSteps
<1>3. CASE WriteAbort
  <2>1. StoreInv' /\ Stutters
    BY <1>3, RequestStepsStutter
  <2>2. Store!Refuse
    BY <1>3, <2>1, AbortRefuses
  <2> QED BY <2>1, <2>2 DEF StoreSteps
<1>4. CASE PurgeCacheDone
  <2>1. StoreInv' /\ Shown' = Shown /\ saved' = Shown'
    BY <1>4, PurgeCacheDoneSaves
  <2>2. ~WriteAbort /\ ~WriteHit /\ ~WriteAppend
    BY <1>4 DEF PurgeCacheDone, WriteAbort, WriteHit, WriteAppend, Ready, Writing
  <2>3. Accepted' = Accepted
    BY <1>4, <2>2, AcceptedKept DEF Serve
  <2> QED BY <2>1, <2>3 DEF StoreSteps, Store!Save
<1>5. CASE Serve /\ ~WriteAbort /\ ~WriteHit /\ ~WriteAppend /\ ~PurgeCacheDone
  <2>1. Accepted' = Accepted
    BY <1>5, AcceptedKept
  <2>2. StoreInv' /\ Stutters
    <3>1. CASE FlushDone BY <3>1, RequestStepsStutter
    <3>2. CASE CloseChunk \/ FlushFinalize BY <3>2, PurgeChunkBeginsStutters
    <3>3. CASE SwitchChunk BY <3>3, SwitchChunkStutters
    <3>4. CASE \/ PrepareRelocate \/ PrepareRelocateDone \/ RelocateQuota \/ RelocateEnd
               \/ ExecuteRelocate \/ RelocateRead \/ WritePurge \/ FlushPurge
               \/ (WriteFill \/ FlushFill) /\ UNCHANGED cache
      BY <3>4, ThreadStepsStutter
    <3>5. CASE RelocateCopy BY <3>5, RelocateCopyStutters
    <3>6. CASE CacheFillReadDone \/ ((WriteFill \/ FlushFill) /\ cache' # cache)
      BY <3>6, FillStutters
    <3>7. CASE PurgeChunkDone BY <3>7, PurgeChunkDoneStutters
    <3>8. CASE IoFails BY <3>8, IoFailsStutters
    <3> QED BY <1>5, <3>1, <3>2, <3>3, <3>4, <3>5, <3>6, <3>7, <3>8 DEF Serve
  <2> QED BY <1>1, <2>1, <2>2 DEF StoreSteps
<1>6. CASE Crash \/ Reinitialize
  <2>1. StoreInv' /\ Shown' = saved' /\ (saved' = saved \/ saved' = Shown)
    BY <1>6, RestartSaves
  <2>2. Accepted' = NoRequest
    BY <1>6 DEF Crash, Reinitialize, LoseMemory, Accepted
  <2>3. Store!Crash
    BY <2>1, <2>2 DEF Store!Crash
  <2> QED BY <2>1, <2>3 DEF StoreSteps
<1>7. ASSUME NEW k \in Kinds, NEW b \in Blocks, DispatchWrite(k, b)
      PROVE  StoreInv' /\ StoreSteps
  <2>1. StoreInv' /\ Stutters
    BY <1>7, RequestStepsStutter
  <2>2. Store!Accept
    BY <1>7, <2>1, DispatchAccepts
  <2> QED BY <2>1, <2>2 DEF StoreSteps
<1>8. CASE \/ \E k \in Kinds : DispatchFlush(k)
           \/ \E r \in Readers, b \in Blocks : StartRead(r, b)
           \/ \E r \in Readers : FinishRead(r)
           \/ Recover \/ RecoveryFails \/ UNCHANGED vars
  <2>1. Accepted' = Accepted
    BY <1>8, AcceptedKept
  <2>2. StoreInv' /\ Stutters
    BY <1>8, DispatchFlushStutters, RecoverStutters, RequestStepsStutter
  <2> QED BY <1>1, <2>1, <2>2 DEF StoreSteps
<1> QED BY <1>2, <1>3, <1>4, <1>5, <1>6, <1>7, <1>8 DEF Next

\* The log behaves as SnapshotStore: every step of it accepts a write, does it or refuses it,
\* saves all blocks, falls back to what was saved, or shows nothing at all.  A crash between
\* any two steps, or in the middle of a write to the medium, never shows a mixture.
\* Assumed are that the first control is not torn, that the blocks leave the relocation
\* room, and that a flush that finalizes does not meet a clean cache with blocks in it.
THEOREM LogImplementsStore ==
  ~TornFirstChunk /\ Capacity /\ ~FinalizeAnytime /\ Spec => StoreSpec
<1> SUFFICES ASSUME ~TornFirstChunk, Capacity, ~FinalizeAnytime
             PROVE  Spec => StoreSpec
  OBVIOUS
<1>1. Init => StoreInv /\ Store!Init
  BY InitStore
<1>2. IInv /\ IInv' /\ Order /\ Order' /\ MapInv /\ StoreInv /\ [Next]_vars
        => StoreInv' /\ [Store!Next]_(Store!vars)
  BY NextStore DEF StoreSteps, Store!Next
<1> QED BY <1>1, <1>2, MapKept, PTL DEF Spec, StoreSpec, Store!Spec

-----------------------------------------------------------------------------
(* What a block may show, and what a power loss may take back *)

\* A block shows only writes made to it, and the one the thread is at is counted.
Owned ==
  /\ OnlyOwnWrites
  /\ step # "idle" /\ IsWrite => writes[req.block] >= 1

\* Writes are never forgotten.
LEMMA MadeGrows ==
  ASSUME IInv, IInv', [Next]_vars
  PROVE  \A b \in Blocks : MadeTo(b) \subseteq MadeTo(b)'
<1>1. \A b \in Blocks : writes[b] \in Nat /\ writes'[b] \in Nat
  BY Parameters DEF IInv, TypeOK, BookTypeOK
<1>2. ASSUME NEW b \in Blocks PROVE writes[b] <= writes'[b]
  <2>1. ASSUME NEW k \in Kinds, NEW c \in Blocks, DispatchWrite(k, c) PROVE writes[b] <= writes'[b]
    BY <1>1, <2>1 DEF DispatchWrite, IInv, TypeOK, BookTypeOK
  <2>2. CASE UNCHANGED writes
    BY <1>1, <2>2
  <2>3. CASE ~UNCHANGED writes
    BY <2>1, <2>3 DEF Next, vars, bookVars, Serve, Recover, DispatchFlush, StartRead, FinishRead,
       Crash, Reinitialize, LoseMemory, RecoveryFails, ScanChunk, RecoverPosition, ReplayPurge,
       FinishRecovery, WriteAbort, CloseChunk, SwitchChunk, PrepareRelocate, PrepareRelocateDone,
       RelocateQuota, RelocateEnd, RelocateCopy, ExecuteRelocate, RelocateRead, WriteHit, WritePurge,
       WriteFill, CacheFillReadDone, WriteAppend, FlushFill, FlushPurge, FlushFinalize, FlushDone,
       PurgeCacheDone, PurgeChunkDone, IoFails, CacheFill, ExecutePurgeCache, ExecutePurgeChunk
  <2> QED BY <2>2, <2>3
<1> QED BY <1>1, <1>2 DEF MadeTo

\* The write the thread is at stays counted.
LEMMA CountedKept ==
  ASSUME IInv, IInv', Owned, [Next]_vars
  PROVE  (step # "idle" /\ IsWrite => writes[req.block] >= 1)'
<1>1. ASSUME NEW k \in Kinds, NEW b \in Blocks, DispatchWrite(k, b)
      PROVE  (writes[req.block] >= 1)'
  <2>1. writes[b] \in Nat /\ writes'[b] = writes[b] + 1 /\ req' = [kind |-> k, block |-> b]
    BY <1>1, Parameters DEF DispatchWrite, IInv, TypeOK, BookTypeOK
  <2> QED BY <2>1
<1>2. ASSUME NEW k \in Kinds, DispatchFlush(k) PROVE ~IsWrite'
  BY <1>2 DEF DispatchFlush, IsWrite
<1>3. ASSUME NEW r \in Readers, FinishRead(r)
      PROVE  UNCHANGED <<req, writes>> /\ (step' # "idle" => step # "idle")
  BY <1>3 DEF FinishRead, bookVars
<1>4. CASE Serve
  <2>1. step # "idle" /\ (step' # "idle" => UNCHANGED <<req, writes>>)
    BY <1>4 DEF Serve, WriteAbort, CloseChunk, SwitchChunk, PrepareRelocate, PrepareRelocateDone,
       RelocateQuota, RelocateEnd, RelocateCopy, ExecuteRelocate, RelocateRead, WriteHit, WritePurge,
       WriteFill, CacheFillReadDone, WriteAppend, FlushFill, FlushPurge, FlushFinalize, FlushDone,
       PurgeCacheDone, PurgeChunkDone, IoFails, CacheFill, ExecutePurgeCache, ExecutePurgeChunk,
       Relocating, Ready, Writing, Flushing, bookVars
  <2> QED BY <2>1 DEF Owned, IsWrite
<1>5. CASE Crash \/ Reinitialize
  BY <1>5 DEF Crash, Reinitialize, LoseMemory
<1>6. CASE \/ \E r \in Readers, b \in Blocks : StartRead(r, b)
           \/ Recover \/ RecoveryFails \/ UNCHANGED vars
  <2>1. UNCHANGED <<req, step, writes>>
    BY <1>6 DEF StartRead, Recover, ScanChunk, RecoverPosition, ReplayPurge, FinishRecovery,
       RecoveryFails, vars, bookVars
  <2> QED BY <2>1 DEF Owned, IsWrite
<1> QED BY <1>1, <1>2, <1>3, <1>4, <1>5, <1>6 DEF Next, Owned, IsWrite

\* Shown is a function on the blocks.
LEMMA ShownIsFunction ==
  ASSUME NEW b, NEW c, NEW v, IInv, Shown' = [Shown EXCEPT ![c] = v], b # c, b \in Blocks
  PROVE  Shown'[b] = Shown[b]
<1>1. Shown = [d \in Blocks |-> Shown[d]]
  BY ContentIsFunction DEF Shown, IInv, TypeOK, BookTypeOK
<1> QED BY <1>1

\* What a block shows next it has shown or saved before, or it is the write made to it.
LEMMA OwnKept ==
  ASSUME IInv, IInv', Owned, StoreSteps, [Next]_vars
  PROVE  OnlyOwnWrites'
<1>1. \A b \in Blocks : MadeTo(b) \subseteq MadeTo(b)'
  BY MadeGrows
<1>2. CASE (WriteHit \/ WriteAppend) /\ Store!Write
  <2>1. step # "idle" /\ IsWrite
    BY <1>2 DEF WriteHit, WriteAppend, Ready, Writing
  <2>2. req.block \in Blocks /\ BookTypeOK
    BY <2>1 DEF IInv, TypeOK, ThreadTypeOK
  <2>3. Accepted.block = req.block /\ Accepted.token = WriteId(req.block)
    BY <2>1, <2>2, AcceptedType
  <2>4. WriteId(req.block) \in MadeTo(req.block)
    <3>1. writes[req.block] \in 1..writes[req.block]
      BY <2>1, <2>2, Parameters DEF Owned, BookTypeOK
    <3> QED BY <3>1 DEF MadeTo, WriteId
  <2>5. /\ saved' = saved
        /\ Shown' = [Shown EXCEPT ![req.block] = Store!After(@, Accepted)]
    BY <1>2, <2>3 DEF Store!Write
  <2>6. \A old : \A x \in Store!After(old, Accepted) : x \in old \/ x[2] = WriteId(req.block)
    BY <2>3 DEF Store!After
  <2>7. ASSUME NEW b \in Blocks, NEW x \in Shown'[b] PROVE x[2] \in MadeTo(b)
    <3>1. CASE b = req.block
      <4>1. Shown'[b] = Store!After(Shown[b], Accepted) \/ Shown'[b] = Shown[b]
        BY <2>5, <3>1
      <4> QED BY <2>4, <2>6, <2>7, <3>1, <4>1 DEF Owned, OnlyOwnWrites
    <3>2. CASE b # req.block
      <4>1. Shown'[b] = Shown[b]
        BY <2>5, <3>2, ShownIsFunction
      <4> QED BY <2>7, <4>1 DEF Owned, OnlyOwnWrites
    <3> QED BY <3>1, <3>2
  <2> QED BY <1>1, <2>5, <2>7 DEF Owned, OnlyOwnWrites
<1>3. CASE Store!Accept \/ Store!Refuse \/ Store!Save \/ Store!Crash \/ UNCHANGED Store!vars
  <2>1. Shown' \in {Shown, saved} /\ saved' \in {Shown, saved}
    BY <1>3 DEF Store!Accept, Store!Refuse, Store!Save, Store!Crash, Store!vars
  <2> QED BY <1>1, <2>1 DEF Owned, OnlyOwnWrites
<1> QED BY <1>2, <1>3 DEF StoreSteps

\* What SetLevelingConfig leaves in block 0 is its own.
LEMMA InitOwned == Init => Owned
<1> SUFFICES ASSUME Init PROVE Owned
  OBVIOUS
<1>1. ~Loaded /\ step = "idle"
  BY Geometry DEF Init, Loaded
<1>2. PICK fixed \in BOOLEAN : saved = [b \in Blocks |-> IF fixed /\ b = 0 THEN Whole(0) ELSE {}]
  BY DEF Init, Formatted
<1>3. Shown = saved
  BY <1>1 DEF Shown
<1>4. \A b \in Blocks : \A x \in saved[b] : x[2] = 0 /\ b = 0
  BY <1>2 DEF Whole
<1> QED BY <1>1, <1>3, <1>4 DEF Owned, OnlyOwnWrites, MadeTo

\* The snapshot on the medium is what StoreInv says of it in every reachable state.
LEMMA StoreKept ==
  ~TornFirstChunk /\ Capacity /\ ~FinalizeAnytime /\ Spec
    => [](IInv /\ Order /\ MapInv /\ StoreInv)
<1> SUFFICES ASSUME ~TornFirstChunk, Capacity, ~FinalizeAnytime
             PROVE  Spec => [](IInv /\ Order /\ MapInv /\ StoreInv)
  OBVIOUS
<1>1. Init => StoreInv
  BY InitStore
<1>2. IInv /\ IInv' /\ Order /\ Order' /\ MapInv /\ StoreInv /\ [Next]_vars => StoreInv'
  BY NextStore
<1> QED BY <1>1, <1>2, MapKept, PTL DEF Spec

\* No block ever shows what was written to another one, what an earlier life of its place
\* left there, or what the memory of the cache held: not through relocation, a partly
\* filled purge (vscsi.c:426-470), a failed write or a recovery.
THEOREM OwnWritesOnly ==
  ~TornFirstChunk /\ Capacity /\ ~FinalizeAnytime /\ Spec => []OnlyOwnWrites
<1> SUFFICES ASSUME ~TornFirstChunk, Capacity, ~FinalizeAnytime
             PROVE  Spec => []OnlyOwnWrites
  OBVIOUS
<1>1. Init => Owned
  BY InitOwned
<1>2. /\ IInv /\ Order /\ MapInv /\ StoreInv /\ (IInv /\ Order)' /\ Owned /\ [Next]_vars
      => Owned'
  BY NextStore, CountedKept, OwnKept DEF Owned
<1>3. Owned => OnlyOwnWrites
  BY DEF Owned
<1> QED BY <1>1, <1>2, <1>3, StoreKept, PTL DEF Spec

\* A power loss takes back no more than one cache of blocks: the map alone shows what is
\* saved, so that a block shown otherwise is in the cache.
THEOREM LossBounded ==
  ~TornFirstChunk /\ Capacity /\ ~FinalizeAnytime /\ Spec => []LossIsBounded
<1>1. IInv /\ StoreInv => LossIsBounded
  <2> SUFFICES ASSUME IInv, StoreInv PROVE LossIsBounded
    OBVIOUS
  <2> DEFINE D == {b \in Blocks : Shown[b] # saved[b]}
             n == Len(cache)
  <2>1. n \in Nat /\ n <= LastCachePos /\ LastCachePos \in Nat
    BY LenProperties, Sizes DEF IInv, TypeOK, CacheTypeOK, CacheConsistent
  <2>2. \A b \in D : \E i \in 1..n : cache[i].lba = b
    <3>1. CASE Loaded
      <4>1. saved = Placed(Map, data) /\ Shown = Content
        BY <3>1 DEF StoreInv, Saves, Shown
      <4> QED BY <4>1, ContentSeen, SeenBelow
    <3>2. CASE ~Loaded
      BY <3>2 DEF Shown
    <3> QED BY <3>1, <3>2
  <2> DEFINE f == [b \in D |-> CHOOSE i \in 1..n : cache[i].lba = b]
  <2> HIDE DEF D, n
  <2>3. \A b \in D : f[b] \in 1..n /\ cache[f[b]].lba = b
    BY <2>2
  <2>4. f \in [D -> 1..n]
    BY <2>3
  <2> HIDE DEF f
  <2>5. f \in Injection(D, 1..n)
    BY <2>3, <2>4 DEF Injection, IsInjective
  <2>6. IsFiniteSet(1..n) /\ Cardinality(1..n) = n
    BY <2>1, FS_Interval
  <2>7. Cardinality(D) <= n /\ IsFiniteSet(D)
    BY <2>5, <2>6, FS_Injection
  <2>8. Cardinality(D) \in Nat
    BY <2>7, FS_CardinalityType
  <2> QED BY <2>1, <2>7, <2>8 DEF LossIsBounded, D
<1> QED BY <1>1, StoreKept, PTL
=============================================================================
