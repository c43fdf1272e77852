--------------------------- MODULE ChunkLogProofs ---------------------------
(***************************************************************************)
(* Type correctness of ChunkLog, the agreement of ChunkInfo.Used with the  *)
(* map, the consistency of the cache, and the order of the chunks: after   *)
(* every restart, whatever was cut short, the chunk in use is the one with *)
(* the largest SCN.  For every geometry, with any number of power losses   *)
(* and failures.                                                           *)
(***************************************************************************)
EXTENDS ChunkLog, FiniteSetTheorems, SequenceTheorems, WellFoundedInduction, TLAPS

-----------------------------------------------------------------------------
(* Geometry *)

\* The bounds of a chunk are natural numbers, and a purge has room for a block.
LEMMA Sizes ==
  /\ LastPurgePos \in Nat /\ LastPurgePos > 0
  /\ LastCachePos \in Nat /\ LastCachePos >= 1 /\ CacheSize = LastCachePos + 1
  /\ 0 \in PurgeEnds /\ CacheSize \in PurgeEnds /\ LastPurgePos \in PurgeEnds
  /\ \A p \in PurgeEnds : p \in Nat /\ p <= LastPurgePos
  /\ CacheSize < LastPurgePos
<1>1. PURGES * CacheSize \in Nat /\ PURGES * CacheSize > CacheSize
  BY Geometry
<1>2. \A n \in 0..PURGES : n * CacheSize \in Nat /\ n * CacheSize <= PURGES * CacheSize
  <2>1. \A n \in 0..PURGES : n * CacheSize \in Nat BY Geometry
  <2>2. \A n \in 0..PURGES : (PURGES - n) * CacheSize >= 0 BY Geometry
  <2>3. \A n \in 0..PURGES : (PURGES - n) * CacheSize = PURGES * CacheSize - n * CacheSize BY Geometry
  <2> QED BY <2>1, <2>2, <2>3, <1>1
<1>3. 0 * CacheSize = 0 /\ 1 * CacheSize = CacheSize
  BY Geometry
<1>4. 0 \in 0..PURGES /\ 1 \in 0..PURGES /\ PURGES \in 0..PURGES
  BY Geometry
<1> QED BY <1>1, <1>2, <1>3, <1>4, Geometry DEF LastPurgePos, LastCachePos, PurgeEnds

\* A purge that begins before the end of the chunk lies inside it.
LEMMA PurgeFits ==
  ASSUME NEW p \in PurgeEnds, p # LastPurgePos
  PROVE  /\ p < LastPurgePos /\ p + CacheSize <= LastPurgePos
         /\ p + CacheSize \in PurgeEnds
         /\ \A c \in Chunks : <<c, p>> \in PurgePlaces
         /\ p..(p + LastCachePos) \subseteq Positions
<1>1. PICK n \in 0..PURGES : p = n * CacheSize
  BY DEF PurgeEnds
<1>2. n \in 0..(PURGES - 1) /\ n + 1 \in 0..PURGES
  BY <1>1, Geometry DEF LastPurgePos
<1>3. p + CacheSize = (n + 1) * CacheSize
  BY <1>1, <1>2, Geometry
<1>4. p + CacheSize \in PurgeEnds
  BY <1>2, <1>3 DEF PurgeEnds
<1>5. p \in Nat /\ p + CacheSize <= LastPurgePos
  BY <1>4, Sizes
<1>6. \A c \in Chunks : <<c, p>> \in PurgePlaces
  BY <1>1, <1>2 DEF PurgePlaces
<1> QED BY <1>4, <1>5, <1>6, Sizes, Geometry DEF Positions

\* The chunks and the blocks begin at zero and there are some of each.
LEMMA SmallNumbers ==
  /\ 0 \in Chunks /\ 1 \in Chunks /\ Chunks \subseteq Nat
  /\ 0 \in Blocks /\ Blocks \subseteq Nat /\ 0 \in Positions /\ Positions \subseteq Nat
  /\ \A c \in Chunks : FirstPos(c) \in {0, CacheSize} /\ FirstPos(c) \in PurgeEnds
                        /\ FirstPos(c) # LastPurgePos
  /\ IsFiniteSet(Blocks)
<1>1. IsFiniteSet(Blocks)
  BY FS_Interval, Geometry DEF Blocks
<1> QED BY <1>1, Sizes, Geometry DEF Chunks, Blocks, Positions, FirstPos

\* Every write has a name below Garbage, and what it leaves of a block is a set of writes.
LEMMA WriteIds ==
  ASSUME BookTypeOK, NEW b \in Blocks
  PROVE  /\ Whole(Garbage) \subseteq Ids
         /\ \A kind : \A old \in SUBSET Ids : Written(kind, WriteId(b), old) \in SUBSET Ids
<1>1. writes[b] \in Nat /\ writes[b] <= MaxWrites /\ b \in Nat /\ b <= SIZE_OF_MAP
      /\ MaxWrites \in Nat /\ SIZE_OF_MAP \in Nat
  BY Parameters, Geometry DEF BookTypeOK, Blocks
<1>2. (MaxWrites - writes[b]) * SIZE_OF_MAP >= 0
  BY <1>1
<1>3. (MaxWrites - writes[b]) * SIZE_OF_MAP = MaxWrites * SIZE_OF_MAP - writes[b] * SIZE_OF_MAP
  BY <1>1
<1>4. SIZE_OF_MAP * (MaxWrites + 1) = MaxWrites * SIZE_OF_MAP + SIZE_OF_MAP
  BY <1>1
<1>5. writes[b] * SIZE_OF_MAP \in Nat /\ MaxWrites * SIZE_OF_MAP \in Nat
  BY <1>1
<1>6. WriteId(b) \in 0..Garbage /\ Garbage \in 0..Garbage
  BY <1>1, <1>2, <1>3, <1>4, <1>5 DEF WriteId, Garbage
<1>7. Whole(Garbage) \subseteq Ids
  BY <1>6 DEF Whole, Ids
<1>8. ASSUME NEW kind, NEW old \in SUBSET Ids
      PROVE  Written(kind, WriteId(b), old) \subseteq Ids
  BY <1>6 DEF Written, Reaches, Covers, Ids
<1> QED BY <1>7, <1>8

\* A non-empty set of numbers below a bound has a greatest one: the intervals above the
\* members of the set, ordered by inclusion, have a smallest one.
LEMMA GreatestBelow ==
  ASSUME NEW n \in Nat, NEW S, S \subseteq 0..n, S # {}
  PROVE  \E p \in S : \A q \in S : q <= p
<1> DEFINE Above(p) == (p + 1)..n
           T == {Above(p) : p \in S}
           F == FiniteSubsetsOf(Nat)
<1>1. T \subseteq F /\ T # {}
  <2>1. \A p \in S : Above(p) \subseteq Nat /\ IsFiniteSet(Above(p))
    BY FS_Interval
  <2> QED BY <2>1 DEF FiniteSubsetsOf
<1>2. \E x \in T : \A y \in T : <<y, x>> \notin StrictSubsetOrdering(Nat)
  <2>1. IsWellFoundedOn(StrictSubsetOrdering(Nat), F)
    BY FS_StrictSubsetOrderingWellFounded
  <2> HIDE DEF T, F
  <2> QED BY <1>1, <2>1, WFMin
<1>3. PICK p \in S : \A q \in S : <<Above(q), Above(p)>> \notin StrictSubsetOrdering(Nat)
  BY <1>2
<1>4. ASSUME NEW q \in S, q > p PROVE FALSE
  <2>1. Above(q) \subseteq Nat /\ Above(p) \subseteq Nat
    OBVIOUS
  <2>2. Above(q) \subseteq Above(p) /\ q \in Above(p) /\ q \notin Above(q)
    BY <1>4
  <2> QED BY <1>3, <2>1, <2>2 DEF StrictSubsetOrdering
<1> QED BY <1>4

-----------------------------------------------------------------------------
(* UpdateMap *)

MapTypeOK  == Map \in [Blocks -> Places \cup {NotMapped}]
UsedTypeOK == Used \in [Chunks -> Nat]

\* The place UpdateMap gives to a block named in P is one of P.
LEMMA LatestIsThere ==
  ASSUME NEW lba, NEW P \in SUBSET Positions, NEW b, NamedAt(lba, P, b) # {}
  PROVE  LatestAt(lba, P, b) \in P
<1>1. NamedAt(lba, P, b) \subseteq 0..LastPurgePos
  <2>1. Positions \subseteq 0..LastPurgePos
    BY Sizes DEF Positions
  <2> QED BY <2>1 DEF NamedAt
<1>2. \E p \in NamedAt(lba, P, b) : \A q \in NamedAt(lba, P, b) : q <= p
  BY <1>1, Sizes, GreatestBelow
<1>3. LatestAt(lba, P, b) \in NamedAt(lba, P, b)
  BY <1>2 DEF LatestAt
<1> QED BY <1>3 DEF NamedAt

\* UpdateMap leaves a map into places and keeps Used the number of blocks of each chunk.
LEMMA UpdateMapCounts ==
  ASSUME MapTypeOK, UsedTypeOK, UsedCounts,
         NEW lba, NEW P \in SUBSET Positions, NEW c \in Chunks, NEW scn,
         UpdateMap(lba, P, c, scn)
  PROVE  MapTypeOK' /\ UsedTypeOK' /\ UsedCounts'
<1> DEFINE moved == MovedBy(lba, P, c, scn)
           In(d)  == {b \in Blocks : Map[b] # NotMapped /\ Map[b][1] = d}
           Now(d) == {b \in Blocks : Map'[b] # NotMapped /\ Map'[b][1] = d}
<1>1. /\ Map'  = [b \in Blocks |-> IF b \in moved THEN <<c, LatestAt(lba, P, b)>> ELSE Map[b]]
      /\ Used' = [d \in Chunks |-> (Used[d] + IF d = c THEN Cardinality(moved) ELSE 0)
                                   - Cardinality(LeftBehind(moved, d))]
  BY DEF UpdateMap
<1>2. \A b \in moved : b \in Blocks /\ <<c, LatestAt(lba, P, b)>> \in Places
  BY LatestIsThere DEF MovedBy, Places
<1>3. MapTypeOK'
  BY <1>1, <1>2 DEF MapTypeOK
<1>4. \A S \in SUBSET Blocks : IsFiniteSet(S) /\ Cardinality(S) \in Nat
  BY SmallNumbers, FS_Subset, FS_CardinalityType
<1>5. moved \in SUBSET Blocks
  BY DEF MovedBy
<1>6. \A d \in Chunks : In(d) \in SUBSET Blocks /\ LeftBehind(moved, d) = In(d) \cap moved
  BY <1>5 DEF LeftBehind
<1>7. \A d \in Chunks : Now(d) = IF d = c THEN In(d) \cup moved ELSE In(d) \ moved
  <2>1. \A b \in Blocks : Map'[b] # NotMapped /\ b \in moved => Map'[b][1] = c
    BY <1>1
  <2>2. \A b \in moved : Map'[b] # NotMapped
    BY <1>1, <1>2, Parameters
  <2>3. \A b \in Blocks \ moved : Map'[b] = Map[b]
    BY <1>1
  <2> HIDE DEF moved
  <2> QED BY <2>1, <2>2, <2>3, <1>5
<1>8. ASSUME NEW d \in Chunks PROVE Used'[d] = Cardinality(Now(d))
  <2>1. Used[d] = Cardinality(In(d))
    BY DEF UsedCounts
  <2>2. Used'[d] = (Used[d] + IF d = c THEN Cardinality(moved) ELSE 0)
                     - Cardinality(In(d) \cap moved)
    BY <1>1, <1>6
  <2>3. IsFiniteSet(In(d)) /\ IsFiniteSet(moved) /\ IsFiniteSet(In(d) \cap moved)
    BY <1>4, <1>5, <1>6
  <2>4. /\ Cardinality(In(d) \cup moved)
             = Cardinality(In(d)) + Cardinality(moved) - Cardinality(In(d) \cap moved)
        /\ Cardinality(In(d) \ moved) = Cardinality(In(d)) - Cardinality(In(d) \cap moved)
    <3> HIDE DEF moved, In
    <3> QED BY <2>3, FS_Union, FS_Difference
  <2>5. /\ Cardinality(In(d)) \in Nat /\ Cardinality(moved) \in Nat
        /\ Cardinality(In(d) \cap moved) \in Nat
    BY <2>3, FS_CardinalityType
  <2>6. Now(d) = IF d = c THEN In(d) \cup moved ELSE In(d) \ moved
    BY <1>7
  <2> HIDE DEF moved, In, Now
  <2>7. CASE d = c
    BY <2>1, <2>2, <2>4, <2>5, <2>6, <2>7
  <2>8. CASE d # c
    BY <2>1, <2>2, <2>4, <2>5, <2>6, <2>8
  <2> QED BY <2>7, <2>8
<1>9. UsedCounts'
  BY <1>8 DEF UsedCounts
<1>10. UsedTypeOK'
  <2>1. \A d \in Chunks : Now(d) \in SUBSET Blocks
    OBVIOUS
  <2>2. \A d \in Chunks : Used'[d] \in Nat
    BY <1>8, <2>1, <1>4
  <2> QED BY <1>1, <2>2 DEF UsedTypeOK
<1> QED BY <1>3, <1>9, <1>10

-----------------------------------------------------------------------------
(* The inductive invariant *)

IInv == TypeOK /\ UsedCounts /\ CacheConsistent /\ CachePhases /\ RelocatedOnly

\* A part of the invariant holds on when its variables do not change.
LEMMA Frames ==
  /\ LogTypeOK /\ UNCHANGED logVars => LogTypeOK'
  /\ CacheTypeOK /\ UNCHANGED cacheVars => CacheTypeOK'
  /\ RelocationTypeOK /\ UNCHANGED relocVars => RelocationTypeOK'
  /\ DiskTypeOK /\ UNCHANGED diskVars => DiskTypeOK'
  /\ BookTypeOK /\ UNCHANGED bookVars => BookTypeOK'
  /\ UsedCounts /\ UNCHANGED <<Map, Used>> => UsedCounts'
  /\ CacheConsistent /\ UNCHANGED cache => CacheConsistent'
  /\ RelocatedOnly /\ UNCHANGED <<RelocationDone, cache, RelocatePos, Map, NextChunkNo>>
       => RelocatedOnly'
<1>1. LogTypeOK /\ UNCHANGED logVars => LogTypeOK'
  BY DEF LogTypeOK, logVars
<1>2. CacheTypeOK /\ UNCHANGED cacheVars => CacheTypeOK'
  BY DEF CacheTypeOK, cacheVars
<1>3. RelocationTypeOK /\ UNCHANGED relocVars => RelocationTypeOK'
  BY DEF RelocationTypeOK, relocVars
<1>4. DiskTypeOK /\ UNCHANGED diskVars => DiskTypeOK'
  BY DEF DiskTypeOK, diskVars
<1>5. BookTypeOK /\ UNCHANGED bookVars => BookTypeOK'
  BY DEF BookTypeOK, bookVars
<1>6. UsedCounts /\ UNCHANGED <<Map, Used>> => UsedCounts'
  BY DEF UsedCounts
<1>7. CacheConsistent /\ UNCHANGED cache => CacheConsistent'
  BY DEF CacheConsistent
<1>8. RelocatedOnly /\ UNCHANGED <<RelocationDone, cache, RelocatePos, Map, NextChunkNo>>
        => RelocatedOnly'
  BY DEF RelocatedOnly
<1> QED BY <1>1, <1>2, <1>3, <1>4, <1>5, <1>6, <1>7, <1>8

\* While a chunk has room, PurgePos is the start of one of its purges.
LEMMA PurgePosition ==
  ASSUME LogTypeOK
  PROVE  PurgePos \in Nat /\ LastPurgePos \in Nat
         /\ (PurgePos < LastPurgePos <=> PurgePos # LastPurgePos)
BY Sizes DEF LogTypeOK

\* An action that leaves the log, the cache and the relocation alone keeps the invariant
\* if it keeps the types of the rest, and does not enter a phase.
LEMMA ThreadStepKeeps ==
  ASSUME IInv, UNCHANGED <<logVars, cacheVars, relocVars>>,
         ThreadTypeOK', DiskTypeOK', BookTypeOK',
         step' \in {"idle", "handler"} \/ (step' = step /\ req' = req),
         mode' = "RECOVERY" => mode = "RECOVERY" /\ step' = "idle"
  PROVE  IInv'
<1>1. TypeOK'
  BY Frames DEF IInv, TypeOK
<1>2. UsedCounts' /\ CacheConsistent' /\ RelocatedOnly'
  BY Frames DEF IInv, logVars, cacheVars, relocVars
<1>3. CachePhases'
  BY DEF IInv, CachePhases, logVars, cacheVars, relocVars, FillBlock, CacheOpen, Cached, CachedAt
<1> QED BY <1>1, <1>2, <1>3 DEF IInv

\* Taking up a write (ExecuteRW) only counts the write and names the request.
LEMMA DispatchWriteKeeps ==
  ASSUME IInv, NEW k \in Kinds, NEW b \in Blocks, DispatchWrite(k, b)
  PROVE  IInv'
<1>1. ThreadTypeOK'
  BY DEF IInv, TypeOK, ThreadTypeOK, DispatchWrite, readVars
<1>2. BookTypeOK'
  BY Parameters DEF IInv, TypeOK, BookTypeOK, DispatchWrite
<1>3. DiskTypeOK'
  BY Frames DEF IInv, TypeOK, DispatchWrite
<1> QED BY <1>1, <1>2, <1>3, ThreadStepKeeps DEF DispatchWrite

\* Taking up a flush (ExecuteFlush) only names the request.
LEMMA DispatchFlushKeeps ==
  ASSUME IInv, NEW k \in Kinds, DispatchFlush(k)
  PROVE  IInv'
<1>1. ThreadTypeOK'
  BY SmallNumbers DEF IInv, TypeOK, ThreadTypeOK, DispatchFlush, readVars
<1>2. BookTypeOK' /\ DiskTypeOK'
  BY Frames DEF IInv, TypeOK, DispatchFlush
<1> QED BY <1>1, <1>2, ThreadStepKeeps DEF DispatchFlush

\* Completing a request, by abortion or at the end of a flush, changes none of the log.
LEMMA RequestEndKeeps ==
  ASSUME IInv, WriteAbort \/ FlushDone
  PROVE  IInv'
<1>1. ThreadTypeOK'
  BY DEF IInv, TypeOK, ThreadTypeOK, WriteAbort, FlushDone, readVars
<1>2. BookTypeOK' /\ DiskTypeOK'
  BY Frames DEF IInv, TypeOK, WriteAbort, FlushDone
<1>3. mode' = mode /\ step' = "idle" /\ UNCHANGED <<logVars, cacheVars, relocVars>>
  BY DEF WriteAbort, FlushDone
<1> QED BY <1>1, <1>2, <1>3, ThreadStepKeeps

\* A read is started at a mapped place (ExecuteReadHandler), which is one of the chunk's.
LEMMA StartReadKeeps ==
  ASSUME IInv, NEW r \in Readers, NEW b \in Blocks, StartRead(r, b)
  PROVE  IInv'
<1>1. ThreadTypeOK'
  <2>1. Map[b] \in Places
    BY DEF IInv, TypeOK, LogTypeOK, StartRead
  <2>2. [place |-> Map[b], expected |-> data[Map[b]]] \in [place : Places, expected : SUBSET Ids]
    BY <2>1 DEF IInv, TypeOK, DiskTypeOK
  <2>3. reading' \in [Readers -> {NotReading} \cup [place : Places, expected : SUBSET Ids]]
    BY <2>2 DEF IInv, TypeOK, ThreadTypeOK, StartRead
  <2> QED BY <2>3 DEF IInv, TypeOK, ThreadTypeOK, StartRead
<1>2. BookTypeOK' /\ DiskTypeOK'
  BY Frames DEF IInv, TypeOK, StartRead
<1>3. mode' = mode /\ step' = step /\ req' = req /\ UNCHANGED <<logVars, cacheVars, relocVars>>
  BY DEF StartRead
<1> QED BY <1>1, <1>2, <1>3, ThreadStepKeeps DEF IInv, CachePhases

\* The end of a read (ExecuteReadCompletion) only touches the marks of the readers.
LEMMA FinishReadKeeps ==
  ASSUME IInv, NEW r \in Readers, FinishRead(r)
  PROVE  IInv'
<1>1. ThreadTypeOK'
  <2>1. reading' \in [Readers -> {NotReading} \cup [place : Places, expected : SUBSET Ids]]
    BY DEF IInv, TypeOK, ThreadTypeOK, FinishRead
  <2> QED BY <2>1 DEF IInv, TypeOK, ThreadTypeOK, FinishRead
<1>2. BookTypeOK' /\ DiskTypeOK'
  BY Frames DEF IInv, TypeOK, FinishRead
<1>3. /\ mode' = mode /\ step' \in {"handler", step} /\ req' = req
      /\ UNCHANGED <<logVars, cacheVars, relocVars>> /\ (step = "idle" => step' = "idle")
  BY DEF FinishRead
<1> QED BY <1>1, <1>2, <1>3, ThreadStepKeeps DEF IInv, CachePhases

\* A recovery that fails to read leaves the map and its counts as they were.
LEMMA RecoveryFailsKeeps ==
  ASSUME IInv, RecoveryFails
  PROVE  IInv'
<1>1. ThreadTypeOK'
  BY DEF IInv, TypeOK, ThreadTypeOK, RecoveryFails, readVars
<1>2. BookTypeOK'
  BY Parameters DEF IInv, TypeOK, BookTypeOK, RecoveryFails
<1>3. DiskTypeOK'
  BY Frames DEF IInv, TypeOK, RecoveryFails
<1> QED BY <1>1, <1>2, <1>3, ThreadStepKeeps DEF RecoveryFails

\* No step of the thread on a request changes what the readers hold.
LEMMA ThreadTypes ==
  ASSUME ThreadTypeOK, UNCHANGED <<mode, readVars, scan>>,
         step' \in {"idle", "handler", "copy", "prepare", "marked", "relocate", "fill", "purge",
                    "finalize"},
         step' = "idle" \/ (step # "idle" /\ req' = req)
  PROVE  ThreadTypeOK'
BY DEF ThreadTypeOK, readVars

\* Going on in the next chunk keeps the counts and starts with nothing relocated, as the
\* cache is empty when a chunk is full.
LEMMA SwitchChunkKeeps ==
  ASSUME IInv, SwitchChunk
  PROVE  IInv'
<1>1. NextChunkNo' \in Chunks
  BY DEF SwitchChunk, FindNextChunk, NextChunks
<1>2. LogTypeOK'
  <2>1. ChunkNo \in Chunks /\ NextChunkNo \in Chunks /\ SCN \in [Chunks -> Nat]
    BY DEF IInv, TypeOK, LogTypeOK
  <2>2. SCN[ChunkNo] \in Nat
    BY <2>1
  <2>3. SCN' \in [Chunks -> Nat]
    BY <2>1, <2>2 DEF SwitchChunk, SucceedBy
  <2> QED BY <1>1, <2>1, <2>3, SmallNumbers DEF IInv, TypeOK, LogTypeOK, SwitchChunk
<1>3. RelocationTypeOK'
  BY DEF IInv, TypeOK, RelocationTypeOK, SwitchChunk, FindNextChunk
<1>4. ThreadTypeOK'
  BY ThreadTypes DEF IInv, TypeOK, SwitchChunk, Writing
<1>5. CacheTypeOK' /\ DiskTypeOK' /\ BookTypeOK'
  BY Frames DEF IInv, TypeOK, SwitchChunk
<1>6. UsedCounts' /\ CacheConsistent'
  BY Frames DEF IInv, SwitchChunk, cacheVars
<1>7. cache' = <<>> /\ CacheDirty' = FALSE
  BY DEF IInv, CachePhases, SwitchChunk, cacheVars, CacheTypeOK
<1>8. CachePhases'
  BY <1>7 DEF CachePhases, SwitchChunk, Writing
<1>9. RelocatedOnly'
  BY <1>7 DEF RelocatedOnly
<1> QED BY <1>2, <1>3, <1>4, <1>5, <1>6, <1>8, <1>9 DEF IInv, TypeOK

\* PrepareRelocate starts only while the cache is empty of blocks of the next chunk.
LEMMA PrepareRelocateKeeps ==
  ASSUME IInv, PrepareRelocate
  PROVE  IInv'
<1>1. TypeOK'
  BY Frames, ThreadTypes DEF IInv, TypeOK, PrepareRelocate, Writing
<1>2. UsedCounts' /\ CacheConsistent' /\ RelocatedOnly'
  BY Frames DEF IInv, PrepareRelocate, logVars, cacheVars, relocVars
<1>3. CachePhases'
  BY DEF IInv, CachePhases, PrepareRelocate, Writing, logVars, cacheVars, relocVars
<1> QED BY <1>1, <1>2, <1>3 DEF IInv

\* The LBA table read from the next chunk, even from a torn control, is a table.
LEMMA PrepareRelocateDoneKeeps ==
  ASSUME IInv, PrepareRelocateDone
  PROVE  IInv'
<1>1. NextLBA' \in LBATable
  BY DEF IInv, TypeOK, LogTypeOK, DiskTypeOK, ChunkCtls, LBATable, PrepareRelocateDone
<1>2. RelocateTarget' \in Nat /\ RelocateSource' \in Nat
  <2>1. PurgePos \in PurgeEnds /\ Used[NextChunkNo] \in Nat
    BY DEF IInv, TypeOK, LogTypeOK
  <2>2. LastPurgePos - PurgePos \in Nat
    BY <2>1, Sizes
  <2> QED BY <2>1, <2>2 DEF PrepareRelocateDone
<1>3. RelocationTypeOK'
  BY <1>1, <1>2, Sizes DEF IInv, TypeOK, RelocationTypeOK, PrepareRelocateDone
<1>4. ThreadTypeOK'
  BY ThreadTypes DEF IInv, TypeOK, PrepareRelocateDone
<1>5. TypeOK'
  BY <1>3, <1>4, Frames DEF IInv, TypeOK, PrepareRelocateDone
<1>6. UsedCounts' /\ CacheConsistent'
  BY Frames DEF IInv, PrepareRelocateDone, logVars, cacheVars
<1>7. cache' = <<>>
  BY DEF IInv, CachePhases, PrepareRelocateDone, cacheVars
<1>8. CachePhases'
  BY <1>7 DEF IInv, CachePhases, PrepareRelocateDone, logVars, cacheVars
<1>9. RelocatedOnly'
  BY <1>7 DEF RelocatedOnly
<1> QED BY <1>5, <1>6, <1>8, <1>9 DEF IInv

\* The test of the quota (vrelocation.c:64) only sets RelocationDone.
LEMMA RelocateQuotaKeeps ==
  ASSUME IInv, RelocateQuota
  PROVE  IInv'
<1>1. RelocationTypeOK'
  BY DEF IInv, TypeOK, RelocationTypeOK, RelocateQuota
<1>2. ThreadTypeOK'
  BY ThreadTypes DEF IInv, TypeOK, RelocateQuota, Relocating, Writing
<1>3. TypeOK'
  BY <1>1, <1>2, Frames DEF IInv, TypeOK, RelocateQuota
<1>4. UsedCounts' /\ CacheConsistent'
  BY Frames DEF IInv, RelocateQuota, logVars, cacheVars
<1>5. CachePhases'
  BY DEF IInv, CachePhases, RelocateQuota, Relocating, Writing, logVars, cacheVars
<1>6. RelocatedOnly'
  BY DEF IInv, RelocatedOnly, RelocateQuota, Relocating, logVars, cacheVars
<1> QED BY <1>3, <1>4, <1>5, <1>6 DEF IInv

\* The end of the LBA table, or a full cache, ends the relocation for this purge.
LEMMA RelocateEndKeeps ==
  ASSUME IInv, RelocateEnd
  PROVE  IInv'
<1>1. RelocatePos' \in 0..LastPurgePos
  <2>1. RelocatePos' = LastPurgePos \/ RelocatePos' \in LeftToRelocate
    BY DEF RelocateEnd
  <2>2. RelocatePos' = LastPurgePos \/ RelocatePos' \in RelocatePos..(LastPurgePos - 1)
    BY <2>1 DEF LeftToRelocate
  <2>3. RelocatePos \in 0..LastPurgePos
    BY DEF IInv, TypeOK, RelocationTypeOK
  <2>4. LastPurgePos \in Nat
    BY Sizes
  <2> QED BY <2>2, <2>3, <2>4
<1>2. RelocationTypeOK'
  BY <1>1 DEF IInv, TypeOK, RelocationTypeOK, RelocateEnd
<1>3. ThreadTypeOK'
  BY ThreadTypes DEF IInv, TypeOK, RelocateEnd
<1>4. TypeOK'
  BY <1>2, <1>3, Frames DEF IInv, TypeOK, RelocateEnd
<1>5. UsedCounts' /\ CacheConsistent'
  BY Frames DEF IInv, RelocateEnd, logVars, cacheVars
<1>6. CachePhases'
  BY DEF IInv, CachePhases, RelocateEnd, logVars, cacheVars
<1>7. RelocatedOnly'
  BY DEF RelocatedOnly, RelocateEnd
<1> QED BY <1>4, <1>5, <1>6, <1>7 DEF IInv

\* The window ExecuteRelocate chooses lies inside the chunk.
LEMMA ExecuteRelocateKeeps ==
  ASSUME IInv, ExecuteRelocate
  PROVE  IInv'
<1>1. PICK p \in LeftToRelocate :
        /\ RelocatePos' = p /\ WindowStart' = p
        /\ \E e \in Reached(p) : (\A i \in Reached(p) : i <= e) /\ WindowEnd' = e + 1
  BY DEF ExecuteRelocate
<1>2. p \in RelocatePos..(LastPurgePos - 1) /\ RelocatePos \in 0..LastPurgePos
  BY DEF LeftToRelocate, IInv, TypeOK, RelocationTypeOK
<1>3. WindowEnd' \in 0..LastPurgePos
  <2>1. PICK e \in Reached(p) : WindowEnd' = e + 1
    BY <1>1
  <2>2. e \in p..(LastPurgePos - 1)
    BY DEF Reached
  <2> QED BY <2>1, <2>2, <1>2, Sizes
<1>4. RelocationTypeOK'
  BY <1>1, <1>2, <1>3, Sizes DEF IInv, TypeOK, RelocationTypeOK, ExecuteRelocate
<1>5. ThreadTypeOK'
  BY ThreadTypes DEF IInv, TypeOK, ExecuteRelocate
<1>6. TypeOK'
  BY <1>4, <1>5, Frames DEF IInv, TypeOK, ExecuteRelocate
<1>7. UsedCounts' /\ CacheConsistent'
  BY Frames DEF IInv, ExecuteRelocate, logVars, cacheVars
<1>8. CachePhases'
  BY DEF IInv, CachePhases, ExecuteRelocate, logVars, cacheVars
<1>9. RelocatedOnly'
  <2>1. Positions \subseteq Int /\ p >= RelocatePos /\ RelocatePos \in Int /\ p \in Int
    BY <1>2, Sizes DEF Positions
  <2>2. UNCHANGED <<cache, Map, NextChunkNo, RelocationDone>>
    BY DEF ExecuteRelocate, logVars, cacheVars
  <2>3. \A q \in Positions : q < RelocatePos => q < RelocatePos'
    BY <1>1, <2>1
  <2> QED BY <2>2, <2>3 DEF IInv, RelocatedOnly
<1> QED BY <1>6, <1>7, <1>8, <1>9 DEF IInv

\* What RelocateCompletion read into the window are writes of the medium.
LEMMA RelocateReadKeeps ==
  ASSUME IInv, RelocateRead
  PROVE  IInv'
<1>1. RelocateMem' \in [Positions -> SUBSET Ids]
  <2>1. \A p \in Positions : data[<<NextChunkNo, p>>] \in SUBSET Ids
    BY DEF IInv, TypeOK, LogTypeOK, DiskTypeOK, Places
  <2> QED BY <2>1 DEF RelocateRead
<1>2. RelocationTypeOK'
  BY <1>1 DEF IInv, TypeOK, RelocationTypeOK, RelocateRead
<1>3. ThreadTypeOK'
  BY ThreadTypes DEF IInv, TypeOK, RelocateRead
<1>4. TypeOK'
  BY <1>2, <1>3, Frames DEF IInv, TypeOK, RelocateRead
<1>5. UsedCounts' /\ CacheConsistent' /\ RelocatedOnly'
  BY Frames DEF IInv, RelocateRead, logVars, cacheVars
<1>6. CachePhases'
  BY DEF IInv, CachePhases, RelocateRead, logVars, cacheVars
<1> QED BY <1>4, <1>5, <1>6 DEF IInv

-----------------------------------------------------------------------------
(* The cache *)

Consistent(c) ==
  /\ c \in Seq(CacheEntries) /\ Len(c) <= LastCachePos
  /\ \A i, j \in 1..Len(c) : c[i].lba = c[j].lba => i = j
  /\ \A i \in 1..Len(c) : c[i].open => i = Len(c)

\* A sequence is a function on 1..n, and its length is n.
LEMMA FunctionIsSeq ==
  ASSUME NEW T, NEW n \in Nat, NEW t \in [1..n -> T]
  PROVE  t \in Seq(T) /\ Len(t) = n
<1>1. t \in Seq(T)
  BY SeqDef
<1>2. DOMAIN t = 1..n /\ DOMAIN t = 1..Len(t) /\ Len(t) \in Nat
  BY <1>1, LenProperties
<1>3. Len(t) <= n
  <2>1. CASE Len(t) = 0
    BY <2>1
  <2>2. CASE Len(t) # 0
    <3>1. Len(t) \in 1..Len(t)
      BY <1>2, <2>2
    <3>2. Len(t) \in 1..n
      BY <1>2, <3>1
    <3> QED BY <3>2
  <2> QED BY <2>1, <2>2
<1>4. n <= Len(t)
  <2>1. CASE n = 0
    BY <1>2, <2>1
  <2>2. CASE n # 0
    <3>1. n \in 1..Len(t)
      BY <1>2, <2>2
    <3> QED BY <3>1
  <2> QED BY <2>1, <2>2
<1> QED BY <1>1, <1>2, <1>3, <1>4

\* A block that is not cached may follow when no block is open and there is room.
LEMMA AppendIsConsistent ==
  ASSUME CacheTypeOK, CacheConsistent, Len(cache) < LastCachePos, ~CacheOpen,
         NEW e \in CacheEntries, ~Cached(e.lba)
  PROVE  /\ Consistent(Append(cache, e))
         /\ Len(Append(cache, e)) = Len(cache) + 1
         /\ \A i \in 1..(Len(cache) + 1) :
              Append(cache, e)[i] = IF i = Len(cache) + 1 THEN e ELSE cache[i]
<1> DEFINE c == Append(cache, e)
<1>1. cache \in Seq(CacheEntries) /\ Len(cache) \in Nat /\ LastCachePos \in Nat
  BY LenProperties, Sizes DEF CacheTypeOK
<1>2. c \in Seq(CacheEntries) /\ Len(c) = Len(cache) + 1
  BY <1>1, AppendProperties
<1>3. \A i \in 1..Len(cache) : c[i] = cache[i]
  BY <1>1, AppendProperties
<1>4. c[Len(cache) + 1] = e
  BY <1>1, AppendProperties
<1> HIDE DEF c
<1>5. \A i \in 1..Len(cache) : cache[i].lba # e.lba
  BY DEF Cached, CachedAt
<1>6. ASSUME NEW i \in 1..Len(c), NEW j \in 1..Len(c), c[i].lba = c[j].lba
      PROVE  i = j
  <2>1. (i \in 1..Len(cache) \/ i = Len(cache) + 1) /\ (j \in 1..Len(cache) \/ j = Len(cache) + 1)
    BY <1>1, <1>2
  <2>2. CASE i \in 1..Len(cache) /\ j \in 1..Len(cache)
    BY <1>3, <1>6, <2>2 DEF CacheConsistent
  <2>3. CASE i = Len(cache) + 1 \/ j = Len(cache) + 1
    BY <1>3, <1>4, <1>5, <1>6, <2>1, <2>3
  <2> QED BY <2>1, <2>2, <2>3
<1>7. ASSUME NEW i \in 1..Len(c), c[i].open
      PROVE  i = Len(c)
  <2>1. CASE i \in 1..Len(cache)
    <3>1. cache[i].open
      BY <1>3, <1>7, <2>1
    <3>2. i = Len(cache)
      BY <2>1, <3>1 DEF CacheConsistent
    <3> QED BY <2>1, <3>1, <3>2 DEF CacheOpen
  <2> QED BY <1>1, <1>2, <2>1
<1>8. Consistent(c)
  BY <1>1, <1>2, <1>6, <1>7 DEF Consistent
<1>9. \A i \in 1..(Len(cache) + 1) : c[i] = IF i = Len(cache) + 1 THEN e ELSE cache[i]
  BY <1>1, <1>3, <1>4
<1> QED BY <1>2, <1>8, <1>9 DEF c

\* A block of the cache may be replaced by another version of it that is not newly open.
LEMMA ReplaceIsConsistent ==
  ASSUME CacheTypeOK, CacheConsistent, NEW i \in 1..Len(cache), NEW e \in CacheEntries,
         e.lba = cache[i].lba, e.open => cache[i].open
  PROVE  /\ Consistent([cache EXCEPT ![i] = e])
         /\ Len([cache EXCEPT ![i] = e]) = Len(cache)
         /\ \A j \in 1..Len(cache) : [cache EXCEPT ![i] = e][j] = IF j = i THEN e ELSE cache[j]
<1> DEFINE c == [cache EXCEPT ![i] = e]
<1>1. /\ c \in Seq(CacheEntries) /\ Len(c) = Len(cache)
      /\ \A j \in 1..Len(cache) : c[j] = IF j = i THEN e ELSE cache[j]
  BY ExceptSeq DEF CacheTypeOK
<1> HIDE DEF c
<1>2. \A j \in 1..Len(c) : c[j].lba = cache[j].lba /\ (c[j].open => cache[j].open)
  BY <1>1
<1>3. Consistent(c)
  BY <1>1, <1>2 DEF Consistent, CacheConsistent
<1> QED BY <1>1, <1>3 DEF c

\* The open block, or the block to be appended, gets its old contents.
LEMMA FilledIsConsistent ==
  ASSUME CacheTypeOK, CacheConsistent, ThreadTypeOK, step # "idle", NEW old \in SUBSET Ids,
         ~CacheOpen => Len(cache) < LastCachePos /\ ~Cached(req.block)
  PROVE  Consistent(Filled(old))
<1>1. CASE CacheOpen
  <2> DEFINE n == Len(cache)
             e == [cache[n] EXCEPT !.data = @ \cup Half("tail", old), !.open = FALSE]
  <2>1. n \in 1..n
    BY <1>1 DEF CacheOpen
  <2>2. cache[n] \in CacheEntries
    BY <2>1, ElementOfSeq DEF CacheTypeOK
  <2>3. e \in CacheEntries /\ e.lba = cache[n].lba /\ ~e.open
    BY <2>2 DEF CacheEntries, Half
  <2>4. Filled(old) = [cache EXCEPT ![n] = e]
    <3>1. cache \in [1..n -> CacheEntries]
      BY LenProperties DEF CacheTypeOK
    <3>2. cache[n] = [lba |-> cache[n].lba, data |-> cache[n].data, open |-> cache[n].open]
      BY <2>2 DEF CacheEntries
    <3> QED BY <1>1, <2>1, <2>2, <3>1 DEF Filled
  <2> HIDE DEF e
  <2>5. Consistent([cache EXCEPT ![n] = e])
    BY <2>1, <2>3, ReplaceIsConsistent
  <2> QED BY <2>4, <2>5
<1>2. CASE ~CacheOpen
  <2> DEFINE e == [lba |-> req.block, data |-> IF req.kind = "tail" THEN Half("head", old) ELSE old,
                   open |-> (req.kind = "tail")]
  <2>1. e \in CacheEntries /\ e.lba = req.block
    BY DEF CacheEntries, ThreadTypeOK, Half
  <2>2. Filled(old) = Append(cache, e)
    BY <1>2 DEF Filled
  <2> HIDE DEF e
  <2>3. Consistent(Append(cache, e))
    BY <1>2, <2>1, AppendIsConsistent
  <2> QED BY <2>2, <2>3
<1> QED BY <1>1, <1>2

\* The empty cache is consistent.
LEMMA EmptyIsConsistent == Consistent(<<>>)
<1>1. <<>> \in Seq(CacheEntries) /\ Len(<<>>) = 0
  BY EmptySeq
<1>2. 1..0 = {}
  OBVIOUS
<1> QED BY <1>1, <1>2, Sizes DEF Consistent

\* A consistent cache and a flag are what the invariant asks of the cache variables.
LEMMA ConsistentGives ==
  ASSUME Consistent(cache'), CacheDirty' \in BOOLEAN
  PROVE  CacheTypeOK' /\ CacheConsistent'
BY DEF Consistent, CacheTypeOK, CacheConsistent

\* A block copied from the window is not in the cache yet, because the cache holds only
\* blocks of lower places of the same chunk.
LEMMA RelocateCopyKeeps ==
  ASSUME IInv, RelocateCopy
  PROVE  IInv'
<1> USE DEF IInv, TypeOK
<1>1. PICK p \in LeftToRelocate :
        /\ cache' = Append(cache, [lba |-> NextLBA[p], data |-> RelocateMem[p], open |-> FALSE])
        /\ RelocatePos' = p + 1
  BY DEF RelocateCopy
<1> DEFINE e == [lba |-> NextLBA[p], data |-> RelocateMem[p], open |-> FALSE]
<1>2. /\ p \in RelocatePos..(LastPurgePos - 1) /\ RelocatePos \in 0..LastPurgePos
      /\ NextLBA[p] \in Blocks /\ Map[NextLBA[p]] = <<NextChunkNo, p>>
  BY DEF LeftToRelocate, Live, IsLive, RelocationTypeOK
<1>3. p \in Positions /\ p \in Nat /\ p >= RelocatePos /\ p < LastPurgePos
  BY <1>2, Sizes DEF Positions
<1>4. ~RelocationDone /\ Len(cache) < LastCachePos /\ PurgePos < LastPurgePos
  BY DEF CachePhases, RelocateCopy
<1>5. ASSUME NEW i \in 1..Len(cache)
      PROVE  ~cache[i].open /\ cache[i].lba # NextLBA[p]
  <2>1. PICK q \in Positions : q < RelocatePos /\ Map[cache[i].lba] = <<NextChunkNo, q>>
    BY <1>4 DEF RelocatedOnly
  <2>2. ~cache[i].open
    BY <1>4 DEF RelocatedOnly
  <2>3. q # p
    BY <1>2, <1>3, <2>1, Sizes DEF Positions
  <2> QED BY <1>2, <2>1, <2>2, <2>3
<1>6. ~CacheOpen /\ ~Cached(NextLBA[p])
  BY <1>5 DEF CacheOpen, Cached, CachedAt
<1>7. e \in CacheEntries /\ e.lba = NextLBA[p] /\ ~e.open
  BY <1>2, <1>3 DEF RelocationTypeOK, CacheEntries
<1>8. cache' = Append(cache, e)
  BY <1>1
<1> HIDE DEF e
<1>9. /\ Consistent(cache') /\ Len(cache') = Len(cache) + 1
      /\ \A i \in 1..(Len(cache) + 1) : cache'[i] = IF i = Len(cache) + 1 THEN e ELSE cache[i]
  BY <1>4, <1>6, <1>7, <1>8, AppendIsConsistent
<1>10. CacheTypeOK' /\ CacheConsistent'
  BY <1>9, ConsistentGives DEF RelocateCopy, CacheTypeOK
<1>11. RelocationTypeOK'
  <2>1. p + 1 \in 0..LastPurgePos
    BY <1>3, Sizes
  <2> QED BY <1>1, <2>1 DEF RelocationTypeOK, RelocateCopy
<1>12. ThreadTypeOK'
  BY ThreadTypes DEF RelocateCopy
<1>13. LogTypeOK' /\ DiskTypeOK' /\ BookTypeOK' /\ UsedCounts'
  BY Frames DEF RelocateCopy, logVars
<1>14. CachePhases'
  BY <1>4, PurgePosition DEF CachePhases, RelocateCopy, logVars
<1>15. RelocatedOnly'
  <2>1. ASSUME NEW i \in 1..(Len(cache) + 1)
        PROVE  ~cache'[i].open
               /\ \E q \in Positions : q < p + 1 /\ Map[cache'[i].lba] = <<NextChunkNo, q>>
    <3>1. CASE i = Len(cache) + 1
      BY <1>2, <1>3, <1>7, <1>9, <3>1
    <3>2. CASE i # Len(cache) + 1
      <4>1. i \in 1..Len(cache) /\ cache'[i] = cache[i]
        <5>1. Len(cache) \in Nat
          BY LenProperties DEF CacheTypeOK
        <5> QED BY <1>9, <3>2, <5>1
      <4>2. PICK q \in Positions : q < RelocatePos /\ Map[cache[i].lba] = <<NextChunkNo, q>>
        BY <1>4, <4>1 DEF RelocatedOnly
      <4>3. q < p + 1
        BY <1>2, <1>3, <4>2, Sizes DEF Positions
      <4> QED BY <1>5, <4>1, <4>2, <4>3
    <3> QED BY <3>1, <3>2
  <2> QED BY <1>1, <1>9, <2>1 DEF RelocatedOnly, RelocateCopy, logVars
<1> QED BY <1>10, <1>11, <1>12, <1>13, <1>14, <1>15

\* A write into a cached block replaces its contents at its place.
LEMMA WriteHitKeeps ==
  ASSUME IInv, WriteHit
  PROVE  IInv'
<1> USE DEF IInv, TypeOK
<1>1. PICK i \in CachedAt(req.block) :
        /\ cache' = [cache EXCEPT ![i].data = Written(req.kind, WriteId(req.block), @),
                                  ![i].open = @ /\ ~ToTheEnd]
        /\ CacheDirty' = (CacheDirty \/ (ToTheEnd /\ cache[i].open))
  BY DEF WriteHit
<1> DEFINE e == [cache[i] EXCEPT !.data = Written(req.kind, WriteId(req.block), @),
                                 !.open = @ /\ ~ToTheEnd]
<1>2. i \in 1..Len(cache)
  BY DEF CachedAt
<1>3. cache[i] \in CacheEntries
  BY <1>2, ElementOfSeq DEF CacheTypeOK
<1>4. /\ req.block \in Blocks
      /\ \A old \in SUBSET Ids : Written(req.kind, WriteId(req.block), old) \in SUBSET Ids
  <2>1. req.block \in Blocks
    BY DEF ThreadTypeOK, WriteHit, Ready, Writing
  <2> QED BY <2>1, WriteIds
<1>5. e \in CacheEntries /\ e.lba = cache[i].lba /\ (e.open => cache[i].open)
  BY <1>3, <1>4 DEF CacheEntries
<1>6. cache' = [cache EXCEPT ![i] = e]
  <2>1. cache \in [1..Len(cache) -> CacheEntries]
    BY LenProperties DEF CacheTypeOK
  <2> QED BY <1>1, <1>2, <1>3, <2>1 DEF CacheEntries
<1>7. CacheDirty' \in BOOLEAN
  BY <1>1, <1>3 DEF CacheTypeOK, CacheEntries
<1> HIDE DEF e
<1>8. Consistent(cache') /\ Len(cache') = Len(cache)
  BY <1>2, <1>5, <1>6, ReplaceIsConsistent
<1>9. CacheTypeOK' /\ CacheConsistent'
  BY <1>7, <1>8, ConsistentGives
<1>10. ThreadTypeOK'
  BY ThreadTypes DEF WriteHit
<1>11. LogTypeOK' /\ RelocationTypeOK' /\ DiskTypeOK' /\ BookTypeOK' /\ UsedCounts'
  BY Frames DEF WriteHit, logVars
<1>12. CachePhases'
  BY PurgePosition DEF CachePhases, WriteHit, Ready, Writing, logVars, relocVars
<1>13. RelocatedOnly'
  BY DEF RelocatedOnly, WriteHit, Ready, relocVars
<1> QED BY <1>9, <1>10, <1>11, <1>12, <1>13

\* A write of a block that is not cached is appended behind closed blocks only.
LEMMA WriteAppendKeeps ==
  ASSUME IInv, WriteAppend
  PROVE  IInv'
<1> USE DEF IInv, TypeOK
<1> DEFINE e == [lba |-> req.block, data |-> Written(req.kind, WriteId(req.block), {}),
                 open |-> (req.kind = "head")]
<1>1. req.block \in Blocks /\ Written(req.kind, WriteId(req.block), {}) \in SUBSET Ids
  <2>1. req.block \in Blocks
    BY DEF ThreadTypeOK, WriteAppend, Ready, Writing
  <2> QED BY <2>1, WriteIds
<1>2. e \in CacheEntries /\ e.lba = req.block
  BY <1>1 DEF CacheEntries
<1>3. cache' = Append(cache, e)
  BY DEF WriteAppend
<1> HIDE DEF e
<1>4. Consistent(cache')
  BY <1>2, <1>3, AppendIsConsistent DEF WriteAppend
<1>5. CacheTypeOK' /\ CacheConsistent'
  BY <1>4, ConsistentGives DEF WriteAppend
<1>6. ThreadTypeOK'
  BY ThreadTypes DEF WriteAppend
<1>7. LogTypeOK' /\ RelocationTypeOK' /\ DiskTypeOK' /\ BookTypeOK' /\ UsedCounts'
  BY Frames DEF WriteAppend, logVars
<1>8. CachePhases'
  BY PurgePosition DEF CachePhases, WriteAppend, Ready, Writing, logVars, relocVars
<1>9. RelocatedOnly'
  BY DEF RelocatedOnly, WriteAppend, Ready, relocVars
<1> QED BY <1>5, <1>6, <1>7, <1>8, <1>9

\* Filling keeps the invariant once the relocation for the purge is done.
LEMMA CacheFillKeeps ==
  ASSUME IInv, CacheFill, step = "handler", mode # "RECOVERY", RelocationDone,
         RelocationPrepared, PurgePos < LastPurgePos,
         ~CacheOpen => Len(cache) < LastCachePos /\ ~Cached(req.block)
  PROVE  IInv'
<1> USE DEF IInv, TypeOK
<1>1. Consistent(cache')
  <2>1. Consistent(Filled({})) /\ Consistent(cache)
    <3>1. Consistent(Filled({}))
      BY FilledIsConsistent
    <3> QED BY <3>1 DEF Consistent, CacheTypeOK, CacheConsistent
  <2> QED BY <2>1 DEF CacheFill
<1>2. CacheTypeOK' /\ CacheConsistent'
  BY <1>1, ConsistentGives DEF CacheFill, CacheTypeOK
<1>3. ThreadTypeOK'
  BY ThreadTypes DEF CacheFill
<1>4. LogTypeOK' /\ RelocationTypeOK' /\ DiskTypeOK' /\ BookTypeOK' /\ UsedCounts'
  BY Frames DEF CacheFill, logVars
<1>5. CachePhases'
  BY PurgePosition DEF CachePhases, CacheFill, logVars, relocVars, FillBlock, CacheOpen, Cached, CachedAt
<1>6. RelocatedOnly'
  BY DEF RelocatedOnly, CacheFill, relocVars
<1> QED BY <1>2, <1>3, <1>4, <1>5, <1>6

\* A partial write first fills the block it opens, which is mapped and not cached.
LEMMA WriteFillKeeps ==
  ASSUME IInv, WriteFill
  PROVE  IInv'
<1>1. ~CacheOpen => Len(cache) < LastCachePos /\ ~Cached(req.block)
  BY DEF WriteFill
<1> QED BY <1>1, CacheFillKeeps DEF WriteFill, Ready, Writing

\* A flush fills the open block of the cache before it purges.
LEMMA FlushFillKeeps ==
  ASSUME IInv, FlushFill
  PROVE  IInv'
<1>1. PICK i \in 1..Len(cache) : cache[i].open
  BY DEF FlushFill, CacheOpen
<1>2. cache # <<>>
  BY <1>1, EmptySeq
<1>3. RelocationDone
  BY <1>1 DEF IInv, RelocatedOnly
<1>4. mode # "RECOVERY" /\ RelocationPrepared /\ PurgePos # LastPurgePos
  BY <1>2 DEF IInv, CachePhases
<1>5. PurgePos < LastPurgePos
  BY <1>4, PurgeFits DEF IInv, TypeOK, LogTypeOK
<1> QED BY <1>3, <1>4, <1>5, CacheFillKeeps DEF FlushFill, Flushing

\* The fill closes the last block or appends a closed one.
LEMMA CacheFillReadDoneKeeps ==
  ASSUME IInv, CacheFillReadDone
  PROVE  IInv'
<1> USE DEF IInv, TypeOK
<1>1. Map[FillBlock] # NotMapped /\ (~CacheOpen => Len(cache) < LastCachePos /\ ~Cached(req.block))
      /\ RelocationDone /\ PurgePos < LastPurgePos
  BY DEF CachePhases, CacheFillReadDone
<1>2. FillBlock \in Blocks
  <2>1. CASE CacheOpen
    <3>1. Len(cache) \in 1..Len(cache)
      BY <2>1 DEF CacheOpen
    <3>2. cache[Len(cache)] \in CacheEntries
      BY <3>1, ElementOfSeq DEF CacheTypeOK
    <3> QED BY <2>1, <3>2 DEF FillBlock, CacheEntries
  <2>2. CASE ~CacheOpen
    BY <2>2 DEF FillBlock, ThreadTypeOK, CacheFillReadDone
  <2> QED BY <2>1, <2>2
<1>3. data[Map[FillBlock]] \in SUBSET Ids
  BY <1>1, <1>2 DEF LogTypeOK, DiskTypeOK
<1>4. step # "idle"
  BY DEF CacheFillReadDone
<1>5. Consistent(cache')
  BY <1>1, <1>3, <1>4, FilledIsConsistent DEF CacheFillReadDone
<1>6. CacheTypeOK' /\ CacheConsistent'
  BY <1>5, ConsistentGives DEF CacheFillReadDone, CacheTypeOK
<1>7. ThreadTypeOK'
  BY ThreadTypes DEF CacheFillReadDone
<1>8. LogTypeOK' /\ RelocationTypeOK' /\ DiskTypeOK' /\ BookTypeOK' /\ UsedCounts'
  BY Frames DEF CacheFillReadDone, logVars
<1>9. CachePhases' /\ RelocatedOnly'
  BY <1>1, PurgePosition DEF CachePhases, RelocatedOnly, CacheFillReadDone, logVars, relocVars
<1> QED BY <1>6, <1>7, <1>8, <1>9

-----------------------------------------------------------------------------
(* Purges and chunk controls *)

\* A purge that starts inside the chunk lies in it, at a place for a PURGE_CTL.
LEMMA PurgeInside ==
  ASSUME LogTypeOK, PurgePos < LastPurgePos
  PROVE  /\ PurgeRange \subseteq Positions /\ PurgePos \in Nat
         /\ PurgePos + CacheSize \in PurgeEnds
         /\ <<ChunkNo, PurgePos>> \in PurgePlaces
BY PurgePosition, PurgeFits DEF LogTypeOK, PurgeRange

\* The blocks of a purge are those of the cache, in its order, and then none.
LEMMA PurgedTypes ==
  ASSUME LogTypeOK, CacheTypeOK
  PROVE  /\ \A i \in Nat : PurgedLBA(PurgePos + i) \in Blocks \cup {NotMapped}
         /\ \A p \in PurgeRange : p - PurgePos \in 0..LastCachePos
         /\ [p \in PurgeRange |-> PurgedLBA(p)] \in [PurgeRange -> Blocks \cup {NotMapped}]
<1>1. PurgePos \in Nat /\ LastCachePos \in Nat /\ Len(cache) \in Nat
  BY PurgePosition, Sizes, LenProperties DEF CacheTypeOK
<1>2. ASSUME NEW p \in Nat, p >= PurgePos
      PROVE  PurgedLBA(p) \in Blocks \cup {NotMapped}
  <2>1. CASE p - PurgePos < Len(cache)
    <3>1. p - PurgePos + 1 \in 1..Len(cache)
      BY <1>1, <1>2, <2>1
    <3>2. cache[p - PurgePos + 1] \in CacheEntries
      BY <3>1, ElementOfSeq DEF CacheTypeOK
    <3> QED BY <2>1, <3>2 DEF PurgedLBA, CacheEntries
  <2>2. CASE ~(p - PurgePos < Len(cache))
    BY <2>2 DEF PurgedLBA
  <2> QED BY <2>1, <2>2
<1>3. \A i \in Nat : PurgePos + i \in Nat /\ PurgePos + i >= PurgePos
  BY <1>1
<1>4. \A p \in PurgeRange : p \in Nat /\ p >= PurgePos /\ p - PurgePos \in 0..LastCachePos
  BY <1>1 DEF PurgeRange
<1> QED BY <1>2, <1>3, <1>4

\* Whatever a write reaches, the medium keeps its types.
LEMMA WriteReachesTypes ==
  ASSUME LogTypeOK, CacheTypeOK, BookTypeOK, DiskTypeOK, NEW effect, WriteReaches(effect),
         step = "purge" => PurgePos < LastPurgePos
  PROVE  DiskTypeOK'
<1>1. CASE UNCHANGED diskVars
  BY <1>1, Frames
<1>2. PurgedData \in [Places -> SUBSET Ids]
  <2>1. Whole(Garbage) \subseteq Ids
    BY WriteIds, SmallNumbers
  <2>2. ASSUME NEW l \in Places, l[2] \in PurgeRange, l[2] - PurgePos < Len(cache)
        PROVE  cache[l[2] - PurgePos + 1].data \in SUBSET Ids
    <3>1. Len(cache) \in Nat /\ PurgePos \in Nat
      BY PurgePosition, LenProperties DEF CacheTypeOK
    <3>2. l[2] - PurgePos \in 0..LastCachePos
      BY <2>2, PurgedTypes
    <3>3. l[2] - PurgePos + 1 \in 1..Len(cache)
      BY <2>2, <3>1, <3>2, Sizes
    <3>4. cache[l[2] - PurgePos + 1] \in CacheEntries
      BY <3>3, ElementOfSeq DEF CacheTypeOK
    <3> QED BY <3>4 DEF CacheEntries
  <2> QED BY <2>1, <2>2 DEF PurgedData, DiskTypeOK
<1>3. NewPurgeCtl \in PurgeCtls
  <2>1. \A i \in 0..LastCachePos : PurgedLBA(PurgePos + i) \in Blocks \cup {NotMapped}
    BY PurgedTypes, Sizes
  <2>2. SCN[ChunkNo] \in Nat
    BY DEF LogTypeOK
  <2> QED BY <2>1, <2>2 DEF NewPurgeCtl, PurgeCtls
<1>4. NewChunkCtl \in ChunkCtls
  BY SmallNumbers DEF NewChunkCtl, ChunkCtls, LogTypeOK
<1>5. CASE step = "purge" /\ data' = PurgedData /\ chunkCtl' = chunkCtl
           /\ \E ctl \in PurgeCtls \cup {Torn} : purgeCtl' = [purgeCtl EXCEPT ![<<ChunkNo, PurgePos>>] = ctl]
  BY <1>2, <1>5, PurgeInside DEF DiskTypeOK
<1>6. CASE data' = PurgedData /\ UNCHANGED <<purgeCtl, chunkCtl>>
  BY <1>2, <1>6 DEF DiskTypeOK
<1>7. CASE UNCHANGED <<data, purgeCtl>>
           /\ \E ctl \in ChunkCtls \cup {Torn} : chunkCtl' = [chunkCtl EXCEPT ![ChunkNo] = ctl]
  BY <1>7 DEF DiskTypeOK, LogTypeOK
<1> QED BY <1>1, <1>3, <1>4, <1>5, <1>6, <1>7 DEF WriteReaches

\* ExecutePurgeCache records the cached blocks in the chunk's table and nothing else.
LEMMA ExecutePurgeCacheKeeps ==
  ASSUME IInv, ExecutePurgeCache, step = "handler", mode # "RECOVERY", PurgePos < LastPurgePos
  PROVE  IInv'
<1> USE DEF IInv, TypeOK
<1>1. LogTypeOK'
  <2>1. \A p \in PurgeRange : PurgedLBA(p) \in Blocks \cup {NotMapped}
    BY PurgedTypes
  <2>2. ChunkLBA' \in LBATable
    BY <2>1 DEF ExecutePurgeCache, RecordPurge, LogTypeOK, LBATable
  <2> QED BY <2>2 DEF ExecutePurgeCache, LogTypeOK
<1>2. ThreadTypeOK'
  BY ThreadTypes DEF ExecutePurgeCache
<1>3. CacheTypeOK' /\ RelocationTypeOK' /\ DiskTypeOK' /\ BookTypeOK'
  BY Frames DEF ExecutePurgeCache
<1>4. UsedCounts' /\ CacheConsistent' /\ RelocatedOnly'
  BY Frames DEF ExecutePurgeCache, cacheVars, relocVars
<1>5. CachePhases'
  BY DEF CachePhases, ExecutePurgeCache, cacheVars, relocVars
<1> QED BY <1>1, <1>2, <1>3, <1>4, <1>5

\* A write that finds the cache full purges it.
LEMMA WritePurgeKeeps ==
  ASSUME IInv, WritePurge
  PROVE  IInv'
BY ExecutePurgeCacheKeeps DEF WritePurge, Ready, Writing

\* A flush purges a dirty cache.
LEMMA FlushPurgeKeeps ==
  ASSUME IInv, FlushPurge
  PROVE  IInv'
<1>1. mode # "RECOVERY" /\ PurgePos < LastPurgePos
  BY PurgePosition DEF IInv, TypeOK, CachePhases, FlushPurge
<1> QED BY <1>1, ExecutePurgeCacheKeeps DEF FlushPurge, Flushing

\* ExecutePurgeChunk spoils the memory of the cache but leaves its entries alone.
LEMMA ExecutePurgeChunkKeeps ==
  ASSUME IInv, ExecutePurgeChunk, step = "handler", marked' \subseteq Readers
  PROVE  IInv'
<1> USE DEF IInv, TypeOK
<1>1. LogTypeOK'
  <2>1. WCN' \in [Chunks -> Nat]
    BY DEF ExecutePurgeChunk, LogTypeOK
  <2> QED BY <2>1 DEF ExecutePurgeChunk, LogTypeOK
<1>2. /\ Len(cache) \in Nat /\ DOMAIN cache' = 1..Len(cache)
      /\ \A i \in 1..Len(cache) :
           /\ cache'[i] \in CacheEntries /\ cache'[i].lba = cache[i].lba
           /\ cache'[i].open = cache[i].open
  <2>1. Len(cache) \in Nat /\ \A i \in 1..Len(cache) : cache[i] \in CacheEntries
    BY LenProperties, ElementOfSeq DEF CacheTypeOK
  <2>2. Whole(Garbage) \subseteq Ids
    BY WriteIds, SmallNumbers
  <2>3. cache' = [i \in 1..Len(cache) |-> [cache[i] EXCEPT !.data = Whole(Garbage)]]
    BY DEF ExecutePurgeChunk
  <2> QED BY <2>1, <2>2, <2>3 DEF CacheEntries
<1>3. cache' \in Seq(CacheEntries) /\ Len(cache') = Len(cache)
  <2>1. cache' \in [1..Len(cache) -> CacheEntries]
    BY <1>2 DEF ExecutePurgeChunk
  <2> QED BY <1>2, <2>1, FunctionIsSeq
<1>4. Consistent(cache')
  BY <1>2, <1>3 DEF Consistent, CacheConsistent
<1>5. CacheTypeOK' /\ CacheConsistent'
  BY <1>4, ConsistentGives DEF ExecutePurgeChunk, CacheTypeOK
<1>6. ThreadTypeOK'
  BY DEF ThreadTypeOK, ExecutePurgeChunk
<1>7. RelocationTypeOK' /\ DiskTypeOK' /\ BookTypeOK' /\ UsedCounts'
  BY Frames DEF ExecutePurgeChunk
<1>8. cache = <<>> => cache' = <<>>
  BY <1>3, EmptySeq
<1>9. CachePhases'
  BY <1>8 DEF CachePhases, ExecutePurgeChunk, relocVars
<1>10. RelocatedOnly'
  BY <1>2, <1>3 DEF RelocatedOnly, ExecutePurgeChunk, relocVars
<1> QED BY <1>1, <1>5, <1>6, <1>7, <1>9, <1>10

\* A full chunk is closed by the write that finds it so, or by a finalizing flush.
LEMMA CloseChunkKeeps ==
  ASSUME IInv, CloseChunk \/ FlushFinalize
  PROVE  IInv'
<1>1. marked' \subseteq Readers
  BY DEF CloseChunk, FlushFinalize, Marked, IInv, TypeOK, ThreadTypeOK
<1> QED BY <1>1, ExecutePurgeChunkKeeps DEF CloseChunk, FlushFinalize, Writing, Flushing

\* What a reader may find in a block is a set of writes.
LEMMA ContentTypes ==
  ASSUME LogTypeOK, CacheTypeOK, DiskTypeOK
  PROVE  Content \in [Blocks -> SUBSET Ids]
<1>1. \A b \in Blocks : PlaceWrite(data, b) \in SUBSET Ids
  BY DEF PlaceWrite, LogTypeOK, DiskTypeOK
<1>2. \A b \in Blocks : \A i \in CachedAt(b) : cache[i].data \in SUBSET Ids
  <2>1. ASSUME NEW i \in 1..Len(cache) PROVE cache[i].data \in SUBSET Ids
    <3>1. cache[i] \in CacheEntries
      BY ElementOfSeq DEF CacheTypeOK
    <3> QED BY <3>1 DEF CacheEntries
  <2> QED BY <2>1 DEF CachedAt
<1> QED BY <1>1, <1>2 DEF Content, Half

\* The completed purge maps each cached block to its place, moves the counts with it and
\* empties the cache.
LEMMA PurgeCacheDoneKeeps ==
  ASSUME IInv, PurgeCacheDone
  PROVE  IInv'
<1> USE DEF IInv, TypeOK
<1>1. PurgePos < LastPurgePos /\ mode # "RECOVERY"
  BY DEF CachePhases, PurgeCacheDone
<1>2. PurgePos + CacheSize \in PurgeEnds
  BY <1>1, PurgeInside
<1>3. PurgePos..(PurgePos + Len(cache) - 1) \subseteq Positions
  <2>1. Len(cache) \in Nat /\ Len(cache) <= LastCachePos /\ PurgePos \in Nat /\ LastCachePos \in Nat
    BY LenProperties, PurgePosition, Sizes DEF CacheTypeOK, CacheConsistent
  <2> QED BY <1>1, <2>1, PurgeInside DEF PurgeRange
<1>4. MapTypeOK' /\ UsedTypeOK' /\ UsedCounts'
  <2> DEFINE lba == [p \in PurgeRange |-> PurgedLBA(p)]
             P == PurgePos..(PurgePos + Len(cache) - 1)
  <2>1. UpdateMap(lba, P, ChunkNo, SCN)
    BY DEF PurgeCacheDone
  <2>2. MapTypeOK /\ UsedTypeOK /\ ChunkNo \in Chunks /\ P \in SUBSET Positions
    BY <1>3 DEF LogTypeOK, MapTypeOK, UsedTypeOK
  <2> HIDE DEF lba, P
  <2> QED BY <2>1, <2>2, UpdateMapCounts
<1>5. LogTypeOK'
  BY <1>2, <1>4 DEF LogTypeOK, MapTypeOK, UsedTypeOK, PurgeCacheDone
<1>6. cache' = <<>> /\ CacheDirty' = FALSE
  BY DEF PurgeCacheDone
<1>7. CacheTypeOK' /\ CacheConsistent'
  BY <1>6, EmptyIsConsistent, ConsistentGives
<1>8. RelocationTypeOK'
  BY DEF RelocationTypeOK, PurgeCacheDone
<1>9. ThreadTypeOK'
  BY ThreadTypes DEF PurgeCacheDone
<1>10. DiskTypeOK'
  BY <1>1, WriteReachesTypes DEF PurgeCacheDone
<1>11. BookTypeOK'
  BY ContentTypes DEF BookTypeOK, PurgeCacheDone
<1>12. CachePhases'
  BY <1>1, <1>6 DEF CachePhases, PurgeCacheDone
<1>13. RelocatedOnly'
  BY <1>6 DEF RelocatedOnly
<1> QED BY <1>4, <1>5, <1>7, <1>8, <1>9, <1>10, <1>11, <1>12, <1>13

\* The completed chunk control raises FinalizedPos to PurgePos.
LEMMA PurgeChunkDoneKeeps ==
  ASSUME IInv, PurgeChunkDone
  PROVE  IInv'
<1> USE DEF IInv, TypeOK
<1>1. LogTypeOK'
  BY DEF LogTypeOK, PurgeChunkDone
<1>2. ThreadTypeOK'
  BY ThreadTypes DEF PurgeChunkDone
<1>3. DiskTypeOK'
  BY WriteReachesTypes DEF PurgeChunkDone
<1>4. CacheTypeOK' /\ RelocationTypeOK' /\ BookTypeOK' /\ UsedCounts'
  BY Frames DEF PurgeChunkDone
<1>5. CacheConsistent' /\ RelocatedOnly'
  BY Frames DEF PurgeChunkDone, cacheVars, relocVars
<1>6. CachePhases'
  BY DEF CachePhases, PurgeChunkDone, cacheVars, relocVars
<1> QED BY <1>1, <1>2, <1>3, <1>4, <1>5, <1>6

\* A failed request leaves the memory of the log alone, whatever it reached on the medium.
LEMMA IoFailsKeeps ==
  ASSUME IInv, IoFails
  PROVE  IInv'
<1> USE DEF IInv, TypeOK
<1>1. step \in {"prepare", "relocate", "fill", "purge", "finalize"} /\ step' = "handler"
      /\ mode' \in {mode, "ERROR"} /\ req' = req
  BY DEF IoFails, Degrade
<1>2. mode # "RECOVERY" /\ (step = "purge" => PurgePos < LastPurgePos)
  BY <1>1 DEF CachePhases
<1>3. ThreadTypeOK'
  BY <1>1 DEF ThreadTypeOK, IoFails, readVars
<1>4. DiskTypeOK'
  <2>1. PICK effect \in Effects : WriteReaches(effect)
    BY DEF IoFails
  <2> QED BY <1>2, <2>1, WriteReachesTypes
<1>5. BookTypeOK'
  BY Parameters DEF BookTypeOK, IoFails
<1>6. UNCHANGED <<logVars, cacheVars, relocVars>>
  BY DEF IoFails
<1> QED BY <1>1, <1>2, <1>3, <1>4, <1>5, <1>6, ThreadStepKeeps

-----------------------------------------------------------------------------
(* Power loss and recovery *)

\* An empty cache holds only relocated blocks.
LEMMA EmptyRelocatedOnly ==
  ASSUME cache' = <<>>
  PROVE  RelocatedOnly'
<1>1. 1..Len(<<>>) = {}
  BY EmptySeq
<1> QED BY <1>1 DEF RelocatedOnly

\* With nothing mapped every chunk holds no block.
LEMMA NothingMapped ==
  ASSUME NEW M, M = [b \in Blocks |-> NotMapped], NEW c
  PROVE  Cardinality({b \in Blocks : M[b] # NotMapped /\ M[b][1] = c}) = 0
<1>1. {b \in Blocks : M[b] # NotMapped /\ M[b][1] = c} = {}
  OBVIOUS
<1> QED BY <1>1, FS_EmptySet

\* After InitializeLevelingCtx nothing is mapped, counted or cached.
LEMMA LoseMemoryKeeps ==
  ASSUME IInv, NEW effect, LoseMemory(effect)
  PROVE  IInv'
<1> USE DEF IInv, TypeOK
<1>1. step = "purge" => PurgePos < LastPurgePos
  BY DEF CachePhases
<1>2. DiskTypeOK'
  <2>1. WriteReaches(effect)
    BY DEF LoseMemory
  <2> QED BY <1>1, <2>1, WriteReachesTypes
<1>3. LogTypeOK'
  BY SmallNumbers, Sizes DEF LogTypeOK, LBATable, LoseMemory
<1>4. cache' = <<>> /\ CacheDirty' = FALSE
  BY DEF LoseMemory
<1>5. CacheTypeOK' /\ CacheConsistent'
  BY <1>4, EmptyIsConsistent, ConsistentGives
<1>6. RelocationTypeOK'
  <2>1. NextLBA' \in LBATable /\ RelocateMem' \in [Positions -> SUBSET Ids]
    BY SmallNumbers DEF LBATable, LoseMemory
  <2>2. 0 \in 0..LastPurgePos
    BY Sizes
  <2> QED BY <2>1, <2>2 DEF RelocationTypeOK, LoseMemory
<1>7. ThreadTypeOK'
  BY Geometry DEF ThreadTypeOK, LoseMemory
<1>8. BookTypeOK'
  BY ContentTypes DEF BookTypeOK, LoseMemory
<1>9. UsedCounts'
  <2>1. Map' = [b \in Blocks |-> NotMapped] /\ Used' = [c \in Chunks |-> 0]
    BY DEF LoseMemory
  <2>2. ASSUME NEW c \in Chunks
        PROVE  Used'[c] = Cardinality({b \in Blocks : Map'[b] # NotMapped /\ Map'[b][1] = c})
    <3>1. Cardinality({b \in Blocks : Map'[b] # NotMapped /\ Map'[b][1] = c}) = 0
      BY <2>1, NothingMapped
    <3> QED BY <2>1, <3>1
  <2> QED BY <2>2 DEF UsedCounts
<1>10. CachePhases' /\ RelocatedOnly'
  BY <1>4, EmptyRelocatedOnly DEF CachePhases, LoseMemory
<1> QED BY <1>2, <1>3, <1>5, <1>6, <1>7, <1>8, <1>9, <1>10

\* A crash and a re-initialization lose the memory in the same way.
LEMMA RestartKeeps ==
  ASSUME IInv, Crash \/ Reinitialize
  PROVE  IInv'
BY LoseMemoryKeeps DEF Crash, Reinitialize

\* Recovery works on the log alone, with an empty cache and an idle thread.
LEMMA RecoveryStepKeeps ==
  ASSUME IInv, mode = "RECOVERY", mode' \in {"RECOVERY", "ACTIVE"}, scan' \in 0..(MAX_CHUNKS + 2),
         LogTypeOK', RelocationTypeOK', UsedCounts',
         UNCHANGED <<cacheVars, req, step, readVars, diskVars, bookVars>>
  PROVE  IInv'
<1> USE DEF IInv, TypeOK
<1>1. cache' = <<>> /\ CacheDirty' = FALSE /\ step' = "idle"
  BY DEF CachePhases, cacheVars, CacheTypeOK
<1>2. CacheTypeOK' /\ DiskTypeOK' /\ BookTypeOK'
  BY Frames
<1>3. ThreadTypeOK'
  BY <1>1 DEF ThreadTypeOK, readVars
<1>4. CacheConsistent' /\ RelocatedOnly'
  BY <1>1, Frames, EmptyRelocatedOnly DEF cacheVars
<1>5. CachePhases'
  BY <1>1 DEF CachePhases
<1> QED BY <1>2, <1>3, <1>4, <1>5

\* A chunk control found by the scan of DoRecovery1 moves the blocks it names and their
\* counts, chunk by chunk.
LEMMA ScanChunkKeeps ==
  ASSUME IInv, ScanChunk
  PROVE  IInv'
<1> USE DEF IInv, TypeOK
<1> DEFINE ctl == chunkCtl[scan]
<1>1. scan \in Chunks /\ scan' \in 0..(MAX_CHUNKS + 2)
  BY Geometry DEF ScanChunk, Chunks
<1>2. CASE ctl = Torn
  <2>1. UNCHANGED logVars
    BY <1>2 DEF ScanChunk, logVars
  <2>2. LogTypeOK' /\ RelocationTypeOK' /\ UsedCounts'
    BY <2>1, Frames DEF ScanChunk, logVars
  <2> QED BY <1>1, <2>2, RecoveryStepKeeps DEF ScanChunk
<1>3. CASE ctl # Torn
  <2>1. /\ ctl.scn \in Nat /\ ctl.wcn \in Nat /\ ctl.lba \in LBATable
        /\ ctl.start \in Nat /\ ctl.end \in PurgeEnds
    BY <1>1, <1>3, Sizes DEF DiskTypeOK, ChunkCtls
  <2>2. ctl.start..(ctl.end - 1) \in SUBSET Positions
    <3>1. ctl.end \in Nat /\ ctl.end <= LastPurgePos /\ LastPurgePos \in Nat
      BY <2>1, Sizes
    <3> HIDE DEF ctl
    <3> QED BY <2>1, <3>1 DEF Positions
  <2>3. UpdateMap(ctl.lba, ctl.start..(ctl.end - 1), scan, SCN')
    BY <1>3 DEF ScanChunk
  <2>4. MapTypeOK' /\ UsedTypeOK' /\ UsedCounts'
    <3>1. MapTypeOK /\ UsedTypeOK
      BY DEF LogTypeOK, MapTypeOK, UsedTypeOK
    <3> HIDE DEF ctl
    <3> QED BY <1>1, <2>2, <2>3, <3>1, UpdateMapCounts
  <2>5. SCN' \in [Chunks -> Nat] /\ WCN' \in [Chunks -> Nat]
    BY <1>1, <1>3, <2>1 DEF ScanChunk, LogTypeOK
  <2>6. ChunkNo' \in Chunks /\ ChunkLBA' \in LBATable
    BY <1>1, <1>3, <2>1 DEF ScanChunk, LogTypeOK
  <2>7. LogTypeOK'
    BY <2>4, <2>5, <2>6 DEF LogTypeOK, MapTypeOK, UsedTypeOK, ScanChunk
  <2>8. RelocationTypeOK'
    BY Frames DEF ScanChunk
  <2> QED BY <1>1, <2>4, <2>7, <2>8, RecoveryStepKeeps DEF ScanChunk
<1> QED BY <1>2, <1>3

\* The newest control gives a position on the boundary of a purge.
LEMMA RecoverPositionKeeps ==
  ASSUME IInv, RecoverPosition
  PROVE  IInv'
<1> USE DEF IInv, TypeOK
<1> DEFINE ctl == chunkCtl[ChunkNo]
           end == IF ctl = Torn THEN 0 ELSE ctl.end
<1>1. scan' \in 0..(MAX_CHUNKS + 2)
  BY Geometry DEF RecoverPosition
<1>2. end \in PurgeEnds
  BY Sizes DEF LogTypeOK, DiskTypeOK, ChunkCtls
<1>3. LogTypeOK'
  <2>1. CASE end = LastPurgePos
    <3>1. ctl # Torn
      BY <2>1, Sizes
    <3>2. ctl.next \in Chunks /\ ctl.nextWcn \in Nat
      BY <3>1 DEF LogTypeOK, DiskTypeOK, ChunkCtls
    <3>3. SCN' \in [Chunks -> Nat]
      <4>1. SCN[ChunkNo] + 1 \in Nat
        BY DEF LogTypeOK
      <4> QED BY <2>1, <4>1 DEF RecoverPosition, SucceedBy, LogTypeOK
    <3>4. WCN' \in [Chunks -> Nat]
      BY <2>1, <3>2 DEF RecoverPosition, LogTypeOK
    <3>5. ChunkNo' = ctl.next /\ PurgePos' = FirstPos(ctl.next) /\ FinalizedPos' = FirstPos(ctl.next)
      BY <2>1 DEF RecoverPosition
    <3>6. UNCHANGED <<Map, Used, NextChunkNo, ChunkLBA>>
      BY DEF RecoverPosition
    <3> QED BY <3>2, <3>3, <3>4, <3>5, <3>6, SmallNumbers DEF LogTypeOK
  <2>2. CASE end # LastPurgePos
    BY <1>2, <2>2 DEF LogTypeOK, RecoverPosition
  <2> QED BY <2>1, <2>2
<1>4. RelocationTypeOK' /\ UsedCounts'
  BY Frames DEF RecoverPosition
<1> QED BY <1>1, <1>3, <1>4, RecoveryStepKeeps DEF RecoverPosition

\* A purge replayed from its control stays inside the chunk and moves the counts.
LEMMA ReplayPurgeKeeps ==
  ASSUME IInv, ReplayPurge
  PROVE  IInv'
<1> USE DEF IInv, TypeOK
<1> DEFINE ctl == purgeCtl[<<ChunkNo, PurgePos>>]
           lba == [p \in PurgeRange |-> ctl.lba[p - PurgePos]]
<1>1. PurgePos < LastPurgePos /\ ctl # Torn
  BY DEF ReplayPurge, PurgeOnMedium
<1>2. PurgeRange \in SUBSET Positions /\ PurgePos + CacheSize \in PurgeEnds
  BY <1>1, PurgeInside
<1>3. ctl \in PurgeCtls
  BY <1>1, PurgeInside DEF DiskTypeOK
<1>4. \A p \in PurgeRange : lba[p] \in Blocks \cup {NotMapped}
  <2>1. \A p \in PurgeRange : p - PurgePos \in 0..LastCachePos
    BY PurgedTypes
  <2> QED BY <1>3, <2>1 DEF PurgeCtls
<1>5. MapTypeOK' /\ UsedTypeOK' /\ UsedCounts'
  <2>1. UpdateMap(lba, PurgeRange, ChunkNo, SCN)
    BY DEF ReplayPurge
  <2>2. MapTypeOK /\ UsedTypeOK /\ ChunkNo \in Chunks
    BY DEF LogTypeOK, MapTypeOK, UsedTypeOK
  <2> HIDE DEF lba
  <2> QED BY <1>2, <2>1, <2>2, UpdateMapCounts
<1>6. ChunkLBA' \in LBATable
  <2>1. ChunkLBA' = RecordPurge(lba)
    BY DEF ReplayPurge
  <2> HIDE DEF lba
  <2> QED BY <1>4, <2>1 DEF RecordPurge, LogTypeOK, LBATable
<1>7. LogTypeOK'
  BY <1>2, <1>5, <1>6 DEF LogTypeOK, MapTypeOK, UsedTypeOK, ReplayPurge
<1>8. RelocationTypeOK'
  BY Frames DEF ReplayPurge
<1>9. mode' = mode /\ scan' \in 0..(MAX_CHUNKS + 2)
  BY DEF ReplayPurge, ThreadTypeOK
<1> QED BY <1>5, <1>7, <1>8, <1>9, RecoveryStepKeeps DEF ReplayPurge

\* Recovery ends with an empty cache and nothing relocated.
LEMMA FinishRecoveryKeeps ==
  ASSUME IInv, FinishRecovery
  PROVE  IInv'
<1> USE DEF IInv, TypeOK
<1>1. NextChunkNo' \in Chunks
  BY DEF FinishRecovery, FindNextChunk, NextChunks
<1>2. LogTypeOK'
  BY <1>1 DEF LogTypeOK, FinishRecovery
<1>3. RelocationTypeOK'
  BY DEF RelocationTypeOK, FinishRecovery, FindNextChunk
<1>4. UsedCounts'
  BY Frames DEF FinishRecovery
<1>5. scan' \in 0..(MAX_CHUNKS + 2)
  BY Geometry DEF FinishRecovery
<1> QED BY <1>2, <1>3, <1>4, <1>5, RecoveryStepKeeps DEF FinishRecovery

-----------------------------------------------------------------------------
(* The theorems *)

\* What SetLevelingConfig leaves on the medium, and the zeroed memory, satisfy the invariant.
LEMMA InitIInv == Init => IInv
<1> SUFFICES ASSUME Init PROVE IInv
  OBVIOUS
<1>1. Whole(Garbage) \subseteq Ids /\ Whole(0) \subseteq Ids
  BY Parameters, Geometry DEF Garbage, Whole, Ids
<1>2. DiskTypeOK /\ saved \in [Blocks -> SUBSET Ids]
  <2>1. PICK fixed \in BOOLEAN : Formatted(fixed)
    BY DEF Init
  <2>2. data \in [Places -> SUBSET Ids] /\ saved \in [Blocks -> SUBSET Ids]
    BY <1>1, <2>1 DEF Formatted
  <2>3. purgeCtl \in [PurgePlaces -> PurgeCtls \cup {Torn}]
    BY <2>1, SmallNumbers DEF Formatted, PurgeCtls
  <2>4. chunkCtl \in [Chunks -> ChunkCtls \cup {Torn}]
    <3>1. FormatLBA(fixed) \in LBATable
      BY SmallNumbers DEF FormatLBA, LBATable
    <3> QED BY <2>1, <3>1, SmallNumbers, Sizes DEF Formatted, ChunkCtls
  <2> QED BY <2>2, <2>3, <2>4 DEF DiskTypeOK
<1>3. LogTypeOK
  BY SmallNumbers, Sizes DEF LogTypeOK, LBATable, Init
<1>4. cache = <<>> /\ CacheDirty = FALSE
  BY DEF Init
<1>5. CacheTypeOK /\ CacheConsistent
  BY <1>4, EmptyIsConsistent DEF Consistent, CacheTypeOK, CacheConsistent
<1>6. RelocationTypeOK
  BY SmallNumbers, Sizes DEF RelocationTypeOK, LBATable, Init
<1>7. ThreadTypeOK
  BY Geometry DEF ThreadTypeOK, Init
<1>8. BookTypeOK
  BY <1>2, Parameters DEF BookTypeOK, Init
<1>9. UsedCounts
  <2>1. Map = [b \in Blocks |-> NotMapped] /\ Used = [c \in Chunks |-> 0]
    BY DEF Init
  <2> QED BY <2>1, NothingMapped DEF UsedCounts
<1>10. CachePhases
  BY <1>4 DEF CachePhases, Init
<1>11. RelocatedOnly
  <2>1. 1..Len(<<>>) = {}
    BY EmptySeq
  <2> QED BY <1>4, <2>1 DEF RelocatedOnly
<1> QED BY <1>2, <1>3, <1>5, <1>6, <1>7, <1>8, <1>9, <1>10, <1>11 DEF IInv, TypeOK

\* A step that changes nothing keeps the invariant.
LEMMA StutterKeeps == IInv /\ UNCHANGED vars => IInv'
<1> SUFFICES ASSUME IInv, UNCHANGED vars PROVE IInv'
  OBVIOUS
<1>1. ThreadTypeOK' /\ DiskTypeOK' /\ BookTypeOK'
  BY Frames DEF IInv, TypeOK, ThreadTypeOK, vars, readVars
<1> QED BY <1>1, ThreadStepKeeps DEF vars, IInv, CachePhases

\* Every step of the driver, and every power loss, keeps the invariant.
LEMMA NextKeeps == IInv /\ [Next]_vars => IInv'
<1> SUFFICES ASSUME IInv, [Next]_vars PROVE IInv'
  OBVIOUS
<1>1. ASSUME NEW k \in Kinds, NEW b \in Blocks, DispatchWrite(k, b) PROVE IInv'
  BY <1>1, DispatchWriteKeeps
<1>2. ASSUME NEW k \in Kinds, DispatchFlush(k) PROVE IInv'
  BY <1>2, DispatchFlushKeeps
<1>3. CASE Serve
  <2>1. CASE WriteAbort \/ FlushDone BY <2>1, RequestEndKeeps
  <2>2. CASE CloseChunk \/ FlushFinalize BY <2>2, CloseChunkKeeps
  <2>3. CASE SwitchChunk BY <2>3, SwitchChunkKeeps
  <2>4. CASE PrepareRelocate BY <2>4, PrepareRelocateKeeps
  <2>5. CASE PrepareRelocateDone BY <2>5, PrepareRelocateDoneKeeps
  <2>6. CASE RelocateQuota BY <2>6, RelocateQuotaKeeps
  <2>7. CASE RelocateEnd BY <2>7, RelocateEndKeeps
  <2>8. CASE RelocateCopy BY <2>8, RelocateCopyKeeps
  <2>9. CASE ExecuteRelocate BY <2>9, ExecuteRelocateKeeps
  <2>10. CASE RelocateRead BY <2>10, RelocateReadKeeps
  <2>11. CASE WriteHit BY <2>11, WriteHitKeeps
  <2>12. CASE WritePurge BY <2>12, WritePurgeKeeps
  <2>13. CASE WriteFill BY <2>13, WriteFillKeeps
  <2>14. CASE CacheFillReadDone BY <2>14, CacheFillReadDoneKeeps
  <2>15. CASE WriteAppend BY <2>15, WriteAppendKeeps
  <2>16. CASE FlushFill BY <2>16, FlushFillKeeps
  <2>17. CASE FlushPurge BY <2>17, FlushPurgeKeeps
  <2>18. CASE PurgeCacheDone BY <2>18, PurgeCacheDoneKeeps
  <2>19. CASE PurgeChunkDone BY <2>19, PurgeChunkDoneKeeps
  <2>20. CASE IoFails BY <2>20, IoFailsKeeps
  <2> QED BY <1>3, <2>1, <2>2, <2>3, <2>4, <2>5, <2>6, <2>7, <2>8, <2>9, <2>10, <2>11, <2>12,
             <2>13, <2>14, <2>15, <2>16, <2>17, <2>18, <2>19, <2>20 DEF Serve
<1>4. ASSUME NEW r \in Readers, NEW b \in Blocks, StartRead(r, b) PROVE IInv'
  BY <1>4, StartReadKeeps
<1>5. ASSUME NEW r \in Readers, FinishRead(r) PROVE IInv'
  BY <1>5, FinishReadKeeps
<1>6. CASE Crash \/ Reinitialize
  BY <1>6, RestartKeeps
<1>7. CASE Recover
  BY <1>7, ScanChunkKeeps, RecoverPositionKeeps, ReplayPurgeKeeps, FinishRecoveryKeeps DEF Recover
<1>8. CASE RecoveryFails
  BY <1>8, RecoveryFailsKeeps
<1>9. CASE UNCHANGED vars
  BY <1>9, StutterKeeps
<1> QED BY <1>1, <1>2, <1>3, <1>4, <1>5, <1>6, <1>7, <1>8, <1>9 DEF Next

\* The inductive invariant: types, the counts of the map, the cache, the phases of the thread
\* and what the relocation put into the cache hold in every reachable state, for every
\* geometry of the device.
THEOREM Invariance == Spec => []IInv
<1> QED BY InitIInv, NextKeeps, PTL DEF Spec

\* Every variable keeps its type: the positions stay on the boundaries of purges inside the
\* chunk, a purge never runs over its end, and Used never falls below zero.
THEOREM TypeCorrect == Spec => []TypeOK
<1>1. IInv => TypeOK
  BY DEF IInv
<1> QED BY <1>1, Invariance, PTL

\* ChunkInfo.Used, which UpdateMap keeps by increments, is the number of blocks mapped into
\* the chunk: while writing, between the chunks of recovery and after failures.
THEOREM UsedIsExact == Spec => []UsedCounts
<1>1. IInv => UsedCounts
  BY DEF IInv
<1> QED BY <1>1, Invariance, PTL

\* The cache never holds a block twice, never overflows, and has at most its last block
\* open, whichever way relocations, writes, fills, flushes and failures interleave.
THEOREM CacheStaysConsistent == Spec => []CacheConsistent
<1>1. IInv => CacheConsistent
  BY DEF IInv
<1> QED BY <1>1, Invariance, PTL

-----------------------------------------------------------------------------
(* The order of the chunks, which recovery starts from *)

Present(c) == chunkCtl[c] # Torn

\* The control of d was written when d was full, just before c got the number scn; all
\* others are older.
Precedes(d, c, scn) ==
  /\ d # c /\ Present(d)
  /\ chunkCtl[d].scn + 1 = scn /\ chunkCtl[d].end = LastPurgePos /\ chunkCtl[d].next = c
  /\ \A e \in Chunks \ {c, d} : Present(e) => chunkCtl[e].scn < chunkCtl[d].scn

\* The control of c is the newest on the medium.  When it has been written before the
\* chunk was full, and may be torn when it is written again, there is a predecessor.
Leads(c) ==
  /\ Present(c) /\ chunkCtl[c].scn >= 1
  /\ \A d \in Chunks \ {c} : Present(d) => chunkCtl[d].scn < chunkCtl[c].scn
  /\ chunkCtl[c].end = LastPurgePos => chunkCtl[c].next # c
  /\ chunkCtl[c].end # LastPurgePos /\ chunkCtl[c].scn > 1
       => \E d \in Chunks : Precedes(d, c, chunkCtl[c].scn)

DiskHasNewest == \E c \in Chunks : Leads(c)

\* While the controls are scanned, ChunkNo is the newest of those seen.
Scanned ==
  scan <= MAX_CHUNKS =>
    \A c \in Chunks :
      /\ SCN[c] = IF c < scan /\ Present(c) THEN chunkCtl[c].scn ELSE 0
      /\ SCN[c] <= SCN[ChunkNo]

Positioned == scan > MAX_CHUNKS

\* From then on ChunkNo is the newest of all, on the medium and in memory.
Ordered ==
  Positioned =>
    /\ \A c \in Chunks \ {ChunkNo} : SCN[c] < SCN[ChunkNo]
    /\ \A c \in Chunks : Present(c) => chunkCtl[c].scn <= SCN[c]
    /\ SCN[ChunkNo] >= 1
    /\ SCN[ChunkNo] > 1 => \E d \in Chunks : Precedes(d, ChunkNo, SCN[ChunkNo])

\* When the log is about to leave the chunk, the control that names its successor is there.
Closed ==
  /\ Loaded => NextChunkNo # ChunkNo
  /\ ~Loaded => FinalizedPos # LastPurgePos
  /\ FinalizedPos = LastPurgePos =>
       /\ Present(ChunkNo) /\ chunkCtl[ChunkNo].scn = SCN[ChunkNo]
       /\ chunkCtl[ChunkNo].end = LastPurgePos /\ chunkCtl[ChunkNo].next = NextChunkNo

OrderPhases ==
  /\ mode = "ACTIVE" \/ step # "idle" => Loaded
  /\ step = "finalize" => FinalizedPos # LastPurgePos

Order == DiskHasNewest /\ Scanned /\ Ordered /\ Closed /\ OrderPhases

orderVars == <<SCN, ChunkNo, NextChunkNo, FinalizedPos, chunkCtl, scan>>

-----------------------------------------------------------------------------
(* Frames *)

\* What the invariant needs of the types.
LEMMA OrderTypes ==
  ASSUME TypeOK
  PROVE  /\ SCN \in [Chunks -> Nat] /\ ChunkNo \in Chunks /\ NextChunkNo \in Chunks
         /\ \A c \in Chunks : Present(c) => chunkCtl[c] \in ChunkCtls
         /\ scan \in 0..(MAX_CHUNKS + 2) /\ MAX_CHUNKS \in Nat /\ 1 \in Chunks
         /\ Chunks \subseteq Nat
BY SmallNumbers, Geometry
   DEF TypeOK, LogTypeOK, ThreadTypeOK, DiskTypeOK, Present

\* A control of a chunk tells of itself what it was made of.
LEMMA NewControl ==
  ASSUME TypeOK
  PROVE  /\ NewChunkCtl \in ChunkCtls /\ NewChunkCtl # Torn
         /\ NewChunkCtl.scn = SCN[ChunkNo] /\ NewChunkCtl.end = PurgePos
         /\ NewChunkCtl.next = NextChunkNo
<1>1. NewChunkCtl \in ChunkCtls
  BY SmallNumbers DEF TypeOK, LogTypeOK, NewChunkCtl, ChunkCtls
<1> QED BY <1>1, TornIsNoControl DEF NewChunkCtl

\* The parts of the invariant that speak of the variables in orderVars hold on when these
\* do not change.
LEMMA OrderFrame ==
  ASSUME Order, UNCHANGED orderVars, OrderPhases'
  PROVE  Order'
<1>1. Loaded' = Loaded /\ Positioned' = Positioned
  BY DEF orderVars, Loaded, Positioned
<1>2. \A c \in Chunks : Present(c)' = Present(c)
  BY DEF orderVars, Present
<1>3. \A c \in Chunks : \A d \in Chunks : \A n : Precedes(d, c, n)' <=> Precedes(d, c, n)
  BY DEF orderVars, Present, Precedes
<1>4. DiskHasNewest'
  <2>1. \A c \in Chunks : Leads(c)' <=> Leads(c)
    BY <1>2 DEF orderVars, Leads, Precedes, Present
  <2> QED BY <2>1 DEF Order, DiskHasNewest
<1>5. Scanned'
  BY <1>2 DEF Order, Scanned, orderVars
<1>6. Ordered'
  BY <1>1, <1>2 DEF Order, Ordered, Precedes, Present, orderVars
<1>7. Closed'
  BY <1>1, <1>2 DEF Order, Closed, orderVars, Present
<1> QED BY <1>4, <1>5, <1>6, <1>7 DEF Order

\* A step of the thread, a reader or the environment that does not touch the order of the
\* chunks, nor begins to write a control.
LEMMA QuietKeeps ==
  ASSUME Order, UNCHANGED orderVars,
         mode' = "ACTIVE" => mode = "ACTIVE",
         step' # "idle" => step # "idle" \/ mode = "ACTIVE",
         step' = "finalize" => step = "finalize"
  PROVE  Order'
<1>1. OrderPhases'
  BY DEF Order, OrderPhases, orderVars, Loaded
<1> QED BY <1>1, OrderFrame

-----------------------------------------------------------------------------
(* Steps that leave the order alone *)

\* Requests, reads and failures leave the numbers of the chunks alone.
LEMMA RequestStepsKeepOrder ==
  ASSUME Order,
         \/ \E k \in Kinds, b \in Blocks : DispatchWrite(k, b)
         \/ \E k \in Kinds : DispatchFlush(k)
         \/ WriteAbort \/ FlushDone
         \/ \E r \in Readers, b \in Blocks : StartRead(r, b)
         \/ \E r \in Readers : FinishRead(r)
         \/ RecoveryFails \/ UNCHANGED vars
  PROVE  Order'
<1>1. ASSUME NEW k \in Kinds, NEW b \in Blocks, DispatchWrite(k, b) PROVE Order'
  BY <1>1, QuietKeeps DEF DispatchWrite, orderVars, logVars, diskVars
<1>2. ASSUME NEW k \in Kinds, DispatchFlush(k) PROVE Order'
  BY <1>2, QuietKeeps DEF DispatchFlush, orderVars, logVars, diskVars
<1>3. CASE WriteAbort
  BY <1>3, QuietKeeps DEF WriteAbort, orderVars, logVars, diskVars
<1>4. CASE FlushDone
  BY <1>4, QuietKeeps DEF FlushDone, orderVars, logVars, diskVars
<1>5. ASSUME NEW r \in Readers, NEW b \in Blocks, StartRead(r, b) PROVE Order'
  BY <1>5, QuietKeeps DEF StartRead, orderVars, logVars, diskVars
<1>6. ASSUME NEW r \in Readers, FinishRead(r) PROVE Order'
  BY <1>6, QuietKeeps DEF FinishRead, orderVars, logVars, diskVars
<1>7. CASE RecoveryFails
  BY <1>7, QuietKeeps DEF RecoveryFails, orderVars, logVars, diskVars
<1>8. CASE UNCHANGED vars
  BY <1>8, QuietKeeps DEF vars, orderVars, logVars, diskVars
<1> QED BY <1>1, <1>2, <1>3, <1>4, <1>5, <1>6, <1>7, <1>8

\* So does relocation,
LEMMA RelocationKeepsOrder ==
  ASSUME Order,
         \/ PrepareRelocate \/ PrepareRelocateDone \/ RelocateQuota \/ RelocateEnd
         \/ RelocateCopy \/ ExecuteRelocate \/ RelocateRead
  PROVE  Order'
<1>1. CASE PrepareRelocate
  BY <1>1, QuietKeeps DEF PrepareRelocate, Writing, orderVars, logVars, diskVars
<1>2. CASE PrepareRelocateDone
  BY <1>2, QuietKeeps DEF PrepareRelocateDone, orderVars, logVars, diskVars
<1>3. CASE RelocateQuota
  BY <1>3, QuietKeeps DEF RelocateQuota, Relocating, Writing, orderVars, logVars, diskVars
<1>4. CASE RelocateEnd
  BY <1>4, QuietKeeps DEF RelocateEnd, orderVars, logVars, diskVars
<1>5. CASE RelocateCopy
  BY <1>5, QuietKeeps DEF RelocateCopy, orderVars, logVars, diskVars
<1>6. CASE ExecuteRelocate
  BY <1>6, QuietKeeps DEF ExecuteRelocate, orderVars, logVars, diskVars
<1>7. CASE RelocateRead
  BY <1>7, QuietKeeps DEF RelocateRead, orderVars, logVars, diskVars
<1> QED BY <1>1, <1>2, <1>3, <1>4, <1>5, <1>6, <1>7

\* and the cache.
LEMMA CacheStepsKeepOrder ==
  ASSUME Order,
         \/ WriteHit \/ WritePurge \/ WriteFill \/ CacheFillReadDone \/ WriteAppend
         \/ FlushFill \/ FlushPurge
  PROVE  Order'
<1>1. CASE WriteHit
  BY <1>1, QuietKeeps DEF WriteHit, orderVars, logVars, diskVars
<1>2. CASE WritePurge
  BY <1>2, QuietKeeps DEF WritePurge, Ready, Writing, ExecutePurgeCache, orderVars, diskVars
<1>3. CASE WriteFill
  BY <1>3, QuietKeeps DEF WriteFill, Ready, Writing, CacheFill, orderVars, logVars, diskVars
<1>4. CASE CacheFillReadDone
  BY <1>4, QuietKeeps DEF CacheFillReadDone, orderVars, logVars, diskVars
<1>5. CASE WriteAppend
  BY <1>5, QuietKeeps DEF WriteAppend, orderVars, logVars, diskVars
<1>6. CASE FlushFill
  BY <1>6, QuietKeeps DEF FlushFill, Flushing, CacheFill, orderVars, logVars, diskVars
<1>7. CASE FlushPurge
  BY <1>7, QuietKeeps DEF FlushPurge, Flushing, ExecutePurgeCache, orderVars, diskVars
<1> QED BY <1>1, <1>2, <1>3, <1>4, <1>5, <1>6, <1>7

\* A purge writes no chunk control.
LEMMA PurgeCacheDoneKeepsOrder == Order /\ PurgeCacheDone => Order'
<1> SUFFICES ASSUME Order, PurgeCacheDone PROVE Order'
  OBVIOUS
<1>1. UNCHANGED chunkCtl
  BY DEF PurgeCacheDone, WriteReaches
<1> QED BY <1>1, QuietKeeps DEF PurgeCacheDone, orderVars

\* A control is written again only until it says that the chunk is full.
LEMMA PurgeChunkBeginsKeepsOrder ==
  ASSUME TypeOK, Order, CloseChunk \/ FlushFinalize
  PROVE  Order'
<1>1. UNCHANGED orderVars /\ mode' = mode /\ step' = "finalize" /\ step = "handler"
  BY DEF CloseChunk, FlushFinalize, Writing, Flushing, ExecutePurgeChunk, orderVars, diskVars
<1>2. FinalizedPos # LastPurgePos
  <2>1. CASE CloseChunk
    BY <2>1, Sizes DEF CloseChunk, TypeOK, LogTypeOK
  <2>2. CASE FlushFinalize
    BY <2>2, Sizes DEF FlushFinalize, ToFinalize, TypeOK, LogTypeOK
  <2> QED BY <2>1, <2>2
<1>3. OrderPhases'
  BY <1>1, <1>2 DEF Order, OrderPhases, orderVars, Loaded
<1> QED BY <1>1, <1>3, OrderFrame

-----------------------------------------------------------------------------
(* Writing the control of the current chunk *)

\* Whatever a write of the control leaves, there is a newest control on the medium.
LEMMA WriteReachesNewest ==
  ASSUME TypeOK, Order, ~TornFirstChunk, NEW effect, WriteReaches(effect)
  PROVE  DiskHasNewest'
<1>1. CASE UNCHANGED chunkCtl
  BY <1>1 DEF Order, DiskHasNewest, Leads, Precedes, Present
<1>2. ASSUME step = "finalize", NEW n \in Chunks, n = ChunkNo,
             \A c \in Chunks \ {n} : chunkCtl'[c] = chunkCtl[c],
             chunkCtl'[n] = NewChunkCtl \/ (chunkCtl'[n] = Torn /\ SCN[n] > 1)
      PROVE  DiskHasNewest'
  <2>1. Loaded /\ Positioned
    BY <1>2, OrderTypes DEF Order, OrderPhases, Loaded, Positioned
  <2>2. /\ SCN[n] \in Nat /\ SCN[n] >= 1 /\ NextChunkNo # n
        /\ \A c \in Chunks : Present(c) => chunkCtl[c].scn \in Nat /\ chunkCtl[c].scn <= SCN[c]
        /\ \A c \in Chunks \ {n} : SCN[c] \in Nat /\ SCN[c] < SCN[n]
        /\ SCN[n] > 1 => \E d \in Chunks : Precedes(d, n, SCN[n])
    BY <1>2, <2>1, OrderTypes DEF Order, Ordered, Closed, ChunkCtls
  <2>3. \A c \in Chunks \ {n} : Present(c)' <=> Present(c)
    BY <1>2 DEF Present
  <2>4. \A d \in Chunks : Precedes(d, n, SCN[n]) =>
          /\ d # n /\ Present(d)' /\ chunkCtl'[d] = chunkCtl[d]
          /\ chunkCtl'[d].scn + 1 = SCN[n] /\ chunkCtl'[d].end = LastPurgePos
          /\ chunkCtl'[d].next = n
          /\ \A e \in Chunks \ {n, d} : Present(e)' => chunkCtl'[e].scn < chunkCtl'[d].scn
    BY <1>2, <2>3 DEF Precedes
  <2>5. CASE chunkCtl'[n] = NewChunkCtl
    <3>1. /\ Present(n)' /\ chunkCtl'[n].scn = SCN[n]
          /\ chunkCtl'[n].next = NextChunkNo
      BY <1>2, <2>5, NewControl DEF Present
    <3>2. \A d \in Chunks \ {n} : Present(d)' => chunkCtl'[d].scn < chunkCtl'[n].scn
      BY <1>2, <2>2, <2>3, <3>1
    <3>3. chunkCtl'[n].scn > 1 => \E d \in Chunks : Precedes(d, n, chunkCtl[n].scn)'
      BY <2>2, <2>4, <3>1 DEF Precedes
    <3>4. Leads(n)'
      BY <2>2, <3>1, <3>2, <3>3 DEF Leads
    <3> QED BY <3>4 DEF DiskHasNewest
  <2>6. CASE chunkCtl'[n] = Torn /\ SCN[n] > 1
    <3>1. PICK d \in Chunks : Precedes(d, n, SCN[n])
      BY <2>2, <2>6
    <3>2. chunkCtl'[d].scn \in Nat /\ chunkCtl'[d].scn >= 1
      BY <1>2, <2>2, <2>6, <3>1, <2>4 DEF Precedes
    <3>3. ~Present(n)'
      BY <2>6 DEF Present
    <3>4. Leads(d)'
      BY <2>4, <3>1, <3>2, <3>3 DEF Leads
    <3> QED BY <3>4 DEF DiskHasNewest
  <2> QED BY <1>2, <2>5, <2>6
<1>3. CASE step = "finalize" /\ chunkCtl' = [chunkCtl EXCEPT ![ChunkNo] = NewChunkCtl]
  <2>1. PICK n \in Chunks : n = ChunkNo
    BY OrderTypes
  <2>2. /\ \A c \in Chunks \ {n} : chunkCtl'[c] = chunkCtl[c]
        /\ chunkCtl'[n] = NewChunkCtl
    BY <1>3, <2>1 DEF TypeOK, DiskTypeOK
  <2> QED BY <1>2, <1>3, <2>1, <2>2
<1>4. CASE step = "finalize" /\ SCN[ChunkNo] > 1 /\ chunkCtl' = [chunkCtl EXCEPT ![ChunkNo] = Torn]
  <2>1. PICK n \in Chunks : n = ChunkNo
    BY OrderTypes
  <2>2. /\ \A c \in Chunks \ {n} : chunkCtl'[c] = chunkCtl[c]
        /\ chunkCtl'[n] = Torn
    BY <1>4, <2>1 DEF TypeOK, DiskTypeOK
  <2> QED BY <1>2, <1>4, <2>1, <2>2
<1> QED BY <1>1, <1>3, <1>4 DEF WriteReaches, diskVars

\* The log in memory agrees with what a write of the control leaves.
LEMMA WriteReachesOrdered ==
  ASSUME TypeOK, Order, NEW effect, WriteReaches(effect),
         UNCHANGED <<SCN, ChunkNo, NextChunkNo, scan>>
  PROVE  Scanned' /\ Ordered'
<1>1. CASE UNCHANGED chunkCtl
  BY <1>1 DEF Order, Scanned, Ordered, Positioned, Precedes, Present
<1>2. CASE step = "finalize" /\ chunkCtl' = [chunkCtl EXCEPT ![ChunkNo] = chunkCtl'[ChunkNo]]
           /\ (chunkCtl'[ChunkNo] # Torn => chunkCtl'[ChunkNo].scn = SCN[ChunkNo])
  <2>1. Loaded /\ Positioned /\ Positioned' /\ ~(scan' <= MAX_CHUNKS)
    BY <1>2, OrderTypes DEF Order, OrderPhases, Loaded, Positioned
  <2>2. \A c \in Chunks \ {ChunkNo} : chunkCtl'[c] = chunkCtl[c]
    BY <1>2 DEF TypeOK, DiskTypeOK
  <2>3. SCN[ChunkNo] \in Nat
    BY OrderTypes
  <2>4. \A d \in Chunks : Precedes(d, ChunkNo, SCN[ChunkNo]) => Precedes(d, ChunkNo, SCN[ChunkNo])'
    BY <2>2 DEF Precedes, Present
  <2>5. \A c \in Chunks : Present(c)' => chunkCtl'[c].scn <= SCN[c]
    BY <1>2, <2>1, <2>2, <2>3 DEF Order, Ordered, Present
  <2>6. Ordered'
    BY <2>1, <2>4, <2>5 DEF Order, Ordered
  <2> QED BY <2>1, <2>6 DEF Scanned
<1>3. CASE step = "finalize" /\ chunkCtl' = [chunkCtl EXCEPT ![ChunkNo] = NewChunkCtl]
  <2>1. chunkCtl'[ChunkNo] = NewChunkCtl /\ NewChunkCtl.scn = SCN[ChunkNo]
    BY <1>3, OrderTypes, NewControl DEF TypeOK, DiskTypeOK
  <2> QED BY <1>2, <1>3, <2>1
<1>4. CASE step = "finalize" /\ chunkCtl' = [chunkCtl EXCEPT ![ChunkNo] = Torn]
  <2>1. chunkCtl'[ChunkNo] = Torn
    BY <1>4, OrderTypes DEF TypeOK, DiskTypeOK
  <2> QED BY <1>2, <1>4, <2>1
<1> QED BY <1>1, <1>3, <1>4 DEF WriteReaches, diskVars

\* The control of the current chunk is on the medium.
LEMMA PurgeChunkDoneKeepsOrder ==
  ASSUME TypeOK, Order, ~TornFirstChunk, PurgeChunkDone
  PROVE  Order'
<1>1. UNCHANGED <<SCN, ChunkNo, NextChunkNo, scan, mode>> /\ FinalizedPos' = PurgePos
      /\ step = "finalize" /\ step' = "handler" /\ WriteReaches("all")
  BY DEF PurgeChunkDone
<1>2. Loaded /\ Loaded'
  BY <1>1 DEF Order, OrderPhases, Loaded
<1>3. chunkCtl'[ChunkNo] = NewChunkCtl
  BY <1>1, OrderTypes DEF WriteReaches, TypeOK, DiskTypeOK
<1>4. Closed'
  BY <1>1, <1>2, <1>3, NewControl DEF Order, Closed, Present
<1>5. OrderPhases'
  BY <1>1, <1>2 DEF OrderPhases
<1> QED BY <1>1, <1>4, <1>5, WriteReachesNewest, WriteReachesOrdered DEF Order

\* A request fails, perhaps a write of the control that has reached the medium or is torn.
LEMMA IoFailsKeepsOrder ==
  ASSUME TypeOK, Order, ~TornFirstChunk, IoFails
  PROVE  Order'
<1>1. /\ UNCHANGED <<SCN, ChunkNo, NextChunkNo, FinalizedPos, scan>>
      /\ step # "idle" /\ step' = "handler" /\ mode' \in {mode, "ERROR"}
  BY DEF IoFails, Degrade, logVars
<1>2. PICK effect \in Effects : WriteReaches(effect)
  BY DEF IoFails
<1>3. Loaded /\ Loaded'
  BY <1>1 DEF Order, OrderPhases, Loaded
<1>4. FinalizedPos = LastPurgePos => UNCHANGED chunkCtl
  BY <1>2 DEF WriteReaches, diskVars, Order, OrderPhases
<1>5. Closed'
  BY <1>1, <1>3, <1>4 DEF Order, Closed, Present
<1>6. OrderPhases'
  BY <1>1, <1>3 DEF OrderPhases
<1> QED BY <1>1, <1>2, <1>5, <1>6, WriteReachesNewest, WriteReachesOrdered DEF Order

-----------------------------------------------------------------------------
(* The next chunk *)

\* FindNextChunk takes another chunk than the current one.
LEMMA NextIsAnother ==
  ASSUME NEW cur, NEW pos, FindNextChunk(cur, pos)
  PROVE  NextChunkNo' # cur
BY DEF FindNextChunk, NextChunks

\* The log moves on to the chunk that the control of the full one names.
LEMMA SwitchChunkKeepsOrder ==
  ASSUME TypeOK, Order, SwitchChunk
  PROVE  Order'
<1>1. /\ SCN' = [SCN EXCEPT ![NextChunkNo] = SCN[ChunkNo] + 1]
      /\ ChunkNo' = NextChunkNo /\ FinalizedPos = LastPurgePos
      /\ FinalizedPos' = FirstPos(NextChunkNo) /\ NextChunkNo' # NextChunkNo
      /\ UNCHANGED <<chunkCtl, scan, mode, step>> /\ step = "handler"
  BY NextIsAnother DEF SwitchChunk, SucceedBy, Writing, diskVars
<1>2. Loaded /\ Loaded' /\ Positioned /\ Positioned'
  BY <1>1, OrderTypes DEF Order, OrderPhases, Loaded, Positioned
<1>3. /\ NextChunkNo # ChunkNo /\ Present(ChunkNo)
      /\ chunkCtl[ChunkNo].scn = SCN[ChunkNo] /\ chunkCtl[ChunkNo].end = LastPurgePos
      /\ chunkCtl[ChunkNo].next = NextChunkNo
  BY <1>1, <1>2 DEF Order, Closed
<1>4. /\ \A c \in Chunks \ {NextChunkNo} : SCN'[c] = SCN[c]
      /\ SCN'[NextChunkNo] = SCN[ChunkNo] + 1
      /\ \A c \in Chunks : SCN[c] \in Nat
      /\ NextChunkNo \in Chunks /\ ChunkNo \in Chunks
  BY <1>1, OrderTypes
<1>5. /\ \A c \in Chunks \ {ChunkNo} : SCN[c] < SCN[ChunkNo]
      /\ \A c \in Chunks : Present(c) => chunkCtl[c].scn <= SCN[c] /\ chunkCtl[c].scn \in Nat
  BY <1>2, OrderTypes DEF Order, Ordered, ChunkCtls
<1>6. Precedes(ChunkNo, NextChunkNo, SCN[ChunkNo] + 1)
  BY <1>3, <1>4, <1>5 DEF Precedes
<1>7. \E d \in Chunks : Precedes(d, ChunkNo, SCN[ChunkNo])'
  BY <1>1, <1>4, <1>6 DEF Precedes, Present
<1>8. \A c \in Chunks : Present(c)' => chunkCtl'[c].scn <= SCN'[c]
  BY <1>1, <1>4, <1>5 DEF Present
<1>9. Ordered'
  BY <1>1, <1>4, <1>5, <1>7, <1>8 DEF Ordered
<1>10. DiskHasNewest'
  BY <1>1 DEF Order, DiskHasNewest, Leads, Precedes, Present
<1>11. Closed' /\ OrderPhases' /\ Scanned'
  <2>1. FirstPos(NextChunkNo) # LastPurgePos
    BY <1>4, SmallNumbers
  <2>2. ~(scan' <= MAX_CHUNKS)
    BY <1>1, <1>2, OrderTypes DEF Loaded
  <2> QED BY <1>1, <1>2, <2>1, <2>2 DEF Closed, OrderPhases, Scanned
<1> QED BY <1>9, <1>10, <1>11 DEF Order

-----------------------------------------------------------------------------
(* Restart and recovery *)

\* A restart leaves the newest control on the medium.
LEMMA RestartKeepsOrder ==
  ASSUME TypeOK, Order, ~TornFirstChunk, Crash \/ Reinitialize
  PROVE  Order'
<1>1. PICK effect : LoseMemory(effect)
  BY DEF Crash, Reinitialize
<1>2. /\ scan' = 0 /\ SCN' = [c \in Chunks |-> 0] /\ ChunkNo' = 1 /\ FinalizedPos' = 0
      /\ mode' = "RECOVERY" /\ step' = "idle"
  BY <1>1 DEF LoseMemory
<1>3. DiskHasNewest'
  BY <1>1, WriteReachesNewest DEF LoseMemory
<1>4. ~Loaded' /\ ~Positioned' /\ 1 \in Chunks /\ 0 # LastPurgePos /\ \A c \in Chunks : ~(c < 0)
  BY <1>2, OrderTypes, Sizes DEF Loaded, Positioned
<1>5. Scanned'
  <2>1. \A c \in Chunks : SCN'[c] = 0 /\ ~(c < scan')
    BY <1>2, <1>4
  <2>2. SCN'[ChunkNo'] = 0
    BY <1>2, <1>4, <2>1
  <2> QED BY <2>1, <2>2 DEF Scanned
<1> QED BY <1>2, <1>3, <1>4, <1>5 DEF Order, Ordered, Closed, OrderPhases

\* One more control has been seen.
LEMMA ScanChunkKeepsOrder ==
  ASSUME TypeOK, Order, ScanChunk
  PROVE  Order'
<1>1. /\ mode = "RECOVERY" /\ mode' = mode /\ step' = step /\ scan \in Chunks /\ scan' = scan + 1
      /\ UNCHANGED <<NextChunkNo, FinalizedPos, chunkCtl>>
  BY DEF ScanChunk, diskVars
<1>2. scan \in Nat /\ scan < MAX_CHUNKS /\ MAX_CHUNKS \in Nat
  BY <1>1, Geometry DEF Chunks
<1>3. \A c \in Chunks : /\ SCN[c] = IF c < scan /\ Present(c) THEN chunkCtl[c].scn ELSE 0
                        /\ SCN[c] <= SCN[ChunkNo]
  BY <1>2 DEF Order, Scanned
<1>4. /\ SCN' = [SCN EXCEPT ![scan] = IF Present(scan) THEN chunkCtl[scan].scn ELSE 0]
      /\ ChunkNo' = IF Present(scan) /\ SCN[ChunkNo] <= chunkCtl[scan].scn THEN scan ELSE ChunkNo
  <2>1. SCN[scan] = 0
    BY <1>1, <1>2, <1>3
  <2>2. CASE Present(scan)
    BY <2>2 DEF ScanChunk, Present
  <2>3. CASE ~Present(scan)
    BY <2>1, <2>3, OrderTypes DEF ScanChunk, Present
  <2> QED BY <2>2, <2>3
<1>5. /\ \A c \in Chunks \ {scan} : SCN'[c] = SCN[c]
      /\ SCN'[scan] = IF Present(scan) THEN chunkCtl[scan].scn ELSE 0
      /\ SCN \in [Chunks -> Nat] /\ ChunkNo \in Chunks
      /\ Present(scan) => chunkCtl[scan].scn \in Nat
  BY <1>1, <1>4, OrderTypes DEF ChunkCtls
<1>6. \A c \in Chunks : SCN'[c] = IF c < scan + 1 /\ Present(c) THEN chunkCtl[c].scn ELSE 0
  <2>1. \A c \in Chunks : c \in Nat /\ (c < scan + 1 <=> c < scan \/ c = scan)
    BY <1>2, OrderTypes
  <2> QED BY <1>3, <1>5, <2>1
<1>7. \A c \in Chunks : SCN'[c] <= SCN'[ChunkNo']
  <2>1. CASE Present(scan) /\ SCN[ChunkNo] <= chunkCtl[scan].scn
    BY <1>1, <1>3, <1>4, <1>5, <2>1
  <2>2. CASE Present(scan) /\ ~(SCN[ChunkNo] <= chunkCtl[scan].scn)
    <3>1. SCN[scan] = 0
      BY <1>1, <1>2, <1>3
    <3>2. ChunkNo # scan /\ ChunkNo' = ChunkNo
      BY <1>1, <1>4, <1>5, <2>2, <3>1
    <3> QED BY <1>1, <1>3, <1>5, <2>2, <3>2
  <2>3. CASE ~Present(scan)
    <3>1. ChunkNo' = ChunkNo /\ SCN[scan] = 0
      BY <1>1, <1>2, <1>3, <1>4, <2>3
    <3> QED BY <1>1, <1>3, <1>5, <2>3, <3>1
  <2> QED BY <2>1, <2>2, <2>3
<1>8. Scanned'
  BY <1>1, <1>6, <1>7 DEF Scanned, Present
<1>9. DiskHasNewest'
  BY <1>1 DEF Order, DiskHasNewest, Leads, Precedes, Present
<1>10. ~Loaded /\ ~Loaded' /\ ~Positioned'
  BY <1>1, <1>2 DEF Loaded, Positioned
<1> QED BY <1>1, <1>8, <1>9, <1>10 DEF Order, Ordered, Closed, OrderPhases

\* When all controls have been seen the newest of the medium is the current chunk, and its
\* successor when it is full.
LEMMA RecoverPositionKeepsOrder ==
  ASSUME TypeOK, Order, RecoverPosition
  PROVE  Order'
<1>1. /\ mode = "RECOVERY" /\ mode' = mode /\ step' = step /\ scan = MAX_CHUNKS
      /\ scan' = scan + 1 /\ UNCHANGED <<NextChunkNo, chunkCtl>>
  BY DEF RecoverPosition, diskVars
<1>2. MAX_CHUNKS \in Nat /\ ChunkNo \in Chunks /\ SCN \in [Chunks -> Nat]
      /\ \A c \in Chunks : c < MAX_CHUNKS
  BY OrderTypes, Geometry DEF Chunks
<1>3. \A c \in Chunks : /\ SCN[c] = IF Present(c) THEN chunkCtl[c].scn ELSE 0
                        /\ SCN[c] <= SCN[ChunkNo]
  BY <1>1, <1>2 DEF Order, Scanned
<1>4. Leads(ChunkNo)
  <2>1. PICK n \in Chunks : Leads(n)
    BY DEF Order, DiskHasNewest
  <2>2. /\ Present(n) /\ chunkCtl[n].scn >= 1 /\ chunkCtl[n].scn \in Nat
        /\ \A d \in Chunks \ {n} : Present(d) => chunkCtl[d].scn < chunkCtl[n].scn
    BY <2>1, OrderTypes DEF Leads, ChunkCtls
  <2>3. n = ChunkNo
    BY <1>2, <1>3, <2>2
  <2> QED BY <2>1, <2>3
<1>5. /\ Present(ChunkNo) /\ chunkCtl[ChunkNo] \in ChunkCtls
      /\ SCN[ChunkNo] = chunkCtl[ChunkNo].scn /\ SCN[ChunkNo] >= 1
      /\ \A c \in Chunks \ {ChunkNo} : SCN[c] < SCN[ChunkNo]
  <2>1. Present(ChunkNo) /\ SCN[ChunkNo] = chunkCtl[ChunkNo].scn /\ SCN[ChunkNo] >= 1
    BY <1>2, <1>3, <1>4 DEF Leads
  <2>2. \A c \in Chunks \ {ChunkNo} : SCN[c] < SCN[ChunkNo]
    BY <1>2, <1>3, <1>4, <2>1 DEF Leads
  <2> QED BY <2>1, <2>2, <1>2, OrderTypes
<1>6. \A c \in Chunks : Present(c) => chunkCtl[c].scn = SCN[c]
  BY <1>3
<1>7. ~Loaded /\ ~Loaded' /\ Positioned' /\ ~(scan' <= MAX_CHUNKS)
  BY <1>1, <1>2 DEF Loaded, Positioned
<1>8. DiskHasNewest'
  BY <1>1 DEF Order, DiskHasNewest, Leads, Precedes, Present
<1>9. CASE chunkCtl[ChunkNo].end = LastPurgePos
  <2> DEFINE next == chunkCtl[ChunkNo].next
  <2>1. /\ SCN' = [SCN EXCEPT ![next] = SCN[ChunkNo] + 1] /\ ChunkNo' = next
        /\ FinalizedPos' = FirstPos(next)
    BY <1>5, <1>9 DEF RecoverPosition, SucceedBy, Present
  <2>2. next \in Chunks /\ next # ChunkNo
    BY <1>4, <1>5, <1>9 DEF Leads, ChunkCtls
  <2>3. /\ \A c \in Chunks \ {next} : SCN'[c] = SCN[c]
        /\ SCN'[next] = SCN[ChunkNo] + 1
    BY <1>2, <2>1, <2>2
  <2>4. Precedes(ChunkNo, next, SCN[ChunkNo] + 1)
    BY <1>2, <1>4, <1>5, <1>9, <2>2 DEF Precedes, Leads
  <2>5. \E d \in Chunks : Precedes(d, ChunkNo, SCN[ChunkNo])'
    BY <1>1, <1>2, <2>1, <2>3, <2>4 DEF Precedes, Present
  <2>6. \A c \in Chunks \ {next} : SCN'[c] < SCN'[next]
    BY <1>2, <1>5, <2>2, <2>3
  <2>7. \A c \in Chunks : Present(c)' => chunkCtl'[c].scn <= SCN'[c]
    BY <1>1, <1>2, <1>3, <1>6, <2>2, <2>3 DEF Present
  <2>8. Ordered'
    BY <1>2, <2>1, <2>3, <2>5, <2>6, <2>7 DEF Ordered
  <2>9. FinalizedPos' # LastPurgePos
    BY <2>1, <2>2, SmallNumbers
  <2> QED BY <1>1, <1>7, <1>8, <2>8, <2>9 DEF Order, Closed, OrderPhases, Scanned
<1>10. CASE chunkCtl[ChunkNo].end # LastPurgePos
  <2>1. FinalizedPos' = chunkCtl[ChunkNo].end /\ UNCHANGED <<SCN, ChunkNo>>
    BY <1>5, <1>10 DEF RecoverPosition, Present
  <2>2. SCN[ChunkNo] > 1 => \E d \in Chunks : Precedes(d, ChunkNo, SCN[ChunkNo])
    BY <1>4, <1>5, <1>10 DEF Leads
  <2>3. Ordered'
    BY <1>1, <1>2, <1>5, <1>6, <2>1, <2>2 DEF Ordered, Precedes, Present
  <2> QED BY <1>1, <1>7, <1>8, <1>10, <2>1, <2>3 DEF Order, Closed, OrderPhases, Scanned
<1> QED BY <1>9, <1>10

\* The replay of purges does not move the log to another chunk.
LEMMA ReplayPurgeKeepsOrder == Order /\ ReplayPurge => Order'
BY QuietKeeps DEF ReplayPurge, orderVars, diskVars

\* Recovery ends with the number it has found.
LEMMA FinishRecoveryKeepsOrder ==
  ASSUME TypeOK, Order, FinishRecovery
  PROVE  Order'
<1>1. /\ scan = MAX_CHUNKS + 1 /\ scan' = scan + 1 /\ mode' = "ACTIVE" /\ step' = step
      /\ UNCHANGED <<SCN, ChunkNo, FinalizedPos, chunkCtl>> /\ NextChunkNo' # ChunkNo
  BY NextIsAnother DEF FinishRecovery, diskVars
<1>2. ~Loaded /\ Loaded' /\ Positioned /\ Positioned' /\ ~(scan' <= MAX_CHUNKS)
  BY <1>1, OrderTypes DEF Loaded, Positioned
<1>3. FinalizedPos # LastPurgePos
  BY <1>2 DEF Order, Closed
<1>4. DiskHasNewest'
  BY <1>1 DEF Order, DiskHasNewest, Leads, Precedes, Present
<1>5. Ordered'
  BY <1>1, <1>2 DEF Order, Ordered, Precedes, Present
<1> QED BY <1>1, <1>2, <1>3, <1>4, <1>5 DEF Order, Closed, OrderPhases, Scanned

-----------------------------------------------------------------------------
(* The theorem *)

\* A formatted medium.
LEMMA InitOrder == Init => Order
<1> SUFFICES ASSUME Init PROVE Order
  OBVIOUS
<1>1. /\ scan = 0 /\ SCN = [c \in Chunks |-> 0] /\ ChunkNo = 1 /\ FinalizedPos = 0
      /\ mode = "RECOVERY" /\ step = "idle"
  BY DEF Init
<1>2. /\ Present(1) /\ chunkCtl[1].scn = 1 /\ chunkCtl[1].end # LastPurgePos
      /\ \A c \in Chunks \ {1} : ~Present(c)
  <2>1. TypeOK
    BY InitIInv DEF IInv
  <2>2. PICK fixed \in BOOLEAN : Formatted(fixed)
    BY DEF Init
  <2> DEFINE first == [scn |-> 1, wcn |-> 1, next |-> 1, nextWcn |-> 0, start |-> 0,
                       end |-> IF fixed THEN CacheSize ELSE 0, lba |-> FormatLBA(fixed)]
  <2>3. chunkCtl = [c \in Chunks |-> IF c = 1 THEN first ELSE Torn]
    BY <2>2 DEF Formatted
  <2>4. first \in ChunkCtls
    <3>1. FormatLBA(fixed) \in LBATable
      BY SmallNumbers DEF FormatLBA, LBATable
    <3> QED BY <3>1, SmallNumbers, Sizes DEF ChunkCtls
  <2>5. first # Torn
    BY <2>4, TornIsNoControl
  <2>6. chunkCtl[1] = first /\ \A c \in Chunks \ {1} : chunkCtl[c] = Torn
    BY <2>3, SmallNumbers
  <2>7. first.scn = 1 /\ first.end # LastPurgePos
    BY Sizes
  <2> HIDE DEF first
  <2> QED BY <2>5, <2>6, <2>7 DEF Present
<1>3. DiskHasNewest
  BY <1>2, SmallNumbers DEF DiskHasNewest, Leads
<1>4. ~Loaded /\ ~Positioned /\ 0 # LastPurgePos
  BY <1>1, Geometry, Sizes DEF Loaded, Positioned
<1>5. Scanned
  <2>1. \A c \in Chunks : SCN[c] = 0 /\ ~(c < scan)
    BY <1>1, SmallNumbers
  <2>2. SCN[ChunkNo] = 0
    BY <1>1, <2>1, SmallNumbers
  <2> QED BY <2>1, <2>2 DEF Scanned
<1> QED BY <1>1, <1>3, <1>4, <1>5 DEF Order, Ordered, Closed, OrderPhases

\* The order is kept by every step.
LEMMA NextKeepsOrder == ~TornFirstChunk /\ IInv /\ Order /\ [Next]_vars => Order'
<1> SUFFICES ASSUME ~TornFirstChunk, IInv, Order, [Next]_vars PROVE Order'
  OBVIOUS
<1>1. TypeOK
  BY DEF IInv
<1>2. CASE Serve
  <2>1. CASE WriteAbort \/ FlushDone BY <2>1, RequestStepsKeepOrder
  <2>2. CASE CloseChunk \/ FlushFinalize BY <1>1, <2>2, PurgeChunkBeginsKeepsOrder
  <2>3. CASE SwitchChunk BY <1>1, <2>3, SwitchChunkKeepsOrder
  <2>4. CASE \/ PrepareRelocate \/ PrepareRelocateDone \/ RelocateQuota \/ RelocateEnd
             \/ RelocateCopy \/ ExecuteRelocate \/ RelocateRead
    BY <2>4, RelocationKeepsOrder
  <2>5. CASE \/ WriteHit \/ WritePurge \/ WriteFill \/ CacheFillReadDone \/ WriteAppend
             \/ FlushFill \/ FlushPurge
    BY <2>5, CacheStepsKeepOrder
  <2>6. CASE PurgeCacheDone BY <2>6, PurgeCacheDoneKeepsOrder
  <2>7. CASE PurgeChunkDone BY <1>1, <2>7, PurgeChunkDoneKeepsOrder
  <2>8. CASE IoFails BY <1>1, <2>8, IoFailsKeepsOrder
  <2> QED BY <1>2, <2>1, <2>2, <2>3, <2>4, <2>5, <2>6, <2>7, <2>8 DEF Serve
<1>3. CASE Crash \/ Reinitialize
  BY <1>1, <1>3, RestartKeepsOrder
<1>4. CASE Recover
  BY <1>1, <1>4, ScanChunkKeepsOrder, RecoverPositionKeepsOrder, ReplayPurgeKeepsOrder,
     FinishRecoveryKeepsOrder DEF Recover
<1>5. CASE \/ \E k \in Kinds, b \in Blocks : DispatchWrite(k, b)
           \/ \E k \in Kinds : DispatchFlush(k)
           \/ \E r \in Readers, b \in Blocks : StartRead(r, b)
           \/ \E r \in Readers : FinishRead(r)
           \/ RecoveryFails \/ UNCHANGED vars
  BY <1>5, RequestStepsKeepOrder
<1> QED BY <1>2, <1>3, <1>4, <1>5 DEF Next

\* Unless the very first control of a format is torn, the order of the chunks is kept
\* through every power loss and failure.
LEMMA OrderKept == ~TornFirstChunk /\ Spec => [](IInv /\ Order)
<1> SUFFICES ASSUME ~TornFirstChunk PROVE Spec => [](IInv /\ Order)
  OBVIOUS
<1>1. Init => IInv /\ Order
  BY InitIInv, InitOrder
<1>2. IInv /\ Order /\ [Next]_vars => (IInv /\ Order)'
  BY NextKeeps, NextKeepsOrder
<1> QED BY <1>1, <1>2, PTL DEF Spec

\* The chunk the log goes on in is the newest one, also after a restart that met a torn
\* control or a purge that was not acknowledged: the scan of recovery.c:99-150 finds it by
\* its SCN.  Assumed is only that the first control ever written is not torn.
THEOREM CurrentNewest == ~TornFirstChunk /\ Spec => []CurrentIsNewest
<1>1. IInv /\ Order => CurrentIsNewest
  BY OrderTypes DEF IInv, Order, Ordered, Positioned, CurrentIsNewest, Loaded
<1> QED BY <1>1, OrderKept, PTL
=============================================================================
