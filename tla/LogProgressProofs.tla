-------------------------- MODULE LogProgressProofs --------------------------
(***************************************************************************)
(* Why the requests that the thread of ChunkLog takes up come to an end:   *)
(* the Distance is a value of a well-founded order, and every step of the  *)
(* thread lowers it.  For every geometry with room for all blocks in all   *)
(* but one of the chunks.                                                  *)
(***************************************************************************)
EXTENDS LogMapProofs, WellFoundedInduction

-----------------------------------------------------------------------------
(* The order *)

Distances == [1..9 -> Nat]

\* Below is the lexicographic order of the distances.
LEMMA BelowIsLex ==
  ASSUME NEW d \in Distances, NEW e \in Distances
  PROVE  Below(d, e) <=> <<d, e>> \in LexProductOrdering(OpToRel(<, Nat), Nat, 9)
<1>1. \A i \in 1..9 : d[i] \in Nat /\ e[i] \in Nat
  BY DEF Distances
<1>2. \A i \in 1..9 : d[i] < e[i] <=> <<d[i], e[i]>> \in OpToRel(<, Nat)
  BY <1>1 DEF OpToRel
<1> HIDE DEF OpToRel
<1> QED BY <1>2 DEF Below, Distances, LexProductOrdering

\* There is no infinite descent: a request that lowers the distance again and again ends.
THEOREM NoEndlessDescent ==
  ~ \E f \in [Nat -> Distances] : \A n \in Nat : Below(f[n + 1], f[n])
<1> DEFINE R == LexProductOrdering(OpToRel(<, Nat), Nat, 9)
<1>1. IsWellFoundedOn(R, [1..9 -> Nat])
  BY NatLessThanWellFounded, WFLexProductOrdering
<1> SUFFICES ASSUME NEW f \in [Nat -> Distances], \A n \in Nat : Below(f[n + 1], f[n])
             PROVE  FALSE
  OBVIOUS
<1> HIDE DEF R
<1>2. ASSUME NEW n \in Nat PROVE <<f[n + 1], f[n]>> \in R
  <2>1. n + 1 \in Nat /\ Below(f[n + 1], f[n])
    OBVIOUS
  <2>2. f[n] \in Distances /\ f[n + 1] \in Distances
    BY <2>1
  <2> QED BY <2>1, <2>2, BelowIsLex DEF R
<1> QED BY <1>1, <1>2 DEF IsWellFoundedOn, Distances

\* A distance is below another if it is less at some place and no more at the ones before.
LEMMA Nearer ==
  ASSUME NEW d \in Distances, NEW e \in Distances
  PROVE  /\ d[1] < e[1] => Below(d, e)
         /\ \A n \in 2..9 : (\A i \in 1..(n - 1) : d[i] <= e[i]) /\ d[n] < e[n] => Below(d, e)
         /\ (\A i \in 1..9 : d[i] = e[i]) => d = e
<1>1. DOMAIN e = 1..9 /\ \A i \in 1..9 : d[i] \in Nat /\ e[i] \in Nat
  BY DEF Distances
<1> DEFINE Less(n) == d[n] < e[n] /\ \A j \in 1..(n - 1) : d[j] = e[j]
<1>2. \A n \in 1..9 : Less(n) => Below(d, e)
  BY <1>1 DEF Below
<1>3. ASSUME NEW n \in 1..9, \A i \in 1..(n - 1) : d[i] <= e[i], d[n] < e[n]
      PROVE  \E m \in 1..9 : Less(m)
  <2> DEFINE S == {i \in 1..9 : d[i] < e[i]}
  <2>1. n \in S /\ S \subseteq Nat
    BY <1>3
  <2>2. PICK m \in S : \A i \in S : m <= i
    <3> HIDE DEF S
    <3>1. PICK m \in S : \A i \in S : ~(<<i, m>> \in OpToRel(<, Nat))
      BY <2>1, NatLessThanWellFounded, WFMin
    <3>2. \A i \in S : ~(i < m)
      BY <2>1, <3>1 DEF OpToRel
    <3>3. \A i \in S : i \in Nat
      BY <2>1
    <3> QED BY <3>2, <3>3
  <2>3. m <= n /\ m \in 1..9
    BY <2>1, <2>2
  <2>4. ASSUME NEW j \in 1..(m - 1) PROVE d[j] = e[j]
    <3>1. j \in 1..9 /\ j \in 1..(n - 1) /\ j < m
      BY <2>3, <2>4
    <3>2. ~(d[j] < e[j])
      BY <2>2, <3>1
    <3> QED BY <1>1, <1>3, <3>1, <3>2
  <2> QED BY <2>2, <2>3, <2>4
<1> HIDE DEF Less
<1>4. (\A i \in 1..9 : d[i] = e[i]) => d = e
  BY DEF Distances
<1> QED BY <1>2, <1>3, <1>4

-----------------------------------------------------------------------------
(* The distance *)

\* The parts of the distance are natural numbers.
LEMMA DistanceParts ==
  IInv => /\ MaxFailures - failures \in Nat /\ LastPurgePos - PurgePos \in Nat
          /\ ChunksToFill \in Nat /\ Stage \in 0..7 /\ StillToDo \in Nat /\ Turn \in Nat
          /\ FlushStage \in Nat
          /\ \A P \in BOOLEAN : One(P) \in Nat
<1> SUFFICES ASSUME IInv
             PROVE  /\ MaxFailures - failures \in Nat /\ LastPurgePos - PurgePos \in Nat
                    /\ ChunksToFill \in Nat /\ Stage \in 0..7 /\ StillToDo \in Nat /\ Turn \in Nat
                    /\ FlushStage \in Nat
                    /\ \A P \in BOOLEAN : One(P) \in Nat
  OBVIOUS
<1>1. MaxFailures - failures \in Nat
  BY Parameters DEF IInv, TypeOK, BookTypeOK
<1>2. LastPurgePos - PurgePos \in Nat
  BY Sizes DEF IInv, TypeOK, LogTypeOK
<1>3. LastPurgePos - RelocatePos \in Nat
  BY Sizes DEF IInv, TypeOK, RelocationTypeOK
<1>4. Cardinality(marked) \in Nat
  BY SomeReaders, FS_Subset, FS_CardinalityType DEF IInv, TypeOK, ThreadTypeOK
<1> QED BY <1>1, <1>2, <1>3, <1>4 DEF ChunksToFill, Stage, StillToDo, Turn, FlushStage, One

\* So the distance is a value of the order.
LEMMA DistanceIsOne ==
  IInv => Distance \in Distances
BY DistanceParts DEF Distance, Distances, One

\* The same after a step.
LEMMA DistanceNext ==
  IInv' => (Distance \in Distances)'
BY DistanceIsOne, PTL

\* The distance of a write, part by part.
LEMMA WriteParts ==
  ASSUME IsWrite
  PROVE  /\ Distance[1] = MaxFailures - failures /\ Distance[2] = One(~Cached(req.block))
         /\ Distance[3] = One(Mixed) /\ Distance[4] = ChunksToFill
         /\ Distance[5] = LastPurgePos - PurgePos /\ Distance[6] = Stage
         /\ Distance[7] = StillToDo /\ Distance[8] = One(~Windowed) /\ Distance[9] = Turn
BY DEF Distance

\* The distance of a flush.
LEMMA FlushParts ==
  ASSUME ~IsWrite
  PROVE  /\ Distance[1] = MaxFailures - failures /\ Distance[2] = FlushStage
         /\ \A i \in 3..9 : Distance[i] = 0
BY DEF Distance

\* What brings a write nearer to its end, the weightiest first.
LEMMA WriteNearer ==
  ASSUME IInv, IInv', IsWrite, IsWrite', failures' = failures,
         Cached(req.block) => Cached(req.block)'
  PROVE  /\ ~Cached(req.block) /\ Cached(req.block)' => Below(Distance', Distance)
         /\ (Mixed' => Mixed) =>
              /\ Mixed /\ ~Mixed' => Below(Distance', Distance)
              /\ ChunksToFill' < ChunksToFill => Below(Distance', Distance)
              /\ ChunksToFill' = ChunksToFill /\ PurgePos' > PurgePos => Below(Distance', Distance)
              /\ ChunksToFill' = ChunksToFill /\ PurgePos' = PurgePos =>
                   /\ Stage' < Stage => Below(Distance', Distance)
                   /\ Stage' = Stage =>
                        /\ StillToDo' < StillToDo => Below(Distance', Distance)
                        /\ StillToDo' = StillToDo =>
                             /\ ~Windowed /\ Windowed' => Below(Distance', Distance)
                             /\ (Windowed' <=> Windowed) /\ Turn' < Turn => Below(Distance', Distance)
<1> DEFINE d == Distance'
           e == Distance
<1>1. d \in Distances /\ e \in Distances
  BY DistanceIsOne, DistanceNext
<1>2. /\ d[1] = MaxFailures - failures' /\ d[2] = One(~Cached(req.block)')
      /\ d[3] = One(Mixed') /\ d[4] = ChunksToFill'
      /\ d[5] = LastPurgePos - PurgePos' /\ d[6] = Stage'
      /\ d[7] = StillToDo' /\ d[8] = One(~Windowed') /\ d[9] = Turn'
  BY DEF Distance
<1>3. /\ e[1] = MaxFailures - failures /\ e[2] = One(~Cached(req.block))
      /\ e[3] = One(Mixed) /\ e[4] = ChunksToFill
      /\ e[5] = LastPurgePos - PurgePos /\ e[6] = Stage
      /\ e[7] = StillToDo /\ e[8] = One(~Windowed) /\ e[9] = Turn
  BY WriteParts
<1> HIDE DEF d, e
<1>4. \A i \in 1..9 : d[i] \in Nat /\ e[i] \in Nat
  BY <1>1 DEF Distances
<1>5. PurgePos \in Nat /\ PurgePos' \in Nat /\ LastPurgePos \in Nat
  BY PurgePosition, Sizes DEF IInv, TypeOK, LogTypeOK
<1>6. \A n \in 2..9 : (\A i \in 1..(n - 1) : d[i] <= e[i]) /\ d[n] < e[n] => Below(d, e)
  BY <1>1, Nearer
<1>7. /\ d[1] = e[1] /\ d[2] <= e[2]
      /\ ~Cached(req.block) /\ Cached(req.block)' => d[2] < e[2]
      /\ (Mixed' => Mixed) => d[3] <= e[3]
      /\ Mixed /\ ~Mixed' => d[3] < e[3]
      /\ PurgePos' = PurgePos => d[5] = e[5]
      /\ PurgePos' > PurgePos => d[5] < e[5]
      /\ (Windowed' <=> Windowed) => d[8] = e[8]
      /\ ~Windowed /\ Windowed' => d[8] < e[8]
  <2>1. d[1] = e[1]
    BY <1>2, <1>3
  <2>2. /\ PurgePos' = PurgePos => d[5] = e[5]
        /\ PurgePos' > PurgePos => d[5] < e[5]
    <3>1. d[5] = LastPurgePos - PurgePos' /\ e[5] = LastPurgePos - PurgePos
      BY <1>2, <1>3
    <3>2. \A x, y, z \in Nat : y > z => x - y < x - z
      OBVIOUS
    <3> QED BY <1>5, <3>1, <3>2
  <2>3. d[2] <= e[2] /\ (~Cached(req.block) /\ Cached(req.block)' => d[2] < e[2])
    BY <1>2, <1>3 DEF One
  <2>4. ((Mixed' => Mixed) => d[3] <= e[3]) /\ (Mixed /\ ~Mixed' => d[3] < e[3])
    BY <1>2, <1>3 DEF One
  <2>5. ((Windowed' <=> Windowed) => d[8] = e[8]) /\ (~Windowed /\ Windowed' => d[8] < e[8])
    BY <1>2, <1>3 DEF One
  <2> QED BY <2>1, <2>2, <2>3, <2>4, <2>5
<1>8. /\ d[2] < e[2] => Below(d, e)
      /\ d[2] <= e[2] /\ d[3] < e[3] => Below(d, e)
      /\ d[2] <= e[2] /\ d[3] <= e[3] /\ d[4] < e[4] => Below(d, e)
      /\ d[2] <= e[2] /\ d[3] <= e[3] /\ d[4] = e[4] /\ d[5] < e[5] => Below(d, e)
      /\ d[2] <= e[2] /\ d[3] <= e[3] /\ d[4] = e[4] /\ d[5] = e[5] /\ d[6] < e[6] => Below(d, e)
      /\ d[2] <= e[2] /\ d[3] <= e[3] /\ d[4] = e[4] /\ d[5] = e[5] /\ d[6] = e[6] /\ d[7] < e[7]
           => Below(d, e)
      /\ d[2] <= e[2] /\ d[3] <= e[3] /\ d[4] = e[4] /\ d[5] = e[5] /\ d[6] = e[6] /\ d[7] = e[7]
           /\ d[8] < e[8] => Below(d, e)
      /\ d[2] <= e[2] /\ d[3] <= e[3] /\ d[4] = e[4] /\ d[5] = e[5] /\ d[6] = e[6] /\ d[7] = e[7]
           /\ d[8] = e[8] /\ d[9] < e[9] => Below(d, e)
  BY <1>4, <1>6, <1>7
<1>9. /\ d[4] = ChunksToFill' /\ e[4] = ChunksToFill /\ d[6] = Stage' /\ e[6] = Stage
      /\ d[7] = StillToDo' /\ e[7] = StillToDo /\ d[9] = Turn' /\ e[9] = Turn
  BY <1>2, <1>3
<1>10. Below(d, e) <=> Below(Distance', Distance)
  BY DEF d, e
<1> QED BY <1>7, <1>8, <1>9, <1>10

\* What brings a flush nearer to its end.
LEMMA FlushNearer ==
  ASSUME IInv, IInv', ~IsWrite, ~IsWrite', failures' = failures, FlushStage' < FlushStage
  PROVE  Below(Distance', Distance)
<1>1. Distance' \in Distances /\ Distance \in Distances
  BY DistanceIsOne, DistanceNext
<1>2. Distance'[1] = MaxFailures - failures' /\ Distance'[2] = FlushStage'
  BY DEF Distance
<1>3. Distance[1] = MaxFailures - failures /\ Distance[2] = FlushStage
  BY FlushParts
<1>4. MaxFailures - failures \in Nat
  BY DistanceParts
<1>5. \A i \in 1..(2 - 1) : Distance'[i] <= Distance[i]
  BY <1>2, <1>3, <1>4
<1>6. Distance'[2] < Distance[2]
  BY <1>2, <1>3
<1> HIDE DEF Distance
<1> QED BY <1>1, <1>5, <1>6, Nearer

\* A failure uses up one of those to come.
LEMMA FailureNearer ==
  ASSUME IInv, IInv', failures' = failures + 1
  PROVE  Below(Distance', Distance)
<1>1. Distance' \in Distances /\ Distance \in Distances
  BY DistanceIsOne, DistanceNext
<1>2. Distance'[1] = MaxFailures - failures' /\ Distance[1] = MaxFailures - failures
  BY DEF Distance
<1>3. failures \in Nat /\ MaxFailures \in Nat
  BY Parameters DEF IInv, TypeOK, BookTypeOK
<1> QED BY <1>1, <1>2, <1>3, Nearer

-----------------------------------------------------------------------------
(* Where the thread is *)

\* What a write, or a flush, waits for when its step is not "handler".
Phases ==
  /\ step \in {"prepare", "marked", "copy", "relocate"} => IsWrite
  /\ step \in {"marked", "copy", "relocate"} => PurgePos < LastPurgePos /\ RelocationPrepared
  /\ step \in {"copy", "relocate"} => ~RelocationDone
  /\ step = "fill" /\ ~IsWrite => CacheOpen
  /\ step = "purge" /\ IsWrite => ~Cached(req.block) /\ Len(cache) >= LastCachePos
  /\ step = "finalize" => ~CacheOpen /\ ~CacheDirty /\ (IsWrite => PurgePos = LastPurgePos)

\* Steps that end a wait, and those that leave the thread where it is.
LEMMA PhasesFrame ==
  ASSUME Phases,
         \/ step' \in {"idle", "handler"}
         \/ UNCHANGED <<step, req, cache, CacheDirty, PurgePos, RelocationPrepared, RelocationDone>>
  PROVE  Phases'
<1>1. CASE step' \in {"idle", "handler"}
  BY <1>1 DEF Phases
<1>2. CASE UNCHANGED <<step, req, cache, CacheDirty, PurgePos, RelocationPrepared, RelocationDone>>
  BY <1>2 DEF Phases, IsWrite, CacheOpen, Cached, CachedAt
<1> QED BY <1>1, <1>2

\* A write or a flush begins to read the rest of a block.
LEMMA FillBeginsPhase ==
  ASSUME Phases, CacheFill, step = "handler", IsWrite \/ CacheOpen
  PROVE  Phases'
<1>1. CASE step' = "fill" /\ UNCHANGED <<cache, req>>
  BY <1>1 DEF Phases, IsWrite, CacheOpen
<1>2. CASE UNCHANGED step
  BY <1>2, PhasesFrame
<1> QED BY <1>1, <1>2 DEF CacheFill

\* A chunk control is built in the memory of the cache, whose blocks stay as they are.
LEMMA ClosedStaysClosed ==
  ASSUME TypeOK, ~CacheOpen,
         cache' = [i \in 1..Len(cache) |-> [cache[i] EXCEPT !.data = Whole(Garbage)]]
  PROVE  ~CacheOpen'
<1>1. Len(cache) \in Nat /\ \A i \in 1..Len(cache) : cache[i] \in CacheEntries
  BY LenProperties, ElementOfSeq DEF TypeOK, CacheTypeOK
<1>2. Len(cache') = Len(cache) /\ \A i \in 1..Len(cache) : cache'[i].open = cache[i].open
  BY <1>1 DEF CacheEntries
<1> QED BY <1>2 DEF CacheOpen

\* The phases are kept.
LEMMA PhasesKept ==
  ASSUME IInv, MapInv, Phases, [Next]_vars
  PROVE  Phases'
<1>1. CASE \/ WriteAbort \/ SwitchChunk \/ RelocateEnd \/ RelocateRead \/ WriteHit \/ WriteAppend
           \/ CacheFillReadDone \/ FlushDone \/ PurgeCacheDone \/ PurgeChunkDone \/ IoFails
           \/ (\E k \in Kinds, b \in Blocks : DispatchWrite(k, b))
           \/ (\E k \in Kinds : DispatchFlush(k))
           \/ Crash \/ Reinitialize
  <2>1. step' \in {"idle", "handler"}
    BY <1>1 DEF WriteAbort, SwitchChunk, Writing, RelocateEnd, RelocateRead, WriteHit, WriteAppend,
       CacheFillReadDone, FlushDone, PurgeCacheDone, PurgeChunkDone, IoFails, DispatchWrite,
       DispatchFlush, Crash, Reinitialize, LoseMemory
  <2> QED BY <2>1, PhasesFrame
<1>2. CASE (\E r \in Readers, b \in Blocks : StartRead(r, b)) \/ RecoveryFails \/ UNCHANGED vars
  BY <1>2, PhasesFrame DEF StartRead, RecoveryFails, vars, logVars, cacheVars, relocVars
<1>3. CASE Recover
  <2>1. step = "idle" /\ step' = step
    BY <1>3 DEF Recover, ScanChunk, RecoverPosition, ReplayPurge, FinishRecovery, IInv, CachePhases
  <2> QED BY <2>1, PhasesFrame
<1>4. ASSUME NEW r \in Readers, FinishRead(r) PROVE Phases'
  BY <1>4, PhasesFrame DEF FinishRead, logVars, cacheVars, relocVars
<1>5. CASE CloseChunk
  <2>1. PurgePos' = LastPurgePos /\ step' = "finalize" /\ ~CacheDirty' /\ Len(cache) = 0
        /\ cache' = [i \in 1..Len(cache) |-> [cache[i] EXCEPT !.data = Whole(Garbage)]]
    BY <1>5 DEF CloseChunk, ExecutePurgeChunk, IInv, CachePhases
  <2>2. ~CacheOpen'
    <3>1. Len(cache') = 0
      BY <2>1
    <3> QED BY <3>1 DEF CacheOpen
  <2> QED BY <2>1, <2>2 DEF Phases
<1>6. CASE FlushFinalize
  <2>1. /\ step' = "finalize" /\ ~CacheDirty' /\ ~CacheOpen /\ ~IsWrite'
        /\ cache' = [i \in 1..Len(cache) |-> [cache[i] EXCEPT !.data = Whole(Garbage)]]
    BY <1>6 DEF FlushFinalize, ExecutePurgeChunk, Flushing, IsWrite
  <2>2. ~CacheOpen'
    BY <2>1, ClosedStaysClosed DEF IInv
  <2> QED BY <2>1, <2>2 DEF Phases
<1>7. CASE PrepareRelocate
  BY <1>7 DEF PrepareRelocate, Writing, Phases, IsWrite
<1>8. CASE PrepareRelocateDone
  <2>1. PurgePos < LastPurgePos /\ IsWrite /\ step' \in {"handler", "marked"} /\ RelocationPrepared'
        /\ UNCHANGED <<req, PurgePos>>
    BY <1>8 DEF PrepareRelocateDone, Phases, logVars, MapInv, Relocation, PacePhases
  <2> QED BY <2>1 DEF Phases, IsWrite
<1>9. CASE RelocateQuota
  BY <1>9 DEF RelocateQuota, Relocating, Writing, Phases, IsWrite, logVars
<1>10. CASE RelocateCopy
  BY <1>10 DEF RelocateCopy, Phases, IsWrite, logVars
<1>11. CASE ExecuteRelocate
  BY <1>11 DEF ExecuteRelocate, Phases, IsWrite, logVars
<1>12. CASE WritePurge
  BY <1>12 DEF WritePurge, ExecutePurgeCache, Ready, Writing, Phases, IsWrite, cacheVars, Cached, CachedAt
<1>13. CASE FlushPurge
  BY <1>13 DEF FlushPurge, ExecutePurgeCache, Flushing, Phases, IsWrite
<1>14. CASE WriteFill
  BY <1>14, FillBeginsPhase DEF WriteFill, Ready, Writing
<1>15. CASE FlushFill
  BY <1>15, FillBeginsPhase DEF FlushFill, Flushing
<1> QED BY <1>1, <1>2, <1>3, <1>4, <1>5, <1>6, <1>7, <1>8, <1>9, <1>10, <1>11, <1>12, <1>13, <1>14, <1>15
        DEF Next, Serve

\* The thread waits for readers that are at work.
LEMMA WaitsKept ==
  ASSUME TypeOK, WaitsForReaders, [Next]_vars
  PROVE  WaitsForReaders'
<1>1. CASE CloseChunk
  <2>1. marked' = marked \cup Marked /\ UNCHANGED reading /\ step' = "finalize"
    BY <1>1 DEF CloseChunk, ExecutePurgeChunk
  <2> QED BY <2>1 DEF WaitsForReaders, Marked
<1>2. CASE PrepareRelocateDone
  BY <1>2 DEF PrepareRelocateDone, readVars, WaitsForReaders
<1>3. ASSUME NEW r \in Readers, NEW b \in Blocks, StartRead(r, b) PROVE WaitsForReaders'
  <2>1. /\ r \notin marked /\ UNCHANGED <<marked, step>>
        /\ \A q \in Readers \ {r} : reading'[q] = reading[q]
    BY <1>3 DEF StartRead, WaitsForReaders, TypeOK, ThreadTypeOK
  <2> QED BY <2>1 DEF WaitsForReaders, TypeOK, ThreadTypeOK
<1>4. ASSUME NEW r \in Readers, FinishRead(r) PROVE WaitsForReaders'
  <2>1. /\ marked' = marked \ {r} /\ step' = IF step = "marked" /\ marked' = {} THEN "handler" ELSE step
        /\ \A q \in Readers \ {r} : reading'[q] = reading[q]
    BY <1>4 DEF FinishRead, TypeOK, ThreadTypeOK
  <2> QED BY <2>1 DEF WaitsForReaders, TypeOK, ThreadTypeOK
<1>5. CASE Crash \/ Reinitialize
  BY <1>5 DEF Crash, Reinitialize, LoseMemory, WaitsForReaders
<1>6. CASE \/ WriteAbort \/ SwitchChunk \/ RelocateEnd \/ RelocateRead \/ WriteHit \/ WriteAppend
           \/ CacheFillReadDone \/ FlushDone \/ PurgeCacheDone \/ PurgeChunkDone \/ IoFails
           \/ (\E k \in Kinds, b \in Blocks : DispatchWrite(k, b))
           \/ (\E k \in Kinds : DispatchFlush(k))
  <2>1. UNCHANGED readVars /\ step' \in {"idle", "handler"}
    BY <1>6 DEF WriteAbort, SwitchChunk, Writing, RelocateEnd, RelocateRead, WriteHit, WriteAppend,
       CacheFillReadDone, FlushDone, PurgeCacheDone, PurgeChunkDone, IoFails, DispatchWrite,
       DispatchFlush
  <2> QED BY <2>1 DEF readVars, WaitsForReaders
<1>7. CASE PrepareRelocate \/ RelocateQuota \/ RelocateCopy \/ ExecuteRelocate \/ WritePurge
           \/ FlushPurge \/ WriteFill \/ FlushFill \/ FlushFinalize
  <2>1. UNCHANGED <<reading, marked>> /\ step' # "marked"
    BY <1>7 DEF PrepareRelocate, RelocateQuota, RelocateCopy, ExecuteRelocate, WritePurge, FlushPurge,
       ExecutePurgeCache, WriteFill, FlushFill, CacheFill, FlushFinalize, ExecutePurgeChunk, readVars,
       Ready, Writing, Flushing
  <2> QED BY <2>1 DEF WaitsForReaders
<1>8. CASE Recover \/ RecoveryFails \/ UNCHANGED vars
  <2>1. UNCHANGED <<reading, marked, step>>
    BY <1>8 DEF Recover, ScanChunk, RecoverPosition, ReplayPurge, FinishRecovery, RecoveryFails, vars,
       readVars
  <2> QED BY <2>1 DEF WaitsForReaders
<1> QED BY <1>1, <1>2, <1>3, <1>4, <1>5, <1>6, <1>7, <1>8 DEF Next, Serve

-----------------------------------------------------------------------------
(* Steps of a write *)

\* The first parts of the distance depend on little.
LEMMA SameBlocks ==
  ASSUME UNCHANGED <<cache, req, Map, NextChunkNo, Used, PurgePos>>
  PROVE  /\ Cached(req.block)' <=> Cached(req.block)
         /\ Mixed' <=> Mixed
         /\ ChunksToFill' = ChunksToFill
         /\ IsWrite' <=> IsWrite
BY DEF Cached, CachedAt, Mixed, ChunksToFill, Slack, IsWrite

\* A step that leads to the next stage.
LEMMA StageNearer ==
  ASSUME IInv, IInv', IsWrite, UNCHANGED <<cache, req, Map, NextChunkNo, Used, PurgePos, failures>>,
         Stage' < Stage
  PROVE  Below(Distance', Distance)
BY SameBlocks, WriteNearer

\* The closing and the opening of chunks, and of the relocation.
LEMMA StagesCome ==
  ASSUME IInv, IInv', MapInv, Phases, IsWrite,
         PrepareRelocate \/ PrepareRelocateDone \/ RelocateEnd \/ PurgeChunkDone
  PROVE  Below(Distance', Distance)
<1>1. UNCHANGED <<cache, req, Map, NextChunkNo, Used, PurgePos, failures>>
  BY DEF PrepareRelocate, PrepareRelocateDone, RelocateEnd, PurgeChunkDone, logVars, cacheVars, bookVars
<1>2. PurgePos \in Nat /\ LastPurgePos \in Nat /\ (PurgePos < LastPurgePos <=> PurgePos # LastPurgePos)
  BY PurgePosition DEF IInv, TypeOK
<1>3. CASE PrepareRelocate
  <2>1. Stage = 4 /\ Stage' = 3
    BY <1>1, <1>2, <1>3 DEF PrepareRelocate, Writing, Stage, relocVars
  <2> QED BY <1>1, <2>1, StageNearer
<1>4. CASE PrepareRelocateDone
  <2>1. PurgePos # LastPurgePos /\ ~RelocationPrepared /\ step = "prepare" /\ RelocationPrepared'
    BY <1>2, <1>4 DEF PrepareRelocateDone, IInv, CachePhases, MapInv, Relocation, PacePhases
  <2>2. Stage = 3 /\ Stage' \in 0..2
    BY <1>1, <2>1 DEF Stage
  <2> QED BY <1>1, <2>2, StageNearer
<1>5. CASE RelocateEnd
  <2>1. PurgePos # LastPurgePos /\ RelocationPrepared /\ ~RelocationDone /\ step = "copy"
        /\ RelocationPrepared' /\ RelocationDone' /\ step' = "handler"
    BY <1>2, <1>5 DEF RelocateEnd, Phases
  <2>2. Stage = 1 /\ Stage' = 0
    BY <1>1, <2>1 DEF Stage
  <2> QED BY <1>1, <2>2, StageNearer
<1>6. CASE PurgeChunkDone
  <2>1. PurgePos = LastPurgePos /\ step = "finalize" /\ FinalizedPos' = PurgePos /\ step' = "handler"
    BY <1>6 DEF PurgeChunkDone, Phases
  <2>2. Stage = 6 /\ Stage' = 5
    BY <1>1, <1>2, <2>1 DEF Stage
  <2> QED BY <1>1, <2>2, StageNearer
<1> QED BY <1>3, <1>4, <1>5, <1>6

\* The closing of a chunk begins; nothing is in the cache.
LEMMA CloseChunkNearer ==
  ASSUME IInv, IInv', CloseChunk
  PROVE  Below(Distance', Distance)
<1>1. /\ UNCHANGED <<req, Map, NextChunkNo, Used, PurgePos, FinalizedPos, failures>>
      /\ IsWrite /\ step = "handler" /\ step' = "finalize" /\ PurgePos = LastPurgePos
      /\ FinalizedPos < LastPurgePos
  BY DEF CloseChunk, Writing, ExecutePurgeChunk, bookVars
<1>2. cache = <<>> /\ cache' = <<>>
  BY <1>1 DEF IInv, CachePhases
<1>3. Stage = 7 /\ Stage' = 6
  BY <1>1 DEF Stage
<1> QED BY <1>1, <1>2, <1>3, StageNearer

\* A small chunk leaves slack in an empty one that has all its purges.
LEMMA SmallLeavesSlack ==
  ASSUME NEW u \in Nat, NEW r \in Nat, r = LastPurgePos,
         \/ u * 100 < r * RELOCATION_LIMIT_PERCENTAGE
         \/ u <= (PURGES - 1) * LastCachePos
  PROVE  u * CacheSize < r * LastCachePos
<1> DEFINE G == RELOCATION_LIMIT_PERCENTAGE
           C == CacheSize
           L == LastCachePos
           N == PURGES - 1
<1>1. /\ G \in Nat /\ C \in Nat /\ L \in Nat /\ N \in Nat /\ C > 0 /\ L > 0
      /\ G * C <= 100 * L /\ r = (N + 1) * C
  BY Geometry, Sizes DEF LastPurgePos
<1> HIDE DEF G, C, L, N
<1>2. CASE u * 100 < r * G
  <2>1. (u * 100) * C < (r * G) * C
    <3>1. \A x, y \in Nat : x < y => x * C < y * C
      BY <1>1
    <3>2. u * 100 \in Nat /\ r * G \in Nat
      BY <1>1
    <3> QED BY <1>2, <3>1, <3>2
  <2>2. r * (G * C) <= r * (100 * L)
    BY <1>1
  <2>3. (u * 100) * C = 100 * (u * C) /\ (r * G) * C = r * (G * C) /\ r * (100 * L) = 100 * (r * L)
    BY <1>1
  <2>4. u * C \in Nat /\ r * L \in Nat /\ r * (G * C) \in Nat
    BY <1>1
  <2> QED BY <2>1, <2>2, <2>3, <2>4 DEF C, L
<1>3. CASE u <= N * L
  <2>1. u * C <= (N * L) * C
    BY <1>1, <1>3
  <2>2. r * L = (N * L) * C + L * C
    BY <1>1
  <2>3. L * C > 0 /\ L * C \in Nat /\ (N * L) * C \in Nat /\ u * C \in Nat
    BY <1>1
  <2> QED BY <2>1, <2>2, <2>3 DEF C, L
<1> QED BY <1>2, <1>3 DEF G, L, N

\* The log moves on to another chunk: the one after it has slack, unless the new one is
\* chunk 0, which is not chosen twice in a row.
LEMMA SwitchChunkNearer ==
  ASSUME Capacity, IInv, IInv', SwitchChunk
  PROVE  Below(Distance', Distance)
<1> DEFINE next == NextChunkNo
           new  == NextChunkNo'
           pool == {c \in Chunks \ {next} :
                      Used[c] * 100 < (LastPurgePos - FirstPos(next)) * RELOCATION_LIMIT_PERCENTAGE}
<1>1. /\ UNCHANGED <<cache, req, Map, Used, failures>> /\ IsWrite /\ IsWrite'
      /\ PurgePos = LastPurgePos /\ PurgePos' = FirstPos(next)
      /\ FindNextChunk(next, FirstPos(next))
  BY DEF SwitchChunk, Writing, IsWrite, cacheVars, bookVars
<1>2. cache = <<>> /\ cache' = <<>>
  BY <1>1 DEF IInv, CachePhases
<1>3. ~Mixed /\ ~Mixed' /\ ~Cached(req.block) /\ ~Cached(req.block)'
  BY <1>2 DEF Mixed, Cached, CachedAt
<1>4. /\ \A c \in Chunks : Used[c] \in Nat /\ Used[c] = Cardinality(In(Map, c))
      /\ next \in Chunks /\ new \in Chunks \ {next} /\ LastPurgePos \in Nat
  BY <1>1, Sizes DEF IInv, TypeOK, LogTypeOK, UsedCounts, In, FindNextChunk, NextChunks
<1>5. ~Slack
  <2>1. LastPurgePos - PurgePos = 0 /\ 0 * LastCachePos = 0
    BY <1>1, <1>4, Sizes
  <2>2. Used[next] * CacheSize \in Nat
    BY <1>4, Sizes
  <2> QED BY <2>1, <2>2 DEF Slack
<1>6. ChunksToFill' < ChunksToFill
  <2>1. CASE next = 0
    <3>1. new # 0
      BY <1>4, <2>1
    <3> QED BY <1>5, <2>1, <3>1 DEF ChunksToFill
  <2>2. CASE next # 0
    <3>1. FirstPos(next) = 0
      BY <2>2 DEF FirstPos
    <3>2. pool # {} => new \in pool
      BY <1>1 DEF FindNextChunk, NextChunks
    <3>3. pool = {} => \A d \in Chunks \ {next} : Used[new] <= Used[d]
      BY <1>1, <1>4 DEF FindNextChunk, NextChunks
    <3>4. PICK d \in Chunks \ {next} : Cardinality(In(Map, d)) <= (PURGES - 1) * LastCachePos
      BY <1>4, SomeChunkIsSmall DEF IInv, TypeOK, LogTypeOK, Maps
    <3>5. \/ Used[new] * 100 < LastPurgePos * RELOCATION_LIMIT_PERCENTAGE
          \/ Used[new] <= (PURGES - 1) * LastCachePos
      <4>1. CASE pool # {}
        BY <1>4, <3>1, <3>2, <4>1
      <4>2. CASE pool = {}
        <5>1. Used[new] <= Used[d] /\ Used[d] <= (PURGES - 1) * LastCachePos
          BY <1>4, <3>3, <3>4, <4>2
        <5>2. (PURGES - 1) * LastCachePos \in Nat
          BY Sizes, Geometry
        <5> QED BY <1>4, <5>1, <5>2
      <4> QED BY <4>1, <4>2
    <3>6. Used[new] \in Nat
      BY <1>4
    <3>7. Used[new] * CacheSize < LastPurgePos * LastCachePos
      BY <1>4, <3>5, <3>6, SmallLeavesSlack
    <3>8. Slack'
      <4>1. LastPurgePos - PurgePos' = LastPurgePos
        BY <1>1, <1>4, <3>1
      <4> QED BY <1>1, <3>7, <4>1 DEF Slack
    <3> QED BY <1>5, <2>2, <3>8 DEF ChunksToFill
  <2> QED BY <2>1, <2>2
<1> QED BY <1>1, <1>3, <1>6, WriteNearer

\* The stage of a write while blocks are relocated.
LEMMA RelocationStage ==
  ASSUME IInv, Phases, Relocating \/ step \in {"copy", "relocate"}
  PROVE  /\ IsWrite /\ PurgePos # LastPurgePos /\ RelocationPrepared /\ ~RelocationDone
         /\ Stage = 1 /\ StillToDo = LastPurgePos - RelocatePos
         /\ Turn = IF step = "relocate" THEN 3 ELSE IF step = "handler" THEN 2 ELSE 1
<1>1. PurgePos \in Nat /\ LastPurgePos \in Nat
  BY PurgePosition DEF IInv, TypeOK
<1>2. /\ IsWrite /\ PurgePos # LastPurgePos /\ RelocationPrepared /\ ~RelocationDone
      /\ step \in {"handler", "copy", "relocate"}
  BY <1>1 DEF Relocating, Writing, Phases
<1>3. Stage = 1
  BY <1>2 DEF Stage
<1> QED BY <1>2, <1>3 DEF StillToDo, Turn

\* The quota is asked for, or the blocks of a window have been read.
LEMMA RelocationTurns ==
  ASSUME IInv, IInv', Phases, RelocateQuota \/ RelocateRead
  PROVE  Below(Distance', Distance)
<1>1. /\ UNCHANGED <<cache, req, Map, NextChunkNo, Used, PurgePos, failures, RelocationPrepared,
                     RelocatePos, WindowStart, WindowEnd, NextLBA>>
      /\ Relocating \/ step = "relocate"
      /\ step = "relocate" \/ step = "handler"
      /\ \/ step = "handler" /\ step' = "handler" /\ RelocationDone'
         \/ step = "handler" /\ step' = "copy" /\ ~RelocationDone'
         \/ step = "relocate" /\ step' = "handler" /\ RelocationDone' = RelocationDone
  BY DEF RelocateQuota, RelocateRead, Relocating, Writing, logVars, cacheVars, bookVars
<1>2. /\ IsWrite /\ PurgePos # LastPurgePos /\ RelocationPrepared /\ ~RelocationDone
      /\ Stage = 1 /\ StillToDo = LastPurgePos - RelocatePos
      /\ Turn = IF step = "relocate" THEN 3 ELSE IF step = "handler" THEN 2 ELSE 1
  BY <1>1, RelocationStage
<1>3. CASE RelocationDone'
  <2>1. Stage' = 0
    BY <1>1, <1>2, <1>3 DEF Stage
  <2> QED BY <1>1, <1>2, <2>1, StageNearer
<1>4. CASE ~RelocationDone'
  <2>1. Stage' = 1
    BY <1>1, <1>2, <1>4 DEF Stage
  <2>2. StillToDo' = StillToDo /\ Turn' < Turn
    BY <1>1, <1>2, <1>4, <2>1 DEF StillToDo, Turn
  <2>3. LeftToRelocate' = LeftToRelocate
    BY <1>1 DEF LeftToRelocate, Live, IsLive
  <2>4. Windowed' <=> Windowed
    BY <1>1, <2>3 DEF Windowed, First, InWindow
  <2> QED BY <1>1, <1>2, <2>1, <2>2, <2>4, SameBlocks, WriteNearer
<1> QED BY <1>3, <1>4

\* A block of the next chunk is copied into the cache.
LEMMA RelocateCopyNearer ==
  ASSUME IInv, IInv', Phases, RelocateCopy
  PROVE  Below(Distance', Distance)
<1>1. PICK p \in LeftToRelocate :
        /\ First(p, LeftToRelocate) /\ RelocatePos' = p + 1
        /\ cache' = Append(cache, [lba |-> NextLBA[p], data |-> RelocateMem[p], open |-> FALSE])
  BY DEF RelocateCopy
<1>2. /\ UNCHANGED <<req, Map, NextChunkNo, Used, PurgePos, failures, RelocationPrepared,
                     RelocationDone, step>>
      /\ step = "copy"
  BY DEF RelocateCopy, logVars, bookVars
<1>3. /\ IsWrite /\ PurgePos # LastPurgePos /\ RelocationPrepared /\ ~RelocationDone
      /\ Stage = 1 /\ StillToDo = LastPurgePos - RelocatePos
  BY <1>2, RelocationStage
<1>4. Stage' = 1 /\ IsWrite'
  BY <1>2, <1>3 DEF Stage, IsWrite
<1>5. StillToDo' < StillToDo
  <2>1. StillToDo' = LastPurgePos - RelocatePos'
    BY <1>4 DEF StillToDo
  <2>2. RelocatePos \in Nat /\ LastPurgePos \in Nat /\ p \in Nat /\ p >= RelocatePos
    BY Sizes DEF LeftToRelocate, IInv, TypeOK, RelocationTypeOK
  <2> QED BY <1>1, <1>3, <2>1, <2>2
<1>6. ~Mixed'
  <2>1. (IInv /\ ~RelocationDone => ~Mixed)'
    BY CachedAreRelocated, PTL
  <2> QED BY <1>2, <1>3, <2>1
<1>7. Cached(req.block) => Cached(req.block)'
  <2>1. req.block \in Blocks /\ CacheTypeOK
    BY <1>2 DEF IInv, TypeOK, ThreadTypeOK
  <2>2. \A b \in Blocks : Cached(b) => Cached(b)'
    BY <1>1, <2>1, StaysCached
  <2>3. \A b \in Blocks : Cached(b) => \E i \in 1..Len(cache') : cache'[i].lba = b
    BY <2>2 DEF Cached, CachedAt
  <2> QED BY <1>2, <2>1, <2>3 DEF Cached, CachedAt
<1>8. ChunksToFill' = ChunksToFill
  BY <1>2 DEF ChunksToFill, Slack
<1> QED BY <1>2, <1>3, <1>4, <1>5, <1>6, <1>7, <1>8, WriteNearer

\* The next blocks are read: the first one to relocate is then in the window.
LEMMA ExecuteRelocateNearer ==
  ASSUME IInv, IInv', Phases, ExecuteRelocate
  PROVE  Below(Distance', Distance)
<1>1. PICK p \in LeftToRelocate :
        /\ First(p, LeftToRelocate) /\ ~InWindow(p)
        /\ RelocatePos' = p /\ WindowStart' = p
        /\ \E e \in Reached(p) : WindowEnd' = e + 1
  BY DEF ExecuteRelocate
<1>2. /\ UNCHANGED <<cache, req, Map, NextChunkNo, Used, PurgePos, failures, RelocationPrepared,
                     RelocationDone, NextLBA>>
      /\ step = "copy" /\ step' = "relocate"
  BY DEF ExecuteRelocate, logVars, cacheVars, bookVars
<1>3. /\ IsWrite /\ PurgePos # LastPurgePos /\ RelocationPrepared /\ ~RelocationDone
      /\ Stage = 1 /\ StillToDo = LastPurgePos - RelocatePos
  BY <1>2, RelocationStage
<1>4. Stage' = 1 /\ StillToDo' = LastPurgePos - RelocatePos'
  BY <1>2, <1>3 DEF Stage, StillToDo
<1>5. RelocatePos \in Nat /\ LastPurgePos \in Nat /\ p \in Nat /\ p >= RelocatePos /\ p < LastPurgePos
  BY Sizes DEF LeftToRelocate, IInv, TypeOK, RelocationTypeOK
<1>6. CASE p = RelocatePos
  <2>1. StillToDo' = StillToDo
    BY <1>1, <1>3, <1>4, <1>6
  <2>2. ~Windowed
    <3>1. ASSUME NEW q \in LeftToRelocate, First(q, LeftToRelocate) PROVE q = p
      <4>1. q \in Nat /\ q <= p /\ p <= q
        BY <1>1, <1>5, <3>1 DEF First, LeftToRelocate
      <4> QED BY <1>5, <4>1
    <3> QED BY <1>1, <3>1 DEF Windowed
  <2>3. Windowed'
    <3>1. \A q \in Positions : Live(q)' <=> Live(q)
      BY <1>2 DEF Live, IsLive
    <3>2. \A q \in RelocatePos..(LastPurgePos - 1) : q \in Positions
      BY <1>5 DEF Positions
    <3>3. LeftToRelocate' = LeftToRelocate
      BY <1>1, <1>6, <3>1, <3>2 DEF LeftToRelocate
    <3>4. InWindow(p)'
      <4>1. PICK e \in Reached(p) : WindowEnd' = e + 1
        BY <1>1
      <4>2. e \in Nat /\ e >= p
        BY <1>5 DEF Reached
      <4> QED BY <1>1, <1>5, <4>1, <4>2 DEF InWindow
    <3> QED BY <1>1, <3>3, <3>4 DEF Windowed, First, InWindow
  <2> QED BY <1>2, <1>3, <1>4, <2>1, <2>2, <2>3, SameBlocks, WriteNearer
<1>7. CASE p # RelocatePos
  <2>1. StillToDo' < StillToDo
    BY <1>1, <1>3, <1>4, <1>5, <1>7
  <2> QED BY <1>2, <1>3, <1>4, <2>1, SameBlocks, WriteNearer
<1> QED BY <1>6, <1>7

\* The stage of a write once the relocation is done.
LEMMA ReadyStage ==
  ASSUME IInv, MapInv, Ready \/ (step \in {"fill", "purge"} /\ IsWrite)
  PROVE  /\ PurgePos # LastPurgePos /\ RelocationPrepared /\ RelocationDone
         /\ Stage = 0 /\ StillToDo = 0
         /\ Turn = IF step = "purge" THEN 1 ELSE (IF CacheOpen THEN 4 ELSE 2) + One(step # "fill")
<1>1. PurgePos \in Nat /\ LastPurgePos \in Nat
  BY PurgePosition DEF IInv, TypeOK
<1>2. /\ PurgePos # LastPurgePos /\ RelocationPrepared /\ RelocationDone
      /\ step \in {"handler", "fill", "purge"}
  BY <1>1 DEF Ready, Writing, IInv, CachePhases, MapInv, Relocation, PacePhases
<1>3. Stage = 0
  BY <1>2 DEF Stage
<1> QED BY <1>2, <1>3 DEF StillToDo, Turn

\* A purge begins.
LEMMA WritePurgeNearer ==
  ASSUME IInv, IInv', MapInv, WritePurge
  PROVE  Below(Distance', Distance)
<1>1. /\ UNCHANGED <<cache, req, Map, NextChunkNo, Used, PurgePos, failures, RelocationPrepared,
                     RelocationDone, RelocatePos, WindowStart, WindowEnd, NextLBA>>
      /\ Ready /\ IsWrite /\ step = "handler" /\ step' = "purge" /\ ~CacheOpen
  BY DEF WritePurge, ExecutePurgeCache, Ready, Writing, cacheVars, relocVars, bookVars
<1>2. /\ PurgePos # LastPurgePos /\ RelocationPrepared /\ RelocationDone
      /\ Stage = 0 /\ StillToDo = 0 /\ Turn = 3
  BY <1>1, ReadyStage DEF One
<1>3. Stage' = 0
  BY <1>1, <1>2 DEF Stage
<1>4. StillToDo' = 0 /\ Turn' = 1
  BY <1>1, <1>3 DEF StillToDo, Turn
<1>5. Windowed' <=> Windowed
  BY <1>1 DEF Windowed, First, InWindow, LeftToRelocate, Live, IsLive
<1> QED BY <1>1, <1>2, <1>3, <1>4, <1>5, SameBlocks, WriteNearer

\* What filling in the rest of a block does to the cache.
LEMMA FillEffects ==
  ASSUME CacheTypeOK, NEW old, cache' = Filled(old), UNCHANGED req, req.block \in Blocks
  PROVE  /\ CacheOpen => /\ ~CacheOpen' /\ Len(cache') = Len(cache)
                         /\ \A i \in 1..Len(cache) : cache'[i].lba = cache[i].lba
         /\ ~CacheOpen => Cached(req.block)'
<1>1. Len(cache) \in Nat /\ \A i \in 1..Len(cache) : cache[i] \in CacheEntries
  BY LenProperties, ElementOfSeq DEF CacheTypeOK
<1>2. CASE CacheOpen
  <2>1. cache' = [cache EXCEPT ![Len(cache)].data = @ \cup Half("tail", old),
                               ![Len(cache)].open = FALSE]
    BY <1>2 DEF Filled
  <2>2. Len(cache) > 0
    BY <1>1, <1>2 DEF CacheOpen
  <2>3. Len(cache') = Len(cache)
    BY <2>1 DEF CacheTypeOK
  <2>4. \A i \in 1..Len(cache) : cache'[i].lba = cache[i].lba
    BY <1>1, <2>1 DEF CacheTypeOK, CacheEntries
  <2>5. ~cache'[Len(cache)].open
    BY <1>1, <2>1, <2>2 DEF CacheTypeOK, CacheEntries
  <2> QED BY <1>2, <2>3, <2>4, <2>5 DEF CacheOpen
<1>3. CASE ~CacheOpen
  <2>1. PICK e : cache' = Append(cache, e) /\ e.lba = req.block
    BY <1>3 DEF Filled
  <2>2. Len(cache') = Len(cache) + 1 /\ cache'[Len(cache) + 1] = e
    BY <2>1, <1>1 DEF CacheTypeOK
  <2>3. Len(cache) + 1 \in 1..Len(cache')
    BY <1>1, <2>2
  <2> QED BY <2>1, <2>2, <2>3, <1>3 DEF Cached, CachedAt
<1> QED BY <1>2, <1>3

\* A block is filled in, or the read of what it lacks begins.
LEMMA FillNearer ==
  ASSUME IInv, IInv', MapInv, IsWrite, Ready \/ step = "fill",
         ~CacheOpen => ~Cached(req.block),
         UNCHANGED <<req, Map, NextChunkNo, Used, PurgePos, failures, RelocationPrepared,
                     RelocationDone, RelocatePos, WindowStart, WindowEnd, NextLBA>>,
         \/ step = "handler" /\ step' = "fill" /\ UNCHANGED cache
         \/ step' = "handler" /\ \E old : cache' = Filled(old)
  PROVE  Below(Distance', Distance)
<1>1. /\ PurgePos # LastPurgePos /\ RelocationPrepared /\ RelocationDone
      /\ Stage = 0 /\ StillToDo = 0 /\ step \in {"handler", "fill"}
      /\ Turn = IF step = "purge" THEN 1 ELSE (IF CacheOpen THEN 4 ELSE 2) + One(step # "fill")
  BY ReadyStage DEF Ready, Writing
<1>2. Stage' = 0 /\ IsWrite'
  BY <1>1 DEF Stage, IsWrite
<1>3. StillToDo' = 0
        /\ Turn' = IF step' = "purge" THEN 1 ELSE (IF CacheOpen' THEN 4 ELSE 2) + One(step' # "fill")
  BY <1>2 DEF StillToDo, Turn
<1>4. Windowed' <=> Windowed
  BY DEF Windowed, First, InWindow, LeftToRelocate, Live, IsLive
<1>5. CASE step = "handler" /\ step' = "fill" /\ UNCHANGED cache
  <2>1. CacheOpen' <=> CacheOpen
    BY <1>5 DEF CacheOpen
  <2>2. Turn' < Turn
    BY <1>1, <1>3, <1>5, <2>1 DEF One
  <2> QED BY <1>1, <1>2, <1>3, <1>4, <1>5, <2>2, SameBlocks, WriteNearer
<1>6. ASSUME NEW old, step' = "handler", cache' = Filled(old) PROVE Below(Distance', Distance)
  <2>1. req.block \in Blocks /\ CacheTypeOK
    BY <1>1 DEF IInv, TypeOK, ThreadTypeOK
  <2>2. CASE CacheOpen
    <3>1. /\ ~CacheOpen' /\ Len(cache') = Len(cache)
          /\ \A i \in 1..Len(cache) : cache'[i].lba = cache[i].lba
      BY <1>6, <2>1, <2>2, FillEffects
    <3>2. (Cached(req.block)' <=> Cached(req.block)) /\ (Mixed' <=> Mixed)
      BY <3>1 DEF Cached, CachedAt, Mixed
    <3>3. Turn' < Turn
      BY <1>1, <1>3, <1>6, <2>2, <3>1 DEF One
    <3>4. ChunksToFill' = ChunksToFill
      BY DEF ChunksToFill, Slack
    <3> QED BY <1>1, <1>2, <1>3, <1>4, <3>2, <3>3, <3>4, WriteNearer
  <2>3. CASE ~CacheOpen
    <3>1. Cached(req.block)' /\ ~Cached(req.block)
      BY <1>6, <2>1, <2>3, FillEffects
    <3> QED BY <1>2, <3>1, WriteNearer
  <2> QED BY <2>2, <2>3
<1> QED BY <1>5, <1>6

\* The filling of a write.
LEMMA WriteFillNearer ==
  ASSUME IInv, IInv', MapInv, WriteFill \/ (CacheFillReadDone /\ IsWrite)
  PROVE  Below(Distance', Distance)
<1>1. /\ IsWrite
      /\ UNCHANGED <<req, Map, NextChunkNo, Used, PurgePos, failures, RelocationPrepared,
                     RelocationDone, RelocatePos, WindowStart, WindowEnd, NextLBA>>
  BY DEF WriteFill, CacheFillReadDone, CacheFill, Ready, Writing, logVars, relocVars, bookVars
<1>2. CASE WriteFill
  <2>1. /\ Ready /\ step = "handler" /\ (~CacheOpen => ~Cached(req.block))
        /\ \/ step' = "fill" /\ UNCHANGED cache
           \/ cache' = Filled({}) /\ UNCHANGED step
    BY <1>2 DEF WriteFill, CacheFill, Ready, Writing
  <2> QED BY <1>1, <2>1, FillNearer
<1>3. CASE CacheFillReadDone
  <2>1. step = "fill" /\ step' = "handler" /\ cache' = Filled(data[Map[FillBlock]])
    BY <1>3 DEF CacheFillReadDone
  <2>2. ~CacheOpen => ~Cached(req.block)
    BY <2>1 DEF IInv, CachePhases
  <2> QED BY <1>1, <2>1, <2>2, FillNearer
<1> QED BY <1>2, <1>3

\* A purge ends: what comes from the next chunk leaves it as fast as the room shrinks, so
\* that slack stays slack; a block of another chunk will not be in the cache again.
LEMMA PurgeNearer ==
  ASSUME IInv, IInv', Order, MapInv, Recorded, Phases, PurgeCacheDone, IsWrite
  PROVE  Below(Distance', Distance)
<1>1. /\ UNCHANGED <<req, NextChunkNo, failures>> /\ step = "purge"
      /\ cache' = <<>> /\ PurgePos' = PurgePos + CacheSize
  BY DEF PurgeCacheDone
<1>2. ~Cached(req.block) /\ Len(cache) >= LastCachePos
  BY <1>1 DEF Phases
<1>3. ~Mixed' /\ IsWrite'
  BY <1>1 DEF Mixed, IsWrite
<1>4. CASE Mixed
  BY <1>1, <1>2, <1>3, <1>4, WriteNearer
<1>5. CASE ~Mixed
  <2>1. Len(cache) \in Nat /\ Len(cache) = LastCachePos
    BY <1>2, <1>5, CachedAreCounted, Sizes DEF IInv, CacheConsistent
  <2>2. Used'[NextChunkNo] = Used[NextChunkNo] - LastCachePos
    BY <1>5, <2>1, CachedAreCounted, PurgeCacheDoneKeepsMap
  <2>3. /\ Used[NextChunkNo] \in Nat /\ Used'[NextChunkNo] \in Nat
        /\ PurgePos \in Nat /\ PurgePos' \in Nat /\ LastPurgePos \in Nat
        /\ CacheSize \in Nat /\ CacheSize > 0 /\ LastCachePos \in Nat
    BY <1>1, PurgePosition, Sizes, Geometry DEF IInv, TypeOK, LogTypeOK
  <2>4. Slack' <=> Slack
    <3>1. Used'[NextChunkNo] * CacheSize = Used[NextChunkNo] * CacheSize - LastCachePos * CacheSize
      BY <2>2, <2>3
    <3>2. (LastPurgePos - PurgePos') * LastCachePos
            = (LastPurgePos - PurgePos) * LastCachePos - LastCachePos * CacheSize
      BY <1>1, <2>3
    <3>3. /\ Used[NextChunkNo] * CacheSize \in Int /\ LastCachePos * CacheSize \in Int
          /\ (LastPurgePos - PurgePos) * LastCachePos \in Int
      BY <2>3
    <3>4. \A x, y, z \in Int : x - z < y - z <=> x < y
      OBVIOUS
    <3>5. Slack' <=> Used'[NextChunkNo] * CacheSize < (LastPurgePos - PurgePos') * LastCachePos
      BY <1>1 DEF Slack
    <3> QED BY <3>1, <3>2, <3>3, <3>4, <3>5 DEF Slack
  <2>5. ChunksToFill' = ChunksToFill
    BY <1>1, <2>4 DEF ChunksToFill
  <2>6. PurgePos' > PurgePos
    BY <1>1, <2>3
  <2> QED BY <1>1, <1>2, <1>3, <2>5, <2>6, WriteNearer
<1> QED BY <1>4, <1>5

-----------------------------------------------------------------------------
(* The steps of a flush, and what the readers do *)

\* The filling of a block for a flush.
LEMMA FlushFillNearer ==
  ASSUME IInv, IInv', Phases, ~IsWrite, FlushFill \/ CacheFillReadDone
  PROVE  Below(Distance', Distance)
<1>1. UNCHANGED <<req, failures, CacheDirty>> /\ ~IsWrite' /\ CacheOpen /\ step \in {"handler", "fill"}
  BY DEF FlushFill, CacheFillReadDone, CacheFill, Flushing, Phases, bookVars, IsWrite
<1>2. FlushStage = 5 + One(step # "fill")
  BY <1>1 DEF FlushStage
<1>3. CASE step = "handler" /\ step' = "fill" /\ UNCHANGED cache
  <2>1. FlushStage' = 5 + One(step' # "fill")
    BY <1>1, <1>3 DEF FlushStage, CacheOpen
  <2> QED BY <1>1, <1>2, <1>3, <2>1, FlushNearer DEF One
<1>4. ASSUME NEW old, cache' = Filled(old) PROVE Below(Distance', Distance)
  <2>1. ~CacheOpen'
    <3>1. req.block \in Blocks /\ CacheTypeOK
      BY <1>1 DEF IInv, TypeOK, ThreadTypeOK
    <3> QED BY <1>1, <1>4, <3>1, FillEffects
  <2>2. FlushStage' \in 0..4
    BY <2>1 DEF FlushStage
  <2>3. FlushStage \in 5..6
    BY <1>2 DEF One
  <2> QED BY <1>1, <2>2, <2>3, FlushNearer
<1> QED BY <1>3, <1>4 DEF FlushFill, CacheFillReadDone, CacheFill, Flushing

\* The other steps of a flush.
LEMMA FlushStepsNearer ==
  ASSUME IInv, IInv', MapInv, Phases, ~IsWrite,
         FlushPurge \/ FlushFinalize \/ PurgeCacheDone \/ PurgeChunkDone
  PROVE  Below(Distance', Distance)
<1>1. UNCHANGED <<req, failures>> /\ ~IsWrite'
  BY DEF FlushPurge, FlushFinalize, PurgeCacheDone, PurgeChunkDone, ExecutePurgeCache, ExecutePurgeChunk,
     bookVars, IsWrite
<1>2. CASE FlushPurge
  <2>1. /\ ~CacheOpen /\ CacheDirty /\ step = "handler"
        /\ step' = "purge" /\ UNCHANGED <<cache, CacheDirty>>
    BY <1>2 DEF FlushPurge, Flushing, ExecutePurgeCache, cacheVars
  <2>2. FlushStage = 4 /\ FlushStage' = 3
    BY <2>1 DEF FlushStage, CacheOpen
  <2> QED BY <1>1, <2>2, FlushNearer
<1>3. CASE FlushFinalize
  <2>1. /\ ~CacheOpen /\ ~CacheDirty /\ ~CacheDirty' /\ ToFinalize /\ step = "handler"
        /\ step' = "finalize"
        /\ cache' = [i \in 1..Len(cache) |-> [cache[i] EXCEPT !.data = Whole(Garbage)]]
    BY <1>3 DEF FlushFinalize, Flushing, ExecutePurgeChunk
  <2>2. ~CacheOpen'
    BY <2>1, ClosedStaysClosed DEF IInv
  <2>3. FlushStage = 2 /\ FlushStage' = 1
    BY <2>1, <2>2 DEF FlushStage
  <2> QED BY <1>1, <2>3, FlushNearer
<1>4. CASE PurgeCacheDone
  <2>1. step = "purge" /\ ~CacheOpen /\ step' = "handler" /\ cache' = <<>> /\ CacheDirty' = FALSE
    BY <1>4 DEF PurgeCacheDone, MapInv, Relocation, PacePhases
  <2>2. ~CacheOpen'
    BY <2>1 DEF CacheOpen
  <2>3. FlushStage = 3 /\ FlushStage' \in 0..2
    BY <2>1, <2>2 DEF FlushStage
  <2> QED BY <1>1, <2>3, FlushNearer
<1>5. CASE PurgeChunkDone
  <2>1. /\ step = "finalize" /\ ~CacheOpen /\ ~CacheDirty
        /\ step' = "handler" /\ FinalizedPos' = PurgePos /\ UNCHANGED <<cache, CacheDirty, PurgePos>>
    BY <1>5 DEF PurgeChunkDone, Phases, cacheVars
  <2>2. ~ToFinalize'
    <3>1. PurgePos \in Nat
      BY PurgePosition DEF IInv, TypeOK
    <3> QED BY <2>1, <3>1 DEF ToFinalize
  <2>3. FlushStage = 1 /\ FlushStage' = 0
    BY <2>1, <2>2 DEF FlushStage, CacheOpen
  <2> QED BY <1>1, <2>3, FlushNearer
<1> QED BY <1>2, <1>3, <1>4, <1>5

\* What the distance does not depend on; a marked reader counts only while the thread waits.
LEMMA SameDistance ==
  ASSUME UNCHANGED <<cache, CacheDirty, req, step, Map, NextChunkNo, Used, PurgePos, FinalizedPos,
                     failures, RelocationPrepared, RelocationDone, RelocatePos, WindowStart,
                     WindowEnd, NextLBA>>,
         step = "marked" => UNCHANGED marked
  PROVE  Distance' = Distance
<1>1. IsWrite' <=> IsWrite
  BY DEF IsWrite
<1>2. FlushStage' = FlushStage
  BY DEF FlushStage, CacheOpen, ToFinalize
<1>3. ChunksToFill' = ChunksToFill
  BY DEF ChunksToFill, Slack
<1>4. Stage' = Stage
  BY DEF Stage
<1>5. (Mixed' <=> Mixed) /\ (Cached(req.block)' <=> Cached(req.block))
  BY DEF Mixed, Cached, CachedAt
<1>6. Windowed' <=> Windowed
  BY DEF Windowed, First, InWindow, LeftToRelocate, Live, IsLive
<1>7. Turn' = Turn
  BY <1>4 DEF Turn, CacheOpen
<1>8. StillToDo' = StillToDo
  <2>1. Stage = 2 => step = "marked"
    BY DEF Stage
  <2> QED BY <1>4, <2>1 DEF StillToDo
<1>9. One(~Cached(req.block))' = One(~Cached(req.block)) /\ One(Mixed)' = One(Mixed)
      /\ One(~Windowed)' = One(~Windowed)
  BY <1>5, <1>6 DEF One
<1> QED BY <1>1, <1>2, <1>3, <1>4, <1>7, <1>8, <1>9 DEF Distance

\* A read that ends brings the thread nearer to the end of a write, or changes nothing for it.
LEMMA ReadNearer ==
  ASSUME IInv, IInv', Phases, NEW r \in Readers, FinishRead(r)
  PROVE  Distance' = Distance \/ Below(Distance', Distance)
<1>1. /\ UNCHANGED <<cache, CacheDirty, req, Map, NextChunkNo, Used, PurgePos, FinalizedPos, failures,
                     RelocationPrepared, RelocationDone, RelocatePos, WindowStart, WindowEnd, NextLBA>>
      /\ marked' = marked \ {r}
      /\ step' = IF step = "marked" /\ marked' = {} THEN "handler" ELSE step
  BY DEF FinishRead, logVars, cacheVars, relocVars, bookVars
<1>2. CASE step # "marked" \/ (step' = step /\ r \notin marked)
  BY <1>1, <1>2, SameDistance
<1>3. CASE step = "marked" /\ (step' # step \/ r \in marked)
  <2>1. /\ IsWrite /\ IsWrite' /\ PurgePos \in Nat /\ PurgePos # LastPurgePos /\ RelocationPrepared
    BY <1>1, <1>3, PurgePosition DEF Phases, IInv, TypeOK, IsWrite
  <2>2. Stage = 2
    BY <1>3, <2>1 DEF Stage
  <2>3. CASE step' # step
    <3>1. Stage' \in 0..1
      BY <1>1, <1>3, <2>1, <2>3 DEF Stage
    <3> QED BY <1>1, <2>1, <2>2, <3>1, StageNearer
  <2>4. CASE step' = step /\ r \in marked
    <3>1. Stage' = 2
      BY <1>1, <1>3, <2>1, <2>4 DEF Stage
    <3>2. Cardinality(marked') = Cardinality(marked) - 1 /\ Cardinality(marked) \in Nat
      <4>1. IsFiniteSet(marked)
        BY SomeReaders, FS_Subset DEF IInv, TypeOK, ThreadTypeOK
      <4> QED BY <1>1, <2>4, <4>1, FS_RemoveElement, FS_CardinalityType
    <3>3. StillToDo' < StillToDo
      BY <2>2, <3>1, <3>2 DEF StillToDo
    <3> QED BY <1>1, <2>1, <2>2, <3>1, <3>3, SameBlocks, WriteNearer
  <2> QED BY <1>3, <2>3, <2>4
<1> QED BY <1>2, <1>3

-----------------------------------------------------------------------------
(* All steps *)

\* Every step of the thread that does not end the request comes nearer to its end.
LEMMA ServeNearer ==
  ASSUME Capacity, IInv, IInv', Order, MapInv, Recorded, Phases, Serve, step' # "idle"
  PROVE  Below(Distance', Distance)
<1>1. ~(WriteAbort \/ WriteHit \/ WriteAppend \/ FlushDone)
  BY DEF WriteAbort, WriteHit, WriteAppend, FlushDone
<1>2. CASE PrepareRelocate \/ PrepareRelocateDone \/ RelocateEnd
  <2>1. IsWrite
    BY <1>2 DEF PrepareRelocate, PrepareRelocateDone, RelocateEnd, Writing, Phases
  <2> QED BY <1>2, <2>1, StagesCome
<1>3. CASE PurgeChunkDone
  BY <1>3, StagesCome, FlushStepsNearer
<1>4. CASE PurgeCacheDone
  BY <1>4, PurgeNearer, FlushStepsNearer
<1>5. CASE CacheFillReadDone
  BY <1>5, WriteFillNearer, FlushFillNearer
<1>6. CASE WriteFill
  BY <1>6, WriteFillNearer
<1>7. CASE FlushFill \/ FlushPurge \/ FlushFinalize
  <2>1. ~IsWrite
    BY <1>7 DEF FlushFill, FlushPurge, FlushFinalize, Flushing, IsWrite
  <2> QED BY <1>7, <2>1, FlushFillNearer, FlushStepsNearer
<1>8. CASE IoFails
  BY <1>8, FailureNearer DEF IoFails
<1>9. CASE CloseChunk \/ SwitchChunk
  BY <1>9, CloseChunkNearer, SwitchChunkNearer
<1>10. CASE RelocateQuota \/ RelocateRead \/ RelocateCopy \/ ExecuteRelocate
  BY <1>10, RelocationTurns, RelocateCopyNearer, ExecuteRelocateNearer
<1>11. CASE WritePurge
  BY <1>11, WritePurgeNearer
<1> QED BY <1>1, <1>2, <1>3, <1>4, <1>5, <1>6, <1>7, <1>8, <1>9, <1>10, <1>11 DEF Serve

\* And no step of the others takes it farther away.
LEMMA OthersNearer ==
  ASSUME IInv, IInv', Phases, [Next]_vars, ~Serve, step # "idle", step' # "idle"
  PROVE  Distance' = Distance \/ Below(Distance', Distance)
<1>1. ~(\/ (\E k \in Kinds, b \in Blocks : DispatchWrite(k, b)) \/ (\E k \in Kinds : DispatchFlush(k))
        \/ Crash \/ Reinitialize)
  BY DEF DispatchWrite, DispatchFlush, Crash, Reinitialize, LoseMemory
<1>2. ~(Recover \/ RecoveryFails)
  BY DEF Recover, ScanChunk, RecoverPosition, ReplayPurge, FinishRecovery, RecoveryFails, IInv, CachePhases
<1>3. CASE (\E r \in Readers, b \in Blocks : StartRead(r, b)) \/ UNCHANGED vars
  <2>1. UNCHANGED <<cache, CacheDirty, req, step, Map, NextChunkNo, Used, PurgePos, FinalizedPos,
                    failures, RelocationPrepared, RelocationDone, RelocatePos, WindowStart,
                    WindowEnd, NextLBA, marked>>
    BY <1>3 DEF StartRead, vars, logVars, cacheVars, relocVars, readVars, bookVars
  <2> QED BY <2>1, SameDistance
<1>4. ASSUME NEW r \in Readers, FinishRead(r)
      PROVE  Distance' = Distance \/ Below(Distance', Distance)
  BY <1>4, ReadNearer
<1> QED BY <1>1, <1>2, <1>3, <1>4 DEF Next

\* The readers that the thread waits for are at work: the last of them wakes it.
THEOREM WaitsEnd == Spec => []WaitsForReaders
<1>1. Init => WaitsForReaders
  BY DEF Init, WaitsForReaders
<1>2. TypeOK /\ WaitsForReaders /\ [Next]_vars => WaitsForReaders'
  BY WaitsKept
<1> QED BY <1>1, <1>2, TypeCorrect, PTL DEF Spec

\* The phases are an invariant.
LEMMA PhasesHold == ~TornFirstChunk /\ Capacity /\ Spec => []Phases
<1>1. Init => Phases
  BY DEF Init, Phases
<1>2. IInv /\ MapInv /\ Phases /\ [Next]_vars => Phases'
  BY PhasesKept
<1> QED BY <1>1, <1>2, MapKept, PTL DEF Spec

\* Why every request of the thread ends: each step at it lowers the distance, of which there
\* is no endless descent, and the thread waits only for completions and for readers that are
\* at work.  In particular closing and switching chunks, relocating and purging never go round
\* in a circle (ExecuteWriteHandler and ExecuteFlushHandler, vscsi.c:530-738).
THEOREM StepsNearer == ~TornFirstChunk /\ Capacity /\ Spec => StepsComeNearer
<1> SUFFICES ASSUME ~TornFirstChunk, Capacity
             PROVE  Spec => StepsComeNearer
  OBVIOUS
<1> DEFINE Comes == /\ Serve => Below(Distance', Distance)
                    /\ Distance' = Distance \/ Below(Distance', Distance)
<1>1. IInv /\ IInv' /\ Order /\ MapInv /\ Recorded /\ Phases /\ [Next]_vars
        => [step # "idle" /\ step' # "idle" => Comes]_vars
  BY ServeNearer, OthersNearer
<1> HIDE DEF Comes
<1>2. Spec => [][step # "idle" /\ step' # "idle" => Comes]_vars
  BY <1>1, MapKept, PhasesHold, PTL DEF Spec
<1> QED BY <1>2 DEF StepsComeNearer, Comes
=============================================================================
