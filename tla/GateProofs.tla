----------------------------- MODULE GateProofs -----------------------------
(***************************************************************************)
(* The gate keeps its counters, its free list, its queues, its timer and   *)
(* its marks in order; without removal the timer is accounted for and runs *)
(* when it should, and with one TEST UNIT READY at a time a recovery and a *)
(* format keep their mode to their end.  Proofs for every number of read   *)
(* threads, requests, checks and TEST UNIT READYs.                         *)
(***************************************************************************)
EXTENDS Gate, FiniteSetTheorems, SequenceTheorems, TLAPS

-----------------------------------------------------------------------------
(* The inductive invariant, by the parts of the context *)

ReadTypes ==
  /\ ReadPending \in Nat /\ ReadActive \in 0..READ_THREADS
  /\ ReadFreeList \in 0..READ_THREADS /\ FreeLink \in [Threads -> 0..READ_THREADS \cup {Busy}]
  /\ ReadIrpQueue \in Seq(Irps)
  /\ readPc \in [Threads -> {"free", "run", "done"}] /\ readIrp \in [Threads -> Irps \cup {NoIrp}]

OtherTypes ==
  /\ OtherPending \in Nat /\ OtherActive \in 0..1 /\ OtherIrpQueue \in Seq(Irps)
  /\ otherPc \in {"idle", "run", "io", "purge", "close", "prepare", "wait", "pass", "done"}
  /\ otherIrp \in Irps \cup {NoIrp} /\ otherKind \in Kinds /\ work \in 0..MaxWork

MarkTypes == Marked \subseteq Threads /\ WaitingMarkedThreads \in BOOLEAN

FlushTypes ==
  /\ CacheDirty \in BOOLEAN /\ FlushPending \in BOOLEAN
  /\ TimerActive \in BOOLEAN /\ CacheTimeout \in BOOLEAN
  /\ timer \in {"off", "set", "fired"}

LifeTypes ==
  /\ mode \in {"DIRECT", "INITIAL", "ACTIVE", "RECOVERY", "FORMAT", "COMPLETED", "ERROR"}
  /\ ctx \in BOOLEAN /\ cleaners \in 0..MaxCleaners
  /\ tur \in [Turs -> {"none", "failed", "free", "ends", "freeLast"}]
  /\ TURErrors \in 0..(MaxTURErrors + 1)
  /\ check \in [Checkers -> {"none", "capacity", "sector", "install", "direct"}]
  /\ LevelingCapable \in BOOLEAN
  /\ worker \in {"none", "queued", "running", "stale"}
  /\ formatting \in {"none", "reading", "writing"}
  /\ removal \in {"none", "called", "waiting", "done"}
  /\ failures \in 0..MaxFailures

\* The read threads: what they do agrees with the counters, and no read is open twice.
ReadCounts ==
  /\ ReadActive = Cardinality(BusyReaders)
  /\ ReadPending = ReadActive + Len(ReadIrpQueue)

Distinct(q) == \A i, j \in 1..Len(q) : q[i] = q[j] => i = j

ReadsOnce ==
  /\ \A t \in Threads : readIrp[t] # NoIrp => readPc[t] = "run"
  /\ \A t, u \in Threads : readIrp[t] = readIrp[u] /\ readIrp[t] # NoIrp => t = u
  /\ Distinct(ReadIrpQueue)
  /\ \A t \in Threads : readIrp[t] \notin InQueue(ReadIrpQueue)

ReadSide == ReadTypes /\ ReadCounts /\ FreeListExact /\ ReadsOnce

\* The other thread.
OtherSide ==
  /\ OtherTypes
  /\ OtherActive = IF otherPc = "idle" THEN 0 ELSE 1
  /\ OtherPending = OtherActive + Len(OtherIrpQueue)
  /\ otherPc \in {"idle", "done"} => otherIrp = NoIrp

MarkSide == MarkTypes /\ WaitIsJustified

\* The timer; a removal that waits may have called it off for nothing.
FlushSide ==
  /\ FlushTypes
  /\ timer # "off" \/ FlushPending => TimerActive
  /\ timer = "off" \/ ~FlushPending
  /\ FlushPending => otherPc # "idle"
  /\ TimerActive => timer # "off" \/ FlushPending \/ removal = "waiting"

\* A context that does not exist, or is being recovered, is as good as new.
Unused ==
  ~ctx \/ mode = "RECOVERY" =>
    ReadPending = 0 /\ OtherPending = 0 /\ ~CacheDirty /\ ~TimerActive

LifeSide == LifeTypes /\ Unused /\ (mode \in {"ACTIVE", "RECOVERY"} => ctx)

Inv == /\ ReadSide /\ OtherSide /\ MarkSide /\ FlushSide /\ LifeSide /\ NobodyForgotten

\* Which variables each part is about.
readSide  == <<ReadPending, ReadActive, readVars, ReadIrpQueue>>
otherSide == <<OtherPending, OtherActive, OtherIrpQueue, otherVars>>
markSide  == <<markVars, otherPc, readPc>>
flushSide == <<flushVars, otherPc, removal>>
queueSide == <<ctx, mode, queueVars, ReadActive, OtherActive, cleaners>>

\* The list that starts at first goes through the threads not in busy.
ListOk(free, first, link, busy) ==
  /\ \E chain \in [0..free -> 0..READ_THREADS] :
       /\ chain[0] = first /\ chain[free] = READ_THREADS
       /\ \A n \in 0..(free - 1) : /\ chain[n] \in Threads \ busy
                                  /\ link[chain[n]] = chain[n + 1]
                                  /\ \A m \in 0..(n - 1) : chain[m] # chain[n]
       /\ \A t \in Threads \ busy : \E n \in 0..(free - 1) : chain[n] = t
  /\ \A t \in busy : link[t] = Busy

\* What makes a sequence of threads an exact list of a set.
LEMMA ListIntro ==
  ASSUME NEW free, NEW first, NEW link, NEW busy, NEW chain \in [0..free -> 0..READ_THREADS],
         chain[0] = first, chain[free] = READ_THREADS,
         \A n \in 0..(free - 1) : /\ chain[n] \in Threads \ busy
                                  /\ link[chain[n]] = chain[n + 1]
                                  /\ \A m \in 0..(n - 1) : chain[m] # chain[n],
         \A t \in Threads \ busy : \E n \in 0..(free - 1) : chain[n] = t,
         \A t \in busy : link[t] = Busy
  PROVE  ListOk(free, first, link, busy)
  BY DEF ListOk

\* And what an exact list gives.
LEMMA ListExact ==
  /\ FreeListExact <=> ListOk(READ_THREADS - ReadActive, ReadFreeList, FreeLink, BusyReaders)
  /\ FreeListExact' <=>
       ListOk(READ_THREADS - ReadActive', ReadFreeList', FreeLink', BusyReaders')
  BY DEF FreeListExact, ListOk

-----------------------------------------------------------------------------
(* Each part is kept by a step that does not touch it *)

\* The read side is kept by a step that leaves its variables alone.
LEMMA ReadKept == ASSUME ReadSide, UNCHANGED readSide PROVE ReadSide'
<1> USE DEF readSide, readVars, BusyReaders
<1>1. ReadTypes' /\ ReadCounts'
  BY DEF ReadSide, ReadTypes, ReadCounts
<1>2. FreeListExact'
  BY ListExact DEF ReadSide
<1>3. ReadsOnce'
  BY DEF ReadSide, ReadsOnce, InQueue
<1> QED BY <1>1, <1>2, <1>3 DEF ReadSide

\* So is the other side,
LEMMA OtherKept == ASSUME OtherSide, UNCHANGED otherSide PROVE OtherSide'
  BY DEF OtherSide, OtherTypes, otherSide, otherVars

\* the marks of the timer and the flush,
LEMMA MarkKept == ASSUME MarkSide, UNCHANGED markSide PROVE MarkSide'
  BY DEF MarkSide, MarkTypes, WaitIsJustified, BusyReaders, markSide, markVars

\* the state of the flush,
LEMMA FlushKept == ASSUME FlushSide, UNCHANGED flushSide PROVE FlushSide'
  BY DEF FlushSide, FlushTypes, flushSide, flushVars

\* and the queues.
LEMMA QueuesKept == ASSUME NobodyForgotten, UNCHANGED queueSide PROVE NobodyForgotten'
  BY DEF NobodyForgotten, queueSide, queueVars

-----------------------------------------------------------------------------
(* The busy read threads and their number *)

\* There are READ_REQ_MAX threads.
LEMMA ThreadsFinite == IsFiniteSet(Threads) /\ Cardinality(Threads) = READ_THREADS
  BY Parameters, FS_Interval DEF Threads

\* Those at work are no more than these.
LEMMA BusyFinite ==
  /\ IsFiniteSet(BusyReaders) /\ Cardinality(BusyReaders) \in Nat
  /\ Cardinality(BusyReaders) = 0 <=> BusyReaders = {}
<1>1. BusyReaders \in SUBSET Threads
  BY DEF BusyReaders
<1>2. IsFiniteSet(BusyReaders)
  BY <1>1, ThreadsFinite, FS_Subset
<1> QED BY <1>2, FS_CardinalityType, FS_EmptySet

\* A thread is given out.
LEMMA OneMoreBusy ==
  ASSUME NEW t \in Threads \ BusyReaders, BusyReaders' = BusyReaders \cup {t}
  PROVE  Cardinality(BusyReaders') = Cardinality(BusyReaders) + 1
  BY BusyFinite, FS_AddElement

\* A thread is taken back.
LEMMA OneLessBusy ==
  ASSUME NEW t \in BusyReaders, BusyReaders' = BusyReaders \ {t}
  PROVE  /\ Cardinality(BusyReaders') = Cardinality(BusyReaders) - 1
         /\ Cardinality(BusyReaders) > 0
<1>1. Cardinality(BusyReaders') = Cardinality(BusyReaders) - 1
  BY BusyFinite, FS_RemoveElement
<1>2. BusyReaders # {}
  OBVIOUS
<1> QED BY <1>1, <1>2, BusyFinite

-----------------------------------------------------------------------------
(* The free list *)

\* The first thread of the list is taken off (vgate.c:195-203).
LEMMA ListTakes ==
  ASSUME NEW free \in Nat, free > 0, NEW first, NEW busy \in SUBSET Threads,
         NEW link \in [Threads -> 0..READ_THREADS \cup {Busy}], ListOk(free, first, link, busy)
  PROVE  /\ first \in Threads \ busy /\ link[first] \in 0..READ_THREADS
         /\ ListOk(free - 1, link[first], [link EXCEPT ![first] = Busy], busy \cup {first})
<1> DEFINE link1 == [link EXCEPT ![first] = Busy]
           busy1 == busy \cup {first}
<1> USE Parameters
<1>1. PICK chain \in [0..free -> 0..READ_THREADS] :
        /\ chain[0] = first /\ chain[free] = READ_THREADS
        /\ \A n \in 0..(free - 1) : /\ chain[n] \in Threads \ busy
                                   /\ link[chain[n]] = chain[n + 1]
                                   /\ \A m \in 0..(n - 1) : chain[m] # chain[n]
        /\ \A t \in Threads \ busy : \E n \in 0..(free - 1) : chain[n] = t
  BY DEF ListOk
<1>3. 0 \in 0..(free - 1) /\ 1 \in 0..free /\ free - 1 \in Nat
  OBVIOUS
<1>4. first \in Threads \ busy /\ link[first] = chain[1]
  BY <1>1, <1>3
<1> DEFINE rest == [n \in 0..(free - 1) |-> chain[n + 1]]
<1>5. \A n \in 0..(free - 1) : n + 1 \in 0..free
  OBVIOUS
<1>6. rest \in [0..(free - 1) -> 0..READ_THREADS]
  BY <1>5
<1>7. rest[0] = link[first] /\ rest[free - 1] = READ_THREADS
  <2>1. 0 + 1 = 1 /\ (free - 1) + 1 = free /\ free - 1 \in 0..(free - 1)
    OBVIOUS
  <2> QED BY <2>1, <1>1, <1>3, <1>4
<1>8. ASSUME NEW n \in 0..((free - 1) - 1)
      PROVE  /\ rest[n] \in Threads \ busy1
             /\ link1[rest[n]] = rest[n + 1]
             /\ \A m \in 0..(n - 1) : rest[m] # rest[n]
  <2>1. n + 1 \in 0..(free - 1) /\ n \in 0..(free - 1) /\ 0 \in 0..((n + 1) - 1)
    OBVIOUS
  <2>2. /\ chain[n + 1] \in Threads \ busy
        /\ link[chain[n + 1]] = chain[(n + 1) + 1]
        /\ chain[0] # chain[n + 1]
    BY <2>1, <1>1
  <2>3. rest[n] = chain[n + 1] /\ rest[n + 1] = chain[(n + 1) + 1]
    BY <2>1
  <2>4. link1[chain[n + 1]] = link[chain[n + 1]]
    BY <2>2, <1>1
  <2>5. ASSUME NEW m \in 0..(n - 1)
        PROVE  rest[m] # rest[n]
    <3>1. m + 1 \in 0..((n + 1) - 1) /\ m \in 0..(free - 1)
      OBVIOUS
    <3> QED BY <3>1, <2>1, <2>3, <1>1
  <2> QED BY <2>2, <2>3, <2>4, <2>5, <1>1
<1>9. ASSUME NEW t \in Threads \ busy1
      PROVE  \E n \in 0..((free - 1) - 1) : rest[n] = t
  <2>1. PICK n \in 0..(free - 1) : chain[n] = t
    BY <1>1
  <2>2. n # 0
    BY <2>1, <1>1
  <2>3. n - 1 \in 0..((free - 1) - 1) /\ n - 1 \in 0..(free - 1) /\ (n - 1) + 1 = n
    BY <2>2
  <2>4. rest[n - 1] = t
    BY <2>1, <2>3
  <2> QED BY <2>3, <2>4
<1>10. \A t \in busy1 : link1[t] = Busy
  BY <1>4 DEF ListOk
<1>11. first \in Threads \ busy /\ link[first] \in 0..READ_THREADS
  BY <1>3, <1>4
<1> HIDE DEF rest, link1, busy1
<1>12. ListOk(free - 1, link[first], link1, busy1)
  BY <1>6, <1>7, <1>8, <1>9, <1>10, ListIntro
<1> QED BY <1>11, <1>12 DEF link1, busy1

\* A thread is put back at the head of the list (vgate.c:336-341).
LEMMA ListPuts ==
  ASSUME NEW free \in Nat, NEW first, NEW busy \in SUBSET Threads, NEW t \in busy,
         NEW link \in [Threads -> 0..READ_THREADS \cup {Busy}], ListOk(free, first, link, busy)
  PROVE  /\ first \in 0..READ_THREADS
         /\ ListOk(free + 1, t, [link EXCEPT ![t] = first], busy \ {t})
<1> DEFINE link1 == [link EXCEPT ![t] = first]
           busy1 == busy \ {t}
<1> USE Parameters
<1>1. PICK chain \in [0..free -> 0..READ_THREADS] :
        /\ chain[0] = first /\ chain[free] = READ_THREADS
        /\ \A n \in 0..(free - 1) : /\ chain[n] \in Threads \ busy
                                   /\ link[chain[n]] = chain[n + 1]
                                   /\ \A m \in 0..(n - 1) : chain[m] # chain[n]
        /\ \A u \in Threads \ busy : \E n \in 0..(free - 1) : chain[n] = u
  BY DEF ListOk
<1> DEFINE more == [n \in 0..(free + 1) |-> IF n = 0 THEN t ELSE chain[n - 1]]
<1>2. \A n \in 1..(free + 1) : n - 1 \in 0..free
  OBVIOUS
<1>3. t \in 0..READ_THREADS
  BY DEF Threads
<1>4. more \in [0..(free + 1) -> 0..READ_THREADS]
  BY <1>2, <1>3
<1>5. more[0] = t /\ more[free + 1] = READ_THREADS
  BY <1>1
<1>6. ASSUME NEW n \in 0..((free + 1) - 1)
      PROVE  /\ more[n] \in Threads \ busy1
             /\ link1[more[n]] = more[n + 1]
             /\ \A m \in 0..(n - 1) : more[m] # more[n]
  <2>0. more[n + 1] = chain[n]
    OBVIOUS
  <2>1. CASE n = 0
    <3>1. more[n] = t /\ link1[t] = first /\ 0..(n - 1) = {}
      BY <2>1
    <3> QED BY <3>1, <2>0, <2>1, <1>1
  <2>2. CASE n # 0
    <3>1. n - 1 \in 0..(free - 1) /\ (n - 1) + 1 = n
      BY <2>2
    <3>2. more[n] = chain[n - 1]
      BY <2>2
    <3>3. chain[n - 1] \in Threads \ busy /\ link[chain[n - 1]] = chain[n]
      BY <3>1, <1>1
    <3>4. link1[chain[n - 1]] = chain[n]
      BY <3>3
    <3>5. ASSUME NEW m \in 0..(n - 1)
          PROVE  more[m] # more[n]
      <4>1. CASE m = 0
        BY <4>1, <3>2, <3>3
      <4>2. CASE m # 0
        <5>1. m - 1 \in 0..((n - 1) - 1) /\ more[m] = chain[m - 1]
          BY <4>2
        <5> QED BY <5>1, <3>1, <3>2, <1>1
      <4> QED BY <4>1, <4>2
    <3> QED BY <2>0, <3>2, <3>3, <3>4, <3>5
  <2> QED BY <2>1, <2>2
<1>7. ASSUME NEW u \in Threads \ busy1
      PROVE  \E n \in 0..((free + 1) - 1) : more[n] = u
  <2>1. CASE u = t
    <3>1. 0 \in 0..((free + 1) - 1)
      OBVIOUS
    <3> QED BY <2>1, <3>1, <1>5
  <2>2. CASE u # t
    <3>1. PICK n \in 0..(free - 1) : chain[n] = u
      BY <2>2, <1>1
    <3>2. n + 1 \in 0..((free + 1) - 1) /\ more[n + 1] = chain[n]
      OBVIOUS
    <3> QED BY <3>1, <3>2
  <2> QED BY <2>1, <2>2
<1>8. \A u \in busy1 : link1[u] = Busy
  BY DEF ListOk
<1>9. first \in 0..READ_THREADS
  BY <1>1
<1> HIDE DEF more, link1, busy1
<1>10. ListOk(free + 1, t, link1, busy1)
  BY <1>4, <1>5, <1>6, <1>7, <1>8, ListIntro
<1> QED BY <1>9, <1>10 DEF link1, busy1

\* The list of a new context (vgate.c:71-77).
LEMMA ListFresh == ListOk(READ_THREADS, 0, FreshLinks, {})
<1> USE Parameters DEF Threads
<1> DEFINE chain == [n \in 0..READ_THREADS |-> n]
<1>1. chain \in [0..READ_THREADS -> 0..READ_THREADS]
  OBVIOUS
<1>2. chain[0] = 0 /\ chain[READ_THREADS] = READ_THREADS
  OBVIOUS
<1>3. ASSUME NEW n \in 0..(READ_THREADS - 1)
      PROVE  /\ chain[n] \in Threads \ {} /\ FreshLinks[chain[n]] = chain[n + 1]
             /\ \A m \in 0..(n - 1) : chain[m] # chain[n]
  BY DEF FreshLinks
<1>4. \A t \in Threads \ {} : \E n \in 0..(READ_THREADS - 1) : chain[n] = t
  OBVIOUS
<1> HIDE DEF chain
<1> QED BY <1>1, <1>2, <1>3, <1>4, ListIntro

-----------------------------------------------------------------------------
(* Queues *)

\* A request put at the end of a queue is in it.
LEMMA QueueGrows ==
  ASSUME NEW q \in Seq(Irps), NEW i \in Irps
  PROVE  /\ Append(q, i) \in Seq(Irps) /\ Len(Append(q, i)) = Len(q) + 1
         /\ InQueue(Append(q, i)) = InQueue(q) \cup {i}
         /\ Distinct(q) /\ i \notin InQueue(q) => Distinct(Append(q, i))
<1> DEFINE r == Append(q, i)
<1>1. /\ r \in Seq(Irps) /\ Len(r) = Len(q) + 1 /\ Len(q) \in Nat
      /\ r[Len(q) + 1] = i /\ \A n \in 1..Len(q) : r[n] = q[n]
  OBVIOUS
<1> HIDE DEF r
<1>2. InQueue(r) = InQueue(q) \cup {i}
  <2>1. \A n \in 1..Len(r) : n \in 1..Len(q) \/ n = Len(q) + 1
    BY <1>1
  <2>2. \A n \in 1..Len(q) : n \in 1..Len(r)
    BY <1>1
  <2>3. Len(q) + 1 \in 1..Len(r)
    BY <1>1
  <2> QED BY <1>1, <2>1, <2>2, <2>3 DEF InQueue
<1>3. ASSUME Distinct(q), i \notin InQueue(q) PROVE Distinct(r)
  BY <1>1, <1>3 DEF Distinct, InQueue
<1> QED BY <1>1, <1>2, <1>3 DEF r

\* A request taken from the head of a queue is the only one to leave it.
LEMMA QueueShrinks ==
  ASSUME NEW q \in Seq(Irps), q # <<>>
  PROVE  /\ Head(q) \in Irps /\ Tail(q) \in Seq(Irps)
         /\ Len(q) \in Nat /\ Len(q) > 0 /\ Len(Tail(q)) = Len(q) - 1
         /\ InQueue(q) = {Head(q)} \cup InQueue(Tail(q))
         /\ Distinct(q) => Distinct(Tail(q)) /\ Head(q) \notin InQueue(Tail(q))
<1> DEFINE r == Tail(q)
<1>1. /\ Head(q) \in Irps /\ r \in Seq(Irps) /\ Len(q) \in Nat /\ Len(q) > 0
      /\ Len(r) = Len(q) - 1 /\ Head(q) = q[1]
      /\ \A n \in 1..Len(r) : r[n] = q[n + 1]
  BY HeadTailProperties, EmptySeq
<1> HIDE DEF r
<1>2. \A n \in 1..Len(r) : n + 1 \in 1..Len(q)
  BY <1>1
<1>3. \A n \in 1..Len(q) : n = 1 \/ (n - 1 \in 1..Len(r) /\ (n - 1) + 1 = n)
  BY <1>1
<1>4. InQueue(q) = {Head(q)} \cup InQueue(r)
  <2>1. \A n \in 1..Len(q) : n = 1 \/ r[n - 1] = q[n]
    BY <1>1, <1>3
  <2>2. 1 \in 1..Len(q)
    BY <1>1
  <2>3. InQueue(q) \subseteq {Head(q)} \cup InQueue(r)
    BY <1>1, <1>3, <2>1 DEF InQueue
  <2>4. InQueue(r) \subseteq InQueue(q)
    BY <1>1, <1>2 DEF InQueue
  <2>5. Head(q) \in InQueue(q)
    BY <1>1, <2>2 DEF InQueue
  <2> QED BY <2>3, <2>4, <2>5
<1>5. ASSUME Distinct(q) PROVE Distinct(r) /\ Head(q) \notin InQueue(r)
  <2>1. ASSUME NEW m \in 1..Len(r), NEW n \in 1..Len(r), r[m] = r[n] PROVE m = n
    BY <2>1, <1>1, <1>2, <1>5 DEF Distinct
  <2>2. ASSUME NEW n \in 1..Len(r) PROVE r[n] # Head(q)
    BY <1>1, <1>2, <1>5 DEF Distinct
  <2> QED BY <2>1, <2>2 DEF Distinct, InQueue
<1> QED BY <1>1, <1>4, <1>5, Zenon DEF r

-----------------------------------------------------------------------------
(* The steps of the read threads *)

\* LevelingDispatch of a read: to a free thread, or to the queue.
LEMMA DispatchReadReads ==
  ASSUME ReadSide, NEW i \in Irps, DispatchRead(i)
  PROVE  ReadSide'
<1> USE Parameters
<1>1. /\ ReadTypes /\ ReadCounts /\ FreeListExact /\ ReadsOnce
      /\ i # NoIrp /\ i \notin InQueue(ReadIrpQueue) /\ \A t \in Threads : readIrp[t] # i
      /\ Len(ReadIrpQueue) \in Nat /\ ReadPending' = ReadPending + 1
  BY DEF ReadSide, DispatchRead, Admits, OpenReads, ReadTypes
<1>2. CASE /\ ReadActive < READ_THREADS
           /\ ReadFreeList' = FreeLink[ReadFreeList]
           /\ FreeLink' = [FreeLink EXCEPT ![ReadFreeList] = Busy]
           /\ ReadActive' = ReadActive + 1
           /\ StartRead(ReadFreeList, i)
           /\ UNCHANGED ReadIrpQueue
  <2> DEFINE f == ReadFreeList
  <2>1. BusyReaders \in SUBSET Threads
    BY DEF BusyReaders
  <2>2. /\ f \in Threads \ BusyReaders /\ FreeLink[f] \in 0..READ_THREADS
        /\ ListOk((READ_THREADS - ReadActive) - 1, FreeLink[f], [FreeLink EXCEPT ![f] = Busy],
                  BusyReaders \cup {f})
    <3>1. /\ READ_THREADS - ReadActive \in Nat /\ READ_THREADS - ReadActive > 0
          /\ FreeLink \in [Threads -> 0..READ_THREADS \cup {Busy}]
      BY <1>1, <1>2 DEF ReadTypes
    <3>2. ListOk(READ_THREADS - ReadActive, ReadFreeList, FreeLink, BusyReaders)
      BY <1>1, ListExact
    <3> QED BY <2>1, <3>1, <3>2, ListTakes
  <2>3. readPc' = [readPc EXCEPT ![f] = "run"] /\ readIrp' = [readIrp EXCEPT ![f] = i]
    BY <1>2 DEF StartRead
  <2>4. BusyReaders' = BusyReaders \cup {f}
    BY <1>1, <2>2, <2>3 DEF BusyReaders, ReadTypes
  <2>5. ReadTypes'
    BY <1>1, <1>2, <2>2, <2>3 DEF ReadTypes, Busy
  <2>6. ReadCounts'
    <3>1. Cardinality(BusyReaders') = Cardinality(BusyReaders) + 1
      BY <2>2, <2>4, OneMoreBusy
    <3> QED BY <1>1, <1>2, <3>1 DEF ReadCounts, ReadTypes
  <2>7. FreeListExact'
    <3>1. READ_THREADS - ReadActive' = (READ_THREADS - ReadActive) - 1
      BY <1>1, <1>2 DEF ReadTypes
    <3> QED BY <1>2, <2>2, <2>4, <3>1, ListExact
  <2>8. ReadsOnce'
    BY <1>1, <1>2, <2>2, <2>3 DEF ReadsOnce, ReadTypes, InQueue
  <2> QED BY <2>5, <2>6, <2>7, <2>8 DEF ReadSide
<1>3. CASE /\ ReadIrpQueue' = Append(ReadIrpQueue, i)
           /\ UNCHANGED <<readVars, ReadActive>>
  <2>1. /\ ReadIrpQueue' \in Seq(Irps) /\ Len(ReadIrpQueue') = Len(ReadIrpQueue) + 1
        /\ InQueue(ReadIrpQueue') = InQueue(ReadIrpQueue) \cup {i} /\ Distinct(ReadIrpQueue')
    BY <1>1, <1>3, QueueGrows DEF ReadTypes, ReadsOnce
  <2>2. BusyReaders' = BusyReaders
    BY <1>3 DEF BusyReaders, readVars
  <2>3. ReadTypes' /\ ReadCounts'
    BY <1>1, <1>3, <2>1, <2>2 DEF ReadTypes, ReadCounts, readVars
  <2>4. FreeListExact'
    BY <1>1, <1>3, <2>2, ListExact DEF readVars
  <2>5. ReadsOnce'
    BY <1>1, <1>3, <2>1 DEF ReadsOnce, readVars
  <2> QED BY <2>3, <2>4, <2>5 DEF ReadSide
<1> QED BY <1>2, <1>3 DEF DispatchRead

\* A read ends: its thread takes the next from the queue, or is free.
LEMMA ReadDoneReads ==
  ASSUME ReadSide, NEW t \in Threads, ReadDone(t)
  PROVE  ReadSide'
<1>1. /\ ReadTypes /\ ReadCounts /\ FreeListExact /\ ReadsOnce
      /\ readPc[t] = "run" /\ readPc' = [readPc EXCEPT ![t] = "done"]
      /\ readIrp' = [readIrp EXCEPT ![t] = NoIrp]
      /\ UNCHANGED <<ReadPending, ReadActive, ReadFreeList, FreeLink, ReadIrpQueue>>
  BY DEF ReadSide, ReadDone, countVars, queueVars
<1>2. BusyReaders' = BusyReaders
  BY <1>1 DEF BusyReaders, ReadTypes
<1>3. ReadTypes'
  BY <1>1 DEF ReadTypes
<1>4. ReadCounts'
  BY <1>1, <1>2 DEF ReadCounts
<1>5. FreeListExact'
  BY <1>1, <1>2, ListExact
<1>6. ReadsOnce'
  <2>1. NoIrp \notin InQueue(ReadIrpQueue)
    BY <1>1, Parameters DEF ReadTypes, InQueue
  <2> QED BY <1>1, <2>1 DEF ReadsOnce, ReadTypes, InQueue
<1> QED BY <1>3, <1>4, <1>5, <1>6 DEF ReadSide

\* The thread takes up a waiting read, or goes back to the free list.
LEMMA ReadCompletionReads ==
  ASSUME ReadSide, NEW t \in Threads, ReadCompletion(t)
  PROVE  ReadSide'
<1> USE Parameters
<1>1. /\ ReadTypes /\ ReadCounts /\ FreeListExact /\ ReadsOnce
      /\ readPc[t] = "done" /\ readIrp[t] = NoIrp /\ ReadPending' = ReadPending - 1
      /\ Len(ReadIrpQueue) \in Nat
  BY DEF ReadSide, ReadCompletion, ReadsOnce, ReadTypes
<1>2. t \in BusyReaders /\ BusyReaders \in SUBSET Threads
  BY <1>1 DEF BusyReaders
<1>3. ReadActive \in 1..READ_THREADS
  BY <1>1, <1>2, BusyFinite DEF ReadCounts, ReadTypes
<1>4. CASE TakeNextRead(t)
  <2> DEFINE i == Head(ReadIrpQueue)
  <2>1. /\ i \in Irps /\ ReadIrpQueue' \in Seq(Irps)
        /\ Len(ReadIrpQueue') = Len(ReadIrpQueue) - 1
        /\ Len(ReadIrpQueue) > 0
        /\ InQueue(ReadIrpQueue) = {i} \cup InQueue(ReadIrpQueue')
        /\ Distinct(ReadIrpQueue') /\ i \notin InQueue(ReadIrpQueue')
    BY <1>1, <1>4, QueueShrinks DEF ReadTypes, ReadsOnce, TakeNextRead
  <2> HIDE DEF i
  <2>2. /\ readPc' = [readPc EXCEPT ![t] = "run"] /\ readIrp' = [readIrp EXCEPT ![t] = i]
        /\ UNCHANGED <<ReadFreeList, FreeLink, ReadActive>>
    BY <1>4 DEF TakeNextRead, StartRead, i
  <2>3. BusyReaders' = BusyReaders
    BY <1>1, <2>2 DEF BusyReaders, ReadTypes
  <2>4. ReadTypes'
    BY <1>1, <1>3, <2>1, <2>2 DEF ReadTypes, ReadCounts
  <2>5. ReadCounts'
    BY <1>1, <1>3, <2>1, <2>2, <2>3 DEF ReadCounts
  <2>6. FreeListExact'
    BY <1>1, <2>2, <2>3, ListExact
  <2>7. ReadsOnce'
    BY <1>1, <2>1, <2>2 DEF ReadsOnce, ReadTypes
  <2> QED BY <2>4, <2>5, <2>6, <2>7 DEF ReadSide
<1>5. CASE ReleaseReader(t)
  <2>1. /\ FreeLink' = [FreeLink EXCEPT ![t] = ReadFreeList] /\ ReadFreeList' = t
        /\ ReadActive' = ReadActive - 1 /\ readPc' = [readPc EXCEPT ![t] = "free"]
        /\ UNCHANGED <<readIrp, ReadIrpQueue>>
    BY <1>5 DEF ReleaseReader
  <2>2. BusyReaders' = BusyReaders \ {t}
    BY <1>1, <2>1 DEF BusyReaders, ReadTypes
  <2>3. ReadTypes'
    <3>1. ReadPending' \in Nat /\ ReadActive' \in 0..READ_THREADS
      BY <1>1, <1>3, <2>1 DEF ReadCounts
    <3>2. t \in 0..READ_THREADS
      BY DEF Threads
    <3> QED BY <1>1, <2>1, <3>1, <3>2 DEF ReadTypes
  <2>4. ReadCounts'
    <3>1. Cardinality(BusyReaders') = Cardinality(BusyReaders) - 1
      BY <1>2, <2>2, OneLessBusy
    <3> QED BY <1>1, <1>3, <2>1, <3>1 DEF ReadCounts
  <2>5. FreeListExact'
    <3>1. /\ READ_THREADS - ReadActive \in Nat
          /\ READ_THREADS - ReadActive' = (READ_THREADS - ReadActive) + 1
      BY <1>3, <2>1
    <3>2. ListOk(READ_THREADS - ReadActive, ReadFreeList, FreeLink, BusyReaders)
      BY <1>1, ListExact
    <3>3. FreeLink \in [Threads -> 0..READ_THREADS \cup {Busy}]
      BY <1>1 DEF ReadTypes
    <3>4. ListOk((READ_THREADS - ReadActive) + 1, t, [FreeLink EXCEPT ![t] = ReadFreeList],
                 BusyReaders \ {t})
      BY <1>2, <3>1, <3>2, <3>3, ListPuts
    <3> QED BY <2>1, <2>2, <3>1, <3>4, ListExact
  <2>6. ReadsOnce'
    BY <1>1, <2>1 DEF ReadsOnce, ReadTypes
  <2> QED BY <2>3, <2>4, <2>5, <2>6 DEF ReadSide
<1> QED BY <1>4, <1>5 DEF ReadCompletion

\* The cleaning of the queue of reads.
LEMMA CleanReadReads ==
  ASSUME ReadSide, CleanRead
  PROVE  ReadSide'
<1>1. /\ ReadTypes /\ ReadCounts /\ FreeListExact /\ ReadsOnce
      /\ ReadIrpQueue # <<>> /\ ReadIrpQueue' = Tail(ReadIrpQueue)
      /\ ReadPending' = ReadPending - 1 /\ UNCHANGED <<readVars, ReadActive>>
  BY DEF ReadSide, CleanRead, cleanRest
<1>2. /\ ReadIrpQueue' \in Seq(Irps) /\ Len(ReadIrpQueue') = Len(ReadIrpQueue) - 1
      /\ Len(ReadIrpQueue) \in Nat /\ Len(ReadIrpQueue) > 0 /\ Distinct(ReadIrpQueue')
      /\ InQueue(ReadIrpQueue') \subseteq InQueue(ReadIrpQueue)
  BY <1>1, QueueShrinks DEF ReadTypes, ReadsOnce
<1>3. BusyReaders' = BusyReaders
  BY <1>1 DEF BusyReaders, readVars
<1>4. ReadTypes' /\ ReadCounts'
  BY <1>1, <1>2, <1>3 DEF ReadTypes, ReadCounts, readVars
<1>5. FreeListExact'
  BY <1>1, <1>3, ListExact DEF readVars
<1>6. ReadsOnce'
  BY <1>1, <1>2 DEF ReadsOnce, readVars
<1> QED BY <1>4, <1>5, <1>6 DEF ReadSide

\* A new context, or none.
LEMMA ForgottenReads ==
  ASSUME ReadPending' = 0, ReadActive' = 0, ReadFreeList' = 0, FreeLink' = FreshLinks,
         readPc' = FreeReaders, readIrp' = NoReads, ReadIrpQueue' = <<>>
  PROVE  ReadSide' /\ BusyReaders' = {}
<1> USE Parameters
<1>1. BusyReaders' = {}
  BY DEF BusyReaders, FreeReaders
<1>2. ReadTypes'
  BY DEF ReadTypes, FreshLinks, FreeReaders, NoReads, Threads, Busy
<1>3. ReadCounts'
  BY <1>1, FS_EmptySet DEF ReadCounts
<1>4. FreeListExact'
  <2>1. READ_THREADS - 0 = READ_THREADS
    OBVIOUS
  <2> QED BY <1>1, <2>1, ListFresh, ListExact
<1>5. ReadsOnce'
  BY DEF ReadsOnce, NoReads, Distinct, InQueue
<1> QED BY <1>1, <1>2, <1>3, <1>4, <1>5 DEF ReadSide

-----------------------------------------------------------------------------
(* The steps, by what they leave alone *)

OtherWorks ==
  \/ WriteAbort \/ WriteEnds \/ WriteIo \/ WritePurge \/ WriteClose \/ WritePrepare
  \/ FlushFill \/ FlushPurge \/ FlushClose \/ FlushEnds \/ PassDone
  \/ IoDone \/ PurgeDone \/ PrepareDone

\* What the other thread leaves alone at work.
LEMMA OtherWorksKeeps == OtherWorks => UNCHANGED otherStepRest
  BY DEF OtherWorks, WriteAbort, WriteEnds, WriteIo, WritePurge, WriteClose, WritePrepare, FlushFill, FlushPurge, FlushClose,
         FlushEnds, PassDone, IoDone, PurgeDone, PrepareDone

\* Steps that change neither the context nor what is counted in it.
Outside ==
  \/ \E u \in Turs : TurSucceeds(u) \/ TurFails(u) \/ TurLooksForError(u)
                     \/ TurLooksForCompleted(u)
  \/ \E c \in Checkers : CheckStarts(c) \/ CheckFails(c) \/ CheckCapacity(c) \/ CheckSector(c)
                         \/ CheckEnds(c)
  \/ RecoveryStarts \/ RecoveryEnds \/ RecoveryFails
  \/ FormatAsked \/ FormatStarts \/ FormatRefused \/ FormatEnds \/ FormatFails

\* What the steps outside the context leave alone.
LEMMA OutsideKeeps == Outside => UNCHANGED <<ctx, ctxVars, cleaners, removal>>
<1> USE DEF turRest, checkRest, workerRest, formatRest
<1>1. ASSUME NEW u \in Turs, \/ TurSucceeds(u) \/ TurFails(u) \/ TurLooksForError(u)
                             \/ TurLooksForCompleted(u)
      PROVE  UNCHANGED <<ctx, ctxVars, cleaners, removal>>
  BY <1>1 DEF TurSucceeds, TurFails, TurLooksForError, TurLooksForCompleted
<1>2. ASSUME NEW c \in Checkers, \/ CheckStarts(c) \/ CheckFails(c) \/ CheckCapacity(c)
                                 \/ CheckSector(c) \/ CheckEnds(c)
      PROVE  UNCHANGED <<ctx, ctxVars, cleaners, removal>>
  BY <1>2 DEF CheckStarts, CheckFails, CheckCapacity, CheckSector, CheckEnds, deviceVars
<1>3. ASSUME \/ RecoveryStarts \/ RecoveryEnds \/ RecoveryFails
             \/ FormatAsked \/ FormatStarts \/ FormatRefused \/ FormatEnds \/ FormatFails
      PROVE  UNCHANGED <<ctx, ctxVars, cleaners, removal>>
  BY <1>3 DEF RecoveryStarts, RecoveryEnds, RecoveryFails, FormatAsked, FormatStarts,
              FormatRefused, FormatEnds, FormatFails
<1> QED BY <1>1, <1>2, <1>3 DEF Outside

\* Only a recovery makes the device active.
LEMMA OutsideActivates ==
  ASSUME Outside, mode' = "ACTIVE"
  PROVE  mode \in {"ACTIVE", "RECOVERY"}
<1>1. ASSUME NEW u \in Turs, \/ TurSucceeds(u) \/ TurFails(u) \/ TurLooksForError(u)
                             \/ TurLooksForCompleted(u)
      PROVE  mode' \in {mode, "INITIAL", "ERROR"}
  BY <1>1 DEF TurSucceeds, TurFails, TurLooksForError, TurLooksForCompleted
<1>2. ASSUME NEW c \in Checkers, \/ CheckStarts(c) \/ CheckFails(c) \/ CheckCapacity(c)
                                 \/ CheckSector(c) \/ CheckEnds(c)
      PROVE  mode' \in {mode, "DIRECT", "ERROR"}
  BY <1>2 DEF CheckStarts, CheckFails, CheckCapacity, CheckSector, CheckEnds, deviceVars
<1>3. CASE RecoveryStarts \/ RecoveryEnds \/ RecoveryFails
  BY <1>3 DEF RecoveryStarts, RecoveryEnds, RecoveryFails
<1>4. CASE FormatAsked \/ FormatStarts \/ FormatRefused \/ FormatEnds \/ FormatFails
  BY <1>4 DEF FormatAsked, FormatStarts, FormatRefused, FormatEnds, FormatFails
<1> QED BY <1>1, <1>2, <1>3, <1>4 DEF Outside

\* TEST UNIT READY or a removal frees the context, or finds it busy.
Frees == \/ \E u \in Turs : TurFrees(u) /\ FreeCtx
         \/ RemoveFrees
FindsBusy == \/ \E u \in Turs : TurFrees(u) /\ UNCHANGED <<deviceVars, ctxVars, worker>>
             \/ RemoveStarts \/ RemoveWaits

\* What a removal that finds the context busy leaves alone.
LEMMA FindsBusyKeeps == FindsBusy => UNCHANGED <<deviceVars, ctxVars, cleaners>>
  BY DEF FindsBusy, TurFrees, RemoveStarts, RemoveWaits, removeRest

\* The steps of the gate, gathered by what they leave alone.
LEMMA Steps ==
  ASSUME [Next]_vars
  PROVE  \/ \E i \in Irps : DispatchRead(i) \/ DispatchOther(i)
         \/ \E t \in Threads : ReadDone(t) \/ ReadCompletion(t)
         \/ OtherWorks \/ IoFails \/ NextOther \/ TimedFlush \/ OtherIdle
         \/ TimerExpires \/ FlushDpc \/ CleanRead \/ CleanOther \/ CleanEnds
         \/ Outside \/ Frees \/ FindsBusy
         \/ \E c \in Checkers : InstallCtx(c)
         \/ \E timeout \in Timeouts : Configure(timeout)
         \/ RemovePolls \/ UNCHANGED vars
<1>1. ASSUME NEW u \in Turs, TurSteps(u) PROVE Outside \/ Frees \/ FindsBusy
  BY <1>1 DEF TurSteps, TurFrees, FreeLevelingCtx, Outside, Frees, FindsBusy
<1>2. ASSUME NEW c \in Checkers, CheckSteps(c) PROVE Outside \/ InstallCtx(c)
  BY <1>2 DEF CheckSteps, Outside
<1>3. OtherServes => OtherWorks \/ IoFails \/ NextOther \/ TimedFlush \/ OtherIdle
  BY DEF OtherServes, OtherWorks
<1>4. FormatSteps => Outside
  BY DEF FormatSteps, Outside
<1> QED BY <1>1, <1>2, <1>3, <1>4 DEF Next, ReaderServes, Cleans, Outside, Frees, FindsBusy

\* A context is freed when nothing is queued or at work and no DPC is on its way; then
\* nothing of it is left.
LEMMA FreesForgets ==
  ASSUME Inv, Frees
  PROVE  /\ UNCHANGED cleaners /\ ctx' = FALSE /\ mode' = "INITIAL"
         /\ \/ /\ ctx /\ ForgetCtx /\ timer' = "off"
               /\ ReadPending = 0 /\ OtherPending = 0
            \/ ~ctx /\ UNCHANGED ctxVars
<1>1. FreeCtx /\ UNCHANGED cleaners
  BY DEF Frees, TurFrees, RemoveFrees, removeRest
<1>2. CASE ctx
  <2>1. /\ ReadPending = 0 /\ OtherPending = 0 /\ (TimerActive => timer = "set")
        /\ ForgetCtx /\ timer' = IF TimerActive /\ timer = "set" THEN "off" ELSE timer
    BY <1>1, <1>2 DEF FreeCtx, StillActive, Inv, ReadSide, ReadTypes, OtherSide, OtherTypes
  <2>2. timer' = "off"
    BY <2>1 DEF Inv, FlushSide, FlushTypes
  <2> QED BY <1>1, <1>2, <2>1, <2>2 DEF FreeCtx
<1>3. CASE ~ctx
  BY <1>1, <1>3 DEF FreeCtx
<1> QED BY <1>2, <1>3

-----------------------------------------------------------------------------
(* Every step keeps every part *)

\* The read side is kept by every step.
LEMMA ReadStep == ASSUME Inv, [Next]_vars PROVE ReadSide'
<1> USE DEF readSide, countVars, queueVars
<1>0. ReadSide
  BY DEF Inv
<1>1. ASSUME NEW i \in Irps, DispatchRead(i) PROVE ReadSide'
  BY <1>0, <1>1, DispatchReadReads
<1>2. ASSUME NEW i \in Irps, DispatchOther(i) PROVE ReadSide'
  BY <1>0, <1>2, ReadKept DEF DispatchOther
<1>3. ASSUME NEW t \in Threads, ReadDone(t) PROVE ReadSide'
  BY <1>0, <1>3, ReadDoneReads
<1>4. ASSUME NEW t \in Threads, ReadCompletion(t) PROVE ReadSide'
  BY <1>0, <1>4, ReadCompletionReads
<1>5. CASE OtherWorks
  BY <1>0, <1>5, OtherWorksKeeps, ReadKept DEF otherStepRest
<1>6. CASE IoFails
  BY <1>0, <1>6, ReadKept DEF IoFails
<1>7. CASE NextOther \/ TimedFlush \/ OtherIdle
  BY <1>0, <1>7, ReadKept DEF NextOther, TimedFlush, OtherIdle, completionRest
<1>8. CASE TimerExpires \/ FlushDpc
  BY <1>0, <1>8, ReadKept DEF TimerExpires, FlushDpc
<1>9. CASE CleanRead
  BY <1>0, <1>9, CleanReadReads
<1>10. CASE CleanOther \/ CleanEnds
  BY <1>0, <1>10, ReadKept DEF CleanOther, CleanEnds, cleanRest
<1>11. CASE Outside
  BY <1>0, <1>11, OutsideKeeps, ReadKept DEF ctxVars
<1>12. CASE Frees
  BY <1>0, <1>12, FreesForgets, ForgottenReads, ReadKept DEF ForgetCtx, ctxVars
<1>13. CASE FindsBusy
  BY <1>0, <1>13, FindsBusyKeeps, ReadKept DEF ctxVars
<1>14. ASSUME NEW c \in Checkers, InstallCtx(c) PROVE ReadSide'
  BY <1>0, <1>14, ReadKept DEF InstallCtx
<1>15. ASSUME NEW timeout \in Timeouts, Configure(timeout) PROVE ReadSide'
  BY <1>0, <1>15, ReadKept DEF Configure
<1>16. CASE RemovePolls
  BY <1>0, <1>16, ReadKept DEF RemovePolls
<1>17. CASE UNCHANGED vars
  BY <1>0, <1>17, ReadKept DEF vars, ctxVars
<1> QED BY <1>1, <1>2, <1>3, <1>4, <1>5, <1>6, <1>7, <1>8, <1>9, <1>10, <1>11, <1>12, <1>13,
           <1>14, <1>15, <1>16, <1>17, Steps

\* While the other thread waits, it is woken by the last marked reader and by nobody else.
LEMMA UnmarkWakes ==
  ASSUME Inv, NEW t \in Threads, Unmark(t)
  PROVE  \/ UNCHANGED <<otherPc, WaitingMarkedThreads>>
         \/ otherPc = "wait" /\ otherPc' = "run" /\ WaitingMarkedThreads' = FALSE
  BY DEF Unmark, Inv, MarkSide, WaitIsJustified

\* The other side is kept by every step.
LEMMA OtherStep == ASSUME Inv, [Next]_vars PROVE OtherSide'
<1> USE Parameters DEF otherSide, otherVars, countVars, queueVars
<1>0. OtherSide /\ OtherTypes /\ Len(OtherIrpQueue) \in Nat
  BY DEF Inv, OtherSide, OtherTypes
<1>1. ASSUME NEW i \in Irps, DispatchRead(i) PROVE OtherSide'
  BY <1>0, <1>1, OtherKept DEF DispatchRead
<1>2. ASSUME NEW i \in Irps, DispatchOther(i) PROVE OtherSide'
  <2>1. /\ Append(OtherIrpQueue, i) \in Seq(Irps)
        /\ Len(Append(OtherIrpQueue, i)) = Len(OtherIrpQueue) + 1
    BY <1>0, QueueGrows DEF OtherTypes
  <2> QED BY <1>0, <1>2, <2>1 DEF DispatchOther, StartOther, OtherSide, OtherTypes, Kinds
<1>3. ASSUME NEW t \in Threads, ReadDone(t) PROVE OtherSide'
  BY <1>0, <1>3, OtherKept DEF ReadDone
<1>4. ASSUME NEW t \in Threads, ReadCompletion(t) PROVE OtherSide'
  <2>1. \/ UNCHANGED otherPc
        \/ otherPc = "wait" /\ otherPc' = "run"
    BY <1>4, UnmarkWakes DEF ReadCompletion
  <2>2. UNCHANGED <<OtherPending, OtherActive, OtherIrpQueue, otherIrp, otherKind, work>>
    BY <1>4 DEF ReadCompletion
  <2> QED BY <1>0, <2>1, <2>2 DEF OtherSide, OtherTypes
<1>5. CASE OtherWorks
  <2>1. UNCHANGED <<OtherPending, OtherActive, OtherIrpQueue>>
    BY <1>5, OtherWorksKeeps DEF otherStepRest
  <2>2. /\ otherPc # "idle"
        /\ otherPc' \in {"run", "io", "purge", "close", "prepare", "wait", "pass", "done"}
        /\ otherIrp' \in {otherIrp, NoIrp} /\ UNCHANGED otherKind /\ work' \in {work, work - 1}
        /\ work' = work - 1 => work > 0
        /\ otherPc' = "done" => otherIrp' = NoIrp
    <3> USE <1>0 DEF OtherTypes, Handling, WritingActive, StartIo, EndRequest
    <3>1. CASE WriteAbort
      BY <3>1 DEF WriteAbort
    <3>2. CASE WriteEnds
      BY <3>2 DEF WriteEnds
    <3>3. CASE WriteIo
      BY <3>3 DEF WriteIo
    <3>4. CASE WritePurge
      BY <3>4 DEF WritePurge
    <3>5. CASE WriteClose
      BY <3>5 DEF WriteClose
    <3>6. CASE WritePrepare
      BY <3>6 DEF WritePrepare
    <3>7. CASE FlushFill
      BY <3>7 DEF FlushFill
    <3>8. CASE FlushPurge
      BY <3>8 DEF FlushPurge
    <3>9. CASE FlushClose
      BY <3>9 DEF FlushClose
    <3>10. CASE FlushEnds
      BY <3>10 DEF FlushEnds
    <3>11. CASE PassDone
      BY <3>11 DEF PassDone
    <3>12. CASE IoDone
      BY <3>12 DEF IoDone
    <3>13. CASE PurgeDone
      BY <3>13 DEF PurgeDone
    <3>14. CASE PrepareDone
      BY <3>14 DEF PrepareDone
    <3> QED BY <1>5, <3>1, <3>2, <3>3, <3>4, <3>5, <3>6, <3>7, <3>8,
                  <3>9, <3>10, <3>11, <3>12, <3>13, <3>14 DEF OtherWorks
  <2> QED BY <1>0, <2>1, <2>2 DEF OtherSide, OtherTypes
<1>6. CASE IoFails
  BY <1>0, <1>6 DEF IoFails, OtherSide, OtherTypes
<1>7. CASE NextOther
  <2>1. /\ Head(OtherIrpQueue) \in Irps /\ Tail(OtherIrpQueue) \in Seq(Irps)
        /\ Len(Tail(OtherIrpQueue)) = Len(OtherIrpQueue) - 1 /\ Len(OtherIrpQueue) > 0
    BY <1>0, <1>7, QueueShrinks DEF NextOther, GoesOn, OtherTypes
  <2>2. /\ otherPc = "done" /\ OtherPending' = OtherPending - 1 /\ UNCHANGED OtherActive
        /\ OtherIrpQueue' = Tail(OtherIrpQueue)
        /\ otherPc' \in {"pass", "run"} /\ otherIrp' = Head(OtherIrpQueue)
        /\ otherKind' \in Kinds /\ work' = MaxWork
    BY <1>7 DEF NextOther, StartOther
  <2> QED BY <1>0, <2>1, <2>2 DEF OtherSide, OtherTypes
<1>8. CASE TimedFlush
  BY <1>0, <1>8 DEF TimedFlush, StartOther, OtherSide, OtherTypes, Kinds
<1>9. CASE OtherIdle
  <2>1. /\ otherPc = "done" /\ otherPc' = "idle" /\ OtherPending' = OtherPending - 1
        /\ OtherActive' = OtherActive - 1
        /\ UNCHANGED <<OtherIrpQueue, otherIrp, otherKind, work>>
    BY <1>9 DEF OtherIdle
  <2> QED BY <1>0, <2>1 DEF OtherSide, OtherTypes
<1>10. CASE TimerExpires
  BY <1>0, <1>10, OtherKept DEF TimerExpires
<1>11. CASE FlushDpc
  <2>1. /\ UNCHANGED OtherIrpQueue
        /\ \/ UNCHANGED <<OtherPending, OtherActive, otherVars>>
           \/ /\ OtherActive = 0 /\ OtherActive' = 1 /\ OtherPending' = OtherPending + 1
              /\ otherPc' = "run" /\ otherIrp' = NoIrp /\ otherKind' = "flush" /\ work' = MaxWork
    BY <1>11 DEF FlushDpc, StartOther
  <2> QED BY <1>0, <2>1 DEF OtherSide, OtherTypes, Kinds
<1>12. CASE CleanRead \/ CleanEnds
  BY <1>0, <1>12, OtherKept DEF CleanRead, CleanEnds, cleanRest
<1>13. CASE CleanOther
  <2>1. /\ Tail(OtherIrpQueue) \in Seq(Irps) /\ Len(OtherIrpQueue) > 0
        /\ Len(Tail(OtherIrpQueue)) = Len(OtherIrpQueue) - 1
    BY <1>0, <1>13, QueueShrinks DEF CleanOther, OtherTypes
  <2>2. /\ OtherIrpQueue' = Tail(OtherIrpQueue) /\ OtherPending' = OtherPending - 1
        /\ UNCHANGED <<OtherActive, otherVars>>
    BY <1>13 DEF CleanOther, cleanRest
  <2>3. /\ OtherIrpQueue' \in Seq(Irps) /\ Len(OtherIrpQueue') = Len(OtherIrpQueue) - 1
        /\ OtherActive' = OtherActive /\ otherPc' = otherPc /\ otherIrp' = otherIrp
        /\ otherKind' = otherKind /\ work' = work /\ OtherPending' = OtherPending - 1
    BY <2>1, <2>2
  <2>4. OtherActive \in Nat /\ OtherPending = OtherActive + Len(OtherIrpQueue)
    BY <1>0 DEF OtherSide, OtherTypes
  <2>5. OtherPending' = OtherActive' + Len(OtherIrpQueue') /\ OtherPending' \in Nat
    <3> DEFINE n == Len(OtherIrpQueue)
    <3>1. n \in Nat /\ n > 0
      BY <1>0, <2>1
    <3> HIDE DEF n
    <3>2. OtherPending' = OtherActive + (n - 1) /\ OtherActive + (n - 1) \in Nat
      BY <2>3, <2>4, <3>1 DEF n
    <3> QED BY <2>3, <3>2 DEF n
  <2> QED BY <1>0, <2>3, <2>5 DEF OtherSide, OtherTypes
<1>14. CASE Outside
  BY <1>0, <1>14, OutsideKeeps, OtherKept DEF ctxVars
<1>15. CASE Frees
  <2>1. CASE ForgetCtx
    BY <2>1 DEF ForgetCtx, OtherSide, OtherTypes, Kinds
  <2>2. CASE UNCHANGED ctxVars
    BY <1>0, <2>2, OtherKept DEF ctxVars
  <2> QED BY <1>15, <2>1, <2>2, FreesForgets
<1>16. CASE FindsBusy
  BY <1>0, <1>16, FindsBusyKeeps, OtherKept DEF ctxVars
<1>17. ASSUME NEW c \in Checkers, InstallCtx(c) PROVE OtherSide'
  BY <1>0, <1>17, OtherKept DEF InstallCtx
<1>18. ASSUME NEW timeout \in Timeouts, Configure(timeout) PROVE OtherSide'
  BY <1>0, <1>18, OtherKept DEF Configure
<1>19. CASE RemovePolls
  BY <1>0, <1>19, OtherKept DEF RemovePolls
<1>20. CASE UNCHANGED vars
  BY <1>0, <1>20, OtherKept DEF vars, ctxVars
<1> QED BY <1>1, <1>2, <1>3, <1>4, <1>5, <1>6, <1>7, <1>8, <1>9, <1>10, <1>11, <1>12, <1>13,
           <1>14, <1>15, <1>16, <1>17, <1>18, <1>19, <1>20, Steps

\* A thread that is linked nowhere is busy (vgate.c:242).
LEMMA BusyLinks ==
  ASSUME ReadSide, NEW t \in Threads, FreeLink[t] = Busy
  PROVE  t \in BusyReaders
<1> USE Parameters
<1>1. ListOk(READ_THREADS - ReadActive, ReadFreeList, FreeLink, BusyReaders)
      /\ READ_THREADS - ReadActive \in Nat
  BY ListExact DEF ReadSide, ReadTypes
<1>2. SUFFICES ASSUME t \notin BusyReaders PROVE FALSE
  OBVIOUS
<1>3. FreeLink[t] \in 0..READ_THREADS
  <2> DEFINE free == READ_THREADS - ReadActive
  <2> HIDE DEF free
  <2>0. ListOk(free, ReadFreeList, FreeLink, BusyReaders) /\ free \in Nat
    BY <1>1 DEF free
  <2>1. PICK chain \in [0..free -> 0..READ_THREADS] :
          /\ chain[0] = ReadFreeList /\ chain[free] = READ_THREADS
          /\ \A n \in 0..(free - 1) : /\ chain[n] \in Threads \ BusyReaders
                                     /\ FreeLink[chain[n]] = chain[n + 1]
                                     /\ \A m \in 0..(n - 1) : chain[m] # chain[n]
          /\ \A u \in Threads \ BusyReaders : \E n \in 0..(free - 1) : chain[n] = u
    BY <2>0 DEF ListOk
  <2>2. PICK n \in 0..(free - 1) : chain[n] = t
    BY <1>2, <2>1
  <2>3. n + 1 \in 0..free
    BY <2>0
  <2> QED BY <2>1, <2>2, <2>3
<1> QED BY <1>3 DEF Busy

\* The marks are kept by every step.
LEMMA MarkStep == ASSUME Inv, [Next]_vars PROVE MarkSide'
<1> USE DEF markSide, markVars, readVars, otherVars
<1>0. MarkSide /\ OtherSide /\ ReadSide /\ ReadTypes
  BY DEF Inv, ReadSide
<1>1. ASSUME NEW i \in Irps, DispatchRead(i) PROVE MarkSide'
  <2>1. UNCHANGED <<markVars, otherPc>>
    BY <1>1 DEF DispatchRead
  <2>2. BusyReaders \subseteq BusyReaders'
    BY <1>0, <1>1 DEF DispatchRead, StartRead, BusyReaders, ReadTypes
  <2> QED BY <1>0, <2>1, <2>2 DEF MarkSide, MarkTypes, WaitIsJustified
<1>2. ASSUME NEW i \in Irps, DispatchOther(i) PROVE MarkSide'
  <2>1. UNCHANGED <<markVars, readPc>>
    BY <1>2 DEF DispatchOther
  <2>2. otherPc' = otherPc \/ (otherPc = "idle" /\ otherPc' # "wait")
    BY <1>0, <1>2 DEF DispatchOther, StartOther, OtherSide, OtherTypes
  <2> QED BY <1>0, <2>1, <2>2 DEF MarkSide, MarkTypes, WaitIsJustified, BusyReaders
<1>3. ASSUME NEW t \in Threads, ReadDone(t) PROVE MarkSide'
  <2>1. UNCHANGED <<markVars, otherPc>>
    BY <1>3 DEF ReadDone
  <2>2. BusyReaders' = BusyReaders
    BY <1>0, <1>3 DEF ReadDone, BusyReaders, ReadTypes
  <2> QED BY <1>0, <2>1, <2>2 DEF MarkSide, MarkTypes, WaitIsJustified
<1>4. ASSUME NEW t \in Threads, ReadCompletion(t) PROVE MarkSide'
  <2>1. BusyReaders \ {t} \subseteq BusyReaders'
    BY <1>0, <1>4 DEF ReadCompletion, TakeNextRead, ReleaseReader, StartRead, BusyReaders, ReadTypes
  <2>2. Unmark(t)
    BY <1>4 DEF ReadCompletion
  <2> QED BY <1>0, <2>1, <2>2 DEF Unmark, MarkSide, MarkTypes, WaitIsJustified
<1>5. CASE OtherWorks
  <2>1. UNCHANGED readPc
    BY <1>5, OtherWorksKeeps DEF otherStepRest
  <2>2. CASE WriteClose
    <3>1. /\ UNCHANGED WaitingMarkedThreads /\ otherPc # "wait" /\ otherPc' = "close"
          /\ Marked' = Marked \cup {t \in Threads : FreeLink[t] = Busy}
      BY <2>2 DEF WriteClose, WritingActive, Handling, StartIo
    <3>2. {t \in Threads : FreeLink[t] = Busy} \subseteq BusyReaders
      BY <1>0, BusyLinks
    <3> QED BY <1>0, <2>1, <3>1, <3>2 DEF MarkSide, MarkTypes, WaitIsJustified, BusyReaders
  <2>3. CASE PrepareDone
    BY <1>0, <2>1, <2>3 DEF PrepareDone, MarkSide, MarkTypes, WaitIsJustified, BusyReaders
  <2>4. ASSUME ~WriteClose, ~PrepareDone
        PROVE  UNCHANGED markVars /\ otherPc # "wait" /\ otherPc' # "wait"
    <3> USE DEF Handling, WritingActive, StartIo, EndRequest
    <3>1. CASE WriteAbort
      BY <3>1 DEF WriteAbort
    <3>2. CASE WriteEnds
      BY <3>2 DEF WriteEnds
    <3>3. CASE WriteIo
      BY <3>3 DEF WriteIo
    <3>4. CASE WritePurge
      BY <3>4 DEF WritePurge
    <3>5. CASE WritePrepare
      BY <3>5 DEF WritePrepare
    <3>6. CASE FlushFill
      BY <3>6 DEF FlushFill
    <3>7. CASE FlushPurge
      BY <3>7 DEF FlushPurge
    <3>8. CASE FlushClose
      BY <3>8 DEF FlushClose
    <3>9. CASE FlushEnds
      BY <3>9 DEF FlushEnds
    <3>10. CASE PassDone
      BY <3>10 DEF PassDone
    <3>11. CASE IoDone
      BY <3>11 DEF IoDone
    <3>12. CASE PurgeDone
      BY <3>12 DEF PurgeDone
    <3> QED BY <1>5, <2>4, <3>1, <3>2, <3>3, <3>4, <3>5, <3>6,
                  <3>7, <3>8, <3>9, <3>10, <3>11, <3>12 DEF OtherWorks
  <2> QED BY <1>0, <2>1, <2>2, <2>3, <2>4 DEF MarkSide, MarkTypes, WaitIsJustified, BusyReaders
<1>6. CASE IoFails
  BY <1>0, <1>6 DEF IoFails, MarkSide, MarkTypes, WaitIsJustified, BusyReaders
<1>7. CASE NextOther \/ TimedFlush \/ OtherIdle
  <2>1. UNCHANGED <<markVars, readPc>> /\ otherPc = "done" /\ otherPc' # "wait"
    BY <1>7 DEF NextOther, TimedFlush, OtherIdle, StartOther, completionRest
  <2> QED BY <1>0, <2>1 DEF MarkSide, MarkTypes, WaitIsJustified, BusyReaders
<1>8. CASE TimerExpires
  BY <1>0, <1>8, MarkKept DEF TimerExpires
<1>9. CASE FlushDpc
  <2>1. UNCHANGED <<markVars, readPc>>
    BY <1>9 DEF FlushDpc
  <2>2. otherPc' = otherPc \/ (otherPc = "idle" /\ otherPc' # "wait")
    BY <1>0, <1>9 DEF FlushDpc, StartOther, OtherSide, OtherTypes
  <2> QED BY <1>0, <2>1, <2>2 DEF MarkSide, MarkTypes, WaitIsJustified, BusyReaders
<1>10. CASE CleanRead \/ CleanOther \/ CleanEnds
  BY <1>0, <1>10, MarkKept DEF CleanRead, CleanOther, CleanEnds, cleanRest
<1>11. CASE Outside
  BY <1>0, <1>11, OutsideKeeps, MarkKept DEF ctxVars
<1>12. CASE Frees
  <2>1. CASE ForgetCtx
    BY <2>1 DEF ForgetCtx, MarkSide, MarkTypes, WaitIsJustified
  <2>2. CASE UNCHANGED ctxVars
    BY <1>0, <2>2, MarkKept DEF ctxVars
  <2> QED BY <1>12, <2>1, <2>2, FreesForgets
<1>13. CASE FindsBusy
  BY <1>0, <1>13, FindsBusyKeeps, MarkKept DEF ctxVars
<1>14. ASSUME NEW c \in Checkers, InstallCtx(c) PROVE MarkSide'
  BY <1>0, <1>14, MarkKept DEF InstallCtx
<1>15. ASSUME NEW timeout \in Timeouts, Configure(timeout) PROVE MarkSide'
  BY <1>0, <1>15, MarkKept DEF Configure
<1>16. CASE RemovePolls
  BY <1>0, <1>16, MarkKept DEF RemovePolls
<1>17. CASE UNCHANGED vars
  BY <1>0, <1>17, MarkKept DEF vars, ctxVars
<1> QED BY <1>1, <1>2, <1>3, <1>4, <1>5, <1>6, <1>7, <1>8, <1>9, <1>10, <1>11, <1>12, <1>13,
           <1>14, <1>15, <1>16, <1>17, Steps

\* The state of the flush is kept by every step.
LEMMA FlushStep == ASSUME Inv, [Next]_vars PROVE FlushSide'
<1> USE Parameters DEF flushSide, flushVars, otherVars, lifeVars
<1>0. FlushSide /\ FlushTypes /\ OtherSide
  BY DEF Inv, FlushSide
<1>1. ASSUME NEW i \in Irps, DispatchRead(i) PROVE FlushSide'
  BY <1>0, <1>1, FlushKept DEF DispatchRead
<1>2. ASSUME NEW i \in Irps, DispatchOther(i) PROVE FlushSide'
  <2>1. UNCHANGED <<flushVars, removal>> /\ (otherPc' = "idle" => otherPc = "idle")
    BY <1>2 DEF DispatchOther, StartOther
  <2> QED BY <1>0, <2>1 DEF FlushSide, FlushTypes
<1>3. ASSUME NEW t \in Threads, ReadDone(t) PROVE FlushSide'
  BY <1>0, <1>3, FlushKept DEF ReadDone
<1>4. ASSUME NEW t \in Threads, ReadCompletion(t) PROVE FlushSide'
  <2>1. UNCHANGED <<flushVars, removal>>
    BY <1>4 DEF ReadCompletion
  <2>2. UNCHANGED otherPc \/ (otherPc = "wait" /\ otherPc' = "run")
    BY <1>4, UnmarkWakes DEF ReadCompletion
  <2> QED BY <1>0, <2>1, <2>2 DEF FlushSide, FlushTypes
<1>5. CASE OtherWorks
  <2>1. /\ FlushPending' = FlushPending /\ CacheTimeout' = CacheTimeout /\ removal' = removal
        /\ CacheDirty' \in BOOLEAN /\ otherPc' # "idle"
        /\ CallOffTimer \/ UNCHANGED <<TimerActive, timer>>
    <3> USE <1>0 DEF otherStepRest, StartIo, EndRequest, MayDirty, FlushTypes
    <3>1. CASE WriteAbort
      BY <3>1 DEF WriteAbort
    <3>2. CASE WriteEnds
      BY <3>2 DEF WriteEnds
    <3>3. CASE WriteIo
      BY <3>3 DEF WriteIo
    <3>4. CASE WritePurge
      BY <3>4 DEF WritePurge
    <3>5. CASE WriteClose
      BY <3>5 DEF WriteClose
    <3>6. CASE WritePrepare
      BY <3>6 DEF WritePrepare
    <3>7. CASE FlushFill
      BY <3>7 DEF FlushFill
    <3>8. CASE FlushPurge
      BY <3>8 DEF FlushPurge
    <3>9. CASE FlushClose
      BY <3>9 DEF FlushClose
    <3>10. CASE FlushEnds
      BY <3>10 DEF FlushEnds
    <3>11. CASE PassDone
      BY <3>11 DEF PassDone
    <3>12. CASE IoDone
      BY <3>12 DEF IoDone
    <3>13. CASE PurgeDone
      BY <3>13 DEF PurgeDone
    <3>14. CASE PrepareDone
      BY <3>14 DEF PrepareDone
    <3> QED BY <1>5, <3>1, <3>2, <3>3, <3>4, <3>5, <3>6, <3>7,
                  <3>8, <3>9, <3>10, <3>11, <3>12, <3>13, <3>14 DEF OtherWorks
  <2>2. \/ TimerActive' = TimerActive /\ timer' = timer
        \/ timer = "set" /\ TimerActive' = FALSE /\ timer' = "off"
    BY <2>1 DEF CallOffTimer
  <2>3. CASE TimerActive' = TimerActive /\ timer' = timer
    BY <1>0, <2>1, <2>3 DEF FlushSide, FlushTypes
  <2>4. CASE timer = "set" /\ TimerActive' = FALSE /\ timer' = "off"
    <3>1. FlushTypes'
      BY <1>0, <2>1, <2>4 DEF FlushTypes
    <3>2. /\ timer' # "off" \/ FlushPending' => TimerActive'
          /\ timer' = "off" \/ ~FlushPending'
          /\ FlushPending' => otherPc' # "idle"
          /\ TimerActive' => timer' # "off" \/ FlushPending' \/ removal' = "waiting"
      BY <1>0, <2>1, <2>4 DEF FlushSide
    <3> QED BY <3>1, <3>2 DEF FlushSide
  <2> QED BY <2>2, <2>3, <2>4
<1>6. CASE IoFails
  BY <1>0, <1>6 DEF IoFails, FlushSide, FlushTypes
<1>7. CASE NextOther
  <2>1. UNCHANGED <<flushVars, removal>> /\ otherPc' # "idle"
    BY <1>7 DEF NextOther, StartOther, completionRest
  <2> QED BY <1>0, <2>1 DEF FlushSide, FlushTypes
<1>8. CASE TimedFlush
  <2>1. /\ FlushPending /\ FlushPending' = FALSE /\ TimerActive' = FALSE
        /\ UNCHANGED <<CacheDirty, CacheTimeout, timer, removal>>
    BY <1>8 DEF TimedFlush, TimedFlushDue, completionRest
  <2> QED BY <1>0, <2>1 DEF FlushSide, FlushTypes
<1>9. CASE OtherIdle
  <2>1. /\ FlushPending' = FALSE /\ UNCHANGED <<CacheDirty, CacheTimeout, removal>>
        /\ \/ TimerActive' = TRUE /\ timer' = "set"
           \/ TimerActive' = (TimerActive /\ ~FlushPending) /\ UNCHANGED timer
    BY <1>9 DEF OtherIdle
  <2> QED BY <1>0, <2>1 DEF FlushSide, FlushTypes
<1>10. CASE TimerExpires
  BY <1>0, <1>10 DEF TimerExpires, FlushSide, FlushTypes
<1>11. CASE FlushDpc
  <2>1. /\ timer = "fired" /\ timer' = "off" /\ UNCHANGED <<CacheDirty, CacheTimeout, removal>>
        /\ \/ FlushPending' = FALSE /\ TimerActive' = FALSE
           \/ FlushPending' = TRUE /\ OtherActive # 0 /\ UNCHANGED <<otherPc, TimerActive>>
    BY <1>11 DEF FlushDpc
  <2> QED BY <1>0, <2>1 DEF FlushSide, FlushTypes, OtherSide
<1>12. CASE CleanRead \/ CleanOther \/ CleanEnds
  BY <1>0, <1>12, FlushKept DEF CleanRead, CleanOther, CleanEnds, cleanRest
<1>13. CASE Outside
  BY <1>0, <1>13, OutsideKeeps, FlushKept DEF ctxVars
<1>14. CASE Frees
  <2>1. CASE ForgetCtx /\ timer' = "off"
    BY <2>1 DEF ForgetCtx, FlushSide, FlushTypes
  <2>2. CASE ~ctx /\ UNCHANGED ctxVars
    <3>1. ~TimerActive
      BY <2>2 DEF Inv, LifeSide, Unused
    <3> QED BY <1>0, <2>2, <3>1 DEF FlushSide, FlushTypes, ctxVars
  <2> QED BY <1>14, <2>1, <2>2, FreesForgets
<1>15. CASE FindsBusy
  <2>1. UNCHANGED flushVars /\ UNCHANGED otherPc
    BY <1>15, FindsBusyKeeps DEF ctxVars
  <2>2. removal = "waiting" => removal' = "waiting"
    BY <1>15 DEF FindsBusy, TurFrees, RemoveStarts, RemoveWaits
  <2> QED BY <1>0, <2>1, <2>2 DEF FlushSide, FlushTypes
<1>16. ASSUME NEW c \in Checkers, InstallCtx(c) PROVE FlushSide'
  BY <1>0, <1>16 DEF InstallCtx, FlushSide, FlushTypes
<1>17. ASSUME NEW timeout \in Timeouts, Configure(timeout) PROVE FlushSide'
  BY <1>0, <1>17 DEF Configure, FlushSide, FlushTypes
<1>18. CASE RemovePolls
  BY <1>0, <1>18 DEF RemovePolls, FlushSide, FlushTypes
<1>19. CASE UNCHANGED vars
  BY <1>0, <1>19, FlushKept DEF vars, ctxVars
<1> QED BY <1>1, <1>2, <1>3, <1>4, <1>5, <1>6, <1>7, <1>8, <1>9, <1>10, <1>11, <1>12, <1>13,
           <1>14, <1>15, <1>16, <1>17, <1>18, <1>19, Steps

-----------------------------------------------------------------------------
(* The life of the context *)

\* When nothing is pending, no thread and no queue holds anything.
LEMMA NothingPending ==
  ASSUME Inv, ReadPending = 0, OtherPending = 0
  PROVE  /\ BusyReaders = {} /\ ReadActive = 0 /\ ReadIrpQueue = <<>>
         /\ otherPc = "idle" /\ OtherActive = 0 /\ OtherIrpQueue = <<>>
<1>1. ReadActive = 0 /\ Len(ReadIrpQueue) = 0
  <2>1. ReadActive \in Nat /\ Len(ReadIrpQueue) \in Nat /\ 0 = ReadActive + Len(ReadIrpQueue)
    BY DEF Inv, ReadSide, ReadCounts, ReadTypes
  <2> QED BY <2>1
<1>2. OtherActive = 0 /\ Len(OtherIrpQueue) = 0
  <2>1. OtherActive \in Nat /\ Len(OtherIrpQueue) \in Nat /\ 0 = OtherActive + Len(OtherIrpQueue)
    BY DEF Inv, OtherSide, OtherTypes
  <2> QED BY <2>1
<1>3. BusyReaders = {} /\ otherPc = "idle"
  BY <1>1, <1>2, BusyFinite DEF Inv, ReadSide, ReadCounts, OtherSide
<1>4. ReadIrpQueue \in Seq(Irps) /\ OtherIrpQueue \in Seq(Irps)
  BY DEF Inv, ReadSide, ReadTypes, OtherSide, OtherTypes
<1> QED BY <1>1, <1>2, <1>3, <1>4, EmptySeq

\* No thread, queue or timer has to do with a context that is missing or being recovered.
LEMMA UnusedIsIdle ==
  ASSUME Inv, ~ctx \/ mode = "RECOVERY"
  PROVE  /\ BusyReaders = {} /\ otherPc = "idle" /\ ReadIrpQueue = <<>> /\ OtherIrpQueue = <<>>
         /\ timer = "off" /\ ~FlushPending /\ ReadActive = 0 /\ OtherActive = 0
         /\ ReadPending = 0 /\ OtherPending = 0 /\ ~CacheDirty /\ ~TimerActive
<1>1. ReadPending = 0 /\ OtherPending = 0 /\ ~CacheDirty /\ ~TimerActive
  BY DEF Inv, LifeSide, Unused
<1>2. timer = "off" /\ ~FlushPending
  BY <1>1 DEF Inv, FlushSide
<1> QED BY <1>1, <1>2, NothingPending

unusedSide == <<ReadPending, OtherPending, CacheDirty, TimerActive>>

\* The life of the context is kept by a step that leaves it alone.
LEMMA LifeKept ==
  ASSUME LifeSide, LifeTypes', UNCHANGED <<ctx, unusedSide>>,
         mode' \in {"ACTIVE", "RECOVERY"} => mode \in {"ACTIVE", "RECOVERY"},
         mode' = "RECOVERY" => mode = "RECOVERY"
  PROVE  LifeSide'
  BY DEF LifeSide, Unused, unusedSide

\* A step of a thread at work, so of a context that is used.
LEMMA LifeAtWork ==
  ASSUME Inv, LifeTypes', UNCHANGED ctx, mode' \in {mode, "ERROR"},
         \/ \E t \in Threads : readPc[t] # "free"
         \/ otherPc # "idle"
         \/ ReadIrpQueue # <<>> \/ OtherIrpQueue # <<>>
         \/ timer # "off"
  PROVE  LifeSide'
<1>1. ctx /\ mode # "RECOVERY"
  BY UnusedIsIdle DEF BusyReaders
<1>2. ctx' = ctx /\ (mode' = mode \/ mode' = "ERROR")
  OBVIOUS
<1> QED BY <1>1, <1>2 DEF LifeSide, Unused

\* The life of the context is kept by every step.
LEMMA LifeStep == ASSUME Inv, [Next]_vars PROVE LifeSide'
<1> USE Parameters DEF deviceVars, countVars, flushVars, lifeVars, unusedSide
<1>0. LifeSide /\ LifeTypes
  BY DEF Inv, LifeSide
<1>1. ASSUME NEW i \in Irps, DispatchRead(i) \/ DispatchOther(i) PROVE LifeSide'
  <2>1. ctx /\ mode = "ACTIVE" /\ UNCHANGED <<deviceVars, cleaners, lifeVars, failures>>
    BY <1>1 DEF DispatchRead, DispatchOther, Admits
  <2> QED BY <1>0, <2>1 DEF LifeSide, LifeTypes, Unused
<1>2. ASSUME NEW t \in Threads, ReadDone(t) \/ ReadCompletion(t) PROVE LifeSide'
  <2>1. /\ readPc[t] # "free" /\ UNCHANGED <<deviceVars, lifeVars, failures>>
        /\ UNCHANGED cleaners \/ (cleaners < MaxCleaners /\ cleaners' = cleaners + 1)
    BY <1>2 DEF ReadDone, ReadCompletion, CleanIfLast
  <2>2. LifeTypes'
    BY <1>0, <2>1 DEF LifeTypes
  <2> QED BY <2>1, <2>2, LifeAtWork
<1>3. CASE OtherWorks
  <2>1. UNCHANGED <<deviceVars, cleaners, lifeVars, failures>>
    BY <1>3, OtherWorksKeeps DEF otherStepRest
  <2>2. otherPc # "idle"
    BY <1>3 DEF OtherWorks, WriteAbort, WriteEnds, WriteIo, WritePurge, WriteClose, WritePrepare,
                FlushFill, FlushPurge, FlushClose, FlushEnds, PassDone, IoDone, PurgeDone,
                PrepareDone, Handling, WritingActive
  <2>3. LifeTypes'
    BY <1>0, <2>1 DEF LifeTypes
  <2> QED BY <2>1, <2>2, <2>3, LifeAtWork
<1>4. CASE IoFails
  <2>1. /\ otherPc # "idle" /\ UNCHANGED <<ctx, cleaners, lifeVars>> /\ mode' \in {mode, "ERROR"}
        /\ failures < MaxFailures /\ failures' = failures + 1
    BY <1>4 DEF IoFails
  <2>2. LifeTypes'
    BY <1>0, <2>1 DEF LifeTypes
  <2> QED BY <2>1, <2>2, LifeAtWork
<1>5. CASE NextOther \/ TimedFlush \/ OtherIdle
  <2>1. /\ otherPc # "idle" /\ UNCHANGED <<deviceVars, lifeVars, failures>>
        /\ UNCHANGED cleaners \/ (cleaners < MaxCleaners /\ cleaners' = cleaners + 1)
    BY <1>5 DEF NextOther, TimedFlush, OtherIdle, completionRest, CleanIfLast
  <2>2. LifeTypes'
    BY <1>0, <2>1 DEF LifeTypes
  <2> QED BY <2>1, <2>2, LifeAtWork
<1>6. CASE TimerExpires \/ FlushDpc
  <2>1. timer # "off" /\ UNCHANGED <<deviceVars, cleaners, lifeVars, failures>>
    BY <1>6 DEF TimerExpires, FlushDpc
  <2>2. LifeTypes'
    BY <1>0, <2>1 DEF LifeTypes
  <2> QED BY <2>1, <2>2, LifeAtWork
<1>7. CASE CleanRead \/ CleanOther
  <2>1. /\ ReadIrpQueue # <<>> \/ OtherIrpQueue # <<>>
        /\ UNCHANGED <<deviceVars, cleaners, lifeVars, failures>>
    BY <1>7 DEF CleanRead, CleanOther, cleanRest
  <2>2. LifeTypes'
    BY <1>0, <2>1 DEF LifeTypes
  <2> QED BY <2>1, <2>2, LifeAtWork
<1>8. CASE CleanEnds
  <2>1. /\ UNCHANGED <<deviceVars, unusedSide, lifeVars, failures>>
        /\ cleaners > 0 /\ cleaners' = cleaners - 1
    BY <1>8 DEF CleanEnds, cleanRest
  <2>2. LifeTypes'
    BY <1>0, <2>1 DEF LifeTypes
  <2> QED BY <1>0, <2>1, <2>2, LifeKept
<1>9. CASE Outside
  <2>1. UNCHANGED <<ctx, unusedSide, cleaners, removal>>
    BY <1>9, OutsideKeeps DEF ctxVars
  <2> DEFINE Fine == /\ LifeTypes'
                     /\ mode' \in {"ACTIVE", "RECOVERY"} => mode \in {"ACTIVE", "RECOVERY"}
                     /\ mode' = "RECOVERY" => mode = "RECOVERY"
  <2>2. Fine
    <3>1. ASSUME NEW u \in Turs, \/ TurSucceeds(u) \/ TurFails(u) \/ TurLooksForError(u)
                                 \/ TurLooksForCompleted(u)
          PROVE  Fine
      <4>1. /\ mode' \in {mode, "INITIAL", "ERROR"} /\ LevelingCapable' \in BOOLEAN
            /\ TURErrors' \in 0..(MaxTURErrors + 1)
            /\ tur' \in [Turs -> {"none", "failed", "free", "ends", "freeLast"}]
            /\ UNCHANGED <<check, worker, formatting, failures>>
        <5> USE <1>0 DEF LifeTypes, turRest
        <5>1. CASE TurSucceeds(u)
          BY <5>1 DEF TurSucceeds
        <5>2. CASE TurFails(u)
          BY <5>2 DEF TurFails
        <5>3. CASE TurLooksForError(u) \/ TurLooksForCompleted(u)
          BY <5>3 DEF TurLooksForError, TurLooksForCompleted
        <5> QED BY <3>1, <5>1, <5>2, <5>3
      <4> QED BY <1>0, <2>1, <4>1 DEF LifeTypes
    <3>2. ASSUME NEW c \in Checkers, \/ CheckStarts(c) \/ CheckFails(c) \/ CheckCapacity(c)
                                     \/ CheckSector(c) \/ CheckEnds(c)
          PROVE  Fine
      <4>1. /\ mode' \in {mode, "DIRECT", "ERROR"} /\ LevelingCapable' \in BOOLEAN
            /\ check' \in [Checkers -> {"none", "capacity", "sector", "install", "direct"}]
            /\ UNCHANGED <<tur, TURErrors, worker, formatting, failures>>
        <5> USE <1>0 DEF LifeTypes, checkRest
        <5>1. CASE CheckStarts(c) \/ CheckFails(c)
          BY <5>1 DEF CheckStarts, CheckFails
        <5>2. CASE CheckCapacity(c)
          BY <5>2 DEF CheckCapacity
        <5>3. CASE CheckSector(c)
          BY <5>3 DEF CheckSector
        <5>4. CASE CheckEnds(c)
          BY <5>4 DEF CheckEnds
        <5> QED BY <3>2, <5>1, <5>2, <5>3, <5>4
      <4> QED BY <1>0, <2>1, <4>1 DEF LifeTypes
    <3>3. CASE RecoveryStarts \/ RecoveryEnds \/ RecoveryFails
      <4>1. /\ mode' = mode \/ (mode = "RECOVERY" /\ mode' \in {"ACTIVE", "ERROR"})
            /\ worker' \in {"running", "none"} /\ failures' \in 0..MaxFailures
            /\ UNCHANGED <<tur, TURErrors, check, LevelingCapable, formatting>>
        BY <1>0, <3>3 DEF LifeTypes, RecoveryStarts, RecoveryEnds, RecoveryFails, workerRest
      <4> QED BY <1>0, <2>1, <4>1 DEF LifeTypes
    <3>4. CASE FormatAsked \/ FormatStarts \/ FormatRefused \/ FormatEnds \/ FormatFails
      <4>1. /\ mode' \in {mode, "FORMAT", "COMPLETED", "ERROR"}
            /\ formatting' \in {"none", "reading", "writing"} /\ failures' \in 0..MaxFailures
            /\ UNCHANGED <<tur, TURErrors, check, LevelingCapable, worker>>
        BY <1>0, <3>4 DEF LifeTypes, FormatAsked, FormatStarts, FormatRefused, FormatEnds,
                          FormatFails, formatRest
      <4> QED BY <1>0, <2>1, <4>1 DEF LifeTypes
    <3> QED BY <1>9, <3>1, <3>2, <3>3, <3>4 DEF Outside
  <2> QED BY <1>0, <2>1, <2>2, LifeKept
<1>10. CASE Frees
  <2>1. /\ mode' = "INITIAL" /\ ctx' = FALSE /\ LevelingCapable' = FALSE /\ UNCHANGED cleaners
        /\ worker' \in {worker, "none", "stale"} /\ UNCHANGED <<TURErrors, check, formatting, failures>>
        /\ tur' \in [Turs -> {"none", "failed", "free", "ends", "freeLast"}]
        /\ removal' \in {removal, "done"}
    BY <1>0, <1>10 DEF Frees, TurFrees, RemoveFrees, FreeCtx, removeRest, LifeTypes
  <2>2. LifeTypes'
    BY <1>0, <2>1 DEF LifeTypes
  <2>3. Unused'
    <3>1. CASE ForgetCtx
      BY <3>1 DEF ForgetCtx, Unused
    <3>2. CASE ~ctx /\ UNCHANGED ctxVars
      BY <1>0, <3>2 DEF LifeSide, Unused, ctxVars
    <3> QED BY <1>10, <3>1, <3>2, FreesForgets
  <2> QED BY <2>1, <2>2, <2>3 DEF LifeSide
<1>11. CASE FindsBusy
  <2>1. UNCHANGED <<deviceVars, unusedSide, cleaners>>
    BY <1>11, FindsBusyKeeps DEF ctxVars
  <2> DEFINE Fine == /\ tur' \in [Turs -> {"none", "failed", "free", "ends", "freeLast"}]
                     /\ LevelingCapable' \in BOOLEAN /\ worker' = worker
                     /\ UNCHANGED <<TURErrors, check, formatting, failures>>
                     /\ removal' \in {removal, "called", "waiting"}
  <2>2. Fine
    <3>1. ASSUME NEW u \in Turs, TurFrees(u), UNCHANGED <<deviceVars, ctxVars, worker>>
          PROVE  Fine
      BY <1>0, <3>1 DEF TurFrees, FreeLevelingCtx, FreeCtx, LifeTypes
    <3>2. CASE RemoveStarts \/ RemoveWaits
      BY <1>0, <3>2 DEF RemoveStarts, RemoveWaits, removeRest, LifeTypes
    <3> QED BY <1>11, <3>1, <3>2 DEF FindsBusy
  <2>3. LifeTypes'
    BY <1>0, <2>1, <2>2 DEF LifeTypes
  <2> QED BY <1>0, <2>1, <2>3, LifeKept
<1>12. ASSUME NEW c \in Checkers, InstallCtx(c) PROVE LifeSide'
  <2>1. /\ check' \in [Checkers -> {"none", "capacity", "sector", "install", "direct"}]
        /\ worker' \in {worker, "queued", "stale"}
        /\ UNCHANGED <<unusedSide, cleaners, tur, TURErrors, LevelingCapable, formatting, removal,
                       failures>>
        /\ UNCHANGED deviceVars \/ (~ctx /\ ctx' = TRUE /\ mode' = "RECOVERY")
    BY <1>0, <1>12 DEF InstallCtx, LifeTypes
  <2>2. LifeTypes'
    BY <1>0, <2>1 DEF LifeTypes
  <2>3. CASE UNCHANGED deviceVars
    BY <1>0, <2>1, <2>2, <2>3, LifeKept
  <2>4. CASE ~ctx /\ ctx' = TRUE /\ mode' = "RECOVERY"
    BY <1>0, <2>1, <2>2, <2>4 DEF LifeSide, Unused
  <2> QED BY <2>1, <2>3, <2>4
<1>13. ASSUME NEW timeout \in Timeouts, Configure(timeout) PROVE LifeSide'
  <2>1. UNCHANGED <<deviceVars, unusedSide, cleaners, lifeVars, failures>>
    BY <1>13 DEF Configure
  <2>2. LifeTypes'
    BY <1>0, <2>1 DEF LifeTypes
  <2> QED BY <1>0, <2>1, <2>2, LifeKept
<1>14. CASE RemovePolls
  <2>1. /\ UNCHANGED <<ctx, unusedSide, cleaners, tur, TURErrors, check, worker, formatting,
                       removal, failures>>
        /\ mode' \in {mode, "INITIAL"} /\ LevelingCapable' \in BOOLEAN
    BY <1>0, <1>14 DEF RemovePolls, removeRest, LifeTypes
  <2>2. LifeTypes'
    BY <1>0, <2>1 DEF LifeTypes
  <2> QED BY <1>0, <2>1, <2>2, LifeKept
<1>15. CASE UNCHANGED vars
  <2>1. UNCHANGED <<deviceVars, unusedSide, cleaners, lifeVars, failures>>
    BY <1>15 DEF vars, ctxVars
  <2>2. LifeTypes'
    BY <1>0, <2>1 DEF LifeTypes
  <2> QED BY <1>0, <2>1, <2>2, LifeKept
<1> QED BY <1>1, <1>2, <1>3, <1>4, <1>5, <1>6, <1>7, <1>8, <1>9, <1>10, <1>11, <1>12, <1>13,
           <1>14, <1>15, Steps

-----------------------------------------------------------------------------
(* Nobody is forgotten in a queue *)

\* A change of mode in a context at work: who is at work, or cleans, sees it later.
LEMMA ModeChange ==
  ASSUME Inv, UNCHANGED <<ctx, queueVars, ReadActive, OtherActive, cleaners>>,
         mode' = "ACTIVE" => mode \in {"ACTIVE", "RECOVERY"}
  PROVE  NobodyForgotten'
<1>1. CASE mode' = "ACTIVE" /\ mode = "RECOVERY"
  BY <1>1, UnusedIsIdle DEF NobodyForgotten, queueVars
<1>2. CASE mode' = mode
  BY <1>2, QueuesKept DEF Inv, queueSide
<1>3. CASE mode' # "ACTIVE"
  BY <1>3, Parameters DEF Inv, NobodyForgotten, queueVars
<1> QED BY <1>1, <1>2, <1>3

\* No request is forgotten by any step.
LEMMA QueueStep == ASSUME Inv, [Next]_vars PROVE NobodyForgotten'
<1> USE Parameters DEF queueSide, queueVars, deviceVars, countVars
<1>0. /\ NobodyForgotten /\ ReadActive \in 0..READ_THREADS /\ OtherActive \in 0..1
      /\ cleaners \in Nat
      /\ ReadIrpQueue \in Seq(Irps) /\ OtherIrpQueue \in Seq(Irps)
      /\ OtherActive = IF otherPc = "idle" THEN 0 ELSE 1
  BY DEF Inv, ReadSide, ReadTypes, OtherSide, OtherTypes, LifeSide, LifeTypes
<1>1. ASSUME NEW i \in Irps, DispatchRead(i) PROVE NobodyForgotten'
  <2>1. /\ ctx /\ mode = "ACTIVE"
        /\ UNCHANGED <<ctx, mode, OtherActive, OtherIrpQueue, cleaners>>
        /\ \/ ReadActive < READ_THREADS /\ ReadActive' = ReadActive + 1 /\ UNCHANGED ReadIrpQueue
           \/ ReadActive >= READ_THREADS /\ UNCHANGED ReadActive
    BY <1>1 DEF DispatchRead, Admits
  <2> QED BY <1>0, <2>1 DEF NobodyForgotten
<1>2. ASSUME NEW i \in Irps, DispatchOther(i) PROVE NobodyForgotten'
  <2>1. /\ ctx /\ mode = "ACTIVE"
        /\ UNCHANGED <<ctx, mode, ReadActive, ReadIrpQueue, cleaners>> /\ OtherActive' = 1
    BY <1>0, <1>2 DEF DispatchOther, Admits
  <2> QED BY <1>0, <2>1 DEF NobodyForgotten
<1>3. ASSUME NEW t \in Threads, ReadDone(t) PROVE NobodyForgotten'
  BY <1>0, <1>3, QueuesKept DEF ReadDone
<1>4. ASSUME NEW t \in Threads, ReadCompletion(t) PROVE NobodyForgotten'
  <2>1. UNCHANGED <<ctx, mode, OtherActive, OtherIrpQueue>>
    BY <1>4 DEF ReadCompletion
  <2>2. CASE TakeNextRead(t)
    <3>1. mode = "ACTIVE" /\ ReadIrpQueue # <<>> /\ UNCHANGED ReadActive
      BY <2>2 DEF TakeNextRead
    <3> QED BY <1>0, <2>1, <3>1 DEF NobodyForgotten
  <2>3. CASE ReleaseReader(t)
    <3>1. /\ mode # "ACTIVE" \/ ReadIrpQueue = <<>>
          /\ ReadActive' = ReadActive - 1 /\ UNCHANGED ReadIrpQueue
      BY <2>3 DEF ReleaseReader
    <3>2. CASE mode = "ACTIVE"
      BY <1>0, <2>1, <3>1, <3>2 DEF NobodyForgotten
    <3>3. CASE mode # "ACTIVE"
      <4>1. ReadActive' \in Nat
        BY <1>4, ReadStep DEF ReadSide, ReadTypes, Next, ReaderServes
      <4>2. ReadActive' > 0 \/ OtherActive' > 0 \/ cleaners' > 0
        BY <1>0, <1>4, <2>1, <3>3, <4>1 DEF ReadCompletion, CleanIfLast
      <4> QED BY <2>1, <3>3, <4>2 DEF NobodyForgotten
    <3> QED BY <3>2, <3>3
  <2> QED BY <1>4, <2>2, <2>3 DEF ReadCompletion
<1>5. CASE OtherWorks
  BY <1>0, <1>5, OtherWorksKeeps, QueuesKept DEF otherStepRest
<1>6. CASE IoFails
  <2>1. /\ UNCHANGED <<ctx, queueVars, ReadActive, OtherActive, cleaners>>
        /\ mode' = "ACTIVE" => mode = "ACTIVE"
    BY <1>6 DEF IoFails
  <2> QED BY <2>1, ModeChange
<1>7. CASE NextOther
  <2>1. /\ otherPc = "done" /\ mode = "ACTIVE"
        /\ UNCHANGED <<ctx, mode, ReadActive, ReadIrpQueue, OtherActive>>
    BY <1>7 DEF NextOther, GoesOn, completionRest
  <2> QED BY <1>0, <2>1 DEF NobodyForgotten
<1>8. CASE TimedFlush
  BY <1>0, <1>8, QueuesKept DEF TimedFlush, completionRest
<1>9. CASE OtherIdle
  <2>1. /\ mode # "ACTIVE" \/ OtherIrpQueue = <<>>
        /\ OtherActive' = 0 /\ UNCHANGED <<ctx, mode, ReadActive, queueVars>>
    BY <1>0, <1>9 DEF OtherIdle, GoesOn
  <2>2. CASE mode = "ACTIVE"
    BY <1>0, <2>1, <2>2 DEF NobodyForgotten
  <2>3. CASE mode # "ACTIVE"
    <3>1. ReadActive' > 0 \/ cleaners' > 0
      BY <1>0, <1>9, <2>1, <2>3 DEF OtherIdle, CleanIfLast
    <3> QED BY <2>1, <2>3, <3>1 DEF NobodyForgotten
  <2> QED BY <2>2, <2>3
<1>10. CASE TimerExpires
  BY <1>0, <1>10, QueuesKept DEF TimerExpires
<1>11. CASE FlushDpc
  <2>1. /\ UNCHANGED <<ctx, mode, ReadActive, queueVars, cleaners>>
        /\ UNCHANGED OtherActive \/ (mode = "ACTIVE" /\ OtherActive' = 1)
    BY <1>11 DEF FlushDpc
  <2> QED BY <1>0, <2>1 DEF NobodyForgotten
<1>12. CASE CleanRead \/ CleanOther
  <2>1. /\ UNCHANGED <<ctx, mode, ReadActive, OtherActive, cleaners>>
        /\ mode # "ACTIVE" /\ cleaners > 0
    BY <1>12 DEF CleanRead, CleanOther, cleanRest, Cleanable
  <2> QED BY <1>0, <2>1 DEF NobodyForgotten
<1>13. CASE CleanEnds
  <2>1. /\ UNCHANGED <<ctx, mode, ReadActive, OtherActive, queueVars>>
        /\ ~ctx \/ mode = "ACTIVE" \/ (ReadIrpQueue = <<>> /\ OtherIrpQueue = <<>>)
    BY <1>13 DEF CleanEnds, cleanRest, Cleanable
  <2> QED BY <1>0, <2>1 DEF NobodyForgotten
<1>14. CASE Outside
  <2>1. UNCHANGED <<ctx, queueVars, ReadActive, OtherActive, cleaners>>
    BY <1>14, OutsideKeeps DEF ctxVars
  <2>2. mode' = "ACTIVE" => mode \in {"ACTIVE", "RECOVERY"}
    BY <1>14, OutsideActivates
  <2> QED BY <2>1, <2>2, ModeChange
<1>15. CASE Frees
  BY <1>15, FreesForgets DEF NobodyForgotten
<1>16. CASE FindsBusy
  BY <1>0, <1>16, FindsBusyKeeps, QueuesKept DEF ctxVars
<1>17. ASSUME NEW c \in Checkers, InstallCtx(c) PROVE NobodyForgotten'
  <2>1. /\ UNCHANGED <<queueVars, ReadActive, OtherActive, cleaners>>
        /\ UNCHANGED <<ctx, mode>> \/ (~ctx /\ mode' = "RECOVERY")
    BY <1>17 DEF InstallCtx
  <2>2. CASE UNCHANGED <<ctx, mode>>
    BY <1>0, <2>1, <2>2, QueuesKept
  <2>3. CASE ~ctx
    <3>1. ReadIrpQueue = <<>> /\ OtherIrpQueue = <<>>
      BY <2>3, UnusedIsIdle
    <3> QED BY <2>1, <3>1 DEF NobodyForgotten
  <2> QED BY <2>1, <2>2, <2>3
<1>18. ASSUME NEW timeout \in Timeouts, Configure(timeout) PROVE NobodyForgotten'
  BY <1>0, <1>18, QueuesKept DEF Configure
<1>19. CASE RemovePolls
  <2>1. UNCHANGED <<queueVars, ReadActive, OtherActive, cleaners, ctx>>
    BY <1>19 DEF RemovePolls, removeRest
  <2>2. mode' = mode \/ mode' = "INITIAL"
    BY <1>19 DEF RemovePolls
  <2> QED BY <2>1, <2>2, ModeChange
<1>20. CASE UNCHANGED vars
  BY <1>0, <1>20, QueuesKept DEF vars, ctxVars
<1> QED BY <1>1, <1>2, <1>3, <1>4, <1>5, <1>6, <1>7, <1>8, <1>9, <1>10, <1>11, <1>12, <1>13,
           <1>14, <1>15, <1>16, <1>17, <1>18, <1>19, <1>20, Steps

-----------------------------------------------------------------------------
(* What holds always *)

\* A device just added.
LEMMA InitInv == Init => Inv
<1> SUFFICES ASSUME Init PROVE Inv
  OBVIOUS
<1> USE Parameters DEF Init
<1>1. ReadSide
  <2>1. BusyReaders = {}
    BY DEF BusyReaders, FreeReaders
  <2>2. ReadTypes
    BY DEF ReadTypes, FreshLinks, FreeReaders, NoReads, Threads, Busy
  <2>3. ReadCounts
    BY <2>1, FS_EmptySet DEF ReadCounts
  <2>4. FreeListExact
    <3>1. READ_THREADS - 0 = READ_THREADS
      OBVIOUS
    <3> QED BY <2>1, <3>1, ListFresh, ListExact
  <2>5. ReadsOnce
    BY DEF ReadsOnce, NoReads, Distinct, InQueue
  <2> QED BY <2>2, <2>3, <2>4, <2>5 DEF ReadSide
<1>2. OtherSide
  BY DEF OtherSide, OtherTypes, Kinds
<1>3. MarkSide /\ FlushSide
  BY DEF MarkSide, MarkTypes, WaitIsJustified, FlushSide, FlushTypes
<1>4. LifeSide
  <2>1. 0 \in 0..(MaxTURErrors + 1) /\ 0 \in 0..MaxCleaners /\ 0 \in 0..MaxFailures
    OBVIOUS
  <2>2. LifeTypes
    BY <2>1 DEF LifeTypes
  <2> QED BY <2>2 DEF LifeSide, Unused
<1>5. NobodyForgotten
  BY DEF NobodyForgotten
<1> QED BY <1>1, <1>2, <1>3, <1>4, <1>5 DEF Inv

\* The invariant is kept by every step.
LEMMA Step == ASSUME Inv, [Next]_vars PROVE Inv'
  BY ReadStep, OtherStep, MarkStep, FlushStep, LifeStep, QueueStep DEF Inv

\* The invariant holds in every reachable state.
LEMMA Invariance == Spec => []Inv
  BY InitInv, Step, PTL DEF Spec

\* Every variable stays in its type: the bytes that count requests and threads (vgate.h)
\* never fall below zero, and no read thread beyond READ_THREADS is given out.
THEOREM TypeCorrect == Spec => []TypeOK
<1>1. Inv => TypeOK
  BY DEF Inv, ReadSide, ReadTypes, OtherSide, OtherTypes, MarkSide, MarkTypes, FlushSide,
         FlushTypes, LifeSide, LifeTypes, TypeOK
<1> QED BY <1>1, Invariance, PTL

\* ReadPending, OtherPending, ReadActive and OtherActive, which decide who may free the
\* context and who goes last (vgate.c:121-135, 376), count exactly what is queued and at work.
THEOREM CountersExact == Spec => []CountersAgree
<1>1. Inv => CountersAgree
  BY DEF Inv, ReadSide, ReadCounts, OtherSide, CountersAgree
<1> QED BY <1>1, Invariance, PTL

\* ReadFreeList and FreeLink always link exactly the free read threads, each once
\* (vgate.c:195-203, 336-341).
THEOREM FreeListKept == Spec => []FreeListExact
<1>1. Inv => FreeListExact
  BY DEF Inv, ReadSide
<1> QED BY <1>1, Invariance, PTL

\* No request waits in a queue that nobody will look at again: LevelingThreadCompletion and
\* LevelingCleanAfterModeChanged (vgate.c:289-388) reach each.
THEOREM NobodyIsForgotten == Spec => []NobodyForgotten
<1>1. Inv => NobodyForgotten
  BY DEF Inv
<1> QED BY <1>1, Invariance, PTL

\* The other thread waits only for marked readers that are at work, and is woken by the last
\* of them and by nobody else (vgate.c:228-262, 344-350).
THEOREM WaitJustified == Spec => []WaitIsJustified
<1>1. Inv => WaitIsJustified
  BY DEF Inv, MarkSide
<1> QED BY <1>1, Invariance, PTL

\* A flush DPC on its way always finds the context it was queued for (vgate.c:279), whoever
\* frees it in whatever mode.
THEOREM DpcFinds == Spec => []DpcFindsContext
<1>1. Inv => DpcFindsContext
  BY UnusedIsIdle DEF DpcFindsContext
<1> QED BY <1>1, Invariance, PTL

\* FreeLevelingCtx (vgate.c:111-160) frees the context only when nothing refers to it.
THEOREM FreedUnused == Spec => FreedWhenUnused
<1>1. ASSUME Inv, [Next]_vars, ctx, ~ctx'
      PROVE  /\ BusyReaders = {} /\ otherPc = "idle"
             /\ ReadIrpQueue = <<>> /\ OtherIrpQueue = <<>> /\ timer' = "off"
  <2>1. Frees
    <3> USE <1>1 DEF deviceVars
    <3>1. ASSUME NEW i \in Irps, DispatchRead(i) \/ DispatchOther(i) PROVE FALSE
      BY <3>1 DEF DispatchRead, DispatchOther
    <3>2. ASSUME NEW t \in Threads, ReadDone(t) \/ ReadCompletion(t) PROVE FALSE
      BY <3>2 DEF ReadDone, ReadCompletion
    <3>3. ~OtherWorks /\ ~Outside /\ ~FindsBusy
      BY OtherWorksKeeps, OutsideKeeps, FindsBusyKeeps DEF otherStepRest
    <3>4. ~IoFails /\ ~NextOther /\ ~TimedFlush /\ ~OtherIdle
      BY DEF IoFails, NextOther, TimedFlush, OtherIdle, completionRest
    <3>5. ~TimerExpires /\ ~FlushDpc /\ ~CleanRead /\ ~CleanOther /\ ~CleanEnds
      BY DEF TimerExpires, FlushDpc, CleanRead, CleanOther, CleanEnds, cleanRest
    <3>6. ASSUME NEW c \in Checkers, InstallCtx(c) PROVE FALSE
      BY <3>6 DEF InstallCtx
    <3>7. ASSUME NEW timeout \in Timeouts, Configure(timeout) PROVE FALSE
      BY <3>7 DEF Configure
    <3>8. ~RemovePolls /\ ~UNCHANGED vars
      BY DEF RemovePolls, vars
    <3> QED BY <3>1, <3>2, <3>3, <3>4, <3>5, <3>6, <3>7, <3>8, Steps
  <2>2. timer' = "off" /\ ReadPending = 0 /\ OtherPending = 0
    BY <1>1, <2>1, FreesForgets
  <2> QED BY <1>1, <2>2, NothingPending
<1>2. Inv /\ [Next]_vars =>
        [ctx /\ ~ctx' => /\ BusyReaders = {} /\ otherPc = "idle"
                         /\ ReadIrpQueue = <<>> /\ OtherIrpQueue = <<>>
                         /\ timer' = "off"]_vars
  BY <1>1
<1> QED BY <1>2, Invariance, PTL DEF Spec, FreedWhenUnused

-----------------------------------------------------------------------------
(* Without removal *)

NotRemoved == removal = "none"

\* Without a removal the device stays.
LEMMA NotRemovedStep ==
  ASSUME ~Removal, Inv, NotRemoved, [Next]_vars
  PROVE  NotRemoved'
<1> USE DEF NotRemoved, lifeVars
<1>1. ASSUME NEW i \in Irps, DispatchRead(i) \/ DispatchOther(i) PROVE NotRemoved'
  BY <1>1 DEF DispatchRead, DispatchOther
<1>2. ASSUME NEW t \in Threads, ReadDone(t) \/ ReadCompletion(t) PROVE NotRemoved'
  BY <1>2 DEF ReadDone, ReadCompletion
<1>3. CASE OtherWorks
  BY <1>3, OtherWorksKeeps DEF otherStepRest
<1>4. CASE IoFails \/ NextOther \/ TimedFlush \/ OtherIdle
  BY <1>4 DEF IoFails, NextOther, TimedFlush, OtherIdle, completionRest
<1>5. CASE TimerExpires \/ FlushDpc \/ CleanRead \/ CleanOther \/ CleanEnds
  BY <1>5 DEF TimerExpires, FlushDpc, CleanRead, CleanOther, CleanEnds, cleanRest
<1>6. CASE Outside
  BY <1>6, OutsideKeeps
<1>7. CASE Frees \/ FindsBusy
  BY <1>7 DEF Frees, FindsBusy, TurFrees, RemoveFrees, RemoveStarts, RemoveWaits
<1>8. ASSUME NEW c \in Checkers, InstallCtx(c) PROVE NotRemoved'
  BY <1>8 DEF InstallCtx
<1>9. ASSUME NEW timeout \in Timeouts, Configure(timeout) PROVE NotRemoved'
  BY <1>9 DEF Configure
<1>10. CASE RemovePolls \/ UNCHANGED vars
  BY <1>10 DEF RemovePolls, vars
<1> QED BY <1>1, <1>2, <1>3, <1>4, <1>5, <1>6, <1>7, <1>8, <1>9, <1>10, Steps

\* So it does for ever.
LEMMA StaysAttached == ASSUME ~Removal PROVE Spec => []NotRemoved
<1>1. Init => NotRemoved
  BY DEF Init, NotRemoved
<1>2. Inv /\ NotRemoved /\ [Next]_vars => NotRemoved'
  BY NotRemovedStep
<1> QED BY <1>1, <1>2, Invariance, PTL DEF Spec

\* TimerActive, from which FreeLevelingCtx and the other thread conclude what the timer does
\* (vgate.c:121-135, 358-366), is true exactly while the timer runs, its DPC is on the way,
\* or the flush it asked for is still to be started.
THEOREM TimerKept == ASSUME ~Removal PROVE Spec => []TimerAccounted
<1>1. Inv /\ NotRemoved => TimerAccounted
  BY DEF Inv, FlushSide, FlushTypes, NotRemoved, TimerAccounted
<1> QED BY <1>1, Invariance, StaysAttached, PTL

-----------------------------------------------------------------------------
(* A dirty cache *)

dirtySide == <<mode, otherPc, CacheDirty, CacheTimeout, timer>>

\* Dirty data keeps its timer.
LEMMA DirtyStep ==
  ASSUME ~Reconfigure, Inv, NotRemoved, DirtyHasTimer, [Next]_vars
  PROVE  DirtyHasTimer'
<1> USE DEF DirtyHasTimer, flushVars, otherVars, deviceVars
<1>0. FlushSide /\ FlushTypes /\ OtherSide
  BY DEF Inv, FlushSide
<1>1. ASSUME NEW i \in Irps, DispatchRead(i) PROVE DirtyHasTimer'
  BY <1>1 DEF DispatchRead
<1>2. ASSUME NEW i \in Irps, DispatchOther(i) PROVE DirtyHasTimer'
  BY <1>2 DEF DispatchOther, StartOther
<1>3. ASSUME NEW t \in Threads, ReadDone(t) PROVE DirtyHasTimer'
  BY <1>3 DEF ReadDone
<1>4. ASSUME NEW t \in Threads, ReadCompletion(t) PROVE DirtyHasTimer'
  <2>1. UNCHANGED <<mode, flushVars>>
    BY <1>4 DEF ReadCompletion
  <2>2. UNCHANGED otherPc \/ otherPc' = "run"
    BY <1>4, UnmarkWakes DEF ReadCompletion
  <2> QED BY <2>1, <2>2
<1>5. CASE OtherWorks
  <2>1. otherPc' # "idle"
    <3> USE DEF StartIo, EndRequest
    <3>1. CASE WriteAbort \/ WriteEnds \/ WriteIo \/ WritePurge \/ WriteClose \/ WritePrepare
      BY <3>1 DEF WriteAbort, WriteEnds, WriteIo, WritePurge, WriteClose, WritePrepare
    <3>2. CASE FlushFill \/ FlushPurge \/ FlushClose \/ FlushEnds \/ PassDone
      BY <3>2 DEF FlushFill, FlushPurge, FlushClose, FlushEnds, PassDone
    <3>3. CASE IoDone \/ PurgeDone \/ PrepareDone
      BY <3>3 DEF IoDone, PurgeDone, PrepareDone
    <3> QED BY <1>5, <3>1, <3>2, <3>3 DEF OtherWorks
  <2> QED BY <2>1
<1>6. CASE IoFails \/ NextOther \/ TimedFlush
  BY <1>6 DEF IoFails, NextOther, TimedFlush, StartOther
<1>7. CASE OtherIdle
  <2>1. /\ UNCHANGED <<mode, CacheDirty, CacheTimeout>>
        /\ \/ timer' = "set"
           \/ ~(CacheDirty /\ CacheTimeout)
           \/ TimerActive /\ ~FlushPending /\ timer' = timer
    BY <1>7 DEF OtherIdle
  <2>2. TimerActive /\ ~FlushPending => timer # "off"
    BY <1>0 DEF FlushSide, NotRemoved
  <2> QED BY <2>1, <2>2
<1>8. CASE TimerExpires
  BY <1>8 DEF TimerExpires
<1>9. CASE FlushDpc
  <2>1. /\ UNCHANGED <<mode, CacheDirty, CacheTimeout>>
        /\ \/ otherPc' # "idle"
           \/ ~(CacheDirty /\ mode = "ACTIVE")
    BY <1>0, <1>9 DEF FlushDpc, StartOther, OtherSide
  <2> QED BY <2>1
<1>10. CASE CleanRead \/ CleanOther \/ CleanEnds
  BY <1>10 DEF CleanRead, CleanOther, CleanEnds, cleanRest
<1>11. CASE Outside
  <2>1. UNCHANGED <<ctx, flushVars, otherPc>>
    BY <1>11, OutsideKeeps DEF ctxVars
  <2>2. mode' = "ACTIVE" => mode \in {"ACTIVE", "RECOVERY"}
    BY <1>11, OutsideActivates
  <2>3. mode = "RECOVERY" => ~CacheDirty
    BY UnusedIsIdle
  <2> QED BY <2>1, <2>2, <2>3
<1>12. CASE Frees
  BY <1>12, FreesForgets
<1>13. CASE FindsBusy
  BY <1>13, FindsBusyKeeps DEF ctxVars
<1>14. ASSUME NEW c \in Checkers, InstallCtx(c) PROVE DirtyHasTimer'
  BY <1>14 DEF InstallCtx
<1>15. CASE \E timeout \in Timeouts : Configure(timeout)
  BY <1>15 DEF Configure
<1>16. CASE RemovePolls
  BY <1>16 DEF RemovePolls, NotRemoved
<1>17. CASE UNCHANGED vars
  BY <1>17 DEF vars, ctxVars
<1> QED BY <1>1, <1>2, <1>3, <1>4, <1>5, <1>6, <1>7, <1>8, <1>9, <1>10, <1>11, <1>12, <1>13,
           <1>14, <1>15, <1>16, <1>17, Steps

\* A dirty cache is never left alone: when the other thread goes idle, LevelingThreadCompletion
\* (vgate.c:358-366) has armed the timer, and every path that calls the timer off leaves the
\* cache clean or the thread at work.  Switching the timeout on arms none (config.c:124).
THEOREM DirtyCacheTimed == ASSUME ~Removal, ~Reconfigure PROVE Spec => []DirtyHasTimer
<1>1. Init => DirtyHasTimer
  BY DEF Init, DirtyHasTimer
<1>2. Inv /\ NotRemoved /\ DirtyHasTimer /\ [Next]_vars => DirtyHasTimer'
  BY DirtyStep
<1> QED BY <1>1, <1>2, Invariance, StaysAttached, PTL DEF Spec

-----------------------------------------------------------------------------
(* Recovery and format, undisturbed *)

OneTur == \A u, v \in Turs : u = v

Calm == ~Removal /\ ~FormatMeetsFree /\ "oversized" \notin Media /\ OneTur

\* What a TEST UNIT READY that is about to free the context has seen is still true.
TurIsRight ==
  \A u \in Turs : /\ tur[u] = "free" => mode = "ERROR"
                  /\ tur[u] = "freeLast" => mode = "COMPLETED"

Undisturbed == RecoveryUndisturbed /\ FormatUndisturbed /\ TurIsRight

lifeSide == <<mode, ctx, worker, formatting, tur>>

\* Nothing is disturbed by a step that leaves mode and life alone.
LEMMA UndisturbedKept == ASSUME Undisturbed, UNCHANGED lifeSide PROVE Undisturbed'
  BY DEF Undisturbed, RecoveryUndisturbed, FormatUndisturbed, TurIsRight, lifeSide

\* An active device has nothing to disturb: an I/O may fail.
LEMMA UndisturbedFails ==
  ASSUME Undisturbed, UNCHANGED <<ctx, worker, formatting, tur>>,
         mode' = IF mode = "ACTIVE" THEN "ERROR" ELSE mode
  PROVE  Undisturbed'
  BY DEF Undisturbed, RecoveryUndisturbed, FormatUndisturbed, TurIsRight

\* Nothing is disturbed by any step of a calm device.
LEMMA UndisturbedStep ==
  ASSUME Calm, Inv, NotRemoved, Undisturbed, [Next]_vars
  PROVE  Undisturbed'
<1> USE DEF deviceVars, lifeVars, lifeSide
<1>0. /\ mode = "ACTIVE" => ctx
      /\ tur \in [Turs -> {"none", "failed", "free", "ends", "freeLast"}]
  BY DEF Inv, LifeSide, LifeTypes
<1>1. ASSUME NEW i \in Irps, DispatchRead(i) \/ DispatchOther(i) PROVE Undisturbed'
  BY <1>1, UndisturbedKept DEF DispatchRead, DispatchOther
<1>2. ASSUME NEW t \in Threads, ReadDone(t) \/ ReadCompletion(t) PROVE Undisturbed'
  BY <1>2, UndisturbedKept DEF ReadDone, ReadCompletion
<1>3. CASE OtherWorks
  BY <1>3, OtherWorksKeeps, UndisturbedKept DEF otherStepRest
<1>4. CASE IoFails
  BY <1>4, UndisturbedFails DEF IoFails
<1>5. CASE NextOther \/ TimedFlush \/ OtherIdle
  BY <1>5, UndisturbedKept DEF NextOther, TimedFlush, OtherIdle, completionRest
<1>6. CASE TimerExpires \/ FlushDpc \/ CleanRead \/ CleanOther \/ CleanEnds
  BY <1>6, UndisturbedKept DEF TimerExpires, FlushDpc, CleanRead, CleanOther, CleanEnds, cleanRest
<1>7. CASE Outside
  <2> USE DEF Undisturbed, RecoveryUndisturbed, FormatUndisturbed, TurIsRight
  <2>0. ctx' = ctx
    BY <1>7, OutsideKeeps
  <2>1. ASSUME NEW u \in Turs, TurSucceeds(u) PROVE Undisturbed'
    BY <1>0, <2>0, <2>1 DEF TurSucceeds, turRest
  <2>2. ASSUME NEW u \in Turs, TurFails(u) PROVE Undisturbed'
    <3>1. /\ tur' = [tur EXCEPT ![u] = "failed"] /\ UNCHANGED <<worker, formatting>>
          /\ mode' = mode \/ (mode = "DIRECT" /\ mode' = "INITIAL")
                          \/ (mode = "ACTIVE" /\ mode' = "ERROR")
      BY <2>2 DEF TurFails, turRest
    <3> QED BY <1>0, <2>0, <3>1
  <2>3. ASSUME NEW u \in Turs, TurLooksForError(u) \/ TurLooksForCompleted(u) PROVE Undisturbed'
    BY <1>0, <2>0, <2>3 DEF TurLooksForError, TurLooksForCompleted, turRest
  <2>4. ASSUME NEW c \in Checkers, \/ CheckStarts(c) \/ CheckFails(c) \/ CheckCapacity(c)
                                   \/ CheckSector(c) \/ CheckEnds(c)
        PROVE  Undisturbed'
    <3>1. /\ UNCHANGED <<worker, formatting, tur>>
          /\ mode' = mode \/ (mode = "INITIAL" /\ mode' = "DIRECT")
      BY <2>4 DEF CheckStarts, CheckFails, CheckCapacity, CheckSector, CheckEnds, checkRest, Calm
    <3> QED BY <2>0, <3>1
  <2>5. CASE RecoveryStarts \/ RecoveryEnds \/ RecoveryFails
    BY <1>0, <2>0, <2>5 DEF RecoveryStarts, RecoveryEnds, RecoveryFails, workerRest
  <2>6. CASE FormatAsked \/ FormatRefused \/ FormatEnds \/ FormatFails
    BY <2>0, <2>6 DEF FormatAsked, FormatRefused, FormatEnds, FormatFails, formatRest
  <2>7. CASE FormatStarts
    <3>1. /\ \A u \in Turs : tur[u] # "free"
          /\ mode \in {"DIRECT", "ACTIVE", "ERROR"} /\ mode' = "FORMAT"
          /\ UNCHANGED <<worker, tur>>
      BY <2>7 DEF FormatStarts, formatRest, Calm
    <3> QED BY <2>0, <3>1
  <2> QED BY <1>7, <2>1, <2>2, <2>3, <2>4, <2>5, <2>6, <2>7 DEF Outside
<1>8. CASE Frees
  <2>1. PICK u \in Turs : TurFrees(u) /\ FreeCtx
    BY <1>8 DEF Frees, RemoveFrees, NotRemoved
  <2>2. mode \in {"ERROR", "COMPLETED"} /\ worker = "none" /\ formatting # "writing"
    BY <2>1 DEF TurFrees, Undisturbed, TurIsRight, RecoveryUndisturbed, FormatUndisturbed
  <2>3. /\ mode' = "INITIAL" /\ worker' = "none" /\ formatting' = formatting
        /\ tur' = [tur EXCEPT ![u] = IF tur[u] = "free" THEN "ends" ELSE "none"]
    BY <2>1, <2>2 DEF TurFrees, FreeCtx
  <2>4. \A v \in Turs : tur'[v] \notin {"free", "freeLast"}
    BY <1>0, <2>3 DEF Calm, OneTur
  <2> QED BY <2>2, <2>3, <2>4
          DEF Undisturbed, TurIsRight, RecoveryUndisturbed, FormatUndisturbed
<1>9. CASE FindsBusy
  <2>1. ASSUME NEW u \in Turs, TurFrees(u), UNCHANGED <<deviceVars, ctxVars, worker>>
        PROVE  Undisturbed'
    BY <1>0, <2>1 DEF TurFrees, Undisturbed, RecoveryUndisturbed, FormatUndisturbed, TurIsRight
  <2>2. CASE RemoveStarts \/ RemoveWaits
    BY <2>2, UndisturbedKept DEF RemoveStarts, RemoveWaits, removeRest
  <2> QED BY <1>9, <2>1, <2>2 DEF FindsBusy
<1>10. ASSUME NEW c \in Checkers, InstallCtx(c) PROVE Undisturbed'
  <2>1. /\ UNCHANGED <<tur, formatting>>
        /\ \/ UNCHANGED <<mode, ctx, worker>>
           \/ /\ mode = "INITIAL" /\ ctx' = TRUE /\ mode' = "RECOVERY"
              /\ worker' = IF worker = "none" THEN "queued" ELSE "stale"
    BY <1>10 DEF InstallCtx
  <2> QED BY <2>1 DEF Undisturbed, RecoveryUndisturbed, FormatUndisturbed, TurIsRight
<1>11. ASSUME NEW timeout \in Timeouts, Configure(timeout) PROVE Undisturbed'
  BY <1>11, UndisturbedKept DEF Configure
<1>12. CASE RemovePolls
  BY <1>12 DEF RemovePolls, NotRemoved
<1>13. CASE UNCHANGED vars
  BY <1>13, UndisturbedKept DEF vars
<1> QED BY <1>1, <1>2, <1>3, <1>4, <1>5, <1>6, <1>7, <1>8, <1>9, <1>10, <1>11, <1>12, <1>13,
           Steps

\* So it is for ever.
LEMMA AllUndisturbed == ASSUME Calm PROVE Spec => []Undisturbed
<1>1. Init => Undisturbed
  BY DEF Init, Undisturbed, RecoveryUndisturbed, FormatUndisturbed, TurIsRight
<1>2. Inv /\ NotRemoved /\ Undisturbed /\ [Next]_vars => Undisturbed'
  BY UndisturbedStep
<1>3. ~Removal
  BY DEF Calm
<1> QED BY <1>1, <1>2, <1>3, Invariance, StaysAttached, PTL DEF Spec

\* From CheckCompletion3 (vcheck.c) to the end of the recovery thread (recovery.c) the device
\* keeps the context and the mode: no second check, failure, TEST UNIT READY or format comes
\* in between, and only what was recovered becomes ACTIVE.
THEOREM RecoveryIsUndisturbed == ASSUME Calm PROVE Spec => []RecoveryUndisturbed
<1>1. Undisturbed => RecoveryUndisturbed
  BY DEF Undisturbed
<1> QED BY <1>1, AllUndisturbed, PTL

\* From SetFormatMode to the end of the format (config.c) no check, recovery, failing request
\* or TEST UNIT READY changes the mode.
THEOREM FormatIsUndisturbed == ASSUME Calm PROVE Spec => []FormatUndisturbed
<1>1. Undisturbed => FormatUndisturbed
  BY DEF Undisturbed
<1> QED BY <1>1, AllUndisturbed, PTL

=============================================================================
