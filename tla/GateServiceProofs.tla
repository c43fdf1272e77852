------------------------- MODULE GateServiceProofs -------------------------
(***************************************************************************)
(* The gate implements RequestService, whatever the constants: the other   *)
(* requests end in the order they came as long as the device is active,    *)
(* no request is lost or ends twice, and nothing of one activation is left *)
(* in the next.                                                            *)
(***************************************************************************)
EXTENDS GateProofs

-----------------------------------------------------------------------------
(* Queues and the request in front of them *)

\* What is left of a queue when its first entry goes.
LEMMA FirstGoes ==
  ASSUME NEW x \in Irps, NEW q \in Seq(Irps)
  PROVE  /\ <<x>> \o q \in Seq(Irps) /\ Len(<<x>> \o q) = Len(q) + 1
         /\ (<<x>> \o q)[1] = x
         /\ SubSeq(<<x>> \o q, 1, 0) \o SubSeq(<<x>> \o q, 2, Len(<<x>> \o q)) = q
<1> DEFINE s == <<x>> \o q
<1>1. /\ s \in Seq(Irps) /\ Len(s) = Len(q) + 1 /\ Len(q) \in Nat
      /\ s[1] = x /\ \A i \in 1..Len(q) : s[i + 1] = q[i]
  <2>1. <<x>> \in Seq(Irps) /\ Len(<<x>>) = 1 /\ <<x>>[1] = x
    OBVIOUS
  <2>2. /\ s \in Seq(Irps) /\ Len(s) = 1 + Len(q) /\ Len(q) \in Nat
        /\ \A i \in 1..(1 + Len(q)) : s[i] = IF i <= 1 THEN <<x>>[i] ELSE q[i - 1]
    BY <2>1, ConcatProperties
  <2> HIDE DEF s
  <2>3. s[1] = x
    BY <2>1, <2>2
  <2>4. ASSUME NEW i \in 1..Len(q) PROVE s[i + 1] = q[i]
    BY <2>2
  <2> QED BY <2>2, <2>3, <2>4
<1> HIDE DEF s
<1>2. /\ Tail(s) \in Seq(Irps) /\ Len(Tail(s)) = Len(q)
      /\ \A i \in 1..Len(q) : Tail(s)[i] = q[i]
  BY <1>1, HeadTailProperties, EmptySeq
<1>3. Tail(s) = q
  BY <1>2, SeqEqual
<1>4. SubSeq(s, 2, Len(s)) = q
  BY <1>1, <1>3, TailIsSubSeq, EmptySeq
<1>5. SubSeq(s, 1, 0) = <<>>
  BY <1>1, SubSeqEmpty
<1> QED BY <1>1, <1>4, <1>5, ConcatEmptySeq DEF s

\* A queue that is not empty is its head and its tail.
LEMMA HeadFirst ==
  ASSUME NEW q \in Seq(Irps), q # <<>>
  PROVE  <<Head(q)>> \o Tail(q) = q
<1> DEFINE s == <<Head(q)>> \o Tail(q)
<1>1. /\ Head(q) \in Irps /\ Tail(q) \in Seq(Irps) /\ Len(Tail(q)) = Len(q) - 1
      /\ Len(q) \in Nat /\ Len(q) > 0 /\ Head(q) = q[1]
      /\ \A i \in 1..(Len(q) - 1) : Tail(q)[i] = q[i + 1]
  BY HeadTailProperties, EmptySeq
<1>2. <<Head(q)>> \in Seq(Irps) /\ Len(<<Head(q)>>) = 1 /\ <<Head(q)>>[1] = Head(q)
  BY <1>1
<1>3. /\ s \in Seq(Irps) /\ Len(s) = 1 + Len(Tail(q))
      /\ \A i \in 1..(1 + Len(Tail(q))) : s[i] = IF i <= 1 THEN <<Head(q)>>[i] ELSE Tail(q)[i - 1]
  BY <1>1, <1>2, ConcatProperties
<1> HIDE DEF s
<1>4. ASSUME NEW i \in 1..Len(q) PROVE s[i] = q[i]
  <2>1. CASE i = 1
    BY <1>1, <1>2, <1>3, <2>1
  <2>2. CASE i # 1
    <3>1. i - 1 \in 1..(Len(q) - 1) /\ (i - 1) + 1 = i /\ i \in 1..(1 + Len(Tail(q))) /\ ~(i <= 1)
      BY <1>1, <2>2
    <3> QED BY <1>1, <1>3, <3>1
  <2> QED BY <2>1, <2>2
<1>5. Len(s) = Len(q)
  BY <1>1, <1>3
<1> QED BY <1>3, <1>4, <1>5, SeqEqual DEF s

\* What is left of a queue when its second entry goes.
LEMMA SecondGoes ==
  ASSUME NEW x \in Irps, NEW q \in Seq(Irps), q # <<>>
  PROVE  SubSeq(<<x>> \o q, 1, 1) \o SubSeq(<<x>> \o q, 3, Len(<<x>> \o q)) = <<x>> \o Tail(q)
<1>1. /\ <<x>> \in Seq(Irps) /\ Len(<<x>>) = 1
      /\ Len(q) \in Nat /\ Len(q) > 0 /\ Len(<<x>> \o q) = Len(q) + 1
      /\ <<x>> \o q \in Seq(Irps)
  BY FirstGoes, EmptySeq
<1>2. SubSeq(<<x>> \o q, 1, 1) = <<x>>
  <2>1. 1 \in 1..Len(<<x>>)
    BY <1>1
  <2>2. SubSeq(<<x>> \o q, 1, 1) = SubSeq(<<x>>, 1, 1)
    BY <1>1, <2>1, SubSeqOfConcat1
  <2>3. SubSeq(<<x>>, 1, Len(<<x>>)) = <<x>>
    BY <1>1, SubSeqFull
  <2>4. Len(<<x>>) = 1
    BY <1>1
  <2>5. SubSeq(<<x>>, 1, 1) = <<x>>
    BY <2>3, <2>4, Zenon
  <2> QED BY <2>2, <2>5, Zenon
<1>3. SubSeq(<<x>> \o q, 3, Len(<<x>> \o q)) = Tail(q)
  <2>1. Tail(q) = SubSeq(q, 2, Len(q))
    BY TailIsSubSeq
  <2>2. CASE Len(q) = 1
    <3>1. SubSeq(<<x>> \o q, 3, 2) = <<>> /\ SubSeq(q, 2, 1) = <<>>
      BY <1>1, SubSeqEmpty
    <3> QED BY <1>1, <2>1, <2>2, <3>1
  <2>3. CASE Len(q) # 1
    <3>1. /\ 3 \in (Len(<<x>>) + 1)..(Len(<<x>>) + Len(q))
          /\ Len(q) + 1 \in (Len(<<x>>) + 1)..(Len(<<x>>) + Len(q))
          /\ 3 - Len(<<x>>) = 2 /\ (Len(q) + 1) - Len(<<x>>) = Len(q)
      <4> DEFINE n == Len(q)
                 k == Len(<<x>>)
      <4>1. k = 1
        BY <1>1, Zenon
      <4>2. n \in Nat /\ n > 0 /\ n # 1
        BY <1>1, <2>3, Zenon
      <4> HIDE DEF n, k
      <4>3. 3 \in (k + 1)..(k + n) /\ n + 1 \in (k + 1)..(k + n) /\ 3 - k = 2 /\ (n + 1) - k = n
        BY <4>1, <4>2
      <4> QED BY <4>3 DEF n, k
    <3>2. SubSeq(<<x>> \o q, 3, Len(q) + 1)
            = SubSeq(q, 3 - Len(<<x>>), (Len(q) + 1) - Len(<<x>>))
      BY <1>1, <3>1, SubSeqOfConcat2
    <3> QED BY <1>1, <2>1, <3>1, <3>2
  <2> QED BY <2>2, <2>3
<1> QED BY <1>2, <1>3

\* An entry put at the end of the second of two queues is at the end of both.
LEMMA LastComes ==
  ASSUME NEW s \in Seq(Irps), NEW q \in Seq(Irps), NEW i \in Irps
  PROVE  s \o Append(q, i) = Append(s \o q, i)
<1>1. <<i>> \in Seq(Irps) /\ s \o q \in Seq(Irps)
  BY ConcatProperties
<1>2. Append(q, i) = q \o <<i>> /\ Append(s \o q, i) = (s \o q) \o <<i>>
  BY <1>1, AppendIsConcat
<1> QED BY <1>1, <1>2, ConcatAssociative

-----------------------------------------------------------------------------
(* The open requests *)

front == IF otherIrp = NoIrp THEN <<>> ELSE <<otherIrp>>

\* The open requests of the other thread are its own and those in its queue.
LEMMA OpenTypes ==
  ASSUME Inv
  PROVE  /\ OtherIrpQueue \in Seq(Irps) /\ ReadIrpQueue \in Seq(Irps)
         /\ otherIrp \in Irps \cup {NoIrp} /\ NoIrp \notin Irps
         /\ front \in Seq(Irps) /\ OpenOthers = front \o OtherIrpQueue
         /\ otherIrp = NoIrp => OpenOthers = OtherIrpQueue
<1>1. /\ OtherIrpQueue \in Seq(Irps) /\ ReadIrpQueue \in Seq(Irps)
      /\ otherIrp \in Irps \cup {NoIrp} /\ NoIrp \notin Irps
  BY Parameters DEF Inv, ReadSide, ReadTypes, OtherSide, OtherTypes
<1>2. OpenOthers = front \o OtherIrpQueue
  BY DEF OpenOthers, front
<1> QED BY <1>1, <1>2, ConcatEmptySeq DEF front

\* They stay while queues and threads do.
LEMMA OpenReadsKept ==
  ASSUME UNCHANGED <<readIrp, ReadIrpQueue>> PROVE OpenReads' = OpenReads
  BY DEF OpenReads, InQueue

\* The same for the other thread.
LEMMA OpenOthersKept ==
  ASSUME UNCHANGED <<otherIrp, OtherIrpQueue>> PROVE OpenOthers' = OpenOthers
  BY DEF OpenOthers

\* Nothing is open in a gate where nothing is pending.
LEMMA NothingOpen ==
  ASSUME Inv, ReadPending = 0, OtherPending = 0
  PROVE  OpenReads = {} /\ OpenOthers = <<>>
<1>1. /\ BusyReaders = {} /\ ReadIrpQueue = <<>> /\ otherPc = "idle" /\ OtherIrpQueue = <<>>
  BY NothingPending
<1>2. \A t \in Threads : readIrp[t] = NoIrp
  BY <1>1 DEF Inv, ReadSide, ReadsOnce, BusyReaders
<1>3. OpenReads = {}
  BY <1>1, <1>2 DEF OpenReads, InQueue
<1>4. otherIrp = NoIrp
  BY <1>1 DEF Inv, OtherSide
<1> QED BY <1>1, <1>3, <1>4, OpenTypes

\* When no queue and no thread holds a request, none is open.
LEMMA ForgottenOpen ==
  ASSUME readIrp' = NoReads, ReadIrpQueue' = <<>>, otherIrp' = NoIrp, OtherIrpQueue' = <<>>
  PROVE  OpenReads' = {} /\ OpenOthers' = <<>>
<1>1. OpenReads' = {}
  BY DEF OpenReads, NoReads, InQueue
<1>2. OpenOthers' = <<>> \o <<>>
  BY DEF OpenOthers
<1>3. <<>> \o <<>> = <<>>
  BY ConcatEmptySeq, EmptySeq
<1> QED BY <1>1, <1>2, <1>3

-----------------------------------------------------------------------------
(* Every step of the gate is a step of the service, or none *)

Served == [Service!Next]_Service!vars

\* A change of mode, or nothing the sender of a request can see.
LEMMA ModeOnly ==
  ASSUME Inv, OpenReads' = OpenReads, OpenOthers' = OpenOthers,
         mode' = "ACTIVE" => mode \in {"ACTIVE", "RECOVERY"}
  PROVE  Served
<1> USE DEF Served, Service!Next, Service!vars
<1>1. CASE mode' = "ACTIVE" /\ mode = "RECOVERY"
  <2>1. OpenReads = {} /\ OpenOthers = <<>>
    BY <1>1, UnusedIsIdle, NothingOpen
  <2>2. Service!Open = {}
    BY <2>1 DEF Service!Open
  <2>3. Service!BecomeReady
    BY <1>1, <2>2 DEF Service!BecomeReady
  <2> QED BY <2>3
<1>2. CASE mode' # "ACTIVE" /\ mode = "ACTIVE"
  <2>1. Service!GiveUp
    BY <1>2 DEF Service!GiveUp
  <2> QED BY <2>1
<1>3. CASE (mode' = "ACTIVE") = (mode = "ACTIVE")
  BY <1>3
<1> QED BY <1>1, <1>2, <1>3

\* The first free thread is free.
LEMMA FirstIsFree ==
  ASSUME Inv, ReadActive < READ_THREADS
  PROVE  ReadFreeList \in Threads \ BusyReaders /\ readIrp[ReadFreeList] = NoIrp
<1>1. ReadFreeList \in Threads \ BusyReaders
  <2>1. /\ READ_THREADS - ReadActive \in Nat /\ READ_THREADS - ReadActive > 0
        /\ FreeLink \in [Threads -> 0..READ_THREADS \cup {Busy}]
    BY Parameters DEF Inv, ReadSide, ReadTypes
  <2>2. BusyReaders \in SUBSET Threads
    BY DEF BusyReaders
  <2>3. ListOk(READ_THREADS - ReadActive, ReadFreeList, FreeLink, BusyReaders)
    BY ListExact DEF Inv, ReadSide
  <2> QED BY <2>1, <2>2, <2>3, ListTakes
<1> QED BY <1>1 DEF Inv, ReadSide, ReadsOnce, BusyReaders

\* A read that is dispatched is open, and nothing else changes.
LEMMA ReadArrives ==
  ASSUME Inv, NEW i \in Irps, DispatchRead(i)
  PROVE  Served
<1>1. /\ mode = "ACTIVE" /\ mode' = mode /\ i \notin OpenReads \cup InQueue(OpenOthers)
      /\ UNCHANGED <<otherIrp, OtherIrpQueue>>
  BY DEF DispatchRead, Admits, deviceVars, otherVars
<1>2. OpenReads' = OpenReads \cup {i}
  <2>0. readIrp \in [Threads -> Irps \cup {NoIrp}] /\ NoIrp \notin Irps
    BY Parameters DEF Inv, ReadSide, ReadTypes
  <2>1. CASE /\ ReadActive < READ_THREADS /\ StartRead(ReadFreeList, i) /\ UNCHANGED ReadIrpQueue
    <3>1. readIrp' = [readIrp EXCEPT ![ReadFreeList] = i]
      BY <2>1 DEF StartRead
    <3>2. ReadFreeList \in Threads /\ readIrp[ReadFreeList] = NoIrp
      BY <2>1, FirstIsFree
    <3>3. {readIrp'[t] : t \in Threads} \ {NoIrp} = ({readIrp[t] : t \in Threads} \ {NoIrp}) \cup {i}
      BY <2>0, <3>1, <3>2
    <3>4. InQueue(ReadIrpQueue') = InQueue(ReadIrpQueue)
      BY <2>1
    <3> QED BY <3>3, <3>4 DEF OpenReads
  <2>2. CASE ReadIrpQueue' = Append(ReadIrpQueue, i) /\ UNCHANGED readVars
    <3>1. InQueue(ReadIrpQueue') = InQueue(ReadIrpQueue) \cup {i}
      BY <2>2, OpenTypes, QueueGrows
    <3> QED BY <2>2, <3>1 DEF OpenReads, readVars
  <2> QED BY <2>1, <2>2 DEF DispatchRead
<1>3. OpenOthers' = OpenOthers
  BY <1>1, OpenOthersKept
<1>4. Service!ArriveRead(i)
  BY <1>1, <1>2, <1>3 DEF Service!ArriveRead, Service!Open, InQueue
<1> QED BY <1>4 DEF Served, Service!Next

\* The same for the other requests.
LEMMA OtherArrives ==
  ASSUME Inv, NEW i \in Irps, DispatchOther(i)
  PROVE  Served
<1>1. /\ ctx /\ mode = "ACTIVE" /\ mode' = mode /\ i \notin OpenReads \cup InQueue(OpenOthers)
      /\ UNCHANGED <<readIrp, ReadIrpQueue>>
  BY DEF DispatchOther, Admits, deviceVars, readVars
<1>2. OpenOthers' = Append(OpenOthers, i)
  <2>1. CASE OtherActive = 0 /\ otherIrp' = i /\ UNCHANGED OtherIrpQueue
    <3>1. otherIrp = NoIrp /\ OtherIrpQueue = <<>>
      BY <1>1, <2>1 DEF Inv, OtherSide, NobodyForgotten
    <3>2. OpenOthers = <<>>
      BY <3>1, OpenTypes
    <3>3. OpenOthers' = <<i>> \o <<>>
      BY <2>1, <3>1, OpenTypes DEF OpenOthers
    <3>4. <<i>> \o <<>> = <<i>> /\ <<i>> = Append(<<>>, i)
      BY ConcatEmptySeq
    <3> QED BY <3>2, <3>3, <3>4
  <2>2. CASE OtherIrpQueue' = Append(OtherIrpQueue, i) /\ UNCHANGED otherVars
    <3>1. OpenOthers' = front \o Append(OtherIrpQueue, i)
      BY <2>2 DEF OpenOthers, front, otherVars
    <3> QED BY <3>1, OpenTypes, LastComes
  <2> QED BY <2>1, <2>2 DEF DispatchOther, StartOther
<1>3. OpenReads' = OpenReads
  BY <1>1, OpenReadsKept
<1>4. Service!ArriveOther(i)
  BY <1>1, <1>2, <1>3 DEF Service!ArriveOther, Service!Open, InQueue
<1> QED BY <1>4 DEF Served, Service!Next

\* A read that ends is not open any more.
LEMMA ReadEnds ==
  ASSUME Inv, NEW t \in Threads, ReadDone(t)
  PROVE  Served
<1> DEFINE r == readIrp[t]
<1>1. /\ readIrp' = [readIrp EXCEPT ![t] = NoIrp] /\ mode' = mode
      /\ UNCHANGED <<ReadIrpQueue, otherIrp, OtherIrpQueue>>
  BY DEF ReadDone, deviceVars, queueVars, otherVars
<1>2. /\ readIrp \in [Threads -> Irps \cup {NoIrp}]
      /\ \A u \in Threads : readIrp[u] = readIrp[t] /\ readIrp[u] # NoIrp => u = t
      /\ r \notin InQueue(ReadIrpQueue)
  BY DEF Inv, ReadSide, ReadTypes, ReadsOnce
<1>3. OpenOthers' = OpenOthers
  BY <1>1, OpenOthersKept
<1>4. CASE r = NoIrp
  <2>1. readIrp' = readIrp
    BY <1>1, <1>2, <1>4
  <2> QED BY <1>1, <1>3, <2>1, OpenReadsKept, ModeOnly
<1>5. CASE r # NoIrp
  <2>1. {readIrp'[u] : u \in Threads} \ {NoIrp} = ({readIrp[u] : u \in Threads} \ {NoIrp}) \ {r}
    BY <1>1, <1>2, <1>5
  <2>2. OpenReads' = OpenReads \ {r} /\ r \in OpenReads
    BY <1>1, <1>2, <1>5, <2>1 DEF OpenReads, InQueue
  <2>3. Service!EndRead(r)
    BY <1>1, <1>3, <2>2 DEF Service!EndRead
  <2>4. r \in Irps
    BY <1>2, <1>5
  <2> QED BY <2>3, <2>4 DEF Served, Service!Next
<1> QED BY <1>4, <1>5

\* A read thread that takes the next read opens and ends none.
LEMMA ReadMoves ==
  ASSUME Inv, NEW t \in Threads, ReadCompletion(t)
  PROVE  Served
<1>1. mode' = mode /\ UNCHANGED <<otherIrp, OtherIrpQueue>>
  BY DEF ReadCompletion, deviceVars
<1>2. OpenReads' = OpenReads
  <2>1. CASE ReleaseReader(t)
    BY <2>1, OpenReadsKept DEF ReleaseReader
  <2>2. CASE TakeNextRead(t)
    <3> DEFINE i == Head(ReadIrpQueue)
    <3>1. /\ readIrp \in [Threads -> Irps \cup {NoIrp}] /\ readIrp[t] = NoIrp
          /\ NoIrp \notin Irps
      BY Parameters DEF Inv, ReadSide, ReadTypes, ReadsOnce, ReadCompletion
    <3>2. /\ i \in Irps /\ InQueue(ReadIrpQueue) = {i} \cup InQueue(ReadIrpQueue')
      BY <2>2, OpenTypes, QueueShrinks DEF TakeNextRead
    <3>3. readIrp' = [readIrp EXCEPT ![t] = i]
      BY <2>2 DEF TakeNextRead, StartRead
    <3> HIDE DEF i
    <3>4. {readIrp'[u] : u \in Threads} \ {NoIrp}
            = ({readIrp[u] : u \in Threads} \ {NoIrp}) \cup {i}
      BY <3>1, <3>2, <3>3
    <3> QED BY <3>2, <3>4 DEF OpenReads
  <2> QED BY <2>1, <2>2 DEF ReadCompletion
<1>3. OpenOthers' = OpenOthers
  BY <1>1, OpenOthersKept
<1> QED BY <1>1, <1>2, <1>3, ModeOnly

\* The request at work is the first.
LEMMA OtherEnds ==
  ASSUME Inv, otherIrp' = NoIrp, UNCHANGED <<mode, readIrp, ReadIrpQueue, OtherIrpQueue>>
  PROVE  Served
<1>1. OpenReads' = OpenReads
  BY OpenReadsKept
<1>2. OpenOthers' = OtherIrpQueue
  <2>1. OpenOthers' = <<>> \o OtherIrpQueue
    BY DEF OpenOthers
  <2> QED BY <2>1, OpenTypes, ConcatEmptySeq
<1>3. CASE otherIrp = NoIrp
  BY <1>1, <1>2, <1>3, OpenTypes, ModeOnly
<1>4. CASE otherIrp # NoIrp
  <2>1. OpenOthers = <<otherIrp>> \o OtherIrpQueue /\ otherIrp \in Irps
    BY <1>4, OpenTypes DEF front
  <2>2. /\ SubSeq(OpenOthers, 1, 0) \o SubSeq(OpenOthers, 2, Len(OpenOthers)) = OtherIrpQueue
        /\ Len(OpenOthers) = Len(OtherIrpQueue) + 1 /\ Len(OtherIrpQueue) \in Nat
    BY <2>1, OpenTypes, FirstGoes
  <2>3. 1 \in 1..Len(OpenOthers) /\ 1 - 1 = 0 /\ 1 + 1 = 2
    BY <2>2
  <2>4. Service!EndOther(1)
    BY <1>1, <1>2, <2>2, <2>3 DEF Service!EndOther
  <2> QED BY <2>3, <2>4 DEF Served, Service!Next, Service!EndSomeOther
<1> QED BY <1>3, <1>4

\* A read that the cleaner completes ends.
LEMMA ReadCleaned ==
  ASSUME Inv, CleanRead
  PROVE  Served
<1> DEFINE r == Head(ReadIrpQueue)
<1>1. /\ ReadIrpQueue # <<>> /\ ReadIrpQueue' = Tail(ReadIrpQueue) /\ mode' = mode
      /\ UNCHANGED <<readIrp, otherIrp, OtherIrpQueue>>
  BY DEF CleanRead, cleanRest, deviceVars, readVars, otherVars
<1>2. /\ r \in Irps /\ InQueue(ReadIrpQueue) = {r} \cup InQueue(ReadIrpQueue')
      /\ r \notin InQueue(ReadIrpQueue')
  BY <1>1, OpenTypes, QueueShrinks DEF Inv, ReadSide, ReadsOnce
<1>3. \A t \in Threads : readIrp[t] # r
  BY <1>2 DEF Inv, ReadSide, ReadsOnce
<1> HIDE DEF r
<1>4. OpenReads' = OpenReads \ {r} /\ r \in OpenReads
  BY <1>1, <1>2, <1>3 DEF OpenReads
<1>5. Service!EndRead(r)
  BY <1>1, <1>4, OpenOthersKept DEF Service!EndRead
<1> QED BY <1>2, <1>5 DEF Served, Service!Next

\* The same for the other requests.
LEMMA OtherCleaned ==
  ASSUME Inv, CleanOther
  PROVE  Served
<1>1. /\ OtherIrpQueue # <<>> /\ OtherIrpQueue' = Tail(OtherIrpQueue)
      /\ mode' = mode /\ mode # "ACTIVE" /\ UNCHANGED <<otherIrp, readIrp, ReadIrpQueue>>
  BY DEF CleanOther, Cleanable, cleanRest, deviceVars, readVars, otherVars
<1>2. OpenReads' = OpenReads
  BY <1>1, OpenReadsKept
<1>3. /\ Len(OtherIrpQueue) \in Nat /\ Len(OtherIrpQueue) > 0
      /\ Tail(OtherIrpQueue) \in Seq(Irps)
  BY <1>1, OpenTypes, QueueShrinks
<1>4. CASE otherIrp = NoIrp
  <2>1. OpenOthers = OtherIrpQueue /\ OpenOthers' = <<>> \o Tail(OtherIrpQueue)
    BY <1>1, <1>4, OpenTypes DEF OpenOthers
  <2>2. OpenOthers' = Tail(OpenOthers)
    BY <1>3, <2>1, ConcatEmptySeq
  <2>3. SubSeq(OpenOthers, 1, 0) \o SubSeq(OpenOthers, 2, Len(OpenOthers)) = Tail(OpenOthers)
    <3>1. SubSeq(OtherIrpQueue, 1, 0) = <<>>
      BY <1>3, OpenTypes, SubSeqEmpty
    <3>2. SubSeq(OtherIrpQueue, 2, Len(OtherIrpQueue)) = Tail(OtherIrpQueue)
      BY <1>1, OpenTypes, TailIsSubSeq
    <3> QED BY <1>3, <2>1, <3>1, <3>2, ConcatEmptySeq
  <2>4. 1 \in 1..Len(OpenOthers) /\ 1 - 1 = 0 /\ 1 + 1 = 2
    BY <1>3, <2>1
  <2>5. Service!EndOther(1)
    BY <1>1, <1>2, <2>2, <2>3, <2>4 DEF Service!EndOther
  <2> QED BY <2>4, <2>5 DEF Served, Service!Next, Service!EndSomeOther
<1>5. CASE otherIrp # NoIrp
  <2>1. /\ OpenOthers = <<otherIrp>> \o OtherIrpQueue /\ otherIrp \in Irps
        /\ OpenOthers' = <<otherIrp>> \o Tail(OtherIrpQueue)
    BY <1>1, <1>5, OpenTypes DEF OpenOthers
  <2>2. /\ SubSeq(OpenOthers, 1, 1) \o SubSeq(OpenOthers, 3, Len(OpenOthers)) = OpenOthers'
        /\ Len(OpenOthers) = Len(OtherIrpQueue) + 1
    BY <1>1, <2>1, OpenTypes, FirstGoes, SecondGoes
  <2>3. 2 \in 1..Len(OpenOthers) /\ 2 - 1 = 1 /\ 2 + 1 = 3
    BY <1>3, <2>2
  <2>4. Service!EndOther(2)
    BY <1>1, <1>2, <2>2, <2>3 DEF Service!EndOther
  <2> QED BY <2>3, <2>4 DEF Served, Service!Next, Service!EndSomeOther
<1> QED BY <1>4, <1>5

\* Every step of the gate is one of the service, or none.
LEMMA ServiceStep == ASSUME Inv, [Next]_vars PROVE Served
<1> USE DEF deviceVars, queueVars, readVars, otherVars
<1>1. ASSUME NEW i \in Irps, DispatchRead(i) \/ DispatchOther(i) PROVE Served
  BY <1>1, ReadArrives, OtherArrives
<1>2. ASSUME NEW t \in Threads, ReadDone(t) \/ ReadCompletion(t) PROVE Served
  BY <1>2, ReadEnds, ReadMoves
<1>3. CASE OtherWorks
  <2>1. UNCHANGED <<mode, readIrp, ReadIrpQueue, OtherIrpQueue>>
    BY <1>3, OtherWorksKeeps DEF otherStepRest
  <2>2. otherIrp' = otherIrp \/ otherIrp' = NoIrp
    <3> USE DEF StartIo, EndRequest
    <3>1. CASE WriteAbort \/ WriteEnds \/ WriteIo \/ WritePurge \/ WriteClose \/ WritePrepare
      BY <3>1 DEF WriteAbort, WriteEnds, WriteIo, WritePurge, WriteClose, WritePrepare
    <3>2. CASE FlushFill \/ FlushPurge \/ FlushClose \/ FlushEnds \/ PassDone
      BY <3>2 DEF FlushFill, FlushPurge, FlushClose, FlushEnds, PassDone
    <3>3. CASE IoDone \/ PurgeDone \/ PrepareDone
      BY <3>3 DEF IoDone, PurgeDone, PrepareDone
    <3> QED BY <1>3, <3>1, <3>2, <3>3 DEF OtherWorks
  <2>3. CASE otherIrp' = otherIrp
    BY <2>1, <2>3, OpenReadsKept, OpenOthersKept, ModeOnly
  <2> QED BY <2>1, <2>2, <2>3, OtherEnds
<1>4. CASE IoFails
  <2>1. /\ UNCHANGED <<readIrp, ReadIrpQueue, otherIrp, OtherIrpQueue>>
        /\ mode' = "ACTIVE" => mode = "ACTIVE"
    BY <1>4 DEF IoFails
  <2> QED BY <2>1, OpenReadsKept, OpenOthersKept, ModeOnly
<1>5. CASE NextOther
  <2>1. /\ otherPc = "done" /\ OtherIrpQueue # <<>> /\ otherIrp' = Head(OtherIrpQueue)
        /\ OtherIrpQueue' = Tail(OtherIrpQueue) /\ UNCHANGED <<mode, readIrp, ReadIrpQueue>>
    BY <1>5 DEF NextOther, GoesOn, StartOther, completionRest
  <2>2. otherIrp = NoIrp
    BY <2>1 DEF Inv, OtherSide
  <2>3. Head(OtherIrpQueue) \in Irps
    BY <2>1, OpenTypes, QueueShrinks
  <2>4. OpenOthers' = <<Head(OtherIrpQueue)>> \o Tail(OtherIrpQueue)
    BY <2>1, <2>3, OpenTypes DEF OpenOthers
  <2>5. OpenOthers' = OpenOthers
    BY <2>1, <2>2, <2>4, OpenTypes, HeadFirst
  <2> QED BY <2>1, <2>5, OpenReadsKept, ModeOnly
<1>6. CASE TimedFlush
  <2>1. otherIrp' = NoIrp /\ UNCHANGED <<mode, readIrp, ReadIrpQueue, OtherIrpQueue>>
    BY <1>6 DEF TimedFlush, StartOther, completionRest
  <2> QED BY <2>1, OtherEnds
<1>7. CASE OtherIdle
  <2>1. UNCHANGED <<mode, readIrp, ReadIrpQueue, otherIrp, OtherIrpQueue>>
    BY <1>7 DEF OtherIdle
  <2> QED BY <2>1, OpenReadsKept, OpenOthersKept, ModeOnly
<1>8. CASE TimerExpires \/ CleanEnds
  <2>1. UNCHANGED <<mode, readIrp, ReadIrpQueue, otherIrp, OtherIrpQueue>>
    BY <1>8 DEF TimerExpires, CleanEnds, cleanRest
  <2> QED BY <2>1, OpenReadsKept, OpenOthersKept, ModeOnly
<1>9. CASE FlushDpc
  <2>1. /\ UNCHANGED <<mode, readIrp, ReadIrpQueue, OtherIrpQueue>>
        /\ otherIrp' = otherIrp \/ otherIrp' = NoIrp
    BY <1>9 DEF FlushDpc, StartOther
  <2>2. CASE otherIrp' = otherIrp
    BY <2>1, <2>2, OpenReadsKept, OpenOthersKept, ModeOnly
  <2> QED BY <2>1, <2>2, OtherEnds
<1>10. CASE CleanRead \/ CleanOther
  BY <1>10, ReadCleaned, OtherCleaned
<1>11. CASE Outside
  <2>1. UNCHANGED <<readIrp, ReadIrpQueue, otherIrp, OtherIrpQueue>>
    BY <1>11, OutsideKeeps DEF ctxVars
  <2>2. mode' = "ACTIVE" => mode \in {"ACTIVE", "RECOVERY"}
    BY <1>11, OutsideActivates
  <2> QED BY <2>1, <2>2, OpenReadsKept, OpenOthersKept, ModeOnly
<1>12. CASE Frees
  <2>1. mode' = "INITIAL"
    BY <1>12, FreesForgets
  <2>2. CASE ReadPending = 0 /\ OtherPending = 0 /\ ForgetCtx
    BY <2>1, <2>2, NothingOpen, ForgottenOpen, ModeOnly DEF ForgetCtx
  <2>3. CASE UNCHANGED ctxVars
    BY <2>1, <2>3, OpenReadsKept, OpenOthersKept, ModeOnly DEF ctxVars
  <2> QED BY <1>12, <2>2, <2>3, FreesForgets
<1>13. CASE FindsBusy
  <2>1. UNCHANGED <<mode, readIrp, ReadIrpQueue, otherIrp, OtherIrpQueue>>
    BY <1>13, FindsBusyKeeps DEF ctxVars
  <2> QED BY <2>1, OpenReadsKept, OpenOthersKept, ModeOnly
<1>14. ASSUME NEW c \in Checkers, InstallCtx(c) PROVE Served
  <2>1. /\ UNCHANGED <<readIrp, ReadIrpQueue, otherIrp, OtherIrpQueue>>
        /\ mode' = "ACTIVE" => mode = "ACTIVE"
    BY <1>14 DEF InstallCtx
  <2> QED BY <2>1, OpenReadsKept, OpenOthersKept, ModeOnly
<1>15. ASSUME NEW timeout \in Timeouts, Configure(timeout) PROVE Served
  <2>1. UNCHANGED <<mode, readIrp, ReadIrpQueue, otherIrp, OtherIrpQueue>>
    BY <1>15 DEF Configure
  <2> QED BY <2>1, OpenReadsKept, OpenOthersKept, ModeOnly
<1>16. CASE RemovePolls
  <2>1. /\ UNCHANGED <<readIrp, ReadIrpQueue, otherIrp, OtherIrpQueue>>
        /\ mode' = "ACTIVE" => mode = "ACTIVE"
    BY <1>16 DEF RemovePolls
  <2> QED BY <2>1, OpenReadsKept, OpenOthersKept, ModeOnly
<1>17. CASE UNCHANGED vars
  <2>1. UNCHANGED <<mode, readIrp, ReadIrpQueue, otherIrp, OtherIrpQueue>>
    BY <1>17 DEF vars, ctxVars
  <2> QED BY <2>1, OpenReadsKept, OpenOthersKept, ModeOnly
<1> QED BY <1>1, <1>2, <1>3, <1>4, <1>5, <1>6, <1>7, <1>8, <1>9, <1>10, <1>11, <1>12, <1>13,
           <1>14, <1>15, <1>16, <1>17, Steps

\* The gate implements RequestService: what LevelingDispatch admitted ends once, the requests
\* of the other queue in their order while the device is ACTIVE, and it is ACTIVE again only
\* when the last request of the time before is gone (vgate.c:163-388).
THEOREM GateImplementsService == Spec => ServiceSpec
<1>1. Init => Service!Init
  <2> SUFFICES ASSUME Init PROVE Service!Init
    OBVIOUS
  <2>1. OpenReads = {}
    BY DEF Init, OpenReads, NoReads, InQueue
  <2>2. OpenOthers = <<>> \o <<>>
    BY DEF Init, OpenOthers
  <2>3. <<>> \o <<>> = <<>>
    BY ConcatEmptySeq, EmptySeq
  <2>4. (mode = "ACTIVE") = FALSE
    BY DEF Init
  <2> QED BY <2>1, <2>2, <2>3, <2>4 DEF Service!Init
<1>2. Inv /\ [Next]_vars => [Service!Next]_Service!vars
  BY ServiceStep DEF Served
<1> QED BY <1>1, <1>2, Invariance, PTL DEF Spec, ServiceSpec, Service!Spec

=============================================================================
