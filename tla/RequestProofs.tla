---------------------------- MODULE RequestProofs ----------------------------
(***************************************************************************)
(* Proofs about the request engine: the safety properties of Request, and  *)
(* that it implements the safety part of Transfer, for every length, every *)
(* first sector, every limit of retries and every limit of a transfer.     *)
(*                                                                         *)
(* The invariant Inv ties the transfer at work to what has moved before it *)
(* (Sending, Front), and the number of bad answers to the retries made     *)
(* (Counting), for which the properties themselves are too weak.           *)
(***************************************************************************)
EXTENDS Request, TLAPS, WellFoundedInduction

\* Who waits, and how he will hear of the end.
Control ==
  /\ ~made => caller = "none"
  /\ made => MaximumTransferLength \in TransferLimits
  /\ Completion = "event" <=> caller = "thread"
  /\ caller = "thread" => OldCompletion = "owner" /\ Handler = "rw"
  /\ caller = "thread" /\ event => ~Used /\ ~Busy /\ ~turn

\* The transfer at work goes on where the last good one stopped.
Sending ==
  Busy => IF Handler = "rw"
          THEN /\ srb.function = "rw"
               /\ srb.lba = PLBA + Transferred /\ srb.at = Transferred
               /\ srb.len \in 1..(LEN - Transferred)
          ELSE Handler = "default" /\ srb.function # "rw"

\* What has moved is the front part of the request, and no less than what is counted.
Front == \E m \in Transferred..LEN : touched = Own(m)

\* The bad answers in a row are the retries made, and one more when the handler looks.
Counting ==
  /\ Busy => refusals = (IF Handler = "rw" THEN Retry ELSE 0)
  /\ turn /\ Status => refusals = 0
  /\ turn /\ ~Status => IF Handler = "rw" THEN refusals = Retry + 1 /\ Transferred < LEN
                                         ELSE refusals = 1

Done == Handler = "rw" /\ ~Used /\ Status => Transferred = LEN

Inv == /\ TypeOK /\ FreeWhenTold /\ FailureIsEarned
       /\ Control /\ Sending /\ Front /\ Counting /\ Done

\* Nothing is before the first transfer.
LEMMA OwnEmpty == Own(0) = {}
  BY DEF Own

\* A transfer that starts no later than where what has moved ends makes it longer.
LEMMA OwnGrows ==
  ASSUME NEW m \in Nat, NEW n \in Nat, PLBA \in Nat, Transferred \in Nat, Transferred <= m,
         srb.lba = PLBA + Transferred, srb.at = Transferred
  PROVE  Own(m) \cup Moved(n) = Own(IF m <= Transferred + n THEN Transferred + n ELSE m)
<1> DEFINE k == IF m <= Transferred + n THEN Transferred + n ELSE m
<1>1. ASSUME NEW p \in Own(m) PROVE p \in Own(k)
  BY <1>1 DEF Own
<1>2. ASSUME NEW p \in Moved(n) PROVE p \in Own(k)
  <2>1. PICK j \in 0..(n - 1) : p = <<srb.lba + j, srb.at + j>>
    BY <1>2 DEF Moved
  <2>2. p = <<PLBA + (Transferred + j), Transferred + j>> /\ Transferred + j \in 0..(k - 1)
    BY <2>1
  <2> QED BY <2>2 DEF Own
<1>3. ASSUME NEW p \in Own(k) PROVE p \in Own(m) \cup Moved(n)
  <2>1. PICK j \in 0..(k - 1) : p = <<PLBA + j, j>>
    BY <1>3 DEF Own
  <2>2. CASE j < m
    BY <2>1, <2>2 DEF Own
  <2>3. CASE m <= j
    <3>1. j - Transferred \in 0..(n - 1)
      BY <2>3
    <3>2. p = <<srb.lba + (j - Transferred), srb.at + (j - Transferred)>>
      BY <2>1, <2>3
    <3> QED BY <3>1, <3>2 DEF Moved
  <2> QED BY <2>2, <2>3
<1> QED BY <1>1, <1>2, <1>3

\* The types of the numbers of a request.
LEMMA Numbers ==
  ASSUME TypeOK
  PROVE  /\ PLBA \in Nat /\ LEN \in Nat /\ Transferred \in Nat /\ Transferred <= LEN
         /\ RetryLimit \in Nat /\ Retry \in Nat /\ Retry <= RetryLimit
         /\ refusals \in Nat /\ Status \in BOOLEAN
<1>1. PLBA \in Nat /\ LEN \in Nat
  <2>1. PLBA \in LBAs /\ LEN \in 0..MaxLEN
    BY DEF TypeOK
  <2> QED BY <2>1, Parameters DEF LBAs
<1>2. Transferred \in 0..LEN /\ Retry \in 0..RetryLimit /\ RetryLimit \in RetryLimits \cup {0}
      /\ refusals \in Nat /\ Status \in BOOLEAN
  BY DEF TypeOK
<1>3. RetryLimit \in Nat
  BY <1>2, Parameters
<1> QED BY <1>1, <1>2, <1>3

\* No request is there at first.
LEMMA InitInv == Init => Inv
<1> SUFFICES ASSUME Init PROVE Inv
  OBVIOUS
<1>1. TypeOK
  <2>1. srb \in [function : {"none", "rw", "read_capacity", "flush_cache", "srb_flush"},
                lba : Nat, at : Nat, len : Nat]
    BY DEF Init, NoSrb
  <2>2. touched \subseteq Nat \X Nat
    BY DEF Init
  <2>3. /\ deviceLimit \in TransferLimits /\ PLBA \in LBAs /\ LEN \in 0..MaxLEN
        /\ Transferred \in 0..LEN /\ Retry \in 0..RetryLimit
        /\ RetryLimit \in RetryLimits \cup {0} /\ refusals \in Nat
    BY Parameters DEF Init, LBAs
  <2> QED BY <2>1, <2>2, <2>3 DEF Init, TypeOK
<1>2. Front
  BY OwnEmpty DEF Init, Front
<1> QED BY <1>1, <1>2 DEF Init, Inv, FreeWhenTold, FailureIsEarned, Control, Sending, Counting, Done

\* A request that has been made has nothing to do with its predecessor.
LEMMA CreateRequestInv == Inv /\ CreateRequest => Inv'
<1> SUFFICES ASSUME Inv, CreateRequest PROVE Inv'
  OBVIOUS
<1> USE DEF Inv, CreateRequest
<1>1. TypeOK'
  <2>1. srb' \in [function : {"none", "rw", "read_capacity", "flush_cache", "srb_flush"},
                 lba : Nat, at : Nat, len : Nat]
    BY DEF NoSrb
  <2>2. PLBA' \in LBAs' /\ LEN' \in 0..MaxLEN /\ Transferred' \in 0..LEN'
    BY Parameters DEF LBAs
  <2>3. Retry' \in 0..RetryLimit' /\ refusals' \in Nat /\ touched' \subseteq Nat \X Nat
    OBVIOUS
  <2> QED BY <2>1, <2>2, <2>3 DEF TypeOK
<1>2. Front'
  <2>1. touched' = Own(0)'
    BY DEF Own
  <2> QED BY <2>1 DEF Front
<1>3. FreeWhenTold' /\ Control'
  BY DEF FreeWhenTold, Control, TypeOK
<1>4. FailureIsEarned' /\ Sending' /\ Counting' /\ Done'
  BY DEF FailureIsEarned, Sending, Counting, Done, FreeWhenTold, Control
<1> QED BY <1>1, <1>2, <1>3, <1>4

\* A request is freed when it is over.
LEMMA FreeRequestInv == Inv /\ FreeRequest => Inv'
<1> SUFFICES ASSUME Inv, FreeRequest PROVE Inv'
  OBVIOUS
<1> USE DEF Inv, FreeRequest, deviceVars, askedVars, progress, syncVars, history
<1>1. TypeOK'
  <2>1. /\ deviceLimit' \in TransferLimits /\ made' \in BOOLEAN
        /\ MaximumTransferLength' \in TransferLimits \cup {0}
        /\ Completion' \in {"owner", "event"} /\ OldCompletion' \in {"owner", "event"}
        /\ Handler' \in {"none", "rw", "default"}
        /\ Used' \in BOOLEAN /\ Busy' \in BOOLEAN /\ turn' \in BOOLEAN /\ event' \in BOOLEAN
        /\ caller' \in {"none", "owner", "thread"}
    BY DEF TypeOK
  <2>2. /\ Status' \in BOOLEAN
        /\ PLBA' \in LBAs /\ LEN' \in 0..MaxLEN /\ Transferred' \in 0..LEN'
        /\ RetryLimit' \in RetryLimits \cup {0} /\ Retry' \in 0..RetryLimit'
        /\ touched' \subseteq Nat \X Nat /\ refusals' \in Nat
    BY DEF TypeOK
  <2>3. srb' \in [function : {"none", "rw", "read_capacity", "flush_cache", "srb_flush"},
                 lba : Nat, at : Nat, len : Nat]
    BY DEF TypeOK
  <2> QED BY <2>1, <2>2, <2>3 DEF TypeOK, LBAs
<1>2. Front'
  BY DEF Front, Own
<1>3. FreeWhenTold' /\ Control' /\ FailureIsEarned' /\ Sending' /\ Counting' /\ Done'
  BY DEF FreeWhenTold, Control, FailureIsEarned, Sending, Counting, Done
<1> QED BY <1>1, <1>2, <1>3

\* The adapter property is asked for.
LEMMA HookStoragePropertyInv == Inv /\ HookStorageProperty => Inv'
<1> SUFFICES ASSUME Inv, HookStorageProperty PROVE Inv'
  OBVIOUS
<1> USE DEF Inv, HookStorageProperty, askedVars, progress, syncVars, history
<1>1. TypeOK'
  BY DEF TypeOK, LBAs
<1>2. Front'
  BY DEF Front, Own
<1>3. FreeWhenTold' /\ Control' /\ FailureIsEarned' /\ Sending' /\ Counting' /\ Done'
  BY DEF FreeWhenTold, Control, FailureIsEarned, Sending, Counting, Done
<1> QED BY <1>1, <1>2, <1>3

\* A call starts from nothing, whatever the request was used for before.
LEMMA StartRWInv ==
  ASSUME Inv, made, caller = "none", StartRW,
         \/ caller' = "owner" /\ UNCHANGED syncVars
         \/ caller' = "thread" /\ OldCompletion' = Completion /\ Completion' = "event" /\ ~event'
            /\ event' \in BOOLEAN
  PROVE  Inv'
<1> USE DEF Inv, StartRW, ReuseRequest, deviceVars, syncVars
<1>1. TypeOK'
  <2>1. deviceLimit' \in TransferLimits /\ made' \in BOOLEAN
        /\ MaximumTransferLength' \in TransferLimits \cup {0}
        /\ Completion' \in {"owner", "event"} /\ OldCompletion' \in {"owner", "event"}
        /\ Busy' \in BOOLEAN /\ event' \in BOOLEAN
        /\ caller' \in {"none", "owner", "thread"}
    BY DEF TypeOK
  <2>2. PLBA' \in LBAs /\ LEN' \in 0..MaxLEN /\ Transferred' \in 0..LEN'
        /\ RetryLimit' \in RetryLimits \cup {0} /\ Retry' \in 0..RetryLimit'
    BY Parameters DEF LBAs
  <2>3. srb' \in [function : {"none", "rw", "read_capacity", "flush_cache", "srb_flush"},
                 lba : Nat, at : Nat, len : Nat]
    BY DEF TypeOK
  <2> QED BY <2>1, <2>2, <2>3 DEF TypeOK, LBAs
<1>2. Front'
  <2>1. touched' = Own(0)' /\ 0 \in Transferred'..LEN'
    BY Parameters DEF Own
  <2> QED BY <2>1 DEF Front
<1>3. FreeWhenTold' /\ Control'
  BY DEF FreeWhenTold, Control
<1>4. FailureIsEarned' /\ Sending' /\ Counting' /\ Done'
  BY DEF FailureIsEarned, Sending, Counting, Done, FreeWhenTold
<1> QED BY <1>1, <1>2, <1>3, <1>4

\* A request that is sent once.
LEMMA CallOnceInv ==
  ASSUME NEW function \in {"read_capacity", "flush_cache", "srb_flush"}, Inv, CallOnce(function)
  PROVE  Inv'
<1> USE DEF Inv, CallOnce, ReuseRequest, deviceVars, syncVars
<1>1. TypeOK'
  <2>1. srb' \in [function : {"none", "rw", "read_capacity", "flush_cache", "srb_flush"},
                 lba : Nat, at : Nat, len : Nat]
    BY DEF NoSrb
  <2>2. Transferred' \in 0..LEN' /\ Retry' \in 0..RetryLimit'
    BY Numbers
  <2> QED BY <2>1, <2>2 DEF TypeOK, LBAs
<1>2. Front'
  <2>1. PICK m \in Transferred..LEN : touched = Own(m)
    BY DEF Front
  <2>2. m \in Transferred'..LEN' /\ touched' = Own(m)'
    BY <2>1, Numbers DEF Own
  <2> QED BY <2>2 DEF Front
<1>3. FreeWhenTold' /\ Control'
  BY DEF FreeWhenTold, Control
<1>4. FailureIsEarned' /\ Sending' /\ Counting' /\ Done'
  BY DEF FailureIsEarned, Sending, Counting, Done, FreeWhenTold, NoSrb
<1> QED BY <1>1, <1>2, <1>3, <1>4

\* A synchronous request returns to the worker that waits.
LEMMA SyncReturnsInv == Inv /\ SyncReturns => Inv'
<1> SUFFICES ASSUME Inv, SyncReturns PROVE Inv'
  OBVIOUS
<1> USE DEF Inv, SyncReturns, deviceVars, askedVars, progress, history
<1>1. TypeOK'
  BY DEF TypeOK, LBAs
<1>2. Front'
  BY DEF Front, Own
<1>3. FreeWhenTold' /\ Control'
  BY DEF FreeWhenTold, Control
<1>4. FailureIsEarned' /\ Sending' /\ Counting' /\ Done'
  BY DEF FailureIsEarned, Sending, Counting, Done, Control
<1> QED BY <1>1, <1>2, <1>3, <1>4

\* The handler ends the request: the four cases differ in what they know of Transferred.
LEMMA HandlerCompletesInv ==
  ASSUME Inv, HandlerCompletes,
         Handler = "rw" /\ Status => Transferred = LEN,
         ~Status => refusals = 1 + (IF Handler = "rw" THEN RetryLimit ELSE 0)
  PROVE  Inv'
<1> USE DEF Inv, HandlerCompletes, Complete, deviceVars, askedVars, progress, history
<1>1. TypeOK'
  <2>1. /\ deviceLimit' \in TransferLimits /\ made' \in BOOLEAN
        /\ MaximumTransferLength' \in TransferLimits \cup {0}
        /\ Completion' \in {"owner", "event"} /\ OldCompletion' \in {"owner", "event"}
        /\ Handler' \in {"none", "rw", "default"}
        /\ Used' \in BOOLEAN /\ Busy' \in BOOLEAN /\ turn' \in BOOLEAN /\ event' \in BOOLEAN
        /\ caller' \in {"none", "owner", "thread"}
    BY DEF TypeOK
  <2>2. /\ Status' \in BOOLEAN
        /\ PLBA' \in LBAs /\ LEN' \in 0..MaxLEN /\ Transferred' \in 0..LEN'
        /\ RetryLimit' \in RetryLimits \cup {0} /\ Retry' \in 0..RetryLimit'
        /\ touched' \subseteq Nat \X Nat /\ refusals' \in Nat
    BY DEF TypeOK
  <2>3. srb' \in [function : {"none", "rw", "read_capacity", "flush_cache", "srb_flush"},
                 lba : Nat, at : Nat, len : Nat]
    BY DEF TypeOK
  <2> QED BY <2>1, <2>2, <2>3 DEF TypeOK, LBAs
<1>2. Front'
  BY DEF Front, Own
<1>3. FreeWhenTold' /\ Control'
  BY DEF FreeWhenTold, Control, TypeOK
<1>4. FailureIsEarned' /\ Sending' /\ Counting' /\ Done'
  BY DEF FailureIsEarned, Sending, Counting, Done, FreeWhenTold
<1> QED BY <1>1, <1>2, <1>3, <1>4

\* A request that ends, with its completion.
LEMMA EndsInv == Inv /\ (ScsiCallDefaultHandler \/ RWEnds \/ RWGivesUp) => Inv'
<1> SUFFICES ASSUME Inv, ScsiCallDefaultHandler \/ RWEnds \/ RWGivesUp PROVE Inv'
  OBVIOUS
<1>1. CASE ScsiCallDefaultHandler
  <2>1. HandlerCompletes /\ Handler = "default" /\ (~Status => refusals = 1)
    BY <1>1 DEF ScsiCallDefaultHandler, Inv, Counting, HandlerCompletes
  <2> QED BY <2>1, HandlerCompletesInv
<1>2. CASE RWEnds
  <2>1. Transferred = LEN /\ Status
    BY Numbers, <1>2 DEF RWEnds, Inv, Counting, HandlerCompletes
  <2> QED BY <1>2, <2>1, HandlerCompletesInv DEF RWEnds
<1>3. CASE RWGivesUp
  <2>1. ~Status /\ refusals = 1 + RetryLimit
    BY Numbers, <1>3 DEF RWGivesUp, Inv, Counting, HandlerCompletes
  <2> QED BY <1>3, <2>1, HandlerCompletesInv DEF RWGivesUp
<1> QED BY <1>1, <1>2, <1>3

\* A transfer is sent.
LEMMA RWSendsInv == Inv /\ RWSends => Inv'
<1> SUFFICES ASSUME Inv, RWSends PROVE Inv'
  OBVIOUS
<1> USE DEF Inv, RWSends, deviceVars, askedVars, syncVars, history
<1>0. Transferred < LEN
  OBVIOUS
<1>1. made /\ MaximumTransferLength \in Nat \ {0}
  BY Parameters DEF Control, FreeWhenTold
<1>2. srb'.len \in 1..(LEN - Transferred) /\ srb'.len \in Nat
  BY <1>0, <1>1, Numbers DEF NextSrb, AtMost
<1>3. srb' = [function |-> "rw", lba |-> PLBA + Transferred, at |-> Transferred, len |-> srb'.len]
  BY DEF NextSrb
<1>4. TypeOK'
  <2>1. srb' \in [function : {"none", "rw", "read_capacity", "flush_cache", "srb_flush"},
                 lba : Nat, at : Nat, len : Nat]
    BY <1>2, <1>3, Numbers
  <2>2. Retry' \in 0..RetryLimit'
    BY Numbers
  <2> QED BY <2>1, <2>2 DEF TypeOK
<1>5. Front'
  BY DEF Front, Own
<1>6. FreeWhenTold' /\ Control'
  BY DEF FreeWhenTold, Control
<1>7. Sending'
  BY <1>2, <1>3 DEF Sending
<1>8. Counting'
  BY Numbers DEF Counting
<1>9. FailureIsEarned' /\ Done'
  BY DEF FailureIsEarned, Done, FreeWhenTold
<1> QED BY <1>4, <1>5, <1>6, <1>7, <1>8, <1>9

\* An answer that speaks of n sectors when m have moved.
LEMMA AnsweredFront ==
  ASSUME Inv, NEW good \in BOOLEAN, NEW m \in Nat, NEW n \in Nat, Answered(good, m),
         Transferred' = Transferred + n,
         srb.function = "rw" => n <= m /\ m <= srb.len,
         srb.function # "rw" => n = 0
  PROVE  /\ \E k \in Transferred'..LEN : touched' = Own(k) /\ touched \subseteq touched'
         /\ touched' \subseteq Nat \X Nat
         /\ Transferred' \in 0..LEN
<1> USE DEF Inv, Answered
<1>0. TypeOK
  OBVIOUS
<1>1. PICK k \in Transferred..LEN : touched = Own(k)
  BY DEF Front
<1>2. CASE srb.function = "rw"
  <2>1. /\ Handler = "rw" /\ srb.lba = PLBA + Transferred /\ srb.at = Transferred
        /\ srb.len \in 1..(LEN - Transferred)
    BY <1>2 DEF Sending
  <2> DEFINE j == IF k <= Transferred + m THEN Transferred + m ELSE k
  <2>2. k \in Nat /\ Transferred <= k
    BY <1>0, <1>1, Numbers
  <2>3. touched' = Own(j)
    <3>1. touched' = Own(k) \cup Moved(m)
      BY <1>1, <1>2
    <3>2. Own(k) \cup Moved(m) = Own(j)
      BY <1>0, <2>1, <2>2, Numbers, OwnGrows
    <3> QED BY <3>1, <3>2
  <2>4. j \in Transferred'..LEN
    BY <1>0, <1>1, <1>2, <2>1, <2>2, Numbers
  <2>5. Own(j) \subseteq Nat \X Nat
    BY <1>0, <2>2, Numbers DEF Own
  <2>6. Transferred' \in 0..LEN
    BY <1>0, <1>2, <2>1, Numbers
  <2> QED BY <1>2, <2>3, <2>4, <2>5, <2>6
<1>3. CASE srb.function # "rw"
  <2>1. touched' = touched /\ Transferred' = Transferred
    BY <1>0, <1>3, Numbers
  <2>2. touched \subseteq Nat \X Nat /\ Transferred \in 0..LEN
    BY DEF TypeOK
  <2> QED BY <1>1, <2>1, <2>2
<1> QED BY <1>2, <1>3

\* A transfer is answered.
LEMMA AnsweredInv ==
  ASSUME Inv, NEW good \in BOOLEAN, NEW m \in Nat, NEW n \in Nat, Answered(good, m),
         Transferred' = Transferred + n,
         srb.function = "rw" => n <= m /\ m <= srb.len,
         srb.function # "rw" => n = 0,
         ~good => n = 0
  PROVE  Inv'
<1> USE DEF Inv, Answered, deviceVars, askedVars, syncVars
<1>0. TypeOK
  OBVIOUS
<1>1. PICK k \in Transferred'..LEN : touched' = Own(k)
  BY AnsweredFront
<1>2. Transferred' \in 0..LEN /\ touched' \subseteq Nat \X Nat
  BY AnsweredFront
<1>3. TypeOK'
  <2>1. /\ deviceLimit' \in TransferLimits /\ made' \in BOOLEAN
        /\ MaximumTransferLength' \in TransferLimits \cup {0}
        /\ Completion' \in {"owner", "event"} /\ OldCompletion' \in {"owner", "event"}
        /\ Handler' \in {"none", "rw", "default"}
        /\ Used' \in BOOLEAN /\ Busy' \in BOOLEAN /\ turn' \in BOOLEAN /\ event' \in BOOLEAN
        /\ caller' \in {"none", "owner", "thread"}
    BY DEF TypeOK
  <2>2. /\ Status' \in BOOLEAN
        /\ PLBA' \in LBAs /\ LEN' \in 0..MaxLEN
        /\ RetryLimit' \in RetryLimits \cup {0} /\ Retry' \in 0..RetryLimit'
    BY DEF TypeOK
  <2>3. srb' \in [function : {"none", "rw", "read_capacity", "flush_cache", "srb_flush"},
                 lba : Nat, at : Nat, len : Nat]
    BY DEF TypeOK
  <2>4. refusals' \in Nat
    BY <1>0, Numbers
  <2> QED BY <1>2, <2>1, <2>2, <2>3, <2>4 DEF TypeOK, LBAs
<1>4. Front'
  <2>1. k \in (Transferred..LEN)' /\ touched' = Own(k)'
    BY <1>1 DEF Own
  <2> QED BY <2>1 DEF Front
<1>5. FreeWhenTold' /\ Control'
  BY DEF FreeWhenTold, Control
<1>6. Counting'
  <2>1. CASE good
    BY <2>1 DEF Counting
  <2>2. CASE ~good /\ Handler = "rw"
    <3>1. srb.len \in 1..(LEN - Transferred)
      BY <2>2 DEF Sending
    <3>2. Transferred' < LEN'
      BY <1>0, <2>2, <3>1, Numbers
    <3> QED BY <2>2, <3>2 DEF Counting
  <2>3. CASE ~good /\ Handler # "rw"
    BY <2>3 DEF Counting
  <2> QED BY <2>1, <2>2, <2>3
<1>7. Used
  BY DEF FreeWhenTold
<1>8. FailureIsEarned' /\ Sending' /\ Done'
  BY <1>7 DEF FailureIsEarned, Sending, Done
<1> QED BY <1>3, <1>4, <1>5, <1>6, <1>8

\* What the three kinds of answer have in common.
LEMMA AnswerIs ==
  ASSUME Inv, ScsiCallCompletion
  PROVE  \E good \in BOOLEAN, m \in Nat, n \in Nat :
           /\ Answered(good, m)
           /\ Transferred' = Transferred + n
           /\ srb.function = "rw" => n <= m /\ m <= srb.len
           /\ srb.function # "rw" => n = 0
           /\ ~good => n = 0
<1>0. srb.len \in Nat /\ Transferred \in Nat
  BY Numbers DEF Inv, TypeOK
<1>1. CASE IrpSucceeds
  <2>1. CASE srb.function = "rw"
    <3>1. PICK n \in 1..srb.len : /\ \E m \in n..srb.len : Answered(TRUE, m)
                                  /\ Transferred' = Transferred + n
      BY <1>1, <2>1 DEF IrpSucceeds, Counted
    <3>2. PICK m \in n..srb.len : Answered(TRUE, m)
      BY <3>1
    <3>3. n \in Nat /\ m \in Nat /\ n <= m /\ m <= srb.len
      BY <1>0
    <3> QED BY <2>1, <3>1, <3>2, <3>3
  <2>2. CASE srb.function # "rw"
    <3>1. Answered(TRUE, 0) /\ Transferred' = Transferred
      BY <1>1, <2>2 DEF IrpSucceeds
    <3>2. Transferred' = Transferred + 0
      BY <1>0, <3>1
    <3> QED BY <2>2, <3>1, <3>2
  <2> QED BY <2>1, <2>2
<1>2. ASSUME NEW good \in BOOLEAN, NEW m \in 0..srb.len, Answered(good, m),
             Transferred' = Transferred
      PROVE  \E g \in BOOLEAN, j \in Nat, n \in Nat :
               /\ Answered(g, j)
               /\ Transferred' = Transferred + n
               /\ srb.function = "rw" => n <= j /\ j <= srb.len
               /\ srb.function # "rw" => n = 0
               /\ ~g => n = 0
  <2>1. m \in Nat /\ m <= srb.len /\ Transferred' = Transferred + 0 /\ 0 <= m
    BY <1>0, <1>2
  <2> QED BY <1>2, <2>1
<1>3. CASE IrpDisagrees
  BY <1>2, <1>3 DEF IrpDisagrees
<1>4. CASE IrpFails
  BY <1>2, <1>4 DEF IrpFails
<1> QED BY <1>1, <1>3, <1>4 DEF ScsiCallCompletion

\* Every call of the engine.
LEMMA CallsInv == Inv /\ Calls => Inv'
<1> SUFFICES ASSUME Inv, Calls PROVE Inv'
  OBVIOUS
<1>1. CASE ScsiCallRW
  BY <1>1, StartRWInv DEF ScsiCallRW
<1>2. CASE SyncScsiCallRW
  BY <1>2, StartRWInv DEF SyncScsiCallRW
<1>3. CASE ScsiCallReadCapacity \/ ScsiCallFlushCache \/ ScsiCallSrbFlush
  BY <1>3, CallOnceInv DEF ScsiCallReadCapacity, ScsiCallFlushCache, ScsiCallSrbFlush
<1> QED BY <1>1, <1>2, <1>3 DEF Calls

\* The invariant is kept by every step.
LEMMA NextInv == Inv /\ [Next]_vars => Inv'
<1> SUFFICES ASSUME Inv, [Next]_vars PROVE Inv'
  OBVIOUS
<1>1. CASE CreateRequest
  BY <1>1, CreateRequestInv
<1>2. CASE FreeRequest
  BY <1>2, FreeRequestInv
<1>3. CASE HookStorageProperty
  BY <1>3, HookStoragePropertyInv
<1>4. CASE Calls
  BY <1>4, CallsInv
<1>5. CASE SyncReturns
  BY <1>5, SyncReturnsInv
<1>6. CASE Handlers
  BY <1>6, EndsInv, RWSendsInv DEF Handlers
<1>7. CASE ScsiCallCompletion
  BY <1>7, AnswerIs, AnsweredInv
<1>8. CASE UNCHANGED vars
  <2> USE <1>8 DEF vars, deviceVars, askedVars, progress, syncVars, history
  <2>1. TypeOK'
    BY DEF Inv, TypeOK, LBAs
  <2>2. Front'
    BY DEF Inv, Front, Own
  <2>3. FreeWhenTold' /\ Control' /\ FailureIsEarned' /\ Sending' /\ Counting' /\ Done'
    BY DEF Inv, FreeWhenTold, Control, FailureIsEarned, Sending, Counting, Done
  <2> QED BY <2>1, <2>2, <2>3 DEF Inv
<1> QED BY <1>1, <1>2, <1>3, <1>4, <1>5, <1>6, <1>7, <1>8 DEF Next

\* The invariant holds in every reachable state.
LEMMA Invariance == Spec => []Inv
  BY InitInv, NextInv, PTL DEF Spec

-----------------------------------------------------------------------------
(* The properties *)

\* The variables keep their types: no more sectors are counted than were asked for, and no
\* more retries made than are allowed (vreq.c:152-170).
THEOREM TypeCorrect == Spec => []TypeOK
  BY Invariance, PTL DEF Inv

\* Whoever starts the request finds it free (the assertions of vreq.c:63, 126, 154, 204).
THEOREM RequestIsFree == Spec => []FreeWhenTold
  BY Invariance, PTL DEF Inv

\* No failure is reported before all retries have been used up in a row (vreq.c:160-170).
THEOREM FailureEarned == Spec => []FailureIsEarned
  BY Invariance, PTL DEF Inv

\* A success means that every sector has moved to its place (vreq.c:146-160).
THEOREM SuccessComplete == Spec => []SuccessIsComplete
<1>1. Inv => SuccessIsComplete
  <2> SUFFICES ASSUME Inv, Handler = "rw", ~Used, Status PROVE Own(LEN) \subseteq touched
    BY DEF SuccessIsComplete
  <2>1. PICK m \in Transferred..LEN : touched = Own(m)
    BY DEF Inv, Front
  <2>2. Transferred = LEN /\ LEN \in Nat
    BY Numbers DEF Inv, Done
  <2>3. m = LEN
    BY <2>1, <2>2
  <2> QED BY <2>1, <2>3
<1> QED BY <1>1, Invariance, PTL

\* What has moved is a front part of the request, whatever fails (vreq.c:150-152): the
\* control at the end of a purge is on the medium only if all its blocks are.
THEOREM ControlLast == Spec => []ControlComesLast
<1>1. Inv => ControlComesLast
  <2> SUFFICES ASSUME Inv, NEW p \in touched
               PROVE  p \in Own(LEN) /\ Own(p[2]) \subseteq touched
    BY DEF ControlComesLast
  <2>1. PICK m \in Transferred..LEN : touched = Own(m)
    BY DEF Inv, Front
  <2>2. m \in Nat /\ m <= LEN /\ LEN \in Nat
    BY <2>1, Numbers DEF Inv
  <2>3. PICK j \in 0..(m - 1) : p = <<PLBA + j, j>>
    BY <2>1 DEF Own
  <2>4. p \in Own(LEN)
    BY <2>2, <2>3 DEF Own
  <2>5. p[2] = j
    BY <2>3
  <2>6. Own(j) \subseteq Own(m)
    BY <2>2 DEF Own
  <2> QED BY <2>1, <2>4, <2>5, <2>6
<1> QED BY <1>1, Invariance, PTL

-----------------------------------------------------------------------------
(* The request implements Transfer *)

Moving    == caller # "none" /\ Handler = "rw"
Places(s) == {p[2] : p \in s}
Told      == IF caller # "none" \/ Handler # "rw" THEN "none"
             ELSE IF Status THEN "good" ELSE "bad"

\* The state Transfer sees is made of these three and of LEN.
Seen == <<caller, Handler, Status, touched, LEN>>

\* The places of the sectors transferred so far.
LEMMA PlacesOfOwn == ASSUME NEW n \in Nat PROVE Places(Own(n)) = T!Front(n)
<1>1. ASSUME NEW k \in 0..(n - 1) PROVE k \in Places(Own(n))
  <2>1. <<PLBA + k, k>> \in Own(n) /\ <<PLBA + k, k>>[2] = k
    BY DEF Own
  <2> QED BY <2>1 DEF Places
<1>2. ASSUME NEW k \in Places(Own(n)) PROVE k \in 0..(n - 1)
  <2>1. PICK p \in Own(n) : k = p[2]
    BY <1>2 DEF Places
  <2> QED BY <2>1 DEF Own
<1> QED BY <1>1, <1>2 DEF T!Front

\* Nothing Transfer sees changes.
LEMMA Stutters == ASSUME UNCHANGED Seen PROVE UNCHANGED T!vars
  BY DEF Seen, T!vars

\* Nothing is transferred at first.
LEMMA InitTransfer == Init => T!Init
  BY DEF Init, T!Init

\* A request begins a transfer.
LEMMA BeginTransfer ==
  ASSUME Inv, ScsiCallRW \/ SyncScsiCallRW PROVE T!Begin
<1>1. caller = "none" /\ caller' # "none" /\ Handler' = "rw" /\ LEN' \in 0..MaxLEN /\ touched' = {}
  BY DEF ScsiCallRW, SyncScsiCallRW, StartRW
<1>2. LEN' \in Nat
  BY <1>1, Parameters
<1> QED BY <1>1, <1>2 DEF T!Begin

\* The caller is told.
LEMMA EndTransfer ==
  ASSUME Inv, Moving, caller' = "none", UNCHANGED <<Handler, Status, touched, LEN>>,
         Status => Transferred = LEN
  PROVE  T!End
<1>1. PICK m \in Transferred..LEN : touched = Own(m)
  BY DEF Inv, Front
<1>2. CASE Status
  <2>1. m = LEN /\ LEN \in Nat
    BY <1>1, <1>2, Numbers DEF Inv
  <2>2. {p[2] : p \in touched} = T!Front(LEN)
    BY <1>1, <2>1, PlacesOfOwn DEF Places
  <2> QED BY <1>2, <2>2 DEF T!End, Moving
<1>3. CASE ~Status
  BY <1>3 DEF T!End, Moving
<1> QED BY <1>2, <1>3

\* A request that is over ends it.
LEMMA ForgetTransfer ==
  ASSUME caller = "none", caller' = "none" \/ Handler' # "rw", Handler' # "rw",
         \/ UNCHANGED <<touched, LEN>>
         \/ touched' = {} /\ LEN' = 0
  PROVE  T!Forget
  BY DEF T!Forget

\* An answer moves it on.
LEMMA MoveTransfer ==
  ASSUME Inv, ScsiCallCompletion PROVE T!Move \/ UNCHANGED T!vars
<1>1. PICK good \in BOOLEAN, m \in Nat, n \in Nat :
           /\ Answered(good, m)
           /\ Transferred' = Transferred + n
           /\ srb.function = "rw" => n <= m /\ m <= srb.len
           /\ srb.function # "rw" => n = 0
           /\ ~good => n = 0
  BY AnswerIs
<1>2. UNCHANGED <<caller, Handler, LEN>> /\ caller # "none"
  BY <1>1 DEF Answered, askedVars, Inv, FreeWhenTold
<1>3. CASE Handler # "rw"
  <2>1. touched' = touched
    BY <1>1, <1>3 DEF Answered, Inv, Sending
  <2> QED BY <1>2, <1>3, <2>1 DEF T!vars
<1>4. CASE Handler = "rw"
  <2>1. PICK k \in Transferred'..LEN : touched' = Own(k) /\ touched \subseteq touched'
    BY <1>1, AnsweredFront
  <2>2. k \in Nat /\ k <= LEN /\ LEN \in Nat
    BY <1>1, <2>1, Numbers DEF Inv
  <2>3. {p[2] : p \in touched'} = T!Front(k)
    BY <2>1, <2>2, PlacesOfOwn DEF Places
  <2>4. {p[2] : p \in touched} \subseteq {p[2] : p \in touched'}
    BY <2>1
  <2> QED BY <1>2, <1>4, <2>2, <2>3, <2>4 DEF T!Move
<1> QED BY <1>3, <1>4

\* The handler is done: the caller is told at once, or by the thread that waits.
LEMMA HandlerTransfer ==
  ASSUME Inv, HandlerCompletes, Handler = "rw" /\ Status => Transferred = LEN
  PROVE  T!End \/ UNCHANGED T!vars
<1>1. caller # "none" /\ UNCHANGED <<Handler, Status, touched, LEN>>
  BY DEF Inv, FreeWhenTold, HandlerCompletes, askedVars, progress, history
<1>2. CASE Completion = "event"
  <2>1. caller' = caller
    BY <1>2 DEF HandlerCompletes, Complete
  <2> QED BY <1>1, <2>1, Stutters DEF Seen
<1>3. CASE Completion # "event" /\ Handler = "rw"
  <2>1. caller' = "none"
    BY <1>3 DEF HandlerCompletes, Complete
  <2> QED BY <1>1, <1>3, <2>1, EndTransfer DEF Moving
<1>4. CASE Completion # "event" /\ Handler # "rw"
  BY <1>1, <1>4 DEF T!vars
<1> QED BY <1>2, <1>3, <1>4

\* Every step of the engine is one of the transfer, or none.
LEMMA NextTransfer == Inv /\ [Next]_vars => [T!Next]_(T!vars)
<1> SUFFICES ASSUME Inv, [Next]_vars PROVE T!Next \/ UNCHANGED T!vars
  OBVIOUS
<1>1. CASE CreateRequest
  BY <1>1, ForgetTransfer DEF CreateRequest, Inv, Control, T!Next
<1>2. CASE FreeRequest \/ HookStorageProperty \/ RWSends \/ UNCHANGED vars
  <2>1. UNCHANGED Seen
    BY <1>2 DEF FreeRequest, HookStorageProperty, RWSends, vars, Seen,
                deviceVars, askedVars, progress, history
  <2> QED BY <2>1, Stutters
<1>3. CASE ScsiCallRW \/ SyncScsiCallRW
  BY <1>3, BeginTransfer DEF T!Next
<1>4. CASE ScsiCallReadCapacity \/ ScsiCallFlushCache \/ ScsiCallSrbFlush
  <2>1. PICK function \in {"read_capacity", "flush_cache", "srb_flush"} : CallOnce(function)
    BY <1>4 DEF ScsiCallReadCapacity, ScsiCallFlushCache, ScsiCallSrbFlush
  <2>2. caller = "none" /\ Handler' # "rw" /\ UNCHANGED <<touched, LEN>>
    BY <2>1 DEF CallOnce
  <2> QED BY <2>2, ForgetTransfer DEF T!Next
<1>5. CASE SyncReturns
  <2>1. /\ caller = "thread" /\ caller' = "none" /\ Handler = "rw" /\ ~Used
        /\ UNCHANGED <<Handler, Status, touched, LEN>>
    BY <1>5 DEF SyncReturns, Inv, Control, askedVars, progress, history
  <2> QED BY <2>1, EndTransfer DEF Moving, Inv, Done, T!Next
<1>6. CASE ScsiCallDefaultHandler
  BY <1>6, HandlerTransfer DEF ScsiCallDefaultHandler, T!Next
<1>7. CASE RWEnds
  <2>1. HandlerCompletes /\ Transferred = LEN
    BY <1>7, Numbers DEF RWEnds, Inv
  <2> QED BY <2>1, HandlerTransfer DEF T!Next
<1>8. CASE RWGivesUp
  BY <1>8, HandlerTransfer DEF RWGivesUp, T!Next
<1>9. CASE ScsiCallCompletion
  BY <1>9, MoveTransfer DEF T!Next
<1> QED BY <1>1, <1>2, <1>3, <1>4, <1>5, <1>6, <1>7, <1>8, <1>9 DEF Next, Calls, Handlers

\* However a read or write is split, retried and cut short, its callers see one transfer
\* from front to back with one outcome, which is good only when all of it has moved.
THEOREM RequestImplementsTransfer == Spec => TransferSpec
  BY InitTransfer, NextTransfer, Invariance, PTL DEF Spec, TransferSpec, T!Spec

-----------------------------------------------------------------------------
(* Every call comes to an end *)

\* The parts of the distance are natural numbers.
LEMMA DistanceParts ==
  ASSUME Inv
  PROVE  LEN - Transferred \in Nat /\ RetriesLeft \in Nat /\ TurnsLeft \in Nat /\ RetryLimit \in Nat
<1>1. LEN - Transferred \in Nat /\ RetryLimit - Retry \in Nat /\ RetryLimit \in Nat
  BY Numbers DEF Inv
<1> QED BY <1>1 DEF RetriesLeft, TurnsLeft

\* Nothing comes nearer for ever.
LEMMA NoEndlessCall ==
  ~ \E f \in [Nat -> Nat \X Nat] : \A n \in Nat : Nearer(f[n + 1], f[n])
<1> DEFINE L == OpToRel(<, Nat)
           R == LexPairOrdering(L, L, Nat, Nat)
<1>1. IsWellFoundedOn(R, Nat \X Nat)
  BY NatLessThanWellFounded, WFLexPairOrdering
<1> SUFFICES ASSUME NEW f \in [Nat -> Nat \X Nat], \A n \in Nat : Nearer(f[n + 1], f[n])
             PROVE  FALSE
  OBVIOUS
<1>2. ASSUME NEW n \in Nat PROVE <<f[n + 1], f[n]>> \in R
  <2>1. f[n + 1] \in Nat \X Nat /\ f[n] \in Nat \X Nat /\ Nearer(f[n + 1], f[n])
    BY n + 1 \in Nat
  <2>2. \A d, e \in Nat \X Nat : Nearer(d, e) => <<d, e>> \in R
    <3>1. \A i, j \in Nat : i < j => <<i, j>> \in L
      BY DEF OpToRel
    <3> HIDE DEF L
    <3> QED BY <3>1 DEF LexPairOrdering, Nearer
  <2> HIDE DEF R
  <2> QED BY <2>1, <2>2
<1> HIDE DEF R
<1> QED BY <1>1, <1>2 DEF IsWellFoundedOn

\* The handler takes its turn.
LEMMA HandlersNearer ==
  ASSUME Inv, Handlers
  PROVE  Nearer(Distance', Distance)
<1>1. turn /\ ~Busy /\ LEN' = LEN /\ Transferred' = Transferred /\ Handler' = Handler
      /\ RetryLimit' = RetryLimit /\ Status' = Status
  BY DEF Handlers, ScsiCallDefaultHandler, RWEnds, RWGivesUp, RWSends, HandlerCompletes, askedVars,
     progress, Inv, FreeWhenTold
<1>2. LEN - Transferred \in Nat /\ RetryLimit \in Nat /\ Retry \in Nat /\ RetriesLeft \in Nat
  BY DistanceParts, Numbers DEF Inv
<1>3. TurnsLeft = IF Handler = "rw" /\ Status THEN 2 * RetryLimit + 3 ELSE 2 * RetriesLeft + 1
  BY <1>1 DEF TurnsLeft
<1>4. TurnsLeft' < TurnsLeft
  <2>1. CASE HandlerCompletes
    <3>1. ~turn' /\ ~Busy'
      BY <1>1, <2>1 DEF HandlerCompletes
    <3>2. TurnsLeft' = 0
      BY <3>1 DEF TurnsLeft
    <3> QED BY <1>2, <1>3, <3>2
  <2>2. CASE RWSends
    <3>1. Busy' /\ Handler = "rw" /\ Retry' = (IF Status THEN 0 ELSE Retry + 1)
      BY <2>2 DEF RWSends
    <3>2. TurnsLeft' = 2 * (RetryLimit - Retry') + 2
      BY <1>1, <3>1 DEF TurnsLeft, RetriesLeft
    <3>3. RetriesLeft = RetryLimit - Retry
      BY <3>1 DEF RetriesLeft
    <3> QED BY <1>2, <1>3, <3>1, <3>2, <3>3
  <2> QED BY <2>1, <2>2 DEF Handlers, ScsiCallDefaultHandler, RWEnds, RWGivesUp
<1> QED BY <1>1, <1>4 DEF Nearer, Distance

\* The lower driver answers: it has moved something, or the handler has fewer turns left.
LEMMA CompletionNearer ==
  ASSUME Inv, ScsiCallCompletion
  PROVE  Nearer(Distance', Distance)
<1>1. /\ Busy /\ ~Busy' /\ turn' /\ UNCHANGED <<LEN, Handler, RetryLimit, Retry>>
      /\ \/ ~Status' /\ Transferred' = Transferred
         \/ Handler # "rw" /\ Transferred' = Transferred
         \/ \E n \in 1..srb.len : srb.function = "rw" /\ Transferred' = Transferred + n
  BY DEF ScsiCallCompletion, IrpSucceeds, IrpDisagrees, IrpFails, Answered, Counted, askedVars, Inv,
     Sending
<1>2. LEN - Transferred \in Nat /\ RetriesLeft \in Nat /\ Transferred \in Nat /\ LEN \in Nat
  BY DistanceParts, Numbers DEF Inv
<1>3. CASE Transferred' = Transferred /\ (~Status' \/ Handler # "rw")
  <2>1. TurnsLeft = 2 * RetriesLeft + 2 /\ TurnsLeft' = 2 * RetriesLeft + 1
    BY <1>1, <1>3 DEF TurnsLeft, RetriesLeft
  <2> QED BY <1>1, <1>2, <1>3, <2>1 DEF Nearer, Distance
<1>4. CASE \E n \in 1..srb.len : srb.function = "rw" /\ Transferred' = Transferred + n
  <2>1. srb.len \in Nat
    BY DEF Inv, TypeOK
  <2>2. LEN' - Transferred' < LEN - Transferred
    BY <1>1, <1>2, <1>4, <2>1
  <2> QED BY <2>2 DEF Nearer, Distance
<1> QED BY <1>1, <1>3, <1>4

\* Nobody else does anything to a call.
LEMMA OthersNearer ==
  ASSUME Inv, [Next]_vars, ~Handlers, ~ScsiCallCompletion, caller # "none", caller' # "none"
  PROVE  Distance' = Distance
<1>1. HookStorageProperty \/ UNCHANGED vars
  BY DEF Next, Calls, CreateRequest, FreeRequest, ScsiCallRW, SyncScsiCallRW, ScsiCallReadCapacity,
     ScsiCallFlushCache, ScsiCallSrbFlush, CallOnce, SyncReturns, Inv, Control
<1> QED BY <1>1 DEF HookStorageProperty, vars, askedVars, progress, Distance, TurnsLeft, RetriesLeft

\* Why every call is answered, however often the device refuses, and for every limit of the
\* retries: each turn of the handler and each answer brings the call nearer to its end, which
\* cannot go on for ever, and what is neither is a wait for an event that has been set
\* (vreq.c:62-70, 146-175).
THEOREM CallsNearer == Spec => CallsComeNearer
<1> DEFINE Comes == /\ Handlers \/ ScsiCallCompletion => Nearer(Distance', Distance)
                    /\ Distance' = Distance \/ Nearer(Distance', Distance)
<1>1. Inv /\ [Next]_vars => [caller # "none" /\ caller' # "none" => Comes]_vars
  BY HandlersNearer, CompletionNearer, OthersNearer
<1> HIDE DEF Comes
<1>2. Spec => [][caller # "none" /\ caller' # "none" => Comes]_vars
  BY <1>1, Invariance, PTL DEF Spec
<1> QED BY <1>2 DEF CallsComeNearer, Comes
=============================================================================
