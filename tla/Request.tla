------------------------------ MODULE Request ------------------------------
(***************************************************************************)
(* The request engine of the driver (driver/vreq.c): one request, from its *)
(* creation to its end, under a caller that uses it again and again, with  *)
(* a completion routine or waiting for an event.  A read or write is split *)
(* into transfers the device accepts; a transfer that fails is sent again, *)
(* up to RetryLimit times, from where the last good one stopped.           *)
(*                                                                         *)
(* The lower driver answers as it pleases: with success, with an overrun   *)
(* (success, but fewer sectors than asked for), with a success whose two   *)
(* lengths disagree, or with an error.  It moves the sectors of one        *)
(* transfer front to back, so that what has moved of a failed one is a     *)
(* front part of it, and it does not report success without moving any.    *)
(***************************************************************************)
EXTENDS Naturals

CONSTANTS
  MaxLBA, MaxLEN,     \* bounds of the exploration: first sector and length of a request
  RetryLimits,        \* 0 and DEFAULT_RETRY in the driver
  TransferLimits      \* values of MaximumTransferLength, in sectors

ASSUME Parameters ==
  /\ MaxLBA \in Nat /\ MaxLEN \in Nat
  /\ RetryLimits \subseteq Nat /\ RetryLimits # {}
  /\ TransferLimits \subseteq Nat \ {0} /\ TransferLimits # {}

VARIABLES
  deviceLimit,            \* DeviceExtension->MaximumTransferLength
  made,                   \* the request exists
  MaximumTransferLength, Completion, Handler, Used, Busy,
  PLBA, LEN, RetryLimit, Retry, Transferred,
  Status,                 \* REQ_SUCCESS(Req)
  srb,                    \* the transfer last sent: its function, first sector,
                          \* place in the buffer, length
  turn,                   \* Req->Handler is about to run
  caller,                 \* who has started the request and waits to hear of it
  event, OldCompletion,   \* locals of SyncScsiCallRW
  touched,                \* history: the sectors moved for the present call, each with
                          \* its place in the buffer
  refusals                \* history: bad answers in a row

deviceVars == <<deviceLimit, made, MaximumTransferLength>>
askedVars  == <<PLBA, LEN, RetryLimit, Handler>>
progress   == <<Retry, Transferred, Status>>
syncVars   == <<Completion, event, OldCompletion>>
history    == <<touched, refusals>>
vars == <<deviceVars, askedVars, progress, syncVars, Used, Busy, srb, turn, caller, history>>

LBAs == 0..MaxLBA
NoSrb == [function |-> "none", lba |-> 0, at |-> 0, len |-> 0]

\* The first n sectors of the request, each with the place in the buffer it belongs to.
Own(n) == {<<PLBA + k, k>> : k \in 0..(n - 1)}

\* The first n sectors of the transfer last sent, as the lower driver moves them.
Moved(n) == {<<srb.lba + k, srb.at + k>> : k \in 0..(n - 1)}

AtMost(a, b) == IF a <= b THEN a ELSE b

Init ==
  /\ deviceLimit \in TransferLimits
  /\ made = FALSE /\ MaximumTransferLength = 0
  /\ PLBA = 0 /\ LEN = 0 /\ RetryLimit = 0 /\ Handler = "none"
  /\ Retry = 0 /\ Transferred = 0 /\ Status = TRUE
  /\ Completion = "owner" /\ event = FALSE /\ OldCompletion = "owner"
  /\ Used = FALSE /\ Busy = FALSE /\ srb = NoSrb /\ turn = FALSE
  /\ caller = "none" /\ touched = {} /\ refusals = 0

-----------------------------------------------------------------------------
(* Creation and end *)

\* A creation that fails half way frees what it has got, and leaves nothing behind.
CreateRequest ==
  /\ ~made
  /\ made' = TRUE /\ MaximumTransferLength' = deviceLimit
  /\ PLBA' = 0 /\ LEN' = 0 /\ RetryLimit' = 0 /\ Handler' = "none"
  /\ Retry' = 0 /\ Transferred' = 0 /\ Status' = TRUE
  /\ Completion' = "owner" /\ Used' = FALSE /\ Busy' = FALSE /\ srb' = NoSrb
  /\ touched' = {} /\ refusals' = 0
  /\ UNCHANGED <<deviceLimit, event, OldCompletion, turn, caller>>

\* Only a request nobody waits for is freed, perhaps by its own completion routine.
FreeRequest ==
  /\ made /\ caller = "none"
  /\ made' = FALSE
  /\ UNCHANGED <<deviceLimit, MaximumTransferLength, askedVars, progress, syncVars,
                 Used, Busy, srb, turn, caller, history>>

\* A query of the adapter changes the limit of the device, not that of a request.
HookStorageProperty ==
  /\ deviceLimit' \in TransferLimits \ {deviceLimit}
  /\ UNCHANGED <<made, MaximumTransferLength, askedVars, progress, syncVars,
                 Used, Busy, srb, turn, caller, history>>

-----------------------------------------------------------------------------
(* Calls *)

ReuseRequestSticky == Used' = TRUE /\ Transferred' = 0 /\ UNCHANGED Status      \* mutant
ReuseRequest ==
  /\ Used' = TRUE
  /\ Transferred' = 0
  /\ Status' = TRUE

\* The part ScsiCallRW has in every call; its handler runs next.
StartRW ==
  /\ ReuseRequest
  /\ Handler' = "rw"
  /\ PLBA' \in LBAs /\ LEN' \in 0..MaxLEN /\ RetryLimit' \in RetryLimits
  /\ Retry' = 0
  /\ turn' = TRUE
  /\ touched' = {} /\ refusals' = 0
  /\ UNCHANGED <<deviceVars, Busy, srb>>

ScsiCallRW ==
  /\ made /\ caller = "none"
  /\ caller' = "owner"
  /\ StartRW
  /\ UNCHANGED syncVars

SyncScsiCallRW ==
  /\ made /\ caller = "none"
  /\ caller' = "thread"
  /\ OldCompletion' = Completion
  /\ Completion' = "event" /\ event' = FALSE
  /\ StartRW

SyncReturnsKeeping ==                                                   \* mutant
  /\ caller = "thread" /\ event
  /\ caller' = "none"
  /\ UNCHANGED <<deviceVars, askedVars, progress, syncVars, Used, Busy, srb, turn, history>>

\* The waiting thread goes on.
SyncReturns ==
  /\ caller = "thread" /\ event
  /\ caller' = "none"
  /\ Completion' = OldCompletion
  /\ UNCHANGED <<deviceVars, askedVars, progress, event, OldCompletion,
                 Used, Busy, srb, turn, history>>

\* READ CAPACITY, SYNCHRONIZE CACHE and the flush of the port: one transfer, no retry.
CallOnce(function) ==
  /\ made /\ caller = "none"
  /\ caller' = "owner"
  /\ ReuseRequest
  /\ Handler' = "default"
  /\ srb' = [NoSrb EXCEPT !.function = function]
  /\ Busy' = TRUE
  /\ refusals' = 0
  /\ UNCHANGED <<deviceVars, PLBA, LEN, RetryLimit, Retry, syncVars, turn, touched>>

ScsiCallReadCapacity == CallOnce("read_capacity")
ScsiCallFlushCache   == CallOnce("flush_cache")
ScsiCallSrbFlush     == CallOnce("srb_flush")

-----------------------------------------------------------------------------
(* Handlers *)

CompleteStillUsed ==                                                    \* mutant
  /\ IF Completion = "event" THEN event' = TRUE /\ UNCHANGED caller
                             ELSE caller' = "none" /\ UNCHANGED event
  /\ UNCHANGED Used

\* The request is free before its completion routine runs, which may use it again.
Complete ==
  /\ Used' = FALSE
  /\ IF Completion = "event"
     THEN event' = TRUE /\ UNCHANGED caller
     ELSE caller' = "none" /\ UNCHANGED event

HandlerCompletes ==
  /\ turn /\ turn' = FALSE
  /\ Complete
  /\ UNCHANGED <<deviceVars, askedVars, progress, Completion, OldCompletion, Busy, srb, history>>

ScsiCallDefaultHandler == Handler = "default" /\ HandlerCompletes

RWEnds == Handler = "rw" /\ LEN <= Transferred /\ HandlerCompletes

RWGivesUp ==
  /\ Handler = "rw" /\ Transferred < LEN
  /\ ~Status /\ RetryLimit <= Retry
  /\ HandlerCompletes

NextSrbFromStart == [function |-> "rw", lba |-> PLBA + Transferred, at |-> 0,  \* mutant
                     len |-> AtMost(LEN - Transferred, MaximumTransferLength)]

NextSrbBeyond == [function |-> "rw", lba |-> PLBA + Transferred,          \* mutant
                  at |-> Transferred, len |-> AtMost(LEN, MaximumTransferLength)]

\* The next transfer: the rest of the request, or as much of it as the device takes.
NextSrb == [function |-> "rw", lba |-> PLBA + Transferred, at |-> Transferred,
            len |-> AtMost(LEN - Transferred, MaximumTransferLength)]

RWSendsUncounted ==                                                     \* mutant
  /\ turn /\ Handler = "rw" /\ Transferred < LEN
  /\ Status \/ Retry < RetryLimit
  /\ Retry' = IF Status THEN 0 ELSE Retry
  /\ srb' = NextSrb
  /\ Busy' = TRUE
  /\ turn' = FALSE
  /\ UNCHANGED <<deviceVars, askedVars, Transferred, Status, syncVars, Used, caller, history>>

RWSends ==
  /\ turn /\ Handler = "rw" /\ Transferred < LEN
  /\ Status \/ Retry < RetryLimit
  /\ Retry' = IF Status THEN 0 ELSE Retry + 1
  /\ srb' = NextSrb
  /\ Busy' = TRUE
  /\ turn' = FALSE
  /\ UNCHANGED <<deviceVars, askedVars, Transferred, Status, syncVars, Used, caller, history>>

-----------------------------------------------------------------------------
(* ScsiCallCompletion: the lower driver has answered, and the handler runs *)

\* m: how many sectors have moved in fact.
Answered(good, m) ==
  /\ Busy /\ Busy' = FALSE
  /\ Status' = good
  /\ turn' = TRUE
  /\ touched' = IF srb.function = "rw" THEN touched \cup Moved(m) ELSE touched
  /\ refusals' = IF good THEN 0 ELSE refusals + 1
  /\ UNCHANGED <<deviceVars, askedVars, Retry, syncVars, Used, srb, caller>>

CountedWhole(n) == srb.len                                              \* mutant
Counted(n) == n

\* n: how many sectors the answer speaks of, the same in both its lengths.
IrpSucceeds ==
  \/ /\ srb.function = "rw"
     /\ \E n \in 1..srb.len :
          /\ \E m \in n..srb.len : Answered(TRUE, m)
          /\ Transferred' = Transferred + Counted(n)
  \/ /\ srb.function # "rw"
     /\ Answered(TRUE, 0) /\ UNCHANGED Transferred

\* A success whose lengths disagree is taken for a failure, but not for a flush of the port.
IrpDisagrees ==
  /\ \E m \in 0..srb.len : Answered(srb.function = "srb_flush", m)
  /\ UNCHANGED Transferred

IrpFails ==
  /\ \E m \in 0..srb.len : Answered(FALSE, m)
  /\ UNCHANGED Transferred

-----------------------------------------------------------------------------

Calls == \/ ScsiCallRW \/ SyncScsiCallRW
         \/ ScsiCallReadCapacity \/ ScsiCallFlushCache \/ ScsiCallSrbFlush

Handlers == ScsiCallDefaultHandler \/ RWEnds \/ RWGivesUp \/ RWSends

ScsiCallCompletion == IrpSucceeds \/ IrpDisagrees \/ IrpFails

Next ==
  \/ CreateRequest \/ FreeRequest \/ HookStorageProperty
  \/ Calls \/ SyncReturns
  \/ Handlers \/ ScsiCallCompletion

Spec == Init /\ [][Next]_vars

\* Handlers run, a request below ends (its timeout is 60 seconds), and a thread whose
\* event is set goes on.  Failures are not bounded.
FairSpec == Spec /\ WF_vars(Handlers) /\ WF_vars(ScsiCallCompletion) /\ WF_vars(SyncReturns)

-----------------------------------------------------------------------------
(* Properties *)

\* The variables have the types of their fields; the request never counts more sectors
\* than were asked for, nor more retries than it may make (vreq.c:152-170).
TypeOK ==
  /\ deviceLimit \in TransferLimits /\ made \in BOOLEAN
  /\ MaximumTransferLength \in TransferLimits \cup {0}
  /\ Completion \in {"owner", "event"} /\ OldCompletion \in {"owner", "event"}
  /\ Handler \in {"none", "rw", "default"}
  /\ Used \in BOOLEAN /\ Busy \in BOOLEAN /\ turn \in BOOLEAN /\ event \in BOOLEAN
  /\ Status \in BOOLEAN
  /\ PLBA \in LBAs /\ LEN \in 0..MaxLEN /\ Transferred \in 0..LEN
  /\ RetryLimit \in RetryLimits \cup {0} /\ Retry \in 0..RetryLimit
  /\ srb \in [function : {"none", "rw", "read_capacity", "flush_cache", "srb_flush"},
              lba : Nat, at : Nat, len : Nat]
  /\ caller \in {"none", "owner", "thread"}
  /\ touched \subseteq Nat \X Nat /\ refusals \in Nat

\* A read or write that reports success has moved each of its sectors to the place in the
\* buffer it belongs to, however it was split, retried and cut short (vreq.c:146-160).
SuccessIsComplete ==
  Handler = "rw" /\ ~Used /\ Status => Own(LEN) \subseteq touched

\* A failure is reported only after the first try and all the retries of one transfer
\* have failed in a row: neither what happened to an earlier transfer nor what happened
\* to an earlier call counts (vreq.c:62-70, 160-170).
FailureIsEarned ==
  ~Used /\ ~Status => refusals = 1 + (IF Handler = "rw" THEN RetryLimit ELSE 0)

\* At every moment, and after a failure, what has moved is a front part of the request and
\* nothing else.  The log relies on it: the control at the end of a purge is on the medium
\* only if all its blocks are.
ControlComesLast ==
  \A p \in touched : p \in Own(LEN) /\ Own(p[2]) \subseteq touched

\* Whoever starts the request finds it free: the assertions on Used and Busy hold, no
\* handler is on its way, and the completion routine is the owner's again, though threads
\* that wait for an event put theirs in its place (vreq.c:63, 126, 204, 212-224).
FreeWhenTold ==
  /\ caller = "none" => ~Used /\ ~Busy /\ ~turn /\ Completion = "owner"
  /\ Busy \/ turn => Used
  /\ ~(Busy /\ turn)

\* The request implements Transfer: it is "moving" until its caller has been told.
T == INSTANCE Transfer WITH
  phase   <- IF caller # "none" /\ Handler = "rw" THEN "moving" ELSE "idle",
  length  <- LEN,
  there   <- {p[2] : p \in touched},
  outcome <- IF caller # "none" \/ Handler # "rw" THEN "none"
             ELSE IF Status THEN "good" ELSE "bad"

TransferSpec == T!Spec

\* How far a call is from its end: the sectors that have not been counted, and how often the
\* handler and the lower driver still take turns before one more is or the call is given up.
RetriesLeft == IF Handler = "rw" THEN RetryLimit - Retry ELSE 0
TurnsLeft   == IF Busy THEN 2 * RetriesLeft + 2
               ELSE IF ~turn THEN 0
               ELSE IF Handler = "rw" /\ Status THEN 2 * RetryLimit + 3 ELSE 2 * RetriesLeft + 1
Distance    == <<LEN - Transferred, TurnsLeft>>

Nearer(d, e) == d[1] < e[1] \/ (d[1] = e[1] /\ d[2] < e[2])

\* Every turn of the handler and every answer from below ends the call or brings it nearer to
\* its end, and nothing takes it farther: a good answer that counts no sector, or a retry that
\* is not counted, would go round for ever (vreq.c:62-70, 146-175).
CallsComeNearer ==
  [][caller # "none" /\ caller' # "none" =>
       /\ Handlers \/ ScsiCallCompletion => Nearer(Distance', Distance)
       /\ Distance' = Distance \/ Nearer(Distance', Distance)]_vars

\* Every call is answered to the one who made it, whatever fails and however often.
EveryCallAnswered == caller # "none" ~> caller = "none"
=============================================================================
