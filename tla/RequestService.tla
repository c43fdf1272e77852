--------------------------- MODULE RequestService ---------------------------
(***************************************************************************)
(* What the gate of the driver (driver/vgate.c) promises to those who send *)
(* it requests.  While it is ready it admits reads, which end in any       *)
(* order, and other requests, which end in the order they came.  When it   *)
(* is no longer ready the open requests still end, then in any order, and  *)
(* it is not ready again before the last of them is gone.                  *)
(***************************************************************************)
EXTENDS Naturals, Sequences

CONSTANT Requests

VARIABLES ready, reads, others   \* others: open requests in the order of their arrival

vars == <<ready, reads, others>>

Open == reads \cup {others[i] : i \in 1..Len(others)}

Init == ready = FALSE /\ reads = {} /\ others = <<>>

BecomeReady ==
  /\ ~ready /\ Open = {}
  /\ ready' = TRUE
  /\ UNCHANGED <<reads, others>>

GiveUp == ready /\ ready' = FALSE /\ UNCHANGED <<reads, others>>

ArriveRead(r) ==
  /\ ready /\ r \notin Open
  /\ reads' = reads \cup {r}
  /\ UNCHANGED <<ready, others>>

ArriveOther(r) ==
  /\ ready /\ r \notin Open
  /\ others' = Append(others, r)
  /\ UNCHANGED <<ready, reads>>

EndRead(r) ==
  /\ r \in reads
  /\ reads' = reads \ {r}
  /\ UNCHANGED <<ready, others>>

EndOther(i) ==
  /\ ready => i = 1
  /\ others' = SubSeq(others, 1, i - 1) \o SubSeq(others, i + 1, Len(others))
  /\ UNCHANGED <<ready, reads>>

EndSomeOther == \E i \in 1..Len(others) : EndOther(i)

Next ==
  \/ BecomeReady \/ GiveUp
  \/ \E r \in Requests : ArriveRead(r) \/ ArriveOther(r) \/ EndRead(r)
  \/ EndSomeOther

Spec == Init /\ [][Next]_vars

\* No request stays open for ever.
FairSpec == Spec /\ WF_vars(EndSomeOther) /\ \A r \in Requests : WF_vars(EndRead(r))
=============================================================================
