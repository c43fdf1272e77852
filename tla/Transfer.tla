------------------------------ MODULE Transfer ------------------------------
(***************************************************************************)
(* What the request engine of the driver (driver/vreq.c) promises to those *)
(* who read or write through it, with no retries and no splitting in       *)
(* sight.  The sectors of a transfer move front to back; a good outcome    *)
(* means that all of them have moved, a bad one that some front part has.  *)
(***************************************************************************)
EXTENDS Naturals

VARIABLES phase,    \* "idle", or "moving" until the caller has been told the outcome
          length,   \* sectors of the transfer
          there,    \* sectors that have moved, numbered from the front
          outcome   \* "good", "bad", or "none"

vars == <<phase, length, there, outcome>>

Front(n) == 0..(n - 1)

Init == phase = "idle" /\ length = 0 /\ there = {} /\ outcome = "none"

Begin ==
  /\ phase = "idle"
  /\ phase' = "moving"
  /\ length' \in Nat
  /\ there' = {}
  /\ outcome' = "none"

Move ==
  /\ phase = "moving"
  /\ \E n \in 0..length : there \subseteq Front(n) /\ there' = Front(n)
  /\ UNCHANGED <<phase, length, outcome>>

End ==
  /\ phase = "moving"
  /\ phase' = "idle"
  /\ \/ outcome' = "good" /\ there = Front(length)
     \/ outcome' = "bad"
  /\ UNCHANGED <<length, there>>

\* The request is put to another use, or freed.
Forget ==
  /\ phase = "idle"
  /\ outcome' = "none"
  /\ UNCHANGED phase
  /\ \/ UNCHANGED <<length, there>>
     \/ length' = 0 /\ there' = {}

Next == Begin \/ Move \/ End \/ Forget

Spec == Init /\ [][Next]_vars
=============================================================================
