--------------------------- MODULE SnapshotStore ---------------------------
(***************************************************************************)
(* What the leveling log promises to the disk above it, with no log in     *)
(* sight: a set of blocks; writes that are accepted one at a time and then *)
(* either done, as they were accepted, or refused; a saved copy of all the *)
(* blocks that is replaced only as a whole; and power failures after which *)
(* every block is as it was or every block is as it was saved.             *)
(***************************************************************************)

CONSTANTS Blocks,   \* the logical blocks of the virtual disk
          Parts,    \* the parts of a block
          Tokens,   \* names of the individual writes
          None      \* no write is being served

VARIABLES contents, \* block -> the writes visible in it, each with its part
          saved,    \* the contents a power failure cannot take away
          accepted  \* the write being served

vars == <<contents, saved, accepted>>

Contents == [Blocks -> SUBSET (Parts \X Tokens)]

\* A write hides what was in the parts it covers and is seen in those it reaches; one
\* inside a block covers nothing.
Requests == {r \in [block : Blocks, covers : SUBSET Parts, reaches : SUBSET Parts, token : Tokens] :
               r.covers \subseteq r.reaches /\ r.reaches # {}}

TypeOK == contents \in Contents /\ saved \in Contents /\ accepted \in Requests \cup {None}

Init == contents = saved /\ saved \in Contents /\ accepted = None

Accept == /\ accepted = None
          /\ accepted' \in Requests
          /\ UNCHANGED <<contents, saved>>

After(old, r) == {x \in old : x[1] \notin r.covers} \cup (r.reaches \X {r.token})

Write == /\ accepted \in Requests
         /\ contents' = [contents EXCEPT ![accepted.block] = After(@, accepted)]
         /\ accepted' = None
         /\ UNCHANGED saved

Refuse == /\ accepted \in Requests
          /\ accepted' = None
          /\ UNCHANGED <<contents, saved>>

Save == /\ saved' = contents
        /\ UNCHANGED <<contents, accepted>>

Crash == /\ contents' \in {contents, saved}
         /\ saved' = contents'
         /\ accepted' = None

Next == Accept \/ Write \/ Refuse \/ Save \/ Crash

Spec == Init /\ [][Next]_vars
=============================================================================
