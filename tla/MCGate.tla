------------------------------- MODULE MCGate -------------------------------
(***************************************************************************)
(* Gate with a few threads; requests or checks are interchangeable.        *)
(***************************************************************************)
EXTENDS Gate, TLC

AnyTimeout  == {TRUE, FALSE}
WithTimeout == {TRUE}
LeveledOnly == {"leveled"}
PlainOrLeveled == {"plain", "leveled"}
AnyMedia    == {"plain", "leveled", "oversized"}

IrpSymmetry == Permutations(Irps)
CheckerSymmetry == Permutations(Checkers)
=============================================================================
