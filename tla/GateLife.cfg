SPECIFICATION Spec
CONSTANTS
  READ_THREADS = 1
  Irps = {i1}
  NoIrp = NoIrp
  Checkers = {c1, c2}
  Turs = {u1}
  MaxTURErrors = 1
  MaxWork = 1
  MaxFailures = 1
  MaxCleaners = 2
  Timeouts <- AnyTimeout
  Media <- PlainOrLeveled
  Formats = TRUE
  Removal = FALSE
  Reconfigure = TRUE
  FormatMeetsFree = FALSE
SYMMETRY CheckerSymmetry
INVARIANTS
  RecoveryUndisturbed
  FormatUndisturbed
