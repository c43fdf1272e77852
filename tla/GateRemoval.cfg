SPECIFICATION Spec
CONSTANTS
  READ_THREADS = 1
  Irps = {i1, i2}
  NoIrp = NoIrp
  Checkers = {c1}
  Turs = {u1, u2}
  MaxTURErrors = 0
  MaxWork = 1
  MaxFailures = 1
  MaxCleaners = 2
  Timeouts <- WithTimeout
  Media <- AnyMedia
  Formats = FALSE
  Removal = TRUE
  Reconfigure = FALSE
  FormatMeetsFree = FALSE
SYMMETRY IrpSymmetry
CHECK_DEADLOCK FALSE
INVARIANTS
  DpcFindsContext
PROPERTIES
  FreedWhenUnused
