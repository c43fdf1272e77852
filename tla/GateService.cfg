SPECIFICATION Spec
CONSTANTS
  READ_THREADS = 2
  Irps = {i1, i2, i3}
  NoIrp = NoIrp
  Checkers = {c1}
  Turs = {u1}
  MaxTURErrors = 0
  MaxWork = 2
  MaxFailures = 1
  MaxCleaners = 2
  Timeouts <- WithTimeout
  Media <- LeveledOnly
  Formats = FALSE
  Removal = FALSE
  Reconfigure = FALSE
  FormatMeetsFree = FALSE
SYMMETRY IrpSymmetry
INVARIANTS
  CountersAgree
  FreeListExact
  NobodyForgotten
  TimerAccounted
  DirtyHasTimer
  WaitIsJustified
PROPERTIES
  ServiceSpec
