SPECIFICATION FairSpec
CONSTANTS
  READ_THREADS = 1
  Irps = {i1, i2}
  NoIrp = NoIrp
  Checkers = {c1}
  Turs = {u1}
  MaxTURErrors = 0
  MaxWork = 1
  MaxFailures = 1
  MaxCleaners = 2
  Timeouts <- WithTimeout
  Media <- LeveledOnly
  Formats = FALSE
  Removal = FALSE
  Reconfigure = FALSE
  FormatMeetsFree = FALSE
PROPERTIES
  ServiceFairSpec
  DirtyIsFlushed
