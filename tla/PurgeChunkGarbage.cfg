SPECIFICATION Spec
CONSTANTS
  MAX_CHUNKS = 3
  SIZE_OF_MAP = 2
  CacheSize = 3
  PURGES = 2
  RELOCATION_LIMIT_PERCENTAGE = 60
  RELOCATION_READ_MAX_GAP = 1
  WEIGHT_LIFE = 50
  WEIGHT_SPEED = 0
  Readers = {}
  Kinds <- PartialKinds
  MaxWrites = 2
  MaxFailures = 0
  FinalizeAnytime = TRUE
  TornFirstChunk = FALSE
  NotMapped = NotMapped
  Torn = Torn
  NoRequest = NoRequest
  NotReading = NotReading
INVARIANTS
  CacheEmptyAtPurgeChunk
