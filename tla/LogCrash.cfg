SPECIFICATION Spec
CONSTANTS
  MAX_CHUNKS = 3
  SIZE_OF_MAP = 3
  CacheSize = 2
  PURGES = 3
  RELOCATION_LIMIT_PERCENTAGE = 50
  RELOCATION_READ_MAX_GAP = 1
  WEIGHT_LIFE = 50
  WEIGHT_SPEED = 0
  Readers = {}
  Kinds <- OnlyWrites
  MaxWrites = 3
  MaxFailures = 0
  FinalizeAnytime = FALSE
  TornFirstChunk = FALSE
  NotMapped = NotMapped
  Torn = Torn
  NoRequest = NoRequest
  NotReading = NotReading
INVARIANTS
  TypeOK
  UsedCounts
  NextChunkIsEmpty
  RelocationConsistent
  RelocationKeepsPace
  RelocationSeesAll
  NoLiveOverwritten
  CurrentIsNewest
  OnlyOwnWrites
  LossIsBounded
