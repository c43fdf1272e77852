SPECIFICATION FairSpec
CONSTANTS
  MAX_CHUNKS = 2
  PURGES = 2
  CCN_VALUES = 4
  MaxFormats = 3
  MaxFailures = 1
  MaxGarbage = 1
  FormatMeetsLog = FALSE
  ConfigMeetsFormat = FALSE
INVARIANTS
  OwnControlsOnly
  OwnDataOnly
  FormatErases
PROPERTIES
  RecordComesLast
  FormatEnds
