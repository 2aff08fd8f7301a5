SPECIFICATION Spec
CONSTANTS
  MaxLimit = 3
  DefaultLimit = 2
  ReadChunk = 2
  ResponseMax = 7
  MaxQuery = 3
  MaxRecords = 4
INVARIANTS
  TextMeansObject
  PageGetsWhatItAsks
  BodyIsReply
PROPERTIES
  PageOnlyReads
