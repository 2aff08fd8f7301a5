SPECIFICATION Spec
CONSTANTS
  MaxLine = 3
  Chunk = 2
  MaxPolls = 1
  MaxPieces = 2
  MaxInterval = 2
INVARIANTS
  OwnReading
PROPERTIES
  ExactlyTheLines
  SamplesGoOn
  WebAnswered
