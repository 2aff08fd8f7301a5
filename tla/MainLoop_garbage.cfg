SPECIFICATION Spec
CONSTANTS
  MaxLine = 2
  Chunk = 1
  MaxPolls = 1
  MaxPieces = 1
  MaxInterval = 1
INVARIANTS
  NoGarbage
