SPECIFICATION Spec
CONSTANTS
  Capacity = 6
  SlotsPerSector = 2
  Hole = Hole
  ReadChunk = 2
  MaxLimit = 4
  PageLimit = 3
  Wanted = 4
  Readers = {"all", "last", "web"}
  ReadFails = TRUE
  MaxRecords = 5
  MaxRolls = 2
INVARIANTS
  InOrderOnce
  MissesOnlyRolled
