SPECIFICATION Spec
CONSTANTS
  Sectors = 4
  SlotsPerSector = 2
  MaxRecords = 11
  Faults = {"cut", "fail"}
  Blank = Blank
  Damaged = Damaged
  Hole = Hole
INVARIANTS
  TypeOK
  Chronological
  Recoverable
PROPERTIES
  AckedReadable
  RollsOnlyWhenFull
  RecoveryFaithful
  ImplementsRingLog
