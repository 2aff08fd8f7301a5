SPECIFICATION Spec
CONSTANTS
  Sectors = 5
  SlotsPerSector = 1
  MaxRecords = 9
  Faults = {"cut_clear"}
  Blank = Blank
  Damaged = Damaged
INVARIANTS
  Chronological
