SPECIFICATION Spec
CONSTANTS
  Sectors = 3
  SlotsPerSector = 2
  MaxRecords = 9
  Faults = {"cut", "cut_clear", "fail", "fail_dirty", "fail_clear", "fail_init"}
  Blank = Blank
  Damaged = Damaged
INVARIANTS
  CapacityBound
PROPERTIES
  ReclaimHeals
