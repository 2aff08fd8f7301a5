SPECIFICATION MeasureSpec
CONSTANTS
  TempSteps = 8
  PressureSteps = 8
  HumSteps = 5
INVARIANTS
  NoOverflow
  ReaderGetsTheReading
  DamageIsSeen
PROPERTIES
  Follows
