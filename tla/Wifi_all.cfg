SPECIFICATION FairSpec
CONSTANTS
  FailedAfter = 3
  MaxEvents = 3
  MaxCalls = 3
  Worlds <- AllWorlds
INVARIANTS
  ConnectedIsReal
  ForgottenStaysDown
  AlwaysAnotherTry
  ForgottenIsOff
  MarkIsSpent
PROPERTIES
  Reconnects
CHECK_DEADLOCK FALSE
