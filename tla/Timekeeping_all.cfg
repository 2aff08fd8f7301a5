SPECIFICATION Spec
CONSTANTS
  MaxTime = 1
  MaxBoots = 3
  MaxRecords = 2
  BootIds = 2
  Sntp = TRUE
  NvsMayFail = TRUE
  None = None
INVARIANTS
  OneMismatchPerBoot
  OnlySntpOvertakes
  StampedFromSetClock
  EstimatesAreRight
PROPERTIES
  NtpIsFinal
