SPECIFICATION FairSpec
CONSTANTS
  TxSize = 3
  MaxRequests = 3
  Patience = {TRUE, FALSE}
  MaxResets = 1
INVARIANTS
  CleanSessionMatches
PROPERTIES
  NoReplyTwice
  Answered
