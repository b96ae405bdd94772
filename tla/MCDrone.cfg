CONSTANTS
  Full = 24
  Urgent = 2
  Tank = 3
  Low = 1
  MaxOrder = 3
SPECIFICATION FairSpec
INVARIANTS TypeOK DeliveredWasCarried
PROPERTY ComesToRest
CHECK_DEADLOCK FALSE
