CONSTANTS
  Full = 12
  Urgent = 2
  Tank = 3
  Low = 1
  MaxOrder = 3
SPECIFICATION Spec
PROPERTY RecallStopsPump
CHECK_DEADLOCK FALSE
