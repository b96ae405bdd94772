CONSTANTS
  Full = 24
  Urgent = 2
  Tank = 3
  Low = 1
  MaxOrder = 3
SPECIFICATION Spec
INVARIANT OnlyCarriedIsDelivered
CHECK_DEADLOCK FALSE
