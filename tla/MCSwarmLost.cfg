CONSTANTS
  s1 = s1
  s2 = s2
  f1 = f1
  f2 = f2
  Scout = {s1, s2}
  Fighter = {}
  Full = 3
  Urgent = 0
  LowCharge = 1
  Tank = 2
  LowLoad = 1
  MaxCommand = 1
  MaxFault = 2
SPECIFICATION Spec
PROPERTY LostIsReplaced
CHECK_DEADLOCK FALSE
