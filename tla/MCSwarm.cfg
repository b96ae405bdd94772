CONSTANTS
  s1 = s1
  s2 = s2
  f1 = f1
  f2 = f2
  Scout = {s1}
  Fighter = {f1}
  Full = 2
  Urgent = 0
  LowCharge = 1
  Tank = 2
  LowLoad = 1
  MaxCommand = 2
  MaxFault = 1
SPECIFICATION FairSpec
PROPERTY AllComeHome
INVARIANT TypeOK
CHECK_DEADLOCK FALSE
