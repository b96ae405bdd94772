CONSTANTS
  f1 = f1
  f2 = f2
  f3 = f3
  l1 = l1
  l2 = l2
  b1 = b1
  NoFire = NoFire
  Fire = {f1, f2, f3}
  Leader = {l1}
  Backup = {}
  Severity = {1, 2, 3}
  High = 3
  Zone <- MCZone
  Distance <- MCDistance
  MaxEvent = 4
  MaxReport = 0
  MaxMission = 2
SPECIFICATION FairSpec
PROPERTY PreemptsLessSevere
CHECK_DEADLOCK FALSE
