CONSTANTS
  f1 = f1
  f2 = f2
  f3 = f3
  l1 = l1
  l2 = l2
  b1 = b1
  NoFire = NoFire
  Fire = {f1, f2}
  Leader = {l1}
  Backup = {}
  Severity = {1}
  High = 2
  Zone <- MCZone
  Distance <- MCDistance
  MaxEvent = 4
  MaxReport = 0
  MaxMission = 2
SPECIFICATION Spec
PROPERTY RekindledIsDispatched
CHECK_DEADLOCK FALSE
