CONSTANTS
  f1 = f1
  f2 = f2
  f3 = f3
  l1 = l1
  l2 = l2
  b1 = b1
  NoFire = NoFire
  Fire = {f1, f2}
  Leader = {l1, l2}
  Backup = {b1}
  Severity = {1, 2}
  High = 2
  Zone <- MCZone
  Distance <- MCDistance
  MaxEvent = 3
  MaxReport = 1
  MaxMission = 2
SPECIFICATION Spec
SYMMETRY MCFireSymmetry
INVARIANTS TypeOK RunningWasAnswered BurningHasMission
PROPERTIES HelpIsSought BusyLeaderKept
CHECK_DEADLOCK FALSE
