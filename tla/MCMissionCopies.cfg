SPECIFICATION Spec
CONSTANTS
  Central = central
  Backup = backup
  Leader = {l1}
  NoLeader = NoLeader
  MaxClock = 7
  MaxMission = 2
  MaxBusy = 2
  Together = FALSE
  MaxEvent = 2
INVARIANT SameVersionSameMission
CHECK_DEADLOCK FALSE
