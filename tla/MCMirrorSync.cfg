SPECIFICATION Spec
CONSTANTS
  Central = central
  Backup = backup
  Leader = {l1}
  NoLeader = NoLeader
  MaxClock = 9
  MaxMission = 2
  MaxBusy = 2
  Together = FALSE
  MaxEvent = 1
INVARIANT MirrorInSync
CHECK_DEADLOCK FALSE
