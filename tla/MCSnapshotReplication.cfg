SPECIFICATION FairSpec
CONSTANTS
  Central = central
  Backup = backup
  Leader = {l1}
  NoLeader = NoLeader
  MaxClock = 7
  MaxMission = 2
  MaxBusy = 2
  Together = FALSE
  MaxEvent = 2
INVARIANTS TypeOK SameVersionSameFire
PROPERTIES NoSecondMission NeverBehind
CHECK_DEADLOCK FALSE
