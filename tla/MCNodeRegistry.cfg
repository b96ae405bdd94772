CONSTANTS
  l1 = l1
  l2 = l2
  f1 = f1
  Node = {l1}
  Fire = {f1}
  NoFire = NoFire
  Nobody = Nobody
  Unlit = Unlit
  Out = Out
  Unknown = Unknown
  MaxInbox = 2
  MaxFault = 1
SPECIFICATION FairSpec
INVARIANTS TypeOK ReportsAlternate
PROPERTIES SilentGoesOffline AliveIsAnnounced
CHECK_DEADLOCK FALSE
