CONSTANTS
  l1 = l1
  l2 = l2
  f1 = f1
  Node = {l1}
  Fire = {f1}
  NoFire = NoFire
  Nobody = Nobody
  Unlit = Unlit
  Out = Out
  Unknown = Unknown
  MaxInbox = 1
  MaxFault = 2
SPECIFICATION FairSpec
PROPERTY HeartbeatLeavesJob
CHECK_DEADLOCK FALSE
