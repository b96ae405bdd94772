CONSTANTS
  risky1 = risky1
  risky2 = risky2
  safe = safe
  NoCmd = NoCmd
  Cmd = {risky1, risky2}
  Safe <- MCSafe
  MaxFault = 0
SPECIFICATION FairSpec
PROPERTY ExpiryLeavesDecided
CHECK_DEADLOCK FALSE
