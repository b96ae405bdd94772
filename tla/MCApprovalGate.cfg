CONSTANTS
  risky1 = risky1
  risky2 = risky2
  safe = safe
  NoCmd = NoCmd
  Cmd = {risky1, safe}
  Safe <- MCSafe
  MaxFault = 3
SPECIFICATION FairSpec
INVARIANTS TypeOK OnlyOnApproval DispatchedOnce ApprovedIsSent TellsTruth
PROPERTY NoneWaitsForEver
CHECK_DEADLOCK FALSE
