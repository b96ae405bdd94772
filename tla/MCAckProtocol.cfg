CONSTANTS
  respond = respond
  odd = odd
  n1 = n1
  Idle = Idle
  Trace = {respond, odd}
  Node = {n1}
  Target <- MCTarget
  UnknownType <- MCUnknown
  Idempotent <- MCIdempotent
  MaxSend = 2
  MaxFault = 2
SPECIFICATION FairSpec
INVARIANTS TypeOK LedgerTellsTruth AtMostOncePerLife AuditAgreesWithLedger
PROPERTIES OutcomeKept EveryCommandSettles
CHECK_DEADLOCK FALSE
