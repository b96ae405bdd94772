CONSTANTS
  respond = respond
  odd = odd
  n1 = n1
  Idle = Idle
  Trace = {respond, odd}
  Node = {n1}
  Target <- MCTarget
  UnknownType <- MCUnknown
  Idempotent <- MCIdempotent
  MaxSend = 1
  MaxFault = 1
SPECIFICATION Spec
INVARIANT GivenUpStopsAppearing
CHECK_DEADLOCK FALSE
