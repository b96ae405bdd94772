SPECIFICATION FairSpec
CONSTANTS
    Leaders = {1, 2, 3}
    Firsts = {1, 3}
    NoNode = 0
    Timely = TRUE
    MaxFault = 2
CHECK_DEADLOCK FALSE
INVARIANTS TypeOK OneWinnerPerTerm
PROPERTIES TimeoutOverridesNobody Settles
