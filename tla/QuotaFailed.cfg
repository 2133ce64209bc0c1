SPECIFICATION Spec
CONSTANTS
    c1 = c1
    c2 = c2
    c3 = c3
    NoCall = NoCall
    Calls <- MCCalls
    Operations <- MCOperations
    Operation <- MCOperation
    Committers <- MCCalls
    Limit <- MCLimit
    MaxDay = 0
    MaxCrashes = 0
CHECK_DEADLOCK FALSE
INVARIANTS
    FailedIsReleased
