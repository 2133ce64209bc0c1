SPECIFICATION Spec
CONSTANTS
    h1 = h1
    h2 = h2
    problem = problem
    problem2 = problem2
    Handlers <- MCHandlers
    Claims <- MCClaims
    TypeOf <- MCTypeOf
    InitialClaims <- MCInitialClaims
    Observed <- MCObserved
    MaxSnapshots = 2
    MaxProposals = 1
INVARIANTS
    RejectedMadeNoSnapshot
CHECK_DEADLOCK FALSE
