SPECIFICATION Spec
CONSTANTS
    h1 = h1
    h2 = h2
    problem = problem
    problem2 = problem2
    Handlers <- MCHandlers
    Claims <- MCClaims
    TypeOf <- MCTypeOf
    InitialClaims <- MCInitialClaims
    Observed <- MCObserved
    MaxSnapshots = 3
    MaxProposals = 2
SYMMETRY MCSymmetry
INVARIANTS
    HistoryIsLinear
    OneSnapshotPerProposal
    ActiveClaimsAreCurrent
    OneOpenProposalPerClaim
    EditedCanvasIsProposed
PROPERTIES
    ReviewEndsWithHuman
    ImplementsHistory
CHECK_DEADLOCK FALSE
