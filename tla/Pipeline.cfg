SPECIFICATION PipelineSpec
CONSTANTS
    k1 = k1
    k2 = k2
    a1 = a1
    p1 = p1
    qwen = qwen
    skip = skip
    NoKey = NoKey
    NoAuth = NoAuth
    NoModel = NoModel
    Keys <- MCKeys
    Projects <- MCProjects
    ProjectOf <- MCProjectOf
    AcceptanceModel = qwen
    Auths = {a1}
    Selections = {qwen}
    Contexts = {skip}
    MaxRequests = 1
    MaxRestarts = 1
    MaxFaults = 1
    DailyLimit = 1
    MaxStepFaults = 1
INVARIANTS
    EvidenceIsSound
    SentAtMostOnce
    ReservationFollowsRun
    StoredSolutionsAreDelivered
