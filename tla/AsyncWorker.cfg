SPECIFICATION FairSpec
CONSTANTS
    k1 = k1
    k2 = k2
    a1 = a1
    p1 = p1
    p2 = p2
    qwen = qwen
    kimi = kimi
    skip = skip
    snap = snap
    NoKey = NoKey
    NoAuth = NoAuth
    NoModel = NoModel
    Keys <- MCKeys
    Projects <- MCProjects
    ProjectOf <- MCProjectOf
    AcceptanceModel = qwen
    Auths = {}
    Selections = {NoModel}
    Contexts = {skip}
    MaxRequests = 1
    MaxRestarts = 1
    MaxFaults = 1
INVARIANTS
    OneExecution
    QuotaFollowsResult
    NoCancelFallsThrough
    CancelledOnlyOnRequest
    OrphanNeedsFailure
PROPERTIES
    ImplementsJob
    CancelSettles
    QueueDrains
