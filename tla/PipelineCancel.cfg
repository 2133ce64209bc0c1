SPECIFICATION PipelineSpec
CONSTANTS
    k1 = k1
    k2 = k2
    a1 = a1
    p1 = p1
    qwen = qwen
    skip = skip
    NoKey = NoKey
    NoAuth = NoAuth
    NoModel = NoModel
    Keys <- MCKeys
    Projects <- MCProjects
    ProjectOf <- MCProjectOf
    AcceptanceModel = qwen
    Auths = {a1}
    Selections = {qwen}
    Contexts = {skip}
    MaxRequests = 1
    MaxRestarts = 0
    MaxFaults = 0
    DailyLimit = 1
    MaxStepFaults = 0
INVARIANTS
    CancelledRunHoldsNothing
