SPECIFICATION Spec
CONSTANTS
    k1 = k1
    k2 = k2
    a1 = a1
    p1 = p1
    p2 = p2
    qwen = qwen
    kimi = kimi
    skip = skip
    snap = snap
    NoKey = NoKey
    NoAuth = NoAuth
    NoModel = NoModel
    Keys <- MCKeys
    Projects <- MCProjects
    ProjectOf <- MCProjectOf
    AcceptanceModel = qwen
    Auths = {a1}
    Selections = {qwen, kimi}
    Contexts = {skip}
    MaxRequests = 2
    MaxRestarts = 0
    MaxFaults = 0
INVARIANTS
    RunIntentAgree
    AuthorizationSpentOnce
PROPERTIES
    SettledIsFinal
