SPECIFICATION Spec
CONSTANTS
    t1 = t1
    t2 = t2
    x1 = x1
    x2 = x2
    l1 = l1
    Requests <- MCThreads
    Handlers <- MCThreads
    Callers <- MCThreads
    Editors <- MCThreads
    Accounts <- MCNames
    Invites <- MCNames
    Keys <- MCNames
    Options <- MCNames
    Legacies <- MCLegacies
    Clients <- MCThreads
    Profiles <- MCNames
    Configurations <- MCConfigurations
    Secrets <- MCSecrets
    ProfileScopes <- MCProfileScopes
    Copiers <- MCCopiers
    Parts <- MCParts
    MaxStops = 1
    MaxCloseFaults = 1
    MaxBriefs = 3
    MaxRuns = 2
    Questions = 5
    MaxDecisions = 3
    MaxCanvases = 2
    MaxSessions = 2
    MaxRevision = 4
    MaxProfileStops = 1
    MaxProfileFaults = 1
    MaxProjects = 2
    MaxVersions = 2
    MaxEdits = 2
    MaxProposals = 2
    MaxCommits = 2
    MaxBackups = 3
    MaxFileFaults = 2
SYMMETRY MCSymmetry
INVARIANTS
    UsedApplicationsStayOpen
    SnapshotRestsOnConfirmed
    RunsAreAccountedFor
    ConfirmedIsApplied
    SelectedProfilesAreUsable
    ProfileStoresAgree
    CopiesAreWhole
    NothingIsLost
PROPERTIES
    NoUnseenOverwrite
CHECK_DEADLOCK FALSE
