SPECIFICATION Spec
CONSTANTS
    Writers = {w1, w2}
    Slugs = {a, b}
    MaxJobs = 1
    MaxDay = 1
    Retention = 1
    MaxFaults = 1
    GlobalScopes <- MCGlobalScopes
    AllowedRoots = {"readonly"}
    WriteRoots = {"global"}
    WriteRootsSet = TRUE
    Requests <- MCRequests
    Worker = w1
    Environment <- MCEnvironment
    Budgets <- MCBudgets
    Overlap = 1
    MapConcurrency = 2
    Substantive = 10
    RetryLimit = 1
    MaxAttempts = 2
    PreambleCap = 2
    MaxSynthesis = 1
INVARIANTS
    CandidatesCovered
    WindowContracts
PROPERTIES
    BatchIsAllOrNothing
    DeathKeepsEarlierDrafts
SYMMETRY SlugSymmetry
CHECK_DEADLOCK FALSE
