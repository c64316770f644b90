SPECIFICATION FairSpec
CONSTANTS
    Queries <- MCQueries
    Blank = Blank
    Repos <- MCRepos
    Marked <- MCMarked
    ConfiguredRoot = "p"
    StartDir = "srv"
    GlobalPaths <- MCGlobalPaths
    AllowedRoots <- MCAllowedRoots
    Mounts <- MCMounts
    Limits <- MCLimits
    Store <- MCStore
    MaxSkillsToLoad = 5
    FailureThreshold = 1
    MaxConcurrency = 1
    ChannelCapacity = 1
    Faults = {"provider_unavailable", "timeout", "pg", "rebuild_panic", "client"}
    MaxCalls = 2
    MaxRebuilds = 2
    CandidateLimit = 2
    MaxResults = 2
    RelevanceFloor = 48
    SubunitLimit = 3
    Nil = Nil
CHECK_DEADLOCK FALSE
INVARIANTS AnswersAreIsolated FailureIsTold EmptyIsExplained ProjectFirst UsageWrittenOnce
PROPERTIES ServerAnswers
