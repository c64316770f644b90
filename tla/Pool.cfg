SPECIFICATION FairSpec
CONSTANTS
    Jobs = {j1, j2, j3}
    Workers = {w1, w2}
    QueueDepth = 1
    MaxAttempts = 3
    Endless = {j1, j2}
    Timeout = "positive"
    Faults = {"redis", "extract", "crash"}
    Nil = Nil
CHECK_DEADLOCK FALSE
INVARIANTS RunsAreCharged JobInOnePlace OneTerminalEvent AnnouncedBeforeEnded
PROPERTIES AcceptedJobsEnd
