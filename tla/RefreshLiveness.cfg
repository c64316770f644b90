SPECIFICATION FairSpec
CONSTANTS
    Faults = {"pg", "redis", "embed", "outbox", "reload", "crash"}
    MaxEdits = 2
    MaxFaults = 1
    MaxAdmin = 1
    SharedStream = FALSE
INVARIANT PublishedIsDelivered
PROPERTIES SnapshotConverges CatchesUp
