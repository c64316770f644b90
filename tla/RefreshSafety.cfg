SPECIFICATION Spec
CONSTANTS
    Faults = {"pg", "redis", "embed", "outbox", "reload", "flush", "crash"}
    MaxEdits = 2
    MaxFaults = 1
    MaxAdmin = 1
    SharedStream = TRUE
INVARIANTS CurrentLabelIsExact AnnouncementNotLost
PROPERTIES ServedNeverRegresses ImplementsReadModel
