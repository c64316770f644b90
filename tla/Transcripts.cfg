SPECIFICATION FairSpec
CONSTANTS
    Contents = {c1, c2, c3, c4}
    Posts <- MCPosts
    Secret = "shared"
    Refused = {c4}
    Unreadable = {c2, c3}
    Workers = {w1, w2}
    BatchLimit = 2
    MaxAttempts = 2
    Faults = {"pg", "extract", "tick", "crash"}
    MaxBoots = 2
    Nil = Nil
INVARIANTS SweepsDisjoint ProcessedHasDraft ExtractionBudget
PROPERTIES DraftedOnce BacklogDrains
