SPECIFICATION FairSpec
CONSTANTS
    Contents = {c1, c2}
    Posts <- MCPosts
    Secret = "shared"
    Refused = {}
    Unreadable = {}
    Workers = {w1}
    BatchLimit = 1
    MaxAttempts = 3
    Faults = {"crash"}
    MaxBoots = 3
    Nil = Nil
PROPERTIES RestartResumesBacklog
