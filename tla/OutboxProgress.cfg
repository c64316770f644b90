SPECIFICATION FairSpec
CONSTANTS
    Skills = {s1, s2}
    Builders = {b1, b2}
    Poison = {s1}
    ClaimLimit = 1
    MaxRetries = 2
    Faults = {"qdrant", "embed", "crash"}
    MaxVersion = 1
    MaxBoots = 2
    MaxRepairs = 0
    Nil = Nil
CHECK_DEADLOCK FALSE
PROPERTIES DrainTerminates PendingSettles
