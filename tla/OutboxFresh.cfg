SPECIFICATION Spec
CONSTANTS
    Skills = {s1, s2}
    Builders = {b1}
    Poison = {}
    ClaimLimit = 10
    MaxRetries = 3
    Faults = {}
    MaxVersion = 2
    MaxBoots = 1
    MaxRepairs = 0
    Nil = Nil
CHECK_DEADLOCK FALSE
INVARIANT DrainedMeansFresh
