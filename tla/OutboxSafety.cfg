SPECIFICATION Spec
CONSTANTS
    Skills = {s1, s2}
    Builders = {b1, b2}
    Poison = {}
    ClaimLimit = 1
    MaxRetries = 3
    Faults = {"pg", "qdrant", "embed", "crash"}
    MaxVersion = 1
    MaxBoots = 2
    MaxRepairs = 0
    Nil = Nil
CHECK_DEADLOCK FALSE
SYMMETRY Symmetry
INVARIANTS ClaimsExclusive RetryBudget PublishedHasVector DrainedMeansSettled
PROPERTIES SettledRowsStable
