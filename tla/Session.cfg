SPECIFICATION Spec
CONSTANTS
    Requests = {r1, r2}
    Clears = {c1}
    Repos = {p1, p2}
    Prompts = {q1}
    Faults = {"redis", "degraded", "crash"}
    MaxVersion = 2
    MaxCrashes = 1
    None = None
SYMMETRY Symmetry
CHECK_DEADLOCK FALSE
INVARIANTS IndexCoversMap QuietClearIsComplete RememberedIsCurrent
