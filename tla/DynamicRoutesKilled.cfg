SPECIFICATION Spec
CONSTANTS
    c1 = c1
    c2 = c2
    p1 = p1
    p2 = p2
    p3 = p3
    c3 = c3
    None = None
    Callers = {c1, c2}
    Prefixes = {p1}
    Foreign = {}
    TTLs = {1}
    MaxGeneration = 1
    Faults = {"kill"}
    PromptTimers = TRUE
    DrainTimeout = FALSE
SYMMETRY CallerSymmetry
INVARIANTS
    RestoredAfterClose
CHECK_DEADLOCK FALSE
