SPECIFICATION Spec
CONSTANTS
    c1 = c1
    c2 = c2
    p1 = p1
    p2 = p2
    p3 = p3
    c3 = c3
    None = None
    Callers = {c1, c2, c3}
    Prefixes = {p1, p3}
    Foreign = {p3}
    TTLs = {1, 2}
    MaxGeneration = 3
    Faults = {"add", "del", "kill"}
    PromptTimers = FALSE
    DrainTimeout = TRUE
SYMMETRY CallerSymmetry
INVARIANTS
    TypeOK
    RouteOwnership
PROPERTIES
    ForeignRoutesKept
CHECK_DEADLOCK FALSE
