SPECIFICATION Spec
CONSTANTS
    s1 = s1
    s2 = s2
    c1 = c1
    c2 = c2
    h1 = h1
    h2 = h2
    None = None
    Starters = {s1, s2}
    Closers = {c1}
    Handlers = {h1}
    MaxAddresses = 1
    Cancellable = {s1, s2}
    Faults = {"listen", "activate", "die"}
    Overlap = FALSE
INVARIANTS
    NoOrphanServer
PROPERTIES
    CloseReturns
    CancelStops
CHECK_DEADLOCK FALSE
