SPECIFICATION Spec
CONSTANTS
    a1 = a1
    a2 = a2
    a3 = a3
    r1 = r1
    r2 = r2
    r3 = r3
    Actions = {a1, a2, a3}
    Runners = {r1, r2, r3}
INVARIANTS
    OneUndoer
    SameResult
PROPERTIES
    RunReturns
    Implements
CHECK_DEADLOCK FALSE
