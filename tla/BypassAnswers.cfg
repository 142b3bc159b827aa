SPECIFICATION AnswersSpec
CONSTANTS
    c1 = c1
    c2 = c2
    p1 = p1
    p2 = p2
    lan = lan
    endpoint = endpoint
    None = None
    Callers = {c1, c2}
    Prefixes = {p1, p2, lan, endpoint}
    Foreign = {lan, endpoint}
    Static = {lan}
    Answers <- MCAnswers
    TTLs = {1}
    MaxGeneration = 2
    Faults = {"add"}
    PromptTimers = TRUE
    DrainTimeout = FALSE
INVARIANTS
    ReservationHeld
    NoOrphanRoute
    AnswerBacked
PROPERTIES
    LeaseHonoured
    PendingResolves
    RouteEventuallyGone
CHECK_DEADLOCK FALSE
