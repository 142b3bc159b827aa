SPECIFICATION Spec
CONSTANTS
    x1 = x1
    Spellings <- MCSpellings
    Canonical <- MCCanonical
    Asked = {"shop.", "SHOP.", "cdn."}
    Owners <- MCOwners
    Root = ""
    Bypassed = {"shop"}
    Addresses = {x1}
    TTLs = {1, 3}
    Minimum = 2
    MaxSize = 4
INVARIANTS
    RoutesWhatIsAsked
    LeaseWithinTTL
CHECK_DEADLOCK FALSE
