SPECIFICATION Spec
CONSTANTS
    endpoint = endpoint
    low = low
    high = high
    lan = lan
    site = site
    wifi = wifi
    wired = wired
    Endpoint = endpoint
    Low = low
    High = high
    Excluded = {lan, site, endpoint}
    Resolved = {site, endpoint}
    Services = {wifi, wired}
    Options <- FullOptions
    Faults = {"undo"}
    MaxRuns = 1
INVARIANTS
    EndpointAlwaysExcluded
CHECK_DEADLOCK FALSE
