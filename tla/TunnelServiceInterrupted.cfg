SPECIFICATION Spec
CONSTANTS
    endpoint = endpoint
    low = low
    high = high
    lan = lan
    site = site
    wifi = wifi
    wired = wired
    Endpoint = endpoint
    Low = low
    High = high
    Excluded = {lan, site, endpoint}
    Resolved = {site, endpoint}
    Services = {wifi, wired}
    Options <- FullOptions
    Faults = {"signal"}
    MaxRuns = 1
INVARIANTS
    SignalRestores
CHECK_DEADLOCK FALSE
