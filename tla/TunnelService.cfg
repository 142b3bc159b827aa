SPECIFICATION Spec
CONSTANTS
    endpoint = endpoint
    low = low
    high = high
    lan = lan
    site = site
    wifi = wifi
    wired = wired
    Endpoint = endpoint
    Low = low
    High = high
    Excluded = {lan, site, endpoint}
    Resolved = {site, endpoint}
    Services = {wifi, wired}
    Options <- MCOptions
    Faults = {"setup", "undo", "add", "signal", "kill", "die"}
    MaxRuns = 2
INVARIANTS
    ExitRestores
    UndoCovers
    EndpointExcluded
    LocalDNSServed
    TunnelDNSInsideTunnel
    UpstreamValidated
PROPERTIES
    OthersKept
    RunEnds
CHECK_DEADLOCK FALSE
