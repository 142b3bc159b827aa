SPECIFICATION Spec
CONSTANTS
    NotANumber = NotANumber
    Labels <- MCLabels
    Lower <- MCLower
    MaxLabels = 4
    Width = 2
    RulesLines <- MCRulesLines
    MaxRules = 4
    Hosts <- MCHosts
    Keys = {"k", "l"}
    CIDRs4 = {"net4"}
    CIDRs6 = {"net6"}
    Literal = {"address", "address2"}
    Lookup <- MCLookup
    Beginnings <- MCBeginnings
    ConfigLines <- MCConfigLines
    MaxConfig = 4
    Words = {"w", "x", "1"}
    Ports = {"1"}
    FoundConfig = "w"
    Pieces <- MCPieces
    MaxPieces = 4
INVARIANTS
    MatchesWhatItCovers
    RulesFileMeansItsLines
    ConfigSectionsKeptApart
    DeviceGetsConfig
    CommandLineUnderstood
CHECK_DEADLOCK FALSE
