SPECIFICATION Spec
CONSTANTS
    MaxData <- MCMaxData
INVARIANTS
    ReplyTruthful
    EndMeansComplete
    ChildNotAbandoned
PROPERTIES
    RelayReleased
    SignalForwarded
CHECK_DEADLOCK FALSE
