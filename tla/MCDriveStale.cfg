SPECIFICATION Spec
CONSTANTS
    Preparations = {1}
    Transfers = {2}
    Deps <- PairDeps
    CrossingValue <- PairValue
    InitSched <- PairSched
    InitExpiry <- PairExpiry
    InitBound <- PairBound
    ReplanPercent = 50
    AnchorDepth = 1
    AnchorInterval = 2
    InitStates = {"Signed"}
    Contested = {1}
    Payable = {}
    PaymentExpiry = 4
    Tolerance = 1
    SettleDepth = 1
    RebuildDelays = {1}
    ExpiryWindow = 2
    MaxHeight = 5
    MaxLead = 0
    MaxAhead = 1
    MaxReorgs = 1
    MaxCrashes = 0
    ScanPoints = {"idle"}
    TruncatePoints = {"idle"}
    CancelPoints = {}
PROPERTIES
    MarkFallsWithEvidence
CHECK_DEADLOCK FALSE
