SPECIFICATION LiveSpec
CONSTANTS
    Preparations = {1}
    Transfers = {2}
    Deps <- PairDeps
    CrossingValue <- PairValue
    InitSched <- LiveSched
    InitExpiry <- LiveExpiry
    InitBound <- LiveBound
    ReplanPercent = 50
    AnchorDepth = 1
    AnchorInterval = 2
    InitStates = {"Signed"}
    Contested = {2}
    Payable = {2}
    PaymentExpiry = 7
    Tolerance = 1
    SettleDepth = 1
    RebuildDelays = {1}
    ExpiryWindow = 2
    MaxHeight = 4
    MaxLead = 1
    MaxAhead = 0
    MaxReorgs = 1
    MaxCrashes = 0
    ScanPoints = {"idle", "sweep", "swept", "report", "closing", "plan", "persist", "serve", "submit"}
    TruncatePoints = {"idle"}
    CancelPoints = {}
PROPERTIES
    AdvanceTerminates
    ReportDischarged
CHECK_DEADLOCK FALSE
