SPECIFICATION Spec
CONSTANTS
    Preparations = {1, 2}
    Transfers = {3}
    Deps <- LayerDeps
    CrossingValue <- LayerValue
    InitSched <- LayerSched
    InitExpiry <- LayerExpiry
    InitBound <- LayerBound
    ReplanPercent = 50
    AnchorDepth = 1
    AnchorInterval = 3
    InitStates = {"AwaitingSignature", "Signed"}
    Contested = {1}
    Payable = {2}
    PaymentExpiry = 4
    Tolerance = 1
    SettleDepth = 1
    RebuildDelays = {1}
    ExpiryWindow = 2
    MaxHeight = 6
    MaxLead = 1
    MaxAhead = 1
    MaxReorgs = 1
    MaxCrashes = 1
    ScanPoints = {"idle", "submit"}
    TruncatePoints = {"idle"}
    CancelPoints = {"idle"}
INVARIANTS
    TypeOK
    InclusionKnown
    InheritedJustified
    NotServedLate
    MarkEvidence
    MarksClosed
    MinedTruth
    ReplanHonest
PROPERTIES
    ProvedAnchored
    RebuildReplacesDead
    PolicyFinal
    HandedOutLive
CHECK_DEADLOCK FALSE
