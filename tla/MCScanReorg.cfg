SPECIFICATION Spec
CONSTANTS
    MaxHeight = 4
    PruningDepth = 3
    VerifyLookahead = 1
    a = a
    Accounts = {a}
    Pools = {"sapling"}
    SubtreeEnds <- EndsAtFour
    RewindBy = {1}
    Rescans <- MiddleAndRest
    Retains = {3}
    Checkpointed = FALSE
    AheadAllowed = FALSE
    Bounds <- OneOfEach
INVARIANTS
    TypeOK
    ScannedRowsMaximal
    SyncedToOneChain
PROPERTIES
    Refinement
    DroppedIsRequeued
CHECK_DEADLOCK FALSE
