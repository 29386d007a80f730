SPECIFICATION Spec
CONSTANTS
    MaxHeight = 4
    PruningDepth = 3
    VerifyLookahead = 1
    a = a
    b = b
    Accounts <- Either
    Pools = {"sapling"}
    SubtreeEnds <- EndsAtTwo
    RewindBy = {1}
    Rescans <- MiddleAndRest
    Retains = {3}
    Checkpointed = TRUE
    AheadAllowed = FALSE
    Bounds <- TwoAccountsOneRequest
INVARIANTS
    AllAccountsScanned
    NoGapForgotten
CHECK_DEADLOCK FALSE
SYMMETRY Symmetric
