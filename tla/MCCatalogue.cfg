SPECIFICATION FairSpec
CONSTANTS
    i1 = i1
    i2 = i2
    r1 = r1
    u = u
    m = m
    Instances = {i1, i2}
    Requests = {r1}
    OperatorMarkets = {m}
    UserMarkets = {u}
    Questions = {"ok", "edited", "banned"}
    Banned = {"banned"}
    OperatorQuestion = "ok"
    Texts = {"full", "short"}
    Short = {"short"}
    StartBlock = 0
    Lookback = 1
    Legacy = 0
    Anvil = FALSE
    MaxRange = 2
    MinRange = 1
    MaxChunks = 1
    MaxBlocks = 3
    MaxLost = 1
INVARIANTS
    CatalogueTypeOK PassedIsIndexed PublicIsReviewed PausedStaleOnlyIfLate
CONSTRAINT MCScope
PROPERTIES
    CheckpointForward CatchesUp
CHECK_DEADLOCK FALSE
