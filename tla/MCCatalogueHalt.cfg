SPECIFICATION Spec
CONSTANTS
    i1 = i1
    i2 = i2
    r1 = r1
    u = u
    m = m
    Instances = {i1}
    Requests = {r1}
    OperatorMarkets = {}
    UserMarkets = {u}
    Questions = {"ok"}
    Banned = {}
    OperatorQuestion = "ok"
    Texts = {"full"}
    Short = {}
    StartBlock = 1
    Lookback = 2
    Legacy = 0
    Anvil = FALSE
    MaxRange = 2
    MinRange = 1
    MaxChunks = 1
    MaxBlocks = 2
    MaxLost = 0
INVARIANT
    PausedIsHalted
CHECK_DEADLOCK FALSE
