SPECIFICATION FairSpec
CONSTANTS
    e1 = e1
    e2 = e2
    s = s
    c = c
    u = u
    v = v
    x = x
    broken = broken
    Executions = {e1}
    Sports = {s}
    Children = {c}
    Others = {u, v}
    Game = s
    Foreign = {}
    Paused = {c}
    Lists <- TwoListings
    Reports <- TwoReports
    Broken = broken
    Policy = "arbitrate"
    ResolveAfter = 0
    MaxMarkets = 1
    Budget = 3
    Reserve = 1
    RetryTicks = 3
    ErrorTicks = 2
    MaxNews <- OneNews
    MaxFaults = 1
PROPERTY
    NewerNotStarved
CHECK_DEADLOCK FALSE
