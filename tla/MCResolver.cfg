SPECIFICATION FairSpec
CONSTANTS
    e1 = e1
    e2 = e2
    s = s
    c = c
    u = u
    v = v
    x = x
    broken = broken
    Executions = {e1, e2}
    Sports = {s}
    Children = {c}
    Others = {u, v, x}
    Game = s
    Foreign = {x}
    Paused = {c}
    Lists <- MCLists
    Reports <- MCReports
    Broken = broken
    Policy = "arbitrate"
    ResolveAfter = 0
    MaxMarkets = 1
    Budget = 3
    Reserve = 1
    RetryTicks = 3
    ErrorTicks = 2
    MaxNews <- MCNews
    MaxFaults = 1
CONSTRAINT MCScope
INVARIANTS
    MirrorAgrees
    PaysAFinalScore
    AttestedAsReported
    SingleFlight
PROPERTIES
    EveryPayoutMirrored
    AgreementResolves
CHECK_DEADLOCK FALSE
