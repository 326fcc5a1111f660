SPECIFICATION Spec
CONSTANTS
    q1 = q1
    q2 = q2
    k1 = k1
    Keys = {k1}
    Requests = {q1}
    MaxRows = 2
    MaxForeign = 0
    MaxChain = 2
INVARIANT
    PaidOnce
CHECK_DEADLOCK FALSE
