SPECIFICATION Spec
CONSTANTS
    q1 = q1
    q2 = q2
    k1 = k1
    Keys = {k1}
    Requests = {q1, q2}
    MaxRows = 2
    MaxForeign = 1
    MaxChain = 2
INVARIANTS
    PaidTwiceOnlyInDoubt ConfirmedHasPaid
SYMMETRY MCSymmetry
CHECK_DEADLOCK FALSE
