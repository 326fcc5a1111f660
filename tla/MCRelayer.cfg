SPECIFICATION Spec
CONSTANTS
    seller = seller
    buyer1 = buyer1
    buyer2 = buyer2
    Accounts = {seller, buyer1, buyer2}
    OrderIds = {1, 2, 3}
    Book <- MCBook
    Resting = {1}
    MaxJobs = 2
    MaxAttempts = 1
    MaxChain = 2
    MaxForeign = 1
    ExternalFills = TRUE
    PoolViewNonceLow = FALSE
    CancelRoute = FALSE
INVARIANTS
    TypeOK
    OneLiveNonce
    NoSharedNonce
    FilledExact
    BookCovered
PROPERTY
    FillsOnce
CONSTRAINT
    MCScope
CHECK_DEADLOCK FALSE
