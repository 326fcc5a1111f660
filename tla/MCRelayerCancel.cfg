SPECIFICATION Spec
CONSTANTS
    seller = seller
    buyer1 = buyer1
    buyer2 = buyer2
    Accounts = {seller, buyer1, buyer2}
    OrderIds = {1, 2, 3}
    Book <- MCBook
    Resting = {1}
    MaxJobs = 2
    MaxAttempts = 2
    MaxChain = 1
    MaxForeign = 0
    ExternalFills = FALSE
    PoolViewNonceLow = TRUE
    CancelRoute = TRUE
INVARIANTS
    AnsweredJobsUnsigned
    BookCovered
CONSTRAINT
    MCCancelScope
CHECK_DEADLOCK FALSE
