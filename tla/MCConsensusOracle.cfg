SPECIFICATION Spec
CONSTANTS
    alice = alice
    bob = bob
    oracle = oracle
    market = market
    a1 = a1
    a2 = a2
    a3 = a3
    Accounts = {alice, bob}
    Operators = {bob}
    Conditions = {market}
    Oracles = {oracle}
    OracleOf <- MCOracleOf
    Amounts = {1}
    PayoutVectors = {}
    InitialUSDC = 1
    OracleAddress = oracle
    agents <- MCAgents
    WINDOW = 1
    CloseTimes = {2}
    StartTime = 1
    MaxTime = 3
INVARIANTS
    TypeOK
    LedgerAgrees
    ResolutionJustified
PROPERTY
    OutcomeFinal
CHECK_DEADLOCK FALSE
