SPECIFICATION Spec
CONSTANTS
    op = op
    alice = alice
    amm = amm
    vault = vault
    exchange = exchange
    oracle = oracle
    eoa = eoa
    Consensus = oracle
    prim = prim
    wild = wild
    u = u
    l = l
    Accounts = {op, alice, amm, vault, exchange}
    Conditions = {prim, wild, u, l}
    Operators = {amm, exchange}
    Oracles = {oracle, eoa}
    OracleOf <- MCOracleOf
    Amounts = {1, 2}
    PayoutVectors <- MCPayoutVectors
    InitialUSDC = 0
    Vault = vault
    Holders = {op, alice}
    cooldown = 1
    InitialSupply = 4
    InitialOU = 2
    MaxTime = 2
    ExchangeAddress = exchange
    Orders = {1, 2, 3}
    Terms <- MCTerms
    ExchangeOperator = op
    TAKER_FEE_BPS = 3
    BPS_DENOM = 10
    PRICE_SCALE = 2
    AMM = amm
    operator = op
    WAD = 10
    U_MAX = 40
    U_TRADE_MAX = 37
    G <- MCG
    SolverTolerance = 1
    VAULT_FEE_BPS = 1
    LP_FEE_BPS = 1
    FEE_DENOM = 10
    MIN_LP = 2
    generator = op
    Primaries = {prim}
    Wildcards = {wild}
    UserCreator <- MCUserCreator
    LegacyMarkets <- MCLegacyMarkets
    Configs <- MCConfigs
    SeedAmounts = {4}
    Funds <- MCFunds
    TradeAmounts = {3, 5}
    ShareAmounts = {1, 2}
INVARIANTS
    Solvent
    QuoteHolds
    LimitHonoured
    PoolsCovered
    OnCurve
    SkinInTheGame
    MarketsAgree
PROPERTIES
    NavNeverFalls
    VaultIsolated
    NoDilution
CONSTRAINT
    MCScope
CHECK_DEADLOCK FALSE
