----------------------------- MODULE MarketAMM -----------------------------
(***************************************************************************)
(* contracts/src/MarketAMM.vy: one pm-AMM pool of YES and NO per condition.*)
(*                                                                         *)
(* With L the liquidity and u = (r[other] - r[o]) / L, the curve is        *)
(* r[o] = L * g(-u), g(w) = w * Phi(w) + phi(w).  g_cdf and solve_g of     *)
(* NormalMath.vy are abstracted to the table G of g on a grid of 1/WAD,    *)
(* truncated as the fixed-point code truncates, and to any grid point that *)
(* is within SolverTolerance below the root; every rounding of the         *)
(* contract around them is kept.  The caller's slippage bounds (minOut,    *)
(* minUsdc, minLpOut) only make a call revert, and are left out.           *)
(***************************************************************************)
EXTENDS FeeVault

CONSTANTS
    AMM,                \* the address of this contract, an operator of sellers
    operator,           \* the operator key of AMM, factory and Exchange
    WAD, U_MAX, U_TRADE_MAX, G, SolverTolerance,
    VAULT_FEE_BPS, LP_FEE_BPS, FEE_DENOM,
    MIN_LP

Grid == -U_MAX..U_MAX

ASSUME AMMAssumption == AMM \in (Accounts \cap Operators) \ (Holders \cup {Vault})
ASSUME OperatorKey == operator \in Holders
ASSUME CurveAssumption ==
    /\ WAD \in Nat \ {0} /\ U_MAX \in Nat /\ U_TRADE_MAX \in 0..U_MAX /\ SolverTolerance \in Nat
    /\ G \in [Grid -> Nat] /\ G[0] > 0
    /\ \A w \in Grid : G[w] - G[-w] = w
    /\ \A w \in Grid : w < U_MAX => G[w] <= G[w + 1]
ASSUME AMMFeesAssumption ==
    VAULT_FEE_BPS \in Nat /\ LP_FEE_BPS \in Nat /\ FEE_DENOM \in Nat \ {0} /\ MIN_LP \in Nat \ {0}

VARIABLES
    closeTime,  \* external: ConsensusOracle.closeTime, 0 while unregistered
    pools,      \* condition -> [exists, reserve, lpSupply, liquidity, lpFees, closeTime]
    lpBalance,  \* condition -> provider -> LP shares
    seedLocked, \* condition -> provider -> seed shares
    closeGate   \* do trades stop at the close?

poolVars == <<pools, lpBalance, seedLocked, closeGate>>
ammVars == <<closeTime, poolVars>>

NoPool == [exists |-> FALSE, reserve |-> NoPayout, lpSupply |-> 0, liquidity |-> 0,
           lpFees |-> 0, closeTime |-> 0]

AMMTypeOK ==
    /\ closeTime \in [Conditions -> Nat]
    /\ pools \in [Conditions -> [exists : BOOLEAN, reserve : [Outcomes -> Nat], lpSupply : Nat,
                                 liquidity : Nat, lpFees : Nat, closeTime : Nat]]
    /\ lpBalance \in [Conditions -> [Holders -> Nat]]
    /\ seedLocked \in [Conditions -> [Holders -> Nat]]
    /\ closeGate \in BOOLEAN

AMMInit ==
    /\ closeTime = [c \in Conditions |-> 0]
    /\ pools = [c \in Conditions |-> NoPool]
    /\ lpBalance = [c \in Conditions |-> [a \in Holders |-> 0]]
    /\ seedLocked = [c \in Conditions |-> [a \in Holders |-> 0]]
    /\ closeGate = TRUE

Other(o) == 1 - o
CeilDiv(n, d) == (n + d - 1) \div d
(* Vyper's signed // rounds towards zero.                                  *)
TruncDiv(n, d) == IF n >= 0 THEN n \div d ELSE -((-n) \div d)

_assert_open(p) == closeGate /\ p.closeTime # 0 => now < p.closeTime
_fee(n, bps) == CeilDiv(n * bps, FEE_DENOM)

(* Wrong: the fee of the LPs is booked but not kept out of the trade.      *)
FeesVaultOnly(n) == _fee(n, VAULT_FEE_BPS)

Fees(n) == _fee(n, VAULT_FEE_BPS) + _fee(n, LP_FEE_BPS)
----------------------------------------------------------------------------
(* The contract's own transfers: it receives `in` USDC, sends `out` of     *)
(* them on, turns `sets` USDC into complete sets (or back, when negative), *)
(* and takes `tokens[o]` outcome tokens from the account.                  *)
Settle(a, c, in, toVault, out, sets, tokens) ==
    /\ usdc[a] >= in
    /\ usdc[AMM] + in >= toVault + out + sets
    /\ pot + sets >= 0
    /\ \A o \in Outcomes : /\ balanceOf[a][c][o] >= tokens[o]
                           /\ balanceOf[AMM][c][o] + sets + tokens[o] >= 0
    /\ usdc' = [usdc EXCEPT ![a] = @ - in + out, ![Vault] = @ + toVault,
                            ![AMM] = @ + in - toVault - out - sets]
    /\ pot' = pot + sets
    /\ balanceOf' = [balanceOf EXCEPT ![AMM][c] = [o \in Outcomes |-> @[o] + sets + tokens[o]],
                                      ![a][c] = [o \in Outcomes |-> @[o] - tokens[o]]]

PoolCallUnchanged ==
    UNCHANGED <<isApprovedForAll, prepared, payoutVars, now, revenueVars, closeTime, closeGate>>

Only(o, n) == [x \in Outcomes |-> IF x = o THEN n ELSE 0]

(* The effect of _seed once `payer` (through the factory, or the operator) *)
(* has brought the USDC.                                                   *)
Seeded(c, n, provider, close) ==
    /\ pools' = [pools EXCEPT ![c] = [exists |-> TRUE, reserve |-> [o \in Outcomes |-> n],
                                      lpSupply |-> n, liquidity |-> (n * WAD) \div G[0],
                                      lpFees |-> 0, closeTime |-> close]]
    /\ lpBalance' = [lpBalance EXCEPT ![c][provider] = n]
    /\ seedLocked' = [seedLocked EXCEPT ![c][provider] = n]

CanSeed(c, n, close) == n >= MIN_LP /\ ~pools[c].exists /\ close > 0

seedPoolFor(c, n, provider) ==
    /\ CanSeed(c, n, closeTime[c])
    /\ c \in prepared /\ ~isResolved(c)
    /\ Settle(operator, c, n, 0, 0, n, NoPayout)
    /\ Seeded(c, n, provider, closeTime[c])
    /\ PoolCallUnchanged

setCloseGate(enabled) ==
    /\ closeGate' = enabled
    /\ UNCHANGED <<vaultVars, closeTime, pools, lpBalance, seedLocked>>
----------------------------------------------------------------------------
(* u of the side that a trade in o moves, and the USDC units by which the  *)
(* reserve of the other side lies above the curve there.                   *)
Coordinate(p, o, sold) == TruncDiv((p.reserve[Other(o)] - p.reserve[o] - sold) * WAD, p.liquidity)

Curve(p, w) == CeilDiv(p.liquidity * G[w], WAD)

Surplus(p, o) ==
    LET r == p.reserve[Other(o)]
    IN  r - Min({r, Curve(p, Coordinate(p, o, 0))})

(* solve_g: at or below the root, verified by evaluation.                  *)
solve_g(x) ==
    {w \in Grid : G[w] <= x /\ (w + SolverTolerance < U_MAX => G[w + SolverTolerance + 1] > x)}

(* Wrong: the reserve after the trade is rounded down.                     *)
LeftDown(p, reserveIn, w) ==
    IF w >= 0 THEN reserveIn - CeilDiv(p.liquidity * w, WAD)
              ELSE reserveIn + (p.liquidity * (-w)) \div WAD

(* r_in_new - L * w, rounded up.                                           *)
Left(p, reserveIn, w) ==
    IF w >= 0 THEN reserveIn - (p.liquidity * w) \div WAD
              ELSE reserveIn + CeilDiv(p.liquidity * (-w), WAD)

(* _buy: what may be left of the reserve of o when `trade` sets are added  *)
(* to both sides and o is paid out; empty when the call reverts.           *)
_buy(p, o, trade) ==
    LET w0 == Coordinate(p, o, 0)
        reserveIn == p.reserve[Other(o)] + trade
        x == ((reserveIn - Surplus(p, o)) * WAD) \div p.liquidity
        lefts == IF G[w0] < x THEN {Min({Left(p, reserveIn, w), p.reserve[o]}) : w \in solve_g(x)}
                 ELSE {p.reserve[o]}
    IN  IF ~(p.exists /\ p.liquidity > 0) \/ trade <= 0 \/ w0 \notin Grid \/ x > G[U_TRADE_MAX] THEN {}
        ELSE {r \in lefts : r > 0}

buyWithUSDC(a, c, o, n) ==
    LET p == pools[c]
        trade == n - Fees(n)
    IN  /\ n > 0
        /\ ~isResolved(c)
        /\ _assert_open(p)
        /\ \E left \in _buy(p, o, trade) :
              /\ Settle(a, c, n, _fee(n, VAULT_FEE_BPS), 0, trade, Only(o, -(trade + p.reserve[o] - left)))
              /\ pools' = [pools EXCEPT ![c].reserve[o] = left,
                                        ![c].reserve[Other(o)] = @ + trade,
                                        ![c].lpFees = @ + _fee(n, LP_FEE_BPS)]
        /\ UNCHANGED <<lpBalance, seedLocked>>
        /\ PoolCallUnchanged

(* _sell: the complete sets merged when n of o come in, 0 when it reverts. *)
(* The new coordinate is rounded up, and the reserve once more.            *)
_sell(p, o, n) ==
    LET w == Coordinate(p, o, n) + 1
        left == Curve(p, w) + 1 + Surplus(p, o)
    IN  IF ~(p.exists /\ p.liquidity > 0) \/ w \notin -U_TRADE_MAX..U_MAX \/ Coordinate(p, o, 0) \notin Grid
        THEN 0
        ELSE Max({0, Min({n, p.reserve[Other(o)] - left})})

sellToUSDC(a, c, o, n) ==
    LET p == pools[c]
        m == _sell(p, o, n)
    IN  /\ n > 0
        /\ ~isResolved(c)
        /\ _assert_open(p)
        /\ m > Fees(m)
        /\ AMM \in isApprovedForAll[a]
        /\ Settle(a, c, 0, _fee(m, VAULT_FEE_BPS), m - Fees(m), -m, Only(o, n))
        /\ pools' = [pools EXCEPT ![c].reserve[o] = @ + n - m,
                                  ![c].reserve[Other(o)] = @ - m,
                                  ![c].lpFees = @ + _fee(m, LP_FEE_BPS)]
        /\ UNCHANGED <<lpBalance, seedLocked>>
        /\ PoolCallUnchanged
----------------------------------------------------------------------------
(* Wrong: the reserve legs of a deposit are rounded down.                  *)
ShareDown(n, part, whole) == (n * part) \div whole

(* The pool's part of a deposit, in its favour.                            *)
ShareIn(n, part, whole) == CeilDiv(n * part, whole)

(* A deposit at the current price: everything grows by n over the long     *)
(* side and the fees; the depositor gets the short side's excess back.     *)
addLiquidity(a, c, n) ==
    LET p == pools[c]
        long == Max({p.reserve[o] : o \in Outcomes})
        whole == long + p.lpFees
        sets == ShareIn(n, long, whole)
        legs == [o \in Outcomes |-> ShareIn(n, p.reserve[o], whole)]
        minted == (n * p.lpSupply) \div whole
    IN  /\ p.exists /\ p.liquidity > 0 /\ n > 0
        /\ ~isResolved(c)
        /\ _assert_open(p)
        /\ minted > 0
        /\ Settle(a, c, n, 0, 0, sets, [o \in Outcomes |-> -(sets - legs[o])])
        /\ pools' = [pools EXCEPT ![c].reserve = [o \in Outcomes |-> @[o] + legs[o]],
                                  ![c].liquidity = @ + (n * @) \div whole,
                                  ![c].lpFees = @ + n - sets,
                                  ![c].lpSupply = @ + minted]
        /\ lpBalance' = [lpBalance EXCEPT ![c][a] = @ + minted]
        /\ UNCHANGED seedLocked
        /\ PoolCallUnchanged

(* Wrong: only MIN_LP of the seed is ever held back.                       *)
LpLockedMinimum(c, a) == Min({seedLocked[c][a], MIN_LP})

_lp_locked(c, a) ==
    IF now < pools[c].closeTime /\ ~isResolved(c) THEN seedLocked[c][a]
    ELSE Min({seedLocked[c][a], MIN_LP})

LiquidityOut(p, k) == Min({CeilDiv(p.liquidity * k, p.lpSupply), p.liquidity})

(* A withdrawal: the pro-rata reserves and fees, in complete sets as far   *)
(* as they go while the condition is open.                                 *)
removeLiquidity(a, c, k) ==
    LET p == pools[c]
        part(x) == (x * k) \div p.lpSupply
        legs == [o \in Outcomes |-> part(p.reserve[o])]
        sets == IF isResolved(c) THEN 0 ELSE Min({legs[o] : o \in Outcomes})
    IN  /\ p.exists
        /\ k > 0 /\ k <= lpBalance[c][a]
        /\ lpBalance[c][a] - k >= _lp_locked(c, a)
        /\ p.lpSupply - k >= MIN_LP
        /\ Settle(a, c, 0, 0, part(p.lpFees) + sets, -sets, [o \in Outcomes |-> sets - legs[o]])
        /\ pools' = [pools EXCEPT ![c].reserve = [o \in Outcomes |-> @[o] - legs[o]],
                                  ![c].lpFees = @ - part(@),
                                  ![c].liquidity = @ - LiquidityOut(p, k),
                                  ![c].lpSupply = @ - k]
        /\ lpBalance' = [lpBalance EXCEPT ![c][a] = @ - k]
        /\ UNCHANGED seedLocked
        /\ PoolCallUnchanged
----------------------------------------------------------------------------
(* The contract can pay whatever the pools promise: it holds the tokens of *)
(* every reserve and the fees of all pools, each share of a pool has one   *)
(* owner, and no pool falls to dust.  Since the pools share one USDC       *)
(* balance, a shortfall of one would be paid by another.                   *)
PoolsCovered ==
    /\ \A c \in Conditions, o \in Outcomes : balanceOf[AMM][c][o] >= pools[c].reserve[o]
    /\ usdc[AMM] >= MapThenSumSet(LAMBDA c : pools[c].lpFees, Conditions)
    /\ \A c \in {x \in Conditions : pools[x].exists} :
          /\ pools[c].lpSupply = MapThenSumSet(LAMBDA a : lpBalance[c][a], Holders)
          /\ pools[c].lpSupply >= MIN_LP

(* "Every rounding keeps the pool on or above the curve", so that no round *)
(* trip takes from it what it did not pay in: with the table interpolated, *)
(* reserve >= L * g(-u) on both sides, after any trades, deposits and      *)
(* withdrawals.                                                            *)
OnCurve ==
    \A c \in {x \in Conditions : pools[x].exists}, o \in Outcomes :
        LET p == pools[c]
            d == (p.reserve[o] - p.reserve[Other(o)]) * WAD
            q == d \div p.liquidity
            r == d % p.liquidity
        IN  p.liquidity > 0 /\ q \in Grid /\ q + 1 \in Grid =>
              p.reserve[o] * WAD >= G[q] * (p.liquidity - r) + G[q + 1] * r

(* A deposit or a withdrawal (a step that changes the shares) does not     *)
(* dilute those who stay: should the long side win, a share is worth no    *)
(* less than before, should the short side win, less by under one unit in  *)
(* all; and the reserves behind the liquidity do not shrink.               *)
Worth(p, r) == r + p.lpFees
NoDilution ==
    [][\A c \in Conditions :
          LET p == pools[c]
              q == pools'[c]
              long(x) == Max({x.reserve[o] : o \in Outcomes})
              short(x) == Min({x.reserve[o] : o \in Outcomes})
          IN  p.exists /\ q.lpSupply # p.lpSupply =>
                /\ Worth(q, long(q)) * p.lpSupply >= Worth(p, long(p)) * q.lpSupply
                /\ (Worth(q, short(q)) + 1) * p.lpSupply > Worth(p, short(p)) * q.lpSupply
                /\ \A o \in Outcomes : q.reserve[o] * p.liquidity >= p.reserve[o] * q.liquidity
      ]_pools
=============================================================================
