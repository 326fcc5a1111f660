------------------------------ MODULE MCVenue ------------------------------
(* An operator and a lister who also trade; a primary market prim, a child *)
(* wild, a user's listing u, and a row l of a former factory.              *)
EXTENDS Venue, Sequences, TLC

CONSTANTS op, alice, amm, vault, exchange, oracle, eoa, prim, wild, u, l

MCOracleOf == [c \in {prim, wild, u, l} |-> IF c = l THEN eoa ELSE oracle]
MCPayoutVectors == {(YES :> 1 @@ NO :> 2)}
MCFunds == [a \in {op, alice, amm, vault, exchange} |-> IF a = op THEN 10 ELSE IF a = alice THEN 9 ELSE 0]
MCUserCreator == u :> alice
MCLegacyMarkets == l :> [parent |-> NoParent, closeTime |-> 1, type |-> "primary", paused |-> TRUE]
MCConfigs ==
    {[minSeed |-> 3, listingFee |-> 0, minLead |-> 1, maxHorizon |-> 2, cooldown |-> 0],
     [minSeed |-> 4, listingFee |-> 1, minLead |-> 1, maxHorizon |-> 2, cooldown |-> 1]}

(* NormalMath in tenths: phi(w) - |w| * Phi(-|w|), rounded down.           *)
Upper == <<3, 3, 3, 2, 2, 1, 1, 1, 1, 1>>
Abs(x) == IF x < 0 THEN -x ELSE x
MCG == [x \in -40..40 |-> Max({x, 0}) + (IF Abs(x) < Len(Upper) THEN Upper[Abs(x) + 1] ELSE 0)]

(* A sell order and two buy orders that cross it.                          *)
Order(a, buy, price, amount) ==
    [maker |-> a, isBuy |-> buy, condition |-> prim, outcome |-> YES,
     price |-> price, amount |-> amount, nonce |-> 0, expiry |-> 1]
MCTerms == (1 :> Order(alice, FALSE, 3, 2)) @@ (2 :> Order(op, TRUE, 4, 2)) @@ (3 :> Order(op, TRUE, 3, 1))

(* What is explored apart: the listing of markets, trade in one pool, in   *)
(* two pools that share the AMM's USDC, the shared ledger, the order book  *)
(* and the vault; and no step that withdraws an approval is built upon.    *)
Only2(S) == Cardinality(S) <= 2
HeldBy(a, c) == {o \in Outcomes : balanceOf[a][c][o] > 0}
LPFees == pools[prim].lpFees + pools[u].lpFees
BookUsed ==
    \/ cancelled # {}
    \/ \E a \in Holders : nonces[a] > 0
    \/ \E o \in Orders : filled[o] > 0
OUUsed == ou[vault] > 0 \/ ou[op] # InitialOU \/ ou[alice] # InitialOU
Settings ==
    {x \in 1..5 : \/ x = 1 /\ permissionless
                  \/ x = 2 /\ listerAllowed # {}
                  \/ x = 3 /\ config # DefaultConfig
                  \/ x = 4 /\ ~closeGate
                  \/ x = 5 /\ \E c \in DOMAIN markets : markets[c].paused}

(* Listing: any two markets, before they trade.                            *)
ListingScope ==
    /\ Only2(DOMAIN markets) /\ Only2(Settings) /\ now <= 1
    /\ usdc[vault] = (IF u \in DOMAIN markets THEN config.listingFee ELSE 0)
    /\ \A c \in Conditions : pools[c].lpSupply \in {0, 4} /\ pools[c].reserve \in {NoPayout, [o \in Outcomes |-> 4]}
    /\ \A c \in Conditions : ~isResolved(c)

(* Trading in one pool, where alice holds one kind of token at a time.     *)
TradeScope ==
    /\ DOMAIN markets = {prim} /\ markets[prim].closeTime = 1 /\ Settings = {}
    /\ HeldBy(op, prim) = {}
    /\ usdc[vault] <= LPFees \/ pools[prim].lpSupply < 4
    /\ IF now = 0 THEN usdc[vault] <= 3 /\ pools[prim].lpSupply <= 8
                  ELSE usdc[vault] <= 1 /\ pools[prim].lpSupply <= 4 /\ now = 1

PairScope ==
    /\ DOMAIN markets = {prim, u} /\ now = 0 /\ Settings = {1}
    /\ usdc[vault] = LPFees /\ LPFees <= 2
    /\ \A c \in {prim, u} : markets[c].closeTime = 1 /\ pools[c].lpSupply = 4

(* The AMM holds nothing but its pools, an account no complete set while a *)
(* condition is open.                                                      *)
MarketScope ==
    /\ prepared = DOMAIN markets \ {l}
    /\ ListingScope \/ TradeScope \/ PairScope
    /\ usdc[amm] = LPFees
    /\ \A c \in prepared : balanceOf[amm][c] = pools[c].reserve
    /\ \A c \in prepared, a \in Holders : isResolved(c) \/ Cardinality(HeldBy(a, c)) <= 1

(* Ledger: a condition of ConsensusOracle and one of another oracle;       *)
(* alice splits, the operator holds what she sends.                        *)
LedgerScope ==
    /\ prepared \subseteq {l, wild} /\ now = 0
    /\ pot <= 2 /\ usdc[op] >= 10 /\ usdc[vault] = 0
    /\ HeldBy(op, wild) = {}

(* Book: one open condition, in which alice splits.                        *)
PaidBy(S) == MapThenSumSet(LAMBDA x : settled[x].paid, S)
Buys == {x \in Orders : Terms[x].isBuy}
BookScope ==
    /\ prepared \subseteq {prim} /\ pot <= 2 /\ ~isResolved(prim)
    /\ Cardinality(cancelled) + nonces[op] + nonces[alice] <= 1
    /\ balanceOf[op][prim] = [o \in Outcomes |-> IF o = YES THEN filled[1] ELSE 0]
    /\ usdc[vault] = PaidBy(Buys) - PaidBy(Orders \ Buys)

(* Vault: no collateral at all; the operator pays into the vault.          *)
VaultScope ==
    /\ prepared = {}
    /\ usdc[vault] <= 2 /\ usdc[alice] >= 8 /\ usdc[op] >= 7
    /\ ou[op] <= InitialOU /\ ou[alice] <= InitialOU

QuietScope ==
    /\ Settings = {} /\ usdc[amm] = 0
    /\ IF BookUsed THEN ~OUUsed /\ BookScope
       ELSE IF OUUsed THEN VaultScope
       ELSE LedgerScope \/ BookScope \/ VaultScope
    /\ \A c \in prepared : HeldBy(amm, c) = {}

MCScope ==
    /\ \A a \in Holders : isApprovedForAll[a] = Operators
    /\ IF DOMAIN markets = {} /\ Settings = {} THEN QuietScope
       ELSE ~BookUsed /\ ~OUUsed /\ MarketScope
============================================================================
