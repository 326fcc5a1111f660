--------------------------- MODULE MarketFactory ---------------------------
(***************************************************************************)
(* contracts/src/MarketFactory.vy: a market is a prepared condition, a     *)
(* registered close and, but for unseeded wildcards, a pool, all made in   *)
(* one transaction.  A question id fixes the condition id; a user's        *)
(* question ids are namespaced by their creator.  The listing fee goes to  *)
(* the vault, as the deployments configure it.                             *)
(***************************************************************************)
EXTENDS MarketAMM

CONSTANTS
    generator,      \* wildcardGenerator
    Primaries,      \* condition ids of the operator's questions
    Wildcards,      \* condition ids of generated child questions
    UserCreator,    \* condition id of a user's question -> the account it is namespaced by
    LegacyMarkets,  \* condition id -> [parent, closeTime, type, paused] in a former factory
    Configs,        \* listing parameters the operator may set, the constructor's among them
    SeedAmounts     \* USDC a pool is seeded with

NoParent == "no parent"
DefaultConfig == CHOOSE g \in Configs : g.listingFee = 0

Market == [parent : Conditions \cup {NoParent}, closeTime : Nat,
           type : {"primary", "wildcard", "user"}, paused : BOOLEAN]

ASSUME CreatorsAssumption ==
    /\ generator \in Holders
    /\ DOMAIN UserCreator \subseteq Conditions
    /\ \A c \in DOMAIN UserCreator : UserCreator[c] \in Holders
ASSUME LegacyAssumption ==
    /\ DOMAIN LegacyMarkets \cap (Primaries \cup Wildcards \cup DOMAIN UserCreator) = {}
    /\ DOMAIN LegacyMarkets \subseteq Conditions
    /\ \A c \in DOMAIN LegacyMarkets : LegacyMarkets[c] \in Market
ASSUME SeedAmountsAssumption == SeedAmounts \subseteq Nat
ASSUME ConfigsAssumption ==
    /\ Configs \subseteq [minSeed : Nat \ {0}, listingFee : Nat, minLead : Nat \ {0}, maxHorizon : Nat, cooldown : Nat]
    /\ \E g \in Configs : g.listingFee = 0
    /\ \A g \in Configs : g.maxHorizon > g.minLead

VARIABLES
    markets,        \* condition -> its Market; the domain is marketExists
    permissionless, \* may everyone list?
    listerAllowed,  \* allowlisted listers
    config,         \* the listing parameters
    lastListedAt,   \* creator -> time of its last listing, 0 at first
    seedOf          \* listed condition -> seed

factoryVars == <<markets, permissionless, listerAllowed, config, lastListedAt, seedOf>>

FactoryTypeOK ==
    /\ DOMAIN markets \subseteq Conditions
    /\ \A c \in DOMAIN markets : markets[c] \in Market
    /\ permissionless \in BOOLEAN
    /\ listerAllowed \subseteq Holders
    /\ config \in Configs
    /\ lastListedAt \in [Holders -> Nat]
    /\ DOMAIN seedOf \subseteq DOMAIN markets

FactoryInit ==
    /\ markets = << >>
    /\ permissionless = FALSE
    /\ listerAllowed = {}
    /\ config = DefaultConfig
    /\ lastListedAt = [a \in Holders |-> 0]
    /\ seedOf = << >>

(* f with c mapped to v as well.                                           *)
With(f, c, v) == [x \in DOMAIN f \cup {c} |-> IF x = c THEN v ELSE f[x]]
----------------------------------------------------------------------------
(* Wrong: a child may outlive its parent.                                  *)
ParentAllowsAnyClose(parent, close) == parent # NoParent => parent \in DOMAIN markets /\ ~markets[parent].paused

ParentAllows(parent, close) ==
    parent # NoParent =>
        /\ parent \in DOMAIN markets
        /\ close <= markets[parent].closeTime
        /\ ~markets[parent].paused

(* _create: prepareCondition and registerMarket revert when the id was     *)
(* prepared or registered before.                                          *)
_create(c, parent, close, type) ==
    /\ close > now
    /\ ParentAllows(parent, close)
    /\ c \notin prepared
    /\ closeTime[c] = 0
    /\ prepared' = prepared \cup {c}
    /\ closeTime' = [closeTime EXCEPT ![c] = close]
    /\ markets' = With(markets, c, [parent |-> parent, closeTime |-> close, type |-> type, paused |-> FALSE])
    /\ UNCHANGED <<isApprovedForAll, payoutVars, now, revenueVars, closeGate, permissionless, listerAllowed, config>>

(* _seed: the caller's USDC, by way of the factory.                        *)
_seed(a, c, n, fee, close) ==
    /\ CanSeed(c, n, close)
    /\ Settle(a, c, n + fee, fee, 0, n, NoPayout)
    /\ Seeded(c, n, a, close)

createPrimaryMarket(c, close, n) ==
    /\ c \in Primaries
    /\ n > 0
    /\ _create(c, NoParent, close, "primary")
    /\ _seed(operator, c, n, 0, close)
    /\ UNCHANGED <<lastListedAt, seedOf>>

createWildcardMarket(a, c, parent, close, n) ==
    /\ a \in {generator, operator}
    /\ c \in Wildcards
    /\ _create(c, parent, close, "wildcard")
    /\ IF n > 0 THEN _seed(a, c, n, 0, close)
                ELSE UNCHANGED <<usdc, pot, balanceOf, pools, lpBalance, seedLocked>>
    /\ UNCHANGED <<lastListedAt, seedOf>>

createPermissionlessMarket(a, c, close, n) ==
    /\ c \in DOMAIN UserCreator /\ UserCreator[c] = a
    /\ permissionless \/ a \in listerAllowed
    /\ n >= config.minSeed
    /\ close >= now + config.minLead
    /\ close <= now + config.maxHorizon
    /\ now >= lastListedAt[a] + config.cooldown
    /\ _create(c, NoParent, close, "user")
    /\ _seed(a, c, n, config.listingFee, close)
    /\ lastListedAt' = [lastListedAt EXCEPT ![a] = now]
    /\ seedOf' = With(seedOf, c, n)

(* The operator's settings.                                                *)
setPaused(c, paused) ==
    /\ c \in DOMAIN markets
    /\ markets' = [markets EXCEPT ![c].paused = paused]
    /\ UNCHANGED <<vaultVars, ammVars, permissionless, listerAllowed, config, lastListedAt, seedOf>>

setPermissionless(enabled) ==
    /\ permissionless' = enabled
    /\ UNCHANGED <<vaultVars, ammVars, markets, listerAllowed, config, lastListedAt, seedOf>>

setLister(a, allowed) ==
    /\ listerAllowed' = IF allowed THEN listerAllowed \cup {a} ELSE listerAllowed \ {a}
    /\ UNCHANGED <<vaultVars, ammVars, markets, permissionless, config, lastListedAt, seedOf>>

setListingConfig(g) ==
    /\ config' = g
    /\ UNCHANGED <<vaultVars, ammVars, markets, permissionless, listerAllowed, lastListedAt, seedOf>>

(* Rows of a former factory, whose conditions it prepared on the ledger it *)
(* served; rows that exist here stay as they are.                          *)
importLegacyMarkets(S) ==
    /\ S \subseteq DOMAIN LegacyMarkets
    /\ markets' = [c \in DOMAIN markets \cup S |-> IF c \in DOMAIN markets THEN markets[c] ELSE LegacyMarkets[c]]
    /\ UNCHANGED <<vaultVars, ammVars, permissionless, listerAllowed, config, lastListedAt, seedOf>>

ListingCalls ==
    \/ \E c \in Conditions, close \in 1..MaxTime, n \in SeedAmounts \cup {0} :
          \/ createPrimaryMarket(c, close, n)
          \/ \E a \in Holders : \/ createPermissionlessMarket(a, c, close, n)
                                \/ \E parent \in Conditions : createWildcardMarket(a, c, parent, close, n)
    \/ \E c \in Conditions, paused \in BOOLEAN : setPaused(c, paused)
    \/ \E enabled \in BOOLEAN : setPermissionless(enabled)
    \/ \E a \in Holders, allowed \in BOOLEAN : setLister(a, allowed)
    \/ \E g \in Configs : setListingConfig(g)
    \/ \E S \in SUBSET DOMAIN LegacyMarkets : S # {} /\ importLegacyMarkets(S)
----------------------------------------------------------------------------
(* "a listing seed is real skin in the game": from the listing until the   *)
(* close or the resolution its creator holds the whole seed in the pool,   *)
(* and at any later time at least MIN_LP of it, whatever else it adds and  *)
(* removes.                                                                *)
SkinInTheGame ==
    \A c \in DOMAIN seedOf :
        LET shares == lpBalance[c][UserCreator[c]]
        IN  IF now < markets[c].closeTime /\ ~isResolved(c) THEN shares >= seedOf[c] ELSE shares >= MIN_LP

(* The four contracts agree on a market: what this factory created is      *)
(* prepared on the ledger, its close is the one the oracle and the pool    *)
(* work by, and a child ends no later than its parent.                     *)
MarketsAgree ==
    \A c \in DOMAIN markets \ DOMAIN LegacyMarkets :
        /\ c \in prepared
        /\ closeTime[c] = markets[c].closeTime
        /\ pools[c].exists => pools[c].closeTime = markets[c].closeTime
        /\ markets[c].type # "wildcard" => pools[c].exists
        /\ LET parent == markets[c].parent
           IN  parent # NoParent => parent \in DOMAIN markets /\ markets[c].closeTime <= markets[parent].closeTime
=============================================================================
