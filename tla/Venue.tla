------------------------------- MODULE Venue -------------------------------
(***************************************************************************)
(* The contracts that hold money, together: ledger, vault, Exchange, pools *)
(* and factory over one USDC and one block time.  ConsensusOracle is only  *)
(* the payouts it reports: winner takes all, not before the close it has   *)
(* on record (the module ConsensusOracle says on what grounds).  Other     *)
(* oracles of the shared ledger report what they like.                     *)
(***************************************************************************)
EXTENDS Exchange, MarketFactory

venueVars == <<vaultVars, bookVars, ammVars, factoryVars>>

CONSTANTS
    Funds,          \* USDC of each account at the start
    TradeAmounts,   \* USDC or tokens a caller trades with a pool
    ShareAmounts,   \* LP shares a provider burns
    Consensus       \* the address of ConsensusOracle

ASSUME FundsAssumption == Funds \in [Accounts -> Nat] /\ Funds[AMM] = 0 /\ Funds[Vault] = 0
ASSUME ConsensusAssumption == Consensus \in Oracles
ASSUME InputsAssumption == TradeAmounts \subseteq Nat /\ ShareAmounts \subseteq Nat

(* The wallets approve Exchange and AMM when they are set up.              *)
Init ==
    /\ usdc = Funds
    /\ pot = 0
    /\ balanceOf = [a \in Accounts |-> [c \in Conditions |-> NoPayout]]
    /\ isApprovedForAll = [a \in Accounts |-> IF a \in Holders THEN Operators ELSE {}]
    /\ prepared = {}
    /\ payoutNumerators = [c \in Conditions |-> NoPayout]
    /\ payoutDenominator = [c \in Conditions |-> 0]
    /\ VaultInit
    /\ BookInit
    /\ AMMInit
    /\ FactoryInit

(* The end of each of ConsensusOracle's routes.                            *)
_resolve(c, o) ==
    /\ now >= closeTime[c]
    /\ reportPayouts(Consensus, c, Only(o, 1))

LedgerCalls ==
    \/ \E c \in Conditions : prepareCondition(c)
    \/ \E a \in Holders, c \in Conditions, n \in Amounts :
          \/ splitPosition(a, c, n)
          \/ mergePositions(a, c, n)
          \/ \E o \in Outcomes : redeemPositions(a, c, o, n)
    \/ \E a \in Holders, b \in Operators, approved \in BOOLEAN : setApprovalForAll(a, b, approved)
    \/ \E a \in Holders, r \in Holders \cup {AMM}, c \in Conditions, o \in Outcomes, n \in Amounts :
          safeTransferFrom(a, a, r, c, o, n)
    \/ \E s \in Oracles \ {Consensus}, c \in Conditions, v \in PayoutVectors : reportPayouts(s, c, v)
    \/ \E c \in Conditions, o \in Outcomes : _resolve(c, o)

PoolCalls ==
    \/ \E c \in Conditions, n \in SeedAmounts, a \in Holders : seedPoolFor(c, n, a)
    \/ \E enabled \in BOOLEAN : setCloseGate(enabled)
    \/ \E a \in Holders, c \in Conditions, n \in TradeAmounts :
          \/ \E o \in Outcomes : buyWithUSDC(a, c, o, n) \/ sellToUSDC(a, c, o, n)
          \/ addLiquidity(a, c, n)
    \/ \E a \in Holders, c \in Conditions, k \in ShareAmounts : removeLiquidity(a, c, k)

Next ==
    \/ LedgerCalls /\ UNCHANGED <<now, revenueVars, bookVars, ammVars, factoryVars>>
    \/ (HolderCalls \/ Tick) /\ UNCHANGED <<bookVars, ammVars, factoryVars>>
    \/ \E a \in Holders, n \in Amounts :
          SendUSDC(a, Vault, n) /\ UNCHANGED <<bookVars, ammVars, factoryVars>>
    \/ BookCalls /\ UNCHANGED <<ammVars, factoryVars>>
    \/ PoolCalls /\ UNCHANGED <<bookVars, factoryVars>>
    \/ ListingCalls /\ UNCHANGED bookVars

Spec == Init /\ [][Next]_venueVars

(* Of all the contracts that share the USDC only the vault's claim takes   *)
(* any of the vault's, and none touches its OU: with what the vault        *)
(* promises on that supposition (VenueProofs), its promises hold here.     *)
VaultIsolated == VaultSpec

(* The storage of the five contracts: no balance goes below zero.          *)
VenueTypeOK == CTFTypeOK /\ VaultTypeOK /\ BookTypeOK /\ AMMTypeOK /\ FactoryTypeOK
=============================================================================
