------------------------- MODULE ConditionalTokens -------------------------
(***************************************************************************)
(* contracts/src/ConditionalTokens.vy: the outcome-token ledger.  Every    *)
(* condition shares one USDC pot.  A split locks collateral and mints one  *)
(* YES and one NO; a merge undoes it; once the condition's oracle has      *)
(* reported payouts, a redemption burns tokens for their share.            *)
(*                                                                         *)
(* A condition id is keccak(oracle, questionId), so the id fixes the       *)
(* oracle: OracleOf is a constant.  A position id is the pair <<condition, *)
(* outcome>>.  Each action is one transaction; a failed assert reverts it, *)
(* so the asserts are its guards (the ledger subtractions too: uint256     *)
(* underflow reverts).                                                     *)
(***************************************************************************)
EXTENDS Integers, FiniteSetsExt

CONSTANTS
    Accounts,       \* addresses that hold USDC and outcome tokens
    Conditions,     \* condition ids
    Operators,      \* addresses that holders may approve (an Exchange, an AMM)
    Oracles,        \* addresses that conditions name as their oracle
    OracleOf,       \* the oracle each condition id commits to
    Amounts,        \* token amounts a caller may pass
    PayoutVectors,  \* payout vectors an oracle that is an EOA may report
    InitialUSDC     \* USDC of each account at the start

YES == 0
NO == 1
Outcomes == {YES, NO}

ASSUME FiniteAssumption == IsFiniteSet(Accounts) /\ IsFiniteSet(Conditions)
ASSUME OracleOfAssumption == OracleOf \in [Conditions -> Oracles]
ASSUME OperatorsAssumption == Operators \subseteq Accounts
ASSUME AmountsAssumption == Amounts \subseteq Nat
ASSUME PayoutVectorsAssumption == PayoutVectors \subseteq [Outcomes -> Nat]
ASSUME InitialUSDCAssumption == InitialUSDC \in Nat

VARIABLES
    usdc,               \* external ERC-20: USDC of each account
    pot,                \* external ERC-20: USDC of the ConditionalTokens contract
    balanceOf,          \* outcome tokens: account -> condition -> outcome -> amount
    isApprovedForAll,   \* owner -> set of approved operators
    prepared,           \* conditions with outcomeSlots = 2 (and so oracles # empty)
    payoutNumerators,   \* condition -> outcome -> numerator
    payoutDenominator   \* condition -> sum of the numerators, 0 while unresolved

tokenVars == <<usdc, pot, balanceOf, isApprovedForAll, prepared>>
payoutVars == <<payoutNumerators, payoutDenominator>>
ctfVars == <<usdc, pot, balanceOf, isApprovedForAll, prepared, payoutNumerators, payoutDenominator>>

NoPayout == [o \in Outcomes |-> 0]

(* No balance goes below zero: the uint256 subtractions of the contract    *)
(* are all guarded.                                                        *)
CTFTypeOK ==
    /\ usdc \in [Accounts -> Nat]
    /\ pot \in Nat
    /\ balanceOf \in [Accounts -> [Conditions -> [Outcomes -> Nat]]]
    /\ isApprovedForAll \in [Accounts -> SUBSET Operators]
    /\ prepared \subseteq Conditions
    /\ payoutNumerators \in [Conditions -> [Outcomes -> Nat]]
    /\ payoutDenominator \in [Conditions -> Nat]

CTFInit ==
    /\ usdc = [a \in Accounts |-> InitialUSDC]
    /\ pot = 0
    /\ balanceOf = [a \in Accounts |-> [c \in Conditions |-> NoPayout]]
    /\ isApprovedForAll = [a \in Accounts |-> {}]
    /\ prepared = {}
    /\ payoutNumerators = [c \in Conditions |-> NoPayout]
    /\ payoutDenominator = [c \in Conditions |-> 0]

isResolved(c) == payoutDenominator[c] > 0
----------------------------------------------------------------------------
(* Anyone may prepare a condition id, once.                                *)
prepareCondition(c) ==
    /\ c \notin prepared
    /\ prepared' = prepared \cup {c}
    /\ UNCHANGED <<usdc, pot, balanceOf, isApprovedForAll, payoutVars>>

splitPosition(a, c, n) ==
    /\ c \in prepared
    /\ ~isResolved(c)
    /\ usdc[a] >= n
    /\ usdc' = [usdc EXCEPT ![a] = @ - n]
    /\ pot' = pot + n
    /\ balanceOf' = [balanceOf EXCEPT ![a][c] = [o \in Outcomes |-> @[o] + n]]
    /\ UNCHANGED <<isApprovedForAll, prepared, payoutVars>>

mergePositions(a, c, n) ==
    /\ ~isResolved(c)
    /\ \A o \in Outcomes : balanceOf[a][c][o] >= n
    /\ pot >= n
    /\ balanceOf' = [balanceOf EXCEPT ![a][c] = [o \in Outcomes |-> @[o] - n]]
    /\ pot' = pot - n
    /\ usdc' = [usdc EXCEPT ![a] = @ + n]
    /\ UNCHANGED <<isApprovedForAll, prepared, payoutVars>>

(* What n tokens of outcome o pay: integer division rounds down.           *)
Payout(c, o, n) == (n * payoutNumerators[c][o]) \div payoutDenominator[c]

redeemPositions(a, c, o, n) ==
    /\ isResolved(c)
    /\ balanceOf[a][c][o] >= n
    /\ pot >= Payout(c, o, n)
    /\ balanceOf' = [balanceOf EXCEPT ![a][c][o] = @ - n]
    /\ pot' = pot - Payout(c, o, n)
    /\ usdc' = [usdc EXCEPT ![a] = @ + Payout(c, o, n)]
    /\ UNCHANGED <<isApprovedForAll, prepared, payoutVars>>

(* Wrong: an oracle may report twice ("already resolved" not asserted).    *)
reportPayoutsAgain(sender, c, p) ==
    /\ c \in prepared
    /\ sender = OracleOf[c]
    /\ p[YES] + p[NO] > 0
    /\ payoutNumerators' = [payoutNumerators EXCEPT ![c] = p]
    /\ payoutDenominator' = [payoutDenominator EXCEPT ![c] = p[YES] + p[NO]]
    /\ UNCHANGED tokenVars

(* msg.sender must be the oracle stored at preparation: an unprepared      *)
(* condition has none.                                                     *)
reportPayouts(sender, c, p) ==
    /\ c \in prepared
    /\ sender = OracleOf[c]
    /\ ~isResolved(c)
    /\ p[YES] + p[NO] > 0
    /\ payoutNumerators' = [payoutNumerators EXCEPT ![c] = p]
    /\ payoutDenominator' = [payoutDenominator EXCEPT ![c] = p[YES] + p[NO]]
    /\ UNCHANGED tokenVars

setApprovalForAll(a, operator, approved) ==
    /\ isApprovedForAll' = [isApprovedForAll EXCEPT ![a] =
                              IF approved THEN @ \cup {operator} ELSE @ \ {operator}]
    /\ UNCHANGED <<usdc, pot, balanceOf, prepared, payoutVars>>

(* The two ledger writes in order, so that sender = receiver is covered.   *)
Moved(sender, receiver, c, o, n) ==
    LET debited == [balanceOf EXCEPT ![sender][c][o] = @ - n]
    IN  [debited EXCEPT ![receiver][c][o] = @ + n]

(* Wrong: unchecked subtraction from the sender's balance.                 *)
safeTransferFromUnchecked(caller, sender, receiver, c, o, n) ==
    /\ caller = sender \/ caller \in isApprovedForAll[sender]
    /\ balanceOf' = Moved(sender, receiver, c, o, n)
    /\ UNCHANGED <<usdc, pot, isApprovedForAll, prepared, payoutVars>>

safeTransferFrom(caller, sender, receiver, c, o, n) ==
    /\ caller = sender \/ caller \in isApprovedForAll[sender]
    /\ balanceOf[sender][c][o] >= n
    /\ balanceOf' = Moved(sender, receiver, c, o, n)
    /\ UNCHANGED <<usdc, pot, isApprovedForAll, prepared, payoutVars>>

(* The calls any account can make.                                         *)
HolderStep ==
    \/ \E c \in Conditions : prepareCondition(c)
    \/ \E a \in Accounts, c \in Conditions, n \in Amounts :
          \/ splitPosition(a, c, n)
          \/ mergePositions(a, c, n)
          \/ \E o \in Outcomes : redeemPositions(a, c, o, n)
    \/ \E a \in Accounts, b \in Operators, approved \in BOOLEAN :
          setApprovalForAll(a, b, approved)
    \/ \E a, s, r \in Accounts, c \in Conditions, o \in Outcomes, n \in Amounts :
          safeTransferFrom(a, s, r, c, o, n)

----------------------------------------------------------------------------
(* Tokens of outcome o of condition c in all hands.  The contract keeps no *)
(* total supply: nothing in it can notice that these drift apart.          *)
Supply(c, o) == MapThenSumSet(LAMBDA a : balanceOf[a][c][o], Accounts)

(* The most that the holders of c can still take out of the pot, rounded   *)
(* up: a pair is worth 1 before the resolution, and the outcome of which   *)
(* more is out may win.                                                    *)
Owed(c) ==
    IF isResolved(c)
    THEN (Supply(c, YES) * payoutNumerators[c][YES]
            + Supply(c, NO) * payoutNumerators[c][NO]
            + payoutDenominator[c] - 1) \div payoutDenominator[c]
    ELSE Max({Supply(c, o) : o \in Outcomes})

(* The shared pot covers what every holder of every condition can claim,   *)
(* whatever the oracles report (a split payout that does not divide the    *)
(* amounts included), in whatever order positions are split, merged, moved *)
(* (to oneself included), traded and redeemed: no token is made without    *)
(* its collateral, and no condition is redeemed out of another one's.      *)
Solvent == pot >= MapThenSumSet(Owed, Conditions)
=============================================================================
