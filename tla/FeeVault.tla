------------------------------ MODULE FeeVault ------------------------------
(***************************************************************************)
(* contracts/src/FeeVault.vy and the revenue token OU it redeems           *)
(* (contracts/src/RevenueToken.vy).  The vault's USDC is whatever was paid *)
(* to its address; a holder locks OU in it, waits for the cooldown, and    *)
(* burns them for their share of that USDC.                                *)
(*                                                                         *)
(* Allowances of USDC and OU are not state here: a call whose caller has   *)
(* not approved enough reverts, so transferFrom is the owner's transfer.   *)
(***************************************************************************)
EXTENDS ConditionalTokens

CONSTANTS
    Vault,          \* the address of this contract
    Holders,        \* accounts that hold OU and call the vault
    cooldown,       \* constructor argument, in units of block time
    InitialSupply,  \* OU minted to the treasury at deployment
    InitialOU,      \* OU of each holder at the start, out of the treasury
    MaxTime         \* bound on block time

ASSUME VaultAssumption == Vault \in Accounts \ Holders /\ Holders \subseteq Accounts
ASSUME CooldownAssumption == cooldown \in Nat /\ MaxTime \in Nat
ASSUME SupplyAssumption == InitialOU \in Nat /\ InitialSupply \in Nat
ASSUME TreasuryAssumption == InitialSupply >= MapThenSumSet(LAMBDA a : InitialOU, Holders)

VARIABLES
    now,            \* block.timestamp
    ou,             \* RevenueToken.balanceOf
    ouSupply,       \* RevenueToken.totalSupply
    requests,       \* holder -> [amount, availableAt]
    quoted          \* history: what previewRedeem said when the request was made

revenueVars == <<ou, ouSupply, requests, quoted>>
vaultVars == <<ctfVars, now, revenueVars>>

NoRequest == [amount |-> 0, availableAt |-> 0]

VaultTypeOK ==
    /\ usdc \in [Accounts -> Nat]
    /\ now \in Nat
    /\ ou \in [Holders \cup {Vault} -> Nat]
    /\ ouSupply \in Nat
    /\ requests \in [Holders -> [amount : Nat, availableAt : Nat]]
    /\ quoted \in [Holders -> Nat]

VaultInit ==
    /\ now = 0
    /\ ou = [a \in Holders \cup {Vault} |-> IF a = Vault THEN 0 ELSE InitialOU]
    /\ ouSupply = InitialSupply
    /\ requests = [a \in Holders |-> NoRequest]
    /\ quoted = [a \in Holders |-> 0]

(* An ERC-20 transfer, the debit before the credit.                        *)
Paid(b, sender, receiver, n) ==
    LET debited == [b EXCEPT ![sender] = @ - n]
    IN  [debited EXCEPT ![receiver] = @ + n]

(* Vyper's // reverts when the divisor is zero; both views answer 0 then.  *)
previewRedeem(n) == IF ouSupply = 0 THEN 0 ELSE (n * usdc[Vault]) \div ouSupply
----------------------------------------------------------------------------
(* RevenueToken.transfer; the vault's own OU move only in its own calls.   *)
transfer(a, b, n) ==
    /\ ou[a] >= n
    /\ ou' = Paid(ou, a, b, n)
    /\ UNCHANGED <<ctfVars, now, ouSupply, requests, quoted>>

burn(a, n) ==
    /\ ou[a] >= n
    /\ ouSupply >= n
    /\ ou' = [ou EXCEPT ![a] = @ - n]
    /\ ouSupply' = ouSupply - n
    /\ UNCHANGED <<ctfVars, now, requests, quoted>>

requestRedeem(a, n) ==
    /\ n > 0
    /\ requests[a].amount = 0
    /\ ou[a] >= n
    /\ ou' = Paid(ou, a, Vault, n)
    /\ requests' = [requests EXCEPT ![a] = [amount |-> n, availableAt |-> now + cooldown]]
    /\ quoted' = [quoted EXCEPT ![a] = previewRedeem(n)]
    /\ UNCHANGED <<ctfVars, now, ouSupply>>

(* Wrong: the share is rounded up.                                         *)
ShareUp(n) == (n * usdc[Vault] + ouSupply - 1) \div ouSupply

(* Wrong: the share of the supply that is left after the burn.             *)
ShareAfterBurn(n) ==
    IF ouSupply = n THEN usdc[Vault] ELSE Min({usdc[Vault], (n * usdc[Vault]) \div (ouSupply - n)})

(* What claim pays for n OU, read before they are burnt.                   *)
Share(n) == (n * usdc[Vault]) \div ouSupply

claim(a) ==
    LET n == requests[a].amount
    IN  /\ n > 0
        /\ now >= requests[a].availableAt
        /\ ouSupply >= n
        /\ ou[Vault] >= n
        /\ usdc[Vault] >= Share(n)
        /\ requests' = [requests EXCEPT ![a] = NoRequest]
        /\ quoted' = [quoted EXCEPT ![a] = 0]
        /\ ou' = [ou EXCEPT ![Vault] = @ - n]
        /\ ouSupply' = ouSupply - n
        /\ usdc' = Paid(usdc, Vault, a, Share(n))
        /\ UNCHANGED <<pot, balanceOf, isApprovedForAll, prepared, payoutVars, now>>

HolderCalls ==
    \E a \in Holders :
        \/ \E b \in Holders \cup {Vault}, n \in Amounts : transfer(a, b, n)
        \/ \E n \in Amounts : burn(a, n) \/ requestRedeem(a, n)
        \/ claim(a)

(* A block later.                                                          *)
Tick ==
    /\ now < MaxTime
    /\ now' = now + 1
    /\ UNCHANGED <<ctfVars, revenueVars>>

(* The USDC contract, external: an account sends some of its own, to the   *)
(* vault for one.  The vault's code makes no transfer but the one of claim.*)
SendUSDC(a, b, n) ==
    /\ a # Vault
    /\ usdc[a] >= n
    /\ usdc' = Paid(usdc, a, b, n)
    /\ UNCHANGED <<pot, balanceOf, isApprovedForAll, prepared, payoutVars, now, revenueVars>>

(* What the vault supposes of everybody else: they may move USDC as they   *)
(* like, but take none from it and leave OU and requests alone.            *)
Elsewhere ==
    /\ usdc' \in [Accounts -> Nat]
    /\ usdc'[Vault] >= usdc[Vault]
    /\ UNCHANGED <<now, revenueVars>>

VaultNext == Elsewhere \/ HolderCalls \/ Tick

VaultSpec ==
    /\ usdc \in [Accounts -> Nat]
    /\ VaultInit
    /\ [][VaultNext]_<<usdc, now, revenueVars>>
----------------------------------------------------------------------------
(* "FeeVault NAV reads its USDC balance, so a plain transfer accrues to OU *)
(* holders" (MarketFactory.vy): no step, a redemption included, lowers the *)
(* USDC behind one OU.  The share is rounded down and measured before the  *)
(* burn.                                                                   *)
NavNeverFalls == [][usdc'[Vault] * ouSupply >= usdc[Vault] * ouSupply']_<<usdc, now, revenueVars>>

(* Whoever waits for the cooldown loses nothing by it: a request is worth  *)
(* at least what was quoted for it, whoever else redeems, burns or pays in *)
(* between (requests[a].amount OU of a supply of ouSupply, in cross        *)
(* products).                                                              *)
QuoteHolds ==
    \A a \in Holders : requests[a].amount * usdc[Vault] >= quoted[a] * ouSupply
=============================================================================
