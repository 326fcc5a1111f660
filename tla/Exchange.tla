------------------------------ MODULE Exchange ------------------------------
(***************************************************************************)
(* contracts/src/Exchange.vy: the settlement of signed orders.  Anyone may *)
(* match two orders that cross; the taker pays a fee to the vault.         *)
(*                                                                         *)
(* The EIP-712 signature of an order is its membership of Orders, and its  *)
(* digest is its id: two ids may carry the same terms under other salts.   *)
(***************************************************************************)
EXTENDS FeeVault

CONSTANTS
    ExchangeAddress,    \* an operator that sellers approve on the ledger
    Orders,             \* ids of signed orders
    Terms,              \* id -> [maker, isBuy, condition, outcome, price, amount, nonce, expiry]
    ExchangeOperator,   \* the key that may cancel for others
    TAKER_FEE_BPS,
    BPS_DENOM,
    PRICE_SCALE

ASSUME ExchangeAssumption == ExchangeAddress \in Operators
ASSUME TermsAssumption ==
    Terms \in [Orders -> [maker : Holders, isBuy : BOOLEAN, condition : Conditions, outcome : Outcomes,
                          price : Nat, amount : Nat, nonce : Nat, expiry : Nat]]
ASSUME ScalesAssumption ==
    /\ TAKER_FEE_BPS \in Nat /\ BPS_DENOM \in Nat \ {0} /\ PRICE_SCALE \in Nat \ {0}
    /\ TAKER_FEE_BPS <= BPS_DENOM

VARIABLES
    filled,     \* digest -> amount filled
    cancelled,  \* digests cancelled on chain
    nonces,     \* maker -> the nonce its orders must carry
    settled     \* history: digest -> [fills, paid], its fills and the USDC its maker paid or received

bookVars == <<filled, cancelled, nonces, settled>>

BookTypeOK ==
    /\ filled \in [Orders -> Nat]
    /\ cancelled \subseteq Orders
    /\ nonces \in [Holders -> Nat]
    /\ settled \in [Orders -> [fills : Nat, paid : Nat]]

BookInit ==
    /\ filled = [o \in Orders |-> 0]
    /\ cancelled = {}
    /\ nonces = [a \in Holders |-> 0]
    /\ settled = [o \in Orders |-> [fills |-> 0, paid |-> 0]]
----------------------------------------------------------------------------
_validate(o) ==
    /\ Terms[o].amount > 0 /\ Terms[o].price > 0
    /\ now <= Terms[o].expiry
    /\ Terms[o].nonce = nonces[Terms[o].maker]
    /\ o \notin cancelled

cancelOrder(caller, o) ==
    /\ caller = Terms[o].maker \/ caller = ExchangeOperator
    /\ cancelled' = cancelled \cup {o}
    /\ UNCHANGED <<vaultVars, filled, nonces, settled>>

incrementNonce(a) ==
    /\ nonces' = [nonces EXCEPT ![a] = @ + 1]
    /\ UNCHANGED <<vaultVars, filled, cancelled, settled>>

(* Wrong: rounded up, against the buyer.                                   *)
VolumeUp(t, m, fill) == (fill * Terms[m].price + PRICE_SCALE - 1) \div PRICE_SCALE

(* A fill settles at the resting order's price; both divisions round down. *)
Volume(t, m, fill) == (fill * Terms[m].price) \div PRICE_SCALE
TakerFee(volume) == (volume * TAKER_FEE_BPS) \div BPS_DENOM

Crosses(t, m) ==
    /\ Terms[t].condition = Terms[m].condition
    /\ Terms[t].outcome = Terms[m].outcome
    /\ Terms[t].isBuy # Terms[m].isBuy
    /\ IF Terms[t].isBuy THEN Terms[t].price >= Terms[m].price ELSE Terms[m].price >= Terms[t].price

Count(o, usdcOf) == [fills |-> settled[o].fills + 1, paid |-> settled[o].paid + usdcOf]

(* Wrong: the fee leg is paid to the buyer.                                *)
FeeLegReversed(b, buyer, fee) == Paid(b, Vault, buyer, fee)

FeeLeg(b, buyer, fee) == Paid(b, buyer, Vault, fee)

(* The seller's proceeds, then the fee, leave the buyer; then the tokens   *)
(* go the other way by the approval the seller gave this contract.  A      *)
(* maker may cross an order of its own.                                    *)
matchOrders(t, m, fill) ==
    LET buy == IF Terms[t].isBuy THEN t ELSE m
        sell == IF Terms[t].isBuy THEN m ELSE t
        buyer == Terms[buy].maker
        seller == Terms[sell].maker
        volume == Volume(t, m, fill)
        fee == TakerFee(volume)
        proceeds == IF sell = t THEN volume - fee ELSE volume
        c == Terms[t].condition
        afterProceeds == Paid(usdc, buyer, seller, proceeds)
    IN  /\ fill > 0
        /\ ~isResolved(c)
        /\ Crosses(t, m)
        /\ _validate(t) /\ _validate(m)
        /\ filled[t] + fill <= Terms[t].amount
        /\ filled[m] + fill <= Terms[m].amount
        /\ usdc[buyer] >= proceeds
        /\ afterProceeds[buyer] >= fee
        /\ ExchangeAddress \in isApprovedForAll[seller]
        /\ balanceOf[seller][c][Terms[t].outcome] >= fill
        /\ filled' = [filled EXCEPT ![t] = @ + fill, ![m] = @ + fill]
        /\ settled' = [settled EXCEPT ![buy] = Count(buy, IF buy = t THEN volume + fee ELSE volume),
                                      ![sell] = Count(sell, proceeds)]
        /\ usdc' = FeeLeg(afterProceeds, buyer, fee)
        /\ balanceOf' = Moved(seller, buyer, c, Terms[t].outcome, fill)
        /\ UNCHANGED <<pot, isApprovedForAll, prepared, payoutVars, now, revenueVars, cancelled, nonces>>

BookCalls ==
    \/ \E a \in Holders, o \in Orders : cancelOrder(a, o)
    \/ \E a \in Holders : incrementNonce(a)
    \/ \E t, m \in Orders, n \in Amounts : matchOrders(t, m, n)
----------------------------------------------------------------------------
(* Every fill rounds its volume down, at the maker's price, and charges    *)
(* the taker rounded down as well.  Over all its fills, as maker and as    *)
(* taker, a buyer never pays more than its limit and the fee on it; a      *)
(* seller never receives less than its limit less the fee on it by a whole *)
(* unit per fill.                                                          *)
LimitHonoured ==
    \A o \in Orders :
        LET atLimit == filled[o] * Terms[o].price
            scale == PRICE_SCALE * BPS_DENOM
        IN  IF Terms[o].isBuy
            THEN settled[o].paid * scale <= atLimit * (BPS_DENOM + TAKER_FEE_BPS)
            ELSE (settled[o].paid + settled[o].fills) * scale >= atLimit * (BPS_DENOM - TAKER_FEE_BPS)
=============================================================================
