---------------------------- MODULE VenueProofs ----------------------------
(***************************************************************************)
(* The contracts that hold money, for every number of accounts, conditions *)
(* and orders, every amount, price, fee and curve, cooldown and vault, and *)
(* every order of the calls.                                               *)
(***************************************************************************)
EXTENDS Venue, FiniteSums
----------------------------------------------------------------------------
(* The vault alone.  Nothing that happens to it, a redemption included,    *)
(* lowers the USDC behind one OU, and a pending request never becomes      *)
(* worth less than its quote.  The environment may move USDC as it likes   *)
(* as long as it takes none from the vault; that the other contracts do    *)
(* not is VaultIsolated.                                                   *)

(* Integer division as the vault uses it: natural, and never more than the *)
(* exact share.                                                            *)
LEMMA DivisionRoundsDown ==
    ASSUME NEW x \in Nat, NEW d \in Nat \ {0}
    PROVE  x \div d \in Nat /\ (x \div d) * d <= x
<1> DEFINE q == x \div d
<1>1. q \in Nat /\ x = d * q + (x % d) /\ x % d \in 0..(d - 1)
  OBVIOUS
<1> HIDE DEF q
<1>2. d * q = q * d
  BY <1>1
<1>3. q * d <= x
  BY <1>1, <1>2
<1> QED BY <1>1, <1>3 DEF q

LEMMA ProductsOrdered ==
    ASSUME NEW x \in Nat, NEW y \in Nat, NEW k \in Nat, x <= y
    PROVE  x * k <= y * k
OBVIOUS

LEMMA ProductsCancel ==
    ASSUME NEW x \in Nat, NEW y \in Nat, NEW k \in Nat \ {0}, x * k <= y * k
    PROVE  x <= y
OBVIOUS

(* A claim of n OU out of a supply of s, with u USDC in the vault, leaves  *)
(* at least the same USDC behind each OU that is left.                     *)
LEMMA ShareIsFair ==
    ASSUME NEW n \in Nat, NEW s \in Nat \ {0}, NEW u \in Nat, n <= s,
           NEW paid \in Nat, paid * s <= n * u, paid <= u
    PROVE  (u - paid) * s >= u * (s - n)
<1>1. (u - paid) * s = u * s - paid * s
  OBVIOUS
<1>2. u * (s - n) = u * s - n * u
  OBVIOUS
<1>3. u * s \in Nat /\ paid * s \in Nat /\ n * u \in Nat
  OBVIOUS
<1> QED BY <1>1, <1>2, <1>3

(* The same for a request of r OU quoted at q: it keeps its worth.         *)
LEMMA QuoteSurvivesClaim ==
    ASSUME NEW n \in Nat, NEW s \in Nat \ {0}, NEW u \in Nat, n <= s,
           NEW paid \in Nat, paid * s <= n * u, paid <= u,
           NEW r \in Nat, NEW q \in Nat, r * u >= q * s
    PROVE  r * (u - paid) >= q * (s - n)
<1> DEFINE left == u - paid
           rest == s - n
<1>1. left \in Nat /\ rest \in Nat
  OBVIOUS
<1>2. u * rest <= left * s
  BY ShareIsFair
<1> HIDE DEF left, rest
<1>3. (q * s) * rest <= (r * u) * rest
  BY <1>1, ProductsOrdered, q * s \in Nat, r * u \in Nat
<1>4. (u * rest) * r <= (left * s) * r
  BY <1>1, <1>2, ProductsOrdered, u * rest \in Nat, left * s \in Nat
<1>5. /\ (q * s) * rest = (q * rest) * s
      /\ (r * u) * rest = (u * rest) * r
      /\ (left * s) * r = (r * left) * s
  BY <1>1
<1>6. (q * rest) * s <= (r * left) * s
  <2>1. /\ (q * s) * rest \in Nat /\ (r * u) * rest \in Nat
        /\ (left * s) * r \in Nat
    BY <1>1
  <2> QED BY <1>3, <1>4, <1>5, <2>1
<1>7. q * rest <= r * left
  BY <1>1, <1>6, ProductsCancel, q * rest \in Nat, r * left \in Nat
<1> QED BY <1>7, <1>1, q * rest \in Nat, r * left \in Nat DEF left, rest

(* A transfer among accounts that hold it moves n and makes nothing.       *)
LEMMA PaidTyped ==
    ASSUME NEW S, NEW b \in [S -> Nat], NEW x \in S, NEW y \in S, NEW n \in Nat, b[x] >= n
    PROVE  Paid(b, x, y, n) \in [S -> Nat]
<1> DEFINE debited == [b EXCEPT ![x] = @ - n]
<1>1. debited \in [S -> Nat]
  OBVIOUS
<1> HIDE DEF debited
<1>2. [debited EXCEPT ![y] = @ + n] \in [S -> Nat]
  BY <1>1
<1> QED BY <1>2 DEF Paid, debited

(* What a claim pays: a natural number, at most the exact share.           *)
LEMMA ShareTyped ==
    ASSUME VaultTypeOK, NEW n \in Nat, ouSupply # 0
    PROVE  Share(n) \in Nat /\ Share(n) * ouSupply <= n * usdc[Vault]
<1>1. ouSupply \in Nat \ {0} /\ n * usdc[Vault] \in Nat
  BY VaultAssumption DEF VaultTypeOK
<1> QED BY <1>1, DivisionRoundsDown DEF Share

LEMMA PreviewTyped ==
    ASSUME VaultTypeOK, NEW n \in Nat
    PROVE  previewRedeem(n) \in Nat /\ previewRedeem(n) * ouSupply <= n * usdc[Vault]
<1>1. ouSupply \in Nat /\ n * usdc[Vault] \in Nat
  BY VaultAssumption DEF VaultTypeOK
<1>2. CASE ouSupply = 0
  BY <1>1, <1>2 DEF previewRedeem
<1>3. CASE ouSupply # 0
  BY <1>1, <1>3, DivisionRoundsDown DEF previewRedeem
<1> QED BY <1>2, <1>3

LEMMA VaultTypeStep == VaultTypeOK /\ [VaultNext]_<<usdc, now, revenueVars>> => VaultTypeOK'
<1> SUFFICES ASSUME VaultTypeOK, [VaultNext]_<<usdc, now, revenueVars>> PROVE VaultTypeOK'
  OBVIOUS
<1> USE VaultAssumption, CooldownAssumption, AmountsAssumption
<1>1. ASSUME NEW a \in Holders, NEW b \in Holders \cup {Vault}, NEW n \in Amounts, transfer(a, b, n)
      PROVE  VaultTypeOK'
  <2>1. Paid(ou, a, b, n) \in [Holders \cup {Vault} -> Nat]
    BY <1>1, PaidTyped DEF transfer, VaultTypeOK
  <2> QED BY <1>1, <2>1 DEF transfer, ctfVars, VaultTypeOK
<1>2. ASSUME NEW a \in Holders, NEW n \in Amounts, burn(a, n)
      PROVE  VaultTypeOK'
  BY <1>2 DEF burn, ctfVars, VaultTypeOK
<1>3. ASSUME NEW a \in Holders, NEW n \in Amounts, requestRedeem(a, n)
      PROVE  VaultTypeOK'
  <2>1. Paid(ou, a, Vault, n) \in [Holders \cup {Vault} -> Nat]
    BY <1>3, PaidTyped DEF requestRedeem, VaultTypeOK
  <2>2. previewRedeem(n) \in Nat
    BY <1>3, PreviewTyped
  <2>3. [amount |-> n, availableAt |-> now + cooldown] \in [amount : Nat, availableAt : Nat]
    BY DEF VaultTypeOK
  <2>4. requests' \in [Holders -> [amount : Nat, availableAt : Nat]]
    BY <1>3, <2>3 DEF requestRedeem, VaultTypeOK
  <2> QED BY <1>3, <2>1, <2>2, <2>4 DEF requestRedeem, ctfVars, VaultTypeOK
<1>4. ASSUME NEW a \in Holders, claim(a)
      PROVE  VaultTypeOK'
  <2> DEFINE n == requests[a].amount
  <2>1. n \in Nat /\ ouSupply # 0
    BY <1>4 DEF claim, VaultTypeOK
  <2>2. Share(n) \in Nat
    BY <2>1, ShareTyped
  <2>3. Paid(usdc, Vault, a, Share(n)) \in [Accounts -> Nat]
    BY <1>4, <2>2, PaidTyped DEF claim, VaultTypeOK
  <2> QED BY <1>4, <2>1, <2>3 DEF claim, NoRequest, VaultTypeOK
<1>5. CASE Tick
  BY <1>5 DEF Tick, ctfVars, revenueVars, VaultTypeOK
<1>6. CASE Elsewhere
  BY <1>6 DEF Elsewhere, revenueVars, VaultTypeOK
<1>7. CASE UNCHANGED <<usdc, now, revenueVars>>
  BY <1>7 DEF revenueVars, VaultTypeOK
<1> QED BY <1>1, <1>2, <1>3, <1>4, <1>5, <1>6, <1>7 DEF VaultNext, HolderCalls

(* The storage of vault and revenue token, and every account's USDC: no    *)
(* balance, request or quote is ever anything but a natural number.        *)
THEOREM VaultTypeCorrect == VaultSpec => []VaultTypeOK
<1>1. usdc \in [Accounts -> Nat] /\ VaultInit => VaultTypeOK
  BY VaultAssumption, SupplyAssumption DEF VaultInit, NoRequest, VaultTypeOK
<1> QED BY <1>1, VaultTypeStep, PTL DEF VaultSpec

(* What a claim does to the vault's USDC and to the supply.                *)
LEMMA ClaimStep ==
    ASSUME VaultTypeOK, NEW a \in Holders, claim(a)
    PROVE  \E n \in Nat, paid \in Nat :
              /\ ouSupply # 0 /\ n <= ouSupply
              /\ paid * ouSupply <= n * usdc[Vault] /\ paid <= usdc[Vault]
              /\ usdc'[Vault] = usdc[Vault] - paid /\ ouSupply' = ouSupply - n
<1> DEFINE n == requests[a].amount
<1>1. n \in Nat /\ ouSupply # 0 /\ n <= ouSupply /\ ouSupply' = ouSupply - n
  BY DEF claim, VaultTypeOK
<1>2. Share(n) \in Nat /\ Share(n) * ouSupply <= n * usdc[Vault]
  BY <1>1, ShareTyped
<1>3. usdc'[Vault] = usdc[Vault] - Share(n) /\ Share(n) <= usdc[Vault]
  BY <1>2, VaultAssumption DEF claim, Paid, VaultTypeOK
<1> QED BY <1>1, <1>2, <1>3

(* One step of anybody leaves at least as much USDC behind each OU.        *)
LEMMA NavStep ==
    ASSUME VaultTypeOK, [VaultNext]_<<usdc, now, revenueVars>>
    PROVE  usdc'[Vault] * ouSupply >= usdc[Vault] * ouSupply'
<1> USE VaultAssumption, AmountsAssumption
<1>0. usdc[Vault] \in Nat /\ ouSupply \in Nat
  BY DEF VaultTypeOK
<1>1. ASSUME usdc'[Vault] = usdc[Vault], ouSupply' = ouSupply
      PROVE  usdc'[Vault] * ouSupply >= usdc[Vault] * ouSupply'
  <2>1. usdc[Vault] * ouSupply \in Nat
    BY <1>0
  <2> QED BY <1>1, <2>1
<1>2. ASSUME NEW a \in Holders, NEW n \in Amounts, burn(a, n)
      PROVE  usdc'[Vault] * ouSupply >= usdc[Vault] * ouSupply'
  <2>1. usdc' = usdc /\ ouSupply' = ouSupply - n /\ n \in Nat /\ ouSupply >= n
    BY <1>2 DEF burn, ctfVars
  <2>2. (ouSupply - n) * usdc[Vault] <= ouSupply * usdc[Vault]
    BY <1>0, <2>1, ProductsOrdered, ouSupply - n \in Nat, ouSupply - n <= ouSupply
  <2> QED BY <1>0, <2>1, <2>2
<1>3. ASSUME NEW a \in Holders, claim(a)
      PROVE  usdc'[Vault] * ouSupply >= usdc[Vault] * ouSupply'
  BY <1>3, ClaimStep, ShareIsFair, <1>0
<1>4. CASE Elsewhere
  <2>1. usdc'[Vault] \in Nat /\ usdc[Vault] <= usdc'[Vault] /\ ouSupply' = ouSupply
    BY <1>0, <1>4 DEF Elsewhere, revenueVars
  <2>2. usdc[Vault] * ouSupply <= usdc'[Vault] * ouSupply
    BY <1>0, <2>1, ProductsOrdered
  <2> QED BY <1>0, <2>1, <2>2
<1>5. CASE \/ \E a \in Holders, b \in Holders \cup {Vault}, n \in Amounts : transfer(a, b, n)
           \/ \E a \in Holders, n \in Amounts : requestRedeem(a, n)
           \/ Tick
           \/ UNCHANGED <<usdc, now, revenueVars>>
  BY <1>1, <1>5 DEF transfer, requestRedeem, Tick, ctfVars, revenueVars
<1> QED BY <1>2, <1>3, <1>4, <1>5 DEF VaultNext, HolderCalls

(* NavNeverFalls for every instance: what the vault code promises as long  *)
(* as nobody else takes its USDC.                                          *)
THEOREM NavMonotone == VaultSpec => NavNeverFalls
<1>1. VaultTypeOK /\ [VaultNext]_<<usdc, now, revenueVars>>
        => [usdc'[Vault] * ouSupply >= usdc[Vault] * ouSupply']_<<usdc, now, revenueVars>>
  BY NavStep
<1> QED BY <1>1, VaultTypeCorrect, PTL DEF VaultSpec, NavNeverFalls

(* A step preserves the worth of every pending request.                    *)
LEMMA QuoteStep ==
    ASSUME VaultTypeOK, QuoteHolds, [VaultNext]_<<usdc, now, revenueVars>>
    PROVE  QuoteHolds'
<1> USE VaultAssumption, AmountsAssumption
<1> SUFFICES ASSUME NEW h \in Holders
             PROVE  requests'[h].amount * usdc'[Vault] >= quoted'[h] * ouSupply'
  BY DEF QuoteHolds
<1> DEFINE r == requests[h].amount
           q == quoted[h]
           u == usdc[Vault]
           s == ouSupply
<1>0. r \in Nat /\ q \in Nat /\ u \in Nat /\ s \in Nat
  BY DEF VaultTypeOK
<1>00. r * u >= q * s
  BY DEF QuoteHolds
<1> DEFINE Goal == requests'[h].amount * usdc'[Vault] >= quoted'[h] * ouSupply'
<1>1. ASSUME usdc'[Vault] = u, ouSupply' = s, requests'[h] = requests[h], quoted'[h] = q
      PROVE  Goal
  BY <1>1, <1>00
<1>2. ASSUME NEW a \in Holders, NEW n \in Amounts, burn(a, n)
      PROVE  Goal
  <2>1. /\ usdc' = usdc /\ requests' = requests /\ quoted' = quoted
        /\ ouSupply' = s - n /\ n \in Nat /\ s >= n
    BY <1>2 DEF burn, ctfVars
  <2>2. (s - n) * q <= s * q
    BY <1>0, <2>1, ProductsOrdered, s - n \in Nat, s - n <= s
  <2>3. (s - n) * q = q * (s - n) /\ s * q = q * s /\ r * u \in Nat /\ q * s \in Nat /\ q * (s - n) \in Nat
    BY <1>0, <2>1
  <2> QED BY <1>00, <2>1, <2>2, <2>3
<1>3. ASSUME NEW a \in Holders, NEW n \in Amounts, requestRedeem(a, n)
      PROVE  Goal
  <2>1. CASE a = h
    <3>1. /\ usdc' = usdc /\ ouSupply' = s
          /\ requests'[h].amount = n /\ quoted'[h] = previewRedeem(n)
      BY <1>3, <2>1 DEF requestRedeem, ctfVars, VaultTypeOK
    <3>2. previewRedeem(n) * s <= n * u /\ previewRedeem(n) \in Nat
      BY PreviewTyped
    <3>3. n \in Nat
      OBVIOUS
    <3>4. n * u \in Nat /\ previewRedeem(n) * s \in Nat
      BY <1>0, <3>2, <3>3
    <3> QED BY <3>1, <3>2, <3>4
  <2>2. CASE a # h
    BY <1>1, <1>3, <2>2 DEF requestRedeem, ctfVars, VaultTypeOK
  <2> QED BY <2>1, <2>2
<1>4. ASSUME NEW a \in Holders, claim(a)
      PROVE  Goal
  <2>1. CASE a = h
    <3>1. requests'[h].amount = 0 /\ quoted'[h] = 0
      BY <1>4, <2>1 DEF claim, NoRequest, VaultTypeOK
    <3>2. usdc'[Vault] \in Nat /\ ouSupply' \in Nat
      BY VaultTypeStep DEF VaultTypeOK
    <3> QED BY <3>1, <3>2
  <2>2. CASE a # h
    <3>1. requests'[h] = requests[h] /\ quoted'[h] = q
      BY <1>4, <2>2 DEF claim, VaultTypeOK
    <3>2. PICK n \in Nat, paid \in Nat :
            /\ s # 0 /\ n <= s /\ paid * s <= n * u /\ paid <= u
            /\ usdc'[Vault] = u - paid /\ ouSupply' = s - n
      BY <1>4, ClaimStep
    <3>3. r * (u - paid) >= q * (s - n)
      BY <1>0, <1>00, <3>2, QuoteSurvivesClaim
    <3> QED BY <3>1, <3>2, <3>3
  <2> QED BY <2>1, <2>2
<1>5. CASE Elsewhere
  <2>1. /\ usdc'[Vault] \in Nat /\ u <= usdc'[Vault] /\ ouSupply' = s
        /\ requests' = requests /\ quoted' = quoted
    BY <1>0, <1>5 DEF Elsewhere, revenueVars
  <2>2. u * r <= usdc'[Vault] * r
    BY <1>0, <2>1, ProductsOrdered
  <2>3. /\ u * r = r * u /\ usdc'[Vault] * r = r * usdc'[Vault]
        /\ r * u \in Nat /\ q * s \in Nat /\ r * usdc'[Vault] \in Nat
    BY <1>0, <2>1
  <2> QED BY <1>00, <2>1, <2>2, <2>3
<1>6. CASE \/ \E a \in Holders, b \in Holders \cup {Vault}, n \in Amounts : transfer(a, b, n)
           \/ Tick
           \/ UNCHANGED <<usdc, now, revenueVars>>
  BY <1>1, <1>6 DEF transfer, Tick, ctfVars, revenueVars
<1> QED BY <1>2, <1>3, <1>4, <1>5, <1>6 DEF VaultNext, HolderCalls

(* QuoteHolds for every instance: whoever waits for the cooldown is paid   *)
(* no less than the share quoted when the request was made.                *)
THEOREM QuoteIsKept == VaultSpec => []QuoteHolds
<1>1. usdc \in [Accounts -> Nat] /\ VaultInit => QuoteHolds
  <2> SUFFICES ASSUME usdc \in [Accounts -> Nat], VaultInit, NEW h \in Holders
               PROVE  requests[h].amount * usdc[Vault] >= quoted[h] * ouSupply
    BY DEF QuoteHolds
  <2>1. requests[h].amount = 0 /\ quoted[h] = 0 /\ usdc[Vault] \in Nat /\ ouSupply \in Nat
    BY VaultAssumption, SupplyAssumption DEF VaultInit, NoRequest
  <2> QED BY <2>1
<1>2. VaultTypeOK /\ QuoteHolds /\ [VaultNext]_<<usdc, now, revenueVars>> => QuoteHolds'
  BY QuoteStep
<1> QED BY <1>1, <1>2, VaultTypeCorrect, PTL DEF VaultSpec
----------------------------------------------------------------------------
(* All the contracts.                                                      *)

Pool == [exists : BOOLEAN, reserve : [Outcomes -> Nat], lpSupply : Nat,
         liquidity : Nat, lpFees : Nat, closeTime : Nat]

LEMMA Addresses ==
    /\ Vault \in Accounts /\ AMM \in Accounts /\ AMM # Vault
    /\ Vault \notin Holders /\ AMM \notin Holders /\ Holders \subseteq Accounts
    /\ operator \in Holders /\ generator \in Holders
BY VaultAssumption, AMMAssumption, OperatorKey, OperatorsAssumption, CreatorsAssumption

(* What rounds down: a quotient, between the two multiples of the divisor. *)
LEMMA QuotientBounds ==
    ASSUME NEW x \in Int, NEW d \in Nat \ {0}
    PROVE  /\ x \div d \in Int /\ (x >= 0 => x \div d \in Nat)
           /\ (x \div d) * d <= x /\ x < (x \div d) * d + d
<1> DEFINE q == x \div d
<1>1. q \in Int /\ x = d * q + (x % d) /\ x % d \in 0..(d - 1)
  OBVIOUS
<1>2. x >= 0 => q >= 0
  OBVIOUS
<1> HIDE DEF q
<1>3. d * q = q * d /\ q * d \in Int
  BY <1>1
<1> QED BY <1>1, <1>2, <1>3 DEF q

(* A quotient is the largest, or rounded up the smallest, of its kind.     *)
LEMMA QuotientAtLeast ==
    ASSUME NEW x \in Int, NEW d \in Nat \ {0}, NEW k \in Int, k * d <= x
    PROVE  k <= x \div d
<1> DEFINE q == x \div d
<1>1. q \in Int /\ x < q * d + d
  BY QuotientBounds
<1> HIDE DEF q
<1>2. k * d < (q + 1) * d
  BY <1>1, q * d \in Int, k * d \in Int, (q + 1) * d = q * d + d
<1>3. k < q + 1
  BY <1>1, <1>2
<1> QED BY <1>1, <1>3 DEF q

LEMMA QuotientAtMost ==
    ASSUME NEW x \in Int, NEW d \in Nat \ {0}, NEW k \in Int, x <= k * d
    PROVE  x \div d <= k
<1> DEFINE q == x \div d
<1>1. q \in Int /\ q * d <= x
  BY QuotientBounds
<1> HIDE DEF q
<1>2. q * d <= k * d
  BY <1>1, q * d \in Int, k * d \in Int
<1>3. q <= k
  BY <1>1, <1>2
<1> QED BY <1>1, <1>3 DEF q

LEMMA CeilDivIsNat ==
    ASSUME NEW x \in Nat, NEW d \in Nat \ {0}
    PROVE  CeilDiv(x, d) \in Nat
<1>1. x + d - 1 \in Nat
  OBVIOUS
<1> QED BY <1>1, QuotientBounds DEF CeilDiv

LEMMA CeilDivAtMost ==
    ASSUME NEW x \in Int, NEW d \in Nat \ {0}, NEW k \in Int, x <= k * d
    PROVE  CeilDiv(x, d) <= k
<1> DEFINE y == x + d - 1
           q == y \div d
<1>1. y \in Int
  OBVIOUS
<1>2. q \in Int /\ q * d <= y
  BY <1>1, QuotientBounds
<1>3. q * d < (k + 1) * d
  BY <1>2, q * d \in Int, k * d \in Int, (k + 1) * d = k * d + d
<1> HIDE DEF q
<1>4. q < k + 1
  BY <1>2, <1>3
<1> QED BY <1>2, <1>4 DEF q, CeilDiv

LEMMA FeeIsNat ==
    ASSUME NEW n \in Nat, NEW bps \in Nat
    PROVE  _fee(n, bps) \in Nat
BY CeilDivIsNat, AMMFeesAssumption, n * bps \in Nat DEF _fee

(* The pro-rata part of x is no more than x.                               *)
LEMMA PartBounds ==
    ASSUME NEW x \in Nat, NEW k \in Nat, NEW s \in Nat \ {0}, k <= s
    PROVE  (x * k) \div s \in Nat /\ (x * k) \div s <= x
<1>1. x * k \in Nat /\ x * k <= x * s
  <2>1. k * x <= s * x
    BY ProductsOrdered
  <2> QED BY <2>1
<1> QED BY <1>1, QuotientBounds, QuotientAtMost

----------------------------------------------------------------------------
(* What the contract's own transfers do to the balances: typed, and equal  *)
(* to the sums of the transfers at the three accounts they concern.        *)
LEMMA SettleEffect ==
    ASSUME CTFTypeOK, NEW a \in Holders, NEW c \in Conditions,
           NEW in \in Nat, NEW toVault \in Nat, NEW out \in Nat, NEW sets \in Int,
           NEW tokens \in [Outcomes -> Int], Settle(a, c, in, toVault, out, sets, tokens)
    PROVE  /\ usdc' \in [Accounts -> Nat]
           /\ usdc'[AMM] = usdc[AMM] + in - toVault - out - sets
           /\ usdc'[Vault] = usdc[Vault] + toVault
           /\ pot' = pot + sets /\ pot' \in Nat
           /\ balanceOf' \in [Accounts -> [Conditions -> [Outcomes -> Nat]]]
           /\ \A o \in Outcomes : /\ balanceOf'[AMM][c][o] = balanceOf[AMM][c][o] + sets + tokens[o]
                                  /\ balanceOf'[a][c][o] = balanceOf[a][c][o] - tokens[o]
           /\ \A x \in Accounts \ {a, AMM} : balanceOf'[x] = balanceOf[x]
           /\ \A x \in Accounts, d \in Conditions \ {c} : balanceOf'[x][d] = balanceOf[x][d]
<1>0. a \in Accounts /\ a # AMM /\ a # Vault /\ AMM # Vault /\ AMM \in Accounts /\ Vault \in Accounts
  BY Addresses
<1>1. /\ usdc' \in [Accounts -> Nat]
      /\ usdc'[AMM] = usdc[AMM] + in - toVault - out - sets
      /\ usdc'[Vault] = usdc[Vault] + toVault
  <2> DEFINE own == usdc[a] - in + out
             hers == usdc[Vault] + toVault
             its == usdc[AMM] + in - toVault - out - sets
  <2>1. own \in Nat /\ hers \in Nat /\ its \in Nat
    BY <1>0 DEF Settle, CTFTypeOK
  <2>2. usdc' = [usdc EXCEPT ![a] = own, ![Vault] = hers, ![AMM] = its]
    BY <1>0 DEF Settle, CTFTypeOK
  <2> HIDE DEF own, hers, its
  <2>3. usdc' \in [Accounts -> Nat] /\ usdc'[AMM] = its /\ usdc'[Vault] = hers
    BY <1>0, <2>1, <2>2 DEF CTFTypeOK
  <2> QED BY <2>3 DEF hers, its
<1>2. pot' = pot + sets /\ pot' \in Nat
  BY DEF Settle, CTFTypeOK
<1> DEFINE mine == [o \in Outcomes |-> balanceOf[a][c][o] - tokens[o]]
           its == [o \in Outcomes |-> balanceOf[AMM][c][o] + sets + tokens[o]]
<1>3. mine \in [Outcomes -> Nat] /\ its \in [Outcomes -> Nat]
  BY <1>0 DEF Settle, CTFTypeOK
<1>4. balanceOf' = [balanceOf EXCEPT ![AMM][c] = its, ![a][c] = mine]
  BY <1>0 DEF Settle, CTFTypeOK
<1>5. \A o \in Outcomes : /\ its[o] = balanceOf[AMM][c][o] + sets + tokens[o]
                          /\ mine[o] = balanceOf[a][c][o] - tokens[o]
  OBVIOUS
<1> HIDE DEF mine, its
<1>6. /\ balanceOf' \in [Accounts -> [Conditions -> [Outcomes -> Nat]]]
      /\ balanceOf'[AMM][c] = its /\ balanceOf'[a][c] = mine
      /\ \A x \in Accounts \ {a, AMM} : balanceOf'[x] = balanceOf[x]
      /\ \A x \in Accounts, d \in Conditions \ {c} : balanceOf'[x][d] = balanceOf[x][d]
  BY <1>0, <1>3, <1>4 DEF CTFTypeOK
<1> QED BY <1>1, <1>2, <1>5, <1>6

(* A token transfer: n more here, n less there, or nothing at all.         *)
TokensMoved(b, s, r, c, o, n) ==
    /\ b \in [Accounts -> [Conditions -> [Outcomes -> Nat]]]
    /\ \A x \in Accounts \ {s} : b[x][c][o] >= balanceOf[x][c][o]
    /\ s # r => b[s][c][o] = balanceOf[s][c][o] - n /\ b[r][c][o] = balanceOf[r][c][o] + n
    /\ s = r => b = balanceOf
    /\ \A x \in Accounts, d \in Conditions, p \in Outcomes :
          d # c \/ p # o \/ x \notin {s, r} => b[x][d][p] = balanceOf[x][d][p]

LEMMA MovedEffect ==
    ASSUME CTFTypeOK, NEW s \in Accounts, NEW r \in Accounts, NEW c \in Conditions,
           NEW o \in Outcomes, NEW n \in Nat, balanceOf[s][c][o] >= n
    PROVE  TokensMoved(Moved(s, r, c, o, n), s, r, c, o, n)
<1> DEFINE debited == [balanceOf EXCEPT ![s][c][o] = @ - n]
           M == Moved(s, r, c, o, n)
<1>1. /\ debited \in [Accounts -> [Conditions -> [Outcomes -> Nat]]]
      /\ debited[s][c][o] = balanceOf[s][c][o] - n
      /\ \A x \in Accounts, d \in Conditions, p \in Outcomes :
            d # c \/ p # o \/ x # s => debited[x][d][p] = balanceOf[x][d][p]
  BY DEF CTFTypeOK
<1> HIDE DEF debited
<1>2. M = [debited EXCEPT ![r][c][o] = @ + n]
  BY DEF Moved, debited
<1> HIDE DEF M
<1>3. /\ M \in [Accounts -> [Conditions -> [Outcomes -> Nat]]]
      /\ M[r][c][o] = debited[r][c][o] + n
      /\ \A x \in Accounts, d \in Conditions, p \in Outcomes :
            d # c \/ p # o \/ x # r => M[x][d][p] = debited[x][d][p]
  BY <1>1, <1>2
<1>4. balanceOf \in [Accounts -> [Conditions -> [Outcomes -> Nat]]]
  BY DEF CTFTypeOK
<1>5. s # r => M[s][c][o] = balanceOf[s][c][o] - n /\ M[r][c][o] = balanceOf[r][c][o] + n
  BY <1>1, <1>3
<1>6. \A x \in Accounts, d \in Conditions, p \in Outcomes :
         d # c \/ p # o \/ x \notin {s, r} => M[x][d][p] = balanceOf[x][d][p]
  BY <1>1, <1>3
<1>7. \A x \in Accounts \ {s} : M[x][c][o] >= balanceOf[x][c][o]
  <2> SUFFICES ASSUME NEW x \in Accounts \ {s} PROVE M[x][c][o] >= balanceOf[x][c][o]
    OBVIOUS
  <2>1. balanceOf[x][c][o] \in Nat
    BY <1>4
  <2>2. x # r => M[x][c][o] = balanceOf[x][c][o]
    BY <1>6
  <2>3. x = r => M[x][c][o] = balanceOf[x][c][o] + n
    BY <1>5
  <2> QED BY <2>1, <2>2, <2>3
<1>8. ASSUME s = r PROVE M = balanceOf
  <2>1. M[s][c][o] = balanceOf[s][c][o]
    BY <1>1, <1>3, <1>4, <1>8
  <2>2. \A x \in Accounts : \A d \in Conditions : \A p \in Outcomes : M[x][d][p] = balanceOf[x][d][p]
    BY <1>6, <1>8, <2>1
  <2>3. \A x \in Accounts : \A d \in Conditions : M[x][d] = balanceOf[x][d]
    BY <1>3, <1>4, <2>2
  <2>4. \A x \in Accounts : M[x] = balanceOf[x]
    BY <1>3, <1>4, <2>3
  <2> QED BY <1>3, <1>4, <2>4
<1> QED BY <1>3, <1>5, <1>6, <1>7, <1>8 DEF M, TokensMoved

----------------------------------------------------------------------------
LEMMA PayoutTyped ==
    ASSUME CTFTypeOK, NEW c \in Conditions, NEW o \in Outcomes, NEW n \in Nat, isResolved(c)
    PROVE  Payout(c, o, n) \in Nat
<1>1. payoutNumerators[c][o] \in Nat /\ payoutDenominator[c] \in Nat \ {0}
  BY DEF CTFTypeOK, isResolved
<1> DEFINE x == n * payoutNumerators[c][o]
<1>2. x \in Nat
  BY <1>1
<1> HIDE DEF x
<1>3. x \div payoutDenominator[c] \in Nat
  BY <1>1, <1>2, QuotientBounds
<1> QED BY <1>3 DEF Payout, x

(* What neither a call of the ledger nor a match takes from the contracts  *)
(* that hold USDC or tokens for others.                                    *)
NothingTaken ==
    /\ usdc'[Vault] >= usdc[Vault]
    /\ usdc'[AMM] >= usdc[AMM]
    /\ \A c \in Conditions, o \in Outcomes : balanceOf'[AMM][c][o] >= balanceOf[AMM][c][o]

LEMMA SameIsNothingTaken ==
    ASSUME CTFTypeOK, UNCHANGED <<usdc, balanceOf>>
    PROVE  NothingTaken
BY Addresses DEF CTFTypeOK, NothingTaken

LEMMA OnlyTyped ==
    ASSUME NEW o \in Outcomes, NEW n \in Int
    PROVE  Only(o, n) \in [Outcomes -> Int] /\ (n \in Nat => Only(o, n) \in [Outcomes -> Nat])
BY DEF Only

LEMMA ReportTyped ==
    ASSUME CTFTypeOK, NEW s, NEW c \in Conditions, NEW v \in [Outcomes -> Nat], reportPayouts(s, c, v)
    PROVE  CTFTypeOK' /\ NothingTaken
<1>1. v[YES] + v[NO] \in Nat
  BY DEF Outcomes
<1>2. CTFTypeOK'
  BY <1>1 DEF reportPayouts, tokenVars, CTFTypeOK
<1> QED BY <1>2, SameIsNothingTaken DEF reportPayouts, tokenVars

(* Every call of the ledger keeps it typed, and takes nothing from those   *)
(* who do not call.                                                        *)
LEMMA LedgerStep ==
    ASSUME CTFTypeOK, LedgerCalls
    PROVE  CTFTypeOK' /\ NothingTaken
<1> USE AmountsAssumption, Addresses
<1>1. ASSUME NEW c \in Conditions, prepareCondition(c) PROVE CTFTypeOK' /\ NothingTaken
  BY <1>1, SameIsNothingTaken DEF prepareCondition, payoutVars, CTFTypeOK
<1>2. ASSUME NEW a \in Holders, NEW c \in Conditions, NEW n \in Amounts, splitPosition(a, c, n)
      PROVE  CTFTypeOK' /\ NothingTaken
  <2>1. CTFTypeOK'
    BY <1>2 DEF splitPosition, payoutVars, CTFTypeOK
  <2>2. usdc'[Vault] = usdc[Vault] /\ usdc'[AMM] = usdc[AMM] /\ balanceOf'[AMM] = balanceOf[AMM]
    BY <1>2 DEF splitPosition, CTFTypeOK
  <2> QED BY <2>1, <2>2 DEF NothingTaken, CTFTypeOK
<1>3. ASSUME NEW a \in Holders, NEW c \in Conditions, NEW n \in Amounts, mergePositions(a, c, n)
      PROVE  CTFTypeOK' /\ NothingTaken
  <2>1. CTFTypeOK'
    BY <1>3 DEF mergePositions, payoutVars, CTFTypeOK
  <2>2. usdc'[Vault] = usdc[Vault] /\ usdc'[AMM] = usdc[AMM] /\ balanceOf'[AMM] = balanceOf[AMM]
    BY <1>3 DEF mergePositions, CTFTypeOK
  <2> QED BY <2>1, <2>2 DEF NothingTaken, CTFTypeOK
<1>4. ASSUME NEW a \in Holders, NEW c \in Conditions, NEW o \in Outcomes, NEW n \in Amounts,
             redeemPositions(a, c, o, n)
      PROVE  CTFTypeOK' /\ NothingTaken
  <2>0. Payout(c, o, n) \in Nat
    BY <1>4, PayoutTyped DEF redeemPositions
  <2>1. CTFTypeOK'
    BY <1>4, <2>0 DEF redeemPositions, payoutVars, CTFTypeOK
  <2>2. usdc'[Vault] = usdc[Vault] /\ usdc'[AMM] = usdc[AMM] /\ balanceOf'[AMM] = balanceOf[AMM]
    BY <1>4 DEF redeemPositions, CTFTypeOK
  <2> QED BY <2>1, <2>2 DEF NothingTaken, CTFTypeOK
<1>5. ASSUME NEW a \in Holders, NEW b \in Operators, NEW approved \in BOOLEAN, setApprovalForAll(a, b, approved)
      PROVE  CTFTypeOK' /\ NothingTaken
  BY <1>5, SameIsNothingTaken DEF setApprovalForAll, payoutVars, CTFTypeOK
<1>6. ASSUME NEW a \in Holders, NEW r \in Holders \cup {AMM}, NEW c \in Conditions, NEW o \in Outcomes,
             NEW n \in Amounts, safeTransferFrom(a, a, r, c, o, n)
      PROVE  CTFTypeOK' /\ NothingTaken
  <2>1. /\ a \in Accounts /\ r \in Accounts /\ n \in Nat /\ balanceOf[a][c][o] >= n /\ AMM # a
        /\ balanceOf' = Moved(a, r, c, o, n)
    BY <1>6 DEF safeTransferFrom
  <2>2. TokensMoved(balanceOf', a, r, c, o, n)
    BY <2>1, MovedEffect
  <2>3. \A d \in Conditions, p \in Outcomes : balanceOf'[AMM][d][p] >= balanceOf[AMM][d][p]
    <3> SUFFICES ASSUME NEW d \in Conditions, NEW p \in Outcomes
                 PROVE  balanceOf'[AMM][d][p] >= balanceOf[AMM][d][p]
      OBVIOUS
    <3>1. d # c \/ p # o => balanceOf'[AMM][d][p] = balanceOf[AMM][d][p]
      BY <2>2 DEF TokensMoved
    <3>2. balanceOf'[AMM][c][o] >= balanceOf[AMM][c][o]
      BY <2>1, <2>2 DEF TokensMoved
    <3>3. balanceOf[AMM][d][p] \in Nat
      BY DEF CTFTypeOK
    <3> QED BY <3>1, <3>2, <3>3
  <2>4. CTFTypeOK'
    BY <1>6, <2>2 DEF safeTransferFrom, payoutVars, CTFTypeOK, TokensMoved
  <2> QED BY <1>6, <2>3, <2>4 DEF safeTransferFrom, CTFTypeOK, NothingTaken
<1>7. ASSUME NEW s \in Oracles, NEW c \in Conditions, NEW v \in PayoutVectors, reportPayouts(s, c, v)
      PROVE  CTFTypeOK' /\ NothingTaken
  BY <1>7, ReportTyped, PayoutVectorsAssumption
<1>8. ASSUME NEW c \in Conditions, NEW o \in Outcomes, _resolve(c, o)
      PROVE  CTFTypeOK' /\ NothingTaken
  BY <1>8, ReportTyped, OnlyTyped DEF _resolve
<1> QED BY <1>1, <1>2, <1>3, <1>4, <1>5, <1>6, <1>7, <1>8 DEF LedgerCalls

----------------------------------------------------------------------------
LEMMA PaidEffect ==
    ASSUME NEW S, NEW b \in [S -> Nat], NEW x \in S, NEW y \in S, NEW n \in Nat, b[x] >= n
    PROVE  /\ Paid(b, x, y, n) \in [S -> Nat]
           /\ \A z \in S \ {x} : Paid(b, x, y, n)[z] = IF z = y THEN b[z] + n ELSE b[z]
<1> DEFINE debited == [b EXCEPT ![x] = @ - n]
<1>1. debited \in [S -> Nat] /\ \A z \in S \ {x} : debited[z] = b[z]
  OBVIOUS
<1> HIDE DEF debited
<1>2. /\ [debited EXCEPT ![y] = @ + n] \in [S -> Nat]
      /\ \A z \in S \ {x} : [debited EXCEPT ![y] = @ + n][z] = IF z = y THEN b[z] + n ELSE b[z]
  BY <1>1
<1> QED BY <1>2 DEF Paid, debited

(* The fee on a volume is no more than the volume.                         *)
LEMMA TakerFeeBounds ==
    ASSUME NEW v \in Nat
    PROVE  TakerFee(v) \in Nat /\ TakerFee(v) <= v /\ TakerFee(v) * BPS_DENOM <= v * TAKER_FEE_BPS
<1> DEFINE x == v * TAKER_FEE_BPS
<1>0. TAKER_FEE_BPS \in Nat /\ BPS_DENOM \in Nat \ {0} /\ TAKER_FEE_BPS <= BPS_DENOM
  BY ScalesAssumption
<1>1. x \in Nat
  BY <1>0
<1>2. x <= v * BPS_DENOM
  <2>1. TAKER_FEE_BPS * v <= BPS_DENOM * v
    BY <1>0, ProductsOrdered
  <2> QED BY <1>0, <2>1
<1> HIDE DEF x
<1>3. x \div BPS_DENOM \in Nat /\ (x \div BPS_DENOM) * BPS_DENOM <= x
  BY <1>0, <1>1, QuotientBounds
<1>4. x \div BPS_DENOM <= v
  BY <1>0, <1>1, <1>2, QuotientAtMost
<1> QED BY <1>3, <1>4 DEF TakerFee, x

LEMMA VolumeBounds ==
    ASSUME NEW t, NEW m \in Orders, NEW fill \in Nat
    PROVE  /\ Volume(t, m, fill) \in Nat
           /\ Volume(t, m, fill) * PRICE_SCALE <= fill * Terms[m].price
           /\ fill * Terms[m].price < (Volume(t, m, fill) + 1) * PRICE_SCALE
<1> DEFINE x == fill * Terms[m].price
<1>0. PRICE_SCALE \in Nat \ {0} /\ Terms[m].price \in Nat
  BY ScalesAssumption, TermsAssumption
<1>1. x \in Nat
  BY <1>0
<1> HIDE DEF x
<1> DEFINE v == x \div PRICE_SCALE
<1>2. v \in Nat /\ v * PRICE_SCALE <= x /\ x < v * PRICE_SCALE + PRICE_SCALE
  BY <1>0, <1>1, QuotientBounds
<1> HIDE DEF v
<1>3. (v + 1) * PRICE_SCALE = v * PRICE_SCALE + PRICE_SCALE
  BY SMTT(60), <1>0, <1>2
<1> QED BY <1>2, <1>3 DEF Volume, x, v

(* A match, from the side of the orders: what either maker pays and gets.  *)
Buying(t, m) == IF Terms[t].isBuy THEN t ELSE m
Selling(t, m) == IF Terms[t].isBuy THEN m ELSE t
Proceeds(t, m, fill) ==
    IF Terms[t].isBuy THEN Volume(t, m, fill) ELSE Volume(t, m, fill) - TakerFee(Volume(t, m, fill))
Cost(t, m, fill) ==
    IF Terms[t].isBuy THEN Volume(t, m, fill) + TakerFee(Volume(t, m, fill)) ELSE Volume(t, m, fill)

LEMMA MatchUnfolded ==
    ASSUME NEW t \in Orders, NEW m \in Orders, NEW fill \in Amounts, BookTypeOK, matchOrders(t, m, fill)
    PROVE  /\ fill > 0 /\ t # m /\ Crosses(t, m)
           /\ filled' = [filled EXCEPT ![t] = @ + fill, ![m] = @ + fill]
           /\ settled' = [settled EXCEPT
                            ![Buying(t, m)] = Count(Buying(t, m), Cost(t, m, fill)),
                            ![Selling(t, m)] = Count(Selling(t, m), Proceeds(t, m, fill))]
           /\ LET buyer == Terms[Buying(t, m)].maker
                  seller == Terms[Selling(t, m)].maker
                  fee == TakerFee(Volume(t, m, fill))
                  afterProceeds == Paid(usdc, buyer, seller, Proceeds(t, m, fill))
                  c == Terms[t].condition
                  o == Terms[t].outcome
              IN  /\ usdc[buyer] >= Proceeds(t, m, fill)
                  /\ afterProceeds[buyer] >= fee
                  /\ usdc' = Paid(afterProceeds, buyer, Vault, fee)
                  /\ balanceOf[seller][c][o] >= fill
                  /\ balanceOf' = Moved(seller, buyer, c, o, fill)
           /\ ~isResolved(Terms[t].condition)
           /\ UNCHANGED <<pot, isApprovedForAll, prepared, payoutVars, now, revenueVars, cancelled, nonces>>
<1>1. Crosses(t, m) /\ t # m
  BY DEF matchOrders, Crosses
<1>2. CASE Terms[t].isBuy
  <2>1. Buying(t, m) = t /\ Selling(t, m) = m /\ m # t
    BY <1>1, <1>2 DEF Buying, Selling
  <2>2. /\ Cost(t, m, fill) = Volume(t, m, fill) + TakerFee(Volume(t, m, fill))
        /\ Proceeds(t, m, fill) = Volume(t, m, fill)
    BY <1>2 DEF Cost, Proceeds
  <2> QED BY <1>1, <1>2, <2>1, <2>2 DEF matchOrders, FeeLeg
<1>3. CASE ~Terms[t].isBuy
  <2>1. Buying(t, m) = m /\ Selling(t, m) = t /\ m # t
    BY <1>1, <1>3 DEF Buying, Selling
  <2>2. /\ Cost(t, m, fill) = Volume(t, m, fill)
        /\ Proceeds(t, m, fill) = Volume(t, m, fill) - TakerFee(Volume(t, m, fill))
    BY <1>3 DEF Cost, Proceeds
  <2> QED BY <1>1, <1>3, <2>1, <2>2 DEF matchOrders, FeeLeg
<1> QED BY SMTT(60), <1>2, <1>3

LEMMA MatchAmounts ==
    ASSUME NEW t \in Orders, NEW m \in Orders, NEW fill \in Nat
    PROVE  /\ Proceeds(t, m, fill) \in Nat /\ Cost(t, m, fill) \in Nat
           /\ TakerFee(Volume(t, m, fill)) \in Nat /\ Volume(t, m, fill) \in Nat
<1>1. Volume(t, m, fill) \in Nat
  BY VolumeBounds
<1>2. TakerFee(Volume(t, m, fill)) \in Nat /\ TakerFee(Volume(t, m, fill)) <= Volume(t, m, fill)
  BY <1>1, TakerFeeBounds
<1> QED BY <1>1, <1>2 DEF Proceeds, Cost

LEMMA OrderTyped ==
    ASSUME NEW o \in Orders
    PROVE  /\ Terms[o].maker \in Holders /\ Terms[o].maker \in Accounts /\ Terms[o].isBuy \in BOOLEAN
           /\ Terms[o].condition \in Conditions /\ Terms[o].outcome \in Outcomes
           /\ Terms[o].price \in Nat /\ Terms[o].amount \in Nat
BY TermsAssumption, Addresses

(* A match keeps ledger and book typed and takes nothing from contracts.   *)
LEMMA MatchStep ==
    ASSUME CTFTypeOK, BookTypeOK, NEW t \in Orders, NEW m \in Orders, NEW fill \in Amounts,
           matchOrders(t, m, fill)
    PROVE  CTFTypeOK' /\ BookTypeOK' /\ NothingTaken
<1> DEFINE buy == Buying(t, m)
           sell == Selling(t, m)
           buyer == Terms[buy].maker
           seller == Terms[sell].maker
           c == Terms[t].condition
           o == Terms[t].outcome
           vol == Volume(t, m, fill)
           fee == TakerFee(vol)
           mid == Paid(usdc, buyer, seller, Proceeds(t, m, fill))
<1>0. fill \in Nat
  BY AmountsAssumption
<1>1. buy \in Orders /\ sell \in Orders
  BY DEF Buying, Selling
<1>2. /\ buyer \in Accounts /\ buyer \in Holders /\ seller \in Accounts /\ seller \in Holders
      /\ c \in Conditions /\ o \in Outcomes
  BY <1>1, OrderTyped
<1>3. Proceeds(t, m, fill) \in Nat /\ Cost(t, m, fill) \in Nat /\ fee \in Nat
  BY <1>0, MatchAmounts
<1>4. /\ filled' = [filled EXCEPT ![t] = @ + fill, ![m] = @ + fill] /\ t # m
      /\ settled' = [settled EXCEPT ![buy] = Count(buy, Cost(t, m, fill)),
                                    ![sell] = Count(sell, Proceeds(t, m, fill))]
      /\ usdc[buyer] >= Proceeds(t, m, fill)
      /\ mid[buyer] >= fee /\ usdc' = Paid(mid, buyer, Vault, fee)
      /\ balanceOf[seller][c][o] >= fill /\ balanceOf' = Moved(seller, buyer, c, o, fill)
      /\ UNCHANGED <<pot, isApprovedForAll, prepared, payoutVars, cancelled, nonces>>
  BY MatchUnfolded
<1> HIDE DEF buy, sell, fee, vol
<1>5. usdc' \in [Accounts -> Nat] /\ usdc'[Vault] >= usdc[Vault] /\ usdc'[AMM] >= usdc[AMM]
  <2>0. usdc \in [Accounts -> Nat] /\ Vault # buyer /\ Vault # seller /\ AMM # buyer /\ AMM # seller
    BY <1>2, Addresses DEF CTFTypeOK
  <2> HIDE DEF buyer, seller
  <2>1. mid \in [Accounts -> Nat] /\ mid[Vault] = usdc[Vault] /\ mid[AMM] = usdc[AMM]
    BY SMTT(60), <1>2, <1>3, <1>4, <2>0, Addresses, PaidEffect
  <2> HIDE DEF mid
  <2>2. /\ usdc' \in [Accounts -> Nat]
        /\ \A z \in Accounts \ {buyer} : usdc'[z] = IF z = Vault THEN mid[z] + fee ELSE mid[z]
    BY SMTT(60), <1>2, <1>3, <1>4, <2>1, Addresses, PaidEffect
  <2> QED BY <1>3, <2>0, <2>1, <2>2, Addresses
<1>6. TokensMoved(balanceOf', seller, buyer, c, o, fill)
  BY <1>0, <1>2, <1>4, MovedEffect
<1>7. \A d \in Conditions, p \in Outcomes : balanceOf'[AMM][d][p] >= balanceOf[AMM][d][p]
  <2> SUFFICES ASSUME NEW d \in Conditions, NEW p \in Outcomes
               PROVE  balanceOf'[AMM][d][p] >= balanceOf[AMM][d][p]
    OBVIOUS
  <2>1. AMM \in Accounts /\ AMM \notin {seller, buyer}
    BY SMTT(60), <1>2, Addresses
  <2>2. balanceOf'[AMM][d][p] = balanceOf[AMM][d][p]
    BY <1>6, <2>1 DEF TokensMoved
  <2>3. balanceOf[AMM][d][p] \in Nat
    BY SMTT(60), <2>1 DEF CTFTypeOK
  <2> QED BY <2>2, <2>3
<1>8. CTFTypeOK'
  BY <1>4, <1>5, <1>6 DEF CTFTypeOK, TokensMoved, payoutVars
<1>9. BookTypeOK'
  <2>1. filled' \in [Orders -> Nat]
    BY <1>0, <1>4 DEF BookTypeOK
  <2>2. /\ Count(buy, Cost(t, m, fill)) \in [fills : Nat, paid : Nat]
        /\ Count(sell, Proceeds(t, m, fill)) \in [fills : Nat, paid : Nat]
    BY SMTT(60), <1>1, <1>3 DEF BookTypeOK, Count
  <2>3. settled' \in [Orders -> [fills : Nat, paid : Nat]]
    BY <1>4, <2>2 DEF BookTypeOK
  <2> QED BY SMTT(60), <1>4, <2>1, <2>3 DEF BookTypeOK
<1> QED BY <1>5, <1>7, <1>8, <1>9 DEF NothingTaken

----------------------------------------------------------------------------
(* A pool that exists is one of a prepared condition, works by the close   *)
(* on record and never runs dry; one that does not has no shares.          *)
PoolOK(c) ==
    IF pools[c].exists
    THEN c \in prepared /\ pools[c].lpSupply >= MIN_LP /\ pools[c].closeTime = closeTime[c]
         /\ \A o \in Outcomes : pools[c].reserve[o] > 0
    ELSE /\ pools[c] = NoPool
         /\ lpBalance[c] = [a \in Holders |-> 0]
         /\ seedLocked[c] = [a \in Holders |-> 0]

PoolsOK == \A c \in Conditions : PoolOK(c)

(* What is common to all calls that move a pool's money: what the books of *)
(* the pool say is what the contract's own transfers brought or took, and  *)
(* complete sets are made or unmade only while the condition is open.      *)
PoolMove(a, c, in, toVault, out, sets, tokens, q) ==
    /\ in \in Nat /\ toVault \in Nat /\ out \in Nat /\ sets \in Int /\ tokens \in [Outcomes -> Int]
    /\ Settle(a, c, in, toVault, out, sets, tokens)
    /\ pools' = [pools EXCEPT ![c] = q] /\ q \in Pool /\ q.exists
    /\ \A o \in Outcomes : q.reserve[o] = pools[c].reserve[o] + sets + tokens[o] /\ q.reserve[o] > 0
    /\ q.lpFees = pools[c].lpFees + in - toVault - out - sets
    /\ q.closeTime = IF pools[c].exists THEN pools[c].closeTime ELSE closeTime'[c]
    /\ sets # 0 => ~isResolved(c)

(* The shares: k more for one provider, and for the supply.                *)
SharesMove(c, x, k, q) ==
    /\ x \in Holders /\ k \in Int /\ lpBalance[c][x] + k >= 0
    /\ lpBalance' = [lpBalance EXCEPT ![c][x] = @ + k]
    /\ q.lpSupply = pools[c].lpSupply + k /\ q.lpSupply >= MIN_LP
    /\ \/ /\ pools[c].exists /\ UNCHANGED seedLocked
          /\ k < 0 => lpBalance[c][x] + k >= _lp_locked(c, x)
       \/ /\ ~pools[c].exists /\ k >= MIN_LP
          /\ seedLocked' = [seedLocked EXCEPT ![c][x] = k]

Pooled(a, c, x, k) ==
    \E in, toVault, out, sets, tokens, q :
        PoolMove(a, c, in, toVault, out, sets, tokens, q) /\ SharesMove(c, x, k, q)

LEMMA PoolTyped ==
    ASSUME AMMTypeOK, NEW c \in Conditions
    PROVE  /\ pools[c] \in Pool /\ pools[c].exists \in BOOLEAN
           /\ \A o \in Outcomes : pools[c].reserve[o] \in Nat
           /\ pools[c].lpSupply \in Nat /\ pools[c].liquidity \in Nat /\ pools[c].lpFees \in Nat
           /\ pools[c].closeTime \in Nat
BY DEF AMMTypeOK, Pool

LEMMA OtherTyped == ASSUME NEW o \in Outcomes PROVE Other(o) \in Outcomes /\ Other(o) # o
BY DEF Other, Outcomes, YES, NO

LEMMA FeesAreNat ==
    ASSUME NEW n \in Nat
    PROVE  /\ Fees(n) = _fee(n, VAULT_FEE_BPS) + _fee(n, LP_FEE_BPS)
           /\ Fees(n) \in Nat /\ _fee(n, VAULT_FEE_BPS) \in Nat /\ _fee(n, LP_FEE_BPS) \in Nat
<1>1. _fee(n, VAULT_FEE_BPS) \in Nat /\ _fee(n, LP_FEE_BPS) \in Nat
  <2>1. VAULT_FEE_BPS \in Nat /\ LP_FEE_BPS \in Nat
    BY AMMFeesAssumption
  <2> QED BY <2>1, FeeIsNat
<1>2. Fees(n) = _fee(n, VAULT_FEE_BPS) + _fee(n, LP_FEE_BPS)
  BY DEF Fees
<1> QED BY <1>1, <1>2

LEMMA NoShareMoves ==
    ASSUME AMMTypeOK, PoolsOK, NEW a \in Holders, NEW c \in Conditions, NEW q,
           pools[c].exists, q.lpSupply = pools[c].lpSupply, UNCHANGED <<lpBalance, seedLocked>>
    PROVE  SharesMove(c, a, 0, q)
<1>1. lpBalance[c][a] \in Nat /\ pools[c].lpSupply \in Nat /\ pools[c].lpSupply >= MIN_LP
  BY DEF AMMTypeOK, PoolsOK, PoolOK
<1>2. lpBalance' = [lpBalance EXCEPT ![c][a] = @ + 0]
  BY <1>1 DEF AMMTypeOK
<1>3. lpBalance[c][a] + 0 >= 0 /\ q.lpSupply = pools[c].lpSupply + 0 /\ q.lpSupply >= MIN_LP /\ ~(0 < 0) /\ 0 \in Int
  BY <1>1
<1>4. UNCHANGED seedLocked
  OBVIOUS
<1> QED BY Zenon, <1>2, <1>3, <1>4 DEF SharesMove

(* A pool whose books have been written.                                   *)
Repooled(p, r, f, l, s) == [p EXCEPT !.reserve = r, !.lpFees = f, !.liquidity = l, !.lpSupply = s]

(* What may be left of a reserve after a buy.                              *)
LEMMA BuyLeaves ==
    ASSUME AMMTypeOK, NEW c \in Conditions, NEW o \in Outcomes, NEW trade \in Int,
           NEW left \in _buy(pools[c], o, trade)
    PROVE  left \in Nat \ {0} /\ trade > 0 /\ pools[c].exists
<1> DEFINE p == pools[c]
<1>0. /\ p.reserve[o] \in Nat /\ p.reserve[Other(o)] \in Nat /\ p.liquidity \in Nat
      /\ WAD \in Nat \ {0} /\ U_MAX \in Nat
  BY PoolTyped, OtherTyped, CurveAssumption
<1>1. p.exists /\ trade > 0
  BY DEF _buy
<1> DEFINE reserveIn == p.reserve[Other(o)] + trade
           x == ((reserveIn - Surplus(p, o)) * WAD) \div p.liquidity
<1>2. left > 0 /\ (left = p.reserve[o] \/ \E w \in solve_g(x) : left = Min({Left(p, reserveIn, w), p.reserve[o]}))
  BY DEF _buy
<1>3. ASSUME NEW w \in solve_g(x), left = Min({Left(p, reserveIn, w), p.reserve[o]}) PROVE left \in Int
  <2>1. w \in Int
    BY <1>0 DEF solve_g, Grid
  <2> DEFINE d == p.liquidity * w
             e == p.liquidity * (-w)
  <2>2. d \in Int /\ e \in Int
    BY <1>0, <2>1
  <2> HIDE DEF d, e
  <2>3. d \div WAD \in Int /\ (e + WAD - 1) \div WAD \in Int
    BY <1>0, <2>2, QuotientBounds
  <2>4. Left(p, reserveIn, w) \in Int
    BY <1>0, <2>3 DEF Left, CeilDiv, d, e
  <2> HIDE DEF p, reserveIn
  <2> QED BY <1>0, <1>3, <2>4, MinOfTwo
<1>4. left \in Int
  <2>1. CASE left = p.reserve[o]
    BY <1>0, <2>1
  <2>2. CASE \E w \in solve_g(x) : left = Min({Left(p, reserveIn, w), p.reserve[o]})
    <3> HIDE DEF p, reserveIn, x
    <3> QED BY <1>3, <2>2
  <2> QED BY <1>2, <2>1, <2>2
<1> QED BY <1>1, <1>2, <1>4

LEMMA BuyMove ==
    ASSUME AMMTypeOK, PoolsOK, NEW a \in Holders, NEW c \in Conditions, NEW o \in Outcomes, NEW n \in Nat,
           buyWithUSDC(a, c, o, n)
    PROVE  Pooled(a, c, a, 0)
<1> DEFINE p == pools[c]
           trade == n - Fees(n)
           vf == _fee(n, VAULT_FEE_BPS)
           lf == _fee(n, LP_FEE_BPS)
<1>0. /\ p \in Pool /\ p.lpFees \in Nat /\ \A x \in Outcomes : p.reserve[x] \in Nat
      /\ vf \in Nat /\ lf \in Nat /\ Fees(n) = vf + lf /\ trade \in Int /\ trade = n - vf - lf
      /\ pools \in [Conditions -> Pool]
  BY SMTT(60), PoolTyped, FeesAreNat DEF AMMTypeOK, Pool
<1>1. PICK left \in _buy(p, o, trade) :
         /\ Settle(a, c, n, vf, 0, trade, Only(o, -(trade + p.reserve[o] - left)))
         /\ pools' = [pools EXCEPT ![c].reserve[o] = left, ![c].reserve[Other(o)] = @ + trade,
                                   ![c].lpFees = @ + lf]
  BY DEF buyWithUSDC
<1>2. left \in Nat \ {0} /\ trade > 0 /\ p.exists
  BY <1>0, <1>1, BuyLeaves
<1>3. ~isResolved(c) /\ UNCHANGED <<lpBalance, seedLocked>>
  BY DEF buyWithUSDC
<1> HIDE DEF p, trade, vf, lf
<1> DEFINE r == [x \in Outcomes |-> IF x = o THEN left ELSE p.reserve[x] + trade]
           q == [p EXCEPT !.reserve = r, !.lpFees = @ + lf]
           tokens == Only(o, -(trade + p.reserve[o] - left))
<1>4. q \in Pool /\ q.exists /\ q.reserve = r /\ q.lpFees = p.lpFees + lf
      /\ q.closeTime = p.closeTime /\ q.lpSupply = p.lpSupply
  <2> DEFINE f == p.lpFees + lf
             l == p.liquidity
             s == p.lpSupply
  <2>1. r \in [Outcomes -> Nat] /\ f \in Nat /\ l \in Nat /\ s \in Nat /\ p \in Pool
    BY <1>0, <1>2 DEF Pool
  <2>2. q = Repooled(p, r, f, l, s)
    BY <1>0 DEF Pool, Repooled
  <2> HIDE DEF r, q, f, l, s
  <2>3. /\ q \in Pool /\ q.reserve = r /\ q.lpFees = f
        /\ q.exists = p.exists /\ q.closeTime = p.closeTime /\ q.lpSupply = s
    BY <2>1, <2>2 DEF Repooled, Pool
  <2> QED BY <1>2, <2>3 DEF f, s
<1>5. tokens \in [Outcomes -> Int]
  <2>1. -(trade + p.reserve[o] - left) \in Int
    BY <1>0, <1>2
  <2> QED BY <2>1, OnlyTyped
<1>6. [pools EXCEPT ![c].reserve[o] = left, ![c].reserve[Other(o)] = @ + trade, ![c].lpFees = @ + lf]
        = [pools EXCEPT ![c] = q]
  <2>1. \A x \in Outcomes : x = o \/ x = Other(o)
    BY DEF Outcomes, Other, YES, NO
  <2>2. [p.reserve EXCEPT ![o] = left, ![Other(o)] = @ + trade] = r
    BY <1>0, <2>1, OtherTyped DEF Pool
  <2>3. [p EXCEPT !.reserve[o] = left, !.reserve[Other(o)] = @ + trade, !.lpFees = @ + lf] = q
    BY <1>0, <2>2 DEF Pool
  <2> HIDE DEF q
  <2> QED BY <1>0, <2>3 DEF p
<1>7. \A x \in Outcomes : q.reserve[x] = p.reserve[x] + trade + tokens[x] /\ q.reserve[x] > 0
  BY <1>0, <1>2, <1>4 DEF Only
<1>8. q.lpFees = p.lpFees + n - vf - 0 - trade
  BY <1>0, <1>4
<1> HIDE DEF q, tokens
<1>9. PoolMove(a, c, n, vf, 0, trade, tokens, q)
  BY <1>0, <1>1, <1>2, <1>3, <1>4, <1>5, <1>6, <1>7, <1>8 DEF PoolMove, tokens, p
<1>10. SharesMove(c, a, 0, q)
  BY <1>2, <1>3, <1>4, NoShareMoves DEF p
<1> QED BY <1>9, <1>10 DEF Pooled

(* The sets a sale merges: no more than are sold or in reserve.            *)
LEMMA CurveIsNat ==
    ASSUME NEW p \in Pool, NEW w \in Grid
    PROVE  Curve(p, w) \in Nat
<1>1. p.liquidity \in Nat /\ G[w] \in Nat /\ WAD \in Nat \ {0}
  BY CurveAssumption DEF Pool
<1> DEFINE x == p.liquidity * G[w]
<1>2. x \in Nat
  BY <1>1
<1> HIDE DEF x
<1>3. CeilDiv(x, WAD) \in Nat
  BY <1>1, <1>2, CeilDivIsNat
<1> QED BY <1>3 DEF Curve, x

LEMMA SurplusIsNat ==
    ASSUME NEW p \in Pool, NEW o \in Outcomes, Coordinate(p, o, 0) \in Grid
    PROVE  Surplus(p, o) \in Nat
<1> DEFINE r == p.reserve[Other(o)]
           k == Curve(p, Coordinate(p, o, 0))
<1>1. r \in Nat /\ k \in Nat
  BY OtherTyped, CurveIsNat DEF Pool
<1> HIDE DEF r, k
<1>2. r - Min({r, k}) \in Nat
  BY <1>1, MinOfTwo
<1> QED BY <1>2 DEF Surplus, r, k

LEMMA SellBounds ==
    ASSUME NEW p \in Pool, NEW o \in Outcomes, NEW n \in Nat
    PROVE  /\ _sell(p, o, n) \in Nat /\ _sell(p, o, n) <= n /\ _sell(p, o, n) <= p.reserve[Other(o)]
           /\ _sell(p, o, n) > 0 => p.exists /\ _sell(p, o, n) < p.reserve[Other(o)]
<1> DEFINE w == Coordinate(p, o, n) + 1
           r == p.reserve[Other(o)]
           left == Curve(p, w) + 1 + Surplus(p, o)
           off == ~(p.exists /\ p.liquidity > 0) \/ w \notin -U_TRADE_MAX..U_MAX \/ Coordinate(p, o, 0) \notin Grid
<1>0. r \in Nat
  BY OtherTyped DEF Pool
<1>1. _sell(p, o, n) = IF off THEN 0 ELSE Max({0, Min({n, r - left})})
  BY DEF _sell
<1>2. CASE off
  BY <1>0, <1>1, <1>2
<1>3. CASE ~off
  <2>1. w \in Grid /\ p.exists
    BY <1>3, CurveAssumption DEF Grid
  <2>2. left \in Nat /\ left > 0
    BY <1>3, <2>1, CurveIsNat, SurplusIsNat
  <2> HIDE DEF w, r, left, off
  <2> DEFINE x == Min({n, r - left})
  <2>3. x \in Int /\ x <= n /\ x <= r /\ (r > 0 => x < r) /\ (r = 0 => x < 0)
    BY <1>0, <2>2, MinOfTwo
  <2> HIDE DEF x
  <2>4. Max({0, x}) = IF 0 >= x THEN 0 ELSE x
    BY <2>3, MaxOfTwo
  <2>5. _sell(p, o, n) = Max({0, x})
    BY <1>1, <1>3 DEF x
  <2> QED BY <1>0, <2>1, <2>3, <2>4, <2>5 DEF r
<1> QED BY <1>2, <1>3

LEMMA SellMove ==
    ASSUME AMMTypeOK, PoolsOK, NEW a \in Holders, NEW c \in Conditions, NEW o \in Outcomes, NEW n \in Nat,
           sellToUSDC(a, c, o, n)
    PROVE  Pooled(a, c, a, 0)
<1> DEFINE p == pools[c]
           m == _sell(p, o, n)
           vf == _fee(m, VAULT_FEE_BPS)
           lf == _fee(m, LP_FEE_BPS)
<1>0. /\ p \in Pool /\ p.lpFees \in Nat /\ \A x \in Outcomes : p.reserve[x] \in Nat
      /\ pools \in [Conditions -> Pool]
  BY PoolTyped DEF AMMTypeOK, Pool
<1>1. m \in Nat /\ m <= n /\ m <= p.reserve[Other(o)] /\ (m > 0 => p.exists /\ m < p.reserve[Other(o)])
  BY <1>0, SellBounds
<1>2. vf \in Nat /\ lf \in Nat /\ Fees(m) = vf + lf
  BY <1>1, FeesAreNat
<1>3. /\ m > Fees(m) /\ ~isResolved(c) /\ UNCHANGED <<lpBalance, seedLocked>>
      /\ Settle(a, c, 0, vf, m - Fees(m), -m, Only(o, n))
      /\ pools' = [pools EXCEPT ![c].reserve[o] = @ + n - m, ![c].reserve[Other(o)] = @ - m,
                                ![c].lpFees = @ + lf]
  BY DEF sellToUSDC
<1> HIDE DEF p, m, vf, lf
<1>4. p.exists /\ m < p.reserve[Other(o)] /\ m - Fees(m) \in Nat /\ m - Fees(m) = m - vf - lf /\ -m \in Int
  BY <1>1, <1>2, <1>3
<1> DEFINE r == [x \in Outcomes |-> IF x = o THEN p.reserve[x] + n - m ELSE p.reserve[x] - m]
           q == [p EXCEPT !.reserve = r, !.lpFees = @ + lf]
           tokens == Only(o, n)
<1>5. \A x \in Outcomes : x = o \/ x = Other(o)
  BY DEF Outcomes, Other, YES, NO
<1>6. q \in Pool /\ q.exists /\ q.reserve = r /\ q.lpFees = p.lpFees + lf
      /\ q.closeTime = p.closeTime /\ q.lpSupply = p.lpSupply
  <2> DEFINE f == p.lpFees + lf
             l == p.liquidity
             s == p.lpSupply
  <2>1. r \in [Outcomes -> Nat] /\ f \in Nat /\ l \in Nat /\ s \in Nat /\ p \in Pool
    BY <1>0, <1>1, <1>2, <1>5 DEF Pool
  <2>2. q = Repooled(p, r, f, l, s)
    BY <1>0 DEF Pool, Repooled
  <2> HIDE DEF r, q, f, l, s
  <2>3. /\ q \in Pool /\ q.reserve = r /\ q.lpFees = f
        /\ q.exists = p.exists /\ q.closeTime = p.closeTime /\ q.lpSupply = s
    BY <2>1, <2>2 DEF Repooled, Pool
  <2> QED BY <1>4, <2>3 DEF f, s
<1>7. tokens \in [Outcomes -> Int]
  BY OnlyTyped
<1>8. [pools EXCEPT ![c].reserve[o] = @ + n - m, ![c].reserve[Other(o)] = @ - m, ![c].lpFees = @ + lf]
        = [pools EXCEPT ![c] = q]
  <2>1. [p.reserve EXCEPT ![o] = @ + n - m, ![Other(o)] = @ - m] = r
    BY <1>0, <1>5, OtherTyped DEF Pool
  <2>2. [p EXCEPT !.reserve[o] = @ + n - m, !.reserve[Other(o)] = @ - m, !.lpFees = @ + lf] = q
    BY <1>0, <2>1 DEF Pool
  <2> HIDE DEF q
  <2> QED BY <1>0, <2>2 DEF p
<1>9. \A x \in Outcomes : q.reserve[x] = p.reserve[x] + (-m) + tokens[x] /\ q.reserve[x] > 0
  <2>1. p.reserve[o] > 0
    BY <1>4 DEF PoolsOK, PoolOK, p
  <2> QED BY <1>0, <1>1, <1>4, <1>5, <1>6, <2>1 DEF Only
<1>10. q.lpFees = p.lpFees + 0 - vf - (m - Fees(m)) - (-m)
  BY <1>0, <1>1, <1>2, <1>6
<1> HIDE DEF q, tokens
<1>11. PoolMove(a, c, 0, vf, m - Fees(m), -m, tokens, q)
  BY <1>0, <1>2, <1>3, <1>4, <1>6, <1>7, <1>8, <1>9, <1>10 DEF PoolMove, tokens, p
<1>12. SharesMove(c, a, 0, q)
  BY <1>3, <1>4, <1>6, NoShareMoves DEF p
<1> QED BY <1>11, <1>12 DEF Pooled

LEMMA LongAndShort ==
    ASSUME NEW r \in [Outcomes -> Nat]
    PROVE  /\ Max({r[o] : o \in Outcomes}) \in Nat /\ \A o \in Outcomes : r[o] <= Max({r[x] : x \in Outcomes})
           /\ Min({r[o] : o \in Outcomes}) \in Nat /\ \A o \in Outcomes : Min({r[x] : x \in Outcomes}) <= r[o]
<1>1. {r[o] : o \in Outcomes} = {r[YES], r[NO]} /\ r[YES] \in Nat /\ r[NO] \in Nat
  BY DEF Outcomes
<1>2. /\ Max({r[YES], r[NO]}) = IF r[YES] >= r[NO] THEN r[YES] ELSE r[NO]
      /\ Min({r[YES], r[NO]}) = IF r[YES] <= r[NO] THEN r[YES] ELSE r[NO]
  BY <1>1, MaxOfTwo, MinOfTwo
<1>3. \A o \in Outcomes : o = YES \/ o = NO
  BY DEF Outcomes
<1> QED BY SMTT(60), <1>1, <1>2, <1>3

(* A deposit's part of anything that is at most the whole.                 *)
LEMMA ShareInBounds ==
    ASSUME NEW n \in Nat, NEW part \in Nat, NEW whole \in Nat \ {0}, part <= whole
    PROVE  ShareIn(n, part, whole) \in Nat /\ ShareIn(n, part, whole) <= n
<1> DEFINE x == n * part
<1>1. x \in Nat
  OBVIOUS
<1>2. x <= n * whole
  <2>1. part * n <= whole * n
    BY ProductsOrdered
  <2> QED BY <2>1
<1> HIDE DEF x
<1>3. CeilDiv(x, whole) \in Nat /\ CeilDiv(x, whole) <= n
  BY <1>1, <1>2, CeilDivIsNat, CeilDivAtMost
<1> QED BY <1>3 DEF ShareIn, x

LEMMA AddMove ==
    ASSUME AMMTypeOK, PoolsOK, NEW a \in Holders, NEW c \in Conditions, NEW n \in Nat,
           addLiquidity(a, c, n)
    PROVE  \E k \in Nat : Pooled(a, c, a, k)
<1> DEFINE p == pools[c]
           long == Max({p.reserve[o] : o \in Outcomes})
           whole == long + p.lpFees
           sets == ShareIn(n, long, whole)
           legs == [o \in Outcomes |-> ShareIn(n, p.reserve[o], whole)]
           minted == (n * p.lpSupply) \div whole
           more == (n * p.liquidity) \div whole
           tokens == [o \in Outcomes |-> -(sets - legs[o])]
<1>0. /\ p \in Pool /\ p.lpFees \in Nat /\ p.reserve \in [Outcomes -> Nat] /\ p.liquidity \in Nat
      /\ p.lpSupply \in Nat /\ pools \in [Conditions -> Pool]
  BY PoolTyped DEF AMMTypeOK, Pool
<1>1. /\ p.exists /\ ~isResolved(c) /\ minted > 0
      /\ Settle(a, c, n, 0, 0, sets, tokens)
      /\ pools' = [pools EXCEPT ![c].reserve = [o \in Outcomes |-> @[o] + legs[o]],
                                ![c].liquidity = @ + more,
                                ![c].lpFees = @ + n - sets,
                                ![c].lpSupply = @ + minted]
      /\ lpBalance' = [lpBalance EXCEPT ![c][a] = @ + minted]
      /\ UNCHANGED seedLocked
  BY ZenonT(60) DEF addLiquidity
<1>2. \A o \in Outcomes : p.reserve[o] > 0
  BY ZenonT(60), <1>1 DEF PoolsOK, PoolOK
<1>3. p.lpSupply >= MIN_LP
  BY <1>1 DEF PoolsOK, PoolOK
<1> HIDE DEF p
<1>4. long \in Nat /\ \A o \in Outcomes : p.reserve[o] <= long
  BY <1>0, LongAndShort
<1> HIDE DEF long
<1>5. whole \in Nat \ {0} /\ long <= whole /\ \A o \in Outcomes : p.reserve[o] <= whole
  BY <1>0, <1>2, <1>4 DEF Outcomes
<1> HIDE DEF whole
<1>6. sets \in Nat /\ sets <= n
  BY <1>4, <1>5, ShareInBounds
<1>7. legs \in [Outcomes -> Nat]
  BY <1>0, <1>5, ShareInBounds
<1>8. minted \in Nat /\ more \in Nat
  <2>1. n * p.lpSupply \in Nat /\ n * p.liquidity \in Nat
    BY <1>0
  <2> DEFINE x == n * p.lpSupply
             y == n * p.liquidity
  <2> HIDE DEF x, y
  <2>2. x \div whole \in Nat /\ y \div whole \in Nat
    BY <1>5, <2>1, QuotientBounds DEF x, y
  <2> QED BY <2>2 DEF x, y
<1> HIDE DEF sets, legs, minted, more
<1> DEFINE r == [o \in Outcomes |-> p.reserve[o] + legs[o]]
           f == p.lpFees + n - sets
           l == p.liquidity + more
           s == p.lpSupply + minted
           q == Repooled(p, r, f, l, s)
<1>9. r \in [Outcomes -> Nat] /\ f \in Nat /\ l \in Nat /\ s \in Nat /\ tokens \in [Outcomes -> Int]
  BY SMTT(60), <1>0, <1>6, <1>7, <1>8
<1>10. pools' = [pools EXCEPT ![c] = q]
  BY ZenonT(60), <1>0, <1>1 DEF Repooled, Pool, p
<1>11. \A o \in Outcomes : r[o] = p.reserve[o] + sets + tokens[o] /\ r[o] > 0
  BY <1>0, <1>2, <1>6, <1>7
<1>12. f = p.lpFees + n - 0 - 0 - sets /\ s >= MIN_LP /\ minted \in Int /\ ~(minted < 0)
  BY <1>0, <1>3, <1>6, <1>8, AMMFeesAssumption
<1>13. lpBalance[c][a] + minted >= 0
  BY <1>8 DEF AMMTypeOK
<1> HIDE DEF r, f, l, s, tokens
<1>14. /\ q \in Pool /\ q.reserve = r /\ q.lpFees = f
       /\ q.exists = p.exists /\ q.closeTime = p.closeTime /\ q.lpSupply = s
  BY <1>0, <1>9 DEF Repooled, Pool
<1>15. q.exists /\ q.closeTime = p.closeTime /\ q.lpFees = p.lpFees + n - 0 - 0 - sets
  BY <1>1, <1>12, <1>14
<1>16. n \in Nat /\ 0 \in Nat /\ sets \in Int
  BY <1>6
<1> HIDE DEF q
<1>17. PoolMove(a, c, n, 0, 0, sets, tokens, q)
  BY ZenonT(60), <1>1, <1>9, <1>10, <1>11, <1>14, <1>15, <1>16 DEF PoolMove, p
<1>18. SharesMove(c, a, minted, q)
  BY <1>1, <1>12, <1>13, <1>14 DEF SharesMove, p, s
<1> QED BY <1>8, <1>17, <1>18 DEF Pooled

(* The pro-rata part of something is less than all of it while shares stay.*)
LEMMA PartLess ==
    ASSUME NEW x \in Nat \ {0}, NEW k \in Nat, NEW s \in Nat \ {0}, k < s
    PROVE  (x * k) \div s < x
<1> DEFINE y == x * k
           d == y \div s
<1>1. y \in Nat
  OBVIOUS
<1>2. y < x * s
  <2>1. x * s = x * k + x * (s - k) /\ x * (s - k) \in Nat /\ x * (s - k) > 0
    OBVIOUS
  <2> QED BY <1>1, <2>1
<1> HIDE DEF y
<1>3. d \in Nat /\ d * s <= y
  BY <1>1, QuotientBounds
<1> HIDE DEF d
<1>4. d * s < x * s
  BY <1>1, <1>2, <1>3, d * s \in Nat, x * s \in Nat
<1>5. d < x
  BY <1>3, <1>4
<1> QED BY <1>5 DEF d, y

LEMMA LockedTyped ==
    ASSUME AMMTypeOK, NEW c \in Conditions, NEW x \in Holders
    PROVE  _lp_locked(c, x) \in Nat /\ _lp_locked(c, x) <= seedLocked[c][x]
<1>1. seedLocked[c][x] \in Nat /\ MIN_LP \in Nat
  BY AMMFeesAssumption DEF AMMTypeOK
<1> QED BY <1>1, MinOfTwo DEF _lp_locked

LEMMA RemoveMove ==
    ASSUME AMMTypeOK, PoolsOK, NEW a \in Holders, NEW c \in Conditions, NEW k \in Nat,
           removeLiquidity(a, c, k)
    PROVE  Pooled(a, c, a, -k)
<1> DEFINE p == pools[c]
           part(x) == (x * k) \div p.lpSupply
           legs == [o \in Outcomes |-> part(p.reserve[o])]
           sets == IF isResolved(c) THEN 0 ELSE Min({legs[o] : o \in Outcomes})
           fees == part(p.lpFees)
           less == LiquidityOut(p, k)
           tokens == [o \in Outcomes |-> sets - legs[o]]
<1>0. /\ p \in Pool /\ p.lpFees \in Nat /\ p.reserve \in [Outcomes -> Nat] /\ p.liquidity \in Nat
      /\ p.lpSupply \in Nat /\ pools \in [Conditions -> Pool]
  BY PoolTyped DEF AMMTypeOK, Pool
<1>1. /\ p.exists /\ k > 0 /\ k <= lpBalance[c][a] /\ lpBalance[c][a] - k >= _lp_locked(c, a)
      /\ p.lpSupply - k >= MIN_LP
      /\ Settle(a, c, 0, 0, fees + sets, -sets, tokens)
      /\ pools' = [pools EXCEPT ![c].reserve = [o \in Outcomes |-> @[o] - legs[o]],
                                ![c].lpFees = @ - part(@),
                                ![c].liquidity = @ - less,
                                ![c].lpSupply = @ - k]
      /\ lpBalance' = [lpBalance EXCEPT ![c][a] = @ - k]
      /\ UNCHANGED seedLocked
  BY ZenonT(60) DEF removeLiquidity
<1>2. \A o \in Outcomes : p.reserve[o] > 0
  BY <1>1 DEF PoolsOK, PoolOK
<1>3. p.lpSupply \in Nat \ {0} /\ k < p.lpSupply
  <2>1. p.lpSupply \in Nat /\ p.lpSupply - k >= MIN_LP /\ MIN_LP \in Nat \ {0}
    BY ZenonT(60), <1>0, <1>1, AMMFeesAssumption
  <2> HIDE DEF p
  <2> QED BY SMTT(60), <2>1
<1>4. pools' = [pools EXCEPT ![c] = [p EXCEPT !.reserve = [o \in Outcomes |-> @[o] - legs[o]], !.lpFees = @ - fees,
                                              !.liquidity = @ - less, !.lpSupply = @ - k]]
  BY <1>0, <1>1
<1> HIDE DEF p
<1> DEFINE supply == p.lpSupply
<1> HIDE DEF supply
<1>4a. \A x \in Nat : part(x) \in Nat /\ part(x) <= x /\ (x # 0 => part(x) < x)
  <2> SUFFICES ASSUME NEW x \in Nat PROVE part(x) \in Nat /\ part(x) <= x /\ (x # 0 => part(x) < x)
    OBVIOUS
  <2>1. supply \in Nat \ {0} /\ k < supply
    BY <1>3 DEF supply
  <2>2. (x * k) \div supply \in Nat /\ (x * k) \div supply <= x
    BY <2>1, PartBounds
  <2>3. x # 0 => (x * k) \div supply < x
    BY <2>1, PartLess
  <2> QED BY <2>2, <2>3 DEF supply
<1> HIDE DEF part
<1>5. \A o \in Outcomes : part(p.reserve[o]) \in Nat /\ part(p.reserve[o]) < p.reserve[o]
  BY <1>0, <1>2, <1>4a
<1>6. fees \in Nat /\ fees <= p.lpFees
  BY <1>0, <1>4a
<1>7. legs \in [Outcomes -> Nat] /\ \A o \in Outcomes : legs[o] < p.reserve[o]
  BY <1>5
<1> HIDE DEF legs
<1>8. sets \in Nat /\ (sets # 0 => ~isResolved(c))
  BY <1>7, LongAndShort
<1>9. less \in Nat /\ less <= p.liquidity
  <2> DEFINE x == p.liquidity * k
  <2>1. x \in Nat
    BY <1>0
  <2> HIDE DEF x
  <2>2. CeilDiv(x, p.lpSupply) \in Nat
    BY <1>3, <2>1, CeilDivIsNat
  <2> DEFINE y == CeilDiv(x, p.lpSupply)
  <2> HIDE DEF y
  <2>3. Min({y, p.liquidity}) \in Nat /\ Min({y, p.liquidity}) <= p.liquidity
    BY <1>0, <2>2, MinOfTwo DEF y
  <2> QED BY <2>3 DEF LiquidityOut, x, y
<1> HIDE DEF sets, less, fees
<1> DEFINE r == [o \in Outcomes |-> p.reserve[o] - legs[o]]
           f == p.lpFees - fees
           l == p.liquidity - less
           s == p.lpSupply - k
           q == Repooled(p, r, f, l, s)
<1>10. r \in [Outcomes -> Nat] /\ f \in Nat /\ l \in Nat /\ s \in Nat /\ tokens \in [Outcomes -> Int]
  BY <1>0, <1>3, <1>6, <1>7, <1>8, <1>9
<1>11. pools' = [pools EXCEPT ![c] = q]
  BY <1>0, <1>4 DEF Repooled, Pool
<1>12. \A o \in Outcomes : r[o] = p.reserve[o] + (-sets) + tokens[o] /\ r[o] > 0
  BY <1>0, <1>7, <1>8
<1>13. /\ f = p.lpFees + 0 - 0 - (fees + sets) - (-sets) /\ s >= MIN_LP /\ -k \in Int
       /\ s = p.lpSupply + (-k) /\ lpBalance[c][a] + (-k) >= 0 /\ lpBalance[c][a] + (-k) >= _lp_locked(c, a)
       /\ fees + sets \in Nat /\ -sets \in Int /\ (-sets # 0 => sets # 0)
  <2>1. lpBalance[c][a] \in Nat /\ _lp_locked(c, a) \in Nat
    BY SMTT(60), LockedTyped DEF AMMTypeOK
  <2>2. p.lpSupply - k >= MIN_LP /\ k <= lpBalance[c][a] /\ lpBalance[c][a] - k >= _lp_locked(c, a)
    BY <1>1
  <2> DEFINE b == lpBalance[c][a]
             lo == _lp_locked(c, a)
             pf == p.lpFees
             ps == p.lpSupply
  <2>3. pf \in Nat /\ ps \in Nat /\ b \in Nat /\ lo \in Nat
    BY <1>0, <2>1
  <2> HIDE DEF b, lo, pf, ps
  <2>4. f = pf - fees /\ s = ps - k /\ ps - k >= MIN_LP /\ k <= b /\ b - k >= lo
    BY <2>2 DEF b, lo, pf, ps
  <2> HIDE DEF f, s
  <2>5. /\ f = pf + 0 - 0 - (fees + sets) - (-sets) /\ s >= MIN_LP /\ -k \in Int
        /\ s = ps + (-k) /\ b + (-k) >= 0 /\ b + (-k) >= lo
        /\ fees + sets \in Nat /\ -sets \in Int /\ (-sets # 0 => sets # 0)
    BY SMTT(60), <1>6, <1>8, <2>3, <2>4
  <2> QED BY <2>5 DEF b, lo, pf, ps
<1>14. lpBalance' = [lpBalance EXCEPT ![c][a] = @ + (-k)]
  <2>1. lpBalance[c][a] - k = lpBalance[c][a] + (-k)
    BY SMTT(60) DEF AMMTypeOK
  <2> QED BY <1>1, <2>1
<1> HIDE DEF r, f, l, s, tokens
<1>15. /\ q \in Pool /\ q.reserve = r /\ q.lpFees = f
       /\ q.exists = p.exists /\ q.closeTime = p.closeTime /\ q.lpSupply = s
  BY <1>0, <1>10 DEF Repooled, Pool
<1>16. q.exists /\ q.lpFees = p.lpFees + 0 - 0 - (fees + sets) - (-sets)
  BY <1>1, <1>13, <1>15
<1> HIDE DEF q
<1>17. PoolMove(a, c, 0, 0, fees + sets, -sets, tokens, q)
  BY ZenonT(60), <1>1, <1>8, <1>10, <1>11, <1>12, <1>13, <1>15, <1>16 DEF PoolMove, p
<1>18. SharesMove(c, a, -k, q)
  BY <1>1, <1>13, <1>14, <1>15 DEF SharesMove, p
<1> QED BY SMTT(60), <1>17, <1>18 DEF Pooled

LEMMA SeedMove ==
    ASSUME AMMTypeOK, PoolsOK, NEW a \in Holders, NEW x \in Holders, NEW c \in Conditions, NEW n \in Nat,
           NEW fee \in Nat, NEW close \in Nat, CanSeed(c, n, close), Seeded(c, n, x, close),
           closeTime'[c] = close, ~isResolved(c), Settle(a, c, n + fee, fee, 0, n, NoPayout)
    PROVE  Pooled(a, c, x, n) /\ ~pools[c].exists /\ n >= MIN_LP /\ seedLocked'[c][x] = n
<1> DEFINE liquidity == (n * WAD) \div G[0]
           q == [exists |-> TRUE, reserve |-> [o \in Outcomes |-> n], lpSupply |-> n, liquidity |-> liquidity,
                 lpFees |-> 0, closeTime |-> close]
<1>0. n >= MIN_LP /\ ~pools[c].exists /\ close > 0 /\ n > 0
  BY AMMFeesAssumption DEF CanSeed
<1>1. /\ pools' = [pools EXCEPT ![c] = q]
      /\ lpBalance' = [lpBalance EXCEPT ![c][x] = n] /\ seedLocked' = [seedLocked EXCEPT ![c][x] = n]
  BY DEF Seeded
<1>2. pools[c] = NoPool /\ lpBalance[c] = [y \in Holders |-> 0]
  BY <1>0 DEF PoolsOK, PoolOK
<1>3. liquidity \in Nat
  <2>1. G[0] \in Nat \ {0}
    BY CurveAssumption DEF Grid
  <2> DEFINE y == n * WAD
  <2>2. y \in Nat
    BY CurveAssumption
  <2> HIDE DEF y
  <2>3. y \div G[0] \in Nat
    BY <2>1, <2>2, QuotientBounds
  <2> QED BY <2>3 DEF y
<1> HIDE DEF liquidity
<1>4. /\ q \in Pool /\ q.exists /\ q.lpSupply = n /\ q.lpFees = 0 /\ q.closeTime = close
      /\ \A o \in Outcomes : q.reserve[o] = n
  BY <1>3 DEF Pool
<1>5. /\ pools[c].lpFees = 0 /\ pools[c].lpSupply = 0 /\ \A o \in Outcomes : pools[c].reserve[o] = 0
      /\ \A o \in Outcomes : NoPayout[o] = 0
  BY <1>2 DEF NoPool, NoPayout
<1>6. NoPayout \in [Outcomes -> Int]
  BY DEF NoPayout
<1> HIDE DEF q
<1>7. q.lpFees = pools[c].lpFees + (n + fee) - fee - 0 - n
  BY <1>4, <1>5
<1>8. \A o \in Outcomes : q.reserve[o] = pools[c].reserve[o] + n + NoPayout[o] /\ q.reserve[o] > 0
  BY <1>0, <1>4, <1>5
<1>9. PoolMove(a, c, n + fee, fee, 0, n, NoPayout, q)
  BY <1>0, <1>1, <1>4, <1>6, <1>7, <1>8 DEF PoolMove
<1>10. lpBalance[c][x] = 0 /\ lpBalance' = [lpBalance EXCEPT ![c][x] = @ + n]
  BY <1>1, <1>2 DEF AMMTypeOK
<1>11. SharesMove(c, x, n, q)
  <2>1. /\ lpBalance[c][x] + n >= 0 /\ q.lpSupply = pools[c].lpSupply + n /\ q.lpSupply >= MIN_LP
        /\ n \in Int
    BY <1>0, <1>4, <1>5, <1>10
  <2>2. ~pools[c].exists /\ n >= MIN_LP /\ seedLocked' = [seedLocked EXCEPT ![c][x] = n]
    BY <1>0, <1>1
  <2> QED BY <1>10, <2>1, <2>2 DEF SharesMove
<1>12. seedLocked'[c][x] = n
  BY <1>1 DEF AMMTypeOK
<1> QED BY <1>0, <1>9, <1>11, <1>12 DEF Pooled

(* The calls of the pools, all but the switch of the close gate.           *)
PoolTrades ==
    \/ \E c \in Conditions, n \in SeedAmounts, a \in Holders : seedPoolFor(c, n, a)
    \/ \E a \in Holders, c \in Conditions, n \in TradeAmounts :
          \/ \E o \in Outcomes : buyWithUSDC(a, c, o, n) \/ sellToUSDC(a, c, o, n)
          \/ addLiquidity(a, c, n)
    \/ \E a \in Holders, c \in Conditions, k \in ShareAmounts : removeLiquidity(a, c, k)

LEMMA TradesArePooled ==
    ASSUME AMMTypeOK, PoolsOK, PoolTrades
    PROVE  PoolCallUnchanged /\ \E a \in Holders, c \in Conditions, x \in Holders, k \in Int : Pooled(a, c, x, k)
                                     /\ (c \in prepared \/ pools[c].exists)
<1> USE InputsAssumption
<1>1. ASSUME NEW c \in Conditions, NEW n \in SeedAmounts, NEW x \in Holders, seedPoolFor(c, n, x)
      PROVE  PoolCallUnchanged /\ c \in prepared /\ Pooled(operator, c, x, n) /\ n \in Int
  <2>1. /\ CanSeed(c, n, closeTime[c]) /\ c \in prepared /\ ~isResolved(c) /\ Seeded(c, n, x, closeTime[c])
        /\ PoolCallUnchanged /\ n \in Nat /\ operator \in Holders /\ closeTime[c] \in Nat
        /\ Settle(operator, c, n, 0, 0, n, NoPayout)
    BY <1>1, SeedAmountsAssumption, Addresses DEF seedPoolFor, AMMTypeOK
  <2>2. Settle(operator, c, n + 0, 0, 0, n, NoPayout)
    <3>1. n + 0 = n
      BY <2>1
    <3> QED BY <2>1, <3>1
  <2>3. closeTime'[c] = closeTime[c]
    BY <2>1 DEF PoolCallUnchanged
  <2> QED BY <2>1, <2>2, <2>3, SeedMove
<1>2. ASSUME NEW a \in Holders, NEW c \in Conditions, NEW o \in Outcomes, NEW n \in TradeAmounts,
             buyWithUSDC(a, c, o, n)
      PROVE  PoolCallUnchanged /\ Pooled(a, c, a, 0) /\ pools[c].exists
  <2>1. PoolCallUnchanged /\ n \in Nat
    BY <1>2 DEF buyWithUSDC
  <2>2. pools[c].exists
    BY <1>2 DEF buyWithUSDC, _buy
  <2> QED BY <1>2, <2>1, <2>2, BuyMove
<1>3. ASSUME NEW a \in Holders, NEW c \in Conditions, NEW o \in Outcomes, NEW n \in TradeAmounts,
             sellToUSDC(a, c, o, n)
      PROVE  PoolCallUnchanged /\ Pooled(a, c, a, 0) /\ pools[c].exists
  <2>1. PoolCallUnchanged /\ n \in Nat
    BY <1>3 DEF sellToUSDC
  <2>2. pools[c].exists
    <3> DEFINE m == _sell(pools[c], o, n)
    <3>1. m \in Nat /\ (m > 0 => pools[c].exists)
      BY <2>1, PoolTyped, SellBounds
    <3>2. m > Fees(m)
      BY <1>3 DEF sellToUSDC
    <3>3. Fees(m) \in Nat
      BY <3>1, FeesAreNat
    <3> HIDE DEF m
    <3> QED BY <3>1, <3>2, <3>3
  <2> QED BY <1>3, <2>1, <2>2, SellMove
<1>4. ASSUME NEW a \in Holders, NEW c \in Conditions, NEW n \in TradeAmounts, addLiquidity(a, c, n)
      PROVE  PoolCallUnchanged /\ (\E k \in Nat : Pooled(a, c, a, k)) /\ pools[c].exists
  <2>1. PoolCallUnchanged /\ n \in Nat /\ pools[c].exists
    BY <1>4 DEF addLiquidity
  <2> QED BY SMTT(60), <1>4, <2>1, AddMove
<1>5. ASSUME NEW a \in Holders, NEW c \in Conditions, NEW k \in ShareAmounts, removeLiquidity(a, c, k)
      PROVE  PoolCallUnchanged /\ Pooled(a, c, a, -k) /\ -k \in Int /\ pools[c].exists
  <2>1. PoolCallUnchanged /\ k \in Nat /\ pools[c].exists
    BY <1>5 DEF removeLiquidity
  <2> QED BY SMTT(60), <1>5, <2>1, RemoveMove
<1>6. operator \in Holders /\ 0 \in Int /\ Nat \subseteq Int
  BY Addresses
<1> QED BY <1>1, <1>2, <1>3, <1>4, <1>5, <1>6 DEF PoolTrades

(* A pool's money moves: everything stays typed, the vault loses nothing,  *)
(* and what the contract holds beyond what its pools promise is unchanged. *)
LEMMA PooledEffect ==
    ASSUME CTFTypeOK, AMMTypeOK, NEW a \in Holders, NEW c \in Conditions,
           NEW in, NEW toVault, NEW out, NEW sets, NEW tokens, NEW q,
           PoolMove(a, c, in, toVault, out, sets, tokens, q)
    PROVE  /\ usdc' \in [Accounts -> Nat] /\ usdc'[Vault] >= usdc[Vault]
           /\ usdc'[AMM] = usdc[AMM] + q.lpFees - pools[c].lpFees
           /\ pot' \in Nat /\ balanceOf' \in [Accounts -> [Conditions -> [Outcomes -> Nat]]]
           /\ pools' \in [Conditions -> Pool] /\ pools'[c] = q /\ q \in Pool
           /\ \A d \in Conditions \ {c} : pools'[d] = pools[d] /\ balanceOf'[AMM][d] = balanceOf[AMM][d]
           /\ \A o \in Outcomes :
                 balanceOf'[AMM][c][o] - q.reserve[o] = balanceOf[AMM][c][o] - pools[c].reserve[o]
<1>1. /\ in \in Nat /\ toVault \in Nat /\ out \in Nat /\ sets \in Int /\ tokens \in [Outcomes -> Int]
      /\ Settle(a, c, in, toVault, out, sets, tokens)
      /\ pools' = [pools EXCEPT ![c] = q] /\ q \in Pool
      /\ \A o \in Outcomes : q.reserve[o] = pools[c].reserve[o] + sets + tokens[o]
      /\ q.lpFees = pools[c].lpFees + in - toVault - out - sets
  BY DEF PoolMove
<1>2. /\ usdc' \in [Accounts -> Nat]
      /\ usdc'[AMM] = usdc[AMM] + in - toVault - out - sets
      /\ usdc'[Vault] = usdc[Vault] + toVault
      /\ pot' \in Nat
      /\ balanceOf' \in [Accounts -> [Conditions -> [Outcomes -> Nat]]]
      /\ \A o \in Outcomes : balanceOf'[AMM][c][o] = balanceOf[AMM][c][o] + sets + tokens[o]
      /\ \A x \in Accounts, d \in Conditions \ {c} : balanceOf'[x][d] = balanceOf[x][d]
  BY <1>1, SettleEffect
<1>3. /\ usdc[AMM] \in Nat /\ usdc[Vault] \in Nat /\ pools[c].lpFees \in Nat /\ AMM \in Accounts
      /\ \A o \in Outcomes : balanceOf[AMM][c][o] \in Nat /\ pools[c].reserve[o] \in Nat
      /\ pools \in [Conditions -> Pool]
  BY Addresses, PoolTyped DEF CTFTypeOK, AMMTypeOK, Pool
<1>4. pools' \in [Conditions -> Pool] /\ pools'[c] = q /\ \A d \in Conditions \ {c} : pools'[d] = pools[d]
  BY <1>1, <1>3
<1>5. usdc'[AMM] = usdc[AMM] + q.lpFees - pools[c].lpFees /\ usdc'[Vault] >= usdc[Vault]
  BY <1>1, <1>2, <1>3
<1>6. ASSUME NEW o \in Outcomes
      PROVE  balanceOf'[AMM][c][o] - q.reserve[o] = balanceOf[AMM][c][o] - pools[c].reserve[o]
  <2>1. tokens[o] \in Int /\ balanceOf[AMM][c][o] \in Nat /\ pools[c].reserve[o] \in Nat
    BY <1>1, <1>3
  <2>2. /\ q.reserve[o] = pools[c].reserve[o] + sets + tokens[o]
        /\ balanceOf'[AMM][c][o] = balanceOf[AMM][c][o] + sets + tokens[o]
    BY <1>1, <1>2
  <2> QED BY <1>1, <2>1, <2>2
<1> QED BY <1>1, <1>2, <1>3, <1>4, <1>5, <1>6

LEMMA SharesEffect ==
    ASSUME AMMTypeOK, NEW c \in Conditions, NEW x, NEW k, NEW q, q \in Pool, pools' = [pools EXCEPT ![c] = q],
           q.exists, SharesMove(c, x, k, q), PoolsOK
    PROVE  /\ lpBalance' \in [Conditions -> [Holders -> Nat]] /\ seedLocked' \in [Conditions -> [Holders -> Nat]]
           /\ \A d \in Conditions \ {c} : lpBalance'[d] = lpBalance[d] /\ seedLocked'[d] = seedLocked[d]
           /\ \A y \in Holders \ {x} : lpBalance'[c][y] = lpBalance[c][y] /\ seedLocked'[c][y] = seedLocked[c][y]
           /\ lpBalance'[c][x] = lpBalance[c][x] + k /\ x \in Holders /\ k \in Int
<1>1. /\ x \in Holders /\ k \in Int /\ lpBalance[c][x] + k >= 0
      /\ lpBalance' = [lpBalance EXCEPT ![c][x] = @ + k]
      /\ UNCHANGED seedLocked \/ (k >= MIN_LP /\ seedLocked' = [seedLocked EXCEPT ![c][x] = k])
  BY DEF SharesMove
<1>2. lpBalance \in [Conditions -> [Holders -> Nat]] /\ seedLocked \in [Conditions -> [Holders -> Nat]]
  BY DEF AMMTypeOK
<1> DEFINE now1 == lpBalance[c][x] + k
<1>3. now1 \in Nat
  BY <1>1, <1>2
<1>4. lpBalance' = [lpBalance EXCEPT ![c][x] = now1]
  BY <1>1, <1>2
<1> HIDE DEF now1
<1>5. /\ lpBalance' \in [Conditions -> [Holders -> Nat]] /\ lpBalance'[c][x] = now1
      /\ \A d \in Conditions \ {c} : lpBalance'[d] = lpBalance[d]
      /\ \A y \in Holders \ {x} : lpBalance'[c][y] = lpBalance[c][y]
  BY <1>1, <1>2, <1>3, <1>4
<1>6. /\ seedLocked' \in [Conditions -> [Holders -> Nat]]
      /\ \A d \in Conditions \ {c} : seedLocked'[d] = seedLocked[d]
      /\ \A y \in Holders \ {x} : seedLocked'[c][y] = seedLocked[c][y]
  <2>1. CASE UNCHANGED seedLocked
    BY <1>2, <2>1
  <2>2. CASE k >= MIN_LP /\ seedLocked' = [seedLocked EXCEPT ![c][x] = k]
    <3>1. k \in Nat
      BY <1>1, <2>2, AMMFeesAssumption
    <3> QED BY <1>1, <1>2, <2>2, <3>1
  <2> QED BY <1>1, <2>1, <2>2
<1> QED BY <1>1, <1>5, <1>6 DEF now1

----------------------------------------------------------------------------
(* Listing a market: what the three ways to do it have in common.          *)
Created(c, close, type) ==
    /\ c \in Conditions \ DOMAIN LegacyMarkets /\ close \in Nat /\ close > now
    /\ c \notin prepared /\ closeTime[c] = 0
    /\ prepared' = prepared \cup {c}
    /\ closeTime' = [closeTime EXCEPT ![c] = close]
    /\ \E parent \in Conditions \cup {NoParent} :
          /\ ParentAllows(parent, close)
          /\ markets' = With(markets, c, [parent |-> parent, closeTime |-> close, type |-> type, paused |-> FALSE])
    /\ type \in {"primary", "wildcard", "user"}
    /\ UNCHANGED <<isApprovedForAll, payoutVars, now, revenueVars, closeGate, permissionless, listerAllowed, config>>

Unseeded == UNCHANGED <<usdc, pot, balanceOf, pools, lpBalance, seedLocked>>

SeedRecorded(a, c, n) ==
    /\ c \in DOMAIN UserCreator /\ UserCreator[c] = a /\ n \in Nat /\ n >= MIN_LP
    /\ lastListedAt' = [lastListedAt EXCEPT ![a] = now]
    /\ seedOf' = With(seedOf, c, n) /\ seedLocked'[c][a] = n

Listed(c, close, type) ==
    /\ Created(c, close, type)
    /\ \/ /\ type = "wildcard" /\ Unseeded /\ UNCHANGED <<lastListedAt, seedOf>>
       \/ \E a \in Holders, n \in Nat :
             /\ Pooled(a, c, a, n) /\ ~pools[c].exists
             /\ \/ type # "user" /\ UNCHANGED <<lastListedAt, seedOf>>
                \/ type = "user" /\ SeedRecorded(a, c, n)

SettingsChange ==
    \/ \E c \in Conditions, paused \in BOOLEAN : setPaused(c, paused)
    \/ \E enabled \in BOOLEAN : setPermissionless(enabled)
    \/ \E a \in Holders, allowed \in BOOLEAN : setLister(a, allowed)
    \/ \E g \in Configs : setListingConfig(g)
    \/ \E S \in SUBSET DOMAIN LegacyMarkets : S # {} /\ importLegacyMarkets(S)

ResolvedPrepared == \A c \in Conditions : isResolved(c) => c \in prepared

LEMMA CreateCreated ==
    ASSUME AMMTypeOK, NEW c \in Conditions \ DOMAIN LegacyMarkets, NEW parent \in Conditions \cup {NoParent},
           NEW close \in 1..MaxTime, NEW type \in {"primary", "wildcard", "user"}, _create(c, parent, close, type)
    PROVE  Created(c, close, type) /\ closeTime'[c] = close
<1>1. close \in Nat
  BY CooldownAssumption
<1>2. closeTime'[c] = close
  BY DEF _create, AMMTypeOK
<1> QED BY <1>1, <1>2 DEF _create, Created

LEMMA SeedPooled ==
    ASSUME AMMTypeOK, PoolsOK, NEW a \in Holders, NEW c \in Conditions, NEW n \in Nat, NEW fee \in Nat,
           NEW close \in Nat, _seed(a, c, n, fee, close), closeTime'[c] = close, ~isResolved(c)
    PROVE  Pooled(a, c, a, n) /\ ~pools[c].exists /\ n >= MIN_LP /\ seedLocked'[c][a] = n
BY SeedMove DEF _seed

LEMMA ListingCases ==
    ASSUME AMMTypeOK, FactoryTypeOK, PoolsOK, ResolvedPrepared, ListingCalls
    PROVE  SettingsChange \/ \E c \in Conditions, close \in Nat, type \in {"primary", "wildcard", "user"} :
                                Listed(c, close, type)
<1> USE SeedAmountsAssumption, Addresses, CooldownAssumption
<1>0. /\ NoParent \in Conditions \cup {NoParent} /\ 0 \in Nat
      /\ \A n \in SeedAmounts \cup {0} : n \in Nat
  OBVIOUS
<1>1. ASSUME NEW c \in Conditions, NEW close \in 1..MaxTime, NEW n \in SeedAmounts \cup {0},
             createPrimaryMarket(c, close, n)
      PROVE  Listed(c, close, "primary") /\ close \in Nat
  <2>1. /\ c \in Conditions \ DOMAIN LegacyMarkets /\ _create(c, NoParent, close, "primary")
        /\ _seed(operator, c, n, 0, close) /\ UNCHANGED <<lastListedAt, seedOf>>
    BY <1>1, LegacyAssumption DEF createPrimaryMarket
  <2>2. Created(c, close, "primary") /\ closeTime'[c] = close
    BY <1>0, <2>1, CreateCreated
  <2>3. ~isResolved(c) /\ close \in Nat
    BY <2>2 DEF Created, ResolvedPrepared
  <2>4. Pooled(operator, c, operator, n) /\ ~pools[c].exists
    BY <1>0, <2>1, <2>2, <2>3, SeedPooled
  <2> QED BY <1>0, <2>1, <2>2, <2>3, <2>4 DEF Listed
<1>2. ASSUME NEW c \in Conditions, NEW close \in 1..MaxTime, NEW n \in SeedAmounts \cup {0},
             NEW a \in Holders, NEW parent \in Conditions, createWildcardMarket(a, c, parent, close, n)
      PROVE  Listed(c, close, "wildcard") /\ close \in Nat
  <2>1. /\ c \in Conditions \ DOMAIN LegacyMarkets /\ _create(c, parent, close, "wildcard")
        /\ IF n > 0 THEN _seed(a, c, n, 0, close) ELSE Unseeded
        /\ UNCHANGED <<lastListedAt, seedOf>>
    BY <1>2, LegacyAssumption DEF createWildcardMarket, Unseeded
  <2>2. Created(c, close, "wildcard") /\ closeTime'[c] = close
    BY <2>1, CreateCreated
  <2>3. ~isResolved(c) /\ close \in Nat
    BY <2>2 DEF Created, ResolvedPrepared
  <2>4. CASE n > 0
    <3>1. Pooled(a, c, a, n) /\ ~pools[c].exists
      BY <1>0, <2>1, <2>2, <2>3, <2>4, SeedPooled
    <3> QED BY <1>0, <2>1, <2>2, <2>3, <3>1 DEF Listed
  <2>5. CASE ~(n > 0)
    BY <2>1, <2>2, <2>3, <2>5 DEF Listed
  <2> QED BY <2>4, <2>5
<1>3. ASSUME NEW c \in Conditions, NEW close \in 1..MaxTime, NEW n \in SeedAmounts \cup {0},
             NEW a \in Holders, createPermissionlessMarket(a, c, close, n)
      PROVE  Listed(c, close, "user") /\ close \in Nat
  <2>1. /\ c \in Conditions \ DOMAIN LegacyMarkets /\ _create(c, NoParent, close, "user")
        /\ _seed(a, c, n, config.listingFee, close)
        /\ c \in DOMAIN UserCreator /\ UserCreator[c] = a
        /\ lastListedAt' = [lastListedAt EXCEPT ![a] = now] /\ seedOf' = With(seedOf, c, n)
    BY <1>3, LegacyAssumption DEF createPermissionlessMarket
  <2>2. Created(c, close, "user") /\ closeTime'[c] = close
    BY <1>0, <2>1, CreateCreated
  <2>3. ~isResolved(c) /\ close \in Nat /\ config.listingFee \in Nat
    BY <2>2, ConfigsAssumption DEF Created, ResolvedPrepared, FactoryTypeOK
  <2>4. Pooled(a, c, a, n) /\ ~pools[c].exists /\ n >= MIN_LP /\ seedLocked'[c][a] = n
    BY <1>0, <2>1, <2>2, <2>3, SeedPooled
  <2>5. SeedRecorded(a, c, n)
    BY <1>0, <2>1, <2>4 DEF SeedRecorded
  <2> QED BY <1>0, <2>2, <2>3, <2>4, <2>5 DEF Listed
<1> QED BY <1>1, <1>2, <1>3 DEF ListingCalls, SettingsChange

----------------------------------------------------------------------------
(* What the other proofs stand on: the storage, and pools that agree with  *)
(* the ledger and the oracle.                                              *)
VenueInv == VenueTypeOK /\ PoolsOK /\ ResolvedPrepared

LEMMA PooledStep ==
    ASSUME CTFTypeOK, AMMTypeOK, PoolsOK, NEW a \in Holders, NEW c \in Conditions, NEW x, NEW k,
           Pooled(a, c, x, k), prepared \subseteq prepared', prepared' \subseteq Conditions, c \in prepared',
           closeTime' \in [Conditions -> Nat], closeGate' \in BOOLEAN, UNCHANGED <<isApprovedForAll, payoutVars>>,
           closeTime'[c] = closeTime[c] \/ ~pools[c].exists,
           \A d \in Conditions \ {c} : closeTime'[d] = closeTime[d]
    PROVE  CTFTypeOK' /\ AMMTypeOK' /\ PoolsOK' /\ usdc'[Vault] >= usdc[Vault] /\ pools'[c].exists
<1>1. PICK in, toVault, out, sets, tokens, q :
         PoolMove(a, c, in, toVault, out, sets, tokens, q) /\ SharesMove(c, x, k, q)
  BY DEF Pooled
<1>2. /\ usdc' \in [Accounts -> Nat] /\ usdc'[Vault] >= usdc[Vault]
      /\ pot' \in Nat /\ balanceOf' \in [Accounts -> [Conditions -> [Outcomes -> Nat]]]
      /\ pools' \in [Conditions -> Pool] /\ pools'[c] = q /\ q \in Pool
      /\ \A d \in Conditions \ {c} : pools'[d] = pools[d]
  BY <1>1, PooledEffect
<1>3. /\ pools' = [pools EXCEPT ![c] = q] /\ q.exists /\ \A o \in Outcomes : q.reserve[o] > 0
      /\ q.closeTime = IF pools[c].exists THEN pools[c].closeTime ELSE closeTime'[c]
  BY <1>1 DEF PoolMove
<1>4. /\ lpBalance' \in [Conditions -> [Holders -> Nat]] /\ seedLocked' \in [Conditions -> [Holders -> Nat]]
      /\ \A d \in Conditions \ {c} : lpBalance'[d] = lpBalance[d] /\ seedLocked'[d] = seedLocked[d]
  BY <1>1, <1>2, <1>3, SharesEffect
<1>5. CTFTypeOK'
  BY <1>2 DEF CTFTypeOK, payoutVars
<1>6. AMMTypeOK'
  BY <1>2, <1>4 DEF AMMTypeOK, Pool
<1>7. PoolsOK'
  <2> SUFFICES ASSUME NEW d \in Conditions PROVE PoolOK(d)'
    BY DEF PoolsOK
  <2>0. PoolOK(d)
    BY DEF PoolsOK
  <2>1. CASE d = c
    <3>1. q.lpSupply >= MIN_LP
      BY <1>1 DEF SharesMove
    <3>2. q.closeTime = closeTime'[c]
      BY <1>3, <2>0, <2>1 DEF PoolOK
    <3> QED BY <1>2, <1>3, <2>1, <3>1, <3>2 DEF PoolOK
  <2>2. CASE d # c
    <3>1. pools'[d] = pools[d] /\ lpBalance'[d] = lpBalance[d] /\ seedLocked'[d] = seedLocked[d]
          /\ closeTime'[d] = closeTime[d]
      BY <1>2, <1>4, <2>2
    <3> QED BY <2>0, <3>1 DEF PoolOK
  <2> QED BY <2>1, <2>2
<1>8. pools'[c].exists
  BY <1>2, <1>3
<1> QED BY <1>2, <1>5, <1>6, <1>7, <1>8

LEMMA PoolsSame ==
    ASSUME PoolsOK, UNCHANGED <<closeTime, pools, lpBalance, seedLocked>>, prepared \subseteq prepared'
    PROVE  PoolsOK'
BY DEF PoolsOK, PoolOK

LEMMA LedgerPrepares ==
    ASSUME CTFTypeOK, ResolvedPrepared, LedgerCalls
    PROVE  prepared \subseteq prepared' /\ ResolvedPrepared'
<1>1. ASSUME NEW c \in Conditions, prepareCondition(c)
      PROVE  prepared \subseteq prepared' /\ ResolvedPrepared'
  BY <1>1 DEF prepareCondition, payoutVars, ResolvedPrepared, isResolved
<1>2. ASSUME UNCHANGED <<prepared, payoutVars>>
      PROVE  prepared \subseteq prepared' /\ ResolvedPrepared'
  BY <1>2 DEF payoutVars, ResolvedPrepared, isResolved
<1>3. ASSUME NEW s \in Oracles, NEW c \in Conditions, NEW v, reportPayouts(s, c, v)
      PROVE  prepared \subseteq prepared' /\ ResolvedPrepared'
  <2>1. /\ c \in prepared /\ prepared' = prepared
        /\ payoutDenominator' = [payoutDenominator EXCEPT ![c] = v[YES] + v[NO]]
    BY <1>3 DEF reportPayouts, tokenVars
  <2>2. \A d \in Conditions \ {c} : payoutDenominator'[d] = payoutDenominator[d]
    BY <2>1 DEF CTFTypeOK
  <2> QED BY <2>1, <2>2 DEF ResolvedPrepared, isResolved
<1>4. \A c \in Conditions, o \in Outcomes : _resolve(c, o) => reportPayouts(Consensus, c, Only(o, 1))
  BY DEF _resolve
<1> QED BY <1>1, <1>2, <1>3, <1>4, ConsensusAssumption
        DEF LedgerCalls, splitPosition, mergePositions, redeemPositions, setApprovalForAll, safeTransferFrom

LEMMA WithEffect ==
    ASSUME NEW f, NEW c, NEW v
    PROVE  /\ DOMAIN With(f, c, v) = DOMAIN f \cup {c} /\ With(f, c, v)[c] = v
           /\ \A x \in DOMAIN f \ {c} : With(f, c, v)[x] = f[x]
BY DEF With

LEMMA CreatedFactory ==
    ASSUME FactoryTypeOK, NEW c \in Conditions, NEW close \in Nat, NEW type, Created(c, close, type)
    PROVE  /\ DOMAIN markets' = DOMAIN markets \cup {c}
           /\ \A x \in DOMAIN markets' : markets'[x] \in Market
           /\ permissionless' \in BOOLEAN /\ listerAllowed' \subseteq Holders /\ config' \in Configs
<1>1. PICK parent \in Conditions \cup {NoParent} :
         markets' = With(markets, c, [parent |-> parent, closeTime |-> close, type |-> type, paused |-> FALSE])
  BY DEF Created
<1> DEFINE m == [parent |-> parent, closeTime |-> close, type |-> type, paused |-> FALSE]
<1>2. m \in Market
  BY DEF Market, Created
<1>2a. markets' = With(markets, c, m)
  BY <1>1
<1> HIDE DEF m
<1>3. DOMAIN markets' = DOMAIN markets \cup {c} /\ markets'[c] = m
      /\ \A x \in DOMAIN markets \ {c} : markets'[x] = markets[x]
  BY <1>2a DEF With
<1>4. \A x \in DOMAIN markets' : markets'[x] \in Market
  BY <1>2, <1>3 DEF FactoryTypeOK
<1> QED BY <1>3, <1>4 DEF Created, FactoryTypeOK

LEMMA ListedStep ==
    ASSUME CTFTypeOK, AMMTypeOK, FactoryTypeOK, PoolsOK, ResolvedPrepared, now \in Nat, NEW c \in Conditions,
           NEW close \in Nat, NEW type \in {"primary", "wildcard", "user"}, Listed(c, close, type)
    PROVE  /\ CTFTypeOK' /\ AMMTypeOK' /\ FactoryTypeOK' /\ PoolsOK' /\ ResolvedPrepared'
           /\ usdc'[Vault] >= usdc[Vault] /\ UNCHANGED <<now, revenueVars>>
           /\ type # "wildcard" => pools'[c].exists
<1>1. Created(c, close, type)
  BY DEF Listed
<1>2. /\ prepared' = prepared \cup {c} /\ closeTime' = [closeTime EXCEPT ![c] = close]
      /\ c \notin prepared
      /\ UNCHANGED <<isApprovedForAll, payoutVars, now, revenueVars, closeGate>>
  BY <1>1 DEF Created
<1>3. /\ closeTime' \in [Conditions -> Nat] /\ closeGate' \in BOOLEAN
      /\ \A d \in Conditions \ {c} : closeTime'[d] = closeTime[d]
      /\ prepared' \subseteq Conditions
  BY <1>2 DEF AMMTypeOK, CTFTypeOK
<1>4. ResolvedPrepared'
  BY <1>2 DEF ResolvedPrepared, isResolved, payoutVars
<1>5. ~pools[c].exists
  BY <1>2 DEF PoolsOK, PoolOK
<1>6. /\ CTFTypeOK' /\ AMMTypeOK' /\ PoolsOK' /\ usdc'[Vault] >= usdc[Vault]
      /\ type # "wildcard" => pools'[c].exists
  <2>1. CASE type = "wildcard" /\ Unseeded
    <3>1. CTFTypeOK' /\ AMMTypeOK' /\ usdc'[Vault] >= usdc[Vault]
      BY <1>2, <1>3, <2>1, Addresses DEF Unseeded, CTFTypeOK, AMMTypeOK, payoutVars
    <3>2. PoolsOK'
      <4> SUFFICES ASSUME NEW d \in Conditions PROVE PoolOK(d)'
        BY DEF PoolsOK
      <4>1. PoolOK(d) /\ (d = c => ~pools[d].exists)
        BY <1>5 DEF PoolsOK
      <4>2. UNCHANGED <<pools, lpBalance, seedLocked>> /\ prepared \subseteq prepared'
        BY <1>2, <2>1 DEF Unseeded
      <4>3. d # c => closeTime'[d] = closeTime[d]
        BY <1>3
      <4> QED BY <4>1, <4>2, <4>3 DEF PoolOK
    <3> QED BY <2>1, <3>1, <3>2
  <2>2. ASSUME NEW a \in Holders, NEW n \in Nat, Pooled(a, c, a, n)
        PROVE  CTFTypeOK' /\ AMMTypeOK' /\ PoolsOK' /\ usdc'[Vault] >= usdc[Vault] /\ pools'[c].exists
    BY <1>2, <1>3, <1>5, <2>2, PooledStep
  <2> QED BY <2>1, <2>2 DEF Listed
<1>7. FactoryTypeOK'
  <2>1. /\ DOMAIN markets' = DOMAIN markets \cup {c}
        /\ \A x \in DOMAIN markets' : markets'[x] \in Market
        /\ permissionless' \in BOOLEAN /\ listerAllowed' \subseteq Holders /\ config' \in Configs
    BY <1>1, CreatedFactory
  <2>2. lastListedAt' \in [Holders -> Nat] /\ DOMAIN seedOf' \subseteq DOMAIN markets'
    <3>1. CASE UNCHANGED <<lastListedAt, seedOf>>
      BY <2>1, <3>1 DEF FactoryTypeOK
    <3>2. ASSUME NEW a \in Holders, NEW n \in Nat, SeedRecorded(a, c, n)
          PROVE  lastListedAt' \in [Holders -> Nat] /\ DOMAIN seedOf' \subseteq DOMAIN markets'
      <4>1. DOMAIN seedOf' = DOMAIN seedOf \cup {c}
        BY <3>2, WithEffect DEF SeedRecorded
      <4> QED BY <2>1, <3>2, <4>1 DEF SeedRecorded, FactoryTypeOK
    <3> QED BY <3>1, <3>2 DEF Listed
  <2> QED BY <2>1, <2>2 DEF FactoryTypeOK
<1> QED BY <1>2, <1>4, <1>6, <1>7

LEMMA SettingsStep ==
    ASSUME FactoryTypeOK, SettingsChange
    PROVE  FactoryTypeOK' /\ UNCHANGED <<vaultVars, ammVars, lastListedAt, seedOf>>
<1>1. ASSUME NEW c \in Conditions, NEW paused \in BOOLEAN, setPaused(c, paused)
      PROVE  FactoryTypeOK' /\ UNCHANGED <<vaultVars, ammVars, lastListedAt, seedOf>>
  <2>1. DOMAIN markets' = DOMAIN markets /\ \A x \in DOMAIN markets : markets'[x] \in Market
    <3> SUFFICES ASSUME NEW x \in DOMAIN markets PROVE markets'[x] \in Market
      BY <1>1 DEF setPaused
    <3>1. markets[x] \in Market /\ markets[c] \in Market
      BY <1>1 DEF setPaused, FactoryTypeOK
    <3>2. [markets[c] EXCEPT !.paused = paused] \in Market
      BY <3>1 DEF Market
    <3>3. markets'[x] = IF x = c THEN [markets[c] EXCEPT !.paused = paused] ELSE markets[x]
      BY <1>1 DEF setPaused
    <3> QED BY <3>1, <3>2, <3>3
  <2> QED BY <1>1, <2>1 DEF setPaused, FactoryTypeOK
<1>2. ASSUME NEW enabled \in BOOLEAN, setPermissionless(enabled)
      PROVE  FactoryTypeOK' /\ UNCHANGED <<vaultVars, ammVars, lastListedAt, seedOf>>
  BY <1>2 DEF setPermissionless, FactoryTypeOK
<1>3. ASSUME NEW a \in Holders, NEW allowed \in BOOLEAN, setLister(a, allowed)
      PROVE  FactoryTypeOK' /\ UNCHANGED <<vaultVars, ammVars, lastListedAt, seedOf>>
  BY <1>3 DEF setLister, FactoryTypeOK
<1>4. ASSUME NEW g \in Configs, setListingConfig(g)
      PROVE  FactoryTypeOK' /\ UNCHANGED <<vaultVars, ammVars, lastListedAt, seedOf>>
  BY <1>4 DEF setListingConfig, FactoryTypeOK
<1>5. ASSUME NEW S \in SUBSET DOMAIN LegacyMarkets, importLegacyMarkets(S)
      PROVE  FactoryTypeOK' /\ UNCHANGED <<vaultVars, ammVars, lastListedAt, seedOf>>
  BY <1>5, LegacyAssumption DEF importLegacyMarkets, FactoryTypeOK
<1> QED BY <1>1, <1>2, <1>3, <1>4, <1>5 DEF SettingsChange

LEMMA BookStep ==
    ASSUME CTFTypeOK, BookTypeOK, BookCalls
    PROVE  /\ CTFTypeOK' /\ BookTypeOK' /\ NothingTaken
           /\ UNCHANGED <<pot, isApprovedForAll, prepared, payoutVars, now, revenueVars>>
<1>1. ASSUME NEW a \in Holders, NEW o \in Orders, cancelOrder(a, o)
      PROVE  /\ CTFTypeOK' /\ BookTypeOK' /\ NothingTaken
             /\ UNCHANGED <<pot, isApprovedForAll, prepared, payoutVars, now, revenueVars>>
  BY <1>1, SameIsNothingTaken DEF cancelOrder, vaultVars, ctfVars, CTFTypeOK, BookTypeOK, payoutVars
<1>2. ASSUME NEW a \in Holders, incrementNonce(a)
      PROVE  /\ CTFTypeOK' /\ BookTypeOK' /\ NothingTaken
             /\ UNCHANGED <<pot, isApprovedForAll, prepared, payoutVars, now, revenueVars>>
  BY <1>2, SameIsNothingTaken DEF incrementNonce, vaultVars, ctfVars, CTFTypeOK, BookTypeOK, payoutVars
<1>3. ASSUME NEW t \in Orders, NEW m \in Orders, NEW n \in Amounts, matchOrders(t, m, n)
      PROVE  /\ CTFTypeOK' /\ BookTypeOK' /\ NothingTaken
             /\ UNCHANGED <<pot, isApprovedForAll, prepared, payoutVars, now, revenueVars>>
  <2>1. UNCHANGED <<pot, isApprovedForAll, prepared, payoutVars, now, revenueVars>>
    BY <1>3, MatchUnfolded
  <2> QED BY <1>3, <2>1, MatchStep
<1> QED BY <1>1, <1>2, <1>3 DEF BookCalls

(* A step of anything but the vault is what the vault supposes of others.  *)
LEMMA OthersAreElsewhere ==
    ASSUME CTFTypeOK', usdc'[Vault] >= usdc[Vault], UNCHANGED <<now, revenueVars>>
    PROVE  Elsewhere
BY DEF CTFTypeOK, Elsewhere

LEMMA ElsewhereTyped ==
    ASSUME VaultTypeOK, VaultNext
    PROVE  VaultTypeOK'
BY VaultTypeStep

LEMMA VaultCallsStep ==
    ASSUME CTFTypeOK, VaultTypeOK,
           HolderCalls \/ Tick \/ \E a \in Holders, n \in Amounts : SendUSDC(a, Vault, n)
    PROVE  /\ VaultNext /\ CTFTypeOK' /\ VaultTypeOK' /\ usdc'[AMM] >= usdc[AMM]
           /\ UNCHANGED <<pot, balanceOf, isApprovedForAll, prepared, payoutVars>>
<1> USE Addresses, AmountsAssumption
<1>0. usdc \in [Accounts -> Nat] /\ usdc[AMM] \in Nat
  BY DEF CTFTypeOK
<1>1. ASSUME NEW a \in Holders, NEW n \in Amounts, SendUSDC(a, Vault, n)
      PROVE  /\ VaultNext /\ usdc'[AMM] >= usdc[AMM]
             /\ UNCHANGED <<pot, balanceOf, isApprovedForAll, prepared, payoutVars>>
  <2>1. usdc' = Paid(usdc, a, Vault, n) /\ usdc[a] >= n /\ n \in Nat /\ a \in Accounts
    BY <1>1 DEF SendUSDC
  <2>2. usdc' \in [Accounts -> Nat] /\ usdc'[Vault] = usdc[Vault] + n /\ usdc'[AMM] = usdc[AMM]
    <3>1. /\ Paid(usdc, a, Vault, n) \in [Accounts -> Nat]
          /\ \A z \in Accounts \ {a} : Paid(usdc, a, Vault, n)[z] = IF z = Vault THEN usdc[z] + n ELSE usdc[z]
      BY SMTT(60), <1>0, <2>1, PaidEffect
    <3> QED BY <2>1, <3>1
  <2>3. Elsewhere
    BY <1>0, <1>1, <2>1, <2>2 DEF SendUSDC, Elsewhere
  <2> QED BY <1>0, <1>1, <2>2, <2>3 DEF SendUSDC, VaultNext
<1>2. ASSUME NEW a \in Holders, claim(a)
      PROVE  /\ VaultNext /\ usdc'[AMM] >= usdc[AMM]
             /\ UNCHANGED <<pot, balanceOf, isApprovedForAll, prepared, payoutVars>>
  <2> DEFINE n == requests[a].amount
  <2>1. usdc' = Paid(usdc, Vault, a, Share(n)) /\ usdc[Vault] >= Share(n) /\ n \in Nat /\ ouSupply # 0
    BY <1>2 DEF claim, VaultTypeOK
  <2>2. Share(n) \in Nat
    BY <2>1, ShareTyped
  <2>3. usdc'[AMM] = usdc[AMM]
    BY <1>0, <2>1, <2>2, PaidEffect
  <2>4. VaultNext
    BY <1>2 DEF VaultNext, HolderCalls
  <2>5. UNCHANGED <<pot, balanceOf, isApprovedForAll, prepared, payoutVars>>
    BY <1>2 DEF claim
  <2> QED BY <1>0, <2>3, <2>4, <2>5
<1>3. CASE Tick \/ (HolderCalls /\ ~\E a \in Holders : claim(a))
  <2>1. UNCHANGED ctfVars
    BY <1>3 DEF Tick, HolderCalls, transfer, burn, requestRedeem
  <2> QED BY <1>0, <1>3, <2>1, ElsewhereTyped DEF ctfVars, VaultNext, CTFTypeOK, payoutVars
<1>4. /\ VaultNext /\ usdc'[AMM] >= usdc[AMM]
      /\ UNCHANGED <<pot, balanceOf, isApprovedForAll, prepared, payoutVars>>
  BY <1>1, <1>2, <1>3 DEF HolderCalls, ctfVars, payoutVars
<1>5. VaultTypeOK'
  BY <1>4, ElsewhereTyped
<1>6. CTFTypeOK'
  BY <1>4, <1>5 DEF CTFTypeOK, VaultTypeOK, payoutVars
<1> QED BY <1>4, <1>5, <1>6

(* The induction step, and what it says of the vault.                      *)
LEMMA VenueStep ==
    ASSUME VenueInv, [Next]_venueVars
    PROVE  VenueInv' /\ [VaultNext]_<<usdc, now, revenueVars>>
<1>0. /\ CTFTypeOK /\ VaultTypeOK /\ BookTypeOK /\ AMMTypeOK /\ FactoryTypeOK /\ PoolsOK /\ ResolvedPrepared
      /\ now \in Nat
  BY DEF VenueInv, VenueTypeOK, VaultTypeOK
<1> DEFINE Goal == VenueInv' /\ [VaultNext]_<<usdc, now, revenueVars>>
<1>1. CASE LedgerCalls /\ UNCHANGED <<now, revenueVars, bookVars, ammVars, factoryVars>>
  <2>1. CTFTypeOK' /\ NothingTaken /\ prepared \subseteq prepared' /\ ResolvedPrepared'
    BY <1>0, <1>1, LedgerStep, LedgerPrepares
  <2>2. Elsewhere
    BY <1>1, <2>1, OthersAreElsewhere DEF NothingTaken
  <2>3. VaultTypeOK'
    BY <1>0, <2>2, ElsewhereTyped DEF VaultNext
  <2>4. PoolsOK'
    BY <1>0, <1>1, <2>1, PoolsSame DEF ammVars, poolVars
  <2>5. BookTypeOK' /\ AMMTypeOK' /\ FactoryTypeOK'
    BY <1>0, <1>1 DEF bookVars, ammVars, poolVars, factoryVars, BookTypeOK, AMMTypeOK, FactoryTypeOK
  <2> QED BY <2>1, <2>2, <2>3, <2>4, <2>5 DEF VenueInv, VenueTypeOK, VaultNext
<1>2. CASE (HolderCalls \/ Tick \/ \E a \in Holders, n \in Amounts : SendUSDC(a, Vault, n))
           /\ UNCHANGED <<bookVars, ammVars, factoryVars>>
  <2>1. VaultNext /\ CTFTypeOK' /\ VaultTypeOK' /\ UNCHANGED <<prepared, payoutVars>>
    BY <1>0, <1>2, VaultCallsStep
  <2>2. PoolsOK' /\ ResolvedPrepared'
    <3>1. UNCHANGED <<closeTime, pools, lpBalance, seedLocked>> /\ prepared' = prepared
      BY <1>2, <2>1 DEF ammVars, poolVars
    <3>2. PoolsOK'
      BY <1>0, <3>1, PoolsSame
    <3> QED BY <1>0, <2>1, <3>2 DEF ResolvedPrepared, isResolved, payoutVars
  <2>3. BookTypeOK' /\ AMMTypeOK' /\ FactoryTypeOK'
    BY <1>0, <1>2 DEF bookVars, ammVars, poolVars, factoryVars, BookTypeOK, AMMTypeOK, FactoryTypeOK
  <2> QED BY <2>1, <2>2, <2>3 DEF VenueInv, VenueTypeOK
<1>3. CASE BookCalls /\ UNCHANGED <<ammVars, factoryVars>>
  <2>1. /\ CTFTypeOK' /\ BookTypeOK' /\ NothingTaken
        /\ UNCHANGED <<pot, isApprovedForAll, prepared, payoutVars, now, revenueVars>>
    BY <1>0, <1>3, BookStep
  <2>2. Elsewhere
    BY <2>1, OthersAreElsewhere DEF NothingTaken
  <2>3. VaultTypeOK'
    BY <1>0, <2>2, ElsewhereTyped DEF VaultNext
  <2>4. PoolsOK' /\ ResolvedPrepared'
    <3>1. UNCHANGED <<closeTime, pools, lpBalance, seedLocked>> /\ prepared' = prepared
      BY <1>3, <2>1 DEF ammVars, poolVars
    <3>2. PoolsOK'
      BY <1>0, <3>1, PoolsSame
    <3> QED BY <1>0, <2>1, <3>2 DEF ResolvedPrepared, isResolved, payoutVars
  <2>5. AMMTypeOK' /\ FactoryTypeOK'
    BY <1>0, <1>3 DEF ammVars, poolVars, factoryVars, AMMTypeOK, FactoryTypeOK
  <2> QED BY <2>1, <2>2, <2>3, <2>4, <2>5 DEF VenueInv, VenueTypeOK, VaultNext
<1>4. CASE PoolTrades /\ UNCHANGED <<bookVars, factoryVars>>
  <2>1. PICK a \in Holders, c \in Conditions, x \in Holders, k \in Int :
           Pooled(a, c, x, k) /\ (c \in prepared \/ pools[c].exists) /\ PoolCallUnchanged
    BY <1>0, <1>4, TradesArePooled
  <2>2. c \in prepared /\ UNCHANGED <<isApprovedForAll, prepared, payoutVars, now, revenueVars, closeTime, closeGate>>
    BY <1>0, <2>1 DEF PoolsOK, PoolOK, PoolCallUnchanged
  <2>3. closeTime' \in [Conditions -> Nat] /\ closeGate' \in BOOLEAN /\ prepared' \subseteq Conditions
    BY <1>0, <2>2 DEF AMMTypeOK, CTFTypeOK
  <2>4. CTFTypeOK' /\ AMMTypeOK' /\ PoolsOK' /\ usdc'[Vault] >= usdc[Vault]
    BY <1>0, <2>1, <2>2, <2>3, PooledStep
  <2>5. Elsewhere
    BY <2>2, <2>4, OthersAreElsewhere
  <2>6. VaultTypeOK'
    BY <1>0, <2>5, ElsewhereTyped DEF VaultNext
  <2>7. ResolvedPrepared'
    BY <1>0, <2>2 DEF ResolvedPrepared, isResolved, payoutVars
  <2>8. BookTypeOK' /\ FactoryTypeOK'
    BY <1>0, <1>4 DEF bookVars, factoryVars, BookTypeOK, FactoryTypeOK
  <2> QED BY <2>4, <2>5, <2>6, <2>7, <2>8 DEF VenueInv, VenueTypeOK, VaultNext
<1>5. ASSUME NEW enabled \in BOOLEAN, setCloseGate(enabled), UNCHANGED <<bookVars, factoryVars>>
      PROVE  Goal
  <2>1. UNCHANGED <<vaultVars, closeTime, pools, lpBalance, seedLocked>> /\ closeGate' \in BOOLEAN
    BY <1>5 DEF setCloseGate
  <2>2. UNCHANGED <<ctfVars, now, revenueVars>>
    BY <2>1 DEF vaultVars
  <2>3. CTFTypeOK' /\ VaultTypeOK' /\ ResolvedPrepared' /\ prepared' = prepared /\ usdc' = usdc
    BY <1>0, <2>2 DEF ctfVars, revenueVars, CTFTypeOK, VaultTypeOK, ResolvedPrepared, isResolved
  <2>4. PoolsOK'
    BY <1>0, <2>1, <2>3, PoolsSame
  <2>5. BookTypeOK' /\ AMMTypeOK' /\ FactoryTypeOK'
    BY <1>0, <1>5, <2>1 DEF bookVars, factoryVars, BookTypeOK, AMMTypeOK, FactoryTypeOK
  <2> QED BY <2>2, <2>3, <2>4, <2>5 DEF VenueInv, VenueTypeOK
<1>6. CASE SettingsChange /\ UNCHANGED bookVars
  <2>1. FactoryTypeOK' /\ UNCHANGED <<vaultVars, ammVars>>
    BY <1>0, <1>6, SettingsStep
  <2>2. UNCHANGED <<ctfVars, now, revenueVars>> /\ UNCHANGED <<closeTime, pools, lpBalance, seedLocked, closeGate>>
    BY <2>1 DEF vaultVars, ammVars, poolVars
  <2>3. CTFTypeOK' /\ VaultTypeOK' /\ ResolvedPrepared' /\ prepared' = prepared /\ usdc' = usdc
    BY <1>0, <2>2 DEF ctfVars, revenueVars, CTFTypeOK, VaultTypeOK, ResolvedPrepared, isResolved
  <2>4. PoolsOK'
    BY <1>0, <2>2, <2>3, PoolsSame
  <2>5. BookTypeOK' /\ AMMTypeOK'
    BY <1>0, <1>6, <2>2 DEF bookVars, BookTypeOK, AMMTypeOK
  <2> QED BY <2>1, <2>2, <2>3, <2>4, <2>5 DEF VenueInv, VenueTypeOK
<1>7. ASSUME NEW c \in Conditions, NEW close \in Nat, NEW type \in {"primary", "wildcard", "user"},
             Listed(c, close, type), UNCHANGED bookVars
      PROVE  Goal
  <2>1. /\ CTFTypeOK' /\ AMMTypeOK' /\ FactoryTypeOK' /\ PoolsOK' /\ ResolvedPrepared'
        /\ usdc'[Vault] >= usdc[Vault] /\ UNCHANGED <<now, revenueVars>>
    BY <1>0, <1>7, ListedStep
  <2>2. Elsewhere
    BY <2>1, OthersAreElsewhere
  <2>3. VaultTypeOK'
    BY <1>0, <2>2, ElsewhereTyped DEF VaultNext
  <2>4. BookTypeOK'
    BY <1>0, <1>7 DEF bookVars, BookTypeOK
  <2> QED BY <2>1, <2>2, <2>3, <2>4 DEF VenueInv, VenueTypeOK, VaultNext
<1>8. CASE UNCHANGED venueVars
  <2>1. /\ UNCHANGED <<ctfVars, now, revenueVars>> /\ UNCHANGED <<bookVars, factoryVars>>
        /\ UNCHANGED <<closeTime, pools, lpBalance, seedLocked, closeGate>>
    BY <1>8 DEF venueVars, vaultVars, ammVars, poolVars
  <2>2. CTFTypeOK' /\ VaultTypeOK' /\ ResolvedPrepared' /\ prepared' = prepared /\ usdc' = usdc
    BY <1>0, <2>1 DEF ctfVars, revenueVars, CTFTypeOK, VaultTypeOK, ResolvedPrepared, isResolved
  <2>3. PoolsOK'
    BY <1>0, <2>1, <2>2, PoolsSame
  <2>4. BookTypeOK' /\ AMMTypeOK' /\ FactoryTypeOK'
    BY <1>0, <2>1 DEF bookVars, factoryVars, BookTypeOK, AMMTypeOK, FactoryTypeOK
  <2> QED BY <2>1, <2>2, <2>3, <2>4 DEF VenueInv, VenueTypeOK
<1>9. PoolCalls => PoolTrades \/ \E enabled \in BOOLEAN : setCloseGate(enabled)
  BY DEF PoolCalls, PoolTrades
<1>10. ListingCalls => SettingsChange \/ \E c \in Conditions, close \in Nat, type \in {"primary", "wildcard", "user"} :
                                            Listed(c, close, type)
  BY <1>0, ListingCases
<1> HIDE DEF Goal
<1>11. Goal
  BY <1>1, <1>2, <1>3, <1>4, <1>5, <1>6, <1>7, <1>8, <1>9, <1>10 DEF Next, Goal
<1> QED BY <1>11 DEF Goal

LEMMA VenueStarts ==
    ASSUME Init
    PROVE  VenueInv /\ usdc \in [Accounts -> Nat] /\ VaultInit
<1>1. /\ usdc = Funds /\ pot = 0
      /\ balanceOf = [a \in Accounts |-> [c \in Conditions |-> NoPayout]]
      /\ isApprovedForAll = [a \in Accounts |-> IF a \in Holders THEN Operators ELSE {}]
      /\ prepared = {}
      /\ payoutNumerators = [c \in Conditions |-> NoPayout]
      /\ payoutDenominator = [c \in Conditions |-> 0]
      /\ VaultInit /\ BookInit /\ AMMInit /\ FactoryInit
  BY DEF Init
<1>2. NoPayout \in [Outcomes -> Nat]
  BY DEF NoPayout
<1>3. CTFTypeOK
  BY <1>1, <1>2, FundsAssumption DEF CTFTypeOK
<1>4. VaultTypeOK
  BY <1>1, <1>3, SupplyAssumption DEF CTFTypeOK, VaultInit, NoRequest, VaultTypeOK
<1>5. BookTypeOK
  BY <1>1 DEF BookInit, BookTypeOK
<1>6. AMMTypeOK /\ \A c \in Conditions : ~pools[c].exists
  BY <1>1, <1>2 DEF AMMInit, NoPool, AMMTypeOK
<1>7. FactoryTypeOK
  <2>1. DefaultConfig \in Configs
    BY ConfigsAssumption DEF DefaultConfig
  <2>2. DOMAIN << >> = {}
    OBVIOUS
  <2> QED BY <1>1, <2>1, <2>2 DEF FactoryInit, FactoryTypeOK
<1>8. PoolsOK
  BY <1>1, <1>6 DEF AMMInit, PoolsOK, PoolOK
<1>9. ResolvedPrepared
  BY <1>1 DEF ResolvedPrepared, isResolved
<1> QED BY <1>1, <1>3, <1>4, <1>5, <1>6, <1>7, <1>8, <1>9 DEF VenueInv, VenueTypeOK, CTFTypeOK

(* In every reachable state the storage of the five contracts is typed (no *)
(* uint256 subtraction of theirs goes below zero), every pool belongs to a *)
(* prepared condition, works by the close the oracle has on record, keeps  *)
(* MIN_LP of shares and both its reserves, and only a prepared condition   *)
(* is resolved.                                                            *)
THEOREM VenueInvariant == Spec => []VenueInv
<1>1. Init => VenueInv
  BY VenueStarts
<1>2. VenueInv /\ [Next]_venueVars => VenueInv'
  BY VenueStep
<1> QED BY <1>1, <1>2, PTL DEF Spec

(* No balance, reserve, share or fill goes below zero, whatever is called  *)
(* in whatever order.                                                      *)
THEOREM VenueTypeCorrect == Spec => []VenueTypeOK
<1>1. VenueInv => VenueTypeOK
  BY DEF VenueInv
<1> QED BY <1>1, VenueInvariant, PTL

(* The whole venue implements what the vault supposes of everybody else:   *)
(* ledger, Exchange, pools and factory move USDC, but take none out of the *)
(* vault and leave OU and the requests alone.  Its steps map to steps of   *)
(* the vault's specification or to steps that change none of its variables.*)
THEOREM VaultIsolation == Spec => VaultIsolated
<1>1. Init => VenueInv /\ usdc \in [Accounts -> Nat] /\ VaultInit
  BY VenueStarts
<1>2. VenueInv /\ [Next]_venueVars => VenueInv' /\ [VaultNext]_<<usdc, now, revenueVars>>
  BY VenueStep
<1> QED BY <1>1, <1>2, PTL DEF Spec, VaultIsolated, VaultSpec

(* So the NAV of the vault never falls, and a redemption in its cooldown   *)
(* keeps its worth, under everything the other contracts do.               *)
THEOREM NavNeverFallsHere == Spec => NavNeverFalls
BY VaultIsolation, NavMonotone, PTL DEF VaultIsolated

THEOREM QuoteHoldsHere == Spec => []QuoteHolds
BY VaultIsolation, QuoteIsKept, PTL DEF VaultIsolated

----------------------------------------------------------------------------
(* The factory's rows: none goes, and what they say of parent, close and   *)
(* type stands; rows that come without a listing are a former factory's.   *)
SameRow(m, n) == m.parent = n.parent /\ m.closeTime = n.closeTime /\ m.type = n.type

RowsKept ==
    /\ DOMAIN markets \subseteq DOMAIN markets'
    /\ DOMAIN markets' \ DOMAIN markets \subseteq DOMAIN LegacyMarkets
    /\ \A x \in DOMAIN markets : SameRow(markets'[x], markets[x])

Forward ==
    /\ prepared \subseteq prepared'
    /\ now' \in Nat /\ now <= now'
    /\ \A c \in Conditions : isResolved(c) => isResolved(c)'

LEMMA SettingsKeepRows ==
    ASSUME FactoryTypeOK, SettingsChange
    PROVE  RowsKept
<1>1. ASSUME NEW c \in Conditions, NEW paused \in BOOLEAN, setPaused(c, paused) PROVE RowsKept
  <2>0. markets' = [markets EXCEPT ![c].paused = paused]
    BY <1>1 DEF setPaused
  <2>1. DOMAIN markets' = DOMAIN markets
    BY <2>0
  <2>2. ASSUME NEW x \in DOMAIN markets PROVE SameRow(markets'[x], markets[x])
    <3>1. markets[x] \in Market
      BY DEF FactoryTypeOK
    <3>2. markets'[x] = IF x = c THEN [markets[x] EXCEPT !.paused = paused] ELSE markets[x]
      BY <2>0
    <3> QED BY <3>1, <3>2 DEF Market, SameRow
  <2> QED BY <2>1, <2>2 DEF RowsKept
<1>2. ASSUME UNCHANGED markets PROVE RowsKept
  BY <1>2 DEF RowsKept, SameRow
<1>3. ASSUME NEW S \in SUBSET DOMAIN LegacyMarkets, importLegacyMarkets(S) PROVE RowsKept
  BY <1>3 DEF importLegacyMarkets, RowsKept, SameRow
<1> QED BY <1>1, <1>2, <1>3 DEF SettingsChange, setPermissionless, setLister, setListingConfig

LEMMA LedgerForward ==
    ASSUME CTFTypeOK, LedgerCalls, NEW c \in Conditions, isResolved(c)
    PROVE  isResolved(c)'
<1>1. ASSUME NEW s, NEW d \in Conditions, NEW v, reportPayouts(s, d, v) PROVE isResolved(c)'
  BY <1>1 DEF reportPayouts, isResolved, CTFTypeOK
<1>2. ASSUME UNCHANGED payoutVars PROVE isResolved(c)'
  BY <1>2 DEF isResolved, payoutVars
<1> QED BY <1>1, <1>2 DEF LedgerCalls, _resolve, prepareCondition, splitPosition, mergePositions,
                          redeemPositions, setApprovalForAll, safeTransferFrom

(* Every step goes forward, and does one of three things to pools and      *)
(* markets: leaves them, moves the money of one pool, or lists a market.   *)
Quiet == UNCHANGED <<closeTime, pools, lpBalance, seedLocked, seedOf>> /\ RowsKept

Traded ==
    \E a \in Holders, c \in Conditions, x \in Holders, k \in Int :
        Pooled(a, c, x, k) /\ c \in prepared /\ PoolCallUnchanged /\ UNCHANGED <<bookVars, factoryVars>>

ListedOne ==
    \E c \in Conditions, close \in Nat, type \in {"primary", "wildcard", "user"} :
        Listed(c, close, type) /\ UNCHANGED bookVars

LEMMA ThreeKinds ==
    ASSUME VenueInv, [Next]_venueVars
    PROVE  Forward /\ (Quiet \/ Traded \/ ListedOne)
<1>0. /\ CTFTypeOK /\ VaultTypeOK /\ BookTypeOK /\ AMMTypeOK /\ FactoryTypeOK /\ PoolsOK /\ ResolvedPrepared
      /\ now \in Nat
  BY DEF VenueInv, VenueTypeOK, VaultTypeOK
<1>1. UNCHANGED <<now, prepared, payoutVars>> => Forward
  BY <1>0 DEF Forward, payoutVars, isResolved
<1>2. UNCHANGED <<ammVars, factoryVars>> => Quiet
  BY DEF ammVars, poolVars, factoryVars, Quiet, RowsKept, SameRow
<1>3. CASE LedgerCalls /\ UNCHANGED <<now, revenueVars, bookVars, ammVars, factoryVars>>
  <2>1. prepared \subseteq prepared'
    BY <1>0, <1>3, LedgerPrepares
  <2> QED BY <1>0, <1>2, <1>3, <2>1, LedgerForward DEF Forward
<1>4. CASE (HolderCalls \/ Tick \/ \E a \in Holders, n \in Amounts : SendUSDC(a, Vault, n))
           /\ UNCHANGED <<bookVars, ammVars, factoryVars>>
  <2>1. UNCHANGED <<prepared, payoutVars>>
    BY <1>0, <1>4, VaultCallsStep
  <2>2. now' \in Nat /\ now <= now'
    BY <1>0, <1>4 DEF HolderCalls, Tick, SendUSDC, transfer, burn, requestRedeem, claim
  <2>3. Forward
    BY <2>1, <2>2 DEF Forward, payoutVars, isResolved
  <2> QED BY <1>2, <1>4, <2>3
<1>5. CASE BookCalls /\ UNCHANGED <<ammVars, factoryVars>>
  <2>1. UNCHANGED <<prepared, payoutVars, now>>
    BY <1>0, <1>5, BookStep
  <2> QED BY <1>1, <1>2, <1>5, <2>1
<1>6. CASE PoolTrades /\ UNCHANGED <<bookVars, factoryVars>>
  <2>1. PICK a \in Holders, c \in Conditions, x \in Holders, k \in Int :
           Pooled(a, c, x, k) /\ (c \in prepared \/ pools[c].exists) /\ PoolCallUnchanged
    BY <1>0, <1>6, TradesArePooled
  <2>2. c \in prepared /\ UNCHANGED <<prepared, payoutVars, now>>
    BY <1>0, <2>1 DEF PoolsOK, PoolOK, PoolCallUnchanged
  <2>3. Traded
    BY <1>6, <2>1, <2>2 DEF Traded
  <2> QED BY <1>1, <2>2, <2>3
<1>7. ASSUME NEW enabled \in BOOLEAN, setCloseGate(enabled), UNCHANGED <<bookVars, factoryVars>>
      PROVE  Forward /\ Quiet
  <2>1. UNCHANGED <<prepared, payoutVars, now>>
    BY <1>7 DEF setCloseGate, vaultVars, ctfVars, payoutVars
  <2>2. Quiet
    BY <1>7 DEF setCloseGate, factoryVars, Quiet, RowsKept, SameRow
  <2> QED BY <1>1, <2>1, <2>2
<1>8. CASE SettingsChange /\ UNCHANGED bookVars
  <2>1. RowsKept /\ UNCHANGED <<vaultVars, ammVars, seedOf>>
    BY <1>0, <1>8, SettingsKeepRows, SettingsStep
  <2>2. UNCHANGED <<prepared, payoutVars, now>> /\ Quiet
    BY <2>1 DEF vaultVars, ctfVars, payoutVars, ammVars, poolVars, Quiet
  <2> QED BY <1>1, <2>2
<1>9. CASE ListedOne
  <2>1. UNCHANGED <<now, payoutVars>> /\ prepared \subseteq prepared'
    BY <1>9 DEF ListedOne, Listed, Created
  <2> QED BY <1>0, <1>9, <2>1 DEF Forward, payoutVars, isResolved
<1>10. CASE UNCHANGED venueVars
  <2>1. UNCHANGED <<prepared, payoutVars, now>> /\ UNCHANGED <<ammVars, factoryVars>>
    BY <1>10 DEF venueVars, vaultVars, ctfVars, payoutVars
  <2> QED BY <1>1, <1>2, <2>1
<1>11. PoolCalls => PoolTrades \/ \E enabled \in BOOLEAN : setCloseGate(enabled)
  BY DEF PoolCalls, PoolTrades
<1>12. ListingCalls => SettingsChange \/ \E c \in Conditions, close \in Nat, type \in {"primary", "wildcard", "user"} :
                                            Listed(c, close, type)
  BY <1>0, ListingCases
<1>13. ListingCalls /\ UNCHANGED bookVars => (SettingsChange /\ UNCHANGED bookVars) \/ ListedOne
  BY <1>12 DEF ListedOne
<1> QED BY <1>3, <1>4, <1>5, <1>6, <1>7, <1>8, <1>9, <1>10, <1>11, <1>13 DEF Next

(* A pool's call, as far as the existence and the close of pools go.       *)
LEMMA PoolsStay ==
    ASSUME VenueInv, NEW a \in Holders, NEW c \in Conditions, NEW x, NEW k, Pooled(a, c, x, k)
    PROVE  \A d \in Conditions : pools[d].exists => pools'[d].exists /\ pools'[d].closeTime = pools[d].closeTime
<1>1. PICK in, toVault, out, sets, tokens, q :
         PoolMove(a, c, in, toVault, out, sets, tokens, q) /\ SharesMove(c, x, k, q)
  BY DEF Pooled
<1>2. /\ pools' = [pools EXCEPT ![c] = q] /\ q.exists
      /\ q.closeTime = IF pools[c].exists THEN pools[c].closeTime ELSE closeTime'[c]
  BY <1>1 DEF PoolMove
<1>3. pools'[c] = q /\ \A d \in Conditions \ {c} : pools'[d] = pools[d]
  BY <1>2 DEF VenueInv, VenueTypeOK, AMMTypeOK
<1> QED BY <1>2, <1>3

Agrees(c) ==
    /\ c \in prepared
    /\ closeTime[c] = markets[c].closeTime
    /\ markets[c].type # "wildcard" => pools[c].exists
    /\ LET parent == markets[c].parent
       IN  parent # NoParent => parent \in DOMAIN markets /\ markets[c].closeTime <= markets[parent].closeTime

LEMMA AgreementParts ==
    ASSUME FactoryTypeOK, PoolsOK
    PROVE  MarketsAgree <=> \A c \in DOMAIN markets \ DOMAIN LegacyMarkets : Agrees(c)
<1>1. ASSUME NEW c \in DOMAIN markets, closeTime[c] = markets[c].closeTime, pools[c].exists
      PROVE  pools[c].closeTime = markets[c].closeTime
  BY <1>1 DEF FactoryTypeOK, PoolsOK, PoolOK
<1> QED BY <1>1 DEF MarketsAgree, Agrees

(* A row that is kept agrees after the step as it did before.              *)
LEMMA AgreementKept ==
    ASSUME NEW c \in DOMAIN markets, Agrees(c), prepared \subseteq prepared', closeTime'[c] = closeTime[c],
           DOMAIN markets \subseteq DOMAIN markets', \A x \in DOMAIN markets : SameRow(markets'[x], markets[x]),
           pools[c].exists => pools'[c].exists
    PROVE  Agrees(c)'
<1>1. SameRow(markets'[c], markets[c])
  OBVIOUS
<1>2. markets'[c].parent # NoParent => /\ markets'[c].parent \in DOMAIN markets'
                                       /\ markets'[c].closeTime <= markets'[markets'[c].parent].closeTime
  BY <1>1 DEF Agrees, SameRow
<1> QED BY <1>1, <1>2 DEF Agrees, SameRow

LEMMA ListedRows ==
    ASSUME VenueInv, NEW c \in Conditions, NEW close \in Nat, NEW type, Created(c, close, type)
    PROVE  \E parent \in Conditions \cup {NoParent} :
              /\ ParentAllows(parent, close)
              /\ DOMAIN markets' = DOMAIN markets \cup {c}
              /\ markets'[c].parent = parent /\ markets'[c].closeTime = close /\ markets'[c].type = type
              /\ \A x \in DOMAIN markets \ {c} : SameRow(markets'[x], markets[x])
<1>1. PICK parent \in Conditions \cup {NoParent} :
         /\ ParentAllows(parent, close)
         /\ markets' = With(markets, c, [parent |-> parent, closeTime |-> close, type |-> type, paused |-> FALSE])
  BY DEF Created
<1> DEFINE m == [parent |-> parent, closeTime |-> close, type |-> type, paused |-> FALSE]
<1>2. m.parent = parent /\ m.closeTime = close /\ m.type = type /\ markets' = With(markets, c, m)
  BY <1>1
<1> HIDE DEF m
<1>3. DOMAIN markets' = DOMAIN markets \cup {c} /\ markets'[c] = m
      /\ \A x \in DOMAIN markets \ {c} : markets'[x] = markets[x]
  BY <1>2 DEF With
<1>4. /\ markets'[c].parent = parent /\ markets'[c].closeTime = close /\ markets'[c].type = type
      /\ \A x \in DOMAIN markets \ {c} : SameRow(markets'[x], markets[x])
  BY <1>2, <1>3 DEF SameRow
<1> QED BY <1>1, <1>3, <1>4

LEMMA AgreementStep ==
    ASSUME VenueInv, MarketsAgree, [Next]_venueVars
    PROVE  MarketsAgree'
<1>0. /\ FactoryTypeOK /\ PoolsOK /\ AMMTypeOK /\ CTFTypeOK /\ ResolvedPrepared /\ now \in Nat
      /\ FactoryTypeOK' /\ PoolsOK' /\ AMMTypeOK'
  BY VenueStep DEF VenueInv, VenueTypeOK, VaultTypeOK
<1>1. \A c \in DOMAIN markets \ DOMAIN LegacyMarkets : Agrees(c)
  BY <1>0, AgreementParts
<1>2. SUFFICES ASSUME NEW c \in DOMAIN markets' \ DOMAIN LegacyMarkets PROVE Agrees(c)'
  <2>1. (\A c \in DOMAIN markets \ DOMAIN LegacyMarkets : Agrees(c))' => MarketsAgree'
    <3>1. ASSUME NEW c \in DOMAIN markets', closeTime'[c] = markets'[c].closeTime, pools'[c].exists
          PROVE  pools'[c].closeTime = markets'[c].closeTime
      BY <1>0, <3>1 DEF FactoryTypeOK, PoolsOK, PoolOK
    <3> QED BY <3>1 DEF MarketsAgree, Agrees
  <2> QED BY <2>1
<1>3. Forward /\ (Quiet \/ Traded \/ ListedOne)
  BY ThreeKinds
<1>4. CASE Quiet
  <2>1. c \in DOMAIN markets /\ Agrees(c)
    BY <1>1, <1>4 DEF Quiet, RowsKept
  <2> QED BY <1>3, <1>4, <2>1, AgreementKept DEF Forward, Quiet, RowsKept
<1>5. CASE Traded
  <2>1. PICK a \in Holders, d \in Conditions, x \in Holders, k \in Int :
           Pooled(a, d, x, k) /\ PoolCallUnchanged /\ UNCHANGED <<bookVars, factoryVars>>
    BY <1>5 DEF Traded
  <2>2. markets' = markets /\ closeTime' = closeTime
    BY <2>1 DEF factoryVars, PoolCallUnchanged
  <2>3. c \in DOMAIN markets /\ c \in Conditions /\ Agrees(c)
    BY <1>0, <1>1, <2>2 DEF FactoryTypeOK
  <2>4. pools[c].exists => pools'[c].exists
    BY <2>1, <2>3, PoolsStay
  <2> QED BY <1>3, <2>2, <2>3, <2>4, AgreementKept DEF Forward, SameRow
<1>6. ASSUME NEW d \in Conditions, NEW close \in Nat, NEW type \in {"primary", "wildcard", "user"},
             Listed(d, close, type), UNCHANGED bookVars
      PROVE  Agrees(c)'
  <2>1. Created(d, close, type)
    BY <1>6 DEF Listed
  <2>2. /\ d \notin DOMAIN LegacyMarkets /\ d \notin prepared /\ d \in prepared'
        /\ closeTime' = [closeTime EXCEPT ![d] = close]
    BY <2>1 DEF Created
  <2>3. d \notin DOMAIN markets
    BY <1>1, <2>2 DEF Agrees
  <2>4. closeTime'[d] = close /\ \A x \in Conditions \ {d} : closeTime'[x] = closeTime[x]
    BY <1>0, <2>2 DEF AMMTypeOK
  <2>5. PICK parent \in Conditions \cup {NoParent} :
           /\ ParentAllows(parent, close)
           /\ DOMAIN markets' = DOMAIN markets \cup {d}
           /\ markets'[d].parent = parent /\ markets'[d].closeTime = close /\ markets'[d].type = type
           /\ \A x \in DOMAIN markets \ {d} : SameRow(markets'[x], markets[x])
    BY <2>1, ListedRows
  <2>6. CASE c = d
    <3>1. type # "wildcard" => pools'[d].exists
      BY <1>0, <1>6, ListedStep
    <3>2. parent # NoParent => parent \in DOMAIN markets /\ close <= markets[parent].closeTime
      BY <2>5 DEF ParentAllows
    <3>3. parent # NoParent => parent \in DOMAIN markets' /\ close <= markets'[parent].closeTime
      BY <2>3, <2>5, <3>2 DEF SameRow
    <3> QED BY <2>2, <2>4, <2>5, <2>6, <3>1, <3>3 DEF Agrees
  <2>7. CASE c # d
    <3>1. c \in DOMAIN markets /\ c \in Conditions /\ Agrees(c)
      BY <1>0, <1>1, <2>5, <2>7 DEF FactoryTypeOK
    <3>2. pools[c].exists => pools'[c].exists
      <4>1. CASE Unseeded
        BY <4>1 DEF Unseeded
      <4>2. ASSUME NEW a \in Holders, NEW n \in Nat, Pooled(a, d, a, n)
            PROVE  pools[c].exists => pools'[c].exists
        BY <3>1, <4>2, PoolsStay
      <4> QED BY <1>6, <4>1, <4>2 DEF Listed
    <3> QED BY <1>3, <2>3, <2>4, <2>5, <2>7, <3>1, <3>2, AgreementKept DEF Forward
  <2> QED BY <2>6, <2>7
<1> QED BY <1>3, <1>4, <1>5, <1>6 DEF ListedOne

(* Ledger, oracle, pool and factory agree on every market this factory     *)
(* created, whatever is listed, paused, imported, traded or resolved in    *)
(* between: its condition is prepared, its one close is the one all of     *)
(* them work by, it has its pool, and it ends no later than its parent.    *)
THEOREM ContractsAgree == Spec => []MarketsAgree
<1>1. Init => MarketsAgree
  BY DEF Init, FactoryInit, MarketsAgree
<1>2. VenueInv /\ MarketsAgree /\ [Next]_venueVars => MarketsAgree'
  BY AgreementStep
<1> QED BY <1>1, <1>2, VenueInvariant, PTL DEF Spec

----------------------------------------------------------------------------
(* Nobody holds fewer shares than are locked, and what is locked of a      *)
(* listing's creator is the seed on record.                                *)
Stakes == \A c \in Conditions, x \in Holders : lpBalance[c][x] >= _lp_locked(c, x)

SeedsHeld ==
    \A c \in DOMAIN seedOf :
        /\ c \in DOMAIN UserCreator /\ c \in DOMAIN markets /\ c \notin DOMAIN LegacyMarkets
        /\ pools[c].exists
        /\ seedOf[c] \in Nat /\ seedOf[c] >= MIN_LP
        /\ seedLocked[c][UserCreator[c]] = seedOf[c]

(* A lock only gets weaker, as time goes on or the condition is resolved.  *)
LEMMA LockWeakens ==
    ASSUME VenueInv, Forward, NEW c \in Conditions, NEW x \in Holders,
           seedLocked'[c][x] = seedLocked[c][x], pools'[c].closeTime = pools[c].closeTime
    PROVE  _lp_locked(c, x)' <= _lp_locked(c, x) /\ _lp_locked(c, x) \in Nat /\ _lp_locked(c, x)' \in Nat
<1> DEFINE s == seedLocked[c][x]
           close == pools[c].closeTime
           least == Min({s, MIN_LP})
<1>1. s \in Nat /\ close \in Nat /\ MIN_LP \in Nat /\ now \in Nat /\ now' \in Nat /\ now <= now'
  BY PoolTyped, AMMFeesAssumption DEF VenueInv, VenueTypeOK, VaultTypeOK, AMMTypeOK, Forward
<1>2. least \in Nat /\ least <= s
  BY <1>1, MinOfTwo
<1>3. /\ _lp_locked(c, x) = IF now < close /\ ~isResolved(c) THEN s ELSE least
      /\ _lp_locked(c, x)' = IF now' < close /\ ~isResolved(c)' THEN s ELSE least
  BY DEF _lp_locked
<1>4. isResolved(c) => isResolved(c)'
  BY DEF Forward
<1>5. now' < close => now < close
  BY <1>1
<1> HIDE DEF s, close, least
<1>6. CASE now' < close /\ ~isResolved(c)'
  <2>1. _lp_locked(c, x) = s /\ _lp_locked(c, x)' = s
    BY <1>3, <1>4, <1>5, <1>6
  <2> QED BY <1>1, <2>1
<1>7. CASE ~(now' < close /\ ~isResolved(c)')
  <2>1. _lp_locked(c, x)' = least /\ (_lp_locked(c, x) = s \/ _lp_locked(c, x) = least)
    BY <1>3, <1>7
  <2> QED BY <1>1, <1>2, <2>1
<1> QED BY <1>6, <1>7

LEMMA StakesSame ==
    ASSUME VenueInv, Stakes, Forward, UNCHANGED <<pools, lpBalance, seedLocked>>
    PROVE  Stakes'
<1> SUFFICES ASSUME NEW c \in Conditions, NEW x \in Holders PROVE lpBalance'[c][x] >= _lp_locked(c, x)'
  BY DEF Stakes
<1>1. _lp_locked(c, x)' <= _lp_locked(c, x) /\ _lp_locked(c, x) \in Nat /\ _lp_locked(c, x)' \in Nat
  BY LockWeakens
<1>2. lpBalance[c][x] >= _lp_locked(c, x) /\ lpBalance[c][x] \in Nat
  BY DEF Stakes, VenueInv, VenueTypeOK, AMMTypeOK
<1> QED BY <1>1, <1>2

LEMMA StakesPooled ==
    ASSUME VenueInv, Stakes, NEW a \in Holders, NEW c \in Conditions, NEW x, NEW k, Pooled(a, c, x, k),
           UNCHANGED <<now, payoutVars>>
    PROVE  Stakes'
<1>1. PICK in, toVault, out, sets, tokens, q :
         PoolMove(a, c, in, toVault, out, sets, tokens, q) /\ SharesMove(c, x, k, q)
  BY DEF Pooled
<1>2. /\ pools' = [pools EXCEPT ![c] = q] /\ q \in Pool /\ q.exists
      /\ AMMTypeOK /\ PoolsOK /\ MIN_LP \in Nat /\ now \in Nat
  BY <1>1, AMMFeesAssumption DEF PoolMove, VenueInv, VenueTypeOK, VaultTypeOK
<1>3. /\ lpBalance' \in [Conditions -> [Holders -> Nat]] /\ seedLocked' \in [Conditions -> [Holders -> Nat]]
      /\ \A d \in Conditions \ {c} : lpBalance'[d] = lpBalance[d] /\ seedLocked'[d] = seedLocked[d]
      /\ \A y \in Holders \ {x} : lpBalance'[c][y] = lpBalance[c][y] /\ seedLocked'[c][y] = seedLocked[c][y]
      /\ lpBalance'[c][x] = lpBalance[c][x] + k /\ x \in Holders /\ k \in Int
  <2>1. SharesMove(c, x, k, q) /\ PoolsOK /\ AMMTypeOK /\ q \in Pool /\ pools' = [pools EXCEPT ![c] = q]
    BY <1>1, <1>2
  <2>2. q.exists
    BY <1>2
  <2> QED BY <2>1, <2>2, SharesEffect, Zenon
<1>4. \A d \in Conditions : pools[d].exists => pools'[d].closeTime = pools[d].closeTime
  BY PoolsStay
<1>5. /\ pools' \in [Conditions -> Pool] /\ \A d \in Conditions \ {c} : pools'[d] = pools[d]
      /\ \A d \in Conditions : pools'[d].closeTime \in Nat
  BY <1>2 DEF AMMTypeOK, Pool
<1> SUFFICES ASSUME NEW d \in Conditions, NEW y \in Holders PROVE lpBalance'[d][y] >= _lp_locked(d, y)'
  BY DEF Stakes
<1>6. /\ lpBalance[d][y] >= _lp_locked(d, y) /\ lpBalance[d][y] \in Nat /\ seedLocked[d][y] \in Nat
      /\ _lp_locked(d, y) \in Nat
  BY <1>2, LockedTyped DEF Stakes, AMMTypeOK
<1>7. ASSUME seedLocked'[d][y] = seedLocked[d][y], pools'[d].closeTime = pools[d].closeTime
      PROVE  _lp_locked(d, y)' = _lp_locked(d, y)
  BY <1>7 DEF _lp_locked, isResolved, payoutVars
<1>8. CASE d # c
  BY <1>3, <1>5, <1>6, <1>7, <1>8
<1>9. CASE d = c /\ pools[c].exists
  <2>1. UNCHANGED seedLocked /\ (k < 0 => lpBalance[c][x] + k >= _lp_locked(c, x))
    BY <1>1, <1>9 DEF SharesMove
  <2>2. _lp_locked(d, y)' = _lp_locked(d, y)
    BY <1>4, <1>7, <1>9, <2>1
  <2>3. CASE y = x
    BY <1>3, <1>6, <1>9, <2>1, <2>2, <2>3
  <2>4. CASE y # x
    BY <1>3, <1>6, <1>9, <2>2, <2>4
  <2> QED BY <2>3, <2>4
<1>10. CASE d = c /\ ~pools[c].exists
  <2>1. k >= MIN_LP /\ seedLocked' = [seedLocked EXCEPT ![c][x] = k] /\ lpBalance[c][x] = 0
    BY <1>1, <1>2, <1>3, <1>10 DEF SharesMove, PoolsOK, PoolOK
  <2>2. seedLocked[c][y] = 0
    BY <1>2, <1>10 DEF PoolsOK, PoolOK
  <2>3. lpBalance'[c][y] >= seedLocked'[c][y] /\ lpBalance'[c][y] \in Nat /\ seedLocked'[c][y] \in Nat
    <3>1. CASE y = x
      BY <1>2, <1>3, <2>1, <3>1 DEF AMMTypeOK
    <3>2. CASE y # x
      BY <1>3, <1>6, <1>10, <2>2, <3>2
    <3> QED BY <3>1, <3>2
  <2>4. Min({seedLocked'[c][y], MIN_LP}) <= seedLocked'[c][y] /\ Min({seedLocked'[c][y], MIN_LP}) \in Nat
    BY <1>2, <2>3, MinOfTwo
  <2>5. \/ _lp_locked(d, y)' = seedLocked'[c][y]
        \/ _lp_locked(d, y)' = Min({seedLocked'[c][y], MIN_LP})
    BY <1>10 DEF _lp_locked
  <2> QED BY <1>10, <2>3, <2>4, <2>5
<1> QED BY <1>8, <1>9, <1>10

LEMMA SeedsPooled ==
    ASSUME VenueInv, NEW a \in Holders, NEW c \in Conditions, NEW x, NEW k, Pooled(a, c, x, k),
           NEW d \in Conditions, pools[d].exists
    PROVE  seedLocked'[d] = seedLocked[d] /\ pools'[d].exists
<1>1. PICK in, toVault, out, sets, tokens, q :
         PoolMove(a, c, in, toVault, out, sets, tokens, q) /\ SharesMove(c, x, k, q)
  BY DEF Pooled
<1>2. pools'[d].exists
  BY PoolsStay
<1>3. seedLocked \in [Conditions -> [Holders -> Nat]]
  BY DEF VenueInv, VenueTypeOK, AMMTypeOK
<1>4. UNCHANGED seedLocked \/ (~pools[c].exists /\ seedLocked' = [seedLocked EXCEPT ![c][x] = k])
  BY <1>1 DEF SharesMove
<1>5. seedLocked'[d] = seedLocked[d]
  BY <1>3, <1>4
<1> QED BY <1>2, <1>5

StakeInv == MarketsAgree /\ Stakes /\ SeedsHeld

LEMMA StakeStep ==
    ASSUME VenueInv, StakeInv, [Next]_venueVars
    PROVE  StakeInv'
<1>0. /\ FactoryTypeOK /\ PoolsOK /\ AMMTypeOK /\ MarketsAgree /\ Stakes /\ SeedsHeld
      /\ DOMAIN seedOf \subseteq Conditions
  BY DEF VenueInv, VenueTypeOK, StakeInv, FactoryTypeOK
<1>1. MarketsAgree'
  BY <1>0, AgreementStep
<1>2. Forward /\ (Quiet \/ Traded \/ ListedOne)
  BY ThreeKinds
<1>3. CASE Quiet
  <2>1. Stakes'
    BY <1>0, <1>2, <1>3, StakesSame DEF Quiet
  <2>2. SeedsHeld'
    BY <1>0, <1>3 DEF Quiet, RowsKept, SeedsHeld
  <2> QED BY <1>1, <2>1, <2>2 DEF StakeInv
<1>4. CASE Traded
  <2>1. PICK a \in Holders, d \in Conditions, x \in Holders, k \in Int :
           Pooled(a, d, x, k) /\ PoolCallUnchanged /\ UNCHANGED <<bookVars, factoryVars>>
    BY <1>4 DEF Traded
  <2>2. UNCHANGED <<now, payoutVars>> /\ UNCHANGED <<markets, seedOf>>
    BY <2>1 DEF PoolCallUnchanged, factoryVars
  <2>3. Stakes'
    BY <1>0, <2>1, <2>2, StakesPooled
  <2>4. \A c \in DOMAIN seedOf : seedLocked'[c] = seedLocked[c] /\ pools'[c].exists
    BY <1>0, <2>1, SeedsPooled DEF SeedsHeld
  <2>5. SeedsHeld'
    BY <1>0, <2>2, <2>4 DEF SeedsHeld
  <2> QED BY <1>1, <2>3, <2>5 DEF StakeInv
<1>5. ASSUME NEW d \in Conditions, NEW close \in Nat, NEW type \in {"primary", "wildcard", "user"},
             Listed(d, close, type)
      PROVE  StakeInv'
  <2>1. Created(d, close, type)
    BY <1>5 DEF Listed
  <2>2. /\ d \notin DOMAIN LegacyMarkets /\ d \notin prepared /\ UNCHANGED <<now, payoutVars>>
        /\ DOMAIN markets' = DOMAIN markets \cup {d}
    BY <1>0, <2>1, CreatedFactory DEF Created
  <2>3. ~pools[d].exists /\ d \notin DOMAIN seedOf
    BY <1>0, <2>2 DEF PoolsOK, PoolOK, SeedsHeld
  <2>4. CASE Unseeded /\ UNCHANGED seedOf
    <3>1. Stakes'
      BY <1>0, <1>2, <2>4, StakesSame DEF Unseeded
    <3>2. SeedsHeld'
      BY <1>0, <2>2, <2>4 DEF Unseeded, SeedsHeld
    <3> QED BY <1>1, <3>1, <3>2 DEF StakeInv
  <2>5. ASSUME NEW a \in Holders, NEW n \in Nat, Pooled(a, d, a, n),
               UNCHANGED seedOf \/ SeedRecorded(a, d, n)
        PROVE  StakeInv'
    <3>1. Stakes'
      BY <1>0, <2>2, <2>5, StakesPooled
    <3>2. \A c \in DOMAIN seedOf : seedLocked'[c] = seedLocked[c] /\ pools'[c].exists
      BY <1>0, <2>5, SeedsPooled DEF SeedsHeld
    <3>3. CASE UNCHANGED seedOf
      <4>1. SeedsHeld'
        BY <1>0, <2>2, <3>2, <3>3 DEF SeedsHeld
      <4> QED BY <1>1, <3>1, <4>1 DEF StakeInv
    <3>4. CASE SeedRecorded(a, d, n)
      <4>1. /\ d \in DOMAIN UserCreator /\ UserCreator[d] = a /\ n \in Nat /\ n >= MIN_LP /\ seedLocked'[d][a] = n
            /\ DOMAIN seedOf' = DOMAIN seedOf \cup {d} /\ seedOf'[d] = n
            /\ \A c \in DOMAIN seedOf : seedOf'[c] = seedOf[c]
        BY <2>3, <3>4 DEF SeedRecorded, With
      <4>2. pools'[d].exists
        <5>1. PICK in, toVault, out, sets, tokens, q : PoolMove(a, d, in, toVault, out, sets, tokens, q)
          BY <2>5 DEF Pooled
        <5> QED BY <1>0, <5>1 DEF PoolMove, AMMTypeOK
      <4>3. SeedsHeld'
        BY <1>0, <2>2, <3>2, <4>1, <4>2 DEF SeedsHeld
      <4> QED BY <1>1, <3>1, <4>3 DEF StakeInv
    <3> QED BY <2>5, <3>3, <3>4
  <2> QED BY <1>5, <2>4, <2>5 DEF Listed
<1> QED BY <1>2, <1>3, <1>4, <1>5 DEF ListedOne

LEMMA StakesAreSkin ==
    ASSUME VenueInv, StakeInv
    PROVE  SkinInTheGame
<1> SUFFICES ASSUME NEW c \in DOMAIN seedOf
             PROVE  IF now < markets[c].closeTime /\ ~isResolved(c)
                    THEN lpBalance[c][UserCreator[c]] >= seedOf[c]
                    ELSE lpBalance[c][UserCreator[c]] >= MIN_LP
  BY DEF SkinInTheGame
<1> DEFINE x == UserCreator[c]
           close == markets[c].closeTime
<1>1. /\ c \in DOMAIN UserCreator /\ c \in DOMAIN markets \ DOMAIN LegacyMarkets /\ pools[c].exists
      /\ seedOf[c] \in Nat /\ seedOf[c] >= MIN_LP /\ seedLocked[c][x] = seedOf[c]
  BY DEF StakeInv, SeedsHeld
<1>2. c \in Conditions /\ x \in Holders
  BY <1>1, CreatorsAssumption
<1>3. pools[c].closeTime = close
  BY <1>1 DEF StakeInv, MarketsAgree
<1>4. lpBalance[c][x] >= _lp_locked(c, x) /\ lpBalance[c][x] \in Nat
  BY <1>2 DEF StakeInv, Stakes, VenueInv, VenueTypeOK, AMMTypeOK
<1>5. Min({seedOf[c], MIN_LP}) = MIN_LP /\ MIN_LP \in Nat
  BY <1>1, AMMFeesAssumption, MinOfTwo
<1>6. _lp_locked(c, x) = IF now < close /\ ~isResolved(c) THEN seedOf[c] ELSE MIN_LP
  BY <1>1, <1>3, <1>5 DEF _lp_locked
<1> HIDE DEF close, x
<1>7. CASE now < close /\ ~isResolved(c)
  BY <1>4, <1>6, <1>7 DEF close, x
<1>8. CASE ~(now < close /\ ~isResolved(c))
  BY <1>4, <1>6, <1>8 DEF close, x
<1> QED BY <1>7, <1>8

(* A listing seed is real skin in the game: no sequence of deposits,       *)
(* withdrawals, trades, settings and resolutions lets the creator of a     *)
(* user's market out of it before the close or the resolution, nor ever    *)
(* below MIN_LP.                                                           *)
THEOREM CreatorsStayIn == Spec => []SkinInTheGame
<1>1. Init => StakeInv
  <2> SUFFICES ASSUME Init PROVE StakeInv
    OBVIOUS
  <2>1. AMMInit /\ FactoryInit /\ VenueInv
    BY VenueStarts DEF Init
  <2>2. ASSUME NEW c \in Conditions, NEW x \in Holders PROVE lpBalance[c][x] >= _lp_locked(c, x)
    <3>1. lpBalance[c][x] = 0 /\ seedLocked[c][x] = 0 /\ Min({0, MIN_LP}) = 0
      BY <2>1, AMMFeesAssumption, MinOfTwo DEF AMMInit
    <3> QED BY <3>1 DEF _lp_locked
  <2> QED BY <2>1, <2>2 DEF FactoryInit, MarketsAgree, Stakes, SeedsHeld, StakeInv
<1>2. VenueInv /\ StakeInv /\ [Next]_venueVars => StakeInv'
  BY StakeStep
<1>3. VenueInv /\ StakeInv => SkinInTheGame
  BY StakesAreSkin
<1> QED BY <1>1, <1>2, <1>3, VenueInvariant, PTL DEF Spec

----------------------------------------------------------------------------
(* One fill against the limit of the order it fills, in units of the price *)
(* scale and the fee's denominator: w is the fill at the limit price.      *)
LEMMA FillOfBuyer ==
    ASSUME NEW vol \in Nat, NEW fee \in Nat, NEW S \in Nat, NEW D \in Nat, NEW B \in Nat, NEW w \in Nat,
           vol * S <= w, fee * D <= vol * B
    PROVE  (vol + fee) * (S * D) <= w * (D + B)
<1> DEFINE x == vol * D + fee * D
           y == vol * (D + B)
<1>1. x \in Nat /\ y \in Nat /\ x <= y
  <2>1. y = vol * D + vol * B /\ vol * D \in Nat /\ vol * B \in Nat /\ fee * D \in Nat
    OBVIOUS
  <2> QED BY <2>1
<1>2. (vol + fee) * (S * D) = x * S
  OBVIOUS
<1>3. y * S = (vol * S) * (D + B)
  OBVIOUS
<1> HIDE DEF x, y
<1>4. x * S <= y * S /\ x * S \in Nat /\ y * S \in Nat
  BY <1>1, ProductsOrdered
<1>5. (vol * S) * (D + B) <= w * (D + B)
  <2>1. vol * S \in Nat /\ D + B \in Nat
    OBVIOUS
  <2> QED BY <2>1, ProductsOrdered
<1>6. w * (D + B) \in Nat
  OBVIOUS
<1> QED BY <1>2, <1>3, <1>4, <1>5, <1>6

LEMMA FillOfSeller ==
    ASSUME NEW vol \in Nat, NEW fee \in Nat, NEW S \in Nat, NEW D \in Nat, NEW B \in Nat, NEW w \in Nat,
           B <= D, fee <= vol, fee * D <= vol * B, w <= (vol + 1) * S
    PROVE  (vol - fee + 1) * (S * D) >= w * (D - B)
<1> DEFINE e == D - B
           u == vol - fee + 1
<1>1. e \in Nat /\ u \in Nat
  OBVIOUS
<1>2. (vol + 1) * e <= u * D
  <2>1. (vol + 1) * e = vol * D - vol * B + D - B /\ u * D = vol * D - fee * D + D
    OBVIOUS
  <2>2. vol * D \in Nat /\ vol * B \in Nat /\ fee * D \in Nat
    OBVIOUS
  <2> HIDE DEF e, u
  <2> QED BY <2>1, <2>2
<1> HIDE DEF e, u
<1>3. w * e <= ((vol + 1) * S) * e
  <2>1. (vol + 1) * S \in Nat
    OBVIOUS
  <2> QED BY <1>1, <2>1, ProductsOrdered
<1>4. ((vol + 1) * e) * S <= (u * D) * S
  <2>1. (vol + 1) * e \in Nat /\ u * D \in Nat
    BY <1>1
  <2> QED BY <1>2, <2>1, ProductsOrdered
<1>5. ((vol + 1) * S) * e = ((vol + 1) * e) * S /\ (u * D) * S = u * (S * D)
  BY <1>1
<1>6. w * e \in Nat /\ ((vol + 1) * e) * S \in Nat /\ u * (S * D) \in Nat
  BY <1>1
<1>7. w * e <= u * (S * D)
  BY <1>3, <1>4, <1>5, <1>6
<1> QED BY <1>7 DEF e, u

(* The limit of one order, and what a fill may add to either side of it.   *)
Limit(o) ==
    LET atLimit == filled[o] * Terms[o].price
        scale == PRICE_SCALE * BPS_DENOM
    IN  IF Terms[o].isBuy
        THEN settled[o].paid * scale <= atLimit * (BPS_DENOM + TAKER_FEE_BPS)
        ELSE (settled[o].paid + settled[o].fills) * scale >= atLimit * (BPS_DENOM - TAKER_FEE_BPS)

LEMMA SumsOrdered ==
    ASSUME NEW a \in Int, NEW b \in Int, NEW s \in Int, NEW x \in Int, NEW y \in Int, NEW p \in Int, NEW e \in Int,
           a * s <= (x * p) * e, b * s <= (y * p) * e
    PROVE  (a + b) * s <= ((x + y) * p) * e
<1>1. (a + b) * s = a * s + b * s /\ ((x + y) * p) * e = (x * p) * e + (y * p) * e
  OBVIOUS
<1>2. a * s \in Int /\ b * s \in Int /\ (x * p) * e \in Int /\ (y * p) * e \in Int
  OBVIOUS
<1> QED BY <1>1, <1>2

LEMMA SumsOrderedToo ==
    ASSUME NEW a \in Int, NEW b \in Int, NEW s \in Int, NEW x \in Int, NEW y \in Int, NEW p \in Int, NEW e \in Int,
           a * s >= (x * p) * e, b * s >= (y * p) * e
    PROVE  (a + b) * s >= ((x + y) * p) * e
<1>1. (a + b) * s = a * s + b * s /\ ((x + y) * p) * e = (x * p) * e + (y * p) * e
  OBVIOUS
<1>2. a * s \in Int /\ b * s \in Int /\ (x * p) * e \in Int /\ (y * p) * e \in Int
  OBVIOUS
<1> QED BY <1>1, <1>2

LEMMA BuyingWithinLimit ==
    ASSUME NEW t \in Orders, NEW m \in Orders, NEW fill \in Nat, Crosses(t, m)
    PROVE  LET b == Buying(t, m)
           IN  Cost(t, m, fill) * (PRICE_SCALE * BPS_DENOM) <= (fill * Terms[b].price) * (BPS_DENOM + TAKER_FEE_BPS)
<1> DEFINE S == PRICE_SCALE
           D == BPS_DENOM
           B == TAKER_FEE_BPS
           vol == Volume(t, m, fill)
           fee == TakerFee(vol)
           pt == Terms[t].price
           pm == Terms[m].price
<1>0. S \in Nat /\ D \in Nat /\ B \in Nat /\ B <= D /\ pt \in Nat /\ pm \in Nat
  BY ScalesAssumption, TermsAssumption
<1>1. vol \in Nat /\ vol * S <= fill * pm
  BY VolumeBounds
<1>2. fee \in Nat /\ fee * D <= vol * B
  BY <1>1, TakerFeeBounds
<1> HIDE DEF S, D, B, vol, fee
<1>3. fill * pm \in Nat /\ fill * pt \in Nat /\ vol * S \in Nat
  BY <1>0, <1>1
<1>4. CASE Terms[t].isBuy
  <2>1. Cost(t, m, fill) = vol + fee /\ Buying(t, m) = t /\ pm <= pt
    BY <1>4 DEF Cost, Buying, Crosses, vol, fee
  <2> HIDE DEF pt, pm
  <2>2. fill * pm <= fill * pt
    <3>1. pm * fill <= pt * fill
      BY <1>0, <2>1, ProductsOrdered
    <3> QED BY <1>0, <3>1
  <2>3. vol * S <= fill * pt
    BY <1>1, <1>3, <2>2
  <2>4. (vol + fee) * (S * D) <= (fill * pt) * (D + B)
    BY <1>0, <1>1, <1>2, <1>3, <2>3, FillOfBuyer
  <2> QED BY <2>1, <2>4 DEF S, D, B, pt
<1>5. CASE ~Terms[t].isBuy
  <2>1. Cost(t, m, fill) = vol /\ Buying(t, m) = m
    BY <1>5 DEF Cost, Buying, vol
  <2> HIDE DEF pt, pm
  <2>2. 0 * D <= vol * B /\ vol + 0 = vol
    BY <1>0, <1>1
  <2>3. (vol + 0) * (S * D) <= (fill * pm) * (D + B)
    BY <1>0, <1>1, <1>3, <2>2, FillOfBuyer
  <2> QED BY <2>1, <2>2, <2>3 DEF S, D, B, pm
<1> QED BY <1>4, <1>5

LEMMA SellingWithinLimit ==
    ASSUME NEW t \in Orders, NEW m \in Orders, NEW fill \in Nat, Crosses(t, m)
    PROVE  LET s == Selling(t, m)
           IN  (Proceeds(t, m, fill) + 1) * (PRICE_SCALE * BPS_DENOM)
                 >= (fill * Terms[s].price) * (BPS_DENOM - TAKER_FEE_BPS)
<1> DEFINE S == PRICE_SCALE
           D == BPS_DENOM
           B == TAKER_FEE_BPS
           vol == Volume(t, m, fill)
           fee == TakerFee(vol)
           pt == Terms[t].price
           pm == Terms[m].price
<1>0. S \in Nat /\ D \in Nat /\ B \in Nat /\ B <= D /\ pt \in Nat /\ pm \in Nat
  BY ScalesAssumption, TermsAssumption
<1>1. vol \in Nat /\ fill * pm < (vol + 1) * S
  BY VolumeBounds
<1>2. fee \in Nat /\ fee * D <= vol * B /\ fee <= vol
  BY <1>1, TakerFeeBounds
<1> HIDE DEF S, D, B, vol, fee
<1>3. fill * pm \in Nat /\ fill * pt \in Nat /\ (vol + 1) * S \in Nat
  BY <1>0, <1>1
<1>4. fill * pm <= (vol + 1) * S
  BY <1>1, <1>3
<1>5. CASE ~Terms[t].isBuy
  <2>1. Proceeds(t, m, fill) = vol - fee /\ Selling(t, m) = t /\ pt <= pm
    BY <1>0, <1>5 DEF Proceeds, Selling, Crosses, vol, fee
  <2> HIDE DEF pt, pm
  <2>2. fill * pt <= fill * pm
    <3>1. pt * fill <= pm * fill
      BY <1>0, <2>1, ProductsOrdered
    <3> QED BY <1>0, <3>1
  <2>3. fill * pt <= (vol + 1) * S
    BY <1>3, <1>4, <2>2
  <2>4. (vol - fee + 1) * (S * D) >= (fill * pt) * (D - B)
    BY <1>0, <1>1, <1>2, <1>3, <2>3, FillOfSeller
  <2> QED BY <2>1, <2>4 DEF S, D, B, pt
<1>6. CASE Terms[t].isBuy
  <2>1. Proceeds(t, m, fill) = vol /\ Selling(t, m) = m
    BY <1>6 DEF Proceeds, Selling, vol
  <2> HIDE DEF pt, pm
  <2>2. 0 * D <= vol * B /\ vol - 0 = vol /\ 0 <= vol /\ 0 \in Nat
    BY <1>0, <1>1
  <2>3. (vol - 0 + 1) * (S * D) >= (fill * pm) * (D - B)
    BY <1>0, <1>1, <1>3, <1>4, <2>2, FillOfSeller
  <2> QED BY <2>1, <2>2, <2>3 DEF S, D, B, pm
<1> QED BY <1>5, <1>6

LEMMA MatchKeepsLimits ==
    ASSUME BookTypeOK, LimitHonoured, NEW t \in Orders, NEW m \in Orders, NEW fill \in Amounts,
           matchOrders(t, m, fill)
    PROVE  LimitHonoured'
<1> DEFINE buy == Buying(t, m)
           sell == Selling(t, m)
           cost == Cost(t, m, fill)
           gain == Proceeds(t, m, fill)
           scale == PRICE_SCALE * BPS_DENOM
           over == BPS_DENOM + TAKER_FEE_BPS
           under == BPS_DENOM - TAKER_FEE_BPS
<1>0. fill \in Nat /\ scale \in Int /\ over \in Int /\ under \in Int
  BY AmountsAssumption, ScalesAssumption
<1>1. /\ t # m /\ Crosses(t, m)
      /\ filled' = [filled EXCEPT ![t] = @ + fill, ![m] = @ + fill]
      /\ settled' = [settled EXCEPT ![buy] = Count(buy, cost), ![sell] = Count(sell, gain)]
  BY MatchUnfolded
<1>2. /\ buy \in Orders /\ sell \in Orders /\ buy # sell /\ {buy, sell} = {t, m}
      /\ Terms[buy].isBuy /\ ~Terms[sell].isBuy
  BY <1>1, OrderTyped DEF Buying, Selling, Crosses
<1>3. cost \in Nat /\ gain \in Nat
  BY <1>0, MatchAmounts
<1>4. cost * scale <= (fill * Terms[buy].price) * over
  BY <1>0, <1>1, BuyingWithinLimit
<1>5. (gain + 1) * scale >= (fill * Terms[sell].price) * under
  BY <1>0, <1>1, SellingWithinLimit
<1> HIDE DEF buy, sell, cost, gain, scale, over, under
<1>6. /\ filled \in [Orders -> Nat]
      /\ filled'[buy] = filled[buy] + fill /\ filled'[sell] = filled[sell] + fill
      /\ \A o \in Orders \ {buy, sell} : filled'[o] = filled[o]
  BY <1>1, <1>2 DEF BookTypeOK
<1>7. /\ settled'[buy].paid = settled[buy].paid + cost
      /\ settled'[sell].paid = settled[sell].paid + gain /\ settled'[sell].fills = settled[sell].fills + 1
      /\ \A o \in Orders \ {buy, sell} : settled'[o] = settled[o]
  BY <1>1, <1>2 DEF BookTypeOK, Count
<1>8. /\ settled[buy].paid \in Int /\ settled[sell].paid \in Int /\ settled[sell].fills \in Int
      /\ filled[buy] \in Int /\ filled[sell] \in Int /\ Terms[buy].price \in Int /\ Terms[sell].price \in Int
  BY <1>2, OrderTyped DEF BookTypeOK
<1>9. \A o \in Orders : Limit(o)
  BY DEF LimitHonoured, Limit
<1>10. Limit(buy)'
  <2>1. settled[buy].paid * scale <= (filled[buy] * Terms[buy].price) * over
    BY <1>2, <1>9 DEF Limit, scale, over
  <2>2. (settled[buy].paid + cost) * scale <= ((filled[buy] + fill) * Terms[buy].price) * over
    BY <1>0, <1>3, <1>4, <1>8, <2>1, SumsOrdered
  <2> QED BY <1>2, <1>6, <1>7, <2>2 DEF Limit, scale, over
<1>11. Limit(sell)'
  <2> DEFINE had == settled[sell].paid + settled[sell].fills
             more == gain + 1
  <2>1. had * scale >= (filled[sell] * Terms[sell].price) * under
    BY <1>2, <1>9 DEF Limit, scale, under
  <2>2. had \in Int /\ more \in Int /\ settled'[sell].paid + settled'[sell].fills = had + more
    BY <1>3, <1>7, <1>8
  <2>3. more * scale >= (fill * Terms[sell].price) * under
    BY <1>5
  <2> HIDE DEF had, more
  <2>4. (had + more) * scale >= ((filled[sell] + fill) * Terms[sell].price) * under
    BY <1>0, <1>8, <2>1, <2>2, <2>3, SumsOrderedToo
  <2> QED BY <1>2, <1>6, <2>2, <2>4 DEF Limit, scale, under
<1>12. \A o \in Orders \ {buy, sell} : Limit(o)'
  BY <1>6, <1>7, <1>9 DEF Limit
<1>13. \A o \in Orders : Limit(o)'
  BY <1>10, <1>11, <1>12
<1> QED BY <1>13 DEF LimitHonoured, Limit

LEMMA LimitStep ==
    ASSUME VenueInv, LimitHonoured, [Next]_venueVars
    PROVE  LimitHonoured'
<1>1. ASSUME UNCHANGED <<filled, settled>> PROVE LimitHonoured'
  BY <1>1 DEF LimitHonoured
<1>2. ASSUME NEW t \in Orders, NEW m \in Orders, NEW n \in Amounts, matchOrders(t, m, n) PROVE LimitHonoured'
  BY <1>2, MatchKeepsLimits DEF VenueInv, VenueTypeOK
<1>3. BookCalls => \/ UNCHANGED <<filled, settled>>
                   \/ \E t \in Orders, m \in Orders, n \in Amounts : matchOrders(t, m, n)
  BY DEF BookCalls, cancelOrder, incrementNonce
<1>4. UNCHANGED bookVars => UNCHANGED <<filled, settled>>
  BY DEF bookVars
<1>5. UNCHANGED venueVars => UNCHANGED bookVars
  BY DEF venueVars
<1> QED BY <1>1, <1>2, <1>3, <1>4, <1>5 DEF Next

(* Over all its fills, at whatever makers' prices and as maker or taker,   *)
(* no order pays more than its limit and the fee on it, or receives less   *)
(* than its limit less the fee on it by a whole unit per fill.             *)
THEOREM LimitsAreHonoured == Spec => []LimitHonoured
<1>1. Init => LimitHonoured
  <2> SUFFICES ASSUME Init, NEW o \in Orders PROVE Limit(o)
    BY DEF LimitHonoured, Limit
  <2>1. filled[o] = 0 /\ settled[o].paid = 0 /\ settled[o].fills = 0
    BY DEF Init, BookInit
  <2>2. PRICE_SCALE * BPS_DENOM \in Int /\ BPS_DENOM + TAKER_FEE_BPS \in Int /\ BPS_DENOM - TAKER_FEE_BPS \in Int
    BY ScalesAssumption
  <2>3. 0 * Terms[o].price = 0
    BY OrderTyped
  <2> QED BY <2>1, <2>2, <2>3 DEF Limit
<1>2. VenueInv /\ LimitHonoured /\ [Next]_venueVars => LimitHonoured'
  BY LimitStep
<1> QED BY <1>1, <1>2, VenueInvariant, PTL DEF Spec

----------------------------------------------------------------------------
(* The sums in PoolsCovered, of any pools and shares.                      *)
FeesOf(p) == MapThenSumSet(LAMBDA c : p[c].lpFees, Conditions)
SharesOf(l, c) == MapThenSumSet(LAMBDA a : l[c][a], Holders)

LEMMA FeesSum ==
    ASSUME NEW p
    PROVE  FeesOf(p) = SumOver([c \in Conditions |-> p[c].lpFees], Conditions)
<1> DEFINE f == [c \in Conditions |-> p[c].lpFees]
           S == Conditions
           Body(g) == [s \in SUBSET S |-> IF s = {} THEN 0 ELSE p[Pick(s)].lpFees + g[s \ {Pick(s)}]]
<1>1. ASSUME NEW g PROVE Body(g) = Unfolded(f, S, g)
  <2>1. \A s \in SUBSET S : s # {} => Pick(s) \in Conditions
    BY PickIn
  <2> QED BY <2>1 DEF Unfolded
<1>2. (CHOOSE g : g = Body(g)) = Folded(f, S)
  BY <1>1 DEF Folded
<1>3. FeesOf(p) = (CHOOSE g : g = Body(g))[S]
  BY DEF FeesOf, MapThenSumSet, MapThenFoldSet, Pick
<1> QED BY <1>2, <1>3, SumIsFolded

LEMMA SharesSum ==
    ASSUME NEW l, NEW c
    PROVE  SharesOf(l, c) = SumOver([a \in Holders |-> l[c][a]], Holders)
<1> DEFINE f == [a \in Holders |-> l[c][a]]
           S == Holders
           Body(g) == [s \in SUBSET S |-> IF s = {} THEN 0 ELSE l[c][Pick(s)] + g[s \ {Pick(s)}]]
<1>1. ASSUME NEW g PROVE Body(g) = Unfolded(f, S, g)
  <2>1. \A s \in SUBSET S : s # {} => Pick(s) \in Holders
    BY PickIn
  <2> QED BY <2>1 DEF Unfolded
<1>2. (CHOOSE g : g = Body(g)) = Folded(f, S)
  BY <1>1 DEF Folded
<1>3. SharesOf(l, c) = (CHOOSE g : g = Body(g))[S]
  BY DEF SharesOf, MapThenSumSet, MapThenFoldSet, Pick
<1> QED BY <1>2, <1>3, SumIsFolded

Covered(b, u, p, l) ==
    /\ \A c \in Conditions, o \in Outcomes : b[AMM][c][o] >= p[c].reserve[o]
    /\ u[AMM] >= FeesOf(p)
    /\ \A c \in {x \in Conditions : p[x].exists} : p[c].lpSupply = SharesOf(l, c) /\ p[c].lpSupply >= MIN_LP

LEMMA CoveredParts == PoolsCovered <=> Covered(balanceOf, usdc, pools, lpBalance)
BY DEF PoolsCovered, Covered, FeesOf, SharesOf, MapThenSumSet, MapThenFoldSet

LEMMA CoveredPartsAfter == PoolsCovered' <=> Covered(balanceOf', usdc', pools', lpBalance')
BY DEF PoolsCovered, Covered, FeesOf, SharesOf, MapThenSumSet, MapThenFoldSet

LEMMA FinitelyMany == IsFiniteSet(Accounts) /\ IsFiniteSet(Conditions) /\ IsFiniteSet(Holders)
BY FiniteAssumption, FS_Subset, Addresses

LEMMA FeesInt == ASSUME NEW p \in [Conditions -> Pool] PROVE FeesOf(p) \in Int
<1> DEFINE f == [c \in Conditions |-> p[c].lpFees]
<1>1. \A c \in Conditions : f[c] \in Int
  BY DEF Pool
<1> HIDE DEF f
<1>2. SumOver(f, Conditions) \in Int
  BY <1>1, FinitelyMany, SumInt
<1> QED BY <1>2, FeesSum DEF f

LEMMA FeesChange ==
    ASSUME NEW p \in [Conditions -> Pool], NEW q \in [Conditions -> Pool], NEW c \in Conditions,
           \A d \in Conditions \ {c} : q[d] = p[d]
    PROVE  FeesOf(q) = FeesOf(p) - p[c].lpFees + q[c].lpFees
<1> DEFINE f == [d \in Conditions |-> p[d].lpFees]
           g == [d \in Conditions |-> q[d].lpFees]
<1>1. /\ \A d \in Conditions : f[d] \in Int /\ g[d] \in Int
      /\ \A d \in Conditions \ {c} : f[d] = g[d]
      /\ f[c] = p[c].lpFees /\ g[c] = q[c].lpFees
  BY DEF Pool
<1>2. FeesOf(p) = SumOver(f, Conditions) /\ FeesOf(q) = SumOver(g, Conditions)
  BY FeesSum
<1> HIDE DEF f, g
<1>3. SumOver(g, Conditions) = SumOver(f, Conditions) - f[c] + g[c]
  BY <1>1, FinitelyMany, SumChanged
<1> QED BY <1>1, <1>2, <1>3

LEMMA SharesChange ==
    ASSUME NEW l \in [Conditions -> [Holders -> Nat]], NEW k \in [Conditions -> [Holders -> Nat]],
           NEW c \in Conditions, NEW x \in Holders, \A y \in Holders \ {x} : k[c][y] = l[c][y]
    PROVE  SharesOf(k, c) = SharesOf(l, c) - l[c][x] + k[c][x] /\ SharesOf(l, c) \in Int
<1> DEFINE f == [y \in Holders |-> l[c][y]]
           g == [y \in Holders |-> k[c][y]]
<1>1. /\ \A y \in Holders : f[y] \in Int /\ g[y] \in Int
      /\ \A y \in Holders \ {x} : f[y] = g[y]
      /\ f[x] = l[c][x] /\ g[x] = k[c][x]
  OBVIOUS
<1>2. SharesOf(l, c) = SumOver(f, Holders) /\ SharesOf(k, c) = SumOver(g, Holders)
  BY SharesSum
<1> HIDE DEF f, g
<1>3. SumOver(g, Holders) = SumOver(f, Holders) - f[x] + g[x] /\ SumOver(f, Holders) \in Int
  BY SMTT(60), <1>1, FinitelyMany, SumChanged, SumInt
<1> QED BY <1>1, <1>2, <1>3

LEMMA NoShares ==
    ASSUME NEW l, NEW c, l[c] = [a \in Holders |-> 0]
    PROVE  SharesOf(l, c) = 0
<1> DEFINE f == [a \in Holders |-> l[c][a]]
<1>1. \A a \in Holders : f[a] = 0
  OBVIOUS
<1>2. SharesOf(l, c) = SumOver(f, Holders)
  BY SharesSum
<1> HIDE DEF f
<1> QED BY <1>1, <1>2, FinitelyMany, SumZero

LEMMA SharesSame ==
    ASSUME NEW l, NEW k, NEW c, l[c] = k[c]
    PROVE  SharesOf(l, c) = SharesOf(k, c)
<1>1. [a \in Holders |-> l[c][a]] = [a \in Holders |-> k[c][a]]
  OBVIOUS
<1> QED BY <1>1, SharesSum

(* What leaves the pools alone also takes nothing from their contract.     *)
KeptForPools ==
    /\ usdc'[AMM] >= usdc[AMM]
    /\ \A c \in Conditions, o \in Outcomes : balanceOf'[AMM][c][o] >= balanceOf[AMM][c][o]
    /\ UNCHANGED <<pools, lpBalance>>

LEMMA PoolsKeepOrMove ==
    ASSUME VenueInv, [Next]_venueVars
    PROVE  KeptForPools \/ \E a \in Holders, c \in Conditions : \E x, k : Pooled(a, c, x, k)
<1>0. /\ CTFTypeOK /\ VaultTypeOK /\ BookTypeOK /\ AMMTypeOK /\ FactoryTypeOK /\ PoolsOK /\ ResolvedPrepared
      /\ now \in Nat
  BY DEF VenueInv, VenueTypeOK, VaultTypeOK
<1>1. NothingTaken /\ UNCHANGED ammVars => KeptForPools
  BY DEF NothingTaken, ammVars, poolVars, KeptForPools
<1>2. UNCHANGED <<usdc, balanceOf>> => NothingTaken
  BY <1>0, SameIsNothingTaken
<1>3. CASE LedgerCalls /\ UNCHANGED <<now, revenueVars, bookVars, ammVars, factoryVars>>
  BY <1>0, <1>1, <1>3, LedgerStep
<1>4. CASE (HolderCalls \/ Tick \/ \E a \in Holders, n \in Amounts : SendUSDC(a, Vault, n))
           /\ UNCHANGED <<bookVars, ammVars, factoryVars>>
  <2>1. usdc'[AMM] >= usdc[AMM] /\ UNCHANGED balanceOf
    BY <1>0, <1>4, VaultCallsStep
  <2>2. \A c \in Conditions, o \in Outcomes : balanceOf'[AMM][c][o] >= balanceOf[AMM][c][o]
    BY <1>0, <2>1, Addresses DEF CTFTypeOK
  <2> QED BY <1>4, <2>1, <2>2 DEF KeptForPools, ammVars, poolVars
<1>5. CASE BookCalls /\ UNCHANGED <<ammVars, factoryVars>>
  BY <1>0, <1>1, <1>5, BookStep
<1>6. CASE PoolTrades /\ UNCHANGED <<bookVars, factoryVars>>
  BY <1>0, <1>6, TradesArePooled
<1>7. ASSUME UNCHANGED <<usdc, balanceOf>>, UNCHANGED <<pools, lpBalance>>
      PROVE  KeptForPools
  BY <1>2, <1>7 DEF NothingTaken, KeptForPools
<1>8. ASSUME NEW enabled \in BOOLEAN, setCloseGate(enabled) PROVE KeptForPools
  BY <1>7, <1>8 DEF setCloseGate, vaultVars, ctfVars
<1>9. CASE SettingsChange
  <2>1. UNCHANGED <<vaultVars, ammVars>>
    BY <1>0, <1>9, SettingsStep
  <2> QED BY <1>7, <2>1 DEF vaultVars, ctfVars, ammVars, poolVars
<1>10. ASSUME NEW c \in Conditions, NEW close \in Nat, NEW type \in {"primary", "wildcard", "user"},
              Listed(c, close, type)
       PROVE  KeptForPools \/ \E a \in Holders, d \in Conditions : \E x, k : Pooled(a, d, x, k)
  <2>1. Unseeded => KeptForPools
    BY <1>7 DEF Unseeded
  <2>2. Unseeded \/ \E a \in Holders, n \in Nat : Pooled(a, c, a, n)
    BY <1>10 DEF Listed
  <2> QED BY <2>1, <2>2
<1>11. CASE UNCHANGED venueVars
  BY <1>7, <1>11 DEF venueVars, vaultVars, ctfVars, ammVars, poolVars
<1>12. PoolCalls => PoolTrades \/ \E enabled \in BOOLEAN : setCloseGate(enabled)
  BY DEF PoolCalls, PoolTrades
<1>13. ListingCalls => SettingsChange \/ \E c \in Conditions, close \in Nat, type \in {"primary", "wildcard", "user"} :
                                            Listed(c, close, type)
  BY <1>0, ListingCases
<1> QED BY <1>3, <1>4, <1>5, <1>6, <1>8, <1>9, <1>10, <1>11, <1>12, <1>13 DEF Next

LEMMA CoverKept ==
    ASSUME VenueInv, VenueInv', KeptForPools, Covered(balanceOf, usdc, pools, lpBalance)
    PROVE  Covered(balanceOf', usdc', pools', lpBalance')
<1>1. pools \in [Conditions -> Pool] /\ AMM \in Accounts
  BY Addresses DEF VenueInv, VenueTypeOK, AMMTypeOK, Pool
<1>2. ASSUME NEW c \in Conditions, NEW o \in Outcomes PROVE balanceOf'[AMM][c][o] >= pools[c].reserve[o]
  <2>1. balanceOf[AMM][c][o] \in Nat /\ balanceOf'[AMM][c][o] \in Nat /\ pools[c].reserve[o] \in Nat
    BY <1>1 DEF VenueInv, VenueTypeOK, CTFTypeOK, Pool
  <2>2. balanceOf[AMM][c][o] >= pools[c].reserve[o] /\ balanceOf'[AMM][c][o] >= balanceOf[AMM][c][o]
    BY DEF Covered, KeptForPools
  <2> QED BY <2>1, <2>2
<1>3. usdc'[AMM] >= FeesOf(pools)
  <2>1. usdc[AMM] \in Nat /\ usdc'[AMM] \in Nat /\ FeesOf(pools) \in Int
    BY <1>1, FeesInt DEF VenueInv, VenueTypeOK, CTFTypeOK
  <2>2. usdc[AMM] >= FeesOf(pools) /\ usdc'[AMM] >= usdc[AMM]
    BY DEF Covered, KeptForPools
  <2> QED BY <2>1, <2>2
<1> QED BY <1>2, <1>3 DEF Covered, KeptForPools

LEMMA CoverMoved ==
    ASSUME VenueInv, NEW a \in Holders, NEW c \in Conditions, NEW x, NEW k, Pooled(a, c, x, k),
           Covered(balanceOf, usdc, pools, lpBalance)
    PROVE  Covered(balanceOf', usdc', pools', lpBalance')
<1>0. CTFTypeOK /\ AMMTypeOK /\ PoolsOK /\ AMM \in Accounts
  BY Addresses DEF VenueInv, VenueTypeOK
<1>1. PICK in, toVault, out, sets, tokens, q :
         PoolMove(a, c, in, toVault, out, sets, tokens, q) /\ SharesMove(c, x, k, q)
  BY DEF Pooled
<1>2. /\ usdc' \in [Accounts -> Nat] /\ usdc'[Vault] >= usdc[Vault]
      /\ usdc'[AMM] = usdc[AMM] + q.lpFees - pools[c].lpFees
      /\ pot' \in Nat /\ balanceOf' \in [Accounts -> [Conditions -> [Outcomes -> Nat]]]
      /\ pools' \in [Conditions -> Pool] /\ pools'[c] = q /\ q \in Pool
      /\ \A d \in Conditions \ {c} : pools'[d] = pools[d] /\ balanceOf'[AMM][d] = balanceOf[AMM][d]
      /\ \A o \in Outcomes :
            balanceOf'[AMM][c][o] - q.reserve[o] = balanceOf[AMM][c][o] - pools[c].reserve[o]
  BY <1>0, <1>1, PooledEffect
<1>3. pools \in [Conditions -> Pool] /\ lpBalance \in [Conditions -> [Holders -> Nat]]
  BY <1>0 DEF AMMTypeOK, Pool
<1>4. pools' = [pools EXCEPT ![c] = q] /\ q.exists
  BY <1>1 DEF PoolMove
<1>5. /\ lpBalance' \in [Conditions -> [Holders -> Nat]] /\ seedLocked' \in [Conditions -> [Holders -> Nat]]
      /\ \A d \in Conditions \ {c} : lpBalance'[d] = lpBalance[d] /\ seedLocked'[d] = seedLocked[d]
      /\ \A y \in Holders \ {x} : lpBalance'[c][y] = lpBalance[c][y] /\ seedLocked'[c][y] = seedLocked[c][y]
      /\ lpBalance'[c][x] = lpBalance[c][x] + k /\ x \in Holders /\ k \in Int
  <2>1. SharesMove(c, x, k, q) /\ PoolsOK /\ AMMTypeOK /\ q \in Pool /\ pools' = [pools EXCEPT ![c] = q]
    BY <1>0, <1>1, <1>2, <1>4
  <2>2. q.exists
    BY <1>4
  <2> QED BY <2>1, <2>2, SharesEffect, Zenon
<1>6. ASSUME NEW d \in Conditions, NEW o \in Outcomes PROVE balanceOf'[AMM][d][o] >= pools'[d].reserve[o]
  <2>1. /\ balanceOf[AMM][d][o] \in Nat /\ balanceOf'[AMM][d][o] \in Nat
        /\ pools[d].reserve[o] \in Nat /\ pools'[d].reserve[o] \in Nat
        /\ balanceOf[AMM][d][o] >= pools[d].reserve[o]
    BY <1>0, <1>2, <1>3 DEF CTFTypeOK, Pool, Covered
  <2>2. CASE d = c
    <3>1. balanceOf'[AMM][d][o] - pools'[d].reserve[o] = balanceOf[AMM][d][o] - pools[d].reserve[o]
      BY <1>2, <2>2
    <3> QED BY <2>1, <3>1
  <2>3. CASE d # c
    BY <1>2, <2>1, <2>3
  <2> QED BY <2>2, <2>3
<1>7. usdc'[AMM] >= FeesOf(pools')
  <2>1. /\ usdc[AMM] \in Nat /\ usdc'[AMM] \in Nat /\ FeesOf(pools) \in Int
        /\ pools[c].lpFees \in Nat /\ q.lpFees \in Nat
    BY <1>0, <1>2, <1>3, FeesInt DEF CTFTypeOK, Pool
  <2>2. FeesOf(pools') = FeesOf(pools) - pools[c].lpFees + q.lpFees
    BY <1>2, <1>3, FeesChange
  <2>3. usdc[AMM] >= FeesOf(pools) /\ usdc'[AMM] = usdc[AMM] + q.lpFees - pools[c].lpFees
    BY <1>2 DEF Covered
  <2> QED BY <2>1, <2>2, <2>3
<1>8. q.lpSupply = pools[c].lpSupply + k /\ q.lpSupply >= MIN_LP
  BY <1>1 DEF SharesMove
<1>9. q.lpSupply = SharesOf(lpBalance', c)
  <2>1. /\ SharesOf(lpBalance', c) = SharesOf(lpBalance, c) - lpBalance[c][x] + lpBalance'[c][x]
        /\ SharesOf(lpBalance, c) \in Int
    BY <1>3, <1>5, SharesChange
  <2>2. SharesOf(lpBalance, c) = pools[c].lpSupply /\ pools[c].lpSupply \in Nat
    <3>1. CASE pools[c].exists
      BY <1>3, <3>1 DEF Covered, Pool
    <3>2. CASE ~pools[c].exists
      <4>1. pools[c].lpSupply = 0 /\ lpBalance[c] = [y \in Holders |-> 0]
        BY <1>0, <3>2 DEF PoolsOK, PoolOK, NoPool
      <4> QED BY <4>1, NoShares
    <3> QED BY <3>1, <3>2
  <2>3. lpBalance[c][x] \in Nat /\ lpBalance'[c][x] = lpBalance[c][x] + k /\ k \in Int
    BY <1>3, <1>5
  <2> QED BY <1>8, <2>1, <2>2, <2>3
<1>10. ASSUME NEW d \in Conditions, pools'[d].exists
       PROVE  pools'[d].lpSupply = SharesOf(lpBalance', d) /\ pools'[d].lpSupply >= MIN_LP
  <2>1. CASE d = c
    BY <1>2, <1>8, <1>9, <2>1
  <2>2. CASE d # c
    <3>1. pools'[d] = pools[d] /\ lpBalance'[d] = lpBalance[d]
      BY <1>2, <1>5, <2>2
    <3>2. pools[d].exists
      BY <1>10, <3>1
    <3>3. pools[d].lpSupply = SharesOf(lpBalance, d) /\ pools[d].lpSupply >= MIN_LP
      BY <3>2 DEF Covered
    <3> QED BY <3>1, <3>3, SharesSame
  <2> QED BY <2>1, <2>2
<1> QED BY <1>6, <1>7, <1>10 DEF Covered

(* The AMM can pay whatever its pools promise, and no pool out of another  *)
(* one's money: the tokens behind every reserve are there, the one USDC    *)
(* balance holds the fees of all pools together, every share has an owner, *)
(* and no pool falls to dust, after any calls of any of the contracts.     *)
THEOREM PoolsAreCovered == Spec => []PoolsCovered
<1>1. Init => PoolsCovered
  <2> SUFFICES ASSUME Init PROVE Covered(balanceOf, usdc, pools, lpBalance)
    BY CoveredParts
  <2>1. /\ \A c \in Conditions : pools[c] = NoPool
        /\ usdc = Funds /\ usdc[AMM] = 0
        /\ balanceOf = [a \in Accounts |-> [c \in Conditions |-> NoPayout]] /\ AMM \in Accounts
    BY FundsAssumption, Addresses DEF Init, AMMInit
  <2> DEFINE f == [c \in Conditions |-> pools[c].lpFees]
  <2>2. \A c \in Conditions : f[c] = 0
    BY <2>1 DEF NoPool
  <2>3. FeesOf(pools) = SumOver(f, Conditions)
    BY FeesSum
  <2> HIDE DEF f
  <2>4. FeesOf(pools) = 0
    BY <2>2, <2>3, FinitelyMany, SumZero
  <2>5. \A c \in Conditions, o \in Outcomes : balanceOf[AMM][c][o] = 0 /\ pools[c].reserve[o] = 0 /\ ~pools[c].exists
    BY <2>1 DEF NoPool, NoPayout
  <2>6. \A c \in Conditions : ~pools[c].exists
    BY <2>1 DEF NoPool
  <2>7. \A c \in Conditions, o \in Outcomes : balanceOf[AMM][c][o] >= pools[c].reserve[o]
    BY <2>5
  <2> QED BY <2>1, <2>4, <2>6, <2>7 DEF Covered
<1>2. VenueInv /\ VenueInv' /\ PoolsCovered /\ [Next]_venueVars => PoolsCovered'
  BY PoolsKeepOrMove, CoverKept, CoverMoved, CoveredParts, CoveredPartsAfter
<1> QED BY <1>1, <1>2, VenueInvariant, PTL DEF Spec

----------------------------------------------------------------------------
(* What is owed to the holders, of any balances and payouts.               *)
Balances == [Accounts -> [Conditions -> [Outcomes -> Nat]]]
Payouts == [Conditions -> [Outcomes -> Nat]]

SupplyIn(b, c, o) == MapThenSumSet(LAMBDA a : b[a][c][o], Accounts)

OwedIn(b, n, d, c) ==
    IF d[c] > 0
    THEN (SupplyIn(b, c, YES) * n[c][YES] + SupplyIn(b, c, NO) * n[c][NO] + d[c] - 1) \div d[c]
    ELSE Max({SupplyIn(b, c, o) : o \in Outcomes})

Liabilities(b, n, d) == MapThenSumSet(LAMBDA c : OwedIn(b, n, d, c), Conditions)

LEMMA SolventParts == Solvent <=> pot >= Liabilities(balanceOf, payoutNumerators, payoutDenominator)
BY DEF Solvent, Owed, Supply, Liabilities, OwedIn, SupplyIn, MapThenSumSet, MapThenFoldSet, isResolved

LEMMA SolventPartsAfter ==
    Solvent' <=> pot' >= Liabilities(balanceOf', payoutNumerators', payoutDenominator')
BY DEF Solvent, Owed, Supply, Liabilities, OwedIn, SupplyIn, MapThenSumSet, MapThenFoldSet, isResolved

LEMMA SupplySum ==
    ASSUME NEW b, NEW c, NEW o
    PROVE  SupplyIn(b, c, o) = SumOver([a \in Accounts |-> b[a][c][o]], Accounts)
<1> DEFINE f == [a \in Accounts |-> b[a][c][o]]
           S == Accounts
           Body(g) == [s \in SUBSET S |-> IF s = {} THEN 0 ELSE b[Pick(s)][c][o] + g[s \ {Pick(s)}]]
<1>1. ASSUME NEW g PROVE Body(g) = Unfolded(f, S, g)
  <2>1. \A s \in SUBSET S : s # {} => Pick(s) \in Accounts
    BY PickIn
  <2> QED BY <2>1 DEF Unfolded
<1>2. (CHOOSE g : g = Body(g)) = Folded(f, S)
  BY <1>1 DEF Folded
<1>3. SupplyIn(b, c, o) = (CHOOSE g : g = Body(g))[S]
  BY DEF SupplyIn, MapThenSumSet, MapThenFoldSet, Pick
<1> QED BY <1>2, <1>3, SumIsFolded

LEMMA LiabilitiesSum ==
    ASSUME NEW b, NEW n, NEW d
    PROVE  Liabilities(b, n, d) = SumOver([c \in Conditions |-> OwedIn(b, n, d, c)], Conditions)
<1> DEFINE f == [c \in Conditions |-> OwedIn(b, n, d, c)]
           S == Conditions
           Body(g) == [s \in SUBSET S |-> IF s = {} THEN 0 ELSE OwedIn(b, n, d, Pick(s)) + g[s \ {Pick(s)}]]
<1>1. ASSUME NEW g PROVE Body(g) = Unfolded(f, S, g)
  <2>1. \A s \in SUBSET S : s # {} => Pick(s) \in Conditions
    BY PickIn
  <2> QED BY <2>1 DEF Unfolded
<1>2. (CHOOSE g : g = Body(g)) = Folded(f, S)
  BY <1>1 DEF Folded
<1>3. Liabilities(b, n, d) = (CHOOSE g : g = Body(g))[S]
  BY DEF Liabilities, MapThenSumSet, MapThenFoldSet, Pick
<1> QED BY <1>2, <1>3, SumIsFolded

LEMMA SupplyNat ==
    ASSUME NEW b \in Balances, NEW c \in Conditions, NEW o \in Outcomes
    PROVE  SupplyIn(b, c, o) \in Nat
<1> DEFINE f == [a \in Accounts |-> b[a][c][o]]
<1>1. \A a \in Accounts : f[a] \in Nat
  BY DEF Balances
<1> HIDE DEF f
<1>2. SumOver(f, Accounts) \in Nat
  BY <1>1, FinitelyMany, SumNat
<1> QED BY <1>2, SupplySum DEF f

LEMMA SupplySame ==
    ASSUME NEW b, NEW e, NEW c, NEW o, \A a \in Accounts : b[a][c][o] = e[a][c][o]
    PROVE  SupplyIn(e, c, o) = SupplyIn(b, c, o)
<1>1. [a \in Accounts |-> b[a][c][o]] = [a \in Accounts |-> e[a][c][o]]
  OBVIOUS
<1> QED BY <1>1, SupplySum

(* The supply follows the balances of the accounts that change.            *)
LEMMA SupplyOne ==
    ASSUME NEW b \in Balances, NEW e \in Balances, NEW c \in Conditions, NEW o \in Outcomes,
           NEW x \in Accounts, \A a \in Accounts \ {x} : e[a][c][o] = b[a][c][o]
    PROVE  SupplyIn(e, c, o) = SupplyIn(b, c, o) - b[x][c][o] + e[x][c][o]
<1> DEFINE f == [a \in Accounts |-> b[a][c][o]]
           g == [a \in Accounts |-> e[a][c][o]]
<1>1. /\ \A a \in Accounts : f[a] \in Int /\ g[a] \in Int
      /\ \A a \in Accounts \ {x} : f[a] = g[a]
      /\ f[x] = b[x][c][o] /\ g[x] = e[x][c][o]
  BY DEF Balances
<1>2. SupplyIn(b, c, o) = SumOver(f, Accounts) /\ SupplyIn(e, c, o) = SumOver(g, Accounts)
  BY SupplySum
<1> HIDE DEF f, g
<1>3. SumOver(g, Accounts) = SumOver(f, Accounts) - f[x] + g[x]
  BY <1>1, FinitelyMany, SumChanged
<1> QED BY <1>1, <1>2, <1>3

LEMMA SupplyTwo ==
    ASSUME NEW b \in Balances, NEW e \in Balances, NEW c \in Conditions, NEW o \in Outcomes,
           NEW x \in Accounts, NEW y \in Accounts, x # y,
           \A a \in Accounts \ {x, y} : e[a][c][o] = b[a][c][o]
    PROVE  SupplyIn(e, c, o) = SupplyIn(b, c, o) - b[x][c][o] - b[y][c][o] + e[x][c][o] + e[y][c][o]
<1> DEFINE m == [b EXCEPT ![x] = e[x]]
<1>1. m \in Balances /\ m[x] = e[x] /\ \A a \in Accounts \ {x} : m[a] = b[a]
  BY DEF Balances
<1> HIDE DEF m
<1>2. SupplyIn(m, c, o) = SupplyIn(b, c, o) - b[x][c][o] + m[x][c][o]
  BY <1>1, SupplyOne
<1>3. SupplyIn(e, c, o) = SupplyIn(m, c, o) - m[y][c][o] + e[y][c][o]
  <2>1. \A a \in Accounts \ {y} : e[a][c][o] = m[a][c][o]
    BY <1>1
  <2> QED BY <1>1, <2>1, SupplyOne
<1>4. SupplyIn(b, c, o) \in Nat
  BY SupplyNat
<1>5. /\ b[x][c][o] \in Nat /\ b[y][c][o] \in Nat /\ e[x][c][o] \in Nat /\ e[y][c][o] \in Nat
      /\ m[x][c][o] = e[x][c][o] /\ m[y][c][o] = b[y][c][o]
  BY <1>1 DEF Balances
<1> QED BY <1>2, <1>3, <1>4, <1>5

(* What is owed while the condition is open, and once it is resolved.      *)
LEMMA OwedOpen ==
    ASSUME NEW b, NEW n, NEW d, NEW c, ~(d[c] > 0),
           SupplyIn(b, c, YES) \in Int, SupplyIn(b, c, NO) \in Int
    PROVE  OwedIn(b, n, d, c) = IF SupplyIn(b, c, YES) >= SupplyIn(b, c, NO)
                                THEN SupplyIn(b, c, YES) ELSE SupplyIn(b, c, NO)
<1>1. {SupplyIn(b, c, o) : o \in Outcomes} = {SupplyIn(b, c, YES), SupplyIn(b, c, NO)}
  BY DEF Outcomes
<1>2. OwedIn(b, n, d, c) = Max({SupplyIn(b, c, YES), SupplyIn(b, c, NO)})
  BY <1>1 DEF OwedIn
<1> QED BY <1>2, MaxOfTwo

LEMMA OwedNat ==
    ASSUME NEW b \in Balances, NEW n \in Payouts, NEW d \in [Conditions -> Nat], NEW c \in Conditions
    PROVE  OwedIn(b, n, d, c) \in Nat
<1> DEFINE y == SupplyIn(b, c, YES)
           z == SupplyIn(b, c, NO)
           x == y * n[c][YES] + z * n[c][NO] + d[c] - 1
<1>1. YES \in Outcomes /\ NO \in Outcomes
  BY DEF Outcomes
<1>2. y \in Nat /\ z \in Nat /\ n[c][YES] \in Nat /\ n[c][NO] \in Nat /\ d[c] \in Nat
  BY <1>1, SupplyNat DEF Payouts
<1>3. CASE d[c] > 0
  <2>1. y * n[c][YES] \in Nat /\ z * n[c][NO] \in Nat
    BY <1>2
  <2>2. x \in Nat /\ d[c] \in Nat \ {0}
    BY <1>2, <1>3, <2>1
  <2>3. OwedIn(b, n, d, c) = x \div d[c]
    BY <1>3 DEF OwedIn
  <2> HIDE DEF x
  <2> QED BY <2>2, <2>3, QuotientBounds
<1>4. CASE ~(d[c] > 0)
  BY <1>2, <1>4, OwedOpen
<1> QED BY <1>3, <1>4

(* The pot stays ahead if at the one condition that changes it does.       *)
LEMMA SolvencyAt ==
    ASSUME NEW b \in Balances, NEW e \in Balances, NEW n \in Payouts, NEW m \in Payouts,
           NEW d \in [Conditions -> Nat], NEW k \in [Conditions -> Nat], NEW p \in Nat, NEW q \in Nat,
           NEW c \in Conditions,
           \A a \in Accounts, x \in Conditions \ {c} : e[a][x] = b[a][x],
           \A x \in Conditions \ {c} : m[x] = n[x] /\ k[x] = d[x],
           q - OwedIn(e, m, k, c) >= p - OwedIn(b, n, d, c),
           p >= Liabilities(b, n, d)
    PROVE  q >= Liabilities(e, m, k)
<1> DEFINE f == [x \in Conditions |-> OwedIn(b, n, d, x)]
           g == [x \in Conditions |-> OwedIn(e, m, k, x)]
<1>1. \A x \in Conditions : f[x] \in Int /\ g[x] \in Int
  BY OwedNat
<1>2. ASSUME NEW x \in Conditions \ {c} PROVE f[x] = g[x]
  <2>1. \A o \in Outcomes : SupplyIn(e, x, o) = SupplyIn(b, x, o)
    BY SupplySame
  <2>2. YES \in Outcomes /\ NO \in Outcomes
    BY DEF Outcomes
  <2>3. {SupplyIn(e, x, o) : o \in Outcomes} = {SupplyIn(b, x, o) : o \in Outcomes}
    BY <2>1
  <2>4. OwedIn(e, m, k, x) = OwedIn(b, n, d, x)
    BY <2>1, <2>2, <2>3 DEF OwedIn
  <2> QED BY <2>4
<1>3. f[c] = OwedIn(b, n, d, c) /\ g[c] = OwedIn(e, m, k, c)
  OBVIOUS
<1>4. Liabilities(b, n, d) = SumOver(f, Conditions) /\ Liabilities(e, m, k) = SumOver(g, Conditions)
  BY LiabilitiesSum
<1> HIDE DEF f, g
<1>5. SumOver(g, Conditions) = SumOver(f, Conditions) - f[c] + g[c] /\ SumOver(f, Conditions) \in Int
  BY <1>1, <1>2, FinitelyMany, SumChanged, SumInt
<1> QED BY <1>1, <1>3, <1>4, <1>5

LEMMA OwedSame ==
    ASSUME NEW b, NEW e, NEW n, NEW d, NEW c, \A o \in Outcomes : SupplyIn(e, c, o) = SupplyIn(b, c, o)
    PROVE  OwedIn(e, n, d, c) = OwedIn(b, n, d, c)
<1>1. YES \in Outcomes /\ NO \in Outcomes
  BY DEF Outcomes
<1>2. {SupplyIn(e, c, o) : o \in Outcomes} = {SupplyIn(b, c, o) : o \in Outcomes}
  OBVIOUS
<1> QED BY <1>1, <1>2 DEF OwedIn

LEMMA OwedShifts ==
    ASSUME NEW b \in Balances, NEW e \in Balances, NEW n, NEW d, NEW c \in Conditions, NEW s \in Int,
           ~(d[c] > 0), \A o \in Outcomes : SupplyIn(e, c, o) = SupplyIn(b, c, o) + s
    PROVE  OwedIn(e, n, d, c) = OwedIn(b, n, d, c) + s
<1> DEFINE y == SupplyIn(b, c, YES)
           z == SupplyIn(b, c, NO)
           u == SupplyIn(e, c, YES)
           v == SupplyIn(e, c, NO)
<1>1. YES \in Outcomes /\ NO \in Outcomes
  BY DEF Outcomes
<1>2. y \in Nat /\ z \in Nat /\ u \in Nat /\ v \in Nat
  BY <1>1, SupplyNat
<1>3. u = y + s /\ v = z + s
  BY <1>1
<1>4. OwedIn(b, n, d, c) = IF y >= z THEN y ELSE z
  BY <1>2, OwedOpen
<1>5. OwedIn(e, n, d, c) = IF u >= v THEN u ELSE v
  BY <1>2, OwedOpen
<1> HIDE DEF y, z, u, v
<1> QED BY <1>2, <1>3, <1>4, <1>5

LEMMA LedgerTyped ==
    ASSUME CTFTypeOK
    PROVE  balanceOf \in Balances /\ payoutNumerators \in Payouts /\ payoutDenominator \in [Conditions -> Nat] /\ pot \in Nat
BY DEF CTFTypeOK, Balances, Payouts

LEMMA LedgerTypedAfter ==
    ASSUME CTFTypeOK'
    PROVE  balanceOf' \in Balances /\ payoutNumerators' \in Payouts /\ payoutDenominator' \in [Conditions -> Nat] /\ pot' \in Nat
BY DEF CTFTypeOK, Balances, Payouts

LEMMA SolventSame ==
    ASSUME Solvent, UNCHANGED <<pot, balanceOf, payoutVars>>
    PROVE  Solvent'
BY SolventParts, SolventPartsAfter DEF payoutVars

(* Complete sets of one condition are made or unmade against the pot, and  *)
(* only while it is open; no set at all is a move between accounts.        *)
LEMMA SetsMade ==
    ASSUME CTFTypeOK, CTFTypeOK', Solvent, NEW c \in Conditions, NEW s \in Int, pot' = pot + s,
           UNCHANGED payoutVars, s # 0 => ~isResolved(c),
           \A a \in Accounts, x \in Conditions \ {c} : balanceOf'[a][x] = balanceOf[a][x],
           \A o \in Outcomes : SupplyIn(balanceOf', c, o) = SupplyIn(balanceOf, c, o) + s
    PROVE  Solvent'
<1> DEFINE b == balanceOf
           e == balanceOf'
           n == payoutNumerators
           d == payoutDenominator
           p == pot
           q == pot'
<1>1. /\ b \in Balances /\ e \in Balances /\ n \in Payouts /\ d \in [Conditions -> Nat]
      /\ p \in Nat /\ q \in Nat /\ q = p + s
  BY LedgerTyped, LedgerTypedAfter
<1>2. /\ \A a \in Accounts, x \in Conditions \ {c} : e[a][x] = b[a][x]
      /\ \A o \in Outcomes : SupplyIn(e, c, o) = SupplyIn(b, c, o) + s
  OBVIOUS
<1>3. s # 0 => ~(d[c] > 0)
  BY DEF isResolved
<1>4. p >= Liabilities(b, n, d)
  BY SolventParts
<1>5. q >= Liabilities(e, n, d) => Solvent'
  BY SolventPartsAfter DEF payoutVars
<1> HIDE DEF b, e, n, d, p, q
<1>6. OwedIn(e, n, d, c) = OwedIn(b, n, d, c) + s
  <2>1. CASE s = 0
    <3>1. \A o \in Outcomes : SupplyIn(b, c, o) \in Nat
      BY <1>1, SupplyNat
    <3>2. OwedIn(b, n, d, c) \in Nat
      BY <1>1, OwedNat
    <3> QED BY <1>2, <2>1, <3>1, <3>2, OwedSame
  <2>2. CASE s # 0
    BY <1>1, <1>2, <1>3, <2>2, OwedShifts
  <2> QED BY <2>1, <2>2
<1>7. OwedIn(b, n, d, c) \in Nat
  BY <1>1, OwedNat
<1>8. q - OwedIn(e, n, d, c) >= p - OwedIn(b, n, d, c)
  BY <1>1, <1>6, <1>7
<1>9. q >= Liabilities(e, n, d)
  BY <1>1, <1>2, <1>4, <1>8, SolvencyAt
<1> QED BY <1>5, <1>9

LEMMA SolventMoved ==
    ASSUME CTFTypeOK, CTFTypeOK', Solvent, NEW s \in Accounts, NEW r \in Accounts, NEW c \in Conditions,
           NEW o \in Outcomes, NEW n \in Nat, TokensMoved(balanceOf', s, r, c, o, n), UNCHANGED <<pot, payoutVars>>
    PROVE  Solvent'
<1>0. balanceOf \in Balances /\ balanceOf' \in Balances /\ pot \in Nat
  BY LedgerTyped, LedgerTypedAfter
<1>1. CASE s = r
  BY <1>1, SolventSame DEF TokensMoved
<1>2. CASE s # r
  <2>1. /\ balanceOf'[s][c][o] = balanceOf[s][c][o] - n /\ balanceOf'[r][c][o] = balanceOf[r][c][o] + n
        /\ \A x \in Accounts, d \in Conditions, p \in Outcomes :
              d # c \/ p # o \/ x \notin {s, r} => balanceOf'[x][d][p] = balanceOf[x][d][p]
    BY <1>2 DEF TokensMoved
  <2>2. ASSUME NEW a \in Accounts, NEW x \in Conditions \ {c} PROVE balanceOf'[a][x] = balanceOf[a][x]
    <3>1. \A p \in Outcomes : balanceOf'[a][x][p] = balanceOf[a][x][p]
      BY <2>1
    <3>2. balanceOf'[a][x] \in [Outcomes -> Nat] /\ balanceOf[a][x] \in [Outcomes -> Nat]
      BY <1>0 DEF Balances
    <3> QED BY <3>1, <3>2
  <2>3. ASSUME NEW p \in Outcomes PROVE SupplyIn(balanceOf', c, p) = SupplyIn(balanceOf, c, p) + 0
    <3>0. SupplyIn(balanceOf, c, p) \in Nat
      BY <1>0, SupplyNat
    <3>1. CASE p = o
      <4>1. SupplyIn(balanceOf', c, o) = SupplyIn(balanceOf, c, o) - balanceOf[s][c][o] - balanceOf[r][c][o]
                                           + balanceOf'[s][c][o] + balanceOf'[r][c][o]
        <5>1. \A a \in Accounts \ {s, r} : balanceOf'[a][c][o] = balanceOf[a][c][o]
          BY <2>1
        <5> QED BY <1>0, <1>2, <5>1, SupplyTwo
      <4>2. balanceOf[s][c][o] \in Nat /\ balanceOf[r][c][o] \in Nat
        BY <1>0 DEF Balances
      <4> QED BY <2>1, <3>0, <3>1, <4>1, <4>2
    <3>2. CASE p # o
      <4>1. \A a \in Accounts : balanceOf[a][c][p] = balanceOf'[a][c][p]
        BY <2>1, <3>2
      <4>2. SupplyIn(balanceOf', c, p) = SupplyIn(balanceOf, c, p)
        BY <4>1, SupplySame
      <4> QED BY <3>0, <4>2
    <3> QED BY <3>1, <3>2
  <2>4. pot' = pot + 0 /\ 0 \in Int
    BY <1>0
  <2> QED BY <2>2, <2>3, <2>4, SetsMade
<1> QED BY <1>1, <1>2

LEMMA SolventSettled ==
    ASSUME CTFTypeOK, CTFTypeOK', Solvent, NEW a \in Holders, NEW c \in Conditions,
           NEW in \in Nat, NEW toVault \in Nat, NEW out \in Nat, NEW sets \in Int,
           NEW tokens \in [Outcomes -> Int], Settle(a, c, in, toVault, out, sets, tokens),
           sets # 0 => ~isResolved(c), UNCHANGED payoutVars
    PROVE  Solvent'
<1>0. balanceOf \in Balances /\ balanceOf' \in Balances /\ a \in Accounts /\ AMM \in Accounts /\ a # AMM
  BY LedgerTyped, LedgerTypedAfter, Addresses
<1>1. /\ pot' = pot + sets
      /\ \A o \in Outcomes : /\ balanceOf'[AMM][c][o] = balanceOf[AMM][c][o] + sets + tokens[o]
                             /\ balanceOf'[a][c][o] = balanceOf[a][c][o] - tokens[o]
      /\ \A x \in Accounts \ {a, AMM} : balanceOf'[x] = balanceOf[x]
      /\ \A x \in Accounts, d \in Conditions \ {c} : balanceOf'[x][d] = balanceOf[x][d]
  BY SettleEffect
<1>2. ASSUME NEW o \in Outcomes PROVE SupplyIn(balanceOf', c, o) = SupplyIn(balanceOf, c, o) + sets
  <2>1. SupplyIn(balanceOf', c, o) = SupplyIn(balanceOf, c, o) - balanceOf[a][c][o] - balanceOf[AMM][c][o]
                                       + balanceOf'[a][c][o] + balanceOf'[AMM][c][o]
    <3>1. \A x \in Accounts \ {a, AMM} : balanceOf'[x][c][o] = balanceOf[x][c][o]
      BY <1>1
    <3> QED BY <1>0, <3>1, SupplyTwo
  <2>2. balanceOf[a][c][o] \in Nat /\ balanceOf[AMM][c][o] \in Nat /\ tokens[o] \in Int
    BY <1>0 DEF Balances
  <2>3. SupplyIn(balanceOf, c, o) \in Nat
    BY <1>0, SupplyNat
  <2> QED BY <1>1, <2>1, <2>2, <2>3
<1> QED BY <1>1, <1>2, SetsMade

(* A split or a merge: s sets more, or -s less, in the hands of a.         *)
LEMMA SolventSets ==
    ASSUME CTFTypeOK, CTFTypeOK', Solvent, NEW a \in Accounts, NEW c \in Conditions, NEW s \in Int,
           pot' = pot + s, UNCHANGED payoutVars, ~isResolved(c),
           \A o \in Outcomes : balanceOf'[a][c][o] = balanceOf[a][c][o] + s,
           \A x \in Conditions \ {c} : balanceOf'[a][x] = balanceOf[a][x],
           \A x \in Accounts \ {a} : balanceOf'[x] = balanceOf[x]
    PROVE  Solvent'
<1>0. balanceOf \in Balances /\ balanceOf' \in Balances
  BY LedgerTyped, LedgerTypedAfter
<1>1. ASSUME NEW o \in Outcomes PROVE SupplyIn(balanceOf', c, o) = SupplyIn(balanceOf, c, o) + s
  <2>1. SupplyIn(balanceOf', c, o) = SupplyIn(balanceOf, c, o) - balanceOf[a][c][o] + balanceOf'[a][c][o]
    <3>1. \A x \in Accounts \ {a} : balanceOf'[x][c][o] = balanceOf[x][c][o]
      OBVIOUS
    <3> QED BY <1>0, <3>1, SupplyOne
  <2>2. balanceOf[a][c][o] \in Nat
    BY <1>0 DEF Balances
  <2>3. SupplyIn(balanceOf, c, o) \in Nat
    BY <1>0, SupplyNat
  <2> QED BY <2>1, <2>2, <2>3
<1>2. \A y \in Accounts, x \in Conditions \ {c} : balanceOf'[y][x] = balanceOf[y][x]
  OBVIOUS
<1> QED BY <1>1, <1>2, SetsMade

(* What is paid, rounded down, is no more than what is owed less, rounded  *)
(* up.                                                                     *)
LEMMA PaidIsOwedLess ==
    ASSUME NEW w \in Int, NEW x \in Nat, NEW d \in Nat \ {0}
    PROVE  CeilDiv(w - x, d) <= CeilDiv(w, d) - x \div d /\ CeilDiv(w, d) \in Int
<1> DEFINE y == w + d - 1
           r == y \div d
           q == x \div d
<1>1. r \in Int /\ y < r * d + d
  <2>1. y \in Int
    OBVIOUS
  <2> HIDE DEF y
  <2> QED BY <2>1, QuotientBounds
<1>2. q \in Int /\ q * d <= x
  BY QuotientBounds
<1>3. CeilDiv(w, d) = r
  BY DEF CeilDiv
<1> HIDE DEF r, q
<1>4. r * d \in Int /\ q * d \in Int /\ (r - q) * d = r * d - q * d
  BY <1>1, <1>2
<1>5. w - x <= (r - q) * d
  BY <1>1, <1>2, <1>4
<1>6. r - q \in Int /\ w - x \in Int
  BY <1>1, <1>2
<1>7. CeilDiv(w - x, d) <= r - q
  BY <1>5, <1>6, CeilDivAtMost
<1> QED BY <1>1, <1>3, <1>7 DEF q

(* What the holders of a resolved condition are owed, before it is rounded.*)
ClaimsIn(b, n, c) == SupplyIn(b, c, YES) * n[c][YES] + SupplyIn(b, c, NO) * n[c][NO]

LEMMA OwedResolved ==
    ASSUME NEW b, NEW n, NEW d, NEW c, d[c] > 0
    PROVE  OwedIn(b, n, d, c) = CeilDiv(ClaimsIn(b, n, c), d[c])
BY DEF OwedIn, ClaimsIn, CeilDiv

LEMMA ClaimsNat ==
    ASSUME NEW b \in Balances, NEW n \in Payouts, NEW c \in Conditions
    PROVE  ClaimsIn(b, n, c) \in Nat
<1> DEFINE y == SupplyIn(b, c, YES)
           z == SupplyIn(b, c, NO)
<1>1. YES \in Outcomes /\ NO \in Outcomes
  BY DEF Outcomes
<1>2. y \in Nat /\ z \in Nat /\ n[c][YES] \in Nat /\ n[c][NO] \in Nat
  BY <1>1, SupplyNat DEF Payouts
<1> HIDE DEF y, z
<1>3. y * n[c][YES] \in Nat /\ z * n[c][NO] \in Nat
  BY <1>2
<1> QED BY <1>3 DEF ClaimsIn, y, z

LEMMA ClaimsLess ==
    ASSUME NEW b \in Balances, NEW e \in Balances, NEW n \in Payouts, NEW c \in Conditions, NEW o \in Outcomes,
           NEW k \in Nat, SupplyIn(e, c, o) = SupplyIn(b, c, o) - k,
           \A p \in Outcomes \ {o} : SupplyIn(e, c, p) = SupplyIn(b, c, p)
    PROVE  ClaimsIn(e, n, c) = ClaimsIn(b, n, c) - k * n[c][o]
<1> DEFINE y == SupplyIn(b, c, YES)
           z == SupplyIn(b, c, NO)
           u == SupplyIn(e, c, YES)
           v == SupplyIn(e, c, NO)
           f == n[c][YES]
           g == n[c][NO]
<1>1. YES \in Outcomes /\ NO \in Outcomes /\ YES # NO /\ (o = YES \/ o = NO)
  BY DEF Outcomes, YES, NO
<1>2. y \in Nat /\ z \in Nat /\ u \in Nat /\ v \in Nat /\ f \in Nat /\ g \in Nat
  BY <1>1, SupplyNat DEF Payouts
<1>3. o = YES => u = y - k /\ v = z
  BY <1>1
<1>4. o = NO => u = y /\ v = z - k
  BY <1>1
<1>5. /\ ClaimsIn(b, n, c) = y * f + z * g /\ ClaimsIn(e, n, c) = u * f + v * g
      /\ (o = YES => n[c][o] = f) /\ (o = NO => n[c][o] = g)
  BY DEF ClaimsIn
<1> HIDE DEF y, z, u, v, f, g
<1>6. CASE o = YES
  <2>1. u * f = y * f - k * f /\ y * f \in Int /\ k * f \in Int /\ z * g \in Int
    BY <1>2, <1>3, <1>6
  <2> QED BY <1>3, <1>5, <1>6, <2>1
<1>7. CASE o = NO
  <2>1. v * g = z * g - k * g /\ z * g \in Int /\ k * g \in Int /\ y * f \in Int
    BY <1>2, <1>4, <1>7
  <2> QED BY <1>4, <1>5, <1>7, <2>1
<1> QED BY <1>1, <1>6, <1>7

LEMMA SolventRedeemed ==
    ASSUME CTFTypeOK, CTFTypeOK', Solvent, NEW a \in Accounts, NEW c \in Conditions, NEW o \in Outcomes,
           NEW k \in Nat, redeemPositions(a, c, o, k)
    PROVE  Solvent'
<1> DEFINE b == balanceOf
           e == balanceOf'
           n == payoutNumerators
           d == payoutDenominator
           p == pot
           q == pot'
<1>1. /\ b \in Balances /\ e \in Balances /\ n \in Payouts /\ d \in [Conditions -> Nat]
      /\ p \in Nat /\ q \in Nat
  BY LedgerTyped, LedgerTypedAfter
<1>2. /\ d[c] > 0 /\ e = [b EXCEPT ![a][c][o] = @ - k] /\ q = p - (k * n[c][o]) \div d[c]
      /\ UNCHANGED payoutVars
  BY DEF redeemPositions, isResolved, Payout
<1>3. p >= Liabilities(b, n, d)
  BY SolventParts
<1>4. q >= Liabilities(e, n, d) => Solvent'
  BY <1>2, SolventPartsAfter DEF payoutVars
<1> HIDE DEF b, e, n, d, p, q
<1>5. /\ e[a][c][o] = b[a][c][o] - k
      /\ \A x \in Accounts \ {a} : e[x] = b[x]
      /\ \A x \in Accounts, y \in Conditions \ {c} : e[x][y] = b[x][y]
      /\ \A x \in Accounts, r \in Outcomes \ {o} : e[x][c][r] = b[x][c][r]
  BY <1>1, <1>2 DEF Balances
<1>6. SupplyIn(e, c, o) = SupplyIn(b, c, o) - k
  <2>1. SupplyIn(e, c, o) = SupplyIn(b, c, o) - b[a][c][o] + e[a][c][o]
    <3>1. \A x \in Accounts \ {a} : e[x][c][o] = b[x][c][o]
      BY <1>5
    <3> QED BY <1>1, <3>1, SupplyOne
  <2>2. b[a][c][o] \in Nat
    BY <1>1 DEF Balances
  <2>3. SupplyIn(b, c, o) \in Nat
    BY <1>1, SupplyNat
  <2> QED BY <1>5, <2>1, <2>2, <2>3
<1>7. \A r \in Outcomes \ {o} : SupplyIn(e, c, r) = SupplyIn(b, c, r)
  <2> SUFFICES ASSUME NEW r \in Outcomes \ {o} PROVE SupplyIn(e, c, r) = SupplyIn(b, c, r)
    OBVIOUS
  <2>1. \A x \in Accounts : b[x][c][r] = e[x][c][r]
    BY <1>5
  <2> QED BY <2>1, SupplySame
<1> DEFINE w == ClaimsIn(b, n, c)
           x == k * n[c][o]
<1>8. ClaimsIn(e, n, c) = w - x
  BY <1>1, <1>6, <1>7, ClaimsLess
<1>9. w \in Int /\ x \in Nat /\ d[c] \in Nat \ {0}
  <2>1. n[c][o] \in Nat /\ d[c] \in Nat
    BY <1>1 DEF Payouts
  <2>2. w \in Nat
    BY <1>1, ClaimsNat
  <2> QED BY <1>2, <2>1, <2>2
<1>10. q = p - x \div d[c]
  BY <1>2
<1>11. OwedIn(b, n, d, c) = CeilDiv(w, d[c]) /\ OwedIn(e, n, d, c) = CeilDiv(w - x, d[c])
  BY <1>2, <1>8, OwedResolved
<1> HIDE DEF w, x
<1>12. CeilDiv(w - x, d[c]) <= CeilDiv(w, d[c]) - x \div d[c] /\ CeilDiv(w, d[c]) \in Int
  BY <1>9, PaidIsOwedLess
<1>13. OwedIn(b, n, d, c) \in Nat /\ OwedIn(e, n, d, c) \in Nat
  BY <1>1, OwedNat
<1>14. x \div d[c] \in Nat
  BY <1>9, QuotientBounds
<1>15. q - OwedIn(e, n, d, c) >= p - OwedIn(b, n, d, c)
  BY <1>1, <1>10, <1>11, <1>12, <1>13, <1>14
<1>16. q >= Liabilities(e, n, d)
  BY <1>1, <1>3, <1>5, <1>15, SolvencyAt
<1> QED BY <1>4, <1>16

(* A report makes of the larger supply a weighted mean of the two.         *)
LEMMA MeanIsLess ==
    ASSUME NEW y \in Nat, NEW z \in Nat, NEW f \in Nat, NEW g \in Nat, NEW m \in Nat, y <= m, z <= m, f + g > 0
    PROVE  CeilDiv(y * f + z * g, f + g) <= m
<1>1. y * f <= m * f /\ z * g <= m * g
  <2>1. f * y <= f * m /\ g * z <= g * m
    BY ProductsOrdered
  <2> QED BY <2>1
<1>2. m * (f + g) = m * f + m * g /\ m * f \in Nat /\ m * g \in Nat /\ y * f \in Nat /\ z * g \in Nat
  OBVIOUS
<1> DEFINE w == y * f + z * g
<1>3. w \in Int /\ w <= m * (f + g)
  BY <1>1, <1>2
<1> HIDE DEF w
<1>4. CeilDiv(w, f + g) <= m
  <2>1. f + g \in Nat \ {0} /\ m \in Int
    OBVIOUS
  <2> QED BY <1>3, <2>1, CeilDivAtMost
<1> QED BY <1>4 DEF w

LEMMA SolventReported ==
    ASSUME CTFTypeOK, CTFTypeOK', Solvent, NEW s, NEW c \in Conditions, NEW v \in [Outcomes -> Nat],
           reportPayouts(s, c, v)
    PROVE  Solvent'
<1> DEFINE b == balanceOf
           n == payoutNumerators
           m == payoutNumerators'
           d == payoutDenominator
           k == payoutDenominator'
           p == pot
<1>1. /\ b \in Balances /\ n \in Payouts /\ d \in [Conditions -> Nat] /\ p \in Nat
      /\ m \in Payouts /\ k \in [Conditions -> Nat]
  BY LedgerTyped, LedgerTypedAfter
<1>2. /\ m = [n EXCEPT ![c] = v] /\ k = [d EXCEPT ![c] = v[YES] + v[NO]]
      /\ ~(d[c] > 0) /\ v[YES] + v[NO] > 0 /\ UNCHANGED <<pot, balanceOf>>
  BY DEF reportPayouts, isResolved, tokenVars
<1>3. p >= Liabilities(b, n, d)
  BY SolventParts
<1>4. p >= Liabilities(b, m, k) => Solvent'
  BY <1>2, SolventPartsAfter
<1> HIDE DEF b, n, m, d, k, p
<1>5. /\ m[c] = v /\ k[c] = v[YES] + v[NO] /\ \A x \in Conditions \ {c} : m[x] = n[x] /\ k[x] = d[x]
  BY <1>1, <1>2 DEF Payouts
<1> DEFINE y == SupplyIn(b, c, YES)
           z == SupplyIn(b, c, NO)
           top == IF y >= z THEN y ELSE z
<1>6. YES \in Outcomes /\ NO \in Outcomes
  BY DEF Outcomes
<1>7. y \in Nat /\ z \in Nat /\ v[YES] \in Nat /\ v[NO] \in Nat
  BY <1>1, <1>6, SupplyNat
<1>8. OwedIn(b, n, d, c) = top
  BY <1>2, <1>7, OwedOpen
<1>9. OwedIn(b, m, k, c) = CeilDiv(y * v[YES] + z * v[NO], v[YES] + v[NO])
  <2>1. k[c] > 0
    BY <1>2, <1>5
  <2>2. OwedIn(b, m, k, c) = CeilDiv(ClaimsIn(b, m, c), k[c])
    BY <2>1, OwedResolved
  <2>3. ClaimsIn(b, m, c) = y * m[c][YES] + z * m[c][NO]
    BY DEF ClaimsIn
  <2> HIDE DEF y, z
  <2>4. ClaimsIn(b, m, c) = y * v[YES] + z * v[NO]
    BY <1>5, <2>3
  <2> QED BY <1>5, <2>2, <2>4
<1> HIDE DEF y, z
<1>10. top \in Nat /\ y <= top /\ z <= top
  BY <1>7
<1> HIDE DEF top
<1>11. OwedIn(b, m, k, c) <= OwedIn(b, n, d, c)
  <2>1. CeilDiv(y * v[YES] + z * v[NO], v[YES] + v[NO]) <= top
    BY <1>2, <1>7, <1>10, MeanIsLess
  <2> QED BY <1>8, <1>9, <2>1
<1>12. OwedIn(b, n, d, c) \in Nat /\ OwedIn(b, m, k, c) \in Nat
  BY <1>1, OwedNat
<1>13. p - OwedIn(b, m, k, c) >= p - OwedIn(b, n, d, c)
  BY <1>1, <1>11, <1>12
<1>14. p >= Liabilities(b, m, k)
  BY <1>1, <1>3, <1>5, <1>13, SolvencyAt
<1> QED BY <1>4, <1>14

LEMMA SolventLedger ==
    ASSUME CTFTypeOK, CTFTypeOK', Solvent, LedgerCalls
    PROVE  Solvent'
<1> USE AmountsAssumption, Addresses
<1>1. ASSUME NEW c \in Conditions, prepareCondition(c) PROVE Solvent'
  BY <1>1, SolventSame DEF prepareCondition
<1>2. ASSUME NEW a \in Holders, NEW c \in Conditions, NEW n \in Amounts, splitPosition(a, c, n)
      PROVE  Solvent'
  <2>1. n \in Int /\ a \in Accounts /\ pot' = pot + n /\ ~isResolved(c) /\ UNCHANGED payoutVars
    BY <1>2 DEF splitPosition
  <2>2. /\ \A o \in Outcomes : balanceOf'[a][c][o] = balanceOf[a][c][o] + n
        /\ \A x \in Conditions \ {c} : balanceOf'[a][x] = balanceOf[a][x]
        /\ \A x \in Accounts \ {a} : balanceOf'[x] = balanceOf[x]
    BY <1>2 DEF splitPosition, CTFTypeOK
  <2> QED BY <2>1, <2>2, SolventSets
<1>3. ASSUME NEW a \in Holders, NEW c \in Conditions, NEW n \in Amounts, mergePositions(a, c, n)
      PROVE  Solvent'
  <2> DEFINE s == -n
  <2>0. n \in Nat /\ pot \in Nat /\ \A o \in Outcomes : balanceOf[a][c][o] \in Nat
    BY DEF CTFTypeOK
  <2>1. s \in Int /\ a \in Accounts /\ pot' = pot + s /\ ~isResolved(c) /\ UNCHANGED payoutVars
    BY <1>3, <2>0 DEF mergePositions
  <2>2. /\ \A o \in Outcomes : balanceOf'[a][c][o] = balanceOf[a][c][o] - n
        /\ \A x \in Conditions \ {c} : balanceOf'[a][x] = balanceOf[a][x]
        /\ \A x \in Accounts \ {a} : balanceOf'[x] = balanceOf[x]
    BY <1>3 DEF mergePositions, CTFTypeOK
  <2>3. \A o \in Outcomes : balanceOf'[a][c][o] = balanceOf[a][c][o] + s
    BY <2>0, <2>2
  <2> HIDE DEF s
  <2> QED BY <2>1, <2>2, <2>3, SolventSets
<1>4. ASSUME NEW a \in Holders, NEW c \in Conditions, NEW o \in Outcomes, NEW n \in Amounts,
             redeemPositions(a, c, o, n)
      PROVE  Solvent'
  <2>1. a \in Accounts /\ n \in Nat
    OBVIOUS
  <2> QED BY <1>4, <2>1, SolventRedeemed
<1>5. ASSUME NEW a \in Holders, NEW b \in Operators, NEW approved \in BOOLEAN, setApprovalForAll(a, b, approved)
      PROVE  Solvent'
  BY <1>5, SolventSame DEF setApprovalForAll
<1>6. ASSUME NEW a \in Holders, NEW r \in Holders \cup {AMM}, NEW c \in Conditions, NEW o \in Outcomes,
             NEW n \in Amounts, safeTransferFrom(a, a, r, c, o, n)
      PROVE  Solvent'
  <2>1. /\ a \in Accounts /\ r \in Accounts /\ n \in Nat /\ balanceOf[a][c][o] >= n
        /\ balanceOf' = Moved(a, r, c, o, n) /\ UNCHANGED <<pot, payoutVars>>
    BY <1>6 DEF safeTransferFrom
  <2>2. TokensMoved(balanceOf', a, r, c, o, n)
    BY <2>1, MovedEffect
  <2> QED BY <2>1, <2>2, SolventMoved
<1>7. ASSUME NEW s \in Oracles, NEW c \in Conditions, NEW v \in PayoutVectors, reportPayouts(s, c, v)
      PROVE  Solvent'
  BY <1>7, SolventReported, PayoutVectorsAssumption
<1>8. ASSUME NEW c \in Conditions, NEW o \in Outcomes, _resolve(c, o) PROVE Solvent'
  BY <1>8, SolventReported, OnlyTyped DEF _resolve
<1> QED BY <1>1, <1>2, <1>3, <1>4, <1>5, <1>6, <1>7, <1>8 DEF LedgerCalls

LEMMA SolventMatched ==
    ASSUME CTFTypeOK, CTFTypeOK', BookTypeOK, Solvent, BookCalls
    PROVE  Solvent'
<1>1. ASSUME NEW a \in Holders, NEW o \in Orders, cancelOrder(a, o) \/ incrementNonce(a) PROVE Solvent'
  BY <1>1, SolventSame DEF cancelOrder, incrementNonce, vaultVars, ctfVars, payoutVars
<1>2. ASSUME NEW a \in Holders, incrementNonce(a) PROVE Solvent'
  BY <1>2, SolventSame DEF incrementNonce, vaultVars, ctfVars, payoutVars
<1>3. ASSUME NEW t \in Orders, NEW m \in Orders, NEW fill \in Amounts, matchOrders(t, m, fill) PROVE Solvent'
  <2> DEFINE buyer == Terms[Buying(t, m)].maker
             seller == Terms[Selling(t, m)].maker
             c == Terms[t].condition
             o == Terms[t].outcome
  <2>1. /\ balanceOf[seller][c][o] >= fill /\ balanceOf' = Moved(seller, buyer, c, o, fill)
        /\ UNCHANGED <<pot, payoutVars>>
    BY <1>3, MatchUnfolded
  <2>2. Buying(t, m) \in Orders /\ Selling(t, m) \in Orders
    BY DEF Buying, Selling
  <2>3. buyer \in Accounts /\ seller \in Accounts /\ c \in Conditions /\ o \in Outcomes /\ fill \in Nat
    BY <2>2, OrderTyped, AmountsAssumption
  <2> HIDE DEF buyer, seller, c, o
  <2>4. TokensMoved(balanceOf', seller, buyer, c, o, fill)
    BY <2>1, <2>3, MovedEffect
  <2> QED BY <2>1, <2>3, <2>4, SolventMoved
<1> QED BY <1>1, <1>2, <1>3 DEF BookCalls

LEMMA SolventPooled ==
    ASSUME CTFTypeOK, CTFTypeOK', Solvent, NEW a \in Holders, NEW c \in Conditions, NEW x, NEW k,
           Pooled(a, c, x, k), UNCHANGED payoutVars
    PROVE  Solvent'
<1>1. PICK in, toVault, out, sets, tokens, q :
         PoolMove(a, c, in, toVault, out, sets, tokens, q) /\ SharesMove(c, x, k, q)
  BY DEF Pooled
<1>2. /\ in \in Nat /\ toVault \in Nat /\ out \in Nat /\ sets \in Int /\ tokens \in [Outcomes -> Int]
      /\ Settle(a, c, in, toVault, out, sets, tokens) /\ (sets # 0 => ~isResolved(c))
  BY <1>1 DEF PoolMove
<1> QED BY <1>2, SolventSettled

LEMMA SolventStep ==
    ASSUME VenueInv, VenueInv', Solvent, [Next]_venueVars
    PROVE  Solvent'
<1>0. /\ CTFTypeOK /\ VaultTypeOK /\ BookTypeOK /\ AMMTypeOK /\ FactoryTypeOK /\ PoolsOK /\ ResolvedPrepared
      /\ now \in Nat /\ CTFTypeOK'
  BY DEF VenueInv, VenueTypeOK, VaultTypeOK
<1>1. CASE LedgerCalls /\ UNCHANGED <<now, revenueVars, bookVars, ammVars, factoryVars>>
  BY <1>0, <1>1, SolventLedger
<1>2. CASE (HolderCalls \/ Tick \/ \E a \in Holders, n \in Amounts : SendUSDC(a, Vault, n))
           /\ UNCHANGED <<bookVars, ammVars, factoryVars>>
  <2>1. UNCHANGED <<pot, balanceOf, payoutVars>>
    BY <1>0, <1>2, VaultCallsStep
  <2> QED BY <2>1, SolventSame
<1>3. CASE BookCalls /\ UNCHANGED <<ammVars, factoryVars>>
  BY <1>0, <1>3, SolventMatched
<1>4. CASE PoolTrades /\ UNCHANGED <<bookVars, factoryVars>>
  <2>1. PICK a \in Holders, c \in Conditions, x \in Holders, k \in Int :
           Pooled(a, c, x, k) /\ (c \in prepared \/ pools[c].exists) /\ PoolCallUnchanged
    BY <1>0, <1>4, TradesArePooled
  <2>2. UNCHANGED payoutVars
    BY <2>1 DEF PoolCallUnchanged
  <2> QED BY <1>0, <2>1, <2>2, SolventPooled
<1>5. ASSUME NEW enabled \in BOOLEAN, setCloseGate(enabled) PROVE Solvent'
  BY <1>5, SolventSame DEF setCloseGate, vaultVars, ctfVars, payoutVars
<1>6. CASE SettingsChange
  <2>1. UNCHANGED vaultVars
    BY <1>0, <1>6, SettingsStep
  <2> QED BY <2>1, SolventSame DEF vaultVars, ctfVars, payoutVars
<1>7. ASSUME NEW c \in Conditions, NEW close \in Nat, NEW type \in {"primary", "wildcard", "user"},
             Listed(c, close, type)
      PROVE  Solvent'
  <2>1. UNCHANGED payoutVars
    BY <1>7 DEF Listed, Created
  <2>2. Unseeded => Solvent'
    BY <2>1, SolventSame DEF Unseeded
  <2>3. ASSUME NEW a \in Holders, NEW n \in Nat, Pooled(a, c, a, n) PROVE Solvent'
    BY <1>0, <2>1, <2>3, SolventPooled
  <2> QED BY <1>7, <2>2, <2>3 DEF Listed
<1>8. CASE UNCHANGED venueVars
  BY <1>8, SolventSame DEF venueVars, vaultVars, ctfVars, payoutVars
<1>9. PoolCalls => PoolTrades \/ \E enabled \in BOOLEAN : setCloseGate(enabled)
  BY DEF PoolCalls, PoolTrades
<1>10. ListingCalls => SettingsChange \/ \E c \in Conditions, close \in Nat, type \in {"primary", "wildcard", "user"} :
                                            Listed(c, close, type)
  BY <1>0, ListingCases
<1> QED BY <1>1, <1>2, <1>3, <1>4, <1>5, <1>6, <1>7, <1>8, <1>9, <1>10 DEF Next

(* The pot of the outcome tokens covers every claim the holders have on    *)
(* it, together and rounded up, whatever the oracles report and in any     *)
(* order of splits, merges, transfers, matches, pool trades, listings and  *)
(* redemptions: nothing mints without collateral, no condition is redeemed *)
(* out of another one's, and rounding never pays out more than is there.   *)
THEOREM PotIsSolvent == Spec => []Solvent
<1>1. Init => Solvent
  <2> SUFFICES ASSUME Init PROVE pot >= Liabilities(balanceOf, payoutNumerators, payoutDenominator)
    BY SolventParts
  <2>1. /\ pot = 0 /\ balanceOf = [a \in Accounts |-> [c \in Conditions |-> NoPayout]]
        /\ payoutDenominator = [c \in Conditions |-> 0]
    BY DEF Init
  <2>2. ASSUME NEW c \in Conditions, NEW o \in Outcomes PROVE SupplyIn(balanceOf, c, o) = 0
    <3> DEFINE f == [a \in Accounts |-> balanceOf[a][c][o]]
    <3>1. \A a \in Accounts : f[a] = 0
      BY <2>1 DEF NoPayout
    <3>2. SupplyIn(balanceOf, c, o) = SumOver(f, Accounts)
      BY SupplySum
    <3> HIDE DEF f
    <3> QED BY <3>1, <3>2, FinitelyMany, SumZero
  <2> DEFINE g == [c \in Conditions |-> OwedIn(balanceOf, payoutNumerators, payoutDenominator, c)]
  <2>3. ASSUME NEW c \in Conditions PROVE g[c] = 0
    <3>1. YES \in Outcomes /\ NO \in Outcomes
      BY DEF Outcomes
    <3>2. SupplyIn(balanceOf, c, YES) = 0 /\ SupplyIn(balanceOf, c, NO) = 0 /\ ~(payoutDenominator[c] > 0)
      BY <2>1, <2>2, <3>1
    <3>3. OwedIn(balanceOf, payoutNumerators, payoutDenominator, c) = 0
      BY <3>2, OwedOpen
    <3> QED BY <3>3
  <2>4. Liabilities(balanceOf, payoutNumerators, payoutDenominator) = SumOver(g, Conditions)
    BY LiabilitiesSum
  <2> HIDE DEF g
  <2>5. SumOver(g, Conditions) = 0
    BY <2>3, FinitelyMany, SumZero
  <2> QED BY <2>1, <2>4, <2>5
<1>2. VenueInv /\ VenueInv' /\ Solvent /\ [Next]_venueVars => Solvent'
  BY SolventStep
<1> QED BY <1>1, <1>2, VenueInvariant, PTL DEF Spec

----------------------------------------------------------------------------
(* What a call makes of the books of one pool, and that it leaves those of *)
(* the others alone: a seed, a trade, a deposit or a withdrawal.           *)
Untouched(c) == \A d \in Conditions \ {c} : pools'[d] = pools[d]

SeededPool(p, q) ==
    \E n \in Nat \ {0} : q.liquidity = (n * WAD) \div G[0] /\ \A o \in Outcomes : q.reserve[o] = n

BoughtPool(p, q) ==
    \E o \in Outcomes, trade \in Nat \ {0}, left \in Nat :
        /\ left \in _buy(p, o, trade)
        /\ q.reserve[o] = left /\ q.reserve[Other(o)] = p.reserve[Other(o)] + trade
        /\ q.liquidity = p.liquidity /\ q.lpSupply = p.lpSupply

SoldPool(p, q) ==
    \E o \in Outcomes, n \in Nat :
        LET m == _sell(p, o, n)
        IN  /\ m > 0
            /\ q.reserve[o] = p.reserve[o] + n - m /\ q.reserve[Other(o)] = p.reserve[Other(o)] - m
            /\ q.liquidity = p.liquidity /\ q.lpSupply = p.lpSupply

AddedPool(p, q) ==
    \E n \in Nat :
        LET long == Max({p.reserve[o] : o \in Outcomes})
            whole == long + p.lpFees
        IN  /\ p.liquidity > 0
            /\ \A o \in Outcomes : q.reserve[o] = p.reserve[o] + ShareIn(n, p.reserve[o], whole)
            /\ q.liquidity = p.liquidity + (n * p.liquidity) \div whole
            /\ q.lpFees = p.lpFees + n - ShareIn(n, long, whole)
            /\ q.lpSupply = p.lpSupply + (n * p.lpSupply) \div whole

RemovedPool(p, q) ==
    \E k \in Nat :
        /\ k < p.lpSupply
        /\ \A o \in Outcomes : q.reserve[o] = p.reserve[o] - (p.reserve[o] * k) \div p.lpSupply
        /\ q.liquidity = p.liquidity - LiquidityOut(p, k)
        /\ q.lpFees = p.lpFees - (p.lpFees * k) \div p.lpSupply
        /\ q.lpSupply = p.lpSupply - k

LEMMA SeedBooks ==
    ASSUME AMMTypeOK, NEW c \in Conditions, NEW n \in Nat, NEW x, NEW close, CanSeed(c, n, close),
           Seeded(c, n, x, close)
    PROVE  Untouched(c) /\ SeededPool(pools[c], pools'[c]) /\ ~pools[c].exists
<1> DEFINE q == [exists |-> TRUE, reserve |-> [o \in Outcomes |-> n], lpSupply |-> n,
                 liquidity |-> (n * WAD) \div G[0], lpFees |-> 0, closeTime |-> close]
<1>1. q.liquidity = (n * WAD) \div G[0] /\ \A o \in Outcomes : q.reserve[o] = n
  OBVIOUS
<1>2. pools' = [pools EXCEPT ![c] = q]
  BY DEF Seeded
<1> HIDE DEF q
<1>3. pools'[c] = q /\ Untouched(c)
  BY <1>2 DEF AMMTypeOK, Untouched
<1>4. n \in Nat \ {0} /\ ~pools[c].exists
  BY AMMFeesAssumption DEF CanSeed
<1> QED BY <1>1, <1>3, <1>4 DEF SeededPool

LEMMA BuyBooks ==
    ASSUME AMMTypeOK, NEW a, NEW c \in Conditions, NEW o \in Outcomes, NEW n \in Nat, buyWithUSDC(a, c, o, n)
    PROVE  Untouched(c) /\ BoughtPool(pools[c], pools'[c])
<1> DEFINE p == pools[c]
           trade == n - Fees(n)
           lf == _fee(n, LP_FEE_BPS)
<1>0. p \in Pool /\ trade \in Int /\ pools \in [Conditions -> Pool] /\ lf \in Nat
  BY SMTT(60), PoolTyped, FeesAreNat DEF AMMTypeOK, Pool
<1>1. PICK left \in _buy(p, o, trade) :
         pools' = [pools EXCEPT ![c].reserve[o] = left, ![c].reserve[Other(o)] = @ + trade,
                                ![c].lpFees = @ + lf]
  BY DEF buyWithUSDC
<1>2. left \in Nat \ {0} /\ trade \in Nat \ {0}
  BY <1>0, <1>1, BuyLeaves
<1> HIDE DEF p, trade, lf
<1>3. pools' = [pools EXCEPT ![c] = [p EXCEPT !.reserve[o] = left, !.reserve[Other(o)] = @ + trade,
                                              !.lpFees = @ + lf]]
  BY <1>0, <1>1 DEF p
<1> DEFINE r == [p.reserve EXCEPT ![o] = left, ![Other(o)] = @ + trade]
           f == p.lpFees + lf
           l == p.liquidity
           s == p.lpSupply
           q == Repooled(p, r, f, l, s)
<1>4. p.reserve \in [Outcomes -> Nat] /\ l \in Nat /\ s \in Nat /\ f \in Nat
  BY <1>0 DEF Pool
<1>5. r \in [Outcomes -> Nat] /\ r[o] = left /\ r[Other(o)] = p.reserve[Other(o)] + trade
  BY <1>2, <1>4, OtherTyped
<1>6. pools' = [pools EXCEPT ![c] = q]
  BY <1>0, <1>3 DEF Repooled, Pool
<1> HIDE DEF r, f, l, s
<1>7. q.reserve = r /\ q.liquidity = l /\ q.lpSupply = s
  BY <1>0, <1>4, <1>5 DEF Repooled, Pool
<1> HIDE DEF q
<1>8. pools'[c] = q /\ Untouched(c)
  BY <1>0, <1>6 DEF Untouched
<1> QED BY <1>1, <1>2, <1>5, <1>7, <1>8 DEF BoughtPool, p, l, s

LEMMA SellBooks ==
    ASSUME AMMTypeOK, NEW a, NEW c \in Conditions, NEW o \in Outcomes, NEW n \in Nat, sellToUSDC(a, c, o, n)
    PROVE  Untouched(c) /\ SoldPool(pools[c], pools'[c])
<1> DEFINE p == pools[c]
           m == _sell(p, o, n)
           lf == _fee(m, LP_FEE_BPS)
<1>0. p \in Pool /\ pools \in [Conditions -> Pool]
  BY PoolTyped DEF AMMTypeOK, Pool
<1>1. m \in Nat /\ m <= n /\ m <= p.reserve[Other(o)]
  BY <1>0, SellBounds
<1>2. lf \in Nat /\ Fees(m) \in Nat
  BY <1>1, FeesAreNat
<1>3. /\ m > Fees(m)
      /\ pools' = [pools EXCEPT ![c].reserve[o] = @ + n - m, ![c].reserve[Other(o)] = @ - m,
                                ![c].lpFees = @ + lf]
  BY DEF sellToUSDC
<1> HIDE DEF p, m, lf
<1>4. pools' = [pools EXCEPT ![c] = [p EXCEPT !.reserve[o] = @ + n - m, !.reserve[Other(o)] = @ - m,
                                              !.lpFees = @ + lf]]
  BY <1>0, <1>3 DEF p
<1> DEFINE r == [p.reserve EXCEPT ![o] = @ + n - m, ![Other(o)] = @ - m]
           f == p.lpFees + lf
           l == p.liquidity
           s == p.lpSupply
           q == Repooled(p, r, f, l, s)
<1>5. p.reserve \in [Outcomes -> Nat] /\ l \in Nat /\ s \in Nat /\ f \in Nat
  BY <1>0, <1>2 DEF Pool
<1>6. r[o] = p.reserve[o] + n - m /\ r[Other(o)] = p.reserve[Other(o)] - m
  BY <1>1, <1>5, OtherTyped
<1>7. pools' = [pools EXCEPT ![c] = q]
  BY <1>0, <1>4 DEF Repooled, Pool
<1> HIDE DEF r, f, l, s
<1>8. q.reserve = r /\ q.liquidity = l /\ q.lpSupply = s
  BY <1>0 DEF Repooled, Pool
<1> HIDE DEF q
<1>9. pools'[c] = q /\ Untouched(c)
  BY <1>0, <1>7 DEF Untouched
<1>10. m > 0
  BY SMTT(60), <1>1, <1>2, <1>3
<1> QED BY <1>6, <1>8, <1>9, <1>10 DEF SoldPool, p, m, l, s

LEMMA AddBooks ==
    ASSUME AMMTypeOK, NEW a, NEW c \in Conditions, NEW n \in Nat, addLiquidity(a, c, n)
    PROVE  Untouched(c) /\ AddedPool(pools[c], pools'[c])
<1> DEFINE p == pools[c]
           long == Max({p.reserve[o] : o \in Outcomes})
           whole == long + p.lpFees
           sets == ShareIn(n, long, whole)
           legs == [o \in Outcomes |-> ShareIn(n, p.reserve[o], whole)]
           minted == (n * p.lpSupply) \div whole
           more == (n * p.liquidity) \div whole
<1>0. p \in Pool /\ pools \in [Conditions -> Pool]
  BY SMTT(60), PoolTyped DEF AMMTypeOK, Pool
<1>1. /\ p.liquidity > 0
      /\ pools' = [pools EXCEPT ![c].reserve = [o \in Outcomes |-> @[o] + legs[o]],
                                ![c].liquidity = @ + more,
                                ![c].lpFees = @ + n - sets,
                                ![c].lpSupply = @ + minted]
  BY DEF addLiquidity
<1>2. \A o \in Outcomes : legs[o] = ShareIn(n, p.reserve[o], whole)
  BY SMTT(60)
<1> HIDE DEF p, whole, sets, legs, minted, more
<1> DEFINE r == [o \in Outcomes |-> p.reserve[o] + legs[o]]
           f == p.lpFees + n - sets
           l == p.liquidity + more
           s == p.lpSupply + minted
           q == Repooled(p, r, f, l, s)
<1>3. pools' = [pools EXCEPT ![c] = q]
  BY ZenonT(60), <1>0, <1>1 DEF Repooled, Pool, p
<1>4. \A o \in Outcomes : r[o] = p.reserve[o] + ShareIn(n, p.reserve[o], whole)
  BY <1>2
<1> HIDE DEF r, f, l, s
<1>5. q.reserve = r /\ q.lpFees = f /\ q.liquidity = l /\ q.lpSupply = s
  BY <1>0 DEF Repooled, Pool
<1> HIDE DEF q
<1>6. pools'[c] = q /\ Untouched(c)
  BY <1>0, <1>3 DEF Untouched
<1> QED BY <1>1, <1>4, <1>5, <1>6 DEF AddedPool, p, f, l, s, whole, sets, minted, more

LEMMA RemoveBooks ==
    ASSUME AMMTypeOK, NEW a, NEW c \in Conditions, NEW k \in Nat, removeLiquidity(a, c, k)
    PROVE  Untouched(c) /\ RemovedPool(pools[c], pools'[c])
<1> DEFINE p == pools[c]
           part(x) == (x * k) \div p.lpSupply
           legs == [o \in Outcomes |-> part(p.reserve[o])]
           fees == part(p.lpFees)
           less == LiquidityOut(p, k)
<1>0. p \in Pool /\ pools \in [Conditions -> Pool] /\ p.lpSupply \in Nat
  BY PoolTyped DEF AMMTypeOK, Pool
<1>1. /\ p.lpSupply - k >= MIN_LP
      /\ pools' = [pools EXCEPT ![c].reserve = [o \in Outcomes |-> @[o] - legs[o]],
                                ![c].lpFees = @ - part(@),
                                ![c].liquidity = @ - less,
                                ![c].lpSupply = @ - k]
  BY ZenonT(60) DEF removeLiquidity
<1>2. pools' = [pools EXCEPT ![c] = [p EXCEPT !.reserve = [o \in Outcomes |-> @[o] - legs[o]], !.lpFees = @ - fees,
                                              !.liquidity = @ - less, !.lpSupply = @ - k]]
  BY <1>0, <1>1
<1>3. \A o \in Outcomes : legs[o] = (p.reserve[o] * k) \div p.lpSupply
  OBVIOUS
<1> HIDE DEF p, legs, fees, less
<1> HIDE DEF part
<1>4. k < p.lpSupply
  <2>1. p.lpSupply - k >= MIN_LP /\ MIN_LP \in Nat \ {0}
    BY <1>1, AMMFeesAssumption
  <2> QED BY SMTT(60), <1>0, <2>1
<1> DEFINE r == [o \in Outcomes |-> p.reserve[o] - legs[o]]
           f == p.lpFees - fees
           l == p.liquidity - less
           s == p.lpSupply - k
           q == Repooled(p, r, f, l, s)
<1>5. pools' = [pools EXCEPT ![c] = q]
  BY <1>0, <1>2 DEF Repooled, Pool
<1>6. \A o \in Outcomes : r[o] = p.reserve[o] - (p.reserve[o] * k) \div p.lpSupply
  BY <1>3
<1> HIDE DEF r, f, l, s
<1>7. q.reserve = r /\ q.lpFees = f /\ q.liquidity = l /\ q.lpSupply = s
  BY <1>0 DEF Repooled, Pool
<1> HIDE DEF q
<1>8. pools'[c] = q /\ Untouched(c)
  BY <1>0, <1>5 DEF Untouched
<1> QED BY <1>4, <1>6, <1>7, <1>8 DEF RemovedPool, p, f, l, s, fees, less, part

Books(c) ==
    \/ SeededPool(pools[c], pools'[c]) /\ ~pools[c].exists
    \/ BoughtPool(pools[c], pools'[c])
    \/ SoldPool(pools[c], pools'[c])
    \/ AddedPool(pools[c], pools'[c])
    \/ RemovedPool(pools[c], pools'[c])

(* No step does anything else to the pools.                                *)
LEMMA BooksChange ==
    ASSUME VenueInv, [Next]_venueVars
    PROVE  UNCHANGED pools \/ \E c \in Conditions : Untouched(c) /\ Books(c)
<1> DEFINE Goal == UNCHANGED pools \/ \E c \in Conditions : Untouched(c) /\ Books(c)
<1> USE InputsAssumption, SeedAmountsAssumption
<1>0. AMMTypeOK /\ CTFTypeOK /\ VaultTypeOK /\ FactoryTypeOK /\ PoolsOK
  BY DEF VenueInv, VenueTypeOK
<1>1. UNCHANGED ammVars => Goal
  BY DEF ammVars, poolVars
<1>2. ASSUME NEW c \in Conditions, NEW n \in Nat, NEW x, NEW close, CanSeed(c, n, close), Seeded(c, n, x, close)
      PROVE  Goal
  <2>1. Untouched(c) /\ SeededPool(pools[c], pools'[c]) /\ ~pools[c].exists
    BY <1>0, <1>2, SeedBooks
  <2> QED BY <2>1 DEF Books
<1>3. ASSUME PoolCalls PROVE Goal
  <2>1. ASSUME NEW c \in Conditions, NEW n \in SeedAmounts, NEW a \in Holders, seedPoolFor(c, n, a) PROVE Goal
    <3>1. CanSeed(c, n, closeTime[c]) /\ Seeded(c, n, a, closeTime[c]) /\ n \in Nat
      BY <2>1 DEF seedPoolFor
    <3> HIDE DEF Goal
    <3> QED BY <1>2, <3>1
  <2>2. ASSUME NEW enabled \in BOOLEAN, setCloseGate(enabled) PROVE Goal
    BY <2>2 DEF setCloseGate
  <2>3. ASSUME NEW a \in Holders, NEW c \in Conditions, NEW n \in TradeAmounts, NEW o \in Outcomes,
               buyWithUSDC(a, c, o, n)
        PROVE  Goal
    <3>1. Untouched(c) /\ BoughtPool(pools[c], pools'[c])
      BY <1>0, <2>3, BuyBooks
    <3> QED BY <3>1 DEF Books
  <2>4. ASSUME NEW a \in Holders, NEW c \in Conditions, NEW n \in TradeAmounts, NEW o \in Outcomes,
               sellToUSDC(a, c, o, n)
        PROVE  Goal
    <3>1. Untouched(c) /\ SoldPool(pools[c], pools'[c])
      BY <1>0, <2>4, SellBooks
    <3> QED BY <3>1 DEF Books
  <2>5. ASSUME NEW a \in Holders, NEW c \in Conditions, NEW n \in TradeAmounts, addLiquidity(a, c, n) PROVE Goal
    <3>1. Untouched(c) /\ AddedPool(pools[c], pools'[c])
      BY <1>0, <2>5, AddBooks
    <3> QED BY <3>1 DEF Books
  <2>6. ASSUME NEW a \in Holders, NEW c \in Conditions, NEW k \in ShareAmounts, removeLiquidity(a, c, k) PROVE Goal
    <3>1. Untouched(c) /\ RemovedPool(pools[c], pools'[c])
      BY <1>0, <2>6, RemoveBooks
    <3> QED BY <3>1 DEF Books
  <2> HIDE DEF Goal
  <2> QED BY <1>3, <2>1, <2>2, <2>3, <2>4, <2>5, <2>6 DEF PoolCalls
<1>4. ASSUME ListingCalls PROVE Goal
  <2>1. ASSUME NEW c \in Conditions, NEW close, NEW n \in SeedAmounts \cup {0}, createPrimaryMarket(c, close, n)
        PROVE  Goal
    <3>1. CanSeed(c, n, close) /\ Seeded(c, n, operator, close) /\ n \in Nat
      BY <2>1 DEF createPrimaryMarket, _seed
    <3> HIDE DEF Goal
    <3> QED BY <1>2, <3>1
  <2>2. ASSUME NEW c \in Conditions, NEW close, NEW n \in SeedAmounts \cup {0}, NEW a,
               createPermissionlessMarket(a, c, close, n)
        PROVE  Goal
    <3>1. CanSeed(c, n, close) /\ Seeded(c, n, a, close) /\ n \in Nat
      BY <2>2 DEF createPermissionlessMarket, _seed
    <3> HIDE DEF Goal
    <3> QED BY <1>2, <3>1
  <2>3. ASSUME NEW c \in Conditions, NEW close, NEW n \in SeedAmounts \cup {0}, NEW a, NEW parent,
               createWildcardMarket(a, c, parent, close, n)
        PROVE  Goal
    <3>1. UNCHANGED pools \/ (CanSeed(c, n, close) /\ Seeded(c, n, a, close) /\ n \in Nat)
      BY <2>3 DEF createWildcardMarket, _seed
    <3>2. UNCHANGED pools => Goal
      OBVIOUS
    <3> HIDE DEF Goal
    <3> QED BY <1>2, <3>1, <3>2
  <2>4. SettingsChange => Goal
    BY <1>0, <1>1, SettingsStep
  <2> HIDE DEF Goal
  <2> QED BY <1>4, <2>1, <2>2, <2>3, <2>4 DEF ListingCalls, SettingsChange
<1> HIDE DEF Goal
<1>5. Goal
  <2>1. Next => UNCHANGED ammVars \/ PoolCalls \/ ListingCalls
    BY DEF Next
  <2>2. UNCHANGED venueVars => UNCHANGED ammVars
    BY DEF venueVars
  <2> QED BY <1>1, <1>3, <1>4, <2>1, <2>2
<1> QED BY <1>5 DEF Goal

(* Shares of w taken of two amounts compare as the amounts do.             *)
LEMMA Crosswise ==
    ASSUME NEW a \in Nat, NEW b \in Nat, NEW n \in Nat, NEW r \in Nat, NEW l \in Nat, NEW w \in Nat \ {0},
           a * w >= n * r, b * w <= n * l
    PROVE  a * l >= r * b /\ (l > 0 /\ a * w > n * r => a * l > r * b)
<1> DEFINE aw == a * w
           nr == n * r
           nl == n * l
           bw == b * w
           x == a * l
           y == r * b
<1>1. aw \in Nat /\ nr \in Nat /\ nl \in Nat /\ bw \in Nat /\ x \in Nat /\ y \in Nat
  OBVIOUS
<1>2. x * w = aw * l /\ nr * l = r * nl /\ r * bw = y * w
  OBVIOUS
<1>3. aw >= nr /\ bw <= nl
  OBVIOUS
<1>4. (a * w > n * r) <=> aw > nr
  OBVIOUS
<1> HIDE DEF aw, nr, nl, bw, x, y
<1>5. aw * l >= nr * l
  BY <1>1, <1>3, ProductsOrdered
<1>6. r * nl >= r * bw
  <2>1. bw * r <= nl * r
    BY <1>1, <1>3, ProductsOrdered
  <2> QED BY <1>1, <2>1
<1>7. x * w >= y * w
  <2>1. x * w \in Nat /\ y * w \in Nat /\ nr * l \in Nat
    BY <1>1
  <2> QED BY <1>2, <1>5, <1>6, <2>1
<1>8. x >= y
  BY <1>1, <1>7, ProductsCancel
<1>9. ASSUME l > 0, aw > nr PROVE x > y
  <2>1. aw * l > nr * l
    BY <1>1, <1>9
  <2>2. x * w > y * w
    <3>1. x * w \in Nat /\ y * w \in Nat /\ nr * l \in Nat
      BY <1>1
    <3> QED BY <1>2, <1>6, <2>1, <3>1
  <2>3. x # y
    BY <1>1, <2>2
  <2> QED BY <1>1, <1>8, <2>3
<1> QED BY <1>4, <1>8, <1>9 DEF x, y

LEMMA CeilDivAbove ==
    ASSUME NEW x \in Int, NEW d \in Nat \ {0}
    PROVE  CeilDiv(x, d) \in Int /\ CeilDiv(x, d) * d >= x /\ CeilDiv(x, d) * d < x + d
<1> DEFINE y == x + d - 1
           q == y \div d
<1>1. y \in Int
  OBVIOUS
<1>2. q \in Int /\ q * d <= y /\ y < q * d + d
  BY <1>1, QuotientBounds
<1>3. CeilDiv(x, d) = q
  BY DEF CeilDiv
<1> HIDE DEF q
<1>4. q * d \in Int
  BY <1>2
<1> QED BY <1>2, <1>3, <1>4

(* A deposit, for those who stay.                                          *)
LEMMA DepositKeepsLong ==
    ASSUME NEW w \in Nat, NEW n \in Nat, NEW s \in Nat, NEW m \in Nat, m * w <= n * s
    PROVE  (w + n) * s >= w * (s + m)
<1>1. (w + n) * s = w * s + n * s /\ w * (s + m) = w * s + m * w
  OBVIOUS
<1>2. w * s \in Nat /\ n * s \in Nat /\ m * w \in Nat
  OBVIOUS
<1> QED BY <1>1, <1>2

LEMMA DepositKeepsShort ==
    ASSUME NEW r \in Nat, NEW f \in Nat, NEW n \in Nat, NEW s \in Nat \ {0}, NEW m \in Nat,
           NEW long \in Nat, NEW w \in Nat \ {0}, w = long + f, NEW leg \in Nat, NEW sets \in Nat,
           leg * w >= n * r, sets * w < n * long + w, m * w <= n * s, sets <= n
    PROVE  (r + leg + (f + n - sets) + 1) * s > (r + f) * (s + m)
<1> DEFINE d == leg + n - sets + 1
           t == r + f
<1>1. d \in Nat /\ t \in Nat
  OBVIOUS
<1>2. d * w > n * t
  <2>1. d * w = leg * w + n * w - sets * w + w
    OBVIOUS
  <2>2. n * t = n * r + n * f /\ n * w = n * long + n * f
    OBVIOUS
  <2>3. /\ leg * w \in Nat /\ n * w \in Nat /\ sets * w \in Nat /\ n * r \in Nat /\ n * f \in Nat
        /\ n * long \in Nat
    OBVIOUS
  <2> HIDE DEF d, t
  <2> QED BY <2>1, <2>2, <2>3
<1>3. r + leg + (f + n - sets) + 1 = t + d
  OBVIOUS
<1> HIDE DEF d, t
<1>4. d * s > t * m
  <2>1. d * w >= n * t
    BY <1>1, <1>2, d * w \in Nat, n * t \in Nat
  <2> QED BY <1>1, <1>2, <2>1, Crosswise
<1>5. (t + d) * s = t * s + d * s /\ t * (s + m) = t * s + t * m
  BY <1>1
<1>6. t * s \in Nat /\ d * s \in Nat /\ t * m \in Nat
  BY <1>1
<1>7. (t + d) * s > t * (s + m)
  BY <1>4, <1>5, <1>6
<1> QED BY <1>3, <1>7 DEF t

(* What a withdrawal of k of s shares leaves of x.                         *)
LEMMA RestIsFair ==
    ASSUME NEW x \in Nat, NEW k \in Nat, NEW s \in Nat \ {0}, k < s
    PROVE  /\ x - (x * k) \div s \in Nat
           /\ (x - (x * k) \div s) * s >= x * (s - k)
<1> DEFINE y == x * k
           d == y \div s
<1>1. y \in Nat
  OBVIOUS
<1>2. d \in Nat /\ d <= x
  BY PartBounds
<1>3. d * s <= y
  <2> HIDE DEF y
  <2> QED BY <1>1, QuotientBounds
<1> HIDE DEF d
<1>4. (x - d) * s = x * s - d * s /\ x * (s - k) = x * s - y
  BY <1>2
<1>5. x * s \in Nat /\ d * s \in Nat
  BY <1>2
<1> HIDE DEF y
<1>6. (x - d) * s >= x * (s - k)
  BY <1>1, <1>3, <1>4, <1>5
<1> QED BY <1>2, <1>6 DEF d, y

LEMMA LongIsThere ==
    ASSUME NEW r \in [Outcomes -> Nat]
    PROVE  /\ \E o \in Outcomes : Max({r[x] : x \in Outcomes}) = r[o]
           /\ \E o \in Outcomes : Min({r[x] : x \in Outcomes}) = r[o]
<1>1. /\ {r[o] : o \in Outcomes} = {r[YES], r[NO]} /\ r[YES] \in Nat /\ r[NO] \in Nat
      /\ YES \in Outcomes /\ NO \in Outcomes
  BY DEF Outcomes
<1>2. /\ Max({r[YES], r[NO]}) = IF r[YES] >= r[NO] THEN r[YES] ELSE r[NO]
      /\ Min({r[YES], r[NO]}) = IF r[YES] <= r[NO] THEN r[YES] ELSE r[NO]
  BY <1>1, MaxOfTwo, MinOfTwo
<1> QED BY <1>1, <1>2

LongSide(p) == Max({p.reserve[o] : o \in Outcomes})
ShortSide(p) == Min({p.reserve[o] : o \in Outcomes})

LEMMA SidesOf ==
    ASSUME NEW p \in Pool
    PROVE  /\ LongSide(p) \in Nat /\ \A o \in Outcomes : p.reserve[o] \in Nat /\ p.reserve[o] <= LongSide(p)
           /\ ShortSide(p) \in Nat /\ \A o \in Outcomes : ShortSide(p) <= p.reserve[o]
           /\ \E o \in Outcomes : LongSide(p) = p.reserve[o]
           /\ \E o \in Outcomes : ShortSide(p) = p.reserve[o]
<1> DEFINE r == p.reserve
<1>1. r \in [Outcomes -> Nat]
  BY DEF Pool
<1>2. LongSide(p) = Max({r[o] : o \in Outcomes}) /\ ShortSide(p) = Min({r[o] : o \in Outcomes})
  BY DEF LongSide, ShortSide
<1> HIDE DEF r
<1>3. /\ LongSide(p) \in Nat /\ \A o \in Outcomes : r[o] \in Nat /\ r[o] <= LongSide(p)
      /\ ShortSide(p) \in Nat /\ \A o \in Outcomes : ShortSide(p) <= r[o]
      /\ \E o \in Outcomes : LongSide(p) = r[o]
      /\ \E o \in Outcomes : ShortSide(p) = r[o]
  BY <1>1, <1>2, LongAndShort, LongIsThere
<1> QED BY <1>3 DEF r

(* What a change of the shares of a pool owes those who stay in it.        *)
Fair(p, q) ==
    /\ (LongSide(q) + q.lpFees) * p.lpSupply >= (LongSide(p) + p.lpFees) * q.lpSupply
    /\ (ShortSide(q) + q.lpFees + 1) * p.lpSupply > (ShortSide(p) + p.lpFees) * q.lpSupply
    /\ \A o \in Outcomes : q.reserve[o] * p.liquidity >= p.reserve[o] * q.liquidity

LEMMA AddedIsFair ==
    ASSUME NEW p \in Pool, NEW q \in Pool, AddedPool(p, q), p.lpSupply > 0, \A o \in Outcomes : p.reserve[o] > 0
    PROVE  Fair(p, q)
<1> DEFINE long == LongSide(p)
           f == p.lpFees
           s == p.lpSupply
           l == p.liquidity
           whole == long + f
<1>0. /\ long \in Nat /\ f \in Nat /\ s \in Nat \ {0} /\ l \in Nat
      /\ q.lpFees \in Nat /\ q.lpSupply \in Nat /\ q.liquidity \in Nat
  BY SidesOf DEF Pool
<1>1. \A o \in Outcomes : p.reserve[o] \in Nat /\ p.reserve[o] <= long /\ q.reserve[o] \in Nat
  BY SidesOf
<1>2. whole \in Nat \ {0} /\ long <= whole
  BY <1>0, <1>1 DEF Outcomes
<1>3. PICK n \in Nat :
         /\ \A o \in Outcomes : q.reserve[o] = p.reserve[o] + ShareIn(n, p.reserve[o], whole)
         /\ q.liquidity = l + (n * l) \div whole
         /\ q.lpFees = f + n - ShareIn(n, long, whole)
         /\ q.lpSupply = s + (n * s) \div whole
  BY DEF AddedPool, LongSide
<1>4. whole = long + f
  OBVIOUS
<1> HIDE DEF long, f, s, l, whole
<1> DEFINE leg(o) == ShareIn(n, p.reserve[o], whole)
           sets == ShareIn(n, long, whole)
           m == (n * s) \div whole
           g == (n * l) \div whole
<1>5. m \in Nat /\ m * whole <= n * s /\ g \in Nat /\ g * whole <= n * l
  <2> DEFINE x == n * s
             y == n * l
  <2>1. x \in Nat /\ y \in Nat
    BY <1>0
  <2> HIDE DEF x, y
  <2>2. x \div whole \in Nat /\ (x \div whole) * whole <= x /\ y \div whole \in Nat /\ (y \div whole) * whole <= y
    BY <1>2, <2>1, QuotientBounds
  <2> QED BY <2>2 DEF x, y
<1>6. ASSUME NEW x \in Nat, x <= whole
      PROVE  /\ ShareIn(n, x, whole) \in Nat /\ ShareIn(n, x, whole) <= n
             /\ ShareIn(n, x, whole) * whole >= n * x /\ ShareIn(n, x, whole) * whole < n * x + whole
  <2> DEFINE y == n * x
  <2>1. y \in Nat
    OBVIOUS
  <2>2. ShareIn(n, x, whole) = CeilDiv(y, whole)
    BY DEF ShareIn
  <2>3. ShareIn(n, x, whole) \in Nat /\ ShareIn(n, x, whole) <= n
    BY <1>2, <1>6, ShareInBounds
  <2> HIDE DEF y, m, g, leg, sets
  <2>4. CeilDiv(y, whole) * whole >= y /\ CeilDiv(y, whole) * whole < y + whole
    <3>1. y \in Int /\ whole \in Nat \ {0}
      BY <1>2, <2>1
    <3> QED BY <3>1, CeilDivAbove, Zenon
  <2> QED BY <2>2, <2>3, <2>4 DEF y
<1>7. sets \in Nat /\ sets <= n /\ sets * whole < n * long + whole
  BY <1>0, <1>2, <1>6
<1>8. ASSUME NEW o \in Outcomes
      PROVE  leg(o) \in Nat /\ leg(o) * whole >= n * p.reserve[o] /\ q.reserve[o] = p.reserve[o] + leg(o)
  <2>1. p.reserve[o] \in Nat /\ p.reserve[o] <= whole
    BY <1>0, <1>1, <1>2
  <2>2. leg(o) \in Nat /\ leg(o) * whole >= n * p.reserve[o]
    BY <1>6, <2>1
  <2> QED BY <1>3, <2>2
<1>9. q.lpFees = f + n - sets /\ q.lpSupply = s + m /\ q.liquidity = l + g
  BY <1>3
<1> HIDE DEF m, g
<1>10. (LongSide(q) + q.lpFees) * s >= (long + f) * q.lpSupply
  <2>1. PICK o \in Outcomes : long = p.reserve[o]
    BY SidesOf DEF long
  <2>2. q.reserve[o] = long + sets
    BY <1>8, <2>1
  <2> HIDE DEF sets
  <2>3. LongSide(q) \in Nat /\ LongSide(q) >= long + sets
    BY <2>2, SidesOf
  <2> DEFINE y == LongSide(q) + q.lpFees
  <2>4. y \in Nat /\ whole + n \in Nat /\ whole + n <= y
    BY <1>0, <1>2, <1>4, <1>7, <1>9, <2>3
  <2> HIDE DEF y
  <2>5. (whole + n) * s <= y * s
    BY <1>0, <2>4, ProductsOrdered
  <2>6. (whole + n) * s >= whole * (s + m)
    BY <1>0, <1>2, <1>5, DepositKeepsLong
  <2>7. y * s \in Nat /\ (whole + n) * s \in Nat /\ whole * (s + m) \in Nat
    BY <1>0, <1>2, <1>5, <2>4
  <2>8. y * s >= whole * (s + m)
    BY <2>5, <2>6, <2>7
  <2> QED BY <1>4, <1>9, <2>8 DEF y
<1>11. (ShortSide(q) + q.lpFees + 1) * s > (ShortSide(p) + f) * q.lpSupply
  <2>1. PICK o \in Outcomes : ShortSide(q) = q.reserve[o]
    BY SidesOf
  <2> DEFINE r == p.reserve[o]
             e == leg(o)
             low == ShortSide(p)
  <2>2. r \in Nat /\ e \in Nat /\ e * whole >= n * r /\ q.reserve[o] = r + e /\ low \in Nat /\ low <= r
    BY <1>1, <1>8, SidesOf
  <2> HIDE DEF r, e, low, sets
  <2>3. (r + e + (f + n - sets) + 1) * s > (r + f) * (s + m)
    BY <1>0, <1>2, <1>4, <1>5, <1>7, <2>2, DepositKeepsShort
  <2>4. (low + f) * (s + m) <= (r + f) * (s + m)
    BY <1>0, <1>5, <2>2, ProductsOrdered, low + f \in Nat, r + f \in Nat, s + m \in Nat, low + f <= r + f
  <2>5. /\ (low + f) * (s + m) \in Nat /\ (r + f) * (s + m) \in Nat
        /\ (r + e + (f + n - sets) + 1) * s \in Nat
    BY <1>0, <1>5, <1>7, <2>2
  <2>6. (r + e + (f + n - sets) + 1) * s > (low + f) * (s + m)
    BY <2>3, <2>4, <2>5
  <2> QED BY <1>9, <2>1, <2>2, <2>6 DEF low
<1>12. ASSUME NEW o \in Outcomes PROVE q.reserve[o] * l >= p.reserve[o] * q.liquidity
  <2> DEFINE r == p.reserve[o]
             e == leg(o)
  <2>1. r \in Nat /\ e \in Nat /\ e * whole >= n * r /\ q.reserve[o] = r + e
    BY <1>1, <1>8
  <2> HIDE DEF r, e
  <2>2. e * l >= r * g
    BY <1>0, <1>2, <1>5, <2>1, Crosswise
  <2>3. (r + e) * l = r * l + e * l /\ r * (l + g) = r * l + r * g
    BY <1>0, <1>5, <2>1
  <2>4. r * l \in Nat /\ e * l \in Nat /\ r * g \in Nat
    BY <1>0, <1>5, <2>1
  <2>5. (r + e) * l >= r * (l + g)
    BY <2>2, <2>3, <2>4
  <2> QED BY <1>9, <2>1, <2>5 DEF r
<1> QED BY <1>10, <1>11, <1>12 DEF Fair, long, f, s, l

LEMMA RemovedIsFair ==
    ASSUME NEW p \in Pool, NEW q \in Pool, RemovedPool(p, q)
    PROVE  Fair(p, q)
<1> DEFINE f == p.lpFees
           s == p.lpSupply
           l == p.liquidity
<1>0. /\ f \in Nat /\ s \in Nat /\ l \in Nat
      /\ q.lpFees \in Nat /\ q.lpSupply \in Nat /\ q.liquidity \in Nat
      /\ \A o \in Outcomes : p.reserve[o] \in Nat /\ q.reserve[o] \in Nat
  BY DEF Pool
<1>1. PICK k \in Nat :
         /\ k < s
         /\ \A o \in Outcomes : q.reserve[o] = p.reserve[o] - (p.reserve[o] * k) \div s
         /\ q.liquidity = l - LiquidityOut(p, k)
         /\ q.lpFees = f - (f * k) \div s
         /\ q.lpSupply = s - k
  BY DEF RemovedPool
<1>2. LiquidityOut(p, k) = Min({CeilDiv(l * k, s), l})
  BY DEF LiquidityOut
<1> HIDE DEF f, s, l
<1>3. s \in Nat \ {0} /\ s - k \in Nat
  BY <1>0, <1>1
<1> DEFINE n == s - k
<1>4. n \in Nat
  BY <1>3
<1>5. ASSUME NEW o \in Outcomes PROVE q.reserve[o] * s >= p.reserve[o] * n
  <2>1. (p.reserve[o] - (p.reserve[o] * k) \div s) * s >= p.reserve[o] * (s - k)
    BY <1>0, <1>1, <1>3, RestIsFair
  <2> QED BY <1>1, <2>1
<1>6. q.lpFees * s >= f * n
  <2>1. (f - (f * k) \div s) * s >= f * (s - k)
    BY <1>0, <1>1, <1>3, RestIsFair
  <2> QED BY <1>1, <2>1
<1>7. q.lpSupply = n
  BY <1>1
<1>8. q.liquidity * s <= n * l
  <2> DEFINE x == l * k
             y == CeilDiv(x, s)
  <2>1. x \in Int
    BY <1>0
  <2> HIDE DEF x
  <2>2. y \in Int /\ y * s >= x
    BY <1>3, <2>1, CeilDivAbove
  <2> HIDE DEF y
  <2>3. q.liquidity = l - (IF y <= l THEN y ELSE l)
    BY <1>0, <1>1, <1>2, <2>2, MinOfTwo DEF x, y
  <2>4. CASE y <= l
    <3>1. (l - y) * s = l * s - y * s /\ n * l = l * s - x
      BY <1>0, <1>3, <2>2 DEF x
    <3>2. l * s \in Int /\ y * s \in Int /\ x \in Int
      BY <1>0, <2>1, <2>2
    <3>3. (l - y) * s <= n * l
      BY <2>2, <3>1, <3>2
    <3> QED BY <2>3, <2>4, <3>3
  <2>5. CASE ~(y <= l)
    <3>1. q.liquidity = 0
      BY <1>0, <2>3, <2>5
    <3>2. n * l \in Nat /\ 0 * s = 0
      BY <1>0, <1>3, <1>4
    <3> QED BY <3>1, <3>2
  <2> QED BY <2>4, <2>5
<1> HIDE DEF n
<1> DEFINE long == LongSide(p)
           low == ShortSide(p)
           high == LongSide(q)
           few == ShortSide(q)
           fq == q.lpFees
<1>9. long \in Nat /\ low \in Nat /\ high \in Nat /\ few \in Nat
  BY SidesOf
<1>10. high * s >= long * n
  <2>1. PICK o \in Outcomes : long = p.reserve[o]
    BY SidesOf
  <2>2. q.reserve[o] \in Nat /\ q.reserve[o] <= high
    BY SidesOf
  <2>3. q.reserve[o] * s <= high * s
    BY <1>3, <1>9, <2>2, ProductsOrdered
  <2>4. q.reserve[o] * s \in Nat /\ high * s \in Nat /\ long * n \in Nat
    BY <1>3, <1>4, <1>9, <2>2
  <2>5. q.reserve[o] * s >= long * n
    BY <1>5, <2>1
  <2> HIDE DEF long, high
  <2> QED BY <2>3, <2>4, <2>5
<1>11. few * s >= low * n
  <2>1. PICK o \in Outcomes : few = q.reserve[o]
    BY SidesOf
  <2>2. p.reserve[o] \in Nat /\ low <= p.reserve[o]
    BY SidesOf
  <2>3. low * n <= p.reserve[o] * n
    BY <1>4, <1>9, <2>2, ProductsOrdered
  <2>4. p.reserve[o] * n \in Nat /\ few * s \in Nat /\ low * n \in Nat
    BY <1>3, <1>4, <1>9, <2>2
  <2>5. few * s >= p.reserve[o] * n
    BY <1>5, <2>1
  <2> HIDE DEF low, few
  <2> QED BY <2>3, <2>4, <2>5
<1>12. fq \in Nat /\ fq * s >= f * n
  BY <1>0, <1>6
<1> HIDE DEF long, low, high, few, fq
<1>13. /\ high * s \in Nat /\ few * s \in Nat /\ fq * s \in Nat
       /\ long * n \in Nat /\ low * n \in Nat /\ f * n \in Nat
  BY <1>0, <1>3, <1>4, <1>9, <1>12
<1>14. (high + fq) * s >= (long + f) * n
  <2>1. (high + fq) * s = high * s + fq * s /\ (long + f) * n = long * n + f * n
    BY <1>0, <1>3, <1>4, <1>9, <1>12
  <2> QED BY <1>10, <1>12, <1>13, <2>1
<1>15. (few + fq + 1) * s > (low + f) * n
  <2>1. (few + fq + 1) * s = few * s + fq * s + s /\ (low + f) * n = low * n + f * n
    BY <1>0, <1>3, <1>4, <1>9, <1>12
  <2> QED BY <1>3, <1>11, <1>12, <1>13, <2>1
<1>16. ASSUME NEW o \in Outcomes PROVE q.reserve[o] * l >= p.reserve[o] * q.liquidity
  <2> DEFINE a == q.reserve[o]
             b == q.liquidity
             r == p.reserve[o]
  <2>1. a \in Nat /\ b \in Nat /\ r \in Nat /\ a * s >= r * n /\ b * s <= n * l
    BY <1>0, <1>5, <1>8
  <2> HIDE DEF a, b, r
  <2>2. r * n = n * r
    BY <1>4, <2>1
  <2>3. a * l >= r * b
    BY <1>0, <1>3, <1>4, <2>1, <2>2, Crosswise
  <2> QED BY <2>3 DEF a, b, r
<1> QED BY <1>7, <1>14, <1>15, <1>16 DEF Fair, f, s, l, long, low, high, few, fq

LEMMA StayersStep ==
    ASSUME VenueInv, VenueInv', [Next]_venueVars, NEW c \in Conditions, pools[c].exists,
           pools'[c].lpSupply # pools[c].lpSupply
    PROVE  Fair(pools[c], pools'[c])
<1>1. PICK d \in Conditions : Untouched(d) /\ Books(d)
  BY BooksChange
<1>2. c = d
  BY <1>1 DEF Untouched
<1>3. pools[c] \in Pool /\ pools'[c] \in Pool
  BY DEF VenueInv, VenueTypeOK, AMMTypeOK, Pool
<1>4. pools[c].lpSupply > 0 /\ \A o \in Outcomes : pools[c].reserve[o] > 0
  <2>1. PoolOK(c)
    BY DEF VenueInv, PoolsOK
  <2>2. pools[c].lpSupply >= MIN_LP /\ \A o \in Outcomes : pools[c].reserve[o] > 0
    BY <2>1 DEF PoolOK
  <2>3. pools[c].lpSupply \in Nat
    BY <1>3 DEF Pool
  <2> QED BY <2>2, <2>3, AMMFeesAssumption
<1>5. ~BoughtPool(pools[c], pools'[c]) /\ ~SoldPool(pools[c], pools'[c])
  BY DEF BoughtPool, SoldPool
<1>6. AddedPool(pools[c], pools'[c]) \/ RemovedPool(pools[c], pools'[c])
  BY <1>1, <1>2, <1>5 DEF Books
<1> QED BY <1>3, <1>4, <1>6, AddedIsFair, RemovedIsFair

Undiluted ==
    \A c \in Conditions :
        LET p == pools[c]
            q == pools'[c]
            long(x) == Max({x.reserve[o] : o \in Outcomes})
            short(x) == Min({x.reserve[o] : o \in Outcomes})
        IN  p.exists /\ q.lpSupply # p.lpSupply =>
              /\ Worth(q, long(q)) * p.lpSupply >= Worth(p, long(p)) * q.lpSupply
              /\ (Worth(q, short(q)) + 1) * p.lpSupply > Worth(p, short(p)) * q.lpSupply
              /\ \A o \in Outcomes : q.reserve[o] * p.liquidity >= p.reserve[o] * q.liquidity

(* Whoever adds or removes liquidity, at whatever amounts, prices and      *)
(* roundings, those who stay in the pool lose nothing by it if the long    *)
(* side wins, less than one unit together if the short side does, and the  *)
(* curve's reserves per unit of liquidity do not shrink.                   *)
THEOREM NoDilutionHere == Spec => NoDilution
<1>1. VenueInv /\ VenueInv' /\ [Next]_venueVars => [Undiluted]_pools
  <2> SUFFICES ASSUME VenueInv, VenueInv', [Next]_venueVars PROVE Undiluted
    OBVIOUS
  <2>1. ASSUME NEW c \in Conditions, pools[c].exists, pools'[c].lpSupply # pools[c].lpSupply
        PROVE  Fair(pools[c], pools'[c])
    BY <2>1, StayersStep
  <2> QED BY <2>1 DEF Undiluted, Fair, Worth, LongSide, ShortSide
<1> QED BY <1>1, VenueInvariant, PTL DEF Spec, NoDilution, Undiluted

----------------------------------------------------------------------------
(* The table of the curve, continued beyond its ends: flat below, at slope *)
(* one above.  It never falls and never rises by more than one.            *)
Ext(w) ==
    IF w < -U_MAX THEN G[-U_MAX] ELSE IF w > U_MAX THEN G[U_MAX] + (w - U_MAX) ELSE G[w]

LEMMA ExtTyped == ASSUME NEW w \in Int PROVE Ext(w) \in Nat
<1>1. /\ U_MAX \in Nat /\ G[-U_MAX] \in Nat /\ G[U_MAX] \in Nat
      /\ w \in Grid => G[w] \in Nat
  BY CurveAssumption DEF Grid
<1>2. ~(w < -U_MAX) /\ ~(w > U_MAX) => w \in Grid
  BY <1>1 DEF Grid
<1> QED BY <1>1, <1>2 DEF Ext

LEMMA ExtMirror == ASSUME NEW w \in Int PROVE Ext(w) - Ext(-w) = w
<1>1. /\ U_MAX \in Nat /\ G[-U_MAX] \in Nat /\ G[U_MAX] \in Nat /\ G[U_MAX] - G[-U_MAX] = U_MAX
      /\ w \in Grid => G[w] \in Nat /\ G[-w] \in Nat /\ G[w] - G[-w] = w
  BY CurveAssumption DEF Grid
<1>2. CASE w < -U_MAX
  BY <1>1, <1>2 DEF Ext
<1>3. CASE w > U_MAX
  BY <1>1, <1>3 DEF Ext
<1>4. CASE ~(w < -U_MAX) /\ ~(w > U_MAX)
  <2>1. w \in Grid
    BY <1>1, <1>4 DEF Grid
  <2> QED BY <1>1, <1>4, <2>1 DEF Ext
<1> QED BY <1>2, <1>3, <1>4

LEMMA ExtSlope == ASSUME NEW w \in Int PROVE Ext(w) <= Ext(w + 1) /\ Ext(w + 1) <= Ext(w) + 1
<1>1. ASSUME NEW v \in Int PROVE Ext(v) <= Ext(v + 1)
  <2>1. /\ U_MAX \in Nat /\ G[-U_MAX] \in Nat /\ G[U_MAX] \in Nat
        /\ v \in Grid /\ v < U_MAX => G[v] <= G[v + 1]
    BY CurveAssumption DEF Grid
  <2>2. CASE v < -U_MAX
    <3>1. v + 1 < -U_MAX \/ v + 1 = -U_MAX
      BY <2>1, <2>2
    <3> QED BY <2>1, <2>2, <3>1 DEF Ext
  <2>3. CASE v >= U_MAX
    <3>1. Ext(v + 1) = G[U_MAX] + (v + 1 - U_MAX)
      BY <2>1, <2>3 DEF Ext
    <3>2. Ext(v) = G[U_MAX] + (v - U_MAX)
      BY <2>1, <2>3 DEF Ext
    <3> QED BY <2>1, <3>1, <3>2
  <2>4. CASE ~(v < -U_MAX) /\ ~(v >= U_MAX)
    <3>1. v \in Grid /\ v < U_MAX /\ ~(v + 1 < -U_MAX) /\ ~(v + 1 > U_MAX)
      BY <2>1, <2>4 DEF Grid
    <3> QED BY <2>1, <2>4, <3>1 DEF Ext
  <2> QED BY <2>2, <2>3, <2>4
<1>2. Ext(-w - 1) <= Ext(-w)
  <2>1. -w - 1 \in Int /\ (-w - 1) + 1 = -w
    OBVIOUS
  <2> QED BY <1>1, <2>1
<1>3. Ext(w + 1) - Ext(-w - 1) = w + 1 /\ Ext(w) - Ext(-w) = w
  <2>1. -(w + 1) = -w - 1 /\ w + 1 \in Int
    OBVIOUS
  <2> QED BY <2>1, ExtMirror
<1>4. Ext(w) \in Nat /\ Ext(w + 1) \in Nat /\ Ext(-w) \in Nat /\ Ext(-w - 1) \in Nat
  BY ExtTyped
<1> QED BY <1>1, <1>2, <1>3, <1>4

LEMMA ExtSteps ==
    ASSUME NEW a \in Int, NEW b \in Int, a <= b
    PROVE  Ext(a) <= Ext(b) /\ Ext(b) <= Ext(a) + (b - a)
<1> DEFINE n == b - a
           H == {i \in 0..n : Ext(a) <= Ext(a + i) /\ Ext(a + i) <= Ext(a) + i}
<1>1. n \in Nat
  OBVIOUS
<1>2. 0 \in H
  BY <1>1, ExtTyped
<1>3. ASSUME NEW i \in 1..n, i - 1 \in H PROVE i \in H
  <2>1. a + (i - 1) \in Int /\ (a + (i - 1)) + 1 = a + i
    OBVIOUS
  <2>2. Ext(a + (i - 1)) <= Ext(a + i) /\ Ext(a + i) <= Ext(a + (i - 1)) + 1
    BY <2>1, ExtSlope
  <2>3. Ext(a) \in Nat /\ Ext(a + (i - 1)) \in Nat /\ Ext(a + i) \in Nat
    BY ExtTyped
  <2> QED BY <1>3, <2>2, <2>3
<1> HIDE DEF H
<1>4. \A i \in 0..n : i \in H
  BY <1>1, <1>2, <1>3, UpTo
<1>5. n \in H /\ a + n = b
  BY <1>1, <1>4
<1> QED BY <1>5 DEF H

(* l times the table, between its points, at d / l.                        *)
Bend(l, d) == Ext(d \div l) * (l - (d % l)) + Ext((d \div l) + 1) * (d % l)

(* d in grid steps and a rest; the rest may also be a whole step.          *)
LEMMA GridSteps ==
    ASSUME NEW l \in Nat \ {0}, NEW d \in Int
    PROVE  \E q \in Int, r \in 0..(l - 1) : d = l * q + r
<1>1. d \div l \in Int /\ d % l \in 0..(l - 1) /\ d = l * (d \div l) + (d % l)
  OBVIOUS
<1> QED BY <1>1

LEMMA BendAt ==
    ASSUME NEW l \in Nat \ {0}, NEW q \in Int, NEW r \in 0..l, NEW d \in Int, d = l * q + r
    PROVE  Bend(l, d) = Ext(q) * (l - r) + Ext(q + 1) * r /\ Bend(l, d) \in Nat
<1> DEFINE u == d \div l
           v == d % l
<1>1. u \in Int /\ v \in 0..(l - 1) /\ d = l * u + v
  OBVIOUS
<1>2. Bend(l, d) = Ext(u) * (l - v) + Ext(u + 1) * v
  BY DEF Bend
<1> HIDE DEF u, v
<1>3. (u = q /\ v = r) \/ (u = q + 1 /\ v = 0 /\ r = l)
  <2>1. l * (u - q) = r - v /\ u - q \in Int
    <3>1. l * (u - q) = l * u - l * q /\ l * u \in Int /\ l * q \in Int
      BY <1>1
    <3> QED BY <1>1, <3>1
  <2> DEFINE k == u - q
  <2>2. k \in Int /\ l * k = r - v /\ r - v <= l /\ r - v > -l
    BY <1>1, <2>1
  <2>3. u = q + k
    BY <1>1
  <2> HIDE DEF k
  <2>4. k = 0 \/ k = 1
    <3>1. ASSUME k >= 2 PROVE FALSE
      <4>1. l * k >= l * 2
        BY <2>2, <3>1
      <4> QED BY <1>1, <2>2, <4>1
    <3>2. ASSUME k <= -1 PROVE FALSE
      <4>1. l * k <= -l
        BY <2>2, <3>2
      <4> QED BY <1>1, <2>2, <4>1
    <3> QED BY <2>2, <3>1, <3>2
  <2>5. k = 0 => u = q /\ v = r
    BY <1>1, <2>2, <2>3
  <2>6. k = 1 => u = q + 1 /\ v = 0 /\ r = l
    BY <1>1, <2>2, <2>3
  <2> QED BY <2>4, <2>5, <2>6
<1> DEFINE x == Ext(q)
           y == Ext(q + 1)
           z == Ext(u + 1)
<1>4. x \in Nat /\ y \in Nat /\ z \in Nat /\ Ext(u) \in Nat
  BY <1>1, ExtTyped
<1>5. CASE u = q /\ v = r
  <2>1. l - r \in Nat /\ x * (l - r) \in Nat /\ y * r \in Nat
    BY <1>4
  <2> QED BY <1>2, <1>5, <2>1
<1>6. CASE u = q + 1 /\ v = 0 /\ r = l
  <2>1. Bend(l, d) = y * (l - 0) + z * 0
    BY <1>2, <1>6
  <2> HIDE DEF x, y, z
  <2>2. y * (l - 0) + z * 0 = y * l /\ x * (l - l) + y * l = y * l /\ y * l \in Nat
    BY <1>4
  <2> QED BY <1>6, <2>1, <2>2 DEF x, y
<1> QED BY <1>3, <1>5, <1>6

LEMMA BendTyped ==
    ASSUME NEW l \in Nat \ {0}, NEW d \in Int
    PROVE  Bend(l, d) \in Nat
<1>1. PICK q \in Int, r \in 0..(l - 1) : d = l * q + r
  BY GridSteps
<1>2. r \in 0..l
  OBVIOUS
<1> QED BY <1>1, <1>2, BendAt

(* The reserve that the curve asks for never falls in d and never rises    *)
(* faster.                                                                 *)
LEMMA BendSlope ==
    ASSUME NEW l \in Nat \ {0}, NEW d \in Int, NEW e \in Int, d <= e
    PROVE  Bend(l, d) <= Bend(l, e) /\ Bend(l, e) <= Bend(l, d) + (e - d)
<1>1. PICK q \in Int, r \in 0..(l - 1) : d = l * q + r
  BY GridSteps
<1>2. PICK u \in Int, v \in 0..(l - 1) : e = l * u + v
  BY GridSteps
<1>3. r \in 0..l /\ v \in 0..l /\ q + 1 \in Int /\ u + 1 \in Int
  OBVIOUS
<1> DEFINE a == Ext(q)
           b == Ext(q + 1)
           x == Ext(u)
           y == Ext(u + 1)
<1>4. Bend(l, d) = a * (l - r) + b * r
  BY <1>1, <1>3, BendAt
<1>5. Bend(l, e) = x * (l - v) + y * v
  BY <1>2, <1>3, BendAt
<1>6. a \in Nat /\ b \in Nat /\ x \in Nat /\ y \in Nat
  BY <1>3, ExtTyped
<1>7. a <= b /\ b <= a + 1
  BY ExtSlope
<1>8. x <= y /\ y <= x + 1
  BY ExtSlope
<1>9. u >= q
  <2> SUFFICES ASSUME u + 1 <= q PROVE FALSE
    OBVIOUS
  <2>1. l * (u + 1) <= l * q /\ l * (u + 1) = l * u + l /\ l * u \in Int /\ l * q \in Int
    OBVIOUS
  <2> QED BY <1>1, <1>2, <2>1
<1> DEFINE k == b - a
           m == y - x
<1>10. k \in 0..1 /\ m \in 0..1
  BY <1>6, <1>7, <1>8
<1>11. a * (l - r) + b * r = a * l + k * r /\ x * (l - v) + y * v = x * l + m * v
  <2>1. b = a + k /\ y = x + m
    BY <1>6
  <2> HIDE DEF a, b, x, y, k, m
  <2>2. a * (l - r) + (a + k) * r = a * l + k * r
    BY <1>6, <1>10
  <2>3. x * (l - v) + (x + m) * v = x * l + m * v
    BY <1>6, <1>10
  <2> QED BY <2>1, <2>2, <2>3
<1>12. k * r \in 0..r /\ m * v \in 0..v
  <2> HIDE DEF k, m
  <2>1. k = 0 \/ k = 1
    BY <1>10
  <2>2. m = 0 \/ m = 1
    BY <1>10
  <2>3. k * r \in 0..r
    BY <2>1
  <2>4. m * v \in 0..v
    BY <2>2
  <2> QED BY <2>3, <2>4
<1>13. CASE u = q
  <2>1. x = a /\ m = k /\ e - d = v - r /\ v >= r
    BY <1>1, <1>2, <1>13
  <2> HIDE DEF a, b, x, y, k, m
  <2>2. k * v - k * r = k * (v - r) /\ k * v \in Int /\ k * r \in Int
    BY <1>10
  <2>3. k * (v - r) \in 0..(v - r)
    <3>1. k = 0 \/ k = 1
      BY <1>10
    <3>2. v - r \in Nat
      BY <2>1
    <3> QED BY <3>1, <3>2
  <2>4. a * l \in Int
    BY <1>6
  <2>5. Bend(l, d) = a * l + k * r /\ Bend(l, e) = a * l + k * v
    BY <1>4, <1>5, <1>11, <2>1
  <2> QED BY <2>1, <2>2, <2>3, <2>4, <2>5
<1>14. CASE u >= q + 1
  <2>1. b <= x /\ x <= b + (u - (q + 1))
    BY <1>3, <1>14, ExtSteps
  <2> DEFINE h == x - b
             s == u - (q + 1)
  <2>2. h \in 0..s /\ s \in Nat /\ x = b + h /\ b = a + k
    BY <1>6, <1>14, <2>1
  <2>3. e - d = (l - r) + l * s + v
    <3>1. l * u = l * q + l + l * s
      OBVIOUS
    <3>2. l * s \in Int /\ l * q \in Int /\ l * u \in Int
      BY <2>2
    <3> QED BY <1>1, <1>2, <3>1, <3>2
  <2> HIDE DEF a, b, x, y, k, m, h, s
  <2>4. x * l = a * l + k * l + h * l
    BY <1>6, <1>10, <2>2
  <2>5. h * l \in 0..(l * s)
    <3>1. h \in Nat /\ s - h \in Nat /\ l * s = h * l + (s - h) * l /\ h * l \in Nat /\ (s - h) * l \in Nat
      BY <2>2
    <3> QED BY <3>1
  <2>6. k * l = k * r + k * (l - r) /\ k * (l - r) \in 0..(l - r)
    <3>1. k = 0 \/ k = 1
      BY <1>10
    <3> QED BY <3>1
  <2>7. a * l \in Int /\ l * s \in Nat /\ k * l \in Int /\ k * r \in Int
    BY <1>6, <1>10, <2>2
  <2>8. Bend(l, d) = a * l + k * r /\ Bend(l, e) = x * l + m * v
    BY <1>4, <1>5, <1>11
  <2> QED BY <1>12, <2>3, <2>4, <2>5, <2>6, <2>7, <2>8
<1> QED BY <1>9, <1>13, <1>14

(* One side lies on the curve exactly when the other does.                 *)
LEMMA BendMirror ==
    ASSUME NEW l \in Nat \ {0}, NEW d \in Int
    PROVE  Bend(l, d) - Bend(l, -d) = d
<1>1. PICK q \in Int, r \in 0..(l - 1) : d = l * q + r
  BY GridSteps
<1>2. r \in 0..l /\ l - r \in 0..l /\ -q - 1 \in Int
  OBVIOUS
<1>3. Bend(l, d) = Ext(q) * (l - r) + Ext(q + 1) * r
  BY <1>1, <1>2, BendAt
<1>4. -d = l * (-q - 1) + (l - r)
  <2>1. l * (-q - 1) = -(l * q) - l /\ l * q \in Int
    OBVIOUS
  <2> QED BY <1>1, <2>1
<1>5. -d \in Int
  OBVIOUS
<1>6. Bend(l, -d) = Ext(-q - 1) * (l - (l - r)) + Ext((-q - 1) + 1) * (l - r)
  BY ZenonT(60), <1>2, <1>4, <1>5, BendAt
<1>7. (-q - 1) + 1 = -q /\ l - (l - r) = r
  OBVIOUS
<1> DEFINE a == Ext(q)
           b == Ext(q + 1)
           x == Ext(-q)
           y == Ext(-q - 1)
<1>8. a \in Nat /\ b \in Nat /\ x \in Nat /\ y \in Nat
  BY <1>2, ExtTyped
<1>9. a - x = q /\ b - y = q + 1
  <2>1. -(q + 1) = -q - 1 /\ q + 1 \in Int
    OBVIOUS
  <2> QED BY <2>1, ExtMirror
<1>10. Bend(l, d) = a * (l - r) + b * r /\ Bend(l, -d) = y * r + x * (l - r)
  BY <1>3, <1>6, <1>7
<1> HIDE DEF a, b, x, y
<1>11. x = a - q /\ y = b - (q + 1)
  BY <1>8, <1>9
<1>12. (a - q) * (l - r) = a * (l - r) - q * (l - r) /\ (b - (q + 1)) * r = b * r - (q * r + r)
  BY <1>8
<1>13. q * (l - r) + q * r = l * q
  OBVIOUS
<1>14. a * (l - r) \in Int /\ b * r \in Int /\ q * (l - r) \in Int /\ q * r \in Int /\ l * q \in Int
  BY <1>8
<1> QED BY <1>1, <1>10, <1>11, <1>12, <1>13, <1>14

LEMMA BendScales ==
    ASSUME NEW l \in Nat \ {0}, NEW k \in Nat \ {0}, NEW d \in Int
    PROVE  Bend(l * k, d * k) = Bend(l, d) * k
<1>1. PICK q \in Int, r \in 0..(l - 1) : d = l * q + r
  BY GridSteps
<1>2. r \in 0..l
  OBVIOUS
<1>3. Bend(l, d) = Ext(q) * (l - r) + Ext(q + 1) * r
  BY <1>1, <1>2, BendAt
<1>4. l * k \in Nat \ {0} /\ r * k \in Nat /\ (l - r) * k \in Nat /\ (l - r) * k = l * k - r * k
  OBVIOUS
<1>5. r * k \in 0..(l * k)
  BY <1>4
<1>6. d * k = (l * k) * q + r * k /\ d * k \in Int
  <2>1. (l * q + r) * k = (l * k) * q + r * k
    OBVIOUS
  <2> QED BY <1>1, <2>1
<1>7. Bend(l * k, d * k) = Ext(q) * (l * k - r * k) + Ext(q + 1) * (r * k)
  <2> DEFINE m == l * k
             e == d * k
             s == r * k
  <2>1. m \in Nat \ {0} /\ s \in 0..m /\ e \in Int /\ e = m * q + s
    BY <1>4, <1>5, <1>6
  <2> HIDE DEF m, e, s
  <2>2. Bend(m, e) = Ext(q) * (m - s) + Ext(q + 1) * s
    BY <2>1, BendAt
  <2> QED BY <2>2 DEF m, e, s
<1> DEFINE a == Ext(q)
           b == Ext(q + 1)
<1>8. a \in Nat /\ b \in Nat
  BY ExtTyped
<1>9. Bend(l * k, d * k) = a * ((l - r) * k) + b * (r * k)
  BY <1>4, <1>7
<1> HIDE DEF a, b
<1>10. a * ((l - r) * k) + b * (r * k) = (a * (l - r) + b * r) * k
  BY <1>8
<1>11. Bend(l, d) = a * (l - r) + b * r
  BY <1>3 DEF a, b
<1> QED BY <1>9, <1>10, <1>11

LEMMA BendGrid ==
    ASSUME NEW l \in Nat \ {0}, NEW w \in Grid
    PROVE  Bend(l, l * w) = l * G[w] /\ l * w \in Int /\ l * G[w] \in Nat
<1>1. w \in Int /\ U_MAX \in Nat /\ ~(w < -U_MAX) /\ ~(w > U_MAX) /\ G[w] \in Nat
  BY CurveAssumption DEF Grid
<1>2. Ext(w) = G[w]
  BY <1>1 DEF Ext
<1>3. 0 \in 0..l /\ l * w \in Int /\ l * w = l * w + 0
  BY <1>1
<1>4. Bend(l, l * w) = Ext(w) * (l - 0) + Ext(w + 1) * 0
  BY <1>1, <1>3, BendAt
<1>5. Ext(w + 1) \in Nat
  BY <1>1, ExtTyped
<1>6. G[w] * (l - 0) + Ext(w + 1) * 0 = l * G[w]
  BY <1>1, <1>5
<1> QED BY <1>1, <1>2, <1>3, <1>4, <1>6

(* A pool on or above its curve, both sides, at whatever skew.             *)
SideHeld(r, other, l) == r * WAD >= Bend(l, (r - other) * WAD)
Curved(p) ==
    p.liquidity > 0 => \A o \in Outcomes : SideHeld(p.reserve[o], p.reserve[Other(o)], p.liquidity)

LEMMA OtherSideHeld ==
    ASSUME NEW l \in Nat \ {0}, NEW a \in Nat, NEW b \in Nat, SideHeld(a, b, l)
    PROVE  SideHeld(b, a, l)
<1> DEFINE d == (a - b) * WAD
<1>1. WAD \in Nat \ {0}
  BY CurveAssumption
<1>2. d \in Int /\ (b - a) * WAD = -d /\ d = a * WAD - b * WAD /\ a * WAD \in Nat /\ b * WAD \in Nat
  BY <1>1
<1>3. a * WAD >= Bend(l, d)
  BY DEF SideHeld
<1> HIDE DEF d
<1>4. Bend(l, d) - Bend(l, -d) = d /\ Bend(l, d) \in Nat /\ Bend(l, -d) \in Nat
  <2>1. -d \in Int
    BY <1>2
  <2> QED BY <1>2, <2>1, BendMirror, BendTyped
<1>5. b * WAD >= Bend(l, -d)
  BY <1>2, <1>3, <1>4
<1> QED BY <1>2, <1>5 DEF SideHeld

LEMMA BothSidesHeld ==
    ASSUME NEW q \in Pool, NEW o \in Outcomes,
           q.liquidity > 0 => SideHeld(q.reserve[o], q.reserve[Other(o)], q.liquidity)
    PROVE  Curved(q)
<1> SUFFICES ASSUME q.liquidity > 0, NEW x \in Outcomes
             PROVE  SideHeld(q.reserve[x], q.reserve[Other(x)], q.liquidity)
  BY DEF Curved
<1>1. q.liquidity \in Nat \ {0} /\ q.reserve[o] \in Nat /\ q.reserve[Other(o)] \in Nat
  BY OtherTyped DEF Pool
<1>2. x = o \/ (x = Other(o) /\ Other(x) = o)
  BY DEF Outcomes, Other, YES, NO
<1>3. SideHeld(q.reserve[Other(o)], q.reserve[o], q.liquidity)
  BY <1>1, OtherSideHeld
<1> QED BY <1>1, <1>2, <1>3

(* Short of a point of the table, the curve asks for no more than there.   *)
LEMMA BeforePoint ==
    ASSUME NEW l \in Nat \ {0}, NEW d \in Int, NEW w \in Grid, NEW n \in Int, d <= l * w, l * G[w] <= n
    PROVE  Bend(l, d) <= n
<1>1. Bend(l, l * w) = l * G[w] /\ l * w \in Int /\ l * G[w] \in Nat
  BY BendGrid
<1> DEFINE e == l * w
<1>2. e \in Int /\ d <= e
  BY <1>1
<1> HIDE DEF e
<1>3. Bend(l, d) <= Bend(l, e) /\ Bend(l, d) \in Nat
  BY <1>2, BendSlope, BendTyped
<1> QED BY <1>1, <1>3 DEF e

LEMMA SeededCurve ==
    ASSUME NEW p, NEW q \in Pool, SeededPool(p, q)
    PROVE  Curved(q)
<1>1. PICK n \in Nat \ {0} : q.liquidity = (n * WAD) \div G[0] /\ \A o \in Outcomes : q.reserve[o] = n
  BY DEF SeededPool
<1>2. 0 \in Grid /\ G[0] \in Nat \ {0} /\ WAD \in Nat \ {0} /\ YES \in Outcomes /\ Other(YES) \in Outcomes
  BY CurveAssumption, OtherTyped DEF Grid, Outcomes
<1> SUFFICES ASSUME q.liquidity > 0 PROVE SideHeld(q.reserve[YES], q.reserve[Other(YES)], q.liquidity)
  BY <1>2, BothSidesHeld
<1> DEFINE l == q.liquidity
           y == n * WAD
<1>3. l \in Nat \ {0} /\ y \in Nat
  BY <1>2 DEF Pool
<1>4. l * G[0] <= y
  <2>1. l = y \div G[0]
    BY <1>1
  <2> HIDE DEF l, y
  <2>2. (y \div G[0]) * G[0] <= y
    BY <1>2, <1>3, QuotientBounds
  <2> QED BY <1>2, <1>3, <2>1, <2>2
<1>5. (n - n) * WAD = 0 /\ l * 0 = 0
  BY <1>2, <1>3
<1> HIDE DEF l, y
<1>6. Bend(l, 0) <= y
  BY <1>2, <1>3, <1>4, <1>5, BeforePoint
<1> QED BY <1>1, <1>2, <1>5, <1>6 DEF SideHeld, l, y

LEMMA BoughtCurve ==
    ASSUME NEW p \in Pool, NEW q \in Pool, Curved(p), BoughtPool(p, q)
    PROVE  Curved(q)
<1>1. PICK o \in Outcomes, trade \in Nat \ {0}, left \in Nat :
         /\ left \in _buy(p, o, trade)
         /\ q.reserve[o] = left /\ q.reserve[Other(o)] = p.reserve[Other(o)] + trade
         /\ q.liquidity = p.liquidity
  BY DEF BoughtPool
<1> DEFINE l == p.liquidity
           a == p.reserve[o]
           b == p.reserve[Other(o)]
           s == Surplus(p, o)
           reserveIn == b + trade
           x == ((reserveIn - s) * WAD) \div l
<1>2. l \in Nat /\ a \in Nat /\ b \in Nat /\ reserveIn \in Nat /\ WAD \in Nat \ {0} /\ Other(o) \in Outcomes
  BY OtherTyped, CurveAssumption DEF Pool
<1>3. l > 0 /\ Coordinate(p, o, 0) \in Grid
  BY <1>1 DEF _buy
<1>4. left = a \/ \E w \in solve_g(x) : left = Min({Left(p, reserveIn, w), a})
  BY <1>1 DEF _buy
<1>5. s \in Nat
  BY <1>3, SurplusIsNat
<1>6. l \in Nat \ {0}
  BY <1>2, <1>3
<1> HIDE DEF l, a, b, s, reserveIn
<1>7. CASE left = a
  <2>1. SideHeld(a, b, l)
    BY <1>3 DEF Curved, a, b, l
  <2> DEFINE d == (a - b) * WAD
             e == (a - reserveIn) * WAD
  <2>2. d \in Int /\ e \in Int /\ e <= d
    <3>1. trade * WAD \in Nat /\ (a - b) * WAD = (a - (b + trade)) * WAD + trade * WAD
      BY <1>2
    <3> QED BY <1>2, <3>1 DEF reserveIn
  <2>3. a * WAD >= Bend(l, d) /\ a * WAD \in Nat
    BY <1>2, <2>1 DEF SideHeld
  <2> HIDE DEF d, e
  <2>4. Bend(l, e) <= Bend(l, d) /\ Bend(l, e) \in Nat /\ Bend(l, d) \in Nat
    BY <1>6, <2>2, BendSlope, BendTyped
  <2>5. a * WAD >= Bend(l, e)
    BY <2>3, <2>4
  <2>6. SideHeld(a, reserveIn, l)
    BY <2>5 DEF SideHeld, e
  <2>7. SideHeld(q.reserve[o], q.reserve[Other(o)], q.liquidity)
    BY <1>1, <1>7, <2>6 DEF reserveIn, b, l
  <2> QED BY <2>7, BothSidesHeld
<1>8. ASSUME NEW w \in solve_g(x), left = Left(p, reserveIn, w)
      PROVE  Curved(q)
  <2>1. w \in Grid /\ G[w] <= x /\ w \in Int /\ G[w] \in Nat
    BY CurveAssumption DEF solve_g, Grid
  <2> DEFINE y == (reserveIn - s) * WAD
             z == l * w
             d == (reserveIn - left) * WAD
  <2>2. y \in Int /\ z \in Int /\ l * (-w) = -z
    BY <1>2, <1>5, <2>1
  <2>3. y <= reserveIn * WAD
    <3>1. s * WAD \in Nat /\ (reserveIn - s) * WAD = reserveIn * WAD - s * WAD /\ reserveIn * WAD \in Nat
      BY <1>2, <1>5
    <3> QED BY <3>1
  <2> HIDE DEF y
  <2>4. l * G[w] <= y
    <3>1. x = y \div l
      BY DEF y
    <3> HIDE DEF x
    <3>2. x \in Int /\ x * l <= y
      BY <1>6, <2>2, <3>1, QuotientBounds
    <3>3. l * G[w] <= x * l
      BY <1>6, <2>1, <3>2
    <3>4. x * l \in Int /\ l * G[w] \in Int
      BY <1>6, <2>1, <3>2
    <3> QED BY <2>2, <3>2, <3>3, <3>4
  <2>5. Left(p, reserveIn, w) = IF w >= 0 THEN reserveIn - z \div WAD ELSE reserveIn + CeilDiv(-z, WAD)
    BY <2>2 DEF Left, l
  <2> HIDE DEF z
  <2>6. d \in Int /\ d <= z
    <3>1. CASE w >= 0
      <4>1. z \div WAD \in Int /\ (z \div WAD) * WAD <= z
        BY <1>2, <2>2, QuotientBounds
      <4>2. reserveIn - left = z \div WAD
        BY <1>2, <1>8, <2>5, <3>1, <4>1
      <4> QED BY <1>2, <4>1, <4>2
    <3>2. CASE ~(w >= 0)
      <4> DEFINE k == CeilDiv(-z, WAD)
      <4>0. -z \in Int
        BY <2>2
      <4>1. k \in Int /\ k * WAD >= -z
        BY <1>2, <4>0, CeilDivAbove
      <4> HIDE DEF k
      <4>2. left = reserveIn + k
        BY <1>8, <2>5, <3>2 DEF k
      <4>3. reserveIn - left = -k
        BY <1>2, <4>1, <4>2
      <4>4. (-k) * WAD = -(k * WAD) /\ k * WAD \in Int
        BY <1>2, <4>1
      <4> QED BY <1>2, <2>2, <4>1, <4>3, <4>4
    <3> QED BY <3>1, <3>2
  <2>7. reserveIn * WAD \in Int /\ l * G[w] <= reserveIn * WAD
    <3>1. reserveIn * WAD \in Int /\ l * G[w] \in Int
      BY <1>2, <1>6, <2>1
    <3> QED BY <2>2, <2>3, <2>4, <3>1
  <2> HIDE DEF d
  <2>8. d <= l * w
    BY <2>6 DEF z
  <2>9. Bend(l, d) <= reserveIn * WAD
    BY <1>6, <2>1, <2>6, <2>7, <2>8, BeforePoint
  <2>10. SideHeld(reserveIn, left, l)
    <3>1. Bend(l, d) \in Nat
      BY <1>6, <2>6, BendTyped
    <3> QED BY <2>7, <2>9, <3>1 DEF SideHeld, d
  <2>11. SideHeld(q.reserve[Other(o)], q.reserve[Other(Other(o))], q.liquidity)
    <3>1. Other(Other(o)) = o
      BY DEF Other, Outcomes, YES, NO
    <3> QED BY <1>1, <2>10, <3>1 DEF reserveIn, b, l
  <2> QED BY <1>2, <2>11, BothSidesHeld
<1>9. ASSUME NEW w \in solve_g(x), left = Min({Left(p, reserveIn, w), a})
      PROVE  left = a \/ left = Left(p, reserveIn, w)
  BY <1>9 DEF Min
<1> HIDE DEF x
<1> QED BY <1>4, <1>7, <1>8, <1>9

LEMMA SoldCurve ==
    ASSUME NEW p \in Pool, NEW q \in Pool, SoldPool(p, q)
    PROVE  Curved(q)
<1>1. PICK o \in Outcomes, n \in Nat :
         /\ _sell(p, o, n) > 0
         /\ q.reserve[o] = p.reserve[o] + n - _sell(p, o, n)
         /\ q.reserve[Other(o)] = p.reserve[Other(o)] - _sell(p, o, n)
         /\ q.liquidity = p.liquidity
  BY DEF SoldPool
<1> DEFINE l == p.liquidity
           a == p.reserve[o]
           b == p.reserve[Other(o)]
           m == _sell(p, o, n)
           s == Surplus(p, o)
           t == Coordinate(p, o, n)
           w == t + 1
           left == Curve(p, w) + 1 + s
           off == ~(p.exists /\ l > 0) \/ w \notin -U_TRADE_MAX..U_MAX \/ Coordinate(p, o, 0) \notin Grid
<1>2. l \in Nat /\ a \in Nat /\ b \in Nat /\ WAD \in Nat \ {0} /\ Other(o) \in Outcomes
  BY OtherTyped, CurveAssumption DEF Pool
<1>3. m = IF off THEN 0 ELSE Max({0, Min({n, b - left})})
  BY DEF _sell
<1>4. m \in Nat /\ m <= n /\ m <= b
  BY SellBounds
<1>5. ~off
  BY <1>1, <1>3
<1>6. l \in Nat \ {0} /\ w \in Grid /\ Coordinate(p, o, 0) \in Grid /\ w \in Int /\ G[w] \in Nat
  <2>1. l > 0 /\ w \in -U_TRADE_MAX..U_MAX /\ Coordinate(p, o, 0) \in Grid
    BY <1>5
  <2> HIDE DEF w, l, off
  <2>2. w \in Int /\ w >= -U_TRADE_MAX /\ w <= U_MAX
    <3>1. U_TRADE_MAX \in Int /\ U_MAX \in Int
      BY CurveAssumption
    <3> QED BY <2>1, <3>1
  <2>3. w \in Grid
    BY <2>2, CurveAssumption DEF Grid
  <2>4. G[w] \in Nat
    BY <2>3, CurveAssumption
  <2> QED BY <1>2, <2>1, <2>2, <2>3, <2>4
<1>7. s \in Nat /\ Curve(p, w) \in Nat
  BY <1>6, CurveIsNat, SurplusIsNat
<1>8. t = TruncDiv((b - a - n) * WAD, l)
  BY DEF Coordinate
<1>9. q.reserve[o] = a + n - m /\ q.reserve[Other(o)] = b - m /\ q.liquidity = l
  BY <1>1
<1>10. Curve(p, w) = CeilDiv(l * G[w], WAD)
  BY DEF Curve
<1> DEFINE curve == Curve(p, w)
<1> HIDE DEF l, a, b, m, s, t, off, curve
<1>11. b - m >= curve
  <2>1. m = Max({0, Min({n, b - left})}) /\ left \in Nat /\ left = curve + 1 + s
    BY <1>3, <1>5, <1>7 DEF curve
  <2> HIDE DEF left
  <2> DEFINE y == Min({n, b - left})
  <2>2. y \in Int /\ y <= b - left
    BY <1>2, <2>1, MinOfTwo
  <2> HIDE DEF y
  <2>3. m = IF 0 >= y THEN 0 ELSE y
    BY <2>1, <2>2, MaxOfTwo DEF y
  <2>4. m > 0
    BY <1>1 DEF m
  <2>5. curve \in Nat
    BY <1>7 DEF curve
  <2> QED BY <1>2, <1>4, <1>7, <2>1, <2>2, <2>3, <2>4, <2>5
<1> DEFINE d == (b - a - n) * WAD
           z == l * G[w]
<1>12. d \in Int /\ z \in Nat
  BY <1>2, <1>6
<1>13. d <= l * w
  <2>1. t = IF d >= 0 THEN d \div l ELSE -((-d) \div l)
    BY <1>8 DEF TruncDiv
  <2> HIDE DEF d
  <2>2. CASE d >= 0
    <3> DEFINE k == d \div l
    <3>1. k \in Int /\ d < k * l + l
      BY <1>6, <1>12, QuotientBounds
    <3>2. w = k + 1
      BY <2>1, <2>2
    <3> HIDE DEF k, w
    <3>3. l * w = k * l + l /\ k * l \in Int
      BY <1>6, <3>1, <3>2
    <3> QED BY <1>6, <1>12, <3>1, <3>3
  <2>3. CASE ~(d >= 0)
    <3> DEFINE k == (-d) \div l
    <3>0. -d \in Int
      BY <1>12
    <3>1. k \in Int /\ k * l <= -d
      BY <1>6, <3>0, QuotientBounds
    <3>2. w = 1 - k
      BY <2>1, <2>3, <3>1
    <3> HIDE DEF k, w
    <3>3. l * w = l - k * l /\ k * l \in Int
      BY <1>6, <3>1, <3>2
    <3> QED BY <1>6, <1>12, <3>1, <3>3
  <2> QED BY <2>2, <2>3
<1> HIDE DEF z
<1>14. z <= curve * WAD /\ curve \in Nat
  <2>1. CeilDiv(z, WAD) * WAD >= z
    BY <1>2, <1>12, CeilDivAbove
  <2> QED BY <1>7, <1>10, <2>1 DEF curve, z
<1>15. l * G[w] <= (b - m) * WAD /\ (b - m) * WAD \in Nat
  <2>1. b - m \in Nat /\ curve * WAD <= (b - m) * WAD
    BY <1>2, <1>4, <1>11, <1>14
  <2>2. curve * WAD \in Nat /\ (b - m) * WAD \in Nat
    BY <1>2, <1>14, <2>1
  <2> QED BY <1>12, <1>14, <2>1, <2>2 DEF z
<1>16. (b - m) - (a + n - m) = b - a - n
  BY <1>2, <1>4
<1> HIDE DEF d, w
<1>17. Bend(l, d) <= (b - m) * WAD /\ Bend(l, d) \in Nat
  BY <1>6, <1>12, <1>13, <1>15, BeforePoint, BendTyped
<1>18. SideHeld(b - m, a + n - m, l)
  BY <1>15, <1>16, <1>17 DEF SideHeld, d
<1>19. SideHeld(q.reserve[Other(o)], q.reserve[Other(Other(o))], q.liquidity)
  <2>1. Other(Other(o)) = o
    BY DEF Other, Outcomes, YES, NO
  <2> QED BY <1>9, <1>18, <2>1
<1> QED BY <1>2, <1>19, BothSidesHeld

(* A pool whose reserves per unit of liquidity do not shrink stays held.   *)
LEMMA FairSideHeld ==
    ASSUME NEW a \in Nat, NEW b \in Nat, NEW l \in Nat \ {0},
           NEW x \in Nat, NEW y \in Nat, NEW m \in Nat \ {0},
           x * l >= a * m, y * l >= b * m, SideHeld(a, b, l)
    PROVE  SideHeld(x, y, m)
<1> DEFINE d == (a - b) * WAD
           e == (x - y) * WAD
           f == (x * l - a * m) * WAD
           g == (y * l - b * m) * WAD
           n == l * m
<1>1. WAD \in Nat \ {0}
  BY CurveAssumption
<1>2. d \in Int /\ e \in Int /\ f \in Nat /\ g \in Nat /\ n \in Nat \ {0} /\ m * l = n
  <2>1. x * l - a * m \in Nat /\ y * l - b * m \in Nat
    BY DEF Nat
  <2> QED BY <1>1, <2>1
<1>3. e * l = d * m + f - g
  <2>1. (x - y) * WAD * l = ((x * l) * WAD) - ((y * l) * WAD)
    BY <1>1
  <2>2. (a - b) * WAD * m = ((a * m) * WAD) - ((b * m) * WAD)
    BY <1>1
  <2>3. f = ((x * l) * WAD) - ((a * m) * WAD) /\ g = ((y * l) * WAD) - ((b * m) * WAD)
    BY <1>1
  <2>4. (x * l) * WAD \in Int /\ (y * l) * WAD \in Int /\ (a * m) * WAD \in Int /\ (b * m) * WAD \in Int
    BY <1>1
  <2> QED BY <2>1, <2>2, <2>3, <2>4
<1>4. x * WAD * l = a * WAD * m + f
  <2>1. f = ((x * l) * WAD) - ((a * m) * WAD)
    BY <1>1
  <2>2. x * WAD * l = (x * l) * WAD /\ a * WAD * m = (a * m) * WAD
    BY <1>1
  <2>3. (x * l) * WAD \in Int /\ (a * m) * WAD \in Int
    BY <1>1
  <2> QED BY <2>1, <2>2, <2>3
<1>5. a * WAD >= Bend(l, d)
  BY DEF SideHeld
<1> HIDE DEF d, e, f, g
<1>6. Bend(n, d * m) = Bend(l, d) * m /\ Bend(n, e * l) = Bend(m, e) * l
  <2>1. Bend(l * m, d * m) = Bend(l, d) * m
    BY <1>2, BendScales
  <2>2. Bend(m * l, e * l) = Bend(m, e) * l
    BY <1>2, BendScales
  <2> QED BY <1>2, <2>1, <2>2
<1> HIDE DEF n
<1> DEFINE i == d * m
           j == e * l
<1>7. i \in Int /\ j \in Int /\ j <= i + f /\ i + f \in Int /\ i <= i + f /\ (i + f) - i = f
  <2>1. i \in Int
    BY <1>2
  <2>2. j = i + f - g
    BY <1>3
  <2> HIDE DEF i, j
  <2> QED BY <1>2, <2>1, <2>2
<1> HIDE DEF i, j
<1>8. Bend(n, j) <= Bend(n, i + f) /\ Bend(n, i + f) <= Bend(n, i) + f
  <2>1. Bend(n, j) <= Bend(n, i + f)
    BY <1>2, <1>7, BendSlope
  <2>2. Bend(n, i + f) <= Bend(n, i) + ((i + f) - i)
    BY <1>2, <1>7, BendSlope
  <2> QED BY <1>7, <2>1, <2>2
<1>9. Bend(n, j) \in Nat /\ Bend(n, i) \in Nat /\ Bend(n, i + f) \in Nat /\ Bend(l, d) \in Nat /\ Bend(m, e) \in Nat
  BY <1>2, <1>7, BendTyped
<1>10. Bend(l, d) * m <= a * WAD * m
  <2> DEFINE u == Bend(l, d)
             v == a * WAD
  <2>1. u \in Nat /\ v \in Nat /\ u <= v
    BY <1>1, <1>5, <1>9
  <2> HIDE DEF u, v
  <2>2. u * m <= v * m
    BY <2>1
  <2> QED BY <2>2 DEF u, v
<1>11. Bend(m, e) * l <= x * WAD * l
  <2>1. Bend(n, j) = Bend(m, e) * l /\ Bend(n, i) = Bend(l, d) * m
    BY <1>6 DEF i, j
  <2>2. a * WAD * m \in Nat /\ x * WAD * l \in Nat
    BY <1>1
  <2> QED BY <1>2, <1>4, <1>8, <1>9, <1>10, <2>1, <2>2
<1>12. Bend(m, e) <= x * WAD
  <2> DEFINE u == Bend(m, e)
             v == x * WAD
  <2>1. u \in Nat /\ v \in Nat /\ u * l <= v * l
    BY <1>1, <1>9, <1>11
  <2> HIDE DEF u, v
  <2>2. u <= v
    <3> SUFFICES ASSUME u >= v + 1 PROVE FALSE
      BY <2>1
    <3>1. u * l >= (v + 1) * l /\ (v + 1) * l = v * l + l /\ v * l \in Nat /\ u * l \in Nat
      BY <2>1
    <3> QED BY <2>1, <3>1
  <2> QED BY <2>2 DEF u, v
<1> QED BY <1>12 DEF SideHeld, e

LEMMA FairCurve ==
    ASSUME NEW p \in Pool, NEW q \in Pool, Curved(p), Fair(p, q), q.liquidity > 0 => p.liquidity > 0
    PROVE  Curved(q)
<1> SUFFICES ASSUME q.liquidity > 0, NEW o \in Outcomes
             PROVE  SideHeld(q.reserve[o], q.reserve[Other(o)], q.liquidity)
  BY DEF Curved
<1>1. /\ p.liquidity \in Nat \ {0} /\ q.liquidity \in Nat \ {0} /\ Other(o) \in Outcomes
      /\ \A x \in Outcomes : p.reserve[x] \in Nat /\ q.reserve[x] \in Nat
  BY OtherTyped DEF Pool
<1>2. SideHeld(p.reserve[o], p.reserve[Other(o)], p.liquidity)
  BY <1>1 DEF Curved
<1>3. \A x \in Outcomes : q.reserve[x] * p.liquidity >= p.reserve[x] * q.liquidity
  BY DEF Fair
<1> DEFINE a == p.reserve[o]
           b == p.reserve[Other(o)]
           l == p.liquidity
           x == q.reserve[o]
           y == q.reserve[Other(o)]
           m == q.liquidity
<1>4. /\ a \in Nat /\ b \in Nat /\ l \in Nat \ {0} /\ x \in Nat /\ y \in Nat /\ m \in Nat \ {0}
      /\ x * l >= a * m /\ y * l >= b * m /\ SideHeld(a, b, l)
  BY <1>1, <1>2, <1>3
<1> HIDE DEF a, b, l, x, y, m
<1>5. SideHeld(x, y, m)
  BY <1>4, FairSideHeld
<1> QED BY <1>5 DEF x, y, m

LEMMA LessIsLess ==
    ASSUME NEW p \in Pool, NEW q \in Pool, RemovedPool(p, q)
    PROVE  q.liquidity > 0 => p.liquidity > 0
<1>1. PICK k \in Nat : k < p.lpSupply /\ q.liquidity = p.liquidity - LiquidityOut(p, k)
  BY DEF RemovedPool
<1> DEFINE l == p.liquidity
           s == p.lpSupply
           x == l * k
           m == CeilDiv(x, s)
<1>2. l \in Nat /\ q.liquidity \in Nat /\ x \in Nat /\ s \in Nat \ {0}
  BY <1>1 DEF Pool
<1>3. LiquidityOut(p, k) = Min({m, l})
  BY DEF LiquidityOut
<1> HIDE DEF x, s
<1>4. m \in Int /\ (x = 0 => m >= 0)
  <2>1. m \in Int /\ m * s >= x
    BY <1>2, CeilDivAbove
  <2> HIDE DEF m
  <2> SUFFICES ASSUME x = 0, m <= -1 PROVE FALSE
    BY <2>1
  <2>2. m * s <= -s
    BY <1>2, <2>1
  <2> QED BY <1>2, <2>1, <2>2
<1> HIDE DEF m, l
<1>5. l = 0 => x = 0
  BY <1>2 DEF x
<1>6. Min({m, l}) = IF m <= l THEN m ELSE l
  BY <1>2, <1>4, MinOfTwo
<1>7. l = 0 => ~(q.liquidity > 0)
  BY <1>1, <1>2, <1>3, <1>4, <1>5, <1>6 DEF l
<1> QED BY <1>2, <1>7 DEF l

PoolsCurved == \A c \in Conditions : Curved(pools[c])

LEMMA CurveStep ==
    ASSUME VenueInv, VenueInv', PoolsCurved, [Next]_venueVars
    PROVE  PoolsCurved'
<1>1. CASE UNCHANGED pools
  BY <1>1 DEF PoolsCurved
<1>2. ASSUME NEW c \in Conditions, Untouched(c), Books(c) PROVE PoolsCurved'
  <2> DEFINE p == pools[c]
             q == pools'[c]
  <2>1. p \in Pool /\ q \in Pool /\ Curved(p)
    BY DEF VenueInv, VenueTypeOK, AMMTypeOK, Pool, PoolsCurved
  <2>2. p.exists => p.lpSupply > 0 /\ \A o \in Outcomes : p.reserve[o] > 0
    <3>1. PoolOK(c)
      BY DEF VenueInv, PoolsOK
    <3>2. p.exists => p.lpSupply >= MIN_LP /\ \A o \in Outcomes : p.reserve[o] > 0
      BY <3>1 DEF PoolOK
    <3>3. p.lpSupply \in Nat
      BY <2>1 DEF Pool
    <3> QED BY <3>2, <3>3, AMMFeesAssumption
  <2>3. ~p.exists => p.lpSupply = 0 /\ p.liquidity = 0
    <3>1. PoolOK(c)
      BY DEF VenueInv, PoolsOK
    <3> QED BY <3>1 DEF PoolOK, NoPool
  <2>4. /\ SeededPool(p, q) \/ BoughtPool(p, q) \/ SoldPool(p, q) \/ AddedPool(p, q) \/ RemovedPool(p, q)
    BY <1>2 DEF Books
  <2> HIDE DEF p, q
  <2>5. AddedPool(p, q) => Curved(q)
    <3> SUFFICES ASSUME AddedPool(p, q) PROVE Curved(q)
      OBVIOUS
    <3>1. p.liquidity > 0
      BY DEF AddedPool
    <3>2. p.lpSupply > 0 /\ \A o \in Outcomes : p.reserve[o] > 0
      <4>1. p.exists
        BY <2>1, <2>3, <3>1
      <4> QED BY <2>2, <4>1
    <3>3. Fair(p, q)
      BY <2>1, <3>2, AddedIsFair
    <3> QED BY <2>1, <3>1, <3>3, FairCurve
  <2>6. RemovedPool(p, q) => Curved(q)
    <3> SUFFICES ASSUME RemovedPool(p, q) PROVE Curved(q)
      OBVIOUS
    <3>1. p.lpSupply > 0
      <4>1. \E k \in Nat : k < p.lpSupply
        BY DEF RemovedPool
      <4> QED BY <2>1, <4>1 DEF Pool
    <3>2. \A o \in Outcomes : p.reserve[o] > 0
      <4>1. p.exists
        BY <2>3, <3>1
      <4> QED BY <2>2, <4>1
    <3>3. Fair(p, q)
      BY <2>1, <3>1, <3>2, RemovedIsFair
    <3> QED BY <2>1, <3>3, LessIsLess, FairCurve
  <2>7. Curved(q)
    BY <2>1, <2>4, <2>5, <2>6, SeededCurve, BoughtCurve, SoldCurve
  <2>8. \A d \in Conditions \ {c} : pools'[d] = pools[d]
    BY <1>2 DEF Untouched
  <2> SUFFICES ASSUME NEW d \in Conditions PROVE Curved(pools'[d])
    BY DEF PoolsCurved, Curved
  <2>9. CASE d = c
    BY <2>7, <2>9 DEF q
  <2>10. CASE d # c
    BY <2>8, <2>10 DEF PoolsCurved
  <2> QED BY <2>9, <2>10
<1> QED BY <1>1, <1>2, BooksChange

LEMMA OnTable == ASSUME NEW w \in Grid PROVE Ext(w) = G[w]
<1>1. w \in Int /\ U_MAX \in Nat /\ ~(w < -U_MAX) /\ ~(w > U_MAX)
  BY CurveAssumption DEF Grid
<1> QED BY <1>1 DEF Ext

LEMMA HeldOnTable ==
    ASSUME VenueInv, PoolsCurved
    PROVE  OnCurve
<1> SUFFICES ASSUME NEW c \in Conditions, NEW o \in Outcomes, pools[c].liquidity > 0,
                    NEW q, q = ((pools[c].reserve[o] - pools[c].reserve[Other(o)]) * WAD) \div pools[c].liquidity,
                    NEW r, r = ((pools[c].reserve[o] - pools[c].reserve[Other(o)]) * WAD) % pools[c].liquidity,
                    q \in Grid, q + 1 \in Grid
             PROVE  pools[c].reserve[o] * WAD >= G[q] * (pools[c].liquidity - r) + G[q + 1] * r
  BY DEF OnCurve
<1> DEFINE l == pools[c].liquidity
           d == (pools[c].reserve[o] - pools[c].reserve[Other(o)]) * WAD
<1>1. pools[c].reserve[o] * WAD >= Bend(l, d)
  BY DEF PoolsCurved, Curved, SideHeld
<1>2. Ext(q) = G[q] /\ Ext(q + 1) = G[q + 1]
  BY OnTable
<1>3. Bend(l, d) = Ext(q) * (l - r) + Ext(q + 1) * r
  BY Zenon DEF Bend
<1> QED BY <1>1, <1>2, <1>3

(* Whatever is traded, added and removed, in any order and at any rounding *)
(* of the contract, and whichever point below the root its solver stops    *)
(* at, no pool falls below its curve: a round trip takes nothing out of it *)
(* that it did not pay in.                                                 *)
THEOREM PoolsStayOnCurve == Spec => []OnCurve
<1>1. Init => PoolsCurved
  <2> SUFFICES ASSUME Init, NEW c \in Conditions PROVE ~(pools[c].liquidity > 0)
    BY DEF PoolsCurved, Curved
  <2>1. pools[c] = NoPool
    BY DEF Init, AMMInit
  <2> QED BY <2>1 DEF NoPool
<1>2. VenueInv /\ VenueInv' /\ PoolsCurved /\ [Next]_venueVars => PoolsCurved'
  BY CurveStep
<1>3. VenueInv /\ PoolsCurved => OnCurve
  BY HeldOnTable
<1> QED BY <1>1, <1>2, <1>3, VenueInvariant, PTL DEF Spec
=============================================================================
