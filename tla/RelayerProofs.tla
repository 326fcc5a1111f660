--------------------------- MODULE RelayerProofs ---------------------------
(***************************************************************************)
(* The relayer for every book, every number of jobs and attempts and every *)
(* schedule.                                                               *)
(***************************************************************************)
EXTENDS Relayer, FiniteSums, SequenceTheorems, TLAPS

(* The sums of the model as sums of functions.                             *)
LEMMA FillsSum ==
    ASSUME NEW jb, NEW S \in SUBSET Jobs
    PROVE  Fills(jb, S) = SumOver([j \in Jobs |-> jb[j].fill], S)
<1> DEFINE f == [j \in Jobs |-> jb[j].fill]
           Body(g) == [s \in SUBSET S |-> IF s = {} THEN 0 ELSE jb[Pick(s)].fill + g[s \ {Pick(s)}]]
<1>1. ASSUME NEW g PROVE Body(g) = Unfolded(f, S, g)
  <2>1. \A s \in SUBSET S : s # {} => Pick(s) \in Jobs
    BY PickIn
  <2> QED BY <2>1 DEF Unfolded
<1>2. (CHOOSE g : g = Body(g)) = Folded(f, S)
  BY <1>1 DEF Folded
<1>3. Fills(jb, S) = (CHOOSE g : g = Body(g))[S]
  BY DEF Fills, MapThenSumSet, MapThenFoldSet, Pick
<1> QED BY <1>2, <1>3, SumIsFolded

LEMMA OnOfferSum ==
    ASSUME NEW ord, NEW S \in SUBSET OrderIds
    PROVE  OnOffer(ord, S) = SumOver([n \in OrderIds |-> _remaining(ord, n)], S)
<1> DEFINE f == [n \in OrderIds |-> _remaining(ord, n)]
           Body(g) == [s \in SUBSET S |-> IF s = {} THEN 0 ELSE _remaining(ord, Pick(s)) + g[s \ {Pick(s)}]]
<1>1. ASSUME NEW g PROVE Body(g) = Unfolded(f, S, g)
  <2>1. \A s \in SUBSET S : s # {} => Pick(s) \in OrderIds
    BY PickIn
  <2> QED BY <2>1 DEF Unfolded
<1>2. (CHOOSE g : g = Body(g)) = Folded(f, S)
  BY <1>1 DEF Folded
<1>3. OnOffer(ord, S) = (CHOOSE g : g = Body(g))[S]
  BY DEF OnOffer, MapThenSumSet, MapThenFoldSet, Pick
<1> QED BY <1>2, <1>3, SumIsFolded

LEMMA TakenSum ==
    ASSUME NEW ord, NEW t
    PROVE  Taken(ord, t) = SumOver([m \in OrderIds |-> Quantity(ord, t, m)], Hits(ord, t))
<1> DEFINE S == Hits(ord, t)
           f == [m \in OrderIds |-> Quantity(ord, t, m)]
           Body(g) == [s \in SUBSET S |-> IF s = {} THEN 0 ELSE Quantity(ord, t, Pick(s)) + g[s \ {Pick(s)}]]
<1>0. Hits(ord, t) \subseteq OrderIds
  BY DEF Hits, Makers
<1>1. ASSUME NEW g PROVE Body(g) = Unfolded(f, S, g)
  <2>1. \A s \in SUBSET S : s # {} => Pick(s) \in OrderIds
    BY <1>0, PickIn
  <2> QED BY <2>1 DEF Unfolded
<1>2. (CHOOSE g : g = Body(g)) = Folded(f, S)
  BY <1>1 DEF Folded
<1>3. Taken(ord, t) = (CHOOSE g : g = Body(g))[S]
  BY DEF Taken, MapThenSumSet, MapThenFoldSet, Pick
<1> QED BY <1>2, <1>3, SumIsFolded

LEMMA FilledOnChainSum ==
    ASSUME NEW o, NEW k
    PROVE  FilledOnChain(o, k) =
             SumOver([i \in 1..k |-> chain[i].fill],
                     {i \in 1..k : chain[i].ok /\ o \in {chain[i].taker, chain[i].maker}})
<1> DEFINE S == {i \in 1..k : chain[i].ok /\ o \in {chain[i].taker, chain[i].maker}}
           f == [i \in 1..k |-> chain[i].fill]
           Body(g) == [s \in SUBSET S |-> IF s = {} THEN 0 ELSE chain[Pick(s)].fill + g[s \ {Pick(s)}]]
<1>1. ASSUME NEW g PROVE Body(g) = Unfolded(f, S, g)
  <2>1. \A s \in SUBSET S : s # {} => Pick(s) \in 1..k
    BY PickIn
  <2> QED BY <2>1 DEF Unfolded
<1>2. (CHOOSE g : g = Body(g)) = Folded(f, S)
  BY <1>1 DEF Folded
<1>3. FilledOnChain(o, k) = (CHOOSE g : g = Body(g))[S]
  BY DEF FilledOnChain, MapThenSumSet, MapThenFoldSet, Pick
<1> QED BY <1>2, <1>3, SumIsFolded
----------------------------------------------------------------------------
(* What the tables compute has the types of the tables.                    *)
Orders == [OrderIds -> OrderRow]
Queue == [Jobs -> JobRow]

LEMMA JobsFinite == IsFiniteSet(Jobs) /\ \A S \in SUBSET Jobs : IsFiniteSet(S)
<1>1. IsFiniteSet(Jobs)
  BY FS_Interval, BoundsAssumption DEF Jobs
<1> QED BY <1>1, FS_Subset

LEMMA FillsNat ==
    ASSUME NEW jb \in Queue, NEW S \in SUBSET Jobs
    PROVE  Fills(jb, S) \in Nat
<1> DEFINE f == [j \in Jobs |-> jb[j].fill]
<1>1. \A j \in S : f[j] \in Nat
  BY DEF Queue, JobRow
<1> HIDE DEF f
<1>2. SumOver(f, S) \in Nat
  BY <1>1, JobsFinite, SumNat
<1> QED BY <1>2, FillsSum DEF f

LEMMA RemainingInt ==
    ASSUME NEW ord \in Orders, NEW o \in OrderIds
    PROVE  _remaining(ord, o) \in Int
  BY BookAssumption DEF _remaining, Orders, OrderRow

LEMMA OnOfferInt ==
    ASSUME NEW ord \in Orders, NEW S \in SUBSET OrderIds
    PROVE  OnOffer(ord, S) \in Int
<1> DEFINE f == [n \in OrderIds |-> _remaining(ord, n)]
<1>1. \A n \in S : f[n] \in Int
  BY RemainingInt
<1>2. IsFiniteSet(S)
  BY OrderIdsAssumption, FS_Subset
<1> HIDE DEF f
<1>3. SumOver(f, S) \in Int
  BY <1>1, <1>2, SumInt
<1> QED BY <1>3, OnOfferSum DEF f

(* A match takes a natural number of units, at most what the maker has     *)
(* left.                                                                   *)
LEMMA QuantityNat ==
    ASSUME NEW ord \in Orders, NEW t \in OrderIds, NEW m \in OrderIds
    PROVE  Quantity(ord, t, m) \in Nat
<1> DEFINE ahead == {n \in Makers(ord, t) : Ahead(t, n, m)}
           left == _remaining(ord, t) - OnOffer(ord, ahead)
<1>1. ahead \in SUBSET OrderIds
  BY DEF Makers
<1>2. OnOffer(ord, ahead) \in Int
  <2> HIDE DEF ahead
  <2> QED BY <1>1, OnOfferInt
<1>3. left \in Int /\ _remaining(ord, m) \in Int
  BY <1>2, RemainingInt
<1> DEFINE q == Min({left, _remaining(ord, m)})
<1>4. q \in Int
  <2> HIDE DEF left
  <2> QED BY <1>3, MinOfTwo
<1>5. Max({0, q}) \in Nat
  <2> HIDE DEF q
  <2> QED BY <1>4, MaxOfTwo
<1> QED BY <1>5 DEF Quantity

LEMMA TakenNat ==
    ASSUME NEW ord \in Orders, NEW t \in OrderIds
    PROVE  Taken(ord, t) \in Nat
<1> DEFINE f == [m \in OrderIds |-> Quantity(ord, t, m)]
<1>1. Hits(ord, t) \in SUBSET OrderIds
  BY DEF Hits, Makers
<1>2. \A m \in Hits(ord, t) : f[m] \in Nat
  BY <1>1, QuantityNat
<1>3. IsFiniteSet(Hits(ord, t))
  BY <1>1, OrderIdsAssumption, FS_Subset
<1> HIDE DEF f
<1>4. SumOver(f, Hits(ord, t)) \in Nat
  BY <1>2, <1>3, SumNat
<1> QED BY <1>4, TakenSum DEF f

LEMMA MatchedOrdersType ==
    ASSUME NEW ord \in Orders, NEW t \in OrderIds
    PROVE  MatchedOrders(ord, t) \in Orders
<1>1. Taken(ord, t) \in Nat /\ \A o \in OrderIds : Quantity(ord, t, o) \in Nat
  BY TakenNat, QuantityNat
<1> QED BY <1>1 DEF MatchedOrders, Orders, OrderRow

(* A match leaves every row of the queue alone and opens new ones, for     *)
(* orders of the book.                                                     *)
Opens(old, new) ==
    /\ old.status = "none"
    /\ new.status = "pending" /\ new.nonce = None /\ ~new.signed /\ new.consumed = None
    /\ new.taker \in OrderIds /\ new.maker \in OrderIds

LEMMA MatchedJobsType ==
    ASSUME NEW ord \in Orders, NEW jb \in Queue, NEW t \in OrderIds
    PROVE  /\ MatchedJobs(ord, jb, t) \in Queue
           /\ \A j \in Jobs : \/ MatchedJobs(ord, jb, t)[j] = jb[j]
                              \/ Opens(jb[j], MatchedJobs(ord, jb, t)[j])
<1> DEFINE new == MatchedJobs(ord, jb, t)
<1>1. Hits(ord, t) \in SUBSET OrderIds
  BY DEF Hits, Makers
<1>2. ASSUME NEW j \in Jobs
      PROVE  new[j] = jb[j] \/ (Opens(jb[j], new[j]) /\ new[j] \in JobRow)
  <2> SUFFICES ASSUME jb[j].status = "none", \E m \in Hits(ord, t) : RowFor(ord, jb, t, m) = j
               PROVE  Opens(jb[j], new[j]) /\ new[j] \in JobRow
    BY DEF MatchedJobs, Rows
  <2> DEFINE m == CHOOSE m \in Hits(ord, t) : RowFor(ord, jb, t, m) = j
  <2>1. m \in Hits(ord, t)
    OBVIOUS
  <2>2. new[j] = enqueue_match(t, m, Quantity(ord, t, m))
    BY DEF MatchedJobs, Rows
  <2>3. m \in OrderIds /\ Quantity(ord, t, m) \in Nat
    BY <1>1, <2>1, QuantityNat
  <2> HIDE DEF m
  <2>4. new[j] = [status |-> "pending", taker |-> t, maker |-> m, fill |-> Quantity(ord, t, m),
                  nonce |-> None, signed |-> FALSE, attempts |-> 0, consumed |-> None]
    BY <2>2 DEF enqueue_match, NoRow
  <2> HIDE DEF new
  <2>5. new[j] \in JobRow
    BY <2>3, <2>4, BoundsAssumption DEF JobRow, Statuses, LIVE, None
  <2> QED BY <2>3, <2>4, <2>5 DEF Opens
<1>3. new = [j \in Jobs |-> new[j]]
  BY DEF MatchedJobs
<1>4. \A j \in Jobs : jb[j] \in JobRow
  BY DEF Queue
<1> HIDE DEF new
<1>5. new \in Queue
  BY <1>2, <1>3, <1>4 DEF Queue
<1> QED BY <1>2, <1>5 DEF new

LEMMA LoweredType ==
    ASSUME job \in Queue, NEW ord \in Orders, NEW S \in SUBSET Jobs
    PROVE  Lowered(ord, S) \in Orders
<1>1. ASSUME NEW o \in OrderIds
      PROVE  Max({0, ord[o].filled - Fills(job, {j \in S : Touches(j, o)})}) \in Nat
  <2> DEFINE n == Fills(job, {j \in S : Touches(j, o)})
  <2>1. n \in Nat
    BY FillsNat
  <2>2. ord[o].filled - n \in Int
    BY <2>1 DEF Orders, OrderRow
  <2> HIDE DEF n
  <2>3. Max({0, ord[o].filled - n}) \in Nat
    BY <2>2, MaxOfTwo
  <2> QED BY <2>3 DEF n
<1> QED BY <1>1 DEF Lowered, Orders, OrderRow

LEMMA WithStatusType ==
    ASSUME NEW jb \in Queue, NEW S \in SUBSET Jobs, NEW s \in Statuses
    PROVE  /\ WithStatus(jb, S, s) \in Queue
           /\ \A j \in S : WithStatus(jb, S, s)[j] = [jb[j] EXCEPT !.status = s]
           /\ \A j \in Jobs \ S : WithStatus(jb, S, s)[j] = jb[j]
  BY DEF WithStatus, Queue, JobRow

LEMMA FilledOnChainNat ==
    ASSUME chain \in Seq(Event), NEW o, NEW k \in 0..Len(chain)
    PROVE  FilledOnChain(o, k) \in Nat
<1> DEFINE S == {i \in 1..k : chain[i].ok /\ o \in {chain[i].taker, chain[i].maker}}
           f == [i \in 1..k |-> chain[i].fill]
<1>1. k \in Int /\ IsFiniteSet(1..k)
  BY FS_Interval
<1>2. IsFiniteSet(S)
  BY <1>1, FS_Subset
<1>3. \A i \in S : f[i] \in Nat
  <2>1. \A i \in 1..k : i \in 1..Len(chain) /\ chain[i] \in Event
    BY ElementOfSeq
  <2> QED BY <2>1 DEF Event
<1>4. SumOver(f, S) \in Nat
  <2> HIDE DEF f, S
  <2> QED BY <1>2, <1>3, SumNat
<1> QED BY <1>4, FilledOnChainSum

LEMMA ResyncNat ==
    ASSUME chain \in Seq(Event), NEW ord, NEW jb \in Queue, NEW o \in OrderIds, NEW k \in 0..Len(chain)
    PROVE  _resync_filled(ord, jb, o, k) \in Nat
<1> DEFINE live == {j \in Jobs : jb[j].status \in LIVE /\ o \in {jb[j].taker, jb[j].maker}}
           n == FilledOnChain(o, k) + Fills(jb, live)
<1>1. Fills(jb, live) \in Nat
  BY FillsNat
<1>2. n \in Nat /\ Book[o].amount \in Nat
  BY <1>1, FilledOnChainNat, BookAssumption
<1>3. \A a, b \in Nat : Min({a, b}) \in Nat
  BY MinOfTwo
<1>4. Min({Book[o].amount, n}) \in Nat
  <2> HIDE DEF n
  <2> QED BY <1>2, <1>3
<1> QED BY <1>4 DEF _resync_filled

(* A job that fails keeps its row but for the status; the retry of its     *)
(* taker only opens rows.                                                  *)
Retired(j) ==
    /\ order' \in Orders /\ job' \in Queue
    /\ job'[j] = [job[j] EXCEPT !.status = "failed"]
    /\ \A k \in Jobs \ {j} : job'[k] = job[k] \/ Opens(job[k], job'[k])

LEMMA RolledBack ==
    ASSUME order \in Orders, job \in Queue, NEW j \in Jobs,
           order' = Lowered(order, {j}), job' = WithStatus(job, {j}, "failed")
    PROVE  Retired(j)
<1>1. "failed" \in Statuses
  BY DEF Statuses, TERMINAL
<1>2. order' \in Orders
  BY LoweredType
<1> QED BY SMTT(60), <1>1, <1>2, WithStatusType DEF Retired

LEMMA FailAndRetireStep ==
    ASSUME order \in Orders, job \in Queue, chain \in Seq(Event), seen \in 0..Len(chain),
           NEW j \in Jobs, job[j].taker \in OrderIds, job[j].maker \in OrderIds, FailAndRetire(j)
    PROVE  Retired(j)
<1> DEFINE t == job[j].taker
           ord == Lowered(order, {j})
           jb == WithStatus(job, {j}, "failed")
<1>1. PICK culprits \in SUBSET _orders(j), over \in SUBSET _orders(j) :
        \E view \in [over -> seen..Len(chain)] : _retire_failed_side(ord, jb, j, culprits, view)
  BY DEF FailAndRetire
<1>2. PICK view \in [over -> seen..Len(chain)] : _retire_failed_side(ord, jb, j, culprits, view)
  BY <1>1
<1>3. ord \in Orders
  BY LoweredType
<1>4. /\ jb \in Queue
      /\ jb[j] = [job[j] EXCEPT !.status = "failed"]
      /\ \A k \in Jobs \ {j} : jb[k] = job[k]
  <2>1. "failed" \in Statuses
    BY DEF Statuses, TERMINAL
  <2>2. {j} \in SUBSET Jobs
    OBVIOUS
  <2>3. jb \in Queue
    BY <2>1, <2>2, WithStatusType
  <2>4. jb[j] = [job[j] EXCEPT !.status = "failed"]
    BY DEF WithStatus
  <2>5. \A k \in Jobs \ {j} : jb[k] = job[k]
    BY <2>1, <2>2, WithStatusType
  <2> QED BY <2>3, <2>4, <2>5
<1> DEFINE culled == [o \in OrderIds |->
                        [ord[o] EXCEPT !.filled = IF o \in DOMAIN view THEN _resync_filled(ord, jb, o, view[o]) ELSE @,
                                       !.cancelled = @ \/ o \in culprits]]
<1>5. culled \in Orders
  <2> HIDE DEF ord, jb
  <2>1. ASSUME NEW o \in OrderIds, o \in DOMAIN view PROVE _resync_filled(ord, jb, o, view[o]) \in Nat
    <3>1. view[o] \in 0..Len(chain)
      BY <2>1
    <3> QED BY <1>4, <3>1, ResyncNat
  <2>2. \A o \in OrderIds : ord[o] \in OrderRow
    BY <1>3 DEF Orders
  <2> QED BY <2>1, <2>2 DEF Orders, OrderRow
<1>6. \/ order' = MatchedOrders(culled, t) /\ job' = MatchedJobs(culled, jb, t)
      \/ order' = culled /\ job' = jb
  BY <1>2 DEF _retire_failed_side
<1> HIDE DEF ord, jb, culled
<1>7. MatchedOrders(culled, t) \in Orders
  BY <1>5, MatchedOrdersType
<1>8. /\ MatchedJobs(culled, jb, t) \in Queue
      /\ \A k \in Jobs : \/ MatchedJobs(culled, jb, t)[k] = jb[k]
                         \/ Opens(jb[k], MatchedJobs(culled, jb, t)[k])
  BY <1>4, <1>5, MatchedJobsType
<1>9. jb[j].status = "failed"
  BY <1>4 DEF Queue, JobRow
<1>10. order' \in Orders /\ job' \in Queue
  BY <1>4, <1>5, <1>6, <1>7, <1>8
<1>11. \A k \in Jobs : job'[k] = jb[k] \/ Opens(jb[k], job'[k])
  BY <1>6, <1>8
<1>12. job'[j] = jb[j]
  BY <1>9, <1>11 DEF Opens
<1> QED BY <1>4, <1>10, <1>11, <1>12 DEF Retired

(* A receipt confirms the job, leaves it sent or retires it.               *)
LEMMA ReceiptStep ==
    ASSUME order \in Orders, job \in Queue, chain \in Seq(Event), seen \in 0..Len(chain),
           NEW j \in Jobs, job[j].taker \in OrderIds, job[j].maker \in OrderIds,
           NEW i \in Receipts(j), _apply_receipt(j, i)
    PROVE  \/ _has_fill_log(i) /\ order' = order /\ _confirm(j)
           \/ _has_fill_log(i) /\ order' = order /\ job' = [job EXCEPT ![j].status = "sent"]
           \/ ~_has_fill_log(i) /\ Retired(j)
  BY RolledBack, FailAndRetireStep DEF _apply_receipt
----------------------------------------------------------------------------
(* Nonces.                                                                 *)
LEMMA PendingNoncesNat ==
    ASSUME TypeOK, NEW p \in PendingNonces
    PROVE  p \in Nat
<1> DEFINE S == {i \in 1..seen : chain[i].nonce # None}
<1>1. seen \in Int
  BY DEF TypeOK
<1>2. IsFiniteSet(S)
  <2>1. IsFiniteSet(1..seen)
    BY <1>1, FS_Interval
  <2> QED BY <2>1, FS_Subset
<1>3. Cardinality(S) \in Nat
  BY <1>2, FS_CardinalityType
<1> QED BY <1>3 DEF PendingNonces

(* A reserved nonce is above those of all jobs in flight.                  *)
LEMMA FloorAbove ==
    ASSUME TypeOK
    PROVE  /\ _nonce_floor \in Nat
           /\ \A j \in Jobs : job[j].status \in IN_FLIGHT => job[j].nonce < _nonce_floor
<1> DEFINE F == {x \in Jobs : job[x].status \in IN_FLIGHT}
           f == [j \in Jobs |-> job[j].nonce + 1]
           S == {0} \cup {job[j].nonce + 1 : j \in F}
<1>1. \A j \in F : f[j] \in Nat /\ f[j] = job[j].nonce + 1 /\ job[j].nonce \in Nat
  BY DEF TypeOK, JobRow, None
<1>2. IsFiniteSet(F)
  BY JobsFinite
<1> HIDE DEF f, F
<1>3. SumOver(f, F) \in Nat /\ \A j \in F : f[j] <= SumOver(f, F)
  BY <1>1, <1>2, SumNat, TermBelowSum
<1>4. S \in SUBSET Nat /\ S # {} /\ \A x \in S : x <= SumOver(f, F)
  BY <1>1, <1>3
<1>5. Max(S) \in S /\ \A y \in S : y <= Max(S)
  <2> HIDE DEF S
  <2> QED BY <1>3, <1>4, MaxOfBounded
<1>6. _nonce_floor = Max(S)
  BY DEF _nonce_floor, F
<1>7. Max(S) \in Nat /\ \A j \in F : job[j].nonce + 1 <= Max(S)
  BY <1>4, <1>5
<1>8. \A j \in F : job[j].nonce < Max(S)
  <2> HIDE DEF S
  <2> QED BY <1>1, <1>7
<1> QED BY <1>6, <1>7, <1>8 DEF F

LEMMA ReserveAbove ==
    ASSUME TypeOK, NEW p \in PendingNonces
    PROVE  /\ reserve(p) \in Nat
           /\ \A j \in Jobs : job[j].status \in IN_FLIGHT => job[j].nonce < reserve(p)
<1> DEFINE q == IF next = None THEN p ELSE next
<1>1. q \in Nat
  BY PendingNoncesNat DEF TypeOK
<1>2. reserve(p) = Max({_nonce_floor, q})
  BY DEF reserve
<1> HIDE DEF q
<1>3. reserve(p) \in Nat /\ reserve(p) >= _nonce_floor
  BY <1>1, <1>2, FloorAbove, MaxOfTwo
<1>4. \A j \in Jobs : job[j].status \in IN_FLIGHT => job[j].nonce \in Nat
  BY DEF TypeOK, JobRow, None
<1> QED BY <1>3, <1>4, FloorAbove

LEMMA AttemptedType ==
    ASSUME TypeOK, NEW j \in Jobs
    PROVE  Attempted(j) \in 0..MaxAttempts
<1>1. job[j].attempts \in 0..MaxAttempts /\ MaxAttempts \in Nat
  BY BoundsAssumption DEF TypeOK, JobRow
<1>2. \A m \in Nat : \A n \in 0..m : Min({n + 1, m}) \in 0..m
  BY MinOfTwo
<1> QED BY <1>1, <1>2 DEF Attempted
----------------------------------------------------------------------------
(* The types, that a row and a DELETE name orders of the book, and that    *)
(* the worker is busy with a row, in flight once the row is claimed.       *)
CancelOK(c) ==
    /\ c \in [order : OrderIds \cup {None}, jobs : SUBSET Jobs, exposed : BOOLEAN]
    /\ c # NoCancel => c.order \in OrderIds
RowsOwned == \A j \in Jobs : job[j].status # "none" => job[j].taker \in OrderIds /\ job[j].maker \in OrderIds
WorkerHolds ==
    /\ work.at # "idle" => work.job \in Jobs /\ job[work.job].status # "none"
    /\ work.at \in {"cast", "note"} => job[work.job].status \in IN_FLIGHT
BaseInv == TypeOK /\ CancelOK(cancel) /\ RowsOwned /\ WorkerHolds

LEMMA BaseInit == Init => BaseInv
<1> SUFFICES ASSUME Init PROVE BaseInv
  OBVIOUS
<1>1. job \in [Jobs -> JobRow]
  BY BoundsAssumption DEF Init, NoRow, JobRow, Statuses, None
<1>2. order \in [OrderIds -> OrderRow]
  BY DEF Init, OrderRow
<1>3. chain \in Seq(Event) /\ Len(chain) = 0
  BY DEF Init
<1>4. \A j \in Jobs : job[j].status = "none"
  BY DEF Init, NoRow
<1>5. work \in Work /\ work.at = "idle"
  BY DEF Init, Idle, Work, Kinds
<1>6. CancelOK(cancel)
  BY DEF Init, NoCancel, CancelOK
<1> QED BY <1>1, <1>2, <1>3, <1>4, <1>5, <1>6, BoundsAssumption
        DEF Init, BaseInv, TypeOK, CancelOK, RowsOwned, WorkerHolds, IN_FLIGHT, None

(* Steps that leave the tables and the chain alone.                        *)
LEMMA BaseQuiet ==
    ASSUME BaseInv, UNCHANGED <<dbVars, chain, account, pool, foreign>>,
           CancelOK(cancel'), UNCHANGED answered, next' \in Nat \cup {None}, work' \in Work, seen' \in 0..Len(chain),
           \/ work'.at = "idle"
           \/ /\ work'.job \in Jobs /\ job[work'.job].status # "none"
              /\ work'.at \in {"cast", "note"} => job[work'.job].status \in IN_FLIGHT
    PROVE  BaseInv'
  BY DEF BaseInv, TypeOK, CancelOK, RowsOwned, WorkerHolds, dbVars

(* What a write of the worker does to the row of job j: the other rows     *)
(* stay, except that a match may open some.                                *)
Keeps(j) ==
    /\ job'[j].taker = job[j].taker /\ job'[j].maker = job[j].maker /\ job'[j].fill = job[j].fill
    /\ job'[j].signed = job[j].signed

Withdraws(j) ==
    /\ job[j].status = "pending" /\ job'[j].status \in {"failed", "cancelled"}
    /\ Keeps(j) /\ job'[j].nonce = job[j].nonce

Retries(j) ==
    /\ job'[j].status = job[j].status
    /\ Keeps(j) /\ job'[j].nonce = job[j].nonce /\ job'[j].consumed = job[j].consumed

Claims(j) ==
    /\ job[j].status = "pending" /\ job'[j].status = "sending"
    /\ job'[j].taker = job[j].taker /\ job'[j].maker = job[j].maker /\ job'[j].fill = job[j].fill
    /\ job'[j].signed /\ job'[j].nonce \in Nat /\ job'[j].consumed = None
    /\ \A k \in Jobs : job[k].status \in IN_FLIGHT => job[k].nonce < job'[j].nonce

Releases(j) ==
    /\ job[j].status \in IN_FLIGHT /\ job'[j].status = "pending"
    /\ Keeps(j) /\ job'[j].nonce = None /\ job'[j].consumed = None

Carries(j) ==
    /\ job[j].status \in IN_FLIGHT /\ job'[j].status \in IN_FLIGHT
    /\ Keeps(j) /\ job'[j].nonce = job[j].nonce
    /\ job'[j].consumed \in {job[j].consumed, None, Len(chain)}

Settles(j) ==
    /\ job'[j].status = "confirmed"
    /\ Keeps(j) /\ job'[j].nonce = job[j].nonce

Fails(j) ==
    /\ job[j].status \in IN_FLIGHT /\ job'[j].status = "failed"
    /\ Keeps(j) /\ job'[j].nonce = job[j].nonce

Tables(j) ==
    /\ order' \in Orders /\ job' \in Queue
    /\ \A k \in Jobs \ {j} : job'[k] = job[k] \/ Opens(job[k], job'[k])

(* One write of the worker, by action.                                     *)
LEMMA BackToPending ==
    ASSUME BaseInv, UNCHANGED order, NEW j \in Jobs, job[j].status \in IN_FLIGHT, _back_to_pending(j)
    PROVE  Tables(j) /\ Releases(j)
<1>1. job \in [Jobs -> JobRow] /\ order' \in Orders
  BY DEF BaseInv, TypeOK, Orders
<1>2. job' \in Queue
  <2> DEFINE r == [job[j] EXCEPT !.status = "pending", !.nonce = None, !.consumed = None]
  <2>1. r \in JobRow
    BY <1>1 DEF JobRow, Statuses, LIVE
  <2>2. job' = [job EXCEPT ![j] = r]
    BY <1>1 DEF _back_to_pending
  <2> HIDE DEF r
  <2> QED BY <1>1, <2>1, <2>2 DEF Queue
<1>3. Releases(j)
  BY <1>1 DEF _back_to_pending, JobRow, Releases, Keeps
<1>4. \A k \in Jobs \ {j} : job'[k] = job[k]
  BY <1>1 DEF _back_to_pending
<1> QED BY <1>1, <1>2, <1>3, <1>4 DEF Tables

LEMMA Confirms ==
    ASSUME BaseInv, UNCHANGED order, NEW j \in Jobs, _confirm(j)
    PROVE  Tables(j) /\ Settles(j)
<1>1. job \in [Jobs -> JobRow] /\ order' \in Orders
  BY DEF BaseInv, TypeOK, Orders
<1>2. job' \in Queue
  <2> DEFINE r == [job[j] EXCEPT !.status = "confirmed", !.consumed = None]
  <2>1. r \in JobRow
    BY <1>1 DEF JobRow, Statuses, TERMINAL
  <2>2. job' = [job EXCEPT ![j] = r]
    BY <1>1 DEF _confirm
  <2> HIDE DEF r
  <2> QED BY <1>1, <2>1, <2>2 DEF Queue
<1>3. Settles(j)
  BY <1>1 DEF _confirm, JobRow, Settles, Keeps
<1>4. \A k \in Jobs \ {j} : job'[k] = job[k]
  BY <1>1 DEF _confirm
<1> QED BY <1>1, <1>2, <1>3, <1>4 DEF Tables

LEMMA RetiredRow ==
    ASSUME BaseInv, NEW j \in Jobs, Retired(j)
    PROVE  /\ Tables(j)
           /\ job[j].status \in IN_FLIGHT => Fails(j)
           /\ job[j].status = "pending" => Withdraws(j)
  BY DEF BaseInv, TypeOK, Retired, Tables, Fails, Withdraws, Keeps, JobRow

(* A row in flight that stays so.                                          *)
LEMMA CarriedRow ==
    ASSUME BaseInv, UNCHANGED order, NEW j \in Jobs, job[j].status \in IN_FLIGHT,
           NEW s \in IN_FLIGHT, NEW a \in 0..MaxAttempts, NEW c \in {job[j].consumed, None, Len(chain)},
           job' = [job EXCEPT ![j] = [job[j] EXCEPT !.status = s, !.attempts = a, !.consumed = c]]
    PROVE  Tables(j) /\ Carries(j)
<1>1. job \in [Jobs -> JobRow] /\ order' \in Orders /\ Len(chain) \in Nat
  BY DEF BaseInv, TypeOK, Orders
<1>2. job[j] \in JobRow /\ s \in Statuses /\ c \in Nat \cup {None}
  BY <1>1 DEF JobRow, Statuses, LIVE, IN_FLIGHT
<1>3. job' \in Queue
  BY <1>1, <1>2 DEF Queue, JobRow
<1>4. Carries(j)
  BY <1>1, <1>2 DEF JobRow, Carries, Keeps
<1>5. \A k \in Jobs \ {j} : job'[k] = job[k]
  BY <1>1
<1> QED BY <1>1, <1>3, <1>4, <1>5 DEF Tables

LEMMA ReceiptRow ==
    ASSUME BaseInv, NEW j \in Jobs, job[j].status \in IN_FLIGHT, NEW i \in Receipts(j), _apply_receipt(j, i)
    PROVE  /\ Tables(j)
           /\ \/ chain[i].ok /\ Settles(j)
              \/ Carries(j) /\ job'[j].consumed = job[j].consumed
              \/ ~chain[i].ok /\ Fails(j)
<1>1. /\ order \in Orders /\ job \in Queue /\ chain \in Seq(Event) /\ seen \in 0..Len(chain)
      /\ job[j].taker \in OrderIds /\ job[j].maker \in OrderIds
  BY DEF BaseInv, TypeOK, RowsOwned, Orders, Queue, IN_FLIGHT
<1>2. \/ _has_fill_log(i) /\ order' = order /\ _confirm(j)
      \/ _has_fill_log(i) /\ order' = order /\ job' = [job EXCEPT ![j].status = "sent"]
      \/ ~_has_fill_log(i) /\ Retired(j)
  BY <1>1, ReceiptStep
<1>3. CASE _has_fill_log(i) /\ order' = order /\ _confirm(j)
  BY <1>3, Confirms DEF _has_fill_log
<1>4. CASE _has_fill_log(i) /\ order' = order /\ job' = [job EXCEPT ![j].status = "sent"]
  <2>1. job[j] \in JobRow
    BY <1>1 DEF Queue
  <2>2. job' = [job EXCEPT ![j] = [job[j] EXCEPT !.status = "sent", !.attempts = job[j].attempts,
                                                 !.consumed = job[j].consumed]]
    BY <1>1, <1>4, <2>1 DEF JobRow
  <2>3. Tables(j) /\ Carries(j)
    BY <1>4, <2>1, <2>2, CarriedRow DEF IN_FLIGHT, JobRow
  <2>4. job'[j].consumed = job[j].consumed
    BY <1>1, <1>4, <2>1 DEF JobRow, Queue
  <2> QED BY <2>3, <2>4
<1>5. CASE ~_has_fill_log(i) /\ Retired(j)
  BY <1>5, RetiredRow DEF _has_fill_log
<1> QED BY <1>2, <1>3, <1>4, <1>5

Moves(j) ==
    \/ Withdraws(j) \/ Retries(j) \/ Claims(j) \/ Releases(j)
    \/ Carries(j) \/ Settles(j) \/ Fails(j)

LEMMA BaseRow ==
    ASSUME BaseInv, UNCHANGED <<apiVars, chain, account, pool, foreign, seen>>,
           next' \in Nat \cup {None}, work' \in Work,
           NEW j \in Jobs, job[j].status # "none", Tables(j), Moves(j),
           \/ work'.at = "idle"
           \/ work'.job = j /\ (work'.at \in {"cast", "note"} => job'[j].status \in IN_FLIGHT)
    PROVE  BaseInv'
<1>1. job \in [Jobs -> JobRow]
  BY DEF BaseInv, TypeOK
<1>2. /\ job'[j].status # "none"
      /\ job'[j].taker = job[j].taker /\ job'[j].maker = job[j].maker
      /\ job'[j].status \in IN_FLIGHT => job'[j].nonce # None /\ job'[j].signed
  BY DEF BaseInv, TypeOK, Moves, Withdraws, Retries, Claims, Releases, Carries, Settles, Fails,
         Keeps, IN_FLIGHT, None
<1>3. ASSUME NEW k \in Jobs
      PROVE  /\ job'[k].status \in IN_FLIGHT => job'[k].nonce # None /\ job'[k].signed
             /\ job'[k].status # "none" => job'[k].taker \in OrderIds /\ job'[k].maker \in OrderIds
  BY <1>2 DEF BaseInv, TypeOK, RowsOwned, Opens, Tables, IN_FLIGHT
<1>4. RowsOwned' /\ WorkerHolds'
  BY <1>2, <1>3 DEF RowsOwned, WorkerHolds
<1>5. TypeOK'
  BY <1>3 DEF BaseInv, TypeOK, Tables, Orders, Queue, apiVars
<1> QED BY <1>4, <1>5 DEF BaseInv, apiVars
----------------------------------------------------------------------------
(* The writes of the worker's actions.                                     *)
LEMMA SendConfirmRow ==
    ASSUME BaseInv, SendConfirm
    PROVE  work.job \in Jobs /\ Tables(work.job) /\ Settles(work.job)
  BY Confirms DEF SendConfirm, BaseInv, WorkerHolds

LEMMA SendCancelledRow ==
    ASSUME BaseInv, NEW j \in Jobs, SendCancelled(j)
    PROVE  Tables(j) /\ Withdraws(j)
<1>1. order \in Orders /\ job \in Queue /\ "cancelled" \in Statuses /\ {j} \in SUBSET Jobs
  BY DEF BaseInv, TypeOK, Orders, Queue, Statuses, TERMINAL
<1>2. order' = Lowered(order, {j}) /\ job' = WithStatus(job, {j}, "cancelled")
  BY DEF SendCancelled
<1>3. order' \in Orders /\ job' \in Queue
  BY <1>1, <1>2, LoweredType, WithStatusType
<1>4. job'[j] = [job[j] EXCEPT !.status = "cancelled"] /\ \A k \in Jobs \ {j} : job'[k] = job[k]
  BY <1>2 DEF WithStatus
<1>5. job[j] \in JobRow
  BY <1>1 DEF Queue
<1> QED BY <1>3, <1>4, <1>5 DEF SendCancelled, Tables, Withdraws, Keeps, JobRow

LEMMA SendFailRow ==
    ASSUME BaseInv, SendFail
    PROVE  work.job \in Jobs /\ Tables(work.job) /\ Withdraws(work.job)
<1> DEFINE j == work.job
<1>1. j \in Jobs /\ job[j].status = "pending"
  BY DEF SendFail, BaseInv, WorkerHolds
<1>2. /\ order \in Orders /\ job \in Queue /\ chain \in Seq(Event) /\ seen \in 0..Len(chain)
      /\ job[j].taker \in OrderIds /\ job[j].maker \in OrderIds
  BY <1>1 DEF BaseInv, TypeOK, RowsOwned, Orders, Queue
<1>3. FailAndRetire(j) \/ (order' = Lowered(order, {j}) /\ job' = WithStatus(job, {j}, "failed"))
  BY DEF SendFail
<1> HIDE DEF j
<1>4. Retired(j)
  BY <1>1, <1>2, <1>3, RolledBack, FailAndRetireStep
<1>5. Tables(j) /\ Withdraws(j)
  BY <1>1, <1>4, RetiredRow
<1> QED BY <1>1, <1>5 DEF j

LEMMA SendRetryRow ==
    ASSUME BaseInv, SendRetry
    PROVE  work.job \in Jobs /\ Tables(work.job) /\ Retries(work.job)
<1> DEFINE j == work.job
           r == [job[j] EXCEPT !.attempts = @ + 1]
<1>1. j \in Jobs
  BY DEF SendRetry, BaseInv, WorkerHolds
<1>2. job \in [Jobs -> JobRow] /\ order' \in Orders /\ job' = [job EXCEPT ![j] = r]
  BY <1>1 DEF SendRetry, BaseInv, TypeOK, Orders
<1>3. job[j].attempts + 1 \in 0..MaxAttempts
  BY <1>1, <1>2, BoundsAssumption DEF SendRetry, JobRow
<1> HIDE DEF j
<1>4. r \in JobRow /\ \A k \in Jobs \ {j} : job'[k] = job[k]
  BY <1>1, <1>2, <1>3 DEF JobRow
<1>5. job'[j] = r
  BY <1>1, <1>2
<1>6. Retries(j)
  BY <1>1, <1>2, <1>5 DEF Retries, Keeps, JobRow
<1>7. job' \in Queue
  <2> HIDE DEF r
  <2> QED BY <1>2, <1>4 DEF Queue
<1> QED BY <1>1, <1>2, <1>4, <1>6, <1>7 DEF Tables, j

LEMMA SendClaimRow ==
    ASSUME BaseInv, NEW p \in PendingNonces, SendClaim(p)
    PROVE  work.job \in Jobs /\ Tables(work.job) /\ Claims(work.job) /\ next' \in Nat
<1> DEFINE j == work.job
           n == reserve(p)
           r == [job[j] EXCEPT !.status = "sending", !.nonce = n, !.signed = TRUE, !.consumed = None]
<1>1. j \in Jobs
  BY DEF SendClaim, BaseInv, WorkerHolds
<1>2. /\ job \in [Jobs -> JobRow] /\ order' \in Orders /\ job' = [job EXCEPT ![j] = r]
      /\ job[j].status = "pending" /\ next' = n + 1
  BY <1>1 DEF SendClaim, BaseInv, TypeOK, Orders
<1>3. n \in Nat /\ \A k \in Jobs : job[k].status \in IN_FLIGHT => job[k].nonce < n
  BY ReserveAbove DEF BaseInv
<1> HIDE DEF j, n
<1>4. r \in JobRow /\ \A k \in Jobs \ {j} : job'[k] = job[k]
  BY <1>1, <1>2, <1>3 DEF JobRow, Statuses, LIVE
<1>5. job'[j] = r
  BY <1>1, <1>2
<1>6. Claims(j)
  BY <1>1, <1>2, <1>3, <1>5 DEF Claims, JobRow
<1>7. job' \in Queue
  <2> HIDE DEF r
  <2> QED BY <1>2, <1>4 DEF Queue
<1> QED BY <1>1, <1>2, <1>3, <1>4, <1>6, <1>7 DEF Tables, j

LEMMA NoteNonceLowRow ==
    ASSUME BaseInv, NoteNonceLow
    PROVE  LET j == work.job
           IN  /\ j \in Jobs /\ Tables(j) /\ next' \in Nat
               /\ \/ Settles(j) /\ \E i \in Receipts(j) : chain[i].ok
                  \/ Carries(j)
                  \/ Fails(j) /\ \E i \in Receipts(j) : ~chain[i].ok
<1> DEFINE j == work.job
<1>1. j \in Jobs /\ job[j].status \in IN_FLIGHT
  BY DEF NoteNonceLow, BaseInv, WorkerHolds
<1>2. next' \in Nat
  BY PendingNoncesNat DEF NoteNonceLow, resync, BaseInv
<1>3. _nonce_consumed(j)
  BY DEF NoteNonceLow
<1> HIDE DEF j
<1>4. ASSUME NEW i \in Receipts(j), _apply_receipt(j, i)
      PROVE  /\ Tables(j)
             /\ (Settles(j) /\ chain[i].ok) \/ Carries(j) \/ (Fails(j) /\ ~chain[i].ok)
  BY <1>1, <1>4, ReceiptRow
<1>5. ASSUME job' = [job EXCEPT ![j].status = "sent", ![j].consumed = IF @ = None THEN Len(chain) ELSE @],
             UNCHANGED order
      PROVE  Tables(j) /\ Carries(j)
  <2> DEFINE c == IF job[j].consumed = None THEN Len(chain) ELSE job[j].consumed
  <2>1. job \in [Jobs -> JobRow]
    BY DEF BaseInv, TypeOK
  <2>2. job' = [job EXCEPT ![j] = [job[j] EXCEPT !.status = "sent", !.attempts = job[j].attempts,
                                                 !.consumed = c]]
    BY <1>1, <1>5, <2>1 DEF JobRow
  <2>3. c \in {job[j].consumed, None, Len(chain)} /\ job[j].attempts \in 0..MaxAttempts /\ "sent" \in IN_FLIGHT
    BY <1>1, <2>1 DEF JobRow, IN_FLIGHT
  <2>4. UNCHANGED order
    BY <1>5
  <2>5. \E x \in {job[j].consumed, None, Len(chain)} :
          job' = [job EXCEPT ![j] = [job[j] EXCEPT !.status = "sent", !.attempts = job[j].attempts, !.consumed = x]]
    BY <2>2, <2>3
  <2> QED BY <1>1, <2>3, <2>4, <2>5, CarriedRow
<1>6. Tables(j) /\ \/ Settles(j) /\ \E i \in Receipts(j) : chain[i].ok
                   \/ Carries(j)
                   \/ Fails(j) /\ \E i \in Receipts(j) : ~chain[i].ok
  BY <1>3, <1>4, <1>5 DEF _nonce_consumed
<1> QED BY <1>1, <1>2, <1>6 DEF j

LEMMA NoteSentRow ==
    ASSUME BaseInv, NoteSent
    PROVE  LET j == work.job
           IN  j \in Jobs /\ Tables(j) /\ Carries(j) /\ job'[j].consumed = job[j].consumed
<1> DEFINE j == work.job
           r == [job[j] EXCEPT !.status = "sent", !.attempts = Attempted(j), !.consumed = job[j].consumed]
<1>1. j \in Jobs /\ job[j].status \in IN_FLIGHT
  BY DEF NoteSent, BaseInv, WorkerHolds
<1>2. job \in [Jobs -> JobRow] /\ Attempted(j) \in 0..MaxAttempts /\ "sent" \in IN_FLIGHT
  BY <1>1, AttemptedType DEF BaseInv, TypeOK, IN_FLIGHT
<1>3. job' = [job EXCEPT ![j] = r] /\ UNCHANGED order
  BY <1>1, <1>2 DEF NoteSent, JobRow
<1>4. Tables(j) /\ Carries(j)
  <2> HIDE DEF j
  <2> QED BY <1>1, <1>2, <1>3, CarriedRow
<1>5. job'[j].consumed = job[j].consumed
  BY <1>1, <1>2, <1>3 DEF JobRow
<1> QED BY <1>1, <1>4, <1>5

LEMMA NoteRefusedRow ==
    ASSUME BaseInv, NoteRefused
    PROVE  LET j == work.job
           IN  j \in Jobs /\ Tables(j) /\ Releases(j) /\ next' \in Nat \cup {None}
<1>1. work.job \in Jobs /\ job[work.job].status \in IN_FLIGHT
  BY DEF NoteRefused, BaseInv, WorkerHolds
<1>2. job[work.job].nonce \in Nat
  BY <1>1 DEF BaseInv, TypeOK, JobRow
<1>3. next' \in Nat \cup {None}
  BY <1>1, <1>2, PendingNoncesNat DEF NoteRefused, resync, BaseInv, TypeOK
<1> QED BY <1>1, <1>3, BackToPending DEF NoteRefused

LEMMA NoteUnknownRow ==
    ASSUME BaseInv, NoteUnknown
    PROVE  LET j == work.job
           IN  j \in Jobs /\ Tables(j) /\ Carries(j) /\ job'[j].consumed = job[j].consumed
<1> DEFINE j == work.job
           r == [job[j] EXCEPT !.status = job[j].status, !.attempts = Attempted(j), !.consumed = job[j].consumed]
<1>1. j \in Jobs /\ job[j].status \in IN_FLIGHT
  BY DEF NoteUnknown, BaseInv, WorkerHolds
<1>2. job \in [Jobs -> JobRow] /\ Attempted(j) \in 0..MaxAttempts
  BY <1>1, AttemptedType DEF BaseInv, TypeOK, IN_FLIGHT
<1>3. job' = [job EXCEPT ![j] = r] /\ UNCHANGED order
  BY <1>1, <1>2 DEF NoteUnknown, JobRow
<1>4. Tables(j) /\ Carries(j)
  <2> HIDE DEF j
  <2> QED BY <1>1, <1>2, <1>3, CarriedRow
<1>5. job'[j].consumed = job[j].consumed
  BY <1>1, <1>2, <1>3 DEF JobRow
<1> QED BY <1>1, <1>4, <1>5

LEMMA NoteRebroadcastRow ==
    ASSUME BaseInv, NoteRebroadcast
    PROVE  LET j == work.job
           IN  j \in Jobs /\ Tables(j) /\ Carries(j) /\ job'[j].consumed = job[j].consumed
<1> DEFINE j == work.job
           Row(s, a) == [job[j] EXCEPT !.status = s, !.attempts = a, !.consumed = job[j].consumed]
<1>1. j \in Jobs /\ job[j].status \in IN_FLIGHT
  BY DEF NoteRebroadcast, BaseInv, WorkerHolds
<1>2. /\ job \in [Jobs -> JobRow] /\ Attempted(j) \in 0..MaxAttempts /\ job[j].attempts \in 0..MaxAttempts
      /\ "sent" \in IN_FLIGHT /\ UNCHANGED order
  BY SMTT(60), <1>1, AttemptedType DEF BaseInv, TypeOK, IN_FLIGHT, JobRow, NoteRebroadcast
<1>3. \E s \in IN_FLIGHT, a \in 0..MaxAttempts : job' = [job EXCEPT ![j] = Row(s, a)]
  <2>1. work.kind \in {"ok", "underpriced", "insufficient_funds", "transient"}
    BY DEF NoteRebroadcast, BaseInv, TypeOK, Work, Kinds
  <2>2. CASE work.kind \in {"ok", "underpriced"}
    <3>1. job' = [job EXCEPT ![j] = Row("sent", job[j].attempts)]
      BY <1>1, <1>2, <2>2 DEF NoteRebroadcast, JobRow
    <3> QED BY <1>2, <3>1
  <2>3. CASE work.kind = "insufficient_funds"
    <3>1. job' = [job EXCEPT ![j] = Row(job[j].status, job[j].attempts)]
      BY <1>1, <1>2, <2>3 DEF NoteRebroadcast, JobRow
    <3> QED BY <1>1, <1>2, <3>1
  <2>4. CASE work.kind = "transient"
    <3> DEFINE s == IF Attempted(j) >= MaxAttempts THEN "sent" ELSE job[j].status
    <3>1. job' = [job EXCEPT ![j] = Row(s, Attempted(j))]
      BY <1>1, <1>2, <2>4 DEF NoteRebroadcast, JobRow
    <3> QED BY <1>1, <1>2, <3>1
  <2> QED BY <2>1, <2>2, <2>3, <2>4
<1>4. PICK s \in IN_FLIGHT, a \in 0..MaxAttempts : job' = [job EXCEPT ![j] = Row(s, a)]
  BY <1>3
<1>5. Tables(j) /\ Carries(j)
  <2> HIDE DEF j
  <2> QED BY <1>1, <1>2, <1>4, CarriedRow
<1>6. job'[j].consumed = job[j].consumed
  BY <1>1, <1>2, <1>4 DEF JobRow
<1> QED BY <1>1, <1>5, <1>6

LEMMA ReconcileReceiptRow ==
    ASSUME BaseInv, NEW j \in Jobs, ReconcileReceipt(j)
    PROVE  /\ Tables(j)
           /\ \/ Settles(j) /\ \E i \in Receipts(j) : chain[i].ok
              \/ Carries(j) /\ job'[j].consumed = job[j].consumed
              \/ Fails(j) /\ \E i \in Receipts(j) : ~chain[i].ok
<1>1. PICK i \in Receipts(j) : _apply_receipt(j, i)
  BY DEF ReconcileReceipt
<1>2. job[j].status \in IN_FLIGHT
  BY DEF ReconcileReceipt
<1> QED BY <1>1, <1>2, ReceiptRow

LEMMA BumpRow ==
    ASSUME BaseInv, NEW j \in Jobs, Bump(j)
    PROVE  Tables(j) /\ Carries(j) /\ job'[j].consumed = job[j].consumed
<1> DEFINE r == [job[j] EXCEPT !.status = job[j].status, !.attempts = Attempted(j), !.consumed = job[j].consumed]
<1>1. job[j].status \in IN_FLIGHT
  BY DEF Bump, Unmined, IN_FLIGHT
<1>2. job \in [Jobs -> JobRow] /\ Attempted(j) \in 0..MaxAttempts
  BY <1>1, AttemptedType DEF BaseInv, TypeOK, IN_FLIGHT
<1>3. job' = [job EXCEPT ![j] = r] /\ UNCHANGED order
  BY <1>1, <1>2 DEF Bump, JobRow
<1>4. Tables(j) /\ Carries(j)
  BY <1>1, <1>2, <1>3, CarriedRow
<1>5. job'[j].consumed = job[j].consumed
  BY <1>1, <1>2, <1>3 DEF JobRow
<1> QED BY <1>1, <1>4, <1>5

LEMMA ConsumedRow ==
    ASSUME BaseInv, NEW j \in Jobs, job[j].status = "sent", NEW c \in {None, Len(chain)},
           job' = [job EXCEPT ![j].consumed = c], UNCHANGED order
    PROVE  Tables(j) /\ Carries(j)
<1>1. job[j].status \in IN_FLIGHT
  BY DEF IN_FLIGHT
<1>2. job \in [Jobs -> JobRow] /\ job[j].attempts \in 0..MaxAttempts
  BY DEF BaseInv, TypeOK, JobRow
<1>3. job' = [job EXCEPT ![j] = [job[j] EXCEPT !.status = job[j].status, !.attempts = job[j].attempts,
                                               !.consumed = c]]
  BY <1>1, <1>2 DEF JobRow
<1> QED BY ZenonT(60), <1>1, <1>2, <1>3, CarriedRow
----------------------------------------------------------------------------
LEMMA IdleType == Idle \in Work /\ Idle.at = "idle"
  BY DEF Idle, Work, Kinds, NoJob

(* The worker's steps keep the base invariant.                             *)
LEMMA BaseWorker == ASSUME BaseInv, WorkerStep PROVE BaseInv'
<1> USE DEF chainVars, apiVars
<1>a. next \in Nat \cup {None} /\ work \in Work /\ seen \in 0..Len(chain) /\ CancelOK(cancel)
  BY DEF BaseInv, TypeOK
<1>b. ASSUME work.at # "idle" PROVE work.job \in Jobs /\ job[work.job].status # "none"
  BY <1>b DEF BaseInv, WorkerHolds
<1>1. ASSUME SendConfirm PROVE BaseInv'
  BY <1>1, <1>a, <1>b, SendConfirmRow, BaseRow, IdleType DEF SendConfirm, Moves
<1>2. ASSUME SendPreflight PROVE BaseInv'
  <2>1. work' \in Work /\ work'.at = "clear" /\ work'.job = work.job
    BY <1>2, <1>a DEF SendPreflight, Work
  <2> QED BY <1>2, <1>a, <1>b, <2>1, BaseQuiet DEF SendPreflight
<1>3. ASSUME SendFail PROVE BaseInv'
  BY <1>3, <1>a, <1>b, SendFailRow, BaseRow, IdleType DEF SendFail, Moves
<1>4. ASSUME SendRetry PROVE BaseInv'
  BY <1>4, <1>a, <1>b, SendRetryRow, BaseRow, IdleType DEF SendRetry, Moves
<1>5. ASSUME SendDefer PROVE BaseInv'
  BY <1>5, <1>a, <1>b, BaseQuiet, IdleType DEF SendDefer
<1>6. ASSUME NEW p \in PendingNonces, SendClaim(p) PROVE BaseInv'
  <2>1. work' \in Work /\ work'.job = work.job
    BY <1>6, <1>a DEF SendClaim, Work
  <2>2. Claims(work.job) => job'[work.job].status \in IN_FLIGHT
    BY DEF Claims, IN_FLIGHT
  <2>3. Tables(work.job) /\ Claims(work.job) /\ next' \in Nat
    BY <1>6, SendClaimRow
  <2> QED BY <1>6, <1>a, <1>b, <2>1, <2>2, <2>3, BaseRow DEF SendClaim, Moves
<1>7. ASSUME NEW kind \in Kinds, Broadcast(kind) PROVE BaseInv'
  <2>1. work' \in Work /\ work'.at = "note" /\ work'.job = work.job
    BY <1>7, <1>a DEF Broadcast, Work
  <2>2. job[work.job].status \in IN_FLIGHT
    BY <1>7 DEF Broadcast, BaseInv, WorkerHolds
  <2>3. pool' \subseteq Tx
    <3>1. job[work.job].nonce \in Nat
      BY <1>7, <1>b, <2>2 DEF Broadcast, BaseInv, TypeOK, JobRow
    <3>2. [job |-> work.job, nonce |-> job[work.job].nonce] \in Tx
      BY <1>7, <1>b, <3>1 DEF Broadcast, Tx
    <3> QED BY <1>7, <3>2 DEF Broadcast, Pooled, BaseInv, TypeOK, Kinds
  <2>4. UNCHANGED <<dbVars, apiVars, next, chain, account, seen, foreign>>
    BY <1>7 DEF Broadcast
  <2>5. TypeOK'
    BY <2>1, <2>3, <2>4 DEF BaseInv, TypeOK, dbVars
  <2>6. RowsOwned' /\ WorkerHolds'
    BY <1>7, <1>b, <2>1, <2>2, <2>4 DEF BaseInv, RowsOwned, WorkerHolds, dbVars, Broadcast, IN_FLIGHT
  <2> QED BY <2>4, <2>5, <2>6 DEF BaseInv
<1>8. ASSUME NoteNonceLow PROVE BaseInv'
  BY <1>8, <1>a, <1>b, NoteNonceLowRow, BaseRow, IdleType DEF NoteNonceLow, Moves
<1>9. ASSUME NoteSent PROVE BaseInv'
  BY <1>9, <1>a, <1>b, NoteSentRow, BaseRow, IdleType DEF NoteSent, Moves
<1>10. ASSUME NoteRefused PROVE BaseInv'
  BY <1>10, <1>a, <1>b, NoteRefusedRow, BaseRow, IdleType DEF NoteRefused, Moves
<1>11. ASSUME NoteUnknown PROVE BaseInv'
  BY <1>11, <1>a, <1>b, NoteUnknownRow, BaseRow, IdleType DEF NoteUnknown, Moves
<1>12. ASSUME NoteRebroadcast PROVE BaseInv'
  BY <1>12, <1>a, <1>b, NoteRebroadcastRow, BaseRow, IdleType DEF NoteRebroadcast, Moves
<1>13. ASSUME NoteResend PROVE BaseInv'
  BY <1>13, <1>a, <1>b, BaseQuiet, IdleType DEF NoteResend
<1>14. ASSUME NEW j \in Jobs, SendLanded(j) PROVE BaseInv'
  <2>1. work' \in Work /\ work'.at = "landed" /\ work'.job = j
    BY <1>14 DEF SendLanded, Work, Idle, Kinds
  <2> QED BY <1>14, <1>a, <2>1, BaseQuiet DEF SendLanded
<1>15. ASSUME NEW j \in Jobs, SendCancelled(j) PROVE BaseInv'
  BY <1>15, <1>a, SendCancelledRow, BaseRow, IdleType DEF SendCancelled, Moves
<1>16. ASSUME NEW j \in Jobs, SendCheck(j) PROVE BaseInv'
  <2>1. work' \in Work /\ work'.at = "check" /\ work'.job = j
    BY <1>16 DEF SendCheck, Work, Idle, Kinds
  <2> QED BY <1>16, <1>a, <2>1, BaseQuiet DEF SendCheck
<1>17. ASSUME NEW j \in Jobs, ReconcileReceipt(j) PROVE BaseInv'
  <2>1. job[j].status # "none"
    BY <1>17 DEF ReconcileReceipt, IN_FLIGHT
  <2> QED BY <1>17, <1>a, <2>1, ReconcileReceiptRow, BaseRow, IdleType DEF ReconcileReceipt, Moves
<1>18. ASSUME NEW j \in Jobs, Rebroadcast(j) PROVE BaseInv'
  <2>1. work' \in Work /\ work'.at = "cast" /\ work'.job = j
    BY <1>18 DEF Rebroadcast, Work, Idle, Kinds
  <2> QED BY <1>18, <1>a, <2>1, BaseQuiet DEF Rebroadcast, IN_FLIGHT
<1>19. ASSUME NEW j \in Jobs, Bump(j) PROVE BaseInv'
  <2>1. work' \in Work /\ work'.at = "cast" /\ work'.job = j
    BY <1>19 DEF Bump, Work, Idle, Kinds
  <2>2. Carries(j) => job'[j].status \in IN_FLIGHT /\ job[j].status # "none"
    BY DEF Carries, IN_FLIGHT
  <2> QED BY <1>19, <1>a, <2>1, <2>2, BumpRow, BaseRow DEF Bump, Moves
<1>20. ASSUME NEW j \in Jobs, Stuck(j) PROVE BaseInv'
  <2>1. work' \in Work /\ work'.at = "cast" /\ work'.job = j
    BY <1>20 DEF Stuck, Work, Idle, Kinds
  <2> QED BY <1>20, <1>a, <2>1, BaseQuiet DEF Stuck, Unmined, IN_FLIGHT
<1>21. ASSUME NEW j \in Jobs, SettleNotMined(j) PROVE BaseInv'
  BY <1>21, <1>a, ConsumedRow, BaseRow, IdleType DEF SettleNotMined, Settling, Moves
<1>22. ASSUME NEW j \in Jobs, SettleLanded(j) PROVE BaseInv'
  BY <1>22, <1>a, Confirms, BaseRow, IdleType DEF SettleLanded, Settling, Moves
<1>23. ASSUME NEW j \in Jobs, SettleMaybe(j) PROVE BaseInv'
  BY <1>23, <1>a, ConsumedRow, BaseRow, IdleType DEF SettleMaybe, Settling, Moves
<1>24. ASSUME NEW j \in Jobs, SettleAbsent(j) PROVE BaseInv'
  <2>1. job[j].status \in IN_FLIGHT /\ job[j].status # "none" /\ work' \in Work /\ work'.at = "idle"
    BY <1>24, IdleType DEF SettleAbsent, Settling, IN_FLIGHT
  <2>2. Tables(j) /\ Releases(j)
    BY <1>24, <2>1, BackToPending DEF SettleAbsent
  <2>3. next' \in Nat
    BY <1>24, PendingNoncesNat DEF SettleAbsent, resync, BaseInv
  <2> QED BY <1>24, <1>a, <2>1, <2>2, <2>3, BaseRow DEF SettleAbsent, Moves
<1> QED BY <1>1, <1>2, <1>3, <1>4, <1>5, <1>6, <1>7, <1>8, <1>9, <1>10, <1>11, <1>12, <1>13, <1>14,
           <1>15, <1>16, <1>17, <1>18, <1>19, <1>20, <1>21, <1>22, <1>23, <1>24 DEF WorkerStep

(* So do the requests of the API ...                                       *)
LEMMA PostRows ==
    ASSUME BaseInv, NEW o \in OrderIds, post_order(o)
    PROVE  /\ order' \in Orders /\ job' \in Queue
           /\ \A j \in Jobs : job'[j] = job[j] \/ Opens(job[j], job'[j])
<1> DEFINE ord == [order EXCEPT ![o].posted = TRUE]
<1>1. ord \in Orders /\ job \in Queue
  BY DEF BaseInv, TypeOK, Orders, OrderRow, Queue
<1>2. order' = MatchedOrders(ord, o) /\ job' = MatchedJobs(ord, job, o)
  BY DEF post_order
<1> HIDE DEF ord
<1> QED BY <1>1, <1>2, MatchedOrdersType, MatchedJobsType

LEMMA CommitRows ==
    ASSUME BaseInv, cancel_commit
    PROVE  LET undone == {j \in cancel.jobs : job[j].status = "pending"}
           IN  /\ order' \in Orders /\ job' \in Queue
               /\ \A j \in undone : job'[j] = [job[j] EXCEPT !.status = "cancelled"]
               /\ \A j \in Jobs \ undone : job'[j] = job[j]
<1> DEFINE undone == {j \in cancel.jobs : job[j].status = "pending"}
           ord == [order EXCEPT ![cancel.order].cancelled = TRUE]
<1>1. ord \in Orders /\ job \in Queue /\ undone \in SUBSET Jobs /\ "cancelled" \in Statuses
  BY DEF BaseInv, TypeOK, Orders, OrderRow, Queue, Statuses, TERMINAL
<1>2. order' = Lowered(ord, undone) /\ job' = WithStatus(job, undone, "cancelled")
  BY DEF cancel_commit
<1> HIDE DEF ord, undone
<1>3. order' \in Orders /\ job' \in Queue
  BY <1>1, <1>2, LoweredType, WithStatusType
<1>4. /\ \A j \in undone : job'[j] = [job[j] EXCEPT !.status = "cancelled"]
      /\ \A j \in Jobs \ undone : job'[j] = job[j]
  BY <1>1, <1>2 DEF WithStatus
<1> QED BY <1>3, <1>4 DEF undone

LEMMA BaseAPI ==
    ASSUME BaseInv, (\E o \in OrderIds : post_order(o) \/ cancel_read(o)) \/ cancel_commit
    PROVE  BaseInv'
<1> USE DEF chainVars, apiVars
<1>1. ASSUME NEW o \in OrderIds, post_order(o) PROVE BaseInv'
  <2>1. /\ order' \in Orders /\ job' \in Queue
        /\ \A j \in Jobs : job'[j] = job[j] \/ Opens(job[j], job'[j])
    BY <1>1, PostRows
  <2>2. ASSUME NEW k \in Jobs
        PROVE  /\ job'[k].status \in IN_FLIGHT => job'[k].nonce # None /\ job'[k].signed
               /\ job'[k].status # "none" => job'[k].taker \in OrderIds /\ job'[k].maker \in OrderIds
               /\ job[k].status # "none" => job'[k].status = job[k].status
    BY <2>1 DEF BaseInv, TypeOK, RowsOwned, Opens, IN_FLIGHT
  <2>3. TypeOK'
    BY <1>1, <2>1, <2>2 DEF post_order, BaseInv, TypeOK, Orders, Queue
  <2>4. RowsOwned' /\ WorkerHolds'
    BY <1>1, <2>2 DEF post_order, BaseInv, RowsOwned, WorkerHolds
  <2> QED BY <1>1, <2>3, <2>4 DEF post_order, BaseInv
<1>2. ASSUME NEW o \in OrderIds, cancel_read(o) PROVE BaseInv'
  <2>1. CancelOK(cancel')
    <3> DEFINE jobs == {j \in Jobs : job[j].status # "none" /\ Touches(j, o)}
    <3>1. PICK e \in BOOLEAN : cancel' = [order |-> o, jobs |-> jobs, exposed |-> e]
      <4> DEFINE unsent == {j \in jobs : job[j].status = "pending" /\ ~job[j].signed}
                 e == \/ order[o].filled - Fills(job, unsent) > 0
                      \/ \E j \in jobs : job[j].signed \/ job[j].status \in IN_FLIGHT \cup {"confirmed"}
      <4>1. cancel' = [order |-> o, jobs |-> jobs, exposed |-> e]
        BY <1>2 DEF cancel_read
      <4>2. e \in BOOLEAN
        BY Zenon
      <4> QED BY <4>1, <4>2
    <3> QED BY <3>1 DEF CancelOK
  <2>2. UNCHANGED <<dbVars, answered, next, work, chainVars>>
    BY <1>2 DEF cancel_read
  <2>3. \/ work'.at = "idle"
        \/ /\ work'.job \in Jobs /\ job[work'.job].status # "none"
           /\ work'.at \in {"cast", "note"} => job[work'.job].status \in IN_FLIGHT
    BY <2>2 DEF BaseInv, WorkerHolds
  <2> QED BY <2>1, <2>2, <2>3, BaseQuiet DEF BaseInv, TypeOK
<1>3. ASSUME cancel_commit PROVE BaseInv'
  <2> DEFINE undone == {j \in cancel.jobs : job[j].status = "pending"}
  <2>1. /\ order' \in Orders /\ job' \in Queue
        /\ \A j \in undone : job'[j] = [job[j] EXCEPT !.status = "cancelled"]
        /\ \A j \in Jobs \ undone : job'[j] = job[j]
    BY <1>3, CommitRows
  <2>2. ASSUME NEW k \in Jobs
        PROVE  /\ job'[k].status \in IN_FLIGHT => job'[k].nonce # None /\ job'[k].signed
               /\ job'[k].status # "none" => job'[k].taker \in OrderIds /\ job'[k].maker \in OrderIds
               /\ job[k].status # "none" => job'[k].status # "none"
               /\ job[k].status \in IN_FLIGHT => job'[k].status \in IN_FLIGHT
    <3>1. job[k] \in JobRow
      BY DEF BaseInv, TypeOK
    <3>2. CASE k \in undone
      <4>1. job'[k].status = "cancelled" /\ job'[k].taker = job[k].taker /\ job'[k].maker = job[k].maker
        BY <2>1, <3>1, <3>2 DEF JobRow
      <4> QED BY <3>2, <4>1 DEF BaseInv, RowsOwned, IN_FLIGHT
    <3>3. CASE k \notin undone
      BY <2>1, <3>3 DEF BaseInv, TypeOK, RowsOwned
    <3> QED BY <3>2, <3>3
  <2>3. answered' \subseteq [order : OrderIds, jobs : SUBSET Jobs]
    BY <1>3 DEF cancel_commit, BaseInv, TypeOK, CancelOK
  <2>4. CancelOK(cancel') /\ cancel' = NoCancel
    BY <1>3 DEF cancel_commit, CancelOK, NoCancel
  <2>5. UNCHANGED <<next, work, chainVars>>
    BY <1>3 DEF cancel_commit
  <2>6. TypeOK'
    BY <2>1, <2>2, <2>3, <2>4, <2>5 DEF BaseInv, TypeOK, Orders, Queue, CancelOK
  <2>7. RowsOwned' /\ WorkerHolds'
    BY <2>2, <2>5 DEF BaseInv, RowsOwned, WorkerHolds
  <2> QED BY <2>4, <2>6, <2>7 DEF BaseInv
<1> QED BY <1>1, <1>2, <1>3

(* ... and the steps of the nodes.                                         *)
LEMMA MinedByType ==
    ASSUME TypeOK, NEW t \in pool, NEW ok \in BOOLEAN
    PROVE  MinedBy(t, ok) \in Event
<1>1. t \in Tx
  BY DEF TypeOK
<1>2. CASE t.job = NoJob
  BY <1>1, <1>2 DEF MinedBy, Event, Tx, None
<1>3. CASE t.job # NoJob
  <2>1. t.job \in Jobs /\ job[t.job] \in JobRow
    BY <1>1, <1>3 DEF Tx, TypeOK
  <2> QED BY <1>1, <1>3, <2>1 DEF MinedBy, Event, Tx, JobRow
<1> QED BY <1>2, <1>3

LEMMA BaseChain == ASSUME BaseInv, ChainStep PROVE BaseInv'
<1> USE DEF apiVars, dbVars
<1>1. ASSUME NEW t \in pool, NEW ok \in BOOLEAN, Mine(t, ok) PROVE BaseInv'
  <2>1. chain' \in Seq(Event) /\ Len(chain') = Len(chain) + 1
    BY <1>1, MinedByType, AppendProperties DEF Mine, BaseInv, TypeOK
  <2> QED BY <1>1, <2>1 DEF Mine, BaseInv, TypeOK, RowsOwned, WorkerHolds
<1>2. ASSUME NEW n \in PendingNonces, ForeignSend(n) PROVE BaseInv'
  <2>1. [job |-> NoJob, nonce |-> n] \in Tx
    BY PendingNoncesNat DEF Tx, BaseInv
  <2> QED BY <1>2, <2>1, BoundsAssumption DEF ForeignSend, BaseInv, TypeOK, RowsOwned, WorkerHolds
<1>3. ASSUME NEW t \in pool, Evict(t) PROVE BaseInv'
  BY <1>3 DEF Evict, BaseInv, TypeOK, RowsOwned, WorkerHolds
<1>4. ASSUME NEW t \in OrderIds, NEW m \in OrderIds, ExternalFill(t, m, 1) PROVE BaseInv'
  <2>1. [nonce |-> None, job |-> NoJob, ok |-> TRUE, taker |-> t, maker |-> m, fill |-> 1] \in Event
    BY DEF Event
  <2>2. chain' \in Seq(Event) /\ Len(chain') = Len(chain) + 1
    BY <1>4, <2>1, AppendProperties DEF ExternalFill, BaseInv, TypeOK
  <2> QED BY <1>4, <2>2 DEF ExternalFill, BaseInv, TypeOK, RowsOwned, WorkerHolds
<1>5. ASSUME NEW k \in (seen + 1)..Len(chain), CatchUp(k) PROVE BaseInv'
  BY <1>5 DEF CatchUp, BaseInv, TypeOK, RowsOwned, WorkerHolds
<1> QED BY <1>1, <1>2, <1>3, <1>4, <1>5 DEF ChainStep

LEMMA BaseStep == BaseInv /\ [Next]_vars => BaseInv'
<1> SUFFICES ASSUME BaseInv, [Next]_vars PROVE BaseInv'
  OBVIOUS
<1>1. ASSUME _ensure_leader PROVE BaseInv'
  BY <1>1, BaseQuiet, IdleType DEF _ensure_leader, BaseInv, TypeOK, apiVars, chainVars
<1>2. ASSUME Crash PROVE BaseInv'
  <2>1. CancelOK(cancel')
    <3>1. cancel' = cancel \/ cancel' = NoCancel
      BY <1>2 DEF Crash
    <3>2. CancelOK(NoCancel)
      BY DEF CancelOK, NoCancel
    <3>3. CancelOK(cancel)
      BY DEF BaseInv
    <3> QED BY <3>1, <3>2, <3>3
  <2> QED BY <1>2, <2>1, BaseQuiet, IdleType DEF Crash, BaseInv, TypeOK, chainVars
<1>3. CASE UNCHANGED vars
  BY <1>3 DEF vars, BaseInv, TypeOK, RowsOwned, WorkerHolds
<1> QED BY <1>1, <1>2, <1>3, BaseAPI, BaseWorker, BaseChain DEF Next

LEMMA BaseHolds == Spec => []BaseInv
  BY BaseInit, BaseStep, PTL DEF Spec

(* The orders and relay_jobs tables, the worker and the chain keep their   *)
(* types: no fill of an order goes below zero, whatever is matched, rolled *)
(* back and resynced, and a job in flight has its nonce on record.         *)
THEOREM RelayerTypeCorrect == Spec => []TypeOK
<1>1. BaseInv => TypeOK
  BY DEF BaseInv
<1> QED BY <1>1, BaseHolds, PTL
----------------------------------------------------------------------------
(* DELETE /orders.  The jobs of a request that saw nothing exposed stay    *)
(* unsigned while it holds their locks, and afterwards they are no longer  *)
(* pending, so that no claim finds them.                                   *)
AnswerInv ==
    /\ \A a \in answered : \A j \in a.jobs : ~job[j].signed /\ job[j].status \notin {"none", "pending"}
    /\ ~cancel.exposed => \A j \in cancel.jobs : ~job[j].signed /\ job[j].status # "none"

LEMMA AnswerRow ==
    ASSUME BaseInv, AnswerInv, UNCHANGED apiVars, NEW j \in Jobs, Tables(j), Moves(j), Unlocked(j)
    PROVE  AnswerInv'
<1>1. ASSUME NEW k \in Jobs, ~job[k].signed, job[k].status \notin {"none", "pending"}
      PROVE  ~job'[k].signed /\ job'[k].status \notin {"none", "pending"}
  <2>1. job[k].status \notin IN_FLIGHT
    BY <1>1 DEF BaseInv, TypeOK
  <2>2. CASE k = j
    BY <1>1, <2>1, <2>2 DEF Moves, Withdraws, Retries, Claims, Releases, Carries, Settles, Fails, Keeps
  <2>3. CASE k # j
    BY <1>1, <2>3 DEF Tables, Opens
  <2> QED BY <2>2, <2>3
<1>2. ASSUME NEW k \in Jobs \ {j}, ~job[k].signed, job[k].status # "none"
      PROVE  ~job'[k].signed /\ job'[k].status # "none"
  BY <1>2 DEF Tables, Opens
<1>3. (\A a \in answered : a.jobs \subseteq Jobs) /\ cancel.jobs \subseteq Jobs \ {j}
  BY DEF BaseInv, TypeOK, Unlocked
<1> QED BY <1>1, <1>2, <1>3 DEF AnswerInv, apiVars

LEMMA AnswerQuiet ==
    ASSUME AnswerInv, UNCHANGED <<job, answered>>, cancel' \in {cancel, NoCancel}
    PROVE  AnswerInv'
<1>1. NoCancel.jobs = {}
  BY DEF NoCancel
<1> QED BY <1>1 DEF AnswerInv

LEMMA AnswerWorker == ASSUME BaseInv, AnswerInv, WorkerStep PROVE AnswerInv'
<1> USE DEF apiVars, dbVars, Moves
<1>1. ASSUME SendConfirm PROVE AnswerInv'
  BY <1>1, SendConfirmRow, AnswerRow DEF SendConfirm
<1>2. ASSUME SendPreflight \/ SendDefer \/ NoteResend PROVE AnswerInv'
  BY <1>2, AnswerQuiet DEF SendPreflight, SendDefer, NoteResend
<1>3. ASSUME SendFail PROVE AnswerInv'
  BY <1>3, SendFailRow, AnswerRow DEF SendFail
<1>4. ASSUME SendRetry PROVE AnswerInv'
  BY SMTT(60), <1>4, SendRetryRow, AnswerRow DEF SendRetry
<1>5. ASSUME NEW p \in PendingNonces, SendClaim(p) PROVE AnswerInv'
  BY <1>5, SendClaimRow, AnswerRow DEF SendClaim
<1>6. ASSUME NEW kind \in Kinds, Broadcast(kind) PROVE AnswerInv'
  BY <1>6, AnswerQuiet DEF Broadcast
<1>7. ASSUME NoteNonceLow PROVE AnswerInv'
  BY <1>7, NoteNonceLowRow, AnswerRow DEF NoteNonceLow
<1>8. ASSUME NoteSent PROVE AnswerInv'
  BY <1>8, NoteSentRow, AnswerRow DEF NoteSent
<1>9. ASSUME NoteRefused PROVE AnswerInv'
  BY <1>9, NoteRefusedRow, AnswerRow DEF NoteRefused
<1>10. ASSUME NoteUnknown PROVE AnswerInv'
  BY <1>10, NoteUnknownRow, AnswerRow DEF NoteUnknown
<1>11. ASSUME NoteRebroadcast PROVE AnswerInv'
  BY <1>11, NoteRebroadcastRow, AnswerRow DEF NoteRebroadcast
<1>12. ASSUME NEW j \in Jobs, SendLanded(j) \/ SendCheck(j) \/ Rebroadcast(j) \/ Stuck(j) PROVE AnswerInv'
  BY <1>12, AnswerQuiet DEF SendLanded, SendCheck, Rebroadcast, Stuck
<1>13. ASSUME NEW j \in Jobs, SendCancelled(j) PROVE AnswerInv'
  BY <1>13, SendCancelledRow, AnswerRow DEF SendCancelled
<1>14. ASSUME NEW j \in Jobs, ReconcileReceipt(j) PROVE AnswerInv'
  BY <1>14, ReconcileReceiptRow, AnswerRow DEF ReconcileReceipt
<1>15. ASSUME NEW j \in Jobs, Bump(j) PROVE AnswerInv'
  BY <1>15, BumpRow, AnswerRow DEF Bump
<1>16. ASSUME NEW j \in Jobs, SettleNotMined(j) \/ SettleMaybe(j) PROVE AnswerInv'
  BY <1>16, ConsumedRow, AnswerRow DEF SettleNotMined, SettleMaybe, Settling
<1>17. ASSUME NEW j \in Jobs, SettleLanded(j) PROVE AnswerInv'
  BY <1>17, Confirms, AnswerRow DEF SettleLanded, Settling
<1>18. ASSUME NEW j \in Jobs, SettleAbsent(j) PROVE AnswerInv'
  BY <1>18, BackToPending, AnswerRow DEF SettleAbsent, Settling, IN_FLIGHT
<1> QED BY <1>1, <1>2, <1>3, <1>4, <1>5, <1>6, <1>7, <1>8, <1>9, <1>10, <1>11, <1>12, <1>13,
           <1>14, <1>15, <1>16, <1>17, <1>18 DEF WorkerStep

LEMMA AnswerStep == BaseInv /\ AnswerInv /\ [Next]_vars => AnswerInv'
<1> SUFFICES ASSUME BaseInv, AnswerInv, [Next]_vars PROVE AnswerInv'
  OBVIOUS
<1>a. (\A a \in answered : a.jobs \subseteq Jobs) /\ cancel.jobs \subseteq Jobs
  BY DEF BaseInv, TypeOK
<1>1. ASSUME NEW o \in OrderIds, post_order(o) PROVE AnswerInv'
  <2>1. \A j \in Jobs : job'[j] = job[j] \/ Opens(job[j], job'[j])
    BY <1>1, PostRows
  <2> QED BY <1>1, <1>a, <2>1 DEF post_order, AnswerInv, Opens, apiVars
<1>2. ASSUME NEW o \in OrderIds, cancel_read(o) PROVE AnswerInv'
  <2> DEFINE jobs == {j \in Jobs : job[j].status # "none" /\ Touches(j, o)}
             unsent == {j \in jobs : job[j].status = "pending" /\ ~job[j].signed}
             e == \/ order[o].filled - Fills(job, unsent) > 0
                  \/ \E j \in jobs : job[j].signed \/ job[j].status \in IN_FLIGHT \cup {"confirmed"}
  <2>1. cancel' = [order |-> o, jobs |-> jobs, exposed |-> e] /\ UNCHANGED <<job, answered>>
    BY <1>2 DEF cancel_read, dbVars
  <2>2. ~e => \A j \in jobs : ~job[j].signed /\ job[j].status # "none"
    OBVIOUS
  <2> HIDE DEF e, jobs
  <2>3. cancel'.jobs = jobs /\ cancel'.exposed = e
    BY <2>1
  <2> QED BY <2>1, <2>2, <2>3 DEF AnswerInv
<1>3. ASSUME cancel_commit PROVE AnswerInv'
  <2> DEFINE undone == {j \in cancel.jobs : job[j].status = "pending"}
  <2>1. /\ \A j \in undone : job'[j] = [job[j] EXCEPT !.status = "cancelled"]
        /\ \A j \in Jobs \ undone : job'[j] = job[j]
    BY <1>3, CommitRows
  <2>2. \A j \in Jobs : job[j] \in JobRow
    BY DEF BaseInv, TypeOK
  <2>3. \A j \in undone : job'[j].status = "cancelled" /\ job'[j].signed = job[j].signed
    BY <1>a, <2>1, <2>2 DEF JobRow
  <2>4. ASSUME NEW a \in answered, NEW j \in a.jobs
        PROVE  ~job'[j].signed /\ job'[j].status \notin {"none", "pending"}
    BY <1>a, <2>1, <2>3 DEF AnswerInv
  <2>5. ASSUME ~cancel.exposed, NEW j \in cancel.jobs
        PROVE  ~job'[j].signed /\ job'[j].status \notin {"none", "pending"}
    BY <1>a, <2>1, <2>3, <2>5 DEF AnswerInv
  <2>6. answered' = answered \/ (~cancel.exposed /\ answered' = answered \cup {[order |-> cancel.order, jobs |-> cancel.jobs]})
    BY <1>3 DEF cancel_commit
  <2>7. cancel'.jobs = {}
    BY <1>3 DEF cancel_commit, NoCancel
  <2> QED BY <2>4, <2>5, <2>6, <2>7 DEF AnswerInv
<1>4. ASSUME ChainStep \/ _ensure_leader \/ Crash PROVE AnswerInv'
  BY <1>4, AnswerQuiet
     DEF ChainStep, Mine, ForeignSend, Evict, ExternalFill, CatchUp, _ensure_leader, Crash, apiVars, dbVars
<1>5. CASE UNCHANGED vars
  BY <1>5 DEF vars, AnswerInv
<1> QED BY <1>1, <1>2, <1>3, <1>4, <1>5, AnswerWorker DEF Next

(* Whatever the book, the number of jobs and the nodes' answers (a nonce   *)
(* called used while it is only pooled included): a job that a DELETE read *)
(* before it answered "no on-chain cancel required" is never signed.  The  *)
(* row locks and the conditional claim of the worker give it.              *)
THEOREM AnswersHold == Spec => []AnsweredJobsUnsigned
<1>1. Init => AnswerInv
  BY DEF Init, AnswerInv, NoCancel
<1>2. AnswerInv => AnsweredJobsUnsigned
  BY DEF AnswerInv, AnsweredJobsUnsigned
<1> QED BY <1>1, <1>2, BaseHolds, AnswerStep, PTL DEF Spec
----------------------------------------------------------------------------
(* The nonces of the chain: those of the relayer's key are mined in order, *)
(* without gaps, and a pool holds none of them.                            *)
ChainInv ==
    /\ \A i \in 1..Len(chain) : chain[i].nonce # None => chain[i].nonce < account
    /\ \A i, k \in 1..Len(chain) :
          i < k /\ chain[i].nonce # None /\ chain[k].nonce # None => chain[i].nonce < chain[k].nonce
    /\ \A n \in 0..(account - 1) : \E i \in 1..Len(chain) : chain[i].nonce = n
    /\ \A i \in 1..Len(chain) : chain[i].job # NoJob => chain[i].nonce # None
    /\ \A t \in pool : t.nonce >= account

(* What a job may have at the nodes, by its status: nothing in a pool once *)
(* it is not in flight, nothing mined before it is, and in flight only     *)
(* transactions with the nonce on record.                                  *)
NoPooled(j) == \A t \in pool : t.job # j
NoMined(j) == \A i \in 1..Len(chain) : chain[i].job # j
Traces(j) ==
    /\ job[j].status \notin IN_FLIGHT => NoPooled(j)
    /\ job[j].status \in {"none", "pending", "cancelled"} => NoMined(j)
    /\ job[j].status = "failed" => \A i \in 1..Len(chain) : chain[i].job = j => ~chain[i].ok
    /\ job[j].status = "confirmed" => \E i \in 1..Len(chain) : chain[i].job = j /\ chain[i].ok
    /\ job[j].status \in IN_FLIGHT =>
          /\ \A t \in pool : t.job = j => t.nonce = job[j].nonce
          /\ \A i \in 1..Len(chain) : chain[i].job = j => chain[i].nonce = job[j].nonce
    /\ \A i, k \in 1..Len(chain) : chain[i].job = j /\ chain[k].job = j => i = k

(* The time of a "nonce too low" on record is after the nonce was used.    *)
Consumption(j) ==
    job[j].status \in IN_FLIGHT /\ job[j].consumed # None =>
        job[j].consumed <= Len(chain) /\ Past(job[j].nonce, job[j].consumed)

Distinct ==
    \A j, k \in Jobs :
        j # k /\ job[j].status \in IN_FLIGHT /\ job[k].status \in IN_FLIGHT => job[j].nonce # job[k].nonce

(* The worker knows what it sends for the first time, and that a nonce it  *)
(* was told is used has been used.                                         *)
Casting ==
    /\ work.at # "landed"
    /\ work.mode = "send" /\ (\/ work.at = "cast"
                              \/ work.at = "note" /\ work.kind \in {"underpriced", "insufficient_funds"})
          => NoPooled(work.job) /\ NoMined(work.job)
    /\ work.at = "note" /\ work.kind = "nonce_low" => Past(job[work.job].nonce, Len(chain))

LiveInv == ChainInv /\ (\A j \in Jobs : Traces(j) /\ Consumption(j)) /\ Distinct /\ Casting

LEMMA ChainTypes ==
    ASSUME BaseInv
    PROVE  /\ Len(chain) \in Nat
           /\ \A x \in 1..Len(chain) : chain[x].nonce \in Nat \cup {None} /\ chain[x].job \in Jobs \cup {NoJob}
<1>1. chain \in Seq(Event)
  BY DEF BaseInv, TypeOK
<1>2. \A x \in 1..Len(chain) : chain[x] \in Event
  BY <1>1, ElementOfSeq
<1> QED BY <1>1, <1>2 DEF Event

(* "The mined nonce is past n" is "n has been mined".                      *)
LEMMA PastMined ==
    ASSUME BaseInv, ChainInv, NEW n \in Nat, NEW k \in 0..Len(chain), Past(n, k)
    PROVE  n < account /\ \E i \in 1..k : chain[i].nonce = n
<1>1. PICK i \in 1..k : chain[i].nonce >= n
  BY DEF Past
<1>2. i \in 1..Len(chain) /\ \A x \in 1..Len(chain) : chain[x].nonce \in Nat \cup {None}
  BY ChainTypes
<1>3. chain[i].nonce # None
  BY <1>1, <1>2 DEF None
<1>8. account \in Nat
  BY DEF BaseInv, TypeOK
<1>9. chain[i].nonce < account
  BY <1>2, <1>3 DEF ChainInv
<1>10. chain[i].nonce \in Nat
  BY <1>2, <1>3
<1>4. n < account
  BY <1>1, <1>8, <1>9, <1>10
<1>11. n \in 0..(account - 1)
  BY <1>4, <1>8
<1>5. PICK x \in 1..Len(chain) : chain[x].nonce = n
  BY <1>11 DEF ChainInv
<1>6. n # None
  BY DEF None
<1>7. ~(i < x)
  <2>1. i < x => chain[i].nonce < chain[x].nonce
    BY <1>2, <1>3, <1>5, <1>6 DEF ChainInv
  <2> QED BY <1>1, <1>2, <1>3, <1>5, <2>1
<1> QED BY <1>4, <1>5, <1>7

(* A job with a mined transaction has none in a pool.                      *)
LEMMA MinedNotPooled ==
    ASSUME BaseInv, LiveInv, NEW j \in Jobs, job[j].status \in IN_FLIGHT, NEW i \in Receipts(j)
    PROVE  NoPooled(j)
<1>1. i \in 1..Len(chain) /\ chain[i].job = j
  BY DEF Receipts
<1>2. chain[i].nonce = job[j].nonce /\ job[j].nonce \in Nat
  BY <1>1 DEF LiveInv, Traces, BaseInv, TypeOK, JobRow
<1>3. job[j].nonce < account /\ account \in Nat
  BY <1>1, <1>2 DEF LiveInv, ChainInv, BaseInv, TypeOK, None
<1>4. \A t \in pool : t.nonce \in Nat /\ t.nonce >= account /\ (t.job = j => t.nonce = job[j].nonce)
  BY DEF LiveInv, ChainInv, Traces, BaseInv, TypeOK, Tx
<1> QED BY <1>2, <1>3, <1>4 DEF NoPooled

(* A write to one row keeps the invariant when its reason is a good one.   *)
Justified(j) ==
    \/ Withdraws(j) \/ Retries(j) \/ Claims(j)
    \/ Releases(j) /\ NoPooled(j) /\ NoMined(j)
    \/ Carries(j) /\ \/ job'[j].consumed \in {job[j].consumed, None}
                     \/ Past(job[j].nonce, Len(chain))
    \/ Settles(j) /\ job[j].status \in IN_FLIGHT /\ \E i \in Receipts(j) : chain[i].ok
    \/ Fails(j) /\ \E i \in Receipts(j) : ~chain[i].ok

LEMMA LiveRow ==
    ASSUME BaseInv, LiveInv, UNCHANGED <<chain, account, pool>>,
           NEW j \in Jobs, Tables(j), Justified(j), Casting'
    PROVE  LiveInv'
<1>a. job \in [Jobs -> JobRow]
  BY DEF BaseInv, TypeOK
<1>1. ChainInv'
  BY DEF LiveInv, ChainInv
<1>2. Traces(j)'
  <2>1. CASE Withdraws(j)
    BY <2>1 DEF Withdraws, LiveInv, Traces, IN_FLIGHT, NoPooled, NoMined
  <2>2. CASE Retries(j)
    BY <2>2 DEF Retries, LiveInv, Traces, NoPooled, NoMined
  <2>3. CASE Claims(j)
    BY <2>3 DEF Claims, LiveInv, Traces, IN_FLIGHT, NoPooled, NoMined
  <2>4. CASE Releases(j) /\ NoPooled(j) /\ NoMined(j)
    BY <2>4 DEF Releases, LiveInv, Traces, IN_FLIGHT, NoPooled, NoMined
  <2>5. CASE Carries(j)
    BY <2>5 DEF Carries, LiveInv, Traces, IN_FLIGHT, NoPooled, NoMined
  <2>6. CASE Settles(j) /\ job[j].status \in IN_FLIGHT /\ \E i \in Receipts(j) : chain[i].ok
    <3>1. PICK i \in Receipts(j) : chain[i].ok
      BY <2>6
    <3>2. NoPooled(j)
      BY <2>6, <3>1, MinedNotPooled
    <3>3. i \in 1..Len(chain) /\ chain[i].job = j
      BY DEF Receipts
    <3> QED BY <2>6, <3>1, <3>2, <3>3 DEF Settles, LiveInv, Traces, IN_FLIGHT, NoPooled, NoMined
  <2>7. CASE Fails(j) /\ \E i \in Receipts(j) : ~chain[i].ok
    <3>1. PICK i \in Receipts(j) : ~chain[i].ok
      BY <2>7
    <3>2. NoPooled(j)
      BY <2>7, <3>1, MinedNotPooled DEF Fails
    <3>3. i \in 1..Len(chain) /\ chain[i].job = j
      BY DEF Receipts
    <3>4. \A x \in 1..Len(chain) : chain[x].job = j => ~chain[x].ok
      BY <3>1, <3>3 DEF LiveInv, Traces
    <3> QED BY <2>7, <3>2, <3>4 DEF Fails, LiveInv, Traces, IN_FLIGHT, NoPooled, NoMined
  <2> QED BY <2>1, <2>2, <2>3, <2>4, <2>5, <2>6, <2>7 DEF Justified
<1>3. Consumption(j)'
  <2>1. CASE Carries(j) /\ \/ job'[j].consumed \in {job[j].consumed, None}
                           \/ Past(job[j].nonce, Len(chain))
    <3> DEFINE n == job[j].nonce
               c == job'[j].consumed
    <3>1. Len(chain) <= Len(chain)
      BY DEF BaseInv, TypeOK
    <3>2. /\ job[j].status \in IN_FLIGHT /\ job'[j].nonce = n /\ c \in {job[j].consumed, None, Len(chain)}
          /\ chain' = chain
      BY <2>1 DEF Carries
    <3>3. job[j].consumed # None => job[j].consumed <= Len(chain) /\ Past(n, job[j].consumed)
      BY <3>2 DEF LiveInv, Consumption
    <3>4. c = None \/ (c <= Len(chain) /\ Past(n, c))
      <4> HIDE DEF c, n
      <4>1. c = None \/ c = job[j].consumed \/ (c = Len(chain) /\ Past(n, Len(chain)))
        BY <2>1, <3>2 DEF c, n
      <4> QED BY <3>1, <3>3, <4>1
    <3>5. Past(n, c) => \E i \in 1..c : chain[i].nonce >= n
      BY DEF Past
    <3>6. c = None \/ (c <= Len(chain') /\ \E i \in 1..c : chain'[i].nonce >= job'[j].nonce)
      BY <3>2, <3>4, <3>5
    <3> QED BY <3>6 DEF Consumption, Past
  <2>2. CASE Retries(j)
    BY <2>2 DEF Retries, LiveInv, Consumption, Past
  <2>3. CASE Claims(j)
    BY <2>3 DEF Claims, Consumption
  <2>4. CASE Withdraws(j) \/ Releases(j) \/ Settles(j) \/ Fails(j)
    BY <2>4 DEF Withdraws, Releases, Settles, Fails, Consumption, IN_FLIGHT
  <2> QED BY <2>1, <2>2, <2>3, <2>4 DEF Justified
<1>4. ASSUME NEW k \in Jobs \ {j} PROVE Traces(k)' /\ Consumption(k)'
  <2>1. CASE job'[k] = job[k]
    BY <2>1 DEF LiveInv, Traces, Consumption, NoPooled, NoMined, Past
  <2>2. CASE Opens(job[k], job'[k])
    BY <2>2 DEF Opens, LiveInv, Traces, Consumption, NoPooled, NoMined, IN_FLIGHT
  <2> QED BY <2>1, <2>2 DEF Tables
<1>5. Distinct'
  <2>1. ASSUME NEW k \in Jobs \ {j}, job'[k].status \in IN_FLIGHT
        PROVE  job[k].status \in IN_FLIGHT /\ job'[k].nonce = job[k].nonce /\ job[k].nonce \in Nat
    BY <1>a, <2>1 DEF Tables, Opens, IN_FLIGHT, BaseInv, TypeOK, JobRow
  <2>2. ASSUME job'[j].status \in IN_FLIGHT
        PROVE  \/ job[j].status \in IN_FLIGHT /\ job'[j].nonce = job[j].nonce
               \/ \A k \in Jobs : job[k].status \in IN_FLIGHT => job[k].nonce < job'[j].nonce
    BY <2>2 DEF Justified, Withdraws, Retries, Claims, Releases, Carries, Settles, Fails, IN_FLIGHT
  <2>3. job'[j].status \in IN_FLIGHT => job'[j].nonce \in Nat
    BY <2>2 DEF BaseInv, TypeOK, JobRow, Tables, Queue, Justified, Withdraws, Retries, Claims, Releases,
                Carries, Settles, Fails, IN_FLIGHT
  <2> QED BY <2>1, <2>2, <2>3 DEF LiveInv, Distinct
<1> QED BY <1>1, <1>2, <1>3, <1>4, <1>5 DEF LiveInv

(* So does a step that writes no row and reaches no node.                  *)
LEMMA LiveQuiet ==
    ASSUME BaseInv, LiveInv, UNCHANGED <<job, chain, account, pool>>, Casting'
    PROVE  LiveInv'
<1>1. ChainInv' /\ Distinct'
  BY DEF LiveInv, ChainInv, Distinct
<1>2. ASSUME NEW j \in Jobs PROVE Traces(j)' /\ Consumption(j)'
  BY DEF LiveInv, Traces, Consumption, NoPooled, NoMined, Past
<1> QED BY <1>1, <1>2 DEF LiveInv

LEMMA CastingIdle == ASSUME work' = Idle PROVE Casting'
  BY DEF Casting, Idle

(* The worker's steps.  That a node calls a nonce used only when it has    *)
(* been mined is what the invariant rests on.                              *)
LEMMA LiveWorker == ASSUME ~PoolViewNonceLow, BaseInv, LiveInv, WorkerStep PROVE LiveInv'
<1> USE DEF apiVars, dbVars, chainVars
<1>a. ASSUME work.at # "idle" PROVE work.job \in Jobs
  BY <1>a DEF BaseInv, WorkerHolds
<1>b. ASSUME NEW j \in Jobs, job[j].status = "pending" PROVE NoPooled(j) /\ NoMined(j)
  BY <1>b DEF LiveInv, Traces, IN_FLIGHT
<1>1. ASSUME SendConfirm PROVE LiveInv'
  BY <1>1 DEF SendConfirm, LiveInv, Casting
<1>2. ASSUME SendPreflight PROVE LiveInv'
  <2>1. work'.at = "clear"
    BY <1>2 DEF SendPreflight, BaseInv, TypeOK, Work
  <2>2. Casting'
    BY <2>1 DEF Casting
  <2> QED BY <1>2, <2>2, LiveQuiet DEF SendPreflight
<1>3. ASSUME SendFail PROVE LiveInv'
  BY <1>3, SendFailRow, LiveRow, CastingIdle DEF SendFail, Justified
<1>4. ASSUME SendRetry PROVE LiveInv'
  BY <1>4, SendRetryRow, LiveRow, CastingIdle DEF SendRetry, Justified
<1>5. ASSUME SendDefer \/ NoteResend PROVE LiveInv'
  BY SMTT(60), <1>5, LiveQuiet, CastingIdle DEF SendDefer, NoteResend
<1>6. ASSUME NEW p \in PendingNonces, SendClaim(p) PROVE LiveInv'
  <2> DEFINE j == work.job
  <2>1. work'.at = "cast" /\ work'.job = j /\ j \in Jobs /\ job[j].status = "pending"
    BY <1>6, <1>a DEF SendClaim, BaseInv, TypeOK, Work
  <2>2. NoPooled(j) /\ NoMined(j) /\ UNCHANGED <<pool, chain>>
    BY <1>6, <1>b, <2>1 DEF SendClaim
  <2>3. Casting'
    BY <2>1, <2>2 DEF Casting, NoPooled, NoMined
  <2> QED BY <1>6, <2>1, <2>3, SendClaimRow, LiveRow DEF SendClaim, Justified
<1>7. ASSUME NEW kind \in Kinds, Broadcast(kind) PROVE LiveInv'
  <2> DEFINE j == work.job
             t == [job |-> j, nonce |-> job[j].nonce]
  <2>1. j \in Jobs /\ job[j].status \in IN_FLIGHT /\ work.at = "cast"
    BY <1>7, <1>a DEF Broadcast, BaseInv, WorkerHolds
  <2>2. job[j].nonce \in Nat /\ t.job = j /\ t.nonce = job[j].nonce
    BY <2>1 DEF BaseInv, TypeOK, JobRow
  <2>3. work'.at = "note" /\ work'.job = j /\ work'.kind = kind /\ work'.mode = work.mode
    BY <1>7 DEF Broadcast, BaseInv, TypeOK, Work
  <2>4. /\ pool' = pool \/ (pool' = pool \cup {t} /\ t.nonce >= account)
        /\ kind \in {"underpriced", "insufficient_funds"} => pool' = pool
    BY <1>7 DEF Broadcast, Pooled, Kinds
  <2>5. kind = "nonce_low" => Past(job[j].nonce, Len(chain))
    BY <1>7 DEF Broadcast, CanAnswer
  <2>6. UNCHANGED <<job, chain, account>>
    BY <1>7 DEF Broadcast
  <2> HIDE DEF t, j
  <2>7. ChainInv' /\ Distinct'
    BY <2>4, <2>6 DEF LiveInv, ChainInv, Distinct
  <2>8. ASSUME NEW k \in Jobs PROVE Traces(k)' /\ Consumption(k)'
    <3>1. \A u \in pool' : u \in pool \/ (u = t /\ pool' = pool \cup {t})
      BY <2>4
    <3>2. \A u \in pool' : u.job = k => (\E v \in pool : v = u) \/ (k = j /\ u.nonce = job[j].nonce)
      BY <2>2, <3>1
    <3> QED BY <2>1, <2>6, <3>2 DEF LiveInv, Traces, Consumption, NoPooled, NoMined, Past
  <2>9. Casting'
    BY <2>1, <2>3, <2>4, <2>5, <2>6 DEF LiveInv, Casting, NoPooled, NoMined, Past, j
  <2> QED BY <2>7, <2>8, <2>9 DEF LiveInv
<1>8. ASSUME NoteNonceLow PROVE LiveInv'
  <2> DEFINE j == work.job
  <2>1. Past(job[j].nonce, Len(chain)) /\ job[j].status \in IN_FLIGHT
    BY <1>8 DEF NoteNonceLow, LiveInv, Casting, BaseInv, WorkerHolds
  <2>2. /\ j \in Jobs /\ Tables(j)
        /\ \/ Settles(j) /\ \E i \in Receipts(j) : chain[i].ok
           \/ Carries(j)
           \/ Fails(j) /\ \E i \in Receipts(j) : ~chain[i].ok
    BY <1>8, NoteNonceLowRow
  <2>3. Justified(j)
    BY <2>1, <2>2 DEF Justified
  <2> QED BY <1>8, <2>2, <2>3, LiveRow, CastingIdle DEF NoteNonceLow
<1>9. ASSUME NoteSent PROVE LiveInv'
  BY <1>9, NoteSentRow, LiveRow, CastingIdle DEF NoteSent, Justified
<1>10. ASSUME NoteRefused PROVE LiveInv'
  <2>1. NoPooled(work.job) /\ NoMined(work.job)
    BY <1>10 DEF NoteRefused, LiveInv, Casting
  <2> QED BY <1>10, <2>1, NoteRefusedRow, LiveRow, CastingIdle DEF NoteRefused, Justified
<1>11. ASSUME NoteUnknown PROVE LiveInv'
  BY <1>11, NoteUnknownRow, LiveRow, CastingIdle DEF NoteUnknown, Justified
<1>12. ASSUME NoteRebroadcast PROVE LiveInv'
  BY <1>12, NoteRebroadcastRow, LiveRow, CastingIdle DEF NoteRebroadcast, Justified
<1>13. ASSUME NEW j \in Jobs, SendLanded(j) PROVE LiveInv'
  <2>1. PICK i \in 1..Len(chain) : chain[i].job = j
    BY <1>13 DEF SendLanded, _fill_verdict, Landed
  <2> QED BY <1>13, <1>b, <2>1 DEF SendLanded, NoMined
<1>14. ASSUME NEW j \in Jobs, SendCancelled(j) PROVE LiveInv'
  BY <1>14, SendCancelledRow, LiveRow, CastingIdle DEF SendCancelled, Justified
<1>15. ASSUME NEW j \in Jobs, SendCheck(j) PROVE LiveInv'
  <2>1. work'.at = "check"
    BY <1>15 DEF SendCheck, Idle
  <2>2. Casting'
    BY <2>1 DEF Casting
  <2> QED BY <1>15, <2>2, LiveQuiet DEF SendCheck
<1>16. ASSUME NEW j \in Jobs, ReconcileReceipt(j) PROVE LiveInv'
  BY <1>16, ReconcileReceiptRow, LiveRow, CastingIdle DEF ReconcileReceipt, Justified
<1>17. ASSUME NEW j \in Jobs, Rebroadcast(j) \/ Stuck(j) PROVE LiveInv'
  <2>1. work'.at = "cast" /\ work'.mode # "send"
    BY <1>17 DEF Rebroadcast, Stuck, Idle
  <2>2. Casting'
    BY <2>1 DEF Casting
  <2> QED BY <1>17, <2>2, LiveQuiet DEF Rebroadcast, Stuck
<1>18. ASSUME NEW j \in Jobs, Bump(j) PROVE LiveInv'
  <2>1. work'.at = "cast" /\ work'.mode # "send"
    BY <1>18 DEF Bump, Idle
  <2>2. Casting'
    BY <2>1 DEF Casting
  <2> QED BY <1>18, <2>2, BumpRow, LiveRow DEF Bump, Justified
<1>19. ASSUME NEW j \in Jobs, SettleNotMined(j) \/ SettleMaybe(j) PROVE LiveInv'
  <2>1. Tables(j) /\ Carries(j)
    BY <1>19, ConsumedRow DEF SettleNotMined, SettleMaybe, Settling
  <2>2. job'[j].consumed = None \/ Past(job[j].nonce, Len(chain))
    BY <1>19 DEF SettleNotMined, SettleMaybe, Settling, BaseInv, TypeOK, JobRow
  <2> QED BY <1>19, <2>1, <2>2, LiveRow, CastingIdle DEF SettleNotMined, SettleMaybe, Settling, Justified
<1>20. ASSUME NEW j \in Jobs, SettleLanded(j) PROVE LiveInv'
  <2>1. Tables(j) /\ Settles(j) /\ job[j].status \in IN_FLIGHT
    BY <1>20, Confirms DEF SettleLanded, Settling, IN_FLIGHT
  <2>2. \E i \in Receipts(j) : chain[i].ok
    BY <1>20 DEF SettleLanded, _fill_verdict, Landed, Receipts
  <2> QED BY <1>20, <2>1, <2>2, LiveRow, CastingIdle DEF SettleLanded, Settling, Justified
<1>21. ASSUME NEW j \in Jobs, SettleAbsent(j) PROVE LiveInv'
  <2>1. job[j].status \in IN_FLIGHT /\ job[j].consumed # None /\ NoReceipt(j) /\ Waited(j)
    BY <1>21 DEF SettleAbsent, Settling, IN_FLIGHT
  <2>2. job[j].nonce \in Nat /\ job[j].consumed \in 0..Len(chain) /\ job[j].consumed \in 0..seen
        /\ Past(job[j].nonce, job[j].consumed)
    BY <2>1 DEF LiveInv, Consumption, Waited, BaseInv, TypeOK, JobRow
  <2>3. PICK i \in 1..job[j].consumed : chain[i].nonce = job[j].nonce
    BY <2>2, PastMined DEF LiveInv
  <2>4. i \in 1..Len(chain) /\ chain[i].job # j /\ job[j].nonce < account
    BY <2>1, <2>2, <2>3, PastMined DEF NoReceipt, LiveInv, BaseInv, TypeOK
  <2>5. NoMined(j)
    <3> SUFFICES ASSUME NEW x \in 1..Len(chain), chain[x].job = j PROVE FALSE
      BY DEF NoMined
    <3>1. chain[x].nonce = job[j].nonce /\ x # i
      BY <2>1, <2>4 DEF LiveInv, Traces
    <3>2. job[j].nonce # None
      BY <2>2 DEF None
    <3> QED BY <2>2, <2>3, <2>4, <3>1, <3>2 DEF LiveInv, ChainInv
  <2>6. NoPooled(j)
    <3>1. \A t \in pool : t.nonce \in Nat /\ t.nonce >= account /\ (t.job = j => t.nonce = job[j].nonce)
      BY <2>1 DEF LiveInv, ChainInv, Traces, BaseInv, TypeOK, Tx
    <3> QED BY <2>2, <2>4, <3>1 DEF NoPooled, BaseInv, TypeOK
  <2>7. Tables(j) /\ Releases(j)
    BY <1>21, <2>1, BackToPending DEF SettleAbsent
  <2> QED BY <1>21, <2>5, <2>6, <2>7, LiveRow, CastingIdle DEF SettleAbsent, Settling, Justified
<1> QED BY <1>1, <1>2, <1>3, <1>4, <1>5, <1>6, <1>7, <1>8, <1>9, <1>10, <1>11, <1>12, <1>13, <1>14,
           <1>15, <1>16, <1>17, <1>18, <1>19, <1>20, <1>21 DEF WorkerStep

(* The API's steps: a match opens rows, a DELETE withdraws pending ones.   *)
LEMMA LiveAPI ==
    ASSUME BaseInv, LiveInv, (\E o \in OrderIds : post_order(o) \/ cancel_read(o)) \/ cancel_commit
    PROVE  LiveInv'
<1> USE DEF chainVars, apiVars
<1>1. UNCHANGED <<work, chain, account, pool, seen>>
  BY DEF post_order, cancel_read, cancel_commit
<1>2. \A k \in Jobs : \/ job'[k] = job[k]
                      \/ Opens(job[k], job'[k])
                      \/ job[k].status = "pending" /\ job'[k].status = "cancelled"
  <2>1. ASSUME NEW o \in OrderIds, post_order(o) PROVE \A k \in Jobs : job'[k] = job[k] \/ Opens(job[k], job'[k])
    BY <2>1, PostRows
  <2>2. ASSUME NEW o \in OrderIds, cancel_read(o) PROVE job' = job
    BY <2>2 DEF cancel_read, dbVars
  <2>3. ASSUME cancel_commit, NEW k \in Jobs
        PROVE  job'[k] = job[k] \/ (job[k].status = "pending" /\ job'[k].status = "cancelled")
    <3>1. job[k] \in JobRow
      BY DEF BaseInv, TypeOK
    <3>2. \/ job[k].status = "pending" /\ job'[k] = [job[k] EXCEPT !.status = "cancelled"]
          \/ job'[k] = job[k]
      BY <2>3, CommitRows
    <3> QED BY <3>1, <3>2 DEF JobRow
  <2> QED BY <2>1, <2>2, <2>3
<1>3. ChainInv'
  BY <1>1 DEF LiveInv, ChainInv
<1>4. ASSUME NEW k \in Jobs PROVE Traces(k)' /\ Consumption(k)'
  <2>1. CASE job'[k] = job[k]
    BY <1>1, <2>1 DEF LiveInv, Traces, Consumption, NoPooled, NoMined, Past
  <2>2. CASE Opens(job[k], job'[k])
    BY <1>1, <2>2 DEF Opens, LiveInv, Traces, Consumption, NoPooled, NoMined, IN_FLIGHT
  <2>3. CASE job[k].status = "pending" /\ job'[k].status = "cancelled"
    BY <1>1, <2>3 DEF LiveInv, Traces, Consumption, NoPooled, NoMined, IN_FLIGHT
  <2> QED BY <1>2, <2>1, <2>2, <2>3
<1>5. \A k \in Jobs : job'[k].status \in IN_FLIGHT => job'[k] = job[k]
  BY <1>2 DEF Opens, IN_FLIGHT
<1>6. Distinct'
  BY <1>5 DEF LiveInv, Distinct
<1>7. Casting'
  <2>1. work.at = "note" => job'[work.job].nonce = job[work.job].nonce
    <3>1. work.at = "note" => work.job \in Jobs /\ job[work.job].status \in IN_FLIGHT
      BY DEF BaseInv, WorkerHolds
    <3> QED BY <1>2, <3>1 DEF Opens, IN_FLIGHT
  <2> QED BY <1>1, <2>1 DEF LiveInv, Casting, NoPooled, NoMined, Past
<1> QED BY <1>3, <1>4, <1>6, <1>7 DEF LiveInv

(* The steps of the nodes.                                                 *)
LEMMA LiveMine ==
    ASSUME BaseInv, LiveInv, NEW t \in pool, NEW ok \in BOOLEAN, Mine(t, ok)
    PROVE  LiveInv'
<1> DEFINE e == MinedBy(t, ok)
           n == Len(chain)
<1>1. e \in Event /\ e.nonce = account /\ e.job = t.job
  <2>1. e \in Event
    BY MinedByType DEF BaseInv
  <2> QED BY <2>1 DEF Mine, MinedBy
<1>2. /\ n \in Nat /\ account \in Nat
      /\ Len(chain') = n + 1 /\ chain'[n + 1] = e /\ \A i \in 1..n : chain'[i] = chain[i]
  BY <1>1, AppendProperties DEF Mine, BaseInv, TypeOK
<1>3. UNCHANGED <<job, work>> /\ account' = account + 1 /\ pool' = {u \in pool : u.nonce # account}
  BY DEF Mine, dbVars
<1>4. \A x \in 1..n : chain[x].nonce \in Nat \cup {None}
  BY ChainTypes
<1>5. t.nonce = account /\ \A u \in pool : u.nonce \in Nat
  BY DEF Mine, BaseInv, TypeOK, Tx
<1> HIDE DEF e, n
<1>6. ChainInv'
  <2>1. \A i \in 1..(n + 1) : chain'[i].nonce # None => chain'[i].nonce < account + 1
    BY <1>1, <1>2, <1>4 DEF LiveInv, ChainInv, n
  <2>2. ASSUME NEW i \in 1..(n + 1), NEW k \in 1..(n + 1), i < k, chain'[i].nonce # None, chain'[k].nonce # None
        PROVE  chain'[i].nonce < chain'[k].nonce
    <3>1. i \in 1..n /\ (k \in 1..n \/ k = n + 1)
      BY <1>2, <2>2
    <3>2. CASE k \in 1..n
      <4>1. i < k /\ chain[i].nonce # None /\ chain[k].nonce # None
        BY <1>2, <2>2, <3>1, <3>2
      <4>2. chain[i].nonce < chain[k].nonce
        BY <3>1, <3>2, <4>1 DEF LiveInv, ChainInv, n
      <4> QED BY <1>2, <3>1, <3>2, <4>2
    <3>3. CASE k = n + 1
      <4>1. chain[i].nonce # None
        BY <1>2, <2>2, <3>1
      <4>2. chain[i].nonce < account
        BY <3>1, <4>1 DEF LiveInv, ChainInv, n
      <4> QED BY <1>1, <1>2, <3>1, <3>3, <4>2
    <3> QED BY <3>1, <3>2, <3>3
  <2>3. ASSUME NEW m \in 0..account PROVE \E i \in 1..(n + 1) : chain'[i].nonce = m
    <3>1. CASE m = account
      BY <1>1, <1>2, <3>1
    <3>2. CASE m # account
      <4>1. m \in 0..(account - 1)
        BY <1>2, <3>2
      <4>2. PICK i \in 1..n : chain[i].nonce = m
        BY <4>1 DEF LiveInv, ChainInv, n
      <4> QED BY <1>2, <4>2
    <3> QED BY <3>1, <3>2
  <2>4. \A i \in 1..(n + 1) : chain'[i].job # NoJob => chain'[i].nonce # None
    <3>1. \A i \in 1..n : chain[i].job # NoJob => chain[i].nonce # None
      BY DEF LiveInv, ChainInv, n
    <3>2. e.nonce # None
      BY <1>1, <1>2 DEF None
    <3>3. \A i \in 1..(n + 1) : i \in 1..n \/ i = n + 1
      BY <1>2
    <3> QED BY <1>2, <3>1, <3>2, <3>3
  <2>5. \A u \in pool' : u.nonce >= account + 1
    BY <1>2, <1>3, <1>5 DEF LiveInv, ChainInv
  <2> QED BY <1>2, <1>3, <2>1, <2>2, <2>3, <2>4, <2>5 DEF ChainInv
<1>7. ASSUME NEW j \in Jobs, j = t.job
      PROVE  job[j].status \in IN_FLIGHT /\ job[j].nonce = account /\ NoMined(j)
  <2>1. job[j].status \in IN_FLIGHT /\ job[j].nonce = account
    BY <1>5, <1>7 DEF LiveInv, Traces, NoPooled
  <2>2. \A x \in 1..n : chain[x].job = j => chain[x].nonce = account
    BY <2>1 DEF LiveInv, Traces, n
  <2>3. \A x \in 1..n : chain[x].nonce # account
    BY <1>2, <1>4 DEF LiveInv, ChainInv, None, n
  <2> QED BY <2>1, <2>2, <2>3 DEF NoMined, n
<1>8. ASSUME NEW m, NEW k \in 0..n, Past(m, k)
      PROVE  (\E i \in 1..k : chain'[i].nonce >= m) /\ \E i \in 1..(n + 1) : chain'[i].nonce >= m
  <2>1. PICK i \in 1..k : chain[i].nonce >= m
    BY <1>8 DEF Past
  <2>2. i \in 1..n /\ i \in 1..(n + 1) /\ chain'[i] = chain[i]
    BY <1>2
  <2> QED BY <2>1, <2>2
<1>9. ASSUME NEW j \in Jobs PROVE Traces(j)'
  <2>1. CASE j = t.job
    BY SMTT(60), <1>1, <1>2, <1>3, <1>7, <2>1 DEF LiveInv, Traces, NoPooled, NoMined, IN_FLIGHT, n
  <2>2. CASE j # t.job
    <3>1. \A i \in 1..(n + 1) : chain'[i].job = j => i \in 1..n /\ chain'[i] = chain[i]
      BY <1>1, <1>2, <2>2
    <3> QED BY <1>2, <1>3, <3>1 DEF LiveInv, Traces, NoPooled, NoMined, n
  <2> QED BY <2>1, <2>2
<1>10. ASSUME NEW j \in Jobs PROVE Consumption(j)'
  <2>1. job[j].consumed # None => job[j].consumed \in Nat
    BY DEF BaseInv, TypeOK, JobRow
  <2>2. ASSUME job[j].status \in IN_FLIGHT, job[j].consumed # None
        PROVE  job[j].consumed \in 0..n /\ Past(job[j].nonce, job[j].consumed)
    BY <1>2, <2>1, <2>2 DEF LiveInv, Consumption, n
  <2>3. ASSUME job[j].status \in IN_FLIGHT, job[j].consumed # None
        PROVE  job[j].consumed <= Len(chain') /\ \E i \in 1..job[j].consumed : chain'[i].nonce >= job[j].nonce
    BY SMTT(60), <1>2, <1>8, <2>2, <2>3
  <2> QED BY <1>3, <2>3 DEF Consumption, Past
<1>11. Distinct'
  BY <1>3 DEF LiveInv, Distinct
<1>12. Casting'
  <2>1. ASSUME NEW j, NoPooled(j), NoMined(j) PROVE NoPooled(j)' /\ NoMined(j)'
    BY <1>1, <1>2, <1>3, <2>1 DEF NoPooled, NoMined, n
  <2>2. ASSUME NEW m, Past(m, Len(chain)) PROVE \E i \in 1..Len(chain') : chain'[i].nonce >= m
    <3>1. n \in 0..n /\ Past(m, n)
      BY <1>2, <2>2 DEF n
    <3> QED BY <1>2, <1>8, <3>1
  <2>3. work.at = "note" /\ work.kind = "nonce_low" => Past(job[work.job].nonce, Len(chain))'
    BY <1>3, <2>2 DEF LiveInv, Casting, Past
  <2> QED BY <1>3, <2>1, <2>3 DEF LiveInv, Casting
<1> QED BY <1>6, <1>9, <1>10, <1>11, <1>12 DEF LiveInv

LEMMA LiveExternal ==
    ASSUME BaseInv, LiveInv, NEW t \in OrderIds, NEW m \in OrderIds, ExternalFill(t, m, 1)
    PROVE  LiveInv'
<1> DEFINE e == [nonce |-> None, job |-> NoJob, ok |-> TRUE, taker |-> t, maker |-> m, fill |-> 1]
           n == Len(chain)
<1>1. e \in Event /\ e.nonce = None /\ e.job = NoJob
  BY DEF Event
<1>2. /\ n \in Nat
      /\ Len(chain') = n + 1 /\ chain'[n + 1] = e /\ \A i \in 1..n : chain'[i] = chain[i]
  BY <1>1, AppendProperties DEF ExternalFill, BaseInv, TypeOK
<1>3. UNCHANGED <<job, work, account, pool>>
  BY DEF ExternalFill, dbVars
<1>4. NoJob \notin Jobs
  BY DEF NoJob, Jobs
<1> HIDE DEF e, n
<1>5. ASSUME NEW i \in 1..(n + 1), chain'[i].nonce # None \/ chain'[i].job # NoJob
      PROVE  i \in 1..n /\ chain'[i] = chain[i]
  BY <1>1, <1>2, <1>5
<1>6. ChainInv'
  <2>1. \A i \in 1..(n + 1) : chain'[i].nonce # None => chain'[i].nonce < account
    BY <1>5 DEF LiveInv, ChainInv, n
  <2>2. \A i, k \in 1..(n + 1) :
           i < k /\ chain'[i].nonce # None /\ chain'[k].nonce # None => chain'[i].nonce < chain'[k].nonce
    BY <1>5 DEF LiveInv, ChainInv, n
  <2>3. \A x \in 0..(account - 1) : \E i \in 1..(n + 1) : chain'[i].nonce = x
    BY <1>2 DEF LiveInv, ChainInv, n
  <2>4. \A i \in 1..(n + 1) : chain'[i].job # NoJob => chain'[i].nonce # None
    BY <1>5 DEF LiveInv, ChainInv, n
  <2> QED BY <1>2, <1>3, <2>1, <2>2, <2>3, <2>4 DEF LiveInv, ChainInv
<1>7. ASSUME NEW k \in 0..n, NEW x, Past(x, k)
      PROVE  (\E i \in 1..k : chain'[i].nonce >= x) /\ \E i \in 1..(n + 1) : chain'[i].nonce >= x
  <2>1. PICK i \in 1..k : chain[i].nonce >= x
    BY <1>7 DEF Past
  <2>2. i \in 1..n /\ i \in 1..(n + 1) /\ chain'[i] = chain[i]
    BY <1>2
  <2> QED BY <2>1, <2>2
<1>8. ASSUME NEW j \in Jobs PROVE Traces(j)'
  <2>1. \A i \in 1..(n + 1) : chain'[i].job = j => i \in 1..n /\ chain'[i] = chain[i]
    BY <1>4, <1>5
  <2> QED BY <1>2, <1>3, <2>1 DEF LiveInv, Traces, NoPooled, NoMined, n
<1>9. ASSUME NEW j \in Jobs PROVE Consumption(j)'
  <2>1. ASSUME job[j].status \in IN_FLIGHT, job[j].consumed # None
        PROVE  job[j].consumed \in 0..n /\ Past(job[j].nonce, job[j].consumed)
    BY <1>2, <2>1 DEF LiveInv, Consumption, n, BaseInv, TypeOK, JobRow
  <2>2. ASSUME job[j].status \in IN_FLIGHT, job[j].consumed # None
        PROVE  job[j].consumed <= Len(chain') /\ \E i \in 1..job[j].consumed : chain'[i].nonce >= job[j].nonce
    BY <1>2, <1>7, <2>1, <2>2
  <2> QED BY <1>3, <2>2 DEF Consumption, Past
<1>10. Distinct'
  BY <1>3 DEF LiveInv, Distinct
<1>11. Casting'
  <2>1. ASSUME work.at # "idle", NoPooled(work.job), NoMined(work.job)
        PROVE  NoPooled(work.job)' /\ NoMined(work.job)'
    <3>1. work.job \in Jobs
      BY <2>1 DEF BaseInv, WorkerHolds
    <3> QED BY <1>2, <1>3, <1>4, <1>5, <2>1, <3>1 DEF NoPooled, NoMined, n
  <2>2. ASSUME NEW x, Past(x, Len(chain)) PROVE \E i \in 1..Len(chain') : chain'[i].nonce >= x
    <3>1. n \in 0..n /\ Past(x, n)
      BY <1>2, <2>2 DEF n
    <3> QED BY <1>2, <1>7, <3>1
  <2>3. work.at = "note" /\ work.kind = "nonce_low" => Past(job[work.job].nonce, Len(chain))'
    BY <1>3, <2>2 DEF LiveInv, Casting, Past
  <2> QED BY <1>3, <2>1, <2>3 DEF LiveInv, Casting
<1> QED BY <1>6, <1>8, <1>9, <1>10, <1>11 DEF LiveInv

LEMMA LiveChain == ASSUME BaseInv, LiveInv, ChainStep PROVE LiveInv'
<1>a. NoJob \notin Jobs
  BY DEF NoJob, Jobs
<1>1. ASSUME NEW n \in PendingNonces, n >= account, ForeignSend(n) PROVE LiveInv'
  <2> DEFINE f == [job |-> NoJob, nonce |-> n]
  <2>1. UNCHANGED <<job, work, chain, account>> /\ pool' = pool \cup {f} /\ f.job = NoJob /\ f.nonce = n
    BY <1>1 DEF ForeignSend, dbVars
  <2> HIDE DEF f
  <2>2. ChainInv' /\ Distinct'
    BY <1>1, <2>1 DEF LiveInv, ChainInv, Distinct
  <2>3. ASSUME NEW j \in Jobs PROVE Traces(j)' /\ Consumption(j)' /\ (NoPooled(j) => NoPooled(j)')
    <3>1. \A u \in pool' : u.job = j => u \in pool
      BY <1>a, <2>1
    <3> QED BY <2>1, <3>1 DEF LiveInv, Traces, Consumption, NoPooled, NoMined, Past
  <2>4. work.at # "idle" => work.job \in Jobs
    BY DEF BaseInv, WorkerHolds
  <2>5. Casting'
    BY <2>1, <2>3, <2>4 DEF LiveInv, Casting, NoMined, Past
  <2> QED BY <2>2, <2>3, <2>5 DEF LiveInv
<1>2. ASSUME NEW t \in pool, Evict(t) PROVE LiveInv'
  <2>1. UNCHANGED <<job, work, chain, account>> /\ pool' \subseteq pool
    BY <1>2 DEF Evict, dbVars
  <2>2. ChainInv' /\ Distinct'
    BY <2>1 DEF LiveInv, ChainInv, Distinct
  <2>3. ASSUME NEW j \in Jobs PROVE Traces(j)' /\ Consumption(j)'
    BY <2>1 DEF LiveInv, Traces, Consumption, NoPooled, NoMined, Past
  <2>4. Casting'
    BY <2>1 DEF LiveInv, Casting, NoPooled, NoMined, Past
  <2> QED BY <2>2, <2>3, <2>4 DEF LiveInv
<1>3. ASSUME NEW k \in (seen + 1)..Len(chain), CatchUp(k) PROVE LiveInv'
  <2>1. UNCHANGED <<job, work, chain, account, pool>>
    BY <1>3 DEF CatchUp, dbVars
  <2>2. Casting'
    BY <2>1 DEF LiveInv, Casting, NoPooled, NoMined, Past
  <2> QED BY <2>1, <2>2, LiveQuiet
<1> QED BY <1>1, <1>2, <1>3, LiveMine, LiveExternal DEF ChainStep

LEMMA LiveInit == Init => LiveInv
<1> SUFFICES ASSUME Init PROVE LiveInv
  OBVIOUS
<1>1. chain = <<>> /\ Len(chain) = 0 /\ account = 0 /\ pool = {} /\ work = Idle
  BY DEF Init
<1>2. \A j \in Jobs : job[j].status = "none"
  BY DEF Init, NoRow
<1>3. ChainInv
  BY <1>1 DEF ChainInv
<1>4. \A j \in Jobs : Traces(j) /\ Consumption(j)
  BY <1>1, <1>2 DEF Traces, Consumption, NoPooled, NoMined, IN_FLIGHT
<1>5. Distinct
  BY <1>2 DEF Distinct, IN_FLIGHT
<1>6. Casting
  BY <1>1 DEF Casting, Idle
<1> QED BY <1>3, <1>4, <1>5, <1>6 DEF LiveInv

LEMMA LiveStep == ASSUME ~PoolViewNonceLow PROVE BaseInv /\ LiveInv /\ [Next]_vars => LiveInv'
<1> SUFFICES ASSUME BaseInv, LiveInv, [Next]_vars PROVE LiveInv'
  OBVIOUS
<1>1. ASSUME _ensure_leader \/ Crash PROVE LiveInv'
  <2>1. UNCHANGED <<job, chain, account, pool>> /\ work' = Idle
    BY <1>1 DEF _ensure_leader, Crash, dbVars, chainVars
  <2> QED BY <2>1, CastingIdle, LiveQuiet
<1>2. CASE UNCHANGED vars
  <2>1. UNCHANGED <<job, work, chain, account, pool>>
    BY <1>2 DEF vars
  <2>2. Casting'
    BY <2>1 DEF LiveInv, Casting, NoPooled, NoMined, Past
  <2> QED BY <2>1, <2>2, LiveQuiet
<1> QED BY <1>1, <1>2, LiveWorker, LiveAPI, LiveChain DEF Next

LEMMA LiveHolds == ASSUME ~PoolViewNonceLow PROVE Spec => []LiveInv
<1> QED BY LiveInit, LiveStep, BaseHolds, PTL DEF Spec

(* The nonces of a job are those of Holds and of the receipts with a fill; *)
(* both are at most the one on record, or the one mined.                   *)
LEMMA HeldNonces ==
    ASSUME LiveInv, NEW j \in Jobs
    PROVE  /\ job[j].status \in IN_FLIGHT => Holds(j) \subseteq {job[j].nonce}
           /\ job[j].status \notin IN_FLIGHT => Holds(j) = {}
<1>1. Traces(j)
  BY DEF LiveInv
<1>2. CASE job[j].status \in IN_FLIGHT
  BY <1>1, <1>2 DEF Traces, Holds, WithStatusIn
<1>3. CASE job[j].status \notin IN_FLIGHT
  BY <1>1, <1>3 DEF Traces, NoPooled, Holds, WithStatusIn
<1> QED BY <1>2, <1>3

LEMMA OneLive == ASSUME LiveInv PROVE OneLiveNonce
<1> SUFFICES ASSUME NEW j \in Jobs
             PROVE  Cardinality(Holds(j) \cup {chain[i].nonce : i \in {x \in Receipts(j) : chain[x].ok}}) <= 1
  BY DEF OneLiveNonce
<1> DEFINE S == Holds(j) \cup {chain[i].nonce : i \in {x \in Receipts(j) : chain[x].ok}}
<1>1. Traces(j)
  BY DEF LiveInv
<1>2. \E n : S \subseteq {n}
  <2>1. CASE job[j].status \in IN_FLIGHT
    <3>1. \A i \in Receipts(j) : chain[i].nonce = job[j].nonce
      BY <1>1, <2>1 DEF Traces, Receipts
    <3> QED BY <2>1, <3>1, HeldNonces
  <2>2. CASE job[j].status \notin IN_FLIGHT /\ Receipts(j) # {}
    <3>1. PICK i : i \in Receipts(j)
      BY <2>2
    <3>2. \A x \in Receipts(j) : x = i
      BY <1>1, <3>1 DEF Traces, Receipts
    <3>3. S \subseteq {chain[i].nonce}
      BY <2>2, <3>2, HeldNonces
    <3> QED BY <3>3
  <2>3. CASE job[j].status \notin IN_FLIGHT /\ Receipts(j) = {}
    BY <2>3, HeldNonces
  <2> QED BY <2>1, <2>2, <2>3
<1> HIDE DEF S
<1>3. PICK n : S \subseteq {n}
  BY <1>2
<1>4. IsFiniteSet({n}) /\ Cardinality({n}) = 1
  BY FS_Singleton
<1>5. Cardinality(S) <= 1
  BY <1>3, <1>4, FS_Subset
<1> QED BY <1>5 DEF S

(* The promise of the comment at the head of the worker's send: a fill is  *)
(* never signed under a second nonce while the first can mine, for any     *)
(* book, any number of jobs and chain, with crashes, evictions, lagging    *)
(* nodes, other transactions of the key and fills by others, when a node   *)
(* says "nonce too low" only of nonces that have been mined.               *)
THEOREM OneNonceAtATime == ASSUME ~PoolViewNonceLow PROVE Spec => []OneLiveNonce
<1> QED BY LiveHolds, OneLive, PTL

(* Under the same assumption no two jobs ever hold one nonce: the floor    *)
(* that NonceManager.reserve takes from the rows in flight keeps a         *)
(* write-ahead transaction's nonce from being issued again, whatever the   *)
(* nodes say is pending.                                                   *)
THEOREM NoncesNeverShared == ASSUME ~PoolViewNonceLow PROVE Spec => []NoSharedNonce
<1>1. LiveInv => NoSharedNonce
  <2> SUFFICES ASSUME LiveInv, NEW j \in Jobs, NEW k \in Jobs, j # k PROVE Holds(j) \cap Holds(k) = {}
    BY DEF NoSharedNonce
  <2>1. CASE job[j].status \in IN_FLIGHT /\ job[k].status \in IN_FLIGHT
    <3>1. job[j].nonce # job[k].nonce
      BY <2>1 DEF LiveInv, Distinct
    <3>2. Holds(j) \subseteq {job[j].nonce} /\ Holds(k) \subseteq {job[k].nonce}
      BY <2>1, HeldNonces
    <3> QED BY <3>1, <3>2
  <2>2. CASE job[j].status \notin IN_FLIGHT \/ job[k].status \notin IN_FLIGHT
    BY <2>2, HeldNonces
  <2> QED BY <2>1, <2>2
<1> QED BY <1>1, LiveHolds, PTL
----------------------------------------------------------------------------
(* The refinement of FillOnce.  A status moves forward: an outcome is      *)
(* final, and only a live job gets one.                                    *)
Forward(old, new) ==
    \/ new.status = old.status
    \/ old.status = "none" /\ new.status = "pending"
    \/ old.status \in LIVE /\ new.status \in LIVE \cup TERMINAL

LEMMA ForwardRow ==
    ASSUME NEW j \in Jobs, Tables(j),
           \/ Withdraws(j) \/ Retries(j) \/ Claims(j) \/ Releases(j) \/ Carries(j) \/ Fails(j)
           \/ Settles(j) /\ job[j].status \in LIVE
    PROVE  \A k \in Jobs : Forward(job[k], job'[k])
<1>1. Forward(job[j], job'[j])
  BY DEF Withdraws, Retries, Claims, Releases, Carries, Fails, Settles, Forward, LIVE, IN_FLIGHT, TERMINAL
<1>2. ASSUME NEW k \in Jobs \ {j} PROVE Forward(job[k], job'[k])
  BY DEF Tables, Opens, Forward
<1> QED BY <1>1, <1>2

LEMMA ForwardWorker ==
    ASSUME BaseInv, LiveInv, WorkerStep PROVE \A k \in Jobs : Forward(job[k], job'[k])
<1> DEFINE Goal == \A k \in Jobs : Forward(job[k], job'[k])
<1>a. \A j \in Jobs : job[j].status \in IN_FLIGHT => job[j].status \in LIVE
  BY DEF IN_FLIGHT, LIVE
<1>b. job' = job => Goal
  BY DEF Forward
<1> HIDE DEF Goal
<1> USE DEF dbVars
<1>1. ASSUME SendConfirm PROVE Goal
  BY <1>1 DEF SendConfirm, LiveInv, Casting
<1>2. ASSUME SendPreflight \/ SendDefer \/ NoteResend PROVE Goal
  BY <1>2, <1>b DEF SendPreflight, SendDefer, NoteResend
<1>3. ASSUME SendFail PROVE Goal
  BY <1>3, SendFailRow, ForwardRow DEF Goal
<1>4. ASSUME SendRetry PROVE Goal
  BY <1>4, SendRetryRow, ForwardRow DEF Goal
<1>5. ASSUME NEW p \in PendingNonces, SendClaim(p) PROVE Goal
  BY <1>5, SendClaimRow, ForwardRow DEF Goal
<1>6. ASSUME NEW kind \in Kinds, Broadcast(kind) PROVE Goal
  BY <1>6, <1>b DEF Broadcast
<1>7. ASSUME NoteNonceLow PROVE Goal
  <2>1. work.job \in Jobs /\ job[work.job].status \in LIVE
    BY <1>7, <1>a DEF NoteNonceLow, BaseInv, WorkerHolds
  <2> QED BY <1>7, <2>1, NoteNonceLowRow, ForwardRow DEF Goal
<1>8. ASSUME NoteSent PROVE Goal
  BY <1>8, NoteSentRow, ForwardRow DEF Goal
<1>9. ASSUME NoteRefused PROVE Goal
  BY <1>9, NoteRefusedRow, ForwardRow DEF Goal
<1>10. ASSUME NoteUnknown PROVE Goal
  BY <1>10, NoteUnknownRow, ForwardRow DEF Goal
<1>11. ASSUME NoteRebroadcast PROVE Goal
  BY <1>11, NoteRebroadcastRow, ForwardRow DEF Goal
<1>12. ASSUME NEW j \in Jobs, SendLanded(j) \/ SendCheck(j) \/ Rebroadcast(j) \/ Stuck(j) PROVE Goal
  BY <1>12, <1>b DEF SendLanded, SendCheck, Rebroadcast, Stuck
<1>13. ASSUME NEW j \in Jobs, SendCancelled(j) PROVE Goal
  BY <1>13, SendCancelledRow, ForwardRow DEF Goal
<1>14. ASSUME NEW j \in Jobs, ReconcileReceipt(j) PROVE Goal
  <2>1. job[j].status \in LIVE
    BY <1>14, <1>a DEF ReconcileReceipt
  <2> QED BY <1>14, <2>1, ReconcileReceiptRow, ForwardRow DEF Goal
<1>15. ASSUME NEW j \in Jobs, Bump(j) PROVE Goal
  BY <1>15, BumpRow, ForwardRow DEF Goal
<1>16. ASSUME NEW j \in Jobs, SettleNotMined(j) \/ SettleMaybe(j) PROVE Goal
  BY <1>16, ConsumedRow, ForwardRow DEF Goal, SettleNotMined, SettleMaybe, Settling
<1>17. ASSUME NEW j \in Jobs, SettleLanded(j) PROVE Goal
  <2>1. job[j].status \in LIVE
    BY <1>17 DEF SettleLanded, Settling, LIVE
  <2> QED BY <1>17, <2>1, Confirms, ForwardRow DEF Goal, SettleLanded
<1>18. ASSUME NEW j \in Jobs, SettleAbsent(j) PROVE Goal
  BY <1>18, BackToPending, ForwardRow DEF Goal, SettleAbsent, Settling, IN_FLIGHT
<1>19. Goal
  BY <1>1, <1>2, <1>3, <1>4, <1>5, <1>6, <1>7, <1>8, <1>9, <1>10, <1>11, <1>12, <1>13, <1>14, <1>15,
     <1>16, <1>17, <1>18 DEF WorkerStep
<1> QED BY <1>19 DEF Goal

LEMMA ForwardAPI ==
    ASSUME BaseInv, (\E o \in OrderIds : post_order(o) \/ cancel_read(o)) \/ cancel_commit
    PROVE  \A k \in Jobs : Forward(job[k], job'[k])
<1>1. ASSUME NEW o \in OrderIds, post_order(o) PROVE \A k \in Jobs : Forward(job[k], job'[k])
  BY <1>1, PostRows DEF Opens, Forward
<1>2. ASSUME NEW o \in OrderIds, cancel_read(o) PROVE \A k \in Jobs : Forward(job[k], job'[k])
  BY <1>2 DEF cancel_read, dbVars, Forward
<1>3. ASSUME cancel_commit, NEW k \in Jobs PROVE Forward(job[k], job'[k])
  <2>1. job[k] \in JobRow
    BY DEF BaseInv, TypeOK
  <2>2. \/ job[k].status = "pending" /\ job'[k] = [job[k] EXCEPT !.status = "cancelled"]
        \/ job'[k] = job[k]
    BY <1>3, CommitRows
  <2> QED BY <2>1, <2>2 DEF JobRow, Forward, LIVE, TERMINAL
<1> QED BY <1>1, <1>2, <1>3

(* While the chain stands still, rows move forward; when it grows, by one  *)
(* entry, the rows stand still.                                            *)
LEMMA ForwardStep ==
    ASSUME BaseInv, LiveInv, [Next]_vars
    PROVE  \/ chain' = chain /\ \A k \in Jobs : Forward(job[k], job'[k])
           \/ job' = job /\ \E e \in Event : chain' = Append(chain, e)
<1> USE DEF dbVars, chainVars
<1>1. ASSUME WorkerStep PROVE chain' = chain
  BY <1>1 DEF WorkerStep, SendConfirm, SendPreflight, SendDefer, NoteResend, SendFail, SendRetry, SendClaim,
              Broadcast, NoteNonceLow, NoteSent, NoteRefused, NoteUnknown, NoteRebroadcast, SendLanded,
              SendCheck, Rebroadcast, Stuck, SendCancelled, ReconcileReceipt, Bump, SettleNotMined,
              SettleMaybe, SettleLanded, SettleAbsent
<1>2. ASSUME (\E o \in OrderIds : post_order(o) \/ cancel_read(o)) \/ cancel_commit PROVE chain' = chain
  BY <1>2 DEF post_order, cancel_read, cancel_commit
<1>3. ASSUME _ensure_leader \/ Crash \/ UNCHANGED vars PROVE chain' = chain /\ job' = job
  BY <1>3 DEF _ensure_leader, Crash, vars
<1>4. ASSUME NEW t \in pool, NEW ok \in BOOLEAN, Mine(t, ok)
      PROVE  job' = job /\ \E e \in Event : chain' = Append(chain, e)
  <2>1. MinedBy(t, ok) \in Event
    BY MinedByType DEF BaseInv
  <2> QED BY <1>4, <2>1 DEF Mine
<1>5. ASSUME NEW t \in OrderIds, NEW m \in OrderIds, ExternalFill(t, m, 1)
      PROVE  job' = job /\ \E e \in Event : chain' = Append(chain, e)
  <2>1. [nonce |-> None, job |-> NoJob, ok |-> TRUE, taker |-> t, maker |-> m, fill |-> 1] \in Event
    BY DEF Event
  <2> QED BY <1>5, <2>1 DEF ExternalFill
<1>6. ASSUME ChainStep PROVE \/ chain' = chain /\ job' = job
                             \/ job' = job /\ \E e \in Event : chain' = Append(chain, e)
  BY <1>4, <1>5, <1>6 DEF ChainStep, ForeignSend, Evict, CatchUp
<1>7. job' = job => \A k \in Jobs : Forward(job[k], job'[k])
  BY DEF Forward
<1> QED BY SMTT(60), <1>1, <1>2, <1>3, <1>6, <1>7, ForwardWorker, ForwardAPI DEF Next

LandedAt(j) == {i \in Receipts(j) : chain[i].ok}

LEMMA Phases ==
    /\ Phase("none") = "none" /\ Phase("confirmed") = "settled"
    /\ Phase("failed") = "dropped" /\ Phase("cancelled") = "dropped"
    /\ \A s \in LIVE : Phase(s) = "open"
  BY DEF Phase, LIVE

LEMMA FillOfRow ==
    ASSUME LiveInv', NEW j \in Jobs, chain' = chain, Forward(job[j], job'[j])
    PROVE  LET p == Phase(job[j].status)
               q == Phase(job'[j].status)
           IN  /\ LandedAt(j)' = LandedAt(j)
               /\ \/ p = q
                  \/ p = "none" /\ q = "open"
                  \/ p = "open" /\ q = "settled" /\ LandedAt(j) # {}
                  \/ p = "open" /\ q = "dropped" /\ LandedAt(j) = {}
<1>1. LandedAt(j)' = LandedAt(j)
  BY DEF LandedAt, Receipts
<1>2. Traces(j)'
  BY DEF LiveInv
<1>3. CASE job'[j].status = job[j].status
  BY <1>1, <1>3
<1>4. CASE job[j].status = "none" /\ job'[j].status = "pending"
  BY <1>1, <1>4, Phases DEF LIVE
<1>5. CASE job[j].status \in LIVE /\ job'[j].status \in LIVE
  BY <1>1, <1>5, Phases
<1>6. CASE job[j].status \in LIVE /\ job'[j].status = "confirmed"
  <2>1. PICK i \in 1..Len(chain) : chain[i].job = j /\ chain[i].ok
    BY <1>2, <1>6 DEF Traces
  <2>2. i \in LandedAt(j)
    BY <2>1 DEF LandedAt, Receipts
  <2> QED BY <1>1, <1>6, <2>2, Phases
<1>7. CASE job[j].status \in LIVE /\ job'[j].status \in {"failed", "cancelled"}
  <2>1. \A i \in 1..Len(chain) : chain[i].job = j => ~chain[i].ok
    BY <1>2, <1>7 DEF Traces, NoMined
  <2>2. LandedAt(j) = {}
    BY <2>1 DEF LandedAt, Receipts
  <2> QED BY <1>1, <1>7, <2>2, Phases
<1> QED BY <1>3, <1>4, <1>5, <1>6, <1>7 DEF Forward, TERMINAL

LEMMA FillOfChain ==
    ASSUME BaseInv, BaseInv', LiveInv, LiveInv', NEW j \in Jobs, job' = job,
           NEW e \in Event, chain' = Append(chain, e)
    PROVE  \/ LandedAt(j)' = LandedAt(j)
           \/ /\ Phase(job[j].status) = "open" /\ LandedAt(j) = {}
              /\ \E i \in LandedAt(j)' : LandedAt(j)' = {i}
<1> DEFINE n == Len(chain)
<1>1. n \in Nat /\ Len(chain') = n + 1 /\ chain'[n + 1] = e /\ \A i \in 1..n : chain'[i] = chain[i]
  BY AppendProperties DEF BaseInv, TypeOK
<1>2. Traces(j) /\ Traces(j)'
  BY DEF LiveInv
<1> HIDE DEF n
<1>3. CASE e.job = j /\ e.ok
  <2>1. n + 1 \in 1..Len(chain') /\ chain'[n + 1].job = j /\ chain'[n + 1].ok
    BY <1>1, <1>3
  <2>2. \A i \in 1..Len(chain') : chain'[i].job = j => i = n + 1
    BY <1>2, <2>1 DEF Traces
  <2>3. \A i \in 1..n : chain[i].job # j
    BY <1>1, <2>2
  <2>4. LandedAt(j) = {}
    BY <2>3 DEF LandedAt, Receipts, n
  <2>5. LandedAt(j)' = {n + 1}
    BY <2>1, <2>2 DEF LandedAt, Receipts
  <2>6. job[j].status \notin {"none", "pending", "cancelled", "failed"}
    BY <1>2, <2>1 DEF Traces, NoMined
  <2>7. job[j].status # "confirmed"
    BY <1>2, <2>3 DEF Traces, n
  <2>8. job[j].status \in Statuses
    BY DEF BaseInv, TypeOK, JobRow
  <2>9. Phase(job[j].status) = "open"
    BY <2>6, <2>7, <2>8, Phases DEF Statuses, LIVE, TERMINAL
  <2> QED BY <2>4, <2>5, <2>9
<1>4. CASE ~(e.job = j /\ e.ok)
  <2>1. LandedAt(j)' = {i \in 1..(n + 1) : chain'[i].job = j /\ chain'[i].ok}
    BY <1>1 DEF LandedAt, Receipts
  <2>2. \A i \in 1..(n + 1) : i \in 1..n \/ i = n + 1
    BY <1>1
  <2>3. LandedAt(j) = {i \in 1..n : chain[i].job = j /\ chain[i].ok}
    BY DEF LandedAt, Receipts, n
  <2>4. \A i \in 1..n : i \in 1..(n + 1)
    BY <1>1
  <2>5. LandedAt(j)' \subseteq LandedAt(j)
    BY <1>1, <1>4, <2>1, <2>2, <2>3
  <2>6. LandedAt(j) \subseteq LandedAt(j)'
    BY <1>1, <2>1, <2>3, <2>4
  <2> QED BY <2>5, <2>6
<1> QED BY <1>3, <1>4

LEMMA FillStep ==
    ASSUME BaseInv, BaseInv', LiveInv, LiveInv', [Next]_vars PROVE [Fill!Next]_(Fill!fillVars)
<1> DEFINE p(j) == Phase(job[j].status)
           q(j) == Phase(job'[j].status)
           Moved(j) == \/ q(j) = p(j) /\ LandedAt(j)' = LandedAt(j)
                       \/ p(j) = "none" /\ q(j) = "open" /\ LandedAt(j)' = LandedAt(j)
                       \/ p(j) = "open" /\ q(j) = "open" /\ LandedAt(j) = {} /\ \E i \in LandedAt(j)' : LandedAt(j)' = {i}
                       \/ p(j) = "open" /\ q(j) = "settled" /\ LandedAt(j) # {} /\ LandedAt(j)' = LandedAt(j)
                       \/ p(j) = "open" /\ q(j) = "dropped" /\ LandedAt(j) = {} /\ LandedAt(j)' = {}
<1>1. ASSUME NEW j \in Jobs PROVE Moved(j)
  <2>1. CASE chain' = chain /\ \A k \in Jobs : Forward(job[k], job'[k])
    BY <2>1, FillOfRow
  <2>2. ASSUME job' = job, NEW e \in Event, chain' = Append(chain, e) PROVE Moved(j)
    BY <2>2, FillOfChain
  <2> QED BY <2>1, <2>2, ForwardStep
<1>2. ASSUME NEW j \in Jobs
      PROVE  Fill!Keep(j) \/ Fill!Open(j) \/ Fill!Land(j) \/ Fill!Settle(j) \/ Fill!Drop(j)
  BY <1>1 DEF Fill!Keep, Fill!Open, Fill!Land, Fill!Settle, Fill!Drop, LandedAt
<1> QED BY <1>2 DEF Fill!Next

(* The path of a fill implements FillOnce: for any book, number of jobs,   *)
(* and chain, a match is settled only by one transaction that landed,      *)
(* dropped only with none, and both outcomes are final, through crashes,   *)
(* unknown outcomes, fee bumps and lagging nodes, when a node calls a      *)
(* nonce too low only if it has been mined.                                *)
THEOREM SettledExactlyOnce == ASSUME ~PoolViewNonceLow PROVE Spec => FillsOnce
<1>1. Init => Fill!Init
  <2> SUFFICES ASSUME Init PROVE Fill!Init
    OBVIOUS
  <2>1. \A j \in Jobs : Phase(job[j].status) = "none"
    BY Phases DEF Init, NoRow
  <2>2. Len(chain) = 0
    BY DEF Init
  <2>3. \A j \in Jobs : {i \in Receipts(j) : chain[i].ok} = {}
    BY <2>2 DEF Receipts
  <2> QED BY <2>1, <2>3 DEF Fill!Init
<1>2. BaseInv /\ BaseInv' /\ LiveInv /\ LiveInv' /\ [Next]_vars => [Fill!Next]_(Fill!fillVars)
  BY FillStep
<1> QED BY <1>1, <1>2, BaseHolds, LiveHolds, PTL DEF Spec, FillsOnce, Fill!Spec
----------------------------------------------------------------------------
(* The book.  What the rows with a status of S hold of an order.           *)
Share(jb, o, S) ==
    [j \in Jobs |-> IF jb[j].status \in S /\ o \in {jb[j].taker, jb[j].maker} THEN jb[j].fill ELSE 0]
Held(jb, o, S) == SumOver(Share(jb, o, S), Jobs)

LEMMA HeldNat ==
    ASSUME NEW jb \in Queue, NEW o, NEW S
    PROVE  Held(jb, o, S) \in Nat /\ \A j \in Jobs : Share(jb, o, S)[j] \in Nat
<1>1. \A j \in Jobs : Share(jb, o, S)[j] \in Nat
  BY DEF Share, Queue, JobRow
<1> QED BY <1>1, JobsFinite, SumNat DEF Held

LEMMA HeldFills ==
    ASSUME NEW jb \in Queue, NEW o, NEW S
    PROVE  Fills(jb, {j \in Jobs : jb[j].status \in S /\ o \in {jb[j].taker, jb[j].maker}}) = Held(jb, o, S)
<1> DEFINE U == {j \in Jobs : jb[j].status \in S /\ o \in {jb[j].taker, jb[j].maker}}
           f == [j \in Jobs |-> jb[j].fill]
           g == Share(jb, o, S)
<1>1. /\ \A j \in U : f[j] \in Int /\ g[j] = f[j]
      /\ \A j \in Jobs \ U : g[j] = 0
      /\ U \in SUBSET Jobs
  BY DEF Share, Queue, JobRow
<1>2. Fills(jb, U) = SumOver(f, U)
  <2> HIDE DEF U
  <2> QED BY <1>1, FillsSum
<1> HIDE DEF U, f, g
<1>3. SumOver(g, Jobs) = SumOver(f, U)
  BY <1>1, JobsFinite, SumPart
<1> QED BY <1>2, <1>3 DEF Held, U, g

(* An order covers its live jobs and is not promised beyond its amount.    *)
Covers(ord, jb, o) == Held(jb, o, LIVE) <= ord[o].filled /\ ord[o].filled <= Book[o].amount
Covered(ord, jb) == \A o \in OrderIds : Covers(ord, jb, o)

(* Rows that hold no more of any order keep the book covered.              *)
LEMMA CoveredLess ==
    ASSUME NEW ord \in Orders, NEW jb \in Queue, NEW new \in Queue, Covered(ord, jb),
           \A j \in Jobs : \/ new[j] = jb[j]
                           \/ new[j].status \notin LIVE
                           \/ /\ jb[j].status \in LIVE /\ new[j].fill = jb[j].fill
                              /\ new[j].taker = jb[j].taker /\ new[j].maker = jb[j].maker
    PROVE  Covered(ord, new)
<1> SUFFICES ASSUME NEW o \in OrderIds PROVE Covers(ord, new, o)
  BY DEF Covered
<1> DEFINE f == Share(new, o, LIVE)
           g == Share(jb, o, LIVE)
<1>1. \A j \in Jobs : f[j] \in Nat /\ g[j] \in Nat
  BY HeldNat
<1>2. \A j \in Jobs : f[j] = g[j] \/ f[j] = 0
  BY DEF Share
<1> HIDE DEF f, g
<1>3. SumOver(f, Jobs) <= SumOver(g, Jobs)
  BY <1>1, <1>2, JobsFinite, SumMonotone
<1>4. Held(new, o, LIVE) <= Held(jb, o, LIVE)
  BY <1>3 DEF Held, f, g
<1>5. Held(new, o, LIVE) \in Nat /\ Held(jb, o, LIVE) \in Nat /\ ord[o].filled \in Nat
  BY HeldNat DEF Orders, OrderRow
<1> QED BY <1>4, <1>5 DEF Covered, Covers

(* The rollback of some jobs gives back what they hold.                    *)
LEMMA LoweredHeld ==
    ASSUME job \in Queue, NEW S \in SUBSET Jobs, NEW live, NEW s \in Statuses \ live,
           \A j \in S : job[j].status \in live, NEW o \in OrderIds
    PROVE  Held(job, o, live) = Held(WithStatus(job, S, s), o, live) + Fills(job, {j \in S : Touches(j, o)})
<1> DEFINE new == WithStatus(job, S, s)
           U == {j \in S : Touches(j, o)}
           f == Share(new, o, live)
           g == [j \in Jobs |-> job[j].fill]
           d == [j \in Jobs |-> IF j \in U THEN job[j].fill ELSE 0]
           h == Share(job, o, live)
<1>1. /\ new \in Queue
      /\ \A j \in S : new[j] = [job[j] EXCEPT !.status = s]
      /\ \A j \in Jobs \ S : new[j] = job[j]
  BY ZenonT(60), WithStatusType
<1>2. \A j \in S : new[j].status = s
  <2>1. \A j \in S : job[j] \in JobRow
    BY DEF Queue
  <2> HIDE DEF new
  <2> QED BY <1>1, <2>1 DEF JobRow
<1>3. \A j \in Jobs : job[j].fill \in Nat
  BY DEF Queue, JobRow
<1>4. ASSUME NEW j \in Jobs PROVE f[j] \in Int /\ d[j] \in Int /\ h[j] = f[j] + d[j]
  <2>1. CASE j \in S
    <3>1. f[j] = 0
      BY <1>2, <2>1 DEF Share
    <3>2. h[j] = d[j] /\ d[j] \in Int
      BY <1>3, <2>1 DEF Share, Touches, _orders
    <3> QED BY <3>1, <3>2
  <2>2. CASE j \notin S
    <3>1. f[j] = h[j] /\ f[j] \in Int
      <4> HIDE DEF new
      <4> QED BY <1>1, <1>3, <2>2 DEF Share
    <3>2. d[j] = 0
      BY <2>2
    <3> QED BY <3>1, <3>2
  <2> QED BY <2>1, <2>2
<1>5. SumOver(d, Jobs) = Fills(job, U)
  <2>1. U \in SUBSET Jobs /\ (\A j \in U : g[j] \in Int /\ d[j] = g[j]) /\ \A j \in Jobs \ U : d[j] = 0
    BY <1>3
  <2>2. Fills(job, U) = SumOver(g, U)
    BY <2>1, FillsSum
  <2> HIDE DEF U, g, d
  <2>3. SumOver(d, Jobs) = SumOver(g, U)
    BY <2>1, JobsFinite, SumPart
  <2> QED BY <2>2, <2>3
<1> HIDE DEF f, d, h, U, new
<1>6. SumOver(h, Jobs) = SumOver(f, Jobs) + SumOver(d, Jobs)
  BY <1>4, JobsFinite, SumAdd
<1> QED BY <1>5, <1>6 DEF Held, f, h, U, new

LEMMA LoweredCovered ==
    ASSUME job \in Queue, NEW ord \in Orders, Covered(ord, job), NEW S \in SUBSET Jobs,
           \A j \in S : job[j].status \in LIVE, NEW s \in Statuses \ LIVE
    PROVE  Covered(Lowered(ord, S), WithStatus(job, S, s))
<1> SUFFICES ASSUME NEW o \in OrderIds PROVE Covers(Lowered(ord, S), WithStatus(job, S, s), o)
  BY DEF Covered
<1> DEFINE n == Fills(job, {j \in S : Touches(j, o)})
           h == Held(WithStatus(job, S, s), o, LIVE)
           a == ord[o].filled
<1>1. n \in Nat
  BY FillsNat
<1>2. h \in Nat
  BY WithStatusType, HeldNat
<1>3. h + n <= a /\ a \in Nat /\ a <= Book[o].amount /\ Book[o].amount \in Nat
  <2>1. Held(job, o, LIVE) = h + n
    BY LoweredHeld
  <2> QED BY <2>1, BookAssumption DEF Covered, Covers, Orders, OrderRow
<1>4. Lowered(ord, S)[o].filled = Max({0, a - n})
  BY DEF Lowered, Orders, OrderRow
<1> HIDE DEF n, h, a
<1>5. Max({0, a - n}) = a - n
  BY <1>1, <1>2, <1>3, MaxOfTwo
<1>6. h <= Max({0, a - n}) /\ Max({0, a - n}) <= Book[o].amount
  BY <1>1, <1>2, <1>3, <1>5
<1> QED BY <1>4, <1>6 DEF Covers, h

(* The makers a taker meets, in order: no two are in the same place.       *)
LEMMA AheadOrder ==
    ASSUME NEW t \in OrderIds
    PROVE  /\ \A m \in OrderIds : ~Ahead(t, m, m)
           /\ \A m, n \in OrderIds : Ahead(t, m, n) => ~Ahead(t, n, m)
           /\ \A m, n \in OrderIds : m # n => Ahead(t, m, n) \/ Ahead(t, n, m)
           /\ \A k, m, n \in OrderIds : Ahead(t, k, m) /\ Ahead(t, m, n) => Ahead(t, k, n)
<1>1. \A m \in OrderIds : m \in Nat /\ Book[m].price \in Nat
  BY OrderIdsAssumption, BookAssumption
<1>2. CASE Book[t].isBuy
  BY <1>1, <1>2 DEF Ahead
<1>3. CASE ~Book[t].isBuy
  BY <1>1, <1>3 DEF Ahead
<1> QED BY <1>2, <1>3

LEMMA LastOf ==
    ASSUME NEW t \in OrderIds, NEW S \in SUBSET OrderIds, S # {}
    PROVE  \E m \in S : \A n \in S \ {m} : Ahead(t, n, m)
<1> DEFINE After(n) == {x \in S : Ahead(t, n, x)}
           C == {After(n) : n \in S}
<1>1. \A U \in C : IsFiniteSet(U)
  BY OrderIdsAssumption, FS_Subset
<1>2. PICK U \in C : \A V \in C : V \subseteq U => V = U
  <2>1. C # {}
    OBVIOUS
  <2> HIDE DEF C
  <2> QED BY <1>1, <2>1, SmallestSet
<1>3. PICK m \in S : U = After(m)
  BY <1>2
<1>4. ASSUME NEW x \in S, Ahead(t, m, x) PROVE FALSE
  <2>1. After(x) \subseteq After(m)
    BY <1>4, AheadOrder
  <2>2. x \in After(m) /\ x \notin After(x)
    BY <1>4, AheadOrder
  <2>3. After(x) \in C
    OBVIOUS
  <2>4. After(x) = After(m)
    BY <1>2, <1>3, <2>1, <2>3
  <2> QED BY <2>2, <2>4
<1>5. \A n \in S \ {m} : Ahead(t, n, m)
  BY <1>4, AheadOrder
<1> QED BY <1>5

(* A taker takes, from the first makers in line, the least of what they    *)
(* offer and what it has left.                                             *)
InLine(ord, t, S) == S \subseteq Makers(ord, t) /\ \A m \in S : \A n \in Makers(ord, t) : Ahead(t, n, m) => n \in S

LEMMA TakenInLine ==
    ASSUME NEW ord \in Orders, NEW t \in OrderIds, _remaining(ord, t) >= 0, NEW S, InLine(ord, t, S)
    PROVE  SumOver([m \in OrderIds |-> Quantity(ord, t, m)], S) = Min({_remaining(ord, t), OnOffer(ord, S)})
<1> DEFINE q == [m \in OrderIds |-> Quantity(ord, t, m)]
           r == [m \in OrderIds |-> _remaining(ord, m)]
           left == _remaining(ord, t)
           Wrong(T) == SumOver(q, T) # Min({left, SumOver(r, T)})
           C == {T \in SUBSET OrderIds : InLine(ord, t, T) /\ Wrong(T)}
<1>0. /\ \A m \in OrderIds : q[m] = Quantity(ord, t, m) /\ q[m] \in Nat
      /\ \A m \in OrderIds : r[m] = _remaining(ord, m) /\ r[m] \in Int
      /\ left \in Int /\ left >= 0
  BY QuantityNat, RemainingInt
<1>1. \A T \in SUBSET OrderIds : OnOffer(ord, T) = SumOver(r, T) /\ IsFiniteSet(T)
  BY OnOfferSum, OrderIdsAssumption, FS_Subset
<1>2. S \in SUBSET OrderIds
  BY DEF InLine, Makers
<1> HIDE DEF q, r, left
<1>3. C = {}
  <2> SUFFICES ASSUME C # {} PROVE FALSE
    OBVIOUS
  <2>1. PICK T \in C : \A V \in C : V \subseteq T => V = T
    <3>1. \A V \in C : IsFiniteSet(V)
      BY <1>1
    <3> HIDE DEF C
    <3> QED BY <3>1, SmallestSet
  <2>2. T \in SUBSET OrderIds /\ InLine(ord, t, T) /\ Wrong(T)
    BY <2>1
  <2>3. T # {}
    <3>1. SumOver(q, {}) = 0 /\ SumOver(r, {}) = 0
      BY SumEmpty
    <3>2. Min({left, 0}) = 0
      BY <1>0, MinOfTwo
    <3> QED BY <2>2, <3>1, <3>2
  <2>4. PICK m \in T : \A n \in T \ {m} : Ahead(t, n, m)
    BY <2>2, <2>3, LastOf
  <2> DEFINE V == T \ {m}
  <2>5. InLine(ord, t, V)
    <3>1. ASSUME NEW n \in V, NEW x \in Makers(ord, t), Ahead(t, x, n) PROVE x \in V
      <4>1. x \in T
        BY <2>2, <3>1 DEF InLine
      <4>2. Ahead(t, n, m)
        BY <2>4
      <4> QED BY <2>2, <3>1, <4>1, <4>2, AheadOrder
    <3> QED BY <2>2, <3>1 DEF InLine
  <2>6. ~Wrong(V)
    <3>1. V \in SUBSET OrderIds /\ V \subseteq T /\ V # T
      BY <2>2
    <3>2. Wrong(V) => V \in C
      BY <2>5, <3>1
    <3> HIDE DEF C, V
    <3> QED BY <2>1, <3>1, <3>2
  <2>7. V = {n \in Makers(ord, t) : Ahead(t, n, m)}
    <3>1. ASSUME NEW n \in Makers(ord, t), Ahead(t, n, m) PROVE n \in V
      BY <2>2, <3>1, AheadOrder DEF InLine
    <3>2. ASSUME NEW n \in V PROVE n \in Makers(ord, t) /\ Ahead(t, n, m)
      BY <2>2, <2>4 DEF InLine
    <3> QED BY <3>1, <3>2
  <2>8. V \in SUBSET OrderIds /\ m \in OrderIds /\ r[m] > 0
    BY <1>0, <2>2, <2>4 DEF InLine, Makers
  <2> DEFINE a == SumOver(q, V)
             b == SumOver(r, V)
  <2>9. SumOver(q, T) = q[m] + a /\ SumOver(r, T) = r[m] + b /\ a \in Int /\ b \in Int
    <3>1. \A x \in T : q[x] \in Int /\ r[x] \in Int
      BY <1>0, <2>2
    <3> QED BY <1>1, <2>2, <2>8, <3>1, SumRemove, SumInt
  <2>10. q[m] = Max({0, Min({left - b, r[m]})})
    <3>1. OnOffer(ord, V) = b
      BY <1>1, <2>8
    <3>2. Quantity(ord, t, m) = Max({0, Min({_remaining(ord, t) - OnOffer(ord, V), _remaining(ord, m)})})
      BY <2>7 DEF Quantity
    <3> QED BY <1>0, <2>8, <3>1, <3>2 DEF left
  <2>11. a = Min({left, b})
    BY <2>6
  <2> HIDE DEF a, b, V
  <2>12. q[m] + a = Min({left, r[m] + b})
    <3> DEFINE x == r[m]
    <3>1. x \in Int /\ x > 0
      BY <1>0, <2>8
    <3>2. q[m] = Max({0, Min({left - b, x})})
      BY <2>10
    <3> HIDE DEF x
    <3>3. left - b \in Int /\ x + b \in Int
      BY <1>0, <2>9, <3>1
    <3>4. Min({left - b, x}) = IF left - b <= x THEN left - b ELSE x
      BY <3>1, <3>3, MinOfTwo
    <3>5. q[m] = IF 0 >= Min({left - b, x}) THEN 0 ELSE Min({left - b, x})
      BY <3>1, <3>2, <3>3, <3>4, MaxOfTwo
    <3>6. a = IF left <= b THEN left ELSE b
      BY <1>0, <2>9, <2>11, MinOfTwo
    <3>7. Min({left, x + b}) = IF left <= x + b THEN left ELSE x + b
      BY <1>0, <3>3, MinOfTwo
    <3>8. q[m] + a = Min({left, x + b})
      BY <1>0, <2>9, <3>1, <3>4, <3>5, <3>6, <3>7
    <3> QED BY <3>8 DEF x
  <2> QED BY <2>2, <2>9, <2>12
<1>4. ~Wrong(S)
  BY <1>2, <1>3
<1> QED BY <1>1, <1>2, <1>4 DEF q, left

(* So no taker is promised beyond its amount.                              *)
LEMMA TakenBound ==
    ASSUME NEW ord \in Orders, NEW t \in OrderIds, _remaining(ord, t) >= 0
    PROVE  Taken(ord, t) <= _remaining(ord, t)
<1> DEFINE q == [m \in OrderIds |-> Quantity(ord, t, m)]
           H == Hits(ord, t)
           M == Makers(ord, t)
<1>1. H \in SUBSET M /\ M \in SUBSET OrderIds /\ InLine(ord, t, M)
  BY DEF Hits, InLine, Makers
<1>2. (\A m \in M : q[m] \in Nat) /\ \A m \in M \ H : q[m] = 0
  <2>1. \A m \in M : q[m] = Quantity(ord, t, m) /\ Quantity(ord, t, m) \in Nat
    BY <1>1, QuantityNat
  <2>2. \A m \in M \ H : ~(Quantity(ord, t, m) > 0)
    BY DEF Hits
  <2> HIDE DEF q, H, M
  <2> QED BY <2>1, <2>2
<1>3. IsFiniteSet(M)
  BY <1>1, OrderIdsAssumption, FS_Subset
<1>4. Taken(ord, t) = SumOver(q, H)
  BY TakenSum
<1>5. SumOver(q, M) = Min({_remaining(ord, t), OnOffer(ord, M)})
  BY <1>1, TakenInLine
<1>6. SumOver(q, M) = SumOver(q, H)
  <2> HIDE DEF q, H, M
  <2> QED BY <1>1, <1>2, <1>3, SumPart
<1>7. _remaining(ord, t) \in Int /\ OnOffer(ord, M) \in Int
  BY <1>1, RemainingInt, OnOfferInt
<1>8. \A a, b \in Int : Min({a, b}) <= a
  BY MinOfTwo
<1> HIDE DEF q, H, M
<1> QED BY <1>4, <1>5, <1>6, <1>7, <1>8

LEMMA QuantityBound ==
    ASSUME NEW ord \in Orders, NEW t \in OrderIds, NEW m \in OrderIds, _remaining(ord, m) >= 0
    PROVE  Quantity(ord, t, m) <= _remaining(ord, m)
<1> DEFINE ahead == {n \in Makers(ord, t) : Ahead(t, n, m)}
           left == _remaining(ord, t) - OnOffer(ord, ahead)
           r == _remaining(ord, m)
<1>1. ahead \in SUBSET OrderIds
  BY DEF Makers
<1>2. OnOffer(ord, ahead) \in Int
  <2> HIDE DEF ahead
  <2> QED BY <1>1, OnOfferInt
<1>3. left \in Int /\ r \in Int
  BY <1>2, RemainingInt
<1>4. Quantity(ord, t, m) = Max({0, Min({left, r})})
  BY DEF Quantity
<1> HIDE DEF left, r
<1>5. Min({left, r}) \in Int /\ Min({left, r}) <= r
  BY <1>3, MinOfTwo
<1>6. Max({0, Min({left, r})}) <= r
  <2> DEFINE k == Min({left, r})
  <2>1. k \in Int /\ k <= r /\ r >= 0
    BY <1>5 DEF r
  <2> HIDE DEF k
  <2>2. Max({0, k}) <= r
    BY <1>3, <2>1, MaxOfTwo
  <2> QED BY <2>2 DEF k
<1> QED BY <1>4, <1>6 DEF r

(* What a match adds to an order, and the rows it opens for it.            *)
Part(ord, t, o) == [m \in OrderIds |-> IF o \in {t, m} THEN Quantity(ord, t, m) ELSE 0]
NewRows(ord, jb, t) == {j \in Jobs \ Rows(jb) : \E m \in Hits(ord, t) : RowFor(ord, jb, t, m) = j}
MakerOf(ord, jb, t) == [j \in Jobs |-> CHOOSE m \in Hits(ord, t) : RowFor(ord, jb, t, m) = j]

LEMMA MakersOfRows ==
    ASSUME NEW ord, NEW jb, NEW t
    PROVE  /\ \A j \in NewRows(ord, jb, t) :
                 /\ MakerOf(ord, jb, t)[j] \in Hits(ord, t)
                 /\ RowFor(ord, jb, t, MakerOf(ord, jb, t)[j]) = j
           /\ \A j, k \in NewRows(ord, jb, t) : MakerOf(ord, jb, t)[j] = MakerOf(ord, jb, t)[k] => j = k
<1>1. ASSUME NEW j \in NewRows(ord, jb, t)
      PROVE  /\ MakerOf(ord, jb, t)[j] \in Hits(ord, t)
             /\ RowFor(ord, jb, t, MakerOf(ord, jb, t)[j]) = j
  <2>1. j \in Jobs /\ \E m \in Hits(ord, t) : RowFor(ord, jb, t, m) = j
    BY DEF NewRows
  <2>2. MakerOf(ord, jb, t)[j] = CHOOSE m \in Hits(ord, t) : RowFor(ord, jb, t, m) = j
    BY <2>1 DEF MakerOf
  <2> QED BY <2>1, <2>2
<1>2. ASSUME NEW j \in NewRows(ord, jb, t), NEW k \in NewRows(ord, jb, t),
             MakerOf(ord, jb, t)[j] = MakerOf(ord, jb, t)[k]
      PROVE  j = k
  <2>1. RowFor(ord, jb, t, MakerOf(ord, jb, t)[j]) = j /\ RowFor(ord, jb, t, MakerOf(ord, jb, t)[k]) = k
    BY <1>1
  <2> QED BY <1>2, <2>1
<1> QED BY <1>1, <1>2

LEMMA MatchedRow ==
    ASSUME NEW ord \in Orders, NEW jb \in Queue, NEW t \in OrderIds, NEW j \in Jobs
    PROVE  LET new == MatchedJobs(ord, jb, t)[j]
               m == MakerOf(ord, jb, t)[j]
           IN  /\ j \notin NewRows(ord, jb, t) => new = jb[j]
               /\ j \in NewRows(ord, jb, t) =>
                     /\ jb[j].status = "none" /\ m \in OrderIds
                     /\ new.status = "pending" /\ new.taker = t /\ new.maker = m
                     /\ new.fill = Quantity(ord, t, m)
<1> DEFINE new == MatchedJobs(ord, jb, t)[j]
           m == MakerOf(ord, jb, t)[j]
<1>1. ASSUME j \notin NewRows(ord, jb, t) PROVE new = jb[j]
  BY <1>1 DEF NewRows, MatchedJobs
<1>2. ASSUME j \in NewRows(ord, jb, t)
      PROVE  /\ jb[j].status = "none" /\ m \in OrderIds
             /\ new.status = "pending" /\ new.taker = t /\ new.maker = m
             /\ new.fill = Quantity(ord, t, m)
  <2>1. jb[j].status = "none" /\ j \notin Rows(jb) /\ \E x \in Hits(ord, t) : RowFor(ord, jb, t, x) = j
    BY <1>2 DEF NewRows, Rows
  <2>2. new = enqueue_match(t, m, Quantity(ord, t, m))
    BY <2>1 DEF MatchedJobs, MakerOf
  <2>3. m \in OrderIds
    BY <1>2, MakersOfRows DEF Hits, Makers
  <2> HIDE DEF new, m
  <2>4. new = [status |-> "pending", taker |-> t, maker |-> m, fill |-> Quantity(ord, t, m),
               nonce |-> None, signed |-> FALSE, attempts |-> 0, consumed |-> None]
    BY <2>2 DEF enqueue_match, NoRow
  <2> QED BY <2>1, <2>3, <2>4
<1> QED BY <1>1, <1>2

LEMMA MatchedHeld ==
    ASSUME NEW ord \in Orders, NEW jb \in Queue, NEW t \in OrderIds, NEW o \in OrderIds,
           NEW S, "pending" \in S, "none" \notin S
    PROVE  LET served == Renamed(MakerOf(ord, jb, t), NewRows(ord, jb, t))
           IN  Held(MatchedJobs(ord, jb, t), o, S) = Held(jb, o, S) + SumOver(Part(ord, t, o), served)
<1> DEFINE new == MatchedJobs(ord, jb, t)
           N == NewRows(ord, jb, t)
           h == MakerOf(ord, jb, t)
           g == Part(ord, t, o)
           f == Share(jb, o, S)
           f2 == Share(new, o, S)
           d == [j \in Jobs |-> IF j \in N THEN g[h[j]] ELSE 0]
<1>1. N \in SUBSET Jobs /\ \A j \in N : h[j] \in OrderIds
  BY MakersOfRows DEF NewRows, Hits, Makers
<1>2. \A j \in N : g[h[j]] \in Nat
  BY <1>1, QuantityNat DEF Part
<1>3. ASSUME NEW j \in Jobs PROVE f[j] \in Int /\ d[j] \in Int /\ f2[j] = f[j] + d[j]
  <2>1. f[j] \in Nat
    BY HeldNat
  <2>2. CASE j \in N
    <3>1. jb[j].status = "none" /\ new[j].status = "pending" /\ new[j].taker = t /\ new[j].maker = h[j]
          /\ new[j].fill = Quantity(ord, t, h[j]) /\ h[j] \in OrderIds
      BY <2>2, MatchedRow
    <3>2. f[j] = 0
      BY <3>1 DEF Share
    <3>3. f2[j] = g[h[j]]
      <4> HIDE DEF new, h
      <4> QED BY <3>1 DEF Share, Part
    <3> QED BY <1>2, <2>2, <3>2, <3>3
  <2>3. CASE j \notin N
    <3>1. new[j] = jb[j]
      BY <2>3, MatchedRow
    <3>2. f2[j] = f[j]
      <4> HIDE DEF new
      <4> QED BY <3>1 DEF Share
    <3> QED BY <2>1, <2>3, <3>2
  <2> QED BY <2>2, <2>3
<1>4. (\A j \in N : d[j] \in Int /\ d[j] = g[h[j]]) /\ \A j \in Jobs \ N : d[j] = 0
  BY <1>1, <1>2
<1>5. \A j, k \in N : h[j] = h[k] => j = k
  BY MakersOfRows
<1> HIDE DEF N, h, g, f, f2, d
<1>6. SumOver(f2, Jobs) = SumOver(f, Jobs) + SumOver(d, Jobs)
  BY <1>3, JobsFinite, SumAdd
<1>7. SumOver(d, Jobs) = SumOver(d, N)
  BY <1>1, <1>4, JobsFinite, SumPart
<1>8. SumOver(g, Renamed(h, N)) = SumOver(d, N)
  BY <1>1, <1>4, <1>5, JobsFinite, SumRenamed
<1> QED BY <1>6, <1>7, <1>8 DEF Held, f, f2, g, h, N

(* Over all makers that are hit, the parts of an order add up to what its  *)
(* row gains.                                                              *)
Gain(ord, t, o) == IF o = t THEN Taken(ord, t) ELSE IF o \in Hits(ord, t) THEN Quantity(ord, t, o) ELSE 0

LEMMA PartsAddUp ==
    ASSUME NEW ord \in Orders, NEW t \in OrderIds, NEW o \in OrderIds
    PROVE  /\ SumOver(Part(ord, t, o), Hits(ord, t)) = Gain(ord, t, o)
           /\ \A S \in SUBSET Hits(ord, t) : SumOver(Part(ord, t, o), S) <= Gain(ord, t, o)
<1> DEFINE g == Part(ord, t, o)
           H == Hits(ord, t)
<1>1. H \in SUBSET OrderIds /\ t \notin H /\ IsFiniteSet(H) /\ \A S \in SUBSET H : IsFiniteSet(S)
  BY OrderIdsAssumption, FS_Subset DEF Hits, Makers
<1>2. \A m \in H : g[m] \in Nat
  BY <1>1, QuantityNat DEF Part
<1>3. SumOver(g, H) = Gain(ord, t, o)
  <2>1. CASE o = t
    <3> DEFINE q == [m \in OrderIds |-> Quantity(ord, t, m)]
    <3>1. \A m \in H : g[m] = q[m]
      BY <1>1, <2>1 DEF Part
    <3>2. SumOver(g, H) = SumOver(q, H)
      <4> HIDE DEF g, q, H
      <4> QED BY <1>1, <3>1, SumSame
    <3> QED BY <2>1, <3>2, TakenSum DEF Gain
  <2>2. CASE o # t /\ o \in H
    <3>1. g[o] = Quantity(ord, t, o) /\ \A m \in H \ {o} : g[m] = 0
      BY <1>1, <2>2 DEF Part
    <3>2. SumOver(g, H) = g[o] + SumOver(g, H \ {o})
      <4> HIDE DEF g, H
      <4> QED BY <1>1, <1>2, <2>2, SumRemove
    <3>3. SumOver(g, H \ {o}) = 0
      <4>1. IsFiniteSet(H \ {o})
        BY <1>1
      <4> HIDE DEF g, H
      <4> QED BY <3>1, <4>1, SumZero
    <3>4. g[o] \in Nat
      BY <1>2, <2>2
    <3>5. SumOver(g, H) = g[o]
      BY <3>2, <3>3, <3>4
    <3> QED BY <2>2, <3>1, <3>5 DEF Gain
  <2>3. CASE o # t /\ o \notin H
    <3>1. \A m \in H : g[m] = 0
      BY <1>1, <2>3 DEF Part
    <3>2. SumOver(g, H) = 0
      <4> HIDE DEF g, H
      <4> QED BY <1>1, <3>1, SumZero
    <3> QED BY <2>3, <3>2 DEF Gain
  <2> QED BY <2>1, <2>2, <2>3
<1>4. ASSUME NEW S \in SUBSET H PROVE SumOver(g, S) <= SumOver(g, H)
  <2> DEFINE z == [m \in H |-> IF m \in S THEN g[m] ELSE 0]
  <2>1. /\ \A m \in S : g[m] \in Int /\ z[m] = g[m]
        /\ \A m \in H \ S : z[m] = 0
        /\ \A m \in H : z[m] \in Int /\ g[m] \in Int /\ z[m] <= g[m]
    BY <1>2
  <2> HIDE DEF z, g, H
  <2>2. SumOver(z, H) = SumOver(g, S)
    BY <1>1, <2>1, SumPart
  <2>3. SumOver(z, H) <= SumOver(g, H)
    BY <1>1, <2>1, SumMonotone
  <2> QED BY <2>2, <2>3
<1> QED BY <1>3, <1>4

LEMMA MatchedGain ==
    ASSUME NEW ord \in Orders, NEW t \in OrderIds, NEW o \in OrderIds
    PROVE  MatchedOrders(ord, t)[o].filled = ord[o].filled + Gain(ord, t, o) /\ Gain(ord, t, o) \in Nat
<1>1. t \notin Hits(ord, t)
  BY DEF Hits, Makers
<1>2. ord[o] \in OrderRow /\ Taken(ord, t) \in Nat /\ Quantity(ord, t, o) \in Nat
  BY TakenNat, QuantityNat DEF Orders
<1>3. CASE o = t
  BY <1>2, <1>3 DEF MatchedOrders, Gain, OrderRow
<1>4. CASE o # t /\ o \in Hits(ord, t)
  BY <1>2, <1>4 DEF MatchedOrders, Gain, OrderRow
<1>5. CASE o # t /\ o \notin Hits(ord, t)
  BY <1>2, <1>5 DEF MatchedOrders, Gain, OrderRow
<1> QED BY <1>3, <1>4, <1>5

(* A match keeps the book covered.                                         *)
LEMMA MatchedCovered ==
    ASSUME NEW ord \in Orders, NEW jb \in Queue, NEW t \in OrderIds, Covered(ord, jb)
    PROVE  Covered(MatchedOrders(ord, t), MatchedJobs(ord, jb, t))
<1> SUFFICES ASSUME NEW o \in OrderIds PROVE Covers(MatchedOrders(ord, t), MatchedJobs(ord, jb, t), o)
  BY DEF Covered
<1> DEFINE served == Renamed(MakerOf(ord, jb, t), NewRows(ord, jb, t))
           n == SumOver(Part(ord, t, o), served)
           gain == Gain(ord, t, o)
           a == ord[o].filled
           h == Held(jb, o, LIVE)
<1>1. Held(MatchedJobs(ord, jb, t), o, LIVE) = h + n
  <2>1. "pending" \in LIVE /\ "none" \notin LIVE
    BY DEF LIVE
  <2> QED BY <2>1, MatchedHeld
<1>2. n <= gain
  <2>1. served \in SUBSET Hits(ord, t)
    BY MakersOfRows DEF Renamed
  <2> QED BY <2>1, PartsAddUp
<1>3. MatchedOrders(ord, t)[o].filled = a + gain /\ gain \in Nat
  BY MatchedGain
<1>4. h <= a /\ a <= Book[o].amount /\ h \in Nat /\ a \in Nat /\ Book[o].amount \in Nat
  BY HeldNat, BookAssumption DEF Covered, Covers, Orders, OrderRow
<1>5. \A x \in OrderIds : _remaining(ord, x) \in Int /\ _remaining(ord, x) >= 0
  BY BookAssumption DEF Covered, Covers, Orders, OrderRow, _remaining
<1>6. gain <= _remaining(ord, o)
  <2>1. Taken(ord, t) <= _remaining(ord, t)
    BY <1>5, TakenBound
  <2>2. Quantity(ord, t, o) <= _remaining(ord, o)
    BY <1>5, QuantityBound
  <2> QED BY <1>5, <2>1, <2>2 DEF Gain
<1>7. _remaining(ord, o) = Book[o].amount - a
  BY DEF _remaining
<1>8. n \in Int
  <2>1. \A m \in served : Part(ord, t, o)[m] \in Int
    BY QuantityNat, MakersOfRows DEF Renamed, Part, Hits, Makers
  <2>2. IsFiniteSet(served)
    <3>1. served \in SUBSET OrderIds
      BY MakersOfRows DEF Renamed, Hits, Makers
    <3> QED BY <3>1, OrderIdsAssumption, FS_Subset
  <2> QED BY <2>1, <2>2, SumInt
<1> HIDE DEF n, gain, a, h
<1>9. h + n <= a + gain /\ a + gain <= Book[o].amount
  BY <1>2, <1>3, <1>4, <1>6, <1>7, <1>8
<1> QED BY <1>1, <1>3, <1>9 DEF Covers

(* What becomes of the tables when a job fails at the expense of a side.   *)
LEMMA RetireShape ==
    ASSUME order \in Orders, job \in Queue, chain \in Seq(Event), seen \in 0..Len(chain),
           NEW j \in Jobs, job[j].taker \in OrderIds, job[j].maker \in OrderIds, FailAndRetire(j)
    PROVE  LET t == job[j].taker
               ord == Lowered(order, {j})
               jb == WithStatus(job, {j}, "failed")
           IN  \E culled \in Orders :
                 /\ \A o \in OrderIds :
                       \/ culled[o].filled = ord[o].filled
                       \/ /\ o \in _orders(j) /\ FilledOnChain(o, Len(chain)) + job[j].fill > Book[o].amount
                          /\ \E k \in 0..Len(chain) : culled[o].filled = _resync_filled(ord, jb, o, k)
                 /\ \/ order' = culled /\ job' = jb
                    \/ /\ HasRoom(culled, jb, t)
                       /\ order' = MatchedOrders(culled, t) /\ job' = MatchedJobs(culled, jb, t)
<1> DEFINE t == job[j].taker
           ord == Lowered(order, {j})
           jb == WithStatus(job, {j}, "failed")
           Over == {o \in _orders(j) : FilledOnChain(o, Len(chain)) + job[j].fill > Book[o].amount}
<1>1. PICK culprits \in SUBSET _orders(j), over \in SUBSET Over :
        \E view \in [over -> seen..Len(chain)] : _retire_failed_side(ord, jb, j, culprits, view)
  BY DEF FailAndRetire
<1>2. PICK view \in [over -> seen..Len(chain)] : _retire_failed_side(ord, jb, j, culprits, view)
  BY <1>1
<1>3. ord \in Orders
  BY LoweredType
<1>4. jb \in Queue
  <2>1. "failed" \in Statuses
    BY DEF Statuses, TERMINAL
  <2> QED BY <2>1, WithStatusType
<1> DEFINE culled == [o \in OrderIds |->
                        [ord[o] EXCEPT !.filled = IF o \in DOMAIN view THEN _resync_filled(ord, jb, o, view[o]) ELSE @,
                                       !.cancelled = @ \/ o \in culprits]]
<1>5. \/ order' = culled /\ job' = jb
      \/ /\ HasRoom(culled, jb, t)
         /\ order' = MatchedOrders(culled, t) /\ job' = MatchedJobs(culled, jb, t)
  BY <1>2 DEF _retire_failed_side
<1> HIDE DEF ord, jb
<1>6. ASSUME NEW o \in OrderIds, o \in DOMAIN view
      PROVE  _resync_filled(ord, jb, o, view[o]) \in Nat /\ view[o] \in 0..Len(chain)
  <2>1. view[o] \in 0..Len(chain)
    BY <1>6
  <2> QED BY <1>4, <2>1, ResyncNat
<1>7. \A o \in OrderIds : ord[o] \in OrderRow
  BY <1>3 DEF Orders
<1>8. culled \in Orders
  BY ZenonT(60), <1>6, <1>7 DEF Orders, OrderRow
<1>9. ASSUME NEW o \in OrderIds
      PROVE  \/ culled[o].filled = ord[o].filled
             \/ /\ o \in _orders(j) /\ FilledOnChain(o, Len(chain)) + job[j].fill > Book[o].amount
                /\ \E k \in 0..Len(chain) : culled[o].filled = _resync_filled(ord, jb, o, k)
  <2>1. culled[o].filled = IF o \in DOMAIN view THEN _resync_filled(ord, jb, o, view[o]) ELSE ord[o].filled
    BY <1>7 DEF OrderRow
  <2>2. DOMAIN view \subseteq Over
    OBVIOUS
  <2> HIDE DEF culled
  <2> QED BY <1>6, <2>1, <2>2
<1> HIDE DEF culled
<1> QED BY <1>5, <1>8, <1>9 DEF ord, jb

(* A resync covers the live jobs too.                                      *)
LEMMA ResyncCovers ==
    ASSUME chain \in Seq(Event), NEW ord, NEW jb \in Queue, NEW o \in OrderIds, NEW k \in 0..Len(chain),
           Held(jb, o, LIVE) <= Book[o].amount
    PROVE  /\ Held(jb, o, LIVE) <= _resync_filled(ord, jb, o, k)
           /\ _resync_filled(ord, jb, o, k) <= Book[o].amount
<1> DEFINE h == Held(jb, o, LIVE)
           c == FilledOnChain(o, k)
<1>1. h \in Nat /\ c \in Nat /\ Book[o].amount \in Nat
  BY HeldNat, FilledOnChainNat, BookAssumption
<1>2. _resync_filled(ord, jb, o, k) = Min({Book[o].amount, c + h})
  BY HeldFills DEF _resync_filled
<1> HIDE DEF h, c
<1>3. h <= Min({Book[o].amount, c + h}) /\ Min({Book[o].amount, c + h}) <= Book[o].amount
  <2>1. c + h \in Int /\ Book[o].amount \in Int
    BY <1>1
  <2>2. Min({Book[o].amount, c + h}) = IF Book[o].amount <= c + h THEN Book[o].amount ELSE c + h
    BY <2>1, MinOfTwo
  <2> QED BY <1>1, <2>2 DEF h
<1> QED BY <1>2, <1>3 DEF h

LEMMA RetireCovered ==
    ASSUME BaseInv, Covered(order, job), NEW j \in Jobs, job[j].status \in LIVE, FailAndRetire(j)
    PROVE  Covered(order', job')
<1> DEFINE t == job[j].taker
           ord == Lowered(order, {j})
           jb == WithStatus(job, {j}, "failed")
<1>1. /\ order \in Orders /\ job \in Queue /\ chain \in Seq(Event) /\ seen \in 0..Len(chain)
      /\ t \in OrderIds /\ job[j].maker \in OrderIds
  BY DEF BaseInv, TypeOK, Orders, Queue, RowsOwned, LIVE
<1>2. ord \in Orders /\ jb \in Queue /\ Covered(ord, jb)
  <2>1. "failed" \in Statuses \ LIVE
    BY DEF Statuses, TERMINAL, LIVE
  <2> QED BY <1>1, <2>1, LoweredType, WithStatusType, LoweredCovered
<1>3. PICK culled \in Orders :
        /\ \A o \in OrderIds :
              \/ culled[o].filled = ord[o].filled
              \/ \E k \in 0..Len(chain) : culled[o].filled = _resync_filled(ord, jb, o, k)
        /\ \/ order' = culled /\ job' = jb
           \/ order' = MatchedOrders(culled, t) /\ job' = MatchedJobs(culled, jb, t)
  BY <1>1, RetireShape
<1> HIDE DEF ord, jb
<1>4. Covered(culled, jb)
  <2> SUFFICES ASSUME NEW o \in OrderIds PROVE Covers(culled, jb, o)
    BY DEF Covered
  <2>1. Covers(ord, jb, o)
    BY <1>2 DEF Covered
  <2>2. CASE culled[o].filled = ord[o].filled
    BY <2>1, <2>2 DEF Covers
  <2>3. ASSUME NEW k \in 0..Len(chain), culled[o].filled = _resync_filled(ord, jb, o, k)
        PROVE  Covers(culled, jb, o)
    <3>1. Held(jb, o, LIVE) <= Book[o].amount
      <4>1. Held(jb, o, LIVE) \in Nat /\ ord[o].filled \in Nat /\ Book[o].amount \in Nat
        BY <1>2, HeldNat, BookAssumption DEF Orders, OrderRow
      <4> QED BY <2>1, <4>1 DEF Covers
    <3> QED BY <1>1, <1>2, <2>3, <3>1, ResyncCovers DEF Covers
  <2> QED BY <1>3, <2>2, <2>3
<1>5. Covered(MatchedOrders(culled, t), MatchedJobs(culled, jb, t))
  BY <1>1, <1>2, <1>4, MatchedCovered
<1> QED BY <1>3, <1>4, <1>5

(* A write to one row that leaves the orders alone keeps them covered.     *)
LEMMA BookRow ==
    ASSUME BaseInv, Covered(order, job), UNCHANGED order, NEW j \in Jobs, Tables(j), Moves(j),
           \A k \in Jobs \ {j} : job'[k] = job[k]
    PROVE  Covered(order', job')
<1>1. order \in Orders /\ job \in Queue /\ job' \in Queue
  BY DEF BaseInv, TypeOK, Orders, Queue, Tables
<1>2. \/ job'[j].status \notin LIVE
      \/ /\ job[j].status \in LIVE /\ job'[j].fill = job[j].fill
         /\ job'[j].taker = job[j].taker /\ job'[j].maker = job[j].maker
  BY DEF Moves, Withdraws, Retries, Claims, Releases, Carries, Settles, Fails, Keeps, LIVE, IN_FLIGHT
<1>3. Covered(order, job')
  BY <1>1, <1>2, CoveredLess
<1> QED BY <1>3

LEMMA ReceiptCovered ==
    ASSUME BaseInv, Covered(order, job), NEW j \in Jobs, job[j].status \in IN_FLIGHT,
           NEW i \in Receipts(j), _apply_receipt(j, i)
    PROVE  Covered(order', job')
<1>1. job[j].status \in LIVE /\ job \in Queue /\ order \in Orders
  BY DEF IN_FLIGHT, LIVE, BaseInv, TypeOK, Queue, Orders
<1>2. ASSUME UNCHANGED order, _confirm(j) \/ job' = [job EXCEPT ![j].status = "sent"] PROVE Covered(order', job')
  <2>1. \A k \in Jobs \ {j} : job'[k] = job[k]
    BY <1>1, <1>2 DEF _confirm, Queue
  <2>2. CASE _confirm(j)
    BY <1>2, <2>1, <2>2, Confirms, BookRow DEF Moves
  <2>3. CASE job' = [job EXCEPT ![j].status = "sent"]
    <3>1. job[j] \in JobRow /\ job'[j] = [job[j] EXCEPT !.status = "sent"]
      BY <1>1, <2>3 DEF Queue
    <3>2. /\ job'[j] \in JobRow
          /\ job'[j].fill = job[j].fill /\ job'[j].taker = job[j].taker /\ job'[j].maker = job[j].maker
      BY <3>1 DEF JobRow, Statuses, LIVE
    <3>3. job' \in Queue
      <4>1. job' = [k \in Jobs |-> job'[k]] /\ \A k \in Jobs : job[k] \in JobRow
        BY <1>1, <2>3 DEF Queue
      <4> QED BY <2>1, <3>2, <4>1 DEF Queue
    <3>4. Covered(order, job')
      BY <1>1, <2>1, <3>2, <3>3, CoveredLess
    <3> QED BY <1>2, <3>4
  <2> QED BY <1>2, <2>2, <2>3
<1>3. ASSUME order' = Lowered(order, {j}), job' = WithStatus(job, {j}, "failed") PROVE Covered(order', job')
  <2>1. "failed" \in Statuses \ LIVE
    BY DEF Statuses, TERMINAL, LIVE
  <2> QED BY <1>1, <1>3, <2>1, LoweredCovered
<1> QED BY <1>1, <1>2, <1>3, RetireCovered DEF _apply_receipt

LEMMA BookWorker == ASSUME BaseInv, Covered(order, job), WorkerStep PROVE Covered(order', job')
<1> DEFINE Goal == Covered(order', job')
<1>a. job \in Queue /\ order \in Orders
  BY DEF BaseInv, TypeOK, Queue, Orders
<1>b. order' = order /\ job' = job => Goal
  OBVIOUS
<1>c. \A s \in {"failed", "cancelled"} : s \in Statuses \ LIVE
  BY DEF Statuses, TERMINAL, LIVE
<1> HIDE DEF Goal
<1> USE DEF dbVars
<1>1. ASSUME SendConfirm PROVE Goal
  <2>1. \A k \in Jobs \ {work.job} : job'[k] = job[k]
    BY <1>1, <1>a DEF SendConfirm, _confirm, Queue
  <2> QED BY <1>1, <2>1, SendConfirmRow, BookRow DEF Goal, SendConfirm, Moves
<1>2. ASSUME SendPreflight \/ SendDefer \/ NoteResend PROVE Goal
  BY <1>2, <1>b DEF SendPreflight, SendDefer, NoteResend
<1>3. ASSUME SendFail PROVE Goal
  <2>1. work.job \in Jobs /\ job[work.job].status \in LIVE
    BY <1>3 DEF SendFail, BaseInv, WorkerHolds, LIVE
  <2>2. ASSUME order' = Lowered(order, {work.job}), job' = WithStatus(job, {work.job}, "failed") PROVE Goal
    BY <1>a, <1>c, <2>1, <2>2, LoweredCovered DEF Goal
  <2> QED BY <1>3, <2>1, <2>2, RetireCovered DEF Goal, SendFail
<1>4. ASSUME SendRetry PROVE Goal
  <2>1. \A k \in Jobs \ {work.job} : job'[k] = job[k]
    BY <1>4, <1>a DEF SendRetry, Queue
  <2> QED BY <1>4, <2>1, SendRetryRow, BookRow DEF Goal, SendRetry, Moves
<1>5. ASSUME NEW p \in PendingNonces, SendClaim(p) PROVE Goal
  <2>1. \A k \in Jobs \ {work.job} : job'[k] = job[k]
    BY <1>5, <1>a DEF SendClaim, Queue
  <2> QED BY <1>5, <2>1, SendClaimRow, BookRow DEF Goal, SendClaim, Moves
<1>6. ASSUME NEW kind \in Kinds, Broadcast(kind) PROVE Goal
  BY <1>6, <1>b DEF Broadcast
<1>7. ASSUME NoteNonceLow PROVE Goal
  <2> DEFINE j == work.job
  <2>1. j \in Jobs /\ job[j].status \in IN_FLIGHT
    BY <1>7 DEF NoteNonceLow, BaseInv, WorkerHolds
  <2>2. ASSUME NEW i \in Receipts(j), _apply_receipt(j, i) PROVE Goal
    BY <2>1, <2>2, ReceiptCovered DEF Goal
  <2>3. ASSUME job' = [job EXCEPT ![j].status = "sent", ![j].consumed = IF @ = None THEN Len(chain) ELSE @],
               UNCHANGED order
        PROVE  Goal
    <3>1. \A k \in Jobs \ {j} : job'[k] = job[k]
      BY <1>a, <2>3 DEF Queue
    <3> QED BY <1>7, <2>3, <3>1, NoteNonceLowRow, BookRow DEF Goal, Moves
  <2> QED BY <1>7, <2>2, <2>3 DEF NoteNonceLow, _nonce_consumed
<1>8. ASSUME NoteSent PROVE Goal
  <2>1. \A k \in Jobs \ {work.job} : job'[k] = job[k]
    BY <1>8, <1>a DEF NoteSent, Queue
  <2> QED BY <1>8, <2>1, NoteSentRow, BookRow DEF Goal, NoteSent, Moves
<1>9. ASSUME NoteRefused PROVE Goal
  <2>1. \A k \in Jobs \ {work.job} : job'[k] = job[k]
    BY <1>9, <1>a DEF NoteRefused, _back_to_pending, Queue
  <2> QED BY <1>9, <2>1, NoteRefusedRow, BookRow DEF Goal, NoteRefused, Moves
<1>10. ASSUME NoteUnknown PROVE Goal
  <2>1. \A k \in Jobs \ {work.job} : job'[k] = job[k]
    BY <1>10, <1>a DEF NoteUnknown, Queue
  <2> QED BY <1>10, <2>1, NoteUnknownRow, BookRow DEF Goal, NoteUnknown, Moves
<1>11. ASSUME NoteRebroadcast PROVE Goal
  <2>1. \A k \in Jobs \ {work.job} : job'[k] = job[k]
    <3>1. work.kind \in Kinds
      BY DEF BaseInv, TypeOK, Work
    <3> QED BY <1>11, <1>a, <3>1 DEF NoteRebroadcast, Queue, Kinds
  <2> QED BY <1>11, <2>1, NoteRebroadcastRow, BookRow DEF Goal, NoteRebroadcast, Moves
<1>12. ASSUME NEW j \in Jobs, SendLanded(j) \/ SendCheck(j) \/ Rebroadcast(j) \/ Stuck(j) PROVE Goal
  BY <1>12, <1>b DEF SendLanded, SendCheck, Rebroadcast, Stuck
<1>13. ASSUME NEW j \in Jobs, SendCancelled(j) PROVE Goal
  <2>1. job[j].status \in LIVE
    BY <1>13 DEF SendCancelled, LIVE
  <2> QED BY <1>13, <1>a, <1>c, <2>1, LoweredCovered DEF Goal, SendCancelled
<1>14. ASSUME NEW j \in Jobs, ReconcileReceipt(j) PROVE Goal
  BY <1>14, ReceiptCovered DEF Goal, ReconcileReceipt
<1>15. ASSUME NEW j \in Jobs, Bump(j) PROVE Goal
  <2>1. \A k \in Jobs \ {j} : job'[k] = job[k]
    BY <1>15, <1>a DEF Bump, Queue
  <2> QED BY <1>15, <2>1, BumpRow, BookRow DEF Goal, Bump, Moves
<1>16. ASSUME NEW j \in Jobs, SettleNotMined(j) \/ SettleMaybe(j) PROVE Goal
  <2>1. \A k \in Jobs \ {j} : job'[k] = job[k]
    BY <1>16, <1>a DEF SettleNotMined, SettleMaybe, Queue
  <2> QED BY <1>16, <2>1, ConsumedRow, BookRow DEF Goal, SettleNotMined, SettleMaybe, Settling, Moves
<1>17. ASSUME NEW j \in Jobs, SettleLanded(j) PROVE Goal
  <2>1. \A k \in Jobs \ {j} : job'[k] = job[k]
    BY <1>17, <1>a DEF SettleLanded, _confirm, Queue
  <2> QED BY <1>17, <2>1, Confirms, BookRow DEF Goal, SettleLanded, Moves
<1>18. ASSUME NEW j \in Jobs, SettleAbsent(j) PROVE Goal
  <2>1. \A k \in Jobs \ {j} : job'[k] = job[k]
    BY <1>18, <1>a DEF SettleAbsent, _back_to_pending, Queue
  <2> QED BY <1>18, <2>1, BackToPending, BookRow DEF Goal, SettleAbsent, Settling, IN_FLIGHT, Moves
<1>19. Goal
  BY <1>1, <1>2, <1>3, <1>4, <1>5, <1>6, <1>7, <1>8, <1>9, <1>10, <1>11, <1>12, <1>13, <1>14, <1>15,
     <1>16, <1>17, <1>18 DEF WorkerStep
<1> QED BY <1>19 DEF Goal

LEMMA SameFilled ==
    ASSUME NEW ord, NEW ord2, NEW jb, Covered(ord, jb), \A o \in OrderIds : ord2[o].filled = ord[o].filled
    PROVE  Covered(ord2, jb)
  BY DEF Covered, Covers

BookInv == Covered(order, job)

LEMMA BookStep == BaseInv /\ BookInv /\ [Next]_vars => BookInv'
<1> USE DEF BookInv
<1> SUFFICES ASSUME BaseInv, Covered(order, job), [Next]_vars PROVE Covered(order', job')
  OBVIOUS
<1>a. job \in Queue /\ order \in Orders
  BY DEF BaseInv, TypeOK, Queue, Orders
<1>1. ASSUME NEW o \in OrderIds, post_order(o) PROVE Covered(order', job')
  <2> DEFINE ord == [order EXCEPT ![o].posted = TRUE]
  <2>1. ord \in Orders /\ \A x \in OrderIds : ord[x].filled = order[x].filled
    BY <1>a DEF Orders, OrderRow
  <2>2. order' = MatchedOrders(ord, o) /\ job' = MatchedJobs(ord, job, o)
    BY <1>1 DEF post_order
  <2> HIDE DEF ord
  <2>3. Covered(ord, job)
    BY <2>1, SameFilled
  <2> QED BY <1>a, <2>1, <2>2, <2>3, MatchedCovered
<1>2. ASSUME cancel_commit PROVE Covered(order', job')
  <2> DEFINE ord == [order EXCEPT ![cancel.order].cancelled = TRUE]
             undone == {j \in cancel.jobs : job[j].status = "pending"}
  <2>1. ord \in Orders /\ \A x \in OrderIds : ord[x].filled = order[x].filled
    BY <1>a DEF Orders, OrderRow
  <2>2. order' = Lowered(ord, undone) /\ job' = WithStatus(job, undone, "cancelled")
    BY <1>2 DEF cancel_commit
  <2>3. undone \in SUBSET Jobs /\ (\A j \in undone : job[j].status \in LIVE) /\ "cancelled" \in Statuses \ LIVE
    BY DEF BaseInv, TypeOK, LIVE, Statuses, TERMINAL
  <2> HIDE DEF ord, undone
  <2>4. Covered(ord, job)
    BY <2>1, SameFilled
  <2> QED BY <1>a, <2>1, <2>2, <2>3, <2>4, LoweredCovered
<1>3. ASSUME NEW o \in OrderIds, cancel_read(o) PROVE Covered(order', job')
  BY <1>3 DEF cancel_read, dbVars
<1>4. ASSUME ChainStep \/ _ensure_leader \/ Crash \/ UNCHANGED vars PROVE Covered(order', job')
  BY <1>4 DEF ChainStep, Mine, ForeignSend, Evict, ExternalFill, CatchUp, _ensure_leader, Crash, dbVars, vars
<1> QED BY <1>1, <1>2, <1>3, <1>4, BookWorker DEF Next

LEMMA BookInit == Init => BookInv
<1> USE DEF BookInv
<1> SUFFICES ASSUME Init, NEW o \in OrderIds PROVE Covers(order, job, o)
  BY DEF Covered
<1> DEFINE f == Share(job, o, LIVE)
<1>1. \A j \in Jobs : f[j] = 0
  BY DEF Init, NoRow, Share, LIVE
<1> HIDE DEF f
<1>2. SumOver(f, Jobs) = 0
  BY <1>1, JobsFinite, SumZero
<1>3. order[o].filled = 0 /\ Book[o].amount \in Nat
  BY BookAssumption DEF Init
<1> QED BY <1>2, <1>3 DEF Covers, Held, f

LEMMA FillOfHeld ==
    ASSUME job \in Queue, NEW o \in OrderIds, NEW S
    PROVE  FillOf(WithStatusIn(S), o) = Held(job, o, S)
<1>1. {j \in WithStatusIn(S) : Touches(j, o)}
        = {j \in Jobs : job[j].status \in S /\ o \in {job[j].taker, job[j].maker}}
  BY DEF WithStatusIn, Touches, _orders
<1> QED BY <1>1, HeldFills DEF FillOf

(* For every book and every schedule, with fills by others and nodes that  *)
(* call a pooled nonce used included: the optimistic fill of an order      *)
(* always covers its live jobs and never exceeds what its maker signed.    *)
(* Matching shares a taker out among the makers in line, each rollback     *)
(* gives back what the job took, and a resync counts the live jobs in.     *)
THEOREM BookAlwaysCovered == Spec => []BookCovered
<1>1. BaseInv /\ BookInv => BookCovered
  <2> SUFFICES ASSUME BaseInv, BookInv, NEW o \in OrderIds
               PROVE  FillOf(WithStatusIn(LIVE), o) <= order[o].filled /\ order[o].filled <= Book[o].amount
    BY DEF BookCovered
  <2>1. job \in Queue
    BY DEF BaseInv, TypeOK, Queue
  <2> QED BY <2>1, FillOfHeld DEF BookInv, Covered, Covers
<1> QED BY <1>1, BookInit, BookStep, BaseHolds, PTL DEF Spec
----------------------------------------------------------------------------
(* The exact book.  Row ids are given out without gaps, so a match finds   *)
(* a fresh row for every maker it hits.                                    *)
Packed(jb) == \E c \in 0..MaxJobs : Rows(jb) = 1..c

LEMMA RowForRange ==
    ASSUME NEW ord \in Orders, NEW jb \in Queue, NEW t \in OrderIds,
           NEW c \in 0..MaxJobs, Rows(jb) = 1..c, HasRoom(ord, jb, t)
    PROVE  LET n == Cardinality(Hits(ord, t))
           IN  /\ n \in Nat /\ c + n <= MaxJobs
               /\ \A m \in Hits(ord, t) : RowFor(ord, jb, t, m) \in (c + 1)..(c + n)
               /\ \A m, x \in Hits(ord, t) : RowFor(ord, jb, t, m) = RowFor(ord, jb, t, x) => m = x
               /\ \A j \in (c + 1)..(c + n) : \E m \in Hits(ord, t) : RowFor(ord, jb, t, m) = j
<1> DEFINE H == Hits(ord, t)
           n == Cardinality(H)
           Before(m) == {x \in H : Ahead(t, x, m)}
           row == [m \in H |-> RowFor(ord, jb, t, m)]
<1>1. H \in SUBSET OrderIds /\ IsFiniteSet(H) /\ n \in Nat
  BY OrderIdsAssumption, FS_Subset, FS_CardinalityType DEF Hits, Makers
<1>2. c \in Nat /\ MaxJobs \in Nat /\ Cardinality(Rows(jb)) = c
  BY BoundsAssumption, FS_Interval
<1>3. c + n <= MaxJobs
  BY <1>2 DEF HasRoom
<1>4. \A m \in H : RowFor(ord, jb, t, m) = c + Cardinality(Before(m)) + 1
  BY <1>2 DEF RowFor
<1>5. ASSUME NEW m \in H
      PROVE  IsFiniteSet(Before(m)) /\ Cardinality(Before(m)) \in Nat /\ Cardinality(Before(m)) < n
  <2>1. Before(m) \in SUBSET H /\ m \notin Before(m)
    BY <1>1, AheadOrder
  <2>2. IsFiniteSet(Before(m)) /\ Cardinality(Before(m)) <= n /\ Cardinality(Before(m)) # n
    <3> HIDE DEF Before, H
    <3> QED BY <1>1, <2>1, FS_Subset
  <2>3. Cardinality(Before(m)) \in Nat
    BY <2>2, FS_CardinalityType
  <2> QED BY <1>1, <2>2, <2>3
<1>6. \A m \in H : RowFor(ord, jb, t, m) \in (c + 1)..(c + n)
  <2> HIDE DEF H, n, Before
  <2> QED BY <1>1, <1>2, <1>4, <1>5
<1>7. ASSUME NEW m \in H, NEW x \in H, Ahead(t, m, x)
      PROVE  RowFor(ord, jb, t, m) < RowFor(ord, jb, t, x)
  <2>1. Before(m) \in SUBSET Before(x) /\ m \in Before(x) /\ m \notin Before(m)
    BY <1>1, <1>7, AheadOrder
  <2>2. Cardinality(Before(m)) <= Cardinality(Before(x)) /\ Cardinality(Before(m)) # Cardinality(Before(x))
    <3>1. IsFiniteSet(Before(x)) /\ Before(m) # Before(x)
      BY <1>5, <2>1
    <3> HIDE DEF Before, H
    <3> QED BY <2>1, <3>1, FS_Subset
  <2> HIDE DEF Before, H, n
  <2> QED BY <1>2, <1>4, <1>5, <2>2
<1>8. \A m, x \in H : RowFor(ord, jb, t, m) = RowFor(ord, jb, t, x) => m = x
  <2>1. \A m \in H : RowFor(ord, jb, t, m) \in Int
    <3> HIDE DEF H, n
    <3> QED BY <1>1, <1>2, <1>6
  <2>2. \A m, x \in H : m # x => Ahead(t, m, x) \/ Ahead(t, x, m)
    BY <1>1, AheadOrder
  <2> HIDE DEF H
  <2> QED BY <1>7, <2>1, <2>2
<1>9. \A j \in (c + 1)..(c + n) : \E m \in H : RowFor(ord, jb, t, m) = j
  <2> DEFINE I == (c + 1)..(c + n)
  <2>1. IsFiniteSet(I) /\ Cardinality(I) = n
    <3>1. c + 1 \in Int /\ c + n \in Int
      BY <1>1, <1>2
    <3>2. IsFiniteSet(I) /\ Cardinality(I) = IF c + 1 > c + n THEN 0 ELSE (c + n) - (c + 1) + 1
      BY <3>1, FS_Interval
    <3> HIDE DEF I, n
    <3> QED BY <1>1, <1>2, <3>2
  <2>2. row \in Injection(H, I)
    <3>1. row \in [H -> I]
      BY <1>6
    <3>2. \A m, x \in H : row[m] = row[x] => m = x
      BY <1>8
    <3> HIDE DEF row, H, I
    <3> QED BY <3>1, <3>2 DEF Injection, IsInjective
  <2>3. row \in Surjection(H, I)
    <3> HIDE DEF row, H, I
    <3> QED BY <2>1, <2>2, FS_Injection DEF n
  <2>4. \A j \in I : \E m \in H : row[m] = j
    <3> HIDE DEF row, H, I
    <3> QED BY <2>3 DEF Surjection
  <2> QED BY <2>4
<1> QED BY <1>1, <1>3, <1>6, <1>8, <1>9

LEMMA MatchedPacked ==
    ASSUME NEW ord \in Orders, NEW jb \in Queue, NEW t \in OrderIds, Packed(jb), HasRoom(ord, jb, t)
    PROVE  /\ Packed(MatchedJobs(ord, jb, t))
           /\ Renamed(MakerOf(ord, jb, t), NewRows(ord, jb, t)) = Hits(ord, t)
<1> DEFINE H == Hits(ord, t)
           n == Cardinality(H)
           N == NewRows(ord, jb, t)
           new == MatchedJobs(ord, jb, t)
           Row(m) == RowFor(ord, jb, t, m)
<1>1. PICK c \in 0..MaxJobs : Rows(jb) = 1..c
  BY DEF Packed
<1>2. /\ n \in Nat /\ c + n <= MaxJobs
      /\ \A m \in H : Row(m) \in (c + 1)..(c + n)
      /\ \A m, x \in H : Row(m) = Row(x) => m = x
      /\ \A j \in (c + 1)..(c + n) : \E m \in H : Row(m) = j
  BY <1>1, RowForRange
<1>3. c \in Nat /\ MaxJobs \in Nat
  BY BoundsAssumption
<1>4. N = (c + 1)..(c + n)
  <2>1. N = {j \in Jobs \ (1..c) : \E m \in H : Row(m) = j}
    BY <1>1 DEF NewRows
  <2>2. (c + 1)..(c + n) \subseteq Jobs \ (1..c)
    <3> HIDE DEF n
    <3> QED BY <1>2, <1>3 DEF Jobs
  <2> HIDE DEF N, H, n, Row
  <2> QED BY <1>2, <2>1, <2>2
<1>5. Rows(new) = 1..(c + n)
  <2>1. \A j \in Jobs : new[j].status # "none" <=> j \in N \/ j \in Rows(jb)
    <3> SUFFICES ASSUME NEW j \in Jobs PROVE new[j].status # "none" <=> j \in N \/ j \in Rows(jb)
      OBVIOUS
    <3>1. CASE j \in N
      BY <3>1, MatchedRow
    <3>2. CASE j \notin N
      BY <3>2, MatchedRow DEF Rows
    <3> QED BY <3>1, <3>2
  <2>2. Rows(new) = {j \in Jobs : j \in (c + 1)..(c + n) \/ j \in 1..c}
    BY <1>1, <1>4, <2>1 DEF Rows
  <2> HIDE DEF new, N, H, n
  <2> QED BY <1>2, <1>3, <2>2 DEF Jobs
<1>6. Packed(new)
  <2>1. c + n \in 0..MaxJobs
    <3> HIDE DEF n
    <3> QED BY <1>2, <1>3
  <2> HIDE DEF new, n
  <2> QED BY <1>5, <2>1 DEF Packed
<1>7. Renamed(MakerOf(ord, jb, t), N) = H
  <2> DEFINE h == MakerOf(ord, jb, t)
  <2>1. \A j \in N : h[j] \in H /\ Row(h[j]) = j
    BY MakersOfRows
  <2>2. ASSUME NEW m \in H PROVE Row(m) \in N /\ h[Row(m)] = m
    <3>1. Row(m) \in N
      BY <1>2, <1>4
    <3>2. h[Row(m)] \in H /\ Row(h[Row(m)]) = Row(m)
      BY <2>1, <3>1
    <3> HIDE DEF H, Row, h
    <3> QED BY <1>2, <3>1, <3>2
  <2> HIDE DEF h, N, H, Row
  <2>3. Renamed(h, N) = H
    BY <2>1, <2>2 DEF Renamed
  <2> QED BY <2>3 DEF h
<1> QED BY <1>6, <1>7

(* The sums, for the orders that others have not filled.                   *)
PROMISED == LIVE \cup {"confirmed"}
Sums(ord, jb) == \A o \in OrderIds : ~FilledByOthers(o) => ord[o].filled = Held(jb, o, PROMISED)

LEMMA MatchedSums ==
    ASSUME NEW ord \in Orders, NEW jb \in Queue, NEW t \in OrderIds,
           Packed(jb), HasRoom(ord, jb, t), Sums(ord, jb)
    PROVE  Sums(MatchedOrders(ord, t), MatchedJobs(ord, jb, t))
<1> SUFFICES ASSUME NEW o \in OrderIds, ~FilledByOthers(o)
             PROVE  MatchedOrders(ord, t)[o].filled = Held(MatchedJobs(ord, jb, t), o, PROMISED)
  BY DEF Sums
<1>1. "pending" \in PROMISED /\ "none" \notin PROMISED
  BY DEF PROMISED, LIVE
<1>2. Held(MatchedJobs(ord, jb, t), o, PROMISED) = Held(jb, o, PROMISED) + SumOver(Part(ord, t, o), Hits(ord, t))
  BY <1>1, MatchedHeld, MatchedPacked
<1>3. SumOver(Part(ord, t, o), Hits(ord, t)) = Gain(ord, t, o)
  BY PartsAddUp
<1>4. ord[o].filled = Held(jb, o, PROMISED)
  BY DEF Sums
<1> QED BY <1>2, <1>3, <1>4, MatchedGain

LEMMA LoweredSums ==
    ASSUME job \in Queue, NEW ord \in Orders, Sums(ord, job), NEW S \in SUBSET Jobs,
           \A j \in S : job[j].status \in LIVE, NEW s \in {"failed", "cancelled"}
    PROVE  Sums(Lowered(ord, S), WithStatus(job, S, s))
<1> SUFFICES ASSUME NEW o \in OrderIds, ~FilledByOthers(o)
             PROVE  Lowered(ord, S)[o].filled = Held(WithStatus(job, S, s), o, PROMISED)
  BY DEF Sums
<1> DEFINE n == Fills(job, {j \in S : Touches(j, o)})
           h == Held(WithStatus(job, S, s), o, PROMISED)
           a == ord[o].filled
<1>1. s \in Statuses \ PROMISED /\ \A j \in S : job[j].status \in PROMISED
  BY DEF Statuses, PROMISED, LIVE, TERMINAL
<1>2. n \in Nat
  BY FillsNat
<1>3. h \in Nat
  BY <1>1, WithStatusType, HeldNat
<1>4. a = h + n
  <2>1. Held(job, o, PROMISED) = h + n
    BY <1>1, LoweredHeld
  <2> QED BY <2>1 DEF Sums
<1>5. Lowered(ord, S)[o].filled = Max({0, a - n})
  BY DEF Lowered, Orders, OrderRow
<1> HIDE DEF n, h, a
<1>6. Max({0, a - n}) = h
  <2>1. a - n \in Int /\ a - n = h
    BY <1>2, <1>3, <1>4
  <2> QED BY <1>3, <2>1, MaxOfTwo
<1> QED BY <1>5, <1>6 DEF h

(* A mined transaction of a job fills what its row says; other             *)
(* transactions of the relayer's key fill nothing.                         *)
Recorded(jb) ==
    \A i \in 1..Len(chain) :
        /\ chain[i].job \in Jobs =>
              LET r == jb[chain[i].job]
              IN  /\ r.status # "none"
                  /\ chain[i].taker = r.taker /\ chain[i].maker = r.maker /\ chain[i].fill = r.fill
        /\ chain[i].job = NoJob /\ chain[i].nonce # None => ~chain[i].ok

(* What the chain shows of an order that others have not filled is held by *)
(* jobs in flight or confirmed; by none that has not landed.               *)
LEMMA ChainBelowHeld ==
    ASSUME BaseInv, LiveInv, Recorded(job), NEW o \in OrderIds, ~FilledByOthers(o),
           NEW j \in Jobs, job[j].status \in LIVE, LandedAt(j) = {}
    PROVE  FilledOnChain(o, Len(chain)) <= Held(WithStatus(job, {j}, "failed"), o, PROMISED)
<1> DEFINE n == Len(chain)
           jb == WithStatus(job, {j}, "failed")
           P == {i \in 1..n : chain[i].ok /\ o \in {chain[i].taker, chain[i].maker}}
           f == [i \in 1..n |-> chain[i].fill]
           h == [i \in 1..n |-> chain[i].job]
           g == Share(jb, o, PROMISED)
           J == Renamed(h, P)
           z == [x \in Jobs |-> IF x \in J THEN g[x] ELSE 0]
<1>0. /\ job \in Queue /\ chain \in Seq(Event) /\ n \in Nat /\ NoJob \notin Jobs
      /\ \A i \in 1..n : chain[i].job \in Jobs \cup {NoJob} /\ chain[i].fill \in Nat
  <2>1. job \in Queue /\ chain \in Seq(Event) /\ n \in Nat
    BY DEF BaseInv, TypeOK, Queue
  <2>2. \A i \in 1..n : chain[i] \in Event
    BY <2>1, ElementOfSeq
  <2> QED BY <2>1, <2>2 DEF Event, NoJob, Jobs
<1>1. /\ jb \in Queue
      /\ \A x \in Jobs \ {j} : jb[x] = job[x]
  <2>1. "failed" \in Statuses
    BY DEF Statuses, TERMINAL
  <2>2. {j} \in SUBSET Jobs
    OBVIOUS
  <2> QED BY ZenonT(60), <1>0, <2>1, <2>2, WithStatusType
<1>2. ASSUME NEW i \in P
      PROVE  /\ h[i] \in Jobs /\ h[i] # j /\ job[h[i]].status \in PROMISED
             /\ f[i] \in Int /\ g[h[i]] = f[i]
  <2>1. i \in 1..n /\ chain[i].ok /\ o \in {chain[i].taker, chain[i].maker}
    OBVIOUS
  <2>2. chain[i].nonce # None
    BY <2>1 DEF FilledByOthers
  <2>3. chain[i].job \in Jobs
    BY <1>0, <2>1, <2>2 DEF Recorded
  <2>4. chain[i].job # j
    BY <2>1 DEF LandedAt, Receipts
  <2>5. job[chain[i].job].status \in PROMISED
    <3>1. Traces(chain[i].job) /\ job[chain[i].job].status \in Statuses
      BY <2>3 DEF LiveInv, BaseInv, TypeOK, JobRow
    <3>2. job[chain[i].job].status \notin {"none", "pending", "cancelled", "failed"}
      BY <2>1, <3>1 DEF Traces, NoMined
    <3> QED BY <3>1, <3>2 DEF Statuses, LIVE, TERMINAL, PROMISED
  <2>6. /\ chain[i].taker = job[chain[i].job].taker /\ chain[i].maker = job[chain[i].job].maker
        /\ chain[i].fill = job[chain[i].job].fill
    BY <2>1, <2>3 DEF Recorded
  <2>7. h[i] = chain[i].job /\ f[i] = chain[i].fill
    BY <2>1
  <2>8. g[chain[i].job] = chain[i].fill
    <3>1. jb[chain[i].job] = job[chain[i].job]
      BY <1>1, <2>3, <2>4
    <3> HIDE DEF jb, P
    <3> QED BY <2>1, <2>3, <2>5, <2>6, <3>1 DEF Share
  <2> HIDE DEF P, f, h, g, jb
  <2> QED BY <1>0, <2>1, <2>3, <2>4, <2>5, <2>7, <2>8
<1>3. \A i, k \in P : h[i] = h[k] => i = k
  <2> SUFFICES ASSUME NEW i \in P, NEW k \in P, h[i] = h[k] PROVE i = k
    OBVIOUS
  <2>1. h[i] \in Jobs /\ i \in 1..n /\ k \in 1..n /\ chain[i].job = h[i] /\ chain[k].job = h[i]
    BY <1>2
  <2>2. Traces(h[i])
    BY <2>1 DEF LiveInv
  <2> HIDE DEF h, P
  <2> QED BY <2>1, <2>2 DEF Traces
<1>4. IsFiniteSet(P)
  <2>1. IsFiniteSet(1..n)
    BY <1>0, FS_Interval
  <2> QED BY <2>1, FS_Subset
<1>5. FilledOnChain(o, n) = SumOver(f, P)
  BY FilledOnChainSum
<1>6. J \in SUBSET Jobs
  BY <1>2 DEF Renamed
<1>7. \A x \in Jobs : g[x] \in Nat
  BY <1>1, HeldNat
<1> HIDE DEF f, h, P, g, J
<1>8. SumOver(g, J) = SumOver(f, P)
  BY <1>2, <1>3, <1>4, SumRenamed DEF J
<1>9. /\ \A x \in J : g[x] \in Int /\ z[x] = g[x]
      /\ \A x \in Jobs \ J : z[x] = 0
      /\ \A x \in Jobs : z[x] \in Int /\ g[x] \in Int /\ z[x] <= g[x]
  BY <1>6, <1>7
<1> HIDE DEF z
<1>10. SumOver(z, Jobs) = SumOver(g, J) /\ SumOver(z, Jobs) <= SumOver(g, Jobs)
  BY <1>6, <1>9, JobsFinite, SumPart, SumMonotone
<1>11. Held(jb, o, PROMISED) = SumOver(g, Jobs)
  BY DEF Held, g
<1> QED BY <1>5, <1>8, <1>10, <1>11

ExactInv == Packed(job) /\ Recorded(job) /\ Sums(order, job)

(* A step off the chain is judged by the tables it leaves.                 *)
LEMMA ExactTables ==
    ASSUME chain' = chain, Packed(job'), Recorded(job'), Sums(order', job')
    PROVE  ExactInv'
<1>1. Packed(job)'
  BY DEF Packed, Rows
<1>2. Recorded(job)'
  BY DEF Recorded
<1>3. Sums(order, job)'
  BY DEF Sums, FilledByOthers, Held, Share
<1> QED BY <1>1, <1>2, <1>3 DEF ExactInv

(* Rows keep their match once they have one.                               *)
LEMMA RecordedKept ==
    ASSUME Recorded(job),
           \A k \in Jobs : \/ job'[k] = job[k]
                           \/ Opens(job[k], job'[k])
                           \/ /\ job'[k].status # "none" /\ job'[k].fill = job[k].fill
                              /\ job'[k].taker = job[k].taker /\ job'[k].maker = job[k].maker
    PROVE  Recorded(job')
<1> SUFFICES ASSUME NEW i \in 1..Len(chain), chain[i].job \in Jobs
             PROVE  LET r == job'[chain[i].job]
                    IN  /\ r.status # "none"
                        /\ chain[i].taker = r.taker /\ chain[i].maker = r.maker /\ chain[i].fill = r.fill
  BY DEF Recorded
<1>1. LET r == job[chain[i].job]
      IN  /\ r.status # "none"
          /\ chain[i].taker = r.taker /\ chain[i].maker = r.maker /\ chain[i].fill = r.fill
  BY DEF Recorded
<1> QED BY <1>1 DEF Opens

LEMMA PackedKept ==
    ASSUME NEW jb, NEW new, Packed(jb), \A k \in Jobs : new[k].status = "none" <=> jb[k].status = "none"
    PROVE  Packed(new)
<1>1. Rows(new) = Rows(jb)
  BY DEF Rows
<1> QED BY <1>1 DEF Packed

LEMMA ExactRow ==
    ASSUME BaseInv, ExactInv, UNCHANGED <<order, chain>>, NEW j \in Jobs, Tables(j), job[j].status # "none",
           \A k \in Jobs \ {j} : job'[k] = job[k],
           \/ Retries(j) \/ Claims(j) \/ Releases(j) \/ Carries(j)
           \/ Settles(j) /\ job[j].status \in LIVE
    PROVE  ExactInv'
<1>1. /\ job'[j].status # "none" /\ job'[j].fill = job[j].fill
      /\ job'[j].taker = job[j].taker /\ job'[j].maker = job[j].maker
      /\ job'[j].status \in PROMISED <=> job[j].status \in PROMISED
  BY DEF Retries, Claims, Releases, Carries, Settles, Keeps, PROMISED, LIVE, IN_FLIGHT
<1>2. Packed(job')
  <2>1. \A k \in Jobs : job'[k].status = "none" <=> job[k].status = "none"
    BY <1>1
  <2> QED BY <2>1, PackedKept DEF ExactInv
<1>3. Recorded(job')
  BY <1>1, RecordedKept DEF ExactInv
<1>4. \A o : Share(job', o, PROMISED) = Share(job, o, PROMISED)
  BY <1>1 DEF Share
<1>5. Sums(order', job')
  BY <1>4 DEF ExactInv, Sums, Held
<1> QED BY <1>2, <1>3, <1>5, ExactTables

LEMMA ExactLowered ==
    ASSUME BaseInv, ExactInv, chain' = chain, NEW ord \in Orders, \A o \in OrderIds : ord[o].filled = order[o].filled,
           NEW S \in SUBSET Jobs, \A j \in S : job[j].status \in LIVE, NEW s \in {"failed", "cancelled"},
           order' = Lowered(ord, S), job' = WithStatus(job, S, s)
    PROVE  ExactInv'
<1>1. job \in Queue /\ s \in Statuses
  BY DEF BaseInv, TypeOK, Queue, Statuses, TERMINAL
<1>2. ASSUME NEW k \in Jobs
      PROVE  \/ job'[k] = job[k]
             \/ /\ job[k].status # "none" /\ job'[k].status # "none" /\ job'[k].fill = job[k].fill
                /\ job'[k].taker = job[k].taker /\ job'[k].maker = job[k].maker
  <2>1. job[k] \in JobRow
    BY <1>1 DEF Queue
  <2>2. k \in S => job'[k] = [job[k] EXCEPT !.status = s]
    BY DEF WithStatus
  <2>3. k \notin S => job'[k] = job[k]
    BY DEF WithStatus
  <2> QED BY <2>1, <2>2, <2>3 DEF JobRow, LIVE
<1>3. Packed(job')
  <2>1. \A k \in Jobs : job'[k].status = "none" <=> job[k].status = "none"
    BY <1>2
  <2> QED BY <2>1, PackedKept DEF ExactInv
<1>4. Recorded(job')
  BY <1>2, RecordedKept DEF ExactInv
<1>5. Sums(ord, job)
  BY DEF ExactInv, Sums
<1>6. Sums(order', job')
  BY <1>1, <1>5, LoweredSums
<1> QED BY <1>3, <1>4, <1>6, ExactTables

LEMMA ExactRetire ==
    ASSUME BaseInv, BookInv, LiveInv, ExactInv, chain' = chain,
           NEW j \in Jobs, job[j].status \in LIVE, LandedAt(j) = {}, FailAndRetire(j)
    PROVE  ExactInv'
<1> DEFINE t == job[j].taker
           ord == Lowered(order, {j})
           jb == WithStatus(job, {j}, "failed")
<1>1. /\ order \in Orders /\ job \in Queue /\ chain \in Seq(Event) /\ seen \in 0..Len(chain)
      /\ t \in OrderIds /\ job[j].maker \in OrderIds
  BY DEF BaseInv, TypeOK, Orders, Queue, RowsOwned, LIVE
<1>2. ord \in Orders /\ jb \in Queue /\ Sums(ord, jb) /\ jb[j] = [job[j] EXCEPT !.status = "failed"]
      /\ \A k \in Jobs \ {j} : jb[k] = job[k]
  <2>1. "failed" \in Statuses /\ {j} \in SUBSET Jobs
    BY DEF Statuses, TERMINAL
  <2>2. ord \in Orders
    BY <1>1, <2>1, LoweredType
  <2>3. jb \in Queue /\ jb[j] = [job[j] EXCEPT !.status = "failed"] /\ \A k \in Jobs \ {j} : jb[k] = job[k]
    <3>1. jb \in Queue
      BY <1>1, <2>1, WithStatusType
    <3> QED BY <3>1 DEF WithStatus
  <2>4. Sums(ord, jb)
    BY <1>1, <2>1, LoweredSums DEF ExactInv
  <2> QED BY <2>2, <2>3, <2>4
<1>3. PICK culled \in Orders :
        /\ \A o \in OrderIds :
              \/ culled[o].filled = ord[o].filled
              \/ /\ o \in _orders(j) /\ FilledOnChain(o, Len(chain)) + job[j].fill > Book[o].amount
                 /\ \E k \in 0..Len(chain) : culled[o].filled = _resync_filled(ord, jb, o, k)
        /\ \/ order' = culled /\ job' = jb
           \/ /\ HasRoom(culled, jb, t)
              /\ order' = MatchedOrders(culled, t) /\ job' = MatchedJobs(culled, jb, t)
  BY <1>1, RetireShape
<1>4. ASSUME NEW o \in OrderIds, ~FilledByOthers(o), o \in _orders(j)
      PROVE  FilledOnChain(o, Len(chain)) + job[j].fill <= Book[o].amount
  <2> DEFINE h == Held(jb, o, PROMISED)
             c == FilledOnChain(o, Len(chain))
             U == {x \in {j} : Touches(x, o)}
  <2>1. c <= h /\ c \in Nat /\ h \in Nat
    <3>1. c <= h
      BY <1>4, ChainBelowHeld DEF ExactInv
    <3>2. Len(chain) \in 0..Len(chain)
      BY <1>1
    <3> QED BY <1>1, <1>2, <3>1, <3>2, FilledOnChainNat, HeldNat
  <2>2. Held(job, o, PROMISED) = h + Fills(job, U)
    <3>1. "failed" \in Statuses \ PROMISED /\ job[j].status \in PROMISED /\ {j} \in SUBSET Jobs
      BY DEF Statuses, TERMINAL, PROMISED, LIVE
    <3> QED BY <1>1, <3>1, LoweredHeld
  <2>3. Fills(job, U) = job[j].fill /\ job[j].fill \in Nat
    <3> DEFINE f == [x \in Jobs |-> job[x].fill]
    <3>1. U = {j}
      BY <1>4 DEF Touches
    <3>2. f[j] \in Nat /\ f[j] = job[j].fill
      BY <1>1 DEF Queue, JobRow
    <3>3. SumOver(f, {j}) = f[j] + SumOver(f, {j} \ {j})
      <4> HIDE DEF f
      <4>1. IsFiniteSet({j}) /\ j \in {j}
        BY FS_Singleton
      <4>2. \A x \in {j} : f[x] \in Int
        BY <3>2
      <4> QED BY <4>1, <4>2, SumRemove
    <3>4. {j} \ {j} = {} /\ SumOver(f, {}) = 0
      BY SumEmpty
    <3>5. Fills(job, {j}) = SumOver(f, {j})
      BY FillsSum
    <3> HIDE DEF f, U
    <3> QED BY <3>1, <3>2, <3>3, <3>4, <3>5
  <2>4. order[o].filled = Held(job, o, PROMISED) /\ order[o].filled <= Book[o].amount /\ Book[o].amount \in Nat
    BY <1>4, BookAssumption DEF ExactInv, Sums, BookInv, Covered, Covers
  <2> HIDE DEF h, c, U
  <2>5. c + job[j].fill <= Book[o].amount
    BY <2>1, <2>2, <2>3, <2>4
  <2> QED BY <2>5 DEF c
<1>5. Sums(culled, jb)
  <2>1. ASSUME NEW o \in OrderIds, ~FilledByOthers(o) PROVE culled[o].filled = ord[o].filled
    <3>1. ASSUME o \in _orders(j), FilledOnChain(o, Len(chain)) + job[j].fill > Book[o].amount PROVE FALSE
      <4>1. FilledOnChain(o, Len(chain)) \in Nat /\ job[j].fill \in Nat /\ Book[o].amount \in Nat
        <5>1. Len(chain) \in 0..Len(chain)
          BY <1>1
        <5> QED BY <1>1, <5>1, FilledOnChainNat, BookAssumption DEF Queue, JobRow
      <4> QED BY <1>4, <2>1, <3>1, <4>1
    <3> QED BY <1>3, <3>1
  <2> QED BY <1>2, <2>1 DEF Sums
<1>6. jb[j].status = "failed" /\ jb[j].fill = job[j].fill /\ jb[j].taker = job[j].taker /\ jb[j].maker = job[j].maker
  <2>1. job[j] \in JobRow
    BY <1>1 DEF Queue
  <2> HIDE DEF jb
  <2> QED BY <1>2, <2>1 DEF JobRow
<1>7. Packed(jb)
  <2>1. \A k \in Jobs : jb[k].status = "none" <=> job[k].status = "none"
    <3> HIDE DEF jb
    <3> QED BY <1>2, <1>6 DEF LIVE
  <2> QED BY <2>1, PackedKept DEF ExactInv
<1> HIDE DEF ord, jb
<1>8. Packed(job') /\ Sums(order', job')
  BY <1>1, <1>2, <1>3, <1>5, <1>7, MatchedPacked, MatchedSums
<1>9. Recorded(job')
  <2>1. Retired(j)
    BY <1>1, FailAndRetireStep
  <2>2. job[j] \in JobRow
    BY <1>1 DEF Queue
  <2>3. job'[j].status # "none" /\ job'[j].fill = job[j].fill /\ job'[j].taker = job[j].taker /\ job'[j].maker = job[j].maker
    BY <2>1, <2>2 DEF Retired, JobRow
  <2> QED BY <2>1, <2>3, RecordedKept DEF Retired, ExactInv
<1> QED BY <1>8, <1>9, ExactTables

LEMMA ExactReceipt ==
    ASSUME BaseInv, BookInv, LiveInv, ExactInv, chain' = chain,
           NEW j \in Jobs, job[j].status \in IN_FLIGHT, NEW i \in Receipts(j), _apply_receipt(j, i)
    PROVE  ExactInv'
<1>1. job[j].status \in LIVE /\ job[j].status # "none" /\ job \in Queue /\ order \in Orders
  BY DEF IN_FLIGHT, LIVE, BaseInv, TypeOK, Queue, Orders
<1>2. ASSUME UNCHANGED order, _confirm(j) PROVE ExactInv'
  <2>1. \A k \in Jobs \ {j} : job'[k] = job[k]
    BY <1>1, <1>2 DEF _confirm, Queue
  <2> QED BY <1>1, <1>2, <2>1, Confirms, ExactRow
<1>3. ASSUME UNCHANGED order, job' = [job EXCEPT ![j].status = "sent"] PROVE ExactInv'
  <2>1. \A k \in Jobs \ {j} : job'[k] = job[k]
    BY <1>1, <1>3 DEF Queue
  <2>2. job[j] \in JobRow /\ job'[j] = [job[j] EXCEPT !.status = "sent"]
    BY <1>1, <1>3 DEF Queue
  <2>3. job'[j] \in JobRow /\ Carries(j)
    BY <2>2 DEF JobRow, Statuses, LIVE, Carries, Keeps, IN_FLIGHT
  <2>4. job' \in Queue
    <3>1. job' = [k \in Jobs |-> job'[k]] /\ \A k \in Jobs : job[k] \in JobRow
      BY <1>1, <1>3 DEF Queue
    <3> QED BY <2>1, <2>3, <3>1 DEF Queue
  <2>5. Tables(j)
    BY <1>1, <1>3, <2>1, <2>4 DEF Tables
  <2> QED BY <1>1, <1>3, <2>1, <2>3, <2>5, ExactRow
<1>4. ASSUME ~_has_fill_log(i) PROVE LandedAt(j) = {}
  <2>1. \A x \in Receipts(j) : x = i
    BY DEF LiveInv, Traces, Receipts
  <2> QED BY <1>4, <2>1 DEF LandedAt, _has_fill_log
<1>5. ASSUME order' = Lowered(order, {j}), job' = WithStatus(job, {j}, "failed") PROVE ExactInv'
  <2>1. {j} \in SUBSET Jobs /\ (\A x \in {j} : job[x].status \in LIVE) /\ "failed" \in {"failed", "cancelled"}
    BY <1>1
  <2> QED BY <1>1, <1>5, <2>1, ExactLowered
<1> QED BY <1>1, <1>2, <1>3, <1>4, <1>5, ExactRetire DEF _apply_receipt

LEMMA ExactQuiet == ASSUME ExactInv, UNCHANGED <<order, job, chain>> PROVE ExactInv'
  BY ExactTables DEF ExactInv

LEMMA ExactWorker == ASSUME BaseInv, BookInv, LiveInv, ExactInv, WorkerStep PROVE ExactInv'
<1>a. job \in Queue /\ order \in Orders
  BY DEF BaseInv, TypeOK, Queue, Orders
<1>b. work.at # "idle" => work.job \in Jobs /\ job[work.job].status # "none"
  BY DEF BaseInv, WorkerHolds
<1>c. ASSUME NEW j \in Jobs, job[j].status = "pending" PROVE LandedAt(j) = {} /\ job[j].status \in LIVE
  BY <1>c DEF LiveInv, Traces, NoMined, LandedAt, Receipts, LIVE
<1>d. ASSUME NEW j \in Jobs, job[j].status \in LIVE, NEW s \in {"failed", "cancelled"}, chain' = chain,
             order' = Lowered(order, {j}), job' = WithStatus(job, {j}, s)
      PROVE  ExactInv'
  <2>1. {j} \in SUBSET Jobs /\ \A x \in {j} : job[x].status \in LIVE
    BY <1>d
  <2> QED BY <1>a, <1>d, <2>1, ExactLowered
<1> USE DEF dbVars, chainVars
<1>1. ASSUME SendConfirm PROVE ExactInv'
  BY <1>1 DEF SendConfirm, LiveInv, Casting
<1>2. ASSUME SendPreflight \/ SendDefer \/ NoteResend PROVE ExactInv'
  BY <1>2, ExactQuiet DEF SendPreflight, SendDefer, NoteResend
<1>3. ASSUME SendFail PROVE ExactInv'
  <2>1. work.job \in Jobs /\ job[work.job].status = "pending" /\ chain' = chain
    BY <1>3, <1>b DEF SendFail
  <2> QED BY <1>3, <1>c, <1>d, <2>1, ExactRetire DEF SendFail
<1>4. ASSUME SendRetry PROVE ExactInv'
  <2>1. (\A k \in Jobs \ {work.job} : job'[k] = job[k]) /\ job[work.job].status # "none"
    BY SMTT(60), <1>4, <1>a, <1>b DEF SendRetry, Queue
  <2> QED BY <1>4, <2>1, SendRetryRow, ExactRow DEF SendRetry
<1>5. ASSUME NEW p \in PendingNonces, SendClaim(p) PROVE ExactInv'
  <2>1. (\A k \in Jobs \ {work.job} : job'[k] = job[k]) /\ job[work.job].status # "none"
    BY <1>5, <1>a, <1>b DEF SendClaim, Queue
  <2> QED BY <1>5, <2>1, SendClaimRow, ExactRow DEF SendClaim
<1>6. ASSUME NEW kind \in Kinds, Broadcast(kind) PROVE ExactInv'
  BY <1>6, ExactQuiet DEF Broadcast
<1>7. ASSUME NoteNonceLow PROVE ExactInv'
  <2> DEFINE j == work.job
  <2>1. j \in Jobs /\ job[j].status \in IN_FLIGHT /\ chain' = chain /\ job[j].status # "none"
    BY <1>7, <1>b DEF NoteNonceLow, BaseInv, WorkerHolds
  <2>2. ASSUME NEW i \in Receipts(j), _apply_receipt(j, i) PROVE ExactInv'
    BY <2>1, <2>2, ExactReceipt
  <2>3. ASSUME job' = [job EXCEPT ![j].status = "sent", ![j].consumed = IF @ = None THEN Len(chain) ELSE @],
               UNCHANGED order
        PROVE  ExactInv'
    <3>1. (\A k \in Jobs \ {j} : job'[k] = job[k]) /\ job'[j].status = "sent"
      <4>1. job[j] \in JobRow
        BY <1>a, <2>1 DEF Queue
      <4> QED BY <1>a, <2>1, <2>3, <4>1 DEF Queue, JobRow
    <3>2. Carries(j) /\ Tables(j)
      BY <1>7, <3>1, NoteNonceLowRow DEF Settles, Fails
    <3> QED BY <2>1, <2>3, <3>1, <3>2, ExactRow
  <2> QED BY <1>7, <2>2, <2>3 DEF NoteNonceLow, _nonce_consumed
<1>8. ASSUME NoteSent PROVE ExactInv'
  <2>1. (\A k \in Jobs \ {work.job} : job'[k] = job[k]) /\ job[work.job].status # "none"
    BY <1>8, <1>a, <1>b DEF NoteSent, Queue
  <2> QED BY <1>8, <2>1, NoteSentRow, ExactRow DEF NoteSent
<1>9. ASSUME NoteRefused PROVE ExactInv'
  <2>1. (\A k \in Jobs \ {work.job} : job'[k] = job[k]) /\ job[work.job].status # "none"
    BY <1>9, <1>a, <1>b DEF NoteRefused, _back_to_pending, Queue
  <2> QED BY <1>9, <2>1, NoteRefusedRow, ExactRow DEF NoteRefused
<1>10. ASSUME NoteUnknown PROVE ExactInv'
  <2>1. (\A k \in Jobs \ {work.job} : job'[k] = job[k]) /\ job[work.job].status # "none"
    BY <1>10, <1>a, <1>b DEF NoteUnknown, Queue
  <2> QED BY <1>10, <2>1, NoteUnknownRow, ExactRow DEF NoteUnknown
<1>11. ASSUME NoteRebroadcast PROVE ExactInv'
  <2>1. (\A k \in Jobs \ {work.job} : job'[k] = job[k]) /\ job[work.job].status # "none"
    <3>1. work.kind \in Kinds
      BY DEF BaseInv, TypeOK, Work
    <3> QED BY <1>11, <1>a, <1>b, <3>1 DEF NoteRebroadcast, Queue, Kinds
  <2> QED BY <1>11, <2>1, NoteRebroadcastRow, ExactRow DEF NoteRebroadcast
<1>12. ASSUME NEW j \in Jobs, SendLanded(j) \/ SendCheck(j) \/ Rebroadcast(j) \/ Stuck(j) PROVE ExactInv'
  BY <1>12, ExactQuiet DEF SendLanded, SendCheck, Rebroadcast, Stuck
<1>13. ASSUME NEW j \in Jobs, SendCancelled(j) PROVE ExactInv'
  BY <1>13, <1>c, <1>d DEF SendCancelled
<1>14. ASSUME NEW j \in Jobs, ReconcileReceipt(j) PROVE ExactInv'
  BY <1>14, ExactReceipt DEF ReconcileReceipt
<1>15. ASSUME NEW j \in Jobs, Bump(j) PROVE ExactInv'
  <2>1. (\A k \in Jobs \ {j} : job'[k] = job[k]) /\ job[j].status # "none"
    BY <1>15, <1>a DEF Bump, Unmined, Queue
  <2> QED BY <1>15, <2>1, BumpRow, ExactRow DEF Bump
<1>16. ASSUME NEW j \in Jobs, SettleNotMined(j) \/ SettleMaybe(j) PROVE ExactInv'
  <2>1. (\A k \in Jobs \ {j} : job'[k] = job[k]) /\ job[j].status = "sent" /\ job[j].status # "none"
    BY <1>16, <1>a DEF SettleNotMined, SettleMaybe, Settling, Queue
  <2> QED BY <1>16, <2>1, ConsumedRow, ExactRow DEF SettleNotMined, SettleMaybe
<1>17. ASSUME NEW j \in Jobs, SettleLanded(j) PROVE ExactInv'
  <2>1. (\A k \in Jobs \ {j} : job'[k] = job[k]) /\ job[j].status \in LIVE /\ job[j].status # "none"
    BY <1>17, <1>a DEF SettleLanded, Settling, _confirm, Queue, LIVE
  <2> QED BY <1>17, <2>1, Confirms, ExactRow DEF SettleLanded
<1>18. ASSUME NEW j \in Jobs, SettleAbsent(j) PROVE ExactInv'
  <2>1. (\A k \in Jobs \ {j} : job'[k] = job[k]) /\ job[j].status \in IN_FLIGHT /\ job[j].status # "none"
    BY <1>18, <1>a DEF SettleAbsent, Settling, _back_to_pending, Queue, IN_FLIGHT
  <2> QED BY <1>18, <2>1, BackToPending, ExactRow DEF SettleAbsent
<1> QED BY <1>1, <1>2, <1>3, <1>4, <1>5, <1>6, <1>7, <1>8, <1>9, <1>10, <1>11, <1>12, <1>13, <1>14, <1>15,
           <1>16, <1>17, <1>18 DEF WorkerStep

LEMMA ExactAppend ==
    ASSUME BaseInv, ExactInv, UNCHANGED <<order, job>>, NEW e \in Event, chain' = Append(chain, e),
           e.job \in Jobs =>
              /\ job[e.job].status # "none" /\ e.fill = job[e.job].fill
              /\ e.taker = job[e.job].taker /\ e.maker = job[e.job].maker,
           e.job = NoJob /\ e.nonce # None => ~e.ok
    PROVE  ExactInv'
<1> DEFINE n == Len(chain)
<1>1. n \in Nat /\ Len(chain') = n + 1 /\ chain'[n + 1] = e /\ \A i \in 1..n : chain'[i] = chain[i]
  BY AppendProperties DEF BaseInv, TypeOK
<1>2. \A i \in 1..(n + 1) : i = n + 1 \/ i \in 1..n
  BY <1>1
<1>3. Packed(job)'
  BY DEF ExactInv, Packed, Rows
<1>4. Recorded(job)'
  <2>1. \A i \in 1..n : chain'[i] = chain[i] /\ i \in 1..Len(chain)
    BY <1>1
  <2> HIDE DEF n
  <2> QED BY <1>1, <1>2, <2>1 DEF ExactInv, Recorded
<1>5. \A o : FilledByOthers(o) => FilledByOthers(o)'
  <2> SUFFICES ASSUME NEW o, NEW i \in 1..n, chain[i].nonce = None, o \in {chain[i].taker, chain[i].maker}
               PROVE  \E x \in 1..(n + 1) : chain'[x].nonce = None /\ o \in {chain'[x].taker, chain'[x].maker}
    BY <1>1 DEF FilledByOthers
  <2>1. i \in 1..(n + 1) /\ chain'[i] = chain[i]
    BY <1>1
  <2> QED BY <2>1
<1>6. Sums(order, job)'
  BY <1>5 DEF ExactInv, Sums, Held, Share
<1> QED BY <1>3, <1>4, <1>6 DEF ExactInv

LEMMA ExactChain == ASSUME BaseInv, LiveInv, ExactInv, ChainStep PROVE ExactInv'
<1>a. NoJob \notin Jobs
  BY DEF NoJob, Jobs
<1>1. ASSUME NEW t \in pool, NEW ok \in BOOLEAN, Mine(t, ok) PROVE ExactInv'
  <2> DEFINE e == MinedBy(t, ok)
  <2>1. e \in Event /\ UNCHANGED <<order, job>> /\ chain' = Append(chain, e)
    BY <1>1, MinedByType DEF Mine, BaseInv, dbVars
  <2>2. e.job = t.job /\ (t.job = NoJob => ~e.ok)
    BY DEF MinedBy
  <2>3. ASSUME t.job \in Jobs
        PROVE  /\ job[t.job].status # "none" /\ e.fill = job[t.job].fill
               /\ e.taker = job[t.job].taker /\ e.maker = job[t.job].maker
    <3>1. job[t.job].status \in IN_FLIGHT
      BY <2>3 DEF LiveInv, Traces, NoPooled
    <3> QED BY <1>a, <2>3, <3>1 DEF MinedBy, IN_FLIGHT
  <2> HIDE DEF e
  <2> QED BY <2>1, <2>2, <2>3, ExactAppend
<1>2. ASSUME NEW t \in OrderIds, NEW m \in OrderIds, ExternalFill(t, m, 1) PROVE ExactInv'
  <2> DEFINE e == [nonce |-> None, job |-> NoJob, ok |-> TRUE, taker |-> t, maker |-> m, fill |-> 1]
  <2>1. e \in Event /\ UNCHANGED <<order, job>> /\ chain' = Append(chain, e) /\ e.job \notin Jobs /\ e.nonce = None
    BY <1>2, <1>a DEF ExternalFill, dbVars, Event
  <2> HIDE DEF e
  <2> QED BY <2>1, ExactAppend
<1> QED BY <1>1, <1>2, ExactQuiet DEF ChainStep, ForeignSend, Evict, CatchUp, dbVars

LEMMA ExactStep == BaseInv /\ BookInv /\ LiveInv /\ ExactInv /\ [Next]_vars => ExactInv'
<1> SUFFICES ASSUME BaseInv, BookInv, LiveInv, ExactInv, [Next]_vars PROVE ExactInv'
  OBVIOUS
<1>a. job \in Queue /\ order \in Orders
  BY DEF BaseInv, TypeOK, Queue, Orders
<1>1. ASSUME NEW o \in OrderIds, post_order(o) PROVE ExactInv'
  <2> DEFINE ord == [order EXCEPT ![o].posted = TRUE]
  <2>1. ord \in Orders /\ \A x \in OrderIds : ord[x].filled = order[x].filled
    BY <1>a DEF Orders, OrderRow
  <2>2. /\ order' = MatchedOrders(ord, o) /\ job' = MatchedJobs(ord, job, o) /\ HasRoom(ord, job, o)
        /\ chain' = chain
    BY <1>1 DEF post_order, chainVars
  <2> HIDE DEF ord
  <2>3. Sums(ord, job) /\ Packed(job)
    BY <2>1 DEF ExactInv, Sums
  <2>4. Sums(order', job') /\ Packed(job')
    BY <1>a, <2>1, <2>2, <2>3, MatchedSums, MatchedPacked
  <2>5. Recorded(job')
    BY <1>1, PostRows, RecordedKept DEF ExactInv
  <2> QED BY <2>2, <2>4, <2>5, ExactTables
<1>2. ASSUME cancel_commit PROVE ExactInv'
  <2> DEFINE ord == [order EXCEPT ![cancel.order].cancelled = TRUE]
             undone == {j \in cancel.jobs : job[j].status = "pending"}
  <2>1. ord \in Orders /\ \A x \in OrderIds : ord[x].filled = order[x].filled
    BY <1>a DEF Orders, OrderRow
  <2>2. order' = Lowered(ord, undone) /\ job' = WithStatus(job, undone, "cancelled") /\ chain' = chain
    BY <1>2 DEF cancel_commit, chainVars
  <2>3. undone \in SUBSET Jobs /\ \A j \in undone : job[j].status \in LIVE
    BY DEF BaseInv, TypeOK, LIVE
  <2> HIDE DEF ord, undone
  <2> QED BY <2>1, <2>2, <2>3, ExactLowered
<1>3. ASSUME NEW o \in OrderIds, cancel_read(o) PROVE ExactInv'
  BY <1>3, ExactQuiet DEF cancel_read, dbVars, chainVars
<1>4. ASSUME _ensure_leader \/ Crash \/ UNCHANGED vars PROVE ExactInv'
  BY <1>4, ExactQuiet DEF _ensure_leader, Crash, dbVars, chainVars, vars
<1> QED BY <1>1, <1>2, <1>3, <1>4, ExactWorker, ExactChain DEF Next

LEMMA ExactInit == Init => ExactInv
<1> SUFFICES ASSUME Init PROVE ExactInv
  OBVIOUS
<1>1. (\A j \in Jobs : job[j].status = "none") /\ Len(chain) = 0 /\ MaxJobs \in Nat
  BY BoundsAssumption DEF Init, NoRow
<1>2. Packed(job)
  <2>1. Rows(job) = 1..0 /\ 0 \in 0..MaxJobs
    BY <1>1 DEF Rows
  <2> QED BY <2>1 DEF Packed
<1>3. Recorded(job)
  BY <1>1 DEF Recorded
<1>4. Sums(order, job)
  <2> SUFFICES ASSUME NEW o \in OrderIds PROVE order[o].filled = Held(job, o, PROMISED)
    BY DEF Sums
  <2> DEFINE f == Share(job, o, PROMISED)
  <2>1. \A j \in Jobs : f[j] = 0
    BY <1>1 DEF Share, PROMISED, LIVE
  <2> HIDE DEF f
  <2>2. SumOver(f, Jobs) = 0
    BY <2>1, JobsFinite, SumZero
  <2> QED BY <2>2 DEF Init, Held, f
<1> QED BY <1>2, <1>3, <1>4 DEF ExactInv

(* While others have not filled an order through the Exchange, its         *)
(* optimistic fill is exactly what its live and confirmed jobs hold, for   *)
(* every book and every interleaving of matches, rollbacks, re-matches,    *)
(* cancels and crashes, when a node calls a nonce too low only if it has   *)
(* been mined.  A resync never disturbs such an order: what the chain      *)
(* shows of it is held by jobs that landed.                                *)
THEOREM FillsAddUp == ASSUME ~PoolViewNonceLow PROVE Spec => []FilledExact
<1>1. BaseInv /\ BookInv /\ ExactInv => FilledExact
  <2> SUFFICES ASSUME BaseInv, BookInv, ExactInv, NEW o \in OrderIds, ~FilledByOthers(o)
               PROVE  /\ order[o].filled = FillOf(WithStatusIn(LIVE \cup {"confirmed"}), o)
                      /\ order[o].filled <= Book[o].amount
    BY DEF FilledExact
  <2>1. job \in Queue
    BY DEF BaseInv, TypeOK, Queue
  <2>2. FillOf(WithStatusIn(PROMISED), o) = Held(job, o, PROMISED)
    BY <2>1, FillOfHeld
  <2> QED BY <2>2 DEF BookInv, Covered, Covers, ExactInv, Sums, PROMISED
<1> QED BY <1>1, ExactInit, ExactStep, BookInit, BookStep, BaseHolds, LiveHolds, PTL DEF Spec
=============================================================================
