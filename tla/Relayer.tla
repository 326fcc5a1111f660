------------------------------ MODULE Relayer ------------------------------
(***************************************************************************)
(* The path of a CLOB fill from the off-chain match to the chain:          *)
(*   backend/app/orderbook/matcher.py   crossing, optimistic fills         *)
(*   backend/app/orderbook/router.py    POST /orders, DELETE /orders       *)
(*   backend/app/relayer/queue.py       RelayJob rows and their rollback   *)
(*   backend/app/relayer/nonce.py       nonces of the relayer's key        *)
(*   backend/app/relayer/worker.py      the worker's send and reconcile    *)
(* against an Ethereum node pool that lags, loses transactions and answers *)
(* ambiguously.                                                            *)
(*                                                                         *)
(* Database transactions are atomic steps.  The worker gives up control    *)
(* between its reads, its claim, its broadcast and the commit of what the  *)
(* broadcast said; a crash may come at any of those points.                *)
(*                                                                         *)
(* A signed transaction is the pair [job, nonce]: a fee bump re-signs the  *)
(* same call under the same nonce, and of all such copies one at most can  *)
(* be mined.  RelayJob.tx_hashes matters as whether the job ever signed;   *)
(* a receipt is found under any of its hashes.                             *)
(*                                                                         *)
(* Time is abstracted: timers that only delay (next_attempt_at, sent_at)   *)
(* may fire at any moment.  RELAYER_RESUBMIT_AFTER_SECONDS, on which       *)
(* safety rests, is longer than any node's lag: it has passed since a      *)
(* moment only when every node has seen the chain of that moment.          *)
(***************************************************************************)
EXTENDS Integers, Sequences, FiniteSetsExt

CONSTANTS
    OrderIds,           \* database ids of the orders, in order of arrival
    Book,               \* order -> [maker, isBuy, price, amount] as signed
    Resting,            \* the orders on the book at the start
    Accounts,           \* makers
    MaxJobs,            \* bound on RelayJob rows
    MaxAttempts,        \* RELAYER_MAX_ATTEMPTS
    MaxChain,           \* bound on the length of the chain
    MaxForeign,         \* bound on other transactions of the relayer's key
    ExternalFills,      \* do others call the permissionless matchOrders?
    PoolViewNonceLow,   \* may a node say "nonce too low" of a nonce only pooled?
    CancelRoute         \* is DELETE /orders in use?

ASSUME OrderIdsAssumption == OrderIds \subseteq Nat /\ IsFiniteSet(OrderIds)
ASSUME BookAssumption ==
    Book \in [OrderIds -> [maker : Accounts, isBuy : BOOLEAN, price : Nat, amount : Nat \ {0}]]
ASSUME RestingAssumption == Resting \subseteq OrderIds
ASSUME BoundsAssumption ==
    /\ MaxJobs \in Nat /\ MaxAttempts \in Nat \ {0}
    /\ MaxChain \in Nat /\ MaxForeign \in Nat
ASSUME SwitchAssumption ==
    /\ ExternalFills \in BOOLEAN /\ PoolViewNonceLow \in BOOLEAN /\ CancelRoute \in BOOLEAN

None == -1                  \* an absent nonce, cached nonce or time
Jobs == 1..MaxJobs          \* ids of RelayJob rows
NoJob == 0                  \* sender of a transaction that is no job's

IN_FLIGHT == {"sending", "sent"}
LIVE == {"pending", "sending", "sent"}
TERMINAL == {"confirmed", "failed", "cancelled"}
Statuses == {"none"} \cup LIVE \cup TERMINAL

(* classify_rpc_error, with "ok" for a broadcast that raised nothing or    *)
(* "already known"; "transient" is every other error.                      *)
Kinds == {"ok", "underpriced", "nonce_low", "insufficient_funds", "transient"}

VARIABLES
    order,      \* orders table: [posted, filled, cancelled]
    job,        \* relay_jobs table
    cancel,     \* the DELETE request in progress, if any
    answered,   \* history: DELETEs that answered onchainCancelRequired = FALSE,
                \*   each with its order and the jobs the request read
    next,       \* NonceManager._next
    work,       \* the worker: where it is, on which job, in which mode
    chain,      \* external: the mined transactions that matter, in order
    account,    \* external: mined nonce of the relayer's key at the head
    pool,       \* external: transactions some node holds
    seen,       \* external: the prefix of chain that every node has seen
    foreign     \* external: other transactions sent with the relayer's key

dbVars == <<order, job>>
apiVars == <<cancel, answered>>
chainVars == <<chain, account, pool, seen, foreign>>
vars == <<order, job, cancel, answered, next, work, chain, account, pool, seen, foreign>>

NoRow == [status |-> "none", taker |-> None, maker |-> None, fill |-> 0, nonce |-> None,
          signed |-> FALSE, attempts |-> 0, consumed |-> None]
Idle == [at |-> "idle", job |-> NoJob, mode |-> "send", kind |-> "ok"]
NoCancel == [order |-> None, jobs |-> {}, exposed |-> FALSE]

OrderRow == [posted : BOOLEAN, filled : Nat, cancelled : BOOLEAN]
JobRow == [status : Statuses, taker : OrderIds \cup {None}, maker : OrderIds \cup {None},
           fill : Nat, nonce : Nat \cup {None}, signed : BOOLEAN,
           attempts : 0..MaxAttempts, consumed : Nat \cup {None}]
Event == [nonce : Nat \cup {None}, job : Jobs \cup {NoJob}, ok : BOOLEAN,
          taker : OrderIds \cup {None}, maker : OrderIds \cup {None}, fill : Nat]
Tx == [job : Jobs \cup {NoJob}, nonce : Nat]
Work == [at : {"idle", "landed", "check", "clear", "cast", "note"}, job : Jobs \cup {NoJob},
         mode : {"send", "rebroadcast", "resend"}, kind : Kinds]

(* The tables (a job in flight has its nonce on record), the request in    *)
(* progress, the worker and the node pool.                                 *)
TypeOK ==
    /\ order \in [OrderIds -> OrderRow]
    /\ job \in [Jobs -> JobRow]
    /\ \A j \in Jobs : job[j].status \in IN_FLIGHT => job[j].nonce # None /\ job[j].signed
    /\ cancel \in [order : OrderIds \cup {None}, jobs : SUBSET Jobs, exposed : BOOLEAN]
    /\ answered \subseteq [order : OrderIds, jobs : SUBSET Jobs]
    /\ next \in Nat \cup {None}
    /\ work \in Work
    /\ chain \in Seq(Event)
    /\ account \in Nat
    /\ pool \subseteq Tx
    /\ seen \in 0..Len(chain)
    /\ foreign \in 0..MaxForeign

Init ==
    /\ order = [o \in OrderIds |-> [posted |-> o \in Resting, filled |-> 0, cancelled |-> FALSE]]
    /\ job = [j \in Jobs |-> NoRow]
    /\ cancel = NoCancel
    /\ answered = {}
    /\ next = None
    /\ work = Idle
    /\ chain = <<>>
    /\ account = 0
    /\ pool = {}
    /\ seen = 0
    /\ foreign = 0
----------------------------------------------------------------------------
(* Matching (matcher.py).  ord and jb are the tables as the database       *)
(* transaction in progress has them.                                       *)

_remaining(ord, o) == Book[o].amount - ord[o].filled

_crosses(ord, t, m) ==
    /\ Book[t].isBuy # Book[m].isBuy
    /\ ~ord[t].cancelled /\ ~ord[m].cancelled
    /\ Book[t].maker # Book[m].maker
    /\ IF Book[t].isBuy THEN Book[t].price >= Book[m].price ELSE Book[m].price >= Book[t].price

(* Resting orders that taker t can take from.                              *)
Makers(ord, t) ==
    {m \in OrderIds \ {t} : ord[m].posted /\ _crosses(ord, t, m) /\ _remaining(ord, m) > 0}

(* Best price for the taker first, then the older order.                   *)
Ahead(t, m, n) ==
    \/ Book[m].price = Book[n].price /\ m < n
    \/ IF Book[t].isBuy THEN Book[m].price < Book[n].price ELSE Book[m].price > Book[n].price

(* What t takes from m: what the makers ahead of m leave of it.            *)
OnOffer(ord, S) == MapThenSumSet(LAMBDA n : _remaining(ord, n), S)

Quantity(ord, t, m) ==
    LET left == _remaining(ord, t) - OnOffer(ord, {n \in Makers(ord, t) : Ahead(t, n, m)})
    IN  Max({0, Min({left, _remaining(ord, m)})})

Hits(ord, t) == {m \in Makers(ord, t) : Quantity(ord, t, m) > 0}

(* enqueue_match: a fresh row per match, ids in the order of matching.     *)
Rows(jb) == {j \in Jobs : jb[j].status # "none"}
RowFor(ord, jb, t, m) ==
    Cardinality(Rows(jb)) + Cardinality({n \in Hits(ord, t) : Ahead(t, n, m)}) + 1

enqueue_match(t, m, fill) ==
    [NoRow EXCEPT !.status = "pending", !.taker = t, !.maker = m, !.fill = fill]

HasRoom(ord, jb, t) == Cardinality(Rows(jb)) + Cardinality(Hits(ord, t)) <= MaxJobs

(* The orders and the jobs after try_match(t).                             *)
Taken(ord, t) == MapThenSumSet(LAMBDA m : Quantity(ord, t, m), Hits(ord, t))

MatchedOrders(ord, t) ==
    [o \in OrderIds |->
        IF o = t
        THEN [ord[t] EXCEPT !.filled = @ + Taken(ord, t)]
        ELSE IF o \in Hits(ord, t)
        THEN [ord[o] EXCEPT !.filled = @ + Quantity(ord, t, o)]
        ELSE ord[o]]

MatchedJobs(ord, jb, t) ==
    [j \in Jobs |->
        IF j \in Rows(jb) THEN jb[j]
        ELSE IF \E m \in Hits(ord, t) : RowFor(ord, jb, t, m) = j
        THEN LET m == CHOOSE m \in Hits(ord, t) : RowFor(ord, jb, t, m) = j
             IN  enqueue_match(t, m, Quantity(ord, t, m))
        ELSE jb[j]]

(* POST /orders: store the order, then match it, in one transaction.       *)
post_order(o) ==
    LET ord == [order EXCEPT ![o].posted = TRUE]
    IN  /\ ~order[o].posted
        /\ HasRoom(ord, job, o)
        /\ order' = MatchedOrders(ord, o)
        /\ job' = MatchedJobs(ord, job, o)
        /\ UNCHANGED <<apiVars, next, work, chainVars>>
----------------------------------------------------------------------------
(* rollback_job (queue.py) of the jobs S: their orders get the fills back, *)
(* but never go below 0.                                                   *)
_orders(j) == {job[j].taker, job[j].maker}
Touches(j, o) == o \in _orders(j)
Fills(jb, S) == MapThenSumSet(LAMBDA j : jb[j].fill, S)

(* Wrong: only the taker gets the fill back.                               *)
LoweredTakerOnly(ord, S) ==
    [o \in OrderIds |->
        [ord[o] EXCEPT !.filled =
            Max({0, @ - Fills(job, {j \in S : job[j].taker = o})})]]

Lowered(ord, S) ==
    [o \in OrderIds |->
        [ord[o] EXCEPT !.filled =
            Max({0, @ - Fills(job, {j \in S : Touches(j, o)})})]]

WithStatus(jb, S, status) ==
    [j \in Jobs |-> IF j \in S THEN [jb[j] EXCEPT !.status = status] ELSE jb[j]]

(* DELETE /orders/{hash}, up to its SELECT ... FOR UPDATE: the jobs of the *)
(* order are read and their rows locked until the request commits.         *)
cancel_read(o) ==
    LET jobs == {j \in Jobs : job[j].status # "none" /\ Touches(j, o)}
        unsent == {j \in jobs : job[j].status = "pending" /\ ~job[j].signed}
    IN  /\ CancelRoute
        /\ cancel = NoCancel
        /\ order[o].posted
        /\ cancel' = [order |-> o, jobs |-> jobs,
                      exposed |-> \/ order[o].filled - Fills(job, unsent) > 0
                                  \/ \E j \in jobs : \/ job[j].signed
                                                     \/ job[j].status \in IN_FLIGHT \cup {"confirmed"}]
        /\ UNCHANGED <<dbVars, answered, next, work, chainVars>>

(* Wrong: gives back the fills of all jobs it read, whatever became of     *)
(* them.                                                                   *)
cancel_commitGivesAllBack ==
    LET undone == {j \in cancel.jobs : job[j].status = "pending"}
    IN  /\ cancel # NoCancel
        /\ order' = Lowered([order EXCEPT ![cancel.order].cancelled = TRUE], cancel.jobs)
        /\ job' = WithStatus(job, undone, "cancelled")
        /\ cancel' = NoCancel
        /\ UNCHANGED <<answered, next, work, chainVars>>

(* The rest of the request: the pending jobs it read are rolled back, the  *)
(* order is cancelled, and the answer says whether an on-chain cancel is   *)
(* required.                                                               *)
cancel_commit ==
    LET o == cancel.order
        undone == {j \in cancel.jobs : job[j].status = "pending"}
        inFlight == {j \in cancel.jobs : job[j].status \in IN_FLIGHT}
    IN  /\ cancel # NoCancel
        /\ order' = Lowered([order EXCEPT ![o].cancelled = TRUE], undone)
        /\ job' = WithStatus(job, undone, "cancelled")
        /\ answered' = IF cancel.exposed \/ inFlight # {} THEN answered ELSE answered \cup {[order |-> o, jobs |-> cancel.jobs]}
        /\ cancel' = NoCancel
        /\ UNCHANGED <<next, work, chainVars>>

(* A row lock makes the worker's write to that row wait.                   *)
Unlocked(j) == j \notin cancel.jobs
----------------------------------------------------------------------------
(* What the nodes answer.  Every read goes to some node, whose chain is a  *)
(* prefix of the head's that is at least seen long.                        *)

Landed(j, k) == \E i \in 1..k : chain[i].job = j /\ chain[i].ok

(* latest_nonce is past n on the chain's first k entries.                  *)
Past(n, k) == \E i \in 1..k : chain[i].nonce >= n

(* Exchange.filled of an order on the chain's first k entries.             *)
FilledOnChain(o, k) ==
    MapThenSumSet(LAMBDA i : chain[i].fill,
                  {i \in 1..k : chain[i].ok /\ o \in {chain[i].taker, chain[i].maker}})

(* pending_nonce: from what every node has mined up to the first nonce     *)
(* that no node holds.                                                     *)
PendingNonces ==
    LET mined == Cardinality({i \in 1..seen : chain[i].nonce # None})
        gaps == {n \in account..(account + Cardinality(pool)) : \A t \in pool : t.nonce # n}
    IN  mined..Min(gaps)

(* _find_receipt: positions of mined transactions of the job.              *)
Receipts(j) == {i \in 1..Len(chain) : chain[i].job = j}
NoReceipt(j) == \A i \in 1..seen : chain[i].job # j

(* Fill of an order that confirmed jobs other than j explain.              *)
Accounted(o, j) ==
    Fills(job, {x \in Jobs \ {j} : job[x].status = "confirmed" /\ Touches(x, o)})

Unexplained(o, j, k) == FilledOnChain(o, k) - Accounted(o, j) >= job[j].fill

(* _fill_verdict: the answers that the nodes' lag allows.                  *)
_fill_verdict(j, verdict) ==
    CASE verdict = "landed" -> Landed(j, Len(chain))
      [] verdict = "maybe"  -> /\ ~Landed(j, seen)
                               /\ \A o \in _orders(j) : Unexplained(o, j, Len(chain))
      [] verdict = "absent" -> /\ ~Landed(j, seen)
                               /\ \E o \in _orders(j) : ~Unexplained(o, j, seen)
----------------------------------------------------------------------------
(* Steps of the worker that end in a database commit.  A bumped attempt    *)
(* counter saturates: only "MaxAttempts or more" is ever tested.           *)
Attempted(j) == Min({job[j].attempts + 1, MaxAttempts})

(* Wrong: forgets the jobs that are yet to land.                           *)
_resync_filledChainOnly(ord, jb, o, k) == Min({Book[o].amount, FilledOnChain(o, k)})

(* _resync_filled: on-chain fill plus that of live jobs, capped at the     *)
(* order's amount.                                                         *)
_resync_filled(ord, jb, o, k) ==
    Min({Book[o].amount,
         FilledOnChain(o, k)
           + Fills(jb, {j \in Jobs : jb[j].status \in LIVE /\ o \in {jb[j].taker, jb[j].maker}})})

(* _retire_failed_side, on tables ord and jb in which j is rolled back:    *)
(* overfilled orders are resynced (each from the node at view[o]),         *)
(* culprits cancelled, and an innocent taker is matched again.             *)
_retire_failed_side(ord, jb, j, culprits, view) ==
    LET t == job[j].taker
        culled == [o \in OrderIds |->
                     [ord[o] EXCEPT !.filled = IF o \in DOMAIN view THEN _resync_filled(ord, jb, o, view[o]) ELSE @,
                                    !.cancelled = @ \/ o \in culprits]]
    IN  IF culprits # {} /\ t \notin culprits /\ ~culled[t].cancelled /\ _remaining(culled, t) > 0
        THEN /\ HasRoom(culled, jb, t)
             /\ order' = MatchedOrders(culled, t)
             /\ job' = MatchedJobs(culled, jb, t)
        ELSE /\ order' = culled
             /\ job' = jb

(* Roll the job back as failed; a failed preflight finds culprits among    *)
(* its orders and orders that the chain shows as overfilled.               *)
FailAndRetire(j) ==
    LET both == _orders(j)
    IN  \E culprits \in SUBSET both,
           over \in SUBSET {o \in both : FilledOnChain(o, Len(chain)) + job[j].fill > Book[o].amount} :
        \E view \in [over -> seen..Len(chain)] :
            _retire_failed_side(Lowered(order, {j}), WithStatus(job, {j}, "failed"), j, culprits, view)

_confirm(j) == job' = [job EXCEPT ![j].status = "confirmed", ![j].consumed = None]

(* Among the logs of a receipt is the OrderFilled of the job's two orders. *)
_has_fill_log(i) == chain[i].ok

(* _apply_receipt: a receipt with the fill confirms, once it is deep       *)
(* enough; a reverted one fails the job and retires the side at fault,     *)
(* unless one of the orders is cancelled already.                          *)
_apply_receipt(j, i) ==
    \/ /\ _has_fill_log(i)
       /\ _confirm(j) \/ job' = [job EXCEPT ![j].status = "sent"]
       /\ UNCHANGED order
    \/ /\ ~_has_fill_log(i)
       /\ IF order[job[j].taker].cancelled \/ order[job[j].maker].cancelled
          THEN /\ order' = Lowered(order, {j})
               /\ job' = WithStatus(job, {j}, "failed")
          ELSE FailAndRetire(j)

(* Wrong: the status is not reset.                                         *)
_back_to_pendingInFlight(j) == job' = [job EXCEPT ![j].nonce = None, ![j].consumed = None]

_back_to_pending(j) ==
    job' = [job EXCEPT ![j].status = "pending", ![j].nonce = None, ![j].consumed = None]

(* _nonce_consumed: ours may be what used the nonce.  The receipt lookup   *)
(* may fail, which counts as no receipt.                                   *)
_nonce_consumed(j) ==
    \/ \E i \in Receipts(j) : _apply_receipt(j, i)
    \/ /\ job' = [job EXCEPT ![j].status = "sent",
                             ![j].consumed = IF @ = None THEN Len(chain) ELSE @]
       /\ UNCHANGED order

resync == next' \in PendingNonces
----------------------------------------------------------------------------
(* _send, part one: a pending job, after the verdict on its earlier        *)
(* transactions if it signed any.  ("maybe" leaves everything as it is.)   *)
Unfilled(j) == ~job[j].signed \/ _fill_verdict(j, "absent")
OrderCancelled(j) == order[job[j].taker].cancelled \/ order[job[j].maker].cancelled

SendLanded(j) ==
    /\ work = Idle
    /\ job[j].status = "pending" /\ job[j].signed
    /\ _fill_verdict(j, "landed")
    /\ work' = [Idle EXCEPT !.at = "landed", !.job = j]
    /\ UNCHANGED <<dbVars, apiVars, next, chainVars>>

(* The write that follows does not look at the status again.               *)
SendConfirm ==
    /\ work.at = "landed"
    /\ Unlocked(work.job)
    /\ _confirm(work.job)
    /\ work' = Idle
    /\ UNCHANGED <<order, apiVars, next, chainVars>>

SendCancelled(j) ==
    /\ work = Idle
    /\ job[j].status = "pending" /\ Unfilled(j)
    /\ OrderCancelled(j)
    /\ Unlocked(j)
    /\ order' = Lowered(order, {j})
    /\ job' = WithStatus(job, {j}, "cancelled")
    /\ UNCHANGED <<apiVars, next, work, chainVars>>

SendCheck(j) ==
    /\ work = Idle
    /\ job[j].status = "pending" /\ Unfilled(j)
    /\ ~OrderCancelled(j)
    /\ work' = [Idle EXCEPT !.at = "check", !.job = j]
    /\ UNCHANGED <<dbVars, apiVars, next, chainVars>>

(* _send, part two, the preflight: each order must have room on chain for  *)
(* this fill and for those in flight.                                      *)
Committed(o, j) ==
    Fills(job, {x \in Jobs \ {j} : job[x].status \in IN_FLIGHT /\ Touches(x, o)})

SendPreflight ==
    LET j == work.job
    IN  /\ work.at = "check"
        /\ \A o \in _orders(j) :
              FilledOnChain(o, seen) + Committed(o, j) + job[j].fill <= Book[o].amount
        /\ work' = [work EXCEPT !.at = "clear"]
        /\ UNCHANGED <<dbVars, apiVars, next, chainVars>>

(* A hard failure rolls the job back, if it is still pending: in the       *)
(* preflight at the expense of the side at fault, later (the estimate      *)
(* reverts or exceeds the cap), or for a match after the close or attempts *)
(* used up, at nobody's.                                                   *)
SendFail ==
    LET j == work.job
    IN  /\ work.at \in {"check", "clear"}
        /\ job[j].status = "pending"
        /\ Unlocked(j)
        /\ \/ /\ work.at = "check"
              /\ FailAndRetire(j)
           \/ /\ order' = Lowered(order, {j})
              /\ job' = WithStatus(job, {j}, "failed")
        /\ work' = Idle
        /\ UNCHANGED <<apiVars, next, chainVars>>

(* _retry_or_fail: an RPC error costs an attempt (the last one: SendFail). *)
SendRetry ==
    LET j == work.job
    IN  /\ work.at \in {"check", "clear"}
        /\ Unlocked(j)
        /\ job[j].attempts + 1 < MaxAttempts
        /\ job' = [job EXCEPT ![j].attempts = @ + 1]
        /\ work' = Idle
        /\ UNCHANGED <<order, apiVars, next, chainVars>>

(* "busy", a fee above the cap and a low balance only defer the job.  So   *)
(* does finding that it is no longer pending.                              *)
SendDefer ==
    /\ work.at \in {"check", "clear"}
    /\ work' = Idle
    /\ UNCHANGED <<dbVars, apiVars, next, chainVars>>

(* One past the highest nonce of a job in flight.                          *)
_nonce_floor == Max({0} \cup {job[j].nonce + 1 : j \in {x \in Jobs : job[x].status \in IN_FLIGHT}})

(* Wrong: the cache or the node alone.                                     *)
reserveIgnoringFloor(p) == IF next = None THEN p ELSE next

(* NonceManager.reserve, with p what the node would answer.                *)
reserve(p) == Max({_nonce_floor, IF next = None THEN p ELSE next})

(* Wrong: the claim does not ask whether the job is still pending.         *)
SendClaimUnconditional(p) ==
    LET j == work.job
        n == reserve(p)
    IN  /\ work.at = "clear"
        /\ Unlocked(j)
        /\ next' = n + 1
        /\ job' = [job EXCEPT ![j].status = "sending", ![j].nonce = n, ![j].signed = TRUE]
        /\ work' = [work EXCEPT !.at = "cast", !.mode = "send"]
        /\ UNCHANGED <<order, apiVars, chainVars>>

(* _send, part three: the conditional claim, the nonce, the signature and  *)
(* the write-ahead commit.                                                 *)
SendClaim(p) ==
    LET j == work.job
        n == reserve(p)
    IN  /\ work.at = "clear"
        /\ job[j].status = "pending"
        /\ Unlocked(j)
        /\ next' = n + 1
        /\ job' = [job EXCEPT ![j].status = "sending", ![j].nonce = n,
                              ![j].signed = TRUE, ![j].consumed = None]
        /\ work' = [work EXCEPT !.at = "cast", !.mode = "send"]
        /\ UNCHANGED <<order, apiVars, chainVars>>
----------------------------------------------------------------------------
(* _broadcast of the job's raw transaction: what a node may answer, and    *)
(* what that does to the pools.  A transaction is accepted by a node that  *)
(* has not seen its nonce used (at a node that lags behind its use, in     *)
(* vain); an error that is none of the known ones hides either.            *)
Pooled(t) == IF t.nonce >= account THEN pool \cup {t} ELSE pool

CanAnswer(kind, t) ==
    CASE kind = "ok" -> ~Past(t.nonce, seen)
      [] kind = "nonce_low" -> \/ Past(t.nonce, Len(chain))
                               \/ PoolViewNonceLow /\ \E u \in pool : u.nonce = t.nonce
      [] OTHER -> TRUE

Broadcast(kind) ==
    LET t == [job |-> work.job, nonce |-> job[work.job].nonce]
    IN  /\ work.at = "cast"
        /\ CanAnswer(kind, t)
        /\ pool' \in CASE kind = "ok" -> {Pooled(t)}
                       [] kind = "transient" -> {pool, Pooled(t)}
                       [] OTHER -> {pool}
        /\ work' = [work EXCEPT !.at = "note", !.kind = kind]
        /\ UNCHANGED <<dbVars, apiVars, next, chain, account, seen, foreign>>

(* "nonce too low", in every mode.                                         *)
NoteNonceLow ==
    /\ work.at = "note" /\ work.kind = "nonce_low"
    /\ Unlocked(work.job)
    /\ _nonce_consumed(work.job)
    /\ resync
    /\ work' = Idle
    /\ UNCHANGED <<apiVars, chainVars>>

(* After _send: accepted ...                                               *)
NoteSent ==
    LET j == work.job
    IN  /\ work.at = "note" /\ work.mode = "send"
        /\ Unlocked(j)
        /\ work.kind = "ok"
        /\ job' = [job EXCEPT ![j].status = "sent", ![j].attempts = Attempted(j)]
        /\ work' = Idle
        /\ UNCHANGED <<order, apiVars, next, chainVars>>

(* ... or definitely not accepted ...                                      *)
NoteRefused ==
    LET j == work.job
    IN  /\ work.at = "note" /\ work.mode = "send"
        /\ Unlocked(j)
        /\ \/ work.kind = "underpriced" /\ resync
           \/ /\ work.kind = "insufficient_funds"
              /\ next' = IF next = job[j].nonce + 1 THEN job[j].nonce ELSE next
        /\ _back_to_pending(j)
        /\ work' = Idle
        /\ UNCHANGED <<order, apiVars, chainVars>>

(* Wrong: an unknown outcome counts as a refusal.                          *)
NoteUnknownAsRefused ==
    /\ work.at = "note" /\ work.mode = "send"
    /\ work.kind = "transient"
    /\ _back_to_pending(work.job)
    /\ work' = Idle
    /\ UNCHANGED <<order, apiVars, next, chainVars>>

(* ... or unknown: the write-ahead record stays.                           *)
NoteUnknown ==
    LET j == work.job
    IN  /\ work.at = "note" /\ work.mode = "send"
        /\ Unlocked(j)
        /\ work.kind = "transient"
        /\ job' = [job EXCEPT ![j].attempts = Attempted(j)]
        /\ work' = Idle
        /\ UNCHANGED <<order, apiVars, next, chainVars>>

(* After _rebroadcast of a write-ahead record.                             *)
NoteRebroadcast ==
    LET j == work.job
    IN  /\ work.at = "note" /\ work.mode = "rebroadcast" /\ work.kind # "nonce_low"
        /\ Unlocked(j)
        /\ job' = CASE work.kind \in {"ok", "underpriced"} -> [job EXCEPT ![j].status = "sent"]
                    [] work.kind = "insufficient_funds" -> job
                    [] work.kind = "transient" ->
                         [job EXCEPT ![j].attempts = Attempted(j),
                                     ![j].status = IF Attempted(j) >= MaxAttempts THEN "sent" ELSE @]
        /\ work' = Idle
        /\ UNCHANGED <<order, apiVars, next, chainVars>>

(* After a bump, or another broadcast of a stuck transaction.              *)
NoteResend ==
    /\ work.at = "note" /\ work.mode = "resend"
    /\ work.kind # "nonce_low"
    /\ work' = Idle
    /\ UNCHANGED <<dbVars, apiVars, next, chainVars>>
----------------------------------------------------------------------------
(* _reconcile of a job in flight.                                          *)
ReconcileReceipt(j) ==
    /\ work = Idle
    /\ job[j].status \in IN_FLIGHT
    /\ Unlocked(j)
    /\ \E i \in Receipts(j) : _apply_receipt(j, i)
    /\ UNCHANGED <<apiVars, next, work, chainVars>>

(* No receipt: a write-ahead record is broadcast again ...                 *)
Rebroadcast(j) ==
    /\ work = Idle
    /\ job[j].status = "sending" /\ NoReceipt(j)
    /\ work' = [Idle EXCEPT !.at = "cast", !.job = j, !.mode = "rebroadcast"]
    /\ UNCHANGED <<dbVars, apiVars, next, chainVars>>

(* ... a sent one gets higher fees under the same nonce, on record before  *)
(* it is broadcast ...                                                     *)
Unmined(j) == job[j].status = "sent" /\ job[j].consumed = None /\ NoReceipt(j)

Bump(j) ==
    /\ work = Idle
    /\ Unmined(j) /\ job[j].attempts < MaxAttempts
    /\ Unlocked(j)
    /\ job' = [job EXCEPT ![j].attempts = Attempted(j)]
    /\ work' = [Idle EXCEPT !.at = "cast", !.job = j, !.mode = "resend"]
    /\ UNCHANGED <<order, apiVars, next, chainVars>>

(* ... and after the last attempt the same bytes are broadcast again.      *)
Stuck(j) ==
    /\ work = Idle
    /\ Unmined(j) /\ job[j].attempts >= MaxAttempts
    /\ work' = [Idle EXCEPT !.at = "cast", !.job = j, !.mode = "resend"]
    /\ UNCHANGED <<dbVars, apiVars, next, chainVars>>

(* Wrong: does not wait.                                                   *)
WaitedNever(j) == TRUE

(* _settle_consumed, once RELAYER_RESUBMIT_AFTER_SECONDS have passed since *)
(* "nonce too low".                                                        *)
Waited(j) == seen >= job[j].consumed

Settling(j) ==
    /\ work = Idle
    /\ job[j].status = "sent" /\ job[j].consumed # None /\ NoReceipt(j)
    /\ Unlocked(j)
    /\ Waited(j)

(* The mined nonce is not past ours after all.                             *)
SettleNotMined(j) ==
    /\ Settling(j)
    /\ ~Past(job[j].nonce, seen)
    /\ job' = [job EXCEPT ![j].consumed = None]
    /\ UNCHANGED <<order, apiVars, next, work, chainVars>>

SettleLanded(j) ==
    /\ Settling(j)
    /\ Past(job[j].nonce, Len(chain))
    /\ _fill_verdict(j, "landed")
    /\ _confirm(j)
    /\ UNCHANGED <<order, apiVars, next, work, chainVars>>

SettleMaybe(j) ==
    /\ Settling(j)
    /\ Past(job[j].nonce, Len(chain))
    /\ _fill_verdict(j, "maybe")
    /\ job' = [job EXCEPT ![j].consumed = Len(chain)]
    /\ UNCHANGED <<order, apiVars, next, work, chainVars>>

SettleAbsent(j) ==
    /\ Settling(j)
    /\ Past(job[j].nonce, Len(chain))
    /\ _fill_verdict(j, "absent")
    /\ _back_to_pending(j)
    /\ resync
    /\ UNCHANGED <<order, apiVars, work, chainVars>>

(* A leader elected anew, or one that gave the lock up for another, asks   *)
(* the nodes for its next nonce.                                           *)
_ensure_leader ==
    /\ work = Idle /\ next # None
    /\ next' = None
    /\ UNCHANGED <<dbVars, apiVars, work, chainVars>>

(* The process dies and starts again: the tables survive, a DELETE in      *)
(* progress (in this process or another) may be rolled back.               *)
Crash ==
    /\ work # Idle \/ next # None \/ cancel # NoCancel
    /\ work' = Idle
    /\ next' = None
    /\ cancel' \in {cancel, NoCancel}
    /\ UNCHANGED <<dbVars, answered, chainVars>>
----------------------------------------------------------------------------
(* The chain, external to the repository.  Exchange.matchOrders fills only *)
(* what both orders have left; it may revert for other reasons (funds,     *)
(* approvals, cancelled or expired orders).                                *)
Fits(t, m, fill) ==
    \A o \in {t, m} : FilledOnChain(o, Len(chain)) + fill <= Book[o].amount

MinedBy(t, ok) ==
    IF t.job = NoJob
    THEN [nonce |-> t.nonce, job |-> NoJob, ok |-> FALSE, taker |-> None, maker |-> None, fill |-> 0]
    ELSE [nonce |-> t.nonce, job |-> t.job, ok |-> ok,
          taker |-> job[t.job].taker, maker |-> job[t.job].maker, fill |-> job[t.job].fill]

Mine(t, ok) ==
    /\ Len(chain) < MaxChain
    /\ t.nonce = account
    /\ ok => t.job # NoJob /\ Fits(job[t.job].taker, job[t.job].maker, job[t.job].fill)
    /\ chain' = Append(chain, MinedBy(t, ok))
    /\ account' = account + 1
    /\ pool' = {u \in pool : u.nonce # account}
    /\ UNCHANGED <<dbVars, apiVars, next, work, seen, foreign>>

(* Another transaction of the relayer's key (an emissions distribution).   *)
ForeignSend(n) ==
    /\ foreign < MaxForeign
    /\ foreign' = foreign + 1
    /\ pool' = pool \cup {[job |-> NoJob, nonce |-> n]}
    /\ UNCHANGED <<dbVars, apiVars, next, work, chain, account, seen>>

(* The nodes drop a transaction.                                           *)
Evict(t) ==
    /\ pool' = pool \ {t}
    /\ UNCHANGED <<dbVars, apiVars, next, work, chain, account, seen, foreign>>

(* Anyone who saw two signed orders in calldata may match them.            *)
Public(o) ==
    \/ \E t \in pool : t.job # NoJob /\ Touches(t.job, o)
    \/ \E i \in 1..Len(chain) : o \in {chain[i].taker, chain[i].maker}

ExternalFill(t, m, fill) ==
    /\ ExternalFills
    /\ Len(chain) < MaxChain
    /\ t # m /\ Public(t) /\ Public(m)
    /\ Book[t].isBuy /\ ~Book[m].isBuy /\ Book[t].price >= Book[m].price
    /\ Fits(t, m, fill)
    /\ chain' = Append(chain, [nonce |-> None, job |-> NoJob, ok |-> TRUE,
                               taker |-> t, maker |-> m, fill |-> fill])
    /\ UNCHANGED <<dbVars, apiVars, next, work, account, pool, seen, foreign>>

(* Every node has now seen the first k entries.                            *)
CatchUp(k) ==
    /\ seen' = k
    /\ UNCHANGED <<dbVars, apiVars, next, work, chain, account, pool, foreign>>
----------------------------------------------------------------------------
WorkerStep ==
    \/ SendConfirm
    \/ SendPreflight
    \/ SendFail
    \/ SendRetry
    \/ SendDefer
    \/ \E p \in PendingNonces : SendClaim(p)
    \/ \E kind \in Kinds : Broadcast(kind)
    \/ NoteNonceLow
    \/ NoteSent
    \/ NoteRefused
    \/ NoteUnknown
    \/ NoteRebroadcast
    \/ NoteResend
    \/ \E j \in Jobs :
          \/ SendLanded(j)
          \/ SendCancelled(j)
          \/ SendCheck(j)
          \/ ReconcileReceipt(j)
          \/ Rebroadcast(j)
          \/ Bump(j)
          \/ Stuck(j)
          \/ SettleNotMined(j)
          \/ SettleLanded(j)
          \/ SettleMaybe(j)
          \/ SettleAbsent(j)

ChainStep ==
    \/ \E t \in pool, ok \in BOOLEAN : Mine(t, ok)
    \/ \E n \in PendingNonces : n >= account /\ ForeignSend(n)
    \/ \E t \in pool : Evict(t)
    \/ \E t, m \in OrderIds : ExternalFill(t, m, 1)
    \/ \E k \in (seen + 1)..Len(chain) : CatchUp(k)

Next ==
    \/ \E o \in OrderIds : post_order(o) \/ cancel_read(o)
    \/ cancel_commit
    \/ WorkerStep
    \/ _ensure_leader
    \/ Crash
    \/ ChainStep

Spec == Init /\ [][Next]_vars
----------------------------------------------------------------------------
(* What the repository promises.                                           *)

(* Sum of the fills of the jobs in S that touch o.                         *)
FillOf(S, o) == Fills(job, {j \in S : Touches(j, o)})
WithStatusIn(S) == {j \in Jobs : job[j].status \in S}

(* The nonces under which a transaction of j is on record or in a pool.    *)
Holds(j) ==
    {t.nonce : t \in {u \in pool : u.job = j}}
      \cup {job[x].nonce : x \in WithStatusIn(IN_FLIGHT) \cap {j}}

(* "A fill is never signed under a second nonce while the first can mine"  *)
(* (worker.py): whatever crashes, lost answers and re-sends come, the      *)
(* nonces of a job that can still be mined or have landed its fill are one *)
(* at most.                                                                *)
OneLiveNonce ==
    \A j \in Jobs :
        Cardinality(Holds(j) \cup {chain[i].nonce : i \in {x \in Receipts(j) : chain[x].ok}}) <= 1

(* No two jobs hold the same nonce, on record or in a pool: a write-ahead  *)
(* transaction that no node has seen is never re-issued to another job     *)
(* (NonceManager.reserve).                                                 *)
NoSharedNonce ==
    \A j, k \in Jobs : j # k => Holds(j) \cap Holds(k) = {}

(* Unless others filled it through the Exchange, each order's optimistic   *)
(* fill is exactly what its live and confirmed jobs hold of it, however    *)
(* matches, rollbacks, re-matches and cancels interleave; hence no order   *)
(* is promised beyond its amount.                                          *)
FilledByOthers(o) ==
    \E i \in 1..Len(chain) : chain[i].nonce = None /\ o \in {chain[i].taker, chain[i].maker}

FilledExact ==
    \A o \in OrderIds :
        ~FilledByOthers(o) =>
            /\ order[o].filled = FillOf(WithStatusIn(LIVE \cup {"confirmed"}), o)
            /\ order[o].filled <= Book[o].amount

(* With fills by others, of which the resync learns from lagging nodes, an *)
(* order still covers its live jobs and never exceeds its amount.          *)
BookCovered ==
    \A o \in OrderIds :
        /\ FillOf(WithStatusIn(LIVE), o) <= order[o].filled
        /\ order[o].filled <= Book[o].amount

(* The jobs that a DELETE read before it answered "no on-chain cancel      *)
(* required" are never signed afterwards: the row locks and the worker's   *)
(* conditional claim (queue.py, router.py).                                *)
AnsweredJobsUnsigned ==
    \A a \in answered : \A j \in a.jobs : ~job[j].signed

(* router.py: the response of DELETE "flags onchainCancelRequired" when    *)
(* the signature of the order may appear on chain.  So an order answered   *)
(* without the flag would never be in calldata that the worker signs.      *)
CancelAnswerHolds ==
    \A a \in answered : \A j \in Jobs : Touches(j, a.order) => ~job[j].signed

(* The promise of the whole path: a match is settled by exactly one        *)
(* transaction that landed, or dropped with none, and both are final.      *)
Phase(status) ==
    CASE status = "none" -> "none"
      [] status \in LIVE -> "open"
      [] status = "confirmed" -> "settled"
      [] status \in {"failed", "cancelled"} -> "dropped"

Fill == INSTANCE FillOnce WITH
    phase <- [j \in Jobs |-> Phase(job[j].status)],
    landed <- [j \in Jobs |-> {i \in Receipts(j) : chain[i].ok}]

(* Every step of the matcher, the routes, the worker and the chain is a    *)
(* step of FillOnce or invisible to it.                                    *)
FillsOnce == Fill!Spec
=============================================================================
