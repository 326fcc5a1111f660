----------------------------- MODULE Emissions -----------------------------
(***************************************************************************)
(* backend/app/emissions/router.py: POST /emissions/distribute, which pays *)
(* OU tokens from the treasury with a transaction signed by the relayer's  *)
(* key, and GET /emissions/distributions/{id}.  The contract has no        *)
(* idempotency key, so the route keeps a write-ahead row per signed        *)
(* transaction and answers a repeated request from it.                     *)
(*                                                                         *)
(* Requests run concurrently in one event loop: control changes hands at   *)
(* each await of a node's answer and at the shared nonce lock.  The CLOB   *)
(* worker signs with the same key (Relayer): here its transactions are     *)
(* foreign ones that take nonces.                                          *)
(*                                                                         *)
(* A payload with its idempotencyKey is a member of Keys.  A signed        *)
(* transaction is its row and a nonce.  The nodes lag as in Relayer: seen  *)
(* is the prefix of the chain that all of them have.                       *)
(***************************************************************************)
EXTENDS Integers, Sequences, FiniteSetsExt

CONSTANTS
    Keys,           \* payloads, each with its idempotency key
    Requests,       \* concurrent calls of the routes
    MaxRows,        \* bound on emission_distributions
    MaxForeign,     \* bound on other transactions of the key
    MaxChain        \* bound on the length of the chain

ASSUME EmissionsBounds == MaxRows \in Nat /\ MaxForeign \in Nat /\ MaxChain \in Nat

None == -1
Rows == 1..MaxRows
NoRow == 0              \* record of a transaction that is no row's
Free == "free"          \* nm.lock is not held

ASSUME RequestNames == Free \notin Requests

LIVE == {"sending", "sent", "confirmed"}
IN_FLIGHT == {"sending", "sent"}
Statuses == {"none", "failed"} \cup LIVE
Kinds == {"ok", "nonce_low", "underpriced", "refused", "transient"}

VARIABLES
    rec,        \* emission_distributions: [status, key, nonce, aged]
    req,        \* each request: where it is, its key, the row it works on, and
                \* the status its session loaded for that row (never reloaded)
    lock,       \* holder of nm.lock
    next,       \* NonceManager._next
    doubted,    \* history: rows of which the route concluded, or sent, too much
    chain,      \* external: mined transactions of the key, in order
    pool,       \* external: transactions some node holds
    seen,       \* external: the prefix of chain that every node has seen
    foreign     \* external: other transactions sent with the key

vars == <<rec, req, lock, next, doubted, chain, pool, seen, foreign>>
nodeVars == <<chain, pool, seen, foreign>>

NoRecord == [status |-> "none", key |-> None, nonce |-> None, aged |-> FALSE]
Idle == [at |-> "idle", key |-> None, row |-> NoRow, view |-> "none", mode |-> "post", kind |-> "ok"]

Tx == [rec : Rows \cup {NoRow}, nonce : Nat]

(* Types; a row has its nonce from its first commit; and the nonce lock is *)
(* held by the one request between `async with nm.lock` and its answer.    *)
EmissionsTypeOK ==
    /\ rec \in [Rows -> [status : Statuses, key : Keys \cup {None}, nonce : Nat \cup {None}, aged : BOOLEAN]]
    /\ \A r \in Rows : rec[r].status # "none" => rec[r].nonce # None
    /\ req \in [Requests -> [at : {"idle", "receipt", "nonce", "estimate", "sign", "repeat", "cast", "note"},
                             key : Keys \cup {None}, row : Rows \cup {NoRow},
                             view : Statuses, mode : {"post", "poll", "conflict"}, kind : Kinds]]
    /\ lock \in Requests \cup {Free}
    /\ \A q \in Requests : req[q].at \in {"sign", "cast", "note"} => lock = q
    /\ next \in Nat \cup {None}
    /\ doubted \subseteq Rows
    /\ chain \in Seq([rec : Rows \cup {NoRow}, nonce : Nat, ok : BOOLEAN])
    /\ pool \subseteq Tx
    /\ seen \in 0..Len(chain)
    /\ foreign \in 0..MaxForeign

Init ==
    /\ rec = [r \in Rows |-> NoRecord]
    /\ req = [q \in Requests |-> Idle]
    /\ lock = Free
    /\ next = None
    /\ doubted = {}
    /\ chain = <<>>
    /\ pool = {}
    /\ seen = 0
    /\ foreign = 0
----------------------------------------------------------------------------
(* The node pool.  Nonces of the key start at 0, so the mined nonce is the *)
(* length of the chain.                                                    *)
Past(n, k) == k > n
Receipts(r) == {i \in 1..Len(chain) : chain[i].rec = r}
NoReceipt(r) == \A i \in 1..seen : chain[i].rec # r

PendingNonces ==
    LET gaps == {n \in Len(chain)..(Len(chain) + Cardinality(pool)) : \A t \in pool : t.nonce # n}
    IN  seen..Min(gaps)

Pooled(t) == IF t.nonce >= Len(chain) THEN pool \cup {t} ELSE pool

(* What a node may answer to a broadcast of t, and what that does to the   *)
(* pools.                                                                  *)
CanAnswer(kind, t) ==
    CASE kind = "ok" -> ~Past(t.nonce, seen)
      [] kind = "nonce_low" -> Past(t.nonce, Len(chain))
      [] OTHER -> TRUE

Answered(kind, t) ==
    /\ CanAnswer(kind, t)
    /\ pool' \in CASE kind = "ok" -> {Pooled(t)}
                   [] kind = "transient" -> {pool, Pooled(t)}
                   [] OTHER -> {pool}
    /\ UNCHANGED <<chain, seen, foreign>>
----------------------------------------------------------------------------
(* The nonce authority (relayer/nonce.py), shared by worker and route.     *)
_nonce_floor == Max({0} \cup {rec[r].nonce + 1 : r \in {x \in Rows : rec[x].status \in IN_FLIGHT}})

reserve(floor, p) == Max({floor, IF next = None THEN p ELSE next})
resync == next' \in PendingNonces
Released(n) == IF next = n + 1 THEN n ELSE next
----------------------------------------------------------------------------
(* The rows of a payload that are live.  uq_emission_live_payload allows   *)
(* one; a write that would make a second one fails and changes nothing.    *)
LiveRows(k) == {r \in Rows : rec[r].status \in LIVE /\ rec[r].key = k}

Stored(r, status) ==
    IF status \in LIVE /\ LiveRows(rec[r].key) \ {r} # {}
    THEN rec
    ELSE [rec EXCEPT ![r].status = status]

(* The place of a request that has loaded row r, in the given mode.        *)
Loaded(q, k, r, mode) ==
    [req[q] EXCEPT !.at = "receipt", !.key = k, !.row = r, !.view = rec[r].status, !.mode = mode]

(* A request ends, and with it its hold of the lock.                       *)
Finish(q) ==
    /\ req' = [req EXCEPT ![q] = Idle]
    /\ lock' = IF lock = q THEN Free ELSE lock

At(q, place) == req' = [req EXCEPT ![q].at = place]

(* _live_rows, its SELECT: go on with the live row of the payload, if any. *)
Look(q, k, otherwise) ==
    \/ \E r \in LiveRows(k) :
          req' = [req EXCEPT ![q] = Loaded(q, k, r, "post")]
    \/ /\ LiveRows(k) = {}
       /\ req' = [req EXCEPT ![q] = [Idle EXCEPT !.at = otherwise, !.key = k]]

(* POST: the fast path before any lock.                                    *)
distribute(q, k) ==
    /\ req[q] = Idle
    /\ Look(q, k, "estimate")
    /\ UNCHANGED <<rec, lock, next, doubted, nodeVars>>

(* GET /distributions/{id}.                                                *)
get_distribution(q, r) ==
    /\ req[q] = Idle
    /\ rec[r].status \in IN_FLIGHT
    /\ req' = [req EXCEPT ![q] = Loaded(q, None, r, "poll")]
    /\ UNCHANGED <<rec, lock, next, doubted, nodeVars>>

(* What follows _refresh when the row, as the request knows it, ends with  *)
(* the given status: the poll answers; the POST answers a live row, by     *)
(* _duplicate, and otherwise goes on to sign, except after a conflict.     *)
Continue(q, status) ==
    IF \/ req[q].mode = "poll"
       \/ status \in {"sent", "confirmed"}
       \/ req[q].mode = "conflict" /\ status = "failed"
    THEN Finish(q)
    ELSE /\ IF status = "sending"
            THEN At(q, "repeat")
            ELSE req' = [req EXCEPT ![q] = [Idle EXCEPT !.at = IF lock = q THEN "sign" ELSE "estimate", !.key = req[q].key]]
         /\ UNCHANGED lock

(* Wrong: takes any receipt for a payment.                                 *)
RefreshReceiptAnyStatus(q) ==
    LET r == req[q].row
    IN  /\ req[q].at = "receipt"
        /\ req[q].view \in IN_FLIGHT
        /\ Receipts(r) # {}
        /\ rec' = Stored(r, "confirmed")
        /\ Continue(q, "confirmed")
        /\ UNCHANGED <<next, doubted, nodeVars>>

(* _refresh, its receipt.                                                  *)
RefreshReceipt(q) ==
    LET r == req[q].row
    IN  /\ req[q].at = "receipt"
        /\ req[q].view \in IN_FLIGHT
        /\ \E i \in Receipts(r) :
              LET status == IF chain[i].ok THEN "confirmed" ELSE "failed"
              IN  /\ rec' = Stored(r, status)
                  /\ Continue(q, status)
        /\ UNCHANGED <<next, doubted, nodeVars>>

(* No receipt, an error, or a row that is already final: the row stays.    *)
RefreshKept(q) ==
    /\ req[q].at = "receipt"
    /\ Continue(q, req[q].view)
    /\ UNCHANGED <<rec, next, doubted, nodeVars>>

(* No receipt and the window has passed since the signing: ask next for    *)
(* the mined nonce.                                                        *)
RefreshLate(q) ==
    LET r == req[q].row
    IN  /\ req[q].at = "receipt"
        /\ req[q].view \in IN_FLIGHT /\ rec[r].aged
        /\ NoReceipt(r)
        /\ At(q, "nonce")
        /\ UNCHANGED <<rec, lock, next, doubted, nodeVars>>

RefreshGivesUp(q) ==
    LET r == req[q].row
    IN  /\ req[q].at = "nonce"
        /\ Past(rec[r].nonce, Len(chain))
        /\ rec' = Stored(r, "failed")
        /\ doubted' = doubted \cup {r}
        /\ Continue(q, "failed")
        /\ UNCHANGED <<next, nodeVars>>

RefreshNotMined(q) ==
    LET r == req[q].row
    IN  /\ req[q].at = "nonce"
        /\ ~Past(rec[r].nonce, seen)
        /\ Continue(q, req[q].view)
        /\ UNCHANGED <<rec, next, doubted, nodeVars>>

(* The request that signed the row has not yet recorded what came of it.   *)
BeingSent(r) == \E q \in Requests : req[q].at \in {"cast", "note"} /\ req[q].row = r

(* _duplicate of a row that was "sending": broadcast the same bytes.       *)
_duplicate(q, kind) ==
    LET r == req[q].row
    IN  /\ req[q].at = "repeat"
        /\ Answered(kind, [rec |-> r, nonce |-> rec[r].nonce])
        /\ rec' = IF kind \in {"ok", "underpriced"} THEN Stored(r, "sent") ELSE rec
        /\ doubted' = IF BeingSent(r) \/ rec[r].status = "failed" THEN doubted \cup {r} ELSE doubted
        /\ Finish(q)
        /\ UNCHANGED <<next>>

(* Estimate and fees are in hand: the lock, then the check again.  (The    *)
(* estimate or the fees may fail instead, or the leader be elsewhere.)     *)
TakeLock(q) ==
    /\ req[q].at = "estimate"
    /\ lock = Free
    /\ lock' = q
    /\ Look(q, req[q].key, "sign")
    /\ UNCHANGED <<rec, next, doubted, nodeVars>>

GiveUpEarly(q) ==
    /\ req[q].at = "estimate"
    /\ Finish(q)
    /\ UNCHANGED <<rec, next, doubted, nodeVars>>

(* The nonce, the signature and the write-ahead commit.                    *)
Sign(q, r, p) ==
    LET n == reserve(_nonce_floor, p)
    IN  /\ req[q].at = "sign"
        /\ LiveRows(req[q].key) = {}
        /\ rec[r].status = "none" /\ \A x \in Rows : x < r => rec[x].status # "none"
        /\ next' = n + 1
        /\ rec' = [rec EXCEPT ![r] = [NoRecord EXCEPT !.status = "sending", !.key = req[q].key, !.nonce = n]]
        /\ req' = [req EXCEPT ![q].at = "cast", ![q].row = r]
        /\ UNCHANGED <<lock, doubted, nodeVars>>

(* The commit fails on the unique index: a request outside the lock has    *)
(* made a row of the payload live again.  Nothing was sent.                *)
SignConflict(q, p) ==
    /\ req[q].at = "sign"
    /\ next' = reserve(_nonce_floor, p)
    /\ \E r \in LiveRows(req[q].key) :
          req' = [req EXCEPT ![q] = Loaded(q, req[q].key, r, "conflict")]
    /\ UNCHANGED <<rec, lock, doubted, nodeVars>>

Send(q, kind) ==
    LET r == req[q].row
    IN  /\ req[q].at = "cast"
        /\ Answered(kind, [rec |-> r, nonce |-> rec[r].nonce])
        /\ req' = [req EXCEPT ![q].at = "note", ![q].kind = kind]
        /\ UNCHANGED <<rec, lock, next, doubted>>

NoteSent(q) ==
    /\ req[q].at = "note" /\ req[q].kind = "ok"
    /\ rec' = Stored(req[q].row, "sent")
    /\ Finish(q)
    /\ UNCHANGED <<next, doubted, nodeVars>>

(* Insufficient funds or a revert: the node did not take it.               *)
NoteRefused(q) ==
    /\ req[q].at = "note" /\ req[q].kind = "refused"
    /\ next' = Released(rec[req[q].row].nonce)
    /\ rec' = Stored(req[q].row, "failed")
    /\ Finish(q)
    /\ UNCHANGED <<doubted, nodeVars>>

(* The nonce is taken: the row is retired, and an earlier row of the       *)
(* payload whose transaction did mine is found again (_mined_earlier).     *)
MinedEarlier(failed, k) ==
    {r \in Rows : /\ failed[r].status = "failed" /\ failed[r].key = k
                  /\ \E i \in Receipts(r) : chain[i].ok}

NoteNonceTaken(q) ==
    LET failed == Stored(req[q].row, "failed")
        found == MinedEarlier(failed, req[q].key)
    IN  /\ req[q].at = "note" /\ req[q].kind \in {"nonce_low", "underpriced"}
        /\ resync
        /\ \/ /\ rec' = failed
              /\ \A r \in found : NoReceipt(r)
           \/ \E r \in found :
                 rec' = IF LiveRows(req[q].key) \subseteq {req[q].row}
                        THEN [failed EXCEPT ![r].status = "confirmed"]
                        ELSE rec
        /\ Finish(q)
        /\ UNCHANGED <<doubted, nodeVars>>

(* Wrong: takes a timeout for a refusal.                                   *)
NoteUnknownAsFailed(q) ==
    /\ req[q].at = "note" /\ req[q].kind = "transient"
    /\ rec' = Stored(req[q].row, "failed")
    /\ Finish(q)
    /\ UNCHANGED <<next, doubted, nodeVars>>

(* The node may have accepted it: nonce and record stay.                   *)
NoteUnknown(q) ==
    /\ req[q].at = "note" /\ req[q].kind = "transient"
    /\ Finish(q)
    /\ UNCHANGED <<rec, next, doubted, nodeVars>>
----------------------------------------------------------------------------
(* RELAYER_RESUBMIT_AFTER_SECONDS have passed since a row was signed.      *)
Age(r) ==
    /\ rec[r].status \in IN_FLIGHT /\ ~rec[r].aged
    /\ rec' = [rec EXCEPT ![r].aged = TRUE]
    /\ UNCHANGED <<req, lock, next, doubted, nodeVars>>

(* The process dies and starts again.                                      *)
Crash ==
    /\ req # [q \in Requests |-> Idle] \/ next # None
    /\ req' = [q \in Requests |-> Idle]
    /\ lock' = Free
    /\ next' = None
    /\ UNCHANGED <<rec, doubted, nodeVars>>

(* EmissionsDistributor.distribute pays all recipients or reverts.         *)
Mine(t, ok) ==
    /\ Len(chain) < MaxChain
    /\ t.nonce = Len(chain)
    /\ ok => t.rec # NoRow
    /\ chain' = Append(chain, [rec |-> t.rec, nonce |-> t.nonce, ok |-> ok])
    /\ pool' = {u \in pool : u.nonce # t.nonce}
    /\ UNCHANGED <<rec, req, lock, next, doubted, seen, foreign>>

(* Another transaction of the key: a fill the CLOB worker relays, from     *)
(* this process or another.                                                *)
ForeignSend(n) ==
    /\ foreign < MaxForeign
    /\ foreign' = foreign + 1
    /\ pool' = pool \cup {[rec |-> NoRow, nonce |-> n]}
    /\ UNCHANGED <<rec, req, lock, next, doubted, chain, seen>>

Evict(t) ==
    /\ pool' = pool \ {t}
    /\ UNCHANGED <<rec, req, lock, next, doubted, chain, seen, foreign>>

CatchUp(k) ==
    /\ seen' = k
    /\ UNCHANGED <<rec, req, lock, next, doubted, chain, pool, foreign>>

RouteStep(q) ==
    \/ \E k \in Keys : distribute(q, k)
    \/ \E r \in Rows : get_distribution(q, r)
    \/ RefreshReceipt(q)
    \/ RefreshKept(q)
    \/ RefreshLate(q)
    \/ RefreshGivesUp(q)
    \/ RefreshNotMined(q)
    \/ \E kind \in Kinds : _duplicate(q, kind) \/ Send(q, kind)
    \/ TakeLock(q)
    \/ GiveUpEarly(q)
    \/ \E r \in Rows, p \in PendingNonces : Sign(q, r, p)
    \/ \E p \in PendingNonces : SignConflict(q, p)
    \/ NoteSent(q)
    \/ NoteRefused(q)
    \/ NoteNonceTaken(q)
    \/ NoteUnknown(q)

NodeStep ==
    \/ \E t \in pool, ok \in BOOLEAN : Mine(t, ok)
    \/ \E n \in PendingNonces : n >= Len(chain) /\ ForeignSend(n)
    \/ \E t \in pool : Evict(t)
    \/ \E k \in (seen + 1)..Len(chain) : CatchUp(k)

Next ==
    \/ \E q \in Requests : RouteStep(q)
    \/ \E r \in Rows : Age(r)
    \/ Crash
    \/ NodeStep

Spec == Init /\ [][Next]_vars
----------------------------------------------------------------------------
(* The payments of a payload that took effect, by row.                     *)
PaidBy(k) ==
    {r \in Rows : rec[r].key = k /\ \E i \in Receipts(r) : chain[i].ok}

(* What the route promises of a retry: however often a payload is posted,  *)
(* and whatever becomes of its broadcasts, its recipients are paid once.   *)
(* The code does not keep it: see the run that checks it.                  *)
PaidOnce == \A k \in Keys : Cardinality(PaidBy(k)) <= 1

(* What the code does keep, across crashes, lost answers, concurrent posts *)
(* and lagging nodes: of two payments of one payload, one is by a row that *)
(* _refresh gave up after its window, or whose bytes _duplicate broadcast  *)
(* again while its signer had not recorded the outcome, or after it had    *)
(* been failed.                                                            *)
PaidTwiceOnlyInDoubt ==
    \A k \in Keys : Cardinality(PaidBy(k) \ doubted) <= 1

(* A distribution answered as confirmed, by a receipt, by the later search *)
(* for an earlier row, or to another request, did pay its recipients.      *)
ConfirmedHasPaid ==
    \A r \in Rows : rec[r].status = "confirmed" => \E i \in Receipts(r) : chain[i].ok
=============================================================================
