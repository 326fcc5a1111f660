----------------------------- MODULE Catalogue -----------------------------
(***************************************************************************)
(* The database's copy of the on-chain markets and its writers:            *)
(*   backend/app/indexer/listener.py    the indexer, in every API instance *)
(*   backend/app/markets/listing.py     prepare and confirm of a listing   *)
(*   backend/app/markets/router.py      create and pause by the operator   *)
(*   backend/app/markets/visibility.py  the review that both writers share *)
(*                                                                         *)
(* A block is one event of the factory or of the AMM, so a block number is *)
(* a position of chain and the sort by (block, log index) is the order of  *)
(* the chain.  A block is final.  What a range holds does not change after *)
(* it is planned, so fetching its logs and writing them is one step that   *)
(* may come late; it ends in the commit that also moves the checkpoint.    *)
(*                                                                         *)
(* Questions, criteria texts and prices are model values: a criteria hash  *)
(* is the text it commits to, a near-duplicate is the same question.       *)
(***************************************************************************)
EXTENDS Integers, Sequences, SequencesExt

CONSTANTS
    Instances,          \* API processes that run the indexer loop
    Requests,           \* concurrent calls of the routes
    OperatorMarkets,    \* condition ids the operator may create
    UserMarkets,        \* condition ids a user may list (marketType 2)
    Questions, Banned,  \* question texts, and those check_question refuses
    OperatorQuestion,   \* the question of the operator's markets
    Texts, Short,       \* criteria texts, and those check_criteria refuses
    StartBlock,         \* INDEXER_START_BLOCK
    Lookback,           \* indexer_lookback_blocks
    Legacy,             \* last_block of the unkeyed checkpoint, 0 without one
    Anvil,              \* is the chain a local anvil
    MaxRange, MinRange, MaxChunks,  \* indexer_*_block_range, indexer_max_chunks_per_tick
    MaxBlocks,          \* bound on the length of the chain
    MaxLost             \* bound on lost leader connections

None == "none"
Free == "free"
NoBlock == -1
Markets == OperatorMarkets \cup UserMarkets

ASSUME CatalogueBounds ==
    /\ StartBlock \in Nat /\ Lookback \in Nat /\ Legacy \in Nat /\ MaxBlocks \in Nat /\ MaxLost \in Nat
    /\ MaxRange \in Nat \ {0} /\ MinRange \in Nat \ {0} /\ MaxChunks \in Nat \ {0}
    /\ MinRange <= MaxRange /\ Anvil \in BOOLEAN
ASSUME CatalogueTexts == Banned \subseteq Questions /\ Short \subseteq Texts /\ None \notin Questions \cup Texts /\ OperatorQuestion \in Questions

VARIABLES
    chain,      \* external: the events of factory and AMM, in order
    mem,        \* external: operator transactions sent and not yet mined
    market,     \* markets rows
    listing,    \* market_listings rows; prep: the row carries a salt
    checkpoint, \* indexer_checkpoints.last_block, NoBlock while there is no row
    points,     \* price_points: the blocks that have one
    leader,     \* external: holder of the advisory lock in Postgres
    lost,       \* number of leaderships lost or given up so far
    tick,       \* each instance: where its tick is
    window,     \* each instance: _STATE.block_range
    req,        \* each request: where it is and what it has read
    floor,      \* history: blocks up to here were skipped on purpose
    offered,    \* history: the question /prepare accepted for a market
    late        \* history: markets whose paused flag was last written from a
                \* view of the chain older than what the indexer had passed

vars == <<chain, mem, market, listing, checkpoint, points, leader, lost, tick, window, req, floor, offered, late>>
chainVars == <<chain, mem>>
indexVars == <<checkpoint, points, leader, lost, tick, window, floor>>

Event == [kind : {"create", "list", "paused", "unpaused", "swap"}, c : Markets,
          q : Questions \cup {None}, text : Texts \cup {None}]
Sent == [kind : {"create", "paused"}, c : Markets]
Statuses == {None, "prepared", "indexed", "confirmed", "rejected"}
NoMarket == [there |-> FALSE, paused |-> FALSE, q |-> None, text |-> None]
NoListing == [status |-> None, prep |-> FALSE, q |-> None, text |-> None]
Idle == [at |-> "idle", c |-> None, block |-> 0, paused |-> FALSE, text |-> None, ok |-> FALSE]
Waiting == [at |-> "idle", lo |-> 0, head |-> 0, left |-> 0]

(* The rows, the loop's position and the requests, typed.                  *)
CatalogueTypeOK ==
    /\ chain \in Seq(Event) /\ mem \subseteq Sent
    /\ market \in [Markets -> [there : BOOLEAN, paused : BOOLEAN, q : Questions \cup {None}, text : Texts \cup {None}]]
    /\ listing \in [UserMarkets -> [status : Statuses, prep : BOOLEAN, q : Questions \cup {None}, text : Texts \cup {None}]]
    /\ checkpoint \in Nat \cup {NoBlock} /\ points \subseteq Nat /\ floor \in Nat
    /\ leader \in Instances \cup {Free} /\ lost \in 0..MaxLost
    /\ tick \in [Instances -> [at : {"idle", "range"}, lo : Nat, head : Nat, left : Nat]]
    /\ window \in [Instances -> MinRange..MaxRange]
    /\ req \in [Requests -> [at : {"idle", "confirm", "commit", "creating", "upsert", "mirror", "pausing"},
                             c : Markets \cup {None}, block : Nat, paused : BOOLEAN,
                             text : Texts \cup {None}, ok : BOOLEAN]]
    /\ offered \in [UserMarkets -> Questions \cup {None}] /\ late \subseteq Markets

Init ==
    /\ chain = <<>> /\ mem = {}
    /\ market = [c \in Markets |-> NoMarket]
    /\ listing = [c \in UserMarkets |-> NoListing]
    /\ checkpoint = NoBlock /\ points = {} /\ floor = 0
    /\ leader = Free /\ lost = 0
    /\ tick = [i \in Instances |-> Waiting] /\ window = [i \in Instances |-> MaxRange]
    /\ req = [r \in Requests |-> Idle]
    /\ offered = [c \in UserMarkets |-> None] /\ late = {}
----------------------------------------------------------------------------
(* What the chain says.                                                    *)
CreatedAt(c) == {b \in DOMAIN chain : chain[b].c = c /\ chain[b].kind \in {"create", "list"}}
marketExists(c) == CreatedAt(c) # {}
Created(c) == chain[CHOOSE b \in CreatedAt(c) : TRUE]
PauseBlocks(c, k) == {b \in DOMAIN chain : b <= k /\ chain[b].c = c /\ chain[b].kind \in {"paused", "unpaused"}}
PausedAt(c, k) == PauseBlocks(c, k) # {} /\ chain[Max(PauseBlocks(c, k))].kind = "paused"
AmmEvent(b) == chain[b].kind \in {"create", "list", "swap"}   \* creation seeds the pool

Grow(e) == Len(chain) < MaxBlocks /\ chain' = Append(chain, e)
Log(kind, c) == [kind |-> kind, c |-> c, q |-> None, text |-> None]

(* Transactions of users, of traders and of the operator's own scripts.    *)
UserLists(c, q, text) ==
    /\ ~marketExists(c)
    /\ Grow([kind |-> "list", c |-> c, q |-> q, text |-> text])
    /\ UNCHANGED <<mem, market, listing, indexVars, req, offered, late>>

Traded(c) ==
    /\ marketExists(c)
    /\ Grow(Log("swap", c))
    /\ UNCHANGED <<mem, market, listing, indexVars, req, offered, late>>

SetPaused(c, kind) ==
    /\ marketExists(c)
    /\ Grow(Log(kind, c))
    /\ UNCHANGED <<mem, market, listing, indexVars, req, offered, late>>

(* The factory refuses to create a market twice: the transaction reverts.  *)
Mined(t) ==
    /\ t \in mem
    /\ mem' = mem \ {t}
    /\ IF t.kind = "create" /\ marketExists(t.c)
       THEN UNCHANGED chain
       ELSE Grow([Log(t.kind, t.c) EXCEPT !.q = IF t.kind = "create" THEN OperatorQuestion ELSE None])
    /\ UNCHANGED <<market, listing, indexVars, req, offered, late>>
----------------------------------------------------------------------------
(* visibility.py: who is public, and the review of a listing.              *)
is_listed(mk, ls, c) == c \in UserMarkets => ls[c].status = "confirmed"
visible(mk, ls, c) == mk[c].there /\ ~mk[c].paused /\ is_listed(mk, ls, c)
open_questions(mk, ls, c) == {mk[d].q : d \in {x \in Markets \ {c} : visible(mk, ls, x)}}

(* listing_gates.py.                                                       *)
check_question(q) == q \notin Banned
check_criteria(text) == text \notin Short
is_duplicate(q, existing) == q \in existing
check_listed_question(q, existing) == check_question(q) /\ ~is_duplicate(q, existing)
validate_listing(q, text) == check_question(q) /\ check_criteria(text)
prepared_mismatch(row, q) == row.prep /\ row.q # q

review_user_listing(mk, ls, c, q, text) ==
    /\ ~prepared_mismatch(ls[c], q)
    /\ check_criteria(text)
    /\ check_listed_question(q, open_questions(mk, ls, c))

(* A write of the paused flag of c from a view of the chain up to block b. *)
Passed == Max({checkpoint, floor})
Noted(c, b) == IF b < Passed THEN late \cup {c} ELSE late \ {c}
----------------------------------------------------------------------------
(* The indexer.                                                            *)
resolve_start_block(last, head) ==
    LET bottom == IF StartBlock > 0 THEN StartBlock
                  ELSE IF Anvil \/ last > 0 THEN 1
                  ELSE Max({1, head - Lookback + 1})
    IN  Max({last + 1, bottom})

_fresh_last_block(head) ==
    LET behind_head == Max({0, head - Lookback})
    IN  IF StartBlock > 0 THEN StartBlock - 1
        ELSE IF Anvil THEN 0
        ELSE IF Legacy > 0 THEN Min({Legacy, behind_head}) ELSE behind_head

(* A log that has its price point already is not given another.            *)
_insert_point(blocks) == points' = points \cup {b \in blocks : AmmEvent(b)}

(* The end of the range that starts at lo: plan_ranges cuts [start, head]  *)
(* into windows of at most w blocks.                                       *)
RangeEnd(lo, w, head) == Min({lo + w - 1, head})

(* Wrong: the lock is asked for on a new connection in every tick, so the  *)
(* leader is refused by its own lock.                                      *)
LeaderByNewConnection(i) == leader = Free

ensure_indexer_leader(i) == leader \in {Free, i}

(* Leadership is asked for at the start of a tick and not again.  A tick   *)
(* with nothing to index ends at once, with a wider window.                *)
index_once(i) ==
    LET head == Len(chain)
        last == IF checkpoint = NoBlock THEN _fresh_last_block(head) ELSE checkpoint
        start == resolve_start_block(last, head)
    IN  /\ tick[i].at = "idle"
        /\ ensure_indexer_leader(i)
        /\ leader' = i
        /\ checkpoint' = last
        /\ floor' = IF checkpoint = NoBlock \/ start > last + 1 THEN Max({floor, start - 1}) ELSE floor
        /\ late' = late \cup {c \in Markets : market[c].there /\ start > checkpoint + 1
                                                /\ (start > head + 1 \/ PausedAt(c, start - 1) # market[c].paused)}
        /\ IF start <= head
           THEN /\ tick' = [tick EXCEPT ![i] = [at |-> "range", lo |-> start, head |-> head, left |-> MaxChunks]]
                /\ UNCHANGED window
           ELSE /\ window' = [window EXCEPT ![i] = Min({MaxRange, 2 * @})]
                /\ UNCHANGED tick
        /\ UNCHANGED <<chainVars, market, listing, points, lost, req, offered>>

(* _index_user_listing, on the rows so far.                                *)
ListingIndexed(rows, e, unread) ==
    LET c == e.c
        row == rows.ls[c]
        here == IF row.status = None
                THEN [status |-> "indexed", prep |-> FALSE, q |-> e.q, text |-> None] ELSE row
        ls == [rows.ls EXCEPT ![c] = here]
    IN  IF here.status \in {"confirmed", "rejected"} \/ c \in unread \/ here.text # e.text
        THEN [rows EXCEPT !.ls = ls]
        ELSE IF review_user_listing(rows.mk, ls, c, e.q, here.text)
        THEN [rows EXCEPT !.ls = [ls EXCEPT ![c].status = "confirmed", ![c].q = e.q],
                          !.mk[c].text = here.text]
        ELSE [rows EXCEPT !.ls = [ls EXCEPT ![c].status = "rejected"]]

(* One factory event, written over the rows so far.                        *)
EventIndexed(rows, e, unread) ==
    CASE e.kind \in {"create", "list"} ->
            LET inserted == IF rows.mk[e.c].there THEN rows
                            ELSE [rows EXCEPT !.mk[e.c] = [there |-> TRUE, paused |-> FALSE, q |-> e.q, text |-> None]]
            IN  IF e.kind = "list" THEN ListingIndexed(inserted, e, unread) ELSE inserted
      [] e.kind \in {"paused", "unpaused"} /\ rows.mk[e.c].there ->
            [rows EXCEPT !.mk[e.c].paused = e.kind = "paused"]
      [] OTHER -> rows

FactoryIndexed(lo, hi, unread) ==
    LET events == SubSeq(chain, lo, hi)
        after[n \in 0..Len(events)] ==
            IF n = 0 THEN [mk |-> market, ls |-> listing] ELSE EventIndexed(after[n - 1], events[n], unread)
    IN  after[Len(events)]

(* The markets whose paused flag that writes.                              *)
Touched(lo, hi) ==
    {chain[b].c : b \in {x \in lo..hi : chain[x].kind # "swap" /\ (market[chain[x].c].there => x \notin CreatedAt(chain[x].c))}}

(* Wrong: the checkpoint is set, so a late tick rewinds it.                *)
AdvancedBlindly(b) == b

advance_checkpoint(b) == Max({checkpoint, b})

(* Wrong: the window shrinks to nothing.                                   *)
HalvedAway(lo, hi) == (hi - lo + 1) \div 2

Halved(lo, hi) == Max({MinRange, (hi - lo + 1) \div 2})

(* The end of a tick whose range failed.                                   *)
TickFails(i, lo, hi) ==
    /\ window' = [window EXCEPT ![i] = Halved(lo, hi)]
    /\ tick' = [tick EXCEPT ![i] = Waiting]
    /\ checkpoint' = advance_checkpoint(lo - 1)

FactoryWrites(lo, hi, unread) ==
    LET rows == FactoryIndexed(lo, hi, unread)
    IN  /\ market' = rows.mk
        /\ listing' = rows.ls
        /\ late' = IF hi < Passed THEN late \cup Touched(lo, hi) ELSE late \ Touched(lo, hi)

RangeIndexed(i) ==
    LET t == tick[i]
        hi == RangeEnd(t.lo, window[i], t.head)
    IN  /\ t.at = "range"
        /\ \E unread \in SUBSET UserMarkets : FactoryWrites(t.lo, hi, unread)
        /\ _insert_point(t.lo..hi)
        /\ checkpoint' = advance_checkpoint(hi)
        /\ IF hi < t.head /\ t.left > 1
           THEN /\ tick' = [tick EXCEPT ![i].lo = hi + 1, ![i].left = @ - 1]
                /\ UNCHANGED window
           ELSE /\ tick' = [tick EXCEPT ![i] = Waiting]
                /\ window' = [window EXCEPT ![i] = Min({MaxRange, 2 * @})]
        /\ UNCHANGED <<chainVars, leader, lost, req, floor, offered>>

(* Wrong: a range whose prices are incomplete counts as indexed.           *)
RangeAmmFailedPast(i) ==
    LET t == tick[i]
        hi == RangeEnd(t.lo, window[i], t.head)
    IN  /\ t.at = "range"
        /\ FactoryWrites(t.lo, hi, {})
        /\ \E k \in (t.lo - 1)..hi : _insert_point(t.lo..k)
        /\ checkpoint' = advance_checkpoint(hi)
        /\ tick' = [tick EXCEPT ![i] = Waiting]
        /\ UNCHANGED <<chainVars, leader, lost, req, window, floor, offered>>

(* The AMM half failed after the points up to block k: the factory half is *)
(* committed, the checkpoint held.                                         *)
RangeAmmFailed(i) ==
    LET t == tick[i]
        hi == RangeEnd(t.lo, window[i], t.head)
    IN  /\ t.at = "range"
        /\ \E unread \in SUBSET UserMarkets : FactoryWrites(t.lo, hi, unread)
        /\ \E k \in (t.lo - 1)..hi : _insert_point(t.lo..k)
        /\ TickFails(i, t.lo, hi)
        /\ UNCHANGED <<chainVars, leader, lost, req, floor, offered>>

RangeLogsFailed(i) ==
    /\ tick[i].at = "range"
    /\ TickFails(i, tick[i].lo, RangeEnd(tick[i].lo, window[i], tick[i].head))
    /\ UNCHANGED <<chainVars, market, listing, points, leader, lost, req, floor, offered, late>>

(* A database error or the end of the process: the session rolls back.     *)
TickAborted(i) ==
    /\ tick[i].at = "range"
    /\ tick' = [tick EXCEPT ![i] = Waiting]
    /\ UNCHANGED <<chainVars, market, listing, checkpoint, points, leader, lost, window, req, floor, offered, late>>

(* The server drops the leader's session; its tick goes on unaware.        *)
LeaderLost ==
    /\ leader # Free
    /\ lost < MaxLost
    /\ leader' = Free
    /\ lost' = lost + 1
    /\ UNCHANGED <<chainVars, market, listing, checkpoint, points, tick, window, req, floor, offered, late>>

(* An instance that shuts down stops its loop and unlocks.                 *)
release_indexer_leadership(i) ==
    /\ leader = i
    /\ lost < MaxLost
    /\ leader' = Free
    /\ lost' = lost + 1
    /\ tick' = [tick EXCEPT ![i] = Waiting]
    /\ window' = [window EXCEPT ![i] = MaxRange]
    /\ UNCHANGED <<chainVars, market, listing, checkpoint, points, req, floor, offered, late>>
----------------------------------------------------------------------------
(* The listing routes.                                                     *)
listing_prepare(c, q, text) ==
    /\ listing[c].status = None
    /\ ~marketExists(c)
    /\ validate_listing(q, text)
    /\ ~is_duplicate(q, {market[d].q : d \in {x \in Markets : visible(market, listing, x)}})
    /\ listing' = [listing EXCEPT ![c] = [status |-> "prepared", prep |-> TRUE, q |-> q, text |-> text]]
    /\ offered' = [offered EXCEPT ![c] = q]
    /\ UNCHANGED <<chainVars, market, indexVars, req, late>>

(* The market is read from the chain, the listing reviewed against the     *)
(* rows, and the rows written, each with other work in between.            *)
listing_confirm(r, c, text) ==
    /\ req[r].at = "idle"
    /\ marketExists(c)
    /\ req' = [req EXCEPT ![r] = [Idle EXCEPT !.at = "confirm", !.c = c, !.block = Len(chain),
                                              !.paused = PausedAt(c, Len(chain)), !.text = text]]
    /\ UNCHANGED <<chainVars, market, listing, indexVars, offered, late>>

(* The stored text comes first, then the one in the request; without one   *)
(* that the chain committed to the call ends with an error.                *)
ConfirmReviewed(r) ==
    LET c == req[r].c
        e == Created(c)
        matching == e.text \in {listing[c].text, req[r].text} \ {None}
    IN  /\ req[r].at = "confirm"
        /\ req' = [req EXCEPT ![r] = IF matching
                     THEN [@ EXCEPT !.at = "commit", !.text = e.text,
                                    !.ok = review_user_listing(market, listing, c, e.q, e.text)]
                     ELSE Idle]
        /\ UNCHANGED <<chainVars, market, listing, indexVars, offered, late>>

(* Wrong: a rejected row takes over the on-chain question, so the next     *)
(* confirm finds nothing to object to.                                     *)
ApplyConfirmForgetful(r) ==
    LET c == req[r].c
        e == Created(c)
    IN  /\ req[r].at = "commit"
        /\ market' = [market EXCEPT ![c] = [there |-> TRUE, paused |-> req[r].paused, q |-> e.q,
                                            text |-> IF req[r].ok THEN req[r].text ELSE None]]
        /\ listing' = [listing EXCEPT ![c] = [@ EXCEPT !.q = e.q, !.status = IF req[r].ok THEN "confirmed" ELSE "rejected"]]
        /\ late' = Noted(c, req[r].block)
        /\ req' = [req EXCEPT ![r] = Idle]
        /\ UNCHANGED <<chainVars, indexVars, offered>>

_apply_confirm(r) ==
    LET c == req[r].c
        e == Created(c)
        row == IF listing[c].status = None
               THEN [status |-> "indexed", prep |-> FALSE, q |-> e.q, text |-> None] ELSE listing[c]
    IN  /\ req[r].at = "commit"
        /\ market' = [market EXCEPT ![c] = [there |-> TRUE, paused |-> req[r].paused, q |-> e.q,
                                            text |-> IF req[r].ok THEN req[r].text ELSE None]]
        /\ listing' = [listing EXCEPT ![c] =
              IF req[r].ok THEN [row EXCEPT !.status = "confirmed", !.q = e.q, !.text = req[r].text]
              ELSE [row EXCEPT !.status = "rejected"]]
        /\ late' = Noted(c, req[r].block)
        /\ req' = [req EXCEPT ![r] = Idle]
        /\ UNCHANGED <<chainVars, indexVars, offered>>
----------------------------------------------------------------------------
(* The operator's routes.  One request at a time creates a question's      *)
(* market; the chain is read at the pending block.                         *)
_serialized_create(c) == \A s \in Requests : req[s].at \in {"creating", "upsert", "mirror"} => req[s].c # c

create_market(r, c) ==
    /\ req[r].at = "idle"
    /\ _serialized_create(c)
    /\ IF marketExists(c)
       THEN /\ req' = [req EXCEPT ![r] = [Idle EXCEPT !.at = "mirror", !.c = c, !.block = Len(chain),
                                                      !.paused = PausedAt(c, Len(chain))]]
            /\ UNCHANGED mem
       ELSE /\ req' = [req EXCEPT ![r] = [Idle EXCEPT !.at = "creating", !.c = c]]
            /\ mem' = mem \cup {[kind |-> "create", c |-> c]}
    /\ UNCHANGED <<chain, market, listing, indexVars, offered, late>>

CreateReceipt(r) ==
    /\ req[r].at = "creating"
    /\ marketExists(req[r].c)
    /\ req' = [req EXCEPT ![r].at = "upsert", ![r].block = Max(CreatedAt(req[r].c))]
    /\ UNCHANGED <<chainVars, market, listing, indexVars, offered, late>>

(* Wrong: a created market counts as not paused, the row that the indexer  *)
(* already has included.                                                   *)
UpsertUnpauses(r) ==
    LET c == req[r].c
    IN  /\ req[r].at \in {"upsert", "mirror"}
        /\ market' = [market EXCEPT ![c] = [there |-> TRUE, paused |-> req[r].paused, q |-> Created(c).q, text |-> @.text]]
        /\ late' = IF req[r].at = "mirror" \/ ~market[c].there THEN Noted(c, req[r].block) ELSE late
        /\ req' = [req EXCEPT ![r] = Idle]
        /\ UNCHANGED <<chainVars, listing, indexVars, offered>>

(* Only a read of markets() ("mirror") may change the flag of a row that   *)
(* is there; the event ("upsert") carries none.                            *)
_upsert_market_row(r) ==
    LET c == req[r].c
        flag == IF req[r].at = "mirror" THEN req[r].paused ELSE market[c].paused
    IN  /\ req[r].at \in {"upsert", "mirror"}
        /\ market' = [market EXCEPT ![c] = [there |-> TRUE, paused |-> flag, q |-> Created(c).q, text |-> @.text]]
        /\ late' = IF req[r].at = "mirror" \/ ~market[c].there THEN Noted(c, req[r].block) ELSE late
        /\ req' = [req EXCEPT ![r] = Idle]
        /\ UNCHANGED <<chainVars, listing, indexVars, offered>>

(* The row is loaded before the transaction is sent: `paused` is what the  *)
(* session saw, and a row that was paused then is not written again.       *)
pause_market(r, c) ==
    /\ req[r].at = "idle"
    /\ market[c].there
    /\ marketExists(c)
    /\ req' = [req EXCEPT ![r] = [Idle EXCEPT !.at = "pausing", !.c = c, !.paused = market[c].paused]]
    /\ mem' = mem \cup {[kind |-> "paused", c |-> c]}
    /\ UNCHANGED <<chain, market, listing, indexVars, offered, late>>

PauseReceipt(r) ==
    LET c == req[r].c
        mined == {b \in PauseBlocks(c, Len(chain)) : chain[b].kind = "paused"}
    IN  /\ req[r].at = "pausing"
        /\ [kind |-> "paused", c |-> c] \notin mem
        /\ req' = [req EXCEPT ![r] = Idle]
        /\ IF req[r].paused THEN UNCHANGED <<market, late>>
           ELSE /\ market' = [market EXCEPT ![c].paused = TRUE]
                /\ late' = Noted(c, Max(mined))
        /\ UNCHANGED <<chainVars, listing, indexVars, offered>>

(* A failed read, a timeout or the end of the process.                     *)
RequestFails(r) ==
    /\ req[r].at # "idle"
    /\ req' = [req EXCEPT ![r] = Idle]
    /\ UNCHANGED <<chainVars, market, listing, indexVars, offered, late>>
----------------------------------------------------------------------------
ChainStep ==
    \/ \E c \in UserMarkets, q \in Questions, text \in Texts : UserLists(c, q, text)
    \/ \E c \in Markets : Traded(c)
    \/ \E c \in Markets, kind \in {"paused", "unpaused"} : SetPaused(c, kind)
    \/ \E t \in mem : Mined(t)

IndexerStep(i) ==
    \/ index_once(i) \/ RangeIndexed(i) \/ RangeAmmFailed(i) \/ RangeLogsFailed(i) \/ TickAborted(i)

RouteStep ==
    \/ \E c \in UserMarkets, q \in Questions, text \in Texts : listing_prepare(c, q, text)
    \/ \E r \in Requests :
          \/ \E c \in UserMarkets, text \in Texts \cup {None} : listing_confirm(r, c, text)
          \/ ConfirmReviewed(r)
          \/ _apply_confirm(r)
          \/ \E c \in OperatorMarkets : create_market(r, c)
          \/ CreateReceipt(r)
          \/ _upsert_market_row(r)
          \/ \E c \in Markets : pause_market(r, c)
          \/ PauseReceipt(r)
          \/ RequestFails(r)

Next ==
    \/ ChainStep
    \/ \E i \in Instances : IndexerStep(i) \/ release_indexer_leadership(i)
    \/ LeaderLost
    \/ RouteStep

(* Every instance runs its loop for ever, and a range does not fail for    *)
(* ever (the loop backs off and tries the same range again).               *)
Spec == Init /\ [][Next]_vars
FairSpec ==
    /\ Spec
    /\ \A i \in Instances : WF_vars(index_once(i)) /\ SF_vars(RangeIndexed(i))
----------------------------------------------------------------------------
(* What the checkpoint has passed is in the database: every market has its *)
(* row and every AMM event its price point, whatever ranges failed half    *)
(* way, were replayed, or were written by two instances at once.           *)
PassedIsIndexed ==
    \A b \in DOMAIN chain : b > floor /\ b <= checkpoint =>
        /\ AmmEvent(b) => b \in points
        /\ b \in CreatedAt(chain[b].c) => market[chain[b].c].there

(* The checkpoint never moves back, and passes no block that is not mined. *)
CheckpointForward == [][checkpoint' >= checkpoint /\ checkpoint' <= Max({Len(chain), StartBlock})]_vars

(* A user's market is public only as reviewed: with the criteria text the  *)
(* chain committed to, under the question that is on the chain, which no   *)
(* gate refuses and which is the one /prepare accepted, if it did.         *)
PublicIsReviewed ==
    \A c \in UserMarkets : market[c].there /\ is_listed(market, listing, c) =>
        LET e == Created(c)
        IN  /\ market[c].text = e.text /\ market[c].q = e.q
            /\ e.q \notin Banned /\ e.text \notin Short
            /\ offered[c] \in {e.q, None}

(* The paused flag of a row is at least as new as the checkpoint, unless   *)
(* the last writer of it came late: a confirm, a replayed create or a      *)
(* pause that read the chain before the indexer passed that block, or the  *)
(* tick of an instance that lost the leadership.                           *)
PausedStaleOnlyIfLate ==
    \A c \in Markets : market[c].there /\ c \notin late =>
        \E k \in Max({checkpoint, 0})..Max({checkpoint, Len(chain)}) : market[c].paused = PausedAt(c, k)

(* The indexer catches up with the chain, so every market gets its row.    *)
CatchesUp == []<>(checkpoint >= Len(chain))

(* trading.py: "A paused market (factory setPaused, or an archived orphan) *)
(* is halted here too": once the indexer has passed every block and nobody *)
(* is at work, a market that is paused on the chain is paused in the rows. *)
PausedIsHalted ==
    /\ checkpoint = Len(chain)
    /\ \A i \in Instances : tick[i].at = "idle"
    /\ \A r \in Requests : req[r].at = "idle"
    => \A c \in Markets : market[c].there /\ PausedAt(c, checkpoint) => market[c].paused
=============================================================================
