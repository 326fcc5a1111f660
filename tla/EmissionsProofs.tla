-------------------------- MODULE EmissionsProofs --------------------------
(***************************************************************************)
(* The distribution route for every number of payloads, requests, rows and *)
(* foreign transactions, and every schedule of nodes, crashes and retries. *)
(***************************************************************************)
EXTENDS Emissions, FiniteSums, SequenceTheorems, TLAPS

Event == [rec : Rows \cup {NoRow}, nonce : Nat, ok : BOOLEAN]
Record == [status : Statuses, key : Keys \cup {None}, nonce : Nat \cup {None}, aged : BOOLEAN]
Request == [at : {"idle", "receipt", "nonce", "estimate", "sign", "repeat", "cast", "note"},
            key : Keys \cup {None}, row : Rows \cup {NoRow},
            view : Statuses, mode : {"post", "poll", "conflict"}, kind : Kinds]

(* No transaction of row r is in a pool or on the chain.                   *)
Untraced(r) ==
    /\ \A t \in pool : t.rec # r
    /\ \A i \in 1..Len(chain) : chain[i].rec # r

(* A transaction of a row carries the nonce of that row, which is written  *)
(* before it is sent, and the chain takes nonces in order.                 *)
Traces ==
    /\ \A t \in pool : t.rec # NoRow => rec[t.rec].status # "none" /\ t.nonce = rec[t.rec].nonce
    /\ \A i \in 1..Len(chain) :
          /\ chain[i].nonce = i - 1
          /\ chain[i].rec # NoRow => rec[chain[i].rec].status # "none" /\ chain[i].nonce = rec[chain[i].rec].nonce

(* The row a request works on exists.                                      *)
AtWork ==
    \A q \in Requests : req[q].at \in {"receipt", "nonce", "repeat", "cast", "note"} =>
        req[q].row \in Rows /\ rec[req[q].row].status # "none"

(* uq_emission_live_payload.                                               *)
OneLive ==
    \A r, s \in Rows :
        rec[r].status \in LIVE /\ rec[s].status \in LIVE /\ rec[r].key = rec[s].key => r = s

(* Until its signer has an answer that may mean acceptance, a row that is  *)
(* not doubted was never given to a node.                                  *)
Unsent ==
    \A q \in Requests : req[q].row \notin doubted =>
        /\ req[q].at = "cast" => Untraced(req[q].row) /\ rec[req[q].row].status = "sending"
        /\ req[q].at = "note" /\ req[q].kind \notin {"ok", "transient"} => Untraced(req[q].row)

(* A row that was failed without doubt never pays: it was never given to a *)
(* node, or its nonce went to a transaction that did not pay.              *)
FailedIsOver ==
    \A r \in Rows : rec[r].status = "failed" /\ r \notin doubted =>
        /\ \A i \in 1..Len(chain) : chain[i].rec = r => ~chain[i].ok
        /\ Untraced(r) \/ rec[r].nonce < Len(chain)

PayInv == EmissionsTypeOK /\ Traces /\ AtWork /\ OneLive /\ Unsent /\ FailedIsOver
----------------------------------------------------------------------------
(* What a step does to the requests when q moves and does not sign.        *)
Moves(q) ==
    /\ req' \in [Requests -> Request]
    /\ \A p \in Requests \ {q} : req'[p] = req[p]
    /\ req'[q].at \notin {"cast", "note"}
    /\ req'[q].at \in {"receipt", "nonce", "repeat"} =>
          req'[q].row \in Rows /\ rec[req'[q].row].status # "none"
    /\ lock' \in Requests \cup {Free}
    /\ \A p \in Requests : req'[p].at \in {"sign", "cast", "note"} => lock' = p

(* What it does to the rows when none is signed.                           *)
RowsKept ==
    /\ rec' \in [Rows -> Record]
    /\ \A r \in Rows :
          /\ rec'[r].nonce = rec[r].nonce /\ rec'[r].key = rec[r].key
          /\ rec'[r].status # "none" => rec[r].status # "none"
          /\ rec[r].status # "none" => rec'[r].status # "none"

LEMMA IdleIsRequest == Idle \in Request
  BY DEF Idle, Request, None, NoRow, Statuses, Kinds

LEMMA Typed ==
    ASSUME EmissionsTypeOK
    PROVE  /\ rec \in [Rows -> Record] /\ req \in [Requests -> Request]
           /\ chain \in Seq(Event) /\ Len(chain) \in Nat /\ \A i \in 1..Len(chain) : chain[i] \in Event
           /\ \A t \in pool : t \in Tx
           /\ \A r \in Rows : rec[r].status # "none" => rec[r].nonce \in Nat
<1>1. rec \in [Rows -> Record]
  BY DEF EmissionsTypeOK, Record
<1>2. req \in [Requests -> Request]
  BY DEF EmissionsTypeOK, Request
<1>3. chain \in Seq(Event)
  BY DEF EmissionsTypeOK, Event
<1>4. Len(chain) \in Nat /\ \A i \in 1..Len(chain) : chain[i] \in Event
  BY <1>3, ElementOfSeq, LenProperties
<1>5. \A r \in Rows : rec[r].status # "none" => rec[r].nonce \in Nat
  BY DEF EmissionsTypeOK
<1> QED BY <1>1, <1>2, <1>3, <1>4, <1>5 DEF EmissionsTypeOK

LEMMA FinishMoves ==
    ASSUME PayInv, NEW q \in Requests, Finish(q)
    PROVE  Moves(q)
<1>1. req' \in [Requests -> Request]
  BY IdleIsRequest DEF Finish, PayInv, EmissionsTypeOK, Request
<1>2. req'[q] = Idle /\ \A p \in Requests \ {q} : req'[p] = req[p]
  BY DEF Finish, PayInv, EmissionsTypeOK
<1>3. lock' \in Requests \cup {Free}
  BY DEF Finish, PayInv, EmissionsTypeOK
<1>4. \A p \in Requests : req'[p].at \in {"sign", "cast", "note"} => lock' = p
  BY <1>2 DEF Finish, PayInv, EmissionsTypeOK, Idle
<1> QED BY <1>1, <1>2, <1>3, <1>4 DEF Moves, Idle

LEMMA LookMoves ==
    ASSUME PayInv, NEW q \in Requests, NEW k \in Keys \cup {None}, NEW place \in {"estimate", "sign"}, Look(q, k, place),
           lock' = lock \/ (lock = Free /\ lock' = q), place = "sign" => lock' = q, req[q].at \in {"idle", "estimate"}
    PROVE  Moves(q)
<1>1. \A r \in LiveRows(k) : r \in Rows /\ rec[r].status # "none" /\ Loaded(q, k, r, "post") \in Request
  BY ZenonT(60) DEF LiveRows, Loaded, PayInv, EmissionsTypeOK, Request, LIVE
<1>2. [Idle EXCEPT !.at = place, !.key = k] \in Request
  BY IdleIsRequest DEF Request
<1>3. /\ req' \in [Requests -> Request]
      /\ \A p \in Requests \ {q} : req'[p] = req[p]
  BY <1>1, <1>2, Typed DEF Look, PayInv
<1>4. \/ req'[q].at = place
      \/ req'[q].at = "receipt" /\ req'[q].row \in Rows /\ rec[req'[q].row].status # "none"
  <2>1. CASE \E r \in LiveRows(k) : req' = [req EXCEPT ![q] = Loaded(q, k, r, "post")]
    <3>1. PICK r \in LiveRows(k) : req' = [req EXCEPT ![q] = Loaded(q, k, r, "post")]
      BY <2>1
    <3>2. req'[q] = Loaded(q, k, r, "post")
      BY <3>1 DEF PayInv, EmissionsTypeOK
    <3> QED BY ZenonT(60), <1>1, <3>2 DEF Loaded, PayInv, EmissionsTypeOK
  <2>2. CASE req' = [req EXCEPT ![q] = [Idle EXCEPT !.at = place, !.key = k]]
    BY <2>2 DEF PayInv, EmissionsTypeOK, Idle
  <2> QED BY <2>1, <2>2 DEF Look
<1>5. \A p \in Requests : req'[p].at \in {"sign", "cast", "note"} => lock' = p
  BY SMTT(60), <1>3, <1>4, RequestNames DEF PayInv, EmissionsTypeOK
<1> QED BY <1>3, <1>4, <1>5 DEF Moves, PayInv, EmissionsTypeOK

LEMMA ContinueMoves ==
    ASSUME PayInv, NEW q \in Requests, req[q].at \in {"receipt", "nonce"}, NEW status \in Statuses, Continue(q, status)
    PROVE  Moves(q)
<1>1. CASE Finish(q)
  BY <1>1, FinishMoves
<1>2. CASE At(q, "repeat") /\ UNCHANGED lock
  <2>1. req[q] \in Request /\ [req[q] EXCEPT !.at = "repeat"] \in Request
    BY Typed DEF PayInv, Request
  <2>2. req' \in [Requests -> Request] /\ req'[q] = [req[q] EXCEPT !.at = "repeat"]
        /\ \A p \in Requests \ {q} : req'[p] = req[p]
    BY <1>2, <2>1, Typed DEF At, PayInv
  <2>3. req'[q].at = "repeat" /\ req'[q].row = req[q].row
    BY <2>1, <2>2 DEF Request
  <2>4. req[q].row \in Rows /\ rec[req[q].row].status # "none"
    BY DEF PayInv, AtWork
  <2>5. lock' \in Requests \cup {Free} /\ \A p \in Requests : req'[p].at \in {"sign", "cast", "note"} => lock' = p
    BY <1>2, <2>2, <2>3 DEF PayInv, EmissionsTypeOK
  <2> QED BY <2>2, <2>3, <2>4, <2>5 DEF Moves
<1>3. CASE req' = [req EXCEPT ![q] = [Idle EXCEPT !.at = IF lock = q THEN "sign" ELSE "estimate", !.key = req[q].key]] /\ UNCHANGED lock
  <2>1. [Idle EXCEPT !.at = IF lock = q THEN "sign" ELSE "estimate", !.key = req[q].key] \in Request
    BY IdleIsRequest DEF Request, PayInv, EmissionsTypeOK
  <2>2. req' \in [Requests -> Request] /\ \A p \in Requests \ {q} : req'[p] = req[p]
    BY <1>3, <2>1 DEF PayInv, EmissionsTypeOK, Request
  <2>3. req'[q].at = IF lock = q THEN "sign" ELSE "estimate"
    BY <1>3 DEF PayInv, EmissionsTypeOK, Idle
  <2> QED BY <1>3, <2>2, <2>3 DEF Moves, PayInv, EmissionsTypeOK
<1> QED BY <1>1, <1>2, <1>3 DEF Continue
----------------------------------------------------------------------------
(* A step that only moves a request and, perhaps, changes the status of    *)
(* rows.                                                                   *)
LEMMA MovesKeep ==
    ASSUME PayInv, NEW q \in Requests, Moves(q), RowsKept, UNCHANGED nodeVars,
           next' \in Nat \cup {None}, doubted' \in SUBSET Rows, doubted \subseteq doubted', OneLive', FailedIsOver',
           \A p \in Requests \ {q} : req[p].at = "cast" /\ rec[req[p].row].status = "sending" =>
               rec'[req[p].row].status = "sending" \/ req[p].row \in doubted'
    PROVE  PayInv'
<1>1. EmissionsTypeOK'
  <2>1. \A r \in Rows : rec'[r].status # "none" => rec'[r].nonce # None
    BY DEF PayInv, EmissionsTypeOK, RowsKept
  <2>2. rec' \in [Rows -> [status : Statuses, key : Keys \cup {None}, nonce : Nat \cup {None}, aged : BOOLEAN]]
    BY DEF RowsKept, Record
  <2>3. req' \in [Requests -> [at : {"idle", "receipt", "nonce", "estimate", "sign", "repeat", "cast", "note"},
                             key : Keys \cup {None}, row : Rows \cup {NoRow},
                             view : Statuses, mode : {"post", "poll", "conflict"}, kind : Kinds]]
    BY DEF Moves, Request
  <2>4. lock' \in Requests \cup {Free} /\ \A p \in Requests : req'[p].at \in {"sign", "cast", "note"} => lock' = p
    BY DEF Moves
  <2> QED BY <2>1, <2>2, <2>3, <2>4 DEF PayInv, EmissionsTypeOK, nodeVars
<1>2. Traces'
  <2>1. \A t \in pool : t.rec # NoRow => t.rec \in Rows
    BY DEF PayInv, EmissionsTypeOK, Tx
  <2>2. \A i \in 1..Len(chain) : chain[i].rec # NoRow => chain[i].rec \in Rows
    BY Typed DEF PayInv, Event
  <2>3. \A r \in Rows : rec'[r].nonce = rec[r].nonce /\ (rec[r].status # "none" => rec'[r].status # "none")
    BY DEF RowsKept
  <2>4. pool' = pool /\ chain' = chain
    BY DEF nodeVars
  <2> QED BY <2>1, <2>2, <2>3, <2>4 DEF PayInv, Traces
<1>3. AtWork'
  <2>3. \A r \in Rows : rec[r].status # "none" => rec'[r].status # "none"
    BY DEF RowsKept
  <2> QED BY <2>3 DEF PayInv, AtWork, Moves
<1>4. \A r : Untraced(r) => Untraced(r)'
  BY DEF Untraced, nodeVars
<1>5. Unsent'
  BY <1>4 DEF PayInv, Unsent, Moves
<1> QED BY <1>1, <1>2, <1>3, <1>5 DEF PayInv

LEMMA RowsUnchanged ==
    ASSUME PayInv, rec' = rec, doubted' = doubted, UNCHANGED nodeVars
    PROVE  RowsKept /\ OneLive' /\ FailedIsOver' /\ doubted' \in SUBSET Rows
<1>1. RowsKept
  BY DEF PayInv, EmissionsTypeOK, RowsKept, Record
<1>2. OneLive'
  BY DEF PayInv, OneLive
<1>3. FailedIsOver'
  BY DEF PayInv, FailedIsOver, Untraced, nodeVars
<1> QED BY <1>1, <1>2, <1>3 DEF PayInv, EmissionsTypeOK

(* Row r can pay no more.                                                  *)
Over(r) ==
    /\ \A i \in 1..Len(chain) : chain[i].rec = r => ~chain[i].ok
    /\ Untraced(r) \/ rec[r].nonce < Len(chain)

LEMMA StoredKept ==
    ASSUME PayInv, NEW r \in Rows, rec[r].status # "none", NEW s \in Statuses \ {"none"}, rec' = Stored(r, s)
    PROVE  /\ RowsKept /\ OneLive'
           /\ \A x \in Rows \ {r} : rec'[x] = rec[x]
           /\ rec'[r].status \in {s, rec[r].status}
<1>1. rec \in [Rows -> Record] /\ OneLive
  BY Typed DEF PayInv
<1>2. CASE rec' = rec
  BY <1>1, <1>2 DEF RowsKept, OneLive
<1>3. CASE /\ rec' = [rec EXCEPT ![r].status = s]
           /\ s \in LIVE => LiveRows(rec[r].key) \ {r} = {}
  <2>1. rec' \in [Rows -> Record]
    BY <1>1, <1>3 DEF Record
  <2>2. /\ \A x \in Rows \ {r} : rec'[x] = rec[x]
        /\ rec'[r].status = s /\ rec'[r].key = rec[r].key /\ rec'[r].nonce = rec[r].nonce
    BY <1>1, <1>3 DEF Record
  <2>3. RowsKept
    BY <2>1, <2>2 DEF RowsKept
  <2>4. OneLive'
    <3> SUFFICES ASSUME NEW x \in Rows, NEW y \in Rows, rec'[x].status \in LIVE, rec'[y].status \in LIVE,
                        rec'[x].key = rec'[y].key
                 PROVE  x = y
      BY DEF OneLive
    <3>1. s \in LIVE => \A z \in Rows \ {r} : ~(rec[z].status \in LIVE /\ rec[z].key = rec[r].key)
      BY <1>3 DEF LiveRows
    <3> QED BY <1>1, <2>2, <3>1 DEF OneLive
  <2> QED BY <2>2, <2>3, <2>4
<1> QED BY <1>2, <1>3 DEF Stored

LEMMA FailedKept ==
    ASSUME PayInv, RowsKept, UNCHANGED nodeVars, NEW r \in Rows, \A x \in Rows \ {r} : rec'[x] = rec[x],
           doubted \subseteq doubted', rec'[r].status = "failed" /\ r \notin doubted' => Over(r)
    PROVE  FailedIsOver'
<1>1. \A x : Over(x) => (\A i \in 1..Len(chain') : chain'[i].rec = x => ~chain'[i].ok)
                        /\ (Untraced(x)' \/ rec[x].nonce < Len(chain'))
  BY DEF Over, Untraced, nodeVars
<1>2. \A x \in Rows : rec[x].status = "failed" /\ x \notin doubted => Over(x)
  BY DEF PayInv, FailedIsOver, Over
<1>3. \A x \in Rows : rec'[x].nonce = rec[x].nonce
  BY DEF RowsKept
<1>4. \A x \in Rows : rec'[x].status = "failed" /\ x \notin doubted' => Over(x)
  BY <1>2
<1> QED BY <1>1, <1>3, <1>4 DEF FailedIsOver

(* The rows of a step in which a request that is not signing one records   *)
(* status s of row r.                                                      *)
LEMMA RecordKeeps ==
    ASSUME PayInv, NEW q \in Requests, Moves(q), UNCHANGED nodeVars, next' \in Nat \cup {None},
           NEW r \in Rows, rec[r].status # "none", NEW s \in Statuses \ {"none"}, rec' = Stored(r, s),
           doubted' \in SUBSET Rows, doubted \subseteq doubted',
           s = "failed" /\ r \notin doubted' => Over(r),
           \A p \in Requests \ {q} : req[p].at = "cast" => req[p].row # r \/ r \in doubted'
    PROVE  PayInv'
<1>1. /\ RowsKept /\ OneLive'
      /\ \A x \in Rows \ {r} : rec'[x] = rec[x]
      /\ rec'[r].status \in {s, rec[r].status}
  BY StoredKept
<1>2. rec[r].status = "failed" /\ r \notin doubted' => Over(r)
  BY DEF PayInv, FailedIsOver, Over
<1>3. FailedIsOver'
  BY <1>1, <1>2, FailedKept
<1>4. \A p \in Requests \ {q} : req[p].at = "cast" => req[p].row \in Rows
  BY DEF PayInv, AtWork
<1> QED BY <1>1, <1>3, <1>4, MovesKeep
----------------------------------------------------------------------------
(* The steps of the route that leave the rows alone.                       *)
LEMMA QuietStep ==
    ASSUME PayInv, NEW q \in Requests, Moves(q), rec' = rec, doubted' = doubted, UNCHANGED nodeVars,
           next' \in Nat \cup {None}
    PROVE  PayInv'
  BY RowsUnchanged, MovesKeep

LEMMA NextNonce ==
    ASSUME PayInv, NEW p \in PendingNonces
    PROVE  p \in Nat /\ reserve(_nonce_floor, p) \in Nat
<1>1. p \in Nat
  <2>1. seen \in Nat
    BY Typed DEF PayInv, EmissionsTypeOK
  <2> DEFINE gaps == {n \in Len(chain)..(Len(chain) + Cardinality(pool)) : \A t \in pool : t.nonce # n}
  <2>2. p \in seen..Min(gaps)
    BY DEF PendingNonces
  <2> HIDE DEF gaps
  <2> QED BY <2>1, <2>2
<1>2. _nonce_floor \in Nat
  <2> DEFINE F == {x \in Rows : rec[x].status \in IN_FLIGHT}
             f == [r \in Rows |-> rec[r].nonce + 1]
             S == {0} \cup {rec[r].nonce + 1 : r \in F}
  <2>1. \A r \in F : f[r] \in Nat /\ f[r] = rec[r].nonce + 1 /\ rec[r].nonce \in Nat
    BY Typed DEF PayInv, IN_FLIGHT
  <2>2. IsFiniteSet(F)
    <3>1. IsFiniteSet(Rows)
      BY EmissionsBounds, FS_Interval DEF Rows
    <3> QED BY <3>1, FS_Subset
  <2> HIDE DEF f, F
  <2>3. SumOver(f, F) \in Nat /\ \A r \in F : f[r] <= SumOver(f, F)
    BY <2>1, <2>2, SumNat, TermBelowSum
  <2>4. S \in SUBSET Nat /\ S # {} /\ \A x \in S : x <= SumOver(f, F)
    BY <2>1, <2>3
  <2>5. Max(S) \in S
    <3> HIDE DEF S
    <3> QED BY <2>3, <2>4, MaxOfBounded
  <2>6. _nonce_floor = Max(S)
    BY DEF _nonce_floor, F
  <2> QED BY <2>4, <2>5, <2>6
<1>3. \A a, b \in Nat : Max({a, b}) \in Nat
  BY MaxOfTwo
<1>4. next = None \/ next \in Nat
  BY DEF PayInv, EmissionsTypeOK
<1>5. (IF next = None THEN p ELSE next) \in Nat
  BY <1>1, <1>4
<1> QED BY <1>1, <1>2, <1>3, <1>5 DEF reserve

LEMMA Keep_distribute ==
    ASSUME PayInv, NEW q \in Requests, NEW k \in Keys, distribute(q, k)
    PROVE  PayInv'
<1>1. req[q].at = "idle" /\ next' \in Nat \cup {None}
  BY DEF distribute, Idle, PayInv, EmissionsTypeOK
<1>2. Moves(q)
  BY <1>1, LookMoves DEF distribute
<1> QED BY <1>1, <1>2, QuietStep DEF distribute

LEMMA Keep_get ==
    ASSUME PayInv, NEW q \in Requests, NEW r \in Rows, get_distribution(q, r)
    PROVE  PayInv'
<1>1. req[q].at = "idle" /\ next' \in Nat \cup {None} /\ rec[r].status \in IN_FLIGHT
  BY DEF get_distribution, Idle, PayInv, EmissionsTypeOK
<1>2. Loaded(q, None, r, "poll") \in Request
  BY ZenonT(60), <1>1, Typed DEF Loaded, PayInv, Request, Record
<1>3. /\ req' \in [Requests -> Request] /\ \A p \in Requests \ {q} : req'[p] = req[p]
      /\ req'[q] = Loaded(q, None, r, "poll")
  BY <1>2, Typed DEF get_distribution, PayInv
<1>4. req'[q].at = "receipt" /\ req'[q].row = r
  BY <1>3, Typed DEF Loaded, PayInv, Request
<1>5. Moves(q)
  BY <1>1, <1>3, <1>4 DEF Moves, get_distribution, PayInv, EmissionsTypeOK, IN_FLIGHT
<1> QED BY <1>1, <1>5, QuietStep DEF get_distribution

LEMMA Keep_RefreshKept ==
    ASSUME PayInv, NEW q \in Requests, RefreshKept(q)
    PROVE  PayInv'
<1>1. req[q].view \in Statuses /\ next' \in Nat \cup {None}
  BY Typed DEF RefreshKept, PayInv, Request, EmissionsTypeOK
<1> QED BY <1>1, ContinueMoves, QuietStep DEF RefreshKept

LEMMA Keep_RefreshNotMined ==
    ASSUME PayInv, NEW q \in Requests, RefreshNotMined(q)
    PROVE  PayInv'
<1>1. req[q].view \in Statuses /\ next' \in Nat \cup {None}
  BY Typed DEF RefreshNotMined, PayInv, Request, EmissionsTypeOK
<1> QED BY <1>1, ContinueMoves, QuietStep DEF RefreshNotMined

LEMMA Keep_RefreshLate ==
    ASSUME PayInv, NEW q \in Requests, RefreshLate(q)
    PROVE  PayInv'
<1>1. next' \in Nat \cup {None} /\ req[q].row \in Rows /\ rec[req[q].row].status # "none"
  BY DEF RefreshLate, PayInv, AtWork, EmissionsTypeOK
<1>2. [req[q] EXCEPT !.at = "nonce"] \in Request
  BY Typed DEF PayInv, Request
<1>3. /\ req' \in [Requests -> Request] /\ \A p \in Requests \ {q} : req'[p] = req[p]
      /\ req'[q] = [req[q] EXCEPT !.at = "nonce"]
  BY <1>2, Typed DEF RefreshLate, At, PayInv
<1>4. req'[q].at = "nonce" /\ req'[q].row = req[q].row
  BY <1>3, Typed DEF PayInv, Request
<1>5. Moves(q)
  BY <1>1, <1>3, <1>4 DEF Moves, RefreshLate, PayInv, EmissionsTypeOK
<1> QED BY <1>1, <1>5, QuietStep DEF RefreshLate

LEMMA Keep_TakeLock ==
    ASSUME PayInv, NEW q \in Requests, TakeLock(q)
    PROVE  PayInv'
<1>1. next' \in Nat \cup {None}
  BY DEF TakeLock, PayInv, EmissionsTypeOK
<1>2. Moves(q)
  <2>1. req[q].key \in Keys \cup {None}
    BY Typed DEF PayInv, Request
  <2> QED BY <2>1, LookMoves DEF TakeLock
<1> QED BY <1>1, <1>2, QuietStep DEF TakeLock

LEMMA Keep_GiveUpEarly ==
    ASSUME PayInv, NEW q \in Requests, GiveUpEarly(q)
    PROVE  PayInv'
<1>1. next' \in Nat \cup {None}
  BY DEF GiveUpEarly, PayInv, EmissionsTypeOK
<1> QED BY <1>1, FinishMoves, QuietStep DEF GiveUpEarly

LEMMA Keep_NoteUnknown ==
    ASSUME PayInv, NEW q \in Requests, NoteUnknown(q)
    PROVE  PayInv'
<1>1. next' \in Nat \cup {None}
  BY DEF NoteUnknown, PayInv, EmissionsTypeOK
<1> QED BY <1>1, FinishMoves, QuietStep DEF NoteUnknown

LEMMA Keep_SignConflict ==
    ASSUME PayInv, NEW q \in Requests, NEW p \in PendingNonces, SignConflict(q, p)
    PROVE  PayInv'
<1>1. next' \in Nat \cup {None}
  BY NextNonce DEF SignConflict
<1>2. PICK r \in LiveRows(req[q].key) : req' = [req EXCEPT ![q] = Loaded(q, req[q].key, r, "conflict")]
  BY DEF SignConflict
<1>3. r \in Rows /\ rec[r].status # "none"
  BY DEF LiveRows, LIVE
<1>4. Loaded(q, req[q].key, r, "conflict") \in Request
  BY <1>3, Typed DEF Loaded, PayInv, Request, Record
<1>5. /\ req' \in [Requests -> Request] /\ \A x \in Requests \ {q} : req'[x] = req[x]
      /\ req'[q] = Loaded(q, req[q].key, r, "conflict")
  BY <1>2, <1>4, Typed DEF PayInv
<1>6. req'[q].at = "receipt" /\ req'[q].row = r
  BY <1>5, Typed DEF Loaded, PayInv, Request
<1>7. Moves(q)
  BY <1>3, <1>5, <1>6 DEF Moves, SignConflict, PayInv, EmissionsTypeOK
<1> QED BY <1>1, <1>7, QuietStep DEF SignConflict
----------------------------------------------------------------------------
(* The steps that record what became of a row.                             *)
LEMMA ReceiptOfRow ==
    ASSUME PayInv, NEW r \in Rows, NEW i \in Receipts(r)
    PROVE  /\ i \in 1..Len(chain) /\ chain[i].rec = r /\ rec[r].nonce = i - 1
           /\ \A j \in Receipts(r) : j = i
<1>1. \A j \in Receipts(r) : j \in 1..Len(chain) /\ chain[j].rec = r
  BY DEF Receipts
<1>2. r # NoRow
  BY DEF Rows, NoRow
<1>3. \A j \in Receipts(r) : rec[r].nonce = j - 1
  BY <1>1, <1>2 DEF PayInv, Traces
<1>4. \A j \in Receipts(r) : j \in Nat
  BY <1>1
<1> QED BY <1>1, <1>3, <1>4

(* Nobody else is about to broadcast a row that has a receipt.             *)
LEMMA Keep_RefreshReceipt ==
    ASSUME PayInv, NEW q \in Requests, RefreshReceipt(q)
    PROVE  PayInv'
<1> DEFINE r == req[q].row
<1>1. r \in Rows /\ rec[r].status # "none" /\ next' \in Nat \cup {None}
  BY DEF RefreshReceipt, PayInv, AtWork, EmissionsTypeOK
<1>2. PICK i \in Receipts(r) :
         LET status == IF chain[i].ok THEN "confirmed" ELSE "failed"
         IN  rec' = Stored(r, status) /\ Continue(q, status)
  BY DEF RefreshReceipt
<1> DEFINE s == IF chain[i].ok THEN "confirmed" ELSE "failed"
<1>3. s \in Statuses \ {"none"}
  BY DEF Statuses, LIVE
<1>4. Moves(q)
  BY <1>2, <1>3, ContinueMoves DEF RefreshReceipt
<1>5. i \in 1..Len(chain) /\ chain[i].rec = r /\ rec[r].nonce = i - 1 /\ \A j \in Receipts(r) : j = i
  BY <1>1, ReceiptOfRow
<1>6. s = "failed" => Over(r)
  <2> HAVE s = "failed"
  <2>1. ~chain[i].ok
    OBVIOUS
  <2>2. \A j \in 1..Len(chain) : chain[j].rec = r => ~chain[j].ok
    BY <1>5, <2>1 DEF Receipts
  <2>3. rec[r].nonce < Len(chain)
    BY <1>5, Typed DEF PayInv
  <2> QED BY <2>2, <2>3 DEF Over
<1>7. \A p \in Requests \ {q} : req[p].at = "cast" => req[p].row # r \/ r \in doubted
  BY <1>5 DEF PayInv, Unsent, Untraced
<1>8. rec' = Stored(r, s) /\ UNCHANGED nodeVars /\ doubted' = doubted /\ doubted' \in SUBSET Rows
  BY <1>2 DEF RefreshReceipt, PayInv, EmissionsTypeOK
<1> HIDE DEF r, s
<1> QED BY <1>1, <1>3, <1>4, <1>6, <1>7, <1>8, RecordKeeps

LEMMA Keep_RefreshGivesUp ==
    ASSUME PayInv, NEW q \in Requests, RefreshGivesUp(q)
    PROVE  PayInv'
<1> DEFINE r == req[q].row
<1>1. r \in Rows /\ rec[r].status # "none" /\ next' \in Nat \cup {None}
  BY DEF RefreshGivesUp, PayInv, AtWork, EmissionsTypeOK
<1>2. "failed" \in Statuses \ {"none"}
  BY DEF Statuses
<1>3. Moves(q)
  BY <1>2, ContinueMoves DEF RefreshGivesUp
<1>4. rec' = Stored(r, "failed") /\ UNCHANGED nodeVars /\ doubted' = doubted \cup {r} /\ doubted' \in SUBSET Rows
  BY <1>1 DEF RefreshGivesUp, PayInv, EmissionsTypeOK
<1> HIDE DEF r
<1> QED BY <1>1, <1>2, <1>3, <1>4, RecordKeeps

(* One request is signing or broadcasting what it signed: the lock.        *)
LEMMA OneSigner ==
    ASSUME PayInv, NEW q \in Requests, NEW p \in Requests, req[q].at \in {"sign", "cast", "note"},
           req[p].at \in {"sign", "cast", "note"}
    PROVE  p = q
  BY DEF PayInv, EmissionsTypeOK

LEMMA Keep_NoteSent ==
    ASSUME PayInv, NEW q \in Requests, NoteSent(q)
    PROVE  PayInv'
<1> DEFINE r == req[q].row
<1>1. r \in Rows /\ rec[r].status # "none" /\ next' \in Nat \cup {None}
  BY DEF NoteSent, PayInv, AtWork, EmissionsTypeOK
<1>2. "sent" \in Statuses \ {"none"}
  BY DEF Statuses, LIVE
<1>3. Moves(q)
  BY FinishMoves DEF NoteSent
<1>4. rec' = Stored(r, "sent") /\ UNCHANGED nodeVars /\ doubted' = doubted /\ doubted' \in SUBSET Rows
  BY DEF NoteSent, PayInv, EmissionsTypeOK
<1>5. \A p \in Requests \ {q} : req[p].at # "cast"
  BY OneSigner DEF NoteSent
<1> HIDE DEF r
<1> QED BY <1>1, <1>2, <1>3, <1>4, <1>5, RecordKeeps

(* A row whose signer was refused, and that nobody else broadcast, is over.*)
LEMMA RefusedIsOver ==
    ASSUME PayInv, NEW q \in Requests, req[q].at = "note", req[q].kind \notin {"ok", "transient"},
           req[q].row \notin doubted
    PROVE  Over(req[q].row)
  BY DEF PayInv, Unsent, Over, Untraced

LEMMA Keep_NoteRefused ==
    ASSUME PayInv, NEW q \in Requests, NoteRefused(q)
    PROVE  PayInv'
<1> DEFINE r == req[q].row
<1>1. r \in Rows /\ rec[r].status # "none" /\ rec[r].nonce \in Nat
  BY Typed DEF NoteRefused, PayInv, AtWork
<1>2. "failed" \in Statuses \ {"none"}
  BY DEF Statuses
<1>3. Moves(q)
  BY FinishMoves DEF NoteRefused
<1>4. rec' = Stored(r, "failed") /\ UNCHANGED nodeVars /\ doubted' = doubted /\ doubted' \in SUBSET Rows
  BY DEF NoteRefused, PayInv, EmissionsTypeOK
<1>5. \A p \in Requests \ {q} : req[p].at # "cast"
  BY OneSigner DEF NoteRefused
<1>6. r \notin doubted => Over(r)
  BY RefusedIsOver DEF NoteRefused
<1>7. next' \in Nat \cup {None}
  BY <1>1 DEF NoteRefused, Released, PayInv, EmissionsTypeOK
<1> HIDE DEF r
<1> QED BY <1>1, <1>2, <1>3, <1>4, <1>5, <1>6, <1>7, RecordKeeps

LEMMA Keep_NoteNonceTaken ==
    ASSUME PayInv, NEW q \in Requests, NoteNonceTaken(q)
    PROVE  PayInv'
<1> DEFINE r == req[q].row
           failed == Stored(r, "failed")
           found == MinedEarlier(failed, req[q].key)
<1>1. r \in Rows /\ rec[r].status # "none"
  BY DEF NoteNonceTaken, PayInv, AtWork
<1>2. "failed" \in Statuses \ {"none"} /\ "confirmed" \in Statuses
  BY DEF Statuses, LIVE
<1>3. Moves(q)
  BY FinishMoves DEF NoteNonceTaken
<1>4. UNCHANGED nodeVars /\ doubted' = doubted /\ doubted' \in SUBSET Rows
  BY DEF NoteNonceTaken, PayInv, EmissionsTypeOK
<1>5. \A p \in Requests \ {q} : req[p].at # "cast"
  BY OneSigner DEF NoteNonceTaken
<1>6. r \notin doubted => Over(r)
  BY RefusedIsOver DEF NoteNonceTaken
<1>7. next' \in Nat \cup {None}
  <2>1. next' \in PendingNonces
    BY DEF NoteNonceTaken, resync
  <2> QED BY <2>1, NextNonce
<1>8. CASE rec' = failed
  <2> HIDE DEF r
  <2> QED BY <1>1, <1>2, <1>3, <1>4, <1>5, <1>6, <1>7, <1>8, RecordKeeps
<1>9. CASE rec' = rec
  BY <1>3, <1>4, <1>7, <1>9, QuietStep
<1>10. ASSUME NEW x \in found, LiveRows(req[q].key) \subseteq {r}, rec' = [failed EXCEPT ![x].status = "confirmed"]
       PROVE  PayInv'
  <2>1. failed = [rec EXCEPT ![r].status = "failed"]
    BY DEF Stored, LIVE
  <2>2. rec \in [Rows -> Record] /\ failed \in [Rows -> Record]
    BY ZenonT(60), <1>2, <2>1, Typed DEF PayInv, Record
  <2>3. x \in Rows /\ failed[x].status = "failed" /\ failed[x].key = req[q].key
    BY DEF MinedEarlier
  <2>4. /\ \A y \in Rows \ {r} : failed[y] = rec[y]
        /\ failed[r].status = "failed" /\ failed[r].key = rec[r].key /\ failed[r].nonce = rec[r].nonce
    BY <1>1, <2>1, <2>2 DEF Record
  <2> HIDE DEF failed, found
  <2>5. /\ \A y \in Rows \ {x} : rec'[y] = failed[y]
        /\ rec'[x].status = "confirmed" /\ rec'[x].key = failed[x].key /\ rec'[x].nonce = failed[x].nonce
    BY <1>10, <2>2, <2>3 DEF Record
  <2>6. rec' \in [Rows -> Record]
    BY <1>2, <1>10, <2>2, <2>3 DEF Record
  <2>7. RowsKept
    <3>1. \A y \in Rows : rec'[y].nonce = failed[y].nonce /\ rec'[y].key = failed[y].key
      BY <2>5
    <3>2. \A y \in Rows : failed[y].nonce = rec[y].nonce /\ failed[y].key = rec[y].key
      BY <2>4
    <3>3. \A y \in Rows : rec'[y].status = rec[y].status \/ rec'[y].status \in {"failed", "confirmed"}
      BY <2>4, <2>5
    <3>4. \A y \in Rows : rec[y].status = "none" => rec'[y].status = "none"
      BY <1>1, <2>3, <2>4, <2>5
    <3> QED BY <2>6, <3>1, <3>2, <3>3, <3>4 DEF RowsKept
  <2>8. OneLive'
    <3>1. \A y \in Rows \ {x} : rec'[y].status \in LIVE => y # r /\ rec[y].status \in LIVE /\ rec'[y] = rec[y]
      BY <2>4, <2>5 DEF LIVE
    <3>2. \A y \in Rows \ {x} : rec'[y].status \in LIVE => rec'[y].key # req[q].key
      BY <1>10, <3>1 DEF LiveRows
    <3>3. rec'[x].key = req[q].key
      BY <2>3, <2>5
    <3> QED BY <3>1, <3>2, <3>3 DEF OneLive, PayInv
  <2>9. \A y \in Rows : rec'[y].status = "failed" /\ y \notin doubted => Over(y)
    <3>1. \A y \in Rows : rec[y].status = "failed" /\ y \notin doubted => Over(y)
      BY DEF PayInv, FailedIsOver, Over
    <3> QED BY <1>6, <2>4, <2>5, <3>1
  <2>10. FailedIsOver'
    <3>1. \A y : Over(y) => (\A i \in 1..Len(chain') : chain'[i].rec = y => ~chain'[i].ok)
                            /\ (Untraced(y)' \/ rec[y].nonce < Len(chain'))
      BY <1>4 DEF Over, Untraced, nodeVars
    <3>2. \A y \in Rows : rec'[y].nonce = rec[y].nonce
      BY <2>7 DEF RowsKept
    <3> QED BY <1>4, <2>9, <3>1, <3>2 DEF FailedIsOver
  <2> QED BY <1>3, <1>4, <1>5, <1>7, <2>7, <2>8, <2>10, MovesKeep
<1>11. \/ rec' = failed \/ rec' = rec
       \/ \E x \in found : LiveRows(req[q].key) \subseteq {r} /\ rec' = [failed EXCEPT ![x].status = "confirmed"]
  BY DEF NoteNonceTaken
<1> QED BY <1>8, <1>9, <1>10, <1>11
----------------------------------------------------------------------------
(* The steps that sign and broadcast.                                      *)
LEMMA NoRecordTyped == NoRecord \in Record
  BY DEF NoRecord, Record, Statuses, LIVE

LEMMA Keep_Sign ==
    ASSUME PayInv, NEW q \in Requests, NEW r \in Rows, NEW p \in PendingNonces, Sign(q, r, p)
    PROVE  PayInv'
<1> DEFINE n == reserve(_nonce_floor, p)
           k == req[q].key
           new == [NoRecord EXCEPT !.status = "sending", !.key = k, !.nonce = n]
<1>1. n \in Nat /\ k \in Keys \cup {None}
  BY NextNonce, Typed DEF PayInv, Request
<1>2. /\ req[q].at = "sign" /\ LiveRows(k) = {} /\ rec[r].status = "none" /\ next' = n + 1
      /\ rec' = [rec EXCEPT ![r] = new] /\ req' = [req EXCEPT ![q].at = "cast", ![q].row = r]
      /\ lock' = lock /\ doubted' = doubted /\ UNCHANGED nodeVars
  BY DEF Sign
<1> HIDE DEF n, k
<1>3. new \in Record
  BY <1>1, NoRecordTyped DEF Record, Statuses, LIVE
<1>15. new.status = "sending" /\ new.key = k /\ new.nonce = n
  BY DEF NoRecord
<1> HIDE DEF new
<1>4. /\ rec' \in [Rows -> Record] /\ rec'[r] = new /\ \A x \in Rows \ {r} : rec'[x] = rec[x]
      /\ new.status = "sending" /\ new.key = k /\ new.nonce = n
  BY <1>2, <1>3, <1>15, Typed DEF PayInv
<1>5. /\ req' \in [Requests -> Request] /\ \A x \in Requests \ {q} : req'[x] = req[x]
      /\ req'[q].at = "cast" /\ req'[q].row = r
  BY ZenonT(60), <1>2, Typed DEF PayInv, Request
<1>6. Untraced(r) /\ r # NoRow
  BY <1>2 DEF PayInv, Traces, Untraced, Rows, NoRow
<1>7. pool' = pool /\ chain' = chain /\ seen' = seen /\ foreign' = foreign
  BY <1>2 DEF nodeVars
<1>8. EmissionsTypeOK'
  <2>1. \A x \in Rows : rec'[x].status # "none" => rec'[x].nonce # None
    BY <1>1, <1>4 DEF PayInv, EmissionsTypeOK, None
  <2>2. rec' \in [Rows -> [status : Statuses, key : Keys \cup {None}, nonce : Nat \cup {None}, aged : BOOLEAN]]
    BY <1>4 DEF Record
  <2>3. req' \in [Requests -> [at : {"idle", "receipt", "nonce", "estimate", "sign", "repeat", "cast", "note"},
                             key : Keys \cup {None}, row : Rows \cup {NoRow},
                             view : Statuses, mode : {"post", "poll", "conflict"}, kind : Kinds]]
    BY <1>5 DEF Request
  <2>4. \A x \in Requests : req'[x].at \in {"sign", "cast", "note"} => lock' = x
    BY <1>2, <1>5 DEF PayInv, EmissionsTypeOK
  <2> QED BY <1>1, <1>2, <1>7, <2>1, <2>2, <2>3, <2>4 DEF PayInv, EmissionsTypeOK
<1>9. Traces'
  <2>1. \A t \in pool : t.rec # NoRow => t.rec \in Rows \ {r}
    BY <1>6 DEF Untraced, PayInv, EmissionsTypeOK, Tx
  <2>2. \A i \in 1..Len(chain) : chain[i].rec # NoRow => chain[i].rec \in Rows \ {r}
    BY <1>6, Typed DEF Untraced, PayInv, Event
  <2> QED BY <1>4, <1>7, <2>1, <2>2 DEF PayInv, Traces
<1>10. AtWork'
  BY <1>4, <1>5 DEF PayInv, AtWork
<1>11. OneLive'
  <2>1. \A x \in Rows : rec[x].status \in LIVE => rec[x].key # k
    BY <1>2 DEF LiveRows
  <2> QED BY <1>4, <2>1 DEF PayInv, OneLive
<1>12. \A x : Untraced(x) => Untraced(x)'
  BY <1>7 DEF Untraced
<1>13. Unsent'
  <2>1. \A x \in Requests \ {q} : req[x].at \notin {"cast", "note"}
    BY <1>2, OneSigner
  <2> QED BY <1>2, <1>4, <1>5, <1>6, <1>12, <2>1 DEF Unsent
<1>14. FailedIsOver'
  <2>1. \A x \in Rows : rec'[x].status = "failed" => x # r /\ rec'[x] = rec[x]
    BY <1>4
  <2> QED BY <1>2, <1>7, <1>12, <2>1 DEF PayInv, FailedIsOver
<1> QED BY <1>8, <1>9, <1>10, <1>11, <1>13, <1>14 DEF PayInv

(* A broadcast adds at most the transaction that is sent.                  *)
LEMMA AnsweredPool ==
    ASSUME PayInv, NEW r \in Rows, rec[r].nonce \in Nat, NEW kind \in Kinds, Answered(kind, [rec |-> r, nonce |-> rec[r].nonce])
    PROVE  /\ chain' = chain /\ seen' = seen /\ foreign' = foreign
           /\ pool' \subseteq pool \cup {[rec |-> r, nonce |-> rec[r].nonce]}
           /\ kind \notin {"ok", "transient"} => pool' = pool
           /\ pool' \subseteq Tx
           /\ \A x : x # r => (Untraced(x) => Untraced(x)')
           /\ pool' = pool => (Untraced(r) => Untraced(r)')
<1> DEFINE t == [rec |-> r, nonce |-> rec[r].nonce]
<1>1. t \in Tx /\ t.rec = r
  BY DEF Tx
<1>2. chain' = chain /\ seen' = seen /\ foreign' = foreign
  BY DEF Answered
<1>3. pool' \subseteq pool \cup {t} /\ (kind \notin {"ok", "transient"} => pool' = pool)
  <2>1. Pooled(t) = pool \/ Pooled(t) = pool \cup {t}
    BY DEF Pooled
  <2>2. pool' = pool \/ (kind \in {"ok", "transient"} /\ pool' = Pooled(t))
    BY DEF Answered, Kinds
  <2> QED BY <2>1, <2>2
<1> HIDE DEF t
<1>4. pool' \subseteq Tx
  BY <1>1, <1>3 DEF PayInv, EmissionsTypeOK
<1>5. \A x : x # r => (Untraced(x) => Untraced(x)')
  BY <1>1, <1>2, <1>3 DEF Untraced
<1>6. pool' = pool => (Untraced(r) => Untraced(r)')
  BY <1>2 DEF Untraced
<1> QED BY <1>2, <1>3, <1>4, <1>5, <1>6 DEF t

LEMMA TracesAfterSend ==
    ASSUME PayInv, NEW r \in Rows, rec[r].status # "none", RowsKept, chain' = chain,
           pool' \subseteq pool \cup {[rec |-> r, nonce |-> rec[r].nonce]}
    PROVE  Traces'
<1>1. \A t \in pool : t.rec # NoRow => t.rec \in Rows
  BY DEF PayInv, EmissionsTypeOK, Tx
<1>2. \A i \in 1..Len(chain) : chain[i].rec # NoRow => chain[i].rec \in Rows
  BY Typed DEF PayInv, Event
<1>3. \A x \in Rows : rec'[x].nonce = rec[x].nonce /\ (rec[x].status # "none" => rec'[x].status # "none")
  BY DEF RowsKept
<1> QED BY <1>1, <1>2, <1>3 DEF PayInv, Traces

LEMMA Keep_Send ==
    ASSUME PayInv, NEW q \in Requests, NEW kind \in Kinds, Send(q, kind)
    PROVE  PayInv'
<1>0. PICK r \in Rows : r = req[q].row
  BY DEF Send, PayInv, AtWork
<1>1. rec[r].status # "none" /\ rec[r].nonce \in Nat /\ req[q].at = "cast"
  BY <1>0, Typed DEF Send, PayInv, AtWork
<1>2. Answered(kind, [rec |-> r, nonce |-> rec[r].nonce])
  BY <1>0 DEF Send
<1>3. /\ req' \in [Requests -> Request] /\ \A x \in Requests \ {q} : req'[x] = req[x]
      /\ req'[q].at = "note" /\ req'[q].row = r /\ req'[q].kind = kind
  <2>1. req \in [Requests -> Request] /\ req' = [req EXCEPT ![q] = [req[q] EXCEPT !.at = "note", !.kind = kind]]
    BY Typed DEF Send, PayInv
  <2>2. /\ [req[q] EXCEPT !.at = "note", !.kind = kind] \in Request
        /\ [req[q] EXCEPT !.at = "note", !.kind = kind].at = "note"
        /\ [req[q] EXCEPT !.at = "note", !.kind = kind].row = req[q].row
        /\ [req[q] EXCEPT !.at = "note", !.kind = kind].kind = kind
    BY <2>1 DEF Request
  <2> QED BY <1>0, <2>1, <2>2
<1>4. rec' = rec /\ lock' = lock /\ next' = next /\ doubted' = doubted
  BY DEF Send
<1>5. /\ chain' = chain /\ seen' = seen /\ foreign' = foreign
      /\ pool' \subseteq pool \cup {[rec |-> r, nonce |-> rec[r].nonce]}
      /\ kind \notin {"ok", "transient"} => pool' = pool
      /\ pool' \subseteq Tx
      /\ \A x : x # r => (Untraced(x) => Untraced(x)')
      /\ pool' = pool => (Untraced(r) => Untraced(r)')
  BY <1>1, <1>2, AnsweredPool
<1>6. RowsKept
  BY <1>4, Typed DEF RowsKept, PayInv
<1>7. Traces'
  BY <1>1, <1>5, <1>6, TracesAfterSend
<1>8. EmissionsTypeOK'
  <2>3. req' \in [Requests -> [at : {"idle", "receipt", "nonce", "estimate", "sign", "repeat", "cast", "note"},
                             key : Keys \cup {None}, row : Rows \cup {NoRow},
                             view : Statuses, mode : {"post", "poll", "conflict"}, kind : Kinds]]
    BY <1>3 DEF Request
  <2>4. \A x \in Requests : req'[x].at \in {"sign", "cast", "note"} => lock' = x
    BY <1>1, <1>3, <1>4 DEF PayInv, EmissionsTypeOK
  <2> QED BY <1>4, <1>5, <2>3, <2>4 DEF PayInv, EmissionsTypeOK
<1>9. AtWork'
  BY <1>1, <1>3, <1>4 DEF PayInv, AtWork
<1>10. OneLive'
  BY <1>4 DEF PayInv, OneLive
<1>11. \A x \in Requests \ {q} : req[x].at \notin {"cast", "note"}
  BY <1>1, OneSigner
<1>12. r \notin doubted => Untraced(r) /\ rec[r].status = "sending"
  BY <1>0, <1>1 DEF PayInv, Unsent
<1>13. Unsent'
  BY <1>3, <1>4, <1>5, <1>11, <1>12 DEF Unsent
<1>14. FailedIsOver'
  <2>1. \A x \in Rows : rec'[x].status = "failed" /\ x \notin doubted' => x # r
    BY <1>4, <1>12
  <2> QED BY <1>4, <1>5, <2>1 DEF PayInv, FailedIsOver
<1> QED BY <1>7, <1>8, <1>9, <1>10, <1>13, <1>14 DEF PayInv

LEMMA Keep_duplicate ==
    ASSUME PayInv, NEW q \in Requests, NEW kind \in Kinds, _duplicate(q, kind)
    PROVE  PayInv'
<1> DEFINE r == req[q].row
<1>1. r \in Rows /\ rec[r].status # "none" /\ rec[r].nonce \in Nat /\ req[q].at = "repeat"
  BY Typed DEF _duplicate, PayInv, AtWork
<1>2. Answered(kind, [rec |-> r, nonce |-> rec[r].nonce]) /\ next' = next
  BY DEF _duplicate
<1>3. Moves(q)
  BY FinishMoves DEF _duplicate
<1>4. rec' = Stored(r, "sent") \/ rec' = rec
  BY DEF _duplicate
<1>5. /\ doubted \subseteq doubted' /\ doubted' \in SUBSET Rows
      /\ r \in doubted' \/ (rec[r].status # "failed" /\ ~BeingSent(r))
  BY <1>1 DEF _duplicate, PayInv, EmissionsTypeOK
<1>6. ~BeingSent(r) => \A p \in Requests : req[p].at \in {"cast", "note"} => req[p].row # r
  BY DEF BeingSent
<1> HIDE DEF r
<1>7. /\ chain' = chain /\ seen' = seen /\ foreign' = foreign
      /\ pool' \subseteq pool \cup {[rec |-> r, nonce |-> rec[r].nonce]}
      /\ pool' \subseteq Tx
      /\ \A x : x # r => (Untraced(x) => Untraced(x)')
  BY <1>1, <1>2, AnsweredPool
<1>8. /\ RowsKept /\ OneLive'
      /\ \A x \in Rows \ {r} : rec'[x] = rec[x]
      /\ rec'[r].status \in {"sent", rec[r].status}
  <2>1. CASE rec' = Stored(r, "sent")
    <3>1. "sent" \in Statuses \ {"none"}
      BY DEF Statuses, LIVE
    <3> QED BY <1>1, <2>1, <3>1, StoredKept
  <2>2. CASE rec' = rec
    BY <1>1, <2>2, Typed DEF RowsKept, PayInv, OneLive
  <2> QED BY <1>4, <2>1, <2>2
<1>9. Traces'
  BY <1>1, <1>7, <1>8, TracesAfterSend
<1>10. EmissionsTypeOK'
  <2>1. \A x \in Rows : rec'[x].status # "none" => rec'[x].nonce # None
    BY <1>8 DEF PayInv, EmissionsTypeOK, RowsKept
  <2>2. rec' \in [Rows -> [status : Statuses, key : Keys \cup {None}, nonce : Nat \cup {None}, aged : BOOLEAN]]
    BY <1>8 DEF RowsKept, Record
  <2>3. req' \in [Requests -> [at : {"idle", "receipt", "nonce", "estimate", "sign", "repeat", "cast", "note"},
                             key : Keys \cup {None}, row : Rows \cup {NoRow},
                             view : Statuses, mode : {"post", "poll", "conflict"}, kind : Kinds]]
    BY <1>3 DEF Moves, Request
  <2>4. lock' \in Requests \cup {Free} /\ \A p \in Requests : req'[p].at \in {"sign", "cast", "note"} => lock' = p
    BY <1>3 DEF Moves
  <2> QED BY <1>2, <1>5, <1>7, <2>1, <2>2, <2>3, <2>4 DEF PayInv, EmissionsTypeOK
<1>11. AtWork'
  <2>1. \A x \in Rows : rec[x].status # "none" => rec'[x].status # "none"
    BY <1>8 DEF RowsKept
  <2> QED BY <1>3, <2>1 DEF PayInv, AtWork, Moves
<1>12. Unsent'
  <2>1. \A p \in Requests : req'[p].at \in {"cast", "note"} => p # q /\ req'[p] = req[p] /\ req[p].row \in Rows
    BY <1>3 DEF Moves, PayInv, AtWork
  <2> QED BY <1>5, <1>6, <1>7, <1>8, <2>1 DEF PayInv, Unsent
<1>13. FailedIsOver'
  <2>1. \A x \in Rows : rec'[x].status = "failed" /\ x \notin doubted' => x # r /\ rec'[x] = rec[x]
    BY <1>5, <1>8
  <2> QED BY <1>5, <1>7, <2>1 DEF PayInv, FailedIsOver
<1> QED BY <1>8, <1>9, <1>10, <1>11, <1>12, <1>13 DEF PayInv
----------------------------------------------------------------------------
(* Time, restarts and the nodes.                                           *)
LEMMA Keep_Age ==
    ASSUME PayInv, NEW r \in Rows, Age(r)
    PROVE  PayInv'
<1>1. /\ rec' \in [Rows -> Record] /\ \A x \in Rows \ {r} : rec'[x] = rec[x]
      /\ rec'[r].status = rec[r].status /\ rec'[r].key = rec[r].key /\ rec'[r].nonce = rec[r].nonce
  BY Typed DEF Age, PayInv, Record
<1>2. \A x \in Rows : rec'[x].status = rec[x].status /\ rec'[x].key = rec[x].key /\ rec'[x].nonce = rec[x].nonce
  BY <1>1
<1>3. UNCHANGED <<req, lock, next, doubted, chain, pool, seen, foreign>>
  BY DEF Age, nodeVars
<1>4. EmissionsTypeOK'
  <2>1. rec' \in [Rows -> [status : Statuses, key : Keys \cup {None}, nonce : Nat \cup {None}, aged : BOOLEAN]]
    BY <1>1 DEF Record
  <2> QED BY <1>2, <1>3, <2>1 DEF PayInv, EmissionsTypeOK
<1>5. Traces'
  <2>1. \A t \in pool : t.rec # NoRow => t.rec \in Rows
    BY DEF PayInv, EmissionsTypeOK, Tx
  <2>2. \A i \in 1..Len(chain) : chain[i].rec # NoRow => chain[i].rec \in Rows
    BY Typed DEF PayInv, Event
  <2> QED BY <1>2, <1>3, <2>1, <2>2 DEF PayInv, Traces
<1>6. AtWork' /\ OneLive'
  BY <1>2, <1>3 DEF PayInv, AtWork, OneLive
<1>7. \A x : Untraced(x) => Untraced(x)'
  BY <1>3 DEF Untraced
<1>8. Unsent'
  <2>1. \A q \in Requests : req[q].at = "cast" => req[q].row \in Rows
    BY DEF PayInv, AtWork
  <2> QED BY <1>2, <1>3, <1>7, <2>1 DEF PayInv, Unsent
<1>9. FailedIsOver'
  BY <1>2, <1>3, <1>7 DEF PayInv, FailedIsOver
<1> QED BY <1>4, <1>5, <1>6, <1>8, <1>9 DEF PayInv

LEMMA Keep_Crash ==
    ASSUME PayInv, Crash
    PROVE  PayInv'
<1>1. /\ req' = [q \in Requests |-> Idle] /\ lock' = Free /\ next' = None
      /\ UNCHANGED <<rec, doubted, chain, pool, seen, foreign>>
  BY DEF Crash, nodeVars
<1>2. \A q \in Requests : req'[q].at = "idle"
  BY <1>1 DEF Idle
<1>3. EmissionsTypeOK'
  <2>1. req' \in [Requests -> [at : {"idle", "receipt", "nonce", "estimate", "sign", "repeat", "cast", "note"},
                             key : Keys \cup {None}, row : Rows \cup {NoRow},
                             view : Statuses, mode : {"post", "poll", "conflict"}, kind : Kinds]]
    BY <1>1, IdleIsRequest DEF Request
  <2> QED BY <1>1, <1>2, <2>1 DEF PayInv, EmissionsTypeOK
<1>4. Traces' /\ OneLive' /\ FailedIsOver'
  BY <1>1 DEF PayInv, Traces, OneLive, FailedIsOver, Untraced
<1>5. AtWork' /\ Unsent'
  BY <1>2 DEF AtWork, Unsent
<1> QED BY <1>3, <1>4, <1>5 DEF PayInv

LEMMA Appended ==
    ASSUME EmissionsTypeOK, NEW e \in Event, chain' = Append(chain, e)
    PROVE  /\ chain' \in Seq(Event) /\ Len(chain') = Len(chain) + 1
           /\ chain'[Len(chain) + 1] = e /\ \A i \in 1..Len(chain) : chain'[i] = chain[i]
  BY Typed, AppendProperties

(* A transaction that is mined is the first of its nonce.                  *)
LEMMA Keep_Mine ==
    ASSUME PayInv, NEW t \in pool, NEW ok \in BOOLEAN, Mine(t, ok)
    PROVE  PayInv'
<1> DEFINE e == [rec |-> t.rec, nonce |-> t.nonce, ok |-> ok]
<1>1. t \in Tx /\ e \in Event /\ e.rec = t.rec /\ e.nonce = t.nonce /\ Len(chain) \in Nat
  BY Typed DEF PayInv, EmissionsTypeOK, Tx, Event
<1>2. /\ t.nonce = Len(chain) /\ chain' = Append(chain, e) /\ pool' \subseteq pool
      /\ UNCHANGED <<rec, req, lock, next, doubted, seen, foreign>>
  BY DEF Mine
<1> HIDE DEF e
<1>3. /\ chain' \in Seq(Event) /\ Len(chain') = Len(chain) + 1
      /\ chain'[Len(chain) + 1] = e /\ \A i \in 1..Len(chain) : chain'[i] = chain[i]
  BY <1>1, <1>2, Appended DEF PayInv
<1>4. EmissionsTypeOK'
  <2>1. chain' \in Seq([rec : Rows \cup {NoRow}, nonce : Nat, ok : BOOLEAN]) /\ seen \in 0..Len(chain')
    BY <1>1, <1>3 DEF Event, PayInv, EmissionsTypeOK
  <2> QED BY <1>2, <2>1 DEF PayInv, EmissionsTypeOK
<1>5. t.rec # NoRow => rec[t.rec].status # "none" /\ t.nonce = rec[t.rec].nonce
  BY DEF PayInv, Traces
<1>6. Traces'
  <2>1. \A i \in 1..Len(chain') : i \in 1..Len(chain) \/ i = Len(chain) + 1
    BY <1>1, <1>3
  <2>2. \A i \in 1..Len(chain') :
          /\ chain'[i].nonce = i - 1
          /\ chain'[i].rec # NoRow => rec[chain'[i].rec].status # "none" /\ chain'[i].nonce = rec[chain'[i].rec].nonce
    BY <1>1, <1>2, <1>3, <1>5, <2>1 DEF PayInv, Traces
  <2> QED BY <1>2, <2>2 DEF PayInv, Traces
<1>7. AtWork' /\ OneLive'
  BY <1>2 DEF PayInv, AtWork, OneLive
<1>8. \A x : Untraced(x) => t.rec # x /\ Untraced(x)'
  <2>1. \A i \in 1..Len(chain') : i \in 1..Len(chain) \/ i = Len(chain) + 1
    BY <1>1, <1>3
  <2> QED BY <1>1, <1>2, <1>3, <2>1 DEF Untraced
<1>9. Unsent'
  BY <1>2, <1>8 DEF PayInv, Unsent
<1>10. FailedIsOver'
  <2> SUFFICES ASSUME NEW r \in Rows, rec[r].status = "failed", r \notin doubted
               PROVE  /\ \A i \in 1..Len(chain') : chain'[i].rec = r => ~chain'[i].ok
                      /\ Untraced(r)' \/ rec[r].nonce < Len(chain')
    BY <1>2 DEF FailedIsOver
  <2>1. (\A i \in 1..Len(chain) : chain[i].rec = r => ~chain[i].ok) /\ (Untraced(r) \/ rec[r].nonce < Len(chain))
    BY DEF PayInv, FailedIsOver
  <2>2. rec[r].nonce \in Nat /\ r # NoRow
    BY Typed DEF PayInv, Rows, NoRow
  <2>3. t.rec # r
    BY <1>1, <1>2, <1>5, <1>8, <2>1, <2>2
  <2>4. \A i \in 1..Len(chain') : i \in 1..Len(chain) \/ i = Len(chain) + 1
    BY <1>1, <1>3
  <2>5. \A i \in 1..Len(chain') : chain'[i].rec = r => ~chain'[i].ok
    BY <1>1, <1>3, <2>1, <2>3, <2>4
  <2> QED BY <1>1, <1>3, <1>8, <2>1, <2>2, <2>5
<1> QED BY <1>4, <1>6, <1>7, <1>9, <1>10 DEF PayInv

(* Pools that lose transactions, gain foreign ones, or nodes that see more *)
(* of the chain.                                                           *)
LEMMA NodesKeep ==
    ASSUME PayInv, UNCHANGED <<rec, req, lock, next, doubted, chain>>, pool' \subseteq Tx,
           \A t \in pool' : t \in pool \/ t.rec = NoRow, seen' \in 0..Len(chain), foreign' \in 0..MaxForeign
    PROVE  PayInv'
<1>1. EmissionsTypeOK'
  BY DEF PayInv, EmissionsTypeOK
<1>2. Traces'
  BY DEF PayInv, Traces
<1>3. AtWork' /\ OneLive'
  BY DEF PayInv, AtWork, OneLive
<1>4. \A x \in Rows : Untraced(x) => Untraced(x)'
  <2>1. \A x \in Rows : x # NoRow
    BY DEF Rows, NoRow
  <2> QED BY <2>1 DEF Untraced
<1>5. Unsent'
  <2>1. \A q \in Requests : req[q].at \in {"cast", "note"} => req[q].row \in Rows
    BY DEF PayInv, AtWork
  <2> QED BY <1>4, <2>1 DEF PayInv, Unsent
<1>6. FailedIsOver'
  BY <1>4 DEF PayInv, FailedIsOver
<1> QED BY <1>1, <1>2, <1>3, <1>5, <1>6 DEF PayInv

LEMMA Keep_ForeignSend ==
    ASSUME PayInv, NEW n \in PendingNonces, ForeignSend(n)
    PROVE  PayInv'
<1>1. n \in Nat
  BY NextNonce
<1>2. [rec |-> NoRow, nonce |-> n] \in Tx
  BY <1>1 DEF Tx
<1>3. pool' \subseteq Tx /\ \A t \in pool' : t \in pool \/ t.rec = NoRow
  BY <1>2 DEF ForeignSend, PayInv, EmissionsTypeOK
<1>4. foreign' \in 0..MaxForeign
  BY EmissionsBounds DEF ForeignSend, PayInv, EmissionsTypeOK
<1> QED BY <1>3, <1>4, NodesKeep DEF ForeignSend, PayInv, EmissionsTypeOK

LEMMA Keep_Evict ==
    ASSUME PayInv, NEW t \in pool, Evict(t)
    PROVE  PayInv'
  BY NodesKeep DEF Evict, PayInv, EmissionsTypeOK

LEMMA Keep_CatchUp ==
    ASSUME PayInv, NEW k \in (seen + 1)..Len(chain), CatchUp(k)
    PROVE  PayInv'
<1>1. k \in 0..Len(chain)
  BY Typed DEF PayInv, EmissionsTypeOK
<1> QED BY <1>1, NodesKeep DEF CatchUp, PayInv, EmissionsTypeOK
----------------------------------------------------------------------------
LEMMA PayInit == Init => PayInv
<1> HAVE Init
<1>1. Len(chain) = 0 /\ chain \in Seq([rec : Rows \cup {NoRow}, nonce : Nat, ok : BOOLEAN])
  BY EmptySeq DEF Init
<1>2. /\ rec \in [Rows -> Record] /\ \A r \in Rows : rec[r].status = "none"
  BY NoRecordTyped DEF Init, NoRecord
<1>3. req \in [Requests -> Request] /\ \A q \in Requests : req[q].at = "idle"
  BY IdleIsRequest DEF Init, Idle
<1>4. EmissionsTypeOK
  <2>1. rec \in [Rows -> [status : Statuses, key : Keys \cup {None}, nonce : Nat \cup {None}, aged : BOOLEAN]]
    BY <1>2 DEF Record
  <2>2. req \in [Requests -> [at : {"idle", "receipt", "nonce", "estimate", "sign", "repeat", "cast", "note"},
                             key : Keys \cup {None}, row : Rows \cup {NoRow},
                             view : Statuses, mode : {"post", "poll", "conflict"}, kind : Kinds]]
    BY <1>3 DEF Request
  <2> QED BY <1>1, <1>2, <1>3, <2>1, <2>2, EmissionsBounds DEF Init, EmissionsTypeOK
<1>5. Traces
  BY <1>1 DEF Init, Traces
<1>6. AtWork /\ Unsent
  BY <1>3 DEF AtWork, Unsent
<1>7. OneLive /\ FailedIsOver
  BY <1>2 DEF OneLive, FailedIsOver, LIVE
<1> QED BY <1>4, <1>5, <1>6, <1>7 DEF PayInv

LEMMA PayStep == PayInv /\ [Next]_vars => PayInv'
<1> SUFFICES ASSUME PayInv, [Next]_vars PROVE PayInv'
  OBVIOUS
<1>1. ASSUME NEW q \in Requests, RouteStep(q) PROVE PayInv'
  BY <1>1, Keep_distribute, Keep_get, Keep_RefreshReceipt, Keep_RefreshKept, Keep_RefreshLate,
     Keep_RefreshGivesUp, Keep_RefreshNotMined, Keep_duplicate, Keep_Send, Keep_TakeLock, Keep_GiveUpEarly,
     Keep_Sign, Keep_SignConflict, Keep_NoteSent, Keep_NoteRefused, Keep_NoteNonceTaken, Keep_NoteUnknown
  DEF RouteStep
<1>2. ASSUME NodeStep PROVE PayInv'
  BY <1>2, Keep_Mine, Keep_ForeignSend, Keep_Evict, Keep_CatchUp DEF NodeStep
<1>3. ASSUME UNCHANGED vars PROVE PayInv'
  BY <1>3 DEF vars, PayInv, EmissionsTypeOK, Traces, AtWork, OneLive, Unsent, FailedIsOver, Untraced
<1> QED BY <1>1, <1>2, <1>3, Keep_Age, Keep_Crash DEF Next

LEMMA PayAlways == Spec => []PayInv
  BY PayInit, PayStep, PTL DEF Spec

LEMMA PayGivesDoubt == PayInv => PaidTwiceOnlyInDoubt
<1> SUFFICES ASSUME PayInv, NEW k \in Keys PROVE Cardinality(PaidBy(k) \ doubted) <= 1
  BY DEF PaidTwiceOnlyInDoubt
<1> DEFINE P == PaidBy(k) \ doubted
<1>1. \A r \in P : r \in Rows /\ rec[r].key = k /\ rec[r].status \in LIVE
  <2> SUFFICES ASSUME NEW r \in P PROVE r \in Rows /\ rec[r].key = k /\ rec[r].status \in LIVE
    OBVIOUS
  <2>1. r \in Rows /\ rec[r].key = k /\ r \notin doubted
    BY DEF PaidBy
  <2>2. PICK i \in Receipts(r) : chain[i].ok
    BY DEF PaidBy
  <2>3. i \in 1..Len(chain) /\ chain[i].rec = r /\ r # NoRow
    BY <2>1 DEF Receipts, Rows, NoRow
  <2>4. rec[r].status # "none"
    BY <2>3 DEF PayInv, Traces
  <2>5. rec[r].status # "failed"
    BY <2>1, <2>2, <2>3 DEF PayInv, FailedIsOver
  <2>6. rec[r].status \in Statuses
    BY <2>1, Typed DEF PayInv, Record
  <2> QED BY <2>1, <2>4, <2>5, <2>6 DEF Statuses
<1>2. \A r, s \in P : r = s
  BY <1>1 DEF PayInv, OneLive
<1> HIDE DEF P
<1>3. CASE P = {}
  BY <1>3, FS_EmptySet DEF P
<1>4. CASE P # {}
  <2>1. PICK r \in P : P = {r}
    BY <1>2, <1>4
  <2> QED BY <2>1, FS_Singleton DEF P
<1> QED BY <1>3, <1>4

(* Of two payments of one payload one is by a row the route itself had     *)
(* doubts about: given up after its window, or broadcast again while its   *)
(* signer was at work or after it had failed.  Holds across crashes, lost  *)
(* answers, concurrent posts and lagging nodes.                            *)
THEOREM DoublePayNeedsDoubt == Spec => []PaidTwiceOnlyInDoubt
  BY PayAlways, PayGivesDoubt, PTL

(* The nonce lock is exclusive and every row has its nonce before it is    *)
(* sent; rows, requests and chain stay in their types.                     *)
THEOREM EmissionsTypeCorrect == Spec => []EmissionsTypeOK
<1>1. PayInv => EmissionsTypeOK
  BY DEF PayInv
<1> QED BY <1>1, PayAlways, PTL
----------------------------------------------------------------------------
(* A row that becomes confirmed has a receipt of a payment.                *)
ConfirmedByReceipt ==
    \A r \in Rows : rec'[r].status = "confirmed" =>
        rec[r].status = "confirmed" \/ \E i \in Receipts(r) : chain[i].ok

LEMMA StoredConfirms ==
    ASSUME PayInv, NEW r \in Rows, NEW s, s = "confirmed" => \E i \in Receipts(r) : chain[i].ok, rec' = Stored(r, s)
    PROVE  ConfirmedByReceipt
  BY Typed DEF PayInv, Stored, ConfirmedByReceipt, Record

LEMMA RouteConfirms ==
    ASSUME PayInv, NEW q \in Requests, RouteStep(q)
    PROVE  ConfirmedByReceipt /\ chain' = chain
<1>1. chain' = chain
  BY DEF RouteStep, distribute, get_distribution, RefreshReceipt, RefreshKept, RefreshLate, RefreshGivesUp,
         RefreshNotMined, _duplicate, Send, Answered, TakeLock, GiveUpEarly, Sign, SignConflict, NoteSent,
         NoteRefused, NoteNonceTaken, NoteUnknown, nodeVars
<1> SUFFICES ConfirmedByReceipt
  BY <1>1
<1>2. CASE rec' = rec
  BY <1>2 DEF ConfirmedByReceipt
<1>3. CASE RefreshReceipt(q)
  <2>1. req[q].row \in Rows
    BY <1>3 DEF RefreshReceipt, PayInv, AtWork
  <2>2. PICK i \in Receipts(req[q].row) : rec' = Stored(req[q].row, IF chain[i].ok THEN "confirmed" ELSE "failed")
    BY <1>3 DEF RefreshReceipt
  <2> QED BY <2>1, <2>2, StoredConfirms
<1>4. CASE RefreshGivesUp(q) \/ NoteRefused(q)
  <2>1. req[q].row \in Rows /\ rec' = Stored(req[q].row, "failed")
    BY <1>4 DEF RefreshGivesUp, NoteRefused, PayInv, AtWork
  <2> QED BY <2>1, StoredConfirms
<1>5. ASSUME NEW kind \in Kinds, _duplicate(q, kind), rec' # rec PROVE ConfirmedByReceipt
  <2>1. req[q].row \in Rows /\ rec' = Stored(req[q].row, "sent")
    BY <1>5 DEF _duplicate, PayInv, AtWork
  <2> QED BY <2>1, StoredConfirms
<1>6. CASE NoteSent(q)
  <2>1. req[q].row \in Rows /\ rec' = Stored(req[q].row, "sent")
    BY <1>6 DEF NoteSent, PayInv, AtWork
  <2> QED BY <2>1, StoredConfirms
<1>7. ASSUME NEW r \in Rows, NEW p \in PendingNonces, Sign(q, r, p) PROVE ConfirmedByReceipt
  <2>1. rec'[r].status = "sending" /\ \A x \in Rows \ {r} : rec'[x] = rec[x]
    BY <1>7, Typed DEF Sign, PayInv, NoRecord
  <2> QED BY <2>1 DEF ConfirmedByReceipt
<1>8. CASE NoteNonceTaken(q)
  <2> DEFINE r == req[q].row
             failed == Stored(r, "failed")
  <2>1. r \in Rows
    BY <1>8 DEF NoteNonceTaken, PayInv, AtWork
  <2>2. failed \in [Rows -> Record] /\ \A x \in Rows : failed[x].status = "confirmed" => rec[x].status = "confirmed"
    BY <2>1, Typed DEF PayInv, Stored, Record, LIVE, Statuses
  <2>3. CASE rec' = failed
    BY <2>2, <2>3 DEF ConfirmedByReceipt
  <2>4. ASSUME NEW x \in MinedEarlier(failed, req[q].key), rec' = [failed EXCEPT ![x].status = "confirmed"]
        PROVE  ConfirmedByReceipt
    <3>1. x \in Rows /\ \E i \in Receipts(x) : chain[i].ok
      BY DEF MinedEarlier
    <3> HIDE DEF failed
    <3>2. \A y \in Rows \ {x} : rec'[y] = failed[y]
      BY <2>2, <2>4, <3>1
    <3> QED BY <2>2, <3>1, <3>2 DEF ConfirmedByReceipt
  <2> QED BY <1>2, <1>8, <2>3, <2>4 DEF NoteNonceTaken
<1>9. CASE \/ \E k \in Keys : distribute(q, k)
           \/ \E r \in Rows : get_distribution(q, r)
           \/ RefreshKept(q) \/ RefreshLate(q) \/ RefreshNotMined(q)
           \/ \E kind \in Kinds : Send(q, kind)
           \/ TakeLock(q) \/ GiveUpEarly(q) \/ NoteUnknown(q)
           \/ \E p \in PendingNonces : SignConflict(q, p)
  <2>1. rec' = rec
    BY <1>9 DEF distribute, get_distribution, RefreshKept, RefreshLate, RefreshNotMined, Send, TakeLock,
                GiveUpEarly, NoteUnknown, SignConflict
  <2> QED BY <1>2, <2>1
<1> QED BY SMTT(60), <1>1, <1>2, <1>3, <1>4, <1>5, <1>6, <1>7, <1>8, <1>9 DEF RouteStep

LEMMA PaidStep == PayInv /\ ConfirmedHasPaid /\ [Next]_vars => ConfirmedHasPaid'
<1> SUFFICES ASSUME PayInv, ConfirmedHasPaid, [Next]_vars PROVE ConfirmedHasPaid'
  OBVIOUS
<1>1. ASSUME ConfirmedByReceipt, Len(chain') \in Nat, Len(chain) <= Len(chain'), \A i \in 1..Len(chain) : chain'[i] = chain[i]
      PROVE  ConfirmedHasPaid'
  <2> SUFFICES ASSUME NEW r \in Rows, rec'[r].status = "confirmed"
               PROVE  \E i \in 1..Len(chain') : chain'[i].rec = r /\ chain'[i].ok
    BY DEF ConfirmedHasPaid, Receipts
  <2>1. PICK i \in Receipts(r) : chain[i].ok
    BY <1>1 DEF ConfirmedByReceipt, ConfirmedHasPaid
  <2>2. i \in 1..Len(chain) /\ chain[i].rec = r
    BY DEF Receipts
  <2>3. i \in 1..Len(chain')
    BY <1>1, <2>2, Typed DEF PayInv
  <2> QED BY <1>1, <2>1, <2>2, <2>3
<1>2. Len(chain) \in Nat
  BY Typed DEF PayInv
<1>3. ASSUME NEW q \in Requests, RouteStep(q) PROVE ConfirmedHasPaid'
  BY <1>1, <1>2, <1>3, RouteConfirms
<1>4. ASSUME NEW r \in Rows, Age(r) PROVE ConfirmedHasPaid'
  <2>1. chain' = chain
    BY <1>4 DEF Age, nodeVars
  <2>2. \A x \in Rows : rec'[x].status = rec[x].status
    BY <1>4, Typed DEF Age, PayInv, Record
  <2> QED BY <1>1, <1>2, <2>1, <2>2 DEF ConfirmedByReceipt
<1>5. ASSUME NEW t \in pool, NEW ok \in BOOLEAN, Mine(t, ok) PROVE ConfirmedHasPaid'
  <2>1. [rec |-> t.rec, nonce |-> t.nonce, ok |-> ok] \in Event
    BY DEF PayInv, EmissionsTypeOK, Tx, Event
  <2>2. rec' = rec /\ chain' = Append(chain, [rec |-> t.rec, nonce |-> t.nonce, ok |-> ok])
    BY <1>5 DEF Mine
  <2>3. Len(chain') = Len(chain) + 1 /\ \A i \in 1..Len(chain) : chain'[i] = chain[i]
    BY <2>1, <2>2, Appended DEF PayInv
  <2> QED BY <1>1, <1>2, <2>2, <2>3 DEF ConfirmedByReceipt
<1>6. CASE rec' = rec /\ chain' = chain
  BY <1>1, <1>2, <1>6 DEF ConfirmedByReceipt
<1>7. (\E q \in Requests : RouteStep(q)) \/ (\E r \in Rows : Age(r)) \/ (\E t \in pool, ok \in BOOLEAN : Mine(t, ok))
      \/ (rec' = rec /\ chain' = chain)
  BY DEF Next, NodeStep, Crash, ForeignSend, Evict, CatchUp, vars, nodeVars
<1> QED BY <1>3, <1>4, <1>5, <1>6, <1>7

(* What the route answers as confirmed did pay: by a receipt, by the       *)
(* search for an earlier row of the payload, or to a later request.        *)
THEOREM ConfirmedMeansPaid == Spec => []ConfirmedHasPaid
<1>1. Init => ConfirmedHasPaid
  BY DEF Init, NoRecord, ConfirmedHasPaid
<1> QED BY <1>1, PayAlways, PaidStep, PTL DEF Spec
=============================================================================
