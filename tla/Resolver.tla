----------------------------- MODULE Resolver ------------------------------
(***************************************************************************)
(* The oracle job's resolution of closed markets:                          *)
(*   oracles/job.py, tick_lease.py, budget.py   one tick and its limits    *)
(*   oracles/resolve/run.py, general.py         the two resolving stages   *)
(*   oracles/resolve/fallback.py, chain.py      the fallback and its sends *)
(*   oracles/resolve/cooldown.py, publish.py    what a tick leaves behind  *)
(* against the chain's ConsensusOracle and the rows of the API.            *)
(*                                                                         *)
(* Every market closes at time 1; the clock counts in steps in which the   *)
(* delays are 1 and 2, and stands still once every deadline has passed.    *)
(* A cooldown is counted in scheduled ticks.  The tick's budget is counted *)
(* in units: the last Reserve units are kept from research, one is enough  *)
(* for the receipt of one send.  A report is what an agent answers and     *)
(* whether its confidence reaches the floor; signatures, evidence hashes   *)
(* and deadlines of sends are left out.                                    *)
(***************************************************************************)
EXTENDS Integers, Sequences, FiniteSets, SequencesExt

CONSTANTS
    Executions,     \* slots for executions of the Cloud Run job
    Sports,         \* dual-gate primaries
    Children,       \* wildcard children of Game
    Others,         \* markets without a score: user listings
    Game,           \* the primary the children hang on
    Foreign,        \* markets registered on another oracle
    Paused,         \* markets the public list hides
    Lists,          \* the catalogues considered: markets, oldest close first
    Reports,        \* the answers of the three agents that are considered
    Broken,         \* the answer of a research run that raises
    Policy,         \* OU_FALLBACK_POLICY
    ResolveAfter,   \* an explicit resolveAfter of Others, 0 without one
    MaxMarkets,     \* OU_RESOLVE_MAX_MARKETS
    Budget, Reserve,            \* units of a tick, and those kept for sends
    RetryTicks, ErrorTicks,     \* the two research cooldowns
    MaxNews,        \* bound on changes of scores, of evidence and of votes, for each list
    MaxFaults       \* bound on failures, kills and overlaps

Agents == <<"alpha", "beta", "gamma">>
Names == {"alpha", "beta", "gamma"}
None == "none"
Outcomes == {"yes", "no"}
Markets == Sports \cup Children \cup Others
CloseTime == 1
WINDOW == 2
GatedDelay == 1
Delay == 2
Horizon == CloseTime + WINDOW

ASSUME ResolverConstants ==
    /\ Foreign \cup Paused \subseteq Markets /\ Game \in Sports /\ Sports \cap Children = {}
    /\ Lists \subseteq Seq(Markets)
    /\ Reports \subseteq [Names -> [outcome : {"yes", "no", "unknown"}, sure : BOOLEAN]]
    /\ Policy \in {"manual", "attest", "arbitrate"}
    /\ {MaxMarkets, Budget, Reserve, RetryTicks, ErrorTicks} \subseteq Nat \ {0}
    /\ Reserve < Budget /\ ErrorTicks <= RetryTicks
    /\ {ResolveAfter, MaxFaults} \subseteq Nat /\ MaxNews \in [Lists -> Nat]

VARIABLES
    clock,      \* block time and wall time
    cards,      \* the markets the API lists to the operator
    score,      \* live_scores: None, cancelled, or what a final score derives
    evidence,   \* external: what the agents answer if they are asked now
    slots,      \* ConsensusOracle: the attestation of each agent
    votes,      \* ConsensusOracle.voteWeight
    payout,     \* the reported outcome of each condition
    orphans,    \* external: transactions in the mempool nobody waits for
    db,         \* markets.resolved and its payouts
    cooling,    \* ticks until the newest attestation row stops a research
    job,        \* each execution: where it is and what it has read
    news, faults,
    finals,     \* history: the done statuses ever posted for a market
    reported,   \* history: the confident reports of research that ran
    byHand      \* history: markets the operator arbitrated by hand

vars == <<clock, cards, score, evidence, slots, votes, payout, orphans, db, cooling, job, news, faults, finals, reported, byHand>>
chainVars == <<slots, votes, payout, orphans>>
worldVars == <<clock, cards, score, evidence, news, finals, byHand>>

Scores == {None, "tie", "cancelled"} \cup Outcomes
Done == Scores \ {None}
Answered == Reports \cup {Broken}
Recordable == Outcomes \cup {None}
Tx == [kind : {"attestation", "consensus", "fallback", "arbitrated"}, market : Markets,
       agent : Names \cup {None}, outcome : Outcomes]
NoTx == [kind |-> None]
NoSlots == [a \in Names |-> None]
Idle == [at |-> "idle", older |-> {}, open |-> FALSE, stage |-> "resolve", todo |-> <<>>, rows |-> {},
         basis |-> None, report |-> Broken, slots |-> NoSlots, votes |-> None, ask |-> <<>>,
         tx |-> NoTx, mined |-> None, left |-> 0, researched |-> 0, failed |-> 0]

(* The tick's position and reading, the chain and the rows, typed.         *)
ResolverTypeOK ==
    /\ clock \in 0..Horizon /\ cards \in Lists
    /\ score \in [Markets -> Scores] /\ evidence \in [Markets -> Answered]
    /\ slots \in [Markets -> [Names -> Recordable]]
    /\ votes \in [Markets -> [Outcomes -> Nat]]
    /\ payout \in [Markets -> Recordable] /\ db \in [Markets -> Recordable]
    /\ orphans \subseteq Tx
    /\ cooling \in [Markets -> 0..RetryTicks]
    /\ \A e \in Executions :
          /\ job[e].at \in {"idle", "lease", "list", "look", "check", "research", "judge", "state",
                            "attest", "decide", "send", "receipt", "persist", "mirror"}
          /\ job[e].stage \in {"resolve", "general"}
          /\ job[e].older \subseteq Executions \ {e}
          /\ job[e].tx = NoTx \/ job[e].tx \in Tx
          /\ job[e].left \in 0..Budget /\ job[e].researched <= MaxMarkets
    /\ news \in 0..MaxNews[cards] /\ faults \in 0..MaxFaults

Init ==
    /\ clock = 0 /\ cards \in Lists
    /\ score = [m \in Markets |-> None]
    /\ evidence \in [Markets -> Answered]
    /\ \A m \in Markets \ ToSet(cards) : evidence[m] = CHOOSE r \in Reports : TRUE
    /\ slots = [m \in Markets |-> NoSlots]
    /\ votes = [m \in Markets |-> [o \in Outcomes |-> 0]]
    /\ payout = [m \in Markets |-> None] /\ orphans = {}
    /\ db = [m \in Markets |-> None] /\ cooling = [m \in Markets |-> 0]
    /\ job = [e \in Executions |-> Idle]
    /\ news = 0 /\ faults = 0
    /\ finals = [m \in Markets |-> {}] /\ reported = [m \in Markets |-> {}] /\ byHand = {}
----------------------------------------------------------------------------
(* Scores, reports and slots.                                              *)
score_outcome(s) == IF s \in Outcomes THEN s ELSE None
Count(f, o) == Cardinality({a \in Names : f[a] = o})
majority(f) == IF Count(f, "yes") >= 2 THEN "yes" ELSE IF Count(f, "no") >= 2 THEN "no" ELSE None
Answers(r) == [a \in Names |-> r[a].outcome]
Backed(r) == [a \in Names |-> IF r[a].sure THEN r[a].outcome ELSE None]
unanimous(r) == \A a, b \in Names : r[a].outcome = r[b].outcome
confident(r) == \A a \in Names : r[a].sure
Undetermined(r) == \E a \in Names : r[a].outcome = "unknown"

(* combine: two thirds of the voted weight against the agents' outcome.    *)
Total(v) == v["yes"] + v["no"]
VoteOut(v) == IF v["yes"] >= v["no"] THEN "yes" ELSE "no"
Against(o) == IF o = "yes" THEN "no" ELSE "yes"
Contested(o, v) == Total(v) > 0 /\ VoteOut(v) # o /\ v[Against(o)] * 3 >= Total(v) * 2

(* The contract's guards and effects for each transaction the job sends.   *)
Reverts(t) ==
    LET m == t.market IN
    \/ clock < CloseTime \/ m \in Foreign
    \/ t.kind = "attestation" /\ slots[m][t.agent] # None
    \/ t.kind # "attestation" /\ payout[m] # None
    \/ t.kind = "consensus" /\ \E a \in Names : slots[m][a] \notin {None, t.outcome}
    \/ t.kind \in {"fallback", "arbitrated"} /\ clock < CloseTime + WINDOW
    \/ t.kind = "fallback" /\ (majority(slots[m]) = None \/ Contested(majority(slots[m]), votes[m]))

Execute(t) ==
    LET m == t.market IN
    IF Reverts(t) THEN UNCHANGED <<slots, payout>>
    ELSE /\ slots' = CASE t.kind = "attestation" -> [slots EXCEPT ![m][t.agent] = t.outcome]
                       [] t.kind = "consensus" -> [slots EXCEPT ![m] = [a \in Names |-> t.outcome]]
                       [] OTHER -> slots
         /\ payout' = CASE t.kind = "attestation" -> payout
                        [] t.kind = "fallback" -> [payout EXCEPT ![m] = majority(slots[m])]
                        [] OTHER -> [payout EXCEPT ![m] = t.outcome]
----------------------------------------------------------------------------
(* The world: time, news, voters, and anyone who sends to the oracle.      *)
Fault == faults < MaxFaults /\ faults' = faults + 1
News == news < MaxNews[cards] /\ news' = news + 1

Elapse ==
    /\ clock < Horizon
    /\ clock' = clock + 1
    /\ UNCHANGED <<cards, score, evidence, chainVars, db, cooling, job, news, faults, finals, reported, byHand>>

upsert_score(m, s) ==
    /\ News /\ m \in ToSet(cards) /\ score[m] # s
    /\ score' = [score EXCEPT ![m] = s]
    /\ finals' = [finals EXCEPT ![m] = @ \cup ({s} \cap Done)]
    /\ UNCHANGED <<clock, cards, evidence, chainVars, db, cooling, job, faults, reported, byHand>>

Learn(m, r) ==
    /\ News /\ m \in ToSet(cards) /\ evidence[m] # r
    /\ evidence' = [evidence EXCEPT ![m] = r]
    /\ UNCHANGED <<clock, cards, score, chainVars, db, cooling, job, faults, finals, reported, byHand>>

castVote(m, o) ==
    /\ News /\ m \in ToSet(cards) /\ payout[m] = None /\ clock >= CloseTime
    /\ votes' = [votes EXCEPT ![m][o] = @ + 1]
    /\ UNCHANGED <<clock, cards, score, evidence, slots, payout, orphans, db, cooling, job, faults, finals, reported, byHand>>

(* resolveFallback is permissionless; the operator may arbitrate by hand.  *)
SentByOthers(m, kind, o) ==
    LET t == [kind |-> kind, market |-> m, agent |-> None, outcome |-> o] IN
    /\ m \in ToSet(cards) /\ ~Reverts(t)
    /\ kind = "arbitrated" => News
    /\ kind # "arbitrated" => UNCHANGED news
    /\ Execute(t)
    /\ byHand' = IF kind = "arbitrated" THEN byHand \cup {m} ELSE byHand
    /\ UNCHANGED <<clock, cards, score, evidence, votes, orphans, db, cooling, job, faults, finals, reported>>

LandOrphan(t) ==
    /\ Execute(t)
    /\ orphans' = orphans \ {t}
    /\ UNCHANGED <<worldVars, votes, db, cooling, job, faults, reported>>
----------------------------------------------------------------------------
(* What the job reads of the chain, and the row that stops a research.     *)
is_resolved(m) == payout[m] # None
onchain_outcome(m) == payout[m]
fallback_state(m) == [resolved |-> is_resolved(m), open |-> clock >= CloseTime + WINDOW, slots |-> slots[m], votes |-> votes[m]]
attest(m, ticks) == cooling' = [cooling EXCEPT ![m] = ticks]
retry_at(m) == cooling[m]
----------------------------------------------------------------------------
(* The life of an execution.                                               *)
Live(e) == job[e].at # "idle"
Step(e, at) == job' = [job EXCEPT ![e].at = at]
Completed(e) == [f \in Executions |-> IF f = e THEN Idle ELSE [job[f] EXCEPT !.older = @ \ {e}]]
jobOnly == <<worldVars, chainVars, db, cooling, faults, reported>>

(* The schedule starts an execution when none is left, and a cooldown runs *)
(* down by one; a manual start or a retry may overlap one, even at the     *)
(* same instant (then neither is the older).                               *)
Scheduled(e) ==
    /\ \A f \in Executions : ~Live(f)
    /\ job' = [job EXCEPT ![e] = [Idle EXCEPT !.at = "lease", !.left = Budget]]
    /\ cooling' = [m \in Markets |-> IF cooling[m] > 0 THEN cooling[m] - 1 ELSE 0]
    /\ UNCHANGED <<worldVars, chainVars, db, faults, reported>>

Overlapping(e) ==
    /\ ~Live(e) /\ Fault
    /\ \E older \in SUBSET {f \in Executions : Live(f)} :
          job' = [job EXCEPT ![e] = [Idle EXCEPT !.at = "lease", !.left = Budget, !.older = older]]
    /\ \E f \in Executions : Live(f)
    /\ UNCHANGED <<worldVars, chainVars, db, cooling, reported>>

(* Wrong: an older execution that is still starting is not counted.        *)
LeaseIgnoresStarting(e) ==
    /\ job[e].at = "lease"
    /\ job' = IF \A f \in job[e].older : job[f].at = "lease" THEN [job EXCEPT ![e].at = "list"] ELSE Completed(e)
    /\ UNCHANGED jobOnly

(* older holds the live executions created before this one.                *)
cloud_run_lease(e) ==
    /\ job[e].at = "lease"
    /\ job' = IF job[e].older = {} THEN [job EXCEPT ![e].at = "list"] ELSE Completed(e)
    /\ UNCHANGED jobOnly

LeaseFailsOpen(e) ==
    /\ job[e].at = "lease" /\ Fault
    /\ job' = [job EXCEPT ![e].at = "list", ![e].open = TRUE]
    /\ UNCHANGED <<worldVars, chainVars, db, cooling, reported>>

(* The task timeout or a lost container; what was sent stays in the pool.  *)
Killed(e) ==
    /\ Live(e) /\ Fault
    /\ orphans' = IF job[e].at = "receipt" /\ job[e].mined = None THEN orphans \cup {job[e].tx} ELSE orphans
    /\ job' = Completed(e)
    /\ UNCHANGED <<worldVars, slots, votes, payout, db, cooling, reported>>
----------------------------------------------------------------------------
(* A stage reads the catalogue and walks over its candidates.              *)
(* The elements of a list that are in a set, in their order.               *)
Kept(list, set) ==
    LET kept[i \in 0..Len(list)] ==
            IF i = 0 THEN <<>>
            ELSE IF list[i] \in set THEN Append(kept[i - 1], list[i]) ELSE kept[i - 1]
    IN  kept[Len(list)]

is_dual_gate_primary(m) == m \in Sports
dual_gate_primaries(list) == Kept(list, {m \in Markets : is_dual_gate_primary(m)})
candidates(list) == Kept(list, {m \in Markets : ~is_dual_gate_primary(m)})
Fresh(j) == [j EXCEPT !.basis = None, !.report = Broken, !.slots = NoSlots, !.votes = None, !.ask = <<>>, !.tx = NoTx, !.mined = None]

(* The start of a stage: its candidates, and its own counts under the cap. *)
resolve_run(j, list) == [j EXCEPT !.at = "look", !.todo = dual_gate_primaries(list), !.researched = 0, !.failed = 0]
general_run(j, list) ==
    [j EXCEPT !.at = "look", !.todo = candidates(list), !.rows = {m \in Markets : db[m] # None},
              !.researched = 0, !.failed = 0]

market_cards(e, hidden) ==
    /\ job[e].at = "list"
    /\ IF hidden = {} THEN UNCHANGED faults ELSE Fault
    /\ LET list == Kept(cards, Markets \ hidden)
       IN  job' = [job EXCEPT ![e] = IF @.stage = "resolve" THEN resolve_run(@, list) ELSE general_run(@, list)]
    /\ UNCHANGED <<worldVars, chainVars, db, cooling, reported>>

(* Only the reserve is left of the tick, or nothing.                       *)
_stage_starved(e) == job[e].left <= Reserve

(* The next market of the stage, the next stage, or the end of the tick: a *)
(* starved stage is skipped as a whole, its list is not even read.         *)
Look(e) ==
    LET j == job[e] IN
    /\ j.at = "look"
    /\ job' = IF j.todo # <<>> THEN
                  LET m == Head(j.todo)
                      fresh == [Fresh(j) EXCEPT !.at = "check"]
                  IN  [job EXCEPT ![e] = IF m \in Sports
                           THEN [fresh EXCEPT !.basis = score[m], !.rows = {n \in Markets : db[n] # None}]
                           ELSE fresh]
              ELSE IF j.stage = "resolve" /\ ~_stage_starved(e)
              THEN [job EXCEPT ![e] = [Fresh(j) EXCEPT !.at = "list", !.stage = "general"]]
              ELSE Completed(e)
    /\ UNCHANGED jobOnly

Walk(e) == [job[e] EXCEPT !.at = "look", !.todo = Tail(@)]
NextMarket(e) == job' = [job EXCEPT ![e] = Walk(e)]

(* The row of a market that is resolved on the chain gets the payout.      *)
mirror_chain_resolved(e, db_resolved) ==
    IF db_resolved THEN Walk(e)
    ELSE [Fresh(job[e]) EXCEPT !.at = "mirror", !.basis = onchain_outcome(Head(job[e].todo))]

resolved_concurrently(e) == mirror_chain_resolved(e, FALSE)

(* One stage that raises, as when the configuration cannot be read.        *)
StageFails(e) ==
    /\ job[e].at = "list" /\ Fault
    /\ job' = [job EXCEPT ![e].at = "look", ![e].todo = <<>>]
    /\ UNCHANGED <<worldVars, chainVars, db, cooling, reported>>
----------------------------------------------------------------------------
(* Whether a market may be researched now.                                 *)
EventOver(m) == score[Game] \in Done \/ is_resolved(Game)
_resolve_after(m) == IF m \in Others THEN ResolveAfter ELSE 0
ResolveAt(m) ==
    IF _resolve_after(m) # 0 THEN Max({CloseTime, _resolve_after(m)})
    ELSE CloseTime + (IF m \in Children THEN GatedDelay ELSE Delay)

Ready(e, m) ==
    /\ m \notin Foreign
    /\ IF m \in Sports THEN clock >= CloseTime /\ score_outcome(job[e].basis) # None
       ELSE clock >= ResolveAt(m) /\ (m \in Children => EventOver(m))

(* What a stage may use of the tick, and whether research may start in it. *)
stage(left) == left - Reserve
can_start(e) == stage(job[e].left) > 0

Affordable(e) ==
    /\ can_start(e)
    /\ job[e].researched < MaxMarkets
    /\ job[e].researched + job[e].failed < 2 * MaxMarkets

(* Wrong: a market that is resolved on the chain needs nothing more.       *)
CheckSkipsResolved(e) ==
    LET m == Head(job[e].todo) IN
    /\ job[e].at = "check"
    /\ IF ~is_resolved(m) /\ Ready(e, m) /\ retry_at(m) = 0 /\ Affordable(e) THEN Step(e, "research") ELSE NextMarket(e)
    /\ UNCHANGED jobOnly

(* A payout on the chain is copied to the row; otherwise the market is     *)
(* researched or left for another tick.                                    *)
Check(e) ==
    LET m == Head(job[e].todo) IN
    /\ job[e].at = "check"
    /\ IF is_resolved(m) THEN job' = [job EXCEPT ![e] = mirror_chain_resolved(e, m \in job[e].rows)]
       ELSE IF Ready(e, m) /\ retry_at(m) = 0 /\ Affordable(e) THEN Step(e, "research")
       ELSE NextMarket(e)
    /\ UNCHANGED jobOnly

(* A failed read of the status never blocks research.                      *)
CooldownUnread(e) ==
    LET m == Head(job[e].todo) IN
    /\ job[e].at = "check" /\ ~is_resolved(m) /\ retry_at(m) > 0
    /\ Ready(e, m) /\ Affordable(e)
    /\ Fault
    /\ Step(e, "research")
    /\ UNCHANGED <<worldVars, chainVars, db, cooling, reported>>

(* A call of this market's turn raises, its record cannot be posted, or    *)
(* the configuration does not match the oracle: it is left for another     *)
(* tick.                                                                   *)
MarketFails(e) ==
    /\ job[e].at \in {"check", "judge", "state", "decide"} /\ Fault
    /\ NextMarket(e)
    /\ UNCHANGED <<worldVars, chainVars, db, cooling, reported>>

(* Three agent runs.  They take a unit or all that research may use.       *)
Research(e) ==
    LET m == Head(job[e].todo)
        r == evidence[m]
    IN  /\ job[e].at = "research" /\ r # Broken
        /\ \E left \in {Reserve, job[e].left - 1} :
              job' = [job EXCEPT ![e].at = "judge", ![e].report = r, ![e].left = left, ![e].researched = @ + 1]
        /\ reported' = [reported EXCEPT ![m] = @ \cup {<<a, r[a].outcome>> : a \in {b \in Names : r[b].sure \/ m \in Sports}}]
        /\ UNCHANGED <<worldVars, chainVars, db, cooling, faults>>

(* Research that raises is recorded by a marker row, unless the watchdog   *)
(* of the budget cut it off.                                               *)
research_failed(m) == attest(m, ErrorTicks)

ResearchRaises(e) ==
    LET m == Head(job[e].todo) IN
    /\ job[e].at = "research" /\ evidence[m] = Broken
    /\ job' = [job EXCEPT ![e] = [Walk(e) EXCEPT !.failed = @ + 1, !.left = @ - 1]]
    /\ research_failed(m)
    /\ UNCHANGED <<worldVars, chainVars, db, faults, reported>>

ResearchCut(e) ==
    /\ job[e].at = "research" /\ Fault
    /\ job' = [job EXCEPT ![e] = [Walk(e) EXCEPT !.left = Reserve]]
    /\ UNCHANGED <<worldVars, chainVars, db, cooling, reported>>
----------------------------------------------------------------------------
(* What the research leads to.                                             *)
(* Wrong: research that resolved nothing leaves no record.                 *)
Unrecorded(e) == NextMarket(e) /\ UNCHANGED cooling

Recorded(e) ==
    /\ attest(Head(job[e].todo), RetryTicks)
    /\ NextMarket(e)

(* What is sent; the signatures are left out.                              *)
sign_unanimous(m, o) == [kind |-> "consensus", market |-> m, agent |-> None, outcome |-> o]
sign_one(m, a, o) == [kind |-> "attestation", market |-> m, agent |-> a, outcome |-> o]
resolve_fallback(m, o) == [kind |-> "fallback", market |-> m, agent |-> None, outcome |-> o]
resolve_arbitrated(m, o) == [kind |-> "arbitrated", market |-> m, agent |-> None, outcome |-> o]

Sending(e, t) == job' = [job EXCEPT ![e].at = "send", ![e].basis = t.outcome, ![e].tx = t]

(* Wrong: the agents' agreement is not compared with the final score.      *)
AgentsAlone(e) ==
    LET r == job[e].report IN
    IF unanimous(r) /\ r["alpha"].outcome \in Outcomes THEN r["alpha"].outcome ELSE None

(* The outcome that three agents agree on, if consensus may be sent.       *)
ConsensusOutcome(e) ==
    LET r == job[e].report
        o == r["alpha"].outcome
    IN  IF ~unanimous(r) THEN None
        ELSE IF Head(job[e].todo) \in Sports THEN IF o = job[e].basis THEN o ELSE None
        ELSE IF confident(r) /\ o \in Outcomes THEN o ELSE None

(* The outcome that the fallback would attest.                             *)
FallbackBasis(e) == IF Head(job[e].todo) \in Sports THEN job[e].basis ELSE majority(Backed(job[e].report))

FallbackOpen(e) == Policy # "manual" /\ fallback_state(Head(job[e].todo)).open /\ FallbackBasis(e) # None

(* `blind`: the read of resolved failed, which counts as not resolved.     *)
Judge(e, blind) ==
    LET m == Head(job[e].todo) IN
    /\ job[e].at = "judge"
    /\ IF blind THEN is_resolved(m) /\ Fault ELSE UNCHANGED faults
    /\ IF is_resolved(m) /\ ~blind
       THEN job' = [job EXCEPT ![e] = resolved_concurrently(e)] /\ UNCHANGED cooling
       ELSE IF m \notin Sports /\ Undetermined(job[e].report) THEN Recorded(e)
       ELSE IF ConsensusOutcome(e) # None
       THEN Sending(e, sign_unanimous(m, ConsensusOutcome(e))) /\ UNCHANGED cooling
       ELSE IF ~FallbackOpen(e) THEN Recorded(e)
       ELSE job' = [job EXCEPT ![e].at = "state", ![e].basis = FallbackBasis(e)] /\ UNCHANGED cooling
    /\ UNCHANGED <<worldVars, chainVars, db, reported>>

(* Wrong: only the number of attestations is looked at.                    *)
NeverConflicts(f, o) == FALSE

(* The chain's agents have decided against the outcome to be attested.     *)
Conflicts(f, o) == majority(f) \notin {None, o}

(* Wrong: every agent attests the outcome of the majority.                 *)
MatchingAll(e) == Agents

(* Agents that may attest: those whose report is the outcome (and, in the  *)
(* general stage, is confident).                                           *)
Matching(e) ==
    LET j == job[e]
        matches(a) == /\ j.report[a].outcome = j.basis
                      /\ Head(j.todo) \in Sports \/ j.report[a].sure
    IN  Kept(Agents, {a \in Names : matches(a)})

(* The slots and votes that are read here are what the rest of the run     *)
(* uses.                                                                   *)
run_fallback(e) ==
    LET m == Head(job[e].todo)
        st == fallback_state(m)
    IN  /\ job[e].at = "state"
        /\ IF st.resolved THEN job' = [job EXCEPT ![e] = resolved_concurrently(e)] /\ UNCHANGED cooling
           ELSE IF ~st.open \/ Conflicts(st.slots, job[e].basis) THEN Recorded(e)
           ELSE /\ job' = [job EXCEPT ![e].at = "attest", ![e].slots = st.slots, ![e].votes = st.votes, ![e].ask = Matching(e)]
                /\ UNCHANGED cooling
        /\ UNCHANGED <<worldVars, chainVars, db, faults, reported>>

Attest(e) ==
    LET j == job[e] IN
    /\ j.at = "attest"
    /\ IF j.ask = <<>> THEN Step(e, "decide")
       ELSE IF j.slots[Head(j.ask)] # None THEN job' = [job EXCEPT ![e].ask = Tail(@)]
       ELSE Sending(e, sign_one(Head(j.todo), Head(j.ask), j.basis))
    /\ UNCHANGED jobOnly

Decide(e) ==
    LET j == job[e]
        m == Head(j.todo)
        out == majority(j.slots)
        local == out = None \/ Contested(out, j.votes)
        \* a preflight that reverts because the market is resolved gives another reason
        arbitrable == local \/ ~is_resolved(m)
    IN  /\ j.at = "decide"
        /\ IF Conflicts(j.slots, j.basis) THEN Recorded(e)
           ELSE IF ~local /\ ~Reverts(resolve_fallback(m, j.basis)) THEN Sending(e, resolve_fallback(m, j.basis)) /\ UNCHANGED cooling
           ELSE IF m \in Sports /\ Policy = "arbitrate" /\ arbitrable
           THEN Sending(e, resolve_arbitrated(m, j.basis)) /\ UNCHANGED cooling
           ELSE Recorded(e)
        /\ UNCHANGED <<worldVars, chainVars, db, faults, reported>>
----------------------------------------------------------------------------
(* _send: deferred without budget, refused by the preflight, or broadcast. *)
AfterAttest(e, outcome) ==
    [job[e] EXCEPT !.at = "attest", !.ask = Tail(@), !.slots[job[e].tx.agent] = outcome, !.tx = NoTx, !.mined = None]

(* A send that raised: another sender may have resolved the market, or     *)
(* landed this attestation (only its preflight names that reason).         *)
SendRaised(e, dup) ==
    LET t == job[e].tx
        m == t.market
    IN  IF t.kind = "attestation"
        THEN IF dup THEN AfterAttest(e, slots[m][t.agent]) ELSE Walk(e)
        ELSE IF is_resolved(m) THEN resolved_concurrently(e)
        ELSE Walk(e)

(* Whether the rest of the tick covers the wait for a receipt.             *)
receipt_timeout(e) == job[e].left > 0
deferred_send(e) == Walk(e)

Send(e) ==
    LET t == job[e].tx IN
    /\ job[e].at = "send"
    /\ job' = [job EXCEPT ![e] =
           IF ~receipt_timeout(e) THEN deferred_send(e)
           ELSE IF Reverts(t) THEN SendRaised(e, t.kind = "attestation" /\ slots[t.market][t.agent] # None)
           ELSE [@ EXCEPT !.at = "receipt"]]
    /\ UNCHANGED jobOnly

Mined(e) ==
    /\ job[e].at = "receipt" /\ job[e].mined = None
    /\ job' = [job EXCEPT ![e].mined = IF Reverts(job[e].tx) THEN "failed" ELSE "ok"]
    /\ Execute(job[e].tx)
    /\ UNCHANGED <<worldVars, votes, orphans, db, cooling, faults, reported>>

Receipt(e) ==
    /\ job[e].at = "receipt" /\ job[e].mined # None
    /\ job' = [job EXCEPT ![e] =
           IF job[e].mined = "failed" THEN SendRaised(e, FALSE)
           ELSE IF job[e].tx.kind = "attestation" THEN AfterAttest(e, job[e].tx.outcome)
           ELSE [@ EXCEPT !.at = "persist"]]
    /\ UNCHANGED jobOnly

(* No canonical receipt in time: the send raised, whatever becomes of the  *)
(* transaction.  The wait used what the tick had left.                     *)
ReceiptTimeout(e) ==
    /\ job[e].at = "receipt" /\ Fault
    /\ orphans' = IF job[e].mined = None THEN orphans \cup {job[e].tx} ELSE orphans
    /\ job' = [job EXCEPT ![e] = [SendRaised(e, FALSE) EXCEPT !.left = 0]]
    /\ UNCHANGED <<worldVars, slots, votes, payout, db, cooling, reported>>
----------------------------------------------------------------------------
(* persist_resolution: the attestations, then the row; both may fail.      *)
persist_resolution(e) ==
    LET m == Head(job[e].todo) IN
    /\ job[e].at = "persist"
    /\ attest(m, RetryTicks)
    /\ Step(e, "mirror")
    /\ UNCHANGED <<worldVars, chainVars, db, faults, reported>>

mark_resolved(e) ==
    /\ job[e].at = "mirror"
    /\ db' = [db EXCEPT ![Head(job[e].todo)] = job[e].basis]
    /\ NextMarket(e)
    /\ UNCHANGED <<worldVars, chainVars, cooling, faults, reported>>

PersistFails(e) ==
    /\ job[e].at \in {"persist", "mirror"} /\ Fault
    /\ NextMarket(e)
    /\ UNCHANGED <<worldVars, chainVars, db, cooling, reported>>
----------------------------------------------------------------------------
World ==
    \/ Elapse
    \/ \E m \in Sports, s \in Scores : upsert_score(m, s)
    \/ \E m \in Markets, r \in Answered : Learn(m, r)
    \/ \E m \in Markets, o \in Outcomes : castVote(m, o)
    \/ \E m \in Markets : SentByOthers(m, "fallback", "yes")
    \/ \E m \in Markets, o \in Outcomes : SentByOthers(m, "arbitrated", o)
    \/ \E t \in orphans : LandOrphan(t)

Tick(e) ==
    \/ cloud_run_lease(e) \/ market_cards(e, {}) \/ Look(e) \/ Check(e)
    \/ Research(e) \/ ResearchRaises(e) \/ Judge(e, FALSE)
    \/ run_fallback(e) \/ Attest(e) \/ Decide(e)
    \/ Send(e) \/ Mined(e) \/ Receipt(e)
    \/ persist_resolution(e) \/ mark_resolved(e)

Failure(e) ==
    \/ Overlapping(e) \/ LeaseFailsOpen(e) \/ Killed(e) \/ StageFails(e)
    \/ Paused # {} /\ market_cards(e, Paused)
    \/ CooldownUnread(e) \/ MarketFails(e) \/ ResearchCut(e) \/ Judge(e, TRUE)
    \/ ReceiptTimeout(e) \/ PersistFails(e)

Next == World \/ \E e \in Executions : Scheduled(e) \/ Tick(e) \/ Failure(e)

(* The schedule never stops, a tick runs to its end, and time passes.      *)
Spec == Init /\ [][Next]_vars
FairSpec ==
    /\ Spec
    /\ WF_vars(Elapse)
    /\ WF_vars(\E e \in Executions : Scheduled(e))
    /\ \A e \in Executions : WF_vars(Tick(e))
----------------------------------------------------------------------------
(* What the API shows as resolved is what the chain pays, although the     *)
(* tick writes the outcome it meant to send, resolveFallback pays what the *)
(* chain's agents say, and two ticks or an operator may send at once.      *)
MirrorAgrees == \A m \in Markets : db[m] # None => db[m] = payout[m]

(* A sports market that nobody arbitrated by hand pays an outcome that a   *)
(* final score has given, whatever the agents say, even if the score is    *)
(* corrected between two ticks.                                            *)
PaysAFinalScore == \A m \in Sports \ byHand : payout[m] # None => payout[m] \in finals[m]

(* An attestation on the chain is one that this agent reported, with       *)
(* confidence where there is no score, and only once the event was over.   *)
AttestedAsReported ==
    \A m \in Markets, a \in Names : slots[m][a] # None =>
        /\ <<a, slots[m][a]>> \in reported[m]
        /\ m \in Children => finals[Game] # {} \/ payout[Game] # None

(* While a tick is under way no younger one passes the lease, unless its   *)
(* check of the executions failed.                                         *)
SingleFlight ==
    \A e, f \in Executions :
        /\ job[e].at \notin {"idle", "lease"}
        /\ f \in job[e].older
        => job[e].open

(* The agents agree on m, with the score where there is one.               *)
Agreed(m) ==
    LET r == evidence[m] IN
    /\ r # Broken
    /\ unanimous(r) /\ confident(r) /\ ~Undetermined(r)
    /\ m \in Sports => score[m] = r["alpha"].outcome
    /\ m \in Children => EventOver(m)

(* An attestation on the chain is against what the agents now agree on.    *)
Blocked(m) == Agreed(m) /\ \E a \in Names : slots[m][a] \notin {None, evidence[m]["alpha"].outcome}

(* Every sports market that is resolved on the chain gets its row          *)
(* resolved, and so does every other market unless a blocked sports market *)
(* stays unresolved: that one is researched in every tick, which may leave *)
(* only the reserve, and then the stage that mirrors the others is skipped.*)
Mirrored(m) == payout[m] # None => db[m] # None
EveryPayoutMirrored ==
    /\ []<>(\A m \in ToSet(cards) \cap Sports : Mirrored(m))
    /\ <>[](\A m \in Sports : Blocked(m) => is_resolved(m)) => []<>(\A m \in ToSet(cards) : Mirrored(m))

Newest == cards[Len(cards)]

(* If the agents come to agree on the newest market for good, it is        *)
(* resolved, although older ones come first under the cap and the budget   *)
(* and may fail, stay split or wait, unless an attestation already on the  *)
(* chain blocks one of the markets.                                        *)
AgreementResolves ==
    Newest \notin Foreign /\ <>[](Agreed(Newest) /\ \A m \in Markets : ~Blocked(m)) => <>(payout[Newest] # None)

(* cooldown.py: "newer markets are not starved under the caps": a market   *)
(* on which the agents agree, and which nothing on the chain blocks, is    *)
(* resolved, whatever becomes of the older ones.                           *)
NewerNotStarved == Newest \notin Foreign /\ <>[](Agreed(Newest) /\ ~Blocked(Newest)) => <>(payout[Newest] # None)
=============================================================================
