------------------------------- MODULE Season -------------------------------
(***************************************************************************)
(* The part of the oracle tick that runs a season of games through the API *)
(* (oracles/job.py): the score scout publishes live scores of the listed   *)
(* games, the schedule scout publishes the weeks' games, and the listing   *)
(* stage creates next week's markets once this week is over and links each *)
(* game's schedule row to its market.  The three stages meet only in the   *)
(* API's tables (backend/app/markets/router.py): a score belongs to a      *)
(* market, a row may or may not be linked, and a kickoff may move.         *)
(*                                                                         *)
(* The resolution stages of the same tick are module Resolver; creating a  *)
(* market on chain and mirroring it is module Catalogue.  Time is counted  *)
(* in ticks: one execution of the job per unit.                            *)
(***************************************************************************)
EXTENDS Integers, FiniteSets, Sequences, Functions

CONSTANTS
    Games,          \* schedule rows' identities (season, week, home, away), as numbers
    Week,           \* Week[g]: the season's week of game g
    Question,       \* Question[g]: winner_question(home, away); meetings of two teams share it
    Kickoffs,       \* Kickoffs[g]: the times at which game g may be played
    None,           \* no link, no score
    First,          \* the games whose markets an operator created by hand
    Cap,            \* OU_SCOUT_MAX_MARKETS
    Window,         \* OU_SCOUT_STALE_SECONDS
    Recent,         \* OU_SCOUT_RECENT_SECONDS
    Grace,          \* OU_LISTING_STALE_GRACE_SECONDS
    Lead,           \* MIN_LEAD_SECONDS
    Tolerance,      \* GAME_DATE_TOLERANCE_DAYS
    MaxTime,        \* bound: time explored
    MaxUpsets,      \* bound: moved games, operator acts, lost replies and crashes
    MaxGen          \* bound: redeployments of the oracle

Abs(n) == IF n < 0 THEN -n ELSE n

(* A condition id is a function of the oracle and the question id, and the *)
(* question id of the game and its kickoff.                                *)
question_id(g, kickoff, d) == [game |-> g, close |-> kickoff, gen |-> d]

Statuses == {"scheduled", "in_progress", "final", "postponed", "cancelled"}

(* Two meetings of the same teams are never within the date tolerance.     *)
ASSUME SeasonAssumption ==
    /\ Games \subseteq Nat /\ IsFiniteSet(Games) /\ First \subseteq Games
    /\ {Cap, Window, Recent, Grace, Lead, Tolerance, MaxTime, MaxUpsets, MaxGen} \subseteq Nat
    /\ Cap > 0
    /\ \A g \in Games : Week[g] \in Int /\ Kickoffs[g] \subseteq Int
    /\ \A g \in Games : \A k \in Kickoffs[g], d \in 0..MaxGen : None # question_id(g, k, d)
    /\ \A s \in Statuses, a \in 0..Window : None # [status |-> s, age |-> a]
    /\ \A g, h \in Games : g # h /\ Question[g] = Question[h] =>
           \A k \in Kickoffs[g], l \in Kickoffs[h] : Abs(k - l) > Tolerance

VARIABLES
    now,            \* time, in ticks
    world,          \* world[g]: its real kickoff, "on" or how it was called, whether it was ever over
    gen,            \* the deployment whose oracle the job and the API are configured with
    rows,           \* nfl_schedule_games: kickoff, status and link of the games on the schedule
    markets,        \* the primaries of the API's tables: paused, resolved, their live score and its age
    tick,           \* the running execution of the job
    ran,            \* has this unit's execution been started (or lost)?
    upsets,         \* spent of MaxUpsets
    dropped         \* history: games with a market whose link never reached the schedule row

vars == <<now, world, gen, rows, markets, tick, ran, upsets, dropped>>

DONE_SCORE_STATUSES == {"final", "cancelled"}
DONE_STATUSES == {"final", "postponed", "cancelled"}
Dated == {"in_progress", "final", "cancelled"}

Idle == [stage |-> "idle"]
Upset == upsets < MaxUpsets /\ upsets' = upsets + 1

(* What the sources say of a game.                                         *)
StatusOf(g) ==
    IF world[g].called # "on" THEN world[g].called
    ELSE IF now < world[g].kickoff THEN "scheduled" ELSE "in_progress"

NewMarket == [paused |-> FALSE, resolved |-> FALSE, score |-> None]
Created(ms, c) == [d \in DOMAIN ms \cup {c} |-> IF d \in DOMAIN ms THEN ms[d] ELSE NewMarket]

(* The first markets are created by hand (scripts/list_chiefs_primary.py), *)
(* whether or not their rows are linked.                                   *)
Init ==
    /\ now = 0 /\ gen = 0 /\ upsets = 0 /\ ran = FALSE
    /\ \E k \in [Games -> UNION {Kickoffs[g] : g \in Games}] :
           /\ \A g \in Games : k[g] \in Kickoffs[g] /\ \A l \in Kickoffs[g] : k[g] <= l
           /\ world = [g \in Games |-> [kickoff |-> k[g], called |-> "on", over |-> FALSE]]
    /\ markets = [c \in {question_id(g, world[g].kickoff, 0) : g \in First} |-> NewMarket]
    /\ dropped \in SUBSET First
    /\ rows = [g \in First |->
                  [kickoff |-> world[g].kickoff, status |-> "scheduled",
                   link |-> IF g \in dropped THEN None ELSE question_id(g, world[g].kickoff, 0)]]
    /\ tick = Idle

-----------------------------------------------------------------------------
(* The world: games are played, called off, put off and moved.             *)

Played(g) ==
    /\ world[g].called = "on" /\ world[g].kickoff <= now
    /\ world' = [world EXCEPT ![g].called = "final", ![g].over = TRUE]
    /\ UNCHANGED <<now, gen, rows, markets, tick, ran, upsets, dropped>>

CalledOff(g, s) ==
    /\ world[g].called = "on" /\ (s = "postponed" => now < world[g].kickoff)
    /\ Upset
    /\ world' = [world EXCEPT ![g].called = s, ![g].over = TRUE]
    /\ UNCHANGED <<now, gen, rows, markets, tick, ran, dropped>>

Moved(g, k) ==
    /\ world[g].called = "postponed" \/ (world[g].called = "on" /\ now < world[g].kickoff)
    /\ now < k /\ k # world[g].kickoff
    /\ Upset
    /\ world' = [world EXCEPT ![g].kickoff = k, ![g].called = "on"]
    /\ UNCHANGED <<now, gen, rows, markets, tick, ran, dropped>>

(* A full redeployment: the deploy workflow waits for running executions,  *)
(* and the markets of the old oracle stay behind in the tables.            *)
Redeploy ==
    /\ gen < MaxGen /\ tick = Idle /\ Upset
    /\ gen' = gen + 1
    /\ UNCHANGED <<now, world, rows, markets, tick, ran, dropped>>

(* The tick budget is shorter than the interval of the schedule.  Of the   *)
(* time of a score (updatedAt) only its age up to Window matters.          *)
Aged(m) ==
    IF m.score = None \/ m.score.age = Window THEN m ELSE [m EXCEPT !.score.age = @ + 1]

TimePasses ==
    /\ now < MaxTime /\ tick = Idle /\ ran
    /\ now' = now + 1 /\ ran' = FALSE
    /\ markets' = [c \in DOMAIN markets |-> Aged(markets[c])]
    /\ UNCHANGED <<world, gen, rows, tick, upsets, dropped>>

(* Resolved on chain by any of the oracle's routes (module Resolver).      *)
Resolved(c) ==
    /\ c \in DOMAIN markets /\ c.gen = gen /\ c.close <= now /\ ~markets[c].resolved
    /\ Upset
    /\ markets' = [markets EXCEPT ![c].resolved = TRUE]
    /\ UNCHANGED <<now, world, gen, rows, tick, ran, dropped>>

-----------------------------------------------------------------------------
(* The API.  Paused rows are hidden from the list of cards; markets of an  *)
(* older deployment are not, until they are archived.                      *)

list_markets == {c \in DOMAIN markets : ~markets[c].paused}
get_market(c) == markets[c]

upsert_score(c, status) == markets' = [markets EXCEPT ![c].score = [status |-> status, age |-> 0]]

(* A row is matched by its game; a posted row without a link keeps the one *)
(* on file, and an explicit empty link clears it.                          *)
KeptLink(g) == IF g \in DOMAIN rows THEN rows[g].link ELSE None
upsert_schedule(posted) ==
    rows' = [h \in DOMAIN rows \cup DOMAIN posted |-> IF h \in DOMAIN posted THEN posted[h] ELSE rows[h]]

pause_market(c) ==
    /\ c \in DOMAIN markets /\ c.gen = gen /\ ~markets[c].paused
    /\ Upset
    /\ markets' = [markets EXCEPT ![c].paused = TRUE]
    /\ UNCHANGED <<now, world, gen, rows, tick, ran, dropped>>

(* Only a market the configured oracle does not know is archived, and the  *)
(* rows that point at it are unlinked.                                     *)
archive_market(c) ==
    /\ c \in DOMAIN markets /\ c.gen # gen
    /\ markets[c].paused => \E g \in DOMAIN rows : rows[g].link = c
    /\ markets' = [markets EXCEPT ![c].paused = TRUE]
    /\ rows' = [g \in DOMAIN rows |-> [rows[g] EXCEPT !.link = IF @ = c THEN None ELSE @]]
    /\ UNCHANGED <<now, world, gen, tick, ran, upsets, dropped>>

-----------------------------------------------------------------------------
(* The score scout.                                                        *)

Earlier(c, d) ==
    \/ c.close < d.close
    \/ c.close = d.close /\ (c.game < d.game \/ (c.game = d.game /\ c.gen < d.gen))

(* The elements of S in order, and what is in T of a list.                 *)
InOrder(S, Before(_, _)) ==
    [i \in 1..Cardinality(S) |-> CHOOSE x \in S : Cardinality({y \in S : Before(y, x)}) = i - 1]

Kept(list, T) ==
    LET places == InOrder({i \in DOMAIN list : list[i] \in T}, LAMBDA i, j : i < j)
    IN  [k \in DOMAIN places |-> list[places[k]]]

skip_fresh(score, clock) ==
    /\ score # None
    /\ score.status # "in_progress"
    /\ score.age + (clock - now) < Window

Wanted(c, clock) ==
    LET detail == get_market(c) IN
    /\ ~detail.resolved
    /\ detail.score # None => detail.score.status \notin DONE_SCORE_STATUSES
    /\ ~skip_fresh(detail.score, clock)

(* Wrong: the backlog always starts with its oldest game.                  *)
RotatedNever(s, clock) == s

(* The backlog is rotated by one each tick.                                *)
Rotated(s, clock) ==
    IF s = <<>> THEN s
    ELSE LET shift == clock % Len(s) IN SubSeq(s, shift + 1, Len(s)) \o SubSeq(s, 1, shift)

Eligible(clock) == {c \in list_markets : ~markets[c].resolved /\ c.close <= clock}
Backlog(clock) == {c \in Eligible(clock) : clock - c.close > Recent}

(* Recent kickoffs first, then the rotated backlog; a market whose detail  *)
(* cannot be read is passed over.                                          *)
select_targets(clock, unread) ==
    LET fresh == InOrder(Eligible(clock) \ Backlog(clock), Earlier)
        backlog == Rotated(InOrder(Backlog(clock), Earlier), clock)
        wanted == Kept(fresh \o backlog, {c \in Eligible(clock) \ unread : Wanted(c, clock)})
    IN  SubSeq(wanted, 1, IF Len(wanted) < Cap THEN Len(wanted) ELSE Cap)

(* A detail GET that fails costs an upset.                                 *)
Unread(S) == {{}} \cup {{c} : c \in S}
Read(unread) == IF unread = {} THEN UNCHANGED upsets ELSE Upset

(* Without the operator's token none of the three stages runs.             *)
auth_preflightFails ==
    /\ tick = Idle /\ ~ran /\ Upset
    /\ ran' = TRUE
    /\ UNCHANGED <<now, world, gen, rows, markets, tick, dropped>>

run_job(unread) ==
    /\ tick = Idle /\ ~ran /\ Read(unread)
    /\ ran' = TRUE
    /\ tick' = [stage |-> "scores", todo |-> select_targets(now, unread)]
    /\ UNCHANGED <<now, world, gen, rows, markets, dropped>>

(* What an agent may report: the game itself, or an earlier meeting of the *)
(* two teams that has been played.                                         *)
Reports(c) ==
    {[status |-> StatusOf(g), date |-> world[g].kickoff] :
        g \in {c.game} \cup {h \in Games : /\ Question[h] = Question[c.game]
                                           /\ Week[h] < Week[c.game]
                                           /\ world[h].called = "final"}}

(* Wrong: a report of any meeting is taken.                                *)
AnyGameDate(r, c) == TRUE

game_date_matches(date, c) == Abs(date - c.close) <= Tolerance
check_game_date(r, c) == r.status \in Dated => game_date_matches(r.date, c)

(* The reports on which three agents can agree; an agent that fails or a   *)
(* dispute leaves none.                                                    *)
ScoreCoordinator(c) == {r \in Reports(c) : check_game_date(r, c)}
publish_score(c, r) == upsert_score(c, r.status)

(* A target is scouted and published, or not (nor without budget left).    *)
Scouted ==
    /\ tick.stage = "scores" /\ tick.todo # <<>>
    /\ LET c == Head(tick.todo) IN
           \/ \E r \in ScoreCoordinator(c) : publish_score(c, r)
           \/ UNCHANGED markets
    /\ tick' = [tick EXCEPT !.todo = Tail(@)]
    /\ UNCHANGED <<now, world, gen, rows, ran, upsets, dropped>>

-----------------------------------------------------------------------------
(* The schedule scout: the games on which all three agents agree are       *)
(* posted, without a link; the rest of the schedule is left as it is.      *)

(* Wrong: a posted row without a link clears the one on file.              *)
UnlinkedRow(g) == [kickoff |-> world[g].kickoff, status |-> StatusOf(g), link |-> None]

ScoutedRow(g) == [kickoff |-> world[g].kickoff, status |-> StatusOf(g), link |-> KeptLink(g)]

agreed_games == SUBSET Games
publish_schedule(agreed) == upsert_schedule([g \in agreed |-> ScoutedRow(g)])

ScheduleScouted(agreed) ==
    /\ tick.stage = "scores" /\ tick.todo = <<>>
    /\ publish_schedule(agreed)
    /\ tick' = [stage |-> "schedule"]
    /\ UNCHANGED <<now, world, gen, markets, ran, upsets, dropped>>

-----------------------------------------------------------------------------
(* The listing stage.  It reads cards, schedule and details once, then     *)
(* goes through the games of every week whose previous week is over.       *)

(* Wrong: the question text alone, as it repeats between seasons.          *)
ListedByQuestion(g) ==
    LET cards == {c \in list_markets : Question[c.game] = Question[g]}
    IN  IF rows[g].link # None THEN rows[g].link
        ELSE IF cards = {} THEN None
        ELSE CHOOSE c \in cards : \A d \in cards : c.close <= d.close

(* The market of a row: the one it is linked to, else a card with the same *)
(* question that closes at the kickoff (the oldest, in the order of the    *)
(* table).                                                                 *)
_listed_cid(g) ==
    LET cards == {c \in list_markets : Question[c.game] = Question[g] /\ c.close = rows[g].kickoff}
    IN  IF rows[g].link # None THEN rows[g].link
        ELSE IF cards = {} THEN None
        ELSE CHOOSE c \in cards : \A d \in cards : c.gen <= d.gen

(* The linked market's live status when it has one, else the row's.        *)
_game_status(g, unread) ==
    LET c == _listed_cid(g)
    IN  IF c = None \/ c \in unread \/ get_market(c).score = None THEN rows[g].status
        ELSE get_market(c).score.status

_stale(g, status) == status \in {"scheduled", "in_progress"} /\ rows[g].kickoff + Grace < now

_blocking_games(week, unread) ==
    {g \in DOMAIN rows : /\ Week[g] = week
                         /\ _game_status(g, unread) \notin DONE_STATUSES
                         /\ ~_stale(g, _game_status(g, unread))}

NextWeekGames(unread) ==
    {g \in DOMAIN rows : /\ \E h \in DOMAIN rows : Week[h] = Week[g] - 1
                         /\ _blocking_games(Week[g] - 1, unread) = {}}

SoonerGame(g, h) ==
    \/ Week[g] < Week[h]
    \/ Week[g] = Week[h] /\ rows[g].kickoff < rows[h].kickoff
    \/ Week[g] = Week[h] /\ rows[g].kickoff = rows[h].kickoff /\ g < h

ListingReads(unread) ==
    /\ tick.stage = "schedule" /\ Read(unread)
    /\ tick' = [stage |-> "listing", post |-> "none", cid |-> None,
                todo |-> InOrder(NextWeekGames(unread), SoonerGame),
                rows |-> rows, linked |-> [g \in DOMAIN rows |-> _listed_cid(g)]]
    /\ UNCHANGED <<now, world, gen, rows, markets, ran, dropped>>

Listing(g) == tick.stage = "listing" /\ tick.post = "none" /\ tick.todo # <<>> /\ g = Head(tick.todo)
NextGame == [tick EXCEPT !.todo = Tail(@), !.post = "none", !.cid = None]

(* A link to a market of another oracle is an orphan: the game is listed   *)
(* again.                                                                  *)
check_link(c) == IF c.gen = gen THEN "ok" ELSE "orphan"
NeedsListing(g) == ~(tick.linked[g] # None /\ check_link(tick.linked[g]) = "ok")

(* Any other link is trusted; so is an orphan's when the chain cannot be   *)
(* read.                                                                   *)
TrustsLink(g) ==
    /\ Listing(g) /\ tick.linked[g] # None
    /\ IF NeedsListing(g) THEN Upset ELSE UNCHANGED upsets
    /\ tick' = NextGame
    /\ UNCHANGED <<now, world, gen, rows, markets, ran, dropped>>

Listable(g) == tick.rows[g].status = "scheduled" /\ tick.rows[g].kickoff > now + Lead

(* After a game that could not be listed, a row linked to the orphan is    *)
(* unlinked.                                                               *)
AfterFailure(g) ==
    IF tick.linked[g] # None /\ tick.rows[g].link # None
    THEN [tick EXCEPT !.post = "clear"]
    ELSE NextGame

NotListable(g) ==
    /\ Listing(g) /\ NeedsListing(g) /\ ~Listable(g)
    /\ tick' = AfterFailure(g)
    /\ UNCHANGED <<now, world, gen, rows, markets, ran, upsets, dropped>>

(* POST /markets: the question id is known or created; when the request    *)
(* fails the market may have been created all the same.                    *)
list_game(g) ==
    /\ Listing(g) /\ NeedsListing(g) /\ Listable(g)
    /\ LET c == question_id(g, tick.rows[g].kickoff, gen) IN
           \/ /\ markets' = Created(markets, c)
              /\ tick' = [tick EXCEPT !.post = "link", !.cid = c]
              /\ UNCHANGED <<upsets, dropped>>
           \/ /\ Upset
              /\ \/ markets' = Created(markets, c) /\ dropped' = dropped \cup {g}
                 \/ UNCHANGED <<markets, dropped>>
              /\ tick' = AfterFailure(g)
    /\ UNCHANGED <<now, world, gen, rows, ran>>

(* The row as the stage read it, with the new link; clear_link posts it    *)
(* without one.                                                            *)
_schedule_body(g) == [tick.rows[g] EXCEPT !.link = tick.cid]

PostRow ==
    /\ tick.stage = "listing" /\ tick.post # "none"
    /\ LET g == Head(tick.todo) IN
           \/ /\ upsert_schedule([h \in {g} |-> _schedule_body(h)])
              /\ UNCHANGED <<upsets, dropped>>
           \/ /\ Upset
              /\ dropped' = IF tick.post = "link" THEN dropped \cup {g} ELSE dropped
              /\ UNCHANGED rows
    /\ tick' = NextGame
    /\ UNCHANGED <<now, world, gen, markets, ran>>

Finished ==
    /\ tick.stage = "listing" /\ tick.post = "none" /\ tick.todo = <<>>
    /\ tick' = Idle
    /\ UNCHANGED <<now, world, gen, rows, markets, ran, upsets, dropped>>

(* The execution dies, or its budget ends it early.                        *)
Ended ==
    /\ tick # Idle /\ Upset
    /\ dropped' = dropped \cup
           IF tick.stage = "listing" /\ tick.post = "link" THEN {Head(tick.todo)} ELSE {}
    /\ tick' = Idle
    /\ UNCHANGED <<now, world, gen, rows, markets, ran>>

-----------------------------------------------------------------------------
Next ==
    \/ \E g \in Games : \/ Played(g)
                        \/ \E s \in {"postponed", "cancelled"} : CalledOff(g, s)
                        \/ \E k \in Kickoffs[g] : Moved(g, k)
                        \/ TrustsLink(g) \/ NotListable(g) \/ list_game(g)
    \/ \E c \in DOMAIN markets : Resolved(c) \/ pause_market(c) \/ archive_market(c)
    \/ \E unread \in Unread(DOMAIN markets) : run_job(unread) \/ ListingReads(unread)
    \/ \E agreed \in agreed_games : ScheduleScouted(agreed)
    \/ Redeploy \/ TimePasses \/ auth_preflightFails \/ Scouted \/ PostRow \/ Finished \/ Ended

Spec == Init /\ [][Next]_vars

-----------------------------------------------------------------------------
(* A market whose score is final is a market of a game that has been       *)
(* played, on that market's date: three agents who all picked up an        *)
(* earlier meeting of the same teams cannot settle it (check_game_date).   *)
ScoreOfThisGame ==
    \A c \in DOMAIN markets :
        markets[c].score # None /\ markets[c].score.status = "final" =>
            world[c.game].called = "final" /\ Abs(world[c.game].kickoff - c.close) <= Tolerance

(* Next week's market is created only when every game of this week that is *)
(* on the schedule has really been over at some time, or its row has been  *)
(* overdue for longer than the grace (listing/run.py, week_complete).      *)
WeekGate ==
    [][\A c \in DOMAIN markets' \ DOMAIN markets :
           \A h \in DOMAIN tick.rows :
               Week[h] = Week[c.game] - 1 => world[h].over \/ tick.rows[h].kickoff + Grace < now]_vars

(* The configured oracle has two markets of one game only when the link to *)
(* the first was lost on its way to the schedule row: otherwise a moved    *)
(* kickoff, which changes the question id, does not list the game again.   *)
DuplicateOnlyIfUnlinked ==
    \A c, d \in DOMAIN markets :
        c.gen = gen /\ d.gen = gen /\ c.game = d.game /\ c # d => c.game \in dropped

(* In a quiet period every unfinished game of the backlog is scouted       *)
(* within as many ticks as the backlog is long, whatever the cap           *)
(* (scores/job.py, select_targets: no stuck game holds the slots).         *)
BacklogTurns ==
    LET backlog == Backlog(now)
        quiet == \A c \in list_markets : markets[c].resolved \/ c \in backlog
    IN  quiet =>
            \A c \in backlog : Wanted(c, now) =>
                \E i \in 0..(Cardinality(backlog) - 1) : c \in Range(select_targets(now + i, {}))
=============================================================================
