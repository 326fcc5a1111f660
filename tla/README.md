# OverUnder: specifications and proofs

OverUnder is a prediction market on an Ethereum layer 2: Vyper contracts hold the
money and decide who wins, a Python backend runs an order book whose fills a relayer
carries to the chain, and scheduled oracle jobs let three language-model agents research
and resolve markets. This directory holds TLA+ specifications of its core, the TLC
models that check them, and TLAPS proofs.

## The system

| Part | State it keeps | Operations | Talks to |
| --- | --- | --- | --- |
| `ConditionalTokens.vy` | outcome-token balances, approvals, payouts of each condition, one pot of USDC | prepare, split, merge, redeem, report, transfer, approve | USDC; everything below holds positions in it |
| `ConsensusOracle.vy` | close times, attestations, votes, a resolved flag per condition | register, attest, consensus, vote, fallback, arbitration | reports payouts to the ledger |
| `Exchange.vy` | filled amount, cancelled flag and nonce of signed orders | `matchOrders` (by anyone), cancel, increment nonce | moves tokens and USDC, pays fees into `FeeVault` |
| `MarketAMM.vy`, `MarketFactory.vy` | pools, LP shares, fees; markets | buy, sell, add and remove liquidity; create, pause | ledger, oracle, fee vault |
| `FeeVault.vy`, `RevenueToken.vy`, `EmissionsDistributor.vy` | fee USDC, redemption requests, OU supply | request, claim; distribute | USDC, OU token |
| Order book (`orderbook/`) | `orders` with an optimistic `filled` | `POST /orders` (store and match), `DELETE /orders` | inserts `relay_jobs` |
| Relayer (`relayer/`) | `relay_jobs`, the next nonce of one key | worker tick: reconcile jobs in flight, send pending ones | RPC nodes, `Exchange.matchOrders`, order book |
| Emissions route (`emissions/`) | `emission_distributions` | distribute, poll | the relayer's key and nonces |
| Indexer (`indexer/`) | checkpoint, markets, trades | index ranges of logs | RPC nodes |
| Markets and listing (`markets/`) | markets, listing drafts | draft, confirm, list | factory, indexer |
| Oracle jobs (`oracles/`) | research cooldowns, budget, tick lease | list, score, resolve | agents, backend, `ConsensusOracle` |
| Schedule and scores (`oracles/listing`, `oracles/scores`, `markets/router.py`) | schedule rows, links to markets, scores | scout the schedule, scout scores, list next week | agents, backend |
| Account abstraction (`OverUnderPaymaster.vy`, `aa/`) | sponsored operations | validate, forward | bundler |

What is hard here, and what it takes for a part to be right:

* **Ambiguous sends.** A broadcast may time out and still have been accepted; a node may
  lag behind the one that mined the transaction; another user of the key may take the
  nonce. The relayer must never sign a fill twice and never lose one, across crashes; the
  oracle job must attest and mirror what the chain really recorded.
* **Optimistic state.** `Order.filled` is raised at the match and lowered when a job
  fails, by the worker, by `DELETE` and by later matches, in any order. It must equal the
  fills that are settled or still under way.
* **Stale reads.** The worker checks rows, then waits for the network, then writes;
  `DELETE` reads, then commits; a listing's confirmation reads the chain, reviews, and
  then writes a row that the indexer also writes.
* **Several writers of one row, several instances of one loop.** Every API process runs the
  indexer; a lost leader goes on for a while. Checkpoints must not go back and must not
  pass what is not indexed.
* **One pot.** All conditions share the collateral of the ledger, all pools the AMM's USDC,
  all fees the vault; every division is rounded.
* **Three ways to resolve** a condition, whose records (attestations, votes) keep changing,
  and ticks that may overlap, be killed or run out of budget at any point of it.
* **Something must happen at last**: logs are indexed, markets resolved, payouts mirrored,
  a backlog of games scouted under a cap.

## Modules

| Module | Models | Kind |
| --- | --- | --- |
| `ConditionalTokens` | `ConditionalTokens.vy` | state machine, one action per external function |
| `ConsensusOracle` | `ConsensusOracle.vy` composed with the ledger (EXTENDS) | state machine |
| `ConsensusOracleProofs` | theorems about the two | proofs |
| `FeeVault` | `FeeVault.vy`, `RevenueToken.vy` over the ledger's USDC | state machine with an open environment |
| `FiniteSums` | nothing of the system: sums and folds over finite data, for the proofs | lemmas |
| `Exchange` | `Exchange.vy` | actions and properties over ledger and vault |
| `MarketAMM`, `MarketFactory` | `MarketAMM.vy`, `MarketFactory.vy` | actions and properties over ledger and vault |
| `Venue` | the composition of all contracts that hold money | state machine |
| `VenueProofs` | theorems about the vault alone, the composition and each contract in it | proofs |
| `Relayer` | matcher, order routes, queue, nonces, worker, and the nodes they talk to | state machine |
| `FillOnce` | what the path of a fill promises | abstract specification |
| `RelayerProofs` | theorems about `Relayer`, and that it implements `FillOnce` | proofs |
| `Emissions` | the emissions routes, their write-ahead rows, the shared nonce lock, the distributor's payment | state machine |
| `EmissionsProofs` | theorems about the route | proofs |
| `Catalogue` | indexer, listing routes, the operator's create and pause | state machine, with fairness |
| `CatalogueProofs` | theorems about indexer and routes | proofs |
| `Resolver` | the oracle job's resolution: tick lease, budget, cooldown, consensus, fallback, arbitration, persistence | state machine, with fairness |
| `ResolverProofs` | theorems about resolution | proofs |
| `Season` | the oracle job's score scout, schedule scout and listing stage over the API's tables | state machine |
| `SeasonProofs` | theorems about the season | proofs |
| `MC...` | constants and scopes for TLC | models |

A definition that models code has the name of the code where there is one (`castVote`,
`_fill_verdict`, `listing_confirm`); a handler that gives up control in the middle is one
action per stretch between two such points (`SendCheck`, `SendPreflight`, `SendClaim`,
`Broadcast`, `Note...` for `_send`). Operators marked `Wrong:` are faulty variants of the
definition below them; no specification uses them. They document which slip each property
would notice.

### Ledger and oracle

`OracleOf` is a constant because a condition id is the hash of its oracle and question. A
failed `assert` reverts a transaction, so asserts are guards, the checked subtractions of
`uint256` included. A condition may name any address as its oracle, and that
address may report any payout vector. `ConsensusOracle` extends the ledger with block time,
registration, attestations, consensus, votes, fallback and arbitration; signatures are
reduced to the agent they recover to. `how` is a history variable.

### The contracts that hold money

`FeeVault`, `Exchange`, `MarketAMM` and `MarketFactory` add their storage to that of the
ledger, and `Venue` runs them over one USDC and one block time. Each external function is
one action, since a transaction is atomic: `matchOrders` moves both legs and the fee,
`createMarket` prepares, registers and seeds in one step.

* A signature is membership of `Orders`, a digest the order's id. Allowances are not state: a
  call that lacks one reverts.
* The normal curve of `NormalMath.vy` is the table `G` on a grid, rounded down as the
  fixed-point code rounds, and its solver any grid point within a tolerance below the root; every
  rounding around it is the contract's. The assumptions on `G` (`CurveAssumption`) are what the
  properties use of it. The caller's slippage bounds only revert and are left out.
* In `Venue`, `ConsensusOracle` is what it reports (winner takes all, not before the close);
  on which grounds it does is the subject of `ConsensusOracle`.
* `FeeVault` alone has an environment, `Elsewhere`, which may do anything with USDC except take
  the vault's. `VaultIsolated` says that the other contracts are such an environment.

### Relayer

A row of `relay_jobs` is a record; a signed transaction is the pair of job and nonce, since
all fee-bumped copies share the nonce and at most one can be mined. The chain is the
sequence of mined transactions that matter; `seen` is the prefix that every node has. Every
read goes to some node, so it may be answered from any prefix between `seen` and the head:
`_fill_verdict(j, v)` says which verdicts that allows. A broadcast is answered by one of
`Kinds`; an unknown error hides either outcome.

Time is reduced to what safety needs. Timers that only delay may fire at any moment.
`RELAYER_RESUBMIT_AFTER_SECONDS` is taken to be longer than any node's lag: the window that
began at chain length `n` has passed when `seen >= n` (`Waited`).

`Crash` may come at every point: tables survive, the cached nonce and the worker's place do
not. `_ensure_leader` is the re-election, which drops the cached nonce. `FailAndRetire` picks
the side at fault nondeterministically, which stands for every reason of the preflight
(balance, allowance, nonce, expiry, cancellation).

`FillOnce` says: a match is opened, lands at most once, and is settled only when it has
landed or dropped only when it has not; both are final. `FillsOnce` states that `Relayer`
implements it, with a job's phase computed from its status and `landed` from the chain.

### Emissions

`rec` is the table of write-ahead rows, `req` the place of each concurrent request: which row it
works on and the status its session loaded for it (`view`), since a SQLAlchemy session writes
what it derives from the row it read, however stale. Control changes hands at every answer of a
node, at the nonce lock and at the commits, so `distribute` is the chain of actions `distribute`,
`Refresh...`, `TakeLock`, `Refresh...`, `Sign` or `SignConflict`, `Send`, `Note...`; a repeat ends
in `_duplicate`. A commit that would break the partial unique index changes nothing (`Stored`).
The nodes behave as in `Relayer`; the worker's transactions are foreign ones. The route's window
runs from signing and promises nothing about lag, so `Age` may come at any time. Lock waiters of
a real `asyncio.Lock` are served in order; here in any order. `doubted` is a history
variable: rows that `_refresh` gave up after the window, and rows whose bytes `_duplicate`
broadcast while their signer had not recorded the outcome, or after they were failed.

### Catalogue

A block is one event of factory or AMM, final once there. Every instance runs `index_once`: it
takes the leader lock, plans ranges from the checkpoint, and `RangeIndexed` writes a range with
the checkpoint in one transaction; the AMM's part or the whole fetch may fail
(`RangeAmmFailed`, `RangeLogsFailed`), the window shrinks and grows, and a leader that lost its
connection finishes what it began. `listing_prepare`, `listing_confirm` (read the chain, review,
commit), `create_market` and `pause_market` (send, wait for the receipt, write) are steps
between which the indexer and other requests run. `late` records which paused flags were last
written from a view older than what the indexer had passed, or never read because a start block
beyond the checkpoint skipped their events.

Simplified: a listing whose seed or close differs from the prepared one counts as one whose
question differs; every visible question is open; an event whose handling fails is either caught
(its texts stay unread) or aborts the session with the range, so there is no third outcome.

### Resolver

One slot of `Executions` is one execution of the job: lease, list of markets, and for each of
them in both stages check, research, judgement, then consensus, or fallback with its
attestations and decision, each send with preflight, mining, receipt and persistence. A kill,
an overlapping execution, a lease that cannot be read, a failed or slow call are failures,
bounded by `MaxFaults`; a transaction whose receipt never came may still land (`LandOrphan`).
Votes, other senders, scores and their corrections, and what the agents find belong to the world.
A tick that has only the reserve left after the first stage does not start the second one
(`_stage_starved`): no general market is researched in it, and none is mirrored.

Simplified: one clock serves wall and chain time and stops when every deadline has passed; a
cooldown is counted in scheduled ticks, and the budget in units of which the last `Reserve` are
kept from research, so the first send after research is never deferred; both stages have the
same cap; markets gated by their own event behave as `Children`; only `Others` carry a
resolve time of their own; the scores stage is `upsert_score` by the environment, and what it
leaves of the tick is the `Budget` with which the first stage starts, more than the reserve (its
default share is 0.4; a share so large that it starves the first stage in every tick stops
resolution altogether). Only research and a receipt that does not come use units of the tick.

### Season

A game is played at one of its possible kickoffs, meets again in another week under the same
question, and its score is one report that the agents agree on, perhaps of the wrong meeting.
The tick's stages run as the code orders them: scouts publish scores of at most `Cap` games and
rows of the schedule, the listing stage lists next week when this one is over and links rows to
markets; replies may be lost, kickoffs move, the contracts are redeployed (`gen`), rows archived.

Simplified: one execution per unit of time (the job's budget of 780 s is less than its 900 s
schedule); the first markets are made by hand, and those whose rows the operator left unlinked count
as dropped from the start; `updatedAt` is an age that counts up to the window; a conflict, a deferral and a
failure of create are one failure; a created market is in the tables at once (what happens in
between is `Catalogue`).

## Runs

| Run | Checks | Shows |
| --- | --- | --- |
| `oracle` | `TypeOK`, `LedgerAgrees`, `ResolutionJustified`, `OutcomeFinal` | three agents and two voting holders around the close and the window |
| `venue` | `Solvent`, `QuoteHolds`, `LimitHonoured`, `PoolsCovered`, `OnCurve`, `SkinInTheGame`, `MarketsAgree`, `NavNeverFalls`, `VaultIsolated`, `NoDilution` | all contracts over one USDC: every pot covers what is promised from it, orders and quotes are honoured, nobody who stays is diluted by one who leaves |
| `relayer` | `TypeOK`, `OneLiveNonce`, `NoSharedNonce`, `FilledExact`, `BookCovered`, `FillsOnce` | crashes, lost answers, lagging nodes, a foreign user of the key, fills of the same orders by others |
| `relayer_cancel` | `AnsweredJobsUnsigned`, `BookCovered` | `DELETE` with its row locks racing the worker, and nodes that call a nonce used which is only pooled |
| `emissions` | `PaidTwiceOnlyInDoubt`, `ConfirmedHasPaid` | two concurrent requests for one payload, polls, crashes, lost answers, lag, a foreign transaction |
| `catalogue` | `CatalogueTypeOK`, `PassedIsIndexed`, `PublicIsReviewed`, `PausedStaleOnlyIfLate`, `CheckpointForward`, `CatchesUp` | two indexer instances, failing ranges and the routes on the same rows |
| `resolver` | `MirrorAgrees`, `PaysAFinalScore`, `AttestedAsReported`, `SingleFlight`, `EveryPayoutMirrored`, `AgreementResolves` | overlapping and killed ticks, timeouts, orphaned transactions, corrected scores, other senders, a general stage that is skipped for lack of time |
| `season` | `ScoreOfThisGame`, `DuplicateOnlyIfUnlinked`, `BacklogTurns`, `WeekGate` | two meetings of the same teams and a third game, wrong scouts, lost replies, moved kickoffs |
| `cancel_race` | `CancelAnswerHolds`, violated | finding 1 |
| `emissions_paid_twice` | `PaidOnce`, violated | finding 2 |
| `paused_not_halted` | `PausedIsHalted`, violated | finding 3 |
| `newer_starved` | `NewerNotStarved`, violated | finding 4 |

### Bounds

*Oracle*: one condition (conditions share only the pot, which `venue` checks), block times
before, at and after the close and the window.

*Venue*: an operator and a lister with about ten USDC each, four conditions (a primary market, a
child, a user's listing, one of a former factory). The product of all contracts is too large, so
a state constraint (`MCScope`) explores them in sessions: listings of any two markets under any two
changed settings before they trade (`ListingScope`), trade in one pool up to and after the
close (`TradeScope`) and in two pools that share the AMM's USDC (`PairScope`), the shared ledger
under two oracles (`LedgerScope`), the order book (`BookScope`), and the vault (`VaultScope`).
Everything of the other contracts that a session's money passes through is part of
it. Payout vectors do not divide evenly, prices, fees and the curve round in every trade.

*Relayer*: a resting sell order of 2 and two buyers of 1 and 2, so that fills are partial, two
jobs compete for one order, and a re-match after a culprit is retired has something to find; the
chain holds two transactions (a job's own and a foreign one, or the same fill twice, which is the
violation), one in `relayer_cancel`, where a second attempt is allowed instead. Fills by others and
a foreign user of the key are explored apart (`MCScope`): they meet only in the order of the chain;
with two jobs the foreign transaction is the first that is mined. With `DELETE`, a second order is
withdrawn only while no job has been tried, and a nonce is called used before its transaction is
mined only while there is one job and no cancellation (`MCCancelScope`). The theorems have none
of these bounds.

*Emissions*: one payload (payloads share only the nonces, for which the foreign transaction
stands), two requests, two rows and a chain of two: enough for two payments. Requests are
interchangeable, so the run uses their symmetry.

*Catalogue*: one market of the operator and one user's listing, two instances, a window of one or
two blocks. The listing routes are explored on two blocks with one leader, three blocks, skipped
blocks and a lost leadership with the operator's market; the last two together on two blocks.

*Resolver*: a sports market, its child, two user listings and a market of another oracle, in
the lists of `MCLists`. Two markets are explored with one execution, two executions with
one market; a corrected score with one. What the agents may find is narrowed in each of these
(`MCScope`): a second execution meets agreement or one dissent, the user listing agreement on one of
the outcomes. One fault of any kind per behaviour. The list of a game and a user listing is there
for the skipped stage (`BlockedScope`): the game gets an attestation against what its corrected score
and the agents then say, and the listing is arbitrated by hand. There, without its
condition, the second half of `EveryPayoutMirrored` fails: the tick that researches the game in vain
comes back for ever, and the listing's row is never written.

*Season*: three games in three weeks, four units of time, two upsets of the environment and one
redeployment.

Where a scope stops earlier than a property reaches, the theorem is what covers the rest: the
`relayer` run has no `DELETE`, so `FilledExact` and `FillsOnce` with it rest on their theorems
alone; the `venue` run stops a user's listing at changed supply or at its resolution, so the locked
seed over sequences of deposits and withdrawals, and after the close, rests on `CreatorsStayIn`. `BacklogTurns`
speaks of a quiet period: scores frozen, one tick per step of the rotation.

Deadlock checking is off: a system with nothing posted and all jobs final has nothing to do, and
bounded chains and clocks end.

### Fairness

* `Catalogue`: weak fairness of `index_once` (every instance's loop runs for ever) and strong
  fairness of `RangeIndexed`: a failed range does not move the checkpoint and the loop
  asks for it again after a pause, so a range that keeps becoming ready is read at last unless the
  nodes fail for ever. `CatchesUp`: what is on the chain is passed in the end.
* `Resolver`: weak fairness of the schedule (Cloud Scheduler starts executions for ever), of a
  tick's own steps (a kill is a fault, and those are bounded), and of time. Under it a market
  on which the agents agree is resolved (`AgreementResolves`; unless an attestation on the chain
  blocks it or another one: finding 4) and a payout reaches the API's row
  (`EveryPayoutMirrored`), whichever step a fault hit. A game's payout always does; that of another
  market unless a game stays blocked and unresolved, for the stage that mirrors it may then be
  starved in every tick. How long a research takes is not subject to fairness: it
  may use up the tick every time.

The other modules state safety only.

Not assumed away: lagging nodes, lost transactions, foreign transactions of the key at every
nonce it can hold, crashes at every commit. Assumed: no reorganisation of the chain (the
code treats a receipt of a sealed canonical block as final), a broadcast is not repeated by
the HTTP transport, the database is serialisable at the grain of the actions, and one worker.

## Findings

1. **A `DELETE` may promise too much** (`cancel_race`). `cancel` decides whether the order's
   signature may become public from the jobs it read; a `POST` that matches the order and
   commits before the `DELETE` does adds a job that was neither seen nor locked. A worker that
   read the orders before the `DELETE` committed has passed its `cancelled` check, and its claim
   asks only for the job's status. The order ends up in broadcast calldata after the maker was
   told that no on-chain cancel is required.
2. **A retried distribution may pay twice** (`emissions_paid_twice`). `_refresh` reads the receipt
   and then, in a second call, the mined nonce. If the row's own transaction is mined in between,
   or the first node has not seen its block, the row is concluded failed ("nonce consumed by
   another tx") and the same request goes on to sign a new one. The 'failed' row is looked at again
   only after a "nonce too low" (`_mined_earlier`). `emissions` shows that this, and a rebroadcast
   racing the row's signer, are the only ways: timeouts, crashes and concurrent posts are not.
3. **A paused market may stay open in the API** (`paused_not_halted`). `listing_confirm` reads
   `markets(cid)` first and writes `market.paused` after the review; a pause that is mined and
   indexed in between is overwritten, and its block is not read again. `catalogue` shows that a
   late write of this kind is the only cause (`PausedStaleOnlyIfLate`).
4. **A newer market may be starved under the caps** (`newer_starved`). A `submitConsensus` that
   fails is not recorded as research. When an attestation left by an interrupted fallback
   contradicts what the agents agree on now, the older market is researched and refused in every
   tick, and with a cap of one a newer market is never looked at. When the older one is a game and
   its research takes the tick down to the reserve, the general stage is skipped too, so that user
   listings and wildcard children are neither resolved nor mirrored, whatever the cap
   (the condition of `EveryPayoutMirrored`).

## Proofs

Each `...Proofs` module proves its component's safety properties from the specification, for every
value of the constants: no bound of a run enters them except as a parameter (`MaxJobs`,
`MaxChain`, `MaxBlocks` are any naturals), and no state constraint does. The plan is the same in
all of them: an inductive invariant of named parts, a lemma per action (or per kind of row change
that several actions share), and a theorem that reads the property off the invariant. The
invariants were checked by TLC first, and every part of them is there because the property alone is
not inductive.

| Module | Theorem | Property |
| --- | --- | --- |
| `ConsensusOracleProofs` | `TypeCorrect`, `LedgerAgreement`, `ResolutionIsJustified`, `OutcomeIsFinal` | `TypeOK`, `LedgerAgrees`, `ResolutionJustified`, `OutcomeFinal` |
| `VenueProofs` | `VaultTypeCorrect`, `NavMonotone`, `QuoteIsKept` | `VaultTypeOK`, `NavNeverFalls`, `QuoteHolds`, of the vault in any environment |
| | `VenueInvariant`, `VenueTypeCorrect` | `VenueInv`, `VenueTypeOK` |
| | `VaultIsolation`, `NavNeverFallsHere`, `QuoteHoldsHere` | `VaultIsolated`, and through it the two above in the venue |
| | `ContractsAgree`, `CreatorsStayIn`, `LimitsAreHonoured` | `MarketsAgree`, `SkinInTheGame`, `LimitHonoured` |
| | `PoolsAreCovered`, `PotIsSolvent` | `PoolsCovered`, `Solvent` |
| | `NoDilutionHere`, `PoolsStayOnCurve` | `NoDilution`, `OnCurve` |
| `RelayerProofs` | `RelayerTypeCorrect`, `AnswersHold`, `BookAlwaysCovered` | `TypeOK`, `AnsweredJobsUnsigned`, `BookCovered` |
| | `OneNonceAtATime`, `NoncesNeverShared`, `SettledExactlyOnce`, `FillsAddUp` | `OneLiveNonce`, `NoSharedNonce`, `FillsOnce`, `FilledExact` |
| `EmissionsProofs` | `EmissionsTypeCorrect`, `DoublePayNeedsDoubt`, `ConfirmedMeansPaid` | `EmissionsTypeOK`, `PaidTwiceOnlyInDoubt`, `ConfirmedHasPaid` |
| `CatalogueProofs` | `CatalogueInvariant`, `CatalogueTypeCorrect`, `NothingSkipped` | `CatInv`, `CatalogueTypeOK`, `PassedIsIndexed` |
| | `PublicMarketsAreReviewed`, `StaleFlagsAreLate`, `CheckpointNeverBack` | `PublicIsReviewed`, `PausedStaleOnlyIfLate`, `CheckpointForward` |
| `ResolverProofs` | `ResolverInvariant`, `RowsMirrorTheChain`, `SportsPayTheScore` | `ResInv`, `MirrorAgrees`, `PaysAFinalScore` |
| | `AttestationsWereReported`, `OneTickAtATime` | `AttestedAsReported`, `SingleFlight` |
| `SeasonProofs` | `SeasonInvariant`, `ScoresOfTheirGames`, `DuplicatesOnlyIfUnlinked` | `SeasonInv`, `ScoreOfThisGame`, `DuplicateOnlyIfUnlinked` |
| | `WeekGates`, `BacklogTakesTurns` | `WeekGate`, `BacklogTurns` |

### Sums and folds (`FiniteSums`)

The properties about money are sums over holders, orders and conditions, and some operators fold
over a list. The library's induction theorems take an operator as a parameter, which the
installed provers cannot instantiate, so `FiniteSums` goes another way: the naturals are well
founded (`LeastNat`), so a family of finite sets has a smallest member (`SmallestSet`), and
induction can be stated for a set of sets (`SubsetInduction`) or of naturals (`UpTo`) instead of a
predicate. From it come that the recursive function in `MapThenSumSet` exists and does not depend on the order of the elements
(`SumIsFolded`, `SumRemove`), and what the proofs cite: a sum changes by what one element does
(`SumChanged`), is monotone, additive, bounds its terms, and is the same under a renaming.
`RecursionAlong` does the same for functions that recurse along a list.

### The contracts (`ConsensusOracleProofs`, `VenueProofs`)

*Oracle.* The invariant is the type invariant, `LedgerAgrees` and `ResolutionJustified`; that a
fallback stays justified needs that no vote is counted once the condition is resolved, which needs
the agreement of flag and record. Ledger calls that the oracle does not make leave payouts alone.

*Vault.* Integer division never gives more than the exact share (`DivisionRoundsDown`), so a claim
leaves at least the same ratio behind (`ShareIsFair`) and the rounded value of any other request
does not fall (`QuoteSurvivesClaim`). The environment `Elsewhere` takes no USDC from the
vault; `VaultIsolation` proves of all other contracts that they are such an environment, step by
step, so the vault's theorems hold in the venue.

*Venue.* `VenueInv` is typing, that a pool that exists never runs dry and one that does not has
no shares, and that only prepared conditions are resolved. What all calls that move a pool's money
have in common is stated once (`PoolMove`, `SharesMove`).

* `MarketsAgree` needs nothing but itself; `SkinInTheGame` that a creator's balance covers its lock
  (`Stakes`) and that the lock is the recorded seed (`SeedsHeld`).
* `LimitHonoured`: per fill, the proceeds of the two sides round towards the maker whose limit it
  is, over how the price is chosen and the fee is taken; summed over the fills of an order.
* `PoolsCovered` and `Solvent`: sums over pools, holders and conditions, of which a call changes one
  or two terms (`SumChanged`). Solvency: an unresolved condition owes its larger supply, a resolved
  one what its supplies claim under the payout vector, and a redemption, rounded down, takes no more
  than its part of that.
* `NoDilution`: each call's change of a pool (`Books`) against the shares it mints or burns, by
  multiplying the rounded divisions crosswise.
* `OnCurve`: the table is continued beyond its ends with the slopes 0 and 1 and between its points
  linearly (`Ext`, `Bend`). With a slope between 0 and 1 everywhere the curve is monotone and
  does not overtake what is paid in; `G[w] - G[-w] = w` makes one side's condition the other's;
  deposits and withdrawals scale both sides and round in favour of the pool. So
  a buy, whose solver stops at a grid point below the root, and a sell never leave a
  pool below its curve.

### The relayer (`RelayerProofs`)

`BaseInv` is typing, that a row in use names two orders, and that the worker is busy with a row in
use, which is in flight once it has been claimed.
`AnswerInv` adds that rows which a `DELETE` has judged harmless stay unsigned: while it holds their
locks no claim commits, afterwards none finds them pending.

`LiveInv` is the heart of nonce safety: mined nonces are consecutive, a pool holds none of them
(`ChainInv`); what may exist of a job at the nodes, by its status (`Traces`); a recorded
"nonce too low" is of a nonce that had been used (`Consumption`); no two jobs in flight share one
(`Distinct`); at a first broadcast nothing of the job is out yet (`Casting`). It yields `OneLiveNonce`,
`NoSharedNonce` and, with the steps mapped to steps of `FillOnce` or stutters, the refinement
`FillsOnce`.

`BookInv` (an order's `filled` covers its live jobs and does not exceed its amount) needs
nothing about nonces. `FilledExact` needs three more facts: a mined transaction of a job fills what
its row says (`Recorded`), rows are taken from the first on (`Packed`), and `filled` is the sum of
the fills of live and confirmed jobs (`Sums`). They compare a sum over the chain with one over the
jobs, which is `SumRenamed`.

The theorems on nonces and exactness assume `~PoolViewNonceLow`: a node that answers "nonce too
low" does so of a nonce that has been mined, in which case the worker's window starts when it
believes it does. `AnswersHold` and `BookAlwaysCovered` hold without it, and
`relayer_cancel` explores it.

### Emissions, catalogue, oracle job, season

*Emissions.* `PayInv`: transactions carry the nonce of their row and the chain takes nonces in
order (`Traces`), one live row per payload (`OneLive`, the unique index), a row that is not
doubted is unknown to every node until its signer has an answer (`Unsent`), and one that failed
without doubt never pays (`FailedIsOver`). Two payments would be of two rows of which one had failed first.

*Catalogue.* `CatInv` relates the rows to the events at or below the checkpoint. A range writes
several events in one transaction, as a fold over its blocks; the proof follows the fold and states
what it has done at each block. `PassedIsIndexed` needs that a tick has nothing unread behind it
and begins no later than right after the last passed block (`TickOK`), `PublicIsReviewed` that what
a request read from the chain cannot change under it (a market is created once, `ChainOK`),
`PausedStaleOnlyIfLate` that a flag which is not late is that of a block the indexer has not passed
(`FlagsOK`).

*Oracle job.* `ResInv` says what an execution may hold at each of its places (`JobOK`): the basis of
a decision is a final score of that market or what the agents reported, the transaction in
hand carries it, and what came of it is on the chain. Transactions whose receipts never came obey
the same rule (`OrphansOK`), so they may land at any time. `finals` and `reported` are the histories against which
`PaysAFinalScore` and `AttestedAsReported` are stated.

*Season.* `SeasonInv` says of every score and row that "done" means a game that was over, and of a
final score that it is of the market's own meeting (`ScoreOK`, `RowOK`). The second is the date
check: an agreed report of another meeting is further from the close than the tolerance
(`AgreedOfThisGame`). A row's market, linked or found by question and kickoff, is of the row's own
game (`ListedMarket`), so a week that blocks nothing was over or overdue when the stage read it
(`WeekOver`), and stays so while the stage works through its list (`Gate`), since games are over for
good. `DuplicateOnlyIfUnlinked` needs that a market of the configured oracle is linked, about
to be linked, or its link was dropped (`NoTwin`), and that a game that waits in the list of the
stage cannot be linked without the stage knowing (`Known`): its list has no duplicates, and in
between nobody else links rows. `BacklogTurns` is arithmetic: in a quiet period the backlog is
the same list in every tick, some tick within a round starts with the given market (`SomeTurn`),
and what is kept of a list that starts with a wanted market starts with it (`KeptFirst`). Sorting is
by rank: in a finite ordered set each rank from 0 on is taken once (`RanksAll`), so the list in which
every element stands at its rank exists, has no duplicates and leaves nothing out (`ListedInOrder`).

### Assumptions

Those of the modules (`ASSUME`, evaluated by TLC in every run), in particular: accounts, conditions
and orders are finite sets and amounts are naturals; the three agents of a condition differ and
block time exceeds the window at deployment; the table of the curve is monotone and symmetric, as
the normal distribution is (`CurveAssumption`); a market of a former factory has a well-formed row
(`LegacyAssumption`); order ids are finitely many numbers; no request is named like the free lock;
a market is not both a game and the child of one; the games are finitely many, and two meetings of
the same teams have no kickoffs within the date tolerance of each other, as in any schedule of the
league (`SeasonAssumption`; `None` is no score and no condition id). Added as a hypothesis of a theorem where it says
so: `~PoolViewNonceLow`.

### What is only model-checked

* Liveness (`CatchesUp`, `EveryPayoutMirrored`, `AgreementResolves`): the prover has no
  fairness reasoning.
* The violations of the findings, which are counterexamples.

## Not modelled, and the plan

Left out for good: the numerical core of the AMM (`NormalMath.vy`; the curve is a table),
EIP-712 and ABI encoding, language-model agents, their runtime and prompts, the audit script
(it only reads), sign-in, KYC, fiat ramps, user interfaces, deployment.

Not yet, with what each would need:

* two matches interleaved over one maker, and two workers at once: each multiplies the states of
  `Relayer`, which are near the limit of a run;
* worker and emissions route over one nonce manager: the floor that the worker reads before it
  takes the lock;
* the fee cap of the relayer, and with it liveness of a sent job;
* the paymaster's daily cap and the fee it takes after an operation, and the step-by-step
  migration to the second AMM and factory (`deploy_v2.py`), each a small module of its own;
* the wildcard generator, the quota of pending listings.
