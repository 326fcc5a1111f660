-------------------------- MODULE ConsensusOracle --------------------------
(***************************************************************************)
(* contracts/src/ConsensusOracle.vy on top of the outcome-token ledger it  *)
(* resolves.  A market resolves                                            *)
(*   - at once, when all three agents signed the same outcome;             *)
(*   - WINDOW after the close, when two agent slots agree and the holders' *)
(*     votes do not oppose them by two thirds;                             *)
(*   - WINDOW after the close, by the operator's arbitration.              *)
(*                                                                         *)
(* EIP-712 signatures are abstracted to the agent they recover to: an      *)
(* agent may have signed any outcome, with a deadline not yet past.        *)
(* Anybody may relay them.  Block time is the variable now.                *)
(*                                                                         *)
(* The conditions here are the ones this contract resolves: payouts that   *)
(* other oracles report on the shared ledger are ConditionalTokens' own    *)
(* specification.                                                          *)
(***************************************************************************)
EXTENDS ConditionalTokens

CONSTANTS
    OracleAddress,  \* the address of this contract
    agents,         \* the three agent slots of the constructor
    WINDOW,         \* 86400 seconds in the contract
    CloseTimes,     \* close times a market may be registered with
    StartTime,      \* block time at deployment
    MaxTime         \* bound on block time

ASSUME OwnConditions == \A c \in Conditions : OracleOf[c] = OracleAddress
ASSUME WindowAssumption == WINDOW \in Nat \ {0}
ASSUME TimeAssumption == StartTime \in Nat /\ MaxTime \in Nat
ASSUME CloseTimesAssumption == CloseTimes \subseteq Nat \ {0}
ASSUME SlotsAssumption == DOMAIN agents = 1..3
(* The constructor does not compare the slots; the resolver's              *)
(* configuration check refuses duplicate agent keys.                       *)
ASSUME AgentsDistinct == \A i, j \in 1..3 : agents[i] = agents[j] => i = j
(* Block timestamps are far past the epoch.                                *)
ASSUME StartAssumption == StartTime >= WINDOW

Slots == 1..3
Agents == {agents[i] : i \in Slots}
NoOutcome == 2      \* agentSubmitted is FALSE
Attested == Outcomes \cup {NoOutcome}

VARIABLES
    now,            \* block.timestamp
    closeTime,      \* condition -> close time, 0 while unregistered
    agentOutcome,   \* condition -> agent -> its recorded outcome, or NoOutcome
    resolved,       \* condition -> has this contract resolved it
    voted,          \* condition -> the accounts that voted
    voteWeight,     \* condition -> outcome -> weight
    how             \* history: the route that resolved the condition

oracleVars == <<closeTime, agentOutcome, resolved, voted, voteWeight, how>>
vars == <<ctfVars, now, oracleVars>>

Routes == {"open", "consensus", "fallback", "arbitration"}

(* The ledger of ConditionalTokens.vy and the storage of this contract.    *)
TypeOK ==
    /\ CTFTypeOK
    /\ now \in Nat
    /\ closeTime \in [Conditions -> Nat]
    /\ agentOutcome \in [Conditions -> [Agents -> Attested]]
    /\ resolved \in [Conditions -> BOOLEAN]
    /\ voted \in [Conditions -> SUBSET Accounts]
    /\ voteWeight \in [Conditions -> [Outcomes -> Nat]]
    /\ how \in [Conditions -> Routes]

Init ==
    /\ CTFInit
    /\ now = StartTime
    /\ closeTime = [c \in Conditions |-> 0]
    /\ agentOutcome = [c \in Conditions |-> [a \in Agents |-> NoOutcome]]
    /\ resolved = [c \in Conditions |-> FALSE]
    /\ voted = [c \in Conditions |-> {}]
    /\ voteWeight = [c \in Conditions |-> NoPayout]
    /\ how = [c \in Conditions |-> "open"]
----------------------------------------------------------------------------
(* The factory or the operator registers a market, once.                   *)
registerMarket(c, t) ==
    /\ closeTime[c] = 0
    /\ closeTime' = [closeTime EXCEPT ![c] = t]
    /\ UNCHANGED <<ctfVars, now, agentOutcome, resolved, voted, voteWeight, how>>

_payouts(outcome) == [o \in Outcomes |-> IF o = outcome THEN 1 ELSE 0]

(* Wrong: the flag is never set.                                           *)
_resolveUnflagged(c, outcome, route) ==
    /\ ~resolved[c]
    /\ reportPayouts(OracleAddress, c, _payouts(outcome))
    /\ how' = [how EXCEPT ![c] = route]
    /\ UNCHANGED resolved

(* The call into the ledger reverts the whole transaction when this        *)
(* contract is not the condition's oracle or payouts were reported before. *)
_resolve(c, outcome, route) ==
    /\ ~resolved[c]
    /\ resolved' = [resolved EXCEPT ![c] = TRUE]
    /\ reportPayouts(OracleAddress, c, _payouts(outcome))
    /\ how' = [how EXCEPT ![c] = route]

(* An unregistered condition has closeTime 0, so the close never holds it  *)
(* back; nor does a resolution.                                            *)
submitAttestation(c, agent, outcome) ==
    /\ now >= closeTime[c]
    /\ agentOutcome[c][agent] = NoOutcome
    /\ agentOutcome' = [agentOutcome EXCEPT ![c][agent] = outcome]
    /\ UNCHANGED <<ctfVars, now, closeTime, resolved, voted, voteWeight, how>>

(* Wrong: an earlier attestation that conflicts is overwritten.            *)
submitConsensusOverwriting(c, outcome) ==
    /\ now >= closeTime[c]
    /\ agentOutcome' = [agentOutcome EXCEPT ![c] = [a \in Agents |-> outcome]]
    /\ _resolve(c, outcome, "consensus")
    /\ UNCHANGED <<now, closeTime, voted, voteWeight>>

(* Three distinct signers, each an agent: all of them.  A slot that has    *)
(* already attested must agree; the others are recorded now.               *)
submitConsensus(c, outcome) ==
    /\ now >= closeTime[c]
    /\ \A a \in Agents : agentOutcome[c][a] \in {NoOutcome, outcome}
    /\ agentOutcome' = [agentOutcome EXCEPT ![c] = [a \in Agents |-> outcome]]
    /\ _resolve(c, outcome, "consensus")
    /\ UNCHANGED <<now, closeTime, voted, voteWeight>>

(* Wrong: votes are still counted after the resolution.                    *)
castVoteLate(a, c, outcome) ==
    LET weight == balanceOf[a][c][YES] + balanceOf[a][c][NO]
    IN  /\ closeTime[c] > 0
        /\ now >= closeTime[c]
        /\ a \notin voted[c]
        /\ weight > 0
        /\ voted' = [voted EXCEPT ![c] = @ \cup {a}]
        /\ voteWeight' = [voteWeight EXCEPT ![c][outcome] = @ + weight]
        /\ UNCHANGED <<ctfVars, now, closeTime, agentOutcome, resolved, how>>

(* The weight is the balance at the time of the vote; it is not locked.    *)
castVote(a, c, outcome) ==
    LET weight == balanceOf[a][c][YES] + balanceOf[a][c][NO]
    IN  /\ ~resolved[c]
        /\ closeTime[c] > 0
        /\ now >= closeTime[c]
        /\ a \notin voted[c]
        /\ weight > 0
        /\ voted' = [voted EXCEPT ![c] = @ \cup {a}]
        /\ voteWeight' = [voteWeight EXCEPT ![c][outcome] = @ + weight]
        /\ UNCHANGED <<ctfVars, now, closeTime, agentOutcome, resolved, how>>

(* Two of the three slots recorded the outcome.                            *)
_agent_majority(c, outcome) ==
    \E i, j \in Slots : /\ i # j
                        /\ agentOutcome[c][agents[i]] = outcome
                        /\ agentOutcome[c][agents[j]] = outcome

(* The vote's own outcome: a tie counts as YES.                            *)
VoteOutcome(w) == IF w[NO] > w[YES] THEN NO ELSE YES

ArbitrationRequired(w, outcome) ==
    /\ w[YES] + w[NO] > 0
    /\ VoteOutcome(w) # outcome
    /\ w[1 - outcome] * 3 >= (w[YES] + w[NO]) * 2

resolveFallback(c, outcome) ==
    /\ now >= closeTime[c] + WINDOW
    /\ _agent_majority(c, outcome)
    /\ ~ArbitrationRequired(voteWeight[c], outcome)
    /\ _resolve(c, outcome, "fallback")
    /\ UNCHANGED <<now, closeTime, agentOutcome, voted, voteWeight>>

resolveArbitrated(c, outcome) ==
    /\ now >= closeTime[c] + WINDOW
    /\ _resolve(c, outcome, "arbitration")
    /\ UNCHANGED <<now, closeTime, agentOutcome, voted, voteWeight>>

(* A later block.                                                          *)
Tick ==
    /\ now < MaxTime
    /\ now' = now + 1
    /\ UNCHANGED <<ctfVars, oracleVars>>

Next ==
    \/ HolderStep /\ UNCHANGED <<now, oracleVars>>
    \/ Tick
    \/ \E c \in Conditions, t \in CloseTimes : registerMarket(c, t)
    \/ \E c \in Conditions, o \in Outcomes :
          \/ submitConsensus(c, o)
          \/ resolveFallback(c, o)
          \/ resolveArbitrated(c, o)
          \/ \E a \in Agents : submitAttestation(c, a, o)
          \/ \E a \in Accounts : castVote(a, c, o)

Spec == Init /\ [][Next]_vars
----------------------------------------------------------------------------
Winner(c) == IF payoutNumerators[c][YES] > 0 THEN YES ELSE NO

(* The oracle's own flag and the ledger's payouts say the same thing: the  *)
(* flag is set before the call into the ledger, and a resolved condition   *)
(* pays exactly one outcome, one for one.  A disagreement would lock every *)
(* position, since no route resolves a flagged condition again.            *)
LedgerAgrees ==
    \A c \in Conditions :
        /\ resolved[c] <=> isResolved(c)
        /\ resolved[c] => payoutNumerators[c] = _payouts(Winner(c))
        /\ resolved[c] => payoutDenominator[c] = 1
        /\ resolved[c] <=> how[c] # "open"

(* A resolution stays justified by what is on record: after a consensus    *)
(* all three agents stand by the winner; after a fallback two slots do and *)
(* the tally of votes does not oppose them by two thirds.  Attestations    *)
(* keep arriving after the resolution and votes stop at it, so neither may *)
(* rewrite the record.                                                     *)
ResolutionJustified ==
    \A c \in Conditions :
        /\ how[c] = "consensus" => \A a \in Agents : agentOutcome[c][a] = Winner(c)
        /\ how[c] = "fallback" => /\ _agent_majority(c, Winner(c))
                                  /\ ~ArbitrationRequired(voteWeight[c], Winner(c))

(* What was paid out on, and what an agent put on record, never changes:   *)
(* no route resolves a condition again, and a consensus that lists an      *)
(* agent that had attested before does not overwrite its attestation.      *)
OutcomeFinal ==
    [][\A c \in Conditions :
          /\ isResolved(c) => payoutNumerators'[c] = payoutNumerators[c]
          /\ \A a \in Agents : agentOutcome[c][a] # NoOutcome
                                => agentOutcome'[c][a] = agentOutcome[c][a]]_vars
=============================================================================
