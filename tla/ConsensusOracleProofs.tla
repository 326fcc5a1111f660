----------------------- MODULE ConsensusOracleProofs -----------------------
(***************************************************************************)
(* For every number of holders and conditions, every window and every      *)
(* schedule: the storage of the oracle and of the ledger is well typed, a  *)
(* resolution is justified by the record, and the record is final.         *)
(***************************************************************************)
EXTENDS ConsensusOracle, TLAPS

(* A redemption pays a natural number of USDC.                             *)
LEMMA PayoutIsNat ==
    ASSUME CTFTypeOK, NEW c \in Conditions, NEW o \in Outcomes, NEW n \in Nat, isResolved(c)
    PROVE  Payout(c, o, n) \in Nat
<1>1. payoutNumerators[c][o] \in Nat /\ payoutDenominator[c] \in Nat \ {0}
  BY DEF CTFTypeOK, isResolved
<1>2. ASSUME NEW p \in Nat, NEW q \in Nat, NEW d \in Nat \ {0} PROVE (p * q) \div d \in Nat
  <2>1. p * q \in Nat
    OBVIOUS
  <2> QED BY <2>1
<1> QED BY <1>1, <1>2 DEF Payout

(* Every call a holder can make keeps the ledger well typed: no balance,   *)
(* no USDC amount and not the pot goes below zero.                         *)
LEMMA HolderTypeStep == CTFTypeOK /\ HolderStep => CTFTypeOK' /\ UNCHANGED payoutVars
<1> SUFFICES ASSUME CTFTypeOK, HolderStep PROVE CTFTypeOK' /\ UNCHANGED payoutVars
  OBVIOUS
<1> USE OperatorsAssumption, AmountsAssumption
<1>1. ASSUME NEW c \in Conditions, prepareCondition(c) PROVE CTFTypeOK' /\ UNCHANGED payoutVars
  BY <1>1 DEF prepareCondition, payoutVars, CTFTypeOK
<1>2. ASSUME NEW a \in Accounts, NEW c \in Conditions, NEW n \in Amounts, splitPosition(a, c, n)
      PROVE  CTFTypeOK' /\ UNCHANGED payoutVars
  BY <1>2 DEF splitPosition, payoutVars, CTFTypeOK
<1>3. ASSUME NEW a \in Accounts, NEW c \in Conditions, NEW n \in Amounts, mergePositions(a, c, n)
      PROVE  CTFTypeOK' /\ UNCHANGED payoutVars
  BY <1>3 DEF mergePositions, payoutVars, CTFTypeOK
<1>4. ASSUME NEW a \in Accounts, NEW c \in Conditions, NEW o \in Outcomes, NEW n \in Amounts,
             redeemPositions(a, c, o, n)
      PROVE  CTFTypeOK' /\ UNCHANGED payoutVars
  <2>1. Payout(c, o, n) \in Nat
    BY <1>4, PayoutIsNat DEF redeemPositions
  <2> QED BY <1>4, <2>1 DEF redeemPositions, payoutVars, CTFTypeOK
<1>5. ASSUME NEW a \in Accounts, NEW b \in Operators, NEW approved \in BOOLEAN,
             setApprovalForAll(a, b, approved)
      PROVE  CTFTypeOK' /\ UNCHANGED payoutVars
  BY <1>5 DEF setApprovalForAll, payoutVars, CTFTypeOK
<1>6. ASSUME NEW a \in Accounts, NEW s \in Accounts, NEW r \in Accounts, NEW c \in Conditions,
             NEW o \in Outcomes, NEW n \in Amounts, safeTransferFrom(a, s, r, c, o, n)
      PROVE  CTFTypeOK' /\ UNCHANGED payoutVars
  <2> DEFINE debited == [balanceOf EXCEPT ![s][c][o] = @ - n]
  <2>1. debited \in [Accounts -> [Conditions -> [Outcomes -> Nat]]]
    BY <1>6 DEF safeTransferFrom, CTFTypeOK
  <2>2. Moved(s, r, c, o, n) \in [Accounts -> [Conditions -> [Outcomes -> Nat]]]
    <3> HIDE DEF debited
    <3>1. [debited EXCEPT ![r][c][o] = @ + n] \in [Accounts -> [Conditions -> [Outcomes -> Nat]]]
      BY <2>1
    <3> QED BY <3>1 DEF Moved, debited
  <2> QED BY <1>6, <2>2 DEF safeTransferFrom, payoutVars, CTFTypeOK
<1> QED BY <1>1, <1>2, <1>3, <1>4, <1>5, <1>6 DEF HolderStep

(* The payouts the oracle reports: one for the outcome, nothing for the    *)
(* other one.                                                              *)
LEMMA OneHot ==
    ASSUME NEW o \in Outcomes
    PROVE  /\ _payouts(o) \in [Outcomes -> Nat]
           /\ _payouts(o)[YES] + _payouts(o)[NO] = 1
           /\ (IF _payouts(o)[YES] > 0 THEN YES ELSE NO) = o
  BY DEF _payouts, Outcomes, YES, NO

(* What every route to a resolution does to the ledger and to the flag.    *)
LEMMA ResolveStep ==
    ASSUME TypeOK, NEW c \in Conditions, NEW o \in Outcomes, NEW r \in Routes, _resolve(c, o, r)
    PROVE  /\ ~resolved[c] /\ ~isResolved(c)
           /\ resolved' = [resolved EXCEPT ![c] = TRUE]
           /\ how' = [how EXCEPT ![c] = r]
           /\ payoutNumerators' = [payoutNumerators EXCEPT ![c] = _payouts(o)]
           /\ payoutDenominator' = [payoutDenominator EXCEPT ![c] = 1]
           /\ UNCHANGED tokenVars
           /\ CTFTypeOK'
<1> DEFINE p == _payouts(o)
<1>1. p \in [Outcomes -> Nat] /\ p[YES] + p[NO] = 1
  BY OneHot
<1>2. reportPayouts(OracleAddress, c, p)
  BY DEF _resolve
<1> HIDE DEF p
<1>3. /\ ~isResolved(c)
      /\ payoutNumerators' = [payoutNumerators EXCEPT ![c] = p]
      /\ payoutDenominator' = [payoutDenominator EXCEPT ![c] = 1]
      /\ UNCHANGED tokenVars
  BY <1>1, <1>2 DEF reportPayouts
<1>4. CTFTypeOK'
  BY <1>1, <1>3 DEF TypeOK, CTFTypeOK, tokenVars
<1> QED BY <1>3, <1>4 DEF _resolve, p

(* The type invariant, one step per action.                                *)
LEMMA TypeStep == TypeOK /\ [Next]_vars => TypeOK'
<1> SUFFICES ASSUME TypeOK, [Next]_vars PROVE TypeOK'
  OBVIOUS
<1>1. CASE HolderStep /\ UNCHANGED <<now, oracleVars>>
  BY <1>1, HolderTypeStep DEF TypeOK, oracleVars
<1>2. CASE Tick
  BY <1>2 DEF Tick, TypeOK, CTFTypeOK, ctfVars, oracleVars
<1>3. ASSUME NEW c \in Conditions, NEW t \in CloseTimes, registerMarket(c, t) PROVE TypeOK'
  BY <1>3, CloseTimesAssumption DEF registerMarket, TypeOK, CTFTypeOK, ctfVars
<1>4. ASSUME NEW c \in Conditions, NEW o \in Outcomes, submitConsensus(c, o) PROVE TypeOK'
  <2>1. _resolve(c, o, "consensus")
    BY <1>4 DEF submitConsensus
  <2>2. CTFTypeOK' /\ resolved' = [resolved EXCEPT ![c] = TRUE] /\ how' = [how EXCEPT ![c] = "consensus"]
    BY <2>1, ResolveStep DEF Routes
  <2> QED BY <1>4, <2>2 DEF submitConsensus, TypeOK, Attested, Routes
<1>5. ASSUME NEW c \in Conditions, NEW o \in Outcomes, resolveFallback(c, o) PROVE TypeOK'
  <2>1. _resolve(c, o, "fallback")
    BY <1>5 DEF resolveFallback
  <2>2. CTFTypeOK' /\ resolved' = [resolved EXCEPT ![c] = TRUE] /\ how' = [how EXCEPT ![c] = "fallback"]
    BY <2>1, ResolveStep DEF Routes
  <2> QED BY <1>5, <2>2 DEF resolveFallback, TypeOK, Routes
<1>6. ASSUME NEW c \in Conditions, NEW o \in Outcomes, resolveArbitrated(c, o) PROVE TypeOK'
  <2>1. _resolve(c, o, "arbitration")
    BY <1>6 DEF resolveArbitrated
  <2>2. CTFTypeOK' /\ resolved' = [resolved EXCEPT ![c] = TRUE] /\ how' = [how EXCEPT ![c] = "arbitration"]
    BY <2>1, ResolveStep DEF Routes
  <2> QED BY <1>6, <2>2 DEF resolveArbitrated, TypeOK, Routes
<1>7. ASSUME NEW c \in Conditions, NEW o \in Outcomes, NEW a \in Agents, submitAttestation(c, a, o)
      PROVE  TypeOK'
  BY <1>7 DEF submitAttestation, TypeOK, CTFTypeOK, ctfVars, Attested
<1>8. ASSUME NEW c \in Conditions, NEW o \in Outcomes, NEW a \in Accounts, castVote(a, c, o)
      PROVE  TypeOK'
  <2>1. balanceOf[a][c][YES] + balanceOf[a][c][NO] \in Nat
    BY DEF TypeOK, CTFTypeOK, Outcomes
  <2> QED BY <1>8, <2>1 DEF castVote, TypeOK, CTFTypeOK, ctfVars
<1>9. CASE UNCHANGED vars
  BY <1>9 DEF vars, ctfVars, oracleVars, TypeOK, CTFTypeOK
<1> QED BY <1>1, <1>2, <1>3, <1>4, <1>5, <1>6, <1>7, <1>8, <1>9 DEF Next

LEMMA TypeInit == Init => TypeOK
  BY InitialUSDCAssumption, TimeAssumption
     DEF Init, CTFInit, TypeOK, CTFTypeOK, NoPayout, Attested, Routes

(* The storage of the ledger and of the oracle keeps its types: no balance *)
(* and not the pot ever goes below zero (the uint256 subtractions of       *)
(* ConditionalTokens.vy all revert first).                                 *)
THEOREM TypeCorrect == Spec => []TypeOK
  BY TypeInit, TypeStep, PTL DEF Spec

(***************************************************************************)
(* The inductive invariant: ResolutionJustified speaks of the winner,      *)
(* which is read off the ledger, so it is inductive only together with     *)
(* LedgerAgrees (a flagged condition has its payouts and they are one-hot, *)
(* so no route can report again).                                          *)
(***************************************************************************)
IInv == TypeOK /\ LedgerAgrees /\ ResolutionJustified

(* LedgerAgrees and ResolutionJustified, condition by condition.           *)
AgreesAt(c) ==
    /\ resolved[c] <=> isResolved(c)
    /\ resolved[c] => payoutNumerators[c] = _payouts(Winner(c))
    /\ resolved[c] => payoutDenominator[c] = 1
    /\ resolved[c] <=> how[c] # "open"

JustifiedAt(c) ==
    /\ how[c] = "consensus" => \A a \in Agents : agentOutcome[c][a] = Winner(c)
    /\ how[c] = "fallback" => /\ _agent_majority(c, Winner(c))
                              /\ ~ArbitrationRequired(voteWeight[c], Winner(c))

(* A condition whose own record does not change keeps both.                *)
LEMMA RecordUnchanged ==
    ASSUME NEW c \in Conditions, AgreesAt(c), JustifiedAt(c),
           resolved'[c] = resolved[c], how'[c] = how[c],
           payoutNumerators'[c] = payoutNumerators[c],
           payoutDenominator'[c] = payoutDenominator[c],
           agentOutcome'[c] = agentOutcome[c] , voteWeight'[c] = voteWeight[c]
    PROVE  AgreesAt(c)' /\ JustifiedAt(c)'
  BY DEF AgreesAt, JustifiedAt, isResolved, Winner, _agent_majority, ArbitrationRequired,
         VoteOutcome, _payouts

(* The condition that a route resolves.                                    *)
LEMMA JustResolved ==
    ASSUME TypeOK, NEW c \in Conditions, NEW o \in Outcomes, NEW r \in Routes \ {"open"},
           _resolve(c, o, r)
    PROVE  AgreesAt(c)' /\ Winner(c)' = o /\ how'[c] = r
<1>1. /\ resolved'[c] = TRUE /\ how'[c] = r
      /\ payoutNumerators'[c] = _payouts(o) /\ payoutDenominator'[c] = 1
  BY ResolveStep DEF TypeOK, CTFTypeOK
<1>2. Winner(c)' = o
  BY <1>1, OneHot DEF Winner
<1> QED BY <1>1, <1>2 DEF AgreesAt, isResolved

(* The other conditions, when a route resolves c.                          *)
LEMMA OthersUnresolved ==
    ASSUME TypeOK, NEW c \in Conditions, NEW o \in Outcomes, NEW r \in Routes, _resolve(c, o, r),
           NEW d \in Conditions, d # c
    PROVE  /\ resolved'[d] = resolved[d] /\ how'[d] = how[d]
           /\ payoutNumerators'[d] = payoutNumerators[d]
           /\ payoutDenominator'[d] = payoutDenominator[d]
  BY ResolveStep DEF TypeOK, CTFTypeOK

(* One step per action: only the routes change a record of resolution, and *)
(* what they leave behind is what JustifiedAt asks for; attestations fill  *)
(* empty slots only, and votes need an unresolved condition.               *)
LEMMA JustifiedStep ==
    ASSUME TypeOK, \A c \in Conditions : AgreesAt(c) /\ JustifiedAt(c), [Next]_vars
    PROVE  \A c \in Conditions : AgreesAt(c)' /\ JustifiedAt(c)'
<1>1. CASE HolderStep /\ UNCHANGED <<now, oracleVars>>
  BY <1>1, HolderTypeStep, RecordUnchanged DEF TypeOK, oracleVars, payoutVars
<1>2. CASE Tick
  BY <1>2, RecordUnchanged DEF Tick, ctfVars, oracleVars
<1>3. ASSUME NEW c \in Conditions, NEW t \in CloseTimes, registerMarket(c, t)
      PROVE  \A d \in Conditions : AgreesAt(d)' /\ JustifiedAt(d)'
  BY <1>3, RecordUnchanged DEF registerMarket, ctfVars
<1>4. ASSUME NEW c \in Conditions, NEW o \in Outcomes, submitConsensus(c, o)
      PROVE  \A d \in Conditions : AgreesAt(d)' /\ JustifiedAt(d)'
  <2>1. _resolve(c, o, "consensus") /\ "consensus" \in Routes \ {"open"}
    BY <1>4 DEF submitConsensus, Routes
  <2>2. AgreesAt(c)' /\ Winner(c)' = o /\ how'[c] = "consensus"
    BY <2>1, JustResolved
  <2>3. JustifiedAt(c)'
    <3>1. \A a \in Agents : agentOutcome'[c][a] = o
      BY <1>4 DEF submitConsensus, TypeOK
    <3> QED BY <2>2, <3>1 DEF JustifiedAt
  <2>4. ASSUME NEW d \in Conditions, d # c PROVE AgreesAt(d)' /\ JustifiedAt(d)'
    <3>1. agentOutcome'[d] = agentOutcome[d] /\ voteWeight'[d] = voteWeight[d]
      BY <1>4, <2>4 DEF submitConsensus, TypeOK
    <3> QED BY <2>1, <2>4, <3>1, OthersUnresolved, RecordUnchanged
  <2> QED BY <2>2, <2>3, <2>4
<1>5. ASSUME NEW c \in Conditions, NEW o \in Outcomes, resolveFallback(c, o)
      PROVE  \A d \in Conditions : AgreesAt(d)' /\ JustifiedAt(d)'
  <2>1. _resolve(c, o, "fallback") /\ "fallback" \in Routes \ {"open"}
    BY <1>5 DEF resolveFallback, Routes
  <2>2. AgreesAt(c)' /\ Winner(c)' = o /\ how'[c] = "fallback"
    BY <2>1, JustResolved
  <2>3. JustifiedAt(c)'
    <3>1. _agent_majority(c, o)' /\ ~ArbitrationRequired(voteWeight'[c], o)
      BY <1>5 DEF resolveFallback, _agent_majority
    <3> QED BY <2>2, <3>1 DEF JustifiedAt
  <2>4. ASSUME NEW d \in Conditions, d # c PROVE AgreesAt(d)' /\ JustifiedAt(d)'
    <3>1. agentOutcome'[d] = agentOutcome[d] /\ voteWeight'[d] = voteWeight[d]
      BY <1>5, <2>4 DEF resolveFallback, TypeOK
    <3> QED BY <2>1, <2>4, <3>1, OthersUnresolved, RecordUnchanged
  <2> QED BY <2>2, <2>3, <2>4
<1>6. ASSUME NEW c \in Conditions, NEW o \in Outcomes, resolveArbitrated(c, o)
      PROVE  \A d \in Conditions : AgreesAt(d)' /\ JustifiedAt(d)'
  <2>1. _resolve(c, o, "arbitration") /\ "arbitration" \in Routes \ {"open"}
    BY <1>6 DEF resolveArbitrated, Routes
  <2>2. AgreesAt(c)' /\ Winner(c)' = o /\ how'[c] = "arbitration"
    BY <2>1, JustResolved
  <2>3. JustifiedAt(c)'
    BY <2>2 DEF JustifiedAt
  <2>4. ASSUME NEW d \in Conditions, d # c PROVE AgreesAt(d)' /\ JustifiedAt(d)'
    <3>1. agentOutcome'[d] = agentOutcome[d] /\ voteWeight'[d] = voteWeight[d]
      BY <1>6, <2>4 DEF resolveArbitrated, TypeOK
    <3> QED BY <2>1, <2>4, <3>1, OthersUnresolved, RecordUnchanged
  <2> QED BY <2>2, <2>3, <2>4
<1>7. ASSUME NEW c \in Conditions, NEW o \in Outcomes, NEW a \in Agents, submitAttestation(c, a, o)
      PROVE  \A d \in Conditions : AgreesAt(d)' /\ JustifiedAt(d)'
  <2> SUFFICES ASSUME NEW d \in Conditions PROVE AgreesAt(d)' /\ JustifiedAt(d)'
    OBVIOUS
  <2>1. UNCHANGED <<resolved, how, payoutNumerators, payoutDenominator, voteWeight>>
    BY <1>7 DEF submitAttestation, ctfVars
  <2>2. AgreesAt(d)' /\ Winner(d)' = Winner(d) /\ Winner(d) \in Outcomes
    BY <2>1 DEF AgreesAt, isResolved, Winner, Outcomes, _payouts
  <2>3. \A b \in Agents, x \in Outcomes : agentOutcome[d][b] = x => agentOutcome'[d][b] = x
    BY <1>7 DEF submitAttestation, TypeOK, NoOutcome, Outcomes, YES, NO
  <2>4. \A i \in Slots : agents[i] \in Agents
    BY DEF Agents
  <2>5. _agent_majority(d, Winner(d)) => _agent_majority(d, Winner(d))'
    BY <2>2, <2>3, <2>4 DEF _agent_majority
  <2> QED BY <2>1, <2>2, <2>3, <2>5 DEF JustifiedAt
<1>8. ASSUME NEW c \in Conditions, NEW o \in Outcomes, NEW a \in Accounts, castVote(a, c, o)
      PROVE  \A d \in Conditions : AgreesAt(d)' /\ JustifiedAt(d)'
  <2> SUFFICES ASSUME NEW d \in Conditions PROVE AgreesAt(d)' /\ JustifiedAt(d)'
    OBVIOUS
  <2>1. UNCHANGED <<resolved, how, payoutNumerators, payoutDenominator, agentOutcome>>
    BY <1>8 DEF castVote, ctfVars
  <2>2. CASE d = c
    <3>1. ~resolved[d] /\ how[d] = "open"
      BY <1>8, <2>2 DEF castVote, AgreesAt
    <3> QED BY <2>1, <3>1 DEF AgreesAt, JustifiedAt, isResolved, Winner, _payouts
  <2>3. CASE d # c
    <3>1. voteWeight'[d] = voteWeight[d]
      BY <1>8, <2>3 DEF castVote, TypeOK
    <3> QED BY <2>1, <3>1, RecordUnchanged
  <2> QED BY <2>2, <2>3
<1>9. CASE UNCHANGED vars
  BY <1>9, RecordUnchanged DEF vars, ctfVars, oracleVars
<1> QED BY <1>1, <1>2, <1>3, <1>4, <1>5, <1>6, <1>7, <1>8, <1>9 DEF Next

LEMMA InvariantByCondition ==
    LedgerAgrees /\ ResolutionJustified <=> \A c \in Conditions : AgreesAt(c) /\ JustifiedAt(c)
  BY DEF LedgerAgrees, ResolutionJustified, AgreesAt, JustifiedAt

LEMMA InductiveInit == Init => IInv
<1> SUFFICES ASSUME Init PROVE IInv
  OBVIOUS
<1>1. \A c \in Conditions : AgreesAt(c) /\ JustifiedAt(c)
  BY DEF Init, CTFInit, AgreesAt, JustifiedAt, isResolved
<1> QED BY <1>1, TypeInit, InvariantByCondition DEF IInv

LEMMA InductiveStep == IInv /\ [Next]_vars => IInv'
<1> SUFFICES ASSUME IInv, [Next]_vars PROVE IInv'
  OBVIOUS
<1>1. TypeOK'
  BY TypeStep DEF IInv
<1>2. \A c \in Conditions : AgreesAt(c)' /\ JustifiedAt(c)'
  BY JustifiedStep, InvariantByCondition DEF IInv
<1>3. (LedgerAgrees /\ ResolutionJustified)'
  BY <1>2 DEF LedgerAgrees, ResolutionJustified, AgreesAt, JustifiedAt
<1> QED BY <1>1, <1>3 DEF IInv

(* The oracle's flag and the ledger's payouts always agree: every condition *)
(* the oracle resolved pays exactly its winner, one for one, and every one  *)
(* it did not is still open on the ledger.                                  *)
THEOREM LedgerAgreement == Spec => []LedgerAgrees
<1>1. IInv => LedgerAgrees
  BY DEF IInv
<1> QED BY <1>1, InductiveInit, InductiveStep, PTL DEF Spec

(* Every resolution is justified by the attestations and votes on record,   *)
(* for as long as the contract lives.                                       *)
THEOREM ResolutionIsJustified == Spec => []ResolutionJustified
<1>1. IInv => ResolutionJustified
  BY DEF IInv
<1> QED BY <1>1, InductiveInit, InductiveStep, PTL DEF Spec

(* Payouts and attestations are final: no step of a holder, an agent, the   *)
(* operator or a later block changes them once they are set.                *)
THEOREM OutcomeIsFinal == Spec => OutcomeFinal
<1> DEFINE Kept == \A c \in Conditions :
              /\ isResolved(c) => payoutNumerators'[c] = payoutNumerators[c]
              /\ \A a \in Agents : agentOutcome[c][a] # NoOutcome
                                    => agentOutcome'[c][a] = agentOutcome[c][a]
<1>1. TypeOK /\ [Next]_vars => [Kept]_vars
  <2> SUFFICES ASSUME TypeOK, Next PROVE Kept
    OBVIOUS
  <2>1. CASE HolderStep /\ UNCHANGED <<now, oracleVars>>
    BY <2>1, HolderTypeStep DEF TypeOK, oracleVars, payoutVars
  <2>2. CASE Tick
    BY <2>2 DEF Tick, ctfVars, oracleVars
  <2>3. ASSUME NEW c \in Conditions, NEW t \in CloseTimes, registerMarket(c, t) PROVE Kept
    BY <2>3 DEF registerMarket, ctfVars
  <2>4. ASSUME NEW c \in Conditions, NEW o \in Outcomes, submitConsensus(c, o) PROVE Kept
    <3>1. /\ ~isResolved(c)
          /\ payoutNumerators' = [payoutNumerators EXCEPT ![c] = _payouts(o)]
      BY <2>4, ResolveStep DEF submitConsensus, Routes
    <3> QED BY <2>4, <3>1 DEF submitConsensus, TypeOK, CTFTypeOK
  <2>5. ASSUME NEW c \in Conditions, NEW o \in Outcomes, resolveFallback(c, o) PROVE Kept
    <3>1. /\ ~isResolved(c)
          /\ payoutNumerators' = [payoutNumerators EXCEPT ![c] = _payouts(o)]
      BY <2>5, ResolveStep DEF resolveFallback, Routes
    <3> QED BY <2>5, <3>1 DEF resolveFallback, TypeOK, CTFTypeOK
  <2>6. ASSUME NEW c \in Conditions, NEW o \in Outcomes, resolveArbitrated(c, o) PROVE Kept
    <3>1. /\ ~isResolved(c)
          /\ payoutNumerators' = [payoutNumerators EXCEPT ![c] = _payouts(o)]
      BY <2>6, ResolveStep DEF resolveArbitrated, Routes
    <3> QED BY <2>6, <3>1 DEF resolveArbitrated, TypeOK, CTFTypeOK
  <2>7. ASSUME NEW c \in Conditions, NEW o \in Outcomes, NEW a \in Agents, submitAttestation(c, a, o)
        PROVE  Kept
    BY <2>7 DEF submitAttestation, ctfVars, TypeOK
  <2>8. ASSUME NEW c \in Conditions, NEW o \in Outcomes, NEW a \in Accounts, castVote(a, c, o)
        PROVE  Kept
    BY <2>8 DEF castVote, ctfVars
  <2> QED BY <2>1, <2>2, <2>3, <2>4, <2>5, <2>6, <2>7, <2>8 DEF Next
<1> QED BY <1>1, TypeInit, TypeStep, PTL DEF Spec, OutcomeFinal
=============================================================================
