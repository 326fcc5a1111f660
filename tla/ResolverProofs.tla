--------------------------- MODULE ResolverProofs ---------------------------
(***************************************************************************)
(* The resolution of closed markets for every catalogue, every number of   *)
(* executions and agents' answers, and every interleaving of ticks,        *)
(* failures, voters, operators and late transactions.                      *)
(***************************************************************************)
EXTENDS Resolver, FiniteSums, SequenceTheorems, TLAPS

Places == {"idle", "lease", "list", "look", "check", "research", "judge", "state",
           "attest", "decide", "send", "receipt", "persist", "mirror"}
Job == [at : Places, older : SUBSET Executions, open : BOOLEAN, stage : {"resolve", "general"},
        todo : Seq(Markets), rows : SUBSET Markets, basis : Scores, report : Answered,
        slots : [Names -> Recordable], votes : [Outcomes -> Nat] \cup {None}, ask : Seq(Names),
        tx : Tx \cup {NoTx}, mined : {None, "ok", "failed"}, left : Int, researched : Nat, failed : Nat]

(* The variables that the properties name, and what the executions hold.   *)
ResTyped ==
    /\ clock \in Nat /\ cards \in Lists
    /\ score \in [Markets -> Scores] /\ evidence \in [Markets -> Answered]
    /\ slots \in [Markets -> [Names -> Recordable]] /\ votes \in [Markets -> [Outcomes -> Nat]]
    /\ payout \in [Markets -> Recordable] /\ db \in [Markets -> Recordable]
    /\ orphans \subseteq Tx
    /\ job \in [Executions -> Job]
    /\ finals \in [Markets -> SUBSET Done]
    /\ reported \in [Markets -> SUBSET (Names \X {"yes", "no", "unknown"})]
    /\ byHand \subseteq Markets

(* In what follows sl, po, fi and rp are the slots, the payouts, the final *)
(* scores so far and the reports so far.                                   *)
(* The game of the wildcard children is over.                              *)
GameOver(po, fi) == fi[Game] # {} \/ po[Game] # None

(* A transaction that may write a slot or a payout: a final score gave its *)
(* outcome, the agents it speaks for reported it, and the event was over.  *)
TxOK(t, po, fi, rp) ==
    /\ t \in Tx
    /\ t.market \in Sports => t.outcome \in fi[t.market]
    /\ t.market \in Children => GameOver(po, fi)
    /\ t.kind = "attestation" => t.agent \in Names /\ <<t.agent, t.outcome>> \in rp[t.market]
    /\ t.kind = "consensus" => \A a \in Names : <<a, t.outcome>> \in rp[t.market]

(* What the agents say is on record: each of them, of a sports market, and *)
(* those who are sure of any other.                                        *)
OnRecord(m, r, rp) == \A a \in Names : r[a].sure \/ m \in Sports => <<a, r[a].outcome>> \in rp[m]

(* The market at hand may be researched: it has its basis, a final score,  *)
(* or its event is over.                                                   *)
Due(j, m, po, fi) ==
    /\ m \in Sports => j.basis \in Outcomes /\ j.basis \in fi[m]
    /\ m \in Children => GameOver(po, fi)

(* What a tick knows of the slots is what they hold, and those it may ask  *)
(* to attest have reported the outcome.                                    *)
Known(j, m, sl, rp) ==
    /\ \A a \in Names : j.slots[a] # None => sl[m][a] = j.slots[a]
    /\ \A i \in 1..Len(j.ask) : <<j.ask[i], j.basis>> \in rp[m]

(* The transaction in hand is about the market at hand and its basis; if   *)
(* the contract is to decide by its slots they agree with the basis.       *)
InHand(j, m, sl, po, fi, rp) ==
    /\ TxOK(j.tx, po, fi, rp)
    /\ j.tx.market = m /\ j.tx.outcome = j.basis
    /\ j.tx.kind = "fallback" => majority(sl[m]) = j.basis
    /\ j.tx.kind = "attestation" => j.ask # <<>> /\ Known(j, m, sl, rp)

(* What came of it.                                                        *)
Landed(j, m, sl, po) ==
    j.mined = "ok" => IF j.tx.kind = "attestation" THEN sl[m][j.tx.agent] = j.tx.outcome ELSE po[m] = j.basis

(* What an execution may hold at each place.                               *)
JobOK(j, sl, po, fi, rp) ==
    LET m == Head(j.todo) IN
    /\ j.at \notin {"idle", "lease"} /\ j.older # {} => j.open
    /\ j.at \notin {"idle", "lease", "list", "look"} => j.todo # <<>>
    /\ j.at = "check" /\ m \in Sports => j.basis \in fi[m] \cup {None}
    /\ j.at \in {"research", "judge", "state", "attest", "decide", "send", "receipt"} => Due(j, m, po, fi)
    /\ j.at \in {"judge", "state"} => j.report \in Reports /\ OnRecord(m, j.report, rp)
    /\ j.at \in {"state", "attest", "decide", "send", "receipt", "persist", "mirror"} => j.basis \in Outcomes
    /\ j.at \in {"attest", "decide"} => Known(j, m, sl, rp)
    /\ j.at \in {"send", "receipt"} => InHand(j, m, sl, po, fi, rp)
    /\ j.at \in {"check", "research", "judge", "state", "attest", "decide", "send"} => j.mined = None
    /\ j.at = "receipt" => Landed(j, m, sl, po)
    /\ j.at \in {"persist", "mirror"} => po[m] = j.basis

JobsOK == \A e \in Executions : JobOK(job[e], slots, payout, finals, reported)
OrphansOK == \A t \in orphans : TxOK(t, payout, finals, reported)

(* A score that is posted as done is a final score; a slot of a sports     *)
(* market holds one.                                                       *)
ScoresKept == \A m \in Markets : score[m] # None => score[m] \in finals[m]
SlotsOK == \A m \in Sports, a \in Names : slots[m][a] # None => slots[m][a] \in finals[m]

ResInv ==
    /\ ResTyped /\ JobsOK /\ OrphansOK /\ ScoresKept /\ SlotsOK
    /\ MirrorAgrees /\ PaysAFinalScore /\ AttestedAsReported
----------------------------------------------------------------------------
(* Lists.                                                                  *)
LEMMA KeptList ==
    ASSUME NEW S, NEW list \in Seq(S), NEW T
    PROVE  Kept(list, T) \in Seq(S \cap T)
<1> DEFINE n == Len(list)
           A == Seq(S \cap T)
           Body(g) == [i \in 0..n |-> IF i = 0 THEN <<>>
                                      ELSE IF list[i] \in T THEN Append(g[i - 1], list[i]) ELSE g[i - 1]]
           F == CHOOSE g : g = Body(g)
           step == [p \in A \X S |-> IF p[2] \in T THEN Append(p[1], p[2]) ELSE p[1]]
<1>1. n \in Nat /\ list \in [1..n -> S]
  BY LenProperties
<1>2. <<>> \in A
  OBVIOUS
<1>3. \A a \in A, x \in S : step[<<a, x>>] = IF x \in T THEN Append(a, x) ELSE a
  OBVIOUS
<1>4. step \in [A \X S -> A]
  <2>1. \A a \in A, x \in S \cap T : Append(a, x) \in A
    BY AppendProperties
  <2>2. ASSUME NEW p \in A \X S PROVE (IF p[2] \in T THEN Append(p[1], p[2]) ELSE p[1]) \in A
    BY <2>1
  <2> QED BY <2>2
<1>5. \E g : g = Body(g)
  <2> HIDE DEF step
  <2>1. PICK g \in [0..n -> A] : g[0] = <<>> /\ \A i \in 1..n : g[i] = step[<<g[i - 1], list[i]>>]
    <3>1. \E g \in [0..n -> A] : Solves(g, <<>>, step, n, list)
      <4> HIDE DEF A, n
      <4> QED BY <1>1, <1>2, <1>4, RecursionAlong
    <3> QED BY <3>1 DEF Solves
  <2>2. ASSUME NEW i \in 1..n PROVE g[i] = IF list[i] \in T THEN Append(g[i - 1], list[i]) ELSE g[i - 1]
    <3>1. g[i - 1] \in A /\ list[i] \in S
      BY <1>1
    <3> HIDE DEF A
    <3> QED BY <1>3, <2>1, <3>1
  <2>3. \A i \in 0..n : i = 0 \/ i \in 1..n
    BY <1>1
  <2> HIDE DEF n, A
  <2>4. g = Body(g)
    BY <2>1, <2>2, <2>3
  <2> QED BY <2>4
<1>6. F = Body(F)
  <2> HIDE DEF Body
  <2> QED BY <1>5
<1> HIDE DEF F
<1>7. F[0] = <<>> /\ \A i \in 1..n : F[i] = IF list[i] \in T THEN Append(F[i - 1], list[i]) ELSE F[i - 1]
  <2>1. 0 \in 0..n /\ \A i \in 1..n : i \in 0..n /\ i # 0
    BY <1>1
  <2> HIDE DEF n
  <2> QED BY <1>6, <2>1
<1> DEFINE G == {i \in 0..n : F[i] \in A}
<1>8. 0 \in G
  <2>1. F[0] \in A /\ 0 \in 0..n
    BY <1>1, <1>2, <1>7
  <2> QED BY <2>1
<1>9. ASSUME NEW i \in 1..n, i - 1 \in G PROVE i \in G
  <2>1. F[i - 1] \in A /\ list[i] \in S
    BY <1>1, <1>9
  <2>2. F[i] \in A
    <3>1. \A a \in A, x \in S \cap T : Append(a, x) \in A
      BY AppendProperties
    <3> HIDE DEF A
    <3> QED BY <1>7, <2>1, <3>1
  <2> QED BY <2>2
<1> HIDE DEF G, n
<1>12. \A i \in 1..n : i - 1 \in G => i \in G
  BY <1>9
<1>13. \A i \in 0..n : i \in G
  BY <1>1, <1>8, <1>12, UpTo
<1>10. n \in G
  BY <1>1, <1>13
<1>11. Kept(list, T) = F[n]
  BY DEF Kept, F, n
<1> QED BY <1>10, <1>11 DEF G
----------------------------------------------------------------------------
(* Majorities of three.                                                    *)
LEMMA TwoOf ==
    ASSUME NEW S, IsFiniteSet(S)
    PROVE  /\ Cardinality(S) >= 2 => \E a, b \in S : a # b
           /\ (\E a, b \in S : a # b) => Cardinality(S) >= 2
<1>1. Cardinality(S) \in Nat
  BY FS_CardinalityType
<1>2. ASSUME Cardinality(S) >= 2, \A a, b \in S : a = b PROVE FALSE
  <2>1. S # {}
    BY <1>2, FS_EmptySet
  <2>2. PICK a \in S : S = {a}
    BY <1>2, <2>1
  <2>3. Cardinality({a}) = 1
    BY FS_Singleton
  <2> QED BY <1>2, <2>2, <2>3
<1>3. ASSUME NEW a \in S, NEW b \in S, a # b PROVE Cardinality(S) >= 2
  <2>1. Cardinality({a}) = 1 /\ IsFiniteSet({a}) /\ b \notin {a}
    BY <1>3, FS_Singleton
  <2>2. IsFiniteSet({a} \cup {b}) /\ Cardinality({a} \cup {b}) = 2
    BY <2>1, FS_AddElement
  <2>3. {a} \cup {b} \subseteq S
    OBVIOUS
  <2>4. Cardinality({a} \cup {b}) <= Cardinality(S)
    BY <2>3, FS_Subset
  <2> QED BY <1>1, <2>2, <2>4
<1> QED BY <1>2, <1>3

LEMMA CountIsTwo ==
    ASSUME NEW f, NEW o
    PROVE  /\ Count(f, o) \in Nat
           /\ Count(f, o) >= 2 => \E a, b \in Names : a # b /\ f[a] = o /\ f[b] = o
           /\ \A a, b \in Names : a # b /\ f[a] = o /\ f[b] = o => Count(f, o) >= 2
<1> DEFINE S == {a \in Names : f[a] = o}
<1>1. IsFiniteSet(Names)
  <2>1. IsFiniteSet({"alpha"}) /\ IsFiniteSet({"beta"}) /\ IsFiniteSet({"gamma"})
    BY FS_Singleton
  <2>2. IsFiniteSet(({"alpha"} \cup {"beta"}) \cup {"gamma"})
    BY <2>1, FS_Union
  <2>3. Names = ({"alpha"} \cup {"beta"}) \cup {"gamma"}
    BY DEF Names
  <2> QED BY <2>2, <2>3
<1>2. IsFiniteSet(S)
  BY <1>1, FS_Subset
<1>3. Count(f, o) = Cardinality(S)
  BY DEF Count
<1>4. /\ Cardinality(S) >= 2 => \E a, b \in S : a # b
      /\ (\E a, b \in S : a # b) => Cardinality(S) >= 2
      /\ Cardinality(S) \in Nat
  <2> HIDE DEF S
  <2> QED BY <1>2, TwoOf, FS_CardinalityType
<1> QED BY <1>3, <1>4

LEMMA MajorityIs ==
    ASSUME NEW f
    PROVE  /\ majority(f) \in Recordable
           /\ majority(f) # None => \E a, b \in Names : a # b /\ f[a] = majority(f) /\ f[b] = majority(f)
           /\ \A o \in Outcomes : (\E a, b \in Names : a # b /\ f[a] = o /\ f[b] = o) => majority(f) = o
<1>1. majority(f) \in Recordable
  BY DEF majority, Recordable, Outcomes
<1>2. majority(f) # None => \E a, b \in Names : a # b /\ f[a] = majority(f) /\ f[b] = majority(f)
  BY CountIsTwo DEF majority
<1>3. ASSUME NEW o \in Outcomes, NEW a \in Names, NEW b \in Names, a # b, f[a] = o, f[b] = o PROVE majority(f) = o
  <2>1. Count(f, o) >= 2
    BY <1>3, CountIsTwo
  <2>2. CASE o = "yes"
    BY <2>1, <2>2 DEF majority
  <2>3. CASE o = "no"
    <3>1. ASSUME Count(f, "yes") >= 2 PROVE FALSE
      <4>1. PICK c, d \in Names : c # d /\ f[c] = "yes" /\ f[d] = "yes"
        BY <3>1, CountIsTwo
      <4>2. a # c /\ a # d /\ b # c /\ b # d
        BY <1>3, <2>3, <4>1
      <4> QED BY <1>3, <4>1, <4>2 DEF Names
    <3> QED BY <2>1, <2>3, <3>1 DEF majority
  <2> QED BY <2>2, <2>3 DEF Outcomes
<1> QED BY <1>1, <1>2, <1>3

(* A majority stays one as further slots are filled.                       *)
LEMMA MajorityStays ==
    ASSUME NEW f, NEW g, \A a \in Names : f[a] # None => g[a] = f[a], majority(f) # None
    PROVE  majority(g) = majority(f)
<1>1. majority(f) \in Outcomes /\ None \notin Outcomes
  BY MajorityIs DEF Recordable, Outcomes, None
<1> QED BY <1>1, MajorityIs
----------------------------------------------------------------------------
(* What only grows: slots and payouts are written once, final scores and   *)
(* reports are not forgotten.                                              *)
Grown(sl, po, fi, rp, sl2, po2, fi2, rp2) ==
    /\ \A m \in Markets, a \in Names : sl[m][a] # None => sl2[m][a] = sl[m][a]
    /\ \A m \in Markets : po[m] # None => po2[m] = po[m]
    /\ \A m \in Markets : fi[m] \subseteq fi2[m] /\ rp[m] \subseteq rp2[m]

LEMMA MarketKinds == Game \in Markets /\ Sports \subseteq Markets /\ Children \subseteq Markets
  BY ResolverConstants DEF Markets

LEMMA GameStaysOver ==
    ASSUME NEW po, NEW fi, NEW sl, NEW rp, NEW po2, NEW fi2, NEW sl2, NEW rp2,
           Grown(sl, po, fi, rp, sl2, po2, fi2, rp2), GameOver(po, fi)
    PROVE  GameOver(po2, fi2)
  BY MarketKinds DEF Grown, GameOver

LEMMA TxStays ==
    ASSUME NEW sl, NEW po, NEW fi, NEW rp, NEW sl2, NEW po2, NEW fi2, NEW rp2,
           Grown(sl, po, fi, rp, sl2, po2, fi2, rp2), NEW t, TxOK(t, po, fi, rp)
    PROVE  TxOK(t, po2, fi2, rp2)
<1>1. t \in Tx /\ t.market \in Markets
  BY DEF TxOK, Tx
<1>2. t.market \in Children => GameOver(po2, fi2)
  BY GameStaysOver DEF TxOK
<1>3. fi[t.market] \subseteq fi2[t.market] /\ rp[t.market] \subseteq rp2[t.market]
  BY <1>1 DEF Grown
<1> QED BY <1>1, <1>2, <1>3 DEF TxOK

LEMMA HeadMarket ==
    ASSUME NEW j \in Job, j.todo # <<>>
    PROVE  Head(j.todo) \in Markets /\ Tail(j.todo) \in Seq(Markets)
<1>1. j.todo \in Seq(Markets)
  BY DEF Job
<1> QED BY <1>1, HeadTailProperties

LEMMA KnownStays ==
    ASSUME NEW sl, NEW po, NEW fi, NEW rp, NEW sl2, NEW po2, NEW fi2, NEW rp2,
           Grown(sl, po, fi, rp, sl2, po2, fi2, rp2), NEW j, NEW m \in Markets, Known(j, m, sl, rp)
    PROVE  Known(j, m, sl2, rp2)
<1>1. rp[m] \subseteq rp2[m] /\ \A a \in Names : sl[m][a] # None => sl2[m][a] = sl[m][a]
  BY DEF Grown
<1> QED BY <1>1 DEF Known

LEMMA InHandStays ==
    ASSUME NEW sl, NEW po, NEW fi, NEW rp, NEW sl2, NEW po2, NEW fi2, NEW rp2,
           Grown(sl, po, fi, rp, sl2, po2, fi2, rp2), NEW j, j.basis \in Outcomes, NEW m \in Markets, InHand(j, m, sl, po, fi, rp)
    PROVE  InHand(j, m, sl2, po2, fi2, rp2)
<1>1. TxOK(j.tx, po2, fi2, rp2)
  BY TxStays DEF InHand
<1>2. j.tx.kind = "attestation" => Known(j, m, sl2, rp2)
  BY KnownStays DEF InHand
<1>3. j.tx.kind = "fallback" => majority(sl2[m]) = j.basis
  <2>1. \A a \in Names : sl[m][a] # None => sl2[m][a] = sl[m][a]
    BY DEF Grown
  <2>2. None \notin Outcomes
    BY DEF None, Outcomes
  <2> QED BY <2>1, <2>2, MajorityStays DEF InHand
<1> QED BY <1>1, <1>2, <1>3 DEF InHand

LEMMA LandedStays ==
    ASSUME NEW sl, NEW po, NEW fi, NEW rp, NEW sl2, NEW po2, NEW fi2, NEW rp2,
           Grown(sl, po, fi, rp, sl2, po2, fi2, rp2), NEW j, j.basis \in Outcomes, NEW m \in Markets,
           InHand(j, m, sl, po, fi, rp), Landed(j, m, sl, po)
    PROVE  Landed(j, m, sl2, po2)
<1>1. None \notin Outcomes
  BY DEF None, Outcomes
<1>2. j.tx.outcome \in Outcomes
  BY DEF InHand
<1>3. j.tx.kind = "attestation" => j.tx.agent \in Names
  BY DEF InHand, TxOK
<1>4. (\A a \in Names : sl[m][a] # None => sl2[m][a] = sl[m][a]) /\ (po[m] # None => po2[m] = po[m])
  BY DEF Grown
<1> QED BY <1>1, <1>2, <1>3, <1>4 DEF Landed

LEMMA JobStays ==
    ASSUME NEW sl, NEW po, NEW fi, NEW rp, NEW sl2, NEW po2, NEW fi2, NEW rp2,
           Grown(sl, po, fi, rp, sl2, po2, fi2, rp2), NEW j \in Job, JobOK(j, sl, po, fi, rp)
    PROVE  JobOK(j, sl2, po2, fi2, rp2)
<1> DEFINE m == Head(j.todo)
<1>1. CASE j.at \in {"idle", "lease", "list", "look"}
  BY <1>1 DEF JobOK
<1>2. CASE j.at \notin {"idle", "lease", "list", "look"}
  <2>1. m \in Markets /\ j.todo # <<>>
    BY <1>2, HeadMarket DEF JobOK
  <2>2. fi[m] \subseteq fi2[m] /\ rp[m] \subseteq rp2[m] /\ (po[m] # None => po2[m] = po[m]) /\ None \notin Outcomes
    BY <2>1 DEF Grown, None, Outcomes
  <2>3. Due(j, m, po, fi) => Due(j, m, po2, fi2)
    BY <2>2, GameStaysOver DEF Due
  <2>4. OnRecord(m, j.report, rp) => OnRecord(m, j.report, rp2)
    BY <2>2 DEF OnRecord
  <2>5. Known(j, m, sl, rp) => Known(j, m, sl2, rp2)
    BY <2>1, KnownStays
  <2>6. j.basis \in Outcomes /\ InHand(j, m, sl, po, fi, rp) => InHand(j, m, sl2, po2, fi2, rp2)
    BY <2>1, InHandStays
  <2>7. j.basis \in Outcomes /\ InHand(j, m, sl, po, fi, rp) /\ Landed(j, m, sl, po) => Landed(j, m, sl2, po2)
    BY <2>1, LandedStays
  <2> QED BY <1>2, <2>1, <2>2, <2>3, <2>4, <2>5, <2>6, <2>7 DEF JobOK
<1> QED BY <1>1, <1>2
----------------------------------------------------------------------------
(* Moves of an execution.                                                  *)
LEMMA IdleJob == Idle \in Job
<1>1. NoSlots \in [Names -> Recordable] /\ <<>> \in Seq(Markets) /\ <<>> \in Seq(Names)
  BY DEF NoSlots, Recordable
<1> QED BY <1>1 DEF Idle, Job, Places, Scores, Answered, NoTx

LEMMA Looking ==
    ASSUME NEW sl, NEW po, NEW fi, NEW rp, NEW j \in Job, JobOK(j, sl, po, fi, rp), j.at \notin {"idle", "lease"},
           NEW k, k.at \in {"list", "look"}, k.older = j.older, k.open = j.open
    PROVE  JobOK(k, sl, po, fi, rp)
  BY DEF JobOK

LEMMA OlderLess ==
    ASSUME NEW sl, NEW po, NEW fi, NEW rp, NEW j \in Job, JobOK(j, sl, po, fi, rp), NEW e
    PROVE  [j EXCEPT !.older = @ \ {e}] \in Job /\ JobOK([j EXCEPT !.older = @ \ {e}], sl, po, fi, rp)
<1> DEFINE k == [j EXCEPT !.older = @ \ {e}]
<1>1. k \in Job
  BY DEF Job
<1>2. /\ k.at = j.at /\ k.open = j.open /\ k.todo = j.todo /\ k.basis = j.basis /\ k.report = j.report
      /\ k.slots = j.slots /\ k.ask = j.ask /\ k.tx = j.tx /\ k.mined = j.mined /\ k.older \subseteq j.older
  BY DEF Job
<1> HIDE DEF k
<1>3. JobOK(k, sl, po, fi, rp)
  BY <1>2 DEF JobOK, Due, Known, InHand, Landed
<1> QED BY <1>1, <1>3 DEF k

(* A step of execution e that leaves all but its own place alone.          *)
Frame == UNCHANGED <<clock, cards, score, evidence, slots, votes, payout, orphans, db, finals, reported, byHand>>

LEMMA StaysPut ==
    ASSUME ResInv
    PROVE  Grown(slots, payout, finals, reported, slots, payout, finals, reported)
  BY DEF Grown

LEMMA FrameKeeps ==
    ASSUME ResInv, Frame, job' \in [Executions -> Job],
           \A f \in Executions : JobOK(job'[f], slots, payout, finals, reported)
    PROVE  ResInv'
<1>1. ResTyped'
  BY DEF ResInv, ResTyped, Frame
<1>2. JobsOK'
  BY DEF JobsOK, Frame
<1>3. OrphansOK' /\ ScoresKept' /\ SlotsOK'
  BY DEF ResInv, OrphansOK, ScoresKept, SlotsOK, Frame
<1>4. MirrorAgrees' /\ PaysAFinalScore' /\ AttestedAsReported'
  BY DEF ResInv, MirrorAgrees, PaysAFinalScore, AttestedAsReported, Frame
<1> QED BY <1>1, <1>2, <1>3, <1>4 DEF ResInv

LEMMA OrphansKeep ==
    ASSUME ResInv, job' \in [Executions -> Job],
           UNCHANGED <<clock, cards, score, evidence, slots, votes, payout, db, finals, reported, byHand>>,
           \A t \in orphans' : TxOK(t, payout, finals, reported),
           \A f \in Executions : JobOK(job'[f], slots, payout, finals, reported)
    PROVE  ResInv'
<1>1. orphans' \subseteq Tx
  BY DEF TxOK
<1>2. ResTyped'
  BY <1>1 DEF ResInv, ResTyped
<1>3. JobsOK' /\ OrphansOK'
  BY DEF JobsOK, OrphansOK
<1>4. ScoresKept' /\ SlotsOK'
  BY DEF ResInv, ScoresKept, SlotsOK
<1>5. MirrorAgrees' /\ PaysAFinalScore' /\ AttestedAsReported'
  BY DEF ResInv, MirrorAgrees, PaysAFinalScore, AttestedAsReported
<1> QED BY <1>2, <1>3, <1>4, <1>5 DEF ResInv

LEMMA Moves ==
    ASSUME ResInv, Frame, NEW e \in Executions, NEW j \in Job, JobOK(j, slots, payout, finals, reported),
           job' = [job EXCEPT ![e] = j]
    PROVE  ResInv'
<1>1. job' \in [Executions -> Job] /\ \A f \in Executions : job'[f] = IF f = e THEN j ELSE job[f]
  BY DEF ResInv, ResTyped
<1> QED BY <1>1, FrameKeeps DEF ResInv, JobsOK

LEMMA CompletedOK ==
    ASSUME ResInv, NEW e \in Executions
    PROVE  /\ Completed(e) \in [Executions -> Job]
           /\ \A f \in Executions : JobOK(Completed(e)[f], slots, payout, finals, reported)
<1>1. JobOK(Idle, slots, payout, finals, reported)
  BY DEF JobOK, Idle
<1>2. \A f \in Executions : job[f] \in Job /\ JobOK(job[f], slots, payout, finals, reported)
  BY DEF ResInv, ResTyped, JobsOK
<1>3. \A f \in Executions : /\ [job[f] EXCEPT !.older = @ \ {e}] \in Job
                            /\ JobOK([job[f] EXCEPT !.older = @ \ {e}], slots, payout, finals, reported)
  BY <1>2, OlderLess
<1> QED BY <1>1, <1>3, IdleJob DEF Completed

LEMMA Ends ==
    ASSUME ResInv, Frame, NEW e \in Executions, job' = Completed(e)
    PROVE  ResInv'
  BY CompletedOK, FrameKeeps

LEMMA Holds ==
    ASSUME ResInv, NEW e \in Executions
    PROVE  job[e] \in Job /\ JobOK(job[e], slots, payout, finals, reported)
  BY DEF ResInv, ResTyped, JobsOK

(* On to the next market.                                                  *)
LEMMA WalkOK ==
    ASSUME ResInv, NEW e \in Executions, job[e].at \notin {"idle", "lease", "list", "look"}, NEW n \in Int, NEW x \in Nat
    PROVE  /\ Walk(e) \in Job /\ JobOK(Walk(e), slots, payout, finals, reported)
           /\ [Walk(e) EXCEPT !.left = n] \in Job
           /\ JobOK([Walk(e) EXCEPT !.left = n], slots, payout, finals, reported)
           /\ [Walk(e) EXCEPT !.failed = x, !.left = n] \in Job
           /\ JobOK([Walk(e) EXCEPT !.failed = x, !.left = n], slots, payout, finals, reported)
<1>1. job[e] \in Job /\ JobOK(job[e], slots, payout, finals, reported)
  BY Holds
<1>2. Tail(job[e].todo) \in Seq(Markets)
  BY <1>1, HeadMarket DEF JobOK
<1>3. /\ Walk(e) \in Job
      /\ Walk(e).at = "look" /\ Walk(e).older = job[e].older /\ Walk(e).open = job[e].open
  BY <1>1, <1>2 DEF Walk, Job, Places
<1>4. \A k \in Job : [k EXCEPT !.left = n] \in Job /\ [k EXCEPT !.left = n].at = k.at
          /\ [k EXCEPT !.left = n].older = k.older /\ [k EXCEPT !.left = n].open = k.open
  BY DEF Job
<1>5. \A k \in Job : [k EXCEPT !.failed = x, !.left = n] \in Job /\ [k EXCEPT !.failed = x, !.left = n].at = k.at
          /\ [k EXCEPT !.failed = x, !.left = n].older = k.older /\ [k EXCEPT !.failed = x, !.left = n].open = k.open
  BY DEF Job
<1> HIDE DEF Walk
<1>6. JobOK(Walk(e), slots, payout, finals, reported)
  BY <1>1, <1>3, Looking
<1>7. [Walk(e) EXCEPT !.left = n] \in Job /\ JobOK([Walk(e) EXCEPT !.left = n], slots, payout, finals, reported)
  <2> DEFINE k == [Walk(e) EXCEPT !.left = n]
  <2>1. k \in Job /\ k.at = "look" /\ k.older = job[e].older /\ k.open = job[e].open
    BY <1>3, <1>4
  <2> HIDE DEF k
  <2>2. JobOK(k, slots, payout, finals, reported)
    BY <1>1, <2>1, Looking
  <2> QED BY <2>1, <2>2 DEF k
<1>8. /\ [Walk(e) EXCEPT !.failed = x, !.left = n] \in Job
      /\ JobOK([Walk(e) EXCEPT !.failed = x, !.left = n], slots, payout, finals, reported)
  <2> DEFINE k == [Walk(e) EXCEPT !.failed = x, !.left = n]
  <2>1. k \in Job /\ k.at = "look" /\ k.older = job[e].older /\ k.open = job[e].open
    BY <1>3, <1>5
  <2> HIDE DEF k
  <2>2. JobOK(k, slots, payout, finals, reported)
    BY <1>1, <2>1, Looking
  <2> QED BY <2>1, <2>2 DEF k
<1> QED BY <1>3, <1>6, <1>7, <1>8

LEMMA NextMarketKeeps ==
    ASSUME ResInv, NEW e \in Executions, job[e].at \notin {"idle", "lease", "list", "look"}, Frame, NextMarket(e)
    PROVE  ResInv'
<1>1. Walk(e) \in Job /\ JobOK(Walk(e), slots, payout, finals, reported)
  <2>1. 0 \in Int /\ 0 \in Nat
    OBVIOUS
  <2> QED BY <2>1, WalkOK
<1> QED BY <1>1, Moves DEF NextMarket
----------------------------------------------------------------------------
(* The life of an execution.                                               *)
LEMMA StartKeeps ==
    ASSUME ResInv, NEW e \in Executions, Frame, NEW k \in Job, k.at = "lease", job' = [job EXCEPT ![e] = k]
    PROVE  ResInv'
<1>1. JobOK(k, slots, payout, finals, reported)
  BY DEF JobOK
<1> QED BY <1>1, Moves

LEMMA ScheduledKeeps ==
    ASSUME ResInv, NEW e \in Executions, Scheduled(e)
    PROVE  ResInv'
<1> DEFINE k == [Idle EXCEPT !.at = "lease", !.left = Budget]
<1>1. Budget \in Int
  BY ResolverConstants
<1>2. \A j \in Job : [j EXCEPT !.at = "lease", !.left = Budget] \in Job /\ [j EXCEPT !.at = "lease", !.left = Budget].at = "lease"
  BY ZenonT(60), <1>1 DEF Job, Places
<1>3. k \in Job /\ k.at = "lease"
  BY <1>2, IdleJob
<1>4. Frame /\ job' = [job EXCEPT ![e] = k]
  BY DEF Scheduled, Frame, worldVars, chainVars
<1> HIDE DEF k
<1> QED BY <1>3, <1>4, StartKeeps

LEMMA OverlappingKeeps ==
    ASSUME ResInv, NEW e \in Executions, Overlapping(e)
    PROVE  ResInv'
<1>1. Frame
  BY DEF Overlapping, Frame, worldVars, chainVars
<1>2. PICK older \in SUBSET {f \in Executions : Live(f)} :
         job' = [job EXCEPT ![e] = [Idle EXCEPT !.at = "lease", !.left = Budget, !.older = older]]
  BY DEF Overlapping
<1> DEFINE k == [Idle EXCEPT !.at = "lease", !.left = Budget, !.older = older]
<1>3. Budget \in Int /\ older \in SUBSET Executions
  BY ResolverConstants
<1>4. \A j \in Job : LET i == [j EXCEPT !.at = "lease", !.left = Budget, !.older = older] IN i \in Job /\ i.at = "lease"
  BY ZenonT(60), <1>3 DEF Job, Places
<1>5. k \in Job /\ k.at = "lease"
  BY <1>4, IdleJob
<1> HIDE DEF k
<1>6. job' = [job EXCEPT ![e] = k]
  BY <1>2 DEF k
<1> QED BY <1>1, <1>5, <1>6, StartKeeps

LEMMA LeaseKeeps ==
    ASSUME ResInv, NEW e \in Executions, cloud_run_lease(e)
    PROVE  ResInv'
<1>1. Frame /\ job[e].at = "lease"
  BY DEF cloud_run_lease, Frame, jobOnly, worldVars, chainVars
<1>2. CASE job[e].older = {}
  <2>1. job[e] \in Job /\ JobOK(job[e], slots, payout, finals, reported)
    BY Holds
  <2> DEFINE k == [job[e] EXCEPT !.at = "list"]
  <2>2. k \in Job /\ k.at = "list" /\ k.older = {}
    BY <1>2, <2>1 DEF Job, Places
  <2>3. job' = [job EXCEPT ![e] = k]
    BY <1>2, <2>1 DEF cloud_run_lease, ResInv, ResTyped
  <2> HIDE DEF k
  <2>4. JobOK(k, slots, payout, finals, reported)
    BY <2>2 DEF JobOK
  <2> QED BY <1>1, <2>2, <2>3, <2>4, Moves
<1>3. CASE job[e].older # {}
  BY <1>1, <1>3, Ends DEF cloud_run_lease
<1> QED BY <1>2, <1>3

LEMMA LeaseFailsOpenKeeps ==
    ASSUME ResInv, NEW e \in Executions, LeaseFailsOpen(e)
    PROVE  ResInv'
<1>1. Frame /\ job[e].at = "lease"
  BY DEF LeaseFailsOpen, Frame, worldVars, chainVars
<1>2. job[e] \in Job
  BY Holds
<1> DEFINE k == [job[e] EXCEPT !.at = "list", !.open = TRUE]
<1>3. k \in Job /\ k.at = "list" /\ k.open
  BY <1>2 DEF Job, Places
<1>4. job' = [job EXCEPT ![e] = k]
  BY <1>2 DEF LeaseFailsOpen, ResInv, ResTyped
<1> HIDE DEF k
<1>5. JobOK(k, slots, payout, finals, reported)
  BY <1>3 DEF JobOK
<1> QED BY <1>1, <1>3, <1>4, <1>5, Moves

LEMMA KilledKeeps ==
    ASSUME ResInv, NEW e \in Executions, Killed(e)
    PROVE  ResInv'
<1>1. /\ UNCHANGED <<clock, cards, score, evidence, slots, votes, payout, db, finals, reported, byHand>>
      /\ job' = Completed(e)
  BY DEF Killed, worldVars
<1>2. \A t \in orphans' : TxOK(t, payout, finals, reported)
  <2>1. JobOK(job[e], slots, payout, finals, reported)
    BY Holds
  <2>2. job[e].at = "receipt" => TxOK(job[e].tx, payout, finals, reported)
    BY <2>1 DEF JobOK, InHand
  <2> QED BY <2>2 DEF Killed, ResInv, OrphansOK
<1> QED BY <1>1, <1>2, CompletedOK, OrphansKeep
----------------------------------------------------------------------------
(* A stage walks over its candidates.                                      *)
LEMMA CardsKeep ==
    ASSUME ResInv, NEW e \in Executions, NEW hidden, market_cards(e, hidden)
    PROVE  ResInv'
<1> DEFINE list == Kept(cards, Markets \ hidden)
<1>1. Frame /\ job[e].at = "list"
  BY DEF market_cards, Frame, worldVars, chainVars
<1>2. job[e] \in Job /\ JobOK(job[e], slots, payout, finals, reported) /\ job \in [Executions -> Job]
  BY Holds DEF ResInv, ResTyped
<1>3. list \in Seq(Markets)
  <2>1. cards \in Seq(Markets)
    BY ResolverConstants DEF ResInv, ResTyped
  <2>2. list \in Seq(Markets \cap (Markets \ hidden))
    BY <2>1, KeptList
  <2>3. \A q \in Seq(Markets \cap (Markets \ hidden)) : q \in Seq(Markets)
    OBVIOUS
  <2> HIDE DEF list
  <2> QED BY <2>2, <2>3
<1> HIDE DEF list
<1>4. \A T : Kept(list, T) \in Seq(Markets)
  <2>1. ASSUME NEW T PROVE Kept(list, T) \in Seq(Markets)
    <3>1. Kept(list, T) \in Seq(Markets \cap T)
      BY <1>3, KeptList
    <3>2. \A q \in Seq(Markets \cap T) : q \in Seq(Markets)
      OBVIOUS
    <3> QED BY <3>1, <3>2
  <2> QED BY <2>1
<1>5. PICK k : k = IF job[e].stage = "resolve" THEN resolve_run(job[e], list) ELSE general_run(job[e], list)
  OBVIOUS
<1>6. dual_gate_primaries(list) \in Seq(Markets) /\ candidates(list) \in Seq(Markets)
  BY <1>4 DEF dual_gate_primaries, candidates
<1>7. k \in Job /\ k.at = "look" /\ k.older = job[e].older /\ k.open = job[e].open
  <2>1. CASE job[e].stage = "resolve"
    BY ZenonT(60), <1>2, <1>5, <1>6, <2>1 DEF resolve_run, Job, Places
  <2>2. CASE job[e].stage # "resolve"
    BY <1>2, <1>5, <1>6, <2>2 DEF general_run, Job, Places
  <2> QED BY <2>1, <2>2
<1>8. job' = [job EXCEPT ![e] = k]
  BY <1>5 DEF market_cards, list
<1>9. JobOK(k, slots, payout, finals, reported)
  BY <1>1, <1>2, <1>7, Looking
<1> QED BY <1>1, <1>7, <1>8, <1>9, Moves

LEMMA StageFailsKeeps ==
    ASSUME ResInv, NEW e \in Executions, StageFails(e)
    PROVE  ResInv'
<1>1. Frame /\ job[e].at = "list"
  BY DEF StageFails, Frame, worldVars, chainVars
<1>2. job[e] \in Job /\ JobOK(job[e], slots, payout, finals, reported)
  BY Holds
<1> DEFINE k == [job[e] EXCEPT !.at = "look", !.todo = <<>>]
<1>6. <<>> \in Seq(Markets)
  OBVIOUS
<1>3. k \in Job /\ k.at = "look" /\ k.older = job[e].older /\ k.open = job[e].open
  BY <1>2, <1>6 DEF Job, Places
<1>4. job' = [job EXCEPT ![e] = k]
  BY <1>2 DEF StageFails, ResInv, ResTyped
<1> HIDE DEF k
<1>5. JobOK(k, slots, payout, finals, reported)
  BY <1>1, <1>2, <1>3, Looking
<1> QED BY <1>1, <1>3, <1>4, <1>5, Moves

LEMMA FreshOK ==
    ASSUME NEW j \in Job
    PROVE  /\ Fresh(j) \in Job
           /\ Fresh(j).at = j.at /\ Fresh(j).older = j.older /\ Fresh(j).open = j.open /\ Fresh(j).todo = j.todo
           /\ Fresh(j).basis = None /\ Fresh(j).mined = None
<1>1. NoSlots \in [Names -> Recordable] /\ <<>> \in Seq(Names)
  BY DEF NoSlots, Recordable
<1>2. None \in Scores /\ Broken \in Answered
  BY DEF Scores, Answered
<1> QED BY <1>1, <1>2 DEF Fresh, Job

LEMMA LookKeeps ==
    ASSUME ResInv, NEW e \in Executions, Look(e)
    PROVE  ResInv'
<1> DEFINE j == job[e]
           m == Head(j.todo)
           g == Fresh(j)
<1>1. Frame /\ j.at = "look"
  BY DEF Look, Frame, jobOnly, worldVars, chainVars
<1>2. j \in Job /\ JobOK(j, slots, payout, finals, reported)
  BY Holds
<1>3. /\ g \in Job /\ g.older = j.older /\ g.open = j.open /\ g.todo = j.todo /\ g.basis = None /\ g.mined = None
  <2> HIDE DEF j
  <2> QED BY <1>2, FreshOK
<1>4. CASE j.todo # <<>>
  <2>1. PICK k : k = IF m \in Sports THEN [[g EXCEPT !.at = "check"] EXCEPT !.basis = score[m], !.rows = {n \in Markets : db[n] # None}]
                                     ELSE [g EXCEPT !.at = "check"]
    OBVIOUS
  <2>2. m \in Markets
    <3> HIDE DEF j
    <3> QED BY <1>2, <1>4, HeadMarket
  <2>3. score[m] \in Scores /\ (score[m] # None => score[m] \in finals[m])
    BY <2>2 DEF ResInv, ResTyped, ScoresKept
  <2>4. job' = [job EXCEPT ![e] = k]
    BY <1>4, <2>1 DEF Look
  <2> HIDE DEF g, m
  <2>5. /\ k \in Job /\ k.at = "check" /\ k.older = j.older /\ k.open = j.open /\ k.todo = j.todo
        /\ (m \in Sports => k.basis = score[m]) /\ k.mined = None
    <3>1. CASE m \in Sports
      BY ZenonT(60), <1>3, <2>1, <2>3, <3>1 DEF Job, Places
    <3>2. CASE m \notin Sports
      BY <1>3, <2>1, <3>2 DEF Job, Places
    <3> QED BY SMTT(60), <3>1, <3>2
  <2>6. JobOK(k, slots, payout, finals, reported)
    BY <1>1, <1>2, <1>4, <2>3, <2>5 DEF JobOK, m
  <2> QED BY <1>1, <2>4, <2>5, <2>6, Moves
<1>5. CASE j.todo = <<>> /\ j.stage = "resolve" /\ ~_stage_starved(e)
  <2> DEFINE k == [g EXCEPT !.at = "list", !.stage = "general"]
  <2>1. job' = [job EXCEPT ![e] = k]
    BY <1>5 DEF Look
  <2> HIDE DEF g
  <2>2. k \in Job /\ k.at = "list" /\ k.older = j.older /\ k.open = j.open
    BY <1>3 DEF Job, Places
  <2> HIDE DEF k
  <2>3. JobOK(k, slots, payout, finals, reported)
    <3> HIDE DEF j
    <3> QED BY <1>1, <1>2, <2>2, Looking
  <2> QED BY <1>1, <2>1, <2>2, <2>3, Moves
<1>6. CASE j.todo = <<>> /\ (j.stage # "resolve" \/ _stage_starved(e))
  BY <1>1, <1>6, Ends DEF Look
<1> QED BY <1>4, <1>5, <1>6
----------------------------------------------------------------------------
(* Whether a market is researched, and what a research that fails leaves.  *)
LEMMA MirrorOK ==
    ASSUME ResInv, NEW e \in Executions, job[e].at \notin {"idle", "lease", "list", "look"}, NEW known \in BOOLEAN,
           payout[Head(job[e].todo)] # None
    PROVE  /\ mirror_chain_resolved(e, known) \in Job
           /\ JobOK(mirror_chain_resolved(e, known), slots, payout, finals, reported)
<1> DEFINE m == Head(job[e].todo)
           g == Fresh(job[e])
           k == [g EXCEPT !.at = "mirror", !.basis = payout[m]]
<1>1. job[e] \in Job /\ JobOK(job[e], slots, payout, finals, reported) /\ job[e].todo # <<>>
  BY Holds DEF JobOK
<1>2. CASE known
  <2>1. 0 \in Int /\ 0 \in Nat
    OBVIOUS
  <2>2. Walk(e) \in Job /\ JobOK(Walk(e), slots, payout, finals, reported)
    BY <2>1, WalkOK
  <2> QED BY <1>2, <2>2 DEF mirror_chain_resolved
<1>3. CASE ~known
  <2>1. m \in Markets
    BY <1>1, HeadMarket
  <2>2. payout[m] \in Outcomes /\ payout[m] \in Scores
    BY <2>1 DEF ResInv, ResTyped, Recordable, Scores
  <2>3. g \in Job /\ g.older = job[e].older /\ g.open = job[e].open /\ g.todo = job[e].todo
    BY <1>1, FreshOK
  <2>4. mirror_chain_resolved(e, known) = k
    BY <1>3 DEF mirror_chain_resolved, onchain_outcome
  <2> HIDE DEF g
  <2>5. k \in Job /\ k.at = "mirror" /\ k.older = job[e].older /\ k.open = job[e].open /\ k.todo = job[e].todo /\ k.basis = payout[m]
    BY <2>2, <2>3 DEF Job, Places
  <2> HIDE DEF k
  <2>6. JobOK(k, slots, payout, finals, reported)
    BY <1>1, <2>2, <2>5 DEF JobOK
  <2> QED BY <2>4, <2>5, <2>6
<1> QED BY <1>2, <1>3

(* Research starts only on a market that is due.                           *)
LEMMA ResearchStarts ==
    ASSUME ResInv, NEW e \in Executions, job[e].at = "check", Frame, Ready(e, Head(job[e].todo)), Step(e, "research")
    PROVE  ResInv'
<1> DEFINE j == job[e]
           m == Head(j.todo)
           k == [j EXCEPT !.at = "research"]
<1>1. j \in Job /\ JobOK(j, slots, payout, finals, reported) /\ j.todo # <<>>
  BY Holds DEF JobOK
<1>2. m \in Markets
  <2> HIDE DEF j
  <2> QED BY <1>1, HeadMarket
<1>3. m \in Sports => j.basis \in Outcomes /\ j.basis \in finals[m]
  <2>1. m \in Sports => j.basis \in finals[m] \cup {None}
    BY <1>1 DEF JobOK
  <2>2. m \in Sports => score_outcome(j.basis) # None
    BY DEF Ready
  <2> QED BY <2>1, <2>2 DEF score_outcome, Outcomes, None
<1>4. m \in Children => GameOver(payout, finals)
  <2>1. ASSUME m \in Children PROVE EventOver(m)
    <3>1. m \notin Sports
      BY <2>1, ResolverConstants
    <3> QED BY <2>1, <3>1 DEF Ready
  <2>2. EventOver(m) => GameOver(payout, finals)
    <3>1. Game \in Markets /\ (score[Game] # None => score[Game] \in finals[Game])
      BY MarketKinds DEF ResInv, ScoresKept
    <3> QED BY <3>1 DEF EventOver, GameOver, is_resolved, Done
  <2> QED BY <2>1, <2>2
<1>5. /\ k \in Job /\ k.at = "research" /\ k.older = j.older /\ k.open = j.open /\ k.todo = j.todo /\ k.basis = j.basis
      /\ k.mined = j.mined
  BY <1>1 DEF Job, Places
<1>6. job' = [job EXCEPT ![e] = k]
  BY <1>1 DEF Step, ResInv, ResTyped
<1> HIDE DEF k
<1>7. JobOK(k, slots, payout, finals, reported)
  <2>1. Due(k, Head(k.todo), payout, finals)
    BY <1>3, <1>4, <1>5 DEF Due
  <2> QED BY <1>1, <1>5, <2>1 DEF JobOK
<1> QED BY <1>5, <1>6, <1>7, Moves

LEMMA CheckKeeps ==
    ASSUME ResInv, NEW e \in Executions, Check(e)
    PROVE  ResInv'
<1> DEFINE m == Head(job[e].todo)
<1>1. Frame /\ job[e].at = "check"
  BY DEF Check, Frame, jobOnly, worldVars, chainVars
<1>2. CASE is_resolved(m)
  <2> DEFINE known == m \in job[e].rows
             k == mirror_chain_resolved(e, known)
  <2>1. known \in BOOLEAN
    OBVIOUS
  <2>2. job' = [job EXCEPT ![e] = k]
    BY <1>2 DEF Check
  <2>3. k \in Job /\ JobOK(k, slots, payout, finals, reported)
    <3> HIDE DEF known
    <3> QED BY <1>1, <1>2, <2>1, MirrorOK DEF is_resolved
  <2> HIDE DEF k
  <2> QED BY <1>1, <2>2, <2>3, Moves
<1>3. CASE ~is_resolved(m) /\ Ready(e, m) /\ retry_at(m) = 0 /\ Affordable(e)
  BY <1>1, <1>3, ResearchStarts DEF Check
<1>4. CASE ~is_resolved(m) /\ ~(Ready(e, m) /\ retry_at(m) = 0 /\ Affordable(e))
  BY <1>1, <1>4, NextMarketKeeps DEF Check
<1> QED BY <1>2, <1>3, <1>4

LEMMA CooldownUnreadKeeps ==
    ASSUME ResInv, NEW e \in Executions, CooldownUnread(e)
    PROVE  ResInv'
<1>1. Frame /\ job[e].at = "check" /\ Ready(e, Head(job[e].todo)) /\ Step(e, "research")
  BY DEF CooldownUnread, Frame, worldVars, chainVars
<1> QED BY <1>1, ResearchStarts

LEMMA MarketFailsKeeps ==
    ASSUME ResInv, NEW e \in Executions, MarketFails(e)
    PROVE  ResInv'
<1>1. Frame /\ job[e].at \in {"check", "judge", "state", "decide"} /\ NextMarket(e)
  BY DEF MarketFails, Frame, worldVars, chainVars
<1> QED BY <1>1, NextMarketKeeps

LEMMA PersistFailsKeeps ==
    ASSUME ResInv, NEW e \in Executions, PersistFails(e)
    PROVE  ResInv'
<1>1. Frame /\ job[e].at \in {"persist", "mirror"} /\ NextMarket(e)
  BY DEF PersistFails, Frame, worldVars, chainVars
<1> QED BY <1>1, NextMarketKeeps

LEMMA ResearchCutKeeps ==
    ASSUME ResInv, NEW e \in Executions, ResearchCut(e)
    PROVE  ResInv'
<1> DEFINE k == [Walk(e) EXCEPT !.left = Reserve]
<1>1. Frame /\ job[e].at = "research" /\ job' = [job EXCEPT ![e] = k]
  BY DEF ResearchCut, Frame, worldVars, chainVars
<1>2. Reserve \in Int /\ 0 \in Nat
  BY ResolverConstants
<1>3. k \in Job /\ JobOK(k, slots, payout, finals, reported)
  BY <1>1, <1>2, WalkOK
<1> HIDE DEF k
<1> QED BY <1>1, <1>3, Moves

LEMMA ResearchRaisesKeeps ==
    ASSUME ResInv, NEW e \in Executions, ResearchRaises(e)
    PROVE  ResInv'
<1> DEFINE w == Walk(e)
           k == [w EXCEPT !.failed = w.failed + 1, !.left = w.left - 1]
<1>1. Frame /\ job[e].at = "research" /\ job' = [job EXCEPT ![e] = k]
  BY DEF ResearchRaises, Frame, worldVars, chainVars
<1>2. w \in Job
  <2>1. 0 \in Int /\ 0 \in Nat
    OBVIOUS
  <2> QED BY <1>1, <2>1, WalkOK
<1>3. w.left - 1 \in Int /\ w.failed + 1 \in Nat
  <2> HIDE DEF w
  <2> QED BY <1>2 DEF Job
<1>4. k \in Job /\ JobOK(k, slots, payout, finals, reported)
  <2> DEFINE n == w.left - 1
             x == w.failed + 1
  <2>1. n \in Int /\ x \in Nat
    BY <1>3
  <2> HIDE DEF n, x
  <2>2. [w EXCEPT !.failed = x, !.left = n] \in Job /\ JobOK([w EXCEPT !.failed = x, !.left = n], slots, payout, finals, reported)
    BY <1>1, <2>1, WalkOK
  <2> QED BY <2>2 DEF n, x
<1> HIDE DEF k
<1> QED BY <1>1, <1>4, Moves
----------------------------------------------------------------------------
(* What has been written stays with every execution and transaction.       *)
LEMMA OthersStay ==
    ASSUME ResInv, Grown(slots, payout, finals, reported, slots', payout', finals', reported')
    PROVE  /\ \A f \in Executions : JobOK(job[f], slots', payout', finals', reported')
           /\ \A t \in orphans : TxOK(t, payout', finals', reported')
<1>1. \A f \in Executions : job[f] \in Job /\ JobOK(job[f], slots, payout, finals, reported)
  BY Holds
<1>2. \A t \in orphans : TxOK(t, payout, finals, reported)
  BY DEF ResInv, OrphansOK
<1>3. ASSUME NEW f \in Executions PROVE JobOK(job[f], slots', payout', finals', reported')
  <2>1. PICK j : j = job[f]
    OBVIOUS
  <2>2. PICK s2, p2, f2, r2 : s2 = slots' /\ p2 = payout' /\ f2 = finals' /\ r2 = reported'
    OBVIOUS
  <2>3. j \in Job /\ JobOK(j, slots, payout, finals, reported)
    BY <1>1, <2>1
  <2>4. Grown(slots, payout, finals, reported, s2, p2, f2, r2)
    BY <2>2
  <2>5. JobOK(j, s2, p2, f2, r2)
    BY <2>3, <2>4, JobStays
  <2> QED BY <2>1, <2>2, <2>5
<1>4. ASSUME NEW t \in orphans PROVE TxOK(t, payout', finals', reported')
  <2>2. PICK s2, p2, f2, r2 : s2 = slots' /\ p2 = payout' /\ f2 = finals' /\ r2 = reported'
    OBVIOUS
  <2>4. Grown(slots, payout, finals, reported, s2, p2, f2, r2)
    BY <2>2
  <2>5. TxOK(t, p2, f2, r2)
    BY <1>2, <2>4, TxStays
  <2> QED BY <2>2, <2>5
<1> QED BY <1>3, <1>4

LEMMA ResearchKeeps ==
    ASSUME ResInv, NEW e \in Executions, Research(e)
    PROVE  ResInv'
<1> DEFINE j == job[e]
           m == Head(j.todo)
           r == evidence[m]
<1>1. /\ UNCHANGED <<clock, cards, score, evidence, slots, votes, payout, orphans, db, finals, byHand>>
      /\ j.at = "research" /\ r # Broken
      /\ reported' = [reported EXCEPT ![m] = @ \cup {<<a, r[a].outcome>> : a \in {b \in Names : r[b].sure \/ m \in Sports}}]
  BY DEF Research, worldVars, chainVars
<1>2. j \in Job /\ JobOK(j, slots, payout, finals, reported) /\ j.todo # <<>>
  BY <1>1, Holds DEF JobOK
<1>3. m \in Markets
  <2> HIDE DEF j
  <2> QED BY <1>2, HeadMarket
<1>4. r \in Reports /\ r \in Answered /\ r \in [Names -> [outcome : {"yes", "no", "unknown"}, sure : BOOLEAN]]
  BY SMTT(60), <1>1, <1>3, ResolverConstants DEF ResInv, ResTyped, Answered
<1>5. PICK left \in {Reserve, j.left - 1} :
         job' = [job EXCEPT ![e].at = "judge", ![e].report = r, ![e].left = left, ![e].researched = @ + 1]
  BY DEF Research
<1>6. left \in Int /\ j.researched + 1 \in Nat
  BY SMTT(60), <1>2, ResolverConstants DEF Job
<1> DEFINE k == [j EXCEPT !.at = "judge", !.report = r, !.left = left, !.researched = @ + 1]
<1>7. job' = [job EXCEPT ![e] = k]
  BY <1>2, <1>5 DEF ResInv, ResTyped
<1>8. /\ k \in Job /\ k.at = "judge" /\ k.older = j.older /\ k.open = j.open /\ k.todo = j.todo /\ k.basis = j.basis
      /\ k.mined = j.mined /\ k.report = r
  <2> HIDE DEF r
  <2> QED BY <1>2, <1>4, <1>6 DEF Job, Places
<1>9. reported \in [Markets -> SUBSET (Names \X {"yes", "no", "unknown"})]
  BY DEF ResInv, ResTyped
<1> HIDE DEF k, r, m
<1>10. reported' \in [Markets -> SUBSET (Names \X {"yes", "no", "unknown"})]
  <2>1. \A a \in Names : <<a, r[a].outcome>> \in Names \X {"yes", "no", "unknown"}
    BY <1>4
  <2>2. PICK X : X = {<<a, r[a].outcome>> : a \in {b \in Names : r[b].sure \/ m \in Sports}}
    OBVIOUS
  <2>3. X \subseteq Names \X {"yes", "no", "unknown"}
    BY <2>1, <2>2
  <2>4. reported' = [reported EXCEPT ![m] = reported[m] \cup X]
    BY <1>1, <2>2
  <2>5. reported[m] \cup X \in SUBSET (Names \X {"yes", "no", "unknown"})
    BY <1>3, <1>9, <2>3
  <2> QED BY <1>3, <1>9, <2>4, <2>5
<1>11. \A n \in Markets : reported[n] \subseteq reported'[n]
  BY <1>1, <1>9
<1>12. Grown(slots, payout, finals, reported, slots', payout', finals', reported')
  BY <1>1, <1>11 DEF Grown
<1>13. OnRecord(m, r, reported')
  BY <1>1, <1>3, <1>9 DEF OnRecord
<1>14. JobOK(k, slots', payout', finals', reported')
  <2>1. Due(j, m, payout, finals)
    BY <1>1, <1>2 DEF JobOK, m
  <2>2. Due(k, m, payout', finals')
    BY <1>1, <1>8, <2>1 DEF Due
  <2>3. k.todo # <<>> /\ Head(k.todo) = m /\ k.mined = None /\ (k.older # {} => k.open)
    BY <1>1, <1>2, <1>8 DEF JobOK, m
  <2> QED BY <1>4, <1>8, <1>13, <2>2, <2>3 DEF JobOK
<1>15. /\ \A f \in Executions : JobOK(job[f], slots', payout', finals', reported')
       /\ \A t \in orphans : TxOK(t, payout', finals', reported')
  BY <1>12, OthersStay
<1>16. ResTyped'
  BY <1>1, <1>7, <1>8, <1>10 DEF ResInv, ResTyped
<1>17. JobsOK'
  BY <1>7, <1>14, <1>15 DEF JobsOK, ResInv, ResTyped
<1>18. OrphansOK' /\ ScoresKept' /\ SlotsOK' /\ MirrorAgrees' /\ PaysAFinalScore'
  BY <1>1, <1>15 DEF OrphansOK, ScoresKept, SlotsOK, MirrorAgrees, PaysAFinalScore, ResInv
<1>19. AttestedAsReported'
  BY <1>1, <1>11 DEF AttestedAsReported, ResInv
<1> QED BY SMTT(60), <1>16, <1>17, <1>18, <1>19 DEF ResInv
----------------------------------------------------------------------------
(* What the research leads to.                                             *)
LEMMA Dues ==
    ASSUME ResInv, NEW e \in Executions, job[e].at \in {"research", "judge", "state", "attest", "decide", "send", "receipt"}
    PROVE  /\ job[e] \in Job /\ JobOK(job[e], slots, payout, finals, reported)
           /\ job[e].todo # <<>> /\ Head(job[e].todo) \in Markets
           /\ Due(job[e], Head(job[e].todo), payout, finals)
<1>1. job[e] \in Job /\ JobOK(job[e], slots, payout, finals, reported)
  BY Holds
<1>2. job[e].todo # <<>> /\ Due(job[e], Head(job[e].todo), payout, finals)
  BY <1>1 DEF JobOK
<1> QED BY <1>1, <1>2, HeadMarket

(* A transaction is taken in hand.                                         *)
LEMMA SendingKeeps ==
    ASSUME ResInv, NEW e \in Executions, Frame, job[e].at \in {"judge", "attest", "decide"},
           NEW t, Sending(e, t), TxOK(t, payout, finals, reported), t.market = Head(job[e].todo),
           t.kind = "fallback" => majority(slots[t.market]) = t.outcome,
           t.kind = "attestation" => job[e].at = "attest" /\ t.outcome = job[e].basis /\ job[e].ask # <<>>
    PROVE  ResInv'
<1> DEFINE j == job[e]
           m == Head(j.todo)
           k == [j EXCEPT !.at = "send", !.basis = t.outcome, !.tx = t]
<1>1. j \in Job /\ JobOK(j, slots, payout, finals, reported) /\ j.todo # <<>> /\ m \in Markets /\ Due(j, m, payout, finals)
  BY Dues
<1>2. t \in Tx /\ t.outcome \in Outcomes /\ t.outcome \in Scores
  BY DEF TxOK, Tx, Scores
<1>3. job' = [job EXCEPT ![e] = k]
  BY <1>1 DEF Sending, ResInv, ResTyped
<1>4. /\ k \in Job /\ k.at = "send" /\ k.older = j.older /\ k.open = j.open /\ k.todo = j.todo /\ k.basis = t.outcome
      /\ k.mined = j.mined /\ k.tx = t /\ k.ask = j.ask /\ k.slots = j.slots
  BY <1>1, <1>2 DEF Job, Places
<1> HIDE DEF k
<1>5. Due(k, m, payout, finals)
  BY <1>1, <1>2, <1>4 DEF Due, TxOK
<1>6. t.kind = "attestation" => Known(k, m, slots, reported) /\ k.ask # <<>>
  <2>1. t.kind = "attestation" => Known(j, m, slots, reported)
    BY <1>1 DEF JobOK
  <2> QED BY <1>4, <2>1 DEF Known
<1>7. InHand(k, m, slots, payout, finals, reported)
  BY <1>4, <1>6 DEF InHand
<1>8. k.todo # <<>> /\ Head(k.todo) = m /\ k.mined = None /\ (k.older # {} => k.open)
  BY <1>1, <1>4 DEF JobOK
<1>9. JobOK(k, slots, payout, finals, reported)
  BY <1>2, <1>4, <1>5, <1>7, <1>8 DEF JobOK
<1> QED BY <1>3, <1>4, <1>9, Moves

LEMMA JudgeKeeps ==
    ASSUME ResInv, NEW e \in Executions, NEW blind \in BOOLEAN, Judge(e, blind)
    PROVE  ResInv'
<1> DEFINE j == job[e]
           m == Head(j.todo)
           r == j.report
<1>1. Frame /\ j.at = "judge"
  BY DEF Judge, Frame, worldVars, chainVars
<1>2. j \in Job /\ JobOK(j, slots, payout, finals, reported) /\ j.todo # <<>> /\ m \in Markets /\ Due(j, m, payout, finals)
  BY <1>1, Dues
<1>3. r \in Reports /\ OnRecord(m, r, reported) /\ r \in [Names -> [outcome : {"yes", "no", "unknown"}, sure : BOOLEAN]]
  BY <1>1, <1>2, ResolverConstants DEF JobOK
<1>4. CASE is_resolved(m) /\ ~blind
  <2> DEFINE k == mirror_chain_resolved(e, FALSE)
  <2>1. job' = [job EXCEPT ![e] = k]
    BY <1>4 DEF Judge, resolved_concurrently
  <2>2. k \in Job /\ JobOK(k, slots, payout, finals, reported)
    BY <1>1, <1>4, MirrorOK DEF is_resolved
  <2> HIDE DEF k
  <2> QED BY <1>1, <2>1, <2>2, Moves
<1>5. CASE Recorded(e)
  BY <1>1, <1>5, NextMarketKeeps DEF Recorded
<1>6. CASE ConsensusOutcome(e) # None /\ Sending(e, sign_unanimous(m, ConsensusOutcome(e)))
  <2> DEFINE o == ConsensusOutcome(e)
             t == sign_unanimous(m, o)
  <2>1. /\ o = r["alpha"].outcome /\ unanimous(r) /\ o \in Outcomes
        /\ (m \in Sports => o = j.basis) /\ (m \notin Sports => confident(r))
    BY <1>2, <1>6 DEF ConsensusOutcome, Due
  <2> HIDE DEF o
  <2>2. \A a \in Names : r[a].outcome = o /\ (r[a].sure \/ m \in Sports)
    BY <2>1 DEF unanimous, confident, Names
  <2>3. \A a \in Names : <<a, o>> \in reported[m]
    BY <1>3, <2>2 DEF OnRecord
  <2>4. t \in Tx /\ t.kind = "consensus" /\ t.market = m /\ t.outcome = o
    BY SMTT(60), <1>2, <2>1 DEF sign_unanimous, Tx
  <2>5. TxOK(t, payout, finals, reported)
    BY <1>2, <2>1, <2>3, <2>4 DEF TxOK, Due
  <2>6. Sending(e, t)
    BY <1>6 DEF o
  <2> HIDE DEF t
  <2> QED BY <1>1, <2>4, <2>5, <2>6, SendingKeeps
<1>7. CASE FallbackOpen(e) /\ job' = [job EXCEPT ![e].at = "state", ![e].basis = FallbackBasis(e)]
  <2> DEFINE o == FallbackBasis(e)
             k == [j EXCEPT !.at = "state", !.basis = o]
  <2>1. o \in Outcomes /\ o \in Scores /\ (m \in Sports => o = j.basis)
    <3>1. o # None
      BY <1>7 DEF FallbackOpen
    <3>2. m \notin Sports => o \in Recordable
      BY MajorityIs DEF FallbackBasis
    <3>3. m \in Sports => o = j.basis
      BY DEF FallbackBasis
    <3> HIDE DEF o
    <3> QED BY <1>2, <3>1, <3>2, <3>3 DEF Due, Recordable, Scores
  <2> HIDE DEF o
  <2>2. job' = [job EXCEPT ![e] = k]
    BY <1>2, <1>7 DEF o, ResInv, ResTyped
  <2>3. /\ k \in Job /\ k.at = "state" /\ k.older = j.older /\ k.open = j.open /\ k.todo = j.todo /\ k.basis = o
        /\ k.mined = j.mined /\ k.report = r
    BY <1>2, <2>1 DEF Job, Places
  <2> HIDE DEF k
  <2>4. Due(k, m, payout, finals)
    BY <1>2, <2>1, <2>3 DEF Due
  <2>5. k.todo # <<>> /\ Head(k.todo) = m /\ k.mined = None /\ (k.older # {} => k.open)
    BY <1>1, <1>2, <2>3 DEF JobOK
  <2>6. JobOK(k, slots, payout, finals, reported)
    BY <1>3, <2>1, <2>3, <2>4, <2>5 DEF JobOK
  <2> QED BY <1>1, <2>2, <2>3, <2>6, Moves
<1> QED BY <1>4, <1>5, <1>6, <1>7 DEF Judge

LEMMA MatchingOK ==
    ASSUME ResInv, NEW e \in Executions, job[e].at = "state"
    PROVE  /\ Matching(e) \in Seq(Names)
           /\ \A i \in 1..Len(Matching(e)) : <<Matching(e)[i], job[e].basis>> \in reported[Head(job[e].todo)]
<1> DEFINE j == job[e]
           m == Head(j.todo)
           T == {a \in Names : j.report[a].outcome = j.basis /\ (m \in Sports \/ j.report[a].sure)}
<1>1. OnRecord(m, j.report, reported)
  BY Holds DEF JobOK
<1>2. Agents \in Seq(Names)
  BY DEF Agents, Names
<1>3. Matching(e) = Kept(Agents, T)
  BY DEF Matching
<1>4. \A a \in T : a \in Names /\ <<a, j.basis>> \in reported[m]
  BY <1>1 DEF OnRecord
<1> HIDE DEF T
<1>5. Matching(e) \in Seq(Names \cap T)
  BY <1>2, <1>3, KeptList
<1> HIDE DEF Matching
<1>6. \A q \in Seq(Names \cap T) : q \in Seq(Names) /\ \A i \in 1..Len(q) : q[i] \in T
  OBVIOUS
<1> QED BY <1>4, <1>5, <1>6

LEMMA FallbackKeeps ==
    ASSUME ResInv, NEW e \in Executions, run_fallback(e)
    PROVE  ResInv'
<1> DEFINE j == job[e]
           m == Head(j.todo)
<1>1. Frame /\ j.at = "state"
  BY DEF run_fallback, Frame, worldVars, chainVars
<1>2. j \in Job /\ JobOK(j, slots, payout, finals, reported) /\ j.todo # <<>> /\ m \in Markets /\ Due(j, m, payout, finals)
  BY <1>1, Dues
<1>4. CASE is_resolved(m)
  <2> DEFINE k == mirror_chain_resolved(e, FALSE)
  <2>1. job' = [job EXCEPT ![e] = k]
    BY <1>4 DEF run_fallback, resolved_concurrently, fallback_state
  <2>2. k \in Job /\ JobOK(k, slots, payout, finals, reported)
    BY <1>1, <1>4, MirrorOK DEF is_resolved
  <2> HIDE DEF k
  <2> QED BY <1>1, <2>1, <2>2, Moves
<1>5. CASE Recorded(e)
  BY <1>1, <1>5, NextMarketKeeps DEF Recorded
<1>6. CASE job' = [job EXCEPT ![e].at = "attest", ![e].slots = slots[m], ![e].votes = votes[m], ![e].ask = Matching(e)]
  <2> DEFINE q == Matching(e)
             k == [j EXCEPT !.at = "attest", !.slots = slots[m], !.votes = votes[m], !.ask = q]
  <2>1. q \in Seq(Names) /\ \A i \in 1..Len(q) : <<q[i], j.basis>> \in reported[m]
    BY <1>1, MatchingOK
  <2> HIDE DEF q
  <2>2. job' = [job EXCEPT ![e] = k]
    BY <1>2, <1>6 DEF q, ResInv, ResTyped
  <2>3. slots[m] \in [Names -> Recordable] /\ votes[m] \in [Outcomes -> Nat]
    BY <1>2 DEF ResInv, ResTyped
  <2>4. /\ k \in Job /\ k.at = "attest" /\ k.older = j.older /\ k.open = j.open /\ k.todo = j.todo /\ k.basis = j.basis
        /\ k.mined = j.mined /\ k.slots = slots[m] /\ k.ask = q
    <3> HIDE DEF m
    <3> QED BY <1>2, <2>1, <2>3 DEF Job, Places
  <2> HIDE DEF k
  <2>5. Due(k, m, payout, finals) /\ Known(k, m, slots, reported)
    BY <1>2, <2>1, <2>4 DEF Due, Known
  <2>6. k.todo # <<>> /\ Head(k.todo) = m /\ k.mined = None /\ (k.older # {} => k.open) /\ k.basis \in Outcomes
    BY <1>1, <1>2, <2>4 DEF JobOK
  <2>7. JobOK(k, slots, payout, finals, reported)
    BY <2>4, <2>5, <2>6 DEF JobOK
  <2> QED BY <1>1, <2>2, <2>4, <2>7, Moves
<1> QED BY <1>4, <1>5, <1>6 DEF run_fallback, fallback_state

LEMMA AskLess ==
    ASSUME NEW j \in Job, j.ask # <<>>, NEW m, NEW sl, NEW rp, Known(j, m, sl, rp)
    PROVE  /\ Tail(j.ask) \in Seq(Names) /\ Head(j.ask) \in Names
           /\ <<Head(j.ask), j.basis>> \in rp[m]
           /\ \A i \in 1..Len(Tail(j.ask)) : <<Tail(j.ask)[i], j.basis>> \in rp[m]
<1>1. PICK q : q = j.ask /\ q \in Seq(Names) /\ q # <<>>
  BY DEF Job
<1>2. \A i \in 1..Len(q) : <<q[i], j.basis>> \in rp[m]
  BY <1>1 DEF Known
<1>3. /\ Head(q) = q[1] /\ Head(q) \in Names /\ Tail(q) \in Seq(Names) /\ Len(q) \in Nat /\ Len(q) >= 1
      /\ Len(Tail(q)) = Len(q) - 1 /\ \A i \in 1..Len(Tail(q)) : Tail(q)[i] = q[i + 1]
  BY <1>1, HeadTailProperties, LenProperties, EmptySeq
<1>4. 1 \in 1..Len(q) /\ \A i \in 1..Len(Tail(q)) : i + 1 \in 1..Len(q)
  BY <1>3
<1> QED BY <1>1, <1>2, <1>3, <1>4

LEMMA AttestKeeps ==
    ASSUME ResInv, NEW e \in Executions, Attest(e)
    PROVE  ResInv'
<1> DEFINE j == job[e]
           m == Head(j.todo)
<1>1. Frame /\ j.at = "attest"
  BY DEF Attest, Frame, jobOnly, worldVars, chainVars
<1>2. j \in Job /\ JobOK(j, slots, payout, finals, reported) /\ j.todo # <<>> /\ m \in Markets /\ Due(j, m, payout, finals)
  BY <1>1, Dues
<1>3. Known(j, m, slots, reported) /\ j.basis \in Outcomes /\ j.mined = None /\ (j.older # {} => j.open)
  BY <1>1, <1>2 DEF JobOK
<1>4. CASE j.ask = <<>>
  <2> DEFINE k == [j EXCEPT !.at = "decide"]
  <2>1. job' = [job EXCEPT ![e] = k]
    BY <1>2, <1>4 DEF Attest, Step, ResInv, ResTyped
  <2>2. /\ k \in Job /\ k.at = "decide" /\ k.older = j.older /\ k.open = j.open /\ k.todo = j.todo /\ k.basis = j.basis
        /\ k.mined = j.mined /\ k.slots = j.slots /\ k.ask = j.ask
    BY <1>2 DEF Job, Places
  <2> HIDE DEF k
  <2>3. Due(k, m, payout, finals) /\ Known(k, m, slots, reported)
    BY <1>2, <1>3, <2>2 DEF Due, Known
  <2>4. JobOK(k, slots, payout, finals, reported)
    BY <1>2, <1>3, <2>2, <2>3 DEF JobOK
  <2> QED BY <1>1, <2>1, <2>2, <2>4, Moves
<1>5. CASE j.ask # <<>> /\ j.slots[Head(j.ask)] # None
  <2> DEFINE k == [j EXCEPT !.ask = Tail(@)]
  <2>1. job' = [job EXCEPT ![e] = k]
    BY <1>2, <1>5 DEF Attest, ResInv, ResTyped
  <2>2. Tail(j.ask) \in Seq(Names) /\ \A i \in 1..Len(Tail(j.ask)) : <<Tail(j.ask)[i], j.basis>> \in reported[m]
    <3> HIDE DEF j, m
    <3> QED BY <1>2, <1>3, <1>5, AskLess
  <2>3. /\ k \in Job /\ k.at = j.at /\ k.older = j.older /\ k.open = j.open /\ k.todo = j.todo /\ k.basis = j.basis
        /\ k.mined = j.mined /\ k.slots = j.slots /\ k.ask = Tail(j.ask)
    BY <1>2, <2>2 DEF Job, Places
  <2> HIDE DEF k
  <2>4. Due(k, m, payout, finals) /\ Known(k, m, slots, reported)
    BY <1>2, <1>3, <2>2, <2>3 DEF Due, Known
  <2>5. JobOK(k, slots, payout, finals, reported)
    BY <1>1, <1>2, <1>3, <2>3, <2>4 DEF JobOK
  <2> QED BY <1>1, <2>1, <2>3, <2>5, Moves
<1>6. CASE j.ask # <<>> /\ Sending(e, sign_one(m, Head(j.ask), j.basis))
  <2> DEFINE t == sign_one(m, Head(j.ask), j.basis)
  <2>1. Head(j.ask) \in Names /\ <<Head(j.ask), j.basis>> \in reported[m]
    <3> HIDE DEF j, m
    <3> QED BY <1>2, <1>3, <1>6, AskLess
  <2>2. t \in Tx /\ t.kind = "attestation" /\ t.market = m /\ t.outcome = j.basis /\ t.agent = Head(j.ask)
    <3> HIDE DEF j, m
    <3> QED BY <1>2, <1>3, <2>1 DEF sign_one, Tx
  <2>3. TxOK(t, payout, finals, reported)
    <3> HIDE DEF t
    <3> QED BY <1>2, <2>1, <2>2 DEF TxOK, Due
  <2> HIDE DEF t
  <2>4. Sending(e, t)
    BY <1>6 DEF t
  <2> QED BY <1>1, <1>6, <2>2, <2>3, <2>4, SendingKeeps
<1> QED BY <1>1, <1>4, <1>5, <1>6 DEF Attest

LEMMA DecideKeeps ==
    ASSUME ResInv, NEW e \in Executions, Decide(e)
    PROVE  ResInv'
<1> DEFINE j == job[e]
           m == Head(j.todo)
           out == majority(j.slots)
<1>1. Frame /\ j.at = "decide"
  BY DEF Decide, Frame, worldVars, chainVars
<1>2. j \in Job /\ JobOK(j, slots, payout, finals, reported) /\ j.todo # <<>> /\ m \in Markets /\ Due(j, m, payout, finals)
  BY <1>1, Dues
<1>3. Known(j, m, slots, reported) /\ j.basis \in Outcomes
  BY <1>1, <1>2 DEF JobOK
<1>4. CASE Recorded(e)
  BY <1>1, <1>4, NextMarketKeeps DEF Recorded
<1>5. CASE ~Conflicts(j.slots, j.basis) /\ out # None /\ Sending(e, resolve_fallback(m, j.basis))
  <2> DEFINE t == resolve_fallback(m, j.basis)
  <2>1. t \in Tx /\ t.kind = "fallback" /\ t.market = m /\ t.outcome = j.basis
    <3> HIDE DEF j, m
    <3> QED BY <1>2, <1>3 DEF resolve_fallback, Tx
  <2>2. TxOK(t, payout, finals, reported)
    <3> HIDE DEF t
    <3> QED BY <1>2, <2>1 DEF TxOK, Due
  <2>3. majority(slots[m]) = j.basis
    <3>1. out = j.basis
      BY <1>5 DEF Conflicts
    <3>2. \A a \in Names : j.slots[a] # None => slots[m][a] = j.slots[a]
      BY <1>3 DEF Known
    <3> QED BY <1>5, <3>1, <3>2, MajorityStays
  <2> HIDE DEF t
  <2>4. Sending(e, t)
    BY <1>5 DEF t
  <2> QED BY <1>1, <2>1, <2>2, <2>3, <2>4, SendingKeeps
<1>6. CASE Sending(e, resolve_arbitrated(m, j.basis))
  <2> DEFINE t == resolve_arbitrated(m, j.basis)
  <2>1. t \in Tx /\ t.kind = "arbitrated" /\ t.market = m /\ t.outcome = j.basis
    <3> HIDE DEF j, m
    <3> QED BY <1>2, <1>3 DEF resolve_arbitrated, Tx
  <2>2. TxOK(t, payout, finals, reported)
    <3> HIDE DEF t
    <3> QED BY <1>2, <2>1 DEF TxOK, Due
  <2> HIDE DEF t
  <2>4. Sending(e, t)
    BY <1>6 DEF t
  <2> QED BY <1>1, <2>1, <2>2, <2>4, SendingKeeps
<1> QED BY <1>4, <1>5, <1>6 DEF Decide
----------------------------------------------------------------------------
(* The send and what is made of its answer.                                *)
LEMMA Sent ==
    ASSUME ResInv, NEW e \in Executions, job[e].at \in {"send", "receipt"}
    PROVE  /\ job[e].tx \in Tx /\ job[e].tx.market = Head(job[e].todo) /\ job[e].tx.outcome = job[e].basis
           /\ job[e].basis \in Outcomes /\ (job[e].older # {} => job[e].open)
           /\ TxOK(job[e].tx, payout, finals, reported)
           /\ InHand(job[e], Head(job[e].todo), slots, payout, finals, reported)
<1>1. JobOK(job[e], slots, payout, finals, reported)
  BY Holds
<1> QED BY <1>1 DEF JobOK, InHand, TxOK

LEMMA AfterAttestOK ==
    ASSUME ResInv, NEW e \in Executions, job[e].at \in {"send", "receipt"}, job[e].tx.kind = "attestation",
           NEW o \in Outcomes, slots[job[e].tx.market][job[e].tx.agent] = o
    PROVE  AfterAttest(e, o) \in Job /\ JobOK(AfterAttest(e, o), slots, payout, finals, reported)
<1> DEFINE j == job[e]
           m == Head(j.todo)
           a == j.tx.agent
           k == [j EXCEPT !.at = "attest", !.ask = Tail(@), !.slots[j.tx.agent] = o, !.tx = NoTx, !.mined = None]
<1>1. j \in Job /\ JobOK(j, slots, payout, finals, reported) /\ j.todo # <<>> /\ m \in Markets /\ Due(j, m, payout, finals)
  BY Dues
<1>2. j.tx.market = m /\ j.basis \in Outcomes /\ (j.older # {} => j.open) /\ Known(j, m, slots, reported) /\ j.ask # <<>> /\ a \in Names
  BY Sent DEF InHand, TxOK
<1>3. Tail(j.ask) \in Seq(Names) /\ \A i \in 1..Len(Tail(j.ask)) : <<Tail(j.ask)[i], j.basis>> \in reported[m]
  <2> HIDE DEF j, m
  <2> QED BY <1>1, <1>2, AskLess
<1>4. AfterAttest(e, o) = k
  BY DEF AfterAttest
<1>5. [j.slots EXCEPT ![a] = o] \in [Names -> Recordable]
  BY <1>1, <1>2 DEF Job, Recordable
<1>6. /\ k \in Job /\ k.at = "attest" /\ k.older = j.older /\ k.open = j.open /\ k.todo = j.todo /\ k.basis = j.basis
      /\ k.mined = None /\ k.slots = [j.slots EXCEPT ![a] = o] /\ k.ask = Tail(j.ask)
  BY <1>1, <1>3, <1>5 DEF Job, Places
<1> HIDE DEF k, a
<1>7. Due(k, m, payout, finals)
  BY <1>1, <1>6 DEF Due
<1>8. Known(k, m, slots, reported)
  <2>1. \A b \in Names : k.slots[b] # None => slots[m][b] = k.slots[b]
    BY SMTT(60), <1>1, <1>2, <1>6 DEF Known, Job, a
  <2> QED BY <1>3, <1>6, <2>1 DEF Known
<1>9. JobOK(k, slots, payout, finals, reported)
  BY <1>1, <1>2, <1>6, <1>7, <1>8 DEF JobOK
<1> QED BY <1>4, <1>6, <1>9

LEMMA SendRaisedOK ==
    ASSUME ResInv, NEW e \in Executions, job[e].at \in {"send", "receipt"}, NEW dup \in BOOLEAN,
           dup => job[e].tx.kind = "attestation" /\ slots[job[e].tx.market][job[e].tx.agent] # None
    PROVE  SendRaised(e, dup) \in Job /\ JobOK(SendRaised(e, dup), slots, payout, finals, reported)
<1> DEFINE t == job[e].tx
           m == t.market
<1>1. t.market = Head(job[e].todo) /\ TxOK(t, payout, finals, reported) /\ m \in Markets
  BY Sent DEF Tx
<1>2. Walk(e) \in Job /\ JobOK(Walk(e), slots, payout, finals, reported)
  <2>1. 0 \in Int /\ 0 \in Nat
    OBVIOUS
  <2> QED BY <2>1, WalkOK
<1>3. CASE t.kind = "attestation" /\ dup
  <2>1. t.agent \in Names
    BY <1>1, <1>3 DEF TxOK
  <2>2. slots[m][t.agent] \in Outcomes
    BY <1>1, <1>3, <2>1 DEF ResInv, ResTyped, Recordable
  <2>3. AfterAttest(e, slots[m][t.agent]) \in Job /\ JobOK(AfterAttest(e, slots[m][t.agent]), slots, payout, finals, reported)
    BY <1>3, <2>2, AfterAttestOK
  <2> QED BY <1>3, <2>3 DEF SendRaised
<1>4. CASE t.kind # "attestation" /\ is_resolved(m)
  <2>1. /\ mirror_chain_resolved(e, FALSE) \in Job
        /\ JobOK(mirror_chain_resolved(e, FALSE), slots, payout, finals, reported)
    BY <1>1, <1>4, MirrorOK DEF is_resolved
  <2> QED BY <1>4, <2>1 DEF SendRaised, resolved_concurrently
<1> QED BY <1>2, <1>3, <1>4 DEF SendRaised

LEMMA LeftOver ==
    ASSUME NEW sl, NEW po, NEW fi, NEW rp, NEW j \in Job, JobOK(j, sl, po, fi, rp), NEW n \in Int
    PROVE  [j EXCEPT !.left = n] \in Job /\ JobOK([j EXCEPT !.left = n], sl, po, fi, rp)
<1> DEFINE k == [j EXCEPT !.left = n]
<1>1. k \in Job
  BY DEF Job
<1>2. /\ k.at = j.at /\ k.open = j.open /\ k.todo = j.todo /\ k.basis = j.basis /\ k.report = j.report
      /\ k.slots = j.slots /\ k.ask = j.ask /\ k.tx = j.tx /\ k.mined = j.mined /\ k.older = j.older
  BY DEF Job
<1> HIDE DEF k
<1>3. JobOK(k, sl, po, fi, rp)
  BY <1>2 DEF JobOK, Due, Known, InHand, Landed
<1> QED BY <1>1, <1>3 DEF k

LEMMA SendKeeps ==
    ASSUME ResInv, NEW e \in Executions, Send(e)
    PROVE  ResInv'
<1> DEFINE j == job[e]
           t == j.tx
           dup == t.kind = "attestation" /\ slots[t.market][t.agent] # None
<1>1. Frame /\ j.at = "send"
  BY DEF Send, Frame, jobOnly, worldVars, chainVars
<1>2. job \in [Executions -> Job] /\ dup \in BOOLEAN
  BY DEF ResInv, ResTyped
<1>3. PICK k : k = IF ~receipt_timeout(e) THEN deferred_send(e) ELSE IF Reverts(t) THEN SendRaised(e, dup) ELSE [j EXCEPT !.at = "receipt"]
  OBVIOUS
<1>4. job' = [job EXCEPT ![e] = k]
  BY <1>3 DEF Send
<1>5. Walk(e) \in Job /\ JobOK(Walk(e), slots, payout, finals, reported)
  <2>1. 0 \in Int /\ 0 \in Nat
    OBVIOUS
  <2> QED BY <1>1, <2>1, WalkOK
<1>6. SendRaised(e, dup) \in Job /\ JobOK(SendRaised(e, dup), slots, payout, finals, reported)
  <2>1. dup => t.kind = "attestation" /\ slots[t.market][t.agent] # None
    OBVIOUS
  <2> HIDE DEF dup
  <2> QED BY <1>1, <1>2, <2>1, SendRaisedOK
<1>7. [j EXCEPT !.at = "receipt"] \in Job /\ JobOK([j EXCEPT !.at = "receipt"], slots, payout, finals, reported)
  <2> DEFINE i == [j EXCEPT !.at = "receipt"]
             m == Head(j.todo)
  <2>1. j \in Job /\ JobOK(j, slots, payout, finals, reported)
    BY Holds
  <2>2. /\ i \in Job /\ i.at = "receipt" /\ i.older = j.older /\ i.open = j.open /\ i.todo = j.todo /\ i.basis = j.basis
        /\ i.mined = j.mined /\ i.tx = j.tx /\ i.slots = j.slots /\ i.ask = j.ask
    BY <2>1 DEF Job, Places
  <2> HIDE DEF i
  <2>3. /\ Due(j, m, payout, finals) /\ InHand(j, m, slots, payout, finals, reported) /\ j.mined = None /\ j.todo # <<>>
        /\ j.basis \in Outcomes /\ (j.older # {} => j.open)
    BY <1>1, <2>1 DEF JobOK
  <2>4. Due(i, m, payout, finals) /\ InHand(i, m, slots, payout, finals, reported) /\ Landed(i, m, slots, payout)
    BY <2>2, <2>3 DEF Due, InHand, Known, Landed, None
  <2>5. JobOK(i, slots, payout, finals, reported)
    BY <2>2, <2>3, <2>4 DEF JobOK
  <2> QED BY <2>2, <2>5 DEF i
<1>8. k \in Job /\ JobOK(k, slots, payout, finals, reported)
  <2> HIDE DEF j, t, dup
  <2> QED BY <1>3, <1>5, <1>6, <1>7 DEF deferred_send
<1> QED BY <1>1, <1>4, <1>8, Moves

LEMMA ReceiptKeeps ==
    ASSUME ResInv, NEW e \in Executions, Receipt(e)
    PROVE  ResInv'
<1> DEFINE j == job[e]
           t == j.tx
           m == Head(j.todo)
<1>1. Frame /\ j.at = "receipt" /\ j.mined # None
  BY DEF Receipt, Frame, jobOnly, worldVars, chainVars
<1>2. j \in Job /\ JobOK(j, slots, payout, finals, reported)
  BY Holds
<1>3. PICK k : k = IF j.mined = "failed" THEN SendRaised(e, FALSE) ELSE IF t.kind = "attestation" THEN AfterAttest(e, t.outcome)
                   ELSE [j EXCEPT !.at = "persist"]
  OBVIOUS
<1>4. job' = [job EXCEPT ![e] = k]
  BY <1>3 DEF Receipt
<1>5. t.market = m /\ t.outcome = j.basis /\ j.basis \in Outcomes /\ j.todo # <<>> /\ (j.older # {} => j.open)
  BY <1>1, <1>2, Sent DEF JobOK
<1>6. Landed(j, m, slots, payout) /\ j.mined \in {"ok", "failed"}
  BY <1>1, <1>2 DEF JobOK, Job
<1>7. CASE j.mined = "failed"
  <2>1. SendRaised(e, FALSE) \in Job /\ JobOK(SendRaised(e, FALSE), slots, payout, finals, reported)
    BY <1>1, SendRaisedOK
  <2> QED BY <1>1, <1>3, <1>4, <1>7, <2>1, Moves
<1>8. CASE j.mined = "ok" /\ t.kind = "attestation"
  <2>1. AfterAttest(e, t.outcome) \in Job /\ JobOK(AfterAttest(e, t.outcome), slots, payout, finals, reported)
    BY <1>1, <1>5, <1>6, <1>8, AfterAttestOK DEF Landed
  <2> QED BY <1>1, <1>3, <1>4, <1>8, <2>1, Moves
<1>9. CASE j.mined = "ok" /\ t.kind # "attestation"
  <2>1. k = [j EXCEPT !.at = "persist"]
    BY <1>3, <1>9
  <2>2. k \in Job /\ k.at = "persist" /\ k.older = j.older /\ k.open = j.open /\ k.todo = j.todo /\ k.basis = j.basis
    BY <1>2, <2>1 DEF Job, Places
  <2>3. payout[m] = j.basis
    BY <1>6, <1>9 DEF Landed
  <2>4. JobOK(k, slots, payout, finals, reported)
    BY <1>5, <2>2, <2>3 DEF JobOK
  <2> QED BY <1>1, <1>4, <2>2, <2>4, Moves
<1> QED BY <1>6, <1>7, <1>8, <1>9

LEMMA ReceiptTimeoutKeeps ==
    ASSUME ResInv, NEW e \in Executions, ReceiptTimeout(e)
    PROVE  ResInv'
<1> DEFINE k == [SendRaised(e, FALSE) EXCEPT !.left = 0]
<1>1. /\ UNCHANGED <<clock, cards, score, evidence, slots, votes, payout, db, finals, reported, byHand>>
      /\ job[e].at = "receipt" /\ job' = [job EXCEPT ![e] = k]
  BY DEF ReceiptTimeout, worldVars
<1>2. SendRaised(e, FALSE) \in Job /\ JobOK(SendRaised(e, FALSE), slots, payout, finals, reported)
  BY <1>1, SendRaisedOK
<1>3. k \in Job /\ JobOK(k, slots, payout, finals, reported)
  <2>1. 0 \in Int
    OBVIOUS
  <2> QED BY <1>2, <2>1, LeftOver
<1> HIDE DEF k
<1>4. \A t \in orphans' : TxOK(t, payout, finals, reported)
  <2>1. TxOK(job[e].tx, payout, finals, reported)
    BY <1>1, Sent
  <2> QED BY <2>1 DEF ReceiptTimeout, ResInv, OrphansOK
<1>5. job' \in [Executions -> Job] /\ \A f \in Executions : JobOK(job'[f], slots, payout, finals, reported)
  BY <1>1, <1>3, Holds DEF ResInv, ResTyped
<1> QED BY <1>1, <1>4, <1>5, OrphansKeep
----------------------------------------------------------------------------
(* The records.                                                            *)
LEMMA PersistKeeps ==
    ASSUME ResInv, NEW e \in Executions, persist_resolution(e)
    PROVE  ResInv'
<1> DEFINE k == [job[e] EXCEPT !.at = "mirror"]
<1>1. Frame /\ job[e].at = "persist" /\ Step(e, "mirror")
  BY DEF persist_resolution, Frame, worldVars, chainVars
<1>2. job[e] \in Job /\ JobOK(job[e], slots, payout, finals, reported)
  BY Holds
<1>3. job' = [job EXCEPT ![e] = k]
  BY <1>1, <1>2 DEF Step, ResInv, ResTyped
<1>4. /\ k \in Job /\ k.at = "mirror" /\ k.older = job[e].older /\ k.open = job[e].open /\ k.todo = job[e].todo
      /\ k.basis = job[e].basis
  BY <1>2 DEF Job, Places
<1> HIDE DEF k
<1>5. JobOK(k, slots, payout, finals, reported)
  BY <1>1, <1>2, <1>4 DEF JobOK
<1> QED BY <1>1, <1>3, <1>4, <1>5, Moves

LEMMA MarkResolvedKeeps ==
    ASSUME ResInv, NEW e \in Executions, mark_resolved(e)
    PROVE  ResInv'
<1> DEFINE j == job[e]
           m == Head(j.todo)
<1>1. /\ UNCHANGED <<clock, cards, score, evidence, slots, votes, payout, orphans, finals, reported, byHand>>
      /\ j.at = "mirror" /\ db' = [db EXCEPT ![m] = j.basis] /\ job' = [job EXCEPT ![e] = Walk(e)]
  BY DEF mark_resolved, NextMarket, worldVars, chainVars
<1>2. j \in Job /\ JobOK(j, slots, payout, finals, reported) /\ j.todo # <<>> /\ j.basis \in Outcomes /\ payout[m] = j.basis
  BY <1>1, Holds DEF JobOK
<1>3. m \in Markets
  <2> HIDE DEF j
  <2> QED BY <1>2, HeadMarket
<1>4. Walk(e) \in Job /\ JobOK(Walk(e), slots, payout, finals, reported)
  <2>1. 0 \in Int /\ 0 \in Nat
    OBVIOUS
  <2> QED BY <1>1, <2>1, WalkOK
<1>5. \A f \in Executions : job'[f] \in Job /\ JobOK(job'[f], slots, payout, finals, reported)
  BY <1>1, <1>4, Holds DEF ResInv, ResTyped
<1> HIDE DEF j, m
<1>6. ResTyped'
  BY <1>1, <1>2, <1>4 DEF ResInv, ResTyped, Recordable
<1>7. JobsOK'
  BY <1>1, <1>5 DEF JobsOK
<1>8. MirrorAgrees'
  BY <1>1, <1>2, <1>3 DEF MirrorAgrees, ResInv, ResTyped
<1>9. OrphansOK' /\ ScoresKept' /\ SlotsOK' /\ PaysAFinalScore' /\ AttestedAsReported'
  BY <1>1 DEF OrphansOK, ScoresKept, SlotsOK, PaysAFinalScore, AttestedAsReported, ResInv
<1> QED BY <1>6, <1>7, <1>8, <1>9 DEF ResInv
----------------------------------------------------------------------------
(* The chain.  What a transaction may do: an attestation or a consensus is *)
(* one a tick prepared; an arbitrated outcome is a final score or is given *)
(* by hand; resolveFallback may come from anyone.                          *)
Sound(t, by) ==
    /\ t \in Tx
    /\ t.kind \in {"attestation", "consensus"} => TxOK(t, payout, finals, reported)
    /\ t.kind = "arbitrated" /\ t.market \in Sports => t.market \in by \/ t.outcome \in finals[t.market]

LEMMA ExecuteTyped ==
    ASSUME ResInv, NEW t, NEW by, Sound(t, by), Execute(t)
    PROVE  slots' \in [Markets -> [Names -> Recordable]] /\ payout' \in [Markets -> Recordable]
<1>1. t.market \in Markets /\ t.outcome \in Outcomes /\ t.outcome \in Recordable
  BY DEF Sound, Tx, Recordable
<1>2. slots \in [Markets -> [Names -> Recordable]] /\ payout \in [Markets -> Recordable]
  BY DEF ResInv, ResTyped
<1>3. CASE Reverts(t)
  BY <1>2, <1>3 DEF Execute
<1>4. CASE ~Reverts(t) /\ t.kind = "attestation"
  BY <1>1, <1>2, <1>4 DEF Execute
<1>5. CASE ~Reverts(t) /\ t.kind = "consensus"
  BY <1>1, <1>2, <1>5 DEF Execute
<1>6. CASE ~Reverts(t) /\ t.kind = "fallback"
  <2>1. majority(slots[t.market]) \in Recordable
    BY MajorityIs
  <2> QED BY <1>1, <1>2, <1>6, <2>1 DEF Execute
<1>7. CASE ~Reverts(t) /\ t.kind = "arbitrated"
  BY <1>1, <1>2, <1>7 DEF Execute
<1>8. t.kind \in {"attestation", "consensus", "fallback", "arbitrated"}
  BY DEF Sound, Tx
<1> QED BY <1>3, <1>4, <1>5, <1>6, <1>7, <1>8

(* Nothing that is written is overwritten.                                 *)
LEMMA ExecuteGrows ==
    ASSUME ResInv, NEW t, NEW by, Sound(t, by), Execute(t), UNCHANGED <<finals, reported>>
    PROVE  Grown(slots, payout, finals, reported, slots', payout', finals', reported')
<1>1. t.market \in Markets /\ t.outcome \in Outcomes
  BY DEF Sound, Tx
<1>2. slots \in [Markets -> [Names -> Recordable]] /\ payout \in [Markets -> Recordable]
  BY DEF ResInv, ResTyped
<1>3. t.kind \in {"attestation", "consensus", "fallback", "arbitrated"}
  BY DEF Sound, Tx
<1>4. CASE Reverts(t)
  BY <1>4 DEF Execute, Grown
<1>5. CASE ~Reverts(t) /\ t.kind = "attestation"
  <2>1. slots[t.market][t.agent] = None /\ t.agent \in Names
    BY <1>5 DEF Reverts, Sound, TxOK
  <2> QED BY <1>1, <1>2, <1>5, <2>1 DEF Execute, Grown
<1>6. CASE ~Reverts(t) /\ t.kind = "consensus"
  <2>1. payout[t.market] = None /\ \A a \in Names : slots[t.market][a] \in {None, t.outcome}
    BY <1>6 DEF Reverts
  <2> QED BY <1>1, <1>2, <1>6, <2>1 DEF Execute, Grown
<1>7. CASE ~Reverts(t) /\ t.kind \in {"fallback", "arbitrated"}
  <2>1. payout[t.market] = None
    BY <1>7 DEF Reverts
  <2> QED BY <1>1, <1>2, <1>7, <2>1 DEF Execute, Grown
<1> QED BY <1>3, <1>4, <1>5, <1>6, <1>7

(* A slot that is new is one that its agent reported.                      *)
LEMMA ExecuteAttests ==
    ASSUME ResInv, NEW t, NEW by, Sound(t, by), Execute(t), UNCHANGED <<finals, reported>>
    PROVE  SlotsOK' /\ AttestedAsReported'
<1>1. slots \in [Markets -> [Names -> Recordable]] /\ payout \in [Markets -> Recordable]
  BY DEF ResInv, ResTyped
<1>2. t.market \in Markets
  BY DEF Sound, Tx
<1>3. ASSUME NEW m \in Markets, NEW a \in Names, slots'[m][a] # None
      PROVE  \/ slots'[m][a] = slots[m][a]
             \/ /\ m = t.market /\ slots'[m][a] = t.outcome /\ TxOK(t, payout, finals, reported)
                /\ <<a, t.outcome>> \in reported[m]
  <2>1. CASE ~Reverts(t) /\ t.kind = "attestation"
    <3>1. TxOK(t, payout, finals, reported) /\ t.agent \in Names /\ <<t.agent, t.outcome>> \in reported[t.market]
      BY <2>1 DEF Sound, TxOK
    <3>2. slots' = [slots EXCEPT ![t.market][t.agent] = t.outcome]
      BY <2>1 DEF Execute
    <3>3. CASE m = t.market /\ a = t.agent
      BY <1>1, <3>1, <3>2, <3>3
    <3>4. CASE ~(m = t.market /\ a = t.agent)
      BY <1>1, <1>2, <3>1, <3>2, <3>4
    <3> QED BY <3>3, <3>4
  <2>2. CASE ~Reverts(t) /\ t.kind = "consensus"
    <3>1. TxOK(t, payout, finals, reported) /\ \A b \in Names : <<b, t.outcome>> \in reported[t.market]
      BY <2>2 DEF Sound, TxOK
    <3>2. slots' = [slots EXCEPT ![t.market] = [b \in Names |-> t.outcome]]
      BY <2>2 DEF Execute
    <3> QED BY <1>1, <1>2, <3>1, <3>2
  <2>3. CASE Reverts(t) \/ t.kind \notin {"attestation", "consensus"}
    BY <2>3 DEF Execute
  <2> QED BY <2>1, <2>2, <2>3
<1>4. Grown(slots, payout, finals, reported, slots', payout', finals', reported')
  BY ExecuteGrows
<1>5. GameOver(payout, finals) => GameOver(payout', finals')
  <2>1. PICK s2, p2, f2, r2 : s2 = slots' /\ p2 = payout' /\ f2 = finals' /\ r2 = reported'
    OBVIOUS
  <2>2. Grown(slots, payout, finals, reported, s2, p2, f2, r2)
    BY <1>4, <2>1
  <2>3. GameOver(payout, finals) => GameOver(p2, f2)
    BY <2>2, GameStaysOver
  <2> QED BY <2>1, <2>3
<1>6. ASSUME NEW m \in Markets, NEW a \in Names, slots'[m][a] # None
      PROVE  /\ m \in Sports => slots'[m][a] \in finals'[m]
             /\ <<a, slots'[m][a]>> \in reported'[m]
             /\ m \in Children => GameOver(payout', finals')
  <2>1. CASE slots'[m][a] = slots[m][a]
    <3>1. m \in Sports => slots[m][a] \in finals[m]
      BY <1>6, <2>1 DEF ResInv, SlotsOK
    <3>2. <<a, slots[m][a]>> \in reported[m] /\ (m \in Children => GameOver(payout, finals))
      BY <1>6, <2>1 DEF ResInv, AttestedAsReported, GameOver
    <3> QED BY <1>5, <2>1, <3>1, <3>2
  <2>2. CASE /\ m = t.market /\ slots'[m][a] = t.outcome /\ TxOK(t, payout, finals, reported)
             /\ <<a, t.outcome>> \in reported[m]
    BY <1>5, <2>2 DEF TxOK
  <2> QED BY <1>3, <1>6, <2>1, <2>2
<1>7. SlotsOK'
  BY <1>6, MarketKinds DEF SlotsOK
<1>8. AttestedAsReported'
  BY <1>6 DEF AttestedAsReported, GameOver
<1> QED BY <1>7, <1>8

(* A payout that is new is a final score, or was given by hand.            *)
LEMMA ExecutePays ==
    ASSUME ResInv, NEW t, Sound(t, byHand'), Execute(t), UNCHANGED <<finals, reported, db>>, byHand \subseteq byHand'
    PROVE  PaysAFinalScore' /\ MirrorAgrees'
<1>1. slots \in [Markets -> [Names -> Recordable]] /\ payout \in [Markets -> Recordable] /\ db \in [Markets -> Recordable]
  BY DEF ResInv, ResTyped
<1>2. t.market \in Markets /\ t.kind \in {"attestation", "consensus", "fallback", "arbitrated"} /\ t.outcome \in Outcomes
  BY DEF Sound, Tx
<1>3. Grown(slots, payout, finals, reported, slots', payout', finals', reported')
  <2>1. PICK by : by = byHand'
    OBVIOUS
  <2>2. Sound(t, by)
    BY <2>1
  <2> QED BY <2>2, ExecuteGrows
<1>4. MirrorAgrees'
  BY <1>3 DEF Grown, MirrorAgrees, ResInv
<1>5. ASSUME NEW m \in Sports, m \notin byHand', payout'[m] # None PROVE payout'[m] \in finals'[m]
  <2>0. m \in Markets
    BY MarketKinds
  <2>1. CASE payout'[m] = payout[m]
    BY <1>5, <2>1 DEF ResInv, PaysAFinalScore
  <2>2. CASE payout'[m] # payout[m]
    <3>1. ~Reverts(t) /\ t.kind # "attestation"
      BY <1>2, <2>2 DEF Execute
    <3>2. m = t.market
      BY <1>1, <1>2, <2>0, <2>2, <3>1 DEF Execute
    <3>3. CASE t.kind = "fallback"
      <4>1. payout'[m] = majority(slots[m])
        BY <1>1, <2>0, <3>1, <3>2, <3>3 DEF Execute
      <4>2. PICK a \in Names : slots[m][a] = majority(slots[m])
        BY <1>5, <4>1, MajorityIs
      <4> QED BY <1>5, <4>1, <4>2 DEF ResInv, SlotsOK
    <3>4. CASE t.kind \in {"consensus", "arbitrated"}
      <4>1. payout'[m] = t.outcome
        BY <1>1, <2>0, <3>1, <3>2, <3>4 DEF Execute
      <4>2. t.outcome \in finals[m]
        BY <1>5, <3>2, <3>4 DEF Sound, TxOK
      <4> QED BY <4>1, <4>2
    <3> QED BY <1>2, <3>1, <3>3, <3>4
  <2> QED BY <2>1, <2>2
<1>6. PaysAFinalScore'
  BY <1>5 DEF PaysAFinalScore
<1> QED BY <1>4, <1>6

LEMMA ExecuteKeeps ==
    ASSUME ResInv, NEW t, Sound(t, byHand'), Execute(t), UNCHANGED <<clock, cards, score, evidence, votes, db, finals, reported>>,
           byHand \subseteq byHand', byHand' \subseteq Markets, orphans' \subseteq orphans, job' \in [Executions -> Job],
           \A f \in Executions : JobOK(job'[f], slots', payout', finals', reported')
    PROVE  ResInv'
<1>1. PICK by : by = byHand'
  OBVIOUS
<1>2. Sound(t, by)
  BY <1>1
<1>3. slots' \in [Markets -> [Names -> Recordable]] /\ payout' \in [Markets -> Recordable]
  BY <1>2, ExecuteTyped
<1>4. Grown(slots, payout, finals, reported, slots', payout', finals', reported')
  BY <1>2, ExecuteGrows
<1>5. ResTyped'
  BY <1>3 DEF ResInv, ResTyped
<1>6. JobsOK' /\ OrphansOK'
  BY <1>4, OthersStay DEF JobsOK, OrphansOK
<1>7. ScoresKept'
  BY DEF ScoresKept, ResInv
<1>8. SlotsOK' /\ AttestedAsReported'
  BY <1>2, ExecuteAttests
<1>9. PaysAFinalScore' /\ MirrorAgrees'
  BY ExecutePays
<1> QED BY <1>5, <1>6, <1>7, <1>8, <1>9 DEF ResInv

LEMMA LandOrphanKeeps ==
    ASSUME ResInv, NEW t \in orphans, LandOrphan(t)
    PROVE  ResInv'
<1>1. /\ Execute(t) /\ UNCHANGED <<clock, cards, score, evidence, votes, db, finals, reported, byHand, job>>
      /\ orphans' \subseteq orphans
  BY DEF LandOrphan, worldVars
<1>2. TxOK(t, payout, finals, reported)
  BY DEF ResInv, OrphansOK
<1>3. Sound(t, byHand') /\ Sound(t, byHand)
  BY <1>2 DEF Sound, TxOK
<1>4. Grown(slots, payout, finals, reported, slots', payout', finals', reported')
  BY <1>1, <1>3, ExecuteGrows
<1>5. \A f \in Executions : JobOK(job'[f], slots', payout', finals', reported')
  BY <1>1, <1>4, OthersStay
<1>6. byHand \subseteq byHand' /\ byHand' \subseteq Markets /\ job' \in [Executions -> Job]
  BY <1>1 DEF ResInv, ResTyped
<1> QED BY <1>1, <1>3, <1>5, <1>6, ExecuteKeeps

LEMMA SentByOthersKeeps ==
    ASSUME ResInv, NEW m \in Markets, NEW kind \in {"fallback", "arbitrated"}, NEW o \in Outcomes, SentByOthers(m, kind, o)
    PROVE  ResInv'
<1> DEFINE t == [kind |-> kind, market |-> m, agent |-> None, outcome |-> o]
<1>1. /\ Execute(t) /\ UNCHANGED <<clock, cards, score, evidence, votes, orphans, db, finals, reported, job>>
      /\ byHand' = IF kind = "arbitrated" THEN byHand \cup {m} ELSE byHand
  BY DEF SentByOthers
<1>2. t \in Tx /\ t.kind = kind /\ t.market = m
  BY DEF Tx
<1> HIDE DEF t
<1>3. Sound(t, byHand')
  BY <1>1, <1>2 DEF Sound
<1>4. Grown(slots, payout, finals, reported, slots', payout', finals', reported')
  <2>1. PICK by : by = byHand'
    OBVIOUS
  <2>2. Sound(t, by)
    BY <1>3, <2>1
  <2> QED BY <1>1, <2>2, ExecuteGrows
<1>5. \A f \in Executions : JobOK(job'[f], slots', payout', finals', reported')
  BY <1>1, <1>4, OthersStay
<1>6. byHand \subseteq byHand' /\ byHand' \subseteq Markets /\ job' \in [Executions -> Job] /\ orphans' \subseteq orphans
  BY <1>1 DEF ResInv, ResTyped
<1> QED BY <1>1, <1>3, <1>5, <1>6, ExecuteKeeps

LEMMA MinedKeeps ==
    ASSUME ResInv, NEW e \in Executions, Mined(e)
    PROVE  ResInv'
<1> DEFINE j == job[e]
           t == j.tx
           m == Head(j.todo)
           v == IF Reverts(t) THEN "failed" ELSE "ok"
           k == [j EXCEPT !.mined = v]
<1>1. /\ Execute(t) /\ UNCHANGED <<clock, cards, score, evidence, votes, orphans, db, finals, reported, byHand>>
      /\ j.at = "receipt"
  BY DEF Mined, worldVars
<1>2. /\ TxOK(t, payout, finals, reported) /\ t \in Tx /\ t.market = m /\ t.outcome = j.basis /\ j.basis \in Outcomes
      /\ InHand(j, m, slots, payout, finals, reported)
  BY <1>1, Sent
<1>3. Sound(t, byHand') /\ Sound(t, byHand)
  BY <1>2 DEF Sound, TxOK
<1>4. Grown(slots, payout, finals, reported, slots', payout', finals', reported')
  BY <1>1, <1>3, ExecuteGrows
<1>5. \A f \in Executions : JobOK(job[f], slots', payout', finals', reported')
  BY <1>4, OthersStay
<1>6. j \in Job /\ JobOK(j, slots', payout', finals', reported') /\ m \in Markets
  BY <1>1, <1>2, <1>5, Holds DEF Tx
<1>7. job' = [job EXCEPT ![e] = k]
  BY <1>6 DEF Mined, ResInv, ResTyped
<1>8. Landed(k, m, slots', payout')
  <2>1. k.mined = v /\ k.tx = t /\ k.basis = j.basis
    BY <1>6 DEF Job
  <2>2. slots \in [Markets -> [Names -> Recordable]] /\ payout \in [Markets -> Recordable]
    BY DEF ResInv, ResTyped
  <2>3. t.kind \in {"attestation", "consensus", "fallback", "arbitrated"}
    BY <1>2 DEF Tx
  <2> HIDE DEF k, t, m
  <2>4. CASE Reverts(t)
    BY <2>1, <2>4 DEF Landed
  <2>5. CASE ~Reverts(t) /\ t.kind = "attestation"
    <3>1. t.agent \in Names
      BY <1>2, <2>5 DEF TxOK
    <3>2. slots' = [slots EXCEPT ![t.market][t.agent] = t.outcome]
      BY <1>1, <2>5 DEF Execute
    <3>3. slots'[m][t.agent] = t.outcome
      BY <1>2, <1>6, <2>2, <3>1, <3>2
    <3> QED BY <2>1, <2>5, <3>3 DEF Landed
  <2>6. CASE ~Reverts(t) /\ t.kind = "fallback"
    <3>1. majority(slots[m]) = j.basis
      BY <1>2, <2>6 DEF InHand, t
    <3>2. payout' = [payout EXCEPT ![m] = majority(slots[m])]
      BY <1>1, <1>2, <2>6 DEF Execute
    <3>3. payout'[m] = j.basis
      BY <1>6, <2>2, <3>1, <3>2
    <3> QED BY <2>1, <2>6, <3>3 DEF Landed
  <2>7. CASE ~Reverts(t) /\ t.kind \in {"consensus", "arbitrated"}
    <3>2. payout' = [payout EXCEPT ![m] = t.outcome]
      BY <1>1, <1>2, <2>7 DEF Execute
    <3>3. payout'[m] = j.basis
      BY <1>2, <1>6, <2>2, <3>2
    <3> QED BY <2>1, <2>7, <3>3 DEF Landed
  <2> QED BY <2>3, <2>4, <2>5, <2>6, <2>7
<1>9. /\ k \in Job /\ k.at = j.at /\ k.older = j.older /\ k.open = j.open /\ k.todo = j.todo /\ k.basis = j.basis
      /\ k.tx = j.tx /\ k.slots = j.slots /\ k.ask = j.ask
  BY <1>6 DEF Job
<1> HIDE DEF k, t
<1>10. JobOK(k, slots', payout', finals', reported')
  <2>1. /\ Due(j, m, payout', finals') /\ InHand(j, m, slots', payout', finals', reported') /\ j.todo # <<>>
        /\ (j.older # {} => j.open)
    BY <1>1, <1>6 DEF JobOK
  <2>2. Due(k, m, payout', finals') /\ InHand(k, m, slots', payout', finals', reported')
    BY <1>9, <2>1 DEF Due, InHand, Known
  <2> QED BY <1>1, <1>2, <1>8, <1>9, <2>1, <2>2 DEF JobOK
<1>11. job' \in [Executions -> Job] /\ \A f \in Executions : JobOK(job'[f], slots', payout', finals', reported')
  BY <1>5, <1>7, <1>9, <1>10 DEF ResInv, ResTyped
<1>12. byHand \subseteq byHand' /\ byHand' \subseteq Markets /\ orphans' \subseteq orphans
  BY <1>1 DEF ResInv, ResTyped
<1> QED BY <1>1, <1>3, <1>11, <1>12, ExecuteKeeps
----------------------------------------------------------------------------
(* The world.                                                              *)
LEMMA WorldKeeps ==
    ASSUME ResInv, UNCHANGED <<cards, slots, payout, orphans, db, job, finals, reported, byHand>>,
           clock' \in Nat, score' = score, evidence' \in [Markets -> Answered], votes' \in [Markets -> [Outcomes -> Nat]]
    PROVE  ResInv'
<1>1. ResTyped'
  BY DEF ResInv, ResTyped
<1>2. JobsOK' /\ OrphansOK' /\ ScoresKept' /\ SlotsOK'
  BY DEF ResInv, JobsOK, OrphansOK, ScoresKept, SlotsOK
<1>3. MirrorAgrees' /\ PaysAFinalScore' /\ AttestedAsReported'
  BY DEF ResInv, MirrorAgrees, PaysAFinalScore, AttestedAsReported
<1> QED BY <1>1, <1>2, <1>3 DEF ResInv

LEMMA ElapseKeeps == ASSUME ResInv, Elapse PROVE ResInv'
<1>1. /\ UNCHANGED <<cards, slots, payout, orphans, db, job, finals, reported, byHand>>
      /\ clock' \in Nat /\ score' = score /\ evidence' \in [Markets -> Answered] /\ votes' \in [Markets -> [Outcomes -> Nat]]
  BY DEF Elapse, chainVars, ResInv, ResTyped
<1> QED BY <1>1, WorldKeeps

LEMMA LearnKeeps == ASSUME ResInv, NEW m \in Markets, NEW r \in Answered, Learn(m, r) PROVE ResInv'
<1>1. /\ UNCHANGED <<cards, slots, payout, orphans, db, job, finals, reported, byHand>>
      /\ clock' \in Nat /\ score' = score /\ evidence' \in [Markets -> Answered] /\ votes' \in [Markets -> [Outcomes -> Nat]]
  BY DEF Learn, News, chainVars, ResInv, ResTyped
<1> QED BY <1>1, WorldKeeps

LEMMA VoteKeeps == ASSUME ResInv, NEW m \in Markets, NEW o \in Outcomes, castVote(m, o) PROVE ResInv'
<1>1. votes \in [Markets -> [Outcomes -> Nat]] /\ votes' = [votes EXCEPT ![m][o] = @ + 1]
  BY DEF castVote, ResInv, ResTyped
<1>2. votes' \in [Markets -> [Outcomes -> Nat]]
  BY <1>1
<1>3. /\ UNCHANGED <<cards, slots, payout, orphans, db, job, finals, reported, byHand>>
      /\ clock' \in Nat /\ score' = score /\ evidence' \in [Markets -> Answered]
  BY DEF castVote, News, ResInv, ResTyped
<1> QED BY <1>2, <1>3, WorldKeeps

LEMMA ScoreKeeps == ASSUME ResInv, NEW m \in Sports, NEW s \in Scores, upsert_score(m, s) PROVE ResInv'
<1>1. /\ UNCHANGED <<clock, cards, evidence, slots, votes, payout, orphans, db, job, reported, byHand>>
      /\ score' = [score EXCEPT ![m] = s]
      /\ finals' = [finals EXCEPT ![m] = @ \cup ({s} \cap Done)]
  BY DEF upsert_score, chainVars
<1>2. m \in Markets /\ finals \in [Markets -> SUBSET Done] /\ score \in [Markets -> Scores]
  BY MarketKinds DEF ResInv, ResTyped
<1>3. score' \in [Markets -> Scores] /\ finals' \in [Markets -> SUBSET Done] /\ \A n \in Markets : finals[n] \subseteq finals'[n]
  BY <1>1, <1>2
<1>4. Grown(slots, payout, finals, reported, slots', payout', finals', reported')
  BY <1>1, <1>3 DEF Grown
<1>5. ResTyped'
  BY <1>1, <1>3 DEF ResInv, ResTyped
<1>6. JobsOK' /\ OrphansOK'
  BY <1>1, <1>4, OthersStay DEF JobsOK, OrphansOK
<1>7. ScoresKept'
  <2>1. ASSUME NEW n \in Markets, score'[n] # None PROVE score'[n] \in finals'[n]
    <3>1. CASE n = m
      BY <1>1, <1>2, <2>1, <3>1 DEF Done
    <3>2. CASE n # m
      BY <1>1, <1>2, <2>1, <3>2 DEF ResInv, ScoresKept
    <3> QED BY <3>1, <3>2
  <2> QED BY <2>1 DEF ScoresKept
<1>8. SlotsOK'
  BY <1>1, <1>3, MarketKinds DEF ResInv, SlotsOK
<1>9. MirrorAgrees' /\ PaysAFinalScore'
  BY <1>1, <1>3, MarketKinds DEF ResInv, MirrorAgrees, PaysAFinalScore
<1>10. AttestedAsReported'
  <2>1. finals[Game] # {} => finals'[Game] # {}
    BY <1>3, MarketKinds
  <2> QED BY <1>1, <2>1 DEF ResInv, AttestedAsReported
<1> QED BY <1>5, <1>6, <1>7, <1>8, <1>9, <1>10 DEF ResInv
----------------------------------------------------------------------------
LEMMA ResInit == Init => ResInv
<1> SUFFICES ASSUME Init PROVE ResInv
  OBVIOUS
<1>1. ResTyped
  <2>1. None \in Scores /\ None \in Recordable /\ 0 \in Nat
    BY DEF Scores, Recordable
  <2>2. job \in [Executions -> Job]
    BY IdleJob DEF Init
  <2>3. NoSlots \in [Names -> Recordable]
    BY <2>1 DEF NoSlots
  <2>4. slots \in [Markets -> [Names -> Recordable]] /\ votes \in [Markets -> [Outcomes -> Nat]]
    BY <2>1, <2>3 DEF Init
  <2> QED BY <2>1, <2>2, <2>4 DEF ResTyped, Init
<1>2. JobsOK
  BY DEF JobsOK, JobOK, Init, Idle
<1>3. OrphansOK /\ ScoresKept /\ MirrorAgrees /\ PaysAFinalScore
  BY MarketKinds DEF OrphansOK, ScoresKept, MirrorAgrees, PaysAFinalScore, Init
<1>4. SlotsOK /\ AttestedAsReported
  BY MarketKinds DEF SlotsOK, AttestedAsReported, Init, NoSlots
<1> QED BY <1>1, <1>2, <1>3, <1>4 DEF ResInv

LEMMA ResWorld == ASSUME ResInv, World PROVE ResInv'
<1>1. ASSUME NEW m \in Markets, SentByOthers(m, "fallback", "yes") PROVE ResInv'
  <2>1. "yes" \in Outcomes
    BY DEF Outcomes
  <2> QED BY <1>1, <2>1, SentByOthersKeeps
<1> QED BY <1>1, ElapseKeeps, ScoreKeeps, LearnKeeps, VoteKeeps, SentByOthersKeeps, LandOrphanKeeps DEF World

LEMMA ResTick == ASSUME ResInv, NEW e \in Executions, Tick(e) PROVE ResInv'
<1>1. CASE cloud_run_lease(e) \/ market_cards(e, {}) \/ Look(e) \/ Check(e)
  BY <1>1, LeaseKeeps, CardsKeep, LookKeeps, CheckKeeps
<1>2. CASE Research(e) \/ ResearchRaises(e) \/ Judge(e, FALSE)
  BY <1>2, ResearchKeeps, ResearchRaisesKeeps, JudgeKeeps
<1>3. CASE run_fallback(e) \/ Attest(e) \/ Decide(e)
  BY <1>3, FallbackKeeps, AttestKeeps, DecideKeeps
<1>4. CASE Send(e) \/ Mined(e) \/ Receipt(e) \/ persist_resolution(e) \/ mark_resolved(e)
  BY <1>4, SendKeeps, MinedKeeps, ReceiptKeeps, PersistKeeps, MarkResolvedKeeps
<1> QED BY <1>1, <1>2, <1>3, <1>4 DEF Tick

LEMMA ResFailure == ASSUME ResInv, NEW e \in Executions, Failure(e) PROVE ResInv'
<1>1. CASE Overlapping(e) \/ LeaseFailsOpen(e) \/ Killed(e) \/ StageFails(e) \/ market_cards(e, Paused)
  BY <1>1, OverlappingKeeps, LeaseFailsOpenKeeps, KilledKeeps, StageFailsKeeps, CardsKeep
<1>2. CASE CooldownUnread(e) \/ MarketFails(e) \/ ResearchCut(e) \/ Judge(e, TRUE) \/ ReceiptTimeout(e) \/ PersistFails(e)
  BY <1>2, CooldownUnreadKeeps, MarketFailsKeeps, ResearchCutKeeps, JudgeKeeps, ReceiptTimeoutKeeps, PersistFailsKeeps
<1> QED BY <1>1, <1>2 DEF Failure

LEMMA ResStep == ResInv /\ [Next]_vars => ResInv'
<1> SUFFICES ASSUME ResInv, [Next]_vars PROVE ResInv'
  OBVIOUS
<1>1. CASE World
  BY <1>1, ResWorld
<1>2. ASSUME NEW e \in Executions, Scheduled(e) \/ Tick(e) \/ Failure(e) PROVE ResInv'
  BY <1>2, ScheduledKeeps, ResTick, ResFailure
<1>3. CASE UNCHANGED vars
  <2>1. Frame /\ job' = job
    BY <1>3 DEF vars, Frame
  <2> QED BY <2>1, Holds, FrameKeeps DEF ResInv, ResTyped
<1> QED BY <1>1, <1>2, <1>3 DEF Next

(* The invariant of the whole job: what each execution holds at each place *)
(* of its tick, what its late transactions may still do, and the           *)
(* properties below.                                                       *)
THEOREM ResolverInvariant == Spec => []ResInv
  BY ResInit, ResStep, PTL DEF Spec

(* What the API shows as resolved is what the chain pays, for every        *)
(* interleaving of ticks, of senders outside the job and of transactions   *)
(* that land after their execution was killed.                             *)
THEOREM RowsMirrorTheChain == Spec => []MirrorAgrees
<1>1. ResInv => MirrorAgrees
  BY DEF ResInv
<1> QED BY <1>1, ResolverInvariant, PTL

(* A sports market that nobody arbitrated by hand pays an outcome that a   *)
(* final score has given.                                                  *)
THEOREM SportsPayTheScore == Spec => []PaysAFinalScore
<1>1. ResInv => PaysAFinalScore
  BY DEF ResInv
<1> QED BY <1>1, ResolverInvariant, PTL

(* An attestation on the chain is one that the agent reported in a         *)
(* research that ran, and a child's only once its game was over.           *)
THEOREM AttestationsWereReported == Spec => []AttestedAsReported
<1>1. ResInv => AttestedAsReported
  BY DEF ResInv
<1> QED BY <1>1, ResolverInvariant, PTL

(* While an older tick is under way a younger one is past the lease only   *)
(* if its check of the executions failed.                                  *)
THEOREM OneTickAtATime == Spec => []SingleFlight
<1>1. ResInv => SingleFlight
  BY DEF ResInv, JobsOK, JobOK, SingleFlight
<1> QED BY <1>1, ResolverInvariant, PTL
=============================================================================
