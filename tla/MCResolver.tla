----------------------------- MODULE MCResolver ----------------------------
(* A sports market, its wildcard child and a user listing.                 *)
EXTENDS Resolver, TLC

CONSTANTS e1, e2, s, c, u, v, x, broken

Says(o, sure) == [outcome |-> o, sure |-> sure]
All(o) == [a \in Names |-> Says(o, TRUE)]
Split(o) == [a \in Names |-> Says(IF a = "gamma" THEN Against(o) ELSE o, TRUE)]
Unsure == [a \in Names |-> Says("yes", a # "beta")]
Unknown == [a \in Names |-> Says(IF a = "alpha" THEN "unknown" ELSE "yes", TRUE)]

MCReports == {All("yes"), All("no"), Split("yes"), Split("no"), Unsure, Unknown}
MCLists == {<<s>>, <<u>>, <<s, c>>, <<u, v>>, <<x>>, <<s, u>>}
MCNews == [l \in MCLists |-> IF l = <<s>> THEN 2 ELSE IF l = <<s, u>> THEN 4 ELSE 1]

TwoListings == {<<u, v>>}
OneNews == [l \in TwoListings |-> 1]
TwoReports == {All("no"), Split("yes")}

(* The sports market is attested against, the score is corrected and the   *)
(* agents come round to it, and then the listing is arbitrated by hand.    *)
BlockedScope ==
    /\ clock < Horizon => \A e \in Executions : job[e].at = "idle"
    /\ \A e \in Executions : job[e].left = 2 => job[e].stage = "general"
    /\ score[s] \in {None, "yes", "no"} /\ evidence[s] \in {Split("yes"), All("yes")} /\ evidence[u] = Broken
    /\ news = 0 => evidence[s] = Split("yes")
    /\ news = 1 => score[s] = "no"
    /\ news = 3 => evidence[s] = All("yes") /\ score[s] = "yes"
    /\ byHand \subseteq {u} /\ (byHand # {} => news = 4)
    /\ \A m \in Markets : Total(votes[m]) = 0
    /\ faults > 0 => orphans # {} \/ \E a \in Names : slots[s][a] # None

(* Two markets are explored with one execution, and so is a score that is  *)
(* corrected; two executions with one market.  The executions are          *)
(* interchangeable: e2 is the one that overlaps another.  With one market  *)
(* research uses the budget up; with two nobody votes, and of those only a *)
(* listing beside a sports market is arbitrated.                           *)
MCScope ==
    /\ job[e2].at # "idle" => faults > 0 /\ cards \in {<<s>>, <<u>>} /\ news <= 1
    /\ news = 2 => score[s] \in Outcomes
    /\ cards = <<s>> => evidence[s] \in {All("yes"), All("no"), Split("yes"), Broken}
    /\ cards = <<u>> => evidence[u] \notin {All("no"), Split("no")}
    /\ job[e2].at # "idle" => \A m \in ToSet(cards) : evidence[m] \in {All("yes"), Split("yes")}
    /\ cards = <<x>> => evidence[x] = All("yes")
    /\ Len(cards) = 1 => \A e \in Executions : job[e].left # 2
    /\ cards \in {<<s, c>>, <<u, v>>} =>
                         /\ evidence[cards[1]] \in {All("yes"), Unknown, Broken}
                         /\ evidence[cards[2]] \in {All("yes"), Split("yes")}
                         /\ byHand = {} /\ \A m \in Markets : Total(votes[m]) = 0
    /\ cards = <<s, u>> => BlockedScope
============================================================================
