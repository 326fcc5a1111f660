----------------------------- MODULE MCRelayer -----------------------------
(* One resting sell order for two units and two takers: the first takes    *)
(* one, the second wants two and gets what is left, so that a job may fail *)
(* and leave room on chain for another to be filled twice.                 *)
EXTENDS Relayer, TLC

CONSTANTS seller, buyer1, buyer2

MCBook ==
    (1 :> [maker |-> seller, isBuy |-> FALSE, price |-> 5, amount |-> 2])
      @@ (2 :> [maker |-> buyer1, isBuy |-> TRUE, price |-> 5, amount |-> 1])
      @@ (3 :> [maker |-> buyer2, isBuy |-> TRUE, price |-> 6, amount |-> 2])

(* Fills by others and transactions of a foreign user of the key are       *)
(* explored apart: they meet only in the order of the chain.  With two     *)
(* jobs a foreign transaction is the first that is mined.                  *)
MCScope ==
    /\ foreign = 0 \/ \A o \in OrderIds : ~FilledByOthers(o)
    /\ foreign = 1 => \/ job[2].status = "none" \/ chain = <<>>
                      \/ \E i \in 1..Len(chain) : chain[i].job = NoJob

(* A second order is cancelled (by a DELETE or by the worker) only while   *)
(* no job has been tried.  A nonce is called used before it is mined only  *)
(* while there is one job and nothing is cancelled.                        *)
Withdrawn ==
    {o \in OrderIds : order[o].cancelled} \cup {c.order : c \in {cancel} \ {NoCancel}}
CalledUsed ==
    {j \in Jobs : \/ job[j].consumed # None
                  \/ job[j].status = "pending" /\ Receipts(j) # {}
                  \/ work.job = j /\ work.kind = "nonce_low"}
MCCancelScope ==
    /\ Cardinality(Withdrawn) <= 1 \/ \A j \in Jobs : job[j].attempts = 0
    /\ CalledUsed # {} => Withdrawn = {} /\ job[2].status = "none"
=============================================================================
