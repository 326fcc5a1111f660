------------------------------ MODULE FillOnce ------------------------------
(***************************************************************************)
(* What the CLOB relayer promises for every match the book has made: the   *)
(* job of a match is open until it is settled or dropped; its fill lands   *)
(* on chain once at most, only while the job is open; a job is settled     *)
(* only when its fill has landed, dropped only when it has not; and both   *)
(* are final, so a dropped job's fill never lands later.                   *)
(***************************************************************************)
CONSTANT Jobs

VARIABLES
    phase,      \* what the tables say of a job
    landed      \* the places on chain where its fill took effect

fillVars == <<phase, landed>>

Init ==
    /\ phase = [j \in Jobs |-> "none"]
    /\ landed = [j \in Jobs |-> {}]

Keep(j) == phase'[j] = phase[j] /\ landed'[j] = landed[j]

Open(j) == phase[j] = "none" /\ phase'[j] = "open" /\ landed'[j] = landed[j]

Land(j) ==
    /\ phase[j] = "open" /\ phase'[j] = "open"
    /\ landed[j] = {}
    /\ \E i \in landed'[j] : landed'[j] = {i}

Settle(j) ==
    /\ phase[j] = "open" /\ phase'[j] = "settled"
    /\ landed[j] # {} /\ landed'[j] = landed[j]

Drop(j) ==
    /\ phase[j] = "open" /\ phase'[j] = "dropped"
    /\ landed[j] = {} /\ landed'[j] = {}

(* One step of the system may open, settle or drop several jobs.           *)
Next == \A j \in Jobs : Keep(j) \/ Open(j) \/ Land(j) \/ Settle(j) \/ Drop(j)

Spec == Init /\ [][Next]_fillVars
=============================================================================
