------------------------------ MODULE MCSeason ------------------------------
(* Three weeks: the teams of the first meet again in the second, and the   *)
(* third is listed when that second meeting is over.                       *)
EXTENDS Season, TLC

MCWeek == <<1, 2, 3>>
MCQuestion == <<"a", "a", "b">>
MCKickoffs == <<{1}, {2, 3}, {5}>>
=============================================================================
