---------------------------- MODULE MCEmissions ----------------------------
(* Two requests over one payload.  Requests are interchangeable: nothing   *)
(* orders them, and no property names one.                                 *)
EXTENDS Emissions, TLC

CONSTANTS q1, q2, k1

MCSymmetry == Permutations(Requests)
=============================================================================
