---------------------------- MODULE MCCatalogue ----------------------------
(* One user listing and one operator market.  "edited" is a question no    *)
(* gate objects to but that nobody prepared.                               *)
EXTENDS Catalogue, TLC

CONSTANTS i1, i2, r1, u, m

(* Two blocks and one leader are enough for the listing routes (a market   *)
(* and its duplicate, a listing and its pause); a longer chain, skipped    *)
(* blocks and a lost leadership are explored with the operator's market    *)
(* alone, all three at once on two blocks.  The instances are              *)
(* interchangeable: i1 is the first to lead.                               *)
MCScope ==
    /\ lost = 0 => leader # i2
    /\ lost = 0 \/ floor = 0 \/ Len(chain) <= 2
    /\ \/ \A c \in UserMarkets : ~marketExists(c) /\ listing[c].status = None
       \/ lost = 0 /\ floor = 0 /\ Len(chain) <= 2
============================================================================
