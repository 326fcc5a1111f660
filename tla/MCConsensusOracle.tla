------------------------- MODULE MCConsensusOracle -------------------------
(* One market and two holders with enough USDC for a tie, for exactly two  *)
(* thirds and for less.                                                    *)
EXTENDS ConsensusOracle, TLC

CONSTANTS alice, bob, oracle, market, a1, a2, a3

MCOracleOf == (market :> oracle)
MCAgents == <<a1, a2, a3>>
============================================================================
