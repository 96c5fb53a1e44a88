----------------------------- MODULE MCTradePath -----------------------------
(* Values for checking TradePath: nodes, runs and trades are               *)
(* interchangeable.                                                        *)
EXTENDS TradePath, TLC

Symmetry == Permutations(Nodes) \cup Permutations(Runs) \cup Permutations(Trades)
=============================================================================
