------------------------------- MODULE MCFunds -------------------------------
(* Values for checking Funds.                                              *)
EXTENDS Funds, TLC
Symmetry == Permutations(Sweeps) \cup Permutations(Handlers)
=============================================================================
