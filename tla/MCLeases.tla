------------------------------ MODULE MCLeases ------------------------------
(* Values for checking Leases: nodes are interchangeable, and so are runs. *)
EXTENDS Leases, TLC

Symmetry == Permutations(Nodes) \cup Permutations(Runs)
=============================================================================
