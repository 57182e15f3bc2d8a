----------------------------- MODULE MCMinixFs -----------------------------
(* Values for the model checker: see README.md, "Runs". *)
EXTENDS MinixFs, TLC

Symmetry == Permutations(Names)
=============================================================================
