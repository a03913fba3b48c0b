------------------------------ MODULE MCRunner ------------------------------
(* Runner for TLC: the jobs are interchangeable. *)
EXTENDS Runner, TLC

JobSymmetry == Permutations(Jobs)
=============================================================================
