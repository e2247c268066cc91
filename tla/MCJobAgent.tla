------------------------------ MODULE MCJobAgent ------------------------------
(* A small instance of JobAgent for TLC. *)
EXTENDS JobAgent, TLC

Symmetry == Permutations(Job)
===============================================================================
