----------------------------- MODULE MCComputeJob -----------------------------
EXTENDS ComputeJob, TLC

Symmetry == Permutations(Req)
===============================================================================
