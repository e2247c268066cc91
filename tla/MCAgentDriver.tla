----------------------------- MODULE MCAgentDriver -----------------------------
(* A small instance of AgentDriver for TLC. *)
EXTENDS AgentDriver, TLC

Symmetry == Permutations(Sender) \union Permutations(Free) \union Permutations(Agent)
===============================================================================
