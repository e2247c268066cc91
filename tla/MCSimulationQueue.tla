-------------------------- MODULE MCSimulationQueue --------------------------
(* A small instance of SimulationQueue for TLC. *)
EXTENDS SimulationQueue
==============================================================================
