------------------------------ MODULE MCAppState ------------------------------
(* A small instance of AppState for TLC: a page that loads a simulation and  *)
(* saves it twice, or leaves it and comes back.                              *)
EXTENDS AppState
===============================================================================
