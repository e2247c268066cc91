----------------------------- MODULE MCSlotQueue -----------------------------
(***************************************************************************)
(* Four operations on a pool of two slots: enough for two waiters behind   *)
(* two owners, any of which may be destroyed in any order.                 *)
(***************************************************************************)
EXTENDS SlotQueue
==============================================================================
