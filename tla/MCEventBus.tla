----------------------------- MODULE MCEventBus ----------------------------
(***************************************************************************)
(* Two subscribers of one bus with room for two events each.               *)
(***************************************************************************)
EXTENDS EventBus, TLC

Interchangeable == Permutations(Subs)
============================================================================
