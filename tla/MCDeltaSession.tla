--------------------------- MODULE MCDeltaSession ---------------------------
(***************************************************************************)
(* DeltaSession for TLC: two locals and objects of two slots, so that a     *)
(* graph can share, cycle and change its order.                             *)
(***************************************************************************)
EXTENDS DeltaSession
=============================================================================
