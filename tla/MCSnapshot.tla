----------------------------- MODULE MCSnapshot -----------------------------
(***************************************************************************)
(* Snapshot for TLC: three objects are the least in which an insertion or  *)
(* a removal in the middle shifts some and not others; three edits give    *)
(* every batch of three, and every split of three over write-backs with    *)
(* and without a fetch between them.                                       *)
(***************************************************************************)
EXTENDS Snapshot
=============================================================================
