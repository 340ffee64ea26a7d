----------------------------- MODULE MCCoherence -----------------------------
(***************************************************************************)
(* Coherence for TLC: two runs that share the reader's cache against one   *)
(* run of the owner.  Two copies are the least at which an entry is        *)
(* another copy's; three writes let each of two runs and the owner write,  *)
(* or one run write again over the outcome of two.                         *)
(***************************************************************************)
EXTENDS Coherence, TLC

Symmetry == Permutations(Run) \cup Permutations(Slot)
==============================================================================
