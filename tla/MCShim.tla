------------------------------- MODULE MCShim -------------------------------
(***************************************************************************)
(* Shim for TLC: a path, a route whose bundle has it and one whose bundle  *)
(* has not.  There is one key: but for a write, which forgets them all, no *)
(* step looks at two entries of the memo.  Three GETs are a leader, a      *)
(* follower and one that finds what they left; two workflows are a         *)
(* navigation that another one overtakes.  With one tick a moment is       *)
(* within the window or it is not.                                         *)
(***************************************************************************)
EXTENDS Shim

Paths == [k |-> "u"]
Bundles == [r1 |-> {"u"}, r2 |-> {}]
=============================================================================
