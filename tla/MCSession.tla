----------------------------- MODULE MCSession -----------------------------
(***************************************************************************)
(* Session for TLC.  One session runs every program of up to two touches,  *)
(* in each mode: two touches are the least at which a late touch can come  *)
(* after a later one, and the continuation goes there and back.  A pin     *)
(* matters to runLocal only, to a touch that would cross from home: only   *)
(* segments that run on any tier are pinned.  Two sessions, driven from    *)
(* opposite tiers, run two programs of one touch each, for what they       *)
(* share: the connection, its order and the heaps.                         *)
(***************************************************************************)
EXTENDS Session

First == CHOOSE x \in Session : TRUE
NotPinned == {g \in Segment : ~g.pinned}
PinnedAnywhere == {g \in Segment : g.pinned => g.needs = Tier}
UpTo(n, segments) == UNION {[1..i -> segments] : i \in 1..n}

Play(p, m) ==
  [program |-> [s \in Session |-> IF s = First THEN p ELSE <<>>],
   mode |-> [s \in Session |-> IF s = First THEN m ELSE "run"]]
Alone ==
  {Play(p, m) : p \in UpTo(2, NotPinned), m \in {"run", "call"}}
    \cup {Play(p, "local") : p \in UpTo(2, PinnedAnywhere)}

Crossing ==
  {<<[owner |-> o, guarded |-> FALSE, needs |-> Tier, pinned |-> FALSE]>> : o \in Tier}
Together == [program : [Session -> Crossing], mode : [Session -> {"run", "call"}]]

AllCasts == Alone \cup Together

Opposite == [s \in Session |-> IF s = First THEN "browser" ELSE "server"]
=============================================================================
