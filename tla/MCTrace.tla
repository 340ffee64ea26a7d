------------------------------ MODULE MCTrace ------------------------------
(***************************************************************************)
(* Trace for TLC: two sites of the far tier, which can follow each other,   *)
(* and one of the home tier, which cuts a suffix; the last home touch, a    *)
(* crossing and a touch on either side need a path of five events.          *)
(***************************************************************************)
EXTENDS Trace

OwnerOf == [s \in Site |-> IF s = "a" THEN "home" ELSE "far"]

Way(mode, priced, recorders) == [mode |-> mode, priced |-> priced, recorders |-> recorders]
Ways ==
  {Way(m, p, Tier) : m \in {"run", "call"}, p \in BOOLEAN}
    \cup {Way("local", FALSE, Tier), Way("run", FALSE, {"home"})}
=============================================================================
