----------------------------- MODULE MCService -----------------------------
(***************************************************************************)
(* Service for TLC: three calls, two of one route, so that a turn can make  *)
(* a request of one, of two, and two requests.  Either faults may happen    *)
(* and the clock stands still (with the monitor's process dying: two calls, *)
(* in one request or two, one of which may come after its exit); or nothing *)
(* fails and the clock runs: the budget is one call in a window of two      *)
(* ticks, the routes are one principal's (three calls against one budget)   *)
(* or two's, and two calls of different principals may lie two windows apart.*)
(***************************************************************************)
EXTENDS Service, TLC

CONSTANTS c1, c2, c3, r1, r2, p1, p2

Made(calls, p, faults, until) ==
  [calls |-> calls, route |-> (c1 :> r1) @@ (c2 :> r1) @@ (c3 :> r2),
   bearer |-> (r1 :> p1) @@ (r2 :> p), faults |-> faults, until |-> until]

All == {c1, c2, c3}
Faulty == {Made(All, p2, {"close", "no host"}, Window),
           Made({c1, c2}, p2, {"close", "exit", "no host", "throw"}, Window)}
Timed == {Made(All, p1, {}, 2 * Window - 1), Made(All, p2, {}, 2 * Window),
          Made({c1, c3}, p2, {}, 3 * Window)}
FaultyOrTimed == Faulty \cup Timed
=============================================================================
