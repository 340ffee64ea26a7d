------------------------------ MODULE Workflow ------------------------------
(***************************************************************************)
(* What a session promises, whatever tier its program runs on.  A program  *)
(* is a sequence of touches.  Each happens at most once, in program order  *)
(* and on the tier that owns its resource, and the program sees what came  *)
(* of it; nothing follows a failure that the program does not catch; there *)
(* is a value only when every touch has been seen, and without a failure   *)
(* of the connection or the program no error once it has.  A touch that    *)
(* leaves its tier may be given up before it is sent, and never happens;   *)
(* when the connection breaks, one that was sent may happen late.          *)
(*                                                                         *)
(* There is one exception, by name: Repeat.                                *)
(***************************************************************************)
EXTENDS Naturals, Sequences

CONSTANTS
  Session,    \* the sessions
  Home,       \* Home[s]: the tier session s is driven from
  Casts       \* the programs they may run together, and how each is driven

VARIABLES
  program,    \* program[s]: what session s runs
  mode,       \* mode[s]: the way it is driven
  saw,        \* saw[s]: what the program saw of its touches so far
  log,        \* log[s]: the touches that happened, oldest first
  result,     \* result[s]: "none", "value" or "error"
  up          \* the connection is up

vars == <<program, mode, saw, log, result, up>>

Init ==
  /\ [program |-> program, mode |-> mode] \in Casts
  /\ saw = [s \in Session |-> <<>>]
  /\ log = [s \in Session |-> <<>>]
  /\ result = [s \in Session |-> "none"]
  /\ up = TRUE

Last(s) == Len(saw[s])
Happened(s) == {log[s][i].touch : i \in DOMAIN log[s]}

\* The program saw its last touch fail, and does not catch the failure.
Cut(s) == Last(s) # 0 /\ ~saw[s][Last(s)].ok /\ ~program[s][Last(s)].guarded

\* The program is about to come to touch t.
Reaches(s, t) == ~Cut(s) /\ t = Last(s) + 1 /\ t \in DOMAIN program[s]

Sees(s, ok, from) == saw' = [saw EXCEPT ![s] = Append(@, [ok |-> ok, from |-> from])]

\* A touch happens where its resource lives; a pinned one may happen on any tier.
Happens(s, t, ok) ==
  \E tier \in {"browser", "server"} :
    /\ t \notin Happened(s)
    /\ tier = program[s][t].owner \/ program[s][t].pinned
    /\ log' = [log EXCEPT ![s] = Append(@, [touch |-> t, ok |-> ok, at |-> tier])]

\* The next touch happens, and the program sees how it went.
Touch(s) ==
  /\ result[s] = "none" \/ ~up
  /\ \E t \in DOMAIN program[s], ok \in BOOLEAN :
       Reaches(s, t) /\ Happens(s, t, ok) /\ Sees(s, ok, "touch")
  /\ UNCHANGED <<program, mode, result, up>>

\* The next touch happens away from the program, which waits for the answer.
TouchAhead(s) ==
  /\ result[s] = "none"
  /\ \E t \in DOMAIN program[s], ok \in BOOLEAN :
       Reaches(s, t) /\ program[s][t].owner # Home[s] /\ Happens(s, t, ok)
  /\ UNCHANGED <<program, mode, saw, result, up>>

See(s) ==
  /\ \E i \in DOMAIN log[s] : Reaches(s, log[s][i].touch) /\ Sees(s, log[s][i].ok, "touch")
  /\ UNCHANGED <<program, mode, log, result, up>>

\* The next touch is given up before it leaves, for an error.
Unsent(s) ==
  /\ \E t \in DOMAIN program[s] :
       Reaches(s, t) /\ program[s][t].owner # Home[s] /\ t \notin Happened(s)
  /\ Sees(s, FALSE, "unsent")
  /\ UNCHANGED <<program, mode, log, result, up>>

\* The program is told that the answer of its next touch is lost with the connection.
Lost(s) ==
  /\ ~up
  /\ \E t \in DOMAIN program[s] : Reaches(s, t) /\ program[s][t].owner # Home[s]
  /\ Sees(s, FALSE, "lost")
  /\ UNCHANGED <<program, mode, log, result, up>>

TouchLate(s) ==
  /\ ~up
  /\ \E t \in DOMAIN saw[s], ok \in BOOLEAN : saw[s][t].from = "lost" /\ Happens(s, t, ok)
  /\ UNCHANGED <<program, mode, saw, result, up>>

\* The exception: under runLocal a touch of a home resource that follows one of a far resource
\* does not happen, and the program sees the answer of the touch before in its place.
Repeat(s) ==
  /\ mode[s] = "local"
  /\ \E t \in DOMAIN program[s] : Reaches(s, t) /\ program[s][t].owner = Home[s]
  /\ Last(s) # 0
  /\ program[s][Last(s)].owner # Home[s] \/ saw[s][Last(s)].from = "before"
  /\ Sees(s, saw[s][Last(s)].ok, "before")
  /\ UNCHANGED <<program, mode, log, result, up>>

Return(s) ==
  /\ result[s] = "none"
  /\ ~Cut(s)
  /\ Last(s) = Len(program[s])
  /\ result' = [result EXCEPT ![s] = "value"]
  /\ UNCHANGED <<program, mode, saw, log, up>>

\* The session fails: by its program's error, because it cannot go on to its next touch, or
\* with the connection.
Fail(s) ==
  /\ result[s] = "none"
  /\ Cut(s) \/ Last(s) < Len(program[s]) \/ ~up
  /\ result' = [result EXCEPT ![s] = "error"]
  /\ UNCHANGED <<program, mode, saw, log, up>>

Break ==
  /\ up
  /\ up' = FALSE
  /\ UNCHANGED <<program, mode, saw, log, result>>

Next ==
  \/ \E s \in Session :
       \/ Touch(s)
       \/ TouchAhead(s)
       \/ See(s)
       \/ Unsent(s)
       \/ Lost(s)
       \/ TouchLate(s)
       \/ Repeat(s)
       \/ Return(s)
       \/ Fail(s)
  \/ Break

Spec == Init /\ [][Next]_vars

=============================================================================
