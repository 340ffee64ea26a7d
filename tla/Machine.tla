------------------------------ MODULE Machine ------------------------------
(***************************************************************************)
(* A compiled program running across the tiers: the step functions that     *)
(* compileFn emits, the driver emitted beside them (__dispatch,             *)
(* __unwindStep, __unwind) and the pump of packages/tierless/src/runtime.mts *)
(* that steps the top frame, parks the stack home, migrates it to the owner *)
(* of a touch or has the touch done there, and routes failures into the     *)
(* frames' handlers.                                                        *)
(*                                                                         *)
(* What the program does is compared with what its source means in          *)
(* JavaScript (Source!Meaning) under the same outcomes of its calls.  The   *)
(* outcomes are chosen as they are needed and kept in `chosen`.             *)
(*                                                                         *)
(* One step function call, from one suspension to the next, is one action:  *)
(* it is synchronous code.  The transport's failures, the arms of run and   *)
(* fetch and the write-backs are in Session.tla and Snapshot.tla; dynamic   *)
(* calls and twins are not modelled.                                        *)
(***************************************************************************)
EXTENDS Lowering, FiniteSets

CONSTANTS Runs,         \* programs (functions from names to bodies), each with its
                        \* machines and the tier ("plain" for any) each slot lives on
          Tiers, Start, \* where touches can be pinned; where the program starts
          MaxChoices    \* bound on the open outcomes of one run

ASSUME RunsAssumption == \A r \in Runs : r.code = Compile(r.prog)

VARIABLES prog,      \* the source
          code,      \* its machines
          home,      \* where each slot lives: elsewhere it is a handle
          stack,     \* frames, the last is on top
          tier,      \* where the stack is
          incoming,  \* the touch it was parked for, <<>> if none
          pending,   \* outcomes chosen and not used yet
          chosen,    \* all outcomes chosen
          events,    \* what happened
          result     \* <<>>, or what the program ended with

vars == <<prog, code, home, stack, tier, incoming, pending, chosen, events, result>>

NoC == [type |-> "none"]
Frame(f) == [fn |-> f, pc |-> code[f].boot, h |-> <<>>, c |-> NoC, err |-> "no",
             ret |-> "no", tmp |-> <<>>]

(***************************************************************************)
(* The driver.                                                              *)
(***************************************************************************)
Pop(h) == IF h = <<>> THEN h ELSE Front(h)

\* The handler to enter with an error, at its pc; 0 when it escapes the frame.
RECURSIVE Dispatch(_, _)
Dispatch(F, err) ==
    LET h == Last(F.h)
        entered(state) == [F.h EXCEPT ![Len(F.h)].state = state]
    IN  IF F.h = <<>> THEN [F EXCEPT !.pc = 0]
        ELSE IF h.catch # 0 /\ h.state = 0
        THEN [F EXCEPT !.pc = h.catch, !.err = err, !.h = entered(1)]
        ELSE IF h.fin # 0 /\ h.state < 2
        THEN [F EXCEPT !.pc = h.fin, !.h = entered(2), !.c = [type |-> "throw", arg |-> err]]
        ELSE Dispatch([F EXCEPT !.h = Front(@)], err)

\* The next finally that a pending exit must run, at its pc; 0 when none is left.
RECURSIVE UnwindStep(_)
UnwindStep(F) ==
    IF F.c.steps = <<>> THEN [F EXCEPT !.pc = 0]
    ELSE LET rest == [F EXCEPT !.c.steps = Tail(@)]
         IN  IF Head(F.c.steps) = 0 THEN UnwindStep([rest EXCEPT !.h = Pop(@)])
             ELSE [rest EXCEPT !.pc = Head(F.c.steps)]

\* Variant: the error is offered to the top frame only.
UnwindTop(frames, err) ==
    IF frames = <<>> THEN frames ELSE Append(Front(frames), Dispatch(Last(frames), err))
\* The stack with the innermost handler of any frame entered; empty if none is.
RECURSIVE Unwind(_, _)
Unwind(frames, err) ==
    IF frames = <<>> THEN frames
    ELSE LET F == Dispatch(Last(frames), err)
         IN  IF F.pc # 0 THEN Append(Front(frames), F) ELSE Unwind(Front(frames), err)

(***************************************************************************)
(* One call of a step function.  m holds the frame, the computation's state *)
(* and what it returned: "on" until it does.                                *)
(***************************************************************************)
Returns(m, op, arg) == [m EXCEPT !.op = op, !.arg = arg]
\* Plain code that throws leaves the step function and the pump: "escape".
Settles(m, s) ==
    [m EXCEPT !.s = s,
              !.op = IF Goes(s) THEN @ ELSE IF s.how = "throw" THEN "escape" ELSE s.how]

RECURSIVE RunLines(_, _)
RunLines(lines, m) ==
    IF lines = <<>> \/ m.op # "on" THEN m
    ELSE LET l == Head(lines)
         IN  RunLines(Tail(lines),
               CASE l.op = "eval"   -> Settles(m, Eval(l.e, m.s))
                 [] l.op = "set"    -> Settles(m, Exec(Assign(l.i, l.e), m.s))
                 [] l.op = "ret"    -> [m EXCEPT !.s.tmp = (l.i :> m.F.ret) @@ @]
                 [] l.op = "err"    -> [m EXCEPT !.s = Happens(@, <<"caught", m.F.err>>)]
                 [] l.op = "pop"    -> [m EXCEPT !.F.h = Pop(@)]
                 [] l.op = "settle" -> [m EXCEPT !.F.h[Len(m.F.h)].state = 2, !.F.c = NoC])

\* A pending completion is carried out when no finally is left to run.
Complete(m, F) ==
    CASE F.pc # 0 -> [m EXCEPT !.F = F]
      [] F.pc = 0 /\ F.c.type = "return" ->
            Returns([m EXCEPT !.F = [F EXCEPT !.c = NoC]], "return", F.c.value)
      [] F.pc = 0 /\ F.c.type # "return" ->
            [m EXCEPT !.F = [F EXCEPT !.c = NoC, !.pc = F.c.target]]

\* F is the frame as the error found it; it escapes when no handler was entered.
Throws(m, F, err) == IF F.pc # 0 THEN [m EXCEPT !.F = F] ELSE Returns(m, "throw", err)

\* The end of a finally: go on, or take up what was pending.
Finish(t, m, F) ==
    CASE F.c.type = "none"  -> [m EXCEPT !.F = [F EXCEPT !.pc = t.after]]
      [] F.c.type = "throw" -> Throws(m, Dispatch([F EXCEPT !.c = NoC], F.c.arg), F.c.arg)
      [] F.c.type \notin {"none", "throw"} -> Complete(m, UnwindStep(F))

\* Where the step function goes, or what it returns, its expression computed.
At(m, pc) == [m EXCEPT !.F.pc = pc]
Leaving(t, m) ==
    [m.F EXCEPT !.c = [type |-> t.type, value |-> m.s.val, target |-> t.target,
                       steps |-> t.steps]]
\* The value thrown is computed again when it escapes the frame.
Rethrown(t, m) == IF m.op = "on" THEN m ELSE Settles(m, Eval(t.e, m.s))
Terminated(t, m) ==
    IF m.op # "on" THEN m ELSE
    CASE t.kind = "jump"   -> At(m, t.to)
      [] t.kind = "branch" -> At(m, IF m.s.val = "yes" THEN t.then ELSE t.else)
      [] t.kind = "susp"   -> Returns(At(m, t.resume), "resource", t.e)
      [] t.kind = "call"   -> Returns(At(m, t.resume), "call", t.e.f)
      [] t.kind = "ret"    -> Returns(m, "return", m.s.val)
      [] t.kind = "throw"  -> Rethrown(t, Throws(m, Dispatch(m.F, m.s.val), m.s.val))
      [] t.kind = "push"   ->
            [m EXCEPT !.F.pc = t.to,
                      !.F.h = Append(@, [catch |-> t.catch, fin |-> t.fin, state |-> 0])]
      [] t.kind = "finish" -> Finish(t, m, [m.F EXCEPT !.h = Pop(@)])
      [] t.kind = "abrupt" -> Complete(m, UnwindStep(Leaving(t, m)))

Computed(t, s) ==
    CASE t.kind \in {"branch", "ret", "throw", "abrupt"} -> Eval(t.e, s)
      [] t.kind \in {"susp", "call"}     -> EvalAll(t.e.args, s)
      [] t.kind \in {"jump", "push", "finish"} -> s
RunTerm(t, m) == IF m.op # "on" THEN m ELSE Terminated(t, Settles(m, Computed(t, m.s)))

RECURSIVE StepFn(_, _)
StepFn(blocks, m) ==
    IF m.op # "on" THEN m
    ELSE StepFn(blocks, RunTerm(blocks[m.F.pc].term, RunLines(blocks[m.F.pc].lines, m)))

Opaque == {x \in DOMAIN home : home[x] \notin {"plain", tier}}
Saved(m) == [m EXCEPT !.F.tmp = m.s.tmp]
Attempt(F) ==
    Saved(StepFn(code[F.fn].blocks,
                 [F |-> F, s |-> Begin(pending, F.tmp, Opaque, prog), op |-> "on",
                  arg |-> "no"]))

(***************************************************************************)
(* The pump.                                                                *)
(***************************************************************************)
Init ==
    /\ \E r \in Runs : prog = r.prog /\ code = r.code /\ home = r.home
    /\ stack = <<Frame("main")>>
    /\ tier = Start /\ incoming = <<>>
    /\ pending = <<>> /\ chosen = <<>>
    /\ events = <<>> /\ result = <<>>

Top == Last(stack)
Below == Front(stack)
\* The slots that the segment about to run refers to and that are handles here.
Parked == code[Top.fn].slots[Top.pc] \cap Opaque
Steps == result = <<>> /\ incoming = <<>> /\ Parked = {}
Asked == result = <<>> /\ incoming # <<>>
Answered == Outcome(incoming[1], Begin(pending, <<>>, {}, prog))

\* What happens next, as far as it is decided, and what the run waits to have decided.
Seen ==
    IF Steps THEN Attempt(Top).s ELSE IF Asked THEN Answered ELSE Begin(<<>>, <<>>, {}, prog)
Need == Seen.need

Choose ==
    /\ Len(chosen) < MaxChoices
    /\ \E o \in Need : pending' = Append(pending, o) /\ chosen' = Append(chosen, o)
    /\ UNCHANGED <<prog, code, home, stack, tier, incoming, events, result>>

\* The stop rule: the stack goes to the owner of the handle before the step.
ParkHome ==
    /\ result = <<>> /\ incoming = <<>>
    /\ \E x \in Parked : tier' = home[x]
    /\ UNCHANGED <<prog, code, home, stack, incoming, pending, chosen, events, result>>

Commits(m) ==
    /\ pending' = m.s.script /\ events' = events \o m.s.events
    /\ UNCHANGED <<prog, code, home, tier, chosen>>
Ends(r) == stack' = <<>> /\ result' = r
\* An error goes on in the frames that take it, or ends the run.
Routed(frames, err) ==
    IF frames = <<>> THEN Ends(<<"throw", err>>) ELSE stack' = frames /\ UNCHANGED result

StepReturn(m) ==
    /\ m.op = "return"
    /\ IF Below = <<>> THEN Ends(<<"return", m.arg>>)
       ELSE stack' = [Below EXCEPT ![Len(Below)].ret = m.arg] /\ UNCHANGED result
    /\ UNCHANGED incoming

StepCall(m) ==
    /\ m.op = "call"
    /\ stack' = Append(Below, m.F) \o <<Frame(m.arg)>>
    /\ UNCHANGED <<incoming, result>>

\* The frame is popped and the error offered to the ones below.
StepThrow(m) ==
    m.op = "throw" /\ Routed(Unwind(Below, m.arg), m.arg) /\ UNCHANGED incoming

\* An error of plain code rejects the whole run: no frame's handler sees it.
StepEscape(m) ==
    m.op = "escape" /\ Ends(<<"throw", m.s.val>>) /\ UNCHANGED incoming

StepTouch(m) ==
    /\ m.op = "resource"
    /\ stack' = Append(Below, m.F) /\ incoming' = <<m.arg>>
    /\ UNCHANGED result

Step ==
    /\ Steps
    /\ \E m \in {Attempt(Top)} :
          /\ Commits(m)
          /\ StepReturn(m) \/ StepCall(m) \/ StepThrow(m) \/ StepEscape(m) \/ StepTouch(m)

\* The stack goes to the tier of the touch, to be stepped there from then on.
Migrate ==
    /\ Asked /\ incoming[1].tier # tier
    /\ tier' = incoming[1].tier
    /\ UNCHANGED <<prog, code, home, stack, incoming, pending, chosen, events, result>>

\* service: the touch is done, here or as a call to its tier, and its result or
\* failure goes into the stack.
Answer ==
    /\ Asked /\ incoming' = <<>>
    /\ \E a \in {Answered} :
          /\ a.how # "stuck" /\ Commits([s |-> a])
          /\ IF Goes(a) THEN stack' = [stack EXCEPT ![Len(stack)].ret = a.val] /\ UNCHANGED result
             ELSE Routed(Unwind(stack, a.val), a.val)

Next ==
    Choose \/ ParkHome \/ Step \/ Migrate \/ Answer

\* Nothing is left to do, or to choose within the bound.
Over == result # <<>> \/ (Len(chosen) = MaxChoices /\ Need # {})
Stopped == Over /\ UNCHANGED vars

Spec == Init /\ [][Next \/ Stopped]_vars

(***************************************************************************)
(* Properties.                                                              *)
(***************************************************************************)

\* Every frame stands at a block of its machine, and so do its handlers.
TypeOK ==
    /\ tier \in Tiers
    /\ \A i \in DOMAIN stack :
         LET F == stack[i]
             blocks == code[F.fn].blocks
         IN  /\ F.pc \in DOMAIN blocks
             /\ \A j \in DOMAIN F.h :
                  {F.h[j].catch, F.h[j].fin} \subseteq DOMAIN blocks \cup {0}
    /\ Len(incoming) <= 1
    /\ result # <<>> => stack = <<>>

\* The machine does what the source means, whatever the outcomes and wherever the
\* stack runs: the same calls in the same order, each once, the same errors caught,
\* no slot read through a handle, and the same end.
Faithful ==
    \A m \in {Meaning(prog, chosen)}, s \in {Seen} :
        /\ IsPrefix(events \o s.events, m.events)
        /\ s.need # {} => events \o s.events = m.events /\ s.need = m.need
        /\ result # <<>> => events = m.events /\ result = m.result

\* A finally that is not in a loop runs once (here: the touch "z" it begins with).
FinallyOnce == Cardinality({i \in DOMAIN events : events[i] = <<"touch", "z">>}) <= 1
=============================================================================
