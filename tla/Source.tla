------------------------------- MODULE Source -------------------------------
(***************************************************************************)
(* The source language of the compiler, as much of it as the lowering in    *)
(* packages/tierless/src/transform.cts treats case by case, and what a      *)
(* program in it means in JavaScript: the reference the compiled machine    *)
(* is compared with.                                                        *)
(*                                                                         *)
(* Values are "yes" and "no": only their truth matters to control flow.     *)
(* What a tier call or an ordinary call gives is not known before it is     *)
(* made, so it is read off a script: a sequence with one entry for each     *)
(* outcome that was open ("yes", "no", "fail").  A computation that needs   *)
(* one more entry is "stuck" and says between what it has to choose.        *)
(* Slots of the frame are read only ("use").                                *)
(*                                                                         *)
(* Left out: values and arithmetic, destructuring and parameters, for-of    *)
(* and for-in (rewritten to an index loop first), optional chains (treated  *)
(* as && is), closures.                                                     *)
(***************************************************************************)
EXTENDS Naturals, Sequences, SequencesExt, TLC

(***************************************************************************)
(* Expressions.  A touch is a call into a tier-pinned namespace; `outs` are *)
(* the outcomes it may have.  A call is a call of a suspendable function;   *)
(* a pure call is any other code.  Tmp is a temp of the compiler's.         *)
(***************************************************************************)
Lit(v) == [k |-> "lit", v |-> v]
Tmp(i) == [k |-> "tmp", i |-> i]
Use(x) == [k |-> "use", x |-> x]
Pure(n, outs, args) == [k |-> "pure", n |-> n, outs |-> outs, args |-> args]
Touch(n, tier, outs, args) ==
    [k |-> "touch", n |-> n, tier |-> tier, outs |-> outs, args |-> args]
Call(f) == [k |-> "call", f |-> f, args |-> <<>>]
Not(e) == [k |-> "not", args |-> <<e>>]
Is(e, v) == [k |-> "is", v |-> v, args |-> <<e>>]
And(l, r) == [k |-> "and", args |-> <<l, r>>]
Or(l, r) == [k |-> "or", args |-> <<l, r>>]
Cond(t, a, b) == [k |-> "cond", args |-> <<t, a, b>>]

Args(e) == IF e.k \in {"lit", "tmp", "use"} THEN <<>> ELSE e.args

(***************************************************************************)
(* Statements.  Bodies are sequences of statements.                         *)
(***************************************************************************)
Expr(e) == [k |-> "expr", e |-> e]
Bind(i, e) == [k |-> "bind", i |-> i, e |-> e]       \* const __ti = e
Assign(i, e) == [k |-> "assign", i |-> i, e |-> e]   \* __ti = e
Block(b) == [k |-> "block", body |-> b]
If(e, a, b) == [k |-> "if", e |-> e, then |-> a, else |-> b]
While(e, b) == [k |-> "while", e |-> e, body |-> b]
Do(b, e) == [k |-> "do", e |-> e, body |-> b]
For(i, e, u, b) == [k |-> "for", init |-> i, e |-> e, update |-> u, body |-> b]
Switch(e, cs) == [k |-> "switch", e |-> e, cases |-> cs]
Case(v, b) == [test |-> v, body |-> b]               \* "default" for default:
Label(l, s) == [k |-> "label", label |-> l, s |-> s]
Break(l) == [k |-> "break", label |-> l]             \* "" without a label
Continue(l) == [k |-> "continue", label |-> l]
Return(e) == [k |-> "return", e |-> e]
Throw(e) == [k |-> "throw", e |-> e]
TryStmt(b, c, h, f, z) ==
    [k |-> "try", body |-> b, caught |-> c, handler |-> h, finally |-> f,
     finalizer |-> z]
TryCatch(b, h) == TryStmt(b, TRUE, h, FALSE, <<>>)
TryFinally(b, z) == TryStmt(b, FALSE, <<>>, TRUE, z)
TryCatchFinally(b, h, z) == TryStmt(b, TRUE, h, TRUE, z)

(***************************************************************************)
(* The state of a computation: what is left of the script, what happened,   *)
(* how it stands ("go", "throw", "return", "break", "continue", "stuck"),   *)
(* the value, the label of a break, the outcomes it is stuck between, the   *)
(* temps, and the slots that hold handles where it runs.                    *)
(***************************************************************************)
Begin(script, tmp, opaque, fns) ==
    [script |-> script, events |-> <<>>, how |-> "go", val |-> "no",
     label |-> "", need |-> {}, tmp |-> tmp, opaque |-> opaque, fns |-> fns]

Happens(s, e) == [s EXCEPT !.events = Append(@, e)]
Gives(s, v) == [s EXCEPT !.val = v]
Exits(s, how, v, l) == [s EXCEPT !.how = how, !.val = v, !.label = l]
Goes(s) == s.how = "go"
Flip(v) == IF v = "yes" THEN "no" ELSE "yes"

\* A call is made, and gives what the script says if more than one outcome is open.
Made(e, out, s) ==
    IF out = "fail" THEN Exits(Happens(s, <<e.k, e.n>>), "throw", e.n, "")
    ELSE Gives(Happens(s, <<e.k, e.n>>), out)
Outcome(e, s) ==
    IF \A a, b \in e.outs : a = b THEN Made(e, CHOOSE o \in e.outs : TRUE, s)
    ELSE IF s.script = <<>> THEN [Exits(s, "stuck", "no", "") EXCEPT !.need = e.outs]
    ELSE Made(e, Head(s.script), [s EXCEPT !.script = Tail(@)])

RECURSIVE Eval(_, _), EvalAll(_, _), EvalRest(_, _),
          Exec(_, _), ExecAll(_, _), ExecWith(_, _), Round(_, _, _), Rounds(_, _, _)

EvalAll(es, s) ==
    IF es = <<>> \/ ~Goes(s) THEN s ELSE EvalAll(Tail(es), Eval(Head(es), s))

\* What a function gives its caller, from how its body ended.
Returned(r) ==
    CASE r.how = "return" -> Exits(r, "go", r.val, "")
      [] r.how = "go"     -> Gives(r, "no")
      [] OTHER            -> r

Reads(x, s) == Gives(Happens(s, <<IF x \in s.opaque THEN "misread" ELSE "read", x>>), "yes")
Done(e, s) == IF Goes(s) THEN Outcome(e, s) ELSE s

\* Evaluation from left to right.
Eval(e, s) ==
    IF ~Goes(s) THEN s ELSE
    CASE e.k = "lit"  -> Gives(s, e.v)
      [] e.k = "tmp"  -> Gives(s, s.tmp[e.i])
      [] e.k = "use"  -> Reads(e.x, s)
      [] e.k = "call" -> Returned(ExecAll(s.fns[e.f], s))
      [] e.k \in {"pure", "touch"} -> Done(e, EvalAll(e.args, s))
      [] e.k \in {"not", "is", "and", "or", "cond"} -> EvalRest(e, Eval(e.args[1], s))

\* An operator whose first operand has been evaluated.
EvalRest(e, s) ==
    IF ~Goes(s) THEN s ELSE
    CASE e.k = "not"  -> Gives(s, Flip(s.val))
      [] e.k = "is"   -> Gives(s, IF s.val = e.v THEN "yes" ELSE "no")
      [] e.k = "cond" -> Eval(e.args[IF s.val = "yes" THEN 2 ELSE 3], s)
      [] e.k = "and"  -> IF s.val = "yes" THEN Eval(e.args[2], s) ELSE s
      [] e.k = "or"   -> IF s.val = "yes" THEN s ELSE Eval(e.args[2], s)

ExecAll(stmts, s) ==
    IF stmts = <<>> \/ ~Goes(s) THEN s ELSE ExecAll(Tail(stmts), Exec(Head(stmts), s))

\* An exit of one of the kinds `hows` that is meant for one of `labels` ends here.
Lands(s, hows, labels) ==
    IF s.how \in hows /\ s.label \in labels THEN Exits(s, "go", "no", "") ELSE s

\* A loop: a round, its test passed, is the body and what comes after it; another
\* follows unless the loop is left.
Test(st, s) == IF Goes(s) THEN Eval(st.e, s) ELSE s
After(st, s) == IF st.k = "for" THEN EvalAll(st.update, s) ELSE s
Round(st, labels, s) ==
    IF ~Goes(s) \/ s.val = "no" THEN s
    ELSE Rounds(st, labels, After(st, Lands(ExecAll(st.body, s), {"continue"}, labels)))
Rounds(st, labels, s) ==
    IF Goes(s) THEN Round(st, labels, Eval(st.e, s)) ELSE Lands(s, {"break"}, labels)
Loop(st, labels, s) ==
    CASE st.k = "while" -> Round(st, labels, Eval(st.e, s))
      [] st.k = "do"    -> Round(st, labels, Gives(s, "yes"))
      [] st.k = "for"   -> Round(st, labels, Test(st, EvalAll(st.init, s)))

\* The statements a switch runs: from the case that matches, or from default.
Selected(st, v) ==
    LET at(p(_)) == SelectInSeq(st.cases, p)
        hit      == at(LAMBDA c : c.test = v)
        from     == IF hit # 0 THEN hit ELSE at(LAMBDA c : c.test = "default")
    IN  IF from = 0 THEN <<>>
        ELSE FlattenSeq([i \in 1..(Len(st.cases) - from + 1) |-> st.cases[from + i - 1].body])

\* try: the body's error goes to the handler; the finalizer runs whatever happened, and
\* what it ends with, if anything, replaces what was under way.
Caught(st, s) ==
    IF s.how = "throw" /\ st.caught
    THEN ExecAll(st.handler, Happens(Exits(s, "go", "no", ""), <<"caught", s.val>>)) ELSE s
Resumed(s, z) == IF Goes(z) THEN Exits(z, s.how, s.val, s.label) ELSE z
Finally(st, s) ==
    IF ~st.finally \/ s.how = "stuck" THEN s
    ELSE Resumed(s, ExecAll(st.finalizer, Exits(s, "go", "no", "")))

Exec(st, s) ==
    CASE st.k \in {"expr", "bind", "assign", "if", "switch", "return", "throw"} ->
            ExecWith(st, Eval(st.e, s))
      [] st.k = "block" -> ExecAll(st.body, s)
      [] st.k \in {"while", "do", "for"} -> Loop(st, {""}, s)
      [] st.k = "label" /\ st.s.k \in {"while", "do", "for"} -> Loop(st.s, {"", st.label}, s)
      [] st.k = "label" /\ st.s.k \notin {"while", "do", "for"} ->
            Lands(Exec(st.s, s), {"break"}, {st.label})
      [] st.k \in {"break", "continue"} -> Exits(s, st.k, "no", st.label)
      [] st.k = "try"   -> Finally(st, Caught(st, ExecAll(st.body, s)))

\* A statement whose expression has been evaluated.
ExecWith(st, s) ==
    IF ~Goes(s) \/ st.k = "expr" THEN s ELSE
    CASE st.k \in {"bind", "assign"}  -> [s EXCEPT !.tmp = (st.i :> s.val) @@ @]
      [] st.k = "if"                  -> ExecAll(IF s.val = "yes" THEN st.then ELSE st.else, s)
      [] st.k = "switch"              -> Lands(ExecAll(Selected(st, s.val), s), {"break"}, {""})
      [] st.k \in {"return", "throw"} -> Exits(s, st.k, s.val, "")

\* What a program, one body for each function, does under a script.
Observed(r) ==
    [events |-> r.events, need |-> r.need,
     result |-> CASE r.how = "stuck" -> <<>>
                  [] r.how = "go"    -> <<"return", "no">>
                  [] OTHER           -> <<r.how, r.val>>]
Meaning(fns, script) == Observed(ExecAll(fns["main"], Begin(script, <<>>, {}, fns)))
=============================================================================
