------------------------------ MODULE Lowering ------------------------------
(***************************************************************************)
(* The compiler, packages/tierless/src/transform.cts: normalize, which      *)
(* moves every suspension into a statement of its own, and compileFn, which *)
(* turns a function into blocks, and computes for each block which slots    *)
(* the segment entered there may touch (the stop rule's table).             *)
(*                                                                         *)
(* A block is a sequence of lines and a terminator.  Blocks are numbered    *)
(* from 1 in the order of their creation; the code renumbers them so that   *)
(* the entry is 0.  normalize's loop of rewritings, each of the first       *)
(* place that fits, is followed structurally: per statement, first every    *)
(* outermost && || ?: with a suspension, then every suspension from the     *)
(* inside out, each put directly before the statement.                      *)
(*                                                                         *)
(* Left out: the wrapping of unbraced branches (bodies are sequences here), *)
(* optional chains, the binding forms, and the refusals of what cannot be   *)
(* compiled.                                                                *)
(***************************************************************************)
EXTENDS Source

(***************************************************************************)
(* normalize                                                                *)
(***************************************************************************)

IsSusp(e) == e.k \in {"touch", "call"}

RECURSIVE HasSusp(_)
HasSusp(e) == IsSusp(e) \/ \E i \in DOMAIN Args(e) : HasSusp(Args(e)[i])
AnySusp(es) == \E i \in DOMAIN es : HasSusp(es[i])

\* The loops with a suspension in the head, rewritten to carry it in the body.
DesugarWhile(st) ==
    While(Lit("yes"), <<If(Not(st.e), <<Break("")>>, <<>>)>> \o st.body)
DesugarFor(st, f) ==
    Block([j \in DOMAIN st.init |-> Expr(st.init[j])]
          \o <<Bind(f, Lit("yes")),
               While(Lit("yes"),
                     <<If(Tmp(f), <<Assign(f, Lit("no"))>>,
                          [j \in DOMAIN st.update |-> Expr(st.update[j])]),
                       If(Not(st.e), <<Break("")>>, <<>>)>> \o st.body)>>)
DesugarDo(st, o) ==
    Block(<<Bind(o, Lit("yes")),
            While(Or(Tmp(o), st.e), <<Assign(o, Lit("no"))>> \o st.body)>>)

\* && || ?: around a suspension: an if statement that assigns the temp t.
DesugarCondLog(e, t) ==
    CASE e.k = "cond" ->
            <<If(e.args[1], <<Assign(t, e.args[2])>>, <<Assign(t, e.args[3])>>)>>
      [] e.k = "and"  -> <<Bind(t, e.args[1]), If(Tmp(t), <<Assign(t, e.args[2])>>, <<>>)>>
      [] e.k = "or"   -> <<Bind(t, e.args[1]), If(Not(Tmp(t)), <<Assign(t, e.args[2])>>, <<>>)>>

\* Results carry the statements to put before (or the statements themselves,
\* in `out`), the rewritten expression, and the next free temp.
RECURSIVE Lift(_, _), LiftAll(_, _), Hoist(_, _), HoistAll(_, _),
          Norm(_, _), NormWith(_, _), NormAll(_, _), NormCases(_, _)

LiftAll(es, n) ==
    IF es = <<>> THEN [pre |-> <<>>, es |-> <<>>, n |-> n]
    ELSE LET a == Lift(Head(es), n)
             r == LiftAll(Tail(es), a.n)
         IN  [pre |-> a.pre \o r.pre, es |-> <<a.e>> \o r.es, n |-> r.n]

\* Every outermost && || ?: of e that contains a suspension becomes a temp.
Lift(e, n) ==
    IF ~HasSusp(e) THEN [pre |-> <<>>, e |-> e, n |-> n]
    ELSE IF e.k \in {"and", "or", "cond"}
    THEN [pre |-> DesugarCondLog(e, n), e |-> Tmp(n), n |-> n + 1]
    ELSE LET r == LiftAll(Args(e), n)
         IN  [pre |-> r.pre, e |-> [e EXCEPT !.args = r.es], n |-> r.n]

HoistAll(es, n) ==
    IF es = <<>> THEN [pre |-> <<>>, es |-> <<>>, n |-> n]
    ELSE LET a == Hoist(Head(es), n)
             r == HoistAll(Tail(es), a.n)
         IN  [pre |-> a.pre \o r.pre, es |-> <<a.e>> \o r.es, n |-> r.n]

\* Every suspension inside e, the innermost first, becomes a temp.
Inside(e, n) ==
    LET r == HoistAll(Args(e), n)
    IN  [pre |-> r.pre, n |-> r.n,
         e |-> IF Args(e) = <<>> THEN e ELSE [e EXCEPT !.args = r.es]]
Hoist(e, n) ==
    LET r == Inside(e, n)
    IN  IF IsSusp(e)
        THEN [pre |-> Append(r.pre, Bind(r.n, r.e)), e |-> Tmp(r.n), n |-> r.n + 1]
        ELSE r

NormAll(stmts, n) ==
    IF stmts = <<>> THEN [out |-> <<>>, n |-> n]
    ELSE LET a == Norm(Head(stmts), n)
             r == NormAll(Tail(stmts), a.n)
         IN  [out |-> a.out \o r.out, n |-> r.n]

NormCases(cases, n) ==
    IF cases = <<>> THEN [out |-> <<>>, n |-> n]
    ELSE LET a == NormAll(Head(cases).body, n)
             r == NormCases(Tail(cases), a.n)
         IN  [out |-> <<Case(Head(cases).test, a.out)>> \o r.out, n |-> r.n]

\* A statement with its one expression: lift, hoist, and the statements made of it.
WithExpr(st, n) ==
    LET l    == Lift(st.e, n)
        head == st.k \in {"expr", "bind"} /\ IsSusp(l.e)
        h    == IF head THEN Inside(l.e, l.n) ELSE Hoist(l.e, l.n)
        pre  == NormAll(l.pre, h.n)
    IN  [out |-> pre.out \o h.pre, e |-> h.e, n |-> pre.n]

NormWith(st, x) ==
    CASE st.k \in {"expr", "bind", "assign", "return", "throw"} ->
            [out |-> Append(x.out, [st EXCEPT !.e = x.e]), n |-> x.n]
      [] st.k = "if" ->
            LET a == NormAll(st.then, x.n)
                b == NormAll(st.else, a.n)
            IN  [out |-> Append(x.out, If(x.e, a.out, b.out)), n |-> b.n]
      [] st.k = "switch" ->
            LET cs == NormCases(st.cases, x.n)
            IN  [out |-> Append(x.out, Switch(x.e, cs.out)), n |-> cs.n]

Norm(st, n) ==
    LET body == NormAll(st.body, n)
        with(s, b) == [s EXCEPT !.body = b.out]
    IN  CASE st.k \in {"expr", "bind", "assign", "return", "throw", "if", "switch"} ->
                NormWith(st, WithExpr(st, n))
          [] st.k = "while" /\ HasSusp(st.e) -> Norm(DesugarWhile(st), n)
          [] st.k = "for" /\ (HasSusp(st.e) \/ AnySusp(st.update)) -> Norm(DesugarFor(st, n), n + 1)
          [] st.k = "for" /\ AnySusp(st.init) ->
                NormAll([j \in DOMAIN st.init |-> Expr(st.init[j])] \o <<[st EXCEPT !.init = <<>>]>>, n)
          [] st.k = "do" /\ HasSusp(st.e) -> Norm(DesugarDo(st, n), n + 1)
          [] st.k \in {"while", "do", "for", "block"} -> [out |-> <<with(st, body)>>, n |-> body.n]
          [] st.k = "label" ->
                LET s == Norm(st.s, n)
                IN  [out |-> Front(s.out) \o <<Label(st.label, Last(s.out))>>, n |-> s.n]
          [] st.k = "try" ->
                LET h == NormAll(st.handler, body.n)
                    z == NormAll(st.finalizer, h.n)
                IN  [out |-> <<[st EXCEPT !.body = body.out, !.handler = h.out,
                                          !.finalizer = z.out]>>, n |-> z.n]
          [] OTHER -> [out |-> <<st>>, n |-> n]

(***************************************************************************)
(* compileFn.  A compilation threads the blocks made so far (bs) and gives  *)
(* them back with the block it starts at.  The context says where control   *)
(* goes next, where break and continue go and how deep in try statements    *)
(* those places are, and which try statements are around.                   *)
(***************************************************************************)

\* Lines: evaluate, assign a temp, take the result of a resume, bind the caught
\* error, drop the top handler, settle the finally about to be entered normally.
DoEval(e) == [op |-> "eval", e |-> e]
DoSet(i, e) == [op |-> "set", i |-> i, e |-> e]
TakeRet(i) == [op |-> "ret", i |-> i]
TakeErr == [op |-> "err"]
PopHandler == [op |-> "pop"]
SettleFinally == [op |-> "settle"]

Jump(to) == [kind |-> "jump", to |-> to]
Branch(e, a, b) == [kind |-> "branch", e |-> e, then |-> a, else |-> b]
Ret(e) == [kind |-> "ret", e |-> e]

Add(bs, lines, term) ==
    [at |-> Len(bs) + 1, bs |-> Append(bs, [lines |-> lines, term |-> term])]
\* Blocks whose terminators are set when the blocks they lead to are known.
Reserve(bs, n) == bs \o [i \in 1..n |-> [lines |-> <<>>, term |-> Jump(0)]]
Fill(bs, i, lines, term) == [bs EXCEPT ![i] = [lines |-> lines, term |-> term]]

Fresh(next) ==
    [next |-> next, depth |-> 0, tries |-> <<>>, label |-> "", labels |-> <<>>,
     target |-> [brk |-> next, brkDepth |-> 0, cont |-> next, contDepth |-> 0]]
To(ctx, next) == [ctx EXCEPT !.next = next]
\* The context inside a loop or switch, whose label, if any, names the same targets.
Inner(ctx, next, brk, cont, contDepth) ==
    LET target == [brk |-> brk, brkDepth |-> ctx.depth, cont |-> cont, contDepth |-> contDepth]
    IN  [ctx EXCEPT !.next = next, !.target = target, !.label = "",
                    !.labels = IF ctx.label = "" THEN @ ELSE (ctx.label :> target) @@ @]
\* A try statement more: `fin` is its finally, or 0.
Guarded(ctx, next, fin) ==
    [ctx EXCEPT !.next = next, !.depth = @ + 1, !.tries = Append(@, fin)]

\* return, break and continue: pop the handlers of the try statements left behind,
\* or, when one of them has a finally, list what is to pop (0) and what to run.
AbruptExit(ctx, depth, type, e, target, bs) ==
    LET crossed == Reverse(SubSeq(ctx.tries, depth + 1, Len(ctx.tries)))
    IN  IF \A i \in DOMAIN crossed : crossed[i] = 0
        THEN Add(bs, [i \in DOMAIN crossed |-> PopHandler],
                 IF type = "return" THEN Ret(e) ELSE Jump(target))
        ELSE Add(bs, <<>>, [kind |-> "abrupt", type |-> type, e |-> e, target |-> target,
                            steps |-> crossed])

RECURSIVE CompileStmt(_, _, _), CompileStmts(_, _, _), CompileCases(_, _, _, _)

CompileStmts(stmts, ctx, bs) ==
    IF stmts = <<>> THEN [at |-> ctx.next, bs |-> bs]
    ELSE LET rest == CompileStmts(Tail(stmts), ctx, bs)
         IN  CompileStmt(Head(stmts), To(ctx, rest.at), rest.bs)

\* A suspension: leave with a request or a call, resume in a block of its own.
CompileSusp(s, ctx, bs) ==
    LET r == Add(bs, IF s.k = "bind" THEN <<TakeRet(s.i)>> ELSE <<>>, Jump(ctx.next))
    IN  Add(r.bs, <<>>, [kind |-> IF s.e.k = "touch" THEN "susp" ELSE "call", e |-> s.e,
                         resume |-> r.at])

CompileLoop(s, ctx, bs) ==
    LET first == Len(bs) + 1
        b0    == Reserve(bs, [while |-> 1, do |-> 2, for |-> 3][s.k])
        cont  == IF s.k = "while" THEN first ELSE first + 1
        head  == IF s.k = "do" THEN first + 1 ELSE first
        body  == CompileStmts(s.body, Inner(ctx, cont, ctx.next, cont, ctx.depth), b0)
        test  == IF s.e = Lit("yes") THEN Jump(body.at) ELSE Branch(s.e, body.at, ctx.next)
        b1    == Fill(body.bs, head, <<>>, test)
    IN  CASE s.k = "while" -> [at |-> first, bs |-> b1]
          [] s.k = "do"    -> [at |-> first, bs |-> Fill(b1, first, <<>>, Jump(body.at))]
          [] s.k = "for"   ->
                [at |-> first + 2,
                 bs |-> Fill(Fill(b1, first + 1, [j \in DOMAIN s.update |-> DoEval(s.update[j])],
                                  Jump(first)),
                             first + 2, [j \in DOMAIN s.init |-> DoEval(s.init[j])], Jump(first))]

\* The bodies of the cases, each falling through to the next; entries[i] is the i-th.
CompileCases(cases, ctx, entries, bs) ==
    IF cases = <<>> THEN [entries |-> entries, bs |-> bs]
    ELSE LET c == CompileStmts(Last(cases).body, ctx, bs)
         IN  CompileCases(Front(cases), To(ctx, c.at), <<c.at>> \o entries, c.bs)

RECURSIVE CompileTests(_, _, _, _)
CompileTests(s, entries, dispatch, bs) ==
    IF entries = <<>> THEN [at |-> dispatch, bs |-> bs]
    ELSE LET c == s.cases[Len(entries)]
             t == Add(bs, <<>>, Branch(Is(s.e, c.test), Last(entries), dispatch))
         IN  IF c.test = "default" THEN CompileTests(s, Front(entries), dispatch, bs)
             ELSE CompileTests(s, Front(entries), t.at, t.bs)

CompileSwitch(s, ctx, bs) ==
    LET t   == ctx.target
        cs  == CompileCases(s.cases, Inner(ctx, ctx.next, ctx.next, t.cont, t.contDepth),
                            <<>>, bs)
        def == SelectInSeq(s.cases, LAMBDA c : c.test = "default")
    IN  CompileTests(s, cs.entries, IF def = 0 THEN ctx.next ELSE cs.entries[def], cs.bs)

CompileTry(s, ctx, bs) ==
    IF s.caught /\ s.finally
    THEN CompileStmt(TryFinally(<<TryCatch(s.body, s.handler)>>, s.finalizer), ctx, bs)
    ELSE
    LET entry   == Len(bs) + 1
        catchB  == Len(bs) + 2          \* or finB
        end     == Len(bs) + 3          \* catchEnd or finEnd
        bodyEnd == Len(bs) + 4
        inner(next) == Guarded(ctx, next, IF s.finally THEN catchB ELSE 0)
        body    == CompileStmts(s.body, inner(bodyEnd), Reserve(bs, 4))
        last    == IF s.caught THEN CompileStmts(s.handler, inner(end), body.bs)
                   ELSE CompileStmts(s.finalizer,
                                     [ctx EXCEPT !.next = end, !.tries = Append(@, 0)], body.bs)
        enter   == [kind |-> "push", catch |-> IF s.caught THEN catchB ELSE 0,
                    fin |-> IF s.caught THEN 0 ELSE catchB, to |-> body.at]
        b1      == Fill(Fill(last.bs, entry, <<>>, enter),
                        catchB, IF s.caught THEN <<TakeErr>> ELSE <<>>, Jump(last.at))
    IN  [at |-> entry,
         bs |-> IF s.caught
                THEN Fill(Fill(b1, end, <<PopHandler>>, Jump(ctx.next)),
                          bodyEnd, <<PopHandler>>, Jump(ctx.next))
                ELSE Fill(Fill(b1, end, <<>>, [kind |-> "finish", after |-> ctx.next]),
                          bodyEnd, <<SettleFinally>>, Jump(catchB))]

CompileStmt(s, ctx, bs) ==
    CASE s.k \in {"expr", "bind"} /\ IsSusp(s.e) -> CompileSusp(s, ctx, bs)
      [] s.k = "expr" /\ ~IsSusp(s.e) -> Add(bs, <<DoEval(s.e)>>, Jump(ctx.next))
      [] s.k \in {"bind", "assign"} /\ ~IsSusp(s.e) ->
            Add(bs, <<DoSet(s.i, s.e)>>, Jump(ctx.next))
      [] s.k = "block"  -> CompileStmts(s.body, ctx, bs)
      [] s.k = "label"  ->
            IF s.s.k \in {"while", "for", "do", "switch"}
            THEN CompileStmt(s.s, [ctx EXCEPT !.label = s.label], bs)
            ELSE CompileStmt(s.s,
                    [ctx EXCEPT !.labels = (s.label :> [brk |-> ctx.next, brkDepth |-> ctx.depth,
                                                        cont |-> 0, contDepth |-> ctx.depth]) @@ @],
                    bs)
      [] s.k \in {"while", "for", "do"} -> CompileLoop(s, ctx, bs)
      [] s.k = "switch" -> CompileSwitch(s, ctx, bs)
      [] s.k = "if"     ->
            LET a == CompileStmts(s.then, ctx, bs)
                b == CompileStmts(s.else, ctx, a.bs)
            IN  Add(b.bs, <<>>, Branch(s.e, a.at, b.at))
      [] s.k \in {"break", "continue"} ->
            LET t == IF s.label = "" THEN ctx.target ELSE ctx.labels[s.label]
            IN  IF s.k = "break" THEN AbruptExit(ctx, t.brkDepth, s.k, Lit("no"), t.brk, bs)
                ELSE AbruptExit(ctx, t.contDepth, s.k, Lit("no"), t.cont, bs)
      [] s.k = "return" -> AbruptExit(ctx, 0, "return", s.e, 0, bs)
      [] s.k = "throw"  -> Add(bs, <<>>, [kind |-> "throw", e |-> s.e])
      [] s.k = "try"    -> CompileTry(s, ctx, bs)

(***************************************************************************)
(* The stop rule's table: for each block the slots that the blocks control  *)
(* can reach from it, without leaving the step function, refer to.  A throw *)
(* is taken to reach every handler of the function.                         *)
(***************************************************************************)
RECURSIVE Uses(_)
Uses(e) == IF e.k = "use" THEN {e.x} ELSE UNION {Uses(Args(e)[i]) : i \in DOMAIN Args(e)}
RefsOf(b) ==
    UNION {Uses(b.lines[i].e) : i \in {j \in DOMAIN b.lines : b.lines[j].op \in {"eval", "set"}}}
    \cup (IF b.term.kind \in {"susp", "call", "branch", "ret", "throw", "abrupt"}
          THEN Uses(b.term.e) ELSE {})

Terms(bs, kind) == {bs[i].term : i \in {j \in DOMAIN bs : bs[j].term.kind = kind}}
Handlers(bs) == {t.catch : t \in Terms(bs, "push")} \cup {t.fin : t \in Terms(bs, "push")}
Finallys(bs) == {t.fin : t \in Terms(bs, "push")}
Targets(bs) == {t.target : t \in Terms(bs, "abrupt")}

\* Variant: a throw is taken to leave the function.
SuccsInside(bs, i) ==
    LET t == bs[i].term
    IN  CASE t.kind \in {"jump", "push"} -> {t.to}
          [] t.kind = "branch" -> {t.then, t.else}
          [] t.kind = "finish" -> {t.after}
          [] t.kind \in {"throw", "abrupt", "susp", "call", "ret"} -> {}
Succs(bs, i) ==
    LET t == bs[i].term
        next == CASE t.kind \in {"jump", "push"} -> {t.to}
                  [] t.kind = "branch" -> {t.then, t.else}
                  [] t.kind = "throw"  -> Handlers(bs)
                  [] t.kind = "finish" -> {t.after} \cup Handlers(bs) \cup Targets(bs)
                  [] t.kind = "abrupt" -> {t.target} \cup Finallys(bs)
                  [] t.kind \in {"susp", "call", "ret"} -> {}
    IN  next \ {0}

RECURSIVE Closure(_, _)
Closure(bs, seen) ==
    LET more == seen \cup UNION {Succs(bs, i) : i \in seen}
    IN  IF more = seen THEN seen ELSE Closure(bs, more)
SlotTable(bs) == [i \in DOMAIN bs |-> UNION {RefsOf(bs[j]) : j \in Closure(bs, {i})}]

\* A function's machine: block 1 returns for a body that ends, `boot` starts it.
CompileFn(body) ==
    LET end == Add(<<>>, <<>>, Ret(Lit("no")))
        boot(c) == Append(c.bs, [lines |-> <<>>, term |-> Jump(c.at)])
        machine(bs) == [blocks |-> bs, boot |-> Len(bs), slots |-> SlotTable(bs)]
    IN  machine(boot(CompileStmts(NormAll(body, 1).out, Fresh(end.at), end.bs)))

\* Every function of a program.
Compile(prog) == [f \in DOMAIN prog |-> CompileFn(prog[f])]
=============================================================================
