----------------------------- MODULE MCLowering -----------------------------
(***************************************************************************)
(* Machine for TLC, over generated programs: every exit (falling through,   *)
(* return, throw, break, continue, with and without a label) out of every   *)
(* pair of constructs, one in the other; the same with a call between the   *)
(* two; three constructs, for those with handlers; every place a suspending *)
(* expression can stand in; slots kept on one tier and read in handlers.    *)
(*                                                                         *)
(* Not generated, because the machine is known to differ from JavaScript    *)
(* there (README): a finally that fails under a return, break or continue;  *)
(* try statements and loops inside a finally; plain code that throws inside *)
(* a try; a suspension in a later argument of ordinary code than a ?: or a  *)
(* call; values to throw or switch on that do something when computed.      *)
(***************************************************************************)
EXTENDS Machine

Fails == {"yes", "fail"}
Open == {"yes", "no"}
T(n) == Touch(n, "server", Fails, <<>>)
U(n) == Touch(n, "browser", Fails, <<>>)
Z(n) == Touch(n, "server", {"yes"}, <<>>)       \* cannot fail
Q(n) == Touch(n, "server", Open, <<>>)
P(n) == Pure(n, {"yes"}, <<>>)
G(n) == Pure(n, Open, <<>>)
Does(e) == <<Expr(e)>>
Main(b) == "main" :> b
Homed(progs, homes) == {[prog |-> p, code |-> Compile(p), home |-> h] : p \in progs, h \in homes}
Plain(progs) == Homed(progs, {<<>>})

(***************************************************************************)
(* Constructs around a hole b; n names its parts.                           *)
(***************************************************************************)
LoopKinds == {"while", "while-pure", "do", "do-pure", "for-pure", "for"}
Labelled == (LoopKinds \ {"for"}) \cup {"block"}
\* A do loop with a suspending test becomes a block, which no continue can name.
Continued == (LoopKinds \cap Labelled) \ {"do"}
TryKinds == {"try-catch", "try-rethrow", "try-finally", "try-all", "in-catch"}
Kinds == LoopKinds \cup {"block", "switch", "if"} \cup TryKinds
SlotKinds == {"use-catch", "use-finally", "use-test"}

Around(k, n, b) ==
    CASE k = "while"       -> Label(n, While(Q(n), b))
      [] k = "while-pure"  -> Label(n, While(G(n), b))
      [] k = "do"          -> Label(n, Do(b, Q(n)))
      [] k = "do-pure"     -> Label(n, Do(b, G(n)))
      [] k = "for-pure"    -> Label(n, For(<<P(n)>>, G(n), <<P(n)>>, b))
      [] k = "for"         -> For(<<Z(n)>>, Q(n), <<Z(n)>>, b)
      [] k = "block"       -> Label(n, Block(b))
      [] k = "switch"      -> Switch(Q(n), <<Case("yes", b), Case("default", Does(P(n)))>>)
      [] k = "if"          -> If(Q(n), b, Does(P(n)))
      [] k = "try-catch"   -> TryCatch(b, Does(T(n)))
      [] k = "try-rethrow" -> TryCatch(b, <<Throw(Lit(n))>>)
      [] k = "try-finally" -> TryFinally(b, Does(Z(n)))
      [] k = "try-all"     -> TryCatchFinally(b, Does(T(n)), Does(Z(n)))
      [] k = "in-catch"    -> TryCatch(Does(T(n)), b)
      [] k = "in-finally"  -> TryFinally(Does(T(n)), b)
      [] k = "use-catch"   -> TryCatch(b, Does(Use("x")))
      [] k = "use-finally" -> TryFinally(b, Does(Use("x")))
      [] k = "use-test"    -> Do(b, And(Use("x"), G(n)))

\* The exits there are inside constructs ks, a function from labels to kinds.
ExitsIn(ks) ==
    LET named(K) == {l \in DOMAIN ks : ks[l] \in K}
    IN  {Return(Z("r")), Throw(Lit("t")), Expr(P("p"))}
        \cup {Break(l) : l \in named(Labelled)}
        \cup {Continue(l) : l \in named(Continued)}
        \cup (IF named(LoopKinds \cup {"switch"}) # {} THEN {Break("")} ELSE {})
        \cup (IF named(LoopKinds) # {} THEN {Continue("")} ELSE {})

\* Construct km around construct kn around an exit that may be taken and a touch.
Nest(km, kn, b) == <<Around(km, "m", <<Around(kn, "n", b), Expr(P("u"))>>), Expr(P("v"))>>
Leave(x, touch) == <<If(G("x"), <<x>>, <<>>), Expr(touch)>>

Pairs ==
    UNION {{Main(Nest(km, kn, Leave(x, T("a")))) : x \in ExitsIn("m" :> km @@ "n" :> kn)}
           : km \in Kinds, kn \in Kinds \cup {"in-finally"}}

TripleKinds == {"while", "try-catch", "try-finally", "in-catch"}
Triples ==
    UNION {{Main(Nest(km, kn, <<Around(ko, "o", Leave(x, T("a")))>>))
            : x \in ExitsIn("m" :> km @@ "n" :> kn @@ "o" :> ko)}
           : km \in TripleKinds, kn \in TripleKinds, ko \in TripleKinds \cup {"in-finally"}}

\* The inner construct in a function of its own.
Calls ==
    UNION {{"main" :> <<Around(km, "m", Does(Call("f")) \o Does(P("u"))), Return(Call("f"))>>
            @@ "f" :> <<Around(kn, "n", Leave(x, T("a")))>> : x \in ExitsIn("n" :> kn)}
           : km \in Kinds, kn \in Kinds \cup {"in-finally"}}

(***************************************************************************)
(* Expressions that suspend, in every place an expression can stand in.     *)
(***************************************************************************)
Exprs == {T("a"), Call("f"),
          Pure("g", {"yes"}, <<T("a"), Touch("b", "browser", Open, <<Call("f")>>)>>),
          Not(And(Q("a"), Or(Q("b"), T("c")))), Or(And(Q("a"), P("b")), Cond(Q("c"), T("d"), P("e"))),
          Pure("g", {"yes"}, <<Cond(Q("a"), And(T("b"), T("c")), P("d")), T("e")>>),
          Cond(Cond(Q("a"), Q("b"), Call("f")), P("c"), T("d"))}
Placed(e) ==
    {<<Expr(e)>>, <<Return(e)>>, <<Throw(T("a"))>>, <<If(e, Does(P("p")), Does(P("q")))>>,
     <<While(e, <<If(G("l"), <<Continue("")>>, <<Break("")>>)>>)>>,
     <<Do(<<If(G("l"), <<Continue("")>>, <<>>)>>, And(G("m"), e))>>,
     <<For(<<e>>, G("l"), <<P("p")>>, Does(P("q")))>>,
     <<For(<<P("o")>>, G("l"), <<e>>, <<If(G("m"), <<Continue("")>>, Does(P("q")))>>)>>,
     <<Switch(e, <<Case("default", Does(P("p"))), Case("no", Does(P("q")))>>)>>}
Orders ==
    {"main" :> <<TryFinally(b, Does(P("u")))>> @@ "f" :> <<Return(Q("z"))>>
     : b \in UNION {Placed(e) : e \in Exprs}}

\* Plain code that throws where no try is around it.
Escapes == {"main" :> <<While(Q("m"), Does(Pure("p", Fails, <<>>)))>>,
            "main" :> <<Expr(Call("f"))>> @@ "f" :> <<Expr(Pure("p", Fails, <<T("a")>>))>>}

\* A slot that handlers, finallys and loop tests read, at home on either tier.
Slotted ==
    Homed(UNION {{Main(Nest(km, kn, Leave(x, touch)))
                  : x \in ExitsIn("m" :> km @@ "n" :> kn), touch \in {T("a"), U("a")}}
                 : km \in SlotKinds, kn \in {"while", "switch"} \cup TryKinds \cup SlotKinds},
          {"x" :> t : t \in Tiers \cup {"plain"}})

\* A return through a finally that can fail.
FailingFinally ==
    Plain({Main(<<While(Q("q"), <<TryFinally(<<Return(T("a"))>>, Does(T("z")))>>)>>),
           Main(<<TryCatch(<<TryFinally(<<Return(T("a"))>>, Does(T("z")))>>, Does(P("c")))>>)})

AllRuns == Plain(Pairs \cup Triples \cup Calls \cup Orders \cup Escapes) \cup Slotted
=============================================================================
