------------------------- MODULE SessionAuthProofs -------------------------
(***************************************************************************)
(* Proofs about SessionAuth, for any tabs, crossings, restarts, failures   *)
(* and options: type correctness, RefusedOnlyInDoubt and NoLateRotation.   *)
(*                                                                         *)
(* The invariant follows a crossing that was refused (Recovers): unless it *)
(* is in doubt, its reseal has read a cookie the backend honours and was   *)
(* sealed by this boot, for a restart would have closed the socket; so the *)
(* blob of the second request opens.  A claim in flight is that of one     *)
(* crossing (ClaimsKept).  What is numbered stays within the bounds,       *)
(* because each crossing rolls the cookie once and claims once (Budgets).  *)
(***************************************************************************)
EXTENDS SessionAuth, FiniteSetTheorems, TLAPS

Socket(c) == tabs[calls[c].tab].socket

\* What goes with the point a crossing is at.
Staged(c) ==
  /\ calls[c].at \in {"idle", "waiting"} => ~calls[c].retried
  /\ calls[c].at = "answered" /\ calls[c].setCookie # {} => calls[c].status = "ok"
  /\ calls[c].at = "claiming" => calls[c].status = "ok"
  /\ calls[c].setCookie \subseteq 0..issued

\* A refused crossing, its reseal and its second request.
Recovers(c) ==
  /\ calls[c].at = "answered" =>
       Socket(c) = "open" /\ (calls[c].retried /\ calls[c].status = "refused" => c \in doubted)
  /\ calls[c].at = "resealing" => Socket(c) \in {"open", "closed"}
  /\ calls[c].at = "sent" /\ calls[c].retried =>
       Socket(c) = "open" /\ (c \in doubted \/ Honoured(calls[c].blob))
  /\ \A q \in reseals : c \in q.call =>
       /\ calls[c].at = "resealing" /\ q.call = {c} /\ q.tab = calls[c].tab
       /\ Socket(c) = "open" => q.boot = boot
       /\ c \in doubted \/ q.cookie \in live
  /\ \A q, r \in reseals : c \in q.call /\ c \in r.call => q = r
  /\ Retrying(c) => c \in doubted \/ jar \in live
  /\ calls[c].at = "done" /\ calls[c].status = "refused" /\ ~calls[c].joined => c \in doubted

CallsKept == \A c \in Call : Staged(c) /\ Recovers(c)

\* A claim in flight is of one crossing, which awaits it if the pages do.
ClaimsKept ==
  /\ \A m \in claims :
       /\ m.cookie \in 0..issued
       /\ calls[m.call].at \in {"claiming", "done"}
       /\ options.awaitClaims =>
            calls[m.call].at = "claiming" /\ calls[m.call].setCookie = {m.cookie}
  /\ \A m, n \in claims : m.call = n.call => m = n

\* The crossings that may still be answered with a cookie, and those that may still claim one.
Rollable(p) == \/ p.at \in {"idle", "waiting", "sent", "resealing"}
               \/ p.at = "answered" /\ p.status = "refused"
MayRoll == {c \in Call : Rollable(calls[c])}
Claimable(p) == p.at \notin {"claiming", "done"}
Unclaimed == {c \in Call : Claimable(calls[c])} \cup {m.call : m \in claims}
Budgets ==
  /\ issued + Cardinality(MayRoll) <= 1 + Crossings
  /\ \A t \in Tab : tabs[t].gen + heard[t] + Cardinality(Unclaimed) <= Crossings

AInv == TypeOK /\ CallsKept /\ ClaimsKept /\ Budgets

-----------------------------------------------------------------------------
(* Values that may be missing, sets of crossings and records of them.      *)

\* A set of one or none.
LEMMA OptionalIs ==
  ASSUME NEW S
  PROVE  /\ {} \in Optional(S) /\ \A x \in S : {x} \in Optional(S)
         /\ \A o \in Optional(S) : o \subseteq S /\ \A x \in o : o = {x}
BY DEF Optional

\* Sets of crossings are finite, and smaller when one leaves.
LEMMA Counting ==
  ASSUME Crossings \in Nat, NEW S \in SUBSET Call, NEW T \in SUBSET S
  PROVE  /\ Cardinality(S) \in Nat /\ Cardinality(T) \in Nat
         /\ Cardinality(T) <= Cardinality(S)
         /\ \A x \in S \ T : Cardinality(T) + 1 <= Cardinality(S)
<1>1. IsFiniteSet(Call)
  BY FS_Interval DEF Call
<1>2. IsFiniteSet(S) /\ IsFiniteSet(T) /\ T \subseteq S
  BY <1>1, FS_Subset
<1>3. Cardinality(S) \in Nat /\ Cardinality(T) \in Nat /\ Cardinality(T) <= Cardinality(S)
  BY <1>2, FS_Subset, FS_CardinalityType
<1>4. ASSUME NEW x \in S \ T
      PROVE  Cardinality(T) + 1 <= Cardinality(S)
  <2>1. Cardinality(T \cup {x}) = Cardinality(T) + 1 /\ IsFiniteSet(T \cup {x})
    BY <1>2, <1>4, FS_AddElement
  <2>2. T \cup {x} \subseteq S
    BY <1>2, <1>4
  <2>3. Cardinality(T \cup {x}) <= Cardinality(S)
    BY <1>2, <2>2, FS_Subset
  <2> QED BY <2>1, <2>3
<1> QED BY <1>3, <1>4

\* The bounds.
LEMMA Bounds ==
  /\ Crossings \in Nat /\ MaxRestarts \in Nat /\ MaxFailures \in Nat
  /\ \A n \in Nat : n <= Crossings => n \in 0..Crossings
  /\ 0 \in Cookie /\ 0 \in 0..Crossings
BY BoundsAssumption DEF Cookie

\* The sets that the budgets count.
LEMMA Counted ==
  ASSUME TypeOK
  PROVE  MayRoll \subseteq Call /\ Unclaimed \subseteq Call
<1>1. \A m \in claims : m.call \in Call
  BY DEF TypeOK, Claim
<1> QED BY <1>1 DEF MayRoll, Unclaimed

\* The issued cookies are within the bound.
LEMMA CookieIs ==
  ASSUME TypeOK
  PROVE  /\ issued \in Nat \ {0} /\ 0..issued \subseteq Cookie /\ jar \in Cookie
         /\ jar \in 0..issued /\ 0 \notin live /\ live \subseteq 1..issued
<1>1. issued \in Nat \ {0} /\ issued <= 1 + Crossings
  BY Bounds DEF TypeOK, Cookie
<1>2. 0..issued \subseteq Cookie
  BY <1>1, Bounds DEF Cookie
<1> QED BY <1>1, <1>2 DEF TypeOK

\* What the history of doubt gains in a step.
LEMMA DoubtIs ==
  ASSUME Doubt
  PROVE  /\ doubted \subseteq doubted'
         /\ \A c \in Call : /\ Unsealed(c) => c \in doubted'
                            /\ Retrying(c)' /\ jar' \notin live' => c \in doubted'
BY DEF Doubt

\* A crossing that a step leaves alone.
LEMMA Untouched ==
  ASSUME AInv, Doubt, NEW c \in Call, calls'[c] = calls[c],
         \A q : c \in q.call => (q \in reseals' <=> q \in reseals),
         issued <= issued', issued' \in Nat, boot' = boot,
         live \subseteq live' \/ jar' \notin live',
         \/ tabs'[calls[c].tab].socket = tabs[calls[c].tab].socket
         \/ tabs[calls[c].tab].socket \in {"none", "connecting"}
  PROVE  Staged(c)' /\ Recovers(c)'
<1>1. Staged(c) /\ Recovers(c) /\ issued \in Nat
  BY CookieIs DEF AInv, CallsKept
<1>2. Staged(c)'
  <2>1. 0..issued \subseteq 0..issued'
    BY <1>1
  <2> QED BY <1>1, <2>1 DEF Staged
<1>3. /\ doubted \subseteq doubted'
      /\ (calls[c].at = "resealing" \/ (calls[c].retried /\ calls[c].at = "sent"))
           /\ jar' \notin live' => c \in doubted'
  BY DoubtIs DEF Retrying
<1>4. calls[c].at \in {"answered", "resealing"} \/ (calls[c].at = "sent" /\ calls[c].retried) =>
        tabs'[calls[c].tab].socket = tabs[calls[c].tab].socket
  BY <1>1 DEF Recovers, Socket
<1>5. (calls[c].at = "answered" =>
         Socket(c) = "open" /\ (calls[c].retried /\ calls[c].status = "refused" => c \in doubted))'
  BY <1>1, <1>3, <1>4 DEF Recovers, Socket
<1>6. (calls[c].at = "resealing" => Socket(c) \in {"open", "closed"})'
  BY <1>1, <1>4 DEF Recovers, Socket
<1>7. (calls[c].at = "sent" /\ calls[c].retried =>
         Socket(c) = "open" /\ (c \in doubted \/ Honoured(calls[c].blob)))'
  BY <1>1, <1>3, <1>4 DEF Recovers, Socket, Honoured
<1>8. (\A q \in reseals : c \in q.call =>
         /\ calls[c].at = "resealing" /\ q.call = {c} /\ q.tab = calls[c].tab
         /\ Socket(c) = "open" => q.boot = boot
         /\ c \in doubted \/ q.cookie \in live)'
  BY <1>1, <1>3, <1>4 DEF Recovers, Socket
<1>9. (\A q, r \in reseals : c \in q.call /\ c \in r.call => q = r)'
  BY <1>1 DEF Recovers
<1>10. (Retrying(c) => c \in doubted \/ jar \in live)'
  BY DoubtIs
<1>11. (calls[c].at = "done" /\ calls[c].status = "refused" /\ ~calls[c].joined => c \in doubted)'
  BY <1>1, <1>3 DEF Recovers
<1> QED BY <1>2, <1>5, <1>6, <1>7, <1>8, <1>9, <1>10, <1>11 DEF Recovers

\* The claims in flight, when their crossings are left alone.
LEMMA ClaimsStay ==
  ASSUME AInv, claims' \subseteq claims, \A m \in claims' : calls'[m.call] = calls[m.call],
         options' = options, issued <= issued', issued' \in Nat
  PROVE  ClaimsKept'
<1>1. ClaimsKept /\ issued \in Nat
  BY CookieIs DEF AInv
<1>2. 0..issued \subseteq 0..issued'
  BY <1>1
<1> QED BY <1>1, <1>2 DEF ClaimsKept

\* What the tabs may still hear, when nobody claims or hears anything anew.
LEMMA EarsStay ==
  ASSUME AInv, Unclaimed' \subseteq Unclaimed,
         \A t \in Tab : /\ tabs'[t].gen \in Nat /\ heard'[t] \in Nat
                        /\ tabs'[t].gen + heard'[t] <= tabs[t].gen + heard[t]
  PROVE  \A t \in Tab : tabs'[t].gen + heard'[t] + Cardinality(Unclaimed') <= Crossings
<1>1. \A t \in Tab : tabs[t].gen + heard[t] + Cardinality(Unclaimed) <= Crossings
  BY DEF AInv, Budgets
<1>2. Unclaimed \subseteq Call /\ Crossings \in Nat
  BY Counted, Bounds DEF AInv
<1>3. \A t \in Tab : tabs[t].gen \in Nat /\ heard[t] \in Nat
  BY DEF AInv, TypeOK, Page
<1>4. PICK n : n = Cardinality(Unclaimed)
  OBVIOUS
<1>5. PICK m : m = Cardinality(Unclaimed')
  OBVIOUS
<1>6. n \in Nat /\ m \in Nat /\ m <= n
  BY <1>2, <1>4, <1>5, Counting
<1>7. \A t \in Tab : tabs[t].gen + heard[t] + n <= Crossings
  BY <1>1, <1>4
<1>8. \A t \in Tab : tabs'[t].gen + heard'[t] + m <= Crossings
  BY <1>2, <1>3, <1>6, <1>7
<1> QED BY <1>5, <1>8

\* The budgets, when nobody rolls the cookie either.
LEMMA BudgetsStay ==
  ASSUME AInv, MayRoll' \subseteq MayRoll, Unclaimed' \subseteq Unclaimed, issued' = issued,
         \A t \in Tab : /\ tabs'[t].gen \in Nat /\ heard'[t] \in Nat
                        /\ tabs'[t].gen + heard'[t] <= tabs[t].gen + heard[t]
  PROVE  Budgets'
<1>1. issued + Cardinality(MayRoll) <= 1 + Crossings
  BY DEF AInv, Budgets
<1>2. MayRoll \subseteq Call /\ issued \in Nat /\ Crossings \in Nat
  BY Counted, CookieIs, Bounds DEF AInv
<1>3. /\ Cardinality(MayRoll) \in Nat /\ Cardinality(MayRoll') \in Nat
      /\ Cardinality(MayRoll') <= Cardinality(MayRoll)
  BY <1>2, Counting
<1>4. issued' + Cardinality(MayRoll') <= 1 + Crossings
  BY <1>1, <1>2, <1>3
<1> QED BY <1>4, EarsStay DEF Budgets

\* What a page and a tab's ear may count.
LEMMA Ears ==
  ASSUME AInv, NEW t \in Tab
  PROVE  /\ tabs[t] \in Page /\ tabs[t].gen \in Nat /\ heard[t] \in Nat
         /\ tabs[t].gen + heard[t] <= Crossings
<1>1. tabs[t] \in Page /\ tabs[t].gen \in Nat /\ heard[t] \in Nat
  BY DEF AInv, TypeOK, Page
<1>2. tabs[t].gen + heard[t] + Cardinality(Unclaimed) <= Crossings
  BY DEF AInv, Budgets
<1>3. Cardinality(Unclaimed) \in Nat /\ Crossings \in Nat
  <2>1. Unclaimed \subseteq Call
    BY Counted DEF AInv
  <2> QED BY <2>1, Counting, Bounds
<1> QED BY <1>1, <1>2, <1>3

-----------------------------------------------------------------------------
(* The steps of a page.                                                    *)

\* A step that only the page, and requests no crossing awaits, have a part in.
LEMMA PageKeeps ==
  ASSUME AInv, Doubt, UNCHANGED <<options, issued, live, jar, boot, claims, calls>>,
         tabs' \in [Tab -> Page], hello' \in [Tab -> Optional(Hello)],
         heard' \in [Tab -> 0..Crossings], failures' \in 0..MaxFailures, reseals' \subseteq Reseal,
         \A c \in Call, q \in reseals \cup reseals' :
           c \in q.call => (q \in reseals' <=> q \in reseals),
         \A t \in Tab : /\ \/ tabs'[t].socket = tabs[t].socket
                           \/ tabs[t].socket \in {"none", "connecting"}
                        /\ tabs'[t].gen + heard'[t] <= tabs[t].gen + heard[t]
  PROVE  AInv'
<1>1. TypeOK'
  BY DEF AInv, TypeOK, Doubt
<1>2. CallsKept'
  <2>1. SUFFICES ASSUME NEW c \in Call
                 PROVE  Staged(c)' /\ Recovers(c)'
    BY DEF CallsKept
  <2>2. calls[c].tab \in Tab
    BY DEF AInv, TypeOK, Crossing
  <2>3. \A q : c \in q.call => (q \in reseals' <=> q \in reseals)
    OBVIOUS
  <2>4. issued \in Nat
    BY CookieIs DEF AInv
  <2> QED BY <2>2, <2>3, <2>4, Untouched
<1>3. ClaimsKept'
  BY CookieIs, ClaimsStay DEF AInv
<1>4. Budgets'
  <2>1. MayRoll' \subseteq MayRoll
    BY DEF MayRoll
  <2>2. Unclaimed' \subseteq Unclaimed
    BY DEF Unclaimed
  <2>3. \A t \in Tab : tabs'[t].gen \in Nat /\ heard'[t] \in Nat
    BY DEF Page
  <2> QED BY <2>1, <2>2, <2>3, BudgetsStay
<1> QED BY <1>1, <1>2, <1>3, <1>4 DEF AInv

\* A reseal that the pages make for `ready`.
LEMMA ReadyResealIs ==
  ASSUME TypeOK, NEW t \in Tab, NEW gen \in 0..Crossings
  PROVE  ReadyReseal(t, gen) \in Reseal /\ ReadyReseal(t, gen).call = {}
<1>1. jar \in Cookie /\ boot \in 0..MaxRestarts /\ {} \in Optional(Call)
  BY CookieIs, OptionalIs DEF TypeOK
<1> QED BY <1>1 DEF ReadyReseal, Reseal

\* A page loads.
LEMMA OpenKeeps ==
  ASSUME AInv, Doubt, NEW t \in Tab, Open(t)
  PROVE  AInv'
<1>1. PICK p : p = [tabs[t] EXCEPT !.socket = "connecting", !.cookie = jar,
                                   !.started = ~options.hello]
  OBVIOUS
<1>2. tabs[t] \in Page /\ tabs[t].socket = "none" /\ jar \in Cookie
  BY CookieIs DEF AInv, TypeOK, Open, Loaded
<1>3. options.hello \in BOOLEAN
  BY OptionsAssumption DEF AInv, TypeOK
<1>4. p \in Page /\ p.gen = tabs[t].gen
  BY <1>1, <1>2, <1>3 DEF Page
<1>5. tabs' = [tabs EXCEPT ![t] = p] /\ tabs \in [Tab -> Page]
  BY <1>1 DEF Open, AInv, TypeOK
<1>6. tabs' \in [Tab -> Page]
  BY <1>4, <1>5
<1>7. \A u \in Tab : /\ tabs'[u].gen = tabs[u].gen
                     /\ \/ tabs'[u].socket = tabs[u].socket
                        \/ tabs[u].socket \in {"none", "connecting"}
  BY <1>2, <1>4, <1>5
<1>8. UNCHANGED <<options, issued, live, jar, boot, failures, hello, claims, heard, calls>>
  BY DEF Open
<1>9. /\ reseals' \subseteq Reseal
      /\ \A c \in Call, q \in reseals \cup reseals' :
           c \in q.call => (q \in reseals' <=> q \in reseals)
  <2>1. ReadyReseal(t, 0) \in Reseal /\ ReadyReseal(t, 0).call = {}
    BY ReadyResealIs, Bounds DEF AInv
  <2>2. reseals' = reseals \/ reseals' = reseals \cup {ReadyReseal(t, 0)}
    BY DEF Open
  <2>3. reseals \subseteq Reseal
    BY DEF AInv, TypeOK
  <2> QED BY <2>1, <2>2, <2>3
<1>10. /\ hello' \in [Tab -> Optional(Hello)] /\ heard' \in [Tab -> 0..Crossings]
       /\ failures' \in 0..MaxFailures
  BY <1>8 DEF AInv, TypeOK
<1>11. \A u \in Tab : tabs'[u].gen + heard'[u] <= tabs[u].gen + heard[u]
  BY <1>7, <1>8, Ears
<1> QED BY <1>6, <1>7, <1>8, <1>9, <1>10, <1>11, PageKeeps

\* The gateway answers the upgrade.
LEMMA AcceptKeeps ==
  ASSUME AInv, Doubt, NEW t \in Tab, Accept(t)
  PROVE  AInv'
<1>1. PICK p : p = [tabs[t] EXCEPT !.socket = "open", !.cookie = 0]
  OBVIOUS
<1>2. tabs[t] \in Page /\ tabs[t].socket = "connecting"
  BY DEF AInv, TypeOK, Accept
<1>3. p \in Page /\ p.gen = tabs[t].gen
  BY <1>1, <1>2, Bounds DEF Page
<1>4. tabs' = [tabs EXCEPT ![t] = p] /\ tabs \in [Tab -> Page]
  BY <1>1 DEF Accept, AInv, TypeOK
<1>5. tabs' \in [Tab -> Page]
  BY <1>3, <1>4
<1>6. \A u \in Tab : /\ tabs'[u].gen = tabs[u].gen
                     /\ \/ tabs'[u].socket = tabs[u].socket
                        \/ tabs[u].socket \in {"none", "connecting"}
  BY <1>2, <1>3, <1>4
<1>7. UNCHANGED <<options, issued, live, jar, boot, failures, reseals, claims, heard, calls>>
  BY DEF Accept
<1>8. PICK h : h = IF options.hello THEN {HelloFor(tabs[t].cookie)} ELSE {}
  OBVIOUS
<1>9. h \in Optional(Hello)
  <2>1. HelloFor(tabs[t].cookie) \in Hello
    <3>1. PICK k : k = tabs[t].cookie
      OBVIOUS
    <3>2. k \in Cookie
      BY <1>2, <3>1 DEF Page
    <3>3. Seal(k) \in Sealed
      BY <3>2 DEF Seal, Sealed, AInv, TypeOK
    <3>4. /\ {} \in Optional(Sealed) /\ {Seal(k)} \in Optional(Sealed)
          /\ {} \in Optional({"ok", "refused"})
          /\ {IF k \in live THEN "ok" ELSE "refused"} \in Optional({"ok", "refused"})
      BY <3>3, OptionalIs
    <3>5. HelloFor(k) \in Hello
      BY <3>4 DEF HelloFor, Hello
    <3> QED BY <3>1, <3>5
  <2> QED BY <1>8, <2>1, OptionalIs
<1>10. hello' = [hello EXCEPT ![t] = h] /\ hello \in [Tab -> Optional(Hello)]
  BY <1>8 DEF Accept, AInv, TypeOK
<1>11. hello' \in [Tab -> Optional(Hello)]
  BY <1>9, <1>10
<1>12. reseals' \subseteq Reseal /\ heard' \in [Tab -> 0..Crossings] /\ failures' \in 0..MaxFailures
  BY <1>7 DEF AInv, TypeOK
<1>13. \A u \in Tab : tabs'[u].gen + heard'[u] <= tabs[u].gen + heard[u]
  BY <1>6, <1>7, Ears
<1> QED BY <1>5, <1>6, <1>7, <1>11, <1>12, <1>13, PageKeeps

\* What the page has after the promise of its hello was settled.
LEMMA TakeHelloIs ==
  ASSUME AInv, NEW t \in Tab, NEW h \in Hello, TakeHello(t, h)
  PROVE  /\ tabs' \in [Tab -> Page] /\ reseals' \subseteq Reseal
         /\ \A u \in Tab : tabs'[u].gen = tabs[u].gen /\ tabs'[u].socket = tabs[u].socket
         /\ \A c \in Call, q \in reseals \cup reseals' :
              c \in q.call => (q \in reseals' <=> q \in reseals)
<1>1. PICK p : p = [tabs[t] EXCEPT !.started = TRUE, !.preboot = h.preboot,
                          !.blob = IF h.blob # {} THEN h.blob ELSE tabs[t].blob]
  OBVIOUS
<1>2. tabs[t] \in Page
  BY Ears
<1>3. p \in Page /\ p.gen = tabs[t].gen /\ p.socket = tabs[t].socket
  <2>1. h.blob \in Optional(Sealed) /\ h.preboot \in Optional({"ok", "refused"})
    BY DEF Hello
  <2> QED BY <1>1, <1>2, <2>1 DEF Page
<1>4. tabs' = [tabs EXCEPT ![t] = p] /\ tabs \in [Tab -> Page]
  BY <1>1 DEF TakeHello, AInv, TypeOK
<1>5. tabs' \in [Tab -> Page]
  BY <1>3, <1>4
<1>6. \A u \in Tab : tabs'[u].gen = tabs[u].gen /\ tabs'[u].socket = tabs[u].socket
  BY <1>3, <1>4
<1>7. ReadyReseal(t, 0) \in Reseal /\ ReadyReseal(t, 0).call = {}
  BY ReadyResealIs, Bounds DEF AInv
<1>8. reseals' = reseals \/ reseals' = reseals \cup {ReadyReseal(t, 0)}
  BY DEF TakeHello
<1>9. reseals \subseteq Reseal
  BY DEF AInv, TypeOK
<1> QED BY <1>5, <1>6, <1>7, <1>8, <1>9

\* The hello arrives, in time or not.
LEMMA HelloArrivesKeeps ==
  ASSUME AInv, Doubt, NEW t \in Tab, HelloArrives(t)
  PROVE  AInv'
<1>1. /\ UNCHANGED <<options, issued, live, jar, boot, failures, claims, heard, calls>>
      /\ hello' = [hello EXCEPT ![t] = {}]
  BY DEF HelloArrives
<1>2. hello' \in [Tab -> Optional(Hello)]
  BY <1>1, OptionalIs DEF AInv, TypeOK
<1>3. heard' \in [Tab -> 0..Crossings] /\ failures' \in 0..MaxFailures
  BY <1>1 DEF AInv, TypeOK
<1>4. /\ tabs' \in [Tab -> Page] /\ reseals' \subseteq Reseal
      /\ \A u \in Tab : tabs'[u].gen = tabs[u].gen /\ tabs'[u].socket = tabs[u].socket
      /\ \A c \in Call, q \in reseals \cup reseals' :
           c \in q.call => (q \in reseals' <=> q \in reseals)
  <2>1. CASE UNCHANGED <<tabs, reseals>>
    BY <2>1 DEF AInv, TypeOK
  <2>2. CASE \E h \in hello[t] : TakeHello(t, h)
    <3>1. PICK h \in hello[t] : TakeHello(t, h)
      BY <2>2
    <3>2. h \in Hello
      <4>1. hello[t] \in Optional(Hello)
        BY DEF AInv, TypeOK
      <4> QED BY <4>1, OptionalIs
    <3> QED BY <3>1, <3>2, TakeHelloIs
  <2> QED BY <2>1, <2>2 DEF HelloArrives
<1>5. \A u \in Tab : tabs'[u].gen + heard'[u] <= tabs[u].gen + heard[u]
  BY <1>1, <1>4, Ears
<1> QED BY <1>1, <1>2, <1>3, <1>4, <1>5, PageKeeps

\* Its timer fires.
LEMMA HelloTimeoutKeeps ==
  ASSUME AInv, Doubt, NEW t \in Tab, HelloTimeout(t)
  PROVE  AInv'
<1>1. PICK h : h = [blob |-> {}, preboot |-> {}]
  OBVIOUS
<1>2. h \in Hello
  BY <1>1, OptionalIs DEF Hello
<1>3. /\ UNCHANGED <<options, issued, live, jar, boot, failures, hello, claims, heard, calls>>
      /\ TakeHello(t, h)
  BY <1>1 DEF HelloTimeout
<1>4. /\ tabs' \in [Tab -> Page] /\ reseals' \subseteq Reseal
      /\ \A u \in Tab : tabs'[u].gen = tabs[u].gen /\ tabs'[u].socket = tabs[u].socket
      /\ \A c \in Call, q \in reseals \cup reseals' :
           c \in q.call => (q \in reseals' <=> q \in reseals)
  BY <1>2, <1>3, TakeHelloIs
<1>5. /\ hello' \in [Tab -> Optional(Hello)] /\ heard' \in [Tab -> 0..Crossings]
      /\ failures' \in 0..MaxFailures
  BY <1>3 DEF AInv, TypeOK
<1>6. \A u \in Tab : tabs'[u].gen + heard'[u] <= tabs[u].gen + heard[u]
  BY <1>3, <1>4, Ears
<1> QED BY <1>3, <1>4, <1>5, <1>6, PageKeeps

\* Another tab has rotated the cookie.
LEMMA HearKeeps ==
  ASSUME AInv, Doubt, NEW t \in Tab, Hear(t)
  PROVE  AInv'
<1>1. PICK g : g = tabs[t].gen + 1
  OBVIOUS
<1>2. /\ tabs[t] \in Page /\ tabs[t].gen \in Nat /\ heard[t] \in Nat
      /\ tabs[t].gen + heard[t] <= Crossings /\ heard[t] > 0 /\ Crossings \in Nat
  BY Ears, Bounds DEF Hear
<1>3. g \in 0..Crossings /\ heard[t] - 1 \in 0..Crossings
  BY <1>1, <1>2
<1>4. PICK p : p = [tabs[t] EXCEPT !.gen = g]
  OBVIOUS
<1>5. p \in Page /\ p.gen = g /\ p.socket = tabs[t].socket
  BY <1>2, <1>3, <1>4 DEF Page
<1>6. tabs' = [tabs EXCEPT ![t] = p] /\ tabs \in [Tab -> Page]
  BY <1>1, <1>4 DEF Hear, AInv, TypeOK
<1>7. heard' = [heard EXCEPT ![t] = heard[t] - 1] /\ heard \in [Tab -> 0..Crossings]
  BY DEF Hear, AInv, TypeOK
<1>8. tabs' \in [Tab -> Page] /\ heard' \in [Tab -> 0..Crossings]
  BY <1>3, <1>5, <1>6, <1>7
<1>9. /\ UNCHANGED <<options, issued, live, jar, boot, failures, hello, claims, calls>>
      /\ reseals' = reseals \cup {ReadyReseal(t, g)}
  BY <1>1 DEF Hear
<1>10. ReadyReseal(t, g) \in Reseal /\ ReadyReseal(t, g).call = {}
  BY <1>3, ReadyResealIs DEF AInv
<1>11. /\ reseals' \subseteq Reseal
       /\ \A c \in Call, q \in reseals \cup reseals' :
            c \in q.call => (q \in reseals' <=> q \in reseals)
  BY <1>9, <1>10 DEF AInv, TypeOK
<1>12. \A u \in Tab : tabs'[u].socket = tabs[u].socket
  BY <1>5, <1>6
<1>13. \A u \in Tab : tabs'[u].gen + heard'[u] <= tabs[u].gen + heard[u]
  <2>1. SUFFICES ASSUME NEW u \in Tab
                 PROVE  tabs'[u].gen + heard'[u] <= tabs[u].gen + heard[u]
    OBVIOUS
  <2>2. CASE u = t
    <3>1. tabs'[u].gen = tabs[u].gen + 1 /\ heard'[u] = heard[u] - 1
      BY <1>1, <1>5, <1>6, <1>7, <2>2
    <3> QED BY <1>2, <2>2, <3>1
  <2>3. CASE u # t
    <3>1. tabs'[u].gen = tabs[u].gen /\ heard'[u] = heard[u]
      BY <1>6, <1>7, <2>3
    <3> QED BY <3>1, Ears
  <2> QED BY <2>2, <2>3
<1>14. hello' \in [Tab -> Optional(Hello)] /\ failures' \in 0..MaxFailures
  BY <1>9 DEF AInv, TypeOK
<1> QED BY <1>8, <1>9, <1>11, <1>12, <1>13, <1>14, PageKeeps

\* A failure that is still allowed.
LEMMA FailingIs ==
  ASSUME AInv, Failing
  PROVE  failures' \in 0..MaxFailures /\ failures' # failures
BY Bounds DEF Failing, AInv, TypeOK

\* A reseal ends: its tab has another blob.
LEMMA ResumeIs ==
  ASSUME AInv, NEW q \in reseals, NEW blob \in Optional(Sealed), Resume(q, blob)
  PROVE  /\ q \in Reseal /\ q.tab \in Tab /\ q.call \in Optional(Call)
         /\ tabs' \in [Tab -> Page] /\ reseals' = reseals \ {q} /\ reseals' \subseteq Reseal
         /\ \A u \in Tab : tabs'[u].gen = tabs[u].gen /\ tabs'[u].socket = tabs[u].socket
<1>1. q \in Reseal
  BY DEF AInv, TypeOK
<1>2. q.tab \in Tab /\ q.call \in Optional(Call)
  BY <1>1 DEF Reseal
<1>3. PICK p : p = [tabs[q.tab] EXCEPT !.blob = blob]
  OBVIOUS
<1>4. tabs[q.tab] \in Page
  BY <1>2, Ears
<1>5. p \in Page /\ p.gen = tabs[q.tab].gen /\ p.socket = tabs[q.tab].socket
  BY <1>3, <1>4 DEF Page
<1>6. tabs' = [tabs EXCEPT ![q.tab] = p] /\ tabs \in [Tab -> Page]
  BY <1>3 DEF Resume, AInv, TypeOK
<1>7. reseals' = reseals \ {q} /\ reseals' \subseteq Reseal
  BY DEF Resume, AInv, TypeOK
<1> QED BY <1>1, <1>2, <1>5, <1>6, <1>7

-----------------------------------------------------------------------------
(* The steps of a crossing.                                                *)

\* A step of one crossing: the others stay as they are.
LEMMA CallKeeps ==
  ASSUME AInv, Doubt, NEW c \in Call, NEW d \in Crossing, calls' = [calls EXCEPT ![c] = d],
         UNCHANGED <<options, boot, hello>>,
         tabs' \in [Tab -> Page], \A t \in Tab : tabs'[t].socket = tabs[t].socket,
         heard' \in [Tab -> 0..Crossings], failures' \in 0..MaxFailures,
         reseals' \subseteq Reseal, claims' \subseteq Claim,
         issued' \in Cookie \ {0}, issued <= issued', live' \subseteq 1..issued',
         jar' \in 0..issued',
         live \subseteq live' \/ jar' \notin live',
         \A e \in Call \ {c}, q \in reseals \cup reseals' :
           e \in q.call => (q \in reseals' <=> q \in reseals),
         Staged(c)', Recovers(c)', ClaimsKept', Budgets'
  PROVE  AInv'
<1>1. calls \in [Call -> Crossing]
  BY DEF AInv, TypeOK
<1>2. calls' \in [Call -> Crossing] /\ \A e \in Call \ {c} : calls'[e] = calls[e]
  BY <1>1
<1>3. TypeOK'
  BY <1>2 DEF AInv, TypeOK, Doubt
<1>4. CallsKept'
  <2>1. SUFFICES ASSUME NEW e \in Call
                 PROVE  Staged(e)' /\ Recovers(e)'
    BY DEF CallsKept
  <2>2. CASE e = c
    BY <2>2
  <2>3. CASE e # c
    <3>1. calls[e].tab \in Tab
      BY <1>1 DEF Crossing
    <3>2. \A q : e \in q.call => (q \in reseals' <=> q \in reseals)
      BY <2>3
    <3>3. issued' \in Nat
      BY Bounds DEF Cookie
    <3> QED BY <1>2, <2>3, <3>1, <3>2, <3>3, Untouched
  <2> QED BY <2>2, <2>3
<1> QED BY <1>3, <1>4 DEF AInv

\* A crossing that is not between a refusal and the second answer afterwards.
LEMMA Recovered ==
  ASSUME NEW c \in Call, NEW d, calls'[c] = d, \A q \in reseals' : c \notin q.call,
         d.at # "resealing", d.at = "sent" => ~d.retried,
         d.at = "answered" => /\ tabs'[d.tab].socket = "open"
                              /\ d.retried /\ d.status = "refused" => c \in doubted',
         d.at = "done" /\ d.status = "refused" /\ ~d.joined => c \in doubted'
  PROVE  Recovers(c)'
BY DEF Recovers, Socket, Retrying

\* A crossing that awaits no reseal has none.
LEMMA NoReseal ==
  ASSUME AInv, NEW c \in Call, calls[c].at # "resealing"
  PROVE  \A q \in reseals : c \notin q.call
BY DEF AInv, CallsKept, Recovers

\* The sets of the budgets when one crossing moves on.
LEMMA OneCallLess ==
  ASSUME NEW c \in Call, NEW d, \A e \in Call \ {c} : calls'[e] = calls[e], calls'[c] = d,
         Rollable(d) => Rollable(calls[c]),
         Claimable(d) => Claimable(calls[c]), claims' \subseteq claims
  PROVE  MayRoll' \subseteq MayRoll /\ Unclaimed' \subseteq Unclaimed
BY DEF MayRoll, Unclaimed, Rollable, Claimable

\* A crossing that settles, or goes on without an answer.
LEMMA MovesKeeps ==
  ASSUME AInv, Doubt, NEW c \in Call, NEW d \in Crossing, calls' = [calls EXCEPT ![c] = d],
         UNCHANGED <<options, issued, live, jar, boot, hello, heard, claims>>,
         failures' = failures \/ failures' \in 0..MaxFailures,
         tabs' \in [Tab -> Page],
         \A t \in Tab : tabs'[t].socket = tabs[t].socket /\ tabs'[t].gen = tabs[t].gen,
         reseals' \subseteq Reseal,
         \A e \in Call \ {c}, q \in reseals \cup reseals' :
           e \in q.call => (q \in reseals' <=> q \in reseals),
         Claimable(calls[c]), Rollable(d) => Rollable(calls[c]),
         Staged(c)', Recovers(c)'
  PROVE  AInv'
<1>1. calls \in [Call -> Crossing]
  BY DEF AInv, TypeOK
<1>2. calls'[c] = d /\ \A e \in Call \ {c} : calls'[e] = calls[e]
  BY <1>1
<1>3. issued \in Nat /\ issued <= issued'
  BY CookieIs DEF AInv
<1>4. ClaimsKept'
  <2>1. \A m \in claims' : calls'[m.call] = calls[m.call]
    <3>1. SUFFICES ASSUME NEW m \in claims
                   PROVE  calls'[m.call] = calls[m.call]
      OBVIOUS
    <3>2. m.call \in Call
      BY DEF AInv, TypeOK, Claim
    <3>3. calls[m.call].at \in {"claiming", "done"}
      BY DEF AInv, ClaimsKept
    <3> QED BY <1>2, <3>2, <3>3 DEF Claimable
  <2> QED BY <1>3, <2>1, ClaimsStay
<1>5. Budgets'
  <2>1. MayRoll' \subseteq MayRoll /\ Unclaimed' \subseteq Unclaimed
    BY <1>2, OneCallLess
  <2>2. \A t \in Tab : /\ tabs'[t].gen \in Nat /\ heard'[t] \in Nat
                       /\ tabs'[t].gen + heard'[t] <= tabs[t].gen + heard[t]
    BY Ears
  <2> QED BY <2>1, <2>2, BudgetsStay
<1>6. /\ heard' \in [Tab -> 0..Crossings] /\ failures' \in 0..MaxFailures /\ claims' \subseteq Claim
      /\ issued' \in Cookie \ {0} /\ live' \subseteq 1..issued' /\ jar' \in 0..issued'
  BY DEF AInv, TypeOK
<1> QED BY <1>3, <1>4, <1>5, <1>6, CallKeeps

\* The page makes a crossing.
LEMMA StartKeeps ==
  ASSUME AInv, Doubt, NEW c \in Call, NEW t \in Tab, NEW kind \in Kind, Start(c, t, kind)
  PROVE  AInv'
<1>1. PICK d : d = [calls[c] EXCEPT !.at = "waiting", !.tab = t, !.kind = kind, !.gen = tabs[t].gen]
  OBVIOUS
<1>2. calls[c] \in Crossing /\ calls[c].at = "idle" /\ tabs[t].gen \in 0..Crossings
  BY DEF AInv, TypeOK, Start, Page
<1>3. /\ d \in Crossing /\ d.at = "waiting" /\ d.retried = calls[c].retried
      /\ d.setCookie = calls[c].setCookie
  BY <1>1, <1>2 DEF Crossing
<1>4. /\ calls' = [calls EXCEPT ![c] = d] /\ calls \in [Call -> Crossing]
      /\ UNCHANGED <<options, issued, live, jar, boot, failures, tabs, hello, reseals, claims,
                     heard>>
  BY <1>1 DEF Start, AInv, TypeOK
<1>5. calls'[c] = d
  BY <1>4
<1>6. Staged(c)'
  BY <1>2, <1>3, <1>4, <1>5 DEF AInv, CallsKept, Staged
<1>7. Recovers(c)'
  <2>1. \A q \in reseals' : c \notin q.call
    BY <1>2, <1>4, NoReseal
  <2> QED BY <1>3, <1>5, <2>1, Recovered
<1>8. Claimable(calls[c]) /\ Rollable(calls[c])
  BY <1>2 DEF Claimable, Rollable
<1>9. tabs' \in [Tab -> Page] /\ reseals' \subseteq Reseal
  BY <1>4 DEF AInv, TypeOK
<1> QED BY <1>3, <1>4, <1>6, <1>7, <1>8, <1>9, MovesKeeps

\* What is left of a crossing that has settled.
LEMMA SettledIs ==
  ASSUME NEW p \in Crossing, NEW s \in {"none", "ok", "refused", "lost"}
  PROVE  /\ Settled(p, s) \in Crossing /\ Settled(p, s).at = "done" /\ Settled(p, s).status = s
         /\ Settled(p, s).joined = p.joined /\ Settled(p, s).setCookie = {}
         /\ ~Settled(p, s).retried
<1>1. NewCall \in Crossing /\ NewCall.setCookie = {} /\ ~NewCall.retried
  <2>1. (CHOOSE t \in Tab : TRUE) \in Tab
    BY TabAssumption
  <2> QED BY <2>1, OptionalIs, Bounds DEF NewCall, Crossing, Kind
<1> QED BY <1>1 DEF Settled, Crossing

\* It takes the envelope.
LEMMA JoinKeeps ==
  ASSUME AInv, Doubt, NEW c \in Call, Join(c)
  PROVE  AInv'
<1>1. PICK t : t = calls[c].tab
  OBVIOUS
<1>2. /\ calls[c] \in Crossing /\ calls \in [Call -> Crossing] /\ calls[c].at = "waiting"
      /\ t \in Tab /\ tabs[t] \in Page
  BY <1>1 DEF AInv, TypeOK, Join, Crossing
<1>3. PICK s \in tabs[t].preboot :
        calls' = [calls EXCEPT ![c] = Settled([@ EXCEPT !.joined = TRUE], s)]
  BY <1>1 DEF Join
<1>4. s \in {"ok", "refused"}
  <2>1. tabs[t].preboot \in Optional({"ok", "refused"})
    BY <1>2 DEF Page
  <2> QED BY <1>3, <2>1, OptionalIs
<1>5. PICK e : e = [calls[c] EXCEPT !.joined = TRUE]
  OBVIOUS
<1>6. e \in Crossing /\ e.joined
  BY <1>2, <1>5 DEF Crossing
<1>7. PICK d : d = Settled(e, s)
  OBVIOUS
<1>8. /\ d \in Crossing /\ d.at = "done" /\ d.joined /\ d.setCookie = {}
  BY <1>4, <1>6, <1>7, SettledIs
<1>9. calls' = [calls EXCEPT ![c] = d] /\ calls'[c] = d
  BY <1>2, <1>3, <1>5, <1>7
<1>10. /\ tabs' = [tabs EXCEPT ![t].preboot = {}]
       /\ UNCHANGED <<options, issued, live, jar, boot, failures, hello, reseals, claims, heard>>
  BY <1>1 DEF Join
<1>11. /\ tabs' \in [Tab -> Page]
       /\ \A u \in Tab : tabs'[u].socket = tabs[u].socket /\ tabs'[u].gen = tabs[u].gen
  <2>1. PICK p : p = [tabs[t] EXCEPT !.preboot = {}]
    OBVIOUS
  <2>2. p \in Page /\ p.gen = tabs[t].gen /\ p.socket = tabs[t].socket
    BY <1>2, <2>1, OptionalIs DEF Page
  <2>3. tabs' = [tabs EXCEPT ![t] = p] /\ tabs \in [Tab -> Page]
    BY <1>10, <2>1 DEF AInv, TypeOK
  <2> QED BY <2>2, <2>3
<1>12. Staged(c)'
  BY <1>8, <1>9 DEF Staged
<1>13. Recovers(c)'
  <2>1. \A q \in reseals' : c \notin q.call
    BY <1>2, <1>10, NoReseal
  <2> QED BY <1>8, <1>9, <2>1, Recovered
<1>14. Claimable(calls[c]) /\ Rollable(calls[c]) /\ reseals' \subseteq Reseal
  BY <1>2, <1>10 DEF Claimable, Rollable, AInv, TypeOK
<1> QED BY <1>8, <1>9, <1>10, <1>11, <1>12, <1>13, <1>14, MovesKeeps

\* What is sent.
LEMMA SentIs ==
  ASSUME NEW p \in Crossing, NEW blob \in Optional(Sealed)
  PROVE  /\ Sent(p, blob) \in Crossing /\ Sent(p, blob).joined = p.joined
         /\ \/ /\ tabs[p.tab].socket \in {"failed", "closed"}
               /\ Sent(p, blob).at = "done" /\ Sent(p, blob).status = "lost"
               /\ Sent(p, blob).setCookie = {}
            \/ /\ tabs[p.tab].socket \notin {"failed", "closed"}
               /\ Sent(p, blob).at = "sent" /\ Sent(p, blob).blob = blob
               /\ Sent(p, blob).retried = p.retried /\ Sent(p, blob).tab = p.tab
               /\ Sent(p, blob).setCookie = p.setCookie
<1>1. CASE tabs[p.tab].socket \in {"failed", "closed"}
  BY <1>1, SettledIs DEF Sent
<1>2. CASE tabs[p.tab].socket \notin {"failed", "closed"}
  <2>1. PICK d : d = [p EXCEPT !.at = "sent", !.gen = 0, !.blob = blob]
    OBVIOUS
  <2>2. /\ d \in Crossing /\ d.joined = p.joined /\ d.at = "sent" /\ d.blob = blob
        /\ d.retried = p.retried /\ d.tab = p.tab /\ d.setCookie = p.setCookie
    BY <2>1, Bounds DEF Crossing
  <2>3. Sent(p, blob) = d
    BY <1>2, <2>1 DEF Sent
  <2> QED BY <1>2, <2>2, <2>3
<1> QED BY <1>1, <1>2

\* Its `ready` is settled: the first request.
LEMMA SendKeeps ==
  ASSUME AInv, Doubt, NEW c \in Call, Send(c)
  PROVE  AInv'
<1>1. PICK blob : blob = tabs[calls[c].tab].blob
  OBVIOUS
<1>2. calls[c] \in Crossing /\ calls \in [Call -> Crossing] /\ calls[c].at = "waiting"
      /\ calls[c].tab \in Tab /\ blob \in Optional(Sealed)
  BY <1>1 DEF AInv, TypeOK, Send, Crossing, Page
<1>3. PICK d : d = Sent(calls[c], blob)
  OBVIOUS
<1>4. /\ calls' = [calls EXCEPT ![c] = d] /\ calls'[c] = d
      /\ UNCHANGED <<options, issued, live, jar, boot, failures, tabs, hello, reseals, claims,
                     heard>>
  BY <1>1, <1>2, <1>3 DEF Send
<1>5. /\ d \in Crossing
      /\ \/ d.at = "done" /\ d.status = "lost" /\ d.setCookie = {}
         \/ d.at = "sent" /\ d.retried = calls[c].retried /\ d.setCookie = calls[c].setCookie
  BY <1>2, <1>3, SentIs
<1>6. Staged(c) /\ ~calls[c].retried
  BY <1>2 DEF AInv, CallsKept, Staged
<1>7. Staged(c)'
  BY <1>4, <1>5, <1>6 DEF Staged
<1>8. Recovers(c)'
  <2>1. \A q \in reseals' : c \notin q.call
    BY <1>2, <1>4, NoReseal
  <2> QED BY <1>4, <1>5, <1>6, <2>1, Recovered
<1>9. Claimable(calls[c]) /\ Rollable(calls[c])
  BY <1>2 DEF Claimable, Rollable
<1>10. tabs' \in [Tab -> Page] /\ reseals' \subseteq Reseal
  BY <1>4 DEF AInv, TypeOK
<1> QED BY <1>4, <1>5, <1>7, <1>8, <1>9, <1>10, MovesKeeps

\* The claims in flight, when a crossing that has not claimed moves on.
LEMMA OthersClaim ==
  ASSUME AInv, NEW c \in Call, NEW d, calls' = [calls EXCEPT ![c] = d], Claimable(calls[c])
  PROVE  \A m \in claims : m.call \in Call /\ m.call # c /\ calls'[m.call] = calls[m.call]
<1>1. calls \in [Call -> Crossing]
  BY DEF AInv, TypeOK
<1>2. SUFFICES ASSUME NEW m \in claims
               PROVE  m.call \in Call /\ m.call # c /\ calls'[m.call] = calls[m.call]
  OBVIOUS
<1>3. m.call \in Call
  BY DEF AInv, TypeOK, Claim
<1>4. calls[m.call].at \in {"claiming", "done"}
  BY DEF AInv, ClaimsKept
<1> QED BY <1>1, <1>3, <1>4 DEF Claimable

\* The gateway and the backend answer a request, and may roll the cookie.
LEMMA AnsweredKeeps ==
  ASSUME AInv, Doubt, NEW c \in Call, calls[c].at = "sent",
         tabs[calls[c].tab].socket = "open",
         UNCHANGED <<options, jar, boot, failures, tabs, hello, reseals, claims, heard>>,
         NEW status \in {"ok", "refused"}, NEW setCookie \in Optional(Cookie),
         Answered(c, status, setCookie),
         status = "refused" => /\ ~Honoured(calls[c].blob)
                               /\ setCookie = {} /\ issued' = issued,
         setCookie \subseteq 0..issued', issued' \in {issued, issued + 1},
         live' \subseteq 1..issued', live \subseteq live' \/ jar \notin live'
  PROVE  AInv'
<1>1. PICK d : d = [calls[c] EXCEPT !.at = "answered", !.blob = {}, !.status = status,
                                    !.setCookie = setCookie]
  OBVIOUS
<1>2. calls[c] \in Crossing /\ calls \in [Call -> Crossing]
  BY DEF AInv, TypeOK
<1>3. /\ d \in Crossing /\ d.at = "answered" /\ d.status = status /\ d.setCookie = setCookie
      /\ d.retried = calls[c].retried /\ d.tab = calls[c].tab
  BY <1>1, <1>2, OptionalIs DEF Crossing
<1>4. /\ calls' = [calls EXCEPT ![c] = d] /\ calls'[c] = d
      /\ \A e \in Call \ {c} : calls'[e] = calls[e]
  BY <1>1, <1>2 DEF Answered
<1>5. Claimable(calls[c]) /\ Rollable(calls[c])
  BY DEF Claimable, Rollable
<1>6. MayRoll' \subseteq MayRoll /\ Unclaimed' \subseteq Unclaimed
  BY <1>4, <1>5, OneCallLess
<1>7. status = "ok" => c \in MayRoll \ MayRoll'
  BY <1>3, <1>4, <1>5 DEF MayRoll, Rollable
<1>8. issued \in Nat \ {0} /\ MayRoll \subseteq Call /\ Crossings \in Nat
      /\ issued + Cardinality(MayRoll) <= 1 + Crossings
  BY CookieIs, Counted, Bounds DEF AInv, Budgets
<1>9. issued' + Cardinality(MayRoll') <= 1 + Crossings /\ Cardinality(MayRoll') \in Nat
  <2>1. /\ Cardinality(MayRoll) \in Nat /\ Cardinality(MayRoll') \in Nat
        /\ Cardinality(MayRoll') <= Cardinality(MayRoll)
        /\ status = "ok" => Cardinality(MayRoll') + 1 <= Cardinality(MayRoll)
    BY <1>6, <1>7, <1>8, Counting
  <2> QED BY <1>8, <2>1
<1>10. issued' \in Cookie \ {0} /\ issued <= issued' /\ issued' \in Nat
  BY <1>8, <1>9 DEF Cookie
<1>11. Budgets'
  <2>1. \A t \in Tab : /\ tabs'[t].gen \in Nat /\ heard'[t] \in Nat
                       /\ tabs'[t].gen + heard'[t] <= tabs[t].gen + heard[t]
    BY Ears
  <2> QED BY <1>6, <1>9, <2>1, EarsStay DEF Budgets
<1>12. ClaimsKept'
  BY <1>4, <1>5, <1>10, OthersClaim, ClaimsStay
<1>13. Staged(c)'
  BY <1>3, <1>4 DEF Staged
<1>14. Recovers(c)'
  <2>1. \A q \in reseals' : c \notin q.call
    BY NoReseal
  <2>2. calls[c].retried => c \in doubted \/ Honoured(calls[c].blob)
    BY DEF AInv, CallsKept, Recovers
  <2>3. d.retried /\ d.status = "refused" => c \in doubted'
    BY <1>3, <2>2, DoubtIs
  <2> QED BY <1>3, <1>4, <2>1, <2>3, Recovered
<1>15. /\ tabs' \in [Tab -> Page] /\ heard' \in [Tab -> 0..Crossings]
       /\ failures' \in 0..MaxFailures
       /\ reseals' \subseteq Reseal /\ claims' \subseteq Claim /\ jar' = jar
  BY DEF AInv, TypeOK
<1>16. jar' \in 0..issued'
  BY <1>10, CookieIs DEF AInv
<1> QED BY <1>3, <1>4, <1>10, <1>11, <1>12, <1>13, <1>14, <1>15, <1>16, CallKeeps

\* The four answers.
LEMMA ExecKeeps ==
  ASSUME AInv, Doubt, NEW c \in Call, Exec(c)
  PROVE  AInv'
<1>1. /\ calls[c].at = "sent" /\ tabs[calls[c].tab].socket = "open"
      /\ UNCHANGED <<options, jar, boot, failures, tabs, hello, reseals, claims, heard>>
  BY DEF Exec
<1>2. /\ issued \in Nat \ {0} /\ live \subseteq 1..issued /\ jar \in 0..issued
      /\ {} \in Optional(Cookie) /\ {0} \in Optional(Cookie)
  BY CookieIs, OptionalIs, Bounds DEF AInv
<1>3. CASE Refuses(c)
  <2>1. /\ ~Honoured(calls[c].blob) /\ Answered(c, "refused", {})
        /\ issued' = issued /\ live' = live
    BY <1>3 DEF Refuses
  <2> QED BY <1>1, <1>2, <2>1, AnsweredKeeps
<1>4. CASE Serves(c)
  <2>1. Answered(c, "ok", {}) /\ issued' = issued /\ live' = live
    BY <1>4 DEF Serves
  <2> QED BY <1>1, <1>2, <2>1, AnsweredKeeps
<1>5. CASE Rolls(c)
  <2>1. /\ issued' = issued + 1 /\ live' \in {{issued + 1}, live \cup {issued + 1}}
        /\ Answered(c, "ok", {issued + 1})
    BY <1>5 DEF Rolls
  <2>2. {issued + 1} \in Optional(Cookie)
    <3>1. c \in MayRoll /\ MayRoll \subseteq Call /\ Crossings \in Nat
          /\ issued + Cardinality(MayRoll) <= 1 + Crossings
      BY <1>1, Counted, Bounds DEF MayRoll, Rollable, AInv, Budgets
    <3>2. Cardinality({}) = 0
      BY FS_EmptySet
    <3>3. Cardinality(MayRoll) \in Nat /\ 1 <= Cardinality(MayRoll)
      <4>1. {} \in SUBSET MayRoll /\ c \in MayRoll \ {}
        BY <3>1
      <4> QED BY <3>1, <3>2, <4>1, Counting
    <3>4. issued + 1 \in Cookie
      BY <1>2, <3>1, <3>3 DEF Cookie
    <3> QED BY <3>4, OptionalIs
  <2>3. live' \subseteq 1..issued' /\ {issued + 1} \subseteq 0..issued'
    BY <1>2, <2>1
  <2>4. live \subseteq live' \/ jar \notin live'
    BY <1>2, <2>1
  <2> QED BY <1>1, <2>1, <2>2, <2>3, <2>4, AnsweredKeeps
<1>6. CASE LogsOut(c)
  <2>1. live' \in {{}, live} /\ Answered(c, "ok", {0}) /\ issued' = issued
    BY <1>6 DEF LogsOut
  <2>2. live' \subseteq 1..issued' /\ (live \subseteq live' \/ jar \notin live')
    <3>1. CASE live' = {}
      BY <3>1
    <3>2. CASE live' = live
      BY <1>2, <2>1, <3>2
    <3> QED BY <2>1, <3>1, <3>2
  <2>3. {0} \subseteq 0..issued'
    BY <1>2, <2>1
  <2> QED BY <1>1, <1>2, <2>1, <2>2, <2>3, AnsweredKeeps
<1> QED BY <1>3, <1>4, <1>5, <1>6 DEF Exec

\* A first refusal: the crossing waits for a reseal of its own.
LEMMA RefusedKeeps ==
  ASSUME AInv, Doubt, NEW c \in Call, Receive(c), Retries(calls[c])
  PROVE  AInv'
<1>1. /\ calls[c] \in Crossing /\ calls \in [Call -> Crossing] /\ calls[c].at = "answered"
      /\ calls[c].tab \in Tab /\ calls[c].status = "refused" /\ ~calls[c].retried
  BY DEF AInv, TypeOK, Receive, Retries, Crossing
<1>2. Staged(c) /\ Recovers(c)
  BY DEF AInv, CallsKept
<1>3. calls[c].setCookie = {} /\ tabs[calls[c].tab].socket = "open"
  BY <1>1, <1>2 DEF Staged, Recovers, Socket
<1>4. PICK d : d = [calls[c] EXCEPT !.at = "resealing"]
  OBVIOUS
<1>5. /\ d \in Crossing /\ d.at = "resealing" /\ d.tab = calls[c].tab
      /\ d.setCookie = calls[c].setCookie
  BY <1>1, <1>4 DEF Crossing
<1>6. PICK r : r = RetryReseal(c)
  OBVIOUS
<1>7. /\ r \in Reseal /\ r.call = {c} /\ r.tab = calls[c].tab /\ r.cookie = jar /\ r.boot = boot
  <2>1. jar \in Cookie /\ boot \in 0..MaxRestarts /\ {c} \in Optional(Call)
    BY CookieIs, OptionalIs DEF AInv, TypeOK
  <2> QED BY <1>1, <1>6, <2>1, Bounds DEF RetryReseal, Reseal
<1>8. /\ calls' = [calls EXCEPT ![c] = d] /\ calls'[c] = d
      /\ UNCHANGED <<options, issued, live, jar, boot, failures, tabs, hello, heard, claims>>
      /\ reseals' = reseals \cup {r}
  BY <1>1, <1>3, <1>4, <1>6 DEF Receive
<1>9. Staged(c)'
  BY <1>3, <1>5, <1>8 DEF Staged
<1>10. Recovers(c)'
  <2>1. \A q \in reseals' : c \in q.call => q = r
    BY <1>1, <1>8, NoReseal
  <2>2. c \in doubted' \/ jar \in live
    BY <1>5, <1>8, DoubtIs DEF Retrying
  <2>3. Socket(c)' = "open"
    BY <1>3, <1>5, <1>8 DEF Socket
  <2>4. (\A q \in reseals : c \in q.call =>
           /\ calls[c].at = "resealing" /\ q.call = {c} /\ q.tab = calls[c].tab
           /\ Socket(c) = "open" => q.boot = boot
           /\ c \in doubted \/ q.cookie \in live)'
    BY <1>5, <1>7, <1>8, <2>1, <2>2
  <2> QED BY <1>5, <1>8, <2>1, <2>2, <2>3, <2>4 DEF Recovers
<1>11. Claimable(calls[c]) /\ Rollable(calls[c])
  BY <1>1 DEF Claimable, Rollable
<1>12. tabs' \in [Tab -> Page] /\ reseals' \subseteq Reseal
  BY <1>7, <1>8 DEF AInv, TypeOK
<1>13. \A e \in Call \ {c}, q \in reseals \cup reseals' :
         e \in q.call => (q \in reseals' <=> q \in reseals)
  BY <1>7, <1>8
<1> QED BY <1>5, <1>8, <1>9, <1>10, <1>11, <1>12, <1>13, MovesKeeps

\* A reply with no cookie in it settles the crossing.
LEMMA PlainKeeps ==
  ASSUME AInv, Doubt, NEW c \in Call, Receive(c), ~Retries(calls[c]), calls[c].setCookie = {}
  PROVE  AInv'
<1>1. /\ calls[c] \in Crossing /\ calls \in [Call -> Crossing] /\ calls[c].at = "answered"
      /\ calls[c].status \in {"none", "ok", "refused", "lost"}
      /\ calls[c].status = "refused" => calls[c].retried
  BY DEF AInv, TypeOK, Receive, Retries, Crossing
<1>2. PICK d : d = Settled(calls[c], calls[c].status)
  OBVIOUS
<1>3. /\ d \in Crossing /\ d.at = "done" /\ d.status = calls[c].status /\ d.setCookie = {}
  BY <1>1, <1>2, SettledIs
<1>4. /\ calls' = [calls EXCEPT ![c] = d] /\ calls'[c] = d
      /\ UNCHANGED <<options, issued, live, jar, boot, failures, tabs, hello, heard, claims,
                     reseals>>
  BY <1>1, <1>2 DEF Receive, AfterReply
<1>5. Staged(c)'
  BY <1>3, <1>4 DEF Staged
<1>6. Recovers(c)'
  <2>1. \A q \in reseals' : c \notin q.call
    BY <1>1, <1>4, NoReseal
  <2>2. d.status = "refused" => c \in doubted'
    BY <1>1, <1>3, DoubtIs DEF AInv, CallsKept, Recovers
  <2> QED BY <1>3, <1>4, <2>1, <2>2, Recovered
<1>7. Claimable(calls[c]) /\ ~Rollable(d)
  BY <1>1, <1>3 DEF Claimable, Rollable
<1>8. tabs' \in [Tab -> Page] /\ reseals' \subseteq Reseal
  BY <1>4 DEF AInv, TypeOK
<1> QED BY <1>3, <1>4, <1>5, <1>6, <1>7, <1>8, MovesKeeps

\* A reply with a cookie in it: the blob is swapped and the claim leaves.
LEMMA SwapKeeps ==
  ASSUME AInv, Doubt, NEW c \in Call, Receive(c), calls[c].setCookie # {}
  PROVE  AInv'
<1>1. /\ calls[c] \in Crossing /\ calls \in [Call -> Crossing] /\ calls[c].at = "answered"
      /\ calls[c].tab \in Tab /\ calls[c].setCookie \in Optional(Cookie)
  BY DEF AInv, TypeOK, Receive, Crossing
<1>2. calls[c].status = "ok" /\ calls[c].setCookie \subseteq 0..issued
  BY <1>1 DEF AInv, CallsKept, Staged
<1>3. PICK k \in calls[c].setCookie : Swap(c)!(k)
  BY DEF Receive, Swap
<1>4. k \in 0..issued /\ k \in Cookie /\ calls[c].setCookie = {k}
  BY <1>1, <1>2, <1>3, CookieIs, OptionalIs DEF AInv
<1>5. PICK m : m = [call |-> c, tab |-> calls[c].tab, cookie |-> k, boot |-> boot]
  OBVIOUS
<1>6. m \in Claim /\ m.call = c /\ m.cookie = k
  BY <1>1, <1>4, <1>5 DEF Claim, AInv, TypeOK
<1>7. PICK d : d = AfterReply(calls[c])
  OBVIOUS
<1>8. /\ d \in Crossing /\ d.status = "ok" /\ d.setCookie \subseteq {k}
      /\ d.at \in {"claiming", "done"}
      /\ options.awaitClaims => d.at = "claiming" /\ d.setCookie = {k}
  <2>1. CASE options.awaitClaims
    <3>1. d = [calls[c] EXCEPT !.at = "claiming"]
      BY <1>7, <2>1 DEF AfterReply
    <3> QED BY <1>1, <1>2, <1>4, <3>1 DEF Crossing
  <2>2. CASE ~options.awaitClaims
    <3>1. d = Settled(calls[c], "ok")
      BY <1>2, <1>7, <2>2 DEF AfterReply
    <3> QED BY <1>1, <2>2, <3>1, SettledIs
  <2> QED BY <2>1, <2>2
<1>9. /\ calls' = [calls EXCEPT ![c] = d] /\ calls'[c] = d
      /\ \A e \in Call \ {c} : calls'[e] = calls[e]
      /\ claims' = claims \cup {m} /\ reseals' = reseals
      /\ UNCHANGED <<options, issued, live, jar, boot, failures, hello, heard>>
  <2>1. calls' = [calls EXCEPT ![c] = d] /\ reseals' = reseals
    BY <1>2, <1>7 DEF Receive, Retries
  <2> QED BY <1>1, <1>3, <1>5, <2>1 DEF Receive
<1>10. /\ tabs' \in [Tab -> Page]
       /\ \A u \in Tab : tabs'[u].socket = tabs[u].socket /\ tabs'[u].gen = tabs[u].gen
  <2>1. {Seal(k)} \in Optional(Sealed)
    <3>1. Seal(k) \in Sealed
      BY <1>4 DEF Seal, Sealed, AInv, TypeOK
    <3> QED BY <3>1, OptionalIs
  <2>2. PICK p : p = [tabs[calls[c].tab] EXCEPT !.blob = {Seal(k)}]
    OBVIOUS
  <2>3. tabs[calls[c].tab] \in Page
    BY <1>1, Ears
  <2>4. p \in Page /\ p.gen = tabs[calls[c].tab].gen /\ p.socket = tabs[calls[c].tab].socket
    BY <2>1, <2>2, <2>3 DEF Page
  <2>5. tabs' = [tabs EXCEPT ![calls[c].tab] = p] /\ tabs \in [Tab -> Page]
    BY <1>3, <2>2 DEF AInv, TypeOK
  <2> QED BY <2>4, <2>5
<1>11. Staged(c)'
  BY <1>4, <1>8, <1>9 DEF Staged
<1>12. Recovers(c)'
  <2>1. \A q \in reseals' : c \notin q.call
    BY <1>1, <1>9, NoReseal
  <2> QED BY <1>8, <1>9, <2>1, Recovered
<1>13. Claimable(calls[c])
  BY <1>1 DEF Claimable
<1>14. ClaimsKept'
  <2>1. \A n \in claims : n.call # c /\ calls'[n.call] = calls[n.call]
    BY <1>9, <1>13, OthersClaim
  <2>2. ClaimsKept
    BY DEF AInv
  <2>3. \A n \in claims' : /\ n.cookie \in 0..issued
                           /\ calls'[n.call].at \in {"claiming", "done"}
                           /\ options.awaitClaims => /\ calls'[n.call].at = "claiming"
                                                     /\ calls'[n.call].setCookie = {n.cookie}
    <3>1. SUFFICES ASSUME NEW n \in claims'
                   PROVE  /\ n.cookie \in 0..issued
                          /\ calls'[n.call].at \in {"claiming", "done"}
                          /\ options.awaitClaims => /\ calls'[n.call].at = "claiming"
                                                    /\ calls'[n.call].setCookie = {n.cookie}
      OBVIOUS
    <3>2. CASE n = m
      BY <1>4, <1>6, <1>8, <1>9, <3>2
    <3>3. CASE n \in claims
      BY <2>1, <2>2, <3>3 DEF ClaimsKept
    <3> QED BY <1>9, <3>2, <3>3
  <2>4. \A n, o \in claims' : n.call = o.call => n = o
    BY <1>6, <1>9, <2>1, <2>2 DEF ClaimsKept
  <2> QED BY <1>9, <2>3, <2>4 DEF ClaimsKept
<1>15. Budgets'
  <2>1. MayRoll' \subseteq MayRoll
    BY <1>8, <1>9 DEF MayRoll, Rollable
  <2>2. c \in Unclaimed
    BY <1>13 DEF Unclaimed
  <2>3. Unclaimed' \subseteq Unclaimed
    BY <1>6, <1>8, <1>9, <2>2 DEF Unclaimed, Claimable
  <2>4. \A t \in Tab : /\ tabs'[t].gen \in Nat /\ heard'[t] \in Nat
                       /\ tabs'[t].gen + heard'[t] <= tabs[t].gen + heard[t]
    BY <1>9, <1>10, Ears
  <2> QED BY <1>9, <2>1, <2>3, <2>4, BudgetsStay
<1>16. /\ heard' \in [Tab -> 0..Crossings] /\ failures' \in 0..MaxFailures
       /\ reseals' \subseteq Reseal /\ claims' \subseteq Claim
       /\ issued' \in Cookie \ {0} /\ live' \subseteq 1..issued' /\ jar' \in 0..issued'
  BY <1>6, <1>9 DEF AInv, TypeOK
<1>17. issued <= issued'
  BY <1>9, CookieIs DEF AInv
<1> QED BY <1>8, <1>9, <1>10, <1>11, <1>12, <1>14, <1>15, <1>16, <1>17, CallKeeps

\* The reply.
LEMMA ReceiveKeeps ==
  ASSUME AInv, Doubt, NEW c \in Call, Receive(c)
  PROVE  AInv'
BY RefusedKeeps, PlainKeeps, SwapKeeps

-----------------------------------------------------------------------------
(* The requests on HTTP: reseals and claims.                               *)

\* A refused crossing after its reseal: it has settled, or made its second request.
LEMMA ResumedIs ==
  ASSUME AInv, NEW q \in reseals, NEW blob \in Optional(Sealed), Resume(q, blob),
         NEW c \in q.call
  PROVE  /\ c \in Call /\ q.call = {c} /\ calls[c].at = "resealing" /\ q.tab = calls[c].tab
         /\ \E d \in Crossing :
              /\ calls' = [calls EXCEPT ![c] = d] /\ d.joined = calls[c].joined
              /\ \/ d.at = "done" /\ d.setCookie = {} /\ (d.status = "refused" => blob = {})
                 \/ /\ tabs[calls[c].tab].socket \notin {"failed", "closed"}
                    /\ d.at = "sent" /\ d.blob = blob /\ d.tab = calls[c].tab
                    /\ d.setCookie = calls[c].setCookie
                    /\ blob # {}
<1>1. c \in Call /\ q.call = {c}
  <2>1. q.call \in Optional(Call)
    BY DEF AInv, TypeOK, Reseal
  <2> QED BY <2>1, OptionalIs
<1>2. calls[c].at = "resealing" /\ q.tab = calls[c].tab
  BY <1>1 DEF AInv, CallsKept, Recovers
<1>3. calls[c] \in Crossing /\ calls \in [Call -> Crossing]
  BY <1>1 DEF AInv, TypeOK
<1>4. PICK p : p = [calls[c] EXCEPT !.retried = TRUE]
  OBVIOUS
<1>5. p \in Crossing /\ p.joined = calls[c].joined /\ p.tab = calls[c].tab
      /\ p.setCookie = calls[c].setCookie
  BY <1>3, <1>4 DEF Crossing
<1>6. PICK d : d = IF blob = {} THEN Settled(calls[c], "refused") ELSE Sent(p, blob)
  OBVIOUS
<1>7. calls' = [e \in Call |-> IF e \notin q.call THEN calls[e]
                ELSE IF blob = {} THEN Settled(calls[e], "refused")
                ELSE Sent([calls[e] EXCEPT !.retried = TRUE], blob)]
  BY DEF Resume, RetryBlob
<1>8. calls' = [e \in Call |-> IF e # c THEN calls[e] ELSE d]
  BY <1>1, <1>4, <1>6, <1>7
<1>9. calls' = [calls EXCEPT ![c] = d]
  BY <1>3, <1>8
<1>10. CASE blob = {}
  <2>1. /\ d \in Crossing /\ d.at = "done" /\ d.joined = calls[c].joined /\ d.setCookie = {}
    BY <1>3, <1>6, <1>10, SettledIs
  <2> QED BY <1>1, <1>2, <1>9, <1>10, <2>1
<1>11. CASE blob # {}
  <2>1. d = Sent(p, blob)
    BY <1>6, <1>11
  <2>2. /\ d \in Crossing /\ d.joined = p.joined
        /\ \/ d.at = "done" /\ d.setCookie = {} /\ d.status = "lost"
           \/ /\ tabs[p.tab].socket \notin {"failed", "closed"}
              /\ d.at = "sent" /\ d.blob = blob /\ d.tab = p.tab /\ d.setCookie = p.setCookie
    BY <1>5, <2>1, SentIs
  <2> QED BY <1>1, <1>2, <1>5, <1>9, <1>11, <2>2
<1> QED BY <1>10, <1>11

\* A reseal ends, well or not.
LEMMA ResumeKeeps ==
  ASSUME AInv, Doubt, NEW q \in reseals, NEW blob \in Optional(Sealed), Resume(q, blob),
         UNCHANGED <<options, issued, live, jar, boot, hello, claims, heard>>,
         failures' \in 0..MaxFailures,
         \A c \in q.call : /\ blob = {} => c \in doubted'
                           /\ Socket(c) = "open" /\ blob # {} => c \in doubted' \/ Honoured(blob)
  PROVE  AInv'
<1>1. /\ tabs' \in [Tab -> Page] /\ reseals' = reseals \ {q} /\ reseals' \subseteq Reseal
      /\ \A u \in Tab : tabs'[u].gen = tabs[u].gen /\ tabs'[u].socket = tabs[u].socket
      /\ q.call \in Optional(Call)
  BY ResumeIs
<1>2. CASE q.call = {}
  <2>1. calls' = calls
    <3>1. calls' = [e \in Call |-> calls[e]]
      BY <1>2 DEF Resume
    <3> QED BY <3>1 DEF AInv, TypeOK
  <2>2. \A c \in Call, r \in reseals \cup reseals' :
          c \in r.call => (r \in reseals' <=> r \in reseals)
    BY <1>1, <1>2
  <2>3. hello' \in [Tab -> Optional(Hello)] /\ heard' \in [Tab -> 0..Crossings]
    BY DEF AInv, TypeOK
  <2>4. \A t \in Tab : tabs'[t].gen + heard'[t] <= tabs[t].gen + heard[t]
    BY <1>1, Ears
  <2> QED BY <1>1, <2>1, <2>2, <2>3, <2>4, PageKeeps
<1>3. CASE q.call # {}
  <2>1. PICK c : c \in q.call
    BY <1>3
  <2>2. c \in Call /\ q.call = {c} /\ calls[c].at = "resealing" /\ q.tab = calls[c].tab
    BY <2>1, ResumedIs
  <2>3. PICK d \in Crossing :
          /\ calls' = [calls EXCEPT ![c] = d] /\ d.joined = calls[c].joined
          /\ \/ d.at = "done" /\ d.setCookie = {} /\ (d.status = "refused" => blob = {})
             \/ /\ tabs[calls[c].tab].socket \notin {"failed", "closed"}
                /\ d.at = "sent" /\ d.blob = blob /\ d.tab = calls[c].tab
                /\ d.setCookie = calls[c].setCookie
                /\ blob # {}
    BY <2>1, ResumedIs
  <2>4. calls'[c] = d /\ calls[c].tab \in Tab
    BY <2>2, <2>3 DEF AInv, TypeOK, Crossing
  <2>5. Staged(c) /\ Recovers(c)
    BY <2>2 DEF AInv, CallsKept
  <2>6. Staged(c)'
    BY <2>2, <2>3, <2>4, <2>5 DEF Staged
  <2>7. \A r \in reseals' : c \notin r.call
    BY <1>1, <2>1, <2>5 DEF Recovers
  <2>8. Recovers(c)'
    <3>1. CASE d.at = "done"
      <4>1. d.status = "refused" => c \in doubted'
        BY <2>1, <2>3, <3>1
      <4> QED BY <2>2, <2>4, <2>7, <3>1, <4>1, Recovered
    <3>2. CASE d.at = "sent"
      <4>1. Socket(c) = "open" /\ d.tab = calls[c].tab /\ d.blob = blob /\ blob # {}
        BY <2>2, <2>3, <2>5, <3>2 DEF Recovers, Socket
      <4>2. Socket(c)' = "open"
        BY <1>1, <2>4, <4>1 DEF Socket
      <4>3. c \in doubted' \/ Honoured(d.blob)'
        BY <2>1, <4>1 DEF Honoured
      <4>4. (Retrying(c) => c \in doubted \/ jar \in live)'
        BY <2>2, DoubtIs
      <4> QED BY <2>4, <2>7, <3>2, <4>2, <4>3, <4>4 DEF Recovers
    <3> QED BY <2>3, <3>1, <3>2
  <2>9. Claimable(calls[c]) /\ Rollable(calls[c])
    BY <2>2 DEF Claimable, Rollable
  <2>10. \A e \in Call \ {c}, r \in reseals \cup reseals' :
           e \in r.call => (r \in reseals' <=> r \in reseals)
    BY <1>1, <2>2
  <2> QED BY <1>1, <2>2, <2>3, <2>6, <2>8, <2>9, <2>10, MovesKeeps
<1> QED BY <1>2, <1>3

\* The gateway answers a reseal.
LEMMA ResealAnswerKeeps ==
  ASSUME AInv, Doubt, NEW q \in reseals, ResealAnswer(q)
  PROVE  AInv'
<1>1. PICK b \in q.boot..boot :
        Resume(q, IF q.cookie = 0 THEN {} ELSE {[boot |-> b, cookie |-> q.cookie]})
  BY DEF ResealAnswer
<1>2. PICK blob : blob = IF q.cookie = 0 THEN {} ELSE {[boot |-> b, cookie |-> q.cookie]}
  OBVIOUS
<1>3. q.boot \in 0..MaxRestarts /\ q.cookie \in Cookie /\ boot \in 0..MaxRestarts
  BY DEF AInv, TypeOK, Reseal
<1>4. b \in 0..MaxRestarts /\ (q.boot = boot => b = boot)
  BY <1>1, <1>3, Bounds
<1>5. blob \in Optional(Sealed)
  <2>1. [boot |-> b, cookie |-> q.cookie] \in Sealed
    BY <1>3, <1>4 DEF Sealed
  <2> QED BY <1>2, <2>1, OptionalIs
<1>6. /\ UNCHANGED <<options, issued, live, jar, boot, failures, hello, claims, heard>>
      /\ Resume(q, blob)
  BY <1>1, <1>2 DEF ResealAnswer
<1>7. ASSUME NEW c \in q.call
      PROVE  /\ blob = {} => c \in doubted'
             /\ Socket(c) = "open" /\ blob # {} => c \in doubted' \/ Honoured(blob)
  <2>1. c \in Call
    BY <1>5, <1>6, <1>7, ResumedIs
  <2>2. /\ Socket(c) = "open" => q.boot = boot
        /\ c \in doubted \/ q.cookie \in live
    BY <1>7, <2>1 DEF AInv, CallsKept, Recovers
  <2>3. 0 \notin live /\ doubted \subseteq doubted'
    BY CookieIs, DoubtIs DEF AInv
  <2>4. blob = {} => c \in doubted'
    BY <1>2, <2>2, <2>3
  <2>5. ASSUME Socket(c) = "open", blob # {}
        PROVE  c \in doubted' \/ Honoured(blob)
    <3>1. blob = {[boot |-> boot, cookie |-> q.cookie]}
      BY <1>2, <1>4, <2>2, <2>5
    <3> QED BY <2>2, <2>3, <3>1 DEF Honoured
  <2> QED BY <2>4, <2>5
<1>8. failures' \in 0..MaxFailures
  BY <1>6 DEF AInv, TypeOK
<1> QED BY <1>5, <1>6, <1>7, <1>8, ResumeKeeps

\* A reseal fails: its crossing is in doubt.
LEMMA ResealFailsKeeps ==
  ASSUME AInv, Doubt, NEW q \in reseals, ResealFails(q)
  PROVE  AInv'
<1>1. PICK blob : blob = tabs[q.tab].blob
  OBVIOUS
<1>2. blob \in Optional(Sealed)
  <2>1. q.tab \in Tab
    BY DEF AInv, TypeOK, Reseal
  <2> QED BY <1>1, <2>1, Ears DEF Page
<1>3. /\ UNCHANGED <<options, issued, live, jar, boot, hello, claims, heard>>
      /\ Resume(q, blob) /\ Failing
  BY <1>1 DEF ResealFails
<1>4. failures' \in 0..MaxFailures /\ failures' # failures
  BY <1>3, FailingIs
<1>5. ASSUME NEW c \in q.call
      PROVE  c \in doubted'
  <2>1. c \in Call /\ calls[c].at = "resealing"
    BY <1>2, <1>3, <1>5, ResumedIs
  <2>2. calls'[c].at # "resealing"
    <3>1. PICK d \in Crossing : calls' = [calls EXCEPT ![c] = d] /\ d.at \in {"done", "sent"}
      BY <1>2, <1>3, <1>5, ResumedIs
    <3> QED BY <2>1, <3>1 DEF AInv, TypeOK
  <2> QED BY <1>4, <2>1, <2>2, DoubtIs DEF Unsealed
<1> QED BY <1>2, <1>3, <1>4, <1>5, ResumeKeeps

\* A claim is over, and the other tabs are told.
LEMMA ClaimedKeeps ==
  ASSUME AInv, Doubt, NEW m \in claims, Claimed(m), jar' \in 0..issued,
         failures' \in 0..MaxFailures
  PROVE  AInv'
<1>1. PICK c : c = m.call
  OBVIOUS
<1>2. /\ c \in Call /\ calls \in [Call -> Crossing] /\ calls[c] \in Crossing
      /\ calls[c].status \in {"none", "ok", "refused", "lost"}
  BY <1>1 DEF AInv, TypeOK, Claim, Crossing
<1>3. /\ calls[c].at \in {"claiming", "done"} /\ Staged(c) /\ Recovers(c)
  BY <1>1, <1>2 DEF AInv, ClaimsKept, CallsKept
<1>4. PICK d : d = Settled(calls[c], calls[c].status)
  OBVIOUS
<1>5. /\ d \in Crossing /\ d.at = "done" /\ d.status = calls[c].status /\ d.setCookie = {}
      /\ d.joined = calls[c].joined
  BY <1>2, <1>4, SettledIs
<1>6. /\ calls' = [calls EXCEPT ![c] = d] /\ calls'[c] = d
      /\ \A e \in Call \ {c} : calls'[e] = calls[e]
      /\ UNCHANGED <<options, issued, live, boot, tabs, hello, reseals>>
      /\ claims' = claims \ {m} /\ Broadcast(m.tab)
  BY <1>1, <1>2, <1>4 DEF Claimed
<1>7. Staged(c)'
  BY <1>5, <1>6 DEF Staged
<1>8. Recovers(c)'
  <2>1. \A q \in reseals' : c \notin q.call
    BY <1>2, <1>3, <1>6, NoReseal
  <2>2. d.status = "refused" /\ ~d.joined => c \in doubted'
    BY <1>3, <1>5, DoubtIs DEF Staged, Recovers
  <2> QED BY <1>2, <1>5, <1>6, <2>1, <2>2, Recovered
<1>9. \A n \in claims' : n \in claims /\ n.call \in Call /\ n.call # c
  BY <1>1, <1>6 DEF AInv, ClaimsKept, TypeOK, Claim
<1>10. issued \in Nat /\ issued <= issued'
  BY <1>6, CookieIs DEF AInv
<1>11. ClaimsKept'
  BY <1>6, <1>9, <1>10, ClaimsStay
<1>12. PICK n : n = Cardinality(Unclaimed)
  OBVIOUS
<1>13. PICK k : k = Cardinality(Unclaimed')
  OBVIOUS
<1>14. n \in Nat /\ k \in Nat /\ k + 1 <= n
  <2>1. c \in Unclaimed
    BY <1>1 DEF Unclaimed
  <2>2. c \notin Unclaimed'
    BY <1>5, <1>6, <1>9 DEF Unclaimed, Claimable
  <2>3. Unclaimed' \subseteq Unclaimed
    BY <1>5, <1>6 DEF Unclaimed, Claimable
  <2>4. Unclaimed \subseteq Call
    BY Counted DEF AInv
  <2> QED BY <1>12, <1>13, <2>1, <2>2, <2>3, <2>4, Bounds, Counting
<1>15. \A t \in Tab : /\ tabs[t].gen \in Nat /\ heard[t] \in Nat
                      /\ tabs[t].gen + heard[t] + n <= Crossings
  BY <1>12, Ears DEF AInv, Budgets
<1>16. \A t \in Tab : heard'[t] \in {heard[t], heard[t] + 1}
  BY <1>6 DEF Broadcast
<1>17. \A t \in Tab : /\ heard'[t] \in 0..Crossings /\ tabs'[t].gen = tabs[t].gen
                      /\ tabs'[t].gen + heard'[t] + k <= Crossings
  BY <1>6, <1>14, <1>15, <1>16, Bounds
<1>18. Budgets'
  <2>1. MayRoll' \subseteq MayRoll
    BY <1>5, <1>6 DEF MayRoll, Rollable
  <2>2. MayRoll \subseteq Call /\ issued + Cardinality(MayRoll) <= 1 + Crossings
    BY Counted DEF AInv, Budgets
  <2>3. /\ Cardinality(MayRoll) \in Nat /\ Cardinality(MayRoll') \in Nat
        /\ Cardinality(MayRoll') <= Cardinality(MayRoll)
    BY <2>1, <2>2, Bounds, Counting
  <2>4. issued' + Cardinality(MayRoll') <= 1 + Crossings
    BY <1>6, <1>10, <2>2, <2>3, Bounds
  <2> QED BY <1>13, <1>17, <2>4 DEF Budgets
<1>19. heard' \in [Tab -> 0..Crossings]
  <2>1. heard' = [u \in Tab |-> IF u # m.tab /\ Loaded(u) THEN heard[u] + 1 ELSE heard[u]]
    BY <1>6 DEF Broadcast
  <2> QED BY <1>17, <2>1
<1>20. /\ tabs' \in [Tab -> Page] /\ reseals' \subseteq Reseal /\ claims' \subseteq Claim
       /\ issued' \in Cookie \ {0} /\ live' \subseteq 1..issued' /\ jar' \in 0..issued'
       /\ live \subseteq live'
  BY <1>6 DEF AInv, TypeOK
<1> QED BY <1>2, <1>5, <1>6, <1>7, <1>8, <1>10, <1>11, <1>18, <1>19, <1>20, CallKeeps

\* The cookie is planted in the jar.
LEMMA ClaimLandsKeeps ==
  ASSUME AInv, Doubt, NEW m \in claims, ClaimLands(m)
  PROVE  AInv'
<1>1. Claimed(m) /\ jar' = m.cookie /\ failures' = failures
  BY DEF ClaimLands
<1>2. m.cookie \in 0..issued /\ failures \in 0..MaxFailures
  BY DEF AInv, ClaimsKept, TypeOK
<1> QED BY <1>1, <1>2, ClaimedKeeps

\* The claim is refused or lost.
LEMMA ClaimFailsKeeps ==
  ASSUME AInv, Doubt, NEW m \in claims, ClaimFails(m)
  PROVE  AInv'
<1>1. Claimed(m) /\ jar' = jar /\ (failures' = failures \/ Failing)
  BY DEF ClaimFails
<1>2. jar \in 0..issued /\ failures' \in 0..MaxFailures
  BY <1>1, FailingIs DEF AInv, TypeOK
<1> QED BY <1>1, <1>2, ClaimedKeeps

-----------------------------------------------------------------------------
(* A socket goes away.                                                     *)

\* Crossings are rejected with their socket.
LEMMA LoseKeeps ==
  ASSUME AInv, Doubt, NEW S \in SUBSET Call, calls' = Lose(calls, S),
         \A c \in S : calls[c].at \in {"sent", "answered"},
         UNCHANGED <<options, issued, live, jar, reseals, claims, heard>>,
         boot' \in 0..MaxRestarts, failures' \in 0..MaxFailures,
         hello' \in [Tab -> Optional(Hello)],
         tabs' \in [Tab -> Page], \A t \in Tab : tabs'[t].gen = tabs[t].gen,
         \A c \in Call \ S : Staged(c)' /\ Recovers(c)'
  PROVE  AInv'
<1>1. calls \in [Call -> Crossing]
  BY DEF AInv, TypeOK
<1>2. /\ \A c \in Call \ S : calls'[c] = calls[c]
      /\ \A c \in S : calls'[c] = Settled(calls[c], "lost")
  BY DEF Lose
<1>3. ASSUME NEW c \in S
      PROVE  /\ calls'[c] \in Crossing /\ calls'[c].at = "done" /\ calls'[c].status = "lost"
             /\ calls'[c].setCookie = {}
  <2>1. calls[c] \in Crossing
    BY <1>1
  <2> QED BY <1>2, <2>1, SettledIs
<1>4. calls' \in [Call -> Crossing]
  <2>1. \A c \in Call : calls'[c] \in Crossing
    BY <1>1, <1>2, <1>3
  <2> QED BY <2>1 DEF Lose
<1>5. TypeOK'
  BY <1>4 DEF AInv, TypeOK, Doubt
<1>6. CallsKept'
  <2>1. SUFFICES ASSUME NEW c \in S
                 PROVE  Staged(c)' /\ Recovers(c)'
    BY DEF CallsKept
  <2>2. PICK d : d = calls'[c]
    OBVIOUS
  <2>3. c \in Call /\ d.at = "done" /\ d.status = "lost" /\ d.setCookie = {}
    BY <1>3, <2>2
  <2>4. Staged(c)'
    BY <2>2, <2>3 DEF Staged
  <2>5. \A q \in reseals' : c \notin q.call
    BY <2>3, NoReseal
  <2> QED BY <2>2, <2>3, <2>4, <2>5, Recovered
<1>7. ClaimsKept'
  <2>1. \A m \in claims' : calls'[m.call] = calls[m.call]
    <3>1. SUFFICES ASSUME NEW m \in claims
                   PROVE  calls'[m.call] = calls[m.call]
      OBVIOUS
    <3>2. m.call \in Call /\ calls[m.call].at \in {"claiming", "done"}
      BY DEF AInv, TypeOK, ClaimsKept, Claim
    <3> QED BY <1>2, <3>2
  <2>2. issued \in Nat /\ issued <= issued'
    BY CookieIs DEF AInv
  <2> QED BY <2>1, <2>2, ClaimsStay
<1>8. Budgets'
  <2>1. MayRoll' \subseteq MayRoll
    BY <1>2, <1>3 DEF MayRoll, Rollable
  <2>2. Unclaimed' \subseteq Unclaimed
    BY <1>2, <1>3 DEF Unclaimed, Claimable
  <2>3. \A t \in Tab : /\ tabs'[t].gen \in Nat /\ heard'[t] \in Nat
                       /\ tabs'[t].gen + heard'[t] <= tabs[t].gen + heard[t]
    BY Ears
  <2> QED BY <2>1, <2>2, <2>3, BudgetsStay
<1> QED BY <1>5, <1>6, <1>7, <1>8 DEF AInv

\* What is lost with the sockets of some tabs.
LEMMA OnSocketIs ==
  ASSUME NEW t \in Tab
  PROVE  OnSocket(t) \subseteq Call /\ \A c \in OnSocket(t) : calls[c].at \in {"sent", "answered"}
BY DEF OnSocket

\* The handshake fails.
LEMMA ConnectFailsKeeps ==
  ASSUME AInv, Doubt, NEW t \in Tab, ConnectFails(t)
  PROVE  AInv'
<1>1. /\ tabs[t].socket = "connecting" /\ Failing
      /\ tabs' = [tabs EXCEPT ![t].socket = "failed"]
      /\ calls' = Lose(calls, OnSocket(t))
      /\ UNCHANGED <<options, issued, live, jar, boot, hello, reseals, claims, heard>>
  BY DEF ConnectFails
<1>2. /\ tabs' \in [Tab -> Page] /\ \A u \in Tab : tabs'[u].gen = tabs[u].gen
      /\ \A u \in Tab \ {t} : tabs'[u].socket = tabs[u].socket
  <2>1. PICK p : p = [tabs[t] EXCEPT !.socket = "failed"]
    OBVIOUS
  <2>2. tabs[t] \in Page
    BY Ears
  <2>3. p \in Page /\ p.gen = tabs[t].gen
    BY <2>1, <2>2 DEF Page
  <2>4. tabs' = [tabs EXCEPT ![t] = p] /\ tabs \in [Tab -> Page]
    BY <1>1, <2>1 DEF AInv, TypeOK
  <2> QED BY <2>3, <2>4
<1>3. ASSUME NEW c \in Call \ OnSocket(t)
      PROVE  Staged(c)' /\ Recovers(c)'
  <2>1. calls'[c] = calls[c] /\ calls[c].tab \in Tab
    BY <1>1 DEF Lose, AInv, TypeOK, Crossing
  <2>2. \/ tabs'[calls[c].tab].socket = tabs[calls[c].tab].socket
        \/ tabs[calls[c].tab].socket \in {"none", "connecting"}
    BY <1>1, <1>2, <2>1
  <2>3. issued \in Nat /\ issued <= issued'
    BY <1>1, CookieIs DEF AInv
  <2> QED BY <1>1, <2>1, <2>2, <2>3, Untouched
<1>4. /\ boot' \in 0..MaxRestarts /\ failures' \in 0..MaxFailures
      /\ hello' \in [Tab -> Optional(Hello)]
  BY <1>1, FailingIs DEF AInv, TypeOK
<1> QED BY <1>1, <1>2, <1>3, <1>4, OnSocketIs, LoseKeeps

\* The gateway restarts: every socket closes, so no reseal of the boot before resends anything.
LEMMA RestartKeeps ==
  ASSUME AInv, Doubt, Restart
  PROVE  AInv'
<1>1. PICK S : S = UNION {OnSocket(t) : t \in Tab}
  OBVIOUS
<1>2. /\ boot < MaxRestarts /\ Failing /\ boot' = boot + 1 /\ calls' = Lose(calls, S)
      /\ hello' = [t \in Tab |-> {}]
      /\ UNCHANGED <<options, issued, live, jar, reseals, claims, heard>>
  BY <1>1 DEF Restart
<1>3. /\ S \in SUBSET Call
      /\ \A c \in S : calls[c].at \in {"sent", "answered"}
      /\ \A c \in Call \ S : calls[c].at \notin {"sent", "answered"}
  <2>1. \A c \in Call : calls[c].tab \in Tab
    BY DEF AInv, TypeOK, Crossing
  <2> QED BY <1>1, <2>1 DEF OnSocket
<1>4. ASSUME NEW t \in Tab
      PROVE  /\ tabs'[t] \in Page /\ tabs'[t].gen = tabs[t].gen /\ tabs'[t].socket # "open"
             /\ tabs[t].socket \in {"open", "closed"} => tabs'[t].socket = "closed"
  <2>1. PICK s : s = CASE tabs[t].socket = "open" -> "closed"
                       [] tabs[t].socket = "connecting" -> "failed"
                       [] OTHER -> tabs[t].socket
    OBVIOUS
  <2>2. tabs[t] \in Page
    BY Ears
  <2>3. /\ s \in {"none", "connecting", "open", "failed", "closed"} /\ s # "open"
        /\ tabs[t].socket \in {"open", "closed"} => s = "closed"
    BY <2>1, <2>2 DEF Page
  <2>4. tabs'[t] = [tabs[t] EXCEPT !.socket = s]
    BY <2>1 DEF Restart
  <2> QED BY <2>2, <2>3, <2>4 DEF Page
<1>5. tabs' \in [Tab -> Page]
  BY <1>4 DEF Restart
<1>6. ASSUME NEW c \in Call \ S
      PROVE  Staged(c)' /\ Recovers(c)'
  <2>1. /\ calls'[c] = calls[c] /\ calls[c].tab \in Tab
        /\ calls[c].at \notin {"sent", "answered"}
    BY <1>2, <1>3 DEF Lose, AInv, TypeOK, Crossing
  <2>2. Staged(c) /\ Recovers(c) /\ doubted \subseteq doubted'
    BY DoubtIs DEF AInv, CallsKept
  <2>3. Staged(c)'
    BY <1>2, <2>1, <2>2 DEF Staged
  <2>4. Socket(c)' # "open" /\ (calls[c].at = "resealing" => Socket(c)' = "closed")
    BY <1>4, <2>1, <2>2 DEF Socket, Recovers
  <2>5. (\A q \in reseals : c \in q.call =>
           /\ calls[c].at = "resealing" /\ q.call = {c} /\ q.tab = calls[c].tab
           /\ Socket(c) = "open" => q.boot = boot
           /\ c \in doubted \/ q.cookie \in live)'
    BY <1>2, <2>1, <2>2, <2>4 DEF Recovers
  <2>6. (\A q, r \in reseals : c \in q.call /\ c \in r.call => q = r)'
    BY <1>2, <2>2 DEF Recovers
  <2>7. (Retrying(c) => c \in doubted \/ jar \in live)'
    BY DoubtIs
  <2>8. (calls[c].at = "done" /\ calls[c].status = "refused" /\ ~calls[c].joined => c \in doubted)'
    BY <2>1, <2>2 DEF Recovers
  <2>9. /\ calls'[c].at \notin {"sent", "answered"}
        /\ calls'[c].at = "resealing" => Socket(c)' \in {"open", "closed"}
    BY <2>1, <2>4
  <2>10. Recovers(c)'
    BY <2>5, <2>6, <2>7, <2>8, <2>9 DEF Recovers
  <2> QED BY <2>3, <2>10
<1>7. boot' \in 0..MaxRestarts /\ failures' \in 0..MaxFailures
  BY <1>2, FailingIs, Bounds DEF AInv, TypeOK
<1>8. hello' \in [Tab -> Optional(Hello)]
  BY <1>2, OptionalIs
<1> QED BY <1>2, <1>3, <1>4, <1>5, <1>6, <1>7, <1>8, LoseKeeps

-----------------------------------------------------------------------------
(* The behaviours.                                                         *)

\* The behaviours begin in the invariant.
LEMMA InitAInv == Init => AInv
<1> SUFFICES ASSUME Init
             PROVE  AInv
  OBVIOUS
<1>1. /\ options \in Options /\ issued = 1 /\ live = {1} /\ jar \in {0, 1}
      /\ boot = 0 /\ failures = 0
      /\ tabs = [t \in Tab |-> IF t \in Early THEN UpPage ELSE NoPage]
      /\ hello = [t \in Tab |-> {}]
      /\ reseals = {} /\ claims = {} /\ heard = [t \in Tab |-> 0]
      /\ calls = [c \in Call |-> NewCall]
      /\ doubted = {}
  BY DEF Init
<1>2. /\ NewCall \in Crossing /\ NewCall.at = "idle" /\ NewCall.setCookie = {}
      /\ ~NewCall.retried
  <2>1. (CHOOSE t \in Tab : TRUE) \in Tab
    BY TabAssumption
  <2> QED BY <2>1, OptionalIs, Bounds DEF NewCall, Crossing, Kind
<1>3. NoPage \in Page /\ NoPage.gen = 0
  BY OptionalIs, Bounds DEF NoPage, Page
<1>4. UpPage \in Page /\ UpPage.gen = 0
  <2>1. PICK b : b = {[boot |-> 0, cookie |-> k] : k \in {jar} \ {0}}
    OBVIOUS
  <2>2. b \in Optional(Sealed)
    <3>1. CASE jar = 0
      <4>1. b = {}
        BY <2>1, <3>1
      <4> QED BY <4>1, OptionalIs
    <3>2. CASE jar = 1
      <4>1. b = {[boot |-> 0, cookie |-> 1]}
        BY <2>1, <3>2
      <4>2. [boot |-> 0, cookie |-> 1] \in Sealed
        BY Bounds DEF Sealed, Cookie
      <4> QED BY <4>1, <4>2, OptionalIs
    <3> QED BY <1>1, <3>1, <3>2
  <2>3. UpPage = [NoPage EXCEPT !.socket = "open", !.started = TRUE, !.blob = b]
    BY <2>1 DEF UpPage
  <2> QED BY <1>3, <2>2, <2>3 DEF Page
<1>5. TypeOK
  <2>1. tabs \in [Tab -> Page]
    BY <1>1, <1>3, <1>4
  <2>2. calls \in [Call -> Crossing]
    BY <1>1, <1>2
  <2>3. hello \in [Tab -> Optional(Hello)] /\ heard \in [Tab -> 0..Crossings]
    BY <1>1, OptionalIs, Bounds
  <2>4. /\ issued \in Cookie \ {0} /\ live \subseteq 1..issued /\ jar \in 0..issued
        /\ boot \in 0..MaxRestarts /\ failures \in 0..MaxFailures
    BY <1>1, Bounds DEF Cookie
  <2> QED BY <1>1, <2>1, <2>2, <2>3, <2>4 DEF TypeOK
<1>6. CallsKept
  <2>1. SUFFICES ASSUME NEW c \in Call
                 PROVE  Staged(c) /\ Recovers(c)
    BY DEF CallsKept
  <2>2. calls[c].at = "idle" /\ calls[c].setCookie = {} /\ ~calls[c].retried
    BY <1>1, <1>2
  <2> QED BY <1>1, <2>2 DEF Staged, Recovers, Retrying
<1>7. ClaimsKept
  BY <1>1 DEF ClaimsKept
<1>8. Budgets
  <2>1. Cardinality(Call) = Crossings /\ MayRoll \subseteq Call /\ Unclaimed \subseteq Call
    BY <1>5, FS_Interval, Bounds, Counted DEF Call
  <2>2. /\ Cardinality(MayRoll) \in Nat /\ Cardinality(MayRoll) <= Crossings
        /\ Cardinality(Unclaimed) \in Nat /\ Cardinality(Unclaimed) <= Crossings
    BY <2>1, Bounds, Counting
  <2>3. \A t \in Tab : tabs[t].gen = 0 /\ heard[t] = 0
    BY <1>1, <1>3, <1>4
  <2>4. issued + Cardinality(MayRoll) <= 1 + Crossings
    BY <1>1, <2>2, Bounds
  <2> QED BY <2>2, <2>3, <2>4, Bounds DEF Budgets
<1> QED BY <1>5, <1>6, <1>7, <1>8 DEF AInv

\* Every step keeps it.
LEMMA StepKeeps == AInv /\ [Next]_vars => AInv'
<1> SUFFICES ASSUME AInv, [Next]_vars
             PROVE  AInv'
  OBVIOUS
<1>1. CASE UNCHANGED vars
  <2>1. TypeOK'
    BY <1>1 DEF AInv, TypeOK, vars
  <2>2. CallsKept'
    BY <1>1 DEF AInv, CallsKept, Staged, Recovers, Socket, Honoured, Retrying, vars
  <2>3. ClaimsKept'
    BY <1>1 DEF AInv, ClaimsKept, vars
  <2>4. Budgets'
    <3>1. MayRoll' = MayRoll /\ Unclaimed' = Unclaimed
      BY <1>1 DEF MayRoll, Unclaimed, vars
    <3> QED BY <1>1, <3>1 DEF AInv, Budgets, vars
  <2> QED BY <2>1, <2>2, <2>3, <2>4 DEF AInv
<1>2. CASE Next
  <2>1. Doubt
    BY <1>2 DEF Next
  <2>2. ASSUME NEW t \in Tab, PageStep(t)
        PROVE  AInv'
    BY <2>1, <2>2, OpenKeeps, AcceptKeeps, ConnectFailsKeeps, HelloArrivesKeeps,
       HelloTimeoutKeeps, HearKeeps DEF PageStep
  <2>3. ASSUME NEW c \in Call, CallStep(c)
        PROVE  AInv'
    BY <2>1, <2>3, JoinKeeps, SendKeeps, ExecKeeps, ReceiveKeeps DEF CallStep
  <2>4. ASSUME NEW c \in Call, NEW t \in Tab, NEW kind \in Kind, Start(c, t, kind)
        PROVE  AInv'
    BY <2>1, <2>4, StartKeeps
  <2>5. CASE HttpStep
    BY <2>1, <2>5, ResealAnswerKeeps, ResealFailsKeeps, ClaimLandsKeeps, ClaimFailsKeeps
       DEF HttpStep
  <2>6. CASE Restart
    BY <2>1, <2>6, RestartKeeps
  <2> QED BY <1>2, <2>2, <2>3, <2>4, <2>5, <2>6 DEF Next
<1> QED BY <1>1, <1>2

\* The invariant holds throughout.
LEMMA Invariant == Spec => []AInv
BY InitAInv, StepKeeps, PTL DEF Spec

\* The types, and with them every bound: the cookies issued, the numbers of the promises and
\* the broadcasts to come never outrun the crossings.
THEOREM TypeCorrect == Spec => []TypeOK
<1>1. AInv => TypeOK
  BY DEF AInv
<1> QED BY <1>1, Invariant, PTL

\* However tabs, rotations, failed requests and restarts interleave, a crossing ends refused
\* only if the jar held no cookie the backend honours at some moment since its first refusal,
\* or its own reseal failed (adapt-session-auth.mts:19-22).
THEOREM RefusalsInDoubt == Spec => []RefusedOnlyInDoubt
<1>1. AInv => RefusedOnlyInDoubt
  BY DEF AInv, CallsKept, Recovers, RefusedOnlyInDoubt
<1> QED BY <1>1, Invariant, PTL

\* With awaitClaims no cookie reaches the jar after the application has seen the reply of the
\* crossing that rotated it (adapt-session-auth.mts:49-55).
THEOREM RotationsAwaited == Spec => NoLateRotation
<1>1. ASSUME AInv, [Next]_vars, options.awaitClaims, jar' # jar
      PROVE  \E c \in Call : calls[c].at = "claiming" /\ calls[c].setCookie = {jar'}
  <2>1. PICK m \in claims : ClaimLands(m)
    BY <1>1 DEF Next, PageStep, CallStep, HttpStep, Open, Accept, ConnectFails, HelloArrives,
       HelloTimeout, Hear, Start, Join, Send, Exec, Receive, ResealAnswer, ResealFails,
       ClaimFails, Restart, vars
  <2>2. jar' = m.cookie /\ m.call \in Call
    BY <1>1, <2>1 DEF ClaimLands, AInv, TypeOK, Claim
  <2>3. calls[m.call].at = "claiming" /\ calls[m.call].setCookie = {m.cookie}
    BY <1>1, <2>1 DEF AInv, ClaimsKept
  <2> QED BY <2>2, <2>3
<1>2. AInv /\ [Next]_vars =>
        [options.awaitClaims /\ jar' # jar
           => \E c \in Call : calls[c].at = "claiming" /\ calls[c].setCookie = {jar'}]_vars
  BY <1>1
<1> QED BY <1>2, Invariant, PTL DEF Spec, NoLateRotation

=============================================================================
