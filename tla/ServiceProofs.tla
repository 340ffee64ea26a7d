--------------------------- MODULE ServiceProofs ---------------------------
(***************************************************************************)
(* Proofs about Service, for every number of calls, routes and principals, *)
(* every setting, budget and window: type correctness, OwnAnswer,          *)
(* JudgedAsItself, Budget and WindowsBounded.                              *)
(*                                                                         *)
(* The first invariant follows a call: it is queued once and travels in    *)
(* one request with calls of its own payload (Browsing); what has not been *)
(* posted is unknown to the sidecar's client (Posting); a posted call is   *)
(* one message, under the token that goes with it, until it is judged      *)
(* (Judging); and what is told of a call, on the pipe, in a verdict, a     *)
(* reply or a result, is in the monitor's log of that call, or the process *)
(* has exited (Telling).  The second one is about the clock (Timing): the  *)
(* calls counted so far fall into windows that do not overlap.             *)
(***************************************************************************)
EXTENDS Service, FiniteSetTheorems, TLAPS

Distinct(q) == \A i, j \in DOMAIN q : q[i] = q[j] => i = j

\* The browser's queues, and the requests made of them.
Queued == UNION {Range(queues[r]) : r \in Route}
QueuesApart ==
  /\ queues \in [Route -> Seq(issued)]
  /\ \A r \in Route : Distinct(queues[r]) /\ \A i \in DOMAIN queues[r] : Key(queues[r][i]) = r
  /\ Queued \cap DOMAIN result = {}

Request(b) ==
  /\ b \in [calls : Seq(issued), at : {"wire", "served", "answered"}, reply : Seq(Res)]
  /\ b.calls # <<>> /\ Distinct(b.calls)
  /\ \A i \in DOMAIN b.calls : Key(b.calls[i]) = Key(b.calls[1])
  /\ Range(b.calls) \cap Queued = {}
  /\ b.at = "wire" => Range(b.calls) \cap DOMAIN result = {}
  /\ b.reply # <<>> => b.at = "answered" /\ DOMAIN b.reply = DOMAIN b.calls
RequestsApart ==
  \A a, b \in batches : Request(b) /\ (Range(a.calls) \cap Range(b.calls) # {} => a = b)

Browsing ==
  /\ setting \in Settings
  /\ issued \subseteq Call /\ DOMAIN result \subseteq issued
  /\ QueuesApart /\ RequestsApart

\* The calls that the client of the sidecar has taken on, and those it never will or has yet to.
Posted == Range(pending) \cup DOMAIN verdict
Unposted(c) ==
  \/ c \in Queued
  \/ \E b \in batches : c \in Range(b.calls) /\ b.at # "served" /\ b.reply = <<>>
  \/ c \in DOMAIN result /\ result[c] = Error("no reply")

Posting ==
  /\ nextId \in Nat \ {0} /\ DOMAIN pending \subseteq 1..(nextId - 1) /\ Distinct(pending)
  /\ Range(pending) \cap DOMAIN verdict = {} /\ Posted \subseteq issued
  /\ \A c \in Posted : ~Unposted(c)

\* A post names a call the client has taken on, under the id it awaits it by.
PostTrue(p) ==
  /\ p \in Post /\ p.id < nextId
  /\ p.call \in Posted /\ p.who = Who(p.call) /\ audit[p.call] = <<>>
  /\ p.id \in DOMAIN pending => pending[p.id] = p.call
PostsTrue ==
  /\ toChild \in Seq(Post) /\ \A i \in DOMAIN toChild : PostTrue(toChild[i])
  /\ work \subseteq [post : Post, at : {"verifying", "running"}] /\ \A w \in work : PostTrue(w.post)
PostsOnce ==
  /\ \A i, j \in DOMAIN toChild : toChild[i].call = toChild[j].call => i = j
  /\ \A w, v \in work : w.post.call = v.post.call => w = v
  /\ \A i \in DOMAIN toChild, w \in work : toChild[i].call # w.post.call

\* What the monitor can come to, and its log.
Heard == {Yields(c) : c \in Call} \cup {Error("denied"), Error("threw")}
AuditTrue ==
  /\ audit \in [Call -> Seq([who : {"nobody"} \cup Principal, res : Heard])]
  /\ \A c \in Call : /\ Len(audit[c]) <= 1
                     /\ \A i \in DOMAIN audit[c] : audit[c][i].who \in {"nobody", Who(c)}
                     /\ audit[c] # <<>> => c \in Posted

\* What has been counted was posted, and is past the token's verification.
CountedTrue ==
  /\ \A k \in counted : k.call \in Posted /\ k.who = Who(k.call)
  /\ \A j, k \in counted : j.call = k.call => j = k
  /\ \A k \in counted, i \in DOMAIN toChild : k.call # toChild[i].call
  /\ \A k \in counted, w \in work : w.at = "verifying" => k.call # w.post.call

Judging == PostsTrue /\ PostsOnce /\ AuditTrue /\ CountedTrue

\* An outcome of a call that the monitor has logged, or that its exit explains.
Audited(c, res) == \E i \in DOMAIN audit[c] : audit[c][i].res = res
Honest(c, res) == Audited(c, res) \/ (res = Error("exited") /\ ~alive)

Telling ==
  /\ open \in BOOLEAN /\ exited \in BOOLEAN /\ alive \in BOOLEAN
  /\ exited => ~alive
  /\ alive \/ work = {}
  /\ toParent \in Seq([id : 1..(nextId - 1), res : Heard])
  /\ \A i \in DOMAIN toParent :
       toParent[i].id \in DOMAIN pending => Audited(pending[toParent[i].id], toParent[i].res)
  /\ \A c \in DOMAIN verdict : Honest(c, verdict[c])
  /\ \A b \in batches : \A i \in DOMAIN b.reply : Honest(b.calls[i], b.reply[i])
  /\ \A c \in DOMAIN result : \/ Honest(c, result[c])
                              \/ result[c] = Error("closed") /\ ~open
                              \/ result[c] = Error("no reply")

\* The calls of a principal fall into windows that do not overlap and begin with a call. Each
\* admits the budget. The window the monitor remembers is the last one, with its count.
Starts == [Principal -> SUBSET {k.at : k \in counted}]
Divides(starts) ==
  /\ \A k \in counted : \E s \in starts[k.who] : k.at \in s..(s + Window - 1)
  /\ \A p \in Principal : \A s \in starts[p] :
       /\ \E k \in counted : k.who = p /\ k.at = s
       /\ \A t \in starts[p] : s < t => s + Window <= t
       /\ Admitted(p, s) <= MaxCalls
       /\ IF p \in DOMAIN windows THEN s <= windows[p].start ELSE s + Window <= now
  /\ \A p \in DOMAIN windows :
       windows[p].start \in starts[p] /\ windows[p].count = Cardinality(Within(p, windows[p].start))

Swift ==
  /\ \A p \in DOMAIN windows : lastSweep - windows[p].start < Window
  /\ \A k \in counted : k.at - lastSweep < Window

Clocked ==
  /\ now \in Nat /\ lastSweep \in 0..now
  /\ DOMAIN windows \subseteq Principal
  /\ \A p \in DOMAIN windows : windows[p] \in [start : 0..now, count : Nat \ {0}]
  /\ IsFiniteSet(counted)
  /\ counted \subseteq [who : Principal, at : 0..now, ok : BOOLEAN, call : Call]

Timing ==
  /\ Clocked /\ Swift
  /\ \E starts \in Starts : Divides(starts)
  /\ \A k \in counted : ~k.ok => Cardinality(Within(k.who, k.at - Window + 1)) > MaxCalls

SInv == Browsing /\ Posting /\ Judging /\ Telling /\ Timing

-----------------------------------------------------------------------------
(* Merged maps and sequences.                                              *)

\* What a map is after some of its entries were set.
LEMMA MergedIs ==
  ASSUME NEW f, NEW g
  PROVE  /\ DOMAIN Merged(f, g) = DOMAIN f \cup DOMAIN g
         /\ \A x \in DOMAIN g : Merged(f, g)[x] = g[x]
         /\ \A x \in DOMAIN f \ DOMAIN g : Merged(f, g)[x] = f[x]
BY DEF Merged

\* A value of a map is in its range.
LEMMA InRange ==
  ASSUME NEW f, NEW x \in DOMAIN f
  PROVE  f[x] \in Range(f)
BY DEF Range

\* What is in the range of a map is the value of some entry.
LEMMA OfRange ==
  ASSUME NEW f, NEW y \in Range(f)
  PROVE  \E x \in DOMAIN f : f[x] = y
BY DEF Range

-----------------------------------------------------------------------------
(* The clock.                                                              *)

\* The sets of calls of a window are finite.
LEMMA WithinFinite ==
  ASSUME IsFiniteSet(counted), NEW p, NEW s
  PROVE  /\ IsFiniteSet(Within(p, s)) /\ IsFiniteSet({j \in Within(p, s) : j.ok})
         /\ Cardinality(Within(p, s)) \in Nat /\ Admitted(p, s) \in Nat
         /\ Admitted(p, s) <= Cardinality(Within(p, s))
<1>1. Within(p, s) \subseteq counted /\ {j \in Within(p, s) : j.ok} \subseteq Within(p, s)
  BY DEF Within
<1>2. IsFiniteSet(Within(p, s))
  BY <1>1, FS_Subset
<1> QED BY <1>1, <1>2, FS_Subset, FS_CardinalityType DEF Admitted

\* The window a call is counted in: the one there is, or a new one if that has expired.
LEMMA WindowOf ==
  ASSUME Clocked, NEW p \in Principal
  PROVE  \/ /\ p \in DOMAIN windows /\ now < windows[p].start + Window
            /\ Counted(p).start = windows[p].start /\ Counted(p).count = windows[p].count + 1
         \/ /\ p \in DOMAIN windows => windows[p].start + Window <= now
            /\ Counted(p).start = now /\ Counted(p).count = 1
<1>1. Window \in Nat \ {0} /\ now \in Nat
  BY ServiceAssumption DEF Clocked
<1>2. ASSUME NEW q \in DOMAIN windows
      PROVE  windows[q] \in [start : 0..now, count : Nat \ {0}]
  BY <1>2 DEF Clocked
<1>3. CASE p \in DOMAIN windows /\ now < windows[p].start + Window
  <2>1. now - windows[p].start < Window
    BY <1>1, <1>2, <1>3
  <2>2. p \in DOMAIN Swept /\ Swept[p] = windows[p]
    BY <1>3, <2>1 DEF Swept, Live, Restrict
  <2>3. Counted(p) = [windows[p] EXCEPT !.count = @ + 1]
    BY <2>1, <2>2 DEF Counted
  <2> QED BY <1>2, <1>3, <2>3
<1>4. CASE ~(p \in DOMAIN windows /\ now < windows[p].start + Window)
  <2>1. p \in DOMAIN windows => windows[p].start + Window <= now
    BY <1>1, <1>2, <1>4
  <2>2. ~(p \in DOMAIN Swept /\ now - Swept[p].start < Window)
    <3>1. SUFFICES ASSUME p \in DOMAIN Swept
                   PROVE  ~(now - Swept[p].start < Window)
      OBVIOUS
    <3>2. p \in DOMAIN windows /\ Swept[p] = windows[p]
      BY <3>1 DEF Swept, Restrict
    <3> QED BY <1>1, <1>2, <2>1, <3>2
  <2>3. Counted(p) = [start |-> now, count |-> 1]
    BY <2>2 DEF Counted
  <2> QED BY <2>1, <2>3
<1> QED BY <1>3, <1>4

\* What the sweep leaves: only expired windows go, and when it is due all of them.
LEMMA SweptIs ==
  ASSUME Clocked
  PROVE  /\ DOMAIN Swept \subseteq DOMAIN windows
         /\ \A q \in DOMAIN Swept : Swept[q] = windows[q]
         /\ \A q \in DOMAIN windows \ DOMAIN Swept : windows[q].start + Window <= now
         /\ SweepDue => \A q \in DOMAIN Swept : now < windows[q].start + Window
<1>1. Window \in Nat \ {0} /\ now \in Nat
  BY ServiceAssumption DEF Clocked
<1>2. ASSUME NEW q \in DOMAIN windows
      PROVE  Live(q) <=> now < windows[q].start + Window
  <2>1. windows[q].start \in Nat
    BY <1>2 DEF Clocked
  <2> QED BY <1>1, <2>1 DEF Live
<1>3. CASE SweepDue
  <2>1. Swept = [q \in {r \in DOMAIN windows : Live(r)} |-> windows[q]]
    BY <1>3 DEF Swept, Restrict
  <2>2. \A q \in DOMAIN windows : windows[q].start \in Nat
    BY DEF Clocked
  <2>3. DOMAIN Swept = {q \in DOMAIN windows : Live(q)}
    BY <2>1
  <2>4. \A q \in DOMAIN Swept : Swept[q] = windows[q]
    BY <2>1
  <2>5. \A q \in DOMAIN windows \ DOMAIN Swept : windows[q].start + Window <= now
    BY <1>1, <1>2, <2>2, <2>3
  <2>6. \A q \in DOMAIN Swept : now < windows[q].start + Window
    BY <1>2, <2>3
  <2> QED BY <2>3, <2>4, <2>5, <2>6
<1>4. CASE ~SweepDue
  BY <1>4 DEF Swept
<1> QED BY <1>3, <1>4

\* A call is counted in window st of principal p: k is the entry, n the count.
Counts(p, k, st, n) ==
  /\ k \in [who : {p}, at : {now}, ok : BOOLEAN, call : Call] /\ k \notin counted
  /\ counted' = counted \cup {k} /\ now' = now
  /\ k.ok <=> n <= MaxCalls
  /\ DOMAIN windows' = DOMAIN Swept \cup {p}
  /\ windows'[p].start = st /\ windows'[p].count = n
  /\ windows'[p] \in [start : 0..now, count : Nat \ {0}]
  /\ \A q \in DOMAIN Swept : q # p => windows'[q] = windows[q]

\* Counting is an entry of the history in one of the two windows.
LEMMA CountIs ==
  ASSUME SInv, NEW w \in work, w.at = "verifying", Count(w), now' = now
  PROVE  \E p \in Principal : \E k, st, n :
           /\ p = w.post.who /\ k.call = w.post.call /\ Counts(p, k, st, n)
           /\ \/ p \in DOMAIN windows /\ now < windows[p].start + Window
                 /\ st = windows[p].start /\ n = windows[p].count + 1
              \/ (p \in DOMAIN windows => windows[p].start + Window <= now)
                 /\ st = now /\ n = 1
<1>1. PICK p : p = w.post.who
  OBVIOUS
<1>2. w.post \in Post
  BY DEF SInv, Judging, PostsTrue
<1>3. p \in Principal /\ w.post.call \in Call
  BY <1>1, <1>2 DEF Post
<1>4. Clocked
  BY DEF SInv, Timing
<1>5. PICK st : st = Counted(p).start
  OBVIOUS
<1>6. PICK n : n = Counted(p).count
  OBVIOUS
<1>7. PICK k : k = [who |-> p, at |-> now, ok |-> Admits(p), call |-> w.post.call]
  OBVIOUS
<1>8. counted' = counted \cup {k} /\ windows' = Merged(Swept, [q \in {p} |-> Counted(p)])
  BY <1>1, <1>7 DEF Count
<1>9. k \notin counted
  BY <1>7 DEF SInv, Judging, CountedTrue
<1>10. k \in [who : {p}, at : {now}, ok : BOOLEAN, call : Call] /\ k.call = w.post.call
       /\ (k.ok <=> n <= MaxCalls)
  <2>1. Admits(p) <=> n <= MaxCalls
    BY <1>6 DEF Admits
  <2>2. Admits(p) \in BOOLEAN
    BY DEF Admits
  <2> QED BY <1>3, <1>7, <2>1, <2>2
<1>11. \/ p \in DOMAIN windows /\ now < windows[p].start + Window
          /\ st = windows[p].start /\ n = windows[p].count + 1
       \/ (p \in DOMAIN windows => windows[p].start + Window <= now)
          /\ st = now /\ n = 1
  BY <1>3, <1>4, <1>5, <1>6, WindowOf
<1>12. Counted(p) \in [start : 0..now, count : Nat \ {0}]
  <2>1. now \in Nat /\ \A q \in DOMAIN windows : windows[q] \in [start : 0..now, count : Nat \ {0}]
    BY <1>4 DEF Clocked
  <2>2. \A q \in DOMAIN Swept : Swept[q] \in [start : 0..now, count : Nat \ {0}]
    BY <2>1, <1>4, SweptIs
  <2> QED BY <2>1, <2>2 DEF Counted
<1>13. DOMAIN windows' = DOMAIN Swept \cup {p} /\ windows'[p] = Counted(p)
       /\ \A q \in DOMAIN Swept : q # p => windows'[q] = Swept[q]
  <2>1. PICK g : g = [q \in {p} |-> Counted(p)]
    OBVIOUS
  <2>2. DOMAIN g = {p} /\ g[p] = Counted(p) /\ windows' = Merged(Swept, g)
    BY <1>8, <2>1
  <2>3. DOMAIN Merged(Swept, g) = DOMAIN Swept \cup {p}
    <3>1. DOMAIN Merged(Swept, g) = DOMAIN Swept \cup DOMAIN g
      BY MergedIs
    <3> QED BY <2>2, <3>1
  <2>5. Merged(Swept, g)[p] = g[p]
    <3>1. p \in DOMAIN g
      BY <2>2
    <3> QED BY <3>1 DEF Merged
  <2>4. \A q \in DOMAIN Swept : q # p => Merged(Swept, g)[q] = Swept[q]
    BY <2>2, MergedIs
  <2> QED BY <2>2, <2>3, <2>4, <2>5
<1>14. \A q \in DOMAIN Swept : q # p => windows'[q] = windows[q]
  BY <1>4, <1>13, SweptIs
<1>15. Counts(p, k, st, n)
  BY <1>5, <1>6, <1>8, <1>9, <1>10, <1>12, <1>13, <1>14 DEF Counts
<1> QED BY <1>1, <1>3, <1>10, <1>11, <1>15

\* How the sets of calls of a window grow by a call.
LEMMA WithinGrows ==
  ASSUME NEW p, NEW k, NEW st, NEW n, Counts(p, k, st, n), Clocked
  PROVE  \A q, s :
           /\ q # p \/ now \notin s..(s + Window - 1) =>
                Within(q, s)' = Within(q, s) /\ Admitted(q, s)' = Admitted(q, s)
           /\ q = p /\ now \in s..(s + Window - 1) =>
                /\ Within(q, s)' = Within(q, s) \cup {k} /\ Admitted(q, s)' \in Nat
                /\ Cardinality(Within(q, s)') = Cardinality(Within(q, s)) + 1
                /\ Admitted(q, s)' <= Cardinality(Within(q, s)) + 1
                /\ ~k.ok => Admitted(q, s)' = Admitted(q, s)
<1>1. counted' = counted \cup {k} /\ k \notin counted /\ k.who = p /\ k.at = now
  BY DEF Counts
<1>2. IsFiniteSet(counted)
  BY DEF Clocked
<1>3. SUFFICES ASSUME NEW q, NEW s
               PROVE  /\ q # p \/ now \notin s..(s + Window - 1) =>
                           Within(q, s)' = Within(q, s) /\ Admitted(q, s)' = Admitted(q, s)
                      /\ q = p /\ now \in s..(s + Window - 1) =>
                           /\ Within(q, s)' = Within(q, s) \cup {k} /\ Admitted(q, s)' \in Nat
                           /\ Cardinality(Within(q, s)') = Cardinality(Within(q, s)) + 1
                           /\ Admitted(q, s)' <= Cardinality(Within(q, s)) + 1
                           /\ ~k.ok => Admitted(q, s)' = Admitted(q, s)
  OBVIOUS
<1>4. CASE q # p \/ now \notin s..(s + Window - 1)
  <2>1. Within(q, s)' = Within(q, s)
    BY <1>1, <1>4 DEF Within
  <2> QED BY <1>4, <2>1 DEF Admitted
<1>5. CASE q = p /\ now \in s..(s + Window - 1)
  <2>1. Within(q, s)' = Within(q, s) \cup {k}
    BY <1>1, <1>5 DEF Within
  <2>2. k \notin Within(q, s)
    BY <1>1 DEF Within
  <2>3. Cardinality(Within(q, s)') = Cardinality(Within(q, s)) + 1
    BY <1>2, <2>1, <2>2, WithinFinite, FS_AddElement
  <2>4. ASSUME ~k.ok
        PROVE  Admitted(q, s)' = Admitted(q, s)
    <3>1. {j \in Within(q, s)' : j.ok} = {j \in Within(q, s) : j.ok}
      BY <2>1, <2>4
    <3> QED BY <3>1 DEF Admitted
  <2>5. Admitted(q, s)' <= Cardinality(Within(q, s)') /\ Admitted(q, s)' \in Nat
    <3>0. IsFiniteSet(Within(q, s))
      BY <1>2, WithinFinite
    <3>1. IsFiniteSet(Within(q, s)')
      BY <2>1, <3>0, FS_AddElement
    <3>2. {j \in Within(q, s)' : j.ok} \subseteq Within(q, s)'
      OBVIOUS
    <3> QED BY <3>1, <3>2, FS_Subset, FS_CardinalityType DEF Admitted
  <2> QED BY <1>5, <2>1, <2>3, <2>4, <2>5
<1> QED BY <1>4, <1>5

\* The numbers in play.
LEMMA Numbers ==
  ASSUME Clocked
  PROVE  /\ Window \in Nat \ {0} /\ MaxCalls \in Nat \ {0} /\ now \in Nat
         /\ \A q \in DOMAIN windows : /\ q \in Principal /\ windows[q].start \in 0..now
                                      /\ windows[q].count \in Nat \ {0}
         /\ \A j \in counted : j.at \in 0..now /\ j.who \in Principal
         /\ \A starts \in Starts, q \in Principal : \A s \in starts[q] : s \in 0..now
<1>1. \A j \in counted : j.at \in 0..now /\ j.who \in Principal
  BY DEF Clocked
<1>2. \A starts \in Starts, q \in Principal : \A s \in starts[q] : s \in 0..now
  BY <1>1 DEF Starts
<1>3. \A q \in DOMAIN windows : /\ q \in Principal /\ windows[q].start \in 0..now
                                /\ windows[q].count \in Nat \ {0}
  BY DEF Clocked
<1> QED BY <1>1, <1>2, <1>3, ServiceAssumption DEF Clocked

\* A window the sweep forgets, or that is left, ends before now or is the one remembered.
LEMMA StartsStay ==
  ASSUME Clocked, NEW p \in Principal, NEW k, NEW st, NEW n, Counts(p, k, st, n),
         NEW starts \in Starts, Divides(starts), NEW q \in Principal, q # p, NEW s \in starts[q]
  PROVE  IF q \in DOMAIN windows' THEN s <= windows'[q].start ELSE s + Window <= now'
<1>1. /\ DOMAIN windows' = DOMAIN Swept \cup {p} /\ now' = now
      /\ \A z \in DOMAIN Swept : z # p => windows'[z] = windows[z]
  BY DEF Counts
<1>2. IF q \in DOMAIN windows THEN s <= windows[q].start ELSE s + Window <= now
  BY DEF Divides
<1>3. s \in 0..now /\ Window \in Nat \ {0}
      /\ \A z \in DOMAIN windows : windows[z].start \in 0..now
  BY Numbers
<1>4. CASE q \in DOMAIN Swept
  BY <1>1, <1>2, <1>4, SweptIs
<1>5. CASE q \in DOMAIN windows /\ q \notin DOMAIN Swept
  <2>1. windows[q].start + Window <= now
    BY <1>5, SweptIs
  <2>2. s <= windows[q].start
    BY <1>2, <1>5
  <2>3. s + Window <= now
    <3>1. windows[q].start \in Nat /\ s \in Nat /\ Window \in Nat /\ now \in Nat
      BY <1>3, <1>5, Numbers
    <3> QED BY <2>1, <2>2, <3>1
  <2> QED BY <1>1, <1>5, <2>3
<1>6. CASE q \notin DOMAIN windows
  BY <1>1, <1>2, <1>6, SweptIs
<1> QED BY <1>4, <1>5, <1>6

\* The windows of the others keep their count.
LEMMA CountsStay ==
  ASSUME Clocked, NEW p \in Principal, NEW k, NEW st, NEW n, Counts(p, k, st, n),
         NEW starts, Divides(starts), NEW q \in DOMAIN windows', q # p
  PROVE  (/\ windows[q].start \in starts[q]
          /\ windows[q].count = Cardinality(Within(q, windows[q].start)))'
<1>1. q \in DOMAIN Swept /\ windows'[q] = windows[q]
  BY DEF Counts
<1>2. q \in DOMAIN windows
  BY <1>1, SweptIs
<1>3. windows[q].start \in starts[q] /\ windows[q].count = Cardinality(Within(q, windows[q].start))
  BY <1>2 DEF Divides
<1>4. PICK s : s = windows[q].start
  OBVIOUS
<1>5. Within(q, s)' = Within(q, s)
  BY WithinGrows
<1>6. s = windows'[q].start
  BY <1>1, <1>4
<1>7. Within(q, windows[q].start)' = Within(q, s)'
  BY <1>6 DEF Within
<1> QED BY <1>1, <1>3, <1>4, <1>5, <1>6, <1>7

\* A call counted in the window there is.
LEMMA CountsOn ==
  ASSUME Clocked, NEW p \in Principal, NEW k, NEW st, NEW n, Counts(p, k, st, n),
         p \in DOMAIN windows, now < windows[p].start + Window,
         st = windows[p].start, n = windows[p].count + 1,
         NEW starts \in Starts, Divides(starts)
  PROVE  starts \in Starts' /\ Divides(starts)'
<1>1. /\ counted' = counted \cup {k} /\ now' = now /\ k.who = p /\ k.at = now
      /\ k.ok <=> n <= MaxCalls
      /\ p \in DOMAIN windows' /\ windows'[p].start = st /\ windows'[p].count = n
  BY DEF Counts
<1>2. /\ Window \in Nat \ {0} /\ MaxCalls \in Nat \ {0} /\ now \in Nat /\ st \in 0..now
      /\ windows[p].count \in Nat
      /\ \A q \in Principal : \A s \in starts[q] : s \in 0..now
  BY Numbers
<1>3. st \in starts[p] /\ windows[p].count = Cardinality(Within(p, st))
  BY DEF Divides
<1>4. now \in st..(st + Window - 1)
  BY <1>2
<1>5. starts \in Starts'
  <2>1. {j.at : j \in counted} \subseteq {j.at : j \in counted'}
    BY <1>1
  <2> QED BY <2>1 DEF Starts
<1>6. \A j \in counted' : \E s \in starts[j.who] : j.at \in s..(s + Window - 1)
  BY <1>1, <1>3, <1>4 DEF Divides
<1>7. ASSUME NEW q \in Principal, NEW s \in starts[q]
      PROVE  /\ \E j \in counted' : j.who = q /\ j.at = s
             /\ \A t \in starts[q] : s < t => s + Window <= t
             /\ Admitted(q, s)' <= MaxCalls
             /\ IF q \in DOMAIN windows' THEN s <= windows'[q].start ELSE s + Window <= now'
  <2>1. /\ \E j \in counted : j.who = q /\ j.at = s
        /\ \A t \in starts[q] : s < t => s + Window <= t
        /\ Admitted(q, s) <= MaxCalls
        /\ q = p => s <= st
    BY DEF Divides
  <2>2. Admitted(q, s)' <= MaxCalls
    <3>1. CASE q # p \/ now \notin s..(s + Window - 1)
      BY <2>1, <3>1, WithinGrows
    <3>2. CASE q = p /\ now \in s..(s + Window - 1)
      <4>1. s = st
        BY <1>2, <1>3, <2>1, <3>2
      <4>2. CASE k.ok
        <5>1. Admitted(q, s)' <= Cardinality(Within(q, s)) + 1
          BY <3>2, WithinGrows
        <5>2. Cardinality(Within(q, s)) + 1 = n /\ n <= MaxCalls
          BY <1>1, <1>3, <3>2, <4>1, <4>2
        <5>3. Admitted(q, s)' \in Nat
          BY <3>2, WithinGrows
        <5> QED BY <1>2, <5>1, <5>2, <5>3
      <4>3. CASE ~k.ok
        BY <2>1, <3>2, <4>3, WithinGrows
      <4> QED BY <4>2, <4>3
    <3> QED BY <3>1, <3>2
  <2>3. IF q \in DOMAIN windows' THEN s <= windows'[q].start ELSE s + Window <= now'
    BY <1>1, <2>1, StartsStay
  <2> QED BY <1>1, <2>1, <2>2, <2>3
<1>8. ASSUME NEW q \in DOMAIN windows'
      PROVE  (/\ windows[q].start \in starts[q]
              /\ windows[q].count = Cardinality(Within(q, windows[q].start)))'
  <2>1. CASE q # p
    BY <2>1, CountsStay
  <2>2. CASE q = p
    <3>1. Cardinality(Within(p, st)') = n
      BY <1>3, <1>4, WithinGrows
    <3>2. Within(p, windows[p].start)' = Within(p, st)'
      BY <1>1 DEF Within
    <3> QED BY <1>1, <1>3, <2>2, <3>1, <3>2
  <2> QED BY <2>1, <2>2
<1>9. Divides(starts)'
  BY <1>6, <1>7, <1>8 DEF Divides
<1> QED BY <1>5, <1>9

\* A call that opens a window: the earlier ones are over.
LEMMA CountsAnew ==
  ASSUME Clocked, NEW p \in Principal, NEW k, NEW st, NEW n, Counts(p, k, st, n),
         p \in DOMAIN windows => windows[p].start + Window <= now, st = now, n = 1,
         NEW starts \in Starts, Divides(starts)
  PROVE  \E anew \in Starts' : Divides(anew)'
<1>1. /\ counted' = counted \cup {k} /\ now' = now /\ k.who = p /\ k.at = now
      /\ p \in DOMAIN windows' /\ windows'[p].start = now /\ windows'[p].count = 1
  BY DEF Counts
<1>2. /\ Window \in Nat \ {0} /\ MaxCalls \in Nat \ {0} /\ now \in Nat
      /\ \A q \in Principal : \A s \in starts[q] : s \in 0..now
      /\ \A j \in counted : j.at \in 0..now /\ j.who \in Principal
      /\ \A q \in DOMAIN windows : windows[q].start \in 0..now
  BY Numbers
<1>3. \A s \in starts[p] : s + Window <= now
  <2>1. SUFFICES ASSUME NEW s \in starts[p]
                 PROVE  s + Window <= now
    OBVIOUS
  <2>2. IF p \in DOMAIN windows THEN s <= windows[p].start ELSE s + Window <= now
    BY DEF Divides
  <2>3. CASE p \in DOMAIN windows
    <3>1. s \in Nat /\ windows[p].start \in Nat /\ Window \in Nat /\ now \in Nat
      BY <1>2, <2>3
    <3> QED BY <2>2, <2>3, <3>1
  <2> QED BY <2>2, <2>3
<1>4. Within(p, now) = {}
  <2>1. SUFFICES ASSUME NEW j \in Within(p, now)
                 PROVE  FALSE
    OBVIOUS
  <2>2. j \in counted /\ j.who = p /\ j.at \in now..(now + Window - 1)
    BY <2>1 DEF Within
  <2>3. PICK s \in starts[p] : j.at \in s..(s + Window - 1)
    BY <2>2 DEF Divides
  <2>4. s \in Nat /\ Window \in Nat /\ now \in Nat /\ s + Window <= now
    BY <1>2, <1>3
  <2> QED BY <2>2, <2>3, <2>4
<1>5. now \in now..(now + Window - 1)
  BY <1>2
<1>6. Cardinality(Within(p, now)') = 1 /\ Admitted(p, now)' <= 1 /\ Admitted(p, now)' \in Nat
  <2>1. PICK s : s = now
    OBVIOUS
  <2>2. Cardinality(Within(p, s)) = 0
    BY <1>4, <2>1, FS_EmptySet
  <2>3. /\ Cardinality(Within(p, s)') = Cardinality(Within(p, s)) + 1
        /\ Admitted(p, s)' <= Cardinality(Within(p, s)) + 1 /\ Admitted(p, s)' \in Nat
    BY <1>5, <2>1, WithinGrows
  <2>4. Within(p, now)' = Within(p, s)'
    BY <1>1, <2>1 DEF Within
  <2>5. Admitted(p, now)' = Admitted(p, s)'
    BY <2>4 DEF Admitted
  <2> QED BY <2>2, <2>3, <2>4, <2>5
<1>7. PICK anew : anew = [starts EXCEPT ![p] = @ \cup {now}]
  OBVIOUS
<1>8. /\ DOMAIN anew = Principal /\ anew[p] = starts[p] \cup {now}
      /\ \A q \in Principal : q # p => anew[q] = starts[q]
  BY <1>7 DEF Starts
<1>9. anew \in Starts'
  <2>1. {j.at : j \in counted'} = {j.at : j \in counted} \cup {now}
    BY <1>1
  <2>2. starts \in [Principal -> SUBSET {j.at : j \in counted'}]
    BY <2>1 DEF Starts
  <2>3. starts[p] \cup {now} \in SUBSET {j.at : j \in counted'}
    BY <2>1, <2>2
  <2>4. anew \in [Principal -> SUBSET {j.at : j \in counted'}]
    BY <1>7, <2>2, <2>3
  <2> QED BY <2>4 DEF Starts
<1>10. \A j \in counted' : \E s \in anew[j.who] : j.at \in s..(s + Window - 1)
  <2>1. SUFFICES ASSUME NEW j \in counted'
                 PROVE  \E s \in anew[j.who] : j.at \in s..(s + Window - 1)
    OBVIOUS
  <2>2. CASE j = k
    BY <1>1, <1>5, <1>8, <2>2
  <2>3. CASE j \in counted
    <3>1. PICK s \in starts[j.who] : j.at \in s..(s + Window - 1)
      BY <2>3 DEF Divides
    <3>2. s \in anew[j.who]
      BY <1>2, <1>8, <2>3
    <3> QED BY <3>1, <3>2
  <2> QED BY <1>1, <2>2, <2>3
<1>11. ASSUME NEW q \in Principal, NEW s \in anew[q]
       PROVE  /\ \E j \in counted' : j.who = q /\ j.at = s
              /\ \A t \in anew[q] : s < t => s + Window <= t
              /\ Admitted(q, s)' <= MaxCalls
              /\ IF q \in DOMAIN windows' THEN s <= windows'[q].start ELSE s + Window <= now'
  <2>1. CASE q # p
    <3>1. s \in starts[q]
      BY <1>8, <2>1
    <3>2. /\ \E j \in counted : j.who = q /\ j.at = s
          /\ \A t \in starts[q] : s < t => s + Window <= t
          /\ Admitted(q, s) <= MaxCalls
      BY <3>1 DEF Divides
    <3>3. Admitted(q, s)' = Admitted(q, s)
      BY <2>1, WithinGrows
    <3> QED BY <1>1, <1>8, <2>1, <3>1, <3>2, <3>3, StartsStay
  <2>2. CASE q = p /\ s = now
    <3>1. \A t \in anew[q] : s < t => s + Window <= t
      BY <1>2, <1>3, <1>8, <2>2
    <3> QED BY <1>1, <1>2, <1>6, <2>2, <3>1
  <2>3. CASE q = p /\ s # now
    <3>1. s \in starts[p] /\ s + Window <= now /\ s \in Nat
      BY <1>2, <1>3, <1>8, <2>3
    <3>2. /\ \E j \in counted : j.who = p /\ j.at = s
          /\ \A t \in starts[p] : s < t => s + Window <= t
          /\ Admitted(p, s) <= MaxCalls
      BY <3>1 DEF Divides
    <3>3. now \notin s..(s + Window - 1)
      BY <1>2, <3>1
    <3>4. Admitted(p, s)' = Admitted(p, s)
      BY <3>3, WithinGrows
    <3>5. s <= windows'[p].start
      BY <1>1, <1>2, <3>1
    <3> QED BY <1>1, <1>8, <2>3, <3>1, <3>2, <3>4, <3>5
  <2> QED BY <2>1, <2>2, <2>3
<1>12. ASSUME NEW q \in DOMAIN windows'
       PROVE  (/\ windows[q].start \in anew[q]
               /\ windows[q].count = Cardinality(Within(q, windows[q].start)))'
  <2>1. CASE q # p
    <3>1. q \in Principal
      <4>1. q \in DOMAIN Swept
        BY <2>1, <1>12 DEF Counts
      <4> QED BY <4>1, SweptIs DEF Clocked
    <3> QED BY <1>8, <2>1, <3>1, CountsStay
  <2>2. CASE q = p
    <3>1. Within(p, windows[p].start)' = Within(p, now)'
      BY <1>1 DEF Within
    <3> QED BY <1>1, <1>6, <1>8, <2>2, <3>1
  <2> QED BY <2>1, <2>2
<1>13. Divides(anew)'
  BY <1>10, <1>11, <1>12 DEF Divides
<1> QED BY <1>9, <1>13

\* A call over the budget: the window it is counted in has more.
LEMMA CountsOver ==
  ASSUME Timing, NEW p \in Principal, NEW k, NEW st, NEW n, Counts(p, k, st, n),
         NEW starts, Divides(starts)', now < st + Window, st <= now, st \in Nat
  PROVE  \A j \in counted' : ~j.ok => Cardinality(Within(j.who, j.at - Window + 1)') > MaxCalls
<1>1. /\ counted' = counted \cup {k} /\ now' = now /\ k.who = p /\ k.at = now
      /\ k.ok <=> n <= MaxCalls
      /\ p \in DOMAIN windows' /\ windows'[p].start = st /\ windows'[p].count = n
      /\ n \in Nat
  BY DEF Counts
<1>2. Clocked
  BY DEF Timing
<1>3. Window \in Nat \ {0} /\ MaxCalls \in Nat \ {0} /\ now \in Nat
      /\ \A j \in counted : j.at \in 0..now
  BY <1>2, Numbers
<1>4. IsFiniteSet(counted')
  BY <1>1, <1>2, FS_AddElement DEF Clocked
<1>5. ASSUME NEW j \in counted, ~j.ok
      PROVE  Cardinality(Within(j.who, j.at - Window + 1)') > MaxCalls
  <2>1. Cardinality(Within(j.who, j.at - Window + 1)) > MaxCalls
    BY <1>5 DEF Timing
  <2>2. Within(j.who, j.at - Window + 1) \subseteq Within(j.who, j.at - Window + 1)'
    BY <1>1 DEF Within
  <2>3. Within(j.who, j.at - Window + 1)' \subseteq counted'
    BY DEF Within
  <2>4. IsFiniteSet(Within(j.who, j.at - Window + 1)')
    BY <1>4, <2>3, FS_Subset
  <2>5. Cardinality(Within(j.who, j.at - Window + 1))
          <= Cardinality(Within(j.who, j.at - Window + 1)')
    BY <2>2, <2>4, FS_Subset
  <2>6. /\ Cardinality(Within(j.who, j.at - Window + 1)) \in Nat
        /\ Cardinality(Within(j.who, j.at - Window + 1)') \in Nat
    BY <2>2, <2>4, FS_Subset, FS_CardinalityType
  <2> QED BY <1>3, <2>1, <2>5, <2>6
<1>6. ASSUME ~k.ok
      PROVE  Cardinality(Within(p, now - Window + 1)') > MaxCalls
  <2>1. n > MaxCalls
    BY <1>1, <1>3, <1>6
  <2>2. n = Cardinality(Within(p, st)')
    <3>1. (windows[p].count = Cardinality(Within(p, windows[p].start)))'
      BY <1>1 DEF Divides
    <3>2. Within(p, windows[p].start)' = Within(p, st)'
      BY <1>1 DEF Within
    <3> QED BY <1>1, <3>1, <3>2
  <2>3. Within(p, st)' \subseteq Within(p, now - Window + 1)'
    <3>1. SUFFICES ASSUME NEW j \in Within(p, st)'
                   PROVE  j \in Within(p, now - Window + 1)'
      OBVIOUS
    <3>2. j \in counted' /\ j.who = p /\ j.at \in st..(st + Window - 1)
      BY <3>1 DEF Within
    <3>3. j.at \in 0..now
      BY <1>1, <1>3, <3>2
    <3>4. j.at \in (now - Window + 1)..(now - Window + 1 + Window - 1)
      BY <1>3, <3>2, <3>3
    <3> QED BY <1>1, <3>2, <3>4 DEF Within
  <2>4. Within(p, now - Window + 1)' \subseteq counted'
    BY DEF Within
  <2>5. IsFiniteSet(Within(p, now - Window + 1)')
    BY <1>4, <2>4, FS_Subset
  <2>6. Cardinality(Within(p, st)') <= Cardinality(Within(p, now - Window + 1)')
        /\ Cardinality(Within(p, st)') \in Nat /\ Cardinality(Within(p, now - Window + 1)') \in Nat
    BY <2>3, <2>5, FS_Subset, FS_CardinalityType
  <2> QED BY <1>3, <2>1, <2>2, <2>6
<1> QED BY <1>1, <1>5, <1>6

\* The sweep keeps up with the calls.
LEMMA CountSwift ==
  ASSUME Timing, NEW w \in work, Count(w),
         NEW p \in Principal, NEW k, NEW st, NEW n, Counts(p, k, st, n), now < st + Window,
         st \in Nat
  PROVE  Swift' /\ lastSweep' \in 0..now
<1>1. /\ counted' = counted \cup {k} /\ k.at = now
      /\ DOMAIN windows' = DOMAIN Swept \cup {p} /\ windows'[p].start = st
      /\ \A q \in DOMAIN Swept : q # p => windows'[q] = windows[q]
  BY DEF Counts
<1>2. Clocked /\ Swift
  BY DEF Timing
<1>3. /\ Window \in Nat \ {0} /\ now \in Nat /\ lastSweep \in 0..now
      /\ \A q \in DOMAIN windows : windows[q].start \in 0..now
      /\ \A j \in counted : j.at \in 0..now
  BY <1>2, Numbers DEF Clocked
<1>4. lastSweep' = IF SweepDue THEN now ELSE lastSweep
  BY DEF Count
<1>5. CASE SweepDue
  <2>1. \A q \in DOMAIN Swept : now < windows[q].start + Window /\ windows[q].start \in 0..now
    BY <1>2, <1>3, <1>5, SweptIs
  <2>2. \A q \in DOMAIN windows' : lastSweep' - windows'[q].start < Window
    BY <1>1, <1>3, <1>4, <1>5, <2>1
  <2>3. \A j \in counted' : j.at - lastSweep' < Window
    BY <1>1, <1>3, <1>4, <1>5
  <2> QED BY <1>3, <1>4, <1>5, <2>2, <2>3 DEF Swift
<1>6. CASE ~SweepDue
  <2>1. now - lastSweep < Window /\ lastSweep' = lastSweep
    BY <1>3, <1>4, <1>6 DEF SweepDue
  <2>2. \A q \in DOMAIN windows' : lastSweep' - windows'[q].start < Window
    <3>1. SUFFICES ASSUME NEW q \in DOMAIN windows'
                   PROVE  lastSweep' - windows'[q].start < Window
      OBVIOUS
    <3>2. CASE q = p
      BY <1>1, <1>3, <2>1, <3>2
    <3>3. CASE q # p
      BY <1>1, <1>2, <2>1, <3>3, SweptIs DEF Swift
    <3> QED BY <3>2, <3>3
  <2>3. \A j \in counted' : j.at - lastSweep' < Window
    BY <1>1, <1>2, <2>1 DEF Swift
  <2> QED BY <1>3, <2>1, <2>2, <2>3 DEF Swift
<1> QED BY <1>5, <1>6

\* Counting a call keeps the windows apart, their counts and the sweep.
LEMMA CountTiming ==
  ASSUME SInv, NEW w \in work, w.at = "verifying", Count(w), now' = now
  PROVE  Timing'
<1>1. Timing /\ Clocked
  BY DEF SInv, Timing
<1>0. PICK p \in Principal : \E k, st, n :
        /\ Counts(p, k, st, n)
        /\ \/ p \in DOMAIN windows /\ now < windows[p].start + Window
              /\ st = windows[p].start /\ n = windows[p].count + 1
           \/ (p \in DOMAIN windows => windows[p].start + Window <= now)
              /\ st = now /\ n = 1
  BY CountIs
<1>2. PICK k, st, n :
        /\ Counts(p, k, st, n)
        /\ \/ p \in DOMAIN windows /\ now < windows[p].start + Window
              /\ st = windows[p].start /\ n = windows[p].count + 1
           \/ (p \in DOMAIN windows => windows[p].start + Window <= now)
              /\ st = now /\ n = 1
  BY <1>0
<1>3. Window \in Nat \ {0} /\ now \in Nat
      /\ \A q \in DOMAIN windows : windows[q].start \in 0..now
  BY <1>1, Numbers
<1>4. now < st + Window /\ st <= now /\ st \in Nat
  BY <1>2, <1>3
<1>5. PICK starts \in Starts : Divides(starts)
  BY <1>1 DEF Timing
<1>6. \E anew \in Starts' : Divides(anew)'
  BY <1>1, <1>2, <1>5, CountsOn, CountsAnew
<1>7. PICK anew \in Starts' : Divides(anew)'
  BY <1>6
<1>8. \A j \in counted' : ~j.ok => Cardinality(Within(j.who, j.at - Window + 1)') > MaxCalls
  BY <1>1, <1>2, <1>4, <1>5, <1>7, CountsOver
<1>9. Swift' /\ lastSweep' \in 0..now
  BY <1>1, <1>2, <1>4, CountSwift
<1>10. Clocked'
  <2>1. /\ counted' = counted \cup {k} /\ now' = now
        /\ k \in [who : {p}, at : {now}, ok : BOOLEAN, call : Call]
        /\ DOMAIN windows' = DOMAIN Swept \cup {p}
        /\ windows'[p] \in [start : 0..now, count : Nat \ {0}]
        /\ \A q \in DOMAIN Swept : q # p => windows'[q] = windows[q]
    BY <1>2 DEF Counts
  <2>2. /\ IsFiniteSet(counted)
        /\ counted \subseteq [who : Principal, at : 0..now, ok : BOOLEAN, call : Call]
        /\ DOMAIN windows \subseteq Principal
        /\ \A q \in DOMAIN windows : windows[q] \in [start : 0..now, count : Nat \ {0}]
    BY <1>1 DEF Clocked
  <2>3. DOMAIN Swept \subseteq DOMAIN windows
    BY <1>1, SweptIs
  <2>4. IsFiniteSet(counted')
    BY <2>1, <2>2, FS_AddElement
  <2>5. counted' \subseteq [who : Principal, at : 0..now, ok : BOOLEAN, call : Call]
    <3>1. k \in [who : Principal, at : 0..now, ok : BOOLEAN, call : Call]
      BY <1>3, <2>1
    <3> QED BY <2>1, <2>2, <3>1
  <2>6. DOMAIN windows' \subseteq Principal
    BY <2>1, <2>2, <2>3
  <2>7. \A q \in DOMAIN windows' : windows'[q] \in [start : 0..now, count : Nat \ {0}]
    BY <2>1, <2>2, <2>3
  <2> QED BY <1>3, <1>9, <2>1, <2>4, <2>5, <2>6, <2>7 DEF Clocked
<1>11. (\A j \in counted : ~j.ok => Cardinality(Within(j.who, j.at - Window + 1)) > MaxCalls)'
  BY <1>8
<1> QED BY <1>7, <1>9, <1>10, <1>11 DEF Timing

\* The clock only makes windows expire.
LEMMA TickTiming ==
  ASSUME SInv, Tick
  PROVE  Timing'
<1>1. now' = now + 1 /\ UNCHANGED <<windows, lastSweep, counted>>
  BY DEF Tick, monitor, budget
<1>2. Clocked /\ Swift
  BY DEF SInv, Timing
<1>3. /\ now \in Nat /\ lastSweep \in 0..now /\ DOMAIN windows \subseteq Principal
      /\ \A p \in DOMAIN windows : windows[p] \in [start : 0..now, count : Nat \ {0}]
      /\ IsFiniteSet(counted)
      /\ counted \subseteq [who : Principal, at : 0..now, ok : BOOLEAN, call : Call]
  BY <1>2 DEF Clocked
<1>4. 0..now \subseteq 0..(now + 1) /\ now + 1 \in Nat
  BY <1>3
<1>5. counted \subseteq [who : Principal, at : 0..(now + 1), ok : BOOLEAN, call : Call]
  BY <1>3, <1>4
<1>6. \A p \in DOMAIN windows : windows[p] \in [start : 0..(now + 1), count : Nat \ {0}]
  BY <1>3, <1>4
<1>7. Clocked'
  BY <1>1, <1>3, <1>4, <1>5, <1>6 DEF Clocked
<1>8. Swift'
  BY <1>1, <1>2 DEF Swift
<1>9. PICK starts \in Starts : Divides(starts)
  BY DEF SInv, Timing
<1>10. \A p, s : Within(p, s)' = Within(p, s) /\ Admitted(p, s)' = Admitted(p, s)
  <2>1. \A p, s : Within(p, s)' = Within(p, s)
    BY <1>1 DEF Within
  <2> QED BY <2>1 DEF Admitted
<1>11. \A p \in Principal : \A s \in starts[p] :
         IF p \in DOMAIN windows THEN s <= windows[p].start ELSE s + Window <= now + 1
  <2>1. SUFFICES ASSUME NEW p \in Principal, NEW s \in starts[p]
                 PROVE  IF p \in DOMAIN windows THEN s <= windows[p].start
                                                ELSE s + Window <= now + 1
    OBVIOUS
  <2>2. IF p \in DOMAIN windows THEN s <= windows[p].start ELSE s + Window <= now
    BY <1>9 DEF Divides
  <2>3. s \in Nat /\ Window \in Nat /\ now \in Nat
    BY <1>2, <1>9, Numbers
  <2> QED BY <2>2, <2>3
<1>12. Divides(starts)'
  <2>1. (\A k \in counted : \E s \in starts[k.who] : k.at \in s..(s + Window - 1))'
    BY <1>1, <1>9 DEF Divides
  <2>2. (\A p \in Principal : \A s \in starts[p] :
           /\ \E k \in counted : k.who = p /\ k.at = s
           /\ \A t \in starts[p] : s < t => s + Window <= t
           /\ Admitted(p, s) <= MaxCalls
           /\ IF p \in DOMAIN windows THEN s <= windows[p].start ELSE s + Window <= now)'
    BY <1>1, <1>9, <1>10, <1>11 DEF Divides
  <2>3. (\A p \in DOMAIN windows :
           /\ windows[p].start \in starts[p]
           /\ windows[p].count = Cardinality(Within(p, windows[p].start)))'
    BY <1>1, <1>9 DEF Divides, Within
  <2> QED BY <2>1, <2>2, <2>3 DEF Divides
<1>13. starts \in Starts'
  BY <1>1, <1>9 DEF Starts
<1>14. (\A k \in counted : ~k.ok => Cardinality(Within(k.who, k.at - Window + 1)) > MaxCalls)'
  BY <1>1 DEF SInv, Timing, Within
<1> QED BY <1>7, <1>8, <1>12, <1>13, <1>14 DEF Timing

\* The other steps leave the budget and the clock alone.
LEMMA TimingStays ==
  ASSUME SInv, UNCHANGED <<budget, now>>
  PROVE  Timing'
<1>1. UNCHANGED <<windows, lastSweep, counted, now>>
  BY DEF budget
<1>2. Clocked' /\ Swift'
  BY <1>1 DEF SInv, Timing, Clocked, Swift
<1>3. \A p, s : Within(p, s)' = Within(p, s) /\ Admitted(p, s)' = Admitted(p, s)
  BY <1>1 DEF Within, Admitted
<1>4. PICK starts \in Starts : Divides(starts)
  BY DEF SInv, Timing
<1>5. starts \in Starts'
  BY <1>1, <1>4 DEF Starts
<1>6. Divides(starts)'
  BY <1>1, <1>3, <1>4 DEF Divides, Within
<1>7. (\A k \in counted : ~k.ok => Cardinality(Within(k.who, k.at - Window + 1)) > MaxCalls)'
  BY <1>1 DEF SInv, Timing, Within
<1> QED BY <1>2, <1>5, <1>6, <1>7 DEF Timing

\* A span of the clock that is as long as a window meets two windows at most.
LEMMA TwoWindows ==
  ASSUME Clocked, NEW starts \in Starts, Divides(starts), NEW k \in counted
  PROVE  \E s, t \in starts[k.who] :
           Within(k.who, k.at) \subseteq Within(k.who, s) \cup Within(k.who, t)
<1>1. PICK p : p = k.who
  OBVIOUS
<1>2. Window \in Nat \ {0} /\ p \in Principal /\ k.at \in Nat
      /\ \A s \in starts[p] : s \in Nat
      /\ \A j \in counted : j.at \in Nat
  BY <1>1, Numbers
<1>3. PICK s \in starts[p] : k.at \in s..(s + Window - 1)
  BY <1>1 DEF Divides
<1>4. CASE Within(p, k.at) \subseteq Within(p, s)
  BY <1>1, <1>4
<1>5. CASE ~(Within(p, k.at) \subseteq Within(p, s))
  <2>1. PICK i \in Within(p, k.at) : i \notin Within(p, s)
    BY <1>5
  <2>2. i \in counted /\ i.who = p /\ i.at \in k.at..(k.at + Window - 1)
    BY <2>1 DEF Within
  <2>3. PICK t \in starts[p] : i.at \in t..(t + Window - 1)
    BY <2>2 DEF Divides
  <2>4. i.at \notin s..(s + Window - 1)
    BY <2>1, <2>2 DEF Within
  <2>5. s < t /\ s + Window <= t
    <3>1. s < t
      BY <1>2, <1>3, <2>2, <2>3, <2>4
    <3> QED BY <1>2, <3>1 DEF Divides
  <2>6. SUFFICES ASSUME NEW j \in Within(p, k.at), j \notin Within(p, s)
                 PROVE  j \in Within(p, t)
    BY <1>1
  <2>7. j \in counted /\ j.who = p /\ j.at \in k.at..(k.at + Window - 1)
    BY <2>6 DEF Within
  <2>8. PICK u \in starts[p] : j.at \in u..(u + Window - 1)
    BY <2>7 DEF Divides
  <2>9. j.at \notin s..(s + Window - 1)
    BY <2>6, <2>7 DEF Within
  <2>10. s < u
    BY <1>2, <1>3, <2>7, <2>8, <2>9
  <2>11. /\ s + Window <= u
         /\ t < u => t + Window <= u
         /\ u < t => u + Window <= t
    BY <1>2, <2>10 DEF Divides
  <2>12. t = u
    BY <1>2, <1>3, <2>2, <2>3, <2>5, <2>7, <2>8, <2>11
  <2> QED BY <2>7, <2>8, <2>12 DEF Within
<1> QED BY <1>4, <1>5

\* The budget from the windows.
LEMMA TimingBudget ==
  ASSUME Timing
  PROVE  Budget
<1>1. SUFFICES ASSUME NEW k \in counted
               PROVE  /\ Admitted(k.who, k.at) <= 2 * MaxCalls
                      /\ Quiet(k) => Admitted(k.who, k.at) <= MaxCalls
                      /\ ~k.ok => Cardinality(Within(k.who, k.at - Window + 1)) > MaxCalls
  BY DEF Budget
<1>2. Clocked /\ IsFiniteSet(counted)
  BY DEF Timing, Clocked
<1>3. PICK starts \in Starts : Divides(starts)
  BY DEF Timing
<1>4. /\ Window \in Nat \ {0} /\ MaxCalls \in Nat \ {0} /\ k.at \in Nat /\ k.who \in Principal
      /\ \A s \in starts[k.who] : s \in Nat
  BY <1>2, Numbers
<1>5. \A s \in starts[k.who] : Admitted(k.who, s) <= MaxCalls
  BY <1>3, <1>4 DEF Divides
<1>6. Admitted(k.who, k.at) <= 2 * MaxCalls
  <2>1. PICK s, t \in starts[k.who] :
               Within(k.who, k.at) \subseteq Within(k.who, s) \cup Within(k.who, t)
    BY <1>2, <1>3, TwoWindows
  <2> DEFINE A == {j \in Within(k.who, s) : j.ok}
             B == {j \in Within(k.who, t) : j.ok}
             C == {j \in Within(k.who, k.at) : j.ok}
  <2>2. IsFiniteSet(A) /\ IsFiniteSet(B)
    BY <1>2, WithinFinite
  <2>3. C \subseteq A \cup B
    BY <2>1
  <2>4. Cardinality(A) <= MaxCalls /\ Cardinality(B) <= MaxCalls
    BY <1>5 DEF Admitted
  <2> HIDE DEF A, B, C
  <2>5. /\ IsFiniteSet(A \cup B)
        /\ Cardinality(A \cup B) = Cardinality(A) + Cardinality(B) - Cardinality(A \cap B)
    BY <2>2, FS_Union
  <2>6. IsFiniteSet(A \cap B)
    BY <2>2, FS_Subset
  <2>7. IsFiniteSet(C) /\ Cardinality(C) <= Cardinality(A \cup B)
    BY <2>3, <2>5, FS_Subset
  <2>8. /\ Cardinality(A) \in Nat /\ Cardinality(B) \in Nat /\ Cardinality(A \cap B) \in Nat
        /\ Cardinality(C) \in Nat
    BY <2>2, <2>6, <2>7, FS_CardinalityType
  <2>9. Cardinality(C) <= 2 * MaxCalls
    BY <1>4, <2>4, <2>5, <2>7, <2>8
  <2> QED BY <2>9 DEF Admitted, C
<1>7. ASSUME Quiet(k)
      PROVE  Admitted(k.who, k.at) <= MaxCalls
  <2>1. PICK s \in starts[k.who] : k.at \in s..(s + Window - 1)
    BY <1>3 DEF Divides
  <2>2. PICK j \in counted : j.who = k.who /\ j.at = s
    BY <1>3, <1>4 DEF Divides
  <2>3. s \notin (k.at - Window + 1)..(k.at - 1)
    BY <1>7, <2>2 DEF Quiet
  <2>4. s = k.at
    BY <1>4, <2>1, <2>3
  <2> QED BY <1>5, <2>4
<1> QED BY <1>6, <1>7 DEF Timing

\* The size of the map of windows from the sweep.
LEMMA TimingBounded ==
  ASSUME Timing
  PROVE  WindowsBounded
<1>1. SUFFICES ASSUME NEW k \in counted, NEW p \in DOMAIN windows
               PROVE  k.at - windows[p].start < 2 * Window
  BY DEF WindowsBounded
<1>2. /\ Window \in Nat \ {0} /\ k.at \in Nat /\ windows[p].start \in Nat
      /\ lastSweep \in Nat
  BY Numbers DEF Timing, Clocked
<1>3. lastSweep - windows[p].start < Window /\ k.at - lastSweep < Window
  BY DEF Timing, Swift
<1> QED BY <1>2, <1>3

-----------------------------------------------------------------------------
(* The steps of the browser and of a request.                              *)

\* A step that leaves the sidecar and the monitor alone.
Outside == UNCHANGED <<setting, server, toChild, toParent, alive, monitor, now>>

\* What the calls came to, as the browser has it, is still explained.
RepliesHonest == \A b \in batches : \A i \in DOMAIN b.reply : Honest(b.calls[i], b.reply[i])
Explained(c) == \/ Honest(c, result[c])
                \/ result[c] = Error("closed") /\ ~open
                \/ result[c] = Error("no reply")

\* Such a step has to keep the queues and requests apart, post nothing twice and explain results.
LEMMA OutsideKeeps ==
  ASSUME SInv, Outside, Browsing', issued \subseteq issued',
         \A c \in Posted : ~Unposted(c)',
         open' \in BOOLEAN, RepliesHonest', \A c \in DOMAIN result' : Explained(c)'
  PROVE  SInv'
<1>1. UNCHANGED <<setting, pending, nextId, verdict, exited, toChild, toParent, alive,
                  work, windows, lastSweep, counted, audit, now>>
  BY DEF Outside, server, monitor, budget
<1>2. Posted' = Posted
  BY <1>1 DEF Posted
<1>3. Posting'
  BY <1>1, <1>2 DEF SInv, Posting
<1>4. Judging'
  <2>1. \A p : PostTrue(p)' = PostTrue(p)
    BY <1>1, <1>2 DEF PostTrue, Who
  <2>2. PostsTrue'
    BY <1>1, <2>1 DEF SInv, Judging, PostsTrue
  <2>3. PostsOnce'
    BY <1>1 DEF SInv, Judging, PostsOnce
  <2>4. AuditTrue'
    BY <1>1, <1>2 DEF SInv, Judging, AuditTrue, Who
  <2>5. CountedTrue'
    BY <1>1, <1>2 DEF SInv, Judging, CountedTrue, Who
  <2> QED BY <2>2, <2>3, <2>4, <2>5 DEF Judging
<1>5. Telling'
  <2>1. \A c, res : Honest(c, res)' = Honest(c, res) /\ Audited(c, res)' = Audited(c, res)
    BY <1>1 DEF Honest, Audited
  <2>2. \A c \in DOMAIN verdict : Honest(c, verdict[c])
    BY DEF SInv, Telling
  <2>3. (\A c \in DOMAIN verdict : Honest(c, verdict[c]))'
    BY <1>1, <2>1, <2>2
  <2>4. (\A i \in DOMAIN toParent :
           toParent[i].id \in DOMAIN pending => Audited(pending[toParent[i].id], toParent[i].res))'
    BY <1>1, <2>1 DEF SInv, Telling
  <2>5. /\ exited' \in BOOLEAN /\ alive' \in BOOLEAN /\ (exited' => ~alive')
        /\ alive' \/ work' = {}
        /\ toParent' \in Seq([id : 1..(nextId' - 1), res : Heard])
    BY <1>1 DEF SInv, Telling
  <2> QED BY <2>3, <2>4, <2>5 DEF Telling, RepliesHonest, Explained
<1>6. Timing'
  BY <1>1, TimingStays DEF budget
<1> QED BY <1>3, <1>4, <1>5, <1>6 DEF SInv

\* What was honest stays so, in a step that leaves the monitor alone.
LEMMA OutsideHonest ==
  ASSUME Outside
  PROVE  \A c, res : Honest(c, res)' <=> Honest(c, res)
<1>1. UNCHANGED <<audit, alive>>
  BY DEF Outside, monitor
<1> QED BY <1>1 DEF Honest, Audited

\* The range of a longer sequence.
LEMMA RangeAppend ==
  ASSUME NEW S, NEW q \in Seq(S), NEW x
  PROVE  Range(Append(q, x)) = Range(q) \cup {x}
<1>1. DOMAIN Append(q, x) = 1..(Len(q) + 1) /\ DOMAIN q = 1..Len(q) /\ Len(q) \in Nat
  OBVIOUS
<1>2. \A i \in 1..Len(q) : Append(q, x)[i] = q[i]
  OBVIOUS
<1>3. Append(q, x)[Len(q) + 1] = x
  OBVIOUS
<1>4. 1..(Len(q) + 1) = 1..Len(q) \cup {Len(q) + 1}
  BY <1>1
<1> QED BY <1>1, <1>2, <1>3, <1>4 DEF Range

\* The elements of a sequence.
LEMMA RangeIn ==
  ASSUME NEW S, NEW q \in Seq(S)
  PROVE  Range(q) \subseteq S /\ \A i \in DOMAIN q : q[i] \in S /\ q[i] \in Range(q)
BY DEF Range

\* The settings are well formed.
LEMMA SettingIs ==
  ASSUME Browsing
  PROVE  /\ setting.calls \subseteq Call
         /\ \A c \in Call : Key(c) \in Route /\ Who(c) \in Principal
<1>1. setting \in [calls : SUBSET Call, route : [Call -> Route],
                   bearer : [Route -> Principal],
                   faults : SUBSET {"close", "exit", "no host", "throw"}, until : Nat]
  BY ServiceAssumption DEF Browsing
<1> QED BY <1>1 DEF Key, Who

\* What is queued has been issued.
LEMMA QueuedIssued ==
  ASSUME Browsing
  PROVE  Queued \subseteq issued /\ \A r \in Route : Range(queues[r]) \subseteq Queued
<1>1. \A r \in Route : queues[r] \in Seq(issued)
  BY DEF Browsing, QueuesApart
<1> QED BY <1>1, RangeIn DEF Queued

\* The outcomes that are not the monitor's.
LEMMA ErrorsDiffer ==
  /\ Error("closed") # Error("no reply") /\ Error("exited") # Error("no reply")
  /\ Error("closed") # Error("exited")
  /\ \A why \in {"closed", "no reply", "exited"} : Error(why) \notin Heard
<1>1. \A v, w : Error(v) = Error(w) => v = w
  <2>1. \A v : Error(v).by = v
    BY DEF Error
  <2> QED BY <2>1
<1>2. \A why, c : Error(why) # Yields(c)
  <2>1. \A why, c : ~Error(why).ok /\ Yields(c).ok
    BY DEF Error, Yields
  <2> QED BY <2>1
<1> QED BY <1>1, <1>2 DEF Heard

\* A request joins the queue of its payload.
LEMMA IssueKeeps ==
  ASSUME SInv, NEW c \in Call, Issue(c)
  PROVE  SInv'
<1>1. /\ issued' = issued \cup {c} /\ c \notin issued
      /\ queues' = [queues EXCEPT ![Key(c)] = Append(@, c)]
      /\ UNCHANGED <<setting, result, open, batches>> /\ Outside
  BY DEF Issue, Outside
<1>2. Browsing
  BY DEF SInv
<1>3. /\ queues \in [Route -> Seq(issued)] /\ Key(c) \in Route
      /\ \A r \in Route : Distinct(queues[r]) /\ \A i \in DOMAIN queues[r] : Key(queues[r][i]) = r
      /\ Queued \cap DOMAIN result = {}
  BY <1>2, SettingIs DEF Browsing, QueuesApart
<1>4. Seq(issued) \subseteq Seq(issued')
  BY <1>1
<1>5. queues' \in [Route -> Seq(issued')]
  BY <1>1, <1>3, <1>4
<1>6. \A r \in Route : r # Key(c) => queues'[r] = queues[r]
  BY <1>1, <1>3
<1>7. PICK q \in Seq(issued) : q = queues[Key(c)]
  BY <1>3
<1>8. queues'[Key(c)] = Append(q, c)
  BY <1>1, <1>3, <1>7
<1>9. Range(Append(q, c)) = Range(q) \cup {c} /\ c \notin Range(q)
  BY <1>1, RangeAppend, RangeIn
<1>10. Queued' = Queued \cup {c}
  <2>1. /\ \A r \in Route : r # Key(c) => Range(queues'[r]) = Range(queues[r])
        /\ Range(queues'[Key(c)]) = Range(queues[Key(c)]) \cup {c}
    BY <1>6, <1>7, <1>8, <1>9
  <2>2. \A x : x \in Queued' <=> \E r \in Route : x \in Range(queues'[r])
    BY DEF Queued
  <2>3. \A x : x \in Queued <=> \E r \in Route : x \in Range(queues[r])
    BY DEF Queued
  <2>4. \A x : x \in Queued' <=> x \in Queued \/ x = c
    BY <1>3, <2>1, <2>2, <2>3
  <2> QED BY <2>4
<1>11. Distinct(Append(q, c))
  <2>1. Distinct(q) /\ \A i \in DOMAIN q : q[i] # c
    BY <1>3, <1>7, <1>9, RangeIn
  <2> QED BY <2>1 DEF Distinct
<1>12. \A x : Key(x)' = Key(x)
  BY <1>1 DEF Key
<1>13. \A i \in DOMAIN Append(q, c) : Key(Append(q, c)[i]) = Key(c)
  <2>1. \A i \in DOMAIN q : Key(q[i]) = Key(c)
    BY <1>3, <1>7
  <2> QED BY <2>1
<1>14. QueuesApart'
  <2>1. \A r \in Route : Distinct(queues'[r])
    BY <1>3, <1>6, <1>8, <1>11
  <2>2. \A r \in Route : \A i \in DOMAIN queues'[r] : Key(queues'[r][i]) = r
    BY <1>3, <1>6, <1>8, <1>13
  <2>3. Queued' \cap DOMAIN result' = {}
    BY <1>1, <1>2, <1>3, <1>10 DEF Browsing
  <2> QED BY <1>5, <1>12, <2>1, <2>2, <2>3 DEF QueuesApart
<1>15. ASSUME NEW b \in batches
       PROVE  Request(b)'
  <2>1. Request(b)
    BY <1>2, <1>15 DEF Browsing, RequestsApart
  <2>2. b.calls \in Seq(issued)
    BY <2>1 DEF Request
  <2>3. c \notin Range(b.calls)
    BY <1>1, <2>2, RangeIn
  <2>4. b \in [calls : Seq(issued'), at : {"wire", "served", "answered"}, reply : Seq(Res)]
    BY <1>4, <2>1 DEF Request
  <2> QED BY <1>1, <1>10, <1>12, <2>1, <2>3, <2>4 DEF Request
<1>16. RequestsApart'
  BY <1>1, <1>2, <1>15 DEF Browsing, RequestsApart
<1>17. Browsing'
  BY <1>1, <1>2, <1>14, <1>16 DEF Browsing
<1>18. \A x \in Posted : ~Unposted(x)'
  <2>1. \A x \in Posted : ~Unposted(x) /\ x # c
    BY <1>1 DEF SInv, Posting
  <2> QED BY <1>1, <1>10, <2>1 DEF Unposted
<1>19. RepliesHonest' /\ \A x \in DOMAIN result' : Explained(x)'
  <2>1. RepliesHonest /\ \A x \in DOMAIN result : Explained(x)
    BY DEF SInv, Telling, RepliesHonest, Explained
  <2> QED BY <1>1, <2>1, OutsideHonest DEF RepliesHonest, Explained
<1>20. open' \in BOOLEAN
  BY <1>1 DEF SInv, Telling
<1> QED BY <1>1, <1>17, <1>18, <1>19, <1>20, OutsideKeeps

\* The turn ends on a live connection: every queue becomes a request.
LEMMA FlushKeeps ==
  ASSUME SInv, Flush, open
  PROVE  SInv'
<1> DEFINE full == {r \in Route : queues[r] # <<>>}
           Made(r) == [calls |-> queues[r], at |-> "wire", reply |-> <<>>]
<1>1. /\ queues' = [r \in Route |-> <<>>]
      /\ batches' = batches \cup {Made(r) : r \in full}
      /\ UNCHANGED <<setting, issued, result, open>> /\ Outside
  BY DEF Flush, Outside
<1>2. Browsing
  BY DEF SInv
<1>3. /\ \A r \in Route : /\ queues[r] \in Seq(issued) /\ Distinct(queues[r])
                          /\ \A i \in DOMAIN queues[r] : Key(queues[r][i]) = r
      /\ Queued \cap DOMAIN result = {}
      /\ \A r \in Route : Range(queues[r]) \subseteq Queued
  BY <1>2, QueuedIssued DEF Browsing, QueuesApart
<1>4. \A r \in Route : queues'[r] = <<>> /\ Range(queues'[r]) = {}
  BY <1>1 DEF Range
<1>5. Queued' = {}
  BY <1>4 DEF Queued
<1>6. \A x : Key(x)' = Key(x)
  BY <1>1 DEF Key
<1>7. QueuesApart'
  <2>1. queues' \in [Route -> Seq(issued')]
    BY <1>1
  <2>2. \A r \in Route : Distinct(queues'[r]) /\ \A i \in DOMAIN queues'[r] : Key(queues'[r][i]) = r
    BY <1>4 DEF Distinct
  <2> QED BY <1>5, <1>6, <2>1, <2>2 DEF QueuesApart
<1>8. \A r \in full : /\ Made(r).calls = queues[r] /\ Made(r).at = "wire" /\ Made(r).reply = <<>>
                      /\ queues[r] # <<>> /\ r \in Route
  OBVIOUS
<1>9. \A r \in full :
        Made(r) \in [calls : Seq(issued), at : {"wire", "served", "answered"}, reply : Seq(Res)]
  BY <1>3
<1> HIDE DEF Made, full
<1>10. ASSUME NEW r \in full, NEW b, b = Made(r)
       PROVE  Request(b)'
  <2>1. \A i \in DOMAIN queues[r] : Key(queues[r][i]) = Key(queues[r][1])
    <3>1. 1 \in DOMAIN queues[r]
      BY <1>3, <1>8
    <3> QED BY <1>3, <1>8, <3>1
  <2>2. Range(Made(r).calls) \cap DOMAIN result = {}
    BY <1>3, <1>8
  <2>3. /\ b \in [calls : Seq(issued'), at : {"wire", "served", "answered"}, reply : Seq(Res)]
        /\ b.calls = queues[r] /\ b.at = "wire" /\ b.reply = <<>>
    BY <1>1, <1>8, <1>9, <1>10
  <2>4. b.calls # <<>> /\ Distinct(b.calls)
    BY <1>3, <1>8, <2>3
  <2>5. (\A i \in DOMAIN b.calls : Key(b.calls[i]) = Key(b.calls[1]))'
    BY <1>6, <2>1, <2>3
  <2>6. Range(b.calls) \cap Queued' = {} /\ Range(b.calls) \cap DOMAIN result' = {}
    BY <1>1, <1>5, <1>10, <2>2
  <2> QED BY <2>3, <2>4, <2>5, <2>6 DEF Request
<1>11. ASSUME NEW b \in batches
       PROVE  Request(b)' /\ Range(b.calls) \cap Queued = {}
  <2>1. Request(b)
    BY <1>2, <1>11 DEF Browsing, RequestsApart
  <2> QED BY <1>1, <1>5, <1>6, <2>1 DEF Request
<1>12. ASSUME NEW a \in batches', NEW b \in batches', Range(a.calls) \cap Range(b.calls) # {}
       PROVE  a = b
  <2>1. PICK c : c \in Range(a.calls) /\ c \in Range(b.calls)
    BY <1>12
  <2>2. CASE a \in batches /\ b \in batches
    BY <1>2, <1>12, <2>2 DEF Browsing, RequestsApart
  <2>3. ASSUME NEW r \in full, NEW z \in batches, c \in Range(Made(r).calls), c \in Range(z.calls)
        PROVE  FALSE
    BY <1>3, <1>8, <1>11, <2>3
  <2>4. ASSUME NEW r \in full, c \in Range(Made(r).calls)
        PROVE  Key(c) = r
    <3>1. c \in Range(queues[r])
      BY <1>8, <2>4
    <3>2. PICK i \in DOMAIN queues[r] : c = queues[r][i]
      BY <3>1, OfRange
    <3> QED BY <1>3, <1>8, <3>2
  <2> QED BY <1>1, <2>1, <2>2, <2>3, <2>4
<1>13. \A b \in batches' : Request(b)'
  <2>1. SUFFICES ASSUME NEW b \in batches', b \notin batches
                 PROVE  Request(b)'
    BY <1>11
  <2>2. PICK r \in full : b = Made(r)
    BY <1>1, <2>1
  <2> QED BY <1>10, <2>2
<1>14. RequestsApart'
  BY <1>12, <1>13 DEF RequestsApart
<1>15. Browsing'
  BY <1>1, <1>2, <1>7, <1>14 DEF Browsing
<1>16. \A x \in Posted : ~Unposted(x)'
  <2>1. SUFFICES ASSUME NEW x \in Posted, Unposted(x)'
                 PROVE  FALSE
    OBVIOUS
  <2>2. ~Unposted(x)
    BY <2>1 DEF SInv, Posting
  <2>3. PICK b \in batches' : x \in Range(b.calls) /\ b.at # "served" /\ b.reply = <<>>
    BY <1>1, <1>5, <2>1, <2>2 DEF Unposted
  <2>4. b \notin batches
    BY <2>2, <2>3 DEF Unposted
  <2>5. PICK r \in full : b = Made(r)
    BY <1>1, <2>4
  <2>6. x \in Queued
    BY <1>3, <1>8, <2>3, <2>5
  <2> QED BY <2>2, <2>6 DEF Unposted
<1>17. RepliesHonest' /\ \A x \in DOMAIN result' : Explained(x)'
  <2>1. RepliesHonest /\ \A x \in DOMAIN result : Explained(x)
    BY DEF SInv, Telling, RepliesHonest, Explained
  <2>2. \A r \in full : DOMAIN Made(r).reply = {}
    BY <1>8
  <2>3. \A x, res : Honest(x, res)' <=> Honest(x, res)
    BY <1>1, OutsideHonest
  <2>4. RepliesHonest'
    BY <1>1, <2>1, <2>2, <2>3 DEF RepliesHonest
  <2>5. \A x \in DOMAIN result' : Explained(x)'
    BY <1>1, <2>1, <2>3 DEF Explained
  <2> QED BY <2>4, <2>5
<1>18. open' \in BOOLEAN
  BY <1>1 DEF SInv, Telling
<1> QED BY <1>1, <1>15, <1>16, <1>17, <1>18, OutsideKeeps

\* The turn ends on a closed connection: every waiter is rejected.
LEMMA FlushClosedKeeps ==
  ASSUME SInv, Flush, ~open
  PROVE  SInv'
<1> DEFINE full == {r \in Route : queues[r] # <<>>}
<1>1. PICK g : /\ g = [c \in UNION {Range(queues[r]) : r \in full} |-> Error("closed")]
               /\ result' = Merged(result, g)
  BY DEF Flush
<1>2. queues' = [r \in Route |-> <<>>] /\ UNCHANGED <<setting, issued, batches, open>> /\ Outside
  BY DEF Flush, Outside
<1>3. Browsing
  BY DEF SInv
<1>4. /\ Queued \subseteq issued /\ Queued \cap DOMAIN result = {}
      /\ \A r \in Route : Range(queues[r]) \subseteq Queued
  BY <1>3, QueuedIssued DEF Browsing, QueuesApart
<1>5. DOMAIN g \subseteq Queued /\ \A c \in DOMAIN g : g[c] = Error("closed")
  BY <1>1, <1>4
<1>6. /\ DOMAIN result' = DOMAIN result \cup DOMAIN g
      /\ \A c \in DOMAIN g : result'[c] = Error("closed")
      /\ \A c \in DOMAIN result \ DOMAIN g : result'[c] = result[c]
  <2>1. \A c \in DOMAIN g : result'[c] = g[c]
    BY <1>1 DEF Merged
  <2>2. DOMAIN result' = DOMAIN result \cup DOMAIN g
    BY <1>1 DEF Merged
  <2>3. \A c \in DOMAIN result \ DOMAIN g : result'[c] = result[c]
    BY <1>1 DEF Merged
  <2> QED BY <1>5, <2>1, <2>2, <2>3
<1>7. \A r \in Route : queues'[r] = <<>> /\ Range(queues'[r]) = {}
  BY <1>2 DEF Range
<1>8. Queued' = {}
  BY <1>7 DEF Queued
<1>9. \A x : Key(x)' = Key(x)
  BY <1>2 DEF Key
<1>10. QueuesApart'
  <2>1. queues' \in [Route -> Seq(issued')]
    BY <1>2
  <2>2. \A r \in Route : Distinct(queues'[r]) /\ \A i \in DOMAIN queues'[r] : Key(queues'[r][i]) = r
    BY <1>7 DEF Distinct
  <2> QED BY <1>8, <1>9, <2>1, <2>2 DEF QueuesApart
<1>11. ASSUME NEW b \in batches
       PROVE  Request(b)'
  <2>1. Request(b)
    BY <1>3 DEF Browsing, RequestsApart
  <2>2. b.at = "wire" => Range(b.calls) \cap DOMAIN result' = {}
    BY <1>5, <1>6, <2>1 DEF Request
  <2> QED BY <1>2, <1>8, <1>9, <2>1, <2>2 DEF Request
<1>12. RequestsApart'
  BY <1>2, <1>3, <1>11 DEF Browsing, RequestsApart
<1>13. Browsing'
  BY <1>2, <1>3, <1>4, <1>5, <1>6, <1>10, <1>12 DEF Browsing
<1>14. \A x \in Posted : ~Unposted(x)'
  <2>1. SUFFICES ASSUME NEW x \in Posted, Unposted(x)'
                 PROVE  FALSE
    OBVIOUS
  <2>2. ~Unposted(x)
    BY <2>1 DEF SInv, Posting
  <2>3. x \in DOMAIN result' /\ result'[x] = Error("no reply")
    BY <1>2, <1>8, <2>1, <2>2 DEF Unposted
  <2>4. x \notin DOMAIN g
    BY <1>6, <2>3, ErrorsDiffer
  <2> QED BY <1>6, <2>2, <2>3, <2>4 DEF Unposted
<1>15. RepliesHonest' /\ \A x \in DOMAIN result' : Explained(x)'
  <2>1. RepliesHonest /\ \A x \in DOMAIN result : Explained(x)
    BY DEF SInv, Telling, RepliesHonest, Explained
  <2>2. \A x, res : Honest(x, res)' <=> Honest(x, res)
    BY <1>2, OutsideHonest
  <2>3. \A x \in DOMAIN g : Explained(x)'
    BY <1>2, <1>6 DEF Explained
  <2>4. \A x \in DOMAIN result \ DOMAIN g : Explained(x)'
    BY <1>2, <1>6, <2>1, <2>2 DEF Explained
  <2> QED BY <1>2, <1>6, <2>1, <2>2, <2>3, <2>4 DEF RepliesHonest
<1>16. open' \in BOOLEAN
  BY <1>2 DEF SInv, Telling
<1> QED BY <1>2, <1>13, <1>14, <1>15, <1>16, OutsideKeeps

\* The reply of request b reaches the waiters.
LEMMA ReplyKeeps ==
  ASSUME SInv, NEW b \in batches, Reply(b)
  PROVE  SInv'
<1>1. PICK g : g = Settled(b) /\ result' = Merged(result, g)
  BY DEF Reply
<1>2. /\ b.at = "answered" /\ batches' = batches \ {b}
      /\ UNCHANGED <<setting, queues, issued, open>> /\ Outside
  BY DEF Reply, Outside
<1>3. Browsing
  BY DEF SInv
<1>4. Request(b)
  BY <1>3 DEF Browsing, RequestsApart
<1>5. /\ b.calls \in Seq(issued) /\ Range(b.calls) \subseteq issued
      /\ Range(b.calls) \cap Queued = {}
  BY <1>4, RangeIn DEF Request
<1>6. DOMAIN g = Range(b.calls)
  BY <1>1 DEF Settled
<1>7. /\ DOMAIN result' = DOMAIN result \cup DOMAIN g
      /\ \A c \in DOMAIN g : result'[c] = g[c]
      /\ \A c \in DOMAIN result \ DOMAIN g : result'[c] = result[c]
  BY <1>1 DEF Merged
<1>8. ASSUME NEW c \in DOMAIN g
      PROVE  \/ b.reply = <<>> /\ g[c] = Error("no reply")
             \/ Honest(c, g[c]) /\ b.reply # <<>>
  <2>1. PICK i : i = CHOOSE j \in DOMAIN b.calls : b.calls[j] = c
    OBVIOUS
  <2>2. i \in DOMAIN b.calls /\ b.calls[i] = c
    BY <1>6, <1>8, <2>1, OfRange
  <2>3. g[c] = Part(b.reply, i)
    BY <1>1, <1>6, <1>8, <2>1 DEF Settled
  <2>4. CASE b.reply = <<>>
    <3>1. i \notin DOMAIN b.reply
      BY <2>4
    <3> QED BY <2>3, <2>4, <3>1 DEF Part
  <2>5. CASE b.reply # <<>>
    <3>1. i \in DOMAIN b.reply
      BY <1>4, <2>2, <2>5 DEF Request
    <3>2. Honest(b.calls[i], b.reply[i])
      BY <3>1 DEF SInv, Telling
    <3> QED BY <2>2, <2>3, <2>5, <3>1, <3>2 DEF Part
  <2> QED BY <2>4, <2>5
<1>9. Queued' = Queued
  BY <1>2 DEF Queued
<1>10. \A x : Key(x)' = Key(x)
  BY <1>2 DEF Key
<1>11. QueuesApart'
  BY <1>2, <1>3, <1>5, <1>6, <1>7, <1>9, <1>10 DEF Browsing, QueuesApart
<1>12. ASSUME NEW a \in batches, a # b
       PROVE  Request(a)'
  <2>1. Request(a) /\ Range(a.calls) \cap Range(b.calls) = {}
    BY <1>3, <1>12 DEF Browsing, RequestsApart
  <2>2. a.at = "wire" => Range(a.calls) \cap DOMAIN result' = {}
    BY <1>6, <1>7, <2>1 DEF Request
  <2> QED BY <1>2, <1>9, <1>10, <2>1, <2>2 DEF Request
<1>13. RequestsApart'
  BY <1>2, <1>3, <1>12 DEF Browsing, RequestsApart
<1>14. Browsing'
  BY <1>2, <1>3, <1>5, <1>6, <1>7, <1>11, <1>13 DEF Browsing
<1>15. \A x \in Posted : ~Unposted(x)'
  <2>1. SUFFICES ASSUME NEW x \in Posted, Unposted(x)'
                 PROVE  FALSE
    OBVIOUS
  <2>2. ~Unposted(x)
    BY <2>1 DEF SInv, Posting
  <2>3. x \in DOMAIN result' /\ result'[x] = Error("no reply")
    BY <1>2, <1>9, <2>1, <2>2 DEF Unposted
  <2>4. x \in DOMAIN g /\ g[x] = Error("no reply")
    BY <1>7, <2>2, <2>3 DEF Unposted
  <2>5. b.reply # <<>> /\ Honest(x, Error("no reply"))
    BY <1>2, <1>6, <1>8, <2>2, <2>4 DEF Unposted
  <2>6. PICK i \in DOMAIN audit[x] : audit[x][i].res = Error("no reply")
    BY <2>5 DEF Honest, Audited, Error
  <2>7. x \in Call
    BY <1>3, <1>5, <1>6, <2>4 DEF Browsing
  <2>8. Error("no reply") \in Heard
    <3> DEFINE Entry == [who : {"nobody"} \cup Principal, res : Heard]
    <3>0. audit[x] \in Seq(Entry)
      BY <2>7 DEF SInv, Judging, AuditTrue
    <3>1. \A e \in Entry : e.res \in Heard
      OBVIOUS
    <3> HIDE DEF Entry
    <3>2. audit[x][i] \in Entry
      BY <2>6, <3>0, RangeIn
    <3> QED BY <2>6, <3>1, <3>2
  <2> QED BY <2>8, ErrorsDiffer
<1>16. RepliesHonest' /\ \A x \in DOMAIN result' : Explained(x)'
  <2>1. RepliesHonest /\ \A x \in DOMAIN result : Explained(x)
    BY DEF SInv, Telling, RepliesHonest, Explained
  <2>2. \A x, res : Honest(x, res)' <=> Honest(x, res)
    BY <1>2, OutsideHonest
  <2>3. \A x \in DOMAIN g : Explained(x)'
    BY <1>7, <1>8, <2>2 DEF Explained
  <2>4. \A x \in DOMAIN result \ DOMAIN g : Explained(x)'
    BY <1>2, <1>7, <2>1, <2>2 DEF Explained
  <2> QED BY <1>2, <1>7, <2>1, <2>2, <2>3, <2>4 DEF RepliesHonest
<1>17. open' \in BOOLEAN
  BY <1>2 DEF SInv, Telling
<1> QED BY <1>2, <1>14, <1>15, <1>16, <1>17, OutsideKeeps

\* The connection drops: the waiters of every request are rejected.
LEMMA CloseKeeps ==
  ASSUME SInv, Close
  PROVE  SInv'
<1>1. PICK g : /\ g = [c \in UNION {Range(b.calls) : b \in batches} |-> Error("closed")]
               /\ result' = Merged(result, g)
  BY DEF Close
<1>2. /\ batches' = {b \in batches : b.at = "served"} /\ open' = FALSE
      /\ UNCHANGED <<setting, queues, issued>> /\ Outside
  BY DEF Close, Outside
<1>3. Browsing
  BY DEF SInv
<1>4. ASSUME NEW b \in batches
      PROVE  /\ Request(b) /\ Range(b.calls) \subseteq issued
             /\ Range(b.calls) \cap Queued = {}
  <2>1. Request(b)
    BY <1>3 DEF Browsing, RequestsApart
  <2>2. b.calls \in Seq(issued) /\ Range(b.calls) \cap Queued = {}
    BY <2>1 DEF Request
  <2> QED BY <2>1, <2>2, RangeIn
<1>5. /\ DOMAIN g \subseteq issued /\ DOMAIN g \cap Queued = {}
      /\ \A c \in DOMAIN g : g[c] = Error("closed")
  BY <1>1, <1>4
<1>6. /\ DOMAIN result' = DOMAIN result \cup DOMAIN g
      /\ \A c \in DOMAIN g : result'[c] = Error("closed")
      /\ \A c \in DOMAIN result \ DOMAIN g : result'[c] = result[c]
  <2>1. \A c \in DOMAIN g : result'[c] = g[c]
    BY <1>1 DEF Merged
  <2>2. DOMAIN result' = DOMAIN result \cup DOMAIN g
    BY <1>1 DEF Merged
  <2>3. \A c \in DOMAIN result \ DOMAIN g : result'[c] = result[c]
    BY <1>1 DEF Merged
  <2> QED BY <1>5, <2>1, <2>2, <2>3
<1>7. Queued' = Queued /\ \A x : Key(x)' = Key(x)
  BY <1>2 DEF Queued, Key
<1>8. QueuesApart'
  BY <1>2, <1>3, <1>5, <1>6, <1>7 DEF Browsing, QueuesApart
<1>9. \A b \in batches : b.at = "served" => Request(b)'
  BY <1>2, <1>4, <1>7 DEF Request
<1>10. RequestsApart'
  BY <1>2, <1>3, <1>9 DEF Browsing, RequestsApart
<1>11. Browsing'
  BY <1>2, <1>3, <1>5, <1>6, <1>8, <1>10 DEF Browsing
<1>12. \A x \in Posted : ~Unposted(x)'
  <2>1. SUFFICES ASSUME NEW x \in Posted, Unposted(x)'
                 PROVE  FALSE
    OBVIOUS
  <2>2. ~Unposted(x)
    BY <2>1 DEF SInv, Posting
  <2>3. x \in DOMAIN result' /\ result'[x] = Error("no reply")
    BY <1>2, <1>7, <2>1, <2>2 DEF Unposted
  <2>4. x \notin DOMAIN g
    BY <1>6, <2>3, ErrorsDiffer
  <2> QED BY <1>6, <2>2, <2>3, <2>4 DEF Unposted
<1>13. RepliesHonest' /\ \A x \in DOMAIN result' : Explained(x)'
  <2>1. RepliesHonest /\ \A x \in DOMAIN result : Explained(x)
    BY DEF SInv, Telling, RepliesHonest, Explained
  <2>2. \A x, res : Honest(x, res)' <=> Honest(x, res)
    BY <1>2, OutsideHonest
  <2>3. \A x \in DOMAIN g : Explained(x)'
    BY <1>2, <1>6 DEF Explained
  <2>4. \A x \in DOMAIN result \ DOMAIN g : Explained(x)'
    BY <1>2, <1>6, <2>1, <2>2 DEF Explained
  <2> QED BY <1>2, <1>6, <2>1, <2>2, <2>3, <2>4 DEF RepliesHonest
<1> QED BY <1>2, <1>11, <1>12, <1>13, OutsideKeeps

\* A request that goes on, or is given up, with the calls it has.
LEMMA RequestMoves ==
  ASSUME Browsing, NEW b \in batches, NEW d, NEW more, more \subseteq {d}, d.calls = b.calls,
         d \in [calls : Seq(issued), at : {"served", "answered"}, reply : Seq(Res)],
         d.reply # <<>> => d.at = "answered" /\ DOMAIN d.reply = DOMAIN b.calls,
         batches' = (batches \ {b}) \cup more,
         UNCHANGED <<setting, queues, issued, result>>
  PROVE  Browsing' /\ Queued' = Queued
<1>1. Queued' = Queued /\ \A x : Key(x)' = Key(x)
  BY DEF Queued, Key
<1>2. \A a \in batches : Request(a) /\ Request(a)'
  <2>1. \A a \in batches : Request(a)
    BY DEF Browsing, RequestsApart
  <2> QED BY <1>1, <2>1 DEF Request
<1>3. Request(d)'
  <2>1. /\ b.calls # <<>> /\ Distinct(b.calls) /\ Range(b.calls) \cap Queued = {}
        /\ \A i \in DOMAIN b.calls : Key(b.calls[i]) = Key(b.calls[1])
    BY <1>2 DEF Request
  <2>2. d \in [calls : Seq(issued'), at : {"wire", "served", "answered"}, reply : Seq(Res)]
        /\ d.at # "wire"
    OBVIOUS
  <2>3. (\A i \in DOMAIN d.calls : Key(d.calls[i]) = Key(d.calls[1]))'
    BY <1>1, <2>1
  <2> QED BY <1>1, <2>1, <2>2, <2>3 DEF Request
<1>4. RequestsApart'
  <2>1. \A a \in batches' : Request(a)'
    BY <1>2, <1>3
  <2>2. \A a, c \in batches : Range(a.calls) \cap Range(c.calls) # {} => a = c
    BY DEF Browsing, RequestsApart
  <2>3. \A a, c \in batches' : Range(a.calls) \cap Range(c.calls) # {} => a = c
    BY <2>2
  <2> QED BY <2>1, <2>3 DEF RequestsApart
<1>5. QueuesApart'
  BY <1>1 DEF Browsing, QueuesApart
<1> QED BY <1>1, <1>4, <1>5 DEF Browsing

\* No host takes the request.
LEMMA NoHostKeeps ==
  ASSUME SInv, NEW b \in batches, NoHost(b)
  PROVE  SInv'
<1>1. PICK d : d = [b EXCEPT !.at = "answered"]
  OBVIOUS
<1>2. /\ b.at = "wire" /\ batches' = (batches \ {b}) \cup {d}
      /\ UNCHANGED <<setting, queues, issued, result, open>> /\ Outside
  BY <1>1 DEF NoHost, Outside, browser
<1>3. Browsing /\ Request(b)
  BY DEF SInv, Browsing, RequestsApart
<1>4. /\ b \in [calls : Seq(issued), at : {"wire", "served", "answered"}, reply : Seq(Res)]
      /\ b.reply = <<>>
  BY <1>2, <1>3 DEF Request
<1>5. /\ d \in [calls : Seq(issued), at : {"served", "answered"}, reply : Seq(Res)]
      /\ d.calls = b.calls /\ d.reply = <<>>
  BY <1>1, <1>4
<1>6. Browsing' /\ Queued' = Queued
  BY <1>2, <1>3, <1>5, RequestMoves
<1>7. \A x \in Posted : ~Unposted(x)'
  <2>1. \A x \in Posted : ~Unposted(x)
    BY DEF SInv, Posting
  <2> QED BY <1>2, <1>4, <1>5, <1>6, <2>1 DEF Unposted
<1>8. RepliesHonest' /\ \A x \in DOMAIN result' : Explained(x)'
  <2>1. RepliesHonest /\ \A x \in DOMAIN result : Explained(x)
    BY DEF SInv, Telling, RepliesHonest, Explained
  <2>2. \A x, res : Honest(x, res)' <=> Honest(x, res)
    BY <1>2, OutsideHonest
  <2>3. DOMAIN d.reply = {}
    BY <1>5
  <2>4. RepliesHonest'
    BY <1>2, <2>1, <2>2, <2>3 DEF RepliesHonest
  <2> QED BY <1>2, <2>1, <2>2, <2>4 DEF Explained
<1>9. open' \in BOOLEAN
  BY <1>2 DEF SInv, Telling
<1> QED BY <1>2, <1>6, <1>7, <1>8, <1>9, OutsideKeeps

\* What is honest is an outcome.
LEMMA HonestRes ==
  ASSUME SInv, NEW c \in Call, NEW res, Honest(c, res)
  PROVE  res \in Res /\ (c \notin Posted => res = Error("exited"))
<1> DEFINE Entry == [who : {"nobody"} \cup Principal, res : Heard]
<1>1. audit[c] \in Seq(Entry) /\ (audit[c] # <<>> => c \in Posted)
  BY DEF SInv, Judging, AuditTrue
<1>2. \A e \in Entry : e.res \in Heard
  OBVIOUS
<1> HIDE DEF Entry
<1>3. Audited(c, res) => res \in Heard /\ c \in Posted
  <2>1. SUFFICES ASSUME NEW i \in DOMAIN audit[c], audit[c][i].res = res
                 PROVE  res \in Heard /\ c \in Posted
    BY DEF Audited
  <2>2. audit[c][i] \in Entry
    BY <1>1, <2>1, RangeIn
  <2>3. audit[c] # <<>>
    BY <2>1
  <2> QED BY <1>1, <1>2, <2>1, <2>2, <2>3
<1>4. Heard \subseteq Res /\ Error("exited") \in Res
  BY DEF Heard, Res
<1> QED BY <1>3, <1>4 DEF Honest

\* The reply of a request whose calls have all settled.
LEMMA AnswerKeeps ==
  ASSUME SInv, NEW b \in batches, Answer(b)
  PROVE  SInv'
<1>1. PICK d : d = [b EXCEPT !.at = "answered",
                             !.reply = [i \in DOMAIN b.calls |-> verdict[b.calls[i]]]]
  OBVIOUS
<1>2. PICK more : more \subseteq {d} /\ batches' = (batches \ {b}) \cup more
  BY <1>1 DEF Answer
<1>3. /\ b.at = "served" /\ Range(b.calls) \subseteq DOMAIN verdict
      /\ UNCHANGED <<setting, queues, issued, result, open>> /\ Outside
  BY DEF Answer, Outside, browser
<1>4. Browsing /\ Request(b)
  BY DEF SInv, Browsing, RequestsApart
<1>5. /\ b \in [calls : Seq(issued), at : {"wire", "served", "answered"}, reply : Seq(Res)]
      /\ b.calls # <<>> /\ b.calls \in Seq(issued)
  BY <1>4 DEF Request
<1>6. /\ d.calls = b.calls /\ d.at = "answered" /\ DOMAIN d = {"calls", "at", "reply"}
      /\ d.reply = [i \in DOMAIN b.calls |-> verdict[b.calls[i]]]
      /\ d = [calls |-> d.calls, at |-> d.at, reply |-> d.reply]
  BY <1>1, <1>5
<1>7. \A i \in DOMAIN b.calls : Honest(b.calls[i], verdict[b.calls[i]])
                                /\ verdict[b.calls[i]] \in Res
  <2>1. SUFFICES ASSUME NEW i \in DOMAIN b.calls
                 PROVE  Honest(b.calls[i], verdict[b.calls[i]]) /\ verdict[b.calls[i]] \in Res
    OBVIOUS
  <2>2. b.calls[i] \in DOMAIN verdict /\ b.calls[i] \in Call
    BY <1>3, <1>4, <1>5, RangeIn DEF Browsing
  <2>3. Honest(b.calls[i], verdict[b.calls[i]])
    BY <2>2 DEF SInv, Telling
  <2> QED BY <2>2, <2>3, HonestRes
<1>8. d.reply \in Seq(Res) /\ DOMAIN d.reply = DOMAIN b.calls
  <2>1. DOMAIN b.calls = 1..Len(b.calls) /\ Len(b.calls) \in Nat
    BY <1>5
  <2>2. d.reply \in [1..Len(b.calls) -> Res]
    BY <1>6, <1>7, <2>1
  <2> QED BY <2>1, <2>2
<1>9. d \in [calls : Seq(issued), at : {"served", "answered"}, reply : Seq(Res)]
  BY <1>5, <1>6, <1>8
<1>10. d.reply # <<>>
  <2>1. 1 \in DOMAIN b.calls
    BY <1>5
  <2> QED BY <1>8, <2>1
<1>11. Browsing' /\ Queued' = Queued
  BY <1>2, <1>3, <1>4, <1>6, <1>8, <1>9, RequestMoves
<1>12. \A x \in Posted : ~Unposted(x)'
  <2>1. \A x \in Posted : ~Unposted(x)
    BY DEF SInv, Posting
  <2> QED BY <1>2, <1>3, <1>10, <1>11, <2>1 DEF Unposted
<1>13. RepliesHonest' /\ \A x \in DOMAIN result' : Explained(x)'
  <2>1. RepliesHonest /\ \A x \in DOMAIN result : Explained(x)
    BY DEF SInv, Telling, RepliesHonest, Explained
  <2>2. \A x, res : Honest(x, res)' <=> Honest(x, res)
    BY <1>3, OutsideHonest
  <2>3. \A i \in DOMAIN d.reply : Honest(d.calls[i], d.reply[i])
    BY <1>6, <1>7
  <2>4. RepliesHonest'
    BY <1>2, <2>1, <2>2, <2>3 DEF RepliesHonest
  <2> QED BY <1>3, <2>1, <2>2, <2>4 DEF Explained
<1>14. open' \in BOOLEAN
  BY <1>3 DEF SInv, Telling
<1> QED BY <1>3, <1>11, <1>12, <1>13, <1>14, OutsideKeeps

-----------------------------------------------------------------------------
(* The sidecar's client.                                                   *)

\* What is in a queue after more was put at its end.
LEMMA Longer ==
  ASSUME NEW S, NEW q \in Seq(S), NEW p \in Seq(S)
  PROVE  /\ q \o p \in Seq(S)
         /\ \A i \in DOMAIN (q \o p) :
              \/ i \in DOMAIN q /\ (q \o p)[i] = q[i]
              \/ i - Len(q) \in DOMAIN p /\ (q \o p)[i] = p[i - Len(q)]
OBVIOUS

\* A request is posted: its calls, each under an id of its own.
Takes(b, d, g, posts) ==
  /\ b.at = "wire" /\ batches' = (batches \ {b}) \cup {d} /\ d = [b EXCEPT !.at = "served"]
  /\ nextId' = nextId + Len(b.calls)
  /\ DOMAIN g = nextId..(nextId + Len(b.calls) - 1)
  /\ \A id \in DOMAIN g : g[id] = b.calls[id - nextId + 1]
  /\ pending' = Merged(pending, g)
  /\ posts = [i \in DOMAIN b.calls |->
                [id |-> nextId + i - 1, call |-> b.calls[i], who |-> Who(b.calls[1])]]
  /\ toChild' = IF alive THEN toChild \o posts ELSE toChild

\* That is what Serve does.
LEMMA ServeIs ==
  ASSUME SInv, NEW b \in batches, Serve(b)
  PROVE  \E d, g, posts : Takes(b, d, g, posts)
<1>1. PICK ids : ids = [i \in DOMAIN b.calls |-> nextId + i - 1]
  OBVIOUS
<1>2. PICK g : g = [id \in Range(ids) |-> b.calls[id - nextId + 1]]
  OBVIOUS
<1>3. PICK posts : posts = [i \in DOMAIN b.calls |->
                              [id |-> ids[i], call |-> b.calls[i], who |-> Who(b.calls[1])]]
  OBVIOUS
<1>4. PICK d : d = [b EXCEPT !.at = "served"]
  OBVIOUS
<1>5. b.calls \in Seq(issued) /\ nextId \in Nat
  BY DEF SInv, Browsing, RequestsApart, Request, Posting
<1>6. DOMAIN b.calls = 1..Len(b.calls) /\ Len(b.calls) \in Nat
  BY <1>5
<1>7. Range(ids) = nextId..(nextId + Len(b.calls) - 1)
  <2>1. \A i \in 1..Len(b.calls) : ids[i] = nextId + i - 1
    BY <1>1, <1>6
  <2>2. \A id \in nextId..(nextId + Len(b.calls) - 1) :
          id - nextId + 1 \in 1..Len(b.calls) /\ ids[id - nextId + 1] = id
    BY <1>5, <1>6, <2>1
  <2>3. DOMAIN ids = 1..Len(b.calls)
    BY <1>1, <1>6
  <2>4. Range(ids) = {ids[i] : i \in 1..Len(b.calls)}
    BY <2>3 DEF Range
  <2>5. \A id \in Range(ids) : id \in nextId..(nextId + Len(b.calls) - 1)
    BY <1>5, <1>6, <2>1, <2>4
  <2>6. \A id \in nextId..(nextId + Len(b.calls) - 1) : id \in Range(ids)
    BY <2>2, <2>4
  <2> QED BY <2>5, <2>6
<1>8. /\ b.at = "wire" /\ batches' = (batches \ {b}) \cup {d}
      /\ nextId' = nextId + Len(b.calls)
  BY <1>4 DEF Serve
<1>9. pending' = Merged(pending, g)
  BY <1>1, <1>2 DEF Serve
<1>10. toChild' = IF alive THEN toChild \o posts ELSE toChild
  BY <1>1, <1>3 DEF Serve
<1>11. posts = [i \in DOMAIN b.calls |->
                 [id |-> nextId + i - 1, call |-> b.calls[i], who |-> Who(b.calls[1])]]
  BY <1>1, <1>3
<1>12. Takes(b, d, g, posts)
  BY <1>2, <1>3, <1>4, <1>7, <1>8, <1>9, <1>10, <1>11 DEF Takes
<1> QED BY <1>12

\* The client's table after a request was posted.
LEMMA TakesPending ==
  ASSUME SInv, NEW b \in batches, NEW d, NEW g, NEW posts, Takes(b, d, g, posts), verdict' = verdict
  PROVE  /\ DOMAIN pending' = DOMAIN pending \cup DOMAIN g
         /\ \A id \in DOMAIN pending : id < nextId /\ pending'[id] = pending[id]
         /\ \A id \in DOMAIN g : id >= nextId /\ pending'[id] = g[id] /\ g[id] \in Range(b.calls)
         /\ Posted' = Posted \cup Range(b.calls)
         /\ Range(b.calls) \cap Posted = {} /\ Range(b.calls) \subseteq issued
         /\ nextId \in Nat \ {0} /\ nextId' \in Nat /\ nextId < nextId'
         /\ DOMAIN g \subseteq 1..(nextId' - 1) /\ DOMAIN pending \subseteq 1..(nextId - 1)
         /\ Distinct(pending')
<1>1. /\ nextId \in Nat \ {0} /\ DOMAIN pending \subseteq 1..(nextId - 1) /\ Distinct(pending)
  BY DEF SInv, Posting
<1>2. Request(b) /\ Browsing
  BY DEF SInv, Browsing, RequestsApart
<1>3. /\ b.calls \in Seq(issued) /\ b.calls # <<>> /\ Distinct(b.calls)
      /\ b.reply = <<>> /\ b.at = "wire"
  BY <1>2 DEF Request, Takes
<1>4. DOMAIN b.calls = 1..Len(b.calls) /\ Len(b.calls) \in Nat \ {0}
  BY <1>3
<1>5. /\ DOMAIN g = nextId..(nextId + Len(b.calls) - 1)
      /\ \A id \in DOMAIN g : g[id] = b.calls[id - nextId + 1]
      /\ nextId' = nextId + Len(b.calls)
      /\ pending' = Merged(pending, g)
  BY DEF Takes
<1>6. \A id \in DOMAIN pending : id \in Nat /\ id < nextId /\ id \notin DOMAIN g
  BY <1>1, <1>4, <1>5
<1>7. DOMAIN pending' = DOMAIN pending \cup DOMAIN g
  BY <1>5 DEF Merged
<1>8. \A id \in DOMAIN g : pending'[id] = g[id]
  BY <1>5 DEF Merged
<1>9. \A id \in DOMAIN pending : pending'[id] = pending[id]
  BY <1>5, <1>6 DEF Merged
<1>10. \A id \in DOMAIN g : /\ id \in Nat /\ id >= nextId /\ id < nextId'
                            /\ id - nextId + 1 \in DOMAIN b.calls
  BY <1>1, <1>4, <1>5
<1>11. Range(b.calls) \subseteq issued /\ \A i \in DOMAIN b.calls : b.calls[i] \in Range(b.calls)
  BY <1>3, RangeIn
<1>12. \A id \in DOMAIN g : g[id] \in Range(b.calls)
  BY <1>5, <1>10, <1>11
<1>13. \A c \in Range(b.calls) : c \notin Posted
  <2>1. \A c \in Range(b.calls) : Unposted(c)
    BY <1>3 DEF Unposted
  <2> QED BY <2>1 DEF SInv, Posting
<1>14. \A c \in Range(b.calls) : \E id \in DOMAIN g : g[id] = c
  <2>1. SUFFICES ASSUME NEW c \in Range(b.calls)
                 PROVE  \E id \in DOMAIN g : g[id] = c
    OBVIOUS
  <2>2. PICK i \in DOMAIN b.calls : b.calls[i] = c
    BY <2>1, OfRange
  <2>3. PICK id : id = nextId + i - 1
    OBVIOUS
  <2>4. id \in DOMAIN g /\ id - nextId + 1 = i
    BY <1>1, <1>4, <1>5, <2>2, <2>3
  <2> QED BY <1>5, <2>2, <2>4
<1>15. Posted' = Posted \cup Range(b.calls)
  <2>1. \A c : c \in Range(pending') <=> \E id \in DOMAIN pending' : pending'[id] = c
    BY DEF Range
  <2>2. \A c : c \in Range(pending) <=> \E id \in DOMAIN pending : pending[id] = c
    BY DEF Range
  <2>3. \A c : c \in Range(pending') <=> c \in Range(pending) \/ c \in Range(b.calls)
    BY <1>7, <1>8, <1>9, <1>12, <1>14, <2>1, <2>2
  <2> QED BY <2>3 DEF Posted
<1>16. Distinct(pending')
  <2>1. SUFFICES ASSUME NEW i \in DOMAIN pending', NEW j \in DOMAIN pending',
                        pending'[i] = pending'[j]
                 PROVE  i = j
    BY DEF Distinct
  <2>2. \A id \in DOMAIN pending : pending[id] \in Posted
    BY InRange DEF Posted
  <2>3. CASE i \in DOMAIN pending /\ j \in DOMAIN pending
    BY <1>1, <1>9, <2>1, <2>3 DEF Distinct
  <2>4. CASE i \in DOMAIN g /\ j \in DOMAIN g
    <3>1. b.calls[i - nextId + 1] = b.calls[j - nextId + 1]
      BY <1>5, <1>8, <2>1, <2>4
    <3>2. i - nextId + 1 = j - nextId + 1
      BY <1>3, <1>10, <2>4, <3>1 DEF Distinct
    <3> QED BY <1>1, <1>10, <2>4, <3>2
  <2>5. CASE i \in DOMAIN pending /\ j \in DOMAIN g
    BY <1>8, <1>9, <1>12, <1>13, <2>1, <2>2, <2>5
  <2>6. CASE i \in DOMAIN g /\ j \in DOMAIN pending
    BY <1>8, <1>9, <1>12, <1>13, <2>1, <2>2, <2>6
  <2> QED BY <1>7, <2>3, <2>4, <2>5, <2>6
<1>17. nextId' \in Nat /\ nextId < nextId' /\ DOMAIN g \subseteq 1..(nextId' - 1)
  BY <1>1, <1>4, <1>5
<1> QED BY <1>1, <1>6, <1>7, <1>8, <1>9, <1>10, <1>11, <1>12, <1>13, <1>15, <1>16, <1>17

\* A request is posted.
LEMMA ServeKeeps ==
  ASSUME SInv, NEW b \in batches, Serve(b)
  PROVE  SInv'
<1>1. PICK d, g, posts : Takes(b, d, g, posts)
  BY ServeIs
<1>2. UNCHANGED <<setting, queues, issued, result, open, verdict, exited, toParent, alive,
                  work, windows, lastSweep, counted, audit, now>>
  BY DEF Serve, browser, monitor, budget
<1>3. Browsing /\ Request(b)
  BY DEF SInv, Browsing, RequestsApart
<1>4. /\ DOMAIN pending' = DOMAIN pending \cup DOMAIN g
      /\ \A id \in DOMAIN pending : id < nextId /\ pending'[id] = pending[id]
      /\ \A id \in DOMAIN g : id >= nextId /\ pending'[id] = g[id] /\ g[id] \in Range(b.calls)
      /\ Posted' = Posted \cup Range(b.calls)
      /\ Range(b.calls) \cap Posted = {} /\ Range(b.calls) \subseteq issued
      /\ nextId \in Nat \ {0} /\ nextId' \in Nat /\ nextId < nextId'
      /\ DOMAIN g \subseteq 1..(nextId' - 1) /\ DOMAIN pending \subseteq 1..(nextId - 1)
      /\ Distinct(pending')
  BY <1>1, <1>2, TakesPending
<1>5. /\ b.at = "wire" /\ batches' = (batches \ {b}) \cup {d} /\ d = [b EXCEPT !.at = "served"]
      /\ b.calls \in Seq(issued) /\ b.calls # <<>> /\ b.reply = <<>>
      /\ b \in [calls : Seq(issued), at : {"wire", "served", "answered"}, reply : Seq(Res)]
  BY <1>1, <1>3 DEF Takes, Request
<1>6. /\ d \in [calls : Seq(issued), at : {"served", "answered"}, reply : Seq(Res)]
      /\ d.calls = b.calls /\ d.reply = <<>> /\ d.at = "served"
  BY <1>5
<1>7. Browsing' /\ Queued' = Queued
  BY <1>2, <1>3, <1>5, <1>6, RequestMoves
<1>8. Posting'
  <2>1. /\ Range(pending) \cap DOMAIN verdict = {} /\ Posted \subseteq issued
        /\ \A c \in Posted : ~Unposted(c)
    BY DEF SInv, Posting
  <2>2. DOMAIN pending' \subseteq 1..(nextId' - 1)
    BY <1>4
  <2>3. Range(pending') \cap DOMAIN verdict' = {}
    <3>1. SUFFICES ASSUME NEW c \in Range(pending'), c \in DOMAIN verdict
                   PROVE  FALSE
      BY <1>2
    <3>2. PICK id \in DOMAIN pending' : pending'[id] = c
      BY <3>1, OfRange
    <3>3. CASE id \in DOMAIN pending
      BY <1>4, <2>1, <3>1, <3>2, <3>3, InRange
    <3>4. CASE id \in DOMAIN g
      BY <1>4, <3>1, <3>2, <3>4 DEF Posted
    <3> QED BY <1>4, <3>2, <3>3, <3>4
  <2>4. \A c \in Range(b.calls) : ~Unposted(c)'
    <3>1. Range(b.calls) \cap Queued = {} /\ Range(b.calls) \cap DOMAIN result = {}
      BY <1>3, <1>5 DEF Request
    <3>2. \A a \in batches : Range(a.calls) \cap Range(b.calls) # {} => a = b
      BY <1>3 DEF Browsing, RequestsApart
    <3> QED BY <1>2, <1>5, <1>6, <1>7, <3>1, <3>2 DEF Unposted
  <2>5. \A c \in Posted : ~Unposted(c)'
    BY <1>2, <1>5, <1>6, <1>7, <2>1 DEF Unposted
  <2>6. \A c \in Posted' : ~Unposted(c)'
    BY <1>4, <2>4, <2>5
  <2>7. Posted' \subseteq issued'
    BY <1>2, <1>4, <2>1
  <2> QED BY <1>4, <2>2, <2>3, <2>6, <2>7 DEF Posting
<1>9. \A p : PostTrue(p) => PostTrue(p)'
  <2>1. SUFFICES ASSUME NEW p, PostTrue(p)
                 PROVE  PostTrue(p)'
    OBVIOUS
  <2>2. /\ p \in Post /\ p.id < nextId /\ p.call \in Posted /\ p.who = Who(p.call)
        /\ audit[p.call] = <<>>
        /\ p.id \in DOMAIN pending => pending[p.id] = p.call
    BY <2>1 DEF PostTrue
  <2>3. p.id \in Nat
    BY <2>2 DEF Post
  <2>4. p.id \notin DOMAIN g /\ p.id < nextId'
    BY <1>4, <2>2, <2>3
  <2>5. Who(p.call)' = Who(p.call)
    BY <1>2 DEF Who
  <2> QED BY <1>2, <1>4, <2>2, <2>4, <2>5 DEF PostTrue
<1>10. /\ posts \in Seq(Post)
       /\ \A i \in DOMAIN posts : /\ PostTrue(posts[i])' /\ posts[i].call \in Range(b.calls)
                                  /\ \A j \in DOMAIN posts : posts[i].call = posts[j].call => i = j
  <2>1. /\ DOMAIN posts = DOMAIN b.calls
        /\ \A i \in DOMAIN b.calls :
             posts[i] = [id |-> nextId + i - 1, call |-> b.calls[i], who |-> Who(b.calls[1])]
        /\ DOMAIN g = nextId..(nextId + Len(b.calls) - 1)
        /\ \A id \in DOMAIN g : g[id] = b.calls[id - nextId + 1]
        /\ nextId' = nextId + Len(b.calls)
    BY <1>1 DEF Takes
  <2>2. DOMAIN b.calls = 1..Len(b.calls) /\ Len(b.calls) \in Nat \ {0}
    BY <1>5
  <2>3. ASSUME NEW i \in DOMAIN posts
        PROVE  /\ posts[i] \in Post /\ PostTrue(posts[i])' /\ posts[i].call = b.calls[i]
               /\ b.calls[i] \in Range(b.calls)
    <3>1. PICK p : p = posts[i]
      OBVIOUS
    <3>12. p = [id |-> nextId + i - 1, call |-> b.calls[i], who |-> Who(b.calls[1])]
      BY <2>1, <2>3, <3>1
    <3>2. p.id = nextId + i - 1 /\ p.call = b.calls[i] /\ p.who = Who(b.calls[1])
      BY <3>12
    <3>3. b.calls[i] \in Range(b.calls) /\ b.calls[i] \in Call
      BY <1>3, <1>4, <1>5, <2>1, <2>3, RangeIn DEF Browsing
    <3>4. Who(b.calls[1]) = Who(b.calls[i])
      <4>1. Key(b.calls[i]) = Key(b.calls[1])
        BY <1>3, <2>1, <2>3 DEF Request
      <4> QED BY <4>1 DEF Key, Who
    <3>5. Who(b.calls[i]) \in Principal
      BY <1>3, <3>3, SettingIs
    <3>6. p.id \in DOMAIN g /\ p.id \in Nat \ {0} /\ p.id < nextId' /\ p.id - nextId + 1 = i
      <4>1. PICK n : n = Len(b.calls)
        OBVIOUS
      <4>2. nextId \in Nat \ {0} /\ n \in Nat /\ i \in 1..n
        BY <1>4, <2>1, <2>2, <2>3, <4>1
      <4>3. DOMAIN g = nextId..(nextId + n - 1)
        BY <2>1, <4>1
      <4>4. nextId' = nextId + n
        BY <2>1, <4>1
      <4>5. p.id = nextId + i - 1
        BY <3>2
      <4>6. p.id \in nextId..(nextId + n - 1) /\ p.id \in Nat \ {0} /\ p.id - nextId + 1 = i
        BY <4>2, <4>5
      <4>7. p.id < nextId'
        BY <4>2, <4>4, <4>5
      <4> QED BY <4>3, <4>6, <4>7
    <3>7. p \in Post
      BY <3>2, <3>12, <3>3, <3>4, <3>5, <3>6 DEF Post
    <3>8. audit[p.call] = <<>>
      BY <1>4, <3>2, <3>3 DEF SInv, Judging, AuditTrue
    <3>9. pending'[p.id] = p.call
      BY <1>4, <2>1, <3>2, <3>6
    <3>10. Who(p.call)' = Who(p.call)
      BY <1>2 DEF Who
    <3>11. PostTrue(p)'
      BY <1>2, <1>4, <3>2, <3>3, <3>4, <3>6, <3>7, <3>8, <3>9, <3>10 DEF PostTrue
    <3> QED BY <3>1, <3>2, <3>3, <3>7, <3>11
  <2>4. posts \in Seq(Post)
    <3>1. posts \in [1..Len(b.calls) -> Post]
      <4>1. posts = [i \in DOMAIN b.calls |->
                       [id |-> nextId + i - 1, call |-> b.calls[i], who |-> Who(b.calls[1])]]
        BY <1>1 DEF Takes
      <4>2. \A i \in DOMAIN posts : posts[i] \in Post
        BY <2>3
      <4>3. DOMAIN posts = 1..Len(b.calls)
        BY <2>1, <2>2
      <4> QED BY <4>1, <4>2, <4>3
    <3> QED BY <2>2, <3>1
  <2>5. \A i, j \in DOMAIN posts : posts[i].call = posts[j].call => i = j
    BY <1>3, <2>1, <2>3 DEF Request, Distinct
  <2> QED BY <2>3, <2>4, <2>5
<1>11. /\ toChild \in Seq(Post) /\ toChild' \in Seq(Post)
       /\ \A i \in DOMAIN toChild' :
            \/ i \in DOMAIN toChild /\ toChild'[i] = toChild[i]
            \/ i - Len(toChild) \in DOMAIN posts /\ toChild'[i] = posts[i - Len(toChild)]
  <2>1. toChild \in Seq(Post)
    BY DEF SInv, Judging, PostsTrue
  <2>2. toChild' = toChild \o posts \/ toChild' = toChild
    BY <1>1 DEF Takes
  <2>3. CASE toChild' = toChild
    BY <2>1, <2>3
  <2>4. CASE toChild' = toChild \o posts
    BY <1>10, <2>1, <2>4, Longer
  <2> QED BY <2>2, <2>3, <2>4
<1>12. /\ \A i \in DOMAIN toChild : PostTrue(toChild[i]) /\ toChild[i].call \in Posted
       /\ \A w \in work : PostTrue(w.post) /\ w.post.call \in Posted
  BY DEF SInv, Judging, PostsTrue, PostTrue
<1>13. PostsTrue'
  <2>1. (\A i \in DOMAIN toChild : PostTrue(toChild[i]))'
    <3>1. SUFFICES ASSUME NEW i \in DOMAIN toChild'
                   PROVE  PostTrue(toChild[i])'
      OBVIOUS
    <3>2. PICK p : p = toChild'[i]
      OBVIOUS
    <3>3. PostTrue(p)'
      <4>1. CASE i \in DOMAIN toChild /\ p = toChild[i]
        BY <1>9, <1>12, <4>1
      <4>2. CASE i - Len(toChild) \in DOMAIN posts /\ p = posts[i - Len(toChild)]
        BY <1>10, <4>2
      <4> QED BY <1>11, <3>2, <4>1, <4>2
    <3>4. PostTrue(toChild[i])' <=> PostTrue(p)'
      BY <3>2 DEF PostTrue, Who
    <3> QED BY <3>3, <3>4
  <2>2. \A w \in work : PostTrue(w.post)'
    BY <1>9, <1>12
  <2> QED BY <1>2, <1>11, <2>1, <2>2 DEF SInv, Judging, PostsTrue
<1>14. PostsOnce'
  <2>1. \A i \in DOMAIN toChild' : \/ i \in DOMAIN toChild /\ toChild'[i].call \in Posted
                                   \/ i \notin DOMAIN toChild /\ toChild'[i].call \in Range(b.calls)
    <3>1. \A i \in DOMAIN posts : i > 0
      BY <1>10
    <3>2. \A i \in DOMAIN toChild : i <= Len(toChild)
      BY <1>11
    <3>3. Len(toChild) \in Nat /\ DOMAIN toChild \subseteq Nat /\ DOMAIN toChild' \subseteq Nat
      BY <1>11
    <3> QED BY <1>10, <1>11, <1>12, <3>1, <3>2, <3>3
  <2>2. \A i, j \in DOMAIN toChild' : toChild'[i].call = toChild'[j].call => i = j
    <3>1. SUFFICES ASSUME NEW i \in DOMAIN toChild', NEW j \in DOMAIN toChild',
                          toChild'[i].call = toChild'[j].call
                   PROVE  i = j
      OBVIOUS
    <3>2. CASE i \in DOMAIN toChild /\ j \in DOMAIN toChild
      <4>1. toChild[i].call = toChild[j].call
        BY <1>1, <1>10, <1>11, <3>1, <3>2, Longer DEF Takes
      <4> QED BY <3>2, <4>1 DEF SInv, Judging, PostsOnce
    <3>3. CASE i \notin DOMAIN toChild /\ j \notin DOMAIN toChild
      <4>1. posts[i - Len(toChild)].call = posts[j - Len(toChild)].call
            /\ i - Len(toChild) \in DOMAIN posts /\ j - Len(toChild) \in DOMAIN posts
        BY <1>11, <3>1, <3>3
      <4>2. i - Len(toChild) = j - Len(toChild)
        BY <1>10, <4>1
      <4>3. i \in Nat /\ j \in Nat /\ Len(toChild) \in Nat
        BY <1>11
      <4> QED BY <4>2, <4>3
    <3> QED BY <1>4, <2>1, <3>1, <3>2, <3>3
  <2>3. \A i \in DOMAIN toChild', w \in work : toChild'[i].call # w.post.call
    <3>1. SUFFICES ASSUME NEW i \in DOMAIN toChild', NEW w \in work
                   PROVE  toChild'[i].call # w.post.call
      OBVIOUS
    <3>2. CASE i \in DOMAIN toChild /\ toChild'[i] = toChild[i]
      BY <3>2 DEF SInv, Judging, PostsOnce
    <3>3. CASE toChild'[i].call \in Range(b.calls)
      BY <1>4, <1>12, <3>3
    <3> QED BY <1>10, <1>11, <3>2, <3>3
  <2> QED BY <1>2, <2>2, <2>3 DEF SInv, Judging, PostsOnce
<1>15. AuditTrue'
  <2>1. \A c : Who(c)' = Who(c)
    BY <1>2 DEF Who
  <2> QED BY <1>2, <1>4, <2>1 DEF SInv, Judging, AuditTrue
<1>16. CountedTrue'
  <2>1. \A c : Who(c)' = Who(c)
    BY <1>2 DEF Who
  <2>2. \A k \in counted : k.call \in Posted
    BY DEF SInv, Judging, CountedTrue
  <2>3. \A k \in counted, i \in DOMAIN toChild' : k.call # toChild'[i].call
    <3>1. SUFFICES ASSUME NEW k \in counted, NEW i \in DOMAIN toChild'
                   PROVE  k.call # toChild'[i].call
      OBVIOUS
    <3>2. CASE i \in DOMAIN toChild /\ toChild'[i] = toChild[i]
      BY <3>2 DEF SInv, Judging, CountedTrue
    <3>3. CASE toChild'[i].call \in Range(b.calls)
      BY <1>4, <2>2, <3>3
    <3> QED BY <1>10, <1>11, <3>2, <3>3
  <2> QED BY <1>2, <1>4, <2>1, <2>3 DEF SInv, Judging, CountedTrue
<1>17. Telling'
  <2>1. \A c, res : Honest(c, res)' = Honest(c, res) /\ Audited(c, res)' = Audited(c, res)
    BY <1>2 DEF Honest, Audited
  <2>2. toParent' \in Seq([id : 1..(nextId' - 1), res : Heard])
    <3>1. toParent \in Seq([id : 1..(nextId - 1), res : Heard])
      BY DEF SInv, Telling
    <3>2. 1..(nextId - 1) \subseteq 1..(nextId' - 1)
      BY <1>4
    <3> DEFINE M == [id : 1..(nextId - 1), res : Heard]
               N == [id : 1..(nextId' - 1), res : Heard]
    <3>3. M \subseteq N
      BY <3>2
    <3>4. toParent \in Seq(M)
      BY <3>1
    <3> HIDE DEF M, N
    <3>5. toParent \in Seq(N)
      BY <3>3, <3>4
    <3> QED BY <1>2, <3>5 DEF N
  <2>3. (\A i \in DOMAIN toParent :
           toParent[i].id \in DOMAIN pending => Audited(pending[toParent[i].id], toParent[i].res))'
    <3>1. \A i \in DOMAIN toParent : toParent[i].id \in 1..(nextId - 1)
      <4> DEFINE M == [id : 1..(nextId - 1), res : Heard]
      <4>1. toParent \in Seq(M) /\ \A m \in M : m.id \in 1..(nextId - 1)
        BY DEF SInv, Telling
      <4> HIDE DEF M
      <4> QED BY <4>1, RangeIn
    <3>2. \A i \in DOMAIN toParent : toParent[i].id \notin DOMAIN g
      BY <1>4, <3>1
    <3> QED BY <1>2, <1>4, <2>1, <3>2 DEF SInv, Telling
  <2>4. (\A c \in DOMAIN verdict : Honest(c, verdict[c]))'
    BY <1>2, <2>1 DEF SInv, Telling
  <2>5. (\A a \in batches : \A i \in DOMAIN a.reply : Honest(a.calls[i], a.reply[i]))'
    <3>1. DOMAIN d.reply = {}
      BY <1>6
    <3> QED BY <1>5, <2>1, <3>1 DEF SInv, Telling
  <2>6. (\A c \in DOMAIN result : \/ Honest(c, result[c])
                                  \/ result[c] = Error("closed") /\ ~open
                                  \/ result[c] = Error("no reply"))'
    BY <1>2, <2>1 DEF SInv, Telling
  <2>7. (open \in BOOLEAN /\ exited \in BOOLEAN /\ alive \in BOOLEAN
         /\ (exited => ~alive) /\ (alive \/ work = {}))'
    BY <1>2 DEF SInv, Telling
  <2> QED BY <2>2, <2>3, <2>4, <2>5, <2>6, <2>7 DEF Telling
<1>18. Timing'
  BY <1>2, TimingStays DEF budget
<1> QED BY <1>7, <1>8, <1>13, <1>14, <1>15, <1>16, <1>17, <1>18 DEF SInv, Judging

-----------------------------------------------------------------------------
(* The steps of the sidecar's client and of the monitor.                   *)

\* What they leave alone.
Inside == UNCHANGED <<setting, queues, issued, result, open, batches, nextId>>

\* The browser is not concerned, nor what it can still post.
LEMMA InsideKeeps ==
  ASSUME SInv, Inside, Posted' = Posted,
         DOMAIN pending' \subseteq DOMAIN pending,
         \A id \in DOMAIN pending' : pending'[id] = pending[id],
         Range(pending') \cap DOMAIN verdict' = {}
  PROVE  Browsing' /\ Posting' /\ \A c : Who(c)' = Who(c)
<1>1. UNCHANGED <<setting, queues, issued, result, open, batches, nextId>>
  BY DEF Inside
<1>2. Queued' = Queued /\ \A c : Key(c)' = Key(c) /\ Who(c)' = Who(c)
  BY <1>1 DEF Queued, Key, Who
<1>3. \A b : Request(b)' <=> Request(b)
  BY <1>1, <1>2 DEF Request
<1>4. Browsing'
  <2>1. QueuesApart'
    BY <1>1, <1>2 DEF SInv, Browsing, QueuesApart
  <2>2. RequestsApart'
    BY <1>1, <1>3 DEF SInv, Browsing, RequestsApart
  <2> QED BY <1>1, <2>1, <2>2 DEF SInv, Browsing
<1>5. Posting'
  <2>1. /\ nextId \in Nat \ {0} /\ DOMAIN pending \subseteq 1..(nextId - 1) /\ Distinct(pending)
        /\ Posted \subseteq issued /\ \A c \in Posted : ~Unposted(c)
    BY DEF SInv, Posting
  <2>2. \A c : Unposted(c)' <=> Unposted(c)
    BY <1>1, <1>2 DEF Unposted
  <2>3. Distinct(pending')
    BY <2>1 DEF Distinct
  <2>4. DOMAIN pending' \subseteq 1..(nextId' - 1)
    BY <1>1, <2>1
  <2>5. Posted' \subseteq issued'
    BY <1>1, <2>1
  <2>6. \A c \in Posted' : ~Unposted(c)'
    BY <2>1, <2>2
  <2> QED BY <1>1, <2>1, <2>3, <2>4, <2>5, <2>6 DEF Posting
<1> QED BY <1>2, <1>4, <1>5

\* What was honest stays so when the log only grows and the process stays down once it is.
LEMMA ExplainedStays ==
  ASSUME SInv, Inside, \A c, res : Honest(c, res) => Honest(c, res)'
  PROVE  RepliesHonest' /\ (\A c \in DOMAIN result : Explained(c))'
<1>1. UNCHANGED <<setting, queues, issued, result, open, batches, nextId>>
  BY DEF Inside
<1>2. RepliesHonest /\ \A c \in DOMAIN result : Explained(c)
  BY DEF SInv, Telling, RepliesHonest, Explained
<1>3. RepliesHonest'
  BY <1>1, <1>2 DEF RepliesHonest
<1>4. (\A c \in DOMAIN result : Explained(c))'
  BY <1>1, <1>2 DEF Explained
<1> QED BY <1>3, <1>4

\* The posts under way and what was judged, when only the client's table has changed.
LEMMA JudgingStays ==
  ASSUME SInv, Inside, Posted' = Posted, UNCHANGED <<audit, counted>>,
         DOMAIN pending' \subseteq DOMAIN pending,
         \A id \in DOMAIN pending' : pending'[id] = pending[id],
         UNCHANGED <<toChild, work>> \/ (toChild' = <<>> /\ work' = {})
  PROVE  Judging'
<1>1. UNCHANGED <<setting, queues, issued, result, open, batches, nextId>>
  BY DEF Inside
<1>2. \A c : Who(c)' = Who(c)
  BY <1>1 DEF Who
<1>3. \A p : PostTrue(p) => PostTrue(p)'
  BY <1>1, <1>2 DEF PostTrue
<1>4. AuditTrue'
  BY <1>2 DEF SInv, Judging, AuditTrue
<1>5. /\ \A k \in counted : k.call \in Posted /\ k.who = Who(k.call)
      /\ \A j, k \in counted : j.call = k.call => j = k
  BY DEF SInv, Judging, CountedTrue
<1>6. CASE UNCHANGED <<toChild, work>>
  <2>1. PostsTrue'
    <3>1. (\A i \in DOMAIN toChild : PostTrue(toChild[i]))'
      <4>1. SUFFICES ASSUME NEW i \in DOMAIN toChild'
                     PROVE  PostTrue(toChild[i])'
        OBVIOUS
      <4>2. PICK p : p = toChild'[i]
        OBVIOUS
      <4>3. PostTrue(p)
        BY <1>6, <4>2 DEF SInv, Judging, PostsTrue
      <4>4. PostTrue(toChild[i])' <=> PostTrue(p)'
        BY <4>2 DEF PostTrue, Who
      <4> QED BY <1>3, <4>3, <4>4
    <3>2. \A w \in work : PostTrue(w.post)'
      BY <1>3 DEF SInv, Judging, PostsTrue
    <3> QED BY <1>6, <3>1, <3>2 DEF SInv, Judging, PostsTrue
  <2>2. PostsOnce'
    BY <1>6 DEF SInv, Judging, PostsOnce
  <2>3. CountedTrue'
    BY <1>2, <1>6 DEF SInv, Judging, CountedTrue
  <2> QED BY <1>4, <2>1, <2>2, <2>3 DEF Judging
<1>7. CASE toChild' = <<>> /\ work' = {}
  <2>1. PostsTrue'
    BY <1>7 DEF PostsTrue
  <2>2. PostsOnce'
    BY <1>7 DEF PostsOnce
  <2>3. CountedTrue'
    BY <1>2, <1>5, <1>7 DEF CountedTrue
  <2> QED BY <1>4, <2>1, <2>2, <2>3 DEF Judging
<1> QED BY <1>6, <1>7

\* What is left of a queue when its head is taken.
LEMMA TailIs ==
  ASSUME NEW S, NEW q \in Seq(S), q # <<>>
  PROVE  /\ Tail(q) \in Seq(S) /\ 1 \in DOMAIN q /\ Head(q) = q[1] /\ Head(q) \in S
         /\ \A i \in DOMAIN Tail(q) : i \in Nat \ {0} /\ i + 1 \in DOMAIN q /\ Tail(q)[i] = q[i + 1]
OBVIOUS

\* A reply on the pipe tells what the monitor came to on the call it is for.
LEMMA SidecarReplyKeeps ==
  ASSUME SInv, SidecarReply
  PROVE  SInv'
<1>1. PICK m : m = Head(toParent)
  OBVIOUS
<1>2. PICK g : g = [c \in {pending[id] : id \in Awaited(m)} |-> m.res]
  OBVIOUS
<1>3. PICK rest : rest = DOMAIN pending \ Awaited(m)
  OBVIOUS
<1>4. /\ toParent # <<>> /\ toParent' = Tail(toParent)
      /\ verdict' = Merged(verdict, g) /\ pending' = Restrict(pending, rest)
      /\ Inside
      /\ UNCHANGED <<exited, toChild, alive, work, windows, lastSweep, counted, audit, now>>
  BY <1>1, <1>2, <1>3 DEF SidecarReply, Inside, browser, monitor, budget
<1>5. DOMAIN pending' = rest /\ \A id \in rest : pending'[id] = pending[id]
  BY <1>4 DEF Restrict
<1>6. \A id : id \in Awaited(m) <=> id \in DOMAIN pending /\ id = m.id
  BY DEF Awaited
<1>7. DOMAIN g = {pending[id] : id \in Awaited(m)} /\ \A c \in DOMAIN g : g[c] = m.res
  BY <1>2
<1>8. /\ DOMAIN verdict' = DOMAIN verdict \cup DOMAIN g
      /\ \A c \in DOMAIN g : verdict'[c] = g[c]
      /\ \A c \in DOMAIN verdict \ DOMAIN g : verdict'[c] = verdict[c]
  <2>1. DOMAIN verdict' = DOMAIN verdict \cup DOMAIN g
    BY <1>4 DEF Merged
  <2>2. \A c \in DOMAIN g : verdict'[c] = g[c]
    BY <1>4 DEF Merged
  <2>3. \A c \in DOMAIN verdict \ DOMAIN g : verdict'[c] = verdict[c]
    BY <1>4 DEF Merged
  <2> QED BY <2>1, <2>2, <2>3
<1>9. Posted' = Posted
  <2>1. \A c : c \in Range(pending') <=> \E id \in rest : pending[id] = c
    BY <1>5 DEF Range
  <2>2. \A c : c \in Range(pending) <=> \E id \in DOMAIN pending : pending[id] = c
    BY DEF Range
  <2>3. \A c : c \in DOMAIN g <=> \E id \in Awaited(m) : pending[id] = c
    BY <1>7
  <2>4. \A c : c \in Posted' <=> c \in Posted
    BY <1>3, <1>6, <1>8, <2>1, <2>2, <2>3 DEF Posted
  <2> QED BY <2>4
<1>10. DOMAIN pending' \subseteq DOMAIN pending
       /\ \A id \in DOMAIN pending' : pending'[id] = pending[id]
  BY <1>3, <1>5
<1>11. Range(pending') \cap DOMAIN verdict' = {}
  <2>1. SUFFICES ASSUME NEW id \in rest, pending[id] \in DOMAIN verdict'
                 PROVE  FALSE
    BY <1>5 DEF Range
  <2>2. pending[id] \notin DOMAIN verdict
    BY <1>3, InRange DEF SInv, Posting
  <2>3. PICK other \in Awaited(m) : pending[other] = pending[id]
    BY <1>7, <1>8, <2>1, <2>2
  <2>4. id = other
    BY <1>3, <1>6, <2>3 DEF SInv, Posting, Distinct
  <2> QED BY <1>3, <2>3, <2>4
<1>12. Browsing' /\ Posting'
  BY <1>4, <1>9, <1>10, <1>11, InsideKeeps
<1>13. Judging'
  BY <1>4, <1>9, <1>10, JudgingStays
<1>14. Telling'
  <2> DEFINE M == [id : 1..(nextId - 1), res : Heard]
  <2>1. toParent \in Seq(M)
    BY DEF SInv, Telling
  <2>2. nextId' = nextId
    BY <1>4 DEF Inside
  <2> HIDE DEF M
  <2>3. /\ Tail(toParent) \in Seq(M) /\ 1 \in DOMAIN toParent /\ m = toParent[1]
        /\ \A i \in DOMAIN Tail(toParent) :
             i + 1 \in DOMAIN toParent /\ Tail(toParent)[i] = toParent[i + 1]
    BY <1>1, <1>4, <2>1, TailIs
  <2>4. \A i \in DOMAIN toParent :
          toParent[i].id \in DOMAIN pending => Audited(pending[toParent[i].id], toParent[i].res)
    BY DEF SInv, Telling
  <2>5. \A c, res : Audited(c, res)' <=> Audited(c, res)
    BY <1>4 DEF Audited
  <2>6. \A c, res : Honest(c, res)' <=> Honest(c, res)
    BY <1>4, <2>5 DEF Honest
  <2>7. (\A i \in DOMAIN toParent :
           toParent[i].id \in DOMAIN pending => Audited(pending[toParent[i].id], toParent[i].res))'
    <3>1. SUFFICES ASSUME NEW i \in DOMAIN toParent', toParent'[i].id \in DOMAIN pending'
                   PROVE  Audited(pending'[toParent'[i].id], toParent'[i].res)
      BY <1>4 DEF Audited
    <3>2. PICK d : d = toParent'[i]
      OBVIOUS
    <3>3. PICK c : c = pending[d.id]
      OBVIOUS
    <3>4. i + 1 \in DOMAIN toParent /\ d = toParent[i + 1]
      BY <1>4, <2>3, <3>1, <3>2
    <3>5. d.id \in DOMAIN pending' /\ d.id \in DOMAIN pending /\ pending'[d.id] = c
      BY <1>10, <3>1, <3>2, <3>3
    <3>6. Audited(c, d.res)
      BY <2>4, <3>3, <3>4, <3>5
    <3> QED BY <3>2, <3>5, <3>6
  <2>8. (\A c \in DOMAIN verdict : Honest(c, verdict[c]))'
    <3>1. SUFFICES ASSUME NEW c \in DOMAIN verdict'
                   PROVE  Honest(c, verdict'[c])
      BY <2>6
    <3>2. CASE c \in DOMAIN g
      <4>1. PICK id \in Awaited(m) : pending[id] = c
        BY <1>7, <3>2
      <4>2. Audited(c, m.res)
        BY <1>6, <2>3, <2>4, <4>1
      <4> QED BY <1>7, <1>8, <3>2, <4>2 DEF Honest
    <3>3. CASE c \in DOMAIN verdict \ DOMAIN g
      BY <1>8, <3>3 DEF SInv, Telling
    <3> QED BY <1>8, <3>1, <3>2, <3>3
  <2>9. RepliesHonest' /\ (\A c \in DOMAIN result : Explained(c))'
    BY <1>4, <2>6, ExplainedStays
  <2>10. (toParent \in Seq([id : 1..(nextId - 1), res : Heard]))'
    BY <1>4, <2>2, <2>3 DEF M
  <2>11. (open \in BOOLEAN /\ exited \in BOOLEAN /\ alive \in BOOLEAN
          /\ (exited => ~alive) /\ (alive \/ work = {}))'
    BY <1>4 DEF SInv, Telling, Inside
  <2> QED BY <2>7, <2>8, <2>9, <2>10, <2>11 DEF Telling, RepliesHonest, Explained
<1>15. Timing'
  BY <1>4, TimingStays DEF budget
<1> QED BY <1>12, <1>13, <1>14, <1>15 DEF SInv

\* The exit of the process fails what is awaited.
LEMMA ExitSeenKeeps ==
  ASSUME SInv, ExitEvent
  PROVE  SInv'
<1>1. PICK g : g = [c \in Range(pending) |-> Error("exited")]
  OBVIOUS
<1>2. /\ ~alive /\ exited' = TRUE /\ verdict' = Merged(verdict, g) /\ pending' = <<>> /\ Inside
      /\ UNCHANGED <<toChild, toParent, alive, work, windows, lastSweep, counted, audit, now>>
  BY <1>1 DEF ExitEvent, Inside, browser, monitor, budget
<1>3. DOMAIN g = Range(pending) /\ \A c \in DOMAIN g : g[c] = Error("exited")
  BY <1>1
<1>4. /\ DOMAIN verdict' = DOMAIN verdict \cup DOMAIN g
      /\ \A c \in DOMAIN g : verdict'[c] = g[c]
      /\ \A c \in DOMAIN verdict \ DOMAIN g : verdict'[c] = verdict[c]
  <2>1. DOMAIN verdict' = DOMAIN verdict \cup DOMAIN g
    BY <1>2 DEF Merged
  <2>2. \A c \in DOMAIN g : verdict'[c] = g[c]
    BY <1>2 DEF Merged
  <2>3. \A c \in DOMAIN verdict \ DOMAIN g : verdict'[c] = verdict[c]
    BY <1>2 DEF Merged
  <2> QED BY <2>1, <2>2, <2>3
<1>5. DOMAIN pending' = {} /\ Range(pending') = {}
  BY <1>2 DEF Range
<1>6. Posted' = Posted
  BY <1>3, <1>4, <1>5 DEF Posted
<1>7. Browsing' /\ Posting'
  BY <1>2, <1>5, <1>6, InsideKeeps
<1>8. Judging'
  BY <1>2, <1>5, <1>6, JudgingStays
<1>9. Telling'
  <2>1. \A c, res : Honest(c, res)' <=> Honest(c, res)
    BY <1>2 DEF Honest, Audited
  <2>2. (\A c \in DOMAIN verdict : Honest(c, verdict[c]))'
    <3>1. SUFFICES ASSUME NEW c \in DOMAIN verdict'
                   PROVE  Honest(c, verdict'[c])
      BY <2>1
    <3>2. CASE c \in DOMAIN g
      BY <1>2, <1>3, <1>4, <3>2 DEF Honest
    <3>3. CASE c \in DOMAIN verdict \ DOMAIN g
      BY <1>4, <3>3 DEF SInv, Telling
    <3> QED BY <1>4, <3>1, <3>2, <3>3
  <2>3. RepliesHonest' /\ (\A c \in DOMAIN result : Explained(c))'
    BY <1>2, <2>1, ExplainedStays
  <2>4. (toParent \in Seq([id : 1..(nextId - 1), res : Heard]))'
    BY <1>2 DEF SInv, Telling, Inside
  <2>5. (open \in BOOLEAN /\ exited \in BOOLEAN /\ alive \in BOOLEAN
         /\ (exited => ~alive) /\ (alive \/ work = {}))'
    BY <1>2 DEF SInv, Telling, Inside
  <2>6. (\A i \in DOMAIN toParent :
           toParent[i].id \in DOMAIN pending => Audited(pending[toParent[i].id], toParent[i].res))'
    BY <1>5
  <2> QED BY <2>2, <2>3, <2>4, <2>5, <2>6 DEF Telling, RepliesHonest, Explained
<1>10. Timing'
  BY <1>2, TimingStays DEF budget
<1> QED BY <1>7, <1>8, <1>9, <1>10 DEF SInv

\* The process dies: what it was told is lost, what it has told is not.
LEMMA ExitKeeps ==
  ASSUME SInv, Exit
  PROVE  SInv'
<1>1. /\ alive /\ alive' = FALSE /\ work' = {} /\ toChild' = <<>> /\ Inside
      /\ UNCHANGED <<pending, verdict, exited, toParent, windows, lastSweep, counted, audit, now>>
  BY DEF Exit, Inside, browser, server, budget
<1>2. Posted' = Posted
  BY <1>1 DEF Posted
<1>3. Range(pending') \cap DOMAIN verdict' = {}
  BY <1>1 DEF SInv, Posting
<1>4. Browsing' /\ Posting'
  BY <1>1, <1>2, <1>3, InsideKeeps
<1>5. Judging'
  BY <1>1, <1>2, JudgingStays
<1>6. Telling'
  <2>1. \A c, res : Audited(c, res)' <=> Audited(c, res)
    BY <1>1 DEF Audited
  <2>2. \A c, res : Honest(c, res) => Honest(c, res)'
    BY <1>1, <2>1 DEF Honest
  <2>3. (\A c \in DOMAIN verdict : Honest(c, verdict[c]))'
    BY <1>1, <2>2 DEF SInv, Telling
  <2>4. RepliesHonest' /\ (\A c \in DOMAIN result : Explained(c))'
    BY <1>1, <2>2, ExplainedStays
  <2>5. (toParent \in Seq([id : 1..(nextId - 1), res : Heard]))'
    BY <1>1 DEF SInv, Telling, Inside
  <2>6. (open \in BOOLEAN /\ exited \in BOOLEAN /\ alive \in BOOLEAN
         /\ (exited => ~alive) /\ (alive \/ work = {}))'
    BY <1>1 DEF SInv, Telling, Inside
  <2>7. (\A i \in DOMAIN toParent :
           toParent[i].id \in DOMAIN pending => Audited(pending[toParent[i].id], toParent[i].res))'
    BY <1>1, <2>1 DEF SInv, Telling
  <2> QED BY <2>3, <2>4, <2>5, <2>6, <2>7 DEF Telling, RepliesHonest, Explained
<1>7. Timing'
  BY <1>1, TimingStays DEF budget
<1> QED BY <1>4, <1>5, <1>6, <1>7 DEF SInv

\* The monitor comes to an outcome on a call: it logs it, and sends it under the call's id.
LEMMA LogKeeps ==
  ASSUME SInv, Inside, alive, UNCHANGED <<pending, verdict, exited, alive>>,
         NEW p, PostTrue(p), NEW who \in {"nobody", p.who}, NEW res \in Heard,
         Logged(p, who, res), Send(p, res)
  PROVE  /\ Browsing' /\ Posting' /\ AuditTrue' /\ Telling'
         /\ \A q : PostTrue(q) /\ q.call # p.call => PostTrue(q)'
         /\ Posted' = Posted /\ \A c : Who(c)' = Who(c)
<1> DEFINE Entry == [who : {"nobody"} \cup Principal, res : Heard]
<1>1. Posted' = Posted
  BY DEF Posted
<1>2. Browsing' /\ Posting' /\ \A c : Who(c)' = Who(c)
  <2>1. Range(pending') \cap DOMAIN verdict' = {}
    BY DEF SInv, Posting
  <2> QED BY <1>1, <2>1, InsideKeeps
<1>3. /\ p \in Post /\ p.id < nextId /\ p.call \in Posted /\ p.who = Who(p.call)
      /\ audit[p.call] = <<>> /\ (p.id \in DOMAIN pending => pending[p.id] = p.call)
  BY DEF PostTrue
<1>4. p.call \in Call /\ p.who \in Principal /\ p.id \in Nat \ {0}
  BY <1>3 DEF Post
<1>5. PICK e : e = [who |-> who, res |-> res]
  OBVIOUS
<1>6. e \in Entry /\ e.who = who /\ e.res = res
  BY <1>4, <1>5
<1>7. audit \in [Call -> Seq(Entry)]
  BY DEF SInv, Judging, AuditTrue
<1>8. audit' = [audit EXCEPT ![p.call] = Append(@, e)]
  BY <1>5 DEF Logged
<1> HIDE DEF Entry
<1>9. audit'[p.call] = <<e>> /\ \A c \in Call : c # p.call => audit'[c] = audit[c]
  BY <1>3, <1>4, <1>7, <1>8
<1>10. audit' \in [Call -> Seq(Entry)]
  BY <1>4, <1>6, <1>7, <1>8
<1>11. Len(<<e>>) = 1 /\ DOMAIN <<e>> = {1} /\ <<e>>[1] = e
  OBVIOUS
<1>12. AuditTrue'
  <2>1. \A c \in Call : /\ Len(audit[c]) <= 1 /\ (audit[c] # <<>> => c \in Posted)
                        /\ \A i \in DOMAIN audit[c] : audit[c][i].who \in {"nobody", Who(c)}
    BY DEF SInv, Judging, AuditTrue
  <2>2. \A c \in Call : /\ Len(audit'[c]) <= 1 /\ (audit'[c] # <<>> => c \in Posted)
                        /\ \A i \in DOMAIN audit'[c] : audit'[c][i].who \in {"nobody", Who(c)}
    <3>1. SUFFICES ASSUME NEW c \in Call
                   PROVE  /\ Len(audit'[c]) <= 1 /\ (audit'[c] # <<>> => c \in Posted)
                          /\ \A i \in DOMAIN audit'[c] : audit'[c][i].who \in {"nobody", Who(c)}
      OBVIOUS
    <3>2. CASE c = p.call
      <4>1. PICK a : a = audit'[c]
        OBVIOUS
      <4>2. a = <<e>>
        BY <1>9, <3>2, <4>1
      <4>3. Len(a) <= 1 /\ \A i \in DOMAIN a : a[i].who \in {"nobody", Who(c)}
        BY <1>3, <1>6, <1>11, <3>2, <4>2
      <4> QED BY <1>3, <3>2, <4>1, <4>3
    <3>3. CASE c # p.call
      BY <1>9, <2>1, <3>3
    <3> QED BY <3>2, <3>3
  <2> QED BY <1>1, <1>2, <1>10, <2>2 DEF AuditTrue, Entry
<1>13. Audited(p.call, res)' /\ \A c, r : c \in Call /\ Audited(c, r) => Audited(c, r)'
  <2>1. Audited(p.call, res)'
    BY <1>6, <1>9, <1>11 DEF Audited
  <2>2. \A c, r : c \in Call /\ c # p.call => (Audited(c, r)' <=> Audited(c, r))
    BY <1>9 DEF Audited
  <2>3. \A r : ~Audited(p.call, r)
    BY <1>3 DEF Audited
  <2> QED BY <2>1, <2>2, <2>3
<1>14. \A c, r : Honest(c, r) /\ c \in Call => Honest(c, r)'
  BY <1>13 DEF Honest
<1>15. PICK m : m = [id |-> p.id, res |-> res]
  OBVIOUS
<1>16. m \in [id : 1..(nextId - 1), res : Heard] /\ m.id = p.id /\ m.res = res
       /\ toParent' = Append(toParent, m)
  <2>1. p.id \in 1..(nextId - 1)
    BY <1>3, <1>4 DEF SInv, Posting
  <2> QED BY <2>1, <1>15 DEF Send
<1>17. Telling'
  <2> DEFINE M == [id : 1..(nextId - 1), res : Heard]
  <2>1. toParent \in Seq(M) /\ m \in M
    BY <1>16 DEF SInv, Telling
  <2>2. nextId' = nextId /\ issued \subseteq Call /\ DOMAIN result \subseteq issued
        /\ DOMAIN verdict \subseteq issued /\ Range(pending) \subseteq issued
    BY DEF Inside, SInv, Browsing, Posting, Posted
  <2> HIDE DEF M
  <2>3. toParent' \in Seq(M)
        /\ \A i \in DOMAIN toParent' : \/ i \in DOMAIN toParent /\ toParent'[i] = toParent[i]
                                       \/ toParent'[i] = m
    BY <1>16, <2>1
  <2>4. \A i \in DOMAIN toParent :
          toParent[i].id \in DOMAIN pending => Audited(pending[toParent[i].id], toParent[i].res)
    BY DEF SInv, Telling
  <2>5. (\A i \in DOMAIN toParent :
           toParent[i].id \in DOMAIN pending => Audited(pending[toParent[i].id], toParent[i].res))'
    <3>1. SUFFICES ASSUME NEW i \in DOMAIN toParent', toParent'[i].id \in DOMAIN pending
                   PROVE  \E c, r : /\ c = pending[toParent'[i].id] /\ r = toParent'[i].res
                                    /\ Audited(c, r)'
      BY DEF Audited
    <3>2. PICK d : d = toParent'[i]
      OBVIOUS
    <3>3. pending[d.id] \in Call
      BY <2>2, <3>1, <3>2, InRange
    <3>4. CASE d = m
      BY <1>3, <1>13, <1>16, <3>1, <3>2, <3>4
    <3>5. CASE i \in DOMAIN toParent /\ d = toParent[i]
      BY <1>13, <2>4, <3>1, <3>2, <3>3, <3>5
    <3> QED BY <2>3, <3>2, <3>4, <3>5
  <2>6. (\A c \in DOMAIN verdict : Honest(c, verdict[c]))'
    BY <1>14, <2>2 DEF SInv, Telling
  <2>7. RepliesHonest'
    <3>1. SUFFICES ASSUME NEW b \in batches, NEW i \in DOMAIN b.reply
                   PROVE  Honest(b.calls[i], b.reply[i])'
      BY DEF RepliesHonest, Inside
    <3>2. Request(b)
      BY DEF SInv, Browsing, RequestsApart
    <3>3. b.calls \in Seq(issued) /\ i \in DOMAIN b.calls
      <4>1. b.reply # <<>>
        BY <3>1
      <4> QED BY <3>1, <3>2, <4>1 DEF Request
    <3>4. b.calls[i] \in Call
      BY <2>2, <3>3, RangeIn
    <3>5. Honest(b.calls[i], b.reply[i])
      BY <3>1 DEF SInv, Telling
    <3> QED BY <1>14, <3>4, <3>5
  <2>8. (\A c \in DOMAIN result : Explained(c))'
    BY <1>14, <2>2 DEF SInv, Telling, Explained, Inside
  <2>9. (toParent \in Seq([id : 1..(nextId - 1), res : Heard]))'
    BY <2>2, <2>3 DEF M
  <2>10. (open \in BOOLEAN /\ exited \in BOOLEAN /\ alive \in BOOLEAN
          /\ (exited => ~alive) /\ (alive \/ work = {}))'
    BY DEF SInv, Telling, Inside
  <2> QED BY <2>5, <2>6, <2>7, <2>8, <2>9, <2>10 DEF Telling, RepliesHonest, Explained
<1>18. \A q : PostTrue(q) /\ q.call # p.call => PostTrue(q)'
  <2>1. SUFFICES ASSUME NEW q, PostTrue(q), q.call # p.call
                 PROVE  PostTrue(q)'
    OBVIOUS
  <2>2. q \in Post
    BY <2>1 DEF PostTrue
  <2>3. audit'[q.call] = audit[q.call]
    BY <1>9, <2>1, <2>2 DEF Post
  <2>4. UNCHANGED <<nextId, pending>>
    BY DEF Inside
  <2> QED BY <1>1, <1>2, <2>1, <2>3, <2>4 DEF PostTrue
<1> QED BY <1>1, <1>2, <1>12, <1>17, <1>18

\* What the monitor takes from the pipe is no longer on it, nor anywhere else.
LEMMA HeadGoes ==
  ASSUME SInv, toChild # <<>>, toChild' = Tail(toChild)
  PROVE  /\ PostTrue(Head(toChild)) /\ toChild' \in Seq(Post)
         /\ \A i \in DOMAIN toChild' :
              /\ PostTrue(toChild'[i]) /\ toChild'[i].call # Head(toChild).call
              /\ \A j \in DOMAIN toChild' : toChild'[i].call = toChild'[j].call => i = j
              /\ \A w \in work : toChild'[i].call # w.post.call
              /\ \A k \in counted : k.call # toChild'[i].call
         /\ \A w \in work : w.post.call # Head(toChild).call
         /\ \A k \in counted : k.call # Head(toChild).call
<1>1. toChild \in Seq(Post) /\ \A i \in DOMAIN toChild : PostTrue(toChild[i])
  BY DEF SInv, Judging, PostsTrue
<1>2. /\ toChild' \in Seq(Post) /\ 1 \in DOMAIN toChild /\ Head(toChild) = toChild[1]
      /\ \A i \in DOMAIN toChild' :
           i \in Nat \ {0} /\ i + 1 \in DOMAIN toChild /\ toChild'[i] = toChild[i + 1]
  BY <1>1, TailIs
<1>3. /\ \A i, j \in DOMAIN toChild : toChild[i].call = toChild[j].call => i = j
      /\ \A i \in DOMAIN toChild, w \in work : toChild[i].call # w.post.call
      /\ \A k \in counted, i \in DOMAIN toChild : k.call # toChild[i].call
  BY DEF SInv, Judging, PostsOnce, CountedTrue
<1>4. ASSUME NEW i \in DOMAIN toChild'
      PROVE  /\ PostTrue(toChild'[i]) /\ toChild'[i].call # Head(toChild).call
             /\ \A j \in DOMAIN toChild' : toChild'[i].call = toChild'[j].call => i = j
             /\ \A w \in work : toChild'[i].call # w.post.call
             /\ \A k \in counted : k.call # toChild'[i].call
  <2>1. PICK n : n = i + 1
    OBVIOUS
  <2>2. n \in DOMAIN toChild /\ toChild'[i] = toChild[n] /\ n # 1 /\ i \in Nat
    BY <1>2, <1>4, <2>1
  <2>3. ASSUME NEW j \in DOMAIN toChild', toChild'[i].call = toChild'[j].call
        PROVE  i = j
    <3>1. j + 1 \in DOMAIN toChild /\ toChild'[j] = toChild[j + 1] /\ j \in Nat
      BY <1>2, <2>3
    <3>2. n = j + 1
      BY <1>3, <2>2, <2>3, <3>1
    <3> QED BY <2>1, <2>2, <3>1, <3>2
  <2>4. PostTrue(toChild[n])
    BY <1>1, <2>2
  <2>5. toChild[n].call # toChild[1].call
    BY <1>2, <1>3, <2>2
  <2> QED BY <1>2, <1>3, <2>2, <2>3, <2>4, <2>5
<1>5. PostTrue(toChild[1])
  BY <1>1, <1>2
<1> QED BY <1>2, <1>3, <1>4, <1>5

\* The posts of the pipe are true, one by one.
LEMMA PostedAre ==
  ASSUME \A i \in DOMAIN toChild' : \E q : q = toChild'[i] /\ PostTrue(q)'
  PROVE  (\A i \in DOMAIN toChild : PostTrue(toChild[i]))'
<1>1. SUFFICES ASSUME NEW i \in DOMAIN toChild'
               PROVE  PostTrue(toChild[i])'
  OBVIOUS
<1>2. PICK q : q = toChild'[i] /\ PostTrue(q)'
  BY <1>1
<1>3. PostTrue(toChild[i])' <=> PostTrue(q)'
  BY <1>2 DEF PostTrue, Who
<1> QED BY <1>2, <1>3

\* The monitor says nothing: what has been told and logged stays.
LEMMA TellingStays ==
  ASSUME SInv, Inside, UNCHANGED <<pending, verdict, exited, alive, toParent, audit>>,
         alive \/ work' = {}
  PROVE  /\ Browsing' /\ Posting' /\ AuditTrue' /\ Telling'
         /\ \A q : PostTrue(q) => PostTrue(q)'
         /\ Posted' = Posted /\ \A c : Who(c)' = Who(c)
<1>1. Posted' = Posted
  BY DEF Posted
<1>2. Browsing' /\ Posting' /\ \A c : Who(c)' = Who(c)
  <2>1. Range(pending') \cap DOMAIN verdict' = {}
    BY DEF SInv, Posting
  <2> QED BY <1>1, <2>1, InsideKeeps
<1>3. AuditTrue'
  BY <1>1, <1>2 DEF SInv, Judging, AuditTrue
<1>4. Telling'
  <2>1. \A c, r : Audited(c, r)' <=> Audited(c, r)
    BY DEF Audited
  <2>2. \A c, r : Honest(c, r)' <=> Honest(c, r)
    BY <2>1 DEF Honest
  <2>3. (\A c \in DOMAIN verdict : Honest(c, verdict[c]))'
    BY <2>2 DEF SInv, Telling
  <2>4. RepliesHonest' /\ (\A c \in DOMAIN result : Explained(c))'
    BY <2>2, ExplainedStays
  <2>5. (toParent \in Seq([id : 1..(nextId - 1), res : Heard]))'
    BY DEF SInv, Telling, Inside
  <2>6. (open \in BOOLEAN /\ exited \in BOOLEAN /\ alive \in BOOLEAN
         /\ (exited => ~alive) /\ (alive \/ work = {}))'
    BY DEF SInv, Telling, Inside
  <2>7. (\A i \in DOMAIN toParent :
           toParent[i].id \in DOMAIN pending => Audited(pending[toParent[i].id], toParent[i].res))'
    BY <2>1 DEF SInv, Telling
  <2> QED BY <2>3, <2>4, <2>5, <2>6, <2>7 DEF Telling, RepliesHonest, Explained
<1>5. \A q : PostTrue(q) => PostTrue(q)'
  BY <1>1, <1>2 DEF PostTrue, Inside
<1> QED BY <1>1, <1>2, <1>3, <1>4, <1>5

\* A post is taken from the pipe.
LEMMA ReceiveKeeps ==
  ASSUME SInv, Receive
  PROVE  SInv'
<1>1. PICK p : p = Head(toChild)
  OBVIOUS
<1>2. PICK w : w = [post |-> p, at |-> "verifying"]
  OBVIOUS
<1>3. /\ alive /\ toChild # <<>> /\ toChild' = Tail(toChild) /\ work' = work \cup {w} /\ Inside
      /\ UNCHANGED <<pending, verdict, exited, toParent, alive, windows, lastSweep, counted,
                     audit, now>>
  BY <1>1, <1>2 DEF Receive, Inside, browser, server, budget
<1>4. /\ Browsing' /\ Posting' /\ AuditTrue' /\ Telling'
      /\ \A q : PostTrue(q) => PostTrue(q)'
      /\ Posted' = Posted /\ \A c : Who(c)' = Who(c)
  BY <1>3, TellingStays
<1>5. /\ PostTrue(p) /\ toChild' \in Seq(Post)
      /\ \A i \in DOMAIN toChild' :
           /\ PostTrue(toChild'[i]) /\ toChild'[i].call # p.call
           /\ \A j \in DOMAIN toChild' : toChild'[i].call = toChild'[j].call => i = j
           /\ \A v \in work : toChild'[i].call # v.post.call
           /\ \A k \in counted : k.call # toChild'[i].call
      /\ \A v \in work : v.post.call # p.call
      /\ \A k \in counted : k.call # p.call
  BY <1>1, <1>3, HeadGoes
<1>6. w.post = p /\ w.at = "verifying" /\ w \in [post : Post, at : {"verifying", "running"}]
  BY <1>2, <1>5 DEF PostTrue
<1>7. PostsTrue'
  <2>1. (\A i \in DOMAIN toChild : PostTrue(toChild[i]))'
    BY <1>4, <1>5, PostedAre
  <2>2. \A v \in work' : PostTrue(v.post)'
    BY <1>3, <1>4, <1>5, <1>6 DEF SInv, Judging, PostsTrue
  <2>3. work' \subseteq [post : Post, at : {"verifying", "running"}]
    BY <1>3, <1>6 DEF SInv, Judging, PostsTrue
  <2> QED BY <1>5, <2>1, <2>2, <2>3 DEF PostsTrue
<1>8. PostsOnce'
  <2>1. \A v, u \in work' : v.post.call = u.post.call => v = u
    BY <1>3, <1>5, <1>6 DEF SInv, Judging, PostsOnce
  <2>2. \A i \in DOMAIN toChild', v \in work' : toChild'[i].call # v.post.call
    BY <1>3, <1>5, <1>6
  <2> QED BY <1>5, <2>1, <2>2 DEF PostsOnce
<1>9. CountedTrue'
  <2>1. /\ \A k \in counted : k.call \in Posted /\ k.who = Who(k.call)
        /\ \A j, k \in counted : j.call = k.call => j = k
        /\ \A k \in counted, v \in work : v.at = "verifying" => k.call # v.post.call
    BY DEF SInv, Judging, CountedTrue
  <2>2. \A k \in counted, v \in work' : v.at = "verifying" => k.call # v.post.call
    BY <1>3, <1>5, <1>6, <2>1
  <2> QED BY <1>3, <1>4, <1>5, <2>1, <2>2 DEF CountedTrue
<1>10. Timing'
  BY <1>3, TimingStays DEF budget
<1> QED BY <1>4, <1>7, <1>8, <1>9, <1>10 DEF SInv, Judging

\* A post is denied before its token is looked at.
LEMMA RefuseKeeps ==
  ASSUME SInv, Refuse
  PROVE  SInv'
<1>1. PICK p : p = Head(toChild)
  OBVIOUS
<1>2. PICK who : who = "nobody"
  OBVIOUS
<1>3. PICK res : res = Error("denied")
  OBVIOUS
<1>4. /\ alive /\ toChild # <<>> /\ toChild' = Tail(toChild) /\ Inside
      /\ Logged(p, who, res) /\ Send(p, res)
      /\ UNCHANGED <<pending, verdict, exited, alive, work, windows, lastSweep, counted, now>>
  BY <1>1, <1>2, <1>3 DEF Refuse, Inside, browser, server, budget
<1>5. /\ PostTrue(p) /\ toChild' \in Seq(Post)
      /\ \A i \in DOMAIN toChild' :
           /\ PostTrue(toChild'[i]) /\ toChild'[i].call # p.call
           /\ \A j \in DOMAIN toChild' : toChild'[i].call = toChild'[j].call => i = j
           /\ \A v \in work : toChild'[i].call # v.post.call
           /\ \A k \in counted : k.call # toChild'[i].call
      /\ \A v \in work : v.post.call # p.call
      /\ \A k \in counted : k.call # p.call
  BY <1>1, <1>4, HeadGoes
<1>6. who \in {"nobody", p.who} /\ res \in Heard
  BY <1>2, <1>3 DEF Heard
<1>7. /\ Browsing' /\ Posting' /\ AuditTrue' /\ Telling'
      /\ \A q : PostTrue(q) /\ q.call # p.call => PostTrue(q)'
      /\ Posted' = Posted /\ \A c : Who(c)' = Who(c)
  BY <1>4, <1>5, <1>6, LogKeeps
<1>8. PostsTrue'
  <2>1. (\A i \in DOMAIN toChild : PostTrue(toChild[i]))'
    BY <1>5, <1>7, PostedAre
  <2>2. \A v \in work' : PostTrue(v.post)'
    BY <1>4, <1>5, <1>7 DEF SInv, Judging, PostsTrue
  <2> QED BY <1>4, <1>5, <2>1, <2>2 DEF SInv, Judging, PostsTrue
<1>9. PostsOnce'
  BY <1>4, <1>5 DEF SInv, Judging, PostsOnce
<1>10. CountedTrue'
  BY <1>4, <1>5, <1>7 DEF SInv, Judging, CountedTrue
<1>11. Timing'
  BY <1>4, TimingStays DEF budget
<1> QED BY <1>7, <1>8, <1>9, <1>10, <1>11 DEF SInv, Judging

\* The monitor is done with a call.
LEMMA WorkDone ==
  ASSUME SInv, NEW w \in work, work' = work \ {w}, toChild' = toChild,
         \A q : PostTrue(q) /\ q.call # w.post.call => PostTrue(q)'
  PROVE  PostsTrue' /\ PostsOnce'
<1>1. /\ toChild \in Seq(Post) /\ \A i \in DOMAIN toChild : PostTrue(toChild[i])
      /\ work \subseteq [post : Post, at : {"verifying", "running"}]
      /\ \A v \in work : PostTrue(v.post)
  BY DEF SInv, Judging, PostsTrue
<1>2. /\ \A i, j \in DOMAIN toChild : toChild[i].call = toChild[j].call => i = j
      /\ \A v, u \in work : v.post.call = u.post.call => v = u
      /\ \A i \in DOMAIN toChild, v \in work : toChild[i].call # v.post.call
  BY DEF SInv, Judging, PostsOnce
<1>3. (\A i \in DOMAIN toChild : PostTrue(toChild[i]))'
  BY <1>1, <1>2, PostedAre
<1>4. \A v \in work' : PostTrue(v.post)'
  BY <1>1, <1>2
<1> QED BY <1>1, <1>2, <1>3, <1>4 DEF PostsTrue, PostsOnce

\* A call whose token is verified is counted, as its own principal and for the first time.
LEMMA CountedOnce ==
  ASSUME SInv, NEW w \in work, w.at = "verifying", Count(w), toChild' = toChild,
         Posted' = Posted, \A c : Who(c)' = Who(c),
         \A v \in work' : v.at = "verifying" => v \in work /\ v # w
  PROVE  CountedTrue'
<1>1. PICK k : k = [who |-> w.post.who, at |-> now, ok |-> Admits(w.post.who),
                    call |-> w.post.call]
  OBVIOUS
<1>2. k.who = w.post.who /\ k.call = w.post.call /\ counted' = counted \cup {k}
  BY <1>1 DEF Count
<1>3. w.post.call \in Posted /\ w.post.who = Who(w.post.call)
  BY DEF SInv, Judging, PostsTrue, PostTrue
<1>4. /\ \A j \in counted : j.call \in Posted /\ j.who = Who(j.call)
      /\ \A i, j \in counted : i.call = j.call => i = j
      /\ \A j \in counted, i \in DOMAIN toChild : j.call # toChild[i].call
      /\ \A j \in counted, v \in work : v.at = "verifying" => j.call # v.post.call
  BY DEF SInv, Judging, CountedTrue
<1>5. /\ \A v, u \in work : v.post.call = u.post.call => v = u
      /\ \A i \in DOMAIN toChild, v \in work : toChild[i].call # v.post.call
  BY DEF SInv, Judging, PostsOnce
<1>6. \A j \in counted' : j.call \in Posted /\ j.who = Who(j.call)
  BY <1>2, <1>3, <1>4
<1>7. \A i, j \in counted' : i.call = j.call => i = j
  BY <1>2, <1>4
<1>8. \A j \in counted', i \in DOMAIN toChild : j.call # toChild[i].call
  BY <1>2, <1>4, <1>5
<1>9. \A j \in counted', v \in work' : v.at = "verifying" => j.call # v.post.call
  BY <1>2, <1>4, <1>5
<1> QED BY <1>6, <1>7, <1>8, <1>9 DEF CountedTrue

\* A counted call is denied.
LEMMA DenyKeeps ==
  ASSUME SInv, NEW w \in work, Deny(w)
  PROVE  SInv'
<1>1. PICK p : p = w.post
  OBVIOUS
<1>2. PICK who : who = p.who
  OBVIOUS
<1>3. PICK res : res = Error("denied")
  OBVIOUS
<1>4. /\ alive /\ w.at = "verifying" /\ Count(w) /\ work' = work \ {w} /\ Inside
      /\ Logged(p, who, res) /\ Send(p, res)
      /\ UNCHANGED <<pending, verdict, exited, alive, toChild, now>>
  BY <1>1, <1>2, <1>3 DEF Deny, Inside, browser, server
<1>5. PostTrue(p)
  BY <1>1 DEF SInv, Judging, PostsTrue
<1>6. who \in {"nobody", p.who} /\ res \in Heard
  BY <1>2, <1>3 DEF Heard
<1>7. /\ Browsing' /\ Posting' /\ AuditTrue' /\ Telling'
      /\ \A q : PostTrue(q) /\ q.call # p.call => PostTrue(q)'
      /\ Posted' = Posted /\ \A c : Who(c)' = Who(c)
  BY <1>4, <1>5, <1>6, LogKeeps
<1>8. PostsTrue' /\ PostsOnce'
  BY <1>1, <1>4, <1>7, WorkDone
<1>9. CountedTrue'
  BY <1>4, <1>7, CountedOnce
<1>10. Timing'
  BY <1>4, CountTiming
<1> QED BY <1>7, <1>8, <1>9, <1>10 DEF SInv, Judging

\* A counted call begins to run.
LEMMA AllowKeeps ==
  ASSUME SInv, NEW w \in work, Allow(w)
  PROVE  SInv'
<1>1. PICK v : v = [w EXCEPT !.at = "running"]
  OBVIOUS
<1>2. /\ alive /\ w.at = "verifying" /\ Count(w) /\ work' = (work \ {w}) \cup {v} /\ Inside
      /\ UNCHANGED <<pending, verdict, exited, toParent, alive, toChild, audit, now>>
  BY <1>1 DEF Allow, Inside, browser, server
<1>3. /\ Browsing' /\ Posting' /\ AuditTrue' /\ Telling'
      /\ \A q : PostTrue(q) => PostTrue(q)'
      /\ Posted' = Posted /\ \A c : Who(c)' = Who(c)
  BY <1>2, TellingStays
<1>4. /\ toChild \in Seq(Post) /\ \A i \in DOMAIN toChild : PostTrue(toChild[i])
      /\ work \subseteq [post : Post, at : {"verifying", "running"}]
      /\ \A u \in work : PostTrue(u.post)
  BY DEF SInv, Judging, PostsTrue
<1>5. v \in [post : Post, at : {"verifying", "running"}] /\ v.post = w.post /\ v.at = "running"
  BY <1>1, <1>4
<1>6. PostsTrue'
  <2>1. (\A i \in DOMAIN toChild : PostTrue(toChild[i]))'
    BY <1>2, <1>3, <1>4, PostedAre
  <2>2. \A u \in work' : PostTrue(u.post)'
    BY <1>2, <1>3, <1>4, <1>5
  <2>3. work' \subseteq [post : Post, at : {"verifying", "running"}]
    BY <1>2, <1>4, <1>5
  <2> QED BY <1>2, <1>4, <2>1, <2>2, <2>3 DEF PostsTrue
<1>7. PostsOnce'
  <2>1. /\ \A i, j \in DOMAIN toChild : toChild[i].call = toChild[j].call => i = j
        /\ \A u, x \in work : u.post.call = x.post.call => u = x
        /\ \A i \in DOMAIN toChild, u \in work : toChild[i].call # u.post.call
    BY DEF SInv, Judging, PostsOnce
  <2>2. \A u, x \in work' : u.post.call = x.post.call => u = x
    BY <1>2, <1>5, <2>1
  <2>3. \A i \in DOMAIN toChild, u \in work' : toChild[i].call # u.post.call
    BY <1>2, <1>5, <2>1
  <2> QED BY <1>2, <2>1, <2>2, <2>3 DEF PostsOnce
<1>8. CountedTrue'
  <2>1. \A u \in work' : u.at = "verifying" => u \in work /\ u # w
    BY <1>2, <1>5
  <2> QED BY <1>2, <1>3, <2>1, CountedOnce
<1>9. Timing'
  BY <1>2, CountTiming
<1> QED BY <1>3, <1>6, <1>7, <1>8, <1>9 DEF SInv, Judging

\* A call has run.
LEMMA RanKeeps ==
  ASSUME SInv, NEW w \in work, Ran(w)
  PROVE  SInv'
<1>1. PICK p : p = w.post
  OBVIOUS
<1>2. PICK who : who = p.who
  OBVIOUS
<1>3. PostTrue(p)
  BY <1>1 DEF SInv, Judging, PostsTrue
<1>4. PICK res : res \in {Yields(p.call), Error("threw")} /\ Send(p, res) /\ Logged(p, who, res)
  BY <1>1, <1>2 DEF Ran
<1>5. /\ alive /\ w.at = "running" /\ work' = work \ {w} /\ Inside
      /\ UNCHANGED <<pending, verdict, exited, alive, toChild, windows, lastSweep, counted, now>>
  BY DEF Ran, Inside, browser, server, budget
<1>6. who \in {"nobody", p.who} /\ res \in Heard
  <2>1. p.call \in Call
    BY <1>3 DEF PostTrue, Post
  <2> QED BY <1>2, <1>4, <2>1 DEF Heard
<1>7. /\ Browsing' /\ Posting' /\ AuditTrue' /\ Telling'
      /\ \A q : PostTrue(q) /\ q.call # p.call => PostTrue(q)'
      /\ Posted' = Posted /\ \A c : Who(c)' = Who(c)
  BY <1>3, <1>4, <1>5, <1>6, LogKeeps
<1>8. PostsTrue' /\ PostsOnce'
  BY <1>1, <1>5, <1>7, WorkDone
<1>9. CountedTrue'
  BY <1>5, <1>7 DEF SInv, Judging, CountedTrue
<1>10. Timing'
  BY <1>5, TimingStays DEF budget
<1> QED BY <1>7, <1>8, <1>9, <1>10 DEF SInv, Judging

\* The clock.
LEMMA TickKeeps ==
  ASSUME SInv, Tick
  PROVE  SInv'
<1>1. /\ Inside
      /\ UNCHANGED <<pending, verdict, exited, toParent, alive, toChild, work, audit, counted>>
  BY DEF Tick, Inside, browser, server, monitor, budget
<1>2. alive \/ work' = {}
  BY <1>1 DEF SInv, Telling
<1>3. Browsing' /\ Posting' /\ Telling' /\ Posted' = Posted
  BY <1>1, <1>2, TellingStays
<1>4. Judging'
  BY <1>1, <1>3, JudgingStays
<1>5. Timing'
  BY TickTiming
<1> QED BY <1>3, <1>4, <1>5 DEF SInv

-----------------------------------------------------------------------------
(* The invariant.                                                          *)

\* At the start nothing has been asked.
LEMMA InitSInv == Init => SInv
<1> SUFFICES ASSUME Init
             PROVE  SInv
  OBVIOUS
<1>1. /\ setting \in Settings /\ issued = {} /\ result = <<>> /\ batches = {} /\ open = TRUE
      /\ queues = [r \in Route |-> <<>>]
      /\ pending = <<>> /\ nextId = 1 /\ verdict = <<>> /\ exited = FALSE
      /\ toChild = <<>> /\ toParent = <<>> /\ alive = TRUE /\ work = {}
  BY DEF Init
<1>2. /\ windows = <<>> /\ lastSweep = 0 /\ now = Window
      /\ audit = [c \in Call |-> <<>>] /\ counted = {}
  BY DEF Init
<1>3. /\ DOMAIN result = {} /\ DOMAIN verdict = {} /\ DOMAIN pending = {} /\ DOMAIN windows = {}
      /\ DOMAIN toChild = {} /\ DOMAIN toParent = {}
  BY <1>1, <1>2
<1>4. Queued = {}
  BY <1>1 DEF Queued, Range
<1>5. Range(pending) = {} /\ Posted = {}
  BY <1>3 DEF Range, Posted
<1>6. Browsing
  BY <1>1, <1>3, <1>4 DEF Browsing, QueuesApart, RequestsApart, Distinct
<1>7. Posting
  BY <1>1, <1>3, <1>5 DEF Posting, Distinct
<1>8. Judging
  <2>1. PostsTrue
    BY <1>1, <1>3 DEF PostsTrue
  <2>2. PostsOnce
    BY <1>1, <1>3 DEF PostsOnce
  <2>3. AuditTrue
    <3>1. \A c \in Call : audit[c] = <<>>
      BY <1>2
    <3>2. audit \in [Call -> Seq([who : {"nobody"} \cup Principal, res : Heard])]
      BY <1>2
    <3> QED BY <3>1, <3>2 DEF AuditTrue
  <2>4. CountedTrue
    BY <1>2 DEF CountedTrue
  <2> QED BY <2>1, <2>2, <2>3, <2>4 DEF Judging
<1>9. Telling
  <2>1. open \in BOOLEAN /\ exited \in BOOLEAN /\ alive \in BOOLEAN /\ (exited => ~alive) /\ alive
    BY <1>1
  <2>2. toParent \in Seq([id : 1..(nextId - 1), res : Heard])
    BY <1>1
  <2> QED BY <1>1, <1>3, <2>1, <2>2 DEF Telling
<1>10. Timing
  <2>1. Window \in Nat \ {0}
    BY ServiceAssumption
  <2>2. Clocked
    BY <1>2, <1>3, <2>1, FS_EmptySet DEF Clocked
  <2>3. Swift
    BY <1>2, <1>3 DEF Swift
  <2>4. PICK starts : starts = [p \in Principal |-> {}]
    OBVIOUS
  <2>5. starts \in Starts
    BY <2>4 DEF Starts
  <2>6. Divides(starts)
    BY <1>2, <1>3, <2>4 DEF Divides
  <2> QED BY <1>2, <2>2, <2>3, <2>5, <2>6 DEF Timing
<1> QED BY <1>6, <1>7, <1>8, <1>9, <1>10 DEF SInv

\* Every step keeps the invariant.
LEMMA StepKeeps == SInv /\ [Next]_vars => SInv'
<1> SUFFICES ASSUME SInv, [Next]_vars
             PROVE  SInv'
  OBVIOUS
<1>1. CASE \E c \in Call : Issue(c)
  BY <1>1, IssueKeeps
<1>2. CASE Flush
  <2>1. CASE open
    BY <1>2, <2>1, FlushKeeps
  <2>2. CASE ~open
    BY <1>2, <2>2, FlushClosedKeeps
  <2> QED BY <2>1, <2>2
<1>3. CASE \E b \in batches : Reply(b) \/ Serve(b) \/ NoHost(b) \/ Answer(b)
  BY <1>3, ReplyKeeps, ServeKeeps, NoHostKeeps, AnswerKeeps
<1>4. CASE SidecarReply
  BY <1>4, SidecarReplyKeeps
<1>5. CASE ExitEvent
  BY <1>5, ExitSeenKeeps
<1>6. CASE Receive
  BY <1>6, ReceiveKeeps
<1>7. CASE Refuse
  BY <1>7, RefuseKeeps
<1>8. CASE \E w \in work : Deny(w) \/ Allow(w) \/ Ran(w)
  BY <1>8, DenyKeeps, AllowKeeps, RanKeeps
<1>9. CASE Close
  BY <1>9, CloseKeeps
<1>10. CASE Exit
  BY <1>10, ExitKeeps
<1>11. CASE Tick
  BY <1>11, TickKeeps
<1>12. CASE UNCHANGED vars
  <2>1. /\ Inside
        /\ UNCHANGED <<pending, verdict, exited, toParent, alive, toChild, work, audit, counted>>
        /\ UNCHANGED <<windows, lastSweep, now>>
    BY <1>12 DEF vars, Inside, browser, server, monitor, budget
  <2>2. alive \/ work' = {}
    BY <2>1 DEF SInv, Telling
  <2>3. Browsing' /\ Posting' /\ Telling' /\ Posted' = Posted
    BY <2>1, <2>2, TellingStays
  <2>4. Judging'
    BY <2>1, <2>3, JudgingStays
  <2>5. Timing'
    BY <2>1, TimingStays DEF budget
  <2> QED BY <2>3, <2>4, <2>5 DEF SInv
<1> QED BY <1>1, <1>2, <1>3, <1>4, <1>5, <1>6, <1>7, <1>8, <1>9, <1>10, <1>11, <1>12
        DEF Next, Progress

\* The invariant holds throughout.
LEMMA Inductive == Spec => []SInv
BY InitSInv, StepKeeps, PTL DEF Spec

-----------------------------------------------------------------------------
(* What the runs check.                                                    *)

\* What the monitor has logged is one of its outcomes.
LEMMA AuditedHeard ==
  ASSUME SInv, NEW c \in Call, NEW res, Audited(c, res)
  PROVE  res \in Heard
<1> DEFINE Entry == [who : {"nobody"} \cup Principal, res : Heard]
<1>1. audit[c] \in Seq(Entry)
  BY DEF SInv, Judging, AuditTrue
<1>2. \A e \in Entry : e.res \in Heard
  OBVIOUS
<1> HIDE DEF Entry
<1>3. PICK i \in DOMAIN audit[c] : audit[c][i].res = res
  BY DEF Audited
<1>4. audit[c][i] \in Entry
  BY <1>1, <1>3, RangeIn
<1> QED BY <1>2, <1>3, <1>4

\* A caller gets the outcome the monitor came to on its own call.
LEMMA SInvOwnAnswer == SInv => OwnAnswer
<1> SUFFICES ASSUME SInv, NEW c \in DOMAIN result
             PROVE  CASE result[c] = Error("exited") -> ~alive
                      [] result[c] = Error("closed") -> ~open
                      [] result[c] = Error("no reply") -> audit[c] = <<>>
                      [] OTHER -> \E i \in DOMAIN audit[c] : audit[c][i].res = result[c]
  BY DEF OwnAnswer
<1>1. c \in Call
  BY DEF SInv, Browsing
<1>2. Explained(c)
  BY DEF SInv, Telling, Explained
<1>3. Audited(c, result[c]) => result[c] \in Heard
  BY <1>1, AuditedHeard
<1>4. CASE result[c] = Error("exited")
  <2>1. ~alive
    BY <1>2, <1>3, <1>4, ErrorsDiffer DEF Explained, Honest
  <2>2. result[c] # Error("closed") /\ result[c] # Error("no reply")
    BY <1>4, ErrorsDiffer
  <2> QED BY <1>4, <2>1, <2>2
<1>5. CASE result[c] = Error("closed")
  <2>1. ~open
    BY <1>2, <1>3, <1>5, ErrorsDiffer DEF Explained, Honest
  <2>2. result[c] # Error("exited") /\ result[c] # Error("no reply")
    BY <1>5, ErrorsDiffer
  <2> QED BY <1>5, <2>1, <2>2
<1>6. CASE result[c] = Error("no reply")
  <2>1. Unposted(c)
    BY <1>6 DEF Unposted
  <2>2. c \notin Posted
    BY <2>1 DEF SInv, Posting
  <2>3. audit[c] = <<>>
    BY <1>1, <2>2 DEF SInv, Judging, AuditTrue
  <2>4. result[c] # Error("exited") /\ result[c] # Error("closed")
    BY <1>6, ErrorsDiffer
  <2> QED BY <1>6, <2>3, <2>4
<1>7. CASE result[c] \notin {Error("exited"), Error("closed"), Error("no reply")}
  <2>1. \E i \in DOMAIN audit[c] : audit[c][i].res = result[c]
    BY <1>2, <1>7 DEF Explained, Honest, Audited
  <2> QED BY <1>7, <2>1
<1> QED BY <1>4, <1>5, <1>6, <1>7

\* A call is judged and counted once, as the principal its payload leads to.
LEMMA SInvJudged == SInv => JudgedAsItself
<1> SUFFICES ASSUME SInv
             PROVE  JudgedAsItself
  OBVIOUS
<1>1. \A c \in Call : /\ Len(audit[c]) <= 1
                      /\ \A i \in DOMAIN audit[c] : audit[c][i].who \in {"nobody", Who(c)}
  BY DEF SInv, Judging, AuditTrue
<1>2. \A k \in counted : k.who = Who(k.call) /\ \A j \in counted : j.call = k.call => j = k
  BY DEF SInv, Judging, CountedTrue
<1> QED BY <1>1, <1>2 DEF JudgedAsItself

\* The types follow from what is known of every call.
LEMMA SInvTypeOK == SInv => TypeOK
<1> SUFFICES ASSUME SInv
             PROVE  TypeOK
  OBVIOUS
<1>1. /\ setting \in Settings /\ issued \subseteq Call /\ DOMAIN result \subseteq issued
      /\ \A r \in Route : \A i \in DOMAIN queues[r] : Key(queues[r][i]) = r
  BY DEF SInv, Browsing, QueuesApart
<1>2. Heard \subseteq Res /\ Error("closed") \in Res /\ Error("no reply") \in Res
  BY DEF Heard, Res
<1>3. \A c, res : c \in issued /\ Honest(c, res) => res \in Res
  BY <1>1, HonestRes
<1>4. Range(result) \subseteq Res
  <2>1. SUFFICES ASSUME NEW c \in DOMAIN result
                 PROVE  result[c] \in Res
    BY DEF Range
  <2>2. Explained(c)
    BY DEF SInv, Telling, Explained
  <2> QED BY <1>1, <1>2, <1>3, <2>2 DEF Explained
<1>5. /\ open \in BOOLEAN /\ exited \in BOOLEAN /\ alive \in BOOLEAN /\ (exited => ~alive)
      /\ alive \/ work = {}
  BY DEF SInv, Telling
<1>6. ASSUME NEW b \in batches
      PROVE  /\ b.calls \in Seq(issued) /\ b.calls # <<>>
             /\ b.at \in {"wire", "served", "answered"}
             /\ DOMAIN b.reply \in {{}, DOMAIN b.calls} /\ Range(b.reply) \subseteq Res
  <2>1. Request(b)
    BY DEF SInv, Browsing, RequestsApart
  <2>2. /\ b \in [calls : Seq(issued), at : {"wire", "served", "answered"}, reply : Seq(Res)]
        /\ b.calls # <<>> /\ (b.reply # <<>> => DOMAIN b.reply = DOMAIN b.calls)
    BY <2>1 DEF Request
  <2>3. /\ b.calls \in Seq(issued) /\ b.reply \in Seq(Res)
        /\ b.at \in {"wire", "served", "answered"}
    BY <2>2
  <2>4. Range(b.reply) \subseteq Res
    BY <2>3, RangeIn
  <2>5. DOMAIN b.reply \in {{}, DOMAIN b.calls}
    BY <2>2
  <2> QED BY <2>2, <2>3, <2>4, <2>5
<1>7. /\ DOMAIN pending \subseteq 1..(nextId - 1) /\ Range(pending) \subseteq issued
      /\ DOMAIN verdict \subseteq issued \ Range(pending)
  BY DEF SInv, Posting, Posted
<1>8. Range(verdict) \subseteq Res
  <2>1. SUFFICES ASSUME NEW c \in DOMAIN verdict
                 PROVE  verdict[c] \in Res
    BY DEF Range
  <2>2. Honest(c, verdict[c])
    BY DEF SInv, Telling
  <2> QED BY <1>3, <1>7, <2>2
<1>9. toChild \in Seq(Post) /\ work \subseteq [post : Post, at : {"verifying", "running"}]
  BY DEF SInv, Judging, PostsTrue
<1>10. \A i \in DOMAIN toParent : toParent[i].id \in 1..(nextId - 1) /\ toParent[i].res \in Res
  <2> DEFINE M == [id : 1..(nextId - 1), res : Heard]
  <2>1. toParent \in Seq(M)
    BY DEF SInv, Telling
  <2>2. \A m \in M : m.id \in 1..(nextId - 1) /\ m.res \in Heard
    OBVIOUS
  <2> HIDE DEF M
  <2>3. \A i \in DOMAIN toParent : toParent[i] \in M
    BY <2>1, RangeIn
  <2> QED BY <1>2, <2>2, <2>3
<1>11. /\ DOMAIN windows \subseteq Principal /\ lastSweep \in 0..now /\ now \in Nat
       /\ \A p \in DOMAIN windows : windows[p].start \in 0..now /\ windows[p].count \in Nat \ {0}
  BY DEF SInv, Timing, Clocked
<1> QED BY <1>1, <1>4, <1>5, <1>6, <1>7, <1>8, <1>9, <1>10, <1>11 DEF TypeOK

\* Types: in particular a call the client took on is awaited by one id or has its verdict,
\* never both, and a process that died handles nothing (api/sidecar.mts).
THEOREM TypeCorrect == Spec => []TypeOK
BY Inductive, SInvTypeOK, PTL

\* A caller gets the outcome the monitor came to on that very call: whatever travels
\* together, in whatever order replies come, nobody gets another's answer
\* (batchExec, host.mts; startSidecar, api/sidecar.mts).
THEOREM AnswersAreOwn == Spec => []OwnAnswer
BY Inductive, SInvOwnAnswer, PTL

\* A call is judged at most once and counted at most once, as the principal its own payload
\* leads to: no call rides on the token of another (host.mts, api/api.mts).
THEOREM NobodyElse == Spec => []JudgedAsItself
BY Inductive, SInvJudged, PTL

\* The rate budget: what a principal can get out of a window of the clock (_allowRate,
\* api/api.mts).
THEOREM BudgetHolds == Spec => []Budget
<1>1. SInv => Budget
  BY TimingBudget DEF SInv
<1> QED BY <1>1, Inductive, PTL

\* The monitor's map of windows holds no principal that was quiet for two windows
\* (_allowRate's sweep, api/api.mts).
THEOREM MapBounded == Spec => []WindowsBounded
<1>1. SInv => WindowsBounded
  BY TimingBounded DEF SInv
<1> QED BY <1>1, Inductive, PTL

=============================================================================
