---------------------------- MODULE SessionProofs ----------------------------
(***************************************************************************)
(* Proofs about Session, for every number of sessions, all programs and    *)
(* modes: type correctness, OneContinuation, ReleasedAtEnd, and that       *)
(* Session implements Workflow.                                            *)
(*                                                                         *)
(* The invariant SInv has a part for each session.  Placed says where its  *)
(* continuation is: what the driver awaits, what the far tier works at and *)
(* which frames of the session are in flight fit together.  Freed is about *)
(* the heaps of a session that is over.  Ordered ties the continuation,    *)
(* wherever it is, to the touches that happened and to what the program    *)
(* saw of them: one that may run (Ready) is at the touch after the last    *)
(* one seen, and no later one has happened, but for the one the driver     *)
(* fetches; a fetched touch that has not happened (Pends) is the next one, *)
(* or one that the program was told is lost with the connection; what      *)
(* runLocal carries (Bears) is the last thing the program saw.             *)
(*                                                                         *)
(* A step of a session leaves the others alone (OthersKeep), so each       *)
(* action is left with its own session: where it leaves the continuation,  *)
(* and which step of Workflow it is, if any.                               *)
(***************************************************************************)
EXTENDS Session, FiniteSetTheorems, TLAPS

\* The frames of a session in a queue.
Frames(q, s) == {q[i] : i \in {j \in DOMAIN q : q[j].s = s}}

\* At most one of them is about where the session's continuation is.
One(q, s) ==
  \A i, j \in DOMAIN q :
    q[i].s = s /\ q[j].s = s /\ q[i].kind # "release" /\ q[j].kind # "release" => i = j

AllReleases(q, s) == \A f \in Frames(q, s) : f.kind = "release"

-----------------------------------------------------------------------------
(* Queues.                                                                 *)

\* Membership in Frames.
LEMMA InFrames ==
  ASSUME NEW q, NEW s, NEW f
  PROVE  f \in Frames(q, s) <=> \E i \in DOMAIN q : q[i].s = s /\ f = q[i]
BY DEF Frames

\* A frame put at the end of a queue.
LEMMA QueuePut ==
  ASSUME NEW S, NEW q \in Seq(S), NEW m \in S
  PROVE  LET p == q \o <<m>>
         IN  /\ p \in Seq(S)
             /\ DOMAIN p = 1..(Len(q) + 1) /\ DOMAIN q = 1..Len(q) /\ Len(q) \in Nat
             /\ p[Len(q) + 1] = m /\ \A i \in 1..Len(q) : p[i] = q[i]
OBVIOUS

\* A frame taken from the head of a queue.
LEMMA QueueTake ==
  ASSUME NEW S, NEW q \in Seq(S), q # <<>>
  PROVE  LET p == Tail(q)
         IN  /\ p \in Seq(S)
             /\ DOMAIN p = 1..(Len(q) - 1) /\ DOMAIN q = 1..Len(q) /\ Len(q) \in Nat
             /\ Len(q) > 0 /\ q[1] = Head(q)
             /\ \A i \in 1..(Len(q) - 1) : p[i] = q[i + 1]
OBVIOUS

\* What a frame put at the end adds to the frames of each session.
LEMMA FramesPut ==
  ASSUME NEW S, NEW q \in Seq(S), NEW m \in S, NEW s
  PROVE  LET p == q \o <<m>>
         IN  /\ m.s = s => Frames(p, s) = Frames(q, s) \cup {m}
             /\ m.s # s => Frames(p, s) = Frames(q, s)
             /\ One(q, s) /\ (m.s # s \/ m.kind = "release" \/ AllReleases(q, s)) => One(p, s)
<1> DEFINE p == q \o <<m>>
           n == Len(q) + 1
<1>1. /\ DOMAIN p = 1..n /\ DOMAIN q = 1..Len(q) /\ n = Len(q) + 1 /\ Len(q) \in Nat
      /\ p[n] = m /\ \A i \in 1..Len(q) : p[i] = q[i]
  BY QueuePut
<1> HIDE DEF p, n
<1>2. /\ n \in DOMAIN p /\ n \notin DOMAIN q
      /\ \A i : i \in DOMAIN p <=> i \in DOMAIN q \/ i = n
  BY <1>1
<1>3. \A i \in DOMAIN q : p[i] = q[i]
  BY <1>1
<1>4. ASSUME NEW f
      PROVE  f \in Frames(p, s) <=> f \in Frames(q, s) \/ (f = m /\ m.s = s)
  BY <1>1, <1>2, <1>3, InFrames
<1>5. ASSUME One(q, s), m.s # s \/ m.kind = "release" \/ AllReleases(q, s)
      PROVE  One(p, s)
  <2>1. ASSUME NEW i \in DOMAIN p, NEW j \in DOMAIN p, p[i].s = s, p[j].s = s,
               p[i].kind # "release", p[j].kind # "release"
        PROVE  i = j
    <3>1. ASSUME i = n \/ j = n
          PROVE  AllReleases(q, s)
      BY <1>1, <1>5, <2>1, <3>1
    <3>2. AllReleases(q, s) => \A l \in DOMAIN q : q[l].s = s => q[l].kind = "release"
      BY InFrames DEF AllReleases
    <3>3. CASE i = n \/ j = n
      BY <1>2, <1>3, <2>1, <3>1, <3>2, <3>3
    <3>4. CASE i # n /\ j # n
      BY <1>2, <1>3, <1>5, <2>1, <3>4 DEF One
    <3> QED BY <3>3, <3>4
  <2> QED BY <2>1 DEF One
<1>6. m.s = s => Frames(p, s) = Frames(q, s) \cup {m}
  BY <1>4
<1>7. m.s # s => Frames(p, s) = Frames(q, s)
  BY <1>4
<1> QED BY <1>5, <1>6, <1>7 DEF p

\* What taking the first frame leaves of the frames of each session.
LEMMA FramesTake ==
  ASSUME NEW S, NEW q \in Seq(S), q # <<>>, NEW s
  PROVE  LET p == Tail(q)
         IN  /\ Frames(p, s) \subseteq Frames(q, s)
             /\ Head(q).s = s => /\ Head(q) \in Frames(q, s)
                                 /\ Frames(q, s) \subseteq Frames(p, s) \cup {Head(q)}
             /\ Head(q).s # s => Frames(p, s) = Frames(q, s)
             /\ One(q, s) => One(p, s)
             /\ One(q, s) /\ Head(q).s = s /\ Head(q).kind # "release" => AllReleases(p, s)
<1> DEFINE p == Tail(q)
           m == Head(q)
<1>1. /\ DOMAIN p = 1..(Len(q) - 1) /\ DOMAIN q = 1..Len(q) /\ Len(q) \in Nat
      /\ Len(q) > 0 /\ q[1] = m /\ \A i \in 1..(Len(q) - 1) : p[i] = q[i + 1]
  BY QueueTake
<1> HIDE DEF p, m
<1>2. \A i \in DOMAIN p : i \in Nat /\ i + 1 \in DOMAIN q /\ p[i] = q[i + 1] /\ i + 1 # 1
  BY <1>1
<1>3. \A i \in DOMAIN q : i # 1 => i \in Nat /\ i - 1 \in DOMAIN p /\ p[i - 1] = q[i]
  BY <1>1
<1>4. 1 \in DOMAIN q
  BY <1>1
<1>5. ASSUME NEW f
      PROVE  /\ f \in Frames(p, s) => f \in Frames(q, s)
             /\ f \in Frames(q, s) => f \in Frames(p, s) \/ (f = m /\ m.s = s)
             /\ m.s = s => m \in Frames(q, s)
  <2>1. f \in Frames(p, s) => f \in Frames(q, s)
    BY <1>2, InFrames
  <2>2. f \in Frames(q, s) => f \in Frames(p, s) \/ (f = m /\ m.s = s)
    BY <1>1, <1>3, InFrames
  <2>3. m.s = s => m \in Frames(q, s)
    BY <1>1, <1>4, InFrames
  <2> QED BY <2>1, <2>2, <2>3
<1>6. One(q, s) => One(p, s)
  <2> SUFFICES ASSUME One(q, s), NEW i \in DOMAIN p, NEW j \in DOMAIN p, p[i].s = s,
                      p[j].s = s, p[i].kind # "release", p[j].kind # "release"
               PROVE  i = j
    BY DEF One
  <2>1. i + 1 = j + 1
    BY <1>2 DEF One
  <2> QED BY <1>2, <2>1
<1>7. One(q, s) /\ m.s = s /\ m.kind # "release" => AllReleases(p, s)
  <2> SUFFICES ASSUME One(q, s), m.s = s, m.kind # "release", NEW f \in Frames(p, s)
               PROVE  f.kind = "release"
    BY DEF AllReleases
  <2>1. PICK i \in DOMAIN p : p[i].s = s /\ f = p[i]
    BY InFrames
  <2>2. i + 1 \in DOMAIN q /\ q[i + 1] = p[i] /\ i + 1 # 1
    BY <1>2
  <2> QED BY <1>1, <1>4, <2>1, <2>2 DEF One
<1> QED BY <1>5, <1>6, <1>7 DEF p, m

-----------------------------------------------------------------------------
(* Frames in flight.                                                       *)

Frame == UNION {Message(z) : z \in Session}

\* The connection, the functions and the heaps.
Shape ==
  /\ [program |-> program, mode |-> mode] \in Casts
  /\ DOMAIN driver = Session /\ DOMAIN remote = Session /\ DOMAIN log = Session
  /\ DOMAIN saw = Session
  /\ result \in [Session -> {"none", "value", "error"}]
  /\ held \in [Tier -> SUBSET Session]
  /\ toward \in [Tier -> Seq(Frame)]
  /\ up \in BOOLEAN /\ closed \in [Tier -> BOOLEAN]
  /\ \A t \in Tier : closed[t] => ~up /\ toward[t] = <<>>

\* The frames of other sessions stay where they are.
FramesStay(s) ==
  \A z \in Session, u \in Tier : z # s =>
    Frames(toward'[u], z) = Frames(toward[u], z) /\ (One(toward[u], z) => One(toward'[u], z))

\* A session's two tiers are the two tiers.
LEMMA Tiers ==
  ASSUME NEW s \in Session
  PROVE  Home[s] \in Tier /\ Away(s) \in Tier /\ Home[s] # Away(s)
         /\ \A t \in Tier : t = Home[s] \/ t = Away(s)
BY HomeAssumption DEF Away, Far, Tier

\* A message of a session is a frame and names it.
LEMMA MessageOf ==
  ASSUME NEW s \in Session, NEW m \in Message(s)
  PROVE  m.s = s /\ m \in Frame
BY DEF Message, Frame

\* A frame of session s is sent to tier t, unless the connection is down.
Added(s, t, m) ==
  /\ toward' \in [Tier -> Seq(Frame)]
  /\ \A u \in Tier : u # t => toward'[u] = toward[u]
  /\ \A u \in Tier : closed[u] => toward'[u] = <<>>
  /\ up => Frames(toward'[t], s) = Frames(toward[t], s) \cup {m}
  /\ ~up => toward' = toward
  /\ One(toward[t], s) /\ (m.kind = "release" \/ AllReleases(toward[t], s)) =>
       One(toward'[t], s)
  /\ FramesStay(s)

\* Sent adds its frame, or nothing once the connection is down.
LEMMA SentFrames ==
  ASSUME Shape, NEW s \in Session, NEW t \in Tier, NEW m \in Message(s),
         toward' = Sent(t, <<m>>)
  PROVE  Added(s, t, m)
<1>1. m.s = s /\ m \in Frame
  BY MessageOf
<1>2. toward \in [Tier -> Seq(Frame)] /\ \A u \in Tier : closed[u] => ~up /\ toward[u] = <<>>
  BY DEF Shape
<1>3. CASE ~up
  <2>1. toward' = toward
    BY <1>3 DEF Sent
  <2> QED BY <1>2, <1>3, <2>1 DEF FramesStay, Added
<1>4. CASE up
  <2>1. toward' = [toward EXCEPT ![t] = @ \o <<m>>]
    BY <1>4 DEF Sent
  <2> DEFINE q == toward[t]
             p == q \o <<m>>
  <2>2. q \in Seq(Frame)
    BY <1>2
  <2>3. p \in Seq(Frame)
    BY <1>1, <2>2, QueuePut
  <2>4. toward' = [toward EXCEPT ![t] = p]
    BY <2>1
  <2>5. \A z : /\ m.s = z => Frames(p, z) = Frames(q, z) \cup {m}
               /\ m.s # z => Frames(p, z) = Frames(q, z)
               /\ One(q, z) /\ (m.s # z \/ m.kind = "release" \/ AllReleases(q, z)) => One(p, z)
    BY <1>1, <2>2, FramesPut
  <2> HIDE DEF p
  <2>6. toward'[t] = p /\ \A u \in Tier : u # t => toward'[u] = toward[u]
    BY <1>2, <2>4
  <2>7. toward' \in [Tier -> Seq(Frame)]
    BY <1>2, <2>3, <2>4
  <2>8. FramesStay(s)
    BY <1>1, <2>5, <2>6 DEF FramesStay
  <2>9. /\ Frames(toward'[t], s) = Frames(toward[t], s) \cup {m}
        /\ One(toward[t], s) /\ (m.kind = "release" \/ AllReleases(toward[t], s)) =>
             One(toward'[t], s)
    BY <1>1, <2>5, <2>6
  <2> QED BY <1>2, <1>4, <2>6, <2>7, <2>8, <2>9 DEF Added
<1> QED BY <1>3, <1>4

\* Tier t takes the first frame of its queue, m of session s; queues is what is left.
Removed(s, t, m, queues) ==
  /\ queues \in [Tier -> Seq(Frame)] /\ m \in Message(s)
  /\ \A u \in Tier : u # t => queues[u] = toward[u]
  /\ \A u \in Tier : closed[u] => queues[u] = <<>>
  /\ m \in Frames(toward[t], s)
  /\ Frames(queues[t], s) \subseteq Frames(toward[t], s)
  /\ Frames(toward[t], s) \subseteq Frames(queues[t], s) \cup {m}
  /\ One(toward[t], s) => One(queues[t], s)
  /\ One(toward[t], s) /\ m.kind # "release" => AllReleases(queues[t], s)
  /\ \A z \in Session, u \in Tier : z # s =>
       /\ Frames(queues[u], z) = Frames(toward[u], z)
       /\ One(toward[u], z) => One(queues[u], z)

\* A frame that arrives is taken from the queue it is at the head of.
LEMMA TakenFrames ==
  ASSUME Shape, NEW s \in Session, NEW t \in Tier, NEW kinds, Arrives(t, kinds, s),
         NEW queues, queues = Taken(t)
  PROVE  Head(toward[t]).kind \in kinds /\ Removed(s, t, Head(toward[t]), queues)
<1> DEFINE m == Head(toward[t])
           q == toward[t]
           p == Tail(q)
<1>1. ~closed[t] /\ q # <<>> /\ m.kind \in kinds /\ m.s = s
  BY DEF Arrives
<1>2. toward \in [Tier -> Seq(Frame)] /\ \A u \in Tier : closed[u] => ~up /\ toward[u] = <<>>
  BY DEF Shape
<1>3. q \in Seq(Frame)
  BY <1>2
<1>4. queues = [toward EXCEPT ![t] = p]
  BY DEF Taken
<1>5. p \in Seq(Frame)
  BY <1>1, <1>3, QueueTake
<1>6. \A z : /\ Frames(p, z) \subseteq Frames(q, z)
             /\ m.s = z => m \in Frames(q, z) /\ Frames(q, z) \subseteq Frames(p, z) \cup {m}
             /\ m.s # z => Frames(p, z) = Frames(q, z)
             /\ One(q, z) => One(p, z)
             /\ One(q, z) /\ m.s = z /\ m.kind # "release" => AllReleases(p, z)
  BY <1>1, <1>3, FramesTake
<1> HIDE DEF p
<1>7. queues[t] = p /\ \A u \in Tier : u # t => queues[u] = toward[u]
  BY <1>2, <1>4
<1>8. queues \in [Tier -> Seq(Frame)]
  BY <1>2, <1>4, <1>5
<1>9. \A u \in Tier : closed[u] => queues[u] = <<>>
  BY <1>1, <1>2, <1>7
<1>10. \A z \in Session, u \in Tier : z # s =>
         /\ Frames(queues[u], z) = Frames(toward[u], z)
         /\ One(toward[u], z) => One(queues[u], z)
  BY <1>1, <1>6, <1>7
<1> HIDE DEF m
<1>11. /\ m \in Frames(toward[t], s)
       /\ Frames(queues[t], s) \subseteq Frames(toward[t], s)
       /\ Frames(toward[t], s) \subseteq Frames(queues[t], s) \cup {m}
       /\ One(toward[t], s) => One(queues[t], s)
       /\ One(toward[t], s) /\ m.kind # "release" => AllReleases(queues[t], s)
  BY <1>1, <1>6, <1>7
<1>12. m \in Message(s)
  <2>1. q[1] \in Frame /\ m = q[1]
    BY <1>1, <1>3, QueueTake DEF m
  <2>2. \A z \in Session : m \in Message(z) => m.s = z
    BY MessageOf
  <2> QED BY <1>1, <2>1, <2>2 DEF Frame, m
<1> QED BY <1>1, <1>7, <1>8, <1>9, <1>10, <1>11, <1>12 DEF m, Removed

-----------------------------------------------------------------------------
(* The invariant.                                                          *)

\* The frames about session s that are not releases.
Requests(s) == {f \in Frames(toward[Away(s)], s) : f.kind # "release"}
Replies(s) == Frames(toward[Home[s]], s)

PointTyped(s, D) ==
  /\ D.k \in Continuation(s)
  /\ D.at = "exec" => D.k.pc <= Len(program[s])

\* Where the continuation of a session is: the driver is at D and the far tier's handler at R,
\* Asking are the frames that travel to the far tier and Telling those that travel home.
PlacedAs(s, D, R, Asking, Telling) ==
  /\ D \in {Idle, Over} \/ (D.at \in {"pump", "resume", "exec"} /\ PointTyped(s, D))
  /\ R = Idle \/ (R.at \in {"pump", "exec"} /\ PointTyped(s, R))
  /\ \A f \in Asking : /\ f.kind \in {"resume", "exec"}
                     /\ f.kind = "exec" => f.k.pc <= Len(program[s])
  /\ \A f \in Telling : f.kind \in {"suspend", "done", "error", "fetched"}
  /\ \/ Asking = {} /\ Telling = {}
     \/ R = Idle /\ Telling = {} /\ \E f \in Asking : Asking = {f}
     \/ R = Idle /\ Asking = {} /\ \E f \in Telling : Telling = {f}
  /\ D = Idle => Asking = {} /\ R = Idle /\ Telling = {}
  /\ D.at \in {"pump", "over"} /\ ~closed[Home[s]] => Asking = {} /\ R = Idle /\ Telling = {}
  /\ D.at \in {"pump", "exec"} => /\ \A f \in Asking : f.kind = "exec"
                                  /\ R.at # "pump"
                                  /\ \A f \in Telling : f.kind = "fetched"
  /\ D.at = "resume" => /\ \A f \in Asking : f.kind = "resume"
                        /\ R.at # "exec"
                        /\ \A f \in Telling : f.kind # "fetched"
                        /\ up => ~(Asking = {} /\ R = Idle /\ Telling = {})

Placed(s) ==
  /\ PlacedAs(s, driver[s], remote[s], Requests(s), Replies(s))
  /\ One(toward[Away(s)], s) /\ One(toward[Home[s]], s)

\* A session that is over is held nowhere, but for a release on its way.
Releasing(s) == \E f \in Frames(toward[Away(s)], s) : f.kind = "release"
Freed(s) ==
  mode[s] # "local" /\ driver[s] = Over /\ up =>
    /\ s \notin held[Home[s]]
    /\ s \in held[Away(s)] => Releasing(s)

\* How many of its touches the program has seen.
Passed(s) == Len(saw[s])
Origin == {"touch", "unsent", "lost", "before"}
Answer == [ok : BOOLEAN, from : Origin]

\* Nothing has happened of what follows them.
Behind(s) == \A i \in DOMAIN log[s] : log[s][i].touch <= Passed(s)

\* A continuation that tier t may pump.
Ready(s, k, t) ==
  /\ k.for = "raise" => Promise!Cut(s)
  /\ k.for # "raise" => k.pc = Passed(s) + 1 /\ ~Promise!Cut(s)
  /\ k.for = "touch" => k.pc <= Len(program[s]) /\ program[s][k.pc].owner = t

\* A touch that is still to happen on the far tier; the driver, at D, awaits it or was told
\* that its answer is lost.
Pends(s, k, D) ==
  /\ program[s][k.pc].owner = Away(s) /\ k.pc \notin Promise!Happened(s)
  /\ D.at = "exec" => k = D.k
  /\ D.at # "exec" => k.pc <= Passed(s) /\ saw[s][k.pc].from = "lost" /\ ~up

\* The touch the driver fetches is the next one.
Fetches(s, k) ==
  /\ k.for = "touch" /\ program[s][k.pc].owner = Away(s)
  /\ k.pc = Passed(s) + 1 /\ ~Promise!Cut(s)

\* What runLocal carries at D is the answer that the program saw last, of a touch that was
\* not one of the home tier, or one repeated from it.
Bears(s, D) ==
  D.carried # "nothing" =>
    /\ mode[s] = "local" /\ Passed(s) # 0
    /\ D.carried = IF saw[s][Passed(s)].ok THEN "value" ELSE "error"
    /\ program[s][Passed(s)].owner # Home[s] \/ saw[s][Passed(s)].from = "before"

\* What a frame that travels home tells.
Tells(s, f, D) ==
  /\ f.kind = "suspend" => Ready(s, f.k, Home[s])
  /\ f.kind = "done" => Passed(s) = Len(program[s]) /\ ~Promise!Cut(s)
  /\ f.kind = "error" => Passed(s) < Len(program[s]) \/ Promise!Cut(s)
  /\ f.kind = "fetched" =>
       \E i \in DOMAIN log[s] : log[s][i].touch = D.k.pc /\ log[s][i].ok = f.ok

OrderedAs(s, D, R, Asking, Telling) ==
  /\ D.at = "pump" => Ready(s, D.k, Home[s]) /\ Bears(s, D)
  /\ D.at = "exec" => Fetches(s, D.k)
  /\ D.at # "exec" => Behind(s)
  /\ D = Idle => Passed(s) = 0
  /\ D # Over => result[s] = "none"
  /\ R.at = "pump" => Ready(s, R.k, Away(s))
  /\ R.at = "exec" => Pends(s, R.k, D)
  /\ \A f \in Asking : /\ f.kind = "resume" => Ready(s, f.k, Away(s))
                       /\ f.kind = "exec" => Pends(s, f.k, D)
  /\ \A f \in Telling : Tells(s, f, D)

Entries(s) == Seq([touch : DOMAIN program[s], ok : BOOLEAN, at : Tier])
Logged(s) ==
  /\ log[s] \in Entries(s)
  /\ saw[s] \in Seq(Answer) /\ Passed(s) <= Len(program[s])
  /\ \A i \in DOMAIN log[s] : log[s][i].touch <= Passed(s) + 1

Ordered(s) ==
  Logged(s) /\ OrderedAs(s, driver[s], remote[s], Requests(s), Replies(s))

SInv == Shape /\ \A s \in Session : Placed(s) /\ Freed(s) /\ Ordered(s)

-----------------------------------------------------------------------------
(* A step of one session.                                                  *)

Calm == UNCHANGED <<program, mode, up, closed>>

\* A function that may differ at s.
Sets(f, g, s) == DOMAIN g = DOMAIN f /\ \A z \in DOMAIN f : z # s => g[z] = f[z]

Acts(s) ==
  /\ Calm
  /\ Sets(driver, driver', s) /\ Sets(remote, remote', s) /\ Sets(log, log', s)
  /\ Sets(saw, saw', s)
  /\ result' \in [Session -> {"none", "value", "error"}] /\ Sets(result, result', s)
  /\ held' \in [Tier -> SUBSET Session]
  /\ \A t \in Tier, z \in Session : z # s => (z \in held'[t] <=> z \in held[t])
  /\ toward' \in [Tier -> Seq(Frame)]
  /\ \A u \in Tier : closed[u] => toward'[u] = <<>>
  /\ FramesStay(s)

\* What the step makes of the session itself.
Becomes(s, D, R, Asking, Telling) ==
  /\ driver'[s] = D /\ remote'[s] = R
  /\ Requests(s)' = Asking /\ Replies(s)' = Telling
  /\ One(toward'[Away(s)], s) /\ One(toward'[Home[s]], s)

\* The program and the mode of a session.
LEMMA ProgramTyped ==
  ASSUME Shape, NEW s \in Session
  PROVE  /\ program[s] \in Seq(Segment) /\ Len(program[s]) \in Nat
         /\ DOMAIN program[s] = 1..Len(program[s])
         /\ mode[s] \in {"run", "call", "local"}
<1>1. program \in [Session -> Seq(Segment)] /\ mode \in [Session -> {"run", "call", "local"}]
  BY CastsAssumption DEF Shape
<1> QED BY <1>1

\* A session's step keeps the shape of the state.
LEMMA ActsShape ==
  ASSUME Shape, NEW s \in Session, Acts(s)
  PROVE  Shape'
<1>1. Calm
  BY DEF Acts
<1>2. Frame' = Frame
  BY <1>1 DEF Calm, Frame, Message, Continuation
<1>3. toward' \in [Tier -> Seq(Frame')]
  BY <1>2 DEF Acts
<1> QED BY <1>1, <1>3 DEF Shape, Acts, Sets, Calm

\* Nothing of a session's history has changed.
LEMMA SameHistory ==
  ASSUME NEW z, saw'[z] = saw[z], log'[z] = log[z], program' = program, mode' = mode
  PROVE  /\ Passed(z)' = Passed(z) /\ (Behind(z)' <=> Behind(z)) /\ (Logged(z)' <=> Logged(z))
         /\ Promise!Cut(z)' <=> Promise!Cut(z)
         /\ Promise!Happened(z)' = Promise!Happened(z)
         /\ \A D : Bears(z, D)' <=> Bears(z, D)
<1>1. Passed(z)' = Passed(z)
  BY DEF Passed
<1>2. Behind(z)' <=> Behind(z)
  BY <1>1 DEF Behind
<1>3. Logged(z)' <=> Logged(z)
  BY <1>1 DEF Logged, Entries
<1>4. Promise!Cut(z)' <=> Promise!Cut(z)
  BY DEF Promise!Cut, Promise!Last
<1>5. Promise!Happened(z)' = Promise!Happened(z)
  BY DEF Promise!Happened
<1>6. \A D : Bears(z, D)' <=> Bears(z, D)
  BY <1>1 DEF Bears
<1> QED BY <1>1, <1>2, <1>3, <1>4, <1>5, <1>6

\* A session's step leaves the other sessions' part of the invariant alone.
LEMMA OthersKeep ==
  ASSUME SInv, NEW s \in Session, Acts(s), NEW z \in Session, z # s
  PROVE  Placed(z)' /\ Freed(z)' /\ Ordered(z)'
<1>1. Placed(z) /\ Freed(z) /\ Ordered(z) /\ Shape
  BY DEF SInv
<1>2. /\ driver'[z] = driver[z] /\ remote'[z] = remote[z] /\ log'[z] = log[z]
      /\ saw'[z] = saw[z] /\ result'[z] = result[z]
      /\ \A t \in Tier : z \in held'[t] <=> z \in held[t]
  BY <1>1 DEF Acts, Sets, Shape
<1>3. Home[z] \in Tier /\ Away(z) \in Tier
  BY Tiers
<1>4. /\ Frames(toward'[Home[z]], z) = Frames(toward[Home[z]], z)
      /\ Frames(toward'[Away(z)], z) = Frames(toward[Away(z)], z)
      /\ One(toward[Home[z]], z) => One(toward'[Home[z]], z)
      /\ One(toward[Away(z)], z) => One(toward'[Away(z)], z)
  BY <1>3 DEF Acts, FramesStay
<1>5. program' = program /\ mode' = mode /\ up' = up /\ closed' = closed
  BY DEF Acts, Calm
<1>6. Requests(z)' = Requests(z) /\ Replies(z)' = Replies(z) /\ (Releasing(z)' <=> Releasing(z))
  BY <1>4 DEF Requests, Replies, Away, Releasing
<1>8. Freed(z)'
  BY <1>1, <1>2, <1>3, <1>5, <1>6 DEF Freed, Away
<1>9. /\ Passed(z)' = Passed(z) /\ (Behind(z)' <=> Behind(z)) /\ (Logged(z)' <=> Logged(z))
      /\ Promise!Cut(z)' <=> Promise!Cut(z)
      /\ Promise!Happened(z)' = Promise!Happened(z)
      /\ \A D : Bears(z, D)' <=> Bears(z, D)
  BY <1>2, <1>5, SameHistory
<1>10. Logged(z)'
  BY <1>1, <1>9 DEF Ordered
<1>11. \A k, t : Ready(z, k, t)' <=> Ready(z, k, t)
  BY <1>2, <1>5, <1>9 DEF Ready
<1>12. \A k, D : Pends(z, k, D)' <=> Pends(z, k, D)
  BY <1>2, <1>5, <1>9 DEF Pends, Away
<1>13. \A k : Fetches(z, k)' <=> Fetches(z, k)
  BY <1>2, <1>5, <1>9 DEF Fetches, Away
<1>14. \A f, D : Tells(z, f, D)' <=> Tells(z, f, D)
  BY <1>2, <1>5, <1>9, <1>11 DEF Tells
<1>15. \A D, R, P, Q : OrderedAs(z, D, R, P, Q)' <=> OrderedAs(z, D, R, P, Q)
  BY <1>2, <1>9, <1>11, <1>12, <1>13, <1>14 DEF OrderedAs, Away
<1>16. OrderedAs(z, driver[z], remote[z], Requests(z), Replies(z))
  BY <1>1 DEF Ordered
<1>17. \A D, R, P, Q : PlacedAs(z, D, R, P, Q)' <=> PlacedAs(z, D, R, P, Q)
  BY <1>5 DEF PlacedAs, PointTyped, Continuation
<1>18. PICK D, R, P, Q : D = driver[z] /\ R = remote[z] /\ P = Requests(z) /\ Q = Replies(z)
  OBVIOUS
<1>19. PlacedAs(z, D, R, P, Q)' /\ OrderedAs(z, D, R, P, Q)'
  BY <1>1, <1>15, <1>16, <1>17, <1>18 DEF Placed
<1>20. /\ D = driver'[z] /\ R = remote'[z] /\ P = Requests(z)' /\ Q = Replies(z)'
  BY <1>2, <1>6, <1>18
<1>21. /\ PlacedAs(z, driver[z], remote[z], Requests(z), Replies(z))'
       /\ OrderedAs(z, driver[z], remote[z], Requests(z), Replies(z))'
  BY <1>19, <1>20 DEF PlacedAs, OrderedAs
<1>22. One(toward[Away(z)], z)' /\ One(toward[Home[z]], z)'
  BY <1>1, <1>4 DEF Placed, Away
<1> QED BY <1>8, <1>10, <1>21, <1>22 DEF Placed, Ordered

\* A session's own step keeps the invariant when it keeps the session's part.
LEMMA ActsKeep ==
  ASSUME SInv, NEW s \in Session, Acts(s), Placed(s)', Freed(s)', Ordered(s)'
  PROVE  SInv'
<1>1. Shape'
  BY ActsShape DEF SInv
<1> QED BY <1>1, OthersKeep DEF SInv

\* The session's part, once it is known where the step leaves it.
LEMMA PlacedThen ==
  ASSUME NEW s \in Session, Calm, NEW D, NEW R, NEW P, NEW Q,
         Becomes(s, D, R, P, Q), PlacedAs(s, D, R, P, Q)
  PROVE  Placed(s)'
BY DEF Placed, PlacedAs, Becomes, PointTyped, Continuation, Calm, Away

\* The same for the order of its touches.
LEMMA OrderedThen ==
  ASSUME NEW s \in Session, NEW D, NEW R, NEW P, NEW Q,
         Becomes(s, D, R, P, Q), Logged(s)', OrderedAs(s, D, R, P, Q)'
  PROVE  Ordered(s)'
BY DEF Ordered, OrderedAs, Becomes

-----------------------------------------------------------------------------
(* What the steps do to the queues.                                        *)

Carried(s) ==
  /\ toward' \in [Tier -> Seq(Frame)]
  /\ \A u \in Tier : closed[u] => toward'[u] = <<>>
  /\ FramesStay(s)
  /\ One(toward'[Away(s)], s) /\ One(toward'[Home[s]], s)

\* A step that sends and takes nothing.
LEMMA CarriesNothing ==
  ASSUME SInv, NEW s \in Session, toward' = toward
  PROVE  /\ Carried(s) /\ Requests(s)' = Requests(s) /\ Replies(s)' = Replies(s)
         /\ Releasing(s)' <=> Releasing(s)
<1>1. Placed(s) /\ Shape
  BY DEF SInv
<1>2. Carried(s)
  BY <1>1 DEF Carried, Shape, FramesStay, Placed
<1> QED BY <1>2 DEF Requests, Replies, Releasing, Away

\* A request is sent to the far tier.
LEMMA CarriesAway ==
  ASSUME SInv, NEW s \in Session, NEW m \in Message(s), m.kind \in {"resume", "exec"},
         Requests(s) = {}, toward' = Sent(Away(s), <<m>>)
  PROVE  /\ Carried(s) /\ Replies(s)' = Replies(s)
         /\ up => Requests(s)' = {m}
         /\ ~up => Requests(s)' = {}
<1>1. Placed(s) /\ Shape
  BY DEF SInv
<1>2. Home[s] \in Tier /\ Away(s) \in Tier /\ Home[s] # Away(s)
  BY Tiers
<1>3. AllReleases(toward[Away(s)], s)
  BY DEF Requests, AllReleases
<1>4. Added(s, Away(s), m)
  BY <1>1, <1>2, <1>3, SentFrames
<1>5. Carried(s)
  <2>1. One(toward[Away(s)], s) /\ One(toward[Home[s]], s)
    BY <1>1 DEF Placed
  <2>2. One(toward'[Away(s)], s)
    BY <1>3, <1>4, <2>1 DEF Added
  <2>3. toward'[Home[s]] = toward[Home[s]]
    BY <1>2, <1>4 DEF Added
  <2>4. /\ toward' \in [Tier -> Seq(Frame)] /\ FramesStay(s)
        /\ \A u \in Tier : closed[u] => toward'[u] = <<>>
    BY <1>4 DEF Added
  <2> QED BY <2>1, <2>2, <2>3, <2>4 DEF Carried
<1>6. Requests(s)' = {f \in Frames(toward'[Away(s)], s) : f.kind # "release"}
  BY DEF Requests, Away
<1>7. up => Requests(s)' = {m}
  BY <1>3, <1>4, <1>6 DEF Added, AllReleases
<1>8. ~up => Requests(s)' = {}
  BY <1>4, <1>6 DEF Added, Requests
<1>9. Replies(s)' = Replies(s)
  BY <1>2, <1>4 DEF Added, Replies
<1> QED BY <1>5, <1>7, <1>8, <1>9

\* A reply is sent home.
LEMMA CarriesHome ==
  ASSUME SInv, NEW s \in Session, NEW m \in Message(s),
         Replies(s) = {}, toward' = Sent(Home[s], <<m>>)
  PROVE  /\ Carried(s) /\ Requests(s)' = Requests(s) /\ (Releasing(s)' <=> Releasing(s))
         /\ up => Replies(s)' = {m}
         /\ ~up => Replies(s)' = {}
<1>1. Placed(s) /\ Shape
  BY DEF SInv
<1>2. Home[s] \in Tier /\ Away(s) \in Tier /\ Home[s] # Away(s)
  BY Tiers
<1>3. AllReleases(toward[Home[s]], s)
  BY DEF Replies, AllReleases
<1>4. Added(s, Home[s], m)
  BY <1>1, <1>2, <1>3, SentFrames
<1>5. Carried(s)
  <2>1. One(toward[Away(s)], s) /\ One(toward[Home[s]], s)
    BY <1>1 DEF Placed
  <2>2. One(toward'[Home[s]], s)
    BY <1>3, <1>4, <2>1 DEF Added
  <2>3. toward'[Away(s)] = toward[Away(s)]
    BY <1>2, <1>4 DEF Added
  <2>4. /\ toward' \in [Tier -> Seq(Frame)] /\ FramesStay(s)
        /\ \A u \in Tier : closed[u] => toward'[u] = <<>>
    BY <1>4 DEF Added
  <2> QED BY <2>1, <2>2, <2>3, <2>4 DEF Carried
<1>6. Requests(s)' = Requests(s) /\ (Releasing(s)' <=> Releasing(s))
  BY <1>2, <1>4 DEF Added, Requests, Away, Releasing
<1>7. (up => Replies(s)' = {m}) /\ (~up => Replies(s)' = {})
  BY <1>4 DEF Added, Replies
<1> QED BY <1>5, <1>6, <1>7

Release(s) == [kind |-> "release", s |-> s]

\* A release is sent to the far tier (host.mts:203-205).
LEMMA CarriesRelease ==
  ASSUME SInv, NEW s \in Session, toward' = Sent(Away(s), Told(s))
  PROVE  /\ Carried(s) /\ Requests(s)' = Requests(s) /\ Replies(s)' = Replies(s)
         /\ up => Releasing(s)'
<1>1. Placed(s) /\ Shape
  BY DEF SInv
<1>2. Home[s] \in Tier /\ Away(s) \in Tier /\ Home[s] # Away(s)
  BY Tiers
<1> DEFINE m == Release(s)
<1>3. m \in Message(s) /\ m.kind = "release" /\ Told(s) = <<m>>
  BY DEF Message, Told, Release
<1> HIDE DEF m
<1>4. Added(s, Away(s), m)
  BY <1>1, <1>2, <1>3, SentFrames
<1>5. Carried(s)
  <2>1. One(toward[Away(s)], s) /\ One(toward[Home[s]], s)
    BY <1>1 DEF Placed
  <2>2. One(toward'[Away(s)], s)
    BY <1>3, <1>4, <2>1 DEF Added
  <2>3. toward'[Home[s]] = toward[Home[s]]
    BY <1>2, <1>4 DEF Added
  <2>4. /\ toward' \in [Tier -> Seq(Frame)] /\ FramesStay(s)
        /\ \A u \in Tier : closed[u] => toward'[u] = <<>>
    BY <1>4 DEF Added
  <2> QED BY <2>1, <2>2, <2>3, <2>4 DEF Carried
<1>6. Requests(s)' = {f \in Frames(toward'[Away(s)], s) : f.kind # "release"}
  BY DEF Requests, Away
<1>7. Requests(s)' = Requests(s)
  BY <1>3, <1>4, <1>6 DEF Added, Requests, Shape, SInv
<1>8. Replies(s)' = Replies(s)
  BY <1>2, <1>4 DEF Added, Replies
<1>9. up => Releasing(s)'
  BY <1>3, <1>4 DEF Added, Releasing, Away
<1> QED BY <1>5, <1>7, <1>8, <1>9

\* A tier takes the first frame of its queue; queues is what is left.
Left(s, queues) ==
  /\ queues \in [Tier -> Seq(Frame)]
  /\ \A u \in Tier : closed[u] => queues[u] = <<>>
  /\ One(queues[Away(s)], s) /\ One(queues[Home[s]], s)
  /\ \A z \in Session, u \in Tier : z # s =>
       /\ Frames(queues[u], z) = Frames(toward[u], z)
       /\ One(toward[u], z) => One(queues[u], z)

\* A step that only takes a frame.
LEMMA LeftIsCarried ==
  ASSUME NEW s \in Session, Left(s, toward')
  PROVE  Carried(s)
BY DEF Carried, Left, FramesStay

\* A reply taken at home is the only frame of its session, but for releases.
LEMMA TakesHome ==
  ASSUME SInv, NEW s \in Session, NEW kinds, Arrives(Home[s], kinds, s),
         NEW queues, queues = Taken(Home[s])
  PROVE  LET m == Head(toward[Home[s]])
         IN  /\ m \in Message(s) /\ m.kind \in kinds /\ Replies(s) = {m}
             /\ ~closed[Home[s]] /\ Requests(s) = {} /\ remote[s] = Idle
             /\ Left(s, queues) /\ Frames(queues[Home[s]], s) = {}
             /\ queues[Away(s)] = toward[Away(s)]
<1>1. Placed(s) /\ Shape
  BY DEF SInv
<1>2. Home[s] \in Tier /\ Away(s) \in Tier /\ Home[s] # Away(s)
  BY Tiers
<1> DEFINE m == Head(toward[Home[s]])
           q == toward[Home[s]]
           p == queues[Home[s]]
<1>3. m.kind \in kinds /\ Removed(s, Home[s], m, queues)
  BY <1>1, <1>2, TakenFrames
<1> HIDE DEF m, p
<1>4. m \in Replies(s)
  BY <1>3 DEF Replies, Removed, p
<1>5. PlacedAs(s, driver[s], remote[s], Requests(s), Replies(s))
  BY <1>1 DEF Placed
<1>6. Replies(s) = {m} /\ Requests(s) = {} /\ remote[s] = Idle
  BY <1>4, <1>5 DEF PlacedAs
<1>7. \A f \in Replies(s) : f.kind # "release"
  BY <1>5 DEF PlacedAs
<1>8. Frames(p, s) = {}
  BY <1>1, <1>3, <1>4, <1>7 DEF Placed, Replies, AllReleases, Removed, p
<1>9. m \in Message(s)
  BY <1>3 DEF Removed
<1>10. Left(s, queues)
  BY <1>1, <1>2, <1>3 DEF Left, Placed, p, Removed
<1>11. ~closed[Home[s]]
  BY DEF Arrives
<1> QED BY <1>2, <1>3, <1>6, <1>8, <1>9, <1>10, <1>11 DEF m, p, Removed

\* A request taken by the far tier is the only frame of its session, but for releases.
LEMMA TakesAway ==
  ASSUME SInv, NEW s \in Session, NEW kinds, Arrives(Away(s), kinds, s),
         toward' = Taken(Away(s))
  PROVE  LET m == Head(toward[Away(s)])
         IN  /\ m \in Message(s) /\ m.kind \in kinds
             /\ Carried(s) /\ Replies(s)' = Replies(s)
             /\ m.kind = "release" => Requests(s)' = Requests(s)
             /\ m.kind # "release" => /\ Requests(s) = {m} /\ Requests(s)' = {}
                                      /\ remote[s] = Idle /\ Replies(s) = {}
                                      /\ Releasing(s)' <=> Releasing(s)
<1>1. Placed(s) /\ Shape
  BY DEF SInv
<1>2. Home[s] \in Tier /\ Away(s) \in Tier /\ Home[s] # Away(s)
  BY Tiers
<1> DEFINE m == Head(toward[Away(s)])
           q == toward[Away(s)]
           p == toward'[Away(s)]
<1>3. m.kind \in kinds /\ Removed(s, Away(s), m, toward')
  BY <1>1, <1>2, TakenFrames
<1>4. m \in Message(s)
  BY <1>3 DEF Removed
<1> HIDE DEF m, p
<1>5. PlacedAs(s, driver[s], remote[s], Requests(s), Replies(s))
  BY <1>1 DEF Placed
<1>6. Requests(s)' = {f \in Frames(p, s) : f.kind # "release"}
  BY DEF Requests, Away, p
<1>7. Requests(s) = {f \in Frames(q, s) : f.kind # "release"}
  BY DEF Requests
<1>8. Carried(s)
  <2>1. Left(s, toward')
    BY <1>1, <1>2, <1>3 DEF Left, Placed, p, Removed
  <2> QED BY <2>1, LeftIsCarried
<1>9. Replies(s)' = Replies(s)
  BY <1>2, <1>3 DEF Replies, Removed, p
<1>10. m.kind = "release" => Requests(s)' = Requests(s)
  BY <1>3, <1>6, <1>7 DEF Removed, p
<1>11. ASSUME m.kind # "release"
       PROVE  /\ Requests(s) = {m} /\ Requests(s)' = {}
              /\ remote[s] = Idle /\ Replies(s) = {}
              /\ Releasing(s)' <=> Releasing(s)
  <2>1. m \in Requests(s)
    BY <1>3, <1>7, <1>11 DEF Removed, p
  <2>2. Requests(s) = {m} /\ remote[s] = Idle /\ Replies(s) = {}
    BY <1>5, <2>1 DEF PlacedAs
  <2>3. Requests(s)' = {}
    BY <1>1, <1>3, <1>6, <1>11 DEF Placed, AllReleases, Removed, p
  <2>4. Releasing(s)' <=> Releasing(s)
    BY <1>3, <1>11 DEF Releasing, Away, p, Removed
  <2> QED BY <2>2, <2>3, <2>4
<1> QED BY <1>3, <1>4, <1>8, <1>9, <1>10, <1>11 DEF m, Removed, p

-----------------------------------------------------------------------------
(* What every step has to show.                                            *)

\* The invariant holds again, and the step is one of Workflow or leaves its state alone.
Preserved == SInv' /\ (Promise!Next \/ UNCHANGED Promise!vars)

\* An update at s.
LEMMA SetsAt ==
  ASSUME NEW f, NEW s \in DOMAIN f, NEW e, NEW g, g = [f EXCEPT ![s] = e]
  PROVE  Sets(f, g, s) /\ g[s] = e
BY DEF Sets

\* No update.
LEMMA SetsSame ==
  ASSUME NEW f, NEW s, NEW g, g = f
  PROVE  Sets(f, g, s)
BY DEF Sets

\* The functions of the state are over the sessions.
LEMMA Domains ==
  ASSUME SInv
  PROVE  /\ DOMAIN driver = Session /\ DOMAIN remote = Session /\ DOMAIN log = Session
         /\ DOMAIN saw = Session /\ DOMAIN result = Session
BY DEF SInv, Shape

HeldApart(s) ==
  /\ held' \in [Tier -> SUBSET Session]
  /\ \A t \in Tier, z \in Session : z # s => (z \in held'[t] <=> z \in held[t])

\* Nothing is excised or released.
LEMMA HeldSame ==
  ASSUME SInv, NEW s \in Session, held' = held
  PROVE  HeldApart(s)
BY DEF SInv, Shape, HeldApart

\* A tier excises for s at most.
LEMMA HeldMore ==
  ASSUME SInv, NEW s \in Session, NEW t \in Tier, Excises(t, s)
  PROVE  HeldApart(s)
<1>1. PICK kept \in SUBSET {s} : held' = [held EXCEPT ![t] = @ \cup kept]
  BY DEF Excises
<1>2. held \in [Tier -> SUBSET Session]
  BY DEF SInv, Shape
<1> QED BY <1>1, <1>2 DEF HeldApart

\* A tier releases s.
LEMMA HeldLess ==
  ASSUME SInv, NEW s \in Session, NEW t \in Tier, held' = [held EXCEPT ![t] = @ \ {s}]
  PROVE  HeldApart(s) /\ s \notin held'[t] /\ \A u \in Tier : u # t => held'[u] = held[u]
<1>1. held \in [Tier -> SUBSET Session]
  BY DEF SInv, Shape
<1> QED BY <1>1 DEF HeldApart

ResultApart(s) ==
  /\ result' \in [Session -> {"none", "value", "error"}]
  /\ Sets(result, result', s)

\* No touch is seen.
LEMMA StillPassed ==
  ASSUME NEW s \in Session, saw' = saw
  PROVE  Sets(saw, saw', s)
BY DEF Sets

\* The parts of a session's step.
LEMMA ActsWhen ==
  ASSUME NEW s \in Session, Calm,
         Sets(driver, driver', s), Sets(remote, remote', s), Sets(log, log', s),
         Sets(saw, saw', s), ResultApart(s), HeldApart(s), Carried(s)
  PROVE  Acts(s)
BY DEF Acts, ResultApart, HeldApart, Carried

\* No call settles.
LEMMA StillResult ==
  ASSUME SInv, NEW s \in Session, result' = result
  PROVE  ResultApart(s)
BY DEF SInv, Shape, ResultApart, Sets

\* A step that moves the continuation and settles nothing.
Moves(s) == Calm /\ log' = log /\ saw' = saw /\ result' = result

\* What a step that moves the continuation leaves of the order of its touches.
LEMMA MovesKeepOrder ==
  ASSUME SInv, NEW s \in Session, Moves(s)
  PROVE  /\ Logged(s)'
         /\ \A D, R, P, Q : OrderedAs(s, D, R, P, Q)' <=> OrderedAs(s, D, R, P, Q)
<1>1. /\ program' = program /\ mode' = mode /\ up' = up
      /\ log' = log /\ saw' = saw /\ result' = result
  BY DEF Moves, Calm
<1>2. Logged(s)
  BY DEF SInv, Ordered
<1>3. /\ Passed(s)' = Passed(s) /\ (Behind(s)' <=> Behind(s)) /\ (Logged(s)' <=> Logged(s))
      /\ Promise!Cut(s)' <=> Promise!Cut(s)
      /\ Promise!Happened(s)' = Promise!Happened(s)
      /\ \A D : Bears(s, D)' <=> Bears(s, D)
  BY <1>1, SameHistory
<1>5. \A k, t : Ready(s, k, t)' <=> Ready(s, k, t)
  BY <1>1, <1>3 DEF Ready
<1>6. \A k, D : Pends(s, k, D)' <=> Pends(s, k, D)
  BY <1>1, <1>3 DEF Pends, Away
<1>7. \A k : Fetches(s, k)' <=> Fetches(s, k)
  BY <1>1, <1>3 DEF Fetches, Away
<1>8. \A f, D : Tells(s, f, D)' <=> Tells(s, f, D)
  BY <1>1, <1>3, <1>5 DEF Tells
<1>9. \A D, R, P, Q : OrderedAs(s, D, R, P, Q)' <=> OrderedAs(s, D, R, P, Q)
  BY <1>1, <1>3, <1>5, <1>6, <1>7, <1>8 DEF OrderedAs, Away
<1> QED BY <1>2, <1>3, <1>9

\* A step that moves the continuation keeps the invariant if where it leaves it is right.
LEMMA MoveKept ==
  ASSUME SInv, NEW s \in Session, Acts(s), Moves(s), NEW D, NEW R, NEW P, NEW Q,
         Becomes(s, D, R, P, Q), PlacedAs(s, D, R, P, Q), OrderedAs(s, D, R, P, Q),
         D # Over \/ ~up \/ Freed(s)'
  PROVE  Preserved
<1>1. Calm
  BY DEF Acts
<1>2. Placed(s)'
  BY <1>1, PlacedThen
<1>3. Logged(s)' /\ OrderedAs(s, D, R, P, Q)'
  BY MovesKeepOrder
<1>4. Ordered(s)'
  BY <1>3, OrderedThen
<1>5. driver'[s] = D /\ up' = up
  BY <1>1 DEF Becomes, Calm
<1>6. Freed(s)'
  BY <1>5 DEF Freed
<1>7. SInv'
  BY <1>2, <1>4, <1>6, ActsKeep
<1>8. UNCHANGED Promise!vars
  BY <1>1 DEF Promise!vars, Moves, Calm
<1> QED BY <1>7, <1>8 DEF Preserved

\* So does any step, which then has to show that Workflow allows it.
LEMMA StepKept ==
  ASSUME SInv, NEW s \in Session, Acts(s), NEW D, NEW R, NEW P, NEW Q,
         Becomes(s, D, R, P, Q), PlacedAs(s, D, R, P, Q),
         Logged(s)', OrderedAs(s, D, R, P, Q)',
         D # Over \/ ~up \/ Freed(s)',
         Promise!Next \/ UNCHANGED Promise!vars
  PROVE  Preserved
<1>1. Calm
  BY DEF Acts
<1>2. Placed(s)'
  BY <1>1, PlacedThen
<1>4. Ordered(s)'
  BY OrderedThen
<1>5. driver'[s] = D /\ up' = up
  BY <1>1 DEF Becomes, Calm
<1>6. Freed(s)'
  BY <1>5 DEF Freed
<1>7. SInv'
  BY <1>2, <1>4, <1>6, ActsKeep
<1> QED BY <1>7 DEF Preserved

\* What the invariant says of a session.
LEMMA Known ==
  ASSUME SInv, NEW s \in Session
  PROVE  /\ PlacedAs(s, driver[s], remote[s], Requests(s), Replies(s))
         /\ OrderedAs(s, driver[s], remote[s], Requests(s), Replies(s))
         /\ Logged(s) /\ Freed(s)
         /\ One(toward[Away(s)], s) /\ One(toward[Home[s]], s)
         /\ closed[Home[s]] => ~up /\ Replies(s) = {}
         /\ closed[Away(s)] => ~up
<1>1. Placed(s) /\ Ordered(s) /\ Freed(s) /\ Shape
  BY DEF SInv
<1>2. Home[s] \in Tier /\ Away(s) \in Tier
  BY Tiers
<1>3. closed[Home[s]] => ~up /\ Replies(s) = {}
  BY <1>1, <1>2 DEF Shape, Replies, Frames
<1>4. closed[Away(s)] => ~up
  BY <1>1, <1>2 DEF Shape
<1> QED BY <1>1, <1>3, <1>4 DEF Placed, Ordered

\* A step that moves the continuation at the driver's end.
LEMMA DriverMoves ==
  ASSUME SInv, NEW s \in Session, NEW D, driver' = [driver EXCEPT ![s] = D],
         remote' = remote, Moves(s), HeldApart(s), Carried(s),
         NEW P, NEW Q, Requests(s)' = P, Replies(s)' = Q,
         PlacedAs(s, D, remote[s], P, Q), OrderedAs(s, D, remote[s], P, Q), D # Over
  PROVE  Preserved
<1>1. Sets(driver, driver', s) /\ driver'[s] = D
  BY Domains, SetsAt
<1>2. Sets(remote, remote', s) /\ remote'[s] = remote[s]
  BY SetsSame
<1>3. Calm /\ Sets(log, log', s) /\ Sets(saw, saw', s) /\ result' = result
  BY SetsSame, StillPassed DEF Moves
<1>4. Acts(s)
  BY <1>1, <1>2, <1>3, StillResult, ActsWhen
<1>5. Becomes(s, D, remote[s], P, Q)
  BY <1>1, <1>2 DEF Becomes, Carried
<1> QED BY <1>4, <1>5, MoveKept

\* A step that moves the continuation at the far tier's end.
LEMMA RemoteMoves ==
  ASSUME SInv, NEW s \in Session, NEW R, remote' = [remote EXCEPT ![s] = R],
         driver' = driver, Moves(s), HeldApart(s), Carried(s),
         NEW P, NEW Q, Requests(s)' = P, Replies(s)' = Q,
         PlacedAs(s, driver[s], R, P, Q), OrderedAs(s, driver[s], R, P, Q),
         driver[s] # Over \/ ~up
  PROVE  Preserved
<1>1. Sets(driver, driver', s) /\ driver'[s] = driver[s]
  BY SetsSame
<1>2. Sets(remote, remote', s) /\ remote'[s] = R
  BY Domains, SetsAt
<1>3. Calm /\ Sets(log, log', s) /\ Sets(saw, saw', s) /\ result' = result
  BY SetsSame, StillPassed DEF Moves
<1>4. Acts(s)
  BY <1>1, <1>2, <1>3, StillResult, ActsWhen
<1>5. Becomes(s, driver[s], R, P, Q)
  BY <1>1, <1>2 DEF Becomes, Carried
<1> QED BY <1>4, <1>5, MoveKept

\* The touches seen are counted.
LEMMA Counted ==
  ASSUME SInv, NEW s \in Session
  PROVE  /\ Passed(s) \in Nat /\ Passed(s) <= Len(program[s]) /\ Len(program[s]) \in Nat
         /\ DOMAIN saw[s] = 1..Passed(s)
<1>1. saw[s] \in Seq(Answer) /\ Passed(s) <= Len(program[s])
  BY Known DEF Logged
<1>2. Len(saw[s]) \in Nat /\ DOMAIN saw[s] = 1..Len(saw[s])
  BY <1>1
<1> QED BY <1>1, <1>2, ProgramTyped DEF Passed, SInv

\* Nothing has happened of what follows the last touch seen, unless the driver fetches.
LEMMA NotYet ==
  ASSUME SInv, NEW s \in Session, Behind(s)
  PROVE  Passed(s) + 1 \notin Promise!Happened(s)
<1>1. Passed(s) \in Nat
  BY Counted
<1>2. \A i \in DOMAIN log[s] : log[s][i].touch # Passed(s) + 1
  BY <1>1 DEF Behind
<1> QED BY <1>2 DEF Promise!Happened

\* The driver has the continuation: nothing else is on its way home.
LEMMA Pumped ==
  ASSUME SInv, NEW s \in Session, NEW k, Drives(s, k)
  PROVE  /\ k \in Continuation(s) /\ Ready(s, k, Home[s]) /\ result[s] = "none"
         /\ Behind(s) /\ Bears(s, driver[s])
         /\ Replies(s) = {} /\ remote[s].at # "pump"
         /\ ~closed[Home[s]] => Requests(s) = {} /\ remote[s] = Idle
         /\ driver[s].at = "pump" /\ driver[s].k = k /\ driver[s] # Over /\ driver[s] # Idle
<1>1. driver[s].at = "pump" /\ driver[s].k = k /\ driver[s] # Over /\ driver[s] # Idle
  BY DEF Drives, Over, Idle
<1>2. /\ PlacedAs(s, driver[s], remote[s], Requests(s), Replies(s))
      /\ OrderedAs(s, driver[s], remote[s], Requests(s), Replies(s))
      /\ closed[Home[s]] => Replies(s) = {}
  BY Known
<1>3. k \in Continuation(s)
  BY <1>1, <1>2 DEF PlacedAs, PointTyped
<1>4. Ready(s, k, Home[s]) /\ result[s] = "none" /\ Behind(s) /\ Bears(s, driver[s])
  BY <1>1, <1>2 DEF OrderedAs
<1>5. /\ Replies(s) = {} /\ remote[s].at # "pump"
      /\ ~closed[Home[s]] => Requests(s) = {} /\ remote[s] = Idle
  BY <1>1, <1>2 DEF PlacedAs
<1> QED BY <1>1, <1>3, <1>4, <1>5

\* A continuation that parks on a tier may be pumped on the other.
LEMMA ParkedReady ==
  ASSUME SInv, NEW s \in Session, NEW k \in Continuation(s), NEW t \in Tier, NEW u \in Tier,
         Ready(s, k, t), Parks(s, k, t), u # t, NEW p, p = Parked(s, k, t)
  PROVE  /\ p \in Continuation(s) /\ p.pc = k.pc /\ k.pc <= Len(program[s])
         /\ p.for \in {"touch", "home"} /\ Ready(s, p, u)
         /\ p.for = "touch" => program[s][k.pc].owner = u
         /\ k.pc = Passed(s) + 1 /\ ~Promise!Cut(s)
<1>1. Len(program[s]) \in Nat /\ DOMAIN program[s] = 1..Len(program[s])
      /\ program[s] \in Seq(Segment)
  BY ProgramTyped DEF SInv
<1>2. k.pc \in 1..(Len(program[s]) + 1) /\ k.for \in {"step", "home"}
  BY DEF Continuation, Parks
<1>3. k.pc <= Len(program[s])
  BY <1>1, <1>2 DEF Parks, Finished
<1>4. p = [k EXCEPT !.for = IF RunsOn(s, k, t) THEN "touch" ELSE "home"]
  BY DEF Parked
<1>5. /\ p \in Continuation(s) /\ p.pc = k.pc /\ p.for \in {"touch", "home"}
      /\ p.for = "touch" <=> RunsOn(s, k, t)
  BY <1>4 DEF Continuation
<1>6. program[s][k.pc] \in Segment
  BY <1>1, <1>2, <1>3
<1>7. p.for = "touch" => program[s][k.pc].owner # t
  BY <1>2, <1>3, <1>5 DEF Parks, Serviced, Segm
<1>8. program[s][k.pc].owner \in Tier
  BY <1>6 DEF Segment
<1>9. p.for = "touch" => program[s][k.pc].owner = u
  BY <1>7, <1>8 DEF Tier
<1>10. k.pc = Passed(s) + 1 /\ ~Promise!Cut(s)
  BY <1>2 DEF Ready
<1>11. Ready(s, p, u)
  BY <1>3, <1>5, <1>9, <1>10 DEF Ready
<1> QED BY <1>3, <1>5, <1>9, <1>10, <1>11

\* A start or a resume.
LEMMA MadeResume ==
  ASSUME NEW s \in Session, NEW k \in Continuation(s), NEW m,
         m = [kind |-> "resume", s |-> s, k |-> k]
  PROVE  m \in Message(s) /\ m.kind = "resume" /\ m.k = k
BY DEF Message

\* An exec.
LEMMA MadeExec ==
  ASSUME NEW s \in Session, NEW k \in Continuation(s), NEW m,
         m = [kind |-> "exec", s |-> s, k |-> k]
  PROVE  m \in Message(s) /\ m.kind = "exec" /\ m.k = k
BY DEF Message

\* A suspend.
LEMMA MadeSuspend ==
  ASSUME NEW s \in Session, NEW k \in Continuation(s), NEW m,
         m = [kind |-> "suspend", s |-> s, k |-> k]
  PROVE  m \in Message(s) /\ m.kind = "suspend" /\ m.k = k
BY DEF Message

\* The last reply of a session.
LEMMA MadeFinal ==
  ASSUME NEW s \in Session, NEW kind, kind = "done" \/ kind = "error", NEW m,
         m = [kind |-> kind, s |-> s]
  PROVE  m \in Message(s) /\ m.kind = kind
BY DEF Message

\* The reply to an exec.
LEMMA MadeFetched ==
  ASSUME NEW s \in Session, NEW ok \in BOOLEAN, NEW m,
         m = [kind |-> "fetched", s |-> s, ok |-> ok]
  PROVE  m \in Message(s) /\ m.kind = "fetched" /\ (m.ok <=> ok)
BY DEF Message

\* The fields of a message.
LEMMA MessageTyped ==
  ASSUME NEW s \in Session, NEW m \in Message(s)
  PROVE  /\ m.kind = "resume" \/ m.kind = "suspend" \/ m.kind = "exec" => m.k \in Continuation(s)
         /\ m.kind = "fetched" => m.ok \in BOOLEAN
BY DEF Message

-----------------------------------------------------------------------------
(* Where a session starts.                                                 *)

\* A session that has not begun is nowhere.
LEMMA Starts ==
  ASSUME SInv, NEW s \in Session, driver[s] = Idle
  PROVE  /\ Requests(s) = {} /\ Replies(s) = {} /\ remote[s] = Idle
         /\ Start \in Continuation(s) /\ Start.pc = 1 /\ Start.for = "step"
         /\ \A t : Ready(s, Start, t)
         /\ result[s] = "none" /\ Behind(s)
<1>1. /\ PlacedAs(s, driver[s], remote[s], Requests(s), Replies(s))
      /\ OrderedAs(s, driver[s], remote[s], Requests(s), Replies(s))
  BY Known
<1>2. Requests(s) = {} /\ Replies(s) = {} /\ remote[s] = Idle
  BY <1>1 DEF PlacedAs
<1>3. Passed(s) = 0 /\ result[s] = "none" /\ Behind(s)
  BY <1>1 DEF OrderedAs, Idle, Over
<1>4. Len(program[s]) \in Nat
  BY ProgramTyped DEF SInv
<1>5. Start \in Continuation(s) /\ Start.pc = 1 /\ Start.for = "step"
  BY <1>4 DEF Start, Continuation
<1>6. ~Promise!Cut(s)
  BY <1>3 DEF Promise!Cut, Promise!Last, Passed
<1>7. \A t : Ready(s, Start, t)
  BY <1>3, <1>5, <1>6 DEF Ready
<1> QED BY <1>2, <1>3, <1>5, <1>7

\* run and runLocal begin (host.mts:235-241).
LEMMA BeginKept ==
  ASSUME SInv, NEW s \in Session, Begin(s)
  PROVE  Preserved
<1> DEFINE D == Pumping(Start)
<1>1. driver[s] = Idle /\ driver' = [driver EXCEPT ![s] = D] /\ remote' = remote
      /\ toward' = toward /\ held' = held
  BY DEF Begin
<1>2. Moves(s)
  BY DEF Begin, fixed, link, Calm, Moves
<1>3. Carried(s) /\ Requests(s)' = Requests(s) /\ Replies(s)' = Replies(s)
  BY <1>1, CarriesNothing
<1>4. /\ Requests(s) = {} /\ Replies(s) = {} /\ remote[s] = Idle
      /\ Start \in Continuation(s) /\ \A t : Ready(s, Start, t)
      /\ result[s] = "none" /\ Behind(s)
  BY <1>1, Starts
<1>5. D.at = "pump" /\ D.k = Start /\ D.carried = "nothing" /\ D # Over /\ D # Idle
  BY DEF Pumping, Over, Idle
<1> HIDE DEF D
<1>6. PlacedAs(s, D, Idle, {}, {})
  BY <1>4, <1>5 DEF PlacedAs, PointTyped, Idle
<1>7. OrderedAs(s, D, Idle, {}, {})
  BY <1>4, <1>5 DEF OrderedAs, Bears, Idle
<1> QED BY <1>1, <1>2, <1>3, <1>4, <1>5, <1>6, <1>7, HeldSame, DriverMoves

\* call begins, with a start to the far tier (host.mts:247-252).
LEMMA BeginCallKept ==
  ASSUME SInv, NEW s \in Session, BeginCall(s)
  PROVE  Preserved
<1> DEFINE D == Resuming(Start)
           m == [kind |-> "resume", s |-> s, k |-> Start]
<1>1. driver[s] = Idle /\ driver' = [driver EXCEPT ![s] = D] /\ remote' = remote
      /\ toward' = Sent(Away(s), <<m>>) /\ held' = held
  BY DEF BeginCall, Away
<1>2. Moves(s)
  BY DEF BeginCall, fixed, link, Calm, Moves
<1>3. /\ Requests(s) = {} /\ Replies(s) = {} /\ remote[s] = Idle
      /\ Start \in Continuation(s) /\ Start.pc = 1 /\ \A t : Ready(s, Start, t)
      /\ result[s] = "none" /\ Behind(s)
  BY <1>1, Starts
<1>4. m \in Message(s) /\ m.kind = "resume" /\ m.k = Start
  BY <1>3, MadeResume
<1>5. D.at = "resume" /\ D.k = Start /\ D # Over /\ D # Idle
  BY DEF Resuming, Over, Idle
<1> HIDE DEF D, m
<1>6. /\ Carried(s) /\ Replies(s)' = Replies(s)
      /\ up => Requests(s)' = {m}
      /\ ~up => Requests(s)' = {}
  BY <1>1, <1>3, <1>4, CarriesAway
<1>7. PICK P : Requests(s)' = P /\ (up => P = {m}) /\ (~up => P = {})
  BY <1>6
<1>8. PlacedAs(s, D, Idle, P, {})
  BY <1>3, <1>4, <1>5, <1>7 DEF PlacedAs, PointTyped, Idle
<1>9. OrderedAs(s, D, Idle, P, {})
  BY <1>3, <1>4, <1>5, <1>7 DEF OrderedAs, Idle
<1> QED BY <1>1, <1>2, <1>3, <1>5, <1>6, <1>7, <1>8, <1>9, HeldSame, DriverMoves

-----------------------------------------------------------------------------
(* The driving call settles.                                               *)

SettlesAs(s, r) ==
  /\ r = "value" \/ r = "error"
  /\ r = "value" => Passed(s) = Len(program[s]) /\ ~Promise!Cut(s)
  /\ r = "error" => Passed(s) < Len(program[s]) \/ Promise!Cut(s) \/ ~up
  /\ result[s] = "none"
  /\ result' = [result EXCEPT ![s] = r]

\* The result of one session changes.
LEMMA SettleResult ==
  ASSUME SInv, NEW s \in Session, NEW r, SettlesAs(s, r)
  PROVE  ResultApart(s)
<1>1. result \in [Session -> {"none", "value", "error"}]
  BY DEF SInv, Shape
<1> QED BY <1>1 DEF SettlesAs, ResultApart, Sets

\* A session that settles returns or fails, as Workflow says.
LEMMA SettlePromised ==
  ASSUME SInv, NEW s \in Session, NEW r, SettlesAs(s, r),
         Calm, saw' = saw, log' = log
  PROVE  Promise!Next
<1>1. CASE r = "value"
  <2>1. Promise!Return(s)
    BY <1>1 DEF SettlesAs, Promise!Return, Promise!Last, Passed, Calm
  <2> QED BY <2>1 DEF Promise!Next
<1>2. CASE r = "error"
  <2>1. Promise!Fail(s)
    BY <1>2 DEF SettlesAs, Promise!Fail, Promise!Last, Passed, Calm
  <2> QED BY <2>1 DEF Promise!Next
<1> QED BY <1>1, <1>2 DEF SettlesAs

\* What the result says does not enter what is left of a session that is over.
LEMMA OverOrdered ==
  ASSUME SInv, NEW s \in Session, Calm, saw' = saw, log' = log, driver[s].at # "exec",
         NEW R, NEW P, OrderedAs(s, driver[s], R, P, {})
  PROVE  Logged(s)' /\ OrderedAs(s, Over, R, P, {})'
<1>1. program' = program /\ mode' = mode /\ up' = up
  BY DEF Calm
<1>2. Logged(s) /\ Behind(s)
  BY Known DEF OrderedAs
<1>3. /\ Passed(s)' = Passed(s) /\ (Behind(s)' <=> Behind(s)) /\ (Logged(s)' <=> Logged(s))
      /\ Promise!Cut(s)' <=> Promise!Cut(s)
      /\ Promise!Happened(s)' = Promise!Happened(s)
  BY <1>1, SameHistory
<1>4. \A k, t : Ready(s, k, t)' <=> Ready(s, k, t)
  BY <1>1, <1>3 DEF Ready
<1>5. \A k : Pends(s, k, driver[s]) => Pends(s, k, Over)'
  BY <1>1, <1>3 DEF Pends, Away, Over
<1>6. Over.at = "over" /\ Over # Idle
  BY DEF Over, Idle
<1> HIDE DEF Over
<1>9. OrderedAs(s, Over, R, P, {})'
  <2>1. R.at = "pump" => Ready(s, R.k, Away(s))'
    BY <1>4 DEF OrderedAs
  <2>2. R.at = "exec" => Pends(s, R.k, Over)'
    BY <1>5 DEF OrderedAs
  <2>3. \A f \in P : /\ f.kind = "resume" => Ready(s, f.k, Away(s))'
                     /\ f.kind = "exec" => Pends(s, f.k, Over)'
    BY <1>4, <1>5 DEF OrderedAs
  <2>4. Away(s)' = Away(s)
    BY DEF Away
  <2> QED BY <1>2, <1>3, <1>6, <2>1, <2>2, <2>3, <2>4 DEF OrderedAs
<1> QED BY <1>2, <1>3, <1>9

\* The driving call settles and releases (host.mts:199-205).
LEMMA SettleKept ==
  ASSUME SInv, NEW s \in Session, NEW r, Settle(s, r), SettlesAs(s, r),
         Replies(s) = {}, ~closed[Home[s]] => Requests(s) = {} /\ remote[s] = Idle,
         driver[s].at # "exec"
  PROVE  Preserved
<1>1. Home[s] \in Tier /\ Away(s) \in Tier /\ Home[s] # Away(s)
  BY Tiers
<1>2. /\ Calm /\ log' = log /\ saw' = saw /\ remote' = remote
      /\ driver' = [driver EXCEPT ![s] = Over]
  BY DEF Settle, fixed, link, Calm
<1>3. toward' = toward \/ toward' = Sent(Away(s), Told(s))
  BY DEF Settle, Away
<1>4. Carried(s) /\ Requests(s)' = Requests(s) /\ Replies(s)' = {}
  BY <1>3, CarriesNothing, CarriesRelease
<1>5. HeldApart(s)
  BY <1>1, HeldSame, HeldLess DEF Settle
<1>6. Sets(driver, driver', s) /\ driver'[s] = Over
  BY <1>2, Domains, SetsAt
<1>7. Sets(remote, remote', s) /\ Sets(log, log', s) /\ Sets(saw, saw', s)
  BY <1>2, SetsSame, StillPassed
<1>8. Acts(s)
  BY <1>2, <1>4, <1>5, <1>6, <1>7, SettleResult, ActsWhen
<1>9. PICK R, P : R = remote[s] /\ P = Requests(s)
  OBVIOUS
<1>10. Becomes(s, Over, R, P, {})
  BY <1>2, <1>4, <1>6, <1>9 DEF Becomes, Carried
<1>11. /\ PlacedAs(s, driver[s], R, P, {})
       /\ OrderedAs(s, driver[s], R, P, {})
  BY <1>9, Known
<1>12. Over.at = "over" /\ Over # Idle
  BY DEF Over, Idle
<1>13. PlacedAs(s, Over, R, P, {})
  BY <1>9, <1>11, <1>12 DEF PlacedAs
<1>14. Logged(s)' /\ OrderedAs(s, Over, R, P, {})'
  BY <1>2, <1>9, <1>11, OverOrdered
<1>15. ~up \/ Freed(s)'
  <2> SUFFICES ASSUME up, mode[s] # "local"
               PROVE  Freed(s)'
    BY <1>2 DEF Freed, Calm
  <2>1. ~closed[Home[s]]
    BY Known
  <2>2. toward' = Sent(Away(s), Told(s)) /\ held' = [held EXCEPT ![Home[s]] = @ \ {s}]
    BY <2>1 DEF Settle, Away
  <2>3. Releasing(s)'
    BY <2>2, CarriesRelease
  <2>4. s \notin held'[Home[s]]
    BY <1>1, <2>2, HeldLess
  <2> QED BY <2>3, <2>4 DEF Freed
<1>16. Promise!Next
  BY <1>2, SettlePromised
<1> QED BY <1>8, <1>10, <1>13, <1>14, <1>15, <1>16, StepKept

\* call on a closed peer.
LEMMA BeginCallClosedKept ==
  ASSUME SInv, NEW s \in Session, BeginCallClosed(s)
  PROVE  Preserved
<1>1. driver[s] = Idle /\ Settle(s, "error") /\ closed[Home[s]]
  BY DEF BeginCallClosed
<1>2. Replies(s) = {} /\ result[s] = "none" /\ ~up /\ driver[s].at # "exec"
  BY <1>1, Starts, Known DEF Idle
<1>3. SettlesAs(s, "error")
  BY <1>1, <1>2 DEF SettlesAs, Settle
<1> QED BY <1>1, <1>2, <1>3, SettleKept

\* A migration that does not leave.
LEMMA MigrateFailsKept ==
  ASSUME SInv, NEW s \in Session, MigrateFails(s)
  PROVE  Preserved
<1>1. PICK k \in Continuation(s) : Drives(s, k) /\ Parks(s, k, Home[s])
  BY DEF MigrateFails, Leaves
<1>2. /\ result[s] = "none" /\ Replies(s) = {} /\ driver[s].at = "pump"
      /\ ~closed[Home[s]] => Requests(s) = {} /\ remote[s] = Idle
      /\ Ready(s, k, Home[s])
  BY <1>1, Pumped
<1>3. Settle(s, "error")
  BY DEF MigrateFails
<1>4. k.pc <= Len(program[s]) /\ k.pc = Passed(s) + 1
  BY <1>1, <1>2, Tiers, ParkedReady
<1>5. Passed(s) < Len(program[s])
  BY <1>4, Counted
<1>6. SettlesAs(s, "error")
  BY <1>2, <1>3, <1>5 DEF SettlesAs, Settle
<1> QED BY <1>2, <1>3, <1>6, SettleKept

\* An error leaves the program at home.
LEMMA DriverThrowsKept ==
  ASSUME SInv, NEW s \in Session, DriverThrows(s)
  PROVE  Preserved
<1>1. PICK k : Drives(s, k) /\ k.for = "raise"
  BY DEF DriverThrows
<1>2. /\ result[s] = "none" /\ Replies(s) = {} /\ driver[s].at = "pump"
      /\ ~closed[Home[s]] => Requests(s) = {} /\ remote[s] = Idle
      /\ Ready(s, k, Home[s])
  BY <1>1, Pumped
<1>3. Settle(s, "error")
  BY DEF DriverThrows
<1>4. Promise!Cut(s)
  BY <1>1, <1>2 DEF Ready
<1>5. SettlesAs(s, "error")
  BY <1>2, <1>3, <1>4 DEF SettlesAs, Settle
<1> QED BY <1>2, <1>3, <1>5, SettleKept

\* A continuation that has left the program behind has every touch behind it.
LEMMA FinishedPassed ==
  ASSUME SInv, NEW s \in Session, NEW k \in Continuation(s), NEW t, Ready(s, k, t),
         Finished(s, k)
  PROVE  Passed(s) = Len(program[s]) /\ ~Promise!Cut(s)
<1>1. Len(program[s]) \in Nat
  BY ProgramTyped DEF SInv
<1>2. k.pc \in 1..(Len(program[s]) + 1) /\ k.pc > Len(program[s]) /\ k.for # "raise"
  BY DEF Continuation, Finished
<1>3. k.pc = Passed(s) + 1 /\ ~Promise!Cut(s)
  BY <1>2 DEF Ready
<1>4. Passed(s) \in Nat
  BY Counted
<1> QED BY <1>1, <1>2, <1>3, <1>4

\* The program ends at home.
LEMMA DriverReturnsKept ==
  ASSUME SInv, NEW s \in Session, DriverReturns(s)
  PROVE  Preserved
<1>1. PICK k : Drives(s, k) /\ Finished(s, k)
  BY DEF DriverReturns
<1>2. /\ result[s] = "none" /\ Replies(s) = {} /\ k \in Continuation(s) /\ Ready(s, k, Home[s])
      /\ driver[s].at = "pump"
      /\ ~closed[Home[s]] => Requests(s) = {} /\ remote[s] = Idle
  BY <1>1, Pumped
<1>3. Settle(s, "value")
  BY DEF DriverReturns
<1>4. Passed(s) = Len(program[s]) /\ ~Promise!Cut(s)
  BY <1>1, <1>2, FinishedPassed
<1>5. SettlesAs(s, "value")
  BY <1>2, <1>3, <1>4 DEF SettlesAs, Settle
<1> QED BY <1>2, <1>3, <1>5, SettleKept

-----------------------------------------------------------------------------
(* The continuation leaves the driver.                                     *)

\* Pricing excises at home, if at all.
LEMMA PricedApart ==
  ASSUME SInv, NEW s \in Session, Prices(s)
  PROVE  HeldApart(s)
<1>1. Home[s] \in Tier
  BY Tiers
<1> QED BY <1>1, HeldSame, HeldMore DEF Prices

\* A continuation parks at home: what crosses is one that the far tier may take up.
LEMMA LeavesReady ==
  ASSUME SInv, NEW s \in Session, NEW k, Leaves(s, k), NEW p, p = Parked(s, k, Home[s])
  PROVE  /\ k \in Continuation(s) /\ p \in Continuation(s) /\ p.pc = k.pc
         /\ k.pc <= Len(program[s]) /\ p.for \in {"touch", "home"} /\ Ready(s, p, Away(s))
         /\ p.for = "touch" => program[s][k.pc].owner = Away(s)
         /\ k.pc = Passed(s) + 1 /\ ~Promise!Cut(s) /\ k.pc \notin Promise!Happened(s)
         /\ Behind(s)
<1>1. Home[s] \in Tier /\ Away(s) \in Tier /\ Home[s] # Away(s)
  BY Tiers
<1>2. Drives(s, k) /\ Parks(s, k, Home[s])
  BY DEF Leaves
<1>3. k \in Continuation(s) /\ Ready(s, k, Home[s]) /\ Behind(s)
  BY <1>2, Pumped
<1>4. /\ p \in Continuation(s) /\ p.pc = k.pc /\ k.pc <= Len(program[s])
      /\ p.for \in {"touch", "home"} /\ Ready(s, p, Away(s))
      /\ p.for = "touch" => program[s][k.pc].owner = Away(s)
      /\ k.pc = Passed(s) + 1 /\ ~Promise!Cut(s)
  BY <1>1, <1>2, <1>3, ParkedReady
<1>5. k.pc \notin Promise!Happened(s)
  BY <1>3, <1>4, NotYet
<1> QED BY <1>3, <1>4, <1>5

\* The driver fetches (host.mts:186-192).
LEMMA FetchKept ==
  ASSUME SInv, NEW s \in Session, Fetch(s)
  PROVE  Preserved
<1>1. PICK k \in Continuation(s) :
        /\ Leaves(s, k) /\ Parked(s, k, Home[s]).for = "touch" /\ ~closed[Home[s]] /\ Prices(s)
        /\ driver' = [driver EXCEPT ![s] = Fetching(Parked(s, k, Home[s]))]
        /\ toward' = Sent(Far(Home[s]),
                          <<[kind |-> "exec", s |-> s, k |-> Parked(s, k, Home[s])]>>)
        /\ UNCHANGED <<fixed, link, remote, log, result, saw>>
  BY DEF Fetch
<1>2. PICK p : p = Parked(s, k, Home[s])
  OBVIOUS
<1> DEFINE D == Fetching(p)
           m == [kind |-> "exec", s |-> s, k |-> p]
<1>3. /\ driver' = [driver EXCEPT ![s] = D] /\ remote' = remote
      /\ toward' = Sent(Away(s), <<m>>) /\ p.for = "touch"
  BY <1>1, <1>2 DEF Away
<1>4. Moves(s)
  BY <1>1 DEF fixed, link, Calm, Moves
<1>5. /\ p \in Continuation(s) /\ p.pc = k.pc /\ k.pc <= Len(program[s])
      /\ program[s][k.pc].owner = Away(s)
      /\ k.pc = Passed(s) + 1 /\ ~Promise!Cut(s) /\ k.pc \notin Promise!Happened(s)
  BY <1>1, <1>2, <1>3, LeavesReady
<1>6. Requests(s) = {} /\ Replies(s) = {} /\ remote[s] = Idle /\ result[s] = "none"
  BY <1>1, Pumped DEF Leaves
<1>7. m \in Message(s) /\ m.kind = "exec" /\ m.k = p
  BY <1>5, MadeExec
<1>8. D.at = "exec" /\ D.k = p /\ D # Over /\ D # Idle
  BY DEF Fetching, Over, Idle
<1> HIDE DEF D, m
<1>9. /\ Carried(s) /\ Replies(s)' = Replies(s)
      /\ up => Requests(s)' = {m}
      /\ ~up => Requests(s)' = {}
  BY <1>3, <1>6, <1>7, CarriesAway
<1>10. PICK P : Requests(s)' = P /\ (up => P = {m}) /\ (~up => P = {})
  BY <1>9
<1>11. PlacedAs(s, D, Idle, P, {})
  BY <1>5, <1>7, <1>8, <1>10 DEF PlacedAs, PointTyped, Idle
<1>12. Pends(s, p, D)
  BY <1>5, <1>8 DEF Pends
<1>13. Fetches(s, p)
  BY <1>3, <1>5 DEF Fetches
<1>14. OrderedAs(s, D, Idle, P, {})
  BY <1>6, <1>7, <1>8, <1>10, <1>12, <1>13 DEF OrderedAs, Idle
<1>15. HeldApart(s)
  BY <1>1, PricedApart
<1> QED BY <1>3, <1>4, <1>6, <1>8, <1>9, <1>10, <1>11, <1>14, <1>15, DriverMoves

\* The driver ships the continuation (host.mts:193-197).
LEMMA MigrateKept ==
  ASSUME SInv, NEW s \in Session, Migrate(s)
  PROVE  Preserved
<1>1. PICK k \in Continuation(s) :
        /\ Leaves(s, k) /\ ~closed[Home[s]] /\ Prices(s)
        /\ driver' = [driver EXCEPT ![s] = Resuming(Parked(s, k, Home[s]))]
        /\ toward' = Sent(Far(Home[s]),
                          <<[kind |-> "resume", s |-> s, k |-> Parked(s, k, Home[s])]>>)
        /\ UNCHANGED <<fixed, link, remote, log, result, saw>>
  BY DEF Migrate
<1>2. PICK p : p = Parked(s, k, Home[s])
  OBVIOUS
<1> DEFINE D == Resuming(p)
           m == [kind |-> "resume", s |-> s, k |-> p]
<1>3. /\ driver' = [driver EXCEPT ![s] = D] /\ remote' = remote
      /\ toward' = Sent(Away(s), <<m>>)
  BY <1>1, <1>2 DEF Away
<1>4. Moves(s)
  BY <1>1 DEF fixed, link, Calm, Moves
<1>5. p \in Continuation(s) /\ Ready(s, p, Away(s)) /\ Behind(s)
  BY <1>1, <1>2, LeavesReady
<1>6. Requests(s) = {} /\ Replies(s) = {} /\ remote[s] = Idle /\ result[s] = "none"
  BY <1>1, Pumped DEF Leaves
<1>7. m \in Message(s) /\ m.kind = "resume" /\ m.k = p
  BY <1>5, MadeResume
<1>8. D.at = "resume" /\ D.k = p /\ D # Over /\ D # Idle
  BY DEF Resuming, Over, Idle
<1> HIDE DEF D, m
<1>9. /\ Carried(s) /\ Replies(s)' = Replies(s)
      /\ up => Requests(s)' = {m}
      /\ ~up => Requests(s)' = {}
  BY <1>3, <1>6, <1>7, CarriesAway
<1>10. PICK P : Requests(s)' = P /\ (up => P = {m}) /\ (~up => P = {})
  BY <1>9
<1>11. PlacedAs(s, D, Idle, P, {})
  BY <1>5, <1>7, <1>8, <1>10 DEF PlacedAs, PointTyped, Idle
<1>12. OrderedAs(s, D, Idle, P, {})
  BY <1>5, <1>6, <1>7, <1>8, <1>10 DEF OrderedAs, Idle
<1>13. HeldApart(s)
  BY <1>1, PricedApart
<1> QED BY <1>3, <1>4, <1>6, <1>8, <1>9, <1>10, <1>11, <1>12, <1>13, DriverMoves

-----------------------------------------------------------------------------
(* What the far tier receives.                                             *)

\* The far tier takes up a continuation.
LEMMA ReceiveResumeKept ==
  ASSUME SInv, NEW s \in Session, ReceiveResume(s)
  PROVE  Preserved
<1>1. PICK m : m = Head(toward[Away(s)])
  OBVIOUS
<1> DEFINE R == Pumping(m.k)
<1>2. /\ remote' = [remote EXCEPT ![s] = R] /\ driver' = driver /\ held' = held
      /\ toward' = Taken(Away(s)) /\ Arrives(Away(s), {"resume"}, s)
  BY <1>1 DEF ReceiveResume
<1>3. Moves(s)
  BY DEF ReceiveResume, fixed, link, Calm, Moves
<1>4. /\ m \in Message(s) /\ m.kind = "resume" /\ Carried(s)
      /\ Requests(s) = {m} /\ Replies(s) = {} /\ Requests(s)' = {} /\ Replies(s)' = {}
  BY <1>1, <1>2, TakesAway
<1>5. m.k \in Continuation(s)
  BY <1>4, MessageTyped
<1>6. PICK D : D = driver[s]
  OBVIOUS
<1>7. PlacedAs(s, D, remote[s], {m}, {}) /\ OrderedAs(s, D, remote[s], {m}, {})
      /\ (closed[Home[s]] => ~up)
  BY <1>4, <1>6, Known
<1>8. R.at = "pump" /\ R.k = m.k /\ R # Idle
  BY DEF Pumping, Idle
<1>9. Over.at = "over"
  BY DEF Over
<1> HIDE DEF R, Over
<1>10. PlacedAs(s, D, R, {}, {})
  BY <1>4, <1>5, <1>7, <1>8 DEF PlacedAs, PointTyped
<1>11. OrderedAs(s, D, R, {}, {})
  BY <1>4, <1>7, <1>8 DEF OrderedAs
<1>12. D # Over \/ ~up
  BY <1>7, <1>9 DEF PlacedAs
<1> QED BY <1>2, <1>3, <1>4, <1>6, <1>10, <1>11, <1>12, HeldSame, RemoteMoves

\* The far tier takes up a touch.
LEMMA ReceiveExecKept ==
  ASSUME SInv, NEW s \in Session, ReceiveExec(s)
  PROVE  Preserved
<1>1. PICK m : m = Head(toward[Away(s)])
  OBVIOUS
<1> DEFINE R == Fetching(m.k)
<1>2. /\ remote' = [remote EXCEPT ![s] = R] /\ driver' = driver /\ held' = held
      /\ toward' = Taken(Away(s)) /\ Arrives(Away(s), {"exec"}, s)
  BY <1>1 DEF ReceiveExec
<1>3. Moves(s)
  BY DEF ReceiveExec, fixed, link, Calm, Moves
<1>4. /\ m \in Message(s) /\ m.kind = "exec" /\ Carried(s)
      /\ Requests(s) = {m} /\ Replies(s) = {} /\ Requests(s)' = {} /\ Replies(s)' = {}
  BY <1>1, <1>2, TakesAway
<1>5. m.k \in Continuation(s)
  BY <1>4, MessageTyped
<1>6. PICK D : D = driver[s]
  OBVIOUS
<1>7. PlacedAs(s, D, remote[s], {m}, {}) /\ OrderedAs(s, D, remote[s], {m}, {})
      /\ (closed[Home[s]] => ~up)
  BY <1>4, <1>6, Known
<1>8. R.at = "exec" /\ R.k = m.k /\ R # Idle
  BY DEF Fetching, Idle
<1>9. Over.at = "over"
  BY DEF Over
<1> HIDE DEF R, Over
<1>10. PlacedAs(s, D, R, {}, {})
  BY <1>4, <1>5, <1>7, <1>8 DEF PlacedAs, PointTyped
<1>11. OrderedAs(s, D, R, {}, {})
  BY <1>4, <1>7, <1>8 DEF OrderedAs
<1>12. D # Over \/ ~up
  BY <1>7, <1>9 DEF PlacedAs
<1> QED BY <1>2, <1>3, <1>4, <1>6, <1>10, <1>11, <1>12, HeldSame, RemoteMoves

\* The far tier forgets the masters of a session (coherence.mts:223).
LEMMA ReceiveReleaseKept ==
  ASSUME SInv, NEW s \in Session, ReceiveRelease(s)
  PROVE  Preserved
<1>1. Home[s] \in Tier /\ Away(s) \in Tier /\ Home[s] # Away(s)
  BY Tiers
<1>2. /\ remote' = remote /\ driver' = driver /\ held' = [held EXCEPT ![Away(s)] = @ \ {s}]
      /\ toward' = Taken(Away(s)) /\ Arrives(Away(s), {"release"}, s)
  BY DEF ReceiveRelease
<1>3. Moves(s)
  BY DEF ReceiveRelease, fixed, link, Calm, Moves
<1>4. Carried(s) /\ Requests(s)' = Requests(s) /\ Replies(s)' = Replies(s)
  BY <1>2, TakesAway
<1>5. HeldApart(s) /\ s \notin held'[Away(s)] /\ held'[Home[s]] = held[Home[s]]
  BY <1>1, <1>2, HeldLess
<1>6. PICK D, R, P, Q : D = driver[s] /\ R = remote[s] /\ P = Requests(s) /\ Q = Replies(s)
  OBVIOUS
<1>7. PlacedAs(s, D, R, P, Q) /\ OrderedAs(s, D, R, P, Q) /\ Freed(s)
  BY <1>6, Known
<1>8. Calm /\ Sets(driver, driver', s) /\ Sets(remote, remote', s)
      /\ Sets(log, log', s) /\ Sets(saw, saw', s) /\ result' = result
  BY <1>2, <1>3, SetsSame, StillPassed DEF Moves
<1>9. Acts(s)
  BY <1>4, <1>5, <1>8, StillResult, ActsWhen
<1>10. Becomes(s, D, R, P, Q)
  BY <1>2, <1>4, <1>6 DEF Becomes, Carried
<1>11. Freed(s)'
  BY <1>2, <1>5, <1>7, <1>8 DEF Freed, Calm, Away
<1> QED BY <1>3, <1>7, <1>9, <1>10, <1>11, MoveKept

-----------------------------------------------------------------------------
(* The far tier answers a start or a resume.                               *)

\* The far tier has the continuation: nothing of its session is on its way.
LEMMA Worked ==
  ASSUME SInv, NEW s \in Session, NEW k, Works(s, k)
  PROVE  /\ k \in Continuation(s) /\ Ready(s, k, Away(s))
         /\ Requests(s) = {} /\ Replies(s) = {} /\ driver[s] # Idle
         /\ driver[s].at # "pump" /\ driver[s].at # "exec"
         /\ driver[s] = Over => ~up
         /\ remote[s].at = "pump" /\ remote[s].k = k /\ remote[s] # Idle
<1>1. remote[s].at = "pump" /\ remote[s].k = k /\ remote[s] # Idle
  BY DEF Works, Pumping, Idle
<1>2. /\ PlacedAs(s, driver[s], remote[s], Requests(s), Replies(s))
      /\ OrderedAs(s, driver[s], remote[s], Requests(s), Replies(s))
      /\ closed[Home[s]] => ~up
  BY Known
<1>3. k \in Continuation(s) /\ Requests(s) = {} /\ Replies(s) = {} /\ driver[s] # Idle
      /\ driver[s].at # "exec"
  BY <1>1, <1>2 DEF PlacedAs, PointTyped
<1>4. Ready(s, k, Away(s))
  BY <1>1, <1>2 DEF OrderedAs
<1>5. Over.at = "over"
  BY DEF Over
<1>6. driver[s].at # "pump" /\ (driver[s] = Over => ~up)
  BY <1>1, <1>2, <1>5 DEF PlacedAs
<1> QED BY <1>1, <1>3, <1>4, <1>6

\* The continuation, or what became of the program, travels home.
LEMMA AnswerKept ==
  ASSUME SInv, NEW s \in Session, NEW k, Works(s, k), NEW m \in Message(s),
         RemoteAnswers(s, m), HeldApart(s),
         m.kind \in {"suspend", "done", "error"}, Tells(s, m, driver[s])
  PROVE  Preserved
<1>1. /\ remote' = [remote EXCEPT ![s] = Idle] /\ driver' = driver
      /\ toward' = Sent(Home[s], <<m>>)
  BY DEF RemoteAnswers, Gone
<1>2. Moves(s)
  BY DEF RemoteAnswers, fixed, link, Calm, Moves
<1>3. /\ Requests(s) = {} /\ Replies(s) = {} /\ driver[s] # Idle
      /\ driver[s].at # "pump" /\ driver[s].at # "exec"
      /\ driver[s] = Over => ~up
  BY Worked
<1>4. /\ Carried(s) /\ Requests(s)' = {}
      /\ up => Replies(s)' = {m}
      /\ ~up => Replies(s)' = {}
  BY <1>1, <1>3, CarriesHome
<1>5. PICK Q : Replies(s)' = Q /\ (up => Q = {m}) /\ (~up => Q = {})
  BY <1>4
<1>6. PICK D : D = driver[s]
  OBVIOUS
<1>7. PlacedAs(s, D, remote[s], {}, {}) /\ OrderedAs(s, D, remote[s], {}, {})
      /\ (closed[Home[s]] => ~up)
  BY <1>3, <1>6, Known
<1>8. Over.at = "over" /\ up \in BOOLEAN
  BY DEF Over, SInv, Shape
<1>9. Idle.at = "idle"
  BY DEF Idle
<1>10. D.at = "over" => ~up
  BY <1>3, <1>6, <1>7, <1>8, <1>9 DEF PlacedAs
<1> HIDE DEF Over, Idle
<1>11. PlacedAs(s, D, Idle, {}, Q)
  BY <1>3, <1>5, <1>6, <1>7, <1>9, <1>10 DEF PlacedAs
<1>12. OrderedAs(s, D, Idle, {}, Q)
  BY <1>3, <1>5, <1>6, <1>7, <1>9 DEF OrderedAs
<1> QED BY <1>1, <1>2, <1>3, <1>4, <1>5, <1>6, <1>11, <1>12, RemoteMoves

\* The far tier parks and sends the continuation back (host.mts:221).
LEMMA RemoteSuspendsKept ==
  ASSUME SInv, NEW s \in Session, RemoteSuspends(s)
  PROVE  Preserved
<1>1. PICK k \in Continuation(s) :
        /\ Works(s, k) /\ Parks(s, k, Away(s)) /\ Excises(Away(s), s)
        /\ RemoteAnswers(s, [kind |-> "suspend", s |-> s, k |-> Parked(s, k, Away(s))])
  BY DEF RemoteSuspends
<1>2. PICK p : p = Parked(s, k, Away(s))
  OBVIOUS
<1> DEFINE m == [kind |-> "suspend", s |-> s, k |-> p]
<1>3. Home[s] \in Tier /\ Away(s) \in Tier /\ Home[s] # Away(s)
  BY Tiers
<1>4. p \in Continuation(s) /\ Ready(s, p, Home[s])
  BY <1>1, <1>2, <1>3, Worked, ParkedReady
<1>5. m \in Message(s) /\ m.kind = "suspend" /\ m.k = p
  BY <1>4, MadeSuspend
<1>6. RemoteAnswers(s, m)
  BY <1>1, <1>2
<1> HIDE DEF m
<1>7. Tells(s, m, driver[s])
  BY <1>4, <1>5 DEF Tells
<1>8. HeldApart(s)
  BY <1>1, <1>3, HeldMore
<1> QED BY <1>1, <1>5, <1>6, <1>7, <1>8, AnswerKept

\* The program ends on the far tier.
LEMMA RemoteReturnsKept ==
  ASSUME SInv, NEW s \in Session, RemoteReturns(s)
  PROVE  Preserved
<1>1. PICK k \in Continuation(s) : Works(s, k) /\ Finished(s, k)
  BY DEF RemoteReturns
<1>2. PICK m : m = [kind |-> "done", s |-> s]
  OBVIOUS
<1>3. RemoteAnswers(s, m) /\ held' = held
  BY <1>2 DEF RemoteReturns
<1>4. Passed(s) = Len(program[s]) /\ ~Promise!Cut(s)
  BY <1>1, Worked, FinishedPassed
<1>5. m \in Message(s) /\ m.kind = "done"
  BY <1>2, MadeFinal
<1>6. Tells(s, m, driver[s])
  BY <1>4, <1>5 DEF Tells
<1> QED BY <1>1, <1>3, <1>5, <1>6, HeldSame, AnswerKept

\* An error leaves the program on the far tier, or its continuation cannot be encoded.
LEMMA RemoteFailsKept ==
  ASSUME SInv, NEW s \in Session, RemoteFails(s)
  PROVE  Preserved
<1>1. PICK k \in Continuation(s) :
        /\ Works(s, k)
        /\ \/ k.for = "raise" /\ held' = held
           \/ Parks(s, k, Away(s)) /\ Excises(Away(s), s)
  BY DEF RemoteFails
<1>2. PICK m : m = [kind |-> "error", s |-> s]
  OBVIOUS
<1>3. RemoteAnswers(s, m)
  BY <1>2 DEF RemoteFails
<1>4. Away(s) \in Tier /\ Home[s] \in Tier /\ Home[s] # Away(s)
  BY Tiers
<1>5. m \in Message(s) /\ m.kind = "error"
  BY <1>2, MadeFinal
<1>6. Ready(s, k, Away(s))
  BY <1>1, Worked
<1>7. Passed(s) < Len(program[s]) \/ Promise!Cut(s)
  <2>1. CASE k.for = "raise"
    BY <1>6, <2>1 DEF Ready
  <2>2. CASE Parks(s, k, Away(s))
    <3>1. k.pc <= Len(program[s]) /\ k.pc = Passed(s) + 1
      BY <1>4, <1>6, <2>2, ParkedReady
    <3> QED BY <3>1, Counted
  <2> QED BY <1>1, <2>1, <2>2
<1>8. Tells(s, m, driver[s])
  BY <1>5, <1>7 DEF Tells
<1>9. HeldApart(s)
  BY <1>1, <1>4, HeldSame, HeldMore
<1> QED BY <1>1, <1>3, <1>5, <1>8, <1>9, AnswerKept

-----------------------------------------------------------------------------
(* The replies.                                                            *)

\* A reply arrives: its driver waits for it, and nothing else is anywhere.
LEMMA Replied ==
  ASSUME SInv, NEW s \in Session, NEW kinds, Arrives(Home[s], kinds, s),
         NEW m, m = Head(toward[Home[s]]), NEW queues, queues = Taken(Home[s])
  PROVE  /\ m \in Message(s) /\ m.kind \in kinds
         /\ Requests(s) = {} /\ remote[s] = Idle /\ Tells(s, m, driver[s])
         /\ IF m.kind = "fetched" THEN driver[s].at = "exec" ELSE driver[s].at = "resume"
         /\ PointTyped(s, driver[s]) /\ result[s] = "none"
         /\ driver[s].at = "exec" => Fetches(s, driver[s].k)
         /\ driver[s].at # "exec" => Behind(s)
         /\ Left(s, queues) /\ Frames(queues[Home[s]], s) = {}
         /\ queues[Away(s)] = toward[Away(s)]
<1>1. /\ m \in Message(s) /\ m.kind \in kinds /\ Replies(s) = {m}
      /\ ~closed[Home[s]] /\ Requests(s) = {} /\ remote[s] = Idle
      /\ Left(s, queues) /\ Frames(queues[Home[s]], s) = {}
      /\ queues[Away(s)] = toward[Away(s)]
  BY TakesHome
<1>2. PICK D : D = driver[s]
  OBVIOUS
<1>3. PlacedAs(s, D, Idle, {}, {m}) /\ OrderedAs(s, D, Idle, {}, {m})
  BY <1>1, <1>2, Known
<1>4. Over.at = "over" /\ Over # Idle
  BY DEF Over, Idle
<1> HIDE DEF Over, Idle
<1>5. D # Idle /\ D # Over /\ PointTyped(s, D) /\ (D.at = "exec" \/ D.at = "resume")
  BY <1>1, <1>3, <1>4 DEF PlacedAs
<1>6. IF m.kind = "fetched" THEN D.at = "exec" ELSE D.at = "resume"
  BY <1>3, <1>5 DEF PlacedAs
<1>7. /\ Tells(s, m, D) /\ result[s] = "none"
      /\ D.at = "exec" => Fetches(s, D.k)
      /\ D.at # "exec" => Behind(s)
  BY <1>3, <1>5 DEF OrderedAs
<1> QED BY <1>1, <1>2, <1>5, <1>6, <1>7

\* The continuation comes home (host.mts:158-163).
LEMMA ReplySuspendKept ==
  ASSUME SInv, NEW s \in Session, ReplySuspend(s)
  PROVE  Preserved
<1>1. PICK m : m = Head(toward[Home[s]])
  OBVIOUS
<1> DEFINE D == Pumping(m.k)
<1>2. /\ driver' = [driver EXCEPT ![s] = D] /\ remote' = remote /\ held' = held
      /\ toward' = Taken(Home[s]) /\ Arrives(Home[s], {"suspend"}, s)
  BY <1>1 DEF ReplySuspend
<1>3. Moves(s)
  BY DEF ReplySuspend, fixed, link, Calm, Moves
<1>4. /\ m \in Message(s) /\ m.kind = "suspend" /\ Requests(s) = {} /\ remote[s] = Idle
      /\ Tells(s, m, driver[s]) /\ result[s] = "none" /\ Behind(s)
      /\ Left(s, toward') /\ Frames(toward'[Home[s]], s) = {}
      /\ toward'[Away(s)] = toward[Away(s)]
  BY <1>1, <1>2, Replied
<1>5. Carried(s) /\ Requests(s)' = {} /\ Replies(s)' = {}
  BY <1>4, LeftIsCarried DEF Requests, Replies, Away
<1>6. m.k \in Continuation(s) /\ Ready(s, m.k, Home[s])
  BY <1>4, MessageTyped DEF Tells
<1>7. D.at = "pump" /\ D.k = m.k /\ D.carried = "nothing" /\ D # Over /\ D # Idle
  BY DEF Pumping, Over, Idle
<1> HIDE DEF D
<1>8. PlacedAs(s, D, Idle, {}, {})
  BY <1>6, <1>7 DEF PlacedAs, PointTyped, Idle
<1>9. OrderedAs(s, D, Idle, {}, {})
  BY <1>4, <1>6, <1>7 DEF OrderedAs, Bears, Idle
<1> QED BY <1>2, <1>3, <1>4, <1>5, <1>7, <1>8, <1>9, HeldSame, DriverMoves

\* The outcome of a touch enters the program.
LEMMA OutcomeTyped ==
  ASSUME SInv, NEW s \in Session, NEW k \in Continuation(s), k.pc <= Len(program[s]),
         NEW ok \in BOOLEAN, NEW o, o = Outcome(s, k, ok)
  PROVE  /\ o \in Continuation(s)
         /\ ok \/ program[s][k.pc].guarded => o.pc = k.pc + 1 /\ o.for = "step"
         /\ ~(ok \/ program[s][k.pc].guarded) => o.pc = k.pc /\ o.for = "raise"
<1>1. Len(program[s]) \in Nat
  BY ProgramTyped DEF SInv
<1>2. k.pc \in 1..(Len(program[s]) + 1)
  BY DEF Continuation
<1>3. CASE ok \/ program[s][k.pc].guarded
  <2>1. o = [pc |-> k.pc + 1, for |-> "step"]
    BY <1>3 DEF Outcome, Segm, After
  <2> QED BY <1>1, <1>2, <1>3, <2>1 DEF Continuation
<1>4. CASE ~(ok \/ program[s][k.pc].guarded)
  <2>1. o = [k EXCEPT !.for = "raise"]
    BY <1>4 DEF Outcome, Segm
  <2> QED BY <1>4, <2>1 DEF Continuation
<1> QED BY <1>3, <1>4

\* What is left of the queues, and the release that run and call then send.
LEMMA CarriesFinal ==
  ASSUME SInv, NEW s \in Session, NEW queues, Left(s, queues),
         queues[Away(s)] = toward[Away(s)], Frames(queues[Home[s]], s) = {},
         Requests(s) = {},
         toward' = [queues EXCEPT ![Away(s)] = IF up THEN @ \o Told(s) ELSE @]
  PROVE  /\ Carried(s) /\ Requests(s)' = {} /\ Replies(s)' = {}
         /\ up => Releasing(s)'
<1>1. Home[s] \in Tier /\ Away(s) \in Tier /\ Home[s] # Away(s)
  BY Tiers
<1>2. queues \in [Tier -> Seq(Frame)]
  BY DEF Left
<1>3. CASE ~up
  <2>1. toward' = queues
    BY <1>2, <1>3
  <2>2. Carried(s)
    BY <2>1, LeftIsCarried
  <2>3. Requests(s)' = {} /\ Replies(s)' = {}
    BY <2>1 DEF Requests, Replies, Away
  <2> QED BY <1>3, <2>2, <2>3
<1>4. CASE up
  <2> DEFINE m == Release(s)
             q == queues[Away(s)]
             p == q \o <<m>>
  <2>1. m \in Message(s) /\ m.kind = "release" /\ Told(s) = <<m>>
    BY DEF Message, Told, Release
  <2>2. m.s = s /\ m \in Frame
    BY <2>1, MessageOf
  <2> HIDE DEF m
  <2>3. q \in Seq(Frame)
    BY <1>1, <1>2
  <2>4. p \in Seq(Frame)
    BY <2>2, <2>3, QueuePut
  <2>5. \A z : /\ m.s = z => Frames(p, z) = Frames(q, z) \cup {m}
               /\ m.s # z => Frames(p, z) = Frames(q, z)
               /\ One(q, z) /\ (m.s # z \/ m.kind = "release" \/ AllReleases(q, z)) => One(p, z)
    BY <2>2, <2>3, FramesPut
  <2>6. toward' = [queues EXCEPT ![Away(s)] = p]
    BY <1>4, <2>1
  <2> HIDE DEF p
  <2>7. toward'[Away(s)] = p /\ \A u \in Tier : u # Away(s) => toward'[u] = queues[u]
    BY <1>1, <1>2, <2>6
  <2>8. toward' \in [Tier -> Seq(Frame)]
    BY <1>2, <2>4, <2>6
  <2>9. \A u \in Tier : closed[u] => toward'[u] = <<>>
    <3>1. ~closed[Away(s)]
      BY <1>4, Known
    <3> QED BY <2>7, <3>1 DEF Left
  <2>10. One(p, s) /\ One(toward'[Home[s]], s)
    BY <1>1, <2>1, <2>5, <2>7 DEF Left
  <2>11. FramesStay(s)
    <3> SUFFICES ASSUME NEW z \in Session, NEW u \in Tier, z # s
                 PROVE  /\ Frames(toward'[u], z) = Frames(toward[u], z)
                        /\ One(toward[u], z) => One(toward'[u], z)
      BY DEF FramesStay
    <3>1. /\ Frames(queues[u], z) = Frames(toward[u], z)
          /\ One(toward[u], z) => One(queues[u], z)
      BY DEF Left
    <3>2. Frames(p, z) = Frames(q, z) /\ (One(q, z) => One(p, z))
      BY <2>2, <2>5
    <3> QED BY <2>7, <3>1, <3>2
  <2>12. Carried(s)
    BY <2>7, <2>8, <2>9, <2>10, <2>11 DEF Carried
  <2>13. Frames(p, s) = Frames(toward[Away(s)], s) \cup {m}
    BY <2>2, <2>5
  <2>14. Requests(s)' = {f \in Frames(p, s) : f.kind # "release"}
    BY <2>7 DEF Requests, Away
  <2>15. Requests(s)' = {}
    BY <2>1, <2>13, <2>14 DEF Requests
  <2>16. Replies(s)' = {}
    BY <1>1, <2>7 DEF Replies
  <2>17. Releasing(s)'
    BY <2>1, <2>7, <2>13 DEF Releasing, Away
  <2> QED BY <2>12, <2>15, <2>16, <2>17
<1> QED BY <1>3, <1>4

\* What became of the program comes home: the call settles and releases.
LEMMA ReplyFinalKept ==
  ASSUME SInv, NEW s \in Session, ReplyFinal(s)
  PROVE  Preserved
<1>1. Home[s] \in Tier /\ Away(s) \in Tier /\ Home[s] # Away(s)
  BY Tiers
<1>2. PICK m : m = Head(toward[Home[s]])
  OBVIOUS
<1>3. PICK r : r = IF m.kind = "done" THEN "value" ELSE "error"
  OBVIOUS
<1>4. PICK queues : queues = Taken(Home[s])
  OBVIOUS
<1>5. /\ Calm /\ log' = log /\ saw' = saw /\ remote' = remote
      /\ driver' = [driver EXCEPT ![s] = Over] /\ result' = [result EXCEPT ![s] = r]
      /\ Arrives(Home[s], {"done", "error"}, s)
  BY <1>2, <1>3 DEF ReplyFinal, fixed, link, Calm
<1>6. /\ m \in Message(s) /\ m.kind \in {"done", "error"}
      /\ Requests(s) = {} /\ remote[s] = Idle /\ Tells(s, m, driver[s])
      /\ result[s] = "none" /\ driver[s].at = "resume"
      /\ Left(s, queues) /\ Frames(queues[Home[s]], s) = {}
      /\ queues[Away(s)] = toward[Away(s)]
  <2>1. /\ m \in Message(s) /\ m.kind \in {"done", "error"}
        /\ Requests(s) = {} /\ remote[s] = Idle /\ Tells(s, m, driver[s])
        /\ IF m.kind = "fetched" THEN driver[s].at = "exec" ELSE driver[s].at = "resume"
        /\ result[s] = "none"
        /\ Left(s, queues) /\ Frames(queues[Home[s]], s) = {}
        /\ queues[Away(s)] = toward[Away(s)]
    BY <1>2, <1>4, <1>5, Replied
  <2>2. m.kind # "fetched"
    BY <2>1
  <2>3. driver[s].at = "resume"
    BY <2>1, <2>2
  <2> QED BY <2>1, <2>3
<1>7. SettlesAs(s, r)
  BY <1>3, <1>5, <1>6 DEF SettlesAs, Tells
<1>8. HeldApart(s) /\ Carried(s) /\ Requests(s)' = {} /\ Replies(s)' = {} /\ (~up \/ Freed(s)')
  <2>1. CASE mode[s] = "local"
    <3>1. toward' = queues /\ held' = held
      BY <1>4, <2>1 DEF ReplyFinal
    <3>2. Carried(s) /\ Requests(s)' = {} /\ Replies(s)' = {}
      BY <1>6, <3>1, LeftIsCarried DEF Requests, Replies, Away
    <3>3. Freed(s)'
      BY <1>5, <2>1 DEF Freed, Calm
    <3> QED BY <3>1, <3>2, <3>3, HeldSame
  <2>2. CASE mode[s] # "local"
    <3>1. /\ held' = [held EXCEPT ![Home[s]] = @ \ {s}]
          /\ toward' = [queues EXCEPT ![Away(s)] = IF up THEN @ \o Told(s) ELSE @]
      BY <1>4, <2>2 DEF ReplyFinal, Away
    <3>2. Carried(s) /\ Requests(s)' = {} /\ Replies(s)' = {} /\ (up => Releasing(s)')
      BY <1>6, <3>1, CarriesFinal
    <3>3. HeldApart(s) /\ s \notin held'[Home[s]]
      BY <1>1, <3>1, HeldLess
    <3>4. ~up \/ Freed(s)'
      BY <3>2, <3>3 DEF Freed
    <3> QED BY <3>2, <3>3, <3>4
  <2> QED BY <2>1, <2>2
<1>9. Sets(driver, driver', s) /\ driver'[s] = Over
  BY <1>5, Domains, SetsAt
<1>10. Sets(remote, remote', s) /\ Sets(log, log', s) /\ Sets(saw, saw', s)
  BY <1>5, SetsSame, StillPassed
<1>11. Acts(s)
  BY <1>5, <1>7, <1>8, <1>9, <1>10, SettleResult, ActsWhen
<1>12. Becomes(s, Over, Idle, {}, {})
  BY <1>5, <1>6, <1>8, <1>9 DEF Becomes, Carried
<1>13. Over.at = "over" /\ Over # Idle /\ Idle.at = "idle"
  BY DEF Over, Idle
<1>14. PlacedAs(s, Over, Idle, {}, {})
  BY <1>13 DEF PlacedAs
<1>15. OrderedAs(s, driver[s], Idle, {}, {})
  BY <1>6, <1>13, Known DEF OrderedAs
<1>16. Logged(s)' /\ OrderedAs(s, Over, Idle, {}, {})'
  BY <1>5, <1>6, <1>15, OverOrdered
<1>17. Promise!Next
  BY <1>5, <1>7, SettlePromised
<1> QED BY <1>8, <1>11, <1>12, <1>14, <1>16, <1>17, StepKept

-----------------------------------------------------------------------------
(* What a step adds to the history of a session.                           *)

\* Truth values that agree are equal.
LEMMA Agree ==
  ASSUME NEW a \in BOOLEAN, NEW b \in BOOLEAN, a <=> b
  PROVE  a = b
OBVIOUS

\* The program sees an answer of its next touch.
LEMMA Noted ==
  ASSUME SInv, NEW s \in Session, NEW ok \in BOOLEAN, NEW from \in Origin, Sees(s, ok, from),
         program' = program
  PROVE  /\ Sets(saw, saw', s) /\ saw'[s] \in Seq(Answer)
         /\ Passed(s)' = Passed(s) + 1
         /\ \A i \in 1..Passed(s) : saw'[s][i] = saw[s][i]
         /\ saw'[s][Passed(s) + 1].ok = ok /\ saw'[s][Passed(s) + 1].from = from
         /\ Promise!Cut(s)' <=> ~ok /\ ~program[s][Passed(s) + 1].guarded
<1> DEFINE e == [ok |-> ok, from |-> from]
<1>1. e \in Answer /\ e.ok = ok /\ e.from = from
  BY DEF Answer
<1>2. saw' = [saw EXCEPT ![s] = Append(saw[s], e)]
  BY DEF Sees
<1> HIDE DEF e
<1>3. PICK L : L = Append(saw[s], e)
  OBVIOUS
<1>4. Sets(saw, saw', s) /\ saw'[s] = L
  BY <1>2, <1>3, Domains, SetsAt
<1>5. saw[s] \in Seq(Answer)
  BY Known DEF Logged
<1>6. PICK n : n = Len(saw[s])
  OBVIOUS
<1>7. n \in Nat
  BY <1>5, <1>6
<1>8. /\ L \in Seq(Answer) /\ Len(L) = n + 1 /\ L[n + 1] = e
      /\ \A i \in 1..n : L[i] = saw[s][i]
  BY <1>1, <1>3, <1>5, <1>6
<1>9. Passed(s) = n /\ Passed(s)' = n + 1
  BY <1>4, <1>6, <1>8 DEF Passed
<1>10. n + 1 # 0 /\ L[n + 1].ok = ok
  BY <1>1, <1>7, <1>8
<1>11. Promise!Cut(s)' <=> ~ok /\ ~program[s][n + 1].guarded
  BY <1>4, <1>8, <1>10 DEF Promise!Cut, Promise!Last
<1> QED BY <1>1, <1>4, <1>8, <1>9, <1>11

Entry(k, ok, u) == [touch |-> k.pc, ok |-> ok, at |-> u]

\* A touch happens.
LEMMA Entered ==
  ASSUME SInv, NEW s \in Session, NEW k \in Continuation(s), k.pc <= Len(program[s]),
         k.pc <= Passed(s) + 1, NEW ok \in BOOLEAN, NEW u \in Tier, Happens(s, k, ok, u),
         program' = program
  PROVE  /\ Sets(log, log', s) /\ log'[s] \in Entries(s)
         /\ \A i \in DOMAIN log'[s] :
              \/ log'[s][i].touch = k.pc
              \/ i \in DOMAIN log[s] /\ log'[s][i] = log[s][i]
         /\ \A i \in DOMAIN log'[s] : log'[s][i].touch <= Passed(s) + 1
         /\ \E i \in DOMAIN log'[s] : log'[s][i].touch = k.pc /\ log'[s][i].ok = ok
         /\ Promise!Happened(s)' = Promise!Happened(s) \cup {k.pc}
<1> DEFINE e == Entry(k, ok, u)
           E == [touch : DOMAIN program[s], ok : BOOLEAN, at : Tier]
<1>1. Len(program[s]) \in Nat /\ DOMAIN program[s] = 1..Len(program[s])
  BY ProgramTyped DEF SInv
<1>2. k.pc \in 1..Len(program[s])
  BY <1>1 DEF Continuation
<1>3. e \in E /\ e.touch = k.pc /\ e.ok = ok
  BY <1>1, <1>2 DEF Entry
<1>4. log' = [log EXCEPT ![s] = Append(log[s], e)]
  BY DEF Happens, Entry
<1>5. log[s] \in Seq(E) /\ \A i \in DOMAIN log[s] : log[s][i].touch <= Passed(s) + 1
  BY Known DEF Logged, Entries
<1> HIDE DEF e, E
<1>6. PICK L : L = Append(log[s], e)
  OBVIOUS
<1>7. /\ L \in Seq(E) /\ DOMAIN L = 1..(Len(log[s]) + 1) /\ Len(log[s]) \in Nat
      /\ DOMAIN log[s] = 1..Len(log[s]) /\ L[Len(log[s]) + 1] = e
      /\ \A i \in 1..Len(log[s]) : L[i] = log[s][i]
  BY <1>3, <1>5, <1>6
<1>8. Sets(log, log', s) /\ log'[s] = L
  BY <1>4, <1>6, Domains, SetsAt
<1>9. \A i : i \in DOMAIN L <=> i \in DOMAIN log[s] \/ i = Len(log[s]) + 1
  BY <1>7
<1>10. \A i \in DOMAIN L : \/ L[i] = e
                           \/ i \in DOMAIN log[s] /\ L[i] = log[s][i]
  BY <1>7, <1>9
<1>11. \A i \in DOMAIN L : L[i].touch <= Passed(s) + 1
  BY <1>3, <1>5, <1>10
<1>12. Len(log[s]) + 1 \in DOMAIN L /\ L[Len(log[s]) + 1].touch = k.pc
       /\ L[Len(log[s]) + 1].ok = ok
  BY <1>3, <1>7, <1>9
<1>13. Promise!Happened(s)' = Promise!Happened(s) \cup {k.pc}
  <2>1. Promise!Happened(s)' = {L[i].touch : i \in DOMAIN L}
    BY <1>8 DEF Promise!Happened
  <2>2. Promise!Happened(s) = {log[s][i].touch : i \in DOMAIN log[s]}
    BY DEF Promise!Happened
  <2>3. \A i \in DOMAIN log[s] : i \in DOMAIN L /\ L[i] = log[s][i]
    BY <1>7, <1>9
  <2>5. ASSUME NEW x
        PROVE  x \in Promise!Happened(s)' <=> x \in Promise!Happened(s) \cup {k.pc}
    BY <1>3, <1>10, <1>12, <2>1, <2>2, <2>3
  <2> QED BY <2>5
<1>14. log'[s] \in Entries(s)
  BY <1>7, <1>8 DEF Entries, E
<1>15. \A i \in DOMAIN L : \/ L[i].touch = k.pc
                           \/ i \in DOMAIN log[s] /\ L[i] = log[s][i]
  BY <1>3, <1>10
<1> QED BY <1>8, <1>11, <1>12, <1>13, <1>14, <1>15

\* What the history is like when the program has seen an answer of its next touch.
LEMMA PassedNext ==
  ASSUME SInv, NEW s \in Session, NEW ok \in BOOLEAN, NEW from \in Origin, Sees(s, ok, from),
         program' = program, Passed(s) + 1 <= Len(program[s]), log'[s] \in Entries(s),
         \A i \in DOMAIN log'[s] : log'[s][i].touch <= Passed(s) + 1
  PROVE  Logged(s)' /\ Behind(s)'
<1>1. saw'[s] \in Seq(Answer) /\ Passed(s)' = Passed(s) + 1
  BY Noted
<1>2. Passed(s) \in Nat /\ Len(program[s]) \in Nat
  BY Counted
<1>3. \A i \in DOMAIN log'[s] : log'[s][i].touch \in Nat
  <2>1. DOMAIN program[s] = 1..Len(program[s])
    BY ProgramTyped DEF SInv
  <2>2. \A x \in [touch : DOMAIN program[s], ok : BOOLEAN, at : Tier] : x.touch \in Nat
    BY <1>2, <2>1
  <2>3. PICK L, E : /\ L = log'[s] /\ E = [touch : DOMAIN program[s], ok : BOOLEAN, at : Tier]
    OBVIOUS
  <2>4. L \in Seq(E)
    BY <2>3 DEF Entries
  <2>5. \A i \in DOMAIN L : L[i] \in E
    BY <2>4
  <2> QED BY <2>2, <2>3, <2>5
<1>4. \A i \in DOMAIN log'[s] : log'[s][i].touch <= Passed(s)'
  BY <1>1
<1>5. \A i \in DOMAIN log'[s] : log'[s][i].touch <= Passed(s)' + 1
  BY <1>1, <1>2, <1>3
<1>6. Passed(s)' <= Len(program'[s])
  BY <1>1
<1>7. log'[s] \in Entries(s)'
  BY DEF Entries
<1> QED BY <1>1, <1>4, <1>5, <1>6, <1>7 DEF Logged, Behind

\* No touch happens.
LEMMA LogSame ==
  ASSUME SInv, NEW s \in Session, log' = log
  PROVE  /\ Sets(log, log', s) /\ log'[s] \in Entries(s)
         /\ \A i \in DOMAIN log'[s] : log'[s][i].touch <= Passed(s) + 1
         /\ Promise!Happened(s)' = Promise!Happened(s)
<1>1. Logged(s)
  BY Known
<1> QED BY <1>1, SetsSame DEF Logged, Promise!Happened

\* The program has seen nothing new.
LEMMA SameSeen ==
  ASSUME NEW s, saw' = saw, program' = program, mode' = mode
  PROVE  /\ Passed(s)' = Passed(s)
         /\ Promise!Cut(s)' <=> Promise!Cut(s)
         /\ \A D : Bears(s, D)' <=> Bears(s, D)
<1>1. Passed(s)' = Passed(s)
  BY DEF Passed
<1>2. Promise!Cut(s)' <=> Promise!Cut(s)
  BY DEF Promise!Cut, Promise!Last
<1>3. \A D : Bears(s, D)' <=> Bears(s, D)
  BY <1>1 DEF Bears
<1> QED BY <1>1, <1>2, <1>3

\* After the answer of its touch the continuation may run on any tier.
LEMMA OutcomeReady ==
  ASSUME SInv, NEW s \in Session, NEW k \in Continuation(s), k.pc <= Len(program[s]),
         k.pc = Passed(s) + 1, NEW ok \in BOOLEAN, NEW from \in Origin, Sees(s, ok, from),
         program' = program, NEW o, o = Outcome(s, k, ok)
  PROVE  \A t : Ready(s, o, t)'
<1>1. /\ ok \/ program[s][k.pc].guarded => o.pc = k.pc + 1 /\ o.for = "step"
      /\ ~(ok \/ program[s][k.pc].guarded) => o.pc = k.pc /\ o.for = "raise"
  BY OutcomeTyped
<1>2. /\ Passed(s)' = Passed(s) + 1
      /\ Promise!Cut(s)' <=> ~ok /\ ~program[s][Passed(s) + 1].guarded
  BY Noted
<1>3. CASE ok \/ program[s][k.pc].guarded
  <2>1. o.pc = Passed(s)' + 1 /\ o.for = "step" /\ ~Promise!Cut(s)'
    BY <1>1, <1>2, <1>3
  <2> QED BY <2>1 DEF Ready
<1>4. CASE ~(ok \/ program[s][k.pc].guarded)
  <2>1. o.for = "raise" /\ Promise!Cut(s)'
    BY <1>1, <1>2, <1>4
  <2> QED BY <2>1 DEF Ready
<1> QED BY <1>3, <1>4

\* What the driver carries when it pumps on with an answer that it fetched.
LEMMA BearsThen ==
  ASSUME SInv, NEW s \in Session, NEW k, k.pc = Passed(s) + 1,
         NEW ok \in BOOLEAN, NEW from \in Origin, Sees(s, ok, from),
         program' = program, mode' = mode,
         program[s][k.pc].owner # Home[s] \/ from = "before",
         NEW D, D = PumpingWith(s, k, ok)
  PROVE  D.at = "pump" /\ D.k = Outcome(s, k, ok) /\ Bears(s, D)'
<1>1. /\ D.at = "pump" /\ D.k = Outcome(s, k, ok)
      /\ D.carried = IF mode[s] # "local" THEN "nothing" ELSE IF ok THEN "value" ELSE "error"
  BY DEF PumpingWith, Pumping
<1>2. /\ Passed(s)' = Passed(s) + 1
      /\ saw'[s][Passed(s) + 1].ok = ok /\ saw'[s][Passed(s) + 1].from = from
  BY Noted
<1>3. Passed(s) + 1 # 0
  BY Counted
<1>4. D.carried # "nothing" => mode[s] = "local" /\ D.carried = IF ok THEN "value" ELSE "error"
  BY <1>1
<1>5. Bears(s, D)'
  BY <1>2, <1>3, <1>4 DEF Bears
<1> QED BY <1>1, <1>5

\* A request carries a continuation.
LEMMA RequestTyped ==
  ASSUME SInv, NEW s \in Session, NEW f \in Requests(s), f.kind = "resume" \/ f.kind = "exec"
  PROVE  f.k \in Continuation(s)
<1>1. Away(s) \in Tier /\ toward \in [Tier -> Seq(Frame)]
  BY Tiers DEF SInv, Shape
<1>2. PICK i \in DOMAIN toward[Away(s)] : toward[Away(s)][i].s = s /\ f = toward[Away(s)][i]
  BY InFrames DEF Requests
<1>3. f \in Frame /\ f.s = s
  BY <1>1, <1>2
<1>4. PICK z \in Session : f \in Message(z)
  BY <1>3 DEF Frame
<1>5. f \in Message(s)
  BY <1>3, <1>4, MessageOf
<1> QED BY <1>5, MessageTyped

\* The driver goes on pumping, past a touch that the program has seen an answer of.
LEMMA PumpKept ==
  ASSUME SInv, NEW s \in Session, driver[s].at = "pump" \/ driver[s].at = "exec",
         ~closed[Home[s]] => Requests(s) = {} /\ remote[s] = Idle,
         Carried(s), Requests(s)' = Requests(s), Replies(s)' = {},
         NEW k \in Continuation(s), k.pc = Passed(s) + 1, k.pc <= Len(program[s]),
         NEW ok \in BOOLEAN, NEW from \in Origin, Sees(s, ok, from),
         NEW D, D.at = "pump", D.k = Outcome(s, k, ok), Bears(s, D)',
         driver' = [driver EXCEPT ![s] = D],
         Calm, remote' = remote, result' = result, HeldApart(s),
         Sets(log, log', s), log'[s] \in Entries(s),
         \A i \in DOMAIN log'[s] : log'[s][i].touch <= Passed(s) + 1,
         \A j \in Continuation(s) : Pends(s, j, driver[s]) => Pends(s, j, D)',
         Promise!Next
  PROVE  Preserved
<1>1. Sets(driver, driver', s) /\ driver'[s] = D
  BY Domains, SetsAt
<1>2. Sets(remote, remote', s)
  BY SetsSame
<1>3. program' = program
  BY DEF Calm
<1>4. /\ Sets(saw, saw', s) /\ saw'[s] \in Seq(Answer) /\ Passed(s)' = Passed(s) + 1
  BY <1>3, Noted
<1>5. Acts(s)
  BY <1>1, <1>2, <1>4, StillResult, ActsWhen
<1>6. PICK R, P : R = remote[s] /\ P = Requests(s)
  OBVIOUS
<1>7. Becomes(s, D, R, P, {})
  BY <1>1, <1>6 DEF Becomes, Carried
<1>8. PICK d, Q : d = driver[s] /\ Q = Replies(s)
  OBVIOUS
<1>9. PlacedAs(s, d, R, P, Q) /\ OrderedAs(s, d, R, P, Q)
  BY <1>6, <1>8, Known
<1>10. PICK o : o = Outcome(s, k, ok)
  OBVIOUS
<1>11. o \in Continuation(s)
  BY <1>10, OutcomeTyped
<1>12. D.k = o
  BY <1>10
<1>13. Idle.at = "idle" /\ Over.at = "over"
  BY DEF Idle, Over
<1> HIDE DEF Idle, Over
<1>14. D # Over /\ D # Idle /\ (d.at = "pump" \/ d.at = "exec")
  BY <1>8, <1>13
<1>15. R.at # "pump" /\ \A f \in P : f.kind = "exec"
  BY <1>9, <1>14 DEF PlacedAs
<1>16. PlacedAs(s, D, R, P, {})
  BY <1>6, <1>9, <1>11, <1>12, <1>14, <1>15 DEF PlacedAs, PointTyped
<1>17. \A t : Ready(s, o, t)'
  BY <1>3, <1>10, OutcomeReady
<1>18. Logged(s)' /\ Behind(s)'
  <2>1. Passed(s) + 1 <= Len(program[s])
    OBVIOUS
  <2> QED BY <1>3, <2>1, PassedNext
<1>19. OrderedAs(s, D, R, P, {})'
  <2>1. result'[s] = "none"
    BY <1>9, <1>13, <1>14 DEF OrderedAs
  <2>2. R.at = "exec" => Pends(s, R.k, D)'
    <3>1. R.at = "exec" => R.k \in Continuation(s)
      BY <1>9, <1>13 DEF PlacedAs, PointTyped
    <3>2. R.at = "exec" => Pends(s, R.k, d)
      BY <1>9 DEF OrderedAs
    <3> QED BY <1>8, <3>1, <3>2
  <2>3. ASSUME NEW f \in P
        PROVE  f.kind = "exec" /\ Pends(s, f.k, D)'
    <3>1. f.kind = "exec" /\ f.k \in Continuation(s)
      BY <1>6, <1>15, RequestTyped
    <3>2. Pends(s, f.k, d)
      BY <1>9, <3>1 DEF OrderedAs
    <3> QED BY <1>8, <3>1, <3>2
  <2>4. Ready(s, D.k, Home[s])'
    BY <1>12, <1>17 DEF Ready
  <2> QED BY <1>14, <1>15, <1>18, <2>1, <2>2, <2>3, <2>4 DEF OrderedAs
<1> QED BY <1>5, <1>7, <1>14, <1>16, <1>18, <1>19, StepKept

\* What was lost before stays pending when the driver passes the next touch.
LEMMA StillPends ==
  ASSUME SInv, NEW s \in Session, driver[s].at = "pump", NEW j \in Continuation(s),
         Pends(s, j, driver[s]), NEW D, D.at = "pump", Calm,
         NEW ok \in BOOLEAN, NEW from \in Origin, Sees(s, ok, from),
         \A x \in Promise!Happened(s)' : x \in Promise!Happened(s) \/ x = Passed(s) + 1
  PROVE  Pends(s, j, D)'
<1>1. Passed(s) \in Nat /\ j.pc \in Nat /\ j.pc >= 1
  BY Counted, ProgramTyped DEF Continuation, SInv
<1>2. /\ program[s][j.pc].owner = Away(s) /\ j.pc \notin Promise!Happened(s)
      /\ j.pc <= Passed(s) /\ saw[s][j.pc].from = "lost" /\ ~up
  BY DEF Pends
<1>3. program' = program /\ up' = up
  BY DEF Calm
<1>4. Passed(s)' = Passed(s) + 1 /\ \A i \in 1..Passed(s) : saw'[s][i] = saw[s][i]
  BY <1>3, Noted
<1>5. j.pc \in 1..Passed(s) /\ j.pc <= Passed(s) + 1 /\ j.pc # Passed(s) + 1
  BY <1>1, <1>2
<1>6. j.pc <= Passed(s)' /\ saw'[s][j.pc].from = "lost" /\ j.pc \notin Promise!Happened(s)'
  BY <1>2, <1>4, <1>5
<1>7. D.at # "exec"
  OBVIOUS
<1> QED BY <1>2, <1>3, <1>6, <1>7 DEF Pends, Away

-----------------------------------------------------------------------------
(* The touches.                                                            *)

\* A continuation that may run, and whose touch is next, is after the last touch seen.
LEMMA NextTouch ==
  ASSUME SInv, NEW s \in Session, NEW k \in Continuation(s), NEW t, Ready(s, k, t),
         Behind(s), k.for # "raise"
  PROVE  k.pc = Passed(s) + 1 /\ ~Promise!Cut(s) /\ k.pc \notin Promise!Happened(s)
<1>1. k.pc = Passed(s) + 1 /\ ~Promise!Cut(s)
  BY DEF Ready
<1> QED BY <1>1, NotYet

\* The place of the next touch in the program, for Workflow.
LEMMA NextReached ==
  ASSUME SInv, NEW s \in Session, NEW k \in Continuation(s), k.pc <= Len(program[s]),
         k.pc = Passed(s) + 1, ~Promise!Cut(s)
  PROVE  Promise!Reaches(s, k.pc) /\ k.pc \in DOMAIN program[s]
<1>1. k.pc \in DOMAIN program[s]
  BY ProgramTyped DEF Continuation, SInv
<1> QED BY <1>1 DEF Promise!Reaches, Promise!Last, Passed

\* The next touch happens and is seen, as Workflow says.
LEMMA TouchPromised ==
  ASSUME SInv, NEW s \in Session, NEW k \in Continuation(s), k.pc <= Len(program[s]),
         NEW ok \in BOOLEAN, NEW u \in Tier, Record(s, k, ok, u),
         program[s][k.pc].owner = u \/ program[s][k.pc].pinned,
         k.pc = Passed(s) + 1, ~Promise!Cut(s), k.pc \notin Promise!Happened(s),
         result[s] = "none" \/ ~up, Calm, result' = result
  PROVE  Promise!Next
<1>1. Promise!Reaches(s, k.pc) /\ k.pc \in DOMAIN program[s]
  BY NextReached
<1>2. Promise!Happens(s, k.pc, ok)
  BY DEF Promise!Happens, Record, Happens, Tier
<1>3. Promise!Sees(s, ok, "touch")
  BY DEF Promise!Sees, Record, Sees
<1>4. Promise!Touch(s)
  BY <1>1, <1>2, <1>3 DEF Promise!Touch, Calm
<1> QED BY <1>4 DEF Promise!Next

\* A touch is serviced where its resource lives.
LEMMA ServicedOwner ==
  ASSUME NEW s \in Session, NEW k \in Continuation(s), NEW t \in Tier, Ready(s, k, t),
         Serviced(s, k, t)
  PROVE  k.for # "raise" /\ k.pc <= Len(program[s]) /\ program[s][k.pc].owner = t
BY DEF Serviced, Ready, Segm

\* A touch is serviced at home.
LEMMA DriverServicesKept ==
  ASSUME SInv, NEW s \in Session, DriverServices(s)
  PROVE  Preserved
<1>1. PICK k \in Continuation(s), ok \in BOOLEAN :
        /\ Drives(s, k)
        /\ \/ /\ Serviced(s, k, Home[s]) /\ driver[s].carried = "nothing"
              /\ driver' = [driver EXCEPT ![s] = Pumping(Outcome(s, k, ok))]
           \/ /\ StaysHome(s, k)
              /\ driver' = [driver EXCEPT ![s] = PumpingWith(s, k, ok)]
        /\ Record(s, k, ok, Home[s])
        /\ UNCHANGED <<fixed, link, remote, toward, held, result>>
  BY DEF DriverServices
<1>2. Home[s] \in Tier /\ Away(s) \in Tier /\ Home[s] # Away(s)
  BY Tiers
<1>3. /\ Ready(s, k, Home[s]) /\ Replies(s) = {} /\ driver[s].at = "pump" /\ Behind(s)
      /\ ~closed[Home[s]] => Requests(s) = {} /\ remote[s] = Idle
      /\ result[s] = "none"
  BY <1>1, Pumped
<1>5. Calm /\ remote' = remote /\ toward' = toward /\ held' = held /\ result' = result
  BY <1>1 DEF fixed, link, Calm
<1>6. program' = program /\ mode' = mode
  BY <1>5 DEF Calm
<1>7. Sees(s, ok, "touch") /\ Happens(s, k, ok, Home[s]) /\ "touch" \in Origin
  BY <1>1 DEF Record, Origin
<1>8. PICK D :
        /\ driver' = [driver EXCEPT ![s] = D]
        /\ \/ /\ Serviced(s, k, Home[s]) /\ D = Pumping(Outcome(s, k, ok))
           \/ StaysHome(s, k) /\ D = PumpingWith(s, k, ok)
  BY <1>1
<1>9. /\ k.pc <= Len(program[s]) /\ k.pc = Passed(s) + 1 /\ ~Promise!Cut(s)
      /\ k.pc \notin Promise!Happened(s)
      /\ Serviced(s, k, Home[s]) => program[s][k.pc].owner = Home[s]
      /\ StaysHome(s, k) => program[s][k.pc].owner # Home[s] /\ program[s][k.pc].pinned
  <2>1. CASE Serviced(s, k, Home[s])
    <3>1. k.for # "raise" /\ k.pc <= Len(program[s]) /\ program[s][k.pc].owner = Home[s]
      BY <1>2, <1>3, <2>1, ServicedOwner
    <3>2. ~StaysHome(s, k)
      BY <2>1 DEF StaysHome, Parks
    <3> QED BY <1>3, <3>1, <3>2, NextTouch
  <2>2. CASE StaysHome(s, k)
    <3>1. /\ Parks(s, k, Home[s]) /\ Parked(s, k, Home[s]).for = "touch"
          /\ program[s][k.pc].pinned
      BY <2>2 DEF StaysHome, Segm
    <3>2. PICK p : p = Parked(s, k, Home[s])
      OBVIOUS
    <3>3. /\ k.pc <= Len(program[s]) /\ program[s][k.pc].owner = Away(s)
          /\ k.pc = Passed(s) + 1 /\ ~Promise!Cut(s)
      BY <1>2, <1>3, <3>1, <3>2, ParkedReady
    <3>4. k.pc \notin Promise!Happened(s)
      BY <1>3, <3>3, NotYet
    <3>5. ~Serviced(s, k, Home[s])
      BY <3>1 DEF Parks
    <3> QED BY <1>2, <3>1, <3>3, <3>4, <3>5
  <2> QED BY <1>8, <2>1, <2>2
<1>10. D.at = "pump" /\ D.k = Outcome(s, k, ok) /\ Bears(s, D)'
  <2>1. CASE D = Pumping(Outcome(s, k, ok))
    <3>1. D.at = "pump" /\ D.k = Outcome(s, k, ok) /\ D.carried = "nothing"
      BY <2>1 DEF Pumping
    <3> QED BY <3>1 DEF Bears
  <2>2. CASE StaysHome(s, k) /\ D = PumpingWith(s, k, ok)
    BY <1>6, <1>7, <1>9, <2>2, BearsThen
  <2> QED BY <1>8, <2>1, <2>2
<1>11. Passed(s) \in Nat /\ k.pc <= Passed(s) + 1
  BY <1>9, Counted
<1>12. /\ Sets(log, log', s) /\ log'[s] \in Entries(s)
       /\ \A i \in DOMAIN log'[s] : log'[s][i].touch <= Passed(s) + 1
       /\ Promise!Happened(s)' = Promise!Happened(s) \cup {k.pc}
  BY <1>2, <1>6, <1>7, <1>9, <1>11, Entered
<1>13. \A x \in Promise!Happened(s)' : x \in Promise!Happened(s) \/ x = Passed(s) + 1
  BY <1>9, <1>12
<1>14. \A j \in Continuation(s) : Pends(s, j, driver[s]) => Pends(s, j, D)'
  BY <1>3, <1>5, <1>7, <1>10, <1>13, StillPends
<1>15. Promise!Next
  <2>1. program[s][k.pc].owner = Home[s] \/ program[s][k.pc].pinned
    BY <1>8, <1>9
  <2> QED BY <1>1, <1>2, <1>3, <1>5, <1>9, <2>1, TouchPromised
<1>16. Carried(s) /\ Requests(s)' = Requests(s) /\ Replies(s)' = {}
  BY <1>3, <1>5, CarriesNothing
<1> QED BY <1>3, <1>5, <1>7, <1>8, <1>9, <1>10, <1>12, <1>14, <1>15, <1>16, HeldSame, PumpKept

\* A touch is answered with what runLocal carries: Workflow's exception.
LEMMA DriverRepeatsKept ==
  ASSUME SInv, NEW s \in Session, DriverRepeats(s)
  PROVE  Preserved
<1>1. PICK k \in Continuation(s), ok \in BOOLEAN :
        /\ Drives(s, k)
        /\ Serviced(s, k, Home[s]) /\ driver[s].carried = IF ok THEN "value" ELSE "error"
        /\ Sees(s, ok, "before")
        /\ driver' = [driver EXCEPT ![s] = PumpingWith(s, k, ok)]
        /\ UNCHANGED <<fixed, link, remote, toward, held, log, result>>
  BY DEF DriverRepeats
<1>2. Home[s] \in Tier
  BY Tiers
<1>3. /\ Ready(s, k, Home[s]) /\ Replies(s) = {} /\ driver[s].at = "pump" /\ Behind(s)
      /\ ~closed[Home[s]] => Requests(s) = {} /\ remote[s] = Idle
      /\ Bears(s, driver[s])
  BY <1>1, Pumped
<1>4. /\ Calm /\ remote' = remote /\ toward' = toward /\ held' = held /\ log' = log
      /\ result' = result /\ "before" \in Origin
  BY <1>1 DEF fixed, link, Calm, Origin
<1>5. program' = program /\ mode' = mode
  BY <1>4 DEF Calm
<1>6. k.for # "raise" /\ k.pc <= Len(program[s]) /\ program[s][k.pc].owner = Home[s]
  BY <1>1, <1>2, <1>3, ServicedOwner
<1>7. k.pc = Passed(s) + 1 /\ ~Promise!Cut(s)
  BY <1>3, <1>6, NextTouch
<1>8. driver[s].carried # "nothing" /\ (driver[s].carried = "value" <=> ok)
  BY <1>1
<1>9. /\ mode[s] = "local" /\ Passed(s) # 0
      /\ driver[s].carried = IF saw[s][Passed(s)].ok THEN "value" ELSE "error"
      /\ program[s][Passed(s)].owner # Home[s] \/ saw[s][Passed(s)].from = "before"
  BY <1>3, <1>8 DEF Bears
<1>10. ok = saw[s][Passed(s)].ok
  <2>1. Passed(s) \in DOMAIN saw[s]
    BY <1>9, Counted
  <2>2. saw[s] \in Seq(Answer)
    BY Known DEF Logged
  <2>3. saw[s][Passed(s)] \in Answer
    BY <2>1, <2>2
  <2>4. saw[s][Passed(s)].ok \in BOOLEAN
    BY <2>3 DEF Answer
  <2>5. saw[s][Passed(s)].ok <=> ok
    BY <1>8, <1>9
  <2> QED BY <2>4, <2>5, Agree
<1>11. Promise!Next
  <2>1. Promise!Reaches(s, k.pc) /\ k.pc \in DOMAIN program[s]
    BY <1>6, <1>7, NextReached
  <2>2. Promise!Last(s) = Passed(s)
    BY DEF Promise!Last, Passed
  <2>3. Promise!Sees(s, saw[s][Passed(s)].ok, "before")
    BY <1>1, <1>10 DEF Promise!Sees, Sees
  <2>4. UNCHANGED <<program, mode, log, result, up>>
    BY <1>4 DEF Calm
  <2>5. Promise!Repeat(s)
    BY <1>6, <1>9, <2>1, <2>2, <2>3, <2>4 DEF Promise!Repeat
  <2> QED BY <2>5 DEF Promise!Next
<1>12. PICK D : D = PumpingWith(s, k, ok)
  OBVIOUS
<1>13. D.at = "pump" /\ D.k = Outcome(s, k, ok) /\ Bears(s, D)'
  BY <1>1, <1>4, <1>5, <1>7, <1>12, BearsThen
<1>14. /\ Sets(log, log', s) /\ log'[s] \in Entries(s)
       /\ \A i \in DOMAIN log'[s] : log'[s][i].touch <= Passed(s) + 1
       /\ Promise!Happened(s)' = Promise!Happened(s)
  BY <1>4, LogSame
<1>15. \A j \in Continuation(s) : Pends(s, j, driver[s]) => Pends(s, j, D)'
  BY <1>1, <1>3, <1>4, <1>13, <1>14, StillPends
<1>16. Carried(s) /\ Requests(s)' = Requests(s) /\ Replies(s)' = {}
  BY <1>3, <1>4, CarriesNothing
<1> QED BY <1>1, <1>3, <1>4, <1>6, <1>7, <1>11, <1>12, <1>13, <1>14, <1>15, <1>16, HeldSame,
           PumpKept

\* A fetch that does not leave carries an error into the program.
LEMMA FetchFailsKept ==
  ASSUME SInv, NEW s \in Session, FetchFails(s)
  PROVE  Preserved
<1>1. PICK k \in Continuation(s) :
        /\ Leaves(s, k) /\ Parked(s, k, Home[s]).for = "touch" /\ Prices(s)
        /\ Carry(s, k, "unsent")
  BY DEF FetchFails
<1>2. PICK p : p = Parked(s, k, Home[s])
  OBVIOUS
<1>3. /\ Replies(s) = {} /\ driver[s].at = "pump"
      /\ ~closed[Home[s]] => Requests(s) = {} /\ remote[s] = Idle
  BY <1>1, Pumped DEF Leaves
<1>4. /\ k.pc <= Len(program[s]) /\ program[s][k.pc].owner = Away(s)
      /\ k.pc = Passed(s) + 1 /\ ~Promise!Cut(s) /\ k.pc \notin Promise!Happened(s)
  BY <1>1, <1>2, LeavesReady
<1>5. /\ Calm /\ remote' = remote /\ toward' = toward /\ log' = log /\ result' = result
      /\ Sees(s, FALSE, "unsent") /\ "unsent" \in Origin /\ FALSE \in BOOLEAN
  BY <1>1 DEF Carry, fixed, link, Calm, Origin
<1>6. program' = program /\ mode' = mode
  BY <1>5 DEF Calm
<1>7. program[s][k.pc].owner # Home[s]
  BY <1>4, Tiers
<1>8. PICK D : D = PumpingWith(s, k, FALSE) /\ driver' = [driver EXCEPT ![s] = D]
  BY <1>1 DEF Carry
<1>9. D.at = "pump" /\ D.k = Outcome(s, k, FALSE) /\ Bears(s, D)'
  BY <1>4, <1>5, <1>6, <1>7, <1>8, BearsThen
<1>10. /\ Sets(log, log', s) /\ log'[s] \in Entries(s)
       /\ \A i \in DOMAIN log'[s] : log'[s][i].touch <= Passed(s) + 1
       /\ Promise!Happened(s)' = Promise!Happened(s)
  BY <1>5, LogSame
<1>11. \A j \in Continuation(s) : Pends(s, j, driver[s]) => Pends(s, j, D)'
  BY <1>3, <1>5, <1>9, <1>10, StillPends
<1>12. Promise!Next
  <2>1. Promise!Reaches(s, k.pc) /\ k.pc \in DOMAIN program[s]
    BY <1>4, NextReached
  <2>2. Promise!Unsent(s)
    BY <1>4, <1>5, <1>7, <2>1 DEF Promise!Unsent, Promise!Sees, Sees, Calm
  <2> QED BY <2>2 DEF Promise!Next
<1>13. Carried(s) /\ Requests(s)' = Requests(s) /\ Replies(s)' = {}
  BY <1>3, <1>5, CarriesNothing
<1>14. HeldApart(s)
  BY <1>1, PricedApart
<1> QED BY <1>3, <1>4, <1>5, <1>8, <1>9, <1>10, <1>11, <1>12, <1>13, <1>14, PumpKept

\* The close event rejects a fetch, whose touch has happened, will happen late or never does.
LEMMA RejectedFetchKept ==
  ASSUME SInv, NEW s \in Session, closed[Home[s]], driver[s].at = "exec",
         Carry(s, driver[s].k, "lost"), held' = held
  PROVE  Preserved
<1>1. PICK k, d : k = driver[s].k /\ d = driver[s]
  OBVIOUS
<1>2. /\ PlacedAs(s, d, remote[s], Requests(s), Replies(s))
      /\ OrderedAs(s, d, remote[s], Requests(s), Replies(s))
      /\ Replies(s) = {} /\ ~up
  BY <1>1, Known
<1>3. k \in Continuation(s) /\ k.pc <= Len(program[s]) /\ Fetches(s, k)
  <2>1. Idle.at # "exec" /\ Over.at # "exec"
    BY DEF Idle, Over
  <2> QED BY <1>1, <1>2, <2>1 DEF PlacedAs, OrderedAs, PointTyped
<1>4. program[s][k.pc].owner = Away(s) /\ k.pc = Passed(s) + 1 /\ ~Promise!Cut(s)
  BY <1>3 DEF Fetches
<1>5. Carry(s, k, "lost")
  BY <1>1
<1>6. /\ Calm /\ remote' = remote /\ toward' = toward /\ log' = log /\ result' = result
      /\ Sees(s, FALSE, "lost") /\ "lost" \in Origin /\ FALSE \in BOOLEAN
  BY <1>5 DEF Carry, fixed, link, Calm, Origin
<1>7. program' = program /\ mode' = mode /\ up' = up
  BY <1>6 DEF Calm
<1>8. program[s][k.pc].owner # Home[s]
  BY <1>4, Tiers
<1>9. PICK D : D = PumpingWith(s, k, FALSE) /\ driver' = [driver EXCEPT ![s] = D]
  BY <1>5 DEF Carry
<1>10. D.at = "pump" /\ D.k = Outcome(s, k, FALSE) /\ Bears(s, D)'
  BY <1>4, <1>6, <1>7, <1>8, <1>9, BearsThen
<1>11. /\ Sets(log, log', s) /\ log'[s] \in Entries(s)
       /\ \A i \in DOMAIN log'[s] : log'[s][i].touch <= Passed(s) + 1
       /\ Promise!Happened(s)' = Promise!Happened(s)
  BY <1>6, LogSame
<1>12. ASSUME NEW j \in Continuation(s), Pends(s, j, driver[s])
       PROVE  Pends(s, j, D)'
  <2>1. j = k /\ k.pc \notin Promise!Happened(s)
    BY <1>1, <1>12 DEF Pends
  <2>2. Passed(s)' = Passed(s) + 1 /\ saw'[s][Passed(s) + 1].from = "lost"
    BY <1>6, <1>7, Noted
  <2>3. k.pc <= Passed(s)' /\ saw'[s][k.pc].from = "lost"
    BY <1>4, <2>2, Counted
  <2>4. D.at # "exec"
    BY <1>10
  <2> QED BY <1>2, <1>4, <1>7, <1>11, <2>1, <2>3, <2>4 DEF Pends, Away
<1>13. Promise!Next
  <2>1. Promise!Reaches(s, k.pc) /\ k.pc \in DOMAIN program[s]
    BY <1>3, <1>4, NextReached
  <2>2. Promise!Lost(s)
    BY <1>2, <1>6, <1>8, <2>1 DEF Promise!Lost, Promise!Sees, Sees, Calm
  <2> QED BY <2>2 DEF Promise!Next
<1>14. Carried(s) /\ Requests(s)' = Requests(s) /\ Replies(s)' = {}
  BY <1>2, <1>6, CarriesNothing
<1> QED BY <1>3, <1>4, <1>6, <1>9, <1>10, <1>11, <1>12, <1>13, <1>14, HeldSame, PumpKept

\* The close event rejects what the driver awaits (transport.mts:141-146).
LEMMA RejectedKept ==
  ASSUME SInv, NEW s \in Session, Rejected(s)
  PROVE  Preserved
<1>1. CASE driver[s].at = "exec"
  BY <1>1, RejectedFetchKept DEF Rejected
<1>2. CASE driver[s].at # "exec"
  <2>1. driver[s].at = "resume" /\ closed[Home[s]] /\ Settle(s, "error")
    BY <1>2 DEF Rejected, Awaiting
  <2>2. Replies(s) = {} /\ result[s] = "none" /\ ~up
    <3>1. Over.at # "resume"
      BY DEF Over
    <3> QED BY <2>1, <3>1, Known DEF OrderedAs
  <2>3. SettlesAs(s, "error")
    BY <2>1, <2>2 DEF SettlesAs, Settle
  <2> QED BY <1>2, <2>1, <2>2, <2>3, SettleKept
<1> QED BY <1>1, <1>2

\* The answer of a fetched touch enters the program.
LEMMA ReplyFetchedKept ==
  ASSUME SInv, NEW s \in Session, ReplyFetched(s)
  PROVE  Preserved
<1>1. PICK m : m = Head(toward[Home[s]])
  OBVIOUS
<1>2. PICK k : k = driver[s].k
  OBVIOUS
<1>3. PICK ok : ok = m.ok
  OBVIOUS
<1>4. PICK D : D = PumpingWith(s, k, ok)
  OBVIOUS
<1>5. /\ driver' = [driver EXCEPT ![s] = D] /\ remote' = remote /\ held' = held
      /\ Sees(s, ok, "touch") /\ Calm /\ log' = log /\ result' = result
      /\ toward' = Taken(Home[s]) /\ Arrives(Home[s], {"fetched"}, s)
  BY <1>1, <1>2, <1>3, <1>4 DEF ReplyFetched, fixed, link, Calm
<1>6. program' = program /\ mode' = mode /\ "touch" \in Origin
  BY <1>5 DEF Calm, Origin
<1>7. /\ m \in Message(s) /\ m.kind = "fetched" /\ Requests(s) = {} /\ remote[s] = Idle
      /\ Tells(s, m, driver[s]) /\ driver[s].at = "exec" /\ PointTyped(s, driver[s])
      /\ Fetches(s, driver[s].k)
      /\ Left(s, toward') /\ Frames(toward'[Home[s]], s) = {}
      /\ toward'[Away(s)] = toward[Away(s)]
  <2>1. /\ m \in Message(s) /\ m.kind \in {"fetched"} /\ Requests(s) = {} /\ remote[s] = Idle
        /\ Tells(s, m, driver[s]) /\ PointTyped(s, driver[s])
        /\ IF m.kind = "fetched" THEN driver[s].at = "exec" ELSE driver[s].at = "resume"
        /\ driver[s].at = "exec" => Fetches(s, driver[s].k)
        /\ Left(s, toward') /\ Frames(toward'[Home[s]], s) = {}
        /\ toward'[Away(s)] = toward[Away(s)]
    BY <1>1, <1>5, Replied
  <2>2. m.kind = "fetched"
    BY <2>1
  <2>3. driver[s].at = "exec"
    BY <2>1, <2>2
  <2> QED BY <2>1, <2>2, <2>3
<1>8. Carried(s) /\ Requests(s)' = Requests(s) /\ Replies(s)' = {}
  BY <1>7, LeftIsCarried DEF Requests, Replies, Away
<1>9. ok \in BOOLEAN
  BY <1>3, <1>7, MessageTyped
<1>10. k \in Continuation(s) /\ k.pc <= Len(program[s]) /\ Fetches(s, k)
  BY <1>2, <1>7 DEF PointTyped
<1>11. program[s][k.pc].owner = Away(s) /\ k.pc = Passed(s) + 1 /\ ~Promise!Cut(s)
  BY <1>10 DEF Fetches
<1>12. PICK i \in DOMAIN log[s] : log[s][i].touch = k.pc /\ log[s][i].ok = ok
  BY <1>2, <1>3, <1>7 DEF Tells
<1>13. Promise!Next
  <2>1. Promise!Reaches(s, k.pc)
    BY <1>10, <1>11, NextReached
  <2>2. Promise!Sees(s, ok, "touch")
    BY <1>5 DEF Promise!Sees, Sees
  <2>3. Promise!See(s)
    BY <1>5, <1>12, <2>1, <2>2 DEF Promise!See, Calm
  <2> QED BY <2>3 DEF Promise!Next
<1>14. program[s][k.pc].owner # Home[s]
  BY <1>11, Tiers
<1>15. D.at = "pump" /\ D.k = Outcome(s, k, ok) /\ Bears(s, D)'
  BY <1>4, <1>5, <1>6, <1>9, <1>11, <1>14, BearsThen
<1>16. /\ Sets(log, log', s) /\ log'[s] \in Entries(s)
       /\ \A j \in DOMAIN log'[s] : log'[s][j].touch <= Passed(s) + 1
  BY <1>5, LogSame
<1>17. \A j \in Continuation(s) : ~Pends(s, j, driver[s])
  BY <1>2, <1>7, <1>12 DEF Pends, Promise!Happened
<1> QED BY <1>5, <1>6, <1>7, <1>8, <1>9, <1>10, <1>11, <1>13, <1>15, <1>16, <1>17, HeldSame,
           PumpKept

\* A touch is serviced on the far tier.
LEMMA RemoteServicesKept ==
  ASSUME SInv, NEW s \in Session, RemoteServices(s)
  PROVE  Preserved
<1>1. PICK k \in Continuation(s), ok \in BOOLEAN :
        /\ Works(s, k) /\ Serviced(s, k, Away(s)) /\ Record(s, k, ok, Away(s))
        /\ remote' = [remote EXCEPT ![s] = Pumping(Outcome(s, k, ok))]
        /\ UNCHANGED <<fixed, link, driver, toward, held, result>>
  BY DEF RemoteServices
<1>2. Home[s] \in Tier /\ Away(s) \in Tier /\ Home[s] # Away(s)
  BY Tiers
<1>3. /\ Ready(s, k, Away(s)) /\ Requests(s) = {} /\ Replies(s) = {} /\ driver[s] # Idle
      /\ driver[s].at # "pump" /\ driver[s].at # "exec"
      /\ driver[s] = Over => ~up
      /\ remote[s].at = "pump" /\ remote[s] # Idle
  BY <1>1, Worked
<1>4. k.for # "raise" /\ k.pc <= Len(program[s]) /\ program[s][k.pc].owner = Away(s)
  BY <1>1, <1>2, <1>3, ServicedOwner
<1>5. PICK D : D = driver[s]
  OBVIOUS
<1>6. PlacedAs(s, D, remote[s], {}, {}) /\ OrderedAs(s, D, remote[s], {}, {})
  BY <1>3, <1>5, Known
<1>7. Behind(s) /\ (D # Over => result[s] = "none")
  BY <1>3, <1>5, <1>6 DEF OrderedAs
<1>8. k.pc = Passed(s) + 1 /\ ~Promise!Cut(s) /\ k.pc \notin Promise!Happened(s)
  BY <1>3, <1>4, <1>7, NextTouch
<1>9. Calm /\ driver' = driver /\ toward' = toward /\ held' = held /\ result' = result
  BY <1>1 DEF fixed, link, Calm
<1>10. program' = program
  BY <1>9 DEF Calm
<1>11. Sees(s, ok, "touch") /\ Happens(s, k, ok, Away(s)) /\ "touch" \in Origin
  BY <1>1 DEF Record, Origin
<1>12. k.pc <= Passed(s) + 1 /\ Passed(s) + 1 <= Len(program[s])
  BY <1>4, <1>8, Counted
<1>13. /\ Sets(log, log', s) /\ log'[s] \in Entries(s)
       /\ \A i \in DOMAIN log'[s] : log'[s][i].touch <= Passed(s) + 1
  BY <1>2, <1>4, <1>10, <1>11, <1>12, Entered
<1>14. Logged(s)' /\ Behind(s)'
  BY <1>10, <1>11, <1>12, <1>13, PassedNext
<1>15. PICK o : o = Outcome(s, k, ok)
  OBVIOUS
<1>16. o \in Continuation(s)
  BY <1>4, <1>15, OutcomeTyped
<1>17. \A t : Ready(s, o, t)'
  BY <1>4, <1>8, <1>10, <1>11, <1>15, OutcomeReady
<1>18. Ready(s, o, Away(s))'
  BY <1>17 DEF Ready, Away
<1>19. Promise!Next
  BY <1>1, <1>2, <1>3, <1>4, <1>5, <1>7, <1>8, <1>9, TouchPromised
<1>20. PICK R : R = Pumping(o)
  OBVIOUS
<1>21. R.at = "pump" /\ R.k = o /\ R # Idle /\ remote' = [remote EXCEPT ![s] = R]
  BY <1>1, <1>15, <1>20 DEF Pumping, Idle
<1>22. Sets(driver, driver', s) /\ Sets(remote, remote', s) /\ remote'[s] = R
  BY <1>9, <1>21, Domains, SetsAt, SetsSame
<1>23. Carried(s) /\ Requests(s)' = {} /\ Replies(s)' = {}
  BY <1>3, <1>9, CarriesNothing
<1>24. Sets(saw, saw', s)
  BY <1>10, <1>11, Noted
<1>25. Acts(s)
  BY <1>9, <1>13, <1>22, <1>23, <1>24, HeldSame, StillResult, ActsWhen
<1>26. Becomes(s, D, R, {}, {})
  BY <1>5, <1>9, <1>22, <1>23 DEF Becomes, Carried
<1>27. PlacedAs(s, D, R, {}, {})
  BY <1>3, <1>5, <1>6, <1>16, <1>21 DEF PlacedAs, PointTyped
<1>28. OrderedAs(s, D, R, {}, {})'
  <2>1. D # Over => result'[s] = "none"
    BY <1>7, <1>9
  <2> QED BY <1>3, <1>5, <1>14, <1>18, <1>21, <2>1 DEF OrderedAs
<1> QED BY <1>3, <1>5, <1>14, <1>19, <1>25, <1>26, <1>27, <1>28, StepKept

\* A fetched touch happens on the far tier, in time or late (host.mts:375-388).
LEMMA RemoteExecsKept ==
  ASSUME SInv, NEW s \in Session, RemoteExecs(s)
  PROVE  Preserved
<1>1. PICK k, R, D : k = remote[s].k /\ R = remote[s] /\ D = driver[s]
  OBVIOUS
<1>2. PICK ok \in BOOLEAN :
        /\ Happens(s, k, ok, Away(s))
        /\ toward' = Sent(Home[s], <<[kind |-> "fetched", s |-> s, ok |-> ok]>>)
  BY <1>1 DEF RemoteExecs
<1>3. PICK m : m = [kind |-> "fetched", s |-> s, ok |-> ok]
  OBVIOUS
<1>4. m \in Message(s) /\ m.kind = "fetched" /\ m.ok = ok /\ toward' = Sent(Home[s], <<m>>)
  <2>1. m \in Message(s) /\ m.kind = "fetched" /\ (m.ok <=> ok)
    BY <1>3, MadeFetched
  <2>2. m.ok \in BOOLEAN
    BY <2>1, MessageTyped
  <2> QED BY <1>2, <1>3, <2>1, <2>2, Agree
<1>5. Home[s] \in Tier /\ Away(s) \in Tier /\ Home[s] # Away(s)
  BY Tiers
<1>6. R.at = "exec" /\ R.k = k /\ R # Idle
  BY <1>1 DEF RemoteExecs, Idle
<1>7. /\ Calm /\ driver' = driver /\ held' = held /\ result' = result /\ saw' = saw
      /\ remote' = [remote EXCEPT ![s] = Idle]
  BY DEF RemoteExecs, fixed, link, Calm
<1>8. program' = program /\ mode' = mode
  BY <1>7 DEF Calm
<1>9. Over.at = "over" /\ Idle.at = "idle"
  BY DEF Over, Idle
<1> HIDE DEF Over, Idle
<1>10. /\ PlacedAs(s, D, R, Requests(s), Replies(s))
       /\ OrderedAs(s, D, R, Requests(s), Replies(s))
       /\ closed[Home[s]] => ~up
       /\ Logged(s)
  BY <1>1, Known
<1>11. /\ Requests(s) = {} /\ Replies(s) = {} /\ D # Idle /\ D.at # "resume"
       /\ D.at \in {"pump", "over"} => ~up
       /\ k \in Continuation(s) /\ k.pc <= Len(program[s])
  BY <1>6, <1>10 DEF PlacedAs, PointTyped
<1>12. PlacedAs(s, D, R, {}, {}) /\ OrderedAs(s, D, R, {}, {})
  BY <1>10, <1>11
<1>13. D = Over \/ D.at \in {"pump", "exec"}
  BY <1>11, <1>12 DEF PlacedAs
<1>14. Pends(s, k, D)
  BY <1>6, <1>12 DEF OrderedAs
<1>15. /\ program[s][k.pc].owner = Away(s) /\ k.pc \notin Promise!Happened(s)
       /\ D.at = "exec" => k = D.k
       /\ D.at # "exec" => k.pc <= Passed(s) /\ saw[s][k.pc].from = "lost" /\ ~up
  BY <1>14 DEF Pends
<1>16. D.at = "exec" => k.pc = Passed(s) + 1 /\ ~Promise!Cut(s) /\ D.k.for = "touch"
  BY <1>12, <1>15 DEF OrderedAs, Fetches
<1>17. Passed(s) \in Nat /\ Passed(s) <= Len(program[s]) /\ DOMAIN saw[s] = 1..Passed(s)
       /\ k.pc \in Nat /\ k.pc >= 1
  BY <1>11, Counted, ProgramTyped DEF Continuation, SInv
<1>18. k.pc <= Passed(s) + 1
  BY <1>15, <1>16, <1>17
<1>19. /\ Sets(log, log', s) /\ log'[s] \in Entries(s)
       /\ \A i \in DOMAIN log'[s] :
            \/ log'[s][i].touch = k.pc
            \/ i \in DOMAIN log[s] /\ log'[s][i] = log[s][i]
       /\ \A i \in DOMAIN log'[s] : log'[s][i].touch <= Passed(s) + 1
       /\ \E i \in DOMAIN log'[s] : log'[s][i].touch = k.pc /\ log'[s][i].ok = ok
  BY <1>2, <1>5, <1>8, <1>11, <1>18, Entered
<1>20. /\ Passed(s)' = Passed(s) /\ (Promise!Cut(s)' <=> Promise!Cut(s))
       /\ Bears(s, D)' <=> Bears(s, D)
  BY <1>7, <1>8, SameSeen
<1>21. Logged(s)'
  <2>1. log'[s] \in Entries(s)'
    BY <1>8, <1>19 DEF Entries
  <2>2. saw'[s] \in Seq(Answer)
    BY <1>7, <1>10 DEF Logged
  <2> QED BY <1>8, <1>17, <1>19, <1>20, <2>1, <2>2 DEF Logged
<1>22. Promise!Next
  <2>1. Promise!Happens(s, k.pc, ok)
    BY <1>2, <1>5, <1>15 DEF Promise!Happens, Happens, Tier
  <2>2. CASE D.at = "exec"
    <3>1. Promise!Reaches(s, k.pc) /\ k.pc \in DOMAIN program[s]
      BY <1>11, <1>16, <2>2, NextReached
    <3>2. result[s] = "none"
      BY <1>9, <1>12, <2>2 DEF OrderedAs
    <3>3. program[s][k.pc].owner # Home[s]
      BY <1>5, <1>15
    <3>4. Promise!TouchAhead(s)
      BY <1>7, <2>1, <3>1, <3>2, <3>3 DEF Promise!TouchAhead, Calm
    <3> QED BY <3>4 DEF Promise!Next
  <2>3. CASE D.at # "exec"
    <3>1. k.pc \in DOMAIN saw[s]
      BY <1>15, <1>17, <2>3
    <3>2. Promise!TouchLate(s)
      BY <1>7, <1>15, <2>1, <2>3, <3>1 DEF Promise!TouchLate, Calm
    <3> QED BY <3>2 DEF Promise!Next
  <2> QED BY <2>2, <2>3
<1>23. /\ Carried(s) /\ Requests(s)' = {}
       /\ up => Replies(s)' = {m}
       /\ ~up => Replies(s)' = {}
  BY <1>4, <1>11, CarriesHome
<1>24. PICK Q : Replies(s)' = Q /\ (up => Q = {m}) /\ (~up => Q = {})
  BY <1>23
<1>25. Sets(driver, driver', s) /\ Sets(remote, remote', s) /\ remote'[s] = Idle
  BY <1>7, Domains, SetsAt, SetsSame
<1>26. Acts(s)
  BY <1>7, <1>19, <1>23, <1>25, HeldSame, StillPassed, StillResult, ActsWhen
<1>27. Becomes(s, D, Idle, {}, Q)
  BY <1>1, <1>7, <1>23, <1>24, <1>25 DEF Becomes, Carried
<1>28. PlacedAs(s, D, Idle, {}, Q)
  <2>1. up \in BOOLEAN
    BY DEF SInv, Shape
  <2> QED BY <1>4, <1>9, <1>11, <1>12, <1>24, <2>1 DEF PlacedAs
<1>29. OrderedAs(s, D, Idle, {}, Q)'
  <2>1. D # Over => result'[s] = "none"
    BY <1>7, <1>12 DEF OrderedAs
  <2>2. D.at = "exec" => Fetches(s, D.k)'
    BY <1>8, <1>15, <1>16, <1>20 DEF Fetches, Away
  <2>3. D.at = "pump" => Ready(s, D.k, Home[s])'
    <3>1. D.at = "pump" => Ready(s, D.k, Home[s])
      BY <1>12 DEF OrderedAs
    <3> QED BY <1>8, <1>20, <3>1 DEF Ready
  <2>4. D.at = "pump" => Bears(s, D)'
    BY <1>12, <1>20 DEF OrderedAs
  <2>5. D.at # "exec" => Behind(s)'
    <3> SUFFICES ASSUME D.at # "exec"
                 PROVE  Behind(s)'
      OBVIOUS
    <3>1. Behind(s) /\ k.pc <= Passed(s)
      BY <1>12, <1>15 DEF OrderedAs
    <3>2. \A i \in DOMAIN log'[s] : log'[s][i].touch <= Passed(s)
      BY <1>19, <3>1 DEF Behind
    <3> QED BY <1>20, <3>2 DEF Behind
  <2>6. ASSUME NEW f \in Q
        PROVE  Tells(s, f, D)'
    <3>1. f = m /\ D.at = "exec"
      BY <1>9, <1>11, <1>13, <1>24, <2>6 DEF SInv, Shape
    <3> QED BY <1>4, <1>15, <1>19, <3>1 DEF Tells
  <2> QED BY <1>9, <1>11, <2>1, <2>2, <2>3, <2>4, <2>5, <2>6 DEF OrderedAs
<1>30. D # Over \/ ~up
  BY <1>9, <1>11
<1> QED BY <1>21, <1>22, <1>26, <1>27, <1>28, <1>29, <1>30, StepKept

-----------------------------------------------------------------------------
(* The connection.                                                         *)

\* An empty queue has no frames.
LEMMA FramesOfNone ==
  ASSUME NEW s
  PROVE  Frames(<<>>, s) = {} /\ One(<<>>, s)
BY DEF Frames, One

\* A session of which nothing has changed but the connection and the frames that are left.
LEMMA LinkOrdered ==
  ASSUME SInv, NEW s \in Session,
         UNCHANGED <<program, mode, driver, remote, log, result, saw>>, ~up => ~up',
         Requests(s)' \subseteq Requests(s), Replies(s)' \subseteq Replies(s)
  PROVE  Ordered(s)'
<1>1. Logged(s) /\ OrderedAs(s, driver[s], remote[s], Requests(s), Replies(s))
  BY Known
<1>2. PICK D, R, P, Q : D = driver[s] /\ R = remote[s] /\ P = Requests(s)' /\ Q = Replies(s)'
  OBVIOUS
<1>3. OrderedAs(s, D, R, P, Q)
  BY <1>1, <1>2 DEF OrderedAs
<1>4. /\ Passed(s)' = Passed(s) /\ (Behind(s)' <=> Behind(s)) /\ (Logged(s)' <=> Logged(s))
      /\ Promise!Cut(s)' <=> Promise!Cut(s)
      /\ Promise!Happened(s)' = Promise!Happened(s)
      /\ \A d : Bears(s, d)' <=> Bears(s, d)
  BY SameHistory
<1>5. \A k, t : Ready(s, k, t)' <=> Ready(s, k, t)
  BY <1>4 DEF Ready
<1>6. \A k, d : Pends(s, k, d) => Pends(s, k, d)'
  BY <1>4 DEF Pends, Away
<1>7. \A k : Fetches(s, k)' <=> Fetches(s, k)
  BY <1>4 DEF Fetches, Away
<1>8. \A f, d : Tells(s, f, d)' <=> Tells(s, f, d)
  BY <1>4, <1>5 DEF Tells
<1>9. OrderedAs(s, D, R, P, Q)'
  BY <1>3, <1>4, <1>5, <1>6, <1>7, <1>8 DEF OrderedAs, Away
<1>10. D = driver[s]' /\ R = remote[s]'
  BY <1>2
<1> QED BY <1>1, <1>2, <1>4, <1>9, <1>10 DEF Ordered, OrderedAs

\* The connection breaks.
LEMMA LinkDownKept ==
  ASSUME SInv, LinkDown
  PROVE  Preserved
<1>1. UNCHANGED <<program, mode, closed, driver, remote, toward, held, log, result, saw>>
      /\ up' = FALSE /\ up
  BY DEF LinkDown, fixed
<1>2. Shape'
  BY <1>1 DEF SInv, Shape, Frame, Message, Continuation
<1>3. ASSUME NEW s \in Session
      PROVE  Placed(s)' /\ Freed(s)' /\ Ordered(s)'
  <2>1. Requests(s)' = Requests(s) /\ Replies(s)' = Replies(s)
    BY <1>1 DEF Requests, Replies, Away
  <2>2. Ordered(s)'
    BY <1>1, <2>1, LinkOrdered
  <2>3. Freed(s)'
    BY <1>1 DEF Freed
  <2>4. /\ PlacedAs(s, driver[s], remote[s], Requests(s), Replies(s))
        /\ One(toward[Away(s)], s) /\ One(toward[Home[s]], s)
    BY Known
  <2>5. PICK D, R, P, Q : D = driver[s] /\ R = remote[s] /\ P = Requests(s) /\ Q = Replies(s)
    OBVIOUS
  <2>6. PlacedAs(s, D, R, P, Q)
    BY <2>4, <2>5
  <2>7. PlacedAs(s, D, R, P, Q)'
    BY <1>1, <2>6 DEF PlacedAs, PointTyped, Continuation
  <2>8. One(toward[Away(s)], s)' /\ One(toward[Home[s]], s)'
    BY <1>1, <2>4 DEF Away
  <2>9. D = driver[s]' /\ R = remote[s]' /\ P = Requests(s)' /\ Q = Replies(s)'
    BY <1>1, <2>1, <2>5
  <2>10. Placed(s)'
    BY <2>7, <2>8, <2>9 DEF Placed, PlacedAs
  <2> QED BY <2>2, <2>3, <2>10
<1>4. Promise!Next
  BY <1>1 DEF Promise!Break, Promise!Next
<1> QED BY <1>2, <1>3, <1>4 DEF Preserved, SInv

\* A tier has its close event: what had not arrived is lost.
LEMMA CloseEventKept ==
  ASSUME SInv, NEW t \in Tier, CloseEvent(t)
  PROVE  Preserved
<1>1. UNCHANGED <<program, mode, up, driver, remote, held, log, result, saw>>
      /\ ~up /\ closed' = [closed EXCEPT ![t] = TRUE] /\ toward' = [toward EXCEPT ![t] = <<>>]
  BY DEF CloseEvent, fixed
<1>2. Frame' = Frame
  BY <1>1 DEF Frame, Message, Continuation
<1>3. toward \in [Tier -> Seq(Frame)] /\ closed \in [Tier -> BOOLEAN]
  BY DEF SInv, Shape
<1>4. /\ toward' \in [Tier -> Seq(Frame)]
      /\ closed' \in [Tier -> BOOLEAN]
      /\ toward'[t] = <<>>
      /\ \A u \in Tier : u # t => toward'[u] = toward[u]
      /\ \A u \in Tier : closed[u] => closed'[u]
      /\ \A u \in Tier : closed'[u] => u = t \/ closed[u]
  BY <1>1, <1>3
<1>5. Shape'
  BY <1>1, <1>2, <1>4 DEF SInv, Shape
<1>6. ASSUME NEW s \in Session
      PROVE  Placed(s)' /\ Freed(s)' /\ Ordered(s)'
  <2>1. Home[s] \in Tier /\ Away(s) \in Tier /\ Home[s] # Away(s)
    BY Tiers
  <2>2. \A u \in Tier : /\ Frames(toward'[u], s) = {} \/ toward'[u] = toward[u]
                        /\ One(toward[u], s) => One(toward'[u], s)
    BY <1>4, FramesOfNone
  <2>3. /\ Requests(s)' = {} \/ Requests(s)' = Requests(s)
        /\ Replies(s)' = {} \/ Replies(s)' = Replies(s)
    BY <2>1, <2>2 DEF Requests, Replies, Away
  <2>4. Ordered(s)'
    BY <1>1, <2>3, LinkOrdered
  <2>5. Freed(s)'
    BY <1>1 DEF Freed
  <2>6. /\ PlacedAs(s, driver[s], remote[s], Requests(s), Replies(s))
        /\ One(toward[Away(s)], s) /\ One(toward[Home[s]], s)
    BY Known
  <2>7. PICK D, R, P, Q : D = driver[s] /\ R = remote[s] /\ P = Requests(s) /\ Q = Replies(s)
    OBVIOUS
  <2>8. PICK p, q : p = Requests(s)' /\ q = Replies(s)'
    OBVIOUS
  <2>9. PlacedAs(s, D, R, P, Q) /\ (p = {} \/ p = P) /\ (q = {} \/ q = Q)
    BY <2>3, <2>6, <2>7, <2>8
  <2>10. ~closed'[Home[s]] => ~closed[Home[s]]
    BY <1>4, <2>1
  <2>11. PlacedAs(s, D, R, p, q)'
    BY <1>1, <2>9, <2>10 DEF PlacedAs, PointTyped, Continuation
  <2>12. One(toward[Away(s)], s)' /\ One(toward[Home[s]], s)'
    BY <2>1, <2>2, <2>6 DEF Away
  <2>13. D = driver[s]' /\ R = remote[s]'
    BY <1>1, <2>7
  <2>14. Placed(s)'
    BY <2>8, <2>11, <2>12, <2>13 DEF Placed, PlacedAs
  <2> QED BY <2>4, <2>5, <2>14
<1>7. UNCHANGED Promise!vars
  BY <1>1 DEF Promise!vars
<1> QED BY <1>5, <1>6, <1>7 DEF Preserved, SInv

-----------------------------------------------------------------------------
(* The specification.                                                      *)

\* A step that changes nothing.
LEMMA StutterKept ==
  ASSUME SInv, UNCHANGED vars
  PROVE  Preserved
<1>1. UNCHANGED <<program, mode, up, closed, driver, remote, toward, held, log, result, saw>>
  BY DEF vars
<1>2. Shape'
  BY <1>1 DEF SInv, Shape, Frame, Message, Continuation
<1>3. ASSUME NEW s \in Session
      PROVE  Placed(s)' /\ Freed(s)' /\ Ordered(s)'
  <2>1. /\ Requests(s)' = Requests(s) /\ Replies(s)' = Replies(s)
        /\ Releasing(s)' <=> Releasing(s)
    BY <1>1 DEF Requests, Replies, Releasing, Away
  <2>2. Ordered(s)'
    BY <1>1, <2>1, LinkOrdered
  <2>3. Placed(s) /\ Freed(s)
    BY DEF SInv
  <2>4. Freed(s)'
    BY <1>1, <2>1, <2>3 DEF Freed, Away
  <2>5. Placed(s)'
    BY <1>1, <2>1, <2>3 DEF Placed, PlacedAs, PointTyped, Continuation, Away
  <2> QED BY <2>2, <2>4, <2>5
<1>4. UNCHANGED Promise!vars
  BY <1>1 DEF Promise!vars
<1> QED BY <1>2, <1>3, <1>4 DEF Preserved, SInv

\* Every step keeps the invariant and is one that Workflow allows.
LEMMA StepsKept ==
  ASSUME SInv, [Next]_vars
  PROVE  Preserved
<1>1. ASSUME NEW s \in Session, DriverStep(s)
      PROVE  Preserved
  BY <1>1, DriverServicesKept, DriverRepeatsKept, FetchKept, FetchFailsKept, MigrateKept,
     MigrateFailsKept, DriverReturnsKept, DriverThrowsKept DEF DriverStep
<1>2. ASSUME NEW s \in Session, RemoteStep(s)
      PROVE  Preserved
  BY <1>2, RemoteServicesKept, RemoteExecsKept, RemoteSuspendsKept, RemoteReturnsKept,
     RemoteFailsKept DEF RemoteStep
<1>3. ASSUME NEW s \in Session, Receive(s)
      PROVE  Preserved
  BY <1>3, ReplySuspendKept, ReplyFetchedKept, ReplyFinalKept, ReceiveResumeKept,
     ReceiveExecKept, ReceiveReleaseKept DEF Receive
<1>4. ASSUME NEW s \in Session,
             Begin(s) \/ BeginCall(s) \/ BeginCallClosed(s) \/ Rejected(s)
      PROVE  Preserved
  BY <1>4, BeginKept, BeginCallKept, BeginCallClosedKept, RejectedKept
<1>5. CASE UNCHANGED vars
  BY <1>5, StutterKept
<1>6. CASE LinkDown
  BY <1>6, LinkDownKept
<1>7. ASSUME NEW t \in Tier, CloseEvent(t)
      PROVE  Preserved
  BY <1>7, CloseEventKept
<1> QED BY <1>1, <1>2, <1>3, <1>4, <1>5, <1>6, <1>7 DEF Next

\* The invariant at the start.
LEMMA InitSInv ==
  ASSUME Init
  PROVE  SInv
<1>1. PICK c \in Casts : program = c.program /\ mode = c.mode
  BY DEF Init
<1>2. /\ driver = [s \in Session |-> Idle] /\ remote = [s \in Session |-> Idle]
      /\ toward = [t \in Tier |-> <<>>] /\ held = [t \in Tier |-> {}]
      /\ up = TRUE /\ closed = [t \in Tier |-> FALSE] /\ log = [s \in Session |-> <<>>]
      /\ result = [s \in Session |-> "none"] /\ saw = [s \in Session |-> <<>>]
  BY DEF Init
<1>3. /\ [program |-> program, mode |-> mode] = c
      /\ program \in [Session -> Seq(Segment)]
  <2>1. c \in [program : [Session -> Seq(Segment)], mode : [Session -> {"run", "call", "local"}]]
    BY CastsAssumption
  <2> QED BY <1>1, <2>1
<1>4. \A t \in Tier : toward[t] = <<>> /\ toward[t] \in Seq(Frame)
  BY <1>2
<1>5. Shape
  BY <1>2, <1>3, <1>4 DEF Shape
<1>6. ASSUME NEW s \in Session
      PROVE  Placed(s) /\ Freed(s) /\ Ordered(s)
  <2>1. Home[s] \in Tier /\ Away(s) \in Tier
    BY Tiers
  <2>2. /\ Requests(s) = {} /\ Replies(s) = {}
        /\ One(toward[Away(s)], s) /\ One(toward[Home[s]], s)
    BY <1>4, <2>1, FramesOfNone DEF Requests, Replies
  <2>3. Len(program[s]) \in Nat
    BY <1>3
  <2>4. driver[s] = Idle /\ remote[s] = Idle /\ log[s] = <<>> /\ saw[s] = <<>>
        /\ result[s] = "none"
    BY <1>2
  <2>10. Passed(s) = 0 /\ Behind(s)
    BY <2>4 DEF Passed, Behind
  <2>5. Idle.at = "idle" /\ Idle # Over
    BY DEF Idle, Over
  <2> HIDE DEF Idle, Over
  <2>6. PlacedAs(s, Idle, Idle, {}, {})
    BY <2>5 DEF PlacedAs
  <2>7. OrderedAs(s, Idle, Idle, {}, {})
    BY <2>4, <2>5, <2>10 DEF OrderedAs
  <2>8. Logged(s)
    <3>1. log[s] \in Entries(s) /\ DOMAIN log[s] = {}
      BY <2>4 DEF Entries
    <3>2. saw[s] \in Seq(Answer)
      BY <2>4
    <3> QED BY <2>3, <2>10, <3>1, <3>2 DEF Logged
  <2>9. Freed(s)
    BY <2>4, <2>5 DEF Freed
  <2> QED BY <2>2, <2>4, <2>6, <2>7, <2>8, <2>9 DEF Placed, Ordered
<1> QED BY <1>5, <1>6 DEF SInv

\* The invariant holds throughout.
LEMMA Invariance == Spec => []SInv
<1>1. SInv /\ [Next]_vars => SInv'
  BY StepsKept DEF Preserved
<1> QED BY <1>1, InitSInv, PTL DEF Spec

\* The invariant has the types.
LEMMA SInvTyped == SInv => TypeOK
<1> SUFFICES ASSUME SInv
             PROVE  TypeOK
  OBVIOUS
<1>1. Shape
  BY DEF SInv
<1>2. ASSUME NEW s \in Session
      PROVE  /\ \/ driver[s] \in {Idle, Over}
                \/ driver[s].at \in {"pump", "resume", "exec"} /\ driver[s].k \in Continuation(s)
             /\ \/ remote[s] = Idle
                \/ remote[s].at \in {"pump", "exec"} /\ remote[s].k \in Continuation(s)
             /\ log[s] \in Seq([touch : DOMAIN program[s], ok : BOOLEAN, at : Tier])
             /\ driver[s].at = "pump" => driver[s].carried \in {"nothing", "value", "error"}
             /\ saw[s] \in Seq([ok : BOOLEAN, from : {"touch", "unsent", "lost", "before"}])
             /\ Len(saw[s]) <= Len(program[s])
  <2>1. /\ PlacedAs(s, driver[s], remote[s], Requests(s), Replies(s)) /\ Logged(s)
        /\ OrderedAs(s, driver[s], remote[s], Requests(s), Replies(s))
    BY Known
  <2>3. driver[s].at = "pump" => Bears(s, driver[s])
    BY <2>1 DEF OrderedAs
  <2>4. driver[s].at = "pump" => driver[s].carried \in {"nothing", "value", "error"}
    BY <2>3 DEF Bears
  <2>2. /\ \/ driver[s] \in {Idle, Over}
           \/ driver[s].at \in {"pump", "resume", "exec"} /\ driver[s].k \in Continuation(s)
        /\ \/ remote[s] = Idle
           \/ remote[s].at \in {"pump", "exec"} /\ remote[s].k \in Continuation(s)
    BY <2>1 DEF PlacedAs, PointTyped
  <2>5. log[s] \in Seq([touch : DOMAIN program[s], ok : BOOLEAN, at : Tier])
    BY <2>1 DEF Logged, Entries
  <2>6. /\ saw[s] \in Seq([ok : BOOLEAN, from : {"touch", "unsent", "lost", "before"}])
        /\ Len(saw[s]) <= Len(program[s])
    BY <2>1 DEF Logged, Answer, Origin, Passed
  <2> QED BY <2>2, <2>4, <2>5, <2>6
<1>3. ASSUME NEW t \in Tier, NEW i \in DOMAIN toward[t]
      PROVE  toward[t][i] \in Message(toward[t][i].s)
  <2>1. toward[t] \in Seq(Frame)
    BY <1>1 DEF Shape
  <2>2. toward[t][i] \in Frame
    BY <2>1
  <2>3. PICK z \in Session : toward[t][i] \in Message(z)
    BY <2>2 DEF Frame
  <2> QED BY <2>3, MessageOf
<1> QED BY <1>1, <1>2, <1>3 DEF TypeOK, Shape

\* The state of the hosts is always of its type: in particular a continuation never runs
\* past the end of its program (host.mts:140-200).
THEOREM TypeCorrect == Spec => []TypeOK
BY Invariance, SInvTyped, PTL

\* A set all of whose members are equal has at most one.
LEMMA AtMostOne ==
  ASSUME NEW S, \A a, b \in S : a = b
  PROVE  Cardinality(S) <= 1
<1>1. CASE S = {}
  BY <1>1, FS_EmptySet
<1>2. CASE S # {}
  <2>1. PICK a : a \in S
    BY <1>2
  <2>2. S = {a}
    BY <2>1
  <2> QED BY <2>2, FS_Singleton
<1> QED BY <1>1, <1>2

\* Who holds the continuation.
LEMMA HoldersOf ==
  ASSUME NEW s, NEW h
  PROVE  h \in Holders(s) <=>
           \/ h = "driver" /\ driver[s].at \in {"pump", "exec"}
           \/ h = "remote" /\ remote[s].at = "pump"
           \/ \E t \in Tier : \E i \in DOMAIN toward[t] :
                h = <<t, i>> /\ Carries(s, toward[t][i])
BY DEF Holders

\* By the invariant the continuation is in one place.
LEMMA SInvOne == SInv => OneContinuation
<1> SUFFICES ASSUME SInv, NEW s \in Session
             PROVE  /\ Cardinality(Holders(s)) <= 1
                    /\ up /\ driver[s] \notin {Idle, Over} => Holders(s) # {}
  BY DEF OneContinuation
<1>1. /\ PlacedAs(s, driver[s], remote[s], Requests(s), Replies(s))
      /\ One(toward[Away(s)], s) /\ One(toward[Home[s]], s)
  BY Known
<1>2. Home[s] \in Tier /\ Away(s) \in Tier /\ \A t \in Tier : t = Home[s] \/ t = Away(s)
  BY Tiers
<1>3. ASSUME NEW t \in Tier, NEW i \in DOMAIN toward[t], Carries(s, toward[t][i])
      PROVE  /\ toward[t][i].s = s /\ toward[t][i].kind # "release"
             /\ toward[t][i].kind # "exec" /\ toward[t][i].kind # "fetched"
             /\ t = Away(s) => toward[t][i] \in Requests(s)
             /\ t = Home[s] => toward[t][i] \in Replies(s)
  <2>1. /\ toward[t][i].s = s /\ toward[t][i].kind # "release"
        /\ toward[t][i].kind # "exec" /\ toward[t][i].kind # "fetched"
    BY <1>3 DEF Carries
  <2>2. toward[t][i] \in Frames(toward[t], s)
    BY <2>1, InFrames
  <2> QED BY <2>1, <2>2 DEF Requests, Replies
<1>4. Idle.at = "idle"
  BY DEF Idle
<1> HIDE DEF Idle
<1>5. \A t \in Tier : \A i \in DOMAIN toward[t] : Carries(s, toward[t][i]) =>
        /\ driver[s].at \notin {"pump", "exec"} /\ remote[s].at # "pump"
        /\ t = Home[s] => Requests(s) = {}
        /\ t = Away(s) => Replies(s) = {}
  BY <1>1, <1>2, <1>3, <1>4 DEF PlacedAs
<1>6. driver[s].at \in {"pump", "exec"} => remote[s].at # "pump"
  BY <1>1 DEF PlacedAs
<1>7. ASSUME NEW t \in Tier, NEW i \in DOMAIN toward[t], Carries(s, toward[t][i]),
             NEW u \in Tier, NEW j \in DOMAIN toward[u], Carries(s, toward[u][j])
      PROVE  t = u /\ i = j
  <2>1. t = u
    BY <1>2, <1>3, <1>5, <1>7
  <2>2. One(toward[t], s)
    BY <1>1, <1>2
  <2> QED BY <1>3, <1>7, <2>1, <2>2 DEF One
<1>8. \A a, b \in Holders(s) : a = b
  <2> SUFFICES ASSUME NEW a \in Holders(s), NEW b \in Holders(s)
               PROVE  a = b
    OBVIOUS
  <2>1. /\ \/ a = "driver" /\ driver[s].at \in {"pump", "exec"}
           \/ a = "remote" /\ remote[s].at = "pump"
           \/ \E t \in Tier : \E i \in DOMAIN toward[t] :
                a = <<t, i>> /\ Carries(s, toward[t][i])
        /\ \/ b = "driver" /\ driver[s].at \in {"pump", "exec"}
           \/ b = "remote" /\ remote[s].at = "pump"
           \/ \E t \in Tier : \E i \in DOMAIN toward[t] :
                b = <<t, i>> /\ Carries(s, toward[t][i])
    BY HoldersOf
  <2> QED BY <1>5, <1>6, <1>7, <2>1
<1>9. ASSUME up, driver[s] \notin {Idle, Over}
      PROVE  Holders(s) # {}
  <2>1. driver[s].at \in {"pump", "resume", "exec"}
    BY <1>1, <1>9 DEF PlacedAs
  <2>2. CASE driver[s].at \in {"pump", "exec"}
    BY <2>2, HoldersOf
  <2>3. CASE driver[s].at = "resume"
    <3>1. Requests(s) # {} \/ remote[s].at = "pump" \/ Replies(s) # {}
      BY <1>1, <1>9, <2>3 DEF PlacedAs
    <3>2. ASSUME NEW f \in Requests(s)
          PROVE  Holders(s) # {}
      <4>1. f.kind = "resume" /\ f \in Frames(toward[Away(s)], s)
        BY <1>1, <2>3 DEF PlacedAs, Requests
      <4>2. PICK i \in DOMAIN toward[Away(s)] :
              toward[Away(s)][i].s = s /\ f = toward[Away(s)][i]
        BY <4>1, InFrames
      <4>3. Carries(s, toward[Away(s)][i])
        BY <4>1, <4>2 DEF Carries
      <4> QED BY <1>2, <4>3, HoldersOf
    <3>3. ASSUME NEW f \in Replies(s)
          PROVE  Holders(s) # {}
      <4>1. f.kind \in {"suspend", "done", "error"} /\ f \in Frames(toward[Home[s]], s)
        BY <1>1, <2>3 DEF PlacedAs, Replies
      <4>2. PICK i \in DOMAIN toward[Home[s]] :
              toward[Home[s]][i].s = s /\ f = toward[Home[s]][i]
        BY <4>1, InFrames
      <4>3. Carries(s, toward[Home[s]][i])
        BY <4>1, <4>2 DEF Carries
      <4> QED BY <1>2, <4>3, HoldersOf
    <3> QED BY <3>1, <3>2, <3>3, HoldersOf
  <2> QED BY <2>1, <2>2, <2>3
<1> QED BY <1>8, <1>9, AtMostOne

\* The continuation of a session is never in two places, and never in none while the
\* session runs on a live connection: host.mts:186-197 and 207-228 hand it over.
THEOREM OneHolder == Spec => []OneContinuation
BY Invariance, SInvOne, PTL

\* By the invariant a session that is over is held nowhere.
LEMMA SInvReleased == SInv => ReleasedAtEnd
<1> SUFFICES ASSUME SInv, NEW s \in Session, mode[s] # "local", Leaked(s)
             PROVE  FALSE
  BY DEF ReleasedAtEnd
<1>1. Home[s] \in Tier /\ Away(s) \in Tier /\ \A t \in Tier : t = Home[s] \/ t = Away(s)
  BY Tiers
<1>2. s \in held[Away(s)] /\ Releasing(s)
  BY <1>1, Known DEF Freed, Leaked
<1>3. PICK f : f \in Frames(toward[Away(s)], s)
  BY <1>2 DEF Releasing
<1> QED BY <1>1, <1>3, InFrames DEF Leaked

\* No master of a finished session stays in either tier's heap, however often its
\* continuation crossed: what finish releases (host.mts:203-205) is all there is.
THEOREM Released == Spec => []ReleasedAtEnd
BY Invariance, SInvReleased, PTL

\* The initial states are those of Workflow.
LEMMA InitPromise == Init => Promise!Init
<1> SUFFICES ASSUME Init
             PROVE  Promise!Init
  OBVIOUS
<1>1. Shape
  BY InitSInv DEF SInv
<1>2. [program |-> program, mode |-> mode] \in Casts
  BY <1>1 DEF Shape
<1> QED BY <1>2 DEF Init, Promise!Init

\* Session implements Workflow: wherever the driver takes a touch, and whenever the connection
\* breaks, a touch happens at most once, in program order and where its resource lives, and the
\* program sees what came of it, or that it was given up or lost; but for the touch that
\* runLocal answers with what it carries (host.mts:286-293), which is Workflow's Repeat.
THEOREM PromiseKept == Spec => KeepsPromise
<1>1. SInv /\ [Next]_vars => [Promise!Next]_(Promise!vars)
  BY StepsKept DEF Preserved
<1> QED BY <1>1, InitPromise, Invariance, PTL DEF Spec, KeepsPromise, Promise!Spec

=============================================================================
