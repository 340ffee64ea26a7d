----------------------------- MODULE ShimProofs -----------------------------
(***************************************************************************)
(* Proofs about Shim, for every number of keys, routes, GETs, writes and   *)
(* runs: type correctness, OneRide and AnswersFresh.                       *)
(*                                                                         *)
(* The steps of a GET are first put in terms of what becomes of it         *)
(* (Turns); every proof splits on those, and on the steps that touch no    *)
(* GET (Elsewhere).                                                        *)
(*                                                                         *)
(* The argument is about moments.  A moment recorded at a request lists    *)
(* the writes sent and in flight by then, so that a write neither unsent   *)
(* nor in flight had been made (Known).  The run in flight and the leaders *)
(* in the memo were asked for since the last write (InflightCurrent,       *)
(* MemoCurrent), because a write forgets both; so what a GET finds there   *)
(* within the window can answer it, and still can when it comes back       *)
(* (Served).  A leader leaves the memo for another one only when its       *)
(* window is over, and otherwise by a write or a failure of its key        *)
(* (Alone).                                                                *)
(***************************************************************************)
EXTENDS Shim, TLAPS

\* A GET that is not done has no outcome, and one that waits to be sent has asked nothing.
Waiting(xhr) ==
  /\ xhr.at # "done" => xhr.status = "none" /\ xhr.answer = {}
  /\ xhr.at \in {"idle", "held", "following"} => ~xhr.leads /\ xhr.asked = {}
  /\ xhr.at = "held" => xhr.run # 0
  /\ xhr.at = "following" => xhr.leader # 0

\* The status of a GET that is done.
Outcome == {"ok", "lost", "timeout"}

\* The types, and what the state of a GET says of its fields.
TInv == TypeOK /\ \A g \in Get : Waiting(gets[g])

-----------------------------------------------------------------------------
\* Window and the bounds are numbers.
LEMMA Bounds ==
  /\ Window \in Nat /\ Window > 0 /\ MaxGets \in Nat /\ MaxWrites \in Nat /\ MaxRuns \in Nat
  /\ MaxAsks \in Nat /\ MaxClock \in Nat /\ MaxFailures \in Nat
BY BoundsAssumption

\* The moment recorded now is a moment.
LEMMA NowTyped ==
  ASSUME TypeOK
  PROVE  Now \in Moment
<1>1. now \in 0..MaxClock /\ made \subseteq Write
  BY DEF TypeOK
<1>2. Write \ In("idle") \subseteq Write /\ In("flying") \subseteq Write
  BY DEF In
<1> QED BY <1>1, <1>2 DEF Now, Moment

\* A new XHR.
LEMMA NewTyped ==
  ASSUME TypeOK, NEW k \in Key
  PROVE  /\ NewXhr(k) \in Xhr
         /\ NewXhr(k).at = "idle" /\ NewXhr(k).key = k /\ ~NewXhr(k).leads
         /\ NewXhr(k).asked = {} /\ NewXhr(k).status = "none" /\ NewXhr(k).answer = {}
         /\ NewXhr(k).issued = [at |-> now, acked |-> In("acked")]
<1>1. [at |-> now, acked |-> In("acked")] \in Issue
  BY DEF TypeOK, Issue, In
<1>2. {} \in Optional(Moment) /\ {} \in Optional(Answer)
  BY DEF Optional
<1>3. 0 \in 0..MaxRuns /\ 0 \in 0..MaxGets
  BY Bounds
<1> QED BY <1>1, <1>2, <1>3 DEF NewXhr, Xhr

\* An XHR that goes to the network asks now.
LEMMA AskTyped ==
  ASSUME TypeOK, NEW xhr \in Xhr, NEW leads \in BOOLEAN
  PROVE  LET x == Ask(xhr, leads)
         IN  /\ x \in Xhr
             /\ x.at = "asking" /\ x.leads = leads /\ x.asked = {Now} /\ x.key = xhr.key
             /\ x.status = xhr.status /\ x.answer = xhr.answer /\ x.issued = xhr.issued
<1>1. {Now} \in Optional(Moment)
  BY NowTyped DEF Optional
<1>2. 0 \in 0..MaxRuns /\ 0 \in 0..MaxGets
  BY Bounds
<1> HIDE DEF Now
<1> QED BY <1>1, <1>2 DEF Ask, Xhr

\* An XHR that rides with the leader of its key.
LEMMA FollowTyped ==
  ASSUME TypeOK, NEW xhr \in Xhr
  PROVE  LET x == [xhr EXCEPT !.at = "following", !.run = 0, !.leader = memo[xhr.key]]
         IN  /\ x \in Xhr
             /\ x.at = "following" /\ x.leader = memo[xhr.key] /\ x.key = xhr.key
             /\ x.leads = xhr.leads /\ x.asked = xhr.asked
             /\ x.status = xhr.status /\ x.answer = xhr.answer /\ x.issued = xhr.issued
<1>1. memo[xhr.key] \in 0..MaxGets
  BY DEF TypeOK, Xhr
<1>2. 0 \in 0..MaxRuns
  BY Bounds
<1> QED BY <1>1, <1>2 DEF Xhr

\* An XHR that is held for the run in flight.
LEMMA HoldTyped ==
  ASSUME TypeOK, NEW xhr \in Xhr
  PROVE  LET x == [xhr EXCEPT !.at = "held", !.run = inflight]
         IN  /\ x \in Xhr
             /\ x.at = "held" /\ x.run = inflight /\ x.key = xhr.key
             /\ x.leads = xhr.leads /\ x.asked = xhr.asked
             /\ x.status = xhr.status /\ x.answer = xhr.answer /\ x.issued = xhr.issued
<1>1. inflight \in 0..MaxRuns
  BY DEF TypeOK
<1> QED BY <1>1 DEF Xhr

\* An XHR that is done keeps its key, and a leader what it asked.
LEMMA DoneTyped ==
  ASSUME TypeOK, NEW xhr \in Xhr, NEW status \in Outcome,
         NEW answer \in Optional(Answer)
  PROVE  LET x == Done(xhr, status, answer)
         IN  /\ x \in Xhr
             /\ x.at = "done" /\ x.leads = xhr.leads /\ x.key = xhr.key
             /\ xhr.leads => x.asked = xhr.asked
             /\ ~xhr.leads => x.asked = {}
             /\ x.status = status /\ x.answer = answer
             /\ x.issued.at = 0 /\ x.issued.acked = {}
<1>1. [at |-> 0, acked |-> {}] \in Issue
  BY Bounds DEF Issue
<1>2. xhr.key \in Key /\ xhr.leads \in BOOLEAN /\ xhr.asked \in Optional(Moment)
  BY DEF Xhr
<1>3. (IF xhr.leads THEN xhr.asked ELSE {}) \in Optional(Moment)
  BY <1>2 DEF Optional
<1>4. NewXhr(xhr.key) \in Xhr /\ NewXhr(xhr.key).key = xhr.key
  BY <1>2, NewTyped
<1> DEFINE base == NewXhr(xhr.key)
           issue == [at |-> 0, acked |-> {}]
           asks == IF xhr.leads THEN xhr.asked ELSE {}
<1>5. Done(xhr, status, answer) =
        [base EXCEPT !.at = "done", !.issued = issue, !.leads = xhr.leads,
           !.asked = asks, !.status = status, !.answer = answer]
  BY DEF Done
<1> HIDE DEF base, issue, asks
<1>6. base \in Xhr /\ base.key = xhr.key /\ issue \in Issue /\ asks \in Optional(Moment)
  BY <1>1, <1>3, <1>4 DEF base, issue, asks
<1>7. LET x == Done(xhr, status, answer)
      IN  /\ x \in Xhr
          /\ x.at = "done" /\ x.leads = xhr.leads /\ x.key = base.key
          /\ x.asked = asks /\ x.status = status /\ x.answer = answer
          /\ x.issued = issue
  <2>1. LET x == [base EXCEPT !.at = "done", !.issued = issue, !.leads = xhr.leads,
                    !.asked = asks, !.status = status, !.answer = answer]
        IN  /\ x \in Xhr
            /\ x.at = "done" /\ x.leads = xhr.leads /\ x.key = base.key
            /\ x.asked = asks /\ x.status = status /\ x.answer = answer
            /\ x.issued = issue
    BY <1>2, <1>6 DEF Xhr, Outcome
  <2> QED BY <1>5, <2>1
<1> QED BY <1>6, <1>7 DEF asks, issue
-----------------------------------------------------------------------------
(* The steps of a GET, by what becomes of it.                              *)

\* GET g becomes x, and the world stays as it is.
Becomes(g, x) ==
  /\ x \in Xhr /\ gets[g].at # "done" /\ Waiting(x)
  /\ gets' = [gets EXCEPT ![g] = x]
  /\ UNCHANGED <<now, writes, made, runs, inflight>>

\* It has no outcome yet.
Goes(g, x) ==
  /\ x.status = "none" /\ x.answer = {}
  /\ IF gets[g].at = "idle" THEN x.issued = [at |-> now, acked |-> In("acked")]
                            ELSE x.issued = gets[g].issued /\ x.key = gets[g].key

\* It is held for the run in flight.
Holds(g, x) ==
  /\ gets[g].at = "idle" /\ Holding /\ Goes(g, x)
  /\ x.at = "held" /\ x.run = inflight /\ ~x.leads /\ x.asked = {}
  /\ UNCHANGED memo

\* It rides with the leader of its key.
Follows(g, x) ==
  /\ gets[g].at \in {"idle", "held"} /\ Fresh(x.key) /\ Goes(g, x)
  /\ x.at = "following" /\ x.leader = memo[x.key] /\ ~x.leads /\ x.asked = {}
  /\ UNCHANGED memo

\* It goes to the network, and leads its key.
Leads(g, x) ==
  /\ gets[g].at \in {"idle", "held"} /\ ~Fresh(x.key) /\ Goes(g, x)
  /\ x.at = "asking" /\ x.leads /\ x.asked = {Now}
  /\ memo' = [memo EXCEPT ![x.key] = g]

\* Its leader was lost, and it goes to the network on its own.
AsksAgain(g, x) ==
  /\ gets[g].at = "following" /\ gets[gets[g].leader].status = "lost" /\ Goes(g, x)
  /\ x.at = "asking" /\ ~x.leads /\ x.asked = {Now}
  /\ UNCHANGED memo

\* It is done.
Ends(g, x, status) ==
  /\ gets[g].at # "idle"
  /\ x.at = "done" /\ x.status = status /\ x.leads = gets[g].leads /\ x.key = gets[g].key
  /\ gets[g].leads => x.asked = gets[g].asked
  /\ ~gets[g].leads => x.asked = {}
  /\ x.issued.at = 0 /\ x.issued.acked = {}

\* Where an answer comes from.
FromBundle(g, a) ==
  /\ gets[g].at = "held" /\ a.asked = runs[gets[g].run].asked
  /\ a.seen \in runs[gets[g].run].bundle[UrlOf[gets[g].key]]
FromNetwork(g, a) ==
  gets[g].at = "asking" /\ a.asked \in gets[g].asked /\ a.asked.made \subseteq a.seen
FromLeader(g, a) ==
  gets[g].at = "following" /\ a \in gets[gets[g].leader].answer

\* It is answered, lost, or times out.
Answered(g, x) ==
  /\ Ends(g, x, "ok")
  /\ \E a \in Answer :
       x.answer = {a} /\ (FromBundle(g, a) \/ FromNetwork(g, a) \/ FromLeader(g, a))
  /\ UNCHANGED memo

Lost(g, x) ==
  gets[g].at = "asking" /\ Ends(g, x, "lost") /\ x.answer = {} /\ memo' = MemoWithout(g)

TimedOut(g, x) ==
  gets[g].at = "asking" /\ Ends(g, x, "timeout") /\ x.answer = {} /\ UNCHANGED memo

\* What can become of a GET in one step.
Turns(g, x) ==
  /\ Becomes(g, x)
  /\ \/ Holds(g, x) \/ Follows(g, x) \/ Leads(g, x) \/ AsksAgain(g, x)
     \/ Answered(g, x) \/ Lost(g, x) \/ TimedOut(g, x)

\* sendViaMemo: the XHR follows or leads.
LEMMA ViaMemoTurns ==
  ASSUME TInv, NEW g \in Get, NEW xhr \in Xhr, gets[g].at \in {"idle", "held"},
         Goes(g, xhr), ~xhr.leads, xhr.asked = {},
         SendViaMemo(g, xhr), UNCHANGED <<now, writes, made, runs, inflight>>
  PROVE  \E x : Turns(g, x)
<1>1. CASE Fresh(xhr.key)
  <2> DEFINE x == [xhr EXCEPT !.at = "following", !.run = 0, !.leader = memo[xhr.key]]
  <2>1. gets' = [gets EXCEPT ![g] = x] /\ UNCHANGED memo
    BY <1>1 DEF SendViaMemo
  <2>2. /\ x \in Xhr
        /\ x.at = "following" /\ x.leader = memo[xhr.key] /\ x.key = xhr.key
        /\ x.leads = xhr.leads /\ x.asked = xhr.asked
        /\ x.status = xhr.status /\ x.answer = xhr.answer /\ x.issued = xhr.issued
    BY FollowTyped DEF TInv
  <2> HIDE DEF x
  <2>3. Goes(g, x)
    BY <2>2 DEF Goes
  <2>4. memo[xhr.key] # 0
    BY <1>1 DEF Fresh
  <2>5. Becomes(g, x)
    BY <2>1, <2>2, <2>3, <2>4 DEF Becomes, Waiting, Goes
  <2>6. Follows(g, x)
    BY <1>1, <2>1, <2>2, <2>3 DEF Follows
  <2> QED BY <2>5, <2>6 DEF Turns
<1>2. CASE ~Fresh(xhr.key)
  <2> DEFINE x == Ask(xhr, TRUE)
  <2>1. gets' = [gets EXCEPT ![g] = x] /\ memo' = [memo EXCEPT ![xhr.key] = g]
    BY <1>2 DEF SendViaMemo
  <2>2. /\ x \in Xhr
        /\ x.at = "asking" /\ x.leads = TRUE /\ x.asked = {Now} /\ x.key = xhr.key
        /\ x.status = xhr.status /\ x.answer = xhr.answer /\ x.issued = xhr.issued
    BY AskTyped DEF TInv
  <2> HIDE DEF x
  <2>3. Goes(g, x)
    BY <2>2 DEF Goes
  <2>4. Becomes(g, x)
    BY <2>1, <2>2, <2>3 DEF Becomes, Waiting, Goes
  <2>5. Leads(g, x)
    BY <1>2, <2>1, <2>2, <2>3 DEF Leads
  <2> QED BY <2>4, <2>5 DEF Turns
<1> QED BY <1>1, <1>2

\* A GET that is sent is held, follows or leads.
LEMMA SendTurns ==
  ASSUME TInv, NEW g \in Get, NEW k \in Key, Send(g, k)
  PROVE  \E x : Turns(g, x)
<1> DEFINE new == NewXhr(k)
<1>1. /\ new \in Xhr
      /\ new.at = "idle" /\ new.key = k /\ ~new.leads
      /\ new.asked = {} /\ new.status = "none" /\ new.answer = {}
      /\ new.issued = [at |-> now, acked |-> In("acked")]
  BY NewTyped DEF TInv
<1>2. CASE Holding
  <2> DEFINE x == [new EXCEPT !.at = "held", !.run = inflight]
  <2>1. gets' = [gets EXCEPT ![g] = x] /\ UNCHANGED memo
    BY <1>2 DEF Send
  <2> HIDE DEF new
  <2>2. /\ x \in Xhr
        /\ x.at = "held" /\ x.run = inflight /\ x.key = new.key
        /\ x.leads = new.leads /\ x.asked = new.asked
        /\ x.status = new.status /\ x.answer = new.answer /\ x.issued = new.issued
    BY <1>1, HoldTyped DEF TInv
  <2> HIDE DEF x
  <2>3. gets[g].at = "idle" /\ UNCHANGED <<now, writes, made, runs, inflight>>
    BY DEF Send
  <2>4. Goes(g, x)
    BY <1>1, <2>2, <2>3 DEF Goes
  <2>5. inflight # 0
    BY <1>2 DEF Holding
  <2>6. Becomes(g, x)
    BY <1>1, <2>1, <2>2, <2>3, <2>5 DEF Becomes, Waiting
  <2>7. Holds(g, x)
    BY <1>1, <1>2, <2>1, <2>2, <2>3, <2>4 DEF Holds
  <2> QED BY <2>6, <2>7 DEF Turns
<1>3. CASE ~Holding
  <2>1. SendViaMemo(g, new)
    BY <1>3 DEF Send
  <2>2. gets[g].at = "idle" /\ UNCHANGED <<now, writes, made, runs, inflight>>
    BY DEF Send
  <2> HIDE DEF new
  <2>3. Goes(g, new)
    BY <1>1, <2>2 DEF Goes
  <2> QED BY <1>1, <2>1, <2>2, <2>3, ViaMemoTurns
<1> QED BY <1>2, <1>3

\* A GET in hand ends with any outcome.
LEMMA DoneEnds ==
  ASSUME TInv, NEW g \in Get, gets[g].at \in {"held", "asking", "following"},
         NEW status \in Outcome, NEW answer \in Optional(Answer)
  PROVE  LET x == Done(gets[g], status, answer)
         IN  x \in Xhr /\ Waiting(x) /\ Ends(g, x, status) /\ x.answer = answer
<1> DEFINE x == Done(gets[g], status, answer)
           Ended(y, z) == /\ z \in Xhr
                          /\ z.at = "done" /\ z.leads = y.leads /\ z.key = y.key
                          /\ y.leads => z.asked = y.asked
                          /\ ~y.leads => z.asked = {}
                          /\ z.status = status /\ z.answer = answer
                          /\ z.issued.at = 0 /\ z.issued.acked = {}
<1>1. gets[g] \in Xhr /\ TypeOK
  BY DEF TInv, TypeOK
<1>2. \A y \in Xhr : Ended(y, Done(y, status, answer))
  BY <1>1, DoneTyped
<1> HIDE DEF Ended
<1>3. Ended(gets[g], x)
  BY <1>1, <1>2
<1> HIDE DEF x
<1>4. x \in Xhr /\ Waiting(x) /\ Ends(g, x, status) /\ x.answer = answer
  BY <1>3 DEF Ended, Waiting, Ends
<1> QED BY <1>4 DEF x

\* A GET in hand ends with an answer that a bundle, the network or its leader gave.
LEMMA AnswerTurns ==
  ASSUME TInv, NEW g \in Get, gets[g].at \in {"held", "asking", "following"},
         NEW a \in Answer, FromBundle(g, a) \/ FromNetwork(g, a) \/ FromLeader(g, a),
         gets' = [gets EXCEPT ![g] = Done(gets[g], "ok", {a})],
         UNCHANGED <<now, writes, made, runs, inflight, memo>>
  PROVE  \E x : Turns(g, x)
<1> DEFINE x == Done(gets[g], "ok", {a})
<1>1. {a} \in Optional(Answer)
  BY DEF Optional
<1>2. x \in Xhr /\ Waiting(x) /\ Ends(g, x, "ok") /\ x.answer = {a}
  BY <1>1, DoneEnds DEF Outcome
<1>3. gets' = [gets EXCEPT ![g] = x]
  OBVIOUS
<1> HIDE DEF x
<1>4. Becomes(g, x)
  BY <1>2, <1>3 DEF Becomes
<1>5. Answered(g, x)
  BY <1>2 DEF Answered
<1> QED BY <1>4, <1>5 DEF Turns

\* The fields of a GET.
LEMMA GetTyped ==
  ASSUME TInv, NEW g \in Get
  PROVE  /\ gets[g] \in Xhr /\ Waiting(gets[g]) /\ gets[g].key \in Key
         /\ gets[g].run \in 0..MaxRuns /\ gets[g].leader \in 0..MaxGets
         /\ gets[g].asked \subseteq Moment /\ gets[g].answer \subseteq Answer
         /\ gets[g].issued \in Issue
BY DEF TInv, TypeOK, Xhr, Optional

\* When its run lands a held GET is answered by the bundle, follows or leads.
LEMMA LandTurns ==
  ASSUME TInv, NEW g \in Get, Land(g)
  PROVE  \E x : Turns(g, x)
<1>1. gets[g].at = "held" /\ UNCHANGED <<now, writes, made, runs, inflight>>
  BY DEF Land
<1>2. gets[g] \in Xhr /\ Waiting(gets[g]) /\ gets[g].key \in Key /\ gets[g].run \in 0..MaxRuns
  BY GetTyped
<1>3. gets[g].run \in Run
  BY <1>1, <1>2, Bounds DEF Run, Waiting
<1> DEFINE bundle == runs[gets[g].run].bundle
           hit == bundle[UrlOf[gets[g].key]]
<1>4. runs[gets[g].run] \in Workflow
  BY <1>3 DEF TInv, TypeOK
<1>5. runs[gets[g].run].asked \in Moment /\ bundle \in [Url -> Optional(SUBSET Write)]
  BY <1>4 DEF Workflow
<1>6. UrlOf[gets[g].key] \in Url
  BY <1>2, KeysAssumption
<1>7. hit \subseteq SUBSET Write
  <2> HIDE DEF bundle
  <2> QED BY <1>5, <1>6 DEF Optional
<1>8. CASE hit = {}
  <2>1. SendViaMemo(g, gets[g])
    BY <1>8 DEF Land
  <2>2. Goes(g, gets[g]) /\ ~gets[g].leads /\ gets[g].asked = {}
    BY <1>1, <1>2 DEF Goes, Waiting
  <2> QED BY <1>1, <1>2, <2>1, <2>2, ViaMemoTurns
<1>9. CASE hit # {}
  <2>1. PICK seen \in hit :
          gets' = [gets EXCEPT ![g] = Done(@, "ok", {[asked |-> runs[gets[g].run].asked,
                                                     seen |-> seen]})]
    BY <1>9 DEF Land
  <2>2. UNCHANGED memo
    BY <1>9 DEF Land
  <2> DEFINE a == [asked |-> runs[gets[g].run].asked, seen |-> seen]
  <2>3. gets' = [gets EXCEPT ![g] = Done(gets[g], "ok", {a})]
    BY <2>1
  <2>4. a \in Answer
    BY <1>5, <1>7 DEF Answer
  <2>5. FromBundle(g, a)
    BY <1>1 DEF FromBundle
  <2> HIDE DEF a
  <2> QED BY <1>1, <2>2, <2>3, <2>4, <2>5, AnswerTurns
<1> QED BY <1>8, <1>9

\* The network answers a GET.
LEMMA LoadTurns ==
  ASSUME TInv, NEW g \in Get, Load(g)
  PROVE  \E x : Turns(g, x)
<1>1. gets[g].at = "asking" /\ UNCHANGED <<now, writes, made, runs, inflight, memo>>
  BY DEF Load
<1>2. PICK m \in gets[g].asked : \E seen \in Seen(m) :
        gets' = [gets EXCEPT ![g] = Done(@, "ok", {[asked |-> m, seen |-> seen]})]
  BY DEF Load
<1>3. PICK seen \in Seen(m) :
        gets' = [gets EXCEPT ![g] = Done(@, "ok", {[asked |-> m, seen |-> seen]})]
  BY <1>2
<1> DEFINE a == [asked |-> m, seen |-> seen]
<1>4. gets' = [gets EXCEPT ![g] = Done(gets[g], "ok", {a})]
  BY <1>3
<1>5. m \in Moment /\ made \subseteq Write
  BY GetTyped DEF TInv, TypeOK
<1>6. a \in Answer
  BY <1>5 DEF Answer, Seen
<1>7. FromNetwork(g, a)
  BY <1>1 DEF FromNetwork, Seen
<1> HIDE DEF a
<1> QED BY <1>1, <1>4, <1>6, <1>7, AnswerTurns

\* A follower replays its leader's answer.
LEMMA ReplayTurns ==
  ASSUME TInv, NEW g \in Get, Replay(g)
  PROVE  \E x : Turns(g, x)
<1>1. gets[g].at = "following" /\ UNCHANGED <<now, writes, made, runs, inflight, memo>>
  BY DEF Replay
<1>2. PICK a \in gets[gets[g].leader].answer :
        gets' = [gets EXCEPT ![g] = Done(@, "ok", {a})]
  BY DEF Replay
<1>3. gets' = [gets EXCEPT ![g] = Done(gets[g], "ok", {a})]
  BY <1>2
<1>4. gets[g].leader \in Get
  BY <1>1, GetTyped, Bounds DEF Get, Waiting
<1>5. a \in Answer
  BY <1>4, GetTyped
<1>6. FromLeader(g, a)
  BY <1>1 DEF FromLeader
<1> QED BY <1>1, <1>3, <1>5, <1>6, AnswerTurns

\* A GET is lost, or times out.
LEMMA FailsTurns ==
  ASSUME TInv, NEW g \in Get, Fails(g) \/ TimesOut(g)
  PROVE  \E x : Turns(g, x)
<1>1. gets[g].at = "asking" /\ UNCHANGED <<now, writes, made, runs, inflight>>
  BY DEF Fails, TimesOut
<1>2. {} \in Optional(Answer)
  BY DEF Optional
<1>3. CASE Fails(g)
  <2> DEFINE x == Done(gets[g], "lost", {})
  <2>1. gets' = [gets EXCEPT ![g] = x] /\ memo' = MemoWithout(g)
    BY <1>3 DEF Fails
  <2>2. x \in Xhr /\ Waiting(x) /\ Ends(g, x, "lost") /\ x.answer = {}
    BY <1>1, <1>2, DoneEnds DEF Outcome
  <2> HIDE DEF x
  <2> QED BY <1>1, <2>1, <2>2 DEF Turns, Becomes, Lost
<1>4. CASE TimesOut(g)
  <2> DEFINE x == Done(gets[g], "timeout", {})
  <2>1. gets' = [gets EXCEPT ![g] = x] /\ UNCHANGED memo
    BY <1>4 DEF TimesOut
  <2>2. x \in Xhr /\ Waiting(x) /\ Ends(g, x, "timeout") /\ x.answer = {}
    BY <1>1, <1>2, DoneEnds DEF Outcome
  <2> HIDE DEF x
  <2> QED BY <1>1, <2>1, <2>2 DEF Turns, Becomes, TimedOut
<1> QED BY <1>3, <1>4

\* A follower whose leader was lost asks again.
LEMMA FallBackTurns ==
  ASSUME TInv, NEW g \in Get, FallBack(g)
  PROVE  \E x : Turns(g, x)
<1>1. /\ gets[g].at = "following" /\ gets[gets[g].leader].status = "lost"
      /\ UNCHANGED <<now, writes, made, runs, inflight, memo>>
  BY DEF FallBack
<1> DEFINE x == Ask(gets[g], FALSE)
<1>2. gets' = [gets EXCEPT ![g] = x]
  BY DEF FallBack
<1>3. gets[g] \in Xhr /\ Waiting(gets[g])
  BY GetTyped
<1>4. /\ x \in Xhr
      /\ x.at = "asking" /\ x.leads = FALSE /\ x.asked = {Now} /\ x.key = gets[g].key
      /\ x.status = gets[g].status /\ x.answer = gets[g].answer
      /\ x.issued = gets[g].issued
  BY <1>3, AskTyped DEF TInv
<1> HIDE DEF x
<1>5. Goes(g, x)
  BY <1>1, <1>3, <1>4 DEF Goes, Waiting
<1>6. Becomes(g, x)
  BY <1>1, <1>2, <1>4, <1>5 DEF Becomes, Waiting, Goes
<1> QED BY <1>1, <1>4, <1>5, <1>6 DEF Turns, AsksAgain

-----------------------------------------------------------------------------
(* Type correctness.                                                       *)

\* A turn changes one GET.
LEMMA TurnEffect ==
  ASSUME TInv, NEW g \in Get, NEW x, Becomes(g, x)
  PROVE  /\ gets' \in [Get -> Xhr] /\ gets'[g] = x
         /\ \A h \in Get : h # g => gets'[h] = gets[h]
BY DEF TInv, TypeOK, Becomes

\* What the memo holds is a leader of its key that has not failed.
Led(k) == memo[k] # 0 =>
            gets[memo[k]].leads /\ gets[memo[k]].key = k /\ gets[memo[k]].status # "lost"

\* After the turn of a GET the memo still holds leaders of their keys that have not failed.
LEMMA MemoTyped ==
  ASSUME TInv, NEW g \in Get, NEW x, Turns(g, x)
  PROVE  memo' \in [Key -> 0..MaxGets] /\ \A k \in Key : Led(k)'
<1>1. x.key \in Key /\ memo \in [Key -> 0..MaxGets] /\ g \in 1..MaxGets
  BY DEF TInv, TypeOK, Turns, Becomes, Xhr, Get
<1>2. /\ gets' \in [Get -> Xhr] /\ gets'[g] = x
      /\ \A h \in Get : h # g => gets'[h] = gets[h]
  BY TurnEffect DEF Turns
<1>3. \A k \in Key : Led(k) /\ (memo[k] # 0 => memo[k] \in Get)
  <2> TAKE k \in Key
  <2>1. Led(k)
    BY DEF TInv, TypeOK, Led
  <2>2. memo[k] # 0 => memo[k] \in Get
    BY <1>1, Bounds DEF Get
  <2> QED BY <2>1, <2>2
<1>4. Waiting(gets[g])
  BY DEF TInv
<1>5. CASE Leads(g, x)
  <2>1. memo' = [memo EXCEPT ![x.key] = g] /\ ~gets[g].leads
    BY <1>4, <1>5 DEF Leads, Waiting
  <2>2. memo' \in [Key -> 0..MaxGets]
    BY <1>1, <2>1, Bounds
  <2>3. ASSUME NEW k \in Key, k # x.key
        PROVE  Led(k)'
    <3>1. memo'[k] = memo[k] /\ memo[k] # g
      BY <1>1, <1>3, <2>1, <2>3, Bounds DEF Led
    <3> QED BY <1>2, <1>3, <3>1 DEF Led
  <2>4. ASSUME NEW k \in Key, k = x.key
        PROVE  Led(k)'
    <3>1. memo'[k] = g
      BY <1>1, <2>1, <2>4
    <3>2. x.leads /\ x.status = "none"
      BY <1>5 DEF Leads, Goes
    <3> QED BY <1>2, <2>4, <3>1, <3>2 DEF Led
  <2> QED BY <2>2, <2>3, <2>4
<1>6. CASE Lost(g, x)
  <2>1. memo' = MemoWithout(g) /\ gets[g].key \in Key
    BY <1>6, GetTyped DEF Lost
  <2>2. memo' \in [Key -> 0..MaxGets]
    BY <1>1, <2>1, Bounds DEF MemoWithout
  <2>3. ASSUME NEW k \in Key
        PROVE  Led(k)'
    <3>1. memo'[k] # 0 => memo'[k] = memo[k] /\ memo[k] # g
      BY <1>1, <1>3, <2>1 DEF Led, MemoWithout
    <3> QED BY <1>2, <1>3, <3>1 DEF Led
  <2> QED BY <2>2, <2>3
<1>7. CASE ~Leads(g, x) /\ ~Lost(g, x)
  <2>1. UNCHANGED memo
    BY <1>7 DEF Turns, Holds, Follows, AsksAgain, Answered, TimedOut
  <2>2. gets[g].leads => x.leads /\ x.key = gets[g].key /\ x.status # "lost"
    BY <1>4, <1>7 DEF Turns, Holds, Follows, AsksAgain, Answered, TimedOut, Ends, Waiting
  <2>3. ASSUME NEW k \in Key
        PROVE  Led(k)'
    BY <1>2, <1>3, <2>1, <2>2 DEF Led
  <2> QED BY <1>1, <2>1, <2>3
<1> QED BY <1>5, <1>6, <1>7

\* A turn of a GET keeps the types.
LEMMA TurnTyped ==
  ASSUME TInv, NEW g \in Get, NEW x, Turns(g, x), failures' \in 0..MaxFailures
  PROVE  TInv'
<1>1. UNCHANGED <<now, writes, made, runs, inflight>> /\ x \in Xhr /\ Waiting(x)
  BY DEF Turns, Becomes
<1>2. /\ gets' \in [Get -> Xhr] /\ gets'[g] = x
      /\ \A h \in Get : h # g => gets'[h] = gets[h]
  BY TurnEffect DEF Turns
<1>3. memo' \in [Key -> 0..MaxGets] /\ \A k \in Key : Led(k)'
  BY MemoTyped
<1>4. TypeOK'
  BY <1>1, <1>2, <1>3 DEF TInv, TypeOK, Led
<1>5. \A h \in Get : Waiting(gets[h])'
  BY <1>1, <1>2 DEF TInv, Waiting
<1> QED BY <1>4, <1>5 DEF TInv

\* The steps that touch no GET.
Elsewhere ==
  \/ \E r \in Run, route \in Route : Navigate(r, route)
  \/ \E r \in Run : RunTask(r)
  \/ \E w \in Write : SendWrite(w) \/ WriteReaches(w) \/ WriteAcked(w)
  \/ Tick

\* No step fails more often than the bound allows.
LEMMA FailuresTyped ==
  ASSUME TInv, [Next]_vars
  PROVE  failures' \in 0..MaxFailures
<1>1. failures \in 0..MaxFailures
  BY DEF TInv, TypeOK
<1>2. failures' = failures \/ Failing
  <2>1. CASE UNCHANGED vars
    BY <2>1 DEF vars
  <2>2. CASE Page
    BY <2>2 DEF Page, Send, SendWrite, Navigate
  <2>3. ASSUME NEW g \in Get, Reaction(g)
        PROVE  failures' = failures
    BY <2>3 DEF Reaction, Land, Replay, FallBack
  <2>4. ASSUME NEW g \in Get, GetTask(g)
        PROVE  failures' = failures \/ Failing
    BY <2>4 DEF GetTask, Load, Fails, TimesOut
  <2>5. ASSUME NEW r \in Run, RunTask(r)
        PROVE  failures' = failures \/ Failing
    BY <2>5 DEF RunTask, RunEnds, RunFails
  <2>6. ASSUME NEW w \in Write, WriteReaches(w) \/ WriteAcked(w)
        PROVE  failures' = failures
    BY <2>6 DEF WriteReaches, WriteAcked
  <2>7. CASE Tick
    BY <2>7 DEF Tick
  <2> QED BY <2>1, <2>2, <2>3, <2>4, <2>5, <2>6, <2>7 DEF Next, Task
<1> QED BY <1>1, <1>2, Bounds DEF Failing

\* Every step is a turn of some GET, or touches none.
LEMMA StepKinds ==
  ASSUME TInv, [Next]_vars
  PROVE  \/ \E g \in Get : \E x : Turns(g, x)
         \/ Elsewhere
         \/ UNCHANGED vars
<1>1. ASSUME NEW g \in Get, Reaction(g) \/ GetTask(g)
      PROVE  \E x : Turns(g, x)
  BY <1>1, LandTurns, ReplayTurns, FallBackTurns, LoadTurns, FailsTurns DEF Reaction, GetTask
<1>2. ASSUME NEW g \in Get, NEW k \in Key, Send(g, k)
      PROVE  \E x : Turns(g, x)
  BY <1>2, SendTurns
<1> QED BY <1>1, <1>2 DEF Next, Page, Task, Elsewhere

\* The fields of a run.
LEMMA RunTyped ==
  ASSUME TInv, NEW r \in Run
  PROVE  /\ runs[r] \in Workflow /\ runs[r].asked \in Moment /\ runs[r].route \in Route
         /\ runs[r].bundle \in [Url -> Optional(SUBSET Write)]
BY DEF TInv, TypeOK, Workflow

\* A run that ends has a bundle of answers that show what had been made when it was asked for.
LEMMA RunEndsTyped ==
  ASSUME TInv, NEW r \in Run, RunEnds(r)
  PROVE  \E b \in [Url -> Optional(SUBSET Write)] :
           /\ runs' = [runs EXCEPT ![r].at = "over", ![r].bundle = b]
           /\ \A u \in Url : \A seen \in b[u] : runs[r].asked.made \subseteq seen
<1>1. PICK bundle \in [Bundled[runs[r].route] -> Seen(runs[r].asked)] :
        runs' = [runs EXCEPT
          ![r].at = "over",
          ![r].bundle = [u \in Url |-> IF u \in DOMAIN bundle THEN {bundle[u]} ELSE {}]]
  BY DEF RunEnds
<1> DEFINE b == [u \in Url |-> IF u \in DOMAIN bundle THEN {bundle[u]} ELSE {}]
<1>2. made \subseteq Write
  BY DEF TInv, TypeOK
<1>3. ASSUME NEW u \in Url
      PROVE  b[u] \in Optional(SUBSET Write)
             /\ \A seen \in b[u] : runs[r].asked.made \subseteq seen
  <2>1. CASE u \in DOMAIN bundle
    <3>1. bundle[u] \in Seen(runs[r].asked) /\ b[u] = {bundle[u]}
      BY <2>1
    <3> QED BY <1>2, <3>1 DEF Seen, Optional
  <2>2. CASE u \notin DOMAIN bundle
    <3>1. b[u] = {}
      BY <2>2
    <3> QED BY <3>1 DEF Optional
  <2> QED BY <2>1, <2>2
<1>4. b \in [Url -> Optional(SUBSET Write)]
  BY <1>3
<1>5. runs' = [runs EXCEPT ![r].at = "over", ![r].bundle = b]
  BY <1>1
<1> QED BY <1>3, <1>4, <1>5

\* A step that touches no GET keeps the types.
LEMMA ElsewhereTyped ==
  ASSUME TInv, Elsewhere, failures' \in 0..MaxFailures
  PROVE  TInv'
<1>1. UNCHANGED gets /\ gets \in [Get -> Xhr]
  BY DEF Elsewhere, Navigate, RunTask, RunEnds, RunFails, SendWrite, WriteReaches, WriteAcked,
         Tick, TInv, TypeOK
<1>2. now' \in 0..MaxClock
  <2>1. now \in 0..MaxClock
    BY DEF TInv, TypeOK
  <2>2. now' = now \/ Tick
    BY DEF Elsewhere, Navigate, RunTask, RunEnds, RunFails, SendWrite, WriteReaches, WriteAcked
  <2> QED BY <2>1, <2>2, Bounds DEF Tick
<1>3. writes' \in [Write -> {"idle", "flying", "acked"}] /\ made' \subseteq Write
  <2>1. writes \in [Write -> {"idle", "flying", "acked"}] /\ made \subseteq Write
    BY DEF TInv, TypeOK
  <2>2. CASE \E w \in Write : SendWrite(w) \/ WriteReaches(w) \/ WriteAcked(w)
    BY <2>1, <2>2 DEF SendWrite, WriteReaches, WriteAcked
  <2>3. CASE ~\E w \in Write : SendWrite(w) \/ WriteReaches(w) \/ WriteAcked(w)
    BY <2>1, <2>3 DEF Elsewhere, Navigate, RunTask, RunEnds, RunFails, Tick
  <2> QED BY <2>2, <2>3
<1>4. runs' \in [Run -> Workflow] /\ inflight' \in 0..MaxRuns
  <2>1. runs \in [Run -> Workflow] /\ inflight \in 0..MaxRuns
    BY DEF TInv, TypeOK
  <2>2. ASSUME NEW r \in Run, NEW route \in Route, Navigate(r, route)
        PROVE  runs' \in [Run -> Workflow] /\ inflight' \in 0..MaxRuns
    <3>1. Now \in Moment
      BY NowTyped DEF TInv
    <3>2. runs' = [runs EXCEPT ![r].at = "going", ![r].route = route, ![r].asked = Now]
          /\ inflight' = r
      BY <2>2 DEF Navigate
    <3> HIDE DEF Now
    <3>3. runs' \in [Run -> Workflow]
      BY <2>1, <3>1, <3>2 DEF Workflow
    <3>4. inflight' \in 0..MaxRuns
      BY <3>2, Bounds DEF Run
    <3> QED BY <3>3, <3>4
  <2>3. ASSUME NEW r \in Run, RunEnds(r)
        PROVE  runs' \in [Run -> Workflow] /\ inflight' \in 0..MaxRuns
    <3>1. PICK b \in [Url -> Optional(SUBSET Write)] :
            runs' = [runs EXCEPT ![r].at = "over", ![r].bundle = b]
      BY <2>3, RunEndsTyped
    <3>2. runs' \in [Run -> Workflow]
      BY <2>1, <3>1 DEF Workflow
    <3> QED BY <2>1, <2>3, <3>2 DEF RunEnds
  <2>4. ASSUME NEW r \in Run, RunFails(r)
        PROVE  runs' \in [Run -> Workflow] /\ inflight' \in 0..MaxRuns
    <3>1. Nothing \in [Url -> Optional(SUBSET Write)]
      BY DEF Nothing, Optional
    <3>2. runs' = [runs EXCEPT ![r].at = "over", ![r].bundle = Nothing]
      BY <2>4 DEF RunFails
    <3>3. runs' \in [Run -> Workflow]
      BY <2>1, <3>1, <3>2 DEF Workflow
    <3> QED BY <2>1, <2>4, <3>3 DEF RunFails
  <2>5. ASSUME NEW w \in Write, SendWrite(w)
        PROVE  runs' \in [Run -> Workflow] /\ inflight' \in 0..MaxRuns
    BY <2>1, <2>5, Bounds DEF SendWrite, Invalidate
  <2>6. CASE Tick \/ \E w \in Write : WriteReaches(w) \/ WriteAcked(w)
    BY <2>1, <2>6 DEF Tick, WriteReaches, WriteAcked
  <2> QED BY <2>2, <2>3, <2>4, <2>5, <2>6 DEF Elsewhere, RunTask
<1>5. /\ memo' \in [Key -> 0..MaxGets]
      /\ \A k \in Key : Led(k)'
  <2>1. memo \in [Key -> 0..MaxGets] /\ \A k \in Key : Led(k)
    BY DEF TInv, TypeOK, Led
  <2>2. UNCHANGED memo \/ memo' = [k \in Key |-> 0]
    BY DEF Elsewhere, Navigate, RunTask, RunEnds, RunFails, SendWrite, Invalidate,
           WriteReaches, WriteAcked, Tick
  <2> QED BY <1>1, <2>1, <2>2, Bounds DEF Led
<1>6. TypeOK'
  BY <1>1, <1>2, <1>3, <1>4, <1>5 DEF TypeOK, Led
<1> QED BY <1>1, <1>6 DEF TInv, Waiting

\* The types at the start.
LEMMA TInvInit == Init => TInv
<1> SUFFICES ASSUME Init
             PROVE  TInv
  OBVIOUS
<1> DEFINE k == CHOOSE k \in Key : TRUE
           route == CHOOSE r0 \in Route : TRUE
<1>1. k \in Key /\ route \in Route
  BY KeysAssumption, RoutesAssumption
<1> HIDE DEF k, route
<1>2. gets = [g \in Get |-> NewXhr(k)]
  BY DEF Init, k
<1>3. runs = [r \in Run |-> [at |-> "idle", route |-> route, asked |-> Now,
                             bundle |-> Nothing]]
  BY DEF Init, route
<1>4. now = 0 /\ writes = [w \in Write |-> "idle"] /\ made = {}
  BY DEF Init
<1>5. Now \in Moment
  <2>1. In("idle") \subseteq Write /\ In("flying") \subseteq Write
    BY DEF In
  <2> QED BY <1>4, <2>1, Bounds DEF Now, Moment
<1>6. [at |-> now, acked |-> In("acked")] \in Issue
  BY <1>4, Bounds DEF Issue, In
<1>7. {} \in Optional(Moment) /\ {} \in Optional(Answer) /\ {} \in Optional(SUBSET Write)
  BY DEF Optional
<1>8. NewXhr(k) \in Xhr /\ Waiting(NewXhr(k))
  BY <1>1, <1>6, <1>7, Bounds DEF NewXhr, Xhr, Waiting
<1>9. \A r \in Run : runs[r] \in Workflow
  <2> HIDE DEF Now
  <2>1. Nothing \in [Url -> Optional(SUBSET Write)]
    BY <1>7 DEF Nothing
  <2> QED BY <1>1, <1>3, <1>5, <2>1 DEF Workflow
<1>10. gets \in [Get -> Xhr] /\ \A g \in Get : Waiting(gets[g])
  BY <1>2, <1>8
<1>11. runs \in [Run -> Workflow]
  BY <1>3, <1>9
<1>12. memo \in [Key -> 0..MaxGets] /\ \A j \in Key : memo[j] = 0
  BY Bounds DEF Init
<1>13. TypeOK
  BY <1>4, <1>10, <1>11, <1>12, Bounds DEF Init, TypeOK
<1> QED BY <1>10, <1>13 DEF TInv

\* Every step keeps the types.
LEMMA TInvStep == TInv /\ [Next]_vars => TInv'
<1> SUFFICES ASSUME TInv, [Next]_vars
             PROVE  TInv'
  OBVIOUS
<1>1. ASSUME NEW g \in Get, NEW x, Turns(g, x)
      PROVE  TInv'
  BY <1>1, FailuresTyped, TurnTyped
<1>2. CASE Elsewhere
  BY <1>2, FailuresTyped, ElsewhereTyped
<1>3. CASE UNCHANGED vars
  BY <1>3 DEF TInv, TypeOK, Waiting, vars
<1> QED BY <1>1, <1>2, <1>3, StepKinds

\* The state of the shim is always of its type: in particular the memo only holds leaders
\* of the key, none of them failed (adapt-shim.mts:147-174).
THEOREM TypeCorrect == Spec => []TypeOK
<1>1. Spec => []TInv
  BY TInvInit, TInvStep, PTL DEF Spec
<1>2. TInv => TypeOK
  BY DEF TInv
<1> QED BY <1>1, <1>2, PTL

-----------------------------------------------------------------------------
(* What the moments say.                                                   *)

\* The writes the page has sent.
Sent == Write \ In("idle")

\* A moment lies in the past: a write sent by then and not in flight had been made.
Known(m) == m.sent \subseteq Sent /\ m.sent \ m.flying \subseteq m.made

\* What AnswersFresh asks of the moment a GET is answered from.
Recent(issue, m) == issue.at < m.at + Window /\ issue.acked \subseteq m.flying \cup m.made

\* What was acknowledged has been made.
AckedMade == In("acked") \subseteq made

\* What a run returns shows what had been made when it was asked for.
RunKnown(run) ==
  /\ Known(run.asked)
  /\ \A u \in Url : /\ run.at = "idle" => run.bundle[u] = {}
                    /\ \A seen \in run.bundle[u] : run.asked.made \subseteq seen
RunsKnown == \A r \in Run : RunKnown(runs[r])

\* No write has been sent since the run GETs are held for was asked for, nor since a leader in
\* the memo was.
InflightCurrent ==
  inflight # 0 => runs[inflight].at # "idle" /\ runs[inflight].asked.sent = Sent
MemoCurrent ==
  \A k \in Key : memo[k] # 0 => \A m \in gets[memo[k]].asked : m.sent = Sent

\* A GET was issued before now, and an answer shows what had been made when it was asked for.
Honest(xhr) ==
  /\ xhr.issued.at <= now /\ xhr.issued.acked \subseteq In("acked")
  /\ \A m \in xhr.asked : Known(m)
  /\ \A a \in xhr.answer : a.asked.made \subseteq a.seen /\ (xhr.leads => a.asked \in xhr.asked)
GetsHonest == \A g \in Get : Honest(gets[g])

\* What a GET waits for is recent enough to answer it.
Served(xhr) ==
  /\ xhr.at = "held" =>
       runs[xhr.run].at # "idle" /\ Recent(xhr.issued, runs[xhr.run].asked)
  /\ xhr.at = "following" =>
       /\ gets[xhr.leader].leads /\ gets[xhr.leader].key = xhr.key
       /\ \A m \in gets[xhr.leader].asked : Recent(xhr.issued, m)
  /\ xhr.at = "asking" => \A m \in xhr.asked : Recent(xhr.issued, m)
GetsServed == \A g \in Get : Served(gets[g])

\* Until a GET of its key fails, only leaders go to the network, and one that the memo no longer
\* has is of another window or was followed by a write.
NoneLost(k) == \A f \in Get : gets[f].key = k => gets[f].status # "lost"
Alone ==
  \A g \in Get : NoneLost(gets[g].key) =>
    \A m \in gets[g].asked :
      gets[g].leads /\ (m.sent # Sent \/ now >= m.at + Window \/ memo[gets[g].key] = g)

\* The inductive invariant.
SInv == /\ TInv /\ AckedMade /\ RunsKnown /\ InflightCurrent /\ MemoCurrent
        /\ GetsHonest /\ GetsServed /\ Alone /\ OneRide

-----------------------------------------------------------------------------
(* The steps of a GET.                                                     *)

\* The moment recorded now is known: what is neither unsent nor in flight was acknowledged,
\* and so made.
LEMMA NowKnown ==
  ASSUME TInv, AckedMade
  PROVE  /\ Known(Now) /\ Now.sent = Sent /\ Now.at = now /\ Now.made = made
         /\ In("acked") \subseteq Sent
<1>1. writes \in [Write -> {"idle", "flying", "acked"}]
  BY DEF TInv, TypeOK
<1>2. Now.sent = Sent /\ Now.at = now /\ Now.made = made /\ Now.flying = In("flying")
  BY DEF Now, Sent
<1>3. Sent \ In("flying") \subseteq In("acked") /\ In("acked") \subseteq Sent
  BY <1>1 DEF Sent, In
<1> QED BY <1>2, <1>3 DEF Known, AckedMade

\* A GET's turn leaves the page's writes and the backend alone.
LEMMA WorldStays ==
  ASSUME NEW g \in Get, NEW x, Becomes(g, x)
  PROVE  /\ now' = now /\ made' = made /\ runs' = runs /\ inflight' = inflight
         /\ Sent' = Sent /\ In("acked")' = In("acked")
         /\ \A m : Known(m)' <=> Known(m)
<1>1. UNCHANGED <<now, writes, made, runs, inflight>>
  BY DEF Becomes
<1>2. Sent' = Sent /\ In("acked")' = In("acked")
  BY <1>1 DEF Sent, In
<1> QED BY <1>1, <1>2 DEF Known

\* A leader stays one, of the same key and with the same request.
LEMMA LeaderStays ==
  ASSUME TInv, NEW g \in Get, NEW x, Turns(g, x), gets[g].leads
  PROVE  /\ gets[g].at = "asking" /\ x.at = "done"
         /\ x.leads /\ x.key = gets[g].key /\ x.asked = gets[g].asked
<1>1. Waiting(gets[g]) /\ gets[g] \in Xhr
  BY GetTyped
<1>2. gets[g].at = "asking"
  BY <1>1 DEF Waiting, Turns, Becomes, Xhr
<1> QED BY <1>2 DEF Turns, Holds, Follows, Leads, AsksAgain, Answered, Lost, TimedOut, Ends

\* After the turn of a GET, GETs are issued in the past and answers show what had been made.
LEMMA TurnHonest ==
  ASSUME SInv, NEW g \in Get, NEW x, Turns(g, x)
  PROVE  GetsHonest'
<1>1. /\ gets' \in [Get -> Xhr] /\ gets'[g] = x
      /\ \A h \in Get : h # g => gets'[h] = gets[h]
  BY TurnEffect DEF Turns, SInv
<1>2. /\ now' = now /\ Sent' = Sent /\ In("acked")' = In("acked")
      /\ \A m : Known(m)' <=> Known(m)
  BY WorldStays DEF Turns
<1>3. \A h \in Get : Honest(gets[h])
  BY DEF SInv, GetsHonest
<1>4. Waiting(gets[g]) /\ gets[g] \in Xhr /\ gets[g].run \in 0..MaxRuns
      /\ gets[g].leader \in 0..MaxGets /\ gets[g].key \in Key
  BY GetTyped DEF SInv
<1>5. now \in Nat
  BY Bounds DEF SInv, TInv, TypeOK
<1>6. x.issued.at <= now /\ x.issued.acked \subseteq In("acked")
  <2>1. CASE Goes(g, x)
    BY <1>3, <1>5, <2>1 DEF Goes, Honest
  <2>2. CASE \E status : Ends(g, x, status)
    BY <1>5, <2>2 DEF Ends
  <2> QED BY <2>1, <2>2 DEF Turns, Holds, Follows, Leads, AsksAgain, Answered, Lost, TimedOut
<1>7. \A m \in x.asked : Known(m)
  <2>1. x.asked \subseteq {Now} \/ x.asked \subseteq gets[g].asked
    BY DEF Turns, Holds, Follows, Leads, AsksAgain, Answered, Lost, TimedOut, Ends
  <2>2. Known(Now)
    BY NowKnown DEF SInv
  <2> QED BY <1>3, <2>1, <2>2 DEF Honest
<1>8. ASSUME NEW a \in x.answer
      PROVE  a.asked.made \subseteq a.seen /\ (x.leads => a.asked \in x.asked)
  <2>1. Answered(g, x)
    BY <1>8 DEF Turns, Holds, Follows, Leads, AsksAgain, Goes, Lost, TimedOut
  <2>2. FromBundle(g, a) \/ FromNetwork(g, a) \/ FromLeader(g, a)
    BY <1>8, <2>1 DEF Answered
  <2>3. x.leads = gets[g].leads /\ (gets[g].leads => x.asked = gets[g].asked)
    BY <2>1 DEF Answered, Ends
  <2>4. CASE FromBundle(g, a)
    <3>1. gets[g].run \in Run /\ UrlOf[gets[g].key] \in Url
      BY <1>4, <2>4, Bounds, KeysAssumption DEF FromBundle, Waiting, Run
    <3>2. RunKnown(runs[gets[g].run])
      BY <3>1 DEF SInv, RunsKnown
    <3> QED BY <1>4, <2>3, <2>4, <3>1, <3>2 DEF FromBundle, RunKnown, Waiting
  <2>5. CASE FromNetwork(g, a)
    BY <2>3, <2>5 DEF FromNetwork
  <2>6. CASE FromLeader(g, a)
    <3>1. gets[g].leader \in Get
      BY <1>4, <2>6, Bounds DEF FromLeader, Waiting, Get
    <3> QED BY <1>3, <1>4, <2>3, <2>6, <3>1 DEF FromLeader, Honest, Waiting
  <2> QED BY <2>2, <2>4, <2>5, <2>6
<1>9. ASSUME NEW h \in Get
      PROVE  Honest(gets[h])'
  <2>1. CASE h = g
    BY <1>1, <1>2, <1>6, <1>7, <1>8, <2>1 DEF Honest
  <2>2. CASE h # g
    BY <1>1, <1>2, <1>3, <2>2 DEF Honest
  <2> QED BY <2>1, <2>2
<1> QED BY <1>9 DEF GetsHonest

\* What was asked for since the last write, less than a window ago, can answer what the page
\* sends now.
LEMMA CurrentIsRecent ==
  ASSUME TInv, AckedMade, NEW m \in Moment, Known(m), m.sent = Sent, Within(m),
         NEW issue \in Issue, issue.at <= now, issue.acked \subseteq In("acked")
  PROVE  Recent(issue, m)
<1>1. now \in Int /\ m.at \in Int /\ issue.at \in Int /\ Window \in Int
  BY Bounds DEF TInv, TypeOK, Moment, Issue
<1>2. issue.at < m.at + Window
  BY <1>1 DEF Within
<1>3. In("acked") \subseteq m.sent
  BY NowKnown
<1> QED BY <1>2, <1>3 DEF Recent, Known

\* The network, asked now, can answer what the page has sent.
LEMMA NowRecent ==
  ASSUME TInv, AckedMade, NEW issue \in Issue, issue.at <= now,
         issue.acked \subseteq In("acked")
  PROVE  Recent(issue, Now)
<1>1. now \in Int /\ Now.at = now /\ Window \in Int /\ Window > 0
  BY Bounds, NowKnown DEF TInv, TypeOK
<1>2. Known(Now) /\ Now.sent = Sent /\ Now \in Moment
  BY NowKnown, NowTyped DEF TInv
<1>3. Within(Now)
  BY <1>1 DEF Within
<1> HIDE DEF Now
<1> QED BY <1>2, <1>3, CurrentIsRecent

\* What every GET with a leader sees of its leader is the same after another's turn.
LEMMA LeadersStay ==
  ASSUME TInv, NEW g \in Get, NEW x, Turns(g, x), NEW h \in Get, gets[h].leads
  PROVE  gets'[h].leads /\ gets'[h].key = gets[h].key /\ gets'[h].asked = gets[h].asked
<1>1. /\ gets' \in [Get -> Xhr] /\ gets'[g] = x
      /\ \A f \in Get : f # g => gets'[f] = gets[f]
  BY TurnEffect DEF Turns
<1>2. CASE h = g
  BY <1>1, <1>2, LeaderStays
<1>3. CASE h # g
  BY <1>1, <1>3
<1> QED BY <1>2, <1>3

\* What a GET that goes on waits for can answer it.
LEMMA TurnFinds ==
  ASSUME SInv, NEW g \in Get, NEW x, Turns(g, x)
  PROVE  /\ x.at = "held" =>
              runs[x.run].at # "idle" /\ Recent(x.issued, runs[x.run].asked)
         /\ x.at = "following" =>
              /\ x.leader \in Get /\ gets[x.leader].leads /\ gets[x.leader].key = x.key
              /\ \A m \in gets[x.leader].asked : Recent(x.issued, m)
         /\ x.at = "asking" => \A m \in x.asked : Recent(x.issued, m)
<1>1. gets'[g] = x /\ x.key \in Key /\ x.issued \in Issue
  BY TurnEffect DEF Turns, Becomes, Xhr, SInv
<1>2. x.issued.at <= now /\ x.issued.acked \subseteq In("acked")
  <2>1. Honest(gets[g])'
    BY TurnHonest DEF GetsHonest
  <2>2. now' = now /\ In("acked")' = In("acked")
    BY WorldStays DEF Turns
  <2> QED BY <1>1, <2>1, <2>2 DEF Honest
<1>3. TInv /\ AckedMade
  BY DEF SInv
<1>4. CASE Holds(g, x)
  <2>1. inflight \in Run
    BY <1>4, Bounds DEF Holds, Holding, SInv, TInv, TypeOK, Run
  <2>2. Within(runs[inflight].asked) /\ runs[inflight].asked.sent = Sent
        /\ runs[inflight].at # "idle"
    BY <1>4 DEF Holds, Holding, SInv, InflightCurrent
  <2>3. Known(runs[inflight].asked) /\ runs[inflight].asked \in Moment
    BY <2>1, RunTyped DEF SInv, RunsKnown, RunKnown
  <2>4. Recent(x.issued, runs[inflight].asked)
    BY <1>1, <1>2, <1>3, <2>2, <2>3, CurrentIsRecent
  <2> QED BY <1>4, <2>2, <2>4 DEF Holds
<1>5. CASE Follows(g, x)
  <2>1. x.at = "following" /\ x.leader = memo[x.key] /\ memo[x.key] # 0
    BY <1>5 DEF Follows, Fresh
  <2>2. memo[x.key] \in Get
    BY <1>1, <2>1, Bounds DEF SInv, TInv, TypeOK, Get
  <2>3. gets[memo[x.key]].leads /\ gets[memo[x.key]].key = x.key
    BY <1>1, <2>1 DEF SInv, TInv, TypeOK
  <2>4. ASSUME NEW m \in gets[memo[x.key]].asked
        PROVE  Recent(x.issued, m)
    <3>1. m \in Moment
      BY <2>2, GetTyped DEF SInv
    <3>2. Known(m)
      BY <2>2 DEF SInv, GetsHonest, Honest
    <3>3. m.sent = Sent
      BY <1>1, <2>1 DEF SInv, MemoCurrent
    <3>4. Within(m)
      BY <1>5 DEF Follows, Fresh
    <3> QED BY <1>1, <1>2, <1>3, <3>1, <3>2, <3>3, <3>4, CurrentIsRecent
  <2> QED BY <2>1, <2>2, <2>3, <2>4
<1>6. CASE Leads(g, x) \/ AsksAgain(g, x)
  <2>1. x.at = "asking" /\ x.asked = {Now}
    BY <1>6 DEF Leads, AsksAgain
  <2>2. Recent(x.issued, Now)
    BY <1>1, <1>2, <1>3, NowRecent
  <2> QED BY <2>1, <2>2
<1>7. CASE x.at = "done"
  BY <1>7
<1> QED BY <1>4, <1>5, <1>6, <1>7 DEF Turns, Answered, Lost, TimedOut, Ends

\* After the turn of a GET, what each GET waits for can still answer it.
LEMMA TurnServed ==
  ASSUME SInv, NEW g \in Get, NEW x, Turns(g, x)
  PROVE  GetsServed'
<1>1. /\ gets' \in [Get -> Xhr] /\ gets'[g] = x
      /\ \A h \in Get : h # g => gets'[h] = gets[h]
  BY TurnEffect DEF Turns, SInv
<1>2. runs' = runs
  BY WorldStays DEF Turns
<1>3. \A h \in Get : gets[h].leads =>
        gets'[h].leads /\ gets'[h].key = gets[h].key /\ gets'[h].asked = gets[h].asked
  BY LeadersStay DEF SInv
<1>4. ASSUME NEW h \in Get, h # g
      PROVE  Served(gets[h])'
  <2>1. Served(gets[h])
    BY DEF SInv, GetsServed
  <2>2. gets[h].at = "following" => gets[h].leader \in Get
    BY GetTyped, Bounds DEF SInv, Get, Waiting
  <2> QED BY <1>1, <1>2, <1>3, <1>4, <2>1, <2>2 DEF Served, Recent
<1>5. Served(gets[g])'
  BY <1>1, <1>2, <1>3, TurnFinds DEF Served, Recent
<1> QED BY <1>4, <1>5 DEF GetsServed

\* After the turn of a GET, no write has been sent since a leader in the memo asked.
LEMMA TurnMemo ==
  ASSUME SInv, NEW g \in Get, NEW x, Turns(g, x)
  PROVE  MemoCurrent'
<1>1. /\ gets' \in [Get -> Xhr] /\ gets'[g] = x
  BY TurnEffect DEF Turns, SInv
<1>2. Sent' = Sent /\ memo \in [Key -> 0..MaxGets] /\ x.key \in Key
  BY WorldStays DEF Turns, Becomes, Xhr, SInv, TInv, TypeOK
<1>3. SUFFICES ASSUME NEW k \in Key, memo'[k] # 0, NEW m \in gets'[memo'[k]].asked
               PROVE  m.sent = Sent
  BY <1>2 DEF MemoCurrent
<1>4. CASE memo'[k] = memo[k]
  <2>1. memo[k] \in Get /\ gets[memo[k]].leads
    BY <1>2, <1>3, <1>4, Bounds DEF SInv, TInv, TypeOK, Get
  <2>2. gets'[memo[k]].asked = gets[memo[k]].asked
    BY <2>1, LeadersStay DEF SInv
  <2> QED BY <1>3, <1>4, <2>2 DEF SInv, MemoCurrent
<1>5. CASE memo'[k] # memo[k]
  <2>1. gets[g].key \in Key
    BY GetTyped DEF SInv
  <2>2. ~Lost(g, x)
    BY <1>2, <1>3, <1>5, <2>1 DEF Lost, MemoWithout
  <2>3. Leads(g, x)
    BY <1>5, <2>2 DEF Turns, Holds, Follows, AsksAgain, Answered, TimedOut
  <2>4. memo'[k] = g
    BY <1>2, <1>5, <2>3 DEF Leads
  <2>5. m = Now
    BY <1>1, <1>3, <2>3, <2>4 DEF Leads
  <2> QED BY <2>5, NowKnown DEF SInv
<1> QED BY <1>4, <1>5

\* No lost GET comes back: a key none of whose GETs is lost had none before.
LEMMA NoneLostBefore ==
  ASSUME TInv, NEW g \in Get, NEW x, Turns(g, x), NEW k, NoneLost(k)'
  PROVE  NoneLost(k) /\ ~(x.key = k /\ Lost(g, x))
<1>1. /\ gets' \in [Get -> Xhr] /\ gets'[g] = x
      /\ \A h \in Get : h # g => gets'[h] = gets[h]
  BY TurnEffect DEF Turns
<1>2. gets[g].status = "none"
  BY DEF TInv, Waiting, Turns, Becomes
<1> QED BY <1>1, <1>2 DEF NoneLost, Lost, Ends

\* As long as none of its key is lost, a GET that goes to the network leads.
LEMMA TurnAsks ==
  ASSUME SInv, NEW g \in Get, NEW x, Turns(g, x), NoneLost(x.key)
  PROVE  \/ x.asked = {}
         \/ Leads(g, x)
         \/ gets[g].leads /\ x.leads /\ x.key = gets[g].key /\ x.asked = gets[g].asked
<1>1. Waiting(gets[g])
  BY DEF SInv, TInv
<1>2. ~AsksAgain(g, x)
  <2> SUFFICES ASSUME AsksAgain(g, x)
               PROVE  FALSE
    OBVIOUS
  <2>1. gets[g].at = "following" /\ gets[gets[g].leader].status = "lost" /\ x.key = gets[g].key
    BY DEF AsksAgain, Goes
  <2>2. gets[gets[g].leader].key = gets[g].key
    BY <2>1 DEF SInv, GetsServed, Served
  <2>3. gets[g].leader \in Get
    BY <1>1, <2>1, GetTyped, Bounds DEF SInv, Get, Waiting
  <2> QED BY <2>1, <2>2, <2>3 DEF NoneLost
<1>3. CASE gets[g].leads
  BY <1>3, LeaderStays DEF SInv
<1>4. CASE ~gets[g].leads
  BY <1>2, <1>4 DEF Turns, Holds, Follows, Answered, Lost, TimedOut, Ends
<1> QED BY <1>3, <1>4

\* After the turn of a GET, a leader that the memo does not have is of another window, or was
\* followed by a write.
LEMMA TurnAlone ==
  ASSUME SInv, NEW g \in Get, NEW x, Turns(g, x)
  PROVE  Alone'
<1>1. /\ gets' \in [Get -> Xhr] /\ gets'[g] = x
      /\ \A h \in Get : h # g => gets'[h] = gets[h]
  BY TurnEffect DEF Turns, SInv
<1>2. now' = now /\ Sent' = Sent
  BY WorldStays DEF Turns
<1>3. memo \in [Key -> 0..MaxGets] /\ x.key \in Key
  BY DEF Turns, Becomes, Xhr, SInv, TInv, TypeOK
<1>4. SUFFICES ASSUME NEW h \in Get, NEW k \in Key, gets'[h].key = k, NoneLost(k)',
                      NEW m \in gets'[h].asked
               PROVE  gets'[h].leads /\ (m.sent # Sent \/ now >= m.at + Window \/ memo'[k] = h)
  <2>1. \A h \in Get : gets'[h].key \in Key
    BY <1>1 DEF Xhr
  <2> QED BY <1>2, <2>1 DEF Alone, NoneLost
<1>5. NoneLost(k) /\ ~(x.key = k /\ Lost(g, x))
  BY <1>4, NoneLostBefore DEF SInv
<1>6. CASE h = g /\ Leads(g, x)
  BY <1>1, <1>3, <1>4, <1>6 DEF Leads
<1>7. CASE ~(h = g /\ Leads(g, x))
  <2>1. gets[h].key = k /\ m \in gets[h].asked /\ (gets'[h].leads <=> gets[h].leads)
    <3>1. CASE h # g
      BY <1>1, <1>4, <3>1
    <3>2. CASE h = g
      <4>1. x.key = k /\ x.asked # {}
        BY <1>1, <1>4, <3>2
      <4> QED BY <1>1, <1>4, <1>5, <1>7, <3>2, <4>1, TurnAsks
    <3> QED BY <3>1, <3>2
  <2>2. gets[h].leads /\ (m.sent # Sent \/ now >= m.at + Window \/ memo[k] = h)
    BY <1>5, <2>1 DEF SInv, Alone
  <2>3. CASE m.sent # Sent \/ now >= m.at + Window
    BY <2>1, <2>2, <2>3
  <2>4. CASE memo[k] = h /\ memo'[k] = memo[k]
    BY <2>1, <2>2, <2>4
  <2>5. CASE memo[k] = h /\ memo'[k] # memo[k]
    <3>1. gets[g].key \in Key /\ h # 0
      BY GetTyped, Bounds DEF SInv, Get
    <3>2. CASE Leads(g, x)
      <4>1. x.key = k /\ ~Fresh(k)
        BY <1>3, <2>5, <3>2 DEF Leads
      <4>2. PICK n \in gets[h].asked : ~Within(n)
        BY <2>5, <3>1, <4>1 DEF Fresh
      <4>3. n = m
        <5>1. gets[h].asked \in Optional(Moment)
          BY DEF SInv, TInv, TypeOK, Xhr
        <5> QED BY <2>1, <5>1 DEF Optional
      <4>4. m \in Moment /\ now \in Int /\ Window \in Int
        BY <2>1, GetTyped, Bounds DEF SInv, TInv, TypeOK
      <4>5. now >= m.at + Window
        BY <4>2, <4>3, <4>4 DEF Within, Moment
      <4> QED BY <2>1, <2>2, <4>5
    <3>3. CASE Lost(g, x)
      <4>1. gets[g].key = k /\ x.key = gets[g].key
        BY <1>3, <2>5, <3>1, <3>3 DEF Lost, MemoWithout, Ends
      <4> QED BY <1>5, <3>3, <4>1
    <3> QED BY <2>5, <3>2, <3>3 DEF Turns, Holds, Follows, AsksAgain, Answered, TimedOut
  <2> QED BY <2>2, <2>3, <2>4, <2>5
<1> QED BY <1>6, <1>7

\* Two GETs of one key do not both go to the network.
Apart(m, n) == m.sent # n.sent \/ n.at >= m.at + Window \/ m.at >= n.at + Window

\* After the turn of a GET, identical GETs still ride one request.
LEMMA TurnRides ==
  ASSUME SInv, NEW g \in Get, NEW x, Turns(g, x)
  PROVE  OneRide'
<1>1. /\ gets' \in [Get -> Xhr] /\ gets'[g] = x
      /\ \A h \in Get : h # g => gets'[h] = gets[h]
  BY TurnEffect DEF Turns, SInv
<1>2. now' = now /\ Sent' = Sent /\ memo \in [Key -> 0..MaxGets]
  BY WorldStays DEF Turns, SInv, TInv, TypeOK
<1>3. ASSUME NEW k \in Key, NoneLost(k)', NEW h \in Get, gets'[h].key = k,
             NEW m \in gets'[h].asked, ~(h = g /\ Leads(g, x))
      PROVE  gets[h].key = k /\ m \in gets[h].asked
  <2>1. NoneLost(k)
    BY <1>3, NoneLostBefore DEF SInv
  <2>2. CASE h # g
    BY <1>1, <1>3, <2>2
  <2>3. CASE h = g
    <3>1. x.key = k /\ x.asked # {}
      BY <1>1, <1>3, <2>3
    <3> QED BY <1>1, <1>3, <2>1, <2>3, <3>1, TurnAsks
  <2> QED BY <2>2, <2>3
<1>4. ASSUME NEW k \in Key, NoneLost(k)', NEW h \in Get, gets'[h].key = k,
             NEW m \in gets'[h].asked, h # g, Leads(g, x), x.key = k
      PROVE  m.sent # Now.sent \/ Now.at >= m.at + Window
  <2>1. memo'[k] = g
    BY <1>2, <1>4 DEF Leads
  <2>2. Alone'
    BY TurnAlone
  <2>3. m.sent # Sent \/ now >= m.at + Window \/ memo'[k] = h
    BY <1>2, <1>4, <2>2 DEF Alone, NoneLost
  <2> QED BY <1>4, <2>1, <2>3, NowKnown DEF SInv
<1>5. ASSUME NEW k \in Key, NoneLost(k)', NEW h \in Get, NEW f \in Get, h # f,
             gets'[h].key = k, gets'[f].key = k,
             NEW m \in gets'[h].asked, NEW n \in gets'[f].asked
      PROVE  Apart(m, n)
  <2>1. CASE h = g /\ Leads(g, x)
    <3>1. m = Now /\ x.key = k
      BY <1>1, <1>5, <2>1 DEF Leads
    <3>2. n.sent # Now.sent \/ Now.at >= n.at + Window
      BY <1>4, <1>5, <2>1, <3>1
    <3> QED BY <3>1, <3>2 DEF Apart
  <2>2. CASE f = g /\ Leads(g, x)
    <3>1. n = Now /\ x.key = k
      BY <1>1, <1>5, <2>2 DEF Leads
    <3>2. m.sent # Now.sent \/ Now.at >= m.at + Window
      BY <1>4, <1>5, <2>2, <3>1
    <3> QED BY <3>1, <3>2 DEF Apart
  <2>3. CASE ~(h = g /\ Leads(g, x)) /\ ~(f = g /\ Leads(g, x))
    <3>1. gets[h].key = k /\ m \in gets[h].asked
      BY <1>3, <1>5, <2>3
    <3>2. gets[f].key = k /\ n \in gets[f].asked
      BY <1>3, <1>5, <2>3
    <3>3. NoneLost(k)
      BY <1>5, NoneLostBefore DEF SInv
    <3> QED BY <1>5, <3>1, <3>2, <3>3 DEF SInv, OneRide, Apart, NoneLost
  <2> QED BY <2>1, <2>2, <2>3
<1>6. \A h \in Get : gets'[h].key \in Key
  BY <1>1 DEF Xhr
<1> QED BY <1>5, <1>6 DEF OneRide, Apart, NoneLost

\* The turn of a GET keeps the invariant.
LEMMA TurnStep ==
  ASSUME SInv, TInv', NEW g \in Get, NEW x, Turns(g, x)
  PROVE  SInv'
<1>1. /\ made' = made /\ runs' = runs /\ inflight' = inflight
      /\ Sent' = Sent /\ In("acked")' = In("acked") /\ \A m : Known(m)' <=> Known(m)
  BY WorldStays DEF Turns
<1>2. AckedMade' /\ InflightCurrent' /\ RunsKnown'
  <2>1. AckedMade' /\ InflightCurrent'
    BY <1>1 DEF SInv, AckedMade, InflightCurrent
  <2>2. \A r \in Run : RunKnown(runs[r])
    BY DEF SInv, RunsKnown
  <2>3. ASSUME NEW r \in Run
        PROVE  RunKnown(runs[r])'
    BY <1>1, <2>2 DEF RunKnown
  <2> QED BY <2>1, <2>3 DEF RunsKnown
<1> QED BY <1>2, TurnMemo, TurnHonest, TurnServed, TurnAlone, TurnRides DEF SInv

-----------------------------------------------------------------------------
(* The other steps.                                                        *)

\* What is acknowledged, sent, made and past stays so.
LEMMA ElsewhereGrows ==
  ASSUME SInv, Elsewhere
  PROVE  /\ now <= now' /\ made \subseteq made' /\ gets' = gets
         /\ In("acked") \subseteq In("acked")' /\ Sent \subseteq Sent'
         /\ \A m : Known(m) => Known(m)'
         /\ GetsHonest'
<1>1. now \in Int /\ writes \in [Write -> {"idle", "flying", "acked"}]
  BY Bounds DEF SInv, TInv, TypeOK
<1>2. (now' = now \/ now' = now + 1) /\ gets' = gets
  BY DEF Elsewhere, Navigate, RunTask, RunEnds, RunFails, SendWrite, WriteReaches, WriteAcked,
         Tick
<1>3. now <= now' /\ now' \in Int
  BY <1>1, <1>2
<1>4. \A w \in Write : /\ writes[w] # "idle" => writes'[w] # "idle"
                       /\ writes[w] = "acked" => writes'[w] = "acked"
  <2>1. CASE UNCHANGED writes
    BY <2>1
  <2>2. CASE \E w \in Write : SendWrite(w) \/ WriteAcked(w)
    BY <1>1, <2>2 DEF SendWrite, WriteAcked
  <2> QED BY <2>1, <2>2 DEF Elsewhere, Navigate, RunTask, RunEnds, RunFails, WriteReaches, Tick
<1>5. In("acked") \subseteq In("acked")' /\ Sent \subseteq Sent'
  BY <1>4 DEF In, Sent
<1>6. \A m : Known(m) => Known(m)'
  BY <1>5 DEF Known
<1>7. made \subseteq made'
  BY DEF Elsewhere, Navigate, RunTask, RunEnds, RunFails, SendWrite, WriteReaches, WriteAcked,
         Tick
<1>8. ASSUME NEW g \in Get
      PROVE  Honest(gets[g])'
  <2>1. Honest(gets[g])
    BY DEF SInv, GetsHonest
  <2>2. gets[g].issued.at \in Int
    BY GetTyped DEF SInv, Issue
  <2>3. gets[g].issued.at <= now'
    BY <1>1, <1>3, <2>1, <2>2 DEF Honest
  <2> QED BY <1>2, <1>5, <1>6, <2>1, <2>3 DEF Honest
<1> QED BY <1>2, <1>3, <1>5, <1>6, <1>7, <1>8 DEF GetsHonest

\* A write sent, and everything else.
LEMMA SentChanges ==
  ASSUME SInv, Elsewhere
  PROVE  \/ /\ Sent' = Sent /\ memo' = memo
            /\ inflight' = inflight \/ \E r \in Run, route \in Route : Navigate(r, route)
         \/ /\ memo' = [k \in Key |-> 0] /\ inflight' = 0
            /\ \A m : Known(m) => m.sent # Sent'
<1>1. writes \in [Write -> {"idle", "flying", "acked"}]
  BY DEF SInv, TInv, TypeOK
<1>2. ASSUME NEW w \in Write, SendWrite(w)
      PROVE  /\ memo' = [k \in Key |-> 0] /\ inflight' = 0
             /\ \A m : Known(m) => m.sent # Sent'
  <2>1. w \in Sent' /\ w \notin Sent
    BY <1>1, <1>2 DEF SendWrite, Sent, In
  <2> QED BY <1>2, <2>1 DEF SendWrite, Invalidate, Known
<1>3. ASSUME NEW w \in Write, WriteAcked(w)
      PROVE  Sent' = Sent
  BY <1>1, <1>3 DEF WriteAcked, Sent, In
<1>4. CASE UNCHANGED writes
  <2>1. Sent' = Sent
    BY <1>4 DEF Sent, In
  <2>2. ~\E w \in Write : SendWrite(w)
    BY <1>1, <1>4 DEF SendWrite
  <2> QED BY <2>1, <2>2 DEF Elsewhere, Navigate, RunTask, RunEnds, RunFails, WriteReaches,
                            WriteAcked, Tick
<1>5. CASE \E w \in Write : WriteAcked(w)
  BY <1>3, <1>5 DEF WriteAcked
<1> QED BY <1>2, <1>4, <1>5 DEF Elsewhere, Navigate, RunTask, RunEnds, RunFails, WriteReaches,
                               Tick

\* A run that has started keeps the moment it was asked for, and a bundle shows what had been
\* made by then.
LEMMA ElsewhereRuns ==
  ASSUME SInv, Elsewhere
  PROVE  /\ RunsKnown'
         /\ \A r \in Run : runs[r].at # "idle" =>
              runs'[r].at # "idle" /\ runs'[r].asked = runs[r].asked
         /\ \A r \in Run, route \in Route : Navigate(r, route) =>
              inflight' = r /\ runs'[r].at # "idle" /\ runs'[r].asked = Now
<1>1. runs \in [Run -> Workflow] /\ \A r \in Run : RunKnown(runs[r])
  BY DEF SInv, TInv, TypeOK, RunsKnown
<1>2. \A m : Known(m) => Known(m)'
  BY ElsewhereGrows
<1>3. ASSUME NEW r \in Run, NEW route \in Route, Navigate(r, route)
      PROVE  /\ RunsKnown'
             /\ \A s \in Run : runs[s].at # "idle" =>
                  runs'[s].at # "idle" /\ runs'[s].asked = runs[s].asked
             /\ inflight' = r /\ runs'[r].at # "idle" /\ runs'[r].asked = Now
  <2> DEFINE m == Now
  <2>1. runs' = [runs EXCEPT ![r].at = "going", ![r].route = route, ![r].asked = m]
        /\ inflight' = r /\ runs[r].at = "idle"
    BY <1>3 DEF Navigate
  <2>2. Known(m)
    BY NowKnown DEF SInv
  <2> HIDE DEF m
  <2>3. runs[r] \in Workflow
    BY <1>1
  <2>4. /\ runs'[r].at = "going" /\ runs'[r].asked = m /\ runs'[r].bundle = runs[r].bundle
        /\ \A s \in Run : s # r => runs'[s] = runs[s]
    BY <1>1, <2>1, <2>3 DEF Workflow
  <2>5. ASSUME NEW s \in Run
        PROVE  RunKnown(runs[s])'
    <3>1. CASE s = r
      BY <1>1, <1>2, <2>1, <2>2, <2>4, <3>1 DEF RunKnown
    <3>2. CASE s # r
      BY <1>1, <1>2, <2>4, <3>2 DEF RunKnown
    <3> QED BY <3>1, <3>2
  <2>6. \A s \in Run : runs[s].at # "idle" =>
          runs'[s].at # "idle" /\ runs'[s].asked = runs[s].asked
    BY <2>1, <2>4
  <2> QED BY <2>1, <2>4, <2>5, <2>6 DEF m, RunsKnown
<1>4. ASSUME NEW r \in Run, RunTask(r)
      PROVE  /\ RunsKnown'
             /\ \A s \in Run : runs[s].at # "idle" =>
                  runs'[s].at # "idle" /\ runs'[s].asked = runs[s].asked
  <2>1. PICK b : /\ runs' = [runs EXCEPT ![r].at = "over", ![r].bundle = b]
                 /\ \A u \in Url : \A seen \in b[u] : runs[r].asked.made \subseteq seen
    <3>1. CASE RunEnds(r)
      BY <3>1, RunEndsTyped DEF SInv
    <3>2. CASE RunFails(r)
      <4>1. \A u \in Url : Nothing[u] = {}
        BY DEF Nothing
      <4> QED BY <3>2, <4>1 DEF RunFails
    <3> QED BY <1>4, <3>1, <3>2 DEF RunTask
  <2>2. runs[r] \in Workflow
    BY <1>1
  <2>3. /\ runs'[r].at = "over" /\ runs'[r].asked = runs[r].asked /\ runs'[r].bundle = b
        /\ \A s \in Run : s # r => runs'[s] = runs[s]
    BY <1>1, <2>1, <2>2 DEF Workflow
  <2>4. ASSUME NEW s \in Run
        PROVE  RunKnown(runs[s])'
    <3>1. CASE s = r
      BY <1>1, <1>2, <2>1, <2>3, <3>1 DEF RunKnown
    <3>2. CASE s # r
      BY <1>1, <1>2, <2>3, <3>2 DEF RunKnown
    <3> QED BY <3>1, <3>2
  <2>5. \A s \in Run : runs[s].at # "idle" =>
          runs'[s].at # "idle" /\ runs'[s].asked = runs[s].asked
    BY <2>3
  <2> QED BY <2>4, <2>5 DEF RunsKnown
<1>5. CASE UNCHANGED runs
  <2>1. ASSUME NEW s \in Run
        PROVE  RunKnown(runs[s])'
    BY <1>1, <1>2, <1>5 DEF RunKnown
  <2> QED BY <1>3, <1>5, <2>1 DEF RunsKnown
<1>6. (\E r \in Run, route \in Route : Navigate(r, route)) \/ (\E r \in Run : RunTask(r))
      \/ UNCHANGED runs
  BY DEF Elsewhere, SendWrite, WriteReaches, WriteAcked, Tick
<1> QED BY <1>3, <1>4, <1>5, <1>6

\* A step that touches no GET keeps the invariant.
LEMMA ElsewhereStep ==
  ASSUME SInv, TInv', Elsewhere
  PROVE  SInv'
<1>1. /\ now <= now' /\ made \subseteq made' /\ gets' = gets
      /\ In("acked") \subseteq In("acked")' /\ GetsHonest'
  BY ElsewhereGrows
<1>2. /\ RunsKnown'
      /\ \A r \in Run : runs[r].at # "idle" =>
           runs'[r].at # "idle" /\ runs'[r].asked = runs[r].asked
      /\ \A r \in Run, route \in Route : Navigate(r, route) =>
           inflight' = r /\ runs'[r].at # "idle" /\ runs'[r].asked = Now
  BY ElsewhereRuns
<1>3. \/ /\ Sent' = Sent /\ memo' = memo
         /\ inflight' = inflight \/ \E r \in Run, route \in Route : Navigate(r, route)
      \/ /\ memo' = [k \in Key |-> 0] /\ inflight' = 0
         /\ \A m : Known(m) => m.sent # Sent'
  BY SentChanges
<1>4. AckedMade'
  <2>1. CASE UNCHANGED writes
    <3>1. In("acked")' = In("acked")
      BY <2>1 DEF In
    <3> QED BY <1>1, <3>1 DEF SInv, AckedMade
  <2>2. ASSUME NEW w \in Write, SendWrite(w) \/ WriteAcked(w)
        PROVE  AckedMade'
    <3>1. writes \in [Write -> {"idle", "flying", "acked"}]
      BY DEF SInv, TInv, TypeOK
    <3>2. \/ In("acked")' \subseteq In("acked")
          \/ In("acked")' \subseteq In("acked") \cup {w} /\ w \in made
      BY <2>2, <3>1 DEF SendWrite, WriteAcked, In
    <3> QED BY <1>1, <3>2 DEF SInv, AckedMade
  <2> QED BY <2>1, <2>2 DEF Elsewhere, Navigate, RunTask, RunEnds, RunFails, WriteReaches, Tick
<1>5. InflightCurrent'
  <2>1. CASE \E r \in Run, route \in Route : Navigate(r, route)
    <3>1. Sent' = Sent
      BY <2>1 DEF Navigate, Sent, In
    <3>2. Now.sent = Sent
      BY NowKnown DEF SInv
    <3> QED BY <1>2, <2>1, <3>1, <3>2 DEF InflightCurrent
  <2>2. CASE inflight' = 0
    BY <2>2 DEF InflightCurrent
  <2>3. CASE Sent' = Sent /\ inflight' = inflight /\ inflight # 0
    <3>1. inflight \in Run
      BY <2>3, Bounds DEF SInv, TInv, TypeOK, Run
    <3> QED BY <1>2, <2>3, <3>1 DEF SInv, InflightCurrent
  <2> QED BY <1>3, <2>1, <2>2, <2>3
<1>6. MemoCurrent'
  BY <1>1, <1>3 DEF SInv, MemoCurrent
<1>7. GetsServed'
  <2>1. ASSUME NEW g \in Get
        PROVE  Served(gets[g])'
    <3>1. Served(gets[g])
      BY DEF SInv, GetsServed
    <3>2. gets[g].at = "held" => gets[g].run \in Run
      BY GetTyped, Bounds DEF SInv, Run, Waiting
    <3> QED BY <1>1, <1>2, <3>1, <3>2 DEF Served, Recent
  <2> QED BY <2>1 DEF GetsServed
<1>8. Alone'
  <2>1. SUFFICES ASSUME NEW g \in Get, NoneLost(gets[g].key), NEW m \in gets[g].asked
                 PROVE  gets[g].leads /\ ( \/ m.sent # Sent' \/ now' >= m.at + Window
                                           \/ memo'[gets[g].key] = g )
    BY <1>1 DEF Alone, NoneLost
  <2>2. gets[g].leads /\ (m.sent # Sent \/ now >= m.at + Window \/ memo[gets[g].key] = g)
    BY <2>1 DEF SInv, Alone
  <2>3. Known(m)
    BY DEF SInv, GetsHonest, Honest
  <2>4. now \in Int /\ now' \in Int /\ m.at \in Int /\ Window \in Int
    BY GetTyped, Bounds DEF SInv, TInv, TypeOK, Moment
  <2> QED BY <1>1, <1>3, <2>2, <2>3, <2>4
<1>9. OneRide'
  BY <1>1 DEF SInv, OneRide
<1> QED BY <1>1, <1>2, <1>4, <1>5, <1>6, <1>7, <1>8, <1>9 DEF SInv

-----------------------------------------------------------------------------
(* The theorems.                                                           *)

\* The invariant at the start.
LEMMA SInvInit == Init => SInv
<1> SUFFICES ASSUME Init
             PROVE  SInv
  OBVIOUS
<1>1. TInv
  BY TInvInit
<1> DEFINE k == CHOOSE k \in Key : TRUE
<1>2. \A g \in Get : gets[g] = NewXhr(k)
  BY DEF Init
<1> HIDE DEF k
<1>3. In("acked") = {} /\ now = 0
  BY DEF Init, In
<1>4. AckedMade
  BY <1>3 DEF AckedMade
<1>5. Known(Now)
  BY <1>1, <1>4, NowKnown
<1>6. ASSUME NEW r \in Run
      PROVE  runs[r].asked = Now /\ runs[r].bundle = Nothing
  <2> HIDE DEF Now, Nothing
  <2> QED BY DEF Init
<1>7. RunsKnown
  <2> HIDE DEF Now
  <2> QED BY <1>5, <1>6 DEF RunsKnown, RunKnown, Nothing
<1>8. InflightCurrent /\ MemoCurrent
  BY DEF Init, InflightCurrent, MemoCurrent
<1>9. /\ NewXhr(k).at = "idle" /\ NewXhr(k).asked = {} /\ NewXhr(k).answer = {}
      /\ NewXhr(k).issued.at = now /\ NewXhr(k).issued.acked = In("acked")
  BY DEF NewXhr
<1>10. GetsHonest
  BY <1>2, <1>3, <1>9 DEF GetsHonest, Honest
<1>11. GetsServed /\ Alone /\ OneRide
  BY <1>2, <1>9 DEF GetsServed, Served, Alone, OneRide
<1> QED BY <1>1, <1>4, <1>7, <1>8, <1>10, <1>11 DEF SInv

\* Every step keeps the invariant.
LEMMA SInvStep == SInv /\ [Next]_vars => SInv'
<1> SUFFICES ASSUME SInv, [Next]_vars
             PROVE  SInv'
  OBVIOUS
<1>1. TInv /\ TInv'
  BY TInvStep DEF SInv
<1>2. ASSUME NEW g \in Get, NEW x, Turns(g, x)
      PROVE  SInv'
  BY <1>1, <1>2, TurnStep
<1>3. CASE Elsewhere
  BY <1>1, <1>3, ElsewhereStep
<1>4. CASE UNCHANGED vars
  BY <1>4 DEF SInv, TInv, TypeOK, Waiting, AckedMade, RunsKnown, RunKnown, InflightCurrent,
     MemoCurrent, GetsHonest, Honest, GetsServed, Served, Recent, Alone, NoneLost, OneRide,
     Known, Sent, In, vars
<1> QED BY <1>1, <1>2, <1>3, <1>4, StepKinds

\* The invariant holds throughout.
LEMMA SInvAlways == Spec => []SInv
BY SInvInit, SInvStep, PTL DEF Spec

\* Identical GETs ride one network request: of two that went out within a window, with no
\* write between them, none went on its own, unless one like them failed
\* (adapt-shim.mts:112-113), for any number of keys, GETs, writes and runs.
THEOREM RidesOne == Spec => []OneRide
<1>1. SInv => OneRide
  BY DEF SInv
<1> QED BY <1>1, SInvAlways, PTL

\* The action of AnswersFresh.
FreshAnswers ==
  \A g \in Get : gets[g].at # "done" =>
    \A a \in gets'[g].answer : /\ gets[g].issued.at < a.asked.at + Window
                               /\ gets[g].issued.acked \subseteq a.seen \cup a.asked.flying

\* What the turn of a GET answers is fresh.
LEMMA TurnFresh ==
  ASSUME SInv, NEW g \in Get, NEW x, Turns(g, x)
  PROVE  FreshAnswers
<1>1. /\ gets' \in [Get -> Xhr] /\ gets'[g] = x
      /\ \A h \in Get : h # g => gets'[h] = gets[h]
  BY TurnEffect DEF Turns, SInv
<1>2. ASSUME NEW h \in Get, h # g, gets[h].at # "done"
      PROVE  gets'[h].answer = {}
  BY <1>1, <1>2 DEF SInv, TInv, Waiting
<1>3. ASSUME NEW a \in x.answer
      PROVE  /\ gets[g].issued.at < a.asked.at + Window
             /\ gets[g].issued.acked \subseteq a.seen \cup a.asked.flying
  <2>1. Answered(g, x)
    BY <1>3 DEF Turns, Holds, Follows, Leads, AsksAgain, Goes, Lost, TimedOut
  <2>2. FromBundle(g, a) \/ FromNetwork(g, a) \/ FromLeader(g, a)
    BY <1>3, <2>1 DEF Answered
  <2>3. a.asked.made \subseteq a.seen
    <3>1. Honest(gets[g])'
      BY TurnHonest DEF GetsHonest
    <3> QED BY <1>1, <1>3, <3>1 DEF Honest
  <2>4. Served(gets[g]) /\ Waiting(gets[g])
    BY DEF SInv, TInv, GetsServed
  <2>5. Recent(gets[g].issued, a.asked)
    <3>1. CASE FromBundle(g, a)
      BY <2>4, <3>1 DEF FromBundle, Served
    <3>2. CASE FromNetwork(g, a)
      BY <2>4, <3>2 DEF FromNetwork, Served
    <3>3. CASE FromLeader(g, a)
      <4>1. gets[g].leader \in Get
        BY <2>4, <3>3, GetTyped, Bounds DEF FromLeader, Waiting, Get, SInv
      <4>2. Honest(gets[gets[g].leader])
        BY <4>1 DEF SInv, GetsHonest
      <4> QED BY <2>4, <3>3, <4>2 DEF FromLeader, Served, Honest
    <3> QED BY <2>2, <3>1, <3>2, <3>3
  <2> QED BY <2>3, <2>5 DEF Recent
<1> QED BY <1>1, <1>2, <1>3 DEF FreshAnswers

\* What a step answers is fresh.
LEMMA StepFresh == SInv /\ [Next]_vars => FreshAnswers
<1> SUFFICES ASSUME SInv, [Next]_vars
             PROVE  FreshAnswers
  OBVIOUS
<1>1. ASSUME NEW g \in Get, NEW x, Turns(g, x)
      PROVE  FreshAnswers
  BY <1>1, TurnFresh
<1>2. CASE Elsewhere \/ UNCHANGED vars
  <2>1. gets' = gets
    BY <1>2, ElsewhereGrows DEF vars
  <2> QED BY <2>1 DEF SInv, TInv, Waiting, FreshAnswers
<1> QED BY <1>1, <1>2, StepKinds DEF SInv

\* What a GET is answered, by the network, a bundle or another GET, was asked less than a
\* window before the GET was sent, and shows every write acknowledged by then, other than those
\* in flight when the answer was asked for (adapt-shim.mts:177-181, 112-117).
THEOREM FreshlyAnswered == Spec => AnswersFresh
<1>1. SInv /\ [Next]_vars => [FreshAnswers]_vars
  BY StepFresh
<1>2. Spec => [][FreshAnswers]_vars
  BY <1>1, SInvAlways, PTL DEF Spec
<1> QED BY <1>2 DEF AnswersFresh, FreshAnswers

=============================================================================
