-------------------------------- MODULE Shim --------------------------------
(***************************************************************************)
(* The route shim of adapt-shim.mts: what stands between a page's XHRs and *)
(* its API.                                                                *)
(*                                                                         *)
(* A navigation starts the workflow of its route, a run next to the        *)
(* backend that returns a bundle of answers.  While that run is fresh the  *)
(* page's GETs are held for it: a GET the bundle has is answered from it,  *)
(* another goes on.  A GET that goes on rides with a request like it that  *)
(* was sent within the window, and replays what that one is answered; the  *)
(* memo holds the one to ride with, its leader.  A write forgets the memo  *)
(* and the run.                                                            *)
(*                                                                         *)
(* What a request sees of the backend is the set of writes made by then.   *)
(* The workflow itself is one run of Session.tla, here no more than reads  *)
(* that happen one after the other.  Requests that leave the page in other *)
(* ways than by XHR are not intercepted, and are not modelled.             *)
(***************************************************************************)
EXTENDS Integers, FiniteSets

CONSTANTS
  Url,          \* the paths of the API, normalised
  Key,          \* what makes two GETs identical: path, authorization, response type
  UrlOf,        \* the path of a key
  Route,        \* the routes of the page, with their parameters
  Bundled,      \* Bundled[r]: the paths the workflow of route r answers
  Window,       \* MEMO_MS and the freshness of a run, in ticks of the clock
  MaxGets,      \* bound: GETs the page sends
  MaxWrites,    \* bound: writes the page sends
  MaxRuns,      \* bound: workflows
  MaxAsks,      \* bound: GETs and workflows together
  MaxClock,     \* bound: ticks
  MaxFailures   \* bound: requests and workflows that fail

ASSUME KeysAssumption == Key # {} /\ UrlOf \in [Key -> Url]
ASSUME RoutesAssumption == Route # {} /\ Bundled \in [Route -> SUBSET Url]
ASSUME BoundsAssumption ==
  /\ {Window, MaxGets, MaxWrites, MaxRuns, MaxAsks, MaxClock, MaxFailures} \subseteq Nat
  /\ Window > 0

\* GETs, writes and runs are numbered as they are made; 0 is none.
Get == 1..MaxGets
Write == 1..MaxWrites
Run == 1..MaxRuns
Optional(S) == {X \in SUBSET S : \A x, y \in X : x = y}

VARIABLES
  now,       \* the clock
  writes,    \* writes[w]: what the page knows of write w
  made,      \* the backend: the writes it has made
  gets,      \* gets[g]: the XHR of GET g
  runs,      \* runs[r]: the r-th workflow
  inflight,  \* the run GETs are held for
  memo,      \* memo[k]: the leader of the GETs like k
  failures   \* how much has failed

vars == <<now, writes, made, gets, runs, inflight, memo, failures>>

\* When a request is made: the time, the writes the page has sent, those in flight and those
\* the backend has made.
Moment == [at : 0..MaxClock, sent : SUBSET Write, flying : SUBSET Write, made : SUBSET Write]
In(state) == {w \in Write : writes[w] = state}
Now == [at |-> now, sent |-> Write \ In("idle"), flying |-> In("flying"), made |-> made]

\* The backend reads at some time between the request and the answer.
Seen(moment) == {S \in SUBSET made : moment.made \subseteq S}

\* When the page asks for it: the time, and the writes it knows to be made.
Issue == [at : 0..MaxClock, acked : SUBSET Write]

\* An answer: when its request was made, and the writes it shows.
Answer == [asked : Moment, seen : SUBSET Write]

\* issued: when the page sent it.  asked: when it went to the network.
Xhr == [at : {"idle", "held", "asking", "following", "done"}, key : Key, issued : Issue,
        run : 0..MaxRuns, leader : 0..MaxGets, leads : BOOLEAN, asked : Optional(Moment),
        answer : Optional(Answer), status : {"none", "ok", "lost", "timeout"}]
Workflow == [at : {"idle", "going", "over"}, route : Route, asked : Moment,
             bundle : [Url -> Optional(SUBSET Write)]]

Nothing == [u \in Url |-> {}]
NewXhr(k) == [at |-> "idle", key |-> k, issued |-> [at |-> now, acked |-> In("acked")],
              run |-> 0, leader |-> 0, leads |-> FALSE, asked |-> {}, answer |-> {},
              status |-> "none"]

Init ==
  /\ now = 0 /\ failures = 0
  /\ writes = [w \in Write |-> "idle"] /\ made = {}
  /\ gets = [g \in Get |-> NewXhr(CHOOSE k \in Key : TRUE)]
  /\ runs = [r \in Run |-> [at |-> "idle", route |-> CHOOSE r0 \in Route : TRUE,
                            asked |-> Now, bundle |-> Nothing]]
  /\ inflight = 0
  /\ memo = [k \in Key |-> 0]

Failing == failures < MaxFailures /\ failures' = failures + 1
Asks == Cardinality({g \in Get : gets[g].at # "idle"})
          + Cardinality({r \in Run : runs[r].at # "idle"})
Within(moment) == now < moment.at + Window

------------------------------------------------------------------------------
(* The workflow of a route.                                                *)

\* The run GETs are held for, while it is fresh.
Holding == inflight # 0 /\ Within(runs[inflight].asked)

\* A link click, the router and its redirects name one navigation more than once: the same
\* route within the window is not run again.
Navigate(r, route) ==
  /\ Asks < MaxAsks
  /\ runs[r].at = "idle" /\ \A s \in 1..(r - 1) : runs[s].at # "idle"
  /\ ~(Holding /\ runs[inflight].route = route)
  /\ runs' = [runs EXCEPT ![r].at = "going", ![r].route = route, ![r].asked = Now]
  /\ inflight' = r
  /\ UNCHANGED <<now, writes, made, gets, memo, failures>>

RunEnds(r) ==
  /\ runs[r].at = "going"
  /\ \E bundle \in [Bundled[runs[r].route] -> Seen(runs[r].asked)] :
       runs' = [runs EXCEPT
         ![r].at = "over",
         ![r].bundle = [u \in Url |-> IF u \in DOMAIN bundle THEN {bundle[u]} ELSE {}]]
  /\ UNCHANGED <<now, writes, made, gets, inflight, memo, failures>>

\* A workflow that fails is one that answers nothing.
RunFails(r) ==
  /\ runs[r].at = "going" /\ Failing
  /\ runs' = [runs EXCEPT ![r].at = "over", ![r].bundle = Nothing]
  /\ UNCHANGED <<now, writes, made, gets, inflight, memo>>

------------------------------------------------------------------------------
(* A GET.                                                                  *)

\* The request to ride with.  Variant: only once it has been answered.
FreshOnceAnswered(k) ==
  memo[k] # 0 /\ \A m \in gets[memo[k]].asked : Within(m) /\ gets[memo[k]].at = "done"
Fresh(k) == memo[k] # 0 /\ \A m \in gets[memo[k]].asked : Within(m)

Ask(xhr, leads) == [xhr EXCEPT !.at = "asking", !.run = 0, !.leader = 0, !.leads = leads,
                               !.asked = {Now}]

SendViaMemo(g, xhr) ==
  IF Fresh(xhr.key)
  THEN /\ gets' = [gets EXCEPT ![g] = [xhr EXCEPT !.at = "following", !.run = 0,
                                                    !.leader = memo[xhr.key]]]
       /\ UNCHANGED memo
  ELSE /\ gets' = [gets EXCEPT ![g] = Ask(xhr, TRUE)]
       /\ memo' = [memo EXCEPT ![xhr.key] = g]

Send(g, k) ==
  /\ Asks < MaxAsks
  /\ gets[g].at = "idle" /\ \A h \in 1..(g - 1) : gets[h].at # "idle"
  /\ IF Holding
     THEN /\ gets' = [gets EXCEPT ![g] = [NewXhr(k) EXCEPT !.at = "held", !.run = inflight]]
          /\ UNCHANGED memo
     ELSE SendViaMemo(g, NewXhr(k))
  /\ UNCHANGED <<now, writes, made, runs, inflight, failures>>

\* An XHR that is done keeps its answer and, of a leader, what the memo needs: the rest no
\* longer matters.
Done(xhr, status, answer) ==
  [NewXhr(xhr.key) EXCEPT !.at = "done", !.issued = [at |-> 0, acked |-> {}], !.leads = xhr.leads,
     !.asked = IF xhr.leads THEN xhr.asked ELSE {}, !.status = status, !.answer = answer]

\* The run a held GET waits for is over.  Variant: and it is still the one GETs are held for.
LandedAsCurrent(g) == gets[g].run = inflight /\ runs[inflight].at = "over"
Landed(g) == runs[gets[g].run].at = "over"

\* It is a hit or a miss.  Nothing looks at the time, nor at what has been written since.
Land(g) ==
  /\ gets[g].at = "held" /\ Landed(g)
  /\ LET run == runs[gets[g].run]
         hit == run.bundle[UrlOf[gets[g].key]]
     IN  IF hit = {}
         THEN SendViaMemo(g, gets[g])
         ELSE /\ \E seen \in hit :
                   gets' = [gets EXCEPT
                     ![g] = Done(@, "ok", {[asked |-> run.asked, seen |-> seen]})]
              /\ UNCHANGED memo
  /\ UNCHANGED <<now, writes, made, runs, inflight, failures>>

Load(g) ==
  /\ gets[g].at = "asking"
  /\ \E asked \in gets[g].asked : \E seen \in Seen(asked) :
       gets' = [gets EXCEPT ![g] = Done(@, "ok", {[asked |-> asked, seen |-> seen]})]
  /\ UNCHANGED <<now, writes, made, runs, inflight, memo, failures>>

\* A leader that fails takes the entry of its key out of the memo, whoever leads it by now.
\* Variant: it stays there.
MemoAsBefore(g) == memo
MemoWithout(g) == IF gets[g].leads THEN [memo EXCEPT ![gets[g].key] = 0] ELSE memo

\* An error, or an abort by the page.
Fails(g) ==
  /\ gets[g].at = "asking" /\ Failing
  /\ gets' = [gets EXCEPT ![g] = Done(@, "lost", {})]
  /\ memo' = MemoWithout(g)
  /\ UNCHANGED <<now, writes, made, runs, inflight>>

\* A timeout the page has set on the XHR: nothing listens to it.
TimesOut(g) ==
  /\ gets[g].at = "asking" /\ Failing
  /\ gets' = [gets EXCEPT ![g] = Done(@, "timeout", {})]
  /\ UNCHANGED <<now, writes, made, runs, inflight, memo>>

\* A follower replays the answer of its leader, or goes on its own when that one has failed.
Replay(g) ==
  /\ gets[g].at = "following"
  /\ \E answer \in gets[gets[g].leader].answer :
       gets' = [gets EXCEPT ![g] = Done(@, "ok", {answer})]
  /\ UNCHANGED <<now, writes, made, runs, inflight, memo, failures>>

FallBack(g) ==
  /\ gets[g].at = "following" /\ gets[gets[g].leader].status = "lost"
  /\ gets' = [gets EXCEPT ![g] = Ask(@, FALSE)]
  /\ UNCHANGED <<now, writes, made, runs, inflight, memo, failures>>

------------------------------------------------------------------------------
(* A write.                                                                *)

\* What a write forgets.  Variant: the run only.
RunOnly == inflight' = 0 /\ UNCHANGED memo
Invalidate == memo' = [k \in Key |-> 0] /\ inflight' = 0

\* What becomes of a write is nothing to the shim: one that fails is in flight for ever.
SendWrite(w) ==
  /\ writes[w] = "idle" /\ \A v \in 1..(w - 1) : writes[v] # "idle"
  /\ writes' = [writes EXCEPT ![w] = "flying"]
  /\ Invalidate
  /\ UNCHANGED <<now, made, gets, runs, failures>>

WriteReaches(w) ==
  /\ writes[w] = "flying" /\ w \notin made
  /\ made' = made \cup {w}
  /\ UNCHANGED <<now, writes, gets, runs, inflight, memo, failures>>

WriteAcked(w) ==
  /\ writes[w] = "flying" /\ w \in made
  /\ writes' = [writes EXCEPT ![w] = "acked"]
  /\ UNCHANGED <<now, made, gets, runs, inflight, memo, failures>>

Tick ==
  /\ now < MaxClock
  /\ now' = now + 1
  /\ UNCHANGED <<writes, made, gets, runs, inflight, memo, failures>>

------------------------------------------------------------------------------
\* The reactions to a settled promise run before the next task, though not before what the page
\* does in the task that settled it or sent the GET.
Due(g) == \/ gets[g].at = "held" /\ Landed(g)
          \/ gets[g].at = "following" /\ gets[gets[g].leader].status \in {"ok", "lost"}
Quiet == \A g \in Get : ~Due(g)
Reaction(g) == Land(g) \/ Replay(g) \/ FallBack(g)

Page == \/ \E g \in Get, k \in Key : Send(g, k)
        \/ \E w \in Write : SendWrite(w)
        \/ \E r \in Run, route \in Route : Navigate(r, route)
GetTask(g) == Load(g) \/ Fails(g) \/ TimesOut(g)
RunTask(r) == RunEnds(r) \/ RunFails(r)
Task == \/ \E g \in Get : GetTask(g)
        \/ \E r \in Run : RunTask(r)
        \/ \E w \in Write : WriteReaches(w) \/ WriteAcked(w)
        \/ Tick

Next == Page \/ (\E g \in Get : Reaction(g)) \/ (Task /\ Quiet)

Spec == Init /\ [][Next]_vars

\* A workflow ends (what Session.tla promises of it), a request is answered or fails, and the
\* reactions to a promise run.  A behaviour has finitely many such steps, so that each is taken
\* in the end.  Nothing has to fail, and the page need do nothing.
Progress == \/ \E g \in Get : Reaction(g)
            \/ Quiet /\ ((\E g \in Get : GetTask(g)) \/ (\E r \in Run : RunTask(r)))
Fairness == WF_vars(Progress)

FairSpec == Spec /\ Fairness

------------------------------------------------------------------------------
TypeOK ==
  /\ now \in 0..MaxClock /\ failures \in 0..MaxFailures
  /\ writes \in [Write -> {"idle", "flying", "acked"}] /\ made \subseteq Write
  /\ gets \in [Get -> Xhr]
  /\ runs \in [Run -> Workflow]
  /\ inflight \in 0..MaxRuns
  /\ memo \in [Key -> 0..MaxGets]
  /\ \A k \in Key : memo[k] # 0 =>
       gets[memo[k]].leads /\ gets[memo[k]].key = k /\ gets[memo[k]].status # "lost"

\* What a GET is answered, by the network, a bundle or another GET's answer, was asked less
\* than a window before the GET was sent, and shows every write the page had then had
\* acknowledged, other than those in flight when the answer was asked for
\* (adapt-shim.mts:177-181, 112-117).
AnswersFresh ==
  [][\A g \in Get : gets[g].at # "done" =>
       \A a \in gets'[g].answer :
         /\ gets[g].issued.at < a.asked.at + Window
         /\ gets[g].issued.acked \subseteq a.seen \cup a.asked.flying]_vars

\* Identical GETs ride one network request: of two that went out within a window, with no
\* write between them, none went on its own, unless one like them failed
\* (adapt-shim.mts:112-113).
OneRide ==
  \A g, h \in Get :
    (/\ g # h /\ gets[g].key = gets[h].key
     /\ \A f \in Get : gets[f].key = gets[g].key => gets[f].status # "lost")
    => \A m \in gets[g].asked, n \in gets[h].asked :
         m.sent # n.sent \/ n.at >= m.at + Window \/ m.at >= n.at + Window

\* Behind a request that timed out.
Stranded(g) == gets[g].at = "following" /\ gets[gets[g].leader].status = "timeout"

\* From some time on no GET waits: each is answered or fails, whatever happens to the run it is
\* held for and to the request it rides with, but for a timeout of the latter, which nothing
\* listens to (adapt-shim.mts:84, 157).
EverySettles == <>[](\A g \in Get : gets[g].at \in {"idle", "done"} \/ Stranded(g))

=============================================================================
