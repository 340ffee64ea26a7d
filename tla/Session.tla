------------------------------- MODULE Session -------------------------------
(***************************************************************************)
(* The session host of host.mts on both tiers, with the pump of            *)
(* runtime.mts: how the continuation of a session moves between the tiers. *)
(*                                                                         *)
(* A program is a sequence of segments.  A segment may need the tier where *)
(* a handle it reads lives (the stop rule), and ends at a touch of a       *)
(* resource that one of the tiers owns; the touch may fail, and a compiled *)
(* try/catch around it may catch the failure.  A session is driven from    *)
(* its home tier (run, call or runLocal): at a park the driver ships the   *)
(* continuation to the peer or fetches the one value; the peer answers     *)
(* done, suspend or error.  A continuation that ships may leave big locals *)
(* behind in the heap of the tier that ships it, tagged with the session.  *)
(* Every session rides the same connection, which may break.               *)
(*                                                                         *)
(* Requests are matched with replies, and rejected when the connection     *)
(* closes, by the peer (module Peer).                                      *)
(***************************************************************************)
EXTENDS Naturals, Sequences, FiniteSets

CONSTANTS
  Session,    \* the sessions
  Home,       \* Home[s]: the tier session s is driven from
  Casts       \* who shares the connection: for each session the program it runs, a
              \* sequence of Segment, and the way it is driven ("run", "call", "local");
              \* a session with an empty program is never called

Tier == {"browser", "server"}
Far(t) == IF t = "browser" THEN "server" ELSE "browser"

\* needs: the tiers the segment can run on; pinned: runLocal may not let the touch cross.
Segment == [owner : Tier, guarded : BOOLEAN, needs : {Tier, {"browser"}, {"server"}},
            pinned : BOOLEAN]

ASSUME CastsAssumption ==
  Casts \subseteq [program : [Session -> Seq(Segment)],
                   mode : [Session -> {"run", "call", "local"}]]
ASSUME HomeAssumption == Home \in [Session -> Tier]

VARIABLES
  program,    \* program[s]: what session s runs
  mode,       \* mode[s]: which of run, call and runLocal drives it
  driver,     \* driver[s]: the driving call on the home tier
  remote,     \* remote[s]: the handler at work for s on the far tier
  toward,     \* toward[t]: the frames in flight to tier t
  held,       \* held[t]: the sessions with masters in the heap of tier t
  up,         \* the connection carries frames
  closed,     \* closed[t]: tier t has had its close event
  log,        \* log[s]: the touches that happened: which, with what outcome, on which tier
  result,     \* result[s]: what the driving call settled with
  saw         \* history: saw[s], what the program saw of its touches: how each went, and from where

vars == <<program, mode, driver, remote, toward, held, up, closed, log, result, saw>>

\* A continuation: the segment it is at and what it waits for: "step" for nothing, "touch" for
\* its segment's touch to be serviced, "home" for a tier on which the segment may run; "raise"
\* is the error of its touch on the way out of the program.
Continuation(s) == [pc : 1..(Len(program[s]) + 1), for : {"step", "touch", "home", "raise"}]
Start == [pc |-> 1, for |-> "step"]
Segm(s, k) == program[s][k.pc]

\* Variant: the continuation skips the next touch.
SkipsOne(k) == [pc |-> k.pc + 2, for |-> "step"]
After(k) == [pc |-> k.pc + 1, for |-> "step"]

Idle == [at |-> "idle"]
Over == [at |-> "over"]
Pumping(k) == [at |-> "pump", k |-> k, carried |-> "nothing"]
Resuming(k) == [at |-> "resume", k |-> k]       \* awaits the reply to a start or a resume
Fetching(k) == [at |-> "exec", k |-> k]         \* awaits the reply to an exec

Message(s) ==
  [kind : {"resume", "suspend", "exec"}, s : {s}, k : Continuation(s)]
    \cup [kind : {"done", "error", "release"}, s : {s}]
    \cup [kind : {"fetched"}, s : {s}, ok : BOOLEAN]

TypeOK ==
  /\ [program |-> program, mode |-> mode] \in Casts
  /\ \A s \in Session :
       /\ \/ driver[s] \in {Idle, Over}
          \/ driver[s].at \in {"pump", "resume", "exec"} /\ driver[s].k \in Continuation(s)
       /\ driver[s].at = "pump" => driver[s].carried \in {"nothing", "value", "error"}
       /\ \/ remote[s] = Idle
          \/ remote[s].at \in {"pump", "exec"} /\ remote[s].k \in Continuation(s)
       /\ log[s] \in Seq([touch : DOMAIN program[s], ok : BOOLEAN, at : Tier])
       /\ saw[s] \in Seq([ok : BOOLEAN, from : {"touch", "unsent", "lost", "before"}])
       /\ Len(saw[s]) <= Len(program[s])
  /\ \A t \in Tier : \A i \in DOMAIN toward[t] : toward[t][i] \in Message(toward[t][i].s)
  /\ held \in [Tier -> SUBSET Session]
  /\ up \in BOOLEAN
  /\ closed \in [Tier -> BOOLEAN]
  /\ result \in [Session -> {"none", "value", "error"}]

Init ==
  /\ \E c \in Casts : program = c.program /\ mode = c.mode
  /\ driver = [s \in Session |-> Idle]
  /\ remote = [s \in Session |-> Idle]
  /\ toward = [t \in Tier |-> <<>>]
  /\ held = [t \in Tier |-> {}]
  /\ up = TRUE
  /\ closed = [t \in Tier |-> FALSE]
  /\ log = [s \in Session |-> <<>>]
  /\ result = [s \in Session |-> "none"]
  /\ saw = [s \in Session |-> <<>>]

Sent(t, messages) == IF up THEN [toward EXCEPT ![t] = @ \o messages] ELSE toward

\* A tier ships a continuation: a local that is too big to travel stays in its heap.
Excises(t, s) == \E kept \in SUBSET {s} : held' = [held EXCEPT ![t] = @ \cup kept]

-----------------------------------------------------------------------------
(* The pump: servicing a touch and parking                                 *)

RunsOn(s, k, t) == t \in Segm(s, k).needs

Finished(s, k) == k.for # "raise" /\ k.pc > Len(program[s])

\* The touch of the segment is serviced on tier t: the continuation was parked for it and has
\* arrived, or the segment ran here and its resource is owned here.
Serviced(s, k, t) ==
  /\ k.pc <= Len(program[s])
  /\ \/ k.for = "touch"
     \/ k.for \in {"step", "home"} /\ RunsOn(s, k, t) /\ Segm(s, k).owner = t

\* Otherwise the pump hands the continuation back, parked for what it needs elsewhere.
Parks(s, k, t) ==
  /\ k.for \in {"step", "home"}
  /\ ~Finished(s, k)
  /\ ~Serviced(s, k, t)
Parked(s, k, t) == [k EXCEPT !.for = IF RunsOn(s, k, t) THEN "touch" ELSE "home"]

\* The outcome enters the program: it goes on, in the catch after a failure if there is one,
\* or the error leaves it.
Outcome(s, k, ok) ==
  IF ok \/ Segm(s, k).guarded THEN After(k) ELSE [k EXCEPT !.for = "raise"]

Happens(s, k, ok, t) ==
  log' = [log EXCEPT ![s] = Append(@, [touch |-> k.pc, ok |-> ok, at |-> t])]

\* The program sees the answer of its touch, or has one in its place: of a touch that was
\* not sent, of one whose answer is lost, or of the touch before.
Sees(s, ok, from) == saw' = [saw EXCEPT ![s] = Append(@, [ok |-> ok, from |-> from])]

Record(s, k, ok, t) == Happens(s, k, ok, t) /\ Sees(s, ok, "touch")

-----------------------------------------------------------------------------
(* The driving call: run, call and runLocal, with drive and settle         *)

Drives(s, k) == driver[s].at = "pump" /\ driver[s].k = k
fixed == <<program, mode>>
link == <<up, closed>>

\* Variant: the peer is not told that the session has ended.
ToldNobody(s) == <<>>
Told(s) == <<[kind |-> "release", s |-> s]>>

\* The driving call settles.  run and call then release the session's masters on both tiers;
\* a release that the closed peer rejects is ignored.
Settle(s, r) ==
  /\ result' = [result EXCEPT ![s] = r]
  /\ driver' = [driver EXCEPT ![s] = Over]
  /\ IF mode[s] = "local" THEN UNCHANGED held
     ELSE held' = [held EXCEPT ![Home[s]] = @ \ {s}]
  /\ toward' = IF mode[s] = "local" \/ closed[Home[s]] THEN toward
               ELSE Sent(Far(Home[s]), Told(s))
  /\ UNCHANGED <<fixed, link, remote, log, saw>>

Begin(s) ==
  /\ driver[s] = Idle /\ program[s] # <<>>
  /\ mode[s] # "call"
  /\ driver' = [driver EXCEPT ![s] = Pumping(Start)]
  /\ UNCHANGED <<fixed, link, remote, toward, held, log, result, saw>>

BeginCall(s) ==
  /\ driver[s] = Idle /\ program[s] # <<>>
  /\ mode[s] = "call"
  /\ ~closed[Home[s]]
  /\ driver' = [driver EXCEPT ![s] = Resuming(Start)]
  /\ toward' = Sent(Far(Home[s]), <<[kind |-> "resume", s |-> s, k |-> Start]>>)
  /\ UNCHANGED <<fixed, link, remote, held, log, result, saw>>

BeginCallClosed(s) ==
  /\ driver[s] = Idle /\ program[s] # <<>>
  /\ mode[s] = "call"
  /\ closed[Home[s]]
  /\ Settle(s, "error")

\* Variant: drive keeps the answer for the whole of a pump call, as runLocal does.
Keeping(s, k, ok) ==
  [Pumping(Outcome(s, k, ok)) EXCEPT !.carried = IF ok THEN "value" ELSE "error"]

\* The driver pumps on with an answer that it fetched.  drive hands it to the touch that it
\* parked for; runLocal hands it to every touch of its own tier, until the pump parks again.
PumpingWith(s, k, ok) ==
  [Pumping(Outcome(s, k, ok)) EXCEPT
     !.carried = IF mode[s] # "local" THEN @ ELSE IF ok THEN "value" ELSE "error"]

\* In runLocal a touch that may not cross happens on the home tier, like a fetch.
StaysHome(s, k) ==
  /\ mode[s] = "local"
  /\ Parks(s, k, Home[s]) /\ Parked(s, k, Home[s]).for = "touch"
  /\ Segm(s, k).pinned

\* A touch is serviced on the home tier: one it owns, one parked for it, or one that stays.
DriverServices(s) ==
  \E k \in Continuation(s), ok \in BOOLEAN :
    /\ Drives(s, k)
    /\ \/ /\ Serviced(s, k, Home[s]) /\ driver[s].carried = "nothing"
          /\ driver' = [driver EXCEPT ![s] = Pumping(Outcome(s, k, ok))]
       \/ /\ StaysHome(s, k)
          /\ driver' = [driver EXCEPT ![s] = PumpingWith(s, k, ok)]
    /\ Record(s, k, ok, Home[s])
    /\ UNCHANGED <<fixed, link, remote, toward, held, result>>

\* A touch of the home tier is answered with what runLocal carries, and does not happen.
DriverRepeats(s) ==
  \E k \in Continuation(s), ok \in BOOLEAN :
    /\ Drives(s, k)
    /\ Serviced(s, k, Home[s]) /\ driver[s].carried = IF ok THEN "value" ELSE "error"
    /\ Sees(s, ok, "before")
    /\ driver' = [driver EXCEPT ![s] = PumpingWith(s, k, ok)]
    /\ UNCHANGED <<fixed, link, remote, toward, held, log, result>>

\* The continuation has parked at home for something that has to cross.
Leaves(s, k) ==
  /\ Drives(s, k)
  /\ Parks(s, k, Home[s])
  /\ ~StaysHome(s, k)

\* drive prices a fetch by encoding the continuation, which excises as shipping it would.
Prices(s) == IF mode[s] = "local" THEN UNCHANGED held ELSE Excises(Home[s], s)

Fetch(s) ==
  \E k \in Continuation(s) :
    /\ Leaves(s, k)
    /\ Parked(s, k, Home[s]).for = "touch"
    /\ ~closed[Home[s]]
    /\ Prices(s)
    /\ driver' = [driver EXCEPT ![s] = Fetching(Parked(s, k, Home[s]))]
    /\ toward' = Sent(Far(Home[s]), <<[kind |-> "exec", s |-> s, k |-> Parked(s, k, Home[s])]>>)
    /\ UNCHANGED <<fixed, link, remote, log, result, saw>>

\* The program goes on with an error in place of a touch's answer.
Carry(s, k, from) ==
  /\ driver' = [driver EXCEPT ![s] = PumpingWith(s, k, FALSE)]
  /\ Sees(s, FALSE, from)
  /\ UNCHANGED <<fixed, link, remote, toward, log, result>>

\* The touch never leaves: the peer is closed, the arguments cannot be encoded, or runLocal's
\* map of the request throws.
FetchFails(s) ==
  \E k \in Continuation(s) :
    /\ Leaves(s, k)
    /\ Parked(s, k, Home[s]).for = "touch"
    /\ Prices(s)
    /\ Carry(s, k, "unsent")

\* runLocal leaves its big locals in a heap of its own, that ends with it.
Migrate(s) ==
  \E k \in Continuation(s) :
    /\ Leaves(s, k)
    /\ ~closed[Home[s]]
    /\ Prices(s)
    /\ driver' = [driver EXCEPT ![s] = Resuming(Parked(s, k, Home[s]))]
    /\ toward' = Sent(Far(Home[s]), <<[kind |-> "resume", s |-> s, k |-> Parked(s, k, Home[s])]>>)
    /\ UNCHANGED <<fixed, link, remote, log, result, saw>>

\* The peer is closed, or the continuation cannot be encoded.
MigrateFails(s) ==
  /\ \E k \in Continuation(s) : Leaves(s, k)
  /\ Settle(s, "error")

DriverReturns(s) ==
  /\ \E k \in Continuation(s) : Drives(s, k) /\ Finished(s, k)
  /\ Settle(s, "value")

DriverThrows(s) ==
  /\ \E k \in Continuation(s) : Drives(s, k) /\ k.for = "raise"
  /\ Settle(s, "error")

\* Variant: the close event rejects fetches only.
FetchesOnly == {"exec"}
Awaiting == {"resume", "exec"}

\* The close event has rejected the request the driver awaits: a fetch's becomes an error in
\* the program, that of a start or a resume ends the session.
Rejected(s) ==
  /\ closed[Home[s]]
  /\ driver[s].at \in Awaiting
  /\ IF driver[s].at = "exec" THEN Carry(s, driver[s].k, "lost") /\ UNCHANGED held
     ELSE Settle(s, "error")

-----------------------------------------------------------------------------
(* The replies                                                             *)

Arrives(t, kinds, s) ==
  /\ ~closed[t]
  /\ toward[t] # <<>>
  /\ Head(toward[t]).kind \in kinds
  /\ Head(toward[t]).s = s
Taken(t) == [toward EXCEPT ![t] = Tail(@)]

ReplySuspend(s) ==
  /\ Arrives(Home[s], {"suspend"}, s)
  /\ driver' = [driver EXCEPT ![s] = Pumping(Head(toward[Home[s]]).k)]
  /\ toward' = Taken(Home[s])
  /\ UNCHANGED <<fixed, link, remote, held, log, result, saw>>

ReplyFetched(s) ==
  /\ Arrives(Home[s], {"fetched"}, s)
  /\ LET ok == Head(toward[Home[s]]).ok
     IN  /\ driver' = [driver EXCEPT ![s] = PumpingWith(s, driver[s].k, ok)]
         /\ Sees(s, ok, "touch")
  /\ toward' = Taken(Home[s])
  /\ UNCHANGED <<fixed, link, remote, held, log, result>>

\* The far tier finished the program.
ReplyFinal(s) ==
  /\ Arrives(Home[s], {"done", "error"}, s)
  /\ result' = [result EXCEPT ![s] =
                  IF Head(toward[Home[s]]).kind = "done" THEN "value" ELSE "error"]
  /\ driver' = [driver EXCEPT ![s] = Over]
  /\ IF mode[s] = "local" THEN toward' = Taken(Home[s]) /\ UNCHANGED held
     ELSE /\ held' = [held EXCEPT ![Home[s]] = @ \ {s}]
          /\ toward' = [Taken(Home[s]) EXCEPT ![Far(Home[s])] =
                          IF up THEN @ \o Told(s) ELSE @]
  /\ UNCHANGED <<fixed, link, remote, log, saw>>

-----------------------------------------------------------------------------
(* The answering tier: handleStart, handleResume, handleExec and step      *)

Away(s) == Far(Home[s])
Works(s, k) == remote[s] = Pumping(k)

ReceiveResume(s) ==
  /\ Arrives(Away(s), {"resume"}, s)
  /\ remote' = [remote EXCEPT ![s] = Pumping(Head(toward[Away(s)]).k)]
  /\ toward' = Taken(Away(s))
  /\ UNCHANGED <<fixed, link, driver, held, log, result, saw>>

ReceiveExec(s) ==
  /\ Arrives(Away(s), {"exec"}, s)
  /\ remote' = [remote EXCEPT ![s] = Fetching(Head(toward[Away(s)]).k)]
  /\ toward' = Taken(Away(s))
  /\ UNCHANGED <<fixed, link, driver, held, log, result, saw>>

ReceiveRelease(s) ==
  /\ Arrives(Away(s), {"release"}, s)
  /\ held' = [held EXCEPT ![Away(s)] = @ \ {s}]
  /\ toward' = Taken(Away(s))
  /\ UNCHANGED <<fixed, link, driver, remote, log, result, saw>>

RemoteServices(s) ==
  \E k \in Continuation(s), ok \in BOOLEAN :
    /\ Works(s, k)
    /\ Serviced(s, k, Away(s))
    /\ Record(s, k, ok, Away(s))
    /\ remote' = [remote EXCEPT ![s] = Pumping(Outcome(s, k, ok))]
    /\ UNCHANGED <<fixed, link, driver, toward, held, result>>

RemoteExecs(s) ==
  /\ remote[s].at = "exec"
  /\ \E ok \in BOOLEAN :
       /\ Happens(s, remote[s].k, ok, Away(s))
       /\ toward' = Sent(Home[s], <<[kind |-> "fetched", s |-> s, ok |-> ok]>>)
  /\ remote' = [remote EXCEPT ![s] = Idle]
  /\ UNCHANGED <<fixed, link, driver, held, result, saw>>

\* Variant: the tier that answers keeps the continuation it sends.
Kept(s) == remote
Gone(s) == [remote EXCEPT ![s] = Idle]

RemoteAnswers(s, m) ==
  /\ remote' = Gone(s)
  /\ toward' = Sent(Home[s], <<m>>)
  /\ UNCHANGED <<fixed, link, driver, log, result, saw>>

RemoteSuspends(s) ==
  \E k \in Continuation(s) :
    /\ Works(s, k)
    /\ Parks(s, k, Away(s))
    /\ Excises(Away(s), s)
    /\ RemoteAnswers(s, [kind |-> "suspend", s |-> s, k |-> Parked(s, k, Away(s))])

RemoteReturns(s) ==
  /\ \E k \in Continuation(s) : Works(s, k) /\ Finished(s, k)
  /\ RemoteAnswers(s, [kind |-> "done", s |-> s])
  /\ UNCHANGED held

\* An error leaves the program, or the continuation cannot be encoded, with locals of it
\* excised by then.
RemoteFails(s) ==
  /\ \E k \in Continuation(s) :
       /\ Works(s, k)
       /\ \/ k.for = "raise" /\ UNCHANGED held
          \/ Parks(s, k, Away(s)) /\ Excises(Away(s), s)
  /\ RemoteAnswers(s, [kind |-> "error", s |-> s])

-----------------------------------------------------------------------------
(* The connection                                                          *)

LinkDown ==
  /\ up
  /\ up' = FALSE
  /\ UNCHANGED <<fixed, closed, driver, remote, toward, held, log, result, saw>>

CloseEvent(t) ==
  /\ ~up
  /\ ~closed[t]
  /\ closed' = [closed EXCEPT ![t] = TRUE]
  /\ toward' = [toward EXCEPT ![t] = <<>>]
  /\ UNCHANGED <<fixed, up, driver, remote, held, log, result, saw>>

-----------------------------------------------------------------------------

DriverStep(s) ==
  \/ DriverServices(s)
  \/ DriverRepeats(s)
  \/ Fetch(s)
  \/ FetchFails(s)
  \/ Migrate(s)
  \/ MigrateFails(s)
  \/ DriverReturns(s)
  \/ DriverThrows(s)

RemoteStep(s) ==
  \/ RemoteServices(s)
  \/ RemoteExecs(s)
  \/ RemoteSuspends(s)
  \/ RemoteReturns(s)
  \/ RemoteFails(s)

Receive(s) ==
  \/ ReplySuspend(s)
  \/ ReplyFetched(s)
  \/ ReplyFinal(s)
  \/ ReceiveResume(s)
  \/ ReceiveExec(s)
  \/ ReceiveRelease(s)

Next ==
  \/ \E s \in Session :
       \/ Begin(s)
       \/ BeginCall(s)
       \/ BeginCallClosed(s)
       \/ DriverStep(s)
       \/ RemoteStep(s)
       \/ Receive(s)
       \/ Rejected(s)
  \/ LinkDown
  \/ \E t \in Tier : CloseEvent(t)

Spec == Init /\ [][Next]_vars

\* The pumps run, a resource's promise settles (an assumption on the application), the peer
\* delivers what has arrived and rejects what it awaits once the connection is closed.
Fairness ==
  /\ \A s \in Session : /\ WF_vars(DriverStep(s))
                        /\ WF_vars(RemoteStep(s))
                        /\ WF_vars(Receive(s))
                        /\ WF_vars(Rejected(s))
  /\ \A t \in Tier : WF_vars(CloseEvent(t))

FairSpec == Spec /\ Fairness

-----------------------------------------------------------------------------
(* Properties                                                              *)

\* However the driver places it, a session is its program, run in order: each touch happens at
\* most once and where its resource lives, and the program sees what came of it (Workflow says
\* what a broken connection may do to that, and what runLocal does).
Promise == INSTANCE Workflow
KeepsPromise == Promise!Spec

Carries(s, m) == m.s = s /\ m.kind \in {"resume", "suspend", "done", "error"}
Holders(s) ==
  {h \in {"driver"} : driver[s].at \in {"pump", "exec"}}
    \cup {h \in {"remote"} : remote[s].at = "pump"}
    \cup {at \in UNION {{t} \X DOMAIN toward[t] : t \in Tier} : Carries(s, toward[at[1]][at[2]])}

\* The continuation is in one place: at the driver, at the far tier's pump or in one frame, as
\* long as the session runs on a live connection, and never in two, not even after a close that
\* left the far tier running.
OneContinuation ==
  \A s \in Session :
    /\ Cardinality(Holders(s)) <= 1
    /\ up /\ driver[s] \notin {Idle, Over} => Holders(s) # {}

Leaked(s) ==
  /\ driver[s] = Over
  /\ up
  /\ \A t \in Tier : \A i \in DOMAIN toward[t] : toward[t][i].s # s
  /\ \E t \in Tier : s \in held[t]

\* Once a session that run or call drove has ended and told the peer, neither tier's heap holds
\* a master of it, wherever its continuation was shipped, priced or failed.
ReleasedAtEnd == \A s \in Session : mode[s] # "local" => ~Leaked(s)

\* Every session that has begun ends, whatever fails and also when the connection breaks.
EverySessionEnds == \A s \in Session : driver[s] \notin {Idle, Over} ~> driver[s] = Over

=============================================================================
