-------------------------------- MODULE Peer --------------------------------
(***************************************************************************)
(* Request/reply correlation over one duplex port: makePeer of             *)
(* transport.mts, on both ends of a connection, over the port the          *)
(* transports adapt (wsPort, wtPort).                                      *)
(*                                                                         *)
(* Each end numbers its own requests from 1 and keeps a pending map; a     *)
(* handler that returns runs on as a promise, so handlers of one end run   *)
(* concurrently, finish in any order, and may themselves issue a request   *)
(* to the other end and wait for it ("a fetch nests inside an in-flight    *)
(* resume").  A handler that throws before it returns is outside every     *)
(* .catch: its request gets no reply, and over wtPort the throw ends the   *)
(* read loop of its end.                                                   *)
(*                                                                         *)
(* The link may go down at any moment: frames in flight may be lost, later *)
(* sends are discarded, and each end learns of it in its own close event.  *)
(* wtPort.close is one-sided: it closes the writer, so only the other end  *)
(* stops reading and has a close event.                                    *)
(*                                                                         *)
(* Payloads are abstracted to a request type and a reply value.  A call is *)
(* one invocation of peer.request; messages and handlers carry the call    *)
(* they belong to as a history field that no guard reads.                  *)
(***************************************************************************)
EXTENDS Naturals, Sequences, FiniteSets

CONSTANTS
  Call,      \* the invocations of peer.request an execution may contain
  Type,      \* the request types
  Result,    \* what a handler that succeeds returns
  NoCall,    \* no call: an empty slot of the pending map, a handler that awaits nothing
  MaxId      \* bound on the ids one end hands out

ASSUME NoCallAssumption == NoCall \notin Call
ASSUME MaxIdAssumption == MaxId \in Nat

Side == {"browser", "server"}
Other(s) == IF s = "browser" THEN "server" ELSE "browser"

Id == 1..MaxId
Failure == {"error", "no handler"}     \* the two error payloads the dispatcher itself produces
Reply == Result \cup Failure
PortKind == {"ws", "wt"}               \* a WebSocket, a WebTransport stream

VARIABLES
  nextId,     \* nextId[s]: the id of the next request of end s
  closed,     \* closed[s]: end s has had its close event
  pending,    \* pending[s][i]: the call that waits for reply i at end s, or NoCall
  handlers,   \* handlers[s]: the request types end s serves
  call,       \* call[c]: the promise of call c
  running,    \* the handlers that have started and not replied
  wire,       \* wire[s]: the frames in flight toward end s, oldest first
  port,       \* what the connection runs over, the same for both ends and for ever
  reads,      \* reads[s]: frames toward end s are carried and read
  made,       \* history: made[c], the replies that handlers produced for call c
  dropped     \* history: the calls whose handler threw before it returned

vars == <<nextId, closed, pending, handlers, call, running, wire, port, reads, made, dropped>>

Idle == [state |-> "idle"]
Waiting == [state |-> "waiting"]
Rejected == [state |-> "rejected"]
Resolved(v) == [state |-> "resolved", value |-> v]
Settled(p) == p.state \in {"resolved", "rejected"}

RequestFrame(i, c, t) == [kind |-> "request", id |-> i, call |-> c, body |-> t]
ReplyFrame(i, c, v) == [kind |-> "reply", id |-> i, call |-> c, body |-> v]
Frame == [kind : {"request"}, id : Id, call : Call, body : Type]
           \cup [kind : {"reply"}, id : Id, call : Call, body : Reply]
Handler == [at : Side, id : Id, call : Call, awaits : Call \cup {NoCall}]

TypeOK ==
  /\ nextId \in [Side -> 1..(MaxId + 1)]
  /\ closed \in [Side -> BOOLEAN]
  /\ pending \in [Side -> [Id -> Call \cup {NoCall}]]
  /\ handlers \in [Side -> SUBSET Type]
  /\ call \in [Call -> {Idle, Waiting, Rejected} \cup {Resolved(v) : v \in Reply}]
  /\ running \in SUBSET Handler
  /\ wire \in [Side -> Seq(Frame)]
  /\ port \in PortKind
  /\ reads \in [Side -> BOOLEAN]
  /\ made \in [Call -> SUBSET Reply]
  /\ dropped \in SUBSET Call

\* Variant: ids from 0, which the other end cannot tell from a missing id.
ZeroId == 0
FirstId == 1

Init ==
  /\ nextId = [s \in Side |-> FirstId]
  /\ closed = [s \in Side |-> FALSE]
  /\ pending = [s \in Side |-> [i \in Id |-> NoCall]]
  /\ handlers = [s \in Side |-> {}]
  /\ call = [c \in Call |-> Idle]
  /\ running = {}
  /\ wire = [s \in Side |-> <<>>]
  /\ port \in PortKind
  /\ reads = [s \in Side |-> TRUE]
  /\ made = [c \in Call |-> {}]
  /\ dropped = {}

-----------------------------------------------------------------------------
(* The port: a frame that can no longer arrive is discarded without a      *)
(* throw.                                                                  *)

SendTo(s, frame) ==
  wire' = IF reads[s] THEN [wire EXCEPT ![s] = Append(@, frame)] ELSE wire

-----------------------------------------------------------------------------
(* peer.on and peer.request                                                *)

Register(s, t) ==
  /\ t \notin handlers[s]
  /\ handlers' = [handlers EXCEPT ![s] = @ \cup {t}]
  /\ UNCHANGED <<nextId, closed, pending, call, running, wire, port, reads, made, dropped>>

\* A request after the close event rejects at once and takes no id.
RequestClosed(s, c) ==
  /\ closed[s]
  /\ call[c] = Idle
  /\ call' = [call EXCEPT ![c] = Rejected]
  /\ UNCHANGED <<nextId, closed, pending, wire>>

RequestSent(s, c, t) ==
  /\ ~closed[s]
  /\ call[c] = Idle
  /\ nextId[s] \in Id
  /\ nextId' = [nextId EXCEPT ![s] = @ + 1]
  /\ pending' = [pending EXCEPT ![s][nextId[s]] = c]
  /\ call' = [call EXCEPT ![c] = Waiting]
  /\ SendTo(Other(s), RequestFrame(nextId[s], c, t))
  /\ UNCHANGED closed

\* The frame cannot be encoded or the socket refuses it: the entry is removed again, the
\* id is spent.
RequestThrows(s, c) ==
  /\ ~closed[s]
  /\ call[c] = Idle
  /\ nextId[s] \in Id
  /\ nextId' = [nextId EXCEPT ![s] = @ + 1]
  /\ call' = [call EXCEPT ![c] = Rejected]
  /\ UNCHANGED <<closed, pending, wire>>

IssueRequest(s, c) ==
  \/ RequestClosed(s, c)
  \/ \E t \in Type : RequestSent(s, c, t)
  \/ RequestThrows(s, c)

Request(s, c) ==
  /\ IssueRequest(s, c)
  /\ UNCHANGED <<handlers, running, port, reads, made, dropped>>

-----------------------------------------------------------------------------
(* The dispatcher port.onMessage installs                                  *)

\* Variant: replies are matched to the waiting calls in order, not by id.
OldestPending(s, i) ==
  LET open == {j \in Id : pending[s][j] # NoCall}
  IN  IF open = {} THEN i ELSE CHOOSE j \in open : \A k \in open : j <= k
EntryFor(s, i) == i

\* Variant: the entry survives its reply.
AfterReplyKept(s, i) == pending[s]
AfterReply(s, i) == [pending[s] EXCEPT ![i] = NoCall]

\* Variant: the dispatcher waits for the handler it started before it takes another frame.
SerialTurn(s) == \A h \in running : h.at # s
DispatcherFree(s) == TRUE

\* A reply settles the call its id names, once; a reply to nobody is ignored.
ReceiveReply(s) ==
  /\ ~closed[s]
  /\ DispatcherFree(s)
  /\ wire[s] # <<>>
  /\ Head(wire[s]).kind = "reply"
  /\ wire' = [wire EXCEPT ![s] = Tail(@)]
  /\ LET m == Head(wire[s])
         i == EntryFor(s, m.id)
     IN  IF pending[s][i] = NoCall
         THEN UNCHANGED <<pending, call>>
         ELSE /\ pending' = [pending EXCEPT ![s] = AfterReply(s, i)]
              /\ call' = [call EXCEPT ![pending[s][i]] = Resolved(m.body)]
  /\ UNCHANGED <<nextId, closed, handlers, running, port, reads, made, dropped>>

\* A request of a served type starts its handler; any other is answered at once.
ReceiveRequest(s) ==
  /\ ~closed[s]
  /\ DispatcherFree(s)
  /\ wire[s] # <<>>
  /\ Head(wire[s]).kind = "request"
  /\ LET m == Head(wire[s])
         rest == [wire EXCEPT ![s] = Tail(@)]
     IN  IF m.body \in handlers[s]
         THEN /\ running' = running \cup
                   {[at |-> s, id |-> m.id, call |-> m.call, awaits |-> NoCall]}
              /\ wire' = rest
              /\ UNCHANGED made
         ELSE /\ wire' = IF reads[Other(s)] THEN [rest EXCEPT ![Other(s)] =
                                       Append(@, ReplyFrame(m.id, m.call, "no handler"))]
                         ELSE rest
              /\ made' = [made EXCEPT ![m.call] = @ \cup {"no handler"}]
              /\ UNCHANGED running
  /\ UNCHANGED <<nextId, closed, pending, handlers, call, port, reads, dropped>>

\* A handler issues a request of its own and awaits it.
HandlerRequest(h, c) ==
  /\ h.awaits = NoCall
  /\ IssueRequest(h.at, c)
  /\ running' = (running \ {h}) \cup {[h EXCEPT !.awaits = c]}
  /\ UNCHANGED <<handlers, port, reads, made, dropped>>

\* The awaited request has settled; the handler goes on.
HandlerResume(h) ==
  /\ h.awaits # NoCall
  /\ Settled(call[h.awaits])
  /\ running' = (running \ {h}) \cup {[h EXCEPT !.awaits = NoCall]}
  /\ UNCHANGED <<nextId, closed, pending, handlers, call, wire, port, reads, made, dropped>>

Replied(h) == running \ {h}

\* The handler's promise settles: its result, or the error reply of .catch.
HandlerDone(h, v) ==
  /\ h.awaits = NoCall
  /\ running' = Replied(h)
  /\ SendTo(Other(h.at), ReplyFrame(h.id, h.call, v))
  /\ made' = [made EXCEPT ![h.call] = @ \cup {v}]
  /\ UNCHANGED <<nextId, closed, pending, handlers, call, port, reads, dropped>>

-----------------------------------------------------------------------------
(* Closing                                                                 *)

\* ws.close on either end, or a network failure: nothing is carried either way any more.
LinkDown ==
  /\ \E s \in Side : reads[s]
  /\ reads' = [s \in Side |-> FALSE]
  /\ UNCHANGED <<nextId, closed, pending, handlers, call, running, wire, port, made, dropped>>

\* wtPort.close closes the writer: the other end's reader comes to its end, one's own goes on.
CloseWriter(s) ==
  /\ port = "wt"
  /\ reads[Other(s)]
  /\ reads' = [reads EXCEPT ![Other(s)] = FALSE]
  /\ UNCHANGED <<nextId, closed, pending, handlers, call, running, wire, port, made, dropped>>

\* Variant: the close event forgets the calls in flight.
Forgotten(s) == {}
InFlight(s) == {c \in Call : \E i \in Id : pending[s][i] = c}

\* port.onClose's callback: every call in flight is rejected.
Closes(s) ==
  /\ closed' = [closed EXCEPT ![s] = TRUE]
  /\ pending' = [pending EXCEPT ![s] = [i \in Id |-> NoCall]]
  /\ call' = [c \in Call |-> IF c \in InFlight(s) THEN Rejected ELSE call[c]]
  /\ wire' = [wire EXCEPT ![s] = <<>>]

CloseEvent(s) ==
  /\ ~reads[s]
  /\ ~closed[s]
  /\ Closes(s)
  /\ UNCHANGED <<nextId, handlers, running, port, reads, made, dropped>>

\* A served request whose handler throws before it returns: no reply is ever sent.  wsPort
\* takes the next frame; in wtPort the throw is caught outside the read loop, which is over.
ThrowsAtOnce(s) ==
  /\ ~closed[s]
  /\ DispatcherFree(s)
  /\ wire[s] # <<>>
  /\ Head(wire[s]).kind = "request"
  /\ Head(wire[s]).body \in handlers[s]
  /\ dropped' = dropped \cup {Head(wire[s]).call}
  /\ \/ /\ port = "ws"
        /\ wire' = [wire EXCEPT ![s] = Tail(@)]
        /\ UNCHANGED <<closed, pending, call, reads>>
     \/ /\ port = "wt"
        /\ reads' = [reads EXCEPT ![s] = FALSE]
        /\ Closes(s)
  /\ UNCHANGED <<nextId, handlers, running, port, made>>

-----------------------------------------------------------------------------

HandlerStep(h) ==
  \/ \E c \in Call : HandlerRequest(h, c)
  \/ HandlerResume(h)
  \/ \E v \in Result \cup {"error"} : HandlerDone(h, v)

Next ==
  \/ \E s \in Side, t \in Type : Register(s, t)
  \/ \E s \in Side, c \in Call : Request(s, c)
  \/ \E s \in Side : ReceiveReply(s)
  \/ \E s \in Side : ReceiveRequest(s)
  \/ \E s \in Side : ThrowsAtOnce(s)
  \/ \E h \in running : HandlerStep(h)
  \/ LinkDown
  \/ \E s \in Side : CloseWriter(s)
  \/ \E s \in Side : CloseEvent(s)

Spec == Init /\ [][Next]_vars

\* What the runtime guarantees: a frame that arrived is dispatched, a handler that returned is
\* run to its end (an assumption on the application's handlers), and an end whose stream is
\* over has its close event.  Nothing makes a stream end.
Dispatch(s) == ReceiveReply(s) \/ ReceiveRequest(s) \/ ThrowsAtOnce(s)

HandlerRuns(c) ==
  \E h \in running :
    /\ h.call = c
    /\ HandlerResume(h) \/ \E v \in Result \cup {"error"} : HandlerDone(h, v)

Fairness ==
  /\ \A s \in Side : WF_vars(Dispatch(s)) /\ WF_vars(CloseEvent(s))
  /\ \A c \in Call : WF_vars(HandlerRuns(c))

FairSpec == Spec /\ Fairness

-----------------------------------------------------------------------------
(* Properties                                                              *)

\* A call resolves only with a reply that a handler produced for that very call, however the
\* ends' identical id spaces, concurrent handlers and nested calls interleave.
Correlated ==
  \A c \in Call : call[c].state = "resolved" => call[c].value \in made[c]

\* The pending maps hold exactly the calls that wait, each in one slot, and none once the end
\* has had its close event: no promise is left without an entry that can settle it.
PendingIsWaiting ==
  /\ \A s \in Side, i \in Id :
       pending[s][i] # NoCall => call[pending[s][i]] = Waiting /\ ~closed[s]
  /\ \A c \in Call :
       call[c] = Waiting => \E s \in Side, i \in Id : pending[s][i] = c
  /\ \A s1, s2 \in Side : \A i1, i2 \in Id :
       pending[s1][i1] = pending[s2][i2] /\ pending[s1][i1] # NoCall => s1 = s2 /\ i1 = i2

\* A promise settles once: a late reply, a duplicate or the close event never changes the outcome.
SettledOnce == [][\A c \in Call : Settled(call[c]) => call'[c] = call[c]]_vars

\* The calls that get no reply: a handler threw at once for them, or their own handler awaits
\* such a call.
Unanswered ==
  LET after[n \in 0..Cardinality(Call)] ==
        IF n = 0 THEN dropped
        ELSE after[n - 1] \cup {h.call : h \in {g \in running : g.awaits \in after[n - 1]}}
  IN  after[Cardinality(Call)]

\* A WebTransport end whose own stream goes on while the other end no longer reads.
HalfClosed(s) == port = "wt" /\ reads[s] /\ ~reads[Other(s)]

\* Every request settles, also when handlers of both ends wait for one another's requests and
\* when the link goes down under them; what remains is a call left without an answer by a
\* handler that threw at once, and the half-closed end of a WebTransport stream.
EverySettles ==
  \A c \in Call :
    call[c] = Waiting ~> \/ Settled(call[c])
                         \/ c \in Unanswered
                         \/ \E s \in Side : HalfClosed(s) /\ c \in InFlight(s)

=============================================================================
