------------------------------ MODULE Service ------------------------------
(***************************************************************************)
(* How the other tier serves a fetched touch whose resource is an api: the  *)
(* touches of one turn leave the browser as one request (batchExec,         *)
(* host.mts), the server's hosts post each to the api's process (makeApiExec*)
(* and startSidecar, api/sidecar.mts), where the monitor decides and runs   *)
(* it (Api.handle, api/api.mts), and the verdicts come back over the three  *)
(* hops: by the call's id on the pipe, by its place in the batch's reply.   *)
(*                                                                         *)
(* Left out: what a value is (the call whose run made it is its value), why *)
(* an authorizer or a function decides as it does (either may happen), the  *)
(* bytes of tokens and arguments, the ready message, and Peer's correlation *)
(* of a reply with its request (Peer.tla).                                  *)
(***************************************************************************)
EXTENDS Integers, Sequences, FiniteSets, Functions

CONSTANTS Call,       \* touches the browser may fetch
          Route,      \* payloads that lead a request to its host
          Principal,
          Settings,   \* what is checked: the calls made, the route of each, the principal of
                      \* each route, the faults that may happen, how long the clock runs
          MaxCalls,   \* rate.max
          Window      \* rate.windowMs, in ticks

ASSUME ServiceAssumption ==
    /\ MaxCalls \in Nat \ {0} /\ Window \in Nat \ {0}
    /\ Settings \subseteq [calls : SUBSET Call, route : [Call -> Route],
                           bearer : [Route -> Principal],
                           faults : SUBSET {"close", "exit", "no host", "throw"}, until : Nat]

VARIABLES setting,  \* the setting of this behaviour
          \* browser
          queues,   \* queues[r]: the waiters of route r
          issued,   \* the calls made
          result,   \* what the settled ones came to
          \* connection and server
          open,     \* the connection is up
          batches,  \* requests under way: the calls, where each is, its reply
          pending,  \* the sidecar client's calls by id
          nextId,
          verdict,  \* what each served call came to on the server
          exited,   \* the sidecar's exit event has been seen
          \* pipe and monitor
          toChild, toParent,
          alive,    \* the monitor's process is up
          work,     \* the calls it is handling
          windows,  \* _calls: the window of each principal
          lastSweep, now,
          audit,    \* audit[c]: the monitor's entries for the call
          counted   \* history: the calls counted against the budget, and when

browser == <<queues, issued, result>>
server  == <<pending, nextId, verdict, exited>>
budget  == <<windows, lastSweep, counted>>
monitor == <<work, budget, audit>>
vars == <<setting, browser, open, batches, server, toChild, toParent, alive, monitor, now>>

Yields(c) == [ok |-> TRUE, by |-> c]
Error(why) == [ok |-> FALSE, by |-> why]

\* A Map after the entries of g were set.
Merged(f, g) ==
  [x \in DOMAIN f \cup DOMAIN g |-> IF x \in DOMAIN g THEN g[x] ELSE f[x]]

\* The queue of a call: its whole payload.
\* Variant: one queue for every payload.
OneKey(c) == CHOOSE r \in Route : \E d \in Call : setting.route[d] = r
Key(c) == setting.route[c]

\* Whose token the host of a call's payload holds.
Who(c) == setting.bearer[setting.route[c]]

Init ==
    /\ setting \in Settings
    /\ queues = [r \in Route |-> <<>>] /\ issued = {} /\ result = <<>>
    /\ open = TRUE /\ batches = {}
    /\ pending = <<>> /\ nextId = 1 /\ verdict = <<>> /\ exited = FALSE
    /\ toChild = <<>> /\ toParent = <<>> /\ alive = TRUE /\ work = {}
    /\ windows = <<>> /\ lastSweep = 0 /\ now = Window
    /\ audit = [c \in Call |-> <<>>] /\ counted = {}

(***************************************************************************)
(* Browser: the calls of one turn.                                          *)
(***************************************************************************)
Issue(c) ==
    /\ c \in setting.calls \ issued
    /\ issued' = issued \cup {c}
    /\ queues' = [queues EXCEPT ![Key(c)] = Append(@, c)]
    /\ UNCHANGED <<setting, result, open, batches, server, toChild, toParent, alive, monitor, now>>

\* Every queue becomes one request; on a closed connection each is rejected.
Flush ==
    LET full == {r \in Route : queues[r] # <<>>}
    IN  /\ full # {}
        /\ queues' = [r \in Route |-> <<>>]
        /\ IF open
           THEN /\ batches' = batches \cup
                     {[calls |-> queues[r], at |-> "wire", reply |-> <<>>] : r \in full}
                /\ UNCHANGED result
           ELSE /\ result' = Merged(result, [c \in UNION {Range(queues[r]) : r \in full} |-> Error("closed")])
                /\ UNCHANGED batches
        /\ UNCHANGED <<setting, issued, open, server, toChild, toParent, alive, monitor, now>>

\* The i-th waiter's part of the reply; a reply with no such part is an error.
Part(reply, i) == IF i \in DOMAIN reply THEN reply[i] ELSE Error("no reply")

\* Variant: a waiter with no part in the reply is passed over.
SettledPresent(b) == [c \in {b.calls[i] : i \in DOMAIN b.reply} |->
                        Part(b.reply, CHOOSE i \in DOMAIN b.calls : b.calls[i] = c)]
Settled(b) == [c \in Range(b.calls) |-> Part(b.reply, CHOOSE i \in DOMAIN b.calls : b.calls[i] = c)]

Reply(b) ==
    /\ open /\ b.at = "answered"
    /\ result' = Merged(result, Settled(b))
    /\ batches' = batches \ {b}
    /\ UNCHANGED <<setting, queues, issued, open, server, toChild, toParent, alive, monitor, now>>

\* The connection drops: the browser's requests are rejected, what the server has
\* begun goes on.
Close ==
    /\ "close" \in setting.faults
    /\ open
    /\ open' = FALSE
    /\ result' = Merged(result, [c \in UNION {Range(b.calls) : b \in batches} |-> Error("closed")])
    /\ batches' = {b \in batches : b.at = "served"}
    /\ UNCHANGED <<setting, queues, issued, server, toChild, toParent, alive, monitor, now>>

(***************************************************************************)
(* Server: each call of the request is posted to the sidecar in its turn,   *)
(* under the token of the host the request's payload (its first waiter's)   *)
(* leads to.                                                                *)
(***************************************************************************)
Serve(b) ==
    LET ids == [i \in DOMAIN b.calls |-> nextId + i - 1]
        bearer == Who(b.calls[1])
        posts == [i \in DOMAIN b.calls |-> [id |-> ids[i], call |-> b.calls[i], who |-> bearer]]
    IN  /\ open /\ b.at = "wire"
        /\ batches' = (batches \ {b}) \cup {[b EXCEPT !.at = "served"]}
        /\ nextId' = nextId + Len(b.calls)
        /\ pending' = Merged(pending, [id \in Range(ids) |-> b.calls[id - nextId + 1]])
        /\ toChild' = IF alive THEN toChild \o posts ELSE toChild
        /\ UNCHANGED <<setting, browser, open, verdict, exited, toParent, alive, monitor, now>>

\* No host for the payload: the request fails as a whole.
NoHost(b) ==
    /\ "no host" \in setting.faults
    /\ open /\ b.at = "wire"
    /\ batches' = (batches \ {b}) \cup {[b EXCEPT !.at = "answered"]}
    /\ UNCHANGED <<setting, browser, open, server, toChild, toParent, alive, monitor, now>>

\* A reply on the pipe settles the call of its id, if it is still awaited.
\* Variant: the one that has waited longest.
LongestWaiting(m) == {id \in DOMAIN pending : \A other \in DOMAIN pending : id <= other}
Awaited(m) == {id \in DOMAIN pending : id = m.id}
SidecarReply ==
    LET m == Head(toParent)
    IN  /\ toParent # <<>>
        /\ toParent' = Tail(toParent)
        /\ verdict' = Merged(verdict, [c \in {pending[id] : id \in Awaited(m)} |-> m.res])
        /\ pending' = Restrict(pending, DOMAIN pending \ Awaited(m))
        /\ UNCHANGED <<setting, browser, open, batches, nextId, exited, toChild, alive, monitor, now>>

\* The process is gone: what is awaited fails.
\* Variant: the failed calls stay in the table.
ExitEventKeeps ==
    /\ ~alive /\ ~exited
    /\ exited' = TRUE
    /\ verdict' = Merged(verdict, [c \in Range(pending) |-> Error("exited")])
    /\ UNCHANGED <<setting, browser, open, batches, pending, nextId, toChild, toParent, alive, monitor, now>>
ExitEvent ==
    /\ ~alive /\ ~exited
    /\ exited' = TRUE
    /\ verdict' = Merged(verdict, [c \in Range(pending) |-> Error("exited")])
    /\ pending' = <<>>
    /\ UNCHANGED <<setting, browser, open, batches, nextId, toChild, toParent, alive, monitor, now>>

\* The reply goes out when every element has settled, in the request's order.
Answer(b) ==
    /\ b.at = "served" /\ Range(b.calls) \subseteq DOMAIN verdict
    /\ batches' = (batches \ {b}) \cup
          (IF open THEN {[b EXCEPT !.at = "answered", !.reply = [i \in DOMAIN b.calls |-> verdict[b.calls[i]]]]}
           ELSE {})
    /\ UNCHANGED <<setting, browser, open, server, toChild, toParent, alive, monitor, now>>

(***************************************************************************)
(* Monitor.                                                                 *)
(***************************************************************************)
Logged(w, who, outcome) == audit' = [audit EXCEPT ![w.call] = Append(@, [who |-> who, res |-> outcome])]
Send(w, res) == toParent' = Append(toParent, [id |-> w.id, res |-> res])

Receive ==
    /\ alive /\ toChild # <<>>
    /\ toChild' = Tail(toChild)
    /\ work' = work \cup {[post |-> Head(toChild), at |-> "verifying"]}
    /\ UNCHANGED <<setting, browser, open, batches, server, toParent, alive, budget, audit, now>>

\* An unknown name and an oversize payload are denied before the token is looked at.
Refuse ==
    /\ alive /\ toChild # <<>>
    /\ toChild' = Tail(toChild)
    /\ Send(Head(toChild), Error("denied"))
    /\ Logged(Head(toChild), "nobody", Error("denied"))
    /\ UNCHANGED <<setting, browser, open, batches, server, alive, work, budget, now>>

\* _allowRate: expired windows are swept once per window, then the call is counted in
\* its principal's window, a new one if that has expired.
Live(p) == p \in DOMAIN windows /\ now - windows[p].start < Window
SweepDue == now - lastSweep >= Window
\* Variants: a sweep forgets every window; nothing is swept.
SweptAll == IF SweepDue THEN <<>> ELSE windows
SweptNone == windows
Swept == IF SweepDue THEN Restrict(windows, {p \in DOMAIN windows : Live(p)}) ELSE windows
Counted(p) == IF p \in DOMAIN Swept /\ now - Swept[p].start < Window
              THEN [Swept[p] EXCEPT !.count = @ + 1]
              ELSE [start |-> now, count |-> 1]
Admits(p) == Counted(p).count <= MaxCalls
Count(w) ==
    LET p == w.post.who
    IN  /\ windows' = Merged(Swept, [q \in {p} |-> Counted(p)])
        /\ lastSweep' = IF SweepDue THEN now ELSE lastSweep
        /\ counted' = counted \cup {[who |-> p, at |-> now, ok |-> Admits(p), call |-> w.post.call]}

\* The token is verified: count the call, and deny it ...
Deny(w) ==
    /\ alive /\ w \in work /\ w.at = "verifying"
    /\ Count(w)      \* over the budget, or not authorized
    /\ work' = work \ {w}
    /\ Send(w.post, Error("denied"))
    /\ Logged(w.post, w.post.who, Error("denied"))
    /\ UNCHANGED <<setting, browser, open, batches, server, toChild, alive, now>>

\* ... or begin to run it.
Allow(w) ==
    /\ alive /\ w \in work /\ w.at = "verifying"
    /\ Admits(w.post.who)
    /\ Count(w)
    /\ work' = (work \ {w}) \cup {[w EXCEPT !.at = "running"]}
    /\ UNCHANGED <<setting, browser, open, batches, server, toChild, toParent, alive, audit, now>>

Ran(w) ==
    /\ alive /\ w \in work /\ w.at = "running"
    /\ work' = work \ {w}
    /\ \E res \in {Yields(w.post.call)} \cup (IF "throw" \in setting.faults THEN {Error("threw")} ELSE {}) :
          /\ Send(w.post, res)
          /\ Logged(w.post, w.post.who, res)
    /\ UNCHANGED <<setting, browser, open, batches, server, toChild, alive, budget, now>>

\* The process dies; what it has sent may still arrive, before or after the exit event.
Exit ==
    /\ "exit" \in setting.faults
    /\ alive
    /\ alive' = FALSE
    /\ work' = {} /\ toChild' = <<>>
    /\ UNCHANGED <<setting, browser, open, batches, server, toParent, budget, audit, now>>

Tick ==
    /\ now < setting.until
    /\ now' = now + 1
    /\ UNCHANGED <<setting, browser, open, batches, server, toChild, toParent, alive, monitor>>

Progress ==
    \/ Flush \/ \E b \in batches : Reply(b) \/ Serve(b) \/ NoHost(b) \/ Answer(b)
    \/ SidecarReply \/ ExitEvent
    \/ Receive \/ Refuse \/ \E w \in work : Deny(w) \/ Allow(w) \/ Ran(w)

Next == (\E c \in Call : Issue(c)) \/ Progress \/ Close \/ Exit \/ Tick

Spec == Init /\ [][Next]_vars

\* Turns are taken, frames and messages arrive, verify and the api's functions return.
\* Nothing makes the clock pass, a connection drop or a process die.
FairSpec == Spec /\ WF_vars(Progress)

(***************************************************************************)
(* Properties.                                                              *)
(***************************************************************************)
Res == {Yields(c) : c \in Call}
         \cup {Error(why) : why \in {"denied", "threw", "exited", "closed", "no reply"}}
Post == [id : Nat \ {0}, call : Call, who : Principal]

\* Types; a call of the sidecar client is awaited by one id or has its verdict, and a
\* dead process handles nothing.
TypeOK ==
    /\ setting \in Settings
    /\ \A r \in Route : \A i \in DOMAIN queues[r] : Key(queues[r][i]) = r
    /\ issued \subseteq Call /\ DOMAIN result \subseteq issued /\ Range(result) \subseteq Res
    /\ open \in BOOLEAN /\ exited \in BOOLEAN /\ alive \in BOOLEAN /\ (exited => ~alive)
    /\ \A b \in batches :
          /\ b.calls \in Seq(issued) /\ b.calls # <<>>
          /\ b.at \in {"wire", "served", "answered"}
          /\ DOMAIN b.reply \in {{}, DOMAIN b.calls} /\ Range(b.reply) \subseteq Res
    /\ DOMAIN pending \subseteq 1..(nextId - 1) /\ Range(pending) \subseteq issued
    /\ DOMAIN verdict \subseteq issued \ Range(pending) /\ Range(verdict) \subseteq Res
    /\ toChild \in Seq(Post)
    /\ \A i \in DOMAIN toParent : toParent[i].id \in 1..(nextId - 1) /\ toParent[i].res \in Res
    /\ work \subseteq [post : Post, at : {"verifying", "running"}]
    /\ alive \/ work = {}
    /\ DOMAIN windows \subseteq Principal
    /\ \A p \in DOMAIN windows : windows[p].start \in 0..now /\ windows[p].count \in Nat \ {0}
    /\ lastSweep \in 0..now /\ now \in Nat

\* Over the batch, the pipe and the monitor, with replies in any order, a caller gets
\* the outcome the monitor came to on that very call, unless the connection dropped, the
\* process died or no host took the request.
OwnAnswer ==
    \A c \in DOMAIN result :
       CASE result[c] = Error("exited") -> ~alive
         [] result[c] = Error("closed") -> ~open
         [] result[c] = Error("no reply") -> audit[c] = <<>>
         [] OTHER -> \E i \in DOMAIN audit[c] : audit[c][i].res = result[c]

\* Each call is judged and counted at most once, and as the principal its own payload
\* leads to: calls that travel together never share a host that is not theirs.
JudgedAsItself ==
    /\ \A c \in Call :
          /\ Len(audit[c]) <= 1
          /\ \A i \in DOMAIN audit[c] : audit[c][i].who \in {"nobody", Who(c)}
    /\ \A k \in counted : k.who = Who(k.call) /\ \A j \in counted : j.call = k.call => j = k

\* The calls of a principal counted in a window of the clock, and how many of them were admitted.
Within(p, from) == {j \in counted : j.who = p /\ j.at \in from..(from + Window - 1)}
Admitted(p, from) == Cardinality({j \in Within(p, from) : j.ok})
Quiet(k) == \A j \in counted : j.who = k.who => j.at \notin (k.at - Window + 1)..(k.at - 1)

\* The rate budget: a principal that was quiet for a window gets no more than MaxCalls calls
\* in the next one, no window of the clock admits more than two budgets, and a call is
\* over the budget only if MaxCalls others of its principal are in its window.
Budget ==
    \A k \in counted :
       /\ Admitted(k.who, k.at) <= 2 * MaxCalls
       /\ Quiet(k) => Admitted(k.who, k.at) <= MaxCalls
       /\ ~k.ok => Cardinality(Within(k.who, k.at - Window + 1)) > MaxCalls

\* The monitor remembers no principal that was quiet for two windows when the last call
\* came: the map stays as large as the principals active then (api.mts:144-147).
WindowsBounded ==
    \A k \in counted : \A p \in DOMAIN windows : k.at - windows[p].start < 2 * Window

\* A call posted to the sidecar after its exit is never answered, nor is any other call
\* of the same request: the client looks at the process only when it exits.
Unanswerable(c) ==
    /\ exited
    /\ \E b \in batches : c \in Range(b.calls) /\ Range(b.calls) \cap Range(pending) # {}

\* Every call the browser makes settles, whatever fails: a host is missing, the monitor
\* denies or throws, its process dies, the connection drops; or it is unanswerable.
EverySettles ==
    \A c \in Call : c \in issued ~> c \in DOMAIN result \/ Unanswerable(c)
=============================================================================
