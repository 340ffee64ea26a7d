----------------------------- MODULE SessionAuth -----------------------------
(***************************************************************************)
(* The sealed cookie authority: the gateway of session-auth.mts and the    *)
(* tabs of adapt-session-auth.mts, with the socket's hello as browser.mts  *)
(* and server.mts deliver it.                                              *)
(*                                                                         *)
(* The cookie of the session is in the jar of the browser, which the tabs  *)
(* share.  A tab carries a sealed copy, its blob, on every crossing; the   *)
(* gateway opens the blob and calls the backend.  A Set-Cookie the gateway *)
(* observes comes back with the reply as a new blob and a claim, whose     *)
(* HTTP request plants the cookie in the jar; the tab then tells the other *)
(* tabs, which reseal from the jar.  A refused crossing reseals and is     *)
(* tried once more.  A restart of the gateway changes its key and breaks   *)
(* every socket, and nothing in browser.mts opens another.                 *)
(*                                                                         *)
(* There is one cookie: its value is the number of the Set-Cookie that     *)
(* made it, 0 is none.  Reading the jar is part of sending a request, and  *)
(* a reply of the gateway is made and received in one step.                *)
(***************************************************************************)
EXTENDS Naturals

CONSTANTS
  Tab,          \* the tabs of the browser
  Crossings,    \* bound: the crossings the pages make
  Early,        \* the tabs whose page is up when the behaviour begins
  Options,      \* what the pages pass to cookieSessionAuth: whether a hello, awaitClaims
  MaxRestarts,  \* bound: restarts of the gateway
  MaxFailures   \* bound: requests and handshakes that fail, and restarts

ASSUME BoundsAssumption == Crossings \in Nat /\ MaxRestarts \in Nat /\ MaxFailures \in Nat
ASSUME TabAssumption == Early \subseteq Tab /\ Tab # {}
ASSUME OptionsAssumption == Options \subseteq [hello : BOOLEAN, awaitClaims : BOOLEAN]

\* The crossings, numbered as they are made.  Each makes one cookie at most, and there may be
\* one to begin with.
Call == 1..Crossings
Cookie == 0..(1 + Crossings)
Sealed == [boot : 0..MaxRestarts, cookie : Cookie]
Optional(S) == {{}} \cup {{x} : x \in S}

\* What a crossing asks: a GET, a GET of a path the gateway fetches at the upgrade, and the
\* requests that log in and out.
Kind == {"get", "boot", "login", "logout"}

VARIABLES
  options,   \* what these pages pass
  issued,    \* the backend's last cookie
  live,      \* the cookies the backend honours
  jar,       \* the browser's cookie
  boot,      \* the gateway's key
  failures,  \* how many requests failed
  tabs,      \* tabs[t]: the page of tab t
  hello,     \* hello[t]: the gateway's hello on its way to t
  reseals,   \* the reseal requests in flight
  claims,    \* the claim requests in flight
  heard,     \* heard[t]: how many broadcasts are on their way to t
  calls,     \* calls[c]: the state of crossing c
  doubted    \* history: the retried crossings that no reseal from a live jar stands behind

vars == <<options, issued, live, jar, boot, failures, tabs, hello, reseals, claims, heard,
          calls, doubted>>

\* started: the hello has been taken, or none was configured.  gen: which promise `ready` is.
Page == [socket : {"none", "connecting", "open", "failed", "closed"}, cookie : Cookie,
         blob : Optional(Sealed), started : BOOLEAN, gen : 0..Crossings,
         preboot : Optional({"ok", "refused"})]

Crossing == [at : {"idle", "waiting", "sent", "answered", "resealing", "claiming", "done"},
             tab : Tab, kind : Kind, gen : 0..Crossings, blob : Optional(Sealed),
             retried : BOOLEAN, joined : BOOLEAN, status : {"none", "ok", "refused", "lost"},
             setCookie : Optional(Cookie)]

Hello == [blob : Optional(Sealed), preboot : Optional({"ok", "refused"})]

\* A reseal is awaited as the promise `ready` number gen of its tab, or by a refused crossing.
Reseal == [tab : Tab, gen : 0..Crossings, call : Optional(Call), cookie : Cookie,
           boot : 0..MaxRestarts]
Claim == [call : Call, tab : Tab, cookie : Cookie, boot : 0..MaxRestarts]

Loaded(t) == tabs[t].socket # "none"
Seal(k) == [boot |-> boot, cookie |-> k]

\* The blob opens under the key of this boot only, and the backend honours what is in it.
Honoured(blob) == \E s \in blob : s.boot = boot /\ s.cookie \in live

NewCall == [at |-> "idle", tab |-> CHOOSE t \in Tab : TRUE, kind |-> "get", gen |-> 0,
            blob |-> {}, retried |-> FALSE, joined |-> FALSE, status |-> "none",
            setCookie |-> {}]

\* No page, and one that took its blob from the jar some time ago.
NoPage == [socket |-> "none", cookie |-> 0, blob |-> {}, started |-> FALSE, gen |-> 0,
           preboot |-> {}]
UpPage == [NoPage EXCEPT !.socket = "open", !.started = TRUE,
                         !.blob = {[boot |-> 0, cookie |-> k] : k \in {jar} \ {0}}]

Init ==
  /\ options \in Options
  /\ issued = 1 /\ live = {1} /\ jar \in {0, 1}
  /\ boot = 0 /\ failures = 0
  /\ tabs = [t \in Tab |-> IF t \in Early THEN UpPage ELSE NoPage]
  /\ hello = [t \in Tab |-> {}]
  /\ reseals = {} /\ claims = {} /\ heard = [t \in Tab |-> 0]
  /\ calls = [c \in Call |-> NewCall]
  /\ doubted = {}

Failing == failures < MaxFailures /\ failures' = failures + 1

------------------------------------------------------------------------------
(* The page: its socket, its first blob and its promise `ready`.           *)

\* A reseal request reads the jar as it leaves.
ReadyReseal(t, gen) ==
  [tab |-> t, gen |-> gen, call |-> {}, cookie |-> jar, boot |-> boot]
RetryReseal(c) ==
  [tab |-> calls[c].tab, gen |-> 0, call |-> {c}, cookie |-> jar, boot |-> boot]

\* The page loads: the upgrade carries the jar's cookie; without a hello it reseals at once.
Open(t) ==
  /\ ~Loaded(t)
  /\ tabs' = [tabs EXCEPT ![t].socket = "connecting", ![t].cookie = jar,
                          ![t].started = ~options.hello]
  /\ reseals' = IF options.hello THEN reseals ELSE reseals \cup {ReadyReseal(t, 0)}
  /\ UNCHANGED <<options, issued, live, jar, boot, failures, hello, claims, heard, calls>>

\* The gateway answers the upgrade, and the hello leaves with the blob and the prefetched GET.
HelloFor(k) ==
  IF k = 0 THEN [blob |-> {}, preboot |-> {}]
           ELSE [blob |-> {Seal(k)}, preboot |-> {IF k \in live THEN "ok" ELSE "refused"}]

Accept(t) ==
  /\ tabs[t].socket = "connecting"
  /\ tabs' = [tabs EXCEPT ![t].socket = "open", ![t].cookie = 0]
  /\ hello' = [hello EXCEPT ![t] = IF options.hello THEN {HelloFor(tabs[t].cookie)} ELSE {}]
  /\ UNCHANGED <<options, issued, live, jar, boot, failures, reseals, claims, heard, calls>>

\* A crossing has settled: what it went through no longer matters.
Settled(call, status) ==
  [NewCall EXCEPT !.at = "done", !.status = status, !.joined = call.joined]
Lose(f, S) == [c \in Call |-> IF c \in S THEN Settled(f[c], "lost") ELSE f[c]]
OnSocket(t) == {c \in Call : calls[c].tab = t /\ calls[c].at \in {"sent", "answered"}}

\* The handshake fails: crossings that wait for the socket are rejected.  The promise of the
\* hello is not settled, and its timer starts with the open event only.
ConnectFails(t) ==
  /\ tabs[t].socket = "connecting" /\ Failing
  /\ tabs' = [tabs EXCEPT ![t].socket = "failed"]
  /\ calls' = Lose(calls, OnSocket(t))
  /\ UNCHANGED <<options, issued, live, jar, boot, hello, reseals, claims, heard>>

\* The promise of the hello is settled, by the frame or by the timer; a hello with no blob
\* falls back on a reseal.  A frame that comes after the timer is dropped.
TakeHello(t, h) ==
  /\ tabs' = [tabs EXCEPT ![t].started = TRUE, ![t].preboot = h.preboot,
                          ![t].blob = IF h.blob # {} THEN h.blob ELSE tabs[t].blob]
  /\ reseals' = IF h.blob # {} THEN reseals ELSE reseals \cup {ReadyReseal(t, 0)}

HelloArrives(t) ==
  /\ hello[t] # {}
  /\ IF tabs[t].started THEN UNCHANGED <<tabs, reseals>>
                        ELSE \E h \in hello[t] : TakeHello(t, h)
  /\ hello' = [hello EXCEPT ![t] = {}]
  /\ UNCHANGED <<options, issued, live, jar, boot, failures, claims, heard, calls>>

\* Variant: the timer is cleared when the socket closes.
TimeoutIfOpen(t) ==
  /\ tabs[t].socket = "open" /\ ~tabs[t].started
  /\ TakeHello(t, [blob |-> {}, preboot |-> {}])
  /\ UNCHANGED <<options, issued, live, jar, boot, failures, hello, claims, heard, calls>>
HelloTimeout(t) ==
  /\ tabs[t].socket \in {"open", "closed"} /\ ~tabs[t].started
  /\ TakeHello(t, [blob |-> {}, preboot |-> {}])
  /\ UNCHANGED <<options, issued, live, jar, boot, failures, hello, claims, heard, calls>>

\* A broadcast: `ready` is a new reseal, for the crossings that come after.
\* Variant: a broadcast is heard again and again.
HearAgain(t) ==
  /\ heard[t] > 0
  /\ tabs' = [tabs EXCEPT ![t].gen = @ + 1]
  /\ reseals' = reseals \cup {ReadyReseal(t, tabs[t].gen + 1)}
  /\ UNCHANGED <<options, issued, live, jar, boot, failures, hello, claims, heard, calls>>
Hear(t) ==
  /\ heard[t] > 0
  /\ heard' = [heard EXCEPT ![t] = @ - 1]
  /\ tabs' = [tabs EXCEPT ![t].gen = @ + 1]
  /\ reseals' = reseals \cup {ReadyReseal(t, tabs[t].gen + 1)}
  /\ UNCHANGED <<options, issued, live, jar, boot, failures, hello, claims, calls>>

------------------------------------------------------------------------------
(* A crossing.                                                             *)

\* A GET of a prefetched path is a GET like others once the envelope is gone.
MayJoin(t) == options.hello /\ (~tabs[t].started \/ tabs[t].preboot # {})

Start(c, t, kind) ==
  /\ calls[c].at = "idle" /\ \A d \in 1..(c - 1) : calls[d].at # "idle"
  /\ Loaded(t)
  /\ kind = "boot" => MayJoin(t)
  /\ calls' = [calls EXCEPT ![c].at = "waiting", ![c].tab = t, ![c].kind = kind,
                            ![c].gen = tabs[t].gen]
  /\ UNCHANGED <<options, issued, live, jar, boot, failures, tabs, hello, reseals, claims, heard>>

\* The promise the crossing took for `ready` is settled.
Ready(t, gen) ==
  /\ gen = 0 => tabs[t].started
  /\ \A q \in reseals : ~(q.tab = t /\ q.gen = gen /\ q.call = {})

\* A GET of a prefetched path takes the envelope, once, whatever its status.
Joins(c) == calls[c].kind = "boot" /\ tabs[calls[c].tab].preboot # {}

Join(c) ==
  LET t == calls[c].tab IN
  /\ calls[c].at = "waiting" /\ Ready(t, calls[c].gen) /\ Joins(c)
  /\ \E s \in tabs[t].preboot :
       calls' = [calls EXCEPT ![c] = Settled([@ EXCEPT !.joined = TRUE], s)]
  /\ tabs' = [tabs EXCEPT ![t].preboot = {}]
  /\ UNCHANGED <<options, issued, live, jar, boot, failures, hello, reseals, claims, heard>>

\* The request with the blob of this moment; a socket that is gone rejects it.
Sent(call, blob) ==
  IF tabs[call.tab].socket \in {"failed", "closed"}
  THEN Settled(call, "lost")
  ELSE [call EXCEPT !.at = "sent", !.gen = 0, !.blob = blob]

Send(c) ==
  LET t == calls[c].tab IN
  /\ calls[c].at = "waiting" /\ Ready(t, calls[c].gen) /\ ~Joins(c)
  /\ calls' = [calls EXCEPT ![c] = Sent(@, tabs[t].blob)]
  /\ UNCHANGED <<options, issued, live, jar, boot, failures, tabs, hello, reseals, claims, heard>>

\* The gateway's exec and the backend's answer.  The auth middleware refuses before any work;
\* an answer may roll the cookie, a login makes one, a logout deletes it.  The cookies of
\* before may stay honoured or not: backends differ.
Answered(c, status, setCookie) ==
  calls' = [calls EXCEPT ![c].at = "answered", ![c].blob = {}, ![c].status = status,
                         ![c].setCookie = setCookie]

Refuses(c) ==
  /\ calls[c].kind # "login" /\ ~Honoured(calls[c].blob)
  /\ Answered(c, "refused", {})
  /\ UNCHANGED <<issued, live>>

Serves(c) ==
  /\ calls[c].kind \in {"get", "boot"} /\ Honoured(calls[c].blob)
  /\ Answered(c, "ok", {})
  /\ UNCHANGED <<issued, live>>

Rolls(c) ==
  /\ calls[c].kind = "login" \/ (calls[c].kind = "get" /\ Honoured(calls[c].blob))
  /\ issued' = issued + 1
  /\ live' \in {{issued + 1}, live \cup {issued + 1}}
  /\ Answered(c, "ok", {issued + 1})

LogsOut(c) ==
  /\ calls[c].kind = "logout" /\ Honoured(calls[c].blob)
  /\ live' \in {{}, live}
  /\ Answered(c, "ok", {0})
  /\ UNCHANGED issued

Exec(c) ==
  /\ calls[c].at = "sent" /\ tabs[calls[c].tab].socket = "open"
  /\ Refuses(c) \/ Serves(c) \/ Rolls(c) \/ LogsOut(c)
  /\ UNCHANGED <<options, jar, boot, failures, tabs, hello, reseals, claims, heard>>

\* The reply: swap the blob and send the claim; a first refusal reseals.
Retries(call) == call.status = "refused" /\ ~call.retried

Swap(c) ==
  \E k \in calls[c].setCookie :
    /\ tabs' = [tabs EXCEPT ![calls[c].tab].blob = {Seal(k)}]
    /\ claims' = claims \cup {[call |-> c, tab |-> calls[c].tab, cookie |-> k,
                                  boot |-> boot]}

\* Variant: the claim is never awaited.
SettledAtOnce(call) == Settled(call, call.status)
AfterReply(call) ==
  IF call.setCookie # {} /\ options.awaitClaims THEN [call EXCEPT !.at = "claiming"]
                                                ELSE Settled(call, call.status)

Receive(c) ==
  /\ calls[c].at = "answered"
  /\ IF calls[c].setCookie = {} THEN UNCHANGED <<tabs, claims>> ELSE Swap(c)
  /\ IF Retries(calls[c])
     THEN /\ calls' = [calls EXCEPT ![c].at = "resealing"]
          /\ reseals' = reseals \cup {RetryReseal(c)}
     ELSE /\ calls' = [calls EXCEPT ![c] = AfterReply(@)]
          /\ UNCHANGED reseals
  /\ UNCHANGED <<options, issued, live, jar, boot, failures, hello, heard>>

\* The retry carries the blob that the reseal leaves.  Variant: the one of before it.
BlobOfBefore(q, blob) == tabs[q.tab].blob
RetryBlob(q, blob) == blob

\* The reseal is over: whoever awaits it goes on, a refused crossing with the blob it finds.
Resume(q, blob) ==
  /\ reseals' = reseals \ {q}
  /\ tabs' = [tabs EXCEPT ![q.tab].blob = blob]
  /\ calls' = [c \in Call |->
       IF c \notin q.call THEN calls[c]
       ELSE IF blob = {} THEN Settled(calls[c], "refused")
       ELSE Sent([calls[c] EXCEPT !.retried = TRUE], RetryBlob(q, blob))]

\* The gateway that sealed it may have restarted since.
ResealAnswer(q) ==
  /\ \E b \in q.boot..boot :
       Resume(q, IF q.cookie = 0 THEN {} ELSE {[boot |-> b, cookie |-> q.cookie]})
  /\ UNCHANGED <<options, issued, live, jar, boot, failures, hello, claims, heard>>

ResealFails(q) ==
  /\ Failing
  /\ Resume(q, tabs[q.tab].blob)
  /\ UNCHANGED <<options, issued, live, jar, boot, hello, claims, heard>>

\* The claim is over, one way or the other: tell the other tabs, and settle what awaited it.
Broadcast(t) ==
  heard' = [u \in Tab |-> IF u # t /\ Loaded(u) THEN heard[u] + 1 ELSE heard[u]]

Claimed(m) ==
  /\ claims' = claims \ {m}
  /\ Broadcast(m.tab)
  /\ calls' = [calls EXCEPT ![m.call] = Settled(@, @.status)]
  /\ UNCHANGED <<options, issued, live, boot, tabs, hello, reseals>>

ClaimLands(m) ==
  /\ m.boot = boot
  /\ jar' = m.cookie
  /\ Claimed(m)
  /\ UNCHANGED failures

\* Refused: the ticket is of another boot; or it has expired or the request fails.
ClaimFails(m) ==
  /\ IF m.boot # boot THEN UNCHANGED failures ELSE Failing
  /\ Claimed(m)
  /\ UNCHANGED jar

\* A new key; every socket closes, and the requests on it are rejected.
Restart ==
  /\ boot < MaxRestarts /\ Failing
  /\ boot' = boot + 1
  /\ tabs' = [t \in Tab |-> [tabs[t] EXCEPT
                !.socket = CASE @ = "open" -> "closed" [] @ = "connecting" -> "failed"
                             [] OTHER -> @]]
  /\ calls' = Lose(calls, UNION {OnSocket(t) : t \in Tab})
  /\ hello' = [t \in Tab |-> {}]
  /\ UNCHANGED <<options, issued, live, jar, reseals, claims, heard>>

------------------------------------------------------------------------------
\* A crossing between its first refusal and the second answer.
Retrying(c) == calls[c].at = "resealing" \/ (calls[c].retried /\ calls[c].at = "sent")

\* Its reseal failed.
Unsealed(c) ==
  calls[c].at = "resealing" /\ calls'[c].at # "resealing" /\ failures' # failures

Doubt ==
  doubted' = doubted \cup {c \in Call : Unsealed(c) \/ (Retrying(c)' /\ jar' \notin live')}

PageStep(t) == Open(t) \/ Accept(t) \/ ConnectFails(t) \/ HelloArrives(t) \/ HelloTimeout(t)
               \/ Hear(t)
CallStep(c) == Join(c) \/ Send(c) \/ Exec(c) \/ Receive(c)
HttpStep == (\E q \in reseals : ResealAnswer(q) \/ ResealFails(q))
            \/ (\E m \in claims : ClaimLands(m) \/ ClaimFails(m))

Next ==
  /\ \/ \E t \in Tab : PageStep(t)
     \/ \E c \in Call : CallStep(c) \/ \E t \in Tab, kind \in Kind : Start(c, t, kind)
     \/ HttpStep
     \/ Restart
  /\ Doubt

Spec == Init /\ [][Next]_vars

\* A handshake succeeds or fails, timers fire, the event loop runs what is due, the backend
\* and the gateway answer and an HTTP request ends.  No page has to load or to make a crossing,
\* and nothing has to fail or restart.
Fairness ==
  /\ \A t \in Tab : /\ WF_vars((Accept(t) \/ ConnectFails(t)) /\ Doubt)
                    /\ WF_vars((HelloArrives(t) \/ HelloTimeout(t)) /\ Doubt)
  /\ \A c \in Call : WF_vars(CallStep(c) /\ Doubt)
  /\ WF_vars(HttpStep /\ Doubt)

FairSpec == Spec /\ Fairness

------------------------------------------------------------------------------
TypeOK ==
  /\ options \in Options
  /\ issued \in Cookie \ {0} /\ live \subseteq 1..issued /\ jar \in 0..issued
  /\ boot \in 0..MaxRestarts /\ failures \in 0..MaxFailures
  /\ tabs \in [Tab -> Page]
  /\ hello \in [Tab -> Optional(Hello)]
  /\ reseals \subseteq Reseal /\ claims \subseteq Claim
  /\ heard \in [Tab -> 0..Crossings]
  /\ calls \in [Call -> Crossing]
  /\ doubted \subseteq Call

\* The recovery: a crossing ends refused only when, at some moment between its first refusal
\* and the second, the jar did not hold a cookie the backend honours, or its reseal failed
\* (adapt-session-auth.mts:19-22).  What joined a prefetched GET is not retried.
RefusedOnlyInDoubt ==
  \A c \in Call : calls[c].at = "done" /\ calls[c].status = "refused" /\ ~calls[c].joined
                    => c \in doubted

\* With awaitClaims the jar changes only while the crossing that rotated it is pending, never
\* after the application has seen its reply (adapt-session-auth.mts:49-55).
NoLateRotation ==
  [][options.awaitClaims /\ jar' # jar
       => \E c \in Call : calls[c].at = "claiming" /\ calls[c].setCookie = {jar'}]_vars

\* Every crossing of a page whose socket opened settles, through a refusal, failed requests, a
\* hello that is late or lost and a restart.
SettlesOnceOpen ==
  \A c \in Call :
    calls[c].at # "idle" /\ tabs[calls[c].tab].socket = "open" ~> calls[c].at = "done"

==============================================================================
