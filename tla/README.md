# A TLA+ development of tierless

tierless compiles TypeScript functions to state machines whose frames can be serialized, so that a
running function can move between the browser and the server: it runs where the data it touches
lives. This directory models the compiler's lowering and the parts of the runtime that carry the protocol, checks
the models with TLC and proves part of what they show with TLAPS. Paths are relative to the repository's root;
`T` stands for `packages/tierless/src`.

    tlc -config MCPeer.cfg MCPeer      # any <run>.cfg with the module PROJECT.json names for it
    tlapm PeerProofs.tla

## The system

A browser and a server share one duplex connection (a websocket, websocket over HTTP/2 or
WebTransport). On each end a *peer* correlates requests with replies; on top of it

* a *session host* runs a *pump* over a stack of frames. When the program touches a resource the tier
  does not own, the pump parks. The driving tier then either **migrates** (ships the continuation and
  the parked request to the other tier, which pumps on) or **fetches** (ships only the request). The
  other tier answers `done`, `suspend` (the continuation comes back) or `error`.
* the *coherent heap* keeps objects that are too big to travel on the tier that has them; the
  continuation carries a handle. The other tier dereferences the handle into a copy, revalidated by
  version, and proposes changed copies back under a compare-and-set.
* a changed copy is written back as a *delta* against what was fetched, or as a whole; a continuation that
  goes back and forth can also travel as a delta over what the other tier holds.
* a fetched touch of an *api* resource goes on, through the server's host, to a monitor in a process of its
  own, which authenticates, budgets, authorizes and runs the call.
* a *recorder* on each tier notes touches and crossings; a profile made from its log decides later
  placements.
* a *route shim* stands before the XHRs of a page that was not written for tierless: it runs the workflow of a
  route and answers the page's GETs from what that brings.
* for applications whose backend authenticates with an httpOnly cookie, the *cookie authority* seals the
  cookie into a blob that the page carries on every crossing, and keeps the browser's jar current.

| Component | Source | State | Operations | What is hard | Status |
|---|---|---|---|---|---|
| RPC peer | `T/transport.mts` 124-160 | next id, pending map, handlers, closed | request, on, the dispatcher, the close event | nested requests, concurrent handlers, equal ids in both directions, close under load | `Peer`, proved |
| Ports | `T/transport.mts` 51-122, `T/transport-h2.mts` | the byte stream | send, onMessage, onClose | malformed frames, failing sends | as `Peer`'s channels |
| Compiler | `T/transform.cts` | the blocks of a function | normalize, compileFn, the slot table, the emitted driver | exits across try statements, evaluation order, which slots a segment may touch | `Source`, `Lowering` |
| Pump | `T/runtime.mts` | the stack | step, service, park home, unwind, dynamic dispatch | where an error enters the program, on which tier | `Machine`; not dispatch and twins |
| Session host | `T/host.mts` | the driving call, the handler at work, sid, the batch queues | run, call, runLocal, drive, settle, step, handleStart/Resume/Exec/ExecBatch, finish, batchExec | a continuation that moves, loss under way, releasing on both sides, one reply for many callers | `Session`, `Workflow`, `Service`, proved; not twins |
| Coherent heap | `T/coherence.mts`, `T/fetch.mts` 32-43 | masters with versions, excisions by sid, the reader's cache, provenance | deref, writeBack, serve, release | state read before an await and used after it, rejected writes, eviction | `Coherence`, proved |
| Bounded store | `T/store.mts` | recency order, weights, total | get, set, evict, shrink | pinned entries, entries over the budget | its effect in `Coherence` |
| Delta codec | `T/wire-delta.mts` | ids, store, seen, dirty, baselines | touch, plan and commit, apply, adoptBaseline; openSnapshot, diffSnapshot, applySnapshot | two sides that number objects independently, a pruned walk | `DeltaSession`, `Snapshot`, proved |
| Trace, profile, decide | `T/trace.mts` | counters in the root frame, records, profile | stamp, res, ship, end; buildProfile, methodMigrate, decide | counters that travel with the stack, records of two tiers | `Trace`, proved; not decide and sizes |
| API monitor | `T/api/api.mts` | functions, rate windows, audit | handle | the window's edges, an await between the decision and its inputs | `Service`, proved |
| API sidecar | `T/api/sidecar.mts` | ids, pending calls, the child process | serve, call, exit | replies in any order, a child that exits | `Service`, proved |
| Session auth | `T/session-auth.mts`, `T/adapt-session-auth.mts` | sealed blob, cookie jar, claims | exec, rotate, reseal, claim, hello | rotations out of order, several tabs, retry after 401, restarts | `SessionAuth`, proved |
| Endpoint, client | `T/server.mts`, `T/browser.mts` | live connections, hosts by module, hello | attach, serve, connect | the order of registration, the cap, the hello's timeout | the hello in `SessionAuth` |
| Content addressing | `T/content.mts` | hashes the peer has | encode, learn | recorded as known before it has arrived | not modelled |
| Codecs | `T/graph.mts`, `T/wire-binary.mts`, `T/wire-io.mts` | none | encode, decode | bytes | not modelled: data, not protocol |
| Route shim | `T/adapt-shim.mts` | the run in flight, the memo, each XHR | navigation, open, send, the events of a leader | held GETs, followers of a request that fails, writes that overtake | `Shim`, proved |
| Build, UI glue, CLI, examples, ports, benches | `T/vite.mts`, `T/adapt.mts`, `T/adapt-axios.mts`, `T/react.mts`, `bin`, `packages/create-tierless`, `examples`, `ports`, `bench` | | | | not modelled: no protocol of their own |

`T/heap.mts` is the synchronous predecessor of the coherent heap, used in tests and benches; it is not
modelled apart. The `.mjs` and `.cjs` files are generated from the `.mts` and `.cts` next to them.

The hazards the properties answer to are listed, each at its line, in `PROJECT.json`.

## The modules

### Peer (`T/transport.mts`)

Both ends of a connection. `nextId`, `pending`, `handlers` and `closed` are the variables of
`makePeer`; `call` is the promise each `request` returns; `running` holds the handlers that have been
started and have not replied, `wire[s]` the frames on their way to end `s`. One action per outcome of
`request` (`RequestClosed`, `RequestSent`, `RequestThrows`), one for `on` (`Register`), one for each
branch of the dispatcher (`ReceiveReply`, `ReceiveRequest`), and the close event. A handler that returns
is a promise: it may issue a request of its own and await it (`HandlerRequest`, `HandlerResume`), and any
running handler may be the next to finish (`HandlerDone`). One that throws before it returns
(`ThrowsAtOnce`) is called in the argument of `Promise.resolve` (137), outside the `.catch`: no reply is sent.
A `wsPort` goes on with the next frame; in `wtPort` the throw is caught outside the read loop (113), so the end
reads no more and has its close event.

`reads[s]` says that frames toward end `s` are carried and read. `LinkDown` stands for `ws.close` by either end and
for a network failure and ends both directions; `CloseWriter` is `wtPort.close`, which ends one. A frame that
cannot arrive is discarded at its send, and an end whose direction is over processes what had arrived or drops
it with its `CloseEvent`. Frames are well formed, since every frame comes out of `encodeMessage` of the same build
(a malformed one would close a WebSocket and be skipped by `wtPort`). Payloads are a request type and a reply value.

* `Correlated`: a call gets an answer made for it.
* `PendingIsWaiting`: the pending maps are the waiting calls, no more and no fewer.
* `SettledOnce`: a promise settles at most once.
* `EverySettles`: it does settle, unless a handler threw at once for it (or for a call its own handler awaits), or
  its end of a WebTransport stream is half closed: it still reads, and the other end no longer does.

### Coherence (`T/coherence.mts`, `T/fetch.mts`, effects of `T/store.mts`)

One object of the owner tier behind one or more handles, the owner's heap (`objs`, `version`), an
owner-side run that holds the object (`local`), the reader tier's runs and the cache they share. A run is
a control point, because `deref` and `writeBack` are interrupted at their awaits: `DerefLookup` (the
await of the cache), `DerefSend`, then `DerefSame`, `DerefFetched` or `DerefError`; `WriteLookup`, then
`WriteApply` or `WriteReplace`, then `WriteApplied`, `WriteReplaced` or `WriteRejected`. A mutation and its
`WriteLookup` are one step: the pump runs both in one turn. Requests and replies are FIFO, and each reply
goes to the run that asked (`Peer` shows that). The contents are slots, each with the number of the
write that filled it last, which is what lets a property say that a write was *seen*. Other objects
appear as eviction (`Evict`) and as an entry too large for the cache (`DerefFetched`). `hist`, `seen`,
`floor` and `rejected` (the copies through which a write-back was rejected) are history.

* `NoLostUpdate`: an accepted write-back overwrites nothing its writer had not seen.
* `FreshRead`: a dereference returns, slot by slot, what the master was at one version no older than when it
  began. The one thing it may return instead is a write that the master has never had: of a run that is
  writing through this very copy, or left in a copy whose entry had been captured before the owner rejected a
  write-back through it.
* `CacheCoherent`: an entry nobody writes through is what the master was at the entry's version.

### Snapshot (`T/wire-delta.mts` 509-568 and what it calls)

One master, an array of objects; one reader's copy. The actions are the program's mutations (`Edit`,
`Insert`, `Delete`), a write-back, and a fresh fetch. Ids are as the code makes them: both sides number
the objects in the order of a walk, the reader at the fetch, the owner anew at every write-back, and the
reader gives objects it creates ids of its own. `ArrayRecord` is `planRecord` for arrays (patch or
whole), `Delta` and `Whole` the two messages, `Bytes` the lengths that choose between them, `WriteBack` the
exchange: name, diff, apply on the owner in two passes (shells, then contents), advance the baseline.

* `FirstReshapeLands`, `IdentityPreserved`: until a write-back with insertions or removals has been
  shipped from this copy, every write-back lands, on the master's own objects.

### DeltaSession (`T/wire-delta.mts` 311-470, driven as `test/e2e/delta-live.mts` does)

A continuation is a graph of objects under the frames' locals. Two tiers take turns: the one that has it
writes (`Write`, `Link`, `Attach` with the write hook's `Touch`, and `SetLocal`, for which there is no hook) and ships it, in full or as
a delta, and the other applies what arrives. The sessions have the code's fields: `idOf`, `store`, `next`, and
for a tracked session `seen` and `dirty`, for a rescan session `peerVer`. `Walk` is the depth-first walk that the
code writes as `visit`, `recurse` and `assign`; `skip` is what a walk does not enter. `SelectDirty` is the pruned
walk, `SelectDirtyExact` and `SelectChanged` the two exhaustive ones, `AdoptBaseline` the naming of a full frame,
`WithShells` and `Filled` the two passes of `reconstruct`. `Shape` is a graph up to the identity of its objects.
A handle is an object without slots; patches are in `Snapshot`; the hash of a version is taken to be
injective. Where only that names are new and distinct matters, the order in which a tier gives them out is that of
its objects, and the records of a delta are a function on names.

* `StoresOK`: an object in a store has the name it is stored under, what is taken for known is in the store, and
  slots and locals refer to objects.

* `Agree`: what arrives is what was sent, contents and sharing, however little crossed.
* `NamesAgree`: both tiers call what has crossed by the same names, on which every later delta relies.

### Workflow and Session (`T/host.mts`, `T/runtime.mts`)

`Workflow` is the abstract specification: a program is a sequence of touches, and it says what may
happen of them, in which order and on which tier, and what the program sees of them, without messages or
continuations moving. `log` is what happened, `saw` what the program saw: how each touch went, and where that
comes from. A touch happens and is seen (`Touch`), or happens on the far tier while the program waits
(`TouchAhead`, `See`). A touch of a resource away from home may be given up before it is sent (`Unsent`), and
never happens; once the connection is down its answer may be `Lost`, and then it may happen late (`TouchLate`).
Nothing follows a failure that is not caught, and a session ends with a value only when each touch has been
seen. The one exception is an action with a name, `Repeat`: under runLocal a touch of the home tier that comes
after a fetched or pinned one, or after another repeated one, may be answered with the answer before, and not
happen.

`Session` is the host. A program is a sequence of segments; each says which tiers it can run on (the
stop rule), which tier owns the resource it ends with, whether a try/catch surrounds it and whether it
is pinned. `driver[s]` is the awaited call on the home tier (run, call or runLocal, by `mode[s]`),
`remote[s]` the handler on the other one, `toward[t]` the frames in flight, `held[t]` the sessions for which
tier `t` has excised masters, `log[s]` the touches that took place. A continuation is a segment and what it
is parked for. The driver's choice between fetching and migrating is open (`decide` and the application's
`migrate` choose in the code), so what holds here holds for every profile. Any touch may fail, any
continuation may fail to encode, and the connection may break at any time. `driver[s].carried` is the value or
error that runLocal keeps for the pump call it is in (`c`, 286-293): `PumpingWith` begins such a call,
`DriverServices` executes a touch only when nothing is carried, `DriverRepeats` answers one with what is. It ends
with the pump call, at the next park. In drive's `runPump` (143-144) the touch that was parked for consumes it.
`saw` is history.

* `KeepsPromise`: the refinement `Workflow`: each touch happens at most once, in program order and where its
  resource lives, and the program sees what came of it, but for `Repeat`.
* `OneContinuation`: never two copies of a running continuation, never none on a live connection.
* `ReleasedAtEnd`: no masters of a finished session stay on either tier (run and call).
* `EverySessionEnds`: liveness.

### Source, Lowering, Machine (`T/transform.cts`, `T/runtime.mts`)

`Source` is the source language and what a program in it means in JavaScript: a recursive evaluator whose
calls take their outcomes from a script, so that what a call gives is chosen and not computed. It is the
reference and is marked external in the map. `Lowering` is the compiler: `Norm` is `normalize` (loops with
suspending heads desugared, `?:`, `&&`, `||` lifted, suspensions hoisted), `CompileStmt`, `CompileTry` and
`AbruptExit` make the blocks, `SlotTable` the stop rule's table. `Machine` runs the blocks: `Dispatch`,
`UnwindStep` and `Unwind` are the emitted driver, `StepFn` a call of the emitted step function (one action:
it is synchronous), and the actions are the pump's: a step that returns, calls, throws, escapes or touches
(`StepReturn` and so on), a park home, a migration, the service of a touch. `Choose` decides an outcome when
the computation asks for it. Slots hold values on their home tier and handles elsewhere; a read of a handle
is an event of its own (`misread`), which no source program has.

* `Faithful`: under every script the machine does the calls the source does, in the same order, each once,
  catches the same errors, reads no handle, and ends the same way; it asks for an outcome where the source
  does.

### SessionAuth (`T/session-auth.mts`, `T/adapt-session-auth.mts`, the hello of `T/browser.mts` and `T/server.mts`)

A gateway, a backend, a browser with one jar and several tabs. `tabs[t]` is a page: its socket, its `blob`,
which promise `ready` is (`gen`) and the `preboot` buffer. `calls[c]` is one `wrap`ped crossing between its
awaits: it waits for the `ready` it found (`Start`, `Send`, or `Join` for a prefetched GET), is served
(`Exec`), comes back (`Receive`), and after a refusal awaits a reseal (`Resume`) and is sent once more.
`reseals` and `claims` are the HTTP requests in flight; a reseal has read the jar when it left, as a
browser does. `heard[t]` counts broadcasts, `hello[t]` is the frame after the upgrade. `Restart` changes the
key and closes the sockets for good: `browser.mts` never opens another, and `shared` is not reset.

There is one cookie, a value per Set-Cookie. The backend is external and known by what the probe's
backend and the comments assume: its middleware refuses before any work, a login makes a cookie, any
answer may roll it, a logout deletes it, and cookies of before stay honoured or not. A reply that both
refuses and sets a cookie, several cookies in one header (`mergeCookies`), the origin gate and requests
before the server's handlers are registered are left out.

* `RefusedOnlyInDoubt`: a crossing ends refused only if, while it retried, the jar held no cookie the
  backend honours, or its reseal failed.
* `NoLateRotation`: with `awaitClaims`, the jar changes only under a pending crossing.
* `SettlesOnceOpen`: crossings of a page whose socket opened settle.

### Service (`T/host.mts` 362-480, `T/api/sidecar.mts`, `T/api/api.mts`)

The path of a fetched touch of an api resource. `queues` are `batchExec`'s, by the whole payload; `Flush` makes
one request of each, `Serve` is `handleExecBatch` (or `handleExec` for a single call) over `makeApiExec`, which
posts every call under the token of the host that the request's payload leads to. `pending` is the sidecar
client's map; `toChild` and `toParent` are the pipe; `work` holds the calls whose `handle` awaits something.
`handle` is `Refuse` (before the token is looked at), then `Deny` or `Allow` (from the verified token to the
authorizer, one turn, with `Count` for `_allowRate`), then `Ran`. `Close`, `Exit` and `NoHost` are the
failures, `Tick` the clock. Values are the call whose run made them, so a property can say whose answer a
caller got.

* `OwnAnswer`: a caller gets the outcome the monitor came to on that very call.
* `JudgedAsItself`: each call is judged at most once, under the token that goes with it.
* `Budget`: what the fixed window admits: no more than the budget after a quiet window, no more than
  two budgets in any window, and no denial below it.
* `WindowsBounded`: the map of windows forgets who left.
* `EverySettles`: every call settles, or was posted together with one for a process that had exited.

### Trace (`T/trace.mts`, where `T/host.mts` calls it)

One run that is driven by `run`, `call` or `runLocal`, with or without a profile that prices its parks, and
with a recorder on one tier or both. `flag[t]` is `__trace` in the root frame of the stack tier `t` has; `Ship`
advances its counters before the encoding, as `rec.ship` does, or after it where drive ships the wire it
encoded to price the park. `log` is the common log. `buildProfile` and `methodMigrate` are operators over it
(`SuffixesOf`, `MethodMigrate`). `path` is the history: the touches that succeeded, as the program saw them (also
one that runLocal answers with what it carries: the recorder does not tell it apart), and the crossings.

* `InOrder`: sorted by `seq`, the records are in the order of what happened, and an end comes last.
* `SegmentsApart`: where everything is recorded, the log tells the path event by event, and two touches have one
  hop exactly if the continuation did not cross between them.
* `ProfileTrue`: what the profile says followed each touch did follow it, as often, and a method boundary
  migrates only where a chain has followed 9 times in 10 (a site's threshold of stability).

### Shim (`T/adapt-shim.mts`)

A page's requests to its API. `runs[r]` is a workflow with the bundle it returns, `inflight` the one GETs are
held for (`inflightKey` and `inflightUntil` follow from it: they are set together), `gets[g]` an XHR between
`send` and its load event, `memo[k]` the request that leads the GETs like `k`. `Send` is `send` of a GET: held
while a run is fresh, else `SendViaMemo`. `Land` is the continuation of a held one, `Replay` and `FallBack` that
of a follower; these are reactions to a promise and run before the next task (`Quiet`). `Fails` is the error or
abort of a request on the network, `TimesOut` a timeout the page has set on it, `SendWrite` any other method,
with `Invalidate`. What a request sees of the backend is the set of writes made when it reads, at any time
between its request and its answer.

* `AnswersFresh`: an answer was asked for less than the window before the GET it is given to, and shows every
  write acknowledged by then, other than those in flight when it was asked for.
* `OneRide`: within a window and between writes, identical GETs make one request unless one fails.
* `EverySettles`: every GET settles, but for those that ride with a request that timed out.

## What the runs check

Except in `lowering`, executions are bounded and simply end, so no other configuration checks for deadlock;
that nothing is stuck is checked by the liveness properties where something is owed. In `lowering` a machine
stops only at its end or at the bound on choices, and a deadlock would be a machine that cannot go on.

| Run | Instance | Shows |
|---|---|---|
| `peer` | both ports; 3 calls, 1 type, ids to 2 | all five properties of `Peer`. Three calls are a request nested in a request nested in a request (two of one end, one of the other), and equal ids in both directions |
| `coherence` | 2 runs, 1 handle, 2 slots, 3 writes, 2 copies | the three properties above. Two copies are the fewest for an entry that is another run's; three writes let both runs and the owner write; runs and slots are interchangeable |
| `snapshot` | 3 objects, 3 mutations | every batch of three mutations and every division of them over write-backs and fetches |
| `second-write-back` | as `snapshot` | violated: a write-back after one that reshaped patches the wrong object |
| `session` | 1 session, programs of up to 2 touches, 3 modes; 2 sessions from opposite tiers, 1 touch each | the properties above for 272 programs, and for what sessions share |
| `session-auth` | 2 tabs, one up and one loading, 2 crossings, 1 failure or restart; the options of the n8n and the Strapi port | the properties above. A second crossing is what a rotation, a logout or a refusal meets; every crossing may make a cookie |
| `lowering` | 3293 runs of programs: every exit out of every pair of 15 constructs, out of triples of those with handlers, across a call; 7 suspending expressions in 9 places; slots read in handlers, at home on either tier; up to 5 open outcomes | the properties above. Two constructs are what an exit crosses at the least; three are a finally between two others; five outcomes take two rounds of a loop and an exit |
| `finally-twice` | a return through a finally that can fail | violated: the finally runs twice |
| `delta-session` | 3 ways to find changes, 2 locals, objects of 2 slots, 2 writes, 6 crossings, 1 full frame | the properties above. Two slots give sharing, cycles and a change of order; six crossings are three round trips |
| `service` | up to 3 calls over 2 routes; one failure of each kind, or a clock of up to three windows of 2 ticks with a budget of 1 | the properties above. Three calls are a batch of two and another; three windows are the least in which an entry is old enough to be swept late |
| `trace` | 3 sites, 2 on one tier; every path of up to 5 touches and crossings; 6 ways to drive the run | the properties above. Five events are a touch, a crossing, a chain of two and its cut |
| `shim` | 1 path, 2 routes (one whose bundle has the path), 4 GETs and workflows, at most 3 GETs and 2 workflows; 1 write, 1 failure, 1 tick, a window of 1 | the properties above. Three GETs are a leader, a follower and one that finds what they left; two workflows are a navigation that another overtakes; a moment is within the window or not. The entries of the memo do not interact, so one key is enough |

The two violated properties state what a comment or a document of the repository says; the finding in
`PROJECT.json` quotes the line.

* *second-write-back.* Delete the first element, write back, edit another element, write back. In the
  reader's numbering the edited element is still `@2`; the owner has renumbered it `@1`.
* *finally-twice.* `return` in a `try` with a `finally`. The abrupt exit goes to the finally without
  marking its handler as entered; a touch in the finally fails, `__dispatch` finds the handler and enters the
  finally a second time, with the error as what is pending.

### Divergences without a run

Found while modelling, and left out of the properties by a named condition or by the choice of the instance.

The compiler (`T/transform.cts`; the generator in `MCLowering` leaves these programs out):

* a try/finally inside a finally resets the pending completion (538), so the outer return or error is
  forgotten;
* break or continue inside a finally, to a loop within it, pops the handler of the finally itself, because the
  handlers are counted from the tryDepth of outside and the tries from inside (543);
* an error of plain code (not a touch and not `throw`) inside a compiled try leaves the step function and is
  caught by nobody (`StepEscape`);
* lifting `?:`, `&&`, `||` (387-393) and hoisting (403-414) run before the calls of plain code that precede
  them in the statement;
* the argument of `throw` is computed again when it escapes the frame (583), the discriminant of a `switch`
  once per case (484);
* a `do` or `for` with a suspending test becomes a block (354-385), so `continue label` finds no target;
* block-scoped locals of one name share a slot;
* a segment that needs slots of both tiers parks home back and forth for ever (`runtime.mts` 162-163).

The heaps and deltas:

* a dereference that captured a cache entry before another run's write-back was rejected may be answered `same`
  and return the copy with the rejected write (`coherence.mts` 152: "the cached copy is still coherent").
  `FreshRead` excepts it by name: without `c \in rejected` the run `coherence` is violated in 21 states, and
  without `Writing(c)`, for a copy that another run writes through, in 10;
* `Heap.put` gives an object a new id and version at every excision (`fetch.mts` 40), so two continuations
  that carry the same object each pass the compare-and-set, and one update is lost (`docs/architecture.md` 161-163:
  "no lost updates");
* a session that adopts a second baseline skips an object whose old `@k` has just been given to another one
  (`wire-delta.mts` 461-462): with a second full frame (`MaxFull = 2`) `NamesAgree` and `Agree` fall. It has
  the root cause of *second-write-back*; `docs/architecture.md` 141-143 and the comment at 445-449 say that the
  two stores agree;
* `runLocal` never releases what the peer excised for it (`host.mts` 326; `docs/architecture.md` 176-178);
* a `replace` puts a new object into the owner's heap, and an owner's run that holds the old one then bumps
  the version for an object that is no longer the master (`coherence.mts` 163-168, 219); an owner's write-back
  after its handle was released makes the version NaN (164);
* an entry is said to be pinned until its write-back *lands* (`docs/architecture.md` 174-175), but the baseline
  advances when the delta is made (`coherence.mts` 173), so an entry in flight can be evicted; `NoLostUpdate`
  and `FreshRead` hold in spite of that. A writer is said to refetch and retry after a conflict
  (161-163), but `writeBack` returns (`coherence.mts` 177-181).

Sessions, services and traces:

* a dropped connection is to settle every request, "instead of hanging it forever" (`transport.mts` 122-125), and a
  handler's error is to come back as a reply (139). A handler that throws before it returns (the `deref` and
  `writeback` of `coherence.mts` 206-222, the decoding in `host.mts` 350-357) is outside the `.catch`, and its caller
  waits on a live connection; and `wtPort.close` (120) gives its own end no close event, so what that end
  asks from then on is swallowed (117) and waits for ever. Without the named exceptions `EverySettles` falls at
  each of the two, in four steps;
* a value that runLocal fetched is to serve one touch: "one-shot exec: the first service() call consumes the fetched
  result (or throws the fetch error INTO the machine); anything else this tier owns runs normally" (`host.mts` 287-288).
  `onceBase` (289) never clears `c`, as `runPump` does (144): each further touch of the home tier in that pump
  call gets the same value or error, and does not happen. Without `Repeat` in `Workflow` the run `session` is
  violated in four states;
* a connection lost under a migrated touch ends the session, under a fetched one it enters the catch around
  the touch (`host.mts` 188-197);
* where drive prices a park it ships the wire it encoded for the price, made before the counters are advanced
  (`host.mts` 183, 194), so the other tier's records repeat them (`trace.mts` 108-111 and 172 say the opposite):
  `behind` in `Trace`. What drive's fetch arm fetches is not recorded at all (`host.mts` 144): `missed`. And
  runLocal ends its run with the flag of the stack it had at first (279, 294);
* the rate budget is called a sliding window (`api.mts` 46, 126) and is a fixed one: `Budget` says what that
  admits;
* a call posted to a sidecar that has exited is never settled by the client (`sidecar.mts` 63, 67-71):
  `Unanswerable`. What Node does about the failed send (an error event on the child, to which nothing
  listens) is outside the model, and so is a `child.send` that throws (70), which rejects the call and leaves
  its entry in `pending`;
* `connect`'s `hello` is settled by the frame or by a timer that the open event starts (`browser.mts` 125); after
  an error event neither comes, and `cookieSessionAuth` waits for it before it sends anything
  (`adapt-session-auth.mts` 114), although a gateway that never sends a hello "must not hang crossings":
  `SettlesOnceOpen` is about pages whose socket opened;
* two reseals of a tab in flight: the one that read the jar before a logout may be answered last, and `blob`
  is the deleted cookie again (`adapt-session-auth.mts` 76; `test/probes/session-auth.mts` 106);
* `session-auth.mts` 18 says that sockets reconnect after a restart of the gateway; nothing reconnects
  them, and a rotation whose claim the restart overtakes is lost to the jar.

The route shim (`T/adapt-shim.mts`):

* a GET, or a workflow, that is sent while a write is in flight may be answered from before the write, and the
  memo or the bundle gives that answer to a GET sent after the write was acknowledged, for up to ten seconds;
  the comment says "a held GET after a POST must see the world the POST made" (177-178). Without the exception
  for the writes in flight `AnswersFresh` falls in seven steps;
* a held GET is said to wait only while the run is fresh (56), but nothing ends the wait (193): a workflow that
  never settles, such as one behind the failed handshake above, holds the page's GETs for ever;
* nothing listens to a leader's timeout (143-145): those who ride with it, and those who join within the
  window, are never answered (`Stranded`);
* the events of a leader delete the entry of the key, not their own (144-145): after a write they may delete
  that of a new leader, and one more request goes out;
* the memo is keyed by the authorization too, because "a URL-only key could hand one principal's cached data to
  another" (134); the bundle is keyed by the URL alone (191-194).

The delivery of a trace (`T/browser.mts` 127-149): a batch that fails goes back to the buffer, but the batch
already chained behind it is sent all the same (138), so an `end` may arrive before records of its run or, once
the buffer is given up, without them; 130-131 and 134 say that it may not. `Trace` begins with the log as it is.

Content addressing (`T/graph.mts` 129-138): the hash of an object counts as known to the peer (135) from the capture
on, although the frame may not be delivered, or the object be excised after all (138).

### Fairness

`Peer`, `Session`, `SessionAuth`, `Service` and `Shim` state weak fairness for what the JavaScript runtime guarantees: a frame that arrived
is dispatched, a promise whose awaited value is there goes on, an end whose direction of the connection is over
has its close event (nothing makes a direction end: a `wtPort` that has closed its writer reads on until the
other end is done), a timer fires, an HTTP request is answered or fails. Handlers and resources are assumed to settle in the end; nothing in the code
forces that (there is no timeout on a request), and without it no call need ever finish. The connection
need not break, no program need begin, and no choice inside a step is fair. `Service` has one weak fairness
condition over all that makes progress (turns, frames, the monitor's awaits), `Shim` one over reactions, the end
of a request and the end of a workflow: every behaviour has finitely
many such steps, so each of them is taken in the end; the clock need not advance and nothing need fail. That a
workflow ends is what `EverySessionEnds` says of a session.

## What is proved

The theorems hold for every value of the constants that the named assumptions of each module admit; TLC evaluates
the assumptions in the runs. Each rests on an inductive invariant, with one lemma for each action; each invariant
was put to TLC, on the instance of the module's run, before it was proved.

| Module | Theorem | States |
|---|---|---|
| `PeerProofs` | `Invariance` | `Spec => []IInv` |
| | `TypeCorrect` | `Spec => []TypeOK` |
| | `CorrelationHolds` | `Spec => []Correlated` |
| | `NoCallStranded` | `Spec => []PendingIsWaiting` |
| | `SettlesOnce` | `Spec => SettledOnce` |
| `CoherenceProofs` | `TypeCorrect` | `Spec => []TypeOK` |
| | `AcceptedWritesLoseNothing` | `OneHandle => (Spec => NoLostUpdate)` |
| | `DereferencesAreFresh` | `OneHandle => (Spec => FreshRead)` |
| | `CacheIsCoherent` | `OneHandle => (Spec => []CacheCoherent)` |
| `SessionProofs` | `TypeCorrect` | `Spec => []TypeOK` |
| | `OneHolder` | `Spec => []OneContinuation` |
| | `Released` | `Spec => []ReleasedAtEnd` |
| | `PromiseKept` | `Spec => KeepsPromise`: `Session` implements `Workflow` |
| `ShimProofs` | `TypeCorrect` | `Spec => []TypeOK` |
| | `RidesOne` | `Spec => []OneRide` |
| | `FreshlyAnswered` | `Spec => AnswersFresh` |
| `ServiceProofs` | `TypeCorrect` | `Spec => []TypeOK` |
| | `AnswersAreOwn` | `Spec => []OwnAnswer` |
| | `NobodyElse` | `Spec => []JudgedAsItself` |
| | `BudgetHolds` | `Spec => []Budget` |
| | `MapBounded` | `Spec => []WindowsBounded` |
| `SessionAuthProofs` | `TypeCorrect` | `Spec => []TypeOK` |
| | `RefusalsInDoubt` | `Spec => []RefusedOnlyInDoubt` |
| | `RotationsAwaited` | `Spec => NoLateRotation` |
| `TraceProofs` | `TypeCorrect` | `Spec => []TypeOK` |
| | `RecordsInOrder` | `Spec => []InOrder` |
| | `LogTellsThePath` | `Spec => []SegmentsApart` |
| | `ProfilesAreTrue` | `Spec => []ProfileTrue` |
| `DeltaProofs` | `TypeCorrect` | `Spec => []TypeOK` |
| | `ReshapeLands` | `Spec => FirstReshapeLands` |
| | `FetchedStayThemselves` | `Spec => IdentityPreserved` |
| | `StoresAreSound` | `MaxFull <= 1 => (DeltaSpec => []StoresOK)` |
| | `DeltasAgree` | `MaxFull <= 1 => (DeltaSpec => []Agree)` |
| | `DeltaNamesAgree` | `MaxFull <= 1 => (DeltaSpec => []NamesAgree)` |

### Peer

The assumptions are that `NoCall` is not a call and that `MaxId` is a natural number. `Correlated` is not
inductive: that a reply frame carries a value made for the *pending* call must be known while the frame
is in flight. `IInv` therefore adds `FreshSlots` (ids not given out yet have empty slots), `FramesBelong`
(a frame that names id `i` and call `c`: if the slot `i` of the end that asked is taken, it is by `c`, and a
reply's value was made for `c`) and `HandlersBelong` (the same for a running handler). With it each
action preserves each conjunct on its own; the lemmas about a step follow the shape of `Next`.

### Coherence

The assumptions are that the bounds are naturals and that there is a handle. The proof has four layers: `SInv` rests on
`TInv`, and `CInv` and `FInv` each on `SInv`.

* `TInv`, for the types. That a reply finds its run at the await it answers needs `Places`: which requests and
  replies go with which point of a run, at most one of them in flight for each run, and that an entry of the
  cache is a copy of its own handle. That versions and copies stay within their bounds needs two budgets, which
  count what is under way.
* `SInv`, for `NoLostUpdate`. It follows a version wherever it travels: a copy, an entry, a
  request or a reply that claims a version has seen all that the handle stood for when that version was the
  master's, and the master's own version stands for its content. A write-back whose version is the master's has
  then seen the master. The histories only grow and what was seen stays seen, which is what carries the
  invariant over the steps of others.
* `CInv`, for `CacheCoherent`. The property is silent while a run writes through an entry, and that is where it
  could get lost, because the baseline advances when the delta is made and other runs may write through the same
  entry meanwhile. `CacheSynced` says what such an entry is: doomed, because a write-back through it is
  bound to be rejected and will drop it, or written through by exactly one run, whose write-back makes of
  the master what it has made of the baseline.
* `FInv`, for `FreshRead`, about every copy, in the cache or captured by a run. A write the master has never had is in
  one slot of one copy and in the write-backs made through it (`Private`), so it cannot come from elsewhere. For the rest
  a copy matches the master at its version, or at the one that the only acknowledgement on its way will give it
  (`MatchedCopy`), because a write-back that would be accepted is of the copy's version (`JudgedCopy`). Whatever the
  master has not had is owed to the owner, unless a write-back through the copy was rejected (`OwnedCopy`,
  `OwnedContent`): if no run writes through it, nothing is owed. And `same` names no version later than the
  entry's (`Confirmed`).

`TypeCorrect` holds for any number of handles. The other three are proved for an object that has one (`OneHandle`):
with two, each handle counts its own versions, a write through one is not seen by the compare-and-set of the
other, and the properties do fail (under the divergences above, `fetch.mts` 40). The run `coherence` has one handle
for the same reason.

### Session

The assumptions are that every session has a home tier and that the programs are programs (`CastsAssumption`).
None of the properties is inductive: where a continuation is depends on the frames in flight and on what
the other tier works at. `SInv` is a conjunction over the sessions of

* `Placed`: what the driver awaits, what the far tier works at and the frames of the session in flight fit
  together (at most one request or reply, on one side of the handler; none at all on a live connection
  only if nobody waits). `OneContinuation` and the types follow.
* `Freed`: a session that is over is held nowhere, but where a release is on its way. `ReleasedAtEnd` follows.
* `Ordered`: the continuation, wherever it is, agrees with the history. One that may run is at the touch after the
  last one the program has seen (`Ready`); a fetched touch that has not happened is the next one, or one that the
  program was told is lost with the connection (`Pends`); a reply tells what the log says (`Tells`); nothing has
  happened beyond what was seen, unless the driver fetches (`Behind`); and what runLocal carries is the answer the
  program saw last, of a touch that was not one of the home tier or was itself a repeated one (`Bears`). A
  repeated touch after a repeated one takes three touches, more than the run has: that case is covered by the proof.

A step of a session leaves the other sessions' parts alone, by lemmas about what adding and removing a frame does
to the frames of each session; then each action is left with its own session. Each lemma about an action ends in
`Preserved`: the invariant holds again, and the step is a step of `Workflow` or leaves its variables as they are.
With `Init => Promise!Init` that is the refinement. `Workflow` states no fairness; `EverySessionEnds` is about
liveness and stays with TLC.

### Shim

The assumptions are that there are keys and routes and that the window is positive (`MEMO_MS` is 10000,
`adapt-shim.mts` 117). The proof is about moments: a moment recorded at a request lists the writes sent and in
flight by then, so that a write neither unsent nor in flight had been made (`Known`). The run in flight and the
leaders in the memo were asked for since the last write (`InflightCurrent`, `MemoCurrent`), because a write
forgets both; what a GET finds there within the window can answer it, and still can when it comes back
(`Served`). For `OneRide`, a leader leaves the memo for another one only when its window is over, and
otherwise by a write or a failure of its key (`Alone`).

### Service

The assumptions are that the budget and the window are positive and that the settings are settings
(`ServiceAssumption`). `SInv` has five parts. The first four follow a call from hop to hop:

* `Browsing`: a call is in one queue or in one request at most, and every request has calls of one payload
  (`batchExec` keys its queues by the whole payload). That is what makes the token of the first waiter's host
  right for all of them, and `Part` find the right element of a reply.
* `Posting`: the client has taken a call on once at most, under an id of its own; what is queued, on its way in
  an unserved request, or answered `no reply` has not been taken on.
* `Judging`: a post on the pipe or at work in the monitor is one of a call that was taken on, under its own
  principal, not judged yet, and the only one; a counted call is past the verification. `JudgedAsItself` follows.
* `Telling`: what is on its way back (on the pipe under an awaited id, a verdict, an element of a reply, a result)
  is in the monitor's log of that call, or the process has exited, or it is one of the browser's own errors.
  `OwnAnswer` follows.

`Timing` is about the clock. `Budget` speaks of any window of the clock, the monitor counts in windows that begin
with a call, and it forgets them (the sweep). So `Timing` says that there are windows for each principal, `starts`,
that do not overlap, hold every call counted so far and admit a budget each, and that the one the monitor
remembers is the last of them, with its count. Any window of the clock meets two of these at most, and one if
the principal was quiet before it. `Swift` says that the last sweep is recent with regard to every remembered window
and every counted call, of which `WindowsBounded` is a consequence.

### SessionAuth

The assumptions are that the bounds are naturals, that there is a tab (`TabAssumption`) and that the options are
options. `AInv` adds three things to the types:

* `CallsKept`, for each crossing. A first refusal is followed to its end (`Recovers`): unless the crossing is in
  doubt, its reseal has read a cookie the backend honours, the jar's is still honoured while it waits, and if its
  socket is open the reseal was made under the key of this boot. A restart closes every socket, so
  what a reseal of an older key brings is rejected with the socket and never refused; the blob of the second
  request opens or the crossing is in doubt. `RefusedOnlyInDoubt` is the last conjunct.
* `ClaimsKept`: a claim in flight is of one crossing, which is still `claiming` it if the pages await claims, and
  carries that crossing's cookie. `NoLateRotation` follows, since only a claim that lands changes the jar.
* `Budgets`, for the bounds of the types: a crossing rolls the cookie once (`MayRoll`), and is the reason of one
  broadcast to each tab at most (`Unclaimed`), so that cookies and promises never outrun `Crossings`.

`SettlesOnceOpen` is about liveness and stays with TLC.

### Trace

The assumptions are that every site has an owner, that the settings are settings and that the bound is a natural
number. `InOrder` says nothing of the counters that ride on the stack; `Ordered` adds that they are past every
record and that nothing follows an end, unless a stack left with the counters of before. `Counts` relates hops to
crossings: the hop of a record is that of a later record, and of the stack that runs, exactly if no
crossing was recorded from the one to the other. `Tells` says that on a run of which everything is recorded the
flag is on wherever the stack is and that log and path agree and are as long as each other, so that what `Counts`
says of the log holds of the path.

`ProfileTrue` follows from the three without more of an invariant. `buildProfile` sorts, selects and cuts; the model
does so on the positions of the log, which are ordered by their counters, so that nothing has to be said of sorted
sequences. By `RecordsInOrder` the order of the counters is the order of the positions, by `LogTellsThePath` the
touches of the log are those of the path (`TouchesAre`) and a cut is a crossing or another tier (`SuffixIs`).
`Places` says that a finite set of numbers has an element of each rank, so that the signature of a suffix is the
sites in the order of the path (`SignatureIs`). The rule of the method boundary is a count: the touches that share
the modal suffix, if it holds a touch, are some of those a chain followed.

### Snapshot

The assumption is that the bounds are naturals. `NInv` has, besides the types, what the reader and the owner agree
on until objects that came or went have been shipped (`Agreed`): the master is still the one that was fetched, an
object of the copy has the id of its place in the walk of that master or has none, and the reader's view of the
owner (`peerRoot`, `peerVal`) is the master. `SameShape` says that a copy of which only objects were edited has the
master's shape; a write-back of it leaves the array alone, so that they still agree afterwards. From that, `MessageIs`
says that what a message leaves out is in the reader's view already, whichever of the three forms the array
takes and whichever message is shorter; `ObjectsLand` that the objects of the copy become distinct objects of the
owner with their values, those of the walk the ones they were fetched from; and `ArrayLands` that the owner's array
names them. The lemmas about `Rank` and `Walked` need no induction: a count of a finite set is a bijection. After
a reshape has been shipped `Agreed` says nothing, and the run `second-write-back` shows that the copy need not land then.

### DeltaSession

The assumptions are that the modes are the code's, that there is a local and that the bounds are naturals; the
width, the writes and the crossings may be any. The theorems have the hypothesis that there is one full frame at
most, in whichever crossing it comes: with two, a session skips an object (above), its store has lost what hangs
under it, and `Agree` and `NamesAgree` are false of the code and of the model.

The codec is about walks of graphs, so the proof begins with them. A walk is a recursive function on `Nat`, which is
a set; that `Nat` is contained in every set with 0 and with the successors of its elements (`EveryNumber`) takes the
place of an induction rule. It gives that the walk is defined and ends (`WalkIs`, `WalkDone`), that what it has been
to is the least set that has the roots and what its elements hold (`ReachIs`; with `skip`, what it does not enter is
the boundary of that set), and that graphs that a renaming of the objects makes alike are walked alike and have one
`Shape` (`WalksAlike`). `DeltaInv` has, besides `Agree` and `NamesAgree`,

* `TiersOK`: the sessions are sound. Names and objects of a store correspond, names are below the counters
  of the tier that gives them, and a rescan session's versions are of objects it has. `StoresOK` follows.
* `Quiet`: a tier that does not have the continuation has no dirty objects.
* `AtRest`: between crossings there is a closed part of the holder's heap that has the locals and all it has
  written; what is known to the peer there and not written since, the peer holds alike (`Keeps`, `Mirrors`).
  Reachability alone will not do: an object may be orphaned while it is dirty and be shipped nevertheless.
* `InFlight`: a frame under way has for each object that is reachable its contents, or the receiver holds them.

A write makes an object dirty and keeps the part closed (`WritesInv`). What a tier selects is in each mode a set that
leaves out only what the peer holds alike (`SelectIs`): for the pruned walk because a walk that stops at clean, known
objects stops where the closed part is mirrored. Then what the receiver has after `reconstruct` is like the sender's
graph by the map that follows names (`RebuiltIs`), so that shape, names and the mirrors in the other direction follow
(`Crossed`). For a full frame the map is by places in the walk (`AdoptIs`).

### Only model-checked

Liveness under fairness (the provers have no rules for it): `EverySettles` of `Peer`, `Service` and `Shim`,
`EverySessionEnds`, `SettlesOnceOpen`. `Lowering` and `Machine` follow the structure of programs with RECURSIVE
operators, for which the provers have no induction; they stay with TLC.

## Not modelled

The byte formats (`graph`, `wire-binary`, `wire-io`, framing) are data, and the build and UI glue has no protocol;
every model takes a value through a codec by what the decoder yields. Content addressing is inside the
encoding. Of the compiler, the rewriting of resources and modules, optional chains, destructuring, for-of and for-in, class methods,
auto-deref and source maps. Of the pump, dynamic calls and twins. Of the delta codec, maps, sets
and what is excised during a capture. Of the trace, sampling, sizes and means, and with them `decide`; the
choice it makes is open in `Session`. Of the endpoint, the connection cap and the registration of handlers
after an awaited callback. Of the session host, a continuation that arrives and cannot be decoded: the throw
(`host.mts` 357) sends no reply, and the driver waits on a live connection, so `EverySessionEnds` is about frames
that decode; `Peer` has the handlers that throw at once. Of session auth, several cookies in one header. Of the store, the recency order.

## The plan

1. *Done.* `Peer` with proofs; `Coherence`; `Snapshot`; `Workflow` and `Session`; `SessionAuth`.
2. *Done.* The compiler against the meaning of its source (`Source`, `Lowering`, `Machine`);
   `DeltaSession`; `Service`; `Trace`; `Shim`. *Left:* the endpoint (registration after an await, the cap), the delivery of traces, twins and
   dynamic dispatch, several cookies, `LruStore`.
3. *Done.* Proofs about `Coherence`, `Session` with the step simulation of `Workflow`, `Shim`, `Service`,
   `SessionAuth`, `Trace`, `Snapshot` and `DeltaSession`.
4. Pure functions (`decide`, `orderPreserved`, `mergeCookies`) against reference definitions over
   bounded inputs.

Runs are kept few: a component that later work adds takes a run of its own only when its question is
its own.
