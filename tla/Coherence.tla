----------------------------- MODULE Coherence -----------------------------
(***************************************************************************)
(* The distributed heap on one connection: coherence.mts, over the Heap of *)
(* fetch.mts and the bounded store of store.mts.                           *)
(*                                                                         *)
(* The owner tier keeps a large object of which it has excised one or more *)
(* handles; a run of its own may hold the object and write it in place.    *)
(* Runs on the reader tier dereference a handle into a copy (served from a *)
(* cache they share, revalidated with the owner on every dereference),     *)
(* mutate the copy and write it back under the version it was read at.     *)
(* The steps are the code between two awaits: a dereference and a          *)
(* write-back each look the cache up, send, and finish in the reply.       *)
(* Replies are matched to their request by the peer (module Peer) and      *)
(* frames keep their order.                                                *)
(*                                                                         *)
(* An object is a fixed set of slots, each holding the number of the write *)
(* that filled it last (0: never written); which slots a delta carries is  *)
(* modelled, how it names them is module Snapshot.  Other objects on the   *)
(* connection show only as pressure on the cache.                          *)
(***************************************************************************)
EXTENDS Naturals, Sequences, FiniteSets

CONSTANTS
  Run,         \* the reader tier's concurrent runs
  Handle,      \* the heap ids under which the owner has excised its object
  Slot,        \* the object's slots
  MaxWrites,   \* bound on the writes of all runs
  MaxCopies    \* bound on the copies the reader makes

ASSUME BoundsAssumption == MaxWrites \in Nat /\ MaxCopies \in Nat
ASSUME HandleAssumption == Handle # {}

VARIABLES
  objs,       \* objs[h]: heap.objs, the object behind handle h (an index of object), 0: released
  version,    \* version[h]: heap.ver, 0: undefined
  object,     \* the contents of the owner's objects: one, and one more for each replacement
  tagged,     \* tagged[i]: the handle in the provenance of owner object i
  local,      \* the object an owner-side run holds, 0: none
  copies,     \* the reader's fetched copies, each with its provenance and its cache entry
  cached,     \* cached[h]: the copy whose entry the cache holds for h, 0: none
  run,        \* run[r]: where run r is in a dereference or a write-back
  toOwner,    \* requests in flight
  toReader,   \* replies in flight
  writes,     \* the writes made so far
  hist,       \* history: hist[h][v], what handle h stood for when its version became v
  rejected    \* history: the copies through which a write-back was rejected

vars == <<objs, version, object, tagged, local, copies, cached, run, toOwner, toReader,
          writes, hist, rejected>>

Write == 0..MaxWrites
Content == [Slot -> Write]
Version == 0..(MaxWrites + 1)
CopyId == 0..MaxCopies
Values(content) == {content[k] : k \in Slot}

\* version is the provenance's, entryVersion and baseline the cache entry's; seen is history:
\* every write the copy has held.
Copy == [handle : Handle, version : Version, entryVersion : Version, content : Content,
         baseline : Content, seen : SUBSET Write]

\* at: what the run awaits; entry: the entry its lookup found; floor is history: the version
\* of the master when the dereference began.
RunState == [at : {"nothing", "deref lookup", "deref reply", "write lookup", "apply reply",
                   "replace reply"},
             handle : Handle, copy : CopyId, entry : CopyId, floor : Version]

Request == [kind : {"deref"}, run : Run, handle : Handle, have : Version]
             \cup [kind : {"apply", "replace"}, run : Run, handle : Handle, version : Version,
                   slots : SUBSET Slot, content : Content, saw : SUBSET Write]
Reply == [kind : {"error"}, run : Run]
           \cup [kind : {"same", "ok", "conflict"}, run : Run, version : Version]
           \cup [kind : {"fetched"}, run : Run, version : Version, content : Content]

TypeOK ==
  /\ version \in [Handle -> Version]
  /\ object \in Seq(Content)
  /\ objs \in [Handle -> 0..Len(object)]
  /\ tagged \in [DOMAIN object -> Handle]
  /\ local \in 0..Len(object)
  /\ copies \in Seq(Copy)
  /\ cached \in [Handle -> 0..Len(copies)]
  /\ run \in [Run -> RunState]
  /\ toOwner \in Seq(Request)
  /\ toReader \in Seq(Reply)
  /\ writes \in Write
  /\ hist \in [Handle -> Seq(Content)]
  /\ rejected \in SUBSET CopyId
  /\ \A h \in Handle : version[h] # 0 => objs[h] # 0 /\ version[h] = Len(hist[h])

Untouched == [k \in Slot |-> 0]

Init ==
  /\ objs = [h \in Handle |-> 1]
  /\ version = [h \in Handle |-> 1]
  /\ object = <<Untouched>>
  /\ tagged = <<CHOOSE h \in Handle : TRUE>>
  /\ local = 0
  /\ copies = <<>>
  /\ cached = [h \in Handle |-> 0]
  /\ run = [r \in Run |-> [at |-> "nothing", handle |-> CHOOSE h \in Handle : TRUE,
                            copy |-> 0, entry |-> 0, floor |-> 0]]
  /\ toOwner = <<>>
  /\ toReader = <<>>
  /\ writes = 0
  /\ hist = [h \in Handle |-> <<Untouched>>]
  /\ rejected = {}

owner == <<objs, version, object, tagged, hist>>
reader == <<copies, cached, rejected>>

-----------------------------------------------------------------------------
(* The owner's own run: deref of a handle it owns, writeBack of a local    *)
(* master, and the release of a finished continuation's masters.           *)

OwnerDeref(h) ==
  /\ version[h] # 0
  /\ local' = objs[h]
  /\ tagged' = [tagged EXCEPT ![objs[h]] = h]
  /\ UNCHANGED <<objs, version, object, hist, reader, run, toOwner, toReader, writes>>

\* Variant: an edit in place that does not bump the version.
NoBump(v) == v
Bump(v) == v + 1

\* The version of handle h becomes v, standing for content c.
Recorded(h, v, c) ==
  [hist EXCEPT ![h] = [i \in 1..v |-> IF i = v THEN c ELSE @[i]]]

\* The object is edited where it is and the handle in its provenance bumped; should a
\* replacement have taken its place in the heap, the edit is on the object left behind.
OwnerWrite(k) ==
  /\ local # 0
  /\ writes < MaxWrites
  /\ writes' = writes + 1
  /\ object' = [object EXCEPT ![local][k] = writes']
  /\ LET h == tagged[local]
     IN  /\ version' = [version EXCEPT ![h] = Bump(@)]
         /\ hist' = Recorded(h, version'[h], object'[objs[h]])
  /\ UNCHANGED <<objs, tagged, local, reader, run, toOwner, toReader>>

\* Variant: the object is dropped, its version is not.
VersionStays(h) == version
VersionDropped(h) == [version EXCEPT ![h] = 0]

\* The continuation that excised h completes: its run here is over.
Release(h) ==
  /\ version[h] # 0
  /\ version' = VersionDropped(h)
  /\ objs' = [objs EXCEPT ![h] = 0]
  /\ local' = IF local # 0 /\ tagged[local] = h THEN 0 ELSE local
  /\ UNCHANGED <<object, tagged, hist, reader, run, toOwner, toReader, writes>>

-----------------------------------------------------------------------------
(* serve: the owner answers a dereference and a write-back                 *)

Answer(reply) ==
  /\ toOwner' = Tail(toOwner)
  /\ toReader' = Append(toReader, reply)
  /\ UNCHANGED <<reader, run, local, writes>>

ServeDeref ==
  /\ toOwner # <<>>
  /\ Head(toOwner).kind = "deref"
  /\ LET q == Head(toOwner)
         v == version[q.handle]
     IN  Answer(CASE v = 0 -> [kind |-> "error", run |-> q.run]
                  [] v # 0 /\ q.have = v -> [kind |-> "same", run |-> q.run, version |-> v]
                  [] v # 0 /\ q.have # v -> [kind |-> "fetched", run |-> q.run, version |-> v,
                                             content |-> object[objs[q.handle]]])
  /\ UNCHANGED owner

\* Variant: a write-back is accepted whatever version it was read at.
LastWriteWins(q) == TRUE
Unchanged(q) == version[q.handle] = q.version

ServeRejected ==
  /\ toOwner # <<>>
  /\ Head(toOwner).kind \in {"apply", "replace"}
  /\ LET q == Head(toOwner)
         v == version[q.handle]
     IN  /\ v = 0 \/ ~Unchanged(q)
         /\ Answer(IF v = 0 THEN [kind |-> "error", run |-> q.run]
                   ELSE [kind |-> "conflict", run |-> q.run, version |-> v])
  /\ UNCHANGED owner

Patched(content, q) == [k \in Slot |-> IF k \in q.slots THEN q.content[k] ELSE content[k]]

\* "apply" patches the master in place, "replace" puts a new object in its stead.
ServeAccepted ==
  /\ toOwner # <<>>
  /\ Head(toOwner).kind \in {"apply", "replace"}
  /\ LET q == Head(toOwner)
         h == q.handle
     IN  /\ version[h] # 0
         /\ Unchanged(q)
         /\ IF q.kind = "apply"
            THEN /\ object' = [object EXCEPT ![objs[h]] = Patched(@, q)]
                 /\ UNCHANGED <<objs, tagged>>
            ELSE /\ object' = Append(object, q.content)
                 /\ objs' = [objs EXCEPT ![h] = Len(object')]
                 /\ tagged' = Append(tagged, h)
         /\ version' = [version EXCEPT ![h] = @ + 1]
         /\ hist' = Recorded(h, version'[h], object'[objs'[h]])
         /\ Answer([kind |-> "ok", run |-> q.run, version |-> version'[h]])

-----------------------------------------------------------------------------
(* deref on the reader                                                     *)

Dereferencing == {r \in Run : run[r].at \in {"deref lookup", "deref reply"}}

DerefLookup(r, h) ==
  /\ run[r].at = "nothing"
  /\ Len(copies) + Cardinality(Dereferencing) < MaxCopies
  /\ run' = [run EXCEPT ![r] = [@ EXCEPT !.at = "deref lookup", !.handle = h,
                                         !.entry = cached[h], !.floor = version[h]]]
  /\ UNCHANGED <<owner, local, reader, toOwner, toReader, writes>>

\* No entry is the version -1 of the code, which equals no version.
DerefSend(r) ==
  /\ run[r].at = "deref lookup"
  /\ toOwner' = Append(toOwner,
       [kind |-> "deref", run |-> r, handle |-> run[r].handle,
        have |-> IF run[r].entry = 0 THEN 0 ELSE copies[run[r].entry].entryVersion])
  /\ run' = [run EXCEPT ![r].at = "deref reply"]
  /\ UNCHANGED <<owner, local, reader, toReader, writes>>

\* The next reply is for run r, which awaits it at one of the given points.
ReplyTo(r, kinds, points) ==
  /\ toReader # <<>>
  /\ Head(toReader).run = r
  /\ Head(toReader).kind \in kinds
  /\ run[r].at \in points
  /\ toReader' = Tail(toReader)
  /\ UNCHANGED <<owner, local, toOwner, writes>>

\* The entry captured before the request is returned, in the cache or not.
DerefSame(r) ==
  /\ ReplyTo(r, {"same"}, {"deref reply"})
  /\ run' = [run EXCEPT ![r] = [@ EXCEPT !.at = "nothing", !.copy = run[r].entry]]
  /\ UNCHANGED reader

\* A fetched copy takes the place of whatever entry the cache has, or, larger than the whole
\* budget, leaves none.
DerefFetched(r) ==
  /\ ReplyTo(r, {"fetched"}, {"deref reply"})
  /\ LET p == Head(toReader)
         h == run[r].handle
     IN  /\ copies' = Append(copies,
              [handle |-> h, version |-> p.version, entryVersion |-> p.version,
               content |-> p.content, baseline |-> p.content, seen |-> Values(p.content)])
         /\ \E held \in {0, Len(copies')} : cached' = [cached EXCEPT ![h] = held]
  /\ run' = [run EXCEPT ![r] = [@ EXCEPT !.at = "nothing", !.copy = Len(copies')]]
  /\ UNCHANGED rejected

DerefError(r) ==
  /\ ReplyTo(r, {"error"}, {"deref reply"})
  /\ run' = [run EXCEPT ![r].at = "nothing"]
  /\ UNCHANGED reader

-----------------------------------------------------------------------------
(* A mutation and its writeBack on the reader: the pump runs them in one   *)
(* turn, as far as the await of the cache.                                 *)

WriteLookup(r, k) ==
  /\ run[r].at = "nothing"
  /\ run[r].copy # 0
  /\ writes < MaxWrites
  /\ writes' = writes + 1
  /\ LET c == run[r].copy
     IN  /\ copies' = [copies EXCEPT ![c].content[k] = writes', ![c].seen = @ \cup {writes'}]
         /\ run' = [run EXCEPT ![r] = [@ EXCEPT !.at = "write lookup",
                                                !.entry = cached[copies[c].handle]]]
  /\ UNCHANGED <<owner, local, cached, rejected, toOwner, toReader>>

Changed(c) == {k \in Slot : copies[c].content[k] # copies[c].baseline[k]}

Propose(r, kind, slots) ==
  LET c == copies[run[r].copy]
  IN  toOwner' = Append(toOwner,
        [kind |-> kind, run |-> r, handle |-> c.handle, version |-> c.version,
         slots |-> slots, content |-> c.content, saw |-> c.seen])

\* The entry is this copy's: the shorter of the delta to its baseline and the whole, applied in
\* place; the baseline advances at once.
WriteApply(r) ==
  /\ run[r].at = "write lookup"
  /\ run[r].entry = run[r].copy
  /\ \E slots \in {Changed(run[r].copy), Slot} : Propose(r, "apply", slots)
  /\ copies' = [copies EXCEPT ![run[r].copy].baseline = copies[run[r].copy].content]
  /\ run' = [run EXCEPT ![r].at = "apply reply"]
  /\ UNCHANGED <<owner, local, cached, rejected, toReader, writes>>

\* The entry is gone, or another copy's: the whole object replaces the master.
WriteReplace(r) ==
  /\ run[r].at = "write lookup"
  /\ run[r].entry # run[r].copy
  /\ Propose(r, "replace", Slot)
  /\ run' = [run EXCEPT ![r].at = "replace reply"]
  /\ UNCHANGED <<owner, local, reader, toReader, writes>>

WriteApplied(r) ==
  /\ ReplyTo(r, {"ok"}, {"apply reply"})
  /\ copies' = [copies EXCEPT ![run[r].copy] =
       [@ EXCEPT !.version = Head(toReader).version, !.entryVersion = Head(toReader).version]]
  /\ run' = [run EXCEPT ![r].at = "nothing"]
  /\ UNCHANGED <<cached, rejected>>

WriteReplaced(r) ==
  /\ ReplyTo(r, {"ok"}, {"replace reply"})
  /\ copies' = [copies EXCEPT ![run[r].copy].version = Head(toReader).version]
  /\ run' = [run EXCEPT ![r].at = "nothing"]
  /\ UNCHANGED <<cached, rejected>>

\* Variant: the entry of a rejected write-back stays in the cache.
EntryKept(h) == cached
EntryDropped(h) == [cached EXCEPT ![h] = 0]

WriteRejected(r) ==
  /\ ReplyTo(r, {"conflict", "error"}, {"apply reply", "replace reply"})
  /\ cached' = IF run[r].at = "apply reply"
               THEN EntryDropped(copies[run[r].copy].handle) ELSE cached
  /\ rejected' = rejected \cup {run[r].copy}
  /\ run' = [run EXCEPT ![r].at = "nothing"]
  /\ UNCHANGED copies

-----------------------------------------------------------------------------
(* The store under pressure from other objects: an entry goes unless its   *)
(* copy differs from its baseline.                                         *)

Evictable(c) == Changed(c) = {}

Evict(h) ==
  /\ cached[h] # 0
  /\ Evictable(cached[h])
  /\ cached' = [cached EXCEPT ![h] = 0]
  /\ UNCHANGED <<owner, local, copies, rejected, run, toOwner, toReader, writes>>

-----------------------------------------------------------------------------

RunStep(r) ==
  \/ \E h \in Handle : DerefLookup(r, h)
  \/ DerefSend(r)
  \/ DerefSame(r)
  \/ DerefFetched(r)
  \/ DerefError(r)
  \/ \E k \in Slot : WriteLookup(r, k)
  \/ WriteApply(r)
  \/ WriteReplace(r)
  \/ WriteApplied(r)
  \/ WriteReplaced(r)
  \/ WriteRejected(r)

Next ==
  \/ \E h \in Handle : OwnerDeref(h) \/ Release(h) \/ Evict(h)
  \/ \E k \in Slot : OwnerWrite(k)
  \/ ServeDeref
  \/ ServeRejected
  \/ ServeAccepted
  \/ \E r \in Run : RunStep(r)

Spec == Init /\ [][Next]_vars

-----------------------------------------------------------------------------
(* Properties                                                              *)

\* The compare-and-set: an accepted write-back never overwrites a write that its writer had not
\* seen, whether it patches or replaces and however old the copy and its entry are.
NoLostUpdate ==
  [][ServeAccepted =>
       LET q == Head(toOwner)
       IN  \A k \in q.slots : object[objs[q.handle]][k] \in q.saw]_vars

Writing(c) ==
  \E r \in Run : run[r].copy = c /\ run[r].at \in {"write lookup", "apply reply", "replace reply"}

\* The writes that the master has taken under handle h.
Taken(h) == UNION {Values(hist[h][v]) : v \in 1..Len(hist[h])}

\* A dereference returns what the master was at some version no older than when the dereference
\* began, slot by slot, though lookups, requests and replies of other runs, evictions and
\* write-backs come between.  The one thing it may return instead is a write that the master
\* has never had, made by a run that is writing through this very copy now, or left in the
\* copy, whose entry had been captured before the owner rejected a write-back through it.
FreshRead ==
  [][\A r \in Run : DerefSame(r) \/ DerefFetched(r) =>
       LET h == run[r].handle
           c == run'[r].copy
           got == copies'[c].content
       IN  \E v \in run[r].floor..Len(hist[h]) :
             \A k \in Slot :
               \/ got[k] = hist[h][v][k]
               \/ got[k] \notin Taken(h) /\ (Writing(c) \/ c \in rejected)]_vars

\* An entry of the cache that no run is writing through is exactly what the master was at the
\* entry's version: neither a rejected nor a half-shipped write stays behind to be revalidated.
CacheCoherent ==
  \A h \in Handle :
    cached[h] # 0 /\ ~Writing(cached[h]) =>
      LET c == copies[cached[h]] IN c.content = hist[h][c.entryVersion]

=============================================================================
