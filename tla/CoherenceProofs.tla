-------------------------- MODULE CoherenceProofs --------------------------
(***************************************************************************)
(* Proofs about Coherence, for every number of runs, handles, slots,       *)
(* copies and writes: type correctness; and, for an object that the owner  *)
(* excised under one handle, what the copies have seen and what the cache  *)
(* holds: NoLostUpdate, FreshRead and CacheCoherent.                       *)
(*                                                                         *)
(* That a version and the reader's copies stay within their bounds is no   *)
(* matter of types: an accepted write-back was written first, and one run  *)
(* has one write to be judged (VersionBudget).  So the first invariant     *)
(* places every run and message (Places): a run awaits what is in flight   *)
(* for it, the request it sent or the one reply to it, and a run that      *)
(* found its copy's entry gone holds a copy that is never cached again.    *)
(* The effect of every action on the reader's and the owner's state is a   *)
(* lemma of its own here; the parts that follow build on those.            *)
(*                                                                         *)
(* The second follows a version wherever it travels: a copy, an entry, a   *)
(* request and a reply that claim a version have seen all that the handle  *)
(* stood for when it became the master's, and the master's own version     *)
(* stands for its content.  Then a write-back whose version is the         *)
(* master's has seen the master, and an entry confirmed at a version is no *)
(* older than the dereference that asked.                                  *)
(*                                                                         *)
(* The third is for the cache.  CacheCoherent is silent while a run writes *)
(* through an entry, and that is when it can be lost: the baseline         *)
(* advances before the owner has judged the write-back, and other runs may *)
(* send theirs through the same entry meanwhile.  The invariant says that  *)
(* the entry is doomed, because some write-back through it will be         *)
(* rejected and will drop it, or that exactly one run writes through it    *)
(* and its write-back makes of the master what it has made of the baseline.*)
(*                                                                         *)
(* The fourth is for a dereference, which may return any copy the reader   *)
(* has, cached or not.  Writes are numbered, so a write the master has     *)
(* never had is in one slot of one copy.  Every copy matches the master    *)
(* at its version but for such writes, or at the version its one           *)
(* acknowledgement brings; and such a write is still to be judged, or was  *)
(* left behind by a rejection (the copy is excused).                       *)
(***************************************************************************)
EXTENDS Coherence, FiniteSetTheorems, TLAPS

\* Write-backs, and where a run may be in a write-back, in a dereference, or awaiting a reply.
Proposal == {"apply", "replace"}
WritePoint == {"write lookup", "apply reply", "replace reply"}
DerefPoint == {"deref lookup", "deref reply"}
ReplyPoint == {"deref reply", "apply reply", "replace reply"}

\* The handle of the object an owner-side run holds has not been released.
OwnerHolds == local # 0 => version[tagged[local]] # 0

\* The entry the cache has for a handle is of a copy of it.
CacheNames == \A h \in Handle : cached[h] # 0 => copies[cached[h]].handle = h

\* A run that writes back through the entry of its copy found it in the cache.
RunPlaced(r) ==
  /\ run[r].copy <= Len(copies) /\ run[r].entry <= Len(copies)
  /\ run[r].at \in DerefPoint /\ run[r].entry # 0 => copies[run[r].entry].handle = run[r].handle
  /\ run[r].at \in WritePoint => run[r].copy # 0
  /\ run[r].at = "apply reply" => run[r].entry = run[r].copy
  /\ run[r].at = "replace reply" => run[r].entry # run[r].copy
  /\ run[r].at \in WritePoint /\ run[r].entry # run[r].copy =>
       cached[copies[run[r].copy].handle] # run[r].copy
RunsPlaced == \A r \in Run : RunPlaced(r)

\* The run that sent a request awaits its reply.
RequestPlaced(q) ==
  \/ q.kind = "deref" /\ run[q.run].at = "deref reply" /\ q.handle = run[q.run].handle
  \/ /\ q.kind = "apply" /\ run[q.run].at = "apply reply"
     /\ q.handle = copies[run[q.run].copy].handle
  \/ /\ q.kind = "replace" /\ run[q.run].at = "replace reply"
     /\ q.handle = copies[run[q.run].copy].handle
\* A reply is of a kind that its run awaits.
ReplyPlaced(p) ==
  /\ p.kind \in {"same", "fetched"} => run[p.run].at = "deref reply"
  /\ p.kind \in {"ok", "conflict"} => run[p.run].at \in {"apply reply", "replace reply"}
  /\ run[p.run].at \in ReplyPoint
FlightPlaced ==
  /\ \A i \in DOMAIN toOwner : RequestPlaced(toOwner[i])
  /\ \A j \in DOMAIN toReader : ReplyPlaced(toReader[j])

\* A run has at most one request or reply in flight.
OneOutstanding ==
  /\ \A i, j \in DOMAIN toOwner : toOwner[i].run = toOwner[j].run => i = j
  /\ \A i, j \in DOMAIN toReader : toReader[i].run = toReader[j].run => i = j
  /\ \A i \in DOMAIN toOwner, j \in DOMAIN toReader : toOwner[i].run # toReader[j].run

\* The runs whose write the owner has not judged yet.
Proposing ==
  {r \in Run : \E i \in DOMAIN toOwner : toOwner[i].run = r /\ toOwner[i].kind \in Proposal}
Writers == {r \in Run : run[r].at = "write lookup"} \cup Proposing
\* The versions the writes so far can lead to, those to be judged included.
VersionBudget ==
  /\ IsFiniteSet(Writers)
  /\ \A h \in Handle : version[h] + Cardinality(Writers) <= writes + 1
\* The copies there are, and those that dereferences under way can add.
CopyBudget == IsFiniteSet(Dereferencing) /\ Len(copies) + Cardinality(Dereferencing) <= MaxCopies

Places == CacheNames /\ RunsPlaced /\ FlightPlaced /\ OneOutstanding
TInv == TypeOK /\ OwnerHolds /\ Places /\ VersionBudget /\ CopyBudget

-----------------------------------------------------------------------------
(* Queues, sequences and the history.                                      *)

\* What is left of a queue without its head.
LEMMA TailQueue ==
  ASSUME NEW S, NEW q \in Seq(S), q # <<>>
  PROVE  /\ Tail(q) \in Seq(S) /\ Head(q) \in S
         /\ 1 \in DOMAIN q /\ Head(q) = q[1]
         /\ \A k \in DOMAIN Tail(q) : k \in Nat \ {0} /\ k + 1 \in DOMAIN q /\ Tail(q)[k] = q[k + 1]
OBVIOUS

\* A queue with one more at its end.
LEMMA AppendQueue ==
  ASSUME NEW S, NEW q \in Seq(S), NEW m \in S
  PROVE  /\ Append(q, m) \in Seq(S)
         /\ Len(Append(q, m)) = Len(q) + 1
         /\ DOMAIN Append(q, m) = DOMAIN q \cup {Len(q) + 1}
         /\ Len(q) + 1 \notin DOMAIN q
         /\ Append(q, m)[Len(q) + 1] = m
         /\ \A k \in DOMAIN q : Append(q, m)[k] = q[k]
OBVIOUS

\* The history of a handle grows by one content; those of the others stay.
LEMMA RecordedAppends ==
  ASSUME hist \in [Handle -> Seq(Content)], NEW h \in Handle, NEW c \in Content
  PROVE  LET v == Len(hist[h]) + 1
             new == Recorded(h, v, c)
         IN  /\ new \in [Handle -> Seq(Content)]
             /\ Len(new[h]) = v /\ new[h][v] = c
             /\ \A i \in 1..Len(hist[h]) : new[h][i] = hist[h][i]
             /\ \A g \in Handle \ {h} : new[g] = hist[g]
<1> DEFINE v == Len(hist[h]) + 1
           seq == [i \in 1..v |-> IF i = v THEN c ELSE hist[h][i]]
<1>1. hist[h] \in Seq(Content) /\ Len(hist[h]) \in Nat /\ v \in Nat
  OBVIOUS
<1>2. \A i \in 1..v : i # v => i \in 1..Len(hist[h])
  BY <1>1
<1>3. \A i \in 1..Len(hist[h]) : hist[h][i] \in Content /\ i \in 1..v /\ i # v
  BY <1>1
<1>4. \A i \in 1..v : seq[i] \in Content
  BY <1>2, <1>3
<1>5. seq \in Seq(Content) /\ Len(seq) = v
  BY <1>1, <1>4
<1>6. seq[v] = c /\ \A i \in 1..Len(hist[h]) : seq[i] = hist[h][i]
  BY <1>1, <1>3
<1>7. Recorded(h, v, c) = [hist EXCEPT ![h] = seq]
  BY DEF Recorded
<1> HIDE DEF seq
<1>8. /\ Recorded(h, v, c) \in [Handle -> Seq(Content)]
      /\ Recorded(h, v, c)[h] = seq
      /\ \A g \in Handle \ {h} : Recorded(h, v, c)[g] = hist[g]
  BY <1>5, <1>7
<1> QED
  BY <1>5, <1>6, <1>8

\* An owner-side write or an accepted write-back: the version of one handle grows by one, and
\* the history with it.
Advances(h, c) ==
  /\ version' = [version EXCEPT ![h] = @ + 1]
  /\ hist' = Recorded(h, version'[h], c)

\* What an advance does to the versions and to the history, handle by handle.
LEMMA AdvancesTypes ==
  ASSUME TypeOK, NEW h \in Handle, version[h] # 0, NEW c \in Content, Advances(h, c)
  PROVE  /\ version' \in [Handle -> Nat]
         /\ version'[h] = version[h] + 1 /\ version[h] \in Nat /\ version[h] = Len(hist[h])
         /\ \A g \in Handle \ {h} : version'[g] = version[g] /\ hist'[g] = hist[g]
         /\ hist' \in [Handle -> Seq(Content)]
         /\ Len(hist'[h]) = version'[h] /\ hist'[h][version'[h]] = c
         /\ \A i \in 1..Len(hist[h]) : hist'[h][i] = hist[h][i]
<1>1. version[h] \in Nat /\ version[h] = Len(hist[h]) /\ version \in [Handle -> Nat]
      /\ hist \in [Handle -> Seq(Content)]
  BY BoundsAssumption DEF TypeOK, Version
<1>2. version'[h] = Len(hist[h]) + 1 /\ version' \in [Handle -> Nat]
      /\ \A g \in Handle \ {h} : version'[g] = version[g]
  BY <1>1 DEF Advances
<1>3. hist' = Recorded(h, Len(hist[h]) + 1, c)
  BY <1>2 DEF Advances
<1> QED
  BY <1>1, <1>2, <1>3, RecordedAppends

\* Setting one element of a sequence.
LEMMA SetElement ==
  ASSUME NEW S, NEW q \in Seq(S), NEW i \in 1..Len(q), NEW x \in S
  PROVE  /\ [q EXCEPT ![i] = x] \in Seq(S)
         /\ Len([q EXCEPT ![i] = x]) = Len(q)
         /\ DOMAIN [q EXCEPT ![i] = x] = DOMAIN q
         /\ [q EXCEPT ![i] = x][i] = x
         /\ \A j \in DOMAIN q : j # i => [q EXCEPT ![i] = x][j] = q[j]
OBVIOUS

\* The budget of writes bounds the versions.
LEMMA BudgetBounds ==
  ASSUME version' \in [Handle -> Nat], writes' \in Write, VersionBudget'
  PROVE  version' \in [Handle -> Version]
<1>1. Cardinality(Writers') \in Nat
  BY FS_CardinalityType DEF VersionBudget
<1> QED
  BY <1>1, BoundsAssumption DEF VersionBudget, Version, Write

\* The strengthened type invariant holds at the start.
LEMMA InitTInv == Init => TInv
<1> SUFFICES ASSUME Init PROVE TInv
  OBVIOUS
<1>1. Untouched \in Content
  BY BoundsAssumption DEF Untouched, Content, Write
<1>2. (CHOOSE h \in Handle : TRUE) \in Handle
  BY HandleAssumption
<1>3. TypeOK
  <2>1. /\ version \in [Handle -> Version] /\ writes \in Write
        /\ object = <<Untouched>> /\ Len(object) = 1 /\ object \in Seq(Content)
        /\ DOMAIN object = 1..1
    BY <1>1, BoundsAssumption DEF Init, Version, Write
  <2>2. hist \in [Handle -> Seq(Content)] /\ \A h \in Handle : Len(hist[h]) = 1
    BY <1>1 DEF Init
  <2>3. run \in [Run -> RunState]
    BY <1>2, BoundsAssumption DEF Init, RunState, CopyId, Version
  <2>4. tagged \in [DOMAIN object -> Handle]
    BY <1>2, <2>1 DEF Init
  <2>5. toOwner \in Seq(Request) /\ toReader \in Seq(Reply) /\ copies \in Seq(Copy)
    BY DEF Init
  <2>6. objs \in [Handle -> 0..Len(object)] /\ local \in 0..Len(object)
        /\ cached \in [Handle -> 0..Len(copies)]
    BY <2>1 DEF Init
  <2> QED
    BY <2>1, <2>2, <2>3, <2>4, <2>5, <2>6 DEF TypeOK, Init
<1>4. OwnerHolds
  BY DEF Init, OwnerHolds
<1>8. /\ \A r \in Run : run[r].at = "nothing" /\ run[r].copy = 0 /\ run[r].entry = 0
      /\ toOwner = <<>> /\ toReader = <<>> /\ copies = <<>> /\ Len(copies) = 0
      /\ DOMAIN toOwner = {} /\ DOMAIN toReader = {}
      /\ \A h \in Handle : cached[h] = 0
  BY DEF Init
<1>5. Places
  <2>1. CacheNames /\ FlightPlaced /\ OneOutstanding
    BY <1>8 DEF CacheNames, FlightPlaced, OneOutstanding
  <2>2. ASSUME NEW r \in Run PROVE RunPlaced(r)
    <3>1. run[r].at = "nothing" /\ run[r].copy = 0 /\ run[r].entry = 0 /\ Len(copies) = 0
      BY <1>8
    <3> QED
      BY <3>1 DEF RunPlaced, DerefPoint, WritePoint
  <2> QED
    BY <2>1, <2>2 DEF Places, RunsPlaced
<1>6. Writers = {} /\ Dereferencing = {}
  BY <1>8 DEF Writers, Proposing, Dereferencing
<1>7. VersionBudget /\ CopyBudget
  BY <1>6, FS_EmptySet, BoundsAssumption DEF Init, VersionBudget, CopyBudget
<1> QED
  BY <1>3, <1>4, <1>5, <1>7 DEF TInv

-----------------------------------------------------------------------------
(* The owner's own steps.                                                  *)

\* A step of the owner's alone leaves runs and messages where they are.
LEMMA OwnerStepPlaces ==
  ASSUME Places, CopyBudget, UNCHANGED <<reader, run, toOwner, toReader>>
  PROVE  Places' /\ CopyBudget' /\ Writers' = Writers
<1>1. CacheNames' /\ RunsPlaced'
  BY DEF Places, CacheNames, RunsPlaced, RunPlaced, reader
<1>2. FlightPlaced' /\ OneOutstanding'
  <2>1. FlightPlaced'
    BY DEF Places, FlightPlaced, RequestPlaced, ReplyPlaced, reader
  <2>2. OneOutstanding'
    BY DEF Places, OneOutstanding
  <2> QED
    BY <2>1, <2>2
<1>3. CopyBudget' /\ Writers' = Writers
  BY DEF CopyBudget, Dereferencing, Writers, Proposing, reader
<1> QED
  BY <1>1, <1>2, <1>3 DEF Places

\* The owner's own run takes its object keeps the strengthened type invariant.
LEMMA OwnerDerefTInv ==
  ASSUME TInv, NEW h \in Handle, OwnerDeref(h)
  PROVE  TInv'
<1>1. /\ version[h] # 0 /\ local' = objs[h] /\ tagged' = [tagged EXCEPT ![objs[h]] = h]
      /\ UNCHANGED <<objs, version, object, hist, copies, cached, rejected, run, toOwner, toReader,
                     writes>>
  BY DEF OwnerDeref, reader
<1>2. objs[h] \in 1..Len(object) /\ tagged \in [1..Len(object) -> Handle]
  <2>1. object \in Seq(Content) /\ objs[h] \in 0..Len(object) /\ objs[h] # 0
    BY <1>1 DEF TInv, TypeOK
  <2>2. tagged \in [DOMAIN object -> Handle] /\ DOMAIN object = 1..Len(object)
    BY <2>1 DEF TInv, TypeOK
  <2> QED
    BY <2>1, <2>2
<1>3. tagged' \in [1..Len(object) -> Handle] /\ tagged'[objs[h]] = h
  BY <1>1, <1>2
<1>4. TypeOK'
  BY <1>1, <1>2, <1>3 DEF TInv, TypeOK
<1>5. OwnerHolds'
  BY <1>1, <1>3 DEF OwnerHolds
<1>6. Places' /\ CopyBudget' /\ Writers' = Writers
  BY <1>1, OwnerStepPlaces DEF TInv, reader
<1>7. VersionBudget'
  BY <1>1, <1>6 DEF TInv, VersionBudget
<1> QED
  BY <1>4, <1>5, <1>6, <1>7 DEF TInv

\* The release of a handle keeps the strengthened type invariant.
LEMMA ReleaseTInv ==
  ASSUME TInv, NEW h \in Handle, Release(h)
  PROVE  TInv'
<1>1. /\ version[h] # 0 /\ version' = [version EXCEPT ![h] = 0]
      /\ objs' = [objs EXCEPT ![h] = 0]
      /\ local' = IF local # 0 /\ tagged[local] = h THEN 0 ELSE local
      /\ UNCHANGED <<object, tagged, hist, copies, cached, rejected, run, toOwner, toReader,
                     writes>>
  BY DEF Release, VersionDropped, reader
<1>2. /\ version' \in [Handle -> Version] /\ objs' \in [Handle -> 0..Len(object)]
      /\ local' \in 0..Len(object)
      /\ \A g \in Handle : version'[g] = 0 \/ (version'[g] = version[g] /\ objs'[g] = objs[g])
      /\ \A g \in Handle : g # h => version'[g] = version[g]
  BY <1>1, BoundsAssumption DEF TInv, TypeOK, Version
<1>3. TypeOK'
  BY <1>1, <1>2 DEF TInv, TypeOK
<1>4. OwnerHolds'
  BY <1>1, <1>2 DEF TInv, TypeOK, OwnerHolds
<1>5. Places' /\ CopyBudget' /\ Writers' = Writers
  BY <1>1, OwnerStepPlaces DEF TInv, reader
<1>6. VersionBudget'
  <2>1. Cardinality(Writers) \in Nat /\ IsFiniteSet(Writers)
    BY FS_CardinalityType DEF TInv, VersionBudget
  <2>2. \A g \in Handle : version[g] \in Nat /\ version[g] + Cardinality(Writers) <= writes + 1
    BY BoundsAssumption DEF TInv, TypeOK, Version, VersionBudget
  <2>3. writes \in Nat /\ writes' = writes
    BY <1>1, BoundsAssumption DEF TInv, TypeOK, Write
  <2>4. \A g \in Handle : version'[g] + Cardinality(Writers) <= writes' + 1
    BY <1>2, <2>1, <2>2, <2>3
  <2> QED
    BY <1>5, <2>1, <2>4 DEF VersionBudget
<1> QED
  BY <1>3, <1>4, <1>5, <1>6 DEF TInv

\* What a write of the owner's own run changes.
LEMMA OwnerWriteEffect ==
  ASSUME TInv, NEW k \in Slot, OwnerWrite(k)
  PROVE  /\ local \in 1..Len(object) /\ tagged[local] \in Handle /\ version[tagged[local]] # 0
         /\ objs[tagged[local]] \in 1..Len(object)
         /\ object' \in Seq(Content) /\ Len(object') = Len(object)
         /\ \A i \in 1..Len(object) : i # local => object'[i] = object[i]
         /\ object'[objs[tagged[local]]] \in Content
         /\ Advances(tagged[local], object'[objs[tagged[local]]])
         /\ writes \in Nat /\ writes < MaxWrites /\ writes' = writes + 1
         /\ UNCHANGED <<objs, tagged, local, copies, cached, rejected, run, toOwner, toReader>>
<1>1. /\ local # 0 /\ writes < MaxWrites /\ writes' = writes + 1
      /\ object' = [object EXCEPT ![local] = [@ EXCEPT ![k] = writes']]
      /\ Advances(tagged[local], object'[objs[tagged[local]]])
      /\ UNCHANGED <<objs, tagged, local, copies, cached, rejected, run, toOwner, toReader>>
  BY DEF OwnerWrite, Advances, Bump, reader
<1>2. /\ local \in 1..Len(object) /\ tagged[local] \in Handle /\ version[tagged[local]] # 0
      /\ objs[tagged[local]] \in 1..Len(object)
  BY <1>1 DEF TInv, TypeOK, OwnerHolds
<1>3. writes \in Nat /\ writes' \in Write
  BY <1>1, BoundsAssumption DEF TInv, TypeOK, Write
<1>4. object \in Seq(Content) /\ object[local] \in Content
  BY <1>2 DEF TInv, TypeOK
<1>5. [object[local] EXCEPT ![k] = writes'] \in Content
  BY <1>3, <1>4 DEF Content
<1>6. /\ object' \in Seq(Content) /\ Len(object') = Len(object)
      /\ \A i \in 1..Len(object) : i # local => object'[i] = object[i]
  BY <1>1, <1>2, <1>4, <1>5, SetElement
<1>7. object'[objs[tagged[local]]] \in Content
  BY <1>2, <1>6
<1> QED
  BY <1>1, <1>2, <1>3, <1>6, <1>7

\* A write of the owner's own run, in place keeps the strengthened type invariant.
LEMMA OwnerWriteTInv ==
  ASSUME TInv, NEW k \in Slot, OwnerWrite(k)
  PROVE  TInv'
<1> DEFINE h == tagged[local]
           c == object'[objs[h]]
<1>1. /\ local \in 1..Len(object) /\ h \in Handle /\ version[h] # 0
      /\ objs[h] \in 1..Len(object)
      /\ object' \in Seq(Content) /\ Len(object') = Len(object)
      /\ c \in Content
      /\ Advances(h, c)
      /\ writes \in Nat /\ writes < MaxWrites /\ writes' = writes + 1
      /\ UNCHANGED <<objs, tagged, local, copies, cached, rejected, run, toOwner, toReader>>
  BY OwnerWriteEffect
<1> HIDE DEF h, c
<1>2. /\ version' \in [Handle -> Nat]
      /\ version'[h] = version[h] + 1 /\ version[h] \in Nat
      /\ \A g \in Handle \ {h} : version'[g] = version[g] /\ hist'[g] = hist[g]
      /\ hist' \in [Handle -> Seq(Content)]
      /\ Len(hist'[h]) = version'[h]
  BY <1>1, AdvancesTypes DEF TInv
<1>3. Places' /\ CopyBudget' /\ Writers' = Writers
  BY <1>1, OwnerStepPlaces DEF TInv, reader
<1>4. VersionBudget'
  <2>1. Cardinality(Writers) \in Nat /\ IsFiniteSet(Writers)
    BY FS_CardinalityType DEF TInv, VersionBudget
  <2>2. \A g \in Handle : version[g] \in Nat /\ version[g] + Cardinality(Writers) <= writes + 1
    BY BoundsAssumption DEF TInv, TypeOK, Version, VersionBudget
  <2>3. \A g \in Handle : version'[g] = version[g] \/ version'[g] = version[g] + 1
    BY <1>2
  <2>4. writes' = writes + 1 /\ writes \in Nat
    BY <1>1
  <2>5. \A g \in Handle : version'[g] + Cardinality(Writers) <= writes' + 1
    BY <2>1, <2>2, <2>3, <2>4
  <2> QED
    BY <1>3, <2>1, <2>5 DEF VersionBudget
<1>5. writes' \in Write
  BY <1>1, BoundsAssumption DEF Write
<1>6. version' \in [Handle -> Version]
  BY <1>2, <1>4, <1>5, BudgetBounds
<1>7. TypeOK'
  <2>1. \A g \in Handle : version'[g] # 0 => objs'[g] # 0 /\ version'[g] = Len(hist'[g])
    BY <1>1, <1>2 DEF TInv, TypeOK
  <2>2. DOMAIN object' = DOMAIN object
    BY <1>1 DEF TInv, TypeOK
  <2> QED
    BY <1>1, <1>2, <1>5, <1>6, <2>1, <2>2 DEF TInv, TypeOK
<1>8. OwnerHolds'
  BY <1>1, <1>2 DEF OwnerHolds, h
<1> QED
  BY <1>3, <1>4, <1>7, <1>8 DEF TInv

-----------------------------------------------------------------------------
(* The owner's answers.                                                    *)

\* The fields of a request, by its kind.
LEMMA RequestFields ==
  ASSUME NEW q \in Request
  PROVE  /\ q.run \in Run /\ q.handle \in Handle /\ q.kind \in {"deref"} \cup Proposal
         /\ q.kind = "deref" => q.have \in Version
         /\ q.kind \in Proposal => /\ q.version \in Version /\ q.slots \in SUBSET Slot
                                   /\ q.content \in Content /\ q.saw \in SUBSET Write
BY DEF Request, Proposal

\* The fields of a reply, by its kind.
LEMMA ReplyFields ==
  ASSUME NEW p \in Reply
  PROVE  /\ p.run \in Run /\ p.kind \in {"error", "same", "ok", "conflict", "fetched"}
         /\ p.kind # "error" => p.version \in Version
         /\ p.kind = "fetched" => p.content \in Content
BY DEF Reply

\* The replies the owner builds are replies.
LEMMA ReplyKinds ==
  ASSUME NEW r \in Run
  PROVE  /\ [kind |-> "error", run |-> r] \in Reply
         /\ \A v \in Version :
              /\ [kind |-> "same", run |-> r, version |-> v] \in Reply
              /\ [kind |-> "ok", run |-> r, version |-> v] \in Reply
              /\ [kind |-> "conflict", run |-> r, version |-> v] \in Reply
              /\ \A c \in Content :
                   [kind |-> "fetched", run |-> r, version |-> v, content |-> c] \in Reply
BY DEF Reply

\* A request is answered: the reply takes its place in flight.
Answered(reply) ==
  /\ toOwner # <<>>
  /\ reply \in Reply /\ reply.run = Head(toOwner).run
  /\ toOwner' = Tail(toOwner) /\ toReader' = Append(toReader, reply)
  /\ UNCHANGED <<copies, cached, rejected, run, local, writes>>

\* The two queues after an answer, element by element.
LEMMA AnsweredQueues ==
  ASSUME TypeOK, NEW reply, Answered(reply)
  PROVE  /\ toOwner' \in Seq(Request) /\ toReader' \in Seq(Reply)
         /\ Head(toOwner) \in Request /\ 1 \in DOMAIN toOwner /\ Head(toOwner) = toOwner[1]
         /\ \A i \in DOMAIN toOwner' :
              i \in Nat \ {0} /\ i + 1 \in DOMAIN toOwner /\ toOwner'[i] = toOwner[i + 1]
         /\ DOMAIN toReader' = DOMAIN toReader \cup {Len(toReader) + 1}
         /\ Len(toReader) + 1 \notin DOMAIN toReader
         /\ toReader'[Len(toReader) + 1] = reply
         /\ \A j \in DOMAIN toReader : toReader'[j] = toReader[j]
<1>1. toOwner \in Seq(Request) /\ toReader \in Seq(Reply) /\ reply \in Reply /\ toOwner # <<>>
      /\ toOwner' = Tail(toOwner) /\ toReader' = Append(toReader, reply)
  BY DEF TypeOK, Answered
<1> QED
  BY <1>1, TailQueue, AppendQueue

\* An answer leaves every run awaiting what is in flight for it.
LEMMA AnsweredPlaces ==
  ASSUME TypeOK, Places, CopyBudget, NEW reply, Answered(reply), ReplyPlaced(reply)
  PROVE  Places' /\ CopyBudget'
<1>1. /\ 1 \in DOMAIN toOwner /\ Head(toOwner) = toOwner[1]
      /\ \A i \in DOMAIN toOwner' :
           i \in Nat \ {0} /\ i + 1 \in DOMAIN toOwner /\ toOwner'[i] = toOwner[i + 1]
      /\ DOMAIN toReader' = DOMAIN toReader \cup {Len(toReader) + 1}
      /\ Len(toReader) + 1 \notin DOMAIN toReader
      /\ toReader'[Len(toReader) + 1] = reply
      /\ \A j \in DOMAIN toReader : toReader'[j] = toReader[j]
  BY AnsweredQueues
<1>2. UNCHANGED <<copies, cached, run>> /\ reply.run = toOwner[1].run
  BY <1>1 DEF Answered
<1>3. CacheNames' /\ RunsPlaced' /\ CopyBudget'
  BY <1>2 DEF Places, CacheNames, RunsPlaced, RunPlaced, CopyBudget, Dereferencing
<1>4. FlightPlaced'
  <2>1. ASSUME NEW i \in DOMAIN toOwner' PROVE RequestPlaced(toOwner[i])'
    <3>1. toOwner'[i] = toOwner[i + 1] /\ RequestPlaced(toOwner[i + 1])
      BY <1>1 DEF Places, FlightPlaced
    <3> QED
      BY <1>2, <3>1 DEF RequestPlaced
  <2>2. ASSUME NEW j \in DOMAIN toReader' PROVE ReplyPlaced(toReader[j])'
    <3>1. ReplyPlaced(toReader'[j])
      BY <1>1 DEF Places, FlightPlaced
    <3> QED
      BY <1>2, <3>1 DEF ReplyPlaced
  <2> QED
    BY <2>1, <2>2 DEF FlightPlaced
<1>5. OneOutstanding'
  <2>1. \A i, j \in DOMAIN toOwner' : toOwner'[i].run = toOwner'[j].run => i = j
    BY <1>1 DEF Places, OneOutstanding
  <2>2. \A i, j \in DOMAIN toReader' : toReader'[i].run = toReader'[j].run => i = j
    BY <1>1, <1>2 DEF Places, OneOutstanding
  <2>3. \A i \in DOMAIN toOwner' : toOwner'[i].run # toOwner[1].run
    BY <1>1 DEF Places, OneOutstanding
  <2>4. \A i \in DOMAIN toOwner', j \in DOMAIN toReader' : toOwner'[i].run # toReader'[j].run
    BY <1>1, <1>2, <2>3 DEF Places, OneOutstanding
  <2> QED
    BY <2>1, <2>2, <2>4 DEF OneOutstanding
<1> QED
  BY <1>3, <1>4, <1>5 DEF Places

\* A dereference that is answered changes nothing about the writers; a write-back leaves them.
LEMMA AnsweredWriters ==
  ASSUME TypeOK, Places, NEW reply, Answered(reply)
  PROVE  /\ Head(toOwner).kind = "deref" => Writers' = Writers
         /\ Head(toOwner).kind \in Proposal =>
              Writers' = Writers \ {reply.run} /\ reply.run \in Writers
<1>1. /\ 1 \in DOMAIN toOwner /\ Head(toOwner) = toOwner[1] /\ Head(toOwner) \in Request
      /\ \A i \in DOMAIN toOwner' :
           i \in Nat \ {0} /\ i + 1 \in DOMAIN toOwner /\ toOwner'[i] = toOwner[i + 1]
  BY AnsweredQueues
<1>2. run' = run /\ reply.run = toOwner[1].run /\ reply.run \in Run
  BY <1>1, RequestFields DEF Answered
<1>3. \A i \in DOMAIN toOwner : i # 1 => i - 1 \in DOMAIN toOwner' /\ toOwner'[i - 1] = toOwner[i]
  BY DEF Answered, TypeOK
<1>4. \A i \in DOMAIN toOwner : toOwner[i].run = reply.run => i = 1
  BY <1>1, <1>2 DEF Places, OneOutstanding
<1>5. CASE Head(toOwner).kind = "deref"
  <2>1. Head(toOwner).kind \notin Proposal
    BY <1>5 DEF Proposal
  <2>2. Proposing' = Proposing
    BY <1>1, <1>2, <1>3, <2>1 DEF Proposing
  <2> QED
    BY <1>2, <2>1, <2>2 DEF Writers
<1>6. CASE Head(toOwner).kind \in Proposal
  <2>1. Proposing' = Proposing \ {reply.run} /\ reply.run \in Proposing
    <3>1. \A r \in Run : r \in Proposing' => r \in Proposing /\ r # reply.run
      <4>1. \A i \in DOMAIN toOwner' : i + 1 \in DOMAIN toOwner /\ i + 1 # 1
        BY <1>1
      <4> QED
        BY <1>1, <1>4, <4>1 DEF Proposing
    <3>2. \A r \in Run : r \in Proposing /\ r # reply.run => r \in Proposing'
      BY <1>1, <1>2, <1>3 DEF Proposing
    <3>3. reply.run \in Proposing
      BY <1>1, <1>2, <1>6 DEF Proposing
    <3> QED
      BY <3>1, <3>2, <3>3 DEF Proposing
  <2>2. run[reply.run].at # "write lookup"
    BY <1>1, <1>2 DEF Places, FlightPlaced, RequestPlaced
  <2> QED
    BY <1>2, <2>1, <2>2, <1>6 DEF Writers, Proposal
<1> QED
  BY <1>1, <1>5, <1>6, RequestFields

\* What the current version of an unreleased handle stands for.
LEMMA MasterTyped ==
  ASSUME TypeOK, NEW h \in Handle, version[h] # 0
  PROVE  /\ objs[h] \in 1..Len(object) /\ object[objs[h]] \in Content
         /\ version[h] \in Version /\ version[h] = Len(hist[h])
<1>1. object \in Seq(Content) /\ objs[h] \in 0..Len(object) /\ objs[h] # 0
  BY DEF TypeOK
<1> QED
  BY <1>1 DEF TypeOK

\* The three answers to a dereference.
ServeDerefReply(p) ==
  LET q == Head(toOwner)
      v == version[q.handle]
  IN  \/ v = 0 /\ p = [kind |-> "error", run |-> q.run]
      \/ v # 0 /\ q.have = v /\ p = [kind |-> "same", run |-> q.run, version |-> v]
      \/ /\ v # 0 /\ q.have # v
         /\ p = [kind |-> "fetched", run |-> q.run, version |-> v,
                 content |-> object[objs[q.handle]]]

\* What the answer to a dereference changes, and which answer it is.
LEMMA ServeDerefEffect ==
  ASSUME TypeOK, FlightPlaced, ServeDeref
  PROVE  /\ UNCHANGED <<objs, version, object, tagged, hist>>
         /\ toOwner # <<>> /\ Head(toOwner).kind = "deref"
         /\ Head(toOwner) \in Request /\ Head(toOwner) = toOwner[1] /\ 1 \in DOMAIN toOwner
         /\ RequestPlaced(Head(toOwner))
         /\ \E reply : Answered(reply) /\ ReplyPlaced(reply) /\ ServeDerefReply(reply)
<1> DEFINE q == Head(toOwner)
           v == version[q.handle]
<1>1. /\ toOwner # <<>> /\ q.kind = "deref"
      /\ UNCHANGED <<objs, version, object, tagged, hist>>
  BY DEF ServeDeref, owner
<1>2. q \in Request /\ q = toOwner[1] /\ 1 \in DOMAIN toOwner /\ RequestPlaced(q)
  BY <1>1, TailQueue DEF TypeOK, FlightPlaced
<1>3. q.run \in Run /\ q.handle \in Handle /\ run[q.run].at = "deref reply"
  BY <1>1, <1>2, RequestFields DEF RequestPlaced
<1> DEFINE reply == CASE v = 0 -> [kind |-> "error", run |-> q.run]
                     [] v # 0 /\ q.have = v -> [kind |-> "same", run |-> q.run, version |-> v]
                     [] v # 0 /\ q.have # v -> [kind |-> "fetched", run |-> q.run, version |-> v,
                                                content |-> object[objs[q.handle]]]
<1>4. Answer(reply)
  BY DEF ServeDeref
<1>5. ServeDerefReply(reply)
  BY DEF ServeDerefReply
<1> HIDE DEF reply
<1>6. reply \in Reply /\ reply.run = q.run /\ reply.kind \in {"error", "same", "fetched"}
  <2>1. v # 0 => v \in Version /\ object[objs[q.handle]] \in Content
    BY <1>3, MasterTyped
  <2>2. CASE v = 0 /\ reply = [kind |-> "error", run |-> q.run]
    BY <2>2, <1>3, ReplyKinds
  <2>3. CASE v # 0 /\ reply = [kind |-> "same", run |-> q.run, version |-> v]
    BY <2>1, <2>3, <1>3, ReplyKinds
  <2>4. CASE v # 0 /\ reply = [kind |-> "fetched", run |-> q.run, version |-> v,
                               content |-> object[objs[q.handle]]]
    BY <2>1, <2>4, <1>3, ReplyKinds
  <2> QED
    BY <1>5, <2>2, <2>3, <2>4 DEF ServeDerefReply
<1>7. Answered(reply)
  BY <1>1, <1>4, <1>6 DEF Answered, Answer, reader
<1>8. ReplyPlaced(reply)
  BY <1>3, <1>6 DEF ReplyPlaced, ReplyPoint
<1> QED
  BY <1>1, <1>2, <1>5, <1>7, <1>8

\* The owner's answer to a dereference keeps the strengthened type invariant.
LEMMA ServeDerefTInv ==
  ASSUME TInv, ServeDeref
  PROVE  TInv'
<1>1. /\ UNCHANGED <<objs, version, object, tagged, hist>> /\ Head(toOwner).kind = "deref"
      /\ \E reply : Answered(reply) /\ ReplyPlaced(reply)
  BY ServeDerefEffect DEF TInv, Places
<1>2. PICK reply : Answered(reply) /\ ReplyPlaced(reply)
  BY <1>1
<1>3. UNCHANGED <<copies, cached, rejected, run, local, writes>>
  BY <1>2 DEF Answered
<1>4. TypeOK'
  <2>1. toOwner' \in Seq(Request) /\ toReader' \in Seq(Reply)
    BY <1>2, AnsweredQueues DEF TInv
  <2> QED
    BY <1>1, <1>3, <2>1 DEF TInv, TypeOK
<1>5. OwnerHolds'
  BY <1>1, <1>3 DEF TInv, OwnerHolds
<1>6. Places' /\ CopyBudget'
  BY <1>2, AnsweredPlaces DEF TInv
<1>7. VersionBudget'
  <2>1. Writers' = Writers
    BY <1>1, <1>2, AnsweredWriters DEF TInv
  <2> QED
    BY <1>1, <1>3, <2>1 DEF TInv, VersionBudget
<1> QED
  BY <1>4, <1>5, <1>6, <1>7 DEF TInv

\* A write-back is judged: the reply is no matter of dereferences.
LEMMA JudgedPlaced ==
  ASSUME TypeOK, FlightPlaced, toOwner # <<>>, Head(toOwner).kind \in Proposal
  PROVE  /\ Head(toOwner) \in Request /\ Head(toOwner) = toOwner[1] /\ 1 \in DOMAIN toOwner
         /\ RequestPlaced(Head(toOwner))
         /\ Head(toOwner).run \in Run /\ Head(toOwner).handle \in Handle
         /\ run[Head(toOwner).run].at \in {"apply reply", "replace reply"}
         /\ Head(toOwner).content \in Content
<1>1. /\ Head(toOwner) \in Request /\ Head(toOwner) = toOwner[1] /\ 1 \in DOMAIN toOwner
      /\ RequestPlaced(Head(toOwner))
  BY TailQueue DEF TypeOK, FlightPlaced
<1> QED
  BY <1>1, RequestFields DEF RequestPlaced, Proposal

\* What a rejection changes.
LEMMA ServeRejectedEffect ==
  ASSUME TypeOK, FlightPlaced, ServeRejected
  PROVE  /\ UNCHANGED <<objs, version, object, tagged, hist>>
         /\ toOwner # <<>> /\ Head(toOwner).kind \in Proposal
         /\ version[Head(toOwner).handle] # Head(toOwner).version
              \/ version[Head(toOwner).handle] = 0
         /\ \E reply : /\ Answered(reply) /\ ReplyPlaced(reply)
                       /\ reply.kind \in {"error", "conflict"}
<1> DEFINE q == Head(toOwner)
           v == version[q.handle]
<1>1. /\ toOwner # <<>> /\ q.kind \in Proposal /\ (v = 0 \/ v # q.version)
      /\ UNCHANGED <<objs, version, object, tagged, hist>>
  BY DEF ServeRejected, owner, Proposal, Unchanged
<1>2. /\ q \in Request /\ q.run \in Run /\ q.handle \in Handle
      /\ run[q.run].at \in {"apply reply", "replace reply"}
  BY <1>1, JudgedPlaced
<1> DEFINE reply == IF v = 0 THEN [kind |-> "error", run |-> q.run]
                    ELSE [kind |-> "conflict", run |-> q.run, version |-> v]
<1>3. Answer(reply)
  BY DEF ServeRejected
<1>4. reply \in Reply /\ reply.run = q.run /\ reply.kind \in {"error", "conflict"}
  <2>1. v \in Version
    BY <1>2 DEF TypeOK
  <2> QED
    BY <1>2, <2>1, ReplyKinds
<1> HIDE DEF reply
<1>5. Answered(reply)
  BY <1>1, <1>3, <1>4 DEF Answered, Answer, reader
<1>6. ReplyPlaced(reply)
  BY <1>2, <1>4 DEF ReplyPlaced, ReplyPoint
<1> QED
  BY <1>1, <1>4, <1>5, <1>6

\* A write-back the owner rejects keeps the strengthened type invariant.
LEMMA ServeRejectedTInv ==
  ASSUME TInv, ServeRejected
  PROVE  TInv'
<1>1. /\ UNCHANGED <<objs, version, object, tagged, hist>> /\ Head(toOwner).kind \in Proposal
      /\ \E reply : Answered(reply) /\ ReplyPlaced(reply)
  BY ServeRejectedEffect DEF TInv, Places
<1>2. PICK reply : Answered(reply) /\ ReplyPlaced(reply)
  BY <1>1
<1>3. UNCHANGED <<copies, cached, rejected, run, local, writes>>
  BY <1>2 DEF Answered
<1>4. TypeOK'
  <2>1. toOwner' \in Seq(Request) /\ toReader' \in Seq(Reply)
    BY <1>2, AnsweredQueues DEF TInv
  <2> QED
    BY <1>1, <1>3, <2>1 DEF TInv, TypeOK
<1>5. OwnerHolds'
  BY <1>1, <1>3 DEF TInv, OwnerHolds
<1>6. Places' /\ CopyBudget'
  BY <1>2, AnsweredPlaces DEF TInv
<1>7. VersionBudget'
  <2>1. Writers' = Writers \ {reply.run} /\ reply.run \in Writers
    BY <1>1, <1>2, AnsweredWriters DEF TInv
  <2>2. /\ IsFiniteSet(Writers') /\ IsFiniteSet(Writers) /\ Cardinality(Writers) \in Nat
        /\ Cardinality(Writers') = Cardinality(Writers) - 1
    BY <2>1, FS_RemoveElement, FS_CardinalityType DEF TInv, VersionBudget
  <2>3. \A h \in Handle : version[h] \in Nat /\ version[h] + Cardinality(Writers) <= writes + 1
    BY BoundsAssumption DEF TInv, TypeOK, Version, VersionBudget
  <2>4. version' = version /\ writes' = writes /\ writes \in Nat
    BY <1>1, <1>3, BoundsAssumption DEF TInv, TypeOK, Write
  <2>5. \A h \in Handle : version'[h] + Cardinality(Writers') <= writes' + 1
    BY <2>2, <2>3, <2>4
  <2> QED
    BY <2>2, <2>5 DEF VersionBudget
<1> QED
  BY <1>4, <1>5, <1>6, <1>7 DEF TInv

\* A patched content is a content.
LEMMA PatchedTyped ==
  ASSUME NEW c \in Content, NEW q \in Request, q.kind \in Proposal
  PROVE  Patched(c, q) \in Content
BY RequestFields DEF Patched, Content

\* What an accepted write-back makes of the master.
Outcome(q) == IF q.kind = "apply" THEN Patched(object[objs[q.handle]], q) ELSE q.content

Accepted(q) == [kind |-> "ok", run |-> q.run, version |-> version[q.handle] + 1]

\* What an accepted write-back changes, patch and replacement alike.
LEMMA ServeAcceptedEffect ==
  ASSUME TypeOK, FlightPlaced, VersionBudget, ServeAccepted
  PROVE  LET q == Head(toOwner)
             h == q.handle
         IN  /\ toOwner # <<>> /\ q.kind \in Proposal
             /\ version[h] # 0 /\ version[h] = q.version
             /\ Outcome(q) \in Content
             /\ object' \in Seq(Content) /\ Len(object) <= Len(object')
             /\ objs' \in [Handle -> 0..Len(object')]
             /\ objs'[h] # 0 /\ object'[objs'[h]] = Outcome(q)
             /\ \A g \in Handle : g # h => objs'[g] = objs[g]
             /\ tagged' \in [DOMAIN object' -> Handle]
             /\ \A i \in 1..Len(object) : tagged'[i] = tagged[i]
             /\ Advances(h, Outcome(q))
             /\ version[h] + 1 \in Version
             /\ Answered(Accepted(q)) /\ ReplyPlaced(Accepted(q))
<1> DEFINE q == Head(toOwner)
           h == q.handle
<1>1. /\ toOwner # <<>> /\ q.kind \in Proposal /\ version[h] # 0 /\ version[h] = q.version
      /\ version' = [version EXCEPT ![h] = @ + 1]
      /\ hist' = Recorded(h, version'[h], object'[objs'[h]])
      /\ Answer([kind |-> "ok", run |-> q.run, version |-> version'[h]])
  BY DEF ServeAccepted, Proposal, Unchanged
<1>2. /\ q \in Request /\ q = toOwner[1] /\ 1 \in DOMAIN toOwner
      /\ q.run \in Run /\ h \in Handle /\ q.content \in Content
      /\ run[q.run].at \in {"apply reply", "replace reply"}
  BY <1>1, JudgedPlaced
<1>3. /\ objs[h] \in 1..Len(object) /\ object[objs[h]] \in Content
      /\ version[h] \in Version /\ version[h] = Len(hist[h])
  BY <1>1, <1>2, MasterTyped
<1>4. Patched(object[objs[h]], q) \in Content
  BY <1>1, <1>2, <1>3, PatchedTyped
<1>5. Outcome(q) \in Content
  BY <1>2, <1>4 DEF Outcome
<1>6. /\ object \in Seq(Content) /\ DOMAIN object = 1..Len(object) /\ Len(object) \in Nat
      /\ objs \in [Handle -> 0..Len(object)] /\ tagged \in [1..Len(object) -> Handle]
  <2>1. object \in Seq(Content) /\ tagged \in [DOMAIN object -> Handle]
        /\ objs \in [Handle -> 0..Len(object)]
    BY DEF TypeOK
  <2>2. DOMAIN object = 1..Len(object) /\ Len(object) \in Nat
    BY <2>1
  <2> QED
    BY <2>1, <2>2
<1> DEFINE Effect == /\ object' \in Seq(Content) /\ Len(object) <= Len(object')
                     /\ objs' \in [Handle -> 0..Len(object')]
                     /\ objs'[h] # 0 /\ object'[objs'[h]] = Outcome(q)
                     /\ \A g \in Handle : g # h => objs'[g] = objs[g]
                     /\ tagged' \in [DOMAIN object' -> Handle]
                     /\ \A i \in 1..Len(object) : tagged'[i] = tagged[i]
<1> HIDE DEF q
<1>7. ASSUME q.kind = "apply" PROVE Effect
  <2>1. object' = [object EXCEPT ![objs[h]] = Outcome(q)] /\ UNCHANGED <<objs, tagged>>
    BY <1>7 DEF ServeAccepted, Outcome, q
  <2>2. /\ object' \in Seq(Content) /\ Len(object') = Len(object)
        /\ DOMAIN object' = DOMAIN object /\ object'[objs[h]] = Outcome(q)
    BY <1>3, <1>5, <1>6, <2>1, SetElement
  <2> QED
    BY <1>3, <1>6, <2>1, <2>2
<1>8. ASSUME q.kind # "apply" PROVE Effect
  <2>1. /\ object' = Append(object, q.content) /\ objs' = [objs EXCEPT ![h] = Len(object')]
        /\ tagged' = Append(tagged, h)
    BY <1>8 DEF ServeAccepted, q
  <2>2. /\ object' \in Seq(Content) /\ Len(object') = Len(object) + 1
        /\ DOMAIN object' = 1..(Len(object) + 1)
        /\ object'[Len(object) + 1] = Outcome(q)
    <3>1. Outcome(q) = q.content
      BY <1>8 DEF Outcome
    <3>2. /\ Append(object, q.content) \in Seq(Content)
          /\ Len(Append(object, q.content)) = Len(object) + 1
          /\ DOMAIN Append(object, q.content) = 1..(Len(object) + 1)
          /\ Append(object, q.content)[Len(object) + 1] = q.content
      <4>1. object \in Seq(Content) /\ q.content \in Content
        BY <1>2, <1>6
      <4> QED
        BY <4>1
    <3> QED
      BY <2>1, <3>1, <3>2
  <2>3. objs' \in [Handle -> 0..Len(object')] /\ objs'[h] = Len(object) + 1
        /\ \A g \in Handle : g # h => objs'[g] = objs[g]
    <3>1. objs' = [objs EXCEPT ![h] = Len(object) + 1]
      BY <2>1, <2>2
    <3>2. objs \in [Handle -> 0..(Len(object) + 1)]
      BY <1>6
    <3>3. Len(object) + 1 \in 0..(Len(object) + 1)
      BY <1>6
    <3> QED
      BY <1>2, <2>2, <3>1, <3>2, <3>3
  <2>4. tagged \in Seq(Handle) /\ Len(tagged) = Len(object)
    BY <1>6
  <2>5. /\ tagged' \in Seq(Handle) /\ Len(tagged') = Len(object) + 1
        /\ \A i \in 1..Len(object) : tagged'[i] = tagged[i]
    <3>1. /\ Append(tagged, h) \in Seq(Handle) /\ Len(Append(tagged, h)) = Len(tagged) + 1
          /\ \A i \in 1..Len(tagged) : Append(tagged, h)[i] = tagged[i]
      <4>1. tagged \in Seq(Handle) /\ h \in Handle
        BY <1>2, <2>4
      <4> HIDE DEF h
      <4> QED
        BY <4>1
    <3> QED
      BY <2>1, <2>4, <3>1
  <2>6. tagged' \in [DOMAIN object' -> Handle]
    BY <2>2, <2>5
  <2> QED
    BY <1>6, <2>2, <2>3, <2>5, <2>6
<1>9. Effect
  BY <1>7, <1>8
<1>10. version'[h] = version[h] + 1
  BY <1>1, <1>2 DEF TypeOK
<1>11. Advances(h, Outcome(q))
  BY <1>1, <1>9 DEF Advances
<1>12. version[h] + 1 \in Version
  <2>1. q.run \in Writers
    BY <1>1, <1>2 DEF Writers, Proposing
  <2>2. Cardinality(Writers) \in Nat \ {0}
    BY <2>1, FS_CardinalityType, FS_EmptySet DEF VersionBudget
  <2>3. version[h] \in Nat /\ writes \in Nat /\ writes <= MaxWrites
    BY <1>3, BoundsAssumption DEF TypeOK, Version, Write
  <2>4. version[h] + Cardinality(Writers) <= writes + 1
    BY <1>2 DEF VersionBudget
  <2> QED
    BY <2>2, <2>3, <2>4, BoundsAssumption DEF Version
<1>13. Accepted(q) \in Reply /\ Accepted(q).run = q.run /\ Accepted(q).kind = "ok"
  BY <1>2, <1>12, ReplyKinds DEF Accepted
<1>14. Answered(Accepted(q))
  <2>1. Answer(Accepted(q))
    BY <1>1, <1>10 DEF Accepted, q
  <2> QED
    BY <1>1, <1>13, <2>1 DEF Answered, Answer, reader, q
<1>15. ReplyPlaced(Accepted(q))
  BY <1>2, <1>13 DEF ReplyPlaced, ReplyPoint
<1> QED
  BY <1>1, <1>5, <1>9, <1>11, <1>12, <1>14, <1>15 DEF q

\* A write-back the owner accepts keeps the strengthened type invariant.
LEMMA ServeAcceptedTInv ==
  ASSUME TInv, ServeAccepted
  PROVE  TInv'
<1> DEFINE q == Head(toOwner)
           h == q.handle
<1>1. /\ toOwner # <<>> /\ q.kind \in Proposal /\ version[h] # 0
      /\ Outcome(q) \in Content
      /\ object' \in Seq(Content) /\ Len(object) <= Len(object')
      /\ objs' \in [Handle -> 0..Len(object')] /\ objs'[h] # 0
      /\ \A g \in Handle : g # h => objs'[g] = objs[g]
      /\ tagged' \in [DOMAIN object' -> Handle]
      /\ \A i \in 1..Len(object) : tagged'[i] = tagged[i]
      /\ Advances(h, Outcome(q))
      /\ Answered(Accepted(q)) /\ ReplyPlaced(Accepted(q))
  BY ServeAcceptedEffect DEF TInv, Places
<1>2. h \in Handle /\ q.run \in Run
  BY <1>1, JudgedPlaced DEF TInv, Places
<1> HIDE DEF q, h
<1>3. /\ version' \in [Handle -> Nat]
      /\ version'[h] = version[h] + 1 /\ version[h] \in Nat
      /\ \A g \in Handle \ {h} : version'[g] = version[g] /\ hist'[g] = hist[g]
      /\ hist' \in [Handle -> Seq(Content)]
      /\ Len(hist'[h]) = version'[h]
  BY <1>1, <1>2, AdvancesTypes DEF TInv
<1>4. UNCHANGED <<copies, cached, rejected, run, local, writes>>
  BY <1>1 DEF Answered
<1>5. Places' /\ CopyBudget'
  BY <1>1, AnsweredPlaces DEF TInv
<1>6. VersionBudget'
  <2>1. \E r : Writers' = Writers \ {r} /\ r \in Writers
    BY <1>1, AnsweredWriters DEF TInv, q
  <2>2. /\ IsFiniteSet(Writers') /\ IsFiniteSet(Writers) /\ Cardinality(Writers) \in Nat
        /\ Cardinality(Writers') = Cardinality(Writers) - 1
    BY <2>1, FS_RemoveElement, FS_CardinalityType DEF TInv, VersionBudget
  <2>3. \A g \in Handle : version[g] \in Nat /\ version[g] + Cardinality(Writers) <= writes + 1
    BY BoundsAssumption DEF TInv, TypeOK, Version, VersionBudget
  <2>4. writes' = writes /\ writes \in Nat
    BY <1>4, BoundsAssumption DEF TInv, TypeOK, Write
  <2>5. \A g \in Handle : version'[g] = version[g] \/ version'[g] = version[g] + 1
    BY <1>3
  <2>6. \A g \in Handle : version'[g] + Cardinality(Writers') <= writes' + 1
    BY <2>2, <2>3, <2>4, <2>5
  <2> QED
    BY <2>2, <2>6 DEF VersionBudget
<1>7. version' \in [Handle -> Version]
  BY <1>3, <1>4, <1>6, BudgetBounds DEF TInv, TypeOK
<1>8. TypeOK'
  <2>1. \A g \in Handle : version'[g] # 0 => objs'[g] # 0 /\ version'[g] = Len(hist'[g])
    BY <1>1, <1>3 DEF TInv, TypeOK
  <2>2. toOwner' \in Seq(Request) /\ toReader' \in Seq(Reply)
    BY <1>1, AnsweredQueues DEF TInv
  <2>3. local' \in 0..Len(object')
    <3>1. local \in 0..Len(object) /\ Len(object) \in Nat /\ Len(object') \in Nat
      BY <1>1 DEF TInv, TypeOK
    <3> QED
      BY <1>1, <1>4, <3>1
  <2>4. copies' \in Seq(Copy) /\ cached' \in [Handle -> 0..Len(copies')]
        /\ run' \in [Run -> RunState] /\ writes' \in Write /\ rejected' \in SUBSET CopyId
    BY <1>4 DEF TInv, TypeOK
  <2> QED
    BY <1>1, <1>3, <1>7, <2>1, <2>2, <2>3, <2>4 DEF TypeOK
<1>9. OwnerHolds'
  <2>1. local # 0 => local \in 1..Len(object) /\ tagged[local] \in Handle
    <3>1. object \in Seq(Content) /\ local \in 0..Len(object)
          /\ tagged \in [DOMAIN object -> Handle]
      BY DEF TInv, TypeOK
    <3> QED
      BY <3>1
  <2> QED
    BY <1>1, <1>3, <1>4, <2>1 DEF TInv, OwnerHolds
<1> QED
  BY <1>5, <1>6, <1>8, <1>9 DEF TInv

-----------------------------------------------------------------------------
(* The reader's steps.                                                     *)

\* The fields of a run.
LEMMA RunFields ==
  ASSUME TypeOK, NEW r \in Run
  PROVE  /\ run[r] \in RunState
         /\ run[r].handle \in Handle /\ run[r].floor \in Version
         /\ run[r].copy \in Nat /\ run[r].copy <= MaxCopies
         /\ run[r].entry \in Nat /\ run[r].entry <= MaxCopies
<1>1. run[r] \in RunState
  BY DEF TypeOK
<1>2. /\ run[r].handle \in Handle /\ run[r].floor \in Version
      /\ run[r].copy \in CopyId /\ run[r].entry \in CopyId
  BY <1>1 DEF RunState
<1> QED
  BY <1>1, <1>2, BoundsAssumption DEF CopyId

\* The fields of the copies.
LEMMA CopyFields ==
  ASSUME TypeOK
  PROVE  /\ Len(copies) \in Nat /\ DOMAIN copies = 1..Len(copies)
         /\ \A c \in 1..Len(copies) :
              /\ copies[c] \in Copy /\ copies[c].handle \in Handle
              /\ copies[c].version \in Version /\ copies[c].entryVersion \in Version
              /\ copies[c].content \in Content /\ copies[c].baseline \in Content
              /\ copies[c].seen \in SUBSET Write
<1>1. copies \in Seq(Copy)
  BY DEF TypeOK
<1>2. Len(copies) \in Nat /\ DOMAIN copies = 1..Len(copies)
      /\ \A c \in 1..Len(copies) : copies[c] \in Copy
  BY <1>1
<1> QED
  BY <1>2 DEF Copy

\* The cache names copies.
LEMMA CachedFields ==
  ASSUME TypeOK, NEW h \in Handle
  PROVE  cached[h] \in Nat /\ cached[h] <= Len(copies) /\ Len(copies) \in Nat
<1>1. Len(copies) \in Nat /\ cached[h] \in 0..Len(copies)
  BY CopyFields DEF TypeOK
<1> QED
  BY <1>1

\* A step of run r, or of the store, leaves the other runs where they are, and what a copy is a
\* copy of; nothing is cached again.
Aside(r) ==
  /\ \A s \in Run : s # r => run'[s] = run[s]
  /\ copies' \in Seq(Copy) /\ Len(copies) <= Len(copies')
  /\ \A c \in 1..Len(copies) : /\ copies'[c].handle = copies[c].handle
                               /\ copies[c].seen \subseteq copies'[c].seen
  /\ \A g \in Handle : cached'[g] \in {0, cached[g]} \/ cached'[g] > Len(copies)

\* The runs and messages a step of run r leaves aside stay placed.
LEMMA OthersAside ==
  ASSUME TypeOK, RunsPlaced, NEW r \in Run, Aside(r)
  PROVE  /\ \A s \in Run : s # r => RunPlaced(s)'
         /\ \A q \in Request : q.run # r /\ RequestPlaced(q) => RequestPlaced(q)'
         /\ \A p \in Reply : p.run # r /\ ReplyPlaced(p) => ReplyPlaced(p)'
<1>1. Len(copies) \in Nat /\ Len(copies') \in Nat
  BY CopyFields DEF Aside
<1>2. ASSUME NEW s \in Run, s # r PROVE RunPlaced(s)'
  <2>1. /\ run'[s] = run[s] /\ RunPlaced(s)
        /\ run[s].copy \in Nat /\ run[s].entry \in Nat
        /\ run[s].copy <= Len(copies) /\ run[s].entry <= Len(copies)
    BY <1>2, RunFields DEF Aside, RunsPlaced, RunPlaced
  <2>2. run[s].copy <= Len(copies') /\ run[s].entry <= Len(copies')
    BY <1>1, <2>1 DEF Aside
  <2>3. run[s].entry # 0 => copies'[run[s].entry].handle = copies[run[s].entry].handle
    BY <1>1, <2>1 DEF Aside
  <2>4. run[s].copy # 0 => /\ copies'[run[s].copy].handle = copies[run[s].copy].handle
                           /\ copies[run[s].copy].handle \in Handle
    BY <1>1, <2>1, CopyFields DEF Aside
  <2>5. ASSUME run[s].at \in WritePoint, run[s].entry # run[s].copy
        PROVE  cached'[copies'[run[s].copy].handle] # run[s].copy
    <3>1. run[s].copy # 0 /\ cached[copies[run[s].copy].handle] # run[s].copy
      BY <2>1, <2>5 DEF RunPlaced
    <3>2. ~(run[s].copy > Len(copies))
      BY <1>1, <2>1
    <3> QED
      BY <2>4, <3>1, <3>2 DEF Aside
  <2> QED
    BY <2>1, <2>2, <2>3, <2>4, <2>5 DEF RunPlaced
<1>3. ASSUME NEW q \in Request, q.run # r, RequestPlaced(q)
      PROVE  RequestPlaced(q)'
  <2>1. q.run \in Run /\ run'[q.run] = run[q.run]
    BY <1>3, RequestFields DEF Aside
  <2>2. /\ run[q.run].copy \in Nat /\ run[q.run].copy <= Len(copies)
        /\ q.kind \in Proposal => run[q.run].copy # 0
    BY <1>3, <2>1, RunFields DEF RunsPlaced, RunPlaced, RequestPlaced, WritePoint, Proposal
  <2>3. q.kind \in Proposal =>
          copies'[run[q.run].copy].handle = copies[run[q.run].copy].handle
    BY <1>1, <2>2 DEF Aside
  <2> QED
    BY <1>3, <2>1, <2>3 DEF RequestPlaced, Proposal
<1>4. ASSUME NEW p \in Reply, p.run # r, ReplyPlaced(p)
      PROVE  ReplyPlaced(p)'
  <2>1. p.run \in Run /\ run'[p.run] = run[p.run]
    BY <1>4, ReplyFields DEF Aside
  <2> QED
    BY <1>4, <2>1 DEF ReplyPlaced
<1> QED
  BY <1>2, <1>3, <1>4

\* What is in flight, typed.
LEMMA FlightTyped ==
  ASSUME TypeOK
  PROVE  /\ \A i \in DOMAIN toOwner : toOwner[i] \in Request
         /\ \A j \in DOMAIN toReader : toReader[j] \in Reply
BY DEF TypeOK

\* A run that awaits no reply has nothing in flight.
LEMMA NothingInFlight ==
  ASSUME TypeOK, FlightPlaced, NEW r \in Run, run[r].at \notin ReplyPoint
  PROVE  /\ \A i \in DOMAIN toOwner : toOwner[i].run # r
         /\ \A j \in DOMAIN toReader : toReader[j].run # r
BY FlightTyped DEF FlightPlaced, RequestPlaced, ReplyPlaced, ReplyPoint

\* A step of run r that sends and receives nothing.
LEMMA QuietPlaces ==
  ASSUME TypeOK, Places, NEW r \in Run, Aside(r), UNCHANGED <<toOwner, toReader>>,
         run[r].at \notin ReplyPoint
  PROVE  FlightPlaced' /\ OneOutstanding' /\ Proposing' = Proposing
<1>1. OneOutstanding' /\ Proposing' = Proposing
  BY DEF Places, OneOutstanding, Proposing
<1>2. /\ \A i \in DOMAIN toOwner : toOwner[i] \in Request /\ toOwner[i].run # r
      /\ \A j \in DOMAIN toReader : toReader[j] \in Reply /\ toReader[j].run # r
  BY FlightTyped, NothingInFlight DEF Places
<1> QED
  BY <1>1, <1>2, OthersAside DEF Places, FlightPlaced

\* A step of run r that sends a request.
LEMMA SentPlaces ==
  ASSUME TypeOK, Places, NEW r \in Run, Aside(r), run[r].at \notin ReplyPoint,
         NEW m \in Request, m.run = r, RequestPlaced(m)',
         toOwner' = Append(toOwner, m), UNCHANGED toReader
  PROVE  /\ FlightPlaced' /\ OneOutstanding'
         /\ Proposing' = IF m.kind \in Proposal THEN Proposing \cup {r} ELSE Proposing
         /\ toOwner' \in Seq(Request)
         /\ DOMAIN toOwner' = DOMAIN toOwner \cup {Len(toOwner) + 1}
         /\ Len(toOwner) + 1 \notin DOMAIN toOwner
         /\ toOwner'[Len(toOwner) + 1] = m
         /\ \A i \in DOMAIN toOwner : toOwner'[i] = toOwner[i]
<1>1. toOwner \in Seq(Request)
  BY DEF TypeOK
<1>2. /\ toOwner' \in Seq(Request)
      /\ DOMAIN toOwner' = DOMAIN toOwner \cup {Len(toOwner) + 1}
      /\ Len(toOwner) + 1 \notin DOMAIN toOwner
      /\ toOwner'[Len(toOwner) + 1] = m
      /\ \A i \in DOMAIN toOwner : toOwner'[i] = toOwner[i]
  BY <1>1, AppendQueue
<1>3. /\ \A i \in DOMAIN toOwner : toOwner[i] \in Request /\ toOwner[i].run # r
      /\ \A j \in DOMAIN toReader : toReader[j] \in Reply /\ toReader[j].run # r
  BY FlightTyped, NothingInFlight DEF Places
<1>4. FlightPlaced'
  <2>1. \A i \in DOMAIN toOwner' : RequestPlaced(toOwner[i])'
    BY <1>2, <1>3, OthersAside DEF Places, FlightPlaced
  <2>2. \A j \in DOMAIN toReader' : ReplyPlaced(toReader[j])'
    BY <1>3, OthersAside DEF Places, FlightPlaced
  <2> QED
    BY <2>1, <2>2 DEF FlightPlaced
<1>5. OneOutstanding'
  BY <1>2, <1>3 DEF Places, OneOutstanding
<1>6. Proposing' = IF m.kind \in Proposal THEN Proposing \cup {r} ELSE Proposing
  BY <1>2 DEF Proposing
<1> QED
  BY <1>2, <1>4, <1>5, <1>6

\* A step of run r that takes its reply.
LEMMA ReceivedPlaces ==
  ASSUME TypeOK, Places, NEW r \in Run, Aside(r), toReader # <<>>, Head(toReader).run = r,
         toReader' = Tail(toReader), UNCHANGED toOwner
  PROVE  /\ FlightPlaced' /\ OneOutstanding' /\ Proposing' = Proposing
         /\ toReader' \in Seq(Reply)
         /\ Head(toReader) \in Reply /\ 1 \in DOMAIN toReader /\ Head(toReader) = toReader[1]
         /\ ReplyPlaced(Head(toReader))
         /\ \A j \in DOMAIN toReader' :
              /\ j \in Nat \ {0} /\ j + 1 \in DOMAIN toReader /\ toReader'[j] = toReader[j + 1]
              /\ toReader'[j].run # r
         /\ \A i \in DOMAIN toOwner : toOwner[i].run # r
<1>1. toReader \in Seq(Reply)
  BY DEF TypeOK
<1>2. /\ toReader' \in Seq(Reply)
      /\ Head(toReader) \in Reply /\ 1 \in DOMAIN toReader /\ Head(toReader) = toReader[1]
      /\ \A j \in DOMAIN toReader' :
           j \in Nat \ {0} /\ j + 1 \in DOMAIN toReader /\ toReader'[j] = toReader[j + 1]
  BY <1>1, TailQueue
<1>3. /\ \A j \in DOMAIN toReader' : toReader'[j].run # r /\ toReader'[j] \in Reply
      /\ \A i \in DOMAIN toOwner : toOwner[i].run # r /\ toOwner[i] \in Request
  <2>1. \A j \in DOMAIN toReader' : j + 1 # 1
    BY <1>2
  <2> QED
    BY <1>2, <2>1, FlightTyped DEF Places, OneOutstanding
<1>4. FlightPlaced'
  <2>1. \A i \in DOMAIN toOwner' : RequestPlaced(toOwner[i])'
    BY <1>3, OthersAside DEF Places, FlightPlaced
  <2>2. \A j \in DOMAIN toReader' : ReplyPlaced(toReader[j])'
    BY <1>2, <1>3, OthersAside DEF Places, FlightPlaced
  <2> QED
    BY <2>1, <2>2 DEF FlightPlaced
<1>5. OneOutstanding'
  BY <1>2 DEF Places, OneOutstanding
<1>6. Proposing' = Proposing /\ ReplyPlaced(Head(toReader))
  BY <1>2 DEF Proposing, Places, FlightPlaced
<1> QED
  BY <1>2, <1>3, <1>4, <1>5, <1>6

\* The runs after one of them changes.
LEMMA RunUpdated ==
  ASSUME TypeOK, NEW r \in Run, NEW x \in RunState, run' = [run EXCEPT ![r] = x]
  PROVE  /\ run' \in [Run -> RunState] /\ run'[r] = x
         /\ \A s \in Run : s # r => run'[s] = run[s]
<1>1. run \in [Run -> RunState]
  BY DEF TypeOK
<1> QED
  BY <1>1

\* A step that touches no copy and caches nothing leaves the others aside.
LEMMA AsideUnchanged ==
  ASSUME TypeOK, NEW r \in Run, \A s \in Run : s # r => run'[s] = run[s],
         UNCHANGED copies, \A g \in Handle : cached'[g] \in {0, cached[g]}
  PROVE  Aside(r)
<1>1. copies \in Seq(Copy) /\ Len(copies) \in Nat
  BY CopyFields DEF TypeOK
<1> QED
  BY <1>1 DEF Aside

\* Who dereferences and who has a write to be judged, after a step of run r.
LEMMA RunCounts ==
  ASSUME NEW r \in Run, \A s \in Run : s # r => run'[s] = run[s]
  PROVE  /\ Dereferencing' = IF run'[r].at \in DerefPoint THEN Dereferencing \cup {r}
                             ELSE Dereferencing \ {r}
         /\ Proposing' = Proposing /\ run[r].at # "write lookup" /\ run'[r].at # "write lookup"
              => Writers' = Writers
         /\ Proposing' = Proposing /\ run'[r].at = "write lookup" => Writers' = Writers \cup {r}
         /\ Proposing' = Proposing \cup {r} /\ run[r].at = "write lookup" => Writers' = Writers
BY DEF Dereferencing, DerefPoint, Writers

\* The copies that a step of the reader adds to the rejected ones are copies.
LEMMA RejectedTyped ==
  ASSUME TypeOK, NEW r \in Run, RunStep(r)
  PROVE  rejected' \in SUBSET CopyId
<1>1. run[r].copy \in CopyId /\ rejected \in SUBSET CopyId
  BY RunFields DEF TypeOK, CopyId
<1>2. CASE WriteRejected(r)
  BY <1>1, <1>2 DEF WriteRejected
<1>3. CASE ~WriteRejected(r)
  <2>1. UNCHANGED rejected
    BY <1>3 DEF RunStep, DerefLookup, DerefSend, DerefSame, DerefFetched, DerefError, WriteLookup,
                WriteApply, WriteReplace, WriteApplied, WriteReplaced, reader
  <2> QED
    BY <1>1, <2>1
<1> QED
  BY <1>2, <1>3

\* A step of the reader that counts right keeps the invariant.
LEMMA ReaderTInv ==
  ASSUME TInv, NEW r \in Run, RunStep(r), Aside(r),
         UNCHANGED <<objs, version, object, tagged, hist, local>>,
         run' \in [Run -> RunState], RunPlaced(r)',
         cached' \in [Handle -> 0..Len(copies')], CacheNames', FlightPlaced', OneOutstanding',
         toOwner' \in Seq(Request), toReader' \in Seq(Reply), writes' \in Write,
         VersionBudget', CopyBudget'
  PROVE  TInv'
<1>1. TypeOK'
  BY RejectedTyped DEF TInv, TypeOK, Aside
<1>2. RunsPlaced'
  BY OthersAside DEF TInv, Places, RunsPlaced
<1>3. OwnerHolds'
  BY DEF TInv, OwnerHolds
<1> QED
  BY <1>1, <1>2, <1>3 DEF TInv, Places

\* The budget of writes, when the writers stay the same.
LEMMA SameWriters ==
  ASSUME TInv, UNCHANGED <<version, writes>>, Writers' = Writers
  PROVE  VersionBudget'
BY DEF TInv, VersionBudget

\* The lookup that begins a dereference keeps the strengthened type invariant.
LEMMA DerefLookupTInv ==
  ASSUME TInv, NEW r \in Run, NEW h \in Handle, DerefLookup(r, h)
  PROVE  TInv'
<1> DEFINE x == [run[r] EXCEPT !.at = "deref lookup", !.handle = h, !.entry = cached[h],
                               !.floor = version[h]]
<1>1. /\ run[r].at = "nothing" /\ Len(copies) + Cardinality(Dereferencing) < MaxCopies
      /\ run' = [run EXCEPT ![r] = x]
      /\ UNCHANGED <<objs, version, object, tagged, hist, local, copies, cached, toOwner, toReader,
                     writes>>
  BY DEF DerefLookup, owner, reader
<1>2. /\ Len(copies) \in Nat /\ Cardinality(Dereferencing) \in Nat /\ IsFiniteSet(Dereferencing)
      /\ Len(copies) <= MaxCopies
  <2>1. Len(copies) \in Nat /\ Cardinality(Dereferencing) \in Nat /\ IsFiniteSet(Dereferencing)
    BY CopyFields, FS_CardinalityType DEF TInv, CopyBudget
  <2> QED
    BY <1>1, <2>1, BoundsAssumption
<1>3. cached[h] \in CopyId /\ cached[h] <= Len(copies) /\ version[h] \in Version
  BY <1>2, CachedFields, BoundsAssumption DEF TInv, TypeOK, CopyId
<1>4. x \in RunState /\ x.at = "deref lookup" /\ x.handle = h /\ x.entry = cached[h]
      /\ x.copy = run[r].copy
  BY <1>3, RunFields DEF TInv, RunState
<1> HIDE DEF x
<1>5. /\ run' \in [Run -> RunState] /\ run'[r] = x
      /\ \A s \in Run : s # r => run'[s] = run[s]
  BY <1>1, <1>4, RunUpdated DEF TInv
<1>6. Aside(r)
  BY <1>1, <1>2, <1>5 DEF Aside, TInv, TypeOK
<1>7. RunPlaced(r)'
  <2>1. run[r].copy <= Len(copies)
    BY DEF TInv, Places, RunsPlaced, RunPlaced
  <2>2. cached[h] # 0 => copies[cached[h]].handle = h
    BY DEF TInv, Places, CacheNames
  <2> QED
    BY <1>1, <1>3, <1>4, <1>5, <2>1, <2>2 DEF RunPlaced, WritePoint
<1>8. FlightPlaced' /\ OneOutstanding' /\ Proposing' = Proposing
  BY <1>1, <1>6, QuietPlaces DEF TInv, ReplyPoint
<1>9. Writers' = Writers /\ Dereferencing' = Dereferencing \cup {r}
  BY <1>1, <1>4, <1>5, <1>8, RunCounts DEF DerefPoint
<1>10. CopyBudget'
  <2>1. /\ IsFiniteSet(Dereferencing')
        /\ Cardinality(Dereferencing') <= Cardinality(Dereferencing) + 1
        /\ Cardinality(Dereferencing') \in Nat
    BY <1>2, <1>9, FS_AddElement, FS_CardinalityType
  <2>2. Len(copies') = Len(copies)
    BY <1>1
  <2>3. Len(copies') + Cardinality(Dereferencing') <= MaxCopies
    BY <1>1, <1>2, <2>1, <2>2, BoundsAssumption
  <2> QED
    BY <2>1, <2>3 DEF CopyBudget
<1>11. VersionBudget'
  BY <1>1, <1>9, SameWriters
<1>12. CacheNames'
  BY <1>1 DEF TInv, Places, CacheNames
<1>0. RunStep(r)
  BY DEF RunStep
<1> QED
  BY <1>0, <1>1, <1>5, <1>6, <1>7, <1>8, <1>10, <1>11, <1>12, ReaderTInv DEF TInv, TypeOK

\* The request of run r's dereference.
DerefRequest(r) ==
  [kind |-> "deref", run |-> r, handle |-> run[r].handle,
   have |-> IF run[r].entry = 0 THEN 0 ELSE copies[run[r].entry].entryVersion]

\* What the request of a dereference changes.
LEMMA DerefSendEffect ==
  ASSUME TInv, NEW r \in Run, DerefSend(r)
  PROVE  /\ UNCHANGED <<objs, version, object, tagged, hist, local, copies, cached, toReader,
                        writes>>
         /\ run[r].at = "deref lookup" /\ run' \in [Run -> RunState]
         /\ run'[r] = [run[r] EXCEPT !.at = "deref reply"]
         /\ \A s \in Run : s # r => run'[s] = run[s]
         /\ Aside(r)
         /\ \E m \in Request : /\ m = DerefRequest(r) /\ RequestPlaced(m)'
                               /\ toOwner' = Append(toOwner, m)
<1> DEFINE x == [run[r] EXCEPT !.at = "deref reply"]
<1>1. /\ run[r].at = "deref lookup" /\ run' = [run EXCEPT ![r] = x]
      /\ toOwner' = Append(toOwner, DerefRequest(r))
      /\ UNCHANGED <<objs, version, object, tagged, hist, local, copies, cached, toReader, writes>>
  BY DEF DerefSend, DerefRequest, owner, reader
<1>2. x \in RunState /\ x.at = "deref reply" /\ x.handle = run[r].handle
  BY RunFields DEF TInv, RunState
<1>3. /\ run' \in [Run -> RunState] /\ run'[r] = x
      /\ \A s \in Run : s # r => run'[s] = run[s]
  BY <1>1, <1>2, RunUpdated DEF TInv
<1>4. Aside(r)
  BY <1>1, <1>3, AsideUnchanged DEF TInv
<1>5. DerefRequest(r) \in Request
  <2>1. run[r].entry \in Nat /\ run[r].entry <= Len(copies) /\ Len(copies) \in Nat
        /\ run[r].handle \in Handle
    BY RunFields, CopyFields DEF TInv, Places, RunsPlaced, RunPlaced
  <2>2. run[r].entry # 0 => copies[run[r].entry].entryVersion \in Version
    BY <2>1, CopyFields DEF TInv
  <2>3. 0 \in Version
    BY BoundsAssumption DEF Version
  <2> QED
    BY <2>1, <2>2, <2>3 DEF DerefRequest, Request
<1>6. PICK m \in Request : /\ m = DerefRequest(r) /\ m.kind = "deref" /\ m.run = r
                           /\ m.handle = run[r].handle
  BY <1>5 DEF DerefRequest
<1>7. RequestPlaced(m)'
  BY <1>2, <1>3, <1>6 DEF RequestPlaced
<1> QED
  BY <1>1, <1>3, <1>4, <1>6, <1>7

\* The request of a dereference keeps the strengthened type invariant.
LEMMA DerefSendTInv ==
  ASSUME TInv, NEW r \in Run, DerefSend(r)
  PROVE  TInv'
<1> DEFINE x == [run[r] EXCEPT !.at = "deref reply"]
<1>1. /\ UNCHANGED <<objs, version, object, tagged, hist, local, copies, cached, toReader, writes>>
      /\ run[r].at = "deref lookup" /\ run' \in [Run -> RunState] /\ run'[r] = x
      /\ \A s \in Run : s # r => run'[s] = run[s]
      /\ Aside(r)
  BY DerefSendEffect
<1>2. PICK m \in Request : /\ m = DerefRequest(r) /\ RequestPlaced(m)'
                           /\ toOwner' = Append(toOwner, m)
  BY DerefSendEffect
<1>3. m.run = r /\ m.kind = "deref"
  BY <1>2 DEF DerefRequest
<1>4. /\ x.at = "deref reply" /\ x.handle = run[r].handle /\ x.copy = run[r].copy
      /\ x.entry = run[r].entry
  BY RunFields DEF TInv, RunState
<1> HIDE DEF x
<1>5. /\ FlightPlaced' /\ OneOutstanding' /\ Proposing' = Proposing
      /\ toOwner' \in Seq(Request)
  BY <1>1, <1>2, <1>3, SentPlaces DEF TInv, ReplyPoint, Proposal
<1>6. RunPlaced(r)'
  <2>1. /\ run[r].copy <= Len(copies) /\ run[r].entry <= Len(copies)
        /\ run[r].entry # 0 => copies[run[r].entry].handle = run[r].handle
    BY <1>1 DEF TInv, Places, RunsPlaced, RunPlaced, DerefPoint
  <2> QED
    BY <1>1, <1>4, <2>1 DEF RunPlaced, WritePoint
<1>7. Writers' = Writers /\ Dereferencing' = Dereferencing
  <2>1. r \in Dereferencing /\ run[r].at # "write lookup"
    BY <1>1 DEF Dereferencing
  <2> QED
    BY <1>1, <1>4, <1>5, <2>1, RunCounts DEF DerefPoint
<1>8. CopyBudget' /\ VersionBudget' /\ CacheNames'
  <2>1. CopyBudget'
    BY <1>1, <1>7 DEF TInv, CopyBudget
  <2>2. VersionBudget'
    BY <1>1, <1>7, SameWriters
  <2>3. CacheNames'
    BY <1>1 DEF TInv, Places, CacheNames
  <2> QED
    BY <2>1, <2>2, <2>3
<1>0. RunStep(r)
  BY DEF RunStep
<1> QED
  BY <1>0, <1>1, <1>5, <1>6, <1>8, ReaderTInv DEF TInv, TypeOK

\* The budget of copies, when a dereference is over.
LEMMA DerefDone ==
  ASSUME TInv, NEW r \in Run, run[r].at \in DerefPoint, run'[r].at = "nothing",
         \A s \in Run : s # r => run'[s] = run[s],
         Len(copies') \in {Len(copies), Len(copies) + 1}
  PROVE  CopyBudget'
<1>1. r \in Dereferencing /\ Dereferencing' = Dereferencing \ {r}
  BY RunCounts DEF Dereferencing, DerefPoint
<1>2. /\ IsFiniteSet(Dereferencing') /\ Cardinality(Dereferencing) \in Nat
      /\ Cardinality(Dereferencing') = Cardinality(Dereferencing) - 1
  BY <1>1, FS_RemoveElement, FS_CardinalityType DEF TInv, CopyBudget
<1>3. Len(copies) \in Nat /\ Len(copies) + Cardinality(Dereferencing) <= MaxCopies
  BY CopyFields DEF TInv, CopyBudget
<1>4. Len(copies') + Cardinality(Dereferencing') <= MaxCopies
  BY <1>2, <1>3, BoundsAssumption
<1> QED
  BY <1>2, <1>4 DEF CopyBudget

\* A run without a step to finish.
LEMMA IdlePlaced ==
  ASSUME NEW r \in Run, run'[r].at = "nothing",
         run'[r].copy <= Len(copies'), run'[r].entry <= Len(copies')
  PROVE  RunPlaced(r)'
BY DEF RunPlaced, DerefPoint, WritePoint

\* The end of a wait that touches no copy: the run goes on with copy c, and the cache has at
\* most one entry less.
LEMMA WaitOverTInv ==
  ASSUME TInv, NEW r \in Run, RunStep(r), NEW c \in Nat, c <= Len(copies), run[r].at \in ReplyPoint,
         run' = [run EXCEPT ![r] = [@ EXCEPT !.at = "nothing", !.copy = c]],
         toReader # <<>>, Head(toReader).run = r, toReader' = Tail(toReader),
         \A g \in Handle : cached'[g] \in {0, cached[g]}, cached' \in [Handle -> 0..Len(copies)],
         UNCHANGED <<objs, version, object, tagged, hist, local, copies, toOwner, writes>>
  PROVE  TInv'
<1> DEFINE x == [run[r] EXCEPT !.at = "nothing", !.copy = c]
<1>1. Len(copies) \in Nat /\ Len(copies) <= MaxCopies
  <2>1. Len(copies) \in Nat /\ Cardinality(Dereferencing) \in Nat
        /\ Len(copies) + Cardinality(Dereferencing) <= MaxCopies
    BY CopyFields, FS_CardinalityType DEF TInv, CopyBudget
  <2> QED
    BY <2>1, BoundsAssumption
<1>2. c \in CopyId
  BY <1>1, BoundsAssumption DEF CopyId
<1>3. x \in RunState /\ x.at = "nothing" /\ x.copy = c /\ x.entry = run[r].entry
  BY <1>2, RunFields DEF TInv, RunState
<1> HIDE DEF x
<1>4. /\ run' \in [Run -> RunState] /\ run'[r] = x
      /\ \A s \in Run : s # r => run'[s] = run[s]
  BY <1>3, RunUpdated DEF TInv, x
<1>5. Aside(r)
  BY <1>4, AsideUnchanged DEF TInv
<1>6. /\ FlightPlaced' /\ OneOutstanding' /\ Proposing' = Proposing
      /\ toReader' \in Seq(Reply)
  BY <1>5, ReceivedPlaces DEF TInv
<1>7. RunPlaced(r)'
  <2>1. run[r].entry <= Len(copies)
    BY DEF TInv, Places, RunsPlaced, RunPlaced
  <2>2. /\ run'[r].at = "nothing" /\ run'[r].copy <= Len(copies')
        /\ run'[r].entry <= Len(copies')
    BY <1>3, <1>4, <2>1
  <2> QED
    BY <2>2, IdlePlaced
<1>8. Writers' = Writers
  BY <1>3, <1>4, <1>6, RunCounts DEF ReplyPoint
<1>9. VersionBudget'
  BY <1>8, SameWriters
<1>10. CopyBudget'
  <2>1. CASE run[r].at \in DerefPoint
    BY <1>3, <1>4, <2>1, DerefDone
  <2>2. CASE run[r].at \notin DerefPoint
    <3>1. r \notin Dereferencing
      BY <2>2 DEF Dereferencing, DerefPoint
    <3>2. Dereferencing' = Dereferencing
      <4>1. Dereferencing' = Dereferencing \ {r}
        BY <1>3, <1>4, RunCounts DEF DerefPoint
      <4> QED
        BY <3>1, <4>1
    <3> QED
      BY <3>2 DEF TInv, CopyBudget
  <2> QED
    BY <2>1, <2>2
<1>11. CacheNames'
  BY DEF TInv, Places, CacheNames
<1> QED
  BY <1>4, <1>5, <1>6, <1>7, <1>9, <1>10, <1>11, ReaderTInv DEF TInv, TypeOK

\* A run that keeps its copy.
LEMMA SameRecord ==
  ASSUME TypeOK, NEW r \in Run, run' = [run EXCEPT ![r].at = "nothing"]
  PROVE  run' = [run EXCEPT ![r] = [@ EXCEPT !.at = "nothing", !.copy = run[r].copy]]
<1>1. [run[r] EXCEPT !.at = "nothing"] = [run[r] EXCEPT !.at = "nothing", !.copy = run[r].copy]
  BY RunFields DEF RunState
<1> QED
  BY <1>1

\* What every step that takes a reply has in common.
LEMMA ReplyToEffect ==
  ASSUME NEW r \in Run, NEW kinds, NEW points, ReplyTo(r, kinds, points)
  PROVE  /\ toReader # <<>> /\ Head(toReader).run = r /\ Head(toReader).kind \in kinds
         /\ run[r].at \in points /\ toReader' = Tail(toReader)
         /\ UNCHANGED <<objs, version, object, tagged, hist, local, toOwner, writes>>
BY DEF ReplyTo, owner

\* The answer that the cached entry is current keeps the strengthened type invariant.
LEMMA DerefSameTInv ==
  ASSUME TInv, NEW r \in Run, DerefSame(r)
  PROVE  TInv'
<1>1. /\ ReplyTo(r, {"same"}, {"deref reply"}) /\ UNCHANGED <<copies, cached>>
      /\ run' = [run EXCEPT ![r] = [@ EXCEPT !.at = "nothing", !.copy = run[r].entry]]
  BY DEF DerefSame, reader
<1>2. run[r].entry \in Nat /\ run[r].entry <= Len(copies)
  BY RunFields DEF TInv, Places, RunsPlaced, RunPlaced
<1>3. cached' \in [Handle -> 0..Len(copies)] /\ \A g \in Handle : cached'[g] \in {0, cached[g]}
  BY <1>1 DEF TInv, TypeOK
<1>4. /\ toReader # <<>> /\ Head(toReader).run = r /\ toReader' = Tail(toReader)
      /\ run[r].at \in ReplyPoint
      /\ UNCHANGED <<objs, version, object, tagged, hist, local, copies, toOwner, writes>>
  BY <1>1, ReplyToEffect DEF ReplyPoint
<1>0. RunStep(r)
  BY DEF RunStep
<1> QED
  BY <1>0, <1>1, <1>2, <1>3, <1>4, WaitOverTInv

\* The answer that the handle was released keeps the strengthened type invariant.
LEMMA DerefErrorTInv ==
  ASSUME TInv, NEW r \in Run, DerefError(r)
  PROVE  TInv'
<1>1. /\ ReplyTo(r, {"error"}, {"deref reply"}) /\ UNCHANGED <<copies, cached>>
      /\ run' = [run EXCEPT ![r].at = "nothing"]
  BY DEF DerefError, reader
<1>2. run[r].copy \in Nat /\ run[r].copy <= Len(copies)
  BY RunFields DEF TInv, Places, RunsPlaced, RunPlaced
<1>3. cached' \in [Handle -> 0..Len(copies)] /\ \A g \in Handle : cached'[g] \in {0, cached[g]}
  BY <1>1 DEF TInv, TypeOK
<1>4. run' = [run EXCEPT ![r] = [@ EXCEPT !.at = "nothing", !.copy = run[r].copy]]
  BY <1>1, SameRecord DEF TInv
<1>5. /\ toReader # <<>> /\ Head(toReader).run = r /\ toReader' = Tail(toReader)
      /\ run[r].at \in ReplyPoint
      /\ UNCHANGED <<objs, version, object, tagged, hist, local, copies, toOwner, writes>>
  BY <1>1, ReplyToEffect DEF ReplyPoint
<1>0. RunStep(r)
  BY DEF RunStep
<1> QED
  BY <1>0, <1>1, <1>2, <1>3, <1>4, <1>5, WaitOverTInv

\* The rejection of a write-back keeps the strengthened type invariant.
LEMMA WriteRejectedTInv ==
  ASSUME TInv, NEW r \in Run, WriteRejected(r)
  PROVE  TInv'
<1>1. /\ ReplyTo(r, {"conflict", "error"}, {"apply reply", "replace reply"}) /\ UNCHANGED copies
      /\ run' = [run EXCEPT ![r].at = "nothing"]
      /\ \/ cached' = [cached EXCEPT ![copies[run[r].copy].handle] = 0]
         \/ cached' = cached
  BY DEF WriteRejected, EntryDropped
<1>2. run[r].copy \in Nat /\ run[r].copy <= Len(copies)
  BY RunFields DEF TInv, Places, RunsPlaced, RunPlaced
<1>3. cached' \in [Handle -> 0..Len(copies)] /\ \A g \in Handle : cached'[g] \in {0, cached[g]}
  <2>1. cached \in [Handle -> 0..Len(copies)] /\ 0 \in 0..Len(copies)
    BY CopyFields DEF TInv, TypeOK
  <2> QED
    BY <1>1, <2>1
<1>4. run' = [run EXCEPT ![r] = [@ EXCEPT !.at = "nothing", !.copy = run[r].copy]]
  BY <1>1, SameRecord DEF TInv
<1>5. /\ toReader # <<>> /\ Head(toReader).run = r /\ toReader' = Tail(toReader)
      /\ run[r].at \in ReplyPoint
      /\ UNCHANGED <<objs, version, object, tagged, hist, local, copies, toOwner, writes>>
  BY <1>1, ReplyToEffect DEF ReplyPoint
<1>0. RunStep(r)
  BY DEF RunStep
<1> QED
  BY <1>0, <1>1, <1>2, <1>3, <1>4, <1>5, WaitOverTInv

\* The copies after one of them changes.
LEMMA CopySet ==
  ASSUME TypeOK, NEW c \in 1..Len(copies), NEW x \in Copy, copies' = [copies EXCEPT ![c] = x]
  PROVE  /\ copies' \in Seq(Copy) /\ Len(copies') = Len(copies) /\ copies'[c] = x
         /\ \A d \in 1..Len(copies) : d # c => copies'[d] = copies[d]
<1>1. copies \in Seq(Copy) /\ DOMAIN copies = 1..Len(copies)
  BY CopyFields DEF TypeOK
<1> QED
  BY <1>1, SetElement

\* A step that changes a copy, not what it is a copy of, and writes in it at most.
LEMMA CopyChangedAside ==
  ASSUME TypeOK, NEW r \in Run, \A s \in Run : s # r => run'[s] = run[s],
         NEW c \in 1..Len(copies), NEW x \in Copy, copies' = [copies EXCEPT ![c] = x],
         x.handle = copies[c].handle, copies[c].seen \subseteq x.seen, UNCHANGED cached
  PROVE  Aside(r) /\ Len(copies') = Len(copies)
<1>1. /\ copies' \in Seq(Copy) /\ Len(copies') = Len(copies) /\ copies'[c] = x
      /\ \A d \in 1..Len(copies) : d # c => copies'[d] = copies[d]
  BY CopySet
<1>2. Len(copies) \in Nat
  BY CopyFields
<1>3. \A d \in 1..Len(copies) : /\ copies'[d].handle = copies[d].handle
                                /\ copies[d].seen \subseteq copies'[d].seen
  BY <1>1
<1> QED
  BY <1>1, <1>2, <1>3 DEF Aside

\* The cache names copies of the handle, as long as copies keep theirs.
LEMMA CacheNamesKept ==
  ASSUME TypeOK, CacheNames, UNCHANGED cached,
         \A c \in 1..Len(copies) : copies'[c].handle = copies[c].handle
  PROVE  CacheNames'
<1> SUFFICES ASSUME NEW h \in Handle, cached[h] # 0 PROVE copies'[cached[h]].handle = h
  BY DEF CacheNames
<1>1. cached[h] \in 1..Len(copies)
  BY CachedFields
<1> QED
  BY <1>1 DEF CacheNames

\* The copy run r holds.
Held(r) == copies[run[r].copy]

\* The fields of the copy a run holds.
LEMMA HeldFields ==
  ASSUME TInv, NEW r \in Run, run[r].copy # 0
  PROVE  /\ run[r].copy \in 1..Len(copies) /\ Held(r) \in Copy /\ Held(r).handle \in Handle
         /\ Held(r).version \in Version /\ Held(r).entryVersion \in Version
         /\ Held(r).content \in Content /\ Held(r).baseline \in Content
         /\ Held(r).seen \in SUBSET Write
<1>1. run[r].copy \in Nat /\ run[r].copy <= Len(copies) /\ Len(copies) \in Nat
  BY RunFields, CopyFields DEF TInv, Places, RunsPlaced, RunPlaced
<1>2. run[r].copy \in 1..Len(copies)
  BY <1>1
<1> QED
  BY <1>2, CopyFields DEF TInv, Held

\* Copy c with write w in slot k.
Written(c, k, w) == [c EXCEPT !.content = [@ EXCEPT ![k] = w], !.seen = @ \cup {w}]

\* What a write into a copy changes.
LEMMA WriteLookupEffect ==
  ASSUME TInv, NEW r \in Run, NEW k \in Slot, WriteLookup(r, k)
  PROVE  /\ UNCHANGED <<objs, version, object, tagged, hist, local, cached, toOwner, toReader>>
         /\ run[r].at = "nothing" /\ run[r].copy # 0
         /\ writes \in Nat /\ writes' = writes + 1 /\ writes' \in Write
         /\ Written(Held(r), k, writes') \in Copy
         /\ copies' = [copies EXCEPT ![run[r].copy] = Written(Held(r), k, writes')]
         /\ run' \in [Run -> RunState]
         /\ run'[r] = [run[r] EXCEPT !.at = "write lookup", !.entry = cached[Held(r).handle]]
         /\ \A s \in Run : s # r => run'[s] = run[s]
         /\ Aside(r)
<1> DEFINE x == [run[r] EXCEPT !.at = "write lookup", !.entry = cached[Held(r).handle]]
           c == Written(Held(r), k, writes')
<1>1. /\ run[r].at = "nothing" /\ run[r].copy # 0 /\ writes < MaxWrites /\ writes' = writes + 1
      /\ run' = [run EXCEPT ![r] = x]
      /\ UNCHANGED <<objs, version, object, tagged, hist, local, cached, toOwner, toReader>>
  BY DEF WriteLookup, owner, Held
<1>2. writes \in Nat /\ writes' \in Write
  BY <1>1, BoundsAssumption DEF TInv, TypeOK, Write
<1>3. /\ run[r].copy \in 1..Len(copies) /\ Held(r) \in Copy /\ Held(r).handle \in Handle
      /\ Held(r).content \in Content /\ Held(r).seen \in SUBSET Write
  BY <1>1, HeldFields
<1>4. c \in Copy /\ c.handle = Held(r).handle /\ Held(r).seen \subseteq c.seen
  <2>1. [Held(r).content EXCEPT ![k] = writes'] \in Content
    BY <1>2, <1>3 DEF Content
  <2>2. Held(r).seen \cup {writes'} \in SUBSET Write
    BY <1>2, <1>3
  <2> QED
    BY <1>3, <2>1, <2>2 DEF Written, Copy
<1>5. copies' = [copies EXCEPT ![run[r].copy] = c]
  BY <1>1, <1>3 DEF WriteLookup, Written, Held
<1>6. cached[Held(r).handle] \in CopyId
  <2>1. Len(copies) \in Nat /\ Cardinality(Dereferencing) \in Nat
        /\ Len(copies) + Cardinality(Dereferencing) <= MaxCopies
    BY CopyFields, FS_CardinalityType DEF TInv, CopyBudget
  <2>2. cached[Held(r).handle] \in Nat /\ cached[Held(r).handle] <= Len(copies)
    BY <1>3, CachedFields DEF TInv
  <2> QED
    BY <2>1, <2>2, BoundsAssumption DEF CopyId
<1>7. x \in RunState
  BY <1>6, RunFields DEF TInv, RunState
<1>8. /\ run' \in [Run -> RunState] /\ run'[r] = x
      /\ \A s \in Run : s # r => run'[s] = run[s]
  BY <1>1, <1>7, RunUpdated DEF TInv
<1>9. Aside(r)
  BY <1>1, <1>3, <1>4, <1>5, <1>8, CopyChangedAside DEF TInv, Held
<1> QED
  BY <1>1, <1>2, <1>4, <1>5, <1>8, <1>9

\* The write into a copy, and the lookup of its entry, keeps the strengthened type invariant.
LEMMA WriteLookupTInv ==
  ASSUME TInv, NEW r \in Run, NEW k \in Slot, WriteLookup(r, k)
  PROVE  TInv'
<1> DEFINE x == [run[r] EXCEPT !.at = "write lookup", !.entry = cached[Held(r).handle]]
           c == Written(Held(r), k, writes')
<1>1. /\ UNCHANGED <<objs, version, object, tagged, hist, local, cached, toOwner, toReader>>
      /\ run[r].at = "nothing" /\ run[r].copy # 0
      /\ writes \in Nat /\ writes' = writes + 1 /\ writes' \in Write
      /\ c \in Copy /\ copies' = [copies EXCEPT ![run[r].copy] = c]
      /\ run' \in [Run -> RunState] /\ run'[r] = x
      /\ \A s \in Run : s # r => run'[s] = run[s]
      /\ Aside(r)
  BY WriteLookupEffect
<1>2. run[r].copy \in 1..Len(copies) /\ Held(r) \in Copy /\ Held(r).handle \in Handle
  BY <1>1, HeldFields
<1>3. /\ x.at = "write lookup" /\ x.copy = run[r].copy /\ x.entry = cached[Held(r).handle]
  BY RunFields DEF TInv, RunState
<1> HIDE DEF x, c
<1>4. /\ FlightPlaced' /\ OneOutstanding' /\ Proposing' = Proposing
  BY <1>1, QuietPlaces DEF TInv, ReplyPoint
<1>5. Len(copies') = Len(copies) /\ copies'[run[r].copy].handle = Held(r).handle
  <2>1. Len(copies') = Len(copies)
    BY <1>1, <1>2, CopySet DEF TInv
  <2> QED
    BY <1>1, <1>2, <2>1 DEF Aside, Held
<1>6. RunPlaced(r)'
  <2>1. cached[Held(r).handle] <= Len(copies) /\ run[r].copy <= Len(copies) /\ run[r].copy # 0
    BY <1>2, CachedFields DEF TInv
  <2> QED
    BY <1>1, <1>3, <1>5, <2>1 DEF RunPlaced, DerefPoint
<1>7. Writers' = Writers \cup {r} /\ Dereferencing' = Dereferencing
  <2>1. r \notin Dereferencing
    BY <1>1 DEF Dereferencing
  <2>2. Dereferencing' = Dereferencing \ {r} /\ Writers' = Writers \cup {r}
    BY <1>1, <1>3, <1>4, RunCounts DEF DerefPoint
  <2> QED
    BY <2>1, <2>2
<1>8. CopyBudget'
  BY <1>5, <1>7 DEF TInv, CopyBudget
<1>9. VersionBudget'
  <2>1. /\ IsFiniteSet(Writers') /\ Cardinality(Writers') \in Nat
        /\ Cardinality(Writers) \in Nat
        /\ Cardinality(Writers') <= Cardinality(Writers) + 1
    <3>1. IsFiniteSet(Writers)
      BY DEF TInv, VersionBudget
    <3>2. /\ IsFiniteSet(Writers \cup {r}) /\ Cardinality(Writers) \in Nat
          /\ Cardinality(Writers \cup {r}) =
               IF r \in Writers THEN Cardinality(Writers) ELSE Cardinality(Writers) + 1
      BY <3>1, FS_AddElement, FS_CardinalityType
    <3> QED
      BY <1>7, <3>2
  <2>2. \A h \in Handle : version[h] \in Nat /\ version[h] + Cardinality(Writers) <= writes + 1
    BY BoundsAssumption DEF TInv, TypeOK, Version, VersionBudget
  <2>3. \A h \in Handle : version[h] + Cardinality(Writers') <= writes' + 1
    BY <1>1, <2>1, <2>2
  <2> QED
    BY <1>1, <2>1, <2>3 DEF VersionBudget
<1>10. CacheNames'
  BY <1>1, CacheNamesKept DEF TInv, Places, Aside
<1>11. cached' \in [Handle -> 0..Len(copies')] /\ toOwner' \in Seq(Request)
       /\ toReader' \in Seq(Reply)
  BY <1>1, <1>5 DEF TInv, TypeOK
<1>0. RunStep(r)
  BY DEF RunStep
<1> QED
  BY <1>0, <1>1, <1>4, <1>6, <1>8, <1>9, <1>10, <1>11, ReaderTInv

\* The eviction of an entry keeps the strengthened type invariant.
LEMMA EvictTInv ==
  ASSUME TInv, NEW h \in Handle, Evict(h)
  PROVE  TInv'
<1>1. /\ cached' = [cached EXCEPT ![h] = 0]
      /\ UNCHANGED <<objs, version, object, tagged, hist, local, copies, rejected, run, toOwner,
                     toReader, writes>>
  BY DEF Evict, owner
<1>2. cached' \in [Handle -> 0..Len(copies)] /\ \A g \in Handle : cached'[g] \in {0, cached[g]}
  <2>1. cached \in [Handle -> 0..Len(copies)] /\ 0 \in 0..Len(copies)
    BY CopyFields DEF TInv, TypeOK
  <2> QED
    BY <1>1, <2>1
<1>4. /\ FlightPlaced' /\ OneOutstanding' /\ Proposing' = Proposing
  <2>1. FlightPlaced'
    BY <1>1 DEF TInv, Places, FlightPlaced, RequestPlaced, ReplyPlaced
  <2>2. OneOutstanding' /\ Proposing' = Proposing
    BY <1>1 DEF TInv, Places, OneOutstanding, Proposing
  <2> QED
    BY <2>1, <2>2
<1>5. RunsPlaced'
  <2> SUFFICES ASSUME NEW s \in Run PROVE RunPlaced(s)'
    BY DEF RunsPlaced
  <2>1. RunPlaced(s) /\ run[s].copy \in Nat
    BY RunFields DEF TInv, Places, RunsPlaced
  <2>2. run[s].copy # 0 => copies[run[s].copy].handle \in Handle
    BY HeldFields DEF Held
  <2> QED
    BY <1>1, <1>2, <2>1, <2>2 DEF RunPlaced
<1>6. Writers' = Writers /\ Dereferencing' = Dereferencing
  BY <1>1, <1>4 DEF Writers, Dereferencing
<1>7. CopyBudget' /\ VersionBudget' /\ CacheNames' /\ OwnerHolds'
  <2>1. CopyBudget'
    BY <1>1, <1>6 DEF TInv, CopyBudget
  <2>2. VersionBudget'
    BY <1>1, <1>6, SameWriters
  <2>3. CacheNames'
    BY <1>1, <1>2 DEF TInv, Places, CacheNames
  <2>4. OwnerHolds'
    BY <1>1 DEF TInv, OwnerHolds
  <2> QED
    BY <2>1, <2>2, <2>3, <2>4
<1>8. TypeOK'
  BY <1>1, <1>2 DEF TInv, TypeOK
<1> QED
  BY <1>4, <1>5, <1>7, <1>8 DEF TInv, Places

\* Copy c as fetched by run r in reply p.
Fetched(r, p) ==
  [handle |-> run[r].handle, version |-> p.version, entryVersion |-> p.version,
   content |-> p.content, baseline |-> p.content, seen |-> Values(p.content)]

\* What a fetched copy changes.
LEMMA DerefFetchedEffect ==
  ASSUME TInv, NEW r \in Run, DerefFetched(r)
  PROVE  LET p == Head(toReader)
             n == Len(copies) + 1
         IN  /\ UNCHANGED <<objs, version, object, tagged, hist, local, toOwner, writes>>
             /\ toReader # <<>> /\ toReader' = Tail(toReader)
             /\ p \in Reply /\ p.run = r /\ p.kind = "fetched" /\ run[r].at = "deref reply"
             /\ Fetched(r, p) \in Copy
             /\ copies' \in Seq(Copy) /\ Len(copies') = n /\ copies'[n] = Fetched(r, p)
             /\ \A d \in 1..Len(copies) : copies'[d] = copies[d]
             /\ n \in CopyId
             /\ run' \in [Run -> RunState]
             /\ run'[r] = [run[r] EXCEPT !.at = "nothing", !.copy = n]
             /\ \A s \in Run : s # r => run'[s] = run[s]
             /\ cached' \in [Handle -> 0..n]
             /\ cached'[run[r].handle] \in {0, n}
             /\ \A g \in Handle : g # run[r].handle => cached'[g] = cached[g]
             /\ Aside(r)
<1> DEFINE p == Head(toReader)
           h == run[r].handle
           n == Len(copies) + 1
           x == [run[r] EXCEPT !.at = "nothing", !.copy = n]
<1>1. /\ toReader # <<>> /\ toReader' = Tail(toReader) /\ p.run = r /\ p.kind = "fetched"
      /\ run[r].at = "deref reply"
      /\ UNCHANGED <<objs, version, object, tagged, hist, local, toOwner, writes>>
  <2>1. ReplyTo(r, {"fetched"}, {"deref reply"})
    BY DEF DerefFetched
  <2> QED
    BY <2>1 DEF ReplyTo, owner
<1>2. p \in Reply /\ p.version \in Version /\ p.content \in Content
  BY <1>1, TailQueue, ReplyFields DEF TInv, TypeOK
<1>3. Fetched(r, p) \in Copy
  <2>1. Values(p.content) \in SUBSET Write
    BY <1>2 DEF Values, Content
  <2> QED
    BY <1>2, <2>1, RunFields DEF TInv, Fetched, Copy
<1>4. /\ copies' \in Seq(Copy) /\ Len(copies') = n /\ copies'[n] = Fetched(r, p)
      /\ \A d \in 1..Len(copies) : copies'[d] = copies[d]
  <2>1. copies' = Append(copies, Fetched(r, p))
    BY DEF DerefFetched, Fetched
  <2>2. copies \in Seq(Copy) /\ DOMAIN copies = 1..Len(copies)
    BY CopyFields DEF TInv, TypeOK
  <2> QED
    BY <1>3, <2>1, <2>2, AppendQueue
<1>5. n \in CopyId /\ Len(copies) \in Nat
  <2>1. r \in Dereferencing
    BY <1>1 DEF Dereferencing
  <2>2. Cardinality(Dereferencing) \in Nat \ {0}
    BY <2>1, FS_CardinalityType, FS_EmptySet DEF TInv, CopyBudget
  <2>3. Len(copies) \in Nat /\ Len(copies) + Cardinality(Dereferencing) <= MaxCopies
    BY CopyFields DEF TInv, CopyBudget
  <2> QED
    BY <2>2, <2>3, BoundsAssumption DEF CopyId
<1>6. run' = [run EXCEPT ![r] = x]
  BY <1>4 DEF DerefFetched
<1>7. x \in RunState
  BY <1>5, RunFields DEF TInv, RunState
<1>8. /\ run' \in [Run -> RunState] /\ run'[r] = x
      /\ \A s \in Run : s # r => run'[s] = run[s]
  BY <1>6, <1>7, RunUpdated DEF TInv
<1>9. /\ cached' \in [Handle -> 0..n] /\ cached'[h] \in {0, n}
      /\ \A g \in Handle : g # h => cached'[g] = cached[g]
  <2>1. h \in Handle
    BY RunFields DEF TInv
  <2>2. PICK held \in {0, n} : cached' = [cached EXCEPT ![h] = held]
    BY <1>4 DEF DerefFetched
  <2>3. cached \in [Handle -> 0..n] /\ held \in 0..n
    BY <1>5 DEF TInv, TypeOK
  <2> QED
    BY <2>1, <2>2, <2>3
<1>10. Aside(r)
  <2>1. \A g \in Handle : cached'[g] \in {0, cached[g]} \/ cached'[g] > Len(copies)
    BY <1>5, <1>9
  <2> QED
    BY <1>4, <1>5, <1>8, <2>1 DEF Aside
<1> QED
  BY <1>1, <1>2, <1>3, <1>4, <1>5, <1>8, <1>9, <1>10

\* The answer that brings a fetched copy keeps the strengthened type invariant.
LEMMA DerefFetchedTInv ==
  ASSUME TInv, NEW r \in Run, DerefFetched(r)
  PROVE  TInv'
<1> DEFINE p == Head(toReader)
           h == run[r].handle
           n == Len(copies) + 1
           x == [run[r] EXCEPT !.at = "nothing", !.copy = n]
<1>1. /\ UNCHANGED <<objs, version, object, tagged, hist, local, toOwner, writes>>
      /\ toReader # <<>> /\ toReader' = Tail(toReader)
      /\ p.run = r /\ run[r].at = "deref reply"
      /\ copies' \in Seq(Copy) /\ Len(copies') = n /\ copies'[n] = Fetched(r, p)
      /\ \A d \in 1..Len(copies) : copies'[d] = copies[d]
      /\ n \in CopyId
      /\ run' \in [Run -> RunState] /\ run'[r] = x
      /\ \A s \in Run : s # r => run'[s] = run[s]
      /\ cached' \in [Handle -> 0..n] /\ cached'[h] \in {0, n}
      /\ \A g \in Handle : g # h => cached'[g] = cached[g]
      /\ Aside(r)
  BY DerefFetchedEffect
<1>2. x.at = "nothing" /\ x.copy = n /\ x.entry = run[r].entry /\ run[r].entry \in Nat
      /\ h \in Handle
  BY RunFields DEF TInv, RunState
<1>3. n \in Nat /\ Len(copies) \in Nat /\ run[r].entry <= Len(copies) /\ Len(copies) < n
  <2>1. Len(copies) \in Nat
    BY CopyFields DEF TInv
  <2>2. run[r].entry <= Len(copies)
    BY DEF TInv, Places, RunsPlaced, RunPlaced
  <2> QED
    BY <2>1, <2>2
<1>4. /\ FlightPlaced' /\ OneOutstanding' /\ Proposing' = Proposing
      /\ toReader' \in Seq(Reply)
  BY <1>1, ReceivedPlaces DEF TInv
<1> HIDE DEF x, n, h, p
<1>5. RunPlaced(r)'
  <2>1. /\ run'[r].at = "nothing" /\ run'[r].copy <= Len(copies')
        /\ run'[r].entry <= Len(copies')
    <3>1. Len(copies') = n /\ run'[r] = x
      BY <1>1
    <3> QED
      BY <1>2, <1>3, <3>1
  <2> QED
    BY <2>1, IdlePlaced
<1>6. CacheNames'
  <2> SUFFICES ASSUME NEW g \in Handle, cached'[g] # 0 PROVE copies'[cached'[g]].handle = g
    BY DEF CacheNames
  <2>1. CASE g = h
    <3>1. cached'[g] = n /\ copies'[n] = Fetched(r, p)
      BY <1>1, <2>1
    <3>2. Fetched(r, p).handle = h
      BY DEF Fetched, h
    <3> QED
      BY <2>1, <3>1, <3>2
  <2>2. CASE g # h
    <3>1. cached'[g] = cached[g]
      BY <1>1, <2>2
    <3>2. cached[g] \in 1..Len(copies)
      BY <3>1, CachedFields DEF TInv
    <3>3. copies'[cached[g]] = copies[cached[g]]
      BY <1>1, <3>2
    <3> QED
      BY <3>1, <3>3 DEF TInv, Places, CacheNames
  <2> QED
    BY <2>1, <2>2
<1>7. Writers' = Writers
  BY <1>1, <1>2, <1>4, RunCounts
<1>8. VersionBudget'
  BY <1>1, <1>7, SameWriters
<1>9. CopyBudget'
  <2>1. /\ run[r].at \in DerefPoint /\ run'[r].at = "nothing"
        /\ \A s \in Run : s # r => run'[s] = run[s]
        /\ Len(copies') = Len(copies) + 1
    BY <1>1, <1>2 DEF DerefPoint, n
  <2> QED
    BY <2>1, DerefDone
<1>0. RunStep(r)
  BY DEF RunStep
<1> QED
  BY <1>0, <1>1, <1>4, <1>5, <1>6, <1>8, <1>9, ReaderTInv DEF TInv, TypeOK

\* The write-back of run r.
Proposed(r, kind, slots) ==
  [kind |-> kind, run |-> r, handle |-> Held(r).handle, version |-> Held(r).version,
   slots |-> slots, content |-> Held(r).content, saw |-> Held(r).seen]

\* A write-back is a request.
LEMMA ProposedTyped ==
  ASSUME TInv, NEW r \in Run, run[r].copy # 0, NEW kind \in Proposal, NEW slots \in SUBSET Slot
  PROVE  Proposed(r, kind, slots) \in Request
BY HeldFields DEF Proposed, Request, Proposal

\* What sending a delta changes.
LEMMA WriteApplyEffect ==
  ASSUME TInv, NEW r \in Run, WriteApply(r)
  PROVE  /\ UNCHANGED <<objs, version, object, tagged, hist, local, cached, toReader, writes>>
         /\ run[r].at = "write lookup" /\ run[r].entry = run[r].copy /\ run[r].copy # 0
         /\ run' \in [Run -> RunState] /\ run'[r] = [run[r] EXCEPT !.at = "apply reply"]
         /\ \A s \in Run : s # r => run'[s] = run[s]
         /\ [Held(r) EXCEPT !.baseline = Held(r).content] \in Copy
         /\ copies' = [copies EXCEPT ![run[r].copy] =
                         [Held(r) EXCEPT !.baseline = Held(r).content]]
         /\ Aside(r) /\ Len(copies') = Len(copies)
         /\ \E slots \in {Changed(run[r].copy), Slot} : \E m \in Request :
              /\ m = Proposed(r, "apply", slots) /\ RequestPlaced(m)'
              /\ toOwner' = Append(toOwner, m)
<1> DEFINE x == [run[r] EXCEPT !.at = "apply reply"]
           c == [Held(r) EXCEPT !.baseline = Held(r).content]
<1>1. /\ run[r].at = "write lookup" /\ run[r].entry = run[r].copy
      /\ run' = [run EXCEPT ![r] = x] /\ copies' = [copies EXCEPT ![run[r].copy] = c]
      /\ UNCHANGED <<objs, version, object, tagged, hist, local, cached, toReader, writes>>
  BY DEF WriteApply, owner, Held
<1>2. run[r].copy # 0
  BY <1>1 DEF TInv, Places, RunsPlaced, RunPlaced, WritePoint
<1>3. run[r].copy \in 1..Len(copies) /\ Held(r) \in Copy /\ Held(r).content \in Content
  BY <1>2, HeldFields
<1>4. c \in Copy /\ c.handle = Held(r).handle /\ c.seen = Held(r).seen
  BY <1>3 DEF Copy
<1>5. x \in RunState /\ x.at = "apply reply" /\ x.copy = run[r].copy
  BY RunFields DEF TInv, RunState
<1> HIDE DEF x, c
<1>6. /\ run' \in [Run -> RunState] /\ run'[r] = x
      /\ \A s \in Run : s # r => run'[s] = run[s]
  BY <1>1, <1>5, RunUpdated DEF TInv
<1>7. Aside(r) /\ Len(copies') = Len(copies)
  BY <1>1, <1>3, <1>4, <1>6, CopyChangedAside DEF TInv, Held
<1>8. PICK slots \in {Changed(run[r].copy), Slot} :
        toOwner' = Append(toOwner, Proposed(r, "apply", slots))
  BY DEF WriteApply, Propose, Proposed, Held
<1>9. slots \in SUBSET Slot
  BY <1>8 DEF Changed
<1>10. PICK m \in Request : /\ m = Proposed(r, "apply", slots)
                            /\ m.kind = "apply" /\ m.run = r /\ m.handle = Held(r).handle
  <2>1. Proposed(r, "apply", slots) \in Request
    BY <1>2, <1>9, ProposedTyped DEF Proposal
  <2> QED
    BY <2>1 DEF Proposed
<1>11. RequestPlaced(m)'
  <2>1. copies'[run[r].copy].handle = Held(r).handle
    BY <1>3, <1>7 DEF Aside, Held
  <2> QED
    BY <1>5, <1>6, <1>10, <2>1 DEF RequestPlaced
<1> QED
  BY <1>1, <1>2, <1>4, <1>6, <1>7, <1>8, <1>10, <1>11 DEF x, c

\* What sending the whole object changes.
LEMMA WriteReplaceEffect ==
  ASSUME TInv, NEW r \in Run, WriteReplace(r)
  PROVE  /\ UNCHANGED <<objs, version, object, tagged, hist, local, copies, cached, toReader,
                        writes>>
         /\ run[r].at = "write lookup" /\ run[r].entry # run[r].copy /\ run[r].copy # 0
         /\ run' \in [Run -> RunState] /\ run'[r] = [run[r] EXCEPT !.at = "replace reply"]
         /\ \A s \in Run : s # r => run'[s] = run[s]
         /\ Aside(r)
         /\ \E m \in Request : /\ m = Proposed(r, "replace", Slot) /\ RequestPlaced(m)'
                               /\ toOwner' = Append(toOwner, m)
<1> DEFINE x == [run[r] EXCEPT !.at = "replace reply"]
<1>1. /\ run[r].at = "write lookup" /\ run[r].entry # run[r].copy
      /\ run' = [run EXCEPT ![r] = x]
      /\ toOwner' = Append(toOwner, Proposed(r, "replace", Slot))
      /\ UNCHANGED <<objs, version, object, tagged, hist, local, copies, cached, toReader, writes>>
  BY DEF WriteReplace, Propose, Proposed, owner, reader, Held
<1>2. run[r].copy # 0
  BY <1>1 DEF TInv, Places, RunsPlaced, RunPlaced, WritePoint
<1>3. x \in RunState /\ x.at = "replace reply" /\ x.copy = run[r].copy
  BY RunFields DEF TInv, RunState
<1> HIDE DEF x
<1>4. /\ run' \in [Run -> RunState] /\ run'[r] = x
      /\ \A s \in Run : s # r => run'[s] = run[s]
  BY <1>1, <1>3, RunUpdated DEF TInv
<1>5. Aside(r)
  BY <1>1, <1>4, AsideUnchanged DEF TInv
<1>6. PICK m \in Request : /\ m = Proposed(r, "replace", Slot)
                           /\ m.kind = "replace" /\ m.run = r /\ m.handle = Held(r).handle
  <2>1. Proposed(r, "replace", Slot) \in Request
    BY <1>2, ProposedTyped DEF Proposal
  <2> QED
    BY <2>1 DEF Proposed
<1>7. RequestPlaced(m)'
  BY <1>1, <1>3, <1>4, <1>6 DEF RequestPlaced, Held
<1> QED
  BY <1>1, <1>2, <1>4, <1>5, <1>6, <1>7 DEF x

\* A write-back is sent.
LEMMA ProposedTInv ==
  ASSUME TInv, NEW r \in Run, RunStep(r), Aside(r), Len(copies') = Len(copies),
         UNCHANGED <<objs, version, object, tagged, hist, local, cached, toReader, writes>>,
         run[r].at = "write lookup", run' \in [Run -> RunState],
         NEW at \in {"apply reply", "replace reply"}, run'[r] = [run[r] EXCEPT !.at = at],
         at = "apply reply" <=> run[r].entry = run[r].copy,
         \A s \in Run : s # r => run'[s] = run[s],
         NEW m \in Request, m.run = r, m.kind \in Proposal, RequestPlaced(m)',
         toOwner' = Append(toOwner, m)
  PROVE  TInv'
<1>1. /\ FlightPlaced' /\ OneOutstanding' /\ toOwner' \in Seq(Request)
      /\ Proposing' = Proposing \cup {r}
  BY SentPlaces DEF TInv, ReplyPoint
<1>2. /\ run'[r].at = at /\ run'[r].copy = run[r].copy /\ run'[r].entry = run[r].entry
      /\ run[r].copy \in Nat
  BY RunFields DEF TInv, RunState
<1>3. RunPlaced(r) /\ run[r].copy # 0
  BY DEF TInv, Places, RunsPlaced, RunPlaced, WritePoint
<1>4. run[r].copy \in 1..Len(copies)
  BY <1>3, HeldFields
<1>5. copies'[run[r].copy].handle = copies[run[r].copy].handle
  BY <1>4 DEF Aside
<1>6. RunPlaced(r)'
  <2>1. at \notin DerefPoint
    BY DEF DerefPoint
  <2>2. "write lookup" \in WritePoint
    BY DEF WritePoint
  <2> QED
    BY <1>2, <1>3, <1>5, <2>1, <2>2 DEF RunPlaced
<1>7. Writers' = Writers /\ Dereferencing' = Dereferencing
  <2>1. r \notin Dereferencing
    BY DEF Dereferencing
  <2>2. Dereferencing' = Dereferencing \ {r} /\ Writers' = Writers
    BY <1>1, <1>2, RunCounts DEF DerefPoint
  <2> QED
    BY <2>1, <2>2
<1>8. VersionBudget'
  BY <1>7, SameWriters
<1>9. CopyBudget'
  BY <1>7 DEF TInv, CopyBudget
<1>10. CacheNames'
  BY CacheNamesKept DEF TInv, Places, Aside
<1>11. cached' \in [Handle -> 0..Len(copies')] /\ toReader' \in Seq(Reply) /\ writes' \in Write
  BY DEF TInv, TypeOK
<1> QED
  BY <1>1, <1>6, <1>8, <1>9, <1>10, <1>11, ReaderTInv

\* The delta sent for a copy whose entry is cached keeps the strengthened type invariant.
LEMMA WriteApplyTInv ==
  ASSUME TInv, NEW r \in Run, WriteApply(r)
  PROVE  TInv'
<1>1. /\ UNCHANGED <<objs, version, object, tagged, hist, local, cached, toReader, writes>>
      /\ run[r].at = "write lookup" /\ run[r].entry = run[r].copy
      /\ run' \in [Run -> RunState] /\ run'[r] = [run[r] EXCEPT !.at = "apply reply"]
      /\ \A s \in Run : s # r => run'[s] = run[s]
      /\ Aside(r) /\ Len(copies') = Len(copies)
      /\ \E slots \in {Changed(run[r].copy), Slot} : \E m \in Request :
           /\ m = Proposed(r, "apply", slots) /\ RequestPlaced(m)'
           /\ toOwner' = Append(toOwner, m)
  BY WriteApplyEffect
<1>2. PICK m \in Request : /\ m.run = r /\ m.kind \in Proposal /\ RequestPlaced(m)'
                           /\ toOwner' = Append(toOwner, m)
  BY <1>1 DEF Proposed, Proposal
<1>0. RunStep(r)
  BY DEF RunStep
<1> QED
  BY <1>0, <1>1, <1>2, ProposedTInv

\* The whole object sent for a copy whose entry is gone keeps the strengthened type invariant.
LEMMA WriteReplaceTInv ==
  ASSUME TInv, NEW r \in Run, WriteReplace(r)
  PROVE  TInv'
<1>1. /\ UNCHANGED <<objs, version, object, tagged, hist, local, copies, cached, toReader, writes>>
      /\ run[r].at = "write lookup" /\ run[r].entry # run[r].copy
      /\ run' \in [Run -> RunState] /\ run'[r] = [run[r] EXCEPT !.at = "replace reply"]
      /\ \A s \in Run : s # r => run'[s] = run[s]
      /\ Aside(r)
      /\ \E m \in Request : /\ m = Proposed(r, "replace", Slot) /\ RequestPlaced(m)'
                            /\ toOwner' = Append(toOwner, m)
  BY WriteReplaceEffect
<1>2. PICK m \in Request : /\ m.run = r /\ m.kind \in Proposal /\ RequestPlaced(m)'
                           /\ toOwner' = Append(toOwner, m)
  BY <1>1 DEF Proposed, Proposal
<1>0. RunStep(r)
  BY DEF RunStep
<1> QED
  BY <1>0, <1>1, <1>2, ProposedTInv

\* A copy after its write-back was accepted.
AppliedCopy(r, v) == [Held(r) EXCEPT !.version = v, !.entryVersion = v]
ReplacedCopy(r, v) == [Held(r) EXCEPT !.version = v]

\* What an acknowledgement changes.
LEMMA WriteOkEffect ==
  ASSUME TInv, NEW r \in Run, WriteApplied(r) \/ WriteReplaced(r)
  PROVE  LET p == Head(toReader)
         IN  /\ UNCHANGED <<objs, version, object, tagged, hist, local, cached, toOwner, writes>>
             /\ toReader # <<>> /\ toReader' = Tail(toReader)
             /\ p \in Reply /\ p.run = r /\ p.kind = "ok" /\ p.version \in Version
             /\ run[r].copy # 0
             /\ run' \in [Run -> RunState]
             /\ run'[r] = [run[r] EXCEPT !.at = "nothing"]
             /\ \A s \in Run : s # r => run'[s] = run[s]
             /\ Aside(r) /\ Len(copies') = Len(copies)
             /\ \E c \in Copy :
                  /\ \/ run[r].at = "apply reply" /\ c = AppliedCopy(r, p.version)
                     \/ run[r].at = "replace reply" /\ c = ReplacedCopy(r, p.version)
                  /\ copies' = [copies EXCEPT ![run[r].copy] = c]
<1> DEFINE p == Head(toReader)
           x == [run[r] EXCEPT !.at = "nothing"]
<1>1. /\ toReader # <<>> /\ toReader' = Tail(toReader) /\ p.run = r /\ p.kind = "ok"
      /\ run[r].at \in {"apply reply", "replace reply"}
      /\ UNCHANGED <<objs, version, object, tagged, hist, local, toOwner, writes, cached>>
      /\ run' = [run EXCEPT ![r] = x]
  BY DEF WriteApplied, WriteReplaced, ReplyTo, owner
<1>2. p \in Reply /\ p.version \in Version
  BY <1>1, TailQueue, ReplyFields DEF TInv, TypeOK
<1>3. run[r].copy # 0
  BY <1>1 DEF TInv, Places, RunsPlaced, RunPlaced, WritePoint
<1>4. run[r].copy \in 1..Len(copies) /\ Held(r) \in Copy
  BY <1>3, HeldFields
<1>5. x \in RunState
  BY RunFields DEF TInv, RunState
<1> HIDE DEF x
<1>6. /\ run' \in [Run -> RunState] /\ run'[r] = x
      /\ \A s \in Run : s # r => run'[s] = run[s]
  BY <1>1, <1>5, RunUpdated DEF TInv
<1>7. PICK c : /\ \/ run[r].at = "apply reply" /\ c = AppliedCopy(r, p.version)
                  \/ run[r].at = "replace reply" /\ c = ReplacedCopy(r, p.version)
               /\ copies' = [copies EXCEPT ![run[r].copy] = c]
  <2>1. CASE WriteApplied(r)
    <3>1. /\ run[r].at = "apply reply"
          /\ copies' = [copies EXCEPT ![run[r].copy] = AppliedCopy(r, p.version)]
      BY <2>1 DEF WriteApplied, ReplyTo, AppliedCopy, Held
    <3> QED
      BY <3>1
  <2>2. CASE WriteReplaced(r)
    <3>1. /\ run[r].at = "replace reply"
          /\ copies' = [copies EXCEPT ![run[r].copy] = ReplacedCopy(r, p.version)]
      BY <2>2 DEF WriteReplaced, ReplyTo, ReplacedCopy, Held
    <3> QED
      BY <3>1
  <2> QED
    BY <2>1, <2>2
<1>8. c \in Copy /\ c.handle = Held(r).handle /\ c.seen = Held(r).seen
  BY <1>2, <1>4, <1>7 DEF AppliedCopy, ReplacedCopy, Copy
<1>9. Aside(r) /\ Len(copies') = Len(copies)
  BY <1>1, <1>4, <1>6, <1>7, <1>8, CopyChangedAside DEF TInv, Held
<1> QED
  BY <1>1, <1>2, <1>3, <1>6, <1>7, <1>8, <1>9 DEF x

\* The acknowledgement of a write-back keeps the strengthened type invariant.
LEMMA WriteOkTInv ==
  ASSUME TInv, NEW r \in Run, WriteApplied(r) \/ WriteReplaced(r)
  PROVE  TInv'
<1> DEFINE x == [run[r] EXCEPT !.at = "nothing"]
<1>1. /\ UNCHANGED <<objs, version, object, tagged, hist, local, cached, toOwner, writes>>
      /\ toReader # <<>> /\ toReader' = Tail(toReader)
      /\ Head(toReader).run = r
      /\ run[r].at \in {"apply reply", "replace reply"}
      /\ run' \in [Run -> RunState] /\ run'[r] = x
      /\ \A s \in Run : s # r => run'[s] = run[s]
      /\ Aside(r) /\ Len(copies') = Len(copies)
  BY WriteOkEffect
<1>2. x.at = "nothing" /\ x.copy = run[r].copy /\ x.entry = run[r].entry
  BY RunFields DEF TInv, RunState
<1> HIDE DEF x
<1>3. /\ FlightPlaced' /\ OneOutstanding' /\ Proposing' = Proposing
      /\ toReader' \in Seq(Reply)
  BY <1>1, ReceivedPlaces DEF TInv
<1>4. RunPlaced(r)'
  <2>1. run[r].copy <= Len(copies) /\ run[r].entry <= Len(copies)
    BY DEF TInv, Places, RunsPlaced, RunPlaced
  <2>2. /\ run'[r].at = "nothing" /\ run'[r].copy <= Len(copies')
        /\ run'[r].entry <= Len(copies')
    BY <1>1, <1>2, <2>1
  <2> QED
    BY <2>2, IdlePlaced
<1>5. Writers' = Writers /\ Dereferencing' = Dereferencing
  <2>1. r \notin Dereferencing
    BY <1>1 DEF Dereferencing
  <2>2. Dereferencing' = Dereferencing \ {r} /\ Writers' = Writers
    BY <1>1, <1>2, <1>3, RunCounts DEF DerefPoint
  <2> QED
    BY <2>1, <2>2
<1>6. VersionBudget'
  BY <1>1, <1>5, SameWriters
<1>7. CopyBudget'
  BY <1>1, <1>5 DEF TInv, CopyBudget
<1>8. CacheNames'
  BY <1>1, CacheNamesKept DEF TInv, Places, Aside
<1>9. cached' \in [Handle -> 0..Len(copies')] /\ toOwner' \in Seq(Request) /\ writes' \in Write
  BY <1>1 DEF TInv, TypeOK
<1>0. RunStep(r)
  BY DEF RunStep
<1> QED
  BY <1>0, <1>1, <1>3, <1>4, <1>6, <1>7, <1>8, <1>9, ReaderTInv

\* Every step, and stuttering, keeps the strengthened type invariant.
LEMMA NextTInv == TInv /\ [Next]_vars => TInv'
<1> SUFFICES ASSUME TInv, [Next]_vars PROVE TInv'
  OBVIOUS
<1>1. CASE UNCHANGED vars
  <2>4. TypeOK' /\ OwnerHolds' /\ CacheNames'
    BY <1>1 DEF vars, TInv, Places, TypeOK, OwnerHolds, CacheNames
  <2>5. RunsPlaced'
    BY <1>1 DEF vars, TInv, Places, RunsPlaced, RunPlaced
  <2>6. FlightPlaced' /\ OneOutstanding'
    <3>1. FlightPlaced'
      BY <1>1 DEF vars, TInv, Places, FlightPlaced, RequestPlaced, ReplyPlaced
    <3>2. OneOutstanding'
      BY <1>1 DEF vars, TInv, Places, OneOutstanding
    <3> QED
      BY <3>1, <3>2
  <2>1. TypeOK' /\ OwnerHolds' /\ CacheNames' /\ RunsPlaced' /\ FlightPlaced' /\ OneOutstanding'
    BY <2>4, <2>5, <2>6
  <2>2. Writers' = Writers /\ Dereferencing' = Dereferencing
    BY <1>1 DEF vars, Writers, Proposing, Dereferencing
  <2>3. VersionBudget' /\ CopyBudget'
    BY <1>1, <2>2 DEF vars, TInv, VersionBudget, CopyBudget
  <2> QED
    BY <2>1, <2>3 DEF TInv, Places
<1>2. ASSUME NEW h \in Handle, OwnerDeref(h) \/ Release(h) \/ Evict(h) PROVE TInv'
  BY <1>2, OwnerDerefTInv, ReleaseTInv, EvictTInv
<1>3. ASSUME NEW k \in Slot, OwnerWrite(k) PROVE TInv'
  BY <1>3, OwnerWriteTInv
<1>4. CASE ServeDeref \/ ServeRejected \/ ServeAccepted
  BY <1>4, ServeDerefTInv, ServeRejectedTInv, ServeAcceptedTInv
<1>5. ASSUME NEW r \in Run, RunStep(r) PROVE TInv'
  <2>1. ASSUME NEW h \in Handle, DerefLookup(r, h) PROVE TInv'
    BY <2>1, DerefLookupTInv
  <2>2. CASE DerefSend(r) \/ DerefSame(r) \/ DerefFetched(r) \/ DerefError(r)
    BY <2>2, DerefSendTInv, DerefSameTInv, DerefFetchedTInv, DerefErrorTInv
  <2>3. ASSUME NEW k \in Slot, WriteLookup(r, k) PROVE TInv'
    BY <2>3, WriteLookupTInv
  <2>4. CASE WriteApply(r) \/ WriteReplace(r) \/ WriteApplied(r) \/ WriteReplaced(r)
             \/ WriteRejected(r)
    BY <2>4, WriteApplyTInv, WriteReplaceTInv, WriteOkTInv, WriteRejectedTInv
  <2> QED
    BY <1>5, <2>1, <2>2, <2>3, <2>4 DEF RunStep
<1> QED
  BY <1>1, <1>2, <1>3, <1>4, <1>5 DEF Next

\* Every reachable state is typed (the state of heap, store and runs of coherence.mts), for any
\* number of runs, handles, slots, copies and writes.
THEOREM TypeCorrect == Spec => []TypeOK
<1>1. TInv => TypeOK
  BY DEF TInv
<1> QED
  BY <1>1, InitTInv, NextTInv, PTL DEF Spec

-----------------------------------------------------------------------------
(* What the copies have seen                                               *)

\* With two handles for one object each counts its own versions, and a write through one is not
\* seen by the other's compare-and-set.
OneHandle == \A g, h \in Handle : g = h

\* A history holds version v, and nothing of it is unseen.
Shown(history, v, saw) == v \in 1..Len(history) /\ Values(history[v]) \subseteq saw

\* The version of a handle stands for its master.
Current == \A h \in Handle : version[h] # 0 => hist[h][version[h]] = object[objs[h]]

\* A copy has seen its content and what the master was at the versions it claims.
CopySeen(copy, history) ==
  /\ Values(copy.content) \subseteq copy.seen
  /\ Shown(history, copy.version, copy.seen)
  /\ Shown(history, copy.entryVersion, copy.seen)
CopiesSeen == \A c \in 1..Len(copies) : CopySeen(copies[c], hist[copies[c].handle])

\* The version at which a dereference began is not ahead of the master's.
FloorPast(r) ==
  run[r].at \in DerefPoint =>
    /\ run[r].floor <= Len(hist[run[r].handle])
    /\ version[run[r].handle] # 0 => run[r].floor <= version[run[r].handle]
FloorsPast == \A r \in Run : FloorPast(r)

\* A request names a version that the copy behind it has seen.
RequestSeen(q) ==
  /\ q.kind = "deref" /\ q.have # 0 =>
       /\ run[q.run].entry # 0
       /\ Shown(hist[q.handle], q.have, copies[run[q.run].entry].seen)
  /\ q.kind \in Proposal =>
       /\ Shown(hist[q.handle], q.version, q.saw)
       /\ q.saw \subseteq copies[run[q.run].copy].seen
       /\ Values(q.content) \subseteq q.saw

\* A reply names a version that its run's copy has seen, or brings it.
ReplySeen(p) ==
  LET r == run[p.run]
  IN  /\ p.kind = "same" => /\ r.entry # 0 /\ r.floor <= p.version
                            /\ Shown(hist[r.handle], p.version, copies[r.entry].seen)
      /\ p.kind = "fetched" => /\ r.floor <= p.version /\ p.version \in 1..Len(hist[r.handle])
                               /\ p.content = hist[r.handle][p.version]
      /\ p.kind = "ok" => Shown(hist[copies[r.copy].handle], p.version, copies[r.copy].seen)

FlightSeen ==
  /\ \A i \in DOMAIN toOwner : RequestSeen(toOwner[i])
  /\ \A j \in DOMAIN toReader : ReplySeen(toReader[j])

SInv == TInv /\ Current /\ CopiesSeen /\ FloorsPast /\ FlightSeen

-----------------------------------------------------------------------------
(* History only grows, and what was seen stays seen.                       *)

\* One history continues another.
Continues(later, earlier) ==
  /\ Len(earlier) \in Nat /\ Len(later) \in Nat /\ Len(earlier) <= Len(later)
  /\ \A i \in 1..Len(earlier) : later[i] = earlier[i]

\* Every history continues, and a version grows until the handle is released.
Grows ==
  \A h \in Handle : /\ Continues(hist'[h], hist[h])
                    /\ version'[h] # 0 => version[h] # 0 /\ version[h] <= version'[h]

\* What a copy has seen of a history it has seen of every continuation.
LEMMA ShownStays ==
  ASSUME NEW earlier, NEW later, Continues(later, earlier), NEW v, NEW saw, NEW sawLater,
         saw \subseteq sawLater, Shown(earlier, v, saw)
  PROVE  Shown(later, v, sawLater)
BY DEF Continues, Shown

\* A step that leaves the versions and the history alone.
LEMMA SameGrows ==
  ASSUME TypeOK, UNCHANGED <<version, hist>>
  PROVE  Grows
<1>1. ASSUME NEW h \in Handle
      PROVE  Continues(hist[h], hist[h]) /\ version[h] <= version[h]
  <2>1. hist[h] \in Seq(Content) /\ version[h] \in Nat
    BY DEF TypeOK, Version
  <2> QED
    BY <2>1 DEF Continues
<1> QED
  BY <1>1 DEF Grows

\* A write of the owner's, or an accepted one.
LEMMA AdvanceGrows ==
  ASSUME TypeOK, NEW h \in Handle, version[h] # 0, NEW c \in Content, Advances(h, c)
  PROVE  Grows
<1>1. ASSUME NEW g \in Handle
      PROVE  /\ Continues(hist'[g], hist[g]) /\ version[g] <= version'[g]
             /\ version'[g] # 0 => version[g] # 0
  <2>1. hist[g] \in Seq(Content) /\ version[g] \in Nat
    BY DEF TypeOK, Version
  <2>2. CASE g = h
    <3>1. /\ version'[h] = version[h] + 1 /\ version[h] = Len(hist[h])
          /\ Len(hist'[h]) = version'[h]
          /\ \A i \in 1..Len(hist[h]) : hist'[h][i] = hist[h][i]
      BY AdvancesTypes
    <3> QED
      BY <2>1, <2>2, <3>1 DEF Continues
  <2>3. CASE g # h
    <3>1. version'[g] = version[g] /\ hist'[g] = hist[g]
      BY <2>3, AdvancesTypes
    <3> QED
      BY <2>1, <3>1 DEF Continues
  <2> QED
    BY <2>2, <2>3
<1> QED
  BY <1>1 DEF Grows

\* Copies keep their handle and only see more.
SeeMore ==
  /\ Len(copies) \in Nat /\ Len(copies') \in Nat /\ Len(copies) <= Len(copies')
  /\ \A c \in 1..Len(copies) : /\ copies'[c].handle = copies[c].handle
                               /\ copies[c].seen \subseteq copies'[c].seen

\* A step of run r takes nothing away from what copies have seen.
LEMMA AsideSees ==
  ASSUME TypeOK, NEW r \in Run, Aside(r)
  PROVE  SeeMore
<1>1. copies \in Seq(Copy) /\ copies' \in Seq(Copy)
  BY DEF TypeOK, Aside
<1> QED
  BY <1>1 DEF Aside, SeeMore

\* Nor does a step that touches no copy.
LEMMA SameSees ==
  ASSUME TypeOK, UNCHANGED copies
  PROVE  SeeMore
<1>1. copies \in Seq(Copy)
  BY DEF TypeOK
<1> QED
  BY <1>1 DEF SeeMore

\* The requests and replies of a run that stays where it is.
LEMMA RequestStaysSeen ==
  ASSUME TypeOK, RunsPlaced, Grows, SeeMore, NEW q \in Request, RequestPlaced(q),
         run'[q.run] = run[q.run], RequestSeen(q)
  PROVE  RequestSeen(q)'
<1>1. q.run \in Run /\ q.handle \in Handle
  BY RequestFields
<1>2. /\ run[q.run].copy \in Nat /\ run[q.run].copy <= Len(copies)
      /\ run[q.run].entry \in Nat /\ run[q.run].entry <= Len(copies)
      /\ run[q.run].at \in WritePoint => run[q.run].copy # 0
  <2>1. RunPlaced(q.run)
    BY <1>1 DEF RunsPlaced
  <2> QED
    BY <1>1, <2>1, RunFields DEF RunPlaced
<1>3. Continues(hist'[q.handle], hist[q.handle])
  BY <1>1 DEF Grows
<1>4. ASSUME q.kind = "deref", q.have # 0
      PROVE  /\ run'[q.run].entry # 0
             /\ Shown(hist'[q.handle], q.have, copies'[run'[q.run].entry].seen)
  <2>1. /\ run[q.run].entry # 0
        /\ Shown(hist[q.handle], q.have, copies[run[q.run].entry].seen)
    BY <1>4 DEF RequestSeen
  <2>2. run[q.run].entry \in 1..Len(copies)
    BY <1>2, <2>1 DEF SeeMore
  <2>3. copies[run[q.run].entry].seen \subseteq copies'[run[q.run].entry].seen
    BY <2>2 DEF SeeMore
  <2> QED
    BY <1>3, <2>1, <2>3, ShownStays
<1>5. ASSUME q.kind \in Proposal
      PROVE  /\ Shown(hist'[q.handle], q.version, q.saw)
             /\ q.saw \subseteq copies'[run'[q.run].copy].seen
             /\ Values(q.content) \subseteq q.saw
  <2>1. /\ Shown(hist[q.handle], q.version, q.saw)
        /\ q.saw \subseteq copies[run[q.run].copy].seen
        /\ Values(q.content) \subseteq q.saw
    BY <1>5 DEF RequestSeen
  <2>2. run[q.run].at \in WritePoint
    BY <1>5 DEF RequestPlaced, Proposal, WritePoint
  <2>3. run[q.run].copy \in 1..Len(copies)
    BY <1>2, <2>2 DEF SeeMore
  <2>4. copies[run[q.run].copy].seen \subseteq copies'[run[q.run].copy].seen
    BY <2>3 DEF SeeMore
  <2> QED
    BY <1>3, <2>1, <2>4, ShownStays
<1> QED
  BY <1>4, <1>5 DEF RequestSeen

\* And the reply to a run that stays where it is.
LEMMA ReplyStaysSeen ==
  ASSUME TypeOK, RunsPlaced, Grows, SeeMore, NEW p \in Reply, ReplyPlaced(p),
         run'[p.run] = run[p.run], ReplySeen(p)
  PROVE  ReplySeen(p)'
<1>1. p.run \in Run /\ run[p.run].handle \in Handle
  BY ReplyFields, RunFields
<1>2. /\ run[p.run].copy \in Nat /\ run[p.run].copy <= Len(copies)
      /\ run[p.run].entry \in Nat /\ run[p.run].entry <= Len(copies)
      /\ run[p.run].at \in WritePoint => run[p.run].copy # 0
  <2>1. RunPlaced(p.run)
    BY <1>1 DEF RunsPlaced
  <2> QED
    BY <1>1, <2>1, RunFields DEF RunPlaced
<1>3. Continues(hist'[run[p.run].handle], hist[run[p.run].handle])
  BY <1>1 DEF Grows
<1>4. ASSUME p.kind = "same"
      PROVE  /\ run[p.run].entry # 0 /\ run[p.run].floor <= p.version
             /\ Shown(hist'[run[p.run].handle], p.version, copies'[run[p.run].entry].seen)
  <2>1. /\ run[p.run].entry # 0 /\ run[p.run].floor <= p.version
        /\ Shown(hist[run[p.run].handle], p.version, copies[run[p.run].entry].seen)
    BY <1>4 DEF ReplySeen
  <2>2. run[p.run].entry \in 1..Len(copies)
    BY <1>2, <2>1 DEF SeeMore
  <2>3. copies[run[p.run].entry].seen \subseteq copies'[run[p.run].entry].seen
    BY <2>2 DEF SeeMore
  <2> QED
    BY <1>3, <2>1, <2>3, ShownStays
<1>5. ASSUME p.kind = "fetched"
      PROVE  /\ run[p.run].floor <= p.version /\ p.version \in 1..Len(hist'[run[p.run].handle])
             /\ p.content = hist'[run[p.run].handle][p.version]
  <2>1. /\ run[p.run].floor <= p.version /\ p.version \in 1..Len(hist[run[p.run].handle])
        /\ p.content = hist[run[p.run].handle][p.version]
    BY <1>5 DEF ReplySeen
  <2> QED
    BY <1>3, <2>1 DEF Continues
<1>6. ASSUME p.kind = "ok"
      PROVE  Shown(hist'[copies'[run[p.run].copy].handle], p.version,
                   copies'[run[p.run].copy].seen)
  <2>1. Shown(hist[copies[run[p.run].copy].handle], p.version, copies[run[p.run].copy].seen)
    BY <1>6 DEF ReplySeen
  <2>2. run[p.run].at \in WritePoint
    BY <1>6 DEF ReplyPlaced, WritePoint
  <2>3. run[p.run].copy \in 1..Len(copies)
    BY <1>2, <2>2 DEF SeeMore
  <2>4. PICK g \in Handle : g = copies[run[p.run].copy].handle
    BY <2>3, CopyFields
  <2>5. /\ copies[run[p.run].copy].seen \subseteq copies'[run[p.run].copy].seen
        /\ copies'[run[p.run].copy].handle = g
    BY <2>3, <2>4 DEF SeeMore
  <2>6. Continues(hist'[g], hist[g])
    BY DEF Grows
  <2>7. Shown(hist[g], p.version, copies[run[p.run].copy].seen)
    BY <2>1, <2>4
  <2>8. Shown(hist'[g], p.version, copies'[run[p.run].copy].seen)
    BY <2>5, <2>6, <2>7, ShownStays
  <2> QED
    BY <2>5, <2>8
<1> QED
  BY <1>4, <1>5, <1>6 DEF ReplySeen

\* A message that stays in flight, wherever in the queue.
LEMMA RequestInFlight ==
  ASSUME TypeOK, RunsPlaced, FlightPlaced, FlightSeen, Grows, SeeMore,
         NEW i \in DOMAIN toOwner, NEW j \in DOMAIN toOwner', toOwner'[j] = toOwner[i],
         run'[toOwner[i].run] = run[toOwner[i].run]
  PROVE  RequestSeen(toOwner[j])'
<1>1. PICK q \in Request : q = toOwner[i]
  BY FlightTyped
<1>2. RequestPlaced(q) /\ RequestSeen(q) /\ run'[q.run] = run[q.run]
  BY <1>1 DEF FlightPlaced, FlightSeen
<1>3. RequestSeen(q)'
  BY <1>2, RequestStaysSeen
<1> QED
  BY <1>1, <1>3 DEF RequestSeen

\* The same for a reply.
LEMMA ReplyInFlight ==
  ASSUME TypeOK, RunsPlaced, FlightPlaced, FlightSeen, Grows, SeeMore,
         NEW i \in DOMAIN toReader, NEW j \in DOMAIN toReader', toReader'[j] = toReader[i],
         run'[toReader[i].run] = run[toReader[i].run]
  PROVE  ReplySeen(toReader[j])'
<1>1. PICK p \in Reply : p = toReader[i]
  BY FlightTyped
<1>2. ReplyPlaced(p) /\ ReplySeen(p) /\ run'[p.run] = run[p.run]
  BY <1>1 DEF FlightPlaced, FlightSeen
<1>3. ReplySeen(p)'
  BY <1>2, ReplyStaysSeen
<1> QED
  BY <1>1, <1>3 DEF ReplySeen

\* A copy that a step does not write keeps what it has seen.
LEMMA CopyStaysSeen ==
  ASSUME TypeOK, Grows, NEW c \in 1..Len(copies), copies'[c] = copies[c],
         CopySeen(copies[c], hist[copies[c].handle])
  PROVE  CopySeen(copies'[c], hist'[copies'[c].handle])
<1>1. Continues(hist'[copies[c].handle], hist[copies[c].handle])
  BY CopyFields DEF Grows
<1> QED
  BY <1>1, ShownStays DEF CopySeen

\* A run that stays where it is, while the version of its handle only grows.
LEMMA FloorStaysPast ==
  ASSUME TypeOK, TypeOK', Grows, NEW r \in Run, run'[r].handle = run[r].handle,
         run'[r].floor = run[r].floor,
         run'[r].at \in DerefPoint => run[r].at \in DerefPoint, FloorPast(r)
  PROVE  FloorPast(r)'
<1> DEFINE h == run[r].handle
<1>1. h \in Handle /\ run[r].floor \in Nat
  BY RunFields DEF Version
<1>2. /\ Continues(hist'[h], hist[h])
      /\ version'[h] # 0 => version[h] # 0 /\ version[h] <= version'[h]
  BY <1>1 DEF Grows
<1>3. version[h] \in Nat /\ version'[h] \in Nat
  BY <1>1 DEF TypeOK, Version
<1>4. ASSUME run'[r].at \in DerefPoint
      PROVE  run[r].floor <= Len(hist[h]) /\ (version[h] # 0 => run[r].floor <= version[h])
  BY <1>4 DEF FloorPast
<1> HIDE DEF h
<1>5. ASSUME run'[r].at \in DerefPoint
      PROVE  run[r].floor <= Len(hist'[h]) /\ (version'[h] # 0 => run[r].floor <= version'[h])
  BY <1>1, <1>2, <1>3, <1>4, <1>5 DEF Continues
<1> USE DEF h
<1> QED
  BY <1>5 DEF FloorPast

-----------------------------------------------------------------------------
(* Init and the owner's steps.                                             *)

\* Nothing is in flight and no copy made at the start.
LEMMA InitSInv == Init => SInv
<1> SUFFICES ASSUME Init
             PROVE  SInv
  OBVIOUS
<1>1. TInv
  BY InitTInv
<1>2. Current
  BY DEF Init, Current
<1>3. CopiesSeen
  BY DEF Init, CopiesSeen
<1>4. FloorsPast
  BY DEF Init, FloorsPast, FloorPast, DerefPoint
<1>5. FlightSeen
  BY DEF Init, FlightSeen
<1> QED
  BY <1>1, <1>2, <1>3, <1>4, <1>5 DEF SInv

\* A step of the owner's alone leaves what the reader has and what is in flight.
LEMMA OwnerStepSeen ==
  ASSUME SInv, TInv', Grows, UNCHANGED <<copies, run, toOwner, toReader>>
  PROVE  CopiesSeen' /\ FloorsPast' /\ FlightSeen'
<1> USE DEF SInv
<1>0. TypeOK /\ RunsPlaced /\ FlightPlaced /\ TypeOK' /\ SeeMore
  <2>1. TypeOK /\ RunsPlaced /\ FlightPlaced /\ TypeOK'
    BY DEF TInv, Places
  <2> QED
    BY <2>1, SameSees
<1>1. CopiesSeen'
  <2> SUFFICES ASSUME NEW c \in 1..Len(copies)
               PROVE  CopySeen(copies'[c], hist'[copies'[c].handle])
    BY DEF CopiesSeen
  <2> QED
    BY <1>0, CopyStaysSeen DEF CopiesSeen
<1>2. FloorsPast'
  <2> SUFFICES ASSUME NEW r \in Run
               PROVE  FloorPast(r)'
    BY DEF FloorsPast
  <2> QED
    BY <1>0, FloorStaysPast DEF FloorsPast
<1>3. FlightSeen'
  <2>1. ASSUME NEW i \in DOMAIN toOwner
        PROVE  RequestSeen(toOwner[i])'
    BY <1>0, RequestInFlight DEF FlightSeen
  <2>2. ASSUME NEW j \in DOMAIN toReader
        PROVE  ReplySeen(toReader[j])'
    BY <1>0, ReplyInFlight DEF FlightSeen
  <2> QED
    BY <2>1, <2>2 DEF FlightSeen
<1> QED
  BY <1>1, <1>2, <1>3

\* The owner's own run takes its object keeps what was seen.
LEMMA OwnerDerefSInv ==
  ASSUME SInv, NEW h \in Handle, OwnerDeref(h)
  PROVE  SInv'
<1>1. TInv' /\ TypeOK
  BY OwnerDerefTInv DEF SInv, TInv
<1>2. UNCHANGED <<objs, version, object, hist, copies, cached, run, toOwner, toReader>>
  BY DEF OwnerDeref, reader
<1>3. CopiesSeen' /\ FloorsPast' /\ FlightSeen'
  BY <1>1, <1>2, SameGrows, OwnerStepSeen
<1>4. Current'
  BY <1>2 DEF SInv, Current
<1> QED
  BY <1>1, <1>3, <1>4 DEF SInv

\* The release of a handle keeps what was seen.
LEMMA ReleaseSInv ==
  ASSUME SInv, NEW h \in Handle, Release(h)
  PROVE  SInv'
<1>1. TInv' /\ TypeOK
  BY ReleaseTInv DEF SInv, TInv
<1>2. /\ UNCHANGED <<object, hist, copies, cached, run, toOwner, toReader>>
      /\ version' = [version EXCEPT ![h] = 0] /\ objs' = [objs EXCEPT ![h] = 0]
  BY DEF Release, VersionDropped, reader
<1>3. \A g \in Handle : version'[g] # 0 => g # h /\ version'[g] = version[g] /\ objs'[g] = objs[g]
  BY <1>1, <1>2 DEF TypeOK
<1>4. Grows
  <2>1. ASSUME NEW g \in Handle
        PROVE  /\ Continues(hist'[g], hist[g])
               /\ version'[g] # 0 => version[g] # 0 /\ version[g] <= version'[g]
    <3>1. hist[g] \in Seq(Content) /\ version[g] \in Nat
      BY <1>1 DEF TypeOK, Version
    <3> QED
      BY <1>2, <1>3, <3>1 DEF Continues
  <2> QED
    BY <2>1 DEF Grows
<1>5. CopiesSeen' /\ FloorsPast' /\ FlightSeen'
  BY <1>1, <1>2, <1>4, OwnerStepSeen
<1>6. Current'
  BY <1>2, <1>3 DEF SInv, Current
<1> QED
  BY <1>1, <1>5, <1>6 DEF SInv

\* With one handle, what a step records of it is all there is to record.
LEMMA AdvanceCurrent ==
  ASSUME OneHandle, TypeOK, NEW h \in Handle, version[h] # 0, NEW c \in Content, Advances(h, c),
         object'[objs'[h]] = c
  PROVE  Current'
<1>1. hist'[h][version'[h]] = c
  BY AdvancesTypes
<1>2. \A g \in Handle : g = h
  BY DEF OneHandle
<1> QED
  BY <1>1, <1>2 DEF Current

\* A write of the owner's own run, in place keeps what was seen.
LEMMA OwnerWriteSInv ==
  ASSUME OneHandle, SInv, NEW k \in Slot, OwnerWrite(k)
  PROVE  SInv'
<1>0. TInv /\ TInv' /\ TypeOK
  BY OwnerWriteTInv DEF SInv, TInv
<1>1. PICK h \in Handle : h = tagged[local]
  BY <1>0, OwnerWriteEffect
<1>2. /\ version[h] # 0
      /\ Advances(h, object'[objs[h]]) /\ object'[objs[h]] \in Content
      /\ UNCHANGED <<objs, copies, cached, run, toOwner, toReader>>
  BY <1>0, <1>1, OwnerWriteEffect
<1>3. PICK c \in Content : c = object'[objs[h]]
  BY <1>2
<1>4. Advances(h, c) /\ object'[objs'[h]] = c
  BY <1>2, <1>3
<1>5. Grows /\ Current'
  BY <1>0, <1>2, <1>4, AdvanceGrows, AdvanceCurrent
<1>6. CopiesSeen' /\ FloorsPast' /\ FlightSeen'
  BY <1>0, <1>2, <1>5, OwnerStepSeen
<1> QED
  BY <1>0, <1>5, <1>6 DEF SInv

-----------------------------------------------------------------------------
(* The owner's answers.                                                    *)

\* An answer: the other requests and replies wait on, and the copies are as they were.
LEMMA AnsweredSeen ==
  ASSUME SInv, TInv', Grows, NEW reply, Answered(reply), ReplySeen(reply)'
  PROVE  CopiesSeen' /\ FloorsPast' /\ FlightSeen'
<1> USE DEF SInv
<1>0. /\ TypeOK /\ RunsPlaced /\ FlightPlaced /\ TypeOK'
      /\ UNCHANGED <<copies, cached, run>>
  BY DEF TInv, Places, Answered
<1>1. SeeMore
  BY <1>0, SameSees
<1>2. CopiesSeen'
  <2> SUFFICES ASSUME NEW c \in 1..Len(copies)
               PROVE  CopySeen(copies'[c], hist'[copies'[c].handle])
    BY <1>0 DEF CopiesSeen
  <2> QED
    BY <1>0, CopyStaysSeen DEF CopiesSeen
<1>3. FloorsPast'
  <2> SUFFICES ASSUME NEW r \in Run
               PROVE  FloorPast(r)'
    BY DEF FloorsPast
  <2> QED
    BY <1>0, FloorStaysPast DEF FloorsPast
<1>4. /\ \A i \in DOMAIN toOwner' : i + 1 \in DOMAIN toOwner /\ toOwner'[i] = toOwner[i + 1]
      /\ DOMAIN toReader' = DOMAIN toReader \cup {Len(toReader) + 1}
      /\ toReader'[Len(toReader) + 1] = reply
      /\ \A j \in DOMAIN toReader : toReader'[j] = toReader[j]
  BY <1>0, AnsweredQueues
<1>5. ASSUME NEW i \in DOMAIN toOwner'
      PROVE  RequestSeen(toOwner[i])'
  <2>1. i + 1 \in DOMAIN toOwner /\ toOwner'[i] = toOwner[i + 1]
    BY <1>4
  <2> QED
    BY <1>0, <1>1, <2>1, RequestInFlight
<1>6. ASSUME NEW j \in DOMAIN toReader'
      PROVE  ReplySeen(toReader[j])'
  <2>1. CASE j \in DOMAIN toReader
    BY <1>0, <1>1, <1>4, <2>1, ReplyInFlight
  <2>2. CASE j = Len(toReader) + 1
    <3>1. toReader'[j] = reply
      BY <1>4, <2>2
    <3> QED
      BY <3>1 DEF ReplySeen
  <2> QED
    BY <1>4, <2>1, <2>2
<1> QED
  BY <1>2, <1>3, <1>5, <1>6 DEF FlightSeen

\* The owner's answer to a dereference keeps what was seen.
LEMMA ServeDerefSInv ==
  ASSUME SInv, ServeDeref
  PROVE  SInv'
<1>0. TInv /\ TInv' /\ TypeOK /\ FlightPlaced /\ RunsPlaced /\ VersionBudget
  BY ServeDerefTInv DEF SInv, TInv, Places
<1>1. PICK q \in Request : q = Head(toOwner)
  BY <1>0, ServeDerefEffect
<1>2. /\ UNCHANGED <<objs, version, object, tagged, hist>>
      /\ q.kind = "deref" /\ q = toOwner[1] /\ 1 \in DOMAIN toOwner
      /\ RequestPlaced(q)
  BY <1>0, <1>1, ServeDerefEffect
<1>3. PICK reply : Answered(reply) /\ ReplyPlaced(reply) /\ ServeDerefReply(reply)
  BY <1>0, ServeDerefEffect
<1>4. /\ q.run \in Run /\ q.handle \in Handle /\ q.have \in Version
      /\ run[q.run].at = "deref reply" /\ run[q.run].handle = q.handle
      /\ UNCHANGED <<copies, run>>
  BY <1>2, <1>3, RequestFields DEF RequestPlaced, Proposal, Answered
<1>5. RequestSeen(q)
  BY <1>2 DEF SInv, FlightSeen
<1> DEFINE h == q.handle
<1>6. version[h] # 0 =>
        /\ version[h] \in 1..Len(hist[h]) /\ run[q.run].floor <= version[h]
        /\ hist[h][version[h]] = object[objs[h]]
  <2>1. version[h] # 0 => run[q.run].floor <= version[h]
    BY <1>4 DEF SInv, FloorsPast, FloorPast, DerefPoint
  <2>2. version[h] # 0 => hist[h][version[h]] = object[objs[h]]
    BY <1>4 DEF SInv, Current
  <2>3. ASSUME version[h] # 0
        PROVE  version[h] \in 1..Len(hist[h])
    <3>1. version[h] = Len(hist[h]) /\ version[h] \in Version
      BY <1>0, <1>4, <2>3, MasterTyped
    <3> QED
      BY <2>3, <3>1 DEF Version
  <2> QED
    BY <2>1, <2>2, <2>3
<1>7. ReplySeen(reply)'
  <2>1. CASE reply.kind = "error"
    BY <2>1 DEF ReplySeen
  <2>2. CASE version[h] # 0 /\ q.have = version[h]
             /\ reply = [kind |-> "same", run |-> q.run, version |-> version[h]]
    <3>1. run[q.run].entry # 0 /\ Shown(hist[h], version[h], copies[run[q.run].entry].seen)
      BY <1>2, <1>5, <2>2 DEF RequestSeen
    <3> QED
      BY <1>2, <1>4, <1>6, <2>2, <3>1 DEF ReplySeen
  <2>3. CASE version[h] # 0
             /\ reply = [kind |-> "fetched", run |-> q.run, version |-> version[h],
                         content |-> object[objs[h]]]
    BY <1>2, <1>4, <1>6, <2>3 DEF ReplySeen
  <2> QED
    BY <1>1, <1>3, <2>1, <2>2, <2>3 DEF ServeDerefReply
<1>8. CopiesSeen' /\ FloorsPast' /\ FlightSeen'
  <2>1. Grows
    BY <1>0, <1>2, SameGrows
  <2> QED
    BY <1>0, <1>3, <1>7, <2>1, AnsweredSeen
<1>9. Current'
  BY <1>2 DEF SInv, Current
<1> QED
  BY <1>0, <1>8, <1>9 DEF SInv

\* A write-back the owner rejects keeps what was seen.
LEMMA ServeRejectedSInv ==
  ASSUME SInv, ServeRejected
  PROVE  SInv'
<1>0. TInv /\ TInv' /\ TypeOK /\ FlightPlaced
  BY ServeRejectedTInv DEF SInv, TInv, Places
<1>1. UNCHANGED <<objs, version, object, tagged, hist>>
  BY <1>0, ServeRejectedEffect
<1>2. PICK reply : Answered(reply) /\ reply.kind \in {"error", "conflict"}
  BY <1>0, ServeRejectedEffect
<1>3. ReplySeen(reply)'
  BY <1>2 DEF ReplySeen
<1>4. CopiesSeen' /\ FloorsPast' /\ FlightSeen'
  <2>1. Grows
    BY <1>0, <1>1, SameGrows
  <2> QED
    BY <1>0, <1>2, <1>3, <2>1, AnsweredSeen
<1>5. Current'
  BY <1>1 DEF SInv, Current
<1> QED
  BY <1>0, <1>4, <1>5 DEF SInv

\* A write-back is accepted when its copy has seen all of the master.
LEMMA AcceptedSaw ==
  ASSUME SInv, ServeAccepted
  PROVE  LET q == Head(toOwner)
         IN  Values(object[objs[q.handle]]) \subseteq q.saw
<1>0. TypeOK /\ FlightPlaced /\ VersionBudget
  BY DEF SInv, TInv, Places
<1>1. toOwner # <<>> /\ Head(toOwner).kind \in Proposal
  BY <1>0, ServeAcceptedEffect
<1>2. PICK q \in Request : q = Head(toOwner)
  BY <1>0, <1>1, JudgedPlaced
<1>3. q.kind \in Proposal /\ q = toOwner[1] /\ 1 \in DOMAIN toOwner /\ q.handle \in Handle
  BY <1>0, <1>1, <1>2, JudgedPlaced
<1>4. version[q.handle] # 0 /\ version[q.handle] = q.version
  BY <1>0, <1>2, ServeAcceptedEffect
<1>5. Shown(hist[q.handle], q.version, q.saw)
  BY <1>3 DEF SInv, FlightSeen, RequestSeen
<1>6. hist[q.handle][version[q.handle]] = object[objs[q.handle]]
  BY <1>3, <1>4 DEF SInv, Current
<1>7. Values(object[objs[q.handle]]) \subseteq q.saw
  BY <1>4, <1>5, <1>6 DEF Shown
<1> QED
  BY <1>2, <1>7

\* A write-back the owner accepts keeps what was seen.
LEMMA ServeAcceptedSInv ==
  ASSUME OneHandle, SInv, ServeAccepted
  PROVE  SInv'
<1>0. TInv /\ TInv' /\ TypeOK /\ FlightPlaced /\ VersionBudget /\ RunsPlaced
  BY ServeAcceptedTInv DEF SInv, TInv, Places
<1>1. toOwner # <<>> /\ Head(toOwner).kind \in Proposal
  BY <1>0, ServeAcceptedEffect
<1>2. PICK q \in Request : q = Head(toOwner)
  BY <1>0, <1>1, JudgedPlaced
<1>3. /\ q.kind \in Proposal /\ q = toOwner[1] /\ 1 \in DOMAIN toOwner /\ q.handle \in Handle
      /\ q.run \in Run /\ RequestPlaced(q) /\ RequestSeen(q)
  BY <1>0, <1>1, <1>2, JudgedPlaced DEF SInv, FlightSeen
<1> DEFINE h == q.handle
<1>4. /\ version[h] # 0 /\ Outcome(q) \in Content /\ object'[objs'[h]] = Outcome(q)
      /\ Advances(h, Outcome(q)) /\ Answered(Accepted(q))
  BY <1>0, <1>2, ServeAcceptedEffect
<1>5. PICK c \in Content : c = Outcome(q)
  BY <1>4
<1>6. Advances(h, c) /\ object'[objs'[h]] = c
  BY <1>4, <1>5
<1>7. Grows /\ Current'
  BY <1>0, <1>3, <1>4, <1>6, AdvanceGrows, AdvanceCurrent
<1>8. Values(c) \subseteq copies[run[q.run].copy].seen
  <2>1. Values(object[objs[h]]) \subseteq q.saw
    BY <1>2, AcceptedSaw
  <2>2. Values(q.content) \subseteq q.saw /\ q.saw \subseteq copies[run[q.run].copy].seen
    BY <1>3 DEF RequestSeen
  <2>3. Values(c) \subseteq q.saw
    BY <1>5, <2>1, <2>2 DEF Outcome, Patched, Values
  <2> QED
    BY <2>2, <2>3
<1>9. PICK reply : reply = Accepted(q)
  OBVIOUS
<1>10. ReplySeen(reply)'
  <2>1. reply.kind = "ok" /\ reply.run = q.run /\ reply.version = version[h] + 1
    BY <1>9 DEF Accepted
  <2>2. copies[run[q.run].copy].handle = h /\ UNCHANGED <<copies, run>>
    BY <1>3, <1>4 DEF RequestPlaced, Proposal, Answered
  <2>3. hist'[h][version[h] + 1] = c /\ version[h] + 1 \in 1..Len(hist'[h])
    BY <1>0, <1>3, <1>4, <1>6, AdvancesTypes
  <2>4. Shown(hist'[h], version[h] + 1, copies[run[q.run].copy].seen)
    BY <1>8, <2>3 DEF Shown
  <2> QED
    BY <2>1, <2>2, <2>4 DEF ReplySeen
<1>11. CopiesSeen' /\ FloorsPast' /\ FlightSeen'
  <2>1. Answered(reply)
    BY <1>4, <1>9
  <2> QED
    BY <1>0, <1>7, <1>10, <2>1, AnsweredSeen
<1> QED
  BY <1>0, <1>7, <1>11 DEF SInv

-----------------------------------------------------------------------------
(* The reader's steps.                                                     *)

\* A step of run r: the copies it does not write, the runs and messages of the others.
LEMMA ReaderSeen ==
  ASSUME SInv, TInv', NEW r \in Run, Aside(r), UNCHANGED <<objs, version, object, hist>>,
         FloorPast(r)',
         \A c \in 1..Len(copies') :
           CopySeen(copies'[c], hist[copies'[c].handle])
             \/ (c \in 1..Len(copies) /\ copies'[c] = copies[c]),
         \A i \in DOMAIN toOwner' : i \notin DOMAIN toOwner => RequestSeen(toOwner[i])',
         \A i \in DOMAIN toOwner : toOwner'[i] = toOwner[i] /\ toOwner[i].run # r,
         \A j \in DOMAIN toReader' : \E k \in DOMAIN toReader : /\ toReader'[j] = toReader[k]
                                                                /\ toReader[k].run # r
  PROVE  SInv'
<1> USE DEF SInv
<1>0. TypeOK /\ RunsPlaced /\ FlightPlaced /\ TypeOK'
  BY DEF TInv, Places
<1>1. Grows /\ SeeMore
  BY <1>0, SameGrows, AsideSees
<1>2. \A s \in Run : s # r => run'[s] = run[s]
  BY DEF Aside
<1>3. Current'
  BY DEF Current
<1>4. CopiesSeen'
  <2> SUFFICES ASSUME NEW c \in 1..Len(copies')
               PROVE  CopySeen(copies'[c], hist'[copies'[c].handle])
    BY DEF CopiesSeen
  <2>1. CASE c \in 1..Len(copies) /\ copies'[c] = copies[c]
    BY <1>0, <1>1, <2>1, CopyStaysSeen DEF CopiesSeen
  <2> QED
    BY <2>1
<1>5. FloorsPast'
  <2> SUFFICES ASSUME NEW s \in Run
               PROVE  FloorPast(s)'
    BY DEF FloorsPast
  <2>1. CASE s # r
    BY <1>0, <1>1, <1>2, <2>1, FloorStaysPast DEF FloorsPast
  <2> QED
    BY <2>1
<1>6. ASSUME NEW i \in DOMAIN toOwner'
      PROVE  RequestSeen(toOwner[i])'
  <2>1. CASE i \in DOMAIN toOwner
    <3>1. toOwner[i].run \in Run
      BY <1>0, <2>1, FlightTyped, RequestFields
    <3> QED
      BY <1>0, <1>1, <1>2, <2>1, <3>1, RequestInFlight
  <2> QED
    BY <2>1
<1>7. ASSUME NEW j \in DOMAIN toReader'
      PROVE  ReplySeen(toReader[j])'
  <2>1. PICK k \in DOMAIN toReader : toReader'[j] = toReader[k] /\ toReader[k].run # r
    OBVIOUS
  <2>2. toReader[k].run \in Run
    BY <1>0, FlightTyped, ReplyFields
  <2> QED
    BY <1>0, <1>1, <1>2, <2>1, <2>2, ReplyInFlight
<1> QED
  BY <1>3, <1>4, <1>5, <1>6, <1>7 DEF FlightSeen

\* A step of run r that sends and receives nothing.
LEMMA QuietSeen ==
  ASSUME SInv, TInv', NEW r \in Run, Aside(r), UNCHANGED <<objs, version, object, hist>>,
         UNCHANGED <<toOwner, toReader>>, run[r].at \notin ReplyPoint, FloorPast(r)',
         \A c \in 1..Len(copies') :
           CopySeen(copies'[c], hist[copies'[c].handle])
             \/ (c \in 1..Len(copies) /\ copies'[c] = copies[c])
  PROVE  SInv'
<1>0. TypeOK /\ FlightPlaced
  BY DEF SInv, TInv, Places
<1>1. /\ \A i \in DOMAIN toOwner : toOwner[i].run # r
      /\ \A j \in DOMAIN toReader : toReader[j].run # r
  BY <1>0, NothingInFlight
<1>2. /\ \A i \in DOMAIN toOwner : toOwner'[i] = toOwner[i] /\ toOwner[i].run # r
      /\ \A j \in DOMAIN toReader' : \E k \in DOMAIN toReader : /\ toReader'[j] = toReader[k]
                                                                /\ toReader[k].run # r
      /\ DOMAIN toOwner' = DOMAIN toOwner
  BY <1>1
<1> QED
  BY <1>2, ReaderSeen

\* A step of run r that sends request m.
LEMMA SentSeen ==
  ASSUME SInv, TInv', NEW r \in Run, Aside(r), UNCHANGED <<objs, version, object, hist>>,
         UNCHANGED toReader, run[r].at \notin ReplyPoint, FloorPast(r)',
         \A c \in 1..Len(copies') :
           CopySeen(copies'[c], hist[copies'[c].handle])
             \/ (c \in 1..Len(copies) /\ copies'[c] = copies[c]),
         NEW m \in Request, toOwner' = Append(toOwner, m), RequestSeen(m)'
  PROVE  SInv'
<1>0. TypeOK /\ FlightPlaced
  BY DEF SInv, TInv, Places
<1>1. /\ \A i \in DOMAIN toOwner : toOwner[i].run # r
      /\ \A j \in DOMAIN toReader : toReader[j].run # r
  BY <1>0, NothingInFlight
<1>2. toOwner \in Seq(Request)
  BY <1>0 DEF TypeOK
<1>3. /\ DOMAIN toOwner' = DOMAIN toOwner \cup {Len(toOwner) + 1}
      /\ toOwner'[Len(toOwner) + 1] = m
      /\ \A i \in DOMAIN toOwner : toOwner'[i] = toOwner[i]
  BY <1>2, AppendQueue
<1>4. ASSUME NEW i \in DOMAIN toOwner', i \notin DOMAIN toOwner
      PROVE  RequestSeen(toOwner[i])'
  <2>1. toOwner'[i] = m
    BY <1>3, <1>4
  <2> QED
    BY <2>1 DEF RequestSeen
<1>5. /\ \A i \in DOMAIN toOwner : toOwner'[i] = toOwner[i] /\ toOwner[i].run # r
      /\ \A j \in DOMAIN toReader' : \E k \in DOMAIN toReader : /\ toReader'[j] = toReader[k]
                                                                /\ toReader[k].run # r
  BY <1>1, <1>3
<1> QED
  BY <1>3, <1>4, <1>5, ReaderSeen

\* A step of run r that takes its reply.
LEMMA ReceivedSeen ==
  ASSUME SInv, TInv', NEW r \in Run, Aside(r), UNCHANGED <<objs, version, object, hist>>,
         UNCHANGED toOwner, toReader # <<>>, Head(toReader).run = r, toReader' = Tail(toReader),
         run'[r].at = "nothing",
         \A c \in 1..Len(copies') :
           CopySeen(copies'[c], hist[copies'[c].handle])
             \/ (c \in 1..Len(copies) /\ copies'[c] = copies[c])
  PROVE  SInv'
<1>0. TypeOK /\ Places
  BY DEF SInv, TInv
<1>1. /\ \A j \in DOMAIN toReader' :
           /\ j + 1 \in DOMAIN toReader /\ toReader'[j] = toReader[j + 1]
           /\ toReader'[j].run # r
      /\ \A i \in DOMAIN toOwner : toOwner[i].run # r
  BY <1>0, ReceivedPlaces
<1>2. /\ \A i \in DOMAIN toOwner : toOwner'[i] = toOwner[i] /\ toOwner[i].run # r
      /\ \A j \in DOMAIN toReader' : \E k \in DOMAIN toReader : /\ toReader'[j] = toReader[k]
                                                                /\ toReader[k].run # r
      /\ DOMAIN toOwner' = DOMAIN toOwner
  BY <1>1
<1>3. FloorPast(r)'
  BY DEF FloorPast, DerefPoint
<1> QED
  BY <1>2, <1>3, ReaderSeen

\* The lookup that begins a dereference keeps what was seen.
LEMMA DerefLookupSInv ==
  ASSUME SInv, NEW r \in Run, NEW h \in Handle, DerefLookup(r, h)
  PROVE  SInv'
<1>0. TInv /\ TInv' /\ TypeOK
  BY DerefLookupTInv DEF SInv, TInv
<1>1. /\ UNCHANGED <<objs, version, object, hist, copies, cached, toOwner, toReader>>
      /\ run[r].at = "nothing"
      /\ run' = [run EXCEPT ![r] = [@ EXCEPT !.at = "deref lookup", !.handle = h,
                                             !.entry = cached[h], !.floor = version[h]]]
  BY DEF DerefLookup, owner, reader
<1>2. run[r] \in RunState /\ run \in [Run -> RunState]
  BY <1>0 DEF TypeOK
<1>3. /\ \A s \in Run : s # r => run'[s] = run[s]
      /\ run'[r].handle = h /\ run'[r].floor = version[h]
  BY <1>1, <1>2 DEF RunState
<1>4. Aside(r)
  BY <1>0, <1>1, <1>3, AsideUnchanged
<1>5. FloorPast(r)'
  <2>1. version[h] \in Version /\ hist[h] \in Seq(Content)
        /\ (version[h] # 0 => version[h] = Len(hist[h]))
    BY <1>0 DEF TypeOK
  <2>2. version[h] <= Len(hist[h]) /\ version[h] <= version[h]
    BY <2>1 DEF Version
  <2> QED
    BY <1>1, <1>3, <2>2 DEF FloorPast
<1>6. run[r].at \notin ReplyPoint
  BY <1>1 DEF ReplyPoint
<1> QED
  BY <1>0, <1>1, <1>4, <1>5, <1>6, QuietSeen

\* The request of a dereference keeps what was seen.
LEMMA DerefSendSInv ==
  ASSUME SInv, NEW r \in Run, DerefSend(r)
  PROVE  SInv'
<1>0. TInv /\ TInv' /\ TypeOK /\ RunsPlaced
  BY DerefSendTInv DEF SInv, TInv, Places
<1>1. /\ UNCHANGED <<objs, version, object, hist, copies, cached, toReader>>
      /\ run[r].at = "deref lookup" /\ Aside(r)
      /\ run'[r] = [run[r] EXCEPT !.at = "deref reply"]
  BY <1>0, DerefSendEffect
<1>2. PICK m \in Request : m = DerefRequest(r) /\ toOwner' = Append(toOwner, m)
  BY <1>0, DerefSendEffect
<1>3. run[r] \in RunState /\ run'[r].handle = run[r].handle /\ run'[r].floor = run[r].floor
      /\ run'[r].entry = run[r].entry /\ run[r].handle \in Handle
  BY <1>0, <1>1, RunFields DEF RunState
<1>4. FloorPast(r)'
  <2>1. FloorPast(r) /\ run[r].at \in DerefPoint
    BY <1>1 DEF SInv, FloorsPast, DerefPoint
  <2> QED
    BY <1>1, <1>3, <2>1 DEF FloorPast
<1>5. RequestSeen(m)'
  <2>1. /\ m.kind = "deref" /\ m.run = r /\ m.handle = run[r].handle
        /\ m.have = IF run[r].entry = 0 THEN 0 ELSE copies[run[r].entry].entryVersion
    BY <1>2 DEF DerefRequest
  <2>2. ASSUME m.have # 0
        PROVE  run[r].entry # 0 /\ Shown(hist[m.handle], m.have, copies[run[r].entry].seen)
    <3>1. run[r].entry # 0 /\ m.have = copies[run[r].entry].entryVersion
      BY <2>1, <2>2
    <3>2. run[r].entry \in 1..Len(copies)
      <4>1. RunPlaced(r) /\ run[r].entry \in Nat /\ Len(copies) \in Nat
        BY <1>0, RunFields, CopyFields DEF RunsPlaced
      <4>2. run[r].entry <= Len(copies)
        BY <4>1 DEF RunPlaced
      <4> QED
        BY <3>1, <4>1, <4>2
    <3>3. CopySeen(copies[run[r].entry], hist[copies[run[r].entry].handle])
      BY <3>2 DEF SInv, CopiesSeen
    <3>4. copies[run[r].entry].handle = run[r].handle
      BY <1>0, <1>1, <3>1 DEF RunsPlaced, RunPlaced, DerefPoint
    <3> QED
      BY <2>1, <3>1, <3>3, <3>4 DEF CopySeen
  <2> QED
    BY <1>1, <1>3, <2>1, <2>2 DEF RequestSeen, Proposal
<1>6. run[r].at \notin ReplyPoint
  BY <1>1 DEF ReplyPoint
<1> QED
  BY <1>0, <1>1, <1>2, <1>4, <1>5, <1>6, SentSeen

\* A run that takes its reply and touches no copy.
LEMMA WaitOverSeen ==
  ASSUME SInv, TInv', NEW r \in Run, NEW c \in Nat,
         run' = [run EXCEPT ![r] = [@ EXCEPT !.at = "nothing", !.copy = c]],
         toReader # <<>>, Head(toReader).run = r, toReader' = Tail(toReader),
         \A g \in Handle : cached'[g] \in {0, cached[g]},
         UNCHANGED <<objs, version, object, hist, copies, toOwner>>
  PROVE  SInv'
<1>0. TypeOK /\ run \in [Run -> RunState] /\ run[r] \in RunState
  BY DEF SInv, TInv, TypeOK
<1>1. (\A s \in Run : s # r => run'[s] = run[s]) /\ run'[r].at = "nothing"
  BY <1>0 DEF RunState
<1>2. Aside(r)
  BY <1>0, <1>1, AsideUnchanged
<1> QED
  BY <1>1, <1>2, ReceivedSeen

\* The answer that the cached entry is current keeps what was seen.
LEMMA DerefSameSInv ==
  ASSUME SInv, NEW r \in Run, DerefSame(r)
  PROVE  SInv'
<1>0. TInv /\ TInv' /\ TypeOK
  BY DerefSameTInv DEF SInv, TInv
<1>1. run[r].entry \in Nat
  BY <1>0, RunFields
<1>2. /\ UNCHANGED <<objs, version, object, hist, toOwner, copies, cached>>
      /\ toReader # <<>> /\ Head(toReader).run = r /\ toReader' = Tail(toReader)
      /\ run' = [run EXCEPT ![r] = [@ EXCEPT !.at = "nothing", !.copy = run[r].entry]]
  BY ReplyToEffect DEF DerefSame, reader
<1> QED
  BY <1>0, <1>1, <1>2, WaitOverSeen

\* The answer that the handle was released keeps what was seen.
LEMMA DerefErrorSInv ==
  ASSUME SInv, NEW r \in Run, DerefError(r)
  PROVE  SInv'
<1>0. TInv /\ TInv' /\ TypeOK
  BY DerefErrorTInv DEF SInv, TInv
<1>1. run[r].copy \in Nat
  BY <1>0, RunFields
<1>2. /\ UNCHANGED <<objs, version, object, hist, toOwner, copies, cached>>
      /\ toReader # <<>> /\ Head(toReader).run = r /\ toReader' = Tail(toReader)
      /\ run' = [run EXCEPT ![r].at = "nothing"]
  BY ReplyToEffect DEF DerefError, reader
<1>3. run' = [run EXCEPT ![r] = [@ EXCEPT !.at = "nothing", !.copy = run[r].copy]]
  BY <1>0, <1>2, SameRecord
<1> QED
  BY <1>0, <1>1, <1>2, <1>3, WaitOverSeen

\* The rejection of a write-back keeps what was seen.
LEMMA WriteRejectedSInv ==
  ASSUME SInv, NEW r \in Run, WriteRejected(r)
  PROVE  SInv'
<1>0. TInv /\ TInv' /\ TypeOK
  BY WriteRejectedTInv DEF SInv, TInv
<1>1. run[r].copy \in Nat
  BY <1>0, RunFields
<1>2. /\ UNCHANGED <<objs, version, object, hist, toOwner, copies>>
      /\ toReader # <<>> /\ Head(toReader).run = r /\ toReader' = Tail(toReader)
      /\ run' = [run EXCEPT ![r].at = "nothing"]
  BY ReplyToEffect DEF WriteRejected
<1>3. run' = [run EXCEPT ![r] = [@ EXCEPT !.at = "nothing", !.copy = run[r].copy]]
  BY <1>0, <1>2, SameRecord
<1>4. \A g \in Handle : cached'[g] \in {0, cached[g]}
  BY <1>0 DEF WriteRejected, EntryDropped, TypeOK
<1> QED
  BY <1>0, <1>1, <1>2, <1>3, <1>4, WaitOverSeen

\* The eviction of an entry keeps what was seen.
LEMMA EvictSInv ==
  ASSUME SInv, NEW h \in Handle, Evict(h)
  PROVE  SInv'
<1>1. TInv' /\ TypeOK
  BY EvictTInv DEF SInv, TInv
<1>2. UNCHANGED <<objs, version, object, hist, copies, run, toOwner, toReader>>
  BY DEF Evict, owner
<1>3. CopiesSeen' /\ FloorsPast' /\ FlightSeen'
  BY <1>1, <1>2, SameGrows, OwnerStepSeen
<1>4. Current'
  BY <1>2 DEF SInv, Current
<1> QED
  BY <1>1, <1>3, <1>4 DEF SInv

\* The write into a copy, and the lookup of its entry, keeps what was seen.
LEMMA WriteLookupSInv ==
  ASSUME SInv, NEW r \in Run, NEW k \in Slot, WriteLookup(r, k)
  PROVE  SInv'
<1>0. TInv /\ TInv' /\ TypeOK
  BY WriteLookupTInv DEF SInv, TInv
<1>1. /\ UNCHANGED <<objs, version, object, hist, toOwner, toReader>>
      /\ run[r].at = "nothing" /\ run[r].copy # 0 /\ Aside(r)
      /\ run'[r] = [run[r] EXCEPT !.at = "write lookup", !.entry = cached[Held(r).handle]]
      /\ copies' = [copies EXCEPT ![run[r].copy] = Written(Held(r), k, writes')]
      /\ Written(Held(r), k, writes') \in Copy
  BY <1>0, WriteLookupEffect
<1>2. run[r].copy \in 1..Len(copies) /\ Held(r) \in Copy
  BY <1>0, <1>1, HeldFields
<1>3. /\ Len(copies') = Len(copies) /\ copies'[run[r].copy] = Written(Held(r), k, writes')
      /\ \A d \in 1..Len(copies) : d # run[r].copy => copies'[d] = copies[d]
  BY <1>0, <1>1, <1>2, CopySet
<1>4. CopySeen(Held(r), hist[Held(r).handle])
  BY <1>2 DEF SInv, CopiesSeen, Held
<1>5. PICK x \in Copy : x = Held(r)
  BY <1>2
<1>6. PICK y : y = Written(x, k, writes')
  OBVIOUS
<1>7. /\ y.handle = x.handle /\ y.version = x.version /\ y.entryVersion = x.entryVersion
      /\ y.content = [x.content EXCEPT ![k] = writes'] /\ y.seen = x.seen \cup {writes'}
  BY <1>6 DEF Written, Copy
<1>8. CopySeen(y, hist[y.handle])
  <2>1. Values(x.content) \subseteq x.seen
    BY <1>4, <1>5 DEF CopySeen
  <2>2. Values(y.content) \subseteq y.seen
    BY <1>7, <2>1 DEF Values, Copy, Content
  <2>3. Shown(hist[y.handle], y.version, y.seen) /\ Shown(hist[y.handle], y.entryVersion, y.seen)
    BY <1>4, <1>5, <1>7 DEF CopySeen, Shown
  <2> QED
    BY <2>2, <2>3 DEF CopySeen
<1>9. \A c \in 1..Len(copies') :
        CopySeen(copies'[c], hist[copies'[c].handle])
          \/ (c \in 1..Len(copies) /\ copies'[c] = copies[c])
  BY <1>3, <1>5, <1>6, <1>8
<1>10. FloorPast(r)' /\ run[r].at \notin ReplyPoint
  <2>1. run'[r].at = "write lookup"
    BY <1>0, <1>1, RunFields DEF RunState
  <2> QED
    BY <1>1, <2>1 DEF FloorPast, DerefPoint, ReplyPoint
<1> QED
  BY <1>0, <1>1, <1>9, <1>10, QuietSeen

\* The answer that brings a fetched copy keeps what was seen.
LEMMA DerefFetchedSInv ==
  ASSUME SInv, NEW r \in Run, DerefFetched(r)
  PROVE  SInv'
<1>0. TInv /\ TInv' /\ TypeOK
  BY DerefFetchedTInv DEF SInv, TInv
<1>1. PICK p \in Reply : p = Head(toReader)
  BY <1>0, DerefFetchedEffect
<1>2. /\ UNCHANGED <<objs, version, object, hist, toOwner>>
      /\ toReader # <<>> /\ toReader' = Tail(toReader) /\ p.run = r /\ p.kind = "fetched"
      /\ Len(copies') = Len(copies) + 1 /\ copies'[Len(copies) + 1] = Fetched(r, p)
      /\ \A d \in 1..Len(copies) : copies'[d] = copies[d]
      /\ Aside(r)
  BY <1>0, <1>1, DerefFetchedEffect
<1>3. run'[r].at = "nothing"
  <2>1. run'[r] = [run[r] EXCEPT !.at = "nothing", !.copy = Len(copies) + 1]
    BY <1>0, DerefFetchedEffect
  <2> QED
    BY <1>0, <2>1, RunFields DEF RunState
<1>4. ReplySeen(p)
  <2>1. 1 \in DOMAIN toReader /\ Head(toReader) = toReader[1]
    BY <1>0, <1>2, TailQueue DEF TypeOK
  <2> QED
    BY <1>1, <2>1 DEF SInv, FlightSeen
<1>5. PICK x : x = Fetched(r, p)
  OBVIOUS
<1>6. /\ x.handle = run[r].handle /\ x.version = p.version /\ x.entryVersion = p.version
      /\ x.content = p.content /\ x.seen = Values(p.content)
  BY <1>5 DEF Fetched
<1>7. /\ p.version \in 1..Len(hist[run[r].handle])
      /\ p.content = hist[run[r].handle][p.version]
  BY <1>2, <1>4 DEF ReplySeen
<1>8. CopySeen(x, hist[x.handle])
  BY <1>6, <1>7 DEF CopySeen, Shown
<1>9. \A c \in 1..Len(copies') :
        CopySeen(copies'[c], hist[copies'[c].handle])
          \/ (c \in 1..Len(copies) /\ copies'[c] = copies[c])
  <2>1. Len(copies) \in Nat
    BY <1>0, CopyFields
  <2>2. \A c \in 1..Len(copies') : c = Len(copies) + 1 \/ c \in 1..Len(copies)
    BY <1>2, <2>1
  <2> QED
    BY <1>2, <1>5, <1>8, <2>2
<1> QED
  BY <1>0, <1>1, <1>2, <1>3, <1>9, ReceivedSeen

\* A write-back that is sent carries the version its copy has seen.
LEMMA ProposedSeen ==
  ASSUME SInv, NEW r \in Run, run[r].copy \in 1..Len(copies),
         NEW m, NEW kind \in Proposal, NEW slots, m = Proposed(r, kind, slots),
         run'[r].copy = run[r].copy, SeeMore, UNCHANGED hist
  PROVE  RequestSeen(m)'
<1>1. /\ m.kind = kind /\ m.run = r /\ m.handle = Held(r).handle /\ m.version = Held(r).version
      /\ m.saw = Held(r).seen /\ m.content = Held(r).content
  BY DEF Proposed
<1>2. CopySeen(Held(r), hist[Held(r).handle])
  BY DEF SInv, CopiesSeen, Held
<1>3. /\ Shown(hist[m.handle], m.version, m.saw)
      /\ m.saw \subseteq copies[run[r].copy].seen
      /\ Values(m.content) \subseteq m.saw
  BY <1>1, <1>2 DEF CopySeen, Held
<1>4. copies[run[r].copy].seen \subseteq copies'[run[r].copy].seen
  BY DEF SeeMore
<1>5. kind # "deref"
  BY DEF Proposal
<1> QED
  BY <1>1, <1>3, <1>4, <1>5 DEF RequestSeen

\* The delta sent for a copy whose entry is cached keeps what was seen.
LEMMA WriteApplySInv ==
  ASSUME SInv, NEW r \in Run, WriteApply(r)
  PROVE  SInv'
<1>0. TInv /\ TInv' /\ TypeOK
  BY WriteApplyTInv DEF SInv, TInv
<1>1. /\ UNCHANGED <<objs, version, object, hist, toReader>>
      /\ run[r].at = "write lookup" /\ run[r].copy # 0 /\ Aside(r)
      /\ run'[r] = [run[r] EXCEPT !.at = "apply reply"]
      /\ [Held(r) EXCEPT !.baseline = Held(r).content] \in Copy
      /\ copies' = [copies EXCEPT ![run[r].copy] = [Held(r) EXCEPT !.baseline = Held(r).content]]
  BY <1>0, WriteApplyEffect
<1>2. PICK slots \in {Changed(run[r].copy), Slot} : \E m \in Request :
         /\ m = Proposed(r, "apply", slots) /\ RequestPlaced(m)'
         /\ toOwner' = Append(toOwner, m)
  BY <1>0, WriteApplyEffect
<1>13. PICK m \in Request : m = Proposed(r, "apply", slots) /\ toOwner' = Append(toOwner, m)
  BY <1>2
<1>3. run[r].copy \in 1..Len(copies) /\ Held(r) \in Copy
  BY <1>0, <1>1, HeldFields
<1>4. /\ Len(copies') = Len(copies)
      /\ copies'[run[r].copy] = [Held(r) EXCEPT !.baseline = Held(r).content]
      /\ \A d \in 1..Len(copies) : d # run[r].copy => copies'[d] = copies[d]
  BY <1>0, <1>1, <1>3, CopySet
<1>5. PICK x \in Copy : x = Held(r)
  BY <1>3
<1>6. PICK y : y = [x EXCEPT !.baseline = x.content]
  OBVIOUS
<1>7. /\ y.handle = x.handle /\ y.version = x.version /\ y.entryVersion = x.entryVersion
      /\ y.content = x.content /\ y.seen = x.seen
  BY <1>6 DEF Copy
<1>8. CopySeen(y, hist[y.handle])
  <2>1. CopySeen(x, hist[x.handle])
    BY <1>3, <1>5 DEF SInv, CopiesSeen, Held
  <2> QED
    BY <1>7, <2>1 DEF CopySeen
<1>9. \A c \in 1..Len(copies') :
        CopySeen(copies'[c], hist[copies'[c].handle])
          \/ (c \in 1..Len(copies) /\ copies'[c] = copies[c])
  BY <1>4, <1>5, <1>6, <1>8
<1>10. run'[r].at = "apply reply" /\ run'[r].copy = run[r].copy
  BY <1>0, <1>1, RunFields DEF RunState
<1>11. FloorPast(r)' /\ run[r].at \notin ReplyPoint
  BY <1>1, <1>10 DEF FloorPast, DerefPoint, ReplyPoint
<1>12. RequestSeen(m)'
  BY <1>0, <1>1, <1>13, <1>3, <1>10, AsideSees, ProposedSeen DEF Proposal
<1> QED
  BY <1>0, <1>1, <1>13, <1>9, <1>11, <1>12, SentSeen

\* The whole object sent for a copy whose entry is gone keeps what was seen.
LEMMA WriteReplaceSInv ==
  ASSUME SInv, NEW r \in Run, WriteReplace(r)
  PROVE  SInv'
<1>0. TInv /\ TInv' /\ TypeOK
  BY WriteReplaceTInv DEF SInv, TInv
<1>1. /\ UNCHANGED <<objs, version, object, hist, copies, toReader>>
      /\ run[r].at = "write lookup" /\ run[r].copy # 0 /\ Aside(r)
      /\ run'[r] = [run[r] EXCEPT !.at = "replace reply"]
  BY <1>0, WriteReplaceEffect
<1>2. PICK m \in Request : m = Proposed(r, "replace", Slot) /\ toOwner' = Append(toOwner, m)
  BY <1>0, WriteReplaceEffect
<1>3. run[r].copy \in 1..Len(copies)
  BY <1>0, <1>1, HeldFields
<1>4. run'[r].at = "replace reply" /\ run'[r].copy = run[r].copy
  BY <1>0, <1>1, RunFields DEF RunState
<1>5. FloorPast(r)' /\ run[r].at \notin ReplyPoint
  BY <1>1, <1>4 DEF FloorPast, DerefPoint, ReplyPoint
<1>6. RequestSeen(m)'
  BY <1>0, <1>1, <1>2, <1>3, <1>4, AsideSees, ProposedSeen DEF Proposal
<1> QED
  BY <1>0, <1>1, <1>2, <1>5, <1>6, SentSeen

\* The acknowledgement of a write-back keeps what was seen.
LEMMA WriteOkSInv ==
  ASSUME SInv, NEW r \in Run, WriteApplied(r) \/ WriteReplaced(r)
  PROVE  SInv'
<1>0. TInv /\ TInv' /\ TypeOK
  BY WriteOkTInv DEF SInv, TInv
<1>1. PICK p \in Reply : p = Head(toReader)
  BY <1>0, WriteOkEffect
<1>2. /\ UNCHANGED <<objs, version, object, hist, toOwner>>
      /\ toReader # <<>> /\ toReader' = Tail(toReader) /\ p.run = r /\ p.kind = "ok"
      /\ run[r].copy # 0 /\ Aside(r) /\ run'[r] = [run[r] EXCEPT !.at = "nothing"]
  BY <1>0, <1>1, WriteOkEffect
<1>3. run[r].copy \in 1..Len(copies) /\ Held(r) \in Copy
  BY <1>0, <1>2, HeldFields
<1>4. PICK y \in Copy :
        /\ y = AppliedCopy(r, p.version) \/ y = ReplacedCopy(r, p.version)
        /\ copies' = [copies EXCEPT ![run[r].copy] = y]
  BY <1>0, <1>1, WriteOkEffect
<1>5. /\ Len(copies') = Len(copies) /\ copies'[run[r].copy] = y
      /\ \A d \in 1..Len(copies) : d # run[r].copy => copies'[d] = copies[d]
  BY <1>0, <1>3, <1>4, CopySet
<1>6. PICK x \in Copy : x = Held(r)
  BY <1>3
<1>7. /\ y.handle = x.handle /\ y.content = x.content /\ y.seen = x.seen
      /\ y.version = p.version /\ y.entryVersion \in {p.version, x.entryVersion}
  BY <1>4, <1>6 DEF AppliedCopy, ReplacedCopy, Copy
<1>8. Shown(hist[x.handle], p.version, x.seen)
  <2>1. 1 \in DOMAIN toReader /\ Head(toReader) = toReader[1]
    BY <1>0, <1>2, TailQueue DEF TypeOK
  <2>2. ReplySeen(p)
    BY <1>1, <2>1 DEF SInv, FlightSeen
  <2> QED
    BY <1>2, <1>6, <2>2 DEF ReplySeen, Held
<1>9. CopySeen(y, hist[y.handle])
  <2>1. CopySeen(x, hist[x.handle])
    BY <1>3, <1>6 DEF SInv, CopiesSeen, Held
  <2> QED
    BY <1>7, <1>8, <2>1 DEF CopySeen
<1>10. \A c \in 1..Len(copies') :
        CopySeen(copies'[c], hist[copies'[c].handle])
          \/ (c \in 1..Len(copies) /\ copies'[c] = copies[c])
  BY <1>5, <1>9
<1>11. run'[r].at = "nothing"
  BY <1>0, <1>2, RunFields DEF RunState
<1> QED
  BY <1>0, <1>1, <1>2, <1>10, <1>11, ReceivedSeen

-----------------------------------------------------------------------------
(* The theorems.                                                           *)

\* Every step, and stuttering, keeps what was seen.
LEMMA NextSInv == OneHandle /\ SInv /\ [Next]_vars => SInv'
<1> SUFFICES ASSUME OneHandle, SInv, [Next]_vars
             PROVE  SInv'
  OBVIOUS
<1>1. ASSUME NEW h \in Handle, OwnerDeref(h) \/ Release(h) \/ Evict(h) PROVE SInv'
  BY <1>1, OwnerDerefSInv, ReleaseSInv, EvictSInv
<1>2. ASSUME NEW k \in Slot, OwnerWrite(k) PROVE SInv'
  BY <1>2, OwnerWriteSInv
<1>3. CASE ServeDeref \/ ServeRejected \/ ServeAccepted
  BY <1>3, ServeDerefSInv, ServeRejectedSInv, ServeAcceptedSInv
<1>4. ASSUME NEW r \in Run, RunStep(r) PROVE SInv'
  <2>1. ASSUME NEW h \in Handle, DerefLookup(r, h) PROVE SInv'
    BY <2>1, DerefLookupSInv
  <2>2. CASE DerefSend(r) \/ DerefSame(r) \/ DerefFetched(r) \/ DerefError(r)
    BY <2>2, DerefSendSInv, DerefSameSInv, DerefFetchedSInv, DerefErrorSInv
  <2>3. ASSUME NEW k \in Slot, WriteLookup(r, k) PROVE SInv'
    BY <2>3, WriteLookupSInv
  <2>4. CASE WriteApply(r) \/ WriteReplace(r) \/ WriteApplied(r) \/ WriteReplaced(r)
               \/ WriteRejected(r)
    BY <2>4, WriteApplySInv, WriteReplaceSInv, WriteOkSInv, WriteRejectedSInv
  <2> QED
    BY <1>4, <2>1, <2>2, <2>3, <2>4 DEF RunStep
<1>5. CASE UNCHANGED vars
  <2>1. TInv'
    BY <1>5, NextTInv DEF SInv
  <2>2. TypeOK /\ UNCHANGED <<objs, version, object, hist, copies, run, toOwner, toReader>>
    BY <1>5 DEF vars, SInv, TInv
  <2>3. CopiesSeen' /\ FloorsPast' /\ FlightSeen'
    BY <2>1, <2>2, SameGrows, OwnerStepSeen
  <2>4. Current'
    BY <2>2 DEF SInv, Current
  <2> QED
    BY <2>1, <2>3, <2>4 DEF SInv
<1> QED
  BY <1>1, <1>2, <1>3, <1>4, <1>5 DEF Next

\* The compare-and-set of serve (coherence.mts) overwrites nothing that the writer had not seen,
\* for any number of runs, slots, copies and writes.
THEOREM AcceptedWritesLoseNothing == OneHandle => (Spec => NoLostUpdate)
<1> SUFFICES ASSUME OneHandle
             PROVE  Spec => NoLostUpdate
  OBVIOUS
<1>1. Init => SInv
  BY InitSInv
<1>2. SInv /\ [Next]_vars => SInv'
  BY NextSInv
<1>3. SInv => [ServeAccepted => LET q == Head(toOwner)
                                 IN  \A k \in q.slots : object[objs[q.handle]][k] \in q.saw]_vars
  <2> SUFFICES ASSUME SInv, ServeAccepted
               PROVE  \A k \in Head(toOwner).slots :
                        object[objs[Head(toOwner).handle]][k] \in Head(toOwner).saw
    OBVIOUS
  <2>1. /\ TypeOK /\ FlightPlaced /\ VersionBudget
    BY DEF SInv, TInv, Places
  <2>2. toOwner # <<>> /\ Head(toOwner).kind \in Proposal
    BY <2>1, ServeAcceptedEffect
  <2>3. Head(toOwner).slots \in SUBSET Slot
    BY <2>1, <2>2, JudgedPlaced, RequestFields
  <2>4. Values(object[objs[Head(toOwner).handle]]) \subseteq Head(toOwner).saw
    BY AcceptedSaw
  <2> QED
    BY <2>3, <2>4 DEF Values
<1> QED
  BY <1>1, <1>2, <1>3, PTL DEF Spec, NoLostUpdate

-----------------------------------------------------------------------------
(* The cache of the reader.                                                *)

\* Run r writes back through copy c and its entry; it has found the entry and is about to.
Through(r, c) == run[r].at = "apply reply" /\ run[r].copy = c
AboutTo(r, c) == run[r].at = "write lookup" /\ run[r].copy = c

\* A write-back that the owner is bound to reject: its version is not the master's, or will not
\* be after an earlier write-back in the queue.
Stale(q) == q.version # version[q.handle]
Behind(i) ==
  \E j \in DOMAIN toOwner :
    /\ j < i /\ toOwner[j].kind \in Proposal
    /\ toOwner[j].handle = toOwner[i].handle /\ toOwner[j].version = toOwner[i].version

\* Run r is or will be told that its write-back was rejected, and drop the entry.
Refused(r) == \E j \in DOMAIN toReader : /\ toReader[j].run = r
                                         /\ toReader[j].kind \in {"conflict", "error"}
Doomed(r) ==
  \/ \E i \in DOMAIN toOwner : toOwner[i].run = r /\ (Stale(toOwner[i]) \/ Behind(i))
  \/ Refused(r)

\* The write-back of run r would make of the master what it has made of the baseline of c.
Landing(r, c) ==
  \E i \in DOMAIN toOwner :
    LET q == toOwner[i]
    IN  /\ q.run = r /\ q.version = copies[c].version /\ ~Stale(q)
        /\ Patched(hist[q.handle][q.version], q) = copies[c].baseline

\* It has, and run r is yet to hear of it.
Landed(r, c) ==
  LET h == copies[c].handle
  IN  \E j \in DOMAIN toReader :
        /\ toReader[j].run = r /\ toReader[j].kind = "ok"
        /\ copies[c].version # version[h]
        /\ copies[c].baseline = hist[h][toReader[j].version]

AtRest(c) ==
  /\ \A r \in Run : ~Through(r, c)
  /\ copies[c].version = copies[c].entryVersion
  /\ copies[c].baseline = hist[copies[c].handle][copies[c].entryVersion]

\* An entry whose copy nobody writes through, or one run at a time.
Settled(c) ==
  /\ copies[c].content = copies[c].baseline \/ \E r \in Run : AboutTo(r, c)
  /\ AtRest(c) \/ \E r \in Run : /\ Through(r, c)
                                 /\ Landing(r, c) \/ Landed(r, c)
                                 /\ \A s \in Run : Through(s, c) => s = r

\* An entry that will be dropped, or is or will be what the master is.
Synced(c) == (\E r \in Run : Through(r, c) /\ Doomed(r)) \/ Settled(c)
InCache(c) == \E h \in Handle : cached[h] = c
\* The invariant of the cache.
CacheSynced == \A c \in 1..Len(copies) : InCache(c) => Synced(c)

CInv == SInv /\ CacheSynced

-----------------------------------------------------------------------------

\* What CacheSynced says once nobody writes.
LEMMA SyncedIsCoherent == CInv => CacheCoherent
<1> SUFFICES ASSUME CInv
             PROVE  CacheCoherent
  OBVIOUS
<1>1. ASSUME NEW h \in Handle, cached[h] # 0, ~Writing(cached[h])
      PROVE  copies[cached[h]].content = hist[h][copies[cached[h]].entryVersion]
  <2> DEFINE c == cached[h]
  <2>1. \A r \in Run : ~Through(r, c) /\ ~AboutTo(r, c)
    BY <1>1 DEF Writing, Through, AboutTo
  <2>2. Synced(c)
    <3>1. c \in 1..Len(copies)
      BY <1>1, CachedFields DEF CInv, SInv, TInv
    <3> QED
      BY <3>1 DEF CInv, CacheSynced, InCache
  <2>3. copies[c].content = hist[copies[c].handle][copies[c].entryVersion]
    BY <2>1, <2>2 DEF Synced, Settled, AtRest
  <2>4. copies[c].handle = h
    BY <1>1 DEF CInv, SInv, TInv, Places, CacheNames
  <2> QED
    BY <2>3, <2>4
<1> QED
  BY <1>1 DEF CacheCoherent

\* The cache is empty at the start.
LEMMA InitCInv == Init => CInv
<1> SUFFICES ASSUME Init
             PROVE  CInv
  OBVIOUS
<1>1. SInv
  BY InitSInv
<1>2. CacheSynced
  BY DEF Init, CacheSynced
<1> QED
  BY <1>1, <1>2 DEF CInv

\* What the earlier invariants say of a run that writes through copy c.
LEMMA ThroughFacts ==
  ASSUME SInv, NEW r \in Run, NEW c \in 1..Len(copies), Through(r, c)
  PROVE  /\ \A i \in DOMAIN toOwner : toOwner[i].run = r =>
              /\ toOwner[i].kind = "apply" /\ toOwner[i].handle = copies[c].handle
              /\ toOwner[i].version \in 1..Len(hist[toOwner[i].handle])
              /\ toOwner[i] \in Request
         /\ \A j \in DOMAIN toReader : toReader[j].run = r =>
              /\ toReader[j] \in Reply /\ toReader[j].kind \in {"ok", "conflict", "error"}
              /\ toReader[j].kind = "ok" => toReader[j].version \in 1..Len(hist[copies[c].handle])
<1>0. TypeOK /\ FlightPlaced
  BY DEF SInv, TInv, Places
<1>1. ASSUME NEW i \in DOMAIN toOwner, toOwner[i].run = r
      PROVE  /\ toOwner[i].kind = "apply" /\ toOwner[i].handle = copies[c].handle
             /\ toOwner[i].version \in 1..Len(hist[toOwner[i].handle])
             /\ toOwner[i] \in Request
  <2>1. PICK q \in Request : q = toOwner[i]
    BY <1>0, FlightTyped
  <2>2. RequestPlaced(q) /\ RequestSeen(q)
    BY <1>0, <2>1 DEF FlightPlaced, SInv, FlightSeen
  <2>3. q.kind = "apply" /\ q.handle = copies[c].handle
    BY <1>1, <2>1, <2>2 DEF RequestPlaced, Through
  <2>4. q.version \in 1..Len(hist[q.handle])
    BY <2>2, <2>3 DEF RequestSeen, Proposal, Shown
  <2> QED
    BY <2>1, <2>3, <2>4
<1>2. ASSUME NEW j \in DOMAIN toReader, toReader[j].run = r
      PROVE  /\ toReader[j] \in Reply /\ toReader[j].kind \in {"ok", "conflict", "error"}
             /\ toReader[j].kind = "ok" => toReader[j].version \in 1..Len(hist[copies[c].handle])
  <2>1. PICK p \in Reply : p = toReader[j]
    BY <1>0, FlightTyped
  <2>2. ReplyPlaced(p) /\ ReplySeen(p)
    BY <1>0, <2>1 DEF FlightPlaced, SInv, FlightSeen
  <2>3. p.kind \in {"ok", "conflict", "error"}
    BY <1>2, <2>1, <2>2, ReplyFields DEF ReplyPlaced, Through
  <2>4. p.kind = "ok" => p.version \in 1..Len(hist[copies[c].handle])
    BY <1>2, <2>1, <2>2 DEF ReplySeen, Through, Shown
  <2> QED
    BY <2>1, <2>3, <2>4
<1> QED
  BY <1>1, <1>2

\* A version that is not the master's will never be: versions only grow, until the release.
Moves ==
  /\ Grows
  /\ \A h \in Handle : version'[h] # 0 => version'[h] = Len(hist'[h])
  /\ \A h \in Handle : version'[h] # version[h] => version'[h] = 0 \/ version'[h] > version[h]

\* Stale once, stale for ever.
LEMMA StaleStays ==
  ASSUME TypeOK, TypeOK', Moves, NEW h \in Handle, NEW v \in 1..Len(hist[h]), v # version[h]
  PROVE  v # version'[h]
<1>1. /\ version[h] \in Nat /\ version'[h] \in Nat
      /\ version[h] # 0 => version[h] = Len(hist[h])
      /\ Len(hist[h]) \in Nat
  <2>1. version[h] \in Nat /\ version'[h] \in Nat
    BY DEF TypeOK, Version
  <2>2. hist \in [Handle -> Seq(Content)] /\ (version[h] # 0 => version[h] = Len(hist[h]))
    BY DEF TypeOK
  <2>3. Len(hist[h]) \in Nat
    BY <2>2
  <2> QED
    BY <2>1, <2>2, <2>3
<1>2. version'[h] # 0 => version[h] # 0
  BY DEF Moves, Grows
<1>3. version'[h] # version[h] => version'[h] = 0 \/ version'[h] > version[h]
  BY DEF Moves
<1> QED
  BY <1>1, <1>2, <1>3

\* A copy that a step leaves alone stays in sync if the runs that write through it fare as they
\* did: doomed ones stay doomed, and the others land, or are doomed by somebody else's write.
LEMMA SyncedStays ==
  ASSUME TypeOK, SInv, Grows, NEW c \in 1..Len(copies), copies'[c] = copies[c],
         \A r \in Run : Through(r, c)' <=> Through(r, c),
         \A r \in Run : AboutTo(r, c) => AboutTo(r, c)',
         \A r \in Run : Through(r, c) =>
           /\ Doomed(r) => Doomed(r)'
           /\ Landing(r, c) \/ Landed(r, c) => Landing(r, c)' \/ Landed(r, c)' \/ Doomed(r)',
         Synced(c)
  PROVE  Synced(c)'
<1>1. CASE \E r \in Run : Through(r, c) /\ Doomed(r)
  BY <1>1 DEF Synced
<1>2. CASE Settled(c)
  <2>1. copies'[c].content = copies'[c].baseline \/ \E r \in Run : AboutTo(r, c)'
    BY <1>2 DEF Settled
  <2>2. CASE AtRest(c)
    <3>1. \A r \in Run : ~Through(r, c)'
      BY <2>2 DEF AtRest
    <3>2. copies[c].entryVersion \in 1..Len(hist[copies[c].handle]) /\ copies[c].handle \in Handle
      BY CopyFields DEF SInv, CopiesSeen, CopySeen, Shown
    <3>3. hist'[copies[c].handle][copies[c].entryVersion]
            = hist[copies[c].handle][copies[c].entryVersion]
      BY <3>2 DEF Grows, Continues
    <3>4. /\ copies'[c].version = copies'[c].entryVersion
          /\ copies'[c].baseline = hist'[copies'[c].handle][copies'[c].entryVersion]
      BY <2>2, <3>3 DEF AtRest
    <3>5. AtRest(c)'
      BY <3>1, <3>4 DEF AtRest
    <3> QED
      BY <2>1, <3>5 DEF Synced, Settled
  <2>3. CASE \E r \in Run : /\ Through(r, c)
                            /\ Landing(r, c) \/ Landed(r, c)
                            /\ \A s \in Run : Through(s, c) => s = r
    <3>1. PICK r \in Run : /\ Through(r, c)
                           /\ Landing(r, c) \/ Landed(r, c)
                           /\ \A s \in Run : Through(s, c) => s = r
      BY <2>3
    <3>2. Landing(r, c)' \/ Landed(r, c)' \/ Doomed(r)'
      BY <3>1
    <3>3. Through(r, c)' /\ \A s \in Run : Through(s, c)' => s = r
      BY <3>1
    <3> QED
      BY <2>1, <3>2, <3>3 DEF Synced, Settled
  <2> QED
    BY <1>2, <2>2, <2>3 DEF Settled
<1> QED
  BY <1>1, <1>2 DEF Synced

\* A version that is the master's stays what it was, or is stale.
LEMMA LandingStays ==
  ASSUME TypeOK, TypeOK', SInv, Moves, NEW r \in Run, NEW c \in 1..Len(copies),
         copies'[c] = copies[c], NEW i \in DOMAIN toOwner, NEW k \in DOMAIN toOwner',
         toOwner'[k] = toOwner[i], toOwner[i].run = r, Through(r, c),
         toOwner[i].version = copies[c].version, ~Stale(toOwner[i]),
         Patched(hist[toOwner[i].handle][toOwner[i].version], toOwner[i]) = copies[c].baseline
  PROVE  Landing(r, c)' \/ Doomed(r)'
<1>1. PICK q \in Request : q = toOwner[i]
  BY FlightTyped
<1>2. q.handle \in Handle /\ q.version \in 1..Len(hist[q.handle])
  BY <1>1, ThroughFacts, RequestFields
<1>3. /\ toOwner'[k] = q /\ q.run = r /\ q.version = copies'[c].version
      /\ Patched(hist[q.handle][q.version], q) = copies'[c].baseline
  BY <1>1
<1>4. CASE q.version = version'[q.handle]
  <2>1. hist'[q.handle][q.version] = hist[q.handle][q.version]
    BY <1>2 DEF Moves, Grows, Continues
  <2> QED
    BY <1>3, <1>4, <2>1 DEF Landing, Stale, Patched
<1>5. CASE q.version # version'[q.handle]
  BY <1>3, <1>5 DEF Doomed, Stale
<1> QED
  BY <1>4, <1>5

\* A write-back that has landed is known by its version, which stays in the history.
LEMMA LandedStays ==
  ASSUME TypeOK, TypeOK', SInv, Moves, NEW r \in Run, NEW c \in 1..Len(copies),
         copies'[c] = copies[c], Through(r, c), NEW j \in DOMAIN toReader,
         NEW k \in DOMAIN toReader', toReader'[k] = toReader[j],
         toReader[j].run = r, toReader[j].kind = "ok",
         copies[c].version # version[copies[c].handle],
         copies[c].baseline = hist[copies[c].handle][toReader[j].version]
  PROVE  Landed(r, c)'
<1>1. PICK h \in Handle : h = copies[c].handle
  BY CopyFields
<1>2. /\ copies[c].version \in 1..Len(hist[h])
      /\ toReader[j].version \in 1..Len(hist[h])
  BY <1>1, ThroughFacts DEF SInv, CopiesSeen, CopySeen, Shown
<1>3. PICK v \in 1..Len(hist[h]) : v = copies[c].version
  BY <1>2
<1>4. v # version'[h]
  BY <1>1, <1>3, StaleStays
<1>5. hist'[h][toReader[j].version] = hist[h][toReader[j].version]
  BY <1>2 DEF Moves, Grows, Continues
<1> QED
  BY <1>1, <1>3, <1>4, <1>5 DEF Landed

-----------------------------------------------------------------------------
(* The owner's own steps.                                                  *)

\* A step that caches nothing new.
LEMMA CacheSyncedStays ==
  ASSUME TypeOK, CacheSynced, \A g \in Handle : cached'[g] \in {0, cached[g]},
         Len(copies') = Len(copies),
         \A c \in 1..Len(copies) : InCache(c) /\ InCache(c)' /\ Synced(c) => Synced(c)'
  PROVE  CacheSynced'
<1>1. ASSUME NEW c \in 1..Len(copies), InCache(c)'
      PROVE  Synced(c)'
  <2>1. InCache(c)
    <3>1. PICK g \in Handle : cached'[g] = c
      BY <1>1 DEF InCache
    <3>2. c # 0
      BY CopyFields
    <3> QED
      BY <3>1, <3>2 DEF InCache
  <2> QED
    BY <1>1, <2>1 DEF CacheSynced
<1> QED
  BY <1>1 DEF CacheSynced

\* The writes of the owner's own, and its releases: what was about to land may be stale now.
LEMMA OwnerStepCache ==
  ASSUME CInv, SInv', Moves, UNCHANGED <<copies, run, toOwner, toReader>>,
         \A g \in Handle : cached'[g] \in {0, cached[g]}
  PROVE  CInv'
<1>0. TypeOK /\ SInv /\ TypeOK'
  BY DEF CInv, SInv, TInv
<1>1. ASSUME NEW c \in 1..Len(copies), Synced(c)
      PROVE  Synced(c)'
  <2>1. ASSUME NEW r \in Run, Through(r, c), Doomed(r)
        PROVE  Doomed(r)'
    <3>1. ASSUME NEW i \in DOMAIN toOwner, toOwner[i].run = r,
                 Stale(toOwner[i]) \/ Behind(i)
          PROVE  Doomed(r)'
      <4>1. CASE Stale(toOwner[i])
        <5>1. toOwner[i].handle \in Handle /\ toOwner[i].version \in 1..Len(hist[toOwner[i].handle])
          BY <1>0, <2>1, <3>1, ThroughFacts, RequestFields
        <5>2. toOwner[i].version # version'[toOwner[i].handle]
          BY <1>0, <4>1, <5>1, StaleStays DEF Stale
        <5> QED
          BY <3>1, <5>2 DEF Doomed, Stale
      <4>2. CASE Behind(i)
        BY <3>1, <4>2 DEF Doomed, Behind
      <4> QED
        BY <3>1, <4>1, <4>2
    <3>2. CASE Refused(r)
      BY <3>2 DEF Refused, Doomed
    <3> QED
      BY <2>1, <3>1, <3>2 DEF Doomed
  <2>2. ASSUME NEW r \in Run, Through(r, c), Landing(r, c)
        PROVE  Landing(r, c)' \/ Doomed(r)'
    BY <1>0, <2>2, LandingStays DEF Landing
  <2>3. ASSUME NEW r \in Run, Through(r, c), Landed(r, c)
        PROVE  Landed(r, c)'
    BY <1>0, <2>3, LandedStays DEF Landed
  <2>4. /\ \A r \in Run : Through(r, c)' <=> Through(r, c)
        /\ \A r \in Run : AboutTo(r, c) => AboutTo(r, c)'
    BY DEF Through, AboutTo
  <2>5. Grows /\ copies'[c] = copies[c]
    BY DEF Moves
  <2> QED
    BY <1>0, <1>1, <2>1, <2>2, <2>3, <2>4, <2>5, SyncedStays
<1>2. CacheSynced'
  BY <1>0, <1>1, CacheSyncedStays DEF CInv
<1> QED
  BY <1>2 DEF CInv

\* The owner's own run takes its object keeps the cache in sync.
LEMMA OwnerDerefCInv ==
  ASSUME CInv, NEW h \in Handle, OwnerDeref(h)
  PROVE  CInv'
<1>0. SInv /\ SInv' /\ TypeOK /\ TypeOK'
  BY OwnerDerefSInv DEF CInv, SInv, TInv
<1>1. UNCHANGED <<version, hist, copies, cached, run, toOwner, toReader>>
  BY DEF OwnerDeref, reader
<1>2. Moves
  <2>1. \A g \in Handle : version[g] # 0 => version[g] = Len(hist[g])
    BY <1>0 DEF TypeOK
  <2> QED
    BY <1>0, <1>1, <2>1, SameGrows DEF Moves
<1> QED
  BY <1>0, <1>1, <1>2, OwnerStepCache

\* The eviction of an entry keeps the cache in sync.
LEMMA EvictCInv ==
  ASSUME CInv, NEW h \in Handle, Evict(h)
  PROVE  CInv'
<1>0. SInv /\ SInv' /\ TypeOK /\ TypeOK'
  BY EvictSInv DEF CInv, SInv, TInv
<1>1. UNCHANGED <<version, hist, copies, run, toOwner, toReader>>
  BY DEF Evict, owner
<1>2. Moves
  <2>1. \A g \in Handle : version[g] # 0 => version[g] = Len(hist[g])
    BY <1>0 DEF TypeOK
  <2> QED
    BY <1>0, <1>1, <2>1, SameGrows DEF Moves
<1>3. \A g \in Handle : cached'[g] \in {0, cached[g]}
  BY <1>0 DEF Evict, TypeOK
<1> QED
  BY <1>0, <1>1, <1>2, <1>3, OwnerStepCache

\* The release of a handle keeps the cache in sync.
LEMMA ReleaseCInv ==
  ASSUME CInv, NEW h \in Handle, Release(h)
  PROVE  CInv'
<1>0. SInv /\ SInv' /\ TypeOK /\ TypeOK'
  BY ReleaseSInv DEF CInv, SInv, TInv
<1>1. /\ UNCHANGED <<hist, copies, cached, run, toOwner, toReader>>
      /\ version' = [version EXCEPT ![h] = 0]
  BY DEF Release, VersionDropped, reader
<1>2. \A g \in Handle : version'[g] = 0 \/ version'[g] = version[g]
  BY <1>0, <1>1 DEF TypeOK
<1>3. Moves
  <2>1. \A g \in Handle : version'[g] # 0 => version'[g] = Len(hist'[g])
    BY <1>0 DEF TypeOK
  <2>2. Grows
    <3>1. ASSUME NEW g \in Handle
          PROVE  /\ Continues(hist'[g], hist[g])
                 /\ version'[g] # 0 => version[g] # 0 /\ version[g] <= version'[g]
      <4>1. hist[g] \in Seq(Content) /\ version[g] \in Nat
        BY <1>0 DEF TypeOK, Version
      <4> QED
        BY <1>1, <1>2, <4>1 DEF Continues
    <3> QED
      BY <3>1 DEF Grows
  <2> QED
    BY <1>2, <2>1, <2>2 DEF Moves
<1> QED
  BY <1>0, <1>1, <1>3, OwnerStepCache

\* The version of a handle grows by one.
LEMMA AdvanceMoves ==
  ASSUME TypeOK, TypeOK', NEW h \in Handle, version[h] # 0, NEW c \in Content, Advances(h, c)
  PROVE  Moves
<1>1. /\ version'[h] = version[h] + 1 /\ version[h] \in Nat
      /\ \A g \in Handle \ {h} : version'[g] = version[g]
  BY AdvancesTypes
<1>2. \A g \in Handle : version'[g] # version[g] => version'[g] > version[g]
  BY <1>1
<1>3. \A g \in Handle : version'[g] # 0 => version'[g] = Len(hist'[g])
  BY DEF TypeOK
<1> QED
  BY <1>2, <1>3, AdvanceGrows DEF Moves

\* A write of the owner's own run, in place keeps the cache in sync.
LEMMA OwnerWriteCInv ==
  ASSUME OneHandle, CInv, NEW k \in Slot, OwnerWrite(k)
  PROVE  CInv'
<1>0. SInv /\ SInv' /\ TInv /\ TypeOK /\ TypeOK'
  BY OwnerWriteSInv DEF CInv, SInv, TInv
<1>1. PICK h \in Handle : h = tagged[local]
  BY <1>0, OwnerWriteEffect
<1>2. /\ version[h] # 0
      /\ Advances(h, object'[objs[h]]) /\ object'[objs[h]] \in Content
      /\ UNCHANGED <<copies, cached, run, toOwner, toReader>>
  BY <1>0, <1>1, OwnerWriteEffect
<1>3. PICK c \in Content : c = object'[objs[h]]
  BY <1>2
<1>4. Moves
  <2>1. Advances(h, c)
    BY <1>2, <1>3
  <2> QED
    BY <1>0, <1>2, <2>1, AdvanceMoves
<1> QED
  BY <1>0, <1>2, <1>4, OwnerStepCache

-----------------------------------------------------------------------------
(* The owner's answers.                                                    *)

\* The owner answers the head of the queue: other runs fare as they did, since a write-back that
\* was judged leaves behind it a version that is not the master's.
LEMMA AnsweredCache ==
  ASSUME CInv, SInv', Moves, NEW reply, Answered(reply),
         Head(toOwner).kind \in Proposal =>
           Head(toOwner).version # version'[Head(toOwner).handle],
         NEW h \in Run, h = Head(toOwner).run,
         \A c \in 1..Len(copies) : Through(h, c) =>
           \/ reply.kind \in {"conflict", "error"}
           \/ ~Stale(Head(toOwner)) /\ (Landing(h, c) => Landed(h, c)')
  PROVE  CInv'
<1>0. SInv /\ TypeOK /\ TypeOK' /\ OneOutstanding
  BY DEF CInv, SInv, TInv, Places
<1>1. UNCHANGED <<copies, cached, run>> /\ reply.run = Head(toOwner).run
  BY DEF Answered
<1>2. /\ toOwner' \in Seq(Request) /\ 1 \in DOMAIN toOwner /\ Head(toOwner) = toOwner[1]
      /\ \A i \in DOMAIN toOwner : i # 1 => /\ i \in Nat /\ i > 1 /\ i - 1 \in DOMAIN toOwner'
                                            /\ toOwner'[i - 1] = toOwner[i]
  <2>1. toOwner \in Seq(Request) /\ toOwner # <<>> /\ toOwner' = Tail(toOwner)
    BY <1>0 DEF TypeOK, Answered
  <2> QED
    BY <2>1
<1>3. /\ DOMAIN toReader' = DOMAIN toReader \cup {Len(toReader) + 1}
      /\ toReader'[Len(toReader) + 1] = reply
      /\ \A j \in DOMAIN toReader : toReader'[j] = toReader[j]
  BY <1>0, AnsweredQueues
<1>5. ASSUME reply.kind \in {"conflict", "error"}
      PROVE  Doomed(h)'
  BY <1>1, <1>3, <1>5 DEF Doomed, Refused
<1>6. ASSUME NEW c \in 1..Len(copies), Synced(c)
      PROVE  Synced(c)'
  <2>0. Through(h, c) => reply.kind \in {"conflict", "error"} \/ ~Stale(toOwner[1])
    BY <1>2
  <2>1. ASSUME Through(h, c), Doomed(h)
        PROVE  Doomed(h)'
    <3>1. PICK i \in DOMAIN toOwner : toOwner[i].run = h /\ (Stale(toOwner[i]) \/ Behind(i))
      BY <1>0, <1>2, <2>1 DEF Doomed, Refused, OneOutstanding
    <3>2. i = 1
      BY <1>0, <1>2, <3>1 DEF OneOutstanding
    <3>3. ~Behind(1)
      BY <1>2 DEF Behind
    <3> QED
      BY <1>5, <2>0, <2>1, <3>1, <3>2, <3>3
  <2>2. ASSUME Through(h, c), Landing(h, c) \/ Landed(h, c)
        PROVE  Landed(h, c)' \/ Doomed(h)'
    <3>1. ~Landed(h, c)
      BY <1>0, <1>2 DEF Landed, OneOutstanding
    <3> QED
      BY <1>5, <2>2, <3>1
  <2>3. ASSUME NEW r \in Run, r # h, Through(r, c), Doomed(r)
        PROVE  Doomed(r)'
    <3>1. ASSUME NEW i \in DOMAIN toOwner, toOwner[i].run = r,
                 Stale(toOwner[i]) \/ Behind(i)
          PROVE  Doomed(r)'
      <4>1. PICK q \in Request : q = toOwner[i]
        BY <1>0, FlightTyped
      <4>2. i # 1 /\ i - 1 \in DOMAIN toOwner' /\ toOwner'[i - 1] = q
        BY <1>2, <2>3, <3>1, <4>1
      <4>3. q.handle \in Handle /\ q.version \in 1..Len(hist[q.handle])
        BY <1>0, <2>3, <3>1, <4>1, ThroughFacts, RequestFields
      <4>4. ASSUME q.version # version'[q.handle]
            PROVE  Doomed(r)'
        BY <3>1, <4>1, <4>2, <4>4 DEF Doomed, Stale
      <4>5. CASE Stale(toOwner[i])
        <5>1. q.version # version[q.handle]
          BY <4>1, <4>5 DEF Stale
        <5> QED
          BY <1>0, <4>3, <4>4, <5>1, StaleStays
      <4>6. CASE Behind(i)
        <5>1. PICK j \in DOMAIN toOwner :
                /\ j < i /\ toOwner[j].kind \in Proposal
                /\ toOwner[j].handle = q.handle /\ toOwner[j].version = q.version
          BY <4>1, <4>6 DEF Behind
        <5>2. CASE j = 1
          <6>1. q.version # version'[q.handle]
            BY <1>2, <5>1, <5>2
          <6> QED
            BY <4>4, <6>1
        <5>3. CASE j # 1
          <6>1. j - 1 \in DOMAIN toOwner' /\ j - 1 < i - 1 /\ toOwner'[j - 1] = toOwner[j]
            BY <1>2, <4>2, <5>1, <5>3
          <6>2. Behind(i - 1)'
            BY <4>2, <5>1, <6>1 DEF Behind
          <6> QED
            BY <3>1, <4>1, <4>2, <6>2 DEF Doomed
        <5> QED
          BY <5>2, <5>3
      <4> QED
        BY <3>1, <4>5, <4>6
    <3>2. CASE Refused(r)
      BY <1>3, <3>2 DEF Refused, Doomed
    <3> QED
      BY <2>3, <3>1, <3>2 DEF Doomed
  <2>4. ASSUME NEW r \in Run, r # h, Through(r, c), Landing(r, c)
        PROVE  Landing(r, c)' \/ Doomed(r)'
    <3>1. PICK i \in DOMAIN toOwner :
            /\ toOwner[i].run = r /\ toOwner[i].version = copies[c].version /\ ~Stale(toOwner[i])
            /\ Patched(hist[toOwner[i].handle][toOwner[i].version], toOwner[i])
                 = copies[c].baseline
      BY <2>4 DEF Landing
    <3>2. i # 1 /\ i - 1 \in DOMAIN toOwner' /\ toOwner'[i - 1] = toOwner[i]
      BY <1>2, <2>4, <3>1
    <3>3. copies'[c] = copies[c]
      BY <1>1
    <3> QED
      BY <1>0, <2>4, <3>1, <3>2, <3>3, LandingStays
  <2>5. ASSUME NEW r \in Run, Through(r, c), Landed(r, c)
        PROVE  Landed(r, c)'
    <3>1. PICK j \in DOMAIN toReader :
            /\ toReader[j].run = r /\ toReader[j].kind = "ok"
            /\ copies[c].version # version[copies[c].handle]
            /\ copies[c].baseline = hist[copies[c].handle][toReader[j].version]
      BY <2>5 DEF Landed
    <3>2. j \in DOMAIN toReader' /\ toReader'[j] = toReader[j] /\ copies'[c] = copies[c]
      BY <1>1, <1>3
    <3> QED
      BY <1>0, <2>5, <3>1, <3>2, LandedStays
  <2>6. /\ \A r \in Run : Through(r, c)' <=> Through(r, c)
        /\ \A r \in Run : AboutTo(r, c) => AboutTo(r, c)'
    BY <1>1 DEF Through, AboutTo
  <2>7. Grows /\ copies'[c] = copies[c]
    BY <1>1 DEF Moves
  <2> QED
    BY <1>0, <1>6, <2>1, <2>2, <2>3, <2>4, <2>5, <2>6, <2>7, SyncedStays
<1>7. CacheSynced'
  <2>1. \A g \in Handle : cached'[g] \in {0, cached[g]}
    BY <1>1
  <2> QED
    BY <1>0, <1>1, <1>6, <2>1, CacheSyncedStays DEF CInv
<1> QED
  BY <1>7 DEF CInv

\* The owner's answer to a dereference keeps the cache in sync.
LEMMA ServeDerefCInv ==
  ASSUME CInv, ServeDeref
  PROVE  CInv'
<1>0. SInv /\ SInv' /\ TypeOK /\ TypeOK' /\ FlightPlaced
  BY ServeDerefSInv DEF CInv, SInv, TInv, Places
<1>1. /\ UNCHANGED <<version, hist>> /\ Head(toOwner).kind = "deref"
      /\ Head(toOwner) \in Request /\ RequestPlaced(Head(toOwner))
  BY <1>0, ServeDerefEffect
<1>2. PICK reply : Answered(reply)
  BY <1>0, ServeDerefEffect
<1>3. Moves
  <2>1. \A g \in Handle : version[g] # 0 => version[g] = Len(hist[g])
    BY <1>0 DEF TypeOK
  <2> QED
    BY <1>0, <1>1, <2>1, SameGrows DEF Moves
<1>4. PICK h \in Run : h = Head(toOwner).run
  BY <1>1, RequestFields
<1>5. run[h].at = "deref reply"
  BY <1>1, <1>4 DEF RequestPlaced
<1>6. \A c \in 1..Len(copies) : ~Through(h, c)
  BY <1>5 DEF Through
<1>7. Head(toOwner).kind \notin Proposal
  BY <1>1 DEF Proposal
<1> QED
  BY <1>0, <1>2, <1>3, <1>4, <1>6, <1>7, AnsweredCache

\* The write-back at the head of the queue, and what is known of it.
LEMMA HeadProposal ==
  ASSUME SInv, toOwner # <<>>, Head(toOwner).kind \in Proposal
  PROVE  /\ Head(toOwner) \in Request /\ Head(toOwner) = toOwner[1] /\ 1 \in DOMAIN toOwner
         /\ Head(toOwner).run \in Run /\ Head(toOwner).handle \in Handle
         /\ RequestPlaced(Head(toOwner))
         /\ Head(toOwner).version \in 1..Len(hist[Head(toOwner).handle])
<1>0. TypeOK /\ FlightPlaced
  BY DEF SInv, TInv, Places
<1>1. /\ Head(toOwner) \in Request /\ Head(toOwner) = toOwner[1] /\ 1 \in DOMAIN toOwner
      /\ Head(toOwner).run \in Run /\ Head(toOwner).handle \in Handle
      /\ RequestPlaced(Head(toOwner))
  BY <1>0, JudgedPlaced
<1>2. RequestSeen(toOwner[1])
  BY <1>1 DEF SInv, FlightSeen
<1> QED
  BY <1>1, <1>2 DEF RequestSeen, Shown

\* A write-back the owner rejects keeps the cache in sync.
LEMMA ServeRejectedCInv ==
  ASSUME CInv, ServeRejected
  PROVE  CInv'
<1>0. SInv /\ SInv' /\ TypeOK /\ TypeOK' /\ FlightPlaced
  BY ServeRejectedSInv DEF CInv, SInv, TInv, Places
<1>1. /\ UNCHANGED <<version, hist>> /\ toOwner # <<>> /\ Head(toOwner).kind \in Proposal
      /\ version[Head(toOwner).handle] # Head(toOwner).version
           \/ version[Head(toOwner).handle] = 0
  BY <1>0, ServeRejectedEffect
<1>2. PICK reply : Answered(reply) /\ reply.kind \in {"error", "conflict"}
  BY <1>0, ServeRejectedEffect
<1>3. Moves
  <2>1. \A g \in Handle : version[g] # 0 => version[g] = Len(hist[g])
    BY <1>0 DEF TypeOK
  <2> QED
    BY <1>0, <1>1, <2>1, SameGrows DEF Moves
<1>4. Head(toOwner).run \in Run /\ Head(toOwner).version # version'[Head(toOwner).handle]
  BY <1>0, <1>1, HeadProposal
<1>5. PICK h \in Run : h = Head(toOwner).run
  BY <1>4
<1> QED
  BY <1>0, <1>2, <1>3, <1>4, <1>5, AnsweredCache

\* A write-back the owner accepts keeps the cache in sync.
LEMMA ServeAcceptedCInv ==
  ASSUME OneHandle, CInv, ServeAccepted
  PROVE  CInv'
<1>0. /\ SInv /\ SInv' /\ TypeOK /\ TypeOK' /\ FlightPlaced /\ VersionBudget
      /\ OneOutstanding
  BY ServeAcceptedSInv DEF CInv, SInv, TInv, Places
<1>1. toOwner # <<>> /\ Head(toOwner).kind \in Proposal
  BY <1>0, ServeAcceptedEffect
<1>2. PICK q \in Request : q = Head(toOwner)
  BY <1>0, <1>1, HeadProposal
<1>3. /\ q = toOwner[1] /\ 1 \in DOMAIN toOwner /\ q.run \in Run /\ q.handle \in Handle
      /\ RequestPlaced(q) /\ q.version \in 1..Len(hist[q.handle]) /\ q.kind \in Proposal
  BY <1>0, <1>1, <1>2, HeadProposal
<1>4. /\ version[q.handle] # 0 /\ version[q.handle] = q.version
      /\ Advances(q.handle, Outcome(q)) /\ Outcome(q) \in Content /\ Answered(Accepted(q))
  BY <1>0, <1>2, ServeAcceptedEffect
<1>5. PICK m \in Content : m = Outcome(q)
  BY <1>4
<1>6. PICK reply : reply = Accepted(q)
  OBVIOUS
<1>7. /\ Advances(q.handle, m) /\ Answered(reply)
      /\ reply.kind = "ok" /\ reply.run = q.run /\ reply.version = q.version + 1
  BY <1>4, <1>5, <1>6 DEF Accepted
<1>8. /\ version'[q.handle] = q.version + 1 /\ q.version \in Nat
      /\ hist'[q.handle][q.version + 1] = m
  BY <1>0, <1>3, <1>4, <1>7, AdvancesTypes
<1>9. Moves
  BY <1>0, <1>3, <1>4, <1>7, AdvanceMoves
<1>10. PICK h \in Run : h = q.run
  BY <1>3
<1>11. ASSUME NEW c \in 1..Len(copies), Through(h, c), Landing(h, c)
       PROVE  Landed(h, c)'
  <2>1. PICK i \in DOMAIN toOwner :
          /\ toOwner[i].run = h /\ toOwner[i].version = copies[c].version
          /\ Patched(hist[toOwner[i].handle][toOwner[i].version], toOwner[i])
               = copies[c].baseline
    BY <1>11 DEF Landing
  <2>2. i = 1
    BY <1>0, <1>3, <1>10, <2>1 DEF OneOutstanding
  <2>3. /\ q.version = copies[c].version
        /\ Patched(hist[q.handle][q.version], q) = copies[c].baseline
    BY <1>3, <2>1, <2>2
  <2>4. q.kind = "apply" /\ q.handle = copies[c].handle
    BY <1>0, <1>3, <1>10, <1>11, ThroughFacts
  <2>5. hist[q.handle][q.version] = object[objs[q.handle]]
    BY <1>0, <1>3, <1>4 DEF SInv, Current
  <2>6. m = copies[c].baseline
    BY <1>5, <2>3, <2>4, <2>5 DEF Outcome
  <2>7. UNCHANGED copies
    BY <1>7 DEF Answered
  <2>8. Len(toReader) + 1 \in DOMAIN toReader' /\ toReader'[Len(toReader) + 1] = reply
    BY <1>0, <1>7, AnsweredQueues
  <2>9. copies[c].version # version'[copies[c].handle]
    BY <1>8, <2>3, <2>4
  <2>10. copies[c].baseline = hist'[copies[c].handle][reply.version]
    BY <1>7, <1>8, <2>4, <2>6
  <2> QED
    BY <1>7, <1>10, <2>7, <2>8, <2>9, <2>10 DEF Landed
<1>12. ~Stale(Head(toOwner))
  BY <1>2, <1>4 DEF Stale
<1>13. Head(toOwner).version # version'[Head(toOwner).handle]
  BY <1>2, <1>8
<1> QED
  BY <1>0, <1>2, <1>7, <1>9, <1>10, <1>11, <1>12, <1>13, AnsweredCache

-----------------------------------------------------------------------------
(* The reader's steps.                                                     *)

\* A step of run r leaves the requests and replies of the others in flight.
QueuesAside(r) ==
  /\ \A i \in DOMAIN toOwner : i \in DOMAIN toOwner' /\ toOwner'[i] = toOwner[i]
  /\ \A j \in DOMAIN toReader : toReader[j].run # r =>
       \E k \in DOMAIN toReader' : toReader'[k] = toReader[j]

\* A run that takes its reply leaves those of the others.
LEMMA ReceivedAside ==
  ASSUME TypeOK, NEW r \in Run, toReader # <<>>, Head(toReader).run = r,
         toReader' = Tail(toReader), UNCHANGED toOwner
  PROVE  QueuesAside(r)
<1>1. toReader \in Seq(Reply)
  BY DEF TypeOK
<1>2. \A j \in DOMAIN toReader :
        j # 1 => j - 1 \in DOMAIN toReader' /\ toReader'[j - 1] = toReader[j]
  BY <1>1
<1>3. Head(toReader) = toReader[1]
  BY <1>1, TailQueue
<1> QED
  BY <1>2, <1>3 DEF QueuesAside

\* A request that is sent takes the last place in the queue.
LEMMA SentAside ==
  ASSUME TypeOK, NEW r \in Run, NEW m \in Request, toOwner' = Append(toOwner, m),
         UNCHANGED toReader
  PROVE  /\ QueuesAside(r)
         /\ Len(toOwner) + 1 \in DOMAIN toOwner' /\ toOwner'[Len(toOwner) + 1] = m
         /\ \A i \in DOMAIN toOwner : i \in Nat /\ i < Len(toOwner) + 1
<1>1. toOwner \in Seq(Request)
  BY DEF TypeOK
<1>2. /\ DOMAIN toOwner' = DOMAIN toOwner \cup {Len(toOwner) + 1}
      /\ toOwner'[Len(toOwner) + 1] = m
      /\ \A i \in DOMAIN toOwner : toOwner'[i] = toOwner[i]
  BY <1>1, AppendQueue
<1>3. \A i \in DOMAIN toOwner : i \in Nat /\ i < Len(toOwner) + 1
  BY <1>1
<1> QED
  BY <1>2, <1>3 DEF QueuesAside

\* The write-backs of the other runs fare as they did.
LEMMA OthersDoomed ==
  ASSUME NEW r \in Run, NEW s \in Run, s # r, QueuesAside(r), UNCHANGED version, Doomed(s)
  PROVE  Doomed(s)'
<1>1. ASSUME NEW i \in DOMAIN toOwner, toOwner[i].run = s, Stale(toOwner[i])
      PROVE  Doomed(s)'
  BY <1>1 DEF Doomed, Stale, QueuesAside
<1>2. ASSUME NEW i \in DOMAIN toOwner, toOwner[i].run = s, Behind(i)
      PROVE  Doomed(s)'
  BY <1>2 DEF Doomed, Behind, QueuesAside
<1>3. CASE Refused(s)
  BY <1>3 DEF Doomed, Refused, QueuesAside
<1> QED
  BY <1>1, <1>2, <1>3 DEF Doomed

\* And those on their way to land, if the copy keeps its version and baseline.
LEMMA OthersFare ==
  ASSUME NEW r \in Run, NEW s \in Run, s # r, QueuesAside(r), UNCHANGED <<version, hist>>,
         NEW c, copies'[c].handle = copies[c].handle, copies'[c].version = copies[c].version,
         copies'[c].baseline = copies[c].baseline
  PROVE  /\ Doomed(s) => Doomed(s)'
         /\ Landing(s, c) => Landing(s, c)'
         /\ Landed(s, c) => Landed(s, c)'
<1>1. Doomed(s) => Doomed(s)'
  BY OthersDoomed
<1>2. ASSUME Landing(s, c)
      PROVE  Landing(s, c)'
  BY <1>2 DEF Landing, Stale, Patched, QueuesAside
<1>3. ASSUME Landed(s, c)
      PROVE  Landed(s, c)'
  BY <1>3 DEF Landed, QueuesAside
<1> QED
  BY <1>1, <1>2, <1>3

\* A copy that run r is not writing through, before or after.
LEMMA CopyAside ==
  ASSUME SInv, NEW r \in Run, Aside(r), QueuesAside(r), UNCHANGED <<version, hist>>,
         NEW c \in 1..Len(copies), copies'[c] = copies[c],
         ~Through(r, c), ~Through(r, c)', AboutTo(r, c) => AboutTo(r, c)', Synced(c)
  PROVE  Synced(c)'
<1>0. TypeOK /\ Grows
  BY SameGrows DEF SInv, TInv
<1>1. \A s \in Run : s # r => run'[s] = run[s]
  BY DEF Aside
<1>2. \A s \in Run : Through(s, c)' <=> Through(s, c)
  BY <1>1 DEF Through
<1>3. \A s \in Run : AboutTo(s, c) => AboutTo(s, c)'
  BY <1>1 DEF AboutTo
<1>4. ASSUME NEW s \in Run, Through(s, c)
      PROVE  /\ Doomed(s) => Doomed(s)'
             /\ Landing(s, c) \/ Landed(s, c) => Landing(s, c)' \/ Landed(s, c)' \/ Doomed(s)'
  BY <1>4, OthersFare
<1> QED
  BY <1>0, <1>2, <1>3, <1>4, SyncedStays

\* A step of run r that touches no copy, and that writes through none.
LEMMA ReaderCache ==
  ASSUME CInv, SInv', NEW r \in Run, Aside(r), QueuesAside(r), UNCHANGED <<version, hist, copies>>,
         \A g \in Handle : cached'[g] \in {0, cached[g]},
         \A c \in 1..Len(copies) : InCache(c)' =>
           ~Through(r, c) /\ ~Through(r, c)' /\ (AboutTo(r, c) => AboutTo(r, c)')
  PROVE  CInv'
<1>0. SInv /\ TypeOK
  BY DEF CInv, SInv, TInv
<1>1. \A c \in 1..Len(copies) : InCache(c) /\ InCache(c)' /\ Synced(c) => Synced(c)'
  BY <1>0, CopyAside
<1>2. CacheSynced'
  BY <1>0, <1>1, CacheSyncedStays DEF CInv
<1> QED
  BY <1>2 DEF CInv

\* The lookup that begins a dereference keeps the cache in sync.
LEMMA DerefLookupCInv ==
  ASSUME CInv, NEW r \in Run, NEW h \in Handle, DerefLookup(r, h)
  PROVE  CInv'
<1>0. SInv /\ SInv' /\ TypeOK
  BY DerefLookupSInv DEF CInv, SInv, TInv
<1>1. /\ UNCHANGED <<version, hist, copies, cached, toOwner, toReader>>
      /\ run[r].at = "nothing"
      /\ run' = [run EXCEPT ![r] = [@ EXCEPT !.at = "deref lookup", !.handle = h,
                                             !.entry = cached[h], !.floor = version[h]]]
  BY DEF DerefLookup, owner, reader
<1>2. run[r] \in RunState /\ run \in [Run -> RunState]
  BY <1>0 DEF TypeOK
<1>3. (\A s \in Run : s # r => run'[s] = run[s]) /\ run'[r].at = "deref lookup"
  BY <1>1, <1>2 DEF RunState
<1>4. Aside(r) /\ QueuesAside(r)
  BY <1>0, <1>1, <1>3, AsideUnchanged DEF QueuesAside
<1>5. \A c \in 1..Len(copies) : ~Through(r, c) /\ ~Through(r, c)' /\ ~AboutTo(r, c)
  BY <1>1, <1>3 DEF Through, AboutTo
<1> QED
  BY <1>0, <1>1, <1>4, <1>5, ReaderCache

\* The request of a dereference keeps the cache in sync.
LEMMA DerefSendCInv ==
  ASSUME CInv, NEW r \in Run, DerefSend(r)
  PROVE  CInv'
<1>0. SInv /\ SInv' /\ TInv /\ TypeOK
  BY DerefSendSInv DEF CInv, SInv, TInv
<1>1. /\ UNCHANGED <<version, hist, copies, cached, toReader>>
      /\ run[r].at = "deref lookup" /\ Aside(r)
      /\ run'[r] = [run[r] EXCEPT !.at = "deref reply"]
  BY <1>0, DerefSendEffect
<1>2. PICK m \in Request : m = DerefRequest(r) /\ toOwner' = Append(toOwner, m)
  BY <1>0, DerefSendEffect
<1>3. run'[r].at = "deref reply"
  BY <1>0, <1>1, RunFields DEF RunState
<1>4. \A c \in 1..Len(copies) : ~Through(r, c) /\ ~Through(r, c)' /\ ~AboutTo(r, c)
  BY <1>1, <1>3 DEF Through, AboutTo
<1>5. QueuesAside(r)
  BY <1>0, <1>1, <1>2, SentAside
<1> QED
  BY <1>0, <1>1, <1>4, <1>5, ReaderCache

\* A run that takes its reply and touches no copy: if it was writing through one, the cache no
\* longer has it.
LEMMA WaitOverCache ==
  ASSUME CInv, SInv', NEW r \in Run, NEW c \in Nat,
         run' = [run EXCEPT ![r] = [@ EXCEPT !.at = "nothing", !.copy = c]],
         run[r].at \in ReplyPoint,
         toReader # <<>>, Head(toReader).run = r, toReader' = Tail(toReader),
         \A g \in Handle : cached'[g] \in {0, cached[g]},
         run[r].at = "apply reply" => \A g \in Handle : cached'[g] # run[r].copy,
         UNCHANGED <<version, hist, copies, toOwner>>
  PROVE  CInv'
<1>0. SInv /\ TypeOK /\ run \in [Run -> RunState] /\ run[r] \in RunState
  BY DEF CInv, SInv, TInv, TypeOK
<1>1. (\A s \in Run : s # r => run'[s] = run[s]) /\ run'[r].at = "nothing"
  BY <1>0 DEF RunState
<1>2. Aside(r) /\ QueuesAside(r)
  BY <1>0, <1>1, AsideUnchanged, ReceivedAside
<1>3. ASSUME NEW d \in 1..Len(copies), InCache(d)'
      PROVE  ~Through(r, d) /\ ~Through(r, d)' /\ ~AboutTo(r, d)
  BY <1>1, <1>3 DEF Through, AboutTo, ReplyPoint, InCache
<1> QED
  BY <1>0, <1>2, <1>3, ReaderCache

\* The answer that the cached entry is current keeps the cache in sync.
LEMMA DerefSameCInv ==
  ASSUME CInv, NEW r \in Run, DerefSame(r)
  PROVE  CInv'
<1>0. SInv /\ SInv' /\ TypeOK
  BY DerefSameSInv DEF CInv, SInv, TInv
<1>1. run[r].entry \in Nat
  BY <1>0, RunFields
<1>2. /\ UNCHANGED <<version, hist, toOwner, copies, cached>>
      /\ toReader # <<>> /\ Head(toReader).run = r /\ toReader' = Tail(toReader)
      /\ run' = [run EXCEPT ![r] = [@ EXCEPT !.at = "nothing", !.copy = run[r].entry]]
  BY ReplyToEffect DEF DerefSame, reader
<1>4. run[r].at \in ReplyPoint /\ run[r].at # "apply reply"
  BY DEF DerefSame, ReplyTo, ReplyPoint
<1> QED
  BY <1>0, <1>1, <1>2, <1>4, WaitOverCache

\* The answer that the handle was released keeps the cache in sync.
LEMMA DerefErrorCInv ==
  ASSUME CInv, NEW r \in Run, DerefError(r)
  PROVE  CInv'
<1>0. SInv /\ SInv' /\ TypeOK
  BY DerefErrorSInv DEF CInv, SInv, TInv
<1>1. run[r].copy \in Nat
  BY <1>0, RunFields
<1>2. /\ UNCHANGED <<version, hist, toOwner, copies, cached>>
      /\ toReader # <<>> /\ Head(toReader).run = r /\ toReader' = Tail(toReader)
      /\ run' = [run EXCEPT ![r].at = "nothing"]
  BY ReplyToEffect DEF DerefError, reader
<1>4. run[r].at \in ReplyPoint /\ run[r].at # "apply reply"
  BY DEF DerefError, ReplyTo, ReplyPoint
<1>3. run' = [run EXCEPT ![r] = [@ EXCEPT !.at = "nothing", !.copy = run[r].copy]]
  BY <1>0, <1>2, SameRecord
<1> QED
  BY <1>0, <1>1, <1>2, <1>4, <1>3, WaitOverCache

\* The entry that a rejected write-back went through is dropped.
LEMMA WriteRejectedCInv ==
  ASSUME CInv, NEW r \in Run, WriteRejected(r)
  PROVE  CInv'
<1>0. SInv /\ SInv' /\ TypeOK /\ CacheNames /\ TInv /\ RunsPlaced
  BY WriteRejectedSInv DEF CInv, SInv, TInv, Places
<1>1. run[r].copy \in Nat
  BY <1>0, RunFields
<1>2. /\ UNCHANGED <<version, hist, toOwner, copies>>
      /\ toReader # <<>> /\ Head(toReader).run = r /\ toReader' = Tail(toReader)
      /\ run[r].at \in {"apply reply", "replace reply"}
      /\ run' = [run EXCEPT ![r].at = "nothing"]
  BY ReplyToEffect DEF WriteRejected
<1>3. run' = [run EXCEPT ![r] = [@ EXCEPT !.at = "nothing", !.copy = run[r].copy]]
  BY <1>0, <1>2, SameRecord
<1>4. \A g \in Handle : cached'[g] \in {0, cached[g]}
  BY <1>0 DEF WriteRejected, EntryDropped, TypeOK
<1>5. ASSUME run[r].at = "apply reply", NEW g \in Handle
      PROVE  cached'[g] # run[r].copy
  <2>1. run[r].copy # 0
    BY <1>0, <1>5 DEF RunsPlaced, RunPlaced, WritePoint
  <2>2. cached' = [cached EXCEPT ![copies[run[r].copy].handle] = 0]
    BY <1>5 DEF WriteRejected, EntryDropped
  <2>3. cached[g] = run[r].copy => copies[run[r].copy].handle = g
    BY <1>0, <2>1 DEF CacheNames
  <2>4. cached \in [Handle -> Nat]
    BY <1>0 DEF TypeOK
  <2> QED
    BY <2>1, <2>2, <2>3, <2>4
<1>6. run[r].at \in ReplyPoint
  BY <1>2 DEF ReplyPoint
<1> QED
  BY <1>0, <1>1, <1>2, <1>3, <1>4, <1>5, <1>6, WaitOverCache

\* The whole object goes out for a copy that the cache no longer has.
LEMMA WriteReplaceCInv ==
  ASSUME CInv, NEW r \in Run, WriteReplace(r)
  PROVE  CInv'
<1>0. SInv /\ SInv' /\ TInv /\ TypeOK /\ RunsPlaced /\ CacheNames
  BY WriteReplaceSInv DEF CInv, SInv, TInv, Places
<1>1. /\ UNCHANGED <<version, hist, copies, cached, toReader>>
      /\ run[r].at = "write lookup" /\ run[r].entry # run[r].copy /\ run[r].copy # 0 /\ Aside(r)
      /\ run'[r] = [run[r] EXCEPT !.at = "replace reply"]
  BY <1>0, WriteReplaceEffect
<1>2. PICK m \in Request : m = Proposed(r, "replace", Slot) /\ toOwner' = Append(toOwner, m)
  BY <1>0, WriteReplaceEffect
<1>3. run'[r].at = "replace reply"
  BY <1>0, <1>1, RunFields DEF RunState
<1>4. QueuesAside(r)
  BY <1>0, <1>1, <1>2, SentAside
<1>5. \A g \in Handle : cached[g] # run[r].copy
  BY <1>0, <1>1 DEF RunsPlaced, RunPlaced, CacheNames, WritePoint
<1>6. \A c \in 1..Len(copies) : InCache(c)' =>
        ~Through(r, c) /\ ~Through(r, c)' /\ ~AboutTo(r, c)
  BY <1>1, <1>3, <1>5 DEF Through, AboutTo, InCache
<1> QED
  BY <1>0, <1>1, <1>4, <1>6, ReaderCache

\* The run that writes in the copy is about to write it back.
LEMMA WriteLookupCInv ==
  ASSUME CInv, NEW r \in Run, NEW k \in Slot, WriteLookup(r, k)
  PROVE  CInv'
<1>0. SInv /\ SInv' /\ TInv /\ TypeOK
  BY WriteLookupSInv DEF CInv, SInv, TInv
<1>1. /\ UNCHANGED <<version, hist, cached, toOwner, toReader>>
      /\ run[r].at = "nothing" /\ run[r].copy # 0 /\ Aside(r)
      /\ run'[r] = [run[r] EXCEPT !.at = "write lookup", !.entry = cached[Held(r).handle]]
      /\ copies' = [copies EXCEPT ![run[r].copy] = Written(Held(r), k, writes')]
      /\ Written(Held(r), k, writes') \in Copy
  BY <1>0, WriteLookupEffect
<1>2. run[r].copy \in 1..Len(copies) /\ Held(r) \in Copy
  BY <1>0, <1>1, HeldFields
<1>3. /\ Len(copies') = Len(copies) /\ copies'[run[r].copy] = Written(Held(r), k, writes')
      /\ \A d \in 1..Len(copies) : d # run[r].copy => copies'[d] = copies[d]
  BY <1>0, <1>1, <1>2, CopySet
<1>4. run'[r].at = "write lookup" /\ run'[r].copy = run[r].copy
  BY <1>0, <1>1, RunFields DEF RunState
<1>5. QueuesAside(r)
  BY <1>1 DEF QueuesAside
<1>6. \A s \in Run : s # r => run'[s] = run[s]
  BY <1>1 DEF Aside
<1>7. ASSUME NEW c \in 1..Len(copies), Synced(c), c # run[r].copy
      PROVE  Synced(c)'
  BY <1>0, <1>1, <1>3, <1>4, <1>5, <1>7, CopyAside DEF Through, AboutTo
<1>8. ASSUME NEW c \in 1..Len(copies), Synced(c), c = run[r].copy
      PROVE  Synced(c)'
  <2>1. PICK x \in Copy : x = copies[c]
    BY <1>0, CopyFields
  <2>2. PICK y : y = Written(x, k, writes')
    OBVIOUS
  <2>3. /\ y.handle = x.handle /\ y.version = x.version /\ y.entryVersion = x.entryVersion
        /\ y.baseline = x.baseline
    BY <2>2 DEF Written, Copy
  <2>4. copies'[c] = y
    BY <1>3, <1>8, <2>1, <2>2 DEF Held
  <2>5. AboutTo(r, c)'
    BY <1>4, <1>8 DEF AboutTo
  <2>6. \A s \in Run : Through(s, c)' <=> Through(s, c)
    BY <1>1, <1>4, <1>6 DEF Through
  <2>7. ~Through(r, c)
    BY <1>1 DEF Through
  <2>8. \A s \in Run : Through(s, c) => /\ Doomed(s) => Doomed(s)'
                                        /\ Landing(s, c) => Landing(s, c)'
                                        /\ Landed(s, c) => Landed(s, c)'
    BY <1>1, <1>5, <2>1, <2>3, <2>4, <2>7, OthersFare
  <2>9. AtRest(c) => AtRest(c)'
    BY <1>1, <2>1, <2>3, <2>4, <2>6 DEF AtRest
  <2>10. CASE \E s \in Run : Through(s, c) /\ Doomed(s)
    BY <2>6, <2>8, <2>10 DEF Synced
  <2>11. CASE Settled(c)
    <3>1. AtRest(c)' \/ \E s \in Run : /\ Through(s, c)'
                                       /\ Landing(s, c)' \/ Landed(s, c)'
                                       /\ \A t \in Run : Through(t, c)' => t = s
      BY <2>6, <2>8, <2>9, <2>11 DEF Settled
    <3> QED
      BY <2>5, <3>1 DEF Synced, Settled
  <2> QED
    BY <1>8, <2>10, <2>11 DEF Synced
<1>9. CacheSynced'
  BY <1>0, <1>1, <1>3, <1>7, <1>8, CacheSyncedStays DEF CInv
<1> QED
  BY <1>0, <1>9 DEF CInv

\* A fetched copy is what the master was at its version; a copy it takes the place of goes.
LEMMA DerefFetchedCInv ==
  ASSUME CInv, NEW r \in Run, DerefFetched(r)
  PROVE  CInv'
<1>0. SInv /\ SInv' /\ TInv /\ TypeOK
  BY DerefFetchedSInv DEF CInv, SInv, TInv
<1>1. PICK p \in Reply : p = Head(toReader)
  BY <1>0, DerefFetchedEffect
<1>2. PICK n \in Nat : n = Len(copies) + 1
  BY <1>0, CopyFields
<1>3. /\ UNCHANGED <<version, hist, toOwner>>
      /\ toReader # <<>> /\ toReader' = Tail(toReader) /\ p.run = r /\ p.kind = "fetched"
      /\ run[r].at = "deref reply"
      /\ Len(copies') = n /\ copies'[n] = Fetched(r, p)
      /\ \A d \in 1..Len(copies) : copies'[d] = copies[d]
      /\ run'[r] = [run[r] EXCEPT !.at = "nothing", !.copy = n]
      /\ cached'[run[r].handle] \in {0, n}
      /\ \A g \in Handle : g # run[r].handle => cached'[g] = cached[g]
      /\ Aside(r)
  BY <1>0, <1>1, <1>2, DerefFetchedEffect
<1>4. run'[r].at = "nothing" /\ run'[r].copy = n
  BY <1>0, <1>3, RunFields DEF RunState
<1>5. \A s \in Run : s # r => run'[s] = run[s]
  BY <1>3 DEF Aside
<1>6. QueuesAside(r)
  BY <1>0, <1>1, <1>3, ReceivedAside
<1>7. ASSUME NEW c \in 1..Len(copies), InCache(c)'
      PROVE  Synced(c)'
  <2>1. InCache(c)
    <3>1. PICK g \in Handle : cached'[g] = c
      BY <1>7 DEF InCache
    <3>2. c # 0 /\ c # n
      BY <1>0, <1>2, CopyFields
    <3>3. cached[g] = c
      BY <1>3, <3>1, <3>2
    <3> QED
      BY <3>3 DEF InCache
  <2>2. Synced(c)
    BY <2>1 DEF CInv, CacheSynced
  <2>3. ~Through(r, c) /\ ~Through(r, c)' /\ ~AboutTo(r, c)
    BY <1>3, <1>4 DEF Through, AboutTo
  <2> QED
    BY <1>0, <1>3, <1>6, <2>2, <2>3, CopyAside
<1>8. Synced(n)'
  <2>1. ReplySeen(p)
    <3>1. toReader \in Seq(Reply)
      BY <1>0 DEF TypeOK
    <3>2. 1 \in DOMAIN toReader /\ Head(toReader) = toReader[1]
      BY <1>3, <3>1, TailQueue
    <3> QED
      BY <1>0, <1>1, <3>2 DEF SInv, FlightSeen
  <2>2. p.content = hist[run[r].handle][p.version]
    BY <1>3, <2>1 DEF ReplySeen
  <2>3. ASSUME NEW s \in Run
        PROVE  ~Through(s, n)'
    <3>1. CASE s = r
      BY <1>4, <3>1 DEF Through
    <3>2. CASE s # r
      <4>1. run[s].copy <= Len(copies) /\ Len(copies) \in Nat /\ run[s].copy \in Nat
        BY <1>0, RunFields, CopyFields DEF TInv, Places, RunsPlaced, RunPlaced
      <4>2. run[s].copy # n
        BY <1>2, <4>1
      <4> QED
        BY <1>5, <3>2, <4>2 DEF Through
    <3> QED
      BY <3>1, <3>2
  <2>4. PICK x : x = Fetched(r, p)
    OBVIOUS
  <2>5. /\ x.handle = run[r].handle /\ x.version = p.version /\ x.entryVersion = p.version
        /\ x.content = p.content /\ x.baseline = p.content
    BY <2>4 DEF Fetched
  <2>6. copies'[n] = x
    BY <1>3, <2>4
  <2>7. AtRest(n)'
    BY <1>3, <2>2, <2>3, <2>5, <2>6 DEF AtRest
  <2> QED
    BY <2>5, <2>6, <2>7 DEF Synced, Settled
<1>9. \A c \in 1..Len(copies') : c \in 1..Len(copies) \/ c = n
  <2>1. PICK l \in Nat : l = Len(copies)
    BY <1>0, CopyFields
  <2>2. n = l + 1 /\ Len(copies') = l + 1
    BY <1>2, <1>3, <2>1
  <2>3. \A c \in 1..(l + 1) : c \in 1..l \/ c = l + 1
    OBVIOUS
  <2> QED
    BY <2>1, <2>2, <2>3
<1>10. CacheSynced'
  BY <1>7, <1>8, <1>9 DEF CacheSynced
<1> QED
  BY <1>0, <1>10 DEF CInv

\* The delta that is sent, or the whole, makes of the old baseline the new one.
LEMMA DeltaPatches ==
  ASSUME TInv, NEW r \in Run, run[r].copy \in 1..Len(copies),
         NEW slots \in {Changed(run[r].copy), Slot}, NEW m, m = Proposed(r, "apply", slots)
  PROVE  Patched(Held(r).baseline, m) = Held(r).content
<1>1. PICK x \in Copy : x = Held(r)
  BY CopyFields DEF TInv, Held
<1>2. m.slots = slots /\ m.content = x.content
  BY <1>1 DEF Proposed
<1>3. x.content \in [Slot -> Write] /\ x.baseline \in [Slot -> Write]
  BY DEF Copy, Content
<1>4. \A k \in Slot : k \notin slots => x.content[k] = x.baseline[k]
  BY <1>1 DEF Changed, Held
<1>5. Patched(x.baseline, m) = [k \in Slot |-> x.content[k]]
  BY <1>2, <1>4 DEF Patched
<1> QED
  BY <1>1, <1>3, <1>5

\* The baseline is ahead of the master until the write-back lands; one that another run's
\* write-back through the same entry is ahead of, or whose version is not the master's, is
\* doomed.
LEMMA WriteApplyCInv ==
  ASSUME CInv, NEW r \in Run, WriteApply(r)
  PROVE  CInv'
<1>0. SInv /\ SInv' /\ TInv /\ TypeOK
  BY WriteApplySInv DEF CInv, SInv, TInv
<1>1. /\ UNCHANGED <<version, hist, cached, toReader>>
      /\ run[r].at = "write lookup" /\ run[r].copy # 0 /\ Aside(r)
      /\ run'[r] = [run[r] EXCEPT !.at = "apply reply"]
      /\ [Held(r) EXCEPT !.baseline = Held(r).content] \in Copy
      /\ copies' = [copies EXCEPT ![run[r].copy] = [Held(r) EXCEPT !.baseline = Held(r).content]]
  BY <1>0, WriteApplyEffect
<1>2. PICK slots \in {Changed(run[r].copy), Slot} : \E m \in Request :
         /\ m = Proposed(r, "apply", slots) /\ RequestPlaced(m)'
         /\ toOwner' = Append(toOwner, m)
  BY <1>0, WriteApplyEffect
<1>3. PICK m \in Request : m = Proposed(r, "apply", slots) /\ toOwner' = Append(toOwner, m)
  BY <1>2
<1>4. PICK c \in 1..Len(copies) : c = run[r].copy
  BY <1>0, <1>1, HeldFields
<1>5. PICK x \in Copy : x = copies[c]
  BY <1>0, CopyFields
<1>6. x = Held(r)
  BY <1>4, <1>5 DEF Held
<1>7. PICK y \in Copy : y = [x EXCEPT !.baseline = x.content]
  BY <1>1, <1>6
<1>8. /\ y.handle = x.handle /\ y.version = x.version /\ y.entryVersion = x.entryVersion
      /\ y.content = x.content /\ y.baseline = x.content
  BY <1>7 DEF Copy
<1>9. /\ Len(copies') = Len(copies) /\ copies'[c] = y
      /\ \A d \in 1..Len(copies) : d # c => copies'[d] = copies[d]
  <2>1. copies' = [copies EXCEPT ![c] = y]
    BY <1>1, <1>4, <1>6, <1>7
  <2> QED
    BY <1>0, <2>1, CopySet
<1>10. run'[r].at = "apply reply" /\ run'[r].copy = c
  BY <1>0, <1>1, <1>4, RunFields DEF RunState
<1>11. \A s \in Run : s # r => run'[s] = run[s]
  BY <1>1 DEF Aside
<1>12. PICK n : n = Len(toOwner) + 1
  OBVIOUS
<1>13. /\ QueuesAside(r) /\ n \in DOMAIN toOwner' /\ toOwner'[n] = m
       /\ \A i \in DOMAIN toOwner : i \in Nat /\ i < n
  BY <1>0, <1>1, <1>3, <1>12, SentAside
<1>14. /\ m.kind = "apply" /\ m.run = r /\ m.handle = x.handle /\ m.version = x.version
  BY <1>3, <1>6 DEF Proposed
<1>15. ASSUME NEW d \in 1..Len(copies), Synced(d), d # c
       PROVE  Synced(d)'
  <2>1. ~Through(r, d) /\ ~Through(r, d)' /\ ~AboutTo(r, d)
    BY <1>4, <1>10, <1>15 DEF Through, AboutTo
  <2> QED
    BY <1>0, <1>1, <1>9, <1>13, <1>15, <2>1, CopyAside
<1>16. Through(r, c)' /\ ~Through(r, c)
  BY <1>1, <1>10 DEF Through
<1>17. ASSUME m.version # version[m.handle]
       PROVE  Doomed(r)'
  BY <1>1, <1>13, <1>14, <1>17 DEF Doomed, Stale
<1>18. ASSUME Synced(c)
       PROVE  Synced(c)'
  <2>1. CASE \E s \in Run : Through(s, c) /\ Doomed(s)
    <3>1. PICK s \in Run : Through(s, c) /\ Doomed(s)
      BY <2>1
    <3>2. s # r /\ Through(s, c)'
      BY <1>11, <1>16, <3>1 DEF Through
    <3>3. Doomed(s)'
      BY <1>1, <1>13, <3>1, <3>2, OthersDoomed
    <3> QED
      BY <3>2, <3>3 DEF Synced
  <2>2. CASE AtRest(c)
    <3>1. CASE m.version = version[m.handle]
      <4>1. hist[m.handle][m.version] = x.baseline
        BY <1>5, <1>14, <2>2 DEF AtRest
      <4>2. Patched(x.baseline, m) = x.content
        BY <1>0, <1>3, <1>4, <1>6, DeltaPatches
      <4>3. Landing(r, c)'
        <5>1. Patched(hist[m.handle][m.version], m) = y.baseline
          BY <1>8, <4>1, <4>2
        <5>2. ~(m.version # version'[m.handle])
          BY <1>1, <3>1
        <5>3. PICK k \in DOMAIN toOwner' : toOwner'[k] = m
          BY <1>13
        <5>4. /\ toOwner'[k].run = r /\ toOwner'[k].version = copies'[c].version
              /\ toOwner'[k].version = version'[toOwner'[k].handle]
          BY <1>8, <1>9, <1>14, <5>2, <5>3
        <5>5. Patched(hist'[toOwner'[k].handle][toOwner'[k].version], toOwner'[k])
                = copies'[c].baseline
          BY <1>1, <1>9, <5>1, <5>3
        <5> QED
          BY <5>4, <5>5 DEF Landing, Stale, Patched
      <4>4. \A s \in Run : Through(s, c)' => s = r
        BY <1>11, <2>2 DEF AtRest, Through
      <4>5. copies'[c].content = copies'[c].baseline
        BY <1>8, <1>9
      <4> QED
        BY <1>16, <4>3, <4>4, <4>5 DEF Synced, Settled
    <3>2. CASE m.version # version[m.handle]
      BY <1>16, <1>17, <3>2 DEF Synced
    <3> QED
      BY <3>1, <3>2
  <2>3. CASE \E s \in Run : Through(s, c) /\ (Landing(s, c) \/ Landed(s, c))
    <3>1. PICK s \in Run : Through(s, c) /\ (Landing(s, c) \/ Landed(s, c))
      BY <2>3
    <3>2. CASE Landing(s, c)
      <4>1. PICK i \in DOMAIN toOwner : toOwner[i].run = s /\ toOwner[i].version = x.version
        BY <1>5, <3>2 DEF Landing
      <4>2. toOwner[i].kind \in Proposal /\ toOwner[i].handle = x.handle
        BY <1>0, <1>5, <3>1, <4>1, ThroughFacts DEF Proposal
      <4>3. i \in DOMAIN toOwner' /\ toOwner'[i] = toOwner[i] /\ i < n
        BY <1>13 DEF QueuesAside
      <4>4. Behind(n)'
        BY <1>12, <1>13, <1>14, <4>1, <4>2, <4>3 DEF Behind
      <4>5. Doomed(r)'
        BY <1>13, <1>14, <4>4 DEF Doomed
      <4> QED
        BY <1>16, <4>5 DEF Synced
    <3>3. CASE Landed(s, c)
      <4>1. m.version # version[m.handle]
        BY <1>5, <1>14, <3>3 DEF Landed
      <4> QED
        BY <1>16, <1>17, <4>1 DEF Synced
    <3> QED
      BY <3>1, <3>2, <3>3
  <2> QED
    BY <1>18, <2>1, <2>2, <2>3 DEF Synced, Settled
<1>19. CacheSynced'
  BY <1>0, <1>1, <1>9, <1>15, <1>18, CacheSyncedStays DEF CInv
<1> QED
  BY <1>0, <1>19 DEF CInv

\* The write-back that landed is acknowledged: the entry is at the version it made.
LEMMA WriteOkCInv ==
  ASSUME CInv, NEW r \in Run, WriteApplied(r) \/ WriteReplaced(r)
  PROVE  CInv'
<1>0. SInv /\ SInv' /\ TInv /\ TypeOK /\ RunsPlaced /\ CacheNames /\ OneOutstanding
  BY WriteOkSInv DEF CInv, SInv, TInv, Places
<1>1. PICK p \in Reply : p = Head(toReader)
  BY <1>0, WriteOkEffect
<1>2. /\ UNCHANGED <<version, hist, cached, toOwner>>
      /\ toReader # <<>> /\ toReader' = Tail(toReader) /\ p.run = r /\ p.kind = "ok"
      /\ run[r].copy # 0 /\ Aside(r) /\ run'[r] = [run[r] EXCEPT !.at = "nothing"]
  BY <1>0, <1>1, WriteOkEffect
<1>3. PICK y \in Copy :
        /\ \/ run[r].at = "apply reply" /\ y = AppliedCopy(r, p.version)
           \/ run[r].at = "replace reply" /\ y = ReplacedCopy(r, p.version)
        /\ copies' = [copies EXCEPT ![run[r].copy] = y]
  BY <1>0, <1>1, WriteOkEffect
<1>4. PICK c \in 1..Len(copies) : c = run[r].copy
  BY <1>0, <1>2, HeldFields
<1>5. PICK x \in Copy : x = copies[c]
  BY <1>0, CopyFields
<1>6. /\ Len(copies') = Len(copies) /\ copies'[c] = y
      /\ \A d \in 1..Len(copies) : d # c => copies'[d] = copies[d]
  <2>1. copies' = [copies EXCEPT ![c] = y]
    BY <1>3, <1>4
  <2> QED
    BY <1>0, <2>1, CopySet
<1>7. run'[r].at = "nothing"
  BY <1>0, <1>2, RunFields DEF RunState
<1>8. \A s \in Run : s # r => run'[s] = run[s]
  BY <1>2 DEF Aside
<1>9. QueuesAside(r)
  BY <1>0, <1>1, <1>2, ReceivedAside
<1>10. ASSUME NEW d \in 1..Len(copies), Synced(d), d # c
       PROVE  Synced(d)'
  <2>1. ~Through(r, d) /\ ~Through(r, d)' /\ ~AboutTo(r, d)
    BY <1>4, <1>7, <1>10 DEF Through, AboutTo
  <2> QED
    BY <1>0, <1>2, <1>6, <1>9, <1>10, <2>1, CopyAside
<1>11. ASSUME InCache(c)
       PROVE  run[r].at = "apply reply"
  <2>1. ASSUME run[r].at = "replace reply"
        PROVE  \A g \in Handle : cached[g] # c
    <3>1. cached[copies[c].handle] # c
      BY <1>0, <1>4, <2>1 DEF RunsPlaced, RunPlaced, WritePoint
    <3>2. \A g \in Handle : cached[g] = c => copies[c].handle = g
      BY <1>0, <1>2, <1>4 DEF CacheNames
    <3> QED
      BY <3>1, <3>2
  <2> QED
    BY <1>3, <1>11, <2>1 DEF InCache
<1>12. ASSUME InCache(c), Synced(c)
       PROVE  Synced(c)'
  <2>1. run[r].at = "apply reply" /\ Through(r, c)
    BY <1>4, <1>11, <1>12 DEF Through
  <2>2. /\ y.handle = x.handle /\ y.version = p.version /\ y.entryVersion = p.version
        /\ y.content = x.content /\ y.baseline = x.baseline
    <3>1. y = [x EXCEPT !.version = p.version, !.entryVersion = p.version]
      BY <1>3, <1>4, <1>5, <2>1 DEF AppliedCopy, Held
    <3> QED
      BY <3>1 DEF Copy
  <2>3. /\ 1 \in DOMAIN toReader /\ toReader[1] = p
        /\ \A i \in DOMAIN toOwner : toOwner[i].run # r
        /\ \A j \in DOMAIN toReader : toReader[j].run = r => j = 1
    <3>1. 1 \in DOMAIN toReader /\ toReader[1] = p
      BY <1>0, <1>1, <1>2, TailQueue DEF TypeOK
    <3> QED
      BY <1>0, <1>2, <3>1 DEF OneOutstanding
  <2>4. ~Doomed(r) /\ ~Landing(r, c)
    BY <1>2, <2>3 DEF Doomed, Refused, Landing
  <2>5. CASE \E s \in Run : Through(s, c) /\ Doomed(s)
    <3>1. PICK s \in Run : Through(s, c) /\ Doomed(s)
      BY <2>5
    <3>2. s # r /\ Through(s, c)'
      BY <1>8, <2>4, <3>1 DEF Through
    <3>3. Doomed(s)'
      BY <1>2, <1>9, <3>1, <3>2, OthersDoomed
    <3> QED
      BY <3>2, <3>3 DEF Synced
  <2>6. CASE Settled(c)
    <3>1. copies'[c].content = copies'[c].baseline \/ \E s \in Run : AboutTo(s, c)'
      <4>1. copies[c].content = copies[c].baseline => copies'[c].content = copies'[c].baseline
        BY <1>5, <1>6, <2>2
      <4>2. \A s \in Run : AboutTo(s, c) => AboutTo(s, c)'
        BY <1>8, <2>1 DEF AboutTo
      <4> QED
        BY <2>6, <4>1, <4>2 DEF Settled
    <3>2. Landed(r, c) /\ \A s \in Run : Through(s, c) => s = r
      BY <2>1, <2>4, <2>6 DEF Settled, AtRest
    <3>3. x.baseline = hist[x.handle][p.version]
      BY <1>5, <2>3, <3>2 DEF Landed
    <3>4. \A s \in Run : ~Through(s, c)'
      BY <1>7, <1>8, <3>2 DEF Through
    <3>5. AtRest(c)'
      BY <1>2, <1>6, <2>2, <3>3, <3>4 DEF AtRest
    <3> QED
      BY <3>1, <3>5 DEF Synced, Settled
  <2> QED
    BY <1>12, <2>5, <2>6 DEF Synced
<1>13. \A d \in 1..Len(copies) : InCache(d) /\ Synced(d) => Synced(d)'
  BY <1>10, <1>12
<1>14. CacheSynced'
  BY <1>0, <1>2, <1>6, <1>13, CacheSyncedStays DEF CInv
<1> QED
  BY <1>0, <1>14 DEF CInv

-----------------------------------------------------------------------------
(* The theorem.                                                            *)

\* Every step, and stuttering, keeps the cache in sync.
LEMMA NextCInv == OneHandle /\ CInv /\ [Next]_vars => CInv'
<1> SUFFICES ASSUME OneHandle, CInv, [Next]_vars
             PROVE  CInv'
  OBVIOUS
<1>1. ASSUME NEW h \in Handle, OwnerDeref(h) \/ Release(h) \/ Evict(h) PROVE CInv'
  BY <1>1, OwnerDerefCInv, ReleaseCInv, EvictCInv
<1>2. ASSUME NEW k \in Slot, OwnerWrite(k) PROVE CInv'
  BY <1>2, OwnerWriteCInv
<1>3. CASE ServeDeref \/ ServeRejected \/ ServeAccepted
  BY <1>3, ServeDerefCInv, ServeRejectedCInv, ServeAcceptedCInv
<1>4. ASSUME NEW r \in Run, RunStep(r) PROVE CInv'
  <2>1. ASSUME NEW h \in Handle, DerefLookup(r, h) PROVE CInv'
    BY <2>1, DerefLookupCInv
  <2>2. CASE DerefSend(r) \/ DerefSame(r) \/ DerefFetched(r) \/ DerefError(r)
    BY <2>2, DerefSendCInv, DerefSameCInv, DerefFetchedCInv, DerefErrorCInv
  <2>3. ASSUME NEW k \in Slot, WriteLookup(r, k) PROVE CInv'
    BY <2>3, WriteLookupCInv
  <2>4. CASE WriteApply(r) \/ WriteReplace(r) \/ WriteApplied(r) \/ WriteReplaced(r)
               \/ WriteRejected(r)
    BY <2>4, WriteApplyCInv, WriteReplaceCInv, WriteOkCInv, WriteRejectedCInv
  <2> QED
    BY <1>4, <2>1, <2>2, <2>3, <2>4 DEF RunStep
<1>5. CASE UNCHANGED vars
  <2>1. SInv /\ SInv' /\ TypeOK /\ TypeOK'
    BY <1>5, NextSInv DEF CInv, SInv, TInv
  <2>2. UNCHANGED <<version, hist, copies, cached, run, toOwner, toReader>>
    BY <1>5 DEF vars
  <2>3. Moves
    <3>1. \A g \in Handle : version[g] # 0 => version[g] = Len(hist[g])
      BY <2>1 DEF TypeOK
    <3> QED
      BY <2>1, <2>2, <3>1, SameGrows DEF Moves
  <2> QED
    BY <2>1, <2>2, <2>3, OwnerStepCache
<1> QED
  BY <1>1, <1>2, <1>3, <1>4, <1>5 DEF Next

\* The reader's cache is coherent (coherence.mts): an entry that nobody writes through is what
\* the master was at the entry's version, for any number of runs, slots, copies and writes.
THEOREM CacheIsCoherent == OneHandle => (Spec => []CacheCoherent)
<1> SUFFICES ASSUME OneHandle
             PROVE  Spec => []CacheCoherent
  OBVIOUS
<1>1. Init => CInv
  BY InitCInv
<1>2. CInv /\ [Next]_vars => CInv'
  BY NextCInv
<1>3. CInv => CacheCoherent
  BY SyncedIsCoherent
<1> QED
  BY <1>1, <1>2, <1>3, PTL DEF Spec

-----------------------------------------------------------------------------
(* What a dereference returns.                                             *)

\* The one handle, all that it has stood for, and the writes that the master has had.
TheHandle == CHOOSE h \in Handle : TRUE
Past == hist[TheHandle]
Had == Taken(TheHandle)

\* The messages in flight, whatever their place in the queue.
Asked == {toOwner[i] : i \in DOMAIN toOwner}
Told == {toReader[j] : j \in DOMAIN toReader}

\* The write-backs made through copy c that the owner has still to judge, and its judgements on
\* their way back.
Proposals(c) == {q \in Asked : q.kind \in Proposal /\ run[q.run].copy = c}
Acks(c) == {p \in Told : p.kind = "ok" /\ run[p.run].copy = c}
Refusals(c) ==
  {p \in Told : p.kind \in {"conflict", "error"} /\ run[p.run].copy = c
                  /\ run[p.run].at \in WritePoint}

\* Copy c holds what the master was at version v but for writes the master has never had.
Matches(c, v) == \A k \in Slot : copies[c].content[k] \in {Past[v][k]} \cup (Write \ Had)

\* Writes are numbered as they are made.
Numbered ==
  /\ \A w \in Had : w <= writes
  /\ \A c \in 1..Len(copies), k \in Slot : copies[c].content[k] <= writes
  /\ \A q \in Asked : q.kind \in Proposal => \A k \in Slot : q.content[k] <= writes

\* A write that the master has never had is in one slot of one copy, and in that slot of the
\* write-backs made through it.
PrivateWrite(c, k) ==
  LET w == copies[c].content[k]
  IN  w \notin Had =>
        /\ \A d \in 1..Len(copies), j \in Slot : copies[d].content[j] = w => d = c /\ j = k
        /\ \A q \in Asked : q.kind \in Proposal =>
             \A j \in Slot : q.content[j] = w => run[q.run].copy = c /\ j = k
Private == \A c \in 1..Len(copies), k \in Slot : PrivateWrite(c, k)

\* A copy matches the master at its version, or at the version that an acknowledgement on its
\* way, the only one, will give it.
MatchedCopy(c) ==
  /\ Acks(c) = {} => Matches(c, copies[c].version)
  /\ \A p \in Acks(c) : /\ Matches(c, p.version)
                        /\ copies[c].version < p.version /\ p.version <= Len(Past)
                        /\ Acks(c) = {p}

\* A write-back that the owner would accept is of the copy's version, and what it carries the
\* copy still holds, or has overwritten since.
JudgedCopy(c) ==
  \A q \in Proposals(c) :
    /\ q.kind = "replace" => q.slots = Slot
    /\ q.version = Len(Past) =>
         /\ copies[c].version = q.version
         /\ \A k \in q.slots : copies[c].content[k] \in {q.content[k]} \cup (Write \ Had)

\* A write-back through copy c was rejected, though the run may not know it yet.
Excused(c) == c \in rejected \/ Refusals(c) # {}

\* The master has had slot k of the copy or of its baseline, or it is on its way to the owner.
Owned(c, k, w) == w \in Had \/ \E q \in Proposals(c) : k \in q.slots /\ q.content[k] = w
OwnedCopy(c) ==
  Excused(c) \/ \A k \in Slot : Owned(c, k, copies[c].baseline[k])
OwnedContent(c) ==
  \/ Excused(c)
  \/ \E r \in Run : AboutTo(r, c)
  \/ \A k \in Slot : Owned(c, k, copies[c].content[k])

CopyFresh(c) ==
  /\ copies[c].entryVersion <= copies[c].version
  /\ MatchedCopy(c) /\ JudgedCopy(c) /\ OwnedCopy(c) /\ OwnedContent(c)
CopiesFresh == \A c \in 1..Len(copies) : CopyFresh(c)

\* A dereference names a version that its entry has not gone back from, and so does the answer
\* that the entry is current.
RequestConfirmed(q) ==
  q.kind = "deref" /\ q.have # 0 => q.have <= copies[run[q.run].entry].version
ReplyConfirmed(p) == p.kind = "same" => p.version <= copies[run[p.run].entry].version
Confirmed == (\A q \in Asked : RequestConfirmed(q)) /\ (\A p \in Told : ReplyConfirmed(p))

FInv == SInv /\ Numbered /\ Private /\ CopiesFresh /\ Confirmed

-----------------------------------------------------------------------------
(* The past of the handle, and the messages in flight.                     *)

\* There is no other handle.
LEMMA TheOne == OneHandle => TheHandle \in Handle /\ \A h \in Handle : h = TheHandle
BY HandleAssumption DEF OneHandle, TheHandle

\* Membership of what the master has had.
LEMMA HadMember ==
  \A w : w \in Had <=> \E v \in 1..Len(Past), k \in Slot : w = Past[v][k]
BY DEF Had, Taken, Values, Past

\* The past is a sequence of contents, of writes.
LEMMA PastTyped ==
  ASSUME TypeOK, OneHandle
  PROVE  /\ Past \in Seq(Content) /\ Len(Past) \in Nat
         /\ \A v \in 1..Len(Past) : Past[v] \in Content /\ \A k \in Slot : Past[v][k] \in Write
         /\ Had \subseteq Write
<1>1. Past \in Seq(Content)
  BY TheOne DEF TypeOK, Past
<1>2. Len(Past) \in Nat /\ \A v \in 1..Len(Past) : Past[v] \in Content
  BY <1>1
<1>3. \A v \in 1..Len(Past), k \in Slot : Past[v][k] \in Write
  BY <1>2 DEF Content
<1> QED
  BY <1>1, <1>2, <1>3, HadMember

\* The master takes one more content.
LEMMA PastAdvances ==
  ASSUME TypeOK, OneHandle, NEW h \in Handle, version[h] # 0, NEW x \in Content, Advances(h, x)
  PROVE  /\ Len(Past') = Len(Past) + 1 /\ version[h] = Len(Past)
         /\ Past'[Len(Past) + 1] = x
         /\ \A v \in 1..Len(Past) : Past'[v] = Past[v]
         /\ \A w : w \in Had' <=> w \in Had \/ \E k \in Slot : w = x[k]
<1>1. h = TheHandle /\ Len(Past) \in Nat
  BY TheOne, PastTyped
<1>2. /\ Len(Past') = Len(Past) + 1 /\ version[h] = Len(Past)
      /\ Past'[Len(Past) + 1] = x
      /\ \A v \in 1..Len(Past) : Past'[v] = Past[v]
  BY <1>1, AdvancesTypes DEF Past
<1>3. \A w : w \in Had' <=> \E v \in 1..Len(Past'), k \in Slot : w = Past'[v][k]
  BY DEF Had, Taken, Values, Past
<1>4. 1..Len(Past') = 1..Len(Past) \cup {Len(Past) + 1}
  BY <1>1, <1>2
<1>5. \A w : w \in Had' <=> w \in Had \/ \E k \in Slot : w = x[k]
  BY <1>2, <1>3, <1>4, HadMember
<1> QED
  BY <1>2, <1>5

\* The past stays with the history.
LEMMA PastStays == UNCHANGED hist => UNCHANGED <<Past, Had>>
BY DEF Past, Had, Taken

\* What is in flight, of its run and typed.
LEMMA FlightFields ==
  ASSUME TypeOK, FlightPlaced
  PROVE  /\ \A q \in Asked : q \in Request /\ q.run \in Run /\ RequestPlaced(q)
         /\ \A p \in Told : p \in Reply /\ p.run \in Run /\ ReplyPlaced(p)
BY FlightTyped, RequestFields, ReplyFields DEF Asked, Told, FlightPlaced

\* A run has one message in flight.
LEMMA OneInFlight ==
  ASSUME OneOutstanding
  PROVE  /\ \A q, m \in Asked : q.run = m.run => q = m
         /\ \A p, m \in Told : p.run = m.run => p = m
         /\ \A q \in Asked, p \in Told : q.run # p.run
BY DEF OneOutstanding, Asked, Told

\* A message more.
LEMMA AskedAppends ==
  ASSUME TypeOK, NEW m \in Request, toOwner' = Append(toOwner, m)
  PROVE  Asked' = Asked \cup {m}
<1>1. /\ DOMAIN toOwner' = DOMAIN toOwner \cup {Len(toOwner) + 1}
      /\ toOwner'[Len(toOwner) + 1] = m
      /\ \A k \in DOMAIN toOwner : toOwner'[k] = toOwner[k]
  BY AppendQueue DEF TypeOK
<1> QED
  BY <1>1 DEF Asked

\* The first reply taken.
LEMMA ToldTail ==
  ASSUME TypeOK, OneOutstanding, toReader # <<>>, toReader' = Tail(toReader)
  PROVE  Told' = Told \ {Head(toReader)} /\ Head(toReader) \in Told
<1>1. /\ toReader \in Seq(Reply) /\ 1 \in DOMAIN toReader /\ Head(toReader) = toReader[1]
      /\ \A k \in DOMAIN toReader' : k \in Nat \ {0} /\ k + 1 \in DOMAIN toReader
                                     /\ toReader'[k] = toReader[k + 1]
  BY TailQueue DEF TypeOK
<1>2. \A j \in DOMAIN toReader : j # 1 => j - 1 \in DOMAIN toReader' /\ j = (j - 1) + 1
  BY <1>1
<1>3. \A k \in DOMAIN toReader' : toReader[k + 1] # toReader[1]
  <2> SUFFICES ASSUME NEW k \in DOMAIN toReader', toReader[k + 1] = toReader[1] PROVE FALSE
    OBVIOUS
  <2>1. k + 1 = 1
    BY <1>1 DEF OneOutstanding
  <2> QED
    BY <1>1, <2>1
<1>4. \A p \in Told' : p \in Told /\ p # Head(toReader)
  BY <1>1, <1>3 DEF Told
<1>5. ASSUME NEW j \in DOMAIN toReader, toReader[j] # Head(toReader)
      PROVE  toReader[j] \in Told'
  <2>1. j - 1 \in DOMAIN toReader' /\ toReader'[j - 1] = toReader[j]
    BY <1>1, <1>2, <1>5
  <2> QED
    BY <2>1 DEF Told
<1>6. \A p \in Told : p # Head(toReader) => p \in Told'
  BY <1>5 DEF Told
<1>7. Head(toReader) \in Told
  BY <1>1 DEF Told
<1> QED
  BY <1>4, <1>6, <1>7

\* The first request answered.
LEMMA AskedAnswered ==
  ASSUME TypeOK, OneOutstanding, NEW reply, Answered(reply)
  PROVE  /\ Asked' = Asked \ {Head(toOwner)} /\ Head(toOwner) \in Asked
         /\ Told' = Told \cup {reply}
<1>1. /\ 1 \in DOMAIN toOwner /\ Head(toOwner) = toOwner[1]
      /\ \A i \in DOMAIN toOwner' :
           i \in Nat \ {0} /\ i + 1 \in DOMAIN toOwner /\ toOwner'[i] = toOwner[i + 1]
      /\ DOMAIN toReader' = DOMAIN toReader \cup {Len(toReader) + 1}
      /\ toReader'[Len(toReader) + 1] = reply
      /\ \A j \in DOMAIN toReader : toReader'[j] = toReader[j]
  BY AnsweredQueues
<1>2. toOwner \in Seq(Request) /\ toOwner' = Tail(toOwner) /\ toOwner # <<>>
  BY DEF TypeOK, Answered
<1>3. \A j \in DOMAIN toOwner : j # 1 => j - 1 \in DOMAIN toOwner' /\ j = (j - 1) + 1
  BY <1>2
<1>4. \A k \in DOMAIN toOwner' : toOwner[k + 1] # toOwner[1]
  <2> SUFFICES ASSUME NEW k \in DOMAIN toOwner', toOwner[k + 1] = toOwner[1] PROVE FALSE
    OBVIOUS
  <2>1. k + 1 = 1
    BY <1>1 DEF OneOutstanding
  <2> QED
    BY <1>1, <2>1
<1>5. \A q \in Asked' : q \in Asked /\ q # Head(toOwner)
  BY <1>1, <1>4 DEF Asked
<1>6. ASSUME NEW j \in DOMAIN toOwner, toOwner[j] # Head(toOwner)
      PROVE  toOwner[j] \in Asked'
  <2>1. j - 1 \in DOMAIN toOwner' /\ toOwner'[j - 1] = toOwner[j]
    BY <1>1, <1>3, <1>6
  <2> QED
    BY <2>1 DEF Asked
<1>7. Asked' = Asked \ {Head(toOwner)} /\ Head(toOwner) \in Asked
  <2>1. \A q \in Asked : q # Head(toOwner) => q \in Asked'
    BY <1>6 DEF Asked
  <2>2. Head(toOwner) \in Asked
    BY <1>1 DEF Asked
  <2> QED
    BY <1>5, <2>1, <2>2
<1>8. Told' = Told \cup {reply}
  BY <1>1 DEF Told
<1> QED
  BY <1>7, <1>8

\* A step of a run with nothing in flight, which sends nothing.
LEMMA QuietFlight ==
  ASSUME TInv, NEW r \in Run, run[r].at \notin ReplyPoint, UNCHANGED <<toOwner, toReader>>,
         \A s \in Run : s # r => run'[s] = run[s]
  PROVE  /\ Asked' = Asked /\ Told' = Told
         /\ \A c : /\ Proposals(c)' = Proposals(c) /\ Acks(c)' = Acks(c)
                   /\ Refusals(c)' = Refusals(c)
         /\ \A m \in Asked \cup Told : m.run # r /\ run'[m.run] = run[m.run]
<1>1. Asked' = Asked /\ Told' = Told
  BY DEF Asked, Told
<1>2. /\ \A q \in Asked : q.run \in Run /\ q.run # r
      /\ \A p \in Told : p.run \in Run /\ p.run # r
  BY FlightFields, NothingInFlight DEF TInv, Places, Asked, Told
<1> QED
  BY <1>1, <1>2 DEF Proposals, Acks, Refusals

\* A step of a run with nothing in flight, which sends a request.
LEMMA SentFlight ==
  ASSUME TInv, NEW r \in Run, run[r].at \notin ReplyPoint, toReader' = toReader,
         NEW m \in Request, m.run = r, toOwner' = Append(toOwner, m),
         \A s \in Run : s # r => run'[s] = run[s]
  PROVE  /\ Asked' = Asked \cup {m} /\ Told' = Told
         /\ \A c : /\ m.kind \in Proposal /\ run'[r].copy = c =>
                        Proposals(c)' = Proposals(c) \cup {m}
                   /\ m.kind \notin Proposal \/ run'[r].copy # c => Proposals(c)' = Proposals(c)
                   /\ Acks(c)' = Acks(c) /\ Refusals(c)' = Refusals(c)
         /\ \A q \in Asked \cup Told : q.run # r /\ run'[q.run] = run[q.run]
<1>1. Asked' = Asked \cup {m} /\ Told' = Told
  BY AskedAppends DEF Told, TInv
<1>2. /\ \A q \in Asked : q.run \in Run /\ q.run # r
      /\ \A p \in Told : p.run \in Run /\ p.run # r
  BY FlightFields, NothingInFlight DEF TInv, Places, Asked, Told
<1> QED
  BY <1>1, <1>2 DEF Proposals, Acks, Refusals

\* A step of a run that takes the reply it awaits.
LEMMA TakenFlight ==
  ASSUME TInv, NEW r \in Run, toOwner' = toOwner, toReader # <<>>, toReader' = Tail(toReader),
         Head(toReader).run = r, \A s \in Run : s # r => run'[s] = run[s]
  PROVE  /\ Asked' = Asked /\ Told' = Told \ {Head(toReader)} /\ Head(toReader) \in Told
         /\ \A c : /\ Proposals(c)' = Proposals(c)
                   /\ Acks(c)' = Acks(c) \ {Head(toReader)}
                   /\ Refusals(c)' = Refusals(c) \ {Head(toReader)}
         /\ \A q \in Asked \cup Told' : q.run # r /\ run'[q.run] = run[q.run]
<1>1. Asked' = Asked /\ Told' = Told \ {Head(toReader)} /\ Head(toReader) \in Told
  BY ToldTail DEF Asked, TInv, Places
<1>2. /\ \A q \in Asked : q.run \in Run /\ q.run # r
      /\ \A p \in Told' : p.run \in Run /\ p.run # r
  BY <1>1, FlightFields, OneInFlight DEF TInv, Places
<1> QED
  BY <1>1, <1>2 DEF Proposals, Acks, Refusals

\* An answer of the owner's.
LEMMA AnsweredFlight ==
  ASSUME TInv, NEW reply, Answered(reply), NEW c
  PROVE  LET q == Head(toOwner)
         IN  /\ Asked' = Asked \ {q} /\ q \in Asked /\ Told' = Told \cup {reply}
             /\ Proposals(c)' = Proposals(c) \ {q}
             /\ Acks(c)' = Acks(c) \cup {p \in {reply} : p.kind = "ok" /\ run[p.run].copy = c}
             /\ Refusals(c)' = Refusals(c) \cup
                  {p \in {reply} : /\ p.kind \in {"conflict", "error"} /\ run[p.run].copy = c
                                   /\ run[p.run].at \in WritePoint}
             /\ reply.run = q.run
<1>1. /\ Asked' = Asked \ {Head(toOwner)} /\ Head(toOwner) \in Asked
      /\ Told' = Told \cup {reply}
  BY AskedAnswered DEF TInv, Places
<1>2. run' = run /\ reply.run = Head(toOwner).run
  BY DEF Answered
<1> QED
  BY <1>1, <1>2 DEF Proposals, Acks, Refusals

\* The messages about a copy are of runs that write back through it.
LEMMA FlightKinds ==
  ASSUME TInv, NEW c
  PROVE  /\ \A q \in Proposals(c) : /\ q \in Request /\ q.run \in Run /\ run[q.run].copy = c
                                    /\ run[q.run].at \in {"apply reply", "replace reply"}
                                    /\ q.version \in Version /\ q.slots \in SUBSET Slot
                                    /\ q.content \in Content
         /\ \A p \in Acks(c) \cup Refusals(c) :
              /\ p \in Reply /\ p.run \in Run /\ run[p.run].copy = c
              /\ run[p.run].at \in {"apply reply", "replace reply"}
         /\ \A p \in Acks(c) : p.version \in Version
<1>1. /\ \A q \in Asked : q \in Request /\ q.run \in Run /\ RequestPlaced(q)
      /\ \A p \in Told : p \in Reply /\ p.run \in Run /\ ReplyPlaced(p)
  BY FlightFields DEF TInv, Places
<1>2. ASSUME NEW q \in Proposals(c)
      PROVE  /\ q \in Request /\ q.run \in Run /\ run[q.run].copy = c
             /\ run[q.run].at \in {"apply reply", "replace reply"}
             /\ q.version \in Version /\ q.slots \in SUBSET Slot
             /\ q.content \in Content
  <2>1. q \in Asked /\ q.kind \in Proposal /\ run[q.run].copy = c
    BY <1>2 DEF Proposals
  <2> QED
    BY <1>1, <2>1, RequestFields DEF RequestPlaced, Proposal
<1>3. ASSUME NEW p \in Acks(c) \cup Refusals(c)
      PROVE  /\ p \in Reply /\ p.run \in Run /\ run[p.run].copy = c
             /\ run[p.run].at \in {"apply reply", "replace reply"}
             /\ p \in Acks(c) => p.version \in Version
  <2>1. p \in Told /\ run[p.run].copy = c /\ run[p.run].at \in ReplyPoint
    BY <1>1 DEF Acks, Refusals, ReplyPlaced
  <2>2. p \in Reply /\ p.run \in Run /\ (p.kind = "ok" => p.version \in Version)
    BY <1>1, <2>1, ReplyFields
  <2>3. run[p.run].at \in {"apply reply", "replace reply"}
    BY <1>1, <2>1 DEF Acks, Refusals, ReplyPlaced, ReplyPoint, WritePoint
  <2> QED
    BY <2>1, <2>2, <2>3 DEF Acks
<1> QED
  BY <1>2, <1>3

-----------------------------------------------------------------------------
(* Steps that leave the master's past and the copies.                      *)

\* The step changes nothing of what is in flight for copy c, but that a write-back through it is
\* now known to be rejected.
FlightStays(c) ==
  /\ Acks(c)' = Acks(c)
  /\ Proposals(c)' \subseteq Proposals(c)
  /\ Excused(c) => Excused(c)'
  /\ \/ Excused(c)'
     \/ Proposals(c)' = Proposals(c) /\ \A r \in Run : AboutTo(r, c) => AboutTo(r, c)'

\* A copy such a step leaves alone.
LEMMA CopyStaysFresh ==
  ASSUME UNCHANGED hist, NEW c, copies'[c] = copies[c], FlightStays(c), CopyFresh(c)
  PROVE  CopyFresh(c)'
<1>1. Past' = Past /\ Had' = Had
  BY PastStays
<1>2. \A v : Matches(c, v) <=> Matches(c, v)'
  BY <1>1 DEF Matches
<1>3. MatchedCopy(c)'
  BY <1>1, <1>2 DEF CopyFresh, MatchedCopy, FlightStays
<1>4. JudgedCopy(c)'
  BY <1>1 DEF CopyFresh, JudgedCopy, FlightStays
<1>5. ASSUME ~Excused(c)'
      PROVE  /\ ~Excused(c) /\ \A r \in Run : AboutTo(r, c) => AboutTo(r, c)'
             /\ \A k, w : Owned(c, k, w) => Owned(c, k, w)'
  BY <1>1, <1>5 DEF FlightStays, Owned
<1>6. OwnedCopy(c)' /\ OwnedContent(c)'
  BY <1>5 DEF CopyFresh, OwnedCopy, OwnedContent
<1> QED
  BY <1>3, <1>4, <1>6 DEF CopyFresh

\* A write-back in flight was in flight before, of a run that holds the same copy.
NoneProposed ==
  \A q \in Asked' : q.kind \in Proposal => q \in Asked /\ run'[q.run].copy = run[q.run].copy

\* The numbers of the writes and where they are.
LEMMA WritesStay ==
  ASSUME Numbered, Private, UNCHANGED <<hist, writes, copies>>, NoneProposed
  PROVE  Numbered' /\ Private'
<1>1. Had' = Had
  BY PastStays
<1>2. Numbered'
  BY <1>1 DEF Numbered, NoneProposed
<1>3. ASSUME NEW c \in 1..Len(copies), NEW k \in Slot
      PROVE  PrivateWrite(c, k)'
  <2>1. PrivateWrite(c, k)
    BY DEF Private
  <2> QED
    BY <1>1, <2>1 DEF PrivateWrite, NoneProposed
<1> QED
  BY <1>2, <1>3 DEF Private

\* Every message in flight names versions that its run or its copy has seen.
LEMMA FlightSaw ==
  ASSUME FlightSeen
  PROVE  (\A q \in Asked : RequestSeen(q)) /\ (\A p \in Told : ReplySeen(p))
BY DEF FlightSeen, Asked, Told

\* The version of a copy never goes back.
Forward ==
  \A c \in 1..Len(copies) : copies[c].version <= copies'[c].version /\ copies'[c].version \in Nat

\* A step that leaves the copies.
LEMMA SameForward ==
  ASSUME TypeOK, UNCHANGED copies
  PROVE  Forward
<1> SUFFICES ASSUME NEW c \in 1..Len(copies)
             PROVE  copies[c].version <= copies[c].version /\ copies[c].version \in Nat
  BY DEF Forward
<1>1. copies[c].version \in Nat
  BY CopyFields DEF Version
<1> QED
  BY <1>1

\* A request stays confirmed while its run awaits the reply.
LEMMA RequestStaysConfirmed ==
  ASSUME SInv, Confirmed, Forward, NEW q \in Asked, run'[q.run] = run[q.run]
  PROVE  RequestConfirmed(q)'
<1> SUFFICES ASSUME q.kind = "deref", q.have # 0
             PROVE  q.have <= copies'[run[q.run].entry].version
  BY DEF RequestConfirmed
<1>1. q \in Request /\ q.run \in Run /\ RequestSeen(q) /\ RequestConfirmed(q)
  BY FlightFields, FlightSaw DEF SInv, TInv, Places, Confirmed
<1>2. run[q.run].entry # 0 /\ q.have <= copies[run[q.run].entry].version /\ q.have \in Nat
  BY <1>1, RequestFields DEF RequestSeen, RequestConfirmed, Version
<1>3. run[q.run].entry \in 1..Len(copies)
  <2>1. /\ run[q.run].entry \in Nat /\ run[q.run].entry <= Len(copies)
        /\ Len(copies) \in Nat
    BY <1>1, RunFields, CopyFields DEF SInv, TInv, Places, RunsPlaced, RunPlaced
  <2> QED
    BY <1>2, <2>1
<1>4. copies[run[q.run].entry].version \in Nat
  BY <1>3, CopyFields DEF SInv, TInv, Version
<1>5. PICK e \in 1..Len(copies) : e = run[q.run].entry
  BY <1>3
<1>6. q.have <= copies[e].version /\ copies[e].version <= copies'[e].version
      /\ copies[e].version \in Nat /\ copies'[e].version \in Nat
  BY <1>2, <1>4, <1>5 DEF Forward
<1> QED
  BY <1>2, <1>5, <1>6

\* The same for a reply.
LEMMA ReplyStaysConfirmed ==
  ASSUME SInv, Confirmed, Forward, NEW p \in Told, run'[p.run] = run[p.run]
  PROVE  ReplyConfirmed(p)'
<1> SUFFICES ASSUME p.kind = "same"
             PROVE  p.version <= copies'[run[p.run].entry].version
  BY DEF ReplyConfirmed
<1>1. p \in Reply /\ p.run \in Run /\ ReplySeen(p) /\ ReplyConfirmed(p)
  BY FlightFields, FlightSaw DEF SInv, TInv, Places, Confirmed
<1>2. run[p.run].entry # 0 /\ p.version <= copies[run[p.run].entry].version /\ p.version \in Nat
  BY <1>1, ReplyFields DEF ReplySeen, ReplyConfirmed, Version
<1>3. run[p.run].entry \in 1..Len(copies)
  <2>1. /\ run[p.run].entry \in Nat /\ run[p.run].entry <= Len(copies)
        /\ Len(copies) \in Nat
    BY <1>1, RunFields, CopyFields DEF SInv, TInv, Places, RunsPlaced, RunPlaced
  <2> QED
    BY <1>2, <2>1
<1>4. copies[run[p.run].entry].version \in Nat
  BY <1>3, CopyFields DEF SInv, TInv, Version
<1>5. PICK e \in 1..Len(copies) : e = run[p.run].entry
  BY <1>3
<1>6. p.version <= copies[e].version /\ copies[e].version <= copies'[e].version
      /\ copies[e].version \in Nat /\ copies'[e].version \in Nat
  BY <1>2, <1>4, <1>5 DEF Forward
<1> QED
  BY <1>2, <1>5, <1>6

\* Steps of the owner and the reader that neither write nor take a copy or an acceptance.
LEMMA QuietFresh ==
  ASSUME FInv, SInv', UNCHANGED <<hist, writes, copies>>, NoneProposed,
         \A c \in 1..Len(copies) : FlightStays(c), Confirmed'
  PROVE  FInv'
<1>1. Numbered' /\ Private'
  BY WritesStay DEF FInv
<1>2. \A c \in 1..Len(copies) : CopyFresh(c)'
  BY CopyStaysFresh DEF FInv, CopiesFresh
<1> QED
  BY <1>1, <1>2 DEF FInv, CopiesFresh

\* A step of the owner's own, or of the store, that leaves the past and what is in flight.
LEMMA OwnerStepFresh ==
  ASSUME FInv, SInv', UNCHANGED <<hist, writes, copies, run, toOwner, toReader, rejected>>
  PROVE  FInv'
<1>1. Asked' = Asked /\ Told' = Told
  BY DEF Asked, Told
<1>2. NoneProposed
  BY <1>1 DEF NoneProposed
<1>3. \A c : FlightStays(c)
  BY <1>1 DEF FlightStays, Acks, Proposals, Refusals, Excused, AboutTo
<1>4. Confirmed'
  BY <1>1 DEF FInv, Confirmed, RequestConfirmed, ReplyConfirmed
<1> QED
  BY <1>2, <1>3, <1>4, QuietFresh

\* The answer to a dereference.
LEMMA ServeDerefFresh ==
  ASSUME FInv, SInv', ServeDeref
  PROVE  FInv'
<1> DEFINE q == Head(toOwner)
<1>1. TInv /\ SInv
  BY DEF FInv, SInv
<1>2. /\ UNCHANGED <<objs, version, object, tagged, hist>> /\ q.kind = "deref"
      /\ RequestPlaced(q) /\ q \in Request
      /\ \E reply : Answered(reply) /\ ReplyPlaced(reply) /\ ServeDerefReply(reply)
  BY <1>1, ServeDerefEffect DEF TInv, Places
<1>3. PICK reply : Answered(reply) /\ ReplyPlaced(reply) /\ ServeDerefReply(reply)
  BY <1>2
<1>4. /\ reply.kind \in {"error", "same", "fetched"} /\ reply.run = q.run
      /\ reply.kind = "same" => q.have # 0 /\ reply.version = q.have
  BY <1>3 DEF ServeDerefReply
<1>5. UNCHANGED <<copies, rejected, run, writes>>
  BY <1>3 DEF Answered
<1>6. q.run \in Run /\ run[q.run].at = "deref reply"
  BY <1>2, RequestFields DEF RequestPlaced, Proposal
<1>7. /\ Asked' = Asked \ {q} /\ q \in Asked /\ Told' = Told \cup {reply}
      /\ \A c : /\ Proposals(c)' = Proposals(c) \ {q}
                /\ Acks(c)' = Acks(c) \cup {p \in {reply} : p.kind = "ok" /\ run[p.run].copy = c}
                /\ Refusals(c)' = Refusals(c) \cup
                  {p \in {reply} : /\ p.kind \in {"conflict", "error"} /\ run[p.run].copy = c
                                   /\ run[p.run].at \in WritePoint}
  BY <1>1, <1>3, AnsweredFlight
<1>8. NoneProposed
  BY <1>5, <1>7 DEF NoneProposed
<1>9. ASSUME NEW c
      PROVE  FlightStays(c)
  <2>1. Proposals(c)' = Proposals(c)
    BY <1>2, <1>7 DEF Proposals, Proposal
  <2>2. Acks(c)' = Acks(c) /\ Refusals(c)' = Refusals(c)
    BY <1>4, <1>6, <1>7 DEF WritePoint
  <2> QED
    BY <1>5, <2>1, <2>2 DEF FlightStays, Excused, AboutTo
<1>10. Confirmed'
  <2>1. Forward
    BY <1>1, <1>5, SameForward DEF TInv
  <2>2. \A m \in Asked' : RequestConfirmed(m)'
    BY <1>1, <1>5, <1>7, <2>1, RequestStaysConfirmed DEF FInv
  <2>3. \A p \in Told : ReplyConfirmed(p)'
    BY <1>1, <1>5, <2>1, ReplyStaysConfirmed DEF FInv
  <2>4. ReplyConfirmed(reply)'
    <3>1. RequestConfirmed(q)
      BY <1>7 DEF FInv, Confirmed
    <3> QED
      BY <1>2, <1>4, <1>5, <3>1 DEF RequestConfirmed, ReplyConfirmed
  <2> QED
    BY <1>7, <2>2, <2>3, <2>4 DEF Confirmed
<1> QED
  BY <1>2, <1>5, <1>8, <1>9, <1>10, QuietFresh

\* The rejection of a write-back: it will be known of the copy from now on.
LEMMA ServeRejectedFresh ==
  ASSUME FInv, SInv', ServeRejected
  PROVE  FInv'
<1> DEFINE q == Head(toOwner)
<1>1. TInv /\ SInv
  BY DEF FInv, SInv
<1>2. /\ UNCHANGED <<objs, version, object, tagged, hist>> /\ q.kind \in Proposal
      /\ \E reply : Answered(reply) /\ ReplyPlaced(reply) /\ reply.kind \in {"error", "conflict"}
  BY <1>1, ServeRejectedEffect DEF TInv, Places
<1>3. PICK reply : /\ Answered(reply) /\ ReplyPlaced(reply)
                   /\ reply.kind \in {"error", "conflict"}
  BY <1>2
<1>4. UNCHANGED <<copies, rejected, run, writes>>
  BY <1>3 DEF Answered
<1>5. /\ Asked' = Asked \ {q} /\ q \in Asked /\ Told' = Told \cup {reply} /\ reply.run = q.run
      /\ \A c : /\ Proposals(c)' = Proposals(c) \ {q}
                /\ Acks(c)' = Acks(c) \cup {p \in {reply} : p.kind = "ok" /\ run[p.run].copy = c}
                /\ Refusals(c)' = Refusals(c) \cup
                  {p \in {reply} : /\ p.kind \in {"conflict", "error"} /\ run[p.run].copy = c
                                   /\ run[p.run].at \in WritePoint}
  BY <1>1, <1>3, AnsweredFlight
<1>6. NoneProposed
  BY <1>4, <1>5 DEF NoneProposed
<1>7. ASSUME NEW c
      PROVE  FlightStays(c)
  <2>1. Acks(c)' = Acks(c) /\ Refusals(c) \subseteq Refusals(c)'
    BY <1>3, <1>5
  <2>2. CASE run[q.run].copy = c
    <3>1. run[q.run].at \in WritePoint
      BY <1>1, <1>2, <1>3, JudgedPlaced DEF TInv, Places, Answered, WritePoint
    <3>2. reply \in Refusals(c)'
      BY <1>3, <1>5, <2>2, <3>1
    <3> QED
      BY <1>4, <1>5, <2>1, <3>2 DEF FlightStays, Excused
  <2>3. CASE run[q.run].copy # c
    <3>1. Proposals(c)' = Proposals(c)
      BY <1>5, <2>3 DEF Proposals
    <3> QED
      BY <1>4, <2>1, <3>1 DEF FlightStays, Excused, AboutTo
  <2> QED
    BY <2>2, <2>3
<1>8. Confirmed'
  <2>1. Forward
    BY <1>1, <1>4, SameForward DEF TInv
  <2>2. \A m \in Asked' : RequestConfirmed(m)'
    BY <1>1, <1>4, <1>5, <2>1, RequestStaysConfirmed DEF FInv
  <2>3. \A p \in Told : ReplyConfirmed(p)'
    BY <1>1, <1>4, <2>1, ReplyStaysConfirmed DEF FInv
  <2>4. ReplyConfirmed(reply)'
    BY <1>3 DEF ReplyConfirmed
  <2> QED
    BY <1>5, <2>2, <2>3, <2>4 DEF Confirmed
<1> QED
  BY <1>2, <1>4, <1>6, <1>7, <1>8, QuietFresh

\* The lookup that begins a dereference.
LEMMA DerefLookupFresh ==
  ASSUME FInv, SInv', NEW r \in Run, NEW h \in Handle, DerefLookup(r, h)
  PROVE  FInv'
<1>1. TInv /\ SInv
  BY DEF FInv, SInv
<1>2. /\ run[r].at = "nothing" /\ \A s \in Run : s # r => run'[s] = run[s]
      /\ UNCHANGED <<hist, writes, copies, rejected, toOwner, toReader>>
  BY DEF DerefLookup, owner, reader
<1>3. /\ Asked' = Asked /\ Told' = Told
      /\ \A m \in Asked \cup Told : m.run # r /\ run'[m.run] = run[m.run]
      /\ \A c : /\ Proposals(c)' = Proposals(c) /\ Acks(c)' = Acks(c)
                /\ Refusals(c)' = Refusals(c)
  BY <1>1, <1>2, QuietFlight DEF ReplyPoint
<1>4. NoneProposed
  BY <1>3 DEF NoneProposed
<1>5. \A c : FlightStays(c)
  BY <1>2, <1>3 DEF FlightStays, Excused, AboutTo
<1>6. Confirmed'
  <2>1. Forward
    BY <1>1, <1>2, SameForward DEF TInv
  <2> QED
    BY <1>1, <1>3, <2>1, RequestStaysConfirmed, ReplyStaysConfirmed DEF FInv, Confirmed
<1> QED
  BY <1>2, <1>4, <1>5, <1>6, QuietFresh

\* The request of a dereference: the version of an entry is not ahead of its copy's.
LEMMA DerefSendFresh ==
  ASSUME FInv, SInv', NEW r \in Run, DerefSend(r)
  PROVE  FInv'
<1>1. TInv /\ SInv
  BY DEF FInv, SInv
<1>2. /\ run[r].at = "deref lookup" /\ run'[r] = [run[r] EXCEPT !.at = "deref reply"]
      /\ \A s \in Run : s # r => run'[s] = run[s]
      /\ UNCHANGED <<hist, writes, copies, toReader>>
      /\ \E m \in Request : m = DerefRequest(r) /\ toOwner' = Append(toOwner, m)
  BY <1>1, DerefSendEffect
<1>3. PICK m \in Request : m = DerefRequest(r) /\ toOwner' = Append(toOwner, m)
  BY <1>2
<1>4. m.run = r /\ m.kind = "deref"
  BY <1>3 DEF DerefRequest
<1>5. UNCHANGED rejected
  BY DEF DerefSend, reader
<1>6. /\ Asked' = Asked \cup {m} /\ Told' = Told
      /\ \A q \in Asked \cup Told : q.run # r /\ run'[q.run] = run[q.run]
      /\ \A c : /\ Proposals(c)' = Proposals(c) /\ Acks(c)' = Acks(c)
                /\ Refusals(c)' = Refusals(c)
  <2>1. m.kind \notin Proposal /\ run[r].at \notin ReplyPoint /\ toReader' = toReader
        /\ \A s \in Run : s # r => run'[s] = run[s]
    BY <1>2, <1>4 DEF Proposal, ReplyPoint
  <2> QED
    BY <1>1, <1>3, <1>4, <2>1, SentFlight
<1>7. NoneProposed
  BY <1>4, <1>6 DEF NoneProposed, Proposal
<1>8. \A c : FlightStays(c)
  BY <1>2, <1>5, <1>6 DEF FlightStays, Excused, AboutTo
<1>9. Confirmed'
  <2>1. Forward
    BY <1>1, <1>2, SameForward DEF TInv
  <2>2. RequestConfirmed(m)'
    <3> SUFFICES ASSUME m.have # 0
                 PROVE  m.have <= copies[run'[r].entry].version
      BY <1>2, <1>4 DEF RequestConfirmed
    <3>1. run'[r].entry = run[r].entry /\ run[r].entry \in Nat /\ run[r].entry <= Len(copies)
          /\ Len(copies) \in Nat
      BY <1>1, <1>2, RunFields, CopyFields DEF TInv, Places, RunsPlaced, RunPlaced, RunState
    <3>2. run[r].entry # 0 /\ m.have = copies[run[r].entry].entryVersion
      BY <1>3 DEF DerefRequest
    <3>3. run[r].entry \in 1..Len(copies)
      BY <3>1, <3>2
    <3>4. copies[run[r].entry].entryVersion <= copies[run[r].entry].version
      BY <3>3 DEF FInv, CopiesFresh, CopyFresh
    <3> QED
      BY <3>1, <3>2, <3>4
  <2> QED
    BY <1>1, <1>6, <2>1, <2>2, RequestStaysConfirmed, ReplyStaysConfirmed DEF FInv, Confirmed
<1> QED
  BY <1>2, <1>5, <1>7, <1>8, <1>9, QuietFresh

\* The end of a wait: the answer to a dereference that brought no copy, or a rejection.
LEMMA WaitOverFresh ==
  ASSUME FInv, SInv', NEW r \in Run, run[r].at \in ReplyPoint, run'[r].at = "nothing",
         \A s \in Run : s # r => run'[s] = run[s],
         toReader # <<>>, Head(toReader).run = r, Head(toReader).kind # "ok",
         toReader' = Tail(toReader),
         \/ run[r].at = "deref reply" /\ rejected' = rejected
         \/ rejected' = rejected \cup {run[r].copy},
         UNCHANGED <<hist, writes, copies, toOwner>>
  PROVE  FInv'
<1>1. TInv /\ SInv
  BY DEF FInv, SInv
<1>2. /\ Asked' = Asked /\ Told' = Told \ {Head(toReader)}
      /\ \A m \in Asked \cup Told' : m.run # r /\ run'[m.run] = run[m.run]
      /\ \A c : /\ Proposals(c)' = Proposals(c) /\ Acks(c)' = Acks(c) \ {Head(toReader)}
                /\ Refusals(c)' = Refusals(c) \ {Head(toReader)}
  BY <1>1, TakenFlight
<1>3. NoneProposed
  BY <1>2 DEF NoneProposed
<1>4. ASSUME NEW c
      PROVE  FlightStays(c)
  <2>1. Acks(c)' = Acks(c)
    <3>1. Head(toReader) \notin Acks(c)
      BY DEF Acks
    <3>2. Acks(c)' = Acks(c) \ {Head(toReader)}
      BY <1>2
    <3> QED
      BY <3>1, <3>2
  <2>2. \A s \in Run : AboutTo(s, c) => AboutTo(s, c)'
    BY DEF AboutTo, ReplyPoint
  <2>3. Excused(c) => Excused(c)'
    <3>1. CASE Head(toReader) \in Refusals(c)
      <4>1. run[r].at \in WritePoint /\ run[r].copy = c
        BY <3>1 DEF Refusals
      <4> QED
        BY <4>1 DEF Excused, WritePoint
    <3>2. CASE Head(toReader) \notin Refusals(c)
      BY <1>2, <3>2 DEF Excused
    <3> QED
      BY <3>1, <3>2
  <2> QED
    BY <1>2, <2>1, <2>2, <2>3 DEF FlightStays
<1>5. Confirmed'
  <2>1. Forward
    BY <1>1, SameForward DEF TInv
  <2> QED
    BY <1>1, <1>2, <2>1, RequestStaysConfirmed, ReplyStaysConfirmed DEF FInv, Confirmed
<1> QED
  BY <1>3, <1>4, <1>5, QuietFresh

\* The answers that bring no copy.
LEMMA DerefOverFresh ==
  ASSUME FInv, SInv', NEW r \in Run, DerefSame(r) \/ DerefError(r)
  PROVE  FInv'
<1>1. run \in [Run -> RunState] /\ run[r] \in RunState
  BY RunFields DEF FInv, SInv, TInv, TypeOK
<1>2. run'[r].at = "nothing" /\ \A s \in Run : s # r => run'[s] = run[s]
  BY <1>1 DEF DerefSame, DerefError, RunState
<1>3. UNCHANGED <<copies, rejected>>
  BY DEF DerefSame, DerefError, reader
<1>4. /\ toReader # <<>> /\ Head(toReader).run = r /\ Head(toReader).kind # "ok"
      /\ run[r].at = "deref reply" /\ toReader' = Tail(toReader)
      /\ UNCHANGED <<hist, toOwner, writes>>
  BY DEF DerefSame, DerefError, ReplyTo, owner
<1> QED
  BY <1>2, <1>3, <1>4, WaitOverFresh DEF ReplyPoint

\* A rejection reaches the run.
LEMMA WriteRejectedFresh ==
  ASSUME FInv, SInv', NEW r \in Run, WriteRejected(r)
  PROVE  FInv'
<1>1. run \in [Run -> RunState] /\ run[r] \in RunState
  BY RunFields DEF FInv, SInv, TInv, TypeOK
<1>2. run'[r].at = "nothing" /\ \A s \in Run : s # r => run'[s] = run[s]
  BY <1>1 DEF WriteRejected, RunState
<1>3. rejected' = rejected \cup {run[r].copy} /\ UNCHANGED copies
  BY DEF WriteRejected
<1>4. /\ toReader # <<>> /\ Head(toReader).run = r /\ Head(toReader).kind # "ok"
      /\ run[r].at \in ReplyPoint /\ toReader' = Tail(toReader)
      /\ UNCHANGED <<hist, toOwner, writes>>
  BY DEF WriteRejected, ReplyTo, owner, ReplyPoint
<1> QED
  BY <1>2, <1>3, <1>4, WaitOverFresh

-----------------------------------------------------------------------------
(* Write-backs under way.                                                  *)

\* A write in a copy: no one has its number.
LEMMA WriteLookupFresh ==
  ASSUME OneHandle, FInv, SInv', NEW r \in Run, NEW k \in Slot, WriteLookup(r, k)
  PROVE  FInv'
<1>1. TInv /\ SInv /\ TypeOK
  BY DEF FInv, SInv, TInv
<1>2. PICK w \in Write, c \in 1..Len(copies) : w = writes' /\ c = run[r].copy
  BY <1>1, WriteLookupEffect, HeldFields
<1>3. /\ UNCHANGED <<hist, toOwner, toReader>>
      /\ run[r].at = "nothing"
      /\ writes \in Nat /\ w = writes + 1
      /\ Written(Held(r), k, w) \in Copy
      /\ copies' = [copies EXCEPT ![c] = Written(Held(r), k, w)]
      /\ run'[r] = [run[r] EXCEPT !.at = "write lookup", !.entry = cached[Held(r).handle]]
      /\ \A s \in Run : s # r => run'[s] = run[s]
  BY <1>1, <1>2, WriteLookupEffect
<1>4. UNCHANGED rejected
  BY DEF WriteLookup
<1>5. run'[r].at = "write lookup" /\ run'[r].copy = c
  BY <1>1, <1>2, <1>3, RunFields DEF RunState
<1>6. /\ Len(copies') = Len(copies)
      /\ \A d \in 1..Len(copies) : d # c => copies'[d] = copies[d]
      /\ copies'[c] = Written(copies[c], k, w)
  BY <1>1, <1>2, <1>3, CopySet DEF Held
<1>7. /\ copies'[c].content[k] = w
      /\ \A j \in Slot : j # k => copies'[c].content[j] = copies[c].content[j]
      /\ copies'[c].version = copies[c].version
      /\ copies'[c].entryVersion = copies[c].entryVersion
      /\ copies'[c].baseline = copies[c].baseline
  BY <1>1, <1>6, CopyFields DEF Written, Copy, Content
<1>8. /\ Asked' = Asked /\ Told' = Told
      /\ \A m \in Asked \cup Told : m.run # r /\ run'[m.run] = run[m.run]
      /\ \A d : /\ Proposals(d)' = Proposals(d) /\ Acks(d)' = Acks(d)
                /\ Refusals(d)' = Refusals(d)
  BY <1>1, <1>3, QuietFlight DEF ReplyPoint
<1>9. Past' = Past /\ Had' = Had
  BY <1>3, PastStays
<1>10. /\ \A x \in Had : x \in Nat
       /\ \A d \in 1..Len(copies), j \in Slot : copies[d].content[j] \in Nat
       /\ \A q \in Asked : q.kind \in Proposal => \A j \in Slot : q.content[j] \in Nat
  <2>1. \A x \in Write : x \in Nat
    BY BoundsAssumption DEF Write
  <2>2. \A d \in 1..Len(copies), j \in Slot : copies[d].content[j] \in Write
    BY <1>1, CopyFields DEF Content
  <2>3. \A q \in Asked : q.kind \in Proposal => \A j \in Slot : q.content[j] \in Write
    BY <1>1, FlightFields, RequestFields DEF TInv, Places, Content
  <2> QED
    BY <1>1, <2>1, <2>2, <2>3, PastTyped
<1>11. \A x : x <= writes /\ x \in Nat => x <= w /\ x # w
  BY <1>3
<1>12. w \notin Had /\ Numbered'
  <2>1. \A x \in Had : x <= writes /\ x \in Nat
    BY <1>10 DEF FInv, Numbered
  <2>2. \A d \in 1..Len(copies), j \in Slot : copies[d].content[j] <= writes
    BY DEF FInv, Numbered
  <2>3. \A q \in Asked : q.kind \in Proposal => \A j \in Slot : q.content[j] <= writes
    BY DEF FInv, Numbered
  <2>4. w <= w
    BY <1>3
  <2>5. \A d \in 1..Len(copies), j \in Slot : copies'[d].content[j] <= w
    BY <1>6, <1>7, <1>10, <1>11, <2>2, <2>4
  <2>6. \A q \in Asked : q.kind \in Proposal => \A j \in Slot : q.content[j] <= w
    BY <1>10, <1>11, <2>3
  <2> QED
    BY <1>2, <1>6, <1>8, <1>9, <1>11, <2>1, <2>5, <2>6 DEF Numbered
<1>13. /\ \A d \in 1..Len(copies), j \in Slot : copies[d].content[j] # w
       /\ \A q \in Asked : q.kind \in Proposal => \A j \in Slot : q.content[j] # w
  BY <1>10, <1>11 DEF FInv, Numbered
<1>14. ASSUME NEW d \in 1..Len(copies), NEW j \in Slot
       PROVE  PrivateWrite(d, j)'
  <2>1. CASE d = c /\ j = k
    <3>1. \A e \in 1..Len(copies), i \in Slot : copies'[e].content[i] = w => e = c /\ i = k
      BY <1>6, <1>7, <1>13
    <3> QED
      BY <1>6, <1>7, <1>8, <1>13, <2>1, <3>1 DEF PrivateWrite
  <2>2. CASE ~(d = c /\ j = k)
    <3>1. copies'[d].content[j] = copies[d].content[j]
      BY <1>6, <1>7, <2>2
    <3>2. PrivateWrite(d, j) /\ copies[d].content[j] # w
      BY <1>13 DEF FInv, Private
    <3>3. \A e \in 1..Len(copies), i \in Slot :
            copies'[e].content[i] = copies[d].content[j] =>
              copies[e].content[i] = copies[d].content[j]
      BY <1>6, <1>7, <3>2
    <3> QED
      BY <1>6, <1>8, <1>9, <3>1, <3>2, <3>3 DEF PrivateWrite
  <2> QED
    BY <2>1, <2>2
<1>15. ASSUME NEW d \in 1..Len(copies), d # c
       PROVE  CopyFresh(d)'
  <2>1. FlightStays(d)
    BY <1>2, <1>3, <1>4, <1>8, <1>15 DEF FlightStays, Excused, AboutTo
  <2> QED
    BY <1>3, <1>6, <1>15, <2>1, CopyStaysFresh DEF FInv, CopiesFresh
<1>16. CopyFresh(c)'
  <2>1. CopyFresh(c)
    BY DEF FInv, CopiesFresh
  <2>2. \A v : Matches(c, v) => Matches(c, v)'
    BY <1>7, <1>9, <1>12 DEF Matches
  <2>3. MatchedCopy(c)'
    BY <1>7, <1>8, <1>9, <2>1, <2>2 DEF CopyFresh, MatchedCopy
  <2>4. JudgedCopy(c)'
    <3> SUFFICES ASSUME NEW q \in Proposals(c)
                 PROVE  /\ q.kind = "replace" => q.slots = Slot
                        /\ q.version = Len(Past) =>
                             /\ copies[c].version = q.version
                             /\ \A j \in q.slots :
                                  copies'[c].content[j] \in {q.content[j]} \cup (Write \ Had)
      BY <1>7, <1>8, <1>9 DEF JudgedCopy
    <3>1. q.slots \in SUBSET Slot
      BY <1>1, FlightKinds
    <3>2. /\ q.kind = "replace" => q.slots = Slot
          /\ q.version = Len(Past) =>
               /\ copies[c].version = q.version
               /\ \A j \in q.slots : copies[c].content[j] \in {q.content[j]} \cup (Write \ Had)
      BY <2>1 DEF CopyFresh, JudgedCopy
    <3> QED
      BY <1>2, <1>7, <1>12, <3>1, <3>2
  <2>5. OwnedCopy(c)'
    BY <1>4, <1>7, <1>8, <1>9, <2>1 DEF CopyFresh, OwnedCopy, Excused, Owned
  <2>6. OwnedContent(c)'
    BY <1>5 DEF OwnedContent, AboutTo
  <2> QED
    BY <1>7, <2>1, <2>3, <2>4, <2>5, <2>6 DEF CopyFresh
<1>17. Confirmed'
  <2>1. Forward
    BY <1>1, <1>6, <1>7, CopyFields DEF Forward, Version
  <2> QED
    BY <1>1, <1>8, <2>1, RequestStaysConfirmed, ReplyStaysConfirmed DEF FInv, Confirmed
<1> QED
  BY <1>6, <1>12, <1>14, <1>15, <1>16, <1>17 DEF FInv, Private, CopiesFresh

\* Run r sends the write-back m of copy c as it is; of the copy only the baseline may change.
Ships(r, c, m) ==
  /\ c = run[r].copy /\ run[r].at = "write lookup" /\ run'[r].copy = c
  /\ \A s \in Run : s # r => run'[s] = run[s]
  /\ m.run = r /\ m.kind \in Proposal /\ toOwner' = Append(toOwner, m)
  /\ m.content = copies[c].content /\ m.version = copies[c].version
  /\ m.kind = "replace" => m.slots = Slot
  /\ \A k \in Slot : k \in m.slots \/ copies[c].content[k] = copies[c].baseline[k]
  /\ Len(copies') = Len(copies)
  /\ \A d \in 1..Len(copies) : d # c => copies'[d] = copies[d]
  /\ copies'[c].content = copies[c].content /\ copies'[c].version = copies[c].version
  /\ copies'[c].entryVersion = copies[c].entryVersion
  /\ copies'[c].baseline \in {copies[c].baseline, copies[c].content}
  /\ UNCHANGED <<hist, writes, toReader, rejected>>

\* A write-back is sent.
LEMMA ProposedFresh ==
  ASSUME FInv, SInv', NEW r \in Run, NEW c \in 1..Len(copies), NEW m \in Request, Ships(r, c, m)
  PROVE  FInv'
<1>1. TInv /\ SInv /\ TypeOK
  BY DEF FInv, SInv, TInv
<1>2. UNCHANGED <<hist, writes, rejected>> /\ Len(copies') = Len(copies)
      /\ \A d \in 1..Len(copies) : d # c => copies'[d] = copies[d]
  BY DEF Ships
<1>3. /\ copies'[c].content = copies[c].content /\ copies'[c].version = copies[c].version
      /\ copies'[c].entryVersion = copies[c].entryVersion
      /\ copies'[c].baseline \in {copies[c].baseline, copies[c].content}
  BY DEF Ships
<1>4. /\ run[r].at = "write lookup" /\ run[r].at \notin ReplyPoint /\ toReader' = toReader
      /\ c = run[r].copy /\ run'[r].copy = c /\ \A s \in Run : s # r => run'[s] = run[s]
      /\ m.run = r /\ m.kind \in Proposal /\ toOwner' = Append(toOwner, m)
  BY DEF Ships, ReplyPoint
<1>14. /\ m.content = copies[c].content /\ m.version = copies[c].version
       /\ m.kind = "replace" => m.slots = Slot
       /\ \A k \in Slot : k \in m.slots \/ copies[c].content[k] = copies[c].baseline[k]
  BY DEF Ships
<1>5. /\ Asked' = Asked \cup {m} /\ Told' = Told
      /\ \A q \in Asked \cup Told : q.run # r /\ run'[q.run] = run[q.run]
  BY <1>1, <1>4, SentFlight
<1>13. ASSUME NEW d
       PROVE  /\ Acks(d)' = Acks(d) /\ Refusals(d)' = Refusals(d)
              /\ d = c => Proposals(d)' = Proposals(d) \cup {m}
              /\ d # c => Proposals(d)' = Proposals(d)
  <2>1. Acks(d)' = Acks(d) /\ Refusals(d)' = Refusals(d)
    BY <1>1, <1>4, SentFlight
  <2>2. Proposals(c)' = Proposals(c) \cup {m}
    BY <1>4, <1>5 DEF Proposals
  <2>3. d # c => Proposals(d)' = Proposals(d)
    BY <1>4, <1>5 DEF Proposals
  <2> QED
    BY <2>1, <2>2, <2>3
<1>6. Past' = Past /\ Had' = Had
  BY <1>2, PastStays
<1>7. \A d \in 1..Len(copies) : copies'[d].content = copies[d].content
  BY <1>2, <1>3
<1>8. Numbered'
  <2>1. \A k \in Slot : m.content[k] <= writes
    BY <1>14 DEF FInv, Numbered
  <2> QED
    BY <1>2, <1>5, <1>6, <1>7, <2>1 DEF FInv, Numbered
<1>9. ASSUME NEW d \in 1..Len(copies), NEW j \in Slot
      PROVE  PrivateWrite(d, j)'
  <2> SUFFICES ASSUME copies[d].content[j] \notin Had
               PROVE  /\ \A e \in 1..Len(copies), i \in Slot :
                           copies[e].content[i] = copies[d].content[j] => e = d /\ i = j
                      /\ \A q \in Asked \cup {m} : q.kind \in Proposal =>
                           \A i \in Slot : q.content[i] = copies[d].content[j] =>
                             run'[q.run].copy = d /\ i = j
    BY <1>2, <1>5, <1>6, <1>7 DEF PrivateWrite
  <2>1. /\ \A e \in 1..Len(copies), i \in Slot :
             copies[e].content[i] = copies[d].content[j] => e = d /\ i = j
        /\ \A q \in Asked : q.kind \in Proposal =>
             \A i \in Slot : q.content[i] = copies[d].content[j] => run[q.run].copy = d /\ i = j
    BY DEF FInv, Private, PrivateWrite
  <2>2. \A i \in Slot : m.content[i] = copies[d].content[j] => run'[m.run].copy = d /\ i = j
    <3> SUFFICES ASSUME NEW i \in Slot, m.content[i] = copies[d].content[j]
                 PROVE  run'[m.run].copy = d /\ i = j
      OBVIOUS
    <3>1. copies[c].content[i] = copies[d].content[j]
      BY <1>14
    <3>2. c = d /\ i = j
      BY <2>1, <3>1
    <3> QED
      BY <1>4, <3>2
  <2>3. \A q \in Asked : run'[q.run].copy = run[q.run].copy
    BY <1>5
  <2> QED
    BY <2>1, <2>2, <2>3
<1>10. ASSUME NEW d \in 1..Len(copies), d # c
       PROVE  CopyFresh(d)'
  <2>1. FlightStays(d)
    BY <1>2, <1>4, <1>10, <1>13 DEF FlightStays, Excused, AboutTo
  <2> QED
    BY <1>2, <1>10, <2>1, CopyStaysFresh DEF FInv, CopiesFresh
<1>11. CopyFresh(c)'
  <2>1. CopyFresh(c)
    BY DEF FInv, CopiesFresh
  <2>2. \A v : Matches(c, v) => Matches(c, v)'
    BY <1>3, <1>6 DEF Matches
  <2>3. MatchedCopy(c)'
    BY <1>3, <1>6, <1>13, <2>1, <2>2 DEF CopyFresh, MatchedCopy
  <2>4. JudgedCopy(c)'
    <3>1. m.slots \in SUBSET Slot
      BY <1>4, RequestFields
    <3> QED
      BY <1>3, <1>6, <1>13, <1>14, <2>1, <3>1 DEF CopyFresh, JudgedCopy
  <2>5. ASSUME NEW k \in Slot, ~Excused(c)'
        PROVE  Owned(c, k, copies[c].baseline[k]) /\ Owned(c, k, copies[c].content[k])'
    <3>1. ~Excused(c)
      BY <1>2, <1>13, <2>5 DEF Excused
    <3>2. Owned(c, k, copies[c].baseline[k])
      BY <2>1, <3>1 DEF CopyFresh, OwnedCopy
    <3>3. CASE k \in m.slots
      BY <1>3, <1>13, <1>14, <3>2, <3>3 DEF Owned
    <3>4. CASE k \notin m.slots
      <4>1. Owned(c, k, copies[c].content[k])
        BY <1>14, <3>2, <3>4
      <4> QED
        BY <1>3, <1>6, <1>13, <3>2, <4>1 DEF Owned
    <3> QED
      BY <3>3, <3>4
  <2>6. OwnedContent(c)'
    BY <2>5 DEF OwnedContent
  <2>7. OwnedCopy(c)'
    <3> SUFFICES ASSUME NEW k \in Slot, ~Excused(c)'
                 PROVE  Owned(c, k, copies[c].baseline[k])'
      BY DEF OwnedCopy
    <3>1. CASE copies'[c].baseline = copies[c].baseline
      BY <1>6, <1>13, <2>5, <3>1 DEF Owned
    <3>2. CASE copies'[c].baseline = copies[c].content
      BY <1>3, <1>6, <1>13, <2>5, <3>2 DEF Owned
    <3> QED
      BY <1>3, <3>1, <3>2
  <2> QED
    BY <1>3, <2>1, <2>3, <2>4, <2>6, <2>7 DEF CopyFresh
<1>12. Confirmed'
  <2>1. Forward
    <3>1. \A d \in 1..Len(copies) : copies[d].version \in Nat
      BY <1>1, CopyFields DEF Version
    <3>2. \A d \in 1..Len(copies) : copies'[d].version = copies[d].version
      BY <1>2, <1>3
    <3> QED
      BY <3>1, <3>2 DEF Forward
  <2>2. RequestConfirmed(m)'
    BY <1>4 DEF RequestConfirmed, Proposal
  <2> QED
    BY <1>1, <1>5, <2>1, <2>2, RequestStaysConfirmed, ReplyStaysConfirmed DEF FInv, Confirmed
<1> QED
  BY <1>2, <1>8, <1>9, <1>10, <1>11, <1>12 DEF FInv, Private, CopiesFresh

\* The delta, and the whole in its stead.
LEMMA WriteApplyFresh ==
  ASSUME FInv, SInv', NEW r \in Run, WriteApply(r)
  PROVE  FInv'
<1>1. TInv /\ SInv /\ TypeOK
  BY DEF FInv, SInv, TInv
<1>2. PICK c \in 1..Len(copies) : c = run[r].copy
  BY <1>1, WriteApplyEffect, HeldFields
<1>3. /\ Len(copies') = Len(copies)
      /\ \A d \in 1..Len(copies) : d # c => copies'[d] = copies[d]
      /\ copies'[c].content = copies[c].content /\ copies'[c].version = copies[c].version
      /\ copies'[c].entryVersion = copies[c].entryVersion
      /\ copies'[c].baseline = copies[c].content
  <2> DEFINE x == [copies[c] EXCEPT !.baseline = copies[c].content]
  <2>1. x \in Copy /\ copies' = [copies EXCEPT ![c] = x]
    BY <1>1, <1>2, WriteApplyEffect DEF Held
  <2>2. /\ x.content = copies[c].content /\ x.version = copies[c].version
        /\ x.entryVersion = copies[c].entryVersion /\ x.baseline = copies[c].content
    BY <1>1, CopyFields DEF Copy
  <2> HIDE DEF x
  <2>3. /\ Len(copies') = Len(copies) /\ copies'[c] = x
        /\ \A d \in 1..Len(copies) : d # c => copies'[d] = copies[d]
    BY <1>1, <2>1, CopySet
  <2> QED
    BY <2>2, <2>3
<1>4. PICK slots \in {Changed(c), Slot} : \E m \in Request :
        m = Proposed(r, "apply", slots) /\ toOwner' = Append(toOwner, m)
  <2>1. \E slots \in {Changed(run[r].copy), Slot} : \E m \in Request :
          /\ m = Proposed(r, "apply", slots) /\ RequestPlaced(m)'
          /\ toOwner' = Append(toOwner, m)
    BY <1>1, WriteApplyEffect
  <2> QED
    BY <1>2, <2>1
<1>5. PICK m \in Request : m = Proposed(r, "apply", slots) /\ toOwner' = Append(toOwner, m)
  BY <1>4
<1>6. /\ m.run = r /\ m.kind = "apply" /\ m.content = copies[c].content
      /\ m.version = copies[c].version /\ m.slots = slots
  BY <1>2, <1>5 DEF Proposed, Held
<1>7. /\ run[r].at = "write lookup" /\ run'[r] = [run[r] EXCEPT !.at = "apply reply"]
      /\ \A s \in Run : s # r => run'[s] = run[s]
      /\ UNCHANGED <<hist, writes, toReader>>
  BY <1>1, WriteApplyEffect
<1>8. run'[r].copy = c
  BY <1>1, <1>2, <1>7, RunFields DEF RunState
<1>9. UNCHANGED rejected
  BY DEF WriteApply
<1>10. \A k \in Slot : k \in m.slots \/ copies[c].content[k] = copies[c].baseline[k]
  BY <1>4, <1>6 DEF Changed
<1>11. Ships(r, c, m)
  BY <1>2, <1>3, <1>5, <1>6, <1>7, <1>8, <1>9, <1>10 DEF Ships, Proposal
<1> QED
  BY <1>11, ProposedFresh

\* The replacement.
LEMMA WriteReplaceFresh ==
  ASSUME FInv, SInv', NEW r \in Run, WriteReplace(r)
  PROVE  FInv'
<1>1. TInv /\ SInv /\ TypeOK
  BY DEF FInv, SInv, TInv
<1>2. PICK c \in 1..Len(copies) : c = run[r].copy
  BY <1>1, WriteReplaceEffect, HeldFields
<1>4. PICK m \in Request : m = Proposed(r, "replace", Slot) /\ toOwner' = Append(toOwner, m)
  BY <1>1, WriteReplaceEffect
<1>5. /\ m.run = r /\ m.kind = "replace" /\ m.content = copies[c].content
      /\ m.version = copies[c].version /\ m.slots = Slot
  BY <1>2, <1>4 DEF Proposed, Held
<1>6. /\ run[r].at = "write lookup" /\ run'[r] = [run[r] EXCEPT !.at = "replace reply"]
      /\ \A s \in Run : s # r => run'[s] = run[s]
      /\ UNCHANGED <<hist, writes, copies, toReader>>
  BY <1>1, WriteReplaceEffect
<1>7. run'[r].copy = c
  BY <1>1, <1>2, <1>6, RunFields DEF RunState
<1>8. UNCHANGED rejected
  BY DEF WriteReplace, reader
<1>9. Ships(r, c, m)
  BY <1>2, <1>4, <1>5, <1>6, <1>7, <1>8 DEF Ships, Proposal
<1> QED
  BY <1>9, ProposedFresh

\* An acknowledgement reaches the run: its copy is at the version it has matched since the
\* master took the write-back.
LEMMA WriteOkFresh ==
  ASSUME FInv, SInv', NEW r \in Run, WriteApplied(r) \/ WriteReplaced(r)
  PROVE  FInv'
<1>1. TInv /\ SInv /\ TypeOK
  BY DEF FInv, SInv, TInv
<1>2. PICK p \in Reply, c \in 1..Len(copies) : p = Head(toReader) /\ c = run[r].copy
  BY <1>1, WriteOkEffect, HeldFields
<1>3. /\ toReader # <<>> /\ toReader' = Tail(toReader) /\ toOwner' = toOwner
      /\ p.run = r /\ p.kind = "ok" /\ p.version \in Version
      /\ \A s \in Run : s # r => run'[s] = run[s]
      /\ UNCHANGED <<hist, writes>>
  BY <1>1, <1>2, WriteOkEffect
<1>4. UNCHANGED rejected /\ run[r].at \in {"apply reply", "replace reply"}
  BY DEF WriteApplied, WriteReplaced, ReplyTo
<1>5. run'[r].copy = c
  <2>1. run[r] \in RunState /\ run'[r] = [run[r] EXCEPT !.at = "nothing"]
    BY <1>1, WriteOkEffect, RunFields
  <2> QED
    BY <1>2, <2>1 DEF RunState
<1>6. PICK x \in Copy : /\ x = AppliedCopy(r, p.version) \/ x = ReplacedCopy(r, p.version)
                        /\ copies' = [copies EXCEPT ![c] = x]
  BY <1>1, <1>2, WriteOkEffect
<1>7. /\ Len(copies') = Len(copies) /\ copies'[c] = x
      /\ \A d \in 1..Len(copies) : d # c => copies'[d] = copies[d]
  BY <1>1, <1>6, CopySet
<1>8. /\ copies'[c].content = copies[c].content /\ copies'[c].baseline = copies[c].baseline
      /\ copies'[c].version = p.version
      /\ copies'[c].entryVersion \in {p.version, copies[c].entryVersion}
  <2>1. copies[c] \in Copy /\ Held(r) = copies[c]
    BY <1>1, <1>2, CopyFields DEF Held
  <2> QED
    BY <1>6, <1>7, <2>1 DEF AppliedCopy, ReplacedCopy, Copy
<1>9. /\ Asked' = Asked /\ Told' = Told \ {p} /\ p \in Told
      /\ \A m \in Asked \cup Told' : m.run # r /\ run'[m.run] = run[m.run]
  BY <1>1, <1>2, <1>3, TakenFlight
<1>10. \A d : /\ Proposals(d)' = Proposals(d) /\ Acks(d)' = Acks(d) \ {p}
              /\ Refusals(d)' = Refusals(d) \ {p}
  BY <1>1, <1>2, <1>3, TakenFlight
<1>11. ASSUME NEW d
       PROVE  /\ Refusals(d)' = Refusals(d)
              /\ d # c => Acks(d)' = Acks(d)
  <2>1. p \notin Refusals(d)
    BY <1>3 DEF Refusals
  <2>2. d # c => p \notin Acks(d)
    BY <1>2, <1>3 DEF Acks
  <2> QED
    BY <1>10, <2>1, <2>2
<1>12. Past' = Past /\ Had' = Had /\ Len(Past) = Len(Past)
  BY <1>3, PastStays
<1>13. \A d \in 1..Len(copies) : copies'[d].content = copies[d].content
  BY <1>7, <1>8
<1>14. p \in Acks(c) /\ CopyFresh(c)
  BY <1>2, <1>3, <1>9 DEF Acks, FInv, CopiesFresh
<1>15. /\ Matches(c, p.version) /\ copies[c].version < p.version /\ p.version <= Len(Past)
       /\ Acks(c)' = {}
  BY <1>10, <1>14 DEF CopyFresh, MatchedCopy
<1>16. Len(Past) \in Nat /\ p.version \in Nat
       /\ \A d \in 1..Len(copies) : copies[d].version \in Nat /\ copies[d].entryVersion \in Nat
  <2>1. p.version \in Nat
    BY <1>3 DEF Version
  <2>2. \A d \in 1..Len(copies) : copies[d].version \in Nat /\ copies[d].entryVersion \in Nat
    BY <1>1, CopyFields DEF Version
  <2>3. Len(Past) \in Nat
    BY <1>1, HandleAssumption DEF Past, TypeOK, TheHandle
  <2> QED
    BY <2>1, <2>2, <2>3
<1>17. Numbered'
  BY <1>3, <1>7, <1>9, <1>12, <1>13 DEF FInv, Numbered
<1>18. ASSUME NEW d \in 1..Len(copies), NEW j \in Slot
       PROVE  PrivateWrite(d, j)'
  <2>1. PrivateWrite(d, j) /\ \A q \in Asked : run'[q.run].copy = run[q.run].copy
    BY <1>9 DEF FInv, Private
  <2> QED
    BY <1>7, <1>9, <1>12, <1>13, <2>1 DEF PrivateWrite
<1>19. ASSUME NEW d \in 1..Len(copies), d # c
       PROVE  CopyFresh(d)'
  <2>1. FlightStays(d)
    BY <1>2, <1>3, <1>4, <1>10, <1>11, <1>19 DEF FlightStays, Excused, AboutTo
  <2> QED
    BY <1>3, <1>7, <1>19, <2>1, CopyStaysFresh DEF FInv, CopiesFresh
<1>20. CopyFresh(c)'
  <2>1. MatchedCopy(c)'
    BY <1>8, <1>12, <1>15 DEF MatchedCopy, Matches
  <2>2. JudgedCopy(c)'
    <3> SUFFICES ASSUME NEW q \in Proposals(c)
                 PROVE  (q.kind = "replace" => q.slots = Slot) /\ q.version # Len(Past)
      BY <1>8, <1>10, <1>12 DEF JudgedCopy
    <3>1. /\ q.kind = "replace" => q.slots = Slot
          /\ q.version = Len(Past) => copies[c].version = q.version
      BY <1>14 DEF CopyFresh, JudgedCopy
    <3>2. copies[c].version # Len(Past)
      BY <1>15, <1>16
    <3> QED
      BY <3>1, <3>2
  <2>3. OwnedCopy(c)'
    BY <1>4, <1>8, <1>10, <1>11, <1>12, <1>14 DEF CopyFresh, OwnedCopy, Excused, Owned
  <2>4. OwnedContent(c)'
    <3>1. \A s \in Run : AboutTo(s, c) => AboutTo(s, c)'
      BY <1>3, <1>4 DEF AboutTo
    <3> QED
      BY <1>4, <1>8, <1>10, <1>11, <1>12, <1>14, <3>1 DEF CopyFresh, OwnedContent, Excused, Owned
  <2>5. copies'[c].entryVersion <= copies'[c].version
    <3>1. copies[c].entryVersion <= copies[c].version
      BY <1>14 DEF CopyFresh
    <3> QED
      BY <1>8, <1>15, <1>16, <3>1
  <2> QED
    BY <2>1, <2>2, <2>3, <2>4, <2>5 DEF CopyFresh
<1>21. Confirmed'
  <2>1. Forward
    <3>1. \A d \in 1..Len(copies) : d # c => copies'[d].version = copies[d].version
      BY <1>7
    <3> QED
      BY <1>8, <1>15, <1>16, <3>1 DEF Forward
  <2> QED
    BY <1>1, <1>9, <2>1, RequestStaysConfirmed, ReplyStaysConfirmed DEF FInv, Confirmed
<1> QED
  BY <1>7, <1>17, <1>18, <1>19, <1>20, <1>21 DEF FInv, Private, CopiesFresh

\* A copy is fetched: it is what the master was, and no write-back was ever made through it.
LEMMA DerefFetchedFresh ==
  ASSUME OneHandle, FInv, SInv', NEW r \in Run, DerefFetched(r)
  PROVE  FInv'
<1>1. TInv /\ SInv /\ TypeOK
  BY DEF FInv, SInv, TInv
<1>2. PICK p \in Reply, n \in Nat : p = Head(toReader) /\ n = Len(copies) + 1
  <2>1. Head(toReader) \in Reply /\ Len(copies) \in Nat
    BY <1>1, DerefFetchedEffect, CopyFields
  <2> QED
    BY <2>1
<1>3. /\ toReader # <<>> /\ toReader' = Tail(toReader) /\ toOwner' = toOwner
      /\ p.run = r /\ p.kind = "fetched" /\ run[r].at = "deref reply"
      /\ Len(copies') = n /\ copies'[n] = Fetched(r, p)
      /\ \A d \in 1..Len(copies) : copies'[d] = copies[d]
      /\ \A s \in Run : s # r => run'[s] = run[s]
      /\ UNCHANGED <<hist, writes>>
  BY <1>1, <1>2, DerefFetchedEffect
<1>4. UNCHANGED rejected
  BY DEF DerefFetched
<1>5. run'[r].at = "nothing" /\ run'[r].copy = n
  <2>1. run[r] \in RunState /\ run'[r] = [run[r] EXCEPT !.at = "nothing", !.copy = n]
    BY <1>1, <1>2, DerefFetchedEffect, RunFields
  <2> QED
    BY <2>1 DEF RunState
<1>6. /\ copies'[n].content = p.content /\ copies'[n].baseline = p.content
      /\ copies'[n].version = p.version /\ copies'[n].entryVersion = p.version
  <2>1. /\ Fetched(r, p).content = p.content /\ Fetched(r, p).baseline = p.content
        /\ Fetched(r, p).version = p.version /\ Fetched(r, p).entryVersion = p.version
    BY DEF Fetched
  <2> QED
    BY <1>3, <2>1
<1>7. /\ Asked' = Asked /\ Told' = Told \ {p} /\ p \in Told
      /\ \A m \in Asked \cup Told' : m.run # r /\ run'[m.run] = run[m.run]
  BY <1>1, <1>2, <1>3, TakenFlight
<1>8. \A d : /\ Proposals(d)' = Proposals(d) /\ Acks(d)' = Acks(d) \ {p}
             /\ Refusals(d)' = Refusals(d) \ {p}
  BY <1>1, <1>2, <1>3, TakenFlight
<1>9. ASSUME NEW d
      PROVE  Acks(d)' = Acks(d) /\ Refusals(d)' = Refusals(d)
  <2>1. p \notin Acks(d) /\ p \notin Refusals(d)
    BY <1>3 DEF Refusals, Acks
  <2> QED
    BY <1>8, <2>1
<1>10. /\ Past' = Past /\ Had' = Had /\ Len(Past) \in Nat /\ p.version \in Nat
  <2>1. Past' = Past /\ Had' = Had
    BY <1>3, PastStays
  <2>2. Len(Past) \in Nat
    BY <1>1, PastTyped
  <2>3. p.version \in Version
    BY <1>3, ReplyFields
  <2> QED
    BY <2>1, <2>2, <2>3 DEF Version
<1>11. p.version \in 1..Len(Past) /\ \A k \in Slot : p.content[k] = Past[p.version][k]
  <2>1. ReplySeen(p)
    BY <1>1, <1>7, FlightSaw DEF SInv
  <2>2. run[r].handle = TheHandle
    BY <1>1, TheOne, RunFields
  <2> QED
    BY <1>3, <2>1, <2>2 DEF ReplySeen, Past
<1>12. \A k \in Slot : p.content[k] \in Had
  BY <1>11, HadMember
<1>13. /\ n \notin 1..Len(copies) /\ 1..Len(copies') = 1..Len(copies) \cup {n}
  <2>1. PICK k \in Nat : k = Len(copies)
    BY <1>1, CopyFields
  <2>2. n = k + 1 /\ Len(copies') = k + 1
    BY <1>2, <1>3, <2>1
  <2>3. k + 1 \notin 1..k /\ 1..(k + 1) = 1..k \cup {k + 1}
    OBVIOUS
  <2> QED
    BY <2>1, <2>2, <2>3
<1>14. Proposals(n) = {} /\ Acks(n) = {}
  <2>1. \A s \in Run : run[s].copy # n
    <3> SUFFICES ASSUME NEW s \in Run PROVE run[s].copy # n
      OBVIOUS
    <3>1. run[s].copy \in Nat /\ run[s].copy <= Len(copies) /\ Len(copies) \in Nat
      BY <1>1, RunFields, CopyFields DEF TInv, Places, RunsPlaced, RunPlaced
    <3> QED
      BY <1>2, <3>1
  <2> QED
    BY <1>1, <2>1, FlightFields DEF TInv, Places, Proposals, Acks
<1>15. Numbered'
  <2>1. \A k \in Slot : p.content[k] <= writes
    BY <1>12 DEF FInv, Numbered
  <2> QED
    BY <1>3, <1>6, <1>7, <1>10, <1>13, <2>1 DEF FInv, Numbered
<1>16. ASSUME NEW d \in 1..Len(copies'), NEW j \in Slot
       PROVE  PrivateWrite(d, j)'
  <2>1. CASE d = n
    BY <1>6, <1>10, <1>12, <2>1 DEF PrivateWrite
  <2>2. CASE d \in 1..Len(copies)
    <3>1. copies'[d].content[j] = copies[d].content[j] /\ PrivateWrite(d, j)
      BY <1>3, <2>2 DEF FInv, Private
    <3>2. \A e \in 1..Len(copies'), i \in Slot :
            /\ copies'[e].content[i] = copies[d].content[j]
            /\ copies[d].content[j] \notin Had
            => e \in 1..Len(copies) /\ copies[e].content[i] = copies[d].content[j]
      <4> SUFFICES ASSUME NEW e \in 1..Len(copies'), NEW i \in Slot,
                          copies'[e].content[i] = copies[d].content[j],
                          copies[d].content[j] \notin Had
                   PROVE  e \in 1..Len(copies) /\ copies[e].content[i] = copies[d].content[j]
        OBVIOUS
      <4>1. e # n
        BY <1>6, <1>12
      <4>2. e \in 1..Len(copies)
        BY <1>13, <4>1
      <4> QED
        BY <1>3, <4>2
    <3>3. \A q \in Asked : run'[q.run].copy = run[q.run].copy
      BY <1>7
    <3> QED
      BY <1>7, <1>10, <3>1, <3>2, <3>3 DEF PrivateWrite
  <2> QED
    BY <1>13, <2>1, <2>2
<1>17. ASSUME NEW d \in 1..Len(copies)
       PROVE  CopyFresh(d)'
  <2>1. FlightStays(d)
    BY <1>3, <1>4, <1>8, <1>9 DEF FlightStays, Excused, AboutTo
  <2> QED
    BY <1>3, <2>1, CopyStaysFresh DEF FInv, CopiesFresh
<1>18. CopyFresh(n)'
  <2>1. Matches(n, p.version)'
    BY <1>6, <1>10, <1>11 DEF Matches
  <2>2. MatchedCopy(n)'
    BY <1>6, <1>9, <1>14, <2>1 DEF MatchedCopy
  <2>3. JudgedCopy(n)'
    BY <1>8, <1>14 DEF JudgedCopy
  <2>4. \A k \in Slot : p.content[k] \in Had'
    BY <1>10, <1>12
  <2>5. OwnedCopy(n)' /\ OwnedContent(n)'
    BY <1>6, <2>4 DEF OwnedCopy, OwnedContent, Owned
  <2>6. copies'[n].entryVersion <= copies'[n].version
    BY <1>6, <1>10
  <2> QED
    BY <2>2, <2>3, <2>5, <2>6 DEF CopyFresh
<1>19. Confirmed'
  <2>1. Forward
    <3>1. \A d \in 1..Len(copies) : copies[d].version \in Nat
      BY <1>1, CopyFields DEF Version
    <3>2. \A d \in 1..Len(copies) : copies'[d].version = copies[d].version
      BY <1>3
    <3> QED
      BY <3>1, <3>2 DEF Forward
  <2> QED
    BY <1>1, <1>7, <2>1, RequestStaysConfirmed, ReplyStaysConfirmed DEF FInv, Confirmed
<1> QED
  BY <1>13, <1>15, <1>16, <1>17, <1>18, <1>19 DEF FInv, Private, CopiesFresh

-----------------------------------------------------------------------------
(* The master advances.                                                    *)

\* The master takes content x.
Progress(x) ==
  /\ Len(Past) \in Nat /\ Len(Past') = Len(Past) + 1 /\ Past'[Len(Past) + 1] = x
  /\ \A v \in 1..Len(Past) : Past'[v] = Past[v]
  /\ \A w : w \in Had' <=> w \in Had \/ \E k \in Slot : w = x[k]

\* The versions of copies and of write-backs are of the past.
LEMMA VersionsPast ==
  ASSUME OneHandle, SInv
  PROVE  /\ \A c \in 1..Len(copies) : copies[c].version \in 1..Len(Past)
         /\ \A q \in Asked : q.kind \in Proposal => q.version \in 1..Len(Past)
<1>1. ASSUME NEW c \in 1..Len(copies)
      PROVE  copies[c].version \in 1..Len(Past)
  <2>1. copies[c].handle = TheHandle
    BY CopyFields, TheOne DEF SInv, TInv
  <2>2. Shown(hist[copies[c].handle], copies[c].version, copies[c].seen)
    BY DEF SInv, CopiesSeen, CopySeen
  <2> QED
    BY <2>1, <2>2 DEF Shown, Past
<1>2. ASSUME NEW q \in Asked, q.kind \in Proposal
      PROVE  q.version \in 1..Len(Past)
  <2>1. q \in Request /\ RequestSeen(q)
    BY FlightFields, FlightSaw DEF SInv, TInv, Places
  <2>2. q.handle = TheHandle
    BY <2>1, RequestFields, TheOne
  <2> QED
    BY <1>2, <2>1, <2>2 DEF RequestSeen, Shown, Past
<1> QED
  BY <1>1, <1>2

\* A copy that the new content takes nothing from.
LEMMA CopyStaysBehind ==
  ASSUME OneHandle, FInv, NEW x, Progress(x), UNCHANGED <<copies, run, rejected>>,
         NEW c \in 1..Len(copies), Acks(c)' = Acks(c), Refusals(c)' = Refusals(c),
         Proposals(c)' = Proposals(c),
         \A k \in Slot : copies[c].content[k] \notin Had => copies[c].content[k] \notin Had'
  PROVE  CopyFresh(c)'
<1>1. CopyFresh(c) /\ SInv /\ TInv
  BY DEF FInv, CopiesFresh, SInv
<1>2. Len(Past) \in Nat /\ copies[c].version \in 1..Len(Past)
  BY <1>1, VersionsPast DEF Progress
<1>3. ASSUME NEW v \in 1..Len(Past), Matches(c, v)
      PROVE  Matches(c, v)'
  <2>1. Past'[v] = Past[v]
    BY DEF Progress
  <2> QED
    BY <1>3, <2>1 DEF Matches
<1>4. MatchedCopy(c)'
  <2>1. Acks(c) = {} => Matches(c, copies[c].version)'
    BY <1>1, <1>2, <1>3 DEF CopyFresh, MatchedCopy
  <2>2. ASSUME NEW p \in Acks(c)
        PROVE  /\ Matches(c, p.version)' /\ copies[c].version < p.version
               /\ p.version <= Len(Past') /\ Acks(c) = {p}
    <3>1. /\ Matches(c, p.version) /\ copies[c].version < p.version /\ p.version <= Len(Past)
          /\ Acks(c) = {p}
      BY <1>1 DEF CopyFresh, MatchedCopy
    <3>2. p.version \in Nat
      <4>1. p.version \in Version
        BY <1>1, FlightKinds
      <4> QED
        BY <4>1 DEF Version
    <3>3. p.version \in 1..Len(Past)
      BY <1>2, <3>1, <3>2
    <3>4. Matches(c, p.version)'
      BY <1>3, <3>1, <3>3
    <3>5. p.version <= Len(Past')
      BY <1>2, <3>1, <3>2 DEF Progress
    <3> QED
      BY <3>1, <3>4, <3>5
  <2> QED
    BY <2>1, <2>2 DEF MatchedCopy
<1>5. JudgedCopy(c)'
  <2> SUFFICES ASSUME NEW q \in Proposals(c)
               PROVE  (q.kind = "replace" => q.slots = Slot) /\ q.version # Len(Past')
    BY DEF JudgedCopy
  <2>1. q.kind = "replace" => q.slots = Slot
    BY <1>1 DEF CopyFresh, JudgedCopy
  <2>2. q.version \in 1..Len(Past)
    BY <1>1, VersionsPast DEF Proposals
  <2> QED
    BY <1>2, <2>1, <2>2 DEF Progress
<1>6. \A k, w : Owned(c, k, w) => Owned(c, k, w)'
  BY DEF Owned, Progress
<1>7. OwnedCopy(c)' /\ OwnedContent(c)'
  BY <1>1, <1>6 DEF CopyFresh, OwnedCopy, OwnedContent, Excused, AboutTo
<1> QED
  BY <1>1, <1>4, <1>5, <1>7 DEF CopyFresh

\* What a write of the owner's own run makes of the master.
LEMMA OwnerWriteOutcome ==
  ASSUME OneHandle, SInv, NEW k \in Slot, OwnerWrite(k)
  PROVE  \E x \in Content : /\ Progress(x)
                            /\ \A j \in Slot : x[j] \in Had \cup {writes'}
<1>1. TInv /\ TypeOK
  BY DEF SInv, TInv
<1>2. PICK h \in Handle : h = tagged[local]
  BY <1>1, OwnerWriteEffect
<1>3. /\ version[h] # 0 /\ objs[h] \in 1..Len(object) /\ object'[objs[h]] \in Content
      /\ local \in 1..Len(object) /\ Advances(h, object'[objs[h]])
      /\ \A i \in 1..Len(object) : i # local => object'[i] = object[i]
  BY <1>1, <1>2, OwnerWriteEffect
<1>4. PICK x \in Content : x = object'[objs[h]]
  BY <1>3
<1>5. Advances(h, x)
  BY <1>3, <1>4
<1>6. Progress(x) /\ version[h] = Len(Past)
  BY <1>1, <1>3, <1>5, PastAdvances, PastTyped DEF Progress
<1>7. object[objs[h]] = Past[Len(Past)] /\ Len(Past) \in 1..Len(Past)
  <2>1. hist[h][version[h]] = object[objs[h]] /\ h = TheHandle
    BY <1>3, TheOne DEF SInv, Current
  <2>2. Len(Past) \in Nat /\ Len(Past) # 0
    BY <1>3, <1>6 DEF Progress
  <2> QED
    BY <1>6, <2>1, <2>2 DEF Past
<1>8. ASSUME NEW j \in Slot
      PROVE  x[j] \in {object[objs[h]][j], writes'}
  <2>1. CASE objs[h] = local
    <3>1. object \in Seq(Content) /\ object[local] \in Content
      BY <1>1, <1>3 DEF TypeOK
    <3>2. object' = [object EXCEPT ![local] = [@ EXCEPT ![k] = writes']]
      BY DEF OwnerWrite
    <3>3. object'[local] = [object[local] EXCEPT ![k] = writes']
      BY <1>3, <3>1, <3>2
    <3> QED
      BY <1>4, <2>1, <3>1, <3>3 DEF Content
  <2>2. CASE objs[h] # local
    BY <1>3, <1>4, <2>2
  <2> QED
    BY <2>1, <2>2
<1>9. \A j \in Slot : object[objs[h]][j] \in Had
  BY <1>7, HadMember
<1> QED
  BY <1>6, <1>8, <1>9

\* A write of the owner's own run: no copy has its number.
LEMMA OwnerWriteFresh ==
  ASSUME OneHandle, FInv, SInv', NEW k \in Slot, OwnerWrite(k)
  PROVE  FInv'
<1>1. TInv /\ SInv /\ TypeOK
  BY DEF FInv, SInv, TInv
<1>2. PICK x \in Content : Progress(x) /\ \A j \in Slot : x[j] \in Had \cup {writes'}
  BY <1>1, OwnerWriteOutcome
<1>3. UNCHANGED <<copies, run, rejected, toOwner, toReader>> /\ writes' = writes + 1
      /\ writes \in Nat
  BY <1>1, OwnerWriteEffect
<1>4. Asked' = Asked /\ Told' = Told
  BY <1>3 DEF Asked, Told
<1>5. \A w : (w \in Had => w \in Had') /\ (w \in Had' => w \in Had \/ w = writes')
  BY <1>2 DEF Progress
<1>6. /\ \A w \in Had : w \in Nat
      /\ \A c \in 1..Len(copies), j \in Slot : copies[c].content[j] \in Nat
      /\ \A q \in Asked : q.kind \in Proposal => \A j \in Slot : q.content[j] \in Nat
  <2>1. \A w \in Write : w \in Nat
    BY BoundsAssumption DEF Write
  <2>2. \A c \in 1..Len(copies), j \in Slot : copies[c].content[j] \in Write
    BY <1>1, CopyFields DEF Content
  <2>3. \A q \in Asked : q.kind \in Proposal => \A j \in Slot : q.content[j] \in Write
    BY <1>1, FlightFields, RequestFields DEF TInv, Places, Content
  <2> QED
    BY <1>1, <2>1, <2>2, <2>3, PastTyped
<1>7. \A w : w <= writes /\ w \in Nat => w <= writes' /\ w # writes'
  BY <1>3
<1>8. Numbered'
  <2>1. \A w \in Had' : w <= writes'
    BY <1>3, <1>5, <1>6, <1>7 DEF FInv, Numbered
  <2>2. \A c \in 1..Len(copies), j \in Slot : copies[c].content[j] <= writes'
    BY <1>6, <1>7 DEF FInv, Numbered
  <2>3. \A q \in Asked : q.kind \in Proposal => \A j \in Slot : q.content[j] <= writes'
    BY <1>6, <1>7 DEF FInv, Numbered
  <2> QED
    BY <1>3, <1>4, <2>1, <2>2, <2>3 DEF Numbered
<1>9. ASSUME NEW c \in 1..Len(copies), NEW j \in Slot
      PROVE  PrivateWrite(c, j)'
  <2>1. PrivateWrite(c, j)
    BY DEF FInv, Private
  <2> QED
    BY <1>3, <1>4, <1>5, <2>1 DEF PrivateWrite
<1>10. ASSUME NEW c \in 1..Len(copies)
       PROVE  CopyFresh(c)'
  <2>1. \A j \in Slot : copies[c].content[j] \notin Had => copies[c].content[j] \notin Had'
    BY <1>5, <1>6, <1>7 DEF FInv, Numbered
  <2>2. Acks(c)' = Acks(c) /\ Refusals(c)' = Refusals(c) /\ Proposals(c)' = Proposals(c)
    BY <1>3, <1>4 DEF Acks, Refusals, Proposals
  <2> QED
    BY <1>2, <1>3, <2>1, <2>2, CopyStaysBehind
<1>11. Confirmed'
  BY <1>3, <1>4 DEF FInv, Confirmed, RequestConfirmed, ReplyConfirmed
<1> QED
  BY <1>3, <1>8, <1>9, <1>10, <1>11 DEF FInv, Private, CopiesFresh

\* What an accepted write-back makes of the master.
LEMMA AcceptedOutcome ==
  ASSUME OneHandle, FInv, ServeAccepted
  PROVE  LET q == Head(toOwner)
         IN  \E x \in Content :
               /\ Progress(x) /\ q \in Asked /\ q.kind \in Proposal /\ q.version = Len(Past)
               /\ \A k \in Slot : /\ k \in q.slots => x[k] = q.content[k]
                                  /\ k \notin q.slots => x[k] = Past[Len(Past)][k]
               /\ Len(Past) \in 1..Len(Past)
               /\ Answered(Accepted(q)) /\ Accepted(q).version = Len(Past) + 1
<1>1. TInv /\ SInv /\ TypeOK /\ FlightPlaced /\ VersionBudget
  BY DEF FInv, SInv, TInv, Places
<1>2. toOwner # <<>> /\ Head(toOwner).kind \in Proposal
  BY <1>1, ServeAcceptedEffect
<1>3. PICK q \in Request : q = Head(toOwner)
  BY <1>1, <1>2, JudgedPlaced
<1>4. q.kind \in Proposal /\ q = toOwner[1] /\ 1 \in DOMAIN toOwner /\ q.handle \in Handle
  BY <1>1, <1>2, <1>3, JudgedPlaced
<1>5. PICK h \in Handle : h = q.handle
  BY <1>4
<1>6. /\ version[h] # 0 /\ version[h] = q.version /\ Outcome(q) \in Content
      /\ Advances(h, Outcome(q)) /\ Answered(Accepted(q))
  BY <1>1, <1>3, <1>5, ServeAcceptedEffect
<1>7. PICK x \in Content : x = Outcome(q)
  BY <1>6
<1>8. Advances(h, x)
  BY <1>6, <1>7
<1>9. Progress(x) /\ version[h] = Len(Past)
  BY <1>1, <1>6, <1>8, PastAdvances, PastTyped DEF Progress
<1>10. object[objs[h]] = Past[Len(Past)] /\ Len(Past) \in 1..Len(Past)
  <2>1. hist[h][version[h]] = object[objs[h]] /\ h = TheHandle
    BY <1>1, <1>6, TheOne DEF SInv, Current
  <2>2. Len(Past) \in Nat /\ Len(Past) # 0
    BY <1>6, <1>9 DEF Progress
  <2> QED
    BY <1>9, <2>1, <2>2 DEF Past
<1>11. q \in Asked
  BY <1>4 DEF Asked
<1>12. q.kind = "replace" => q.slots = Slot
  <2>1. q.run \in Run /\ RequestPlaced(q)
    BY <1>1, <1>11, FlightFields
  <2>2. run[q.run].copy \in 1..Len(copies)
    <3>1. run[q.run].copy # 0
      BY <1>1, <1>4, <2>1 DEF TInv, Places, RunsPlaced, RunPlaced, RequestPlaced, Proposal,
         WritePoint
    <3> QED
      BY <1>1, <2>1, <3>1, HeldFields
  <2>3. q \in Proposals(run[q.run].copy)
    BY <1>4, <1>11 DEF Proposals
  <2> QED
    BY <2>2, <2>3 DEF FInv, CopiesFresh, CopyFresh, JudgedCopy
<1>13. ASSUME NEW k \in Slot
       PROVE  /\ k \in q.slots => x[k] = q.content[k]
              /\ k \notin q.slots => x[k] = Past[Len(Past)][k]
  <2>1. CASE q.kind = "apply"
    <3>1. x = Patched(object[objs[h]], q)
      BY <1>5, <1>7, <2>1 DEF Outcome
    <3> QED
      BY <1>10, <3>1 DEF Patched
  <2>2. CASE q.kind = "replace"
    <3>1. x = q.content
      BY <1>7, <2>2 DEF Outcome
    <3> QED
      BY <1>12, <2>2, <3>1
  <2> QED
    BY <1>4, <2>1, <2>2 DEF Proposal
<1>14. Accepted(q).version = Len(Past) + 1
  BY <1>5, <1>9 DEF Accepted
<1> QED
  BY <1>3, <1>4, <1>6, <1>9, <1>10, <1>11, <1>13, <1>14

\* A write-back is accepted: its copy matches the new version, no other copy is concerned.
LEMMA ServeAcceptedFresh ==
  ASSUME OneHandle, FInv, SInv', ServeAccepted
  PROVE  FInv'
<1>1. TInv /\ SInv /\ TypeOK
  BY DEF FInv, SInv, TInv
<1>2. PICK q \in Asked, x \in Content :
        /\ q = Head(toOwner)
        /\ Progress(x) /\ q.kind \in Proposal /\ q.version = Len(Past)
        /\ \A k \in Slot : /\ k \in q.slots => x[k] = q.content[k]
                           /\ k \notin q.slots => x[k] = Past[Len(Past)][k]
        /\ Len(Past) \in 1..Len(Past)
        /\ Answered(Accepted(q)) /\ Accepted(q).version = Len(Past) + 1
  BY AcceptedOutcome
<1>3. PICK reply : reply = Accepted(q)
  OBVIOUS
<1>4. /\ Answered(reply) /\ reply.version = Len(Past) + 1 /\ reply.kind = "ok"
      /\ reply.run = q.run
  BY <1>2, <1>3 DEF Accepted
<1>5. UNCHANGED <<copies, run, rejected, writes>>
  BY <1>4 DEF Answered
<1>6. q.run \in Run /\ q \in Request /\ RequestPlaced(q)
  BY <1>1, <1>2, FlightFields DEF TInv, Places
<1>7. PICK c \in 1..Len(copies) : c = run[q.run].copy
  <2>1. run[q.run].copy # 0
    BY <1>1, <1>2, <1>6 DEF TInv, Places, RunsPlaced, RunPlaced, RequestPlaced, Proposal,
       WritePoint
  <2> QED
    BY <1>1, <1>6, <2>1, HeldFields
<1>8. Asked' = Asked \ {q} /\ Told' = Told \cup {reply}
  BY <1>1, <1>2, <1>4, AnsweredFlight
<1>9. ASSUME NEW d
      PROVE  /\ Proposals(d)' = Proposals(d) \ {q} /\ Refusals(d)' = Refusals(d)
             /\ d # c => Proposals(d)' = Proposals(d) /\ Acks(d)' = Acks(d)
             /\ d = c => Acks(d)' = Acks(d) \cup {reply}
  <2>1. /\ Proposals(d)' = Proposals(d) \ {q}
        /\ Acks(d)' = Acks(d) \cup {p \in {reply} : p.kind = "ok" /\ run[p.run].copy = d}
        /\ Refusals(d)' = Refusals(d) \cup
             {p \in {reply} : /\ p.kind \in {"conflict", "error"} /\ run[p.run].copy = d
                              /\ run[p.run].at \in WritePoint}
    BY <1>1, <1>2, <1>4, AnsweredFlight
  <2>2. d # c => q \notin Proposals(d)
    BY <1>7 DEF Proposals
  <2> QED
    BY <1>4, <1>7, <2>1, <2>2
<1>10. q \in Proposals(c) /\ CopyFresh(c)
  BY <1>2, <1>7 DEF Proposals, FInv, CopiesFresh
<1>11. /\ copies[c].version = Len(Past)
       /\ \A k \in q.slots : copies[c].content[k] \in {q.content[k]} \cup (Write \ Had)
  BY <1>2, <1>10 DEF CopyFresh, JudgedCopy
<1>12. Acks(c) = {}
  <2> SUFFICES ASSUME NEW p \in Acks(c) PROVE FALSE
    OBVIOUS
  <2>1. copies[c].version < p.version /\ p.version <= Len(Past)
    BY <1>10 DEF CopyFresh, MatchedCopy
  <2>2. p.version \in Nat /\ Len(Past) \in Nat
    <3>1. p.version \in Version
      BY <1>1, FlightKinds
    <3> QED
      BY <1>2, <3>1 DEF Version, Progress
  <2> QED
    BY <1>11, <2>1, <2>2
<1>13. Matches(c, Len(Past))
  BY <1>10, <1>11, <1>12 DEF CopyFresh, MatchedCopy
<1>14. q.slots \in SUBSET Slot
  BY <1>1, <1>10, FlightKinds
<1>15. \A w : (w \in Had => w \in Had') /\ (\A k \in Slot : x[k] \in Had')
  BY <1>2 DEF Progress
<1>16. ASSUME NEW w \in Had', w \notin Had
       PROVE  \E k \in q.slots : w = q.content[k]
  <2>1. PICK k \in Slot : w = x[k]
    BY <1>2, <1>16 DEF Progress
  <2>2. k \in q.slots
    BY <1>2, <1>16, <2>1, HadMember
  <2> QED
    BY <1>2, <2>1, <2>2
<1>17. ASSUME NEW d \in 1..Len(copies), NEW j \in Slot, copies[d].content[j] \notin Had,
              copies[d].content[j] \in Had'
       PROVE  d = c /\ j \in q.slots /\ copies[d].content[j] = x[j]
  <2>1. PICK k \in q.slots : copies[d].content[j] = q.content[k]
    BY <1>16, <1>17
  <2>2. PrivateWrite(d, j)
    BY DEF FInv, Private
  <2>3. run[q.run].copy = d /\ k = j
    BY <1>2, <1>14, <1>17, <2>1, <2>2 DEF PrivateWrite
  <2> QED
    BY <1>2, <1>7, <2>1, <2>3
<1>18. Numbered'
  <2>1. \A w \in Had' : w <= writes
    <3> SUFFICES ASSUME NEW w \in Had', w \notin Had PROVE w <= writes
      BY DEF FInv, Numbered
    <3> QED
      BY <1>2, <1>14, <1>16 DEF FInv, Numbered
  <2> QED
    BY <1>5, <1>8, <2>1 DEF FInv, Numbered
<1>19. ASSUME NEW d \in 1..Len(copies), NEW j \in Slot
       PROVE  PrivateWrite(d, j)'
  <2>1. PrivateWrite(d, j)
    BY DEF FInv, Private
  <2> QED
    BY <1>5, <1>8, <1>15, <2>1 DEF PrivateWrite
<1>20. ASSUME NEW d \in 1..Len(copies), d # c
       PROVE  CopyFresh(d)'
  <2>1. \A j \in Slot : copies[d].content[j] \notin Had => copies[d].content[j] \notin Had'
    BY <1>17, <1>20
  <2> QED
    BY <1>2, <1>5, <1>9, <1>20, <2>1, CopyStaysBehind
<1>21. CopyFresh(c)'
  <2>1. MatchedCopy(c)'
    <3>1. ASSUME NEW k \in Slot
          PROVE  copies[c].content[k] \in {x[k]} \cup (Write \ Had')
      <4>1. copies[c].content[k] \in {x[k]} \cup (Write \ Had)
        <5>1. CASE k \in q.slots
          BY <1>2, <1>11, <5>1
        <5>2. CASE k \notin q.slots
          BY <1>2, <1>13, <5>2 DEF Matches
        <5> QED
          BY <5>1, <5>2
      <4> QED
        BY <1>17, <4>1
    <3>2. Matches(c, reply.version)'
      <4>1. Past'[reply.version] = x
        BY <1>2, <1>4 DEF Progress
      <4> QED
        BY <1>5, <3>1, <4>1 DEF Matches
    <3>3. Acks(c)' = {reply}
      BY <1>9, <1>12
    <3>4. Len(Past) < reply.version /\ reply.version <= Len(Past')
      BY <1>2, <1>4 DEF Progress
    <3> QED
      BY <1>5, <1>11, <3>2, <3>3, <3>4 DEF MatchedCopy
  <2>2. JudgedCopy(c)'
    <3> SUFFICES ASSUME NEW m \in Proposals(c)
                 PROVE  (m.kind = "replace" => m.slots = Slot) /\ m.version # Len(Past')
      BY <1>9 DEF JudgedCopy
    <3>1. m.kind = "replace" => m.slots = Slot
      BY <1>10 DEF CopyFresh, JudgedCopy
    <3>2. m.version \in 1..Len(Past) /\ Len(Past') = Len(Past) + 1 /\ Len(Past) \in Nat
      BY <1>1, <1>2, VersionsPast DEF Proposals, Progress
    <3>3. m.version # Len(Past')
      BY <3>2
    <3> QED
      BY <3>1, <3>3
  <2>3. ASSUME NEW k \in Slot, NEW w, Owned(c, k, w)
        PROVE  Owned(c, k, w)'
    BY <1>2, <1>9, <1>15, <2>3 DEF Owned
  <2>4. OwnedCopy(c)' /\ OwnedContent(c)'
    BY <1>5, <1>9, <1>10, <2>3 DEF CopyFresh, OwnedCopy, OwnedContent, Excused, AboutTo
  <2> QED
    BY <1>5, <1>10, <2>1, <2>2, <2>4 DEF CopyFresh
<1>22. Confirmed'
  <2>1. Forward
    BY <1>1, <1>5, SameForward
  <2>2. \A m \in Asked' : RequestConfirmed(m)'
    BY <1>1, <1>5, <1>8, <2>1, RequestStaysConfirmed DEF FInv
  <2>3. \A p \in Told : ReplyConfirmed(p)'
    BY <1>1, <1>5, <2>1, ReplyStaysConfirmed DEF FInv
  <2>4. ReplyConfirmed(reply)'
    BY <1>4 DEF ReplyConfirmed
  <2> QED
    BY <1>8, <2>2, <2>3, <2>4 DEF Confirmed
<1> QED
  BY <1>5, <1>18, <1>19, <1>20, <1>21, <1>22 DEF FInv, Private, CopiesFresh

-----------------------------------------------------------------------------
(* What a dereference finds.                                               *)

\* Before the first write every copy is to be fetched.
LEMMA InitFInv == OneHandle /\ Init => FInv
<1> SUFFICES ASSUME OneHandle, Init
             PROVE  FInv
  OBVIOUS
<1>1. SInv /\ TypeOK
  BY InitSInv DEF SInv, TInv
<1>2. copies = <<>> /\ toOwner = <<>> /\ toReader = <<>> /\ writes = 0
      /\ hist = [h \in Handle |-> <<Untouched>>]
  BY DEF Init
<1>3. Asked = {} /\ Told = {} /\ 1..Len(copies) = {}
  BY <1>2 DEF Asked, Told
<1>4. Past = <<Untouched>>
  BY <1>2, TheOne DEF Past
<1>5. \A w \in Had : w <= writes
  <2> SUFFICES ASSUME NEW w \in Had PROVE w <= writes
    OBVIOUS
  <2>1. PICK v \in 1..Len(Past), k \in Slot : w = Past[v][k]
    BY HadMember
  <2>2. v = 1 /\ Past[v] = Untouched
    BY <1>4, <2>1
  <2>3. w = 0
    BY <2>1, <2>2 DEF Untouched
  <2> QED
    BY <1>2, <2>3
<1> QED
  BY <1>1, <1>3, <1>5 DEF FInv, Numbered, Private, CopiesFresh, Confirmed

\* Every step, and stuttering, keeps the copies fresh.
LEMMA NextFInv == OneHandle /\ FInv /\ [Next]_vars => FInv'
<1> SUFFICES ASSUME OneHandle, FInv, [Next]_vars
             PROVE  FInv'
  OBVIOUS
<1>0. SInv'
  BY NextSInv DEF FInv
<1>1. ASSUME NEW h \in Handle, OwnerDeref(h) \/ Release(h) \/ Evict(h) PROVE FInv'
  BY <1>0, <1>1, OwnerStepFresh DEF OwnerDeref, Release, Evict, owner, reader
<1>2. ASSUME NEW k \in Slot, OwnerWrite(k) PROVE FInv'
  BY <1>0, <1>2, OwnerWriteFresh
<1>3. CASE ServeDeref \/ ServeRejected \/ ServeAccepted
  BY <1>0, <1>3, ServeDerefFresh, ServeRejectedFresh, ServeAcceptedFresh
<1>4. ASSUME NEW r \in Run, RunStep(r) PROVE FInv'
  <2>1. ASSUME NEW h \in Handle, DerefLookup(r, h) PROVE FInv'
    BY <1>0, <2>1, DerefLookupFresh
  <2>2. CASE DerefSend(r) \/ DerefSame(r) \/ DerefFetched(r) \/ DerefError(r)
    BY <1>0, <2>2, DerefSendFresh, DerefOverFresh, DerefFetchedFresh
  <2>3. ASSUME NEW k \in Slot, WriteLookup(r, k) PROVE FInv'
    BY <1>0, <2>3, WriteLookupFresh
  <2>4. CASE WriteApply(r) \/ WriteReplace(r) \/ WriteApplied(r) \/ WriteReplaced(r)
               \/ WriteRejected(r)
    BY <1>0, <2>4, WriteApplyFresh, WriteReplaceFresh, WriteOkFresh, WriteRejectedFresh
  <2> QED
    BY <1>4, <2>1, <2>2, <2>3, <2>4 DEF RunStep
<1>5. CASE UNCHANGED vars
  BY <1>0, <1>5, OwnerStepFresh DEF vars
<1> QED
  BY <1>1, <1>2, <1>3, <1>4, <1>5 DEF Next

\* Some version the content of a copy is, but for writes the master has never had.
ReadAt(c, v) ==
  \A k \in Slot : \/ copies[c].content[k] = Past[v][k]
                  \/ copies[c].content[k] \notin Had /\ (Writing(c) \/ c \in rejected)

\* What a run finds in a copy.
LEMMA CopyRead ==
  ASSUME OneHandle, FInv, NEW c \in 1..Len(copies)
  PROVE  \E v \in 1..Len(Past) : copies[c].version <= v /\ ReadAt(c, v)
<1>1. CopyFresh(c) /\ SInv /\ TInv
  BY DEF FInv, CopiesFresh, SInv
<1>2. copies[c].version \in 1..Len(Past) /\ Len(Past) \in Nat
  BY <1>1, VersionsPast, PastTyped DEF TInv
<1>3. PICK v \in 1..Len(Past) : copies[c].version <= v /\ Matches(c, v)
  <2>1. CASE Acks(c) = {}
    <3>1. Matches(c, copies[c].version) /\ copies[c].version <= copies[c].version
      BY <1>1, <1>2, <2>1 DEF CopyFresh, MatchedCopy
    <3> QED
      BY <1>2, <3>1
  <2>2. ASSUME NEW p \in Acks(c)
        PROVE  \E v \in 1..Len(Past) : copies[c].version <= v /\ Matches(c, v)
    <3>1. Matches(c, p.version) /\ copies[c].version < p.version /\ p.version <= Len(Past)
      BY <1>1 DEF CopyFresh, MatchedCopy
    <3>2. p.version \in Version
      BY <1>1, FlightKinds
    <3>3. p.version \in Nat
      BY <3>2 DEF Version
    <3>4. p.version \in 1..Len(Past) /\ copies[c].version <= p.version
      BY <1>2, <3>1, <3>3
    <3> QED
      BY <3>1, <3>4
  <2> QED
    BY <2>1, <2>2
<1>4. ASSUME NEW k \in Slot, copies[c].content[k] \notin Had
      PROVE  Writing(c) \/ c \in rejected
  <2>1. CASE Excused(c)
    <3>1. CASE c \in rejected
      BY <3>1
    <3>2. ASSUME NEW p \in Refusals(c)
          PROVE  Writing(c)
      <4>1. /\ p.run \in Run /\ run[p.run].copy = c
            /\ run[p.run].at \in {"apply reply", "replace reply"}
        BY <1>1, FlightKinds
      <4> QED
        BY <4>1 DEF Writing
    <3> QED
      BY <2>1, <3>1, <3>2 DEF Excused
  <2>2. CASE \E r \in Run : AboutTo(r, c)
    BY <2>2 DEF AboutTo, Writing
  <2>3. CASE Owned(c, k, copies[c].content[k])
    <3>1. PICK q \in Proposals(c) : TRUE
      BY <1>4, <2>3 DEF Owned
    <3>2. /\ q.run \in Run /\ run[q.run].copy = c
          /\ run[q.run].at \in {"apply reply", "replace reply"}
      BY <1>1, FlightKinds
    <3> QED
      BY <3>2 DEF Writing
  <2> QED
    BY <1>1, <2>1, <2>2, <2>3 DEF CopyFresh, OwnedContent
<1>5. ReadAt(c, v)
  BY <1>3, <1>4 DEF ReadAt, Matches
<1> QED
  BY <1>3, <1>5

\* What run r has read is what the master was at version v.
Read(r, v) ==
  LET c == run'[r].copy
      got == copies'[c].content
  IN  \A k \in Slot : \/ got[k] = Past[v][k]
                      \/ got[k] \notin Had /\ (Writing(c) \/ c \in rejected)

\* The entry that the owner has confirmed.
LEMMA SameRead ==
  ASSUME OneHandle, FInv, NEW r \in Run, DerefSame(r)
  PROVE  \E v \in run[r].floor..Len(Past) : Read(r, v)
<1>1. SInv /\ TInv /\ TypeOK
  BY DEF FInv, SInv, TInv
<1>2. PICK p : p = Head(toReader)
  OBVIOUS
<1>3. p.run = r /\ p.kind = "same" /\ toReader # <<>> /\ UNCHANGED copies
  BY <1>2 DEF DerefSame, ReplyTo, reader
<1>4. p \in Told /\ p \in Reply /\ p.version \in Version
  <2>1. toReader \in Seq(Reply) /\ 1 \in DOMAIN toReader /\ Head(toReader) = toReader[1]
    BY <1>1, <1>3, TailQueue DEF TypeOK
  <2>2. p \in Told
    BY <1>2, <2>1 DEF Told
  <2>3. p \in Reply
    BY <1>1, <2>2, FlightFields DEF TInv, Places
  <2> QED
    BY <1>3, <2>2, <2>3, ReplyFields
<1>5. PICK c \in Nat : c = run[r].entry
  BY <1>1, RunFields
<1>6. c # 0 /\ run[r].floor <= p.version /\ p.version <= copies[c].version
  <2>1. ReplySeen(p) /\ ReplyConfirmed(p)
    BY <1>1, <1>4, FlightSaw DEF SInv, FInv, Confirmed
  <2> QED
    BY <1>3, <1>5, <2>1 DEF ReplySeen, ReplyConfirmed
<1>7. c \in 1..Len(copies)
  <2>1. c <= Len(copies) /\ Len(copies) \in Nat
    BY <1>1, <1>5, CopyFields DEF TInv, Places, RunsPlaced, RunPlaced
  <2> QED
    BY <1>6, <2>1
<1>8. run'[r].copy = c
  <2>1. run[r] \in RunState
    BY <1>1, RunFields
  <2>2. run' = [run EXCEPT ![r] = [@ EXCEPT !.at = "nothing", !.copy = run[r].entry]]
    BY DEF DerefSame
  <2>3. run \in [Run -> RunState]
    BY <1>1 DEF TypeOK
  <2>4. run'[r] = [run[r] EXCEPT !.at = "nothing", !.copy = c]
    BY <1>5, <2>2, <2>3
  <2> QED
    BY <2>1, <2>4 DEF RunState
<1>9. PICK v \in 1..Len(Past) : copies[c].version <= v /\ ReadAt(c, v)
  BY <1>7, CopyRead
<1>10. v \in run[r].floor..Len(Past)
  <2>1. run[r].floor \in Nat /\ p.version \in Nat /\ copies[c].version \in Nat /\ Len(Past) \in Nat
    <3>1. run[r].floor \in Nat
      <4>1. run[r].floor \in Version
        BY <1>1, RunFields
      <4> QED
        BY <4>1 DEF Version
    <3>2. p.version \in Nat /\ copies[c].version \in Nat
      BY <1>1, <1>4, <1>7, CopyFields DEF Version
    <3> QED
      BY <1>1, <3>1, <3>2, PastTyped
  <2> QED
    BY <1>6, <1>9, <2>1
<1>11. Read(r, v)
  BY <1>3, <1>8, <1>9 DEF Read, ReadAt
<1> QED
  BY <1>10, <1>11

\* The copy that the owner has sent.
LEMMA FetchedRead ==
  ASSUME OneHandle, FInv, NEW r \in Run, DerefFetched(r)
  PROVE  \E v \in run[r].floor..Len(Past) : Read(r, v)
<1>1. SInv /\ TInv /\ TypeOK
  BY DEF FInv, SInv, TInv
<1>2. PICK p \in Reply, n \in Nat : p = Head(toReader) /\ n = Len(copies) + 1
  <2>1. Head(toReader) \in Reply /\ Len(copies) \in Nat
    BY <1>1, DerefFetchedEffect, CopyFields
  <2> QED
    BY <2>1
<1>3. /\ toReader # <<>> /\ p.run = r /\ p.kind = "fetched" /\ copies'[n] = Fetched(r, p)
  BY <1>1, <1>2, DerefFetchedEffect
<1>4. run'[r].copy = n
  <2>1. run[r] \in RunState /\ run'[r] = [run[r] EXCEPT !.at = "nothing", !.copy = n]
    BY <1>1, <1>2, DerefFetchedEffect, RunFields
  <2> QED
    BY <2>1 DEF RunState
<1>5. copies'[n].content = p.content
  BY <1>3 DEF Fetched
<1>6. p \in Told
  <2>1. toReader \in Seq(Reply) /\ 1 \in DOMAIN toReader /\ Head(toReader) = toReader[1]
    BY <1>1, <1>3, TailQueue DEF TypeOK
  <2> QED
    BY <1>2, <2>1 DEF Told
<1>7. /\ run[r].floor <= p.version /\ p.version \in 1..Len(Past)
      /\ p.content = Past[p.version]
  <2>1. ReplySeen(p)
    BY <1>1, <1>6, FlightSaw DEF SInv
  <2>2. run[r].handle = TheHandle
    BY <1>1, TheOne, RunFields
  <2> QED
    BY <1>3, <2>1, <2>2 DEF ReplySeen, Past
<1>8. p.version \in run[r].floor..Len(Past)
  <2>1. run[r].floor \in Nat /\ Len(Past) \in Nat
    <3>1. run[r].floor \in Nat
      <4>1. run[r].floor \in Version
        BY <1>1, RunFields
      <4> QED
        BY <4>1 DEF Version
    <3> QED
      BY <1>1, <3>1, PastTyped
  <2> QED
    BY <1>7, <2>1
<1>9. Read(r, p.version)
  BY <1>4, <1>5, <1>7 DEF Read
<1> QED
  BY <1>8, <1>9

\* A dereference (deref, coherence.mts) returns what the master was at one version no older than
\* when it began, slot by slot, but for writes that the master has never had, in a copy that is
\* being written through or has had a write-back rejected: for any number of runs, slots, copies
\* and writes.
THEOREM DereferencesAreFresh == OneHandle => (Spec => FreshRead)
<1> SUFFICES ASSUME OneHandle
             PROVE  Spec => FreshRead
  OBVIOUS
<1>1. Init => FInv
  BY InitFInv
<1>2. FInv /\ [Next]_vars => FInv'
  BY NextFInv
<1>3. FInv => [\A r \in Run : DerefSame(r) \/ DerefFetched(r) =>
                 LET h == run[r].handle
                     c == run'[r].copy
                     got == copies'[c].content
                 IN  \E v \in run[r].floor..Len(hist[h]) :
                       \A k \in Slot :
                         \/ got[k] = hist[h][v][k]
                         \/ got[k] \notin Taken(h) /\ (Writing(c) \/ c \in rejected)]_vars
  <2> SUFFICES ASSUME FInv, NEW r \in Run, DerefSame(r) \/ DerefFetched(r)
               PROVE  \E v \in run[r].floor..Len(hist[run[r].handle]) :
                        \A k \in Slot :
                          \/ copies'[run'[r].copy].content[k] = hist[run[r].handle][v][k]
                          \/ /\ copies'[run'[r].copy].content[k] \notin Taken(run[r].handle)
                             /\ Writing(run'[r].copy) \/ run'[r].copy \in rejected
    OBVIOUS
  <2>1. run[r].handle = TheHandle
    BY TheOne, RunFields DEF FInv, SInv, TInv
  <2>2. PICK v \in run[r].floor..Len(Past) : Read(r, v)
    BY SameRead, FetchedRead
  <2> QED
    BY <2>1, <2>2 DEF Read, Past, Had
<1> QED
  BY <1>1, <1>2, <1>3, PTL DEF Spec, FreshRead

=============================================================================
