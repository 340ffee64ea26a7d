---------------------------- MODULE DeltaSession ----------------------------
(***************************************************************************)
(* A continuation that goes back and forth as a delta over what the other   *)
(* tier already holds: the sessions of packages/tierless/src/wire-delta.mts *)
(* as a program drives them (test/e2e/delta-live.mts).                      *)
(*                                                                         *)
(* A continuation is a graph: the frames' locals (roots) refer to objects,  *)
(* each with a datum and slots for other objects.  Each tier names the      *)
(* objects it has seen; a delta carries the names of the roots and the      *)
(* contents of some objects, with names in their slots; a full frame        *)
(* carries the graph and no names, and both ends then name its objects      *)
(* alike (adoptBaseline).  What a delta carries is chosen by the writes the *)
(* program reported ("tracked", "exact") or by comparing the contents with  *)
(* what the peer has ("rescan").                                            *)
(*                                                                         *)
(* Left out: excision (a handle is an object without slots here), patches   *)
(* of single slots (Snapshot.tla), bytes, and which of delta and full is    *)
(* smaller: either may be (a delta that is weighed and dropped has only     *)
(* advanced the counter of names).                                          *)
(***************************************************************************)
EXTENDS Naturals, Sequences, SequencesExt, FiniteSets

CONSTANTS Modes,      \* the ways to find what changed that are checked
          Width,      \* locals of the continuation, and slots of an object
          MaxWrites,  \* bound on the program's writes
          MaxHops,    \* bound on crossings
          MaxFull     \* bound on the crossings in full

ASSUME DeltaAssumption ==
    Modes \subseteq {"tracked", "exact", "rescan"} /\ Width \in Nat \ {0}
    /\ {MaxWrites, MaxHops, MaxFull} \subseteq Nat

Tier == {"browser", "server"}
Other(t) == IF t = "browser" THEN "server" ELSE "browser"
Nil == 0
Slots == 1..Width

VARIABLES mode,     \* how changes are found
          session,  \* session[t]: names, stores and baselines of tier t
          heap,     \* heap[t]: the objects of tier t
          roots,    \* roots[t]: the locals of the continuation
          holder,   \* the tier whose turn it is
          wire,     \* the frame under way, <<>> if none
          writes, hops, fulls,
          sent      \* history: the graph that was sent and its names, in the walk's order

deltaVars == <<mode, session, heap, roots, holder, wire, writes, hops, fulls, sent>>

\* f, and g where f says nothing.
Over(f, g) == [x \in DOMAIN f \cup DOMAIN g |-> IF x \in DOMAIN f THEN f[x] ELSE g[x]]

(***************************************************************************)
(* Graphs.                                                                  *)
(***************************************************************************)
Empty == [val |-> 0, slots |-> [i \in Slots |-> Nil]]

\* A depth-first walk from vs that has been to the objects of q, and does not go to those of
\* skip[n] when it has been to n: the places, in vs (0) and in the k-th object of q, that refer
\* to an object it has still to go to.  It goes to the first of those of the latest object.
Refs(h, vs, q, k) == IF k = 0 THEN vs ELSE h[q[k]].slots
Left(h, vs, skip, q) ==
    {p \in (0..Len(q)) \X (1..(Width + Len(h))) :
       /\ p[2] \in DOMAIN Refs(h, vs, q, p[1])
       /\ Refs(h, vs, q, p[1])[p[2]] \notin {Nil} \cup Range(q) \cup skip[Len(q)]}
FirstLeft(left) ==
    CHOOSE p \in left : \A r \in left : r[1] < p[1] \/ (r[1] = p[1] /\ p[2] <= r[2])
Step(h, vs, skip, q) ==
    LET left == Left(h, vs, skip, q)
    IN  IF left = {} THEN q
        ELSE Append(q, Refs(h, vs, q, FirstLeft(left)[1])[FirstLeft(left)[2]])
Walk(h, vs, skip) ==
    LET been[n \in Nat] == IF n = 0 THEN <<>> ELSE Step(h, vs, skip, been[n - 1])
    IN  been[Len(h)]

Order(h, rs) == Walk(h, rs, [n \in 0..Len(h) |-> {}])
Reach(h, rs) == Range(Order(h, rs))
Place(q, v) == CHOOSE k \in DOMAIN q : q[k] = v

\* A graph up to the identity of its objects.
Shape(h, rs) ==
    LET order == Order(h, rs)
        at(v) == IF v = Nil THEN Nil ELSE Place(order, v)
    IN  [nodes |-> [k \in DOMAIN order |->
                      [val |-> h[order[k]].val, slots |-> [i \in Slots |-> at(h[order[k]].slots[i])]]],
         roots |-> [i \in Slots |-> at(rs[i])]]

(***************************************************************************)
(* Sessions: idOf and store, the names the peer is known to hold (seen),    *)
(* the objects written (dirty), and the contents the peer holds (peerVer).  *)
(***************************************************************************)
NoName == <<"nobody", 0>>
NewSession(t) ==
    [tier |-> t, idOf |-> <<>>, next |-> 1, store |-> <<>>, seen |-> {}, dirty |-> {},
     peerVer |-> <<>>]

IdOf(s, v) == IF v \in DOMAIN s.idOf THEN s.idOf[v] ELSE NoName
Lookup(s, id) == IF id \in DOMAIN s.store THEN s.store[id] ELSE Nil

\* sidOf, for each of vs: a new name for an object that has none.
FreshName(s, vs, v) == <<s.tier, s.next - 1 + Cardinality({w \in vs \ DOMAIN s.idOf : w <= v})>>
WithNames(s, vs) ==
    LET new == vs \ DOMAIN s.idOf
        ids == {FreshName(s, vs, v) : v \in new}
    IN  [s EXCEPT !.idOf = Over([v \in new |-> FreshName(s, vs, v)], @),
                  !.store = Over([id \in ids |-> CHOOSE v \in new : FreshName(s, vs, v) = id], @),
                  !.next = @ + Cardinality(new)]

\* What an object holds, by name.
Holds(s, h, v) == [val |-> h[v].val, slots |-> [i \in Slots |-> IdOf(s, h[v].slots[i])]]

\* adoptBaseline, over the store `kept`: every object is named by its place in the walk, and is
\* known to the peer; one whose old name is a new one already given is taken to be placed.
Baseline(n) == {<<"@", k>> : k \in 0..(n - 1)}
AdoptOver(s, h, rs, kept) ==
    LET skip == [n \in 0..Len(h) |-> {v \in DOMAIN s.idOf : s.idOf[v] \in Baseline(n)}]
        order == Walk(h, rs, skip)
    IN  [s EXCEPT !.idOf = Over([v \in Range(order) |-> <<"@", Place(order, v) - 1>>], @),
                  !.store = Over([id \in Baseline(Len(order)) |-> order[id[2] + 1]], kept),
                  !.seen = Baseline(Len(order)),
                  !.dirty = {}]
\* Variant: the old store is kept.
AdoptOverOld(s, h, rs) == AdoptOver(s, h, rs, s.store)
AdoptBaseline(s, h, rs) == AdoptOver(s, h, rs, <<>>)

\* scan, and the contents by which a rescan session compares.
Scan(s, h, rs) == WithNames(s, Reach(h, rs))
Versions(s, h, rs) ==
    [id \in {s.idOf[v] : v \in Reach(h, rs)} |-> Holds(s, h, s.store[id])]

(***************************************************************************)
(* What to ship: the names in `ship`, and the session after naming.         *)
(***************************************************************************)

\* selectDirty: from the roots and the dirty objects, through what is dirty or new.
ShipFrom(s, h, vs) ==
    LET known == {v \in DOMAIN s.idOf : s.idOf[v] \in s.seen /\ v \notin s.dirty}
        visited == Range(Walk(h, vs, [n \in 0..Len(h) |-> known]))
        n == WithNames(s, visited)
    IN  [s |-> n, ship |-> {n.idOf[v] : v \in visited}]
\* Variant: the walk starts at the roots only.
SelectFromRoots(s, h, rs) == ShipFrom(s, h, rs)
SelectDirty(s, h, rs) ==
    ShipFrom(s, h, rs \o [v \in DOMAIN h |-> IF v \in s.dirty THEN v ELSE Nil])

SelectDirtyExact(s, h, rs) ==
    LET n == Scan(s, h, rs)
    IN  [s |-> n, ship |-> {n.idOf[v] : v \in {w \in Reach(h, rs) :
                                               n.idOf[w] \notin n.seen \/ w \in n.dirty}}]

SelectChanged(s, h, rs) ==
    LET n == Scan(s, h, rs)
        ver == Versions(n, h, rs)
    IN  [s |-> n, ship |-> {id \in DOMAIN ver : ~(id \in DOMAIN n.peerVer
                                                  /\ n.peerVer[id] = ver[id])}]

Select(s, h, rs) ==
    CASE mode = "tracked" -> SelectDirty(s, h, rs)
      [] mode = "exact"   -> SelectDirtyExact(s, h, rs)
      [] mode = "rescan"  -> SelectChanged(s, h, rs)

\* commit, or a rescan session's note of what the peer will hold.
Committed(q, h, rs) ==
    IF mode = "rescan" THEN [q.s EXCEPT !.peerVer = Over(Versions(q.s, h, rs), @)]
    ELSE [q.s EXCEPT !.seen = @ \cup q.ship, !.dirty = {}]

(***************************************************************************)
(* reconstruct: shells for the names not held, then every shipped object is *)
(* filled in place.                                                         *)
(***************************************************************************)
WithShells(s, h, ids) ==
    LET new == SetToSeq(ids \ DOMAIN s.store)
    IN  [h |-> h \o [k \in DOMAIN new |-> Empty],
         s |-> [s EXCEPT !.store = Over([id \in Range(new) |-> Len(h) + Place(new, id)], @),
                         !.idOf = Over([v \in (Len(h) + 1)..(Len(h) + Len(new)) |-> new[v - Len(h)]], @)]]

Filled(s, h, records) ==
    [v \in DOMAIN h |->
        IF \E id \in DOMAIN records : Lookup(s, id) = v
        THEN LET c == records[CHOOSE id \in DOMAIN records : Lookup(s, id) = v]
             IN  [val |-> c.val, slots |-> [i \in Slots |-> Lookup(s, c.slots[i])]]
        ELSE h[v]]

\* What an applied delta tells the receiver the sender holds.
Learned(s, h, rs, m) ==
    IF mode = "rescan" THEN LET n == Scan(s, h, rs)
                            IN  [n EXCEPT !.peerVer = Over(Versions(n, h, rs), @)]
    ELSE [s EXCEPT !.seen = @ \cup DOMAIN m.records]

(***************************************************************************)
(* The program, at the tier that holds the continuation.                    *)
(***************************************************************************)
DeltaInit ==
    /\ mode \in Modes
    /\ session = [t \in Tier |-> NewSession(t)]
    /\ holder = "server"
    \* the program has made one object that holds another, and has both in locals
    /\ heap = [t \in Tier |-> IF t = "server" THEN <<[Empty EXCEPT !.slots[1] = 2], Empty>>
                              ELSE <<>>]
    /\ roots = [t \in Tier |-> [i \in Slots |-> IF t = "server" /\ i <= 2 THEN i ELSE Nil]]
    /\ wire = <<>> /\ writes = 0 /\ hops = 0 /\ fulls = 0 /\ sent = <<>>

Held == Reach(heap[holder], roots[holder])

\* touch: the write hook of a tracked session marks the object dirty.
Touch(o) ==
    session' = [session EXCEPT ![holder].dirty = IF mode = "rescan" THEN @ ELSE @ \cup {o}]

Writes(o, h) ==
    /\ wire = <<>> /\ writes < MaxWrites
    /\ Touch(o)
    /\ heap' = [heap EXCEPT ![holder] = h]
    /\ writes' = writes + 1 /\ sent' = <<>>
    /\ UNCHANGED <<mode, roots, holder, wire, hops, fulls>>

Write == \E o \in Held : Writes(o, [heap[holder] EXCEPT ![o].val = 1 - @])
Link == \E o \in Held, i \in Slots, x \in Held \cup {Nil} :
            Writes(o, [heap[holder] EXCEPT ![o].slots[i] = x])
Attach == \E o \in Held, i \in Slots :
            LET h == heap[holder]
            IN  Writes(o, Append([h EXCEPT ![o].slots[i] = Len(h) + 1], Empty))
SetLocal ==
    /\ wire = <<>> /\ writes < MaxWrites
    /\ \E i \in Slots, x \in Held : roots' = [roots EXCEPT ![holder][i] = x]
    /\ writes' = writes + 1 /\ sent' = <<>>
    /\ UNCHANGED <<mode, session, heap, holder, wire, hops, fulls>>

(***************************************************************************)
(* Crossings.                                                               *)
(***************************************************************************)
NamesOf(s, vs) == [k \in DOMAIN vs |-> IdOf(s, vs[k])]
Sending(s, m) ==
    LET h == heap[holder]
        rs == roots[holder]
    IN  /\ session' = [session EXCEPT ![holder] = s]
        /\ wire' = <<m>>
        /\ sent' = <<[shape |-> Shape(h, rs), names |-> NamesOf(s, Order(h, rs))]>>
        /\ hops' = hops + 1
        /\ UNCHANGED <<mode, heap, roots, holder, writes>>

ShipFull ==
    /\ wire = <<>> /\ hops < MaxHops /\ fulls < MaxFull /\ mode # "rescan"
    /\ Sending(AdoptBaseline(session[holder], heap[holder], roots[holder]),
               [full |-> TRUE, graph |-> Shape(heap[holder], roots[holder])])
    /\ fulls' = fulls + 1

ShipDelta ==
    /\ wire = <<>> /\ hops < MaxHops
    /\ LET h == heap[holder]
           rs == roots[holder]
           q == Select(session[holder], h, rs)
       IN  Sending(Committed(q, h, rs),
                   [full |-> FALSE, roots |-> NamesOf(q.s, rs),
                    records |-> [id \in q.ship |-> Holds(q.s, h, q.s.store[id])]])
    /\ UNCHANGED fulls

Arrives(s, h, rs) ==
    LET t == Other(holder)
    IN  /\ session' = [session EXCEPT ![t] = s]
        /\ heap' = [heap EXCEPT ![t] = h]
        /\ roots' = [roots EXCEPT ![t] = rs]
        /\ holder' = t /\ wire' = <<>>
        /\ UNCHANGED <<mode, writes, hops, fulls, sent>>

\* Variant: the receiver keeps the names it had.
ReceiveUnnamed ==
    /\ wire # <<>> /\ wire[1].full
    /\ Arrives(session[Other(holder)], wire[1].graph.nodes, wire[1].graph.roots)

\* A full frame is decoded into objects of its own.
ReceiveFull ==
    /\ wire # <<>> /\ wire[1].full
    /\ LET g == wire[1].graph
           s == [session[Other(holder)] EXCEPT !.idOf = <<>>]
       IN  Arrives(AdoptBaseline(s, g.nodes, g.roots), g.nodes, g.roots)

ReceiveDelta ==
    /\ wire # <<>> /\ ~wire[1].full
    /\ LET t == Other(holder)
           m == wire[1]
           b == WithShells(session[t], heap[t], DOMAIN m.records)
           h == Filled(b.s, b.h, m.records)
           rs == [i \in Slots |-> Lookup(b.s, m.roots[i])]
       IN  Arrives(Learned(b.s, h, rs, m), h, rs)

DeltaNext ==
    Write \/ Link \/ Attach \/ SetLocal \/ ShipFull \/ ShipDelta \/ ReceiveFull \/ ReceiveDelta
DeltaSpec == DeltaInit /\ [][DeltaNext]_deltaVars

(***************************************************************************)
(* Properties.                                                              *)
(***************************************************************************)
\* What a session has in its store has that name, and slots and locals refer to objects.
StoresOK ==
    /\ mode \in Modes /\ holder \in Tier /\ Len(wire) <= 1
    /\ \A t \in Tier :
         LET s == session[t]
             objects == DOMAIN heap[t]
         IN  /\ \A id \in DOMAIN s.store : s.store[id] \in objects /\ s.idOf[s.store[id]] = id
             /\ s.seen \subseteq DOMAIN s.store /\ s.dirty \subseteq objects
             /\ \A v \in objects, i \in Slots : heap[t][v].slots[i] \in objects \cup {Nil}
             /\ \A i \in Slots : roots[t][i] \in objects \cup {Nil}

Delivered == wire = <<>> /\ sent # <<>>
Arrived == Shape(heap[holder], roots[holder])

\* A continuation arrives as it was sent, with the contents and the sharing of all it
\* refers to, however little of it crossed.
Agree == Delivered => Arrived = sent[1].shape

\* Both ends call what has crossed by the same names ("deterministic, so the two stores
\* agree", wire-delta.mts:447-448).
NamesAgree ==
    Delivered => NamesOf(session[holder], Order(heap[holder], roots[holder])) = sent[1].names
=============================================================================
