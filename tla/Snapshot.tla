------------------------------ MODULE Snapshot ------------------------------
(***************************************************************************)
(* Write-back as a delta: openSnapshot, diffSnapshot, wholeSnapshot and    *)
(* applySnapshot of wire-delta.mts, how a delta names the objects of a     *)
(* snapshot whose shape changes.                                           *)
(*                                                                         *)
(* The master is an array of objects.  A reader fetches a copy and numbers *)
(* its objects in the order of a walk (adoptBaseline); it keeps these ids, *)
(* and adds its own for the objects it creates, over all the write-backs   *)
(* of the copy.  The owner numbers its master by the same walk, anew at    *)
(* every write-back.  An object is abstracted to one value, every edit     *)
(* writes a new one; a run edits, inserts and removes, then writes back.   *)
(* The owner makes no writes of its own here, so every compare-and-set     *)
(* succeeds (module Coherence has those that do not).                      *)
(***************************************************************************)
EXTENDS Naturals, Sequences, FiniteSets, SequencesExt

CONSTANTS
  Initial,     \* the number of objects the master begins with
  MaxEdits     \* bound on edits, insertions and removals

ASSUME BoundsAssumption == Initial \in Nat /\ MaxEdits \in Nat

VARIABLES
  master,     \* the owner's array: indices of masterVal, 0 for undefined
  masterVal,  \* the values of the owner's objects
  copy,       \* the reader's array: indices of val
  val,        \* the values of the reader's objects
  sid,        \* session.idOf: the ids of the reader's objects
  next,       \* session.next
  peerRoot,   \* session.peerSlots of the array: the ids last shipped, by index
  peerVal,    \* session.peerVer of the objects: the value last shipped under an id
  edits,      \* edits so far
  dirty,      \* edited since the last write-back
  anchor,     \* history: the master when it was fetched
  reshaped    \* history: "no", "dirty" or "shipped": objects came or went, or did before the
              \* last write-back of this copy

vars == <<master, masterVal, copy, val, sid, next, peerRoot, peerVal, edits, dirty, anchor,
          reshaped>>

At(n) == [by |-> "walk", n |-> n]          \* "@n"
New(n) == [by |-> "reader", n |-> n]       \* "<tier>#n"
Unnamed == [by |-> "nobody", n |-> 0]

Value == 0..MaxEdits

\* The ids of distinct objects of the reader differ, and the master holds objects that exist.
TypeOK ==
  /\ master \in Seq(0..Len(masterVal))
  /\ masterVal \in Seq(Value)
  /\ val \in Seq(Value)
  /\ copy \in Seq(1..Len(val))
  /\ DOMAIN sid = DOMAIN val
  /\ next \in Nat
  /\ edits \in Value
  /\ dirty \in BOOLEAN
  /\ reshaped \in {"no", "dirty", "shipped"}
  /\ \A o, p \in DOMAIN sid : o # p /\ sid[o] # Unnamed => sid[o] # sid[p]

\* The place of x in the set S of numbers.
Rank(S, x) == Cardinality({y \in S : y <= x})

\* adoptBaseline: the objects of an array in the order of the walk, each once; the n-th gets
\* id "@n", after "@0" for the array.
First(array) == {i \in DOMAIN array : array[i] # 0 /\ \A j \in 1..(i - 1) : array[j] # array[i]}
Walked(array) ==
  [n \in 1..Cardinality(First(array)) |->
     array[CHOOSE i \in First(array) : Rank(First(array), i) = n]]

-----------------------------------------------------------------------------
(* The fetch: the reader decodes the master into objects of its own and    *)
(* opens a session over them.  An undefined element stays undefined; only  *)
(* a master without one is fetched again here.                             *)

Contents(array, values) == [i \in DOMAIN array |-> IF array[i] = 0 THEN 0 ELSE values[array[i]]]

Fetched(array, values) ==
  LET objects == Walked(array)
      placed(i) == CHOOSE n \in DOMAIN objects : objects[n] = array[i]
  IN  [copy |-> [i \in DOMAIN array |-> placed(i)],
       val |-> [n \in DOMAIN objects |-> values[objects[n]]],
       sid |-> [n \in DOMAIN objects |-> At(n)],
       peerRoot |-> [i \in DOMAIN array |-> At(placed(i))],
       peerVal |-> [s \in {At(n) : n \in DOMAIN objects} |-> values[objects[s.n]]]]

Init ==
  LET array == [i \in 1..Initial |-> i]
      values == [i \in 1..Initial |-> 0]
      f == Fetched(array, values)
  IN  /\ master = array /\ masterVal = values
      /\ copy = f.copy /\ val = f.val /\ sid = f.sid
      /\ peerRoot = f.peerRoot /\ peerVal = f.peerVal
      /\ next = 1
      /\ edits = 0
      /\ dirty = FALSE
      /\ anchor = array
      /\ reshaped = "no"

Fetch ==
  /\ ~dirty
  /\ \A i \in DOMAIN master : master[i] # 0
  /\ LET f == Fetched(master, masterVal)
     IN  /\ copy' = f.copy /\ val' = f.val /\ sid' = f.sid
         /\ peerRoot' = f.peerRoot /\ peerVal' = f.peerVal
  /\ next' = 1
  /\ anchor' = master
  /\ reshaped' = "no"
  /\ UNCHANGED <<master, masterVal, edits, dirty>>

-----------------------------------------------------------------------------
(* The run's mutations of its copy                                         *)

Mutate ==
  /\ edits < MaxEdits
  /\ edits' = edits + 1
  /\ dirty' = TRUE
  /\ UNCHANGED <<master, masterVal, next, peerRoot, peerVal, anchor>>

Reshape == reshaped' = IF reshaped = "no" THEN "dirty" ELSE reshaped

Edit(i) ==
  /\ Mutate
  /\ val' = [val EXCEPT ![copy[i]] = edits']
  /\ UNCHANGED <<copy, sid, reshaped>>

Insert(i) ==
  /\ Mutate
  /\ val' = Append(val, edits')
  /\ sid' = Append(sid, Unnamed)
  /\ copy' = InsertAt(copy, i, Len(val'))
  /\ Reshape

Delete(i) ==
  /\ Mutate
  /\ copy' = RemoveAt(copy, i)
  /\ UNCHANGED <<val, sid>>
  /\ Reshape

-----------------------------------------------------------------------------
(* The reader's scan and diff                                              *)

\* Variant: sidOf gives out an id without counting it.
OneId(k) == New(next)
FreshId(k) == New(next + k - 1)

\* sidOf: the copy's objects that have no id get the next ones, each another one.  The walk's
\* order among them makes no difference; it is that of their creation here.
Fresh == {o \in Range(copy) : sid[o] = Unnamed}
Named == [o \in DOMAIN sid |-> IF o \in Fresh THEN FreshId(Rank(Fresh, o)) ELSE sid[o]]

\* Variant: a patch that writes the changed elements and leaves the length.
LengthKept(n) == Len(master)
PatchLength(n) == n

\* planRecord for the array: the touched indices and the length if fewer than all are touched,
\* the whole array otherwise.  A record holds the new length and the ids to put at its indices.
ArrayRecord(ids) ==
  LET touched == {i \in DOMAIN ids : i > Len(peerRoot) \/ peerRoot[i] # ids[i]}
  IN  IF Cardinality(touched) < Len(ids)
      THEN [kind |-> "ap", len |-> PatchLength(Len(ids)), at |-> [i \in touched |-> ids[i]]]
      ELSE [kind |-> "a", len |-> Len(ids), at |-> ids]

\* A message: the array's record, if any, and the objects shipped.
Delta(named) ==
  LET ids == [i \in DOMAIN copy |-> named[copy[i]]]
      changed(o) == named[o] \notin DOMAIN peerVal \/ peerVal[named[o]] # val[o]
  IN  [root |-> IF ids # peerRoot THEN {ArrayRecord(ids)} ELSE {},
       objects |-> {o \in Range(copy) : changed(o)}]

Whole(named) ==
  LET ids == [i \in DOMAIN copy |-> named[copy[i]]]
  IN  [root |-> {[kind |-> "a", len |-> Len(ids), at |-> ids]}, objects |-> Range(copy)]

\* The bytes emit writes, but for the strings, of which a delta has no more than a whole:
\* a patch names the index of every element it has.
Bytes(m) ==
  LET patches == {r \in m.root : r.kind = "ap"}
      elements == Cardinality(UNION {DOMAIN r.at : r \in m.root})
      array == IF m.root = {} THEN 0
               ELSE IF patches # {} THEN 4 + 3 * elements ELSE 3 + 2 * elements
  IN  array + 6 * Cardinality(m.objects)

Shorter(named) == IF Bytes(Delta(named)) < Bytes(Whole(named)) THEN Delta(named) ELSE Whole(named)

-----------------------------------------------------------------------------
(* The owner's applySnapshot                                               *)

\* Variant: every record makes an object of its own.
AlwaysNew(s) == FALSE
Known(s) == s.by = "walk" /\ s.n \in DOMAIN Walked(master)

\* reconstruct makes a new object for each record whose id it does not know.
Shells(m, named) == {o \in m.objects : ~Known(named[o])}

\* The object of the owner that an id of the message names, 0 if none.
Stored(m, named, s) ==
  LET shells == Shells(m, named)
  IN  IF Known(s) THEN Walked(master)[s.n]
      ELSE IF \E o \in shells : named[o] = s
           THEN Len(masterVal) + Rank(shells, CHOOSE o \in shells : named[o] = s)
           ELSE 0

\* The owner's objects, with the new ones, once the records have been applied to them.
Reconstructed(m, named) ==
  LET grown == masterVal \o [k \in 1..Cardinality(Shells(m, named)) |-> 0]
  IN  [x \in DOMAIN grown |->
         IF \E o \in m.objects : Stored(m, named, named[o]) = x
         THEN val[CHOOSE o \in m.objects : Stored(m, named, named[o]) = x]
         ELSE grown[x]]

\* The owner's array, once its record has been: the elements the record has no index of stay.
Patched(m, named, r) ==
  [i \in 1..r.len |->
     IF i \in DOMAIN r.at THEN Stored(m, named, r.at[i])
     ELSE IF i <= Len(master) THEN master[i] ELSE 0]

WriteBack ==
  /\ dirty
  /\ LET named == Named
         m == Shorter(named)
     IN  /\ masterVal' = Reconstructed(m, named)
         /\ IF m.root = {} THEN UNCHANGED master
                           ELSE \E r \in m.root : master' = Patched(m, named, r)
         /\ sid' = named
         /\ next' = next + Cardinality(Fresh)
         /\ peerRoot' = [i \in DOMAIN copy |-> named[copy[i]]]
         /\ peerVal' = [s \in DOMAIN peerVal \cup {named[o] : o \in Range(copy)} |->
                          IF \E o \in Range(copy) : named[o] = s
                          THEN val[CHOOSE o \in Range(copy) : named[o] = s]
                          ELSE peerVal[s]]
  /\ dirty' = FALSE
  /\ reshaped' = IF reshaped = "dirty" THEN "shipped" ELSE reshaped
  /\ UNCHANGED <<copy, val, edits, anchor>>

-----------------------------------------------------------------------------

Next ==
  \/ Fetch
  \/ \E i \in DOMAIN copy : Edit(i) \/ Delete(i)
  \/ \E i \in 1..(Len(copy) + 1) : Insert(i)
  \/ WriteBack

Spec == Init /\ [][Next]_vars

-----------------------------------------------------------------------------
(* Properties                                                              *)

Landed == Contents(master', masterVal') = Contents(copy, val)

\* Until objects have come or gone in an earlier write-back of the same copy, any mixture of
\* edits, insertions and removals lands: the master then reads as the copy does.
FirstReshapeLands == [][WriteBack /\ reshaped # "shipped" => Landed]_vars

\* "unchanged objects resolve to the master's own instances (identity preserved)"
\* (wire-delta.mts:562): under the same condition an object that was fetched and is still in the
\* copy is in the master as the very object it was fetched from, wherever it now stands.
IdentityPreserved ==
  [][WriteBack /\ reshaped # "shipped" =>
       \A i \in DOMAIN copy :
         sid'[copy[i]].by = "walk" => master'[i] = Walked(anchor)[sid'[copy[i]].n]]_vars

\* "a second write-back from the same snapshot ships only what changed since the first"
\* (wire-delta.mts:540), "the two agree without coordinating ids" (wire-delta.mts:515): every
\* accepted write-back lands.
EveryWriteBackLands == [][WriteBack => Landed]_vars

=============================================================================
