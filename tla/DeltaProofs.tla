----------------------------- MODULE DeltaProofs -----------------------------
(***************************************************************************)
(* Proofs about the two models of the delta codec, Snapshot and             *)
(* DeltaSession.                                                            *)
(***************************************************************************)
EXTENDS Snapshot, DeltaSession, FiniteSetTheorems, TLAPS

(***************************************************************************)
(* Snapshot, for any size of the master and number of edits: type           *)
(* correctness, FirstReshapeLands and IdentityPreserved.                    *)
(*                                                                         *)
(* Until objects that came or went have been shipped, reader and owner     *)
(* agree on the walk without a word: the master is the one that was        *)
(* fetched, an object of the copy either has the id of its place in that   *)
(* walk or has none, and the peer's view is the master (Agreed).  A        *)
(* message that leaves an object out, or an element of the array, then     *)
(* leaves out what the owner has already (MessageIs, MessageLands).        *)
(***************************************************************************)

Id == [by : {"walk", "reader", "nobody"}, n : Nat]

\* The types, and that the ids the reader has given out are below its counter.
Typed ==
  /\ TypeOK
  /\ sid \in Seq(Id) /\ Len(sid) = Len(val)
  /\ peerRoot \in Seq(Id)
  /\ \A o \in DOMAIN sid : sid[o].by = "reader" => sid[o].n < next

\* The reader's ids and its view of the owner are right about the walk of the master.
IdsAgree ==
  /\ Len(Walked(master)) <= Len(val)
  /\ \A o \in DOMAIN sid : sid[o] = IF o \in DOMAIN Walked(master) THEN At(o) ELSE Unnamed
ViewAgrees ==
  /\ DOMAIN peerVal = {At(n) : n \in DOMAIN Walked(master)}
  /\ \A n \in DOMAIN Walked(master) : peerVal[At(n)] = masterVal[Walked(master)[n]]
  /\ Len(peerRoot) = Len(master)
  /\ \A i \in DOMAIN master :
       \E n \in DOMAIN Walked(master) : peerRoot[i] = At(n) /\ Walked(master)[n] = master[i]

Agreed ==
  reshaped # "shipped" =>
    /\ anchor = master
    /\ \A i \in DOMAIN master : master[i] # 0
    /\ IdsAgree
    /\ ViewAgrees

\* The copy has the shape of the master.
SameShape ==
  reshaped = "no" =>
    /\ Len(val) = Len(Walked(master))
    /\ Len(copy) = Len(master)
    /\ \A i \in DOMAIN copy : Walked(master)[copy[i]] = master[i]

NInv == Typed /\ Agreed /\ SameShape

-----------------------------------------------------------------------------
(* Ranks and walks                                                         *)

\* Ranks number a finite set of numbers from 1, in their order, and every number up to the size
\* of the set is the rank of one.
LEMMA RankIs ==
  ASSUME NEW S \in SUBSET Nat, IsFiniteSet(S)
  PROVE  /\ Cardinality(S) \in Nat
         /\ \A x \in S : Rank(S, x) \in 1..Cardinality(S)
         /\ \A x, y \in S : x < y => Rank(S, x) < Rank(S, y)
         /\ \A n \in 1..Cardinality(S) : \E x \in S : Rank(S, x) = n
<1> DEFINE Upto(x) == {y \in S : y <= x}
<1>1. Cardinality(S) \in Nat
  BY FS_CardinalityType
<1>2. \A x \in S : /\ IsFiniteSet(Upto(x)) /\ Cardinality(Upto(x)) \in Nat
                   /\ Cardinality(Upto(x)) <= Cardinality(S) /\ Cardinality(Upto(x)) # 0
  <2> TAKE x \in S
  <2>1. Upto(x) \in SUBSET S /\ x \in Upto(x)
    OBVIOUS
  <2>2. IsFiniteSet(Upto(x)) /\ Cardinality(Upto(x)) <= Cardinality(S)
    BY <2>1, FS_Subset
  <2>3. Cardinality(Upto(x)) \in Nat /\ Cardinality(Upto(x)) # 0
    BY <2>1, <2>2, FS_CardinalityType, FS_EmptySet
  <2> QED BY <2>2, <2>3
<1>3. \A x \in S : Rank(S, x) = Cardinality(Upto(x))
  BY DEF Rank
<1>4. ASSUME NEW x \in S
      PROVE  Rank(S, x) \in 1..Cardinality(S)
  <2>1. /\ Cardinality(Upto(x)) \in Nat /\ Cardinality(Upto(x)) # 0
        /\ Cardinality(Upto(x)) <= Cardinality(S)
    BY <1>2
  <2>2. Rank(S, x) = Cardinality(Upto(x))
    BY <1>3
  <2> HIDE DEF Upto
  <2> QED BY <1>1, <2>1, <2>2
<1>5. ASSUME NEW x \in S, NEW y \in S, x < y
      PROVE  Rank(S, x) < Rank(S, y)
  <2>1. Upto(x) \in SUBSET Upto(y) /\ y \in Upto(y) /\ y \notin Upto(x)
    <3>1. x \in Nat /\ y \in Nat
      OBVIOUS
    <3>2. y \in Upto(y) /\ ~(y <= x)
      BY <1>5, <3>1
    <3>3. \A z \in S : z <= x => z <= y
      BY <1>5, <3>1
    <3> QED BY <3>2, <3>3
  <2>2. Cardinality(Upto(x)) <= Cardinality(Upto(y)) /\ Cardinality(Upto(x)) # Cardinality(Upto(y))
    BY <1>2, <2>1, FS_Subset
  <2> QED BY <1>2, <1>3, <2>2
<1>6. ASSUME NEW n \in 1..Cardinality(S)
      PROVE  \E x \in S : Rank(S, x) = n
  <2> DEFINE f == [x \in S |-> Rank(S, x)]
  <2>1. \A x, y \in S : Rank(S, x) = Rank(S, y) => x = y
    <3> TAKE x, y \in S
    <3>1. x \in Nat /\ y \in Nat /\ Rank(S, x) \in Nat /\ Rank(S, y) \in Nat
      BY <1>4
    <3> QED BY <1>5, <3>1
  <2>2. f \in Injection(S, 1..Cardinality(S))
    BY <1>4, <2>1 DEF Injection, IsInjective
  <2>3. IsFiniteSet(1..Cardinality(S)) /\ Cardinality(1..Cardinality(S)) = Cardinality(S)
    BY <1>1, FS_Interval
  <2>4. f \in Surjection(S, 1..Cardinality(S))
    BY <2>2, <2>3, FS_Injection
  <2> QED BY <2>4 DEF Surjection
<1> QED BY <1>1, <1>4, <1>5, <1>6

\* The walk of an array meets each of its objects, once.
LEMMA WalkedIs ==
  ASSUME NEW M \in Nat, NEW array \in Seq(0..M)
  PROVE  /\ Walked(array) \in Seq(1..M)
         /\ \A n, k \in DOMAIN Walked(array) : Walked(array)[n] = Walked(array)[k] => n = k
         /\ \A i \in DOMAIN array :
              array[i] # 0 => \E n \in DOMAIN Walked(array) : Walked(array)[n] = array[i]
<1> DEFINE F == First(array)
           W == Walked(array)
<1>1. DOMAIN array = 1..Len(array) /\ Len(array) \in Nat
  OBVIOUS
<1>2. F \in SUBSET (1..Len(array)) /\ \A i \in F : array[i] \in 1..M
  BY DEF First
<1>3. \A S \in SUBSET (1..Len(array)) : S \in SUBSET Nat /\ IsFiniteSet(S)
  <2> TAKE S \in SUBSET (1..Len(array))
  <2>1. IsFiniteSet(1..Len(array)) /\ 1..Len(array) \in SUBSET Nat
    BY <1>1, FS_Interval
  <2>2. IsFiniteSet(S)
    BY <2>1, FS_Subset
  <2> QED BY <2>1, <2>2
<1>4. F \in SUBSET Nat /\ IsFiniteSet(F)
  BY <1>2, <1>3
<1>5. Cardinality(F) \in Nat /\ \A n \in 1..Cardinality(F) : \E i \in F : Rank(F, i) = n
  BY <1>4, RankIs
<1>6. DOMAIN W = 1..Cardinality(F)
  BY DEF Walked
<1>7. ASSUME NEW n \in DOMAIN W
      PROVE  \E i \in F : Rank(F, i) = n /\ W[n] = array[i]
  <2>1. PICK i \in F : i = CHOOSE j \in F : Rank(F, j) = n
    BY <1>5, <1>6
  <2>2. Rank(F, i) = n
    BY <1>5, <1>6, <2>1
  <2>3. W[n] = array[i]
    BY <1>6, <2>1 DEF Walked
  <2> QED BY <2>2, <2>3
<1>8. W \in Seq(1..M)
  <2>1. ASSUME NEW n \in 1..Cardinality(F)
        PROVE  W[n] \in 1..M
    <3>1. PICK i \in F : Rank(F, i) = n /\ W[n] = array[i]
      BY <1>6, <1>7
    <3> QED BY <1>2, <3>1
  <2>2. W = [n \in 1..Cardinality(F) |-> W[n]]
    BY DEF Walked
  <2> HIDE DEF W, F
  <2> QED BY <1>5, <2>1, <2>2
<1>9. ASSUME NEW n \in DOMAIN W, NEW k \in DOMAIN W, W[n] = W[k]
      PROVE  n = k
  <2>1. PICK i \in F : Rank(F, i) = n /\ W[n] = array[i]
    BY <1>7
  <2>2. PICK j \in F : Rank(F, j) = k /\ W[k] = array[j]
    BY <1>7
  <2>3. array[i] = array[j] /\ i \in Nat /\ j \in Nat
    BY <1>4, <1>9, <2>1, <2>2
  <2>4. ~(i < j) /\ ~(j < i)
    <3>1. i \in 1..Len(array) /\ j \in 1..Len(array)
      BY <1>2
    <3> QED BY <2>3, <3>1 DEF First
  <2> QED BY <2>1, <2>2, <2>3, <2>4
<1>10. ASSUME NEW i \in DOMAIN array, array[i] # 0
       PROVE  \E n \in DOMAIN W : W[n] = array[i]
  <2> DEFINE T == {j \in DOMAIN array : array[j] = array[i]}
  <2>1. T \in SUBSET (1..Len(array)) /\ i \in T
    BY <1>1
  <2>2. T \in SUBSET Nat /\ IsFiniteSet(T)
    BY <1>3, <2>1
  <2>3. Cardinality(T) \in Nat /\ Cardinality(T) # 0
    BY <2>1, <2>2, FS_CardinalityType, FS_EmptySet
  <2>4. PICK j \in T : Rank(T, j) = 1
    <3>1. 1 \in 1..Cardinality(T)
      BY <2>3
    <3> HIDE DEF T
    <3> QED BY <2>2, <3>1, RankIs
  <2>5. \A k \in T : ~(k < j)
    <3> TAKE k \in T
    <3>1. Rank(T, k) \in 1..Cardinality(T) /\ (k < j => Rank(T, k) < Rank(T, j))
      BY <2>2, RankIs
    <3> QED BY <2>3, <2>4, <3>1
  <2>6. j \in F /\ array[j] = array[i]
    BY <1>1, <1>10, <2>4, <2>5 DEF First
  <2>7. Rank(F, j) \in DOMAIN W
    BY <1>4, <1>6, <2>6, RankIs
  <2>8. PICK k \in F : Rank(F, k) = Rank(F, j) /\ W[Rank(F, j)] = array[k]
    BY <1>7, <2>7
  <2>9. k = j
    <3>1. k \in Nat /\ j \in Nat /\ Rank(F, k) \in Nat
      BY <1>4, <2>6, RankIs
    <3>2. (k < j => Rank(F, k) < Rank(F, j)) /\ (j < k => Rank(F, j) < Rank(F, k))
      BY <1>4, <2>6, RankIs
    <3> QED BY <2>8, <3>1, <3>2
  <2> QED BY <2>6, <2>7, <2>8, <2>9
<1> QED BY <1>8, <1>9, <1>10

-----------------------------------------------------------------------------
(* The fetch                                                               *)

\* What the reader has after a fetch, of an array without undefined elements.
LEMMA FetchedIs ==
  ASSUME NEW array, NEW values \in Seq(Value), array \in Seq(1..Len(values)),
         NEW f, f = Fetched(array, values), NEW W, W = Walked(array)
  PROVE  /\ W \in Seq(1..Len(values))
         /\ f.copy \in Seq(1..Len(W)) /\ Len(f.copy) = Len(array)
         /\ \A i \in DOMAIN array : W[f.copy[i]] = array[i] /\ f.peerRoot[i] = At(f.copy[i])
         /\ f.val \in Seq(Value) /\ Len(f.val) = Len(W)
         /\ f.sid = [n \in 1..Len(W) |-> At(n)]
         /\ f.peerRoot \in Seq(Id) /\ Len(f.peerRoot) = Len(array)
         /\ DOMAIN f.peerVal = {At(n) : n \in DOMAIN W}
         /\ \A n \in DOMAIN W : f.peerVal[At(n)] = values[W[n]]
<1> DEFINE placed(i) == CHOOSE n \in DOMAIN W : W[n] = array[i]
<1>1. Len(values) \in Nat /\ array \in Seq(0..Len(values))
      /\ DOMAIN array = 1..Len(array) /\ Len(array) \in Nat
      /\ \A i \in DOMAIN array : array[i] # 0
  OBVIOUS
<1>2. W \in Seq(1..Len(values))
      /\ \A i \in DOMAIN array : \E n \in DOMAIN W : W[n] = array[i]
  BY <1>1, WalkedIs
<1>3. DOMAIN W = 1..Len(W) /\ Len(W) \in Nat
  BY <1>2
<1>4. \A i \in DOMAIN array : placed(i) \in 1..Len(W) /\ W[placed(i)] = array[i]
  BY <1>2, <1>3
<1>5. /\ f.copy = [i \in DOMAIN array |-> placed(i)]
      /\ f.val = [n \in DOMAIN W |-> values[W[n]]]
      /\ f.sid = [n \in DOMAIN W |-> At(n)]
      /\ f.peerRoot = [i \in DOMAIN array |-> At(placed(i))]
      /\ f.peerVal = [s \in {At(n) : n \in DOMAIN W} |-> values[W[s.n]]]
  BY DEF Fetched
<1> HIDE DEF placed
<1>6. f.copy \in Seq(1..Len(W)) /\ Len(f.copy) = Len(array)
  BY <1>1, <1>4, <1>5
<1>7. \A i \in DOMAIN array : W[f.copy[i]] = array[i] /\ f.peerRoot[i] = At(f.copy[i])
  BY <1>4, <1>5
<1>8. f.val \in Seq(Value) /\ Len(f.val) = Len(W)
  <2>1. \A n \in 1..Len(W) : values[W[n]] \in Value
    BY <1>2
  <2> QED BY <1>3, <1>5, <2>1
<1>9. f.peerRoot \in Seq(Id) /\ Len(f.peerRoot) = Len(array)
  <2>1. \A i \in 1..Len(array) : At(placed(i)) \in Id
    BY <1>1, <1>3, <1>4 DEF At, Id
  <2> QED BY <1>1, <1>5, <2>1
<1>10. \A n \in DOMAIN W : f.peerVal[At(n)] = values[W[n]]
  <2> TAKE n \in DOMAIN W
  <2>1. At(n) \in {At(k) : k \in DOMAIN W}
    OBVIOUS
  <2>2. At(n).n = n
    BY DEF At
  <2>3. f.peerVal[At(n)] = values[W[At(n).n]]
    BY <1>5, <2>1
  <2> QED BY <1>5, <2>1, <2>2
<1> QED BY <1>2, <1>3, <1>5, <1>6, <1>7, <1>8, <1>9, <1>10

-----------------------------------------------------------------------------
(* The diff                                                                *)

\* The objects of the copy are some of the reader's.
LEMMA CopyObjects ==
  ASSUME Typed
  PROVE  /\ DOMAIN copy = 1..Len(copy) /\ Len(copy) \in Nat
         /\ DOMAIN val = 1..Len(val) /\ Len(val) \in Nat /\ DOMAIN sid = DOMAIN val
         /\ \A i \in DOMAIN copy : copy[i] \in Range(copy)
         /\ Range(copy) \in SUBSET (1..Len(val))
         /\ \A S \in SUBSET Range(copy) : S \in SUBSET Nat /\ IsFiniteSet(S)
<1>1. copy \in Seq(1..Len(val)) /\ val \in Seq(Value) /\ DOMAIN sid = DOMAIN val
  BY DEF Typed, TypeOK
<1>2. /\ DOMAIN copy = 1..Len(copy) /\ Len(copy) \in Nat
      /\ DOMAIN val = 1..Len(val) /\ Len(val) \in Nat
  BY <1>1
<1>3. \A i \in DOMAIN copy : copy[i] \in Range(copy)
  BY DEF Range
<1>4. Range(copy) \in SUBSET (1..Len(val))
  BY <1>1 DEF Range
<1>5. ASSUME NEW S \in SUBSET Range(copy)
      PROVE  S \in SUBSET Nat /\ IsFiniteSet(S)
  <2>1. IsFiniteSet(1..Len(val)) /\ 1..Len(val) \in SUBSET Nat
    BY <1>2, FS_Interval
  <2>2. S \in SUBSET (1..Len(val))
    BY <1>4
  <2> QED BY <2>1, <2>2, FS_Subset
<1> QED BY <1>1, <1>2, <1>3, <1>4, <1>5

\* sidOf gives the objects of the copy that have no id one each, which no object had.
LEMMA NamedIs ==
  ASSUME Typed, NEW named, named = Named
  PROVE  /\ named \in Seq(Id) /\ Len(named) = Len(val) /\ DOMAIN named = DOMAIN sid
         /\ \A o \in DOMAIN sid : o \notin Fresh => named[o] = sid[o]
         /\ \A o \in Fresh : named[o].by = "reader"
         /\ \A o, p \in DOMAIN sid : o # p /\ named[o] # Unnamed => named[o] # named[p]
         /\ next + Cardinality(Fresh) \in Nat
         /\ \A o \in DOMAIN sid :
              named[o].by = "reader" => named[o].n < next + Cardinality(Fresh)
<1>1. /\ DOMAIN sid = 1..Len(val) /\ Len(val) \in Nat /\ next \in Nat
      /\ sid \in Seq(Id) /\ Len(sid) = Len(val)
  BY CopyObjects DEF Typed, TypeOK
<1>2. Fresh \in SUBSET Range(copy) /\ Fresh \in SUBSET DOMAIN sid
  BY CopyObjects DEF Fresh
<1>3. Fresh \in SUBSET Nat /\ IsFiniteSet(Fresh)
  BY <1>2, CopyObjects
<1>4. /\ Cardinality(Fresh) \in Nat
      /\ \A o \in Fresh : Rank(Fresh, o) \in 1..Cardinality(Fresh)
      /\ \A o, p \in Fresh : o < p => Rank(Fresh, o) < Rank(Fresh, p)
  BY <1>3, RankIs
<1>5. DOMAIN named = DOMAIN sid /\ \A o \in DOMAIN sid : o \notin Fresh => named[o] = sid[o]
  BY DEF Named
<1>6. ASSUME NEW o \in Fresh
      PROVE  /\ named[o].by = "reader" /\ named[o].n = next + Rank(Fresh, o) - 1
             /\ named[o] \in Id
             /\ next + Rank(Fresh, o) - 1 \in Nat
             /\ next + Rank(Fresh, o) - 1 >= next
             /\ next + Rank(Fresh, o) - 1 < next + Cardinality(Fresh)
  <2>1. named[o] = New(next + Rank(Fresh, o) - 1)
    BY <1>2 DEF Named, FreshId
  <2>2. Rank(Fresh, o) \in 1..Cardinality(Fresh)
    BY <1>4
  <2>3. PICK k : k = next + Rank(Fresh, o) - 1
    OBVIOUS
  <2>4. /\ k \in Nat /\ k >= next /\ k < next + Cardinality(Fresh)
    BY <1>1, <1>4, <2>2, <2>3
  <2>5. named[o] = [by |-> "reader", n |-> k]
    BY <2>1, <2>3 DEF New
  <2>6. named[o].by = "reader" /\ named[o].n = k /\ named[o] \in Id
    BY <2>4, <2>5 DEF Id
  <2> QED BY <2>3, <2>4, <2>6
<1>7. \A o \in Fresh : named[o] \in Id /\ named[o].by = "reader"
  BY <1>6
<1>8. named \in Seq(Id) /\ Len(named) = Len(val)
  <2>1. \A o \in 1..Len(val) : named[o] \in Id
    BY <1>1, <1>5, <1>7
  <2>2. named = [o \in 1..Len(val) |-> named[o]]
    BY <1>1 DEF Named
  <2> QED BY <1>1, <2>1, <2>2
<1>9. \A o \in DOMAIN sid : sid[o].n \in Nat /\ (sid[o].by = "reader" => sid[o].n < next)
  <2> TAKE o \in DOMAIN sid
  <2>1. sid[o] \in Id
    BY <1>1
  <2>2. sid[o].n \in Nat
    BY <2>1 DEF Id
  <2> QED BY <2>2 DEF Typed
<1>10. ASSUME NEW o \in DOMAIN sid, NEW p \in DOMAIN sid, o # p, named[o] # Unnamed
       PROVE  named[o] # named[p]
  <2>1. CASE o \in Fresh /\ p \in Fresh
    <3>1. o \in Nat /\ p \in Nat
          /\ Rank(Fresh, o) \in 1..Cardinality(Fresh) /\ Rank(Fresh, p) \in 1..Cardinality(Fresh)
          /\ (o < p => Rank(Fresh, o) < Rank(Fresh, p))
          /\ (p < o => Rank(Fresh, p) < Rank(Fresh, o))
      BY <1>3, <1>4, <2>1
    <3>2. next + Rank(Fresh, o) - 1 # next + Rank(Fresh, p) - 1
      BY <1>1, <1>4, <1>10, <3>1
    <3>3. named[o].n # named[p].n
      BY <1>6, <2>1, <3>2
    <3> QED BY <3>3
  <2>2. \A q \in Fresh, u \in DOMAIN sid : u \notin Fresh => named[q] # named[u]
    <3> TAKE q \in Fresh, u \in DOMAIN sid
    <3> HAVE u \notin Fresh
    <3>1. named[q].by = "reader" /\ named[q].n = next + Rank(Fresh, q) - 1
      BY <1>6
    <3>2. named[u] = sid[u]
      BY <1>5
    <3>3. named[q].n >= next
      BY <1>6
    <3>4. CASE sid[u].by = "reader"
      <4>1. sid[u].n < next /\ sid[u].n \in Nat
        BY <1>9, <3>4
      <4> QED BY <1>1, <3>2, <3>3, <4>1
    <3> QED BY <3>1, <3>2, <3>4
  <2>3. CASE o \notin Fresh /\ p \notin Fresh
    <3>1. named[o] = sid[o] /\ named[p] = sid[p]
      BY <1>5, <2>3
    <3> QED BY <1>10, <3>1 DEF Typed, TypeOK
  <2> QED BY <2>1, <2>2, <2>3
<1>11. ASSUME NEW o \in DOMAIN sid, named[o].by = "reader"
       PROVE  named[o].n < next + Cardinality(Fresh)
  <2>1. CASE o \in Fresh
    BY <1>6, <2>1
  <2>2. CASE o \notin Fresh
    <3>1. named[o] = sid[o] /\ sid[o].n \in Nat /\ sid[o].n < next
      BY <1>5, <1>9, <1>11, <2>2
    <3> QED BY <1>1, <1>4, <3>1
  <2> QED BY <2>1, <2>2
<1> QED BY <1>1, <1>4, <1>5, <1>7, <1>8, <1>10, <1>11

\* What a message leaves out is in the reader's view of the owner: an object whose value is there
\* under its id, an element that is there at its index, and an array that is there as it is.
LEMMA MessageIs ==
  ASSUME Typed, NEW named, named = Named, NEW m, m = Shorter(named)
  PROVE  /\ m.objects \in SUBSET Range(copy)
         /\ \A o \in Range(copy) :
              o \notin m.objects => named[o] \in DOMAIN peerVal /\ peerVal[named[o]] = val[o]
         /\ m.root = {} => /\ Len(peerRoot) = Len(copy)
                           /\ \A i \in DOMAIN copy : peerRoot[i] = named[copy[i]]
         /\ \A r \in m.root :
              /\ r.len = Len(copy)
              /\ \A i \in DOMAIN r.at : i \in DOMAIN copy /\ r.at[i] = named[copy[i]]
              /\ \A i \in DOMAIN copy :
                   i \notin DOMAIN r.at => i <= Len(peerRoot) /\ peerRoot[i] = named[copy[i]]
<1> DEFINE ids == [i \in DOMAIN copy |-> named[copy[i]]]
<1>1. DOMAIN ids = 1..Len(copy) /\ DOMAIN copy = 1..Len(copy) /\ Len(copy) \in Nat
      /\ Len(ids) = Len(copy) /\ \A i \in DOMAIN copy : ids[i] = named[copy[i]]
  BY CopyObjects
<1>2. peerRoot \in Seq(Id)
  BY DEF Typed
<1>3. CASE m = Whole(named)
  <2>1. m.objects = Range(copy) /\ m.root = {[kind |-> "a", len |-> Len(ids), at |-> ids]}
    BY <1>3 DEF Whole
  <2>2. PICK r : r = [kind |-> "a", len |-> Len(ids), at |-> ids]
    OBVIOUS
  <2>3. m.root = {r} /\ r.len = Len(ids) /\ r.at = ids
    BY <2>1, <2>2
  <2> HIDE DEF ids
  <2> QED BY <1>1, <2>1, <2>3
<1>4. CASE m = Delta(named)
  <2> DEFINE touched == {i \in DOMAIN ids : i > Len(peerRoot) \/ peerRoot[i] # ids[i]}
  <2>1. m.objects = {o \in Range(copy) :
                       named[o] \notin DOMAIN peerVal \/ peerVal[named[o]] # val[o]}
    BY <1>4 DEF Delta
  <2>2. m.root = IF ids # peerRoot THEN {ArrayRecord(ids)} ELSE {}
    BY <1>4 DEF Delta
  <2>3. ASSUME m.root = {}
        PROVE  Len(peerRoot) = Len(copy) /\ \A i \in DOMAIN copy : peerRoot[i] = named[copy[i]]
    <3>1. ids = peerRoot
      BY <2>2, <2>3
    <3> HIDE DEF ids
    <3> QED BY <1>1, <3>1
  <2>4. ASSUME NEW r \in m.root
        PROVE  /\ r.len = Len(copy)
               /\ \A i \in DOMAIN r.at : i \in DOMAIN copy /\ r.at[i] = named[copy[i]]
               /\ \A i \in DOMAIN copy :
                    i \notin DOMAIN r.at => i <= Len(peerRoot) /\ peerRoot[i] = named[copy[i]]
    <3>1. r = ArrayRecord(ids)
      BY <2>2, <2>4
    <3>2. r.len = Len(ids) /\ (r.at = ids \/ r.at = [i \in touched |-> ids[i]])
      <4> HIDE DEF ids
      <4> QED BY <3>1 DEF ArrayRecord, PatchLength
    <3>3. CASE r.at = ids
      <4> HIDE DEF ids
      <4> QED BY <1>1, <3>2, <3>3
    <3>4. CASE r.at = [i \in touched |-> ids[i]]
      <4>1. DOMAIN r.at = touched /\ \A i \in touched : r.at[i] = ids[i]
        BY <3>4
      <4>2. \A i \in touched : i \in DOMAIN copy
        OBVIOUS
      <4>3. ASSUME NEW i \in DOMAIN copy, i \notin touched
            PROVE  i <= Len(peerRoot) /\ peerRoot[i] = ids[i]
        <5>1. ~(i > Len(peerRoot)) /\ peerRoot[i] = ids[i]
          BY <4>3
        <5>2. i \in Nat /\ Len(peerRoot) \in Nat
          BY <1>1, <1>2
        <5> HIDE DEF ids
        <5> QED BY <5>1, <5>2
      <4> HIDE DEF ids, touched
      <4> QED BY <1>1, <3>2, <4>1, <4>2, <4>3
    <3> QED BY <3>2, <3>3, <3>4
  <2> QED BY <2>1, <2>3, <2>4
<1> QED BY <1>3, <1>4 DEF Shorter

-----------------------------------------------------------------------------
(* The owner's side of a write-back                                        *)

\* The objects that a message names are the owner's, or new ones after them.
LEMMA StoredIs ==
  ASSUME Typed, NEW named, named = Named, NEW m, m = Shorter(named),
         NEW top, top = Len(masterVal) + Cardinality(Shells(m, named))
  PROVE  /\ Shells(m, named) \in SUBSET m.objects
         /\ Shells(m, named) \in SUBSET Nat /\ IsFiniteSet(Shells(m, named))
         /\ Len(masterVal) \in Nat /\ top \in Nat /\ Len(masterVal) <= top
         /\ \A s : Stored(m, named, s) \in 0..top
<1> DEFINE shells == Shells(m, named)
           W == Walked(master)
<1>1. m.objects \in SUBSET Range(copy)
  BY MessageIs
<1>2. shells \in SUBSET m.objects /\ shells \in SUBSET Range(copy)
  BY <1>1 DEF Shells
<1>3. shells \in SUBSET Nat /\ IsFiniteSet(shells)
  BY <1>2, CopyObjects
<1>4. Cardinality(shells) \in Nat /\ \A o \in shells : Rank(shells, o) \in 1..Cardinality(shells)
  BY <1>3, RankIs
<1>5. master \in Seq(0..Len(masterVal)) /\ Len(masterVal) \in Nat
  BY DEF Typed, TypeOK
<1>6. top \in Nat /\ Len(masterVal) <= top /\ \A k \in 1..Cardinality(shells) :
        Len(masterVal) + k \in 0..top
  <2> HIDE DEF shells
  <2>1. top = Len(masterVal) + Cardinality(shells)
    BY DEF shells
  <2> QED BY <1>4, <1>5, <2>1
<1>7. W \in Seq(1..Len(masterVal))
  BY <1>5, WalkedIs
<1>8. ASSUME NEW s
      PROVE  Stored(m, named, s) \in 0..top
  <2>1. CASE Known(s)
    <3>1. s.n \in DOMAIN W /\ Stored(m, named, s) = W[s.n]
      BY <2>1 DEF Known, Stored
    <3>2. W[s.n] \in 1..Len(masterVal)
      BY <1>7, <3>1
    <3> HIDE DEF W
    <3> QED BY <1>5, <1>6, <3>1, <3>2
  <2>2. CASE ~Known(s) /\ \E o \in shells : named[o] = s
    <3>1. PICK p : p = CHOOSE o \in shells : named[o] = s
      OBVIOUS
    <3>2. p \in shells /\ Stored(m, named, s) = Len(masterVal) + Rank(shells, p)
      BY <2>2, <3>1 DEF Stored
    <3> HIDE DEF shells
    <3> QED BY <1>4, <1>6, <3>2
  <2>3. CASE ~Known(s) /\ ~\E o \in shells : named[o] = s
    <3>1. Stored(m, named, s) = 0
      BY <2>3 DEF Stored
    <3> QED BY <1>6, <3>1
  <2> QED BY <2>1, <2>2, <2>3
<1> QED BY <1>2, <1>3, <1>5, <1>6, <1>8

\* The owner's objects after a write-back: an object that the message ships has the value of the
\* first of those shipped as it, every other one its own.
LEMMA ReconstructedIs ==
  ASSUME Typed, NEW named, named = Named, NEW m, m = Shorter(named),
         NEW top, top = Len(masterVal) + Cardinality(Shells(m, named))
  PROVE  /\ Reconstructed(m, named) \in Seq(Value) /\ Len(Reconstructed(m, named)) = top
         /\ \A x \in 1..top :
              (\E o \in m.objects : Stored(m, named, named[o]) = x) =>
                \E o \in m.objects : /\ Stored(m, named, named[o]) = x
                                     /\ Reconstructed(m, named)[x] = val[o]
         /\ \A x \in 1..Len(masterVal) :
              ~(\E o \in m.objects : Stored(m, named, named[o]) = x) =>
                Reconstructed(m, named)[x] = masterVal[x]
<1> DEFINE n == Cardinality(Shells(m, named))
           zeros == [k \in 1..n |-> 0]
           grown == masterVal \o zeros
           R == Reconstructed(m, named)
<1>1. n \in Nat
  BY StoredIs, FS_CardinalityType
<1>2. 0 \in Value
  BY BoundsAssumption DEF Value
<1>3. masterVal \in Seq(Value) /\ val \in Seq(Value)
  BY DEF Typed, TypeOK
<1>4. zeros \in Seq(Value) /\ Len(zeros) = n
  <2> HIDE DEF n
  <2> QED BY <1>1, <1>2
<1>5. /\ grown \in Seq(Value) /\ Len(grown) = top
      /\ \A x \in 1..Len(masterVal) : grown[x] = masterVal[x]
  <2>1. top = Len(masterVal) + n
    OBVIOUS
  <2> HIDE DEF zeros, n
  <2> QED BY <1>1, <1>3, <1>4, <2>1
<1>6. DOMAIN grown = 1..top /\ top \in Nat /\ Len(masterVal) <= top /\ Len(masterVal) \in Nat
  <2>1. DOMAIN grown = 1..top
    <3> HIDE DEF grown
    <3> QED BY <1>5
  <2> QED BY <2>1, StoredIs
<1>7. R = [x \in 1..top |->
             IF \E o \in m.objects : Stored(m, named, named[o]) = x
             THEN val[CHOOSE o \in m.objects : Stored(m, named, named[o]) = x]
             ELSE grown[x]]
  BY <1>6 DEF Reconstructed
<1>8. ASSUME NEW x \in 1..top, \E o \in m.objects : Stored(m, named, named[o]) = x
      PROVE  \E o \in m.objects : Stored(m, named, named[o]) = x /\ R[x] = val[o]
  <2>1. PICK p : p = CHOOSE o \in m.objects : Stored(m, named, named[o]) = x
    OBVIOUS
  <2>2. p \in m.objects /\ Stored(m, named, named[p]) = x
    BY <1>8, <2>1
  <2>3. R[x] = val[p]
    <3> HIDE DEF grown, R
    <3> QED BY <1>7, <1>8, <2>1
  <2> QED BY <2>2, <2>3
<1>9. ASSUME NEW x \in 1..top, ~\E o \in m.objects : Stored(m, named, named[o]) = x
      PROVE  R[x] = grown[x]
  <2> HIDE DEF grown, R
  <2> QED BY <1>7, <1>9
<1>10. R \in Seq(Value) /\ Len(R) = top
  <2>1. ASSUME NEW x \in 1..top
        PROVE  R[x] \in Value
    <3>1. CASE \E o \in m.objects : Stored(m, named, named[o]) = x
      <4>1. PICK o \in m.objects : R[x] = val[o]
        BY <1>8, <3>1
      <4>2. o \in 1..Len(val)
        BY MessageIs, CopyObjects
      <4> QED BY <1>3, <4>1, <4>2
    <3>2. CASE ~\E o \in m.objects : Stored(m, named, named[o]) = x
      <4>1. R[x] = grown[x]
        BY <1>9, <3>2
      <4> HIDE DEF grown, R
      <4> QED BY <1>5, <1>6, <4>1
    <3> QED BY <3>1, <3>2
  <2>2. R = [x \in 1..top |-> R[x]]
    <3> HIDE DEF grown
    <3> QED BY <1>7
  <2> HIDE DEF R
  <2> QED BY <1>6, <2>1, <2>2
<1>11. ASSUME NEW x \in 1..Len(masterVal), ~\E o \in m.objects : Stored(m, named, named[o]) = x
       PROVE  R[x] = masterVal[x]
  <2>1. x \in 1..top
    BY <1>6
  <2> HIDE DEF grown, R
  <2> QED BY <1>5, <1>9, <1>11, <2>1
<1> QED BY <1>8, <1>10, <1>11

\* The owner's array after a write-back holds objects of the owner's.
LEMMA PatchedIs ==
  ASSUME Typed, NEW named, named = Named, NEW m, m = Shorter(named),
         NEW top, top = Len(masterVal) + Cardinality(Shells(m, named)), NEW r \in m.root
  PROVE  /\ Patched(m, named, r) \in Seq(0..top) /\ Len(Patched(m, named, r)) = Len(copy)
         /\ \A i \in DOMAIN copy :
              Patched(m, named, r)[i] =
                IF i \in DOMAIN r.at THEN Stored(m, named, named[copy[i]])
                ELSE IF i <= Len(master) THEN master[i] ELSE 0
<1>1. /\ r.len = Len(copy) /\ Len(copy) \in Nat /\ DOMAIN copy = 1..Len(copy)
      /\ \A i \in DOMAIN r.at : i \in DOMAIN copy /\ r.at[i] = named[copy[i]]
  BY MessageIs, CopyObjects
<1>2. Len(masterVal) \in Nat /\ top \in Nat /\ Len(masterVal) <= top
      /\ \A s : Stored(m, named, s) \in 0..top
  BY StoredIs
<1>3. master \in Seq(0..Len(masterVal))
  BY DEF Typed, TypeOK
<1>4. Patched(m, named, r) = [i \in 1..Len(copy) |->
        IF i \in DOMAIN r.at THEN Stored(m, named, r.at[i])
        ELSE IF i <= Len(master) THEN master[i] ELSE 0]
  BY <1>1 DEF Patched
<1>5. ASSUME NEW i \in 1..Len(copy)
      PROVE  Patched(m, named, r)[i] \in 0..top
  <2>1. CASE i \in DOMAIN r.at
    BY <1>2, <1>4, <2>1
  <2>2. CASE i \notin DOMAIN r.at /\ i <= Len(master)
    <3>1. master[i] \in 0..Len(masterVal)
      BY <1>1, <1>3, <2>2
    <3>2. Patched(m, named, r)[i] = master[i]
      BY <1>4, <2>2
    <3> QED BY <1>2, <3>1, <3>2
  <2>3. CASE i \notin DOMAIN r.at /\ ~(i <= Len(master))
    <3>1. Patched(m, named, r)[i] = 0
      BY <1>4, <2>3
    <3> QED BY <1>2, <3>1
  <2> QED BY <2>1, <2>2, <2>3
<1>6. Patched(m, named, r) \in Seq(0..top) /\ Len(Patched(m, named, r)) = Len(copy)
  <2>1. Patched(m, named, r) = [i \in 1..Len(copy) |-> Patched(m, named, r)[i]]
    BY <1>4
  <2> QED BY <1>1, <1>5, <2>1
<1>7. \A i \in DOMAIN copy :
        Patched(m, named, r)[i] = IF i \in DOMAIN r.at THEN Stored(m, named, named[copy[i]])
                                  ELSE IF i <= Len(master) THEN master[i] ELSE 0
  BY <1>1, <1>4
<1> QED BY <1>6, <1>7

\* While reader and owner agree, each object of the copy is an object of the owner's after a
\* write-back, another one for each, with the value it has in the copy; one of the walk is the
\* object it was fetched from, whose value stays if no object of the copy is it.
LEMMA ObjectsLand ==
  ASSUME Typed, Agreed, reshaped # "shipped",
         NEW named, named = Named, NEW m, m = Shorter(named), NEW W, W = Walked(master)
  PROVE  /\ \A o \in Range(copy) : o \in DOMAIN W =>
              named[o] = At(o) /\ Stored(m, named, named[o]) = W[o]
         /\ \A o \in Range(copy) : o \notin DOMAIN W => named[o].by = "reader"
         /\ \A o \in Range(copy) :
              /\ Stored(m, named, named[o]) # 0
              /\ Reconstructed(m, named)[Stored(m, named, named[o])] = val[o]
         /\ \A n \in DOMAIN W : n \notin Range(copy) =>
              Reconstructed(m, named)[W[n]] = masterVal[W[n]]
<1> DEFINE shells == Shells(m, named)
           top == Len(masterVal) + Cardinality(shells)
           V(o) == Stored(m, named, named[o])
           R == Reconstructed(m, named)
<1>1. /\ Range(copy) \in SUBSET DOMAIN sid /\ m.objects \in SUBSET Range(copy)
      /\ shells \in SUBSET m.objects /\ shells \in SUBSET Nat /\ IsFiniteSet(shells)
      /\ Len(masterVal) \in Nat /\ top \in Nat /\ Len(masterVal) <= top
  BY CopyObjects, MessageIs, StoredIs
<1>2. master \in Seq(0..Len(masterVal))
  BY DEF Typed, TypeOK
<1>3. W \in Seq(1..Len(masterVal)) /\ \A n, k \in DOMAIN W : W[n] = W[k] => n = k
  BY <1>1, <1>2, WalkedIs
<1>4. \A o \in DOMAIN sid : sid[o] = IF o \in DOMAIN W THEN At(o) ELSE Unnamed
  BY DEF Agreed, IdsAgree
<1>5. DOMAIN peerVal = {At(n) : n \in DOMAIN W}
      /\ \A n \in DOMAIN W : peerVal[At(n)] = masterVal[W[n]]
  BY DEF Agreed, ViewAgrees
<1>6. ASSUME NEW o \in Range(copy), o \in DOMAIN W
      PROVE  named[o] = At(o) /\ V(o) = W[o] /\ o \notin shells
  <2>1. sid[o] = At(o) /\ sid[o] # Unnamed
    BY <1>1, <1>4, <1>6 DEF At, Unnamed
  <2>2. o \notin Fresh
    BY <2>1 DEF Fresh
  <2>3. named[o] = At(o)
    BY <1>1, <2>1, <2>2, NamedIs
  <2>4. At(o).by = "walk" /\ At(o).n = o
    BY DEF At
  <2>5. Known(named[o]) /\ named[o].n = o
    BY <1>6, <2>3, <2>4 DEF Known
  <2>6. V(o) = W[o]
    BY <2>5 DEF Stored
  <2>7. o \notin shells
    BY <2>5 DEF Shells
  <2> QED BY <2>3, <2>6, <2>7
<1>7. ASSUME NEW o \in Range(copy), o \notin DOMAIN W
      PROVE  /\ named[o].by = "reader" /\ o \in shells
             /\ V(o) = Len(masterVal) + Rank(shells, o)
  <2>1. o \in Fresh
    BY <1>1, <1>4, <1>7 DEF Fresh
  <2>2. named[o].by = "reader"
    BY <2>1, NamedIs
  <2>3. ~Known(named[o])
    BY <2>2 DEF Known
  <2>4. named[o] \notin DOMAIN peerVal
    <3>1. \A n : At(n).by = "walk"
      BY DEF At
    <3> QED BY <1>5, <2>2, <3>1
  <2>5. o \in m.objects
    BY <2>4, MessageIs
  <2>6. o \in shells
    BY <2>3, <2>5 DEF Shells
  <2>7. PICK p : p = CHOOSE q \in shells : named[q] = named[o]
    OBVIOUS
  <2>8. p \in shells /\ named[p] = named[o]
    BY <2>6, <2>7
  <2>9. named[o] # Unnamed
    BY <2>2 DEF Unnamed
  <2>10. p = o
    BY <1>1, <2>8, <2>9, NamedIs
  <2>11. V(o) = Len(masterVal) + Rank(shells, p)
    BY <2>3, <2>6, <2>7 DEF Stored
  <2> QED BY <2>2, <2>6, <2>10, <2>11
<1>8. \A o \in shells : Rank(shells, o) \in 1..Cardinality(shells)
      /\ \A p \in shells : o < p => Rank(shells, o) < Rank(shells, p)
  BY <1>1, RankIs
<1>9. Cardinality(shells) \in Nat
  BY <1>1, FS_CardinalityType
<1> HIDE DEF shells
<1>10. ASSUME NEW o \in Range(copy), o \notin DOMAIN W
       PROVE  V(o) \in (Len(masterVal) + 1)..top
  <2>1. Rank(shells, o) \in 1..Cardinality(shells) /\ V(o) = Len(masterVal) + Rank(shells, o)
    BY <1>7, <1>8, <1>10
  <2> HIDE DEF V
  <2> QED BY <1>1, <1>9, <2>1
<1>11. \A n \in DOMAIN W : W[n] \in 1..Len(masterVal)
  BY <1>3
<1>12. ASSUME NEW o \in Range(copy)
       PROVE  V(o) \in 1..top /\ V(o) # 0
  <2>1. CASE o \in DOMAIN W
    <3>1. V(o) \in 1..Len(masterVal)
      BY <1>6, <1>11, <2>1
    <3> HIDE DEF V, top
    <3> QED BY <1>1, <3>1
  <2>2. CASE o \notin DOMAIN W
    <3>1. V(o) \in (Len(masterVal) + 1)..top
      BY <1>10, <2>2
    <3> HIDE DEF V, top
    <3> QED BY <1>1, <3>1
  <2> QED BY <2>1, <2>2
<1>13. ASSUME NEW o \in Range(copy), NEW p \in Range(copy), V(o) = V(p)
       PROVE  o = p
  <2>1. CASE o \in DOMAIN W /\ p \in DOMAIN W
    BY <1>3, <1>6, <1>13, <2>1
  <2>2. \A a, b \in Range(copy) : a \in DOMAIN W /\ b \notin DOMAIN W => V(a) # V(b)
    <3> TAKE a, b \in Range(copy)
    <3> HAVE a \in DOMAIN W /\ b \notin DOMAIN W
    <3>1. V(a) \in 1..Len(masterVal)
      BY <1>6, <1>11
    <3>2. V(b) \in (Len(masterVal) + 1)..top
      BY <1>10
    <3> HIDE DEF V, top
    <3> QED BY <1>1, <3>1, <3>2
  <2>3. CASE o \notin DOMAIN W /\ p \notin DOMAIN W
    <3>1. /\ V(o) = Len(masterVal) + Rank(shells, o) /\ o \in shells
          /\ V(p) = Len(masterVal) + Rank(shells, p) /\ p \in shells
      BY <1>7, <2>3
    <3>2. /\ Rank(shells, o) \in Nat /\ Rank(shells, p) \in Nat /\ o \in Nat /\ p \in Nat
          /\ o < p => Rank(shells, o) < Rank(shells, p)
          /\ p < o => Rank(shells, p) < Rank(shells, o)
      BY <1>1, <1>8, <3>1
    <3>3. Rank(shells, o) = Rank(shells, p)
      <4>1. Len(masterVal) + Rank(shells, o) = Len(masterVal) + Rank(shells, p)
        BY <1>13, <3>1
      <4> QED BY <1>1, <3>2, <4>1
    <3> QED BY <3>2, <3>3
  <2> QED BY <1>13, <2>1, <2>2, <2>3
<1>14. /\ \A x \in 1..top : (\E o \in m.objects : V(o) = x) =>
            \E o \in m.objects : V(o) = x /\ R[x] = val[o]
       /\ \A x \in 1..Len(masterVal) :
            ~(\E o \in m.objects : V(o) = x) => R[x] = masterVal[x]
  BY ReconstructedIs DEF shells
<1> HIDE DEF V, R, top
<1>15. ASSUME NEW o \in Range(copy)
       PROVE  R[V(o)] = val[o]
  <2>1. CASE o \in m.objects
    <3>1. PICK p \in m.objects : V(p) = V(o) /\ R[V(o)] = val[p]
      BY <1>12, <1>14, <2>1
    <3>2. p = o
      BY <1>1, <1>13, <3>1
    <3> QED BY <3>1, <3>2
  <2>2. CASE o \notin m.objects
    <3>1. named[o] \in DOMAIN peerVal /\ peerVal[named[o]] = val[o]
      BY <2>2, MessageIs
    <3>2. o \in DOMAIN W
      BY <1>1, <1>7, <2>2
    <3>3. named[o] = At(o) /\ V(o) = W[o]
      BY <1>6, <3>2 DEF V
    <3>4. masterVal[V(o)] = val[o]
      BY <1>5, <3>1, <3>2, <3>3
    <3>5. ~\E p \in m.objects : V(p) = V(o)
      BY <1>1, <1>13, <2>2
    <3>6. R[V(o)] = masterVal[V(o)]
      BY <1>11, <1>14, <3>2, <3>3, <3>5
    <3> QED BY <3>4, <3>6
  <2> QED BY <2>1, <2>2
<1>16. ASSUME NEW n \in DOMAIN W, n \notin Range(copy)
       PROVE  R[W[n]] = masterVal[W[n]]
  <2>1. ASSUME NEW o \in m.objects
        PROVE  V(o) # W[n]
    <3>1. CASE o \in DOMAIN W
      <4>1. V(o) = W[o] /\ o # n
        BY <1>1, <1>6, <1>16, <3>1 DEF V
      <4> QED BY <1>3, <3>1, <4>1
    <3>2. CASE o \notin DOMAIN W
      <4>1. V(o) \in (Len(masterVal) + 1)..top
        BY <1>1, <1>10, <3>2
      <4>2. W[n] \in 1..Len(masterVal)
        BY <1>11
      <4> QED BY <1>1, <4>1, <4>2 DEF top
    <3> QED BY <3>1, <3>2
  <2> QED BY <1>11, <1>14, <2>1
<1>17. \A o \in Range(copy) : o \in DOMAIN W =>
         named[o] = At(o) /\ Stored(m, named, named[o]) = W[o]
  BY <1>6 DEF V
<1> QED BY <1>7, <1>12, <1>15, <1>16, <1>17 DEF V, R

\* And each element of the owner's array is then the object of the element of the copy.
LEMMA ArrayLands ==
  ASSUME Typed, Agreed, reshaped # "shipped",
         NEW named, named = Named, NEW m, m = Shorter(named), NEW array,
         IF m.root = {} THEN array = master ELSE \E r \in m.root : array = Patched(m, named, r)
  PROVE  /\ DOMAIN array = DOMAIN copy
         /\ \A i \in DOMAIN copy : array[i] = Stored(m, named, named[copy[i]])
<1> DEFINE W == Walked(master)
<1>1. /\ DOMAIN copy = 1..Len(copy) /\ Len(copy) \in Nat
      /\ \A i \in DOMAIN copy : copy[i] \in Range(copy)
  BY CopyObjects
<1>2. /\ Len(peerRoot) = Len(master)
      /\ \A i \in DOMAIN master : \E n \in DOMAIN W : peerRoot[i] = At(n) /\ W[n] = master[i]
  BY DEF Agreed, ViewAgrees
<1>3. DOMAIN master = 1..Len(master) /\ Len(master) \in Nat
  BY DEF Typed, TypeOK
<1>4. /\ \A o \in Range(copy) : o \in DOMAIN W =>
           named[o] = At(o) /\ Stored(m, named, named[o]) = W[o]
      /\ \A o \in Range(copy) : o \notin DOMAIN W => named[o].by = "reader"
  BY ObjectsLand
<1>5. ASSUME NEW i \in DOMAIN copy, i <= Len(peerRoot), peerRoot[i] = named[copy[i]]
      PROVE  i <= Len(master) /\ master[i] = Stored(m, named, named[copy[i]])
  <2>1. i \in DOMAIN master
    BY <1>1, <1>2, <1>3, <1>5
  <2>2. PICK n \in DOMAIN W : peerRoot[i] = At(n) /\ W[n] = master[i]
    BY <1>2, <2>1
  <2>3. named[copy[i]].by = "walk" /\ named[copy[i]].n = n
    BY <1>5, <2>2 DEF At
  <2>4. copy[i] \in DOMAIN W
    BY <1>1, <1>4, <2>3
  <2>5. named[copy[i]] = At(copy[i]) /\ Stored(m, named, named[copy[i]]) = W[copy[i]]
    BY <1>1, <1>4, <2>4
  <2>6. copy[i] = n
    BY <2>3, <2>5 DEF At
  <2> QED BY <1>2, <1>5, <2>2, <2>5, <2>6
<1>6. CASE m.root = {}
  <2>1. array = master
    BY <1>6
  <2>2. Len(peerRoot) = Len(copy) /\ \A i \in DOMAIN copy : peerRoot[i] = named[copy[i]]
    BY <1>6, MessageIs
  <2>3. DOMAIN array = DOMAIN copy
    BY <1>1, <1>2, <1>3, <2>1, <2>2
  <2>4. \A i \in DOMAIN copy : i <= Len(peerRoot)
    BY <1>1, <2>2
  <2> QED BY <1>5, <2>1, <2>2, <2>3, <2>4
<1>7. CASE m.root # {}
  <2>1. PICK r \in m.root : array = Patched(m, named, r)
    BY <1>7
  <2>2. PICK top : top = Len(masterVal) + Cardinality(Shells(m, named))
    OBVIOUS
  <2>3. /\ array \in Seq(0..top) /\ Len(array) = Len(copy)
        /\ \A i \in DOMAIN copy :
             array[i] = IF i \in DOMAIN r.at THEN Stored(m, named, named[copy[i]])
                        ELSE IF i <= Len(master) THEN master[i] ELSE 0
    BY <2>1, <2>2, PatchedIs
  <2>4. \A i \in DOMAIN copy :
          i \notin DOMAIN r.at => i <= Len(peerRoot) /\ peerRoot[i] = named[copy[i]]
    BY MessageIs
  <2>5. DOMAIN array = DOMAIN copy
    BY <1>1, <2>3
  <2>6. ASSUME NEW i \in DOMAIN copy
        PROVE  array[i] = Stored(m, named, named[copy[i]])
    <3>1. CASE i \in DOMAIN r.at
      BY <2>3, <3>1
    <3>2. CASE i \notin DOMAIN r.at
      <4>1. i <= Len(master) /\ master[i] = Stored(m, named, named[copy[i]])
        BY <1>5, <2>4, <3>2
      <4> QED BY <2>3, <3>2, <4>1
    <3> QED BY <3>1, <3>2
  <2> QED BY <2>5, <2>6
<1> QED BY <1>6, <1>7

-----------------------------------------------------------------------------
(* The steps                                                               *)

\* A copy of which nothing has been edited.
JustFetched ==
  /\ masterVal \in Seq(Value) /\ master \in Seq(1..Len(masterVal))
  /\ LET f == Fetched(master, masterVal)
     IN  /\ copy = f.copy /\ val = f.val /\ sid = f.sid
         /\ peerRoot = f.peerRoot /\ peerVal = f.peerVal
  /\ next = 1 /\ edits \in Value /\ dirty \in BOOLEAN
  /\ anchor = master
  /\ reshaped = "no"

\* A copy just fetched agrees with the master.
LEMMA JustFetchedIs == JustFetched => NInv
<1> SUFFICES ASSUME JustFetched
             PROVE  NInv
  OBVIOUS
<1>1. PICK f : f = Fetched(master, masterVal)
  OBVIOUS
<1>2. PICK W : W = Walked(master)
  OBVIOUS
<1>3. /\ masterVal \in Seq(Value) /\ master \in Seq(1..Len(masterVal))
      /\ copy = f.copy /\ val = f.val /\ sid = f.sid
      /\ peerRoot = f.peerRoot /\ peerVal = f.peerVal
      /\ next = 1 /\ edits \in Value /\ dirty \in BOOLEAN /\ anchor = master /\ reshaped = "no"
  BY <1>1 DEF JustFetched
<1>4. /\ W \in Seq(1..Len(masterVal))
      /\ copy \in Seq(1..Len(W)) /\ Len(copy) = Len(master)
      /\ \A i \in DOMAIN master : W[copy[i]] = master[i] /\ peerRoot[i] = At(copy[i])
      /\ val \in Seq(Value) /\ Len(val) = Len(W)
      /\ sid = [n \in 1..Len(W) |-> At(n)]
      /\ peerRoot \in Seq(Id) /\ Len(peerRoot) = Len(master)
      /\ DOMAIN peerVal = {At(n) : n \in DOMAIN W}
      /\ \A n \in DOMAIN W : peerVal[At(n)] = masterVal[W[n]]
  BY <1>1, <1>2, <1>3, FetchedIs
<1>5. DOMAIN W = 1..Len(W) /\ Len(W) \in Nat /\ DOMAIN val = 1..Len(W) /\ DOMAIN sid = 1..Len(W)
      /\ DOMAIN copy = DOMAIN master /\ \A i \in DOMAIN copy : copy[i] \in DOMAIN W
  BY <1>3, <1>4
<1>6. \A n \in 1..Len(W) : At(n) \in Id /\ At(n).by = "walk" /\ At(n).n = n
  BY <1>5 DEF At, Id
<1>7. sid \in Seq(Id) /\ Len(sid) = Len(val)
      /\ \A o \in DOMAIN sid : sid[o] = At(o) /\ sid[o].by = "walk" /\ sid[o].n = o
  BY <1>4, <1>5, <1>6
<1>8. TypeOK
  <2>1. master \in Seq(0..Len(masterVal))
    BY <1>3
  <2>2. copy \in Seq(1..Len(val))
    BY <1>4
  <2>3. \A o, p \in DOMAIN sid : o # p /\ sid[o] # Unnamed => sid[o] # sid[p]
    BY <1>7
  <2> QED BY <1>3, <1>4, <1>5, <2>1, <2>2, <2>3 DEF TypeOK
<1>9. Typed
  BY <1>4, <1>7, <1>8 DEF Typed
<1>10. Agreed
  <2>1. \A i \in DOMAIN master : master[i] # 0
    BY <1>3
  <2>2. IdsAgree
    BY <1>2, <1>4, <1>5, <1>7 DEF IdsAgree
  <2>3. ViewAgrees
    BY <1>2, <1>4, <1>5 DEF ViewAgrees
  <2> QED BY <1>3, <2>1, <2>2, <2>3 DEF Agreed
<1>11. SameShape
  BY <1>2, <1>4, <1>5 DEF SameShape
<1> QED BY <1>9, <1>10, <1>11 DEF NInv

\* The invariant holds initially.
LEMMA InitInv == Init => NInv
<1> SUFFICES ASSUME Init
             PROVE  JustFetched
  BY JustFetchedIs
<1>1. 0 \in Value /\ Initial \in Nat
  BY BoundsAssumption DEF Value
<1>2. masterVal = [i \in 1..Initial |-> 0] /\ master = [i \in 1..Initial |-> i]
  BY DEF Init
<1>3. masterVal \in Seq(Value) /\ master \in Seq(1..Len(masterVal))
  BY <1>1, <1>2
<1>4. /\ LET f == Fetched(master, masterVal)
         IN  /\ copy = f.copy /\ val = f.val /\ sid = f.sid
             /\ peerRoot = f.peerRoot /\ peerVal = f.peerVal
      /\ next = 1 /\ edits = 0 /\ dirty = FALSE /\ anchor = master /\ reshaped = "no"
  BY DEF Init
<1> QED BY <1>1, <1>3, <1>4 DEF JustFetched

\* A fetch preserves the invariant.
LEMMA FetchInv ==
  ASSUME NInv, Fetch
  PROVE  NInv'
<1>1. JustFetched'
  <2>1. masterVal \in Seq(Value) /\ master \in Seq(0..Len(masterVal)) /\ edits \in Value
        /\ dirty \in BOOLEAN
    BY DEF NInv, Typed, TypeOK
  <2>2. masterVal' = masterVal /\ master' = master /\ edits' = edits /\ dirty' = dirty
        /\ next' = 1 /\ anchor' = master /\ reshaped' = "no"
    BY DEF Fetch
  <2>3. \A i \in DOMAIN master : master[i] # 0
    BY DEF Fetch
  <2>4. master \in Seq(1..Len(masterVal))
    <3>1. \A i \in 1..Len(master) : master[i] \in 1..Len(masterVal)
      BY <2>1, <2>3
    <3> QED BY <2>1, <3>1
  <2>5. LET f == Fetched(master', masterVal')
        IN  /\ copy' = f.copy /\ val' = f.val /\ sid' = f.sid
            /\ peerRoot' = f.peerRoot /\ peerVal' = f.peerVal
    BY <2>2 DEF Fetch
  <2> QED BY <2>1, <2>2, <2>4, <2>5 DEF JustFetched
<1>2. (JustFetched => NInv)'
  BY JustFetchedIs, PTL
<1> QED BY <1>1, <1>2

\* An edit preserves the invariant.
LEMMA EditInv ==
  ASSUME NInv, NEW i \in DOMAIN copy, Edit(i)
  PROVE  NInv'
<1>1. /\ edits < MaxEdits /\ edits' = edits + 1 /\ dirty' = TRUE
      /\ val' = [val EXCEPT ![copy[i]] = edits']
      /\ UNCHANGED <<master, masterVal, copy, sid, next, peerRoot, peerVal, anchor, reshaped>>
  BY DEF Edit, Mutate
<1>2. edits \in Value /\ val \in Seq(Value) /\ copy \in Seq(1..Len(val))
  BY DEF NInv, Typed, TypeOK
<1>3. edits' \in Value
  <2>1. edits \in Nat /\ edits + 1 <= MaxEdits /\ MaxEdits \in Nat
    BY <1>1, <1>2, BoundsAssumption DEF Value
  <2> QED BY <1>1, <2>1 DEF Value
<1>4. val' \in Seq(Value) /\ Len(val') = Len(val) /\ DOMAIN val' = DOMAIN val
  BY <1>1, <1>2, <1>3
<1>5. Typed'
  <2>1. TypeOK'
    <3>1. copy' \in Seq(1..Len(val'))
      BY <1>1, <1>2, <1>4
    <3>2. /\ master' \in Seq(0..Len(masterVal')) /\ masterVal' \in Seq(Value)
          /\ DOMAIN sid' = DOMAIN val' /\ next' \in Nat
          /\ reshaped' \in {"no", "dirty", "shipped"}
          /\ \A o, p \in DOMAIN sid' : o # p /\ sid'[o] # Unnamed => sid'[o] # sid'[p]
      BY <1>1, <1>4 DEF NInv, Typed, TypeOK
    <3> QED BY <1>1, <1>3, <1>4, <3>1, <3>2 DEF TypeOK
  <2> QED BY <1>1, <1>4, <2>1 DEF NInv, Typed
<1>6. Agreed'
  BY <1>1, <1>4 DEF NInv, Agreed, IdsAgree, ViewAgrees
<1>7. SameShape'
  BY <1>1, <1>4 DEF NInv, SameShape
<1> QED BY <1>5, <1>6, <1>7 DEF NInv

\* An insertion preserves the invariant: the new object has no id, and none of the walk is it.
LEMMA InsertInv ==
  ASSUME NInv, NEW i \in 1..(Len(copy) + 1), Insert(i)
  PROVE  NInv'
<1>1. /\ edits < MaxEdits /\ edits' = edits + 1 /\ dirty' = TRUE
      /\ val' = Append(val, edits') /\ sid' = Append(sid, Unnamed)
      /\ copy' = InsertAt(copy, i, Len(val'))
      /\ reshaped' = IF reshaped = "no" THEN "dirty" ELSE reshaped
      /\ UNCHANGED <<master, masterVal, next, peerRoot, peerVal, anchor>>
  BY DEF Insert, Mutate, Reshape
<1>2. /\ edits \in Value /\ val \in Seq(Value) /\ copy \in Seq(1..Len(val))
      /\ sid \in Seq(Id) /\ Len(sid) = Len(val)
  BY DEF NInv, Typed, TypeOK
<1>3. edits' \in Value
  <2>1. edits \in Nat /\ edits + 1 <= MaxEdits /\ MaxEdits \in Nat
    BY <1>1, <1>2, BoundsAssumption DEF Value
  <2> QED BY <1>1, <2>1 DEF Value
<1>4. val' \in Seq(Value) /\ Len(val') = Len(val) + 1
  BY <1>1, <1>2, <1>3
<1>5. Unnamed \in Id /\ Unnamed.by = "nobody"
  BY DEF Unnamed, Id
<1>6. /\ sid' \in Seq(Id) /\ Len(sid') = Len(val) + 1 /\ sid'[Len(val) + 1] = Unnamed
      /\ \A o \in 1..Len(val) : sid'[o] = sid[o]
  BY <1>1, <1>2, <1>5
<1>7. copy' \in Seq(1..Len(val'))
  <2>1. Len(copy) \in Nat /\ Len(val) \in Nat /\ i \in Nat /\ i >= 1
    BY <1>2
  <2>2. copy \in Seq(1..Len(val'))
    <3>1. \A x \in 1..Len(val) : x \in 1..Len(val')
      BY <1>4, <2>1
    <3> QED BY <1>2, <3>1
  <2>3. SubSeq(copy, 1, i - 1) \in Seq(1..Len(val'))
        /\ SubSeq(copy, i, Len(copy)) \in Seq(1..Len(val'))
    BY <2>1, <2>2
  <2>4. <<Len(val')>> \in Seq(1..Len(val'))
    BY <1>4, <2>1
  <2> QED BY <1>1, <2>3, <2>4 DEF InsertAt
<1>8. DOMAIN sid = 1..Len(val) /\ DOMAIN sid' = DOMAIN val' /\ Len(val) \in Nat
      /\ DOMAIN sid' = 1..(Len(val) + 1)
  BY <1>2, <1>4, <1>6
<1>9. TypeOK'
  <2>1. \A o, p \in DOMAIN sid' : o # p /\ sid'[o] # Unnamed => sid'[o] # sid'[p]
    <3> TAKE o, p \in DOMAIN sid'
    <3> HAVE o # p /\ sid'[o] # Unnamed
    <3>1. o \in 1..Len(val) /\ sid'[o] = sid[o]
      BY <1>6, <1>8
    <3>2. CASE p \in 1..Len(val)
      <4>1. sid'[p] = sid[p]
        BY <1>6, <3>2
      <4> QED BY <1>8, <3>1, <3>2, <4>1 DEF NInv, Typed, TypeOK
    <3>3. CASE p \notin 1..Len(val)
      <4>1. p = Len(val) + 1
        BY <1>8, <3>3
      <4> QED BY <1>6, <4>1
    <3> QED BY <3>2, <3>3
  <2>2. /\ master' \in Seq(0..Len(masterVal')) /\ masterVal' \in Seq(Value) /\ next' \in Nat
        /\ reshaped' \in {"no", "dirty", "shipped"}
    BY <1>1 DEF NInv, Typed, TypeOK
  <2> QED BY <1>1, <1>3, <1>4, <1>7, <1>8, <2>1, <2>2 DEF TypeOK
<1>10. Typed'
  <2>1. \A o \in DOMAIN sid' : sid'[o].by = "reader" => sid'[o].n < next'
    <3> TAKE o \in DOMAIN sid'
    <3>1. CASE o \in 1..Len(val)
      BY <1>1, <1>6, <1>8, <3>1 DEF NInv, Typed
    <3>2. CASE o \notin 1..Len(val)
      <4>1. o = Len(val) + 1
        BY <1>8, <3>2
      <4> QED BY <1>5, <1>6, <4>1
    <3> QED BY <3>1, <3>2
  <2> QED BY <1>1, <1>4, <1>6, <1>9, <2>1 DEF NInv, Typed
<1>11. Agreed'
  <2> SUFFICES ASSUME reshaped' # "shipped"
               PROVE  /\ anchor' = master' /\ \A k \in DOMAIN master' : master'[k] # 0
                      /\ IdsAgree' /\ ViewAgrees'
    BY DEF Agreed
  <2>1. /\ anchor = master /\ \A k \in DOMAIN master : master[k] # 0
        /\ IdsAgree /\ ViewAgrees
    BY <1>1 DEF NInv, Agreed
  <2>2. IdsAgree'
    <3>1. Walked(master) \in Seq(1..Len(masterVal))
      <4>1. master \in Seq(0..Len(masterVal)) /\ Len(masterVal) \in Nat
        BY DEF NInv, Typed, TypeOK
      <4> QED BY <4>1, WalkedIs
    <3>2. DOMAIN Walked(master) = 1..Len(Walked(master)) /\ Len(Walked(master)) \in Nat
          /\ Len(Walked(master)) <= Len(val)
      BY <2>1, <3>1 DEF IdsAgree
    <3>3. Len(Walked(master)) <= Len(val')
      BY <1>4, <1>8, <3>2
    <3>4. ASSUME NEW o \in DOMAIN sid'
          PROVE  sid'[o] = IF o \in DOMAIN Walked(master) THEN At(o) ELSE Unnamed
      <4>1. CASE o \in 1..Len(val)
        BY <1>6, <1>8, <2>1, <4>1 DEF IdsAgree
      <4>2. CASE o \notin 1..Len(val)
        <5>1. o = Len(val) + 1
          BY <1>8, <4>2
        <5>2. o \notin DOMAIN Walked(master)
          BY <1>8, <3>2, <5>1
        <5> QED BY <1>6, <5>1, <5>2
      <4> QED BY <4>1, <4>2
    <3> QED BY <1>1, <3>3, <3>4 DEF IdsAgree
  <2> QED BY <1>1, <2>1, <2>2 DEF ViewAgrees
<1>12. SameShape'
  BY <1>1 DEF SameShape
<1> QED BY <1>10, <1>11, <1>12 DEF NInv

\* A removal preserves the invariant.
LEMMA DeleteInv ==
  ASSUME NInv, NEW i \in DOMAIN copy, Delete(i)
  PROVE  NInv'
<1>1. /\ edits < MaxEdits /\ edits' = edits + 1 /\ dirty' = TRUE
      /\ copy' = RemoveAt(copy, i)
      /\ reshaped' = IF reshaped = "no" THEN "dirty" ELSE reshaped
      /\ UNCHANGED <<master, masterVal, val, sid, next, peerRoot, peerVal, anchor>>
  BY DEF Delete, Mutate, Reshape
<1>2. edits \in Value /\ copy \in Seq(1..Len(val))
  BY DEF NInv, Typed, TypeOK
<1>3. edits' \in Value
  <2>1. edits \in Nat /\ edits + 1 <= MaxEdits /\ MaxEdits \in Nat
    BY <1>1, <1>2, BoundsAssumption DEF Value
  <2> QED BY <1>1, <2>1 DEF Value
<1>4. copy' \in Seq(1..Len(val))
  <2>1. Len(copy) \in Nat /\ i \in Nat /\ i >= 1
    BY <1>2
  <2>2. SubSeq(copy, 1, i - 1) \in Seq(1..Len(val))
        /\ SubSeq(copy, i + 1, Len(copy)) \in Seq(1..Len(val))
    BY <1>2, <2>1
  <2> QED BY <1>1, <2>2 DEF RemoveAt
<1>5. Typed'
  <2>1. TypeOK'
    <3>1. /\ master' \in Seq(0..Len(masterVal')) /\ masterVal' \in Seq(Value)
          /\ val' \in Seq(Value) /\ DOMAIN sid' = DOMAIN val' /\ next' \in Nat
          /\ reshaped' \in {"no", "dirty", "shipped"}
          /\ \A o, p \in DOMAIN sid' : o # p /\ sid'[o] # Unnamed => sid'[o] # sid'[p]
      BY <1>1 DEF NInv, Typed, TypeOK
    <3> QED BY <1>1, <1>3, <1>4, <3>1 DEF TypeOK
  <2> QED BY <1>1, <2>1 DEF NInv, Typed
<1>6. Agreed'
  BY <1>1 DEF NInv, Agreed, IdsAgree, ViewAgrees
<1>7. SameShape'
  BY <1>1 DEF SameShape
<1> QED BY <1>5, <1>6, <1>7 DEF NInv

\* A write-back preserves the invariant: of a copy that has not been reshaped, the message leaves
\* the master's array as it is.
LEMMA WriteBackInv ==
  ASSUME NInv, WriteBack
  PROVE  NInv'
<1>1. PICK named : named = Named
  OBVIOUS
<1>2. PICK m : m = Shorter(named)
  OBVIOUS
<1>3. PICK top : top = Len(masterVal) + Cardinality(Shells(m, named))
  OBVIOUS
<1>4. /\ masterVal' = Reconstructed(m, named)
      /\ IF m.root = {} THEN master' = master ELSE \E r \in m.root : master' = Patched(m, named, r)
      /\ sid' = named /\ next' = next + Cardinality(Fresh)
      /\ peerRoot' = [i \in DOMAIN copy |-> named[copy[i]]]
      /\ peerVal' = [s \in DOMAIN peerVal \cup {named[o] : o \in Range(copy)} |->
                       IF \E o \in Range(copy) : named[o] = s
                       THEN val[CHOOSE o \in Range(copy) : named[o] = s]
                       ELSE peerVal[s]]
  BY <1>1, <1>2 DEF WriteBack
<1>5. /\ dirty' = FALSE /\ reshaped' = IF reshaped = "dirty" THEN "shipped" ELSE reshaped
      /\ copy' = copy /\ val' = val /\ edits' = edits /\ anchor' = anchor
  BY DEF WriteBack
<1>6. Typed
  BY DEF NInv
<1>7. /\ named \in Seq(Id) /\ Len(named) = Len(val) /\ DOMAIN named = DOMAIN sid
      /\ \A o \in DOMAIN sid : o \notin Fresh => named[o] = sid[o]
      /\ \A o, p \in DOMAIN sid : o # p /\ named[o] # Unnamed => named[o] # named[p]
      /\ next + Cardinality(Fresh) \in Nat
      /\ \A o \in DOMAIN sid : named[o].by = "reader" => named[o].n < next + Cardinality(Fresh)
  BY <1>1, <1>6, NamedIs
<1>8. /\ masterVal' \in Seq(Value) /\ Len(masterVal') = top
      /\ Len(masterVal) \in Nat /\ top \in Nat /\ Len(masterVal) <= top
  BY <1>1, <1>2, <1>3, <1>4, <1>6, ReconstructedIs, StoredIs
<1>9. /\ DOMAIN copy = 1..Len(copy) /\ Len(copy) \in Nat /\ DOMAIN sid = DOMAIN val
      /\ \A i \in DOMAIN copy : copy[i] \in Range(copy)
      /\ Range(copy) \in SUBSET (1..Len(val)) /\ DOMAIN val = 1..Len(val)
  BY <1>6, CopyObjects
<1>10. master' \in Seq(0..top)
  <2>1. CASE m.root = {}
    <3>1. master \in Seq(0..Len(masterVal))
      BY <1>6 DEF Typed, TypeOK
    <3>2. \A x \in 0..Len(masterVal) : x \in 0..top
      BY <1>8
    <3>3. \A S, T : S \subseteq T => Seq(S) \subseteq Seq(T)
      OBVIOUS
    <3>4. master \in Seq(0..top)
      BY <3>1, <3>2, <3>3
    <3> QED BY <1>4, <2>1, <3>4
  <2>2. CASE m.root # {}
    <3>1. PICK r \in m.root : master' = Patched(m, named, r)
      BY <1>4, <2>2
    <3> QED BY <1>1, <1>2, <1>3, <1>6, <3>1, PatchedIs
  <2> QED BY <2>1, <2>2
<1>11. peerRoot' \in Seq(Id) /\ Len(peerRoot') = Len(copy)
       /\ \A i \in DOMAIN copy : peerRoot'[i] = named[copy[i]]
  <2>1. \A i \in 1..Len(copy) : named[copy[i]] \in Id
    BY <1>7, <1>9
  <2> QED BY <1>4, <1>9, <2>1
<1>12. Typed'
  <2>1. /\ val' \in Seq(Value) /\ copy' \in Seq(1..Len(val')) /\ edits' \in Value
        /\ dirty' \in BOOLEAN /\ reshaped' \in {"no", "dirty", "shipped"}
    BY <1>5, <1>6 DEF Typed, TypeOK
  <2>2. DOMAIN sid' = DOMAIN val' /\ next' \in Nat /\ sid' \in Seq(Id) /\ Len(sid') = Len(val')
    BY <1>4, <1>5, <1>7, <1>9
  <2>3. TypeOK'
    BY <1>4, <1>7, <1>8, <1>10, <2>1, <2>2 DEF TypeOK
  <2> QED BY <1>4, <1>7, <1>11, <2>2, <2>3 DEF Typed
<1>13. ASSUME reshaped = "no"
       PROVE  master' = master /\ IdsAgree' /\ ViewAgrees'
  <2>1. PICK W : W = Walked(master)
    OBVIOUS
  <2>2. /\ Agreed /\ reshaped # "shipped" /\ IdsAgree /\ ViewAgrees
        /\ Len(val) = Len(W) /\ Len(copy) = Len(master)
        /\ \A i \in DOMAIN copy : W[copy[i]] = master[i]
    BY <1>13, <2>1 DEF NInv, Agreed, SameShape
  <2>3. master \in Seq(0..Len(masterVal)) /\ DOMAIN master = 1..Len(master)
    BY <1>6 DEF Typed, TypeOK
  <2>4. W \in Seq(1..Len(masterVal)) /\ \A n, k \in DOMAIN W : W[n] = W[k] => n = k
    BY <1>8, <2>1, <2>3, WalkedIs
  <2>5. DOMAIN W = DOMAIN val /\ \A o \in Range(copy) : o \in DOMAIN W
    BY <1>9, <2>2, <2>4
  <2>6. /\ \A o \in Range(copy) : named[o] = At(o) /\ Stored(m, named, named[o]) = W[o]
        /\ \A o \in Range(copy) : Reconstructed(m, named)[Stored(m, named, named[o])] = val[o]
        /\ \A n \in DOMAIN W : n \notin Range(copy) =>
             Reconstructed(m, named)[W[n]] = masterVal[W[n]]
    BY <1>1, <1>2, <1>6, <2>1, <2>2, <2>5, ObjectsLand
  <2>7. master' = master
    <3>1. DOMAIN master' = DOMAIN copy
          /\ \A i \in DOMAIN copy : master'[i] = Stored(m, named, named[copy[i]])
      BY <1>1, <1>2, <1>4, <1>6, <2>2, ArrayLands
    <3>2. DOMAIN master' = DOMAIN master
      BY <1>9, <2>2, <2>3, <3>1
    <3>3. \A i \in DOMAIN master : master'[i] = master[i]
      BY <1>9, <2>2, <2>6, <3>1, <3>2
    <3> QED BY <1>10, <2>3, <3>2, <3>3
  <2>8. \A o \in DOMAIN sid : named[o] = At(o)
    <3> TAKE o \in DOMAIN sid
    <3>1. sid[o] = At(o)
      BY <1>9, <2>1, <2>2, <2>5 DEF IdsAgree
    <3>2. sid[o] # Unnamed
      BY <3>1 DEF At, Unnamed
    <3>3. o \notin Fresh
      BY <3>2 DEF Fresh
    <3> QED BY <1>7, <3>1, <3>3
  <2>9. IdsAgree'
    <3>1. Len(W) <= Len(val')
      BY <1>5, <1>9, <2>2
    <3>2. \A o \in DOMAIN sid' : sid'[o] = IF o \in DOMAIN W THEN At(o) ELSE Unnamed
      BY <1>4, <1>7, <1>9, <2>5, <2>8
    <3> QED BY <2>1, <2>7, <3>1, <3>2 DEF IdsAgree
  <2>10. ViewAgrees'
    <3>1. DOMAIN peerVal = {At(n) : n \in DOMAIN W}
          /\ \A n \in DOMAIN W : peerVal[At(n)] = masterVal[W[n]]
      BY <2>1, <2>2 DEF ViewAgrees
    <3>2. DOMAIN peerVal' = {At(n) : n \in DOMAIN W}
      <4>1. {named[o] : o \in Range(copy)} \in SUBSET {At(n) : n \in DOMAIN W}
        BY <2>5, <2>6
      <4> QED BY <1>4, <3>1, <4>1
    <3>3. \A n, k : At(n) = At(k) => n = k
      BY DEF At
    <3>4. ASSUME NEW n \in DOMAIN W
          PROVE  peerVal'[At(n)] = masterVal'[W[n]]
      <4>1. At(n) \in DOMAIN peerVal'
        BY <3>2
      <4>2. CASE n \in Range(copy)
        <5>1. PICK p : p = CHOOSE o \in Range(copy) : named[o] = At(n)
          OBVIOUS
        <5>2. \E o \in Range(copy) : named[o] = At(n)
          BY <2>6, <4>2
        <5>3. p \in Range(copy) /\ named[p] = At(n)
          BY <5>1, <5>2
        <5>4. p = n
          BY <2>6, <3>3, <5>3
        <5>5. peerVal'[At(n)] = val[p]
          BY <1>4, <4>1, <5>1, <5>2
        <5>6. masterVal'[W[n]] = val[n]
          BY <1>4, <2>6, <4>2
        <5> QED BY <5>4, <5>5, <5>6
      <4>3. CASE n \notin Range(copy)
        <5>1. ~\E o \in Range(copy) : named[o] = At(n)
          BY <2>6, <3>3, <4>3
        <5>2. peerVal'[At(n)] = peerVal[At(n)]
          BY <1>4, <4>1, <5>1
        <5>3. masterVal'[W[n]] = masterVal[W[n]]
          BY <1>4, <2>6, <4>3
        <5> QED BY <3>1, <5>2, <5>3
      <4> QED BY <4>2, <4>3
    <3>5. Len(peerRoot') = Len(master)
      BY <1>11, <2>2
    <3>6. \A i \in DOMAIN master :
            \E n \in DOMAIN W : peerRoot'[i] = At(n) /\ W[n] = master[i]
      <4> TAKE i \in DOMAIN master
      <4>1. i \in DOMAIN copy
        BY <1>9, <2>2, <2>3
      <4>2. copy[i] \in DOMAIN W /\ peerRoot'[i] = At(copy[i]) /\ W[copy[i]] = master[i]
        BY <1>9, <1>11, <2>2, <2>5, <2>6, <4>1
      <4> QED BY <4>2
    <3> QED BY <2>1, <2>7, <3>2, <3>4, <3>5, <3>6 DEF ViewAgrees
  <2> QED BY <2>7, <2>9, <2>10
<1>14. Agreed'
  <2> SUFFICES ASSUME reshaped' # "shipped"
               PROVE  /\ anchor' = master' /\ \A i \in DOMAIN master' : master'[i] # 0
                      /\ IdsAgree' /\ ViewAgrees'
    BY DEF Agreed
  <2>1. reshaped = "no"
    BY <1>5, <1>6 DEF Typed, TypeOK
  <2>2. anchor = master /\ \A i \in DOMAIN master : master[i] # 0
    BY <2>1 DEF NInv, Agreed
  <2> QED BY <1>5, <1>13, <2>1, <2>2
<1>15. SameShape'
  <2> SUFFICES ASSUME reshaped' = "no"
               PROVE  /\ Len(val') = Len(Walked(master')) /\ Len(copy') = Len(master')
                      /\ \A i \in DOMAIN copy' : Walked(master')[copy'[i]] = master'[i]
    BY DEF SameShape
  <2>1. reshaped = "no"
    BY <1>5
  <2>2. master' = master
    BY <1>13, <2>1
  <2> QED BY <1>5, <2>1, <2>2 DEF NInv, SameShape
<1> QED BY <1>12, <1>14, <1>15 DEF NInv

\* NInv is inductive.
LEMMA NInvStep == NInv /\ [Next]_vars => NInv'
<1> SUFFICES ASSUME NInv, [Next]_vars
             PROVE  NInv'
  OBVIOUS
<1>1. CASE Fetch
  BY <1>1, FetchInv
<1>2. ASSUME NEW i \in DOMAIN copy, Edit(i)
      PROVE  NInv'
  BY <1>2, EditInv
<1>3. ASSUME NEW i \in DOMAIN copy, Delete(i)
      PROVE  NInv'
  BY <1>3, DeleteInv
<1>4. ASSUME NEW i \in 1..(Len(copy) + 1), Insert(i)
      PROVE  NInv'
  BY <1>4, InsertInv
<1>5. CASE WriteBack
  BY <1>5, WriteBackInv
<1>6. CASE UNCHANGED vars
  <2>1. UNCHANGED <<master, masterVal, copy, val, sid, next, peerRoot, peerVal, edits, dirty,
                    anchor, reshaped>>
    BY <1>6 DEF vars
  <2>2. Typed'
    <3>1. TypeOK'
      BY <2>1 DEF NInv, Typed, TypeOK
    <3> QED BY <2>1, <3>1 DEF NInv, Typed
  <2>3. Agreed'
    BY <2>1 DEF NInv, Agreed, IdsAgree, ViewAgrees
  <2>4. SameShape'
    BY <2>1 DEF NInv, SameShape
  <2> QED BY <2>2, <2>3, <2>4 DEF NInv
<1> QED BY <1>1, <1>2, <1>3, <1>4, <1>5, <1>6 DEF Next

-----------------------------------------------------------------------------
(* The theorems                                                            *)

\* NInv holds in every reachable state.
LEMMA Inductive == Spec => []NInv
<1> QED BY InitInv, NInvStep, PTL DEF Spec

\* The reader's and the owner's arrays hold objects that exist, the reader's ids are of distinct
\* objects, and the counter its new ids come from is past all of them.
THEOREM TypeCorrect == Spec => []TypeOK
<1>1. NInv => TypeOK
  BY DEF NInv, Typed
<1> QED BY <1>1, Inductive, PTL

\* What a write-back does to a master that the reader agrees on.
LEMMA Lands ==
  ASSUME NInv, WriteBack, reshaped # "shipped"
  PROVE  /\ DOMAIN master' = DOMAIN copy
         /\ \A i \in DOMAIN copy :
              /\ master'[i] # 0 /\ masterVal'[master'[i]] = val[copy[i]]
              /\ sid'[copy[i]].by = "walk" => master'[i] = Walked(anchor)[sid'[copy[i]].n]
<1>1. PICK named : named = Named
  OBVIOUS
<1>2. PICK m : m = Shorter(named)
  OBVIOUS
<1>3. PICK W : W = Walked(master)
  OBVIOUS
<1>4. /\ masterVal' = Reconstructed(m, named) /\ sid' = named
      /\ IF m.root = {} THEN master' = master ELSE \E r \in m.root : master' = Patched(m, named, r)
  BY <1>1, <1>2 DEF WriteBack
<1>5. Typed /\ Agreed /\ anchor = master
  BY DEF NInv, Agreed
<1>6. \A i \in DOMAIN copy : copy[i] \in Range(copy)
  BY <1>5, CopyObjects
<1>7. /\ DOMAIN master' = DOMAIN copy
      /\ \A i \in DOMAIN copy : master'[i] = Stored(m, named, named[copy[i]])
  BY <1>1, <1>2, <1>4, <1>5, ArrayLands
<1>8. /\ \A o \in Range(copy) : o \in DOMAIN W =>
           named[o] = At(o) /\ Stored(m, named, named[o]) = W[o]
      /\ \A o \in Range(copy) : o \notin DOMAIN W => named[o].by = "reader"
      /\ \A o \in Range(copy) :
           /\ Stored(m, named, named[o]) # 0
           /\ Reconstructed(m, named)[Stored(m, named, named[o])] = val[o]
  BY <1>1, <1>2, <1>3, <1>5, ObjectsLand
<1>9. ASSUME NEW i \in DOMAIN copy, sid'[copy[i]].by = "walk"
      PROVE  master'[i] = Walked(anchor)[sid'[copy[i]].n]
  <2>1. copy[i] \in DOMAIN W
    BY <1>4, <1>6, <1>8, <1>9
  <2>2. named[copy[i]] = At(copy[i]) /\ master'[i] = W[copy[i]]
    BY <1>6, <1>7, <1>8, <2>1
  <2>3. named[copy[i]].n = copy[i]
    BY <2>2 DEF At
  <2> QED BY <1>3, <1>4, <1>5, <2>2, <2>3
<1> QED BY <1>4, <1>6, <1>7, <1>8, <1>9

\* Whatever was edited, inserted and removed, the first write-back after objects have come or
\* gone, and all before it, leave the master reading as the copy does.
THEOREM ReshapeLands == Spec => FirstReshapeLands
<1>1. NInv /\ [Next]_vars => [WriteBack /\ reshaped # "shipped" => Landed]_vars
  <2> SUFFICES ASSUME NInv, WriteBack, reshaped # "shipped"
               PROVE  Landed
    OBVIOUS
  <2>1. /\ DOMAIN master' = DOMAIN copy
        /\ \A i \in DOMAIN copy : master'[i] # 0 /\ masterVal'[master'[i]] = val[copy[i]]
    BY Lands
  <2>2. \A i \in DOMAIN copy : copy[i] # 0
    <3>1. copy \in Seq(1..Len(val))
      BY DEF NInv, Typed, TypeOK
    <3> QED BY <3>1
  <2> QED BY <2>1, <2>2 DEF Landed, Contents
<1> QED BY <1>1, Inductive, PTL DEF Spec, FirstReshapeLands

\* And they leave every object that was fetched and is still in the copy the very object of the
\* master it was fetched from.
THEOREM FetchedStayThemselves == Spec => IdentityPreserved
<1>1. NInv /\ [Next]_vars =>
        [WriteBack /\ reshaped # "shipped" =>
           \A i \in DOMAIN copy :
             sid'[copy[i]].by = "walk" => master'[i] = Walked(anchor)[sid'[copy[i]].n]]_vars
  BY Lands
<1> QED BY <1>1, Inductive, PTL DEF Spec, IdentityPreserved

(***************************************************************************)
(* DeltaSession, for any width of the continuation and number of writes and *)
(* crossings, and at most one crossing in full.                             *)
(*                                                                         *)
(* A walk is a recursive function on Nat; that a set of numbers with 0 and *)
(* every successor is Nat (EveryNumber) gives what it returns: the least   *)
(* set that has the roots and is closed (ReachIs), and the same walk and   *)
(* shape for graphs that a renaming makes alike (WalksAlike).  Between two *)
(* crossings the other tier has everything alike but what the holder wrote *)
(* or made since (AtRest); under way, a frame carries what the receiver    *)
(* does not hold alike (InFlight).  What is chosen to ship is that         *)
(* difference in each mode (SelectIs), so the receiver rebuilds a graph    *)
(* like the sender's under the same names (RebuiltIs, Crossed).            *)
(***************************************************************************)

-----------------------------------------------------------------------------
(* Walks                                                                   *)

\* A set of numbers with 0 and the successors of its elements has every number.
LEMMA EveryNumber ==
  ASSUME NEW S, 0 \in S, \A n \in Nat : n \in S => n + 1 \in S
  PROVE  \A n \in Nat : n \in S
<1> SUFFICES ASSUME NEW n \in Nat, n \notin S PROVE FALSE
  OBVIOUS
<1> DEFINE out == {k \in 0..n : k \notin S}
<1>1. IsFiniteSet(out) /\ n \in out /\ out \in SUBSET Nat
  <2>1. IsFiniteSet(0..n)
    BY FS_Interval
  <2>2. out \in SUBSET (0..n) /\ n \in out /\ out \in SUBSET Nat
    OBVIOUS
  <2> QED BY <2>1, <2>2, FS_Subset
<1>2. Cardinality(out) \in Nat /\ Cardinality(out) # 0
  BY <1>1, FS_CardinalityType, FS_EmptySet
<1>3. 1 \in 1..Cardinality(out)
  BY <1>2
<1>4. PICK k \in out : Rank(out, k) = 1
  <2> HIDE DEF out
  <2> QED BY <1>1, <1>3, RankIs
<1>5. k \in Nat /\ k # 0 /\ k - 1 \in Nat /\ (k - 1) + 1 = k /\ k - 1 <= n
  BY <1>4
<1>6. k - 1 \in out
  BY <1>4, <1>5
<1>7. Rank(out, k - 1) < Rank(out, k) /\ Rank(out, k - 1) \in 1..Cardinality(out)
  <2> HIDE DEF out
  <2> QED BY <1>1, <1>4, <1>5, <1>6, RankIs
<1> QED BY <1>2, <1>4, <1>7

\* A set of numbers has a least one, and a bounded one a greatest.
LEMMA LeastNumber ==
  ASSUME NEW S \in SUBSET Nat, S # {}
  PROVE  \E k \in S : \A j \in S : k <= j
<1> SUFFICES ASSUME \A k \in S : \E j \in S : j < k
             PROVE  FALSE
  OBVIOUS
<1> DEFINE below == {n \in Nat : \A j \in S : n <= j}
<1>1. 0 \in below
  OBVIOUS
<1>2. \A n \in Nat : n \in below => n + 1 \in below
  <2> SUFFICES ASSUME NEW n \in Nat, \A j \in S : n <= j, NEW k \in S
               PROVE  n + 1 <= k
    OBVIOUS
  <2>1. PICK j \in S : j < k
    OBVIOUS
  <2>2. n <= j /\ j \in Nat /\ k \in Nat
    BY <2>1
  <2> QED BY <2>1, <2>2
<1>3. \A n \in Nat : n \in below
  <2> HIDE DEF below
  <2> QED BY <1>1, <1>2, EveryNumber
<1>4. PICK j \in S : TRUE
  OBVIOUS
<1>5. j \in Nat /\ j + 1 \in Nat
  BY <1>4
<1>6. j + 1 \in below
  <2> HIDE DEF below
  <2> QED BY <1>3, <1>5
<1>7. j + 1 <= j
  BY <1>4, <1>6
<1> QED BY <1>5, <1>7

\* A set of numbers up to a bound has a greatest, as it has a least.
LEMMA GreatestNumber ==
  ASSUME NEW b \in Nat, NEW S \in SUBSET (0..b), S # {}
  PROVE  \E k \in S : \A j \in S : j <= k
<1> DEFINE gaps == {b - k : k \in S}
<1>1. gaps \in SUBSET Nat /\ gaps # {}
  <2>1. \A k \in S : b - k \in Nat
    OBVIOUS
  <2> QED BY <2>1
<1>2. PICK g \in gaps : \A j \in gaps : g <= j
  <2> HIDE DEF gaps
  <2> QED BY <1>1, LeastNumber
<1>3. PICK k \in S : g = b - k
  BY <1>2
<1>4. ASSUME NEW j \in S
      PROVE  j <= k
  <2>1. b - k <= b - j
    BY <1>2, <1>3
  <2> QED BY <1>3, <2>1
<1> QED BY <1>3, <1>4

\* Graphs whose slots refer to their objects, and what a walk is given.
Node(n) == [val : {0, 1}, slots : [Slots -> 0..n]]
Graph(h) == h \in Seq(Node(Len(h)))
WalkInput(h, vs, skip) ==
  /\ Graph(h)
  /\ vs \in Seq(0..Len(h)) /\ Len(vs) <= Width + Len(h)
  /\ skip \in [0..Len(h) -> SUBSET Nat]
Distinct(q) == \A i, j \in DOMAIN q : q[i] = q[j] => i = j

\* The first place that is left is one of them.
LEMMA FirstLeftIs ==
  ASSUME NEW a \in Nat, NEW b \in Nat, NEW left \in SUBSET ((0..a) \X (1..b)), left # {}
  PROVE  FirstLeft(left) \in left
<1> DEFINE firsts == {p[1] : p \in left}
<1>1. firsts \in SUBSET (0..a) /\ firsts # {}
  OBVIOUS
<1>2. PICK k \in firsts : \A j \in firsts : j <= k
  <2> HIDE DEF firsts
  <2> QED BY <1>1, GreatestNumber
<1> DEFINE seconds == {i \in 1..b : <<k, i>> \in left}
<1>3. PICK p \in left : p[1] = k
  BY <1>2
<1>4. p = <<k, p[2]>> /\ p[2] \in 1..b
  BY <1>3
<1>5. seconds \in SUBSET Nat /\ seconds # {}
  BY <1>3, <1>4
<1>6. PICK i \in seconds : \A j \in seconds : i <= j
  <2> HIDE DEF seconds
  <2> QED BY <1>5, LeastNumber
<1>7. <<k, i>> \in left
  BY <1>6
<1>8. \A r \in left : r[1] < k \/ (r[1] = k /\ i <= r[2])
  <2> TAKE r \in left
  <2>1. r[1] \in firsts /\ r[1] \in 0..a /\ r[2] \in 1..b /\ r = <<r[1], r[2]>>
    OBVIOUS
  <2>2. r[1] <= k /\ k \in 0..a
    BY <1>1, <1>2, <2>1
  <2>3. CASE r[1] = k
    <3>1. r[2] \in seconds
      BY <2>1, <2>3
    <3>2. i <= r[2]
      BY <1>6, <3>1
    <3> QED BY <2>3, <3>2
  <2>4. CASE r[1] # k
    BY <2>1, <2>2, <2>4
  <2> QED BY <2>3, <2>4
<1>9. \E x \in left : \A r \in left : r[1] < x[1] \/ (r[1] = x[1] /\ x[2] <= r[2])
  <2>1. <<k, i>>[1] = k /\ <<k, i>>[2] = i
    OBVIOUS
  <2> QED BY <1>7, <1>8, <2>1
<1> QED BY <1>9 DEF FirstLeft

\* The places of a walk are within its bounds and refer to objects of the graph.
LEMMA RefsIs ==
  ASSUME NEW h, NEW vs, NEW skip, WalkInput(h, vs, skip), NEW q \in Seq(1..Len(h)),
         NEW k \in 0..Len(q)
  PROVE  /\ DOMAIN Refs(h, vs, q, k) \in SUBSET (1..(Width + Len(h)))
         /\ \A i \in DOMAIN Refs(h, vs, q, k) : Refs(h, vs, q, k)[i] \in 0..Len(h)
<1>1. /\ Width \in Nat /\ h \in Seq(Node(Len(h))) /\ Len(h) \in Nat
      /\ vs \in Seq(0..Len(h)) /\ Len(vs) \in Nat /\ Len(vs) <= Width + Len(h)
  BY DeltaAssumption DEF WalkInput, Graph
<1>2. CASE k = 0
  <2>1. Refs(h, vs, q, k) = vs
    BY <1>2 DEF Refs
  <2>2. DOMAIN vs = 1..Len(vs) /\ \A i \in DOMAIN vs : vs[i] \in 0..Len(h)
    BY <1>1
  <2>3. 1..Len(vs) \in SUBSET (1..(Width + Len(h)))
    BY <1>1
  <2> QED BY <2>1, <2>2, <2>3
<1>3. CASE k # 0
  <2>1. k \in DOMAIN q
    BY <1>3
  <2>2. q[k] \in DOMAIN h
    BY <1>1, <2>1
  <2>3. h[q[k]] \in Node(Len(h))
    BY <1>1, <2>2
  <2>4. h[q[k]].slots \in [1..Width -> 0..Len(h)]
    BY <2>3 DEF Node, Slots
  <2>5. Refs(h, vs, q, k) = h[q[k]].slots
    BY <1>3 DEF Refs
  <2>6. 1..Width \in SUBSET (1..(Width + Len(h)))
    BY <1>1
  <2> QED BY <2>4, <2>5, <2>6
<1> QED BY <1>2, <1>3

\* A step goes to an object of the graph it has not been to, unless nothing is left.
LEMMA StepIs ==
  ASSUME NEW h, NEW vs, NEW skip, WalkInput(h, vs, skip), NEW q \in Seq(1..Len(h)),
         Left(h, vs, skip, q) # {}
  PROVE  /\ FirstLeft(Left(h, vs, skip, q)) \in Left(h, vs, skip, q)
         /\ \E x \in 1..Len(h) : /\ Step(h, vs, skip, q) = Append(q, x)
                                 /\ x \notin Range(q) /\ x \notin skip[Len(q)]
                                 /\ x = Refs(h, vs, q, FirstLeft(Left(h, vs, skip, q))[1])
                                            [FirstLeft(Left(h, vs, skip, q))[2]]
<1> DEFINE left == Left(h, vs, skip, q)
<1>1. left \in SUBSET ((0..Len(q)) \X (1..(Width + Len(h))))
  BY DEF Left
<1>2. Len(q) \in Nat /\ Width + Len(h) \in Nat
  BY DeltaAssumption DEF WalkInput, Graph
<1>3. FirstLeft(left) \in left
  <2>1. left # {}
    OBVIOUS
  <2> HIDE DEF left
  <2> QED BY <1>1, <1>2, <2>1, FirstLeftIs
<1>4. PICK p : p = FirstLeft(left)
  OBVIOUS
<1>5. p \in left
  BY <1>3, <1>4
<1>6. /\ p[1] \in 0..Len(q) /\ p[2] \in DOMAIN Refs(h, vs, q, p[1])
      /\ Refs(h, vs, q, p[1])[p[2]] \notin {Nil} \cup Range(q) \cup skip[Len(q)]
  BY <1>5 DEF Left
<1>7. Refs(h, vs, q, p[1])[p[2]] \in 0..Len(h)
  BY <1>6, RefsIs
<1>8. Refs(h, vs, q, p[1])[p[2]] \in 1..Len(h)
  BY <1>2, <1>6, <1>7 DEF Nil, WalkInput, Graph
<1>9. Step(h, vs, skip, q) = Append(q, Refs(h, vs, q, p[1])[p[2]])
  BY <1>4 DEF Step
<1> QED BY <1>3, <1>4, <1>6, <1>8, <1>9

\* A list of distinct objects is no longer than they are many, and has all if it is as long.
LEMMA DistinctIs ==
  ASSUME NEW n \in Nat, NEW q \in Seq(1..n), Distinct(q)
  PROVE  Len(q) <= n /\ (Len(q) = n => Range(q) = 1..n)
<1>1. /\ IsFiniteSet(1..n) /\ Cardinality(1..n) = n
      /\ IsFiniteSet(1..Len(q)) /\ Cardinality(1..Len(q)) = Len(q)
  <2>1. \A k \in Nat : IsFiniteSet(1..k) /\ Cardinality(1..k) = k
    BY FS_Interval
  <2>2. Len(q) \in Nat
    OBVIOUS
  <2> QED BY <2>1, <2>2
<1>2. q \in [1..Len(q) -> 1..n] /\ DOMAIN q = 1..Len(q)
  OBVIOUS
<1>3. q \in Injection(1..Len(q), 1..n)
  BY <1>2 DEF Injection, IsInjective, Distinct
<1>4. Len(q) <= n
  BY <1>1, <1>3, FS_Injection
<1>5. ASSUME Len(q) = n
      PROVE  Range(q) = 1..n
  <2>1. q \in Surjection(1..Len(q), 1..n)
    BY <1>1, <1>3, <1>5, FS_Injection
  <2> QED BY <1>2, <2>1 DEF Surjection, Range
<1> QED BY <1>4, <1>5

\* been is the walk: where it has been after n steps.
IsWalk(been, h, vs, skip) ==
  been[0] = <<>> /\ \A n \in Nat : been[n + 1] = Step(h, vs, skip, been[n])

\* The recursion of Walk has a solution, so that a walk is the last of its steps.
LEMMA WalkIs ==
  ASSUME NEW h, NEW vs, NEW skip
  PROVE  \E been : IsWalk(been, h, vs, skip) /\ Walk(h, vs, skip) = been[Len(h)]
<1> DEFINE Start(g, n) == \A m \in 0..n : g[m] = IF m = 0 THEN <<>> ELSE Step(h, vs, skip, g[m - 1])
           known == {n \in Nat : \E g : DOMAIN g = 0..n /\ Start(g, n)}
           alike == {m \in Nat : \A n1, n2 \in Nat : \A g1, g2 :
                       m <= n1 /\ m <= n2 /\ Start(g1, n1) /\ Start(g2, n2) => g1[m] = g2[m]}
<1>1. 0 \in known
  <2>1. DOMAIN [m \in 0..0 |-> <<>>] = 0..0 /\ Start([m \in 0..0 |-> <<>>], 0)
    OBVIOUS
  <2> QED BY <2>1
<1>2. ASSUME NEW n \in Nat, n \in known
      PROVE  n + 1 \in known
  <2>1. PICK g : DOMAIN g = 0..n /\ Start(g, n)
    BY <1>2
  <2> DEFINE f == [m \in 0..(n + 1) |-> IF m <= n THEN g[m] ELSE Step(h, vs, skip, g[n])]
  <2>2. ASSUME NEW m \in 0..(n + 1)
        PROVE  f[m] = IF m = 0 THEN <<>> ELSE Step(h, vs, skip, f[m - 1])
    <3>1. CASE m = 0
      BY <2>1, <3>1
    <3>2. CASE m # 0 /\ m <= n
      <4>1. m \in 0..n /\ m - 1 \in 0..(n + 1) /\ m - 1 <= n
        BY <3>2
      <4>2. f[m] = g[m] /\ f[m - 1] = g[m - 1]
        BY <3>2, <4>1
      <4>3. g[m] = Step(h, vs, skip, g[m - 1])
        BY <2>1, <3>2, <4>1
      <4> HIDE DEF f
      <4> QED BY <3>2, <4>2, <4>3
    <3>3. CASE m = n + 1
      <4>1. m - 1 = n /\ n \in 0..(n + 1) /\ n <= n /\ ~(n + 1 <= n) /\ m # 0
        BY <3>3
      <4>2. f[m] = Step(h, vs, skip, g[n]) /\ f[n] = g[n]
        BY <3>3, <4>1
      <4> HIDE DEF f
      <4> QED BY <4>1, <4>2
    <3> QED BY <3>1, <3>2, <3>3
  <2>3. DOMAIN f = 0..(n + 1)
    OBVIOUS
  <2>4. Start(f, n + 1)
    <3> HIDE DEF f
    <3> QED BY <2>2
  <2>5. n + 1 \in Nat
    OBVIOUS
  <2> HIDE DEF f, Start
  <2> QED BY <2>3, <2>4, <2>5
<1>3. \A n \in Nat : n \in known
  <2> HIDE DEF known
  <2> QED BY <1>1, <1>2, EveryNumber
<1>4. 0 \in alike
  <2> SUFFICES ASSUME NEW n1 \in Nat, NEW n2 \in Nat, NEW g1, NEW g2, Start(g1, n1), Start(g2, n2)
               PROVE  g1[0] = g2[0]
    OBVIOUS
  <2>1. 0 \in 0..n1 /\ 0 \in 0..n2
    OBVIOUS
  <2> QED BY <2>1
<1>5. ASSUME NEW m \in Nat, m \in alike
      PROVE  m + 1 \in alike
  <2> SUFFICES ASSUME NEW n1 \in Nat, NEW n2 \in Nat, NEW g1, NEW g2,
                      m + 1 <= n1, m + 1 <= n2, Start(g1, n1), Start(g2, n2)
               PROVE  g1[m + 1] = g2[m + 1]
    <3> HIDE DEF Start
    <3> QED OBVIOUS
  <2>1. m + 1 \in 0..n1 /\ m + 1 \in 0..n2 /\ (m + 1) - 1 = m /\ m + 1 # 0 /\ m <= n1 /\ m <= n2
    OBVIOUS
  <2>2. g1[m] = g2[m]
    <3> HIDE DEF Start
    <3> QED BY <1>5, <2>1
  <2>3. g1[m + 1] = Step(h, vs, skip, g1[m]) /\ g2[m + 1] = Step(h, vs, skip, g2[m])
    BY <2>1
  <2> QED BY <2>2, <2>3
<1>6. \A m \in Nat : m \in alike
  <2> HIDE DEF alike
  <2> QED BY <1>4, <1>5, EveryNumber
<1> DEFINE part(n) == CHOOSE g : DOMAIN g = 0..n /\ Start(g, n)
           walk == [n \in Nat |-> part(n)[n]]
<1>7. ASSUME NEW n \in Nat
      PROVE  DOMAIN part(n) = 0..n /\ Start(part(n), n)
  <2>1. \E g : DOMAIN g = 0..n /\ Start(g, n)
    BY <1>3
  <2> HIDE DEF Start
  <2> QED BY <2>1
<1>8. ASSUME NEW n \in Nat
      PROVE  walk[n + 1] = Step(h, vs, skip, walk[n])
  <2>1. Start(part(n + 1), n + 1) /\ Start(part(n), n) /\ n + 1 \in Nat /\ n <= n + 1 /\ n <= n
    BY <1>7
  <2>2. part(n + 1)[n] = part(n)[n]
    <3>1. n \in alike
      BY <1>6
    <3> HIDE DEF part, Start
    <3> QED BY <2>1, <3>1
  <2>3. part(n + 1)[n + 1] = Step(h, vs, skip, part(n + 1)[n])
    <3>1. n + 1 \in 0..(n + 1) /\ n + 1 # 0 /\ (n + 1) - 1 = n
      OBVIOUS
    <3> HIDE DEF part
    <3> QED BY <2>1, <3>1
  <2> HIDE DEF part
  <2> QED BY <2>1, <2>2, <2>3
<1>9. walk[0] = <<>>
  <2>1. Start(part(0), 0) /\ 0 \in 0..0
    <3> HIDE DEF part, Start
    <3> QED BY <1>7
  <2> HIDE DEF part
  <2> QED BY <2>1
<1>10. walk = [n \in Nat |-> IF n = 0 THEN <<>> ELSE Step(h, vs, skip, walk[n - 1])]
  <2> DEFINE w2 == [n \in Nat |-> IF n = 0 THEN <<>> ELSE Step(h, vs, skip, walk[n - 1])]
  <2>1. ASSUME NEW n \in Nat
        PROVE  walk[n] = w2[n]
    <3>1. CASE n = 0
      <4> HIDE DEF walk
      <4> QED BY <1>9, <3>1
    <3>2. CASE n # 0
      <4>1. n - 1 \in Nat /\ (n - 1) + 1 = n
        BY <3>2
      <4>2. walk[n] = Step(h, vs, skip, walk[n - 1])
        <5> HIDE DEF walk
        <5>1. walk[(n - 1) + 1] = Step(h, vs, skip, walk[n - 1])
          BY <1>8, <4>1
        <5> QED BY <4>1, <5>1
      <4> HIDE DEF walk
      <4> QED BY <3>2, <4>2
    <3> QED BY <3>1, <3>2
  <2>2. walk = [n \in Nat |-> walk[n]] /\ w2 = [n \in Nat |-> w2[n]]
    OBVIOUS
  <2> HIDE DEF walk, w2
  <2>3. walk = w2
    BY <2>1, <2>2
  <2> QED BY <2>3 DEF w2
<1> HIDE DEF walk
<1>11. PICK been : /\ been = [n \in Nat |-> IF n = 0 THEN <<>> ELSE Step(h, vs, skip, been[n - 1])]
                   /\ Walk(h, vs, skip) = been[Len(h)]
  BY <1>10 DEF Walk
<1>12. been[0] = <<>>
  BY <1>11
<1>13. ASSUME NEW n \in Nat
       PROVE  been[n + 1] = Step(h, vs, skip, been[n])
  <2>1. n + 1 \in Nat /\ n + 1 # 0 /\ (n + 1) - 1 = n
    OBVIOUS
  <2> QED BY <1>11, <2>1
<1> QED BY <1>11, <1>12, <1>13 DEF IsWalk

\* A walk has been to as many objects as it has made steps, each once, unless nothing was left.
LEMMA BeenIs ==
  ASSUME NEW h, NEW vs, NEW skip, WalkInput(h, vs, skip), NEW been, IsWalk(been, h, vs, skip)
  PROVE  \A n \in Nat : /\ been[n] \in Seq(1..Len(h)) /\ Distinct(been[n])
                        /\ Len(been[n]) = n \/ Left(h, vs, skip, been[n]) = {}
<1> DEFINE good(q, n) == /\ q \in Seq(1..Len(h)) /\ Distinct(q)
                         /\ Len(q) = n \/ Left(h, vs, skip, q) = {}
           S == {n \in Nat : good(been[n], n)}
<1>1. 0 \in S
  <2>1. been[0] = <<>>
    BY DEF IsWalk
  <2>2. good(<<>>, 0)
    BY DEF Distinct
  <2> HIDE DEF good
  <2> QED BY <2>1, <2>2
<1>2. ASSUME NEW n \in Nat, n \in S
      PROVE  n + 1 \in S
  <2> DEFINE q == been[n]
  <2>1. q \in Seq(1..Len(h)) /\ Distinct(q) /\ (Len(q) = n \/ Left(h, vs, skip, q) = {})
    BY <1>2
  <2>2. been[n + 1] = Step(h, vs, skip, q)
    BY DEF IsWalk
  <2> HIDE DEF q
  <2>3. CASE Left(h, vs, skip, q) = {}
    <3>1. been[n + 1] = q
      BY <2>2, <2>3 DEF Step
    <3> QED BY <2>1, <2>3, <3>1
  <2>4. CASE Left(h, vs, skip, q) # {} /\ Len(q) = n
    <3>1. PICK x \in 1..Len(h) : Step(h, vs, skip, q) = Append(q, x) /\ x \notin Range(q)
      BY <2>1, <2>4, StepIs
    <3>2. Append(q, x) \in Seq(1..Len(h)) /\ Len(Append(q, x)) = n + 1
      BY <2>1, <2>4
    <3>3. Distinct(Append(q, x))
      <4> SUFFICES ASSUME NEW i \in DOMAIN Append(q, x), NEW j \in DOMAIN Append(q, x),
                          Append(q, x)[i] = Append(q, x)[j]
                   PROVE  i = j
        BY DEF Distinct
      <4>1. i \in 1..(n + 1) /\ j \in 1..(n + 1) /\ DOMAIN q = 1..n
        BY <2>1, <2>4, <3>2
      <4>2. \A k \in 1..n : Append(q, x)[k] = q[k] /\ q[k] # x
        BY <2>1, <2>4, <3>1, <4>1 DEF Range
      <4>3. Append(q, x)[n + 1] = x
        BY <2>1, <2>4
      <4>4. CASE i \in 1..n /\ j \in 1..n
        BY <2>1, <4>1, <4>2, <4>4 DEF Distinct
      <4>5. CASE i = n + 1 \/ j = n + 1
        BY <4>1, <4>2, <4>3, <4>5
      <4> QED BY <4>1, <4>4, <4>5
    <3>4. good(been[n + 1], n + 1)
      BY <2>2, <3>1, <3>2, <3>3
    <3> HIDE DEF good
    <3> QED BY <3>4
  <2> QED BY <2>1, <2>3, <2>4
<1>3. \A n \in Nat : n \in S
  <2> HIDE DEF S
  <2> QED BY <1>1, <1>2, EveryNumber
<1> QED BY <1>3

\* As many steps as there are objects leave nothing, and further ones change nothing.
LEMMA WalkEnds ==
  ASSUME NEW h, NEW vs, NEW skip, WalkInput(h, vs, skip), NEW been, IsWalk(been, h, vs, skip),
         NEW n \in Nat, Len(h) <= n
  PROVE  Left(h, vs, skip, been[n]) = {} /\ been[n] = been[Len(h)]
<1> DEFINE q == been[Len(h)]
<1>0. Len(h) \in Nat
  BY DEF WalkInput, Graph
<1>1. q \in Seq(1..Len(h)) /\ Distinct(q) /\ (Len(q) = Len(h) \/ Left(h, vs, skip, q) = {})
  BY <1>0, BeenIs
<1>2. Left(h, vs, skip, q) = {}
  <2> HIDE DEF q
  <2> SUFFICES ASSUME Len(q) = Len(h), Left(h, vs, skip, q) # {}
               PROVE  FALSE
    BY <1>1
  <2>1. Range(q) = 1..Len(h)
    BY <1>0, <1>1, DistinctIs
  <2>2. \E x \in 1..Len(h) : x \notin Range(q)
    BY <1>1, StepIs
  <2> QED BY <2>1, <2>2
<1> DEFINE S == {k \in Nat : been[Len(h) + k] = q}
<1>3. 0 \in S
  BY <1>0
<1>4. ASSUME NEW k \in Nat, k \in S
      PROVE  k + 1 \in S
  <2>1. been[Len(h) + k] = q /\ Len(h) + k \in Nat /\ Len(h) + (k + 1) = (Len(h) + k) + 1
    BY <1>0, <1>4
  <2>2. been[(Len(h) + k) + 1] = Step(h, vs, skip, been[Len(h) + k])
    BY <2>1 DEF IsWalk
  <2> HIDE DEF q
  <2>3. Step(h, vs, skip, q) = q
    BY <1>2 DEF Step
  <2> QED BY <2>1, <2>2, <2>3
<1>5. \A k \in Nat : k \in S
  <2> HIDE DEF S
  <2> QED BY <1>3, <1>4, EveryNumber
<1>6. n - Len(h) \in Nat /\ Len(h) + (n - Len(h)) = n
  BY <1>0
<1>7. been[Len(h) + (n - Len(h))] = q
  BY <1>5, <1>6
<1> QED BY <1>2, <1>6, <1>7

\* A walk goes to distinct objects, to nothing that a closed set with the first places does not
\* have, and leaves nothing but what it skips.
LEMMA WalkDone ==
  ASSUME NEW h, NEW vs, NEW skip, WalkInput(h, vs, skip), NEW q, q = Walk(h, vs, skip)
  PROVE  /\ q \in Seq(1..Len(h)) /\ Distinct(q) /\ Len(q) <= Len(h)
         /\ \A i \in DOMAIN vs : vs[i] \in {Nil} \cup Range(q) \cup skip[Len(q)]
         /\ \A v \in Range(q), i \in Slots :
              h[v].slots[i] \in {Nil} \cup Range(q) \cup skip[Len(q)]
         /\ \A K : /\ \A i \in DOMAIN vs : vs[i] \in {Nil} \cup K
                   /\ \A v \in K, i \in Slots : h[v].slots[i] \in {Nil} \cup K
                   => Range(q) \subseteq K
<1>0. Len(h) \in Nat
  BY DEF WalkInput, Graph
<1>1. PICK been : IsWalk(been, h, vs, skip) /\ q = been[Len(h)]
  BY WalkIs
<1>2. q \in Seq(1..Len(h)) /\ Distinct(q)
  BY <1>0, <1>1, BeenIs
<1>3. Len(q) <= Len(h)
  BY <1>0, <1>2, DistinctIs
<1>4. Left(h, vs, skip, q) = {}
  BY <1>0, <1>1, WalkEnds
<1>5. ASSUME NEW k \in 0..Len(q), NEW i \in DOMAIN Refs(h, vs, q, k)
      PROVE  Refs(h, vs, q, k)[i] \in {Nil} \cup Range(q) \cup skip[Len(q)]
  <2>1. i \in 1..(Width + Len(h))
    BY <1>2, RefsIs
  <2>2. <<k, i>> \in (0..Len(q)) \X (1..(Width + Len(h))) /\ <<k, i>>[1] = k /\ <<k, i>>[2] = i
    BY <2>1
  <2>3. <<k, i>> \notin Left(h, vs, skip, q)
    BY <1>4
  <2> QED BY <2>2, <2>3 DEF Left
<1>6. ASSUME NEW i \in DOMAIN vs
      PROVE  vs[i] \in {Nil} \cup Range(q) \cup skip[Len(q)]
  <2>1. 0 \in 0..Len(q) /\ Refs(h, vs, q, 0) = vs
    BY <1>2 DEF Refs
  <2> QED BY <1>5, <2>1
<1>7. ASSUME NEW v \in Range(q), NEW i \in Slots
      PROVE  h[v].slots[i] \in {Nil} \cup Range(q) \cup skip[Len(q)]
  <2>1. PICK k \in DOMAIN q : q[k] = v
    BY DEF Range
  <2>2. k \in 0..Len(q) /\ k # 0 /\ v \in DOMAIN h
    BY <1>2, <2>1 DEF WalkInput, Graph
  <2>3. Refs(h, vs, q, k) = h[v].slots
    BY <2>1, <2>2 DEF Refs
  <2>4. h[v] \in Node(Len(h))
    BY <2>2 DEF WalkInput, Graph
  <2>5. DOMAIN h[v].slots = Slots
    BY <2>4 DEF Node
  <2> QED BY <1>5, <2>2, <2>3, <2>5
<1>8. ASSUME NEW K, \A i \in DOMAIN vs : vs[i] \in {Nil} \cup K,
             \A v \in K, i \in Slots : h[v].slots[i] \in {Nil} \cup K
      PROVE  Range(q) \subseteq K
  <2> DEFINE S == {n \in Nat : Range(been[n]) \subseteq K}
  <2>1. 0 \in S
    <3>1. been[0] = <<>>
      BY <1>1 DEF IsWalk
    <3> QED BY <3>1 DEF Range
  <2>2. ASSUME NEW n \in Nat, n \in S
        PROVE  n + 1 \in S
    <3>1. PICK p : p = been[n]
      OBVIOUS
    <3>2. p \in Seq(1..Len(h)) /\ Range(p) \subseteq K
      BY <1>1, <2>2, <3>1, BeenIs
    <3>3. been[n + 1] = Step(h, vs, skip, p)
      BY <1>1, <3>1 DEF IsWalk
    <3>4. CASE Left(h, vs, skip, p) = {}
      BY <3>2, <3>3, <3>4 DEF Step
    <3>5. CASE Left(h, vs, skip, p) # {}
      <4>1. PICK x \in 1..Len(h) :
                   /\ Step(h, vs, skip, p) = Append(p, x)
                   /\ x = Refs(h, vs, p, FirstLeft(Left(h, vs, skip, p))[1])
                              [FirstLeft(Left(h, vs, skip, p))[2]]
        BY <3>2, <3>5, StepIs
      <4>2. PICK l : l = FirstLeft(Left(h, vs, skip, p))
        OBVIOUS
      <4>3. l \in Left(h, vs, skip, p)
        BY <3>2, <3>5, <4>2, StepIs
      <4>4. l[1] \in 0..Len(p) /\ l[2] \in DOMAIN Refs(h, vs, p, l[1])
        BY <4>3 DEF Left
      <4>5. x = Refs(h, vs, p, l[1])[l[2]]
        BY <4>1, <4>2
      <4>6. x \in K
        <5>1. CASE l[1] = 0
          <6>1. Refs(h, vs, p, l[1]) = vs
            BY <5>1 DEF Refs
          <6> QED BY <1>8, <4>1, <4>4, <4>5, <6>1 DEF Nil
        <5>2. CASE l[1] # 0
          <6>1. Refs(h, vs, p, l[1]) = h[p[l[1]]].slots /\ l[1] \in DOMAIN p
            BY <3>2, <4>4, <5>2 DEF Refs
          <6>2. p[l[1]] \in K /\ p[l[1]] \in DOMAIN h
            BY <3>2, <6>1 DEF Range, WalkInput, Graph
          <6>3. h[p[l[1]]] \in Node(Len(h))
            BY <6>2 DEF WalkInput, Graph
          <6>4. DOMAIN h[p[l[1]]].slots = Slots
            BY <6>3 DEF Node
          <6>5. h[p[l[1]]].slots[l[2]] \in {Nil} \cup K
            BY <1>8, <4>4, <6>1, <6>2, <6>4
          <6> QED BY <4>1, <4>5, <6>1, <6>5 DEF Nil
        <5> QED BY <5>1, <5>2
      <4>7. Range(Append(p, x)) \subseteq K
        <5> SUFFICES ASSUME NEW j \in DOMAIN Append(p, x)
                     PROVE  Append(p, x)[j] \in K
          BY DEF Range
        <5>1. j \in 1..(Len(p) + 1) /\ DOMAIN p = 1..Len(p)
          BY <3>2
        <5>2. CASE j \in DOMAIN p
          <6>1. Append(p, x)[j] = p[j]
            BY <3>2, <5>1, <5>2
          <6> QED BY <3>2, <5>2, <6>1 DEF Range
        <5>3. CASE j = Len(p) + 1
          BY <3>2, <4>6, <5>3
        <5> QED BY <3>2, <5>1, <5>2, <5>3
      <4>8. been[n + 1] = Append(p, x) /\ n + 1 \in Nat
        BY <3>3, <4>1
      <4>9. Range(been[n + 1]) \subseteq K
        BY <4>7, <4>8
      <4> QED BY <4>8, <4>9
    <3> HIDE DEF S
    <3> QED BY <3>4, <3>5
  <2>3. \A n \in Nat : n \in S
    <3> HIDE DEF S
    <3> QED BY <2>1, <2>2, EveryNumber
  <2> QED BY <1>0, <1>1, <2>3
<1> QED BY <1>2, <1>3, <1>6, <1>7, <1>8

\* The place of an object in a list of distinct ones.
LEMMA PlaceIs ==
  ASSUME NEW q, Distinct(q), NEW v \in Range(q)
  PROVE  /\ Place(q, v) \in DOMAIN q /\ q[Place(q, v)] = v
         /\ \A k \in DOMAIN q : q[k] = v => k = Place(q, v)
<1>1. \E k \in DOMAIN q : q[k] = v
  BY DEF Range
<1> QED BY <1>1 DEF Place, Distinct

Roots(h) == [Slots -> 0..Len(h)]
Closed(K, h, rs) ==
  /\ K \in SUBSET DOMAIN h
  /\ \A i \in Slots : rs[i] \in {Nil} \cup K
  /\ \A v \in K, i \in Slots : h[v].slots[i] \in {Nil} \cup K

\* The locals of a continuation are a sequence a walk may start from.
LEMMA RootsAre ==
  ASSUME NEW h, Graph(h), NEW rs \in Roots(h)
  PROVE  /\ rs \in Seq(0..Len(h)) /\ Len(rs) = Width /\ DOMAIN rs = Slots
         /\ WalkInput(h, rs, [n \in 0..Len(h) |-> {}])
<1>1. Len(h) \in Nat /\ Width \in Nat
  BY DeltaAssumption DEF Graph
<1>2. rs \in Seq(0..Len(h)) /\ Len(rs) = Width /\ DOMAIN rs = Slots
  BY <1>1 DEF Roots, Slots
<1> QED BY <1>1, <1>2 DEF WalkInput

\* What is reached is the least closed set, and the walk has each of it once.
LEMMA ReachIs ==
  ASSUME NEW h, Graph(h), NEW rs \in Roots(h)
  PROVE  /\ Order(h, rs) \in Seq(1..Len(h)) /\ Distinct(Order(h, rs))
         /\ Len(Order(h, rs)) <= Len(h)
         /\ Closed(Reach(h, rs), h, rs)
         /\ \A K : Closed(K, h, rs) => Reach(h, rs) \subseteq K
<1> DEFINE q == Order(h, rs)
           none == [n \in 0..Len(h) |-> {}]
<1>0. Len(h) \in Nat
  BY DEF Graph
<1>1. DOMAIN rs = Slots /\ WalkInput(h, rs, none) /\ q = Walk(h, rs, none)
  BY RootsAre DEF Order
<1>2. /\ q \in Seq(1..Len(h)) /\ Distinct(q) /\ Len(q) <= Len(h)
      /\ \A i \in Slots : rs[i] \in {Nil} \cup Range(q) \cup none[Len(q)]
      /\ \A v \in Range(q), i \in Slots : h[v].slots[i] \in {Nil} \cup Range(q) \cup none[Len(q)]
      /\ \A K : /\ \A i \in Slots : rs[i] \in {Nil} \cup K
                /\ \A v \in K, i \in Slots : h[v].slots[i] \in {Nil} \cup K
                => Range(q) \subseteq K
  <2> HIDE DEF q, none
  <2> QED BY <1>1, WalkDone
<1>3. none[Len(q)] = {}
  BY <1>0, <1>2
<1>4. Range(q) \in SUBSET DOMAIN h
  <2>1. DOMAIN h = 1..Len(h)
    BY DEF Graph
  <2> HIDE DEF q
  <2> QED BY <1>2, <2>1 DEF Range
<1>5. Reach(h, rs) = Range(q)
  BY DEF Reach
<1> HIDE DEF q, none
<1>6. Closed(Range(q), h, rs)
  BY <1>2, <1>3, <1>4 DEF Closed
<1>7. \A K : Closed(K, h, rs) => Range(q) \subseteq K
  BY <1>2 DEF Closed
<1> QED BY <1>2, <1>5, <1>6, <1>7 DEF q

\* f takes the part K of one graph to a part of another that is like it.
To(f, x) == IF x = Nil THEN Nil ELSE f[x]
Via(f, q) == [k \in DOMAIN q |-> f[q[k]]]
Alike(f, K, h, rs, g, ss) ==
  /\ Closed(K, h, rs)
  /\ f \in [K -> 1..Len(g)] /\ \A v, w \in K : f[v] = f[w] => v = w
  /\ \A i \in Slots : ss[i] = To(f, rs[i])
  /\ \A v \in K : g[f[v]] = [val |-> h[v].val, slots |-> [i \in Slots |-> To(f, h[v].slots[i])]]

\* Walks of graphs that are alike take the same steps.
LEMMA StepsAlike ==
  ASSUME NEW h, Graph(h), NEW rs \in Roots(h), NEW g, Graph(g), NEW ss \in Roots(g),
         NEW K, NEW f, Alike(f, K, h, rs, g, ss),
         NEW q \in Seq(1..Len(h)), Range(q) \subseteq K, Distinct(q),
         NEW sh, sh = [n \in 0..Len(h) |-> {}], NEW sg, sg = [n \in 0..Len(g) |-> {}]
  PROVE  /\ Step(g, ss, sg, Via(f, q)) = Via(f, Step(h, rs, sh, q))
         /\ Range(Step(h, rs, sh, q)) \subseteq K
<1> DEFINE p == Via(f, q)
<1>0. /\ Len(h) \in Nat /\ Len(g) \in Nat /\ Width \in Nat /\ Slots = 1..Width
      /\ DOMAIN h = 1..Len(h) /\ DOMAIN g = 1..Len(g)
  BY DeltaAssumption DEF Graph, Slots
<1>1. /\ DOMAIN rs = Slots /\ DOMAIN ss = Slots
      /\ WalkInput(h, rs, sh) /\ WalkInput(g, ss, sg)
  BY RootsAre
<1>2. \A k \in DOMAIN q : q[k] \in K
  BY DEF Range
<1>3. /\ p \in Seq(1..Len(g)) /\ Len(p) = Len(q) /\ DOMAIN p = 1..Len(q) /\ DOMAIN q = 1..Len(q)
      /\ \A k \in DOMAIN q : p[k] = f[q[k]]
  <2>1. DOMAIN q = 1..Len(q) /\ Len(q) \in Nat
    OBVIOUS
  <2>2. p = [k \in 1..Len(q) |-> f[q[k]]]
    BY <2>1 DEF Via
  <2>3. \A k \in 1..Len(q) : f[q[k]] \in 1..Len(g)
    BY <1>2, <2>1 DEF Alike
  <2> HIDE DEF p
  <2>4. p \in [1..Len(q) -> 1..Len(g)]
    BY <2>2, <2>3
  <2> QED BY <2>1, <2>2, <2>4
<1>4. Distinct(p)
  BY <1>2, <1>3 DEF Distinct, Alike
<1>5. Len(q) \in 0..Len(h) /\ Len(q) \in 0..Len(g)
  <2> HIDE DEF p
  <2>1. Len(q) <= Len(h)
    BY <1>0, DistinctIs
  <2>2. Len(p) <= Len(g)
    BY <1>0, <1>3, <1>4, DistinctIs
  <2> QED BY <1>3, <2>1, <2>2
<1>6. sh[Len(q)] = {} /\ sg[Len(p)] = {}
  BY <1>3, <1>5
<1> HIDE DEF p
<1>7. \A y : y \in Range(p) <=> \E v \in Range(q) : y = f[v]
  <2>1. \A y : y \in Range(p) <=> \E k \in 1..Len(q) : y = f[q[k]]
    BY <1>3 DEF Range
  <2>2. \A v : v \in Range(q) <=> \E k \in 1..Len(q) : v = q[k]
    BY <1>3 DEF Range
  <2> QED BY <2>1, <2>2
<1>8. ASSUME NEW k \in 0..Len(q)
      PROVE  /\ DOMAIN Refs(h, rs, q, k) = Slots /\ DOMAIN Refs(g, ss, p, k) = Slots
             /\ \A i \in Slots : /\ Refs(h, rs, q, k)[i] \in {Nil} \cup K
                                 /\ Refs(g, ss, p, k)[i] = To(f, Refs(h, rs, q, k)[i])
  <2>1. CASE k = 0
    <3>1. Refs(h, rs, q, k) = rs /\ Refs(g, ss, p, k) = ss
      BY <2>1 DEF Refs
    <3> QED BY <1>1, <3>1 DEF Alike, Closed
  <2>2. CASE k # 0
    <3>1. k \in DOMAIN q
      BY <1>3, <2>2
    <3>2. q[k] \in K /\ q[k] \in DOMAIN h /\ p[k] = f[q[k]]
      BY <1>2, <1>3, <3>1 DEF Alike, Closed
    <3>3. Refs(h, rs, q, k) = h[q[k]].slots /\ Refs(g, ss, p, k) = g[f[q[k]]].slots
      BY <2>2, <3>2 DEF Refs
    <3>4. h[q[k]] \in Node(Len(h))
      BY <3>2 DEF Graph
    <3>5. DOMAIN h[q[k]].slots = Slots
      BY <3>4 DEF Node
    <3>6. g[f[q[k]]].slots = [i \in Slots |-> To(f, h[q[k]].slots[i])]
      <4>1. g[f[q[k]]] = [val |-> h[q[k]].val, slots |-> [i \in Slots |-> To(f, h[q[k]].slots[i])]]
        BY <3>2 DEF Alike
      <4> QED BY <4>1
    <3>7. \A i \in Slots : h[q[k]].slots[i] \in {Nil} \cup K
      BY <3>2 DEF Alike, Closed
    <3> QED BY <3>3, <3>5, <3>6, <3>7
  <2> QED BY <2>1, <2>2
<1>9. ASSUME NEW x \in {Nil} \cup K
      PROVE  To(f, x) \in {Nil} \cup Range(p) <=> x \in {Nil} \cup Range(q)
  <2>1. CASE x = Nil
    BY <2>1 DEF To
  <2>2. CASE x # Nil
    <3>1. x \in K /\ To(f, x) = f[x] /\ f[x] \in 1..Len(g)
      BY <2>2 DEF To, Alike
    <3>2. f[x] # Nil
      BY <3>1 DEF Nil
    <3>3. f[x] \in Range(p) <=> x \in Range(q)
      BY <1>7, <3>1 DEF Alike
    <3> QED BY <2>2, <3>1, <3>2, <3>3
  <2> QED BY <2>1, <2>2
<1>10. \A l : l \in Left(h, rs, sh, q) <=>
                /\ l \in (0..Len(q)) \X Slots
                /\ Refs(h, rs, q, l[1])[l[2]] \notin {Nil} \cup Range(q)
  <2> TAKE l
  <2>1. l \in (0..Len(q)) \X Slots => l \in (0..Len(q)) \X (1..(Width + Len(h)))
    BY <1>0
  <2>2. l \in (0..Len(q)) \X (1..(Width + Len(h))) =>
          l[1] \in 0..Len(q) /\ l = <<l[1], l[2]>>
    OBVIOUS
  <2>3. l \in (0..Len(q)) \X Slots => l[1] \in 0..Len(q) /\ l[2] \in Slots
    OBVIOUS
  <2> QED BY <1>6, <1>8, <2>1, <2>2, <2>3 DEF Left
<1>11. \A l : l \in Left(g, ss, sg, p) <=>
                /\ l \in (0..Len(q)) \X Slots
                /\ Refs(g, ss, p, l[1])[l[2]] \notin {Nil} \cup Range(p)
  <2> TAKE l
  <2>1. l \in (0..Len(q)) \X Slots => l \in (0..Len(q)) \X (1..(Width + Len(g)))
    BY <1>0
  <2>2. l \in (0..Len(q)) \X (1..(Width + Len(g))) =>
          l[1] \in 0..Len(q) /\ l = <<l[1], l[2]>>
    OBVIOUS
  <2>3. l \in (0..Len(q)) \X Slots => l[1] \in 0..Len(q) /\ l[2] \in Slots
    OBVIOUS
  <2> QED BY <1>3, <1>6, <1>8, <2>1, <2>2, <2>3 DEF Left
<1>12. Left(g, ss, sg, p) = Left(h, rs, sh, q)
  <2>1. ASSUME NEW l \in (0..Len(q)) \X Slots
        PROVE  Refs(g, ss, p, l[1])[l[2]] \in {Nil} \cup Range(p)
                 <=> Refs(h, rs, q, l[1])[l[2]] \in {Nil} \cup Range(q)
    BY <1>8, <1>9
  <2>2. \A l : l \in Left(g, ss, sg, p) <=> l \in Left(h, rs, sh, q)
    BY <1>10, <1>11, <2>1
  <2> QED BY <2>2
<1>13. CASE Left(h, rs, sh, q) = {}
  <2>1. Step(h, rs, sh, q) = q /\ Step(g, ss, sg, p) = p
    BY <1>12, <1>13 DEF Step
  <2> QED BY <2>1 DEF p
<1>14. CASE Left(h, rs, sh, q) # {}
  <2>1. PICK l : l = FirstLeft(Left(h, rs, sh, q))
    OBVIOUS
  <2>2. l \in Left(h, rs, sh, q)
    BY <1>1, <1>14, <2>1, StepIs
  <2>3. l[1] \in 0..Len(q) /\ l[2] \in Slots
    BY <1>10, <2>2
  <2>4. PICK x : x = Refs(h, rs, q, l[1])[l[2]]
    OBVIOUS
  <2>5. x \in K /\ Refs(g, ss, p, l[1])[l[2]] = f[x]
    BY <1>8, <1>10, <2>2, <2>3, <2>4 DEF To
  <2>6. Step(h, rs, sh, q) = Append(q, x)
    BY <1>14, <2>1, <2>4 DEF Step
  <2>7. Step(g, ss, sg, p) = Append(p, f[x])
    BY <1>12, <1>14, <2>1, <2>5 DEF Step
  <2>8. /\ DOMAIN Append(q, x) = 1..(Len(q) + 1)
        /\ \A k \in 1..Len(q) : Append(q, x)[k] = q[k]
        /\ Append(q, x)[Len(q) + 1] = x
    OBVIOUS
  <2>9. Append(p, f[x]) = Via(f, Append(q, x))
    <3>1. /\ Append(p, f[x]) \in Seq(1..Len(g)) /\ Len(Append(p, f[x])) = Len(q) + 1
          /\ \A k \in 1..Len(q) : Append(p, f[x])[k] = p[k]
          /\ Append(p, f[x])[Len(q) + 1] = f[x]
      BY <1>3, <2>5 DEF Alike
    <3>2. DOMAIN Append(p, f[x]) = 1..(Len(q) + 1)
      BY <3>1
    <3>3. Append(p, f[x]) = [k \in 1..(Len(q) + 1) |-> Append(p, f[x])[k]]
      BY <3>1, <3>2
    <3>4. \A k \in 1..(Len(q) + 1) : Append(p, f[x])[k] = f[Append(q, x)[k]]
      <4> TAKE k \in 1..(Len(q) + 1)
      <4>1. k \in 1..Len(q) \/ k = Len(q) + 1
        OBVIOUS
      <4> QED BY <1>3, <2>8, <3>1, <4>1
    <3> QED BY <2>8, <3>3, <3>4 DEF Via
  <2>10. Range(Append(q, x)) \subseteq K
    <3>1. \A k \in 1..(Len(q) + 1) : k \in 1..Len(q) \/ k = Len(q) + 1
      OBVIOUS
    <3> QED BY <1>2, <1>3, <2>5, <2>8, <3>1 DEF Range
  <2> QED BY <2>6, <2>7, <2>9, <2>10 DEF p
<1> QED BY <1>13, <1>14

\* Graphs that are alike are walked alike, and have the same shape.
LEMMA WalksAlike ==
  ASSUME NEW h, Graph(h), NEW rs \in Roots(h), NEW g, Graph(g), NEW ss \in Roots(g),
         NEW K, NEW f, Alike(f, K, h, rs, g, ss)
  PROVE  /\ Order(g, ss) = Via(f, Order(h, rs))
         /\ Reach(h, rs) \subseteq K
         /\ Shape(g, ss) = Shape(h, rs)
<1> DEFINE sh == [n \in 0..Len(h) |-> {}]
           sg == [n \in 0..Len(g) |-> {}]
           N == Len(h) + Len(g)
<1>0. Len(h) \in Nat /\ Len(g) \in Nat /\ N \in Nat /\ Len(h) <= N /\ Len(g) <= N
  BY DEF Graph
<1>1. WalkInput(h, rs, sh) /\ WalkInput(g, ss, sg)
  BY RootsAre
<1>2. PICK b : IsWalk(b, h, rs, sh) /\ Walk(h, rs, sh) = b[Len(h)]
  BY WalkIs
<1>3. PICK c : IsWalk(c, g, ss, sg) /\ Walk(g, ss, sg) = c[Len(g)]
  BY WalkIs
<1>4. Order(h, rs) = b[Len(h)] /\ Order(g, ss) = c[Len(g)]
  BY <1>2, <1>3 DEF Order
<1> DEFINE S == {n \in Nat : c[n] = Via(f, b[n]) /\ Range(b[n]) \subseteq K}
<1>5. 0 \in S
  <2>1. b[0] = <<>> /\ c[0] = <<>>
    BY <1>2, <1>3 DEF IsWalk
  <2>2. Via(f, <<>>) = <<>> /\ Range(<<>>) = {}
    BY DEF Via, Range
  <2> QED BY <2>1, <2>2
<1>6. ASSUME NEW n \in Nat, n \in S
      PROVE  n + 1 \in S
  <2>1. PICK q : q = b[n]
    OBVIOUS
  <2>2. q \in Seq(1..Len(h)) /\ Distinct(q)
    <3> HIDE DEF sh
    <3> QED BY <1>1, <1>2, <2>1, BeenIs
  <2>3. c[n] = Via(f, q) /\ Range(q) \subseteq K
    BY <1>6, <2>1
  <2>4. b[n + 1] = Step(h, rs, sh, q) /\ c[n + 1] = Step(g, ss, sg, Via(f, q)) /\ n + 1 \in Nat
    <3> HIDE DEF sh, sg
    <3> QED BY <1>2, <1>3, <2>1, <2>3 DEF IsWalk
  <2>5. /\ Step(g, ss, sg, Via(f, q)) = Via(f, Step(h, rs, sh, q))
        /\ Range(Step(h, rs, sh, q)) \subseteq K
    BY <2>2, <2>3, StepsAlike
  <2> HIDE DEF sh, sg
  <2> QED BY <2>4, <2>5
<1>7. \A n \in Nat : n \in S
  <2> HIDE DEF S
  <2> QED BY <1>5, <1>6, EveryNumber
<1>8. b[N] = b[Len(h)] /\ c[N] = c[Len(g)]
  <2> HIDE DEF sh, sg, N
  <2> QED BY <1>0, <1>1, <1>2, <1>3, WalkEnds
<1>9. Order(g, ss) = Via(f, Order(h, rs)) /\ Range(Order(h, rs)) \subseteq K
  <2>1. c[N] = Via(f, b[N]) /\ Range(b[N]) \subseteq K
    BY <1>0, <1>7
  <2> QED BY <1>4, <1>8, <2>1
<1> DEFINE q == Order(h, rs)
           p == Order(g, ss)
           ath(v) == IF v = Nil THEN Nil ELSE Place(q, v)
           atg(v) == IF v = Nil THEN Nil ELSE Place(p, v)
<1>10. /\ q \in Seq(1..Len(h)) /\ Distinct(q) /\ Reach(h, rs) = Range(q) /\ Closed(Range(q), h, rs)
       /\ p \in Seq(1..Len(g)) /\ Distinct(p)
  BY ReachIs DEF Reach
<1>11. p = Via(f, q) /\ Range(q) \subseteq K
  BY <1>9
<1>12. DOMAIN p = DOMAIN q /\ \A k \in DOMAIN q : p[k] = f[q[k]]
  <2> HIDE DEF p, q
  <2> QED BY <1>11 DEF Via
<1>13. ASSUME NEW x \in {Nil} \cup Range(q)
       PROVE  atg(To(f, x)) = ath(x)
  <2>1. CASE x = Nil
    BY <2>1 DEF To
  <2>2. CASE x # Nil
    <3>1. x \in Range(q) /\ x \in K
      BY <1>11, <2>2
    <3>2. PICK k \in DOMAIN q : q[k] = x
      BY <3>1 DEF Range
    <3>3. p[k] = f[x] /\ f[x] \in Range(p) /\ f[x] # Nil
      <4>1. f[x] \in 1..Len(g)
        BY <3>1 DEF Alike
      <4> HIDE DEF p, q
      <4> QED BY <1>12, <3>2, <4>1 DEF Range, Nil
    <3>4. Place(q, x) = k
      <4> HIDE DEF q
      <4> QED BY <1>10, <3>1, <3>2, PlaceIs
    <3>5. Place(p, f[x]) = k
      <4> HIDE DEF p, q
      <4> QED BY <1>10, <1>12, <3>2, <3>3, PlaceIs
    <3> HIDE DEF p, q
    <3> QED BY <2>2, <3>3, <3>4, <3>5 DEF To
  <2> QED BY <2>1, <2>2
<1> DEFINE nh(k) == [val |-> h[q[k]].val, slots |-> [i \in Slots |-> ath(h[q[k]].slots[i])]]
           ng(k) == [val |-> g[p[k]].val, slots |-> [i \in Slots |-> atg(g[p[k]].slots[i])]]
<1>14. ASSUME NEW k \in DOMAIN q
       PROVE  ng(k) = nh(k)
  <2> HIDE DEF p, q
  <2>1. q[k] \in Range(q) /\ q[k] \in K
    BY <1>11 DEF Range
  <2>2. g[p[k]] = [val |-> h[q[k]].val, slots |-> [i \in Slots |-> To(f, h[q[k]].slots[i])]]
    BY <1>12, <2>1 DEF Alike
  <2>3. g[p[k]].val = h[q[k]].val /\ \A i \in Slots : g[p[k]].slots[i] = To(f, h[q[k]].slots[i])
    BY <2>2
  <2>4. \A i \in Slots : h[q[k]].slots[i] \in {Nil} \cup Range(q)
    BY <1>10, <2>1 DEF Closed
  <2>5. \A i \in Slots : atg(g[p[k]].slots[i]) = ath(h[q[k]].slots[i])
    <3> HIDE DEF ath, atg
    <3> QED BY <1>13, <2>3, <2>4
  <2> HIDE DEF ath, atg
  <2> QED BY <2>3, <2>5
<1>15. ASSUME NEW i \in Slots
       PROVE  atg(ss[i]) = ath(rs[i])
  <2>1. ss[i] = To(f, rs[i]) /\ rs[i] \in {Nil} \cup Range(q)
    <3> HIDE DEF q
    <3> QED BY <1>10 DEF Alike, Closed
  <2> HIDE DEF ath, atg
  <2> QED BY <1>13, <2>1
<1>16. Shape(h, rs) = [nodes |-> [k \in DOMAIN q |-> nh(k)], roots |-> [i \in Slots |-> ath(rs[i])]]
  BY DEF Shape
<1>17. Shape(g, ss) = [nodes |-> [k \in DOMAIN p |-> ng(k)], roots |-> [i \in Slots |-> atg(ss[i])]]
  BY DEF Shape
<1>18. Shape(g, ss) = Shape(h, rs)
  <2> HIDE DEF p, q, ath, atg, nh, ng
  <2> QED BY <1>12, <1>14, <1>15, <1>16, <1>17
<1> QED BY <1>9, <1>10, <1>18

-----------------------------------------------------------------------------
(* Sessions                                                                *)

Name == ({"@"} \cup Tier) \X Nat
Partial(S, T) == UNION {[D -> T] : D \in SUBSET S}
Hold == [val : {0, 1}, slots : [Slots -> Name \cup {NoName}]]
Sessions ==
  [tier : Tier, idOf : Partial(Nat, Name), next : Nat \ {0}, store : Partial(Name, Nat),
   seen : SUBSET Name, dirty : SUBSET Nat, peerVer : Partial(Name, Hold)]

\* The set of the functions from a part of S to T, by membership.
LEMMA PartialIs ==
  ASSUME NEW S, NEW T, NEW f
  PROVE  f \in Partial(S, T) <=> DOMAIN f \in SUBSET S /\ f \in [DOMAIN f -> T]
BY DEF Partial

\* Over is its first function where that says something, and its second elsewhere.
LEMMA OverIs ==
  ASSUME NEW f, NEW g
  PROVE  /\ DOMAIN Over(f, g) = DOMAIN f \cup DOMAIN g
         /\ \A x \in DOMAIN f : Over(f, g)[x] = f[x]
         /\ \A x \in DOMAIN g : x \notin DOMAIN f => Over(f, g)[x] = g[x]
BY DEF Over

\* What Over makes of two functions is of their type.
LEMMA OverType ==
  ASSUME NEW S, NEW T, NEW f \in Partial(S, T), NEW g \in Partial(S, T)
  PROVE  Over(f, g) \in Partial(S, T)
<1>1. /\ DOMAIN f \in SUBSET S /\ f \in [DOMAIN f -> T]
      /\ DOMAIN g \in SUBSET S /\ g \in [DOMAIN g -> T]
  BY PartialIs
<1>2. Over(f, g) \in [DOMAIN f \cup DOMAIN g -> T]
  BY <1>1 DEF Over
<1>3. DOMAIN Over(f, g) = DOMAIN f \cup DOMAIN g
  BY DEF Over
<1> QED BY <1>1, <1>2, <1>3, PartialIs

\* What a session has in its store has that name, and names of its own are below its counter.
Indexed(s) ==
  \A id \in DOMAIN s.store : s.store[id] \in DOMAIN s.idOf /\ s.idOf[s.store[id]] = id
Below(s) == \A id \in DOMAIN s.store : id[1] = s.tier => id[2] < s.next
Owns(s, v) == v \in DOMAIN s.idOf /\ s.idOf[v] \in DOMAIN s.store /\ s.store[s.idOf[v]] = v

\* sidOf gives those that had none names of their own, and changes no name.
LEMMA NamesGiven ==
  ASSUME NEW s \in Sessions, Indexed(s), Below(s), NEW vs \in SUBSET Nat, IsFiniteSet(vs),
         NEW n, n = WithNames(s, vs)
  PROVE  /\ n \in Sessions /\ Indexed(n) /\ Below(n)
         /\ n.tier = s.tier /\ n.seen = s.seen /\ n.dirty = s.dirty /\ n.peerVer = s.peerVer
         /\ n.next \in Nat /\ s.next <= n.next
         /\ DOMAIN n.idOf = DOMAIN s.idOf \cup vs
         /\ \A v \in DOMAIN s.idOf : n.idOf[v] = s.idOf[v]
         /\ DOMAIN s.store \subseteq DOMAIN n.store
         /\ \A id \in DOMAIN s.store : n.store[id] = s.store[id]
         /\ \A v \in vs \ DOMAIN s.idOf :
              Owns(n, v) /\ n.idOf[v] \notin DOMAIN s.store /\ n.idOf[v][1] = s.tier
         /\ \A id \in DOMAIN n.store \ DOMAIN s.store : id[1] = s.tier
<1> DEFINE new == vs \ DOMAIN s.idOf
           name(v) == FreshName(s, vs, v)
           idsOf == [v \in new |-> name(v)]
           ids == {name(v) : v \in new}
           at == [id \in ids |-> CHOOSE v \in new : name(v) = id]
<1>0. /\ s.tier \in Tier /\ s.next \in Nat \ {0}
      /\ s.idOf \in Partial(Nat, Name) /\ s.store \in Partial(Name, Nat)
  BY DEF Sessions
<1>1. new \in SUBSET Nat /\ IsFiniteSet(new) /\ Cardinality(new) \in Nat
  BY FS_Subset, FS_CardinalityType
<1>2. \A v \in new : name(v) = <<s.tier, s.next - 1 + Rank(new, v)>>
  BY DEF FreshName, Rank
<1>3. \A v \in new : Rank(new, v) \in 1..Cardinality(new)
  <2> HIDE DEF new
  <2> QED BY <1>1, RankIs
<1>4. \A v, w \in new : Rank(new, v) = Rank(new, w) => v = w
  <2> HIDE DEF new
  <2> TAKE v, w \in new
  <2>1. v \in Nat /\ w \in Nat /\ (v < w => Rank(new, v) < Rank(new, w))
        /\ (w < v => Rank(new, w) < Rank(new, v))
    BY <1>1, RankIs
  <2>2. Rank(new, v) \in Nat /\ Rank(new, w) \in Nat
    BY <1>1, <1>3
  <2> QED BY <2>1, <2>2
<1>5. ASSUME NEW v \in new
      PROVE  /\ name(v) \in Name /\ name(v)[1] = s.tier
             /\ name(v)[2] \in Nat /\ s.next <= name(v)[2] /\ name(v)[2] < s.next + Cardinality(new)
  <2> HIDE DEF new
  <2>1. PICK r : r = s.next - 1 + Rank(new, v)
    OBVIOUS
  <2>2. r \in Nat /\ s.next <= r /\ r < s.next + Cardinality(new)
    BY <1>0, <1>1, <1>3, <2>1
  <2>3. name(v) = <<s.tier, r>>
    BY <1>2, <2>1
  <2> HIDE DEF name
  <2> QED BY <1>0, <2>2, <2>3 DEF Name
<1>6. \A v, w \in new : name(v) = name(w) => v = w
  <2> HIDE DEF new
  <2> TAKE v, w \in new
  <2>1. name(v) = name(w) => s.next - 1 + Rank(new, v) = s.next - 1 + Rank(new, w)
    BY <1>2
  <2>2. Rank(new, v) \in Nat /\ Rank(new, w) \in Nat
    BY <1>1, <1>3
  <2> HIDE DEF name
  <2> QED BY <1>0, <1>4, <2>1, <2>2
<1>7. n = [s EXCEPT !.idOf = Over(idsOf, s.idOf), !.store = Over(at, s.store),
                    !.next = s.next + Cardinality(new)]
  BY DEF WithNames
<1> HIDE DEF name, new
<1>8. /\ ids \in SUBSET Name
      /\ \A id \in ids : /\ id \notin DOMAIN s.store /\ id[1] = s.tier
                         /\ id[2] < s.next + Cardinality(new)
  <2> SUFFICES ASSUME NEW v \in new
               PROVE  /\ name(v) \in Name /\ name(v) \notin DOMAIN s.store
                      /\ name(v)[1] = s.tier /\ name(v)[2] < s.next + Cardinality(new)
    OBVIOUS
  <2>1. name(v) \notin DOMAIN s.store
    BY <1>0, <1>5 DEF Below
  <2> QED BY <1>5, <2>1
<1>9. /\ DOMAIN at = ids /\ DOMAIN idsOf = new
      /\ \A v \in new : name(v) \in ids /\ at[name(v)] = v /\ idsOf[v] = name(v)
  BY <1>6
<1>10. \A id \in ids : at[id] \in new /\ idsOf[at[id]] = id
  BY <1>6
<1>11. idsOf \in Partial(Nat, Name) /\ at \in Partial(Name, Nat)
  <2>1. idsOf \in [new -> Name]
    BY <1>5
  <2>2. at \in [ids -> Nat]
    <3> HIDE DEF ids
    <3>1. \A id \in ids : at[id] \in Nat
      BY <1>1, <1>10
    <3> QED BY <3>1
  <2> HIDE DEF idsOf, at, ids
  <2> QED BY <1>1, <1>8, <1>9, <2>1, <2>2, PartialIs
<1> HIDE DEF idsOf, at, ids
<1>12. /\ n.idOf = Over(idsOf, s.idOf) /\ n.store = Over(at, s.store)
       /\ n.next = s.next + Cardinality(new)
       /\ n.tier = s.tier /\ n.seen = s.seen /\ n.dirty = s.dirty /\ n.peerVer = s.peerVer
  BY <1>7 DEF Sessions
<1>13. n \in Sessions
  <2>1. n.idOf \in Partial(Nat, Name) /\ n.store \in Partial(Name, Nat)
    BY <1>0, <1>11, <1>12, OverType
  <2>2. n.next \in Nat \ {0}
    BY <1>0, <1>1, <1>12
  <2> QED BY <1>7, <2>1, <2>2, <1>12 DEF Sessions
<1>14. new \cap DOMAIN s.idOf = {} /\ DOMAIN s.idOf \cup new = DOMAIN s.idOf \cup vs
  BY DEF new
<1>15. /\ DOMAIN n.idOf = DOMAIN s.idOf \cup vs
       /\ \A v \in DOMAIN s.idOf : n.idOf[v] = s.idOf[v]
       /\ \A v \in new : n.idOf[v] = name(v)
  <2>1. /\ DOMAIN n.idOf = new \cup DOMAIN s.idOf
        /\ \A v \in new : n.idOf[v] = idsOf[v]
        /\ \A v \in DOMAIN s.idOf : v \notin new => n.idOf[v] = s.idOf[v]
    <3>1. /\ DOMAIN Over(idsOf, s.idOf) = DOMAIN idsOf \cup DOMAIN s.idOf
          /\ \A v \in DOMAIN idsOf : Over(idsOf, s.idOf)[v] = idsOf[v]
          /\ \A v \in DOMAIN s.idOf : v \notin DOMAIN idsOf => Over(idsOf, s.idOf)[v] = s.idOf[v]
      BY OverIs
    <3> QED BY <1>9, <1>12, <3>1
  <2> QED BY <1>9, <1>14, <2>1
<1>16. /\ DOMAIN n.store = ids \cup DOMAIN s.store
       /\ \A id \in DOMAIN s.store : n.store[id] = s.store[id]
       /\ \A id \in ids : n.store[id] = at[id]
  <2>1. /\ DOMAIN n.store = ids \cup DOMAIN s.store
        /\ \A id \in ids : n.store[id] = at[id]
        /\ \A id \in DOMAIN s.store : id \notin ids => n.store[id] = s.store[id]
    <3>1. /\ DOMAIN Over(at, s.store) = DOMAIN at \cup DOMAIN s.store
          /\ \A id \in DOMAIN at : Over(at, s.store)[id] = at[id]
          /\ \A id \in DOMAIN s.store : id \notin DOMAIN at => Over(at, s.store)[id] = s.store[id]
      BY OverIs
    <3> QED BY <1>9, <1>12, <3>1
  <2>2. \A id \in DOMAIN s.store : id \notin ids
    BY <1>8
  <2> QED BY <2>1, <2>2
<1>17. Indexed(n)
  <2> SUFFICES ASSUME NEW id \in DOMAIN n.store
               PROVE  n.store[id] \in DOMAIN n.idOf /\ n.idOf[n.store[id]] = id
    BY DEF Indexed
  <2>1. CASE id \in ids
    BY <1>9, <1>10, <1>14, <1>15, <1>16, <2>1
  <2>2. CASE id \in DOMAIN s.store
    BY <1>15, <1>16, <2>2 DEF Indexed
  <2> QED BY <1>16, <2>1, <2>2
<1>18. Below(n)
  <2> SUFFICES ASSUME NEW id \in DOMAIN n.store, id[1] = n.tier
               PROVE  id[2] < n.next
    BY DEF Below
  <2>1. CASE id \in ids
    BY <1>8, <1>12, <2>1
  <2>2. CASE id \in DOMAIN s.store
    <3>1. id[2] < s.next
      BY <1>12, <2>2 DEF Below
    <3>2. id \in Name
      BY <1>0, <2>2, PartialIs
    <3>3. id[2] \in Nat
      BY <3>2 DEF Name
    <3> QED BY <1>0, <1>1, <1>12, <3>1, <3>3
  <2> QED BY <1>16, <2>1, <2>2
<1>19. ASSUME NEW v \in new
       PROVE  Owns(n, v) /\ n.idOf[v] \notin DOMAIN s.store /\ n.idOf[v][1] = s.tier
  BY <1>5, <1>8, <1>9, <1>14, <1>15, <1>16 DEF Owns
<1>20. n.next \in Nat /\ s.next <= n.next
  BY <1>0, <1>1, <1>12
<1> QED BY <1>8, <1>12, <1>13, <1>15, <1>16, <1>17, <1>18, <1>19, <1>20 DEF new

\* SetToSeq lists each element of a finite set once.
LEMMA ListIs ==
  ASSUME NEW S, IsFiniteSet(S)
  PROVE  SetToSeq(S) \in Seq(S) /\ Distinct(SetToSeq(S)) /\ Range(SetToSeq(S)) = S
<1>0. Cardinality(S) \in Nat
  BY FS_CardinalityType
<1>1. PICK f : f \in Bijection(1..Cardinality(S), S)
  <2>1. ExistsBijection(1..Cardinality(S), S)
    BY FS_CardinalityType
  <2> QED BY <2>1 DEF ExistsBijection
<1>2. f \in [1..Cardinality(S) -> S] /\ IsInjective(f)
  BY <1>1 DEF Bijection, Injection, IsInjective
<1> DEFINE q == SetToSeq(S)
<1>3. q \in [1..Cardinality(S) -> S] /\ IsInjective(q)
  BY <1>2 DEF SetToSeq
<1> HIDE DEF q
<1>4. q \in Seq(S) /\ Len(q) = Cardinality(S) /\ DOMAIN q = 1..Cardinality(S)
  BY <1>0, <1>3
<1>5. Distinct(q)
  BY <1>3 DEF Distinct, IsInjective
<1>6. q \in Injection(1..Cardinality(S), S)
  BY <1>3 DEF Injection, IsInjective
<1>7. IsFiniteSet(1..Cardinality(S)) /\ Cardinality(1..Cardinality(S)) = Cardinality(S)
  BY <1>0, FS_Interval
<1>8. q \in Surjection(1..Cardinality(S), S)
  BY <1>6, <1>7, FS_Injection
<1>9. Range(q) = S
  BY <1>3, <1>4, <1>8 DEF Surjection, Range
<1> QED BY <1>4, <1>5, <1>9 DEF q

Images(s, h) == \A id \in DOMAIN s.store : s.store[id] \in DOMAIN h
Image(s, c) == [val |-> c.val, slots |-> [i \in Slots |-> Lookup(s, c.slots[i])]]

\* reconstruct's first pass: names that were not held are those of new objects.
LEMMA ShellsAre ==
  ASSUME NEW s \in Sessions, Indexed(s), NEW h, Graph(h), DOMAIN s.idOf \subseteq DOMAIN h,
         NEW ids \in SUBSET Name, IsFiniteSet(ids), NEW b, b = WithShells(s, h, ids)
  PROVE  /\ b.s \in Sessions /\ Indexed(b.s)
         /\ b.s.tier = s.tier /\ b.s.next = s.next /\ b.s.seen = s.seen
         /\ b.s.dirty = s.dirty /\ b.s.peerVer = s.peerVer
         /\ Graph(b.h) /\ Len(h) <= Len(b.h) /\ \A v \in DOMAIN h : b.h[v] = h[v]
         /\ DOMAIN b.s.store = DOMAIN s.store \cup ids
         /\ \A id \in DOMAIN s.store : b.s.store[id] = s.store[id]
         /\ DOMAIN b.s.idOf \subseteq DOMAIN b.h
         /\ \A v \in DOMAIN b.s.idOf :
              (v \in DOMAIN s.idOf /\ b.s.idOf[v] = s.idOf[v]) \/ b.s.idOf[v] \in ids
<1> DEFINE fresh == ids \ DOMAIN s.store
           new == SetToSeq(fresh)
           shells == [k \in DOMAIN new |-> Empty]
           at == [id \in Range(new) |-> Len(h) + Place(new, id)]
           more == (Len(h) + 1)..(Len(h) + Len(new))
           idsOf == [v \in more |-> new[v - Len(h)]]
<1>0. /\ s.idOf \in Partial(Nat, Name) /\ s.store \in Partial(Name, Nat)
      /\ Len(h) \in Nat /\ DOMAIN h = 1..Len(h) /\ h \in Seq(Node(Len(h)))
  BY DEF Sessions, Graph
<1>1. IsFiniteSet(fresh) /\ fresh \in SUBSET Name
  BY FS_Subset
<1>2. new \in Seq(fresh) /\ Distinct(new) /\ Range(new) = fresh
  <2> HIDE DEF fresh
  <2> QED BY <1>1, ListIs
<1>3. b = [h |-> h \o shells,
           s |-> [s EXCEPT !.store = Over(at, s.store), !.idOf = Over(idsOf, s.idOf)]]
  BY DEF WithShells
<1> HIDE DEF new, fresh
<1>4. Len(new) \in Nat /\ DOMAIN new = 1..Len(new)
  BY <1>2
<1>5. /\ b.s.store = Over(at, s.store) /\ b.s.idOf = Over(idsOf, s.idOf) /\ b.h = h \o shells
      /\ b.s.tier = s.tier /\ b.s.next = s.next /\ b.s.seen = s.seen
      /\ b.s.dirty = s.dirty /\ b.s.peerVer = s.peerVer
      /\ b.s = [s EXCEPT !.store = Over(at, s.store), !.idOf = Over(idsOf, s.idOf)]
  <2> HIDE DEF at, idsOf, shells
  <2>1. /\ b.h = h \o shells
        /\ b.s = [s EXCEPT !.store = Over(at, s.store), !.idOf = Over(idsOf, s.idOf)]
    BY <1>3
  <2> QED BY <2>1 DEF Sessions
<1>6. ASSUME NEW id \in fresh
      PROVE  /\ at[id] \in more /\ at[id] \in Nat /\ idsOf[at[id]] = id
  <2>1. Place(new, id) \in 1..Len(new) /\ new[Place(new, id)] = id
    BY <1>2, <1>4, PlaceIs
  <2>2. PICK k : k = Place(new, id)
    OBVIOUS
  <2>3. at[id] = Len(h) + k
    BY <1>2, <2>2
  <2>4. k \in 1..Len(new)
    BY <2>1, <2>2
  <2>5. Len(h) + k \in more /\ Len(h) + k \in Nat /\ (Len(h) + k) - Len(h) = k
    BY <1>0, <1>4, <2>4
  <2>6. idsOf[Len(h) + k] = new[k]
    <3> HIDE DEF more
    <3> QED BY <2>5
  <2> HIDE DEF at, more, idsOf
  <2> QED BY <2>1, <2>2, <2>3, <2>5, <2>6
<1>7. ASSUME NEW v \in more
      PROVE  idsOf[v] \in fresh /\ v \in Nat /\ v \notin DOMAIN h
  <2>1. v - Len(h) \in 1..Len(new) /\ v \in Nat /\ ~(v <= Len(h))
    BY <1>0, <1>4
  <2>2. new[v - Len(h)] \in fresh
    BY <1>2, <1>4, <2>1
  <2> QED BY <1>0, <2>1, <2>2
<1>8. /\ at \in Partial(Name, Nat) /\ idsOf \in Partial(Nat, Name)
      /\ DOMAIN at = fresh /\ DOMAIN idsOf = more
  <2>1. DOMAIN at = fresh /\ DOMAIN idsOf = more
    BY <1>2
  <2>2. at = [id \in fresh |-> at[id]] /\ idsOf = [v \in more |-> idsOf[v]]
    BY <1>2
  <2> HIDE DEF at, idsOf, more
  <2>3. at \in [fresh -> Nat] /\ idsOf \in [more -> Name] /\ more \in SUBSET Nat
    BY <1>1, <1>6, <1>7, <2>2
  <2> QED BY <1>1, <2>1, <2>3, PartialIs
<1> HIDE DEF at, idsOf, more
<1>9. /\ DOMAIN b.s.store = fresh \cup DOMAIN s.store
      /\ \A id \in fresh : b.s.store[id] = at[id]
      /\ \A id \in DOMAIN s.store : id \notin fresh => b.s.store[id] = s.store[id]
  <2>1. /\ DOMAIN Over(at, s.store) = DOMAIN at \cup DOMAIN s.store
        /\ \A id \in DOMAIN at : Over(at, s.store)[id] = at[id]
        /\ \A id \in DOMAIN s.store : id \notin DOMAIN at => Over(at, s.store)[id] = s.store[id]
    BY OverIs
  <2> QED BY <1>5, <1>8, <2>1
<1>10. /\ DOMAIN b.s.idOf = more \cup DOMAIN s.idOf
       /\ \A v \in more : b.s.idOf[v] = idsOf[v]
       /\ \A v \in DOMAIN s.idOf : v \notin more => b.s.idOf[v] = s.idOf[v]
  <2>1. /\ DOMAIN Over(idsOf, s.idOf) = DOMAIN idsOf \cup DOMAIN s.idOf
        /\ \A v \in DOMAIN idsOf : Over(idsOf, s.idOf)[v] = idsOf[v]
        /\ \A v \in DOMAIN s.idOf : v \notin DOMAIN idsOf => Over(idsOf, s.idOf)[v] = s.idOf[v]
    BY OverIs
  <2> QED BY <1>5, <1>8, <2>1
<1>11. b.s \in Sessions
  <2>1. b.s.store \in Partial(Name, Nat) /\ b.s.idOf \in Partial(Nat, Name)
    BY <1>0, <1>5, <1>8, OverType
  <2> QED BY <1>5, <2>1 DEF Sessions
<1>12. Indexed(b.s)
  <2> SUFFICES ASSUME NEW id \in DOMAIN b.s.store
               PROVE  b.s.store[id] \in DOMAIN b.s.idOf /\ b.s.idOf[b.s.store[id]] = id
    BY DEF Indexed
  <2>1. CASE id \in fresh
    BY <1>6, <1>9, <1>10, <2>1
  <2>2. CASE id \in DOMAIN s.store /\ id \notin fresh
    <3>1. b.s.store[id] = s.store[id] /\ s.store[id] \in DOMAIN s.idOf /\ s.idOf[s.store[id]] = id
      BY <1>9, <2>2 DEF Indexed
    <3>2. s.store[id] \notin more
      BY <1>7, <3>1
    <3> QED BY <1>10, <3>1, <3>2
  <2> QED BY <1>9, <2>1, <2>2
<1>13. /\ Graph(b.h) /\ Len(b.h) = Len(h) + Len(new)
       /\ DOMAIN b.h = 1..(Len(h) + Len(new)) /\ \A v \in DOMAIN h : b.h[v] = h[v]
  <2>1. Empty \in Node(Len(h)) /\ Node(Len(h)) \subseteq Node(Len(h) + Len(new))
    <3>1. 0 \in 0..Len(h) /\ 0..Len(h) \subseteq 0..(Len(h) + Len(new))
      BY <1>0, <1>4
    <3>2. \A A, B : A \subseteq B => [Slots -> A] \subseteq [Slots -> B]
      OBVIOUS
    <3>3. [Slots -> 0..Len(h)] \subseteq [Slots -> 0..(Len(h) + Len(new))]
      BY <3>1, <3>2
    <3> QED BY <3>1, <3>3 DEF Empty, Node, Nil
  <2>2. shells \in [1..Len(new) -> Node(Len(h))]
    BY <1>4, <2>1
  <2> HIDE DEF shells
  <2>3. shells \in Seq(Node(Len(h))) /\ Len(shells) = Len(new)
    BY <1>4, <2>2
  <2>4. /\ b.h \in Seq(Node(Len(h))) /\ Len(b.h) = Len(h) + Len(new)
        /\ \A v \in DOMAIN h : b.h[v] = h[v]
    <3>1. b.h = h \o shells
      BY <1>5
    <3>2. h \o shells \in Seq(Node(Len(h))) /\ Len(h \o shells) = Len(h) + Len(shells)
      BY <1>0, <2>3
    <3>3. \A v \in DOMAIN h : (h \o shells)[v] = h[v]
      BY <1>0, <2>3
    <3> QED BY <2>3, <3>1, <3>2, <3>3
  <2>5. \A A, B : A \subseteq B => Seq(A) \subseteq Seq(B)
    OBVIOUS
  <2>6. b.h \in Seq(Node(Len(h) + Len(new)))
    BY <2>1, <2>4, <2>5
  <2>7. Graph(b.h)
    BY <2>4, <2>6 DEF Graph
  <2>8. DOMAIN b.h = 1..Len(b.h)
    BY <2>4
  <2> QED BY <2>4, <2>7, <2>8
<1>14. DOMAIN b.s.idOf \subseteq DOMAIN b.h
  <2>1. more \subseteq DOMAIN b.h /\ DOMAIN h \subseteq DOMAIN b.h
    BY <1>0, <1>4, <1>13 DEF more
  <2> QED BY <1>10, <2>1
<1>15. ASSUME NEW v \in DOMAIN b.s.idOf
       PROVE  (v \in DOMAIN s.idOf /\ b.s.idOf[v] = s.idOf[v]) \/ b.s.idOf[v] \in ids
  <2>1. fresh \subseteq ids
    BY DEF fresh
  <2> QED BY <1>7, <1>10, <2>1
<1>16. /\ fresh \cup DOMAIN s.store = DOMAIN s.store \cup ids
       /\ \A id \in DOMAIN s.store : id \notin fresh
  BY DEF fresh
<1>17. Len(h) <= Len(b.h)
  BY <1>0, <1>4, <1>13
<1> QED BY <1>5, <1>9, <1>11, <1>12, <1>13, <1>14, <1>15, <1>16, <1>17

\* Its second pass: the objects that were shipped are what the records say, the others what they
\* were.
LEMMA FilledIs ==
  ASSUME NEW s \in Sessions, Indexed(s), NEW h, Graph(h), Images(s, h),
         NEW records \in Partial(Name, Hold), DOMAIN records \subseteq DOMAIN s.store,
         NEW g, g = Filled(s, h, records)
  PROVE  /\ Graph(g) /\ Len(g) = Len(h) /\ DOMAIN g = DOMAIN h
         /\ \A id \in DOMAIN records : g[s.store[id]] = Image(s, records[id])
         /\ \A v \in DOMAIN h : (\A id \in DOMAIN records : s.store[id] # v) => g[v] = h[v]
<1>0. Len(h) \in Nat /\ DOMAIN h = 1..Len(h) /\ h \in Seq(Node(Len(h)))
  BY DEF Graph
<1>1. \A id \in DOMAIN records : Lookup(s, id) = s.store[id]
  BY DEF Lookup
<1>2. \A id, od \in DOMAIN records : s.store[id] = s.store[od] => id = od
  BY DEF Indexed
<1>3. ASSUME NEW id \in DOMAIN records
      PROVE  g[s.store[id]] = Image(s, records[id]) /\ Image(s, records[id]) \in Node(Len(h))
  <2>1. s.store[id] \in DOMAIN h
    BY DEF Images
  <2>2. (CHOOSE od \in DOMAIN records : Lookup(s, od) = s.store[id]) = id
    BY <1>1, <1>2
  <2>3. g[s.store[id]] = Image(s, records[id])
    BY <1>1, <2>1, <2>2 DEF Filled, Image
  <2>4. records[id] \in Hold
    BY PartialIs
  <2>5. \A od : Lookup(s, od) \in 0..Len(h)
    BY <1>0 DEF Lookup, Images, Nil
  <2>6. Image(s, records[id]) \in Node(Len(h))
    BY <2>4, <2>5 DEF Image, Node, Hold
  <2> QED BY <2>3, <2>6
<1>4. ASSUME NEW v \in DOMAIN h, \A id \in DOMAIN records : s.store[id] # v
      PROVE  g[v] = h[v]
  BY <1>1, <1>4 DEF Filled
<1>5. DOMAIN g = DOMAIN h /\ g = [v \in DOMAIN h |-> g[v]]
  BY DEF Filled
<1>6. ASSUME NEW v \in DOMAIN h
      PROVE  g[v] \in Node(Len(h))
  <2>1. CASE \E id \in DOMAIN records : s.store[id] = v
    BY <1>3, <2>1
  <2>2. CASE ~\E id \in DOMAIN records : s.store[id] = v
    <3>1. h[v] \in Node(Len(h))
      BY <1>0
    <3> QED BY <1>4, <2>2, <3>1
  <2> QED BY <2>1, <2>2
<1>7. g \in [1..Len(h) -> Node(Len(h))]
  BY <1>0, <1>5, <1>6
<1>8. g \in Seq(Node(Len(h))) /\ Len(g) = Len(h)
  BY <1>0, <1>7
<1>9. Graph(g)
  BY <1>8 DEF Graph
<1> QED BY <1>3, <1>4, <1>5, <1>8, <1>9

\* adoptBaseline, of a session that has no baseline yet: what is reached is named by its place in
\* the walk, and nothing else is in the store.
LEMMA AdoptIs ==
  ASSUME NEW s \in Sessions, NEW h, Graph(h), NEW rs \in Roots(h),
         \A v \in DOMAIN s.idOf : s.idOf[v][1] # "@",
         NEW n, n = AdoptBaseline(s, h, rs)
  PROVE  /\ n \in Sessions /\ Indexed(n)
         /\ n.tier = s.tier /\ n.next = s.next /\ n.peerVer = s.peerVer
         /\ n.dirty = {} /\ n.seen = DOMAIN n.store
         /\ DOMAIN n.idOf = DOMAIN s.idOf \cup Reach(h, rs)
         /\ \A k \in DOMAIN Order(h, rs) :
              n.idOf[Order(h, rs)[k]] = <<"@", k - 1>> /\ Owns(n, Order(h, rs)[k])
         /\ \A id \in DOMAIN n.store : id[1] = "@"
<1> DEFINE skip == [i \in 0..Len(h) |-> {v \in DOMAIN s.idOf : s.idOf[v] \in Baseline(i)}]
           q == Order(h, rs)
           names == [v \in Range(q) |-> <<"@", Place(q, v) - 1>>]
           at == [id \in Baseline(Len(q)) |-> q[id[2] + 1]]
<1>0. /\ Len(h) \in Nat /\ DOMAIN h = 1..Len(h)
      /\ s.idOf \in Partial(Nat, Name)
  BY DEF Sessions, Graph
<1>1. skip = [i \in 0..Len(h) |-> {}]
  <2>1. \A i \in 0..Len(h), v \in DOMAIN s.idOf : s.idOf[v] \notin Baseline(i)
    BY DEF Baseline
  <2> QED BY <2>1
<1>2. Walk(h, rs, skip) = q
  BY <1>1 DEF Order
<1>3. n = [s EXCEPT !.idOf = Over(names, s.idOf), !.store = Over(at, <<>>),
                    !.seen = Baseline(Len(q)), !.dirty = {}]
  <2> HIDE DEF names, at
  <2>1. n = [s EXCEPT
               !.idOf = Over([v \in Range(Walk(h, rs, skip)) |->
                                <<"@", Place(Walk(h, rs, skip), v) - 1>>], s.idOf),
               !.store = Over([id \in Baseline(Len(Walk(h, rs, skip))) |->
                                Walk(h, rs, skip)[id[2] + 1]], <<>>),
               !.seen = Baseline(Len(Walk(h, rs, skip))), !.dirty = {}]
    BY DEF AdoptBaseline, AdoptOver
  <2> HIDE DEF skip, q
  <2> QED BY <1>2, <2>1 DEF names, at
<1>4. q \in Seq(1..Len(h)) /\ Distinct(q) /\ Reach(h, rs) = Range(q)
  BY ReachIs DEF Reach
<1> HIDE DEF q, skip
<1>5. Len(q) \in Nat /\ DOMAIN q = 1..Len(q)
  BY <1>4
<1>6. ASSUME NEW k \in DOMAIN q
      PROVE  /\ q[k] \in Range(q) /\ q[k] \in Nat /\ names[q[k]] = <<"@", k - 1>>
             /\ <<"@", k - 1>> \in Baseline(Len(q)) /\ at[<<"@", k - 1>>] = q[k]
             /\ <<"@", k - 1>> \in Name
  <2>1. q[k] \in Range(q) /\ q[k] \in 1..Len(h)
    BY <1>4 DEF Range
  <2>2. Place(q, q[k]) = k
    BY <1>4, <2>1, PlaceIs
  <2>3. k - 1 \in 0..(Len(q) - 1) /\ k - 1 \in Nat /\ (k - 1) + 1 = k
    BY <1>5
  <2>4. <<"@", k - 1>> \in Baseline(Len(q))
    BY <2>3 DEF Baseline
  <2>5. at[<<"@", k - 1>>] = q[k]
    BY <2>3, <2>4
  <2>6. <<"@", k - 1>> \in Name
    BY <2>3 DEF Name
  <2> QED BY <1>0, <2>1, <2>2, <2>4, <2>5, <2>6
<1>7. ASSUME NEW id \in Baseline(Len(q))
      PROVE  id[1] = "@" /\ \E k \in DOMAIN q : id = <<"@", k - 1>>
  <2>1. PICK j \in 0..(Len(q) - 1) : id = <<"@", j>>
    BY DEF Baseline
  <2>2. j + 1 \in DOMAIN q /\ (j + 1) - 1 = j
    BY <1>5, <2>1
  <2> QED BY <2>1, <2>2
<1>17. Baseline(Len(q)) \in SUBSET Name
  <2> SUFFICES ASSUME NEW id \in Baseline(Len(q))
               PROVE  id \in Name
    OBVIOUS
  <2>1. PICK k \in DOMAIN q : id = <<"@", k - 1>>
    BY <1>7
  <2>2. <<"@", k - 1>> \in Name
    BY <1>6
  <2> QED BY <2>1, <2>2
<1>8. \A v \in Range(q) : \E k \in DOMAIN q : v = q[k]
  BY DEF Range
<1>9. names \in Partial(Nat, Name) /\ DOMAIN names = Range(q)
  <2>1. DOMAIN names = Range(q) /\ names = [v \in Range(q) |-> names[v]]
    OBVIOUS
  <2> HIDE DEF names
  <2>2. ASSUME NEW v \in Range(q)
        PROVE  names[v] \in Name /\ v \in Nat
    <3>1. PICK k \in DOMAIN q : v = q[k]
      BY <1>8
    <3>2. names[q[k]] = <<"@", k - 1>> /\ <<"@", k - 1>> \in Name /\ q[k] \in Nat
      BY <1>6
    <3>3. names[q[k]] \in Name
      BY <3>2
    <3> QED BY <3>1, <3>2, <3>3
  <2>3. names \in [Range(q) -> Name] /\ Range(q) \in SUBSET Nat
    BY <2>1, <2>2
  <2> QED BY <2>1, <2>3, PartialIs
<1>10. at \in Partial(Name, Nat) /\ DOMAIN at = Baseline(Len(q))
  <2>1. DOMAIN at = Baseline(Len(q)) /\ at = [id \in Baseline(Len(q)) |-> at[id]]
    OBVIOUS
  <2> HIDE DEF at
  <2>2. ASSUME NEW id \in Baseline(Len(q))
        PROVE  at[id] \in Nat
    <3>1. PICK k \in DOMAIN q : id = <<"@", k - 1>>
      BY <1>7
    <3>2. at[<<"@", k - 1>>] \in Nat
      BY <1>6
    <3> QED BY <3>1, <3>2
  <2>3. at \in [Baseline(Len(q)) -> Nat]
    BY <2>1, <2>2
  <2> QED BY <1>17, <2>1, <2>3, PartialIs
<1> HIDE DEF names, at
<1>11. /\ n.idOf = Over(names, s.idOf) /\ n.store = Over(at, <<>>)
       /\ n.seen = Baseline(Len(q)) /\ n.dirty = {}
       /\ n.tier = s.tier /\ n.next = s.next /\ n.peerVer = s.peerVer
  BY <1>3 DEF Sessions
<1>12. /\ DOMAIN n.idOf = Range(q) \cup DOMAIN s.idOf
       /\ \A v \in Range(q) : n.idOf[v] = names[v]
  <2>1. /\ DOMAIN Over(names, s.idOf) = DOMAIN names \cup DOMAIN s.idOf
        /\ \A v \in DOMAIN names : Over(names, s.idOf)[v] = names[v]
        /\ \A v \in DOMAIN s.idOf : v \notin DOMAIN names => Over(names, s.idOf)[v] = s.idOf[v]
    BY OverIs
  <2> QED BY <1>9, <1>11, <2>1
<1>13. /\ DOMAIN n.store = Baseline(Len(q))
       /\ \A id \in Baseline(Len(q)) : n.store[id] = at[id]
  <2>1. /\ DOMAIN Over(at, <<>>) = DOMAIN at \cup DOMAIN <<>>
        /\ \A id \in DOMAIN at : Over(at, <<>>)[id] = at[id]
        /\ \A id \in DOMAIN <<>> : id \notin DOMAIN at => Over(at, <<>>)[id] = <<>>[id]
    BY OverIs
  <2>2. DOMAIN <<>> = {}
    OBVIOUS
  <2> QED BY <1>10, <1>11, <2>1, <2>2
<1>14. n \in Sessions
  <2>1. <<>> \in Partial(Name, Nat)
    <3>1. DOMAIN <<>> = {} /\ <<>> = [x \in {} |-> 0]
      OBVIOUS
    <3>2. <<>> \in [{} -> Nat]
      BY <3>1
    <3> QED BY <3>1, <3>2, PartialIs
  <2>2. n.idOf \in Partial(Nat, Name) /\ n.store \in Partial(Name, Nat)
    BY <1>0, <1>9, <1>10, <1>11, <2>1, OverType
  <2>3. n.seen \in SUBSET Name
    BY <1>11, <1>17
  <2> QED BY <1>3, <1>11, <2>2, <2>3 DEF Sessions
<1>15. ASSUME NEW k \in DOMAIN q
       PROVE  n.idOf[q[k]] = <<"@", k - 1>> /\ Owns(n, q[k])
  <2>1. q[k] \in Range(q) /\ names[q[k]] = <<"@", k - 1>>
    BY <1>6
  <2>2. n.idOf[q[k]] = <<"@", k - 1>> /\ q[k] \in DOMAIN n.idOf
    BY <1>12, <2>1
  <2>3. <<"@", k - 1>> \in Baseline(Len(q)) /\ at[<<"@", k - 1>>] = q[k]
    BY <1>6
  <2>4. <<"@", k - 1>> \in DOMAIN n.store /\ n.store[<<"@", k - 1>>] = q[k]
    BY <1>13, <2>3
  <2> QED BY <2>2, <2>4 DEF Owns
<1>16. Indexed(n)
  <2> SUFFICES ASSUME NEW id \in DOMAIN n.store
               PROVE  n.store[id] \in DOMAIN n.idOf /\ n.idOf[n.store[id]] = id
    BY DEF Indexed
  <2>1. PICK k \in DOMAIN q : id = <<"@", k - 1>>
    BY <1>7, <1>13
  <2>2. n.store[id] = q[k]
    BY <1>6, <1>13, <2>1
  <2> QED BY <1>6, <1>12, <1>15, <2>1, <2>2
<1> QED BY <1>4, <1>7, <1>11, <1>12, <1>13, <1>14, <1>15, <1>16 DEF q

\* A graph that was encoded and decoded is like the part of it that was reached.
LEMMA ShapeIs ==
  ASSUME NEW h, Graph(h), NEW rs \in Roots(h), NEW g, g = Shape(h, rs)
  PROVE  /\ Graph(g.nodes) /\ g.roots \in Roots(g.nodes)
         /\ \E f : /\ Alike(f, Reach(h, rs), h, rs, g.nodes, g.roots)
                   /\ \A k \in DOMAIN Order(h, rs) : f[Order(h, rs)[k]] = k
<1> DEFINE q == Order(h, rs)
           at(v) == IF v = Nil THEN Nil ELSE Place(q, v)
           node(k) == [val |-> h[q[k]].val, slots |-> [i \in Slots |-> at(h[q[k]].slots[i])]]
           f == [v \in Range(q) |-> Place(q, v)]
<1>0. /\ Len(h) \in Nat /\ DOMAIN h = 1..Len(h) /\ \A v \in DOMAIN h : h[v] \in Node(Len(h))
  BY DEF Graph
<1>1. g.nodes = [k \in DOMAIN q |-> node(k)] /\ g.roots = [i \in Slots |-> at(rs[i])]
  BY DEF Shape
<1>2. /\ q \in Seq(1..Len(h)) /\ Distinct(q) /\ Reach(h, rs) = Range(q)
      /\ Closed(Range(q), h, rs)
  BY ReachIs DEF Reach
<1> HIDE DEF q
<1>3. Len(q) \in Nat /\ DOMAIN q = 1..Len(q)
  BY <1>2
<1>4. ASSUME NEW v \in Range(q)
      PROVE  /\ f[v] \in DOMAIN q /\ q[f[v]] = v /\ v # Nil /\ v \in DOMAIN h
             /\ \A k \in DOMAIN q : q[k] = v => k = f[v]
  <2>1. v \in 1..Len(h)
    BY <1>2 DEF Range
  <2> QED BY <1>0, <1>2, <2>1, PlaceIs DEF Nil
<1>5. ASSUME NEW x \in {Nil} \cup Range(q)
      PROVE  at(x) = To(f, x) /\ at(x) \in 0..Len(q)
  <2>1. CASE x = Nil
    BY <1>3, <2>1 DEF To, Nil
  <2>2. CASE x # Nil
    <3>1. x \in Range(q) /\ at(x) = Place(q, x) /\ To(f, x) = f[x] /\ f[x] = Place(q, x)
      BY <2>2 DEF To
    <3> HIDE DEF f, at
    <3>2. f[x] \in 1..Len(q)
      BY <1>3, <1>4, <3>1
    <3> QED BY <1>3, <3>1, <3>2
  <2> QED BY <2>1, <2>2
<1>6. ASSUME NEW v \in Range(q)
      PROVE  \A i \in Slots : h[v].slots[i] \in {Nil} \cup Range(q)
  BY <1>2 DEF Closed
<1>7. \A k \in DOMAIN q : q[k] \in Range(q)
  BY DEF Range
<1>8. DOMAIN f = Range(q)
  OBVIOUS
<1> HIDE DEF f
<1>9. ASSUME NEW k \in DOMAIN q
      PROVE  /\ node(k) = [val |-> h[q[k]].val, slots |-> [i \in Slots |-> To(f, h[q[k]].slots[i])]]
             /\ node(k) \in Node(Len(q))
  <2>1. q[k] \in Range(q) /\ q[k] \in DOMAIN h
    BY <1>4, <1>7
  <2>2. \A i \in Slots : at(h[q[k]].slots[i]) = To(f, h[q[k]].slots[i])
                         /\ at(h[q[k]].slots[i]) \in 0..Len(q)
    <3> HIDE DEF at
    <3> QED BY <1>5, <1>6, <2>1
  <2>3. h[q[k]].val \in {0, 1}
    BY <1>0, <2>1 DEF Node
  <2> HIDE DEF at
  <2> QED BY <2>2, <2>3 DEF Node
<1> HIDE DEF node
<1>10. g.nodes \in Seq(Node(Len(q))) /\ Len(g.nodes) = Len(q) /\ DOMAIN g.nodes = DOMAIN q
  <2>1. g.nodes \in [1..Len(q) -> Node(Len(q))]
    BY <1>1, <1>3, <1>9
  <2> QED BY <1>3, <2>1
<1>11. Graph(g.nodes)
  BY <1>10 DEF Graph
<1>12. \A i \in Slots : at(rs[i]) = To(f, rs[i]) /\ at(rs[i]) \in 0..Len(q)
  <2> HIDE DEF at
  <2>1. \A i \in Slots : rs[i] \in {Nil} \cup Range(q)
    BY <1>2 DEF Closed
  <2> QED BY <1>5, <2>1
<1>13. g.roots \in Roots(g.nodes) /\ \A i \in Slots : g.roots[i] = To(f, rs[i])
  <2> HIDE DEF at
  <2> QED BY <1>1, <1>10, <1>12 DEF Roots
<1>14. Alike(f, Range(q), h, rs, g.nodes, g.roots)
  <2>1. f \in [Range(q) -> 1..Len(g.nodes)] /\ \A v, w \in Range(q) : f[v] = f[w] => v = w
    <3>1. f = [v \in Range(q) |-> f[v]]
      BY DEF f
    <3> QED BY <1>3, <1>4, <1>10, <3>1
  <2>2. ASSUME NEW v \in Range(q)
        PROVE  g.nodes[f[v]]
                 = [val |-> h[v].val, slots |-> [i \in Slots |-> To(f, h[v].slots[i])]]
    <3>1. f[v] \in DOMAIN q /\ q[f[v]] = v
      BY <1>4
    <3>2. g.nodes[f[v]] = node(f[v])
      BY <1>1, <3>1
    <3> QED BY <1>9, <3>1, <3>2
  <2> QED BY <1>2, <1>13, <2>1, <2>2 DEF Alike
<1>15. \A k \in DOMAIN q : f[q[k]] = k
  BY <1>4, <1>7
<1>16. q = Order(h, rs)
  BY DEF q
<1> QED BY <1>2, <1>11, <1>13, <1>14, <1>15, <1>16

\* Session u with objects g holds, under the name id, what c says.
Mirrors(u, g, id, c) ==
  /\ id \in DOMAIN u.store
  /\ \A i \in Slots : c.slots[i] \in DOMAIN u.store \cup {NoName}
  /\ g[u.store[id]] = Image(u, c)

\* Holds says the same of an object whose slots have kept their names.
LEMMA SameHolds ==
  ASSUME NEW s, NEW n, NEW h, NEW v,
         \A i \in Slots : IdOf(s, h[v].slots[i]) = IdOf(n, h[v].slots[i])
  PROVE  Holds(s, h, v) = Holds(n, h, v)
BY DEF Holds

\* What an object holds, by name, is a value of that type.
LEMMA HoldsIs ==
  ASSUME NEW s \in Sessions, NEW h, Graph(h), NEW v \in DOMAIN h
  PROVE  Holds(s, h, v) \in Hold
<1>1. h[v] \in Node(Len(h))
  BY DEF Graph
<1>2. \A x : IdOf(s, x) \in Name \cup {NoName}
  <2> TAKE x
  <2>1. s.idOf \in Partial(Nat, Name)
    BY DEF Sessions
  <2>2. s.idOf \in [DOMAIN s.idOf -> Name]
    BY <2>1, PartialIs
  <2>3. CASE x \in DOMAIN s.idOf
    BY <2>2, <2>3 DEF IdOf
  <2>4. CASE x \notin DOMAIN s.idOf
    BY <2>4 DEF IdOf
  <2> QED BY <2>3, <2>4
<1> QED BY <1>1, <1>2 DEF Holds, Hold, Node

\* Nothing has no name, and nobody's name is that of nothing.
LEMMA NilIs ==
  ASSUME NEW s, NEW h, Graph(h), DOMAIN s.idOf \subseteq DOMAIN h, NEW n \in Sessions
  PROVE  IdOf(s, Nil) = NoName /\ NoName \notin DOMAIN n.store /\ Lookup(n, NoName) = Nil
<1>1. Nil \notin DOMAIN s.idOf
  BY DEF Nil, Graph
<1>2. NoName \notin Name
  BY DEF NoName, Name, Tier
<1>3. NoName \notin DOMAIN n.store
  <2>1. n.store \in Partial(Name, Nat)
    BY DEF Sessions
  <2> QED BY <1>2, <2>1, PartialIs
<1> QED BY <1>1, <1>3 DEF IdOf, Lookup

\* What has arrived: when the graph at the receiver is like the one that was sent and bears its
\* names, it has its shape and its names, and the sender still holds what it holds.
LEMMA Crossed ==
  ASSUME NEW s \in Sessions, NEW h, Graph(h), NEW rs \in Roots(h), DOMAIN s.idOf \subseteq DOMAIN h,
         NEW n \in Sessions, NEW g, Graph(g), NEW ss \in Roots(g), DOMAIN n.idOf \subseteq DOMAIN g,
         NEW f, Alike(f, Reach(h, rs), h, rs, g, ss),
         \A v \in Reach(h, rs) : /\ Owns(s, v) /\ Owns(n, f[v])
                                 /\ n.idOf[f[v]] = s.idOf[v]
  PROVE  /\ Shape(g, ss) = Shape(h, rs)
         /\ NamesOf(n, Order(g, ss)) = NamesOf(s, Order(h, rs))
         /\ Closed(Reach(g, ss), g, ss)
         /\ \A w \in Reach(g, ss) :
              /\ Owns(n, w) /\ Mirrors(s, h, n.idOf[w], Holds(n, g, w))
              /\ \A i \in Slots : g[w].slots[i] \in {Nil} \cup DOMAIN n.idOf
<1> DEFINE q == Order(h, rs)
           p == Order(g, ss)
           R == Reach(h, rs)
           P == Reach(g, ss)
<1>1. p = Via(f, q) /\ Shape(g, ss) = Shape(h, rs)
  BY WalksAlike
<1>2. R = Range(q) /\ Closed(R, h, rs) /\ P = Range(p) /\ Closed(P, g, ss)
  BY ReachIs DEF Reach
<1>3. R \in SUBSET DOMAIN h /\ P \in SUBSET DOMAIN g
  BY <1>2 DEF Closed
<1> HIDE DEF q, p
<1>4. DOMAIN p = DOMAIN q /\ \A k \in DOMAIN q : p[k] = f[q[k]]
  BY <1>1 DEF Via
<1>5. \A k \in DOMAIN q : q[k] \in R
  BY <1>2 DEF Range
<1>6. \A w \in P : \E v \in R : w = f[v]
  <2> TAKE w \in P
  <2>1. PICK k \in DOMAIN p : w = p[k]
    BY <1>2 DEF Range
  <2> QED BY <1>4, <1>5, <2>1
<1>7. NamesOf(n, p) = NamesOf(s, q)
  <2>1. ASSUME NEW k \in DOMAIN q
        PROVE  IdOf(n, p[k]) = IdOf(s, q[k])
    BY <1>4, <1>5 DEF IdOf, Owns
  <2> QED BY <1>4, <2>1 DEF NamesOf
<1>8. \A v \in R : f[v] \in P
  <2> TAKE v \in R
  <2>1. PICK k \in DOMAIN q : v = q[k]
    BY <1>2 DEF Range
  <2>2. k \in DOMAIN p /\ p[k] = f[v]
    BY <1>4, <2>1
  <2> QED BY <1>2, <2>2 DEF Range
<1>9. ASSUME NEW v \in R
      PROVE  /\ Owns(n, f[v]) /\ n.idOf[f[v]] = s.idOf[v] /\ Owns(s, v)
             /\ \A i \in Slots : /\ h[v].slots[i] \in {Nil} \cup R
                                 /\ g[f[v]].slots[i] = To(f, h[v].slots[i])
             /\ g[f[v]].val = h[v].val
  <2>1. g[f[v]] = [val |-> h[v].val, slots |-> [i \in Slots |-> To(f, h[v].slots[i])]]
    BY DEF Alike
  <2>2. \A i \in Slots : h[v].slots[i] \in {Nil} \cup R
    BY <1>2 DEF Closed
  <2> QED BY <2>1, <2>2
<1>10. ASSUME NEW x \in {Nil} \cup R
       PROVE  /\ IdOf(n, To(f, x)) \in DOMAIN s.store \cup {NoName}
              /\ Lookup(s, IdOf(n, To(f, x))) = x
              /\ To(f, x) \in {Nil} \cup DOMAIN n.idOf
  <2>1. CASE x = Nil
    <3>1. IdOf(n, Nil) = NoName /\ NoName \notin DOMAIN s.store /\ Lookup(s, NoName) = Nil
      BY NilIs
    <3> QED BY <2>1, <3>1 DEF To
  <2>2. CASE x # Nil
    <3>1. x \in R /\ To(f, x) = f[x]
      BY <2>2 DEF To
    <3>2. f[x] \in DOMAIN n.idOf /\ IdOf(n, f[x]) = s.idOf[x]
      BY <1>9, <3>1 DEF Owns, IdOf
    <3> QED BY <1>9, <3>1, <3>2 DEF Owns, Lookup
  <2> QED BY <2>1, <2>2
<1>11. ASSUME NEW v \in R
       PROVE  /\ Owns(n, f[v]) /\ Mirrors(s, h, n.idOf[f[v]], Holds(n, g, f[v]))
              /\ \A i \in Slots : g[f[v]].slots[i] \in {Nil} \cup DOMAIN n.idOf
  <2> DEFINE c == Holds(n, g, f[v])
  <2>1. c.val = h[v].val /\ \A i \in Slots : c.slots[i] = IdOf(n, To(f, h[v].slots[i]))
    BY <1>9 DEF Holds
  <2> HIDE DEF c
  <2>2. \A i \in Slots : /\ c.slots[i] \in DOMAIN s.store \cup {NoName}
                         /\ Lookup(s, c.slots[i]) = h[v].slots[i]
    BY <1>9, <1>10, <2>1
  <2>3. h[v] = [val |-> h[v].val, slots |-> [i \in Slots |-> h[v].slots[i]]]
    <3>1. h[v] \in Node(Len(h))
      BY <1>3 DEF Graph
    <3> QED BY <3>1 DEF Node
  <2>4. Image(s, c) = h[v]
    BY <2>1, <2>2, <2>3 DEF Image
  <2>5. n.idOf[f[v]] \in DOMAIN s.store /\ s.store[n.idOf[f[v]]] = v
    BY <1>9 DEF Owns
  <2>6. Mirrors(s, h, n.idOf[f[v]], c)
    BY <2>2, <2>4, <2>5 DEF Mirrors
  <2>7. \A i \in Slots : g[f[v]].slots[i] \in {Nil} \cup DOMAIN n.idOf
    BY <1>9, <1>10
  <2> QED BY <1>9, <2>6, <2>7 DEF c
<1>12. \A w \in P : /\ Owns(n, w) /\ Mirrors(s, h, n.idOf[w], Holds(n, g, w))
                    /\ \A i \in Slots : g[w].slots[i] \in {Nil} \cup DOMAIN n.idOf
  BY <1>6, <1>11
<1> QED BY <1>1, <1>2, <1>7, <1>12 DEF p, q

-----------------------------------------------------------------------------
(* Selection                                                               *)

\* K has what the continuation may reach; u holds, in g, what s believes it holds of that.
Keeps(K, s, h, u, g, how) ==
  \A v \in K : v \in DOMAIN s.idOf =>
    /\ Owns(s, v)
    /\ how = "rescan" =>
         (s.idOf[v] \in DOMAIN s.peerVer => Mirrors(u, g, s.idOf[v], s.peerVer[s.idOf[v]]))
    /\ how # "rescan" =>
         (v \notin s.dirty => /\ Mirrors(u, g, s.idOf[v], Holds(s, h, v))
                              /\ \A i \in Slots : h[v].slots[i] \in {Nil} \cup DOMAIN s.idOf)

\* A session alone: its stores, and what it believes of its peer.
Sound(s, t, h, how, full) ==
  /\ s \in Sessions /\ s.tier = t /\ DOMAIN s.idOf \subseteq DOMAIN h /\ Indexed(s) /\ Below(s)
  /\ s.seen \subseteq DOMAIN s.store /\ s.dirty \subseteq DOMAIN h
  /\ how = "rescan" => s.dirty = {} /\ DOMAIN s.peerVer \subseteq DOMAIN s.store
  /\ full = 0 => \A v \in DOMAIN s.idOf : s.idOf[v][1] # "@"

\* What is reached is finite.
LEMMA ReachFinite ==
  ASSUME NEW h, Graph(h), NEW S \in SUBSET DOMAIN h
  PROVE  IsFiniteSet(S) /\ S \in SUBSET Nat
<1>1. Len(h) \in Nat /\ DOMAIN h = 1..Len(h)
  BY DEF Graph
<1>2. IsFiniteSet(1..Len(h))
  BY <1>1, FS_Interval
<1> QED BY <1>1, <1>2, FS_Subset

\* Naming objects of the heap keeps a session sound, and who owned its name still does.
LEMMA NamedSound ==
  ASSUME NEW s, NEW t \in Tier, NEW h, Graph(h), NEW how, NEW full, Sound(s, t, h, how, full),
         NEW vs \in SUBSET DOMAIN h, NEW n, n = WithNames(s, vs)
  PROVE  /\ Sound(n, t, h, how, full)
         /\ n.seen = s.seen /\ n.dirty = s.dirty /\ n.peerVer = s.peerVer
         /\ n.next \in Nat /\ s.next <= n.next
         /\ DOMAIN n.idOf = DOMAIN s.idOf \cup vs
         /\ \A v \in DOMAIN s.idOf : n.idOf[v] = s.idOf[v] /\ (Owns(s, v) => Owns(n, v))
         /\ \A v \in vs \ DOMAIN s.idOf : Owns(n, v) /\ n.idOf[v] \notin DOMAIN s.store
         /\ \A id \in DOMAIN n.store \ DOMAIN s.store : id[1] = t
<1>1. /\ s \in Sessions /\ Indexed(s) /\ Below(s) /\ s.tier = t
      /\ vs \in SUBSET Nat /\ IsFiniteSet(vs)
  BY ReachFinite DEF Sound
<1>2. /\ n \in Sessions /\ Indexed(n) /\ Below(n)
      /\ n.tier = t /\ n.seen = s.seen /\ n.dirty = s.dirty /\ n.peerVer = s.peerVer
      /\ n.next \in Nat /\ s.next <= n.next
      /\ DOMAIN n.idOf = DOMAIN s.idOf \cup vs
      /\ \A v \in DOMAIN s.idOf : n.idOf[v] = s.idOf[v]
      /\ DOMAIN s.store \subseteq DOMAIN n.store
      /\ \A id \in DOMAIN s.store : n.store[id] = s.store[id]
      /\ \A v \in vs \ DOMAIN s.idOf :
           Owns(n, v) /\ n.idOf[v] \notin DOMAIN s.store /\ n.idOf[v][1] = t
      /\ \A id \in DOMAIN n.store \ DOMAIN s.store : id[1] = t
  BY <1>1, NamesGiven
<1>3. \A v \in DOMAIN s.idOf : Owns(s, v) => Owns(n, v)
  BY <1>2 DEF Owns
<1>4. t # "@"
  BY DEF Tier
<1>5. full = 0 => \A v \in DOMAIN n.idOf : n.idOf[v][1] # "@"
  <2> SUFFICES ASSUME full = 0, NEW v \in DOMAIN n.idOf
               PROVE  n.idOf[v][1] # "@"
    OBVIOUS
  <2>1. CASE v \in DOMAIN s.idOf
    BY <1>2, <2>1 DEF Sound
  <2>2. CASE v \notin DOMAIN s.idOf
    BY <1>2, <1>4, <2>2
  <2> QED BY <2>1, <2>2
<1>6. DOMAIN n.idOf \subseteq DOMAIN h
  BY <1>2 DEF Sound
<1>7. n.seen \subseteq DOMAIN n.store /\ n.dirty \subseteq DOMAIN h
  BY <1>2 DEF Sound
<1>8. how = "rescan" => n.dirty = {} /\ DOMAIN n.peerVer \subseteq DOMAIN n.store
  BY <1>2 DEF Sound
<1>9. Sound(n, t, h, how, full)
  BY <1>2, <1>5, <1>6, <1>7, <1>8 DEF Sound
<1> QED BY <1>2, <1>3, <1>9

\* One list after another.
LEMMA JoinIs ==
  ASSUME NEW S, NEW p \in Seq(S), NEW q \in Seq(S), NEW j, j = p \o q
  PROVE  /\ j \in Seq(S) /\ Len(j) = Len(p) + Len(q) /\ DOMAIN j = 1..(Len(p) + Len(q))
         /\ \A i \in 1..Len(p) : j[i] = p[i]
         /\ \A i \in 1..Len(q) : Len(p) + i \in DOMAIN j /\ j[Len(p) + i] = q[i]
<1>1. p \o q \in Seq(S) /\ Len(p \o q) = Len(p) + Len(q) /\ Len(p) \in Nat /\ Len(q) \in Nat
  OBVIOUS
<1>2. \A i \in 1..Len(p) : (p \o q)[i] = p[i]
  OBVIOUS
<1>3. ASSUME NEW i \in 1..Len(q)
      PROVE  Len(p) + i \in 1..(Len(p) + Len(q)) /\ (p \o q)[Len(p) + i] = q[i]
  <2>1. Len(p) + i \in 1..(Len(p) + Len(q)) /\ ~(Len(p) + i <= Len(p)) /\ (Len(p) + i) - Len(p) = i
    BY <1>1
  <2> QED BY <2>1
<1>4. DOMAIN j = 1..(Len(p) + Len(q))
  BY <1>1
<1> QED BY <1>1, <1>2, <1>3, <1>4

\* What selectDirty skips, where it starts, and where it has been.
Unwritten(s) == {v \in DOMAIN s.idOf : s.idOf[v] \in s.seen /\ v \notin s.dirty}
Starts(s, h, rs) == rs \o [v \in DOMAIN h |-> IF v \in s.dirty THEN v ELSE Nil]
Visited(s, h, rs) == Range(Walk(h, Starts(s, h, rs), [i \in 0..Len(h) |-> Unwritten(s)]))

\* selectDirty's walk goes through all the closed set K that is neither known to the peer nor
\* unwritten, and to nothing else.
LEMMA ShippedIs ==
  ASSUME NEW s, NEW t \in Tier, NEW h, Graph(h), NEW how, NEW full, Sound(s, t, h, how, full),
         how # "rescan", NEW rs \in Roots(h), NEW K, Closed(K, h, rs), s.dirty \subseteq K,
         NEW u, NEW g, Keeps(K, s, h, u, g, how),
         NEW visited, visited = Visited(s, h, rs)
  PROVE  /\ visited \subseteq K
         /\ \A v \in Reach(h, rs) : v \in visited \/ (v \in DOMAIN s.idOf /\ v \notin s.dirty)
<1>16. PICK known : known = Unwritten(s)
  OBVIOUS
<1>17. PICK vs : vs = Starts(s, h, rs)
  OBVIOUS
<1>18. known = {v \in DOMAIN s.idOf : s.idOf[v] \in s.seen /\ v \notin s.dirty}
  BY <1>16 DEF Unwritten
<1> DEFINE skip == [i \in 0..Len(h) |-> known]
           more == [v \in DOMAIN h |-> IF v \in s.dirty THEN v ELSE Nil]
           q == Walk(h, vs, skip)
<1>0. /\ Len(h) \in Nat /\ DOMAIN h = 1..Len(h) /\ Width \in Nat /\ DOMAIN s.idOf \subseteq DOMAIN h
      /\ s.dirty \subseteq DOMAIN h
  BY DeltaAssumption DEF Graph, Sound
<1>1. rs \in Seq(0..Len(h)) /\ Len(rs) = Width /\ DOMAIN rs = Slots /\ Slots = 1..Width
  BY RootsAre DEF Slots
<1>2. more \in [1..Len(h) -> 0..Len(h)]
  BY <1>0 DEF Nil
<1>3. more \in Seq(0..Len(h)) /\ Len(more) = Len(h)
  <2> HIDE DEF more
  <2> QED BY <1>0, <1>2
<1>4. \A v \in DOMAIN h : more[v] = IF v \in s.dirty THEN v ELSE Nil
  OBVIOUS
<1> HIDE DEF more
<1>5. /\ vs \in Seq(0..Len(h)) /\ Len(vs) = Width + Len(h)
      /\ \A i \in Slots : vs[i] = rs[i]
      /\ \A v \in DOMAIN h : Width + v \in DOMAIN vs /\ vs[Width + v] = more[v]
  <2>1. vs = rs \o more
    BY <1>17 DEF more, Starts
  <2>2. /\ vs \in Seq(0..Len(h)) /\ Len(vs) = Len(rs) + Len(more)
        /\ \A i \in 1..Len(rs) : vs[i] = rs[i]
        /\ \A i \in 1..Len(more) : Len(rs) + i \in DOMAIN vs /\ vs[Len(rs) + i] = more[i]
    <3>1. PICK S : S = 0..Len(h)
      OBVIOUS
    <3>2. rs \in Seq(S) /\ more \in Seq(S)
      BY <1>1, <1>3, <3>1
    <3>3. /\ vs \in Seq(S) /\ Len(vs) = Len(rs) + Len(more)
          /\ \A i \in 1..Len(rs) : vs[i] = rs[i]
          /\ \A i \in 1..Len(more) : Len(rs) + i \in DOMAIN vs /\ vs[Len(rs) + i] = more[i]
      BY <2>1, <3>2, JoinIs
    <3> QED BY <3>1, <3>3
  <2> QED BY <1>0, <1>1, <1>3, <2>2
<1>6. WalkInput(h, vs, skip)
  <2>1. known \in SUBSET Nat
    BY <1>0, <1>18
  <2>2. skip \in [0..Len(h) -> SUBSET Nat]
    BY <2>1
  <2>3. Len(vs) <= Width + Len(h)
    BY <1>0, <1>5
  <2> HIDE DEF skip
  <2> QED BY <1>5, <2>2, <2>3 DEF WalkInput
<1>7. /\ q \in Seq(1..Len(h)) /\ Len(q) <= Len(h)
      /\ \A i \in DOMAIN vs : vs[i] \in {Nil} \cup Range(q) \cup skip[Len(q)]
      /\ \A v \in Range(q), i \in Slots :
           h[v].slots[i] \in {Nil} \cup Range(q) \cup skip[Len(q)]
      /\ \A C : /\ \A i \in DOMAIN vs : vs[i] \in {Nil} \cup C
                /\ \A v \in C, i \in Slots : h[v].slots[i] \in {Nil} \cup C
                => Range(q) \subseteq C
  <2> HIDE DEF skip
  <2>1. PICK x : x = q
    OBVIOUS
  <2>2. /\ x \in Seq(1..Len(h)) /\ Distinct(x) /\ Len(x) <= Len(h)
        /\ \A i \in DOMAIN vs : vs[i] \in {Nil} \cup Range(x) \cup skip[Len(x)]
        /\ \A v \in Range(x), i \in Slots :
             h[v].slots[i] \in {Nil} \cup Range(x) \cup skip[Len(x)]
        /\ \A C : /\ \A i \in DOMAIN vs : vs[i] \in {Nil} \cup C
                  /\ \A v \in C, i \in Slots : h[v].slots[i] \in {Nil} \cup C
                  => Range(x) \subseteq C
    BY <1>6, <2>1, WalkDone
  <2> HIDE DEF q
  <2> QED BY <2>1, <2>2
<1>8. skip[Len(q)] = known /\ visited = Range(q)
  <2> HIDE DEF q
  <2>1. Len(q) \in 0..Len(h)
    BY <1>0, <1>7
  <2>2. visited = Range(q)
    BY <1>16, <1>17 DEF Visited, q, skip
  <2> QED BY <2>1, <2>2
<1> HIDE DEF q, skip
<1>9. DOMAIN vs = 1..(Width + Len(h)) /\ Slots \subseteq DOMAIN vs
  <2>1. DOMAIN vs = 1..(Width + Len(h))
    BY <1>5
  <2>2. \A i \in 1..Width : i \in 1..(Width + Len(h))
    BY <1>0
  <2> QED BY <1>1, <2>1, <2>2
<1>10. \A i \in DOMAIN vs : i \in Slots \/ \E v \in DOMAIN h : i = Width + v
  <2> SUFFICES ASSUME NEW i \in 1..(Width + Len(h)), ~(i \in 1..Width)
               PROVE  \E v \in 1..Len(h) : i = Width + v
    BY <1>0, <1>1, <1>9
  <2>1. i - Width \in 1..Len(h) /\ i = Width + (i - Width)
    BY <1>0
  <2> QED BY <2>1
<1>11. visited \subseteq K
  <2>1. ASSUME NEW i \in DOMAIN vs
        PROVE  vs[i] \in {Nil} \cup K
    <3>1. CASE i \in Slots
      BY <1>5, <3>1 DEF Closed
    <3>2. CASE \E v \in DOMAIN h : i = Width + v
      <4>1. PICK v \in DOMAIN h : i = Width + v
        BY <3>2
      <4>2. vs[i] = more[v]
        BY <1>5, <4>1
      <4>3. more[v] \in {Nil} \cup K
        BY <1>4
      <4> QED BY <4>2, <4>3
    <3> QED BY <1>10, <3>1, <3>2
  <2>2. \A v \in K, i \in Slots : h[v].slots[i] \in {Nil} \cup K
    BY DEF Closed
  <2> QED BY <1>7, <1>8, <2>1, <2>2
<1> DEFINE C == {v \in K : v \in visited \/ (v \in DOMAIN s.idOf /\ v \notin s.dirty)}
<1>12. ASSUME NEW v \in s.dirty
       PROVE  v \in visited
  <2>1. v \in DOMAIN h /\ vs[Width + v] = v /\ Width + v \in DOMAIN vs
    BY <1>0, <1>4, <1>5
  <2>2. v \notin known /\ v # Nil
    BY <1>0, <1>18, <2>1 DEF Nil
  <2>3. PICK i \in DOMAIN vs : vs[i] = v
    BY <2>1
  <2>4. vs[i] \in {Nil} \cup visited \cup known
    BY <1>7, <1>8
  <2> QED BY <2>2, <2>3, <2>4
<1>13. ASSUME NEW x \in {Nil} \cup K, x \in {Nil} \cup visited \cup DOMAIN s.idOf
       PROVE  x \in {Nil} \cup C
  BY <1>12, <1>13
<1>14. Closed(C, h, rs)
  <2>1. C \in SUBSET DOMAIN h
    BY DEF Closed
  <2>2. ASSUME NEW i \in Slots
        PROVE  rs[i] \in {Nil} \cup C
    <3>1. rs[i] \in {Nil} \cup K
      BY DEF Closed
    <3>2. rs[i] \in {Nil} \cup visited \cup known
      BY <1>5, <1>7, <1>8, <1>9
    <3> HIDE DEF C
    <3> QED BY <1>13, <1>18, <3>1, <3>2
  <2>3. ASSUME NEW v \in C, NEW i \in Slots
        PROVE  h[v].slots[i] \in {Nil} \cup C
    <3>1. v \in K /\ h[v].slots[i] \in {Nil} \cup K
      BY DEF Closed
    <3>2. h[v].slots[i] \in {Nil} \cup visited \cup DOMAIN s.idOf
      <4>1. CASE v \in visited
        BY <1>7, <1>8, <1>18, <4>1
      <4>2. CASE v \in DOMAIN s.idOf /\ v \notin s.dirty
        BY <3>1, <4>2 DEF Keeps
      <4> QED BY <4>1, <4>2
    <3> HIDE DEF C
    <3> QED BY <1>13, <3>1, <3>2
  <2> HIDE DEF C
  <2> QED BY <2>1, <2>2, <2>3 DEF Closed
<1>15. Reach(h, rs) \subseteq C
  <2> HIDE DEF C
  <2> QED BY <1>14, ReachIs
<1> QED BY <1>11, <1>15

\* What is not shipped: the peer holds it, by the name it has.
LEMMA SelectIs ==
  ASSUME mode \in {"tracked", "exact", "rescan"},
         NEW s, NEW t \in Tier, NEW h, Graph(h), NEW full, Sound(s, t, h, mode, full),
         NEW rs \in Roots(h), NEW K, Closed(K, h, rs), s.dirty \subseteq K,
         NEW u, NEW g, Keeps(K, s, h, u, g, mode), NEW q, q = Select(s, h, rs)
  PROVE  /\ \E vs \in SUBSET DOMAIN h : q.s = WithNames(s, vs)
         /\ \A v \in Reach(h, rs) :
              /\ Owns(q.s, v)
              /\ q.s.idOf[v] \notin q.ship => Mirrors(u, g, q.s.idOf[v], Holds(q.s, h, v))
         /\ q.ship \subseteq DOMAIN q.s.store /\ IsFiniteSet(q.ship)
<1> DEFINE R == Reach(h, rs)
<1>0. R \subseteq K /\ K \in SUBSET DOMAIN h /\ R \in SUBSET DOMAIN h
  BY ReachIs DEF Closed
<1>1. \A v \in K : v \in DOMAIN s.idOf => Owns(s, v)
  BY DEF Keeps
<1> HIDE DEF R
<1>2. ASSUME NEW vs \in SUBSET DOMAIN h, NEW n, n = WithNames(s, vs)
      PROVE  /\ n.seen = s.seen /\ n.dirty = s.dirty /\ n.peerVer = s.peerVer
             /\ DOMAIN n.idOf = DOMAIN s.idOf \cup vs
             /\ \A v \in DOMAIN s.idOf : n.idOf[v] = s.idOf[v] /\ (Owns(s, v) => Owns(n, v))
             /\ \A v \in vs \ DOMAIN s.idOf : Owns(n, v) /\ n.idOf[v] \notin DOMAIN s.store
  <2>1. PICK how : how = mode
    OBVIOUS
  <2>2. Sound(s, t, h, how, full)
    BY <2>1
  <2> QED BY <1>2, <2>2, NamedSound
<1>3. ASSUME NEW vs \in SUBSET DOMAIN h, NEW n, n = WithNames(s, vs), NEW v \in K,
             v \in DOMAIN n.idOf
      PROVE  Owns(n, v)
  <2>1. CASE v \in DOMAIN s.idOf
    BY <1>1, <1>2, <1>3, <2>1
  <2>2. CASE v \notin DOMAIN s.idOf
    BY <1>2, <1>3, <2>2
  <2> QED BY <2>1, <2>2
<1>4. ASSUME mode # "rescan", NEW vs \in SUBSET DOMAIN h, NEW n, n = WithNames(s, vs),
             NEW v \in K, v \in DOMAIN s.idOf, v \notin s.dirty
      PROVE  Mirrors(u, g, n.idOf[v], Holds(n, h, v))
  <2>1. /\ Mirrors(u, g, s.idOf[v], Holds(s, h, v))
        /\ \A i \in Slots : h[v].slots[i] \in {Nil} \cup DOMAIN s.idOf
    BY <1>4 DEF Keeps
  <2>2. /\ n.idOf[v] = s.idOf[v] /\ DOMAIN n.idOf = DOMAIN s.idOf \cup vs
        /\ \A x \in DOMAIN s.idOf : n.idOf[x] = s.idOf[x]
    BY <1>2, <1>4
  <2>3. Nil \notin DOMAIN s.idOf /\ Nil \notin DOMAIN n.idOf
    <3>1. Nil \notin DOMAIN h
      BY DEF Graph, Nil
    <3> QED BY <2>2, <3>1 DEF Sound
  <2>4. \A i \in Slots : IdOf(s, h[v].slots[i]) = IdOf(n, h[v].slots[i])
    BY <2>1, <2>2, <2>3 DEF IdOf
  <2>5. Holds(s, h, v) = Holds(n, h, v)
    BY <2>4, SameHolds
  <2> QED BY <2>1, <2>2, <2>5
<1>5. ASSUME NEW vs \in SUBSET DOMAIN h, NEW n, NEW S, S = {n.idOf[v] : v \in vs}
      PROVE  IsFiniteSet(S) /\ \A T : T \subseteq S => IsFiniteSet(T)
  <2>1. IsFiniteSet(vs)
    BY ReachFinite
  <2> DEFINE f == [v \in vs |-> n.idOf[v]]
  <2>3. Range(f) = S /\ DOMAIN f = vs
    BY <1>5 DEF Range
  <2>4. f \in [vs -> S]
    BY <1>5
  <2> HIDE DEF f
  <2>5. f \in Surjection(vs, S)
    BY <2>3, <2>4 DEF Surjection, Range
  <2>2. IsFiniteSet(S)
    BY <2>1, <2>5, FS_Surjection
  <2> QED BY <2>2, FS_Subset
<1>6. CASE mode = "tracked"
  <2>0. PICK visited : visited = Visited(s, h, rs)
    OBVIOUS
  <2> DEFINE n == WithNames(s, visited)
  <2>1. q.s = n /\ q.ship = {n.idOf[v] : v \in visited}
    BY <1>6, <2>0 DEF Select, SelectDirty, ShipFrom, Visited, Starts, Unwritten
  <2>2. /\ visited \subseteq K
        /\ \A v \in Reach(h, rs) : v \in visited \/ (v \in DOMAIN s.idOf /\ v \notin s.dirty)
    <3>1. PICK how : how = mode
      OBVIOUS
    <3>2. how # "rescan" /\ Sound(s, t, h, how, full) /\ Keeps(K, s, h, u, g, how)
      BY <1>6, <3>1
    <3> QED BY <2>0, <3>2, ShippedIs
  <2>3. PICK m : m = n
    OBVIOUS
  <2>4. m = WithNames(s, visited) /\ visited \in SUBSET DOMAIN h
    BY <1>0, <2>2, <2>3
  <2>5. q.s = m /\ q.ship = {m.idOf[v] : v \in visited}
    BY <2>1, <2>3
  <2> HIDE DEF n
  <2>6. DOMAIN m.idOf = DOMAIN s.idOf \cup visited
    BY <1>2, <2>4
  <2>7. ASSUME NEW v \in R
        PROVE  /\ Owns(m, v)
               /\ m.idOf[v] \notin q.ship => Mirrors(u, g, m.idOf[v], Holds(m, h, v))
    <3>1. v \in K /\ v \in DOMAIN m.idOf
      BY <1>0, <2>2, <2>6 DEF R
    <3>2. Owns(m, v)
      BY <1>3, <2>4, <3>1
    <3>3. v \in visited \/ (v \in DOMAIN s.idOf /\ v \notin s.dirty)
      BY <2>2 DEF R
    <3>4. m.idOf[v] \notin q.ship => v \notin visited
      BY <2>5
    <3>5. v \in DOMAIN s.idOf /\ v \notin s.dirty => Mirrors(u, g, m.idOf[v], Holds(m, h, v))
      BY <1>4, <1>6, <2>4, <3>1
    <3> QED BY <3>2, <3>3, <3>4, <3>5
  <2>8. q.ship \subseteq DOMAIN m.store
    <3>1. \A v \in visited : m.idOf[v] \in DOMAIN m.store
      BY <1>3, <2>2, <2>4, <2>6 DEF Owns
    <3> QED BY <2>5, <3>1
  <2>9. IsFiniteSet(q.ship)
    BY <1>5, <2>4, <2>5
  <2> QED BY <2>4, <2>5, <2>7, <2>8, <2>9 DEF R
<1>7. PICK n : n = WithNames(s, R)
  OBVIOUS
<1>8. Scan(s, h, rs) = n
  BY <1>7 DEF Scan, R
<1>9. /\ n.seen = s.seen /\ n.dirty = s.dirty /\ n.peerVer = s.peerVer
      /\ DOMAIN n.idOf = DOMAIN s.idOf \cup R
      /\ \A v \in DOMAIN s.idOf : n.idOf[v] = s.idOf[v]
      /\ \A v \in R \ DOMAIN s.idOf : n.idOf[v] \notin DOMAIN s.store
  BY <1>0, <1>2, <1>7
<1>10. \A v \in R : Owns(n, v)
  BY <1>0, <1>3, <1>7, <1>9
<1>11. CASE mode = "exact"
  <2>1. q.s = n /\ q.ship = {n.idOf[v] : v \in {w \in R : n.idOf[w] \notin n.seen \/ w \in n.dirty}}
    <3>1. q = SelectDirtyExact(s, h, rs)
      BY <1>11 DEF Select
    <3>2. q = [s |-> n, ship |-> {n.idOf[v] : v \in {w \in R :
                                               n.idOf[w] \notin n.seen \/ w \in n.dirty}}]
      BY <1>8, <3>1 DEF SelectDirtyExact, R
    <3> QED BY <3>2
  <2>2. ASSUME NEW v \in R, n.idOf[v] \notin q.ship
        PROVE  Mirrors(u, g, n.idOf[v], Holds(n, h, v))
    <3>1. n.idOf[v] \in n.seen /\ v \notin n.dirty
      BY <2>1, <2>2
    <3>2. n.idOf[v] \in DOMAIN s.store /\ v \notin s.dirty
      BY <1>9, <3>1 DEF Sound
    <3>3. v \in DOMAIN s.idOf
      BY <1>9, <3>2
    <3>4. v \in K /\ R \in SUBSET DOMAIN h
      BY <1>0
    <3> QED BY <1>4, <1>7, <1>11, <3>2, <3>3, <3>4
  <2>3. q.ship \subseteq {n.idOf[v] : v \in R} /\ q.ship \subseteq DOMAIN n.store
    BY <1>10, <2>1 DEF Owns
  <2>4. IsFiniteSet(q.ship)
    BY <1>0, <1>5, <2>3
  <2> QED BY <1>0, <1>7, <1>10, <2>1, <2>2, <2>3, <2>4 DEF R
<1>12. CASE mode = "rescan"
  <2> DEFINE ver == Versions(n, h, rs)
  <2>1. DOMAIN ver = {n.idOf[v] : v \in R} /\ \A v \in R : ver[n.idOf[v]] = Holds(n, h, v)
    BY <1>10 DEF Versions, R, Owns
  <2>2. /\ q.s = n
        /\ q.ship = {id \in DOMAIN ver : ~(id \in DOMAIN n.peerVer /\ n.peerVer[id] = ver[id])}
    <3>1. q = SelectChanged(s, h, rs)
      BY <1>12 DEF Select
    <3>2. q = [s |-> n, ship |-> {id \in DOMAIN ver : ~(id \in DOMAIN n.peerVer
                                                     /\ n.peerVer[id] = ver[id])}]
      BY <1>8, <3>1 DEF SelectChanged
    <3> HIDE DEF ver
    <3> QED BY <3>2
  <2> HIDE DEF ver
  <2>3. ASSUME NEW v \in R, n.idOf[v] \notin q.ship
        PROVE  Mirrors(u, g, n.idOf[v], Holds(n, h, v))
    <3>1. /\ n.idOf[v] \in DOMAIN s.peerVer
          /\ s.peerVer[n.idOf[v]] = Holds(n, h, v)
      BY <1>9, <2>1, <2>2, <2>3
    <3>2. n.idOf[v] \in DOMAIN s.store
      BY <1>12, <3>1 DEF Sound
    <3>3. v \in DOMAIN s.idOf /\ n.idOf[v] = s.idOf[v]
      BY <1>9, <3>2
    <3>4. Mirrors(u, g, s.idOf[v], s.peerVer[s.idOf[v]])
      BY <1>0, <1>12, <3>1, <3>3 DEF Keeps
    <3> QED BY <3>1, <3>3, <3>4
  <2>4. q.ship \subseteq {n.idOf[v] : v \in R} /\ q.ship \subseteq DOMAIN n.store
    BY <1>10, <2>1, <2>2 DEF Owns
  <2>5. IsFiniteSet(q.ship)
    BY <1>0, <1>5, <2>4
  <2> QED BY <1>0, <1>7, <1>10, <2>2, <2>3, <2>4, <2>5 DEF R
<1> QED BY <1>6, <1>11, <1>12

-----------------------------------------------------------------------------
(* The invariant                                                           *)

\* The two tiers, each with its objects and its session; no name is from beyond the counter of
\* the tier that gives such names.
TiersOK ==
  /\ mode \in Modes /\ holder \in Tier /\ fulls \in Nat
  /\ DOMAIN session = Tier /\ DOMAIN heap = Tier /\ DOMAIN roots = Tier
  /\ \A t \in Tier :
       /\ Graph(heap[t]) /\ roots[t] \in Roots(heap[t])
       /\ Sound(session[t], t, heap[t], mode, fulls)
       /\ \A id \in DOMAIN session[t].store :
            id[1] = Other(t) => id[2] < session[Other(t)].next

\* Only the tier that has the continuation has written since it last crossed.
Quiet == \A t \in Tier : session[t].dirty # {} => t = holder /\ wire = <<>>

\* The program may reach and has written no more than a closed part of the heap; what it has not
\* written there the other tier holds alike.
Rest(s, h, rs, u, g, how) ==
  \E K : Closed(K, h, rs) /\ s.dirty \subseteq K /\ Keeps(K, s, h, u, g, how)
AtRest ==
  wire = <<>> => Rest(session[holder], heap[holder], roots[holder],
                      session[Other(holder)], heap[Other(holder)], mode)

\* A frame under way carries what was sent: whole, or what the receiver does not hold.
Carries(m, s, h, rs, u, g, was, how, full) ==
  /\ was = <<[shape |-> Shape(h, rs), names |-> NamesOf(s, Order(h, rs))]>>
  /\ \A v \in Reach(h, rs) : Owns(s, v)
  /\ m.full => /\ full # 0 /\ how # "rescan" /\ m.graph = Shape(h, rs)
               /\ \A k \in DOMAIN Order(h, rs) : s.idOf[Order(h, rs)[k]] = <<"@", k - 1>>
  /\ ~m.full => /\ m.roots = NamesOf(s, rs)
                /\ m.records \in Partial(Name, Hold) /\ IsFiniteSet(DOMAIN m.records)
                /\ DOMAIN m.records \subseteq DOMAIN s.store
                /\ \A v \in Reach(h, rs) :
                     IF s.idOf[v] \in DOMAIN m.records
                     THEN m.records[s.idOf[v]] = Holds(s, h, v)
                     ELSE Mirrors(u, g, s.idOf[v], Holds(s, h, v))
InFlight ==
  wire # <<>> =>
    \E m : /\ wire = <<m>>
           /\ Carries(m, session[holder], heap[holder], roots[holder],
                      session[Other(holder)], heap[Other(holder)], sent, mode, fulls)

DeltaInv == TiersOK /\ Quiet /\ AtRest /\ InFlight /\ Agree /\ NamesAgree

\* There are two tiers.
LEMMA OtherIs ==
  ASSUME NEW t \in Tier
  PROVE  /\ Other(t) \in Tier /\ Other(t) # t /\ Other(Other(t)) = t
         /\ \A x \in Tier : x = t \/ x = Other(t)
BY DEF Tier, Other

\* A step that changes one tier only.
Updated(t, n, h, rs) ==
  /\ DOMAIN session' = Tier /\ DOMAIN heap' = Tier /\ DOMAIN roots' = Tier
  /\ session'[t] = n /\ heap'[t] = h /\ roots'[t] = rs
  /\ session'[Other(t)] = session[Other(t)] /\ heap'[Other(t)] = heap[Other(t)]
  /\ roots'[Other(t)] = roots[Other(t)]

\* A tier that is left as it was stays sound when the other tier's step is.
LEMMA TierUpdated ==
  ASSUME TiersOK, NEW t \in Tier, NEW n, NEW h, NEW rs, Updated(t, n, h, rs),
         mode' = mode, holder' \in Tier, fulls' \in Nat, fulls' = 0 => fulls = 0,
         Sound(n, t, h, mode, fulls'), Graph(h), rs \in Roots(h), session[t].next <= n.next,
         \A id \in DOMAIN n.store : id[1] = Other(t) => id[2] < session[Other(t)].next
  PROVE  TiersOK'
<1> DEFINE u == Other(t)
<1>1. u \in Tier /\ u # t /\ Other(u) = t /\ \A x \in Tier : x = t \/ x = u
  BY OtherIs
<1> HIDE DEF u
<1>2. /\ session'[t] = n /\ heap'[t] = h /\ roots'[t] = rs
      /\ session'[u] = session[u] /\ heap'[u] = heap[u] /\ roots'[u] = roots[u]
  BY DEF Updated, u
<1>3. /\ Graph(heap[u]) /\ roots[u] \in Roots(heap[u]) /\ Sound(session[u], u, heap[u], mode, fulls)
      /\ \A id \in DOMAIN session[u].store : id[1] = t => id[2] < session[t].next
      /\ Sound(session[t], t, heap[t], mode, fulls)
  BY <1>1 DEF TiersOK
<1>4. Sound(session[u], u, heap[u], mode, fulls')
  BY <1>3 DEF Sound
<1>5. ASSUME NEW id \in DOMAIN session[u].store, id[1] = t
      PROVE  id[2] < n.next
  <2>1. id[2] < session[t].next
    BY <1>3, <1>5
  <2>2. id \in Name
    <3>1. session[u].store \in Partial(Name, Nat)
      BY <1>3 DEF Sound, Sessions
    <3> QED BY <3>1, PartialIs
  <2>3. id[2] \in Nat
    BY <2>2 DEF Name
  <2>4. n.next \in Nat /\ session[t].next \in Nat
    BY <1>3 DEF Sound, Sessions
  <2> QED BY <2>1, <2>3, <2>4
<1>6. ASSUME NEW x \in Tier
      PROVE  /\ Graph(heap'[x]) /\ roots'[x] \in Roots(heap'[x])
             /\ Sound(session'[x], x, heap'[x], mode, fulls')
             /\ \A id \in DOMAIN session'[x].store :
                  id[1] = Other(x) => id[2] < session'[Other(x)].next
  <2>1. CASE x = t
    <3>1. Other(x) = u
      BY <2>1 DEF u
    <3>2. \A id \in DOMAIN n.store : id[1] = u => id[2] < session[u].next
      BY DEF u
    <3> QED BY <1>2, <2>1, <3>1, <3>2
  <2>2. CASE x = u
    BY <1>1, <1>2, <1>3, <1>4, <1>5, <2>2
  <2> QED BY <1>1, <2>1, <2>2
<1>7. mode' \in Modes /\ DOMAIN session' = Tier /\ DOMAIN heap' = Tier /\ DOMAIN roots' = Tier
  BY DEF TiersOK, Updated
<1> QED BY <1>6, <1>7 DEF TiersOK

-----------------------------------------------------------------------------
(* The program's steps                                                     *)

\* Nothing has been named when the program starts.
LEMMA DeltaInitInv == DeltaInit => DeltaInv
<1> SUFFICES ASSUME DeltaInit
             PROVE  DeltaInv
  OBVIOUS
<1>1. Width \in Nat /\ 1 \in Slots
  BY DeltaAssumption DEF Slots
<1>2. <<>> \in Partial(Nat, Name) /\ <<>> \in Partial(Name, Nat) /\ <<>> \in Partial(Name, Hold)
  <2>1. ASSUME NEW S, NEW T
        PROVE  <<>> \in Partial(S, T)
    <3>1. DOMAIN <<>> = {} /\ <<>> = [x \in {} |-> 0]
      OBVIOUS
    <3>2. <<>> \in [{} -> T]
      BY <3>1
    <3> QED BY <3>1, <3>2, PartialIs
  <2> QED BY <2>1
<1>3. ASSUME NEW t \in Tier
      PROVE  /\ session[t] = NewSession(t) /\ NewSession(t) \in Sessions
             /\ NewSession(t).tier = t /\ NewSession(t).seen = {} /\ NewSession(t).dirty = {}
             /\ NewSession(t).idOf = <<>> /\ NewSession(t).store = <<>>
             /\ NewSession(t).peerVer = <<>>
  BY <1>2 DEF DeltaInit, NewSession, Sessions
<1>4. DOMAIN <<>> = {}
  OBVIOUS
<1>5. ASSUME NEW t \in Tier, NEW h
      PROVE  Sound(session[t], t, h, mode, fulls)
  BY <1>3, <1>4 DEF Sound, Indexed, Below
<1>6. ASSUME NEW t \in Tier
      PROVE  Graph(heap[t]) /\ roots[t] \in Roots(heap[t])
             /\ Closed(DOMAIN heap[t], heap[t], roots[t])
  <2>1. CASE t = "server"
    <3> DEFINE a == [Empty EXCEPT !.slots[1] = 2]
    <3>1. heap[t] = <<a, Empty>> /\ roots[t] = [i \in Slots |-> IF i <= 2 THEN i ELSE Nil]
      BY <2>1 DEF DeltaInit
    <3>2. a \in Node(2) /\ Empty \in Node(2)
      BY <1>1 DEF Empty, Node, Nil
    <3>3. Len(heap[t]) = 2 /\ DOMAIN heap[t] = 1..2 /\ heap[t] \in Seq(Node(2))
          /\ heap[t][1] = a /\ heap[t][2] = Empty
      <4> HIDE DEF a
      <4> QED BY <3>1, <3>2
    <3>4. Graph(heap[t])
      BY <3>3 DEF Graph
    <3>5. \A i \in Slots : roots[t][i] \in {Nil} \cup (1..2)
      BY <1>1, <3>1 DEF Slots, Nil
    <3>6. roots[t] \in Roots(heap[t])
      <4>1. \A i \in Slots : roots[t][i] \in 0..2
        BY <3>5 DEF Nil
      <4> QED BY <3>1, <3>3, <4>1 DEF Roots
    <3>7. \A v \in 1..2, i \in Slots : heap[t][v].slots[i] \in {Nil} \cup (1..2)
      <4>1. \A x \in Node(2), i \in Slots : x.slots[i] \in 0..2
        BY DEF Node
      <4>2. \A v \in 1..2 : heap[t][v] \in Node(2)
        BY <3>2, <3>3
      <4>3. 0..2 = {Nil} \cup (1..2)
        BY DEF Nil
      <4> QED BY <4>1, <4>2, <4>3
    <3> QED BY <3>3, <3>4, <3>5, <3>6, <3>7 DEF Closed
  <2>2. CASE t # "server"
    <3>1. heap[t] = <<>> /\ roots[t] = [i \in Slots |-> Nil]
      BY <2>2 DEF DeltaInit
    <3>2. Len(heap[t]) = 0 /\ DOMAIN heap[t] = {} /\ heap[t] \in Seq(Node(0))
      BY <3>1
    <3> QED BY <3>1, <3>2 DEF Graph, Roots, Closed, Nil
  <2> QED BY <2>1, <2>2
<1>7. TiersOK
  <2>1. /\ mode \in Modes /\ holder \in Tier /\ fulls \in Nat
        /\ DOMAIN session = Tier /\ DOMAIN heap = Tier /\ DOMAIN roots = Tier
    BY DEF DeltaInit, Tier
  <2>2. \A t \in Tier : DOMAIN session[t].store = {}
    BY <1>3, <1>4
  <2> QED BY <1>5, <1>6, <2>1, <2>2 DEF TiersOK
<1>8. Quiet
  BY <1>3 DEF Quiet
<1>9. AtRest
  <2>1. holder \in Tier /\ session[holder].dirty = {} /\ DOMAIN session[holder].idOf = {}
    BY <1>3, <1>4, <1>7 DEF TiersOK
  <2>2. Closed(DOMAIN heap[holder], heap[holder], roots[holder])
    BY <1>6, <2>1
  <2> QED BY <2>1, <2>2 DEF AtRest, Rest, Keeps
<1>10. wire = <<>> /\ sent = <<>>
  BY DEF DeltaInit
<1> QED BY <1>7, <1>8, <1>9, <1>10 DEF DeltaInv, InFlight, Agree, NamesAgree, Delivered

\* A heap after a write to o, in the closed part K: o refers to it or to new objects, and those
\* to nothing.
Written(o, K, h, g) ==
  /\ Graph(g) /\ Len(h) <= Len(g)
  /\ \A v \in DOMAIN h : v # o => g[v] = h[v]
  /\ \A i \in Slots : g[o].slots[i] \in {Nil} \cup K \cup (DOMAIN g \ DOMAIN h)
  /\ \A v \in DOMAIN g \ DOMAIN h, i \in Slots : g[v].slots[i] = Nil

\* What the program can write has been named by nobody or is dirty now.
LEMMA WrittenRest ==
  ASSUME NEW t \in Tier, NEW s, NEW h, Graph(h), NEW how, NEW full, Sound(s, t, h, how, full),
         NEW rs, NEW u, NEW g, NEW K, Closed(K, h, rs), s.dirty \subseteq K,
         Keeps(K, s, h, u, g, how), NEW o \in K, NEW k, Written(o, K, h, k),
         NEW n, n \in Sessions, n.idOf = s.idOf, n.store = s.store, n.peerVer = s.peerVer,
         n.seen = s.seen, n.tier = s.tier, n.next = s.next,
         n.dirty = IF how = "rescan" THEN s.dirty ELSE s.dirty \cup {o}
  PROVE  Rest(n, k, rs, u, g, how) /\ Sound(n, t, k, how, full)
<1> DEFINE new == DOMAIN k \ DOMAIN h
           L == K \cup new
<1>1. /\ Len(h) \in Nat /\ Len(k) \in Nat /\ DOMAIN h = 1..Len(h) /\ DOMAIN k = 1..Len(k)
      /\ Len(h) <= Len(k)
  BY DEF Graph, Written
<1>2. DOMAIN h \subseteq DOMAIN k
  BY <1>1
<1>3. K \subseteq DOMAIN h /\ DOMAIN s.idOf \subseteq DOMAIN h
  BY DEF Closed, Sound
<1>4. Closed(L, k, rs)
  <2>1. L \in SUBSET DOMAIN k
    BY <1>2, <1>3
  <2>2. \A i \in Slots : rs[i] \in {Nil} \cup L
    BY DEF Closed
  <2>3. ASSUME NEW v \in L, NEW i \in Slots
        PROVE  k[v].slots[i] \in {Nil} \cup L
    <3>1. CASE v = o
      BY <3>1 DEF Written
    <3>2. CASE v \in new
      BY <3>2 DEF Written
    <3>3. CASE v # o /\ v \in K
      BY <1>3, <3>3 DEF Written, Closed
    <3> QED BY <3>1, <3>2, <3>3
  <2> HIDE DEF L
  <2> QED BY <2>1, <2>2, <2>3 DEF Closed
<1>5. n.dirty \subseteq K
  OBVIOUS
<1>6. Keeps(L, n, k, u, g, how)
  <2> SUFFICES ASSUME NEW v \in L, v \in DOMAIN s.idOf
               PROVE  /\ Owns(n, v)
                      /\ how = "rescan" => (n.idOf[v] \in DOMAIN n.peerVer =>
                           Mirrors(u, g, n.idOf[v], n.peerVer[n.idOf[v]]))
                      /\ how # "rescan" => (v \notin n.dirty =>
                           /\ Mirrors(u, g, n.idOf[v], Holds(n, k, v))
                           /\ \A i \in Slots : k[v].slots[i] \in {Nil} \cup DOMAIN n.idOf)
    BY DEF Keeps
  <2>1. v \in K
    BY <1>3
  <2>2. Owns(n, v)
    BY <2>1 DEF Keeps, Owns
  <2>3. how = "rescan" => (n.idOf[v] \in DOMAIN n.peerVer =>
                             Mirrors(u, g, n.idOf[v], n.peerVer[n.idOf[v]]))
    BY <2>1 DEF Keeps
  <2>4. ASSUME how # "rescan", v \notin n.dirty
        PROVE  /\ Mirrors(u, g, n.idOf[v], Holds(n, k, v))
               /\ \A i \in Slots : k[v].slots[i] \in {Nil} \cup DOMAIN n.idOf
    <3>1. v # o /\ v \notin s.dirty
      BY <2>4
    <3>2. k[v] = h[v]
      BY <1>3, <2>1, <3>1 DEF Written
    <3>3. Holds(n, k, v) = Holds(s, h, v)
      BY <3>2 DEF Holds, IdOf
    <3>4. /\ Mirrors(u, g, s.idOf[v], Holds(s, h, v))
          /\ \A i \in Slots : h[v].slots[i] \in {Nil} \cup DOMAIN s.idOf
      BY <2>1, <2>4, <3>1 DEF Keeps
    <3> QED BY <3>2, <3>3, <3>4
  <2> QED BY <2>2, <2>3, <2>4
<1>7. Rest(n, k, rs, u, g, how)
  <2>1. n.dirty \subseteq L
    BY <1>5
  <2> HIDE DEF L
  <2> QED BY <1>4, <1>6, <2>1 DEF Rest
<1>8. Sound(n, t, k, how, full)
  <2>1. n.dirty \subseteq DOMAIN k /\ DOMAIN n.idOf \subseteq DOMAIN k
    BY <1>2, <1>3, <1>5
  <2>2. Indexed(n) /\ Below(n)
    BY DEF Sound, Indexed, Below
  <2>3. how = "rescan" => n.dirty = {} /\ DOMAIN n.peerVer \subseteq DOMAIN n.store
    BY DEF Sound
  <2>4. full = 0 => \A v \in DOMAIN n.idOf : n.idOf[v][1] # "@"
    BY DEF Sound
  <2>5. n.tier = t /\ n.seen \subseteq DOMAIN n.store
    BY DEF Sound
  <2> QED BY <2>1, <2>2, <2>3, <2>4, <2>5 DEF Sound
<1> QED BY <1>7, <1>8

\* What the program holds is in every closed part.
LEMMA HeldIs ==
  ASSUME TiersOK
  PROVE  /\ holder \in Tier /\ Other(holder) \in Tier /\ Graph(heap[holder])
         /\ roots[holder] \in Roots(heap[holder]) /\ Held \subseteq DOMAIN heap[holder]
         /\ \A K : Closed(K, heap[holder], roots[holder]) => Held \subseteq K
<1>1. /\ holder \in Tier /\ Other(holder) \in Tier /\ Graph(heap[holder])
      /\ roots[holder] \in Roots(heap[holder])
  BY OtherIs DEF TiersOK
<1>2. /\ Closed(Reach(heap[holder], roots[holder]), heap[holder], roots[holder])
      /\ \A K : Closed(K, heap[holder], roots[holder])
                  => Reach(heap[holder], roots[holder]) \subseteq K
  BY <1>1, ReachIs
<1> QED BY <1>1, <1>2 DEF Held, Closed

\* A reported write to an object the program holds keeps the invariant, if the heap is as before
\* but for that object, and the object refers to held or to new objects.
LEMMA WritesInv ==
  ASSUME DeltaInv, NEW o \in Held, NEW k, Writes(o, k), Written(o, Held, heap[holder], k)
  PROVE  DeltaInv'
<1>1. TiersOK /\ Quiet /\ wire = <<>> /\ AtRest
  BY DEF DeltaInv, Writes
<1>2. PICK t : t = holder
  OBVIOUS
<1>3. PICK s : s = session[t]
  OBVIOUS
<1>4. PICK h : h = heap[t]
  OBVIOUS
<1>5. PICK n : n = [s EXCEPT !.dirty = IF mode = "rescan" THEN @ ELSE @ \cup {o}]
  OBVIOUS
<1>6. /\ t \in Tier /\ Other(t) \in Tier /\ Graph(h) /\ roots[t] \in Roots(h)
      /\ Held \subseteq DOMAIN h /\ \A K : Closed(K, h, roots[t]) => Held \subseteq K
  BY <1>1, <1>2, <1>4, HeldIs
<1>7. Sound(s, t, h, mode, fulls) /\ s \in Sessions
  BY <1>1, <1>3, <1>4, <1>6 DEF TiersOK, Sound
<1>8. /\ session' = [session EXCEPT ![t] = n] /\ heap' = [heap EXCEPT ![t] = k]
      /\ mode' = mode /\ roots' = roots /\ holder' = holder /\ wire' = wire /\ fulls' = fulls
      /\ sent' = <<>>
  BY <1>2, <1>3, <1>5 DEF Writes, Touch
<1>9. /\ n.idOf = s.idOf /\ n.store = s.store /\ n.peerVer = s.peerVer /\ n.seen = s.seen
      /\ n.tier = s.tier /\ n.next = s.next
      /\ n.dirty = IF mode = "rescan" THEN s.dirty ELSE s.dirty \cup {o}
  BY <1>5, <1>7 DEF Sessions
<1>10. n \in Sessions
  <2>1. o \in Nat
    BY <1>6 DEF Graph
  <2> QED BY <1>5, <1>7, <1>9, <2>1 DEF Sessions
<1>11. PICK K : /\ Closed(K, h, roots[t]) /\ s.dirty \subseteq K
                /\ Keeps(K, s, h, session[Other(t)], heap[Other(t)], mode)
  BY <1>1, <1>2, <1>3, <1>4 DEF AtRest, Rest
<1>12. Held \subseteq K
  BY <1>6, <1>11
<1>13. Written(o, K, h, k) /\ Graph(k)
  <2>1. Written(o, Held, h, k)
    BY <1>2, <1>4
  <2> QED BY <1>12, <2>1 DEF Written
<1>14. /\ Rest(n, k, roots[t], session[Other(t)], heap[Other(t)], mode)
       /\ Sound(n, t, k, mode, fulls)
  <2>1. PICK how : how = mode
    OBVIOUS
  <2>2. PICK u : u = session[Other(t)]
    OBVIOUS
  <2>3. PICK g : g = heap[Other(t)]
    OBVIOUS
  <2>4. PICK rs : rs = roots[t]
    OBVIOUS
  <2>5. PICK full : full = fulls
    OBVIOUS
  <2>6. /\ Sound(s, t, h, how, full) /\ Closed(K, h, rs) /\ Keeps(K, s, h, u, g, how)
        /\ n.dirty = IF how = "rescan" THEN s.dirty ELSE s.dirty \cup {o}
        /\ o \in K
    BY <1>7, <1>9, <1>11, <1>12, <2>1, <2>2, <2>3, <2>4, <2>5
  <2>7. Rest(n, k, rs, u, g, how) /\ Sound(n, t, k, how, full)
    BY <1>6, <1>9, <1>10, <1>11, <1>13, <2>6, WrittenRest
  <2> QED BY <2>1, <2>2, <2>3, <2>4, <2>5, <2>7
<1>15. PICK rs : rs = roots[t]
  OBVIOUS
<1>16. Updated(t, n, k, rs)
  BY <1>1, <1>6, <1>8, <1>15, OtherIs DEF Updated, TiersOK
<1>17. rs \in Roots(k)
  <2>1. Len(h) \in Nat /\ Len(k) \in Nat /\ Len(h) <= Len(k)
    BY <1>6, <1>13 DEF Written, Graph
  <2>2. 0..Len(h) \subseteq 0..Len(k)
    BY <2>1
  <2> QED BY <1>6, <1>15, <2>2 DEF Roots
<1>18. TiersOK'
  <2>1. \A id \in DOMAIN n.store : id[1] = Other(t) => id[2] < session[Other(t)].next
    BY <1>1, <1>3, <1>6, <1>9 DEF TiersOK
  <2>2. session[t].next <= n.next
    BY <1>3, <1>7, <1>9 DEF Sessions
  <2>3. /\ mode' = mode /\ holder' \in Tier /\ fulls' \in Nat /\ (fulls' = 0 => fulls = 0)
        /\ Sound(n, t, k, mode, fulls')
    BY <1>1, <1>8, <1>14 DEF TiersOK
  <2> QED BY <1>1, <1>6, <1>13, <1>16, <1>17, <2>1, <2>2, <2>3, TierUpdated
<1>19. Quiet'
  <2>1. \A x \in Tier : x = t \/ x = Other(t)
    BY <1>6, OtherIs
  <2>2. session'[Other(t)].dirty = {}
    BY <1>1, <1>2, <1>6, <1>16, OtherIs DEF Quiet, Updated
  <2> QED BY <1>1, <1>2, <1>8, <2>1, <2>2 DEF Quiet
<1>20. AtRest'
  <2>1. /\ session'[t] = n /\ heap'[t] = k /\ roots'[t] = roots[t]
        /\ session'[Other(t)] = session[Other(t)] /\ heap'[Other(t)] = heap[Other(t)]
    BY <1>15, <1>16 DEF Updated
  <2> QED BY <1>2, <1>8, <1>14, <2>1 DEF AtRest
<1> QED BY <1>1, <1>8, <1>18, <1>19, <1>20 DEF DeltaInv, InFlight, Agree, NamesAgree, Delivered

Replaced(h, o, c) == [h EXCEPT ![o] = c]
Linked(c, i, x) == [c EXCEPT !.slots[i] = x]

\* A heap with one object replaced, and possibly one without contents appended.
LEMMA ReplacedIs ==
  ASSUME NEW h, Graph(h), NEW o \in DOMAIN h, NEW m \in Nat, Len(h) <= m, NEW c \in Node(m),
         NEW r, r = Replaced(h, o, c)
  PROVE  /\ r \in Seq(Node(m)) /\ Len(r) = Len(h) /\ DOMAIN r = DOMAIN h
         /\ r[o] = c /\ \A v \in DOMAIN h : v # o => r[v] = h[v]
<1>1. Len(h) \in Nat /\ DOMAIN h = 1..Len(h) /\ h \in Seq(Node(Len(h)))
  BY DEF Graph
<1>2. Node(Len(h)) \subseteq Node(m)
  <2>1. 0..Len(h) \subseteq 0..m
    BY <1>1
  <2>2. \A A, B : A \subseteq B => [Slots -> A] \subseteq [Slots -> B]
    OBVIOUS
  <2>3. [Slots -> 0..Len(h)] \subseteq [Slots -> 0..m]
    BY <2>1, <2>2
  <2> QED BY <2>3 DEF Node
<1>3. h \in [1..Len(h) -> Node(m)]
  BY <1>1, <1>2
<1>4. r \in [1..Len(h) -> Node(m)] /\ r[o] = c /\ \A v \in DOMAIN h : v # o => r[v] = h[v]
  BY <1>1, <1>3 DEF Replaced
<1>5. r \in Seq(Node(m)) /\ Len(r) = Len(h) /\ DOMAIN r = DOMAIN h
  BY <1>1, <1>4
<1> QED BY <1>4, <1>5

\* A slot of an object set to an object of the heap.
LEMMA SlotIs ==
  ASSUME NEW m \in Nat, NEW c \in Node(m), NEW i \in Slots, NEW x \in 0..m,
         NEW d, d = Linked(c, i, x)
  PROVE  d \in Node(m) /\ \A j \in Slots : d.slots[j] = IF j = i THEN x ELSE c.slots[j]
<1>1. c.slots \in [Slots -> 0..m] /\ c.val \in {0, 1} /\ c = [val |-> c.val, slots |-> c.slots]
  BY DEF Node
<1>2. d = [val |-> c.val, slots |-> [c.slots EXCEPT ![i] = x]]
  BY <1>1 DEF Linked
<1>3. [c.slots EXCEPT ![i] = x] \in [Slots -> 0..m]
  BY <1>1
<1> QED BY <1>1, <1>2, <1>3 DEF Node

\* So does a write of a datum,
LEMMA WriteInv ==
  ASSUME DeltaInv, Write
  PROVE  DeltaInv'
<1>1. PICK o \in Held : Writes(o, [heap[holder] EXCEPT ![o].val = 1 - @])
  BY DEF Write
<1>2. PICK h : h = heap[holder]
  OBVIOUS
<1>3. Graph(h) /\ Held \subseteq DOMAIN h /\ o \in DOMAIN h /\ Closed(Held, h, roots[holder])
  BY <1>2, HeldIs, ReachIs DEF DeltaInv, Held
<1>4. Len(h) \in Nat /\ h[o] \in Node(Len(h))
  BY <1>3 DEF Graph
<1>5. PICK c : c = [h[o] EXCEPT !.val = 1 - @]
  OBVIOUS
<1>6. c \in Node(Len(h)) /\ c.slots = h[o].slots
  <2>1. h[o].val \in {0, 1} /\ 1 - h[o].val \in {0, 1}
    BY <1>4 DEF Node
  <2> QED BY <1>4, <1>5, <2>1 DEF Node
<1>7. PICK k : k = Replaced(h, o, c)
  OBVIOUS
<1>8. k = [heap[holder] EXCEPT ![o].val = 1 - @]
  BY <1>2, <1>5, <1>7 DEF Replaced, Linked
<1>9. /\ k \in Seq(Node(Len(h))) /\ Len(k) = Len(h) /\ DOMAIN k = DOMAIN h
      /\ k[o] = c /\ \A v \in DOMAIN h : v # o => k[v] = h[v]
  BY <1>3, <1>4, <1>6, <1>7, ReplacedIs
<1>10. Written(o, Held, heap[holder], k)
  <2>1. Graph(k)
    BY <1>9 DEF Graph
  <2>2. \A i \in Slots : k[o].slots[i] \in {Nil} \cup Held
    BY <1>3, <1>6, <1>9 DEF Closed
  <2> QED BY <1>2, <1>4, <1>9, <2>1, <2>2 DEF Written
<1> QED BY <1>1, <1>8, <1>10, WritesInv

\* one of a slot, which may share an object, make a cycle or drop a reference,
LEMMA LinkInv ==
  ASSUME DeltaInv, Link
  PROVE  DeltaInv'
<1>1. PICK o \in Held, i \in Slots, x \in Held \cup {Nil} :
        Writes(o, [heap[holder] EXCEPT ![o].slots[i] = x])
  BY DEF Link
<1>2. PICK h : h = heap[holder]
  OBVIOUS
<1>3. Graph(h) /\ Held \subseteq DOMAIN h /\ o \in DOMAIN h /\ Closed(Held, h, roots[holder])
  BY <1>2, HeldIs, ReachIs DEF DeltaInv, Held
<1>4. Len(h) \in Nat /\ h[o] \in Node(Len(h)) /\ x \in 0..Len(h)
  BY <1>3 DEF Graph, Nil
<1>5. PICK c : c = Linked(h[o], i, x)
  OBVIOUS
<1>6. c \in Node(Len(h)) /\ \A j \in Slots : c.slots[j] = IF j = i THEN x ELSE h[o].slots[j]
  BY <1>4, <1>5, SlotIs
<1>7. PICK k : k = Replaced(h, o, c)
  OBVIOUS
<1>8. k = [heap[holder] EXCEPT ![o].slots[i] = x]
  BY <1>2, <1>5, <1>7 DEF Replaced, Linked
<1>9. /\ k \in Seq(Node(Len(h))) /\ Len(k) = Len(h) /\ DOMAIN k = DOMAIN h
      /\ k[o] = c /\ \A v \in DOMAIN h : v # o => k[v] = h[v]
  BY <1>3, <1>4, <1>6, <1>7, ReplacedIs
<1>10. Written(o, Held, heap[holder], k)
  <2>1. Graph(k)
    BY <1>9 DEF Graph
  <2>2. \A j \in Slots : k[o].slots[j] \in {Nil} \cup Held
    BY <1>3, <1>6, <1>9 DEF Closed
  <2> QED BY <1>2, <1>4, <1>9, <2>1, <2>2 DEF Written
<1> QED BY <1>1, <1>8, <1>10, WritesInv

\* and one that puts a new object into a slot.
LEMMA AttachInv ==
  ASSUME DeltaInv, Attach
  PROVE  DeltaInv'
<1>1. PICK o \in Held, i \in Slots :
        Writes(o, Append([heap[holder] EXCEPT ![o].slots[i] = Len(heap[holder]) + 1], Empty))
  BY DEF Attach
<1>2. PICK h : h = heap[holder]
  OBVIOUS
<1>3. Graph(h) /\ Held \subseteq DOMAIN h /\ o \in DOMAIN h /\ Closed(Held, h, roots[holder])
  BY <1>2, HeldIs, ReachIs DEF DeltaInv, Held
<1>4. PICK m : m = Len(h) + 1
  OBVIOUS
<1>5. /\ Len(h) \in Nat /\ m \in Nat /\ m \in 0..m /\ Len(h) <= m
      /\ DOMAIN h = 1..Len(h) /\ h[o] \in Node(Len(h))
  BY <1>3, <1>4 DEF Graph
<1>6. h[o] \in Node(m)
  <2>1. 0..Len(h) \subseteq 0..m
    BY <1>4, <1>5
  <2>2. h[o].slots \in [Slots -> 0..m]
    BY <1>5, <2>1 DEF Node
  <2> QED BY <1>5, <2>2 DEF Node
<1>7. PICK c : c = Linked(h[o], i, m)
  OBVIOUS
<1>8. c \in Node(m) /\ \A j \in Slots : c.slots[j] = IF j = i THEN m ELSE h[o].slots[j]
  BY <1>5, <1>6, <1>7, SlotIs
<1>9. PICK r : r = Replaced(h, o, c)
  OBVIOUS
<1>10. /\ r \in Seq(Node(m)) /\ Len(r) = Len(h) /\ DOMAIN r = DOMAIN h
       /\ r[o] = c /\ \A v \in DOMAIN h : v # o => r[v] = h[v]
  <2>1. m \in Nat /\ Len(h) <= m /\ c \in Node(m)
    BY <1>5, <1>8
  <2> QED BY <1>3, <1>9, <2>1, ReplacedIs
<1>11. PICK k : k = Append(r, Empty)
  OBVIOUS
<1>12. k = Append([heap[holder] EXCEPT ![o].slots[i] = Len(heap[holder]) + 1], Empty)
  BY <1>2, <1>4, <1>7, <1>9, <1>11 DEF Replaced, Linked
<1>13. Empty \in Node(m)
  BY <1>5 DEF Empty, Node, Nil
<1>14. k \in Seq(Node(m)) /\ Len(k) = m /\ k[m] = Empty /\ \A v \in DOMAIN h : k[v] = r[v]
  BY <1>4, <1>5, <1>10, <1>11, <1>13
<1>15. DOMAIN k = 1..m
  BY <1>14
<1>16. DOMAIN k \ DOMAIN h = {m}
  BY <1>4, <1>5, <1>15
<1>17. Written(o, Held, heap[holder], k)
  <2>1. Graph(k)
    BY <1>14 DEF Graph
  <2>2. \A j \in Slots : k[o].slots[j] \in {Nil} \cup Held \cup {m}
    BY <1>3, <1>8, <1>10, <1>14 DEF Closed
  <2>3. \A j \in Slots : k[m].slots[j] = Nil
    BY <1>14 DEF Empty
  <2>4. \A v \in DOMAIN h : v # o => k[v] = h[v]
    BY <1>10, <1>14
  <2> QED BY <1>2, <1>5, <1>14, <1>16, <2>1, <2>2, <2>3, <2>4 DEF Written
<1> QED BY <1>1, <1>12, <1>17, WritesInv

\* A local is set without a report: locals are shipped every time.
LEMMA SetLocalInv ==
  ASSUME DeltaInv, SetLocal
  PROVE  DeltaInv'
<1>1. TiersOK /\ Quiet /\ wire = <<>> /\ AtRest
  BY DEF DeltaInv, SetLocal
<1>2. PICK i \in Slots, x \in Held : roots' = [roots EXCEPT ![holder][i] = x]
  BY DEF SetLocal
<1>3. PICK t : t = holder
  OBVIOUS
<1>4. /\ t \in Tier /\ Other(t) \in Tier /\ Graph(heap[t]) /\ roots[t] \in Roots(heap[t])
      /\ Held \subseteq DOMAIN heap[t]
      /\ \A K : Closed(K, heap[t], roots[t]) => Held \subseteq K
  BY <1>1, <1>3, HeldIs
<1>5. PICK rs : rs = [roots[t] EXCEPT ![i] = x]
  OBVIOUS
<1>6. /\ roots' = [roots EXCEPT ![t] = rs] /\ session' = session /\ heap' = heap
      /\ mode' = mode /\ holder' = holder /\ wire' = wire /\ fulls' = fulls /\ sent' = <<>>
  BY <1>2, <1>3, <1>5 DEF SetLocal
<1>7. rs \in Roots(heap[t]) /\ \A j \in Slots : rs[j] = IF j = i THEN x ELSE roots[t][j]
  <2>1. x \in 0..Len(heap[t])
    BY <1>4 DEF Graph
  <2> QED BY <1>4, <1>5, <2>1 DEF Roots
<1>8. Updated(t, session[t], heap[t], rs)
  BY <1>1, <1>4, <1>6, OtherIs DEF Updated, TiersOK
<1>9. TiersOK'
  <2>1. PICK n : n = session[t]
    OBVIOUS
  <2>2. PICK h : h = heap[t]
    OBVIOUS
  <2>3. Updated(t, n, h, rs) /\ Graph(h) /\ rs \in Roots(h)
    BY <1>4, <1>7, <1>8, <2>1, <2>2
  <2>4. /\ mode' = mode /\ holder' \in Tier /\ fulls' \in Nat /\ (fulls' = 0 => fulls = 0)
        /\ Sound(n, t, h, mode, fulls')
        /\ \A id \in DOMAIN n.store : id[1] = Other(t) => id[2] < session[Other(t)].next
    BY <1>1, <1>4, <1>6, <2>1, <2>2 DEF TiersOK
  <2>5. session[t].next <= n.next
    <3>1. n.next \in Nat
      BY <2>4 DEF Sound, Sessions
    <3> QED BY <2>1, <3>1
  <2> QED BY <1>1, <1>4, <2>3, <2>4, <2>5, TierUpdated
<1>10. Quiet'
  BY <1>1, <1>6 DEF Quiet
<1>11. AtRest'
  <2>1. PICK K : /\ Closed(K, heap[t], roots[t]) /\ session[t].dirty \subseteq K
                 /\ Keeps(K, session[t], heap[t], session[Other(t)], heap[Other(t)], mode)
    BY <1>1, <1>3 DEF AtRest, Rest
  <2>2. Closed(K, heap[t], rs)
    BY <1>4, <1>7, <2>1 DEF Closed
  <2>3. roots'[t] = rs
    BY <1>8 DEF Updated
  <2> QED BY <1>3, <1>6, <2>1, <2>2, <2>3 DEF AtRest, Rest
<1> QED BY <1>1, <1>6, <1>9, <1>10, <1>11 DEF DeltaInv, InFlight, Agree, NamesAgree, Delivered

-----------------------------------------------------------------------------
(* Sending                                                                 *)

\* A session that keeps its names.
SameNames(n, s) ==
  n \in Sessions /\ n.tier = s.tier /\ n.idOf = s.idOf /\ n.next = s.next /\ n.store = s.store
Noted(s, h, rs) == [s EXCEPT !.peerVer = Over(Versions(s, h, rs), @)]

\* Who owns its name, and what objects hold by name, is a matter of the names.
LEMMA NamesOnly ==
  ASSUME NEW s, NEW n, SameNames(n, s)
  PROVE  /\ \A v : Owns(n, v) <=> Owns(s, v)
         /\ \A x : IdOf(n, x) = IdOf(s, x)
         /\ \A h, v : Holds(n, h, v) = Holds(s, h, v)
         /\ \A q : NamesOf(n, q) = NamesOf(s, q)
<1>1. n.idOf = s.idOf /\ n.store = s.store
  BY DEF SameNames
<1>2. \A v : Owns(n, v) <=> Owns(s, v)
  BY <1>1 DEF Owns
<1>3. \A x : IdOf(n, x) = IdOf(s, x)
  BY <1>1 DEF IdOf
<1>4. \A h, v : Holds(n, h, v) = Holds(s, h, v)
  BY <1>3 DEF Holds
<1>5. \A q : NamesOf(n, q) = NamesOf(s, q)
  BY <1>3 DEF NamesOf
<1> QED BY <1>2, <1>3, <1>4, <1>5

\* A rescan session that notes what the peer will hold.
LEMMA NotedIs ==
  ASSUME NEW s, NEW t, NEW h, Graph(h), NEW how, how = "rescan", NEW full,
         Sound(s, t, h, how, full),
         NEW rs \in Roots(h), \A v \in Reach(h, rs) : Owns(s, v), NEW n, n = Noted(s, h, rs)
  PROVE  /\ Sound(n, t, h, how, full) /\ SameNames(n, s) /\ n.dirty = {}
         /\ \A v \in Reach(h, rs) : /\ s.idOf[v] \in DOMAIN n.peerVer
                                    /\ n.peerVer[s.idOf[v]] = Holds(s, h, v)
<1> DEFINE R == Reach(h, rs)
           ver == Versions(s, h, rs)
<1>0. /\ s \in Sessions /\ DOMAIN s.idOf \subseteq DOMAIN h /\ s.peerVer \in Partial(Name, Hold)
      /\ s.store \in Partial(Name, Nat)
  BY DEF Sound, Sessions
<1>1. DOMAIN ver = {s.idOf[v] : v \in R} /\ \A v \in R : ver[s.idOf[v]] = Holds(s, h, v)
  BY DEF Versions, Owns
<1>2. \A v \in R : Holds(s, h, v) \in Hold /\ s.idOf[v] \in DOMAIN s.store
  <2>1. \A v \in R : v \in DOMAIN h /\ s.idOf[v] \in DOMAIN s.store
    BY <1>0 DEF Owns
  <2> QED BY <1>0, <2>1, HoldsIs
<1>3. DOMAIN ver \subseteq DOMAIN s.store /\ DOMAIN s.store \in SUBSET Name
  BY <1>0, <1>1, <1>2, PartialIs
<1>4. ver \in Partial(Name, Hold)
  <2>1. ver = [id \in DOMAIN ver |-> ver[id]]
    BY DEF Versions
  <2> HIDE DEF ver
  <2>2. \A id \in DOMAIN ver : ver[id] \in Hold
    BY <1>1, <1>2
  <2>3. ver \in [DOMAIN ver -> Hold]
    BY <2>1, <2>2
  <2> QED BY <1>3, <2>3, PartialIs
<1>5. n = [s EXCEPT !.peerVer = Over(ver, s.peerVer)]
  BY DEF Noted
<1> HIDE DEF ver, R
<1>6. Over(ver, s.peerVer) \in Partial(Name, Hold)
  BY <1>0, <1>4, OverType
<1>7. /\ n \in Sessions /\ n.tier = s.tier /\ n.idOf = s.idOf /\ n.next = s.next
      /\ n.store = s.store /\ n.seen = s.seen /\ n.dirty = s.dirty
      /\ n.peerVer = Over(ver, s.peerVer)
  BY <1>0, <1>5, <1>6 DEF Sessions
<1>8. /\ DOMAIN n.peerVer = DOMAIN ver \cup DOMAIN s.peerVer
      /\ \A id \in DOMAIN ver : n.peerVer[id] = ver[id]
  <2>1. /\ DOMAIN Over(ver, s.peerVer) = DOMAIN ver \cup DOMAIN s.peerVer
        /\ \A x \in DOMAIN ver : Over(ver, s.peerVer)[x] = ver[x]
        /\ \A x \in DOMAIN s.peerVer : x \notin DOMAIN ver => Over(ver, s.peerVer)[x] = s.peerVer[x]
    BY OverIs
  <2> QED BY <1>7, <2>1
<1>9. SameNames(n, s) /\ n.dirty = {}
  BY <1>7 DEF SameNames, Sound
<1>10. Sound(n, t, h, how, full)
  <2>1. DOMAIN n.peerVer \subseteq DOMAIN n.store
    BY <1>3, <1>7, <1>8 DEF Sound
  <2>2. Indexed(n) /\ Below(n)
    BY <1>7 DEF Sound, Indexed, Below
  <2>3. full = 0 => \A v \in DOMAIN n.idOf : n.idOf[v][1] # "@"
    BY <1>7 DEF Sound
  <2> QED BY <1>7, <1>9, <2>1, <2>2, <2>3 DEF Sound
<1>11. \A v \in R : s.idOf[v] \in DOMAIN n.peerVer /\ n.peerVer[s.idOf[v]] = Holds(s, h, v)
  BY <1>1, <1>8
<1> QED BY <1>9, <1>10, <1>11 DEF R

\* A session that has learned that the peer knows more of its store.
LEMMA SeenSound ==
  ASSUME NEW s, NEW t, NEW h, NEW how, how # "rescan", NEW full, Sound(s, t, h, how, full),
         NEW n, SameNames(n, s), n.seen \subseteq DOMAIN s.store, n.dirty \subseteq s.dirty
  PROVE  Sound(n, t, h, how, full)
<1>1. Indexed(n) /\ Below(n)
  BY DEF Sound, SameNames, Indexed, Below
<1>2. full = 0 => \A v \in DOMAIN n.idOf : n.idOf[v][1] # "@"
  BY DEF Sound, SameNames
<1>3. n.dirty \subseteq DOMAIN h
  BY DEF Sound
<1>4. /\ n \in Sessions /\ n.tier = t
      /\ DOMAIN n.idOf \subseteq DOMAIN h /\ n.seen \subseteq DOMAIN n.store
  BY DEF Sound, SameNames
<1> QED BY <1>1, <1>2, <1>3, <1>4 DEF Sound

\* A tier that sends keeps the invariant if its session stays sound, all it wrote is accounted
\* for, and the frame carries what the receiver does not hold.
LEMMA SendingInv ==
  ASSUME DeltaInv, wire = <<>>, NEW t, t = holder, NEW n, NEW m, Sending(n, m),
         fulls' \in Nat, fulls' = 0 => fulls = 0,
         Sound(n, t, heap[t], mode, fulls'), n.dirty = {}, session[t].next <= n.next,
         \A id \in DOMAIN n.store : id[1] = Other(t) => id[2] < session[Other(t)].next,
         Carries(m, n, heap[t], roots[t], session[Other(t)], heap[Other(t)], sent', mode, fulls')
  PROVE  DeltaInv'
<1>1. /\ TiersOK /\ Quiet /\ t \in Tier /\ Other(t) \in Tier /\ Graph(heap[t])
      /\ roots[t] \in Roots(heap[t])
  BY HeldIs DEF DeltaInv
<1>2. /\ session' = [session EXCEPT ![t] = n] /\ heap' = heap /\ roots' = roots /\ mode' = mode
      /\ holder' = holder /\ wire' = <<m>>
  BY DEF Sending
<1>3. Updated(t, n, heap[t], roots[t])
  BY <1>1, <1>2, OtherIs DEF Updated, TiersOK
<1>4. TiersOK'
  <2>1. PICK h : h = heap[t]
    OBVIOUS
  <2>2. PICK rs : rs = roots[t]
    OBVIOUS
  <2>3. Updated(t, n, h, rs) /\ Graph(h) /\ rs \in Roots(h) /\ Sound(n, t, h, mode, fulls')
    BY <1>1, <1>3, <2>1, <2>2
  <2>4. mode' = mode /\ holder' \in Tier
    BY <1>1, <1>2
  <2> QED BY <1>1, <2>3, <2>4, TierUpdated
<1>5. Quiet'
  <2>1. \A x \in Tier : x = t \/ x = Other(t)
    BY <1>1, OtherIs
  <2>2. session'[t].dirty = {} /\ session'[Other(t)].dirty = {}
    BY <1>1, <1>3, OtherIs DEF Quiet, Updated
  <2> QED BY <2>1, <2>2 DEF Quiet
<1>6. wire' # <<>>
  BY <1>2
<1>7. InFlight'
  <2>1. /\ session'[holder'] = n /\ heap'[holder'] = heap[t] /\ roots'[holder'] = roots[t]
        /\ session'[Other(holder')] = session[Other(t)] /\ heap'[Other(holder')] = heap[Other(t)]
    BY <1>2, <1>3 DEF Updated
  <2>2. Carries(m, session'[holder'], heap'[holder'], roots'[holder'], session'[Other(holder')],
                heap'[Other(holder')], sent', mode', fulls')
    BY <1>2, <2>1
  <2> QED BY <1>2, <2>2 DEF InFlight
<1> QED BY <1>4, <1>5, <1>6, <1>7 DEF DeltaInv, AtRest, Agree, NamesAgree, Delivered

\* The first frame in full gives both ends a baseline.
LEMMA ShipFullInv ==
  ASSUME MaxFull <= 1, DeltaInv, ShipFull
  PROVE  DeltaInv'
<1>1. PICK t : t = holder
  OBVIOUS
<1>2. PICK s : s = session[t]
  OBVIOUS
<1>3. PICK h : h = heap[t]
  OBVIOUS
<1>4. PICK rs : rs = roots[t]
  OBVIOUS
<1>5. PICK n : n = AdoptBaseline(s, h, rs)
  OBVIOUS
<1>6. PICK m : m = [full |-> TRUE, graph |-> Shape(h, rs)]
  OBVIOUS
<1>7. /\ wire = <<>> /\ mode # "rescan" /\ fulls < MaxFull /\ fulls' = fulls + 1
      /\ Sending(n, m)
  BY <1>1, <1>2, <1>3, <1>4, <1>5, <1>6 DEF ShipFull
<1>8. /\ TiersOK /\ t \in Tier /\ Other(t) \in Tier /\ Graph(h) /\ rs \in Roots(h)
      /\ Sound(s, t, h, mode, fulls)
  BY <1>1, <1>2, <1>3, <1>4, HeldIs DEF DeltaInv, TiersOK
<1>9. fulls = 0 /\ fulls' \in Nat /\ fulls' # 0
  <2>1. MaxFull \in Nat
    BY DeltaAssumption
  <2>2. fulls \in Nat
    BY <1>8 DEF TiersOK
  <2> QED BY <1>7, <2>1, <2>2
<1>10. s \in Sessions /\ \A v \in DOMAIN s.idOf : s.idOf[v][1] # "@"
  BY <1>8, <1>9 DEF Sound
<1>11. /\ n \in Sessions /\ Indexed(n)
       /\ n.tier = s.tier /\ n.next = s.next /\ n.peerVer = s.peerVer
       /\ n.dirty = {} /\ n.seen = DOMAIN n.store
       /\ DOMAIN n.idOf = DOMAIN s.idOf \cup Reach(h, rs)
       /\ \A k \in DOMAIN Order(h, rs) :
            n.idOf[Order(h, rs)[k]] = <<"@", k - 1>> /\ Owns(n, Order(h, rs)[k])
       /\ \A id \in DOMAIN n.store : id[1] = "@"
  BY <1>5, <1>8, <1>10, AdoptIs
<1>12. "@" # t /\ "@" # Other(t)
  BY <1>8 DEF Tier
<1>13. Sound(n, t, h, mode, fulls')
  <2>1. n.tier = t
    BY <1>8, <1>11 DEF Sound
  <2>2. Below(n)
    BY <1>11, <1>12, <2>1 DEF Below
  <2>3. DOMAIN n.idOf \subseteq DOMAIN h
    BY <1>8, <1>11, ReachIs DEF Sound, Closed
  <2> QED BY <1>7, <1>9, <1>11, <2>1, <2>2, <2>3 DEF Sound
<1>14. \A v \in Reach(h, rs) : Owns(n, v)
  BY <1>11 DEF Reach, Range
<1>15. sent' = <<[shape |-> Shape(h, rs), names |-> NamesOf(n, Order(h, rs))]>>
  BY <1>1, <1>3, <1>4, <1>7 DEF Sending
<1>16. Carries(m, n, h, rs, session[Other(t)], heap[Other(t)], sent', mode, fulls')
  <2>1. m.full /\ m.graph = Shape(h, rs)
    BY <1>6
  <2> QED BY <1>7, <1>9, <1>11, <1>14, <1>15, <2>1 DEF Carries
<1>17. session[t].next <= n.next
  <2>1. n.next \in Nat /\ session[t].next = n.next
    BY <1>2, <1>11 DEF Sessions
  <2> QED BY <2>1
<1>18. \A id \in DOMAIN n.store : id[1] = Other(t) => id[2] < session[Other(t)].next
  BY <1>11, <1>12
<1>19. fulls' = 0 => fulls = 0
  BY <1>9
<1>20. /\ Sound(n, t, heap[t], mode, fulls')
       /\ Carries(m, n, heap[t], roots[t], session[Other(t)], heap[Other(t)], sent', mode, fulls')
  BY <1>3, <1>4, <1>13, <1>16
<1> QED BY <1>1, <1>7, <1>9, <1>11, <1>17, <1>18, <1>19, <1>20, SendingInv

\* A delta leaves out what the receiver holds.
LEMMA ShipDeltaInv ==
  ASSUME DeltaInv, ShipDelta
  PROVE  DeltaInv'
<1>1. PICK t : t = holder
  OBVIOUS
<1>2. PICK s : s = session[t]
  OBVIOUS
<1>3. PICK h : h = heap[t]
  OBVIOUS
<1>4. PICK rs : rs = roots[t]
  OBVIOUS
<1>5. PICK q : q = Select(s, h, rs)
  OBVIOUS
<1>6. PICK n : n = Committed(q, h, rs)
  OBVIOUS
<1>7. PICK m : m = [full |-> FALSE, roots |-> NamesOf(q.s, rs),
                    records |-> [id \in q.ship |-> Holds(q.s, h, q.s.store[id])]]
  OBVIOUS
<1>8. wire = <<>> /\ fulls' = fulls /\ Sending(n, m)
  BY <1>1, <1>2, <1>3, <1>4, <1>5, <1>6, <1>7 DEF ShipDelta
<1>9. /\ TiersOK /\ AtRest /\ t \in Tier /\ Other(t) \in Tier /\ Graph(h) /\ rs \in Roots(h)
      /\ Sound(s, t, h, mode, fulls)
  BY <1>1, <1>2, <1>3, <1>4, HeldIs DEF DeltaInv, TiersOK
<1>10. mode \in {"tracked", "exact", "rescan"}
  BY <1>9, DeltaAssumption DEF TiersOK
<1>11. PICK u : u = session[Other(t)]
  OBVIOUS
<1>12. PICK g : g = heap[Other(t)]
  OBVIOUS
<1>13. PICK K : Closed(K, h, rs) /\ s.dirty \subseteq K /\ Keeps(K, s, h, u, g, mode)
  BY <1>1, <1>2, <1>3, <1>4, <1>8, <1>9, <1>11, <1>12 DEF AtRest, Rest
<1>14. PICK full : full = fulls
  OBVIOUS
<1>15. /\ \E vs \in SUBSET DOMAIN h : q.s = WithNames(s, vs)
       /\ \A v \in Reach(h, rs) :
            /\ Owns(q.s, v)
            /\ q.s.idOf[v] \notin q.ship => Mirrors(u, g, q.s.idOf[v], Holds(q.s, h, v))
       /\ q.ship \subseteq DOMAIN q.s.store /\ IsFiniteSet(q.ship)
  <2>1. Sound(s, t, h, mode, full)
    BY <1>9, <1>14
  <2> QED BY <1>5, <1>9, <1>10, <1>13, <2>1, SelectIs
<1>16. PICK r : r = q.s
  OBVIOUS
<1>17. PICK vs \in SUBSET DOMAIN h : r = WithNames(s, vs)
  BY <1>15, <1>16
<1>18. PICK how : how = mode
  OBVIOUS
<1>19. /\ Sound(r, t, h, how, full) /\ r.next \in Nat /\ s.next <= r.next
       /\ \A id \in DOMAIN r.store \ DOMAIN s.store : id[1] = t
  <2>1. Sound(s, t, h, how, full)
    BY <1>9, <1>14, <1>18
  <2> QED BY <1>9, <1>17, <2>1, NamedSound
<1>20. \A v \in Reach(h, rs) : Owns(r, v)
  BY <1>15, <1>16
<1>21. Sound(n, t, h, how, full) /\ SameNames(n, r) /\ n.dirty = {}
  <2>1. CASE how = "rescan"
    <3>1. n = Noted(r, h, rs)
      BY <1>6, <1>16, <1>18, <2>1 DEF Committed, Noted
    <3> QED BY <1>9, <1>19, <1>20, <2>1, <3>1, NotedIs
  <2>2. CASE how # "rescan"
    <3>1. n = [r EXCEPT !.seen = @ \cup q.ship, !.dirty = {}]
      BY <1>6, <1>16, <1>18, <2>2 DEF Committed
    <3>2. q.ship \subseteq DOMAIN r.store /\ r.seen \subseteq DOMAIN r.store /\ r \in Sessions
      BY <1>15, <1>16, <1>19 DEF Sound
    <3>3. DOMAIN r.store \in SUBSET Name
      <4>1. r.store \in Partial(Name, Nat)
        BY <3>2 DEF Sessions
      <4> QED BY <4>1, PartialIs
    <3>4. r.seen \cup q.ship \in SUBSET Name
      BY <3>2, <3>3
    <3>5. SameNames(n, r) /\ n.seen = r.seen \cup q.ship /\ n.dirty = {}
      BY <3>1, <3>2, <3>4 DEF SameNames, Sessions
    <3>6. n.seen \subseteq DOMAIN r.store /\ n.dirty \subseteq r.dirty
      BY <3>2, <3>5
    <3> QED BY <1>19, <2>2, <3>5, <3>6, SeenSound
  <2> QED BY <2>1, <2>2
<1>22. /\ \A v : Owns(n, v) <=> Owns(r, v)
       /\ \A x : IdOf(n, x) = IdOf(r, x)
       /\ \A k, v : Holds(n, k, v) = Holds(r, k, v)
       /\ \A p : NamesOf(n, p) = NamesOf(r, p)
  BY <1>21, NamesOnly
<1>23. n.idOf = r.idOf /\ n.store = r.store /\ n.next = r.next
  BY <1>21 DEF SameNames
<1>24. m.full = FALSE /\ m.roots = NamesOf(n, rs)
  BY <1>7, <1>16, <1>22
<1>25. /\ DOMAIN m.records = q.ship
       /\ \A id \in q.ship : m.records[id] = Holds(n, h, n.store[id])
       /\ m.records = [id \in q.ship |-> m.records[id]]
  BY <1>7, <1>16, <1>22, <1>23
<1>26. m.records \in Partial(Name, Hold)
  <2>1. /\ n \in Sessions /\ q.ship \subseteq DOMAIN n.store /\ n.store \in Partial(Name, Nat)
        /\ Indexed(n) /\ DOMAIN n.idOf \subseteq DOMAIN h
    BY <1>15, <1>16, <1>21, <1>23 DEF Sound, Sessions
  <2>2. \A id \in q.ship : n.store[id] \in DOMAIN h
    BY <2>1 DEF Indexed
  <2>3. \A id \in q.ship : m.records[id] \in Hold
    BY <1>9, <1>25, <2>1, <2>2, HoldsIs
  <2>4. m.records \in [q.ship -> Hold]
    BY <1>25, <2>3
  <2>5. q.ship \in SUBSET Name
    BY <2>1, PartialIs
  <2> QED BY <1>25, <2>4, <2>5, PartialIs
<1>27. ASSUME NEW v \in Reach(h, rs)
       PROVE  /\ Owns(n, v)
              /\ n.idOf[v] \in DOMAIN m.records => m.records[n.idOf[v]] = Holds(n, h, v)
              /\ n.idOf[v] \notin DOMAIN m.records
                   => Mirrors(u, g, n.idOf[v], Holds(n, h, v))
  <2>1. Owns(n, v)
    BY <1>20, <1>22
  <2>2. n.store[n.idOf[v]] = v
    BY <2>1 DEF Owns
  <2>3. n.idOf[v] \notin q.ship => Mirrors(u, g, n.idOf[v], Holds(n, h, v))
    BY <1>15, <1>16, <1>22, <1>23
  <2> QED BY <1>25, <2>1, <2>2, <2>3
<1>28. sent' = <<[shape |-> Shape(h, rs), names |-> NamesOf(n, Order(h, rs))]>>
  BY <1>1, <1>3, <1>4, <1>8 DEF Sending
<1>29. Carries(m, n, h, rs, u, g, sent', mode, fulls')
  <2>1. DOMAIN m.records \subseteq DOMAIN n.store /\ IsFiniteSet(DOMAIN m.records)
    BY <1>15, <1>16, <1>23, <1>25
  <2>2. ~m.full
    BY <1>24
  <2> QED BY <1>24, <1>26, <1>27, <1>28, <2>1, <2>2 DEF Carries
<1>30. session[t].next <= n.next
  BY <1>2, <1>19, <1>23
<1>31. ASSUME NEW id \in DOMAIN n.store, id[1] = Other(t)
       PROVE  id[2] < session[Other(t)].next
  <2>1. id \in DOMAIN s.store
    BY <1>9, <1>19, <1>23, <1>31, OtherIs
  <2> QED BY <1>2, <1>9, <1>31, <2>1 DEF TiersOK
<1>32. fulls' \in Nat /\ (fulls' = 0 => fulls = 0)
  BY <1>8, <1>9 DEF TiersOK
<1>33. /\ Sound(n, t, heap[t], mode, fulls')
       /\ Carries(m, n, heap[t], roots[t], session[Other(t)], heap[Other(t)], sent', mode, fulls')
  BY <1>3, <1>4, <1>8, <1>11, <1>12, <1>14, <1>18, <1>21, <1>29
<1> QED BY <1>1, <1>8, <1>21, <1>30, <1>31, <1>32, <1>33, SendingInv

-----------------------------------------------------------------------------
(* Receiving                                                               *)

\* The locals that the names of a delta refer to.
Rooted(s, names) == [i \in Slots |-> Lookup(s, names[i])]

\* reconstruct: what is rebuilt over the receiver's objects is like what was sent, and has its
\* names.
LEMMA RebuiltIs ==
  ASSUME NEW s \in Sessions, NEW h, Graph(h), NEW rs \in Roots(h), DOMAIN s.idOf \subseteq DOMAIN h,
         \A v \in Reach(h, rs) : Owns(s, v),
         NEW r \in Sessions, Indexed(r), NEW g, Graph(g), DOMAIN r.idOf \subseteq DOMAIN g,
         NEW records \in Partial(Name, Hold), IsFiniteSet(DOMAIN records),
         \A v \in Reach(h, rs) : IF s.idOf[v] \in DOMAIN records
                                 THEN records[s.idOf[v]] = Holds(s, h, v)
                                 ELSE Mirrors(r, g, s.idOf[v], Holds(s, h, v)),
         NEW b, b = WithShells(r, g, DOMAIN records),
         NEW k, k = Filled(b.s, b.h, records),
         NEW names, names = NamesOf(s, rs),
         NEW ss, ss = Rooted(b.s, names)
  PROVE  /\ Graph(k) /\ ss \in Roots(k) /\ DOMAIN k = DOMAIN b.h
         /\ \E f : /\ Alike(f, Reach(h, rs), h, rs, k, ss)
                   /\ \A v \in Reach(h, rs) : Owns(b.s, f[v]) /\ b.s.idOf[f[v]] = s.idOf[v]
<1> DEFINE R == Reach(h, rs)
           f == [v \in R |-> b.s.store[s.idOf[v]]]
<1>1. DOMAIN records \in SUBSET Name
  BY PartialIs
<1>2. /\ b.s \in Sessions /\ Indexed(b.s)
      /\ Graph(b.h) /\ Len(g) <= Len(b.h) /\ \A v \in DOMAIN g : b.h[v] = g[v]
      /\ DOMAIN b.s.store = DOMAIN r.store \cup DOMAIN records
      /\ \A id \in DOMAIN r.store : b.s.store[id] = r.store[id]
      /\ DOMAIN b.s.idOf \subseteq DOMAIN b.h
  BY <1>1, ShellsAre
<1>3. Images(b.s, b.h)
  BY <1>2 DEF Images, Indexed
<1>4. /\ Graph(k) /\ Len(k) = Len(b.h) /\ DOMAIN k = DOMAIN b.h
      /\ \A id \in DOMAIN records : k[b.s.store[id]] = Image(b.s, records[id])
      /\ \A v \in DOMAIN b.h : (\A id \in DOMAIN records : b.s.store[id] # v) => k[v] = b.h[v]
  <2>1. PICK x : x = b.s
    OBVIOUS
  <2>2. PICK y : y = b.h
    OBVIOUS
  <2>3. /\ x \in Sessions /\ Indexed(x) /\ Graph(y) /\ Images(x, y)
        /\ DOMAIN records \subseteq DOMAIN x.store /\ k = Filled(x, y, records)
    BY <1>2, <1>3, <2>1, <2>2
  <2>4. /\ Graph(k) /\ Len(k) = Len(y) /\ DOMAIN k = DOMAIN y
        /\ \A id \in DOMAIN records : k[x.store[id]] = Image(x, records[id])
        /\ \A v \in DOMAIN y : (\A id \in DOMAIN records : x.store[id] # v) => k[v] = y[v]
    BY <2>3, FilledIs
  <2> QED BY <2>1, <2>2, <2>4
<1>5. Closed(R, h, rs)
  BY ReachIs
<1> HIDE DEF R
<1>6. ASSUME NEW v \in R
      PROVE  /\ Owns(s, v) /\ s.idOf[v] \in DOMAIN b.s.store
             /\ f[v] = b.s.store[s.idOf[v]] /\ f[v] \in DOMAIN k
             /\ Owns(b.s, f[v]) /\ b.s.idOf[f[v]] = s.idOf[v]
  <2>1. Owns(s, v)
    BY DEF R
  <2>2. s.idOf[v] \in DOMAIN b.s.store
    BY <1>2 DEF Mirrors, R
  <2> QED BY <1>2, <1>4, <2>1, <2>2 DEF Indexed, Owns
<1>7. DOMAIN f = R /\ f = [v \in R |-> f[v]]
  OBVIOUS
<1> HIDE DEF f
<1>8. \A v, w \in R : f[v] = f[w] => v = w
  BY <1>6 DEF Owns
<1>9. ASSUME NEW x \in {Nil} \cup R
      PROVE  Lookup(b.s, IdOf(s, x)) = To(f, x)
  <2>1. CASE x = Nil
    <3>1. IdOf(s, Nil) = NoName /\ Lookup(b.s, NoName) = Nil
      <4>1. PICK n : n = b.s
        OBVIOUS
      <4>2. n \in Sessions
        BY <1>2, <4>1
      <4> QED BY <4>1, <4>2, NilIs
    <3> QED BY <2>1, <3>1 DEF To
  <2>2. CASE x # Nil
    BY <1>6, <2>2 DEF IdOf, Lookup, To, Owns
  <2> QED BY <2>1, <2>2
<1>10. ASSUME NEW v \in R
       PROVE  k[f[v]] = [val |-> h[v].val, slots |-> [i \in Slots |-> To(f, h[v].slots[i])]]
  <2>1. PICK c : c = Holds(s, h, v)
    OBVIOUS
  <2>2. c.val = h[v].val /\ \A i \in Slots : c.slots[i] = IdOf(s, h[v].slots[i])
    BY <2>1 DEF Holds
  <2>3. \A i \in Slots : h[v].slots[i] \in {Nil} \cup R
    BY <1>5 DEF Closed
  <2>4. Image(b.s, c) = [val |-> h[v].val, slots |-> [i \in Slots |-> To(f, h[v].slots[i])]]
    BY <1>9, <2>2, <2>3 DEF Image
  <2>5. PICK id : id = s.idOf[v]
    OBVIOUS
  <2>6. f[v] = b.s.store[id]
    BY <1>6, <2>5
  <2>7. CASE id \in DOMAIN records
    <3>1. records[id] = c
      BY <2>1, <2>5, <2>7 DEF R
    <3> QED BY <1>4, <2>4, <2>6, <2>7, <3>1
  <2>8. CASE id \notin DOMAIN records
    <3>1. Mirrors(r, g, id, c)
      BY <2>1, <2>5, <2>8 DEF R
    <3>2. id \in DOMAIN r.store /\ f[v] = r.store[id] /\ f[v] \in DOMAIN g
      BY <1>2, <2>6, <3>1 DEF Mirrors, Indexed
    <3>3. \A od \in DOMAIN records : b.s.store[od] # f[v]
      BY <1>2, <2>6, <2>8, <3>2 DEF Indexed
    <3>4. k[f[v]] = b.h[f[v]]
      BY <1>4, <1>6, <3>3
    <3>5. b.h[f[v]] = g[f[v]] /\ g[f[v]] = Image(r, c)
      BY <1>2, <3>1, <3>2 DEF Mirrors
    <3>6. \A i \in Slots : Lookup(r, c.slots[i]) = Lookup(b.s, c.slots[i])
      <4> SUFFICES ASSUME NEW i \in Slots
                   PROVE  Lookup(r, c.slots[i]) = Lookup(b.s, c.slots[i])
        OBVIOUS
      <4>1. c.slots[i] \in DOMAIN r.store \cup {NoName}
        BY <3>1 DEF Mirrors
      <4>2. NoName \notin Name
        BY DEF NoName, Name, Tier
      <4>3. DOMAIN r.store \subseteq Name /\ DOMAIN b.s.store \subseteq Name
        <5>1. r.store \in Partial(Name, Nat) /\ b.s.store \in Partial(Name, Nat)
          BY <1>2 DEF Sessions
        <5> QED BY <5>1, PartialIs
      <4> QED BY <1>2, <4>1, <4>2, <4>3 DEF Lookup
    <3>7. Image(r, c) = Image(b.s, c)
      BY <3>6 DEF Image
    <3> QED BY <2>4, <3>4, <3>5, <3>7
  <2> QED BY <2>7, <2>8
<1>11. ASSUME NEW i \in Slots
       PROVE  ss[i] = To(f, rs[i])
  <2>1. rs[i] \in {Nil} \cup R
    BY <1>5 DEF Closed
  <2>2. names[i] = IdOf(s, rs[i])
    BY DEF NamesOf, Roots
  <2> QED BY <1>9, <2>1, <2>2 DEF Rooted
<1>12. DOMAIN k = 1..Len(k) /\ Len(k) \in Nat
  BY <1>4 DEF Graph
<1>13. f \in [R -> 1..Len(k)]
  BY <1>6, <1>7, <1>12
<1>14. ss \in Roots(k)
  <2>1. \A i \in Slots : ss[i] \in 0..Len(k)
    <3>1. \A x : Lookup(b.s, x) \in 0..Len(k)
      <4>1. \A id \in DOMAIN b.s.store : b.s.store[id] \in DOMAIN k
        BY <1>3, <1>4 DEF Images
      <4> QED BY <1>12, <4>1 DEF Lookup, Nil
    <3> QED BY <3>1 DEF Rooted
  <2> QED BY <2>1 DEF Roots, Rooted
<1>15. Alike(f, R, h, rs, k, ss)
  BY <1>5, <1>8, <1>10, <1>11, <1>13 DEF Alike
<1> QED BY <1>4, <1>6, <1>14, <1>15 DEF R

\* A frame that arrives keeps the invariant if the receiver's graph is then like the sender's,
\* with the same names.
LEMMA ArrivesInv ==
  ASSUME DeltaInv, wire # <<>>, NEW t, t = holder, NEW u, u = Other(t),
         NEW s, s = session[t], NEW h, h = heap[t], NEW rs, rs = roots[t],
         sent = <<[shape |-> Shape(h, rs), names |-> NamesOf(s, Order(h, rs))]>>,
         NEW n, NEW k, NEW ss, Arrives(n, k, ss), Sound(n, u, k, mode, fulls), Graph(k),
         ss \in Roots(k), session[u].next <= n.next, n.dirty = {},
         \A id \in DOMAIN n.store : id[1] = t => id[2] < s.next,
         NEW f, Alike(f, Reach(h, rs), h, rs, k, ss),
         \A v \in Reach(h, rs) : Owns(s, v) /\ Owns(n, f[v]) /\ n.idOf[f[v]] = s.idOf[v],
         mode = "rescan" => \A w \in Reach(k, ss) : n.peerVer[n.idOf[w]] = Holds(n, k, w)
  PROVE  DeltaInv'
<1>1. /\ TiersOK /\ Quiet /\ t \in Tier /\ u \in Tier /\ u # t /\ Other(u) = t
      /\ Graph(h) /\ rs \in Roots(h) /\ \A x \in Tier : x = t \/ x = u
  BY HeldIs, OtherIs DEF DeltaInv
<1>2. Sound(s, t, h, mode, fulls) /\ s \in Sessions /\ DOMAIN s.idOf \subseteq DOMAIN h
  BY <1>1 DEF TiersOK, Sound
<1>3. n \in Sessions /\ DOMAIN n.idOf \subseteq DOMAIN k
  BY DEF Sound
<1>4. /\ Shape(k, ss) = Shape(h, rs)
      /\ NamesOf(n, Order(k, ss)) = NamesOf(s, Order(h, rs))
      /\ Closed(Reach(k, ss), k, ss)
      /\ \A w \in Reach(k, ss) :
           /\ Owns(n, w) /\ Mirrors(s, h, n.idOf[w], Holds(n, k, w))
           /\ \A i \in Slots : k[w].slots[i] \in {Nil} \cup DOMAIN n.idOf
  BY <1>1, <1>2, <1>3, Crossed
<1>5. /\ session' = [session EXCEPT ![u] = n] /\ heap' = [heap EXCEPT ![u] = k]
      /\ roots' = [roots EXCEPT ![u] = ss] /\ holder' = u /\ wire' = <<>>
      /\ mode' = mode /\ fulls' = fulls /\ sent' = sent
  BY DEF Arrives
<1>6. Updated(u, n, k, ss)
  BY <1>1, <1>5 DEF Updated, TiersOK
<1>7. TiersOK'
  <2>1. \A id \in DOMAIN n.store : id[1] = Other(u) => id[2] < session[Other(u)].next
    BY <1>1
  <2>2. /\ mode' = mode /\ holder' \in Tier /\ fulls' \in Nat /\ (fulls' = 0 => fulls = 0)
        /\ Sound(n, u, k, mode, fulls')
    BY <1>1, <1>5 DEF TiersOK
  <2> QED BY <1>1, <1>6, <2>1, <2>2, TierUpdated
<1>8. /\ session'[u] = n /\ heap'[u] = k /\ roots'[u] = ss
      /\ session'[t] = s /\ heap'[t] = h
  BY <1>1, <1>6 DEF Updated
<1>9. Quiet'
  <2>1. session'[t].dirty = {} /\ session'[u].dirty = {}
    BY <1>1, <1>8 DEF Quiet
  <2> QED BY <1>1, <2>1 DEF Quiet
<1>10. AtRest'
  <2>1. Keeps(Reach(k, ss), n, k, s, h, mode)
    BY <1>4 DEF Keeps
  <2>2. n.dirty \subseteq Reach(k, ss)
    OBVIOUS
  <2>3. Rest(n, k, ss, s, h, mode)
    BY <1>4, <2>1, <2>2 DEF Rest
  <2> QED BY <1>1, <1>5, <1>8, <2>3 DEF AtRest
<1>11. InFlight'
  BY <1>5 DEF InFlight
<1>12. sent'[1].shape = Shape(h, rs) /\ sent'[1].names = NamesOf(s, Order(h, rs))
  BY <1>5
<1>13. Agree' /\ NamesAgree'
  <2>1. heap'[holder'] = k /\ roots'[holder'] = ss /\ session'[holder'] = n
    BY <1>5, <1>8
  <2> QED BY <1>4, <1>12, <2>1 DEF Agree, NamesAgree, Arrived
<1> QED BY <1>7, <1>9, <1>10, <1>11, <1>13 DEF DeltaInv

\* A full frame: both ends name its objects by their places in the same walk.
LEMMA ReceiveFullInv ==
  ASSUME DeltaInv, ReceiveFull
  PROVE  DeltaInv'
<1>1. PICK t : t = holder
  OBVIOUS
<1>2. PICK u : u = Other(t)
  OBVIOUS
<1>3. PICK s : s = session[t]
  OBVIOUS
<1>4. PICK h : h = heap[t]
  OBVIOUS
<1>5. PICK rs : rs = roots[t]
  OBVIOUS
<1>6. /\ TiersOK /\ Quiet /\ InFlight /\ t \in Tier /\ u \in Tier /\ u # t
      /\ Graph(h) /\ rs \in Roots(h) /\ Sound(s, t, h, mode, fulls) /\ fulls \in Nat
      /\ Sound(session[u], u, heap[u], mode, fulls)
  BY <1>1, <1>2, <1>3, <1>4, <1>5, HeldIs, OtherIs DEF DeltaInv, TiersOK
<1>7. PICK m : /\ wire = <<m>>
               /\ Carries(m, s, h, rs, session[u], heap[u], sent, mode, fulls)
  BY <1>1, <1>2, <1>3, <1>4, <1>5, <1>6 DEF InFlight, ReceiveFull
<1>8. wire # <<>> /\ m.full
  BY <1>7 DEF ReceiveFull
<1>9. /\ sent = <<[shape |-> Shape(h, rs), names |-> NamesOf(s, Order(h, rs))]>>
      /\ \A v \in Reach(h, rs) : Owns(s, v)
      /\ fulls # 0 /\ mode # "rescan" /\ m.graph = Shape(h, rs)
      /\ \A i \in DOMAIN Order(h, rs) : s.idOf[Order(h, rs)[i]] = <<"@", i - 1>>
  BY <1>7, <1>8 DEF Carries
<1>10. PICK shape : shape = Shape(h, rs)
  OBVIOUS
<1>11. PICK k : k = shape.nodes
  OBVIOUS
<1>12. PICK ss : ss = shape.roots
  OBVIOUS
<1>13. PICK r : r = [session[u] EXCEPT !.idOf = <<>>]
  OBVIOUS
<1>14. PICK n : n = AdoptBaseline(r, k, ss)
  OBVIOUS
<1>15. Arrives(n, k, ss)
  BY <1>1, <1>2, <1>7, <1>9, <1>10, <1>11, <1>12, <1>13, <1>14 DEF ReceiveFull
<1>16. /\ Graph(k) /\ ss \in Roots(k)
       /\ \E f : /\ Alike(f, Reach(h, rs), h, rs, k, ss)
                 /\ \A i \in DOMAIN Order(h, rs) : f[Order(h, rs)[i]] = i
  BY <1>6, <1>10, <1>11, <1>12, ShapeIs
<1>17. PICK f : /\ Alike(f, Reach(h, rs), h, rs, k, ss)
                /\ \A i \in DOMAIN Order(h, rs) : f[Order(h, rs)[i]] = i
  BY <1>16
<1>18. /\ r \in Sessions /\ r.tier = u /\ r.next = session[u].next /\ r.idOf = <<>>
       /\ DOMAIN r.idOf = {}
  <2>1. session[u] \in Sessions /\ session[u].tier = u
    BY <1>6 DEF Sound
  <2>2. DOMAIN <<>> = {} /\ <<>> = [x \in {} |-> 0]
    OBVIOUS
  <2>3. <<>> \in [{} -> Name]
    BY <2>2
  <2>4. <<>> \in Partial(Nat, Name)
    BY <2>2, <2>3, PartialIs
  <2> QED BY <1>13, <2>1, <2>2, <2>4 DEF Sessions
<1>19. /\ n \in Sessions /\ Indexed(n)
       /\ n.tier = r.tier /\ n.next = r.next /\ n.peerVer = r.peerVer
       /\ n.dirty = {} /\ n.seen = DOMAIN n.store
       /\ DOMAIN n.idOf = DOMAIN r.idOf \cup Reach(k, ss)
       /\ \A i \in DOMAIN Order(k, ss) :
            n.idOf[Order(k, ss)[i]] = <<"@", i - 1>> /\ Owns(n, Order(k, ss)[i])
       /\ \A id \in DOMAIN n.store : id[1] = "@"
  <2>1. \A v \in DOMAIN r.idOf : r.idOf[v][1] # "@"
    BY <1>18
  <2>2. r \in Sessions
    BY <1>18
  <2> QED BY <1>14, <1>16, <2>1, <2>2, AdoptIs
<1>20. "@" # t /\ "@" # u
  BY <1>6 DEF Tier
<1>21. Sound(n, u, k, mode, fulls)
  <2>1. Below(n)
    BY <1>18, <1>19, <1>20 DEF Below
  <2>2. DOMAIN n.idOf \subseteq DOMAIN k
    BY <1>16, <1>18, <1>19, ReachIs DEF Closed
  <2> QED BY <1>9, <1>18, <1>19, <2>1, <2>2 DEF Sound
<1>22. Order(k, ss) = Via(f, Order(h, rs))
  BY <1>6, <1>16, <1>17, WalksAlike
<1>23. ASSUME NEW v \in Reach(h, rs)
       PROVE  Owns(s, v) /\ Owns(n, f[v]) /\ n.idOf[f[v]] = s.idOf[v]
  <2>1. PICK i \in DOMAIN Order(h, rs) : v = Order(h, rs)[i]
    BY DEF Reach, Range
  <2>2. i \in DOMAIN Order(k, ss) /\ Order(k, ss)[i] = f[v]
    BY <1>22, <2>1 DEF Via
  <2> QED BY <1>9, <1>19, <2>1, <2>2
<1>24. \A id \in DOMAIN n.store : id[1] = t => id[2] < s.next
  BY <1>19, <1>20
<1>25. session[u].next <= n.next
  <2>1. n.next \in Nat /\ n.next = session[u].next
    BY <1>18, <1>19 DEF Sessions
  <2> QED BY <2>1
<1> QED BY <1>1, <1>2, <1>3, <1>4, <1>5, <1>8, <1>9, <1>15, <1>16, <1>17, <1>19, <1>21, <1>23,
           <1>24, <1>25, ArrivesInv

\* A delta: what it leaves out is found under its name.
LEMMA ReceiveDeltaInv ==
  ASSUME DeltaInv, ReceiveDelta
  PROVE  DeltaInv'
<1>1. PICK t : t = holder
  OBVIOUS
<1>2. PICK u : u = Other(t)
  OBVIOUS
<1>3. PICK s : s = session[t]
  OBVIOUS
<1>4. PICK h : h = heap[t]
  OBVIOUS
<1>5. PICK rs : rs = roots[t]
  OBVIOUS
<1>6. PICK r : r = session[u]
  OBVIOUS
<1>7. PICK g : g = heap[u]
  OBVIOUS
<1>8. /\ TiersOK /\ Quiet /\ InFlight /\ t \in Tier /\ u \in Tier /\ u # t /\ Other(u) = t
      /\ Graph(h) /\ rs \in Roots(h) /\ Sound(s, t, h, mode, fulls) /\ fulls \in Nat
      /\ Graph(g) /\ Sound(r, u, g, mode, fulls)
  BY <1>1, <1>2, <1>3, <1>4, <1>5, <1>6, <1>7, HeldIs, OtherIs DEF DeltaInv, TiersOK
<1>9. PICK m : wire = <<m>> /\ Carries(m, s, h, rs, r, g, sent, mode, fulls)
  BY <1>1, <1>2, <1>3, <1>4, <1>5, <1>6, <1>7, <1>8 DEF InFlight, ReceiveDelta
<1>10. wire # <<>> /\ ~m.full
  BY <1>9 DEF ReceiveDelta
<1>11. PICK records : records = m.records
  OBVIOUS
<1>12. PICK names : names = m.roots
  OBVIOUS
<1>13. /\ sent = <<[shape |-> Shape(h, rs), names |-> NamesOf(s, Order(h, rs))]>>
       /\ \A v \in Reach(h, rs) : Owns(s, v)
       /\ names = NamesOf(s, rs)
       /\ records \in Partial(Name, Hold) /\ IsFiniteSet(DOMAIN records)
       /\ DOMAIN records \subseteq DOMAIN s.store
       /\ \A v \in Reach(h, rs) : IF s.idOf[v] \in DOMAIN records
                                  THEN records[s.idOf[v]] = Holds(s, h, v)
                                  ELSE Mirrors(r, g, s.idOf[v], Holds(s, h, v))
  BY <1>9, <1>10, <1>11, <1>12 DEF Carries
<1>14. PICK b : b = WithShells(r, g, DOMAIN records)
  OBVIOUS
<1>15. PICK k : k = Filled(b.s, b.h, records)
  OBVIOUS
<1>16. PICK ss : ss = Rooted(b.s, names)
  OBVIOUS
<1>17. PICK n : n = Learned(b.s, k, ss, m)
  OBVIOUS
<1>18. Arrives(n, k, ss)
  BY <1>1, <1>2, <1>6, <1>7, <1>9, <1>11, <1>12, <1>14, <1>15, <1>16, <1>17 DEF ReceiveDelta, Rooted
<1>19. /\ s \in Sessions /\ DOMAIN s.idOf \subseteq DOMAIN h /\ Indexed(s)
       /\ r \in Sessions /\ DOMAIN r.idOf \subseteq DOMAIN g /\ Indexed(r) /\ Below(r) /\ r.tier = u
       /\ r.seen \subseteq DOMAIN r.store
  BY <1>8 DEF Sound
<1>20. r.dirty = {}
  BY <1>1, <1>6, <1>8, <1>10 DEF Quiet
<1>21. /\ Graph(k) /\ ss \in Roots(k) /\ DOMAIN k = DOMAIN b.h
       /\ \E f : /\ Alike(f, Reach(h, rs), h, rs, k, ss)
                 /\ \A v \in Reach(h, rs) : Owns(b.s, f[v]) /\ b.s.idOf[f[v]] = s.idOf[v]
  BY <1>8, <1>13, <1>14, <1>15, <1>16, <1>19, RebuiltIs
<1>22. PICK f : /\ Alike(f, Reach(h, rs), h, rs, k, ss)
                /\ \A v \in Reach(h, rs) : Owns(b.s, f[v]) /\ b.s.idOf[f[v]] = s.idOf[v]
  BY <1>21
<1>23. DOMAIN records \in SUBSET Name
  BY <1>13, PartialIs
<1>24. PICK x : x = b.s
  OBVIOUS
<1>25. /\ x \in Sessions /\ Indexed(x)
       /\ x.tier = r.tier /\ x.next = r.next /\ x.seen = r.seen
       /\ x.dirty = r.dirty /\ x.peerVer = r.peerVer
       /\ DOMAIN x.store = DOMAIN r.store \cup DOMAIN records
       /\ DOMAIN x.idOf \subseteq DOMAIN b.h
       /\ \A v \in DOMAIN x.idOf :
            (v \in DOMAIN r.idOf /\ x.idOf[v] = r.idOf[v]) \/ x.idOf[v] \in DOMAIN records
  BY <1>8, <1>13, <1>14, <1>19, <1>23, <1>24, ShellsAre
<1>26. PICK full : full = fulls
  OBVIOUS
<1>27. PICK how : how = mode
  OBVIOUS
<1>28. ASSUME NEW id \in DOMAIN x.store
       PROVE  /\ id[1] = u => id[2] < x.next
              /\ id[1] = t => id[2] < s.next
  <2>1. CASE id \in DOMAIN r.store
    <3>1. id[1] = u => id[2] < x.next
      BY <1>19, <1>25, <2>1 DEF Below
    <3>2. id[1] = t => id[2] < s.next
      BY <1>3, <1>6, <1>8, <2>1 DEF TiersOK
    <3> QED BY <3>1, <3>2
  <2>2. CASE id \in DOMAIN records
    <3>1. id \in DOMAIN s.store
      BY <1>13, <2>2
    <3>2. id[1] = u => id[2] < x.next
      BY <1>2, <1>3, <1>6, <1>8, <1>25, <3>1 DEF TiersOK
    <3>3. s.tier = t /\ Below(s)
      BY <1>8 DEF Sound
    <3>4. id[1] = t => id[2] < s.next
      BY <3>1, <3>3 DEF Below
    <3> QED BY <3>2, <3>4
  <2> QED BY <1>25, <2>1, <2>2
<1>29. Sound(x, u, k, how, full)
  <2>1. x.tier = u /\ Below(x)
    BY <1>19, <1>25, <1>28 DEF Below
  <2>2. DOMAIN x.idOf \subseteq DOMAIN k /\ x.dirty = {} /\ x.seen \subseteq DOMAIN x.store
    BY <1>19, <1>20, <1>21, <1>25
  <2>3. how = "rescan" => DOMAIN x.peerVer \subseteq DOMAIN x.store
    BY <1>8, <1>25, <1>27 DEF Sound
  <2>4. ASSUME full = 0, NEW v \in DOMAIN x.idOf
        PROVE  x.idOf[v][1] # "@"
    <3>1. CASE v \in DOMAIN r.idOf /\ x.idOf[v] = r.idOf[v]
      BY <1>8, <1>26, <2>4, <3>1 DEF Sound
    <3>2. CASE x.idOf[v] \in DOMAIN records
      <4>1. PICK id : id = x.idOf[v]
        OBVIOUS
      <4>2. s.store[id] \in DOMAIN s.idOf /\ s.idOf[s.store[id]] = id
        BY <1>13, <1>19, <3>2, <4>1 DEF Indexed
      <4>3. id[1] # "@"
        BY <1>8, <1>26, <2>4, <4>2 DEF Sound
      <4> QED BY <4>1, <4>3
    <3> QED BY <1>25, <3>1, <3>2
  <2> QED BY <1>25, <2>1, <2>2, <2>3, <2>4 DEF Sound
<1>30. Closed(Reach(k, ss), k, ss) /\ Reach(k, ss) \in SUBSET DOMAIN k
  BY <1>21, ReachIs DEF Closed
<1>31. /\ \A v \in Reach(h, rs) : Owns(x, f[v]) /\ x.idOf[f[v]] = s.idOf[v]
       /\ \A w \in Reach(k, ss) : Owns(x, w)
  <2>1. \A v \in Reach(h, rs) : Owns(x, f[v]) /\ x.idOf[f[v]] = s.idOf[v]
    BY <1>22, <1>24
  <2>2. DOMAIN x.idOf \subseteq DOMAIN k
    BY <1>29 DEF Sound
  <2>3. \A w \in Reach(k, ss) : Owns(x, w)
    BY <1>8, <1>13, <1>19, <1>21, <1>22, <1>25, <2>1, <2>2, Crossed
  <2> QED BY <2>1, <2>3
<1>32. /\ Sound(n, u, k, how, full) /\ n.dirty = {} /\ x.next <= n.next
       /\ \A v \in Reach(h, rs) : Owns(n, f[v]) /\ n.idOf[f[v]] = s.idOf[v]
       /\ \A id \in DOMAIN n.store : id[1] = t => id[2] < s.next
       /\ how = "rescan" => \A w \in Reach(k, ss) : n.peerVer[n.idOf[w]] = Holds(n, k, w)
  <2>1. CASE how = "rescan"
    <3>1. PICK y : y = WithNames(x, Reach(k, ss))
      OBVIOUS
    <3>2. /\ Sound(y, u, k, how, full)
          /\ y.next \in Nat /\ x.next <= y.next
          /\ \A v \in DOMAIN x.idOf : y.idOf[v] = x.idOf[v] /\ (Owns(x, v) => Owns(y, v))
          /\ \A id \in DOMAIN y.store \ DOMAIN x.store : id[1] = u
      BY <1>8, <1>21, <1>29, <1>30, <3>1, NamedSound
    <3>3. \A w \in Reach(k, ss) : Owns(y, w)
      BY <1>31, <3>2 DEF Owns
    <3>4. n = Noted(y, k, ss)
      BY <1>17, <1>24, <1>27, <2>1, <3>1 DEF Learned, Scan, Noted
    <3>5. /\ Sound(n, u, k, how, full) /\ SameNames(n, y) /\ n.dirty = {}
          /\ \A w \in Reach(k, ss) : n.peerVer[y.idOf[w]] = Holds(y, k, w)
      <4>1. Sound(y, u, k, how, full)
        BY <3>2
      <4>2. Graph(k) /\ ss \in Roots(k)
        BY <1>21
      <4>3. Sound(n, u, k, how, full) /\ SameNames(n, y) /\ n.dirty = {}
        BY <2>1, <3>3, <3>4, <4>1, <4>2, NotedIs
      <4>4. \A w \in Reach(k, ss) : /\ y.idOf[w] \in DOMAIN n.peerVer
                                    /\ n.peerVer[y.idOf[w]] = Holds(y, k, w)
        BY <2>1, <3>3, <3>4, <4>1, <4>2, NotedIs
      <4> QED BY <4>3, <4>4
    <3>6. /\ \A v : Owns(n, v) <=> Owns(y, v)
          /\ \A p, v : Holds(n, p, v) = Holds(y, p, v)
      BY <3>5, NamesOnly
    <3>7. n.idOf = y.idOf /\ n.store = y.store /\ n.next = y.next
      BY <3>5 DEF SameNames
    <3>8. \A v \in Reach(h, rs) : Owns(n, f[v]) /\ n.idOf[f[v]] = s.idOf[v]
      BY <1>31, <3>2, <3>6, <3>7 DEF Owns
    <3>9. \A id \in DOMAIN n.store : id[1] = t => id[2] < s.next
      BY <1>8, <1>28, <3>2, <3>7
    <3>10. \A w \in Reach(k, ss) : n.peerVer[n.idOf[w]] = Holds(n, k, w)
      BY <3>5, <3>6, <3>7
    <3> QED BY <3>2, <3>5, <3>7, <3>8, <3>9, <3>10
  <2>2. CASE how # "rescan"
    <3>1. n = [x EXCEPT !.seen = @ \cup DOMAIN records]
      BY <1>11, <1>17, <1>24, <1>27, <2>2 DEF Learned
    <3>2. x.seen \cup DOMAIN records \in SUBSET Name
      BY <1>23, <1>25 DEF Sessions
    <3>3. /\ SameNames(n, x) /\ n.seen = x.seen \cup DOMAIN records /\ n.dirty = x.dirty
      BY <1>25, <3>1, <3>2 DEF SameNames, Sessions
    <3>4. n.seen \subseteq DOMAIN x.store /\ n.dirty = {}
      BY <1>19, <1>20, <1>25, <3>3
    <3>5. Sound(n, u, k, how, full)
      BY <1>29, <2>2, <3>3, <3>4, SeenSound
    <3>6. \A v : Owns(n, v) <=> Owns(x, v)
      BY <3>3, NamesOnly
    <3>7. n.idOf = x.idOf /\ n.store = x.store /\ n.next = x.next /\ n.next \in Nat
      BY <1>25, <3>3 DEF SameNames, Sessions
    <3>8. x.next <= n.next
      BY <3>7
    <3> QED BY <1>28, <1>31, <2>2, <3>4, <3>5, <3>6, <3>7, <3>8
  <2> QED BY <2>1, <2>2
<1>33. Sound(n, u, k, mode, fulls) /\ session[u].next <= n.next
  BY <1>6, <1>25, <1>26, <1>27, <1>32
<1>34. \A v \in Reach(h, rs) : Owns(s, v) /\ Owns(n, f[v]) /\ n.idOf[f[v]] = s.idOf[v]
  BY <1>13, <1>32
<1>35. mode = "rescan" => \A w \in Reach(k, ss) : n.peerVer[n.idOf[w]] = Holds(n, k, w)
  BY <1>27, <1>32
<1> QED BY <1>1, <1>2, <1>3, <1>4, <1>5, <1>10, <1>13, <1>18, <1>21, <1>22, <1>32, <1>33, <1>34,
           <1>35, ArrivesInv

-----------------------------------------------------------------------------
(* The theorems                                                            *)

\* Every step keeps the invariant.
LEMMA DeltaStep ==
  ASSUME MaxFull <= 1, DeltaInv, [DeltaNext]_deltaVars
  PROVE  DeltaInv'
<1>1. CASE Write
  BY <1>1, WriteInv
<1>2. CASE Link
  BY <1>2, LinkInv
<1>3. CASE Attach
  BY <1>3, AttachInv
<1>4. CASE SetLocal
  BY <1>4, SetLocalInv
<1>5. CASE ShipFull
  BY <1>5, ShipFullInv
<1>6. CASE ShipDelta
  BY <1>6, ShipDeltaInv
<1>7. CASE ReceiveFull
  BY <1>7, ReceiveFullInv
<1>8. CASE ReceiveDelta
  BY <1>8, ReceiveDeltaInv
<1>9. CASE UNCHANGED deltaVars
  BY <1>9 DEF deltaVars, DeltaInv, TiersOK, Quiet, AtRest, InFlight, Agree, NamesAgree, Delivered,
              Arrived
<1> QED BY <1>1, <1>2, <1>3, <1>4, <1>5, <1>6, <1>7, <1>8, <1>9 DEF DeltaNext

\* The invariant holds of every run with one baseline at most.
LEMMA DeltaInvariant ==
  ASSUME MaxFull <= 1
  PROVE  DeltaSpec => []DeltaInv
BY DeltaInitInv, DeltaStep, PTL DEF DeltaSpec

\* The invariant has StoresOK in it.
LEMMA InvStores ==
  ASSUME DeltaInv
  PROVE  StoresOK
<1>1. TiersOK /\ InFlight
  BY DEF DeltaInv
<1>2. mode \in Modes /\ holder \in Tier
  BY <1>1 DEF TiersOK
<1>3. Len(wire) <= 1
  <2>1. CASE wire = <<>>
    BY <2>1
  <2>2. CASE wire # <<>>
    <3>1. PICK m : wire = <<m>>
      BY <1>1, <2>2 DEF InFlight
    <3>2. Len(<<m>>) = 1
      OBVIOUS
    <3> QED BY <3>1, <3>2
  <2> QED BY <2>1, <2>2
<1>4. ASSUME NEW t \in Tier
      PROVE  /\ \A id \in DOMAIN session[t].store :
                  /\ session[t].store[id] \in DOMAIN heap[t]
                  /\ session[t].idOf[session[t].store[id]] = id
             /\ session[t].seen \subseteq DOMAIN session[t].store
             /\ session[t].dirty \subseteq DOMAIN heap[t]
             /\ \A v \in DOMAIN heap[t], i \in Slots :
                  heap[t][v].slots[i] \in DOMAIN heap[t] \cup {Nil}
             /\ \A i \in Slots : roots[t][i] \in DOMAIN heap[t] \cup {Nil}
  <2>1. Graph(heap[t]) /\ roots[t] \in Roots(heap[t]) /\ Sound(session[t], t, heap[t], mode, fulls)
    BY <1>1 DEF TiersOK
  <2>2. /\ \A id \in DOMAIN session[t].store :
             /\ session[t].store[id] \in DOMAIN heap[t]
             /\ session[t].idOf[session[t].store[id]] = id
        /\ session[t].seen \subseteq DOMAIN session[t].store
        /\ session[t].dirty \subseteq DOMAIN heap[t]
    BY <2>1 DEF Sound, Indexed
  <2>3. DOMAIN heap[t] = 1..Len(heap[t]) /\ Len(heap[t]) \in Nat
        /\ \A v \in DOMAIN heap[t] : heap[t][v] \in Node(Len(heap[t]))
    BY <2>1 DEF Graph
  <2>4. 0..Len(heap[t]) = DOMAIN heap[t] \cup {Nil}
    BY <2>3 DEF Nil
  <2>5. \A v \in DOMAIN heap[t], i \in Slots : heap[t][v].slots[i] \in 0..Len(heap[t])
    BY <2>3 DEF Node
  <2>6. \A i \in Slots : roots[t][i] \in 0..Len(heap[t])
    BY <2>1 DEF Roots
  <2> QED BY <2>2, <2>4, <2>5, <2>6
<1> QED BY <1>2, <1>3, <1>4 DEF StoresOK

\* What a session has in its store is an object of its heap that has that name, what it takes for
\* known is in its store, and no slot or local refers outside the heap.
THEOREM StoresAreSound ==
  ASSUME MaxFull <= 1
  PROVE  DeltaSpec => []StoresOK
<1>1. DeltaInv => StoresOK
  BY InvStores
<1> QED BY <1>1, DeltaInvariant, PTL

\* A continuation arrives with the contents and the sharing of all it refers to, however the
\* objects to ship were chosen and however little of it crossed.
THEOREM DeltasAgree ==
  ASSUME MaxFull <= 1
  PROVE  DeltaSpec => []Agree
<1>1. DeltaInv => Agree
  BY DEF DeltaInv
<1> QED BY <1>1, DeltaInvariant, PTL

\* What has crossed has the same names at both ends, when there is one baseline at most.
THEOREM DeltaNamesAgree ==
  ASSUME MaxFull <= 1
  PROVE  DeltaSpec => []NamesAgree
<1>1. DeltaInv => NamesAgree
  BY DEF DeltaInv
<1> QED BY <1>1, DeltaInvariant, PTL

==============================================================================
