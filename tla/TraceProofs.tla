---------------------------- MODULE TraceProofs ----------------------------
(***************************************************************************)
(* Proofs about Trace, for any sites, owners, settings and length of path: *)
(* type correctness, InOrder and SegmentsApart.                            *)
(*                                                                         *)
(* The invariant has three parts besides the types.  Ordered: the counters *)
(* of the stack that runs are past every record, so that a record has them *)
(* as they are and moves them on.  Counts: the hop of a record is the hop  *)
(* of a later one, and of the stack that runs, exactly if no crossing was  *)
(* recorded from the one to the other.  Tells: if everything is recorded,  *)
(* the log and the path are as long as each other and agree.               *)
(***************************************************************************)
EXTENDS Trace, FiniteSetTheorems, TLAPS

Counters == [on : BOOLEAN, hop : Nat, seq : Nat]
ResRecord == [t : {"res"}, hop : Nat, seq : Nat, site : Site, sized : BOOLEAN]
HopRecord == [t : {"hop"}, hop : Nat, seq : Nat]
EndRecord == [t : {"end"}, hop : Nat, seq : Nat, outcome : {"done", "error"}]
Record == ResRecord \cup HopRecord \cup EndRecord
Event == [kind : {"touch"}, site : Site, sized : BOOLEAN] \cup {Crossed}

Typed ==
  /\ setting \in Settings /\ at \in Tier \cup {"over"}
  /\ parked \in Request \cup {Home, None}
  /\ flag \in [Tier -> Counters] /\ held \in Counters
  /\ away \in BOOLEAN /\ behind \in BOOLEAN /\ missed \in BOOLEAN
  /\ log \in Seq(Record) /\ path \in Seq(Event)

\* The records so far are in order, before what the stack that runs will record; the end is last.
Ordered ==
  /\ InOrder
  /\ at \in Tier => \A i \in DOMAIN log : log[i].t # "end"
  /\ at \in Tier /\ ~behind => \A i \in DOMAIN log : log[i].seq < flag[at].seq

\* Crossings and hops.
Counts ==
  /\ ~behind =>
       \A i, j \in DOMAIN log : i < j /\ log[j].t # "end" =>
         /\ log[i].hop <= log[j].hop
         /\ log[i].hop = log[j].hop <=> \A k \in i..(j - 1) : log[k].t # "hop"
  /\ at \in Tier /\ ~behind =>
       \A i \in DOMAIN log :
         /\ log[i].hop <= flag[at].hop
         /\ log[i].hop = flag[at].hop <=> \A k \in i..Len(log) : log[k].t # "hop"

\* A record tells an event.
TellsOf(r, e) ==
  IF e = Crossed THEN r.t = "hop"
                 ELSE r.t = "res" /\ r.site = e.site /\ r.sized = e.sized

\* The log of a run of which everything is recorded.
Tells ==
  Whole =>
    /\ at \in Tier => flag[at].on /\ Len(log) = Len(path)
    /\ Len(path) <= Len(log)
    /\ \A i \in DOMAIN log : i > Len(path) => log[i].t = "end"
    /\ \A i \in DOMAIN path : TellsOf(log[i], path[i])

TInv == Typed /\ Ordered /\ Counts /\ Tells

-----------------------------------------------------------------------------
(* What is recorded.                                                       *)

\* Records and counters.
LEMMA RecordsAre ==
  ASSUME NEW f \in Counters
  PROVE  /\ \A q \in Request :
              /\ Res(f, q) \in Record /\ Res(f, q).t = "res" /\ Res(f, q).hop = f.hop
              /\ Res(f, q).seq = f.seq /\ TellsOf(Res(f, q), Touched(q)) /\ Touched(q) \in Event
         /\ Hop(f) \in Record /\ Hop(f).t = "hop" /\ Hop(f).hop = f.hop /\ Hop(f).seq = f.seq
         /\ TellsOf(Hop(f), Crossed) /\ Crossed \in Event
         /\ \A outcome \in {"done", "error"} :
              /\ End(f, outcome) \in Record /\ End(f, outcome).t = "end"
              /\ End(f, outcome).seq = f.seq
         /\ Counted(f) \in Counters /\ Counted(f).hop = f.hop /\ Counted(f).seq = f.seq + 1
         /\ Counted(f).on = f.on
         /\ Bumped(f) \in Counters /\ Bumped(f).hop = f.hop + 1 /\ Bumped(f).seq = f.seq + 1
         /\ Bumped(f).on = f.on
<1>1. f.on \in BOOLEAN /\ f.hop \in Nat /\ f.seq \in Nat
  BY DEF Counters
<1>2. ASSUME NEW q \in Request
      PROVE  /\ Res(f, q) \in Record /\ Res(f, q).t = "res" /\ Res(f, q).hop = f.hop
             /\ Res(f, q).seq = f.seq /\ TellsOf(Res(f, q), Touched(q)) /\ Touched(q) \in Event
  <2>1. q.site \in Site /\ q.sized \in BOOLEAN
    BY DEF Request
  <2>2. PICK r : r = Res(f, q)
    OBVIOUS
  <2>3. r \in ResRecord /\ r.t = "res" /\ r.hop = f.hop /\ r.seq = f.seq /\ r.site = q.site
        /\ r.sized = q.sized
    BY <1>1, <2>1, <2>2 DEF Res, ResRecord
  <2>4. PICK e : e = Touched(q)
    OBVIOUS
  <2>5. e \in Event /\ e.kind = "touch" /\ e.site = q.site /\ e.sized = q.sized
    BY <2>1, <2>4 DEF Touched, Event
  <2>6. e # Crossed
    BY <2>5 DEF Crossed
  <2> QED BY <2>2, <2>3, <2>4, <2>5, <2>6 DEF TellsOf, Record
<1>3. Hop(f) \in Record /\ Hop(f).t = "hop" /\ Hop(f).hop = f.hop /\ Hop(f).seq = f.seq
  BY <1>1 DEF Hop, HopRecord, Record
<1>4. TellsOf(Hop(f), Crossed) /\ Crossed \in Event
  BY <1>3 DEF TellsOf, Event
<1>5. ASSUME NEW outcome \in {"done", "error"}
      PROVE  /\ End(f, outcome) \in Record /\ End(f, outcome).t = "end"
             /\ End(f, outcome).seq = f.seq
  BY <1>1 DEF End, EndRecord, Record
<1>6. /\ Counted(f) \in Counters /\ Counted(f).hop = f.hop /\ Counted(f).seq = f.seq + 1
      /\ Counted(f).on = f.on
  BY <1>1 DEF Counted, Counters
<1>7. /\ Bumped(f) \in Counters /\ Bumped(f).hop = f.hop + 1 /\ Bumped(f).seq = f.seq + 1
      /\ Bumped(f).on = f.on
  <2>1. PICK g : g = [f EXCEPT !.hop = f.hop + 1, !.seq = f.seq + 1]
    OBVIOUS
  <2>2. g.hop = f.hop + 1 /\ g.seq = f.seq + 1 /\ g.on = f.on
    BY <2>1 DEF Counters
  <2>3. g \in [on : BOOLEAN, hop : Nat, seq : Nat]
    <3>1. PICK h : h = f.hop + 1
      OBVIOUS
    <3>2. PICK n : n = f.seq + 1
      OBVIOUS
    <3>3. h \in Nat /\ n \in Nat
      BY <1>1, <3>1, <3>2
    <3>4. g = [f EXCEPT !.hop = h, !.seq = n]
      BY <2>1, <3>1, <3>2
    <3> QED BY <3>3, <3>4 DEF Counters
  <2>4. Bumped(f) = g
    BY <2>1 DEF Bumped, Counters
  <2> QED BY <2>2, <2>3, <2>4 DEF Counters
<1> QED BY <1>2, <1>3, <1>4, <1>5, <1>6, <1>7

\* The elements of a record.
LEMMA RecordIs ==
  ASSUME NEW r \in Record
  PROVE  r.hop \in Nat /\ r.seq \in Nat /\ r.t \in {"res", "hop", "end"}
BY DEF Record, ResRecord, HopRecord, EndRecord

\* A longer sequence.
LEMMA Longer ==
  ASSUME NEW S, NEW s \in Seq(S), NEW e \in S, NEW z, z = Append(s, e)
  PROVE  /\ z \in Seq(S) /\ Len(z) = Len(s) + 1 /\ Len(s) \in Nat
         /\ DOMAIN s = 1..Len(s) /\ DOMAIN z = 1..(Len(s) + 1)
         /\ z[Len(s) + 1] = e /\ \A i \in DOMAIN s : z[i] = s[i]
OBVIOUS

\* A tier is not over, and is not the other one.
LEMMA Tiers ==
  ASSUME NEW t \in Tier
  PROVE  Other(t) \in Tier /\ Other(t) # t /\ t # "over"
BY DEF Tier, Other

-----------------------------------------------------------------------------
(* The order and the counts when a record is added.                        *)

\* The stack records a touch or a crossing, and its counters move on.
LEMMA OrderGrows ==
  ASSUME Typed, Ordered, Counts, at \in Tier, NEW r \in Record, r.t \in {"res", "hop"},
         r.hop = flag[at].hop, r.seq = flag[at].seq, log' = Append(log, r),
         at' \in Tier, setting' = setting, behind => behind', away => away',
         ~behind' => /\ flag'[at'].seq = r.seq + 1
                     /\ flag'[at'].hop = IF r.t = "hop" THEN r.hop + 1 ELSE r.hop
  PROVE  Ordered' /\ Counts'
<1>1. PICK n : n = Len(log)
  OBVIOUS
<1>2. /\ n \in Nat /\ DOMAIN log = 1..n /\ DOMAIN log' = 1..(n + 1) /\ Len(log') = n + 1
      /\ log'[n + 1] = r /\ \A i \in 1..n : log'[i] = log[i] /\ log[i] \in Record
  BY <1>1, Longer DEF Typed
<1>3. \A i \in 1..n : log[i].hop \in Nat /\ log[i].seq \in Nat
  BY <1>2, RecordIs
<1>4. r.hop \in Nat /\ r.seq \in Nat
  BY RecordIs
<1>5. \A i \in 1..n : log[i].t # "end" /\ (~behind => log[i].seq < r.seq)
  BY <1>2 DEF Ordered
<1>6. InOrder'
  <2>1. SUFFICES ASSUME NEW i \in 1..(n + 1), NEW j \in 1..(n + 1), i < j
                 PROVE  /\ log'[i].t # "end"
                        /\ \/ log'[i].seq < log'[j].seq \/ behind'
                           \/ setting.mode = "local" /\ away' /\ log'[j].t = "end"
    BY <1>2 DEF InOrder
  <2>2. i \in 1..n
    BY <1>2, <2>1
  <2>3. CASE j = n + 1
    BY <1>2, <1>5, <2>2, <2>3
  <2>4. CASE j \in 1..n
    <3>1. \/ log[i].seq < log[j].seq \/ behind
          \/ setting.mode = "local" /\ away /\ log[j].t = "end"
      BY <1>2, <2>1, <2>2, <2>4 DEF Ordered, InOrder
    <3> QED BY <1>2, <1>5, <2>2, <2>4, <3>1
  <2> QED BY <1>2, <2>3, <2>4
<1>7. Ordered'
  <2>1. \A i \in 1..(n + 1) : log'[i].t # "end"
    BY <1>2, <1>5
  <2>2. ASSUME ~behind', NEW i \in 1..(n + 1)
        PROVE  log'[i].seq < flag'[at'].seq
    <3>1. CASE i = n + 1
      BY <1>2, <1>4, <2>2, <3>1
    <3>2. CASE i \in 1..n
      <4>1. log[i].seq < r.seq /\ log[i].seq \in Nat
        BY <1>3, <1>5, <2>2, <3>2
      <4> QED BY <1>2, <1>4, <2>2, <3>2, <4>1
    <3> QED BY <1>2, <2>2, <3>1, <3>2
  <2> QED BY <1>2, <1>6, <2>1, <2>2 DEF Ordered
<1>8. ASSUME ~behind', NEW i \in 1..n
      PROVE  log[i].hop <= r.hop /\ (log[i].hop = r.hop <=> \A k \in i..n : log[k].t # "hop")
  BY <1>1, <1>2, <1>8 DEF Counts
<1>9. ASSUME ~behind', NEW i \in 1..(n + 1), NEW j \in 1..(n + 1), i < j, log'[j].t # "end"
      PROVE  /\ log'[i].hop <= log'[j].hop
             /\ log'[i].hop = log'[j].hop <=> \A k \in i..(j - 1) : log'[k].t # "hop"
  <2>1. i \in 1..n /\ i..(j - 1) \subseteq 1..n
    BY <1>2, <1>9
  <2>2. CASE j = n + 1
    <3>1. j - 1 = n
      BY <1>2, <2>2
    <3> QED BY <1>2, <1>8, <1>9, <2>1, <2>2, <3>1
  <2>3. CASE j \in 1..n
    <3>1. log[j].t # "end" /\ ~behind
      BY <1>2, <1>9, <2>3
    <3>2. /\ log[i].hop <= log[j].hop
          /\ log[i].hop = log[j].hop <=> \A k \in i..(j - 1) : log[k].t # "hop"
      BY <1>2, <1>9, <2>1, <2>3, <3>1 DEF Counts
    <3> QED BY <1>2, <2>1, <2>3, <3>2
  <2> QED BY <1>2, <1>9, <2>2, <2>3
<1>10. ASSUME ~behind', NEW i \in 1..(n + 1)
       PROVE  /\ log'[i].hop <= flag'[at'].hop
              /\ log'[i].hop = flag'[at'].hop <=> \A k \in i..(n + 1) : log'[k].t # "hop"
  <2>1. CASE i = n + 1
    <3>1. i..(n + 1) = {n + 1}
      BY <1>2, <2>1
    <3>2. (\A k \in i..(n + 1) : log'[k].t # "hop") <=> r.t # "hop"
      BY <1>2, <3>1
    <3>3. log'[i].hop = r.hop
      BY <1>2, <2>1
    <3>4. flag'[at'].hop = IF r.t = "hop" THEN r.hop + 1 ELSE r.hop
      BY <1>10
    <3>5. log'[i].hop <= flag'[at'].hop
      BY <1>4, <3>3, <3>4
    <3>6. log'[i].hop = flag'[at'].hop <=> r.t # "hop"
      BY <1>4, <3>3, <3>4
    <3> QED BY <3>2, <3>5, <3>6
  <2>2. CASE i \in 1..n
    <3>1. log[i].hop <= r.hop /\ (log[i].hop = r.hop <=> \A k \in i..n : log[k].t # "hop")
      BY <1>8, <1>10, <2>2
    <3>2. i..(n + 1) = i..n \cup {n + 1} /\ i..n \subseteq 1..n
      BY <1>2, <2>2
    <3>3. (\A k \in i..(n + 1) : log'[k].t # "hop")
            <=> (\A k \in i..n : log[k].t # "hop") /\ r.t # "hop"
      BY <1>2, <3>2
    <3>4. log[i].hop \in Nat /\ log'[i] = log[i]
      BY <1>2, <1>3, <2>2
    <3>5. flag'[at'].hop = IF r.t = "hop" THEN r.hop + 1 ELSE r.hop
      BY <1>10
    <3>6. log'[i].hop <= flag'[at'].hop
      BY <1>4, <3>1, <3>4, <3>5
    <3>7. log'[i].hop = flag'[at'].hop <=> log[i].hop = r.hop /\ r.t # "hop"
      BY <1>4, <3>1, <3>4, <3>5
    <3> QED BY <3>1, <3>3, <3>6, <3>7
  <2> QED BY <1>2, <1>10, <2>1, <2>2
<1>11. Counts'
  BY <1>2, <1>9, <1>10 DEF Counts
<1> QED BY <1>7, <1>11

\* Nothing is recorded.
LEMMA OrderStays ==
  ASSUME Ordered, Counts, at \in Tier, log' = log, at' \in Tier, setting' = setting,
         behind => behind', away => away',
         flag'[at'].hop = flag[at].hop, flag'[at'].seq = flag[at].seq
  PROVE  Ordered' /\ Counts'
<1>1. Ordered'
  BY DEF Ordered, InOrder
<1>2. Counts'
  BY DEF Counts
<1> QED BY <1>1, <1>2

\* The run is over, with a record of its end or without.
LEMMA OrderEnds ==
  ASSUME Typed, Ordered, Counts, at \in Tier, at' = "over",
         UNCHANGED <<setting, behind, away>>, NEW r \in Record, r.t = "end",
         log' \in {log, Append(log, r)},
         behind \/ r.seq >= flag[at].seq \/ (setting.mode = "local" /\ away)
  PROVE  Ordered' /\ Counts'
<1>1. at' \notin Tier
  BY DEF Tier
<1>2. CASE log' = log
  <2>1. Ordered'
    BY <1>1, <1>2 DEF Ordered, InOrder
  <2>2. Counts'
    BY <1>1, <1>2 DEF Counts
  <2> QED BY <2>1, <2>2
<1>3. CASE log' = Append(log, r)
  <2>1. PICK n : n = Len(log)
    OBVIOUS
  <2>2. /\ n \in Nat /\ DOMAIN log = 1..n /\ DOMAIN log' = 1..(n + 1)
        /\ log'[n + 1] = r /\ \A i \in 1..n : log'[i] = log[i] /\ log[i] \in Record
    BY <1>3, <2>1, Longer DEF Typed
  <2>3. r.seq \in Nat /\ flag[at].seq \in Nat /\ \A i \in 1..n : log[i].seq \in Nat
    BY <2>2, RecordIs DEF Typed, Counters
  <2>4. \A i \in 1..n : log[i].t # "end" /\ (~behind => log[i].seq < flag[at].seq)
    BY <2>2 DEF Ordered
  <2>5. InOrder'
    <3>1. SUFFICES ASSUME NEW i \in 1..(n + 1), NEW j \in 1..(n + 1), i < j
                   PROVE  /\ log'[i].t # "end"
                          /\ \/ log'[i].seq < log'[j].seq \/ behind
                             \/ setting.mode = "local" /\ away /\ log'[j].t = "end"
      BY <2>2 DEF InOrder
    <3>2. i \in 1..n
      BY <2>2, <3>1
    <3>3. CASE j = n + 1
      BY <2>2, <2>3, <2>4, <3>2, <3>3
    <3>4. CASE j \in 1..n
      <4>1. \/ log[i].seq < log[j].seq \/ behind
            \/ setting.mode = "local" /\ away /\ log[j].t = "end"
        BY <2>2, <3>1, <3>2, <3>4 DEF Ordered, InOrder
      <4> QED BY <2>2, <2>4, <3>2, <3>4, <4>1
    <3> QED BY <2>2, <3>3, <3>4
  <2>6. Ordered'
    BY <1>1, <2>5 DEF Ordered
  <2>7. Counts'
    <3>1. SUFFICES ASSUME ~behind, NEW i \in 1..(n + 1), NEW j \in 1..(n + 1), i < j,
                          log'[j].t # "end"
                   PROVE  /\ log'[i].hop <= log'[j].hop
                          /\ log'[i].hop = log'[j].hop <=> \A k \in i..(j - 1) : log'[k].t # "hop"
      BY <1>1, <2>2 DEF Counts
    <3>2. i \in 1..n /\ j \in 1..n /\ i..(j - 1) \subseteq 1..n
      BY <2>2, <3>1
    <3>3. /\ log[i].hop <= log[j].hop
          /\ log[i].hop = log[j].hop <=> \A k \in i..(j - 1) : log[k].t # "hop"
      BY <2>2, <3>1, <3>2 DEF Counts
    <3> QED BY <2>2, <3>2, <3>3
  <2> QED BY <2>6, <2>7
<1> QED BY <1>2, <1>3

\* The log and the path grow together.
LEMMA TellsGrows ==
  ASSUME Typed, Ordered, Tells, at \in Tier, NEW r \in Record, NEW e \in Event, TellsOf(r, e),
         log' = Append(log, r), path' = Append(path, e), flag'[at'].on = flag[at].on,
         setting' = setting, behind => behind', missed => missed'
  PROVE  Tells'
<1>1. SUFFICES ASSUME Whole'
               PROVE  /\ at' \in Tier => flag'[at'].on /\ Len(log') = Len(path')
                      /\ Len(path') <= Len(log')
                      /\ \A i \in DOMAIN log' : i > Len(path') => log'[i].t = "end"
                      /\ \A i \in DOMAIN path' : TellsOf(log'[i], path'[i])
  BY DEF Tells
<1>2. Whole
  BY <1>1 DEF Whole
<1>3. /\ flag[at].on /\ Len(log) = Len(path)
      /\ \A i \in DOMAIN path : TellsOf(log[i], path[i])
  BY <1>2 DEF Tells
<1>4. PICK n : n = Len(log)
  OBVIOUS
<1>5. /\ n \in Nat /\ DOMAIN log' = 1..(n + 1) /\ Len(log') = n + 1
      /\ log'[n + 1] = r /\ \A i \in 1..n : log'[i] = log[i]
  BY <1>4, Longer DEF Typed
<1>6. /\ DOMAIN path = 1..n /\ DOMAIN path' = 1..(n + 1) /\ Len(path') = n + 1
      /\ path'[n + 1] = e /\ \A i \in 1..n : path'[i] = path[i]
  BY <1>3, <1>4, Longer DEF Typed
<1>7. \A i \in 1..(n + 1) : TellsOf(log'[i], path'[i])
  <2>1. SUFFICES ASSUME NEW i \in 1..(n + 1)
                 PROVE  TellsOf(log'[i], path'[i])
    OBVIOUS
  <2>2. CASE i = n + 1
    <3>1. log'[i] = r /\ path'[i] = e
      BY <1>5, <1>6, <2>2
    <3> QED BY <3>1 DEF TellsOf
  <2>3. CASE i \in 1..n
    <3>1. log'[i] = log[i] /\ path'[i] = path[i] /\ TellsOf(log[i], path[i])
      BY <1>3, <1>5, <1>6, <2>3
    <3> QED BY <3>1 DEF TellsOf
  <2>4. i = n + 1 \/ i \in 1..n
    BY <1>5
  <2> QED BY <2>2, <2>3, <2>4
<1> QED BY <1>3, <1>5, <1>6, <1>7

\* Neither grows, or the run is not told whole.
LEMMA TellsStays ==
  ASSUME Tells, at \in Tier, at' \in Tier, log' = log, flag'[at'].on = flag[at].on,
         setting' = setting, behind => behind', missed => missed',
         path' = path \/ ~Whole'
  PROVE  Tells'
<1>1. Whole' => Whole
  BY DEF Whole
<1> QED BY <1>1 DEF Tells

\* The end.
LEMMA TellsEnds ==
  ASSUME Typed, Tells, at \in Tier, at' = "over", NEW r \in Record, r.t = "end",
         log' \in {log, Append(log, r)}, UNCHANGED <<setting, path, behind, missed>>
  PROVE  Tells'
<1>1. at' \notin Tier
  BY DEF Tier
<1>2. CASE log' = log
  BY <1>1, <1>2 DEF Tells, Whole
<1>3. CASE log' = Append(log, r)
  <2>1. SUFFICES ASSUME Whole
                 PROVE  /\ Len(path) <= Len(log')
                        /\ \A i \in DOMAIN log' : i > Len(path) => log'[i].t = "end"
                        /\ \A i \in DOMAIN path : TellsOf(log'[i], path[i])
    BY <1>1 DEF Tells, Whole
  <2>2. /\ Len(log) = Len(path) /\ \A i \in DOMAIN path : TellsOf(log[i], path[i])
    BY <2>1 DEF Tells
  <2>3. PICK n : n = Len(log)
    OBVIOUS
  <2>4. /\ n \in Nat /\ DOMAIN log' = 1..(n + 1) /\ Len(log') = n + 1
        /\ log'[n + 1] = r /\ \A i \in 1..n : log'[i] = log[i]
    BY <1>3, <2>3, Longer DEF Typed
  <2>5. DOMAIN path = 1..n
    BY <2>2, <2>3 DEF Typed
  <2> QED BY <2>2, <2>3, <2>4, <2>5
<1> QED BY <1>2, <1>3

-----------------------------------------------------------------------------
(* The steps.                                                              *)

\* The recorder of the tier the run is on records nothing only if not everything is told.
LEMMA Untraced ==
  ASSUME TInv, at \in Tier, ~Traced(at)
  PROVE  ~Whole
BY DEF TInv, Tells, Traced, Records, Whole

\* A touch succeeds and passes the recorder.
LEMMA TouchedKeeps ==
  ASSUME TInv, at \in Tier, NEW q \in Request, RecordTouch(at, q),
         path' = Append(path, Touched(q)), parked' = None,
         UNCHANGED <<setting, at, held, away, behind, missed>>
  PROVE  TInv'
<1>1. PICK f : f = flag[at]
  OBVIOUS
<1>2. f \in Counters /\ flag \in [Tier -> Counters] /\ log \in Seq(Record) /\ path \in Seq(Event)
  BY <1>1 DEF TInv, Typed
<1>3. /\ Res(f, q) \in Record /\ Res(f, q).t = "res" /\ Res(f, q).hop = f.hop
      /\ Res(f, q).seq = f.seq /\ TellsOf(Res(f, q), Touched(q)) /\ Touched(q) \in Event
      /\ Counted(f) \in Counters /\ Counted(f).hop = f.hop /\ Counted(f).seq = f.seq + 1
      /\ Counted(f).on = f.on
  BY <1>2, RecordsAre
<1>4. path' \in Seq(Event)
  BY <1>2, <1>3, Longer
<1>5. CASE Traced(at)
  <2>1. log' = Append(log, Res(f, q)) /\ flag' = [flag EXCEPT ![at] = Counted(f)]
    BY <1>1, <1>5 DEF RecordTouch
  <2>2. log' \in Seq(Record) /\ flag' \in [Tier -> Counters] /\ flag'[at] = Counted(f)
    BY <1>2, <1>3, <2>1, Longer
  <2>3. Typed'
    BY <1>4, <2>2 DEF TInv, Typed
  <2>4. Ordered' /\ Counts'
    <3>1. PICK r \in Record : r = Res(f, q)
      BY <1>3
    <3> QED BY <1>1, <1>3, <2>1, <2>2, <3>1, OrderGrows DEF TInv
  <2>5. Tells'
    BY <1>1, <1>3, <2>1, <2>2, TellsGrows DEF TInv
  <2> QED BY <2>3, <2>4, <2>5 DEF TInv
<1>6. CASE ~Traced(at)
  <2>1. log' = log /\ flag' = flag
    BY <1>6 DEF RecordTouch
  <2>2. Typed'
    BY <1>4, <2>1 DEF TInv, Typed
  <2>3. Ordered' /\ Counts'
    BY <2>1, OrderStays DEF TInv
  <2>4. ~Whole'
    BY <1>6, Untraced DEF Whole
  <2>5. Tells'
    BY <2>4 DEF Tells
  <2> QED BY <2>2, <2>3, <2>5 DEF TInv
<1> QED BY <1>5, <1>6

\* The stack goes on without a record.
LEMMA SilentKeeps ==
  ASSUME TInv, at \in Tier, parked' \in Request \cup {Home, None},
         UNCHANGED <<setting, at, flag, held, away, log, path, behind, missed>>
  PROVE  TInv'
<1>1. Typed'
  BY DEF TInv, Typed
<1>2. Ordered' /\ Counts'
  BY OrderStays DEF TInv
<1>3. Tells'
  BY TellsStays DEF TInv
<1> QED BY <1>1, <1>2, <1>3 DEF TInv

\* The run is over.
LEMMA EndKeeps ==
  ASSUME TInv, at \in Tier, at' = "over", NEW f \in Counters, NEW outcome \in {"done", "error"},
         log' \in {log, Append(log, End(f, outcome))},
         behind \/ f.seq >= flag[at].seq \/ (setting.mode = "local" /\ away),
         UNCHANGED <<setting, parked, flag, held, away, path, behind, missed>>
  PROVE  TInv'
<1>1. PICK r \in Record : r = End(f, outcome) /\ r.t = "end" /\ r.seq = f.seq
  BY RecordsAre
<1>2. log' \in Seq(Record)
  BY <1>1, Longer DEF TInv, Typed
<1>3. Typed'
  BY <1>2 DEF TInv, Typed
<1>4. Ordered' /\ Counts'
  BY <1>1, OrderEnds DEF TInv
<1>5. Tells'
  BY <1>1, TellsEnds DEF TInv
<1> QED BY <1>3, <1>4, <1>5 DEF TInv

\* What a stack came for, or touches, is a request.
LEMMA ParkedIs ==
  ASSUME TInv, parked # None, parked # Home
  PROVE  parked \in Request
BY DEF TInv, Typed

\* The touch of the tier's own resource.
LEMMA ServesKeeps ==
  ASSUME TInv, at \in Tier, NEW q \in Request, Serves(q)
  PROVE  TInv'
BY TouchedKeeps DEF Serves

\* A touch.
LEMMA TouchKeeps ==
  ASSUME TInv, NEW q \in Request, Touch(q)
  PROVE  TInv'
<1>1. at \in Tier
  BY DEF Touch, Runs
<1>2. CASE Owner[q.site] = at
  BY <1>1, <1>2, ServesKeeps DEF Touch
<1>3. CASE Owner[q.site] # at
  BY <1>1, <1>3, SilentKeeps DEF Touch
<1> QED BY <1>2, <1>3

\* The stack arrives, and what it came for is served.
LEMMA ServeIncomingKeeps ==
  ASSUME TInv, ServeIncoming
  PROVE  TInv'
<1>1. at \in Tier /\ Serves(parked) /\ parked.op = "resource"
  BY DEF ServeIncoming, Arrived
<1>2. parked # None /\ parked # Home
  BY <1>1 DEF None, Home
<1> QED BY <1>1, <1>2, ParkedIs, ServesKeeps

\* The program returns.
LEMMA ReturnsKeeps ==
  ASSUME TInv, Returns
  PROVE  TInv'
<1>1. at \in Tier
  BY DEF Returns, Runs
<1>2. PICK f : f = IF setting.mode = "local" /\ at = "home" /\ away THEN held ELSE flag[at]
  OBVIOUS
<1>3. f \in Counters /\ flag[at].seq \in Nat
  BY <1>1, <1>2 DEF TInv, Typed, Counters
<1>4. log' \in {log, Append(log, End(f, "done"))}
  BY <1>2 DEF Returns, RecordEnd
<1>5. f.seq >= flag[at].seq \/ (setting.mode = "local" /\ away)
  BY <1>2, <1>3
<1> QED BY <1>1, <1>3, <1>4, <1>5, EndKeeps DEF Returns

\* An error no frame catches.
LEMMA ThrowsKeeps ==
  ASSUME TInv, Throws
  PROVE  TInv'
<1>1. at \in Tier
  BY DEF Throws, Runs
<1>2. PICK f : f = flag[at]
  OBVIOUS
<1>3. f \in Counters /\ f.seq >= flag[at].seq
  BY <1>1, <1>2 DEF TInv, Typed, Counters
<1>4. log' \in {log, Append(log, End(f, "error"))}
  BY <1>2 DEF Throws, RecordEnd
<1> QED BY <1>1, <1>3, <1>4, EndKeeps DEF Throws

\* The continuation cannot be encoded.
LEMMA ShipFailsKeeps ==
  ASSUME TInv, ShipFails
  PROVE  TInv'
<1>1. at \in Tier
  BY DEF ShipFails, Waits
<1>2. PICK f : f = Bumped(flag[at])
  OBVIOUS
<1>3. flag[at] \in Counters /\ flag[at].seq \in Nat
  BY <1>1 DEF TInv, Typed, Counters
<1>4. f \in Counters /\ f.seq >= flag[at].seq
  BY <1>2, <1>3, RecordsAre
<1>5. log' \in {log, Append(log, End(f, "error"))}
  BY <1>2 DEF ShipFails, RecordEnd
<1> QED BY <1>1, <1>4, <1>5, EndKeeps DEF ShipFails

\* The stack stays where it is and the value comes.
LEMMA FetchKeeps ==
  ASSUME TInv, Fetch
  PROVE  TInv'
<1>1. at \in Tier /\ parked \in Request
  BY ParkedIs DEF Fetch, Fetches, Waits
<1>2. CASE setting.mode = "local"
  BY <1>1, <1>2, TouchedKeeps DEF Fetch
<1>3. CASE setting.mode # "local"
  <2>1. /\ missed' = TRUE /\ log' = log /\ flag' = flag /\ path' = Append(path, Touched(parked))
        /\ parked' = None /\ UNCHANGED <<setting, at, held, away, behind>>
    BY <1>3 DEF Fetch
  <2>2. path' \in Seq(Event)
    <3>1. Touched(parked) \in Event
      <4>1. flag[at] \in Counters
        BY <1>1 DEF TInv, Typed
      <4> QED BY <1>1, <4>1, RecordsAre
    <3> QED BY <2>1, <3>1, Longer DEF TInv, Typed
  <2>3. Typed'
    BY <2>1, <2>2 DEF TInv, Typed
  <2>4. Ordered' /\ Counts'
    BY <1>1, <2>1, OrderStays DEF TInv
  <2>5. Tells'
    BY <2>1 DEF Tells, Whole
  <2> QED BY <2>3, <2>4, <2>5 DEF TInv
<1> QED BY <1>2, <1>3

\* A touch fails and a frame catches it; or the stop rule parks.
LEMMA CaughtKeeps ==
  ASSUME TInv, Caught \/ ParkHome
  PROVE  TInv'
<1>1. at \in Tier
  BY DEF Caught, Fetches, Waits, ParkHome, Runs
<1>2. /\ parked' \in Request \cup {Home, None}
      /\ UNCHANGED <<setting, at, flag, held, away, log, path, behind, missed>>
  BY DEF Caught, ParkHome
<1> QED BY <1>1, <1>2, SilentKeeps

\* The continuation crosses.
LEMMA ShipKeeps ==
  ASSUME TInv, Ship
  PROVE  TInv'
<1>1. PICK f : f = flag[at]
  OBVIOUS
<1>2. PICK u : u = Other(at)
  OBVIOUS
<1>3. at \in Tier /\ u \in Tier /\ u # at
  BY <1>2, Tiers DEF Ship, Waits
<1>4. f \in Counters /\ flag \in [Tier -> Counters] /\ log \in Seq(Record) /\ path \in Seq(Event)
  BY <1>1, <1>3 DEF TInv, Typed
<1>5. /\ Hop(f) \in Record /\ Hop(f).t = "hop" /\ Hop(f).hop = f.hop /\ Hop(f).seq = f.seq
      /\ TellsOf(Hop(f), Crossed) /\ Crossed \in Event
      /\ Bumped(f) \in Counters /\ Bumped(f).hop = f.hop + 1 /\ Bumped(f).seq = f.seq + 1
      /\ Bumped(f).on = f.on
  BY <1>4, RecordsAre
<1>6. PICK g : g = Shipped(at)
  OBVIOUS
<1>7. g \in {f, Bumped(f)}
  BY <1>1, <1>6 DEF Shipped
<1>8. PICK h : h = IF Traced(at) THEN Bumped(f) ELSE f
  OBVIOUS
<1>9. flag' = [flag EXCEPT ![u] = g, ![at] = h]
  BY <1>1, <1>2, <1>3, <1>4, <1>6, <1>8 DEF Ship
<1>10. flag' \in [Tier -> Counters] /\ flag'[u] = g
  <2>1. h \in Counters /\ g \in Counters
    BY <1>4, <1>5, <1>7, <1>8
  <2> QED BY <1>3, <1>4, <1>9, <2>1
<1>11. /\ at' = u /\ path' = Append(path, Crossed) /\ UNCHANGED <<setting, missed>>
       /\ log' = IF Traced(at) THEN Append(log, Hop(f)) ELSE log
       /\ behind' = (behind \/ (Traced(at) /\ PricedFirst(at)))
       /\ away' = (away \/ at = "far")
       /\ held' \in {held, flag'["home"]}
       /\ parked' \in {None, parked}
  BY <1>1, <1>2 DEF Ship
<1>12. Typed'
  <2>1. path' \in Seq(Event) /\ log' \in Seq(Record)
    BY <1>4, <1>5, <1>11, Longer
  <2>2. held' \in Counters
    BY <1>10, <1>11 DEF TInv, Typed, Tier
  <2>3. behind' \in BOOLEAN /\ away' \in BOOLEAN
    BY <1>11 DEF TInv, Typed
  <2> QED BY <1>3, <1>10, <1>11, <2>1, <2>2, <2>3 DEF TInv, Typed
<1>13. (behind => behind') /\ (away => away')
  BY <1>11
<1>14. CASE Traced(at)
  <2>1. log' = Append(log, Hop(f)) /\ (~behind' => g = Bumped(f))
    BY <1>1, <1>6, <1>11, <1>14 DEF Shipped
  <2>2. Ordered' /\ Counts'
    <3>1. PICK r \in Record : r = Hop(f)
      BY <1>5
    <3> QED BY <1>1, <1>3, <1>5, <1>10, <1>11, <1>13, <2>1, <3>1, OrderGrows DEF TInv
  <2>3. Tells'
    BY <1>1, <1>3, <1>5, <1>7, <1>10, <1>11, <1>13, <2>1, TellsGrows DEF TInv
  <2> QED BY <1>12, <2>2, <2>3 DEF TInv
<1>15. CASE ~Traced(at)
  <2>1. log' = log /\ g = f
    BY <1>1, <1>6, <1>11, <1>15 DEF Shipped
  <2>2. Ordered' /\ Counts'
    BY <1>1, <1>3, <1>10, <1>11, <1>13, <2>1, OrderStays DEF TInv
  <2>3. ~Whole'
    BY <1>3, <1>11, <1>13, <1>15, Untraced DEF Whole
  <2>4. Tells'
    BY <2>3 DEF Tells
  <2> QED BY <1>12, <2>2, <2>4 DEF TInv
<1> QED BY <1>14, <1>15

-----------------------------------------------------------------------------
(* The behaviours.                                                         *)

\* The behaviours begin in the invariant.
LEMMA InitTInv == Init => TInv
<1> SUFFICES ASSUME Init
             PROVE  TInv
  OBVIOUS
<1>1. /\ setting \in Settings /\ at \in Tier /\ parked = None
      /\ flag = [t \in Tier |-> IF t = at /\ {"home", t} \subseteq setting.recorders
                                THEN Stamp ELSE NoFlag]
      /\ held = flag["home"] /\ away = FALSE
      /\ log = <<>> /\ path = <<>> /\ behind = FALSE /\ missed = FALSE
  BY DEF Init, Tier
<1>2. Stamp \in Counters /\ NoFlag \in Counters /\ Stamp.on
  BY DEF Stamp, NoFlag, Counters
<1>3. flag \in [Tier -> Counters]
  BY <1>1, <1>2
<1>4. held \in Counters
  BY <1>1, <1>3 DEF Tier
<1>5. Typed
  <2>1. <<>> \in Seq(Record) /\ <<>> \in Seq(Event)
    OBVIOUS
  <2> QED BY <1>1, <1>3, <1>4, <2>1 DEF Typed
<1>6. Ordered /\ Counts
  BY <1>1 DEF Ordered, Counts, InOrder
<1>7. Tells
  <2>1. setting.recorders = Tier => flag[at].on
    BY <1>1, <1>2 DEF Tier
  <2> QED BY <1>1, <2>1 DEF Tells, Whole
<1> QED BY <1>5, <1>6, <1>7 DEF TInv

\* Every step keeps it.
LEMMA StepKeeps == TInv /\ [Next]_vars => TInv'
<1> SUFFICES ASSUME TInv, [Next]_vars
             PROVE  TInv'
  OBVIOUS
<1>1. CASE UNCHANGED vars
  BY <1>1 DEF TInv, Typed, Ordered, InOrder, Counts, Tells, Whole, vars
<1>2. CASE Next
  BY <1>2, ServeIncomingKeeps, CaughtKeeps, ReturnsKeeps, ThrowsKeeps, TouchKeeps, ShipKeeps,
     ShipFailsKeeps, FetchKeeps DEF Next
<1> QED BY <1>1, <1>2

\* The invariant holds throughout.
LEMMA Invariant == Spec => []TInv
BY InitTInv, StepKeeps, PTL DEF Spec

\* The types, and that the counters of the stack that runs are past every record of either
\* tier (trace.mts:172).
THEOREM TypeCorrect == Spec => []TypeOK
<1>1. TInv => TypeOK
  <2>1. SUFFICES ASSUME TInv
                 PROVE  TypeOK
    OBVIOUS
  <2>2. \A i \in DOMAIN log : log[i] \in Record
    BY <2>1 DEF TInv, Typed
  <2>3. \A i \in DOMAIN log :
          log[i].t \in {"res", "hop", "end"} /\ {log[i].hop, log[i].seq} \subseteq Nat
    BY <2>2, RecordIs
  <2>4. \A i \in DOMAIN path : path[i].kind \in {"touch", "cross"}
    <3>1. \A i \in DOMAIN path : path[i] \in Event
      BY <2>1 DEF TInv, Typed
    <3> QED BY <3>1 DEF Event, Crossed
  <2>5. \A f \in {flag["home"], flag["far"], held} : f \in [on : BOOLEAN, hop : Nat, seq : Nat]
    BY <2>1 DEF TInv, Typed, Counters, Tier
  <2>6. at \in Tier /\ ~behind =>
          \A i \in DOMAIN log : log[i].seq < flag[at].seq /\ log[i].hop <= flag[at].hop
    BY <2>1 DEF TInv, Ordered, Counts
  <2> QED BY <2>1, <2>3, <2>4, <2>5, <2>6 DEF TypeOK, TInv, Typed
<1> QED BY <1>1, Invariant, PTL

\* The records of the two tiers, sorted by their counters alone, are in the order in which
\* things happened, and the end of the run is the last.
THEOREM RecordsInOrder == Spec => []InOrder
<1>1. TInv => InOrder
  BY DEF TInv, Ordered
<1> QED BY <1>1, Invariant, PTL

\* Where both tiers record and drive fetched nothing, the log is the path: each touch and each
\* crossing has its record, and touches share a hop exactly between the same two crossings.
THEOREM LogTellsThePath == Spec => []SegmentsApart
<1>1. TInv => SegmentsApart
  <2>1. SUFFICES ASSUME TInv, Whole
                 PROVE  SegmentsApart
    BY DEF SegmentsApart
  <2>2. PICK n : n = Len(path)
    OBVIOUS
  <2>3. n \in Nat /\ DOMAIN path = 1..n /\ DOMAIN log = 1..Len(log) /\ Len(log) \in Nat
    BY <2>1, <2>2 DEF TInv, Typed
  <2>4. /\ n <= Len(log) /\ ~behind
        /\ \A i \in DOMAIN log : i > n => log[i].t = "end"
        /\ \A i \in 1..n : TellsOf(log[i], path[i])
    BY <2>1, <2>2, <2>3 DEF TInv, Tells, Whole
  <2>5. DOMAIN path \subseteq DOMAIN log /\ \A i \in DOMAIN log \ DOMAIN path : log[i].t = "end"
    BY <2>3, <2>4
  <2>6. ASSUME NEW i \in DOMAIN path, NEW j \in DOMAIN path, i < j,
               Crossed \notin {path[i], path[j]}
        PROVE  log[i].hop = log[j].hop <=> \A k \in i..j : path[k] # Crossed
    <3>1. i \in 1..n /\ j \in 1..n /\ i..j \subseteq 1..n /\ i..j = i..(j - 1) \cup {j}
      BY <2>3, <2>6
    <3>2. \A k \in i..j : log[k].t = "hop" <=> path[k] = Crossed
      BY <2>4, <3>1 DEF TellsOf
    <3>3. log[j].t # "end"
      BY <2>4, <3>1 DEF TellsOf
    <3>4. log[i].hop = log[j].hop <=> \A k \in i..(j - 1) : log[k].t # "hop"
      BY <2>1, <2>4, <2>5, <2>6, <3>3 DEF TInv, Counts
    <3> QED BY <2>6, <3>1, <3>2, <3>4
  <2>7. \A i \in DOMAIN path :
          IF path[i] = Crossed
          THEN log[i].t = "hop"
          ELSE log[i].t = "res" /\ log[i].site = path[i].site /\ log[i].sized = path[i].sized
    BY <2>3, <2>4 DEF TellsOf
  <2> QED BY <2>5, <2>6, <2>7 DEF SegmentsApart
<1> QED BY <1>1, Invariant, PTL

-----------------------------------------------------------------------------
(* The profile                                                             *)

\* Each number up to the size of a finite set of numbers is the place of one of them.
LEMMA Places ==
  ASSUME NEW S \in SUBSET Nat, IsFiniteSet(S), NEW n \in 1..Cardinality(S)
  PROVE  \E x \in S : Cardinality({y \in S : y <= x}) = n
<1> DEFINE Upto(x) == {y \in S : y <= x}
<1>1. Cardinality(S) \in Nat
  BY FS_CardinalityType
<1>2. ASSUME NEW x \in S
      PROVE  IsFiniteSet(Upto(x)) /\ Cardinality(Upto(x)) \in 1..Cardinality(S)
  <2>1. Upto(x) \in SUBSET S /\ x \in Upto(x)
    OBVIOUS
  <2>2. IsFiniteSet(Upto(x)) /\ Cardinality(Upto(x)) <= Cardinality(S)
    BY <2>1, FS_Subset
  <2>3. Cardinality(Upto(x)) \in Nat /\ Cardinality(Upto(x)) # 0
    BY <2>1, <2>2, FS_CardinalityType, FS_EmptySet
  <2> HIDE DEF Upto
  <2> QED BY <1>1, <2>2, <2>3
<1>3. ASSUME NEW x \in S, NEW y \in S, x < y
      PROVE  Cardinality(Upto(x)) # Cardinality(Upto(y))
  <2>1. x \in Nat /\ y \in Nat
    OBVIOUS
  <2>2. y \in Upto(y) /\ ~(y <= x)
    BY <1>3, <2>1
  <2>3. \A z \in S : z <= x => z <= y
    BY <1>3, <2>1
  <2>4. Upto(x) \in SUBSET Upto(y) /\ Upto(x) # Upto(y)
    BY <2>2, <2>3
  <2>5. IsFiniteSet(Upto(y))
    BY <1>2
  <2> QED BY <2>4, <2>5, FS_Subset
<1>4. DEFINE f == [x \in S |-> Cardinality(Upto(x))]
<1> HIDE DEF Upto
<1>5. \A x, y \in S : Cardinality(Upto(x)) = Cardinality(Upto(y)) => x = y
  <2> TAKE x, y \in S
  <2>1. x \in Nat /\ y \in Nat
    OBVIOUS
  <2> QED BY <1>3, <2>1
<1>6. f \in Injection(S, 1..Cardinality(S))
  BY <1>2, <1>5 DEF Injection, IsInjective
<1>7. IsFiniteSet(1..Cardinality(S)) /\ Cardinality(1..Cardinality(S)) = Cardinality(S)
  BY <1>1, FS_Interval
<1>8. f \in Surjection(S, 1..Cardinality(S))
  BY <1>6, <1>7, FS_Injection
<1> QED BY <1>8 DEF Surjection, Upto

\* The log of a run that is recorded whole: the touches of the path, in its order.
LEMMA TouchesAre ==
  ASSUME TInv, InOrder, SegmentsApart, Whole
  PROVE  /\ DOMAIN path \in SUBSET Nat /\ IsFiniteSet(DOMAIN path)
         /\ Touches = {i \in DOMAIN path : path[i] # Crossed}
         /\ \A i \in Touches : log[i].site = path[i].site /\ log[i].sized = path[i].sized
         /\ \A i, j \in Touches : Before(i, j) <=> i < j
<1>1. DOMAIN path = 1..Len(path) /\ Len(path) \in Nat /\ DOMAIN log = 1..Len(log)
      /\ Len(log) \in Nat /\ \A i \in DOMAIN log : log[i] \in Record
  BY DEF TInv, Typed
<1>2. DOMAIN path \in SUBSET Nat /\ IsFiniteSet(DOMAIN path)
  BY <1>1, FS_Interval
<1>3. /\ DOMAIN path \subseteq DOMAIN log
      /\ \A i \in DOMAIN log \ DOMAIN path : log[i].t = "end"
      /\ \A i \in DOMAIN path :
           IF path[i] = Crossed
           THEN log[i].t = "hop"
           ELSE log[i].t = "res" /\ log[i].site = path[i].site /\ log[i].sized = path[i].sized
  BY DEF SegmentsApart
<1>4. Touches = {i \in DOMAIN path : path[i] # Crossed}
  <2>1. \A i : i \in Touches <=> i \in DOMAIN path /\ path[i] # Crossed
    BY <1>3 DEF Touches
  <2> QED BY <2>1
<1>5. \A i \in Touches : log[i].site = path[i].site /\ log[i].sized = path[i].sized
  BY <1>3, <1>4
<1>6. ASSUME NEW i \in Touches, NEW j \in Touches
      PROVE  Before(i, j) <=> i < j
  <2>1. i \in DOMAIN log /\ j \in DOMAIN log /\ i \in Nat /\ j \in Nat
        /\ log[i].t = "res" /\ log[j].t = "res"
    BY <1>1 DEF Touches
  <2>2. log[i].seq \in Nat /\ log[j].seq \in Nat
    BY <1>1, <2>1, RecordIs
  <2>3. (i < j => log[i].seq < log[j].seq) /\ (j < i => log[j].seq < log[i].seq)
    BY <2>1 DEF InOrder, Whole
  <2> QED BY <2>1, <2>2, <2>3 DEF Before
<1> QED BY <1>2, <1>4, <1>5, <1>6

\* What follows a touch in the log is what followed it on the path.
LEMMA SuffixIs ==
  ASSUME TInv, InOrder, SegmentsApart, Whole, NEW i \in Touches
  PROVE  Suffix(i) = Followed(i) /\ Followed(i) \in SUBSET Touches
<1>1. /\ DOMAIN path = 1..Len(path) /\ Len(path) \in Nat
      /\ Touches = {k \in DOMAIN path : path[k] # Crossed}
      /\ \A k \in Touches : log[k].site = path[k].site
      /\ \A k, j \in Touches : Before(k, j) <=> k < j
  BY TouchesAre DEF TInv, Typed
<1>2. \A k, j \in Touches : k < j =>
        (log[k].hop = log[j].hop <=> \A m \in k..j : path[m] # Crossed)
  BY <1>1 DEF SegmentsApart
<1>3. \A j, k \in Touches : ~Before(j, k) <=> k <= j
  BY <1>1
<1>4. ASSUME NEW j \in Suffix(i)
      PROVE  j \in Followed(i)
  <2>1. j \in Touches /\ i < j /\ i \in 1..Len(path) /\ j \in 1..Len(path)
        /\ \A k \in Touches : i < k /\ k <= j => ~Cut(k, i)
    BY <1>1, <1>3 DEF Suffix
  <2>2. ~Cut(j, i)
    BY <2>1
  <2>3. \A m \in i..j : path[m] # Crossed
    BY <1>2, <2>1, <2>2 DEF Cut
  <2>4. ASSUME NEW k \in (i + 1)..j
        PROVE  path[k] # Crossed /\ Owner[path[k].site] = Owner[path[i].site]
    <3>1. k \in i..j /\ k \in 1..Len(path) /\ i < k /\ k <= j
      BY <1>1, <2>1
    <3>2. k \in Touches
      BY <1>1, <2>3, <3>1
    <3> QED BY <1>1, <2>1, <3>1, <3>2 DEF Cut
  <2> QED BY <1>1, <2>1, <2>4 DEF Followed
<1>5. ASSUME NEW j \in Followed(i)
      PROVE  j \in Touches /\ j \in Suffix(i)
  <2>1. /\ j \in 1..Len(path) /\ i \in 1..Len(path) /\ i < j
        /\ \A k \in (i + 1)..j : path[k] # Crossed /\ Owner[path[k].site] = Owner[path[i].site]
    BY <1>1 DEF Followed
  <2>2. j \in (i + 1)..j
    BY <2>1
  <2>3. j \in Touches
    BY <1>1, <2>1, <2>2
  <2>4. ASSUME NEW k \in Touches, i < k, k <= j
        PROVE  ~Cut(k, i)
    <3>1. k \in (i + 1)..j /\ i..k \subseteq {i} \cup (i + 1)..j
      BY <1>1, <2>1, <2>4
    <3>2. \A m \in i..k : path[m] # Crossed
      BY <1>1, <2>1, <3>1
    <3>3. log[i].hop = log[k].hop
      BY <1>2, <2>4, <3>2
    <3> QED BY <1>1, <2>1, <3>1, <3>3 DEF Cut
  <2> QED BY <1>1, <1>3, <2>1, <2>3, <2>4 DEF Suffix
<1> QED BY <1>4, <1>5

\* And its signature is of the sites that were touched, in their order.
LEMMA SignatureIs ==
  ASSUME TInv, InOrder, SegmentsApart, Whole, NEW S \in SUBSET Touches
  PROVE  Signature(S) = SitesOf(S)
<1> DEFINE Nth(n) == {j \in S : Cardinality({k \in S : ~Before(j, k)}) = n}
           PathNth(n) == {j \in S : Cardinality({k \in S : k <= j}) = n}
<1>1. /\ DOMAIN path \in SUBSET Nat /\ IsFiniteSet(DOMAIN path) /\ Touches \in SUBSET DOMAIN path
      /\ \A i \in Touches : log[i].site = path[i].site
      /\ \A i, j \in Touches : Before(i, j) <=> i < j
  BY TouchesAre
<1>2. S \in SUBSET Nat /\ IsFiniteSet(S)
  BY <1>1, FS_Subset
<1>3. ASSUME NEW j \in S
      PROVE  {k \in S : ~Before(j, k)} = {k \in S : k <= j}
  <2>1. \A k \in S : ~Before(j, k) <=> k <= j
    BY <1>1, <1>2
  <2> QED BY <2>1
<1>4. \A n : Nth(n) = PathNth(n)
  BY <1>3
<1>5. ASSUME NEW n \in 1..Cardinality(S)
      PROVE  log[CHOOSE j \in Nth(n) : TRUE].site = path[CHOOSE j \in PathNth(n) : TRUE].site
  <2>1. PathNth(n) # {}
    <3>1. PICK x \in S : Cardinality({k \in S : k <= x}) = n
      BY <1>2, Places
    <3> QED BY <3>1
  <2>2. PICK x : x = CHOOSE j \in PathNth(n) : TRUE
    OBVIOUS
  <2>3. x \in PathNth(n)
    <3> HIDE DEF PathNth
    <3> QED BY <2>1, <2>2
  <2>4. log[x].site = path[x].site
    BY <1>1, <2>3
  <2>5. (CHOOSE j \in Nth(n) : TRUE) = x
    <3>1. Nth(n) = PathNth(n)
      BY <1>4
    <3> HIDE DEF Nth, PathNth
    <3> QED BY <2>2, <3>1
  <2> HIDE DEF Nth, PathNth
  <2> QED BY <2>2, <2>4, <2>5
<1>6. Signature(S) = [n \in 1..Cardinality(S) |-> log[CHOOSE j \in Nth(n) : TRUE].site]
  BY DEF Signature
<1>7. SitesOf(S) = [n \in 1..Cardinality(S) |-> path[CHOOSE j \in PathNth(n) : TRUE].site]
  BY DEF SitesOf
<1> HIDE DEF Nth, PathNth
<1> QED BY <1>5, <1>6, <1>7

\* A profile of a complete run counts, for each site, what followed its touches on the path; and
\* the method boundary migrates only where 9 in 10 of them were followed by a chain.
THEOREM ProfilesAreTrue == Spec => []ProfileTrue
<1>1. TInv /\ InOrder /\ SegmentsApart => ProfileTrue
  <2> SUFFICES ASSUME TInv, InOrder, SegmentsApart, Whole, Complete, NEW s \in Site
               PROVE  /\ SuffixesOf(s) =
                           Summary([i \in Occurs(s) |->
                              [sig |-> SitesOf(Followed(i)), sized |-> \A j \in Followed(i) : path[j].sized]])
                      /\ MethodMigrate(s) =>
                           10 * Cardinality({i \in Occurs(s) : Followed(i) # {}})
                             >= 9 * Cardinality(Occurs(s))
    BY DEF ProfileTrue
  <2> DEFINE there == [i \in {j \in Touches : log[j].site = s} |->
                         [sig |-> Signature(Suffix(i)), sized |-> \A j \in Suffix(i) : log[j].sized]]
             here == [i \in Occurs(s) |->
                        [sig |-> SitesOf(Followed(i)), sized |-> \A j \in Followed(i) : path[j].sized]]
             chained == {i \in Occurs(s) : Followed(i) # {}}
  <2>1. /\ DOMAIN path \in SUBSET Nat /\ IsFiniteSet(DOMAIN path)
        /\ Touches = {i \in DOMAIN path : path[i] # Crossed}
        /\ \A i \in Touches : log[i].site = path[i].site /\ log[i].sized = path[i].sized
    BY TouchesAre
  <2>2. {j \in Touches : log[j].site = s} = Occurs(s) /\ Occurs(s) \in SUBSET Touches
    BY <2>1 DEF Occurs
  <2>3. ASSUME NEW i \in Occurs(s)
        PROVE  /\ Signature(Suffix(i)) = SitesOf(Followed(i))
               /\ (\A j \in Suffix(i) : log[j].sized) = (\A j \in Followed(i) : path[j].sized)
    <3>1. Suffix(i) = Followed(i) /\ Followed(i) \in SUBSET Touches
      BY <2>2, SuffixIs
    <3>2. Signature(Suffix(i)) = SitesOf(Followed(i))
      BY <3>1, SignatureIs
    <3>3. \A j \in Followed(i) : log[j].sized = path[j].sized
      BY <2>1, <3>1
    <3> QED BY <3>1, <3>2, <3>3
  <2>4. there = here
    BY <2>2, <2>3
  <2>5. SuffixesOf(s) = Summary(here)
    BY <2>4 DEF SuffixesOf
  <2>6. ASSUME MethodMigrate(s)
        PROVE  10 * Cardinality(chained) >= 9 * Cardinality(Occurs(s))
    <3>1. PICK sig \in DOMAIN Summary(here) :
            sig # <<>> /\ 10 * Summary(here)[sig].n >= 9 * Cardinality(Occurs(s))
      BY <2>2, <2>5, <2>6 DEF MethodMigrate
    <3>2. PICK alike : alike = {i \in Occurs(s) : SitesOf(Followed(i)) = sig}
      OBVIOUS
    <3>3. alike = {i \in DOMAIN here : here[i].sig = sig}
      BY <3>2
    <3>4. Summary(here)[sig].n = Cardinality(alike)
      <4> HIDE DEF here
      <4> QED BY <3>1, <3>3 DEF Summary
    <3>5. alike \in SUBSET chained
      <4>1. SitesOf({}) = <<>>
        BY FS_EmptySet DEF SitesOf
      <4> QED BY <3>1, <3>2, <4>1
    <3>6. IsFiniteSet(chained)
      <4>1. chained \in SUBSET DOMAIN path
        BY <2>1, <2>2
      <4> QED BY <2>1, <4>1, FS_Subset
    <3>7. Cardinality(alike) \in Nat /\ Cardinality(chained) \in Nat
          /\ Cardinality(alike) <= Cardinality(chained)
      BY <3>5, <3>6, FS_Subset, FS_CardinalityType
    <3>8. Cardinality(Occurs(s)) \in Nat
      <4>1. Occurs(s) \in SUBSET DOMAIN path
        BY <2>1, <2>2
      <4> QED BY <2>1, <4>1, FS_Subset, FS_CardinalityType
    <3> HIDE DEF chained
    <3> QED BY <3>1, <3>4, <3>7, <3>8
  <2> QED BY <2>5, <2>6
<1> QED BY <1>1, Invariant, RecordsInOrder, LogTellsThePath, PTL

=============================================================================
