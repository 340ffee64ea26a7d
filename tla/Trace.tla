------------------------------- MODULE Trace -------------------------------
(***************************************************************************)
(* The recorder of packages/tierless/src/trace.mts as the session host      *)
(* drives it (host.mts): a traced run goes between two tiers, each records  *)
(* the touches it serves and the crossings it ships into one log, and the   *)
(* counters that order the records ride on the continuation's root frame.   *)
(* From the log buildProfile derives, for each site, what a run touched     *)
(* next on the same tier without crossing; the placement rules go by that.  *)
(*                                                                         *)
(* Left out: sizes (whether a result has one stays, for a suffix that holds *)
(* one without cannot be fetched), means, argument features, sampling,      *)
(* other runs (records are told apart by the run's id), sinks that throw.   *)
(***************************************************************************)
EXTENDS Naturals, Sequences, SequencesExt, FiniteSets

CONSTANTS Site,       \* (fn, pc, resource)
          Owner,      \* Owner[s]: the tier of the site's resource
          Settings,   \* the ways the run is driven that are checked
          MaxEvents   \* bound on the touches and crossings of the run

Tier == {"home", "far"}
Other(t) == IF t = "home" THEN "far" ELSE "home"

\* run, call or runLocal; whether drive prices its parks by a profile; who records.
Setting == [mode : {"run", "call", "local"}, priced : BOOLEAN, recorders : SUBSET Tier]
ASSUME TraceAssumption ==
    /\ Owner \in [Site -> Tier] /\ MaxEvents \in Nat
    /\ Settings \subseteq Setting /\ \A s \in Settings : s.mode = "local" => ~s.priced

Request == [op : {"resource"}, site : Site, sized : BOOLEAN]
Home == [op |-> "home"]     \* the stop rule: only the other tier can go on
None == [op |-> "none"]

VARIABLES setting,
          at,       \* the tier the run is on, or "over"
          parked,   \* what it is parked at; on arrival, what it came for
          flag,     \* flag[t]: __trace in the stack that tier t has
          held,     \* runLocal: the flag it took from the stack it built
          away,     \* runLocal: that stack has been left for one that came back
          log,      \* the records, as they are made
          path,     \* history: the touches that succeeded and the crossings
          behind,   \* history: a stack left with the counters of before its crossing
          missed    \* history: a touch was served past the recorder
vars == <<setting, at, parked, flag, held, away, log, path, behind, missed>>

NoFlag == [on |-> FALSE, hop |-> 0, seq |-> 0]
Stamp == [on |-> TRUE, hop |-> 0, seq |-> 0]

Records(t) == t \in setting.recorders
Traced(t) == Records(t) /\ flag[t].on
Touched(q) == [kind |-> "touch", site |-> q.site, sized |-> q.sized]
Crossed == [kind |-> "cross"]
Busy == Len(path) < MaxEvents

Init ==
    /\ setting \in Settings
    /\ at = (IF setting.mode = "call" THEN "far" ELSE "home")
    /\ parked = None
    \* run and runLocal stamp their own stack; call's id rides its message, and the
    \* other tier stamps the stack it builds, if it records
    /\ flag = [t \in Tier |-> IF t = at /\ {"home", t} \subseteq setting.recorders THEN Stamp ELSE NoFlag]
    /\ held = flag["home"] /\ away = FALSE
    /\ log = <<>> /\ path = <<>> /\ behind = FALSE /\ missed = FALSE

(***************************************************************************)
(* The recorder: res, ship, end.                                            *)
(***************************************************************************)
Res(f, q) == [t |-> "res", hop |-> f.hop, seq |-> f.seq, site |-> q.site, sized |-> q.sized]
Hop(f) == [t |-> "hop", hop |-> f.hop, seq |-> f.seq]
End(f, outcome) == [t |-> "end", hop |-> f.hop, seq |-> f.seq, outcome |-> outcome]

\* Variant: the counter is not advanced.
NotCounted(f) == f
Counted(f) == [f EXCEPT !.seq = @ + 1]
\* Variant: the crossing is counted in the sequence only.
OneSegment(f) == [f EXCEPT !.seq = @ + 1]
Bumped(f) == [f EXCEPT !.hop = @ + 1, !.seq = @ + 1]

RecordTouch(t, q) ==
    IF Traced(t)
    THEN /\ log' = Append(log, Res(flag[t], q))
         /\ flag' = [flag EXCEPT ![t] = Counted(@)]
    ELSE UNCHANGED <<log, flag>>

RecordEnd(f, outcome) == log' = IF Records(at) /\ f.on THEN Append(log, End(f, outcome)) ELSE log

\* The counters are advanced before the stack is encoded, unless drive encoded it to
\* price it: then the wire has those of before (host.mts:183, 194).
PricedFirst(t) == setting.priced /\ t = "home" /\ parked # Home
\* Variant: the counters are advanced after the encoding.
EncodedFirst(t) == flag[t]
Shipped(t) == IF Traced(t) /\ ~PricedFirst(t) THEN Bumped(flag[t]) ELSE flag[t]

(***************************************************************************)
(* The pump on tier `at`: what a stack came for is served first.            *)
(***************************************************************************)
Runs == at \in Tier /\ parked = None
Arrived == parked.op = "resource" /\ Owner[parked.site] = at
Waits == at \in Tier /\ parked # None /\ ~Arrived

Serves(q) ==
    /\ path' = Append(path, Touched(q))
    /\ RecordTouch(at, q)
    /\ parked' = None
    /\ UNCHANGED <<setting, at, held, away, behind, missed>>

ServeIncoming == at \in Tier /\ Arrived /\ Serves(parked)

Touch(q) ==
    /\ Runs /\ Busy
    /\ IF Owner[q.site] = at
       THEN Serves(q)
       ELSE /\ parked' = q
            /\ UNCHANGED <<setting, at, flag, held, away, log, path, behind, missed>>

ParkHome ==
    /\ Runs /\ Busy
    /\ parked' = Home
    /\ UNCHANGED <<setting, at, flag, held, away, log, path, behind, missed>>

\* runLocal ends with the flag it took at first, which is no longer on the stack when
\* the continuation has come back (host.mts:279, 294).
Returns ==
    /\ Runs
    /\ RecordEnd(IF setting.mode = "local" /\ at = "home" /\ away THEN held ELSE flag[at], "done")
    /\ at' = "over"
    /\ UNCHANGED <<setting, parked, flag, held, away, path, behind, missed>>

\* An error no frame catches: the answering tier's step records it, the driver does not.
Throws ==
    /\ Runs \/ (at \in Tier /\ Arrived)
    /\ IF at = "far" THEN RecordEnd(flag[at], "error") ELSE UNCHANGED log
    /\ at' = "over"
    /\ UNCHANGED <<setting, parked, flag, held, away, path, behind, missed>>

(***************************************************************************)
(* A park: the driver at home, the step at the far tier.                    *)
(***************************************************************************)
Ship ==
    /\ Waits
    /\ log' = IF Traced(at) THEN Append(log, Hop(flag[at])) ELSE log
    /\ flag' = [flag EXCEPT ![Other(at)] = Shipped(at), ![at] = IF Traced(at) THEN Bumped(@) ELSE @]
    /\ behind' = (behind \/ (Traced(at) /\ PricedFirst(at)))
    /\ held' = IF at = "home" /\ ~away THEN flag'["home"] ELSE held
    /\ away' = (away \/ at = "far")
    /\ at' = Other(at)
    /\ path' = Append(path, Crossed)
    /\ parked' = IF parked = Home THEN None ELSE parked
    /\ UNCHANGED <<setting, missed>>

\* The continuation cannot be encoded: the counters have been advanced already.
ShipFails ==
    /\ Waits
    /\ IF at = "far" THEN RecordEnd(Bumped(flag[at]), "error") ELSE UNCHANGED log
    /\ at' = "over"
    /\ UNCHANGED <<setting, parked, flag, held, away, path, behind, missed>>

\* The value comes to the stack.  runLocal records the touch; drive hands the value to
\* the pump past the recorder (host.mts:144).
Fetches ==
    /\ Waits /\ at = "home" /\ parked # Home
    /\ setting.mode = "local" \/ setting.priced
Fetch ==
    /\ Fetches
    /\ IF setting.mode = "local"
       THEN RecordTouch(at, parked) /\ UNCHANGED missed
       ELSE missed' = TRUE /\ UNCHANGED <<log, flag>>
    /\ path' = Append(path, Touched(parked))
    /\ parked' = None
    /\ UNCHANGED <<setting, at, held, away, behind>>

\* The touch fails and a frame catches it: nothing is recorded.
Caught ==
    /\ (at \in Tier /\ Arrived) \/ Fetches
    /\ parked' = None
    /\ UNCHANGED <<setting, at, flag, held, away, log, path, behind, missed>>

Next ==
    \/ ServeIncoming \/ ParkHome \/ Returns \/ Throws
    \/ \E q \in Request : Touch(q)
    \/ Ship \/ ShipFails \/ Fetch \/ Caught

Spec == Init /\ [][Next]_vars

(***************************************************************************)
(* buildProfile, for one site of one run, and the rule of the method        *)
(* boundary: migrate where a chain of the tier's touches has nearly always  *)
(* followed.                                                                *)
(***************************************************************************)
Complete == \E i \in DOMAIN log : log[i].t = "end" /\ log[i].outcome = "done"

\* The records in the order of seq, as a stable sort has them: the i-th of the log before the j-th.
Before(i, j) == log[i].seq < log[j].seq \/ (log[i].seq = log[j].seq /\ i < j)
Touches == {i \in DOMAIN log : log[i].t = "res"}

\* Variant: only a touch of another tier ends a suffix.
CutAtTier(x, r) == Owner[log[x].site] # Owner[log[r].site]
Cut(x, r) == Owner[log[x].site] # Owner[log[r].site] \/ log[x].hop # log[r].hop

\* The touches after the i-th record, to the first that cuts.
Suffix(i) ==
    {j \in Touches :
       Before(i, j) /\ \A k \in Touches : Before(i, k) /\ ~Before(j, k) => ~Cut(k, i)}
Signature(S) ==
    LET Nth(n) == {j \in S : Cardinality({k \in S : ~Before(j, k)}) = n}
    IN  [n \in 1..Cardinality(S) |-> log[CHOOSE j \in Nth(n) : TRUE].site]

\* What followed each occurrence, counted by signature.
Summary(follow) ==
    [sig \in {follow[i].sig : i \in DOMAIN follow} |->
       LET alike == {i \in DOMAIN follow : follow[i].sig = sig}
       IN  [n |-> Cardinality(alike), fetchable |-> \A i \in alike : follow[i].sized]]

SuffixesOf(s) ==
    IF ~Complete THEN <<>>
    ELSE Summary([i \in {j \in Touches : log[j].site = s} |->
                    [sig |-> Signature(Suffix(i)), sized |-> \A j \in Suffix(i) : log[j].sized]])

\* SuffixesOf(s) with its modal one: migrate if it holds a touch and 9 in 10 share it.
MethodMigrate(s) ==
    \E sig \in DOMAIN SuffixesOf(s) :
       /\ sig # <<>>
       /\ 10 * SuffixesOf(s)[sig].n >= 9 * Cardinality({i \in Touches : log[i].site = s})

(***************************************************************************)
(* Properties.                                                              *)
(***************************************************************************)
\* Types; and the counters of the stack that runs are past every record, so that what
\* it records next sorts last (trace.mts:172), unless it left with those of before.
TypeOK ==
    /\ setting \in Settings /\ at \in Tier \cup {"over"}
    /\ parked \in Request \cup {Home, None}
    /\ \A f \in {flag["home"], flag["far"], held} : f \in [on : BOOLEAN, hop : Nat, seq : Nat]
    /\ away \in BOOLEAN /\ behind \in BOOLEAN /\ missed \in BOOLEAN
    /\ \A i \in DOMAIN log : log[i].t \in {"res", "hop", "end"} /\ {log[i].hop, log[i].seq} \subseteq Nat
    /\ \A i \in DOMAIN path : path[i].kind \in {"touch", "cross"}
    /\ (at \in Tier /\ ~behind) =>
          \A i \in DOMAIN log : log[i].seq < flag[at].seq /\ log[i].hop <= flag[at].hop

\* The records of both tiers, sorted by seq, are in the order in which things happened,
\* and at most one of them, the last, ends the run.  Except where a stack left with the
\* counters of before, and the end of a runLocal whose continuation has come back.
InOrder ==
    \A i, j \in DOMAIN log : i < j =>
       /\ log[i].t # "end"
       /\ log[i].seq < log[j].seq \/ behind \/ (setting.mode = "local" /\ away /\ log[j].t = "end")

Whole == setting.recorders = Tier /\ ~missed /\ ~behind

\* The log tells the path, event by event: nothing is missing and nothing is told twice (both
\* tiers record, none was fetched by drive).  Two touches have the same hop exactly if the
\* continuation did not cross between them, which is what buildProfile cuts by.
SegmentsApart ==
    Whole =>
      /\ DOMAIN path \subseteq DOMAIN log
      /\ \A i \in DOMAIN log \ DOMAIN path : log[i].t = "end"
      /\ \A i \in DOMAIN path :
           IF path[i] = Crossed
           THEN log[i].t = "hop"
           ELSE log[i].t = "res" /\ log[i].site = path[i].site /\ log[i].sized = path[i].sized
      /\ \A i, j \in DOMAIN path : i < j /\ Crossed \notin {path[i], path[j]} =>
           (log[i].hop = log[j].hop <=> \A k \in i..j : path[k] # Crossed)

\* What followed the i-th event of the path on its tier, without a crossing: the sites, in order.
Followed(i) ==
    {j \in DOMAIN path :
       /\ i < j
       /\ \A k \in (i + 1)..j : path[k] # Crossed /\ Owner[path[k].site] = Owner[path[i].site]}
SitesOf(S) ==
    LET Nth(n) == {j \in S : Cardinality({k \in S : k <= j}) = n}
    IN  [n \in 1..Cardinality(S) |-> path[CHOOSE j \in Nth(n) : TRUE].site]
Occurs(s) == {i \in DOMAIN path : path[i] # Crossed /\ path[i].site = s}

\* What a profile says of a complete run is what happened: for each site, the suffixes
\* on its tier, how often each, and whether fetching could go through it; and the method
\* boundary migrates at a site only if a chain has followed there 9 times in 10.
ProfileTrue ==
    (Whole /\ Complete) =>
       \A s \in Site :
          /\ SuffixesOf(s) =
               Summary([i \in Occurs(s) |->
                          [sig |-> SitesOf(Followed(i)), sized |-> \A j \in Followed(i) : path[j].sized]])
          /\ MethodMigrate(s) =>
               10 * Cardinality({i \in Occurs(s) : Followed(i) # {}}) >= 9 * Cardinality(Occurs(s))
=============================================================================
