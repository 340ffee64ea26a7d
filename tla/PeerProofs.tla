----------------------------- MODULE PeerProofs -----------------------------
(***************************************************************************)
(* Proofs about Peer, for every set of calls, types and results and every  *)
(* bound on the ids.  The inductive invariant adds to the type invariant   *)
(* that whatever still travels for a call (a request frame, a handler, a   *)
(* reply frame) names an id its origin has already handed out, and that    *)
(* the origin's slot of that id holds the call or is already empty: ids    *)
(* are never reused, so a reply can only meet the entry of its own call.   *)
(***************************************************************************)
EXTENDS Peer, TLAPS

\* The slot that an id names at its origin belongs to call c, or has been emptied.
Belongs(s, i, c) == i < nextId[s] /\ pending[s][i] \in {c, NoCall}

FrameBelongs(s, m) ==
  /\ m.kind = "request" => Belongs(Other(s), m.id, m.call)
  /\ m.kind = "reply" => Belongs(s, m.id, m.call) /\ m.body \in made[m.call]

FramesBelong == \A s \in Side : \A k \in DOMAIN wire[s] : FrameBelongs(s, wire[s][k])

HandlersBelong == \A h \in running : Belongs(Other(h.at), h.id, h.call)

\* No entry under an id that has not been handed out yet.
FreshSlots == \A s \in Side, i \in Id : pending[s][i] # NoCall => i < nextId[s]

\* The types of the link's own state.
LinkOK == port \in PortKind /\ reads \in [Side -> BOOLEAN] /\ dropped \in SUBSET Call

IInv == TypeOK /\ FreshSlots /\ FramesBelong /\ HandlersBelong /\ PendingIsWaiting /\ Correlated

-----------------------------------------------------------------------------
\* The two ends are one another's other end.
LEMMA OtherSide ==
  ASSUME NEW s \in Side
  PROVE  Other(s) \in Side /\ Other(s) # s /\ Other(Other(s)) = s
BY DEF Side, Other

\* Taking the oldest frame leaves frames that were there already.
LEMMA TailFrames ==
  ASSUME NEW q \in Seq(Frame), q # <<>>
  PROVE  /\ Tail(q) \in Seq(Frame)
         /\ Head(q) \in Frame
         /\ Head(q) = q[1] /\ 1 \in DOMAIN q
         /\ \A k \in DOMAIN Tail(q) : k + 1 \in DOMAIN q /\ Tail(q)[k] = q[k + 1]
OBVIOUS

\* Sending appends one frame.
LEMMA AppendFrames ==
  ASSUME NEW q \in Seq(Frame), NEW m \in Frame
  PROVE  /\ Append(q, m) \in Seq(Frame)
         /\ \A k \in DOMAIN Append(q, m) :
              Append(q, m)[k] = m \/ (k \in DOMAIN q /\ Append(q, m)[k] = q[k])
OBVIOUS

\* A request and a reply are frames.
LEMMA FrameKinds ==
  /\ \A i \in Id, c \in Call, t \in Type : RequestFrame(i, c, t) \in Frame
  /\ \A i \in Id, c \in Call, v \in Reply : ReplyFrame(i, c, v) \in Frame
BY DEF RequestFrame, ReplyFrame, Frame

\* Handing out an id moves one end's counter on by one and stays within the bound.
LEMMA SpendId ==
  ASSUME TypeOK, NEW s \in Side, nextId[s] \in Id, nextId' = [nextId EXCEPT ![s] = @ + 1]
  PROVE  /\ nextId' \in [Side -> 1..(MaxId + 1)]
         /\ nextId[s] < nextId'[s]
         /\ \A r \in Side : nextId[r] \in Nat /\ nextId'[r] \in Nat /\ nextId[r] <= nextId'[r]
<1>1. nextId \in [Side -> 1..(MaxId + 1)]
  BY DEF TypeOK
<1>2. nextId[s] \in 1..MaxId /\ nextId[s] + 1 \in 1..(MaxId + 1)
  BY MaxIdAssumption DEF Id
<1>3. nextId' \in [Side -> 1..(MaxId + 1)]
  BY <1>1, <1>2
<1>4. nextId'[s] = nextId[s] + 1 /\ \A r \in Side : r # s => nextId'[r] = nextId[r]
  BY <1>1
<1> QED
  BY <1>1, <1>2, <1>3, <1>4, MaxIdAssumption

\* A send leaves every frame where it was, or adds the new one at the end of one queue.
LEMMA SendKeeps ==
  ASSUME TypeOK, NEW r \in Side, NEW m \in Frame,
         wire' = wire \/ wire' = [wire EXCEPT ![r] = Append(@, m)]
  PROVE  /\ wire' \in [Side -> Seq(Frame)]
         /\ \A s \in Side : \A k \in DOMAIN wire'[s] :
              \/ k \in DOMAIN wire[s] /\ wire'[s][k] = wire[s][k] /\ wire[s][k] \in Frame
              \/ s = r /\ wire'[s][k] = m
<1>1. wire \in [Side -> Seq(Frame)]
  BY DEF TypeOK
<1>2. CASE wire' = wire
  BY <1>1, <1>2
<1>3. CASE wire' = [wire EXCEPT ![r] = Append(@, m)]
  <2>1. wire[r] \in Seq(Frame)
    BY <1>1
  <2>2. Append(wire[r], m) \in Seq(Frame)
    BY <2>1
  <2>3. wire' \in [Side -> Seq(Frame)]
    BY <1>1, <1>3, <2>2
  <2>4. \A k \in DOMAIN Append(wire[r], m) :
          Append(wire[r], m)[k] = m \/ (k \in DOMAIN wire[r] /\ Append(wire[r], m)[k] = wire[r][k])
    BY <2>1, AppendFrames
  <2>5. \A k \in DOMAIN wire[r] : wire[r][k] \in Frame
    BY <2>1
  <2>6. wire'[r] = Append(wire[r], m) /\ \A s \in Side : s # r => wire'[s] = wire[s]
    BY <1>1, <1>3
  <2>7. \A s \in Side : s # r => \A k \in DOMAIN wire[s] : wire[s][k] \in Frame
    BY <1>1
  <2> QED
    BY <2>3, <2>4, <2>5, <2>6, <2>7
<1> QED
  BY <1>2, <1>3

\* Delivering the oldest frame of one queue leaves frames that were there already.
LEMMA DeliverKeeps ==
  ASSUME TypeOK, NEW r \in Side, wire[r] # <<>>, wire' = [wire EXCEPT ![r] = Tail(@)]
  PROVE  /\ wire' \in [Side -> Seq(Frame)]
         /\ Head(wire[r]) \in Frame
         /\ 1 \in DOMAIN wire[r] /\ Head(wire[r]) = wire[r][1]
         /\ \A s \in Side : \A k \in DOMAIN wire'[s] :
              \E j \in DOMAIN wire[s] : wire'[s][k] = wire[s][j] /\ wire[s][j] \in Frame
<1>1. wire \in [Side -> Seq(Frame)]
  BY DEF TypeOK
<1>2. wire[r] \in Seq(Frame)
  BY <1>1
<1>3. /\ Tail(wire[r]) \in Seq(Frame)
      /\ Head(wire[r]) \in Frame
      /\ Head(wire[r]) = wire[r][1] /\ 1 \in DOMAIN wire[r]
      /\ \A k \in DOMAIN Tail(wire[r]) : k + 1 \in DOMAIN wire[r] /\ Tail(wire[r])[k] = wire[r][k + 1]
  BY <1>2, TailFrames
<1>4. \A s \in Side : \A j \in DOMAIN wire[s] : wire[s][j] \in Frame
  BY <1>1
<1>5. wire'[r] = Tail(wire[r]) /\ \A s \in Side : s # r => wire'[s] = wire[s]
  BY <1>1
<1>6. wire' \in [Side -> Seq(Frame)]
  BY <1>1, <1>3
<1> QED
  BY <1>3, <1>4, <1>5, <1>6

-----------------------------------------------------------------------------
\* The invariant holds at the start: there are no calls and no frames.
LEMMA InitIInv == Init => IInv
<1> SUFFICES ASSUME Init PROVE IInv
  OBVIOUS
<1>1. TypeOK
  BY MaxIdAssumption DEF Init, FirstId, TypeOK, Side, Id, Idle
<1>2. FramesBelong /\ HandlersBelong /\ FreshSlots
  BY DEF Init, FramesBelong, HandlersBelong, FreshSlots
<1>3. PendingIsWaiting
  BY DEF Init, PendingIsWaiting, Idle, Waiting, Side
<1>4. Correlated
  BY DEF Init, Correlated, Idle
<1> QED
  BY <1>1, <1>2, <1>3, <1>4 DEF IInv

\* Issuing a request, at the top level or from a handler, keeps everything but the handlers.
LEMMA IssueKeeps ==
  ASSUME IInv, NEW s \in Side, NEW c \in Call, IssueRequest(s, c),
         UNCHANGED <<handlers, port, reads, made, dropped>>,
         running' \in SUBSET Handler,
         \A h \in running' : \E g \in running : h.at = g.at /\ h.id = g.id /\ h.call = g.call
  PROVE  IInv'
<1> USE DEF IInv
<1>1. CASE RequestClosed(s, c) \/ RequestThrows(s, c)
  <2>1. /\ call' = [call EXCEPT ![c] = Rejected]
        /\ call[c] = Idle
        /\ UNCHANGED <<pending, wire, closed, made, handlers, port, reads, dropped>>
        /\ nextId' = nextId \/ (nextId[s] \in Id /\ nextId' = [nextId EXCEPT ![s] = @ + 1])
    BY <1>1 DEF RequestClosed, RequestThrows
  <2>9. /\ nextId' \in [Side -> 1..(MaxId + 1)]
        /\ \A r \in Side : nextId[r] \in Nat /\ nextId'[r] \in Nat /\ nextId[r] <= nextId'[r]
    BY <2>1, SpendId, MaxIdAssumption DEF TypeOK
  <2>2. TypeOK'
    <3>1. call' \in [Call -> {Idle, Waiting, Rejected} \cup {Resolved(v) : v \in Reply}]
      BY <2>1 DEF TypeOK
    <3> QED
      BY <2>1, <2>9, <3>1 DEF TypeOK
  <2>8. FreshSlots'
    BY <2>1, <2>9 DEF FreshSlots, Id
  <2>3. \A t \in Side, i \in Id, d \in Call : Belongs(t, i, d) => Belongs(t, i, d)'
    BY <2>1, <2>9 DEF Belongs, Id
  <2>4. FramesBelong'
    <3>1. \A r \in Side, n \in Frame : FrameBelongs(r, n) => FrameBelongs(r, n)'
      BY <2>1, <2>3, OtherSide DEF FrameBelongs, Frame
    <3> QED
      BY <2>1, <3>1 DEF FramesBelong, TypeOK
  <2>5. HandlersBelong'
    BY <2>3, OtherSide DEF HandlersBelong, TypeOK, Handler
  <2>6. PendingIsWaiting'
    BY <2>1 DEF PendingIsWaiting, TypeOK, Idle, Waiting, Rejected
  <2>7. Correlated'
    BY <2>1 DEF Correlated, TypeOK, Rejected
  <2> QED
    BY <2>2, <2>4, <2>5, <2>6, <2>7, <2>8
<1>2. ASSUME NEW t \in Type, RequestSent(s, c, t)
      PROVE  IInv'
  <2>1. /\ ~closed[s]
        /\ call[c] = Idle
        /\ nextId[s] \in Id
        /\ nextId' = [nextId EXCEPT ![s] = @ + 1]
        /\ pending' = [pending EXCEPT ![s][nextId[s]] = c]
        /\ call' = [call EXCEPT ![c] = Waiting]
        /\ UNCHANGED <<closed, made, handlers, port, reads, dropped>>
    BY <1>2 DEF RequestSent
  <2>2. PICK m \in Frame : /\ m = RequestFrame(nextId[s], c, t)
                            /\ m.kind = "request" /\ m.id = nextId[s] /\ m.call = c
    BY <2>1, FrameKinds DEF RequestFrame
  <2>3. wire' = wire \/ wire' = [wire EXCEPT ![Other(s)] = Append(@, m)]
    BY <1>2, <2>2 DEF RequestSent, SendTo
  <2>12. /\ nextId' \in [Side -> 1..(MaxId + 1)]
         /\ nextId[s] < nextId'[s]
         /\ \A r \in Side : nextId[r] \in Nat /\ nextId'[r] \in Nat /\ nextId[r] <= nextId'[r]
    BY <2>1, SpendId
  <2>4. TypeOK'
    <3>1. wire' \in [Side -> Seq(Frame)]
      BY <2>2, <2>3, OtherSide, SendKeeps
    <3>2. nextId' \in [Side -> 1..(MaxId + 1)]
      BY <2>12
    <3>3. call' \in [Call -> {Idle, Waiting, Rejected} \cup {Resolved(v) : v \in Reply}]
      BY <2>1 DEF TypeOK
    <3>4. pending' \in [Side -> [Id -> Call \cup {NoCall}]]
      BY <2>1 DEF TypeOK
    <3> QED
      BY <2>1, <3>1, <3>2, <3>3, <3>4 DEF TypeOK
  <2>11. FreshSlots'
    BY <2>1, <2>12 DEF FreshSlots, TypeOK, Id
  <2>5. \A r \in Side, i \in Id, d \in Call : Belongs(r, i, d) => Belongs(r, i, d)'
    BY <2>1, <2>12 DEF Belongs, TypeOK, Id
  <2>6. \A i \in Id : i = nextId[s] => Belongs(s, i, c)'
    BY <2>1, <2>12 DEF Belongs, TypeOK
  <2>7. FramesBelong'
    <3>1. \A r \in Side, n \in Frame : FrameBelongs(r, n) => FrameBelongs(r, n)'
      BY <2>1, <2>5, OtherSide DEF FrameBelongs, Frame
    <3>2. FrameBelongs(Other(s), m)'
      BY <2>1, <2>2, <2>6, OtherSide DEF FrameBelongs
    <3> SUFFICES ASSUME NEW r \in Side, NEW k \in DOMAIN wire'[r]
                 PROVE  FrameBelongs(r, wire[r][k])'
      BY DEF FramesBelong
    <3>3. \/ k \in DOMAIN wire[r] /\ wire'[r][k] = wire[r][k] /\ wire[r][k] \in Frame
          \/ r = Other(s) /\ wire'[r][k] = m
      BY <2>2, <2>3, OtherSide, SendKeeps
    <3> QED
      BY <3>1, <3>2, <3>3 DEF FramesBelong
  <2>8. HandlersBelong'
    BY <2>5, OtherSide DEF HandlersBelong, TypeOK, Handler
  <2>9. PendingIsWaiting'
    <3>1. \A r \in Side, i \in Id : pending[r][i] # c
      BY <2>1, NoCallAssumption DEF PendingIsWaiting, Idle, Waiting
    <3>2. \A r \in Side, i \in Id :
            \/ pending'[r][i] = pending[r][i]
            \/ r = s /\ i = nextId[s] /\ pending'[r][i] = c
      BY <2>1 DEF TypeOK
    <3>3. pending'[s][nextId[s]] = c
      BY <2>1 DEF TypeOK
    <3>4. \A r \in Side, i \in Id : pending'[r][i] # NoCall =>
             call'[pending'[r][i]] = Waiting /\ ~closed'[r]
      BY <2>1, <3>2 DEF PendingIsWaiting, TypeOK
    <3>5. \A d \in Call : call'[d] = Waiting => \E r \in Side, i \in Id : pending'[r][i] = d
      <4> SUFFICES ASSUME NEW d \in Call, call'[d] = Waiting
                   PROVE  \E r \in Side, i \in Id : pending'[r][i] = d
        OBVIOUS
      <4>1. CASE d = c
        BY <4>1, <3>3, <2>1
      <4>2. CASE d # c
        <5>1. PICK r \in Side, i \in Id : pending[r][i] = d
          BY <4>2, <2>1 DEF PendingIsWaiting, TypeOK
        <5>2. ~closed[r] /\ pending[r][i] # NoCall
          BY <5>1, NoCallAssumption DEF PendingIsWaiting
        <5>3. r # s \/ i # nextId[s]
          <6>1. i < nextId[r]
            BY <5>2 DEF FreshSlots
          <6>2. i \in Nat /\ nextId[r] \in Nat
            BY MaxIdAssumption DEF TypeOK, Id
          <6> QED
            BY <6>1, <6>2
        <5>4. pending'[r][i] = d
          BY <5>1, <5>3, <2>1 DEF TypeOK
        <5> QED
          BY <5>4
      <4> QED
        BY <4>1, <4>2
    <3> QED
      BY <3>1, <3>2, <3>4, <3>5 DEF PendingIsWaiting
  <2>10. Correlated'
    BY <2>1 DEF Correlated, TypeOK, Waiting
  <2> QED
    BY <2>4, <2>7, <2>8, <2>9, <2>10, <2>11
<1> QED
  BY <1>1, <1>2 DEF IssueRequest

\* Emptying one slot of the pending maps touches no other slot.
LEMMA EmptySlot ==
  ASSUME TypeOK, NEW s \in Side, NEW i \in Id, pending' = [pending EXCEPT ![s][i] = NoCall]
  PROVE  /\ pending' \in [Side -> [Id -> Call \cup {NoCall}]]
         /\ pending'[s][i] = NoCall
         /\ \A r \in Side, j \in Id : r # s \/ j # i => pending'[r][j] = pending[r][j]
<1>1. pending \in [Side -> [Id -> Call \cup {NoCall}]]
  BY DEF TypeOK
<1> QED
  BY <1>1

\* A reply meets only the entry of its own call.
LEMMA ReceiveReplyKeeps ==
  ASSUME IInv, NEW s \in Side, ReceiveReply(s)
  PROVE  IInv'
<1> USE DEF IInv
<1>1. /\ ~closed[s] /\ wire[s] # <<>> /\ Head(wire[s]).kind = "reply"
      /\ wire' = [wire EXCEPT ![s] = Tail(@)]
      /\ UNCHANGED <<nextId, closed, handlers, running, port, reads, made, dropped>>
  BY DEF ReceiveReply
<1>2. PICK m \in Frame : m = Head(wire[s]) /\ FrameBelongs(s, m) /\ m.kind = "reply"
  BY <1>1, DeliverKeeps DEF FramesBelong
<1>3. /\ m.id \in Id /\ m.call \in Call /\ m.body \in Reply
      /\ pending[s][m.id] \in {m.call, NoCall} /\ m.body \in made[m.call]
  BY <1>2 DEF Frame, FrameBelongs, Belongs
<1> DEFINE Ignored == UNCHANGED <<pending, call>>
           Taken == /\ pending[s][m.id] = m.call
                    /\ pending' = [pending EXCEPT ![s][m.id] = NoCall]
                    /\ call' = [call EXCEPT ![m.call] = Resolved(m.body)]
<1>4. Ignored \/ Taken
  BY <1>2, <1>3, NoCallAssumption DEF ReceiveReply, EntryFor, AfterReply
<1>5. wire' \in [Side -> Seq(Frame)]
  BY <1>1, DeliverKeeps
<1>6. TypeOK'
  <2>1. pending' \in [Side -> [Id -> Call \cup {NoCall}]]
    BY <1>3, <1>4, EmptySlot DEF TypeOK
  <2>2. call' \in [Call -> {Idle, Waiting, Rejected} \cup {Resolved(v) : v \in Reply}]
    <3>1. Resolved(m.body) \in {Resolved(v) : v \in Reply}
      BY <1>3
    <3>2. call \in [Call -> {Idle, Waiting, Rejected} \cup {Resolved(v) : v \in Reply}]
      BY DEF TypeOK
    <3> QED
      BY <1>4, <3>1, <3>2
  <2> QED
    BY <1>1, <1>5, <2>1, <2>2 DEF TypeOK
<1>7. \A r \in Side, i \in Id : pending'[r][i] = pending[r][i] \/ pending'[r][i] = NoCall
  BY <1>3, <1>4, EmptySlot
<1>8. FreshSlots'
  BY <1>1, <1>7 DEF FreshSlots
<1>9. \A r \in Side, i \in Id, d \in Call : Belongs(r, i, d) => Belongs(r, i, d)'
  BY <1>1, <1>7 DEF Belongs
<1>10. FramesBelong'
  <2>1. \A r \in Side, n \in Frame : FrameBelongs(r, n) => FrameBelongs(r, n)'
    BY <1>1, <1>9, OtherSide DEF FrameBelongs, Frame
  <2>2. \A r \in Side : \A k \in DOMAIN wire'[r] :
          \E j \in DOMAIN wire[r] : wire'[r][k] = wire[r][j] /\ wire[r][j] \in Frame
    BY <1>1, DeliverKeeps
  <2> QED
    BY <2>1, <2>2 DEF FramesBelong
<1>11. HandlersBelong'
  BY <1>1, <1>9, OtherSide DEF HandlersBelong, TypeOK, Handler
<1>12. PendingIsWaiting'
  <2>1. CASE UNCHANGED <<pending, call>>
    BY <1>1, <2>1 DEF PendingIsWaiting
  <2>2. CASE Taken
    <3>1. pending'[s][m.id] = NoCall
      BY <1>3, <2>2, EmptySlot
    <3>2. \A r \in Side, i \in Id : r # s \/ i # m.id => pending'[r][i] = pending[r][i]
      BY <1>3, <2>2, EmptySlot
    <3>3. \A r \in Side, i \in Id : r # s \/ i # m.id => pending[r][i] # m.call
      BY <1>3, <2>2, NoCallAssumption DEF PendingIsWaiting
    <3>4. call'[m.call] # Waiting /\ \A d \in Call : d # m.call => call'[d] = call[d]
      BY <1>3, <2>2 DEF TypeOK, Waiting, Resolved
    <3>8. \A r \in Side, i \in Id : pending[r][i] \in Call \cup {NoCall}
      BY DEF TypeOK
    <3>5. \A r \in Side, i \in Id : pending'[r][i] # NoCall =>
             call'[pending'[r][i]] = Waiting /\ ~closed'[r]
      BY <1>1, <3>1, <3>2, <3>3, <3>4, <3>8 DEF PendingIsWaiting
    <3>6. \A d \in Call : call'[d] = Waiting => \E r \in Side, i \in Id : pending'[r][i] = d
      BY <3>1, <3>2, <3>4, <2>2 DEF PendingIsWaiting
    <3>7. \A r1, r2 \in Side : \A i1, i2 \in Id :
            pending'[r1][i1] = pending'[r2][i2] /\ pending'[r1][i1] # NoCall => r1 = r2 /\ i1 = i2
      BY <3>1, <3>2 DEF PendingIsWaiting
    <3> QED
      BY <3>5, <3>6, <3>7 DEF PendingIsWaiting
  <2> QED
    BY <1>4, <2>1, <2>2
<1>13. Correlated'
  <2>1. CASE Ignored
    BY <1>1, <2>1 DEF Correlated
  <2>2. CASE Taken
    <3>1. call'[m.call].value = m.body /\ \A d \in Call : d # m.call => call'[d] = call[d]
      BY <1>3, <2>2 DEF TypeOK, Resolved
    <3> QED
      BY <1>1, <1>3, <3>1 DEF Correlated
  <2> QED
    BY <1>4, <2>1, <2>2
<1> QED
  BY <1>6, <1>8, <1>10, <1>11, <1>12, <1>13

\* A step that leaves the calls, the slots and the ids alone, sends at most one frame that
\* belongs, and keeps at most handlers that belong, keeps the invariant.
LEMMA CarrierStepKeeps ==
  ASSUME IInv,
         UNCHANGED <<nextId, closed, pending, call>>,
         handlers' \in [Side -> SUBSET Type],
         running' \in SUBSET Handler,
         LinkOK',
         made' \in [Call -> SUBSET Reply],
         \A c \in Call : made[c] \subseteq made'[c],
         wire' \in [Side -> Seq(Frame)],
         \A h \in running' : Belongs(Other(h.at), h.id, h.call),
         \A s \in Side : \A k \in DOMAIN wire'[s] :
           \/ \E j \in DOMAIN wire[s] : wire'[s][k] = wire[s][j] /\ wire[s][j] \in Frame
           \/ FrameBelongs(s, wire[s][k])'
  PROVE  IInv'
<1> USE DEF IInv
<1>1. TypeOK'
  BY DEF TypeOK, LinkOK
<1>2. FreshSlots'
  BY DEF FreshSlots
<1>3. FramesBelong'
  <2>1. \A r \in Side, n \in Frame : FrameBelongs(r, n) => FrameBelongs(r, n)'
    BY DEF FrameBelongs, Frame, Belongs
  <2> QED
    BY <2>1 DEF FramesBelong
<1>4. HandlersBelong'
  BY DEF HandlersBelong, Belongs
<1>5. PendingIsWaiting'
  BY DEF PendingIsWaiting
<1>6. Correlated'
  BY DEF Correlated
<1> QED
  BY <1>1, <1>2, <1>3, <1>4, <1>5, <1>6

\* A handler that ends leaves a reply to the call it served, or nothing,
LEMMA HandlerDoneKeeps ==
  ASSUME IInv, NEW h \in running, NEW v \in Result \cup {"error"}, HandlerDone(h, v)
  PROVE  IInv'
<1> USE DEF IInv
<1>1. /\ h \in Handler /\ h.at \in Side /\ h.id \in Id /\ h.call \in Call /\ v \in Reply
      /\ Belongs(Other(h.at), h.id, h.call)
      /\ Other(h.at) \in Side
  BY OtherSide DEF TypeOK, Handler, HandlersBelong, Reply, Failure
<1>2. /\ running' = running \ {h}
      /\ made' = [made EXCEPT ![h.call] = @ \cup {v}]
      /\ UNCHANGED <<nextId, closed, pending, handlers, call, port, reads, dropped>>
  BY DEF HandlerDone, Replied
<1>3. PICK m \in Frame : /\ m = ReplyFrame(h.id, h.call, v)
                         /\ m.kind = "reply" /\ m.id = h.id /\ m.call = h.call /\ m.body = v
  BY <1>1, FrameKinds DEF ReplyFrame
<1>4. wire' = wire \/ wire' = [wire EXCEPT ![Other(h.at)] = Append(@, m)]
  BY <1>3 DEF HandlerDone, SendTo
<1>5. /\ made' \in [Call -> SUBSET Reply]
      /\ \A c \in Call : made[c] \subseteq made'[c]
      /\ v \in made'[h.call]
  BY <1>1, <1>2 DEF TypeOK
<1>6. FrameBelongs(Other(h.at), m)'
  BY <1>1, <1>2, <1>3, <1>5 DEF FrameBelongs, Belongs
<1>7. /\ wire' \in [Side -> Seq(Frame)]
      /\ \A s \in Side : \A k \in DOMAIN wire'[s] :
           \/ \E j \in DOMAIN wire[s] : wire'[s][k] = wire[s][j] /\ wire[s][j] \in Frame
           \/ FrameBelongs(s, wire[s][k])'
  BY <1>1, <1>3, <1>4, <1>6, SendKeeps
<1>8. /\ running' \in SUBSET Handler
      /\ \A g \in running' : Belongs(Other(g.at), g.id, g.call)
  BY <1>2 DEF TypeOK, HandlersBelong
<1>9. handlers' \in [Side -> SUBSET Type] /\ LinkOK'
  BY <1>2 DEF TypeOK, LinkOK
<1> QED
  BY <1>2, <1>5, <1>7, <1>8, <1>9, CarrierStepKeeps

\* a request that arrives becomes a handler of the same call,
LEMMA ReceiveRequestKeeps ==
  ASSUME IInv, NEW s \in Side, ReceiveRequest(s)
  PROVE  IInv'
<1> USE DEF IInv
<1>1. /\ wire[s] # <<>> /\ Head(wire[s]).kind = "request"
      /\ UNCHANGED <<nextId, closed, pending, handlers, call, port, reads, dropped>>
  BY DEF ReceiveRequest
<1> DEFINE rest == [wire EXCEPT ![s] = Tail(@)]
<1>2. /\ rest \in [Side -> Seq(Frame)]
      /\ Head(wire[s]) \in Frame
      /\ 1 \in DOMAIN wire[s] /\ Head(wire[s]) = wire[s][1]
      /\ \A r \in Side : \A k \in DOMAIN rest[r] :
           \E j \in DOMAIN wire[r] : rest[r][k] = wire[r][j] /\ wire[r][j] \in Frame
  <2>1. wire \in [Side -> Seq(Frame)] /\ wire[s] \in Seq(Frame)
    BY DEF TypeOK
  <2>2. /\ Tail(wire[s]) \in Seq(Frame)
        /\ Head(wire[s]) \in Frame
        /\ Head(wire[s]) = wire[s][1] /\ 1 \in DOMAIN wire[s]
        /\ \A k \in DOMAIN Tail(wire[s]) :
             k + 1 \in DOMAIN wire[s] /\ Tail(wire[s])[k] = wire[s][k + 1]
    BY <1>1, <2>1, TailFrames
  <2>3. \A r \in Side : \A j \in DOMAIN wire[r] : wire[r][j] \in Frame
    BY <2>1
  <2>4. rest[s] = Tail(wire[s]) /\ \A r \in Side : r # s => rest[r] = wire[r]
    BY <2>1
  <2>5. rest \in [Side -> Seq(Frame)]
    BY <2>1, <2>2
  <2> QED
    BY <2>2, <2>3, <2>4, <2>5
<1>3. PICK m \in Frame : m = Head(wire[s]) /\ FrameBelongs(s, m) /\ m.kind = "request"
  BY <1>1, <1>2 DEF FramesBelong
<1>4. /\ m.id \in Id /\ m.call \in Call
      /\ Belongs(Other(s), m.id, m.call)
  BY <1>3 DEF Frame, FrameBelongs
<1>5. /\ handlers' \in [Side -> SUBSET Type] /\ LinkOK'
  BY <1>1 DEF TypeOK, LinkOK
<1>6. ASSUME running' = running \cup {[at |-> s, id |-> m.id, call |-> m.call, awaits |-> NoCall]},
             wire' = rest, made' = made
      PROVE  IInv'
  <2>1. [at |-> s, id |-> m.id, call |-> m.call, awaits |-> NoCall] \in Handler
    BY <1>4 DEF Handler
  <2>2. /\ running' \in SUBSET Handler
        /\ \A g \in running' : Belongs(Other(g.at), g.id, g.call)
    BY <1>4, <1>6, <2>1 DEF TypeOK, HandlersBelong
  <2>3. made' \in [Call -> SUBSET Reply] /\ \A c \in Call : made[c] \subseteq made'[c]
    BY <1>6 DEF TypeOK
  <2> QED
    BY <1>1, <1>2, <1>5, <1>6, <2>2, <2>3, CarrierStepKeeps
<1>7. ASSUME running' = running,
             made' = [made EXCEPT ![m.call] = @ \cup {"no handler"}],
             \/ wire' = rest
             \/ wire' = [rest EXCEPT ![Other(s)] = Append(@, ReplyFrame(m.id, m.call, "no handler"))]
      PROVE  IInv'
  <2>1. "no handler" \in Reply
    BY DEF Reply, Failure
  <2>2. PICK n \in Frame : /\ n = ReplyFrame(m.id, m.call, "no handler")
                           /\ n.kind = "reply" /\ n.id = m.id /\ n.call = m.call
                           /\ n.body = "no handler"
    BY <1>4, <2>1, FrameKinds DEF ReplyFrame
  <2>3. /\ made' \in [Call -> SUBSET Reply]
        /\ \A c \in Call : made[c] \subseteq made'[c]
        /\ "no handler" \in made'[m.call]
    BY <1>4, <1>7, <2>1 DEF TypeOK
  <2>4. FrameBelongs(Other(s), n)'
    BY <1>1, <1>4, <2>2, <2>3 DEF FrameBelongs, Belongs
  <2>5. /\ wire' \in [Side -> Seq(Frame)]
        /\ \A r \in Side : \A k \in DOMAIN wire'[r] :
             \/ \E j \in DOMAIN wire[r] : wire'[r][k] = wire[r][j] /\ wire[r][j] \in Frame
             \/ FrameBelongs(r, wire[r][k])'
    <3>1. CASE wire' = rest
      BY <1>2, <3>1
    <3>2. CASE wire' = [rest EXCEPT ![Other(s)] = Append(@, n)]
      <4>1. Other(s) \in Side /\ rest[Other(s)] \in Seq(Frame)
        BY <1>2, OtherSide
      <4>2. Append(rest[Other(s)], n) \in Seq(Frame)
        BY <4>1
      <4>3. wire' \in [Side -> Seq(Frame)]
        BY <1>2, <3>2, <4>2
      <4>4. \A k \in DOMAIN Append(rest[Other(s)], n) :
              \/ Append(rest[Other(s)], n)[k] = n
              \/ k \in DOMAIN rest[Other(s)] /\ Append(rest[Other(s)], n)[k] = rest[Other(s)][k]
        BY <4>1, AppendFrames
      <4>5. wire'[Other(s)] = Append(rest[Other(s)], n)
            /\ \A r \in Side : r # Other(s) => wire'[r] = rest[r]
        BY <1>2, <3>2, <4>1
      <4>6. ASSUME NEW r \in Side, NEW k \in DOMAIN wire'[r]
            PROVE  \/ \E j \in DOMAIN wire[r] : wire'[r][k] = wire[r][j] /\ wire[r][j] \in Frame
                   \/ FrameBelongs(r, wire[r][k])'
        <5>1. CASE r # Other(s)
          <6>1. k \in DOMAIN rest[r] /\ wire'[r][k] = rest[r][k]
            BY <4>5, <5>1
          <6> HIDE DEF rest
          <6>2. \E j \in DOMAIN wire[r] : rest[r][k] = wire[r][j] /\ wire[r][j] \in Frame
            BY <1>2, <6>1
          <6> QED
            BY <6>1, <6>2
        <5>2. CASE r = Other(s) /\ wire'[r][k] = n
          BY <2>4, <5>2
        <5>3. CASE r = Other(s) /\ wire'[r][k] # n
          <6>1. k \in DOMAIN rest[r] /\ wire'[r][k] = rest[r][k]
            BY <4>4, <4>5, <5>3
          <6> QED
            BY <1>2, <6>1
        <5> QED
          BY <5>1, <5>2, <5>3
      <4> QED
        BY <4>3, <4>6
    <3> QED
      BY <1>7, <2>2, <3>1, <3>2
  <2>6. /\ running' \in SUBSET Handler
        /\ \A g \in running' : Belongs(Other(g.at), g.id, g.call)
    BY <1>7 DEF TypeOK, HandlersBelong
  <2> QED
    BY <1>1, <1>5, <2>3, <2>5, <2>6, CarrierStepKeeps
<1> QED
  BY <1>3, <1>6, <1>7 DEF ReceiveRequest

\* a handler asks, resumes or ends,
LEMMA HandlerStepKeeps ==
  ASSUME IInv, NEW h \in running, HandlerStep(h)
  PROVE  IInv'
<1> USE DEF IInv
<1>1. h \in Handler /\ h.at \in Side
  BY DEF TypeOK, Handler
<1>2. ASSUME NEW c \in Call, HandlerRequest(h, c)
      PROVE  IInv'
  <2>1. [h EXCEPT !.awaits = c] \in Handler
    BY <1>1 DEF Handler
  <2>2. running' = (running \ {h}) \cup {[h EXCEPT !.awaits = c]}
    BY <1>2 DEF HandlerRequest
  <2>3. \A g \in running' : \E k \in running : g.at = k.at /\ g.id = k.id /\ g.call = k.call
    BY <1>1, <2>2 DEF Handler
  <2> QED
    BY <1>1, <1>2, <2>1, <2>2, <2>3, IssueKeeps DEF HandlerRequest, TypeOK
<1>3. CASE HandlerResume(h)
  <2>1. [h EXCEPT !.awaits = NoCall] \in Handler
    BY <1>1 DEF Handler
  <2>2. running' = (running \ {h}) \cup {[h EXCEPT !.awaits = NoCall]}
        /\ UNCHANGED <<nextId, closed, pending, handlers, call, wire, port, reads, made, dropped>>
    BY <1>3 DEF HandlerResume
  <2>3. \A g \in running' : \E k \in running : g.at = k.at /\ g.id = k.id /\ g.call = k.call
    BY <1>1, <2>2 DEF Handler
  <2>4. running' \in SUBSET Handler
    BY <2>1, <2>2 DEF TypeOK
  <2>5. \A g \in running' : Belongs(Other(g.at), g.id, g.call)
    BY <2>3 DEF HandlersBelong
  <2>6. /\ handlers' \in [Side -> SUBSET Type] /\ LinkOK'
        /\ made' \in [Call -> SUBSET Reply] /\ wire' \in [Side -> Seq(Frame)]
        /\ \A c \in Call : made[c] \subseteq made'[c]
        /\ \A s \in Side : \A k \in DOMAIN wire'[s] : wire'[s][k] = wire[s][k] /\ wire[s][k] \in Frame
    BY <2>2 DEF TypeOK, LinkOK
  <2> QED
    BY <2>2, <2>4, <2>5, <2>6, CarrierStepKeeps
<1>4. ASSUME NEW v \in Result \cup {"error"}, HandlerDone(h, v)
      PROVE  IInv'
  BY <1>4, HandlerDoneKeeps
<1> QED
  BY <1>2, <1>3, <1>4 DEF HandlerStep

\* The close event empties the slots of one end and rejects exactly the calls they held.
LEMMA CloseKeeps ==
  ASSUME IInv, NEW s \in Side, Closes(s), UNCHANGED <<nextId, handlers, running, made>>, LinkOK'
  PROVE  IInv'
<1> USE DEF IInv
<1>1. /\ closed' = [closed EXCEPT ![s] = TRUE]
      /\ pending' = [pending EXCEPT ![s] = [i \in Id |-> NoCall]]
      /\ call' = [c \in Call |-> IF c \in InFlight(s) THEN Rejected ELSE call[c]]
      /\ wire' = [wire EXCEPT ![s] = <<>>]
      /\ UNCHANGED <<nextId, handlers, running, made>>
  BY DEF Closes
<1>2. /\ pending' \in [Side -> [Id -> Call \cup {NoCall}]]
      /\ \A i \in Id : pending'[s][i] = NoCall
      /\ \A r \in Side, i \in Id : r # s => pending'[r][i] = pending[r][i]
  BY <1>1 DEF TypeOK
<1>3. /\ wire' \in [Side -> Seq(Frame)]
      /\ wire'[s] = <<>>
      /\ \A r \in Side : r # s => wire'[r] = wire[r]
  BY <1>1 DEF TypeOK
<1>4. TypeOK'
  <2>1. closed' \in [Side -> BOOLEAN]
    BY <1>1 DEF TypeOK
  <2>2. call' \in [Call -> {Idle, Waiting, Rejected} \cup {Resolved(v) : v \in Reply}]
    BY <1>1 DEF TypeOK
  <2> QED
    BY <1>1, <1>2, <1>3, <2>1, <2>2 DEF TypeOK, LinkOK
<1>5. \A r \in Side, i \in Id, d \in Call : Belongs(r, i, d) => Belongs(r, i, d)'
  BY <1>1, <1>2 DEF Belongs
<1>6. FreshSlots'
  BY <1>1, <1>2 DEF FreshSlots
<1>7. FramesBelong'
  <2>1. \A r \in Side, n \in Frame : FrameBelongs(r, n) => FrameBelongs(r, n)'
    BY <1>1, <1>5, OtherSide DEF FrameBelongs, Frame
  <2>2. ASSUME NEW r \in Side, NEW k \in DOMAIN wire'[r]
        PROVE  wire'[r] = wire[r] /\ k \in DOMAIN wire[r] /\ wire[r][k] \in Frame
    <3>1. r # s
      BY <1>3, <2>2
    <3>2. wire[r] \in Seq(Frame)
      BY DEF TypeOK
    <3> QED
      BY <1>3, <2>2, <3>1, <3>2
  <2> QED
    BY <2>1, <2>2 DEF FramesBelong
<1>8. HandlersBelong'
  BY <1>1, <1>5, OtherSide DEF HandlersBelong, TypeOK, Handler
<1>9. PendingIsWaiting'
  <2>1. \A c \in Call : c \in InFlight(s) => call'[c] = Rejected
    BY <1>1
  <2>2. \A c \in Call : c \notin InFlight(s) => call'[c] = call[c]
    BY <1>1
  <2>3. \A r \in Side, i \in Id : r # s /\ pending[r][i] # NoCall =>
           pending[r][i] \in Call /\ pending[r][i] \notin InFlight(s)
    BY DEF TypeOK, InFlight, PendingIsWaiting
  <2>4. \A r \in Side, i \in Id : pending'[r][i] # NoCall =>
           call'[pending'[r][i]] = Waiting /\ ~closed'[r]
    BY <1>1, <1>2, <2>2, <2>3 DEF PendingIsWaiting, TypeOK
  <2>5. \A c \in Call : call'[c] = Waiting => \E r \in Side, i \in Id : pending'[r][i] = c
    BY <1>2, <2>1, <2>2 DEF PendingIsWaiting, InFlight, Rejected, Waiting
  <2>6. \A r1, r2 \in Side : \A i1, i2 \in Id :
          pending'[r1][i1] = pending'[r2][i2] /\ pending'[r1][i1] # NoCall => r1 = r2 /\ i1 = i2
    BY <1>2 DEF PendingIsWaiting
  <2> QED
    BY <2>4, <2>5, <2>6 DEF PendingIsWaiting
<1>10. Correlated'
  BY <1>1 DEF Correlated, Rejected
<1> QED
  BY <1>4, <1>6, <1>7, <1>8, <1>9, <1>10

\* A handler that throws at once takes its frame with it, or the whole end.
LEMMA ThrowKeeps ==
  ASSUME IInv, NEW s \in Side, ThrowsAtOnce(s)
  PROVE  IInv'
<1> USE DEF IInv
<1>1. /\ wire[s] # <<>>
      /\ dropped' = dropped \cup {Head(wire[s]).call}
      /\ UNCHANGED <<nextId, handlers, running, port, made>>
  BY DEF ThrowsAtOnce
<1>2. Head(wire[s]) \in Frame
  <2>1. wire[s] \in Seq(Frame)
    BY DEF TypeOK
  <2> QED
    BY <1>1, <2>1, TailFrames
<1>3. dropped' \in SUBSET Call /\ port' \in PortKind
  BY <1>1, <1>2 DEF TypeOK, Frame
<1>4. CASE wire' = [wire EXCEPT ![s] = Tail(@)] /\ UNCHANGED <<closed, pending, call, reads>>
  <2>1. LinkOK'
    BY <1>3, <1>4 DEF TypeOK, LinkOK
  <2>2. /\ wire' \in [Side -> Seq(Frame)]
        /\ \A r \in Side : \A k \in DOMAIN wire'[r] :
             \E j \in DOMAIN wire[r] : wire'[r][k] = wire[r][j] /\ wire[r][j] \in Frame
    BY <1>1, <1>4, DeliverKeeps
  <2>3. /\ handlers' \in [Side -> SUBSET Type] /\ running' \in SUBSET Handler
        /\ made' \in [Call -> SUBSET Reply] /\ \A c \in Call : made[c] \subseteq made'[c]
        /\ \A h \in running' : Belongs(Other(h.at), h.id, h.call)
    BY <1>1 DEF TypeOK, HandlersBelong
  <2> QED
    BY <1>1, <1>4, <2>1, <2>2, <2>3, CarrierStepKeeps
<1>5. CASE reads' = [reads EXCEPT ![s] = FALSE] /\ Closes(s)
  <2>1. LinkOK'
    BY <1>3, <1>5 DEF TypeOK, LinkOK
  <2> QED
    BY <1>1, <1>5, <2>1, CloseKeeps
<1> QED
  BY <1>4, <1>5 DEF ThrowsAtOnce

\* and so every step keeps the invariant.
LEMMA NextKeeps == IInv /\ [Next]_vars => IInv'
<1> SUFFICES ASSUME IInv, [Next]_vars PROVE IInv'
  OBVIOUS
<1>1. ASSUME NEW s \in Side, NEW t \in Type, Register(s, t)
      PROVE  IInv'
  <2>1. UNCHANGED <<nextId, closed, pending, call, running, wire, port, reads, made, dropped>>
        /\ handlers' \in [Side -> SUBSET Type]
    BY <1>1 DEF Register, IInv, TypeOK
  <2>2. \A r \in Side : \A k \in DOMAIN wire[r] : wire[r][k] \in Frame
    BY DEF IInv, TypeOK
  <2> QED
    BY <2>1, <2>2, CarrierStepKeeps DEF IInv, TypeOK, HandlersBelong, LinkOK
<1>2. ASSUME NEW s \in Side, NEW c \in Call, Request(s, c)
      PROVE  IInv'
  BY <1>2, IssueKeeps DEF Request, IInv, TypeOK
<1>3. ASSUME NEW s \in Side, ReceiveReply(s)
      PROVE  IInv'
  BY <1>3, ReceiveReplyKeeps
<1>4. ASSUME NEW s \in Side, ReceiveRequest(s)
      PROVE  IInv'
  BY <1>4, ReceiveRequestKeeps
<1>5. ASSUME NEW h \in running, HandlerStep(h)
      PROVE  IInv'
  BY <1>5, HandlerStepKeeps
<1>6. ASSUME LinkDown \/ \E s \in Side : CloseWriter(s)
      PROVE  IInv'
  <2>1. UNCHANGED <<nextId, closed, pending, handlers, call, running, wire, port, made, dropped>>
        /\ reads' \in [Side -> BOOLEAN]
    BY <1>6 DEF LinkDown, CloseWriter, IInv, TypeOK
  <2>2. \A r \in Side : \A k \in DOMAIN wire[r] : wire[r][k] \in Frame
    BY DEF IInv, TypeOK
  <2> QED
    BY <2>1, <2>2, CarrierStepKeeps DEF IInv, TypeOK, HandlersBelong, LinkOK
<1>7. ASSUME NEW s \in Side, CloseEvent(s)
      PROVE  IInv'
  <2>1. LinkOK'
    BY <1>7 DEF CloseEvent, IInv, TypeOK, LinkOK
  <2> QED
    BY <1>7, <2>1, CloseKeeps DEF CloseEvent
<1>8. ASSUME NEW s \in Side, ThrowsAtOnce(s)
      PROVE  IInv'
  BY <1>8, ThrowKeeps
<1>9. CASE UNCHANGED vars
  <2>1. UNCHANGED <<nextId, closed, pending, handlers, call, running, wire, port, reads, made,
                    dropped>>
    BY <1>9 DEF vars
  <2>2. \A r \in Side : \A k \in DOMAIN wire[r] : wire[r][k] \in Frame
    BY DEF IInv, TypeOK
  <2> QED
    BY <2>1, <2>2, CarrierStepKeeps DEF IInv, TypeOK, HandlersBelong, LinkOK
<1> QED
  BY <1>1, <1>2, <1>3, <1>4, <1>5, <1>6, <1>7, <1>8, <1>9 DEF Next

-----------------------------------------------------------------------------
(* The theorems                                                            *)

\* The inductive invariant holds throughout every execution.
THEOREM Invariance == Spec => []IInv
BY InitIInv, NextKeeps, PTL DEF Spec

\* Type correctness of the connection's state, for every set of calls and every bound on ids.
THEOREM TypeCorrect == Spec => []TypeOK
<1>1. IInv => TypeOK
  BY DEF IInv
<1> QED
  BY <1>1, Invariance, PTL

\* makePeer's correlation: a promise resolves only with a reply produced for its own request.
THEOREM CorrelationHolds == Spec => []Correlated
<1>1. IInv => Correlated
  BY DEF IInv
<1> QED
  BY <1>1, Invariance, PTL

\* The waiting promises are exactly the entries of the pending maps, and a closed end has none.
THEOREM NoCallStranded == Spec => []PendingIsWaiting
<1>1. IInv => PendingIsWaiting
  BY DEF IInv
<1> QED
  BY <1>1, Invariance, PTL

\* Only the promise of a call that was still idle or waiting can change.
LEMMA StepSettlesOnce ==
  ASSUME IInv, [Next]_vars, NEW c \in Call, Settled(call[c])
  PROVE  call'[c] = call[c]
<1> USE DEF IInv
<1>1. call[c] # Idle /\ call[c] # Waiting
  BY DEF Settled, Idle, Waiting
<1>2. call \in [Call -> {Idle, Waiting, Rejected} \cup {Resolved(v) : v \in Reply}]
  BY DEF TypeOK
<1>3. ASSUME NEW s \in Side, NEW d \in Call, IssueRequest(s, d)
      PROVE  call'[c] = call[c]
  BY <1>1, <1>2, <1>3 DEF IssueRequest, RequestClosed, RequestSent, RequestThrows
<1>4. ASSUME NEW s \in Side, ReceiveReply(s)
      PROVE  call'[c] = call[c]
  <2>1. \A i \in Id : pending[s][i] # c
    BY <1>1, NoCallAssumption DEF PendingIsWaiting
  <2>2. wire[s] # <<>> /\ Head(wire[s]) \in Frame
    BY <1>4, DeliverKeeps DEF ReceiveReply
  <2>3. Head(wire[s]).id \in Id
    BY <2>2 DEF Frame
  <2> QED
    BY <1>2, <1>4, <2>1, <2>3 DEF ReceiveReply, EntryFor
<1>5. ASSUME NEW s \in Side, Closes(s)
      PROVE  call'[c] = call[c]
  BY <1>1, <1>5, NoCallAssumption DEF Closes, InFlight, PendingIsWaiting
<1>6. ASSUME NEW h \in running, HandlerStep(h)
      PROVE  call'[c] = call[c]
  <2>1. h.at \in Side
    BY DEF TypeOK, Handler
  <2> QED
    BY <1>3, <1>6, <2>1 DEF HandlerStep, HandlerRequest, HandlerResume, HandlerDone
<1>7. CASE UNCHANGED call
  BY <1>7
<1>8. ASSUME NEW s \in Side, NEW d \in Call, Request(s, d)
      PROVE  call'[c] = call[c]
  BY <1>3, <1>8 DEF Request
<1> QED
  BY <1>4, <1>5, <1>6, <1>7, <1>8
     DEF Next, vars, Register, ReceiveRequest, LinkDown, CloseWriter, CloseEvent, ThrowsAtOnce

\* A promise settles once: no later reply and no close event changes its outcome.
THEOREM SettlesOnce == Spec => SettledOnce
<1>1. IInv /\ [Next]_vars => [\A c \in Call : Settled(call[c]) => call'[c] = call[c]]_vars
  BY StepSettlesOnce
<1> QED
  BY <1>1, Invariance, PTL DEF Spec, SettledOnce

=============================================================================
