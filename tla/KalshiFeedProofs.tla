-------------------------- MODULE KalshiFeedProofs --------------------------
(***************************************************************************)
(* What holds of KalshiFeed for every value of its constants: its types,   *)
(* that subscriptions and contexts agree, that the accepted event changes  *)
(* only when a frame of the staged one arrives, and that the book of an    *)
(* accepted market is Kalshi's once its frames are handled.                *)
(***************************************************************************)
EXTENDS KalshiFeed, TLAPS, WellFoundedInduction, SequenceTheorems

-----------------------------------------------------------------------------
(* Sets of naturals *)

LEMMA MinExists ==
    ASSUME NEW S \in SUBSET Nat, S # {}
    PROVE  \E m \in S : \A x \in S : m <= x
<1> DEFINE less == {p \in Nat \X Nat : p[1] < p[2]}
<1>1. IsWellFoundedOn(less, Nat)
  BY NatLessThanWellFounded DEF OpToRel
<1>2. PICK m \in S : \A x \in S : <<x, m>> \notin less
  <2> HIDE DEF less
  <2> QED
    BY <1>1, WFMin
<1>3. ASSUME NEW x \in S PROVE m <= x
  <2>1. <<x, m>> \notin less /\ <<x, m>> \in Nat \X Nat
    BY <1>2
  <2>2. ~(x < m)
    BY <2>1
  <2> QED
    BY <2>2
<1> QED
  BY <1>3

\* The candidate, if there is one, is a listed event that is still open.
LEMMA NearestType ==
    ASSUME listed \subseteq Events
    PROVE  Nearest \in Events \cup {None}
<1>1. CASE Candidates = {}
  BY <1>1 DEF Nearest
<1>2. CASE Candidates # {}
  <2>1. Candidates \in SUBSET Nat /\ Candidates \subseteq Events
    <3>1. Last \in Nat
      BY ConstantsOK
    <3>2. Candidates \subseteq Events
      BY DEF Candidates
    <3>3. Events \subseteq Nat
      BY <3>1 DEF Events
    <3> QED
      BY <3>2, <3>3
  <2>2. \E e \in Candidates : \A x \in Candidates : e <= x
    BY <1>2, <2>1, MinExists
  <2>3. Min(Candidates) \in Candidates
    BY <2>2 DEF Min
  <2> QED
    BY <1>2, <2>1, <2>3 DEF Nearest
<1> QED
  BY <1>1, <1>2

\* An event is a number and never the absent one.
LEMMA EventType ==
    None \notin Events /\ \A m \in Markets : m[1] \in Events
BY ConstantsOK DEF None, Events, Markets

-----------------------------------------------------------------------------
(* Subscriptions *)

\* SubscriptionsMatch with what it rests on: a connection has an active event,
\* and a staged one is another event.
Linked ==
    /\ pc \in {"down", "top", "recv"}
    /\ active = None => pending = None
    /\ pending # None => pending # active
    /\ pc # "down" => active # None
    /\ SubscriptionsMatch

\* The hand-over keeps the subscriptions, the context and the active event
\* together.
LEMMA HandoverKeepsLink ==
    ASSUME Linked, pc # "down", NEW f, Accepted(f), Handover(f), pc' = "top"
    PROVE  Linked'
<1>1. CASE Confirms(f)
  <2>1. /\ active' = pending
        /\ pending' = None
        /\ pending # None /\ f.market[1] = pending
        /\ context' = context \ {active}
        /\ \A c \in CHANNELS : subs'[c] = subs[c] \ {active}
    BY <1>1 DEF Handover, Confirm, Confirms
  <2>2. pending \in context /\ pending # active
    BY <2>1 DEF Accepted, Linked
  <2>3. \A c \in CHANNELS : subs'[c] = context'
    BY <2>1 DEF Linked, SubscriptionsMatch
  <2> QED
    BY <2>1, <2>2, <2>3 DEF Linked, SubscriptionsMatch
<1>2. CASE ~Confirms(f)
  <2>1. UNCHANGED <<state, subs, context>>
    BY <1>2 DEF Handover
  <2> QED
    BY <2>1 DEF Linked, SubscriptionsMatch, state
<1> QED
  BY <1>1, <1>2

\* Every step of the feed and of Kalshi keeps them together.
LEMMA LinkedStep ==
    ASSUME Linked, [Next]_vars
    PROVE  Linked'
<1> USE DEF Linked, SubscriptionsMatch
<1>1. ASSUME Kalshi PROVE UNCHANGED <<pc, active, pending, context, subs>>
  BY <1>1 DEF Kalshi, Hour, List, Acknowledge, Snapshot, Move, Tick, Garble,
              kalshi, local, state
<1>2. CASE Kalshi
  BY <1>1, <1>2
<1>3. CASE Timer \/ NotDue \/ NothingToStage \/ RecvTimeout
  BY <1>3 DEF Timer, NotDue, NothingToStage, RecvTimeout, kalshi, state
<1>4. CASE Discover
  BY <1>4 DEF Discover, kalshi
<1>5. CASE Connect
  BY <1>5 DEF Connect, state
<1>6. CASE Stage
  <2>1. /\ pc = "top" /\ pc' = "recv"
        /\ pending' = Nearest /\ Nearest # None /\ Nearest # active
        /\ active' = active
        /\ context' = context \cup {Nearest}
        /\ \A c \in CHANNELS : subs'[c] = subs[c] \cup {Nearest}
    BY <1>6 DEF Stage, CanStage
  <2> QED
    BY <2>1
<1>7. CASE Subscribed \/ Ignore
  BY <1>7 DEF Subscribed, Ignore, Receive, state
<1>8. CASE TakeTick \/ TakeSnapshot \/ TakeDelta
  <2>1. /\ pc # "down" /\ pc' = "top"
        /\ Accepted(Head(wire)) /\ Handover(Head(wire))
    BY <1>8 DEF TakeTick, TakeSnapshot, TakeDelta, Receive
  <2> HIDE DEF Linked, SubscriptionsMatch
  <2> QED
    BY <2>1, HandoverKeepsLink
<1>9. CASE StageFails
  BY <1>9 DEF StageFails, CanStage, Down
<1>10. CASE HandoverFails
  BY <1>10 DEF HandoverFails, Confirm, Confirms, Down
<1>11. CASE Disconnect
  BY <1>11 DEF Disconnect, Down, state
<1>12. CASE Restart
  BY <1>12 DEF Restart, Down
<1>13. CASE UNCHANGED vars
  BY <1>13 DEF vars, kalshi, state
<1> QED
  BY <1>2, <1>3, <1>4, <1>5, <1>6, <1>7, <1>8, <1>9, <1>10, <1>11, <1>12, <1>13
     DEF Next, Feed

\* Every channel of a connection covers exactly the events whose context the
\* feed holds, the active one among them, through hand-overs, candidates that
\* are replaced, broken connections and restarts.
THEOREM SubscriptionsAgree == Spec => []SubscriptionsMatch
<1>1. Init => Linked
  BY DEF Init, Linked, SubscriptionsMatch
<1>2. Linked /\ [Next]_vars => Linked'
  BY LinkedStep
<1>3. Linked => SubscriptionsMatch
  BY DEF Linked
<1> QED
  BY <1>1, <1>2, <1>3, PTL DEF Spec

-----------------------------------------------------------------------------
(* Rotation *)

\* The active event gives way only to the staged one, on a frame of it.
THEOREM RotationIsSafe == Spec => RotatesOnArrival
<1> DEFINE Rotation ==
        (active' # active /\ active # None /\ active' # None) =>
            /\ active' = pending
            /\ wire # <<>>
            /\ Head(wire).market[1] = active'
            /\ active' \in context
            /\ pending' = None
<1>1. ASSUME Next PROVE Rotation
  <2>1. CASE \/ Kalshi \/ Timer \/ NotDue \/ NothingToStage \/ Stage \/ StageFails
             \/ RecvTimeout \/ Subscribed \/ Ignore \/ Connect \/ Disconnect
    <3>1. active' = active
      BY <2>1 DEF Kalshi, Hour, List, Acknowledge, Snapshot, Move, Tick, Garble, Timer,
                  NotDue, NothingToStage, Stage, StageFails, RecvTimeout, Subscribed,
                  Ignore, Connect, Disconnect, kalshi, local, state
    <3> QED
      BY <3>1
  <2>2. CASE Discover \/ Restart
    BY <2>2 DEF Discover, Restart
  <2>3. CASE TakeTick \/ TakeSnapshot \/ TakeDelta
    <3>1. wire # <<>> /\ Accepted(Head(wire)) /\ Handover(Head(wire))
      BY <2>3 DEF TakeTick, TakeSnapshot, TakeDelta, Receive
    <3> QED
      BY <3>1 DEF Accepted, Handover, Confirms, Confirm, state
  <2>4. CASE HandoverFails
    BY <2>4 DEF HandoverFails, Accepted, Confirms, Confirm
  <2> QED
    BY <1>1, <2>1, <2>2, <2>3, <2>4 DEF Next, Feed
<1>2. [Next]_vars => [Rotation]_<<active, pending>>
  BY <1>1 DEF vars, state
<1> HIDE DEF Rotation
<1>3. Spec => [][Rotation]_<<active, pending>>
  BY <1>2, PTL DEF Spec
<1> QED
  BY <1>3 DEF RotatesOnArrival, Rotation
-----------------------------------------------------------------------------
(* Types *)

USE DEF None, FreshBook

\* The frames the feed takes in, by kind.
LEMMA FrameType ==
    ASSUME NEW f \in Frames
    PROVE  /\ f.kind = "subscribed" => f.market \in CHANNELS
           /\ f.kind # "subscribed" => f.market \in Markets
           /\ f.seq \in Nat /\ f.qty \in Int
           /\ f.kind = "snapshot" => f.qty \in Nat
           /\ f.kind = "delta" => [f EXCEPT !.kind = "bad"] \in Frames
BY DEF Frames

\* A queue of frames that one leaves or joins.
LEMMA WireType ==
    ASSUME wire \in Seq(Frames)
    PROVE  /\ wire # <<>> => Head(wire) \in Frames /\ Tail(wire) \in Seq(Frames)
           /\ \A f \in Frames : Append(wire, f) \in Seq(Frames)
           /\ <<>> \in Seq(Frames)
OBVIOUS

\* What a frame that is taken in does to the accepted events and the books.
LEMMA HandoverType ==
    ASSUME TypeOK, NEW f \in Frames, Accepted(f), Handover(f)
    PROVE  /\ {active', pending'} \subseteq Events \cup {None}
           /\ subs' \in [CHANNELS -> SUBSET Events]
           /\ sent' \subseteq Markets
           /\ context' \subseteq Events
           /\ Kept(f) \in [Markets -> [seq : Nat, qty : Nat]]
           /\ f.market \in Markets
<1> USE DEF TypeOK
<1>1. Kept(f) \in [Markets -> [seq : Nat, qty : Nat]]
  BY DEF Kept
<1>2. f.market \in Markets
  BY FrameType DEF Accepted
<1>3. CASE Confirms(f)
  <2>1. /\ active' = pending /\ pending' = None
        /\ subs' = [c \in CHANNELS |-> subs[c] \ {active}]
        /\ sent' \subseteq sent /\ context' \subseteq context
    BY <1>3 DEF Handover, Confirm
  <2>2. subs' \in [CHANNELS -> SUBSET Events]
    BY <2>1
  <2> QED
    BY <1>1, <1>2, <2>1, <2>2
<1>4. CASE ~Confirms(f)
  BY <1>1, <1>2, <1>4 DEF Handover, state
<1> QED
  BY <1>3, <1>4

\* The end of a connection leaves well-typed state.
LEMMA DownType ==
    ASSUME TypeOK, Down
    PROVE  /\ pc' = "down" /\ due' = FALSE /\ sids' = {} /\ context' = {}
           /\ subs' \in [CHANNELS -> SUBSET Events]
           /\ unacked' = {} /\ sent' = {} /\ seq' = 0 /\ wire' = <<>>
           /\ UNCHANGED <<clock, listed, venue>>
BY DEF Down, TypeOK

\* The bounds' counters only count up.
LEMMA UsedType ==
    ASSUME used \in [traffic : Nat, faults : Nat]
    PROVE  /\ [used EXCEPT !.traffic = @ + 1] \in [traffic : Nat, faults : Nat]
           /\ [used EXCEPT !.faults = @ + 1] \in [traffic : Nat, faults : Nat]
<1>1. used.traffic + 1 \in Nat /\ used.faults + 1 \in Nat
  OBVIOUS
<1> QED
  BY <1>1

\* Each step of Kalshi keeps the types.
LEMMA KalshiType ==
    ASSUME TypeOK, Kalshi
    PROVE  TypeOK'
<1> USE DEF TypeOK, kalshi, local, state
<1>1. Last \in Nat /\ MaxQty \in Nat /\ "orderbook_delta" \in CHANNELS
  BY ConstantsOK
<1>2. CASE Hour
  BY <1>1, <1>2 DEF Hour
<1>3. ASSUME NEW e \in Events, List(e) PROVE TypeOK'
  BY <1>3 DEF List
<1>4. ASSUME NEW c \in CHANNELS, Acknowledge(c) PROVE TypeOK'
  <2>1. Frame("subscribed", c, 0, 0) \in Frames
    BY DEF Frame, Frames
  <2>2. wire' \in Seq(Frames)
    BY <1>4, <2>1, WireType DEF Acknowledge
  <2> QED
    BY <1>4, <2>2 DEF Acknowledge
<1>5. ASSUME NEW m \in Markets, Snapshot(m) PROVE TypeOK'
  <2>1. venue[m] \in Nat /\ seq + 1 \in Nat
    BY <1>1
  <2>2. Frame("snapshot", m, seq + 1, venue[m]) \in Frames
    BY <2>1 DEF Frame, Frames
  <2>3. wire' \in Seq(Frames)
    BY <1>5, <2>2, WireType DEF Snapshot
  <2>4. seq' \in Nat /\ sent' \subseteq Markets
    BY <1>5, <2>1 DEF Snapshot
  <2> QED
    BY <1>5, <2>3, <2>4 DEF Snapshot
<1>6. ASSUME NEW m \in Markets, Tick(m) PROVE TypeOK'
  <2>1. Frame("tick", m, 0, 0) \in Frames
    BY DEF Frame, Frames
  <2>2. wire' \in Seq(Frames)
    BY <1>6, <2>1, WireType DEF Tick
  <2>3. used' \in [traffic : Nat, faults : Nat]
    BY <1>6, UsedType DEF Tick
  <2> QED
    BY <1>6, <2>2, <2>3 DEF Tick
<1>7. ASSUME NEW m \in Markets, NEW by \in {-1, 1}, Move(m, by) PROVE TypeOK'
  <2>1. venue' \in [Markets -> 0 .. MaxQty]
    BY <1>7 DEF Move
  <2>2. used' \in [traffic : Nat, faults : Nat]
    BY <1>7, UsedType DEF Move
  <2>3. seq' \in Nat /\ wire' \in Seq(Frames)
    <3>1. seq + 1 \in Nat /\ Frame("delta", m, seq + 1, by) \in Frames
      BY DEF Frame, Frames
    <3> QED
      BY <1>7, <3>1, WireType DEF Move
  <2> QED
    BY <1>7, <2>1, <2>2, <2>3 DEF Move
<1>8. CASE Garble
  <2>1. PICK i \in DOMAIN wire :
            wire[i].kind = "delta" /\ wire' = [wire EXCEPT ![i].kind = "bad"]
    BY <1>8 DEF Garble
  <2>2. wire[i] \in Frames /\ [wire[i] EXCEPT !.kind = "bad"] \in Frames
    BY <2>1, FrameType
  <2>3. wire' = [wire EXCEPT ![i] = [wire[i] EXCEPT !.kind = "bad"]]
    BY <2>1
  <2>4. wire' \in Seq(Frames)
    BY <2>2, <2>3
  <2>5. used' \in [traffic : Nat, faults : Nat]
    BY <1>8, UsedType DEF Garble
  <2> QED
    BY <1>8, <2>4, <2>5 DEF Garble
<1> QED
  BY <1>2, <1>3, <1>4, <1>5, <1>6, <1>7, <1>8 DEF Kalshi

\* The steps of the feed that end in a broken connection or a new process.
LEMMA FaultType ==
    ASSUME TypeOK, StageFails \/ HandoverFails \/ Disconnect \/ Restart
    PROVE  TypeOK'
<1>1. Down /\ Fault
  BY DEF StageFails, HandoverFails, Disconnect, Restart
<1>2. used' \in [traffic : Nat, faults : Nat]
  BY <1>1, UsedType DEF Fault, TypeOK
<1>3. {active', pending'} \subseteq Events \cup {None}
  BY NearestType DEF TypeOK, StageFails, HandoverFails, Disconnect, Restart, Confirm, state
<1>4. books' \in [Markets -> [seq : Nat, qty : Nat]] /\ torn' \subseteq Markets
  BY DEF TypeOK, StageFails, HandoverFails, Disconnect, Restart
<1> QED
  <2>1. /\ pc' = "down" /\ due' = FALSE /\ sids' = {} /\ context' = {}
        /\ subs' \in [CHANNELS -> SUBSET Events]
        /\ unacked' = {} /\ sent' = {} /\ seq' = 0 /\ wire' = <<>>
        /\ UNCHANGED <<clock, listed, venue>>
    BY <1>1, DownType
  <2>2. wire' \in Seq(Frames)
    BY <2>1
  <2> QED
    BY <1>2, <1>3, <1>4, <2>1, <2>2 DEF TypeOK

\* A frame that is taken in keeps the types.
LEMMA TakeType ==
    ASSUME TypeOK, TakeTick \/ TakeSnapshot \/ TakeDelta
    PROVE  TypeOK'
<1> DEFINE f == Head(wire)
<1>1. Receive /\ Accepted(f) /\ Handover(f) /\ wire # <<>>
  BY DEF TakeTick, TakeSnapshot, TakeDelta, Receive
<1>2. f \in Frames
  BY <1>1, WireType DEF TypeOK
<1>3. wire' \in Seq(Frames)
  BY <1>1, WireType DEF TypeOK, Receive
<1>4. f.seq \in Nat /\ f.qty \in Int /\ (f.kind = "snapshot" => f.qty \in Nat)
  BY <1>2, FrameType
<1>5. Kept(f) \in [Markets -> [seq : Nat, qty : Nat]] /\ f.market \in Markets
  BY <1>1, <1>2, HandoverType
<1>6. /\ books' \in [Markets -> [seq : Nat, qty : Nat]]
      /\ torn' \subseteq torn /\ sids' = sids /\ used' = used
  <2>1. CASE TakeTick
    BY <1>5, <2>1 DEF TakeTick
  <2>2. CASE TakeSnapshot
    <3>1. f.qty \in Nat
      BY <1>4, <2>2 DEF TakeSnapshot
    <3>2. books' = [Kept(f) EXCEPT ![f.market] = [seq |-> f.seq, qty |-> f.qty]]
      BY <2>2 DEF TakeSnapshot
    <3>3. torn' \subseteq torn /\ sids' = sids /\ used' = used
      BY <2>2 DEF TakeSnapshot
    <3> HIDE DEF f
    <3> QED
      BY <1>4, <1>5, <3>1, <3>2, <3>3
  <2>3. CASE TakeDelta
    <3> DEFINE b == Kept(f)[f.market]
    <3>1. b.qty \in Nat /\ b.seq \in Nat
      BY <1>5
    <3>2. torn' \subseteq torn /\ sids' = sids /\ used' = used
      BY <2>3 DEF TakeDelta
    <3>3. CASE Applies(b, f)
      <4>1. b.qty + f.qty \in Nat
        BY <1>4, <3>1, <3>3 DEF Applies
      <4>2. books' = [Kept(f) EXCEPT ![f.market] =
                          [seq |-> f.seq, qty |-> b.qty + f.qty]]
        BY <2>3, <3>3 DEF TakeDelta
      <4> HIDE DEF f, b
      <4> QED
        BY <1>4, <1>5, <3>2, <4>1, <4>2
    <3>4. CASE ~Applies(b, f)
      BY <1>5, <2>3, <3>2, <3>4 DEF TakeDelta
    <3> QED
      BY <3>3, <3>4
  <2> QED
    BY <2>1, <2>2, <2>3
<1>7. /\ {active', pending'} \subseteq Events \cup {None}
      /\ subs' \in [CHANNELS -> SUBSET Events]
      /\ sent' \subseteq Markets
      /\ context' \subseteq Events
  BY <1>1, <1>2, HandoverType
<1>8. pc' = "top" /\ UNCHANGED <<clock, listed, venue, unacked, seq, due>>
  BY <1>1 DEF Receive
<1> QED
  BY <1>3, <1>6, <1>7, <1>8 DEF TypeOK

\* The other steps of the feed keep the types.
LEMMA FeedType ==
    ASSUME TypeOK,
           \/ Discover \/ Connect \/ Timer \/ NotDue \/ NothingToStage \/ Stage
           \/ RecvTimeout \/ Subscribed \/ Ignore
    PROVE  TypeOK'
<1> USE DEF TypeOK, kalshi, state
<1>1. CASE Discover
  BY <1>1, NearestType DEF Discover
<1>2. CASE Connect
  <2>1. active \in Events
    BY <1>2 DEF Connect
  <2>2. subs' \in [CHANNELS -> SUBSET Events]
    BY <1>2, <2>1 DEF Connect
  <2> QED
    BY <1>2, <2>1, <2>2 DEF Connect
<1>3. CASE Timer \/ NotDue \/ NothingToStage \/ RecvTimeout
  BY <1>3 DEF Timer, NotDue, NothingToStage, RecvTimeout
<1>4. CASE Stage
  <2>1. Nearest \in Events
    BY <1>4, NearestType DEF Stage, CanStage
  <2>2. subs' \in [CHANNELS -> SUBSET Events]
    BY <1>4, <2>1 DEF Stage
  <2> QED
    BY <1>4, <2>1, <2>2 DEF Stage
<1>5. CASE Subscribed
  <2>1. Head(wire) \in Frames /\ Tail(wire) \in Seq(Frames)
    BY <1>5, WireType DEF Subscribed, Receive
  <2>2. sids' \subseteq CHANNELS
    BY <1>5, <2>1, FrameType DEF Subscribed
  <2> QED
    BY <1>5, <2>1, <2>2 DEF Subscribed, Receive
<1>6. CASE Ignore
  <2>1. Head(wire) \in Frames /\ Tail(wire) \in Seq(Frames)
    BY <1>6, WireType DEF Ignore, Receive
  <2>2. torn' \subseteq Markets
    BY <1>6, <2>1, FrameType DEF Ignore
  <2> QED
    BY <1>6, <2>1, <2>2 DEF Ignore, Receive
<1> QED
  BY <1>1, <1>2, <1>3, <1>4, <1>5, <1>6

LEMMA InitType == Init => TypeOK
<1>1. Last \in Nat /\ Last >= 1 /\ MaxQty \in Nat
  BY ConstantsOK
<1>2. 0 \in 0 .. Last /\ 0 \in 0 .. MaxQty /\ 1 \in Events
  BY <1>1 DEF Events
<1>3. <<>> \in Seq(Frames)
  OBVIOUS
<1>4. ASSUME Init
      PROVE  /\ venue \in [Markets -> 0 .. MaxQty]
             /\ subs \in [CHANNELS -> SUBSET Events]
             /\ books \in [Markets -> [seq : Nat, qty : Nat]]
             /\ used \in [traffic : Nat, faults : Nat]
  BY <1>2, <1>4 DEF Init
<1>5. ASSUME Init
      PROVE  /\ clock \in 0 .. Last /\ listed \subseteq Events
             /\ wire \in Seq(Frames) /\ seq \in Nat
             /\ {active, pending} \subseteq Events \cup {None}
  BY <1>2, <1>3, <1>5 DEF Init
<1>6. ASSUME Init
      PROVE  /\ unacked \subseteq CHANNELS /\ sent \subseteq Markets
             /\ pc \in {"down", "top", "recv"} /\ due \in BOOLEAN
             /\ sids \subseteq CHANNELS /\ context \subseteq Events
             /\ torn \subseteq Markets
  BY <1>6 DEF Init
<1> QED
  BY <1>4, <1>5, <1>6 DEF TypeOK

LEMMA NextType == TypeOK /\ [Next]_vars => TypeOK'
<1> SUFFICES ASSUME TypeOK, [Next]_vars PROVE TypeOK'
  OBVIOUS
<1>1. CASE UNCHANGED vars
  BY <1>1 DEF TypeOK, vars, kalshi, state
<1> QED
  BY <1>1, KalshiType, FeedType, TakeType, FaultType DEF Next, Feed

\* The types of the feed, of Kalshi and of the frames between them: a book
\* never holds a negative quantity, whatever deltas arrive.
THEOREM TypesHold == Spec => []TypeOK
BY InitType, NextType, PTL DEF Spec

-----------------------------------------------------------------------------
(* The book of a market *)

Of(f, m) == f.kind # "subscribed" /\ f.market = m
SnapshotOf(f, m) == f.kind = "snapshot" /\ f.market = m
DeltaOf(f, m) == f.kind = "delta" /\ f.market = m
BadOf(f, m) == f.kind = "bad" /\ f.market = m
HasNumber(f) == f.kind \in {"snapshot", "delta", "bad"}

\* The frames with a number are in the order of their numbers.
Ordered(w, n) ==
    /\ \A i \in 1..Len(w) : HasNumber(w[i]) => w[i].seq \in 1..n
    /\ \A i, j \in 1..Len(w) :
           i < j /\ HasNumber(w[i]) /\ HasNumber(w[j]) => w[i].seq < w[j].seq


\* g is the quantity after each frame, from frame k on, and leads to q.
Leads(w, b, q, m, k, g) ==
    /\ g[k] = IF k = 0 THEN b.qty ELSE w[k].qty
    /\ \A i \in k..Len(w) :
           /\ g[i] \in Nat
           /\ (\A j \in i + 1..Len(w) : ~DeltaOf(w[j], m)) => g[i] = q
    /\ \A i \in k + 1..Len(w) :
           g[i] = IF DeltaOf(w[i], m) THEN g[i - 1] + w[i].qty ELSE g[i - 1]

\* What the book starts from: the last snapshot of m in w, or the book b.
Base(w, b, n, m, k) ==
    /\ IF k = 0
       THEN /\ b.seq \in 1..n
            /\ \A i \in 1..Len(w) : HasNumber(w[i]) => b.seq < w[i].seq
       ELSE SnapshotOf(w[k], m)
    /\ \A i \in k + 1..Len(w) : ~SnapshotOf(w[i], m)

\* No delta since is lost.
Intact(w, lost, m, k) ==
    /\ k = 0 => ~lost
    /\ \A i \in k + 1..Len(w) : ~BadOf(w[i], m)

\* The book b of market m and the frames w lead to quantity q; n is the last
\* number used, and b lacks a delta when lost.
Tracks(w, b, q, lost, n, m) ==
    \E k \in 0..Len(w) :
        /\ Base(w, b, n, m, k)
        /\ Intact(w, lost, m, k) => \E g \in [0..Len(w) -> Int] : Leads(w, b, q, m, k, g)

Subscribes ==
    /\ \A m \in sent : m[1] \in subs["orderbook_delta"]
    /\ pc = "down" => subs["orderbook_delta"] = {}

Follows ==
    \A m \in sent :
        Accepts(m[1]) => Tracks(wire, books[m], venue[m], m \in torn, seq, m)

-----------------------------------------------------------------------------
(* Facts of the queue *)

\* The frames after the first, and those before the last.
LEMMA TailFacts ==
    ASSUME NEW w \in Seq(Frames), w # <<>>
    PROVE  /\ Tail(w) \in Seq(Frames) /\ Len(w) \in Nat \ {0} /\ Len(Tail(w)) = Len(w) - 1
           /\ Head(w) = w[1] /\ Head(w) \in Frames
           /\ \A i \in 1..Len(w) - 1 : Tail(w)[i] = w[i + 1]
OBVIOUS

LEMMA AppendFacts ==
    ASSUME NEW w \in Seq(Frames), NEW f \in Frames
    PROVE  /\ Append(w, f) \in Seq(Frames) /\ Len(w) \in Nat
           /\ Len(Append(w, f)) = Len(w) + 1 /\ Append(w, f)[Len(w) + 1] = f
           /\ \A i \in 1..Len(w) : Append(w, f)[i] = w[i]
OBVIOUS

LEMMA OrderedJoins ==
    ASSUME NEW w \in Seq(Frames), NEW f \in Frames, NEW n \in Nat, NEW p \in Nat, n <= p,
           HasNumber(f) => n < f.seq /\ f.seq <= p, Ordered(w, n)
    PROVE  Ordered(Append(w, f), p)
<1> DEFINE v == Append(w, f)
<1>1. /\ Len(w) \in Nat /\ Len(v) = Len(w) + 1 /\ v[Len(w) + 1] = f
      /\ \A i \in 1..Len(w) : v[i] = w[i]
  BY AppendFacts
<1> HIDE DEF v
<1>2. f.seq \in Nat
  BY FrameType
<1>3. \A i \in 1..Len(v) : i \in 1..Len(w) \/ i = Len(w) + 1
  BY <1>1
<1>4. \A i \in 1..Len(w) : HasNumber(w[i]) => w[i].seq \in 1..n
  BY DEF Ordered
<1>5. \A i \in 1..Len(v) : HasNumber(v[i]) => v[i].seq \in 1..p
  BY <1>1, <1>2, <1>3, <1>4
<1>6. ASSUME NEW i \in 1..Len(v), NEW j \in 1..Len(v),
             i < j, HasNumber(v[i]), HasNumber(v[j])
      PROVE  v[i].seq < v[j].seq
  <2>1. i \in 1..Len(w)
    BY <1>1, <1>6
  <2>2. CASE j \in 1..Len(w)
    BY <1>1, <1>6, <2>1, <2>2 DEF Ordered
  <2>3. CASE j = Len(w) + 1
    BY <1>1, <1>2, <1>4, <1>6, <2>1, <2>3
  <2> QED
    BY <1>3, <2>2, <2>3
<1> QED
  BY <1>5, <1>6 DEF Ordered, v

LEMMA OrderedTail ==
    ASSUME NEW w \in Seq(Frames), w # <<>>, NEW n \in Nat, Ordered(w, n)
    PROVE  Ordered(Tail(w), n)
<1> DEFINE v == Tail(w)
<1>1. /\ Len(w) \in Nat \ {0} /\ Len(v) = Len(w) - 1
      /\ \A i \in 1..Len(w) - 1 : v[i] = w[i + 1]
  BY TailFacts
<1> HIDE DEF v
<1>2. \A i \in 1..Len(v) : i \in 1..Len(w) - 1 /\ i + 1 \in 1..Len(w) /\ v[i] = w[i + 1]
  BY <1>1
<1>3. \A i, j \in 1..Len(v) : i < j => i + 1 < j + 1
  OBVIOUS
<1>4. \A i \in 1..Len(v) : HasNumber(v[i]) => v[i].seq \in 1..n
  BY <1>2 DEF Ordered
<1>5. \A i, j \in 1..Len(v) :
          i < j /\ HasNumber(v[i]) /\ HasNumber(v[j]) => v[i].seq < v[j].seq
  BY <1>2, <1>3 DEF Ordered
<1> QED
  BY <1>4, <1>5 DEF Ordered, v

\* A delta that was garbled keeps its place, its market and its number.
Garbled(w, v, x) ==
    /\ Len(v) = Len(w) /\ x \in 1..Len(w)
    /\ w[x].kind = "delta" /\ v[x].kind = "bad"
    /\ v[x].market = w[x].market /\ v[x].seq = w[x].seq
    /\ \A i \in 1..Len(w) : i # x => v[i] = w[i]

LEMMA OrderedGarbled ==
    ASSUME NEW w, NEW v, NEW x, Garbled(w, v, x), NEW n, Ordered(w, n)
    PROVE  Ordered(v, n)
<1>1. \A i \in 1..Len(w) : (HasNumber(v[i]) <=> HasNumber(w[i])) /\ v[i].seq = w[i].seq
  BY DEF Garbled, HasNumber
<1>2. Len(v) = Len(w)
  BY DEF Garbled
<1> QED
  BY <1>1, <1>2 DEF Ordered

-----------------------------------------------------------------------------
(* What a queue leads to *)

\* A snapshot is all the book there is.
LEMMA SnapshotJoins ==
    ASSUME NEW w \in Seq(Frames), NEW f \in Frames, NEW m, SnapshotOf(f, m),
           NEW b, NEW lost, NEW n
    PROVE  Tracks(Append(w, f), b, f.qty, lost, n, m)
<1> DEFINE v == Append(w, f)
           k == Len(w) + 1
           g == [i \in 0..Len(v) |-> f.qty]
<1>1. Len(w) \in Nat /\ Len(v) = k /\ v[k] = f
  BY AppendFacts
<1>2. k \in 0..Len(v) /\ k # 0 /\ k + 1..Len(v) = {} /\ k..Len(v) = {k}
  BY <1>1
<1>3. f.qty \in Nat
  BY FrameType DEF SnapshotOf
<1> HIDE DEF v, k
<1>4. Base(v, b, n, m, k)
  BY <1>1, <1>2 DEF Base
<1>5. g \in [0..Len(v) -> Int] /\ g[k] = f.qty
  BY <1>2, <1>3
<1>6. Leads(v, b, f.qty, m, k, g)
  <2> HIDE DEF g
  <2> QED
    BY <1>1, <1>2, <1>3, <1>5 DEF Leads
<1> HIDE DEF g
<1> QED
  BY <1>2, <1>4, <1>5, <1>6 DEF Tracks, v

\* Any other frame that is not lost adds its change, if it holds one.
LEMMA FrameJoins ==
    ASSUME NEW w \in Seq(Frames), NEW f \in Frames, NEW m, ~SnapshotOf(f, m),
           NEW b, NEW lost, NEW n \in Nat, NEW p \in Nat, n <= p,
           HasNumber(f) => n < f.seq,
           NEW q, NEW r \in Nat, r = IF DeltaOf(f, m) THEN q + f.qty ELSE q,
           Tracks(w, b, q, lost, n, m)
    PROVE  Tracks(Append(w, f), b, r, lost, p, m)
<1> DEFINE v == Append(w, f)
           L == Len(w)
<1>1. L \in Nat /\ Len(v) = L + 1 /\ v[L + 1] = f /\ \A i \in 1..L : v[i] = w[i]
  BY AppendFacts
<1>2. f.seq \in Nat /\ f.qty \in Int
  BY FrameType
<1>3. PICK k \in 0..L :
          /\ Base(w, b, n, m, k)
          /\ Intact(w, lost, m, k) => \E g \in [0..L -> Int] : Leads(w, b, q, m, k, g)
  BY DEF Tracks
<1> HIDE DEF v, L
<1>4. /\ k \in 0..L + 1 /\ (k # 0 => k \in 1..L /\ v[k] = w[k])
      /\ \A i \in k + 1..L : i \in 1..L /\ i \in k + 1..L + 1 /\ v[i] = w[i]
      /\ \A i \in k + 1..L + 1 : i \in k + 1..L \/ i = L + 1
      /\ \A i \in 1..L + 1 : i \in 1..L \/ i = L + 1
  BY <1>1
<1>5. Base(v, b, p, m, k)
  <2>1. CASE k = 0
    <3>1. b.seq \in 1..n /\ \A i \in 1..L : HasNumber(w[i]) => b.seq < w[i].seq
      BY <1>3, <2>1 DEF Base, L
    <3>2. b.seq \in 1..p /\ (HasNumber(f) => b.seq < f.seq)
      BY <1>2, <3>1
    <3>3. \A i \in 1..L + 1 : HasNumber(v[i]) => b.seq < v[i].seq
      BY <1>1, <1>4, <3>1, <3>2
    <3>4. \A i \in k + 1..L + 1 : ~SnapshotOf(v[i], m)
      BY <1>1, <1>3, <1>4 DEF Base, L
    <3> QED
      BY <1>1, <2>1, <3>2, <3>3, <3>4 DEF Base
  <2>2. CASE k # 0
    <3>1. SnapshotOf(v[k], m)
      BY <1>3, <1>4, <2>2 DEF Base
    <3>2. \A i \in k + 1..L + 1 : ~SnapshotOf(v[i], m)
      BY <1>1, <1>3, <1>4 DEF Base, L
    <3> QED
      BY <1>1, <2>2, <3>1, <3>2 DEF Base
  <2> QED
    BY <2>1, <2>2
<1>6. ASSUME Intact(v, lost, m, k)
      PROVE  \E g \in [0..L + 1 -> Int] : Leads(v, b, r, m, k, g)
  <2>1. Intact(w, lost, m, k)
    BY <1>1, <1>4, <1>6 DEF Intact, L
  <2>2. PICK g \in [0..L -> Int] : Leads(w, b, q, m, k, g)
    BY <1>3, <2>1
  <2> DEFINE h == [i \in 0..L + 1 |-> IF i = L + 1 THEN r ELSE g[i]]
  <2>3. /\ h \in [0..L + 1 -> Int] /\ h[L + 1] = r
        /\ \A i \in 0..L : h[i] = g[i]
    BY <1>1
  <2> HIDE DEF h
  <2>4. /\ g[k] = IF k = 0 THEN b.qty ELSE w[k].qty
        /\ \A i \in k..L : g[i] \in Nat
        /\ \A i \in k..L : (\A j \in i + 1..L : ~DeltaOf(w[j], m)) => g[i] = q
        /\ \A i \in k + 1..L :
               g[i] = IF DeltaOf(w[i], m) THEN g[i - 1] + w[i].qty ELSE g[i - 1]
    BY <2>2 DEF Leads, L
  <2>5. h[k] = IF k = 0 THEN b.qty ELSE v[k].qty
    BY <1>4, <2>3, <2>4
  <2>6. g[L] = q
    <3>1. L \in k..L /\ L + 1..L = {}
      BY <1>1
    <3> QED
      BY <2>4, <3>1
  <2>7. ASSUME NEW i \in k..L + 1
        PROVE  h[i] \in Nat /\ ((\A j \in i + 1..L + 1 : ~DeltaOf(v[j], m)) => h[i] = r)
    <3>1. CASE i = L + 1
      BY <2>3, <3>1
    <3>2. CASE i # L + 1
      <4>1. /\ i \in k..L /\ i \in 0..L /\ L + 1 \in i + 1..L + 1
            /\ \A j \in i + 1..L : j \in i + 1..L + 1 /\ v[j] = w[j]
        BY <1>1, <3>2
      <4>2. h[i] = g[i] /\ g[i] \in Nat
        BY <2>3, <2>4, <4>1
      <4>3. ASSUME \A j \in i + 1..L + 1 : ~DeltaOf(v[j], m) PROVE h[i] = r
        <5>1. ~DeltaOf(f, m)
          BY <1>1, <4>1, <4>3
        <5>2. \A j \in i + 1..L : ~DeltaOf(w[j], m)
          BY <4>1, <4>3
        <5>3. g[i] = q
          BY <2>4, <4>1, <5>2
        <5> QED
          BY <4>2, <5>1, <5>3
      <4> QED
        BY <4>2, <4>3
    <3> QED
      BY <3>1, <3>2
  <2>8. ASSUME NEW i \in k + 1..L + 1
        PROVE  h[i] = IF DeltaOf(v[i], m) THEN h[i - 1] + v[i].qty ELSE h[i - 1]
    <3>1. CASE i = L + 1
      <4>1. i - 1 = L /\ L \in 0..L
        BY <1>1, <3>1
      <4> QED
        BY <1>1, <2>3, <2>6, <3>1, <4>1
    <3>2. CASE i # L + 1
      <4>1. i \in k + 1..L /\ i \in 0..L /\ i - 1 \in 0..L
        BY <1>1, <3>2
      <4> QED
        BY <1>4, <2>3, <2>4, <4>1
    <3> QED
      BY <3>1, <3>2
  <2>9. Leads(v, b, r, m, k, h)
    BY <1>1, <2>5, <2>7, <2>8 DEF Leads
  <2> QED
    BY <2>3, <2>9
<1>7. Tracks(v, b, r, lost, p, m)
  BY <1>1, <1>4, <1>5, <1>6 DEF Tracks
<1> QED
  BY <1>7 DEF v

\* What the book c of m is after frame f was taken in by book b, and whether a
\* delta is lost then.
Taken(f, m, b, c, lost, gone) ==
    /\ SnapshotOf(f, m) => c = [seq |-> f.seq, qty |-> f.qty]
    /\ DeltaOf(f, m) => c = IF Applies(b, f) THEN [seq |-> f.seq, qty |-> b.qty + f.qty] ELSE b
    /\ ~SnapshotOf(f, m) /\ ~DeltaOf(f, m) => c = b
    /\ BadOf(f, m) => gone
    /\ lost => gone \/ SnapshotOf(f, m)

\* The first frame may be taken in: a delta is one that applies.
LEMMA FirstTaken ==
    ASSUME NEW w \in Seq(Frames), w # <<>>, NEW n \in Nat, Ordered(w, n), NEW m,
           NEW b \in [seq : Nat, qty : Nat], NEW c, NEW lost \in BOOLEAN, NEW gone \in BOOLEAN,
           Taken(Head(w), m, b, c, lost, gone), NEW q, Tracks(w, b, q, lost, n, m)
    PROVE  Tracks(Tail(w), c, q, gone, n, m)
<1> DEFINE v == Tail(w)
           L == Len(w)
           f == Head(w)
<1>1. /\ L \in Nat \ {0} /\ Len(v) = L - 1 /\ w[1] = f /\ f \in Frames
      /\ \A i \in 1..L - 1 : v[i] = w[i + 1]
  BY TailFacts
<1>2. f.seq \in Nat /\ f.qty \in Int /\ b.seq \in Nat /\ b.qty \in Nat
  BY <1>1, FrameType
<1>3. PICK k \in 0..L :
          /\ Base(w, b, n, m, k)
          /\ Intact(w, lost, m, k) => \E g \in [0..L -> Int] : Leads(w, b, q, m, k, g)
  BY DEF Tracks
<1> HIDE DEF v, L, f
<1>4. Taken(f, m, b, c, lost, gone)
  BY DEF f
\* Where the base is then.
<1>5. PICK j \in 0..L - 1 : j = IF k = 0 THEN 0 ELSE k - 1
  BY <1>1
<1>6. /\ \A i \in j + 1..L - 1 : i + 1 \in k + 1..L /\ i \in 1..L - 1 /\ v[i] = w[i + 1]
      /\ \A i \in j..L - 1 : i + 1 \in k..L /\ i \in 0..L - 1 /\ i + 1 \in 0..L
      /\ 1 \in 1..L /\ 0..Len(v) = 0..L - 1
  BY <1>1, <1>5
<1>7. HasNumber(f) => f.seq \in 1..n /\ \A i \in 1..L - 1 : HasNumber(v[i]) => f.seq < v[i].seq
  <2>1. \A i \in 1..L - 1 : i + 1 \in 1..L /\ 1 < i + 1
    BY <1>1
  <2> QED
    BY <1>1, <1>6, <2>1 DEF Ordered, L
<1>8. Base(v, c, n, m, j)
  <2>1. \A i \in j + 1..L - 1 : ~SnapshotOf(v[i], m)
    BY <1>3, <1>6 DEF Base, L
  <2>2. CASE k = 0
    <3>1. ~SnapshotOf(f, m)
      <4>1. 1 \in k + 1..L
        BY <1>1, <2>2
      <4> QED
        BY <1>1, <1>3, <4>1 DEF Base, L
    <3>2. b.seq \in 1..n /\ \A i \in 1..L - 1 : HasNumber(v[i]) => b.seq < v[i].seq
      <4>1. \A i \in 1..L - 1 : i + 1 \in 1..L
        BY <1>1
      <4> QED
        BY <1>1, <1>3, <2>2, <4>1 DEF Base, L
    <3>3. c = b \/ (HasNumber(f) /\ c.seq = f.seq)
      BY <1>4, <3>1 DEF Taken, DeltaOf, HasNumber
    <3>4. c.seq \in 1..n /\ \A i \in 1..L - 1 : HasNumber(v[i]) => c.seq < v[i].seq
      BY <1>7, <3>2, <3>3
    <3> QED
      BY <1>1, <1>5, <2>1, <2>2, <3>4 DEF Base
  <2>3. CASE k = 1
    <3>1. SnapshotOf(f, m) /\ j = 0
      BY <1>1, <1>3, <1>5, <2>3 DEF Base
    <3>2. HasNumber(f) /\ c.seq = f.seq
      BY <1>4, <3>1 DEF Taken, SnapshotOf, HasNumber
    <3> QED
      BY <1>1, <1>7, <2>1, <3>1, <3>2 DEF Base
  <2>4. CASE k \notin {0, 1}
    <3>1. j # 0 /\ j \in 1..L - 1 /\ j + 1 = k
      BY <1>1, <1>5, <2>4
    <3>2. v[j] = w[k]
      BY <1>1, <3>1
    <3> QED
      BY <1>1, <1>3, <2>1, <2>4, <3>1, <3>2 DEF Base
  <2> QED
    BY <2>2, <2>3, <2>4
<1>9. ASSUME Intact(v, gone, m, j)
      PROVE  \E g \in [0..L - 1 -> Int] : Leads(v, c, q, m, j, g)
  <2>1. Intact(w, lost, m, k)
    <3>1. \A i \in k + 1..L : i = 1 \/ (i - 1 \in j + 1..L - 1 /\ w[i] = v[i - 1])
      BY <1>1, <1>5
    <3>2. 1 \in k + 1..L => ~BadOf(w[1], m)
      <4>1. ASSUME 1 \in k + 1..L PROVE k = 0 /\ j = 0
        BY <1>5, <4>1
      <4> QED
        BY <1>1, <1>4, <1>9, <4>1 DEF Intact, Taken
    <3>3. k = 0 => ~lost
      <4>1. ASSUME k = 0 PROVE j = 0 /\ ~SnapshotOf(f, m)
        <5>1. 1 \in k + 1..L
          BY <1>1, <4>1
        <5> QED
          BY <1>1, <1>3, <1>5, <4>1, <5>1 DEF Base, L
      <4> QED
        BY <1>4, <1>9, <4>1 DEF Intact, Taken
    <3> QED
      BY <1>1, <1>9, <3>1, <3>2, <3>3 DEF Intact, L
  <2>2. PICK g \in [0..L -> Int] : Leads(w, b, q, m, k, g)
    BY <1>3, <2>1
  <2> DEFINE h == [i \in 0..L - 1 |-> g[i + 1]]
  <2>3. h \in [0..L - 1 -> Int] /\ \A i \in 0..L - 1 : h[i] = g[i + 1]
    BY <1>1
  <2> HIDE DEF h
  <2>4. /\ g[k] = IF k = 0 THEN b.qty ELSE w[k].qty
        /\ \A i \in k..L : g[i] \in Nat
        /\ \A i \in k..L : (\A x \in i + 1..L : ~DeltaOf(w[x], m)) => g[i] = q
        /\ \A i \in k + 1..L :
               g[i] = IF DeltaOf(w[i], m) THEN g[i - 1] + w[i].qty ELSE g[i - 1]
    BY <2>2 DEF Leads, L
  <2>5. h[j] = IF j = 0 THEN c.qty ELSE v[j].qty
    <3>1. CASE k = 0
      <4>1. /\ j = 0 /\ 1 \in k + 1..L /\ 1 \in k..L /\ 1 - 1 = 0 /\ h[0] = g[0 + 1] /\ 0 + 1 = 1
        BY <1>1, <1>5, <2>3, <3>1
      <4>2. g[1] = IF DeltaOf(f, m) THEN b.qty + f.qty ELSE b.qty
        BY <1>1, <2>4, <3>1, <4>1
      <4>3. g[1] \in Nat /\ ~SnapshotOf(f, m)
        BY <1>1, <1>3, <2>4, <4>1 DEF Base, L
      <4>4. CASE DeltaOf(f, m)
        <5>1. b.seq # 0 /\ b.seq < f.seq
          BY <1>1, <1>3, <1>6, <3>1, <4>4 DEF Base, L, DeltaOf, HasNumber
        <5>2. Applies(b, f)
          BY <1>2, <4>2, <4>3, <4>4, <5>1 DEF Applies
        <5>3. c.qty = b.qty + f.qty
          BY <1>4, <4>4, <5>2 DEF Taken
        <5> QED
          BY <4>1, <4>2, <4>4, <5>3
      <4>5. CASE ~DeltaOf(f, m)
        BY <1>4, <4>1, <4>2, <4>3, <4>5 DEF Taken
      <4> QED
        BY <4>4, <4>5
    <3>2. CASE k = 1
      <4>1. /\ j = 0 /\ h[0] = g[0 + 1] /\ 0 + 1 = 1 /\ g[1] = f.qty /\ SnapshotOf(f, m)
        BY <1>1, <1>3, <1>5, <2>3, <2>4, <3>2 DEF Base
      <4> QED
        BY <1>4, <4>1 DEF Taken
    <3>3. CASE k \notin {0, 1}
      <4>1. j # 0 /\ j \in 1..L - 1 /\ j + 1 = k
        BY <1>1, <1>5, <3>3
      <4> QED
        BY <1>1, <2>3, <2>4, <3>3, <4>1
    <3> QED
      BY <3>1, <3>2, <3>3
  <2>6. ASSUME NEW i \in j..L - 1
        PROVE  h[i] \in Nat /\ ((\A x \in i + 1..L - 1 : ~DeltaOf(v[x], m)) => h[i] = q)
    <3>1. h[i] = g[i + 1] /\ i + 1 \in k..L
      BY <1>6, <2>3
    <3>2. \A x \in (i + 1) + 1..L : x - 1 \in i + 1..L - 1 /\ v[x - 1] = w[x]
      BY <1>1
    <3>3. ASSUME \A x \in i + 1..L - 1 : ~DeltaOf(v[x], m) PROVE g[i + 1] = q
      <4>1. \A x \in (i + 1) + 1..L : ~DeltaOf(w[x], m)
        BY <3>2, <3>3
      <4> QED
        BY <2>4, <3>1, <4>1
    <3> QED
      BY <2>4, <3>1, <3>3
  <2>7. ASSUME NEW i \in j + 1..L - 1
        PROVE  h[i] = IF DeltaOf(v[i], m) THEN h[i - 1] + v[i].qty ELSE h[i - 1]
    <3>1. /\ i + 1 \in k + 1..L /\ v[i] = w[i + 1] /\ i \in 0..L - 1 /\ i - 1 \in 0..L - 1
          /\ (i + 1) - 1 = i /\ (i - 1) + 1 = i
      BY <1>1, <1>5, <1>6
    <3>2. h[i] = g[i + 1] /\ h[i - 1] = g[i]
      BY <2>3, <3>1
    <3> QED
      BY <2>4, <3>1, <3>2
  <2>8. Leads(v, c, q, m, j, h)
    BY <1>1, <2>5, <2>6, <2>7 DEF Leads
  <2> QED
    BY <2>3, <2>8
<1>10. Tracks(v, c, q, gone, n, m)
  BY <1>1, <1>6, <1>8, <1>9 DEF Tracks
<1> QED
  BY <1>10 DEF v

\* A delta that was garbled is one that only a later snapshot makes up for.
LEMMA FrameGarbled ==
    ASSUME NEW w, Len(w) \in Nat, NEW v, NEW x, Garbled(w, v, x),
           NEW b, NEW q, NEW lost, NEW n, NEW m, Tracks(w, b, q, lost, n, m)
    PROVE  Tracks(v, b, q, lost, n, m)
<1> DEFINE L == Len(w)
<1>1. /\ Len(v) = L
      /\ \A i \in 1..L : SnapshotOf(v[i], m) <=> SnapshotOf(w[i], m)
      /\ \A i \in 1..L : HasNumber(v[i]) <=> HasNumber(w[i])
      /\ \A i \in 1..L : v[i].seq = w[i].seq
  BY DEF Garbled, SnapshotOf, HasNumber
<1>2. PICK k \in 0..L :
          /\ Base(w, b, n, m, k)
          /\ Intact(w, lost, m, k) => \E g \in [0..L -> Int] : Leads(w, b, q, m, k, g)
  BY DEF Tracks
<1>3. /\ k # 0 => k \in 1..L
      /\ \A i \in k + 1..L : i \in 1..L
      /\ \A i \in k..L : \A y \in i + 1..L : y \in k + 1..L
  OBVIOUS
<1>4. Base(v, b, n, m, k)
  BY <1>1, <1>2, <1>3 DEF Base
<1>5. ASSUME Intact(v, lost, m, k)
      PROVE  \E g \in [0..L -> Int] : Leads(v, b, q, m, k, g)
  <2>1. ASSUME NEW i \in k + 1..L
        PROVE  /\ ~BadOf(w[i], m) /\ (DeltaOf(v[i], m) <=> DeltaOf(w[i], m))
               /\ DeltaOf(w[i], m) => v[i] = w[i]
    <3>1. ~BadOf(v[i], m) /\ i \in 1..L
      BY <1>1, <1>3, <1>5 DEF Intact
    <3>2. CASE i = x
      BY <3>1, <3>2 DEF Garbled, BadOf, DeltaOf
    <3>3. CASE i # x
      BY <3>1, <3>3 DEF Garbled
    <3> QED
      BY <3>2, <3>3
  <2>2. Intact(w, lost, m, k)
    BY <1>5, <2>1 DEF Intact
  <2>3. PICK g \in [0..L -> Int] : Leads(w, b, q, m, k, g)
    BY <1>2, <2>2
  <2>4. k # 0 => v[k] = w[k]
    <3>1. k # 0 => k # x
      BY <1>2 DEF Base, SnapshotOf, Garbled
    <3> QED
      BY <1>3, <3>1 DEF Garbled
  <2>5. g[k] = IF k = 0 THEN b.qty ELSE v[k].qty
    BY <2>3, <2>4 DEF Leads
  <2>6. ASSUME NEW i \in k..L
        PROVE  g[i] \in Nat /\ ((\A y \in i + 1..L : ~DeltaOf(v[y], m)) => g[i] = q)
    BY <1>3, <2>1, <2>3 DEF Leads
  <2>7. ASSUME NEW i \in k + 1..L
        PROVE  g[i] = IF DeltaOf(v[i], m) THEN g[i - 1] + v[i].qty ELSE g[i - 1]
    BY <2>1, <2>3 DEF Leads
  <2> QED
    BY <1>1, <2>5, <2>6, <2>7 DEF Leads
<1> QED
  BY <1>1, <1>2, <1>4, <1>5 DEF Tracks

-----------------------------------------------------------------------------
(* What the steps do to the queue and the books *)

\* What Garble does.
LEMMA GarbleFacts ==
    ASSUME TypeOK, Garble
    PROVE  \E x : Garbled(wire, wire', x)
<1>1. PICK x \in DOMAIN wire :
          wire[x].kind = "delta" /\ wire' = [wire EXCEPT ![x].kind = "bad"]
  BY DEF Garble
<1>2. wire \in Seq(Frames) /\ wire[x] \in Frames
  BY DEF TypeOK
<1>3. /\ wire'[x].kind = "bad" /\ wire'[x].market = wire[x].market
      /\ wire'[x].seq = wire[x].seq
  BY <1>1, <1>2 DEF Frames
<1>4. /\ Len(wire') = Len(wire) /\ x \in 1..Len(wire)
      /\ \A i \in 1..Len(wire) : i # x => wire'[i] = wire[i]
  BY <1>1, <1>2
<1> QED
  BY <1>1, <1>3, <1>4 DEF Garbled

\* The frames Kalshi sends, with the numbers of the book channel.
SendsNone(f) == wire' = Append(wire, f) /\ f \in Frames /\ ~HasNumber(f) /\ seq' = seq
SendsNext(f) ==
    wire' = Append(wire, f) /\ f \in Frames /\ f.seq = seq + 1 /\ seq' = seq + 1

LEMMA SendFacts ==
    ASSUME TypeOK
    PROVE  /\ \A c \in CHANNELS : Acknowledge(c) => SendsNone(Frame("subscribed", c, 0, 0))
           /\ \A m \in Markets : Tick(m) => SendsNone(Frame("tick", m, 0, 0))
           /\ \A m \in Markets : Snapshot(m) => SendsNext(Frame("snapshot", m, seq + 1, venue[m]))
           /\ \A m \in Markets : \A by \in {-1, 1} :
                  Move(m, by) /\ wire' # wire => SendsNext(Frame("delta", m, seq + 1, by))
<1>1. seq + 1 \in Nat /\ \A m \in Markets : venue[m] \in Nat
  BY ConstantsOK DEF TypeOK
<1>2. ASSUME NEW c \in CHANNELS, Acknowledge(c)
      PROVE  SendsNone(Frame("subscribed", c, 0, 0))
  BY <1>2 DEF Acknowledge, SendsNone, Frame, Frames, HasNumber
<1>3. ASSUME NEW m \in Markets, Tick(m) PROVE SendsNone(Frame("tick", m, 0, 0))
  BY <1>3 DEF Tick, SendsNone, Frame, Frames, HasNumber, kalshi
<1>4. ASSUME NEW m \in Markets, Snapshot(m)
      PROVE  SendsNext(Frame("snapshot", m, seq + 1, venue[m]))
  BY <1>1, <1>4 DEF Snapshot, SendsNext, Frame, Frames
<1>5. ASSUME NEW m \in Markets, NEW by \in {-1, 1}, Move(m, by), wire' # wire
      PROVE  SendsNext(Frame("delta", m, seq + 1, by))
  BY <1>1, <1>5 DEF Move, SendsNext, Frame, Frames
<1> QED
  BY <1>2, <1>3, <1>4, <1>5

InOrder == Ordered(wire, seq)

LEMMA SendsInOrder ==
    ASSUME TypeOK, InOrder, NEW f, SendsNone(f) \/ SendsNext(f)
    PROVE  InOrder'
<1>1. /\ wire \in Seq(Frames) /\ seq \in Nat /\ seq' \in Nat /\ seq <= seq'
      /\ f \in Frames /\ wire' = Append(wire, f)
      /\ HasNumber(f) => seq < f.seq /\ f.seq <= seq'
  BY DEF TypeOK, SendsNone, SendsNext
<1>2. Ordered(Append(wire, f), seq')
  BY <1>1, OrderedJoins DEF InOrder
<1> QED
  BY <1>1, <1>2 DEF InOrder

LEMMA NextInOrder ==
    ASSUME TypeOK, InOrder, [Next]_vars
    PROVE  InOrder'
<1> USE DEF kalshi, local, state
<1>1. wire \in Seq(Frames) /\ seq \in Nat
  BY DEF TypeOK
<1>2. CASE UNCHANGED <<wire, seq>>
  BY <1>2 DEF InOrder
<1>3. CASE Kalshi
  <2>1. CASE Hour \/ \E e \in Events : List(e)
    BY <1>2, <2>1 DEF Hour, List
  <2>2. ASSUME NEW c \in CHANNELS, Acknowledge(c) PROVE InOrder'
    BY <2>2, SendFacts, SendsInOrder
  <2>3. ASSUME NEW m \in Markets, Snapshot(m) \/ Tick(m) PROVE InOrder'
    BY <2>3, SendFacts, SendsInOrder
  <2>4. ASSUME NEW m \in Markets, NEW by \in {-1, 1}, Move(m, by) PROVE InOrder'
    <3>1. CASE wire' # wire
      BY <2>4, <3>1, SendFacts, SendsInOrder
    <3>2. CASE wire' = wire
      <4>1. Len(Append(wire, Frame("delta", m, seq + 1, by))) = Len(wire) + 1 /\ Len(wire) \in Nat
        BY <1>1
      <4>2. seq' = seq
        BY <2>4, <3>2, <4>1 DEF Move
      <4> QED
        BY <1>2, <3>2, <4>2
    <3> QED
      BY <3>1, <3>2
  <2>5. CASE Garble
    <3>1. PICK x : Garbled(wire, wire', x)
      BY <2>5, GarbleFacts
    <3>2. seq' = seq /\ Ordered(wire', seq)
      BY <2>5, <3>1, OrderedGarbled DEF Garble, InOrder
    <3> QED
      BY <3>2 DEF InOrder
  <2> QED
    BY <1>3, <2>1, <2>2, <2>3, <2>4, <2>5 DEF Kalshi
<1>4. CASE Timer \/ Discover \/ Connect \/ NotDue \/ NothingToStage \/ Stage \/ RecvTimeout
           \/ UNCHANGED vars
  BY <1>2, <1>4 DEF Timer, Discover, Connect, NotDue, NothingToStage, Stage, RecvTimeout, vars
<1>5. CASE Subscribed \/ Ignore \/ TakeTick \/ TakeSnapshot \/ TakeDelta
  <2>1. wire # <<>> /\ wire' = Tail(wire) /\ seq' = seq
    BY <1>5 DEF Subscribed, Ignore, TakeTick, TakeSnapshot, TakeDelta, Receive
  <2>2. Ordered(Tail(wire), seq)
    BY <1>1, <2>1, OrderedTail DEF InOrder
  <2> QED
    BY <2>1, <2>2 DEF InOrder
<1>6. CASE StageFails \/ HandoverFails \/ Disconnect \/ Restart
  <2>1. wire' = <<>> /\ seq' = 0
    BY <1>6 DEF StageFails, HandoverFails, Disconnect, Restart, Down
  <2> QED
    BY <2>1 DEF InOrder, Ordered
<1> QED
  BY <1>3, <1>4, <1>5, <1>6 DEF Next, Feed

\* The end of a connection forgets what was sent on it.
LEMMA DownForgets ==
    ASSUME StageFails \/ HandoverFails \/ Disconnect \/ Restart
    PROVE  sent' = {} /\ pc' = "down" /\ subs' = [c \in CHANNELS |-> {}]
BY DEF StageFails, HandoverFails, Disconnect, Restart, Down

LEMMA NextSubscribes ==
    ASSUME TypeOK, Subscribes, [Next]_vars
    PROVE  Subscribes'
<1> USE DEF kalshi, local, state
<1>1. "orderbook_delta" \in CHANNELS /\ subs \in [CHANNELS -> SUBSET Events]
  BY ConstantsOK DEF TypeOK
<1>2. CASE UNCHANGED <<sent, subs, pc>>
  BY <1>2 DEF Subscribes
<1>3. CASE Kalshi
  <2>1. UNCHANGED <<subs, pc>> /\ \A m \in sent' : m \in sent \/ m[1] \in subs["orderbook_delta"]
    BY <1>3 DEF Kalshi, Hour, List, Acknowledge, Snapshot, Move, Tick, Garble
  <2> QED
    BY <2>1 DEF Subscribes
<1>4. CASE Timer \/ Discover \/ NotDue \/ NothingToStage \/ RecvTimeout \/ Subscribed \/ Ignore
           \/ UNCHANGED vars
  <2>1. UNCHANGED <<sent, subs>> /\ (pc' = "down" => pc = "down")
    BY <1>4 DEF Timer, Discover, NotDue, NothingToStage, RecvTimeout, Subscribed, Ignore,
                Receive, vars
  <2> QED
    BY <2>1 DEF Subscribes
<1>5. CASE Connect
  <2>1. pc = "down" /\ pc' = "top" /\ sent' = sent
    BY <1>5 DEF Connect
  <2> QED
    BY <2>1 DEF Subscribes
<1>6. CASE Stage
  <2>1. pc' = "recv" /\ sent' \subseteq sent
        /\ subs'["orderbook_delta"] = subs["orderbook_delta"] \cup {Nearest}
    BY <1>1, <1>6 DEF Stage
  <2> QED
    BY <2>1 DEF Subscribes
<1>7. CASE TakeTick \/ TakeSnapshot \/ TakeDelta
  <2>1. pc' = "top" /\ Handover(Head(wire))
    BY <1>7 DEF TakeTick, TakeSnapshot, TakeDelta, Receive
  <2>2. CASE Confirms(Head(wire))
    <3>1. /\ sent' = {m \in sent : m[1] # active}
          /\ subs'["orderbook_delta"] = subs["orderbook_delta"] \ {active}
      BY <1>1, <2>1, <2>2 DEF Handover
    <3> QED
      BY <2>1, <3>1 DEF Subscribes
  <2>3. CASE ~Confirms(Head(wire))
    <3>1. UNCHANGED <<sent, subs>>
      BY <2>1, <2>3 DEF Handover
    <3> QED
      BY <2>1, <3>1 DEF Subscribes
  <2> QED
    BY <2>2, <2>3
<1>8. CASE StageFails \/ HandoverFails \/ Disconnect \/ Restart
  BY <1>1, <1>8, DownForgets DEF Subscribes
<1> QED
  BY <1>3, <1>4, <1>5, <1>6, <1>7, <1>8 DEF Next, Feed

-----------------------------------------------------------------------------
(* The feed's book is Kalshi's *)

\* The queue and Kalshi's book of a market that is followed grow together.
LEMMA SendFollows ==
    ASSUME TypeOK, TypeOK', NEW m \in Markets, NEW f, SendsNone(f) \/ SendsNext(f),
           ~SnapshotOf(f, m), UNCHANGED <<books, torn>>,
           venue'[m] = IF DeltaOf(f, m) THEN venue[m] + f.qty ELSE venue[m],
           Tracks(wire, books[m], venue[m], m \in torn, seq, m)
    PROVE  Tracks(wire', books'[m], venue'[m], m \in torn', seq', m)
<1>1. /\ wire \in Seq(Frames) /\ seq \in Nat /\ seq' \in Nat /\ seq <= seq'
      /\ f \in Frames /\ wire' = Append(wire, f) /\ (HasNumber(f) => seq < f.seq)
  BY DEF TypeOK, SendsNone, SendsNext
<1>2. PICK r \in Nat : r = venue'[m]
  BY ConstantsOK DEF TypeOK
<1>3. PICK lost : lost = (m \in torn)
  OBVIOUS
<1>4. PICK n, p, b, q : n = seq /\ p = seq' /\ b = books[m] /\ q = venue[m]
  OBVIOUS
<1>5. /\ n \in Nat /\ p \in Nat /\ n <= p /\ (HasNumber(f) => n < f.seq)
      /\ r = IF DeltaOf(f, m) THEN q + f.qty ELSE q
  BY <1>1, <1>2, <1>4
<1>6. Tracks(wire, b, q, lost, n, m)
  BY <1>3, <1>4
<1>7. Tracks(Append(wire, f), b, r, lost, p, m)
  BY <1>1, <1>5, <1>6, FrameJoins
<1> QED
  BY <1>1, <1>2, <1>3, <1>4, <1>7

LEMMA KalshiFollows ==
    ASSUME TypeOK, TypeOK', Subscribes, Follows, Kalshi
    PROVE  Follows'
<1> USE DEF local, state, kalshi
<1>1. UNCHANGED <<active, pending, books, torn>> /\ wire \in Seq(Frames) /\ sent \subseteq Markets
  BY DEF TypeOK, Kalshi, Hour, List, Acknowledge, Snapshot, Move, Tick, Garble
<1>2. SUFFICES ASSUME NEW m \in sent', Accepts(m[1])
               PROVE  Tracks(wire', books'[m], venue'[m], m \in torn', seq', m)
  BY <1>1 DEF Follows, Accepts
<1>3. m \in Markets
  BY <1>2 DEF TypeOK
<1>4. m \in sent => Tracks(wire, books[m], venue[m], m \in torn, seq, m)
  BY <1>2 DEF Follows
<1>5. CASE Hour \/ \E e \in Events : List(e)
  <2>1. UNCHANGED <<wire, books, venue, torn, seq, sent>>
    BY <1>5 DEF Hour, List
  <2> QED
    BY <1>2, <1>4, <2>1
<1>6. ASSUME NEW f, SendsNone(f), f.kind # "snapshot", f.kind # "delta", UNCHANGED <<venue, sent>>
      PROVE  Tracks(wire', books'[m], venue'[m], m \in torn', seq', m)
  <2>1. ~SnapshotOf(f, m) /\ ~DeltaOf(f, m)
    BY <1>6 DEF SnapshotOf, DeltaOf
  <2> QED
    BY <1>1, <1>2, <1>3, <1>4, <1>6, <2>1, SendFollows
<1>7. ASSUME NEW c \in CHANNELS, Acknowledge(c)
      PROVE  Tracks(wire', books'[m], venue'[m], m \in torn', seq', m)
  <2>1. SendsNone(Frame("subscribed", c, 0, 0)) /\ UNCHANGED <<venue, sent>>
    BY <1>7, SendFacts DEF Acknowledge
  <2>2. Frame("subscribed", c, 0, 0).kind = "subscribed"
    BY DEF Frame
  <2> QED
    BY <1>6, <2>1, <2>2
<1>8. ASSUME NEW o \in Markets, Tick(o)
      PROVE  Tracks(wire', books'[m], venue'[m], m \in torn', seq', m)
  <2>1. SendsNone(Frame("tick", o, 0, 0)) /\ UNCHANGED <<venue, sent>>
    BY <1>8, SendFacts DEF Tick
  <2>2. Frame("tick", o, 0, 0).kind = "tick"
    BY DEF Frame
  <2> QED
    BY <1>6, <2>1, <2>2
<1>9. ASSUME NEW o \in Markets, Snapshot(o)
      PROVE  Tracks(wire', books'[m], venue'[m], m \in torn', seq', m)
  <2> DEFINE f == Frame("snapshot", o, seq + 1, venue[o])
  <2>1. SendsNext(f) /\ venue' = venue /\ sent' = sent \cup {o}
    BY <1>9, SendFacts DEF Snapshot
  <2>2. f.kind = "snapshot" /\ f.market = o /\ f.qty = venue[o]
    BY DEF Frame
  <2> HIDE DEF f
  <2>3. CASE m = o
    <3>1. SnapshotOf(f, m) /\ f \in Frames /\ wire' = Append(wire, f)
      BY <2>1, <2>2, <2>3 DEF SnapshotOf, SendsNext
    <3>2. PICK b, lost, n : b = books[m] /\ lost = (m \in torn) /\ n = seq'
      OBVIOUS
    <3>3. Tracks(Append(wire, f), b, f.qty, lost, n, m)
      BY <1>1, <3>1, SnapshotJoins
    <3> QED
      BY <1>1, <2>1, <2>2, <2>3, <3>1, <3>2, <3>3
  <2>4. CASE m # o
    <3>1. ~SnapshotOf(f, m) /\ ~DeltaOf(f, m) /\ m \in sent
      BY <1>2, <2>1, <2>2, <2>4 DEF SnapshotOf, DeltaOf
    <3> QED
      BY <1>1, <1>3, <1>4, <2>1, <3>1, SendFollows
  <2> QED
    BY <2>3, <2>4
<1>10. ASSUME NEW o \in Markets, NEW by \in {-1, 1}, Move(o, by)
       PROVE  Tracks(wire', books'[m], venue'[m], m \in torn', seq', m)
  <2>1. m \in sent /\ venue' = [venue EXCEPT ![o] = @ + by] /\ venue \in [Markets -> 0 .. MaxQty]
    BY <1>2, <1>10 DEF Move, TypeOK
  <2>2. CASE o \in sent /\ o[1] \in subs["orderbook_delta"]
    <3> DEFINE f == Frame("delta", o, seq + 1, by)
    <3>1. wire' = Append(wire, f)
      BY <1>10, <2>2 DEF Move
    <3>2. wire' # wire
      <4>1. Len(Append(wire, f)) = Len(wire) + 1 /\ Len(wire) \in Nat
        BY <1>1
      <4> QED
        BY <3>1, <4>1
    <3>3. SendsNext(f)
      BY <1>10, <3>2, SendFacts
    <3>4. f.kind = "delta" /\ f.market = o /\ f.qty = by
      BY DEF Frame
    <3> HIDE DEF f
    <3>5. /\ ~SnapshotOf(f, m)
          /\ venue'[m] = IF DeltaOf(f, m) THEN venue[m] + f.qty ELSE venue[m]
      BY <1>3, <2>1, <3>4 DEF SnapshotOf, DeltaOf
    <3> QED
      BY <1>1, <1>3, <1>4, <2>1, <3>3, <3>5, SendFollows
  <2>3. CASE ~(o \in sent /\ o[1] \in subs["orderbook_delta"])
    <3>1. UNCHANGED <<seq, wire>>
      BY <1>10, <2>3 DEF Move
    <3>2. m # o
      BY <2>1, <2>3 DEF Subscribes
    <3>3. venue'[m] = venue[m]
      BY <1>3, <2>1, <3>2
    <3> QED
      BY <1>1, <1>4, <2>1, <3>1, <3>3
  <2> QED
    BY <2>2, <2>3
<1>11. CASE Garble
  <2>1. PICK x : Garbled(wire, wire', x)
    BY <1>11, GarbleFacts
  <2>2. UNCHANGED <<venue, sent, seq>>
    BY <1>11 DEF Garble
  <2>3. PICK v, b, q, lost, n :
            v = wire' /\ b = books[m] /\ q = venue[m] /\ lost = (m \in torn) /\ n = seq
    OBVIOUS
  <2>4. Garbled(wire, v, x) /\ Tracks(wire, b, q, lost, n, m) /\ Len(wire) \in Nat
    BY <1>1, <1>2, <1>4, <2>1, <2>2, <2>3
  <2>5. Tracks(v, b, q, lost, n, m)
    BY <2>4, FrameGarbled
  <2> QED
    BY <1>1, <2>2, <2>3, <2>5
<1> QED
  BY <1>5, <1>7, <1>8, <1>9, <1>10, <1>11 DEF Kalshi

\* What a frame does to the book of a market that is followed.
LEMMA ReceiveTakes ==
    ASSUME TypeOK, Linked, Subscribes, NEW f \in Frames, f = Head(wire), NEW m \in sent',
           Accepts(m[1])', Subscribed \/ Ignore \/ TakeTick \/ TakeSnapshot \/ TakeDelta
    PROVE  /\ m \in sent /\ Accepts(m[1])
           /\ Taken(f, m, books[m], books'[m], m \in torn, m \in torn')
<1> USE DEF state
<1>1. Receive
  BY DEF Subscribed, Ignore, TakeTick, TakeSnapshot, TakeDelta
<1>2. sent \subseteq Markets /\ books \in [Markets -> [seq : Nat, qty : Nat]] /\ active \in Events
  BY <1>1 DEF TypeOK, Linked, Receive
<1>3. CASE Subscribed
  <2>1. f.kind = "subscribed" /\ UNCHANGED <<sent, state, books, torn>>
    BY <1>3 DEF Subscribed
  <2> QED
    BY <2>1 DEF Accepts, Taken, SnapshotOf, DeltaOf, BadOf
<1>4. CASE Ignore
  <2>1. /\ UNCHANGED <<sent, state, books>>
        /\ f.market[1] \notin context \/ ~Accepts(f.market[1]) \/ f.kind = "bad"
        /\ torn' = IF f.kind = "bad" THEN torn \cup {f.market} ELSE torn
    BY <1>4 DEF Ignore
  <2>2. m \in sent /\ Accepts(m[1])
    BY <2>1 DEF Accepts
  <2>3. m[1] \in context
    BY <1>1, <2>2, ConstantsOK DEF Subscribes, Linked, SubscriptionsMatch, Receive
  <2>4. f.market = m => f.kind = "bad"
    BY <2>1, <2>2, <2>3
  <2> QED
    BY <2>1, <2>2, <2>4 DEF Taken, SnapshotOf, DeltaOf, BadOf
<1>5. CASE TakeTick \/ TakeSnapshot \/ TakeDelta
  <2>1. Accepted(f) /\ Handover(f)
    BY <1>5 DEF TakeTick, TakeSnapshot, TakeDelta
  <2>2. m \in sent /\ Accepts(m[1]) /\ ~(Confirms(f) /\ m[1] = active)
    <3>1. CASE Confirms(f)
      <4>1. /\ active' = pending /\ pending' = None /\ f.market[1] = pending
            /\ sent' = {x \in sent : x[1] # active}
        BY <2>1, <3>1 DEF Handover, Confirm, Confirms
      <4>2. m \in sent /\ m[1] # active /\ m \in Markets
        BY <1>2, <4>1
      <4>3. m[1] # None
        BY <4>2, EventType
      <4> QED
        BY <4>1, <4>2, <4>3 DEF Accepts
    <3>2. CASE ~Confirms(f)
      BY <2>1, <3>2 DEF Handover, Accepts
    <3> QED
      BY <3>1, <3>2
  <2>3. Kept(f) \in [Markets -> [seq : Nat, qty : Nat]] /\ f.market \in Markets
    BY <2>1, HandoverType
  <2>4. Kept(f)[m] = books[m] /\ m \in Markets
    BY <1>2, <2>2 DEF Kept
  <2>5. f.kind # "bad" /\ f.kind # "subscribed"
    BY <2>1 DEF Accepted
  <2>6. CASE TakeTick
    <3>1. f.kind = "tick" /\ books' = Kept(f) /\ torn' = torn
      BY <2>6 DEF TakeTick
    <3> QED
      BY <2>2, <2>4, <3>1 DEF Taken, SnapshotOf, DeltaOf, BadOf
  <2>7. CASE TakeSnapshot
    <3>1. /\ f.kind = "snapshot" /\ torn' = torn \ {f.market}
          /\ books' = [Kept(f) EXCEPT ![f.market] = [seq |-> f.seq, qty |-> f.qty]]
      BY <2>7 DEF TakeSnapshot
    <3>2. books'[m] = IF f.market = m THEN [seq |-> f.seq, qty |-> f.qty] ELSE books[m]
      BY <2>3, <2>4, <3>1
    <3> QED
      BY <2>2, <3>1, <3>2 DEF Taken, SnapshotOf, DeltaOf, BadOf
  <2>8. CASE TakeDelta
    <3>1. /\ f.kind = "delta" /\ torn' = torn
          /\ books' = IF Applies(Kept(f)[f.market], f)
                      THEN [Kept(f) EXCEPT ![f.market] = [seq |-> f.seq, qty |-> @.qty + f.qty]]
                      ELSE Kept(f)
      BY <2>8 DEF TakeDelta
    <3>2. CASE f.market = m
      <4>1. books'[m] = IF Applies(books[m], f)
                        THEN [seq |-> f.seq, qty |-> books[m].qty + f.qty] ELSE books[m]
        BY <2>3, <2>4, <3>1, <3>2
      <4> QED
        BY <2>2, <3>1, <3>2, <4>1 DEF Taken, SnapshotOf, DeltaOf, BadOf
    <3>3. CASE f.market # m
      <4>1. books'[m] = books[m]
        BY <2>3, <2>4, <3>1, <3>3
      <4> QED
        BY <2>2, <3>1, <3>3, <4>1 DEF Taken, SnapshotOf, DeltaOf, BadOf
    <3> QED
      BY <3>2, <3>3
  <2> QED
    BY <1>5, <2>6, <2>7, <2>8
<1> QED
  BY <1>3, <1>4, <1>5

LEMMA ReceiveFollows ==
    ASSUME TypeOK, Linked, InOrder, Subscribes, Follows,
           Subscribed \/ Ignore \/ TakeTick \/ TakeSnapshot \/ TakeDelta
    PROVE  Follows'
<1> SUFFICES ASSUME NEW m \in sent', Accepts(m[1])'
             PROVE  Tracks(wire', books'[m], venue'[m], m \in torn', seq', m)
  BY DEF Follows
<1>1. wire # <<>> /\ wire' = Tail(wire) /\ UNCHANGED <<venue, seq>>
  BY DEF Subscribed, Ignore, TakeTick, TakeSnapshot, TakeDelta, Receive
<1>2. wire \in Seq(Frames) /\ Head(wire) \in Frames /\ seq \in Nat
  BY <1>1, WireType DEF TypeOK
<1>3. /\ m \in sent /\ Accepts(m[1])
      /\ Taken(Head(wire), m, books[m], books'[m], m \in torn, m \in torn')
  BY <1>2, ReceiveTakes
<1>4. Tracks(wire, books[m], venue[m], m \in torn, seq, m)
  BY <1>3 DEF Follows
<1>5. PICK b, c, q, n : b = books[m] /\ c = books'[m] /\ q = venue[m] /\ n = seq
  OBVIOUS
<1>6. PICK lost \in BOOLEAN, gone \in BOOLEAN : lost = (m \in torn) /\ gone = (m \in torn')
  <2>1. (m \in torn) \in BOOLEAN /\ (m \in torn') \in BOOLEAN
    OBVIOUS
  <2> QED
    BY <2>1
<1>7. b \in [seq : Nat, qty : Nat] /\ n \in Nat /\ Ordered(wire, n)
  BY <1>2, <1>3, <1>5 DEF TypeOK, InOrder
<1>8. Taken(Head(wire), m, b, c, lost, gone) /\ Tracks(wire, b, q, lost, n, m)
  BY <1>3, <1>4, <1>5, <1>6
<1>9. Tracks(Tail(wire), c, q, gone, n, m)
  BY <1>1, <1>2, <1>7, <1>8, FirstTaken
<1> QED
  BY <1>1, <1>5, <1>6, <1>9

LEMMA NextFollows ==
    ASSUME TypeOK, TypeOK', Linked, InOrder, Subscribes, Follows, [Next]_vars
    PROVE  Follows'
<1> USE DEF kalshi, state
<1>1. CASE Timer \/ NotDue \/ NothingToStage \/ RecvTimeout \/ UNCHANGED vars
  <2>1. UNCHANGED <<sent, active, pending, wire, books, venue, torn, seq>>
    BY <1>1 DEF Timer, NotDue, NothingToStage, RecvTimeout, vars
  <2> QED
    BY <2>1 DEF Follows, Accepts
<1>2. CASE Discover \/ Connect
  <2>1. pc = "down" /\ sent' = sent
    BY <1>2 DEF Discover, Connect
  <2> QED
    BY <2>1 DEF Follows, Subscribes
<1>3. CASE Stage
  <2>1. /\ UNCHANGED <<active, wire, books, venue, torn, seq>>
        /\ pending' = Nearest /\ sent' = {m \in sent : m[1] # Nearest}
    BY <1>3 DEF Stage
  <2> QED
    BY <2>1 DEF Follows, Accepts
<1>4. CASE StageFails \/ HandoverFails \/ Disconnect \/ Restart
  BY <1>4, DownForgets DEF Follows
<1> QED
  BY <1>1, <1>2, <1>3, <1>4, KalshiFollows, ReceiveFollows DEF Next, Feed

FeedInvariant == TypeOK /\ Linked /\ InOrder /\ Subscribes /\ Follows

\* When no frame of it is on its way, the book is what the frames led to.
LEMMA FollowedIsCurrent == FeedInvariant => BookCurrent
<1> SUFFICES ASSUME FeedInvariant, NEW m \in sent, Accepts(m[1]), Pending(m) = {}, m \notin torn
             PROVE  books[m].qty = venue[m]
  BY DEF BookCurrent
<1>1. PICK b, q, lost, n : b = books[m] /\ q = venue[m] /\ lost = (m \in torn) /\ n = seq
  OBVIOUS
<1>2. Tracks(wire, b, q, lost, n, m) /\ ~lost
  BY <1>1 DEF FeedInvariant, Follows
<1>3. PICK k \in 0..Len(wire) :
          /\ Base(wire, b, n, m, k)
          /\ Intact(wire, lost, m, k) => \E g \in [0..Len(wire) -> Int] : Leads(wire, b, q, m, k, g)
  BY <1>2 DEF Tracks
<1>4. DOMAIN wire = 1..Len(wire) /\ Len(wire) \in Nat
  BY DEF FeedInvariant, TypeOK
<1>5. \A i \in 1..Len(wire) :
          ~SnapshotOf(wire[i], m) /\ ~DeltaOf(wire[i], m) /\ ~BadOf(wire[i], m)
  BY <1>4 DEF Pending, SnapshotOf, DeltaOf, BadOf
<1>6. k = 0
  BY <1>3, <1>5 DEF Base
<1>7. Intact(wire, lost, m, 0)
  BY <1>2, <1>5 DEF Intact
<1>8. PICK g : Leads(wire, b, q, m, 0, g)
  BY <1>3, <1>6, <1>7
<1>9. 0 \in 0..Len(wire)
  BY <1>4
<1>10. g[0] = b.qty /\ g[0] = q
  BY <1>5, <1>8, <1>9 DEF Leads
<1> QED
  BY <1>1, <1>10

\* The feed's book of an accepted market is Kalshi's once its frames are
\* handled, through hand-overs, reconnections, candidates that are replaced and
\* numbers that other markets used; only a malformed delta is not made up for
\* until the next snapshot.
THEOREM BooksAreCurrent == Spec => []BookCurrent
<1>1. Init => FeedInvariant
  <2> SUFFICES ASSUME Init PROVE FeedInvariant
    OBVIOUS
  <2>1. Linked
    BY DEF Init, Linked, SubscriptionsMatch
  <2>2. Subscribes
    <3>1. sent = {} /\ subs["orderbook_delta"] = {}
      BY ConstantsOK DEF Init
    <3> QED
      BY <3>1 DEF Subscribes
  <2>3. InOrder /\ Follows
    BY DEF Init, InOrder, Ordered, Follows
  <2> QED
    BY <2>1, <2>2, <2>3, InitType DEF FeedInvariant
<1>2. FeedInvariant /\ [Next]_vars => FeedInvariant'
  <2> SUFFICES ASSUME FeedInvariant, [Next]_vars PROVE FeedInvariant'
    OBVIOUS
  <2>1. TypeOK' /\ Linked' /\ InOrder' /\ Subscribes'
    BY NextType, LinkedStep, NextInOrder, NextSubscribes DEF FeedInvariant
  <2>2. Follows'
    BY <2>1, NextFollows DEF FeedInvariant
  <2> QED
    BY <2>1, <2>2 DEF FeedInvariant
<1> QED
  BY <1>1, <1>2, FollowedIsCurrent, PTL DEF Spec

=============================================================================
