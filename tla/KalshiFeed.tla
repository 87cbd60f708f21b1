------------------------------ MODULE KalshiFeed ------------------------------
(***************************************************************************)
(* The Kalshi feed of the ingestion service: discovery of the event to     *)
(* follow, one WebSocket connection at a time, the hand-over from one      *)
(* hourly event to the next (KalshiRolloverState) and a book for each      *)
(* contract (KalshiBookState).  Kalshi itself is the environment.          *)
(*                                                                         *)
(* Events are numbered by their strike time, a market is an event with a   *)
(* strike, and a book is one price level.  A WebSocket delivers in order,  *)
(* and a connection that ends takes what it carried with it, so a command  *)
(* takes effect at Kalshi when it is sent and only the frames travel.      *)
(***************************************************************************)
EXTENDS Integers, Sequences, FiniteSets, FiniteSetsExt

CONSTANTS
    Last,       \* the events are 1..Last
    Strikes,    \* the markets of each event
    CHANNELS,   \* "ticker", "trade" and "orderbook_delta", or fewer of them
    MaxQty,     \* bound: the quantity of a level at the venue
    MaxWire,    \* bound: frames on their way
    MaxTraffic, \* bound: changes of Kalshi's books, tickers and trades
    MaxFaults   \* bound: lost connections, restarts and malformed frames

ASSUME ConstantsOK ==
    /\ Last \in Nat \ {0}
    /\ "orderbook_delta" \in CHANNELS
    /\ {MaxQty, MaxWire, MaxTraffic, MaxFaults} \subseteq Nat

Events == 1 .. Last
Markets == Events \X Strikes
None == 0

VARIABLES
    clock,      \* events up to this one have closed
    listed,     \* events the REST interface knows
    venue,      \* Kalshi's book of each market
    subs,       \* Kalshi: the events each channel of the connection covers
    unacked,    \* Kalshi: channels whose "subscribed" frame is not sent yet
    sent,       \* Kalshi: markets whose snapshot went out
    seq,        \* Kalshi: sequence of the book channel, over all its markets
    wire,       \* frames on their way to the feed
    pc,         \* "down", "top" of the loop of _connection, or "recv"
    due,        \* the 15 s of the next discovery are over
    active,     \* KalshiRolloverState
    pending,
    sids,       \* channel_sids: the channels whose SID is known
    context,    \* market_context, as the set of its events
    books,      \* _books; a market without a book has the fresh one
    torn,       \* history: markets with a malformed delta since their snapshot
    used        \* traffic and faults so far

kalshi == <<clock, listed, venue, subs, unacked, sent, seq>>
state == <<active, pending>>
vars == <<kalshi, wire, pc, due, state, sids, context, books, torn, used>>

FreshBook == [seq |-> 0, qty |-> 0]
Frame(kind, market, n, qty) ==
    [kind |-> kind, market |-> market, seq |-> n, qty |-> qty]

\* choose_event: the nearest event that has not closed, or an error.
Candidates == {e \in listed : e > clock}
Nearest == IF Candidates = {} THEN None ELSE Min(Candidates)

Accepts(e) == e \in {active, pending}

\* The frames of a connection: a snapshot holds a quantity, a delta a change.
Frames ==
    [kind : {"subscribed"}, market : CHANNELS, seq : {0}, qty : {0}]
    \cup [kind : {"tick", "snapshot"}, market : Markets, seq : Nat, qty : Nat]
    \cup [kind : {"delta", "bad"}, market : Markets, seq : Nat, qty : Int]

TypeOK ==
    /\ clock \in 0 .. Last
    /\ listed \subseteq Events
    /\ venue \in [Markets -> 0 .. MaxQty]
    /\ subs \in [CHANNELS -> SUBSET Events]
    /\ unacked \subseteq CHANNELS
    /\ sent \subseteq Markets
    /\ seq \in Nat
    /\ wire \in Seq(Frames)
    /\ pc \in {"down", "top", "recv"}
    /\ due \in BOOLEAN
    /\ {active, pending} \subseteq Events \cup {None}
    /\ sids \subseteq CHANNELS
    /\ context \subseteq Events
    /\ books \in [Markets -> [seq : Nat, qty : Nat]]
    /\ torn \subseteq Markets
    /\ used \in [traffic : Nat, faults : Nat]

Init ==
    /\ clock = 0
    /\ listed = {1}
    /\ venue = [m \in Markets |-> 0]
    /\ subs = [c \in CHANNELS |-> {}]
    /\ unacked = {}
    /\ sent = {}
    /\ seq = 0
    /\ wire = <<>>
    /\ pc = "down"
    /\ due = FALSE
    /\ active = None
    /\ pending = None
    /\ sids = {}
    /\ context = {}
    /\ books = [m \in Markets |-> FreshBook]
    /\ torn = {}
    /\ used = [traffic |-> 0, faults |-> 0]

(***************************************************************************)
(* Kalshi.                                                                 *)
(***************************************************************************)
local == <<pc, due, state, sids, context, books, torn>>

Hour ==
    /\ clock < Last
    /\ clock' = clock + 1
    /\ UNCHANGED <<listed, venue, subs, unacked, sent, seq, wire, local, used>>

\* An event may be listed after later ones: daily products coexist with the
\* hourly ones.
List(e) ==
    /\ e \notin listed
    /\ listed' = listed \cup {e}
    /\ UNCHANGED <<clock, venue, subs, unacked, sent, seq, wire, local, used>>

Acknowledge(c) ==
    /\ c \in unacked
    /\ Len(wire) < MaxWire
    /\ unacked' = unacked \ {c}
    /\ wire' = Append(wire, Frame("subscribed", c, 0, 0))
    /\ UNCHANGED <<clock, listed, venue, subs, sent, seq, local, used>>

Snapshot(m) ==
    /\ m[1] \in subs["orderbook_delta"]
    /\ m \notin sent
    /\ Len(wire) < MaxWire
    /\ sent' = sent \cup {m}
    /\ seq' = seq + 1
    /\ wire' = Append(wire, Frame("snapshot", m, seq + 1, venue[m]))
    /\ UNCHANGED <<clock, listed, venue, subs, unacked, local, used>>

\* The book of a market changes.  A subscriber that has its snapshot is told
\* of every change while it is subscribed.
Move(m, by) ==
    /\ used.traffic < MaxTraffic
    /\ venue[m] + by \in 0 .. MaxQty
    /\ used' = [used EXCEPT !.traffic = @ + 1]
    /\ venue' = [venue EXCEPT ![m] = @ + by]
    /\ IF m \in sent /\ m[1] \in subs["orderbook_delta"]
       THEN /\ Len(wire) < MaxWire
            /\ seq' = seq + 1
            /\ wire' = Append(wire, Frame("delta", m, seq + 1, by))
       ELSE UNCHANGED <<seq, wire>>
    /\ UNCHANGED <<clock, listed, subs, unacked, sent, local>>

Tick(m) ==
    /\ used.traffic < MaxTraffic
    /\ \E c \in CHANNELS \ {"orderbook_delta"} : m[1] \in subs[c]
    /\ Len(wire) < MaxWire
    /\ used' = [used EXCEPT !.traffic = @ + 1]
    /\ wire' = Append(wire, Frame("tick", m, 0, 0))
    /\ UNCHANGED <<kalshi, local>>

\* A delta arrives that parse_kalshi_message refuses.
Garble ==
    /\ used.faults < MaxFaults
    /\ \E i \in DOMAIN wire :
        /\ wire[i].kind = "delta"
        /\ wire' = [wire EXCEPT ![i].kind = "bad"]
    /\ used' = [used EXCEPT !.faults = @ + 1]
    /\ UNCHANGED <<kalshi, local>>

Kalshi ==
    \/ Hour
    \/ \E e \in Events : List(e)
    \/ \E c \in CHANNELS : Acknowledge(c)
    \/ \E m \in Markets : Snapshot(m) \/ Tick(m)
    \/ \E m \in Markets, by \in {-1, 1} : Move(m, by)
    \/ Garble

(***************************************************************************)
(* The feed.                                                               *)
(***************************************************************************)
\* The end of a connection, whoever ends it.  _state and _books outlive it.
Down ==
    /\ pc' = "down"
    /\ due' = FALSE
    /\ sids' = {}
    /\ context' = {}
    /\ subs' = [c \in CHANNELS |-> {}]
    /\ unacked' = {}
    /\ sent' = {}
    /\ seq' = 0
    /\ wire' = <<>>
    /\ UNCHANGED <<clock, listed, venue>>

\* run: without an active event one is discovered; the next iteration, or this
\* one, connects and subscribes to its markets.
Discover ==
    /\ pc = "down"
    /\ active = None
    /\ Nearest # None
    /\ active' = Nearest
    /\ UNCHANGED <<kalshi, wire, pc, due, pending, sids, context,
                   books, torn, used>>

Connect ==
    /\ pc = "down"
    /\ active # None
    /\ pc' = "top"
    /\ due' = TRUE
    /\ sids' = {}
    /\ context' = {active}
    /\ subs' = [c \in CHANNELS |-> {active}]
    /\ unacked' = CHANNELS
    /\ UNCHANGED <<clock, listed, venue, sent, seq, wire, state, books, torn,
                   used>>

Timer ==
    /\ pc # "down"
    /\ ~due
    /\ due' = TRUE
    /\ UNCHANGED <<kalshi, wire, pc, state, sids, context, books, torn, used>>

NotDue ==
    /\ pc = "top"
    /\ ~due
    /\ pc' = "recv"
    /\ UNCHANGED <<kalshi, wire, due, state, sids, context, books, torn, used>>

\* _check_rollover returns without staging: a SID is missing, discovery fails,
\* or the candidate is the active event (a pending one stays as it is).
NothingToStage ==
    /\ pc = "top"
    /\ due
    /\ \/ sids # CHANNELS
       \/ Nearest \in {None, active}
    /\ pc' = "recv"
    /\ due' = FALSE
    /\ UNCHANGED <<kalshi, wire, state, sids, context, books, torn, used>>

\* Mutant of CanStage: one candidate is staged at a time.
CanStageOnce ==
    /\ pc = "top"
    /\ due
    /\ pending = None
    /\ sids = CHANNELS
    /\ Nearest \notin {None, active}

CanStage ==
    /\ pc = "top"
    /\ due
    /\ sids = CHANNELS
    /\ Nearest \notin {None, active}

\* Mutant of Stage: the candidate is active at once.
StageActive ==
    /\ CanStage
    /\ active' = Nearest
    /\ context' = context \cup {Nearest}
    /\ subs' = [c \in CHANNELS |-> subs[c] \cup {Nearest}]
    /\ sent' = {m \in sent : m[1] # Nearest}
    /\ pc' = "recv"
    /\ due' = FALSE
    /\ UNCHANGED <<clock, listed, venue, unacked, seq, wire, pending, sids, books,
                   torn, used>>

\* add_markets goes to every channel, and Kalshi sends the books of the markets
\* it names.
Stage ==
    /\ CanStage
    /\ pending' = Nearest
    /\ context' = context \cup {Nearest}
    /\ subs' = [c \in CHANNELS |-> subs[c] \cup {Nearest}]
    /\ sent' = {m \in sent : m[1] # Nearest}
    /\ pc' = "recv"
    /\ due' = FALSE
    /\ UNCHANGED <<clock, listed, venue, unacked, seq, wire, active, sids, books, torn, used>>

Fault ==
    /\ used.faults < MaxFaults
    /\ used' = [used EXCEPT !.faults = @ + 1]

\* The candidate is staged and the connection breaks while it is added.
StageFails ==
    /\ CanStage
    /\ Fault
    /\ pending' = Nearest
    /\ Down
    /\ UNCHANGED <<active, books, torn>>

RecvTimeout ==
    /\ pc = "recv"
    /\ wire = <<>>
    /\ pc' = "top"
    /\ UNCHANGED <<kalshi, wire, due, state, sids, context, books, torn, used>>

Receive ==
    /\ pc = "recv"
    /\ wire # <<>>
    /\ wire' = Tail(wire)
    /\ pc' = "top"
    /\ UNCHANGED <<clock, listed, venue, unacked, seq, due>>

Subscribed ==
    /\ Receive
    /\ Head(wire).kind = "subscribed"
    /\ sids' = sids \cup {Head(wire).market}
    /\ UNCHANGED <<subs, sent, state, context, books, torn, used>>

\* A frame of a market that is not in the context or not accepted, or one that
\* cannot be parsed, whose loss goes unnoticed.
Ignore ==
    LET f == Head(wire) IN
    /\ Receive
    /\ f.kind # "subscribed"
    /\ \/ f.market[1] \notin context
       \/ ~Accepts(f.market[1])
       \/ f.kind = "bad"
    /\ torn' = IF f.kind = "bad" THEN torn \cup {f.market} ELSE torn
    /\ UNCHANGED <<subs, sent, state, sids, context, books, used>>

Accepted(f) ==
    /\ f.kind \notin {"subscribed", "bad"}
    /\ f.market[1] \in context
    /\ Accepts(f.market[1])

Confirms(f) == pending # None /\ f.market[1] = pending

Confirm ==
    /\ active' = pending
    /\ pending' = None

\* Mutant of Handover: the old markets are deleted from the book channel only.
HandoverOneChannel(f) ==
    IF Confirms(f)
    THEN /\ Confirm
         /\ subs' = [subs EXCEPT !["orderbook_delta"] = @ \ {active}]
         /\ sent' = {m \in sent : m[1] # active}
         /\ context' = context \ {active}
    ELSE UNCHANGED <<state, subs, sent, context>>

\* The first frame of the pending event makes it the active one: the old
\* markets are deleted from every channel and their books and context dropped.
Handover(f) ==
    IF Confirms(f)
    THEN /\ Confirm
         /\ subs' = [c \in CHANNELS |-> subs[c] \ {active}]
         /\ sent' = {m \in sent : m[1] # active}
         /\ context' = context \ {active}
    ELSE UNCHANGED <<state, subs, sent, context>>

Kept(f) ==
    [m \in Markets |->
        IF Confirms(f) /\ m[1] = active THEN FreshBook ELSE books[m]]

TakeTick ==
    LET f == Head(wire) IN
    /\ Receive
    /\ Accepted(f)
    /\ f.kind = "tick"
    /\ Handover(f)
    /\ books' = Kept(f)
    /\ UNCHANGED <<sids, torn, used>>

\* Mutant of TakeSnapshot: the sequence of a snapshot must exceed the last one.
TakeSnapshotInSequence ==
    LET f == Head(wire) IN
    /\ Receive
    /\ Accepted(f)
    /\ f.kind = "snapshot"
    /\ Handover(f)
    /\ books' = IF f.seq > Kept(f)[f.market].seq
                THEN [Kept(f) EXCEPT ![f.market] = [seq |-> f.seq, qty |-> f.qty]]
                ELSE Kept(f)
    /\ torn' = torn \ {f.market}
    /\ UNCHANGED <<sids, used>>

TakeSnapshot ==
    LET f == Head(wire) IN
    /\ Receive
    /\ Accepted(f)
    /\ f.kind = "snapshot"
    /\ Handover(f)
    /\ books' = [Kept(f) EXCEPT ![f.market] = [seq |-> f.seq, qty |-> f.qty]]
    /\ torn' = torn \ {f.market}
    /\ UNCHANGED <<sids, used>>

\* KalshiBookState.apply accepts a gap in the sequence, for the sequence runs
\* over all markets of the subscription.
Applies(b, f) == b.seq # 0 /\ f.seq > b.seq /\ b.qty + f.qty >= 0

TakeDelta ==
    LET f == Head(wire) IN
    /\ Receive
    /\ Accepted(f)
    /\ f.kind = "delta"
    /\ Handover(f)
    /\ IF Applies(Kept(f)[f.market], f)
       THEN books' = [Kept(f) EXCEPT ![f.market] =
                         [seq |-> f.seq, qty |-> @.qty + f.qty]]
       ELSE books' = Kept(f)
    /\ UNCHANGED <<sids, torn, used>>

\* The connection breaks while the old markets are deleted: the hand-over is
\* done, the old books stay, and the frame is lost.
HandoverFails ==
    LET f == Head(wire) IN
    /\ pc = "recv"
    /\ wire # <<>>
    /\ Accepted(f)
    /\ Confirms(f)
    /\ Fault
    /\ Confirm
    /\ Down
    /\ UNCHANGED <<books, torn>>

Disconnect ==
    /\ pc # "down"
    /\ Fault
    /\ Down
    /\ UNCHANGED <<state, books, torn>>

Restart ==
    /\ Fault
    /\ Down
    /\ active' = None
    /\ pending' = None
    /\ books' = [m \in Markets |-> FreshBook]
    /\ torn' = {}

Feed ==
    \/ Discover
    \/ Connect
    \/ NotDue
    \/ NothingToStage
    \/ Stage
    \/ RecvTimeout
    \/ Subscribed
    \/ Ignore
    \/ TakeTick
    \/ TakeSnapshot
    \/ TakeDelta

Next ==
    \/ Kalshi
    \/ Timer
    \/ Feed
    \/ StageFails
    \/ HandoverFails
    \/ Disconnect
    \/ Restart

Spec == Init /\ [][Next]_vars

\* The event loop runs the feed and its timer; Kalshi answers a subscription
\* with its acknowledgements and with the books.  Nothing obliges it to trade.
Fairness ==
    /\ WF_vars(Feed)
    /\ WF_vars(Timer)
    /\ \A c \in CHANNELS : WF_vars(Acknowledge(c))
    /\ \A m \in Markets : WF_vars(Snapshot(m))

FairSpec == Spec /\ Fairness

(***************************************************************************)
(* Properties.                                                             *)
(***************************************************************************)
Pending(m) == {i \in DOMAIN wire : wire[i].kind # "subscribed" /\ wire[i].market = m}

\* A hand-over moves all three subscriptions alike, and the feed has the
\* context of exactly the events Kalshi sends on this connection: no channel
\* keeps an event whose frames the feed would drop for want of a context, or
\* lacks one it waits for (_update_all_channels, market_context).
SubscriptionsMatch ==
    pc # "down" =>
        /\ active \in context
        /\ \A c \in CHANNELS : subs[c] = context

\* Once every frame of an accepted market has been handled, the feed's book is
\* Kalshi's: across hand-overs, reconnections with a sequence that starts
\* again, candidates that were replaced, and gaps left by other markets.  A
\* market that lost a delta to a malformed frame is excluded until its next
\* snapshot, for nothing resynchronizes it.
BookCurrent ==
    \A m \in sent :
        (Accepts(m[1]) /\ m[1] \in context /\ Pending(m) = {} /\ m \notin torn)
            => books[m].qty = venue[m]

\* The accepted event changes only to one that was staged, and only when a
\* frame of it has arrived on the connection at hand: until then the old event
\* stays accepted, and afterwards it is not ("safe hourly rotation").
RotatesOnArrival ==
    [][(active' # active /\ active # None /\ active' # None) =>
            /\ active' = pending
            /\ wire # <<>>
            /\ Head(wire).market[1] = active'
            /\ active' \in context
            /\ pending' = None]_<<active, pending>>

\* When events stop closing and being listed, the feed ends up following the
\* nearest open event, whatever was staged, lost or replaced on the way.
FollowsNearest == <>[](Nearest # None => active = Nearest)
=============================================================================
