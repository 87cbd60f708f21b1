------------------------------ MODULE VenueFeed ------------------------------
(***************************************************************************)
(* The feed of one crypto venue in the ingestion service: a WebSocket at a *)
(* time, an adapter that turns its frames into trades and books, and the   *)
(* book some adapters keep.  The adapters share one shape and differ in    *)
(* what they do about a frame they cannot use; `venue` is the adapter a    *)
(* behaviour is about, and the sets below say who does what.               *)
(*                                                                         *)
(* A book is a set of levels <<side, price>>; quantities are left out.  A  *)
(* frame carries the levels that appear and those that vanish.             *)
(***************************************************************************)
EXTENDS Integers, Sequences, FiniteSets

CONSTANTS
    Venues,     \* the adapters considered
    Prices,     \* the prices of levels
    Books,      \* the books a venue may hold
    MaxWire,    \* bound: frames on their way
    MaxChanges, \* bound: changes of the venue's book
    MaxTrades,  \* bound: frames with trades
    MaxFaults   \* bound: lost connections, restarts and malformed frames

Levels == {"bid", "ask"} \X Prices
Adapters == {"binance", "gemini", "crypto_com", "bitstamp", "deribit",
             "coinbase", "kraken", "bybit"}

ASSUME ConstantsOK ==
    /\ Venues \subseteq Adapters
    /\ Prices \subseteq Nat
    /\ Books \subseteq SUBSET Levels
    /\ {MaxWire, MaxChanges, MaxTrades, MaxFaults} \subseteq Nat

\* Adapters that keep a book and are sent changes; the others are sent books,
\* but for Deribit, which is sent trades only.
Incremental == {"coinbase", "kraken", "bybit"}
TradesOnly == {"deribit"}
\* The book is new on every connection and carries a generation (KrakenFeed).
\* It is subscribed to again when it cannot be used.
Resyncs == {"kraken"}
\* Every ValueError rejects the frame; elsewhere only the adapter's own error
\* does, and any other ends the connection.
Catches == {"crypto_com", "bitstamp", "bybit"}
\* Asks at or below the best bid are removed from a crossed book.
Uncrosses == {"crypto_com", "bitstamp"}
\* Only events[0].trades[0] of a frame is used.
FirstTradeOnly == {"coinbase"}

VARIABLES
    venue,      \* the adapter
    remote,     \* the venue's book and the number of its last frame
    owes,       \* the venue is to send a book on this connection
    up,         \* connected
    wire,       \* frames on their way to the feed
    book,       \* the levels the adapter keeps
    id,         \* [generation, sequence] of the adapter's book
    awaiting,   \* awaiting_book_snapshot
    shown,      \* the last book published
    published,  \* history: the books published, but for those built on a book
                \* that lost a change, with their identifiers
    dropped,    \* history: trades the feed was sent and did not put
    restarted,  \* history: the process has restarted
    torn,       \* history: a book or a change was lost to a malformed frame
    used        \* changes, trades and faults so far

exchange == <<remote, owes>>
adapter == <<book, id, awaiting>>
history == <<shown, published, dropped, restarted, torn>>
vars == <<venue, exchange, up, wire, adapter, history, used>>

Side(b, s) == {l[2] : l \in {x \in b : x[1] = s}}
OneSided(b) == Side(b, "bid") = {} \/ Side(b, "ask") = {}
\* BookSnapshot refuses a crossed or locked book.
Crossed(b) == \E x \in Side(b, "bid"), y \in Side(b, "ask") : x >= y
Usable(b) == ~OneSided(b) /\ ~Crossed(b)

Frame == [kind : {"snapshot", "update", "trade", "bad_frame", "bad_snapshot",
                 "bad_update"},
          add : SUBSET Levels, del : SUBSET Levels, n : Nat]
BookFrame(kind, add, del, n) == [kind |-> kind, add |-> add, del |-> del, n |-> n]
TradeFrame(n) == [kind |-> "trade", add |-> {}, del |-> {}, n |-> n]

TypeOK ==
    /\ venue \in Venues
    /\ remote \in [book : SUBSET Levels, n : Nat]
    /\ {owes, up, awaiting, restarted, torn} \subseteq BOOLEAN
    /\ wire \in Seq(Frame)
    /\ book \subseteq Levels
    /\ id \in [generation : Nat, sequence : Nat]
    /\ shown \subseteq Levels
    /\ published \subseteq [generation : Nat, sequence : Nat, book : SUBSET Levels]
    /\ dropped \subseteq Nat
    /\ used \in [changes : Nat, trades : Nat, faults : Nat]

Init ==
    /\ venue \in Venues
    /\ remote \in [book : {b \in Books : Usable(b)}, n : {1}]
    /\ owes = FALSE
    /\ up = FALSE
    /\ wire = <<>>
    /\ book = {}
    /\ id = [generation |-> 0, sequence |-> 0]
    /\ awaiting = FALSE
    /\ shown = {}
    /\ published = {}
    /\ dropped = {}
    /\ restarted = FALSE
    /\ torn = FALSE
    /\ used = [changes |-> 0, trades |-> 0, faults |-> 0]

(***************************************************************************)
(* The venue.                                                              *)
(***************************************************************************)
\* The book changes.  Who has the book already is sent the change, in one
\* frame or side by side; venues that send books send the new one.
Update(b) ==
    LET add == b \ remote.book
        del == remote.book \ b
        one(s, n) ==
            BookFrame("update", {l \in add : l[1] = s}, {l \in del : l[1] = s}, n)
    IN {<<BookFrame("update", add, del, remote.n + 2)>>} \cup
       {<<one(p[1], remote.n + 1), one(p[2], remote.n + 2)>> :
            p \in {<<"bid", "ask">>, <<"ask", "bid">>}}

Change(b) ==
    /\ used.changes < MaxChanges
    /\ venue \notin TradesOnly
    /\ b # remote.book
    /\ venue \in Incremental => Usable(b)
    /\ used' = [used EXCEPT !.changes = @ + 1]
    /\ remote' = [book |-> b, n |-> remote.n + 2]
    /\ IF ~up \/ owes
       THEN wire' = wire
       ELSE /\ Len(wire) < MaxWire
            /\ IF venue \in Incremental
               THEN \E u \in Update(b) : wire' = wire \o u
               ELSE wire' = Append(wire, BookFrame("snapshot", b, {}, remote.n + 2))
    /\ UNCHANGED <<venue, owes, up, adapter, history>>

SendBook ==
    /\ up
    /\ owes
    /\ Len(wire) < MaxWire
    /\ owes' = FALSE
    /\ wire' = Append(wire, BookFrame("snapshot", remote.book, {}, remote.n))
    /\ UNCHANGED <<venue, remote, up, adapter, history, used>>

\* A frame with two trades, numbered by the frame.
SendTrades ==
    /\ up
    /\ used.trades < MaxTrades
    /\ Len(wire) < MaxWire
    /\ used' = [used EXCEPT !.trades = @ + 1]
    /\ wire' = Append(wire, TradeFrame(2 * used.trades))
    /\ UNCHANGED <<venue, exchange, up, adapter, history>>

Fault ==
    /\ used.faults < MaxFaults
    /\ used' = [used EXCEPT !.faults = @ + 1]

Unparsed(kind) == IF kind = "snapshot" THEN "bad_snapshot" ELSE "bad_update"

\* A frame is no JSON ("bad_frame"), or a level of its book has a part of the
\* wrong type.
Malform(i) ==
    /\ wire[i].kind \in {"snapshot", "update"}
    /\ Fault
    /\ \E kind \in {"bad_frame", Unparsed(wire[i].kind)} :
           wire' = [wire EXCEPT ![i].kind = kind]
    /\ UNCHANGED <<venue, exchange, up, adapter, history>>

(***************************************************************************)
(* The feed.                                                               *)
(***************************************************************************)
\* Mutant of NewBook: it is no new generation.
NewBookSameGeneration ==
    /\ book' = {}
    /\ id' = [id EXCEPT !.sequence = 0]
    /\ awaiting' = TRUE

NewBook ==
    /\ book' = {}
    /\ id' = [generation |-> id.generation + 1, sequence |-> 0]
    /\ awaiting' = TRUE

\* connect and subscribe.
Connect ==
    /\ ~up
    /\ up' = TRUE
    /\ owes' = (venue \notin TradesOnly)
    /\ IF venue \in Resyncs THEN NewBook ELSE UNCHANGED adapter
    /\ torn' = FALSE
    /\ UNCHANGED <<venue, remote, wire, shown, published, dropped,
                   restarted, used>>

Trades(w) ==
    UNION {{w[i].n + 1, w[i].n + 2} : i \in {j \in DOMAIN w : w[j].kind = "trade"}}

\* The connection ends and what it carried is lost.
Lost ==
    /\ up' = FALSE
    /\ owes' = FALSE
    /\ wire' = <<>>
    /\ UNCHANGED <<venue, remote>>

\* An exception the loop over frames does not catch: "venue_connection_lost".
TearDown ==
    /\ Lost
    /\ dropped' = dropped \cup Trades(Tail(wire))
    /\ UNCHANGED <<awaiting, shown, published, restarted, torn, used>>

Handle(kinds) ==
    /\ up
    /\ wire # <<>>
    /\ Head(wire).kind \in kinds

Next1 ==
    /\ wire' = Tail(wire)
    /\ UNCHANGED <<venue, remote, up, dropped, restarted, used>>

PutTrades ==
    LET f == Head(wire) IN
    /\ Handle({"trade"})
    /\ wire' = Tail(wire)
    /\ dropped' = dropped \cup (IF venue \in FirstTradeOnly THEN {f.n + 2} ELSE {})
    /\ UNCHANGED <<venue, exchange, up, adapter, shown, published, restarted, torn,
                   used>>

\* The identifier the book of frame f gets: the venue's own number where books
\* are sent, and for Bybit; a count of the adapter elsewhere.
NextId(f) ==
    IF venue \in {"kraken", "coinbase"}
    THEN [id EXCEPT !.sequence = @ + 1]
    ELSE [id EXCEPT !.sequence = f.n]

Publish(i, b) ==
    /\ shown' = b
    /\ published' = published \cup
           IF torn' THEN {}
           ELSE {[generation |-> i.generation, sequence |-> i.sequence, book |-> b]}

\* A book frame that has no effect: a malformed one, or one of Kraken's updates
\* before the snapshot.
SkipBook ==
    /\ \/ Handle({"bad_frame"})
       \/ Handle({"update", "bad_update"}) /\ awaiting
       \/ Handle({"bad_snapshot"}) /\ venue \notin Incremental
    /\ Next1
    /\ torn' = (torn \/ Head(wire).kind \in {"bad_frame", "bad_snapshot"})
    /\ UNCHANGED <<owes, adapter, shown, published>>

\* Mutant of Applied: a snapshot does not clear the book.
AppliedUncleared(f) == (book \ f.del) \cup f.add

\* The levels after frame f, for an adapter that keeps a book.
Applied(f) ==
    IF f.kind = "snapshot" THEN f.add ELSE (book \ f.del) \cup f.add

Keeping ==
    /\ venue \in Incremental
    /\ Handle({"snapshot", "update"})
    /\ ~(awaiting /\ Head(wire).kind = "update")

\* apply and apply_advanced return a book, or None while a side is empty.
ApplyBook ==
    LET f == Head(wire)
        b == Applied(f)
    IN
    /\ Keeping
    /\ ~Crossed(b)
    /\ Next1
    /\ book' = b
    /\ id' = NextId(f)
    /\ torn' = (torn /\ f.kind # "snapshot")
    /\ IF OneSided(b)
       THEN UNCHANGED <<shown, published, awaiting>>
       ELSE /\ Publish(NextId(f), b)
            /\ awaiting' = (awaiting /\ f.kind # "snapshot")
    /\ UNCHANGED <<owes>>

CannotUse ==
    /\ venue \in Resyncs
    /\ \/ Keeping /\ Crossed(Applied(Head(wire)))
       \/ Handle({"bad_snapshot"})
       \/ Handle({"bad_update"}) /\ ~awaiting

\* Mutants of Resync: it ends the connection; the channel is not subscribed to
\* again.
ResyncTearsDown ==
    /\ CannotUse
    /\ TearDown
    /\ UNCHANGED <<book, id>>

ResyncSilent ==
    /\ CannotUse
    /\ Next1
    /\ NewBook
    /\ torn' = FALSE
    /\ UNCHANGED <<owes, shown, published>>

\* Kraken: a book that is crossed, or a level that cannot be parsed, resets the
\* book channel alone.
Resync ==
    /\ CannotUse
    /\ Next1
    /\ NewBook
    /\ owes' = TRUE
    /\ torn' = FALSE
    /\ UNCHANGED <<shown, published>>

\* Coinbase and Bybit: a level that cannot be parsed rejects the frame after
\* the levels before it were applied.
RejectPart ==
    LET f == Head(wire) IN
    /\ venue \in Incremental \ Resyncs
    /\ Handle({"bad_snapshot", "bad_update"})
    /\ Next1
    /\ \E part \in SUBSET (f.add \cup f.del) :
           book' = (f.add \cap part) \cup
                       IF f.kind = "bad_snapshot" THEN {} ELSE book \ (f.del \cap part)
    /\ torn' = TRUE
    /\ UNCHANGED <<owes, id, awaiting, shown, published>>

\* Bybit: a crossed book is not published and stays as it is.
RejectCrossed ==
    /\ venue \in Catches
    /\ Keeping
    /\ Crossed(Applied(Head(wire)))
    /\ Next1
    /\ book' = Applied(Head(wire))
    /\ id' = NextId(Head(wire))
    /\ UNCHANGED <<owes, awaiting, shown, published, torn>>

\* Coinbase: it ends the connection; the book and its sequence survive.
CrossedEnds ==
    /\ venue \in Incremental \ (Resyncs \cup Catches)
    /\ Keeping
    /\ Crossed(Applied(Head(wire)))
    /\ book' = Applied(Head(wire))
    /\ id' = NextId(Head(wire))
    /\ TearDown

\* What an adapter that is sent books makes of one.
Uncrossed(b) ==
    {l \in b : l[1] = "ask" => \A p \in Side(b, "bid") : l[2] > p}
Normalized(b) == IF venue \in Uncrosses THEN Uncrossed(b) ELSE b
Refused(b) == IF venue \in Uncrosses THEN ~Usable(Uncrossed(b)) ELSE b = {}

Sent == venue \notin Incremental /\ Handle({"snapshot"})

PutBook ==
    LET f == Head(wire) IN
    /\ Sent
    /\ ~Refused(f.add)
    /\ ~Crossed(Normalized(f.add))
    /\ Next1
    /\ torn' = FALSE
    /\ Publish(NextId(f), Normalized(f.add))
    /\ UNCHANGED <<owes, adapter>>

RefuseBook ==
    /\ Sent
    /\ Refused(Head(wire).add)
    /\ Next1
    /\ UNCHANGED <<owes, adapter, shown, published, torn>>

\* Binance and Gemini: the ValueError of a crossed book is not theirs.
CrossedBookEnds ==
    /\ Sent
    /\ ~Refused(Head(wire).add)
    /\ Crossed(Normalized(Head(wire).add))
    /\ TearDown
    /\ UNCHANGED <<book, id>>

Disconnect ==
    /\ up
    /\ Fault
    /\ Lost
    /\ UNCHANGED <<adapter, history>>

\* The process: the adapter's book starts over, Kraken's with a new generation.
Restart ==
    /\ Fault
    /\ Lost
    /\ restarted' = TRUE
    /\ book' = {}
    /\ id' = [generation |-> IF venue \in Resyncs THEN id.generation + 1 ELSE 0,
              sequence |-> 0]
    /\ awaiting' = FALSE
    /\ torn' = FALSE
    /\ UNCHANGED <<shown, published, dropped>>

Feed ==
    \/ Connect
    \/ PutTrades
    \/ SkipBook
    \/ ApplyBook
    \/ Resync
    \/ RejectPart
    \/ RejectCrossed
    \/ CrossedEnds
    \/ PutBook
    \/ RefuseBook
    \/ CrossedBookEnds

Next ==
    \/ \E b \in Books : Change(b)
    \/ SendBook
    \/ SendTrades
    \/ \E i \in DOMAIN wire : Malform(i)
    \/ Feed
    \/ Disconnect
    \/ Restart

Spec == Init /\ [][Next]_vars

\* The event loop runs the feed, which reconnects for ever; a venue answers a
\* subscription with its book.
FairSpec == Spec /\ WF_vars(Feed) /\ WF_vars(SendBook)

(***************************************************************************)
(* Properties.                                                             *)
(***************************************************************************)
Quiet == \A i \in DOMAIN wire : wire[i].kind = "trade"

\* When the venue's answer and every frame with a book have been handled, the
\* last book published is the venue's, with the asks a crossed one loses:
\* whatever was resynchronized, rejected, reconnected or restarted on the way,
\* and although the sides of a change may arrive one after the other.  What a
\* malformed frame carried is lost until the next book, and Kraken's waits for
\* its snapshot.
ShowsLatest ==
    (up /\ ~owes /\ Quiet /\ ~torn /\ ~awaiting /\ venue \notin TradesOnly
        /\ Usable(Normalized(remote.book)))
            => shown = Normalized(remote.book)

\* An identifier is used for one book: consumers that remember identifiers
\* refuse no book as a duplicate of another.  It holds across reconnections
\* and resynchronizations, and across restarts too but for Coinbase, whose
\* count starts at 0 again without a generation.
IdsDistinct ==
    \A x, y \in published :
        (x.generation = y.generation /\ x.sequence = y.sequence)
            => (x.book = y.book \/ (venue = "coinbase" /\ restarted))

\* Where a book that cannot be used rejects a frame or resets the book channel,
\* it costs no trade ("a transient invalid book must not tear down the healthy
\* Kraken trade stream").
BooksSpareTrades ==
    venue \in Resyncs \cup Catches => dropped = {}

\* Kraken gets a book again after every connection and every reset, unless the
\* connection ends or the frame with the book is not JSON: nothing asks for it
\* again then.
Synchronizes == (up /\ awaiting) ~> (~up \/ ~awaiting \/ torn)
=============================================================================
