--------------------------- MODULE VenueFeedProofs ---------------------------
(***************************************************************************)
(* What holds of VenueFeed for every set of venues, prices and books.      *)
(*                                                                         *)
(* The last book shown is the venue's because the book an adapter keeps    *)
(* and the frames on their way lead to the venue's book (Leads), whatever  *)
(* was lost before the last snapshot; an identifier stands for one book    *)
(* because a number of the venue does, wherever it is met (Known).         *)
(***************************************************************************)
EXTENDS VenueFeed, TLAPS

\* Crypto.com and Bitstamp refuse what is still crossed after it was
\* uncrossed, so the book they put is never refused by BookSnapshot.
LEMMA UncrossedIsUsable ==
    ASSUME venue \in Uncrosses, NEW b, ~Refused(b)
    PROVE  ~Crossed(Normalized(b))
BY DEF Refused, Normalized, Usable

\* The adapters that end their connection over a book are others.
LEMMA TearsDownElsewhere ==
    ASSUME CrossedEnds \/ CrossedBookEnds
    PROVE  venue \notin Resyncs \cup Catches
<1>1. CASE CrossedEnds
  BY <1>1 DEF CrossedEnds
<1>2. CASE CrossedBookEnds
  <2>1. venue \notin Uncrosses
    BY <1>2, UncrossedIsUsable DEF CrossedBookEnds
  <2>2. venue \notin Incremental
    BY <1>2 DEF CrossedBookEnds, Sent
  <2> QED
    BY <2>1, <2>2 DEF Uncrosses, Incremental, Resyncs, Catches
<1> QED
  BY <1>1, <1>2

\* Where a frame is rejected or the book channel reset, no book costs a trade:
\* for every sequence of books, halves of changes and malformed frames, and
\* every number of reconnections.
THEOREM BooksCostNoTrade == Spec => []BooksSpareTrades
<1>1. Init => BooksSpareTrades
  BY DEF Init, BooksSpareTrades
<1>2. BooksSpareTrades /\ [Next]_vars => BooksSpareTrades'
  <2> SUFFICES ASSUME BooksSpareTrades, [Next]_vars PROVE BooksSpareTrades'
    OBVIOUS
  <2>1. CASE CrossedEnds \/ CrossedBookEnds
    <3>1. venue' = venue
      BY <2>1 DEF CrossedEnds, CrossedBookEnds, TearDown, Lost
    <3> QED
      BY <2>1, <3>1, TearsDownElsewhere DEF BooksSpareTrades
  <2>2. CASE PutTrades
    <3>1. venue' = venue
      BY <2>2 DEF PutTrades
    <3>2. venue \in Resyncs \cup Catches => dropped' = dropped
      BY <2>2 DEF PutTrades, FirstTradeOnly, Resyncs, Catches
    <3> QED
      BY <3>1, <3>2 DEF BooksSpareTrades
  <2>3. CASE \/ SkipBook \/ ApplyBook \/ Resync \/ RejectPart \/ RejectCrossed \/ PutBook
             \/ RefuseBook
    <3>1. UNCHANGED <<venue, dropped>>
      BY <2>3 DEF SkipBook, ApplyBook, Resync, RejectPart, RejectCrossed, PutBook,
                  RefuseBook, Next1
    <3> QED
      BY <3>1 DEF BooksSpareTrades
  <2>4. ASSUME NEW b \in Books, Change(b) PROVE UNCHANGED <<venue, dropped>>
    BY <2>4 DEF Change, history
  <2>5. ASSUME NEW i \in DOMAIN wire, Malform(i) PROVE UNCHANGED <<venue, dropped>>
    BY <2>5 DEF Malform, history
  <2>6. CASE \/ SendBook \/ SendTrades \/ Connect \/ Disconnect \/ Restart \/ UNCHANGED vars
    <3>1. UNCHANGED <<venue, dropped>>
      BY <2>6 DEF SendBook, SendTrades, Connect, Disconnect, Restart, Lost, history, vars
    <3> QED
      BY <3>1 DEF BooksSpareTrades
  <2> QED
    BY <2>1, <2>2, <2>3, <2>4, <2>5, <2>6 DEF Next, Feed, BooksSpareTrades
<1> QED
  BY <1>1, <1>2, PTL DEF Spec
-----------------------------------------------------------------------------
(* Types *)

\* A queue of frames that one leaves or some join.
LEMMA WireType ==
    ASSUME wire \in Seq(Frame)
    PROVE  /\ wire # <<>> => Head(wire) \in Frame /\ Tail(wire) \in Seq(Frame)
           /\ \A f \in Frame : Append(wire, f) \in Seq(Frame)
           /\ \A f, g \in Frame : /\ wire \o <<f>> \in Seq(Frame)
                                  /\ wire \o <<f, g>> \in Seq(Frame)
<1>1. ASSUME NEW f \in Frame, NEW g \in Frame
      PROVE  <<f>> \in Seq(Frame) /\ <<f, g>> \in Seq(Frame)
  OBVIOUS
<1> QED
  BY <1>1

\* The parts of the state that count up.
LEMMA TradeFrameType ==
    ASSUME TypeOK
    PROVE  TradeFrame(2 * used.trades) \in Frame /\ TradeFrame(2 * used.trades).kind = "trade"
<1>1. used.trades \in Nat
  BY DEF TypeOK
<1>2. 2 * used.trades \in Nat
  BY <1>1
<1>3. \A n \in Nat : TradeFrame(n) \in Frame /\ TradeFrame(n).kind = "trade"
  BY DEF TradeFrame, Frame
<1> QED
  BY <1>2, <1>3

LEMMA CountersType ==
    ASSUME TypeOK
    PROVE  /\ [used EXCEPT !.changes = @ + 1] \in [changes : Nat, trades : Nat, faults : Nat]
           /\ [used EXCEPT !.trades = @ + 1] \in [changes : Nat, trades : Nat, faults : Nat]
           /\ [used EXCEPT !.faults = @ + 1] \in [changes : Nat, trades : Nat, faults : Nat]
           /\ remote.n \in Nat /\ remote.n + 1 \in Nat /\ remote.n + 2 \in Nat
           /\ id.generation + 1 \in Nat /\ remote.book \subseteq Levels
<1>1. /\ used.changes + 1 \in Nat /\ used.trades + 1 \in Nat /\ used.faults + 1 \in Nat
      /\ used \in [changes : Nat, trades : Nat, faults : Nat]
  BY DEF TypeOK
<1>2. remote.n \in Nat /\ id.generation \in Nat /\ remote.book \subseteq Levels
  BY DEF TypeOK
<1> QED
  BY <1>1, <1>2

\* The frames in which a venue sends a change are frames.
LEMMA UpdateType ==
    ASSUME TypeOK, NEW b \in SUBSET Levels, NEW u \in Update(b)
    PROVE  wire \o u \in Seq(Frame)
<1> DEFINE add == b \ remote.book
           del == remote.book \ b
           one(s, n) == BookFrame("update", {l \in add : l[1] = s}, {l \in del : l[1] = s}, n)
<1>1. remote.n \in Nat /\ remote.n + 1 \in Nat /\ remote.n + 2 \in Nat
      /\ remote.book \subseteq Levels
  BY CountersType
<1>2. BookFrame("update", add, del, remote.n + 2) \in Frame
  BY <1>1 DEF BookFrame, Frame
<1>3. \A s : one(s, remote.n + 1) \in Frame /\ one(s, remote.n + 2) \in Frame
  BY <1>1 DEF BookFrame, Frame
<1>4. \/ u = <<BookFrame("update", add, del, remote.n + 2)>>
      \/ \E s, t : u = <<one(s, remote.n + 1), one(t, remote.n + 2)>>
  BY DEF Update
<1> HIDE DEF add, del, one
<1> QED
  BY <1>2, <1>3, <1>4, WireType DEF TypeOK

\* What the venue and the network do keeps the types.
LEMMA RemoteType ==
    ASSUME TypeOK, Books \subseteq SUBSET Levels,
           \/ \E b \in Books : Change(b)
           \/ SendBook \/ SendTrades
           \/ \E i \in DOMAIN wire : Malform(i)
    PROVE  TypeOK'
<1> USE DEF TypeOK, exchange, adapter, history
<1>1. ASSUME NEW b \in Books, Change(b) PROVE TypeOK'
  <2>1. remote' \in [book : SUBSET Levels, n : Nat]
    BY <1>1, CountersType DEF Change
  <2>2. used' \in [changes : Nat, trades : Nat, faults : Nat]
    BY <1>1, CountersType DEF Change
  <2>3. BookFrame("snapshot", b, {}, remote.n + 2) \in Frame
    BY CountersType DEF BookFrame, Frame
  <2>4. wire' \in Seq(Frame)
    BY <1>1, <2>3, UpdateType, WireType DEF Change
  <2> QED
    BY <1>1, <2>1, <2>2, <2>4 DEF Change
<1>2. CASE SendBook
  <2>1. BookFrame("snapshot", remote.book, {}, remote.n) \in Frame
    BY CountersType DEF BookFrame, Frame
  <2>2. wire' \in Seq(Frame)
    BY <1>2, <2>1, WireType DEF SendBook
  <2> QED
    BY <1>2, <2>2 DEF SendBook
<1>3. CASE SendTrades
  <2>1. TradeFrame(2 * used.trades) \in Frame
    BY TradeFrameType
  <2>2. wire' \in Seq(Frame)
    BY <1>3, <2>1, WireType DEF SendTrades
  <2>3. used' \in [changes : Nat, trades : Nat, faults : Nat]
    BY <1>3, CountersType DEF SendTrades
  <2> QED
    BY <1>3, <2>2, <2>3 DEF SendTrades
<1>4. ASSUME NEW i \in DOMAIN wire, Malform(i) PROVE TypeOK'
  <2>1. used' \in [changes : Nat, trades : Nat, faults : Nat]
    BY <1>4, CountersType DEF Malform, Fault
  <2>2. PICK kind \in {"bad_frame", "bad_snapshot", "bad_update"} :
            wire' = [wire EXCEPT ![i].kind = kind]
    BY <1>4 DEF Malform, Unparsed
  <2>3. [wire[i] EXCEPT !.kind = kind] \in Frame
    <3>1. wire[i] \in Frame
      OBVIOUS
    <3> QED
      BY <3>1 DEF Frame
  <2>4. wire' = [wire EXCEPT ![i] = [wire[i] EXCEPT !.kind = kind]]
    BY <2>2
  <2>5. wire' \in Seq(Frame)
    BY <2>3, <2>4
  <2> QED
    BY <1>4, <2>1, <2>5 DEF Malform
<1> QED
  BY <1>1, <1>2, <1>3, <1>4

\* The levels and identifiers that a frame leads to.
LEMMA BookType ==
    ASSUME TypeOK, NEW f \in Frame
    PROVE  /\ Applied(f) \in SUBSET Levels
           /\ NextId(f) \in [generation : Nat, sequence : Nat]
           /\ Normalized(f.add) \in SUBSET Levels
<1>1. f.add \subseteq Levels /\ f.del \subseteq Levels /\ f.n \in Nat
  BY DEF Frame
<1>2. book \subseteq Levels
  BY DEF TypeOK
<1>3. /\ [id EXCEPT !.sequence = @ + 1] \in [generation : Nat, sequence : Nat]
      /\ [id EXCEPT !.sequence = f.n] \in [generation : Nat, sequence : Nat]
  <2>1. id.sequence + 1 \in Nat /\ id \in [generation : Nat, sequence : Nat]
    BY DEF TypeOK
  <2> QED
    BY <1>1, <2>1
<1> QED
  BY <1>1, <1>2, <1>3 DEF Applied, NextId, Normalized, Uncrossed

\* What is published is typed.
LEMMA PublishType ==
    ASSUME TypeOK, NEW i \in [generation : Nat, sequence : Nat], NEW b \in SUBSET Levels,
           Publish(i, b)
    PROVE  /\ shown' \subseteq Levels
           /\ published' \subseteq [generation : Nat, sequence : Nat, book : SUBSET Levels]
<1>1. i.generation \in Nat /\ i.sequence \in Nat
  OBVIOUS
<1> QED
  BY <1>1 DEF TypeOK, Publish

\* The trades of frames that are lost are numbers.
LEMMA TradesType ==
    ASSUME NEW w \in Seq(Frame)
    PROVE  Trades(w) \subseteq Nat
<1>1. ASSUME NEW i \in DOMAIN w PROVE w[i].n + 1 \in Nat /\ w[i].n + 2 \in Nat
  <2>1. w[i] \in Frame
    OBVIOUS
  <2>2. w[i].n \in Nat
    BY <2>1 DEF Frame
  <2> QED
    BY <2>2
<1> QED
  BY <1>1 DEF Trades

\* A new book keeps the types.
LEMMA NewBookType ==
    ASSUME TypeOK, NewBook
    PROVE  book' = {} /\ awaiting' = TRUE /\ id' \in [generation : Nat, sequence : Nat]
<1>1. id.generation + 1 \in Nat
  BY CountersType
<1> QED
  BY <1>1 DEF NewBook

\* The end of a connection keeps the types of what it touches.
LEMMA TearDownType ==
    ASSUME TypeOK, TearDown, wire # <<>>,
           book' \subseteq Levels, id' \in [generation : Nat, sequence : Nat]
    PROVE  TypeOK'
<1>1. Trades(Tail(wire)) \subseteq Nat
  <2>1. Tail(wire) \in Seq(Frame)
    BY WireType DEF TypeOK
  <2> QED
    BY <2>1, TradesType
<1>2. <<>> \in Seq(Frame)
  OBVIOUS
<1> QED
  BY <1>1, <1>2 DEF TypeOK, TearDown, Lost

\* Each step of the feed keeps the types.
LEMMA FeedType ==
    ASSUME TypeOK, Feed
    PROVE  TypeOK'
<1> USE DEF TypeOK, exchange, adapter, history
<1> DEFINE f == Head(wire)
<1>0. ASSUME wire # <<>>
      PROVE  /\ f \in Frame /\ Tail(wire) \in Seq(Frame)
             /\ f.add \subseteq Levels /\ f.n \in Nat
  <2>1. f \in Frame /\ Tail(wire) \in Seq(Frame)
    BY <1>0, WireType
  <2> QED
    BY <2>1 DEF Frame
<1>1. CASE Connect
  <2>1. /\ book' \subseteq Levels /\ id' \in [generation : Nat, sequence : Nat]
        /\ awaiting' \in BOOLEAN
    BY <1>1, NewBookType DEF Connect
  <2> QED
    BY <1>1, <2>1 DEF Connect
<1>2. CASE PutTrades
  <2>1. f.n + 2 \in Nat /\ Tail(wire) \in Seq(Frame)
    BY <1>0, <1>2 DEF PutTrades, Handle
  <2> QED
    BY <1>2, <2>1 DEF PutTrades
<1>3. CASE SkipBook
  <2>1. wire # <<>> /\ Next1
    BY <1>3 DEF SkipBook, Handle
  <2> QED
    BY <1>0, <1>3, <2>1 DEF SkipBook, Next1
<1>4. CASE ApplyBook
  <2>1. wire # <<>> /\ Next1
    BY <1>4 DEF ApplyBook, Keeping, Handle
  <2>2. Applied(f) \in SUBSET Levels /\ NextId(f) \in [generation : Nat, sequence : Nat]
    BY <1>0, <2>1, BookType
  <2>3. /\ book' = Applied(f) /\ id' = NextId(f) /\ owes' = owes
        /\ torn' \in BOOLEAN /\ awaiting' \in BOOLEAN
        /\ UNCHANGED <<shown, published>> \/ Publish(NextId(f), Applied(f))
    BY <1>4 DEF ApplyBook
  <2>4. /\ shown' \subseteq Levels
        /\ published' \subseteq [generation : Nat, sequence : Nat, book : SUBSET Levels]
    BY <2>2, <2>3, PublishType
  <2> QED
    BY <1>0, <2>1, <2>2, <2>3, <2>4 DEF Next1
<1>5. CASE Resync
  <2>1. wire # <<>> /\ Next1
    BY <1>5 DEF Resync, CannotUse, Keeping, Handle
  <2> QED
    BY <1>0, <1>5, <2>1, NewBookType DEF Resync, Next1
<1>6. CASE RejectPart
  <2>1. wire # <<>> /\ Next1
    BY <1>6 DEF RejectPart, Handle
  <2>2. book' \subseteq Levels
    BY <1>0, <1>6, <2>1 DEF RejectPart
  <2> QED
    BY <1>0, <1>6, <2>1, <2>2 DEF RejectPart, Next1
<1>7. CASE RejectCrossed
  <2>1. wire # <<>> /\ Next1
    BY <1>7 DEF RejectCrossed, Keeping, Handle
  <2>2. Applied(f) \in SUBSET Levels /\ NextId(f) \in [generation : Nat, sequence : Nat]
    BY <1>0, <2>1, BookType
  <2> QED
    BY <1>0, <1>7, <2>1, <2>2 DEF RejectCrossed, Next1
<1>8. CASE CrossedEnds
  <2>1. wire # <<>> /\ TearDown
    BY <1>8 DEF CrossedEnds, Keeping, Handle
  <2>2. Applied(f) \in SUBSET Levels /\ NextId(f) \in [generation : Nat, sequence : Nat]
    BY <1>0, <2>1, BookType
  <2>3. book' = Applied(f) /\ id' = NextId(f)
    BY <1>8 DEF CrossedEnds
  <2> HIDE DEF TypeOK
  <2> QED
    BY <2>1, <2>2, <2>3, TearDownType
<1>9. CASE PutBook
  <2>1. wire # <<>> /\ Next1
    BY <1>9 DEF PutBook, Sent, Handle
  <2>2. /\ Normalized(f.add) \in SUBSET Levels
        /\ NextId(f) \in [generation : Nat, sequence : Nat]
    BY <1>0, <2>1, BookType
  <2>3. /\ shown' \subseteq Levels
        /\ published' \subseteq [generation : Nat, sequence : Nat, book : SUBSET Levels]
    BY <1>9, <2>2, PublishType DEF PutBook
  <2> QED
    BY <1>0, <1>9, <2>1, <2>3 DEF PutBook, Next1
<1>10. CASE RefuseBook
  <2>1. wire # <<>> /\ Next1
    BY <1>10 DEF RefuseBook, Sent, Handle
  <2> QED
    BY <1>0, <1>10, <2>1 DEF RefuseBook, Next1
<1>11. CASE CrossedBookEnds
  <2>1. wire # <<>> /\ TearDown /\ UNCHANGED <<book, id>>
    BY <1>11 DEF CrossedBookEnds, Sent, Handle
  <2>2. book' \subseteq Levels /\ id' \in [generation : Nat, sequence : Nat]
    BY <2>1
  <2> HIDE DEF TypeOK
  <2> QED
    BY <2>1, <2>2, TearDownType
<1> QED
  BY <1>1, <1>2, <1>3, <1>4, <1>5, <1>6, <1>7, <1>8, <1>9, <1>10, <1>11 DEF Feed

LEMMA NextType == TypeOK /\ [Next]_vars => TypeOK'
<1> SUFFICES ASSUME TypeOK, [Next]_vars PROVE TypeOK'
  OBVIOUS
<1>1. CASE Disconnect \/ Restart
  <2>1. used' \in [changes : Nat, trades : Nat, faults : Nat]
    BY <1>1, CountersType DEF Disconnect, Restart, Fault
  <2>2. <<>> \in Seq(Frame)
    OBVIOUS
  <2>3. /\ book' \subseteq Levels /\ id' \in [generation : Nat, sequence : Nat]
        /\ {awaiting', restarted', torn'} \subseteq BOOLEAN
    <3>1. CASE Disconnect
      BY <3>1 DEF Disconnect, TypeOK, adapter, history
    <3>2. CASE Restart
      <4>1. id' = [generation |-> IF venue \in Resyncs THEN id.generation + 1 ELSE 0,
                   sequence |-> 0]
        BY <3>2 DEF Restart
      <4>2. id' \in [generation : Nat, sequence : Nat]
        BY <4>1, CountersType
      <4> QED
        BY <3>2, <4>2 DEF Restart, TypeOK
    <3> QED
      BY <1>1, <3>1, <3>2
  <2> QED
    BY <1>1, <2>1, <2>2, <2>3 DEF Disconnect, Restart, Lost, TypeOK, adapter, history
<1>2. CASE UNCHANGED vars
  BY <1>2 DEF vars, exchange, adapter, history, TypeOK
<1> QED
  BY ConstantsOK, <1>1, <1>2, FeedType, RemoteType DEF Next

LEMMA InitType == Init => TypeOK
<1> SUFFICES ASSUME Init PROVE TypeOK
  OBVIOUS
<1>1. remote \in [book : SUBSET Levels, n : Nat]
  BY ConstantsOK DEF Init
<1>2. /\ id \in [generation : Nat, sequence : Nat]
      /\ used \in [changes : Nat, trades : Nat, faults : Nat]
      /\ wire \in Seq(Frame)
  BY DEF Init
<1> QED
  BY <1>1, <1>2 DEF Init, TypeOK

\* The types of an adapter, of its venue and of the frames between them,
\* whichever of the adapters it is.
THEOREM TypesHold == Spec => []TypeOK
BY InitType, NextType, PTL DEF Spec

-----------------------------------------------------------------------------
(* The book a queue of frames leads to *)

Mentions(f, l) == f.kind = "snapshot" \/ (f.kind = "update" /\ l \in f.add \cup f.del)
Adds(f, l) == f.kind \in {"snapshot", "update"} /\ l \in f.add
Broken(f) == f.kind \in {"bad_frame", "bad_snapshot", "bad_update"}

\* The levels after one frame.
After(b, f) ==
    CASE f.kind = "snapshot" -> f.add
      [] f.kind = "update" -> (b \ f.del) \cup f.add
      [] OTHER -> b

\* The levels after the first n frames of w: what the last frame to mention a
\* level says of it, and the levels of b that none mentions.
BookAt(w, b, n) ==
    {l \in Levels :
        \/ \E i \in 1..n : Adds(w[i], l) /\ \A j \in i + 1..n : ~Mentions(w[j], l)
        \/ l \in b /\ \A j \in 1..n : ~Mentions(w[j], l)}

SnapshotIn(w, m, n) == \E j \in m..n : w[j].kind = "snapshot"

\* The first n frames make a whole book: what was lost before or among them is
\* followed by a snapshot.
Whole(w, gap, n) ==
    /\ gap => SnapshotIn(w, 1, n)
    /\ \A i \in 1..n : Broken(w[i]) => SnapshotIn(w, i, n)

Gap == torn \/ awaiting

-----------------------------------------------------------------------------
(* What the frames on their way still bring *)

Silent == ~up => wire = <<>>

\* An adapter that keeps a book: the book and the frames lead to the venue's.
Leads ==
    up /\ ~owes /\ venue \in Incremental /\ Whole(wire, Gap, Len(wire))
        => BookAt(wire, book, Len(wire)) = remote.book

\* It has shown its book when it kept all of it.
ShowsOwn ==
    up /\ ~owes /\ venue \in Incremental /\ ~Gap /\ Usable(book)
        /\ (\A i \in DOMAIN wire : wire[i].kind \in {"update", "trade"})
        => shown = book

\* An adapter that is sent books: the last on its way is the venue's, and when
\* none is, it was shown.
BringsLast ==
    up /\ ~owes /\ venue \notin Incremental \cup TradesOnly =>
        /\ \A i \in DOMAIN wire :
               wire[i].kind = "snapshot" /\ (\A j \in i + 1..Len(wire) : wire[j].kind = "trade")
                   => wire[i].add = remote.book
        /\ Quiet /\ ~Gap /\ Usable(Normalized(remote.book)) => shown = Normalized(remote.book)

\* The numbers of the venue and the books they stand for: now, on their way,
\* and published.
Numbered ==
    {i \in DOMAIN wire :
        /\ \/ wire[i].kind = "snapshot"
           \/ wire[i].kind = "update" /\ venue \in Incremental
        /\ Whole(wire, Gap, i)}

Known ==
    {[n |-> remote.n, book |-> Normalized(remote.book)]}
        \cup {[n |-> wire[i].n, book |-> Normalized(BookAt(wire, book, i))] : i \in Numbered}
        \cup {[n |-> p.sequence, book |-> p.book] : p \in published}

Counts == venue \in {"kraken", "coinbase"}

\* A number of the venue stands for one book.
NumbersOneBook ==
    /\ \A x \in Known : x.n <= remote.n
    /\ \A x, y \in Known : x.n = y.n => x.book = y.book

\* So does a count of an adapter, in its generation: what is published was
\* counted before.
CountsOneBook ==
    /\ \/ venue = "coinbase" /\ restarted
       \/ \A p \in published :
              \/ p.generation < id.generation
              \/ p.generation = id.generation /\ p.sequence <= id.sequence
    /\ IdsDistinct

OneBookEach == IF Counts THEN CountsOneBook ELSE NumbersOneBook

-----------------------------------------------------------------------------
(* Facts of the queue *)

\* One frame more.
LEMMA BookNext ==
    ASSUME NEW w \in Seq(Frame), NEW n \in Nat, n + 1 \in DOMAIN w, NEW b
    PROVE  BookAt(w, b, n + 1) = After(BookAt(w, b, n), w[n + 1])
<1> DEFINE f == w[n + 1]
<1>1. f \in Frame /\ f.add \subseteq Levels
  <2>1. f \in Frame
    OBVIOUS
  <2> QED
    BY <2>1 DEF Frame
<1>2. \A i : i \in 1..n + 1 <=> i \in 1..n \/ i = n + 1
  OBVIOUS
<1>3. ASSUME NEW i \in 1..n
      PROVE  /\ \A j : j \in i + 1..n + 1 <=> j \in i + 1..n \/ j = n + 1
             /\ n + 1 \in i + 1..n + 1
  OBVIOUS
<1>4. \A j : j \notin (n + 1) + 1..n + 1
  OBVIOUS
<1>5. n + 1 \in 1..n + 1
  OBVIOUS
<1> HIDE DEF f
<1>6. ASSUME NEW l \in Levels
      PROVE  l \in BookAt(w, b, n + 1) <=>
                 \/ Adds(f, l)
                 \/ l \in BookAt(w, b, n) /\ ~Mentions(f, l)
  <2>1. ASSUME NEW i \in 1..n
        PROVE  (Adds(w[i], l) /\ \A j \in i + 1..n + 1 : ~Mentions(w[j], l))
                   <=> /\ Adds(w[i], l) /\ \A j \in i + 1..n : ~Mentions(w[j], l)
                       /\ ~Mentions(f, l)
    BY <1>3 DEF f
  <2>2. (\A j \in 1..n + 1 : ~Mentions(w[j], l))
            <=> (\A j \in 1..n : ~Mentions(w[j], l)) /\ ~Mentions(f, l)
    BY <1>2 DEF f
  <2>3. \A j \in (n + 1) + 1..n + 1 : ~Mentions(w[j], l)
    BY <1>4
  <2>4. (\E i \in 1..n + 1 : Adds(w[i], l) /\ \A j \in i + 1..n + 1 : ~Mentions(w[j], l))
            <=> \/ Adds(f, l)
                \/ /\ \E i \in 1..n : Adds(w[i], l) /\ \A j \in i + 1..n : ~Mentions(w[j], l)
                   /\ ~Mentions(f, l)
    BY <1>2, <1>5, <2>1, <2>3 DEF f
  <2> QED
    BY <2>2, <2>4 DEF BookAt
<1>7. BookAt(w, b, n) \subseteq Levels /\ BookAt(w, b, n + 1) \subseteq Levels
  BY DEF BookAt
<1>8. CASE f.kind = "snapshot"
  BY <1>1, <1>6, <1>7, <1>8 DEF After, Adds, Mentions, f
<1>9. CASE f.kind = "update"
  BY <1>1, <1>6, <1>7, <1>9 DEF After, Adds, Mentions, f
<1>10. CASE f.kind \notin {"snapshot", "update"}
  BY <1>6, <1>7, <1>10 DEF After, Adds, Mentions, f
<1> QED
  BY <1>8, <1>9, <1>10

\* The first frames alone count.
LEMMA BookSame ==
    ASSUME NEW w, NEW v, NEW n \in Nat, \A i \in 1..n : w[i] = v[i], NEW b
    PROVE  BookAt(w, b, n) = BookAt(v, b, n)
<1>1. \A i \in 1..n : \A j \in i + 1..n : j \in 1..n
  OBVIOUS
<1> QED
  BY <1>1 DEF BookAt

\* A snapshot makes what was before it irrelevant.
LEMMA BookReset ==
    ASSUME NEW w, NEW n \in Nat, SnapshotIn(w, 1, n), NEW b, NEW c
    PROVE  BookAt(w, b, n) = BookAt(w, c, n)
<1>1. PICK j \in 1..n : w[j].kind = "snapshot"
  BY DEF SnapshotIn
<1>2. \A l : Mentions(w[j], l)
  BY <1>1 DEF Mentions
<1> QED
  BY <1>1, <1>2 DEF BookAt

LEMMA BookEmpty ==
    ASSUME NEW w, NEW b, b \subseteq Levels
    PROVE  BookAt(w, b, 0) = b
BY DEF BookAt

\* The first frame may be applied first.
LEMMA BookTail ==
    ASSUME NEW w \in Seq(Frame), w # <<>>, NEW n \in 0..Len(w) - 1, NEW b \in SUBSET Levels
    PROVE  BookAt(Tail(w), After(b, Head(w)), n) = BookAt(w, b, n + 1)
<1> DEFINE f == Head(w)
           v == Tail(w)
           c == After(b, f)
<1>1. /\ Len(w) \in Nat /\ f \in Frame /\ f = w[1]
      /\ \A i \in 1..n : v[i] = w[i + 1]
  OBVIOUS
<1>2. f.add \subseteq Levels
  BY <1>1 DEF Frame
<1>3. /\ \A i \in 1..n : i + 1 \in 2..n + 1
      /\ \A i \in 2..n + 1 : i - 1 \in 1..n /\ (i - 1) + 1 = i
      /\ \A i : i \in 1..n + 1 <=> i = 1 \/ i \in 2..n + 1
      /\ 1 + 1 = 2
  OBVIOUS
<1>4. ASSUME NEW i \in 1..n
      PROVE  /\ \A j \in i + 1..n : j \in 1..n /\ j + 1 \in (i + 1) + 1..n + 1
             /\ \A j \in (i + 1) + 1..n + 1 : j - 1 \in i + 1..n /\ j - 1 \in 1..n /\ (j - 1) + 1 = j
  OBVIOUS
<1> HIDE DEF v
<1>5. ASSUME NEW l \in Levels
      PROVE  l \in BookAt(w, b, n + 1) <=> l \in BookAt(v, c, n)
  <2>1. ASSUME NEW i \in 1..n
        PROVE  (Adds(v[i], l) /\ \A j \in i + 1..n : ~Mentions(v[j], l)) <=>
               (Adds(w[i + 1], l) /\ \A j \in (i + 1) + 1..n + 1 : ~Mentions(w[j], l))
    <3>1. (\A j \in i + 1..n : ~Mentions(v[j], l)) <=>
              \A j \in (i + 1) + 1..n + 1 : ~Mentions(w[j], l)
      BY <1>1, <1>4
    <3> QED
      BY <1>1, <3>1
  <2>2. (\A j \in 1..n : ~Mentions(v[j], l)) <=> \A j \in 2..n + 1 : ~Mentions(w[j], l)
    BY <1>1, <1>3
  <2>3. (\E i \in 1..n : Adds(v[i], l) /\ \A j \in i + 1..n : ~Mentions(v[j], l)) <=>
            \E i \in 2..n + 1 : Adds(w[i], l) /\ \A j \in i + 1..n + 1 : ~Mentions(w[j], l)
    <3>1. ASSUME NEW i \in 1..n, Adds(v[i], l), \A j \in i + 1..n : ~Mentions(v[j], l)
          PROVE  \E k \in 2..n + 1 : Adds(w[k], l) /\ \A j \in k + 1..n + 1 : ~Mentions(w[j], l)
      BY <1>3, <2>1, <3>1
    <3>2. ASSUME NEW k \in 2..n + 1, Adds(w[k], l), \A j \in k + 1..n + 1 : ~Mentions(w[j], l)
          PROVE  \E i \in 1..n : Adds(v[i], l) /\ \A j \in i + 1..n : ~Mentions(v[j], l)
      <4>1. k - 1 \in 1..n /\ (k - 1) + 1 = k
        BY <1>3
      <4> QED
        BY <2>1, <3>2, <4>1
    <3> QED
      BY <3>1, <3>2
  <2>4. l \in c <=> Adds(f, l) \/ (l \in b /\ ~Mentions(f, l))
    BY DEF After, Adds, Mentions
  <2>5. l \in BookAt(w, b, n + 1) <=>
            \/ Adds(f, l) /\ \A j \in 2..n + 1 : ~Mentions(w[j], l)
            \/ \E i \in 2..n + 1 : Adds(w[i], l) /\ \A j \in i + 1..n + 1 : ~Mentions(w[j], l)
            \/ l \in b /\ ~Mentions(f, l) /\ \A j \in 2..n + 1 : ~Mentions(w[j], l)
    BY <1>1, <1>3 DEF BookAt
  <2>6. l \in BookAt(v, c, n) <=>
            \/ \E i \in 1..n : Adds(v[i], l) /\ \A j \in i + 1..n : ~Mentions(v[j], l)
            \/ l \in c /\ \A j \in 1..n : ~Mentions(v[j], l)
    BY DEF BookAt
  <2> HIDE DEF c, f
  <2> QED
    BY <2>2, <2>3, <2>4, <2>5, <2>6
<1> HIDE DEF c
<1>6. BookAt(w, b, n + 1) \subseteq Levels /\ BookAt(v, c, n) \subseteq Levels
  BY DEF BookAt
<1>7. BookAt(w, b, n + 1) = BookAt(v, c, n)
  BY <1>5, <1>6
<1> QED
  BY <1>7 DEF v, c, f

\* What a queue without its first frame leads to, when that frame was applied,
\* or was lost and a snapshot follows.
LEMMA Consumed ==
    ASSUME NEW w \in Seq(Frame), w # <<>>, NEW n \in 0..Len(w) - 1,
           NEW b \in SUBSET Levels, NEW c, NEW gap \in BOOLEAN, NEW still \in BOOLEAN,
           \/ still
           \/ /\ c = After(b, Head(w)) /\ ~Broken(Head(w))
              /\ gap => Head(w).kind = "snapshot"
           \/ SnapshotIn(Tail(w), 1, n),
           Whole(Tail(w), still, n)
    PROVE  Whole(w, gap, n + 1) /\ BookAt(Tail(w), c, n) = BookAt(w, b, n + 1)
<1> DEFINE f == Head(w)
           v == Tail(w)
<1>1. /\ Len(w) \in Nat /\ f = w[1] /\ n \in Nat
      /\ \A i \in 1..n : v[i] = w[i + 1]
  OBVIOUS
<1>2. BookAt(v, After(b, f), n) = BookAt(w, b, n + 1)
  BY BookTail
<1>3. /\ \A i \in 1..n : i + 1 \in 1..n + 1
      /\ \A i \in 1..n + 1 : i = 1 \/ (i - 1 \in 1..n /\ (i - 1) + 1 = i)
      /\ 1 \in 1..n + 1
  OBVIOUS
<1> HIDE DEF f, v
<1>4. ASSUME NEW i \in 1..n, SnapshotIn(v, i, n)
      PROVE  SnapshotIn(w, i + 1, n + 1) /\ SnapshotIn(w, 1, n + 1)
  <2>1. PICK j \in i..n : v[j].kind = "snapshot"
    BY <1>4 DEF SnapshotIn
  <2>2. w[j + 1].kind = "snapshot" /\ j + 1 \in i + 1..n + 1 /\ j + 1 \in 1..n + 1
    BY <1>1, <2>1
  <2> QED
    BY <2>2 DEF SnapshotIn
<1>5. CASE SnapshotIn(v, 1, n)
  <2>1. 1 \in 1..n
    BY <1>5 DEF SnapshotIn
  <2>2. SnapshotIn(w, 1, n + 1)
    BY <1>4, <1>5, <2>1
  <2>3. ASSUME NEW i \in 1..n + 1, Broken(w[i]) PROVE SnapshotIn(w, i, n + 1)
    <3>1. CASE i = 1
      BY <2>2, <3>1
    <3>2. CASE i # 1
      <4>1. i - 1 \in 1..n /\ (i - 1) + 1 = i
        BY <1>3, <3>2
      <4>2. Broken(v[i - 1])
        BY <1>1, <2>3, <4>1
      <4>3. SnapshotIn(v, i - 1, n)
        BY <4>1, <4>2 DEF Whole, v
      <4> QED
        BY <1>4, <4>1, <4>3
    <3> QED
      BY <3>1, <3>2
  <2>4. Whole(w, gap, n + 1)
    BY <2>2, <2>3 DEF Whole
  <2>5. BookAt(v, c, n) = BookAt(v, After(b, f), n)
    BY <1>1, <1>5, BookReset
  <2> QED
    BY <1>2, <2>4, <2>5 DEF v
<1>6. CASE ~SnapshotIn(v, 1, n)
  <2>1. c = After(b, f) /\ ~Broken(f) /\ (gap => f.kind = "snapshot")
    BY <1>6 DEF Whole, v, f
  <2>2. gap => SnapshotIn(w, 1, n + 1)
    BY <1>1, <1>3, <2>1 DEF SnapshotIn
  <2>3. ASSUME NEW i \in 1..n + 1, Broken(w[i]) PROVE SnapshotIn(w, i, n + 1)
    <3>1. i # 1
      BY <1>1, <2>1, <2>3
    <3>2. i - 1 \in 1..n /\ (i - 1) + 1 = i
      BY <1>3, <3>1
    <3>3. Broken(v[i - 1])
      BY <1>1, <2>3, <3>2
    <3>4. SnapshotIn(v, i - 1, n)
      BY <3>2, <3>3 DEF Whole, v
    <3> QED
      BY <1>4, <3>2, <3>4
  <2> QED
    BY <1>2, <2>1, <2>2, <2>3 DEF Whole, v
<1> QED
  BY <1>5, <1>6

\* A frame that joins changes nothing for those before it.
LEMMA JoinedBefore ==
    ASSUME NEW w \in Seq(Frame), NEW f \in Frame, NEW b, NEW n \in 0..Len(w)
    PROVE  BookAt(Append(w, f), b, n) = BookAt(w, b, n)
<1>1. n \in Nat /\ \A i \in 1..n : Append(w, f)[i] = w[i]
  OBVIOUS
<1> QED
  BY <1>1, BookSame

LEMMA Joined ==
    ASSUME NEW w \in Seq(Frame), NEW f \in Frame, NEW b
    PROVE  /\ Append(w, f) \in Seq(Frame) /\ Len(Append(w, f)) = Len(w) + 1
           /\ BookAt(Append(w, f), b, Len(w) + 1) = After(BookAt(w, b, Len(w)), f)
<1> DEFINE v == Append(w, f)
<1>1. /\ v \in Seq(Frame) /\ Len(w) \in Nat /\ Len(v) = Len(w) + 1 /\ v[Len(w) + 1] = f
      /\ \A i \in 1..Len(w) : v[i] = w[i]
  OBVIOUS
<1>0. Len(w) + 1 \in DOMAIN v
  BY <1>1
<1> HIDE DEF v
<1>2. BookAt(v, b, Len(w)) = BookAt(w, b, Len(w))
  <2>1. Len(w) \in 0..Len(w)
    BY <1>1
  <2> QED
    BY <2>1, JoinedBefore DEF v
<1>3. BookAt(v, b, Len(w) + 1) = After(BookAt(w, b, Len(w)), f)
  <2>1. BookAt(v, b, Len(w) + 1) = After(BookAt(v, b, Len(w)), v[Len(w) + 1])
    BY <1>0, <1>1, BookNext
  <2> QED
    BY <1>1, <1>2, <2>1
<1> QED
  BY <1>1, <1>2, <1>3 DEF v

LEMMA JoinedWhole ==
    ASSUME NEW w \in Seq(Frame), NEW f \in Frame, NEW gap \in BOOLEAN
    PROVE  /\ \A n \in 0..Len(w) : Whole(Append(w, f), gap, n) <=> Whole(w, gap, n)
           /\ f.kind # "snapshot" /\ Whole(Append(w, f), gap, Len(w) + 1)
                  => Whole(w, gap, Len(w))
<1> DEFINE v == Append(w, f)
<1>1. /\ v \in Seq(Frame) /\ Len(w) \in Nat /\ Len(v) = Len(w) + 1 /\ v[Len(w) + 1] = f
      /\ \A i \in 1..Len(w) : v[i] = w[i]
  OBVIOUS
<1> HIDE DEF v
<1>2. ASSUME NEW n \in 0..Len(w)
      PROVE  /\ n \in Nat /\ \A i \in 1..n : v[i] = w[i]
             /\ \A i \in 1..n : SnapshotIn(v, i, n) <=> SnapshotIn(w, i, n)
             /\ SnapshotIn(v, 1, n) <=> SnapshotIn(w, 1, n)
  <2>1. n \in Nat /\ \A i \in 1..n : v[i] = w[i]
    BY <1>1
  <2>2. \A i \in 1..n : \A j \in i..n : j \in 1..n
    BY <2>1
  <2> QED
    BY <2>1, <2>2 DEF SnapshotIn
<1>3. ASSUME NEW n \in 0..Len(w) PROVE Whole(v, gap, n) <=> Whole(w, gap, n)
  BY <1>2 DEF Whole
<1>4. ASSUME f.kind # "snapshot", Whole(v, gap, Len(w) + 1) PROVE Whole(w, gap, Len(w))
  <2>1. ASSUME NEW i \in 1..Len(w) + 1, SnapshotIn(v, i, Len(w) + 1)
        PROVE  SnapshotIn(w, i, Len(w))
    <3>1. PICK j \in i..Len(w) + 1 : v[j].kind = "snapshot"
      BY <2>1 DEF SnapshotIn
    <3>2. j \in i..Len(w) /\ w[j].kind = "snapshot"
      BY <1>1, <1>4, <3>1
    <3> QED
      BY <3>2 DEF SnapshotIn
  <2>2. \A i \in 1..Len(w) : i \in 1..Len(w) + 1
    BY <1>1
  <2>3. 1 \in 1..Len(w) + 1
    BY <1>1
  <2> QED
    BY <1>1, <1>4, <2>1, <2>2, <2>3 DEF Whole
<1> QED
  BY <1>1, <1>3, <1>4 DEF v

\* A frame that was malformed is one that a later snapshot makes up for.
SameBook(w, v, b, gap, n) == Whole(w, gap, n) /\ BookAt(v, b, n) = BookAt(w, b, n)

LEMMA Malformed ==
    ASSUME NEW w, NEW v, NEW i \in Nat, NEW n \in Nat,
           \A j \in 1..n : j # i => v[j] = w[j], Broken(v[i]),
           NEW b, NEW gap \in BOOLEAN, Whole(v, gap, n)
    PROVE  SameBook(w, v, b, gap, n)
<1> USE DEF SameBook
<1>1. ASSUME NEW m \in 1..n, SnapshotIn(v, m, n) PROVE SnapshotIn(w, m, n)
  <2>1. PICK j \in m..n : v[j].kind = "snapshot"
    BY <1>1 DEF SnapshotIn
  <2>2. j # i /\ j \in 1..n
    BY <2>1 DEF Broken
  <2> QED
    BY <2>1, <2>2 DEF SnapshotIn
<1>2. CASE i \in 1..n
  <2>1. PICK k \in i..n : v[k].kind = "snapshot"
    BY <1>2 DEF Whole, SnapshotIn
  <2>2. k # i /\ k \in i + 1..n /\ k \in 1..n /\ w[k].kind = "snapshot"
    <3>1. k # i
      BY <2>1 DEF Broken
    <3> QED
      BY <1>2, <2>1, <3>1
  <2>3. ASSUME NEW m \in 1..n, Broken(w[m]) PROVE SnapshotIn(w, m, n)
    <3>1. CASE m = i
      BY <2>2, <3>1 DEF SnapshotIn
    <3>2. CASE m # i
      BY <1>1, <2>3, <3>2 DEF Whole
    <3> QED
      BY <3>1, <3>2
  <2>4. SnapshotIn(w, 1, n)
    BY <2>2 DEF SnapshotIn
  <2>5. \A l : Mentions(w[k], l) /\ Mentions(v[k], l)
    BY <2>1, <2>2 DEF Mentions
  <2>6. ASSUME NEW m \in 1..n, NEW l,
               (\A j \in m + 1..n : ~Mentions(w[j], l)) \/ (\A j \in m + 1..n : ~Mentions(v[j], l))
        PROVE  v[m] = w[m] /\ \A j \in m + 1..n : v[j] = w[j]
    <3>1. ~(k \in m + 1..n)
      BY <2>5, <2>6
    <3>2. k <= m
      BY <2>2, <3>1
    <3>3. i < m /\ \A j \in m + 1..n : j \in 1..n /\ j # i
      BY <1>2, <2>2, <3>2
    <3> QED
      BY <3>3
  <2>7. BookAt(v, b, n) = BookAt(w, b, n)
    <3>1. ASSUME NEW l \in Levels
          PROVE  l \in BookAt(v, b, n) <=> l \in BookAt(w, b, n)
      <4>1. \A m \in 1..n :
               (Adds(v[m], l) /\ \A j \in m + 1..n : ~Mentions(v[j], l)) <=>
               (Adds(w[m], l) /\ \A j \in m + 1..n : ~Mentions(w[j], l))
        BY <2>6
      <4> QED
        BY <2>2, <2>5, <4>1 DEF BookAt
    <3>2. BookAt(v, b, n) \subseteq Levels /\ BookAt(w, b, n) \subseteq Levels
      BY DEF BookAt
    <3> QED
      BY <3>1, <3>2
  <2> QED
    BY <2>3, <2>4, <2>7 DEF Whole
<1>3. CASE i \notin 1..n
  <2>1. \A j \in 1..n : v[j] = w[j]
    BY <1>3
  <2>2. 1 \in 1..n \/ n = 0
    OBVIOUS
  <2>3. Whole(w, gap, n)
    <3>1. gap => SnapshotIn(w, 1, n)
      <4>1. CASE n = 0
        BY <4>1 DEF Whole, SnapshotIn
      <4> QED
        BY <1>1, <2>2, <4>1 DEF Whole
    <3> QED
      BY <1>1, <2>1, <3>1 DEF Whole
  <2> QED
    BY <2>1, <2>3, BookSame
<1> QED
  BY <1>2, <1>3

-----------------------------------------------------------------------------
(* What the feed does with a frame *)

Consumes == up /\ wire # <<>> /\ wire' = Tail(wire) /\ UNCHANGED <<venue, remote, up, restarted>>

\* The connection ends.
Ends ==
    /\ ~up' /\ wire' = <<>> /\ UNCHANGED <<venue, remote, published, restarted>>
    /\ Counts => id'.generation = id.generation /\ id.sequence <= id'.sequence

\* The book channel is subscribed to again.
Resubscribes == Consumes /\ venue \in Resyncs /\ owes' /\ NewBook /\ UNCHANGED published

\* The frame is no book.
Passes ==
    /\ Consumes /\ Head(wire).kind = "trade"
    /\ UNCHANGED <<owes, book, id, awaiting, torn, shown, published>>

\* A book or a change is lost.
Misses == Consumes /\ Gap' /\ UNCHANGED <<owes, id, shown, published>>

\* The frame is applied, and the book is shown unless it cannot be used.
Takes ==
    LET f == Head(wire) IN
    /\ Consumes /\ venue \in Incremental /\ f.kind \in {"snapshot", "update"}
    /\ owes' = owes /\ book' = After(book, f) /\ id' = NextId(f)
    /\ \/ Gap'
       \/ Gap => f.kind = "snapshot"
    /\ \/ ~Usable(book') /\ UNCHANGED <<shown, published>>
       \/ Publish(id', book') /\ (torn' \/ (Gap => f.kind = "snapshot"))

\* The frame holds a book, which is shown unless it is refused.
IsSent ==
    LET f == Head(wire) IN
    /\ Consumes /\ venue \notin Incremental /\ f.kind = "snapshot"
    /\ UNCHANGED <<owes, book, id, awaiting>>
    /\ \/ Publish(NextId(f), Normalized(f.add))
       \/ ~Usable(Normalized(f.add)) /\ UNCHANGED <<torn, shown, published>>

LEMMA FeedSteps ==
    ASSUME TypeOK, Feed
    PROVE  Connect \/ Ends \/ Resubscribes \/ Passes \/ Misses \/ Takes \/ IsSent
<1> USE DEF exchange, adapter, history
<1>0. Gap \in BOOLEAN /\ id.sequence \in Nat /\ id.generation \in Nat
  BY DEF Gap, TypeOK
<1>1. CASE PutTrades
  BY <1>1 DEF PutTrades, Handle, Passes, Consumes
<1>2. CASE SkipBook
  <2>1. Consumes /\ UNCHANGED <<owes, book, id, awaiting, shown, published>>
    BY <1>2 DEF SkipBook, Handle, Next1, Consumes
  <2>2. Gap'
    BY <1>2 DEF SkipBook, Handle, Gap
  <2> QED
    BY <2>1, <2>2 DEF Misses
<1>3. ASSUME Keeping
      PROVE  /\ venue \in Incremental /\ Head(wire).kind \in {"snapshot", "update"}
             /\ Applied(Head(wire)) = After(book, Head(wire))
             /\ awaiting => Head(wire).kind = "snapshot"
  BY <1>3 DEF Keeping, Handle, Applied, After
<1>4. CASE ApplyBook
  <2> DEFINE f == Head(wire)
  <2>1. Consumes /\ Keeping /\ owes' = owes /\ book' = After(book, f) /\ id' = NextId(f)
    BY <1>3, <1>4 DEF ApplyBook, Keeping, Handle, Next1, Consumes
  <2>2. torn' = (torn /\ f.kind # "snapshot")
    BY <1>4 DEF ApplyBook
  <2>3. \/ awaiting' = awaiting
        \/ awaiting' = (awaiting /\ f.kind # "snapshot")
    BY <1>4 DEF ApplyBook
  <2>4. Gap' \/ (Gap => f.kind = "snapshot")
    BY <2>2, <2>3 DEF Gap
  <2>5. \/ ~Usable(book') /\ UNCHANGED <<shown, published>>
        \/ Publish(id', book')
    BY <1>3, <1>4, <2>1 DEF ApplyBook, Usable
  <2>6. torn' \/ (Gap => f.kind = "snapshot")
    BY <1>3, <2>1, <2>2 DEF Gap
  <2> QED
    BY <1>3, <2>1, <2>4, <2>5, <2>6 DEF Takes
<1>5. CASE Resync
  BY <1>5 DEF Resync, CannotUse, Keeping, Handle, Next1, Consumes, Resubscribes
<1>6. CASE RejectPart
  BY <1>6 DEF RejectPart, Handle, Next1, Consumes, Misses, Gap
<1>7. CASE RejectCrossed
  <2> DEFINE f == Head(wire)
  <2>1. Consumes /\ Keeping /\ owes' = owes /\ book' = After(book, f) /\ id' = NextId(f)
        /\ UNCHANGED <<awaiting, torn, shown, published>>
    BY <1>3, <1>7 DEF RejectCrossed, Keeping, Handle, Next1, Consumes
  <2>2. ~Usable(book')
    BY <1>3, <1>7, <2>1 DEF RejectCrossed, Usable
  <2>3. Gap' \/ (Gap => f.kind = "snapshot")
    BY <2>1 DEF Gap
  <2> QED
    BY <1>3, <2>1, <2>2, <2>3 DEF Takes
<1>8. CASE CrossedEnds
  <2>1. ~up' /\ wire' = <<>> /\ UNCHANGED <<venue, remote, published, restarted>>
        /\ id' = NextId(Head(wire))
    BY <1>8 DEF CrossedEnds, TearDown, Lost
  <2>2. id \in [generation : Nat, sequence : Nat]
    BY DEF TypeOK
  <2>3. Counts => id'.generation = id.generation /\ id.sequence <= id'.sequence
    BY <1>0, <2>1, <2>2 DEF Counts, NextId
  <2> QED
    BY <2>1, <2>3 DEF Ends
<1>9. CASE PutBook
  <2>1. Consumes /\ UNCHANGED <<owes, book, id, awaiting>>
        /\ venue \notin Incremental /\ Head(wire).kind = "snapshot"
        /\ Publish(NextId(Head(wire)), Normalized(Head(wire).add))
    BY <1>9 DEF PutBook, Sent, Handle, Next1, Consumes
  <2> QED
    BY <2>1 DEF IsSent
<1>10. CASE RefuseBook
  <2>1. Consumes /\ UNCHANGED <<owes, book, id, awaiting, torn, shown, published>>
        /\ venue \notin Incremental /\ Head(wire).kind = "snapshot"
        /\ Refused(Head(wire).add)
    BY <1>10 DEF RefuseBook, Sent, Handle, Next1, Consumes
  <2>2. ~Usable(Normalized(Head(wire).add))
    <3>1. CASE venue \in Uncrosses
      BY <2>1, <3>1 DEF Refused, Normalized
    <3>2. CASE venue \notin Uncrosses
      BY <2>1, <3>2 DEF Refused, Normalized, Usable, OneSided, Side
    <3> QED
      BY <3>1, <3>2
  <2> QED
    BY <2>1, <2>2 DEF IsSent
<1>11. CASE CrossedBookEnds
  BY <1>0, <1>11 DEF CrossedBookEnds, TearDown, Lost, Ends
<1> QED
  BY <1>1, <1>2, <1>4, <1>5, <1>6, <1>7, <1>8, <1>9, <1>10, <1>11 DEF Feed

-----------------------------------------------------------------------------
(* The book shown is the venue's *)

\* The frames of a change come last, bring the book to b, and carry the next
\* numbers.
Brings(v, b) ==
    /\ v \in Seq(Frame) /\ Len(wire) <= Len(v)
    /\ \A n \in 0..Len(wire) : /\ BookAt(v, book, n) = BookAt(wire, book, n)
                               /\ Whole(v, Gap, n) <=> Whole(wire, Gap, n)
    /\ \A i \in 1..Len(wire) : v[i] = wire[i]
    /\ \A i \in Len(wire) + 1..Len(v) :
           /\ v[i].kind = "update"
           /\ \/ i = Len(v) /\ v[i].n = remote.n + 2
              \/ i = Len(wire) + 1 /\ v[i].n = remote.n + 1
           /\ Whole(v, Gap, i) => Whole(wire, Gap, Len(wire))
    /\ Len(wire) < Len(v)
    /\ BookAt(wire, book, Len(wire)) = remote.book => BookAt(v, book, Len(v)) = b

LEMMA UpdateLeads ==
    ASSUME TypeOK, NEW b \in SUBSET Levels, NEW u \in Update(b), NEW v, v = wire \o u
    PROVE  Brings(v, b)
<1> USE DEF Brings
<1> DEFINE add == b \ remote.book
           del == remote.book \ b
           one(s, n) == BookFrame("update", {l \in add : l[1] = s}, {l \in del : l[1] = s}, n)
           F == BookFrame("update", add, del, remote.n + 2)
<1>1. /\ remote.n \in Nat /\ remote.n + 1 \in Nat /\ remote.n + 2 \in Nat
      /\ remote.book \subseteq Levels /\ wire \in Seq(Frame) /\ Gap \in BOOLEAN
  BY CountersType DEF TypeOK, Gap
<1>2. F \in Frame /\ F.kind = "update" /\ F.add = add /\ F.del = del /\ F.n = remote.n + 2
  BY <1>1 DEF BookFrame, Frame
<1>3. ASSUME NEW s, NEW n \in Nat
      PROVE  /\ one(s, n) \in Frame /\ one(s, n).kind = "update" /\ one(s, n).n = n
             /\ one(s, n).add = {l \in add : l[1] = s} /\ one(s, n).del = {l \in del : l[1] = s}
  BY <1>1 DEF BookFrame, Frame
<1>4. \A l \in Levels : l[1] = "bid" \/ l[1] = "ask"
  BY DEF Levels
<1>5. \/ u = <<F>>
      \/ u = <<one("bid", remote.n + 1), one("ask", remote.n + 2)>>
      \/ u = <<one("ask", remote.n + 1), one("bid", remote.n + 2)>>
  <2>1. \/ u = <<F>>
        \/ \E p \in {<<"bid", "ask">>, <<"ask", "bid">>} :
               u = <<one(p[1], remote.n + 1), one(p[2], remote.n + 2)>>
    BY DEF Update
  <2> HIDE DEF F, one
  <2>2. ASSUME NEW p \in {<<"bid", "ask">>, <<"ask", "bid">>},
               u = <<one(p[1], remote.n + 1), one(p[2], remote.n + 2)>>
        PROVE  \/ u = <<one("bid", remote.n + 1), one("ask", remote.n + 2)>>
               \/ u = <<one("ask", remote.n + 1), one("bid", remote.n + 2)>>
    <3>1. CASE p = <<"bid", "ask">>
      BY <2>2, <3>1
    <3>2. CASE p = <<"ask", "bid">>
      BY <2>2, <3>2
    <3> QED
      BY <3>1, <3>2
  <2> QED
    BY <2>1, <2>2
<1>6. CASE u = <<F>>
  <2> HIDE DEF F
  <2>1. v = Append(wire, F)
    BY <1>1, <1>2, <1>6
  <2>2. /\ v \in Seq(Frame) /\ Len(v) = Len(wire) + 1 /\ v[Len(wire) + 1] = F
        /\ \A i \in 1..Len(wire) : v[i] = wire[i]
        /\ Len(wire) \in Nat
    BY <1>1, <1>2, <2>1
  <2>3. /\ \A n \in 0..Len(wire) : /\ BookAt(v, book, n) = BookAt(wire, book, n)
                                   /\ Whole(v, Gap, n) <=> Whole(wire, Gap, n)
        /\ Whole(v, Gap, Len(wire) + 1) => Whole(wire, Gap, Len(wire))
        /\ BookAt(v, book, Len(wire) + 1) = After(BookAt(wire, book, Len(wire)), F)
    <3>1. F.kind # "snapshot"
      BY <1>2
    <3>2. PICK gap \in BOOLEAN : gap = Gap
      BY <1>1
    <3>3. wire \in Seq(Frame) /\ F \in Frame
      BY <1>1, <1>2
    <3>4. /\ \A n \in 0..Len(wire) : BookAt(Append(wire, F), book, n) = BookAt(wire, book, n)
          /\ BookAt(Append(wire, F), book, Len(wire) + 1) = After(BookAt(wire, book, Len(wire)), F)
      BY <3>3, Joined, JoinedBefore
    <3>5. /\ \A n \in 0..Len(wire) : Whole(Append(wire, F), gap, n) <=> Whole(wire, gap, n)
          /\ Whole(Append(wire, F), gap, Len(wire) + 1) => Whole(wire, gap, Len(wire))
      BY <3>1, <3>3, JoinedWhole
    <3> QED
      BY <1>1, <1>2, <2>1, <3>2, <3>4, <3>5
  <2>4. After(remote.book, F) = b
    BY <1>1, <1>2 DEF After
  <2>5. \A i \in Len(wire) + 1..Len(v) : i = Len(v) /\ i = Len(wire) + 1
    BY <2>2
  <2> QED
    BY <1>2, <2>2, <2>3, <2>4, <2>5
<1>7. ASSUME NEW s, NEW t, {s, t} = {"bid", "ask"},
             u = <<one(s, remote.n + 1), one(t, remote.n + 2)>>
      PROVE  /\ v \in Seq(Frame) /\ Len(wire) <= Len(v)
             /\ \A n \in 0..Len(wire) : /\ BookAt(v, book, n) = BookAt(wire, book, n)
                                        /\ Whole(v, Gap, n) <=> Whole(wire, Gap, n)
             /\ \A i \in 1..Len(wire) : v[i] = wire[i]
             /\ \A i \in Len(wire) + 1..Len(v) :
                    /\ v[i].kind = "update"
                    /\ \/ i = Len(v) /\ v[i].n = remote.n + 2
                       \/ i = Len(wire) + 1 /\ v[i].n = remote.n + 1
                    /\ Whole(v, Gap, i) => Whole(wire, Gap, Len(wire))
             /\ Len(wire) < Len(v)
             /\ BookAt(wire, book, Len(wire)) = remote.book => BookAt(v, book, Len(v)) = b
  <2> DEFINE f == one(s, remote.n + 1)
             g == one(t, remote.n + 2)
             w == Append(wire, f)
  <2>1. /\ f \in Frame /\ f.kind = "update" /\ f.n = remote.n + 1
        /\ f.add = {l \in add : l[1] = s} /\ f.del = {l \in del : l[1] = s}
        /\ g \in Frame /\ g.kind = "update" /\ g.n = remote.n + 2
        /\ g.add = {l \in add : l[1] = t} /\ g.del = {l \in del : l[1] = t}
    <3> HIDE DEF one
    <3> QED
      BY <1>1, <1>3
  <2> HIDE DEF f, g
  <2>2. v = Append(w, g)
    <3>1. u = <<f, g>>
      BY <1>7 DEF f, g
    <3> QED
      BY <1>1, <2>1, <3>1
  <2>3. /\ w \in Seq(Frame) /\ Len(w) = Len(wire) + 1 /\ Len(wire) \in Nat
        /\ \A i \in 1..Len(wire) : w[i] = wire[i]
        /\ w[Len(wire) + 1] = f
    BY <1>1, <2>1
  <2>4. /\ \A n \in 0..Len(wire) : /\ BookAt(w, book, n) = BookAt(wire, book, n)
                                   /\ Whole(w, Gap, n) <=> Whole(wire, Gap, n)
        /\ Whole(w, Gap, Len(w)) => Whole(wire, Gap, Len(wire))
        /\ BookAt(w, book, Len(w)) = After(BookAt(wire, book, Len(wire)), f)
    <3>1. f.kind # "snapshot"
      BY <2>1
    <3>2. PICK gap \in BOOLEAN : gap = Gap
      BY <1>1
    <3>3. wire \in Seq(Frame) /\ f \in Frame
      BY <1>1, <2>1
    <3>4. /\ \A n \in 0..Len(wire) : BookAt(Append(wire, f), book, n) = BookAt(wire, book, n)
          /\ BookAt(Append(wire, f), book, Len(wire) + 1) = After(BookAt(wire, book, Len(wire)), f)
      BY <3>3, Joined, JoinedBefore
    <3>5. /\ \A n \in 0..Len(wire) : Whole(Append(wire, f), gap, n) <=> Whole(wire, gap, n)
          /\ Whole(Append(wire, f), gap, Len(wire) + 1) => Whole(wire, gap, Len(wire))
      BY <3>1, <3>3, JoinedWhole
    <3> QED
      BY <1>1, <2>1, <2>3, <3>2, <3>4, <3>5
  <2> HIDE DEF w
  <2>5. /\ v \in Seq(Frame) /\ Len(v) = Len(wire) + 2 /\ v[Len(wire) + 2] = g
        /\ \A i \in 1..Len(w) : v[i] = w[i]
    BY <2>1, <2>2, <2>3
  <2>6. /\ \A n \in 0..Len(w) : /\ BookAt(v, book, n) = BookAt(w, book, n)
                                /\ Whole(v, Gap, n) <=> Whole(w, Gap, n)
        /\ Whole(v, Gap, Len(v)) => Whole(w, Gap, Len(w))
        /\ BookAt(v, book, Len(v)) = After(BookAt(w, book, Len(w)), g)
    <3>1. g.kind # "snapshot" /\ Len(v) = Len(w) + 1
      BY <2>1, <2>3, <2>5
    <3>2. PICK gap \in BOOLEAN : gap = Gap
      BY <1>1
    <3>3. /\ \A n \in 0..Len(w) : BookAt(Append(w, g), book, n) = BookAt(w, book, n)
          /\ BookAt(Append(w, g), book, Len(w) + 1) = After(BookAt(w, book, Len(w)), g)
      BY <2>1, <2>3, Joined, JoinedBefore
    <3>4. /\ \A n \in 0..Len(w) : Whole(Append(w, g), gap, n) <=> Whole(w, gap, n)
          /\ Whole(Append(w, g), gap, Len(w) + 1) => Whole(w, gap, Len(w))
      BY <2>1, <2>3, <3>1, JoinedWhole
    <3> QED
      BY <2>2, <3>1, <3>2, <3>3, <3>4
  <2>7. After(After(remote.book, f), g) = b
    <3>1. After(remote.book, f) = (remote.book \ f.del) \cup f.add
      BY <2>1 DEF After
    <3>2. After(After(remote.book, f), g) = (After(remote.book, f) \ g.del) \cup g.add
      BY <2>1 DEF After
    <3>3. \A l \in Levels : l[1] = s \/ l[1] = t
      BY <1>4, <1>7
    <3> QED
      BY <1>1, <2>1, <3>1, <3>2, <3>3
  <2>8. \A i \in Len(wire) + 1..Len(v) : i = Len(v) \/ (i = Len(wire) + 1 /\ i = Len(w))
    BY <2>3, <2>5
  <2>9. \A i \in Len(wire) + 1..Len(v) : Whole(v, Gap, i) => Whole(wire, Gap, Len(wire))
    <3>1. Len(w) \in 0..Len(w)
      BY <2>3
    <3> QED
      BY <2>4, <2>6, <2>8, <3>1
  <2>10. v[Len(wire) + 1] = f
    BY <2>3, <2>5
  <2>11. \A i \in 1..Len(wire) : v[i] = wire[i]
    BY <2>3, <2>5
  <2>12. \A n \in 0..Len(wire) : /\ BookAt(v, book, n) = BookAt(wire, book, n)
                                 /\ Whole(v, Gap, n) <=> Whole(wire, Gap, n)
    <3>1. \A n \in 0..Len(wire) : n \in 0..Len(w)
      BY <2>3
    <3> QED
      BY <2>4, <2>6, <3>1
  <2>13. Len(wire) < Len(v)
    BY <2>3, <2>5
  <2> QED
    BY <2>1, <2>3, <2>4, <2>5, <2>6, <2>7, <2>8, <2>9, <2>10, <2>11, <2>12, <2>13
<1> HIDE DEF one
<1> QED
  BY <1>5, <1>6, <1>7

\* A malformed frame is in its place, broken, and the others are as they were.
LEMMA MalformFacts ==
    ASSUME TypeOK, NEW i \in DOMAIN wire, Malform(i)
    PROVE  /\ Len(wire') = Len(wire) /\ i \in Nat /\ Broken(wire'[i])
           /\ \A j \in 1..Len(wire) : j # i => wire'[j] = wire[j]
<1>1. wire \in Seq(Frame) /\ wire[i] \in Frame
  BY DEF TypeOK
<1>2. PICK kind \in {"bad_frame", "bad_snapshot", "bad_update"} :
          wire' = [wire EXCEPT ![i].kind = kind]
  BY DEF Malform, Unparsed
<1>3. wire'[i].kind = kind
  BY <1>1, <1>2 DEF Frame
<1> QED
  BY <1>1, <1>2, <1>3 DEF Broken

LEMMA NextLeads == TypeOK /\ Leads /\ [Next]_vars => Leads'
<1> SUFFICES ASSUME TypeOK, Leads, [Next]_vars,
                    up', ~owes', venue' \in Incremental, Whole(wire', Gap', Len(wire'))
             PROVE  BookAt(wire', book', Len(wire')) = remote'.book
  BY DEF Leads
<1> USE DEF exchange, adapter, history
<1>1. /\ wire \in Seq(Frame) /\ book \in SUBSET Levels /\ Gap \in BOOLEAN /\ Len(wire) \in Nat
      /\ remote.book \in SUBSET Levels /\ remote.n \in Nat /\ Gap' \in BOOLEAN
  BY NextType DEF TypeOK, Gap
<1>2. CASE UNCHANGED vars
  BY <1>2 DEF vars, Leads, Gap
<1>3. ASSUME NEW b \in Books, Change(b)
      PROVE  BookAt(wire', book', Len(wire')) = remote'.book
  <2>1. /\ UNCHANGED <<venue, owes, up, book, torn, awaiting>> /\ remote'.book = b
        /\ b \in SUBSET Levels
    BY <1>3, ConstantsOK DEF Change
  <2>2. PICK u \in Update(b) : wire' = wire \o u
    BY <1>3, <2>1 DEF Change
  <2>3. Gap' = Gap
    BY <2>1 DEF Gap
  <2>4. Len(wire') \in Len(wire) + 1..Len(wire')
    BY <1>1, <2>1, <2>2, UpdateLeads DEF Brings
  <2>5. Whole(wire, Gap, Len(wire))
    BY <2>1, <2>2, <2>3, <2>4, UpdateLeads DEF Brings
  <2>6. BookAt(wire, book, Len(wire)) = remote.book
    BY <2>1, <2>5 DEF Leads
  <2> QED
    BY <2>1, <2>2, <2>6, UpdateLeads DEF Brings
<1>4. CASE SendBook
  <2> DEFINE f == BookFrame("snapshot", remote.book, {}, remote.n)
  <2>1. f \in Frame /\ f.kind = "snapshot" /\ f.add = remote.book
    BY <1>1 DEF BookFrame, Frame
  <2>2. wire' = Append(wire, f) /\ book' = book /\ remote' = remote
    BY <1>4 DEF SendBook
  <2> HIDE DEF f
  <2>3. /\ Len(wire') = Len(wire) + 1
        /\ BookAt(wire', book, Len(wire) + 1) = After(BookAt(wire, book, Len(wire)), f)
    BY <1>1, <2>1, <2>2, Joined
  <2> QED
    BY <2>1, <2>2, <2>3 DEF After
<1>5. CASE SendTrades
  <2> DEFINE f == TradeFrame(2 * used.trades)
  <2>1. f \in Frame /\ f.kind = "trade"
    BY TradeFrameType
  <2>2. /\ wire' = Append(wire, f) /\ up
        /\ UNCHANGED <<venue, remote, owes, up, book, torn, awaiting>>
    BY <1>5 DEF SendTrades
  <2> HIDE DEF f
  <2>3. Gap' = Gap
    BY <2>2 DEF Gap
  <2>4. f.kind # "snapshot"
    BY <2>1
  <2>5. /\ Len(wire') = Len(wire) + 1
        /\ BookAt(wire', book, Len(wire) + 1) = After(BookAt(wire, book, Len(wire)), f)
        /\ Whole(wire', Gap, Len(wire) + 1) => Whole(wire, Gap, Len(wire))
    BY <1>1, <2>1, <2>2, <2>4, Joined, JoinedWhole
  <2>6. BookAt(wire, book, Len(wire)) = remote.book
    BY <2>2, <2>3, <2>5 DEF Leads
  <2> QED
    BY <2>1, <2>2, <2>5, <2>6 DEF After
<1>6. ASSUME NEW i \in DOMAIN wire, Malform(i)
      PROVE  BookAt(wire', book', Len(wire')) = remote'.book
  <2>1. /\ Len(wire') = Len(wire) /\ i \in Nat /\ Broken(wire'[i])
        /\ \A j \in 1..Len(wire) : j # i => wire'[j] = wire[j]
        /\ UNCHANGED <<venue, remote, owes, up, book, torn, awaiting>>
    BY <1>1, <1>6, MalformFacts DEF Malform
  <2>2. Gap' = Gap
    BY <2>1 DEF Gap
  <2>3. /\ Whole(wire, Gap, Len(wire))
        /\ BookAt(wire', book, Len(wire)) = BookAt(wire, book, Len(wire))
    BY <1>1, <2>1, <2>2, Malformed DEF SameBook
  <2> QED
    BY <2>1, <2>3 DEF Leads
<1>7. CASE Connect
  <2>1. venue \in Incremental /\ owes' = (venue \notin TradesOnly)
    BY <1>7 DEF Connect
  <2> QED
    BY <2>1 DEF Incremental, TradesOnly
<1>8. CASE Ends \/ Disconnect \/ Restart \/ Resubscribes
  BY <1>8 DEF Ends, Disconnect, Restart, Lost, Resubscribes
<1>9. CASE Passes \/ Misses \/ Takes \/ IsSent
  <2> DEFINE f == Head(wire)
  <2>1. Consumes /\ owes' = owes
    BY <1>9 DEF Passes, Misses, Takes, IsSent
  <2>2. /\ wire # <<>> /\ wire' = Tail(wire) /\ Len(wire') = Len(wire) - 1
        /\ Len(wire) - 1 \in 0..Len(wire) - 1
        /\ UNCHANGED <<venue, remote, up>>
    BY <1>1, <2>1 DEF Consumes
  <2>3. \/ Gap'
        \/ book' = After(book, f) /\ ~Broken(f) /\ (Gap => f.kind = "snapshot")
    <3>1. CASE Passes
      BY <3>1 DEF Passes, After, Broken, Gap
    <3>2. CASE Misses
      BY <3>2 DEF Misses
    <3>3. CASE Takes
      BY <3>3 DEF Takes, Broken
    <3>4. CASE IsSent
      BY <2>2, <3>4 DEF IsSent
    <3> QED
      BY <1>9, <3>1, <3>2, <3>3, <3>4
  <2>4. PICK still \in BOOLEAN, gap \in BOOLEAN, n \in 0..Len(wire) - 1, c \in {book'} :
            still = Gap' /\ gap = Gap /\ n = Len(wire) - 1 /\ c = book'
    BY <1>1, <2>2
  <2>5. /\ Whole(wire, gap, n + 1)
        /\ BookAt(Tail(wire), c, n) = BookAt(wire, book, n + 1)
    <3>1. Whole(Tail(wire), still, n)
      BY <2>2, <2>4
    <3>2. still \/ (c = After(book, Head(wire)) /\ ~Broken(Head(wire))
                        /\ (gap => Head(wire).kind = "snapshot"))
      BY <2>3, <2>4
    <3> HIDE DEF f
    <3> QED
      BY <1>1, <2>2, <3>1, <3>2, Consumed
  <2>6. n + 1 = Len(wire)
    BY <1>1, <2>4
  <2> QED
    BY <2>1, <2>2, <2>4, <2>5, <2>6 DEF Leads
<1> QED
  BY <1>2, <1>3, <1>4, <1>5, <1>6, <1>7, <1>8, <1>9, FeedSteps DEF Next

LEMMA NextShowsOwn == TypeOK /\ ShowsOwn /\ [Next]_vars => ShowsOwn'
<1> SUFFICES ASSUME TypeOK, ShowsOwn, [Next]_vars,
                    up', ~owes', venue' \in Incremental, ~Gap', Usable(book'),
                    \A i \in DOMAIN wire' : wire'[i].kind \in {"update", "trade"}
             PROVE  shown' = book'
  BY DEF ShowsOwn, Usable, OneSided, Crossed, Side
<1> USE DEF exchange, adapter, history
<1>1. wire \in Seq(Frame) /\ Len(wire) \in Nat /\ remote.book \subseteq Levels /\ remote.n \in Nat
  BY DEF TypeOK
<1>2. CASE UNCHANGED vars
  BY <1>2 DEF vars, ShowsOwn, Gap
<1>3. ASSUME \A i \in 1..Len(wire) : i \in DOMAIN wire' /\ wire'[i] = wire[i],
             UNCHANGED <<venue, owes, up, book, shown, torn, awaiting>>
      PROVE  shown' = book'
  <2>1. \A i \in DOMAIN wire : wire[i].kind \in {"update", "trade"}
    BY <1>1, <1>3
  <2> QED
    BY <1>3, <2>1 DEF ShowsOwn, Gap
<1>4. ASSUME NEW b \in Books, Change(b) PROVE shown' = book'
  <2>1. /\ UNCHANGED <<venue, owes, up, book, shown, torn, awaiting>>
        /\ b \in SUBSET Levels
    BY <1>4, ConstantsOK DEF Change
  <2>2. PICK u \in Update(b) : wire' = wire \o u
    BY <1>4, <2>1 DEF Change
  <2>3. /\ wire' \in Seq(Frame) /\ Len(wire) <= Len(wire')
        /\ \A i \in 1..Len(wire) : wire'[i] = wire[i]
    BY <2>1, <2>2, UpdateLeads DEF Brings
  <2>4. \A i \in 1..Len(wire) : i \in DOMAIN wire'
    BY <1>1, <2>3
  <2> QED
    BY <1>3, <2>1, <2>3, <2>4
<1>5. CASE SendBook
  <2> DEFINE f == BookFrame("snapshot", remote.book, {}, remote.n)
  <2>1. f \in Frame /\ f.kind = "snapshot"
    BY <1>1 DEF BookFrame, Frame
  <2>2. wire' = Append(wire, f)
    BY <1>5 DEF SendBook
  <2>3. wire'[Len(wire) + 1] = f /\ Len(wire) + 1 \in DOMAIN wire'
    BY <1>1, <2>1, <2>2
  <2> QED
    BY <2>1, <2>3
<1>6. CASE SendTrades
  <2>1. /\ wire' = Append(wire, TradeFrame(2 * used.trades))
        /\ UNCHANGED <<venue, owes, up, book, shown, torn, awaiting>>
    BY <1>6 DEF SendTrades
  <2>2. \A i \in 1..Len(wire) : i \in DOMAIN wire' /\ wire'[i] = wire[i]
    BY <1>1, <2>1
  <2> QED
    BY <1>3, <2>1, <2>2
<1>7. ASSUME NEW i \in DOMAIN wire, Malform(i) PROVE FALSE
  <2>1. Len(wire') = Len(wire) /\ Broken(wire'[i]) /\ wire' \in Seq(Frame)
    BY <1>7, NextType, MalformFacts DEF TypeOK
  <2> QED
    BY <1>1, <2>1 DEF Broken
<1>8. CASE Connect
  <2>1. venue \in Incremental /\ owes' = (venue \notin TradesOnly)
    BY <1>8 DEF Connect
  <2> QED
    BY <2>1 DEF Incremental, TradesOnly
<1>9. CASE Ends \/ Disconnect \/ Restart \/ Resubscribes
  BY <1>9 DEF Ends, Disconnect, Restart, Lost, Resubscribes
<1>10. CASE Passes
  <2>1. /\ wire # <<>> /\ wire' = Tail(wire) /\ Head(wire).kind = "trade"
        /\ UNCHANGED <<venue, owes, up, book, shown, torn, awaiting>>
    BY <1>10 DEF Passes, Consumes
  <2>2. ASSUME NEW i \in DOMAIN wire PROVE wire[i].kind \in {"update", "trade"}
    <3>1. i = 1 \/ (i - 1 \in DOMAIN wire' /\ wire'[i - 1] = wire[i])
      BY <1>1, <2>1
    <3> QED
      BY <2>1, <3>1
  <2> QED
    BY <2>1, <2>2 DEF ShowsOwn, Gap
<1>11. CASE Misses \/ IsSent
  BY <1>11 DEF Misses, IsSent, Consumes
<1>12. CASE Takes
  BY <1>12 DEF Takes, Publish
<1> QED
  BY <1>2, <1>4, <1>5, <1>6, <1>7, <1>8, <1>9, <1>10, <1>11, <1>12, FeedSteps DEF Next

\* The last book frame of the queue, with trades alone behind it.
IsLastBook(w, i) == w[i].kind = "snapshot" /\ \A j \in i + 1..Len(w) : w[j].kind = "trade"

LEMMA NextBringsLast == TypeOK /\ BringsLast /\ [Next]_vars => BringsLast'
<1> SUFFICES ASSUME TypeOK, BringsLast, [Next]_vars,
                    up', ~owes', venue' \notin Incremental \cup TradesOnly
             PROVE  /\ \A i \in DOMAIN wire' : IsLastBook(wire', i) => wire'[i].add = remote'.book
                    /\ Quiet' /\ ~Gap' /\ Usable(Normalized(remote.book))'
                           => shown' = Normalized(remote.book)'
  BY DEF BringsLast, IsLastBook
<1> USE DEF exchange, adapter, history
<1> DEFINE Goal == /\ \A i \in DOMAIN wire' : IsLastBook(wire', i) => wire'[i].add = remote'.book
                   /\ Quiet' /\ ~Gap' /\ Usable(Normalized(remote.book))'
                          => shown' = Normalized(remote.book)'
<1>1. wire \in Seq(Frame) /\ Len(wire) \in Nat /\ remote.book \subseteq Levels /\ remote.n \in Nat
  BY DEF TypeOK
<1>2. CASE UNCHANGED vars
  BY <1>2 DEF vars, BringsLast, Quiet, Gap, Usable, OneSided, Crossed, Side, Normalized,
     Uncrossed, IsLastBook
\* A new frame that is a book of the venue is the last.
<1>3. ASSUME NEW f \in Frame, f.kind = "snapshot", wire' = Append(wire, f),
             remote'.book = f.add
      PROVE  Goal
  <2>1. /\ Len(wire') = Len(wire) + 1 /\ wire'[Len(wire) + 1] = f
        /\ Len(wire) + 1 \in DOMAIN wire'
        /\ \A i \in DOMAIN wire' : i = Len(wire) + 1 \/ Len(wire) + 1 \in i + 1..Len(wire')
    BY <1>1, <1>3
  <2>2. ~Quiet'
    BY <1>3, <2>1 DEF Quiet
  <2>3. \A i \in DOMAIN wire' : IsLastBook(wire', i) => i = Len(wire) + 1
    BY <1>3, <2>1 DEF IsLastBook
  <2> QED
    BY <1>3, <2>1, <2>2, <2>3
<1>4. ASSUME NEW b \in Books, Change(b) PROVE Goal
  <2> DEFINE f == BookFrame("snapshot", b, {}, remote.n + 2)
  <2>1. f \in Frame /\ f.kind = "snapshot" /\ f.add = b
    <3>1. b \in SUBSET Levels /\ remote.n + 2 \in Nat
      BY <1>1, ConstantsOK
    <3> QED
      BY <3>1 DEF BookFrame, Frame
  <2>2. wire' = Append(wire, f) /\ remote'.book = b
    BY <1>4 DEF Change
  <2> HIDE DEF f, Goal
  <2> QED
    BY <1>3, <2>1, <2>2
<1>5. CASE SendBook
  <2> DEFINE f == BookFrame("snapshot", remote.book, {}, remote.n)
  <2>1. f \in Frame /\ f.kind = "snapshot" /\ f.add = remote.book
    BY <1>1 DEF BookFrame, Frame
  <2>2. wire' = Append(wire, f) /\ remote'.book = f.add
    BY <1>5, <2>1 DEF SendBook
  <2> HIDE DEF f
  <2>3. Goal
    <3> HIDE DEF Goal
    <3> QED
      BY <1>3, <2>1, <2>2
  <2> QED
    BY <2>3
<1>6. CASE SendTrades
  <2> DEFINE f == TradeFrame(2 * used.trades)
  <2>1. f \in Frame /\ f.kind = "trade"
    BY TradeFrameType
  <2>2. /\ wire' = Append(wire, f)
        /\ UNCHANGED <<venue, remote, owes, up, book, shown, torn, awaiting>>
    BY <1>6 DEF SendTrades
  <2> HIDE DEF f
  <2>3. /\ Len(wire') = Len(wire) + 1 /\ wire'[Len(wire) + 1] = f
        /\ \A i \in DOMAIN wire : i \in DOMAIN wire' /\ wire'[i] = wire[i]
        /\ \A i \in DOMAIN wire' : i \in DOMAIN wire \/ i = Len(wire) + 1
    BY <1>1, <2>1, <2>2
  <2>4. ASSUME NEW i \in DOMAIN wire', IsLastBook(wire', i) PROVE wire'[i].add = remote'.book
    <3>1. i \in DOMAIN wire
      BY <2>1, <2>3, <2>4 DEF IsLastBook
    <3>2. \A j \in i + 1..Len(wire) : j \in i + 1..Len(wire') /\ wire'[j] = wire[j]
      BY <1>1, <2>3, <3>1
    <3>3. wire[i].kind = "snapshot" /\ \A j \in i + 1..Len(wire) : wire[j].kind = "trade"
      BY <2>3, <2>4, <3>1, <3>2 DEF IsLastBook
    <3> QED
      BY <2>2, <2>3, <3>1, <3>3 DEF BringsLast
  <2>5. Quiet' => Quiet
    BY <2>3 DEF Quiet
  <2> QED
    BY <2>2, <2>4, <2>5 DEF BringsLast, Gap, Usable, OneSided, Crossed, Side, Normalized,
       Uncrossed
<1>7. ASSUME NEW i \in DOMAIN wire, Malform(i) PROVE Goal
  <2>1. /\ Len(wire') = Len(wire) /\ i \in Nat /\ Broken(wire'[i]) /\ wire' \in Seq(Frame)
        /\ \A j \in 1..Len(wire) : j # i => wire'[j] = wire[j]
        /\ UNCHANGED <<venue, remote, owes, up, shown, torn, awaiting>>
    BY <1>7, NextType, MalformFacts DEF Malform, TypeOK
  <2>2. ~Quiet'
    BY <1>1, <2>1 DEF Quiet, Broken
  <2>3. ASSUME NEW k \in DOMAIN wire', IsLastBook(wire', k) PROVE wire'[k].add = remote'.book
    <3>1. k \in 1..Len(wire) /\ k # i /\ ~(i \in k + 1..Len(wire'))
      BY <2>1, <2>3 DEF IsLastBook, Broken
    <3>2. \A j \in k + 1..Len(wire) : j \in 1..Len(wire) /\ j # i /\ j \in k + 1..Len(wire')
      BY <1>1, <2>1, <3>1
    <3>3. wire[k].kind = "snapshot" /\ \A j \in k + 1..Len(wire) : wire[j].kind = "trade"
      BY <2>1, <2>3, <3>1, <3>2 DEF IsLastBook
    <3>4. k \in DOMAIN wire
      BY <1>1, <3>1
    <3>5. wire[k].add = remote.book
      BY <2>1, <3>3, <3>4 DEF BringsLast
    <3> QED
      BY <2>1, <3>1, <3>5
  <2> QED
    BY <2>2, <2>3
<1>8. CASE Connect
  BY <1>8 DEF Connect
<1>9. CASE Ends \/ Disconnect \/ Restart \/ Resubscribes
  BY <1>9 DEF Ends, Disconnect, Restart, Lost, Resubscribes
<1>10. ASSUME Consumes, owes' = owes
       PROVE  \A i \in DOMAIN wire' : IsLastBook(wire', i) => wire'[i].add = remote'.book
  <2> SUFFICES ASSUME NEW i \in DOMAIN wire', IsLastBook(wire', i)
               PROVE  wire'[i].add = remote'.book
    OBVIOUS
  <2>1. wire # <<>> /\ wire' = Tail(wire) /\ UNCHANGED <<venue, remote, up>>
    BY <1>10 DEF Consumes
  <2>2. /\ i + 1 \in DOMAIN wire /\ wire'[i] = wire[i + 1]
        /\ \A j \in (i + 1) + 1..Len(wire) : j - 1 \in i + 1..Len(wire') /\ wire'[j - 1] = wire[j]
    BY <1>1, <2>1
  <2>3. wire[i + 1].kind = "snapshot" /\ \A j \in (i + 1) + 1..Len(wire) : wire[j].kind = "trade"
    BY <2>2 DEF IsLastBook
  <2>4. wire[i + 1].add = remote.book
    BY <1>10, <2>1, <2>2, <2>3 DEF BringsLast
  <2> QED
    BY <2>1, <2>2, <2>4
<1>11. CASE Passes
  <2>1. /\ wire # <<>> /\ wire' = Tail(wire) /\ Head(wire).kind = "trade" /\ Consumes
        /\ UNCHANGED <<venue, remote, owes, up, book, shown, torn, awaiting>>
    BY <1>11 DEF Passes, Consumes
  <2>2. Quiet' => Quiet
    <3> SUFFICES ASSUME Quiet', NEW i \in DOMAIN wire PROVE wire[i].kind = "trade"
      BY DEF Quiet
    <3>1. i = 1 \/ (i - 1 \in DOMAIN wire' /\ wire'[i - 1] = wire[i])
      BY <1>1, <2>1
    <3> QED
      BY <2>1, <3>1 DEF Quiet
  <2> QED
    BY <1>10, <2>1, <2>2 DEF BringsLast, Gap, Usable, OneSided, Crossed, Side, Normalized,
       Uncrossed
<1>12. CASE Misses \/ Takes
  BY <1>10, <1>12 DEF Misses, Takes, Consumes
<1>13. CASE IsSent
  <2> DEFINE f == Head(wire)
  <2>1. /\ Consumes /\ UNCHANGED <<venue, remote, owes, up>> /\ wire # <<>> /\ wire' = Tail(wire)
        /\ f.kind = "snapshot"
        /\ \/ shown' = Normalized(f.add)
           \/ ~Usable(Normalized(f.add))
    BY <1>13 DEF IsSent, Consumes, Publish
  <2>2. Quiet' => f.add = remote.book
    <3> SUFFICES ASSUME Quiet' PROVE f.add = remote.book
      OBVIOUS
    <3>1. 1 \in DOMAIN wire /\ wire[1] = f
      BY <1>1, <2>1
    <3>2. \A j \in 1 + 1..Len(wire) : j - 1 \in DOMAIN wire' /\ wire'[j - 1] = wire[j]
      BY <1>1, <2>1
    <3>3. \A j \in 1 + 1..Len(wire) : wire[j].kind = "trade"
      BY <3>2 DEF Quiet
    <3> QED
      BY <2>1, <3>1, <3>3 DEF BringsLast
  <2>3. Normalized(remote.book)' = Normalized(remote.book)
    BY <2>1 DEF Normalized, Uncrossed, Side
  <2>4. Usable(Normalized(remote.book))' = Usable(Normalized(remote.book))
    BY <2>1 DEF Usable, OneSided, Crossed, Side, Normalized, Uncrossed
  <2> HIDE DEF f
  <2> QED
    BY <1>10, <2>1, <2>2, <2>3, <2>4
<1> QED
  BY <1>2, <1>4, <1>5, <1>6, <1>7, <1>8, <1>9, <1>11, <1>12, <1>13, FeedSteps DEF Next

\* What a viewer sees when nothing is on its way.
LEMMA ShownIsLatest == TypeOK /\ Leads /\ ShowsOwn /\ BringsLast => ShowsLatest
<1> SUFFICES ASSUME TypeOK, Leads, ShowsOwn, BringsLast,
                    up, ~owes, Quiet, ~torn, ~awaiting, venue \notin TradesOnly,
                    Usable(Normalized(remote.book))
             PROVE  shown = Normalized(remote.book)
  BY DEF ShowsLatest
<1>1. ~Gap /\ wire \in Seq(Frame) /\ book \in SUBSET Levels /\ Len(wire) \in Nat
  BY DEF Gap, TypeOK
<1>2. CASE venue \in Incremental
  <2>1. Normalized(remote.book) = remote.book
    BY <1>2 DEF Normalized, Incremental, Uncrosses
  <2>2. \A i \in 1..Len(wire) : wire[i].kind = "trade"
    BY <1>1 DEF Quiet
  <2>3. Whole(wire, Gap, Len(wire))
    BY <1>1, <2>2 DEF Whole, Broken
  <2>4. BookAt(wire, book, Len(wire)) = book
    <3>1. \A i \in 1..Len(wire) : \A l : ~Mentions(wire[i], l) /\ ~Adds(wire[i], l)
      BY <2>2 DEF Mentions, Adds
    <3> QED
      BY <1>1, <3>1 DEF BookAt
  <2>5. book = remote.book
    BY <1>2, <2>3, <2>4 DEF Leads
  <2> QED
    BY <1>1, <1>2, <2>1, <2>5 DEF ShowsOwn, Quiet
<1>3. CASE venue \notin Incremental
  BY <1>1, <1>3 DEF BringsLast
<1> QED
  BY <1>2, <1>3

-----------------------------------------------------------------------------
(* A number stands for one book *)

Number(k, b) == [n |-> k, book |-> Normalized(b)]

\* Where what is known after a step comes from.
LEMMA KnownNext ==
    ASSUME venue' = venue, NEW S,
           Number(remote'.n, remote'.book) \in S,
           \A i \in DOMAIN wire' :
               /\ wire'[i].kind = "snapshot" \/ (wire'[i].kind = "update" /\ venue \in Incremental)
               /\ Whole(wire', Gap', i)
               => Number(wire'[i].n, BookAt(wire', book', i)) \in S,
           \A p \in published' : [n |-> p.sequence, book |-> p.book] \in S
    PROVE  Known' \subseteq S
<1>1. \A b : Normalized(b) = IF venue' \in Uncrosses THEN Uncrossed(b) ELSE b
  BY DEF Normalized
<1>2. ASSUME NEW k \in Known' PROVE k \in S
  <2>1. CASE k = [n |-> remote.n, book |-> Normalized(remote.book)]'
    BY <1>1, <2>1 DEF Number, Normalized
  <2>2. CASE k \in {[n |-> wire[i].n, book |-> Normalized(BookAt(wire, book, i))] : i \in Numbered}'
    <3>1. PICK i \in Numbered' : k = [n |-> wire'[i].n, book |-> Normalized(BookAt(wire', book', i))]
      BY <1>1, <2>2 DEF Normalized
    <3>2. /\ i \in DOMAIN wire' /\ Whole(wire', Gap', i)
          /\ wire'[i].kind = "snapshot" \/ (wire'[i].kind = "update" /\ venue \in Incremental)
      BY <3>1 DEF Numbered
    <3> QED
      BY <3>1, <3>2 DEF Number
  <2>3. CASE k \in {[n |-> p.sequence, book |-> p.book] : p \in published}'
    BY <2>3
  <2> QED
    BY <1>2, <2>1, <2>2, <2>3 DEF Known
<1> QED
  BY <1>2

\* What is known is what the step finds: the same for the state before it.
LEMMA KnownNow ==
    /\ Number(remote.n, remote.book) \in Known
    /\ \A i \in Numbered : Number(wire[i].n, BookAt(wire, book, i)) \in Known
    /\ \A p \in published : [n |-> p.sequence, book |-> p.book] \in Known
BY DEF Known, Number

\* The first frame was handled, and what it published was known.
LEMMA KnownConsumed ==
    ASSUME TypeOK, TypeOK', Consumes,
           \/ Gap'
           \/ /\ book' = After(book, Head(wire)) /\ ~Broken(Head(wire))
              /\ Gap => Head(wire).kind = "snapshot"
           \/ venue \notin Incremental,
           \A p \in published' : [n |-> p.sequence, book |-> p.book] \in Known
    PROVE  Known' \subseteq Known
<1>1. /\ wire \in Seq(Frame) /\ book \in SUBSET Levels /\ Gap \in BOOLEAN /\ Gap' \in BOOLEAN
      /\ Len(wire) \in Nat
  BY DEF TypeOK, Gap
<1>2. /\ wire # <<>> /\ wire' = Tail(wire) /\ UNCHANGED <<venue, remote>>
      /\ DOMAIN wire' = 1..Len(wire) - 1
  BY <1>1 DEF Consumes
<1>3. ASSUME NEW i \in DOMAIN wire', Whole(wire', Gap', i),
             wire'[i].kind = "snapshot" \/ (wire'[i].kind = "update" /\ venue \in Incremental)
      PROVE  Number(wire'[i].n, BookAt(wire', book', i)) \in Known
  <2>1. i \in 0..Len(wire) - 1 /\ i + 1 \in DOMAIN wire /\ wire'[i] = wire[i + 1] /\ i \in 1..i
    BY <1>1, <1>2
  <2>2. PICK still \in BOOLEAN, gap \in BOOLEAN, c \in {book'} :
            still = Gap' /\ gap = Gap /\ c = book'
    BY <1>1
  <2>3. \/ still
        \/ /\ c = After(book, Head(wire)) /\ ~Broken(Head(wire))
           /\ gap => Head(wire).kind = "snapshot"
        \/ SnapshotIn(Tail(wire), 1, i)
    BY <1>2, <1>3, <2>1, <2>2 DEF SnapshotIn
  <2>4. Whole(Tail(wire), still, i)
    BY <1>2, <1>3, <2>2
  <2>5. Whole(wire, gap, i + 1) /\ BookAt(Tail(wire), c, i) = BookAt(wire, book, i + 1)
    BY <1>1, <1>2, <2>1, <2>3, <2>4, Consumed
  <2>6. i + 1 \in Numbered
    BY <1>3, <2>1, <2>2, <2>5 DEF Numbered
  <2>7. Number(wire[i + 1].n, BookAt(wire, book, i + 1)) \in Known
    BY <2>6, KnownNow
  <2> QED
    BY <1>2, <2>1, <2>2, <2>5, <2>7
<1>4. Number(remote'.n, remote'.book) \in Known
  BY <1>2, KnownNow
<1> QED
  BY <1>2, <1>3, <1>4, KnownNext

\* The book of the first frame was known.
LEMMA FirstKnown ==
    ASSUME TypeOK, wire # <<>>,
           \/ Head(wire).kind = "snapshot"
           \/ Head(wire).kind = "update" /\ venue \in Incremental,
           Gap => Head(wire).kind = "snapshot"
    PROVE  Number(Head(wire).n, After(book, Head(wire))) \in Known
<1>1. /\ wire \in Seq(Frame) /\ book \in SUBSET Levels /\ 1 \in DOMAIN wire /\ wire[1] = Head(wire)
  BY DEF TypeOK
<1>2. Whole(wire, Gap, 1)
  <2>1. ~Broken(wire[1]) /\ 1 \in 1..1 /\ \A i \in 1..1 : i = 1
    BY <1>1 DEF Broken
  <2> QED
    BY <1>1, <2>1 DEF Whole, SnapshotIn
<1>3. BookAt(wire, book, 0 + 1) = After(BookAt(wire, book, 0), wire[0 + 1])
  <2>1. 0 + 1 \in DOMAIN wire
    BY <1>1
  <2> QED
    BY <1>1, <2>1, BookNext
<1>4. BookAt(wire, book, 0) = book
  BY <1>1, BookEmpty
<1>5. 1 \in Numbered
  BY <1>1, <1>2 DEF Numbered
<1> QED
  BY <1>1, <1>3, <1>4, <1>5, KnownNow

\* Each step of the feed brings what was known.
LEMMA FeedKnown ==
    ASSUME TypeOK, TypeOK', Silent, ~Counts, Connect \/ Ends \/ Passes \/ Misses \/ Takes \/ IsSent
    PROVE  Known' \subseteq Known /\ UNCHANGED <<venue, remote>>
<1> USE DEF exchange, adapter, history
<1>1. wire \in Seq(Frame)
  BY DEF TypeOK
<1>2. CASE Connect \/ Ends
  <2>1. wire' = <<>> /\ UNCHANGED <<venue, remote, published>>
    BY <1>2 DEF Connect, Ends, Silent
  <2>2. DOMAIN wire' = {}
    BY <2>1
  <2> QED
    BY <2>1, <2>2, KnownNow, KnownNext
<1>3. CASE Passes \/ Misses
  <2>1. /\ Consumes /\ published' = published
        /\ \/ Gap'
           \/ /\ book' = After(book, Head(wire)) /\ ~Broken(Head(wire))
              /\ Gap => Head(wire).kind = "snapshot"
    <3>1. CASE Passes
      BY <3>1 DEF Passes, After, Broken, Gap
    <3>2. CASE Misses
      BY <3>2 DEF Misses
    <3> QED
      BY <1>3, <3>1, <3>2
  <2> QED
    BY <2>1, KnownNow, KnownConsumed DEF Consumes
<1>4. CASE Takes
  <2> DEFINE f == Head(wire)
  <2>1. /\ Consumes /\ wire # <<>> /\ f.kind \in {"snapshot", "update"} /\ venue \in Incremental
        /\ book' = After(book, f) /\ id' = NextId(f) /\ ~Broken(f)
        /\ Gap' \/ (Gap => f.kind = "snapshot")
    BY <1>4 DEF Takes, Consumes, Broken
  <2>2. id'.sequence = f.n
    <3>1. id \in [generation : Nat, sequence : Nat]
      BY DEF TypeOK
    <3> QED
      BY <2>1, <3>1 DEF NextId, Counts
  <2>3. Normalized(After(book, f)) = After(book, f)
    BY <2>1 DEF Normalized, Uncrosses, Incremental
  <2>4. ASSUME NEW p \in published' PROVE [n |-> p.sequence, book |-> p.book] \in Known
    <3>1. CASE p \in published
      BY <3>1, KnownNow
    <3>2. CASE p \notin published
      <4>1. /\ Gap => f.kind = "snapshot"
            /\ p = [generation |-> id'.generation, sequence |-> id'.sequence, book |-> book']
        BY <1>4, <3>2 DEF Takes, Publish
      <4>2. Number(f.n, After(book, f)) \in Known
        BY <2>1, <4>1, FirstKnown
      <4> QED
        BY <2>1, <2>2, <2>3, <4>1, <4>2 DEF Number
    <3> QED
      BY <3>1, <3>2
  <2> QED
    BY <2>1, <2>4, KnownConsumed DEF Consumes
<1>5. CASE IsSent
  <2> DEFINE f == Head(wire)
  <2>1. Consumes /\ wire # <<>> /\ f.kind = "snapshot" /\ venue \notin Incremental
    BY <1>5 DEF IsSent, Consumes
  <2>2. NextId(f).sequence = f.n
    <3>1. id \in [generation : Nat, sequence : Nat]
      BY DEF TypeOK
    <3> QED
      BY <3>1 DEF NextId, Counts
  <2>3. ASSUME NEW p \in published' PROVE [n |-> p.sequence, book |-> p.book] \in Known
    <3>1. CASE p \in published
      BY <3>1, KnownNow
    <3>2. CASE p \notin published
      <4>1. p = [generation |-> NextId(f).generation, sequence |-> NextId(f).sequence,
                 book |-> Normalized(f.add)]
        BY <1>5, <3>2 DEF IsSent, Publish
      <4>2. Number(f.n, After(book, f)) \in Known /\ After(book, f) = f.add
        BY <2>1, FirstKnown DEF After
      <4> QED
        BY <2>2, <4>1, <4>2 DEF Number
    <3> QED
      BY <3>1, <3>2
  <2> QED
    BY <2>1, <2>3, KnownConsumed DEF Consumes
<1> QED
  BY <1>2, <1>3, <1>4, <1>5

\* So does what the venue sends, but for the numbers of a change, which are new.
LEMMA VenueKnown ==
    ASSUME TypeOK, TypeOK', Silent, Leads,
           SendBook \/ SendTrades \/ \E i \in DOMAIN wire : Malform(i)
    PROVE  Known' \subseteq Known /\ UNCHANGED <<venue, remote>>
<1> USE DEF exchange, adapter, history
<1>1. /\ wire \in Seq(Frame) /\ Gap \in BOOLEAN /\ remote.book \in SUBSET Levels /\ remote.n \in Nat
      /\ Len(wire) \in Nat
  BY DEF TypeOK, Gap
\* A frame more.
<1>2. ASSUME NEW f \in Frame, wire' = Append(wire, f), up,
             UNCHANGED <<venue, remote, book, torn, awaiting, published>>,
             \/ f.kind = "trade"
             \/ f.kind = "snapshot" /\ f.n = remote.n /\ f.add = remote.book
      PROVE  Known' \subseteq Known
  <2>1. /\ Len(wire') = Len(wire) + 1 /\ wire'[Len(wire) + 1] = f
        /\ \A i \in DOMAIN wire : wire'[i] = wire[i] /\ i \in 0..Len(wire)
        /\ \A i \in DOMAIN wire' : i \in DOMAIN wire \/ i = Len(wire) + 1
        /\ Gap' = Gap
    BY <1>1, <1>2 DEF Gap
  <2>2. ASSUME NEW i \in DOMAIN wire', Whole(wire', Gap', i),
               wire'[i].kind = "snapshot" \/ (wire'[i].kind = "update" /\ venue \in Incremental)
        PROVE  Number(wire'[i].n, BookAt(wire', book', i)) \in Known
    <3>1. CASE i \in DOMAIN wire
      <4>1. BookAt(wire', book, i) = BookAt(wire, book, i)
        BY <1>1, <1>2, <2>1, <3>1, JoinedBefore
      <4>2. PICK gap \in BOOLEAN : gap = Gap
        BY <1>1
      <4>3. i \in 0..Len(wire) /\ Whole(Append(wire, f), gap, i)
        BY <1>2, <2>1, <2>2, <3>1, <4>2
      <4>4. Whole(wire, gap, i)
        BY <1>1, <4>3, JoinedWhole
      <4>5. i \in Numbered
        BY <2>1, <2>2, <3>1, <4>2, <4>4 DEF Numbered
      <4> QED
        BY <1>2, <2>1, <3>1, <4>1, <4>5, KnownNow
    <3>2. CASE i = Len(wire) + 1
      <4>1. f.kind = "snapshot" /\ f.n = remote.n /\ f.add = remote.book
        BY <1>2, <2>1, <2>2, <3>2
      <4>2. BookAt(wire', book, i) = remote.book
        BY <1>1, <1>2, <3>2, <4>1, Joined DEF After
      <4> QED
        BY <1>2, <2>1, <3>2, <4>1, <4>2, KnownNow
    <3> QED
      BY <2>1, <3>1, <3>2
  <2> QED
    BY <1>2, <2>2, KnownNow, KnownNext
<1>3. CASE SendBook
  <2> DEFINE f == BookFrame("snapshot", remote.book, {}, remote.n)
  <2>1. f \in Frame /\ f.kind = "snapshot" /\ f.n = remote.n /\ f.add = remote.book
    BY <1>1 DEF BookFrame, Frame
  <2>2. /\ wire' = Append(wire, f) /\ up
        /\ UNCHANGED <<venue, remote, book, torn, awaiting, published>>
    BY <1>3 DEF SendBook
  <2> HIDE DEF f
  <2> QED
    BY <1>2, <2>1, <2>2
<1>4. CASE SendTrades
  <2> DEFINE f == TradeFrame(2 * used.trades)
  <2>1. f \in Frame /\ f.kind = "trade"
    BY TradeFrameType
  <2>2. /\ wire' = Append(wire, f) /\ up
        /\ UNCHANGED <<venue, remote, book, torn, awaiting, published>>
    BY <1>4 DEF SendTrades
  <2> HIDE DEF f
  <2> QED
    BY <1>2, <2>1, <2>2
<1>5. ASSUME NEW i \in DOMAIN wire, Malform(i) PROVE Known' \subseteq Known /\ UNCHANGED <<venue, remote>>
  <2>1. /\ Len(wire') = Len(wire) /\ i \in Nat /\ Broken(wire'[i]) /\ wire' \in Seq(Frame)
        /\ \A j \in 1..Len(wire) : j # i => wire'[j] = wire[j]
        /\ UNCHANGED <<venue, remote, book, torn, awaiting, published>> /\ Gap' = Gap
    BY <1>5, MalformFacts DEF Malform, TypeOK, Gap
  <2>2. ASSUME NEW k \in DOMAIN wire', Whole(wire', Gap', k),
               wire'[k].kind = "snapshot" \/ (wire'[k].kind = "update" /\ venue \in Incremental)
        PROVE  Number(wire'[k].n, BookAt(wire', book', k)) \in Known
    <3>1. k \in DOMAIN wire /\ k # i /\ wire'[k] = wire[k] /\ k \in Nat
          /\ \A j \in 1..k : j # i => wire'[j] = wire[j]
      BY <1>1, <2>1, <2>2 DEF Broken
    <3>2. PICK gap \in BOOLEAN : gap = Gap
      BY <1>1
    <3>3. PICK v : v = wire'
      OBVIOUS
    <3>4. \A j \in 1..k : j # i => v[j] = wire[j]
      BY <3>1, <3>3
    <3>5. Broken(v[i]) /\ Whole(v, gap, k)
      BY <2>1, <2>2, <3>2, <3>3
    <3>6. SameBook(wire, v, book, gap, k)
      BY <2>1, <3>1, <3>4, <3>5, Malformed
    <3>7. k \in Numbered
      BY <2>2, <3>1, <3>2, <3>6 DEF Numbered, SameBook
    <3>8. BookAt(wire', book', k) = BookAt(wire, book, k)
      BY <2>1, <3>3, <3>6 DEF SameBook
    <3> QED
      BY <3>1, <3>7, <3>8, KnownNow
  <2> QED
    BY <2>1, <2>2, KnownNow, KnownNext
<1> QED
  BY <1>1, <1>2, <1>3, <1>4, <1>5 DEF SendBook, SendTrades

LEMMA ChangeKnown ==
    ASSUME TypeOK, TypeOK', Leads, NEW b \in Books, Change(b)
    PROVE  /\ venue' = venue /\ remote'.n = remote.n + 2 /\ remote.n \in Nat
           /\ \E h : Known' \subseteq Known \cup {Number(remote.n + 2, b), Number(remote.n + 1, h)}
<1> USE DEF exchange, adapter, history
<1>1. /\ wire \in Seq(Frame) /\ Gap \in BOOLEAN /\ remote.book \in SUBSET Levels /\ remote.n \in Nat
      /\ Len(wire) \in Nat /\ remote.n + 2 \in Nat
  BY DEF TypeOK, Gap
<1>2. /\ UNCHANGED <<venue, owes, up, book, torn, awaiting, published>>
      /\ remote' = [book |-> b, n |-> remote.n + 2] /\ b \in SUBSET Levels
      /\ Gap' = Gap
  BY ConstantsOK DEF Change, Gap
<1>3. Number(remote'.n, remote'.book) = Number(remote.n + 2, b)
  BY <1>2
<1>4. CASE wire' = wire
  <2>1. \A i \in DOMAIN wire' :
           /\ wire'[i].kind = "snapshot" \/ (wire'[i].kind = "update" /\ venue \in Incremental)
           /\ Whole(wire', Gap', i)
           => Number(wire'[i].n, BookAt(wire', book', i)) \in Known
    BY <1>2, <1>4, KnownNow DEF Numbered
  <2>2. PICK S : S = Known \cup {Number(remote.n + 2, b), Number(remote.n + 1, b)}
    OBVIOUS
  <2>3. Known' \subseteq S
    BY <1>2, <1>3, <2>1, <2>2, KnownNow, KnownNext
  <2> QED
    BY <1>1, <1>2, <2>2, <2>3
<1>5. CASE up /\ ~owes /\ venue \in Incremental
  <2>1. PICK u \in Update(b) : wire' = wire \o u
    BY <1>5 DEF Change
  <2>2. PICK h : h = BookAt(wire', book, Len(wire) + 1)
    OBVIOUS
  <2> PICK v : v = wire'
    OBVIOUS
  <2>5. Brings(v, b)
    BY <1>2, <2>1, UpdateLeads
  <2>6. v \in Seq(Frame) /\ Len(wire) <= Len(v)
    BY <2>5 DEF Brings
  <2>7. \A n \in 0..Len(wire) : BookAt(v, book, n) = BookAt(wire, book, n)
    BY <2>5 DEF Brings
  <2>8. \A n \in 0..Len(wire) : Whole(v, Gap, n) => Whole(wire, Gap, n)
    BY <2>5 DEF Brings
  <2>9. \A i \in 1..Len(wire) : v[i] = wire[i]
    BY <2>5 DEF Brings
  <2>10. \A i \in Len(wire) + 1..Len(v) :
            /\ \/ i = Len(v) /\ v[i].n = remote.n + 2
               \/ i = Len(wire) + 1 /\ v[i].n = remote.n + 1
            /\ Whole(v, Gap, i) => Whole(wire, Gap, Len(wire))
    BY <2>5 DEF Brings
  <2>11. BookAt(wire, book, Len(wire)) = remote.book => BookAt(v, book, Len(v)) = b
    BY <2>5 DEF Brings
  <2>3. PICK S : S = Known \cup {Number(remote.n + 2, b), Number(remote.n + 1, h)}
    OBVIOUS
  <2>4. ASSUME NEW i \in DOMAIN wire', Whole(wire', Gap', i),
               wire'[i].kind = "snapshot" \/ (wire'[i].kind = "update" /\ venue \in Incremental)
        PROVE  Number(wire'[i].n, BookAt(wire', book', i)) \in S
    <3>1. i \in 1..Len(wire) \/ i \in Len(wire) + 1..Len(wire')
      <4>1. i \in 1..Len(v) /\ Len(v) \in Nat
        BY <2>4, <2>6
      <4> QED
        BY <1>1, <2>6, <4>1
    <3>2. CASE i \in 1..Len(wire)
      <4>1. i \in 0..Len(wire) /\ i \in DOMAIN wire
        BY <1>1, <3>2
      <4>4. Whole(v, Gap, i)
        BY <1>2, <2>4
      <4>2. /\ BookAt(wire', book, i) = BookAt(wire, book, i)
            /\ Whole(wire, Gap, i) /\ wire'[i] = wire[i]
        BY <2>7, <2>8, <2>9, <3>2, <4>1, <4>4
      <4>3. i \in Numbered
        BY <2>4, <4>1, <4>2 DEF Numbered
      <4> QED
        BY <1>2, <2>3, <4>2, <4>3, KnownNow
    <3>3. CASE i \in Len(wire) + 1..Len(wire')
      <4>0. Whole(v, Gap, i)
        BY <1>2, <2>4
      <4>1. /\ \/ i = Len(wire') /\ wire'[i].n = remote.n + 2
               \/ i = Len(wire) + 1 /\ wire'[i].n = remote.n + 1
            /\ Whole(wire, Gap, Len(wire))
            /\ BookAt(wire, book, Len(wire)) = remote.book => BookAt(wire', book, Len(wire')) = b
        BY <2>10, <2>11, <3>3, <4>0
      <4>2. BookAt(wire', book, Len(wire')) = b
        BY <1>5, <4>1 DEF Leads
      <4> QED
        BY <1>2, <2>2, <2>3, <4>1, <4>2
    <3> QED
      BY <3>1, <3>2, <3>3
  <2>12. Known' \subseteq S
    BY <1>2, <1>3, <2>3, <2>4, KnownNow, KnownNext
  <2> QED
    BY <1>1, <1>2, <2>3, <2>12
<1>6. CASE up /\ ~owes /\ venue \notin Incremental
  <2> DEFINE f == BookFrame("snapshot", b, {}, remote.n + 2)
  <2>1. f \in Frame /\ f.kind = "snapshot" /\ f.add = b /\ f.n = remote.n + 2
    BY <1>1, <1>2 DEF BookFrame, Frame
  <2>2. wire' = Append(wire, f)
    BY <1>6 DEF Change
  <2> HIDE DEF f
  <2>3. PICK S : S = Known \cup {Number(remote.n + 2, b), Number(remote.n + 1, b)}
    OBVIOUS
  <2>4. ASSUME NEW i \in DOMAIN wire', Whole(wire', Gap', i),
               wire'[i].kind = "snapshot" \/ (wire'[i].kind = "update" /\ venue \in Incremental)
        PROVE  Number(wire'[i].n, BookAt(wire', book', i)) \in S
    <3>1. i \in DOMAIN wire \/ (i = Len(wire) + 1 /\ wire'[i] = f)
      BY <1>1, <2>1, <2>2
    <3>2. CASE i \in DOMAIN wire
      <4>1. i \in 0..Len(wire) /\ wire'[i] = wire[i]
        BY <1>1, <2>1, <2>2, <3>2
      <4>2. PICK gap \in BOOLEAN : gap = Gap
        BY <1>1
      <4>3. Whole(Append(wire, f), gap, i)
        BY <1>2, <2>2, <2>4, <4>2
      <4>4. Whole(wire, gap, i) /\ BookAt(wire', book, i) = BookAt(wire, book, i)
        BY <1>1, <2>1, <2>2, <4>1, <4>3, JoinedWhole, JoinedBefore
      <4>5. i \in Numbered
        BY <2>4, <3>2, <4>1, <4>2, <4>4 DEF Numbered
      <4> QED
        BY <1>2, <2>3, <4>1, <4>4, <4>5, KnownNow
    <3>3. CASE i = Len(wire) + 1 /\ wire'[i] = f
      <4>1. BookAt(wire', book, i) = b
        BY <1>1, <2>1, <2>2, <3>3, Joined DEF After
      <4> QED
        BY <1>2, <2>1, <2>3, <3>3, <4>1
    <3> QED
      BY <3>1, <3>2, <3>3
  <2>5. Known' \subseteq S
    BY <1>2, <1>3, <2>3, <2>4, KnownNow, KnownNext
  <2> QED
    BY <1>1, <1>2, <2>3, <2>5
<1> QED
  BY <1>4, <1>5, <1>6 DEF Change

\* A queue that was lost, or a step that changes nothing, brings nothing new.
LEMMA LostKnown ==
    ASSUME wire' = <<>>, UNCHANGED <<venue, remote, published>>
    PROVE  Known' \subseteq Known
<1>1. DOMAIN wire' = {}
  OBVIOUS
<1> QED
  BY <1>1, KnownNow, KnownNext

LEMMA IdleKnown ==
    ASSUME UNCHANGED vars
    PROVE  Known' \subseteq Known
<1>1. /\ UNCHANGED <<venue, remote, wire, book, published>> /\ Gap' = Gap
  BY DEF vars, exchange, adapter, history, Gap
<1>2. \A i \in DOMAIN wire' :
         /\ wire'[i].kind = "snapshot" \/ (wire'[i].kind = "update" /\ venue \in Incremental)
         /\ Whole(wire', Gap', i)
         => Number(wire'[i].n, BookAt(wire', book', i)) \in Known
  BY <1>1, KnownNow DEF Numbered
<1> QED
  BY <1>1, <1>2, KnownNow, KnownNext

LEMMA KnownType ==
    ASSUME TypeOK, NEW x \in Known
    PROVE  x.n \in Nat
<1>1. remote.n \in Nat /\ \A p \in published : p.sequence \in Nat
  BY DEF TypeOK
<1>2. ASSUME NEW i \in DOMAIN wire PROVE wire[i].n \in Nat
  <2>1. wire[i] \in Frame
    BY DEF TypeOK
  <2> QED
    BY <2>1 DEF Frame
<1> QED
  BY <1>1, <1>2 DEF Known, Numbered

LEMMA NextSilent == TypeOK /\ Silent /\ [Next]_vars => Silent'
<1> SUFFICES ASSUME TypeOK, Silent, [Next]_vars, ~up' PROVE wire' = <<>>
  BY DEF Silent
<1> USE DEF exchange, adapter, history
<1>1. CASE UNCHANGED vars
  BY <1>1 DEF vars, Silent
<1>2. ASSUME NEW b \in Books, Change(b) PROVE wire' = <<>>
  BY <1>2 DEF Change, Silent
<1>3. CASE SendBook \/ SendTrades
  BY <1>3 DEF SendBook, SendTrades
<1>4. ASSUME NEW i \in DOMAIN wire, Malform(i) PROVE wire' = <<>>
  BY <1>4 DEF Malform, Silent
<1>5. CASE Feed
  <2>1. CASE Connect
    BY <2>1 DEF Connect
  <2>2. CASE Ends
    BY <2>2 DEF Ends
  <2>3. CASE Resubscribes \/ Passes \/ Misses \/ Takes \/ IsSent
    <3>1. Consumes
      BY <2>3 DEF Resubscribes, Passes, Misses, Takes, IsSent
    <3> QED
      BY <3>1 DEF Consumes
  <2> QED
    BY <1>5, <2>1, <2>2, <2>3, FeedSteps
<1>6. CASE Disconnect \/ Restart
  BY <1>6 DEF Disconnect, Restart, Lost
<1> QED
  BY <1>1, <1>2, <1>3, <1>4, <1>5, <1>6 DEF Next

LEMMA NextNumbers ==
    ASSUME TypeOK, TypeOK', Silent, Leads, ~Counts, NumbersOneBook, [Next]_vars
    PROVE  NumbersOneBook' /\ venue' = venue
<1> USE DEF exchange, adapter, history
<1>1. remote.n \in Nat /\ \A x \in Known : x.n \in Nat
  BY KnownType DEF TypeOK
<1>2. ASSUME Known' \subseteq Known, UNCHANGED <<venue, remote>>
      PROVE  NumbersOneBook' /\ venue' = venue
  BY <1>2 DEF NumbersOneBook
<1>3. CASE UNCHANGED vars
  BY <1>2, <1>3, IdleKnown DEF vars
<1>4. ASSUME NEW b \in Books, Change(b) PROVE NumbersOneBook' /\ venue' = venue
  <2>1. PICK h : Known' \subseteq Known \cup {Number(remote.n + 2, b), Number(remote.n + 1, h)}
    BY <1>4, ChangeKnown
  <2>2. venue' = venue /\ remote'.n = remote.n + 2
    BY <1>4, ChangeKnown
  <2>3. PICK x1, x2 : /\ x1 = Number(remote.n + 1, h) /\ x1.n = remote.n + 1
                      /\ x2 = Number(remote.n + 2, b) /\ x2.n = remote.n + 2
    <3>1. /\ Number(remote.n + 1, h).n = remote.n + 1
          /\ Number(remote.n + 2, b).n = remote.n + 2
      BY DEF Number
    <3> QED
      BY <3>1
  <2>4. \A x \in Known' : x \in Known \/ x = x1 \/ x = x2
    BY <2>1, <2>3
  <2>5. \A x \in Known : x.n <= remote.n /\ x.n # remote.n + 1 /\ x.n # remote.n + 2
    BY <1>1 DEF NumbersOneBook
  <2>6. \A x \in Known' : x.n <= remote'.n
    BY <1>1, <2>2, <2>3, <2>4, <2>5
  <2>7. remote.n + 1 # remote.n + 2
    BY <1>1
  <2>8. \A x, y \in Known' : x.n = y.n => x.book = y.book
    BY <2>3, <2>4, <2>5, <2>7 DEF NumbersOneBook
  <2> QED
    BY <2>2, <2>6, <2>8 DEF NumbersOneBook
<1>5. CASE SendBook \/ SendTrades \/ \E i \in DOMAIN wire : Malform(i)
  BY <1>2, <1>5, VenueKnown
<1>6. CASE Feed
  <2>1. ~Resubscribes
    BY DEF Resubscribes, Resyncs, Counts
  <2> QED
    BY <1>2, <1>6, <2>1, FeedSteps, FeedKnown
<1>7. CASE Disconnect \/ Restart
  <2>1. wire' = <<>> /\ UNCHANGED <<venue, remote, published>>
    BY <1>7 DEF Disconnect, Restart, Lost
  <2> QED
    BY <1>2, <2>1, LostKnown
<1> QED
  BY <1>3, <1>4, <1>5, <1>6, <1>7 DEF Next

\* What a step does to the count of an adapter and to what is published.
LEMMA CountSteps ==
    ASSUME TypeOK, Counts, [Next]_vars
    PROVE  /\ venue' = venue /\ (restarted => restarted')
           /\ \/ /\ published' = published
                 /\ \/ id.generation < id'.generation
                    \/ id.generation = id'.generation /\ id.sequence <= id'.sequence
              \/ published' = published /\ venue = "coinbase" /\ restarted'
              \/ /\ id'.generation = id.generation /\ id'.sequence = id.sequence + 1
                 /\ published' \subseteq published \cup
                        {[generation |-> id'.generation, sequence |-> id'.sequence,
                          book |-> book']}
<1> USE DEF exchange, adapter, history
<1>1. /\ id \in [generation : Nat, sequence : Nat]
      /\ id.generation \in Nat /\ id.sequence \in Nat /\ venue \in {"kraken", "coinbase"}
  BY DEF TypeOK, Counts
<1>2. id.generation < id.generation + 1 /\ id.sequence <= id.sequence
  BY <1>1
<1>3. CASE UNCHANGED <<venue, restarted, published, id>>
  BY <1>2, <1>3
<1>4. ASSUME NEW b \in Books, Change(b) PROVE UNCHANGED <<venue, restarted, published, id>>
  BY <1>4 DEF Change
<1>5. ASSUME NEW i \in DOMAIN wire, Malform(i) PROVE UNCHANGED <<venue, restarted, published, id>>
  BY <1>5 DEF Malform
<1>6. CASE SendBook \/ SendTrades \/ Disconnect \/ UNCHANGED vars
  <2>1. UNCHANGED <<venue, restarted, published, id>>
    BY <1>6 DEF SendBook, SendTrades, Disconnect, Lost, vars
  <2> QED
    BY <1>3, <2>1
<1>7. CASE Restart
  <2>1. /\ venue' = venue /\ restarted' /\ published' = published
        /\ id'.generation = IF venue \in Resyncs THEN id.generation + 1 ELSE 0
    BY <1>7 DEF Restart, Lost
  <2> QED
    BY <1>1, <1>2, <2>1 DEF Resyncs
<1>8. CASE Connect
  <2>1. /\ UNCHANGED <<venue, restarted, published>>
        /\ id'.generation = id.generation + 1 \/ id' = id
    BY <1>8 DEF Connect, NewBook
  <2> QED
    BY <1>2, <2>1
<1>9. CASE Ends
  BY <1>9 DEF Ends
<1>10. CASE Resubscribes
  <2>1. /\ UNCHANGED <<venue, restarted, published>>
        /\ id'.generation = id.generation + 1
    BY <1>10 DEF Resubscribes, Consumes, NewBook
  <2> QED
    BY <1>2, <2>1
<1>11. CASE Passes \/ Misses
  <2>1. UNCHANGED <<venue, restarted, published, id>>
    BY <1>11 DEF Passes, Misses, Consumes
  <2> QED
    BY <1>3, <2>1
<1>12. CASE Takes
  <2>1. /\ UNCHANGED <<venue, restarted>> /\ id' = NextId(Head(wire))
        /\ published' = published \/ Publish(id', book')
    BY <1>12 DEF Takes, Consumes
  <2>2. id'.generation = id.generation /\ id'.sequence = id.sequence + 1
    BY <1>1, <2>1 DEF NextId
  <2> QED
    BY <2>1, <2>2 DEF Publish
<1>13. ~IsSent
  BY DEF IsSent, Counts, Incremental
<1> QED
  BY <1>3, <1>4, <1>5, <1>6, <1>7, <1>8, <1>9, <1>10, <1>11, <1>12, <1>13, FeedSteps
     DEF Next

LEMMA NextCounts ==
    ASSUME TypeOK, TypeOK', Counts, CountsOneBook, [Next]_vars
    PROVE  CountsOneBook' /\ venue' = venue
<1>1. /\ id.generation \in Nat /\ id.sequence \in Nat
      /\ id'.generation \in Nat /\ id'.sequence \in Nat
      /\ \A p \in published : p.generation \in Nat /\ p.sequence \in Nat
  BY DEF TypeOK
<1>2. venue' = venue /\ (restarted => restarted')
  BY CountSteps
<1>3. CASE venue = "coinbase" /\ restarted'
  BY <1>2, <1>3 DEF CountsOneBook, IdsDistinct
<1>4. CASE ~(venue = "coinbase" /\ restarted')
  <2>1. \A p \in published :
            \/ p.generation < id.generation
            \/ p.generation = id.generation /\ p.sequence <= id.sequence
    BY <1>2, <1>4 DEF CountsOneBook
  <2>2. \A x, y \in published :
            (x.generation = y.generation /\ x.sequence = y.sequence) => x.book = y.book
    BY <1>2, <1>4 DEF CountsOneBook, IdsDistinct
  <2>3. CASE /\ published' = published
             /\ \/ id.generation < id'.generation
                \/ id.generation = id'.generation /\ id.sequence <= id'.sequence
    <3>1. \A p \in published' :
              \/ p.generation < id'.generation
              \/ p.generation = id'.generation /\ p.sequence <= id'.sequence
      BY <1>1, <2>1, <2>3
    <3> QED
      BY <1>2, <2>2, <2>3, <3>1 DEF CountsOneBook, IdsDistinct
  <2>4. CASE /\ id'.generation = id.generation /\ id'.sequence = id.sequence + 1
             /\ published' \subseteq published \cup
                    {[generation |-> id'.generation, sequence |-> id'.sequence,
                      book |-> book']}
    <3>1. PICK e : /\ e.generation = id'.generation /\ e.sequence = id'.sequence
                   /\ \A p \in published' : p \in published \/ p = e
      BY <2>4
    <3>2. \A p \in published :
              \/ p.generation < id'.generation
              \/ p.generation = id'.generation /\ p.sequence < id'.sequence
      BY <1>1, <2>1, <2>4
    <3>3. \A p \in published' :
              \/ p.generation < id'.generation
              \/ p.generation = id'.generation /\ p.sequence <= id'.sequence
      BY <1>1, <3>1, <3>2
    <3>4. \A p \in published : ~(p.generation = e.generation /\ p.sequence = e.sequence)
      BY <1>1, <3>1, <3>2
    <3>5. \A x, y \in published' :
              (x.generation = y.generation /\ x.sequence = y.sequence) => x.book = y.book
      BY <2>2, <3>1, <3>4
    <3> QED
      BY <1>2, <3>3, <3>5 DEF CountsOneBook, IdsDistinct
  <2> QED
    BY <1>4, <2>3, <2>4, CountSteps
<1> QED
  BY <1>2, <1>3, <1>4

-----------------------------------------------------------------------------
(* What holds of every behaviour *)

BookInvariant == TypeOK /\ Silent /\ Leads /\ ShowsOwn /\ BringsLast /\ OneBookEach

LEMMA InitBooks == Init => BookInvariant
<1> SUFFICES ASSUME Init PROVE BookInvariant
  OBVIOUS
<1>1. TypeOK
  BY InitType
<1>2. ~up /\ wire = <<>> /\ published = {}
  BY DEF Init
<1>3. Known = {[n |-> remote.n, book |-> Normalized(remote.book)]}
  <2>1. Numbered = {}
    BY <1>2 DEF Numbered
  <2> QED
    BY <1>2, <2>1 DEF Known
<1>4. remote.n \in Nat
  BY <1>1 DEF TypeOK
<1>5. NumbersOneBook
  BY <1>3, <1>4 DEF NumbersOneBook
<1>6. CountsOneBook
  BY <1>2 DEF CountsOneBook, IdsDistinct
<1> QED
  BY <1>1, <1>2, <1>5, <1>6 DEF BookInvariant, Silent, Leads, ShowsOwn, BringsLast, OneBookEach

LEMMA NextBooks == BookInvariant /\ [Next]_vars => BookInvariant'
<1> SUFFICES ASSUME BookInvariant, [Next]_vars PROVE BookInvariant'
  OBVIOUS
<1> USE DEF BookInvariant
<1>1. TypeOK' /\ Silent' /\ Leads' /\ ShowsOwn' /\ BringsLast'
  BY NextType, NextSilent, NextLeads, NextShowsOwn, NextBringsLast
<1>2. CASE Counts
  <2>1. CountsOneBook' /\ Counts'
    BY <1>1, <1>2, NextCounts DEF OneBookEach, Counts
  <2> QED
    BY <1>1, <2>1 DEF OneBookEach
<1>3. CASE ~Counts
  <2>1. NumbersOneBook' /\ ~Counts'
    BY <1>1, <1>3, NextNumbers DEF OneBookEach, Counts
  <2> QED
    BY <1>1, <2>1 DEF OneBookEach
<1> QED
  BY <1>2, <1>3

\* Whatever was resynchronized, rejected, reconnected or restarted, and however
\* the sides of a change were split: once nothing is under way, the last book
\* published is the venue's.
THEOREM LatestIsShown == Spec => []ShowsLatest
<1>1. BookInvariant => ShowsLatest
  BY ShownIsLatest DEF BookInvariant
<1> QED
  BY <1>1, InitBooks, NextBooks, PTL DEF Spec

\* No identifier is used for two books, but for those of Coinbase after a
\* restart: consumers refuse no book as a duplicate of another.
THEOREM IdsStayDistinct == Spec => []IdsDistinct
<1>1. BookInvariant => IdsDistinct
  <2> SUFFICES ASSUME BookInvariant PROVE IdsDistinct
    OBVIOUS
  <2>1. CASE Counts
    BY <2>1 DEF BookInvariant, OneBookEach, CountsOneBook
  <2>2. CASE ~Counts
    <3>1. NumbersOneBook
      BY <2>2 DEF BookInvariant, OneBookEach
    <3>2. ASSUME NEW x \in published, NEW y \in published, x.sequence = y.sequence
          PROVE  x.book = y.book
      <4>1. /\ [n |-> x.sequence, book |-> x.book] \in Known
            /\ [n |-> y.sequence, book |-> y.book] \in Known
        BY KnownNow
      <4> QED
        BY <3>1, <3>2, <4>1 DEF NumbersOneBook
    <3> QED
      BY <3>2 DEF IdsDistinct
  <2> QED
    BY <2>1, <2>2
<1> QED
  BY <1>1, InitBooks, NextBooks, PTL DEF Spec

=============================================================================
