---------------------------- MODULE CompositeBook ----------------------------
(***************************************************************************)
(* The book of all venues that the aggregator makes of their fresh books   *)
(* (MarketAggregator.book_snapshot): price -> venue -> quantity, for each  *)
(* side, with the part of it netted where the sides cross.  Module         *)
(* MarketViews has it beside what is made of trades.                       *)
(***************************************************************************)
EXTENDS Integers, FiniteSets, FiniteSetsExt

CONSTANTS
    Quotes,     \* the books each venue may have
    PriceTick,  \* price_tick
    Fee         \* taker_fees of the venues, numbered in the order of names, in per cent

BookSide == {"bids", "asks"}

ASSUME BookConstantsOK ==
    /\ IsFiniteSet(DOMAIN Fee) /\ DOMAIN Fee \subseteq Nat \ {0}
    /\ Fee \in [DOMAIN Fee -> 0 .. 99]
    /\ PriceTick \in Nat \ {0}
    /\ \A v \in DOMAIN Fee : \A q \in Quotes[v], s \in BookSide :
          /\ IsFiniteSet(DOMAIN q[s]) /\ DOMAIN q[s] \subseteq Nat
          /\ q[s] \in [DOMAIN q[s] -> Nat \ {0}]

VARIABLE books      \* the books that are fresh, by venue

-----------------------------------------------------------------------------
\* Sums over finite sets of naturals: of f up to n, and of all of f.
SumTo(f) ==
    LET sum[n \in Nat] == (IF n = 0 THEN 0 ELSE sum[n - 1])
                          + (IF n \in DOMAIN f THEN f[n] ELSE 0)
    IN sum

SumOf(f) == IF DOMAIN f = {} THEN 0 ELSE SumTo(f)[Max(DOMAIN f)]

\* The effective price, to the tick: bids are rounded down and asks up.
Effective(p, v, s) ==
    IF s = "bids" THEN ((p * (100 - Fee[v])) \div (100 * PriceTick)) * PriceTick
    ELSE ((p * (100 + Fee[v]) + 100 * PriceTick - 1) \div (100 * PriceTick)) * PriceTick

\* _aggregate_side.
AggregateSide(active, s) ==
    LET at(v, p) == {q \in DOMAIN active[v][s] : Effective(q, v, s) = p}
        prices == UNION {{Effective(q, v, s) : q \in DOMAIN active[v][s]} :
                             v \in DOMAIN active}
    IN [p \in prices |-> [v \in DOMAIN active |->
           SumOf([q \in at(v, p) |-> active[v][s][q]])]]

Quantity(level) == SumOf(level)
Volume(side) == SumOf([p \in DOMAIN side |-> Quantity(side[p])])

\* Mutant of Reduced: every venue gives as much as it has.
ReducedEach(level, quantity) ==
    [v \in DOMAIN level |-> level[v] - Min({level[v], quantity})]

\* _reduce_level: the venues of a level give in the order of their names.
Reduced(level, quantity) ==
    [v \in DOMAIN level |->
        level[v] - Min({level[v], Max({0, quantity - SumTo(level)[v - 1]})})]

Matched(side, p, quantity) ==
    LET rest == Reduced(side[p], quantity) IN
    IF Quantity(rest) = 0 THEN [q \in DOMAIN side \ {p} |-> side[q]]
    ELSE [side EXCEPT ![p] = rest]

\* A round of the loop of _uncross: the best levels, when they cross, are reduced
\* by what they have in common.
Round(book) ==
    LET b == Max(DOMAIN book.bids)
        a == Min(DOMAIN book.asks)
        matched == Min({Quantity(book.bids[b]), Quantity(book.asks[a])})
    IN IF DOMAIN book.bids = {} \/ DOMAIN book.asks = {} THEN book
       ELSE IF b < a THEN book
       ELSE [bids |-> Matched(book.bids, b, matched), asks |-> Matched(book.asks, a, matched)]

\* _uncross: a round takes a level away, so there are no more of them than levels.
Uncross(bids, asks) ==
    LET after[n \in Nat] == IF n = 0 THEN [bids |-> bids, asks |-> asks]
                            ELSE Round(after[n - 1])
    IN after[Cardinality(DOMAIN bids) + Cardinality(DOMAIN asks)]

\* book_snapshot, of the fresh books, before it is cut to a depth.
BookSnapshot(active) ==
    Uncross(AggregateSide(active, "bids"), AggregateSide(active, "asks"))

-----------------------------------------------------------------------------
BookInit == books = <<>>

\* apply_book, on the books.
BookArrives(v, book) ==
    books' = [w \in DOMAIN books \cup {v} |-> IF w = v THEN book ELSE books[w]]

\* A book is older than freshness_ms.
BookExpires(v) ==
    /\ v \in DOMAIN books
    /\ books' = [w \in DOMAIN books \ {v} |-> books[w]]

\* The process starts again: no book is in the checkpoint.
BooksLost == books' = <<>>

BookNext ==
    \/ \E v \in DOMAIN Fee : BookExpires(v) \/ \E q \in Quotes[v] : BookArrives(v, q)
    \/ BooksLost

BookSpec == BookInit /\ [][BookNext]_books

-----------------------------------------------------------------------------
(***************************************************************************)
(* Property.                                                               *)
(***************************************************************************)
\* The composite book, of whichever venues are fresh, is not crossed; as much was
\* taken from one side as from the other, the best prices first and only where
\* the other side crosses them, and no venue has more than it quoted (_uncross,
\* _reduce_level: fees and ticks make the sides of two venues overlap).
NetsCrossed ==
    LET bids == AggregateSide(books, "bids")
        asks == AggregateSide(books, "asks")
        left == BookSnapshot(books)
        gone(side, rest) == {p \in DOMAIN side : p \notin DOMAIN rest \/ rest[p] # side[p]}
        within(side, rest) ==
            \A p \in DOMAIN rest, v \in DOMAIN books : rest[p][v] <= side[p][v]
    IN /\ \A b \in DOMAIN left.bids, a \in DOMAIN left.asks : b < a
       /\ Volume(bids) - Volume(left.bids) = Volume(asks) - Volume(left.asks)
       /\ within(bids, left.bids) /\ within(asks, left.asks)
       /\ \A p \in gone(bids, left.bids) :
            /\ \E a \in DOMAIN asks : a <= p
            /\ \A q \in DOMAIN left.bids : q <= p
       /\ \A p \in gone(asks, left.asks) :
            /\ \E b \in DOMAIN bids : b >= p
            /\ \A q \in DOMAIN left.asks : q >= p
=============================================================================
