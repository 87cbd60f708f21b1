------------------------------ MODULE MarketViews ------------------------------
(***************************************************************************)
(* What the aggregator makes of trades and books (MarketAggregator): a bar *)
(* per venue and closed bucket, candles over several buckets, and one book *)
(* of all venues.  How entries are read, acknowledged and skipped, and the *)
(* trimming of old buckets, is module Aggregator's; here a trade has a     *)
(* price and a quantity, and a batch is folded, committed or lost.         *)
(*                                                                         *)
(* Sums of a bucket that behave as the volume does (the volumes of the two *)
(* sides, their difference) are left out, as is the spot price, which the  *)
(* service does not read back.                                             *)
(***************************************************************************)
EXTENDS CompositeBook, Buckets, Sequences, SequencesExt

CONSTANTS
    Trades,         \* the trades that may arrive, in any order
    CandleInterval, \* of the candles the dashboard is given
    Lateness,       \* allowed_lateness_ms
    Legacy,         \* sequences of trades an earlier version made candles of
    MaxReloads      \* bound: restarts of the process

Exchanges == DOMAIN Fee  \* the venues, numbered in the order of their names

Trade == [venue : Nat, at : Nat, price : Nat, quantity : Nat, n : Nat]

ASSUME ViewsConstantsOK ==
    /\ \A t \in Trades : t \in Trade /\ t.venue \in Exchanges /\ t.quantity > 0
    /\ \A s \in Legacy : s \in Seq(Trade) /\ \A i \in DOMAIN s :
          s[i].venue = 0 /\ s[i].quantity > 0 /\ s[i].at % Interval = 0
    /\ CandleInterval \in Nat \ {0} /\ CandleInterval % Interval = 0
    /\ {Lateness, MaxReloads} \subseteq Nat

VARIABLES
    buckets,    \* trade_buckets
    lastAt,     \* _last_trade_ts_ms
    settled,    \* _finalized_last_trade_ts_ms
    newest,     \* _max_trade_event_ts_ms
    closed,     \* _last_finalized_primitive_bucket
    bars,       \* stream:primitives:v1, and what the transaction adds to it
    folded,     \* history: the trades in buckets, in the order they came in
    saved,      \* Redis: the checkpoint, with the values bars and folded had
    archive,    \* GCS: the raw trades, whatever becomes of them here
    reloads

memory == <<buckets, lastAt, settled, newest, closed>>
output == <<bars, folded>>
viewsVars == <<memory, books, output, saved, archive, reloads>>

Window(start, interval) == (start \div interval) * interval

\* The values of f in order, each as often as f has it.
Ordered(f) ==
    [i \in 1 .. Cardinality(DOMAIN f) |->
        Min({x \in {f[k] : k \in DOMAIN f} :
                Cardinality({k \in DOMAIN f : f[k] <= x}) >= i})]

-----------------------------------------------------------------------------
(***************************************************************************)
(* What the views should be, of the trades of s in the places I.           *)
(***************************************************************************)
First(s, I) == Min({i \in I : \A j \in I : s[i].at <= s[j].at})
Final(s, I) == Max({i \in I : \A j \in I : s[i].at >= s[j].at})
Prices(s, I) == {s[i].price : i \in I}

Candle(s, I) ==
    [open |-> s[First(s, I)].price, close |-> s[Final(s, I)].price,
     high |-> Max(Prices(s, I)), low |-> Min(Prices(s, I)),
     volume |-> SumOf([i \in I |-> s[i].quantity]),
     notional |-> SumOf([i \in I |-> s[i].price * s[i].quantity])]

In(s, interval, w) == {i \in DOMAIN s : Window(s[i].at, interval) = w}
Of(s, v, b) == {i \in DOMAIN s : s[i].venue = v /\ Bucket(s[i].at) = b}

\* The bar of a venue's trades, all of bucket b.
ExactBar(s, v, b) ==
    LET I == Of(s, v, b)
    IN [venue |-> v, start |-> b, open |-> s[First(s, I)].price,
        high |-> Max(Prices(s, I)), low |-> Min(Prices(s, I)),
        close |-> s[Final(s, I)].price, prices |-> SumOf([i \in I |-> s[i].price]),
        volume |-> SumOf([i \in I |-> s[i].quantity]), count |-> Cardinality(I)]

\* The times between the trades of venue v that end in bucket b.
Gaps(s, v, b) ==
    LET times == Ordered([i \in {j \in DOMAIN s : s[j].venue = v} |-> s[i].at])
        ends == {i \in DOMAIN times : i > 1 /\ Bucket(times[i]) = b}
    IN [k \in 1 .. Cardinality(ends) |->
           times[Min(ends) + k - 1] - times[Min(ends) + k - 2]]

-----------------------------------------------------------------------------
(***************************************************************************)
(* Buckets.  A part sums up trades: those of a bucket, or of one venue.    *)
(***************************************************************************)
EmptyPart ==
    [volume |-> 0, notional |-> 0, prices |-> 0, count |-> 0,
     open |-> None, high |-> None, low |-> None, close |-> None,
     openAt |-> None, closeAt |-> None, fills |-> <<>>]

EmptyBucket ==
    [all |-> EmptyPart, venues |-> [v \in Exchanges |-> EmptyPart],
     stamps |-> [v \in Exchanges |-> <<>>]]

\* A part with one more trade, `gap' being the time since the venue's last one.
Added(part, t, gap) ==
    LET first == part.openAt = None \/ t.at < part.openAt
        last == part.closeAt = None \/ t.at >= part.closeAt
    IN [volume |-> part.volume + t.quantity,
        notional |-> part.notional + t.price * t.quantity,
        prices |-> part.prices + t.price,
        count |-> part.count + 1,
        open |-> IF first THEN t.price ELSE part.open,
        openAt |-> IF first THEN t.at ELSE part.openAt,
        high |-> IF part.high = None THEN t.price ELSE Max({part.high, t.price}),
        low |-> IF part.low = None THEN t.price ELSE Min({part.low, t.price}),
        close |-> IF last THEN t.price ELSE part.close,
        closeAt |-> IF last THEN t.at ELSE part.closeAt,
        fills |-> part.fills \o gap]

BucketWith(bs, t, last) ==
    LET old == IF Bucket(t.at) \in DOMAIN bs THEN bs[Bucket(t.at)] ELSE EmptyBucket
        gap == IF last[t.venue] # None /\ t.at >= last[t.venue]
               THEN <<t.at - last[t.venue]>> ELSE <<>>
    IN [all |-> Added(old.all, t, gap),
        venues |-> [old.venues EXCEPT ![t.venue] = Added(@, t, gap)],
        stamps |-> [old.stamps EXCEPT ![t.venue] = Append(@, t.at)]]

\* apply_trade, on trade_buckets.
WithTrade(bs, t, last) ==
    [b \in DOMAIN bs \cup {Bucket(t.at)} |->
        IF b = Bucket(t.at) THEN BucketWith(bs, t, last) ELSE bs[b]]

Differences(s) == [i \in 1 .. Len(s) - 1 |-> s[i + 1] - s[i]]

\* _venue_fill_intervals_for_bucket: the times between the venue's trades, the
\* first one since its last trade of an earlier bucket.  A bucket that is
\* finalized has no timestamps any more.
Fills(bs, last, v, b) ==
    LET stamps == bs[b].stamps[v]
        open == {p \in DOMAIN bs : p < b /\ bs[p].stamps[v] # <<>>}
        previous == IF open = {} THEN last[v] ELSE Max(ToSet(bs[Max(open)].stamps[v]))
    IN IF stamps = <<>> THEN bs[b].venues[v].fills
       ELSE IF previous = None THEN Differences(Ordered(stamps))
       ELSE Differences(<<previous>> \o Ordered(stamps))

Row(part, v, b, fills) ==
    [venue |-> v, start |-> b, open |-> part.open, high |-> part.high,
     low |-> part.low, close |-> part.close, prices |-> part.prices,
     volume |-> part.volume, count |-> part.count, fills |-> fills]

\* primitive_bars_for_bucket.
BarsFor(bs, last, b) ==
    {Row(bs[b].venues[v], v, b, Fills(bs, last, v, b)) :
        v \in {w \in Exchanges : bs[b].venues[w].count > 0}}

\* Mutant of Settled: the time of a venue's last trade is not kept.
SettledForgets(m, b) ==
    [buckets |-> [m.buckets EXCEPT ![b].stamps = [v \in Exchanges |-> <<>>],
         ![b].venues = [v \in Exchanges |->
             [@[v] EXCEPT !.fills = Fills(m.buckets, m.last, v, b)]]],
     last |-> m.last,
     bars |-> m.bars \cup BarsFor(m.buckets, m.last, b)]

\* The bars of a bucket are published, and mark_primitive_bucket_finalized.
Settled(m, b) ==
    [buckets |-> [m.buckets EXCEPT ![b].stamps = [v \in Exchanges |-> <<>>],
         ![b].venues = [v \in Exchanges |->
             [@[v] EXCEPT !.fills = Fills(m.buckets, m.last, v, b)]]],
     last |-> [v \in Exchanges |->
         IF m.buckets[b].stamps[v] = <<>> THEN m.last[v]
         ELSE Max(ToSet(m.buckets[b].stamps[v]))],
     bars |-> m.bars \cup BarsFor(m.buckets, m.last, b)]

\* Mutant of SettledAll: only the last bucket is closed.
SettledNewest(m, closing) == IF closing = {} THEN m ELSE Settled(m, Max(closing))

\* The buckets of `closing' are closed in order.
SettledAll(m, closing) ==
    LET after[n \in Nat] ==
            LET before == IF n = 0 THEN m ELSE after[n - 1]
            IN IF n \in closing THEN Settled(before, n) ELSE before
    IN IF closing = {} THEN m ELSE after[Max(closing)]

-----------------------------------------------------------------------------
(***************************************************************************)
(* Views of several buckets.                                               *)
(***************************************************************************)
Sum(bs, starts, field) ==
    SumOf([b \in starts |-> bs[b].all[field]])

\* One row for several buckets.
Merged(bs, starts) ==
    [open |-> bs[Min(starts)].all.open, close |-> bs[Max(starts)].all.close,
     high |-> Max({bs[b].all.high : b \in starts}),
     low |-> Min({bs[b].all.low : b \in starts}),
     volume |-> Sum(bs, starts, "volume"), notional |-> Sum(bs, starts, "notional")]

Starts(bs, interval, w) ==
    {b \in DOMAIN bs : Window(b, interval) = w /\ bs[b].all.volume > 0}

\* candle_snapshot.
Candles(bs, interval) ==
    LET windows == {w \in {Window(b, interval) : b \in DOMAIN bs} :
                       Starts(bs, interval, w) # {}}
    IN [w \in windows |-> Merged(bs, Starts(bs, interval, w))]

\* resampled_bars: the windows that have ended, with what candles do not have.
Resampled(bs, interval) ==
    LET ended == {w \in DOMAIN Candles(bs, interval) : w + interval <= Max(DOMAIN bs)}
    IN [w \in ended |->
           [candle |-> Candles(bs, interval)[w],
            count |-> Sum(bs, Starts(bs, interval, w), "count"),
            prices |-> Sum(bs, Starts(bs, interval, w), "prices"),
            venues |-> {v \in Exchanges : \E b \in Starts(bs, interval, w) :
                            bs[b].venues[v].count > 0}]]

\* primitive_bars, at the interval of a bucket: a venue has a row for every
\* bucket after its first one; where it did not trade the row before serves.
PrimitiveBars(bs) ==
    LET traded(v) == {b \in DOMAIN bs : bs[b].venues[v].count > 0}
        row(v, b) ==
            LET p == Max({q \in traded(v) : q <= b})
                part == bs[p].venues[v]
            IN IF p = b THEN Row(part, v, b, part.fills)
               ELSE [Row(part, v, b, <<>>) EXCEPT !.volume = 0, !.count = 0]
    IN UNION {{row(v, b) : b \in {n * Interval : n \in 0 .. Max(DOMAIN bs) \div Interval - 1}
                                     \ 0 .. Min(traded(v)) - 1} :
                 v \in {w \in Exchanges : traded(w) # {}}}

-----------------------------------------------------------------------------
(***************************************************************************)
(* The service.                                                            *)
(***************************************************************************)
Unknown == [v \in Exchanges |-> None]

NewestBucket(bs) == IF DOMAIN bs = {} THEN None ELSE Max(DOMAIN bs)

\* restore_candle_snapshot: the public candles of an earlier version have no
\* venues, no count and no times within the bucket.
Migrated(rows) ==
    [b \in DOMAIN rows |->
        [EmptyBucket EXCEPT !.all =
            [volume |-> rows[b].volume, notional |-> rows[b].notional, count |-> 1,
             prices |-> IF rows[b].volume = 0 THEN 0
                        ELSE rows[b].notional \div rows[b].volume,
             open |-> rows[b].open, high |-> rows[b].high, low |-> rows[b].low,
             close |-> rows[b].close, openAt |-> b, closeAt |-> b, fills |-> <<>>]]]

Kept ==
    [buckets |-> buckets, settled |-> settled, newest |-> newest, closed |-> closed,
     bars |-> bars, folded |-> folded]

\* The candles an earlier version published of trades s, whose times are lost.
LegacyRows(s) ==
    [b \in {s[i].at : i \in DOMAIN s} |-> Candle(s, {i \in DOMAIN s : s[i].at = b})]

ViewsInit ==
    /\ \E s \in Legacy :
        /\ folded = s
        /\ buckets = Migrated(LegacyRows(s))
    /\ lastAt = Unknown
    /\ settled = Unknown
    /\ newest = NewestBucket(buckets)
    /\ closed = IF newest = None THEN None ELSE newest - Interval
    /\ BookInit
    /\ bars = {}
    /\ saved = Kept
    /\ archive = {}
    /\ reloads = 0

ClosesThrough(max) == Bucket(max - Lateness) - Interval

Advances(bs, through) ==
    IF closed = None THEN through >= Min(DOMAIN bs) ELSE through > closed

\* _handle_trade: a trade that is not late is folded.  When that moves the
\* watermark over the end of buckets, they are closed in order.
HandleTrade(t) ==
    LET with == WithTrade(buckets, t, lastAt)
        max == Max({newest, t.at})
        through == ClosesThrough(max)
        lower == IF closed = None THEN Min(DOMAIN with) ELSE closed + Interval
        after == SettledAll([buckets |-> with, last |-> settled, bars |-> bars],
                            {b \in DOMAIN with : lower <= b /\ b <= through})
    IN
    /\ t \notin ToSet(folded)
    /\ closed # None => Bucket(t.at) > closed
    /\ folded' = Append(folded, t)
    /\ newest' = max
    /\ lastAt' = [lastAt EXCEPT ![t.venue] = IF @ = None \/ t.at >= @ THEN t.at ELSE @]
    /\ IF Advances(with, through)
       THEN /\ buckets' = after.buckets
            /\ settled' = after.last
            /\ bars' = after.bars
            /\ closed' = through
       ELSE /\ buckets' = with
            /\ UNCHANGED <<settled, bars, closed>>
    /\ archive' = archive \cup {t}
    /\ UNCHANGED <<books, saved, reloads>>

\* late_trade_dropped.
DropTrade(t) ==
    /\ t \notin archive
    /\ closed # None /\ Bucket(t.at) <= closed
    /\ archive' = archive \cup {t}
    /\ UNCHANGED <<memory, books, output, saved, reloads>>

\* The transaction of a batch: its output, the checkpoint and the watermark.
CommitViews ==
    /\ saved # Kept
    /\ saved' = Kept
    /\ UNCHANGED <<memory, books, output, archive, reloads>>

\* apply_book, on the books.
ApplyQuote(v, book) ==
    /\ BookArrives(v, book)
    /\ UNCHANGED <<memory, output, saved, archive, reloads>>

\* A book is older than freshness_ms.
Expire(v) ==
    /\ BookExpires(v)
    /\ UNCHANGED <<memory, output, saved, archive, reloads>>

\* Mutant of Reload: the times of the first and the last trade of a bucket are
\* not restored.
ReloadWithoutTimes ==
    /\ reloads < MaxReloads
    /\ reloads' = reloads + 1
    /\ buckets' = [b \in DOMAIN saved.buckets |->
           [saved.buckets[b] EXCEPT !.all.openAt = b, !.all.closeAt = b]]
    /\ settled' = saved.settled
    /\ newest' = saved.newest
    /\ closed' = saved.closed
    /\ bars' = saved.bars
    /\ folded' = saved.folded
    /\ lastAt' = Unknown
    /\ BooksLost
    /\ UNCHANGED <<saved, archive>>

\* The process is killed and starts again from the checkpoint; what its last
\* transaction did not commit did not happen.
Reload ==
    /\ reloads < MaxReloads
    /\ reloads' = reloads + 1
    /\ buckets' = saved.buckets
    /\ settled' = saved.settled
    /\ newest' = saved.newest
    /\ closed' = saved.closed
    /\ bars' = saved.bars
    /\ folded' = saved.folded
    /\ lastAt' = Unknown
    /\ BooksLost
    /\ UNCHANGED <<saved, archive>>

ViewsNext ==
    \/ \E t \in Trades : HandleTrade(t) \/ DropTrade(t)
    \/ \E v \in Exchanges : \E q \in Quotes[v] : ApplyQuote(v, q)
    \/ \E v \in Exchanges : Expire(v)
    \/ CommitViews
    \/ Reload

ViewsSpec == ViewsInit /\ [][ViewsNext]_viewsVars

-----------------------------------------------------------------------------
(***************************************************************************)
(* Properties.                                                             *)
(***************************************************************************)
\* The bars of the primitive stream are those of the trades that were folded, one
\* for each bucket up to the last closed one and venue that traded in it, in the
\* order of their times although they came in another, and on both sides of a
\* restart (apply_trade, primitive_bars_for_bucket, restore_candle_state).  Each
\* time between two trades of a venue is in one bar, that of the bucket it ends
\* in, whichever came first and whatever is closed by then (late and open buckets
\* in _venue_fill_intervals_for_bucket, and what a checkpoint keeps of them).
BarsExact ==
    LET of == {x \in Exchanges \X {Bucket(folded[i].at) : i \in DOMAIN folded} :
                  x[2] <= closed /\ Of(folded, x[1], x[2]) # {}}
        exact(r) == [f \in DOMAIN r \ {"fills"} |-> r[f]]
    IN /\ {exact(r) : r \in bars} = {ExactBar(folded, x[1], x[2]) : x \in of}
       /\ \A r \in bars : r.fills = Gaps(folded, r.venue, r.start)

\* Candles, of one bucket or of several, are those of all trades in them, the
\* ones an earlier version of the service made candles of included, and a longer
\* bar has their number and their venues (candle_snapshot, resampled_bars, and
\* the two ways a process starts with buckets).
CandlesExact ==
    \A interval \in {Interval, CandleInterval} :
        LET windows == {Window(folded[i].at, interval) : i \in DOMAIN folded}
            whole == Resampled(buckets, interval)
        IN /\ Candles(buckets, interval) =
                  [w \in windows |-> Candle(folded, In(folded, interval, w))]
           /\ \A w \in DOMAIN whole :
                LET I == In(folded, interval, w)
                    venues == {folded[i].venue : i \in I}
                IN 0 \notin venues =>
                       /\ whole[w].count = Cardinality(I)
                       /\ whole[w].prices = SumOf([i \in I |-> folded[i].price])
                       /\ whole[w].venues = venues
=============================================================================
