------------------------------- MODULE BatchBars -------------------------------
(***************************************************************************)
(* The bars that services/batch_etl makes of the raw trades in GCS         *)
(* (run_hourly_resampling.py, build_resampled_market_data.py), beside      *)
(* those the aggregator made of the same trades as they came in: models    *)
(* are trained on the first and served with the second.                    *)
(*                                                                         *)
(* A job reads the raw files of an hour and of the one before it, by the   *)
(* hour of a trade's own time.  The files are complete when it runs, and   *)
(* both kinds of them, trades and books, exist.  Books are left out.       *)
(***************************************************************************)
EXTENDS MarketViews

CONSTANT Hour   \* a source partition

ASSUME HourOK == Hour \in Nat \ {0} /\ Hour % Interval = 0

\* _load_venue_events: the trades of venue v that the job for hour h reads.
Loaded(v, h) == {t \in archive : t.venue = v /\ h - Hour <= t.at /\ t.at < h + Hour}

\* _set_time_index: trades of one time are in any order.
Sorted(trades) ==
    {s \in SetToSeqs(trades) : \A i, j \in DOMAIN s : i < j => s[i].at <= s[j].at}

\* The trades of s in bucket b, each with its place.
Places(s, b) == {i \in DOMAIN s : Bucket(s[i].at) = b}

\* Mutant of FillTimes: a bucket starts with no trade before it.
FillTimesApart(s, b) ==
    LET from == Min(Places(s, b)) + 1
    IN [k \in 1 .. Max(Places(s, b)) - from + 1 |-> s[from + k - 1].at - s[from + k - 2].at]

\* dt_fill_ms, of the trades of bucket b: the first trade that is read has none.
FillTimes(s, b) ==
    LET from == Max({2, Min(Places(s, b))})
    IN [k \in 1 .. Max(Places(s, b)) - from + 1 |-> s[from + k - 1].at - s[from + k - 2].at]

\* A bucket's row before rows are filled in.
Traded(v, s, b) ==
    LET in == SubSeq(s, Min(Places(s, b)), Max(Places(s, b)))
        prices == {in[i].price : i \in DOMAIN in}
    IN [venue |-> v, start |-> b, open |-> Head(in).price, close |-> in[Len(in)].price,
        high |-> Max(prices), low |-> Min(prices),
        prices |-> FoldLeft(LAMBDA p, t : p + t.price, 0, in),
        volume |-> FoldLeft(LAMBDA q, t : q + t.quantity, 0, in),
        count |-> Len(in), fills |-> FillTimes(s, b)]

\* _resample_events on trades s: a row for every bucket of the two hours.  Where
\* there was no trade prices are carried over, flows are zero and nothing else
\* is known.
ResampleEvents(v, h, s) ==
    LET grid == {b \in h - Hour .. h + Hour - 1 : b % Interval = 0}
        row(b) ==
            LET known == {q \in grid : q <= b /\ Places(s, q) # {}}
                last == Traded(v, s, Max(known))
            IN IF Places(s, b) # {} THEN last
               ELSE IF known # {}
               THEN [last EXCEPT !.start = b, !.prices = None, !.volume = 0, !.count = 0,
                                 !.fills = <<>>]
               ELSE [Row(EmptyPart, v, b, <<>>) EXCEPT !.prices = None]
    IN {row(b) : b \in grid}

\* run_hourly: what the job for hour h may write of venue v.
RunHourly(v, h) ==
    {{r \in ResampleEvents(v, h, s) : h <= r.start /\ r.start < h + Hour} :
        s \in Sorted(Loaded(v, h))}

-----------------------------------------------------------------------------
(***************************************************************************)
(* Properties.                                                             *)
(***************************************************************************)
\* Once an hour is over, and when the aggregator dropped no trade of a venue as
\* late, the bars it published are those the batch job makes of the raw trades, up
\* to the order of trades of one time, and prices are carried over alike.  They
\* differ in one thing: the job does not know the last trade before the two hours
\* it reads, and so lacks one time between trades when the venue was silent for
\* the whole first one of them.
LiveMatchesBatch ==
    LET hours == {h \in 0 .. closed : h % Hour = 0 /\ h + Hour <= closed + Interval}
    IN \A h \in hours, v \in Exchanges :
        LET read == Loaded(v, h)
            live == {r \in bars : r.venue = v /\ h <= r.start /\ r.start < h + Hour}
            silent == \A t \in read : t.at >= h
            first(r) == \A q \in live : r.start <= q.start
            known(r) == \E t \in archive : t.venue = v /\ t.at < h - Hour
            asRead(r) == IF silent /\ first(r) /\ known(r)
                         THEN [r EXCEPT !.fills = Tail(@)] ELSE r
            carried == {[r EXCEPT !.prices = None] : r \in PrimitiveBars(buckets)}
        IN {t \in archive : t.venue = v} \subseteq ToSet(folded) =>
               \E rows \in RunHourly(v, h) :
                   /\ {asRead(r) : r \in live} = {r \in rows : r.count > 0}
                   /\ {r \in rows : r.count = 0 /\ r.open # None} \subseteq carried
=============================================================================
