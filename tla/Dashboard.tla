------------------------------- MODULE Dashboard -------------------------------
(***************************************************************************)
(* services/dashboard: the Kalshi table and the Kalshi monitor.  A view is *)
(* what one of their callbacks returns: the rows of the contracts about    *)
(* the spot, from the cached entries of module StreamCache, whose          *)
(* behaviours are those of the service.                                    *)
(*                                                                         *)
(* A quote is its number, a trade the price, quantity and side it shows.   *)
(* The trimming of the streams, the prices of the analytics service that   *)
(* rows are joined with, and the panels of spot, candles and volatility    *)
(* are left out.                                                           *)
(***************************************************************************)
EXTENDS StreamCache, FiniteSets, SequencesExt

CONSTANTS
    EventTicker,    \* the event of each market
    Strike,         \* the strike of each market, NoValue when its name has none
    Name,           \* the place of each market in the order of their names
    WindowSize,     \* the count each stream is read with
    DefaultMaxAge,  \* DEFAULT_MAX_AGE_MS
    Spots,          \* spot prices the browser may send, NoValue before it has one
    Reach           \* lower and upper of select_contract_window

NoValue == -1
Tickers == DOMAIN EventTicker

ASSUME DashboardConstantsOK ==
    /\ IsFiniteSet(Tickers)
    /\ Strike \in [Tickers -> Nat \cup {NoValue}] /\ Spots \subseteq Nat \cup {NoValue}
    /\ Name \in [Tickers -> Nat] /\ \A m, n \in Tickers : Name[m] = Name[n] => m = n
    /\ WindowSize \in Nat \ {0} /\ {DefaultMaxAge, Reach} \subseteq Nat
    /\ \A f \in Feeds :
          /\ \A s \in Streams : \A i \in DOMAIN f.past[s] : f.past[s][i].market \in Tickers
          /\ \A i \in DOMAIN f.feed : f.feed[i].market \in Tickers

-----------------------------------------------------------------------------
(***************************************************************************)
(* contract_rows and select_contract_window.  Of each stream `fresh' has   *)
(* the places of the entries they look at; the newest is the last of them. *)
(***************************************************************************)
\* The last entries of the first `upto'.
StreamPayloads(upto) == Max({1, upto - WindowSize + 1}) .. upto

\* Those of s that are not too old.
Fresh(s, upto, at) == {k \in StreamPayloads(upto) : at - s[k].at <= DefaultMaxAge}

\* _active_event: the event of the newest entry, the first of them when the
\* streams are gone through in order, each from its end.
ActiveEvent(entries, fresh) ==
    LET times == UNION {{entries[s][k].at : k \in fresh[s]} : s \in Streams}
        newest(s) == {k \in fresh[s] : entries[s][k].at = Max(times)}
        first == Order[Min({i \in 1 .. 3 : newest(Order[i]) # {}})]
    IN IF times = {} THEN NoValue ELSE EventTicker[entries[first][Max(newest(first))].market]

OfMarket(s, K, m) == {k \in K : s[k].market = m}

\* Mutant of Shown: a repeated trade is the one that is shown.
ShownRepeated(s, K) == s[Max(K)]

\* Of a market's trades, the oldest of those that look like the newest one.
Shown(s, K) ==
    LET other == {k \in K : s[k].value # s[Max(K)].value}
    IN s[Min({k \in K : \A j \in other : j < k})]

\* A row: the market's quote, its trade, and the time its AGE counts from.
Row(m, entries, fresh) ==
    LET of(s) == OfMarket(entries[s], fresh[s], m)
        quote == entries["tickers"][Max(of("tickers"))]
        seen == {quote.at} \cup (IF of("books") = {} THEN {}
                                 ELSE {entries["books"][Max(of("books"))].at})
        shown == Shown(entries["trades"], of("trades"))
    IN [market |-> m, quote |-> quote.value,
        trade |-> IF of("trades") = {} THEN NoValue ELSE shown.value,
        since |-> IF of("trades") = {} THEN Max(seen) ELSE shown.at]

\* Rows are sorted by strike, those without one last, and by name.
Key(r) ==
    IF Strike[r.market] = NoValue THEN <<1, 0, Name[r.market]>>
    ELSE <<0, Strike[r.market], Name[r.market]>>

Before(r, q) ==
    \E i \in 1 .. 3 : Key(r)[i] < Key(q)[i] /\ \A j \in 1 .. i - 1 : Key(r)[j] = Key(q)[j]

ContractRows(entries, fresh) ==
    LET event == ActiveEvent(entries, fresh)
        quoted == {m \in Tickers : /\ EventTicker[m] = event
                                   /\ OfMarket(entries["tickers"], fresh["tickers"], m) # {}}
        rows == {Row(m, entries, fresh) : m \in quoted}
    IN [i \in 1 .. Cardinality(rows) |->
           CHOOSE r \in rows : Cardinality({q \in rows : Before(q, r)}) = i - 1]

Distance(x, y) == IF x >= y THEN x - y ELSE y - x

\* Without a spot price the contract nearest to a price of a half is the middle
\* one; a quote is not a price here, so it may be any.
SelectContractWindow(rows, spot, middle) ==
    LET struck == {i \in DOMAIN rows : Strike[rows[i].market] # NoValue}
        nearest == {i \in struck : \A j \in struck :
                       Distance(Strike[rows[i].market], spot)
                           <= Distance(Strike[rows[j].market], spot)}
        atm == IF spot # NoValue THEN Min(nearest)
               ELSE IF middle \in struck THEN middle ELSE Min(struck)
    IN IF struck = {} THEN rows
       ELSE SubSeq(rows, Max({1, atm - Reach}), Min({Len(rows), atm + Reach}))

-----------------------------------------------------------------------------
\* How many entries a stream had when its window was read.
Upto(c, s) == Held(c).upto[CHOOSE i \in 1 .. 3 : Order[i] = s]

\* What the callback returns, for the time it began at.
RowsOf(c) ==
    ContractRows(streams, [s \in Streams |-> Fresh(streams[s], Upto(c, s), thread[c].now)])

View(c, spot, middle) == SelectContractWindow(RowsOf(c), spot, middle)

-----------------------------------------------------------------------------
(***************************************************************************)
(* Properties.                                                             *)
(***************************************************************************)
\* A row has the newest quote of its market, its newest trade, and the time since
\* that trade first showed: repeated trades, quotes and books do not reset it
\* (contract_rows).  All rows are of one event, that of a newest entry; every
\* market of it with a quote has one; and the contract nearest to the spot is
\* shown.  A stream with more than a window of entries since the oldest that counts
\* is the exception: there a market may be missing, and a trade look younger.
RowsRight ==
    \A c \in Returning :
        LET recent(s) == {k \in 1 .. Upto(c, s) :
                             thread[c].now - streams[s][k].at <= DefaultMaxAge}
            whole(s) == \A k \in recent(s) : k > Upto(c, s) - WindowSize
            of(s, m) == OfMarket(streams[s], recent(s), m)
            all == UNION {{streams[s][k] : k \in recent(s)} : s \in Streams}
            newest == {e \in all : \A f \in all : f.at <= e.at}
            trade(k) == streams["trades"][k]
            since(K) == Min({k \in K : \A j \in K : k <= j => trade(j).value = trade(Max(K)).value})
            rows == ToSet(RowsOf(c))
        IN /\ \A r \in rows :
                LET trades == of("trades", r.market)
                IN /\ r.quote = streams["tickers"][Max(of("tickers", r.market))].value
                   /\ trades # {} /\ whole("trades") =>
                        r.trade = trade(Max(trades)).value /\ r.since = trade(since(trades)).at
           /\ (\A s \in Streams : whole(s)) /\ newest # {} =>
                \E e \in newest :
                    {r.market : r \in rows} = {m \in Tickers :
                        EventTicker[m] = EventTicker[e.market] /\ of("tickers", m) # {}}
           /\ \A spot \in Spots \ {NoValue} :
                LET part == ToSet(View(c, spot, 1))
                    distance(r) == Distance(Strike[r.market], spot)
                IN \A r \in rows \ part : Strike[r.market] # NoValue =>
                    \E q \in part : Strike[q.market] # NoValue /\ distance(q) <= distance(r)
=============================================================================
