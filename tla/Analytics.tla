------------------------------ MODULE Analytics ------------------------------
(***************************************************************************)
(* The analytics service: cycles that read the spot price and the features *)
(* from Redis, price the contracts of one Kalshi event and keep a key with *)
(* a TTL for each, or withdraw the prices when an input is not usable.     *)
(*                                                                         *)
(* Time is kept as ages that stop growing where nothing distinguishes them *)
(* any more, so that behaviours go on for ever.  Prices and probabilities  *)
(* are left out; a plan holds the quotes that edges come from.  The        *)
(* volatility and status keys, the pricing stream and its channel, which   *)
(* the service does not read back, are left out too, and so is readiness.  *)
(***************************************************************************)
EXTENDS Integers, Sequences, FiniteSets, FiniteSetsExt

CONSTANTS
    Markets,        \* the contracts
    EventOf,        \* the event of each: the hour it expires at
    Inputs,         \* "spot" and "features"
    MaxAge,         \* spot_max_age_ms, feature_max_age_ms
    TickerMaxAge,   \* ticker_max_age_ms
    Skew,           \* future_skew_ms
    TTL,            \* of a price
    Refresh,        \* refresh_ms of the metadata
    PendingIdle,    \* min_idle_time of XAUTOCLAIM
    MaxLag,         \* bound: the time a cycle takes, with the pause after it
    MaxEntries,     \* bound: entries of stream:kalshi_tickers
    MaxFaults       \* bound: crashes and failed calls

ASSUME ConstantsOK ==
    /\ "features" \in Inputs
    /\ MaxAge \in [Inputs -> Nat]
    /\ {TickerMaxAge, Skew, TTL, Refresh, PendingIdle, MaxLag, MaxEntries,
        MaxFaults} \subseteq Nat
    /\ EventOf \in [Markets -> Nat \ {0}]

None == 0

VARIABLES
    input,      \* age of each input
    hour,       \* hours that have passed
    log,        \* stream:kalshi_tickers
    next,       \* Redis: last entry delivered to the group
    pend,       \* Redis: entries delivered and not acknowledged, with idle time
    price,      \* Redis: time left of each price key
    index,      \* Redis: members of market:pricing:v1:active
    pc,         \* the call the service makes next
    lag,        \* time since now_ms of the cycle
    seen,       \* hour at now_ms
    batch,      \* entries of the cycle
    tickers,    \* entry of each contract's ticker
    rest,       \* _cached metadata and its age
    meta,       \* the contracts of the cycle's metadata
    plan,       \* the contracts to price, with the quotes of their edges
    todo,       \* contracts to make unavailable
    published,  \* _published_tickers
    outcome,    \* history: how the last cycle ended
    loose,      \* history: prices of cycles that did not end, or of a crashed one
    torn,       \* history: prices set by a pipeline that did not reach ZADD
    faults      \* faults so far

upstream == <<input, hour>>
stream == <<log, next, pend>>
keys == <<price, index>>
locals == <<seen, batch, meta, plan, todo>>
cycle == <<lag, locals>>
memory == <<tickers, rest, published>>
history == <<outcome, loose, torn>>
vars == <<upstream, stream, keys, pc, cycle, memory, history, faults>>

Cap(i) == MaxAge[i] + MaxLag + 1
TickerCap == TickerMaxAge + MaxLag + 1
Least(a, b) == IF a < b THEN a ELSE b

Present == {m \in Markets : price[m] > 0}
NoPlan == [m \in {} |-> None]
\* The entries of a contract among the entries s; the newest of them, or None.
Newest(m, s) ==
    LET of == {i \in s : log[i].market = m} IN IF of = {} THEN None ELSE Max(of)

Init ==
    /\ input = [i \in Inputs |-> Cap(i)]
    /\ hour = 0
    /\ log = <<>>
    /\ next = 0
    /\ pend = [i \in {} |-> 0]
    /\ price = [m \in Markets |-> 0]
    /\ index = {}
    /\ pc = "down"
    /\ lag = 0
    /\ seen = 0
    /\ batch = {}
    /\ tickers = [m \in Markets |-> None]
    /\ rest = [markets |-> {}, age |-> Refresh]
    /\ meta = {}
    /\ plan = NoPlan
    /\ todo = {}
    /\ published = {}
    /\ outcome = "none"
    /\ loose = {}
    /\ torn = {}
    /\ faults = 0

(***************************************************************************)
(* Time and the services upstream.                                         *)
(***************************************************************************)
Tick ==
    /\ pc = "down" \/ lag < MaxLag
    /\ \E h \in {hour, hour + 1} :
           /\ hour' = h
           /\ h <= Max({EventOf[m] : m \in Markets})
    /\ lag' = Least(lag + 1, MaxLag)
    /\ input' = [i \in Inputs |-> Least(input[i] + 1, Cap(i))]
    /\ log' = [i \in DOMAIN log |->
                  [log[i] EXCEPT !.age = Least(@ + 1, TickerCap)]]
    /\ pend' = [i \in DOMAIN pend |-> Least(pend[i] + 1, PendingIdle)]
    /\ price' = [m \in Markets |-> IF price[m] > 0 THEN price[m] - 1 ELSE 0]
    /\ loose' = loose \cap Present'
    /\ torn' = torn \cap Present'
    /\ rest' = [rest EXCEPT !.age = Least(@ + 1, Refresh)]
    /\ UNCHANGED <<next, index, pc, locals, tickers, published, outcome,
                   faults>>

\* An input is written: market:spot:BTCUSDT:latest or the latest features.
Write(i) ==
    /\ input[i] > 0
    /\ input' = [input EXCEPT ![i] = 0]
    /\ UNCHANGED <<hour, stream, keys, pc, cycle, memory, history, faults>>

\* A quote of contract m, stamped by Kalshi a moment before it is in the stream.
Quote(m) ==
    /\ EventOf[m] > hour
    /\ Len(log) < MaxEntries
    /\ log' = Append(log, [market |-> m, age |-> 1])
    /\ UNCHANGED <<upstream, next, pend, keys, pc, cycle, memory, history, faults>>

(***************************************************************************)
(* The service.                                                            *)
(***************************************************************************)
\* What a cycle knows ends with it.
Forget ==
    /\ seen' = 0
    /\ batch' = {}
    /\ meta' = {}
    /\ plan' = NoPlan
    /\ todo' = {}

\* start: the newest ticker of each contract is in the stream.
Start ==
    /\ pc = "down"
    /\ pc' = "idle"
    /\ lag' = 0
    /\ tickers' = [m \in Markets |-> Newest(m, DOMAIN log)]
    /\ UNCHANGED <<upstream, stream, keys, seen, batch, meta, plan, todo, rest,
                   published, history, faults>>

Reclaimable == {i \in DOMAIN pend : pend[i] >= PendingIdle}

\* now_ms is taken, and consume_tickers claims what has been pending for long
\* and reads what is new; either replaces the tickers it has.
Consume ==
    LET new == next + 1 .. Len(log)
        ticker(m) ==
            IF Newest(m, new) # None THEN Newest(m, new)
            ELSE IF Newest(m, Reclaimable) # None THEN Newest(m, Reclaimable)
            ELSE tickers[m]
    IN
    /\ pc = "idle"
    /\ pc' = "inputs"
    /\ lag' = 0
    /\ seen' = hour
    /\ batch' = Reclaimable \cup new
    /\ next' = Len(log)
    /\ pend' = [i \in DOMAIN pend \cup new |->
                   IF i \in Reclaimable \cup new THEN 0 ELSE pend[i]]
    /\ tickers' = [m \in Markets |-> ticker(m)]
    /\ UNCHANGED <<upstream, log, keys, meta, plan, todo, rest, published,
                   history, faults>>

\* validate_fresh, at now_ms.
IsFresh(age, max) == age - lag <= max /\ age - lag >= -Skew
\* Mutant of InputsFresh: the ages are not looked at.
InputsUnchecked == TRUE

InputsFresh == \A i \in Inputs : IsFresh(input[i], MaxAge[i])

\* The inputs are fresh, and the forecast is made or the cached one serves.
ReadInputs ==
    /\ pc = "inputs"
    /\ InputsFresh
    /\ pc' = "metadata"
    /\ UNCHANGED <<upstream, stream, keys, cycle, memory, history, faults>>

Fault ==
    /\ faults < MaxFaults
    /\ faults' = faults + 1

\* PricingUnavailable: every published price is to be withdrawn.
Withdraws ==
    /\ pc = "inputs"
    /\ pc' = "withdraw"
    /\ todo' = published
    /\ UNCHANGED <<upstream, stream, keys, lag, seen, batch, meta, plan, memory,
                   history>>

\* An input is not fresh.
Unusable ==
    /\ ~InputsFresh
    /\ Withdraws
    /\ UNCHANGED faults

\* The model-serving service does not answer in time, or its answer is refused: it
\* is for other features or another model, or not four positive volatilities.
\* (That the cached forecast would do is not looked at.)
ForecastFails ==
    /\ InputsFresh
    /\ Fault
    /\ Withdraws

\* Mutant of Unavailable: the price stays until its TTL is over.
UnavailableMember(m) ==
    /\ price' = price
    /\ index' = index \ {m}
    /\ torn' = torn \ {m}

\* unavailable: the price goes, with its membership.
Unavailable(m) ==
    /\ price' = [price EXCEPT ![m] = 0]
    /\ index' = index \ {m}
    /\ torn' = torn \ {m}

Withdraw(m) ==
    /\ pc \in {"withdraw", "publish"}
    /\ m \in todo
    /\ todo' = todo \ {m}
    /\ Unavailable(m)
    /\ UNCHANGED <<upstream, stream, pc, lag, seen, batch, meta, plan, memory,
                   outcome, loose, faults>>

Acked == [i \in DOMAIN pend \ batch |-> pend[i]]

Close ==
    /\ pc = "withdraw"
    /\ todo = {}
    /\ pc' = "idle"
    /\ published' = {}
    /\ pend' = Acked
    /\ outcome' = "closed"
    /\ Forget
    /\ UNCHANGED <<upstream, log, next, keys, lag, tickers, rest, loose,
                   torn, faults>>

\* The metadata of the events that are open, cached for a while; an exception
\* gives none.
Metadata ==
    /\ pc = "metadata"
    /\ pc' = "retire"
    /\ IF rest.age < Refresh
       THEN /\ meta' = rest.markets
            /\ UNCHANGED <<rest, faults>>
       ELSE \/ /\ meta' = {m \in Markets : EventOf[m] > hour}
               /\ rest' = [markets |-> meta', age |-> 0]
               /\ faults' = faults
            \/ /\ Fault
               /\ meta' = {}
               /\ rest' = rest
    /\ UNCHANGED <<upstream, stream, keys, lag, seen, batch, plan, todo, tickers,
                   published, history>>

\* Tickers of an expired contract, or of an event without metadata.
Outdated ==
    {m \in Markets : tickers[m] # None /\
        \/ m \in meta /\ EventOf[m] <= seen
        \/ meta # {} /\ \A k \in meta : EventOf[k] # EventOf[m]}

Retire(m) ==
    /\ pc = "retire"
    /\ m \in Outdated
    /\ Unavailable(m)
    /\ tickers' = [tickers EXCEPT ![m] = None]
    /\ UNCHANGED <<upstream, stream, pc, cycle, rest, published,
                   outcome, loose, faults>>

\* _pricing_window: the contracts of the event with the newest ticker.  (An
\* event has no more contracts here than the window takes.)
Window ==
    LET candidates == {m \in meta : tickers[m] # None}
    IN {m \in candidates : \E k \in candidates :
            /\ EventOf[k] = EventOf[m]
            /\ \A j \in candidates : tickers[j] <= tickers[k]}

\* Mutant of InLastHour: the sign of the lifetime is wrong.
HasExpired(m) == EventOf[m] <= seen
\* _price: a contract has a price within its last hour, and edges if its quote is
\* fresh.  (Every quote here is valid.)
InLastHour(m) == EventOf[m] = seen + 1

\* Mutant of QuoteOf: the age of the quote is not looked at.
QuoteOfAnyAge(m) == tickers[m]
QuoteOf(m) ==
    IF IsFresh(log[tickers[m]].age, TickerMaxAge) THEN tickers[m] ELSE None

Price ==
    /\ pc = "retire"
    /\ Outdated = {}
    /\ pc' = "publish"
    /\ plan' = [m \in {k \in Window : InLastHour(k)} |-> QuoteOf(m)]
    /\ todo' = Window \ DOMAIN plan'
    /\ UNCHANGED <<upstream, stream, keys, lag, seen, batch, meta, memory, history,
                   faults>>

Prices(s) ==
    [m \in Markets |-> IF m \in s THEN TTL ELSE price[m]]

\* publish_prices: SET and ZADD for each contract.
Publish ==
    /\ pc = "publish"
    /\ todo = {}
    /\ pc' = "expire"
    /\ price' = Prices(DOMAIN plan)
    /\ index' = index \cup DOMAIN plan
    /\ torn' = torn \ DOMAIN plan
    /\ UNCHANGED <<upstream, stream, cycle, memory, outcome, loose, faults>>

\* expire_inactive: every member but the contracts just priced.
ExpireInactive ==
    /\ pc = "expire"
    /\ pc' = "finish"
    /\ price' = [m \in Markets |->
                    IF m \in index \ DOMAIN plan THEN 0 ELSE price[m]]
    /\ index' = index \cap DOMAIN plan
    /\ published' = DOMAIN plan
    /\ torn' = torn \ (index \ DOMAIN plan)
    /\ loose' = torn'
    /\ UNCHANGED <<upstream, stream, cycle, tickers, rest,
                   outcome, faults>>

Finish ==
    /\ pc = "finish"
    /\ pc' = "idle"
    /\ pend' = Acked
    /\ outcome' = "priced"
    /\ Forget
    /\ UNCHANGED <<upstream, log, next, keys, lag, tickers, rest,
                   published, loose, torn, faults>>

(***************************************************************************)
(* Failures.                                                               *)
(***************************************************************************)
\* A call raises, which ends the cycle: run logs it and starts another.
Fail ==
    /\ pc \notin {"down", "idle"}
    /\ Fault
    /\ pc' = "idle"
    /\ outcome' = "none"
    /\ loose' = loose \cup (Present \ published)
    /\ Forget
    /\ UNCHANGED <<upstream, stream, keys, lag, tickers, rest, published,
                   torn>>

\* The connection breaks within the pipeline of publish_prices: contracts s are
\* done, and m has its price but is no member.
PublishBreaks(s, m) ==
    /\ pc = "publish"
    /\ todo = {}
    /\ s \subseteq DOMAIN plan
    /\ m \in DOMAIN plan \ s
    /\ Fault
    /\ pc' = "idle"
    /\ price' = Prices(s \cup {m})
    /\ index' = index \cup s
    /\ outcome' = "none"
    /\ loose' = loose \cup ((Present \cup s \cup {m}) \ published)
    /\ torn' = (torn \ s) \cup ({m} \ index)
    /\ Forget
    /\ UNCHANGED <<upstream, stream, lag, tickers, rest, published>>

Crash ==
    /\ pc # "down"
    /\ Fault
    /\ pc' = "down"
    /\ tickers' = [m \in Markets |-> None]
    /\ rest' = [markets |-> {}, age |-> Refresh]
    /\ published' = {}
    /\ outcome' = "none"
    /\ loose' = Present
    /\ lag' = 0
    /\ Forget
    /\ UNCHANGED <<upstream, stream, keys, torn>>

Service ==
    \/ Start
    \/ Consume
    \/ ReadInputs
    \/ Unusable
    \/ \E m \in Markets : Withdraw(m) \/ Retire(m)
    \/ Close
    \/ Metadata
    \/ Price
    \/ Publish
    \/ ExpireInactive
    \/ Finish

Next ==
    \/ Tick
    \/ \E i \in Inputs : Write(i)
    \/ \E m \in Markets : Quote(m)
    \/ Service
    \/ ForecastFails
    \/ Fail
    \/ \E s \in SUBSET Markets, m \in Markets : PublishBreaks(s, m)
    \/ Crash

Spec == Init /\ [][Next]_vars

\* The service goes on with its cycles, and time passes.
FairSpec == Spec /\ WF_vars(Service) /\ WF_vars(Tick)

(***************************************************************************)
(* Properties.                                                             *)
(***************************************************************************)
\* An edge is computed from the newest quote that was delivered, although the
\* reclaiming of pending entries puts older quotes in the place of newer ones:
\* what is idle for so long is stale.
EdgesFromNewest ==
    pc = "publish" =>
        \A m \in DOMAIN plan : plan[m] \in {None, Newest(m, 1 .. next)}

\* A cycle leaves the prices it made and no other, and none if an input was not
\* usable.  What a cycle that failed or a process that crashed made is the
\* exception: one that failed closed does not know of it, and one that prices
\* only if it is still in the index.
WithdrawsOwn ==
    pc = "idle" =>
        /\ outcome = "closed" => Present \subseteq loose
        /\ outcome = "priced" => Present \subseteq published \cup torn

\* When an input is not written any more, no price remains; and none remains
\* of a contract that has expired.
Withdrawn ==
    /\ \A i \in Inputs : <>[](input[i] = Cap(i)) => <>[](Present = {})
    /\ \A m \in Markets : [](EventOf[m] <= hour => <>[](m \notin Present))

\* While the inputs stay fresh and a contract in its last hour has the newest
\* ticker, it is priced again and again, whatever failed before.
Favourable(m) ==
    /\ \A i \in Inputs : input[i] <= MaxAge[i]
    /\ EventOf[m] = hour + 1
    /\ log # <<>>
    /\ Newest(m, DOMAIN log) = Len(log)

Recovers == \A m \in Markets : <>[]Favourable(m) => []<>(m \in Present)
=============================================================================
