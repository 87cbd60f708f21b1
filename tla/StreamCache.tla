------------------------------ MODULE StreamCache ------------------------------
(***************************************************************************)
(* The cache of the newest entries of three Redis streams that the Kalshi  *)
(* callbacks of services/dashboard share: they run in threads of one       *)
(* process and take no lock, and each Redis command is a step.  What is    *)
(* made of the entries is module Dashboard's, so the names here are kept   *)
(* apart from those of the modules that this one is used with.             *)
(***************************************************************************)
EXTENDS Integers, Sequences

CONSTANTS
    Callbacks,  \* refresh_kalshi_monitor_data, refresh_kalshi_table_data
    Feeds,      \* bound: what the streams hold, and what may still come
    Ttl,        \* kalshi_cache_ttl_ms
    Began,      \* the clock at the start
    MaxNow      \* bound: the clock

Streams == {"tickers", "trades", "books"}
Order == <<"tickers", "trades", "books">>

ASSUME CacheConstantsOK ==
    /\ Ttl \in Nat \ {0} /\ {Began, MaxNow} \subseteq Nat
    /\ \A f \in Feeds :
          /\ f.past \in [Streams -> Seq([market : STRING, value : Nat, at : Nat])]
          /\ \A s \in Streams : \A i \in DOMAIN f.past[s] : f.past[s][i].at <= Began
          /\ f.feed \in Seq([stream : Streams, market : STRING, value : Nat])

VARIABLES
    now,
    feed,       \* what is still to come
    streams,    \* Redis: the streams, their entries with received_ts_ms
    cache,      \* _kalshi_cache
    thread      \* the state of each callback

cacheVars == <<now, feed, streams, cache, thread>>

Idle == [pc |-> "idle", now |-> 0, held |-> <<>>, shared |-> FALSE,
         ids |-> <<>>, upto |-> <<>>]

CacheInit ==
    /\ now = Began
    /\ \E f \in Feeds : feed = f.feed /\ streams = f.past
    /\ cache = <<>>
    /\ thread = [c \in Callbacks |-> Idle]

Arrive ==
    /\ feed # <<>>
    /\ feed' = Tail(feed)
    /\ streams' = [streams EXCEPT ![Head(feed).stream] =
                  Append(@, [market |-> Head(feed).market, value |-> Head(feed).value,
                             at |-> now])]
    /\ UNCHANGED <<now, cache, thread>>

Elapse ==
    /\ now < MaxNow
    /\ now' = now + 1
    /\ UNCHANGED <<feed, streams, cache, thread>>

At(c, pc) == thread[c].pc = pc
Becomes(c, t) == thread' = [thread EXCEPT ![c] = t]

\* The object a callback holds: the shared one, or one it replaced since.
Held(c) == IF thread[c].shared THEN cache ELSE thread[c].held

\* The time is taken, and the cache looked at.
Begin(c) ==
    /\ At(c, "idle")
    /\ Becomes(c, [Idle EXCEPT !.now = now, !.shared = cache # <<>>,
           !.pc = IF cache = <<>> THEN "ids"
                  ELSE IF now - cache.checked >= Ttl THEN "ids" ELSE "rows"])
    /\ UNCHANGED <<now, feed, streams, cache>>

\* XREVRANGE of one entry: _latest_stream_id, a stream after the other.  When one
\* has advanced, what was held is of no more use.
ReadId(c) ==
    LET t == thread[c]
        ids == Append(t.ids, Len(streams[Order[Len(t.ids) + 1]]))
    IN /\ At(c, "ids")
       /\ Becomes(c, IF Len(ids) < 3 THEN [t EXCEPT !.ids = ids]
                     ELSE IF Held(c) # <<>> /\ Held(c).ids = ids
                     THEN [t EXCEPT !.pc = "touch", !.ids = <<>>]
                     ELSE [t EXCEPT !.pc = "windows", !.ids = ids, !.shared = FALSE,
                                    !.held = <<>>])
       /\ UNCHANGED <<now, feed, streams, cache>>

\* XREVRANGE of a window: _stream_payloads.
ReadWindow(c) ==
    LET t == thread[c]
        upto == Append(t.upto, Len(streams[Order[Len(t.upto) + 1]]))
    IN /\ At(c, "windows")
       /\ Becomes(c, [t EXCEPT !.upto = upto,
              !.pc = IF Len(upto) < 3 THEN "windows" ELSE "store"])
       /\ UNCHANGED <<now, feed, streams, cache>>

\* The shared object is replaced; a callback that holds the one before keeps it.
Store(c) ==
    /\ At(c, "store")
    /\ cache' = [ids |-> thread[c].ids, upto |-> thread[c].upto, checked |-> thread[c].now]
    /\ thread' = [d \in Callbacks |->
           IF d = c THEN [Idle EXCEPT !.pc = "rows", !.now = thread[c].now, !.shared = TRUE]
           ELSE IF thread[d].shared
           THEN [thread[d] EXCEPT !.shared = FALSE, !.held = cache]
           ELSE thread[d]]
    /\ UNCHANGED <<now, feed, streams>>

\* Mutant of Touch: the entries are taken to be all there are by now.
TouchLate(c) ==
    /\ At(c, "touch")
    /\ IF thread[c].shared
       THEN /\ cache' = [cache EXCEPT !.checked = now]
            /\ Becomes(c, [thread[c] EXCEPT !.pc = "rows"])
       ELSE /\ Becomes(c, [thread[c] EXCEPT !.pc = "rows", !.held.checked = now])
            /\ UNCHANGED cache
    /\ UNCHANGED <<now, feed, streams>>

\* Nothing is new: the object that is held was checked.
Touch(c) ==
    /\ At(c, "touch")
    /\ IF thread[c].shared
       THEN /\ cache' = [cache EXCEPT !.checked = thread[c].now]
            /\ Becomes(c, [thread[c] EXCEPT !.pc = "rows"])
       ELSE /\ Becomes(c, [thread[c] EXCEPT !.pc = "rows", !.held.checked = thread[c].now])
            /\ UNCHANGED cache
    /\ UNCHANGED <<now, feed, streams>>

Return(c) ==
    /\ At(c, "rows")
    /\ Becomes(c, Idle)
    /\ UNCHANGED <<now, feed, streams, cache>>

\* A RedisError: an empty view.
RedisError(c) ==
    /\ thread[c].pc \in {"ids", "windows"}
    /\ Becomes(c, Idle)
    /\ UNCHANGED <<now, feed, streams, cache>>

CallbackStep(c) ==
    \/ Begin(c) \/ ReadId(c) \/ ReadWindow(c)
    \/ Store(c) \/ Touch(c) \/ Return(c) \/ RedisError(c)

CacheNext == Arrive \/ Elapse \/ \E c \in Callbacks : CallbackStep(c)

CacheSpec == CacheInit /\ [][CacheNext]_cacheVars

-----------------------------------------------------------------------------
(***************************************************************************)
(* Properties.                                                             *)
(***************************************************************************)
\* The callbacks that are about to return a view.
Returning == {c \in Callbacks : At(c, "rows")}

\* Two threads that refresh, touch and replace one cache, each with its own time
\* and none of them atomically, still show everything that was received up to
\* a time-to-live before the view was asked for (_kalshi_contract_rows: what was
\* stored last may be the older of two, and an object may be touched after it was
\* replaced).
FreshWithinTtl ==
    \A c \in Returning, i \in 1 .. 3 :
        \A k \in DOMAIN streams[Order[i]] :
            streams[Order[i]][k].at <= thread[c].now - Ttl => k <= Held(c).upto[i]
=============================================================================
