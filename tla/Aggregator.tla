----------------------------- MODULE Aggregator -----------------------------
(***************************************************************************)
(* The trade path of services/aggregator: one process that reads the trade *)
(* stream through a Redis consumer group, folds the trades into 10-second  *)
(* event-time buckets, closes buckets behind a watermark, and commits the  *)
(* closed bars, its checkpoint and the acknowledgements in one MULTI/EXEC. *)
(* The process may be killed at any point and is restarted by its          *)
(* Deployment (one replica, Recreate), so there is never a second one.     *)
(*                                                                         *)
(* A stream entry is named by its position.  A bucket's totals are a       *)
(* function of the entries folded into it, so the model keeps, instead of  *)
(* sums, how often each entry was folded.  Event times are in units of     *)
(* which Interval make one bucket.                                         *)
(***************************************************************************)
EXTENDS Buckets, Integers, Sequences, FiniteSets

CONSTANTS Venues,          \* venues that publish trades
          Configured,      \* settings.aggregation_venues
          AllowedLateness, \* settings.allowed_lateness_ms
          History,         \* settings.history_ms
          ReplayMaxAge,    \* settings.replay_max_age_ms, in ticks
          PendingIdle,     \* settings.pending_idle_ms, in ticks
          ReadCount,       \* settings.read_count
          Timestamps,      \* bound: event times of trades
          BookTimes,       \* bound: event times of books
          BookDelays,      \* bound: publication minus event time of a book
          Kinds,           \* bound: the kinds of entry that are published
          MaxEntries,      \* bound: entries published
          MaxBooks,        \* bound: books applied in one process life
          MaxRestarts      \* bound: kills of the process

ASSUME ConstantsOK ==
    /\ Configured \subseteq Venues
    /\ AllowedLateness \in Nat /\ History \in Nat
    /\ ReplayMaxAge \in Nat /\ PendingIdle \in Nat /\ ReadCount \in Nat \ {0}
    /\ Timestamps \subseteq Nat /\ BookTimes \subseteq Nat /\ BookDelays \subseteq Nat
    /\ Kinds \subseteq {"trade", "bad", "poison"}
    /\ MaxEntries \in Nat /\ MaxBooks \in Nat /\ MaxRestarts \in Nat

NoGroup == -1  \* the consumer group does not exist yet
Ids == 1..MaxEntries

\* An entry: "trade" parses, "bad" raises ValueError in _dec, "poison" raises
\* what _process_entries does not catch (an unparsable decimal, no venue).
Entry == [event: Ids, kind: Kinds, ts: Timestamps, venue: Venues]

VARIABLES
    \* Redis: the trade stream and the group's cursor and pending entries list
    stream, lastDelivered, pending,
    age,         \* ticks since publication, up to ReplayMaxAge + 1
    idle,        \* ticks since delivery, up to PendingIdle
    ckpt,        \* candle_state and primitive_watermark; NoState: no such keys
    primitives,  \* stream:primitives:v1, one element per closing of buckets
    \* the process
    pc,          \* the await the trade task is at, "handle" between two
    replay,      \* the batch comes from XAUTOCLAIM
    batch,       \* entries of the batch still to handle
    pipe,        \* the buffered MULTI/EXEC
    mem,         \* MarketAggregator and the two watermarks
    restarts,
    \* history variables, read by no action
    tried,       \* entries ever folded into some process's memory
    applied,     \* entries whose fold was committed
    horizon      \* the latest bucket start that trimmed trade_buckets

redis == <<lastDelivered, pending, idle, ckpt, primitives>>
task == <<pc, replay, batch, pipe, mem>>
history == <<tried, applied, horizon>>
vars == <<stream, age, redis, task, restarts, history>>

-----------------------------------------------------------------------------
(* MarketAggregator *)

EntryBucket(i) == Bucket(stream[i].ts)
Held(held) == {i \in Ids : held[i] > 0}
TradeBuckets(held) == {EntryBucket(i) : i \in Held(held)}

Empty == [i \in Ids |-> 0]
NoState == [held |-> Empty, maxTs |-> None, last |-> None]
FreshMemory == [state |-> NoState, seen |-> {}, books |-> {}]
EmptyPipe == [groups |-> <<>>, acks |-> {}, writes |-> FALSE,
              folded |-> {}, ckpt |-> NoState]

\* _trim_buckets: drops whole buckets older than history_ms before `current'.
TrimBuckets(held, current) ==
    [i \in Ids |-> IF i \in Held(held) /\ EntryBucket(i) < current - History
                   THEN 0 ELSE held[i]]

\* _book_at_or_before: the book of the latest book bucket that starts before
\* `end', as the set of its publication time; {} when there is none.
BookAtOrBefore(books, v, end) ==
    LET candidates == {k \in books : k.venue = v /\ k.bucket < end}
    IN {k.pub : k \in {c \in candidates : \A o \in candidates : o.bucket <= c.bucket}}

\* primitive_bars_for_bucket, for one venue.
BarFor(held, books, b, v) ==
    [bucket |-> b, venue |-> v,
     trades |-> [i \in Ids |-> IF /\ i \in Held(held)
                                  /\ EntryBucket(i) = b /\ stream[i].venue = v
                               THEN held[i] ELSE 0],
     book |-> BookAtOrBefore(books, v, b + Interval)]

\* ... and for every venue with trades, in every closed bucket.
BarsOf(held, books, closed) ==
    {BarFor(held, books, EntryBucket(j), stream[j].venue) :
        j \in {k \in Held(held) : EntryBucket(k) \in closed}}

-----------------------------------------------------------------------------

Init ==
    /\ stream = <<>> /\ age = Empty
    /\ lastDelivered = NoGroup /\ pending = {} /\ idle = Empty
    /\ ckpt = NoState /\ primitives = <<>>
    /\ pc = "down" /\ replay = FALSE /\ batch = {}
    /\ pipe = EmptyPipe /\ mem = FreshMemory
    /\ restarts = 0
    /\ tried = {} /\ applied = {} /\ horizon = 0

-----------------------------------------------------------------------------
(* The environment: ingestion appends to the stream, time passes. *)

Append1(e) ==
    /\ Len(stream) < MaxEntries
    /\ stream' = Append(stream, e)
    /\ UNCHANGED <<age, redis, task, restarts, history>>

Publish(k, ts, v) ==
    Append1([event |-> Len(stream) + 1, kind |-> k, ts |-> ts, venue |-> v])

\* The publisher retries an XADD whose reply was lost: same event, new entry.
Republish(i) == Append1(stream[i])

\* A tick moves every clock the code compares, each up to the value from which
\* the comparison no longer changes.
Tick ==
    /\ age' = [i \in Ids |-> IF i <= Len(stream) /\ age[i] <= ReplayMaxAge
                              THEN age[i] + 1 ELSE age[i]]
    /\ idle' = [i \in Ids |-> IF i \in pending /\ idle[i] < PendingIdle
                               THEN idle[i] + 1 ELSE idle[i]]
    /\ <<age, idle>>' # <<age, idle>>
    /\ UNCHANGED <<stream, lastDelivered, pending, ckpt, primitives, task,
                   restarts, history>>

-----------------------------------------------------------------------------
(* The life of the process *)

Die ==
    /\ pc' = "down" /\ replay' = FALSE /\ batch' = {}
    /\ pipe' = EmptyPipe /\ mem' = FreshMemory

\* Mutant of Start: the watermark is not restored with the buckets.
StartWithoutWatermark ==
    /\ pc = "down"
    /\ pc' = "claim"
    /\ mem' = [FreshMemory EXCEPT !.state = [ckpt EXCEPT !.last = None]]
    /\ lastDelivered' = IF lastDelivered = NoGroup THEN Len(stream) ELSE lastDelivered
    /\ UNCHANGED <<stream, age, pending, idle, ckpt, primitives, replay, batch,
                   pipe, restarts, history>>

\* run: _restore_candles, which takes the watermark only if it loaded a bucket,
\* then _ensure_group at "$" (the manifest's AGGREGATOR_GROUP_START_ID).
Start ==
    /\ pc = "down"
    /\ pc' = "claim"
    /\ mem' = [FreshMemory EXCEPT !.state = IF Held(ckpt.held) = {} THEN NoState ELSE ckpt]
    /\ lastDelivered' = IF lastDelivered = NoGroup THEN Len(stream) ELSE lastDelivered
    /\ UNCHANGED <<stream, age, pending, idle, ckpt, primitives, replay, batch,
                   pipe, restarts, history>>

\* The pod is killed, or a Redis call fails and run exits: memory is lost.
Crash ==
    /\ pc # "down" /\ restarts < MaxRestarts
    /\ restarts' = restarts + 1
    /\ Die
    /\ UNCHANGED <<stream, age, redis, history>>

-----------------------------------------------------------------------------
(* The trade task: _consume and _process_entries *)

Deliver(entries, isReplay, otherwise) ==
    /\ pending' = pending \cup entries
    /\ idle' = [i \in Ids |-> IF i \in entries THEN 0 ELSE idle[i]]
    /\ batch' = entries
    /\ replay' = isReplay
    /\ pc' = IF entries = {} THEN otherwise ELSE "handle"
    /\ UNCHANGED <<stream, age, ckpt, primitives, pipe, mem, restarts, history>>

\* XAUTOCLAIM from "0-0": the first ReadCount entries idle for long enough.
Claim ==
    LET eligible == {i \in pending : idle[i] >= PendingIdle}
    IN /\ pc = "claim"
       /\ Deliver({i \in eligible : Cardinality({j \in eligible : j < i}) < ReadCount},
                  TRUE, "read")
       /\ UNCHANGED lastDelivered

\* XREADGROUP ">": the next entries of the stream, at most ReadCount.
Read ==
    LET upTo == IF lastDelivered + ReadCount < Len(stream)
                THEN lastDelivered + ReadCount ELSE Len(stream)
    IN /\ pc = "read"
       /\ Deliver({i \in Ids : lastDelivered < i /\ i <= upTo}, FALSE, "claim")
       /\ lastDelivered' = upTo

\* One iteration of the loop over the batch; the entry is acknowledged with the
\* transaction whatever became of it.  There is no await in the loop.
Handling(i) ==
    /\ pc = "handle" /\ i \in batch
    /\ \A j \in batch : i <= j

Stale(i) == age[i] > ReplayMaxAge

\* Mutant of Late: the last finalized bucket itself still takes trades.
LateOffByOne(i) == EntryBucket(i) < mem.state.last
Late(i) == EntryBucket(i) <= mem.state.last

Finish(i, p, m) ==
    /\ batch' = batch \ {i}
    /\ pipe' = [p EXCEPT !.acks = @ \cup {i}]
    /\ mem' = m
    /\ UNCHANGED <<stream, age, redis, pc, replay, restarts>>

\* Mutant of SkipStale: `continue' comes before the entry is acknowledged.
SkipStaleUnacked(i) ==
    /\ Handling(i) /\ Stale(i)
    /\ batch' = batch \ {i}
    /\ UNCHANGED <<stream, age, redis, pc, replay, pipe, mem, restarts, history>>

SkipStale(i) ==
    /\ Handling(i) /\ Stale(i)
    /\ Finish(i, pipe, mem)
    /\ UNCHANGED history

DropLate(i) ==
    /\ Handling(i) /\ ~Stale(i) /\ Late(i)
    /\ Finish(i, pipe, mem)
    /\ UNCHANGED history

\* apply_trade returns None for a venue that is not configured.
IgnoreVenue(i) ==
    /\ Handling(i) /\ ~Stale(i) /\ ~Late(i)
    /\ stream[i].venue \notin Configured
    /\ Finish(i, pipe, mem)
    /\ UNCHANGED history

Applying(i) ==
    /\ Handling(i) /\ ~Stale(i) /\ ~Late(i)
    /\ stream[i].venue \in Configured

Duplicate(i) == stream[i].event \in mem.seen

\* ValueError: _remember_event knows the event, or _dec rejects a number after
\* _remember_event has recorded it.
Reject(i) ==
    /\ Applying(i)
    /\ Duplicate(i) \/ stream[i].kind = "bad"
    /\ Finish(i, pipe, [mem EXCEPT !.seen = @ \cup {stream[i].event}])
    /\ UNCHANGED history

\* An exception the loop does not catch ends the task, and run with it.
FailOnPoison(i) ==
    /\ Applying(i)
    /\ ~Duplicate(i) /\ stream[i].kind = "poison"
    /\ Die
    /\ UNCHANGED <<stream, age, redis, restarts, history>>

\* The state after folding i: apply_trade trims before _handle_trade looks at
\* the watermark.
Folded(i) ==
    [held |-> TrimBuckets([mem.state.held EXCEPT ![i] = @ + 1], EntryBucket(i)),
     maxTs |-> IF mem.state.maxTs < stream[i].ts THEN stream[i].ts ELSE mem.state.maxTs,
     last |-> mem.state.last]

ClosedThrough(s) == Bucket(s.maxTs - AllowedLateness) - Interval

\* can_advance: with no finalized bucket yet, a held bucket has to close.
CanAdvance(s) ==
    IF s.last = None
    THEN \E b \in TradeBuckets(s.held) : b <= ClosedThrough(s)
    ELSE s.last < ClosedThrough(s)

\* Mutant of Group: the bucket at the watermark is skipped.
GroupOffByOne(s) ==
    [after |-> s.last, through |-> ClosedThrough(s),
     bars |-> BarsOf(s.held, mem.books,
                     {b \in TradeBuckets(s.held) : s.last < b /\ b < ClosedThrough(s)})]

\* One closing: every bar of the buckets after the last finalized one, written
\* in (bucket, venue) order.
Group(s) ==
    [after |-> s.last, through |-> ClosedThrough(s),
     bars |-> BarsOf(s.held, mem.books,
                     {b \in TradeBuckets(s.held) : s.last < b /\ b <= ClosedThrough(s)})]

Fold(i) ==
    LET s == Folded(i)
        advance == CanAdvance(s)
    IN /\ Applying(i)
       /\ ~Duplicate(i) /\ stream[i].kind = "trade"
       /\ Finish(i,
                 [pipe EXCEPT !.groups = IF advance THEN Append(@, Group(s)) ELSE @,
                              !.writes = TRUE,
                              !.folded = @ \cup {i}],
                 [mem EXCEPT !.seen = @ \cup {stream[i].event},
                             !.state = IF advance
                                       THEN [s EXCEPT !.last = ClosedThrough(s)]
                                       ELSE s])
       /\ tried' = tried \cup {i}
       /\ horizon' = IF horizon < EntryBucket(i) THEN EntryBucket(i) ELSE horizon
       /\ UNCHANGED applied

\* After the loop: the checkpoint joins the transaction if a handler wrote.
Checkpoint ==
    /\ pc = "handle" /\ batch = {}
    /\ pc' = "exec"
    /\ pipe' = [pipe EXCEPT !.ckpt = IF pipe.writes THEN mem.state ELSE NoState]
    /\ UNCHANGED <<stream, age, redis, replay, batch, mem, restarts, history>>

\* Mutant of Execute: XACK is not part of the transaction and is lost.
ExecuteWithoutAck ==
    /\ pc = "exec"
    /\ ckpt' = IF pipe.writes THEN pipe.ckpt ELSE ckpt
    /\ primitives' = primitives \o pipe.groups
    /\ applied' = applied \cup pipe.folded
    /\ pipe' = EmptyPipe
    /\ pc' = IF replay THEN "read" ELSE "claim"
    /\ replay' = FALSE
    /\ UNCHANGED <<stream, age, lastDelivered, pending, idle, batch, mem, restarts,
                   tried, horizon>>

\* EXEC.  That its reply is lost is this step followed by Crash.
Execute ==
    /\ pc = "exec"
    /\ ckpt' = IF pipe.writes THEN pipe.ckpt ELSE ckpt
    /\ primitives' = primitives \o pipe.groups
    /\ pending' = pending \ pipe.acks
    /\ idle' = [i \in Ids |-> IF i \in pipe.acks THEN 0 ELSE idle[i]]
    /\ applied' = applied \cup pipe.folded
    /\ pipe' = EmptyPipe
    /\ pc' = IF replay THEN "read" ELSE "claim"
    /\ replay' = FALSE
    /\ UNCHANGED <<stream, age, lastDelivered, batch, mem, restarts, tried, horizon>>

TradeTask ==
    \/ Claim \/ Read \/ Checkpoint \/ Execute
    \/ \E i \in batch : \/ SkipStale(i) \/ DropLate(i) \/ IgnoreVenue(i)
                        \/ Reject(i) \/ FailOnPoison(i) \/ Fold(i)

-----------------------------------------------------------------------------
(* The book task shares MarketAggregator with the trade task and runs at its *)
(* awaits.  Its own group is not modelled: any book may arrive at any time.  *)

ApplyBook(v, ts, delay) ==
    LET b == Bucket(ts)
    IN /\ pc \in {"claim", "read", "exec"}
       /\ Cardinality(mem.books) < MaxBooks
       /\ mem' = [mem EXCEPT
                    !.books = {k \in @ : ~(k.bucket = b /\ k.venue = v)}
                                \cup {[bucket |-> b, venue |-> v, pub |-> ts + delay]},
                    !.state.held = TrimBuckets(@, b)]
       /\ horizon' = IF horizon < b THEN b ELSE horizon
       /\ UNCHANGED <<stream, age, redis, pc, replay, batch, pipe, restarts,
                      tried, applied>>

-----------------------------------------------------------------------------
Next ==
    \/ \E k \in Kinds, ts \in Timestamps, v \in Venues : Publish(k, ts, v)
    \/ \E i \in 1..Len(stream) : Republish(i)
    \/ Tick
    \/ Start
    \/ Crash
    \/ TradeTask
    \/ \E v \in Configured, ts \in BookTimes, d \in BookDelays : ApplyBook(v, ts, d)

Spec == Init /\ [][Next]_vars

\* The Deployment restarts the pod, the loop never waits for long (read_block_ms
\* bounds XREADGROUP), and time passes.
FairSpec == Spec /\ WF_vars(Start) /\ WF_vars(TradeTask) /\ WF_vars(Tick)

-----------------------------------------------------------------------------
(* Properties *)

State == [held: [Ids -> Nat], maxTs: Int, last: Int]
Bar == [bucket: Nat, venue: Venues, trades: [Ids -> Nat], book: SUBSET Nat]
Groups == Seq([after: Int, through: Int, bars: SUBSET Bar])
Pipeline == [groups: Groups, acks: SUBSET Ids, writes: BOOLEAN,
             folded: SUBSET Ids, ckpt: State]
Books == SUBSET [bucket: Nat, venue: Venues, pub: Nat]
Memory == [state: State, seen: SUBSET Ids, books: Books]

\* Every variable has its type.
TypeOK ==
    /\ stream \in Seq(Entry) /\ Len(stream) <= MaxEntries
    /\ age \in [Ids -> 0..ReplayMaxAge + 1]
    /\ lastDelivered \in NoGroup..Len(stream)
    /\ pending \subseteq Ids /\ idle \in [Ids -> 0..PendingIdle]
    /\ ckpt \in State /\ primitives \in Groups
    /\ pc \in {"down", "claim", "read", "handle", "exec"}
    /\ replay \in BOOLEAN /\ batch \subseteq Ids
    /\ pipe \in Pipeline /\ mem \in Memory
    /\ restarts \in Nat
    /\ tried \subseteq Ids /\ applied \subseteq Ids /\ horizon \in Nat

Acked(i) == i <= lastDelivered /\ i \notin pending
Published == UNION {primitives[k].bars : k \in 1..Len(primitives)}

\* stream:primitives:v1 never regresses: a bar published by a later closing is
\* for a later bucket, through every crash, replay and lost reply.  With one
\* bar per bucket and venue in a closing, no bar is ever published twice.
OutputOrdered ==
    /\ \A k, m \in 1..Len(primitives) : k < m =>
           \A x \in primitives[k].bars, y \in primitives[m].bars : x.bucket < y.bucket
    /\ \A k \in 1..Len(primitives) : \A x, y \in primitives[k].bars :
           x.bucket = y.bucket /\ x.venue = y.venue => x = y

\* Every entry counts once: never twice in a checkpointed bucket, never twice in
\* a bar and never in two bars, although a batch is redelivered after a crash.
FoldedOnce ==
    /\ \A i \in Ids : ckpt.held[i] <= 1
    /\ \A x \in Published : \A i \in Ids : x.trades[i] <= 1
    /\ \A x, y \in Published : \A i \in Ids :
           x.trades[i] > 0 /\ y.trades[i] > 0 => x = y

\* A published bar is final: the checkpointed trades of its bucket and venue,
\* from which the dashboard's candles are derived, are exactly the bar's.
BarsFrozen ==
    \A x \in Published : \A i \in Held(ckpt.held) :
        EntryBucket(i) = x.bucket /\ stream[i].venue = x.venue => x.trades[i] = 1

\* A trade whose fold was committed is in a published bar or in a checkpointed
\* bucket that is still to be closed, unless its bucket fell out of history_ms
\* while it was open: no closing forgets a bucket and no crash loses one.
NoSilentLoss ==
    \A i \in applied :
        \/ ckpt.held[i] > 0 /\ ckpt.last < EntryBucket(i)
        \/ \E x \in Published : x.trades[i] > 0
        \/ EntryBucket(i) < horizon - History

\* The committed finalization watermark never moves back, and no step commits a
\* trade into a bucket that was finalized before it.
FinalizedIsFinal ==
    [][/\ ckpt.last <= ckpt'.last
       /\ \A i \in Held(ckpt'.held) \ Held(ckpt.held) : EntryBucket(i) > ckpt.last]_vars

\* Every entry is eventually acknowledged: a crash, a poison entry or a lost
\* reply delays an entry, and never leaves it pending for good.
EventuallyAcked == \A i \in Ids : Len(stream) >= i ~> Acked(i)

\* redis_service.py:115: "A restart can therefore never acknowledge trades that
\* were not persisted."  Of the trades some process life folded, every one that
\* is acknowledged was committed.
RestartAcksOnlyPersisted == \A i \in tried : Acked(i) => i \in applied

=============================================================================
