---------------------------- MODULE LiveFeatures ----------------------------
(***************************************************************************)
(* services/live_feature_service: one process that reads the primitive      *)
(* stream through a Redis consumer group, gathers the bars of a bucket from *)
(* every venue, completes a bucket when a later bar arrives, and commits    *)
(* its state, at most one feature row and the acknowledgement of each entry *)
(* in one MULTI/EXEC.  A first start warms the state from the stream.       *)
(*                                                                          *)
(* An entry is named by its position in the stream.  Synthetic price,       *)
(* returns, volatilities and EWMA states are functions of the completed     *)
(* buckets and the bars in them, so the state keeps these.                  *)
(***************************************************************************)
EXTENDS Integers, Sequences, FiniteSets

CONSTANTS Venues,       \* venues of the primitive bars
          Buckets,      \* bound: bucket numbers, bucket_start_ts_ms / INTERVAL_MS
          Kinds,        \* bound: the kinds of entry on the stream
          Olds,         \* bound: whether entries are published too old
          Window,       \* returns needed before a row is published
          MaxBarAge,    \* settings.max_bar_age_ms, in ticks
          PendingIdle,  \* settings.pending_idle_ms, in ticks
          ReadCount,    \* count of XAUTOCLAIM and XREADGROUP
          ReplayCount,  \* settings.replay_count
          TrimEvery,    \* commits between two XTRIMs
          Maxlen,       \* settings.primitive_maxlen
          MaxEntries,   \* bound: entries published
          MaxRestarts   \* bound: kills of the process

ASSUME ConstantsOK ==
    /\ Buckets \subseteq Nat /\ Kinds \subseteq {"bar", "bad", "other"}
    /\ Olds \subseteq BOOLEAN
    /\ Window \in Nat /\ MaxBarAge \in Nat /\ PendingIdle \in Nat
    /\ ReadCount \in Nat \ {0} /\ ReplayCount \in Nat
    /\ TrimEvery \in Nat \ {0} /\ Maxlen \in Nat
    /\ MaxEntries \in Nat /\ MaxRestarts \in Nat

None == -1     \* Python's None for a bucket
NoGroup == -1  \* the consumer group does not exist yet
Ids == 1..MaxEntries

\* An entry: "bar" is well formed, "bad" has no usable price or volume, "other"
\* is not a 10s primitive bar; `old': it was published past max_bar_age_ms.
Entry == [kind: Kinds, bucket: Buckets, venue: Venues, old: BOOLEAN]

VARIABLES
    \* Redis
    stream, trimmed,         \* stream:primitives:v1; entries up to trimmed are gone
    lastDelivered, pending,  \* the consumer group
    age,                     \* ticks since publication, up to MaxBarAge + 1
    idle,                    \* ticks since delivery, up to PendingIdle
    saved, ckpt,             \* state_key: whether it is set, and its value
    features,                \* feature_stream; feature_key holds its last row
    \* the process
    pc,                      \* the await it is at, "handle" between two entries
    replay,                  \* the batch comes from XAUTOCLAIM
    batch,                   \* entries of the batch still to handle
    row,                     \* the buffered SET and XADD: at most one row
    mem,                     \* the computer
    processed,               \* self._processed, modulo TrimEvery
    restarts,
    \* history variables, read by no action
    dropped,                 \* bars acknowledged as out of order
    warmed,                  \* the last bucket that the warm-up completed
    unread,                  \* the last entry before those that the warm-up read
    covered                  \* it read all that came since the group was created

redis == <<stream, trimmed, lastDelivered, pending, age, idle, saved, ckpt, features>>
task == <<pc, replay, batch, row, mem, processed>>
history == <<dropped, warmed, unread, covered>>
vars == <<redis, task, restarts, history>>

-----------------------------------------------------------------------------
(* V2TenSecondFeatureComputer *)

\* _last_seen_by_venue, _pending (with _pending_buy_volumes), the completed
\* buckets, len(_returns) + 1 before the deque is full, and _last_timestamp_ms.
EmptyState == [seen |-> [v \in Venues |-> None], open |-> {}, done |-> {},
               count |-> 0, last |-> None]

BarBucket(i) == stream[i].bucket
Seen(s, i) == s.seen[stream[i].venue]

Stale(i, isReplay) == ~isReplay /\ (stream[i].old \/ age[i] > MaxBarAge)

\* Returns None before anything changes: not a primitive bar, or the venue's
\* newest bar again.
Ignores(s, i, isReplay) ==
    \/ stream[i].kind = "other"
    \/ ~Stale(i, isReplay) /\ BarBucket(i) = Seen(s, i)

\* Mutant of OutOfOrder: only the venue's own order is checked.
OutOfOrderInVenue(s, i) == BarBucket(i) < Seen(s, i)

\* Raises ValueError("out-of-order feature bar").
OutOfOrder(s, i) == BarBucket(i) < Seen(s, i) \/ BarBucket(i) <= s.last

Rejects(s, i, isReplay) ==
    /\ ~Ignores(s, i, isReplay)
    /\ Stale(i, isReplay) \/ OutOfOrder(s, i) \/ stream[i].kind = "bad"

Accepts(s, i, isReplay) == ~Ignores(s, i, isReplay) /\ ~Rejects(s, i, isReplay)

\* The buckets with a bar in `open' that start before bucket b are complete.
Ready(open, b) == {j \in open : BarBucket(j) < b}
Sealed(open, b) ==
    {[bucket |-> BarBucket(j), bars |-> {k \in open : BarBucket(k) = BarBucket(j)}] :
        j \in Ready(open, b)}

Accepted(s, i) ==
    LET open == s.open \cup {i}
        new == Sealed(open, BarBucket(i))
    IN [seen |-> [s.seen EXCEPT ![stream[i].venue] = BarBucket(i)],
        open |-> open \ Ready(open, BarBucket(i)),
        done |-> s.done \cup new,
        count |-> s.count + Cardinality(new),
        last |-> IF new = {} THEN s.last
                 ELSE (CHOOSE d \in new : \A e \in new : e.bucket <= d.bucket).bucket]

\* Mutant of Output: the windows need one more bucket.
OutputOffByOne(s, t) ==
    {d \in t.done \ s.done : d.bucket = t.last /\ t.count > Window + 1}

\* Mutant of Output: the last row again although no bucket was completed.
OutputAgain(s, t) == {d \in t.done : d.bucket = t.last /\ t.count > Window}

\* The row of the latest completed bucket, once the windows are full; the rows
\* of buckets completed by the same bar are overwritten in the loop.
Output(s, t) ==
    {d \in t.done \ s.done : d.bucket = t.last /\ t.count > Window}

-----------------------------------------------------------------------------

Init ==
    /\ stream = <<>> /\ trimmed = 0 /\ lastDelivered = NoGroup /\ pending = {}
    /\ age = [i \in Ids |-> 0] /\ idle = [i \in Ids |-> 0]
    /\ saved = FALSE /\ ckpt = EmptyState /\ features = <<>>
    /\ pc = "down" /\ replay = FALSE /\ batch = {} /\ row = {} /\ mem = EmptyState
    /\ processed = 0 /\ restarts = 0
    /\ dropped = {} /\ warmed = None /\ unread = 0 /\ covered = FALSE

-----------------------------------------------------------------------------
(* The environment *)

\* The aggregator appends a bar.  Its stream never regresses and holds a bar
\* once per bucket and venue (OutputOrdered of module Aggregator).
Publish(k, b, v, old) ==
    /\ Len(stream) < MaxEntries
    /\ \A i \in 1..Len(stream) :
           /\ BarBucket(i) <= b
           /\ BarBucket(i) = b => stream[i].venue # v
    /\ stream' = Append(stream, [kind |-> k, bucket |-> b, venue |-> v, old |-> old])
    /\ UNCHANGED <<trimmed, lastDelivered, pending, age, idle, saved, ckpt, features,
                   task, restarts, history>>

Tick ==
    /\ age' = [i \in Ids |-> IF i <= Len(stream) /\ age[i] <= MaxBarAge
                              THEN age[i] + 1 ELSE age[i]]
    /\ idle' = [i \in Ids |-> IF i \in pending /\ idle[i] < PendingIdle
                               THEN idle[i] + 1 ELSE idle[i]]
    /\ <<age, idle>>' # <<age, idle>>
    /\ UNCHANGED <<stream, trimmed, lastDelivered, pending, saved, ckpt, features,
                   task, restarts, history>>

-----------------------------------------------------------------------------
(* Start, warm-up and death of the process *)

\* _restore_state
Start ==
    /\ pc = "down"
    /\ pc' = "group"
    /\ mem' = ckpt
    /\ UNCHANGED <<redis, replay, batch, row, processed, restarts, history>>

\* Mutant of EnsureGroup: an existing group is moved to "$" too.
EnsureGroupAtEnd ==
    /\ pc = "group"
    /\ lastDelivered' = Len(stream)
    /\ pc' = IF saved THEN "claim" ELSE "history"
    /\ UNCHANGED <<stream, trimmed, pending, age, idle, saved, ckpt, features,
                   replay, batch, row, mem, processed, restarts, history>>

\* _ensure_group at "$", before the replay
EnsureGroup ==
    /\ pc = "group"
    /\ lastDelivered' = IF lastDelivered = NoGroup THEN Len(stream) ELSE lastDelivered
    /\ pc' = IF saved THEN "claim" ELSE "history"
    /\ UNCHANGED <<stream, trimmed, pending, age, idle, saved, ckpt, features,
                   replay, batch, row, mem, processed, restarts, history>>

\* XREVRANGE: the newest replay_count entries.
ReadHistory ==
    /\ pc = "history"
    /\ pc' = "replay"
    /\ batch' = {i \in 1..Len(stream) : trimmed < i /\ i > Len(stream) - ReplayCount}
    /\ unread' = Len(stream) - ReplayCount
    /\ covered' = (Len(stream) - ReplayCount <= lastDelivered)
    /\ UNCHANGED <<redis, replay, row, mem, processed, restarts, dropped, warmed>>

Oldest(i) == i \in batch /\ \A j \in batch : i <= j

\* compute(replay=True): what it rejects is skipped, a row is never returned.
ReplayBar(i) ==
    /\ pc = "replay" /\ Oldest(i)
    /\ mem' = IF Accepts(mem, i, TRUE) THEN Accepted(mem, i) ELSE mem
    /\ batch' = batch \ {i}
    /\ UNCHANGED <<redis, pc, replay, row, processed, restarts, history>>

SaveState ==
    /\ pc = "replay" /\ batch = {}
    /\ saved' = TRUE /\ ckpt' = mem
    /\ warmed' = mem.last
    /\ pc' = "claim"
    /\ UNCHANGED <<stream, trimmed, lastDelivered, pending, age, idle, features,
                   replay, batch, row, mem, processed, restarts, dropped, unread, covered>>

\* The pod is killed, or a Redis call fails and run raises: the restored `before'
\* of _process_entries goes with the process.
Crash ==
    /\ pc # "down" /\ restarts < MaxRestarts
    /\ restarts' = restarts + 1
    /\ pc' = "down" /\ replay' = FALSE /\ batch' = {} /\ row' = {}
    /\ mem' = EmptyState /\ processed' = 0
    /\ UNCHANGED <<redis, history>>

-----------------------------------------------------------------------------
(* run and _process_entries *)

Deliver(entries, isReplay, otherwise) ==
    /\ idle' = [i \in Ids |-> IF i \in entries THEN 0 ELSE idle[i]]
    /\ batch' = entries
    /\ replay' = isReplay
    /\ pc' = IF entries = {} THEN otherwise ELSE "handle"
    /\ UNCHANGED <<stream, trimmed, age, saved, ckpt, features, row, mem, processed,
                   restarts, history>>

\* XAUTOCLAIM from "0-0", which also forgets pending entries that were trimmed.
Claim ==
    LET eligible == {i \in pending : idle[i] >= PendingIdle /\ trimmed < i}
    IN /\ pc = "claim"
       /\ Deliver({i \in eligible : Cardinality({j \in eligible : j < i}) < ReadCount},
                  TRUE, "read")
       /\ pending' = {i \in pending : idle[i] < PendingIdle \/ trimmed < i}
       /\ UNCHANGED lastDelivered

\* XREADGROUP ">": the next entries that still exist.
Read ==
    LET from == IF lastDelivered < trimmed THEN trimmed ELSE lastDelivered
        upTo == IF from + ReadCount < Len(stream) THEN from + ReadCount ELSE Len(stream)
        entries == {i \in Ids : from < i /\ i <= upTo}
    IN /\ pc = "read"
       /\ Deliver(entries, FALSE, "claim")
       /\ pending' = pending \cup entries
       /\ lastDelivered' = IF entries = {} THEN lastDelivered ELSE upTo

Handling(i) == pc = "handle" /\ Oldest(i)

Buffer(i, state, rows) ==
    /\ mem' = state
    /\ row' = rows
    /\ pc' = "exec"
    /\ UNCHANGED <<redis, replay, batch, processed, restarts, history>>

\* compute returns None and changes nothing; the state is committed all the same.
Ignore(i) ==
    /\ Handling(i) /\ Ignores(mem, i, FALSE)
    /\ Buffer(i, mem, {})

Accept(i) ==
    /\ Handling(i) /\ Accepts(mem, i, FALSE)
    /\ Buffer(i, Accepted(mem, i), Output(mem, Accepted(mem, i)))

\* ValueError: the entry is only acknowledged.
Reject(i) ==
    /\ Handling(i) /\ Rejects(mem, i, FALSE)
    /\ pc' = "ack"
    /\ UNCHANGED <<redis, replay, batch, row, mem, processed, restarts, history>>

\* The next entry of the batch, or the next read.
Continue(rest) ==
    IF rest # {} THEN "handle" ELSE IF replay THEN "read" ELSE "claim"

XAck(i) ==
    /\ pending' = pending \ {i}
    /\ idle' = [idle EXCEPT ![i] = 0]
    /\ batch' = batch \ {i}
    /\ UNCHANGED <<stream, trimmed, lastDelivered, age, saved>>

\* EXEC.  That its reply is lost is this step followed by Crash.
Execute(i) ==
    /\ pc = "exec" /\ Oldest(i)
    /\ XAck(i)
    /\ ckpt' = mem
    /\ \/ row = {} /\ features' = features
       \/ \E d \in row : features' = Append(features, d)
    /\ row' = {}
    /\ processed' = (processed + 1) % TrimEvery
    /\ pc' = IF processed' = 0 THEN "trim" ELSE Continue(batch')
    /\ UNCHANGED <<replay, mem, restarts, history>>

\* Mutant of AckRejected: the loop continues without XACK.
SkipRejected(i) ==
    /\ pc = "ack" /\ Oldest(i)
    /\ batch' = batch \ {i}
    /\ pc' = Continue(batch')
    /\ UNCHANGED <<redis, replay, row, mem, processed, restarts, history>>

AckRejected(i) ==
    /\ pc = "ack" /\ Oldest(i)
    /\ XAck(i)
    /\ pc' = Continue(batch')
    /\ dropped' = IF stream[i].kind = "bar" /\ ~Stale(i, FALSE)
                  THEN dropped \cup {i} ELSE dropped
    /\ UNCHANGED <<ckpt, features, replay, row, mem, processed, restarts, warmed, unread,
                   covered>>

\* XTRIM MAXLEN ~: at most the entries beyond the newest primitive_maxlen.
Trim(n) ==
    /\ pc = "trim"
    /\ trimmed <= n
    /\ n = trimmed \/ n <= Len(stream) - Maxlen
    /\ trimmed' = n
    /\ pc' = Continue(batch)
    /\ UNCHANGED <<stream, lastDelivered, pending, age, idle, saved, ckpt, features,
                   replay, batch, row, mem, processed, restarts, history>>

Task ==
    \/ Start \/ EnsureGroup \/ ReadHistory \/ SaveState \/ Claim \/ Read
    \/ \E i \in batch : \/ ReplayBar(i) \/ Ignore(i) \/ Accept(i) \/ Reject(i)
                        \/ Execute(i) \/ AckRejected(i)
    \/ \E n \in 0..MaxEntries : Trim(n)

Next ==
    \/ \E k \in Kinds, b \in Buckets, v \in Venues, old \in Olds :
           Publish(k, b, v, old)
    \/ Tick \/ Crash \/ Task

Spec == Init /\ [][Next]_vars

\* The Deployment restarts the pod, XREADGROUP blocks for a second at most, and
\* time passes.
FairSpec == Spec /\ WF_vars(Task) /\ WF_vars(Tick)

-----------------------------------------------------------------------------
(* Properties *)

Completed == [bucket: Buckets, bars: SUBSET Ids]
State == [seen: [Venues -> Int], open: SUBSET Ids, done: SUBSET Completed,
          count: Nat, last: Int]

\* Every variable has its type.
TypeOK ==
    /\ stream \in Seq(Entry) /\ Len(stream) <= MaxEntries
    /\ trimmed \in 0..Len(stream) /\ lastDelivered \in NoGroup..Len(stream)
    /\ pending \subseteq Ids
    /\ age \in [Ids -> 0..MaxBarAge + 1] /\ idle \in [Ids -> 0..PendingIdle]
    /\ saved \in BOOLEAN /\ ckpt \in State /\ features \in Seq(Completed)
    /\ pc \in {"down", "group", "history", "replay", "claim", "read", "handle",
               "exec", "ack", "trim"}
    /\ replay \in BOOLEAN /\ batch \subseteq Ids /\ row \subseteq Completed
    /\ mem \in State /\ processed \in 0..TrimEvery - 1 /\ restarts \in Nat
    /\ dropped \subseteq Ids /\ warmed \in Int /\ unread \in Int /\ covered \in BOOLEAN

Acked(i) == i <= lastDelivered /\ i \notin pending
InState(s) == s.open \cup UNION {d.bars : d \in s.done}

\* The commit, the row and the acknowledgement are one step, whatever crashes and
\* redelivers: the service implements a log of sealed buckets.
Log == INSTANCE SealedLog WITH Items <- Ids, sealed <- ckpt.done, rows <- features
SealsInOrder == Log!Spec

\* A bar counts in one bucket, its own, and once: no redelivery, warm-up overlap
\* or restart makes a bucket complete twice, which would count a return and a
\* buyer volume again.
CountsOnce ==
    /\ ckpt.count = Cardinality(ckpt.done)
    /\ \A d \in ckpt.done : \A i \in d.bars : BarBucket(i) = d.bucket
    /\ \A i \in ckpt.open : ckpt.last < BarBucket(i)

\* computation.py:117: "A newly observed or lagging venue must not revise a
\* feature row that has already advanced the global EWMA state."  A published row
\* holds every bar of its bucket that the service ever accepts.
RowIsFinal ==
    \A k \in 1..Len(features) :
        \A i \in InState(ckpt) : BarBucket(i) = features[k].bucket => i \in features[k].bars

\* service.py:44: the bars that arrive during the warm-up stay visible to the
\* consumer.  Once the state is saved, every fresh bar that was in the stream is
\* in the state, still to be delivered, rejected as out of order, trimmed, or
\* older than the replay_count entries that the warm-up read.
NothingSkipped ==
    saved => \A i \in 1..Len(stream) :
        \/ stream[i].kind # "bar" \/ stream[i].old \/ age[i] > MaxBarAge
        \/ ~Acked(i) \/ i \in InState(ckpt) \/ i \in dropped
        \/ i <= trimmed \/ i <= unread

\* Without a restart each bucket completed after the warm-up is published, if
\* replay_count covers what is published between _ensure_group and the replay.
RowsComplete ==
    restarts = 0 /\ covered => \A d \in ckpt.done :
        \/ d.bucket <= warmed
        \/ Cardinality({e \in ckpt.done : e.bucket <= d.bucket}) <= Window
        \/ \E k \in 1..Len(features) : features[k] = d

\* Every entry is eventually acknowledged or trimmed.
EventuallyAcked == \A i \in Ids : Len(stream) >= i ~> Acked(i) \/ i <= trimmed

=============================================================================
