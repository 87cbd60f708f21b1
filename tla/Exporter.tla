------------------------------ MODULE Exporter ------------------------------
(***************************************************************************)
(* services/gcs_exporter: a worker reads one stream through a consumer      *)
(* group, buffers the rows, uploads them to GCS as one object per partition,*)
(* acknowledges them, and, on the Kalshi streams, trims what it exported.   *)
(* The trade, book and Kalshi workers share the run loop and differ in the  *)
(* constants ResetsReclaim and Trims.                                       *)
(*                                                                          *)
(* An entry is named by its position.  The manifest runs one worker; the    *)
(* consumer names it derives from the pod allow several, and a pod whose    *)
(* node is lost may outlive its successor's start, so Workers is a set.     *)
(***************************************************************************)
EXTENDS Integers, Sequences, FiniteSets

CONSTANTS Workers,
          Partitions,       \* (venue or market, date, hour) of a row
          Kinds,            \* bound: the kinds of entry
          Times,            \* bound: milliseconds of the entries' ids
          FlushSize,        \* settings.flush_size
          FlushInterval,    \* settings.flush_interval_seconds, in ticks
          ReadCount,        \* settings.read_count
          ReclaimInterval,  \* settings.reclaim_interval_seconds, in ticks
          PendingIdle,      \* settings.reclaim_min_idle_ms, in ticks
          Retention,        \* settings.post_export_retention_seconds
          ResetsReclaim,    \* flush sets _last_reclaim_at (books, Kalshi)
          Trims,            \* flush ends with trim_exported (Kalshi)
          MaxEntries,       \* bound: entries published
          MaxFaults         \* bound: lost replies, aborts and kills

ASSUME ConstantsOK ==
    /\ Kinds \subseteq {"row", "malformed", "excluded", "poison"}
    /\ Times \subseteq Nat
    /\ FlushSize \in Nat \ {0} /\ FlushInterval \in Nat /\ ReadCount \in Nat \ {0}
    /\ ReclaimInterval \in Nat /\ PendingIdle \in Nat /\ Retention \in Nat
    /\ ResetsReclaim \in BOOLEAN /\ Trims \in BOOLEAN
    /\ MaxEntries \in Nat /\ MaxFaults \in Nat

Ids == 1..MaxEntries

\* An entry: from_entry accepts "row" and raises ValueError for "malformed"; an
\* "excluded" row is of an excluded venue; the partition of a "poison" row
\* cannot be computed (its timestamp is beyond what datetime represents).
Entry == [kind: Kinds, part: Partitions, ms: Times]

VARIABLES
    stream, trimmed,         \* Redis: the stream; entries up to trimmed are gone
    lastDelivered, pending,  \* Redis: the consumer group
    idle,                    \* ticks since delivery, up to PendingIdle
    objects, letters,        \* GCS: Parquet objects, dead-lettered entries
    worker,                  \* the state of each process
    faults

redis == <<stream, trimmed, lastDelivered, pending, idle>>
vars == <<redis, objects, letters, worker, faults>>

-----------------------------------------------------------------------------

\* pc: the await the worker is at, or the code between two; phase: where the
\* batch came from or who called flush, "final" in run's finally block.
Fresh == [pc |-> "loop", phase |-> "check", stop |-> FALSE, todo |-> {},
          buffer |-> <<>>, plan |-> {}, exported |-> {}, cut |-> 0,
          sinceReclaim |-> ReclaimInterval, sinceFlush |-> 0]
Down == [Fresh EXCEPT !.pc = "down"]

Init ==
    /\ stream = <<>> /\ trimmed = 0 /\ lastDelivered = 0 /\ pending = {}
    /\ idle = [i \in Ids |-> 0]
    /\ objects = {} /\ letters = {}
    /\ worker = [w \in Workers |-> Down]
    /\ faults = 0

At(w, pc) == worker[w].pc = pc
Becomes(w, state) == worker' = [worker EXCEPT ![w] = state]

-----------------------------------------------------------------------------
(* The environment *)

Publish(k, p, t) ==
    /\ Len(stream) < MaxEntries
    /\ \A i \in 1..Len(stream) : stream[i].ms <= t
    /\ stream' = Append(stream, [kind |-> k, part |-> p, ms |-> t])
    /\ UNCHANGED <<trimmed, lastDelivered, pending, idle, objects, letters, worker, faults>>

UpTo(clock, limit) == IF clock < limit THEN clock + 1 ELSE clock

Tick ==
    /\ idle' = [i \in Ids |-> IF i \in pending THEN UpTo(idle[i], PendingIdle) ELSE idle[i]]
    /\ worker' = [w \in Workers |->
           [worker[w] EXCEPT !.sinceReclaim = UpTo(@, ReclaimInterval),
                             !.sinceFlush = IF worker[w].buffer = <<>> THEN @
                                            ELSE UpTo(@, FlushInterval)]]
    /\ <<idle, worker>>' # <<idle, worker>>
    /\ UNCHANGED <<stream, trimmed, lastDelivered, pending, objects, letters, faults>>

-----------------------------------------------------------------------------
(* flush *)

Rows(s) == {s.buffer[k] : k \in DOMAIN s.buffer}
PartsOf(rows) == {stream[i].part : i \in rows}

\* What run does with an exception it does not catch, and on cancellation: one
\* more flush, which itself may only end the process.  Computing the partition
\* of a poison row raises before anything is uploaded, in that flush again.
Final(s) ==
    IF \/ s.phase = "final" \/ s.buffer = <<>>
       \/ \E i \in Rows(s) : stream[i].kind = "poison"
    THEN Down
    ELSE [s EXCEPT !.pc = "upload", !.phase = "final", !.todo = {},
                   !.plan = PartsOf(Rows(s)), !.exported = {}, !.cut = 0]

\* flush groups the buffer by partition and uploads the first group.
Flush(s) ==
    IF \E i \in Rows(s) : stream[i].kind = "poison"
    THEN Final(s)
    ELSE [s EXCEPT !.pc = "upload", !.plan = PartsOf(Rows(s)), !.exported = {}]

\* flush returns to _ingest, to the loop, or to the end of run.
AfterFlush(s) ==
    LET t == [s EXCEPT !.exported = {}, !.cut = 0, !.sinceFlush = 0]
    IN IF s.phase = "final" THEN Down
       ELSE [t EXCEPT !.pc = IF s.phase = "check" THEN "loop" ELSE "ingest"]

\* The group at hand: the rows of the first partition, in buffer order, that
\* flush has not committed.
InPlan(s) == {k \in DOMAIN s.buffer : stream[s.buffer[k]].part \in s.plan}
GroupPart(s) ==
    stream[s.buffer[CHOOSE k \in InPlan(s) : \A m \in InPlan(s) : k <= m]].part
GroupIds(s) == {i \in Rows(s) : stream[i].part = GroupPart(s)}

\* Mutant of Upload: a failed upload is swallowed.
UploadSwallowed(w) ==
    /\ At(w, "upload")
    /\ Becomes(w, [worker[w] EXCEPT !.pc = "ack"])
    /\ UNCHANGED <<redis, objects, letters, faults>>

\* Create-only: the ids of the rows name the object, so an object that exists
\* already holds the same rows, and uploading it again changes nothing.
Upload(w) ==
    LET s == worker[w]
    IN /\ At(w, "upload")
       /\ objects' = objects \cup {[part |-> GroupPart(s), rows |-> GroupIds(s)]}
       /\ Becomes(w, [s EXCEPT !.pc = "ack"])
       /\ UNCHANGED <<redis, letters, faults>>

\* run catches the Redis errors: the buffer stays, the rest of the batch does not.
Retry(s) ==
    IF s.phase = "final" THEN Down
    ELSE [s EXCEPT !.pc = "loop", !.phase = "check", !.todo = {}, !.plan = {},
                   !.exported = {}, !.cut = 0]

\* SelectSeq for the rows that are not in ids; the provers do not know SelectSeq.
Without(rows, ids) ==
    LET kept == {k \in DOMAIN rows : rows[k] \notin ids}
        Rank(k) == Cardinality({m \in kept : m <= k})
    IN [n \in 1..Cardinality(kept) |-> rows[CHOOSE k \in kept : Rank(k) = n]]

XAck(ids) ==
    /\ pending' = pending \ ids
    /\ idle' = [i \in Ids |-> IF i \in ids THEN 0 ELSE idle[i]]

\* A reply is lost at the cost of one fault.
Reply(w, lost, state) ==
    /\ lost => faults < MaxFaults
    /\ faults' = IF lost THEN faults + 1 ELSE faults
    /\ Becomes(w, IF lost THEN Retry(worker[w]) ELSE state)

AckGroup(w, lost) ==
    LET s == worker[w]
        ids == GroupIds(s)
        rest == s.plan \ {GroupPart(s)}
        t == [s EXCEPT !.buffer = Without(@, ids),
                       !.plan = rest,
                       !.exported = @ \cup ids,
                       !.sinceReclaim = IF ResetsReclaim THEN 0 ELSE @,
                       !.pc = IF rest # {} THEN "upload" ELSE "xinfo"]
    IN /\ At(w, "ack")
       /\ XAck(ids)
       /\ Reply(w, lost, IF rest # {} \/ Trims THEN t ELSE AfterFlush(t))
       /\ UNCHANGED <<stream, trimmed, lastDelivered, objects, letters>>

-----------------------------------------------------------------------------
(* trim_exported.  A cut is the number of entries before it. *)

Min2(a, b) == IF a < b THEN a ELSE b
LastOf(ids) == CHOOSE i \in ids : \A j \in ids : j <= i
FirstOf(ids) == CHOOSE i \in ids : \A j \in ids : i <= j

OlderThan(t) == Cardinality({i \in 1..Len(stream) : stream[i].ms < t})

\* Mutant of XInfo: everything before last-delivered-id is old enough.
XInfoWithoutRetention(w) ==
    /\ At(w, "xinfo")
    /\ Becomes(w, [worker[w] EXCEPT !.pc = "xpending", !.cut = lastDelivered - 1])
    /\ UNCHANGED <<redis, objects, letters, faults>>

\* The cut starts at the retention time before the last exported entry, and
\* comes down to last-delivered-id ...
XInfo(w) ==
    LET s == worker[w]
        retention == OlderThan(stream[LastOf(s.exported)].ms - Retention)
    IN /\ At(w, "xinfo")
       /\ Becomes(w, [s EXCEPT !.pc = "xpending",
                               !.cut = Min2(retention, lastDelivered - 1)])
       /\ UNCHANGED <<redis, objects, letters, faults>>

\* ... and then to the oldest pending entry.
XPending(w) ==
    LET s == worker[w]
    IN /\ At(w, "xpending")
       /\ Becomes(w, [s EXCEPT !.pc = "xtrim",
                               !.cut = IF pending = {} THEN @
                                       ELSE Min2(@, FirstOf(pending) - 1)])
       /\ UNCHANGED <<redis, objects, letters, faults>>

\* XTRIM MINID ~ removes any number of the entries before the cut.
XTrim(w, n, lost) ==
    /\ At(w, "xtrim")
    /\ trimmed <= n /\ (n = trimmed \/ n <= worker[w].cut)
    /\ trimmed' = n
    /\ Reply(w, lost, AfterFlush(worker[w]))
    /\ UNCHANGED <<stream, lastDelivered, pending, idle, objects, letters>>

-----------------------------------------------------------------------------
(* run and _ingest *)

Start(w) ==
    /\ At(w, "down")
    /\ Becomes(w, Fresh)
    /\ UNCHANGED <<redis, objects, letters, faults>>

\* The head of the loop.
Loop(w) ==
    LET s == worker[w]
    IN /\ At(w, "loop")
       /\ Becomes(w, IF s.stop THEN Final(s)
                     ELSE IF s.sinceReclaim >= ReclaimInterval
                     THEN [s EXCEPT !.pc = "reclaim"]
                     ELSE [s EXCEPT !.pc = "read"])
       /\ UNCHANGED <<redis, objects, letters, faults>>

Deliver(entries) ==
    /\ pending' = pending \cup entries
    /\ idle' = [i \in Ids |-> IF i \in entries THEN 0 ELSE idle[i]]
    /\ UNCHANGED <<stream, trimmed, objects, letters>>

\* XAUTOCLAIM from "0-0": the first read_count entries idle for long enough.
Reclaim(w, lost) ==
    LET s == worker[w]
        eligible == {i \in pending : idle[i] >= PendingIdle}
        entries == {i \in eligible :
                       Cardinality({j \in eligible : j < i}) < ReadCount}
    IN /\ At(w, "reclaim")
       /\ Deliver(entries)
       /\ UNCHANGED lastDelivered
       /\ Reply(w, lost, [s EXCEPT !.pc = "ingest", !.phase = "reclaim",
                                   !.todo = entries, !.sinceReclaim = 0])

\* XREADGROUP ">": as many entries as the buffer takes, at least one.
Read(w, lost) ==
    LET s == worker[w]
        capacity == IF Len(s.buffer) < FlushSize THEN FlushSize - Len(s.buffer) ELSE 1
        upTo == Min2(lastDelivered + Min2(ReadCount, capacity), Len(stream))
        entries == {i \in Ids : lastDelivered < i /\ i <= upTo}
    IN /\ At(w, "read")
       /\ Deliver(entries)
       /\ lastDelivered' = upTo
       /\ Reply(w, lost, [s EXCEPT !.pc = "ingest", !.phase = "read", !.todo = entries])

\* from_entry of the five row types, TradeRow to KalshiOrderBookRow: the entries a
\* row is made of, and those for which it raises ValueError.
Parsed == {"row", "poison"}
Refused == {"malformed"}

Ingesting(w, i, kinds) ==
    /\ At(w, "ingest") /\ i \in worker[w].todo
    /\ \A j \in worker[w].todo : i <= j
    /\ stream[i].kind \in kinds

\* A row is buffered, and a full buffer is flushed before the next entry.
Buffer(w, i) ==
    LET s == worker[w]
        t == [s EXCEPT !.todo = @ \ {i}, !.buffer = Append(@, i),
                       !.sinceFlush = IF s.buffer = <<>> THEN 0 ELSE @]
    IN /\ Ingesting(w, i, Parsed)
       /\ Becomes(w, IF Len(t.buffer) >= FlushSize THEN Flush(t) ELSE t)
       /\ UNCHANGED <<redis, objects, letters, faults>>

\* A malformed entry is uploaded to the dead-letter prefix ...
DeadLetter(w, i) ==
    /\ Ingesting(w, i, Refused)
    /\ Becomes(w, [worker[w] EXCEPT !.pc = "letter"])
    /\ UNCHANGED <<redis, objects, letters, faults>>

UploadLetter(w) ==
    /\ At(w, "letter")
    /\ letters' = letters \cup {FirstOf(worker[w].todo)}
    /\ Becomes(w, [worker[w] EXCEPT !.pc = "ackone"])
    /\ UNCHANGED <<redis, objects, faults>>

\* Mutant of AckOne: the loop continues without XACK.
AckOneSkipped(w, lost) ==
    LET s == worker[w]
    IN /\ At(w, "ackone")
       /\ Reply(w, lost, [s EXCEPT !.pc = "ingest", !.todo = @ \ {FirstOf(s.todo)}])
       /\ UNCHANGED <<redis, objects, letters>>

\* ... and acknowledged; an excluded row is only acknowledged.
Exclude(w, i) ==
    /\ Ingesting(w, i, {"excluded"})
    /\ Becomes(w, [worker[w] EXCEPT !.pc = "ackone"])
    /\ UNCHANGED <<redis, objects, letters, faults>>

AckOne(w, lost) ==
    LET s == worker[w]
        i == FirstOf(s.todo)
    IN /\ At(w, "ackone")
       /\ XAck({i})
       /\ Reply(w, lost, [s EXCEPT !.pc = "ingest", !.todo = @ \ {i}])
       /\ UNCHANGED <<stream, trimmed, lastDelivered, objects, letters>>

ShouldFlush(s) ==
    /\ s.buffer # <<>>
    /\ Len(s.buffer) >= FlushSize \/ s.sinceFlush >= FlushInterval

\* The batch is through: after a reclaim the worker reads; after a read it
\* flushes if it is time, and starts over.
Ingested(w) ==
    LET s == worker[w]
        t == [s EXCEPT !.phase = "check"]
    IN /\ At(w, "ingest") /\ s.todo = {}
       /\ Becomes(w, IF s.phase = "reclaim" THEN [s EXCEPT !.pc = "read"]
                     ELSE IF ShouldFlush(s) THEN Flush(t)
                     ELSE [t EXCEPT !.pc = "loop"])
       /\ UNCHANGED <<redis, objects, letters, faults>>

Step(w) ==
    \/ Start(w) \/ Loop(w) \/ Upload(w) \/ UploadLetter(w) \/ Ingested(w)
    \/ XInfo(w) \/ XPending(w)
    \/ \E i \in Ids : Buffer(w, i) \/ DeadLetter(w, i) \/ Exclude(w, i)
    \/ Reclaim(w, FALSE) \/ Read(w, FALSE) \/ AckOne(w, FALSE) \/ AckGroup(w, FALSE)
    \/ \E n \in 0..MaxEntries : XTrim(w, n, FALSE)

-----------------------------------------------------------------------------
(* Faults *)

\* A Redis command was executed and its reply lost.
LostReply(w) ==
    \/ Reclaim(w, TRUE) \/ Read(w, TRUE) \/ AckOne(w, TRUE) \/ AckGroup(w, TRUE)
    \/ \E n \in 0..MaxEntries : XTrim(w, n, TRUE)

Fault(w, state) ==
    /\ ~At(w, "down") /\ faults < MaxFaults
    /\ faults' = faults + 1
    /\ Becomes(w, state)
    /\ UNCHANGED <<redis, objects, letters>>

\* A Redis command failed before it reached the server.
RedisError(w) ==
    /\ \E pc \in {"reclaim", "read", "ackone", "ack", "xinfo", "xpending", "xtrim"} : At(w, pc)
    /\ Fault(w, Retry(worker[w]))

\* An upload failed for good, or one of the five exporters of the process did
\* and the others are cancelled.
Abort(w) == Fault(w, Final(worker[w]))

\* SIGTERM, which the loop notices at its head; SIGKILL or the loss of the node.
Terminate(w) == ~worker[w].stop /\ Fault(w, [worker[w] EXCEPT !.stop = TRUE])
Kill(w) == Fault(w, Down)

Next ==
    \/ \E k \in Kinds, p \in Partitions, t \in Times : Publish(k, p, t)
    \/ Tick
    \/ \E w \in Workers : Step(w) \/ LostReply(w) \/ RedisError(w) \/ Abort(w)
                          \/ Terminate(w) \/ Kill(w)

Spec == Init /\ [][Next]_vars

\* The Deployment restarts the pod, no call blocks for ever (read_block_ms, the
\* upload's deadline, the socket timeout), and time passes.
FairSpec == Spec /\ (\A w \in Workers : WF_vars(Step(w))) /\ WF_vars(Tick)

-----------------------------------------------------------------------------
(* Properties *)

Objects == [part: Partitions, rows: SUBSET Ids]
Worker == [pc: {"down", "loop", "reclaim", "read", "ingest", "letter", "ackone",
                "upload", "ack", "xinfo", "xpending", "xtrim"},
           phase: {"reclaim", "read", "check", "final"}, stop: BOOLEAN,
           todo: SUBSET Ids, buffer: Seq(Ids), plan: SUBSET Partitions,
           exported: SUBSET Ids, cut: Int,
           sinceReclaim: 0..ReclaimInterval, sinceFlush: 0..FlushInterval]

\* Every variable has its type.
TypeOK ==
    /\ stream \in Seq(Entry) /\ Len(stream) <= MaxEntries
    /\ trimmed \in 0..MaxEntries /\ lastDelivered \in 0..Len(stream)
    /\ pending \subseteq Ids /\ idle \in [Ids -> 0..PendingIdle]
    /\ objects \subseteq Objects /\ letters \subseteq Ids
    /\ worker \in [Workers -> Worker] /\ faults \in 0..MaxFaults

Published == 1..Len(stream)
Acked(i) == i <= lastDelivered /\ i \notin pending

\* A row is in an object of its partition, a malformed entry under the
\* dead-letter prefix; an excluded row has nothing to store.
Stored(i) ==
    \/ stream[i].kind = "excluded"
    \/ stream[i].kind = "malformed" /\ i \in letters
    \/ \E o \in objects : o.part = stream[i].part /\ i \in o.rows

\* What the exporter promises: an entry is stored, then acknowledged, then
\* trimmed, and stays so, whatever fails and however many workers there are.
Archive == INSTANCE AtLeastOnce WITH Items <- Ids,
    stored <- {i \in Published : Stored(i)},
    acked <- {i \in Published : Acked(i)},
    removed <- 1..trimmed
StoresBeforeAck == Archive!Spec

\* README.md:13: "ACKs a Stream entry only after its batch is safely stored."
AckAfterStore == \A i \in Published : Acked(i) => Stored(i)

\* redis_consumer.py:82: trimming does not cross pending or unread entries of the
\* group, although another worker may be delivered entries between the commands.
TrimAfterAck == \A i \in 1..trimmed : Acked(i)

\* The retention window before the newest exported entry survives, although each
\* flush computes it from its own rows.
RetentionKept ==
    \A i \in 1..trimmed : \E j \in Published :
        Acked(j) /\ stream[i].ms + Retention < stream[j].ms

\* Every entry is eventually stored and acknowledged: a failed upload, a lost
\* reply, a redelivery to the same worker or a kill only delays it.
EventuallyStored ==
    \A i \in Ids : i \in Published ~> i \in Published /\ Stored(i) /\ Acked(i)

=============================================================================
