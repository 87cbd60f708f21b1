-------------------------- MODULE IngestionPipeline --------------------------
(***************************************************************************)
(* services/ingestion: the feeds hand their events to a pipeline with two    *)
(* queues.  Trades and Kalshi quotes ("critical" events) are published in    *)
(* order and retried without limit; of a book only the newest is kept, and a *)
(* batch of books is given up after some attempts.  On shutdown the queues   *)
(* are drained, for a while.                                                 *)
(*                                                                          *)
(* A critical event is the number of its acceptance; a book event is         *)
(* <<key, n>>, the n-th of its key.  Nothing is persisted: what a process    *)
(* has not published when it ends is gone.                                   *)
(***************************************************************************)
EXTENDS Integers, Sequences, FiniteSets

CONSTANTS Keys,          \* (stream, venue, instrument, market) of a book
          MaxSize,       \* settings.queue_maxsize
          BatchSize,     \* settings.publish_batch_size
          RetryLimit,    \* attempts of the book publisher
          MaxCritical,   \* bound: critical events
          MaxBooks,      \* bound: book events of a key
          MaxFaults      \* bound: failed attempts and refused commands

ASSUME ConstantsOK ==
    /\ MaxSize \in Nat \ {0} /\ BatchSize \in Nat \ {0} /\ RetryLimit \in Nat \ {0}
    /\ MaxCritical \in Nat /\ MaxBooks \in Nat /\ MaxFaults \in Nat

Publishers == {"critical", "book"}
BookEvents == Keys \X (1..MaxBooks)
Events(p) == IF p = "critical" THEN 1..MaxCritical ELSE BookEvents

VARIABLES
    accepted, offered,   \* how many events were put: critical ones, and per key
    queue,               \* the two asyncio.Queues: of events, and of book keys
    unfinished,          \* their unfinished_tasks, which join waits for
    latest,              \* _latest_books: the number of the newest book, or None
    queued,              \* _queued_books
    task,                \* _run_critical and _run_books
    stream,              \* Redis: what each publisher has appended
    late,                \* commands of failed attempts that Redis may yet execute
    service, drained,    \* the life of the service; whether drain returned
    refused, dropped,    \* history: events refused by Redis, books given up
    faults

pipeline == <<accepted, offered, queue, unfinished, latest, queued>>
redis == <<stream, late, refused>>
life == <<service, drained>>
vars == <<pipeline, task, redis, life, dropped, faults>>

None == 0

-----------------------------------------------------------------------------

\* A task: pc is the await it is at; batch holds what it took from its queue;
\* events is what publish_many was called with, wire the XADDs of the present
\* attempt that Redis has not executed; error says that one was refused.
Idle == [pc |-> "get", batch |-> <<>>, events |-> <<>>, wire |-> <<>>,
         failures |-> 0, error |-> FALSE]
Gone == [Idle EXCEPT !.pc = "gone"]

Init ==
    /\ accepted = 0 /\ offered = [k \in Keys |-> 0]
    /\ queue = [p \in Publishers |-> <<>>]
    /\ unfinished = [p \in Publishers |-> 0]
    /\ latest = [k \in Keys |-> None] /\ queued = {}
    /\ task = [p \in Publishers |-> Idle]
    /\ stream = [p \in Publishers |-> <<>>] /\ late = [p \in Publishers |-> {}]
    /\ refused = [p \in Publishers |-> {}]
    /\ service = "running" /\ drained = FALSE
    /\ dropped = {} /\ faults = 0

At(p, pc) == task[p].pc = pc
Becomes(p, t) == task' = [task EXCEPT ![p] = t]
Enqueue(p, x) ==
    /\ queue' = [queue EXCEPT ![p] = Append(@, x)]
    /\ unfinished' = [unfinished EXCEPT ![p] = @ + 1]

-----------------------------------------------------------------------------
(* put, called by the feeds *)

\* A feed waits in Queue.put while the queue is full.
PutCritical ==
    /\ service = "running" /\ accepted < MaxCritical
    /\ Len(queue["critical"]) < MaxSize
    /\ accepted' = accepted + 1
    /\ Enqueue("critical", accepted')
    /\ UNCHANGED <<offered, latest, queued, task, redis, life, dropped, faults>>

\* Mutant of PutBook: the book that waits is kept, not the new one.
PutKeepsFirst(k) ==
    /\ service = "running" /\ offered[k] < MaxBooks
    /\ offered' = [offered EXCEPT ![k] = @ + 1]
    /\ latest' = [latest EXCEPT ![k] = IF k \in queued THEN @ ELSE offered'[k]]
    /\ IF k \notin queued /\ Len(queue["book"]) < MaxSize
       THEN Enqueue("book", k) /\ queued' = queued \cup {k}
       ELSE UNCHANGED <<queue, unfinished, queued>>
    /\ UNCHANGED <<accepted, task, redis, life, dropped, faults>>

\* A book whose key finds the queue full is kept, but its key is not queued.
PutBook(k) ==
    /\ service = "running" /\ offered[k] < MaxBooks
    /\ offered' = [offered EXCEPT ![k] = @ + 1]
    /\ latest' = [latest EXCEPT ![k] = offered'[k]]
    /\ IF k \notin queued /\ Len(queue["book"]) < MaxSize
       THEN Enqueue("book", k) /\ queued' = queued \cup {k}
       ELSE UNCHANGED <<queue, unfinished, queued>>
    /\ UNCHANGED <<accepted, task, redis, life, dropped, faults>>

-----------------------------------------------------------------------------
(* publish_many *)

\* The first attempt.  An empty batch returns at once; no batch is empty.
Publishing(batch, events) == [pc |-> "execute", batch |-> batch, events |-> events,
                              wire |-> events, failures |-> 0, error |-> FALSE]

\* Redis executes the next command of the attempt, or refuses it (out of memory,
\* wrong type) and goes on with the next one, for the pipeline is no transaction.
XAdd(p, refuse) ==
    LET t == task[p]
    IN /\ At(p, "execute") /\ t.wire # <<>>
       /\ Becomes(p, [t EXCEPT !.wire = Tail(@), !.error = @ \/ refuse])
       /\ IF refuse
          THEN /\ faults < MaxFaults /\ faults' = faults + 1
               /\ refused' = [refused EXCEPT ![p] = @ \cup {Head(t.wire)}] /\ UNCHANGED stream
          ELSE /\ stream' = [stream EXCEPT ![p] = Append(@, Head(t.wire))]
               /\ UNCHANGED <<refused, faults>>
    /\ UNCHANGED <<pipeline, late, life, dropped>>

\* Commands of an attempt that timed out may be executed later, or never.
LateXAdd(p, refuse) ==
    /\ \E l \in late[p] :
        /\ late' = [late EXCEPT ![p] = (@ \ {l}) \cup
               IF Len(l.wire) = 1 THEN {} ELSE {[l EXCEPT !.wire = Tail(@)]}]
        /\ IF refuse
           THEN /\ faults < MaxFaults /\ faults' = faults + 1
                /\ refused' = [refused EXCEPT ![p] = @ \cup {Head(l.wire)}]
                /\ UNCHANGED stream
           ELSE /\ stream' = [stream EXCEPT ![p] = Append(@, Head(l.wire))]
                /\ UNCHANGED <<refused, faults>>
    /\ UNCHANGED <<pipeline, task, life, dropped>>

\* The connection is given up; what it was sent is late.
Leftover(p) ==
    late[p] \cup IF task[p].wire = <<>> THEN {}
                 ELSE {[attempt |-> faults, wire |-> task[p].wire]}

\* The batch is done: task_done for each of its members.
Finished(p) ==
    /\ Becomes(p, Idle)
    /\ unfinished' = [unfinished EXCEPT ![p] = @ - Len(task[p].batch)]

\* Mutant of Reply: publish_many returns once the commands are sent.
ReplyEarly(p) ==
    /\ At(p, "execute") /\ ~task[p].error
    /\ late' = [late EXCEPT ![p] = Leftover(p)]
    /\ Finished(p)
    /\ UNCHANGED <<accepted, offered, queue, latest, queued, stream, refused, life, dropped, faults>>

\* Every reply was read: publish_many returns.
Reply(p) ==
    /\ At(p, "execute") /\ task[p].wire = <<>> /\ ~task[p].error
    /\ Finished(p)
    /\ UNCHANGED <<accepted, offered, queue, latest, queued, redis, life, dropped, faults>>

\* Mutant of Fail: the critical task has the finally block of the book task.
FailFinishes(p) ==
    /\ At(p, "execute") /\ task[p].wire = <<>> /\ task[p].error
    /\ Becomes(p, Gone)
    /\ unfinished' = [unfinished EXCEPT ![p] = @ - Len(task[p].batch)]
    /\ UNCHANGED <<accepted, offered, queue, latest, queued, redis, life, dropped, faults>>

\* A reply is an error, which nothing catches: the task ends.  The critical task
\* keeps its events unfinished, the book task has its finally block.
Fail(p) ==
    /\ At(p, "execute") /\ task[p].wire = <<>> /\ task[p].error
    /\ Becomes(p, Gone)
    /\ unfinished' = [unfinished EXCEPT ![p] =
                          IF p = "book" THEN @ - Len(task[p].batch) ELSE @]
    /\ UNCHANGED <<accepted, offered, queue, latest, queued, redis, life, dropped, faults>>

\* A connection or timeout error: what Redis has executed is not known.
LastAttempt(p) == p = "book" /\ task[p].failures + 1 >= RetryLimit

\* Mutant of ConnectionError: a critical batch is given up, too.
ConnectionErrorDrops(p) ==
    /\ At(p, "execute")
    /\ faults < MaxFaults /\ faults' = faults + 1
    /\ late' = [late EXCEPT ![p] = Leftover(p)]
    /\ Finished(p)
    /\ UNCHANGED <<accepted, offered, queue, latest, queued, stream, refused, life, dropped>>

ConnectionError(p) ==
    /\ At(p, "execute") /\ ~LastAttempt(p)
    /\ faults < MaxFaults /\ faults' = faults + 1
    /\ late' = [late EXCEPT ![p] = Leftover(p)]
    /\ Becomes(p, [task[p] EXCEPT !.pc = "backoff", !.wire = <<>>,
                       !.failures = IF p = "book" THEN @ + 1 ELSE @])
    /\ UNCHANGED <<pipeline, stream, refused, life, dropped>>

\* The book publisher gives up and _run_books drops the batch.
GiveUp ==
    /\ At("book", "execute") /\ LastAttempt("book")
    /\ faults < MaxFaults /\ faults' = faults + 1
    /\ late' = [late EXCEPT !["book"] = Leftover("book")]
    /\ dropped' = dropped \cup {task["book"].events[n] : n \in DOMAIN task["book"].events}
    /\ Finished("book")
    /\ UNCHANGED <<accepted, offered, queue, latest, queued, stream, refused, life>>

\* The whole batch again, on a new connection.
Retry(p) ==
    /\ At(p, "backoff")
    /\ Becomes(p, [task[p] EXCEPT !.pc = "execute", !.wire = task[p].events, !.error = FALSE])
    /\ UNCHANGED <<pipeline, redis, life, dropped, faults>>

-----------------------------------------------------------------------------
(* _run_critical *)

GetCritical ==
    /\ queue["critical"] # <<>>
    /\ \/ At("critical", "get")
       \/ At("critical", "gather") /\ Len(task["critical"].batch) < BatchSize
    /\ queue' = [queue EXCEPT !["critical"] = Tail(@)]
    /\ Becomes("critical", [task["critical"] EXCEPT !.pc = "gather",
                                !.batch = Append(@, Head(queue["critical"]))])
    /\ UNCHANGED <<accepted, offered, unfinished, latest, queued, redis, life, dropped, faults>>

\* The batch is full, or the deadline has passed.
PublishCritical ==
    /\ At("critical", "gather")
    /\ Becomes("critical", Publishing(task["critical"].batch, task["critical"].batch))
    /\ UNCHANGED <<pipeline, redis, life, dropped, faults>>

-----------------------------------------------------------------------------
(* _run_books *)

GetBook ==
    /\ At("book", "get") /\ queue["book"] # <<>>
    /\ queue' = [queue EXCEPT !["book"] = Tail(@)]
    /\ Becomes("book", [task["book"] EXCEPT !.pc = "sleep", !.batch = <<Head(queue["book"])>>])
    /\ UNCHANGED <<accepted, offered, unfinished, latest, queued, redis, life, dropped, faults>>

\* After the sleep: the keys that are queued by now, and their newest books.
Collected ==
    LET size == IF Len(queue["book"]) < BatchSize THEN Len(queue["book"]) ELSE BatchSize - 1
    IN task["book"].batch \o SubSeq(queue["book"], 1, size)

\* Mutant of CollectBooks: the keys stay in _queued_books.
CollectKeepsQueued ==
    LET keys == Collected
        taken == {keys[n] : n \in DOMAIN keys}
    IN /\ At("book", "sleep")
       /\ queue' = [queue EXCEPT !["book"] = SubSeq(@, Len(keys), Len(@))]
       /\ Becomes("book", Publishing(keys,
                               [n \in DOMAIN keys |-> <<keys[n], latest[keys[n]]>>]))
       /\ latest' = [k \in Keys |-> IF k \in taken THEN None ELSE latest[k]]
       /\ UNCHANGED <<accepted, offered, unfinished, queued, redis, life, dropped, faults>>

CollectBooks ==
    LET keys == Collected
        taken == {keys[n] : n \in DOMAIN keys}
    IN /\ At("book", "sleep")
       /\ queue' = [queue EXCEPT !["book"] = SubSeq(@, Len(keys), Len(@))]
       /\ Becomes("book", Publishing(keys,
                               [n \in DOMAIN keys |-> <<keys[n], latest[keys[n]]>>]))
       /\ latest' = [k \in Keys |-> IF k \in taken THEN None ELSE latest[k]]
       /\ queued' = queued \ taken
       /\ UNCHANGED <<accepted, offered, unfinished, redis, life, dropped, faults>>

-----------------------------------------------------------------------------
(* IngestionService.run *)

\* The stop event is set, or a feed or the pipeline has ended: gather ends with
\* the first task that fails and leaves the other one running.  The feeds are
\* cancelled; an event a feed still waits to put is lost with it.
Stop ==
    /\ service = "running"
    /\ service' = "draining"
    /\ UNCHANGED <<pipeline, task, redis, drained, dropped, faults>>

\* drain has returned, or the grace period is over.  What is left is cancelled.
Ending(return) ==
    /\ service = "draining"
    /\ return => \A p \in Publishers : unfinished[p] = 0
    /\ service' = "stopped" /\ drained' = return
    /\ late' = [p \in Publishers |-> Leftover(p)]
    /\ task' = [p \in Publishers |-> Gone]
    /\ UNCHANGED <<pipeline, stream, refused, dropped, faults>>

-----------------------------------------------------------------------------

Publisher(p) == Reply(p) \/ Fail(p) \/ ConnectionError(p) \/ Retry(p)
CriticalTask == GetCritical \/ PublishCritical \/ Publisher("critical")
BookTask == GetBook \/ CollectBooks \/ GiveUp \/ Publisher("book")

Next ==
    \/ PutCritical \/ \E k \in Keys : PutBook(k)
    \/ CriticalTask \/ BookTask
    \/ \E p \in Publishers, refuse \in BOOLEAN : XAdd(p, refuse) \/ LateXAdd(p, refuse)
    \/ Stop \/ \E return \in BOOLEAN : Ending(return)

Spec == Init /\ [][Next]_vars

-----------------------------------------------------------------------------
(* Properties *)

Keyed(p) == IF p = "critical" THEN 1..MaxCritical ELSE Keys
Task(p) == [pc: {"get", "gather", "sleep", "execute", "backoff", "gone"},
            batch: Seq(Keyed(p)), events: Seq(Events(p)), wire: Seq(Events(p)),
            failures: 0..RetryLimit, error: BOOLEAN]

\* Types of the variables.
TypeOK ==
    /\ accepted \in 0..MaxCritical /\ offered \in [Keys -> 0..MaxBooks]
    /\ \A p \in Publishers :
           /\ queue[p] \in Seq(Keyed(p)) /\ Len(queue[p]) <= MaxSize
           /\ unfinished[p] \in Nat /\ Len(queue[p]) <= unfinished[p]
           /\ task[p] \in Task(p)
           /\ stream[p] \in Seq(Events(p)) /\ refused[p] \subseteq Events(p)
           /\ \A l \in late[p] : /\ l.attempt \in 0..MaxFaults
                                 /\ l.wire \in Seq(Events(p)) /\ l.wire # <<>>
    /\ latest \in [Keys -> 0..MaxBooks] /\ queued \subseteq Keys
    /\ service \in {"running", "draining", "stopped"} /\ drained \in BOOLEAN
    /\ dropped \subseteq BookEvents /\ faults \in 0..MaxFaults

InLog(p) == {stream[p][n] : n \in DOMAIN stream[p]}

Feed == INSTANCE LosslessFeed WITH delivered <- InLog("critical"),
                                   refused <- refused["critical"]

\* "Keep trades/Kalshi quotes lossless": the pipeline implements LosslessFeed.
\* Repeated and late attempts, on several connections at once, may duplicate an
\* event but never let a later one into the log ahead of it.
InOrder == Feed!Spec

\* The keys of the next batch of books and of those after it.
Waiting == IF At("book", "sleep") THEN task["book"].batch \o queue["book"]
           ELSE queue["book"]

\* put and _run_books agree on which keys are queued: a key is queued once,
\* from put to the collection of its batch, and the newest book is the one that
\* will be published.  Only a key that found the queue full keeps a book and
\* stays out.
Coalesced ==
    /\ \A m, n \in DOMAIN Waiting : Waiting[m] = Waiting[n] => m = n
    /\ \A n \in DOMAIN Waiting : Waiting[n] \in queued
    /\ service # "stopped" => \A k \in queued : \E n \in DOMAIN Waiting : Waiting[n] = k
    /\ \A k \in queued : latest[k] = offered[k] /\ latest[k] # None
    /\ \A k \in Keys \ queued : latest[k] \in {None, offered[k]}

\* Every critical event is in the log, and of each book the newest was published,
\* given up, refused, or found the queue full.
Settled ==
    /\ InLog("critical") = 1..accepted
    /\ \A k \in Keys : offered[k] # 0 =>
           \/ <<k, offered[k]>> \in InLog("book") \cup dropped \cup refused["book"]
           \/ latest[k] = offered[k] /\ k \notin queued

\* When drain returns before the grace period is over, whatever failed before, no
\* event that was accepted is lost.
DrainLosesNothing == drained => Settled

\* What the service does without being asked: its tasks run, Redis answers, and a
\* task that has failed ends the service.
Progress ==
    \/ CriticalTask \/ BookTask \/ \E p \in Publishers : XAdd(p, FALSE)
    \/ Stop /\ \E p \in Publishers : At(p, "gone")

\* The pipeline never gets stuck: it comes to rest only when everything accepted
\* is in the log.  Every step uses up an event, a command or a fault, of which an
\* instance has finitely many, so that it does come to rest there.
NothingStuck == service = "running" /\ ~ENABLED Progress => Settled

\* A book first appears in the log after a newer one of its key only if its batch
\* was given up or refused: commands of the attempts may then be executed late.
BookOrder ==
    LET s == stream["book"]
    IN \A m, n \in DOMAIN s :
           m < n /\ s[m][1] = s[n][1] /\ s[n][2] < s[m][2] =>
               \/ \E i \in 1..(m - 1) : s[i] = s[n]
               \/ s[n] \in dropped \cup refused["book"]
=============================================================================
