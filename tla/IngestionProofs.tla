-------------------------- MODULE IngestionProofs --------------------------
(***************************************************************************)
(* What holds of IngestionPipeline for every value of its constants: its     *)
(* types, the agreement of put and _run_books on the queued keys, the order  *)
(* of the log, what a drain that returns has achieved, and what is settled   *)
(* when the pipeline comes to rest.                                         *)
(***************************************************************************)
EXTENDS IngestionPipeline, SequenceTheorems, TLAPS

-----------------------------------------------------------------------------
(* The inductive invariant: types *)

Shape ==
    /\ DOMAIN queue = Publishers /\ DOMAIN unfinished = Publishers
    /\ DOMAIN task = Publishers /\ DOMAIN stream = Publishers
    /\ DOMAIN late = Publishers /\ DOMAIN refused = Publishers

\* The state of one publisher.  Its queue and its batch hold what is unfinished;
\* the book task has one key while it sleeps, and none when it waits for one.
Local(p) ==
    /\ queue[p] \in Seq(Keyed(p)) /\ Len(queue[p]) <= MaxSize
    /\ unfinished[p] \in Nat /\ Len(queue[p]) + Len(task[p].batch) <= unfinished[p]
    /\ task[p] \in Task(p)
    /\ stream[p] \in Seq(Events(p)) /\ refused[p] \subseteq Events(p)
    /\ \A l \in late[p] : /\ l.attempt \in 0..MaxFaults
                          /\ l.wire \in Seq(Events(p)) /\ l.wire # <<>>
    /\ p = "critical" => task[p].pc # "sleep"
    /\ p = "book" => task[p].pc # "gather"
    /\ task[p].pc \in {"get", "gone"} => task[p].batch = <<>>
    /\ task[p].pc = "sleep" => Len(task[p].batch) = 1

Global ==
    /\ accepted \in 0..MaxCritical /\ offered \in [Keys -> 0..MaxBooks]
    /\ latest \in [Keys -> 0..MaxBooks] /\ queued \subseteq Keys
    /\ service \in {"running", "draining", "stopped"} /\ drained \in BOOLEAN
    /\ dropped \subseteq BookEvents /\ faults \in 0..MaxFaults

Typed == Shape /\ Global /\ \A p \in Publishers : Local(p)

LEMMA TypedImpliesTypeOK == ASSUME ConstantsOK, Typed PROVE TypeOK
<1>1. ASSUME NEW p \in Publishers
      PROVE Len(queue[p]) <= unfinished[p]
  <2>1. Local(p) /\ Shape
    BY DEF Typed
  <2>2. task[p].batch \in Seq(Keyed(p))
    BY <2>1 DEF Local, Task
  <2>3. Len(task[p].batch) \in Nat /\ Len(queue[p]) \in Nat
    BY <2>1, <2>2, LenProperties DEF Local
  <2> QED
    BY <2>1, <2>3 DEF Local, Shape
<1> QED
  BY <1>1 DEF Typed, TypeOK, Local, Global

\* What a step does not touch of a publisher keeps its state.
Same(p) ==
    /\ queue'[p] = queue[p] /\ unfinished'[p] = unfinished[p] /\ task'[p] = task[p]
    /\ stream'[p] = stream[p] /\ late'[p] = late[p] /\ refused'[p] = refused[p]

LEMMA LocalStays == ASSUME NEW p, Local(p), Same(p) PROVE Local(p)'
BY DEF Local, Same

LEMMA InitTyped == ASSUME ConstantsOK, Init PROVE Typed
<1>1. Shape
  BY DEF Init, Shape
<1>2. Global
  <2>1. accepted = 0 /\ offered = [k \in Keys |-> 0] /\ latest = [k \in Keys |-> 0] /\ queued = {}
    BY DEF Init, None
  <2>2. service = "running" /\ dropped = {} /\ faults = 0
    BY DEF Init
  <2>3. drained \in BOOLEAN
    BY DEF Init
  <2> QED
    BY <2>1, <2>2, <2>3 DEF Global, ConstantsOK
<1>3. ASSUME NEW p \in Publishers PROVE Local(p)
  <2>1. \A S : <<>> \in Seq(S) /\ Len(<<>>) = 0
    BY EmptySeq
  <2>2. Idle \in Task(p)
    BY <2>1 DEF Idle, Task, ConstantsOK
  <2>3. /\ task[p] = Idle /\ queue[p] = <<>> /\ unfinished[p] = 0
        /\ stream[p] = <<>> /\ late[p] = {} /\ refused[p] = {}
    BY DEF Init
  <2> QED
    BY <2>1, <2>2, <2>3 DEF Local, Idle, ConstantsOK
<1> QED
  BY <1>1, <1>2, <1>3 DEF Typed

-----------------------------------------------------------------------------
(* Steps of one publisher *)

CriticalStep == PutCritical \/ GetCritical \/ PublishCritical
BookStep == (\E k \in Keys : PutBook(k)) \/ GetBook \/ CollectBooks \/ GiveUp
StepOf(p) ==
    \/ p = "critical" /\ CriticalStep
    \/ p = "book" /\ BookStep
    \/ Publisher(p)
    \/ \E refuse \in BOOLEAN : XAdd(p, refuse) \/ LateXAdd(p, refuse)

LEMMA NextCases ==
    ASSUME Next
    PROVE  (\E p \in Publishers : StepOf(p)) \/ Stop \/ \E return \in BOOLEAN : Ending(return)
BY DEF Next, CriticalTask, BookTask, StepOf, CriticalStep, BookStep, Publishers

LEMMA Others ==
    ASSUME Shape, NEW p \in Publishers, NEW q \in Publishers, q # p, StepOf(p)
    PROVE  Same(q)
<1>1. CASE p = "critical" /\ CriticalStep
  BY <1>1 DEF CriticalStep, PutCritical, GetCritical, PublishCritical, Enqueue, Becomes,
              redis, pipeline, Same, Shape
<1>2. CASE p = "book" /\ BookStep
  BY <1>2 DEF BookStep, PutBook, GetBook, CollectBooks, GiveUp, Finished, Enqueue, Becomes,
              redis, pipeline, Same, Shape
<1>3. CASE Publisher(p)
  BY <1>3 DEF Publisher, Reply, Fail, ConnectionError, Retry, Finished, Becomes,
              redis, pipeline, Same, Shape
<1>4. ASSUME NEW refuse \in BOOLEAN, XAdd(p, refuse) \/ LateXAdd(p, refuse)
      PROVE  Same(q)
  BY <1>4 DEF XAdd, LateXAdd, Becomes, redis, pipeline, Same, Shape
<1> QED
  BY <1>1, <1>2, <1>3, <1>4 DEF StepOf

LEMMA ShapeStays == ASSUME Shape, [Next]_vars PROVE Shape'
<1>1. ASSUME NEW p \in Publishers, StepOf(p) PROVE Shape'
  <2>1. CASE p = "critical" /\ CriticalStep
    BY <2>1 DEF CriticalStep, PutCritical, GetCritical, PublishCritical, Enqueue, Becomes,
                redis, pipeline, Shape
  <2>2. CASE p = "book" /\ BookStep
    BY <2>2 DEF BookStep, PutBook, GetBook, CollectBooks, GiveUp, Finished, Enqueue, Becomes,
                redis, pipeline, Shape
  <2>3. CASE Publisher(p)
    BY <2>3 DEF Publisher, Reply, Fail, ConnectionError, Retry, Finished, Becomes,
                redis, pipeline, Shape
  <2>4. ASSUME NEW refuse \in BOOLEAN, XAdd(p, refuse) \/ LateXAdd(p, refuse)
        PROVE  Shape'
    BY <2>4 DEF XAdd, LateXAdd, Becomes, redis, pipeline, Shape
  <2> QED
    BY <1>1, <2>1, <2>2, <2>3, <2>4 DEF StepOf
<1>2. CASE Stop
  BY <1>2 DEF Stop, pipeline, redis, Shape
<1>3. ASSUME NEW return \in BOOLEAN, Ending(return) PROVE Shape'
  BY <1>3 DEF Ending, pipeline, Shape
<1>4. CASE UNCHANGED vars
  BY <1>4 DEF vars, pipeline, redis, Shape
<1> QED
  BY <1>1, <1>2, <1>3, <1>4, NextCases

-----------------------------------------------------------------------------
(* Types are kept *)

LEMMA LeftoverTyped ==
    ASSUME Global, NEW p, Local(p), NEW l \in Leftover(p)
    PROVE  l.attempt \in 0..MaxFaults /\ l.wire \in Seq(Events(p)) /\ l.wire # <<>>
<1>1. task[p].wire \in Seq(Events(p)) /\ faults \in 0..MaxFaults
  BY DEF Local, Global, Task
<1> QED
  BY <1>1 DEF Leftover, Local

\* The actions of publish_many.
LEMMA PublisherLocal ==
    ASSUME ConstantsOK, Shape, Global, NEW p \in Publishers, Local(p), Publisher(p)
    PROVE  Local(p)'
<1>1. task[p] \in Task(p) /\ task[p].batch \in Seq(Keyed(p)) /\ Len(task[p].batch) \in Nat
      /\ task[p].wire \in Seq(Events(p)) /\ task[p].events \in Seq(Events(p))
      /\ Len(queue[p]) \in Nat
  <2>1. task[p] \in Task(p) /\ task[p].batch \in Seq(Keyed(p)) /\ queue[p] \in Seq(Keyed(p))
        /\ task[p].wire \in Seq(Events(p)) /\ task[p].events \in Seq(Events(p))
    BY DEF Local, Task
  <2> QED
    BY <2>1, LenProperties
<1>2. \A S : <<>> \in Seq(S) /\ Len(<<>>) = 0
  BY EmptySeq
<1>3. Idle \in Task(p) /\ Gone \in Task(p) /\ Idle.batch = <<>> /\ Gone.batch = <<>>
      /\ Idle.pc = "get" /\ Gone.pc = "gone"
  <2>1. Idle \in Task(p) /\ Idle.batch = <<>> /\ Idle.pc = "get"
    BY <1>2 DEF Idle, Task, ConstantsOK
  <2>2. Gone.batch = <<>> /\ Gone.pc = "gone"
    BY DEF Idle, Gone
  <2>3. Gone \in Task(p)
    BY <2>1 DEF Gone, Task
  <2> QED
    BY <2>1, <2>2, <2>3
<1>4. ASSUME queue'[p] = queue[p], stream'[p] = stream[p], refused'[p] = refused[p],
             late'[p] = late[p], task'[p] \in {Idle, Gone},
             unfinished'[p] \in {unfinished[p], unfinished[p] - Len(task[p].batch)}
      PROVE  Local(p)'
  <2>1. unfinished'[p] \in Nat /\ Len(queue[p]) <= unfinished'[p]
    BY <1>1, <1>4 DEF Local, Shape
  <2>2. task'[p] \in Task(p) /\ task'[p].batch = <<>> /\ task'[p].pc \in {"get", "gone"}
    BY <1>3, <1>4
  <2>3. Len(queue[p]) + Len(task'[p].batch) <= unfinished'[p]
    BY <1>1, <1>2, <2>1, <2>2
  <2> QED
    BY <1>2, <1>4, <2>1, <2>2, <2>3 DEF Local
<1>5. CASE Reply(p)
  <2>1. queue'[p] = queue[p] /\ stream'[p] = stream[p] /\ refused'[p] = refused[p]
        /\ late'[p] = late[p] /\ task'[p] = Idle
        /\ unfinished'[p] = unfinished[p] - Len(task[p].batch)
    BY <1>5 DEF Reply, Finished, Becomes, redis, Shape
  <2> QED
    BY <1>4, <2>1
<1>6. CASE Fail(p)
  <2>1. queue'[p] = queue[p] /\ stream'[p] = stream[p] /\ refused'[p] = refused[p]
        /\ late'[p] = late[p] /\ task'[p] = Gone
        /\ unfinished'[p] \in {unfinished[p], unfinished[p] - Len(task[p].batch)}
    BY <1>6 DEF Fail, Becomes, redis, Shape
  <2> QED
    BY <1>4, <2>1
<1>7. CASE ConnectionError(p)
  <2> DEFINE t == [task[p] EXCEPT !.pc = "backoff", !.wire = <<>>,
                       !.failures = IF p = "book" THEN @ + 1 ELSE @]
  <2>1. queue'[p] = queue[p] /\ unfinished'[p] = unfinished[p] /\ stream'[p] = stream[p]
        /\ refused'[p] = refused[p] /\ late'[p] = Leftover(p) /\ task'[p] = t
        /\ ~LastAttempt(p) /\ task[p].pc = "execute"
    BY <1>7 DEF ConnectionError, Becomes, At, pipeline, Shape
  <2>2. t \in Task(p) /\ t.batch = task[p].batch /\ t.pc = "backoff"
    <3>1. (IF p = "book" THEN task[p].failures + 1 ELSE task[p].failures) \in 0..RetryLimit
      BY <1>1, <2>1, SMTT(30) DEF LastAttempt, Task, ConstantsOK, Publishers
    <3> QED
      BY <1>1, <1>2, <3>1 DEF Task
  <2>3. \A l \in Leftover(p) : l.attempt \in 0..MaxFaults /\ l.wire \in Seq(Events(p)) /\ l.wire # <<>>
    BY LeftoverTyped
  <2> HIDE DEF t
  <2> QED
    BY <2>1, <2>2, <2>3 DEF Local
<1>8. CASE Retry(p)
  <2> DEFINE t == [task[p] EXCEPT !.pc = "execute", !.wire = task[p].events, !.error = FALSE]
  <2>1. Same(p) \/ (queue'[p] = queue[p] /\ unfinished'[p] = unfinished[p] /\ stream'[p] = stream[p]
        /\ refused'[p] = refused[p] /\ late'[p] = late[p] /\ task'[p] = t)
    BY <1>8 DEF Retry, Becomes, redis, pipeline, Shape
  <2>2. t \in Task(p) /\ t.batch = task[p].batch /\ t.pc = "execute"
    BY <1>1 DEF Task
  <2> HIDE DEF t
  <2> QED
    BY <2>1, <2>2, LocalStays DEF Local
<1> QED
  BY <1>5, <1>6, <1>7, <1>8 DEF Publisher

\* Commands that Redis executes.
LEMMA RedisLocal ==
    ASSUME ConstantsOK, Shape, NEW p \in Publishers, Local(p),
           NEW refuse \in BOOLEAN, XAdd(p, refuse) \/ LateXAdd(p, refuse)
    PROVE  Local(p)'
<1>1. ASSUME NEW w \in Seq(Events(p)), w # <<>>,
             (/\ refused'[p] = refused[p] \cup {Head(w)} /\ stream'[p] = stream[p])
             \/ (refused'[p] = refused[p] /\ stream'[p] = Append(stream[p], Head(w)))
      PROVE  stream'[p] \in Seq(Events(p)) /\ refused'[p] \subseteq Events(p)
  <2>1. Head(w) \in Events(p)
    BY <1>1, HeadTailProperties
  <2>2. stream[p] \in Seq(Events(p)) /\ refused[p] \subseteq Events(p)
    BY DEF Local
  <2>3. Append(stream[p], Head(w)) \in Seq(Events(p))
    BY <2>1, <2>2, AppendProperties
  <2> QED
    BY <1>1, <2>1, <2>2, <2>3
<1>2. CASE XAdd(p, refuse)
  <2> DEFINE t == [task[p] EXCEPT !.wire = Tail(@), !.error = @ \/ refuse]
  <2>1. /\ queue'[p] = queue[p] /\ unfinished'[p] = unfinished[p] /\ late'[p] = late[p]
        /\ task'[p] = t /\ task[p].wire # <<>>
        /\ \/ refused'[p] = refused[p] \cup {Head(task[p].wire)} /\ stream'[p] = stream[p]
           \/ refused'[p] = refused[p] /\ stream'[p] = Append(stream[p], Head(task[p].wire))
    BY <1>2 DEF XAdd, Becomes, pipeline, Shape
  <2>2. task[p] \in Task(p) /\ task[p].wire \in Seq(Events(p))
    BY DEF Local, Task
  <2>3. stream'[p] \in Seq(Events(p)) /\ refused'[p] \subseteq Events(p)
    BY <1>1, <2>1, <2>2
  <2>4. t \in Task(p) /\ t.batch = task[p].batch /\ t.pc = task[p].pc
    <3>1. Tail(task[p].wire) \in Seq(Events(p))
      BY <2>1, <2>2, HeadTailProperties
    <3>2. (task[p].error \/ refuse) \in BOOLEAN
      BY <2>2 DEF Task
    <3> QED
      BY <2>2, <3>1, <3>2 DEF Task
  <2> HIDE DEF t
  <2> QED
    BY <2>1, <2>3, <2>4 DEF Local
<1>3. CASE LateXAdd(p, refuse)
  <2>1. PICK l \in late[p] :
           /\ queue'[p] = queue[p] /\ unfinished'[p] = unfinished[p] /\ task'[p] = task[p]
           /\ late'[p] = (late[p] \ {l}) \cup
                  IF Len(l.wire) = 1 THEN {} ELSE {[l EXCEPT !.wire = Tail(@)]}
           /\ \/ refused'[p] = refused[p] \cup {Head(l.wire)} /\ stream'[p] = stream[p]
              \/ refused'[p] = refused[p] /\ stream'[p] = Append(stream[p], Head(l.wire))
    BY <1>3 DEF LateXAdd, pipeline, Shape
  <2>2. l.attempt \in 0..MaxFaults /\ l.wire \in Seq(Events(p)) /\ l.wire # <<>>
    BY DEF Local
  <2>3. stream'[p] \in Seq(Events(p)) /\ refused'[p] \subseteq Events(p)
    BY <1>1, <2>1, <2>2
  <2>4. ASSUME Len(l.wire) # 1
        PROVE  Tail(l.wire) \in Seq(Events(p)) /\ Tail(l.wire) # <<>>
    <3>1. Tail(l.wire) \in Seq(Events(p)) /\ Len(Tail(l.wire)) = Len(l.wire) - 1
      BY <2>2, HeadTailProperties
    <3>2. Len(l.wire) \in Nat \ {0} /\ Len(<<>>) = 0
      BY <2>2, EmptySeq
    <3>3. Len(Tail(l.wire)) # 0
      BY <2>4, <3>1, <3>2
    <3> QED
      BY <3>1, <3>2, <3>3
  <2>5. \A m \in late'[p] : m.attempt \in 0..MaxFaults /\ m.wire \in Seq(Events(p)) /\ m.wire # <<>>
    <3>1. ASSUME Len(l.wire) # 1, NEW m, m = [l EXCEPT !.wire = Tail(@)]
          PROVE  m.attempt \in 0..MaxFaults /\ m.wire \in Seq(Events(p)) /\ m.wire # <<>>
      BY <2>2, <2>4, <3>1
    <3>2. \A m \in late[p] : m.attempt \in 0..MaxFaults /\ m.wire \in Seq(Events(p)) /\ m.wire # <<>>
      BY DEF Local
    <3> QED
      BY <2>1, <3>1, <3>2
  <2> QED
    BY <2>1, <2>3, <2>5 DEF Local
<1> QED
  BY <1>2, <1>3

LEMMA PublishingTask ==
    ASSUME ConstantsOK, NEW p, NEW batch \in Seq(Keyed(p)), NEW events \in Seq(Events(p))
    PROVE  Publishing(batch, events) \in Task(p)
BY DEF Publishing, Task, ConstantsOK

\* put and _run_critical.
LEMMA CriticalLocal ==
    ASSUME ConstantsOK, Shape, Global, Local("critical"), CriticalStep
    PROVE  Local("critical")'
<1> DEFINE c == "critical"  q == queue[c]  t == task[c]
<1>1. c \in Publishers /\ Keyed(c) = 1..MaxCritical /\ Events(c) = 1..MaxCritical
  BY DEF Publishers, Keyed, Events
<1>2. q \in Seq(Keyed(c)) /\ Len(q) \in Nat /\ Len(q) <= MaxSize /\ MaxSize \in Nat
      /\ t \in Task(c) /\ t.batch \in Seq(Keyed(c)) /\ Len(t.batch) \in Nat
      /\ unfinished[c] \in Nat /\ Len(q) + Len(t.batch) <= unfinished[c]
  <2>1. q \in Seq(Keyed(c)) /\ t \in Task(c) /\ t.batch \in Seq(Keyed(c))
    BY DEF Local, Task
  <2> QED
    BY <2>1, LenProperties DEF Local, ConstantsOK
<1>3. CASE PutCritical
  <2>1. /\ task'[c] = t /\ stream'[c] = stream[c] /\ late'[c] = late[c] /\ refused'[c] = refused[c]
        /\ queue'[c] = Append(q, accepted + 1) /\ unfinished'[c] = unfinished[c] + 1
        /\ Len(q) < MaxSize /\ accepted + 1 \in 1..MaxCritical
    <3>1. accepted' = accepted + 1 /\ accepted < MaxCritical /\ accepted \in Nat /\ MaxCritical \in Nat
      BY <1>3 DEF PutCritical, Global, ConstantsOK
    <3> QED
      BY <1>1, <1>3, <3>1 DEF PutCritical, Enqueue, redis, Shape
  <2> DEFINE r == Append(q, accepted + 1)
  <2>2. r \in Seq(Keyed(c)) /\ Len(r) = Len(q) + 1
    BY <1>1, <1>2, <2>1, AppendProperties
  <2>3. unfinished[c] + 1 \in Nat /\ Len(r) <= MaxSize
        /\ Len(r) + Len(t.batch) <= unfinished[c] + 1
    <3> DEFINE m == Len(q)  k == Len(t.batch)  n == unfinished[c]
    <3>1. /\ m \in Nat /\ k \in Nat /\ n \in Nat /\ m + k <= n /\ MaxSize \in Nat
          /\ m < MaxSize /\ Len(r) = m + 1
      BY <1>2, <2>1, <2>2
    <3> HIDE DEF r, m, k, n
    <3>2. n + 1 \in Nat /\ Len(r) <= MaxSize /\ Len(r) + k <= n + 1
      BY <3>1
    <3> QED
      BY <3>2 DEF m, k, n
  <2> HIDE DEF r
  <2> QED
    BY <2>1, <2>2, <2>3 DEF Local, r
<1>4. CASE GetCritical
  <2> DEFINE u == [t EXCEPT !.pc = "gather", !.batch = Append(@, Head(q))]
  <2>1. /\ task'[c] = u /\ stream'[c] = stream[c] /\ late'[c] = late[c] /\ refused'[c] = refused[c]
        /\ queue'[c] = Tail(q) /\ unfinished'[c] = unfinished[c] /\ q # <<>>
    BY <1>1, <1>4 DEF GetCritical, Becomes, redis, Shape
  <2>2. Head(q) \in Keyed(c) /\ queue'[c] \in Seq(Keyed(c)) /\ Len(queue'[c]) = Len(q) - 1
    BY <1>2, <2>1, HeadTailProperties
  <2>3. Append(t.batch, Head(q)) \in Seq(Keyed(c)) /\ Len(Append(t.batch, Head(q))) = Len(t.batch) + 1
    BY <1>2, <2>2, AppendProperties
  <2>4. u \in Task(c) /\ u.batch = Append(t.batch, Head(q)) /\ u.pc = "gather"
    BY <1>2, <2>3 DEF Task
  <2> HIDE DEF c, q, t, u
  <2>5. Len(queue'[c]) <= MaxSize /\ Len(queue'[c]) + Len(u.batch) <= unfinished[c]
    BY <1>2, <2>2, <2>3, <2>4
  <2> QED
    BY <1>2, <2>1, <2>2, <2>4, <2>5 DEF Local, c
<1>5. CASE PublishCritical
  <2>1. /\ task'[c] = Publishing(t.batch, t.batch) /\ stream'[c] = stream[c] /\ late'[c] = late[c]
        /\ refused'[c] = refused[c] /\ queue'[c] = q /\ unfinished'[c] = unfinished[c]
    BY <1>1, <1>5 DEF PublishCritical, Becomes, redis, pipeline, Shape
  <2> DEFINE u == Publishing(t.batch, t.batch)
  <2>2. u.batch = t.batch /\ u.pc = "execute"
    BY DEF Publishing
  <2>3. u \in Task(c)
    BY <1>1, <1>2, PublishingTask
  <2> HIDE DEF u
  <2> QED
    BY <1>2, <2>1, <2>2, <2>3 DEF Local, u
<1> QED
  BY <1>3, <1>4, <1>5 DEF CriticalStep

-----------------------------------------------------------------------------
(* The keys that wait *)

LEMMA AppendToConcat ==
    ASSUME NEW S, NEW b \in Seq(S), NEW q \in Seq(S), NEW k \in S
    PROVE  b \o Append(q, k) = Append(b \o q, k)
<1>1. Append(q, k) = q \o <<k>> /\ b \o q \in Seq(S) /\ <<k>> \in Seq(S)
  BY AppendIsConcat, ConcatProperties
<1>2. Append(b \o q, k) = (b \o q) \o <<k>>
  BY <1>1, AppendIsConcat
<1> QED
  BY <1>1, <1>2, ConcatAssociative

LEMMA MoveHead ==
    ASSUME NEW S, NEW b \in Seq(S), NEW q \in Seq(S), q # <<>>
    PROVE  Append(b, Head(q)) \o Tail(q) = b \o q
<1>1. Head(q) \in S /\ Tail(q) \in Seq(S) /\ <<Head(q)>> \in Seq(S) /\ q = <<Head(q)>> \o Tail(q)
  BY HeadTailProperties
<1>2. Append(b, Head(q)) = b \o <<Head(q)>>
  BY <1>1, AppendIsConcat
<1> HIDE <1>2
<1>3. (b \o <<Head(q)>>) \o Tail(q) = b \o (<<Head(q)>> \o Tail(q))
  BY <1>1, ConcatAssociative
<1> QED
  BY <1>1, <1>2, <1>3

LEMMA WaitingKeys ==
    ASSUME Local("book")
    PROVE  /\ Waiting \in Seq(Keys) /\ queue["book"] \in Seq(Keys)
           /\ task["book"].batch \in Seq(Keys)
<1>1. queue["book"] \in Seq(Keys) /\ task["book"].batch \in Seq(Keys)
  BY DEF Local, Keyed, Task
<1> QED
  BY <1>1, ConcatProperties DEF Waiting

\* CollectBooks splits them.
Rest == SubSeq(queue["book"], Len(Collected), Len(queue["book"]))

LEMMA CollectedKeys ==
    ASSUME ConstantsOK, Local("book"), At("book", "sleep")
    PROVE  /\ Collected \in Seq(Keys) /\ Rest \in Seq(Keys)
           /\ Len(Collected) + Len(Rest) = Len(Waiting)
           /\ Len(Collected) - 1 + Len(Rest) = Len(queue["book"]) /\ Len(Collected) >= 1
           /\ \A n \in 1..Len(Collected) : n \in DOMAIN Waiting /\ Collected[n] = Waiting[n]
           /\ \A n \in 1..Len(Rest) : /\ Len(Collected) + n \in DOMAIN Waiting
                                      /\ Rest[n] = Waiting[Len(Collected) + n]
<1> DEFINE q == queue["book"]  b == task["book"].batch
           size == IF Len(q) < BatchSize THEN Len(q) ELSE BatchSize - 1
           first == SubSeq(q, 1, size)
<1>1. /\ Waiting = b \o q /\ Collected = b \o first
      /\ Rest = SubSeq(q, Len(Collected), Len(q))
  BY DEF Waiting, Collected, Rest
<1>2. b \in Seq(Keys) /\ Len(b) = 1 /\ q \in Seq(Keys) /\ Len(q) \in Nat /\ size \in 0..Len(q)
      /\ DOMAIN Waiting = 1..Len(Waiting)
  <2>1. b \in Seq(Keys) /\ q \in Seq(Keys) /\ Len(b) = 1 /\ Waiting \in Seq(Keys)
    BY WaitingKeys DEF Local, At
  <2>2. Len(q) \in Nat /\ BatchSize \in Nat \ {0} /\ DOMAIN Waiting = 1..Len(Waiting)
    BY <2>1, LenProperties DEF ConstantsOK
  <2> HIDE DEF q, b
  <2> QED
    BY <2>1, <2>2
<1>3. \A k \in 1..Len(q) : q[k] \in Keys
  BY <1>2, ElementOfSeq
<1> HIDE DEF q, b, size
<1>4. /\ first \in Seq(Keys) /\ Len(first) = size
      /\ \A k \in 1..size : first[k] = q[k]
  <2>1. \A k \in 1..size : q[k] \in Keys
    BY <1>2, <1>3
  <2>2. /\ first \in Seq(Keys) /\ Len(first) = IF 1 <= size THEN size - 1 + 1 ELSE 0
        /\ \A k \in 1..(size - 1 + 1) : first[k] = q[1 + k - 1]
    BY <1>2, <2>1, SubSeqProperties
  <2> QED
    BY <1>2, <2>2
<1> HIDE DEF first
<1>5. /\ Collected \in Seq(Keys) /\ Len(Collected) = 1 + size
      /\ \A k \in 1..(1 + size) : Collected[k] = IF k <= 1 THEN b[k] ELSE first[k - 1]
  <2>1. /\ b \o first \in Seq(Keys) /\ Len(b \o first) = Len(b) + Len(first)
        /\ \A k \in 1..(Len(b) + Len(first)) :
               (b \o first)[k] = IF k <= Len(b) THEN b[k] ELSE first[k - Len(b)]
    BY <1>2, <1>4, ConcatProperties
  <2> QED
    BY <1>1, <1>2, <1>4, <2>1
<1>6. /\ Len(Waiting) = 1 + Len(q)
      /\ \A k \in 1..(1 + Len(q)) : Waiting[k] = IF k <= 1 THEN b[k] ELSE q[k - 1]
  <2>1. /\ Len(b \o q) = Len(b) + Len(q)
        /\ \A k \in 1..(Len(b) + Len(q)) :
               (b \o q)[k] = IF k <= Len(b) THEN b[k] ELSE q[k - Len(b)]
    BY <1>2, ConcatProperties
  <2> QED
    BY <1>1, <1>2, <2>1
<1>7. /\ Rest \in Seq(Keys) /\ Len(Rest) = Len(q) - size
      /\ \A k \in 1..(Len(q) - size) : Rest[k] = q[size + k]
  <2>1. \A k \in (1 + size)..Len(q) : q[k] \in Keys
    BY <1>2, <1>3
  <2>2. Rest = SubSeq(q, 1 + size, Len(q))
    BY <1>1, <1>5
  <2> HIDE DEF Rest
  <2>3. /\ Rest \in Seq(Keys) /\ Len(Rest) = IF 1 + size <= Len(q) THEN Len(q) - (1 + size) + 1 ELSE 0
        /\ \A k \in 1..(Len(q) - (1 + size) + 1) : Rest[k] = q[(1 + size) + k - 1]
    <3> DEFINE m == 1 + size  n == Len(q)
    <3>1. m \in Int /\ n \in Int /\ \A k \in m..n : q[k] \in Keys
      BY <1>2, <2>1
    <3> HIDE DEF m, n
    <3>2. /\ SubSeq(q, m, n) \in Seq(Keys) /\ Len(SubSeq(q, m, n)) = IF m <= n THEN n - m + 1 ELSE 0
          /\ \A k \in 1..(n - m + 1) : SubSeq(q, m, n)[k] = q[m + k - 1]
      BY <3>1, SubSeqProperties
    <3> QED
      BY <2>2, <3>2 DEF m, n
  <2>4. \A k \in 1..(Len(q) - size) : k \in 1..(Len(q) - (1 + size) + 1) /\ (1 + size) + k - 1 = size + k
    BY <1>2
  <2>5. Len(Rest) = Len(q) - size
    BY <1>2, <2>3
  <2> QED
    BY <2>3, <2>4, <2>5
<1> HIDE DEF Rest
<1>8. \A n \in 1..Len(Collected) : n \in DOMAIN Waiting /\ Collected[n] = Waiting[n]
  <2>1. SUFFICES ASSUME NEW n \in 1..(1 + size)
                 PROVE  n \in DOMAIN Waiting /\ Collected[n] = Waiting[n]
    BY <1>5
  <2>2. n \in 1..(1 + Len(q)) /\ (n <= 1 \/ n - 1 \in 1..size)
    BY <1>2
  <2> QED
    BY <1>2, <1>4, <1>5, <1>6, <2>2
<1>9. \A n \in 1..Len(Rest) : /\ Len(Collected) + n \in DOMAIN Waiting
                              /\ Rest[n] = Waiting[Len(Collected) + n]
  <2>1. SUFFICES ASSUME NEW n \in 1..(Len(q) - size)
                 PROVE  1 + size + n \in DOMAIN Waiting /\ Rest[n] = Waiting[1 + size + n]
    BY <1>5, <1>7
  <2>2. 1 + size + n \in 1..(1 + Len(q)) /\ ~(1 + size + n <= 1) /\ (1 + size + n) - 1 = size + n
    BY <1>2
  <2>3. Waiting[1 + size + n] = q[size + n]
    BY <1>6, <2>2
  <2>4. DOMAIN Waiting = 1..(1 + Len(q))
    BY <1>6, LenProperties, WaitingKeys
  <2> QED
    BY <1>7, <2>2, <2>3, <2>4
<1>10. /\ Len(Collected) + Len(Rest) = Len(Waiting)
       /\ Len(Collected) - 1 + Len(Rest) = Len(q) /\ Len(Collected) >= 1
  <2>1. Len(Collected) = 1 + size /\ Len(Rest) = Len(q) - size /\ Len(Waiting) = 1 + Len(q)
    BY <1>5, <1>6, <1>7
  <2> QED
    BY <1>2, <2>1
<1> QED
  BY <1>5, <1>7, <1>8, <1>9, <1>10 DEF q

\* The batch of CollectBooks: the newest book of each collected key.
Books == [n \in DOMAIN Collected |-> <<Collected[n], latest[Collected[n]]>>]

LEMMA CollectedBooks ==
    ASSUME ConstantsOK, Global, Local("book"), Coalesced, At("book", "sleep")
    PROVE  /\ Books \in Seq(BookEvents) /\ Len(Books) = Len(Collected)
           /\ \A n \in 1..Len(Collected) :
                  /\ Collected[n] \in queued /\ offered[Collected[n]] \in 1..MaxBooks
                  /\ Books[n] = <<Collected[n], offered[Collected[n]]>>
<1>1. Collected \in Seq(Keys) /\ Len(Collected) \in Nat /\ DOMAIN Collected = 1..Len(Collected)
  <2>1. Collected \in Seq(Keys)
    BY CollectedKeys
  <2> QED
    BY <2>1, LenProperties
<1>2. ASSUME NEW n \in 1..Len(Collected)
      PROVE  /\ Collected[n] \in Keys /\ Collected[n] \in queued
             /\ latest[Collected[n]] = offered[Collected[n]]
             /\ offered[Collected[n]] \in 1..MaxBooks
  <2>1. Collected[n] \in Keys
    BY <1>1, ElementOfSeq
  <2>2. Collected[n] \in queued
    BY CollectedKeys DEF Coalesced
  <2>3. latest[Collected[n]] = offered[Collected[n]] /\ latest[Collected[n]] # 0
    BY <2>2 DEF Coalesced, None
  <2>4. offered[Collected[n]] \in 0..MaxBooks /\ MaxBooks \in Nat
    BY <2>1 DEF Global, ConstantsOK
  <2> QED
    BY <2>1, <2>2, <2>3, <2>4
<1>3. \A n \in 1..Len(Collected) : /\ Books[n] = <<Collected[n], offered[Collected[n]]>>
                                   /\ Books[n] \in BookEvents
  BY <1>1, <1>2 DEF Books, BookEvents
<1>4. DOMAIN Books = 1..Len(Collected)
  BY <1>1 DEF Books
<1>5. Books \in [1..Len(Collected) -> BookEvents]
  <2>1. Books = [n \in DOMAIN Books |-> Books[n]]
    BY DEF Books
  <2> QED
    BY <1>3, <1>4, <2>1
<1> HIDE DEF Books
<1>6. Books \in Seq(BookEvents)
  BY <1>1, <1>5, SeqDef
<1>7. Len(Books) = Len(Collected)
  <2>1. DOMAIN Books = 1..Len(Books) /\ Len(Books) \in Nat
    BY <1>6, LenProperties
  <2> QED
    BY <1>1, <1>4, <2>1
<1> QED
  BY <1>2, <1>3, <1>6, <1>7

\* put and _run_books.
LEMMA BookLocal ==
    ASSUME ConstantsOK, Shape, Global, Local("book"), Coalesced, BookStep
    PROVE  Local("book")'
<1> DEFINE b == "book"  q == queue[b]  t == task[b]
<1>1. b \in Publishers /\ Keyed(b) = Keys /\ Events(b) = BookEvents
  BY DEF Publishers, Keyed, Events
<1>2. q \in Seq(Keys) /\ Len(q) \in Nat /\ Len(q) <= MaxSize /\ MaxSize \in Nat
      /\ t \in Task(b) /\ t.batch \in Seq(Keys) /\ Len(t.batch) \in Nat
      /\ unfinished[b] \in Nat /\ Len(q) + Len(t.batch) <= unfinished[b]
  <2>1. q \in Seq(Keys) /\ t \in Task(b) /\ t.batch \in Seq(Keys)
    BY <1>1 DEF Local, Task
  <2> QED
    BY <2>1, LenProperties DEF Local, ConstantsOK
<1>3. ASSUME NEW k \in Keys, PutBook(k) PROVE Local(b)'
  <2>1. CASE k \notin queued /\ Len(q) < MaxSize
    <3> DEFINE r == Append(q, k)  m == Len(q)  j == Len(t.batch)  n == unfinished[b]
    <3>1. /\ task'[b] = t /\ stream'[b] = stream[b] /\ late'[b] = late[b] /\ refused'[b] = refused[b]
          /\ queue'[b] = r /\ unfinished'[b] = n + 1
      BY <1>1, <1>3, <2>1 DEF PutBook, Enqueue, redis, Shape
    <3>2. r \in Seq(Keys) /\ Len(r) = m + 1
      BY <1>2, AppendProperties
    <3>3. /\ m \in Nat /\ j \in Nat /\ n \in Nat /\ m + j <= n /\ MaxSize \in Nat /\ m < MaxSize
      BY <1>2, <2>1
    <3> HIDE DEF m, j, n
    <3>4. n + 1 \in Nat /\ Len(r) <= MaxSize /\ Len(r) + j <= n + 1
      BY <3>2, <3>3
    <3> HIDE DEF r
    <3> QED
      BY <1>1, <3>1, <3>2, <3>4 DEF Local, j
  <2>2. CASE ~(k \notin queued /\ Len(q) < MaxSize)
    BY <1>3, <2>2, LocalStays DEF PutBook, redis, Same
  <2> QED
    BY <2>1, <2>2
<1>4. CASE GetBook
  <2> DEFINE u == [t EXCEPT !.pc = "sleep", !.batch = <<Head(q)>>]
  <2>1. /\ task'[b] = u /\ stream'[b] = stream[b] /\ late'[b] = late[b] /\ refused'[b] = refused[b]
        /\ queue'[b] = Tail(q) /\ unfinished'[b] = unfinished[b] /\ q # <<>> /\ t.pc = "get"
    BY <1>1, <1>4 DEF GetBook, At, Becomes, redis, Shape
  <2>2. Head(q) \in Keys /\ Tail(q) \in Seq(Keys) /\ Len(Tail(q)) = Len(q) - 1
    BY <1>2, <2>1, HeadTailProperties
  <2>3. <<Head(q)>> \in Seq(Keys) /\ Len(<<Head(q)>>) = 1
    BY <2>2
  <2>4. u \in Task(b) /\ u.batch = <<Head(q)>> /\ u.pc = "sleep"
    BY <1>1, <1>2, <2>3 DEF Task
  <2>5. Len(Tail(q)) <= MaxSize /\ Len(Tail(q)) + Len(u.batch) <= unfinished[b]
    <3> DEFINE m == Len(q)  j == Len(t.batch)  n == unfinished[b]
    <3>1. m \in Nat /\ j \in Nat /\ n \in Nat /\ m + j <= n /\ MaxSize \in Nat /\ m <= MaxSize
          /\ Len(Tail(q)) = m - 1 /\ Len(u.batch) = 1
      BY <1>2, <2>2, <2>3, <2>4
    <3> HIDE DEF u, m, j, n
    <3>2. Len(Tail(q)) <= MaxSize /\ Len(Tail(q)) + Len(u.batch) <= n
      BY <3>1
    <3> QED
      BY <3>2 DEF n
  <2> HIDE DEF u
  <2> QED
    BY <1>1, <1>2, <2>1, <2>2, <2>3, <2>4, <2>5 DEF Local
<1>5. CASE CollectBooks
  <2> DEFINE u == Publishing(Collected, Books)
  <2>1. /\ task'[b] = u /\ stream'[b] = stream[b] /\ late'[b] = late[b] /\ refused'[b] = refused[b]
        /\ queue'[b] = Rest /\ unfinished'[b] = unfinished[b] /\ At(b, "sleep")
    BY <1>1, <1>5 DEF CollectBooks, Becomes, redis, Shape, Books, Rest
  <2>2. /\ Collected \in Seq(Keys) /\ Rest \in Seq(Keys) /\ Books \in Seq(BookEvents)
        /\ Len(Collected) - 1 + Len(Rest) = Len(q) /\ Len(Collected) >= 1 /\ Len(t.batch) = 1
    BY <2>1, CollectedKeys, CollectedBooks DEF Local, At
  <2>3. u \in Task(b)
    BY <1>1, <2>2, PublishingTask
  <2>4. u.batch = Collected /\ u.pc = "execute"
    BY DEF Publishing
  <2>5. Len(Rest) <= MaxSize /\ Len(Rest) + Len(Collected) <= unfinished[b]
    <3> DEFINE m == Len(q)  n == unfinished[b]  i == Len(Rest)  j == Len(Collected)
    <3>1. m \in Nat /\ n \in Nat /\ m + 1 <= n /\ MaxSize \in Nat /\ m <= MaxSize
          /\ i \in Nat /\ j \in Nat /\ j - 1 + i = m /\ j >= 1
      BY <1>2, <2>2, LenProperties
    <3> HIDE DEF m, n, i, j
    <3>2. i <= MaxSize /\ i + j <= n
      BY <3>1
    <3> QED
      BY <3>2 DEF n, i, j
  <2> HIDE DEF u
  <2> QED
    BY <1>1, <1>2, <2>1, <2>2, <2>3, <2>4, <2>5 DEF Local
<1>6. CASE GiveUp
  <2> DEFINE n == unfinished[b] - Len(t.batch)
  <2>1. queue'[b] = q /\ stream'[b] = stream[b] /\ refused'[b] = refused[b]
        /\ late'[b] = Leftover(b) /\ task'[b] = Idle /\ unfinished'[b] = n
    BY <1>1, <1>6 DEF GiveUp, Finished, Becomes, Shape
  <2>2. <<>> \in Seq(Keys) /\ <<>> \in Seq(BookEvents) /\ Len(<<>>) = 0
    BY EmptySeq
  <2>3. Idle \in Task(b) /\ Idle.batch = <<>> /\ Idle.pc = "get"
    BY <1>1, <2>2 DEF Idle, Task, ConstantsOK
  <2>4. \A l \in Leftover(b) : l.attempt \in 0..MaxFaults /\ l.wire \in Seq(Events(b)) /\ l.wire # <<>>
    BY LeftoverTyped
  <2>5. n \in Nat /\ Len(q) + Len(Idle.batch) <= n
    BY <1>1, <1>2, <2>2, <2>3 DEF Shape
  <2> HIDE DEF n
  <2> QED
    BY <1>1, <1>2, <2>1, <2>3, <2>4, <2>5 DEF Local
<1> QED
  BY <1>3, <1>4, <1>5, <1>6 DEF BookStep

LEMMA GlobalStays == ASSUME ConstantsOK, Typed, Coalesced, Next PROVE Global'
<1>1. /\ accepted \in Nat /\ accepted <= MaxCritical /\ MaxCritical \in Nat
      /\ faults \in Nat /\ faults <= MaxFaults /\ MaxFaults \in Nat /\ MaxBooks \in Nat
      /\ Global
  BY DEF Typed, Global, ConstantsOK
<1>2. accepted' \in 0..MaxCritical /\ faults' \in 0..MaxFaults
  <2>1. accepted' = accepted \/ (accepted < MaxCritical /\ accepted' = accepted + 1)
    BY DEF Next, PutCritical, PutBook, CriticalTask, BookTask, Publisher, Reply, Fail,
           ConnectionError, Retry, GetCritical, PublishCritical, GetBook, CollectBooks, GiveUp,
           XAdd, LateXAdd, Stop, Ending, pipeline
  <2>2. faults' = faults \/ (faults < MaxFaults /\ faults' = faults + 1)
    BY DEF Next, PutCritical, PutBook, CriticalTask, BookTask, Publisher, Reply, Fail,
           ConnectionError, Retry, GetCritical, PublishCritical, GetBook, CollectBooks, GiveUp,
           XAdd, LateXAdd, Stop, Ending
  <2> QED
    BY <1>1, <2>1, <2>2
<1>3. /\ service' \in {"running", "draining", "stopped"}
  BY <1>1 DEF Global, Next, PutCritical, PutBook, CriticalTask, BookTask, Publisher, Reply, Fail,
              ConnectionError, Retry, GetCritical, PublishCritical, GetBook, CollectBooks, GiveUp,
              XAdd, LateXAdd, Stop, Ending, pipeline, redis, life
<1>4. drained' = drained \/ \E return \in BOOLEAN : drained' = return
  BY DEF Next, PutCritical, PutBook, CriticalTask, BookTask, Publisher, Reply, Fail,
         ConnectionError, Retry, GetCritical, PublishCritical, GetBook, CollectBooks, GiveUp,
         XAdd, LateXAdd, Stop, Ending, pipeline, redis, life
<1>5. drained' \in BOOLEAN
  BY <1>1, <1>4 DEF Global
<1>6. offered' \in [Keys -> 0..MaxBooks] /\ latest' \in [Keys -> 0..MaxBooks] /\ queued' \subseteq Keys
  <2>1. ASSUME NEW k \in Keys, PutBook(k)
        PROVE  offered' \in [Keys -> 0..MaxBooks] /\ latest' \in [Keys -> 0..MaxBooks] /\ queued' \subseteq Keys
    <3>1. offered[k] + 1 \in 0..MaxBooks
      BY <1>1, <2>1 DEF Global, PutBook
    <3>2. offered'[k] = offered[k] + 1 /\ offered' \in [Keys -> 0..MaxBooks]
      BY <1>1, <2>1, <3>1 DEF Global, PutBook
    <3>3. latest' \in [Keys -> 0..MaxBooks]
      BY <1>1, <2>1, <3>1, <3>2 DEF Global, PutBook
    <3> QED
      BY <1>1, <2>1, <3>2, <3>3 DEF Global, PutBook
  <2>2. CASE CollectBooks
    <3>1. offered' = offered /\ queued' \subseteq queued
      BY <2>2 DEF CollectBooks
    <3>2. latest' \in [Keys -> 0..MaxBooks]
      <4> DEFINE taken == {Collected[n] : n \in DOMAIN Collected}
      <4>1. latest' = [k \in Keys |-> IF k \in taken THEN 0 ELSE latest[k]]
        BY <2>2 DEF CollectBooks, None
      <4> HIDE DEF taken
      <4> QED
        BY <1>1, <4>1 DEF Global
    <3> QED
      BY <1>1, <3>1, <3>2 DEF Global
  <2>3. CASE UNCHANGED <<offered, latest, queued>>
    BY <1>1, <2>3 DEF Global
  <2> QED
    BY <2>1, <2>2, <2>3 DEF Next, PutCritical, CriticalTask, BookTask, Publisher, Reply, Fail,
       ConnectionError, Retry, GetCritical, PublishCritical, GetBook, GiveUp,
       XAdd, LateXAdd, Stop, Ending, pipeline
<1>7. dropped' \subseteq BookEvents
  <2>1. CASE GiveUp
    <3>1. task["book"].events \in Seq(BookEvents)
      BY DEF Typed, Publishers, Local, Task, Events
    <3>2. dropped' = dropped \cup {task["book"].events[n] : n \in DOMAIN task["book"].events}
      BY <2>1 DEF GiveUp
    <3>3. \A n \in DOMAIN task["book"].events : task["book"].events[n] \in BookEvents
      BY <3>1, ElementOfSeq, LenProperties
    <3> QED
      BY <1>1, <3>2, <3>3 DEF Global
  <2>2. CASE dropped' = dropped
    BY <1>1, <2>2 DEF Global
  <2> QED
    BY <2>1, <2>2 DEF Next, PutCritical, PutBook, CriticalTask, BookTask, Publisher, Reply, Fail,
       ConnectionError, Retry, GetCritical, PublishCritical, GetBook, CollectBooks,
       XAdd, LateXAdd, Stop, Ending
<1> QED
  BY <1>2, <1>3, <1>5, <1>6, <1>7 DEF Global

LEMMA EndingLocal ==
    ASSUME ConstantsOK, Shape, Global, NEW p \in Publishers, Local(p),
           NEW return \in BOOLEAN, Ending(return)
    PROVE  Local(p)'
<1>1. /\ queue'[p] = queue[p] /\ unfinished'[p] = unfinished[p] /\ stream'[p] = stream[p]
      /\ refused'[p] = refused[p] /\ late'[p] = Leftover(p) /\ task'[p] = Gone
  BY DEF Ending, pipeline
<1>2. \A S : <<>> \in Seq(S) /\ Len(<<>>) = 0
  BY EmptySeq
<1>3. Gone.batch = <<>> /\ Gone.pc = "gone"
  BY DEF Idle, Gone
<1>4. Gone \in Task(p)
  <2>1. Idle \in Task(p)
    BY <1>2 DEF Idle, Task, ConstantsOK
  <2> QED
    BY <2>1 DEF Gone, Task
<1>5. Len(queue[p]) + Len(Gone.batch) <= unfinished[p]
  <2> DEFINE m == Len(queue[p])  k == Len(task[p].batch)  n == unfinished[p]
  <2>1. m \in Nat /\ k \in Nat /\ n \in Nat /\ m + k <= n
    <3>1. queue[p] \in Seq(Keyed(p)) /\ task[p].batch \in Seq(Keyed(p))
      BY DEF Local, Task
    <3> QED
      BY <3>1, LenProperties DEF Local
  <2> HIDE DEF m, k, n
  <2>2. m + 0 <= n
    BY <2>1
  <2> QED
    BY <1>2, <1>3, <2>2 DEF m, n
<1>6. \A l \in Leftover(p) : l.attempt \in 0..MaxFaults /\ l.wire \in Seq(Events(p)) /\ l.wire # <<>>
  BY LeftoverTyped
<1> QED
  BY <1>1, <1>3, <1>4, <1>5, <1>6 DEF Local

LEMMA TypedStays == ASSUME ConstantsOK, Typed, Coalesced, [Next]_vars PROVE Typed'
<1>1. Shape'
  BY ShapeStays DEF Typed
<1>2. CASE Next
  <2>1. Global'
    BY <1>2, GlobalStays
  <2>2. ASSUME NEW q \in Publishers PROVE Local(q)'
    <3>1. Shape /\ Global /\ Local(q)
      BY DEF Typed
    <3>2. ASSUME NEW p \in Publishers, p # q, StepOf(p) PROVE Local(q)'
      BY <3>1, <3>2, Others, LocalStays
    <3>3. CASE StepOf(q)
      <4>1. CASE q = "critical" /\ CriticalStep
        BY <3>1, <4>1, CriticalLocal
      <4>2. CASE q = "book" /\ BookStep
        BY <3>1, <4>2, BookLocal
      <4>3. CASE Publisher(q)
        BY <3>1, <4>3, PublisherLocal
      <4>4. CASE \E refuse \in BOOLEAN : XAdd(q, refuse) \/ LateXAdd(q, refuse)
        BY <3>1, <4>4, RedisLocal
      <4> QED
        BY <3>3, <4>1, <4>2, <4>3, <4>4 DEF StepOf
    <3>4. CASE Stop
      BY <3>1, <3>4, LocalStays DEF Stop, pipeline, redis, Same
    <3>5. CASE \E return \in BOOLEAN : Ending(return)
      BY <3>1, <3>5, EndingLocal
    <3> QED
      BY <1>2, <3>2, <3>3, <3>4, <3>5, NextCases
  <2> QED
    BY <1>1, <2>1, <2>2 DEF Typed
<1>3. CASE UNCHANGED vars
  <2>1. Global'
    BY <1>3 DEF Typed, Global, vars, pipeline, redis, life
  <2>2. ASSUME NEW q \in Publishers PROVE Local(q)'
    BY <1>3, LocalStays DEF Typed, Same, vars, pipeline, redis
  <2> QED
    BY <1>1, <2>1, <2>2 DEF Typed
<1> QED
  BY <1>2, <1>3

-----------------------------------------------------------------------------
(* put and _run_books agree *)

LEMMA InitCoalesced == ASSUME Init PROVE Coalesced
<1>1. Waiting = <<>> /\ DOMAIN Waiting = {}
  <2>1. queue["book"] = <<>> /\ task["book"].pc = "get"
    BY DEF Init, Publishers, Idle
  <2> QED
    BY <2>1 DEF Waiting, At
<1> QED
  BY <1>1 DEF Init, Coalesced

LEMMA CoalescedStays == ASSUME ConstantsOK, Typed, Coalesced, [Next]_vars PROVE Coalesced'
<1>1. Shape /\ Global /\ Local("book") /\ "book" \in Publishers
  BY DEF Typed, Publishers
<1>2. ASSUME Waiting' = Waiting, UNCHANGED <<offered, latest, queued>>,
             service' # "stopped" => service # "stopped"
      PROVE  Coalesced'
  BY <1>2 DEF Coalesced
<1>3. ASSUME NEW k \in Keys, PutBook(k) PROVE Coalesced'
  <2>1. offered'[k] = offered[k] + 1 /\ latest'[k] = offered'[k] /\ offered[k] \in Nat
        /\ \A j \in Keys \ {k} : offered'[j] = offered[j] /\ latest'[j] = latest[j]
    BY <1>1, <1>3 DEF PutBook, Global
  <2>2. \A j \in queued : latest'[j] = offered'[j] /\ latest'[j] # None
    BY <1>1, <2>1 DEF Coalesced, Global, None
  <2>3. \A j \in Keys \ queued : latest'[j] \in {None, offered'[j]}
    BY <2>1 DEF Coalesced
  <2>4. CASE k \notin queued /\ Len(queue["book"]) < MaxSize
    <3>1. /\ queue'["book"] = Append(queue["book"], k) /\ task' = task
          /\ queued' = queued \cup {k} /\ service' = service
      BY <1>1, <1>3, <2>4 DEF PutBook, Enqueue, life, Shape
    <3>2. Waiting' = Append(Waiting, k)
      <4>1. task["book"].batch \in Seq(Keys) /\ queue["book"] \in Seq(Keys)
        BY <1>1, WaitingKeys
      <4>2. task["book"].batch \o Append(queue["book"], k) = Append(task["book"].batch \o queue["book"], k)
        <5>1. \A b, q \in Seq(Keys) : b \o Append(q, k) = Append(b \o q, k)
          BY AppendToConcat
        <5> QED
          BY <4>1, <5>1
      <4> QED
        BY <3>1, <4>2 DEF Waiting, At
    <3>3. /\ Waiting \in Seq(Keys) /\ Len(Waiting) \in Nat /\ DOMAIN Waiting = 1..Len(Waiting)
          /\ DOMAIN Waiting' = 1..(Len(Waiting) + 1)
          /\ \A n \in DOMAIN Waiting : Waiting'[n] = Waiting[n]
          /\ Waiting'[Len(Waiting) + 1] = k
      <4>1. Waiting \in Seq(Keys) /\ Len(Waiting) \in Nat /\ DOMAIN Waiting = 1..Len(Waiting)
        BY <1>1, WaitingKeys, LenProperties
      <4> QED
        BY <3>2, <4>1, AppendProperties, LenProperties
    <3> HIDE DEF Waiting
    <3>4. /\ \A n \in DOMAIN Waiting : Waiting[n] \in queued
          /\ \A m, n \in DOMAIN Waiting : Waiting[m] = Waiting[n] => m = n
          /\ service # "stopped" => \A j \in queued : \E n \in DOMAIN Waiting : Waiting[n] = j
      BY DEF Coalesced
    <3>5. \A m, n \in DOMAIN Waiting' : Waiting'[m] = Waiting'[n] => m = n
      BY <2>4, <3>3, <3>4
    <3>6. \A n \in DOMAIN Waiting' : Waiting'[n] \in queued'
      BY <3>1, <3>3, <3>4
    <3>7. service' # "stopped" => \A j \in queued' : \E n \in DOMAIN Waiting' : Waiting'[n] = j
      BY <3>1, <3>3, <3>4
    <3>8. (\A j \in queued' : latest'[j] = offered'[j] /\ latest'[j] # None)
      BY <2>1, <2>2, <3>1 DEF None
    <3> QED
      BY <2>3, <3>1, <3>5, <3>6, <3>7, <3>8 DEF Coalesced
  <2>5. CASE ~(k \notin queued /\ Len(queue["book"]) < MaxSize)
    <3>1. Waiting' = Waiting /\ queued' = queued /\ service' = service
      BY <1>3, <2>5 DEF PutBook, Waiting, At, life
    <3> QED
      BY <2>2, <2>3, <3>1 DEF Coalesced
  <2> QED
    BY <2>4, <2>5
<1>4. CASE GetBook
  <2>1. /\ queue["book"] # <<>> /\ task["book"].pc = "get" /\ queue'["book"] = Tail(queue["book"])
        /\ task'["book"].pc = "sleep" /\ task'["book"].batch = <<Head(queue["book"])>>
        /\ UNCHANGED <<offered, latest, queued, service>>
    <3>1. task["book"] \in Task("book")
      BY <1>1 DEF Local
    <3> QED
      BY <1>1, <1>4, <3>1 DEF GetBook, At, Becomes, life, Shape, Task
  <2>2. Waiting = queue["book"] /\ Waiting' = <<Head(queue["book"])>> \o Tail(queue["book"])
    BY <2>1 DEF Waiting, At
  <2>3. ASSUME NEW q \in Seq(Keys), q # <<>> PROVE <<Head(q)>> \o Tail(q) = q
    BY <2>3
  <2>4. Waiting' = Waiting
    BY <1>1, <2>1, <2>2, <2>3, WaitingKeys
  <2> QED
    BY <1>2, <2>1, <2>4
<1>5. CASE CollectBooks
  <2> DEFINE taken == {Collected[n] : n \in DOMAIN Collected}
  <2>1. /\ At("book", "sleep") /\ queue'["book"] = Rest /\ task'["book"].pc = "execute"
        /\ latest' = [j \in Keys |-> IF j \in taken THEN None ELSE latest[j]]
        /\ queued' = queued \ taken /\ UNCHANGED <<offered, service>>
    BY <1>1, <1>5 DEF CollectBooks, Becomes, Publishing, Rest, life, Shape
  <2>2. Waiting' = Rest
    BY <2>1 DEF Waiting, At
  <2>3. /\ Collected \in Seq(Keys) /\ Rest \in Seq(Keys) /\ Waiting \in Seq(Keys)
        /\ Len(Collected) + Len(Rest) = Len(Waiting)
        /\ \A n \in 1..Len(Collected) : n \in DOMAIN Waiting /\ Collected[n] = Waiting[n]
        /\ \A n \in 1..Len(Rest) : /\ Len(Collected) + n \in DOMAIN Waiting
                                   /\ Rest[n] = Waiting[Len(Collected) + n]
    BY <1>1, <2>1, CollectedKeys, WaitingKeys
  <2>4. /\ Len(Collected) \in Nat /\ DOMAIN Collected = 1..Len(Collected)
        /\ Len(Rest) \in Nat /\ DOMAIN Rest = 1..Len(Rest) /\ DOMAIN Waiting = 1..Len(Waiting)
    BY <2>3, LenProperties
  <2>5. /\ \A n \in DOMAIN Waiting : Waiting[n] \in queued
        /\ \A m, n \in DOMAIN Waiting : Waiting[m] = Waiting[n] => m = n
        /\ service # "stopped" => \A j \in queued : \E n \in DOMAIN Waiting : Waiting[n] = j
        /\ \A j \in queued : latest[j] = offered[j] /\ latest[j] # None
        /\ \A j \in Keys \ queued : latest[j] \in {None, offered[j]}
    BY DEF Coalesced
  <2> HIDE DEF Collected, Rest, Waiting
  <2>6. \A m, n \in DOMAIN Rest : Rest[m] = Rest[n] => m = n
    <3>1. SUFFICES ASSUME NEW m \in 1..Len(Rest), NEW n \in 1..Len(Rest), Rest[m] = Rest[n]
                   PROVE  m = n
      BY <2>4
    <3> DEFINE j == Len(Collected) + m  k == Len(Collected) + n
    <3>2. j \in DOMAIN Waiting /\ k \in DOMAIN Waiting /\ Waiting[j] = Waiting[k]
      BY <2>3, <3>1
    <3> HIDE DEF j, k
    <3>3. j = k
      BY <2>5, <3>2
    <3> USE DEF j, k
    <3> QED
      BY <2>4, <3>3
  <2>7. \A n \in DOMAIN Rest : Rest[n] \in queued \ taken
    <3>1. ASSUME NEW n \in 1..Len(Rest)
          PROVE  Rest[n] \in queued /\ \A m \in 1..Len(Collected) : Rest[n] # Collected[m]
      <4> DEFINE k == Len(Collected) + n
      <4>1. k \in DOMAIN Waiting /\ Rest[n] = Waiting[k] /\ k \notin 1..Len(Collected)
        BY <2>3, <2>4
      <4> HIDE DEF k
      <4>2. Rest[n] \in queued
        BY <2>5, <4>1
      <4>3. ASSUME NEW m \in 1..Len(Collected), Rest[n] = Collected[m] PROVE FALSE
        <5>1. m \in DOMAIN Waiting /\ Collected[m] = Waiting[m]
          BY <2>3
        <5>2. Waiting[k] = Waiting[m]
          BY <4>1, <4>3, <5>1
        <5>3. k = m
          BY <2>5, <4>1, <5>1, <5>2
        <5> QED
          BY <4>1, <5>3
      <4> QED
        BY <4>2, <4>3
    <3> QED
      BY <2>4, <3>1
  <2>8. service # "stopped" => \A j \in queued \ taken : \E n \in DOMAIN Rest : Rest[n] = j
    <3>1. SUFFICES ASSUME NEW m \in 1..Len(Waiting), Waiting[m] \notin taken
                   PROVE  \E n \in 1..Len(Rest) : Rest[n] = Waiting[m]
      BY <2>4, <2>5
    <3>2. m \notin 1..Len(Collected)
      BY <2>3, <2>4, <3>1
    <3>3. m - Len(Collected) \in 1..Len(Rest) /\ Len(Collected) + (m - Len(Collected)) = m
      BY <2>3, <2>4, <3>2
    <3> QED
      BY <2>3, <3>3
  <2>9. \A j \in queued \ taken : latest'[j] = offered[j] /\ latest'[j] # None
    BY <1>1, <2>1, <2>5 DEF Global
  <2>10. \A j \in Keys \ (queued \ taken) : latest'[j] \in {None, offered[j]}
    BY <2>1, <2>5
  <2> HIDE DEF taken
  <2> QED
    BY <2>1, <2>2, <2>6, <2>7, <2>8, <2>9, <2>10 DEF Coalesced
<1>6. ASSUME NEW return \in BOOLEAN, Ending(return) PROVE Coalesced'
  <2>1. /\ queue' = queue /\ task'["book"] = Gone /\ service' = "stopped"
        /\ UNCHANGED <<offered, latest, queued>>
    BY <1>1, <1>6 DEF Ending, pipeline
  <2>2. Waiting' = queue["book"]
    BY <2>1 DEF Waiting, At, Idle, Gone
  <2> DEFINE q == queue["book"]  b == task["book"].batch
  <2>3. q \in Seq(Keys) /\ b \in Seq(Keys)
    BY <1>1, WaitingKeys
  <2>4. /\ \A m, n \in DOMAIN q : q[m] = q[n] => m = n
        /\ \A n \in DOMAIN q : q[n] \in queued
    <3>1. CASE ~At("book", "sleep")
      BY <3>1 DEF Coalesced, Waiting
    <3>2. CASE At("book", "sleep")
      <4>1. Waiting = b \o q
        BY <3>2 DEF Waiting
      <4> HIDE DEF b, q
      <4>2. /\ DOMAIN q = 1..Len(q) /\ Len(q) \in Nat /\ Len(b) \in Nat
            /\ DOMAIN (b \o q) = 1..(Len(b) + Len(q))
            /\ \A n \in 1..Len(q) : (b \o q)[Len(b) + n] = q[n]
        BY <2>3, ConcatProperties, LenProperties
      <4>3. \A n \in 1..Len(q) : Len(b) + n \in DOMAIN Waiting /\ Waiting[Len(b) + n] = q[n]
        BY <4>1, <4>2
      <4> QED
        BY <4>2, <4>3 DEF Coalesced
    <3> QED
      BY <3>1, <3>2
  <2>5. /\ \A j \in queued : latest[j] = offered[j] /\ latest[j] # None
        /\ \A j \in Keys \ queued : latest[j] \in {None, offered[j]}
    BY DEF Coalesced
  <2> QED
    BY <2>1, <2>2, <2>4, <2>5 DEF Coalesced
<1>7. CASE Publisher("book") \/ GiveUp
  <2>1. queue' = queue /\ UNCHANGED <<offered, latest, queued, service>>
    BY <1>7 DEF Publisher, Reply, Fail, ConnectionError, Retry, GiveUp, pipeline, life
  <2>2. task["book"].pc \in {"execute", "backoff"}
    BY <1>7 DEF Publisher, Reply, Fail, ConnectionError, Retry, GiveUp, At
  <2>3. task'["book"].pc # "sleep"
    <3>1. CASE Reply("book") \/ Fail("book") \/ GiveUp
      BY <1>1, <3>1 DEF Reply, Fail, GiveUp, Finished, Becomes, Idle, Gone, Shape
    <3>2. CASE ConnectionError("book") \/ Retry("book")
      <4>1. task["book"] \in Task("book")
        BY <1>1 DEF Local
      <4>2. CASE ConnectionError("book")
        <5> DEFINE failures == IF "book" = "book" THEN task["book"].failures + 1
                               ELSE task["book"].failures
        <5>1. task'["book"] = [task["book"] EXCEPT !.pc = "backoff", !.wire = <<>>,
                                                   !.failures = failures]
          BY <1>1, <4>2 DEF ConnectionError, Becomes, Shape
        <5> HIDE DEF failures
        <5> QED
          BY <4>1, <5>1 DEF Task
      <4>3. CASE Retry("book")
        BY <1>1, <4>1, <4>3 DEF Retry, Becomes, Shape, Task
      <4> QED
        BY <3>2, <4>2, <4>3
    <3> QED
      BY <1>7, <3>1, <3>2 DEF Publisher
  <2> QED
    BY <1>2, <2>1, <2>2, <2>3 DEF Waiting, At
<1>8. ASSUME NEW refuse \in BOOLEAN, XAdd("book", refuse) \/ LateXAdd("book", refuse)
      PROVE  Coalesced'
  <2>1. queue' = queue /\ UNCHANGED <<offered, latest, queued, service>>
    BY <1>8 DEF XAdd, LateXAdd, pipeline, life
  <2>2. task'["book"].pc = task["book"].pc /\ task'["book"].batch = task["book"].batch
    <3>1. task["book"] \in Task("book")
      BY <1>1 DEF Local
    <3>2. CASE XAdd("book", refuse)
      BY <1>1, <3>1, <3>2 DEF XAdd, Becomes, Shape, Task
    <3> QED
      BY <1>8, <3>2 DEF LateXAdd
  <2> QED
    BY <1>2, <2>1, <2>2 DEF Waiting, At
<1>9. CASE StepOf("critical")
  <2>1. queue'["book"] = queue["book"] /\ task'["book"] = task["book"]
    BY <1>1, <1>9, Others DEF Same, Publishers
  <2>2. UNCHANGED <<offered, latest, queued, service>>
    BY <1>9 DEF StepOf, CriticalStep, PutCritical, GetCritical, PublishCritical, Publisher, Reply,
       Fail, ConnectionError, Retry, XAdd, LateXAdd, pipeline, life
  <2> QED
    BY <1>2, <2>1, <2>2 DEF Waiting, At
<1>10. CASE Stop
  BY <1>2, <1>10 DEF Stop, pipeline, Waiting, At
<1>11. CASE UNCHANGED vars
  BY <1>2, <1>11 DEF vars, pipeline, life, Waiting, At
<1>12. Publishers = {"critical", "book"}
  BY DEF Publishers
<1> QED
  BY <1>3, <1>4, <1>5, <1>6, <1>7, <1>8, <1>9, <1>10, <1>11, <1>12, NextCases DEF StepOf, BookStep

LEMMA AlwaysTyped == ASSUME ConstantsOK PROVE Spec => [](Typed /\ Coalesced)
<1>1. Init => Typed /\ Coalesced
  BY InitTyped, InitCoalesced
<1>2. Typed /\ Coalesced /\ [Next]_vars => (Typed /\ Coalesced)'
  BY TypedStays, CoalescedStays
<1> QED
  BY <1>1, <1>2, PTL DEF Spec

\* The types of the variables: the queues never exceed their limit, join counts
\* at least what is queued and taken, a book that is sent has been put.
THEOREM TypesHold == Spec => []TypeOK
<1>1. Typed => TypeOK
  BY ConstantsOK, TypedImpliesTypeOK
<1> QED
  BY <1>1, AlwaysTyped, ConstantsOK, PTL

\* put and _run_books agree on the queued keys: none twice, none forgotten, and
\* the newest book of each is what will be published.
THEOREM KeysAgree == Spec => []Coalesced
BY AlwaysTyped, ConstantsOK, PTL

-----------------------------------------------------------------------------
(* Critical events keep their order *)

\* Consecutive events that follow the first ones.
Follows(s, first) == \A n \in 1..Len(s) : s[n] = first + n

\* What may be sent: everything before it is in the log, or was refused.
Ready(wire, reached, last) ==
    \E first \in Nat : /\ Follows(wire, first) /\ first + Len(wire) <= last
                       /\ 1..first \subseteq reached

LEMMA NothingIsReady == ASSUME NEW reached, NEW last \in Nat PROVE Ready(<<>>, reached, last)
<1>1. Len(<<>>) = 0 /\ 1..0 = {}
  BY EmptySeq
<1>2. Follows(<<>>, 0) /\ 0 + Len(<<>>) <= last
  BY <1>1 DEF Follows
<1> QED
  BY <1>1, <1>2 DEF Ready

LEMMA StaysReady ==
    ASSUME NEW w, Len(w) \in Nat, NEW reached, NEW last \in Nat, Ready(w, reached, last),
           NEW reached2, NEW last2 \in Nat, reached \subseteq reached2, last <= last2
    PROVE  Ready(w, reached2, last2)
BY DEF Ready

LEMMA HeadReady ==
    ASSUME NEW w \in Seq(Nat), w # <<>>, NEW reached, NEW last \in Nat, Ready(w, reached, last)
    PROVE  /\ Head(w) \in 1..last /\ 1..(Head(w) - 1) \subseteq reached
           /\ Ready(Tail(w), reached \cup {Head(w)}, last)
<1>1. PICK first \in Nat : /\ Follows(w, first) /\ first + Len(w) <= last
                           /\ 1..first \subseteq reached
  BY DEF Ready
<1>2. Len(w) \in Nat \ {0} /\ Head(w) = w[1]
  BY EmptySeq
<1>3. Head(w) = first + 1
  BY <1>1, <1>2 DEF Follows
<1>4. /\ Len(Tail(w)) = Len(w) - 1
      /\ \A n \in 1..Len(Tail(w)) : Tail(w)[n] = w[n + 1]
  BY HeadTailProperties
<1>5. Follows(Tail(w), first + 1)
  <2>1. SUFFICES ASSUME NEW n \in 1..Len(Tail(w)) PROVE Tail(w)[n] = first + 1 + n
    BY DEF Follows
  <2>2. n + 1 \in 1..Len(w)
    BY <1>2, <1>4
  <2>3. w[n + 1] = first + (n + 1)
    BY <1>1, <2>2 DEF Follows
  <2> QED
    BY <1>4, <2>3
<1>6. 1..(first + 1) = 1..first \cup {first + 1}
  OBVIOUS
<1>7. first + 1 + Len(Tail(w)) <= last
  BY <1>1, <1>2, <1>4
<1>8. 1..(first + 1) \subseteq reached \cup {Head(w)}
  BY <1>1, <1>3, <1>6
<1>9. Ready(Tail(w), reached \cup {Head(w)}, last)
  BY <1>5, <1>7, <1>8 DEF Ready
<1> QED
  BY <1>1, <1>2, <1>3, <1>9

\* The critical publisher.
Log == InLog("critical")
Reached == Log \cup refused["critical"]
Sender == task["critical"]
Pending == Sender.batch \o queue["critical"]

\* Where the critical events are: a first part is in the log, the others are taken
\* or queued, in order.
PendingInOrder(first) ==
    /\ first + Len(Pending) = accepted /\ Follows(Pending, first)
    /\ 1..first \subseteq Log

Flow ==
    /\ Reached \subseteq 1..accepted
    /\ \A l \in late["critical"] : Ready(l.wire, Reached, accepted)
    /\ Ready(Sender.wire, Reached, accepted)
    /\ Sender.pc # "gone" => \E first \in Nat : PendingInOrder(first)
    /\ Sender.pc \in {"gather", "execute", "backoff"} => Sender.batch # <<>>
    /\ Sender.pc \in {"execute", "backoff"} => Sender.events = Sender.batch
    /\ Sender.pc = "execute" /\ ~Sender.error =>
           \A n \in DOMAIN Sender.events :
               Sender.events[n] \in Log \cup {Sender.wire[k] : k \in DOMAIN Sender.wire}

LEMMA SenderTypes ==
    ASSUME Typed
    PROVE  /\ Sender \in Task("critical")
           /\ Sender.batch \in Seq(Nat) /\ Sender.events \in Seq(Nat) /\ Sender.wire \in Seq(Nat)
           /\ Sender.error \in BOOLEAN
           /\ queue["critical"] \in Seq(Nat) /\ Pending \in Seq(Nat)
           /\ \A l \in late["critical"] : l.wire \in Seq(Nat) /\ l.wire # <<>>
           /\ stream["critical"] \in Seq(Nat) /\ accepted \in Nat
           /\ Shape /\ "critical" \in Publishers
<1>1. Local("critical") /\ Shape /\ "critical" \in Publishers /\ Global
  BY DEF Typed, Publishers
<1>2. 1..MaxCritical \subseteq Nat
  OBVIOUS
<1>3. /\ Sender \in Task("critical") /\ Sender.error \in BOOLEAN
      /\ Sender.batch \in Seq(1..MaxCritical) /\ Sender.events \in Seq(1..MaxCritical)
      /\ Sender.wire \in Seq(1..MaxCritical) /\ queue["critical"] \in Seq(1..MaxCritical)
      /\ stream["critical"] \in Seq(1..MaxCritical)
      /\ \A l \in late["critical"] : l.wire \in Seq(1..MaxCritical) /\ l.wire # <<>>
  BY <1>1 DEF Local, Task, Sender, Keyed, Events
<1>4. /\ Sender.batch \in Seq(Nat) /\ Sender.events \in Seq(Nat) /\ Sender.wire \in Seq(Nat)
      /\ queue["critical"] \in Seq(Nat) /\ stream["critical"] \in Seq(Nat)
      /\ \A l \in late["critical"] : l.wire \in Seq(Nat) /\ l.wire # <<>>
  BY <1>2, <1>3, SeqMonotonic
<1>5. Pending \in Seq(Nat)
  BY <1>4, ConcatProperties DEF Pending
<1> QED
  BY <1>1, <1>3, <1>4, <1>5 DEF Global

\* The log after an XADD.
Elements(s) == {s[n] : n \in DOMAIN s}

LEMMA ElementsAfter ==
    ASSUME NEW S, NEW s \in Seq(S), NEW x
    PROVE  Elements(Append(s, x)) = Elements(s) \cup {x}
<1>1. s \in Seq(S \cup {x}) /\ x \in S \cup {x}
  BY SeqMonotonic
<1>2. /\ Append(s, x) \in Seq(S \cup {x}) /\ Len(Append(s, x)) = Len(s) + 1
      /\ \A n \in 1..Len(s) : Append(s, x)[n] = s[n]
      /\ Append(s, x)[Len(s) + 1] = x
  BY <1>1, AppendProperties
<1>3. /\ DOMAIN s = 1..Len(s) /\ Len(s) \in Nat
      /\ DOMAIN Append(s, x) = 1..(Len(s) + 1)
  BY <1>1, <1>2, LenProperties
<1> QED
  BY <1>2, <1>3 DEF Elements

LEMMA LogAfter ==
    ASSUME NEW p, NEW S, stream[p] \in Seq(S), NEW x, stream'[p] = Append(stream[p], x)
    PROVE  InLog(p)' = InLog(p) \cup {x}
<1>1. InLog(p) = Elements(stream[p]) /\ InLog(p)' = Elements(stream'[p])
  BY DEF InLog, Elements
<1> QED
  BY <1>1, ElementsAfter

\* The batch may be sent.
LEMMA BatchReady ==
    ASSUME Typed, Flow, Sender.pc # "gone"
    PROVE  Ready(Sender.batch, Reached, accepted)
<1>1. PICK first \in Nat : PendingInOrder(first)
  BY DEF Flow
<1> DEFINE b == Sender.batch  q == queue["critical"]
<1>2. b \in Seq(Nat) /\ q \in Seq(Nat) /\ accepted \in Nat
  BY SenderTypes
<1>3. /\ Len(b) \in Nat /\ Len(q) \in Nat /\ Len(Pending) = Len(b) + Len(q)
      /\ \A n \in 1..Len(b) : Pending[n] = b[n]
  <2> HIDE DEF b, q
  <2>1. Pending = b \o q
    BY DEF Pending, b, q
  <2>2. Len(b) \in Nat /\ Len(q) \in Nat /\ Len(b \o q) = Len(b) + Len(q)
        /\ \A n \in 1..(Len(b) + Len(q)) : (b \o q)[n] = IF n <= Len(b) THEN b[n] ELSE q[n - Len(b)]
    BY <1>2, ConcatProperties, LenProperties
  <2> QED
    BY <2>1, <2>2
<1> HIDE DEF b, q, Pending
<1>4. Follows(b, first) /\ first + Len(b) <= accepted
  BY <1>1, <1>2, <1>3 DEF PendingInOrder, Follows
<1>5. 1..first \subseteq Reached
  BY <1>1 DEF PendingInOrder, Reached
<1>6. Ready(b, Reached, accepted)
  BY <1>4, <1>5 DEF Ready
<1> QED
  BY <1>6 DEF b

LEMMA InitFlow == ASSUME ConstantsOK, Init PROVE Flow
<1>1. /\ Sender = Idle /\ queue["critical"] = <<>> /\ stream["critical"] = <<>>
      /\ refused["critical"] = {} /\ late["critical"] = {} /\ accepted = 0
  BY DEF Init, Publishers, Sender
<1>2. Log = {} /\ Reached = {}
  BY <1>1 DEF Log, Reached, InLog
<1>3. Pending = <<>> /\ Len(Pending) = 0
  <2>1. Pending = <<>> \o <<>>
    BY <1>1 DEF Pending, Idle
  <2>2. <<>> \in Seq(Nat) /\ Len(<<>>) = 0
    BY EmptySeq
  <2> QED
    BY <2>1, <2>2, ConcatEmptySeq
<1>4. PendingInOrder(0)
  BY <1>1, <1>2, <1>3 DEF PendingInOrder, Follows
<1>5. Idle.wire = <<>> /\ Idle.pc = "get"
  BY DEF Idle
<1>6. Ready(Idle.wire, Reached, accepted)
  BY <1>1, <1>5, NothingIsReady
<1> QED
  BY <1>1, <1>2, <1>4, <1>5, <1>6 DEF Flow

\* A step that the critical publisher does not take.
LEMMA FlowKept ==
    ASSUME Flow, Same("critical"), accepted' = accepted
    PROVE  Flow'
<1>1. Sender' = Sender /\ Log' = Log /\ Pending' = Pending
  BY DEF Same, Sender, Log, InLog, Pending
<1>2. Reached' = Reached /\ late'["critical"] = late["critical"]
  BY <1>1 DEF Same, Reached
<1>3. \A first : PendingInOrder(first)' <=> PendingInOrder(first)
  BY <1>1 DEF PendingInOrder
<1> QED
  BY <1>1, <1>2, <1>3 DEF Flow

LEMMA FlowAccept == ASSUME ConstantsOK, Typed, Flow, PutCritical PROVE Flow'
<1>1. /\ Sender' = Sender /\ accepted' = accepted + 1
      /\ queue'["critical"] = Append(queue["critical"], accepted + 1)
      /\ stream' = stream /\ late' = late /\ refused' = refused
  BY SenderTypes DEF PutCritical, Enqueue, redis, Shape, Sender
<1>2. Log' = Log /\ Reached' = Reached
  BY <1>1 DEF Log, InLog, Reached
<1>3. Pending' = Append(Pending, accepted + 1)
  <2>1. Sender.batch \in Seq(Nat) /\ queue["critical"] \in Seq(Nat) /\ accepted + 1 \in Nat
    BY SenderTypes
  <2>2. Sender.batch \o Append(queue["critical"], accepted + 1) =
            Append(Sender.batch \o queue["critical"], accepted + 1)
    <3>1. \A b, q \in Seq(Nat) : \A k \in Nat : b \o Append(q, k) = Append(b \o q, k)
      BY AppendToConcat
    <3> QED
      BY <2>1, <3>1
  <2> QED
    BY <1>1, <2>2 DEF Pending
<1>4. /\ Pending \in Seq(Nat) /\ Len(Pending) \in Nat /\ accepted \in Nat
      /\ Len(Sender.wire) \in Nat /\ \A l \in late["critical"] : Len(l.wire) \in Nat
  BY SenderTypes, LenProperties
<1>5. /\ Len(Pending') = Len(Pending) + 1 /\ Pending'[Len(Pending) + 1] = accepted + 1
      /\ \A n \in 1..Len(Pending) : Pending'[n] = Pending[n]
  <2>1. accepted + 1 \in Nat
    BY <1>4
  <2> QED
    BY <1>3, <1>4, <2>1, AppendProperties
<1>6. ASSUME NEW first \in Nat, PendingInOrder(first) PROVE PendingInOrder(first)'
  <2> HIDE DEF Pending
  <2>1. first + Len(Pending) = accepted /\ 1..first \subseteq Log
        /\ \A n \in 1..Len(Pending) : Pending[n] = first + n
    BY <1>6 DEF PendingInOrder, Follows
  <2>2. first + Len(Pending') = accepted'
    BY <1>1, <1>4, <1>5, <2>1
  <2>3. \A n \in 1..Len(Pending') : Pending'[n] = first + n
    <3>1. ASSUME NEW n \in 1..(Len(Pending) + 1) PROVE Pending'[n] = first + n
      <4>1. CASE n \in 1..Len(Pending)
        BY <1>5, <2>1, <4>1
      <4>2. CASE n \notin 1..Len(Pending)
        <5>1. n = Len(Pending) + 1
          BY <1>4, <4>2
        <5>2. first + n = accepted + 1
          <6>1. first \in Nat /\ Len(Pending) \in Nat /\ accepted \in Nat
                /\ first + Len(Pending) = accepted
            BY <1>4, <2>1
          <6> QED
            BY <5>1, <6>1
        <5> QED
          BY <1>5, <5>1, <5>2
      <4> QED
        BY <4>1, <4>2
    <3> QED
      BY <1>5, <3>1
  <2> QED
    BY <1>2, <2>1, <2>2, <2>3 DEF PendingInOrder, Follows
<1>7. Ready(Sender.wire, Reached, accepted') /\ \A l \in late["critical"] : Ready(l.wire, Reached, accepted')
  BY <1>1, <1>4, StaysReady DEF Flow
<1>8. Reached' \subseteq 1..accepted'
  BY <1>1, <1>2, <1>4 DEF Flow
<1> QED
  BY <1>1, <1>2, <1>6, <1>7, <1>8 DEF Flow

LEMMA FlowGather ==
    ASSUME ConstantsOK, Typed, Flow, GetCritical \/ PublishCritical
    PROVE  Flow'
<1>1. /\ accepted' = accepted /\ stream' = stream /\ late' = late /\ refused' = refused
  BY DEF GetCritical, PublishCritical, redis, pipeline
<1>2. Log' = Log /\ Reached' = Reached
  BY <1>1 DEF Log, InLog, Reached
<1>3. ASSUME Pending' = Pending, NEW first, PendingInOrder(first) PROVE PendingInOrder(first)'
  BY <1>1, <1>2, <1>3 DEF PendingInOrder
<1>4. CASE GetCritical
  <2> DEFINE q == queue["critical"]
  <2>1. /\ Sender' = [Sender EXCEPT !.pc = "gather", !.batch = Append(@, Head(q))]
        /\ queue'["critical"] = Tail(q) /\ q # <<>> /\ Sender.pc \in {"get", "gather"}
    BY <1>4, SenderTypes DEF GetCritical, At, Becomes, Shape, Sender
  <2>2. /\ Sender'.pc = "gather" /\ Sender'.batch = Append(Sender.batch, Head(q))
        /\ Sender'.wire = Sender.wire
    BY <2>1, SenderTypes DEF Task
  <2>3. Pending' = Pending
    BY <2>1, <2>2, SenderTypes, MoveHead, ZenonT(30) DEF Pending
  <2>4. Sender'.batch # <<>>
    <3>1. Append(Sender.batch, Head(q)) # <<>>
      <4>1. Sender.batch \in Seq(Nat) /\ Head(q) \in Nat
        BY <2>1, SenderTypes, HeadTailProperties
      <4> QED
        BY <4>1
    <3> QED
      BY <2>2, <3>1
  <2>5. \E first \in Nat : PendingInOrder(first)'
    BY <1>3, <2>1, <2>3 DEF Flow
  <2> QED
    BY <1>1, <1>2, <2>2, <2>4, <2>5 DEF Flow
<1>5. CASE PublishCritical
  <2>1. /\ Sender' = Publishing(Sender.batch, Sender.batch)
        /\ queue' = queue /\ Sender.pc = "gather"
    BY <1>5, SenderTypes DEF PublishCritical, At, Becomes, Shape, Sender, pipeline
  <2>2. /\ Sender'.pc = "execute" /\ Sender'.batch = Sender.batch /\ Sender'.wire = Sender.batch
        /\ Sender'.events = Sender.batch
    BY <2>1 DEF Publishing
  <2>3. Pending' = Pending
    BY <2>1, <2>2 DEF Pending
  <2>4. Ready(Sender'.wire, Reached, accepted)
    BY <2>1, <2>2, BatchReady
  <2>5. \E first \in Nat : PendingInOrder(first)'
    BY <1>3, <2>1, <2>3 DEF Flow
  <2> QED
    BY <1>1, <1>2, <2>1, <2>2, <2>4, <2>5 DEF Flow
<1> QED
  BY <1>4, <1>5

\* publish_many, for critical events.
LEMMA FlowPublisher ==
    ASSUME ConstantsOK, Typed, Flow, Publisher("critical")
    PROVE  Flow'
<1>1. /\ accepted' = accepted /\ stream' = stream /\ refused' = refused
      /\ queue' = queue
  BY DEF Publisher, Reply, Fail, ConnectionError, Retry, redis, pipeline
<1>2. Log' = Log /\ Reached' = Reached
  BY <1>1 DEF Log, InLog, Reached
<1>3. ASSUME Sender'.batch = Sender.batch, NEW first, PendingInOrder(first) PROVE PendingInOrder(first)'
  BY <1>1, <1>2, <1>3 DEF PendingInOrder, Pending
<1>4. Idle.pc = "get" /\ Idle.batch = <<>> /\ Idle.wire = <<>> /\ Gone.pc = "gone" /\ Gone.wire = <<>>
  BY DEF Idle, Gone
<1>5. accepted \in Nat /\ Ready(<<>>, Reached, accepted)
  BY SenderTypes, NothingIsReady
<1>6. CASE Reply("critical")
  <2>1. /\ Sender' = Idle /\ late' = late /\ Sender.pc = "execute" /\ Sender.wire = <<>> /\ ~Sender.error
    BY <1>6, SenderTypes DEF Reply, At, Finished, Becomes, redis, Shape, Sender
  <2>2. \A n \in DOMAIN Sender.batch : Sender.batch[n] \in Log
    <3>1. DOMAIN <<>> = {}
      OBVIOUS
    <3>2. Sender.events = Sender.batch
      BY <2>1 DEF Flow
    <3>3. \A n \in DOMAIN Sender.events : Sender.events[n] \in Log
      BY <2>1, <3>1 DEF Flow
    <3> QED
      BY <3>2, <3>3
  <2>3. PICK first \in Nat : PendingInOrder(first)
    BY <2>1 DEF Flow
  <2> DEFINE b == Sender.batch  q == queue["critical"]  m == Len(b)
  <2>4. b \in Seq(Nat) /\ q \in Seq(Nat) /\ Pending = b \o q
    BY SenderTypes DEF Pending
  <2>5. Pending' = q
    <3>1. Pending' = <<>> \o q
      BY <1>1, <1>4, <2>1 DEF Pending
    <3> QED
      BY <2>4, <3>1, ConcatEmptySeq
  <2> HIDE DEF b, q
  <2>6. /\ m \in Nat /\ Len(q) \in Nat /\ Len(Pending) = m + Len(q) /\ DOMAIN b = 1..m
        /\ \A n \in 1..m : Pending[n] = b[n]
        /\ \A n \in 1..Len(q) : m + n \in 1..Len(Pending) /\ Pending[m + n] = q[n]
    <3>1. /\ Len(b \o q) = Len(b) + Len(q) /\ Len(b) \in Nat /\ Len(q) \in Nat /\ DOMAIN b = 1..Len(b)
          /\ \A n \in 1..(Len(b) + Len(q)) : (b \o q)[n] = IF n <= Len(b) THEN b[n] ELSE q[n - Len(b)]
      BY <2>4, ConcatProperties, LenProperties
    <3> QED
      BY <2>4, <3>1
  <2> HIDE DEF m, Pending
  <2>7. /\ first + Len(Pending) = accepted /\ 1..first \subseteq Log
        /\ \A n \in 1..Len(Pending) : Pending[n] = first + n
    BY <2>3 DEF PendingInOrder, Follows
  <2>8. first + m \in Nat /\ first + m + Len(q) = accepted
    BY <1>5, <2>6, <2>7
  <2>9. \A n \in 1..Len(q) : q[n] = first + m + n
    BY <2>6, <2>7
  <2>10. 1..(first + m) \subseteq Log
    <3>1. ASSUME NEW k \in 1..(first + m) PROVE k \in Log
      <4>1. CASE k \in 1..first
        BY <2>7, <4>1
      <4>2. CASE k \notin 1..first
        <5>1. k - first \in 1..m /\ first + (k - first) = k
          BY <2>6, <4>2
        <5>2. k - first \in 1..Len(Pending)
          BY <2>6, <5>1
        <5>3. b[k - first] = first + (k - first)
          BY <2>6, <2>7, <5>1, <5>2
        <5> QED
          BY <2>2, <2>6, <5>1, <5>3 DEF b
      <4> QED
        BY <4>1, <4>2
    <3> QED
      BY <3>1
  <2>11. PICK k \in Nat : k = first + m
    BY <2>8
  <2>12. PendingInOrder(k)'
    <3>1. k + Len(q) = accepted /\ Follows(q, k) /\ 1..k \subseteq Log
      BY <2>8, <2>9, <2>10, <2>11 DEF Follows
    <3> QED
      BY <1>1, <1>2, <2>5, <3>1 DEF PendingInOrder
  <2> QED
    BY <1>1, <1>2, <1>4, <1>5, <2>1, <2>12 DEF Flow
<1>7. CASE Fail("critical")
  <2>1. Sender' = Gone /\ late' = late
    BY <1>7, SenderTypes DEF Fail, Becomes, redis, Shape, Sender
  <2> QED
    BY <1>1, <1>2, <1>4, <1>5, <2>1 DEF Flow
<1>8. CASE ConnectionError("critical")
  <2>1. /\ Sender' = [Sender EXCEPT !.pc = "backoff", !.wire = <<>>, !.failures = @]
        /\ late'["critical"] = Leftover("critical") /\ Sender.pc = "execute"
    BY <1>8, SenderTypes DEF ConnectionError, At, Becomes, Shape, Sender
  <2>2. /\ Sender'.pc = "backoff" /\ Sender'.batch = Sender.batch /\ Sender'.wire = <<>>
        /\ Sender'.events = Sender.events
    BY <2>1, SenderTypes DEF Task
  <2>3. \A l \in late'["critical"] : Ready(l.wire, Reached, accepted)
    BY <2>1 DEF Flow, Leftover, Sender
  <2>4. \E first \in Nat : PendingInOrder(first)'
    BY <1>3, <2>1, <2>2 DEF Flow
  <2> QED
    BY <1>1, <1>2, <1>5, <2>1, <2>2, <2>3, <2>4 DEF Flow
<1>9. CASE Retry("critical")
  <2>1. /\ Sender' = [Sender EXCEPT !.pc = "execute", !.wire = Sender.events, !.error = FALSE]
        /\ late' = late /\ Sender.pc = "backoff"
    BY <1>9, SenderTypes DEF Retry, At, Becomes, redis, Shape, Sender
  <2>2. /\ Sender'.pc = "execute" /\ Sender'.batch = Sender.batch /\ Sender'.wire = Sender.events
        /\ Sender'.events = Sender.events
    BY <2>1, SenderTypes DEF Task
  <2>3. Ready(Sender'.wire, Reached, accepted)
    BY <2>1, <2>2, BatchReady DEF Flow
  <2>4. \E first \in Nat : PendingInOrder(first)'
    BY <1>3, <2>1, <2>2 DEF Flow
  <2> QED
    BY <1>1, <1>2, <2>1, <2>2, <2>3, <2>4 DEF Flow
<1> QED
  BY <1>6, <1>7, <1>8, <1>9 DEF Publisher

\* Redis executes or refuses a command.
LEMMA FlowRedis ==
    ASSUME ConstantsOK, Typed, Flow, NEW refuse \in BOOLEAN,
           XAdd("critical", refuse) \/ LateXAdd("critical", refuse)
    PROVE  Flow'
<1>1. accepted' = accepted /\ queue' = queue /\ accepted \in Nat
  BY SenderTypes DEF XAdd, LateXAdd, pipeline
<1>2. ASSUME NEW x,
             \/ refused'["critical"] = refused["critical"] \cup {x} /\ stream' = stream
             \/ refused' = refused /\ stream'["critical"] = Append(stream["critical"], x)
      PROVE  Reached' = Reached \cup {x} /\ Log \subseteq Log'
  <2>1. CASE refused'["critical"] = refused["critical"] \cup {x} /\ stream' = stream
    BY <2>1 DEF Reached, Log, InLog
  <2>2. CASE refused' = refused /\ stream'["critical"] = Append(stream["critical"], x)
    <3>1. stream["critical"] \in Seq(Nat)
      BY SenderTypes
    <3>2. Log' = Log \cup {x}
      BY <2>2, <3>1, LogAfter DEF Log
    <3> QED
      BY <2>2, <3>2 DEF Reached
  <2> QED
    BY <1>2, <2>1, <2>2
<1>3. ASSUME NEW w \in Seq(Nat), w # <<>>, Ready(w, Reached, accepted), Reached' = Reached \cup {Head(w)}
      PROVE  /\ Reached' \subseteq 1..accepted /\ Ready(Tail(w), Reached', accepted)
             /\ \A l \in late["critical"] : Ready(l.wire, Reached', accepted)
             /\ Ready(Sender.wire, Reached', accepted)
  <2>1. Head(w) \in 1..accepted /\ Ready(Tail(w), Reached \cup {Head(w)}, accepted)
    BY <1>1, <1>3, HeadReady
  <2>2. /\ Len(Sender.wire) \in Nat /\ \A l \in late["critical"] : Len(l.wire) \in Nat
    BY SenderTypes, LenProperties
  <2>3. Reached \subseteq Reached'
    BY <1>3
  <2>4. /\ \A l \in late["critical"] : Ready(l.wire, Reached', accepted)
        /\ Ready(Sender.wire, Reached', accepted)
    <3>1. ASSUME NEW v, Len(v) \in Nat, Ready(v, Reached, accepted)
          PROVE  Ready(v, Reached', accepted)
      BY <1>1, <2>3, <3>1, StaysReady
    <3> QED
      BY <2>2, <3>1 DEF Flow
  <2> QED
    BY <1>3, <2>1, <2>4 DEF Flow
<1>4. ASSUME Sender'.batch = Sender.batch, Log \subseteq Log', NEW first, PendingInOrder(first)
      PROVE  PendingInOrder(first)'
  <2>1. Pending' = Pending
    BY <1>1, <1>4 DEF Pending
  <2> QED
    BY <1>1, <1>4, <2>1 DEF PendingInOrder
<1>5. CASE XAdd("critical", refuse)
  <2> DEFINE w == Sender.wire
  <2>1. /\ Sender' = [Sender EXCEPT !.wire = Tail(@), !.error = @ \/ refuse] /\ w # <<>> /\ late' = late
        /\ Sender.pc = "execute"
        /\ IF refuse
           THEN refused'["critical"] = refused["critical"] \cup {Head(w)} /\ stream' = stream
           ELSE refused' = refused /\ stream'["critical"] = Append(stream["critical"], Head(w))
    BY <1>5, SenderTypes DEF XAdd, At, Becomes, Shape, Sender
  <2>2. /\ Sender'.pc = "execute" /\ Sender'.batch = Sender.batch /\ Sender'.events = Sender.events
        /\ Sender'.wire = Tail(w)
    BY <2>1, SenderTypes DEF Task
  <2>3. Sender'.error <=> Sender.error \/ refuse
    BY <2>1, SenderTypes DEF Task
  <2>4. Reached' = Reached \cup {Head(w)} /\ Log \subseteq Log'
    BY <1>2, <2>1
  <2>5. w \in Seq(Nat) /\ Ready(w, Reached, accepted)
    BY SenderTypes DEF Flow
  <2>6. /\ Reached' \subseteq 1..accepted /\ Ready(Tail(w), Reached', accepted)
        /\ \A l \in late["critical"] : Ready(l.wire, Reached', accepted)
    BY <1>3, <2>1, <2>4, <2>5
  <2>7. \E first \in Nat : PendingInOrder(first)'
    BY <1>4, <2>1, <2>2, <2>4 DEF Flow
  <2>8. ASSUME ~Sender'.error, NEW n \in DOMAIN Sender.events
        PROVE  Sender.events[n] \in Log' \cup {Tail(w)[k] : k \in DOMAIN Tail(w)}
    <3>1. ~Sender.error /\ ~refuse
      BY <2>3, <2>8
    <3>2. Log' = Log \cup {Head(w)}
      <4>1. stream'["critical"] = Append(stream["critical"], Head(w)) /\ stream["critical"] \in Seq(Nat)
        BY <2>1, <3>1, SenderTypes
      <4> HIDE DEF w
      <4> QED
        BY <4>1, LogAfter DEF Log
    <3>3. Sender.events[n] \in Log \cup {w[k] : k \in DOMAIN w}
      BY <2>1, <3>1 DEF Flow
    <3>4. ASSUME NEW k \in DOMAIN w PROVE w[k] = Head(w) \/ \E j \in DOMAIN Tail(w) : Tail(w)[j] = w[k]
      <4>1. /\ Head(w) = w[1] /\ Len(w) \in Nat /\ DOMAIN w = 1..Len(w)
            /\ Tail(w) \in Seq(Nat) /\ Len(Tail(w)) = Len(w) - 1
            /\ \A j \in 1..Len(Tail(w)) : Tail(w)[j] = w[j + 1]
        BY <2>1, <2>5, HeadTailProperties, LenProperties
      <4>2. DOMAIN Tail(w) = 1..Len(Tail(w))
        BY <4>1, LenProperties
      <4> HIDE DEF w
      <4>3. k = 1 \/ (k - 1 \in 1..Len(Tail(w)) /\ (k - 1) + 1 = k)
        BY <4>1
      <4> QED
        BY <4>1, <4>2, <4>3
    <3> QED
      BY <3>2, <3>3, <3>4
  <2> HIDE DEF w
  <2> QED
    BY <1>1, <2>1, <2>2, <2>6, <2>7, <2>8, ZenonT(30) DEF Flow
<1>6. CASE LateXAdd("critical", refuse)
  <2>1. PICK l \in late["critical"] :
           /\ Sender' = Sender
           /\ late'["critical"] = (late["critical"] \ {l}) \cup
                  IF Len(l.wire) = 1 THEN {} ELSE {[l EXCEPT !.wire = Tail(@)]}
           /\ \/ refused'["critical"] = refused["critical"] \cup {Head(l.wire)} /\ stream' = stream
              \/ refused' = refused /\ stream'["critical"] = Append(stream["critical"], Head(l.wire))
    BY <1>6, SenderTypes DEF LateXAdd, Shape, Sender
  <2>2. Reached' = Reached \cup {Head(l.wire)} /\ Log \subseteq Log'
    BY <1>2, <2>1
  <2>3. l.wire \in Seq(Nat) /\ l.wire # <<>> /\ Ready(l.wire, Reached, accepted)
    BY SenderTypes DEF Flow
  <2>4. /\ Reached' \subseteq 1..accepted /\ Ready(Tail(l.wire), Reached', accepted)
        /\ \A m \in late["critical"] : Ready(m.wire, Reached', accepted)
        /\ Ready(Sender.wire, Reached', accepted)
    BY <1>3, <2>2, <2>3
  <2>5. \A m \in late'["critical"] : Ready(m.wire, Reached', accepted)
    <3>1. ASSUME NEW m, m = [l EXCEPT !.wire = Tail(@)] PROVE Ready(m.wire, Reached', accepted)
      <4>1. m.wire = Tail(l.wire)
        BY <3>1
      <4> QED
        BY <2>4, <4>1
    <3> QED
      BY <2>1, <2>4, <3>1
  <2>6. Sender.pc # "gone" => \E first \in Nat : PendingInOrder(first)'
    BY <1>4, <2>1, <2>2 DEF Flow
  <2> QED
    BY <1>1, <2>1, <2>2, <2>4, <2>5, <2>6, ZenonT(30) DEF Flow
<1> QED
  BY <1>5, <1>6

LEMMA FlowStays == ASSUME ConstantsOK, Typed, Flow, [Next]_vars PROVE Flow'
<1>1. Shape /\ "critical" \in Publishers /\ "book" \in Publishers
      /\ Publishers = {"critical", "book"}
  BY DEF Typed, Publishers
<1>2. CASE StepOf("critical")
  <2>1. CASE CriticalStep
    BY <2>1, FlowAccept, FlowGather DEF CriticalStep
  <2>2. CASE Publisher("critical")
    BY <2>2, FlowPublisher
  <2>3. CASE \E refuse \in BOOLEAN : XAdd("critical", refuse) \/ LateXAdd("critical", refuse)
    BY <2>3, FlowRedis
  <2> QED
    BY <1>2, <2>1, <2>2, <2>3 DEF StepOf
<1>3. CASE StepOf("book")
  <2>1. Same("critical")
    BY <1>1, <1>3, Others
  <2>2. accepted' = accepted
    BY <1>3 DEF StepOf, BookStep, PutBook, GetBook, CollectBooks, GiveUp, Publisher, Reply,
       Fail, ConnectionError, Retry, XAdd, LateXAdd, pipeline
  <2> QED
    BY <2>1, <2>2, FlowKept
<1>4. CASE Stop
  BY <1>4, FlowKept DEF Stop, pipeline, redis, Same
<1>5. ASSUME NEW return \in BOOLEAN, Ending(return) PROVE Flow'
  <2>1. /\ Sender' = Gone /\ late'["critical"] = Leftover("critical")
        /\ accepted' = accepted /\ stream' = stream /\ refused' = refused
    BY <1>1, <1>5 DEF Ending, pipeline, Sender
  <2>2. Log' = Log /\ Reached' = Reached
    BY <2>1 DEF Log, InLog, Reached
  <2>3. Gone.pc = "gone" /\ Gone.wire = <<>> /\ Ready(<<>>, Reached, accepted)
    BY SenderTypes, NothingIsReady DEF Idle, Gone
  <2>4. \A l \in late'["critical"] : Ready(l.wire, Reached, accepted)
    BY <2>1 DEF Flow, Leftover, Sender
  <2> QED
    BY <2>1, <2>2, <2>3, <2>4 DEF Flow
<1>6. CASE UNCHANGED vars
  BY <1>6, FlowKept DEF vars, pipeline, redis, Same
<1> QED
  BY <1>1, <1>2, <1>3, <1>4, <1>5, <1>6, NextCases

LEMMA AlwaysFlow == ASSUME ConstantsOK PROVE Spec => [](Typed /\ Coalesced /\ Flow)
<1>1. Init => Typed /\ Coalesced /\ Flow
  BY InitTyped, InitCoalesced, InitFlow
<1>2. Typed /\ Coalesced /\ Flow /\ [Next]_vars => (Typed /\ Coalesced /\ Flow)'
  BY TypedStays, CoalescedStays, FlowStays
<1> QED
  BY <1>1, <1>2, PTL DEF Spec

feed == <<accepted, Log, refused["critical"]>>

LEMMA FeedStep ==
    ASSUME ConstantsOK, Typed, Flow, [Next]_vars
    PROVE  Feed!Accept \/ Feed!Deliver \/ Feed!Refuse \/ UNCHANGED feed
<1>1. Shape /\ "critical" \in Publishers /\ "book" \in Publishers
      /\ Publishers = {"critical", "book"}
  BY DEF Typed, Publishers
<1>2. CASE PutCritical
  BY <1>2 DEF PutCritical, redis, Feed!Accept, InLog
<1>3. ASSUME NEW w \in Seq(Nat), w # <<>>, Ready(w, Reached, accepted), accepted' = accepted,
             \/ refused'["critical"] = refused["critical"] \cup {Head(w)} /\ stream' = stream
             \/ refused' = refused /\ stream'["critical"] = Append(stream["critical"], Head(w))
      PROVE  Feed!Deliver \/ Feed!Refuse \/ UNCHANGED feed
  <2>1. Head(w) \in 1..accepted /\ 1..(Head(w) - 1) \subseteq Reached
    BY <1>3, SenderTypes, HeadReady
  <2>2. CASE refused'["critical"] = refused["critical"] \cup {Head(w)} /\ stream' = stream
    BY <1>3, <2>1, <2>2 DEF Feed!Refuse, InLog
  <2>3. CASE refused' = refused /\ stream'["critical"] = Append(stream["critical"], Head(w))
    <3>1. Log' = Log \cup {Head(w)}
      BY <2>3, SenderTypes, LogAfter DEF Log
    <3>2. CASE Head(w) \in Log
      BY <1>3, <2>3, <3>1, <3>2 DEF feed
    <3>3. CASE Head(w) \notin Log
      BY <1>3, <2>1, <2>3, <3>1, <3>3 DEF Feed!Deliver, Log, Reached
    <3> QED
      BY <3>2, <3>3
  <2> QED
    BY <1>3, <2>2, <2>3
<1>4. ASSUME NEW refuse \in BOOLEAN, XAdd("critical", refuse)
      PROVE  Feed!Deliver \/ Feed!Refuse \/ UNCHANGED feed
  <2>1. /\ Sender.wire \in Seq(Nat) /\ Sender.wire # <<>> /\ Ready(Sender.wire, Reached, accepted)
    BY <1>4, SenderTypes DEF XAdd, Flow, Sender
  <2>2. /\ accepted' = accepted
        /\ \/ refused'["critical"] = refused["critical"] \cup {Head(Sender.wire)} /\ stream' = stream
           \/ refused' = refused /\ stream'["critical"] = Append(stream["critical"], Head(Sender.wire))
    BY <1>1, <1>4 DEF XAdd, pipeline, Shape, Sender
  <2> QED
    BY <1>3, <2>1, <2>2
<1>5. ASSUME NEW refuse \in BOOLEAN, LateXAdd("critical", refuse)
      PROVE  Feed!Deliver \/ Feed!Refuse \/ UNCHANGED feed
  <2>1. PICK l \in late["critical"] :
           /\ accepted' = accepted
           /\ \/ refused'["critical"] = refused["critical"] \cup {Head(l.wire)} /\ stream' = stream
              \/ refused' = refused /\ stream'["critical"] = Append(stream["critical"], Head(l.wire))
    BY <1>1, <1>5 DEF LateXAdd, pipeline, Shape
  <2>2. l.wire \in Seq(Nat) /\ l.wire # <<>> /\ Ready(l.wire, Reached, accepted)
    BY SenderTypes DEF Flow
  <2> QED
    BY <1>3, <2>1, <2>2
<1>6. ASSUME accepted' = accepted, stream'["critical"] = stream["critical"],
             refused'["critical"] = refused["critical"]
      PROVE  UNCHANGED feed
  BY <1>6 DEF feed, Log, InLog
<1>7. CASE StepOf("book")
  <2>1. Same("critical")
    BY <1>1, <1>7, Others
  <2>2. accepted' = accepted
    BY <1>7 DEF StepOf, BookStep, PutBook, GetBook, CollectBooks, GiveUp, Publisher, Reply,
       Fail, ConnectionError, Retry, XAdd, LateXAdd, pipeline
  <2> QED
    BY <1>6, <2>1, <2>2 DEF Same
<1>8. CASE GetCritical \/ PublishCritical \/ Publisher("critical") \/ Stop
           \/ (\E return \in BOOLEAN : Ending(return)) \/ UNCHANGED vars
  <2>1. accepted' = accepted /\ stream' = stream /\ refused' = refused
    BY <1>8 DEF GetCritical, PublishCritical, Publisher, Reply, Fail, ConnectionError, Retry,
       Stop, Ending, vars, pipeline, redis
  <2> QED
    BY <1>6, <2>1
<1> QED
  BY <1>1, <1>2, <1>4, <1>5, <1>7, <1>8, NextCases DEF StepOf, CriticalStep

\* "Keep trades/Kalshi quotes lossless": however attempts fail, repeat and execute
\* late, a critical event enters the log after all that were accepted before it.
THEOREM CriticalInOrder == Spec => InOrder
<1>1. Init => Feed!Init
  BY DEF Init, Feed!Init, InLog, Publishers
<1>2. Typed /\ Flow /\ [Next]_vars =>
          [Feed!Accept \/ Feed!Deliver \/ Feed!Refuse]_<<accepted, InLog("critical"), refused["critical"]>>
  BY ConstantsOK, FeedStep DEF feed, Log
<1> QED
  BY <1>1, <1>2, AlwaysFlow, ConstantsOK, PTL DEF Spec, InOrder, Feed!Spec

-----------------------------------------------------------------------------
(* Books *)

\* The book publisher: what it is publishing, what was ever sent, and what has
\* reached its end.
Taker == task["book"]
BookLog == InLog("book")
Active == IF Taker.pc \in {"execute", "backoff"} THEN Elements(Taker.events) ELSE {}
LateBooks == UNION {Elements(l.wire) : l \in late["book"]}
Sent == BookLog \cup LateBooks \cup Active
Out == BookLog \cup dropped \cup refused["book"]
Older(e, x) == e[1] = x[1] /\ e[2] < x[2]

\* A command awaits its execution only while its batch is published.
Wired ==
    /\ Taker.pc = "execute" => /\ Elements(Taker.wire) \subseteq Active
                               /\ Active \subseteq Out \cup Elements(Taker.wire)
    /\ Taker.pc # "execute" => Taker.wire = <<>>
    /\ Taker.pc \in {"execute", "backoff"} => Taker.batch # <<>>

\* A newer book of a key is collected when all older ones are out, so that only
\* they can come late.
Ordered ==
    /\ Taker.pc # "gone" => Sent \ Active \subseteq Out
    /\ \A e \in Sent : e \in BookEvents /\ e[2] <= offered[e[1]]
    /\ \A x, e \in Sent : Older(e, x) => e \in Out
    /\ \A m \in DOMAIN stream["book"] : \A e \in Sent :
           Older(e, stream["book"][m]) =>
               \/ e \in dropped \cup refused["book"]
               \/ \E i \in 1..(m - 1) : stream["book"][i] = e

\* The newest book of a key: it waits, is being published, or has been.
Newest ==
    service # "stopped" => \A k \in Keys : offered[k] # 0 =>
        k \in queued \/ latest[k] = offered[k] \/ <<k, offered[k]>> \in Out \cup Active

BookFlow == Wired /\ Ordered /\ Newest

LEMMA ElementsOfParts ==
    ASSUME NEW S, NEW w \in Seq(S), w # <<>>
    PROVE  /\ Elements(w) = {Head(w)} \cup Elements(Tail(w))
           /\ Len(w) = 1 => Elements(Tail(w)) = {}
<1>1. /\ Head(w) = w[1] /\ Len(w) \in Nat \ {0} /\ DOMAIN w = 1..Len(w)
      /\ Tail(w) \in Seq(S) /\ Len(Tail(w)) = Len(w) - 1
      /\ \A j \in 1..Len(Tail(w)) : Tail(w)[j] = w[j + 1]
  BY HeadTailProperties, LenProperties, EmptySeq
<1>2. DOMAIN Tail(w) = 1..Len(Tail(w))
  BY <1>1, LenProperties
<1>3. ASSUME NEW k \in DOMAIN w
      PROVE  w[k] = Head(w) \/ \E j \in DOMAIN Tail(w) : Tail(w)[j] = w[k]
  <2>1. k = 1 \/ (k - 1 \in 1..Len(Tail(w)) /\ (k - 1) + 1 = k)
    BY <1>1
  <2> QED
    BY <1>1, <1>2, <2>1
<1>4. ASSUME NEW j \in DOMAIN Tail(w) PROVE \E k \in DOMAIN w : w[k] = Tail(w)[j]
  <2>1. j + 1 \in 1..Len(w)
    BY <1>1, <1>2
  <2> QED
    BY <1>1, <1>2, <2>1
<1>5. 1 \in DOMAIN w
  BY <1>1
<1>6. Elements(w) = {Head(w)} \cup Elements(Tail(w))
  <2> DEFINE t == Tail(w)  h == Head(w)
  <2>1. /\ \A x : x \in Elements(w) <=> \E k \in DOMAIN w : w[k] = x
        /\ \A x : x \in Elements(t) <=> \E k \in DOMAIN t : t[k] = x
    BY DEF Elements
  <2> HIDE DEF t, h
  <2>2. /\ \A k \in DOMAIN w : w[k] = h \/ \E j \in DOMAIN t : t[j] = w[k]
        /\ \A j \in DOMAIN t : \E k \in DOMAIN w : w[k] = t[j]
        /\ 1 \in DOMAIN w /\ w[1] = h
    BY <1>1, <1>3, <1>4, <1>5 DEF t, h
  <2>3. \A x : x \in Elements(w) <=> x = h \/ x \in Elements(t)
    BY <2>1, <2>2
  <2>4. Elements(w) = {h} \cup Elements(t)
    BY <2>3
  <2> QED
    BY <2>4 DEF t, h
<1>7. ASSUME Len(w) = 1 PROVE Elements(Tail(w)) = {}
  <2>1. Len(Tail(w)) = 0
    BY <1>1, <1>7
  <2>2. 1..0 = {}
    OBVIOUS
  <2>3. DOMAIN Tail(w) = {}
    BY <1>2, <2>1, <2>2
  <2> QED
    BY <2>3 DEF Elements
<1> QED
  BY <1>6, <1>7

LEMMA TakerTypes ==
    ASSUME Typed
    PROVE  /\ Taker \in Task("book")
           /\ Taker.batch \in Seq(Keys) /\ Taker.events \in Seq(BookEvents)
           /\ Taker.wire \in Seq(BookEvents)
           /\ Len(queue["book"]) \in Nat /\ Len(Taker.batch) \in Nat
           /\ \A l \in late["book"] : l.wire \in Seq(BookEvents) /\ l.wire # <<>>
           /\ stream["book"] \in Seq(BookEvents)
           /\ Shape /\ "book" \in Publishers /\ Local("book") /\ Global
           /\ Elements(<<>>) = {}
<1>1. Local("book") /\ Shape /\ "book" \in Publishers /\ Global
  BY DEF Typed, Publishers
<1>2. /\ Taker \in Task("book") /\ Taker.batch \in Seq(Keys) /\ Taker.events \in Seq(BookEvents)
      /\ Taker.wire \in Seq(BookEvents) /\ stream["book"] \in Seq(BookEvents)
      /\ queue["book"] \in Seq(Keys)
      /\ \A l \in late["book"] : l.wire \in Seq(BookEvents) /\ l.wire # <<>>
  BY <1>1 DEF Local, Task, Taker, Keyed, Events
<1>3. Len(queue["book"]) \in Nat /\ Len(Taker.batch) \in Nat
  BY <1>2, LenProperties
<1>4. Elements(<<>>) = {}
  BY DEF Elements
<1> QED
  BY <1>1, <1>2, <1>3, <1>4

\* What only sends less, or brings more to its end, keeps the order.
LEMMA OrderKept ==
    ASSUME Ordered, stream'["book"] = stream["book"], offered' = offered,
           dropped \subseteq dropped', refused["book"] \subseteq refused'["book"], Sent' \subseteq Sent,
           Taker'.pc # "gone" => Sent' \ Active' \subseteq Out'
    PROVE  Ordered'
<1>1. Out \subseteq Out'
  BY DEF Out, BookLog, InLog
<1>2. \A e \in Sent' : e \in BookEvents /\ e[2] <= offered'[e[1]]
  BY DEF Ordered
<1>3. \A x, e \in Sent' : Older(e, x) => e \in Out'
  BY <1>1 DEF Ordered
<1>4. \A m \in DOMAIN stream'["book"] : \A e \in Sent' :
           Older(e, stream'["book"][m]) =>
               \/ e \in dropped' \cup refused'["book"]
               \/ \E i \in 1..(m - 1) : stream'["book"][i] = e
  BY DEF Ordered
<1> QED
  BY <1>2, <1>3, <1>4 DEF Ordered

\* A step that the book publisher does not take.
LEMMA BookFlowKept ==
    ASSUME BookFlow, Same("book"), service' # "stopped" => service # "stopped",
           UNCHANGED <<offered, latest, queued, dropped>>
    PROVE  BookFlow'
<1>1. /\ Taker' = Taker /\ BookLog' = BookLog /\ Active' = Active /\ LateBooks' = LateBooks
      /\ stream'["book"] = stream["book"] /\ refused'["book"] = refused["book"]
  BY DEF Same, Taker, BookLog, InLog, Active, LateBooks
<1>2. Sent' = Sent /\ Out' = Out
  BY <1>1 DEF Sent, Out
<1>3. Wired' /\ Newest'
  BY <1>1, <1>2 DEF BookFlow, Wired, Newest
<1>4. Ordered'
  BY <1>1, <1>2, OrderKept DEF BookFlow, Ordered
<1> QED
  BY <1>3, <1>4 DEF BookFlow

LEMMA BookFlowPut ==
    ASSUME ConstantsOK, Typed, BookFlow, NEW k \in Keys, PutBook(k)
    PROVE  BookFlow'
<1>1. /\ Taker' = Taker /\ stream' = stream /\ late' = late /\ refused' = refused
      /\ dropped' = dropped /\ service' = service
      /\ offered' = [offered EXCEPT ![k] = @ + 1] /\ latest' = [latest EXCEPT ![k] = offered'[k]]
      /\ queued \subseteq queued'
  BY DEF PutBook, redis, life, Taker
<1>2. /\ BookLog' = BookLog /\ Active' = Active /\ LateBooks' = LateBooks
  BY <1>1 DEF BookLog, InLog, Active, LateBooks
<1>3. Sent' = Sent /\ Out' = Out
  BY <1>1, <1>2 DEF Sent, Out
<1>4. offered \in [Keys -> Nat] /\ latest \in [Keys -> Nat]
  BY TakerTypes DEF Global, ConstantsOK
<1>5. Wired'
  BY <1>1, <1>2, <1>3 DEF BookFlow, Wired
<1>6. \A e \in Sent : e \in BookEvents /\ e[2] <= offered'[e[1]]
  <2>1. ASSUME NEW e \in Sent PROVE e \in BookEvents /\ e[2] <= offered'[e[1]]
    <3>1. e \in BookEvents /\ e[2] <= offered[e[1]]
      BY DEF BookFlow, Ordered
    <3>2. e[1] \in Keys /\ e[2] \in Nat
      BY <3>1 DEF BookEvents
    <3>3. offered[e[1]] <= offered'[e[1]] /\ offered'[e[1]] \in Nat /\ offered[e[1]] \in Nat
      BY <1>1, <1>4, <3>2
    <3> QED
      BY <3>1, <3>2, <3>3
  <2> QED
    BY <2>1
<1>7. Ordered'
  BY <1>1, <1>2, <1>3, <1>6 DEF BookFlow, Ordered
<1>8. Newest'
  <2>1. /\ latest'[k] = offered'[k]
        /\ \A j \in Keys \ {k} : offered'[j] = offered[j] /\ latest'[j] = latest[j]
    BY <1>1, <1>4
  <2> QED
    BY <1>1, <1>2, <1>3, <2>1 DEF BookFlow, Newest
<1> QED
  BY <1>5, <1>7, <1>8 DEF BookFlow

LEMMA BookFlowGet == ASSUME ConstantsOK, Typed, BookFlow, GetBook PROVE BookFlow'
<1>1. /\ Taker' = [Taker EXCEPT !.pc = "sleep", !.batch = <<Head(queue["book"])>>]
      /\ stream' = stream /\ late' = late /\ refused' = refused /\ Taker.pc = "get"
      /\ UNCHANGED <<offered, latest, queued, dropped, service>>
  BY TakerTypes DEF GetBook, At, Becomes, redis, life, Shape, Taker
<1>2. Taker'.pc = "sleep" /\ Taker'.wire = Taker.wire
  BY <1>1, TakerTypes DEF Task
<1>3. BookLog' = BookLog /\ LateBooks' = LateBooks /\ Active = {} /\ Active' = {}
  BY <1>1, <1>2 DEF BookLog, InLog, LateBooks, Active
<1>4. Sent' = Sent /\ Out' = Out
  BY <1>1, <1>3 DEF Sent, Out
<1>5. Wired' /\ Newest'
  BY <1>1, <1>2, <1>3, <1>4 DEF BookFlow, Wired, Newest
<1>6. Ordered'
  BY <1>1, <1>2, <1>3, <1>4, OrderKept DEF BookFlow, Ordered
<1> QED
  BY <1>5, <1>6 DEF BookFlow

LEMMA BookFlowCollect ==
    ASSUME ConstantsOK, Typed, Coalesced, BookFlow, CollectBooks
    PROVE  BookFlow'
<1> DEFINE taken == {Collected[n] : n \in DOMAIN Collected}
<1>1. /\ Taker' = Publishing(Collected, Books) /\ At("book", "sleep")
      /\ stream' = stream /\ late' = late /\ refused' = refused
      /\ latest' = [j \in Keys |-> IF j \in taken THEN None ELSE latest[j]]
      /\ queued' = queued \ taken /\ UNCHANGED <<offered, dropped, service>>
  BY TakerTypes DEF CollectBooks, Becomes, redis, life, Shape, Taker, Books
<1>2. /\ Taker'.pc = "execute" /\ Taker'.wire = Books /\ Taker'.batch = Collected
      /\ Taker'.events = Books
  BY <1>1 DEF Publishing
<1>3. Taker.pc = "sleep" /\ Active = {}
  BY <1>1 DEF At, Taker, Active
<1>4. /\ Books \in Seq(BookEvents) /\ Len(Books) = Len(Collected)
      /\ Collected \in Seq(Keys) /\ Len(Collected) >= 1
      /\ \A n \in 1..Len(Collected) :
             /\ Collected[n] \in queued /\ offered[Collected[n]] \in 1..MaxBooks
             /\ Books[n] = <<Collected[n], offered[Collected[n]]>>
  BY <1>1, TakerTypes, CollectedKeys, CollectedBooks
<1> HIDE DEF taken, Books, Collected
<1>5. /\ DOMAIN Collected = 1..Len(Collected) /\ DOMAIN Books = 1..Len(Collected)
      /\ Collected # <<>>
  BY <1>4, LenProperties, EmptySeq
<1>6. taken \subseteq Keys /\ taken \subseteq queued
      /\ Elements(Books) = {<<j, offered[j]>> : j \in taken}
      /\ Elements(Books) \subseteq BookEvents
  <2>1. \A n \in 1..Len(Collected) : Collected[n] \in Keys
    BY <1>4, ElementOfSeq
  <2>2. \A n \in 1..Len(Collected) : Books[n] \in BookEvents
    BY <1>4, <2>1 DEF BookEvents
  <2>3. \A j : j \in taken <=> \E n \in 1..Len(Collected) : Collected[n] = j
    BY <1>5 DEF taken
  <2>4. \A e : e \in Elements(Books) <=> \E n \in 1..Len(Collected) : Books[n] = e
    BY <1>5 DEF Elements
  <2>5. \A e : e \in Elements(Books) <=> \E j \in taken : e = <<j, offered[j]>>
    <3>1. ASSUME NEW e \in Elements(Books) PROVE \E j \in taken : e = <<j, offered[j]>>
      <4>1. PICK n \in 1..Len(Collected) : Books[n] = e
        BY <2>4
      <4>2. Collected[n] \in taken /\ e = <<Collected[n], offered[Collected[n]]>>
        BY <1>4, <2>3, <4>1
      <4> QED
        BY <4>2
    <3>2. ASSUME NEW j \in taken PROVE <<j, offered[j]>> \in Elements(Books)
      <4>1. PICK n \in 1..Len(Collected) : Collected[n] = j
        BY <2>3
      <4>2. Books[n] = <<j, offered[j]>>
        BY <1>4, <4>1
      <4> QED
        BY <2>4, <4>2
    <3> QED
      BY <3>1, <3>2
  <2>6. Elements(Books) = {<<j, offered[j]>> : j \in taken}
    BY <2>5
  <2> QED
    BY <1>4, <2>1, <2>2, <2>3, <2>4, <2>6
<1>7. BookLog' = BookLog /\ LateBooks' = LateBooks /\ Active' = Elements(Books)
  BY <1>1, <1>2 DEF BookLog, InLog, LateBooks, Active
<1>8. Sent' = Sent \cup Elements(Books) /\ Out' = Out /\ Sent \subseteq Out
  BY <1>1, <1>3, <1>7 DEF Sent, Out, BookFlow, Ordered
<1>9. Wired'
  BY <1>2, <1>5, <1>7 DEF Wired
<1>10. Newest'
  <2>1. ASSUME NEW j \in Keys, offered[j] # 0, service # "stopped"
        PROVE  j \in queued' \/ latest'[j] = offered[j] \/ <<j, offered[j]>> \in Out' \cup Active'
    <3>1. CASE j \in taken
      BY <1>6, <1>7, <3>1
    <3>2. CASE j \notin taken
      BY <1>1, <1>3, <1>8, <2>1, <3>2 DEF BookFlow, Newest
    <3> QED
      BY <3>1, <3>2
  <2> QED
    BY <1>1, <2>1 DEF Newest
<1>11. \A e \in Sent' : e \in BookEvents /\ e[2] <= offered[e[1]]
  <2>1. ASSUME NEW j \in taken
        PROVE  <<j, offered[j]>> \in BookEvents /\ offered[j] <= offered[j]
    <3>1. offered[j] \in Nat
      BY <1>6, TakerTypes DEF Global, ConstantsOK
    <3> QED
      BY <1>6, <3>1
  <2> QED
    BY <1>6, <1>8, <2>1 DEF BookFlow, Ordered
<1>12. \A x \in Sent' : \A j \in taken : ~Older(<<j, offered[j]>>, x)
  <2>1. ASSUME NEW x \in Sent', NEW j \in taken, Older(<<j, offered[j]>>, x) PROVE FALSE
    <3>1. x[1] = j /\ offered[j] < x[2] /\ x[2] <= offered[j]
      BY <1>11, <2>1 DEF Older
    <3>2. x[2] \in Nat /\ offered[j] \in Nat
      BY <1>6, <1>11, TakerTypes DEF Global, ConstantsOK, BookEvents
    <3> QED
      BY <3>1, <3>2
  <2> QED
    BY <2>1
<1>13. Ordered'
  <2>1. Sent' \ Active' \subseteq Out'
    BY <1>7, <1>8
  <2>2. \A x, e \in Sent' : Older(e, x) => e \in Out'
    BY <1>6, <1>8, <1>12
  <2>3. stream'["book"] = stream["book"] /\ \A m \in DOMAIN stream["book"] : stream["book"][m] \in Sent'
    BY <1>1, <1>8 DEF Sent, BookLog, InLog
  <2>4. ASSUME NEW m \in DOMAIN stream["book"], NEW e \in Sent', Older(e, stream["book"][m])
        PROVE  \/ e \in dropped \cup refused["book"]
               \/ \E i \in 1..(m - 1) : stream["book"][i] = e
    <3>1. e \notin Elements(Books)
      BY <1>6, <1>12, <2>3, <2>4
    <3> QED
      BY <1>8, <2>4, <3>1 DEF BookFlow, Ordered
  <2> QED
    BY <1>1, <1>11, <2>1, <2>2, <2>3, <2>4 DEF Ordered
<1> QED
  BY <1>9, <1>10, <1>13 DEF BookFlow

\* publish_many, for books, and the drop of a batch.
LEMMA BookFlowPublisher ==
    ASSUME ConstantsOK, Typed, BookFlow, Publisher("book") \/ GiveUp
    PROVE  BookFlow'
<1>1. /\ stream' = stream /\ refused' = refused /\ UNCHANGED <<offered, latest, queued, service>>
      /\ BookLog' = BookLog
  BY DEF Publisher, Reply, Fail, ConnectionError, Retry, GiveUp, redis, pipeline, life, BookLog, InLog
<1>2. /\ Idle.pc = "get" /\ Idle.wire = <<>> /\ Gone.pc = "gone" /\ Gone.wire = <<>>
  BY DEF Idle, Gone
<1>3. Elements(Taker.wire) \subseteq Active
  <2>1. CASE Taker.pc = "execute"
    BY <2>1 DEF BookFlow, Wired
  <2>2. CASE Taker.pc # "execute"
    BY <2>2, TakerTypes DEF BookFlow, Wired
  <2> QED
    BY <2>1, <2>2
<1>4. ASSUME late'["book"] = Leftover("book") PROVE LateBooks' \subseteq LateBooks \cup Active
  <2>1. ASSUME NEW l \in Leftover("book") PROVE Elements(l.wire) \subseteq LateBooks \cup Active
    <3>1. CASE l \in late["book"]
      BY <3>1 DEF LateBooks
    <3>2. CASE l \notin late["book"]
      <4>1. l.wire = Taker.wire
        BY <3>2 DEF Leftover, Taker
      <4> QED
        BY <1>3, <4>1
    <3> QED
      BY <3>1, <3>2
  <2> QED
    BY <1>4, <2>1 DEF LateBooks
<1>5. ASSUME Taker' \in {Idle, Gone}, dropped \subseteq dropped', LateBooks' \subseteq LateBooks \cup Active,
             Active \subseteq Out', Taker.pc # "gone"
      PROVE  BookFlow'
  <2>1. Active' = {} /\ Taker'.wire = <<>> /\ Taker'.pc \in {"get", "gone"}
    BY <1>2, <1>5 DEF Active
  <2>2. Sent' \subseteq Sent /\ Out \subseteq Out'
    BY <1>1, <1>5, <2>1 DEF Sent, Out
  <2>3. Sent' \ Active' \subseteq Out'
    BY <1>5, <2>1, <2>2 DEF BookFlow, Ordered
  <2>4. Ordered'
    BY <1>1, <1>5, <2>2, <2>3, OrderKept DEF BookFlow
  <2>5. Wired'
    BY <2>1 DEF Wired
  <2>6. Newest'
    BY <1>1, <1>5, <2>2 DEF BookFlow, Newest
  <2> QED
    BY <2>4, <2>5, <2>6 DEF BookFlow
<1>6. CASE Reply("book") \/ Fail("book")
  <2>1. /\ Taker' \in {Idle, Gone} /\ late' = late /\ dropped' = dropped
        /\ Taker.pc = "execute" /\ Taker.wire = <<>>
    BY <1>6, TakerTypes DEF Reply, Fail, At, Finished, Becomes, redis, Shape, Taker
  <2>2. Active \subseteq Out
    BY <2>1, TakerTypes DEF BookFlow, Wired
  <2>3. Out' = Out /\ LateBooks' = LateBooks
    BY <1>1, <2>1 DEF Out, LateBooks
  <2> QED
    BY <1>5, <2>1, <2>2, <2>3
<1>7. CASE GiveUp
  <2>1. /\ Taker' = Idle /\ late'["book"] = Leftover("book") /\ dropped' = dropped \cup Elements(Taker.events)
        /\ Taker.pc = "execute"
    BY <1>7, TakerTypes DEF GiveUp, At, Finished, Becomes, Shape, Taker, Elements
  <2>2. Active \subseteq Out'
    BY <2>1 DEF Active, Out
  <2> QED
    BY <1>4, <1>5, <2>1, <2>2
<1>8. ASSUME Taker'.pc \in {"execute", "backoff"}, Taker.pc \in {"execute", "backoff"},
             Taker'.events = Taker.events, dropped' = dropped, LateBooks' \subseteq LateBooks \cup Active,
             Taker'.batch = Taker.batch, Wired'
      PROVE  BookFlow'
  <2>1. Active' = Active /\ Out' = Out
    BY <1>1, <1>8 DEF Active, Out
  <2>2. Sent' \subseteq Sent
    BY <1>1, <1>8, <2>1 DEF Sent
  <2>3. Taker.pc # "gone"
    BY <1>8
  <2>4. Ordered'
    BY <1>1, <1>8, <2>1, <2>2, <2>3, OrderKept DEF BookFlow, Ordered
  <2>5. Newest'
    BY <1>1, <2>1 DEF BookFlow, Newest
  <2> QED
    BY <1>8, <2>4, <2>5 DEF BookFlow
<1>9. CASE ConnectionError("book")
  <2> DEFINE failures == IF "book" = "book" THEN Taker.failures + 1 ELSE Taker.failures
  <2>1. /\ Taker' = [Taker EXCEPT !.pc = "backoff", !.wire = <<>>, !.failures = failures]
        /\ late'["book"] = Leftover("book") /\ Taker.pc = "execute" /\ dropped' = dropped
    BY <1>9, TakerTypes DEF ConnectionError, At, Becomes, Shape, Taker
  <2> HIDE DEF failures
  <2>2. /\ Taker'.pc = "backoff" /\ Taker'.batch = Taker.batch /\ Taker'.wire = <<>>
        /\ Taker'.events = Taker.events
    BY <2>1, TakerTypes DEF Task
  <2>3. Wired'
    BY <2>1, <2>2 DEF BookFlow, Wired
  <2> QED
    BY <1>4, <1>8, <2>1, <2>2, <2>3
<1>10. CASE Retry("book")
  <2>1. /\ Taker' = [Taker EXCEPT !.pc = "execute", !.wire = Taker.events, !.error = FALSE]
        /\ late' = late /\ Taker.pc = "backoff" /\ dropped' = dropped
    BY <1>10, TakerTypes DEF Retry, At, Becomes, redis, Shape, Taker
  <2>2. /\ Taker'.pc = "execute" /\ Taker'.batch = Taker.batch /\ Taker'.wire = Taker.events
        /\ Taker'.events = Taker.events
    BY <2>1, TakerTypes DEF Task
  <2>3. Active' = Elements(Taker.events)
    BY <2>2 DEF Active
  <2>4. Wired'
    BY <2>1, <2>2, <2>3 DEF BookFlow, Wired
  <2>5. LateBooks' = LateBooks
    BY <2>1 DEF LateBooks
  <2> QED
    BY <1>8, <2>1, <2>2, <2>4, <2>5
<1> QED
  BY <1>6, <1>7, <1>9, <1>10 DEF Publisher

\* Redis executes or refuses a command for a book.
LEMMA BookFlowRedis ==
    ASSUME ConstantsOK, Typed, BookFlow, NEW refuse \in BOOLEAN,
           XAdd("book", refuse) \/ LateXAdd("book", refuse)
    PROVE  BookFlow'
<1> DEFINE s == stream["book"]
<1>1. UNCHANGED <<offered, latest, queued, service, dropped>>
  BY DEF XAdd, LateXAdd, pipeline, life
<1>2. ASSUME NEW x \in Sent,
             \/ refused'["book"] = refused["book"] \cup {x} /\ stream'["book"] = s
             \/ refused'["book"] = refused["book"] /\ stream'["book"] = Append(s, x),
             LateBooks' \subseteq LateBooks, Active' = Active, Taker'.pc = Taker.pc,
             Wired'
      PROVE  BookFlow'
  <2>1. s \in Seq(BookEvents) /\ Len(s) \in Nat /\ DOMAIN s = 1..Len(s) /\ x \in BookEvents
    BY TakerTypes, LenProperties DEF BookFlow, Ordered
  <2>2. Out' = Out \cup {x} /\ Sent' \subseteq Sent
    <3>1. CASE refused'["book"] = refused["book"] \cup {x} /\ stream'["book"] = s
      BY <1>1, <1>2, <3>1 DEF Out, Sent, BookLog, InLog
    <3>2. CASE refused'["book"] = refused["book"] /\ stream'["book"] = Append(s, x)
      <4>1. BookLog' = BookLog \cup {x}
        BY <2>1, <3>2, LogAfter DEF BookLog
      <4> QED
        BY <1>1, <1>2, <3>2, <4>1 DEF Out, Sent
    <3> QED
      BY <1>2, <3>1, <3>2
  <2>3. Newest'
    BY <1>1, <1>2, <2>2 DEF BookFlow, Newest
  <2>4. Ordered'
    <3>1. CASE refused'["book"] = refused["book"] \cup {x} /\ stream'["book"] = s
      BY <1>1, <1>2, <2>2, <3>1, OrderKept DEF BookFlow, Ordered
    <3>2. CASE refused'["book"] = refused["book"] /\ stream'["book"] = Append(s, x)
      <4>1. /\ DOMAIN stream'["book"] = 1..(Len(s) + 1) /\ stream'["book"][Len(s) + 1] = x
            /\ \A m \in 1..Len(s) : stream'["book"][m] = s[m]
        BY <2>1, <3>2, AppendProperties, LenProperties
      <4>2. ASSUME NEW m \in DOMAIN stream'["book"], NEW e \in Sent', Older(e, stream'["book"][m])
            PROVE  \/ e \in dropped' \cup refused'["book"]
                   \/ \E i \in 1..(m - 1) : stream'["book"][i] = e
        <5>1. CASE m \in 1..Len(s)
          <6>1. \/ e \in dropped \cup refused["book"]
                \/ \E i \in 1..(m - 1) : s[i] = e
            BY <2>1, <2>2, <4>1, <4>2, <5>1 DEF BookFlow, Ordered
          <6>2. 1..(m - 1) \subseteq 1..Len(s)
            BY <2>1, <5>1
          <6> HIDE DEF s
          <6> QED
            BY <1>1, <3>2, <4>1, <6>1, <6>2
        <5>2. CASE m \notin 1..Len(s)
          <6>1. m = Len(s) + 1
            BY <2>1, <4>1, <5>2
          <6>2. m - 1 = Len(s)
            BY <2>1, <6>1
          <6>3. Older(e, x)
            BY <4>1, <4>2, <6>1
          <6>4. e \in Out
            BY <2>2, <6>3 DEF BookFlow, Ordered
          <6>5. e \in dropped \cup refused["book"] \/ \E i \in 1..Len(s) : s[i] = e
            BY <2>1, <6>4 DEF Out, BookLog, InLog
          <6> HIDE DEF s
          <6> QED
            BY <1>1, <3>2, <4>1, <6>2, <6>5
        <5> QED
          BY <5>1, <5>2
      <4>3. \A e \in Sent' : e \in BookEvents /\ e[2] <= offered'[e[1]]
        BY <1>1, <2>2 DEF BookFlow, Ordered
      <4>4. \A y, e \in Sent' : Older(e, y) => e \in Out'
        BY <2>2 DEF BookFlow, Ordered
      <4>5. Taker'.pc # "gone" => Sent' \ Active' \subseteq Out'
        BY <1>2, <2>2 DEF BookFlow, Ordered
      <4> QED
        BY <4>2, <4>3, <4>4, <4>5 DEF Ordered
    <3> QED
      BY <1>2, <3>1, <3>2
  <2> QED
    BY <1>2, <2>3, <2>4 DEF BookFlow
<1>3. CASE XAdd("book", refuse)
  <2> DEFINE w == Taker.wire
  <2>1. /\ Taker' = [Taker EXCEPT !.wire = Tail(@), !.error = @ \/ refuse] /\ w # <<>> /\ late' = late
        /\ Taker.pc = "execute"
        /\ \/ refused'["book"] = refused["book"] \cup {Head(w)} /\ stream'["book"] = s
           \/ refused'["book"] = refused["book"] /\ stream'["book"] = Append(s, Head(w))
    BY <1>3, TakerTypes DEF XAdd, At, Becomes, Shape, Taker
  <2>2. /\ Taker'.pc = "execute" /\ Taker'.batch = Taker.batch /\ Taker'.events = Taker.events
        /\ Taker'.wire = Tail(w)
    BY <2>1, TakerTypes DEF Task
  <2>3. Active' = Active /\ LateBooks' = LateBooks
    BY <2>1, <2>2 DEF Active, LateBooks
  <2>4. Elements(w) = {Head(w)} \cup Elements(Tail(w))
    BY <2>1, TakerTypes, ElementsOfParts
  <2>5. Elements(w) \subseteq Active /\ Active \subseteq Out \cup Elements(w) /\ Taker.batch # <<>>
    BY <2>1 DEF BookFlow, Wired
  <2>6. Head(w) \in Out' /\ Out \subseteq Out'
    <3>1. CASE refused'["book"] = refused["book"] \cup {Head(w)} /\ stream'["book"] = s
      BY <1>1, <3>1 DEF Out, BookLog, InLog
    <3>2. CASE refused'["book"] = refused["book"] /\ stream'["book"] = Append(s, Head(w))
      <4>1. BookLog' = BookLog \cup {Head(w)}
        BY <3>2, TakerTypes, LogAfter DEF BookLog
      <4> QED
        BY <1>1, <3>2, <4>1 DEF Out
    <3> QED
      BY <2>1, <3>1, <3>2
  <2> HIDE DEF w
  <2>7. Wired'
    BY <2>2, <2>3, <2>4, <2>5, <2>6 DEF Wired
  <2>8. Head(w) \in Sent
    BY <2>4, <2>5 DEF Sent
  <2> QED
    BY <1>2, <2>1, <2>2, <2>3, <2>7, <2>8
<1>4. CASE LateXAdd("book", refuse)
  <2>1. PICK l \in late["book"] :
           /\ Taker' = Taker
           /\ late'["book"] = (late["book"] \ {l}) \cup
                  IF Len(l.wire) = 1 THEN {} ELSE {[l EXCEPT !.wire = Tail(@)]}
           /\ \/ refused'["book"] = refused["book"] \cup {Head(l.wire)} /\ stream'["book"] = s
              \/ refused'["book"] = refused["book"] /\ stream'["book"] = Append(s, Head(l.wire))
    BY <1>4, TakerTypes DEF LateXAdd, Shape, Taker
  <2>2. Elements(l.wire) = {Head(l.wire)} \cup Elements(Tail(l.wire))
    BY TakerTypes, ElementsOfParts
  <2>3. Elements(l.wire) \subseteq LateBooks /\ Head(l.wire) \in LateBooks
    BY <2>2 DEF LateBooks
  <2>4. LateBooks' \subseteq LateBooks
    <3>1. ASSUME NEW m \in late'["book"] PROVE Elements(m.wire) \subseteq LateBooks
      <4>1. CASE m \in late["book"]
        BY <4>1 DEF LateBooks
      <4>2. CASE m \notin late["book"]
        <5>1. m = [l EXCEPT !.wire = Tail(@)]
          BY <2>1, <4>2
        <5>2. m.wire = Tail(l.wire)
          BY <5>1
        <5> QED
          BY <2>2, <2>3, <5>2
      <4> QED
        BY <4>1, <4>2
    <3> QED
      BY <3>1 DEF LateBooks
  <2>5. Active' = Active /\ Taker'.pc = Taker.pc
    BY <2>1 DEF Active
  <2>6. Out \subseteq Out'
    <3>1. CASE stream'["book"] = s
      BY <1>1, <2>1, <3>1 DEF Out, BookLog, InLog
    <3>2. CASE refused'["book"] = refused["book"] /\ stream'["book"] = Append(s, Head(l.wire))
      <4>1. BookLog' = BookLog \cup {Head(l.wire)}
        BY <3>2, TakerTypes, LogAfter DEF BookLog
      <4> QED
        BY <1>1, <3>2, <4>1 DEF Out
    <3> QED
      BY <2>1, <3>1, <3>2
  <2>7. Wired'
    BY <2>1, <2>5, <2>6 DEF BookFlow, Wired
  <2>8. Head(l.wire) \in Sent
    BY <2>3 DEF Sent
  <2> QED
    BY <1>2, <2>1, <2>4, <2>5, <2>7, <2>8
<1> QED
  BY <1>3, <1>4

LEMMA InitBookFlow == ASSUME ConstantsOK, Init PROVE BookFlow
<1>1. /\ Taker = Idle /\ stream["book"] = <<>> /\ refused["book"] = {} /\ late["book"] = {}
      /\ dropped = {} /\ offered = [k \in Keys |-> 0]
  BY DEF Init, Publishers, Taker
<1>2. Idle.pc = "get" /\ Idle.wire = <<>> /\ DOMAIN <<>> = {}
  BY DEF Idle
<1>3. BookLog = {} /\ LateBooks = {} /\ Active = {}
  BY <1>1, <1>2 DEF BookLog, InLog, LateBooks, Active
<1>4. Wired /\ Newest
  BY <1>1, <1>2 DEF Wired, Newest
<1>5. Ordered
  BY <1>1, <1>2, <1>3 DEF Ordered, Sent
<1> QED
  BY <1>4, <1>5 DEF BookFlow

LEMMA BookFlowStays ==
    ASSUME ConstantsOK, Typed, Coalesced, BookFlow, [Next]_vars
    PROVE  BookFlow'
<1>1. Shape /\ "critical" \in Publishers /\ "book" \in Publishers
      /\ Publishers = {"critical", "book"}
  BY DEF Typed, Publishers
<1>2. CASE StepOf("book")
  <2>1. CASE BookStep
    BY <2>1, BookFlowPut, BookFlowGet, BookFlowCollect, BookFlowPublisher DEF BookStep
  <2>2. CASE Publisher("book")
    BY <2>2, BookFlowPublisher
  <2>3. CASE \E refuse \in BOOLEAN : XAdd("book", refuse) \/ LateXAdd("book", refuse)
    BY <2>3, BookFlowRedis
  <2> QED
    BY <1>2, <2>1, <2>2, <2>3 DEF StepOf
<1>3. CASE StepOf("critical")
  <2>1. Same("book")
    BY <1>1, <1>3, Others
  <2>2. UNCHANGED <<offered, latest, queued, dropped, service>>
    BY <1>3 DEF StepOf, CriticalStep, PutCritical, GetCritical, PublishCritical, Publisher, Reply,
       Fail, ConnectionError, Retry, XAdd, LateXAdd, pipeline, life
  <2> QED
    BY <2>1, <2>2, BookFlowKept
<1>4. CASE Stop
  BY <1>4, BookFlowKept DEF Stop, pipeline, redis, Same
<1>5. ASSUME NEW return \in BOOLEAN, Ending(return) PROVE BookFlow'
  <2>1. /\ Taker' = Gone /\ late'["book"] = Leftover("book") /\ service' = "stopped"
        /\ stream' = stream /\ refused' = refused /\ offered' = offered /\ dropped' = dropped
    BY <1>1, <1>5 DEF Ending, pipeline, Taker
  <2>2. Gone.pc = "gone" /\ Gone.wire = <<>>
    BY DEF Idle, Gone
  <2>3. BookLog' = BookLog /\ Active' = {}
    BY <2>1, <2>2 DEF BookLog, InLog, Active
  <2>4. Elements(Taker.wire) \subseteq Active
    <3>1. CASE Taker.pc = "execute"
      BY <3>1 DEF BookFlow, Wired
    <3>2. CASE Taker.pc # "execute"
      BY <3>2, TakerTypes DEF BookFlow, Wired
    <3> QED
      BY <3>1, <3>2
  <2>5. LateBooks' \subseteq LateBooks \cup Active
    <3>1. ASSUME NEW l \in Leftover("book") PROVE Elements(l.wire) \subseteq LateBooks \cup Active
      <4>1. CASE l \in late["book"]
        BY <4>1 DEF LateBooks
      <4>2. CASE l \notin late["book"]
        <5>1. l.wire = Taker.wire
          BY <4>2 DEF Leftover, Taker
        <5> QED
          BY <2>4, <5>1
      <4> QED
        BY <4>1, <4>2
    <3> QED
      BY <2>1, <3>1 DEF LateBooks
  <2>6. Sent' \subseteq Sent
    BY <2>3, <2>5 DEF Sent
  <2>7. Ordered'
    BY <2>1, <2>2, <2>6, OrderKept DEF BookFlow
  <2> QED
    BY <2>1, <2>2, <2>7 DEF BookFlow, Wired, Newest
<1>6. CASE UNCHANGED vars
  BY <1>6, BookFlowKept DEF vars, pipeline, redis, life, Same
<1> QED
  BY <1>1, <1>2, <1>3, <1>4, <1>5, <1>6, NextCases

LEMMA AlwaysBookFlow == ASSUME ConstantsOK PROVE Spec => [](Typed /\ Coalesced /\ BookFlow)
<1>1. Init => Typed /\ Coalesced /\ BookFlow
  BY InitTyped, InitCoalesced, InitBookFlow
<1>2. Typed /\ Coalesced /\ BookFlow /\ [Next]_vars => (Typed /\ Coalesced /\ BookFlow)'
  BY TypedStays, CoalescedStays, BookFlowStays
<1> QED
  BY <1>1, <1>2, PTL DEF Spec

\* No book comes into the log for the first time behind a newer one of its key,
\* unless it belonged to a batch that was given up, or was refused once.
THEOREM BooksInOrder == Spec => []BookOrder
<1>1. ASSUME Typed, BookFlow PROVE BookOrder
  <2> DEFINE s == stream["book"]
  <2>1. SUFFICES ASSUME NEW m \in DOMAIN s, NEW n \in DOMAIN s,
                        m < n, s[m][1] = s[n][1], s[n][2] < s[m][2]
                 PROVE  \/ \E i \in 1..(m - 1) : s[i] = s[n]
                        \/ s[n] \in dropped \cup refused["book"]
    BY DEF BookOrder
  <2>2. s[n] \in Sent /\ Older(s[n], s[m])
    BY <2>1 DEF Sent, BookLog, InLog, Older
  <2> QED
    <3>1. \A k \in DOMAIN s : \A e \in Sent :
              Older(e, s[k]) => e \in dropped \cup refused["book"] \/ \E i \in 1..(k - 1) : s[i] = e
      BY <1>1 DEF BookFlow, Ordered
    <3> HIDE DEF s
    <3> QED
      BY <2>1, <2>2, <3>1
<1>2. Typed /\ Coalesced /\ BookFlow => BookOrder
  BY <1>1
<1> QED
  BY <1>2, AlwaysBookFlow, ConstantsOK, PTL

-----------------------------------------------------------------------------
(* What a drain achieves *)

\* A critical task that ended by itself left its batch unfinished.
Blocks == Sender.pc = "gone" /\ service # "stopped" => unfinished["critical"] >= 1

Drained ==
    /\ drained => service = "stopped"
    /\ service = "stopped" => \A p \in Publishers : task[p].pc = "gone"
    /\ Blocks
    /\ DrainLosesNothing

LEMMA GoneStays ==
    ASSUME Typed, Drained, Next, service = "stopped"
    PROVE  \E p \in Publishers, refuse \in BOOLEAN : LateXAdd(p, refuse)
<1>1. \A p \in Publishers : task[p].pc = "gone"
  BY DEF Drained
<1>2. ~PutCritical /\ (\A k \in Keys : ~PutBook(k)) /\ ~Stop /\ \A return \in BOOLEAN : ~Ending(return)
  BY DEF PutCritical, PutBook, Stop, Ending
<1>3. ASSUME NEW p \in Publishers
      PROVE  ~Publisher(p) /\ \A refuse \in BOOLEAN : ~XAdd(p, refuse)
  BY <1>1 DEF Publisher, Reply, Fail, ConnectionError, Retry, XAdd, At
<1>4. ~CriticalTask /\ ~BookTask
  BY <1>1, <1>3 DEF CriticalTask, BookTask, GetCritical, PublishCritical, GetBook, CollectBooks,
     GiveUp, At, Publishers
<1> QED
  BY <1>2, <1>3, <1>4 DEF Next

\* When nothing is queued and nothing is in a batch, all is settled, unless the
\* critical task has failed.
LEMMA NothingPending ==
    ASSUME Typed, Coalesced, Flow, BookFlow, service # "stopped", Sender.pc # "gone",
           \A p \in Publishers : queue[p] = <<>> /\ task[p].batch = <<>>
    PROVE  Settled
<1>2. ASSUME NEW p \in Publishers
      PROVE  /\ queue[p] \in Seq(Keyed(p)) /\ task[p].batch \in Seq(Keyed(p))
             /\ Len(queue[p]) = 0 /\ Len(task[p].batch) = 0
  <2>1. Local(p)
    BY DEF Typed
  <2> QED
    BY <2>1, LenProperties, EmptySeq DEF Local, Task
<1>3. InLog("critical") = 1..accepted
  <2>2. PICK first \in Nat : PendingInOrder(first)
    BY DEF Flow
  <2>3. Len(Pending) = 0
    <3> DEFINE q == queue["critical"]  b == Sender.batch
    <3>1. q \in Seq(Nat) /\ b \in Seq(Nat) /\ Len(q) = 0 /\ Len(b) = 0
      BY <1>2, SenderTypes DEF Sender
    <3> HIDE DEF q, b
    <3>2. Len(b \o q) = Len(b) + Len(q)
      BY <3>1, ConcatProperties
    <3>3. Len(b \o q) = 0
      BY <3>1, <3>2
    <3> QED
      BY <3>3 DEF Pending, q, b
  <2>4. first = accepted /\ 1..first \subseteq Log
    BY <2>2, <2>3 DEF PendingInOrder
  <2> QED
    BY <2>4 DEF Flow, Reached, Log
<1>4. Taker.pc \notin {"execute", "backoff"}
  <2>1. Taker.batch = <<>>
    BY <1>2, TakerTypes, EmptySeq DEF Taker
  <2> QED
    BY <2>1 DEF BookFlow, Wired
<1>5. queued = {}
  <2>1. Waiting \in Seq(Keys) /\ Len(Waiting) = 0
    <3>1. Len(queue["book"]) = 0 /\ Len(task["book"].batch) = 0
      BY <1>2, TakerTypes
    <3>2. Waiting \in Seq(Keys) /\ queue["book"] \in Seq(Keys) /\ task["book"].batch \in Seq(Keys)
      BY TakerTypes, WaitingKeys
    <3>3. \A b, q \in Seq(Keys) : Len(b \o q) = Len(b) + Len(q)
      BY ConcatProperties
    <3>4. Len(task["book"].batch \o queue["book"]) = 0
      <4>1. Len(task["book"].batch \o queue["book"]) = Len(task["book"].batch) + Len(queue["book"])
        BY <3>2, <3>3
      <4> QED
        BY <3>1, <4>1
    <3> QED
      BY <3>1, <3>2, <3>4 DEF Waiting
  <2>2. DOMAIN Waiting = {}
    <3>1. DOMAIN Waiting = 1..0
      BY <2>1, LenProperties
    <3> QED
      BY <3>1
  <2> QED
    BY <2>2 DEF Coalesced
<1>6. ASSUME NEW k \in Keys, offered[k] # 0
      PROVE  \/ <<k, offered[k]>> \in InLog("book") \cup dropped \cup refused["book"]
             \/ latest[k] = offered[k] /\ k \notin queued
  <2>1. latest[k] = offered[k] \/ <<k, offered[k]>> \in Out
    BY <1>4, <1>5, <1>6 DEF BookFlow, Newest, Active
  <2> QED
    BY <1>5, <2>1 DEF Out, BookLog
<1> QED
  BY <1>3, <1>6 DEF Settled

LEMMA NothingUnfinished ==
    ASSUME Typed, Coalesced, Flow, BookFlow, Drained, service = "draining",
           \A p \in Publishers : unfinished[p] = 0
    PROVE  Settled
<1>1. ASSUME NEW m \in Nat, NEW n \in Nat, m + n <= 0 PROVE m = 0 /\ n = 0
  BY <1>1
<1>2. ASSUME NEW p \in Publishers
      PROVE  /\ queue[p] \in Seq(Keyed(p)) /\ task[p].batch \in Seq(Keyed(p))
             /\ Len(queue[p]) = 0 /\ Len(task[p].batch) = 0
  <2>1. Local(p) /\ unfinished[p] = 0
    BY DEF Typed
  <2>2. queue[p] \in Seq(Keyed(p)) /\ task[p].batch \in Seq(Keyed(p))
    BY <2>1 DEF Local, Task
  <2>3. Len(queue[p]) \in Nat /\ Len(task[p].batch) \in Nat
    BY <2>2, LenProperties
  <2>4. Len(queue[p]) + Len(task[p].batch) <= 0
    BY <2>1 DEF Local
  <2> QED
    BY <1>1, <2>2, <2>3, <2>4
<1>3. \A p \in Publishers : queue[p] = <<>> /\ task[p].batch = <<>>
  BY <1>2, EmptySeq
<1>4. Sender.pc # "gone"
  <2>1. unfinished["critical"] = 0
    BY DEF Publishers
  <2> QED
    BY <2>1 DEF Drained, Blocks
<1> QED
  BY <1>3, <1>4, NothingPending

LEMMA DrainedStays ==
    ASSUME ConstantsOK, Typed, Coalesced, Flow, BookFlow, Drained, Flow', [Next]_vars
    PROVE  Drained'
<1>1. Shape /\ Publishers = {"critical", "book"} /\ "critical" \in Publishers /\ "book" \in Publishers
  BY DEF Typed, Publishers
<1>2. ASSUME service # "stopped", service' = service, drained' = drained, Blocks'
      PROVE  Drained'
  BY <1>2 DEF Drained, DrainLosesNothing
<1>3. CASE service # "stopped" /\ StepOf("critical")
  <2>1. service' = service /\ drained' = drained
    BY <1>3 DEF StepOf, CriticalStep, PutCritical, GetCritical, PublishCritical, Publisher, Reply,
       Fail, ConnectionError, Retry, XAdd, LateXAdd, life
  <2>2. CASE PutCritical
    <3>1. unfinished'["critical"] = unfinished["critical"] + 1 /\ unfinished["critical"] \in Nat
      BY <1>1, <2>2 DEF PutCritical, Enqueue, Shape, Typed, Local
    <3> QED
      BY <1>2, <1>3, <2>1, <3>1 DEF Blocks
  <2>3. CASE GetCritical \/ PublishCritical
    <3>1. Sender'.pc # "gone"
      <4>1. CASE GetCritical
        BY <1>1, <4>1, SenderTypes DEF GetCritical, Becomes, Shape, Sender, Task
      <4>2. CASE PublishCritical
        BY <1>1, <4>2 DEF PublishCritical, Becomes, Shape, Sender, Publishing
      <4> QED
        BY <2>3, <4>1, <4>2
    <3> QED
      BY <1>2, <1>3, <2>1, <3>1 DEF Blocks
  <2>4. CASE Publisher("critical")
    <3>1. CASE Reply("critical")
      <4>1. Sender'.pc = "get"
        BY <1>1, <3>1 DEF Reply, Finished, Becomes, Shape, Sender, Idle
      <4> QED
        BY <1>2, <1>3, <2>1, <4>1 DEF Blocks
    <3>2. CASE Fail("critical")
      <4>1. unfinished'["critical"] = unfinished["critical"] /\ Sender.pc = "execute"
        BY <1>1, <3>2 DEF Fail, At, Shape, Sender
      <4>2. Sender.batch # <<>> /\ Local("critical")
        BY <1>1, <4>1 DEF Flow, Typed
      <4>3. unfinished["critical"] >= 1
        <5> DEFINE m == Len(queue["critical"])  k == Len(Sender.batch)  n == unfinished["critical"]
        <5>1. m \in Nat /\ k \in Nat \ {0} /\ n \in Nat /\ m + k <= n
          <6>1. m \in Nat /\ k \in Nat \ {0}
            BY <4>2, SenderTypes, LenProperties, EmptySeq
          <6> QED
            BY <4>2, <6>1 DEF Local, Sender
        <5> HIDE DEF m, k, n
        <5>2. n >= 1
          BY <5>1
        <5> QED
          BY <5>2 DEF n
      <4> QED
        BY <1>2, <1>3, <2>1, <4>1, <4>3 DEF Blocks
    <3>3. CASE ConnectionError("critical")
      <4>1. Sender' = [Sender EXCEPT !.pc = "backoff", !.wire = <<>>, !.failures = @]
        BY <3>3, SenderTypes DEF ConnectionError, Becomes, Shape, Sender
      <4>2. Sender'.pc = "backoff"
        BY <4>1, SenderTypes DEF Task
      <4> QED
        BY <1>2, <1>3, <2>1, <4>2 DEF Blocks
    <3>4. CASE Retry("critical")
      <4>1. Sender'.pc = "execute"
        BY <3>4, SenderTypes DEF Retry, Becomes, Shape, Sender, Task
      <4> QED
        BY <1>2, <1>3, <2>1, <4>1 DEF Blocks
    <3> QED
      BY <2>4, <3>1, <3>2, <3>3, <3>4 DEF Publisher
  <2>5. ASSUME NEW refuse \in BOOLEAN, XAdd("critical", refuse) \/ LateXAdd("critical", refuse)
        PROVE  Drained'
    <3>1. unfinished' = unfinished
      BY <2>5 DEF XAdd, LateXAdd, pipeline
    <3>2. Sender'.pc = Sender.pc
      <4>1. CASE XAdd("critical", refuse)
        BY <4>1, SenderTypes DEF XAdd, Becomes, Shape, Sender, Task
      <4> QED
        BY <2>5, <4>1 DEF LateXAdd, Sender
    <3> QED
      BY <1>2, <1>3, <2>1, <3>1, <3>2 DEF Blocks, Drained
  <2> QED
    BY <1>3, <2>2, <2>3, <2>4, <2>5 DEF StepOf, CriticalStep
<1>4. CASE service # "stopped" /\ StepOf("book")
  <2>1. Same("critical")
    BY <1>1, <1>4, Others
  <2>2. service' = service /\ drained' = drained
    BY <1>4 DEF StepOf, BookStep, PutBook, GetBook, CollectBooks, GiveUp, Publisher, Reply,
       Fail, ConnectionError, Retry, XAdd, LateXAdd, life
  <2> QED
    BY <1>2, <1>4, <2>1, <2>2 DEF Same, Blocks, Drained, Sender
<1>5. CASE Stop
  BY <1>5 DEF Stop, pipeline, Drained, Blocks, DrainLosesNothing, Sender
<1>6. ASSUME NEW return \in BOOLEAN, Ending(return) PROVE Drained'
  <2>1. /\ service = "draining" /\ service' = "stopped" /\ drained' = return
        /\ \A p \in Publishers : task'[p].pc = "gone"
        /\ return => \A p \in Publishers : unfinished[p] = 0
        /\ UNCHANGED <<accepted, offered, latest, queued, stream, refused, dropped>>
    BY <1>6 DEF Ending, pipeline, Idle, Gone
  <2>2. return => Settled
    BY <2>1, NothingUnfinished
  <2>3. Settled => Settled'
    BY <2>1 DEF Settled, InLog
  <2> QED
    BY <2>1, <2>2, <2>3 DEF Drained, Blocks, DrainLosesNothing
<1>7. CASE service = "stopped" /\ Next
  <2>1. PICK p \in Publishers, refuse \in BOOLEAN : LateXAdd(p, refuse)
    BY <1>7, GoneStays
  <2>2. /\ UNCHANGED <<accepted, offered, latest, queued, dropped, service, drained, task, unfinished>>
    BY <2>1 DEF LateXAdd, pipeline, life
  <2>3. InLog("critical") \subseteq InLog("critical")' /\ InLog("book") \subseteq InLog("book")'
        /\ refused["book"] \subseteq refused'["book"]
    <3>1. ASSUME NEW q \in Publishers
          PROVE  refused[q] \subseteq refused'[q] /\ InLog(q) \subseteq InLog(q)'
      <4>1. CASE stream'[q] = stream[q] /\ refused[q] \subseteq refused'[q]
        BY <4>1 DEF InLog
      <4>2. ASSUME NEW x, stream'[q] = Append(stream[q], x), refused'[q] = refused[q]
            PROVE  refused[q] \subseteq refused'[q] /\ InLog(q) \subseteq InLog(q)'
        <5>1. stream[q] \in Seq(Events(q))
          BY DEF Typed, Local
        <5> QED
          BY <4>2, <5>1, LogAfter, ZenonT(30)
      <4>3. \/ stream'[q] = stream[q] /\ refused[q] \subseteq refused'[q]
            \/ \E x : stream'[q] = Append(stream[q], x) /\ refused'[q] = refused[q]
        <5>1. CASE q # p
          BY <1>1, <2>1, <5>1 DEF LateXAdd, Shape
        <5>2. CASE q = p
          <6>1. PICK l \in late[p] :
                   IF refuse
                   THEN refused' = [refused EXCEPT ![p] = @ \cup {Head(l.wire)}] /\ UNCHANGED stream
                   ELSE stream' = [stream EXCEPT ![p] = Append(@, Head(l.wire))] /\ refused' = refused
            BY <2>1 DEF LateXAdd
          <6> QED
            BY <1>1, <5>2, <6>1, SMTT(30) DEF Shape
        <5> QED
          BY <5>1, <5>2
      <4> QED
        BY <4>1, <4>2, <4>3
    <3> QED
      BY <1>1, <3>1
  <2>4. InLog("critical")' \subseteq 1..accepted'
    BY DEF Flow, Reached, Log
  <2>5. Settled => Settled'
    BY <2>2, <2>3, <2>4 DEF Settled
  <2> QED
    BY <1>7, <2>2, <2>5 DEF Drained, Blocks, DrainLosesNothing, Sender
<1>8. CASE UNCHANGED vars
  BY <1>8 DEF vars, pipeline, redis, life, Drained, Blocks, DrainLosesNothing, Sender, Settled, InLog
<1> QED
  BY <1>1, <1>3, <1>4, <1>5, <1>6, <1>7, <1>8, NextCases

\* A drain that returns before the grace period is over has lost nothing: every
\* critical event is in the log, however the tasks and their attempts failed.
THEOREM DrainIsComplete == Spec => []DrainLosesNothing
<1> DEFINE All == Typed /\ Coalesced /\ Flow /\ BookFlow /\ Drained
<1>1. Init => All
  <2>1. ASSUME Init PROVE Drained
    <3>1. service = "running" /\ ~drained /\ Sender.pc = "get"
      BY <2>1 DEF Init, Publishers, Sender, Idle
    <3> QED
      BY <3>1 DEF Drained, Blocks, DrainLosesNothing
  <2> QED
    BY <2>1, ConstantsOK, InitTyped, InitCoalesced, InitFlow, InitBookFlow
<1>2. All /\ [Next]_vars => All'
  BY ConstantsOK, TypedStays, CoalescedStays, FlowStays, BookFlowStays, DrainedStays
<1>3. All => DrainLosesNothing
  BY DEF Drained
<1> HIDE DEF All
<1> QED
  BY <1>1, <1>2, <1>3, PTL DEF Spec

-----------------------------------------------------------------------------
(* Where the pipeline rests *)

\* The guards of the steps of Progress: a task that fails ends the service, and a
\* task that publishes gets its replies.
Moves ==
    \/ \E p \in Publishers : task[p].pc \in {"gather", "sleep", "execute", "backoff", "gone"}
    \/ \E p \in Publishers : At(p, "get") /\ queue[p] # <<>>

\* When no task has anything to do, every accepted critical event is in the log
\* and the newest book of each key was published, given up, refused, or found the
\* queue full (put, _run_critical and _run_books, for any queue size, batch size,
\* number of keys and number of faults).
THEOREM RestIsSettled == Spec => [](service = "running" /\ ~Moves => Settled)
<1> DEFINE All == Typed /\ Coalesced /\ Flow /\ BookFlow
           Resting == service = "running" /\ ~Moves => Settled
<1>1. Init => All
  BY ConstantsOK, InitTyped, InitCoalesced, InitFlow, InitBookFlow
<1>2. All /\ [Next]_vars => All'
  BY ConstantsOK, TypedStays, CoalescedStays, FlowStays, BookFlowStays
<1>3. ASSUME All, service = "running", ~Moves PROVE Settled
  <2>1. ASSUME NEW p \in Publishers
        PROVE  task[p].pc = "get" /\ queue[p] = <<>> /\ task[p].batch = <<>>
    <3>1. Local(p)
      BY <1>3 DEF Typed
    <3>2. task[p].pc \in {"get", "gather", "sleep", "execute", "backoff", "gone"}
      BY <3>1 DEF Local, Task
    <3>3. task[p].pc = "get"
      BY <1>3, <3>2 DEF Moves
    <3> QED
      BY <1>3, <3>1, <3>3 DEF Moves, At, Local
  <2>2. Sender.pc # "gone"
    BY <2>1 DEF Sender, Publishers
  <2> QED
    BY <1>3, <2>1, <2>2, NothingPending
<1>4. All => Resting
  BY <1>3
<1> HIDE DEF All, Resting
<1>5. Spec => []Resting
  BY <1>1, <1>2, <1>4, PTL DEF Spec
<1> QED
  BY <1>5 DEF Resting

=============================================================================
