-------------------------- MODULE AggregatorProofs --------------------------
(***************************************************************************)
(* What holds of Aggregator for every value of its constants: its types;   *)
(* that the primitive stream never regresses and never repeats a bar; that *)
(* every trade counts once, in a bar that stays as it was published or in  *)
(* an open bucket; that the finalization watermark is final.  And what     *)
(* holds of MarketViews: that what _uncross nets of the composite book     *)
(* leaves it uncrossed, that the bars published are those of the trades    *)
(* that were folded, and that candles are those of the trades in them.     *)
(***************************************************************************)
EXTENDS Aggregator, MarketViews, TLAPS, SequenceTheorems, FiniteSetTheorems,
        WellFoundedInduction

USE DEF None, NoGroup

-----------------------------------------------------------------------------
(* Facts about the operators *)

\* _bucket stays in the naturals, and is an integer for any time.
LEMMA BucketType ==
    /\ \A ts \in Nat : Bucket(ts) \in Nat
    /\ \A ts \in Int : Bucket(ts) \in Int
<1>1. Interval \in Nat \ {0}
  BY IntervalOK
<1>2. \A ts \in Nat : ts \div Interval \in Nat
  BY <1>1
<1>3. \A ts \in Int : ts \div Interval \in Int
  BY <1>1
<1>4. \A x \in Nat : x * Interval \in Nat
  BY <1>1
<1>5. \A x \in Int : x * Interval \in Int
  BY <1>1
<1> QED
  BY <1>2, <1>3, <1>4, <1>5 DEF Bucket

\* The bucket of a published entry.
LEMMA EntryBucketType ==
    ASSUME stream \in Seq(Entry), NEW i \in 1..Len(stream)
    PROVE  EntryBucket(i) \in Nat /\ stream[i] \in Entry
<1>1. stream[i] \in Entry
  OBVIOUS
<1>2. stream[i].ts \in Nat
  BY <1>1, ConstantsOK DEF Entry
<1> QED
  BY <1>1, <1>2, BucketType DEF EntryBucket

\* Trimming only ever drops folds.
LEMMA TrimType ==
    ASSUME NEW held \in [Ids -> Nat], NEW c \in Int
    PROVE  /\ TrimBuckets(held, c) \in [Ids -> Nat]
           /\ \A i \in Ids : TrimBuckets(held, c)[i] \in {0, held[i]}
BY DEF TrimBuckets

\* Bars are about closed buckets of held entries, one per bucket and venue.
LEMMA BarsType ==
    ASSUME stream \in Seq(Entry), NEW held \in [Ids -> Nat],
           Held(held) \subseteq 1..Len(stream),
           NEW bks \in Books,
           NEW shut
    PROVE  /\ BarsOf(held, bks, shut) \in SUBSET Bar
           /\ \A x \in BarsOf(held, bks, shut) : x.bucket \in shut
           /\ \A x, y \in BarsOf(held, bks, shut) :
                  x.bucket = y.bucket /\ x.venue = y.venue => x = y
<1>1. \A v, end : BookAtOrBefore(bks, v, end) \in SUBSET Nat
  BY DEF BookAtOrBefore, Books
<1>2. ASSUME NEW x \in BarsOf(held, bks, shut)
      PROVE  \E j \in Held(held) : /\ EntryBucket(j) \in shut
                                   /\ x = BarFor(held, bks, EntryBucket(j), stream[j].venue)
  BY DEF BarsOf
<1>3. ASSUME NEW x \in BarsOf(held, bks, shut)
      PROVE  x \in Bar /\ x.bucket \in shut
  <2>1. PICK j \in Held(held) : /\ EntryBucket(j) \in shut
                                /\ x = BarFor(held, bks, EntryBucket(j), stream[j].venue)
    BY <1>2
  <2>2. EntryBucket(j) \in Nat /\ stream[j].venue \in Venues
    BY EntryBucketType DEF Entry
  <2> QED
    BY <1>1, <2>1, <2>2 DEF Bar, BarFor
<1>4. ASSUME NEW x \in BarsOf(held, bks, shut), NEW y \in BarsOf(held, bks, shut),
             x.bucket = y.bucket, x.venue = y.venue
      PROVE  x = y
  <2>1. PICK j \in Held(held) : x = BarFor(held, bks, EntryBucket(j), stream[j].venue)
    BY <1>2
  <2>2. PICK k \in Held(held) : y = BarFor(held, bks, EntryBucket(k), stream[k].venue)
    BY <1>2
  <2>3. EntryBucket(j) = EntryBucket(k) /\ stream[j].venue = stream[k].venue
    BY <1>4, <2>1, <2>2 DEF BarFor
  <2> QED
    BY <2>1, <2>2, <2>3
<1> QED
  BY <1>3, <1>4

-----------------------------------------------------------------------------
(* Types *)

\* TypeOK is not inductive alone: what is held or being handled was published.
Typed ==
    /\ TypeOK
    /\ pending \subseteq 1..Len(stream) /\ batch \subseteq 1..Len(stream)
    /\ Held(ckpt.held) \subseteq 1..Len(stream)
    /\ Held(mem.state.held) \subseteq 1..Len(stream)
    /\ Held(pipe.ckpt.held) \subseteq 1..Len(stream)

\* The values the process starts from.
LEMMA FreshTypes ==
    /\ Empty \in [Ids -> Nat] /\ Held(Empty) = {}
    /\ NoState \in State /\ NoState.held = Empty /\ NoState.last = -1
    /\ FreshMemory \in Memory
    /\ FreshMemory.state = NoState
    /\ <<>> \in Groups
    /\ EmptyPipe \in Pipeline
    /\ EmptyPipe.ckpt = NoState /\ EmptyPipe.groups = <<>> /\ ~EmptyPipe.writes
    /\ EmptyPipe.acks = {} /\ EmptyPipe.folded = {}
BY DEF Empty, Held, NoState, State, FreshMemory, EmptyPipe, Groups, Pipeline, Memory, Books

LEMMA InitTyped == Init => Typed
<1> SUFFICES ASSUME Init PROVE Typed
  OBVIOUS
<1> USE DEF Init
<1>1. Empty \in [Ids -> 0..ReplayMaxAge + 1] /\ Empty \in [Ids -> 0..PendingIdle]
  BY ConstantsOK DEF Empty
<1>2. stream \in Seq(Entry) /\ Len(stream) = 0
  OBVIOUS
<1>3. TypeOK
  <2>1. Len(stream) <= MaxEntries /\ lastDelivered \in -1..Len(stream)
    BY <1>2, ConstantsOK
  <2>2. ckpt \in State /\ primitives \in Groups /\ pipe \in Pipeline /\ mem \in Memory
    BY FreshTypes
  <2> QED
    BY <1>1, <1>2, <2>1, <2>2 DEF TypeOK
<1>4. /\ Held(ckpt.held) = {} /\ Held(mem.state.held) = {} /\ Held(pipe.ckpt.held) = {}
  BY FreshTypes
<1> QED
  BY <1>3, <1>4 DEF Typed

\* One step of Finish keeps the types if the new buffer and memory have them.
LEMMA FinishTyped ==
    ASSUME Typed, NEW i \in batch,
           NEW p \in Pipeline,
           p.ckpt = pipe.ckpt,
           NEW m \in Memory,
           Held(m.state.held) \subseteq 1..Len(stream),
           Finish(i, p, m),
           tried' \subseteq Ids /\ applied' \subseteq Ids /\ horizon' \in Nat
    PROVE  Typed'
<1>1. pipe' \in Pipeline /\ pipe'.ckpt = pipe.ckpt
  BY DEF Finish, Typed, TypeOK, Pipeline
<1>2. UNCHANGED <<stream, age, lastDelivered, pending, idle, ckpt, primitives, pc,
                  replay, restarts>> /\ batch' = batch \ {i} /\ mem' = m
  BY DEF Finish, redis
<1> QED
  BY <1>1, <1>2 DEF Typed, TypeOK, Held
\* The state a fold produces, closed or not, and the group it closes.
LEMMA FoldedType ==
    ASSUME Typed, NEW i \in batch
    PROVE  /\ i \in Ids /\ i \in 1..Len(stream)
           /\ Folded(i) \in State
           /\ Folded(i).last = mem.state.last
           /\ Held(Folded(i).held) \subseteq 1..Len(stream)
           /\ i \in Held(Folded(i).held)
           /\ \A j \in Ids : Folded(i).held[j] <= (IF j = i THEN mem.state.held[j] + 1
                                                          ELSE mem.state.held[j])
           /\ ClosedThrough(Folded(i)) \in Int
           /\ Group(Folded(i)) \in [after: Int, through: Int, bars: SUBSET Bar]
           /\ [Folded(i) EXCEPT !.last = ClosedThrough(Folded(i))] \in State
<1>1. i \in Ids /\ i \in 1..Len(stream) /\ stream \in Seq(Entry)
  BY DEF Typed, TypeOK
<1>2. EntryBucket(i) \in Nat /\ stream[i] \in Entry /\ stream[i].ts \in Nat
  BY <1>1, EntryBucketType, ConstantsOK DEF Entry
<1>3. mem.state \in State /\ mem.books \in Books /\ Held(mem.state.held) \subseteq 1..Len(stream)
  BY DEF Typed, TypeOK, Memory
<1> DEFINE held1 == [mem.state.held EXCEPT ![i] = @ + 1]
           held2 == TrimBuckets(held1, EntryBucket(i))
<1>4. mem.state.held \in [Ids -> Nat] /\ mem.state.maxTs \in Int /\ mem.state.last \in Int
  BY <1>3 DEF State
<1>5. held1 \in [Ids -> Nat] /\ held1[i] = mem.state.held[i] + 1
      /\ \A j \in Ids \ {i} : held1[j] = mem.state.held[j]
  BY <1>1, <1>4
<1> HIDE DEF held1
<1>6. held2 \in [Ids -> Nat] /\ \A j \in Ids : held2[j] \in {0, held1[j]}
  BY <1>2, <1>5, TrimType
<1>7. held2[i] = held1[i]
  BY <1>1, <1>2, <1>5, ConstantsOK DEF TrimBuckets
<1>8. /\ Folded(i).held = held2 /\ Folded(i).last = mem.state.last
      /\ Folded(i).maxTs \in Int /\ Folded(i) \in State
  BY <1>2, <1>4, <1>6 DEF Folded, State, held1
<1> HIDE DEF held2
<1>9. Held(held2) \subseteq 1..Len(stream) /\ i \in Held(held2)
  <2>1. ASSUME NEW j \in Held(held2), j # i
        PROVE  j \in Held(mem.state.held)
    BY <2>1, <1>4, <1>5, <1>6 DEF Held
  <2>2. mem.state.held[i] \in Nat
    BY <1>1, <1>4
  <2>3. i \in Held(held2)
    BY <2>2, <1>1, <1>5, <1>7 DEF Held
  <2> QED
    BY <2>1, <2>3, <1>1, <1>3
<1>10. ClosedThrough(Folded(i)) \in Int
  BY <1>8, BucketType, ConstantsOK, IntervalOK DEF ClosedThrough
<1>11. Group(Folded(i)) \in [after: Int, through: Int, bars: SUBSET Bar]
  BY <1>1, <1>3, <1>4, <1>6, <1>8, <1>9, <1>10, BarsType DEF Group
<1>12. [Folded(i) EXCEPT !.last = ClosedThrough(Folded(i))] \in State
  BY <1>8, <1>10 DEF State
<1>13. ASSUME NEW j \in Ids
       PROVE  held2[j] <= (IF j = i THEN mem.state.held[j] + 1 ELSE mem.state.held[j])
  <2>1. mem.state.held[j] \in Nat /\ held1[j] \in Nat /\ held2[j] \in {0, held1[j]}
    BY <1>4, <1>5, <1>6
  <2> QED
    BY <2>1, <1>5
<1> QED
  BY <1>1, <1>8, <1>9, <1>10, <1>11, <1>12, <1>13

\* Every step of the process and of its environment keeps the types.
LEMMA NextTyped == Typed /\ [Next]_vars => Typed'
<1> SUFFICES ASSUME Typed, [Next]_vars PROVE Typed'
  OBVIOUS
<1> USE DEF redis, task, history
<1>0. CASE UNCHANGED vars
  BY <1>0 DEF vars, Typed, TypeOK, Held
<1>1. ASSUME NEW e \in Entry, Append1(e) PROVE Typed'
  <2>1. /\ stream' \in Seq(Entry) /\ Len(stream') = Len(stream) + 1
        /\ Len(stream') <= MaxEntries
    BY <1>1, ConstantsOK DEF Append1, Typed, TypeOK
  <2>2. UNCHANGED <<age, redis, task, restarts, history>> /\ Len(stream) \in Nat
    BY <1>1 DEF Append1, Typed, TypeOK
  <2> QED
    BY <2>1, <2>2 DEF Typed, TypeOK, Held
<1>2. CASE Tick
  <2>0. /\ age \in [Ids -> 0..ReplayMaxAge + 1] /\ idle \in [Ids -> 0..PendingIdle]
        /\ ReplayMaxAge \in Nat /\ PendingIdle \in Nat
    BY ConstantsOK DEF Typed, TypeOK
  <2>1. age' \in [Ids -> 0..ReplayMaxAge + 1] /\ idle' \in [Ids -> 0..PendingIdle]
    <3>1. age' = [i \in Ids |-> IF i <= Len(stream) /\ age[i] <= ReplayMaxAge
                                THEN age[i] + 1 ELSE age[i]]
      BY <1>2 DEF Tick
    <3>2. idle' = [i \in Ids |-> IF i \in pending /\ idle[i] < PendingIdle
                                 THEN idle[i] + 1 ELSE idle[i]]
      BY <1>2 DEF Tick
    <3>3. \A i \in Ids : age[i] <= ReplayMaxAge => age[i] + 1 \in 0..ReplayMaxAge + 1
      BY <2>0
    <3>4. \A i \in Ids : idle[i] < PendingIdle => idle[i] + 1 \in 0..PendingIdle
      BY <2>0
    <3>5. age' \in [Ids -> 0..ReplayMaxAge + 1]
      BY <2>0, <3>1, <3>3
    <3> QED
      BY <2>0, <3>2, <3>4, <3>5
  <2>2. UNCHANGED <<stream, lastDelivered, pending, ckpt, primitives, task, restarts, history>>
    BY <1>2 DEF Tick
  <2> QED
    BY <2>1, <2>2 DEF Typed, TypeOK, Held
<1>3. CASE Start
  <2>1. mem' \in Memory /\ Held(mem'.state.held) \subseteq 1..Len(stream)
    BY <1>3, FreshTypes DEF Start, Typed, TypeOK, Memory
  <2>2. lastDelivered' \in -1..Len(stream)
    BY <1>3 DEF Start, Typed, TypeOK
  <2>3. /\ UNCHANGED <<stream, age, pending, idle, ckpt, primitives, replay, batch,
                       pipe, restarts, history>>
        /\ pc' = "claim"
    BY <1>3 DEF Start
  <2> QED
    BY <2>1, <2>2, <2>3 DEF Typed, TypeOK, Held
<1>4. ASSUME Die, UNCHANGED <<stream, age, redis, history>>, restarts' \in Nat PROVE Typed'
  BY <1>4, FreshTypes DEF Die, Typed, TypeOK, Held
<1>5. ASSUME NEW S \in SUBSET (1..Len(stream)), NEW r \in BOOLEAN, NEW o \in {"read", "claim"},
             Deliver(S, r, o), lastDelivered' \in -1..Len(stream)
      PROVE  Typed'
  <2>1. idle' \in [Ids -> 0..PendingIdle]
    BY <1>5, ConstantsOK DEF Deliver, Typed, TypeOK
  <2>2. S \subseteq Ids
    <3>1. Len(stream) \in Nat /\ Len(stream) <= MaxEntries
      BY DEF Typed, TypeOK
    <3> QED
      BY <3>1, ConstantsOK DEF Ids
  <2>3. /\ pending' = pending \cup S /\ batch' = S /\ replay' \in BOOLEAN
        /\ pc' \in {"handle", "read", "claim"}
        /\ UNCHANGED <<stream, age, ckpt, primitives, pipe, mem, restarts, history>>
    BY <1>5 DEF Deliver
  <2> QED
    BY <1>5, <2>1, <2>2, <2>3 DEF Typed, TypeOK, Held
<1>6. CASE Claim
  BY <1>5, <1>6 DEF Claim, Typed, TypeOK
<1>7. CASE Read
  <2> DEFINE upTo == IF lastDelivered + ReadCount < Len(stream)
                     THEN lastDelivered + ReadCount ELSE Len(stream)
             S == {i \in Ids : lastDelivered < i /\ i <= upTo}
  <2>1. upTo \in Nat /\ upTo <= Len(stream)
    BY ConstantsOK DEF Typed, TypeOK
  <2>2. S \subseteq 1..Len(stream)
    BY <2>1 DEF Typed, TypeOK, Ids
  <2>3. Deliver(S, FALSE, "claim") /\ lastDelivered' = upTo
    BY <1>7 DEF Read
  <2>4. lastDelivered' \in -1..Len(stream)
    BY <2>1, <2>3 DEF Typed, TypeOK
  <2> HIDE DEF S, upTo
  <2> QED
    BY <1>5, <2>2, <2>3, <2>4
<1>8. ASSUME NEW i \in batch,
             SkipStale(i) \/ DropLate(i) \/ IgnoreVenue(i)
      PROVE  Typed'
  <2>1. Finish(i, pipe, mem) /\ UNCHANGED history
    BY <1>8 DEF SkipStale, DropLate, IgnoreVenue
  <2> QED
    BY <2>1, FinishTyped DEF Typed, TypeOK
<1>9. ASSUME NEW i \in batch, Reject(i) PROVE Typed'
  <2> DEFINE m == [mem EXCEPT !.seen = @ \cup {stream[i].event}]
  <2>1. stream[i] \in Entry
    BY EntryBucketType DEF Typed, TypeOK
  <2>2. m \in Memory /\ m.state = mem.state
    BY <2>1 DEF Typed, TypeOK, Memory, Entry
  <2>3. Finish(i, pipe, m) /\ UNCHANGED history
    BY <1>9 DEF Reject
  <2> QED
    BY <2>2, <2>3, FinishTyped DEF Typed, TypeOK
<1>10. ASSUME NEW i \in batch, Fold(i) PROVE Typed'
  <2> DEFINE s == Folded(i)
             p == [pipe EXCEPT !.groups = IF CanAdvance(s) THEN Append(@, Group(s)) ELSE @,
                               !.writes = TRUE, !.folded = @ \cup {i}]
             t == IF CanAdvance(s) THEN [s EXCEPT !.last = ClosedThrough(s)] ELSE s
             m == [mem EXCEPT !.seen = @ \cup {stream[i].event}, !.state = t]
  <2>1. /\ Finish(i, p, m) /\ tried' = tried \cup {i} /\ applied' = applied
        /\ horizon' \in {horizon, EntryBucket(i)}
    BY <1>10 DEF Fold
  <2>2. stream[i] \in Entry /\ EntryBucket(i) \in Nat
    BY FoldedType, EntryBucketType DEF Typed, TypeOK
  <2>3. t \in State /\ Held(t.held) \subseteq 1..Len(stream)
    BY FoldedType DEF State
  <2>4. Append(pipe.groups, Group(s)) \in Groups /\ pipe.groups \in Groups
    BY FoldedType, AppendProperties DEF Groups, Typed, TypeOK, Pipeline
  <2>5. p \in Pipeline /\ p.ckpt = pipe.ckpt
    BY <2>4, FoldedType DEF Typed, TypeOK, Pipeline
  <2>6. m \in Memory /\ m.state = t
    BY <2>2, <2>3 DEF Typed, TypeOK, Memory, Entry
  <2>7. tried' \subseteq Ids /\ applied' \subseteq Ids /\ horizon' \in Nat
    BY <2>1, <2>2, FoldedType DEF Typed, TypeOK
  <2> HIDE DEF p, m, t
  <2> QED
    BY <2>1, <2>3, <2>5, <2>6, <2>7, FinishTyped
<1>11. CASE Checkpoint
  <2>1. /\ pipe' \in Pipeline /\ pipe'.ckpt \in {mem.state, NoState}
        /\ mem.state \in State
    BY <1>11, FreshTypes DEF Checkpoint, Typed, TypeOK, Pipeline, Memory
  <2>2. Held(pipe'.ckpt.held) \subseteq 1..Len(stream)
    BY <2>1, FreshTypes DEF Typed
  <2>3. pc' = "exec" /\ UNCHANGED <<stream, age, redis, replay, batch, mem, restarts, history>>
    BY <1>11 DEF Checkpoint
  <2> QED
    BY <2>1, <2>2, <2>3 DEF Typed, TypeOK, Held
<1>12. CASE Execute
  <2>1. primitives' \in Groups
    BY <1>12, ConcatProperties DEF Execute, Typed, TypeOK, Pipeline, Groups
  <2>2. ckpt' \in State /\ Held(ckpt'.held) \subseteq 1..Len(stream)
    BY <1>12 DEF Execute, Typed, TypeOK, Pipeline
  <2>3. idle' \in [Ids -> 0..PendingIdle]
    BY <1>12, ConstantsOK DEF Execute, Typed, TypeOK
  <2>4. /\ pending' \subseteq pending /\ applied' \subseteq Ids
        /\ pc' \in {"read", "claim"} /\ replay' = FALSE /\ pipe' = EmptyPipe
        /\ UNCHANGED <<stream, age, lastDelivered, batch, mem, restarts, tried, horizon>>
    BY <1>12 DEF Execute, Typed, TypeOK, Pipeline
  <2> QED
    BY <2>1, <2>2, <2>3, <2>4, FreshTypes DEF Typed, TypeOK, Held
<1>13. ASSUME NEW v \in Configured, NEW ts \in BookTimes, NEW d \in BookDelays,
              ApplyBook(v, ts, d)
       PROVE  Typed'
  <2>1. Bucket(ts) \in Nat /\ ts + d \in Nat /\ v \in Venues
    BY BucketType, ConstantsOK
  <2> DEFINE k == [bucket |-> Bucket(ts), venue |-> v, pub |-> ts + d]
             h == TrimBuckets(mem.state.held, Bucket(ts))
             bs == {b \in mem.books : ~(b.bucket = Bucket(ts) /\ b.venue = v)} \cup {k}
  <2>2. mem.state \in State /\ mem.books \in Books
    BY DEF Typed, TypeOK, Memory
  <2>3. h \in [Ids -> Nat] /\ Held(h) \subseteq Held(mem.state.held)
    <3>1. mem.state.held \in [Ids -> Nat] /\ Bucket(ts) \in Int
      BY <2>1, <2>2 DEF State
    <3>2. h \in [Ids -> Nat] /\ \A i \in Ids : h[i] \in {0, mem.state.held[i]}
      BY <3>1, TrimType
    <3> HIDE DEF h
    <3> QED
      BY <3>2 DEF Held
  <2>4. bs \in Books
    BY <2>1, <2>2 DEF Books
  <2>5. mem' = [mem EXCEPT !.books = bs, !.state.held = h]
    BY <1>13 DEF ApplyBook
  <2>6. mem' \in Memory /\ mem'.state.held = h
    BY <2>2, <2>3, <2>4, <2>5 DEF Typed, TypeOK, Memory, State
  <2>7. /\ horizon' \in Nat
        /\ UNCHANGED <<stream, age, redis, pc, replay, batch, pipe, restarts, tried, applied>>
    BY <1>13, <2>1 DEF ApplyBook, Typed, TypeOK
  <2> QED
    BY <2>3, <2>6, <2>7 DEF Typed, TypeOK, Held
<1>14. ASSUME NEW k \in Kinds, NEW ts \in Timestamps, NEW v \in Venues, Publish(k, ts, v)
       PROVE  Typed'
  <2>1. Len(stream) + 1 \in Ids
    BY <1>14, ConstantsOK DEF Publish, Append1, Typed, TypeOK, Ids
  <2> QED
    BY <1>1, <1>14, <2>1 DEF Publish, Entry
<1>15. ASSUME NEW i \in 1..Len(stream), Republish(i) PROVE Typed'
  BY <1>1, <1>15, EntryBucketType DEF Republish, Typed, TypeOK
<1>16. CASE Crash
  BY <1>4, <1>16 DEF Crash, Typed, TypeOK
<1>17. ASSUME NEW i \in batch, FailOnPoison(i) PROVE Typed'
  BY <1>4, <1>17 DEF FailOnPoison, Typed, TypeOK
<1> QED
  BY <1>0, <1>2, <1>3, <1>6, <1>7, <1>8, <1>9, <1>10, <1>11, <1>12, <1>13, <1>14,
     <1>15, <1>16, <1>17 DEF Next, TradeTask

\* Every variable keeps its type, for every value of the constants.
THEOREM TypesHold == Spec => []TypeOK
<1>1. Typed => TypeOK
  BY DEF Typed
<1> QED
  BY InitTyped, NextTyped, <1>1, PTL DEF Spec

-----------------------------------------------------------------------------
(* The order of the primitive stream *)

\* A run of closings: each starts where no earlier one has reached, none passes
\* `last', and its bars lie between its ends, one per bucket and venue.
Chain(gs, last) ==
    /\ \A k \in 1..Len(gs) :
           /\ gs[k].through <= last
           /\ \A x \in gs[k].bars : gs[k].after < x.bucket /\ x.bucket <= gs[k].through
           /\ \A x, y \in gs[k].bars : x.bucket = y.bucket /\ x.venue = y.venue => x = y
    /\ \A k, m \in 1..Len(gs) : k < m => gs[k].through <= gs[m].after

\* A closing that starts at `last' extends the run.
LEMMA ChainAppend ==
    ASSUME NEW gs \in Groups, NEW last \in Int, Chain(gs, last),
           NEW g \in [after: Int, through: Int, bars: SUBSET Bar],
           g.after = last, last <= g.through,
           \A x \in g.bars : g.after < x.bucket /\ x.bucket <= g.through,
           \A x, y \in g.bars : x.bucket = y.bucket /\ x.venue = y.venue => x = y
    PROVE  Chain(Append(gs, g), g.through)
<1> DEFINE hs == Append(gs, g)
<1>1. Len(hs) = Len(gs) + 1 /\ Len(gs) \in Nat /\ hs[Len(gs) + 1] = g
  BY DEF Groups
<1>2. \A k \in 1..Len(gs) :
         hs[k] = gs[k] /\ gs[k] \in [after: Int, through: Int, bars: SUBSET Bar]
  <2> DEFINE G == [after: Int, through: Int, bars: SUBSET Bar]
  <2>1. gs \in Seq(G) /\ g \in G
    BY DEF Groups
  <2> HIDE DEF G
  <2>2. ASSUME NEW k \in 1..Len(gs) PROVE hs[k] = gs[k] /\ gs[k] \in G
    BY <2>1, <2>2, AppendProperties, ElementOfSeq
  <2> QED
    BY <2>2 DEF G
<1> HIDE DEF hs
<1>3. \A k \in 1..Len(hs) : k = Len(gs) + 1 \/ k \in 1..Len(gs)
  BY <1>1
<1>4. ASSUME NEW k \in 1..Len(hs)
      PROVE  /\ hs[k].through <= g.through
             /\ \A x \in hs[k].bars : hs[k].after < x.bucket /\ x.bucket <= hs[k].through
             /\ \A x, y \in hs[k].bars : x.bucket = y.bucket /\ x.venue = y.venue => x = y
  <2>1. CASE k = Len(gs) + 1
    BY <1>1, <2>1
  <2>2. CASE k \in 1..Len(gs)
    BY <1>2, <2>2 DEF Chain
  <2> QED
    BY <1>3, <2>1, <2>2
<1>5. ASSUME NEW k \in 1..Len(hs), NEW m \in 1..Len(hs), k < m
      PROVE  hs[k].through <= hs[m].after
  <2>1. k \in 1..Len(gs)
    BY <1>1, <1>5
  <2>2. CASE m = Len(gs) + 1
    BY <1>1, <1>2, <2>1, <2>2 DEF Chain
  <2>3. CASE m \in 1..Len(gs)
    BY <1>2, <1>5, <2>1, <2>3 DEF Chain
  <2> QED
    BY <1>3, <2>2, <2>3
<1> QED
  BY <1>4, <1>5 DEF Chain, hs

LEMMA ConcatAppend ==
    ASSUME NEW S, NEW s \in Seq(S), NEW t \in Seq(S), NEW e \in S
    PROVE  s \o Append(t, e) = Append(s \o t, e)
BY AppendIsConcat, ConcatAssociative, ConcatProperties

\* What Redis holds is a chain up to the committed watermark; with the buffered
\* transaction it is one up to the watermark in memory, so that EXEC, which
\* writes both or neither, leads from one chain to the next.  A checkpoint that
\* would restore without its watermark has none.
OrderInv ==
    /\ Chain(primitives, ckpt.last)
    /\ pc # "down" => Chain(primitives \o pipe.groups, mem.state.last)
    /\ Held(ckpt.held) = {} => ckpt.last = -1
    /\ pc \in {"down", "claim", "read"} => pipe = EmptyPipe
    /\ ~pipe.writes => pipe.groups = <<>>
    /\ pc = "handle" /\ pipe.writes => Held(mem.state.held) # {}
    /\ pc = "exec" /\ pipe.writes =>
           pipe.ckpt.last = mem.state.last /\ Held(pipe.ckpt.held) # {}

LEMMA InitOrder == Init => OrderInv
<1> SUFFICES ASSUME Init PROVE OrderInv
  OBVIOUS
<1>1. primitives = <<>> /\ pc = "down" /\ ckpt = NoState /\ pipe = EmptyPipe
  BY DEF Init
<1>2. Chain(<<>>, -1)
  BY DEF Chain
<1> QED
  BY <1>1, <1>2, FreshTypes DEF OrderInv

\* A fold that closes buckets extends the chain.
LEMMA FoldChain ==
    ASSUME Typed, OrderInv, NEW i \in batch, pc = "handle", CanAdvance(Folded(i))
    PROVE  /\ mem.state.last < ClosedThrough(Folded(i))
           /\ Chain(primitives \o Append(pipe.groups, Group(Folded(i))),
                    ClosedThrough(Folded(i)))
<1> DEFINE s == Folded(i)
           g == Group(s)
<1>1. /\ s \in State /\ s.last = mem.state.last /\ s.held \in [Ids -> Nat]
      /\ Held(s.held) \subseteq 1..Len(stream) /\ ClosedThrough(s) \in Int
      /\ g \in [after: Int, through: Int, bars: SUBSET Bar]
  BY FoldedType DEF State
<1>2. /\ stream \in Seq(Entry) /\ mem.books \in Books /\ mem.state.last \in Int
      /\ primitives \in Groups /\ pipe.groups \in Groups
  BY DEF Typed, TypeOK, Memory, Pipeline, State
<1>3. mem.state.last < ClosedThrough(s)
  <2>1. \A b \in TradeBuckets(s.held) : b \in Nat
    BY <1>1, <1>2, EntryBucketType DEF TradeBuckets
  <2> HIDE DEF s
  <2> QED
    BY <1>1, <1>2, <2>1 DEF CanAdvance, s
<1>4. /\ g.after = mem.state.last /\ g.through = ClosedThrough(s)
      /\ \A x \in g.bars : g.after < x.bucket /\ x.bucket <= g.through
      /\ \A x, y \in g.bars : x.bucket = y.bucket /\ x.venue = y.venue => x = y
  <2> DEFINE shut == {b \in TradeBuckets(s.held) : s.last < b /\ b <= ClosedThrough(s)}
  <2>1. g.bars = BarsOf(s.held, mem.books, shut)
        /\ g.after = s.last /\ g.through = ClosedThrough(s)
    BY DEF Group
  <2> HIDE DEF g, s
  <2>2. /\ \A x \in BarsOf(s.held, mem.books, shut) : x.bucket \in shut
        /\ \A x, y \in BarsOf(s.held, mem.books, shut) :
               x.bucket = y.bucket /\ x.venue = y.venue => x = y
    BY <1>1, <1>2, BarsType
  <2> QED
    BY <1>1, <2>1, <2>2
<1> HIDE DEF g, s
<1>5. primitives \o pipe.groups \in Groups
  BY <1>2, ConcatProperties DEF Groups
<1>6. Chain(primitives \o pipe.groups, mem.state.last)
  BY DEF OrderInv
<1>7. Chain(Append(primitives \o pipe.groups, g), g.through)
  BY <1>1, <1>2, <1>3, <1>4, <1>5, <1>6, ChainAppend
<1>8. primitives \o Append(pipe.groups, g) = Append(primitives \o pipe.groups, g)
  <2> DEFINE G == [after: Int, through: Int, bars: SUBSET Bar]
  <2>1. primitives \in Seq(G) /\ pipe.groups \in Seq(G) /\ g \in G
    BY <1>1, <1>2 DEF Groups
  <2> HIDE DEF G
  <2> QED
    BY <2>1, ConcatAppend
<1> QED
  BY <1>3, <1>4, <1>7, <1>8 DEF g, s

LEMMA NextOrder == Typed /\ OrderInv /\ [Next]_vars => OrderInv'
<1> SUFFICES ASSUME Typed, OrderInv, [Next]_vars PROVE OrderInv'
  OBVIOUS
<1> USE DEF redis, task, history
<1>1. CASE UNCHANGED <<ckpt, primitives, pc, pipe, mem>>
  BY <1>1 DEF OrderInv, Held
<1>2. CASE Start
  <2>1. /\ UNCHANGED <<ckpt, primitives, pipe>> /\ pipe = EmptyPipe /\ pc' = "claim"
        /\ mem'.state = IF Held(ckpt.held) = {} THEN NoState ELSE ckpt
    BY <1>2 DEF Start, OrderInv, FreshMemory
  <2>2. mem'.state.last = ckpt.last
    BY <2>1, FreshTypes DEF OrderInv
  <2>3. primitives \o pipe.groups = primitives
    BY <2>1, FreshTypes, ConcatEmptySeq DEF Typed, TypeOK, Groups
  <2> QED
    BY <2>1, <2>2, <2>3, FreshTypes DEF OrderInv, Held
<1>3. ASSUME Die, UNCHANGED <<ckpt, primitives>> PROVE OrderInv'
  BY <1>3, FreshTypes DEF Die, OrderInv, Held
<1>4. ASSUME NEW S, NEW r, NEW o \in {"read", "claim"}, Deliver(S, r, o),
             pc \in {"claim", "read"}
      PROVE  OrderInv'
  <2>1. /\ UNCHANGED <<ckpt, primitives, pipe, mem>> /\ pipe = EmptyPipe
        /\ pc' \in {"handle", "read", "claim"}
    BY <1>4 DEF Deliver, OrderInv
  <2> QED
    BY <1>4, <2>1, FreshTypes DEF OrderInv, Held
<1>5. ASSUME NEW i \in batch, NEW m, Finish(i, pipe, m), pc = "handle",
             m.state = mem.state
      PROVE  OrderInv'
  <2>1. /\ pc' = "handle" /\ UNCHANGED <<ckpt, primitives>>
        /\ pipe'.groups = pipe.groups /\ pipe'.writes = pipe.writes
        /\ mem'.state = mem.state
    BY <1>5 DEF Finish, Typed, TypeOK, Pipeline
  <2> QED
    BY <1>5, <2>1 DEF OrderInv, Held
<1>6. ASSUME NEW i \in batch, Fold(i) PROVE OrderInv'
  <2> DEFINE s == Folded(i)
  <2>1. /\ pc = "handle" /\ pc' = "handle" /\ UNCHANGED <<ckpt, primitives>>
        /\ pipe'.groups = IF CanAdvance(s) THEN Append(pipe.groups, Group(s)) ELSE pipe.groups
        /\ pipe'.writes = TRUE
        /\ mem'.state = IF CanAdvance(s) THEN [s EXCEPT !.last = ClosedThrough(s)] ELSE s
    BY <1>6 DEF Fold, Applying, Handling, Finish, Typed, TypeOK, Pipeline, Memory
  <2>2. /\ mem'.state.held = s.held
        /\ mem'.state.last = IF CanAdvance(s) THEN ClosedThrough(s) ELSE mem.state.last
    BY <2>1, FoldedType DEF State
  <2>3. Held(mem'.state.held) # {}
    BY <2>2, FoldedType
  <2>4. Chain(primitives \o pipe'.groups, mem'.state.last)
    BY <2>1, <2>2, FoldChain DEF OrderInv
  <2> HIDE DEF s
  <2> QED
    BY <2>1, <2>3, <2>4 DEF OrderInv, Held
<1>7. CASE Checkpoint
  <2>1. /\ pc = "handle" /\ pc' = "exec" /\ UNCHANGED <<ckpt, primitives, mem>>
        /\ pipe'.groups = pipe.groups /\ pipe'.writes = pipe.writes
        /\ pipe.writes => pipe'.ckpt = mem.state
    BY <1>7 DEF Checkpoint, Typed, TypeOK, Pipeline
  <2> QED
    BY <2>1 DEF OrderInv, Held
<1>8. CASE Execute
  <2>1. /\ pc = "exec" /\ pc' \in {"read", "claim"} /\ pipe' = EmptyPipe /\ mem' = mem
        /\ primitives' = primitives \o pipe.groups
        /\ ckpt' = IF pipe.writes THEN pipe.ckpt ELSE ckpt
    BY <1>8 DEF Execute
  <2>2. primitives' \o <<>> = primitives' /\ primitives \o <<>> = primitives
    BY <2>1, ConcatProperties, ConcatEmptySeq DEF Typed, TypeOK, Pipeline, Groups
  <2>3. Chain(primitives', mem.state.last)
    BY <2>1 DEF OrderInv
  <2>4. Chain(primitives', ckpt'.last)
    <3>1. CASE pipe.writes
      BY <2>1, <2>3, <3>1 DEF OrderInv
    <3>2. CASE ~pipe.writes
      BY <2>1, <2>2, <3>2 DEF OrderInv
    <3> QED
      BY <3>1, <3>2
  <2>5. Held(ckpt'.held) = {} => ckpt'.last = -1
    BY <2>1 DEF OrderInv
  <2> QED
    BY <2>1, <2>2, <2>3, <2>4, <2>5, FreshTypes DEF OrderInv, Held
<1>9. ASSUME NEW v \in Configured, NEW ts \in BookTimes, NEW d \in BookDelays,
             ApplyBook(v, ts, d)
      PROVE  OrderInv'
  <2>1. /\ UNCHANGED <<ckpt, primitives, pc, pipe>> /\ mem'.state.last = mem.state.last
        /\ pc # "handle"
    BY <1>9 DEF ApplyBook, Typed, TypeOK, Memory, State
  <2> QED
    BY <2>1 DEF OrderInv, Held
<1>10. CASE Next
  <2>1. ASSUME NEW e, Append1(e) PROVE OrderInv'
    BY <1>1, <2>1 DEF Append1
  <2>2. CASE Tick
    BY <1>1, <2>2 DEF Tick
  <2>3. CASE Crash
    BY <1>3, <2>3 DEF Crash
  <2>4. CASE Claim \/ Read
    BY <1>4, <2>4 DEF Claim, Read
  <2>5. ASSUME NEW i \in batch, SkipStale(i) \/ DropLate(i) \/ IgnoreVenue(i)
        PROVE  OrderInv'
    BY <1>5, <2>5 DEF SkipStale, DropLate, IgnoreVenue, Handling
  <2>6. ASSUME NEW i \in batch, Reject(i) PROVE OrderInv'
    <3>1. [mem EXCEPT !.seen = @ \cup {stream[i].event}].state = mem.state
      BY DEF Typed, TypeOK, Memory
    <3> QED
      BY <1>5, <2>6, <3>1 DEF Reject, Applying, Handling
  <2>7. ASSUME NEW i \in batch, FailOnPoison(i) PROVE OrderInv'
    BY <1>3, <2>7 DEF FailOnPoison
  <2> QED
    BY <1>2, <1>6, <1>7, <1>8, <1>9, <1>10, <2>1, <2>2, <2>3, <2>4, <2>5, <2>6, <2>7
       DEF Next, TradeTask, Publish, Republish
<1> QED
  BY <1>1, <1>10 DEF vars

\* stream:primitives:v1 never regresses and never repeats a bar, whatever is
\* crashed, redelivered, duplicated or late, and whatever the configuration.
THEOREM OutputIsOrdered == Spec => []OutputOrdered
<1>1. Typed /\ OrderInv => OutputOrdered
  <2> SUFFICES ASSUME Typed, OrderInv PROVE OutputOrdered
    OBVIOUS
  <2>1. \A k \in 1..Len(primitives) :
           primitives[k] \in [after: Int, through: Int, bars: SUBSET Bar]
    BY ElementOfSeq DEF Typed, TypeOK, Groups
  <2>2. Chain(primitives, ckpt.last)
    BY DEF OrderInv
  <2>3. ASSUME NEW k \in 1..Len(primitives), NEW m \in 1..Len(primitives), k < m,
               NEW x \in primitives[k].bars, NEW y \in primitives[m].bars
        PROVE  x.bucket < y.bucket
    <3>1. /\ x.bucket \in Int /\ y.bucket \in Int
          /\ primitives[k].through \in Int /\ primitives[m].after \in Int
      BY <2>1 DEF Bar
    <3>2. /\ x.bucket <= primitives[k].through /\ primitives[m].after < y.bucket
          /\ primitives[k].through <= primitives[m].after
      BY <2>2, <2>3 DEF Chain
    <3> QED
      BY <3>1, <3>2
  <2> QED
    BY <2>2, <2>3 DEF OutputOrdered, Chain
<1> QED
  BY InitTyped, NextTyped, InitOrder, NextOrder, <1>1, PTL DEF Spec

-----------------------------------------------------------------------------
(* Every trade counts once *)

Bars(gs) == UNION {gs[k].bars : k \in 1..Len(gs)}

\* With the stream st and the horizon hz: the trades of done, and no others, are
\* in the state s and the closings gs, each once; a bar has every trade that s
\* holds for its bucket and venue; and what s does not hold any more is in a bar
\* or fell out of history_ms.
Account(st, hz, s, gs, done) ==
    /\ \A i \in Ids : s.held[i] \in {0, 1}
    /\ \A i \in Ids : s.held[i] > 0 => i \in done
    /\ \A x \in Bars(gs), i \in Ids :
           /\ x.trades[i] \in {0, 1}
           /\ x.trades[i] > 0 => /\ i \in done
                                 /\ x.bucket = Bucket(st[i].ts) /\ x.venue = st[i].venue
           /\ s.held[i] > 0 /\ Bucket(st[i].ts) = x.bucket /\ st[i].venue = x.venue =>
                  x.trades[i] = 1
    /\ \A i \in done :
           \/ s.held[i] > 0 /\ s.last < Bucket(st[i].ts)
           \/ \E x \in Bars(gs) : x.trades[i] > 0
           \/ Bucket(st[i].ts) < hz - History

\* Redis accounts for what was committed, the process for that and for what its
\* transaction folds, and so does the checkpoint in the transaction.
Accounts ==
    /\ Account(stream, horizon, ckpt, primitives, applied)
    /\ pc # "down" => Account(stream, horizon, mem.state, primitives \o pipe.groups,
                              applied \cup pipe.folded)
    /\ pc = "exec" /\ pipe.writes =>
           Account(stream, horizon, pipe.ckpt, primitives \o pipe.groups,
                   applied \cup pipe.folded)

\* A committed trade is acknowledged, and the transaction acknowledges what it
\* folds: what a batch still has to handle was never folded.
Acknowledged ==
    /\ applied \subseteq 1..lastDelivered /\ pending \subseteq 1..lastDelivered
    /\ applied \cap pending = {}
    /\ batch \subseteq pending
    /\ pipe.folded \subseteq pipe.acks /\ pipe.acks \subseteq pending
    /\ pipe.acks \cap batch = {}
    /\ ~pipe.writes => pipe.folded = {}
    /\ pc = "down" => pipe = EmptyPipe /\ batch = {}

\* What the process holds beyond the checkpoint is in buckets that the
\* checkpoint has not closed.
Ahead ==
    /\ pc # "down" =>
         /\ ckpt.last <= mem.state.last
         /\ \A i \in Held(mem.state.held) \ Held(ckpt.held) : EntryBucket(i) > ckpt.last
    /\ pc = "exec" /\ pipe.writes =>
         /\ Held(mem.state.held) \subseteq Held(pipe.ckpt.held)
         /\ \A i \in Held(pipe.ckpt.held) \ Held(ckpt.held) : EntryBucket(i) > ckpt.last

LEMMA BarsAppend ==
    ASSUME NEW gs \in Groups, NEW g \in [after: Int, through: Int, bars: SUBSET Bar]
    PROVE  Bars(Append(gs, g)) = Bars(gs) \cup g.bars
<1> DEFINE G == [after: Int, through: Int, bars: SUBSET Bar]
           hs == Append(gs, g)
<1>1. gs \in Seq(G) /\ g \in G
  BY DEF Groups
<1> HIDE DEF G
<1>2. Len(hs) = Len(gs) + 1 /\ Len(gs) \in Nat /\ hs[Len(gs) + 1] = g
  BY <1>1
<1>3. ASSUME NEW k \in 1..Len(gs) PROVE hs[k] = gs[k]
  BY <1>1, <1>3, AppendProperties
<1> HIDE DEF hs
<1>4. ASSUME NEW x \in Bars(hs) PROVE x \in Bars(gs) \cup g.bars
  <2>1. PICK k \in 1..Len(hs) : x \in hs[k].bars
    BY DEF Bars
  <2>2. k \in 1..Len(gs) \/ k = Len(gs) + 1
    BY <1>2
  <2> QED
    BY <1>2, <1>3, <2>1, <2>2 DEF Bars
<1>5. ASSUME NEW x \in Bars(gs) PROVE x \in Bars(hs)
  <2>1. PICK k \in 1..Len(gs) : x \in gs[k].bars
    BY DEF Bars
  <2>2. k \in 1..Len(hs)
    BY <1>2
  <2> QED
    BY <1>3, <2>1, <2>2 DEF Bars
<1>6. ASSUME NEW x \in g.bars PROVE x \in Bars(hs)
  <2>1. Len(gs) + 1 \in 1..Len(hs)
    BY <1>2
  <2> QED
    BY <1>2, <2>1 DEF Bars
<1> QED
  BY <1>4, <1>5, <1>6 DEF hs

\* The bars of a run of closings are bars, of buckets up to its end.
LEMMA BarsOfChain ==
    ASSUME NEW gs \in Groups
    PROVE  /\ Bars(gs) \subseteq Bar
           /\ \A last \in Int : Chain(gs, last) => \A x \in Bars(gs) : x.bucket <= last
<1>1. \A k \in 1..Len(gs) : gs[k] \in [after: Int, through: Int, bars: SUBSET Bar]
  BY ElementOfSeq DEF Groups
<1>2. Bars(gs) \subseteq Bar
  BY <1>1 DEF Bars
<1>3. ASSUME NEW last \in Int, Chain(gs, last), NEW x \in Bars(gs) PROVE x.bucket <= last
  <2>1. PICK k \in 1..Len(gs) : x \in gs[k].bars
    BY DEF Bars
  <2>2. x.bucket \in Nat /\ gs[k].through \in Int
    BY <1>1, <2>1 DEF Bar
  <2>3. x.bucket <= gs[k].through /\ gs[k].through <= last
    BY <1>3, <2>1 DEF Chain
  <2> QED
    BY <2>2, <2>3
<1> QED
  BY <1>2, <1>3

\* The account survives what happens to its surroundings: the stream grows, the
\* horizon moves on, and what is trimmed lies behind it.
LEMMA AccountKept ==
    ASSUME NEW st, NEW st2, NEW hz \in Nat, NEW hz2 \in Nat, hz <= hz2,
           NEW s \in State, NEW s2 \in State, s2.last = s.last,
           NEW gs, NEW done \in SUBSET Ids,
           \A i \in done : st2[i] = st[i] /\ Bucket(st[i].ts) \in Nat,
           \A i \in Ids : s2.held[i] \in {0, s.held[i]},
           \A i \in done : s.held[i] > 0 /\ s2.held[i] = 0 =>
                               Bucket(st[i].ts) < hz2 - History,
           Account(st, hz, s, gs, done)
    PROVE  Account(st2, hz2, s2, gs, done)
<1>1. History \in Nat
  BY ConstantsOK
<1>2. /\ \A i \in Ids : s.held[i] \in {0, 1}
      /\ \A i \in Ids : s.held[i] > 0 => i \in done
      /\ \A x \in Bars(gs), i \in Ids :
           /\ x.trades[i] \in {0, 1}
           /\ x.trades[i] > 0 => /\ i \in done
                                 /\ x.bucket = Bucket(st[i].ts) /\ x.venue = st[i].venue
           /\ s.held[i] > 0 /\ Bucket(st[i].ts) = x.bucket /\ st[i].venue = x.venue =>
                  x.trades[i] = 1
      /\ \A i \in done :
           \/ s.held[i] > 0 /\ s.last < Bucket(st[i].ts)
           \/ \E x \in Bars(gs) : x.trades[i] > 0
           \/ Bucket(st[i].ts) < hz - History
  BY DEF Account
<1>3. /\ \A i \in Ids : s2.held[i] \in {0, 1}
      /\ \A i \in Ids : s2.held[i] > 0 => i \in done /\ s.held[i] > 0
  BY <1>2
<1>4. ASSUME NEW x \in Bars(gs), NEW i \in Ids
      PROVE  /\ x.trades[i] \in {0, 1}
             /\ x.trades[i] > 0 => /\ i \in done
                                   /\ x.bucket = Bucket(st2[i].ts) /\ x.venue = st2[i].venue
             /\ s2.held[i] > 0 /\ Bucket(st2[i].ts) = x.bucket /\ st2[i].venue = x.venue =>
                    x.trades[i] = 1
  BY <1>2, <1>3
<1>5. ASSUME NEW i \in done
      PROVE  \/ s2.held[i] > 0 /\ s2.last < Bucket(st2[i].ts)
             \/ \E x \in Bars(gs) : x.trades[i] > 0
             \/ Bucket(st2[i].ts) < hz2 - History
  <2>1. CASE s.held[i] > 0 /\ s.last < Bucket(st[i].ts)
    BY <1>2, <2>1
  <2>2. CASE Bucket(st[i].ts) < hz - History
    BY <1>1, <2>2
  <2> QED
    BY <1>2, <2>1, <2>2
<1> QED
  BY <1>3, <1>4, <1>5 DEF Account

\* A trade that was not folded and is not late joins the account.
LEMMA AccountAdd ==
    ASSUME NEW st, NEW hz, NEW s \in State, NEW s2 \in State, s2.last = s.last,
           NEW gs \in Groups, NEW done \in SUBSET Ids,
           NEW i \in Ids, i \notin done, Bucket(st[i].ts) \in Nat,
           s.last < Bucket(st[i].ts),
           \A x \in Bars(gs) : x.bucket <= s.last,
           s2.held = [s.held EXCEPT ![i] = @ + 1],
           Account(st, hz, s, gs, done)
    PROVE  Account(st, hz, s2, gs, done \cup {i})
<1>1. s.held \in [Ids -> Nat] /\ s.last \in Int /\ Bars(gs) \subseteq Bar
  BY BarsOfChain DEF State
<1>2. s.held[i] = 0
  BY DEF Account
<1>3. s2.held[i] = 1 /\ \A j \in Ids \ {i} : s2.held[j] = s.held[j]
  BY <1>1, <1>2
<1>4. \A x \in Bars(gs) : x.trades[i] = 0 /\ x.bucket # Bucket(st[i].ts)
  <2>1. \A x \in Bars(gs) : x.bucket \in Nat
    BY <1>1 DEF Bar
  <2> QED
    BY <1>1, <2>1 DEF Account
<1>5. /\ \A j \in Ids : s2.held[j] \in {0, 1}
      /\ \A j \in Ids : s2.held[j] > 0 => j \in done \cup {i}
  BY <1>3 DEF Account
<1>6. ASSUME NEW x \in Bars(gs), NEW j \in Ids
      PROVE  /\ x.trades[j] \in {0, 1}
             /\ x.trades[j] > 0 => /\ j \in done \cup {i}
                                   /\ x.bucket = Bucket(st[j].ts) /\ x.venue = st[j].venue
             /\ s2.held[j] > 0 /\ Bucket(st[j].ts) = x.bucket /\ st[j].venue = x.venue =>
                    x.trades[j] = 1
  BY <1>3, <1>4 DEF Account
<1>7. ASSUME NEW j \in done \cup {i}
      PROVE  \/ s2.held[j] > 0 /\ s2.last < Bucket(st[j].ts)
             \/ \E x \in Bars(gs) : x.trades[j] > 0
             \/ Bucket(st[j].ts) < hz - History
  BY <1>3 DEF Account
<1> QED
  BY <1>5, <1>6, <1>7 DEF Account

\* A closing moves what it closes from the open buckets to bars.
LEMMA AccountClose ==
    ASSUME stream \in Seq(Entry), NEW hz, NEW s \in State, NEW s2 \in State,
           Held(s.held) \subseteq 1..Len(stream), NEW bks \in Books,
           NEW gs \in Groups, NEW g \in [after: Int, through: Int, bars: SUBSET Bar],
           g.bars = BarsOf(s.held, bks, {b \in TradeBuckets(s.held) :
                                               s.last < b /\ b <= g.through}),
           s2.held = s.held, s2.last = g.through, s.last < g.through,
           NEW done \in SUBSET (1..Len(stream)), done \subseteq Ids,
           Account(stream, hz, s, gs, done)
    PROVE  Account(stream, hz, s2, Append(gs, g), done)
<1> DEFINE shut == {b \in TradeBuckets(s.held) : s.last < b /\ b <= g.through}
<1>1. Bars(Append(gs, g)) = Bars(gs) \cup g.bars
  BY BarsAppend
<1>2. s.held \in [Ids -> Nat] /\ s.last \in Int /\ s2.last \in Int
  BY DEF State
<1>3. ASSUME NEW x \in g.bars
      PROVE  \E b, v : /\ x.bucket = b /\ x.venue = v
                       /\ x.trades = [i \in Ids |-> IF /\ i \in Held(s.held)
                                                      /\ EntryBucket(i) = b
                                                      /\ stream[i].venue = v
                                                   THEN s.held[i] ELSE 0]
  <2>1. PICK j \in Held(s.held) :
           x = BarFor(s.held, bks, EntryBucket(j), stream[j].venue)
    BY <1>3 DEF BarsOf
  <2> QED
    BY <2>1 DEF BarFor
<1>4. ASSUME NEW x \in g.bars, NEW i \in Ids
      PROVE  /\ x.trades[i] \in {0, 1}
             /\ x.trades[i] > 0 => /\ i \in done
                                   /\ x.bucket = EntryBucket(i) /\ x.venue = stream[i].venue
             /\ s.held[i] > 0 /\ EntryBucket(i) = x.bucket /\ stream[i].venue = x.venue =>
                    x.trades[i] = 1
  <2>1. s.held[i] \in {0, 1} /\ (s.held[i] > 0 => i \in done)
    BY DEF Account
  <2>2. i \in Held(s.held) <=> s.held[i] > 0
    BY DEF Held
  <2>3. PICK b, v : /\ x.bucket = b /\ x.venue = v
                    /\ x.trades = [j \in Ids |-> IF /\ j \in Held(s.held)
                                                   /\ EntryBucket(j) = b
                                                   /\ stream[j].venue = v
                                                THEN s.held[j] ELSE 0]
    BY <1>3
  <2> QED
    BY <2>1, <2>2, <2>3
<1>5. ASSUME NEW i \in done, s.held[i] > 0, s.last < EntryBucket(i), EntryBucket(i) <= g.through
      PROVE  \E x \in g.bars : x.trades[i] > 0
  <2>1. i \in Held(s.held) /\ EntryBucket(i) \in shut
    BY <1>5 DEF Held, TradeBuckets
  <2>2. BarFor(s.held, bks, EntryBucket(i), stream[i].venue) \in g.bars
    BY <2>1 DEF BarsOf
  <2>3. BarFor(s.held, bks, EntryBucket(i), stream[i].venue).trades[i] = s.held[i]
    BY <2>1 DEF BarFor
  <2> QED
    BY <1>5, <2>2, <2>3
<1>6. ASSUME NEW i \in done
      PROVE  \/ s2.held[i] > 0 /\ s2.last < EntryBucket(i)
             \/ \E x \in Bars(Append(gs, g)) : x.trades[i] > 0
             \/ EntryBucket(i) < hz - History
  <2>1. EntryBucket(i) \in Nat
    BY EntryBucketType
  <2>2. \/ s.held[i] > 0 /\ s.last < EntryBucket(i)
        \/ \E x \in Bars(gs) : x.trades[i] > 0
        \/ EntryBucket(i) < hz - History
    BY DEF Account, EntryBucket
  <2>3. CASE s.held[i] > 0 /\ s.last < EntryBucket(i)
    <3>1. CASE EntryBucket(i) <= g.through
      BY <1>1, <1>5, <2>3, <3>1
    <3> QED
      BY <1>2, <2>1, <2>3, <3>1
  <2> QED
    BY <1>1, <2>2, <2>3
<1>7. ASSUME NEW x \in Bars(Append(gs, g)), NEW i \in Ids
      PROVE  /\ x.trades[i] \in {0, 1}
             /\ x.trades[i] > 0 => /\ i \in done
                                   /\ x.bucket = EntryBucket(i) /\ x.venue = stream[i].venue
             /\ s2.held[i] > 0 /\ EntryBucket(i) = x.bucket /\ stream[i].venue = x.venue =>
                    x.trades[i] = 1
  <2>1. CASE x \in g.bars
    BY <1>4, <2>1
  <2>2. CASE x \in Bars(gs)
    BY <2>2 DEF Account, EntryBucket
  <2> QED
    BY <1>1, <2>1, <2>2
<1> QED
  BY <1>6, <1>7 DEF Account, EntryBucket

LEMMA InitAcknowledged == Init => Acknowledged
BY FreshTypes DEF Init, Acknowledged

LEMMA NextAcknowledged ==
    Typed /\ OrderInv /\ Acknowledged /\ [Next]_vars => Acknowledged'
<1> SUFFICES ASSUME Typed, OrderInv, Acknowledged, [Next]_vars PROVE Acknowledged'
  OBVIOUS
<1> USE DEF redis, task, history
<1>0. lastDelivered \in -1..Len(stream) /\ Len(stream) \in Nat /\ pipe \in Pipeline
  BY DEF Typed, TypeOK
<1>1. ASSUME UNCHANGED <<applied, lastDelivered, pending, batch>>, pc' # "down",
             pipe'.folded = pipe.folded, pipe'.acks = pipe.acks, pipe'.writes = pipe.writes
      PROVE  Acknowledged'
  BY <1>1 DEF Acknowledged
<1>2. CASE UNCHANGED <<applied, lastDelivered, pending, batch, pipe, pc>>
  BY <1>2 DEF Acknowledged
<1>3. CASE Start
  <2>1. /\ UNCHANGED <<applied, pending, batch, pipe>> /\ pc' = "claim"
        /\ lastDelivered' = IF lastDelivered = -1 THEN Len(stream) ELSE lastDelivered
    BY <1>3 DEF Start
  <2>2. 1..lastDelivered \subseteq 1..lastDelivered'
    BY <1>0, <2>1
  <2> QED
    BY <2>1, <2>2 DEF Acknowledged
<1>4. ASSUME Die, UNCHANGED <<redis, history>> PROVE Acknowledged'
  BY <1>4, FreshTypes DEF Die, Acknowledged
<1>5. ASSUME NEW S, NEW o \in {"read", "claim"}, Deliver(S, TRUE, o) \/ Deliver(S, FALSE, o),
             pc \in {"claim", "read"},
             lastDelivered' \in Int, 1..lastDelivered \subseteq 1..lastDelivered',
             S \subseteq 1..lastDelivered', S \cap applied = {}
      PROVE  Acknowledged'
  <2>1. /\ pending' = pending \cup S /\ batch' = S /\ pc' \in {"handle", "read", "claim"}
        /\ UNCHANGED <<pipe, applied>> /\ pipe = EmptyPipe
    BY <1>5 DEF Deliver, OrderInv
  <2> QED
    BY <1>5, <2>1, FreshTypes DEF Acknowledged
<1>6. CASE Claim
  <2>1. PICK S \in SUBSET pending : Deliver(S, TRUE, "read")
    BY <1>6 DEF Claim
  <2>2. pc = "claim" /\ lastDelivered' = lastDelivered
    BY <1>6 DEF Claim
  <2> QED
    <3>1. S \subseteq 1..lastDelivered' /\ S \cap applied = {}
      BY <2>2 DEF Acknowledged
    <3>2. lastDelivered' \in Int
      BY <1>0, <2>2
    <3>3. "read" \in {"read", "claim"}
      OBVIOUS
    <3> QED
      BY <1>5, <2>1, <2>2, <3>1, <3>2, <3>3
<1>7. CASE Read
  <2> DEFINE upTo == IF lastDelivered + ReadCount < Len(stream)
                     THEN lastDelivered + ReadCount ELSE Len(stream)
             S == {i \in Ids : lastDelivered < i /\ i <= upTo}
  <2>1. Deliver(S, FALSE, "claim") /\ lastDelivered' = upTo /\ pc = "read"
    BY <1>7 DEF Read
  <2>2. upTo \in Nat /\ lastDelivered <= upTo
    BY <1>0, ConstantsOK
  <2>3. S \subseteq 1..upTo /\ 1..lastDelivered \subseteq 1..upTo /\ S \cap 1..lastDelivered = {}
    BY <1>0, <2>2 DEF Ids
  <2> HIDE DEF S, upTo
  <2> QED
    <3>1. S \cap applied = {}
      BY <2>3 DEF Acknowledged
    <3>2. lastDelivered' \in Int
      BY <2>1, <2>2
    <3>3. "claim" \in {"read", "claim"}
      OBVIOUS
    <3> QED
      BY <1>5, <2>1, <2>3, <3>1, <3>2, <3>3
<1>8. ASSUME NEW i \in batch, NEW p \in Pipeline, NEW m, Finish(i, p, m), UNCHANGED applied,
             pc = "handle", p.acks = pipe.acks, p.folded \subseteq pipe.folded \cup {i},
             ~p.writes => p.folded = {}
      PROVE  Acknowledged'
  <2>1. /\ batch' = batch \ {i} /\ pc' = "handle" /\ UNCHANGED <<lastDelivered, pending>>
        /\ pipe'.acks = pipe.acks \cup {i} /\ pipe'.folded = p.folded /\ pipe'.writes = p.writes
    BY <1>8 DEF Finish, Pipeline
  <2> QED
    BY <1>8, <2>1 DEF Acknowledged
<1>9. ASSUME NEW i \in batch,
             SkipStale(i) \/ DropLate(i) \/ IgnoreVenue(i) \/ Reject(i)
      PROVE  Acknowledged'
  <2>1. PICK m : Finish(i, pipe, m)
    BY <1>9 DEF SkipStale, DropLate, IgnoreVenue, Reject
  <2>2. UNCHANGED applied /\ pc = "handle"
    BY <1>9 DEF SkipStale, DropLate, IgnoreVenue, Reject, Applying, Handling
  <2>3. ~pipe.writes => pipe.folded = {}
    BY DEF Acknowledged
  <2> QED
    BY <1>0, <1>8, <2>1, <2>2, <2>3
<1>10. ASSUME NEW i \in batch, Fold(i) PROVE Acknowledged'
  <2> DEFINE s == Folded(i)
             p == [pipe EXCEPT !.groups = IF CanAdvance(s) THEN Append(@, Group(s)) ELSE @,
                               !.writes = TRUE, !.folded = @ \cup {i}]
  <2>1. (\E m : Finish(i, p, m)) /\ applied' = applied /\ pc = "handle"
    BY <1>10 DEF Fold, Applying, Handling
  <2>2. Append(pipe.groups, Group(s)) \in Groups
    BY <1>0, FoldedType, AppendProperties DEF Groups, Pipeline
  <2>3. p \in Pipeline /\ p.acks = pipe.acks /\ p.folded = pipe.folded \cup {i} /\ p.writes
    BY <1>0, <2>2, FoldedType DEF Pipeline
  <2> HIDE DEF p
  <2> QED
    BY <1>8, <2>1, <2>3
<1>11. CASE Checkpoint
  BY <1>0, <1>1, <1>11 DEF Checkpoint, Pipeline
<1>12. CASE Execute
  <2>1. /\ pending' = pending \ pipe.acks /\ applied' = applied \cup pipe.folded
        /\ pipe' = EmptyPipe /\ pc' \in {"read", "claim"} /\ UNCHANGED <<batch, lastDelivered>>
    BY <1>12 DEF Execute
  <2> QED
    BY <2>1, FreshTypes DEF Acknowledged
<1>13. CASE Next
  <2>1. ASSUME NEW e, Append1(e) PROVE Acknowledged'
    BY <1>2, <2>1 DEF Append1
  <2>2. CASE Tick
    BY <1>2, <2>2 DEF Tick
  <2>3. CASE Crash
    BY <1>4, <2>3 DEF Crash
  <2>4. ASSUME NEW i \in batch, FailOnPoison(i) PROVE Acknowledged'
    BY <1>4, <2>4 DEF FailOnPoison
  <2>5. ASSUME NEW v \in Configured, NEW ts \in BookTimes, NEW d \in BookDelays,
               ApplyBook(v, ts, d)
        PROVE  Acknowledged'
    BY <1>2, <2>5 DEF ApplyBook
  <2> QED
    BY <1>3, <1>6, <1>7, <1>9, <1>10, <1>11, <1>12, <1>13, <2>1, <2>2, <2>3, <2>4, <2>5
       DEF Next, TradeTask, Publish, Republish
<1> QED
  BY <1>2, <1>13 DEF vars

\* What is accounted for was published, and has a bucket.
LEMMA DonePublished ==
    ASSUME Typed, Acknowledged
    PROVE  /\ applied \subseteq Ids /\ applied \cup pipe.folded \subseteq Ids
           /\ applied \cup pipe.folded \subseteq 1..Len(stream)
           /\ \A i \in applied \cup pipe.folded : Bucket(stream[i].ts) \in Nat
           /\ primitives \o pipe.groups \in Groups
<1>1. /\ lastDelivered \in -1..Len(stream) /\ Len(stream) \in Nat /\ Len(stream) <= MaxEntries
      /\ stream \in Seq(Entry) /\ primitives \in Groups /\ pipe.groups \in Groups
  BY DEF Typed, TypeOK, Pipeline
<1>2. applied \cup pipe.folded \subseteq 1..lastDelivered
  BY DEF Acknowledged
<1>3. 1..lastDelivered \subseteq 1..Len(stream) /\ 1..Len(stream) \subseteq Ids
  BY <1>1, ConstantsOK DEF Ids
<1>4. \A i \in 1..Len(stream) : Bucket(stream[i].ts) \in Nat
  BY <1>1, EntryBucketType DEF EntryBucket
<1>5. primitives \o pipe.groups \in Groups
  BY <1>1, ConcatProperties DEF Groups
<1> QED
  BY <1>2, <1>3, <1>4, <1>5

\* A step that folds and commits nothing keeps the accounts.
LEMMA AccountsFrame ==
    ASSUME Typed, Typed', Acknowledged, Accounts,
           \A i \in 1..Len(stream) : stream'[i] = stream[i],
           horizon <= horizon',
           UNCHANGED <<ckpt, primitives, applied>>,
           pc' # "down" =>
               /\ pc # "down"
               /\ pipe'.groups = pipe.groups /\ pipe'.folded = pipe.folded
               /\ mem'.state.last = mem.state.last
               /\ \A i \in Ids : mem'.state.held[i] \in {0, mem.state.held[i]}
               /\ \A i \in 1..Len(stream) :
                      mem.state.held[i] > 0 /\ mem'.state.held[i] = 0 =>
                          EntryBucket(i) < horizon' - History,
           pc' = "exec" => pc = "exec" /\ pipe'.writes = pipe.writes /\ pipe'.ckpt = pipe.ckpt
    PROVE  Accounts'
<1> DEFINE done == applied \cup pipe.folded
           gs == primitives \o pipe.groups
<1>1. /\ horizon \in Nat /\ horizon' \in Nat /\ ckpt \in State
      /\ mem.state \in State /\ mem'.state \in State /\ pipe.ckpt \in State
  BY DEF Typed, TypeOK, Memory, Pipeline
<1>2. \A i \in done : stream'[i] = stream[i] /\ Bucket(stream[i].ts) \in Nat
  BY DonePublished
<1>3. done \in SUBSET Ids /\ applied \in SUBSET Ids
  BY DonePublished
<1>4. \A s \in State : \A i \in Ids : s.held[i] \in Nat
  BY DEF State
<1>5. Account(stream', horizon', ckpt, primitives, applied)
  <2>1. Account(stream, horizon, ckpt, primitives, applied)
    BY DEF Accounts
  <2>2. \A i \in applied : stream'[i] = stream[i] /\ Bucket(stream[i].ts) \in Nat
    BY <1>2
  <2>3. /\ \A i \in Ids : ckpt.held[i] \in {0, ckpt.held[i]}
        /\ \A i \in applied : ckpt.held[i] > 0 /\ ckpt.held[i] = 0 =>
               Bucket(stream[i].ts) < horizon' - History
    BY <1>1, <1>3, <1>4
  <2> QED
    BY <1>1, <1>3, <2>1, <2>2, <2>3, AccountKept
<1>6. ASSUME pc' # "down" PROVE Account(stream', horizon', mem'.state, gs, done)
  <2>1. Account(stream, horizon, mem.state, gs, done)
    BY <1>6 DEF Accounts
  <2>2. \A i \in done : mem.state.held[i] > 0 /\ mem'.state.held[i] = 0 =>
               Bucket(stream[i].ts) < horizon' - History
    BY <1>6, DonePublished DEF EntryBucket
  <2>3. mem'.state.last = mem.state.last
        /\ \A i \in Ids : mem'.state.held[i] \in {0, mem.state.held[i]}
    BY <1>6
  <2>4. PICK t \in State : t = mem'.state
    BY <1>1
  <2>5. PICK s \in State : s = mem.state
    BY <1>1
  <2>6. /\ \A i \in done : s.held[i] > 0 /\ t.held[i] = 0 =>
               Bucket(stream[i].ts) < horizon' - History
        /\ t.last = s.last /\ \A i \in Ids : t.held[i] \in {0, s.held[i]}
        /\ Account(stream, horizon, s, gs, done)
    BY <2>1, <2>2, <2>3, <2>4, <2>5
  <2> HIDE DEF gs, done
  <2>7. Account(stream', horizon', t, gs, done)
    BY <1>1, <1>2, <1>3, <2>6, AccountKept
  <2> QED
    BY <2>4, <2>7
<1>7. ASSUME pc' = "exec", pipe'.writes
      PROVE  Account(stream', horizon', pipe.ckpt, gs, done)
  <2>1. Account(stream, horizon, pipe.ckpt, gs, done)
    BY <1>7 DEF Accounts
  <2>2. /\ \A i \in Ids : pipe.ckpt.held[i] \in {0, pipe.ckpt.held[i]}
        /\ \A i \in done : pipe.ckpt.held[i] > 0 /\ pipe.ckpt.held[i] = 0 =>
               Bucket(stream[i].ts) < horizon' - History
    BY <1>1, <1>3, <1>4
  <2> HIDE DEF gs, done
  <2> QED
    BY <1>1, <1>2, <1>3, <2>1, <2>2, AccountKept
<1>8. pc' # "down" => /\ primitives' \o pipe'.groups = gs /\ applied' \cup pipe'.folded = done
  OBVIOUS
<1> HIDE DEF gs, done
<1> QED
  BY <1>5, <1>6, <1>7, <1>8 DEF Accounts

\* A fold adds its trade, trims, and closes what the watermark has passed.
LEMMA FoldAccount ==
    ASSUME Typed, OrderInv, Acknowledged, Accounts, NEW i \in batch, Fold(i)
    PROVE  Account(stream, horizon', mem'.state, primitives \o pipe'.groups,
                   applied \cup pipe'.folded)
<1> DEFINE done == applied \cup pipe.folded
           gs == primitives \o pipe.groups
           s == Folded(i)
           h == [mem.state.held EXCEPT ![i] = @ + 1]
           t == [held |-> h, maxTs |-> s.maxTs, last |-> mem.state.last]
           u == [s EXCEPT !.last = ClosedThrough(s)]
           hz == IF horizon < EntryBucket(i) THEN EntryBucket(i) ELSE horizon
<1>1. /\ pc = "handle" /\ ~Late(i) /\ horizon' = hz
      /\ pipe'.groups = IF CanAdvance(s) THEN Append(pipe.groups, Group(s)) ELSE pipe.groups
      /\ pipe'.folded = pipe.folded \cup {i}
      /\ mem'.state = IF CanAdvance(s) THEN u ELSE s
  BY DEF Fold, Applying, Handling, Finish, Typed, TypeOK, Pipeline, Memory
<1>2. /\ mem.state \in State /\ horizon \in Nat /\ mem.books \in Books /\ stream \in Seq(Entry)
      /\ EntryBucket(i) \in Nat /\ i \in Ids /\ i \in 1..Len(stream) /\ mem.state.last \in Int
      /\ mem.state.held \in [Ids -> Nat] /\ primitives \in Groups /\ pipe.groups \in Groups
  BY FoldedType, EntryBucketType DEF Typed, TypeOK, Memory, State, Pipeline
<1>3. done \in SUBSET Ids /\ done \subseteq 1..Len(stream) /\ gs \in Groups
  BY DonePublished
<1>4. i \notin done
  BY DEF Acknowledged
<1>5. Account(stream, horizon, mem.state, gs, done) /\ Chain(gs, mem.state.last)
  BY <1>1 DEF Accounts, OrderInv
<1>6. /\ s \in State /\ s.last = mem.state.last /\ Held(s.held) \subseteq 1..Len(stream)
      /\ Group(s) \in [after: Int, through: Int, bars: SUBSET Bar] /\ u \in State
      /\ u.held = s.held /\ u.last = ClosedThrough(s)
  BY FoldedType DEF State
<1>7. s.held = TrimBuckets(h, EntryBucket(i)) /\ s.maxTs \in Int
  BY <1>6 DEF Folded, State
<1>8. /\ \A j \in done \cup {i} : Bucket(stream[j].ts) \in Nat
      /\ done \cup {i} \in SUBSET Ids
  BY <1>2, <1>3, DonePublished DEF EntryBucket
<1> HIDE DEF gs, done, s, u
<1>9. Account(stream, horizon, t, gs, done \cup {i})
  <2>1. t \in State /\ t.last = mem.state.last /\ t.held = h
    BY <1>2, <1>7 DEF State
  <2>2. Bucket(stream[i].ts) \in Nat /\ mem.state.last < Bucket(stream[i].ts)
    BY <1>1, <1>2 DEF Late, EntryBucket
  <2>3. \A x \in Bars(gs) : x.bucket <= mem.state.last
    BY <1>2, <1>3, <1>5, BarsOfChain
  <2> HIDE DEF t
  <2> QED
    BY <1>2, <1>3, <1>4, <1>5, <2>1, <2>2, <2>3, AccountAdd
<1>10. Account(stream, hz, s, gs, done \cup {i})
  <2>1. t \in State /\ s.last = t.last
    BY <1>2, <1>6, <1>7 DEF State
  <2>2. hz \in Nat /\ horizon <= hz /\ EntryBucket(i) <= hz
    BY <1>2
  <2>3. \A j \in Ids : h[j] \in Nat /\ s.held[j] \in {0, h[j]}
    BY <1>2, <1>7 DEF TrimBuckets
  <2>4. \A j \in done \cup {i} : h[j] > 0 /\ s.held[j] = 0 => Bucket(stream[j].ts) < hz - History
    <3>1. ASSUME NEW j \in done \cup {i}, h[j] > 0, s.held[j] = 0
          PROVE  Bucket(stream[j].ts) < EntryBucket(i) - History
      BY <1>7, <1>8, <2>3, <3>1 DEF TrimBuckets, Held, EntryBucket
    <3> QED
      BY <1>2, <1>8, <2>2, <3>1, ConstantsOK
  <2>5. t.held = h
    OBVIOUS
  <2> HIDE DEF t, h, hz
  <2> QED
    BY <1>2, <1>6, <1>8, <1>9, <2>1, <2>2, <2>3, <2>4, <2>5, AccountKept
<1>11. applied \cup pipe'.folded = done \cup {i}
  BY <1>1 DEF done
<1>12. CASE CanAdvance(s)
  <2>1. mem.state.last < ClosedThrough(s) /\ ClosedThrough(s) \in Int
    BY <1>1, <1>12, FoldChain, FoldedType DEF s
  <2>2. primitives \o Append(pipe.groups, Group(s)) = Append(gs, Group(s))
    <3> DEFINE G == [after: Int, through: Int, bars: SUBSET Bar]
    <3>1. primitives \in Seq(G) /\ pipe.groups \in Seq(G) /\ Group(s) \in G
      BY <1>2, <1>6 DEF Groups
    <3> HIDE DEF G
    <3> QED
      BY <3>1, ConcatAppend DEF gs
  <2>3. /\ Group(s).through = ClosedThrough(s)
        /\ Group(s).bars = BarsOf(s.held, mem.books,
                                  {b \in TradeBuckets(s.held) :
                                       s.last < b /\ b <= Group(s).through})
    BY DEF Group
  <2>4. done \cup {i} \in SUBSET (1..Len(stream)) /\ done \cup {i} \subseteq Ids
    BY <1>2, <1>3
  <2>5. Account(stream, hz, u, Append(gs, Group(s)), done \cup {i})
    <3> HIDE DEF hz
    <3> QED
      BY <1>2, <1>3, <1>6, <1>10, <2>1, <2>3, <2>4, AccountClose
  <2> QED
    BY <1>1, <1>11, <1>12, <2>2, <2>5
<1>13. CASE ~CanAdvance(s)
  BY <1>1, <1>10, <1>11, <1>13 DEF gs
<1> QED
  BY <1>12, <1>13

LEMMA InitAccounts == Init => Accounts
<1> SUFFICES ASSUME Init PROVE Accounts
  OBVIOUS
<1>1. /\ pc = "down" /\ ckpt = NoState /\ primitives = <<>> /\ applied = {}
  BY DEF Init
<1>2. Bars(<<>>) = {}
  BY DEF Bars
<1>3. \A i \in Ids : NoState.held[i] = 0
  BY DEF NoState, Empty
<1>4. Account(stream, horizon, NoState, <<>>, {})
  BY <1>2, <1>3 DEF Account
<1> QED
  BY <1>1, <1>4 DEF Accounts

LEMMA NextAccounts ==
    Typed /\ OrderInv /\ Acknowledged /\ Accounts /\ [Next]_vars => Accounts'
<1> SUFFICES ASSUME Typed, OrderInv, Acknowledged, Accounts, [Next]_vars PROVE Accounts'
  OBVIOUS
<1> USE DEF redis, task, history
<1>0. Typed'
  BY NextTyped
<1>1. /\ stream \in Seq(Entry) /\ horizon \in Nat /\ ckpt \in State /\ mem.state \in State
      /\ primitives \in Groups /\ pipe.groups \in Groups /\ batch \subseteq 1..Len(stream)
      /\ pipe \in Pipeline /\ mem \in Memory
      /\ \A i \in Ids : mem.state.held[i] \in Nat /\ ckpt.held[i] \in Nat
  BY DEF Typed, TypeOK, Memory, Pipeline, State
\* Steps that leave the process's state and its transaction alone.
<1>2. ASSUME \A i \in 1..Len(stream) : stream'[i] = stream[i],
             UNCHANGED <<ckpt, primitives, applied, horizon>>,
             pc' # "down" => /\ pc # "down" /\ pipe'.groups = pipe.groups
                             /\ pipe'.folded = pipe.folded /\ mem'.state = mem.state,
             pc' = "exec" => pc = "exec" /\ pipe'.writes = pipe.writes
                                         /\ pipe'.ckpt = pipe.ckpt
      PROVE  Accounts'
  <2>1. pc' # "down" =>
               /\ mem'.state.last = mem.state.last
               /\ \A i \in Ids : mem'.state.held[i] \in {0, mem.state.held[i]}
               /\ \A i \in 1..Len(stream) :
                      mem.state.held[i] > 0 /\ mem'.state.held[i] = 0 =>
                          EntryBucket(i) < horizon' - History
    <3>1. 1..Len(stream) \subseteq Ids
      <4>1. Len(stream) \in Nat /\ Len(stream) <= MaxEntries
        BY DEF Typed, TypeOK
      <4> QED
        BY <4>1, ConstantsOK DEF Ids
    <3> QED
      BY <1>1, <1>2, <3>1
  <2>2. horizon <= horizon'
    BY <1>1, <1>2
  <2> QED
    BY <1>0, <1>2, <2>1, <2>2, AccountsFrame
<1>3. CASE Start
  <2>1. /\ UNCHANGED <<stream, ckpt, primitives, pipe, horizon, applied>>
        /\ pipe = EmptyPipe /\ pc' = "claim"
        /\ mem'.state = IF Held(ckpt.held) = {} THEN NoState ELSE ckpt
    BY <1>3 DEF Start, OrderInv, FreshMemory
  <2>2. primitives \o pipe.groups = primitives /\ applied \cup pipe.folded = applied
    BY <1>1, <2>1, FreshTypes, ConcatEmptySeq DEF Groups
  <2>3. Account(stream, horizon, ckpt, primitives, applied)
    BY DEF Accounts
  <2>4. Account(stream, horizon, NoState, primitives, applied) \/ Held(ckpt.held) # {}
    <3>1. SUFFICES ASSUME Held(ckpt.held) = {}
                   PROVE  Account(stream, horizon, NoState, primitives, applied)
      OBVIOUS
    <3>2. NoState \in State /\ NoState.last = ckpt.last
      BY <3>1, FreshTypes DEF OrderInv
    <3>3. \A i \in Ids : NoState.held[i] = 0 /\ ckpt.held[i] = 0
      BY <1>1, <3>1 DEF NoState, Empty, Held
    <3>4. /\ \A i \in applied : stream[i] = stream[i] /\ Bucket(stream[i].ts) \in Nat
          /\ applied \in SUBSET Ids
      BY DonePublished
    <3>5. \A i \in applied : ckpt.held[i] > 0 /\ NoState.held[i] = 0 =>
              Bucket(stream[i].ts) < horizon - History
      BY <3>3, <3>4
    <3>6. \A i \in Ids : NoState.held[i] \in {0, ckpt.held[i]}
      BY <3>3
    <3> QED
      BY <1>1, <2>3, <3>2, <3>4, <3>5, <3>6, AccountKept
  <2> QED
    BY <2>1, <2>2, <2>3, <2>4 DEF Accounts
<1>4. ASSUME NEW i \in batch, Fold(i) PROVE Accounts'
  <2>1. /\ UNCHANGED <<stream, ckpt, primitives, applied>> /\ pc' = "handle"
        /\ horizon' = IF horizon < EntryBucket(i) THEN EntryBucket(i) ELSE horizon
    BY <1>4 DEF Fold, Finish, Applying, Handling
  <2>2. EntryBucket(i) \in Nat /\ horizon' \in Nat /\ horizon <= horizon'
    BY <1>1, <2>1, EntryBucketType
  <2>3. Account(stream, horizon', ckpt, primitives, applied)
    <3>1. /\ \A j \in applied : stream[j] = stream[j] /\ Bucket(stream[j].ts) \in Nat
          /\ applied \in SUBSET Ids
      BY DonePublished
    <3>2. /\ \A j \in Ids : ckpt.held[j] \in {0, ckpt.held[j]}
          /\ \A j \in applied : ckpt.held[j] > 0 /\ ckpt.held[j] = 0 =>
                 Bucket(stream[j].ts) < horizon' - History
      BY <1>1, <3>1
    <3>3. Account(stream, horizon, ckpt, primitives, applied)
      BY DEF Accounts
    <3> QED
      BY <1>1, <2>2, <3>1, <3>2, <3>3, AccountKept
  <2>4. Account(stream, horizon', mem'.state, primitives \o pipe'.groups,
                applied \cup pipe'.folded)
    BY <1>4, FoldAccount
  <2> QED
    BY <2>1, <2>3, <2>4 DEF Accounts
<1>5. CASE Checkpoint
  <2>1. /\ pc = "handle" /\ pc' = "exec"
        /\ UNCHANGED <<stream, horizon, ckpt, primitives, mem, applied>>
        /\ pipe'.groups = pipe.groups /\ pipe'.writes = pipe.writes
        /\ pipe'.folded = pipe.folded
        /\ pipe.writes => pipe'.ckpt = mem.state
    BY <1>1, <1>5 DEF Checkpoint, Pipeline
  <2> QED
    BY <2>1 DEF Accounts
<1>6. CASE Execute
  <2>1. /\ pc = "exec" /\ pc' \in {"read", "claim"} /\ pipe' = EmptyPipe
        /\ UNCHANGED <<stream, mem, horizon>>
        /\ primitives' = primitives \o pipe.groups
        /\ applied' = applied \cup pipe.folded
        /\ ckpt' = IF pipe.writes THEN pipe.ckpt ELSE ckpt
    BY <1>6 DEF Execute
  <2>2. primitives' \o pipe'.groups = primitives' /\ primitives \o <<>> = primitives
        /\ applied' \cup pipe'.folded = applied'
    BY <1>1, <2>1, FreshTypes, ConcatProperties, ConcatEmptySeq DEF Groups
  <2>3. Account(stream, horizon, mem.state, primitives', applied')
    BY <2>1 DEF Accounts
  <2>4. Account(stream, horizon, ckpt', primitives', applied')
    <3>1. CASE pipe.writes
      BY <2>1, <3>1 DEF Accounts
    <3>2. CASE ~pipe.writes
      <4>1. pipe.groups = <<>> /\ pipe.folded = {}
        BY <3>2 DEF OrderInv, Acknowledged
      <4>2. primitives' = primitives /\ applied' = applied /\ ckpt' = ckpt
        BY <2>1, <2>2, <3>2, <4>1
      <4> QED
        BY <4>2 DEF Accounts
    <3> QED
      BY <3>1, <3>2
  <2> QED
    BY <2>1, <2>2, <2>3, <2>4 DEF Accounts
<1>7. ASSUME NEW v \in Configured, NEW ts \in BookTimes, NEW d \in BookDelays,
             ApplyBook(v, ts, d)
      PROVE  Accounts'
  <2> DEFINE b == Bucket(ts)
  <2>1. /\ UNCHANGED <<stream, ckpt, primitives, pc, pipe, applied>>
        /\ mem'.state.held = TrimBuckets(mem.state.held, b)
        /\ mem'.state.last = mem.state.last /\ pc # "down"
        /\ horizon' = IF horizon < b THEN b ELSE horizon
    BY <1>1, <1>7 DEF ApplyBook, Memory, State
  <2>2. b \in Nat
    BY BucketType, ConstantsOK
  <2> HIDE DEF b
  <2>3. horizon <= horizon' /\ b <= horizon' /\ horizon' \in Nat
    BY <1>1, <2>1, <2>2
  <2>4. ASSUME NEW i \in 1..Len(stream), mem.state.held[i] > 0, mem'.state.held[i] = 0
        PROVE  EntryBucket(i) < horizon' - History
    <3>1. i \in Ids /\ EntryBucket(i) \in Nat
      <4>1. Len(stream) \in Nat /\ Len(stream) <= MaxEntries
        BY DEF Typed, TypeOK
      <4> QED
        BY <1>1, <4>1, ConstantsOK, EntryBucketType DEF Ids
    <3>2. EntryBucket(i) < b - History
      BY <1>1, <2>1, <2>4, <3>1 DEF TrimBuckets, Held
    <3> QED
      BY <2>2, <2>3, <3>1, <3>2, ConstantsOK
  <2>5. \A i \in Ids : mem'.state.held[i] \in {0, mem.state.held[i]}
    BY <2>1 DEF TrimBuckets
  <2>6. \A i \in 1..Len(stream) : stream'[i] = stream[i]
    BY <2>1
  <2> QED
    BY <1>0, <2>1, <2>3, <2>4, <2>5, <2>6, AccountsFrame
<1>8. ASSUME NEW i \in batch,
             SkipStale(i) \/ DropLate(i) \/ IgnoreVenue(i) \/ Reject(i)
      PROVE  Accounts'
  <2>1. PICK m : Finish(i, pipe, m) /\ m.state = mem.state
    BY <1>1, <1>8 DEF SkipStale, DropLate, IgnoreVenue, Reject, Memory
  <2>2. pc = "handle" /\ UNCHANGED <<applied, horizon>>
    BY <1>8 DEF SkipStale, DropLate, IgnoreVenue, Reject, Applying, Handling
  <2>3. /\ UNCHANGED <<stream, ckpt, primitives, pc>> /\ mem'.state = mem.state
        /\ pipe'.groups = pipe.groups /\ pipe'.folded = pipe.folded
    BY <1>1, <2>1 DEF Finish, Pipeline
  <2> QED
    BY <1>2, <2>2, <2>3
<1>9. CASE Next
  <2>1. ASSUME NEW e, Append1(e) PROVE Accounts'
    <3>1. \A i \in 1..Len(stream) : stream'[i] = stream[i]
      BY <1>1, <2>1 DEF Append1
    <3> QED
      BY <1>2, <2>1, <3>1 DEF Append1
  <2>2. CASE Tick
    BY <1>2, <2>2 DEF Tick
  <2>3. CASE Crash
    BY <1>2, <2>3 DEF Crash, Die
  <2>4. ASSUME NEW i \in batch, FailOnPoison(i) PROVE Accounts'
    BY <1>2, <2>4 DEF FailOnPoison, Die
  <2>5. ASSUME NEW S, NEW o \in {"read", "claim"}, Deliver(S, TRUE, o) \/ Deliver(S, FALSE, o),
               pc \in {"read", "claim"}
        PROVE  Accounts'
    <3>1. /\ pc' \in {"handle", "read", "claim"}
          /\ UNCHANGED <<stream, ckpt, primitives, applied, horizon, pipe, mem>>
      BY <2>5 DEF Deliver
    <3> QED
      BY <1>2, <2>5, <3>1
  <2>6. CASE Claim \/ Read
    BY <2>5, <2>6 DEF Claim, Read
  <2> QED
    BY <1>3, <1>4, <1>5, <1>6, <1>7, <1>8, <1>9, <2>1, <2>2, <2>3, <2>4, <2>6
       DEF Next, TradeTask, Publish, Republish
<1>10. CASE UNCHANGED vars
  BY <1>2, <1>10 DEF vars
<1> QED
  BY <1>9, <1>10

LEMMA InitAhead == Init => Ahead
BY DEF Init, Ahead

LEMMA NextAhead == Typed /\ OrderInv /\ Ahead /\ [Next]_vars => Ahead'
<1> SUFFICES ASSUME Typed, OrderInv, Ahead, [Next]_vars PROVE Ahead'
  OBVIOUS
<1> USE DEF redis, task, history
<1>1. /\ stream \in Seq(Entry) /\ ckpt \in State /\ mem.state \in State
      /\ pipe \in Pipeline /\ mem \in Memory /\ batch \subseteq 1..Len(stream)
      /\ Held(mem.state.held) \subseteq 1..Len(stream)
      /\ Held(pipe.ckpt.held) \subseteq 1..Len(stream)
      /\ ckpt.last \in Int /\ mem.state.last \in Int
      /\ pipe.groups \in Groups
  BY DEF Typed, TypeOK, Memory, Pipeline, State
\* Steps that commit nothing, and neither hold nor close more.
<1>2. ASSUME \A i \in 1..Len(stream) : stream'[i] = stream[i],
             UNCHANGED ckpt,
             pc' # "down" => /\ pc # "down" /\ mem'.state.last = mem.state.last
                             /\ Held(mem'.state.held) \subseteq Held(mem.state.held),
             pc' = "exec" => pc = "exec" /\ pipe'.writes = pipe.writes
                                         /\ pipe'.ckpt = pipe.ckpt
      PROVE  Ahead'
  <2>1. \A i \in 1..Len(stream) : EntryBucket(i)' = EntryBucket(i)
    BY <1>2 DEF EntryBucket
  <2>2. Held(ckpt.held)' = Held(ckpt.held) /\ ckpt'.last = ckpt.last
    BY <1>2 DEF Held
  <2>3. ASSUME pc' # "down"
        PROVE  /\ ckpt'.last <= mem'.state.last
               /\ \A i \in Held(mem'.state.held) \ Held(ckpt'.held) :
                      EntryBucket(i)' > ckpt'.last
    <3>1. /\ ckpt.last <= mem.state.last
          /\ \A i \in Held(mem.state.held) \ Held(ckpt.held) : EntryBucket(i) > ckpt.last
      BY <1>2, <2>3 DEF Ahead
    <3>2. Held(ckpt'.held) = Held(ckpt.held)
      BY <1>2
    <3> QED
      BY <1>1, <1>2, <2>1, <2>2, <2>3, <3>1, <3>2
  <2>4. ASSUME pc' = "exec", pipe'.writes
        PROVE  /\ Held(mem'.state.held) \subseteq Held(pipe'.ckpt.held)
               /\ \A i \in Held(pipe'.ckpt.held) \ Held(ckpt'.held) :
                      EntryBucket(i)' > ckpt'.last
    <3>1. /\ Held(mem.state.held) \subseteq Held(pipe.ckpt.held)
          /\ \A i \in Held(pipe.ckpt.held) \ Held(ckpt.held) : EntryBucket(i) > ckpt.last
      BY <1>2, <2>4 DEF Ahead
    <3>2. Held(ckpt'.held) = Held(ckpt.held) /\ pipe'.ckpt = pipe.ckpt
      BY <1>2, <2>4
    <3> QED
      BY <1>1, <1>2, <2>1, <2>2, <2>4, <3>1, <3>2
  <2> QED
    BY <2>3, <2>4 DEF Ahead, Held
<1>3. CASE Start
  <2>1. /\ UNCHANGED <<stream, ckpt>> /\ pc' = "claim"
        /\ mem'.state = IF Held(ckpt.held) = {} THEN NoState ELSE ckpt
    BY <1>3 DEF Start, FreshMemory
  <2>2. mem'.state.last = ckpt.last /\ Held(mem'.state.held) \subseteq Held(ckpt.held)
    BY <2>1, FreshTypes DEF OrderInv
  <2> QED
    BY <1>1, <2>1, <2>2 DEF Ahead, Held
<1>4. ASSUME NEW i \in batch, Fold(i) PROVE Ahead'
  <2> DEFINE s == Folded(i)
             last == IF CanAdvance(s) THEN ClosedThrough(s) ELSE mem.state.last
  <2>1. /\ UNCHANGED <<stream, ckpt>> /\ pc = "handle" /\ pc' = "handle" /\ ~Late(i)
        /\ mem'.state = IF CanAdvance(s) THEN [s EXCEPT !.last = ClosedThrough(s)] ELSE s
    BY <1>1, <1>4 DEF Fold, Finish, Applying, Handling, Pipeline, Memory
  <2>2. s \in State /\ s.last = mem.state.last /\ ClosedThrough(s) \in Int
    BY FoldedType
  <2>3. mem'.state.held = s.held /\ mem'.state.last = last
    BY <2>1, <2>2 DEF State
  <2>4. last \in Int /\ mem.state.last <= last
    BY <1>1, <2>1, <2>2, FoldChain
  <2>5. Held(s.held) \subseteq Held(mem.state.held) \cup {i}
    <3>1. \A j \in Ids : s.held[j] \in Nat /\ mem.state.held[j] \in Nat
      BY <1>1, <2>2 DEF State
    <3>2. \A j \in Ids : s.held[j] <= (IF j = i THEN mem.state.held[j] + 1
                                                   ELSE mem.state.held[j])
      BY FoldedType
    <3> QED
      BY <3>1, <3>2 DEF Held
  <2>6. EntryBucket(i) > mem.state.last
    BY <1>1, <2>1, EntryBucketType DEF Late
  <2>7. /\ ckpt.last <= mem.state.last
        /\ \A j \in Held(mem.state.held) \ Held(ckpt.held) : EntryBucket(j) > ckpt.last
    BY <2>1 DEF Ahead
  <2>8. ckpt.last <= last /\ EntryBucket(i) > ckpt.last
    BY <1>1, <2>4, <2>6, <2>7, EntryBucketType
  <2>9. \A j \in Held(s.held) \ Held(ckpt.held) : EntryBucket(j) > ckpt.last
    BY <2>5, <2>7, <2>8
  <2> HIDE DEF s, last
  <2> QED
    BY <2>1, <2>3, <2>8, <2>9 DEF Ahead, Held, EntryBucket
<1>5. CASE Checkpoint
  <2>1. /\ pc = "handle" /\ pc' = "exec" /\ UNCHANGED <<stream, ckpt, mem>>
        /\ pipe'.writes = pipe.writes /\ (pipe.writes => pipe'.ckpt = mem.state)
    BY <1>1, <1>5 DEF Checkpoint, Pipeline
  <2> QED
    BY <2>1 DEF Ahead, Held, EntryBucket
<1>6. CASE Execute
  <2>1. /\ pc = "exec" /\ pc' \in {"read", "claim"} /\ UNCHANGED <<stream, mem>>
        /\ ckpt' = IF pipe.writes THEN pipe.ckpt ELSE ckpt
    BY <1>6 DEF Execute
  <2>2. CASE pipe.writes
    <3>1. /\ ckpt' = pipe.ckpt /\ pipe.ckpt.last = mem.state.last
          /\ Held(mem.state.held) \subseteq Held(pipe.ckpt.held)
      BY <2>1, <2>2 DEF OrderInv, Ahead
    <3> QED
      BY <1>1, <2>1, <3>1 DEF Ahead, Held
  <2>3. CASE ~pipe.writes
    BY <2>1, <2>3 DEF Ahead, Held, EntryBucket
  <2> QED
    BY <2>2, <2>3
<1>7. ASSUME NEW v \in Configured, NEW ts \in BookTimes, NEW d \in BookDelays,
             ApplyBook(v, ts, d)
      PROVE  Ahead'
  <2>1. /\ UNCHANGED <<stream, ckpt, pc, pipe>> /\ pc # "down"
        /\ mem'.state.held = TrimBuckets(mem.state.held, Bucket(ts))
        /\ mem'.state.last = mem.state.last
    BY <1>1, <1>7 DEF ApplyBook, Memory, State
  <2>2. Held(mem'.state.held) \subseteq Held(mem.state.held)
    BY <2>1 DEF TrimBuckets, Held
  <2> QED
    BY <1>2, <2>1, <2>2
<1>8. ASSUME NEW i \in batch,
             SkipStale(i) \/ DropLate(i) \/ IgnoreVenue(i) \/ Reject(i)
      PROVE  Ahead'
  <2>1. PICK m : Finish(i, pipe, m) /\ m.state = mem.state
    BY <1>1, <1>8 DEF SkipStale, DropLate, IgnoreVenue, Reject, Memory
  <2>2. pc = "handle"
    BY <1>8 DEF SkipStale, DropLate, IgnoreVenue, Reject, Applying, Handling
  <2>3. UNCHANGED <<stream, ckpt, pc>> /\ mem'.state = mem.state
    BY <2>1 DEF Finish
  <2> QED
    BY <1>2, <2>2, <2>3
<1>9. CASE Next
  <2>1. ASSUME NEW e, Append1(e) PROVE Ahead'
    <3>1. \A i \in 1..Len(stream) : stream'[i] = stream[i]
      BY <1>1, <2>1 DEF Append1
    <3> QED
      BY <1>2, <2>1, <3>1 DEF Append1
  <2>2. CASE Tick
    BY <1>2, <2>2 DEF Tick
  <2>3. CASE Crash
    BY <1>2, <2>3 DEF Crash, Die
  <2>4. ASSUME NEW i \in batch, FailOnPoison(i) PROVE Ahead'
    BY <1>2, <2>4 DEF FailOnPoison, Die
  <2>5. ASSUME NEW S, NEW o \in {"read", "claim"}, Deliver(S, TRUE, o) \/ Deliver(S, FALSE, o),
               pc \in {"read", "claim"}
        PROVE  Ahead'
    <3>1. pc' \in {"handle", "read", "claim"} /\ UNCHANGED <<stream, ckpt, pipe, mem>>
      BY <2>5 DEF Deliver
    <3> QED
      BY <1>2, <2>5, <3>1
  <2>6. CASE Claim \/ Read
    BY <2>5, <2>6 DEF Claim, Read
  <2> QED
    BY <1>3, <1>4, <1>5, <1>6, <1>7, <1>8, <1>9, <2>1, <2>2, <2>3, <2>4, <2>6
       DEF Next, TradeTask, Publish, Republish
<1>10. CASE UNCHANGED vars
  BY <1>2, <1>10 DEF vars
<1> QED
  BY <1>9, <1>10

-----------------------------------------------------------------------------
(* What follows: exactly once, frozen bars, nothing lost, a final watermark *)

IInv == Typed /\ OrderInv /\ Acknowledged /\ Accounts /\ Ahead

LEMMA IInvHolds == Spec => []IInv
<1>1. Init => IInv
  BY InitTyped, InitOrder, InitAcknowledged, InitAccounts, InitAhead DEF IInv
<1>2. IInv /\ [Next]_vars => IInv'
  BY NextTyped, NextOrder, NextAcknowledged, NextAccounts, NextAhead DEF IInv
<1> QED
  BY <1>1, <1>2, PTL DEF Spec

\* The published bars are bars, and no two are for one bucket and venue.
LEMMA PublishedDistinct ==
    ASSUME Typed, OrderInv
    PROVE  /\ Published = Bars(primitives) /\ Published \subseteq Bar
           /\ \A x, y \in Published : x.bucket = y.bucket /\ x.venue = y.venue => x = y
<1>1. Published = Bars(primitives)
  BY DEF Published, Bars
<1>2. primitives \in Groups /\ Len(primitives) \in Nat
  BY DEF Typed, TypeOK, Groups
<1>3. Published \subseteq Bar
  BY <1>1, <1>2, BarsOfChain
<1>4. \A k \in 1..Len(primitives) :
         primitives[k] \in [after: Int, through: Int, bars: SUBSET Bar]
  BY <1>2, ElementOfSeq DEF Groups
<1>5. ASSUME NEW k \in 1..Len(primitives), NEW m \in 1..Len(primitives), k < m,
             NEW x \in primitives[k].bars, NEW y \in primitives[m].bars
      PROVE  x.bucket < y.bucket
  <2>1. /\ x.bucket \in Int /\ y.bucket \in Int
        /\ primitives[k].through \in Int /\ primitives[m].after \in Int
    BY <1>4 DEF Bar
  <2>2. /\ x.bucket <= primitives[k].through /\ primitives[m].after < y.bucket
        /\ primitives[k].through <= primitives[m].after
    BY <1>5 DEF Chain, OrderInv
  <2> QED
    BY <2>1, <2>2
<1>6. ASSUME NEW x \in Published, NEW y \in Published, x.bucket = y.bucket, x.venue = y.venue
      PROVE  x = y
  <2>1. PICK k \in 1..Len(primitives) : x \in primitives[k].bars
    BY DEF Published
  <2>2. PICK m \in 1..Len(primitives) : y \in primitives[m].bars
    BY DEF Published
  <2>3. x.bucket \in Nat /\ y.bucket \in Nat
    BY <1>3 DEF Bar
  <2>4. k = m
    BY <1>2, <1>5, <1>6, <2>1, <2>2, <2>3
  <2> QED
    BY <1>6, <2>1, <2>2, <2>4 DEF OrderInv, Chain
<1> QED
  BY <1>1, <1>3, <1>6

\* No trade is folded twice into a checkpoint, counted twice in a bar or counted
\* in two bars, however often its batch is redelivered.
THEOREM TradesFoldedOnce == Spec => []FoldedOnce
<1>1. IInv => FoldedOnce
  <2> SUFFICES ASSUME IInv PROVE FoldedOnce
    OBVIOUS
  <2>1. Account(stream, horizon, ckpt, primitives, applied)
    BY DEF IInv, Accounts
  <2>2. Typed /\ OrderInv
    BY DEF IInv
  <2>3. \A i \in Ids : ckpt.held[i] <= 1
    BY <2>1 DEF Account
  <2>4. \A x \in Published, i \in Ids :
           /\ x.trades[i] <= 1
           /\ x.trades[i] > 0 => x.bucket = Bucket(stream[i].ts) /\ x.venue = stream[i].venue
    BY <2>1, <2>2, PublishedDistinct DEF Account
  <2>5. \A x, y \in Published : \A i \in Ids :
           x.trades[i] > 0 /\ y.trades[i] > 0 => x = y
    BY <2>2, <2>4, PublishedDistinct
  <2> QED
    BY <2>3, <2>4, <2>5 DEF FoldedOnce
<1> QED
  BY IInvHolds, <1>1, PTL

\* The trades that are still checkpointed for a published bucket are the bar's.
THEOREM BarsStayFrozen == Spec => []BarsFrozen
<1>1. IInv => BarsFrozen
  <2> SUFFICES ASSUME IInv PROVE BarsFrozen
    OBVIOUS
  <2>1. Account(stream, horizon, ckpt, primitives, applied) /\ Typed /\ OrderInv
    BY DEF IInv, Accounts
  <2>2. Published = Bars(primitives)
    BY <2>1, PublishedDistinct
  <2>3. \A x \in Bars(primitives), i \in Ids :
           ckpt.held[i] > 0 /\ Bucket(stream[i].ts) = x.bucket /\ stream[i].venue = x.venue =>
               x.trades[i] = 1
    BY <2>1 DEF Account
  <2> QED
    BY <2>2, <2>3 DEF BarsFrozen, Held, EntryBucket
<1> QED
  BY IInvHolds, <1>1, PTL

\* A committed trade is in a bar or in an open bucket, or fell out of the
\* history while its bucket was open.
THEOREM NothingSilentlyLost == Spec => []NoSilentLoss
<1>1. IInv => NoSilentLoss
  <2> SUFFICES ASSUME IInv PROVE NoSilentLoss
    OBVIOUS
  <2>1. Account(stream, horizon, ckpt, primitives, applied) /\ Typed /\ OrderInv
    BY DEF IInv, Accounts
  <2>2. Published = Bars(primitives)
    BY <2>1, PublishedDistinct
  <2> QED
    BY <2>1, <2>2 DEF NoSilentLoss, Account, EntryBucket
<1> QED
  BY IInvHolds, <1>1, PTL

\* The committed watermark never moves back, and no step commits a trade into a
\* bucket that was finalized before it.
THEOREM FinalizedStaysFinal == Spec => FinalizedIsFinal
<1>1. IInv /\ [Next]_vars =>
          [/\ ckpt.last <= ckpt'.last
           /\ \A i \in Held(ckpt'.held) \ Held(ckpt.held) : EntryBucket(i) > ckpt.last]_vars
  <2> SUFFICES ASSUME IInv, [Next]_vars
               PROVE  /\ ckpt.last <= ckpt'.last
                      /\ \A i \in Held(ckpt'.held) \ Held(ckpt.held) :
                             EntryBucket(i) > ckpt.last
    OBVIOUS
  <2>1. ckpt.last \in Int /\ mem.state.last \in Int
    BY DEF IInv, Typed, TypeOK, Memory, State
  <2>2. CASE UNCHANGED ckpt
    BY <2>1, <2>2
  <2>3. CASE Execute
    <3>1. pc = "exec" /\ ckpt' = IF pipe.writes THEN pipe.ckpt ELSE ckpt
      BY <2>3 DEF Execute
    <3>2. CASE pipe.writes
      <4>1. /\ ckpt' = pipe.ckpt /\ pipe.ckpt.last = mem.state.last
            /\ ckpt.last <= mem.state.last
        BY <3>1, <3>2 DEF IInv, OrderInv, Ahead
      <4>2. \A i \in Held(pipe.ckpt.held) \ Held(ckpt.held) : EntryBucket(i) > ckpt.last
        BY <3>1, <3>2 DEF IInv, Ahead
      <4> QED
        BY <4>1, <4>2
    <3> QED
      BY <2>2, <3>1, <3>2
  <2>4. Execute \/ UNCHANGED ckpt
    BY DEF Next, vars, redis, task, history, TradeTask, Publish, Republish, Append1, Tick,
           Start, Crash, Die, Claim, Read, Deliver, Checkpoint, SkipStale, DropLate,
           IgnoreVenue, Reject, FailOnPoison, Fold, Finish, ApplyBook
  <2> QED
    BY <2>2, <2>3, <2>4
<1> QED
  BY IInvHolds, <1>1, PTL DEF Spec, FinalizedIsFinal

-----------------------------------------------------------------------------
(* Naturals, finite sets of them, and recursion *)

LEMMA LeastExists ==
    ASSUME NEW S \in SUBSET Nat, S # {}
    PROVE  \E m \in S : \A x \in S : m <= x
<1> DEFINE less == {p \in Nat \X Nat : p[1] < p[2]}
<1>1. IsWellFoundedOn(less, Nat)
  BY NatLessThanWellFounded DEF OpToRel
<1>2. PICK m \in S : \A x \in S : <<x, m>> \notin less
  <2> HIDE DEF less
  <2> QED
    BY <1>1, WFMin
<1>3. ASSUME NEW x \in S PROVE m <= x
  <2>1. <<x, m>> \notin less /\ <<x, m>> \in Nat \X Nat
    BY <1>2
  <2>2. ~(x < m)
    BY <2>1
  <2> QED
    BY <2>2
<1> QED
  BY <1>3

\* Induction, for a set of naturals.
LEMMA AllNaturals ==
    ASSUME NEW S, 0 \in S, \A n \in Nat : n \in S => n + 1 \in S
    PROVE  Nat \subseteq S
<1> SUFFICES ASSUME Nat \ S # {} PROVE FALSE
  OBVIOUS
<1>1. PICK m \in Nat \ S : \A x \in Nat \ S : m <= x
  <2>1. Nat \ S \in SUBSET Nat
    OBVIOUS
  <2> QED
    BY <2>1, LeastExists
<1>2. m # 0 /\ m \in Nat
  OBVIOUS
<1>3. m - 1 \in Nat /\ m - 1 < m
  BY <1>2
<1>4. m - 1 \in S
  BY <1>1, <1>3
<1>5. (m - 1) + 1 \in S
  BY <1>3, <1>4
<1>6. (m - 1) + 1 = m
  BY <1>2
<1> QED
  BY <1>1, <1>5, <1>6

\* g is base at 0, and step of the number and of what came before at every other.
Steps(V) == [Nat \X V -> V]
Recurs(V, base, step, g) ==
    /\ g \in [Nat -> V] /\ g[0] = base
    /\ \A n \in Nat \ {0} : g[n] = step[<<n, g[n - 1]>>]

\* A function on the naturals can be defined by recursion.
LEMMA Recursion ==
    ASSUME NEW V, NEW base \in V, NEW step \in Steps(V)
    PROVE  \E g : Recurs(V, base, step, g)
<1> USE DEF Steps
<1> DEFINE Partial(m) ==
        {h \in [0 .. m -> V] : /\ h[0] = base
                               /\ \A n \in 1 .. m : h[n] = step[<<n, h[n - 1]>>]}
<1>1. \A m \in Nat : Partial(m) # {}
  <2> DEFINE S == {m \in Nat : Partial(m) # {}}
  <2>1. 0 \in S
    <3>1. [i \in 0 .. 0 |-> base] \in Partial(0)
      OBVIOUS
    <3> QED
      BY <3>1
  <2>2. ASSUME NEW n \in Nat, n \in S PROVE n + 1 \in S
    <3>1. PICK h \in Partial(n) : TRUE
      BY <2>2
    <3> DEFINE k == [i \in 0 .. n + 1 |-> IF i = n + 1 THEN step[<<n + 1, h[n]>>] ELSE h[i]]
    <3>2. h \in [0 .. n -> V] /\ h[0] = base
      BY <3>1
    <3>3. \A i \in 1 .. n : h[i] = step[<<i, h[i - 1]>>]
      BY <3>1
    <3>4. h[n] \in V /\ n + 1 \in Nat
      BY <3>2
    <3>5. step[<<n + 1, h[n]>>] \in V
      BY <3>4
    <3>6. k \in [0 .. n + 1 -> V]
      <4>1. ASSUME NEW i \in 0 .. n + 1, i # n + 1 PROVE i \in 0 .. n
        BY <4>1
      <4> QED
        BY <3>2, <3>5, <4>1
    <3>7. k[0] = base
      BY <3>2
    <3>8. ASSUME NEW i \in 1 .. n + 1 PROVE k[i] = step[<<i, k[i - 1]>>]
      <4>1. i - 1 \in 0 .. n + 1 /\ i - 1 # n + 1
        OBVIOUS
      <4>2. k[i - 1] = h[i - 1]
        BY <4>1
      <4>3. CASE i = n + 1
        <5>1. i - 1 = n
          BY <4>3
        <5>2. i \in 0 .. n + 1
          OBVIOUS
        <5>3. k[i] = step[<<n + 1, h[n]>>]
          BY <4>3, <5>2
        <5> QED
          BY <4>2, <4>3, <5>1, <5>3
      <4>4. CASE i # n + 1
        <5>1. i \in 1 .. n /\ i \in 0 .. n + 1
          BY <4>4
        <5>2. k[i] = h[i]
          BY <4>4, <5>1
        <5> QED
          BY <3>3, <4>2, <5>1, <5>2
      <4> QED
        BY <4>3, <4>4
    <3>9. k \in Partial(n + 1)
      <4> HIDE DEF k
      <4> QED
        BY <3>6, <3>7, <3>8
    <3> QED
      BY <3>4, <3>9
  <2> HIDE DEF Partial
  <2>3. \A n \in Nat : n \in S => n + 1 \in S
    <3> HIDE DEF S
    <3> QED
      BY <2>2
  <2>4. Nat \subseteq S
    <3> HIDE DEF S
    <3> QED
      BY <2>1, <2>3, AllNaturals
  <2> QED
    BY <2>4
<1>2. ASSUME NEW a \in Nat, NEW b \in Nat, a <= b, NEW h \in Partial(a), NEW k \in Partial(b)
      PROVE  \A i \in 0 .. a : h[i] = k[i]
  <2> DEFINE S == {i \in Nat : i <= a => h[i] = k[i]}
  <2>1. 0 \in S
    OBVIOUS
  <2>2. ASSUME NEW n \in Nat, n \in S PROVE n + 1 \in S
    <3>1. CASE n + 1 <= a
      <4>1. n + 1 \in 1 .. a /\ n + 1 \in 1 .. b /\ (n + 1) - 1 = n /\ n <= a
        BY <1>2, <3>1
      <4>2. h[n] = k[n]
        BY <2>2, <4>1
      <4>3. h[n + 1] = step[<<n + 1, h[n]>>]
        BY <4>1
      <4>4. k[n + 1] = step[<<n + 1, k[n]>>]
        BY <4>1
      <4> QED
        BY <4>2, <4>3, <4>4
    <3>2. CASE ~(n + 1 <= a)
      BY <3>2
    <3> QED
      BY <3>1, <3>2
  <2>3. \A n \in Nat : n \in S => n + 1 \in S
    <3> HIDE DEF S
    <3> QED
      BY <2>2
  <2>4. Nat \subseteq S
    <3> HIDE DEF S
    <3> QED
      BY <2>1, <2>3, AllNaturals
  <2>5. ASSUME NEW i \in 0 .. a PROVE i \in Nat /\ i <= a
    OBVIOUS
  <2> HIDE DEF Partial
  <2> QED
    BY <2>4, <2>5
<1> DEFINE pick == [m \in Nat |-> CHOOSE h \in Partial(m) : TRUE]
           g == [n \in Nat |-> pick[n][n]]
<1>3. \A m \in Nat : pick[m] \in Partial(m)
  <2> HIDE DEF Partial
  <2> QED
    BY <1>1
<1> HIDE DEF pick
<1>4. ASSUME NEW n \in Nat PROVE g[n] = pick[n][n] /\ g[n] \in V
  <2>1. pick[n] \in [0 .. n -> V] /\ n \in 0 .. n
    BY <1>3
  <2> QED
    BY <2>1
<1>5. g[0] = base
  <2>1. pick[0][0] = base
    BY <1>3
  <2> QED
    BY <1>4, <2>1
<1>6. ASSUME NEW n \in Nat \ {0} PROVE g[n] = step[<<n, g[n - 1]>>]
  <2>1. n \in 1 .. n /\ n \in Nat /\ n - 1 \in Nat /\ n - 1 <= n /\ n - 1 \in 0 .. n - 1
    OBVIOUS
  <2>2. pick[n][n] = step[<<n, pick[n][n - 1]>>]
    BY <1>3, <2>1
  <2>3. pick[n - 1][n - 1] = pick[n][n - 1]
    <3> HIDE DEF Partial
    <3>1. pick[n - 1] \in Partial(n - 1) /\ pick[n] \in Partial(n)
      BY <1>3, <2>1
    <3> QED
      BY <1>2, <2>1, <3>1
  <2> HIDE DEF g
  <2> QED
    BY <1>4, <2>1, <2>2, <2>3
<1>7. g \in [Nat -> V]
  <2>1. \A n \in Nat : pick[n][n] \in V
    BY <1>4
  <2> QED
    BY <2>1
<1> QED
  BY <1>5, <1>6, <1>7 DEF Recurs

-----------------------------------------------------------------------------
(* Sums *)

\* What can be summed.
Amounts == {f \in UNION {[D -> Nat] : D \in SUBSET Nat} : IsFiniteSet(DOMAIN f)}

LEMMA AmountsAre ==
    /\ \A f \in Amounts : /\ DOMAIN f \in SUBSET Nat /\ IsFiniteSet(DOMAIN f)
                          /\ f \in [DOMAIN f -> Nat]
    /\ \A D \in SUBSET Nat : IsFiniteSet(D) => [D -> Nat] \subseteq Amounts
BY DEF Amounts

\* What n adds to the sum of f.
Term(f, n) == IF n \in DOMAIN f THEN f[n] ELSE 0

\* SumTo adds one number after the other.
LEMMA SumRec ==
    ASSUME NEW f \in Amounts
    PROVE  /\ SumTo(f) \in [Nat -> Nat]
           /\ SumTo(f)[0] = Term(f, 0)
           /\ \A n \in Nat \ {0} : SumTo(f)[n] = SumTo(f)[n - 1] + Term(f, n)
           /\ \A n \in Nat : Term(f, n) \in Nat
<1>1. \A n \in Nat : Term(f, n) \in Nat
  BY AmountsAre DEF Term
<1> DEFINE step == [p \in Nat \X Nat |-> p[2] + Term(f, p[1])]
           Adds(h) == [n \in Nat |-> (IF n = 0 THEN 0 ELSE h[n - 1])
                                    + (IF n \in DOMAIN f THEN f[n] ELSE 0)]
<1>2. step \in [Nat \X Nat -> Nat]
  BY <1>1
<1>3. PICK g \in [Nat -> Nat] :
          /\ g[0] = Term(f, 0)
          /\ \A n \in Nat \ {0} : g[n] = step[<<n, g[n - 1]>>]
  <2> DEFINE base == Term(f, 0)
  <2> DEFINE V == Nat
  <2>1. base \in V /\ step \in Steps(V)
    BY <1>1, <1>2 DEF Steps
  <2> HIDE DEF step, base, V
  <2>2. \E g : Recurs(V, base, step, g)
    BY <2>1, Recursion
  <2> QED
    BY <2>2 DEF base, V, Recurs
<1>4. g = Adds(g)
  <2>1. ASSUME NEW n \in Nat PROVE g[n] = Adds(g)[n]
    <3>1. CASE n = 0
      BY <1>1, <1>3, <3>1 DEF Term
    <3>2. CASE n # 0
      <4>1. g[n] = step[<<n, g[n - 1]>>]
        BY <1>3, <3>2
      <4>2. g[n - 1] \in Nat
        BY <3>2
      <4> QED
        BY <1>1, <3>2, <4>1, <4>2 DEF Term
    <3> QED
      BY <3>1, <3>2
  <2> QED
    BY <2>1
<1>5. SumTo(f) = CHOOSE h : h = Adds(h)
  BY DEF SumTo
<1>6. SumTo(f) = Adds(SumTo(f))
  <2> HIDE DEF Adds
  <2> QED
    BY <1>4, <1>5
<1> DEFINE s == SumTo(f)
<1>7. \A n \in Nat : s[n] = (IF n = 0 THEN 0 ELSE s[n - 1]) + Term(f, n)
  <2> HIDE DEF s
  <2>1. s = Adds(s)
    BY <1>6 DEF s
  <2> QED
    BY <2>1 DEF Term
<1>8. DOMAIN s = Nat /\ s = [n \in Nat |-> s[n]]
  BY <1>6
<1> HIDE DEF s
<1>9. Nat \subseteq {n \in Nat : s[n] \in Nat}
  <2> DEFINE S == {n \in Nat : s[n] \in Nat}
  <2>1. 0 \in S
    BY <1>1, <1>7
  <2>2. \A n \in Nat : n \in S => n + 1 \in S
    <3> SUFFICES ASSUME NEW n \in Nat, n \in S PROVE n + 1 \in S
      OBVIOUS
    <3>1. n + 1 \in Nat /\ n + 1 # 0 /\ (n + 1) - 1 = n
      OBVIOUS
    <3>2. s[n + 1] = s[n] + Term(f, n + 1)
      BY <1>7, <3>1
    <3> QED
      BY <1>1, <3>1, <3>2
  <2> HIDE DEF S
  <2>3. Nat \subseteq S
    BY <2>1, <2>2, AllNaturals
  <2> QED
    BY <2>3 DEF S
<1>10. s \in [Nat -> Nat]
  BY <1>8, <1>9
<1>11. s[0] = Term(f, 0)
  BY <1>1, <1>7
<1>12. \A n \in Nat \ {0} : s[n] = s[n - 1] + Term(f, n)
  BY <1>7
<1> QED
  BY <1>1, <1>10, <1>11, <1>12 DEF s

\* A sum stays as it is where there is nothing to add.
LEMMA SumFlat ==
    ASSUME NEW f \in Amounts, NEW a \in Nat, NEW b \in Nat, a <= b,
           \A x \in DOMAIN f : ~(x \in Nat /\ a < x /\ x <= b)
    PROVE  SumTo(f)[b] = SumTo(f)[a]
<1> DEFINE S == {n \in Nat : a <= n /\ n <= b => SumTo(f)[n] = SumTo(f)[a]}
<1>1. 0 \in S
  OBVIOUS
<1>2. ASSUME NEW n \in Nat, n \in S PROVE n + 1 \in S
  <2>1. CASE a <= n /\ n + 1 <= b
    <3>1. SumTo(f)[n] = SumTo(f)[a]
      BY <1>2, <2>1
    <3>2. n + 1 \notin DOMAIN f
      BY <2>1
    <3>3. Term(f, n + 1) = 0
      BY <3>2 DEF Term
    <3>4. SumTo(f)[n + 1] = SumTo(f)[(n + 1) - 1] + Term(f, n + 1)
      BY SumRec
    <3>5. SumTo(f)[n] \in Nat /\ (n + 1) - 1 = n
      BY SumRec
    <3> QED
      BY <3>1, <3>3, <3>4, <3>5
  <2>2. CASE ~(a <= n /\ n + 1 <= b)
    BY <2>2
  <2> QED
    BY <2>1, <2>2
<1>3. Nat \subseteq S
  <2> HIDE DEF S
  <2> QED
    BY <1>1, <1>2, AllNaturals
<1> QED
  BY <1>3

\* A finite set of naturals is bounded.
LEMMA Bounded ==
    ASSUME NEW D \in SUBSET Nat, IsFiniteSet(D)
    PROVE  \E m \in Nat : \A x \in D : x <= m
<1> DEFINE c == Cardinality(D)
<1>0. c \in Nat
  BY FS_CardinalityType
<1>1. PICK h \in [1 .. c -> D] : \A x \in D : \E i \in 1 .. c : h[i] = x
  BY FS_CardinalityType DEF ExistsBijection, Bijection, Injection, Surjection
<1> HIDE DEF c
<1> DEFINE S == {n \in Nat : \E m \in Nat : \A i \in 1 .. c : i <= n => h[i] <= m}
<1>2. 0 \in S
  OBVIOUS
<1>3. ASSUME NEW n \in Nat, n \in S PROVE n + 1 \in S
  <2>1. PICK m \in Nat : \A i \in 1 .. c : i <= n => h[i] <= m
    BY <1>3
  <2>2. CASE n + 1 \in 1 .. c
    <3>1. h[n + 1] \in Nat
      BY <2>2
    <3>2. m + h[n + 1] \in Nat
      BY <3>1
    <3>3. ASSUME NEW i \in 1 .. c, i <= n + 1 PROVE h[i] <= m + h[n + 1]
      <4>1. CASE i <= n
        <5>1. h[i] <= m /\ h[i] \in Nat
          BY <2>1, <4>1
        <5> QED
          BY <3>1, <5>1
      <4>2. CASE i = n + 1
        BY <3>1, <4>2
      <4> QED
        BY <3>3, <4>1, <4>2
    <3>4. \E k \in Nat : \A i \in 1 .. c : i <= n + 1 => h[i] <= k
      BY <3>2, <3>3
    <3> QED
      BY <3>4
  <2>3. CASE n + 1 \notin 1 .. c
    <3>1. \A i \in 1 .. c : i <= n + 1 => i <= n
      BY <2>3
    <3> QED
      BY <2>1, <3>1
  <2> QED
    BY <2>2, <2>3
<1>4. c \in S
  <2> HIDE DEF S
  <2> QED
    BY <1>0, <1>2, <1>3, AllNaturals
<1>5. PICK m \in Nat : \A i \in 1 .. c : h[i] <= m
  BY <1>4
<1> QED
  BY <1>1, <1>5

\* What Max and Min choose.
LEMMA Extremes ==
    ASSUME NEW D \in SUBSET Nat, D # {}
    PROVE  /\ Min(D) \in D /\ \A x \in D : Min(D) <= x
           /\ IsFiniteSet(D) => Max(D) \in D /\ \A x \in D : x <= Max(D)
<1>1. Min(D) \in D /\ \A x \in D : Min(D) <= x
  <2>1. \E m \in D : \A x \in D : m <= x
    BY LeastExists
  <2> QED
    BY <2>1 DEF Min
<1>2. ASSUME IsFiniteSet(D)
      PROVE  Max(D) \in D /\ \A x \in D : x <= Max(D)
  <2>1. PICK b \in Nat : \A x \in D : x <= b
    BY <1>2, Bounded
  <2> DEFINE T == {n \in Nat : \A x \in D : x <= n}
  <2>2. PICK m \in T : \A n \in T : m <= n
    <3>1. b \in T
      BY <2>1
    <3> HIDE DEF T
    <3>2. T \in SUBSET Nat
      BY DEF T
    <3> QED
      BY <3>1, <3>2, LeastExists
  <2>3. m \in Nat /\ \A x \in D : x <= m
    OBVIOUS
  <2>4. m \in D
    <3> SUFFICES ASSUME m \notin D PROVE FALSE
      OBVIOUS
    <3>1. \A x \in D : x < m
      BY <2>3
    <3>2. m # 0 /\ m - 1 \in Nat
      <4>1. PICK x \in D : TRUE
        OBVIOUS
      <4>2. x \in Nat /\ x < m
        BY <3>1
      <4> QED
        BY <2>3, <4>2
    <3>3. m - 1 \in T
      BY <2>3, <3>1, <3>2
    <3>4. m <= m - 1
      BY <2>2, <3>3
    <3> QED
      BY <2>3, <3>4
  <2>5. \A x \in D : m >= x
    BY <2>3
  <2>6. Max(D) \in D /\ \A x \in D : Max(D) >= x
    BY <2>4, <2>5 DEF Max
  <2> QED
    BY <2>6
<1> QED
  BY <1>1, <1>2

\* Of two integers.
LEMMA MinOfTwo ==
    ASSUME NEW a \in Int, NEW b \in Int
    PROVE  /\ Min({a, b}) = IF a <= b THEN a ELSE b
           /\ Max({a, b}) = IF a <= b THEN b ELSE a
<1>1. CASE a <= b
  <2>1. \A x \in {a, b} : (\A y \in {a, b} : x <= y) => x = a
    BY <1>1
  <2>2. \A x \in {a, b} : (\A y \in {a, b} : x >= y) => x = b
    BY <1>1
  <2>3. \A y \in {a, b} : a <= y /\ b >= y
    BY <1>1
  <2> QED
    BY <1>1, <2>1, <2>2, <2>3 DEF Min, Max
<1>2. CASE ~(a <= b)
  <2>1. \A x \in {a, b} : (\A y \in {a, b} : x <= y) => x = b
    BY <1>2
  <2>2. \A x \in {a, b} : (\A y \in {a, b} : x >= y) => x = a
    BY <1>2
  <2>3. \A y \in {a, b} : b <= y /\ a >= y
    BY <1>2
  <2> QED
    BY <1>2, <2>1, <2>2, <2>3 DEF Min, Max
<1> QED
  BY <1>1, <1>2

\* The sum of all of f is the sum up to any bound of its domain.
LEMMA SumOfIs ==
    ASSUME NEW f \in Amounts, NEW m \in Nat, \A x \in DOMAIN f : x <= m
    PROVE  SumOf(f) = SumTo(f)[m] /\ SumOf(f) \in Nat
<1> DEFINE D == DOMAIN f
<1>1. SumTo(f) \in [Nat -> Nat]
  BY SumRec
<1>4. D \in SUBSET Nat /\ IsFiniteSet(D)
  BY AmountsAre
<1>2. CASE D = {}
  <2>1. \A x \in D : ~(x \in Nat /\ 0 < x /\ x <= m)
    BY <1>2
  <2>3. 0 <= m /\ 0 \in Nat
    OBVIOUS
  <2>4. SumTo(f)[m] = SumTo(f)[0]
    BY <2>1, <2>3, SumFlat
  <2>2. SumTo(f)[0] = 0
    BY <1>2, SumRec DEF Term
  <2> QED
    BY <1>2, <2>4, <2>2 DEF SumOf
<1>3. CASE D # {}
  <2>1. Max(D) \in D /\ \A x \in D : x <= Max(D)
    BY <1>3, <1>4, Extremes
  <2>2. Max(D) \in Nat /\ Max(D) <= m
    BY <1>4, <2>1
  <2>3. \A x \in D : ~(x \in Nat /\ Max(D) < x /\ x <= m)
    BY <1>4, <2>1, <2>2
  <2> DEFINE a == Max(D)
  <2>4. SumTo(f)[m] = SumTo(f)[a]
    <3>1. a \in Nat /\ a <= m /\ \A x \in D : ~(x \in Nat /\ a < x /\ x <= m)
      BY <2>2, <2>3
    <3> HIDE DEF a
    <3> QED
      BY <3>1, SumFlat
  <2> QED
    BY <1>1, <1>3, <2>2, <2>4 DEF SumOf
<1> QED
  BY <1>2, <1>3

\* Two sums that differ at one number differ by what is there.
LEMMA SumPoint ==
    ASSUME NEW f \in Amounts, NEW g \in Amounts, NEW p \in Nat,
           \A n \in Nat : n # p => Term(f, n) = Term(g, n)
    PROVE  SumOf(f) - SumOf(g) = Term(f, p) - Term(g, p)
<1>1. /\ \A n \in Nat : Term(f, n) \in Nat /\ Term(g, n) \in Nat
      /\ SumTo(f) \in [Nat -> Nat] /\ SumTo(g) \in [Nat -> Nat]
  BY SumRec
<1>2. PICK m \in Nat : /\ \A x \in DOMAIN f : x <= m
                       /\ \A x \in DOMAIN g : x <= m
                       /\ p <= m
  <2>1. PICK i \in Nat : \A x \in DOMAIN f : x <= i
    BY AmountsAre, Bounded
  <2>2. PICK j \in Nat : \A x \in DOMAIN g : x <= j
    BY AmountsAre, Bounded
  <2>3. DOMAIN f \subseteq Nat /\ DOMAIN g \subseteq Nat
    BY AmountsAre
  <2>4. i + j + p \in Nat
    OBVIOUS
  <2>5. \A x \in DOMAIN f : x <= i + j + p
    BY <2>1, <2>3
  <2>6. \A x \in DOMAIN g : x <= i + j + p
    BY <2>2, <2>3
  <2> QED
    BY <2>4, <2>5, <2>6
<1> DEFINE gap(n) == IF n < p THEN 0 ELSE Term(f, p) - Term(g, p)
           S == {n \in Nat : SumTo(f)[n] - SumTo(g)[n] = gap(n)}
<1>3. 0 \in S
  <2>1. SumTo(f)[0] = Term(f, 0) /\ SumTo(g)[0] = Term(g, 0)
    BY SumRec
  <2>2. CASE p = 0
    BY <2>1, <2>2
  <2>3. CASE p # 0
    BY <1>1, <2>1, <2>3
  <2> QED
    BY <2>2, <2>3
<1>4. ASSUME NEW n \in Nat, n \in S PROVE n + 1 \in S
  <2>1. n + 1 \in Nat \ {0} /\ (n + 1) - 1 = n
    OBVIOUS
  <2>2. SumTo(f)[n + 1] = SumTo(f)[n] + Term(f, n + 1)
    BY <2>1, SumRec
  <2>3. SumTo(g)[n + 1] = SumTo(g)[n] + Term(g, n + 1)
    BY <2>1, SumRec
  <2>4. SumTo(f)[n] \in Nat /\ SumTo(g)[n] \in Nat
    BY <1>1
  <2>5. Term(f, n + 1) \in Nat /\ Term(g, n + 1) \in Nat /\ Term(f, p) \in Nat /\ Term(g, p) \in Nat
    BY <1>1
  <2>6. SumTo(f)[n] - SumTo(g)[n] = gap(n)
    BY <1>4
  <2>7. CASE n + 1 = p
    <3>1. gap(n) = 0 /\ gap(n + 1) = Term(f, n + 1) - Term(g, n + 1)
      BY <2>7
    <3>2. SumTo(f)[n + 1] - SumTo(g)[n + 1] = gap(n + 1)
      <4> HIDE DEF gap
      <4> QED
        BY <2>2, <2>3, <2>4, <2>5, <2>6, <3>1
    <3> QED
      BY <3>2
  <2>8. CASE n + 1 # p
    <3>1. Term(f, n + 1) = Term(g, n + 1)
      BY <2>8
    <3>2. gap(n + 1) = gap(n)
      BY <2>8
    <3>3. SumTo(f)[n + 1] - SumTo(g)[n + 1] = gap(n + 1)
      <4> HIDE DEF gap
      <4> QED
        BY <2>2, <2>3, <2>4, <2>5, <2>6, <3>1, <3>2
    <3> QED
      BY <3>3
  <2> QED
    BY <2>7, <2>8
<1>5. m \in S
  <2> HIDE DEF S
  <2> QED
    BY <1>3, <1>4, AllNaturals
<1>6. SumTo(f)[m] - SumTo(g)[m] = Term(f, p) - Term(g, p)
  BY <1>2, <1>5
<1>7. SumOf(f) = SumTo(f)[m] /\ SumOf(g) = SumTo(g)[m]
  BY <1>2, SumOfIs
<1> QED
  BY <1>6, <1>7

\* _reduce_level takes what it is told to take, as far as there is so much, and
\* from no venue more than it has.
LEMMA ReducedSums ==
    ASSUME NEW level \in Amounts, 0 \notin DOMAIN level, NEW quantity \in Nat
    PROVE  /\ Reduced(level, quantity) \in [DOMAIN level -> Nat]
           /\ Reduced(level, quantity) \in Amounts
           /\ \A v \in DOMAIN level : Reduced(level, quantity)[v] <= level[v]
           /\ SumOf(level) \in Nat
           /\ SumOf(Reduced(level, quantity)) =
                  IF SumOf(level) <= quantity THEN 0 ELSE SumOf(level) - quantity
<1> DEFINE R == Reduced(level, quantity)
           W == DOMAIN level
           T == SumTo(level)
           left(n) == IF T[n] <= quantity THEN 0 ELSE T[n] - quantity
<1>1. W \in SUBSET Nat /\ IsFiniteSet(W) /\ level \in [W -> Nat]
  BY AmountsAre
<1>2. T \in [Nat -> Nat]
  BY SumRec
<1>3. ASSUME NEW v \in W
      PROVE  /\ v \in Nat \ {0} /\ v - 1 \in Nat
             /\ T[v - 1] \in Nat /\ level[v] \in Nat
             /\ T[v] = T[v - 1] + level[v]
             /\ R[v] = IF quantity <= T[v - 1] THEN level[v]
                       ELSE IF level[v] <= quantity - T[v - 1] THEN 0
                       ELSE level[v] - (quantity - T[v - 1])
  <2>1. v \in Nat \ {0} /\ v - 1 \in Nat /\ T[v - 1] \in Nat /\ level[v] \in Nat
    BY <1>1, <1>2
  <2>2. T[v] = T[v - 1] + Term(level, v)
    BY <2>1, SumRec
  <2>3. Term(level, v) = level[v]
    BY DEF Term
  <2> DEFINE x == quantity - T[v - 1]
  <2>4. x \in Int
    BY <2>1
  <2>5. R[v] = level[v] - Min({level[v], Max({0, x})})
    BY DEF Reduced
  <2>6. Max({0, x}) = IF 0 <= x THEN x ELSE 0
    <3> HIDE DEF x
    <3> QED
      BY <2>4, MinOfTwo
  <2>7. CASE quantity <= T[v - 1]
    <3>1. Max({0, x}) = 0
      BY <2>1, <2>6, <2>7
    <3>2. Min({level[v], 0}) = 0
      BY <2>1, MinOfTwo
    <3>3. R[v] = level[v] - 0
      <4> HIDE DEF x
      <4> QED
        BY <2>5, <3>1, <3>2
    <3> QED
      BY <2>1, <2>2, <2>3, <2>7, <3>3
  <2>8. CASE ~(quantity <= T[v - 1])
    <3>1. Max({0, x}) = x
      BY <2>1, <2>6, <2>8
    <3>2. Min({level[v], x}) = IF level[v] <= x THEN level[v] ELSE x
      <4> HIDE DEF x
      <4> QED
        BY <2>1, <2>4, MinOfTwo
    <3>3. R[v] = IF level[v] <= x THEN level[v] - level[v] ELSE level[v] - x
      <4> HIDE DEF x
      <4> QED
        BY <2>5, <3>1, <3>2
    <3> QED
      BY <2>1, <2>2, <2>3, <2>8, <3>3
  <2> QED
    BY <2>7, <2>8
<1>4. R \in [W -> Nat] /\ \A v \in W : R[v] <= level[v]
  <2>1. DOMAIN R = W /\ R = [v \in W |-> R[v]]
    BY DEF Reduced
  <2> HIDE DEF R, T, W
  <2>2. \A v \in W : R[v] \in Nat /\ R[v] <= level[v]
    BY <1>3
  <2> QED
    BY <2>1, <2>2
<1>5. R \in Amounts
  <2> HIDE DEF R, W
  <2> QED
    BY <1>1, <1>4, AmountsAre
<1>6. /\ SumTo(R) \in [Nat -> Nat] /\ SumTo(R)[0] = Term(R, 0)
      /\ \A n \in Nat \ {0} : SumTo(R)[n] = SumTo(R)[n - 1] + Term(R, n)
  <2> HIDE DEF R
  <2> QED
    BY <1>5, SumRec
<1> DEFINE S == {n \in Nat : SumTo(R)[n] = left(n)}
<1>7. 0 \in S
  <2>1. T[0] = 0
    BY SumRec DEF Term
  <2>2. Term(R, 0) = 0
    BY <1>4 DEF Term
  <2> HIDE DEF R, T
  <2> QED
    BY <1>6, <2>1, <2>2
<1>8. ASSUME NEW n \in Nat, n \in S PROVE n + 1 \in S
  <2>1. n + 1 \in Nat \ {0} /\ (n + 1) - 1 = n
    OBVIOUS
  <2>2. SumTo(R)[n] = left(n) /\ T[n] \in Nat
    BY <1>2, <1>8
  <2>3. SumTo(R)[n + 1] = left(n) + Term(R, n + 1)
    <3> HIDE DEF R, left
    <3> QED
      BY <1>6, <2>1, <2>2
  <2>4. SumTo(R)[n + 1] = left(n + 1)
    <3>1. CASE n + 1 \in W
      <4> DEFINE v == n + 1
      <4>1. /\ T[n] \in Nat /\ level[v] \in Nat
            /\ T[v] = T[n] + level[v]
            /\ R[v] = IF quantity <= T[n] THEN level[v]
                      ELSE IF level[v] <= quantity - T[n] THEN 0
                      ELSE level[v] - (quantity - T[n])
        <5>1. v - 1 = n /\ v \in W
          BY <3>1
        <5> HIDE DEF v, R, T, W
        <5> QED
          BY <1>3, <5>1
      <4>2. Term(R, v) = R[v]
        BY <1>4, <3>1 DEF Term
      <4> HIDE DEF v, R, T
      <4>3. SumTo(R)[v] = left(n) + R[v]
        BY <2>3, <4>2 DEF v
      <4>4. SumTo(R)[v] = left(v)
        BY <4>1, <4>3
      <4> QED
        BY <4>4 DEF v
    <3>2. CASE n + 1 \notin W
      <4>1. Term(R, n + 1) = 0
        BY <1>4, <3>2 DEF Term
      <4>2. T[n + 1] = T[n] + Term(level, n + 1)
        BY <2>1, SumRec
      <4>3. Term(level, n + 1) = 0
        BY <3>2 DEF Term
      <4> HIDE DEF R, T
      <4>4. T[n + 1] = T[n]
        BY <2>2, <4>2, <4>3
      <4> QED
        BY <2>2, <2>3, <4>1, <4>4
    <3> QED
      BY <3>1, <3>2
  <2> HIDE DEF R, left
  <2> QED
    BY <2>1, <2>4
<1>9. PICK m \in Nat : \A x \in W : x <= m
  BY <1>1, Bounded
<1>10. SumOf(level) = T[m] /\ SumOf(level) \in Nat
  BY <1>9, SumOfIs
<1>11. SumOf(R) = SumTo(R)[m]
  <2>1. \A x \in DOMAIN R : x <= m
    BY <1>4, <1>9
  <2> HIDE DEF R
  <2> QED
    BY <1>5, <2>1, SumOfIs
<1>12. m \in S
  <2> HIDE DEF S
  <2> QED
    BY <1>7, <1>8, AllNaturals
<1>13. SumTo(R)[m] = left(m)
  <2> HIDE DEF R, left
  <2> QED
    BY <1>12
<1>14. SumOf(R) = IF SumOf(level) <= quantity THEN 0 ELSE SumOf(level) - quantity
  <2> HIDE DEF R, T
  <2> QED
    BY <1>10, <1>11, <1>13
<1> QED
  BY <1>4, <1>5, <1>10, <1>14

-----------------------------------------------------------------------------
(* The sides of the composite book *)

\* The names of venues, and the sides that can be made of their books.
Names == {W \in SUBSET (Nat \ {0}) : IsFiniteSet(W)}
Sides(W) == {f \in UNION {[D -> [W -> Nat]] : D \in SUBSET Nat} : IsFiniteSet(DOMAIN f)}

LEMMA SidesAre ==
    ASSUME NEW W \in Names
    PROVE  /\ \A side \in Sides(W) :
                  /\ DOMAIN side \in SUBSET Nat /\ IsFiniteSet(DOMAIN side)
                  /\ side \in [DOMAIN side -> [W -> Nat]]
           /\ \A D \in SUBSET Nat : IsFiniteSet(D) => [D -> [W -> Nat]] \subseteq Sides(W)
           /\ \A level \in [W -> Nat] : level \in Amounts /\ 0 \notin DOMAIN level
<1>1. \A level \in [W -> Nat] : level \in Amounts /\ 0 \notin DOMAIN level
  BY AmountsAre DEF Names
<1> QED
  BY <1>1 DEF Sides

\* The quantities of the levels of a side.
LEMMA Quantities ==
    ASSUME NEW W \in Names, NEW side \in Sides(W)
    PROVE  /\ \A p \in DOMAIN side : Quantity(side[p]) \in Nat
           /\ [p \in DOMAIN side |-> Quantity(side[p])] \in Amounts
           /\ Volume(side) \in Nat
<1>1. /\ DOMAIN side \in SUBSET Nat /\ IsFiniteSet(DOMAIN side)
      /\ side \in [DOMAIN side -> [W -> Nat]]
  BY SidesAre
<1>2. ASSUME NEW level \in [W -> Nat] PROVE SumOf(level) \in Nat
  <2>1. level \in Amounts
    BY SidesAre
  <2>2. PICK m \in Nat : \A x \in DOMAIN level : x <= m
    BY <2>1, AmountsAre, Bounded
  <2> QED
    BY <2>1, <2>2, SumOfIs
<1>3. \A p \in DOMAIN side : Quantity(side[p]) \in Nat
  BY <1>1, <1>2 DEF Quantity
<1> DEFINE f == [p \in DOMAIN side |-> Quantity(side[p])]
<1>4. f \in [DOMAIN side -> Nat]
  BY <1>3
<1>5. f \in Amounts
  <2> HIDE DEF f
  <2> QED
    BY <1>1, <1>4, AmountsAre
<1>6. PICK m \in Nat : \A x \in DOMAIN side : x <= m
  BY <1>1, Bounded
<1>7. SumOf(f) \in Nat
  <2>1. \A x \in DOMAIN f : x <= m
    BY <1>6
  <2> HIDE DEF f
  <2> QED
    BY <1>5, <2>1, SumOfIs
<1> QED
  BY <1>3, <1>5, <1>7 DEF Volume

\* A round takes the quantity from one level of a side, and the level away when
\* nothing is left of it.
LEMMA MatchedSide ==
    ASSUME NEW W \in Names, NEW side \in Sides(W), NEW p \in DOMAIN side,
           NEW quantity \in Nat, quantity <= Quantity(side[p])
    PROVE  /\ Matched(side, p, quantity) \in Sides(W)
           /\ DOMAIN Matched(side, p, quantity) \subseteq DOMAIN side
           /\ DOMAIN side \ {p} \subseteq DOMAIN Matched(side, p, quantity)
           /\ \A r \in DOMAIN Matched(side, p, quantity) :
                  /\ r # p => Matched(side, p, quantity)[r] = side[r]
                  /\ \A v \in W : Matched(side, p, quantity)[r][v] <= side[r][v]
           /\ Volume(side) - Volume(Matched(side, p, quantity)) = quantity
           /\ quantity = Quantity(side[p]) => p \notin DOMAIN Matched(side, p, quantity)
<1> DEFINE M == Matched(side, p, quantity)
           D == DOMAIN side
           rest == Reduced(side[p], quantity)
<1>1. D \in SUBSET Nat /\ IsFiniteSet(D) /\ side \in [D -> [W -> Nat]] /\ p \in Nat
  BY SidesAre
<1>2. side[p] \in [W -> Nat] /\ side[p] \in Amounts /\ 0 \notin DOMAIN side[p]
  BY <1>1, SidesAre
<1>3. /\ rest \in [W -> Nat]
      /\ \A v \in W : rest[v] <= side[p][v]
      /\ Quantity(side[p]) \in Nat
      /\ Quantity(rest) = Quantity(side[p]) - quantity
  <2>1. DOMAIN side[p] = W
    BY <1>2
  <2>2. /\ rest \in [W -> Nat]
        /\ \A v \in W : rest[v] <= side[p][v]
        /\ SumOf(side[p]) \in Nat
        /\ SumOf(rest) = IF SumOf(side[p]) <= quantity THEN 0 ELSE SumOf(side[p]) - quantity
    BY <1>2, <2>1, ReducedSums
  <2> HIDE DEF rest
  <2> QED
    BY <2>2 DEF Quantity
<1>4. \A r \in D, v \in W : side[r][v] \in Nat
  BY <1>1
<1> DEFINE f == [r \in D |-> Quantity(side[r])]
           g == [r \in DOMAIN M |-> Quantity(M[r])]
<1>5. CASE Quantity(rest) = 0
  <2>1. M = [q \in D \ {p} |-> side[q]]
    BY <1>5 DEF Matched
  <2>2. D \ {p} \in SUBSET Nat /\ IsFiniteSet(D \ {p})
    BY <1>1, FS_RemoveElement
  <2>3. M \in [D \ {p} -> [W -> Nat]]
    BY <1>1, <2>1
  <2>4. M \in Sides(W) /\ DOMAIN M = D \ {p}
    <3> HIDE DEF M
    <3> QED
      BY <2>2, <2>3, SidesAre
  <2>5. \A r \in DOMAIN M : M[r] = side[r]
    BY <2>1
  <2>6. \A n \in Nat : n # p => Term(f, n) = Term(g, n)
    <3> HIDE DEF M
    <3> QED
      BY <2>4, <2>5 DEF Term
  <2>7. Term(f, p) = quantity /\ Term(g, p) = 0
    <3>1. Quantity(side[p]) = quantity
      BY <1>3, <1>5
    <3> HIDE DEF M
    <3> QED
      BY <2>4, <3>1 DEF Term
  <2>8. Volume(side) - Volume(M) = quantity
    <3>1. f \in Amounts
      BY Quantities
    <3>2. g \in Amounts
      <4> HIDE DEF M
      <4> QED
        BY <2>4, Quantities
    <3>3. SumOf(f) - SumOf(g) = Term(f, p) - Term(g, p)
      <4> HIDE DEF f, g
      <4> QED
        BY <1>1, <2>6, <3>1, <3>2, SumPoint
    <3>4. SumOf(f) = Volume(side) /\ SumOf(g) = Volume(M)
      BY DEF Volume
    <3> HIDE DEF f, g, M
    <3> QED
      BY <2>7, <3>3, <3>4
  <2>9. \A r \in DOMAIN M, v \in W : M[r][v] <= side[r][v]
    <3> HIDE DEF M
    <3>1. ASSUME NEW r \in DOMAIN M, NEW v \in W PROVE M[r][v] <= side[r][v]
      <4>1. M[r] = side[r] /\ side[r][v] \in Nat
        BY <1>4, <2>4, <2>5
      <4> QED
        BY <4>1
    <3> QED
      BY <3>1
  <2> HIDE DEF M
  <2> QED
    BY <2>4, <2>5, <2>8, <2>9 DEF M
<1>6. CASE Quantity(rest) # 0
  <2>1. M = [side EXCEPT ![p] = rest]
    BY <1>6 DEF Matched
  <2>3. M \in [D -> [W -> Nat]]
    <3> HIDE DEF rest
    <3> QED
      BY <1>1, <1>3, <2>1
  <2>4. M \in Sides(W) /\ DOMAIN M = D
    <3> HIDE DEF M
    <3> QED
      BY <1>1, <2>3, SidesAre
  <2>5. M[p] = rest /\ \A r \in DOMAIN M : r # p => M[r] = side[r]
    <3> HIDE DEF rest
    <3> QED
      BY <1>1, <2>1
  <2>6. \A n \in Nat : n # p => Term(f, n) = Term(g, n)
    <3> HIDE DEF M
    <3> QED
      BY <2>4, <2>5 DEF Term
  <2>7. Term(f, p) = Quantity(side[p]) /\ Term(g, p) = Quantity(rest)
    <3> HIDE DEF M, rest
    <3> QED
      BY <2>4, <2>5 DEF Term
  <2>8. Volume(side) - Volume(M) = quantity
    <3>1. f \in Amounts
      BY Quantities
    <3>2. g \in Amounts
      <4> HIDE DEF M
      <4> QED
        BY <2>4, Quantities
    <3>3. SumOf(f) - SumOf(g) = Term(f, p) - Term(g, p)
      <4> HIDE DEF f, g
      <4> QED
        BY <1>1, <2>6, <3>1, <3>2, SumPoint
    <3>4. SumOf(f) = Volume(side) /\ SumOf(g) = Volume(M)
      BY DEF Volume
    <3> HIDE DEF f, g, M, rest
    <3>5. Quantity(side[p]) - (Quantity(side[p]) - quantity) = quantity
      BY <1>3
    <3> QED
      BY <1>3, <2>7, <3>3, <3>4, <3>5
  <2>9. \A r \in DOMAIN M, v \in W : M[r][v] <= side[r][v]
    <3> HIDE DEF M, rest
    <3>1. ASSUME NEW r \in DOMAIN M, NEW v \in W PROVE M[r][v] <= side[r][v]
      <4>1. CASE r = p
        BY <1>3, <2>5, <4>1
      <4>2. CASE r # p
        <5>1. M[r] = side[r] /\ side[r][v] \in Nat
          BY <1>4, <2>4, <2>5, <4>2
        <5> QED
          BY <5>1
      <4> QED
        BY <4>1, <4>2
    <3> QED
      BY <3>1
  <2>10. quantity # Quantity(side[p])
    <3> HIDE DEF rest
    <3> QED
      BY <1>3, <1>6
  <2> HIDE DEF M, rest
  <2> QED
    BY <2>4, <2>5, <2>8, <2>9, <2>10 DEF M
<1> HIDE DEF rest, M
<1> QED
  BY <1>5, <1>6 DEF M

-----------------------------------------------------------------------------
(* The rounds of _uncross *)

Apart(left) == \A b \in DOMAIN left.bids, a \in DOMAIN left.asks : b < a
Levels(left) == Cardinality(DOMAIN left.bids) + Cardinality(DOMAIN left.asks)
Within(W, side, rest) ==
    /\ DOMAIN rest \subseteq DOMAIN side
    /\ \A p \in DOMAIN rest, v \in W : rest[p][v] <= side[p][v]
Taken(side, rest) == {p \in DOMAIN side : p \notin DOMAIN rest \/ rest[p] # side[p]}

\* What a book is after any number of rounds.
Netted(W, bids, asks, left) ==
    /\ left \in [bids: Sides(W), asks: Sides(W)]
    /\ Within(W, bids, left.bids) /\ Within(W, asks, left.asks)
    /\ Volume(bids) - Volume(left.bids) = Volume(asks) - Volume(left.asks)
    /\ \A p \in Taken(bids, left.bids) :
           (\E a \in DOMAIN asks : a <= p) /\ \A q \in DOMAIN left.bids : q <= p
    /\ \A p \in Taken(asks, left.asks) :
           (\E b \in DOMAIN bids : b >= p) /\ \A q \in DOMAIN left.asks : q >= p

\* Nothing is done to a book whose sides do not cross.
LEMMA RoundOfApart ==
    ASSUME NEW W \in Names, NEW left \in [bids: Sides(W), asks: Sides(W)], Apart(left)
    PROVE  Round(left) = left
<1>1. CASE DOMAIN left.bids = {} \/ DOMAIN left.asks = {}
  BY <1>1 DEF Round
<1>2. CASE ~(DOMAIN left.bids = {} \/ DOMAIN left.asks = {})
  <2>1. /\ DOMAIN left.bids \in SUBSET Nat /\ IsFiniteSet(DOMAIN left.bids)
        /\ DOMAIN left.asks \in SUBSET Nat
    BY SidesAre
  <2>2. Max(DOMAIN left.bids) \in DOMAIN left.bids /\ Min(DOMAIN left.asks) \in DOMAIN left.asks
    BY <1>2, <2>1, Extremes
  <2>3. Max(DOMAIN left.bids) < Min(DOMAIN left.asks)
    BY <2>2 DEF Apart
  <2> QED
    BY <2>3 DEF Round
<1> QED
  BY <1>1, <1>2

\* Levels that are taken from stay the best of their side: what is within the
\* rest of a side is within the side, and what is new in Taken is the level p.
LEMMA WithinRest ==
    ASSUME NEW W \in Names, NEW side \in Sides(W), NEW rest \in Sides(W), NEW M \in Sides(W),
           NEW p \in DOMAIN rest,
           Within(W, side, rest), Within(W, rest, M),
           DOMAIN rest \ {p} \subseteq DOMAIN M,
           \A r \in DOMAIN M : r # p => M[r] = rest[r]
    PROVE  /\ Within(W, side, M)
           /\ Taken(side, M) \subseteq Taken(side, rest) \cup {p}
<1>1. /\ side \in [DOMAIN side -> [W -> Nat]]
      /\ rest \in [DOMAIN rest -> [W -> Nat]]
      /\ M \in [DOMAIN M -> [W -> Nat]]
  BY SidesAre
<1>2. DOMAIN M \subseteq DOMAIN rest /\ DOMAIN rest \subseteq DOMAIN side
  BY DEF Within
<1>3. ASSUME NEW r \in DOMAIN M, NEW v \in W PROVE M[r][v] <= side[r][v]
  <2>1. M[r][v] \in Nat /\ rest[r][v] \in Nat /\ side[r][v] \in Nat
    BY <1>1, <1>2
  <2>2. M[r][v] <= rest[r][v] /\ rest[r][v] <= side[r][v]
    BY <1>2 DEF Within
  <2> QED
    BY <2>1, <2>2
<1>4. ASSUME NEW r \in Taken(side, M), r # p PROVE r \in Taken(side, rest)
  <2>1. r \in DOMAIN side /\ (r \notin DOMAIN M \/ M[r] # side[r])
    BY DEF Taken
  <2>2. CASE r \in DOMAIN rest
    <3>1. r \in DOMAIN M
      BY <1>4, <2>2
    <3>2. M[r] = rest[r]
      BY <1>4, <3>1
    <3> QED
      BY <2>1, <3>1, <3>2 DEF Taken
  <2>3. CASE r \notin DOMAIN rest
    BY <2>1, <2>3 DEF Taken
  <2> QED
    BY <2>2, <2>3
<1> QED
  BY <1>2, <1>3, <1>4 DEF Within

\* A level less.
LEMMA FewerLevels ==
    ASSUME NEW W \in Names, NEW side \in Sides(W), NEW M \in Sides(W),
           DOMAIN M \subseteq DOMAIN side
    PROVE  /\ Cardinality(DOMAIN M) \in Nat /\ Cardinality(DOMAIN side) \in Nat
           /\ Cardinality(DOMAIN M) <= Cardinality(DOMAIN side)
           /\ \A p \in DOMAIN side :
                  p \notin DOMAIN M => Cardinality(DOMAIN M) < Cardinality(DOMAIN side)
<1>1. IsFiniteSet(DOMAIN side) /\ IsFiniteSet(DOMAIN M)
  BY SidesAre
<1>2. Cardinality(DOMAIN M) \in Nat /\ Cardinality(DOMAIN side) \in Nat
  BY <1>1, FS_CardinalityType
<1>3. Cardinality(DOMAIN M) <= Cardinality(DOMAIN side)
  BY <1>1, FS_Subset
<1>4. Cardinality(DOMAIN M) = Cardinality(DOMAIN side) => DOMAIN M = DOMAIN side
  BY <1>1, FS_Subset
<1>5. ASSUME NEW p \in DOMAIN side, p \notin DOMAIN M
      PROVE  Cardinality(DOMAIN M) < Cardinality(DOMAIN side)
  <2>1. Cardinality(DOMAIN M) # Cardinality(DOMAIN side)
    BY <1>4, <1>5
  <2> QED
    BY <1>2, <1>3, <2>1
<1> QED
  BY <1>2, <1>3, <1>5

\* A round of a book that crosses nets its best levels, and takes one away.
LEMMA RoundNets ==
    ASSUME NEW W \in Names, NEW bids \in Sides(W), NEW asks \in Sides(W),
           NEW left, Netted(W, bids, asks, left), ~Apart(left)
    PROVE  /\ Netted(W, bids, asks, Round(left))
           /\ Levels(Round(left)) < Levels(left)
           /\ Levels(Round(left)) \in Nat /\ Levels(left) \in Nat
<1> DEFINE B == left.bids
           A == left.asks
           b == Max(DOMAIN left.bids)
           a == Min(DOMAIN left.asks)
           matched == Min({Quantity(B[b]), Quantity(A[a])})
           MB == Matched(B, b, matched)
           MA == Matched(A, a, matched)
<1>1. B \in Sides(W) /\ A \in Sides(W)
  BY DEF Netted
<1>2. DOMAIN B \in SUBSET Nat /\ IsFiniteSet(DOMAIN B) /\ DOMAIN A \in SUBSET Nat
  BY <1>1, SidesAre
<1>3. PICK b0 \in DOMAIN B, a0 \in DOMAIN A : ~(b0 < a0)
  BY DEF Apart
<1>4. /\ b \in DOMAIN B /\ \A x \in DOMAIN B : x <= b
      /\ a \in DOMAIN A /\ \A x \in DOMAIN A : a <= x
  BY <1>2, <1>3, Extremes
<1>5. a \in Nat /\ b \in Nat /\ a <= b
  <2>1. a \in Nat /\ b \in Nat /\ a0 \in Nat /\ b0 \in Nat
    BY <1>2, <1>3, <1>4
  <2>2. a <= a0 /\ b0 <= b
    BY <1>3, <1>4
  <2> HIDE DEF a, b
  <2> QED
    BY <1>3, <2>1, <2>2
<1>6. Round(left) = [bids |-> MB, asks |-> MA]
  <2>1. ~(DOMAIN left.bids = {} \/ DOMAIN left.asks = {}) /\ ~(b < a)
    BY <1>3, <1>5
  <2> QED
    BY <2>1 DEF Round
<1>7. /\ matched \in Nat
      /\ matched <= Quantity(B[b]) /\ matched <= Quantity(A[a])
      /\ matched = Quantity(B[b]) \/ matched = Quantity(A[a])
  <2>1. Quantity(B[b]) \in Nat /\ Quantity(A[a]) \in Nat
    BY <1>1, <1>4, Quantities
  <2> DEFINE x == Quantity(B[b])
             y == Quantity(A[a])
  <2> HIDE DEF x, y
  <2>2. x \in Nat /\ y \in Nat
    BY <2>1 DEF x, y
  <2>3. Min({x, y}) = IF x <= y THEN x ELSE y
    BY <2>2, MinOfTwo
  <2>4. /\ Min({x, y}) \in Nat /\ Min({x, y}) <= x /\ Min({x, y}) <= y
        /\ Min({x, y}) = x \/ Min({x, y}) = y
    BY <2>2, <2>3
  <2> QED
    BY <2>4 DEF x, y
<1> HIDE DEF A, B, a, b, matched, MA, MB
<1>8. /\ MB \in Sides(W) /\ DOMAIN MB \subseteq DOMAIN B /\ DOMAIN B \ {b} \subseteq DOMAIN MB
      /\ \A r \in DOMAIN MB : /\ r # b => MB[r] = B[r]
                              /\ \A v \in W : MB[r][v] <= B[r][v]
      /\ Volume(B) - Volume(MB) = matched
      /\ matched = Quantity(B[b]) => b \notin DOMAIN MB
  BY <1>1, <1>4, <1>7, MatchedSide DEF MB
<1>9. /\ MA \in Sides(W) /\ DOMAIN MA \subseteq DOMAIN A /\ DOMAIN A \ {a} \subseteq DOMAIN MA
      /\ \A r \in DOMAIN MA : /\ r # a => MA[r] = A[r]
                              /\ \A v \in W : MA[r][v] <= A[r][v]
      /\ Volume(A) - Volume(MA) = matched
      /\ matched = Quantity(A[a]) => a \notin DOMAIN MA
  BY <1>1, <1>4, <1>7, MatchedSide DEF MA
<1>10. Within(W, bids, B) /\ Within(W, asks, A)
  BY DEF Netted, A, B
<1>11. Within(W, bids, MB) /\ Taken(bids, MB) \subseteq Taken(bids, B) \cup {b}
  <2>1. Within(W, B, MB)
    BY <1>8 DEF Within
  <2> QED
    BY <1>1, <1>4, <1>8, <1>10, <2>1, WithinRest
<1>12. Within(W, asks, MA) /\ Taken(asks, MA) \subseteq Taken(asks, A) \cup {a}
  <2>1. Within(W, A, MA)
    BY <1>9 DEF Within
  <2> QED
    BY <1>1, <1>4, <1>9, <1>10, <2>1, WithinRest
<1>13. Volume(bids) - Volume(MB) = Volume(asks) - Volume(MA)
  <2>1. /\ Volume(bids) \in Nat /\ Volume(asks) \in Nat /\ Volume(B) \in Nat
        /\ Volume(A) \in Nat /\ Volume(MA) \in Nat /\ Volume(MB) \in Nat
    BY <1>1, <1>8, <1>9, Quantities
  <2>2. Volume(bids) - Volume(B) = Volume(asks) - Volume(A)
    BY DEF Netted, A, B
  <2> QED
    BY <1>7, <1>8, <1>9, <2>1, <2>2
<1>14. ASSUME NEW p \in Taken(bids, MB)
       PROVE  (\E x \in DOMAIN asks : x <= p) /\ \A q \in DOMAIN MB : q <= p
  <2>1. CASE p = b
    <3>1. a \in DOMAIN asks
      BY <1>4, <1>10 DEF Within
    <3> QED
      BY <1>4, <1>5, <1>8, <2>1, <3>1
  <2>2. CASE p \in Taken(bids, B)
    <3>1. (\E x \in DOMAIN asks : x <= p) /\ \A q \in DOMAIN B : q <= p
      BY <2>2 DEF Netted, B
    <3> QED
      BY <1>8, <3>1
  <2> QED
    BY <1>11, <2>1, <2>2
<1>15. ASSUME NEW p \in Taken(asks, MA)
       PROVE  (\E x \in DOMAIN bids : x >= p) /\ \A q \in DOMAIN MA : q >= p
  <2>1. CASE p = a
    <3>1. b \in DOMAIN bids
      BY <1>4, <1>10 DEF Within
    <3>2. b >= a
      BY <1>5
    <3>3. \A q \in DOMAIN MA : q >= a
      <4> SUFFICES ASSUME NEW q \in DOMAIN MA PROVE q >= a
        OBVIOUS
      <4>1. q \in DOMAIN A /\ q \in Nat /\ a <= q
        BY <1>2, <1>4, <1>9
      <4> QED
        BY <1>5, <4>1
    <3> QED
      BY <2>1, <3>1, <3>2, <3>3
  <2>2. CASE p \in Taken(asks, A)
    <3>1. (\E x \in DOMAIN bids : x >= p) /\ \A q \in DOMAIN A : q >= p
      BY <2>2 DEF Netted, A
    <3> QED
      BY <1>9, <3>1
  <2> QED
    BY <1>12, <2>1, <2>2
<1>16. Netted(W, bids, asks, Round(left))
  <2> DEFINE next == [bids |-> MB, asks |-> MA]
  <2>1. next.bids = MB /\ next.asks = MA /\ next \in [bids: Sides(W), asks: Sides(W)]
    BY <1>8, <1>9
  <2> HIDE DEF next
  <2>2. Netted(W, bids, asks, next)
    BY <1>11, <1>12, <1>13, <1>14, <1>15, <2>1 DEF Netted
  <2> QED
    BY <1>6, <2>2 DEF next
<1>17. Levels(Round(left)) < Levels(left) /\ Levels(Round(left)) \in Nat /\ Levels(left) \in Nat
  <2> DEFINE cB == Cardinality(DOMAIN B)
             cA == Cardinality(DOMAIN A)
             cMB == Cardinality(DOMAIN MB)
             cMA == Cardinality(DOMAIN MA)
  <2>1. cMB \in Nat /\ cB \in Nat /\ cMB <= cB /\ (b \notin DOMAIN MB => cMB < cB)
    BY <1>1, <1>4, <1>8, FewerLevels
  <2>2. cMA \in Nat /\ cA \in Nat /\ cMA <= cA /\ (a \notin DOMAIN MA => cMA < cA)
    BY <1>1, <1>4, <1>9, FewerLevels
  <2>3. Levels(Round(left)) = cMB + cMA
    BY <1>6 DEF Levels
  <2>4. Levels(left) = cB + cA
    BY DEF Levels, A, B
  <2>5. cMB < cB \/ cMA < cA
    BY <1>7, <1>8, <1>9, <2>1, <2>2
  <2> HIDE DEF cB, cA, cMB, cMA
  <2> QED
    BY <2>1, <2>2, <2>3, <2>4, <2>5
<1> QED
  BY <1>16, <1>17

\* After as many rounds as there are levels, the sides do not cross.
LEMMA UncrossNets ==
    ASSUME NEW W \in Names, NEW bids \in Sides(W), NEW asks \in Sides(W)
    PROVE  Netted(W, bids, asks, Uncross(bids, asks)) /\ Apart(Uncross(bids, asks))
<1> DEFINE start == [bids |-> bids, asks |-> asks]
           V == {left \in [bids: Sides(W), asks: Sides(W)] : Netted(W, bids, asks, left)}
           step == [p \in Nat \X V |-> Round(p[2])]
           Rounds(h) == [n \in Nat |-> IF n = 0 THEN [bids |-> bids, asks |-> asks]
                                       ELSE Round(h[n - 1])]
           N == Cardinality(DOMAIN bids) + Cardinality(DOMAIN asks)
<1>1. \A left \in V : Round(left) \in V
  <2> SUFFICES ASSUME NEW left \in V PROVE Round(left) \in V
    OBVIOUS
  <2>1. CASE Apart(left)
    <3>1. Round(left) = left
      BY <2>1, RoundOfApart
    <3> QED
      BY <3>1
  <2>2. CASE ~Apart(left)
    <3>1. Netted(W, bids, asks, left)
      OBVIOUS
    <3>2. Netted(W, bids, asks, Round(left))
      BY <2>2, <3>1, RoundNets
    <3>3. Round(left) \in [bids: Sides(W), asks: Sides(W)]
      BY <3>2 DEF Netted
    <3> QED
      BY <3>2, <3>3
  <2> QED
    BY <2>1, <2>2
<1>2. start \in V
  <2>1. start.bids = bids /\ start.asks = asks /\ start \in [bids: Sides(W), asks: Sides(W)]
    OBVIOUS
  <2> HIDE DEF start
  <2>2. bids \in [DOMAIN bids -> [W -> Nat]] /\ asks \in [DOMAIN asks -> [W -> Nat]]
    BY SidesAre
  <2>3. /\ \A p \in DOMAIN bids, v \in W : bids[p][v] \in Nat
        /\ \A p \in DOMAIN asks, v \in W : asks[p][v] \in Nat
    BY <2>2
  <2>4. Within(W, bids, bids) /\ Within(W, asks, asks)
    BY <2>3 DEF Within
  <2>5. Taken(bids, bids) = {} /\ Taken(asks, asks) = {}
    BY DEF Taken
  <2>6. Volume(bids) - Volume(bids) = Volume(asks) - Volume(asks)
    <3>1. Volume(bids) \in Nat /\ Volume(asks) \in Nat
      BY Quantities
    <3> QED
      BY <3>1
  <2>7. Netted(W, bids, asks, start)
    BY <2>1, <2>4, <2>5, <2>6 DEF Netted
  <2> QED
    BY <2>1, <2>7
<1>3. step \in Steps(V)
  <2> HIDE DEF V
  <2> QED
    BY <1>1 DEF Steps
<1>4. PICK g : Recurs(V, start, step, g)
  <2> HIDE DEF V, start, step
  <2> QED
    BY <1>2, <1>3, Recursion
<1> HIDE DEF V
<1>5. g \in [Nat -> V] /\ g[0] = start /\ \A n \in Nat \ {0} : g[n] = Round(g[n - 1])
  <2>1. g \in [Nat -> V] /\ g[0] = start /\ \A n \in Nat \ {0} : g[n] = step[<<n, g[n - 1]>>]
    BY <1>4 DEF Recurs
  <2>2. ASSUME NEW n \in Nat \ {0} PROVE g[n] = Round(g[n - 1])
    <3>1. <<n, g[n - 1]>> \in Nat \X V
      <4>1. n - 1 \in Nat /\ n \in Nat
        OBVIOUS
      <4>2. g[n - 1] \in V
        BY <2>1, <4>1
      <4> QED
        BY <4>1, <4>2
    <3>2. step[<<n, g[n - 1]>>] = Round(g[n - 1])
      BY <3>1
    <3> QED
      BY <2>1, <3>2
  <2> QED
    BY <2>1, <2>2
<1>6. g = Rounds(g)
  <2>1. g = [n \in Nat |-> g[n]]
    BY <1>5
  <2>2. \A n \in Nat : g[n] = IF n = 0 THEN [bids |-> bids, asks |-> asks] ELSE Round(g[n - 1])
    BY <1>5
  <2> QED
    BY <2>1, <2>2
<1>7. Uncross(bids, asks) = (CHOOSE h : h = Rounds(h))[N]
  BY DEF Uncross
<1> DEFINE after == CHOOSE h : h = Rounds(h)
<1>8. after = Rounds(after)
  <2> HIDE DEF Rounds
  <2> QED
    BY <1>6
<1>9. after[0] = start /\ \A n \in Nat \ {0} : after[n] = Round(after[n - 1])
  <2> HIDE DEF after
  <2>1. \A n \in Nat : after[n] = IF n = 0 THEN [bids |-> bids, asks |-> asks]
                                  ELSE Round(after[n - 1])
    BY <1>8
  <2> QED
    BY <2>1
<1> HIDE DEF after, Rounds, start
<1> DEFINE S == {n \in Nat : /\ after[n] \in V
                             /\ Apart(after[n]) \/ Levels(after[n]) + n <= N}
<1>10. N \in Nat
  <2>1. IsFiniteSet(DOMAIN bids) /\ IsFiniteSet(DOMAIN asks)
    BY SidesAre
  <2> QED
    BY <2>1, FS_CardinalityType
<1>11. 0 \in S
  <2>1. after[0] \in V
    BY <1>2, <1>9
  <2>2. Levels(after[0]) = N
    BY <1>9 DEF Levels, start
  <2> HIDE DEF N
  <2>3. Levels(after[0]) + 0 <= N
    BY <1>10, <2>2
  <2> QED
    BY <2>1, <2>3
<1> HIDE DEF N
<1>12. ASSUME NEW n \in Nat, n \in S PROVE n + 1 \in S
  <2>1. n + 1 \in Nat \ {0} /\ (n + 1) - 1 = n /\ n + 1 \in Nat
    OBVIOUS
  <2>2. after[n + 1] = Round(after[n]) /\ after[n] \in V
    BY <1>9, <1>12, <2>1
  <2>3. after[n + 1] \in V
    BY <1>1, <2>2
  <2>4. Netted(W, bids, asks, after[n]) /\ after[n] \in [bids: Sides(W), asks: Sides(W)]
    BY <2>2 DEF V
  <2>5. CASE Apart(after[n])
    <3>1. after[n + 1] = after[n]
      BY <2>2, <2>4, <2>5, RoundOfApart
    <3>2. Apart(after[n + 1])
      BY <2>5, <3>1
    <3> QED
      BY <2>1, <2>3, <3>2
  <2>6. CASE ~Apart(after[n])
    <3>1. /\ Levels(after[n + 1]) < Levels(after[n])
          /\ Levels(after[n + 1]) \in Nat /\ Levels(after[n]) \in Nat
      BY <2>2, <2>4, <2>6, RoundNets
    <3>2. Levels(after[n]) + n <= N
      BY <1>12, <2>6
    <3>3. Levels(after[n + 1]) + (n + 1) <= N
      BY <1>10, <3>1, <3>2
    <3> QED
      BY <2>1, <2>3, <3>3
  <2> QED
    BY <2>5, <2>6
<1>13. N \in S
  <2> HIDE DEF S
  <2> QED
    BY <1>10, <1>11, <1>12, AllNaturals
<1>14. after[N] \in V /\ (Apart(after[N]) \/ Levels(after[N]) + N <= N)
  BY <1>13
<1>15. Netted(W, bids, asks, after[N]) /\ after[N] \in [bids: Sides(W), asks: Sides(W)]
  BY <1>14 DEF V
<1>16. Apart(after[N])
  <2> SUFFICES ASSUME Levels(after[N]) + N <= N PROVE Apart(after[N])
    BY <1>14
  <2> DEFINE left == after[N]
  <2>1. left.bids \in Sides(W)
    BY <1>15
  <2>2. left.asks \in Sides(W)
    BY <1>15
  <2> HIDE DEF left
  <2>3. IsFiniteSet(DOMAIN left.bids) /\ IsFiniteSet(DOMAIN left.asks)
    BY <2>1, <2>2, SidesAre
  <2>4. Cardinality(DOMAIN left.bids) \in Nat /\ Cardinality(DOMAIN left.asks) \in Nat
    BY <2>3, FS_CardinalityType
  <2>5. Levels(left) + N <= N
    BY DEF left
  <2>6. Cardinality(DOMAIN left.bids) = 0
    BY <1>10, <2>4, <2>5 DEF Levels
  <2>7. DOMAIN left.bids = {}
    BY <2>3, <2>6, FS_EmptySet
  <2>8. Apart(left)
    BY <2>7 DEF Apart
  <2> QED
    BY <2>8 DEF left
<1>17. Uncross(bids, asks) = after[N]
  BY <1>7 DEF after
<1> QED
  BY <1>15, <1>16, <1>17

-----------------------------------------------------------------------------
(* The book of the venues whose books are fresh *)

LEMMA ImageFinite ==
    ASSUME NEW S, IsFiniteSet(S), NEW f, DOMAIN f = S
    PROVE  IsFiniteSet({f[x] : x \in S})
<1> DEFINE T == {f[x] : x \in S}
           h == [x \in S |-> f[x]]
<1>1. h \in [S -> T] /\ \A t \in T : \E x \in S : h[x] = t
  OBVIOUS
<1> HIDE DEF h
<1>2. h \in Surjection(S, T)
  <2> HIDE DEF T
  <2> QED
    BY <1>1 DEF Surjection
<1>3. IsFiniteSet(T)
  <2> HIDE DEF T
  <2> QED
    BY <1>2, FS_Surjection
<1> QED
  BY <1>3

\* An effective price is a price.
LEMMA EffectiveType ==
    ASSUME NEW p \in Nat, NEW v \in DOMAIN Fee, NEW s \in BookSide
    PROVE  Effective(p, v, s) \in Nat
<1>1. Fee[v] \in Nat /\ 100 - Fee[v] \in Nat /\ 100 + Fee[v] \in Nat
  BY BookConstantsOK
<1>2. PriceTick \in Nat \ {0}
  BY BookConstantsOK
<1>3. \A x, y \in Nat : x * y \in Nat
  OBVIOUS
<1>4. \A x \in Nat, y \in Nat \ {0} : x \div y \in Nat
  OBVIOUS
<1>5. 100 * PriceTick \in Nat \ {0}
  BY <1>2
<1>6. p * (100 - Fee[v]) \in Nat
  BY <1>1, <1>3
<1>7. p * (100 + Fee[v]) \in Nat
  BY <1>1, <1>3
<1> DEFINE x == p * (100 + Fee[v])
           y == 100 * PriceTick
<1>8. p * (100 + Fee[v]) + 100 * PriceTick - 1 \in Nat
  <2>1. x \in Nat /\ y \in Nat \ {0}
    BY <1>5, <1>7
  <2> HIDE DEF x, y
  <2>2. x + y - 1 \in Nat
    BY <2>1
  <2> QED
    BY <2>2 DEF x, y
<1>9. (p * (100 - Fee[v])) \div (100 * PriceTick) \in Nat
  BY <1>4, <1>5, <1>6
<1>10. (p * (100 + Fee[v]) + 100 * PriceTick - 1) \div (100 * PriceTick) \in Nat
  BY <1>4, <1>5, <1>8
<1>11. ((p * (100 - Fee[v])) \div (100 * PriceTick)) * PriceTick \in Nat
  BY <1>2, <1>3, <1>9
<1>12. ((p * (100 + Fee[v]) + 100 * PriceTick - 1) \div (100 * PriceTick)) * PriceTick \in Nat
  BY <1>2, <1>3, <1>10
<1> QED
  BY <1>11, <1>12 DEF Effective

\* The venues with a fresh book are known, and each has a book it may have.
BooksOK ==
    /\ DOMAIN books \subseteq DOMAIN Fee
    /\ \A v \in DOMAIN books : books[v] \in Quotes[v]

\* _aggregate_side makes a side of what the venues quote.
LEMMA AggregateSideType ==
    ASSUME BooksOK, NEW s \in BookSide
    PROVE  /\ DOMAIN books \in Names
           /\ AggregateSide(books, s) \in Sides(DOMAIN books)
<1> DEFINE W == DOMAIN books
           at(v, p) == {q \in DOMAIN books[v][s] : Effective(q, v, s) = p}
           of == [v \in W |-> {Effective(q, v, s) : q \in DOMAIN books[v][s]}]
           prices == UNION {of[v] : v \in W}
           level(p) == [v \in W |-> SumOf([q \in at(v, p) |-> books[v][s][q]])]
<1>1. W \in Names
  <2>1. IsFiniteSet(W) /\ W \subseteq Nat \ {0}
    BY BookConstantsOK, FS_Subset DEF BooksOK
  <2> QED
    BY <2>1 DEF Names
<1>2. ASSUME NEW v \in W
      PROVE  /\ v \in DOMAIN Fee
             /\ IsFiniteSet(DOMAIN books[v][s]) /\ DOMAIN books[v][s] \subseteq Nat
             /\ books[v][s] \in [DOMAIN books[v][s] -> Nat \ {0}]
  <2>1. v \in DOMAIN Fee /\ books[v] \in Quotes[v]
    BY DEF BooksOK
  <2> QED
    BY <2>1, BookConstantsOK
<1>3. ASSUME NEW v \in W
      PROVE  of[v] \subseteq Nat /\ IsFiniteSet(of[v])
  <2> DEFINE D == DOMAIN books[v][s]
             e == [q \in D |-> Effective(q, v, s)]
  <2>1. \A q \in D : Effective(q, v, s) \in Nat
    BY <1>2, EffectiveType
  <2>2. of[v] = {e[q] : q \in D}
    OBVIOUS
  <2>3. IsFiniteSet(D) /\ DOMAIN e = D
    BY <1>2
  <2>4. IsFiniteSet({e[q] : q \in D})
    <3> HIDE DEF D, e
    <3> QED
      BY <2>3, ImageFinite
  <2> QED
    BY <2>1, <2>2, <2>4
<1>4. prices \in SUBSET Nat /\ IsFiniteSet(prices)
  <2>1. DOMAIN of = W
    OBVIOUS
  <2>2. IsFiniteSet(W)
    BY <1>1 DEF Names
  <2> HIDE DEF of, W
  <2>3. IsFiniteSet({of[v] : v \in W})
    BY <2>1, <2>2, ImageFinite
  <2>4. \A T \in {of[v] : v \in W} : IsFiniteSet(T) /\ T \subseteq Nat
    BY <1>3
  <2>5. IsFiniteSet(UNION {of[v] : v \in W})
    BY <2>3, <2>4, FS_UNION
  <2> QED
    BY <2>4, <2>5
<1>5. ASSUME NEW p \in prices PROVE level(p) \in [W -> Nat]
  <2>1. ASSUME NEW v \in W PROVE SumOf([q \in at(v, p) |-> books[v][s][q]]) \in Nat
    <3> DEFINE f == [q \in at(v, p) |-> books[v][s][q]]
    <3>1. at(v, p) \subseteq DOMAIN books[v][s]
      OBVIOUS
    <3>2. at(v, p) \in SUBSET Nat /\ IsFiniteSet(at(v, p))
      <4> HIDE DEF at
      <4> QED
        BY <1>2, <3>1, FS_Subset
    <3>3. f \in [at(v, p) -> Nat]
      <4> HIDE DEF at
      <4> QED
        BY <1>2, <3>1
    <3>4. f \in Amounts /\ DOMAIN f = at(v, p)
      <4> HIDE DEF f, at
      <4> QED
        BY <3>2, <3>3, AmountsAre
    <3> HIDE DEF f, at
    <3>5. PICK m \in Nat : \A x \in DOMAIN f : x <= m
      BY <3>2, <3>4, Bounded
    <3> QED
      BY <3>4, <3>5, SumOfIs DEF f
  <2> QED
    BY <2>1
<1>6. AggregateSide(books, s) = [p \in prices |-> level(p)]
  BY DEF AggregateSide
<1>7. AggregateSide(books, s) \in [prices -> [W -> Nat]]
  <2> HIDE DEF level, prices, W
  <2> QED
    BY <1>5, <1>6
<1>8. AggregateSide(books, s) \in Sides(W)
  <2> HIDE DEF prices, W
  <2> QED
    BY <1>1, <1>4, <1>7, SidesAre
<1> QED
  BY <1>1, <1>8

LEMMA InitBooksOK == BookInit => BooksOK
<1>1. DOMAIN <<>> = {}
  OBVIOUS
<1> QED
  BY <1>1 DEF BookInit, BooksOK

LEMMA NextBooksOK == BooksOK /\ [BookNext]_books => BooksOK'
<1> SUFFICES ASSUME BooksOK, [BookNext]_books PROVE BooksOK'
  OBVIOUS
<1>1. ASSUME NEW v \in DOMAIN Fee, BookExpires(v) PROVE BooksOK'
  BY <1>1 DEF BookExpires, BooksOK
<1>2. ASSUME NEW v \in DOMAIN Fee, NEW q \in Quotes[v], BookArrives(v, q) PROVE BooksOK'
  BY <1>2 DEF BookArrives, BooksOK
<1>3. CASE BooksLost
  <2>1. DOMAIN <<>> = {}
    OBVIOUS
  <2> QED
    BY <1>3, <2>1 DEF BooksLost, BooksOK
<1>4. CASE UNCHANGED books
  BY <1>4 DEF BooksOK
<1> QED
  BY <1>1, <1>2, <1>3, <1>4 DEF BookNext

\* What _uncross leaves of the sides is what the property says.
LEMMA BooksNetted == BooksOK => NetsCrossed
<1> SUFFICES ASSUME BooksOK PROVE NetsCrossed
  OBVIOUS
<1> DEFINE W == DOMAIN books
           bids == AggregateSide(books, "bids")
           asks == AggregateSide(books, "asks")
           left == BookSnapshot(books)
<1>1. W \in Names /\ bids \in Sides(W) /\ asks \in Sides(W)
  BY AggregateSideType DEF BookSide
<1>2. left = Uncross(bids, asks)
  BY DEF BookSnapshot
<1>3. Netted(W, bids, asks, left) /\ Apart(left)
  <2> HIDE DEF W, bids, asks, left
  <2> QED
    BY <1>1, <1>2, UncrossNets
<1> HIDE DEF bids, asks, left
<1>4. \A b \in DOMAIN left.bids, a \in DOMAIN left.asks : b < a
  BY <1>3 DEF Apart
<1>5. /\ Volume(bids) - Volume(left.bids) = Volume(asks) - Volume(left.asks)
      /\ \A p \in DOMAIN left.bids, v \in W : left.bids[p][v] <= bids[p][v]
      /\ \A p \in DOMAIN left.asks, v \in W : left.asks[p][v] <= asks[p][v]
  BY <1>3 DEF Netted, Within
<1>6. /\ \A p \in Taken(bids, left.bids) :
             (\E a \in DOMAIN asks : a <= p) /\ \A q \in DOMAIN left.bids : q <= p
      /\ \A p \in Taken(asks, left.asks) :
             (\E b \in DOMAIN bids : b >= p) /\ \A q \in DOMAIN left.asks : q >= p
  BY <1>3 DEF Netted
<1> QED
  BY <1>4, <1>5, <1>6 DEF NetsCrossed, Taken, bids, asks, left

\* The composite book, of whichever venues are fresh, is never crossed, and what
\* was netted was taken from both sides alike, the best prices first, and from no
\* venue more than it quoted (book_snapshot).
THEOREM BookIsNetted == BookSpec => []NetsCrossed
<1>1. BookInit => BooksOK
  BY InitBooksOK
<1>2. BooksOK /\ [BookNext]_books => BooksOK'
  BY NextBooksOK
<1>3. BooksOK => NetsCrossed
  BY BooksNetted
<1> QED
  BY <1>1, <1>2, <1>3, PTL DEF BookSpec

-----------------------------------------------------------------------------
(* Windows of time *)

\* The window of a time: it starts at a multiple, and the time is within it.
LEMMA WindowIs ==
    ASSUME NEW x \in Nat, NEW c \in Nat \ {0}
    PROVE  /\ Window(x, c) \in Nat /\ Window(x, c) <= x /\ x < Window(x, c) + c
           /\ Window(x, c) = (x \div c) * c /\ x \div c \in Nat
<1>1. x \div c \in Nat /\ x % c \in 0 .. c - 1 /\ x = (x \div c) * c + (x % c)
  OBVIOUS
<1> DEFINE q == x \div c
<1>2. q \in Nat
  BY <1>1
<1> HIDE DEF q
<1>3. q * c \in Nat
  BY <1>2
<1>4. Window(x, c) = q * c
  BY DEF Window, q
<1>5. x = q * c + (x % c)
  BY <1>1 DEF q
<1> DEFINE w == q * c
<1>6. w \in Nat /\ x = w + (x % c)
  BY <1>3, <1>5
<1> HIDE DEF w
<1>7. w <= x /\ x < w + c
  BY <1>1, <1>6
<1> QED
  BY <1>2, <1>4, <1>6, <1>7 DEF w, q

\* A window is known by where it starts.
LEMMA WindowUnique ==
    ASSUME NEW x \in Nat, NEW c \in Nat \ {0}, NEW k \in Nat, k * c <= x, x < k * c + c
    PROVE  Window(x, c) = k * c
<1> DEFINE q == x \div c
<1>1. q \in Nat /\ Window(x, c) = q * c /\ q * c <= x /\ x < q * c + c
  BY WindowIs
<1> HIDE DEF q
<1>2. ~(q < k)
  <2> SUFFICES ASSUME q < k PROVE FALSE
    OBVIOUS
  <2>1. q + 1 <= k
    BY <1>1
  <2>2. (q + 1) * c <= k * c
    BY <1>1, <2>1
  <2>3. (q + 1) * c = q * c + c
    BY <1>1
  <2>4. q * c \in Nat /\ k * c \in Nat
    BY <1>1
  <2> QED
    BY <1>1, <2>2, <2>3, <2>4
<1>3. ~(k < q)
  <2> SUFFICES ASSUME k < q PROVE FALSE
    OBVIOUS
  <2>1. k + 1 <= q
    BY <1>1
  <2>2. (k + 1) * c <= q * c
    BY <1>1, <2>1
  <2>3. (k + 1) * c = k * c + c
    OBVIOUS
  <2>4. q * c \in Nat /\ k * c \in Nat
    BY <1>1
  <2> QED
    BY <1>1, <2>2, <2>3, <2>4
<1>4. q = k
  BY <1>1, <1>2, <1>3
<1> QED
  BY <1>1, <1>4

\* A time's bucket is within its window, when a window is so many buckets.
LEMMA WindowOfBucket ==
    ASSUME NEW x \in Nat, NEW c \in Nat \ {0}, c % Interval = 0
    PROVE  Bucket(x) \in Nat /\ Window(Bucket(x), c) = Window(x, c)
<1> DEFINE b == Bucket(x)
           w == Window(x, c)
           j == x \div Interval
           q == x \div c
           k == c \div Interval
<1>1. Interval \in Nat \ {0}
  BY IntervalOK
<1>2. Bucket(x) = Window(x, Interval)
  BY DEF Bucket, Window
<1>3. b \in Nat /\ b <= x /\ x < b + Interval /\ b = j * Interval /\ j \in Nat
  BY <1>1, <1>2, WindowIs
<1>4. w \in Nat /\ w <= x /\ x < w + c /\ w = q * c /\ q \in Nat
  BY WindowIs
<1>5. k \in Nat /\ c = k * Interval
  BY <1>1
<1> HIDE DEF b, w, j, q, k
<1>6. w = (q * k) * Interval /\ q * k \in Nat
  <2>1. q * (k * Interval) = (q * k) * Interval
    BY <1>1, <1>4, <1>5
  <2> QED
    BY <1>4, <1>5, <2>1
<1>7. w <= b
  <2> DEFINE m == q * k
  <2>1. m \in Nat /\ w = m * Interval
    BY <1>6
  <2> HIDE DEF m
  <2> SUFFICES ASSUME ~(m <= j) PROVE FALSE
    <3>1. m <= j => m * Interval <= j * Interval
      BY <1>1, <1>3, <2>1
    <3> QED
      BY <1>3, <2>1, <3>1
  <2>2. j + 1 <= m
    BY <1>3, <2>1
  <2>3. (j + 1) * Interval <= m * Interval
    BY <1>1, <1>3, <2>1, <2>2
  <2>4. (j + 1) * Interval = j * Interval + Interval
    BY <1>1, <1>3
  <2> QED
    BY <1>1, <1>3, <1>4, <2>1, <2>3, <2>4
<1>8. b < w + c
  BY <1>3, <1>4
<1>9. Window(b, c) = w
  <2>1. q * c <= b /\ b < q * c + c
    BY <1>4, <1>7, <1>8
  <2>2. Window(b, c) = q * c
    BY <1>3, <1>4, <2>1, WindowUnique
  <2> QED
    BY <1>4, <2>2
<1> QED
  BY <1>3, <1>9 DEF b, w

\* What is in an earlier bucket is earlier.
LEMMA BucketOrder ==
    ASSUME NEW x \in Nat, NEW y \in Nat, Bucket(x) < Bucket(y)
    PROVE  x < y
<1>1. Interval \in Nat \ {0}
  BY IntervalOK
<1> DEFINE i == x \div Interval
           j == y \div Interval
<1>2. /\ i \in Nat /\ Bucket(x) = i * Interval /\ x < i * Interval + Interval
      /\ j \in Nat /\ Bucket(y) = j * Interval /\ j * Interval <= y
  BY <1>1, WindowIs DEF Bucket, Window
<1> HIDE DEF i, j
<1>3. i < j
  <2> SUFFICES ASSUME j <= i PROVE FALSE
    BY <1>2
  <2>1. j * Interval <= i * Interval
    BY <1>1, <1>2
  <2>2. j * Interval \in Nat /\ i * Interval \in Nat
    BY <1>1, <1>2
  <2> QED
    BY <1>2, <2>1, <2>2
<1>4. (i + 1) * Interval <= j * Interval
  BY <1>1, <1>2, <1>3
<1>5. (i + 1) * Interval = i * Interval + Interval
  BY <1>1, <1>2
<1>6. i * Interval \in Nat /\ j * Interval \in Nat
  BY <1>1, <1>2
<1> QED
  BY <1>1, <1>2, <1>4, <1>5, <1>6

-----------------------------------------------------------------------------
(* Sums of parts *)

\* f, of the numbers of I alone.
Limit(f, I) == [i \in I |-> f[i]]

LEMMA SumNat ==
    ASSUME NEW f \in Amounts
    PROVE  SumOf(f) \in Nat
<1>1. PICK m \in Nat : \A x \in DOMAIN f : x <= m
  BY AmountsAre, Bounded
<1> QED
  BY <1>1, SumOfIs

LEMMA LimitAmounts ==
    ASSUME NEW f \in Amounts, NEW I \in SUBSET DOMAIN f
    PROVE  /\ Limit(f, I) \in Amounts /\ DOMAIN Limit(f, I) = I
           /\ \A i \in I : Limit(f, I)[i] = f[i]
           /\ SumOf(Limit(f, I)) \in Nat
<1>1. DOMAIN f \in SUBSET Nat /\ IsFiniteSet(DOMAIN f) /\ f \in [DOMAIN f -> Nat]
  BY AmountsAre
<1>2. I \in SUBSET Nat /\ IsFiniteSet(I)
  BY <1>1, FS_Subset
<1>3. Limit(f, I) \in [I -> Nat]
  BY <1>1 DEF Limit
<1>4. Limit(f, I) \in Amounts
  BY <1>2, <1>3, AmountsAre
<1> QED
  BY <1>4, SumNat DEF Limit

\* One number more.
LEMMA SumAdd ==
    ASSUME NEW f \in Amounts, NEW I \in SUBSET DOMAIN f, NEW p \in DOMAIN f, p \notin I
    PROVE  SumOf(Limit(f, I \cup {p})) = SumOf(Limit(f, I)) + f[p]
<1> DEFINE g == Limit(f, I \cup {p})
           h == Limit(f, I)
<1>1. /\ g \in Amounts /\ DOMAIN g = I \cup {p} /\ \A i \in I \cup {p} : g[i] = f[i]
      /\ SumOf(g) \in Nat
  BY LimitAmounts
<1>2. /\ h \in Amounts /\ DOMAIN h = I /\ \A i \in I : h[i] = f[i]
      /\ SumOf(h) \in Nat
  BY LimitAmounts
<1>3. p \in Nat /\ f[p] \in Nat
  BY AmountsAre
<1> HIDE DEF g, h
<1>4. \A n \in Nat : n # p => Term(g, n) = Term(h, n)
  BY <1>1, <1>2 DEF Term
<1>5. Term(g, p) = f[p] /\ Term(h, p) = 0
  BY <1>1, <1>2 DEF Term
<1>6. SumOf(g) - SumOf(h) = Term(g, p) - Term(h, p)
  BY <1>1, <1>2, <1>3, <1>4, SumPoint
<1> QED
  BY <1>1, <1>2, <1>3, <1>5, <1>6 DEF g, h

\* A sum is at least each of its numbers.
LEMMA SumAtLeast ==
    ASSUME NEW f \in Amounts, NEW p \in DOMAIN f
    PROVE  f[p] <= SumOf(f)
<1> DEFINE I == DOMAIN f \ {p}
<1>1. I \in SUBSET DOMAIN f /\ p \notin I /\ I \cup {p} = DOMAIN f
  OBVIOUS
<1>2. Limit(f, I \cup {p}) = f
  BY <1>1, AmountsAre DEF Limit
<1> HIDE DEF I
<1>3. SumOf(Limit(f, I)) \in Nat /\ f[p] \in Nat
  BY <1>1, LimitAmounts, AmountsAre
<1>4. SumOf(f) = SumOf(Limit(f, I)) + f[p]
  BY <1>1, <1>2, SumAdd
<1> QED
  BY <1>3, <1>4

\* Nothing sums to nothing.
LEMMA SumZero ==
    ASSUME NEW f \in Amounts, \A i \in DOMAIN f : f[i] = 0
    PROVE  SumOf(f) = 0
<1> DEFINE g == Limit(f, {})
<1>1. g \in Amounts /\ DOMAIN g = {} /\ SumOf(g) = 0
  BY LimitAmounts DEF SumOf
<1> HIDE DEF g
<1>2. \A n \in Nat : Term(f, n) = 0 /\ Term(g, n) = 0
  BY <1>1 DEF Term
<1>3. 0 \in Nat /\ \A n \in Nat : n # 0 => Term(f, n) = Term(g, n)
  BY <1>2
<1>4. SumOf(f) - SumOf(g) = Term(f, 0) - Term(g, 0)
  BY <1>1, <1>3, SumPoint
<1>5. SumOf(f) \in Nat
  BY SumNat
<1> QED
  BY <1>1, <1>2, <1>4, <1>5

\* A sum is the sum of the sums of its groups.
SumsBy(f, key, K) == [k \in K |-> SumOf(Limit(f, {i \in DOMAIN f : key[i] = k}))]

LEMMA SumGroups ==
    ASSUME NEW f \in Amounts, NEW K \in SUBSET Nat, IsFiniteSet(K), NEW key \in [DOMAIN f -> K]
    PROVE  SumOf(f) = SumOf(SumsBy(f, key, K))
<1> DEFINE J(n) == {i \in DOMAIN f : i < n}
           In1(n, k) == {i \in J(n) : key[i] = k}
           G(n) == [k \in K |-> SumOf(Limit(f, In1(n, k)))]
           S == {n \in Nat : SumOf(Limit(f, J(n))) = SumOf(G(n))}
<1>1. DOMAIN f \in SUBSET Nat /\ IsFiniteSet(DOMAIN f) /\ f \in [DOMAIN f -> Nat]
  BY AmountsAre
<1>2. ASSUME NEW n \in Nat PROVE J(n) \in SUBSET DOMAIN f /\ \A k \in K : In1(n, k) \in SUBSET DOMAIN f
  OBVIOUS
<1>3. ASSUME NEW n \in Nat PROVE G(n) \in Amounts /\ DOMAIN G(n) = K
  <2>1. ASSUME NEW k \in K PROVE SumOf(Limit(f, In1(n, k))) \in Nat
    <3> HIDE DEF In1
    <3> QED
      BY <1>2, LimitAmounts
  <2>2. G(n) \in [K -> Nat]
    <3> HIDE DEF In1
    <3> QED
      BY <2>1
  <2>3. DOMAIN G(n) = K
    OBVIOUS
  <2> HIDE DEF G
  <2> QED
    BY <2>2, <2>3, AmountsAre
<1>4. 0 \in S
  <2>1. J(0) = {} /\ \A k \in K : In1(0, k) = {}
    BY <1>1
  <2> DEFINE e == Limit(f, {})
  <2>2. SumOf(e) = 0
    BY DEF Limit, SumOf
  <2>3. \A k \in K : G(0)[k] = 0
    BY <2>1, <2>2
  <2>4. SumOf(G(0)) = 0
    <3> HIDE DEF G
    <3> QED
      BY <1>3, <2>3, SumZero
  <2> QED
    BY <2>1, <2>2, <2>4
<1>5. ASSUME NEW n \in Nat, n \in S PROVE n + 1 \in S
  <2>1. CASE n \notin DOMAIN f
    <3>1. J(n + 1) = J(n) /\ n + 1 \in Nat
      BY <1>1, <2>1
    <3>2. G(n + 1) = G(n)
      BY <3>1
    <3>3. SumOf(Limit(f, J(n))) = SumOf(G(n))
      BY <1>5
    <3> HIDE DEF J, G
    <3>4. SumOf(Limit(f, J(n + 1))) = SumOf(G(n + 1))
      BY <3>1, <3>2, <3>3
    <3> QED
      BY <3>1, <3>4
  <2>2. CASE n \in DOMAIN f
    <3>1. J(n + 1) = J(n) \cup {n} /\ n \notin J(n)
      BY <1>1, <2>2
    <3>2. SumOf(Limit(f, J(n + 1))) = SumOf(Limit(f, J(n))) + f[n]
      <4> HIDE DEF J
      <4> QED
        BY <1>2, <2>2, <3>1, SumAdd
    <3> DEFINE k0 == key[n]
    <3>3. k0 \in K
      BY <2>2
    <3>4. In1(n + 1, k0) = In1(n, k0) \cup {n} /\ n \notin In1(n, k0)
      BY <1>1, <2>2
    <3>5. ASSUME NEW k \in K, k # k0 PROVE In1(n + 1, k) = In1(n, k)
      BY <1>1, <2>2, <3>5
    <3>6. G(n + 1)[k0] = G(n)[k0] + f[n]
      <4>1. SumOf(Limit(f, In1(n + 1, k0))) = SumOf(Limit(f, In1(n, k0))) + f[n]
        <5> HIDE DEF In1
        <5> QED
          BY <1>2, <2>2, <3>3, <3>4, SumAdd
      <4> HIDE DEF In1
      <4> QED
        BY <3>3, <4>1
    <3>7. ASSUME NEW k \in K, k # k0 PROVE G(n + 1)[k] = G(n)[k]
      BY <3>5, <3>7
    <3>8. n + 1 \in Nat
      OBVIOUS
    <3>9. G(n) \in Amounts /\ DOMAIN G(n) = K /\ G(n + 1) \in Amounts /\ DOMAIN G(n + 1) = K
      BY <1>3, <3>8
    <3>10. f[n] \in Nat /\ SumOf(Limit(f, J(n))) \in Nat
      <4> HIDE DEF J
      <4> QED
        BY <1>1, <1>2, <2>2, LimitAmounts
    <3> DEFINE a == G(n)
               b == G(n + 1)
    <3>11. /\ a \in Amounts /\ DOMAIN a = K /\ b \in Amounts /\ DOMAIN b = K
           /\ b[k0] = a[k0] + f[n] /\ \A k \in K : k # k0 => b[k] = a[k]
      <4> HIDE DEF G, k0
      <4> QED
        BY <3>6, <3>7, <3>9
    <3> HIDE DEF a, b, k0
    <3>12. k0 \in Nat /\ \A m \in Nat : m # k0 => Term(b, m) = Term(a, m)
      BY <3>3, <3>11 DEF Term
    <3>13. SumOf(b) - SumOf(a) = Term(b, k0) - Term(a, k0)
      BY <3>11, <3>12, SumPoint
    <3>14. Term(b, k0) = a[k0] + f[n] /\ Term(a, k0) = a[k0] /\ a[k0] \in Nat
      BY <3>3, <3>11, AmountsAre DEF Term
    <3>15. SumOf(a) \in Nat /\ SumOf(b) \in Nat
      BY <3>11, SumNat
    <3>16. SumOf(b) = SumOf(a) + f[n]
      BY <3>10, <3>13, <3>14, <3>15
    <3>17. SumOf(Limit(f, J(n))) = SumOf(a)
      BY <1>5 DEF a
    <3>18. SumOf(Limit(f, J(n + 1))) = SumOf(b)
      BY <3>2, <3>16, <3>17
    <3> QED
      BY <3>8, <3>18 DEF b
  <2> QED
    BY <2>1, <2>2
<1>6. \A n \in Nat : n \in S
  <2> HIDE DEF S
  <2>1. \A n \in Nat : n \in S => n + 1 \in S
    BY <1>5
  <2> QED
    BY <1>4, <2>1, AllNaturals
<1>7. PICK m \in Nat : \A x \in DOMAIN f : x <= m
  BY <1>1, Bounded
<1>8. J(m + 1) = DOMAIN f /\ m + 1 \in Nat
  <2>1. \A x \in DOMAIN f : x \in Nat /\ x <= m
    BY <1>1, <1>7
  <2>2. \A x \in DOMAIN f : x < m + 1
    BY <2>1
  <2> QED
    BY <2>2
<1>9. Limit(f, J(m + 1)) = f
  BY <1>1, <1>8 DEF Limit
<1>10. G(m + 1) = SumsBy(f, key, K)
  BY <1>8 DEF SumsBy
<1>11. SumOf(Limit(f, J(m + 1))) = SumOf(G(m + 1))
  <2> HIDE DEF J, G
  <2> QED
    BY <1>6, <1>8
<1> QED
  BY <1>9, <1>10, <1>11

\* Counting is a sum, too.
LEMMA CountIsSum ==
    ASSUME NEW D \in SUBSET Nat, IsFiniteSet(D)
    PROVE  SumOf([i \in D |-> 1]) = Cardinality(D)
<1> DEFINE f == [i \in D |-> 1]
<1>0. \A x \in D : x \in Nat
  OBVIOUS
<1>1. f \in [D -> Nat] /\ DOMAIN f = D /\ \A i \in D : f[i] = 1
  OBVIOUS
<1>2. f \in Amounts
  BY <1>1, AmountsAre
<1> HIDE DEF f
<1> DEFINE J(n) == {i \in D : i < n}
           S == {n \in Nat : SumOf(Limit(f, J(n))) = Cardinality(J(n))}
<1>3. 0 \in S
  <2>1. J(0) = {}
    <3>1. \A x \in D : ~(x < 0)
      BY <1>0
    <3> QED
      BY <3>1
  <2>2. SumOf(Limit(f, {})) = 0
    BY DEF Limit, SumOf
  <2> QED
    BY <2>1, <2>2, FS_EmptySet
<1>4. ASSUME NEW n \in Nat, n \in S PROVE n + 1 \in S
  <2>1. CASE n \notin D
    <3>0. n + 1 \in Nat
      OBVIOUS
    <3>1. J(n + 1) = J(n)
      <4>1. \A x \in D : x < n + 1 <=> x < n
        BY <1>0, <2>1
      <4> QED
        BY <4>1
    <3>2. SumOf(Limit(f, J(n))) = Cardinality(J(n))
      BY <1>4
    <3> HIDE DEF J
    <3>3. SumOf(Limit(f, J(n + 1))) = Cardinality(J(n + 1))
      BY <3>1, <3>2
    <3> QED
      BY <3>0, <3>3
  <2>2. CASE n \in D
    <3>1. J(n + 1) = J(n) \cup {n} /\ n \notin J(n) /\ J(n) \in SUBSET D
      <4>1. (\A x \in D : x < n + 1 <=> x < n \/ x = n) /\ ~(n < n)
        BY <1>0, <2>2
      <4> QED
        BY <2>2, <4>1
    <3>2. IsFiniteSet(J(n))
      BY <3>1, FS_Subset
    <3>3. SumOf(Limit(f, J(n))) = Cardinality(J(n))
      BY <1>4
    <3> HIDE DEF J
    <3>4. SumOf(Limit(f, J(n) \cup {n})) = SumOf(Limit(f, J(n))) + f[n]
      BY <1>1, <1>2, <2>2, <3>1, SumAdd
    <3>5. Cardinality(J(n) \cup {n}) = Cardinality(J(n)) + 1
      BY <3>1, <3>2, FS_AddElement
    <3>6. f[n] = 1
      BY <1>1, <2>2
    <3>7. SumOf(Limit(f, J(n + 1))) = Cardinality(J(n + 1))
      BY <3>1, <3>3, <3>4, <3>5, <3>6
    <3>8. n + 1 \in Nat
      OBVIOUS
    <3> QED
      BY <3>7, <3>8
  <2> QED
    BY <2>1, <2>2
<1>5. PICK m \in Nat : \A x \in D : x <= m
  BY Bounded
<1>6. J(m + 1) = D
  <2>1. \A x \in D : x < m + 1
    BY <1>0, <1>5
  <2> QED
    BY <2>1
<1>7. m + 1 \in S
  <2> HIDE DEF S
  <2>1. \A n \in Nat : n \in S => n + 1 \in S
    BY <1>4
  <2>2. m + 1 \in Nat
    OBVIOUS
  <2> QED
    BY <1>3, <2>1, <2>2, AllNaturals
<1>8. Limit(f, D) = f
  BY <1>1 DEF Limit, f
<1> QED
  BY <1>6, <1>7, <1>8 DEF f

-----------------------------------------------------------------------------
(* The first and the last of some trades *)

Leads(s, I, f) ==
    f \in I /\ \A j \in I : s[f].at < s[j].at \/ (s[f].at = s[j].at /\ f <= j)
Ends(s, I, l) ==
    l \in I /\ \A j \in I : s[j].at < s[l].at \/ (s[j].at = s[l].at /\ j <= l)

\* Places in s, where there are trades.
Places(s, I) == I \in SUBSET Nat /\ IsFiniteSet(I) /\ \A i \in I : s[i].at \in Nat

LEMMA FirstLeads ==
    ASSUME NEW s, NEW I, Places(s, I)
    PROVE  /\ I # {} => Leads(s, I, First(s, I))
           /\ \A f : Leads(s, I, f) => First(s, I) = f
<1> DEFINE E == {i \in I : \A j \in I : s[i].at <= s[j].at}
<1>1. First(s, I) = Min(E) /\ E \in SUBSET Nat
  BY DEF First, Places
<1>2. ASSUME I # {} PROVE Leads(s, I, First(s, I))
  <2> DEFINE T == {s[i].at : i \in I}
  <2>1. T \in SUBSET Nat /\ T # {}
    BY <1>2 DEF Places
  <2>2. PICK m \in T : \A x \in T : m <= x
    <3> HIDE DEF T
    <3> QED
      BY <2>1, LeastExists
  <2>3. E # {}
    BY <2>2
  <2> HIDE DEF E
  <2>4. Min(E) \in E /\ \A x \in E : Min(E) <= x
    BY <1>1, <2>3, Extremes
  <2> DEFINE f == Min(E)
  <2>5. f \in E /\ \A x \in E : f <= x
    BY <2>4
  <2> HIDE DEF f
  <2>6. f \in I /\ \A j \in I : s[f].at <= s[j].at
    BY <2>5 DEF E
  <2>7. ASSUME NEW j \in I, s[f].at = s[j].at PROVE f <= j
    <3>1. j \in E
      BY <2>6, <2>7 DEF E
    <3> QED
      BY <2>5, <3>1
  <2>8. \A j \in I : s[j].at \in Nat
    BY DEF Places
  <2>9. ASSUME NEW j \in I PROVE s[f].at < s[j].at \/ (s[f].at = s[j].at /\ f <= j)
    <3>1. s[f].at \in Nat /\ s[j].at \in Nat /\ s[f].at <= s[j].at
      BY <2>6, <2>8
    <3> QED
      BY <2>7, <3>1
  <2> QED
    BY <1>1, <2>6, <2>9 DEF Leads, f
<1>3. ASSUME NEW f, Leads(s, I, f) PROVE First(s, I) = f
  <2>1. Leads(s, I, First(s, I))
    BY <1>2, <1>3 DEF Leads
  <2> DEFINE g == First(s, I)
  <2>2. Leads(s, I, g)
    BY <2>1
  <2> HIDE DEF g
  <2>3. f \in Nat /\ g \in Nat /\ s[f].at \in Nat /\ s[g].at \in Nat
    BY <1>3, <2>2 DEF Leads, Places
  <2>4. s[f].at < s[g].at \/ (s[f].at = s[g].at /\ f <= g)
    BY <1>3, <2>2 DEF Leads
  <2>5. s[g].at < s[f].at \/ (s[g].at = s[f].at /\ g <= f)
    BY <1>3, <2>2 DEF Leads
  <2>6. g = f
    BY <2>3, <2>4, <2>5
  <2> QED
    BY <2>6 DEF g
<1> QED
  BY <1>2, <1>3

LEMMA FinalEnds ==
    ASSUME NEW s, NEW I, Places(s, I)
    PROVE  /\ I # {} => Ends(s, I, Final(s, I))
           /\ \A l : Ends(s, I, l) => Final(s, I) = l
<1> DEFINE E == {i \in I : \A j \in I : s[i].at >= s[j].at}
<1>1. Final(s, I) = Max(E) /\ E \in SUBSET Nat /\ IsFiniteSet(E)
  <2>1. Final(s, I) = Max(E) /\ E \in SUBSET I
    BY DEF Final
  <2> HIDE DEF E
  <2> QED
    BY <2>1, FS_Subset DEF Places
<1>2. ASSUME I # {} PROVE Ends(s, I, Final(s, I))
  <2> DEFINE g == [i \in I |-> s[i].at]
             T == {g[i] : i \in I}
  <2>1. T \in SUBSET Nat /\ T # {} /\ IsFiniteSet(T)
    <3>1. T \in SUBSET Nat /\ T # {}
      BY <1>2 DEF Places
    <3>2. IsFiniteSet(T)
      <4>1. g \in [I -> Nat]
        BY DEF Places
      <4> HIDE DEF g
      <4> QED
        BY <4>1, ImageFinite DEF Places
    <3> QED
      BY <3>1, <3>2
  <2>2. PICK m \in T : \A x \in T : x <= m
    <3> HIDE DEF T
    <3> QED
      BY <2>1, Extremes
  <2>8. \A j \in I : s[j].at \in Nat
    BY DEF Places
  <2>3. E # {}
    <3>1. PICK i \in I : m = s[i].at
      OBVIOUS
    <3>2. \A j \in I : s[j].at <= s[i].at
      BY <2>2, <3>1
    <3>3. \A j \in I : s[i].at >= s[j].at
      BY <2>8, <3>2
    <3> QED
      BY <3>3
  <2> HIDE DEF E
  <2>4. Max(E) \in E /\ \A x \in E : x <= Max(E)
    BY <1>1, <2>3, Extremes
  <2> DEFINE f == Max(E)
  <2>5. f \in E /\ \A x \in E : x <= f
    BY <2>4
  <2> HIDE DEF f
  <2>6. f \in I /\ \A j \in I : s[f].at >= s[j].at
    BY <2>5 DEF E
  <2>7. ASSUME NEW j \in I, s[f].at = s[j].at PROVE j <= f
    <3>1. j \in E
      BY <2>6, <2>7 DEF E
    <3> QED
      BY <2>5, <3>1
  <2>9. ASSUME NEW j \in I PROVE s[j].at < s[f].at \/ (s[j].at = s[f].at /\ j <= f)
    <3>1. s[f].at \in Nat /\ s[j].at \in Nat /\ s[f].at >= s[j].at
      BY <2>6, <2>8
    <3> QED
      BY <2>7, <3>1
  <2> QED
    BY <1>1, <2>6, <2>9 DEF Ends, f
<1>3. ASSUME NEW f, Ends(s, I, f) PROVE Final(s, I) = f
  <2>1. Ends(s, I, Final(s, I))
    BY <1>2, <1>3 DEF Ends
  <2> DEFINE g == Final(s, I)
  <2>2. Ends(s, I, g)
    BY <2>1
  <2> HIDE DEF g
  <2>3. f \in Nat /\ g \in Nat /\ s[f].at \in Nat /\ s[g].at \in Nat
    BY <1>3, <2>2 DEF Ends, Places
  <2>4. s[f].at < s[g].at \/ (s[f].at = s[g].at /\ f <= g)
    BY <1>3, <2>2 DEF Ends
  <2>5. s[g].at < s[f].at \/ (s[g].at = s[f].at /\ g <= f)
    BY <1>3, <2>2 DEF Ends
  <2>6. g = f
    BY <2>3, <2>4, <2>5
  <2> QED
    BY <2>6 DEF g
<1> QED
  BY <1>2, <1>3

\* The highest and the lowest with one more.
LEMMA ExtremesAdd ==
    ASSUME NEW D \in SUBSET Nat, IsFiniteSet(D), NEW p \in Nat
    PROVE  /\ D # {} => Max(D \cup {p}) = Max({Max(D), p}) /\ Min(D \cup {p}) = Min({Min(D), p})
           /\ Max({p}) = p /\ Min({p}) = p
           /\ IsFiniteSet(D \cup {p})
<1>1. IsFiniteSet(D \cup {p}) /\ D \cup {p} \in SUBSET Nat /\ D \cup {p} # {}
  BY FS_AddElement
<1>2. Max({p}) = p /\ Min({p}) = p
  BY DEF Max, Min
<1>3. ASSUME D # {}
      PROVE  Max(D \cup {p}) = Max({Max(D), p}) /\ Min(D \cup {p}) = Min({Min(D), p})
  <2> DEFINE a == Max(D)
             b == Min(D)
             c == Max(D \cup {p})
             d == Min(D \cup {p})
  <2>1. a \in D /\ (\A x \in D : x <= a) /\ b \in D /\ \A x \in D : b <= x
    BY <1>3, Extremes
  <2>2. c \in D \cup {p} /\ d \in D \cup {p} /\ \A x \in D \cup {p} : x <= c /\ d <= x
    <3> DEFINE E == D \cup {p}
    <3>1. E \in SUBSET Nat /\ E # {} /\ IsFiniteSet(E)
      BY <1>1
    <3> HIDE DEF E
    <3>2. Max(E) \in E /\ Min(E) \in E /\ \A x \in E : x <= Max(E) /\ Min(E) <= x
      BY <3>1, Extremes
    <3> QED
      BY <3>2 DEF E
  <2> HIDE DEF a, b, c, d
  <2>3. a \in Nat /\ b \in Nat /\ c \in Nat /\ d \in Nat
    BY <2>1, <2>2
  <2>4. c = IF a <= p THEN p ELSE a
    <3>1. a <= c /\ p <= c /\ (c <= a \/ c = p)
      BY <2>1, <2>2
    <3> QED
      BY <2>3, <3>1
  <2>5. d = IF b <= p THEN b ELSE p
    <3>1. d <= b /\ d <= p /\ (b <= d \/ d = p)
      BY <2>1, <2>2
    <3> QED
      BY <2>3, <3>1
  <2>6. Max({a, p}) = (IF a <= p THEN p ELSE a) /\ Min({b, p}) = IF b <= p THEN b ELSE p
    BY <2>3, MinOfTwo
  <2> QED
    BY <2>4, <2>5, <2>6 DEF a, b, c, d
<1> QED
  BY <1>1, <1>2, <1>3

-----------------------------------------------------------------------------
(* The parts of a bucket sum up trades *)

\* Trades in the order they came in.
Tape == {s \in Seq(Trade) : \A i \in DOMAIN s : s[i].quantity > 0
                                              /\ s[i].venue \in Exchanges \cup {0}}

Sizes(s) == [i \in DOMAIN s |-> s[i].quantity]
Costs(s) == [i \in DOMAIN s |-> s[i].price * s[i].quantity]
Rates(s) == [i \in DOMAIN s |-> s[i].price]
Ones(s) == [i \in DOMAIN s |-> 1]

\* part sums up the trades of s in the places I.
Summed(part, s, I) ==
    /\ DOMAIN part = DOMAIN EmptyPart
    /\ part.volume = SumOf(Limit(Sizes(s), I))
    /\ part.notional = SumOf(Limit(Costs(s), I))
    /\ I = {} => /\ part.openAt = None /\ part.closeAt = None
                 /\ part.high = None /\ part.low = None
    /\ I # {} => /\ part.open = s[First(s, I)].price /\ part.openAt = s[First(s, I)].at
                 /\ part.close = s[Final(s, I)].price /\ part.closeAt = s[Final(s, I)].at
                 /\ part.high = Max(Prices(s, I)) /\ part.low = Min(Prices(s, I))

Counted(part, s, I) ==
    /\ part.count = SumOf(Limit(Ones(s), I))
    /\ part.prices = SumOf(Limit(Rates(s), I))

LEMMA VenuesAre ==
    Exchanges \in SUBSET (Nat \ {0}) /\ IsFiniteSet(Exchanges)
BY BookConstantsOK DEF Exchanges

LEMMA TapeIs ==
    ASSUME NEW s \in Tape
    PROVE  /\ Len(s) \in Nat /\ DOMAIN s = 1 .. Len(s)
           /\ DOMAIN s \in SUBSET Nat /\ IsFiniteSet(DOMAIN s)
           /\ \A i \in DOMAIN s : /\ s[i] \in Trade /\ s[i].at \in Nat /\ s[i].price \in Nat
                                  /\ s[i].quantity \in Nat \ {0} /\ s[i].venue \in Nat
                                  /\ s[i].venue \in Exchanges \cup {0}
<1>1. s \in Seq(Trade)
  BY DEF Tape
<1>2. Len(s) \in Nat /\ DOMAIN s = 1 .. Len(s)
  BY <1>1
<1>3. IsFiniteSet(1 .. Len(s)) /\ 1 .. Len(s) \in SUBSET Nat
  BY <1>2, FS_Interval
<1>4. ASSUME NEW i \in DOMAIN s
      PROVE  /\ s[i] \in Trade /\ s[i].at \in Nat /\ s[i].price \in Nat
             /\ s[i].quantity \in Nat \ {0} /\ s[i].venue \in Nat
             /\ s[i].venue \in Exchanges \cup {0}
  <2>1. s[i] \in Trade
    BY <1>1
  <2>2. s[i].quantity > 0 /\ s[i].venue \in Exchanges \cup {0}
    BY DEF Tape
  <2>3. s[i].at \in Nat /\ s[i].price \in Nat /\ s[i].quantity \in Nat /\ s[i].venue \in Nat
    BY <2>1 DEF Trade
  <2>4. s[i].quantity \in Nat \ {0}
    BY <2>2, <2>3
  <2> QED
    BY <2>1, <2>2, <2>3, <2>4
<1> QED
  BY <1>2, <1>3, <1>4

LEMMA TapeAmounts ==
    ASSUME NEW s \in Tape
    PROVE  /\ Sizes(s) \in Amounts /\ DOMAIN Sizes(s) = DOMAIN s
           /\ Costs(s) \in Amounts /\ DOMAIN Costs(s) = DOMAIN s
           /\ Rates(s) \in Amounts /\ DOMAIN Rates(s) = DOMAIN s
           /\ Ones(s) \in Amounts /\ DOMAIN Ones(s) = DOMAIN s
<1>1. DOMAIN s \in SUBSET Nat /\ IsFiniteSet(DOMAIN s)
  BY TapeIs
<1>2. \A i \in DOMAIN s : s[i].price \in Nat /\ s[i].quantity \in Nat
  BY TapeIs
<1>3. \A i \in DOMAIN s : s[i].price * s[i].quantity \in Nat
  BY <1>2
<1>4. /\ Sizes(s) \in [DOMAIN s -> Nat] /\ Costs(s) \in [DOMAIN s -> Nat]
      /\ Rates(s) \in [DOMAIN s -> Nat] /\ Ones(s) \in [DOMAIN s -> Nat]
  BY <1>2, <1>3 DEF Sizes, Costs, Rates, Ones
<1>5. [DOMAIN s -> Nat] \subseteq Amounts
  BY <1>1, AmountsAre
<1> QED
  BY <1>4, <1>5

\* A trade that was not folded before.
Tradable == {t \in Trade : t.quantity > 0 /\ t.venue \in Exchanges}

LEMMA TapeGrows ==
    ASSUME NEW s \in Tape, NEW t \in Tradable
    PROVE  /\ Append(s, t) \in Tape
           /\ DOMAIN Append(s, t) = DOMAIN s \cup {Len(s) + 1} /\ Len(s) + 1 \notin DOMAIN s
           /\ \A i \in DOMAIN s : Append(s, t)[i] = s[i] /\ i < Len(s) + 1
           /\ Append(s, t)[Len(s) + 1] = t
           /\ t.at \in Nat /\ t.price \in Nat /\ t.quantity \in Nat \ {0}
           /\ t.venue \in Exchanges /\ t.venue \in Nat \ {0}
<1>1. t \in Trade /\ t.quantity > 0 /\ t.venue \in Exchanges
  BY DEF Tradable
<1>2. t.at \in Nat /\ t.price \in Nat /\ t.quantity \in Nat \ {0} /\ t.venue \in Nat \ {0}
  BY <1>1, VenuesAre DEF Trade
<1>3. s \in Seq(Trade) /\ Len(s) \in Nat /\ DOMAIN s = 1 .. Len(s)
  BY TapeIs DEF Tape
<1> DEFINE r == Append(s, t)
<1>4. r \in Seq(Trade) /\ DOMAIN r = 1 .. Len(s) + 1 /\ r[Len(s) + 1] = t
      /\ \A i \in 1 .. Len(s) : r[i] = s[i]
  BY <1>1, <1>3
<1> HIDE DEF r
<1>5. 1 .. Len(s) + 1 = 1 .. Len(s) \cup {Len(s) + 1} /\ Len(s) + 1 \notin 1 .. Len(s)
      /\ \A i \in 1 .. Len(s) : i < Len(s) + 1
  BY <1>3
<1>6. DOMAIN r = DOMAIN s \cup {Len(s) + 1} /\ Len(s) + 1 \notin DOMAIN s
  BY <1>3, <1>4, <1>5
<1>7. \A i \in DOMAIN s : r[i] = s[i] /\ i < Len(s) + 1
  BY <1>3, <1>4, <1>5
<1>8. r \in Tape
  <2>1. ASSUME NEW i \in DOMAIN r
        PROVE  r[i].quantity > 0 /\ r[i].venue \in Exchanges \cup {0}
    <3>1. CASE i = Len(s) + 1
      BY <1>1, <1>4, <3>1
    <3>2. CASE i \in DOMAIN s
      <4>1. s[i].quantity > 0 /\ s[i].venue \in Exchanges \cup {0}
        BY <3>2 DEF Tape
      <4> QED
        BY <1>7, <3>2, <4>1
    <3> QED
      BY <1>6, <3>1, <3>2
  <2> QED
    BY <1>4, <2>1 DEF Tape
<1> QED
  BY <1>1, <1>2, <1>4, <1>6, <1>7, <1>8 DEF r

\* What is summed up of places that are in both.
LEMMA SummedSame ==
    ASSUME NEW s \in Tape, NEW t \in Tradable, NEW I \in SUBSET DOMAIN s, NEW part
    PROVE  /\ Summed(part, s, I) <=> Summed(part, Append(s, t), I)
           /\ Counted(part, s, I) <=> Counted(part, Append(s, t), I)
<1> DEFINE r == Append(s, t)
<1>1. DOMAIN s \in SUBSET DOMAIN r /\ \A i \in DOMAIN s : r[i] = s[i]
  BY TapeGrows
<1> HIDE DEF r
<1>2. /\ Limit(Sizes(r), I) = Limit(Sizes(s), I) /\ Limit(Costs(r), I) = Limit(Costs(s), I)
      /\ Limit(Rates(r), I) = Limit(Rates(s), I) /\ Limit(Ones(r), I) = Limit(Ones(s), I)
  BY <1>1 DEF Limit, Sizes, Costs, Rates, Ones
<1>3. \A i \in I : r[i] = s[i]
  BY <1>1
<1>4. Prices(r, I) = Prices(s, I)
  BY <1>3 DEF Prices
<1>5. First(r, I) = First(s, I) /\ Final(r, I) = Final(s, I)
  <2>1. {i \in I : \A j \in I : r[i].at <= r[j].at} = {i \in I : \A j \in I : s[i].at <= s[j].at}
    BY <1>3
  <2>2. {i \in I : \A j \in I : r[i].at >= r[j].at} = {i \in I : \A j \in I : s[i].at >= s[j].at}
    BY <1>3
  <2> QED
    BY <2>1, <2>2 DEF First, Final
<1>6. I # {} => First(s, I) \in I /\ Final(s, I) \in I
  <2>1. Places(s, I)
    <3>1. IsFiniteSet(I) /\ I \in SUBSET Nat
      BY TapeIs, FS_Subset
    <3> QED
      BY <3>1, TapeIs DEF Places
  <2> QED
    BY <2>1, FirstLeads, FinalEnds DEF Leads, Ends
<1>7. I # {} => r[First(s, I)] = s[First(s, I)] /\ r[Final(s, I)] = s[Final(s, I)]
  BY <1>3, <1>6
<1>8. Summed(part, s, I) <=> Summed(part, r, I)
  BY <1>2, <1>4, <1>5, <1>7 DEF Summed
<1>9. Counted(part, s, I) <=> Counted(part, r, I)
  BY <1>2 DEF Counted
<1> QED
  BY <1>8, <1>9 DEF r

LEMMA EmptySums ==
    ASSUME NEW s
    PROVE  Summed(EmptyPart, s, {}) /\ Counted(EmptyPart, s, {})
<1>1. \A f : SumOf(Limit(f, {})) = 0
  BY DEF Limit, SumOf
<1> QED
  BY <1>1 DEF EmptyPart, Summed, Counted

\* Trades in a tape are at places.
LEMMA TapePlaces ==
    ASSUME NEW s \in Tape, NEW I \in SUBSET DOMAIN s
    PROVE  /\ Places(s, I)
           /\ Prices(s, I) \in SUBSET Nat /\ IsFiniteSet(Prices(s, I))
           /\ I # {} => Prices(s, I) # {}
<1>1. I \in SUBSET Nat /\ IsFiniteSet(I)
  BY TapeIs, FS_Subset
<1>2. \A i \in I : s[i].at \in Nat /\ s[i].price \in Nat
  BY TapeIs
<1> DEFINE f == [i \in I |-> s[i].price]
           P == {f[i] : i \in I}
<1>3. P = Prices(s, I)
  BY DEF Prices
<1>4. IsFiniteSet(P)
  <2>1. DOMAIN f = I
    OBVIOUS
  <2> HIDE DEF f
  <2> QED
    BY <1>1, <2>1, ImageFinite
<1>5. Prices(s, I) \in SUBSET Nat /\ (I # {} => Prices(s, I) # {})
  BY <1>2 DEF Prices
<1>6. Places(s, I)
  BY <1>1, <1>2 DEF Places
<1> HIDE DEF P
<1> QED
  BY <1>3, <1>4, <1>5, <1>6

\* A part with one more trade sums up one more trade.
LEMMA AddedSums ==
    ASSUME NEW s \in Tape, NEW t \in Tradable, NEW I \in SUBSET DOMAIN s, NEW part, NEW gap,
           Summed(part, s, I)
    PROVE  /\ Summed(Added(part, t, gap), Append(s, t), I \cup {Len(s) + 1})
           /\ Counted(part, s, I)
                  => Counted(Added(part, t, gap), Append(s, t), I \cup {Len(s) + 1})
<1> DEFINE r == Append(s, t)
           n == Len(s) + 1
           J == I \cup {n}
           new == Added(part, t, gap)
<1>1. /\ r \in Tape /\ DOMAIN r = DOMAIN s \cup {n} /\ n \notin DOMAIN s
      /\ (\A i \in DOMAIN s : i < n) /\ r[n] = t
      /\ t.at \in Nat /\ t.price \in Nat /\ t.quantity \in Nat \ {0} /\ n \in Nat
  BY TapeGrows, TapeIs
<1>2. Summed(part, r, I) /\ (Counted(part, s, I) => Counted(part, r, I))
  BY SummedSame
<1>3. /\ DOMAIN new = DOMAIN EmptyPart
      /\ new.volume = part.volume + t.quantity
      /\ new.notional = part.notional + t.price * t.quantity
      /\ new.prices = part.prices + t.price
      /\ new.count = part.count + 1
      /\ new.high = IF part.high = None THEN t.price ELSE Max({part.high, t.price})
      /\ new.low = IF part.low = None THEN t.price ELSE Min({part.low, t.price})
  BY DEF Added, EmptyPart
<1>4. /\ new.open = (IF part.openAt = None \/ t.at < part.openAt THEN t.price ELSE part.open)
      /\ new.openAt = (IF part.openAt = None \/ t.at < part.openAt THEN t.at ELSE part.openAt)
      /\ new.close = (IF part.closeAt = None \/ t.at >= part.closeAt THEN t.price ELSE part.close)
      /\ new.closeAt = (IF part.closeAt = None \/ t.at >= part.closeAt THEN t.at ELSE part.closeAt)
  BY DEF Added
<1> HIDE DEF r, n, new
<1>5. I \in SUBSET DOMAIN r /\ J \in SUBSET DOMAIN r /\ n \notin I /\ n \in DOMAIN r
  BY <1>1
<1>6. ASSUME NEW f \in Amounts, DOMAIN f = DOMAIN r
      PROVE  SumOf(Limit(f, J)) = SumOf(Limit(f, I)) + f[n]
  BY <1>5, <1>6, SumAdd
<1>7. /\ SumOf(Limit(Sizes(r), J)) = SumOf(Limit(Sizes(r), I)) + t.quantity
      /\ SumOf(Limit(Costs(r), J)) = SumOf(Limit(Costs(r), I)) + t.price * t.quantity
      /\ SumOf(Limit(Rates(r), J)) = SumOf(Limit(Rates(r), I)) + t.price
      /\ SumOf(Limit(Ones(r), J)) = SumOf(Limit(Ones(r), I)) + 1
  <2>1. /\ Sizes(r)[n] = t.quantity /\ Costs(r)[n] = t.price * t.quantity
        /\ Rates(r)[n] = t.price /\ Ones(r)[n] = 1
    BY <1>1, <1>5 DEF Sizes, Costs, Rates, Ones
  <2> HIDE DEF J
  <2> QED
    BY <1>1, <1>6, <2>1, TapeAmounts
<1>8. Counted(part, r, I) => Counted(new, r, J)
  <2> HIDE DEF J
  <2> QED
    BY <1>3, <1>7 DEF Counted
<1>9. Places(r, I) /\ Places(r, J)
  BY <1>1, <1>5, TapePlaces
<1>10. /\ Prices(r, J) = Prices(r, I) \cup {t.price} /\ Prices(r, I) \in SUBSET Nat
       /\ IsFiniteSet(Prices(r, I)) /\ (I # {} => Prices(r, I) # {})
       /\ (I = {} => Prices(r, I) = {})
  <2>1. Prices(r, J) = Prices(r, I) \cup {t.price} /\ (I = {} => Prices(r, I) = {})
    BY <1>1 DEF Prices
  <2> QED
    BY <1>1, <1>5, <2>1, TapePlaces
<1>11. None \notin Nat
  BY DEF None
<1>12. CASE I = {}
  <2>1. J = {n}
    BY <1>12
  <2>2. First(r, J) = n /\ Final(r, J) = n
    <3>1. Leads(r, J, n) /\ Ends(r, J, n)
      BY <1>1, <2>1 DEF Leads, Ends
    <3> HIDE DEF J
    <3> QED
      BY <1>9, <3>1, FirstLeads, FinalEnds
  <2>3. Max(Prices(r, J)) = t.price /\ Min(Prices(r, J)) = t.price
    <3>1. Prices(r, J) = {t.price}
      BY <1>10, <1>12
    <3> HIDE DEF J
    <3> QED
      BY <1>1, <3>1, FS_EmptySet, ExtremesAdd
  <2>4. part.openAt = None /\ part.closeAt = None /\ part.high = None /\ part.low = None
    BY <1>2, <1>12 DEF Summed
  <2>5. /\ new.open = t.price /\ new.openAt = t.at /\ new.close = t.price /\ new.closeAt = t.at
        /\ new.high = t.price /\ new.low = t.price
    BY <1>3, <1>4, <2>4
  <2>6. Summed(new, r, J)
    <3>1. J # {}
      BY <2>1
    <3> HIDE DEF J
    <3> QED
      BY <1>1, <1>2, <1>3, <1>7, <2>2, <2>3, <2>5, <3>1 DEF Summed
  <2> QED
    BY <1>2, <1>8, <2>6 DEF r, n, new
<1>13. CASE I # {}
  <2> DEFINE f == First(r, I)
             l == Final(r, I)
  <2>1. Leads(r, I, f) /\ Ends(r, I, l)
    BY <1>9, <1>13, FirstLeads, FinalEnds
  <2>2. /\ part.open = r[f].price /\ part.openAt = r[f].at
        /\ part.close = r[l].price /\ part.closeAt = r[l].at
        /\ part.high = Max(Prices(r, I)) /\ part.low = Min(Prices(r, I))
    BY <1>2, <1>13 DEF Summed
  <2> HIDE DEF f, l
  <2>3. f \in I /\ l \in I /\ r[f].at \in Nat /\ r[l].at \in Nat /\ f \in Nat /\ l \in Nat
        /\ f < n /\ l < n
    BY <1>1, <1>5, <1>9, <2>1 DEF Leads, Ends, Places
  <2>4. \A j \in I : j \in Nat /\ r[j].at \in Nat /\ j < n
    BY <1>1, <1>9 DEF Places
  <2>5. r[First(r, J)].price = new.open /\ r[First(r, J)].at = new.openAt
    <3>1. CASE t.at < r[f].at
      <4>1. ASSUME NEW j \in J PROVE r[n].at < r[j].at \/ (r[n].at = r[j].at /\ n <= j)
        <5>1. CASE j = n
          BY <1>1, <5>1
        <5>2. CASE j \in I
          <6>1. r[f].at <= r[j].at
            BY <2>1, <2>3, <2>4, <5>2 DEF Leads
          <6> QED
            BY <1>1, <2>3, <2>4, <3>1, <5>2, <6>1
        <5> QED
          BY <5>1, <5>2
      <4>2. Leads(r, J, n)
        BY <4>1 DEF Leads
      <4>3. First(r, J) = n
        <5> HIDE DEF J
        <5> QED
          BY <1>9, <4>2, FirstLeads
      <4>4. new.open = t.price /\ new.openAt = t.at
        BY <1>4, <2>2, <3>1
      <4> QED
        BY <1>1, <4>3, <4>4
    <3>2. CASE ~(t.at < r[f].at)
      <4>1. ASSUME NEW j \in J PROVE r[f].at < r[j].at \/ (r[f].at = r[j].at /\ f <= j)
        <5>1. CASE j = n
          BY <1>1, <2>3, <3>2, <5>1
        <5>2. CASE j \in I
          BY <2>1, <5>2 DEF Leads
        <5> QED
          BY <5>1, <5>2
      <4>2. Leads(r, J, f)
        BY <2>3, <4>1 DEF Leads
      <4>3. First(r, J) = f
        <5> HIDE DEF J
        <5> QED
          BY <1>9, <4>2, FirstLeads
      <4>4. part.openAt # None
        BY <1>11, <2>2, <2>3
      <4>5. new.open = part.open /\ new.openAt = part.openAt
        BY <1>4, <2>2, <3>2, <4>4
      <4> QED
        BY <2>2, <4>3, <4>5
    <3> QED
      BY <3>1, <3>2
  <2>6. r[Final(r, J)].price = new.close /\ r[Final(r, J)].at = new.closeAt
    <3>1. CASE t.at >= r[l].at
      <4>1. ASSUME NEW j \in J PROVE r[j].at < r[n].at \/ (r[j].at = r[n].at /\ j <= n)
        <5>1. CASE j = n
          BY <1>1, <5>1
        <5>2. CASE j \in I
          <6>1. r[j].at <= r[l].at
            BY <2>1, <2>3, <2>4, <5>2 DEF Ends
          <6> QED
            BY <1>1, <2>3, <2>4, <3>1, <5>2, <6>1
        <5> QED
          BY <5>1, <5>2
      <4>2. Ends(r, J, n)
        BY <4>1 DEF Ends
      <4>3. Final(r, J) = n
        <5> HIDE DEF J
        <5> QED
          BY <1>9, <4>2, FinalEnds
      <4>4. new.close = t.price /\ new.closeAt = t.at
        BY <1>4, <2>2, <3>1
      <4> QED
        BY <1>1, <4>3, <4>4
    <3>2. CASE ~(t.at >= r[l].at)
      <4>1. ASSUME NEW j \in J PROVE r[j].at < r[l].at \/ (r[j].at = r[l].at /\ j <= l)
        <5>1. CASE j = n
          BY <1>1, <2>3, <3>2, <5>1
        <5>2. CASE j \in I
          BY <2>1, <5>2 DEF Ends
        <5> QED
          BY <5>1, <5>2
      <4>2. Ends(r, J, l)
        BY <2>3, <4>1 DEF Ends
      <4>3. Final(r, J) = l
        <5> HIDE DEF J
        <5> QED
          BY <1>9, <4>2, FinalEnds
      <4>4. part.closeAt # None
        BY <1>11, <2>2, <2>3
      <4>5. new.close = part.close /\ new.closeAt = part.closeAt
        BY <1>4, <2>2, <3>2, <4>4
      <4> QED
        BY <2>2, <4>3, <4>5
    <3> QED
      BY <3>1, <3>2
  <2>7. new.high = Max(Prices(r, J)) /\ new.low = Min(Prices(r, J))
    <3> DEFINE P == Prices(r, I)
               Q == Prices(r, J)
    <3>1. P \in SUBSET Nat /\ P # {} /\ IsFiniteSet(P) /\ Q = P \cup {t.price}
      BY <1>10, <1>13
    <3>2. part.high = Max(P) /\ part.low = Min(P)
      BY <2>2
    <3> HIDE DEF P, Q
    <3>3. Max(P) \in P /\ Min(P) \in P
      BY <3>1, Extremes
    <3>4. part.high # None /\ part.low # None
      BY <1>11, <3>1, <3>2, <3>3
    <3>5. new.high = Max({Max(P), t.price}) /\ new.low = Min({Min(P), t.price})
      BY <1>3, <3>2, <3>4
    <3>6. Max(Q) = Max({Max(P), t.price}) /\ Min(Q) = Min({Min(P), t.price})
      BY <1>1, <3>1, ExtremesAdd
    <3> QED
      BY <3>5, <3>6 DEF Q
  <2>8. Summed(new, r, J)
    <3>1. J # {}
      OBVIOUS
    <3>2. part.volume = SumOf(Limit(Sizes(r), I)) /\ part.notional = SumOf(Limit(Costs(r), I))
      BY <1>2 DEF Summed
    <3> HIDE DEF J
    <3> QED
      BY <1>3, <1>7, <2>5, <2>6, <2>7, <3>1, <3>2 DEF Summed
  <2> QED
    BY <1>2, <1>8, <2>8 DEF r, n, new
<1> QED
  BY <1>12, <1>13

-----------------------------------------------------------------------------
(* The buckets tell the trades that were folded *)

\* The places of bucket b.
At(s, b) == {i \in DOMAIN s : Bucket(s[i].at) = b}

\* d is what a bucket b should be: exact, but for the number of the trades that
\* an earlier version made a candle of.
TellsBucket(d, s, b) ==
    /\ DOMAIN d = {"all", "venues", "stamps"} /\ DOMAIN d.venues = Exchanges
    /\ DOMAIN d.stamps = Exchanges
    /\ Summed(d.all, s, At(s, b))
    /\ (\A i \in At(s, b) : s[i].venue # 0) => Counted(d.all, s, At(s, b))
    /\ \A v \in Exchanges :
          Summed(d.venues[v], s, Of(s, v, b)) /\ Counted(d.venues[v], s, Of(s, v, b))

Tells(bs, s) ==
    /\ DOMAIN bs = {Bucket(s[i].at) : i \in DOMAIN s}
    /\ \A b \in DOMAIN bs : TellsBucket(bs[b], s, b)

LEMMA PlacesGrow ==
    ASSUME NEW s \in Tape, NEW t \in Tradable, NEW b, NEW v
    PROVE  /\ At(Append(s, t), b) = IF Bucket(t.at) = b THEN At(s, b) \cup {Len(s) + 1}
                                    ELSE At(s, b)
           /\ Of(Append(s, t), v, b) = IF t.venue = v /\ Bucket(t.at) = b
                                       THEN Of(s, v, b) \cup {Len(s) + 1} ELSE Of(s, v, b)
           /\ At(s, b) \in SUBSET DOMAIN s /\ Of(s, v, b) \in SUBSET DOMAIN s
<1> DEFINE r == Append(s, t)
           n == Len(s) + 1
<1>1. /\ DOMAIN r = DOMAIN s \cup {n} /\ n \notin DOMAIN s /\ r[n] = t
      /\ \A i \in DOMAIN s : r[i] = s[i]
  BY TapeGrows
<1> HIDE DEF r, n
<1>2. At(r, b) = IF Bucket(t.at) = b THEN At(s, b) \cup {n} ELSE At(s, b)
  BY <1>1 DEF At
<1>3. Of(r, v, b) = IF t.venue = v /\ Bucket(t.at) = b THEN Of(s, v, b) \cup {n} ELSE Of(s, v, b)
  BY <1>1 DEF Of
<1> QED
  BY <1>2, <1>3 DEF r, n, At, Of

LEMMA EmptyTells ==
    ASSUME NEW s, NEW b, At(s, b) = {}
    PROVE  TellsBucket(EmptyBucket, s, b)
<1>1. \A v \in Exchanges : Of(s, v, b) = {}
  BY DEF Of, At
<1>2. /\ DOMAIN EmptyBucket = {"all", "venues", "stamps"} /\ DOMAIN EmptyBucket.venues = Exchanges
      /\ DOMAIN EmptyBucket.stamps = Exchanges
      /\ EmptyBucket.all = EmptyPart /\ \A v \in Exchanges : EmptyBucket.venues[v] = EmptyPart
  BY DEF EmptyBucket
<1> QED
  BY <1>1, <1>2, EmptySums DEF TellsBucket

LEMMA FoldTells ==
    ASSUME NEW s \in Tape, NEW t \in Tradable, NEW bs, Tells(bs, s), NEW last
    PROVE  Tells(WithTrade(bs, t, last), Append(s, t))
<1> DEFINE r == Append(s, t)
           n == Len(s) + 1
           b0 == Bucket(t.at)
           old == IF b0 \in DOMAIN bs THEN bs[b0] ELSE EmptyBucket
           gap == IF last[t.venue] # None /\ t.at >= last[t.venue]
                  THEN <<t.at - last[t.venue]>> ELSE <<>>
           new == BucketWith(bs, t, last)
           cs == WithTrade(bs, t, last)
<1>1. /\ r \in Tape /\ DOMAIN r = DOMAIN s \cup {n} /\ n \notin DOMAIN s /\ r[n] = t
      /\ (\A i \in DOMAIN s : r[i] = s[i]) /\ t.venue \in Exchanges /\ t.venue # 0
  BY TapeGrows
<1>2. /\ new.all = Added(old.all, t, gap)
      /\ new.venues = [old.venues EXCEPT ![t.venue] = Added(@, t, gap)]
      /\ new.stamps = [old.stamps EXCEPT ![t.venue] = Append(@, t.at)]
      /\ DOMAIN new = {"all", "venues", "stamps"}
  <2> HIDE DEF old, gap
  <2> QED
    BY DEF BucketWith, old, gap
<1>3. /\ DOMAIN cs = DOMAIN bs \cup {b0} /\ cs[b0] = new
      /\ \A b \in DOMAIN bs : b # b0 => cs[b] = bs[b]
  <2> HIDE DEF new
  <2> QED
    BY DEF WithTrade, new
<1>4. TellsBucket(old, s, b0)
  <2>1. CASE b0 \in DOMAIN bs
    BY <2>1 DEF Tells
  <2>2. CASE b0 \notin DOMAIN bs
    <3>1. At(s, b0) = {}
      BY <2>2 DEF Tells, At
    <3> QED
      BY <2>2, <3>1, EmptyTells
  <2> QED
    BY <2>1, <2>2
<1> HIDE DEF r, n, old, gap, new, cs, b0
<1>5. TellsBucket(new, r, b0)
  <2>1. /\ At(r, b0) = At(s, b0) \cup {n} /\ At(s, b0) \in SUBSET DOMAIN s
        /\ \A v \in Exchanges : /\ Of(s, v, b0) \in SUBSET DOMAIN s
                                /\ Of(r, v, b0) = IF t.venue = v THEN Of(s, v, b0) \cup {n}
                                                  ELSE Of(s, v, b0)
    BY PlacesGrow DEF r, n, b0
  <2>2. /\ DOMAIN old.venues = Exchanges /\ DOMAIN old.stamps = Exchanges
        /\ Summed(old.all, s, At(s, b0))
        /\ (\A i \in At(s, b0) : s[i].venue # 0) => Counted(old.all, s, At(s, b0))
        /\ \A v \in Exchanges : /\ Summed(old.venues[v], s, Of(s, v, b0))
                                /\ Counted(old.venues[v], s, Of(s, v, b0))
    BY <1>4 DEF TellsBucket
  <2>3. DOMAIN new.venues = Exchanges /\ DOMAIN new.stamps = Exchanges
    BY <1>2, <2>2
  <2>4. Summed(new.all, r, At(r, b0))
    <3>1. Summed(Added(old.all, t, gap), r, At(s, b0) \cup {n})
      BY <2>1, <2>2, AddedSums DEF r, n
    <3> QED
      BY <1>2, <2>1, <3>1
  <2>5. (\A i \in At(r, b0) : r[i].venue # 0) => Counted(new.all, r, At(r, b0))
    <3> SUFFICES ASSUME \A i \in At(r, b0) : r[i].venue # 0
                 PROVE  Counted(new.all, r, At(r, b0))
      OBVIOUS
    <3>1. \A i \in At(s, b0) : s[i].venue # 0
      BY <1>1, <2>1
    <3>2. Counted(Added(old.all, t, gap), r, At(s, b0) \cup {n})
      BY <2>1, <2>2, <3>1, AddedSums DEF r, n
    <3> QED
      BY <1>2, <2>1, <3>2
  <2>6. ASSUME NEW v \in Exchanges
        PROVE  Summed(new.venues[v], r, Of(r, v, b0)) /\ Counted(new.venues[v], r, Of(r, v, b0))
    <3> DEFINE I == Of(s, v, b0)
               q == old.venues[v]
    <3>0. I \in SUBSET DOMAIN s /\ Summed(q, s, I) /\ Counted(q, s, I)
      BY <2>1, <2>2
    <3> HIDE DEF I, q
    <3>1. CASE v = t.venue
      <4>1. new.venues[v] = Added(q, t, gap) /\ Of(r, v, b0) = I \cup {n}
        BY <1>1, <1>2, <2>1, <2>2, <3>1 DEF q, I
      <4>2. Summed(Added(q, t, gap), r, I \cup {n}) /\ Counted(Added(q, t, gap), r, I \cup {n})
        BY <3>0, AddedSums DEF r, n
      <4> QED
        BY <4>1, <4>2
    <3>2. CASE v # t.venue
      <4>1. new.venues[v] = q /\ Of(r, v, b0) = I
        BY <1>1, <1>2, <2>1, <2>2, <3>2 DEF q, I
      <4>2. Summed(q, r, I) /\ Counted(q, r, I)
        BY <3>0, SummedSame DEF r
      <4> QED
        BY <4>1, <4>2
    <3> QED
      BY <3>1, <3>2
  <2> QED
    BY <1>2, <2>3, <2>4, <2>5, <2>6 DEF TellsBucket
<1>6. ASSUME NEW b \in DOMAIN bs, b # b0 PROVE TellsBucket(bs[b], r, b)
  <2> DEFINE d == bs[b]
  <2>1. TellsBucket(d, s, b)
    BY DEF Tells
  <2>2. /\ At(r, b) = At(s, b) /\ At(s, b) \in SUBSET DOMAIN s
        /\ \A v \in Exchanges : Of(r, v, b) = Of(s, v, b) /\ Of(s, v, b) \in SUBSET DOMAIN s
    BY <1>6, PlacesGrow DEF r, b0
  <2> HIDE DEF d
  <2>3. Summed(d.all, r, At(r, b))
    BY <2>1, <2>2, SummedSame DEF TellsBucket, r
  <2>4. (\A i \in At(r, b) : r[i].venue # 0) => Counted(d.all, r, At(r, b))
    <3> SUFFICES ASSUME \A i \in At(r, b) : r[i].venue # 0
                 PROVE  Counted(d.all, r, At(r, b))
      OBVIOUS
    <3>1. \A i \in At(s, b) : s[i].venue # 0
      BY <1>1, <2>2
    <3>2. Counted(d.all, s, At(s, b))
      BY <2>1, <3>1 DEF TellsBucket
    <3> QED
      BY <2>2, <3>2, SummedSame DEF r
  <2>5. ASSUME NEW v \in Exchanges
        PROVE  Summed(d.venues[v], r, Of(r, v, b)) /\ Counted(d.venues[v], r, Of(r, v, b))
    <3>1. Summed(d.venues[v], s, Of(s, v, b)) /\ Counted(d.venues[v], s, Of(s, v, b))
      BY <2>1 DEF TellsBucket
    <3>2. Of(r, v, b) = Of(s, v, b) /\ Of(s, v, b) \in SUBSET DOMAIN s
      BY <2>2
    <3> QED
      BY <3>1, <3>2, SummedSame DEF r
  <2>6. DOMAIN d = {"all", "venues", "stamps"} /\ DOMAIN d.venues = Exchanges
        /\ DOMAIN d.stamps = Exchanges
    BY <2>1 DEF TellsBucket
  <2>7. TellsBucket(d, r, b)
    BY <2>3, <2>4, <2>5, <2>6 DEF TellsBucket
  <2> QED
    BY <2>7 DEF d
<1>7. DOMAIN cs = {Bucket(r[i].at) : i \in DOMAIN r}
  <2>1. DOMAIN bs = {Bucket(s[i].at) : i \in DOMAIN s}
    BY DEF Tells
  <2> QED
    BY <1>1, <1>3, <2>1 DEF b0
<1>8. ASSUME NEW b \in DOMAIN cs PROVE TellsBucket(cs[b], r, b)
  <2>1. CASE b = b0
    BY <1>3, <1>5, <2>1
  <2>2. CASE b # b0
    <3>1. b \in DOMAIN bs
      BY <1>3, <2>2
    <3> QED
      BY <1>3, <1>6, <2>2, <3>1
  <2> QED
    BY <2>1, <2>2
<1> QED
  BY <1>7, <1>8 DEF Tells, r, cs

-----------------------------------------------------------------------------
(* The rows of the buckets that are closed *)

\* A row without its times between trades.
Plain(r) == [f \in DOMAIN r \ {"fills"} |-> r[f]]
Stripped(rows) == {Plain(r) : r \in rows}

\* What it should be for bucket b, of the venues that traded in it.
ExactBars(s, b) == {ExactBar(s, v, b) : v \in {w \in Exchanges : Of(s, w, b) # {}}}

LEMMA RowIsExact ==
    ASSUME NEW s \in Tape, NEW v, NEW b, NEW part, NEW fills,
           Of(s, v, b) # {}, Summed(part, s, Of(s, v, b)), Counted(part, s, Of(s, v, b))
    PROVE  Plain(Row(part, v, b, fills)) = ExactBar(s, v, b)
<1> DEFINE I == Of(s, v, b)
           plain == [venue |-> v, start |-> b, open |-> part.open, high |-> part.high,
                     low |-> part.low, close |-> part.close, prices |-> part.prices,
                     volume |-> part.volume, count |-> part.count]
           r == Row(part, v, b, fills)
<1>1. Plain(r) = plain
  BY DEF Row, Plain
<1>2. I \in SUBSET DOMAIN s
  BY DEF Of
<1>3. /\ Limit(Sizes(s), I) = [i \in I |-> s[i].quantity]
      /\ Limit(Rates(s), I) = [i \in I |-> s[i].price]
      /\ Limit(Ones(s), I) = [i \in I |-> 1]
  <2> HIDE DEF I
  <2> QED
    BY <1>2 DEF Limit, Sizes, Rates, Ones
<1>4. SumOf([i \in I |-> 1]) = Cardinality(I)
  <2> HIDE DEF I
  <2>1. I \in SUBSET Nat /\ IsFiniteSet(I)
    BY <1>2, TapeIs, FS_Subset
  <2> QED
    BY <2>1, CountIsSum
<1>5. /\ part.open = s[First(s, I)].price /\ part.close = s[Final(s, I)].price
      /\ part.high = Max(Prices(s, I)) /\ part.low = Min(Prices(s, I))
      /\ part.volume = SumOf([i \in I |-> s[i].quantity])
  <2> HIDE DEF I
  <2>1. I # {}
    BY DEF I
  <2>2. Summed(part, s, I)
    BY DEF I
  <2> QED
    BY <1>3, <2>1, <2>2 DEF Summed
<1>6. part.count = Cardinality(I) /\ part.prices = SumOf([i \in I |-> s[i].price])
  <2> HIDE DEF I
  <2>1. Counted(part, s, I)
    BY DEF I
  <2> QED
    BY <1>3, <1>4, <2>1 DEF Counted
<1>7. ExactBar(s, v, b) =
          [venue |-> v, start |-> b, open |-> s[First(s, I)].price,
           high |-> Max(Prices(s, I)), low |-> Min(Prices(s, I)),
           close |-> s[Final(s, I)].price, prices |-> SumOf([i \in I |-> s[i].price]),
           volume |-> SumOf([i \in I |-> s[i].quantity]), count |-> Cardinality(I)]
  BY DEF ExactBar
<1> HIDE DEF I
<1>8. plain = ExactBar(s, v, b)
  BY <1>5, <1>6, <1>7
<1> HIDE DEF r
<1> QED
  BY <1>1, <1>8 DEF r

\* The venues that have trades in a bucket are those with a number of them.
LEMMA TradedIn ==
    ASSUME NEW s \in Tape, NEW I \in SUBSET DOMAIN s, NEW part, Counted(part, s, I)
    PROVE  part.count > 0 <=> I # {}
<1>1. SumOf(Limit(Ones(s), I)) \in Nat /\ part.count = SumOf(Limit(Ones(s), I))
  BY TapeAmounts, LimitAmounts DEF Counted
<1>2. ASSUME I = {} PROVE part.count = 0
  <2>1. SumOf(Limit(Ones(s), {})) = 0
    BY DEF Limit, SumOf
  <2> QED
    BY <1>1, <1>2, <2>1
<1>3. ASSUME NEW i \in I PROVE part.count >= 1
  <2> DEFINE f == Limit(Ones(s), I)
  <2>1. f \in Amounts /\ i \in DOMAIN f /\ f[i] = 1
    <3>1. Ones(s)[i] = 1
      BY DEF Ones
    <3> QED
      BY <3>1, TapeAmounts, LimitAmounts
  <2> HIDE DEF f
  <2>2. f[i] <= SumOf(f)
    BY <2>1, SumAtLeast
  <2> QED
    BY <1>1, <2>1, <2>2 DEF f
<1> QED
  BY <1>1, <1>2, <1>3

LEMMA BarsForExact ==
    ASSUME NEW s \in Tape, NEW bs, Tells(bs, s), NEW b \in DOMAIN bs, NEW last
    PROVE  Stripped(BarsFor(bs, last, b)) = ExactBars(s, b)
<1> DEFINE W == {w \in Exchanges : bs[b].venues[w].count > 0}
           row(v) == Row(bs[b].venues[v], v, b, Fills(bs, last, v, b))
<1>1. ASSUME NEW v \in Exchanges
      PROVE  /\ Summed(bs[b].venues[v], s, Of(s, v, b)) /\ Counted(bs[b].venues[v], s, Of(s, v, b))
             /\ v \in W <=> Of(s, v, b) # {}
  <2>1. Summed(bs[b].venues[v], s, Of(s, v, b)) /\ Counted(bs[b].venues[v], s, Of(s, v, b))
    BY DEF Tells, TellsBucket
  <2>2. Of(s, v, b) \in SUBSET DOMAIN s
    BY DEF Of
  <2>3. bs[b].venues[v].count > 0 <=> Of(s, v, b) # {}
    BY <2>1, <2>2, TradedIn
  <2> QED
    BY <2>1, <2>3
<1>2. W = {w \in Exchanges : Of(s, w, b) # {}}
  <2> HIDE DEF W
  <2>1. W \in SUBSET Exchanges
    BY DEF W
  <2> QED
    BY <1>1, <2>1
<1>3. ASSUME NEW v \in W
      PROVE  Plain(row(v)) = ExactBar(s, v, b)
  <2>1. v \in Exchanges
    OBVIOUS
  <2>2. Of(s, v, b) # {} /\ Summed(bs[b].venues[v], s, Of(s, v, b))
        /\ Counted(bs[b].venues[v], s, Of(s, v, b))
    <3> HIDE DEF W
    <3> QED
      BY <1>1, <2>1
  <2> DEFINE fills == Fills(bs, last, v, b)
             part == bs[b].venues[v]
  <2>3. Of(s, v, b) # {} /\ Summed(part, s, Of(s, v, b)) /\ Counted(part, s, Of(s, v, b))
    BY <2>2
  <2> HIDE DEF fills, part, W
  <2>4. Plain(Row(part, v, b, fills)) = ExactBar(s, v, b)
    BY <2>3, RowIsExact
  <2> QED
    BY <2>4 DEF fills, part
<1>4. BarsFor(bs, last, b) = {row(v) : v \in W}
  BY DEF BarsFor
<1> HIDE DEF W, row
<1>5. Stripped(BarsFor(bs, last, b)) = {ExactBar(s, v, b) : v \in W}
  BY <1>3, <1>4 DEF Stripped
<1> QED
  BY <1>2, <1>5 DEF ExactBars

\* A bucket that is closed tells what it told, and its rows are exact.
LEMMA SettledKeeps ==
    ASSUME NEW s \in Tape, NEW m, Tells(m.buckets, s), NEW b \in DOMAIN m.buckets
    PROVE  /\ Tells(Settled(m, b).buckets, s)
           /\ Stripped(Settled(m, b).bars) = Stripped(m.bars) \cup ExactBars(s, b)
           /\ DOMAIN Settled(m, b).buckets = DOMAIN m.buckets
<1> DEFINE bs == m.buckets
           d == bs[b]
           F == [v \in Exchanges |-> Fills(m.buckets, m.last, v, b)]
           cs == Settled(m, b).buckets
<1>1. /\ DOMAIN d = {"all", "venues", "stamps"} /\ DOMAIN d.venues = Exchanges
      /\ \A v \in Exchanges : DOMAIN d.venues[v] = DOMAIN EmptyPart
  BY DEF Tells, TellsBucket, Summed
<1>2. \A v \in Exchanges : F[v] = Fills(m.buckets, m.last, v, b)
  OBVIOUS
<1>3. cs = [bs EXCEPT ![b].stamps = [v \in Exchanges |-> <<>>],
                      ![b].venues = [v \in Exchanges |-> [@[v] EXCEPT !.fills = F[v]]]]
  <2> HIDE DEF F
  <2> QED
    BY <1>2 DEF Settled
<1> HIDE DEF F
<1>4. DOMAIN cs = DOMAIN bs /\ \A x \in DOMAIN bs : x # b => cs[x] = bs[x]
  BY <1>3
<1>5. /\ DOMAIN cs[b] = DOMAIN d /\ cs[b].all = d.all /\ DOMAIN cs[b].stamps = Exchanges
      /\ cs[b].venues = [v \in Exchanges |-> [d.venues[v] EXCEPT !.fills = F[v]]]
  BY <1>1, <1>3
<1> HIDE DEF cs, d
<1>6. TellsBucket(d, s, b)
  BY DEF Tells, d
<1>7. ASSUME NEW v \in Exchanges, NEW I
      PROVE  /\ Summed(d.venues[v], s, I) => Summed(cs[b].venues[v], s, I)
             /\ Counted(d.venues[v], s, I) => Counted(cs[b].venues[v], s, I)
  <2> DEFINE p == d.venues[v]
             q == cs[b].venues[v]
  <2>1. q = [p EXCEPT !.fills = F[v]] /\ DOMAIN p = DOMAIN EmptyPart
    BY <1>1, <1>5
  <2> HIDE DEF p, q
  <2>2. /\ DOMAIN q = DOMAIN EmptyPart
        /\ q.volume = p.volume /\ q.notional = p.notional /\ q.count = p.count
        /\ q.prices = p.prices /\ q.open = p.open /\ q.openAt = p.openAt
        /\ q.close = p.close /\ q.closeAt = p.closeAt /\ q.high = p.high /\ q.low = p.low
    BY <2>1 DEF EmptyPart
  <2>3. Summed(p, s, I) => Summed(q, s, I)
    BY <2>2 DEF Summed
  <2>4. Counted(p, s, I) => Counted(q, s, I)
    BY <2>2 DEF Counted
  <2> QED
    BY <2>3, <2>4 DEF p, q
<1>8. TellsBucket(cs[b], s, b)
  <2>1. DOMAIN cs[b].venues = Exchanges
    BY <1>5
  <2>2. \A v \in Exchanges : /\ Summed(cs[b].venues[v], s, Of(s, v, b))
                             /\ Counted(cs[b].venues[v], s, Of(s, v, b))
    BY <1>6, <1>7 DEF TellsBucket
  <2> QED
    BY <1>5, <1>6, <2>1, <2>2 DEF TellsBucket
<1>9. Tells(cs, s)
  BY <1>4, <1>8 DEF Tells
<1>10. Stripped(Settled(m, b).bars) = Stripped(m.bars) \cup ExactBars(s, b)
  <2>1. Settled(m, b).bars = m.bars \cup BarsFor(m.buckets, m.last, b)
    BY DEF Settled
  <2>2. Stripped(BarsFor(m.buckets, m.last, b)) = ExactBars(s, b)
    BY BarsForExact
  <2>3. \A x, y : Stripped(x \cup y) = Stripped(x) \cup Stripped(y)
    BY DEF Stripped
  <2> QED
    BY <2>1, <2>2, <2>3
<1> QED
  BY <1>4, <1>9, <1>10 DEF cs

\* What is left of m when the buckets of `closing' up to n are closed; h does so
\* up to k.
Step(before, closing, n) == IF n \in closing THEN Settled(before, n) ELSE before
Closes(h, k, m, closing) ==
    /\ h[0] = Step(m, closing, 0)
    /\ \A n \in 1 .. k : h[n] = Step(h[n - 1], closing, n)

\* SettledAll closes one bucket after the other.
LEMMA SettledSteps ==
    ASSUME NEW m, NEW closing \in SUBSET Nat, closing # {}
    PROVE  \E g : /\ SettledAll(m, closing) = g[Max(closing)]
                  /\ \A k \in Nat : Closes(g, k, m, closing)
<1>1. \A k \in Nat : \E h : Closes(h, k, m, closing)
  <2> DEFINE S == {k \in Nat : \E h : Closes(h, k, m, closing)}
  <2>1. 0 \in S
    <3> DEFINE h == [i \in 0 .. 0 |-> Step(m, closing, 0)]
    <3>1. h[0] = Step(m, closing, 0) /\ 1 .. 0 = {}
      OBVIOUS
    <3> HIDE DEF h
    <3> QED
      BY <3>1 DEF Closes
  <2>2. ASSUME NEW k \in Nat, k \in S PROVE k + 1 \in S
    <3>1. PICK h : Closes(h, k, m, closing)
      BY <2>2
    <3> DEFINE g == [i \in Nat |-> IF i = k + 1 THEN Step(h[k], closing, k + 1) ELSE h[i]]
    <3>2. g[0] = h[0] /\ g[k + 1] = Step(h[k], closing, k + 1) /\ g[k] = h[k]
      OBVIOUS
    <3>3. \A i \in 0 .. k : g[i] = h[i]
      OBVIOUS
    <3> HIDE DEF g
    <3>4. ASSUME NEW n \in 1 .. k + 1 PROVE g[n] = Step(g[n - 1], closing, n)
      <4>1. CASE n = k + 1
        BY <3>2, <4>1
      <4>2. CASE n # k + 1
        <5>1. n \in 1 .. k /\ n \in 0 .. k /\ n - 1 \in 0 .. k
          BY <4>2
        <5>2. h[n] = Step(h[n - 1], closing, n)
          BY <3>1, <5>1 DEF Closes
        <5> QED
          BY <3>3, <5>1, <5>2
      <4> QED
        BY <4>1, <4>2
    <3>5. Closes(g, k + 1, m, closing)
      BY <3>1, <3>2, <3>4 DEF Closes
    <3> QED
      BY <3>5
  <2> HIDE DEF S
  <2>3. Nat \subseteq S
    BY <2>1, <2>2, AllNaturals
  <2> QED
    BY <2>3 DEF S
<1>2. ASSUME NEW a \in Nat, NEW b \in Nat, a <= b, NEW h, NEW k,
             Closes(h, a, m, closing), Closes(k, b, m, closing)
      PROVE  h[a] = k[a]
  <2> DEFINE S == {i \in Nat : i <= a => h[i] = k[i]}
  <2>1. 0 \in S
    BY <1>2 DEF Closes
  <2>2. ASSUME NEW n \in Nat, n \in S PROVE n + 1 \in S
    <3>1. CASE n + 1 <= a
      <4>1. n + 1 \in 1 .. a /\ n + 1 \in 1 .. b /\ (n + 1) - 1 = n /\ n <= a
        BY <1>2, <3>1
      <4>2. h[n] = k[n]
        BY <2>2, <4>1
      <4>3. h[n + 1] = Step(h[n], closing, n + 1)
        BY <1>2, <4>1 DEF Closes
      <4>4. k[n + 1] = Step(k[n], closing, n + 1)
        BY <1>2, <4>1 DEF Closes
      <4> QED
        BY <4>2, <4>3, <4>4
    <3>2. CASE ~(n + 1 <= a)
      BY <3>2
    <3> QED
      BY <3>1, <3>2
  <2> HIDE DEF S
  <2>3. Nat \subseteq S
    BY <2>1, <2>2, AllNaturals
  <2>4. a \in S
    BY <2>3
  <2> QED
    BY <2>4 DEF S
<1> DEFINE pick == [k \in Nat |-> CHOOSE h : Closes(h, k, m, closing)]
           g == [n \in Nat |-> pick[n][n]]
<1>3. \A k \in Nat : Closes(pick[k], k, m, closing)
  BY <1>1
<1> HIDE DEF pick
<1>4. \A n \in Nat : g[n] = pick[n][n]
  OBVIOUS
<1>5. DOMAIN g = Nat /\ g = [n \in Nat |-> g[n]]
  OBVIOUS
<1> HIDE DEF g
<1>6. g[0] = Step(m, closing, 0)
  BY <1>3, <1>4 DEF Closes
<1>7. ASSUME NEW n \in Nat \ {0} PROVE g[n] = Step(g[n - 1], closing, n)
  <2>1. n - 1 \in Nat /\ n - 1 <= n /\ n \in 1 .. n /\ n \in Nat
    OBVIOUS
  <2>2. pick[n][n] = Step(pick[n][n - 1], closing, n)
    BY <1>3, <2>1 DEF Closes
  <2>3. Closes(pick[n - 1], n - 1, m, closing) /\ Closes(pick[n], n, m, closing)
    BY <1>3, <2>1
  <2>4. pick[n - 1][n - 1] = pick[n][n - 1]
    BY <1>2, <2>1, <2>3
  <2> QED
    BY <1>4, <2>1, <2>2, <2>4
<1> DEFINE Goes(f) ==
        [n \in Nat |-> LET before == IF n = 0 THEN m ELSE f[n - 1]
                       IN IF n \in closing THEN Settled(before, n) ELSE before]
<1>8. \A f : \A n \in Nat : Goes(f)[n] = Step(IF n = 0 THEN m ELSE f[n - 1], closing, n)
  BY DEF Step
<1>9. g = Goes(g)
  <2>1. ASSUME NEW n \in Nat PROVE g[n] = Goes(g)[n]
    <3>1. Goes(g)[n] = Step(IF n = 0 THEN m ELSE g[n - 1], closing, n)
      BY <1>8
    <3> HIDE DEF Goes
    <3>2. CASE n = 0
      BY <1>6, <3>1, <3>2
    <3>3. CASE n # 0
      BY <1>7, <3>1, <3>3
    <3> QED
      BY <3>2, <3>3
  <2>2. DOMAIN Goes(g) = Nat /\ Goes(g) = [n \in Nat |-> Goes(g)[n]]
    OBVIOUS
  <2> HIDE DEF Goes
  <2> QED
    BY <1>5, <2>1, <2>2
<1> DEFINE after == CHOOSE f : f = Goes(f)
<1>10. SettledAll(m, closing) = after[Max(closing)]
  BY DEF SettledAll
<1>11. after = Goes(after)
  <2> HIDE DEF Goes
  <2> QED
    BY <1>9
<1> HIDE DEF after
<1>12. \A n \in Nat : after[n] = Step(IF n = 0 THEN m ELSE after[n - 1], closing, n)
  <2> HIDE DEF Goes
  <2> QED
    BY <1>8, <1>11
<1>13. \A k \in Nat : Closes(after, k, m, closing)
  <2> SUFFICES ASSUME NEW k \in Nat PROVE Closes(after, k, m, closing)
    OBVIOUS
  <2>1. after[0] = Step(m, closing, 0)
    BY <1>12
  <2>2. ASSUME NEW n \in 1 .. k PROVE after[n] = Step(after[n - 1], closing, n)
    <3>1. n \in Nat /\ n # 0
      OBVIOUS
    <3> QED
      BY <1>12, <3>1
  <2> QED
    BY <2>1, <2>2 DEF Closes
<1> QED
  BY <1>10, <1>13

\* Closing buckets keeps what is told, and adds their rows.
LEMMA SettledAllKeeps ==
    ASSUME NEW s \in Tape, NEW m, Tells(m.buckets, s),
           NEW closing \in SUBSET DOMAIN m.buckets, closing \in SUBSET Nat, IsFiniteSet(closing)
    PROVE  /\ Tells(SettledAll(m, closing).buckets, s)
           /\ Stripped(SettledAll(m, closing).bars) =
                  Stripped(m.bars) \cup UNION {ExactBars(s, b) : b \in closing}
<1>1. CASE closing = {}
  <2>1. SettledAll(m, closing) = m /\ UNION {ExactBars(s, b) : b \in closing} = {}
    BY <1>1 DEF SettledAll
  <2> QED
    BY <2>1
<1>2. CASE closing # {}
  <2>1. PICK g : /\ SettledAll(m, closing) = g[Max(closing)]
                 /\ \A k \in Nat : Closes(g, k, m, closing)
    BY <1>2, SettledSteps
  <2> DEFINE Upto(n) == {b \in closing : b <= n}
             Keeps(n) == /\ Tells(g[n].buckets, s) /\ DOMAIN g[n].buckets = DOMAIN m.buckets
                         /\ Stripped(g[n].bars) =
                                Stripped(m.bars) \cup UNION {ExactBars(s, b) : b \in Upto(n)}
  <2>2. ASSUME NEW before, NEW n \in Nat, Tells(before.buckets, s),
               DOMAIN before.buckets = DOMAIN m.buckets
        PROVE  LET x == Step(before, closing, n)
               IN /\ Tells(x.buckets, s) /\ DOMAIN x.buckets = DOMAIN m.buckets
                  /\ n \in closing => Stripped(x.bars) = Stripped(before.bars) \cup ExactBars(s, n)
                  /\ n \notin closing => Stripped(x.bars) = Stripped(before.bars)
    <3>1. CASE n \in closing
      <4>1. n \in DOMAIN before.buckets
        BY <2>2, <3>1
      <4>2. Step(before, closing, n) = Settled(before, n)
        BY <3>1 DEF Step
      <4> QED
        BY <2>2, <3>1, <4>1, <4>2, SettledKeeps
    <3>2. CASE n \notin closing
      BY <2>2, <3>2 DEF Step
    <3> QED
      BY <3>1, <3>2
  <2>3. g[0] = Step(m, closing, 0) /\ \A n \in Nat : g[n + 1] = Step(g[n], closing, n + 1)
    <3>1. g[0] = Step(m, closing, 0)
      BY <2>1 DEF Closes
    <3>2. ASSUME NEW n \in Nat PROVE g[n + 1] = Step(g[n], closing, n + 1)
      <4>1. n + 1 \in Nat /\ n + 1 \in 1 .. n + 1 /\ (n + 1) - 1 = n
        OBVIOUS
      <4>2. Closes(g, n + 1, m, closing)
        BY <2>1, <4>1
      <4> QED
        BY <4>1, <4>2 DEF Closes
    <3> QED
      BY <3>1, <3>2
  <2>4. \A b \in closing : b \in Nat
    OBVIOUS
  <2> DEFINE S == {n \in Nat : Keeps(n)}
  <2>5. 0 \in S
    <3>1. /\ Tells(g[0].buckets, s) /\ DOMAIN g[0].buckets = DOMAIN m.buckets
          /\ 0 \in closing => Stripped(g[0].bars) = Stripped(m.bars) \cup ExactBars(s, 0)
          /\ 0 \notin closing => Stripped(g[0].bars) = Stripped(m.bars)
      BY <2>2, <2>3
    <3>2. (0 \in closing => Upto(0) = {0}) /\ (0 \notin closing => Upto(0) = {})
      <4>1. \A b \in closing : b <= 0 <=> b = 0
        BY <2>4
      <4> QED
        BY <4>1
    <3> HIDE DEF Upto
    <3>3. CASE 0 \in closing
      <4>1. UNION {ExactBars(s, b) : b \in Upto(0)} = ExactBars(s, 0)
        BY <3>2, <3>3
      <4> QED
        BY <3>1, <3>3, <4>1
    <3>4. CASE 0 \notin closing
      <4>1. UNION {ExactBars(s, b) : b \in Upto(0)} = {}
        BY <3>2, <3>4
      <4> QED
        BY <3>1, <3>4, <4>1
    <3> QED
      BY <3>3, <3>4
  <2>6. ASSUME NEW n \in Nat, n \in S PROVE n + 1 \in S
    <3>0. n + 1 \in Nat
      OBVIOUS
    <3>1. Keeps(n)
      BY <2>6
    <3> DEFINE x == g[n + 1]
    <3>2. /\ Tells(x.buckets, s) /\ DOMAIN x.buckets = DOMAIN m.buckets
          /\ n + 1 \in closing => Stripped(x.bars) = Stripped(g[n].bars) \cup ExactBars(s, n + 1)
          /\ n + 1 \notin closing => Stripped(x.bars) = Stripped(g[n].bars)
      BY <2>2, <2>3, <3>0, <3>1
    <3>3. /\ n + 1 \in closing => Upto(n + 1) = Upto(n) \cup {n + 1}
          /\ n + 1 \notin closing => Upto(n + 1) = Upto(n)
      <4>1. \A b \in closing : b <= n + 1 <=> b <= n \/ b = n + 1
        BY <2>4
      <4> QED
        BY <4>1
    <3>4. Stripped(g[n].bars) = Stripped(m.bars) \cup UNION {ExactBars(s, b) : b \in Upto(n)}
      BY <3>1
    <3> HIDE DEF Upto
    <3>5. Stripped(x.bars) = Stripped(m.bars) \cup UNION {ExactBars(s, b) : b \in Upto(n + 1)}
      <4>1. CASE n + 1 \in closing
        <5>1. UNION {ExactBars(s, b) : b \in Upto(n + 1)} =
                  (UNION {ExactBars(s, b) : b \in Upto(n)}) \cup ExactBars(s, n + 1)
          BY <3>3, <4>1
        <5> QED
          BY <3>2, <3>4, <4>1, <5>1
      <4>2. CASE n + 1 \notin closing
        BY <3>2, <3>3, <3>4, <4>2
      <4> QED
        BY <4>1, <4>2
    <3> QED
      BY <3>0, <3>2, <3>5
  <2>7. Max(closing) \in closing /\ \A b \in closing : b <= Max(closing)
    BY <1>2, Extremes
  <2> DEFINE k == Max(closing)
  <2>8. k \in S
    <3> HIDE DEF S, k
    <3>1. Nat \subseteq S
      BY <2>5, <2>6, AllNaturals
    <3> QED
      BY <2>7, <3>1 DEF k
  <2>9. Upto(k) = closing
    BY <2>7
  <2>10. Tells(g[k].buckets, s)
         /\ Stripped(g[k].bars) = Stripped(m.bars) \cup UNION {ExactBars(s, b) : b \in closing}
    BY <2>8, <2>9
  <2> QED
    BY <2>1, <2>10
<1> QED
  BY <1>1, <1>2

-----------------------------------------------------------------------------
(* The bars are those of the trades that were folded *)

BucketsOf(s) == {Bucket(s[i].at) : i \in DOMAIN s}

\* rows are those of the trades of s, up to the bucket `through'.
TellsBars(rows, s, through) ==
    /\ through \in Int
    /\ through # None => \E k \in Int : through = k * Interval
    /\ Stripped(rows) = UNION {ExactBars(s, b) : b \in {x \in BucketsOf(s) : x <= through}}

\* What is kept, in memory or in the checkpoint, tells the trades s: the buckets
\* sum them up, and the rows of those that are closed are in the stream.
HistoryOK(bs, s, rows, through) ==
    s \in Tape /\ Tells(bs, s) /\ TellsBars(rows, s, through)

\* The inductive invariant: memory and the checkpoint alike, each tells the
\* trades that were folded when it was written.
ViewsInv ==
    /\ HistoryOK(buckets, folded, bars, closed) /\ newest \in Int
    /\ HistoryOK(saved.buckets, saved.folded, saved.bars, saved.closed) /\ saved.newest \in Int

LEMMA BucketMultiple ==
    ASSUME NEW x \in Int
    PROVE  \E k \in Int : /\ Bucket(x) = k * Interval
                          /\ Bucket(x) - Interval = (k - 1) * Interval
                          /\ Bucket(x) \in Int /\ (x \in Nat => Bucket(x) \in Nat)
<1>1. Interval \in Nat \ {0}
  BY IntervalOK
<1> DEFINE k == x \div Interval
<1>2. k \in Int /\ (x \in Nat => k \in Nat)
  BY <1>1
<1>3. Bucket(x) = k * Interval
  BY DEF Bucket
<1> HIDE DEF k
<1>4. (k - 1) * Interval = k * Interval - Interval
  BY <1>1, <1>2
<1>5. k * Interval \in Int /\ (k \in Nat => k * Interval \in Nat)
  BY <1>1, <1>2
<1> QED
  BY <1>2, <1>3, <1>4, <1>5

\* Multiples of the interval are an interval apart.
LEMMA MultiplesApart ==
    ASSUME NEW j \in Int, NEW k \in Int
    PROVE  k * Interval < j * Interval <=> k * Interval + Interval <= j * Interval
<1>1. Interval \in Nat \ {0}
  BY IntervalOK
<1>2. k * Interval \in Int /\ j * Interval \in Int
  BY <1>1
<1>3. CASE k < j
  <2>1. k + 1 <= j
    BY <1>3
  <2>2. (k + 1) * Interval <= j * Interval
    BY <1>1, <2>1
  <2>3. (k + 1) * Interval = k * Interval + Interval
    BY <1>1
  <2> QED
    BY <1>1, <1>2, <2>2, <2>3
<1>4. CASE ~(k < j)
  <2>1. j * Interval <= k * Interval
    BY <1>1, <1>4
  <2> QED
    BY <1>1, <1>2, <2>1
<1> QED
  BY <1>3, <1>4

LEMMA BucketsOfTape ==
    ASSUME NEW s \in Tape
    PROVE  /\ BucketsOf(s) \in SUBSET Nat /\ IsFiniteSet(BucketsOf(s))
           /\ \A b \in BucketsOf(s) : \E k \in Int : b = k * Interval
<1> DEFINE f == [i \in DOMAIN s |-> Bucket(s[i].at)]
<1>1. \A i \in DOMAIN s : Bucket(s[i].at) \in Nat /\ \E k \in Int : Bucket(s[i].at) = k * Interval
  <2> SUFFICES ASSUME NEW i \in DOMAIN s
               PROVE  Bucket(s[i].at) \in Nat /\ \E k \in Int : Bucket(s[i].at) = k * Interval
    OBVIOUS
  <2>1. s[i].at \in Nat /\ s[i].at \in Int
    BY TapeIs
  <2> QED
    BY <2>1, BucketMultiple
<1>2. BucketsOf(s) = {f[i] : i \in DOMAIN s} /\ DOMAIN f = DOMAIN s
  BY DEF BucketsOf
<1> HIDE DEF f
<1>3. IsFiniteSet(BucketsOf(s))
  BY <1>2, TapeIs, ImageFinite
<1> QED
  BY <1>1, <1>3 DEF BucketsOf

\* A bucket that a trade is not in keeps its rows.
LEMMA BarsSame ==
    ASSUME NEW s \in Tape, NEW t \in Tradable, NEW bs, Tells(bs, s), NEW b \in BucketsOf(s),
           b # Bucket(t.at)
    PROVE  ExactBars(Append(s, t), b) = ExactBars(s, b)
<1> DEFINE r == Append(s, t)
<1>1. b \in DOMAIN bs
  BY DEF Tells, BucketsOf
<1>2. r \in Tape /\ \A v : Of(r, v, b) = Of(s, v, b) /\ Of(s, v, b) \in SUBSET DOMAIN s
  BY PlacesGrow, TapeGrows
<1>3. ASSUME NEW v \in Exchanges, Of(s, v, b) # {} PROVE ExactBar(r, v, b) = ExactBar(s, v, b)
  <2> DEFINE part == bs[b].venues[v]
             I == Of(s, v, b)
  <2>1. Summed(part, s, I) /\ Counted(part, s, I)
    BY <1>1 DEF Tells, TellsBucket
  <2>2. I \in SUBSET DOMAIN s /\ I = Of(r, v, b)
    BY <1>2
  <2> HIDE DEF part, I
  <2>3. Summed(part, r, I) /\ Counted(part, r, I)
    BY <2>1, <2>2, SummedSame
  <2> HIDE DEF r
  <2>4. Plain(Row(part, v, b, <<>>)) = ExactBar(r, v, b)
    BY <1>2, <1>3, <2>2, <2>3, RowIsExact DEF I
  <2>5. Plain(Row(part, v, b, <<>>)) = ExactBar(s, v, b)
    BY <1>3, <2>1, RowIsExact DEF I
  <2> QED
    BY <2>4, <2>5
<1> HIDE DEF r
<1>4. ExactBars(r, b) = ExactBars(s, b)
  BY <1>2, <1>3 DEF ExactBars
<1> QED
  BY <1>4 DEF r

LEMMA TradesAreTradable == Trades \subseteq Tradable
BY ViewsConstantsOK DEF Tradable

\* A trade that is folded is of a bucket that is not closed, and the buckets up
\* to the new watermark are closed, which may be none.
LEMMA HandleIs ==
    ASSUME NEW t \in Trades, HandleTrade(t), HistoryOK(buckets, folded, bars, closed), newest \in Int
    PROVE  LET with == WithTrade(buckets, t, lastAt)
               closing == {b \in BucketsOf(folded') : closed < b /\ b <= closed'}
               after == SettledAll([buckets |-> with, last |-> settled, bars |-> bars], closing)
           IN /\ t \in Tradable /\ Bucket(t.at) \in Nat /\ closed \in Int /\ Bucket(t.at) > closed
              /\ folded' = Append(folded, t) /\ folded' \in Tape /\ newest' \in Int
              /\ BucketsOf(folded') = BucketsOf(folded) \cup {Bucket(t.at)}
              /\ Tells(with, folded') /\ DOMAIN with = BucketsOf(folded')
              /\ closed' \in Int /\ closed <= closed'
              /\ closed' # None => \E k \in Int : closed' = k * Interval
              /\ buckets' = after.buckets /\ settled' = after.last /\ bars' = after.bars
<1> DEFINE s == folded
           r == Append(s, t)
           with == WithTrade(buckets, t, lastAt)
           max == Max({newest, t.at})
           through == ClosesThrough(max)
           lower == IF closed = None THEN Min(DOMAIN with) ELSE closed + Interval
           m == [buckets |-> with, last |-> settled, bars |-> bars]
           closing == {b \in DOMAIN with : lower <= b /\ b <= through}
           after == SettledAll(m, closing)
           b0 == Bucket(t.at)
<1>1. t \in Tradable /\ s \in Tape /\ Tells(buckets, s) /\ TellsBars(bars, s, closed)
  BY TradesAreTradable DEF HistoryOK
<1>2. /\ closed # None => Bucket(t.at) > closed
      /\ folded' = r /\ newest' = max
      /\ Advances(with, through) => /\ buckets' = after.buckets /\ settled' = after.last
                                    /\ bars' = after.bars /\ closed' = through
      /\ ~Advances(with, through) => /\ buckets' = with /\ settled' = settled
                                     /\ bars' = bars /\ closed' = closed
  BY DEF HandleTrade
<1>3. r \in Tape /\ t.at \in Nat /\ Tells(with, r)
  BY <1>1, TapeGrows, FoldTells
<1>4. max \in Int
  <2>1. t.at \in Int
    BY <1>3
  <2>2. Max({newest, t.at}) = IF newest <= t.at THEN t.at ELSE newest
    BY <2>1, MinOfTwo
  <2> QED
    BY <2>1, <2>2
<1>5. through \in Int /\ \E k \in Int : through = k * Interval
  <2> HIDE DEF max
  <2>1. max - Lateness \in Int
    BY <1>4, ViewsConstantsOK
  <2>2. PICK k \in Int : Bucket(max - Lateness) - Interval = (k - 1) * Interval
    BY <2>1, BucketMultiple
  <2>3. k - 1 \in Int /\ (k - 1) * Interval \in Int
    BY IntervalOK
  <2> QED
    BY <2>2, <2>3 DEF ClosesThrough
<1>6. closed \in Int /\ (closed # None => \E k \in Int : closed = k * Interval)
  BY <1>1 DEF TellsBars
<1>7. b0 \in Nat /\ b0 > closed
  <2>1. b0 \in Nat
    BY <1>3, BucketMultiple
  <2> HIDE DEF b0
  <2> QED
    BY <1>2, <1>6, <2>1 DEF None, b0
<1> HIDE DEF r, with, max, through, m, b0
<1>8. BucketsOf(r) = BucketsOf(s) \cup {b0} /\ DOMAIN with = BucketsOf(r)
  <2>1. DOMAIN r = DOMAIN s \cup {Len(s) + 1} /\ r[Len(s) + 1] = t
        /\ \A i \in DOMAIN s : r[i] = s[i]
    BY <1>1, TapeGrows DEF r
  <2>2. BucketsOf(r) = BucketsOf(s) \cup {b0}
    BY <2>1 DEF BucketsOf, b0
  <2> QED
    BY <1>3, <2>2 DEF Tells, BucketsOf
<1>9. BucketsOf(r) \in SUBSET Nat /\ \A b \in BucketsOf(r) : \E k \in Int : b = k * Interval
  BY <1>3, BucketsOfTape
<1>10. CASE ~Advances(with, through)
  <2>1. {b \in BucketsOf(r) : closed < b /\ b <= closed'} = {}
    BY <1>2, <1>6, <1>9, <1>10
  <2>2. SettledAll(m, {}) = m
    BY DEF SettledAll
  <2>3. m.buckets = with /\ m.last = settled /\ m.bars = bars
    BY DEF m
  <2>4. closed' = closed /\ closed <= closed'
    BY <1>2, <1>6, <1>10
  <2> QED
    BY <1>1, <1>2, <1>3, <1>4, <1>6, <1>7, <1>8, <1>10, <2>1, <2>2, <2>3, <2>4 DEF r, with, m, b0
<1>11. CASE Advances(with, through)
  <2>1. DOMAIN with # {} /\ DOMAIN with \in SUBSET Nat
    BY <1>8, <1>9
  <2>2. Min(DOMAIN with) \in DOMAIN with /\ \A x \in DOMAIN with : Min(DOMAIN with) <= x
    BY <2>1, Extremes
  <2> DEFINE least == Min(DOMAIN with)
  <2>3. least \in Nat /\ \A x \in DOMAIN with : least <= x
    BY <2>1, <2>2
  <2>4. IF closed = None THEN through >= least ELSE through > closed
    BY <1>11 DEF Advances
  <2>5. closed <= through
    <3> HIDE DEF least
    <3> QED
      BY <1>5, <1>6, <2>3, <2>4 DEF None
  <2>6. ASSUME NEW b \in DOMAIN with PROVE lower <= b <=> closed < b
    <3>1. b \in Nat /\ least <= b
      BY <2>1, <2>3
    <3>2. CASE closed = None
      <4>1. lower = least
        BY <3>2
      <4> HIDE DEF least, lower
      <4> QED
        BY <2>3, <3>1, <3>2, <4>1 DEF None
    <3>3. CASE closed # None
      <4>1. lower = closed + Interval
        BY <3>3
      <4>2. PICK k \in Int : closed = k * Interval
        BY <1>6, <3>3
      <4>3. PICK j \in Int : b = j * Interval
        BY <1>8, <1>9
      <4>4. k * Interval < j * Interval <=> k * Interval + Interval <= j * Interval
        BY MultiplesApart
      <4> QED
        BY <4>1, <4>2, <4>3, <4>4
    <3> QED
      BY <3>2, <3>3
  <2>7. closing = {b \in BucketsOf(r) : closed < b /\ b <= through}
    <3> HIDE DEF lower
    <3> QED
      BY <1>8, <2>6
  <2> QED
    BY <1>1, <1>2, <1>3, <1>4, <1>5, <1>6, <1>7, <1>8, <1>11, <2>5, <2>7 DEF r, with, m, b0
<1> QED
  BY <1>10, <1>11

LEMMA HandleKeeps ==
    ASSUME NEW t \in Trades, HandleTrade(t), HistoryOK(buckets, folded, bars, closed), newest \in Int
    PROVE  HistoryOK(buckets', folded', bars', closed') /\ newest' \in Int
<1> DEFINE s == folded
           r == folded'
           b0 == Bucket(t.at)
           with == WithTrade(buckets, t, lastAt)
           m == [buckets |-> with, last |-> settled, bars |-> bars]
           closing == {b \in BucketsOf(r) : closed < b /\ b <= closed'}
           after == SettledAll(m, closing)
<1>1. /\ t \in Tradable /\ b0 \in Nat /\ closed \in Int /\ b0 > closed
      /\ r = Append(s, t) /\ r \in Tape /\ newest' \in Int
      /\ BucketsOf(r) = BucketsOf(s) \cup {b0} /\ Tells(with, r) /\ DOMAIN with = BucketsOf(r)
      /\ closed' \in Int /\ closed <= closed'
      /\ closed' # None => \E k \in Int : closed' = k * Interval
      /\ buckets' = after.buckets /\ bars' = after.bars
  BY HandleIs
<1>2. s \in Tape /\ Tells(buckets, s) /\ TellsBars(bars, s, closed)
  BY DEF HistoryOK
<1> HIDE DEF r, with, m, b0
<1>3. BucketsOf(r) \in SUBSET Nat /\ IsFiniteSet(BucketsOf(r))
  BY <1>1, BucketsOfTape
<1>4. ASSUME NEW b \in BucketsOf(s), b <= closed
      PROVE  ExactBars(r, b) = ExactBars(s, b)
  <2>1. b # b0
    BY <1>1, <1>3, <1>4
  <2> QED
    BY <1>1, <1>2, <2>1, BarsSame DEF b0
<1>5. Stripped(bars) = UNION {ExactBars(r, b) : b \in {x \in BucketsOf(r) : x <= closed}}
  <2>1. {x \in BucketsOf(r) : x <= closed} = {x \in BucketsOf(s) : x <= closed}
    BY <1>1
  <2>2. Stripped(bars) = UNION {ExactBars(s, b) : b \in {x \in BucketsOf(s) : x <= closed}}
    BY <1>2 DEF TellsBars
  <2> QED
    BY <1>4, <2>1, <2>2
<1>6. /\ closing \in SUBSET DOMAIN with /\ closing \in SUBSET Nat /\ IsFiniteSet(closing)
      /\ {x \in BucketsOf(r) : x <= closed'} = {x \in BucketsOf(r) : x <= closed} \cup closing
  <2>1. closing \in SUBSET BucketsOf(r)
    OBVIOUS
  <2>2. \A x \in BucketsOf(r) : x <= closed' <=> x <= closed \/ (closed < x /\ x <= closed')
    BY <1>1, <1>3
  <2> QED
    BY <1>1, <1>3, <2>1, <2>2, FS_Subset
<1> HIDE DEF closing
<1>7. /\ Tells(after.buckets, r)
      /\ Stripped(after.bars) = Stripped(bars) \cup UNION {ExactBars(r, b) : b \in closing}
  <2>1. m.buckets = with /\ m.bars = bars
    BY DEF m
  <2> QED
    BY <1>1, <1>6, <2>1, SettledAllKeeps
<1> HIDE DEF after
<1>8. Stripped(after.bars) = UNION {ExactBars(r, b) : b \in {x \in BucketsOf(r) : x <= closed'}}
  <2> DEFINE A == {x \in BucketsOf(r) : x <= closed}
             C == {x \in BucketsOf(r) : x <= closed'}
  <2>1. C = A \cup closing /\ Stripped(bars) = UNION {ExactBars(r, b) : b \in A}
    BY <1>5, <1>6
  <2> HIDE DEF A, C
  <2>2. UNION {ExactBars(r, b) : b \in C} = (UNION {ExactBars(r, b) : b \in A})
                                             \cup UNION {ExactBars(r, b) : b \in closing}
    BY <2>1
  <2> QED
    BY <1>7, <2>1, <2>2 DEF C
<1>9. TellsBars(bars', r, closed')
  BY <1>1, <1>8 DEF TellsBars
<1> QED
  BY <1>1, <1>7, <1>9 DEF HistoryOK, r

\* The candles of an earlier version tell its trades.
LEMMA MigratedTells ==
    ASSUME NEW s \in Legacy
    PROVE  s \in Tape /\ Tells(Migrated(LegacyRows(s)), s) /\ \A b : ExactBars(s, b) = {}
<1> DEFINE rows == LegacyRows(s)
           bs == Migrated(rows)
           J(b) == {i \in DOMAIN s : s[i].at = b}
<1>1. s \in Seq(Trade) /\ \A i \in DOMAIN s : s[i].venue = 0 /\ s[i].quantity > 0
                                              /\ s[i].at % Interval = 0
  BY ViewsConstantsOK
<1>2. s \in Tape
  BY <1>1 DEF Tape
<1>3. ASSUME NEW i \in DOMAIN s PROVE Bucket(s[i].at) = s[i].at
  <2> DEFINE x == s[i].at
             k == x \div Interval
  <2>1. x \in Nat /\ x % Interval = 0 /\ Interval \in Nat \ {0}
    BY <1>1, <1>2, TapeIs, IntervalOK
  <2> HIDE DEF x
  <2>2. k * Interval = x
    BY <2>1
  <2> QED
    BY <2>2 DEF Bucket, x
<1>4. \A v \in Exchanges : \A b : Of(s, v, b) = {}
  BY <1>1, VenuesAre DEF Of
<1>5. \A b : ExactBars(s, b) = {}
  BY <1>4 DEF ExactBars
<1>6. DOMAIN bs = {s[i].at : i \in DOMAIN s}
  BY DEF Migrated, LegacyRows
<1>7. DOMAIN bs = {Bucket(s[i].at) : i \in DOMAIN s}
  BY <1>3, <1>6
<1>8. ASSUME NEW b \in DOMAIN bs PROVE TellsBucket(bs[b], s, b)
  <2> DEFINE I == J(b)
             c == Candle(s, I)
             all == [volume |-> c.volume, notional |-> c.notional, count |-> 1,
                     prices |-> IF c.volume = 0 THEN 0 ELSE c.notional \div c.volume,
                     open |-> c.open, high |-> c.high, low |-> c.low,
                     close |-> c.close, openAt |-> b, closeAt |-> b, fills |-> <<>>]
  <2>1. rows[b] = c
    BY <1>6 DEF LegacyRows
  <2>2. bs[b] = [EmptyBucket EXCEPT !.all = all]
    <3>1. DOMAIN rows = DOMAIN bs
      BY DEF Migrated
    <3> HIDE DEF c, rows
    <3> QED
      BY <2>1, <3>1 DEF Migrated
  <2> HIDE DEF all, bs, rows
  <2>3. /\ DOMAIN bs[b] = {"all", "venues", "stamps"} /\ DOMAIN bs[b].venues = Exchanges
        /\ DOMAIN bs[b].stamps = Exchanges /\ bs[b].all = all
        /\ \A v \in Exchanges : bs[b].venues[v] = EmptyPart
    BY <2>2 DEF EmptyBucket
  <2>4. I \in SUBSET DOMAIN s /\ I # {}
    BY <1>6
  <2>5. At(s, b) = I
    BY <1>3 DEF At
  <2>6. \A i \in I : s[i].at = b
    OBVIOUS
  <2> HIDE DEF I
  <2>7. /\ c.open = s[First(s, I)].price /\ c.close = s[Final(s, I)].price
        /\ c.high = Max(Prices(s, I)) /\ c.low = Min(Prices(s, I))
        /\ c.volume = SumOf([i \in I |-> s[i].quantity])
        /\ c.notional = SumOf([i \in I |-> s[i].price * s[i].quantity])
    BY DEF Candle
  <2>8. /\ Limit(Sizes(s), I) = [i \in I |-> s[i].quantity]
        /\ Limit(Costs(s), I) = [i \in I |-> s[i].price * s[i].quantity]
    BY <2>4 DEF Limit, Sizes, Costs
  <2>9. s[First(s, I)].at = b /\ s[Final(s, I)].at = b
    <3>1. First(s, I) \in I /\ Final(s, I) \in I
      BY <1>2, <2>4, TapePlaces, FirstLeads, FinalEnds DEF Leads, Ends
    <3> QED
      BY <2>6, <3>1
  <2> HIDE DEF c
  <2>10. /\ DOMAIN all = DOMAIN EmptyPart
         /\ all.volume = c.volume /\ all.notional = c.notional /\ all.open = c.open
         /\ all.high = c.high /\ all.low = c.low /\ all.close = c.close
         /\ all.openAt = b /\ all.closeAt = b
    BY DEF all, EmptyPart
  <2>11. Summed(all, s, I)
    BY <2>4, <2>7, <2>8, <2>9, <2>10 DEF Summed
  <2>12. ~(\A i \in At(s, b) : s[i].venue # 0)
    BY <1>1, <2>4, <2>5
  <2>13. \A v \in Exchanges : /\ Summed(bs[b].venues[v], s, Of(s, v, b))
                              /\ Counted(bs[b].venues[v], s, Of(s, v, b))
    BY <1>4, <2>3, EmptySums
  <2> QED
    BY <2>3, <2>5, <2>11, <2>12, <2>13 DEF TellsBucket
<1> HIDE DEF bs
<1>9. Tells(bs, s)
  BY <1>7, <1>8 DEF Tells
<1> QED
  BY <1>2, <1>5, <1>9 DEF bs

LEMMA InitViewsInv == ViewsInit => ViewsInv
<1> SUFFICES ASSUME ViewsInit PROVE ViewsInv
  OBVIOUS
<1>1. PICK s \in Legacy : folded = s /\ buckets = Migrated(LegacyRows(s))
  BY DEF ViewsInit
<1>2. s \in Tape /\ Tells(buckets, s) /\ \A b : ExactBars(s, b) = {}
  BY <1>1, MigratedTells
<1>3. /\ newest = NewestBucket(buckets)
      /\ closed = IF newest = None THEN None ELSE newest - Interval
      /\ bars = {} /\ saved = Kept
  BY DEF ViewsInit
<1>4. DOMAIN buckets = BucketsOf(s)
  BY <1>2 DEF Tells, BucketsOf
<1>5. newest = None \/ newest \in BucketsOf(s)
  <2>1. CASE BucketsOf(s) = {}
    BY <1>3, <1>4, <2>1 DEF NewestBucket
  <2>2. CASE BucketsOf(s) # {}
    <3>1. BucketsOf(s) \in SUBSET Nat /\ IsFiniteSet(BucketsOf(s))
      BY <1>2, BucketsOfTape
    <3>2. Max(BucketsOf(s)) \in BucketsOf(s)
      BY <2>2, <3>1, Extremes
    <3> QED
      BY <1>3, <1>4, <2>2, <3>2 DEF NewestBucket
  <2> QED
    BY <2>1, <2>2
<1>6. newest \in Int /\ closed \in Int /\ (closed # None => \E k \in Int : closed = k * Interval)
  <2>1. CASE newest = None
    BY <1>3, <2>1 DEF None
  <2>2. CASE newest # None
    <3>1. newest \in Nat
      BY <1>2, <1>5, <2>2, BucketsOfTape
    <3>2. PICK k \in Int : newest = k * Interval
      BY <1>2, <1>5, <2>2, BucketsOfTape
    <3>3. (k - 1) * Interval = k * Interval - Interval /\ k - 1 \in Int
      BY IntervalOK
    <3>4. closed = newest - Interval
      BY <1>3, <2>2
    <3>5. closed = (k - 1) * Interval
      BY <3>2, <3>3, <3>4
    <3>6. closed \in Int
      BY <3>1, <3>4, IntervalOK
    <3> QED
      BY <3>1, <3>3, <3>5, <3>6
  <2> QED
    BY <2>1, <2>2
<1>7. TellsBars(bars, s, closed)
  <2>1. Stripped(bars) = {}
    BY <1>3 DEF Stripped
  <2>2. UNION {ExactBars(s, b) : b \in {x \in BucketsOf(s) : x <= closed}} = {}
    BY <1>2
  <2> QED
    BY <1>6, <2>1, <2>2 DEF TellsBars
<1>8. HistoryOK(buckets, folded, bars, closed)
  BY <1>1, <1>2, <1>7 DEF HistoryOK
<1>9. /\ saved.buckets = buckets /\ saved.folded = folded /\ saved.bars = bars
      /\ saved.closed = closed /\ saved.newest = newest
  BY <1>3 DEF Kept
<1> QED
  BY <1>6, <1>8, <1>9 DEF ViewsInv

LEMMA NextViewsInv == ViewsInv /\ [ViewsNext]_viewsVars => ViewsInv'
<1> SUFFICES ASSUME ViewsInv, [ViewsNext]_viewsVars PROVE ViewsInv'
  OBVIOUS
<1>1. ASSUME NEW t \in Trades, HandleTrade(t) PROVE ViewsInv'
  <2>1. HistoryOK(buckets', folded', bars', closed') /\ newest' \in Int
    BY <1>1, HandleKeeps DEF ViewsInv
  <2>2. UNCHANGED saved
    BY <1>1 DEF HandleTrade
  <2> QED
    BY <2>1, <2>2 DEF ViewsInv
<1>2. ASSUME UNCHANGED <<buckets, folded, bars, closed, newest, saved>> PROVE ViewsInv'
  BY <1>2 DEF ViewsInv
<1>3. ASSUME NEW t \in Trades, DropTrade(t) PROVE ViewsInv'
  BY <1>2, <1>3 DEF DropTrade, memory, output
<1>4. ASSUME NEW v, NEW q, ApplyQuote(v, q) PROVE ViewsInv'
  BY <1>2, <1>4 DEF ApplyQuote, memory, output
<1>5. ASSUME NEW v, Expire(v) PROVE ViewsInv'
  BY <1>2, <1>5 DEF Expire, memory, output
<1>6. CASE CommitViews
  <2>1. UNCHANGED <<buckets, folded, bars, closed, newest>>
    BY <1>6 DEF CommitViews, memory, output
  <2>2. /\ saved'.buckets = buckets /\ saved'.folded = folded /\ saved'.bars = bars
        /\ saved'.closed = closed /\ saved'.newest = newest
    BY <1>6 DEF CommitViews, Kept
  <2> QED
    BY <2>1, <2>2 DEF ViewsInv
<1>7. CASE Reload
  <2>1. /\ buckets' = saved.buckets /\ folded' = saved.folded /\ bars' = saved.bars
        /\ closed' = saved.closed /\ newest' = saved.newest /\ UNCHANGED saved
    BY <1>7 DEF Reload
  <2> QED
    BY <2>1 DEF ViewsInv
<1>8. CASE UNCHANGED viewsVars
  BY <1>2, <1>8 DEF viewsVars, memory, output
<1> QED
  BY <1>1, <1>3, <1>4, <1>5, <1>6, <1>7, <1>8 DEF ViewsNext

LEMMA ViewsInvHolds == ViewsSpec => []ViewsInv
BY InitViewsInv, NextViewsInv, PTL DEF ViewsSpec

-----------------------------------------------------------------------------
(* Candles of several buckets *)

LEMMA MaxIs ==
    ASSUME NEW D \in SUBSET Nat, NEW m \in D
    PROVE  /\ (\A x \in D : x <= m) => Max(D) = m
           /\ (\A x \in D : m <= x) => Min(D) = m
<1>1. \A x \in D : x \in Nat
  OBVIOUS
<1>2. ASSUME \A x \in D : x <= m PROVE Max(D) = m
  <2>1. \A x \in D : m >= x
    BY <1>1, <1>2
  <2>2. \A y \in D : (\A x \in D : y >= x) => y = m
    BY <1>1, <1>2
  <2> QED
    BY <2>1, <2>2 DEF Max
<1>3. ASSUME \A x \in D : m <= x PROVE Min(D) = m
  <2>1. \A y \in D : (\A x \in D : y <= x) => y = m
    BY <1>1, <1>3
  <2> QED
    BY <1>3, <2>1 DEF Min
<1> QED
  BY <1>2, <1>3

\* The buckets of a window are those its trades are in.
LEMMA WindowTells ==
    ASSUME NEW s \in Tape, NEW bs, Tells(bs, s), NEW c \in Nat \ {0}, c % Interval = 0, NEW w
    PROVE  LET I == In(s, c, w)
               K == Starts(bs, c, w)
           IN /\ K \in SUBSET DOMAIN bs /\ K \in SUBSET Nat /\ IsFiniteSet(K)
              /\ I \in SUBSET DOMAIN s
              /\ \A i \in DOMAIN s : i \in I <=> Bucket(s[i].at) \in K
              /\ \A b \in K : At(s, b) # {} /\ At(s, b) \in SUBSET I
<1> DEFINE I == In(s, c, w)
           K == Starts(bs, c, w)
<1>1. DOMAIN bs = BucketsOf(s)
  BY DEF Tells, BucketsOf
<1>2. BucketsOf(s) \in SUBSET Nat /\ IsFiniteSet(BucketsOf(s))
  BY BucketsOfTape
<1>3. K \in SUBSET DOMAIN bs
  BY DEF Starts
<1>4. ASSUME NEW b \in DOMAIN bs PROVE bs[b].all.volume > 0 /\ At(s, b) # {}
  <2>1. PICK i \in DOMAIN s : Bucket(s[i].at) = b
    BY <1>1 DEF BucketsOf
  <2>2. i \in At(s, b) /\ At(s, b) \in SUBSET DOMAIN s
    BY <2>1 DEF At
  <2> DEFINE f == Limit(Sizes(s), At(s, b))
  <2>3. f \in Amounts /\ i \in DOMAIN f /\ f[i] = s[i].quantity /\ SumOf(f) \in Nat
    <3>1. Sizes(s)[i] = s[i].quantity
      BY DEF Sizes
    <3> QED
      BY <2>2, <3>1, TapeAmounts, LimitAmounts
  <2>4. bs[b].all.volume = SumOf(f)
    BY DEF Tells, TellsBucket, Summed
  <2> HIDE DEF f
  <2>5. f[i] <= SumOf(f)
    BY <2>3, SumAtLeast
  <2>6. s[i].quantity \in Nat \ {0}
    BY TapeIs
  <2> QED
    BY <2>2, <2>3, <2>4, <2>5, <2>6
<1>5. ASSUME NEW i \in DOMAIN s PROVE i \in I <=> Bucket(s[i].at) \in K
  <2>1. s[i].at \in Nat /\ Bucket(s[i].at) \in DOMAIN bs
    BY <1>1, TapeIs DEF BucketsOf
  <2>2. Window(Bucket(s[i].at), c) = Window(s[i].at, c)
    BY <2>1, WindowOfBucket
  <2>3. bs[Bucket(s[i].at)].all.volume > 0
    BY <1>4, <2>1
  <2>4. Bucket(s[i].at) \in K <=> Window(Bucket(s[i].at), c) = w
    BY <2>1, <2>3 DEF Starts
  <2>5. i \in I <=> Window(s[i].at, c) = w
    BY DEF In
  <2> QED
    BY <2>2, <2>4, <2>5
<1>6. \A b \in K : At(s, b) # {}
  BY <1>3, <1>4
<1>7. \A b \in K : At(s, b) \in SUBSET I
  BY <1>5 DEF At
<1>8. K \in SUBSET Nat /\ IsFiniteSet(K)
  <2> HIDE DEF K
  <2> QED
    BY <1>1, <1>2, <1>3, FS_Subset
<1>9. I \in SUBSET DOMAIN s
  BY DEF In
<1> QED
  BY <1>3, <1>5, <1>6, <1>7, <1>8, <1>9

\* What trades amount to in a window is what they amount to in its buckets.
LEMMA WindowSums ==
    ASSUME NEW s \in Tape, NEW I \in SUBSET DOMAIN s, NEW K \in SUBSET Nat, IsFiniteSet(K),
           \A i \in DOMAIN s : i \in I <=> Bucket(s[i].at) \in K,
           NEW f \in Amounts, DOMAIN f = DOMAIN s
    PROVE  SumOf(Limit(f, I)) = SumOf([b \in K |-> SumOf(Limit(f, At(s, b)))])
<1> DEFINE g == Limit(f, I)
           key == [i \in I |-> Bucket(s[i].at)]
<1>1. g \in Amounts /\ DOMAIN g = I
  BY LimitAmounts
<1>2. key \in [DOMAIN g -> K]
  BY <1>1
<1>3. SumOf(g) = SumOf(SumsBy(g, key, K))
  <2> HIDE DEF g, key
  <2> QED
    BY <1>1, <1>2, SumGroups
<1>4. ASSUME NEW b \in K
      PROVE  Limit(g, {i \in DOMAIN g : key[i] = b}) = Limit(f, At(s, b))
  <2>1. {i \in DOMAIN g : key[i] = b} = At(s, b)
    BY <1>1 DEF At
  <2>2. At(s, b) \in SUBSET I
    BY DEF At
  <2> QED
    BY <2>1, <2>2 DEF Limit
<1>5. SumsBy(g, key, K) = [b \in K |-> SumOf(Limit(f, At(s, b)))]
  <2> HIDE DEF g, key
  <2> QED
    BY <1>4 DEF SumsBy
<1> QED
  BY <1>3, <1>5

\* A candle of buckets is the candle of their trades.
LEMMA MergedExact ==
    ASSUME NEW s \in Tape, NEW bs, Tells(bs, s), NEW c \in Nat \ {0}, c % Interval = 0,
           NEW w, In(s, c, w) # {}
    PROVE  Merged(bs, Starts(bs, c, w)) = Candle(s, In(s, c, w))
<1> DEFINE I == In(s, c, w)
           K == Starts(bs, c, w)
<1>1. /\ K \in SUBSET DOMAIN bs /\ K \in SUBSET Nat /\ IsFiniteSet(K)
      /\ I \in SUBSET DOMAIN s /\ I # {}
      /\ \A i \in DOMAIN s : i \in I <=> Bucket(s[i].at) \in K
      /\ \A b \in K : At(s, b) # {} /\ At(s, b) \in SUBSET I
  BY WindowTells
<1> HIDE DEF I, K
<1>2. K # {}
  BY <1>1
<1>3. ASSUME NEW b \in K
      PROVE  LET p == bs[b].all
                 J == At(s, b)
             IN /\ p.volume = SumOf(Limit(Sizes(s), J)) /\ p.notional = SumOf(Limit(Costs(s), J))
                /\ p.open = s[First(s, J)].price /\ p.close = s[Final(s, J)].price
                /\ p.high = Max(Prices(s, J)) /\ p.low = Min(Prices(s, J))
                /\ Leads(s, J, First(s, J)) /\ Ends(s, J, Final(s, J))
                /\ Max(Prices(s, J)) \in Prices(s, J) /\ Min(Prices(s, J)) \in Prices(s, J)
                /\ Prices(s, J) \in SUBSET Nat
                /\ \A x \in Prices(s, J) : x <= Max(Prices(s, J)) /\ Min(Prices(s, J)) <= x
  <2> DEFINE p == bs[b].all
             J == At(s, b)
  <2>1. b \in DOMAIN bs /\ J # {} /\ J \in SUBSET DOMAIN s
    BY <1>1 DEF At
  <2>2. Summed(p, s, J)
    BY <2>1 DEF Tells, TellsBucket
  <2> HIDE DEF p, J
  <2>3. Places(s, J) /\ Prices(s, J) \in SUBSET Nat /\ IsFiniteSet(Prices(s, J)) /\ Prices(s, J) # {}
    BY <2>1, TapePlaces
  <2>4. Leads(s, J, First(s, J)) /\ Ends(s, J, Final(s, J))
    BY <2>1, <2>3, FirstLeads, FinalEnds
  <2>5. /\ Max(Prices(s, J)) \in Prices(s, J) /\ Min(Prices(s, J)) \in Prices(s, J)
        /\ \A x \in Prices(s, J) : x <= Max(Prices(s, J)) /\ Min(Prices(s, J)) <= x
    BY <2>3, Extremes
  <2>6. /\ p.volume = SumOf(Limit(Sizes(s), J)) /\ p.notional = SumOf(Limit(Costs(s), J))
        /\ p.open = s[First(s, J)].price /\ p.close = s[Final(s, J)].price
        /\ p.high = Max(Prices(s, J)) /\ p.low = Min(Prices(s, J))
    BY <2>1, <2>2 DEF Summed
  <2> QED
    BY <2>3, <2>4, <2>5, <2>6 DEF p, J
<1>4. /\ Places(s, I) /\ Prices(s, I) \in SUBSET Nat /\ IsFiniteSet(Prices(s, I))
      /\ Prices(s, I) # {}
  BY <1>1, TapePlaces
<1>5. \A i \in DOMAIN s : s[i].at \in Nat
  BY TapeIs
<1> DEFINE m == Min(K)
           n == Max(K)
<1>6. /\ m \in K /\ n \in K /\ \A b \in K : m <= b /\ b <= n
  BY <1>1, <1>2, Extremes
<1> HIDE DEF m, n
<1>7. bs[m].all.open = s[First(s, I)].price
  <2> DEFINE f == First(s, At(s, m))
  <2>1. Leads(s, At(s, m), f) /\ bs[m].all.open = s[f].price
    BY <1>3, <1>6
  <2> HIDE DEF f
  <2>2. f \in I /\ f \in DOMAIN s /\ Bucket(s[f].at) = m
    BY <1>1, <1>6, <2>1 DEF Leads, At
  <2>3. ASSUME NEW j \in I PROVE s[f].at < s[j].at \/ (s[f].at = s[j].at /\ f <= j)
    <3>1. Bucket(s[j].at) \in K /\ j \in DOMAIN s
      BY <1>1
    <3>2. CASE Bucket(s[j].at) = m
      <4>1. j \in At(s, m)
        BY <3>1, <3>2 DEF At
      <4> QED
        BY <2>1, <4>1 DEF Leads
    <3>3. CASE Bucket(s[j].at) # m
      <4>1. m < Bucket(s[j].at)
        BY <1>1, <1>6, <3>1, <3>3
      <4>2. s[f].at < s[j].at
        BY <1>5, <2>2, <3>1, <4>1, BucketOrder
      <4> QED
        BY <4>2
    <3> QED
      BY <3>2, <3>3
  <2>4. First(s, I) = f
    BY <1>4, <2>2, <2>3, FirstLeads DEF Leads
  <2> QED
    BY <2>1, <2>4
<1>8. bs[n].all.close = s[Final(s, I)].price
  <2> DEFINE f == Final(s, At(s, n))
  <2>1. Ends(s, At(s, n), f) /\ bs[n].all.close = s[f].price
    BY <1>3, <1>6
  <2> HIDE DEF f
  <2>2. f \in I /\ f \in DOMAIN s /\ Bucket(s[f].at) = n
    BY <1>1, <1>6, <2>1 DEF Ends, At
  <2>3. ASSUME NEW j \in I PROVE s[j].at < s[f].at \/ (s[j].at = s[f].at /\ j <= f)
    <3>1. Bucket(s[j].at) \in K /\ j \in DOMAIN s
      BY <1>1
    <3>2. CASE Bucket(s[j].at) = n
      <4>1. j \in At(s, n)
        BY <3>1, <3>2 DEF At
      <4> QED
        BY <2>1, <4>1 DEF Ends
    <3>3. CASE Bucket(s[j].at) # n
      <4>1. Bucket(s[j].at) < n
        BY <1>1, <1>6, <3>1, <3>3
      <4>2. s[j].at < s[f].at
        BY <1>5, <2>2, <3>1, <4>1, BucketOrder
      <4> QED
        BY <4>2
    <3> QED
      BY <3>2, <3>3
  <2>4. Final(s, I) = f
    BY <1>4, <2>2, <2>3, FinalEnds DEF Ends
  <2> QED
    BY <2>1, <2>4
<1>9. ASSUME NEW x \in Prices(s, I) PROVE \E b \in K : x \in Prices(s, At(s, b))
  <2>1. PICK i \in I : x = s[i].price
    BY DEF Prices
  <2>2. i \in DOMAIN s /\ Bucket(s[i].at) \in K
    BY <1>1
  <2>3. i \in At(s, Bucket(s[i].at))
    BY <2>2 DEF At
  <2> QED
    BY <2>1, <2>2, <2>3 DEF Prices
<1>10. \A b \in K : Prices(s, At(s, b)) \subseteq Prices(s, I)
  BY <1>1 DEF Prices
<1>11. Max({bs[b].all.high : b \in K}) = Max(Prices(s, I))
  <2> DEFINE D == {bs[b].all.high : b \in K}
             x == Max(Prices(s, I))
  <2>1. x \in Prices(s, I) /\ \A y \in Prices(s, I) : y <= x
    BY <1>4, Extremes
  <2> HIDE DEF x
  <2>2. ASSUME NEW b \in K PROVE bs[b].all.high \in Prices(s, I) /\ bs[b].all.high <= x
    BY <1>3, <1>10, <2>1
  <2>3. D \in SUBSET Nat
    BY <1>4, <2>2
  <2>4. x \in D
    <3>1. PICK b \in K : x \in Prices(s, At(s, b))
      BY <1>9, <2>1
    <3>2. x <= bs[b].all.high
      BY <1>3, <3>1
    <3>3. bs[b].all.high <= x /\ bs[b].all.high \in Nat /\ x \in Nat
      BY <1>4, <2>1, <2>2
    <3>4. x = bs[b].all.high
      BY <3>2, <3>3
    <3> QED
      BY <3>4
  <2>5. \A y \in D : y <= x
    BY <2>2
  <2> HIDE DEF D
  <2>6. Max(D) = x
    BY <2>3, <2>4, <2>5, MaxIs
  <2> QED
    BY <2>6 DEF D, x
<1>12. Min({bs[b].all.low : b \in K}) = Min(Prices(s, I))
  <2> DEFINE D == {bs[b].all.low : b \in K}
             x == Min(Prices(s, I))
  <2>1. x \in Prices(s, I) /\ \A y \in Prices(s, I) : x <= y
    BY <1>4, Extremes
  <2> HIDE DEF x
  <2>2. ASSUME NEW b \in K PROVE bs[b].all.low \in Prices(s, I) /\ x <= bs[b].all.low
    BY <1>3, <1>10, <2>1
  <2>3. D \in SUBSET Nat
    BY <1>4, <2>2
  <2>4. x \in D
    <3>1. PICK b \in K : x \in Prices(s, At(s, b))
      BY <1>9, <2>1
    <3>2. bs[b].all.low <= x
      BY <1>3, <3>1
    <3>3. x <= bs[b].all.low /\ bs[b].all.low \in Nat /\ x \in Nat
      BY <1>4, <2>1, <2>2
    <3>4. x = bs[b].all.low
      BY <3>2, <3>3
    <3> QED
      BY <3>4
  <2>5. \A y \in D : x <= y
    BY <2>2
  <2> HIDE DEF D
  <2>6. Min(D) = x
    BY <2>3, <2>4, <2>5, MaxIs
  <2> QED
    BY <2>6 DEF D, x
<1>13. Sum(bs, K, "volume") = SumOf([i \in I |-> s[i].quantity])
  <2>1. SumOf(Limit(Sizes(s), I)) = SumOf([b \in K |-> SumOf(Limit(Sizes(s), At(s, b)))])
    BY <1>1, TapeAmounts, WindowSums
  <2>2. [b \in K |-> SumOf(Limit(Sizes(s), At(s, b)))] = [b \in K |-> bs[b].all["volume"]]
    BY <1>3
  <2>3. Limit(Sizes(s), I) = [i \in I |-> s[i].quantity]
    BY <1>1 DEF Limit, Sizes
  <2> QED
    BY <2>1, <2>2, <2>3 DEF Sum
<1>14. Sum(bs, K, "notional") = SumOf([i \in I |-> s[i].price * s[i].quantity])
  <2>1. SumOf(Limit(Costs(s), I)) = SumOf([b \in K |-> SumOf(Limit(Costs(s), At(s, b)))])
    BY <1>1, TapeAmounts, WindowSums
  <2>2. [b \in K |-> SumOf(Limit(Costs(s), At(s, b)))] = [b \in K |-> bs[b].all["notional"]]
    BY <1>3
  <2>3. Limit(Costs(s), I) = [i \in I |-> s[i].price * s[i].quantity]
    BY <1>1 DEF Limit, Costs
  <2> QED
    BY <2>1, <2>2, <2>3 DEF Sum
<1>15. Merged(bs, K) = Candle(s, I)
  BY <1>7, <1>8, <1>11, <1>12, <1>13, <1>14 DEF Merged, Candle, m, n
<1> QED
  BY <1>15 DEF I, K

\* The candles of the trades of s.
CandlesOf(s, c) == [w \in {Window(s[i].at, c) : i \in DOMAIN s} |-> Candle(s, In(s, c, w))]

\* The windows that have candles are those that have trades.
LEMMA CandlesTell ==
    ASSUME NEW s \in Tape, NEW bs, Tells(bs, s), NEW c \in Nat \ {0}, c % Interval = 0
    PROVE  /\ Candles(bs, c) = CandlesOf(s, c)
           /\ \A w \in {Window(s[i].at, c) : i \in DOMAIN s} : In(s, c, w) # {}
<1> DEFINE W == {w \in {Window(b, c) : b \in DOMAIN bs} : Starts(bs, c, w) # {}}
           V == {Window(s[i].at, c) : i \in DOMAIN s}
<1>1. \A w \in V : In(s, c, w) # {}
  BY DEF In
<1>2. ASSUME NEW w \in V PROVE w \in W
  <2>1. PICK i \in DOMAIN s : w = Window(s[i].at, c)
    OBVIOUS
  <2>2. i \in In(s, c, w)
    BY <2>1 DEF In
  <2>3. Bucket(s[i].at) \in Starts(bs, c, w) /\ Starts(bs, c, w) \in SUBSET DOMAIN bs
    BY <2>2, WindowTells
  <2>4. Window(Bucket(s[i].at), c) = w
    BY <2>1, TapeIs, WindowOfBucket
  <2> QED
    BY <2>3, <2>4
<1>3. ASSUME NEW w \in W PROVE w \in V
  <2>1. PICK b \in Starts(bs, c, w) : TRUE
    OBVIOUS
  <2>2. At(s, b) # {} /\ At(s, b) \in SUBSET In(s, c, w)
    BY <2>1, WindowTells
  <2>3. PICK i \in In(s, c, w) : TRUE
    BY <2>2
  <2> QED
    BY <2>3 DEF In
<1>4. W = V
  <2> HIDE DEF W, V
  <2> QED
    BY <1>2, <1>3
<1>5. \A w \in V : Merged(bs, Starts(bs, c, w)) = Candle(s, In(s, c, w))
  <2> HIDE DEF V
  <2> QED
    BY <1>1, MergedExact
<1>6. Candles(bs, c) = [w \in W |-> Merged(bs, Starts(bs, c, w))]
  BY DEF Candles
<1> HIDE DEF W, V
<1>7. Candles(bs, c) = [w \in V |-> Candle(s, In(s, c, w))]
  BY <1>4, <1>5, <1>6
<1> QED
  BY <1>1, <1>7 DEF V, CandlesOf

\* A row of buckets K has the number, the prices and the venues of the trades of s
\* in the places I.
Counts(bs, K, s, I) ==
    /\ Sum(bs, K, "count") = Cardinality(I)
    /\ Sum(bs, K, "prices") = SumOf([i \in I |-> s[i].price])
    /\ {v \in Exchanges : \E b \in K : bs[b].venues[v].count > 0} = {s[i].venue : i \in I}

\* So does a longer bar, when no earlier version made candles of any of them.
LEMMA WindowCounts ==
    ASSUME NEW s \in Tape, NEW bs, Tells(bs, s), NEW c \in Nat \ {0}, c % Interval = 0, NEW w,
           \A i \in In(s, c, w) : s[i].venue # 0
    PROVE  Counts(bs, Starts(bs, c, w), s, In(s, c, w))
<1> DEFINE I == In(s, c, w)
           K == Starts(bs, c, w)
<1>1. /\ K \in SUBSET DOMAIN bs /\ K \in SUBSET Nat /\ IsFiniteSet(K)
      /\ I \in SUBSET DOMAIN s /\ (\A i \in I : s[i].venue # 0)
      /\ \A i \in DOMAIN s : i \in I <=> Bucket(s[i].at) \in K
      /\ \A b \in K : At(s, b) # {} /\ At(s, b) \in SUBSET I
  BY WindowTells
<1> HIDE DEF I, K
<1>2. ASSUME NEW b \in K
      PROVE  /\ bs[b].all.count = SumOf(Limit(Ones(s), At(s, b)))
             /\ bs[b].all.prices = SumOf(Limit(Rates(s), At(s, b)))
  <2>1. \A i \in At(s, b) : s[i].venue # 0
    BY <1>1
  <2>2. Counted(bs[b].all, s, At(s, b))
    BY <1>1, <2>1 DEF Tells, TellsBucket
  <2> QED
    BY <2>2 DEF Counted
<1>3. Sum(bs, K, "count") = Cardinality(I)
  <2>1. SumOf(Limit(Ones(s), I)) = SumOf([b \in K |-> SumOf(Limit(Ones(s), At(s, b)))])
    BY <1>1, TapeAmounts, WindowSums
  <2>2. [b \in K |-> SumOf(Limit(Ones(s), At(s, b)))] = [b \in K |-> bs[b].all["count"]]
    BY <1>2
  <2>3. Limit(Ones(s), I) = [i \in I |-> 1]
    BY <1>1 DEF Limit, Ones
  <2>4. SumOf([i \in I |-> 1]) = Cardinality(I)
    <3>1. I \in SUBSET Nat /\ IsFiniteSet(I)
      BY <1>1, TapeIs, FS_Subset
    <3> QED
      BY <3>1, CountIsSum
  <2> QED
    BY <2>1, <2>2, <2>3, <2>4 DEF Sum
<1>4. Sum(bs, K, "prices") = SumOf([i \in I |-> s[i].price])
  <2>1. SumOf(Limit(Rates(s), I)) = SumOf([b \in K |-> SumOf(Limit(Rates(s), At(s, b)))])
    BY <1>1, TapeAmounts, WindowSums
  <2>2. [b \in K |-> SumOf(Limit(Rates(s), At(s, b)))] = [b \in K |-> bs[b].all["prices"]]
    BY <1>2
  <2>3. Limit(Rates(s), I) = [i \in I |-> s[i].price]
    BY <1>1 DEF Limit, Rates
  <2> QED
    BY <2>1, <2>2, <2>3 DEF Sum
<1>5. ASSUME NEW v \in Exchanges, NEW b \in K
      PROVE  bs[b].venues[v].count > 0 <=> Of(s, v, b) # {}
  <2>1. Counted(bs[b].venues[v], s, Of(s, v, b)) /\ Of(s, v, b) \in SUBSET DOMAIN s
    BY <1>1 DEF Tells, TellsBucket, Of
  <2> QED
    BY <2>1, TradedIn
<1>6. {v \in Exchanges : \E b \in K : bs[b].venues[v].count > 0} = {s[i].venue : i \in I}
  <2>1. ASSUME NEW v \in Exchanges, NEW b \in K, bs[b].venues[v].count > 0
        PROVE  \E i \in I : v = s[i].venue
    <3>1. PICK i \in Of(s, v, b) : TRUE
      BY <1>5, <2>1
    <3>2. i \in DOMAIN s /\ s[i].venue = v /\ Bucket(s[i].at) = b
      BY DEF Of
    <3>3. i \in I
      BY <1>1, <3>2
    <3> QED
      BY <3>2, <3>3
  <2>2. ASSUME NEW i \in I
        PROVE  s[i].venue \in Exchanges /\ \E b \in K : bs[b].venues[s[i].venue].count > 0
    <3>1. i \in DOMAIN s /\ Bucket(s[i].at) \in K
      BY <1>1
    <3>2. s[i].venue \in Exchanges
      BY <1>1, <3>1, TapeIs
    <3>3. i \in Of(s, s[i].venue, Bucket(s[i].at))
      BY <3>1 DEF Of
    <3> QED
      BY <1>5, <3>1, <3>2, <3>3
  <2> QED
    BY <2>1, <2>2
<1> QED
  BY <1>3, <1>4, <1>6 DEF Counts, I, K

\* Candles, of one bucket or of several, are those of all trades in them, also
\* after a restart and with the candles of an earlier version of the service
\* (candle_snapshot, resampled_bars, restore_candle_state and
\* restore_candle_snapshot).
THEOREM CandlesAreExact == ViewsSpec => []CandlesExact
<1>1. ViewsInv => CandlesExact
  <2> SUFFICES ASSUME ViewsInv, NEW c \in {Interval, CandleInterval}
               PROVE  LET windows == {Window(folded[i].at, c) : i \in DOMAIN folded}
                          whole == Resampled(buckets, c)
                      IN /\ Candles(buckets, c) = [w \in windows |-> Candle(folded, In(folded, c, w))]
                         /\ \A w \in DOMAIN whole :
                              LET I == In(folded, c, w)
                                  venues == {folded[i].venue : i \in I}
                              IN 0 \notin venues =>
                                     /\ whole[w].count = Cardinality(I)
                                     /\ whole[w].prices = SumOf([i \in I |-> folded[i].price])
                                     /\ whole[w].venues = venues
    BY DEF CandlesExact
  <2>1. folded \in Tape /\ Tells(buckets, folded)
    BY DEF ViewsInv, HistoryOK
  <2>2. c \in Nat \ {0} /\ c % Interval = 0
    <3>1. Interval % Interval = 0
      BY IntervalOK
    <3> QED
      BY <3>1, IntervalOK, ViewsConstantsOK
  <2> DEFINE windows == {Window(folded[i].at, c) : i \in DOMAIN folded}
             whole == Resampled(buckets, c)
  <2>3. Candles(buckets, c) = [w \in windows |-> Candle(folded, In(folded, c, w))]
    <3>1. Candles(buckets, c) = CandlesOf(folded, c)
      BY <2>1, <2>2, CandlesTell
    <3> QED
      BY <3>1 DEF CandlesOf
  <2>4. ASSUME NEW w \in DOMAIN whole, 0 \notin {folded[i].venue : i \in In(folded, c, w)}
        PROVE  /\ whole[w].count = Cardinality(In(folded, c, w))
               /\ whole[w].prices = SumOf([i \in In(folded, c, w) |-> folded[i].price])
               /\ whole[w].venues = {folded[i].venue : i \in In(folded, c, w)}
    <3>1. \A i \in In(folded, c, w) : folded[i].venue # 0
      BY <2>4
    <3>2. /\ whole[w].count = Sum(buckets, Starts(buckets, c, w), "count")
          /\ whole[w].prices = Sum(buckets, Starts(buckets, c, w), "prices")
          /\ whole[w].venues = {v \in Exchanges : \E b \in Starts(buckets, c, w) :
                                    buckets[b].venues[v].count > 0}
      BY DEF Resampled
    <3> HIDE DEF whole
    <3>3. Counts(buckets, Starts(buckets, c, w), folded, In(folded, c, w))
      BY <2>1, <2>2, <3>1, WindowCounts
    <3> QED
      BY <3>2, <3>3 DEF Counts
  <2> QED
    BY <2>3, <2>4
<1> QED
  BY <1>1, ViewsInvHolds, PTL

-----------------------------------------------------------------------------
(* Values in order *)

\* How many values of f are at most x.
CountTo(f, x) == Cardinality({k \in DOMAIN f : f[k] <= x})

LEMMA CountToIs ==
    ASSUME NEW f \in Amounts, NEW x \in Int
    PROVE  /\ CountTo(f, x) \in Nat /\ CountTo(f, x) <= Cardinality(DOMAIN f)
           /\ Cardinality(DOMAIN f) \in Nat
           /\ \A y \in Int : x <= y => CountTo(f, x) <= CountTo(f, y)
           /\ (\A k \in DOMAIN f : f[k] <= x) => CountTo(f, x) = Cardinality(DOMAIN f)
           /\ (\A k \in DOMAIN f : f[k] > x) => CountTo(f, x) = 0
<1> DEFINE D == DOMAIN f
           S(y) == {k \in D : f[k] <= y}
<1>1. IsFiniteSet(D) /\ \A k \in D : f[k] \in Nat
  BY AmountsAre
<1> HIDE DEF D
<1>2. \A y : S(y) \in SUBSET D
  OBVIOUS
<1>3. \A y : IsFiniteSet(S(y)) /\ Cardinality(S(y)) <= Cardinality(D)
  BY <1>1, <1>2, FS_Subset
<1>4. Cardinality(S(x)) \in Nat /\ Cardinality(D) \in Nat
  BY <1>1, <1>3, FS_CardinalityType
<1>5. ASSUME NEW y \in Int, x <= y PROVE Cardinality(S(x)) <= Cardinality(S(y))
  <2>1. S(x) \in SUBSET S(y)
    <3>1. \A k \in D : f[k] <= x => f[k] <= y
      BY <1>1, <1>5
    <3> QED
      BY <3>1
  <2> HIDE DEF S
  <2> QED
    BY <1>3, <2>1, FS_Subset
<1>6. (\A k \in D : f[k] <= x) => S(x) = D
  OBVIOUS
<1>7. (\A k \in D : f[k] > x) => S(x) = {}
  BY <1>1
<1>8. \A y : CountTo(f, y) = Cardinality(S(y))
  BY DEF CountTo, D
<1> HIDE DEF S
<1> QED
  BY <1>3, <1>4, <1>5, <1>6, <1>7, <1>8, FS_EmptySet DEF D

\* The i-th value is at most x if and only if i values are.
LEMMA OrderedIs ==
    ASSUME NEW f \in Amounts
    PROVE  /\ DOMAIN Ordered(f) = 1 .. Cardinality(DOMAIN f)
           /\ \A i \in DOMAIN Ordered(f) :
                 /\ Ordered(f)[i] \in Nat
                 /\ \A x \in Int : Ordered(f)[i] <= x <=> i <= CountTo(f, x)
<1> DEFINE D == DOMAIN f
           n == Cardinality(D)
           V == {f[k] : k \in D}
           Y(i) == {y \in V : CountTo(f, y) >= i}
<1>1. D \in SUBSET Nat /\ IsFiniteSet(D) /\ \A k \in D : f[k] \in Nat
  BY AmountsAre
<1>2. Ordered(f) = [i \in 1 .. n |-> Min(Y(i))]
  BY DEF Ordered, CountTo
<1>3. V \in SUBSET Nat /\ IsFiniteSet(V) /\ n \in Nat
  BY <1>1, ImageFinite, FS_CardinalityType
<1>4. ASSUME NEW i \in 1 .. n
      PROVE  /\ Min(Y(i)) \in Nat
             /\ \A x \in Int : Min(Y(i)) <= x <=> i <= CountTo(f, x)
  <2>1. ASSUME NEW x \in Int, i <= CountTo(f, x)
        PROVE  \E y \in Y(i) : y <= x
    <3> DEFINE K == {k \in D : f[k] <= x}
               W == {f[k] : k \in K}
    <3>1. K # {} /\ K \in SUBSET D
      <4>1. CountTo(f, x) = Cardinality(K)
        BY DEF CountTo
      <4> HIDE DEF K
      <4>2. CountTo(f, x) # 0
        BY <2>1, CountToIs
      <4>3. K # {}
        BY <4>1, <4>2, FS_EmptySet
      <4> QED
        BY <4>3 DEF K
    <3>2. W # {} /\ W \in SUBSET V /\ \A y \in W : y <= x
      <4> HIDE DEF D
      <4> QED
        BY <3>1
    <3>3. W \in SUBSET Nat /\ IsFiniteSet(W)
      <4> HIDE DEF V, W
      <4> QED
        BY <1>3, <3>2, FS_Subset
    <3> DEFINE y == Max(W)
    <3>4. y \in W /\ \A z \in W : z <= y
      <4> HIDE DEF W
      <4> QED
        BY <3>2, <3>3, Extremes
    <3> HIDE DEF y
    <3>5. CountTo(f, x) = CountTo(f, y)
      <4>1. \A k \in D : f[k] <= x <=> f[k] <= y
        <5> SUFFICES ASSUME NEW k \in D PROVE f[k] <= x <=> f[k] <= y
          OBVIOUS
        <5>1. f[k] \in Nat /\ y \in Nat /\ y <= x
          BY <1>1, <3>2, <3>3, <3>4
        <5>2. f[k] <= x => f[k] \in W
          OBVIOUS
        <5> HIDE DEF W
        <5> QED
          BY <3>4, <5>1, <5>2
      <4> QED
        BY <4>1 DEF CountTo
    <3>6. y \in V /\ y <= x
      BY <3>2, <3>4
    <3> QED
      BY <2>1, <3>5, <3>6
  <2>2. Y(i) # {}
    <3>1. PICK m \in Nat : \A y \in V : y <= m
      <4> HIDE DEF V
      <4> QED
        BY <1>3, Bounded
    <3>2. CountTo(f, m) = n
      BY <3>1, CountToIs
    <3>3. i <= CountTo(f, m) /\ m \in Int
      BY <3>2
    <3> HIDE DEF Y
    <3> QED
      BY <2>1, <3>3
  <2>3. Y(i) \in SUBSET Nat
    BY <1>3
  <2> DEFINE least == Min(Y(i))
  <2>4. least \in Y(i) /\ \A y \in Y(i) : least <= y
    <3> HIDE DEF Y
    <3> QED
      BY <2>2, <2>3, Extremes
  <2>5. least \in Nat /\ i <= CountTo(f, least)
    <3>1. least \in Nat
      BY <2>3, <2>4
    <3>2. CountTo(f, least) >= i
      BY <2>4
    <3>3. CountTo(f, least) \in Nat
      BY <3>1, CountToIs
    <3> QED
      BY <3>1, <3>2, <3>3
  <2> HIDE DEF least
  <2>6. ASSUME NEW x \in Int, least <= x PROVE i <= CountTo(f, x)
    <3>1. CountTo(f, least) <= CountTo(f, x) /\ CountTo(f, least) \in Nat /\ CountTo(f, x) \in Nat
      BY <2>5, <2>6, CountToIs
    <3> QED
      BY <2>5, <3>1
  <2>7. ASSUME NEW x \in Int, i <= CountTo(f, x) PROVE least <= x
    <3>1. PICK y \in Y(i) : y <= x
      BY <2>1, <2>7
    <3>2. least <= y /\ y \in Nat
      BY <2>3, <2>4
    <3> QED
      BY <2>5, <3>1, <3>2
  <2> QED
    BY <2>5, <2>6, <2>7 DEF least
<1> HIDE DEF Y
<1> QED
  BY <1>2, <1>4

LEMMA SameNumber ==
    ASSUME NEW a \in Int, NEW b \in Int, \A x \in Int : a <= x <=> b <= x
    PROVE  a = b
<1>1. a <= a <=> b <= a
  OBVIOUS
<1>2. a <= b <=> b <= b
  OBVIOUS
<1> QED
  BY <1>1, <1>2

\* What has the same values has them in the same order.
LEMMA OrderedSame ==
    ASSUME NEW f \in Amounts, NEW g \in Amounts, Cardinality(DOMAIN f) = Cardinality(DOMAIN g),
           \A x \in Int : CountTo(f, x) = CountTo(g, x)
    PROVE  Ordered(f) = Ordered(g)
<1> DEFINE p == Ordered(f)
           q == Ordered(g)
<1>1. DOMAIN p = DOMAIN q
  BY OrderedIs
<1>2. ASSUME NEW i \in DOMAIN p PROVE p[i] = q[i]
  <2>1. /\ p[i] \in Nat /\ \A x \in Int : p[i] <= x <=> i <= CountTo(f, x)
        /\ q[i] \in Nat /\ \A x \in Int : q[i] <= x <=> i <= CountTo(g, x)
    BY <1>1, OrderedIs
  <2>2. \A x \in Int : p[i] <= x <=> q[i] <= x
    BY <2>1
  <2> HIDE DEF p, q
  <2> QED
    BY <2>1, <2>2, SameNumber
<1>3. p = [i \in DOMAIN p |-> p[i]] /\ q = [i \in DOMAIN q |-> q[i]]
  BY DEF Ordered
<1> HIDE DEF p, q
<1> QED
  BY <1>1, <1>2, <1>3 DEF p, q

-----------------------------------------------------------------------------
(* The times of a venue's trades *)

Ats(s, I) == [i \in I |-> s[i].at]
ByVenue(s, v) == {i \in DOMAIN s : s[i].venue = v}

\* The trades of venue v in buckets before b, and the last time of them.
Earlier(s, v, b) == {i \in DOMAIN s : s[i].venue = v /\ Bucket(s[i].at) < b}
Previous(s, v, b) ==
    IF Earlier(s, v, b) = {} THEN None ELSE Max({s[i].at : i \in Earlier(s, v, b)})

LEMMA InBucket ==
    ASSUME NEW x \in Nat, NEW b \in Nat, NEW k \in Int, b = k * Interval
    PROVE  /\ Bucket(x) = b <=> b <= x /\ x < b + Interval
           /\ Bucket(x) < b <=> x < b
           /\ Bucket(x) \in Nat
<1>1. PICK j \in Int : Bucket(x) = j * Interval /\ Bucket(x) \in Nat
  BY BucketMultiple
<1>2. Bucket(x) <= x /\ x < Bucket(x) + Interval
  BY IntervalOK, WindowIs DEF Bucket, Window
<1>3. Bucket(x) < b <=> Bucket(x) + Interval <= b
  BY <1>1, MultiplesApart
<1>4. b < Bucket(x) <=> b + Interval <= Bucket(x)
  BY <1>1, MultiplesApart
<1> DEFINE c == Bucket(x)
<1>5. c \in Nat /\ c <= x /\ x < c + Interval /\ (c < b <=> c + Interval <= b)
      /\ (b < c <=> b + Interval <= c) /\ Interval \in Nat
  BY <1>1, <1>2, <1>3, <1>4, IntervalOK
<1> HIDE DEF c
<1>6. (c = b <=> b <= x /\ x < b + Interval) /\ (c < b <=> x < b)
  BY <1>5
<1> QED
  BY <1>1, <1>6 DEF c

LEMMA AtsAre ==
    ASSUME NEW s \in Tape, NEW I \in SUBSET DOMAIN s
    PROVE  /\ Ats(s, I) \in Amounts /\ DOMAIN Ats(s, I) = I
           /\ I \in SUBSET Nat /\ IsFiniteSet(I) /\ Cardinality(I) \in Nat
           /\ \A i \in I : Ats(s, I)[i] = s[i].at /\ s[i].at \in Nat
           /\ {s[i].at : i \in I} \in SUBSET Nat /\ IsFiniteSet({s[i].at : i \in I})
<1>1. I \in SUBSET Nat /\ IsFiniteSet(I) /\ \A i \in I : s[i].at \in Nat
  BY TapeIs, FS_Subset
<1> DEFINE f == Ats(s, I)
<1>2. DOMAIN f = I /\ (\A i \in I : f[i] = s[i].at) /\ f \in [I -> Nat]
  BY <1>1 DEF Ats
<1> HIDE DEF f
<1>3. f \in Amounts
  BY <1>1, <1>2, AmountsAre
<1>4. {s[i].at : i \in I} = {f[i] : i \in I}
  BY <1>2
<1>5. IsFiniteSet({f[i] : i \in I}) /\ Cardinality(I) \in Nat
  BY <1>1, <1>2, ImageFinite, FS_CardinalityType
<1> QED
  BY <1>1, <1>2, <1>3, <1>4, <1>5 DEF f

\* How many trades of a venue there are up to a time, around the bucket b.
LEMMA CountAround ==
    ASSUME NEW s \in Tape, NEW v, NEW b \in Nat, NEW k \in Int, b = k * Interval
    PROVE  LET f == Ats(s, ByVenue(s, v))
               g == Ats(s, Of(s, v, b))
               c == Cardinality(Earlier(s, v, b))
               m == Cardinality(Of(s, v, b))
           IN /\ c \in Nat /\ m \in Nat /\ c + m <= Cardinality(ByVenue(s, v))
              /\ \A x \in Int : x < b => CountTo(f, x) <= c /\ CountTo(g, x) = 0
              /\ \A x \in Int : b <= x /\ x < b + Interval => CountTo(f, x) = c + CountTo(g, x)
              /\ \A x \in Int : b + Interval <= x => CountTo(f, x) >= c + m /\ CountTo(g, x) = m
              /\ CountTo(f, b - 1) = c /\ CountTo(f, b + Interval - 1) = c + m
<1> DEFINE I == ByVenue(s, v)
           E == Earlier(s, v, b)
           J == Of(s, v, b)
           f == Ats(s, I)
           g == Ats(s, J)
           F(x) == {i \in I : s[i].at <= x}
           G(x) == {i \in J : s[i].at <= x}
<1>1. I \in SUBSET DOMAIN s /\ E \in SUBSET DOMAIN s /\ J \in SUBSET DOMAIN s
  BY DEF ByVenue, Earlier, Of
<1>2. \A i \in DOMAIN s : /\ s[i].at \in Nat
                          /\ Bucket(s[i].at) = b <=> b <= s[i].at /\ s[i].at < b + Interval
                          /\ Bucket(s[i].at) < b <=> s[i].at < b
  BY TapeIs, InBucket
<1>3. /\ E = {i \in I : s[i].at < b}
      /\ J = {i \in I : b <= s[i].at /\ s[i].at < b + Interval}
  BY <1>2 DEF Earlier, ByVenue, Of
<1>4. /\ f \in Amounts /\ DOMAIN f = I /\ (\A i \in I : f[i] = s[i].at)
      /\ g \in Amounts /\ DOMAIN g = J /\ (\A i \in J : g[i] = s[i].at)
      /\ IsFiniteSet(I) /\ IsFiniteSet(E) /\ IsFiniteSet(J)
      /\ Cardinality(I) \in Nat /\ Cardinality(E) \in Nat /\ Cardinality(J) \in Nat
      /\ \A i \in I : s[i].at \in Nat
  <2> HIDE DEF I, E, J, f, g
  <2> QED
    BY <1>1, AtsAre DEF f, g
<1>5. Interval \in Nat \ {0} /\ b + Interval \in Nat
  BY IntervalOK
<1> HIDE DEF I, E, J, f, g
<1>6. \A x : CountTo(f, x) = Cardinality(F(x)) /\ CountTo(g, x) = Cardinality(G(x))
  BY <1>4 DEF CountTo
<1>7. \A x : /\ F(x) \in SUBSET I /\ G(x) \in SUBSET J
             /\ IsFiniteSet(F(x)) /\ IsFiniteSet(G(x))
  <2>1. \A x : F(x) \in SUBSET I /\ G(x) \in SUBSET J
    OBVIOUS
  <2> HIDE DEF F, G
  <2> QED
    BY <1>4, <2>1, FS_Subset
<1>8. \A x : Cardinality(F(x)) \in Nat /\ Cardinality(G(x)) \in Nat
  <2> HIDE DEF F, G
  <2> QED
    BY <1>7, FS_CardinalityType
<1>9. ASSUME NEW S, IsFiniteSet(S), S \cap E = {}
      PROVE  Cardinality(E \cup S) = Cardinality(E) + Cardinality(S)
  <2>1. Cardinality(E \cup S) = Cardinality(E) + Cardinality(S) - Cardinality(E \cap S)
    BY <1>4, <1>9, FS_Union
  <2>2. E \cap S = {}
    BY <1>9
  <2>3. Cardinality({}) = 0 /\ Cardinality(S) \in Nat
    BY <1>9, FS_EmptySet, FS_CardinalityType
  <2>4. Cardinality(E \cap S) = 0
    BY <2>2, <2>3
  <2> QED
    BY <1>4, <2>1, <2>3, <2>4
<1>10. J \cap E = {} /\ E \cup J \in SUBSET I /\ \A x : G(x) \cap E = {}
  BY <1>3, <1>4
<1>11. Cardinality(E \cup J) = Cardinality(E) + Cardinality(J)
       /\ Cardinality(E \cup J) <= Cardinality(I)
  BY <1>4, <1>9, <1>10, FS_Subset
<1>12. ASSUME NEW x \in Int, x < b
       PROVE  CountTo(f, x) <= Cardinality(E) /\ CountTo(g, x) = 0
  <2>1. F(x) \in SUBSET E /\ G(x) = {}
    <3>1. \A i \in I : s[i].at <= x => s[i].at < b
      BY <1>4, <1>12
    <3>2. \A i \in J : i \in I /\ b <= s[i].at
      BY <1>3
    <3> QED
      BY <1>3, <1>4, <1>12, <3>1, <3>2
  <2> HIDE DEF F, G
  <2> QED
    BY <1>4, <1>6, <2>1, FS_Subset, FS_EmptySet
<1>13. ASSUME NEW x \in Int, b <= x, x < b + Interval
       PROVE  CountTo(f, x) = Cardinality(E) + CountTo(g, x)
  <2>1. F(x) = E \cup G(x)
    <3>1. \A i \in I : s[i].at <= x <=> s[i].at < b \/ (b <= s[i].at /\ s[i].at < b + Interval
                                                            /\ s[i].at <= x)
      BY <1>4, <1>5, <1>13
    <3> QED
      BY <1>3, <3>1
  <2> HIDE DEF F, G
  <2>2. Cardinality(E \cup G(x)) = Cardinality(E) + Cardinality(G(x))
    BY <1>7, <1>9, <1>10 DEF G
  <2> QED
    BY <1>6, <2>1, <2>2
<1>14. ASSUME NEW x \in Int, b + Interval <= x
       PROVE  /\ CountTo(f, x) >= Cardinality(E) + Cardinality(J)
              /\ CountTo(g, x) = Cardinality(J)
  <2>1. E \cup J \in SUBSET F(x) /\ G(x) = J
    <3>1. \A i \in I : s[i].at < b + Interval => s[i].at <= x
      BY <1>4, <1>5, <1>14
    <3>2. \A i \in I : s[i].at < b => s[i].at < b + Interval
      BY <1>4, <1>5
    <3> QED
      BY <1>3, <3>1, <3>2
  <2> HIDE DEF F, G
  <2>2. Cardinality(E \cup J) <= Cardinality(F(x))
    BY <1>7, <2>1, FS_Subset
  <2>3. Cardinality(E) + Cardinality(J) \in Nat
    BY <1>4
  <2>4. Cardinality(F(x)) \in Nat
    BY <1>8
  <2> QED
    BY <1>6, <1>11, <2>1, <2>2, <2>3, <2>4
<1>15. CountTo(f, b - 1) = Cardinality(E)
  <2>1. F(b - 1) = E
    <3>1. \A i \in I : s[i].at <= b - 1 <=> s[i].at < b
      BY <1>4
    <3> QED
      BY <1>3, <3>1
  <2> HIDE DEF F, G
  <2> QED
    BY <1>6, <2>1
<1>16. CountTo(f, b + Interval - 1) = Cardinality(E) + Cardinality(J)
  <2> DEFINE y == b + Interval - 1
  <2>1. y \in Int /\ b <= y /\ y < b + Interval
    BY <1>5
  <2>2. G(y) = J
    <3>1. \A i \in I : s[i].at < b + Interval => s[i].at <= y
      BY <1>4, <1>5
    <3> HIDE DEF y
    <3> QED
      BY <1>3, <3>1
  <2> HIDE DEF y, F, G
  <2>3. CountTo(f, y) = Cardinality(E) + CountTo(g, y)
    BY <1>13, <2>1
  <2> QED
    BY <1>6, <2>2, <2>3 DEF y
<1> HIDE DEF F, G
<1>17. Cardinality(E) + Cardinality(J) <= Cardinality(I)
  BY <1>11
<1> QED
  BY <1>4, <1>12, <1>13, <1>14, <1>15, <1>16, <1>17 DEF I, E, J, f, g

\* The times between trades that follow a trade at `previous', if there is one.
Between(previous, times) ==
    IF previous = None THEN Differences(times) ELSE Differences(<<previous>> \o times)

\* In the order of all times of a venue those of bucket b come after the earlier
\* ones, in the order they have among themselves.
LEMMA TimesAround ==
    ASSUME NEW s \in Tape, NEW v, NEW b \in Nat, NEW k \in Int, b = k * Interval
    PROVE  LET times == Ordered(Ats(s, ByVenue(s, v)))
               own == Ordered(Ats(s, Of(s, v, b)))
               c == Cardinality(Earlier(s, v, b))
               m == Cardinality(Of(s, v, b))
           IN /\ c \in Nat /\ m \in Nat
              /\ DOMAIN own = 1 .. m /\ 1 .. c + m \subseteq DOMAIN times
              /\ DOMAIN times \in SUBSET (Nat \ {0})
              /\ \A j \in DOMAIN times : Bucket(times[j]) = b <=> c < j /\ j <= c + m
              /\ \A j \in 1 .. m : times[c + j] = own[j] /\ own[j] \in Nat
              /\ c > 0 => times[c] = Previous(s, v, b) /\ Previous(s, v, b) \in Nat
              /\ c = 0 <=> Previous(s, v, b) = None
<1> DEFINE I == ByVenue(s, v)
           E == Earlier(s, v, b)
           J == Of(s, v, b)
           f == Ats(s, I)
           g == Ats(s, J)
           times == Ordered(f)
           own == Ordered(g)
           c == Cardinality(E)
           m == Cardinality(J)
           n == Cardinality(I)
<1>1. I \in SUBSET DOMAIN s /\ E \in SUBSET I /\ J \in SUBSET DOMAIN s
  BY DEF ByVenue, Earlier, Of
<1>2. /\ f \in Amounts /\ DOMAIN f = I /\ (\A i \in I : f[i] = s[i].at /\ s[i].at \in Nat)
      /\ g \in Amounts /\ DOMAIN g = J
      /\ IsFiniteSet(I) /\ IsFiniteSet(E) /\ n \in Nat
      /\ {s[i].at : i \in E} \in SUBSET Nat /\ IsFiniteSet({s[i].at : i \in E})
  <2> HIDE DEF I, E, J, f, g, n
  <2>1. E \in SUBSET DOMAIN s
    BY <1>1
  <2> QED
    BY <1>1, <2>1, AtsAre DEF f, g, n
<1>3. /\ c \in Nat /\ m \in Nat /\ c + m <= n
      /\ \A x \in Int : x < b => CountTo(f, x) <= c /\ CountTo(g, x) = 0
      /\ \A x \in Int : b <= x /\ x < b + Interval => CountTo(f, x) = c + CountTo(g, x)
      /\ \A x \in Int : b + Interval <= x => CountTo(f, x) >= c + m /\ CountTo(g, x) = m
      /\ CountTo(f, b - 1) = c /\ CountTo(f, b + Interval - 1) = c + m
  BY CountAround
<1>4. Interval \in Nat \ {0} /\ b + Interval \in Nat /\ b - 1 \in Int /\ b + Interval - 1 \in Int
  BY IntervalOK
<1> HIDE DEF f, g
<1>5. /\ DOMAIN times = 1 .. n
      /\ \A j \in 1 .. n : /\ times[j] \in Nat
                           /\ \A x \in Int : times[j] <= x <=> j <= CountTo(f, x)
      /\ DOMAIN own = 1 .. m
      /\ \A j \in 1 .. m : /\ own[j] \in Nat
                           /\ \A x \in Int : own[j] <= x <=> j <= CountTo(g, x)
  BY <1>2, OrderedIs
<1>6. \A x \in Int : CountTo(f, x) \in Nat /\ CountTo(g, x) \in Nat
  BY <1>2, CountToIs
<1> HIDE DEF I, E, J, times, own, c, m, n
<1>7. ASSUME NEW j \in 1 .. n
      PROVE  Bucket(times[j]) = b <=> c < j /\ j <= c + m
  <2> DEFINE y == times[j]
  <2>1. y \in Nat /\ (y <= b - 1 <=> j <= c) /\ (y <= b + Interval - 1 <=> j <= c + m)
    BY <1>3, <1>4, <1>5
  <2> HIDE DEF y
  <2>2. Bucket(y) = b <=> b <= y /\ y < b + Interval
    BY <2>1, InBucket
  <2>3. b <= y /\ y < b + Interval <=> ~(y <= b - 1) /\ y <= b + Interval - 1
    BY <1>4, <2>1
  <2>4. ~(j <= c) <=> c < j
    BY <1>3
  <2> QED
    BY <2>1, <2>2, <2>3, <2>4 DEF y
<1>8. ASSUME NEW j \in 1 .. m
      PROVE  times[c + j] = own[j] /\ own[j] \in Nat
  <2> DEFINE y == times[c + j]
             z == own[j]
  <2>1. c + j \in 1 .. n /\ c + j <= c + m /\ c < c + j
    BY <1>2, <1>3 DEF n
  <2>2. /\ y \in Nat /\ \A x \in Int : y <= x <=> c + j <= CountTo(f, x)
        /\ z \in Nat /\ \A x \in Int : z <= x <=> j <= CountTo(g, x)
    BY <1>5, <2>1
  <2> HIDE DEF y, z
  <2>3. ASSUME NEW x \in Int PROVE c + j <= CountTo(f, x) <=> j <= CountTo(g, x)
    <3> DEFINE p == CountTo(f, x)
               q == CountTo(g, x)
    <3>1. p \in Nat /\ q \in Nat
      BY <1>6
    <3>2. /\ x < b => p <= c /\ q = 0
          /\ b <= x /\ x < b + Interval => p = c + q
          /\ b + Interval <= x => p >= c + m /\ q = m
      BY <1>3
    <3> HIDE DEF p, q
    <3>3. x < b \/ (b <= x /\ x < b + Interval) \/ b + Interval <= x
      BY <1>4
    <3>4. c + j <= p <=> j <= q
      BY <1>3, <3>1, <3>2, <3>3
    <3> QED
      BY <3>4 DEF p, q
  <2>4. \A x \in Int : y <= x <=> z <= x
    BY <2>2, <2>3
  <2>5. y = z
    BY <2>2, <2>4, SameNumber
  <2> QED
    BY <2>2, <2>5 DEF y, z
<1>9. c = 0 <=> E = {}
  BY <1>2, FS_EmptySet DEF c
<1>10. E # {} => Previous(s, v, b) = Max({s[i].at : i \in E}) /\ Previous(s, v, b) \in Nat
  <2> SUFFICES ASSUME E # {}
               PROVE  Previous(s, v, b) = Max({s[i].at : i \in E}) /\ Previous(s, v, b) \in Nat
    OBVIOUS
  <2> DEFINE A == {s[i].at : i \in E}
  <2>1. A # {} /\ A \in SUBSET Nat /\ IsFiniteSet(A)
    BY <1>2
  <2>2. Previous(s, v, b) = Max(A)
    BY DEF Previous, E
  <2> HIDE DEF A
  <2>3. Max(A) \in A
    BY <2>1, Extremes
  <2> QED
    BY <2>1, <2>2, <2>3 DEF A
<1>11. ASSUME c > 0 PROVE times[c] = Previous(s, v, b)
  <2> DEFINE A == {s[i].at : i \in E}
             y == times[c]
             p == Previous(s, v, b)
             C(x) == {i \in I : s[i].at <= x}
  <2>1. E # {} /\ c \in 1 .. n
    BY <1>2, <1>3, <1>9, <1>11 DEF n
  <2>2. p = Max(A) /\ p \in Nat
    BY <1>10, <2>1
  <2>3. A # {} /\ A \in SUBSET Nat /\ IsFiniteSet(A)
    BY <1>2, <2>1
  <2>4. p \in A /\ \A z \in A : z <= p
    <3> HIDE DEF A
    <3> QED
      BY <2>2, <2>3, Extremes
  <2>5. y \in Nat /\ \A x \in Int : y <= x <=> c <= CountTo(f, x)
    BY <1>5, <2>1
  <2> HIDE DEF y, p
  <2>6. \A x : CountTo(f, x) = Cardinality(C(x)) /\ IsFiniteSet(C(x))
    <3>1. \A x : C(x) = {i \in DOMAIN f : f[i] <= x}
      BY <1>2
    <3>2. \A x : C(x) \in SUBSET I
      OBVIOUS
    <3> HIDE DEF C
    <3> QED
      BY <1>2, <3>1, <3>2, FS_Subset DEF CountTo
  <2>7. c <= CountTo(f, p)
    <3>1. E \in SUBSET C(p)
      BY <1>1, <2>4
    <3> HIDE DEF C
    <3> QED
      BY <2>6, <3>1, FS_Subset DEF c
  <2>8. ~(c <= CountTo(f, p - 1))
    <3>1. PICK i \in E : s[i].at = p
      BY <2>4
    <3>2. C(p - 1) \in SUBSET (E \ {i})
      <4>1. ASSUME NEW j \in I, s[j].at <= p - 1 PROVE j \in E /\ j # i
        <5>1. p < b
          <6>1. /\ Bucket(s[i].at) < b /\ s[i].at \in Nat
            BY <1>1, <1>2 DEF E, Earlier
          <6> QED
            BY <3>1, <6>1, InBucket
        <5>2. s[j].at \in Nat /\ s[j].at < b /\ s[j].at # p
          BY <1>2, <2>2, <4>1, <5>1
        <5>3. Bucket(s[j].at) < b
          BY <5>2, InBucket
        <5>4. j \in E
          BY <5>3 DEF E, I, Earlier, ByVenue
        <5> QED
          BY <3>1, <5>2, <5>4
      <4> QED
        BY <4>1
    <3>3. IsFiniteSet(E \ {i}) /\ Cardinality(E \ {i}) = c - 1
      BY <1>2, FS_RemoveElement DEF c
    <3> HIDE DEF C
    <3>4. Cardinality(C(p - 1)) <= c - 1
      BY <3>2, <3>3, FS_Subset
    <3>5. p - 1 \in Int
      BY <2>2
    <3>6. CountTo(f, p - 1) \in Nat /\ CountTo(f, p - 1) <= c - 1
      BY <1>6, <2>6, <3>4, <3>5
    <3> QED
      BY <1>3, <3>6
  <2>9. y <= p /\ ~(y <= p - 1)
    <3>1. p \in Int /\ p - 1 \in Int
      BY <2>2
    <3> QED
      BY <2>5, <2>7, <2>8, <3>1
  <2>10. y = p
    BY <2>2, <2>5, <2>9
  <2> QED
    BY <2>10 DEF y, p
<1>12. c = 0 <=> Previous(s, v, b) = None
  <2>1. E = {} => Previous(s, v, b) = None
    BY DEF Previous, E
  <2>2. E # {} => Previous(s, v, b) # None
    BY <1>10 DEF None
  <2> QED
    BY <1>9, <2>1, <2>2
<1>13. 1 .. c + m \subseteq DOMAIN times /\ DOMAIN times \in SUBSET (Nat \ {0})
  BY <1>2, <1>3, <1>5 DEF n
<1>14. c > 0 => times[c] = Previous(s, v, b) /\ Previous(s, v, b) \in Nat
  BY <1>3, <1>9, <1>10, <1>11
<1> QED
  BY <1>3, <1>5, <1>7, <1>8, <1>12, <1>13, <1>14 DEF I, E, J, f, g, times, own, c, m

LEMMA LeastOf ==
    ASSUME NEW a \in Nat, NEW b \in Nat, a <= b
    PROVE  Min(a .. b) = a
<1>1. a .. b \in SUBSET Nat /\ a \in a .. b
  OBVIOUS
<1>2. Min(a .. b) \in a .. b /\ \A x \in a .. b : Min(a .. b) <= x
  BY <1>1, Extremes
<1> DEFINE m == Min(a .. b)
<1>3. m \in a .. b /\ m <= a
  BY <1>1, <1>2
<1> HIDE DEF m
<1> QED
  BY <1>3 DEF m

\* The times between the trades that end in a bucket, from its own trades and the
\* last one before it.
LEMMA GapsAre ==
    ASSUME NEW s \in Tape, NEW v, NEW b \in Nat, NEW k \in Int, b = k * Interval,
           Of(s, v, b) # {}
    PROVE  Gaps(s, v, b) = Between(Previous(s, v, b), Ordered(Ats(s, Of(s, v, b))))
<1> DEFINE times == Ordered(Ats(s, ByVenue(s, v)))
           own == Ordered(Ats(s, Of(s, v, b)))
           c == Cardinality(Earlier(s, v, b))
           m == Cardinality(Of(s, v, b))
           p == Previous(s, v, b)
           ends == {i \in DOMAIN times : i > 1 /\ Bucket(times[i]) = b}
<1>1. /\ c \in Nat /\ m \in Nat
      /\ DOMAIN own = 1 .. m /\ 1 .. c + m \subseteq DOMAIN times
      /\ DOMAIN times \in SUBSET (Nat \ {0})
      /\ \A j \in DOMAIN times : Bucket(times[j]) = b <=> c < j /\ j <= c + m
      /\ \A j \in 1 .. m : times[c + j] = own[j] /\ own[j] \in Nat
      /\ c > 0 => times[c] = p /\ p \in Nat
      /\ c = 0 <=> p = None
  BY TimesAround
<1>2. m > 0
  <2>1. Of(s, v, b) \in SUBSET DOMAIN s
    BY DEF Of
  <2>2. IsFiniteSet(Of(s, v, b))
    BY <2>1, AtsAre
  <2>3. m # 0
    BY <2>2, FS_EmptySet
  <2> HIDE DEF m
  <2> QED
    BY <1>1, <2>3
<1>3. Gaps(s, v, b) = [i \in 1 .. Cardinality(ends) |-> times[Min(ends) + i - 1]
                                                       - times[Min(ends) + i - 2]]
  BY DEF Gaps, Ats, ByVenue
<1>4. own = [j \in 1 .. m |-> own[j]]
  <2>1. own = [j \in DOMAIN own |-> own[j]]
    BY DEF Ordered
  <2> HIDE DEF own, m
  <2> QED
    BY <1>1, <2>1
<1> HIDE DEF times, own, c, m, p
<1>5. own \in Seq(Nat) /\ Len(own) = m
  <2>1. own \in [1 .. m -> Nat]
    BY <1>1, <1>4
  <2> QED
    BY <1>1, <2>1
<1>6. CASE c = 0
  <2>1. ends = 2 .. m
    <3>1. ASSUME NEW i \in ends PROVE i \in 2 .. m
      BY <1>1, <1>6
    <3>2. ASSUME NEW i \in 2 .. m PROVE i \in ends
      <4>1. i \in DOMAIN times /\ i > 1 /\ c < i /\ i <= c + m
        BY <1>1, <1>6
      <4> QED
        BY <1>1, <4>1
    <3> QED
      BY <3>1, <3>2
  <2> HIDE DEF ends
  <2>2. Cardinality(ends) = m - 1
    <3>1. Cardinality(2 .. m) = IF 2 > m THEN 0 ELSE m - 2 + 1
      BY <1>1, FS_Interval
    <3> QED
      BY <1>1, <1>2, <2>1, <3>1
  <2>3. ASSUME NEW i \in 1 .. m - 1
        PROVE  times[Min(ends) + i - 1] - times[Min(ends) + i - 2] = own[i + 1] - own[i]
    <3>1. 2 <= m /\ 2 \in Nat
      BY <1>1
    <3>2. Min(ends) = 2
      BY <1>1, <2>1, <3>1, LeastOf
    <3>3. i \in 1 .. m /\ i + 1 \in 1 .. m /\ 2 + i - 1 = c + (i + 1) /\ 2 + i - 2 = c + i
      BY <1>1, <1>6
    <3>4. times[c + (i + 1)] = own[i + 1] /\ times[c + i] = own[i]
      BY <1>1, <3>3
    <3> QED
      BY <3>2, <3>3, <3>4
  <2>4. Between(p, own) = [i \in 1 .. m - 1 |-> own[i + 1] - own[i]]
    BY <1>1, <1>5, <1>6 DEF Between, Differences
  <2> QED
    BY <1>3, <2>2, <2>3, <2>4 DEF own, p
<1>7. CASE c # 0
  <2>0. c > 0 /\ c + 1 \in Nat /\ c + m \in Nat /\ c + 1 <= c + m
    BY <1>1, <1>2, <1>7
  <2>1. ends = c + 1 .. c + m
    <3>1. ASSUME NEW i \in ends PROVE i \in c + 1 .. c + m
      BY <1>1
    <3>2. ASSUME NEW i \in c + 1 .. c + m PROVE i \in ends
      <4>1. i \in DOMAIN times /\ i > 1 /\ c < i /\ i <= c + m
        BY <1>1, <2>0
      <4> QED
        BY <1>1, <4>1
    <3> QED
      BY <3>1, <3>2
  <2> HIDE DEF ends
  <2>2. Cardinality(ends) = m
    <3>0. c + 1 \in Int /\ c + m \in Int
      BY <2>0
    <3>1. Cardinality(c + 1 .. c + m) = IF c + 1 > c + m THEN 0 ELSE (c + m) - (c + 1) + 1
      BY <3>0, FS_Interval
    <3> QED
      BY <1>1, <2>0, <2>1, <3>1
  <2>3. Min(ends) = c + 1
    BY <2>0, <2>1, LeastOf
  <2> DEFINE q == <<p>> \o own
  <2>4. /\ Len(q) = m + 1 /\ q[1] = p /\ \A i \in 1 .. m : q[i + 1] = own[i]
    <3>1. <<p>> \in Seq(Nat) /\ Len(<<p>>) = 1 /\ <<p>>[1] = p
      BY <1>1, <2>0
    <3>2. /\ Len(q) = 1 + m
          /\ \A i \in 1 .. 1 + m : q[i] = IF i <= 1 THEN <<p>>[i] ELSE own[i - 1]
      BY <1>5, <3>1
    <3> HIDE DEF q
    <3>3. 1 \in 1 .. 1 + m /\ \A i \in 1 .. m : i + 1 \in 1 .. 1 + m /\ ~(i + 1 <= 1) /\ (i + 1) - 1 = i
      BY <1>1
    <3> QED
      BY <1>1, <3>1, <3>2, <3>3
  <2>5. Between(p, own) = [i \in 1 .. m |-> q[i + 1] - q[i]]
    <3>1. p # None
      BY <1>1, <1>7
    <3>2. Between(p, own) = Differences(q)
      BY <3>1 DEF Between
    <3> HIDE DEF q
    <3>3. Differences(q) = [i \in 1 .. Len(q) - 1 |-> q[i + 1] - q[i]] /\ Len(q) - 1 = m
      BY <1>1, <2>4 DEF Differences
    <3> QED
      BY <3>2, <3>3
  <2> HIDE DEF q
  <2>6. ASSUME NEW i \in 1 .. m
        PROVE  times[Min(ends) + i - 1] - times[Min(ends) + i - 2] = q[i + 1] - q[i]
    <3>1. times[c + i] = own[i] /\ q[i + 1] = own[i]
      BY <1>1, <2>4
    <3>2. (c + 1) + i - 1 = c + i /\ (c + 1) + i - 2 = c + i - 1
      BY <1>1
    <3>3. times[c + i - 1] = q[i]
      <4>1. CASE i = 1
        <5>1. c + i - 1 = c
          BY <1>1, <4>1
        <5> QED
          BY <1>1, <2>0, <2>4, <4>1, <5>1
      <4>2. CASE i # 1
        <5>1. i - 1 \in 1 .. m /\ c + i - 1 = c + (i - 1) /\ (i - 1) + 1 = i
          BY <1>1, <4>2
        <5>2. times[c + (i - 1)] = own[i - 1] /\ q[(i - 1) + 1] = own[i - 1]
          BY <1>1, <2>4, <5>1
        <5> QED
          BY <5>1, <5>2
      <4> QED
        BY <4>1, <4>2
    <3> QED
      BY <2>3, <3>1, <3>2, <3>3
  <2> QED
    BY <1>3, <2>2, <2>5, <2>6 DEF own, p
<1> QED
  BY <1>6, <1>7

-----------------------------------------------------------------------------
(* The times that buckets keep until they are closed *)

\* q has the values of f, in any order.
Stamped(q, f) ==
    /\ q \in Seq(Nat) /\ Len(q) = Cardinality(DOMAIN f)
    /\ {q[i] : i \in DOMAIN q} = {f[i] : i \in DOMAIN f}
    /\ \A x \in Int : CountTo(q, x) = CountTo(f, x)

LEMMA CountGrows ==
    ASSUME NEW f, NEW g, NEW n, IsFiniteSet(DOMAIN f), n \notin DOMAIN f,
           DOMAIN g = DOMAIN f \cup {n}, \A i \in DOMAIN f : g[i] = f[i]
    PROVE  /\ \A x \in Int : CountTo(g, x) = IF g[n] <= x THEN CountTo(f, x) + 1 ELSE CountTo(f, x)
           /\ Cardinality(DOMAIN g) = Cardinality(DOMAIN f) + 1
           /\ {g[i] : i \in DOMAIN g} = {f[i] : i \in DOMAIN f} \cup {g[n]}
<1>1. ASSUME NEW x \in Int
      PROVE  CountTo(g, x) = IF g[n] <= x THEN CountTo(f, x) + 1 ELSE CountTo(f, x)
  <2> DEFINE F == {i \in DOMAIN f : f[i] <= x}
             G == {i \in DOMAIN g : g[i] <= x}
  <2>1. F \in SUBSET DOMAIN f /\ n \notin F
    OBVIOUS
  <2>2. G = IF g[n] <= x THEN F \cup {n} ELSE F
    OBVIOUS
  <2> HIDE DEF F, G
  <2>3. IsFiniteSet(F)
    BY <2>1, FS_Subset
  <2>4. Cardinality(F \cup {n}) = Cardinality(F) + 1
    BY <2>1, <2>3, FS_AddElement
  <2>5. Cardinality(G) = IF g[n] <= x THEN Cardinality(F) + 1 ELSE Cardinality(F)
    BY <2>2, <2>4
  <2> QED
    BY <2>5 DEF CountTo, F, G
<1>2. Cardinality(DOMAIN g) = Cardinality(DOMAIN f) + 1
  BY FS_AddElement
<1>3. {g[i] : i \in DOMAIN g} = {f[i] : i \in DOMAIN f} \cup {g[n]}
  OBVIOUS
<1> QED
  BY <1>1, <1>2, <1>3

LEMMA EmptyStamped ==
    ASSUME NEW s
    PROVE  Stamped(<<>>, Ats(s, {}))
<1> DEFINE f == Ats(s, {})
           q == <<>>
<1>1. DOMAIN f = {} /\ DOMAIN q = {} /\ q \in Seq(Nat) /\ Len(q) = 0
  BY DEF Ats
<1> HIDE DEF f, q
<1>2. \A x : CountTo(f, x) = 0 /\ CountTo(q, x) = 0
  BY <1>1, FS_EmptySet DEF CountTo
<1> QED
  BY <1>1, <1>2, FS_EmptySet DEF Stamped, f, q

LEMMA StampedGrows ==
    ASSUME NEW s \in Tape, NEW t \in Tradable, NEW J \in SUBSET DOMAIN s, NEW q
    PROVE  /\ Ats(Append(s, t), J) = Ats(s, J)
           /\ Stamped(q, Ats(s, J)) =>
                  Stamped(Append(q, t.at), Ats(Append(s, t), J \cup {Len(s) + 1}))
<1> DEFINE r == Append(s, t)
           n == Len(s) + 1
           f == Ats(s, J)
           g == Ats(r, J \cup {n})
           p == Append(q, t.at)
<1>1. /\ (\A i \in DOMAIN s : r[i] = s[i]) /\ r[n] = t /\ n \notin DOMAIN s /\ t.at \in Nat
  BY TapeGrows
<1> HIDE DEF r, n
<1>2. Ats(r, J) = f
  BY <1>1 DEF Ats
<1>3. ASSUME Stamped(q, f) PROVE Stamped(p, g)
  <2>1. /\ DOMAIN f = J /\ DOMAIN g = DOMAIN f \cup {n} /\ n \notin DOMAIN f
        /\ (\A i \in DOMAIN f : g[i] = f[i]) /\ g[n] = t.at
    BY <1>1 DEF Ats
  <2>2. IsFiniteSet(DOMAIN f)
    BY <2>1, AtsAre
  <2>3. q \in Seq(Nat) /\ Len(q) \in Nat /\ DOMAIN q = 1 .. Len(q)
    BY <1>3 DEF Stamped
  <2>4. /\ p \in Seq(Nat) /\ Len(p) = Len(q) + 1 /\ DOMAIN p = DOMAIN q \cup {Len(q) + 1}
        /\ (\A i \in DOMAIN q : p[i] = q[i]) /\ p[Len(q) + 1] = t.at /\ Len(q) + 1 \notin DOMAIN q
    <3> DEFINE a == t.at
    <3>1. a \in Nat
      BY <1>1
    <3> HIDE DEF a
    <3>2. /\ Append(q, a) \in Seq(Nat) /\ Len(Append(q, a)) = Len(q) + 1
          /\ \A i \in 1 .. Len(q) : Append(q, a)[i] = q[i]
          /\ Append(q, a)[Len(q) + 1] = a
      BY <2>3, <3>1
    <3>3. 1 .. Len(q) + 1 = (1 .. Len(q)) \cup {Len(q) + 1} /\ Len(q) + 1 \notin 1 .. Len(q)
      BY <2>3
    <3>4. DOMAIN Append(q, a) = 1 .. Len(Append(q, a))
      BY <3>2
    <3> QED
      BY <2>3, <3>2, <3>3, <3>4 DEF a
  <2>5. IsFiniteSet(DOMAIN q)
    BY <2>3, FS_Interval
  <2> HIDE DEF p, g, f
  <2>6. /\ \A x \in Int : CountTo(g, x) = IF t.at <= x THEN CountTo(f, x) + 1 ELSE CountTo(f, x)
        /\ Cardinality(DOMAIN g) = Cardinality(DOMAIN f) + 1
        /\ {g[i] : i \in DOMAIN g} = {f[i] : i \in DOMAIN f} \cup {t.at}
    BY <2>1, <2>2, CountGrows
  <2>7. /\ \A x \in Int : CountTo(p, x) = IF t.at <= x THEN CountTo(q, x) + 1 ELSE CountTo(q, x)
        /\ {p[i] : i \in DOMAIN p} = {q[i] : i \in DOMAIN q} \cup {t.at}
    BY <2>4, <2>5, CountGrows
  <2> QED
    BY <1>3, <2>4, <2>6, <2>7 DEF Stamped
<1> QED
  BY <1>2, <1>3 DEF r, n, f, g, p

\* What the buckets before `from', which are closed, and the others know of the
\* times of the trades s; last has the venues' last times in the former.
TimesOK(bs, s, last, from) ==
    \A v \in Exchanges :
        /\ last[v] = Previous(s, v, from)
        /\ \A b \in DOMAIN bs :
              IF b < from THEN bs[b].stamps[v] = <<>>
              ELSE Stamped(bs[b].stamps[v], Ats(s, Of(s, v, b)))

\* The rows are of buckets before `from', with the times between trades of s.
FillsOK(rows, s, from) ==
    \A r \in rows : /\ r.venue \in Exchanges /\ r.start < from
                    /\ Of(s, r.venue, r.start) # {}
                    /\ r.fills = Gaps(s, r.venue, r.start)

LEMMA PreviousSame ==
    ASSUME NEW s \in Tape, NEW t \in Tradable, NEW from \in Int, Bucket(t.at) >= from, NEW v
    PROVE  Previous(Append(s, t), v, from) = Previous(s, v, from)
<1> DEFINE r == Append(s, t)
           E == Earlier(s, v, from)
<1>1. /\ DOMAIN r = DOMAIN s \cup {Len(s) + 1} /\ r[Len(s) + 1] = t
      /\ (\A i \in DOMAIN s : r[i] = s[i]) /\ t.at \in Nat
  BY TapeGrows
<1>2. Bucket(t.at) \in Nat
  BY <1>1, BucketType
<1> HIDE DEF r
<1>3. ~(Bucket(t.at) < from)
  BY <1>2
<1>4. Earlier(r, v, from) = E
  BY <1>1, <1>3 DEF Earlier
<1>5. \A i \in E : r[i].at = s[i].at
  BY <1>1 DEF Earlier
<1> HIDE DEF E
<1>6. {r[i].at : i \in E} = {s[i].at : i \in E}
  BY <1>5
<1> QED
  BY <1>4, <1>6 DEF Previous, E, r

LEMMA FoldTimes ==
    ASSUME NEW s \in Tape, NEW t \in Tradable, NEW bs, Tells(bs, s), NEW known, NEW last,
           NEW from \in Int, TimesOK(bs, s, last, from), Bucket(t.at) >= from
    PROVE  TimesOK(WithTrade(bs, t, known), Append(s, t), last, from)
<1> DEFINE r == Append(s, t)
           n == Len(s) + 1
           b0 == Bucket(t.at)
           old == IF b0 \in DOMAIN bs THEN bs[b0] ELSE EmptyBucket
           gap == IF known[t.venue] # None /\ t.at >= known[t.venue]
                  THEN <<t.at - known[t.venue]>> ELSE <<>>
           new == BucketWith(bs, t, known)
           cs == WithTrade(bs, t, known)
<1>1. new.stamps = [old.stamps EXCEPT ![t.venue] = Append(@, t.at)]
  <2> HIDE DEF old, gap
  <2> QED
    BY DEF BucketWith, old, gap
<1>2. /\ DOMAIN cs = DOMAIN bs \cup {b0} /\ cs[b0] = new
      /\ \A b \in DOMAIN bs : b # b0 => cs[b] = bs[b]
  <2> HIDE DEF new
  <2> QED
    BY DEF WithTrade, new
<1>3. b0 \in Nat /\ ~(b0 < from)
  <2>1. t.at \in Nat
    BY TapeGrows
  <2>2. b0 \in Nat
    BY <2>1, BucketType
  <2> QED
    BY <2>2
<1>4. ASSUME NEW v \in Exchanges
      PROVE  DOMAIN old.stamps = Exchanges /\ Stamped(old.stamps[v], Ats(s, Of(s, v, b0)))
  <2>1. CASE b0 \in DOMAIN bs
    BY <1>3, <2>1 DEF TimesOK, Tells, TellsBucket
  <2>2. CASE b0 \notin DOMAIN bs
    <3>1. Of(s, v, b0) = {}
      BY <2>2 DEF Tells, Of
    <3>2. old.stamps = [w \in Exchanges |-> <<>>]
      BY <2>2 DEF EmptyBucket
    <3> QED
      BY <3>1, <3>2, EmptyStamped
  <2> QED
    BY <2>1, <2>2
<1> HIDE DEF r, n, old, gap, new, cs, b0
<1>5. ASSUME NEW v \in Exchanges, NEW b
      PROVE  /\ Of(s, v, b) \in SUBSET DOMAIN s
             /\ Of(r, v, b) = IF t.venue = v /\ b0 = b THEN Of(s, v, b) \cup {n} ELSE Of(s, v, b)
  BY PlacesGrow DEF r, n, b0
<1>6. ASSUME NEW v \in Exchanges
      PROVE  Stamped(new.stamps[v], Ats(r, Of(r, v, b0)))
  <2> DEFINE J == Of(s, v, b0)
  <2>1. J \in SUBSET DOMAIN s
    BY <1>5
  <2> HIDE DEF J
  <2>2. CASE v = t.venue
    <3>1. new.stamps[v] = Append(old.stamps[v], t.at)
      BY <1>1, <1>4, <2>2
    <3>2. Of(r, v, b0) = J \cup {n}
      BY <1>5, <2>2 DEF J
    <3>3. Stamped(old.stamps[v], Ats(s, J))
      BY <1>4 DEF J
    <3>4. Stamped(Append(old.stamps[v], t.at), Ats(r, J \cup {n}))
      BY <2>1, <3>3, StampedGrows DEF r, n
    <3> QED
      BY <3>1, <3>2, <3>4
  <2>3. CASE v # t.venue
    <3>1. new.stamps[v] = old.stamps[v]
      BY <1>1, <1>4, <2>3
    <3>2. Of(r, v, b0) = J
      BY <1>5, <2>3 DEF J
    <3>3. Ats(r, J) = Ats(s, J)
      BY <2>1, StampedGrows DEF r
    <3> QED
      BY <1>4, <3>1, <3>2, <3>3 DEF J
  <2> QED
    BY <2>2, <2>3
<1>7. ASSUME NEW v \in Exchanges, NEW b \in DOMAIN cs
      PROVE  IF b < from THEN cs[b].stamps[v] = <<>>
             ELSE Stamped(cs[b].stamps[v], Ats(r, Of(r, v, b)))
  <2>1. CASE b = b0
    BY <1>2, <1>3, <1>6, <2>1
  <2>2. CASE b # b0
    <3>1. b \in DOMAIN bs /\ cs[b] = bs[b]
      BY <1>2, <2>2
    <3>2. Of(r, v, b) = Of(s, v, b) /\ Of(s, v, b) \in SUBSET DOMAIN s
      BY <1>5, <2>2
    <3>3. Ats(r, Of(s, v, b)) = Ats(s, Of(s, v, b))
      BY <3>2, StampedGrows DEF r
    <3> QED
      BY <3>1, <3>2, <3>3 DEF TimesOK
  <2> QED
    BY <2>1, <2>2
<1>8. ASSUME NEW v \in Exchanges PROVE last[v] = Previous(r, v, from)
  BY PreviousSame DEF TimesOK, r
<1> QED
  BY <1>7, <1>8 DEF TimesOK, r, cs

LEMMA FoldFills ==
    ASSUME NEW s \in Tape, NEW t \in Tradable, NEW rows, NEW from \in Int,
           FillsOK(rows, s, from), Bucket(t.at) >= from
    PROVE  FillsOK(rows, Append(s, t), from)
<1> SUFFICES ASSUME NEW row \in rows
             PROVE  /\ Of(Append(s, t), row.venue, row.start) # {}
                    /\ row.fills = Gaps(Append(s, t), row.venue, row.start)
  BY DEF FillsOK
<1> DEFINE r == Append(s, t)
           v == row.venue
           b == row.start
           J == Of(s, v, b)
<1>1. v \in Exchanges /\ b < from /\ J # {} /\ row.fills = Gaps(s, v, b)
  BY DEF FillsOK
<1>2. b \in Nat /\ \E k \in Int : b = k * Interval
  <2>1. PICK i \in DOMAIN s : Bucket(s[i].at) = b
    BY <1>1 DEF Of
  <2>2. s[i].at \in Nat
    BY TapeIs
  <2> QED
    BY <2>1, <2>2, BucketMultiple
<1>3. t.at \in Nat /\ Bucket(t.at) \in Nat /\ r \in Tape
  BY TapeGrows, BucketType
<1> HIDE DEF r, v, b
<1>4. Bucket(t.at) # b /\ Bucket(t.at) >= b
  BY <1>1, <1>2, <1>3
<1>5. Of(r, v, b) = J /\ J \in SUBSET DOMAIN s
  BY <1>4, PlacesGrow DEF r
<1> HIDE DEF J
<1>6. Ats(r, J) = Ats(s, J)
  BY <1>5, StampedGrows DEF r
<1>7. Previous(r, v, b) = Previous(s, v, b)
  BY <1>2, <1>4, PreviousSame DEF r
<1>8. Gaps(s, v, b) = Between(Previous(s, v, b), Ordered(Ats(s, J)))
  BY <1>1, <1>2, GapsAre DEF J
<1>9. Gaps(r, v, b) = Between(Previous(r, v, b), Ordered(Ats(r, J)))
  BY <1>1, <1>2, <1>3, <1>5, GapsAre
<1> QED
  BY <1>1, <1>5, <1>6, <1>7, <1>8, <1>9 DEF r, v, b

\* Where no bucket is, nothing is to be closed.
LEMMA Skip ==
    ASSUME NEW s \in Tape, NEW bs, Tells(bs, s), NEW last, NEW from \in Int, NEW to \in Int,
           from <= to, \A b \in BucketsOf(s) : ~(from <= b /\ b < to)
    PROVE  /\ TimesOK(bs, s, last, from) => TimesOK(bs, s, last, to)
           /\ \A rows : FillsOK(rows, s, from) => FillsOK(rows, s, to)
<1>1. \A b \in BucketsOf(s) : b \in Nat /\ (b < from <=> b < to)
  <2>1. \A b \in BucketsOf(s) : b \in Nat
    BY BucketsOfTape
  <2> QED
    BY <2>1
<1>2. DOMAIN bs = BucketsOf(s)
  BY DEF Tells, BucketsOf
<1>3. ASSUME NEW v PROVE Previous(s, v, from) = Previous(s, v, to)
  <2>1. \A i \in DOMAIN s : Bucket(s[i].at) \in BucketsOf(s)
    BY DEF BucketsOf
  <2>2. Earlier(s, v, from) = Earlier(s, v, to)
    BY <1>1, <2>1 DEF Earlier
  <2> QED
    BY <2>2 DEF Previous
<1>4. ASSUME TimesOK(bs, s, last, from) PROVE TimesOK(bs, s, last, to)
  BY <1>1, <1>2, <1>3, <1>4 DEF TimesOK
<1>5. ASSUME NEW rows, FillsOK(rows, s, from) PROVE FillsOK(rows, s, to)
  <2>1. \A r \in rows : r.start \in BucketsOf(s)
    BY <1>5 DEF FillsOK, Of, BucketsOf
  <2> QED
    BY <1>1, <1>5, <2>1 DEF FillsOK
<1> QED
  BY <1>4, <1>5

LEMMA StampsAre ==
    ASSUME NEW s \in Tape, NEW I \in SUBSET DOMAIN s, NEW q, Stamped(q, Ats(s, I))
    PROVE  /\ q \in Amounts /\ (q = <<>> <=> I = {})
           /\ ToSet(q) = {s[i].at : i \in I}
           /\ Ordered(q) = Ordered(Ats(s, I))
<1> DEFINE f == Ats(s, I)
<1>1. /\ f \in Amounts /\ DOMAIN f = I /\ IsFiniteSet(I) /\ Cardinality(I) \in Nat
      /\ \A i \in I : f[i] = s[i].at
  BY AtsAre
<1> HIDE DEF f
<1>2. /\ q \in Seq(Nat) /\ Len(q) = Cardinality(I)
      /\ {q[i] : i \in DOMAIN q} = {f[i] : i \in I}
      /\ \A x \in Int : CountTo(q, x) = CountTo(f, x)
  BY <1>1 DEF Stamped, f
<1>3. DOMAIN q = 1 .. Len(q) /\ q \in [1 .. Len(q) -> Nat] /\ Len(q) \in Nat
  BY <1>2
<1>4. q \in Amounts /\ Cardinality(DOMAIN q) = Len(q)
  <2>1. IsFiniteSet(1 .. Len(q)) /\ Cardinality(1 .. Len(q)) = Len(q)
    <3> DEFINE n == Len(q)
    <3>1. n \in Nat
      BY <1>3
    <3> HIDE DEF n
    <3>2. IsFiniteSet(1 .. n) /\ Cardinality(1 .. n) = IF 1 > n THEN 0 ELSE n - 1 + 1
      BY <3>1, FS_Interval
    <3> QED
      BY <3>1, <3>2 DEF n
  <2>2. 1 .. Len(q) \in SUBSET Nat
    BY <1>3
  <2> QED
    BY <1>3, <2>1, <2>2, AmountsAre
<1>5. Ordered(q) = Ordered(f)
  BY <1>1, <1>2, <1>4, OrderedSame
<1>6. q = <<>> <=> I = {}
  <2>1. Cardinality(I) = 0 <=> I = {}
    BY <1>1, FS_EmptySet
  <2>2. q = <<>> <=> Len(q) = 0
    BY <1>2
  <2> QED
    BY <1>2, <2>1, <2>2
<1>7. ToSet(q) = {s[i].at : i \in I}
  <2>1. {f[i] : i \in I} = {s[i].at : i \in I}
    BY <1>1
  <2> QED
    BY <1>2, <2>1 DEF ToSet
<1> QED
  BY <1>4, <1>5, <1>6, <1>7 DEF f

\* A bar's times, when its bucket is the first that is not closed, are those
\* between the trades.
LEMMA FillsAre ==
    ASSUME NEW s \in Tape, NEW bs, Tells(bs, s), NEW b \in DOMAIN bs, NEW v \in Exchanges,
           Of(s, v, b) # {}, NEW last, TimesOK(bs, s, last, b)
    PROVE  Fills(bs, last, v, b) = Gaps(s, v, b)
<1> DEFINE J == Of(s, v, b)
           q == bs[b].stamps[v]
           open == {p \in DOMAIN bs : p < b /\ bs[p].stamps[v] # <<>>}
           previous == IF open = {} THEN last[v] ELSE Max(ToSet(bs[Max(open)].stamps[v]))
<1>1. b \in Nat /\ \E k \in Int : b = k * Interval
  BY BucketsOfTape DEF Tells, BucketsOf
<1>2. open = {} /\ last[v] = Previous(s, v, b) /\ Stamped(q, Ats(s, J))
  <2>1. ~(b < b)
    BY <1>1
  <2> HIDE DEF J
  <2> QED
    BY <2>1 DEF TimesOK, J
<1>3. Gaps(s, v, b) = Between(Previous(s, v, b), Ordered(Ats(s, J)))
  BY <1>1, GapsAre
<1>4. J \in SUBSET DOMAIN s /\ J # {}
  BY DEF Of
<1>5. Fills(bs, last, v, b) =
          IF q = <<>> THEN bs[b].venues[v].fills
          ELSE IF previous = None THEN Differences(Ordered(q))
          ELSE Differences(<<previous>> \o Ordered(q))
  BY DEF Fills
<1>6. previous = Previous(s, v, b)
  BY <1>2
<1> HIDE DEF J, q, open, previous
<1>7. q # <<>> /\ Ordered(q) = Ordered(Ats(s, J))
  BY <1>2, <1>4, StampsAre
<1>8. Fills(bs, last, v, b) = Between(previous, Ordered(q))
  BY <1>5, <1>7 DEF Between
<1> QED
  BY <1>3, <1>6, <1>7, <1>8

\* The last time of a venue after bucket b is that of its trades in b, if any.
LEMMA PreviousNext ==
    ASSUME NEW s \in Tape, NEW b \in Nat, NEW k \in Int, b = k * Interval, NEW v
    PROVE  Previous(s, v, b + 1) = IF Of(s, v, b) = {} THEN Previous(s, v, b)
                                   ELSE Max({s[i].at : i \in Of(s, v, b)})
<1> DEFINE E == Earlier(s, v, b)
           J == Of(s, v, b)
           A == {s[i].at : i \in J}
           C == {s[i].at : i \in Earlier(s, v, b + 1)}
<1>1. \A i \in DOMAIN s : /\ s[i].at \in Nat /\ Bucket(s[i].at) \in Nat
                          /\ Bucket(s[i].at) = b <=> b <= s[i].at /\ s[i].at < b + Interval
                          /\ Bucket(s[i].at) < b <=> s[i].at < b
                          /\ Bucket(s[i].at) < b + 1 <=> Bucket(s[i].at) < b \/ Bucket(s[i].at) = b
  <2> SUFFICES ASSUME NEW i \in DOMAIN s
               PROVE  /\ s[i].at \in Nat /\ Bucket(s[i].at) \in Nat
                      /\ Bucket(s[i].at) = b <=> b <= s[i].at /\ s[i].at < b + Interval
                      /\ Bucket(s[i].at) < b <=> s[i].at < b
                      /\ Bucket(s[i].at) < b + 1 <=> Bucket(s[i].at) < b \/ Bucket(s[i].at) = b
    OBVIOUS
  <2>1. s[i].at \in Nat
    BY TapeIs
  <2>2. /\ Bucket(s[i].at) = b <=> b <= s[i].at /\ s[i].at < b + Interval
        /\ Bucket(s[i].at) < b <=> s[i].at < b
        /\ Bucket(s[i].at) \in Nat
    BY <2>1, InBucket
  <2> DEFINE x == Bucket(s[i].at)
  <2>3. x \in Nat
    BY <2>2
  <2> HIDE DEF x
  <2>4. x < b + 1 <=> x < b \/ x = b
    BY <2>3
  <2> QED
    BY <2>1, <2>2, <2>4 DEF x
<1>2. Earlier(s, v, b + 1) = E \cup J
  BY <1>1 DEF Earlier, Of
<1>3. J \in SUBSET DOMAIN s /\ E \in SUBSET DOMAIN s
      /\ (\A i \in J : b <= s[i].at) /\ (\A i \in E : s[i].at < b)
  BY <1>1 DEF Of, Earlier
<1> HIDE DEF E, J
<1>4. CASE J = {}
  BY <1>2, <1>4 DEF Previous, E, J
<1>5. CASE J # {}
  <2>1. A \in SUBSET Nat /\ IsFiniteSet(A)
    BY <1>3, AtsAre
  <2>2. A # {}
    BY <1>5
  <2> DEFINE m == Max(A)
  <2>3. m \in A /\ \A x \in A : x <= m
    <3> HIDE DEF A
    <3> QED
      BY <2>1, <2>2, Extremes
  <2> HIDE DEF m
  <2>4. m \in Nat /\ b <= m
    <3>1. \A x \in A : b <= x
      BY <1>3
    <3> HIDE DEF A
    <3> QED
      BY <2>1, <2>3, <3>1
  <2>5. C \in SUBSET Nat /\ m \in C
    <3>1. C = A \cup {s[i].at : i \in E}
      BY <1>2
    <3>2. \A i \in E : s[i].at \in Nat
      BY <1>1, <1>3
    <3> HIDE DEF A, C
    <3> QED
      BY <2>1, <2>3, <3>1, <3>2
  <2>6. \A x \in C : x <= m
    <3> SUFFICES ASSUME NEW i \in E \cup J PROVE s[i].at <= m
      BY <1>2
    <3>1. s[i].at \in Nat
      BY <1>1, <1>3
    <3>2. CASE i \in J
      BY <2>3, <3>2
    <3>3. CASE i \in E
      <4>1. s[i].at < b
        BY <1>3, <3>3
      <4> QED
        BY <2>4, <3>1, <4>1
    <3> QED
      BY <3>2, <3>3
  <2> HIDE DEF C, A
  <2>7. Max(C) = m
    BY <2>5, <2>6, MaxIs
  <2>8. Earlier(s, v, b + 1) # {}
    BY <1>2, <1>5
  <2>9. Previous(s, v, b + 1) = Max(C)
    BY <2>8 DEF Previous, C
  <2> QED
    BY <1>5, <2>7, <2>9 DEF m, A, J
<1> QED
  BY <1>4, <1>5

\* A bucket that is closed keeps no times, its venues' last ones are kept, and
\* its rows have the times between its trades.
LEMMA SettledTimes ==
    ASSUME NEW s \in Tape, NEW m, Tells(m.buckets, s), NEW b \in DOMAIN m.buckets,
           TimesOK(m.buckets, s, m.last, b), FillsOK(m.bars, s, b)
    PROVE  LET x == Settled(m, b)
           IN TimesOK(x.buckets, s, x.last, b + 1) /\ FillsOK(x.bars, s, b + 1)
<1> DEFINE bs == m.buckets
           F == [v \in Exchanges |-> Fills(m.buckets, m.last, v, b)]
           x == Settled(m, b)
           cs == x.buckets
<1>1. b \in Nat /\ (\E k \in Int : b = k * Interval) /\ \A p \in DOMAIN bs : p \in Nat
  BY BucketsOfTape DEF Tells, BucketsOf
<1>2. DOMAIN bs[b] = {"all", "venues", "stamps"} /\ DOMAIN bs[b].stamps = Exchanges
  BY DEF Tells, TellsBucket
<1>3. /\ cs = [bs EXCEPT ![b].stamps = [v \in Exchanges |-> <<>>],
                         ![b].venues = [v \in Exchanges |-> [@[v] EXCEPT !.fills = F[v]]]]
      /\ x.last = [v \in Exchanges |-> IF bs[b].stamps[v] = <<>> THEN m.last[v]
                                       ELSE Max(ToSet(bs[b].stamps[v]))]
      /\ x.bars = m.bars \cup BarsFor(bs, m.last, b)
  <2>1. \A v \in Exchanges : F[v] = Fills(m.buckets, m.last, v, b)
    OBVIOUS
  <2> HIDE DEF F
  <2> QED
    BY <2>1 DEF Settled
<1> HIDE DEF F
<1>4. /\ DOMAIN cs = DOMAIN bs /\ (\A p \in DOMAIN bs : p # b => cs[p] = bs[p])
      /\ \A v \in Exchanges : cs[b].stamps[v] = <<>>
  <2> HIDE DEF x, bs
  <2>1. DOMAIN cs = DOMAIN bs /\ \A p \in DOMAIN bs : p # b => cs[p] = bs[p]
    BY <1>3
  <2>2. cs[b].stamps = [v \in Exchanges |-> <<>>]
    BY <1>2, <1>3 DEF bs
  <2> QED
    BY <2>1, <2>2
<1> HIDE DEF cs, x
<1>5. ASSUME NEW v \in Exchanges
      PROVE  x.last[v] = Previous(s, v, b + 1)
  <2> DEFINE q == bs[b].stamps[v]
             J == Of(s, v, b)
  <2>1. m.last[v] = Previous(s, v, b) /\ Stamped(q, Ats(s, J))
    <3>1. ~(b < b)
      BY <1>1
    <3> QED
      BY <3>1 DEF TimesOK
  <2>2. J \in SUBSET DOMAIN s
    BY DEF Of
  <2>3. Previous(s, v, b + 1) = IF J = {} THEN Previous(s, v, b) ELSE Max({s[i].at : i \in J})
    BY <1>1, PreviousNext
  <2>4. x.last[v] = IF q = <<>> THEN m.last[v] ELSE Max(ToSet(q))
    BY <1>3
  <2> HIDE DEF J, q
  <2>5. (q = <<>> <=> J = {}) /\ ToSet(q) = {s[i].at : i \in J}
    BY <2>1, <2>2, StampsAre
  <2> QED
    BY <2>1, <2>3, <2>4, <2>5
<1>6. ASSUME NEW v \in Exchanges, NEW p \in DOMAIN bs
      PROVE  IF p < b + 1 THEN cs[p].stamps[v] = <<>>
             ELSE Stamped(cs[p].stamps[v], Ats(s, Of(s, v, p)))
  <2>1. p < b + 1 <=> p < b \/ p = b
    BY <1>1
  <2>2. CASE p = b
    BY <1>4, <2>1, <2>2
  <2>3. CASE p # b
    <3>1. cs[p] = bs[p]
      BY <1>4, <2>3
    <3>2. IF p < b THEN bs[p].stamps[v] = <<>>
          ELSE Stamped(bs[p].stamps[v], Ats(s, Of(s, v, p)))
      BY DEF TimesOK
    <3> HIDE DEF bs
    <3> QED
      BY <2>1, <2>3, <3>1, <3>2
  <2> QED
    BY <2>2, <2>3
<1>7. TimesOK(cs, s, x.last, b + 1)
  BY <1>4, <1>5, <1>6 DEF TimesOK
<1>8. ASSUME NEW r \in BarsFor(bs, m.last, b)
      PROVE  /\ r.venue \in Exchanges /\ r.start = b /\ Of(s, r.venue, b) # {}
             /\ r.fills = Gaps(s, r.venue, b)
  <2>1. PICK v \in Exchanges : /\ bs[b].venues[v].count > 0
                               /\ r = Row(bs[b].venues[v], v, b, Fills(bs, m.last, v, b))
    BY DEF BarsFor
  <2> DEFINE fills == Fills(bs, m.last, v, b)
             part == bs[b].venues[v]
  <2>2. r.venue = v /\ r.start = b /\ r.fills = fills
    <3>1. r = Row(part, v, b, fills)
      BY <2>1
    <3> HIDE DEF fills, part
    <3> QED
      BY <3>1 DEF Row
  <2>3. Of(s, v, b) # {}
    <3>1. Counted(part, s, Of(s, v, b)) /\ Of(s, v, b) \in SUBSET DOMAIN s
      BY DEF Tells, TellsBucket, Of
    <3>2. part.count > 0
      BY <2>1
    <3> HIDE DEF part
    <3> QED
      BY <3>1, <3>2, TradedIn
  <2>4. fills = Gaps(s, v, b)
    BY <2>3, FillsAre
  <2> HIDE DEF fills
  <2> QED
    BY <2>2, <2>3, <2>4
<1>9. FillsOK(x.bars, s, b + 1)
  <2> SUFFICES ASSUME NEW r \in x.bars
               PROVE  /\ r.venue \in Exchanges /\ r.start < b + 1
                      /\ Of(s, r.venue, r.start) # {} /\ r.fills = Gaps(s, r.venue, r.start)
    BY DEF FillsOK
  <2>1. CASE r \in m.bars
    <3>1. /\ r.venue \in Exchanges /\ r.start < b
          /\ Of(s, r.venue, r.start) # {} /\ r.fills = Gaps(s, r.venue, r.start)
      BY <2>1 DEF FillsOK
    <3>2. r.start \in BucketsOf(s)
      BY <3>1 DEF Of, BucketsOf
    <3>3. r.start \in Nat
      BY <3>2, BucketsOfTape
    <3>4. r.start < b + 1
      BY <1>1, <3>1, <3>3
    <3> QED
      BY <3>1, <3>4
  <2>2. CASE r \in BarsFor(bs, m.last, b)
    BY <1>1, <1>8, <2>2
  <2> QED
    BY <1>3, <2>1, <2>2
<1> QED
  BY <1>7, <1>9 DEF cs, x

\* The same when several are closed, one after the other.
LEMMA SettledAllTimes ==
    ASSUME NEW s \in Tape, NEW m, Tells(m.buckets, s), NEW from \in Int, NEW through \in Int,
           from <= through + 1,
           TimesOK(m.buckets, s, m.last, from), FillsOK(m.bars, s, from),
           NEW closing, closing = {b \in BucketsOf(s) : from <= b /\ b <= through}
    PROVE  LET x == SettledAll(m, closing)
           IN TimesOK(x.buckets, s, x.last, through + 1) /\ FillsOK(x.bars, s, through + 1)
<1>1. BucketsOf(s) \in SUBSET Nat /\ IsFiniteSet(BucketsOf(s)) /\ DOMAIN m.buckets = BucketsOf(s)
  BY BucketsOfTape DEF Tells, BucketsOf
<1>2. closing \in SUBSET BucketsOf(s) /\ closing \in SUBSET Nat /\ IsFiniteSet(closing)
  <2>1. closing \in SUBSET BucketsOf(s)
    OBVIOUS
  <2> QED
    BY <1>1, <2>1, FS_Subset
<1>3. through + 1 \in Int /\ \A b \in BucketsOf(s) :
          b \in closing <=> from <= b /\ b < through + 1
  <2>1. \A b \in BucketsOf(s) : b <= through <=> b < through + 1
    BY <1>1
  <2> QED
    BY <2>1
<1>4. CASE closing = {}
  <2>1. SettledAll(m, closing) = m
    BY <1>4 DEF SettledAll
  <2>2. \A b \in BucketsOf(s) : ~(from <= b /\ b < through + 1)
    BY <1>3, <1>4
  <2> QED
    BY <1>3, <2>1, <2>2, Skip
<1>5. CASE closing # {}
  <2>1. PICK g : /\ SettledAll(m, closing) = g[Max(closing)]
                 /\ \A k \in Nat : Closes(g, k, m, closing)
    BY <1>2, <1>5, SettledSteps
  <2> DEFINE Done(x, n) == /\ Tells(x.buckets, s)
                           /\ TimesOK(x.buckets, s, x.last, n) /\ FillsOK(x.bars, s, n)
             Until(n) == IF from <= n THEN n ELSE from
  <2>2. g[0] = Step(m, closing, 0) /\ \A n \in Nat : g[n + 1] = Step(g[n], closing, n + 1)
    <3>1. g[0] = Step(m, closing, 0)
      BY <2>1 DEF Closes
    <3>2. ASSUME NEW n \in Nat PROVE g[n + 1] = Step(g[n], closing, n + 1)
      <4>1. n + 1 \in Nat /\ n + 1 \in 1 .. n + 1 /\ (n + 1) - 1 = n
        OBVIOUS
      <4>2. Closes(g, n + 1, m, closing)
        BY <2>1, <4>1
      <4> QED
        BY <4>1, <4>2 DEF Closes
    <3> QED
      BY <3>1, <3>2
  <2>3. ASSUME NEW x, NEW n \in Nat, Done(x, Until(n)), n <= through
        PROVE  Done(Step(x, closing, n), Until(n + 1))
    <3>1. CASE n \in closing
      <4>1. from <= n /\ n \in BucketsOf(s) /\ Until(n) = n
        BY <3>1
      <4>2. Until(n + 1) = n + 1
        BY <4>1
      <4>3. n \in DOMAIN x.buckets /\ Tells(x.buckets, s)
        BY <2>3, <4>1 DEF Tells, BucketsOf
      <4>4. TimesOK(x.buckets, s, x.last, n) /\ FillsOK(x.bars, s, n)
        BY <2>3, <4>1
      <4>5. Step(x, closing, n) = Settled(x, n)
        BY <3>1 DEF Step
      <4>6. Tells(Settled(x, n).buckets, s)
        BY <4>3, SettledKeeps
      <4>7. LET y == Settled(x, n)
            IN TimesOK(y.buckets, s, y.last, n + 1) /\ FillsOK(y.bars, s, n + 1)
        BY <4>3, <4>4, SettledTimes
      <4> QED
        BY <4>2, <4>5, <4>6, <4>7
    <3>2. CASE n \notin closing
      <4>1. Step(x, closing, n) = x
        BY <3>2 DEF Step
      <4>2. Until(n) \in Int /\ Until(n + 1) \in Int /\ Until(n) <= Until(n + 1)
        OBVIOUS
      <4>3. \A b \in BucketsOf(s) : ~(Until(n) <= b /\ b < Until(n + 1))
        <5> SUFFICES ASSUME NEW b \in BucketsOf(s), Until(n) <= b, b < Until(n + 1) PROVE FALSE
          OBVIOUS
        <5>1. b \in Nat
          BY <1>1
        <5>2. from <= b /\ b = n
          BY <5>1
        <5> QED
          BY <1>3, <2>3, <3>2, <5>2
      <4> DEFINE i == Until(n)
                 j == Until(n + 1)
      <4> HIDE DEF i, j, Until
      <4>4. Tells(x.buckets, s) /\ TimesOK(x.buckets, s, x.last, i) /\ FillsOK(x.bars, s, i)
        BY <2>3 DEF i
      <4>5. i \in Int /\ j \in Int /\ i <= j /\ \A b \in BucketsOf(s) : ~(i <= b /\ b < j)
        BY <4>2, <4>3 DEF i, j
      <4>6. TimesOK(x.buckets, s, x.last, j) /\ FillsOK(x.bars, s, j)
        BY <4>4, <4>5, Skip
      <4> QED
        BY <4>1, <4>4, <4>6 DEF j
    <3> QED
      BY <3>1, <3>2
  <2> DEFINE k == Max(closing)
  <2>4. k \in closing /\ (\A b \in closing : b <= k) /\ k \in Nat /\ from <= k /\ k <= through
    <3>1. k \in closing /\ \A b \in closing : b <= k
      BY <1>2, <1>5, Extremes
    <3> HIDE DEF k
    <3> QED
      BY <1>2, <3>1
  <2> HIDE DEF k
  <2> DEFINE S == {n \in Nat : n <= through => Done(g[n], Until(n + 1))}
  <2>5. 0 \in S
    <3>1. CASE 0 <= through
      <4>1. Done(m, Until(0))
        <5> DEFINE i == Until(0)
        <5>1. i \in Int /\ from <= i /\ \A b \in Nat : ~(from <= b /\ b < i)
          OBVIOUS
        <5>2. \A b \in BucketsOf(s) : ~(from <= b /\ b < i)
          BY <1>1, <5>1
        <5> HIDE DEF i
        <5>3. TimesOK(m.buckets, s, m.last, i) /\ FillsOK(m.bars, s, i)
          BY <5>1, <5>2, Skip
        <5> QED
          BY <5>3 DEF i
      <4> QED
        BY <2>2, <2>3, <3>1, <4>1
    <3> QED
      BY <3>1
  <2>6. ASSUME NEW n \in Nat, n \in S PROVE n + 1 \in S
    <3>1. n + 1 \in Nat /\ (n + 1 <= through => n <= through)
      OBVIOUS
    <3>2. n + 1 <= through => Done(g[n], Until(n + 1))
      BY <2>6, <3>1
    <3>3. n + 1 <= through => Done(g[n + 1], Until((n + 1) + 1))
      <4> HIDE DEF Done, Until
      <4> QED
        BY <2>2, <2>3, <3>1, <3>2
    <3> HIDE DEF Done, Until
    <3> QED
      BY <3>1, <3>3
  <2>7. Done(g[k], k + 1)
    <3>1. k \in S
      <4> HIDE DEF S
      <4>1. Nat \subseteq S
        BY <2>5, <2>6, AllNaturals
      <4> QED
        BY <2>4, <4>1
    <3>2. Until(k + 1) = k + 1
      BY <2>4
    <3> HIDE DEF Done, Until
    <3> QED
      BY <2>4, <3>1, <3>2
  <2>8. k + 1 \in Int /\ k + 1 <= through + 1
        /\ \A b \in BucketsOf(s) : ~(k + 1 <= b /\ b < through + 1)
    <3> SUFFICES ASSUME NEW b \in BucketsOf(s), k + 1 <= b, b < through + 1 PROVE FALSE
      BY <2>4
    <3>1. b \in Nat /\ from <= b /\ b > k
      BY <1>1, <2>4
    <3>2. b \in closing
      BY <1>3, <3>1
    <3> QED
      BY <2>4, <3>1, <3>2
  <2> DEFINE x == g[k]
             i == k + 1
             j == through + 1
  <2>9. Tells(x.buckets, s) /\ TimesOK(x.buckets, s, x.last, i) /\ FillsOK(x.bars, s, i)
    BY <2>7
  <2> HIDE DEF x, Done, i, j
  <2>10. i \in Int /\ j \in Int /\ i <= j /\ \A b \in BucketsOf(s) : ~(i <= b /\ b < j)
    BY <1>3, <2>8 DEF i, j
  <2>11. TimesOK(x.buckets, s, x.last, j) /\ FillsOK(x.bars, s, j)
    BY <2>9, <2>10, Skip
  <2> QED
    BY <2>1, <2>11 DEF x, j, k
<1> QED
  BY <1>4, <1>5

\* Memory and the checkpoint alike: the buckets that are closed keep no times,
\* the others those of their trades, and the rows of the former have them.
TimesInv ==
    /\ TimesOK(buckets, folded, settled, closed + 1) /\ FillsOK(bars, folded, closed + 1)
    /\ TimesOK(saved.buckets, saved.folded, saved.settled, saved.closed + 1)
    /\ FillsOK(saved.bars, saved.folded, saved.closed + 1)

LEMMA InitTimesInv == ViewsInit => TimesInv
<1> SUFFICES ASSUME ViewsInit PROVE TimesInv
  OBVIOUS
<1>1. PICK s \in Legacy : folded = s /\ buckets = Migrated(LegacyRows(s))
  BY DEF ViewsInit
<1>2. settled = Unknown /\ bars = {} /\ saved = Kept
  BY DEF ViewsInit
<1>3. \A v \in Exchanges, i \in DOMAIN s : s[i].venue # v
  BY ViewsConstantsOK, VenuesAre
<1>4. \A v \in Exchanges : \A b : Of(s, v, b) = {} /\ Earlier(s, v, b) = {}
  BY <1>3 DEF Of, Earlier
<1>5. \A b \in DOMAIN buckets : \A v \in Exchanges : buckets[b].stamps[v] = <<>>
  <2> DEFINE rows == LegacyRows(s)
  <2> HIDE DEF rows
  <2>1. \A b \in DOMAIN rows : Migrated(rows)[b].stamps = EmptyBucket.stamps
    BY DEF Migrated, EmptyBucket
  <2>2. DOMAIN Migrated(rows) = DOMAIN rows
    BY DEF Migrated
  <2>3. \A v \in Exchanges : EmptyBucket.stamps[v] = <<>>
    BY DEF EmptyBucket
  <2> QED
    BY <1>1, <2>1, <2>2, <2>3 DEF rows
<1>6. TimesOK(buckets, folded, settled, closed + 1)
  <2>1. ASSUME NEW v \in Exchanges PROVE settled[v] = Previous(folded, v, closed + 1)
    BY <1>1, <1>2, <1>4 DEF Previous, Unknown
  <2>2. ASSUME NEW v \in Exchanges, NEW b \in DOMAIN buckets
        PROVE  Stamped(buckets[b].stamps[v], Ats(folded, Of(folded, v, b)))
    BY <1>1, <1>4, <1>5, EmptyStamped
  <2> QED
    BY <1>5, <2>1, <2>2 DEF TimesOK
<1>7. FillsOK(bars, folded, closed + 1)
  BY <1>2 DEF FillsOK
<1>8. /\ saved.buckets = buckets /\ saved.folded = folded /\ saved.bars = bars
      /\ saved.closed = closed /\ saved.settled = settled
  BY <1>2 DEF Kept
<1> QED
  BY <1>6, <1>7, <1>8 DEF TimesInv

LEMMA HandleTimes ==
    ASSUME NEW t \in Trades, HandleTrade(t), ViewsInv, TimesInv
    PROVE  /\ TimesOK(buckets', folded', settled', closed' + 1)
           /\ FillsOK(bars', folded', closed' + 1)
<1> DEFINE s == folded
           r == folded'
           with == WithTrade(buckets, t, lastAt)
           m == [buckets |-> with, last |-> settled, bars |-> bars]
           from == closed + 1
           through == closed'
           closing == {b \in BucketsOf(r) : closed < b /\ b <= closed'}
           after == SettledAll(m, closing)
<1>1. HistoryOK(buckets, folded, bars, closed) /\ newest \in Int
  BY DEF ViewsInv
<1>2. /\ t \in Tradable /\ Bucket(t.at) \in Nat /\ closed \in Int /\ Bucket(t.at) > closed
      /\ r = Append(s, t) /\ r \in Tape /\ Tells(with, r)
      /\ through \in Int /\ closed <= through
      /\ buckets' = after.buckets /\ settled' = after.last /\ bars' = after.bars
  BY <1>1, HandleIs
<1>3. s \in Tape /\ Tells(buckets, s)
  BY <1>1 DEF HistoryOK
<1>4. from \in Int /\ Bucket(t.at) >= from /\ from <= through + 1
  <2> DEFINE b0 == Bucket(t.at)
             to == closed'
  <2>1. b0 \in Nat /\ closed \in Int /\ b0 > closed /\ to \in Int /\ closed <= to
    BY <1>2
  <2> HIDE DEF b0, to
  <2>2. closed + 1 \in Int /\ b0 >= closed + 1 /\ closed + 1 <= to + 1
    BY <2>1
  <2> QED
    BY <2>2 DEF b0, to
<1>5. TimesOK(buckets, s, settled, from) /\ FillsOK(bars, s, from)
  BY DEF TimesInv
<1>6. BucketsOf(r) \in SUBSET Nat
  BY <1>2, BucketsOfTape
<1>7. closing = {b \in BucketsOf(r) : from <= b /\ b <= through}
  <2>1. \A b \in BucketsOf(r) : closed < b <=> from <= b
    BY <1>2, <1>6
  <2> QED
    BY <2>1
<1> HIDE DEF s, r, with, m, from, through
<1>8. TimesOK(with, r, settled, from) /\ FillsOK(bars, r, from)
  BY <1>2, <1>3, <1>4, <1>5, FoldTimes, FoldFills DEF with
<1>9. m.buckets = with /\ m.last = settled /\ m.bars = bars
  BY DEF m
<1> HIDE DEF closing
<1>10. /\ TimesOK(after.buckets, r, after.last, through + 1)
       /\ FillsOK(after.bars, r, through + 1)
  BY <1>2, <1>4, <1>7, <1>8, <1>9, SettledAllTimes
<1> QED
  BY <1>2, <1>10 DEF r, through

LEMMA NextTimesInv == ViewsInv /\ TimesInv /\ [ViewsNext]_viewsVars => TimesInv'
<1> SUFFICES ASSUME ViewsInv, TimesInv, [ViewsNext]_viewsVars PROVE TimesInv'
  OBVIOUS
<1>1. ASSUME NEW t \in Trades, HandleTrade(t) PROVE TimesInv'
  <2>1. UNCHANGED saved
    BY <1>1 DEF HandleTrade
  <2> QED
    BY <1>1, <2>1, HandleTimes DEF TimesInv
<1>2. ASSUME UNCHANGED <<buckets, folded, settled, bars, closed, saved>> PROVE TimesInv'
  BY <1>2 DEF TimesInv
<1>3. ASSUME NEW t \in Trades, DropTrade(t) PROVE TimesInv'
  BY <1>2, <1>3 DEF DropTrade, memory, output
<1>4. ASSUME NEW v, NEW q, ApplyQuote(v, q) PROVE TimesInv'
  BY <1>2, <1>4 DEF ApplyQuote, memory, output
<1>5. ASSUME NEW v, Expire(v) PROVE TimesInv'
  BY <1>2, <1>5 DEF Expire, memory, output
<1>6. CASE CommitViews
  <2>1. UNCHANGED <<buckets, folded, settled, bars, closed>>
    BY <1>6 DEF CommitViews, memory, output
  <2>2. /\ saved'.buckets = buckets /\ saved'.folded = folded /\ saved'.bars = bars
        /\ saved'.closed = closed /\ saved'.settled = settled
    BY <1>6 DEF CommitViews, Kept
  <2> QED
    BY <2>1, <2>2 DEF TimesInv
<1>7. CASE Reload
  <2>1. /\ buckets' = saved.buckets /\ folded' = saved.folded /\ bars' = saved.bars
        /\ closed' = saved.closed /\ settled' = saved.settled /\ UNCHANGED saved
    BY <1>7 DEF Reload
  <2> QED
    BY <2>1 DEF TimesInv
<1>8. CASE UNCHANGED viewsVars
  BY <1>2, <1>8 DEF viewsVars, memory, output
<1> QED
  BY <1>1, <1>3, <1>4, <1>5, <1>6, <1>7, <1>8 DEF ViewsNext

LEMMA TimesInvHolds == ViewsSpec => [](ViewsInv /\ TimesInv)
<1>1. ViewsInit => TimesInv
  BY InitTimesInv
<1>2. ViewsInv /\ TimesInv /\ [ViewsNext]_viewsVars => TimesInv'
  BY NextTimesInv
<1> QED
  BY <1>1, <1>2, ViewsInvHolds, PTL DEF ViewsSpec

\* The bars of the primitive stream are those of the trades that were folded, in
\* the order of their times, and with the times between them, whatever the order
\* they came in, however many buckets one trade closes and however often the
\* process starts again from its checkpoint (apply_trade, primitive_bars_for_bucket,
\* _venue_fill_intervals_for_bucket, restore_candle_state).
THEOREM BarsAreExact == ViewsSpec => []BarsExact
<1>1. ViewsInv /\ TimesInv => BarsExact
  <2> SUFFICES ASSUME ViewsInv, TimesInv PROVE BarsExact
    OBVIOUS
  <2> DEFINE B == {b \in BucketsOf(folded) : b <= closed}
             of == {x \in Exchanges \X {Bucket(folded[i].at) : i \in DOMAIN folded} :
                       x[2] <= closed /\ Of(folded, x[1], x[2]) # {}}
  <2>1. {[f \in DOMAIN r \ {"fills"} |-> r[f]] : r \in bars} = UNION {ExactBars(folded, b) : b \in B}
    BY DEF ViewsInv, HistoryOK, TellsBars, Stripped, Plain
  <2>2. {ExactBar(folded, x[1], x[2]) : x \in of} = UNION {ExactBars(folded, b) : b \in B}
    <3>1. ASSUME NEW x \in of
          PROVE  \E b \in B : ExactBar(folded, x[1], x[2]) \in ExactBars(folded, b)
      <4>1. x[2] \in B /\ x[1] \in Exchanges /\ Of(folded, x[1], x[2]) # {}
        BY DEF BucketsOf
      <4> QED
        BY <4>1 DEF ExactBars
    <3>2. ASSUME NEW b \in B, NEW v \in Exchanges, Of(folded, v, b) # {}
          PROVE  <<v, b>> \in of
      BY <3>2 DEF BucketsOf
    <3>3. ASSUME NEW b \in B, NEW v \in Exchanges, Of(folded, v, b) # {}
          PROVE  ExactBar(folded, v, b) \in {ExactBar(folded, x[1], x[2]) : x \in of}
      <4>1. <<v, b>> \in of /\ <<v, b>>[1] = v /\ <<v, b>>[2] = b
        BY <3>2, <3>3
      <4> HIDE DEF of
      <4> QED
        BY <4>1
    <3> HIDE DEF of, B
    <3> QED
      BY <3>1, <3>3 DEF ExactBars
  <2>3. \A r \in bars : r.fills = Gaps(folded, r.venue, r.start)
    BY DEF TimesInv, FillsOK
  <2> QED
    BY <2>1, <2>2, <2>3 DEF BarsExact
<1> QED
  BY <1>1, TimesInvHolds, PTL
=============================================================================
