------------------------- MODULE LiveFeaturesProofs -------------------------
(***************************************************************************)
(* What holds of LiveFeatures for every value of its constants: its types, *)
(* that no bar counts twice, that a published row is final, that the       *)
(* service implements a log of sealed buckets, that the warm-up and the     *)
(* consumer group together skip no bar, and that, while the process is not  *)
(* restarted, every bucket completed after the warm-up has its row.         *)
(***************************************************************************)
EXTENDS LiveFeatures, TLAPS, WellFoundedInduction, SequenceTheorems, FiniteSetTheorems

-----------------------------------------------------------------------------
(* Sets of naturals *)

LEMMA MinExists ==
    ASSUME NEW S \in SUBSET Nat, S # {}
    PROVE  \E m \in S : \A x \in S : m <= x
<1> DEFINE less == {p \in Nat \X Nat : p[1] < p[2]}
<1>1. IsWellFoundedOn(less, Nat)
  BY NatLessThanWellFounded DEF OpToRel
<1>2. PICK m \in S : \A x \in S : <<x, m>> \notin less
  <2> HIDE DEF less
  <2> QED
    BY <1>1, WFMin
<1>3. ASSUME NEW x \in S PROVE m <= x
  <2>1. <<x, m>> \notin less /\ <<x, m>> \in Nat \X Nat
    BY <1>2
  <2>2. ~(x < m)
    BY <2>1
  <2> QED
    BY <2>2
<1> QED
  BY <1>3

LEMMA MaxExists ==
    ASSUME NEW S \in SUBSET Nat, S # {}, NEW b \in Nat, \A x \in S : x <= b
    PROVE  \E m \in S : \A x \in S : x <= m
<1> DEFINE T == {b - x : x \in S}
<1>1. T \subseteq Nat /\ T # {}
  <2>1. \A x \in S : b - x \in Nat
    OBVIOUS
  <2>2. PICK x \in S : TRUE
    OBVIOUS
  <2>3. b - x \in T
    OBVIOUS
  <2> QED
    BY <2>1, <2>3
<1>2. PICK y \in T : \A z \in T : y <= z
  <2> HIDE DEF T
  <2> QED
    BY <1>1, MinExists
<1>3. PICK m \in S : y = b - m
  OBVIOUS
<1>4. \A x \in S : b - x \in T
  OBVIOUS
<1> HIDE DEF T
<1>5. ASSUME NEW x \in S PROVE x <= m
  <2>1. b - m <= b - x
    BY <1>2, <1>3, <1>4
  <2> QED
    BY <2>1
<1> QED
  BY <1>5

USE DEF None, NoGroup

-----------------------------------------------------------------------------
(* The computer *)

\* A state whose open bars were published.
StateOK(s) == s \in State /\ s.open \subseteq 1..Len(stream)

\* A published bar has a bucket, a natural.
LEMMA BucketType ==
    ASSUME stream \in Seq(Entry), NEW i \in 1..Len(stream)
    PROVE  BarBucket(i) \in Buckets /\ BarBucket(i) \in Nat /\ stream[i].venue \in Venues
<1>1. stream[i] \in Entry
  OBVIOUS
<1> QED
  BY <1>1, ConstantsOK DEF BarBucket, Entry

\* What a bar completes: buckets before its own, of open bars, each once.
LEMMA SealedFacts ==
    ASSUME stream \in Seq(Entry), Len(stream) <= MaxEntries,
           NEW open \in SUBSET (1..Len(stream)), NEW b \in Nat
    PROVE  /\ Sealed(open, b) \subseteq Completed
           /\ IsFiniteSet(Sealed(open, b))
           /\ \A d \in Sealed(open, b) :
                  /\ d.bucket < b /\ d.bucket \in Nat
                  /\ d.bars \subseteq open
                  /\ \A i \in d.bars : BarBucket(i) = d.bucket
                  /\ \E j \in open : BarBucket(j) = d.bucket
           /\ \A d, e \in Sealed(open, b) : d.bucket = e.bucket => d = e
<1> DEFINE F(j) == [bucket |-> BarBucket(j), bars |-> {k \in open : BarBucket(k) = BarBucket(j)}]
           new == Sealed(open, b)
           R == Ready(open, b)
<1>1. /\ R \subseteq open /\ R \subseteq 1..Len(stream)
      /\ \A j \in R : BarBucket(j) < b
  BY DEF Ready
<1>2. \A d \in new : \E j \in R : d = F(j)
  BY DEF Sealed
<1>3. ASSUME NEW d \in new
      PROVE  /\ d \in Completed /\ d.bucket < b /\ d.bucket \in Nat /\ d.bars \subseteq open
             /\ \A i \in d.bars : BarBucket(i) = d.bucket
             /\ \E j \in open : BarBucket(j) = d.bucket
  <2>1. PICK j \in R : d = F(j)
    BY <1>2
  <2>2. BarBucket(j) \in Buckets /\ BarBucket(j) \in Nat /\ BarBucket(j) < b
    BY <1>1, <2>1, BucketType
  <2>3. open \subseteq Ids
    <3>1. Len(stream) \in Nat /\ MaxEntries \in Nat
      BY ConstantsOK
    <3> QED
      BY <3>1 DEF Ids
  <2> HIDE DEF R
  <2> QED
    BY <1>1, <2>1, <2>2, <2>3 DEF Completed
<1>4. ASSUME NEW d \in new, NEW e \in new, d.bucket = e.bucket PROVE d = e
  <2>1. PICK j \in R : d = F(j)
    BY <1>2
  <2>2. PICK k \in R : e = F(k)
    BY <1>2
  <2>3. BarBucket(j) = BarBucket(k)
    BY <1>4, <2>1, <2>2
  <2> QED
    BY <2>1, <2>2, <2>3
<1>5. IsFiniteSet(new)
  <2>1. IsFiniteSet(1..Len(stream))
    BY FS_Interval
  <2>2. IsFiniteSet(R)
    BY <1>1, <2>1, FS_Subset
  <2> DEFINE f == [j \in R |-> F(j)]
  <2>3. new = {F(j) : j \in R}
    BY DEF Sealed
  <2>4. f \in Surjection(R, new)
    BY <2>3 DEF Surjection
  <2> HIDE DEF f, R, new
  <2> QED
    BY <2>2, <2>4, FS_Surjection
<1> HIDE DEF new, R
<1> QED
  BY <1>3, <1>4, <1>5 DEF new

\* The completed buckets are finite in number, counted, made of bars of their
\* own, not later than the last of them, and open bars are all later.
Sound(s) ==
    /\ IsFiniteSet(s.done) /\ s.count = Cardinality(s.done)
    /\ \A d \in s.done : /\ d.bucket <= s.last /\ d.bars \subseteq 1..Len(stream)
                         /\ \A i \in d.bars : BarBucket(i) = d.bucket
    /\ \A d, e \in s.done : d.bucket = e.bucket => d = e
    /\ \A i \in s.open : s.last < BarBucket(i)

\* t completes later buckets than s did, and last names the latest of them.
Extends(s, t) ==
    /\ s.done \subseteq t.done
    /\ \A d \in t.done \ s.done : /\ d.bucket <= t.last
                                  /\ \A e \in s.done : e.bucket < d.bucket

\* A bar that is in order keeps the state sound and only adds buckets.
LEMMA AcceptedFacts ==
    ASSUME stream \in Seq(Entry), Len(stream) <= MaxEntries,
           NEW s, StateOK(s), Sound(s),
           NEW i \in 1..Len(stream), ~OutOfOrder(s, i)
    PROVE  /\ StateOK(Accepted(s, i)) /\ Sound(Accepted(s, i))
           /\ Extends(s, Accepted(s, i))
<1> DEFINE t == Accepted(s, i)
           b == BarBucket(i)
           open == s.open \cup {i}
           new == Sealed(open, b)
           latest == CHOOSE d \in new : \A e \in new : e.bucket <= d.bucket
<1>1. b \in Nat /\ b \in Buckets /\ stream[i].venue \in Venues
  BY BucketType
<1>2. /\ s.seen \in [Venues -> Int] /\ s.done \subseteq Completed /\ s.count \in Nat
      /\ s.last \in Int /\ s.open \subseteq 1..Len(stream)
  BY DEF StateOK, State
<1>3. open \in SUBSET (1..Len(stream))
  BY <1>2
<1>4. /\ new \subseteq Completed /\ IsFiniteSet(new)
      /\ \A d \in new : /\ d.bucket < b /\ d.bucket \in Nat /\ d.bars \subseteq open
                        /\ \A k \in d.bars : BarBucket(k) = d.bucket
                        /\ \E j \in open : BarBucket(j) = d.bucket
      /\ \A d, e \in new : d.bucket = e.bucket => d = e
  BY <1>1, <1>3, SealedFacts
<1>5. s.last < b
  BY <1>1, <1>2 DEF OutOfOrder
<1>6. /\ t.seen = [s.seen EXCEPT ![stream[i].venue] = b]
      /\ t.open = open \ Ready(open, b)
      /\ t.done = s.done \cup new /\ t.count = s.count + Cardinality(new)
      /\ t.last = IF new = {} THEN s.last ELSE latest.bucket
      /\ t = [seen |-> t.seen, open |-> t.open, done |-> t.done, count |-> t.count,
              last |-> t.last]
  BY DEF Accepted
<1>7. \A k \in t.open : k \in open /\ b <= BarBucket(k)
  <2>1. \A k \in open : BarBucket(k) \in Nat
    BY <1>3, BucketType
  <2> QED
    BY <1>1, <1>6, <2>1 DEF Ready
<1> HIDE DEF new, t
<1>8. \A d \in new : s.last < d.bucket
  <2> SUFFICES ASSUME NEW d \in new PROVE s.last < d.bucket
    OBVIOUS
  <2>1. PICK j \in open : BarBucket(j) = d.bucket
    BY <1>4
  <2>2. d.bucket < b /\ d.bucket \in Nat
    BY <1>4
  <2>3. j # i
    BY <1>1, <2>1, <2>2
  <2>4. j \in s.open
    BY <2>3
  <2> QED
    BY <2>1, <2>4 DEF Sound
<1>9. new # {} => latest \in new /\ \A e \in new : e.bucket <= latest.bucket
  <2> SUFFICES ASSUME new # {}
               PROVE  \E d \in new : \A e \in new : e.bucket <= d.bucket
    OBVIOUS
  <2> DEFINE S == {d.bucket : d \in new}
  <2>1. S \in SUBSET Nat /\ S # {} /\ \A x \in S : x <= b
    BY <1>1, <1>4
  <2>2. \A d \in new : d.bucket \in S
    OBVIOUS
  <2>3. PICK m \in S : \A x \in S : x <= m
    <3> HIDE DEF S
    <3> QED
      BY <1>1, <2>1, MaxExists
  <2>4. PICK d \in new : d.bucket = m
    OBVIOUS
  <2> HIDE DEF S
  <2> QED
    BY <2>2, <2>3, <2>4
<1> HIDE DEF latest
<1>10. /\ t.last \in Int /\ s.last <= t.last /\ t.last < b
       /\ \A d \in new : d.bucket <= t.last
  <2>1. CASE new = {}
    BY <1>2, <1>5, <1>6, <2>1
  <2>2. CASE new # {}
    <3>1. t.last = latest.bucket /\ latest \in new
      BY <1>6, <1>9, <2>2
    <3>2. t.last \in Nat /\ t.last < b /\ s.last < t.last
      BY <1>4, <1>8, <3>1
    <3> QED
      BY <1>2, <1>9, <2>2, <3>1, <3>2
  <2> QED
    BY <2>1, <2>2
<1>11. StateOK(t)
  <2>1. Cardinality(new) \in Nat
    BY <1>4, FS_CardinalityType
  <2>2. t.count \in Nat /\ t.done \subseteq Completed
    BY <1>2, <1>4, <1>6, <2>1
  <2>3. t.seen \in [Venues -> Int]
    BY <1>1, <1>2, <1>6
  <2>4. t.open \subseteq 1..Len(stream)
    BY <1>3, <1>6
  <2>5. t.open \subseteq Ids
    <3>1. Len(stream) \in Nat /\ MaxEntries \in Nat
      BY ConstantsOK
    <3> QED
      BY <2>4, <3>1 DEF Ids
  <2>6. t \in State
    BY <1>6, <1>10, <2>2, <2>3, <2>5 DEF State
  <2> QED
    BY <2>4, <2>6 DEF StateOK
<1>12. \A d \in s.done : d.bucket <= s.last /\ d.bucket \in Nat
  BY <1>2, ConstantsOK DEF Sound, Completed
<1>13. \A d \in new, e \in s.done : e.bucket < d.bucket
  <2> SUFFICES ASSUME NEW d \in new, NEW e \in s.done PROVE e.bucket < d.bucket
    OBVIOUS
  <2>1. s.last < d.bucket /\ d.bucket \in Nat
    BY <1>4, <1>8
  <2> QED
    BY <1>2, <1>12, <2>1
<1>14. Extends(s, t)
  BY <1>6, <1>10, <1>13 DEF Extends
<1>15. IsFiniteSet(t.done) /\ t.count = Cardinality(t.done)
  <2>1. s.done \cap new = {}
    <3>1. \A d \in new : d \notin s.done
      BY <1>4, <1>13
    <3> QED
      BY <3>1
  <2>2. IsFiniteSet(s.done) /\ s.count = Cardinality(s.done)
    BY DEF Sound
  <2>3. /\ IsFiniteSet(s.done \cup new)
        /\ Cardinality(s.done \cup new)
              = Cardinality(s.done) + Cardinality(new) - Cardinality(s.done \cap new)
    BY <1>4, <2>2, FS_Union
  <2>4. Cardinality(s.done \cap new) = 0
    BY <2>1, FS_EmptySet
  <2>5. Cardinality(s.done) \in Nat /\ Cardinality(new) \in Nat
    BY <1>4, <2>2, FS_CardinalityType
  <2> QED
    BY <1>6, <2>2, <2>3, <2>4, <2>5
<1>16. Sound(t)
  <2>1. \A d \in t.done : /\ d.bucket <= t.last /\ d.bars \subseteq 1..Len(stream)
                          /\ \A k \in d.bars : BarBucket(k) = d.bucket
    <3>1. ASSUME NEW d \in s.done
          PROVE  /\ d.bucket <= t.last /\ d.bars \subseteq 1..Len(stream)
                 /\ \A k \in d.bars : BarBucket(k) = d.bucket
      <4>1. d.bucket <= t.last
        BY <1>2, <1>10, <1>12
      <4> QED
        BY <4>1 DEF Sound
    <3>2. ASSUME NEW d \in new
          PROVE  /\ d.bucket <= t.last /\ d.bars \subseteq 1..Len(stream)
                 /\ \A k \in d.bars : BarBucket(k) = d.bucket
      BY <1>3, <1>4, <1>10
    <3> QED
      BY <1>6, <3>1, <3>2
  <2>2. \A d, e \in t.done : d.bucket = e.bucket => d = e
    <3>1. \A d, e \in s.done : d.bucket = e.bucket => d = e
      BY DEF Sound
    <3>2. \A d \in new, e \in s.done : d.bucket # e.bucket
      BY <1>4, <1>12, <1>13
    <3> QED
      BY <1>4, <1>6, <3>1, <3>2
  <2>3. \A k \in t.open : t.last < BarBucket(k)
    <3>1. \A k \in t.open : BarBucket(k) \in Nat
      BY <1>3, <1>6, BucketType
    <3> QED
      BY <1>1, <1>7, <1>10, <3>1
  <2> QED
    BY <1>15, <2>1, <2>2, <2>3 DEF Sound
<1> QED
  BY <1>11, <1>14, <1>16 DEF t

-----------------------------------------------------------------------------
(* Types *)

\* TypeOK is not inductive alone: what is pending, handled or in a state was
\* published.
Typed ==
    /\ TypeOK
    /\ pending \subseteq 1..Len(stream) /\ batch \subseteq 1..Len(stream)
    /\ StateOK(mem) /\ StateOK(ckpt)

\* The state of a process that has seen nothing.
LEMMA EmptyFacts ==
    /\ EmptyState \in State /\ EmptyState.open = {} /\ EmptyState.done = {}
    /\ EmptyState.last = -1
    /\ Sound(EmptyState)
<1>1. EmptyState \in State
  BY DEF EmptyState, State
<1>2. EmptyState.open = {} /\ EmptyState.done = {} /\ EmptyState.count = 0
      /\ EmptyState.last = -1
  BY DEF EmptyState
<1> QED
  BY <1>1, <1>2, FS_EmptySet DEF Sound

LEMMA InitTyped == Init => Typed
<1> SUFFICES ASSUME Init PROVE Typed
  OBVIOUS
<1> USE DEF Init
<1>1. age \in [Ids -> 0..MaxBarAge + 1] /\ idle \in [Ids -> 0..PendingIdle]
  BY ConstantsOK
<1>2. stream \in Seq(Entry) /\ Len(stream) = 0 /\ features \in Seq(Completed)
  OBVIOUS
<1>3. /\ Len(stream) <= MaxEntries /\ trimmed \in 0..Len(stream)
      /\ lastDelivered \in -1..Len(stream) /\ processed \in 0..TrimEvery - 1
  BY <1>2, ConstantsOK
<1>4. TypeOK
  <2>1. mem \in State /\ ckpt \in State
    BY EmptyFacts
  <2>2. /\ pending \subseteq Ids /\ saved \in BOOLEAN /\ pc = "down" /\ replay \in BOOLEAN
        /\ batch \subseteq Ids /\ row \subseteq Completed /\ restarts \in Nat
        /\ dropped \subseteq Ids /\ warmed \in Int /\ unread \in Int /\ covered \in BOOLEAN
    <3>1. saved \in BOOLEAN /\ replay \in BOOLEAN /\ pc = "down"
      OBVIOUS
    <3>2. pending \subseteq Ids /\ batch \subseteq Ids /\ dropped \subseteq Ids
      OBVIOUS
    <3>3. row \subseteq Completed
      OBVIOUS
    <3>4. restarts \in Nat
      OBVIOUS
    <3>5. warmed \in Int /\ unread \in Int
      OBVIOUS
    <3>6. covered \in BOOLEAN
      OBVIOUS
    <3> QED
      BY <3>1, <3>2, <3>3, <3>4, <3>5, <3>6
  <2> QED
    BY ONLY <1>1, <1>2, <1>3, <2>1, <2>2 DEF TypeOK
<1> QED
  BY <1>4, EmptyFacts DEF Typed, StateOK

\* A position in the stream is an identifier.
LEMMA PositionType ==
    ASSUME Typed
    PROVE  /\ 1..Len(stream) \subseteq Ids /\ Len(stream) \in Nat
           /\ stream \in Seq(Entry) /\ Len(stream) <= MaxEntries
<1>1. Len(stream) \in Nat /\ Len(stream) <= MaxEntries /\ MaxEntries \in Nat
  BY ConstantsOK DEF Typed, TypeOK
<1> QED
  BY <1>1 DEF Ids, Typed, TypeOK

\* What is accepted is in order.
LEMMA AcceptsInOrder ==
    ASSUME NEW s, NEW i, NEW r \in BOOLEAN, Accepts(s, i, r)
    PROVE  ~OutOfOrder(s, i)
BY DEF Accepts, Rejects

\* Every step of the process and of its environment keeps the types.
LEMMA NextTyped == Typed /\ Sound(mem) /\ [Next]_vars => Typed'
<1> SUFFICES ASSUME Typed, Sound(mem), [Next]_vars PROVE Typed'
  OBVIOUS
<1> USE DEF redis, task, history
<1>0. CASE UNCHANGED vars
  BY <1>0 DEF vars, Typed, TypeOK, StateOK
<1>1. ASSUME NEW k \in Kinds, NEW b \in Buckets, NEW v \in Venues, NEW old \in Olds,
             Publish(k, b, v, old)
      PROVE  Typed'
  <2> DEFINE e == [kind |-> k, bucket |-> b, venue |-> v, old |-> old]
  <2>1. e \in Entry
    BY ConstantsOK DEF Entry
  <2>2. stream' = Append(stream, e) /\ Len(stream) < MaxEntries
    BY <1>1 DEF Publish
  <2> HIDE DEF e
  <2>3. /\ stream' \in Seq(Entry) /\ Len(stream') = Len(stream) + 1
        /\ Len(stream') <= MaxEntries /\ Len(stream) \in Nat
    BY <2>1, <2>2, PositionType, ConstantsOK
  <2>4. UNCHANGED <<trimmed, lastDelivered, pending, age, idle, saved, ckpt, features,
                    task, restarts, history>>
    BY <1>1 DEF Publish
  <2>5. 1..Len(stream) \subseteq 1..Len(stream') /\ 0..Len(stream) \subseteq 0..Len(stream')
        /\ -1..Len(stream) \subseteq -1..Len(stream')
    BY <2>3
  <2> QED
    BY <2>3, <2>4, <2>5 DEF Typed, TypeOK, StateOK
<1>2. CASE Tick
  <2>1. /\ age \in [Ids -> 0..MaxBarAge + 1] /\ idle \in [Ids -> 0..PendingIdle]
        /\ MaxBarAge \in Nat /\ PendingIdle \in Nat
    BY ConstantsOK DEF Typed, TypeOK
  <2>2. age' = [i \in Ids |-> IF i <= Len(stream) /\ age[i] <= MaxBarAge
                              THEN age[i] + 1 ELSE age[i]]
    BY <1>2 DEF Tick
  <2>3. idle' = [i \in Ids |-> IF i \in pending /\ idle[i] < PendingIdle
                               THEN idle[i] + 1 ELSE idle[i]]
    BY <1>2 DEF Tick
  <2>4. \A i \in Ids : age[i] <= MaxBarAge => age[i] + 1 \in 0..MaxBarAge + 1
    BY <2>1
  <2>5. \A i \in Ids : idle[i] < PendingIdle => idle[i] + 1 \in 0..PendingIdle
    BY <2>1
  <2>6. age' \in [Ids -> 0..MaxBarAge + 1]
    BY <2>1, <2>2, <2>4
  <2>7. idle' \in [Ids -> 0..PendingIdle]
    BY <2>1, <2>3, <2>5
  <2>8. UNCHANGED <<stream, trimmed, lastDelivered, pending, saved, ckpt, features,
                    task, restarts, history>>
    BY <1>2 DEF Tick
  <2> QED
    BY <2>6, <2>7, <2>8 DEF Typed, TypeOK, StateOK
<1>3. CASE Start
  BY <1>3 DEF Start, Typed, TypeOK, StateOK
<1>4. CASE EnsureGroup
  <2>1. lastDelivered' \in -1..Len(stream)
    BY <1>4, PositionType DEF EnsureGroup, Typed, TypeOK
  <2>2. /\ pc' \in {"claim", "history"}
        /\ UNCHANGED <<stream, trimmed, pending, age, idle, saved, ckpt, features,
                       replay, batch, row, mem, processed, restarts, history>>
    BY <1>4 DEF EnsureGroup
  <2> QED
    BY <2>1, <2>2 DEF Typed, TypeOK, StateOK
<1>5. CASE ReadHistory
  <2>1. batch' \subseteq 1..Len(stream)
    BY <1>5 DEF ReadHistory
  <2>2. batch' \subseteq Ids
    BY <2>1, PositionType
  <2>3. /\ pc' = "replay"
        /\ UNCHANGED <<redis, replay, row, mem, processed, restarts, dropped, warmed>>
    BY <1>5 DEF ReadHistory
  <2>4. Len(stream) - ReplayCount \in Int
    BY ConstantsOK DEF Typed, TypeOK
  <2>5. unread' \in Int /\ covered' \in BOOLEAN
    BY <1>5, <2>4 DEF ReadHistory
  <2> QED
    BY <2>1, <2>2, <2>3, <2>5 DEF Typed, TypeOK, StateOK
<1>6. ASSUME NEW i \in batch, ReplayBar(i) PROVE Typed'
  <2>1. i \in 1..Len(stream)
    BY DEF Typed
  <2>2. StateOK(mem)
    BY DEF Typed
  <2>3. StateOK(mem')
    <3>1. CASE Accepts(mem, i, TRUE)
      <4>1. mem' = Accepted(mem, i) /\ ~OutOfOrder(mem, i)
        BY <1>6, <3>1, AcceptsInOrder DEF ReplayBar
      <4> QED
        BY <2>1, <2>2, <4>1, AcceptedFacts, PositionType
    <3>2. CASE ~Accepts(mem, i, TRUE)
      BY <1>6, <2>2, <3>2 DEF ReplayBar
    <3> QED
      BY <3>1, <3>2
  <2>4. /\ batch' = batch \ {i}
        /\ UNCHANGED <<redis, pc, replay, row, processed, restarts, history>>
    BY <1>6 DEF ReplayBar
  <2> QED
    BY <2>3, <2>4 DEF Typed, TypeOK, StateOK
<1>7. CASE SaveState
  BY <1>7 DEF SaveState, Typed, TypeOK, StateOK, State
<1>8. CASE Crash
  <2>1. processed' \in 0..TrimEvery - 1
    BY <1>8, ConstantsOK DEF Crash
  <2>2. restarts' \in Nat
    BY <1>8 DEF Crash, Typed, TypeOK
  <2>3. StateOK(mem')
    BY <1>8, EmptyFacts DEF Crash, StateOK
  <2>4. pc' = "down" /\ replay' = FALSE /\ batch' = {} /\ row' = {} /\ UNCHANGED <<redis, history>>
    BY <1>8 DEF Crash
  <2> QED
    BY <2>1, <2>2, <2>3, <2>4 DEF Typed, TypeOK, StateOK
<1>9. ASSUME NEW S \in SUBSET (1..Len(stream)), NEW r \in BOOLEAN, NEW o \in {"read", "claim"},
             Deliver(S, r, o), lastDelivered' \in -1..Len(stream),
             pending' \subseteq pending \cup S
      PROVE  Typed'
  <2>1. idle' \in [Ids -> 0..PendingIdle]
    BY <1>9, ConstantsOK DEF Deliver, Typed, TypeOK
  <2>2. S \subseteq Ids
    BY PositionType
  <2>3. /\ batch' = S /\ replay' \in BOOLEAN /\ pc' \in {"handle", "read", "claim"}
        /\ UNCHANGED <<stream, trimmed, age, saved, ckpt, features, row, mem, processed,
                       restarts, history>>
    BY <1>9 DEF Deliver
  <2>4. pending' \subseteq 1..Len(stream) /\ pending' \subseteq Ids
    BY <1>9, PositionType DEF Typed
  <2> QED
    BY <1>9, <2>1, <2>2, <2>3, <2>4 DEF Typed, TypeOK, StateOK
<1>10. CASE Claim
  <2> DEFINE eligible == {i \in pending : idle[i] >= PendingIdle /\ trimmed < i}
             S == {i \in eligible : Cardinality({j \in eligible : j < i}) < ReadCount}
  <2>1. S \in SUBSET (1..Len(stream))
    BY DEF Typed
  <2>2. Deliver(S, TRUE, "read") /\ pending' \subseteq pending /\ lastDelivered' = lastDelivered
    BY <1>10 DEF Claim
  <2>3. lastDelivered' \in -1..Len(stream)
    BY <2>2 DEF Typed, TypeOK
  <2> HIDE DEF S
  <2> QED
    BY <1>9, <2>1, <2>2, <2>3
<1>11. CASE Read
  <2> DEFINE from == IF lastDelivered < trimmed THEN trimmed ELSE lastDelivered
             upTo == IF from + ReadCount < Len(stream) THEN from + ReadCount ELSE Len(stream)
             S == {i \in Ids : from < i /\ i <= upTo}
  <2>1. /\ Deliver(S, FALSE, "claim") /\ pending' = pending \cup S
        /\ lastDelivered' = IF S = {} THEN lastDelivered ELSE upTo
    BY <1>11 DEF Read
  <2>2. /\ trimmed \in 0..Len(stream) /\ lastDelivered \in -1..Len(stream)
        /\ Len(stream) \in Nat /\ ReadCount \in Nat
    BY PositionType, ConstantsOK DEF Typed, TypeOK
  <2>3. from \in 0..Len(stream)
    BY <2>2
  <2>4. upTo \in Nat /\ upTo <= Len(stream)
    BY <2>2, <2>3
  <2>5. S \in SUBSET (1..Len(stream))
    <3> HIDE DEF from, upTo
    <3> QED
      BY <2>2, <2>3, <2>4 DEF Ids
  <2>6. lastDelivered' \in -1..Len(stream)
    <3> HIDE DEF upTo, S
    <3> QED
      BY <2>1, <2>2, <2>4
  <2> HIDE DEF S
  <2> QED
    BY <1>9, <2>1, <2>5, <2>6
<1>12. ASSUME NEW i \in batch, Ignore(i) PROVE Typed'
  BY <1>12 DEF Ignore, Buffer, Typed, TypeOK, StateOK
<1>13. ASSUME NEW i \in batch, Accept(i) PROVE Typed'
  <2>1. i \in 1..Len(stream) /\ StateOK(mem)
    BY DEF Typed
  <2>2. ~OutOfOrder(mem, i)
    BY <1>13, AcceptsInOrder DEF Accept
  <2>3. StateOK(Accepted(mem, i))
    BY <2>1, <2>2, AcceptedFacts, PositionType
  <2>4. /\ mem' = Accepted(mem, i) /\ row' = Output(mem, Accepted(mem, i)) /\ pc' = "exec"
        /\ UNCHANGED <<redis, replay, batch, processed, restarts, history>>
    BY <1>13 DEF Accept, Buffer
  <2> HIDE DEF Accepted
  <2>5. row' \subseteq Completed
    BY <2>3, <2>4 DEF Output, StateOK, State
  <2> QED
    BY <2>3, <2>4, <2>5 DEF Typed, TypeOK, StateOK
<1>14. ASSUME NEW i \in batch, Reject(i) PROVE Typed'
  BY <1>14 DEF Reject, Typed, TypeOK, StateOK
<1>15. ASSUME NEW rest PROVE Continue(rest) \in {"handle", "read", "claim"}
  BY DEF Continue
<1>16. ASSUME NEW i \in batch, XAck(i)
       PROVE  /\ pending' \subseteq pending /\ batch' \subseteq batch
              /\ idle' \in [Ids -> 0..PendingIdle]
              /\ UNCHANGED <<stream, trimmed, lastDelivered, age, saved>>
  BY <1>16, ConstantsOK DEF XAck, Typed, TypeOK
<1>17. ASSUME NEW i \in batch, Execute(i) PROVE Typed'
  <2>1. XAck(i) /\ ckpt' = mem /\ row' = {} /\ UNCHANGED <<replay, mem, restarts, history>>
    BY <1>17 DEF Execute
  <2>2. features' \in Seq(Completed)
    <3>1. features \in Seq(Completed) /\ row \subseteq Completed
      BY DEF Typed, TypeOK
    <3>2. features' = features \/ \E d \in row : features' = Append(features, d)
      BY <1>17 DEF Execute
    <3>3. ASSUME NEW d \in row, features' = Append(features, d)
          PROVE  features' \in Seq(Completed)
      BY <3>1, <3>3
    <3> QED
      BY <3>1, <3>2, <3>3
  <2>3. processed' \in 0..TrimEvery - 1
    BY <1>17, ConstantsOK DEF Execute, Typed, TypeOK
  <2>4. pc' \in {"trim", "handle", "read", "claim"}
    BY <1>15, <1>17 DEF Execute
  <2> QED
    BY <1>16, <2>1, <2>2, <2>3, <2>4 DEF Typed, TypeOK, StateOK
<1>18. ASSUME NEW i \in batch, AckRejected(i) PROVE Typed'
  <2>1. XAck(i) /\ UNCHANGED <<ckpt, features, replay, row, mem, processed, restarts, warmed, unread,
                               covered>>
    BY <1>18 DEF AckRejected
  <2>2. dropped' \subseteq Ids
    BY <1>18, PositionType DEF AckRejected, Typed, TypeOK
  <2>3. pc' \in {"handle", "read", "claim"}
    BY <1>15, <1>18 DEF AckRejected
  <2> QED
    BY <1>16, <2>1, <2>2, <2>3 DEF Typed, TypeOK, StateOK
<1>19. ASSUME NEW n \in 0..MaxEntries, Trim(n) PROVE Typed'
  <2>1. trimmed' \in 0..Len(stream)
    BY <1>19, PositionType, ConstantsOK DEF Trim, Typed, TypeOK
  <2>2. pc' \in {"handle", "read", "claim"}
    BY <1>15, <1>19 DEF Trim
  <2>3. UNCHANGED <<stream, lastDelivered, pending, age, idle, saved, ckpt, features,
                    replay, batch, row, mem, processed, restarts, history>>
    BY <1>19 DEF Trim
  <2> QED
    BY <2>1, <2>2, <2>3 DEF Typed, TypeOK, StateOK
<1> QED
  BY <1>0, <1>1, <1>2, <1>3, <1>4, <1>5, <1>6, <1>7, <1>8, <1>10, <1>11, <1>12, <1>13,
     <1>14, <1>17, <1>18, <1>19 DEF Next, Task

-----------------------------------------------------------------------------
(* The log *)

\* Memory is the checkpoint except during the warm-up, before anything is saved,
\* and between compute and EXEC, when it is one sealing ahead.
Sealing ==
    /\ Sound(mem) /\ Sound(ckpt)
    /\ pc \notin {"down", "replay", "exec"} => mem = ckpt
    /\ pc # "exec" => row = {}
    /\ pc \in {"history", "replay"} => ~saved
    /\ pc \in {"claim", "read", "handle", "exec", "ack", "trim"} => saved
    /\ ~saved => ckpt = EmptyState /\ features = <<>>
    /\ pc = "exec" => /\ Extends(ckpt, mem)
                      /\ row \subseteq {d \in mem.done \ ckpt.done : d.bucket = mem.last}
    /\ \A k \in 1..Len(features) : features[k] \in ckpt.done

LEMMA InitSealing == Init => Sealing
<1> SUFFICES ASSUME Init PROVE Sealing
  OBVIOUS
<1>1. /\ mem = EmptyState /\ ckpt = EmptyState /\ pc = "down" /\ row = {}
      /\ features = <<>>
  BY DEF Init
<1>2. Len(features) = 0
  BY <1>1
<1> QED
  BY <1>1, <1>2, EmptyFacts DEF Sealing

\* Publishing changes nothing that is known of the published bars.
LEMMA PublishKeepsSound ==
    ASSUME Typed, Sound(mem), Sound(ckpt),
           NEW e \in Entry, stream' = Append(stream, e), UNCHANGED <<mem, ckpt>>
    PROVE  Sound(mem)' /\ Sound(ckpt)'
<1>1. /\ Len(stream) \in Nat /\ Len(stream') = Len(stream) + 1
      /\ \A i \in 1..Len(stream) : BarBucket(i)' = BarBucket(i)
  BY PositionType DEF BarBucket
<1>2. mem.open \subseteq 1..Len(stream) /\ ckpt.open \subseteq 1..Len(stream)
  BY DEF Typed, StateOK
<1>3. 1..Len(stream) \subseteq 1..Len(stream')
  BY <1>1
<1>4. Sound(mem)'
  <2>1. \A d \in mem.done : /\ d.bars \subseteq 1..Len(stream')
                            /\ \A i \in d.bars : BarBucket(i)' = d.bucket
    BY <1>1, <1>3 DEF Sound
  <2>2. \A i \in mem.open : mem.last < BarBucket(i)'
    BY <1>1, <1>2 DEF Sound
  <2> QED
    BY <2>1, <2>2 DEF Sound
<1>5. Sound(ckpt)'
  <2>1. \A d \in ckpt.done : /\ d.bars \subseteq 1..Len(stream')
                             /\ \A i \in d.bars : BarBucket(i)' = d.bucket
    BY <1>1, <1>3 DEF Sound
  <2>2. \A i \in ckpt.open : ckpt.last < BarBucket(i)'
    BY <1>1, <1>2 DEF Sound
  <2> QED
    BY <2>1, <2>2 DEF Sound
<1> QED
  BY <1>4, <1>5

LEMMA NextSealing == Typed /\ Sealing /\ [Next]_vars => Sealing'
<1> SUFFICES ASSUME Typed, Sealing, [Next]_vars PROVE Sealing'
  OBVIOUS
<1> USE DEF redis, task, history
<1>a. ASSUME UNCHANGED <<stream, mem, ckpt>> PROVE Sound(mem)' /\ Sound(ckpt)'
  BY <1>a DEF Sealing, Sound, BarBucket
<1>b. ASSUME UNCHANGED <<stream, ckpt>> PROVE Sound(ckpt)'
  BY <1>b DEF Sealing, Sound, BarBucket
<1>0. CASE UNCHANGED vars
  BY <1>0, <1>a DEF vars, Sealing, Extends
<1>1. ASSUME NEW k \in Kinds, NEW b \in Buckets, NEW v \in Venues, NEW old \in Olds,
             Publish(k, b, v, old)
      PROVE  Sealing'
  <2> DEFINE e == [kind |-> k, bucket |-> b, venue |-> v, old |-> old]
  <2>1. e \in Entry
    BY ConstantsOK DEF Entry
  <2>2. /\ stream' = Append(stream, e)
        /\ UNCHANGED <<trimmed, lastDelivered, pending, age, idle, saved, ckpt, features,
                       task, restarts, history>>
    BY <1>1 DEF Publish
  <2> HIDE DEF e
  <2>3. Sound(mem)' /\ Sound(ckpt)'
    BY <2>1, <2>2, PublishKeepsSound DEF Sealing
  <2> QED
    BY <2>2, <2>3 DEF Sealing, Extends
<1>2. CASE Tick
  <2>1. UNCHANGED <<stream, ckpt, saved, features, task>>
    BY <1>2 DEF Tick
  <2> QED
    BY <2>1, <1>a DEF Sealing, Extends
<1>3. CASE Start
  <2>1. /\ pc = "down" /\ pc' = "group" /\ mem' = ckpt
        /\ UNCHANGED <<stream, saved, ckpt, features, row>>
    BY <1>3 DEF Start
  <2>2. Sound(ckpt)' /\ Sound(mem)'
    BY <2>1, <1>b DEF Sound
  <2> QED
    BY <2>1, <2>2 DEF Sealing
<1>4. CASE EnsureGroup
  <2>1. /\ pc = "group" /\ pc' = IF saved THEN "claim" ELSE "history"
        /\ UNCHANGED <<stream, saved, ckpt, features, row, mem>>
    BY <1>4 DEF EnsureGroup
  <2> QED
    BY <2>1, <1>a DEF Sealing
<1>5. CASE ReadHistory
  <2>1. /\ pc = "history" /\ pc' = "replay" /\ UNCHANGED <<stream, saved, ckpt, features, row, mem>>
    BY <1>5 DEF ReadHistory
  <2> QED
    BY <2>1, <1>a DEF Sealing
<1>6. ASSUME NEW i \in batch, ReplayBar(i) PROVE Sealing'
  <2>1. i \in 1..Len(stream) /\ StateOK(mem) /\ Sound(mem)
    BY DEF Typed, Sealing
  <2>2. /\ pc = "replay" /\ pc' = "replay" /\ UNCHANGED <<stream, saved, ckpt, features, row>>
    BY <1>6 DEF ReplayBar
  <2>3. Sound(mem')
    <3>1. CASE Accepts(mem, i, TRUE)
      <4>1. mem' = Accepted(mem, i) /\ ~OutOfOrder(mem, i)
        BY <1>6, <3>1, AcceptsInOrder DEF ReplayBar
      <4> QED
        BY <2>1, <4>1, AcceptedFacts, PositionType
    <3>2. CASE ~Accepts(mem, i, TRUE)
      BY <1>6, <2>1, <3>2 DEF ReplayBar
    <3> QED
      BY <3>1, <3>2
  <2>4. Sound(mem)'
    BY <2>2, <2>3 DEF Sound, BarBucket
  <2> QED
    BY <2>2, <2>4, <1>b DEF Sealing
<1>7. CASE SaveState
  <2>1. /\ pc = "replay" /\ pc' = "claim" /\ saved' = TRUE /\ ckpt' = mem
        /\ UNCHANGED <<stream, features, row, mem>>
    BY <1>7 DEF SaveState
  <2>2. Sound(mem)' /\ Sound(ckpt)'
    BY <2>1 DEF Sealing, Sound, BarBucket
  <2>3. features' = <<>>
    BY <2>1 DEF Sealing
  <2>4. Len(features') = 0
    BY <2>3
  <2> QED
    BY <2>1, <2>2, <2>4 DEF Sealing
<1>8. CASE Crash
  <2>1. /\ pc' = "down" /\ mem' = EmptyState /\ row' = {}
        /\ UNCHANGED <<stream, saved, ckpt, features>>
    BY <1>8 DEF Crash
  <2>2. Sound(mem)'
    BY <2>1, EmptyFacts DEF Sound
  <2> QED
    BY <2>1, <2>2, <1>b DEF Sealing
<1>9. ASSUME UNCHANGED <<stream, mem, ckpt, saved, features, row>>,
             pc \in {"claim", "read", "handle", "ack", "trim"},
             pc' \in {"claim", "read", "handle", "ack", "trim"}
      PROVE  Sealing'
  BY <1>9, <1>a DEF Sealing
<1>10. CASE Claim \/ Read
  BY <1>9, <1>10 DEF Claim, Read, Deliver
<1>11. ASSUME NEW i \in batch, Ignore(i) PROVE Sealing'
  <2>1. /\ pc = "handle" /\ pc' = "exec" /\ row' = {}
        /\ UNCHANGED <<stream, mem, ckpt, saved, features>>
    BY <1>11 DEF Ignore, Handling, Buffer
  <2>2. mem = ckpt /\ saved
    BY <2>1 DEF Sealing
  <2> QED
    BY <2>1, <2>2, <1>a DEF Sealing, Extends
<1>12. ASSUME NEW i \in batch, Accept(i) PROVE Sealing'
  <2>1. i \in 1..Len(stream) /\ StateOK(mem) /\ Sound(mem)
    BY DEF Typed, Sealing
  <2>2. /\ pc = "handle" /\ pc' = "exec"
        /\ mem' = Accepted(mem, i) /\ row' = Output(mem, Accepted(mem, i))
        /\ UNCHANGED <<stream, ckpt, saved, features>>
    BY <1>12 DEF Accept, Handling, Buffer
  <2>3. Sound(mem') /\ Extends(mem, mem')
    BY <1>12, <2>1, <2>2, AcceptedFacts, AcceptsInOrder, PositionType DEF Accept
  <2>4. mem = ckpt /\ saved
    BY <2>2 DEF Sealing
  <2>5. row' \subseteq {d \in mem'.done \ ckpt'.done : d.bucket = mem'.last}
    BY <2>2, <2>4 DEF Output
  <2>6. Sound(mem)'
    BY <2>2, <2>3 DEF Sound, BarBucket
  <2>7. Extends(ckpt, mem)'
    BY <2>2, <2>3, <2>4 DEF Extends
  <2> QED
    BY <2>2, <2>4, <2>5, <2>6, <2>7, <1>b DEF Sealing
<1>13. ASSUME NEW i \in batch, Reject(i) PROVE Sealing'
  BY <1>9, <1>13 DEF Reject, Handling
<1>14. ASSUME NEW rest PROVE Continue(rest) \in {"handle", "read", "claim"}
  BY DEF Continue
<1>15. ASSUME NEW i \in batch, Execute(i) PROVE Sealing'
  <2>1. /\ pc = "exec" /\ pc' \in {"trim", "handle", "read", "claim"}
        /\ ckpt' = mem /\ row' = {} /\ UNCHANGED <<stream, saved, mem>>
        /\ (features' = features \/ \E d \in row : features' = Append(features, d))
    BY <1>14, <1>15 DEF Execute, XAck
  <2>2. Sound(mem)' /\ Sound(ckpt)'
    BY <2>1 DEF Sealing, Sound, BarBucket
  <2>3. \A k \in 1..Len(features) : features[k] \in mem.done
    BY <2>1 DEF Sealing, Extends
  <2>4. \A k \in 1..Len(features') : features'[k] \in mem.done
    <3>1. CASE features' = features
      BY <2>3, <3>1
    <3>2. ASSUME NEW d \in row, features' = Append(features, d)
          PROVE  \A k \in 1..Len(features') : features'[k] \in mem.done
      <4>1. features \in Seq(Completed) /\ d \in mem.done
        BY <2>1 DEF Typed, TypeOK, Sealing
      <4>2. /\ Len(features') = Len(features) + 1 /\ Len(features) \in Nat
            /\ \A k \in 1..Len(features) : features'[k] = features[k]
            /\ features'[Len(features) + 1] = d
        BY <3>2, <4>1
      <4>3. \A k \in 1..Len(features') : k \in 1..Len(features) \/ k = Len(features) + 1
        BY <4>2
      <4> QED
        BY <2>3, <4>1, <4>2, <4>3
    <3> QED
      BY <2>1, <3>1, <3>2
  <2>5. saved
    BY <2>1 DEF Sealing
  <2> QED
    BY <2>1, <2>2, <2>4, <2>5 DEF Sealing
<1>16. ASSUME NEW i \in batch, AckRejected(i) PROVE Sealing'
  BY <1>9, <1>14, <1>16 DEF AckRejected, XAck
<1>17. ASSUME NEW n \in 0..MaxEntries, Trim(n) PROVE Sealing'
  BY <1>9, <1>14, <1>17 DEF Trim
<1> QED
  BY <1>0, <1>1, <1>2, <1>3, <1>4, <1>5, <1>6, <1>7, <1>8, <1>10, <1>11, <1>12, <1>13,
     <1>15, <1>16, <1>17 DEF Next, Task

LEMMA Invariance == Spec => [](Typed /\ Sealing)
<1>1. Init => Typed /\ Sealing
  BY InitTyped, InitSealing
<1>2. Typed /\ Sealing /\ [Next]_vars => (Typed /\ Sealing)'
  <2>1. Sealing => Sound(mem)
    BY DEF Sealing
  <2> QED
    BY <2>1, NextTyped, NextSealing
<1> QED
  BY <1>1, <1>2, PTL DEF Spec

-----------------------------------------------------------------------------
(* Theorems *)

\* Every variable of the live feature service keeps its type, whatever the
\* venues, the window, the bounds of the trimming and the number of kills.
THEOREM TypesHold == Spec => []TypeOK
<1>1. Typed => TypeOK
  BY DEF Typed
<1> QED
  BY <1>1, Invariance, PTL

\* No bar counts in a bucket that is not its own, and no bucket is completed
\* twice: the number of returns is the number of completed buckets.
THEOREM BarsCountOnce == Spec => []CountsOnce
<1>1. Sealing => CountsOnce
  BY DEF Sealing, Sound, CountsOnce
<1> QED
  BY <1>1, Invariance, PTL

\* A published row holds every bar of its bucket that is ever accepted.
THEOREM RowsAreFinal == Spec => []RowIsFinal
<1>1. Typed /\ Sealing => RowIsFinal
  <2> SUFFICES ASSUME Typed, Sealing, NEW k \in 1..Len(features), NEW i \in InState(ckpt),
                      BarBucket(i) = features[k].bucket
               PROVE  i \in features[k].bars
    BY DEF RowIsFinal
  <2>1. features[k] \in ckpt.done /\ Sound(ckpt)
    BY DEF Sealing
  <2>2. features[k].bucket <= ckpt.last
    BY <2>1 DEF Sound
  <2>3. features[k].bucket \in Nat /\ ckpt.last \in Int
    BY <2>1, ConstantsOK DEF Typed, StateOK, State, Completed
  <2>4. i \notin ckpt.open
    <3> SUFFICES ASSUME i \in ckpt.open PROVE FALSE
      OBVIOUS
    <3>1. ckpt.last < BarBucket(i)
      BY <2>1 DEF Sound
    <3> QED
      BY <2>2, <2>3, <3>1
  <2>5. PICK d \in ckpt.done : i \in d.bars
    BY <2>4 DEF InState
  <2>6. d.bucket = features[k].bucket
    BY <2>1, <2>5 DEF Sound
  <2> QED
    BY <2>1, <2>5, <2>6 DEF Sound
<1> QED
  BY <1>1, Invariance, PTL

\* The service implements the log of sealed buckets: each commit seals later
\* buckets only and appends the row of the latest, or changes nothing.
THEOREM ServiceSealsInOrder == Spec => SealsInOrder
<1>1. Init => Log!Init
  BY EmptyFacts DEF Init, Log!Init
<1>2. Typed /\ Typed' /\ Sealing /\ Sealing' /\ [Next]_vars
        => [Log!Seal]_<<ckpt.done, features>>
  <2> SUFFICES ASSUME Typed, Typed', Sealing, Sealing', [Next]_vars
               PROVE  Log!Seal \/ UNCHANGED <<ckpt.done, features>>
    OBVIOUS
  <2> USE DEF redis, task, history
  <2>1. mem.done \subseteq Log!Sealed
    BY DEF Typed, StateOK, State, Completed, Log!Sealed
  <2>2. CASE SaveState
    <3>1. ckpt' = mem /\ features' = features /\ pc = "replay"
      BY <2>2 DEF SaveState
    <3>2. ckpt.done = {}
      BY <3>1, EmptyFacts DEF Sealing
    <3>3. \A d, e \in mem.done : d.bucket = e.bucket => d = e
      BY DEF Sealing, Sound
    <3> QED
      BY <2>1, <3>1, <3>2, <3>3 DEF Log!Seal
  <2>3. ASSUME NEW i \in batch, Execute(i) PROVE Log!Seal
    <3>1. /\ ckpt' = mem /\ pc = "exec"
          /\ (features' = features \/ \E d \in row : features' = Append(features, d))
      BY <2>3 DEF Execute
    <3>2. /\ Extends(ckpt, mem)
          /\ row \subseteq {d \in mem.done \ ckpt.done : d.bucket = mem.last}
      BY <3>1 DEF Sealing
    <3> DEFINE new == mem.done \ ckpt.done
    <3>3. \A d, e \in new : d.bucket = e.bucket => d = e
      BY DEF Sealing, Sound
    <3>4. \A d \in new, e \in ckpt.done : e.bucket < d.bucket
      BY <3>2 DEF Extends
    <3>5. ASSUME NEW d \in row PROVE d \in new /\ \A e \in new : e.bucket <= d.bucket
      BY <3>2 DEF Extends
    <3>6. ckpt.done \subseteq mem.done
      BY <3>2 DEF Extends
    <3>7. ckpt'.done \ ckpt.done = new /\ ckpt'.done = mem.done
      BY <3>1
    <3>8. features' = features \/ \E d \in new : /\ \A e \in new : e.bucket <= d.bucket
                                               /\ features' = Append(features, d)
      BY <3>1, <3>5
    <3> HIDE DEF new
    <3> QED
      BY <2>1, <3>3, <3>4, <3>6, <3>7, <3>8 DEF Log!Seal
  <2>4. ASSUME NEW i \in batch,
               ReplayBar(i) \/ Ignore(i) \/ Accept(i) \/ Reject(i) \/ AckRejected(i)
        PROVE  UNCHANGED <<ckpt.done, features>>
    BY <2>4 DEF ReplayBar, Ignore, Accept, Buffer, Reject, AckRejected
  <2>5. ASSUME \/ Start \/ EnsureGroup \/ ReadHistory \/ Claim \/ Read \/ Crash \/ Tick
               \/ UNCHANGED vars
        PROVE  UNCHANGED <<ckpt.done, features>>
    BY <2>5 DEF Start, EnsureGroup, ReadHistory, Claim, Read, Deliver, Crash, Tick, vars
  <2>6. ASSUME NEW n \in 0..MaxEntries, Trim(n) PROVE UNCHANGED <<ckpt.done, features>>
    BY <2>6 DEF Trim
  <2>7. ASSUME NEW k \in Kinds, NEW b \in Buckets, NEW v \in Venues, NEW old \in Olds,
               Publish(k, b, v, old)
        PROVE  UNCHANGED <<ckpt.done, features>>
    BY <2>7 DEF Publish
  <2> QED
    BY <2>2, <2>3, <2>4, <2>5, <2>6, <2>7 DEF Next, Task
<1> QED
  BY <1>1, <1>2, Invariance, PTL DEF Spec, SealsInOrder, Log!Spec

-----------------------------------------------------------------------------
(* No fresh bar is skipped *)

IsBar(i) == stream[i].kind = "bar"

\* What Publish takes over from the aggregator.
Ordered ==
    \A i, j \in 1..Len(stream) : i < j =>
        /\ BarBucket(i) <= BarBucket(j)
        /\ BarBucket(i) = BarBucket(j) => stream[i].venue # stream[j].venue

\* A venue's newest bucket is the bucket of a bar in the state, and none of its
\* bars there is newer; the last completed bucket is before a bar in the state.
Tracks(s) ==
    /\ \A i \in InState(s) : BarBucket(i) <= Seen(s, i)
    /\ \A v \in Venues : s.seen[v] # None =>
           \E i \in InState(s) : stream[i].venue = v /\ BarBucket(i) = s.seen[v]
    /\ s.last # None => \E i \in InState(s) : s.last < BarBucket(i)

\* The warm-up takes in, oldest first, every bar that the group will not deliver
\* again, and between compute and EXEC memory holds the bar at hand.
Reached ==
    /\ Ordered /\ Tracks(mem) /\ Tracks(ckpt)
    /\ saved \/ pc \notin {"down", "group"} => lastDelivered # NoGroup
    /\ pc = "replay" =>
           /\ \A j \in InState(mem), i \in batch : j < i
           /\ \A i \in 1..lastDelivered :
                  IsBar(i) => i \in InState(mem) \cup batch \/ i <= trimmed \/ i <= unread
    /\ pc = "exec" =>
           /\ InState(ckpt) \subseteq InState(mem)
           /\ \A i \in batch : Oldest(i) => ~IsBar(i) \/ i \in InState(mem)
    /\ NothingSkipped

\* Without a restart the bars come in turn, so that one bucket is open at a time.
OneOpen(s) == \A i, j \in s.open : BarBucket(i) = BarBucket(j)

Running == pc \in {"claim", "read", "handle", "exec", "ack", "trim"}

InTurn ==
    restarts = 0 =>
        /\ ~Running => pending = {} /\ trimmed = 0 /\ ~saved
        /\ Running => pending = batch /\ batch \subseteq 1..lastDelivered
        /\ pc \in {"claim", "read"} => batch = {}
        /\ pc = "replay" => OneOpen(mem)
        /\ pc = "replay" /\ covered =>
               /\ unread <= lastDelivered
               /\ \A i \in 1..Len(stream) : IsBar(i) /\ unread < i =>
                      i \in InState(mem) \cup batch \/ \A j \in InState(mem) \cup batch : j < i
        /\ Running /\ covered =>
               /\ OneOpen(mem)
               /\ \A i \in 1..Len(stream) : IsBar(i) /\ (i \in batch \/ lastDelivered < i) =>
                      i \in InState(mem) \/ \A j \in InState(mem) : j < i

\* Every completed bucket after the warm-up has its row, the last one in the
\* transaction.
HasRow(s, rows, d) ==
    \/ d.bucket <= warmed
    \/ Cardinality({e \in s.done : e.bucket <= d.bucket}) <= Window
    \/ d \in rows
    \/ \E k \in 1..Len(features) : features[k] = d

RowsKept ==
    restarts = 0 /\ covered /\ Running =>
        /\ \A d \in ckpt.done : HasRow(ckpt, {}, d)
        /\ \A d \in mem.done : HasRow(mem, row, d)

LEMMA InStateType ==
    ASSUME NEW s, StateOK(s), Sound(s)
    PROVE  InState(s) \subseteq 1..Len(stream)
BY DEF InState, StateOK, Sound

LEMMA EmptyTracks ==
    /\ InState(EmptyState) = {} /\ Tracks(EmptyState)
    /\ \A v \in Venues : EmptyState.seen[v] = -1
BY DEF EmptyState, InState, Tracks

\* A bar that is taken in is in the state from then on, open or completed.
LEMMA InStateAccepted ==
    ASSUME stream \in Seq(Entry), NEW s, StateOK(s), NEW i \in 1..Len(stream)
    PROVE  /\ InState(Accepted(s, i)) = InState(s) \cup {i}
           /\ i \in Accepted(s, i).open
<1> DEFINE t == Accepted(s, i)
           b == BarBucket(i)
           open == s.open \cup {i}
           new == Sealed(open, b)
<1>1. t.open = open \ Ready(open, b) /\ t.done = s.done \cup new
  BY DEF Accepted
<1>2. b \in Nat
  BY BucketType
<1>3. i \in t.open
  BY <1>1, <1>2 DEF Ready
<1>4. ASSUME NEW k PROVE (\E d \in new : k \in d.bars) <=> k \in Ready(open, b)
  <2>1. ASSUME NEW d \in new, k \in d.bars PROVE k \in Ready(open, b)
    BY <2>1 DEF Sealed, Ready
  <2>2. ASSUME k \in Ready(open, b) PROVE \E d \in new : k \in d.bars
    <3> DEFINE d == [bucket |-> BarBucket(k),
                     bars |-> {m \in open : BarBucket(m) = BarBucket(k)}]
    <3>1. d \in new
      BY <2>2 DEF Sealed
    <3>2. k \in d.bars
      BY <2>2 DEF Ready
    <3> HIDE DEF d, new
    <3> QED
      BY <3>1, <3>2
  <2> QED
    BY <2>1, <2>2
<1>5. Ready(open, b) \subseteq open
  BY DEF Ready
<1> HIDE DEF t, new
<1>6. \A u, k : k \in InState(u) <=> k \in u.open \/ \E d \in u.done : k \in d.bars
  BY DEF InState
<1>7. ASSUME NEW k PROVE k \in InState(t) <=> k \in InState(s) \/ k = i
  <2>1. (\E d \in t.done : k \in d.bars)
           <=> (\E d \in s.done : k \in d.bars) \/ k \in Ready(open, b)
    BY <1>1, <1>4
  <2>2. k \in t.open <=> k \in open /\ k \notin Ready(open, b)
    BY <1>1
  <2> QED
    BY <1>5, <1>6, <2>1, <2>2
<1>8. InState(t) = InState(s) \cup {i}
  BY <1>7
<1> QED
  BY <1>3, <1>8 DEF t

LEMMA AcceptedTracks ==
    ASSUME stream \in Seq(Entry), Len(stream) <= MaxEntries,
           NEW s, StateOK(s), Sound(s), Tracks(s),
           NEW i \in 1..Len(stream), ~OutOfOrder(s, i)
    PROVE  Tracks(Accepted(s, i))
<1> DEFINE t == Accepted(s, i)
           v == stream[i].venue
<1>1. /\ BarBucket(i) \in Nat /\ v \in Venues /\ s.seen \in [Venues -> Int]
      /\ InState(t) = InState(s) \cup {i} /\ i \in t.open
      /\ InState(s) \subseteq 1..Len(stream)
      /\ Sound(t)
  BY BucketType, InStateAccepted, InStateType, AcceptedFacts DEF StateOK, State
<1>2. t.seen = [s.seen EXCEPT ![v] = BarBucket(i)]
  BY DEF Accepted
<1>3. s.seen[v] <= BarBucket(i)
  BY <1>1 DEF OutOfOrder, Seen
<1> HIDE DEF t
<1>4. ASSUME NEW k \in InState(t) PROVE BarBucket(k) <= Seen(t, k)
  <2>1. k \in 1..Len(stream) /\ BarBucket(k) \in Nat /\ stream[k].venue \in Venues
    BY <1>1, BucketType
  <2>2. CASE k = i
    BY <1>1, <1>2, <2>2 DEF Seen
  <2>3. CASE k # i
    <3>1. BarBucket(k) <= s.seen[stream[k].venue]
      BY <1>1, <2>3 DEF Tracks, Seen
    <3>2. s.seen[stream[k].venue] <= t.seen[stream[k].venue]
      BY <1>1, <1>2, <1>3, <2>1
    <3> QED
      BY <1>1, <1>2, <2>1, <3>1, <3>2 DEF Seen
  <2> QED
    BY <2>2, <2>3
<1>5. ASSUME NEW w \in Venues, t.seen[w] # -1
      PROVE  \E k \in InState(t) : stream[k].venue = w /\ BarBucket(k) = t.seen[w]
  BY <1>1, <1>2, <1>5 DEF Tracks
<1>6. \E k \in InState(t) : t.last < BarBucket(k)
  <2>1. t.last < BarBucket(i)
    BY <1>1 DEF Sound
  <2> QED
    BY <1>1, <2>1
<1> QED
  BY <1>4, <1>5, <1>6 DEF Tracks, t

\* The bar a venue's newest bucket comes from is known; a bar of the state is
\* never taken in again; and a bar that follows all of the state is in order.
LEMMA InTurnFacts ==
    ASSUME stream \in Seq(Entry), Ordered, NEW s, StateOK(s), Sound(s), Tracks(s),
           NEW i \in 1..Len(stream), NEW r \in BOOLEAN
    PROVE  /\ BarBucket(i) = Seen(s, i) => i \in InState(s)
           /\ i \in InState(s) => ~Accepts(s, i, r)
           /\ (\A j \in InState(s) : j < i) => ~OutOfOrder(s, i)
<1>1. /\ BarBucket(i) \in Nat /\ stream[i].venue \in Venues /\ s.seen \in [Venues -> Int]
      /\ s.last \in Int /\ InState(s) \subseteq 1..Len(stream)
      /\ \A j \in InState(s) : BarBucket(j) \in Nat
  BY BucketType, InStateType DEF StateOK, State
<1>2. ASSUME BarBucket(i) = Seen(s, i) PROVE i \in InState(s)
  <2>1. PICK j \in InState(s) : stream[j].venue = stream[i].venue /\ BarBucket(j) = Seen(s, i)
    BY <1>1, <1>2 DEF Tracks, Seen
  <2>2. ~(i < j) /\ ~(j < i)
    BY <1>1, <1>2, <2>1 DEF Ordered
  <2> QED
    BY <1>1, <2>1, <2>2
<1>3. ASSUME i \in InState(s) PROVE ~Accepts(s, i, r)
  <2>1. BarBucket(i) <= Seen(s, i) /\ Seen(s, i) \in Int
    BY <1>1, <1>3 DEF Tracks, Seen
  <2>2. BarBucket(i) = Seen(s, i) \/ OutOfOrder(s, i)
    BY <1>1, <2>1 DEF OutOfOrder
  <2> QED
    BY <2>2 DEF Accepts, Rejects, Ignores
<1>4. ASSUME \A j \in InState(s) : j < i PROVE ~OutOfOrder(s, i)
  <2>1. \A j \in InState(s) : BarBucket(j) <= BarBucket(i)
    BY <1>1, <1>4 DEF Ordered
  <2>2. Seen(s, i) <= BarBucket(i)
    <3>1. CASE Seen(s, i) = -1
      BY <1>1, <3>1
    <3>2. CASE Seen(s, i) # -1
      <4>1. PICK j \in InState(s) : BarBucket(j) = Seen(s, i)
        BY <1>1, <3>2 DEF Tracks, Seen
      <4> QED
        BY <2>1, <4>1
    <3> QED
      BY <3>1, <3>2
  <2>3. s.last < BarBucket(i)
    <3>1. CASE s.last = -1
      BY <1>1, <3>1
    <3>2. CASE s.last # -1
      <4>1. PICK j \in InState(s) : s.last < BarBucket(j)
        BY <3>2 DEF Tracks
      <4> QED
        BY <1>1, <2>1, <4>1
    <3> QED
      BY <3>1, <3>2
  <2> QED
    BY <1>1, <2>2, <2>3 DEF OutOfOrder, Seen
<1> QED
  BY <1>2, <1>3, <1>4

LEMMA InitReached == Init => Reached
<1> SUFFICES ASSUME Init PROVE Reached
  OBVIOUS
<1>1. /\ stream = <<>> /\ pc = "down" /\ ~saved /\ mem = EmptyState /\ ckpt = EmptyState
  BY DEF Init
<1>2. Len(stream) = 0
  BY <1>1
<1> QED
  BY <1>1, <1>2, EmptyTracks DEF Reached, Ordered, NothingSkipped

\* What accounts for an entry that is acknowledged.
Explained(i) ==
    \/ ~IsBar(i) \/ stream[i].old \/ age[i] > MaxBarAge
    \/ i \in InState(ckpt) \/ i \in dropped \/ i <= trimmed \/ i <= unread

\* Nothing is skipped by a step that explains what it acknowledges.
LEMMA SkipFrame ==
    ASSUME Typed, Typed', NothingSkipped, saved' => saved,
           Len(stream) <= Len(stream'),
           \A i \in 1..Len(stream) : stream'[i] = stream[i] /\ age[i] <= age'[i],
           InState(ckpt) \subseteq InState(ckpt'), dropped \subseteq dropped',
           trimmed <= trimmed', unread' = unread,
           \A i \in 1..Len(stream') : Acked(i)' => (i <= Len(stream) /\ Acked(i)) \/ Explained(i)'
    PROVE  NothingSkipped'
<1> SUFFICES ASSUME saved', NEW i \in 1..Len(stream'), Acked(i)' PROVE Explained(i)'
  BY DEF NothingSkipped, Explained, IsBar
<1>1. CASE i <= Len(stream) /\ Acked(i)
  <2>1. i \in 1..Len(stream) /\ i \in Ids
    BY <1>1, PositionType
  <2>2. Explained(i)
    BY <1>1, <2>1 DEF NothingSkipped, Explained, IsBar
  <2>3. age[i] \in Int /\ age'[i] \in Int /\ MaxBarAge \in Nat
    BY <2>1, ConstantsOK DEF Typed, TypeOK
  <2>4. i <= trimmed => i <= trimmed'
    BY <2>1 DEF Typed, TypeOK
  <2>5. age[i] > MaxBarAge => age'[i] > MaxBarAge
    BY <2>1, <2>3
  <2>6. InState(ckpt)' = InState(ckpt')
    BY DEF InState
  <2> QED
    BY <2>1, <2>2, <2>4, <2>5, <2>6 DEF Explained, IsBar
<1> QED
  BY <1>1

\* A step that neither publishes, computes nor acknowledges.
LEMMA ReachedFrame ==
    ASSUME Typed, Typed', Reached,
           UNCHANGED <<stream, lastDelivered, trimmed, saved, ckpt, dropped, unread>>,
           \A i \in 1..Len(stream) : age[i] <= age'[i],
           pending' = pending \/ ~saved,
           Tracks(mem'),
           pc' \in {"group"} \/ pc \notin {"down", "group"} \/ pc' = "down",
           pc' = "replay" => pc = "replay" /\ UNCHANGED <<mem, batch>>,
           pc' = "exec" => pc = "exec" /\ UNCHANGED <<mem, batch>>
    PROVE  Reached'
<1>1. Ordered' /\ Tracks(mem)' /\ Tracks(ckpt)'
  BY DEF Reached, Ordered, Tracks, InState, Seen, BarBucket
<1>2. InState(ckpt') = InState(ckpt)
  OBVIOUS
<1>3. NothingSkipped'
  <2>1. CASE saved
    <3>1. \A i \in 1..Len(stream') : Acked(i)' => i <= Len(stream) /\ Acked(i)
      BY <2>1, PositionType DEF Acked
    <3>2. trimmed <= trimmed' /\ Len(stream) <= Len(stream')
      BY PositionType DEF Typed, TypeOK
    <3> QED
      BY <1>2, <3>1, <3>2, SkipFrame DEF Reached
  <2>2. CASE ~saved
    BY <2>2 DEF NothingSkipped
  <2> QED
    BY <2>1, <2>2
<1>4. saved' \/ pc' \notin {"down", "group"} => lastDelivered' # -1
  BY DEF Reached
<1>5. pc' = "replay" =>
         /\ \A j \in InState(mem'), i \in batch' : j < i
         /\ \A i \in 1..lastDelivered' :
                IsBar(i)' => i \in InState(mem') \cup batch' \/ i <= trimmed' \/ i <= unread'
  BY DEF Reached, IsBar
<1>6. pc' = "exec" =>
         /\ InState(ckpt') \subseteq InState(mem')
         /\ \A i \in batch' : Oldest(i)' => ~IsBar(i)' \/ i \in InState(mem')
  BY DEF Reached, IsBar, Oldest
<1> QED
  BY <1>1, <1>3, <1>4, <1>5, <1>6 DEF Reached, InState

LEMMA PublishReached ==
    ASSUME Typed, Typed', Sealing, Reached,
           NEW k \in Kinds, NEW b \in Buckets, NEW v \in Venues, NEW old \in Olds,
           Publish(k, b, v, old)
    PROVE  Reached'
<1> DEFINE e == [kind |-> k, bucket |-> b, venue |-> v, old |-> old]
<1>0. PICK n \in Nat : n = Len(stream) + 1
  BY PositionType
<1>1. /\ stream' = Append(stream, e)
      /\ \A i \in 1..Len(stream) : /\ BarBucket(i) <= b
                                   /\ BarBucket(i) = b => stream[i].venue # v
      /\ UNCHANGED <<trimmed, lastDelivered, pending, age, idle, saved, ckpt, features,
                     task, restarts, history>>
  BY DEF Publish
<1>2. /\ Len(stream) \in Nat /\ Len(stream') = n
      /\ \A i \in 1..Len(stream) : stream'[i] = stream[i] /\ BarBucket(i)' = BarBucket(i)
      /\ stream'[n].venue = v /\ BarBucket(n)' = b
  <2>1. e \in Entry
    BY ConstantsOK DEF Entry
  <2>2. e.venue = v /\ e.bucket = b
    OBVIOUS
  <2> HIDE DEF e
  <2>3. stream' = Append(stream, e) /\ stream \in Seq(Entry) /\ n = Len(stream) + 1
    BY <1>0, <1>1, PositionType
  <2>4. /\ Len(stream) \in Nat /\ Len(stream') = n /\ stream'[n] = e
        /\ \A i \in 1..Len(stream) : stream'[i] = stream[i]
    BY <2>1, <2>3
  <2> QED
    BY <2>2, <2>4 DEF BarBucket
<1>3. /\ \A i \in 1..Len(stream') : i = n \/ i \in 1..Len(stream)
      /\ \A i \in 1..Len(stream) : i \in 1..Len(stream')
  BY <1>0, <1>2
<1>4. /\ InState(mem) \subseteq 1..Len(stream) /\ InState(ckpt) \subseteq 1..Len(stream)
      /\ batch \subseteq 1..Len(stream) /\ lastDelivered \in -1..Len(stream)
      /\ trimmed \in 0..Len(stream)
  BY InStateType DEF Typed, TypeOK, Sealing
<1> HIDE DEF e
<1>5. Ordered'
  <2> SUFFICES ASSUME NEW i \in 1..Len(stream'), NEW j \in 1..Len(stream'), i < j
               PROVE  /\ BarBucket(i)' <= BarBucket(j)'
                      /\ BarBucket(i)' = BarBucket(j)' => stream'[i].venue # stream'[j].venue
    BY DEF Ordered
  <2>1. i \in 1..Len(stream)
    BY <1>0, <1>2, <1>3
  <2>2. CASE j = n
    BY <1>1, <1>2, <2>1, <2>2
  <2>3. CASE j \in 1..Len(stream)
    BY <1>2, <2>1, <2>3 DEF Reached, Ordered
  <2> QED
    BY <1>3, <2>2, <2>3
<1>6. InState(mem)' = InState(mem) /\ InState(ckpt)' = InState(ckpt)
  BY <1>1 DEF InState, task
<1>7. ASSUME NEW s, Tracks(s), InState(s) \subseteq 1..Len(stream)
      PROVE  /\ \A i \in InState(s) : BarBucket(i)' <= s.seen[stream'[i].venue]
             /\ \A w \in Venues : s.seen[w] # -1 =>
                    \E i \in InState(s) : stream'[i].venue = w /\ BarBucket(i)' = s.seen[w]
             /\ s.last # -1 => \E i \in InState(s) : s.last < BarBucket(i)'
  <2>1. ASSUME NEW i \in InState(s) PROVE BarBucket(i)' <= s.seen[stream'[i].venue]
    <3>1. stream'[i] = stream[i] /\ BarBucket(i)' = BarBucket(i)
      BY <1>2, <1>7
    <3> QED
      BY <1>7, <3>1 DEF Tracks, Seen
  <2>2. ASSUME NEW w \in Venues, s.seen[w] # -1
        PROVE  \E i \in InState(s) : stream'[i].venue = w /\ BarBucket(i)' = s.seen[w]
    <3>1. PICK i \in InState(s) : stream[i].venue = w /\ BarBucket(i) = s.seen[w]
      BY <1>7, <2>2 DEF Tracks
    <3>2. stream'[i] = stream[i] /\ BarBucket(i)' = BarBucket(i)
      BY <1>2, <1>7
    <3> QED
      BY <3>1, <3>2
  <2>3. ASSUME s.last # -1 PROVE \E i \in InState(s) : s.last < BarBucket(i)'
    <3>1. PICK i \in InState(s) : s.last < BarBucket(i)
      BY <1>7, <2>3 DEF Tracks
    <3>2. BarBucket(i)' = BarBucket(i)
      BY <1>2, <1>7
    <3> QED
      BY <3>1, <3>2
  <2> QED
    BY <2>1, <2>2, <2>3
<1>8. Tracks(mem)' /\ Tracks(ckpt)'
  <2>1. mem' = mem /\ ckpt' = ckpt
    BY <1>1 DEF task
  <2>2. PICK m : m = mem
    OBVIOUS
  <2>3. PICK c : c = ckpt
    OBVIOUS
  <2>4. Tracks(m) /\ Tracks(c)
    BY <2>2, <2>3 DEF Reached
  <2>5. InState(m) \subseteq 1..Len(stream) /\ InState(c) \subseteq 1..Len(stream)
    BY <1>4, <2>2, <2>3
  <2>6. Tracks(mem)'
    BY <1>6, <1>7, <2>1, <2>2, <2>4, <2>5 DEF Tracks, Seen
  <2>7. Tracks(ckpt)'
    BY <1>6, <1>7, <2>1, <2>3, <2>4, <2>5 DEF Tracks, Seen
  <2> QED
    BY <2>6, <2>7
<1>9. NothingSkipped'
  <2>1. UNCHANGED <<saved, age, dropped, trimmed, unread, lastDelivered, pending>>
    BY <1>1 DEF history
  <2>2. \A i \in 1..Len(stream) : age[i] <= age'[i]
    <3>1. \A i \in 1..Len(stream) : age[i] \in Int
      <4>1. age \in [Ids -> 0..MaxBarAge + 1] /\ 1..Len(stream) \subseteq Ids
        BY PositionType DEF Typed, TypeOK
      <4>2. \A i \in 1..Len(stream) : age[i] \in 0..MaxBarAge + 1
        BY <4>1
      <4> QED
        BY <4>2, ConstantsOK
    <3> QED
      BY <2>1, <3>1
  <2>3. \A i \in 1..Len(stream') : Acked(i)' => i <= Len(stream) /\ Acked(i)
    BY <1>0, <1>2, <1>3, <1>4, <2>1 DEF Acked
  <2>4. trimmed <= trimmed' /\ Len(stream) <= Len(stream')
    BY <1>0, <1>2, <1>4, <2>1
  <2> QED
    BY <1>2, <1>6, <2>1, <2>2, <2>3, <2>4, SkipFrame DEF Reached, InState
<1>10. UNCHANGED <<pc, mem, batch, saved, lastDelivered, unread, trimmed, ckpt>>
  BY <1>1 DEF task, history
<1>11. \A i \in 1..Len(stream) : IsBar(i)' = IsBar(i)
  BY <1>2 DEF IsBar
<1>12. pc = "replay" =>
         \A i \in 1..lastDelivered :
                IsBar(i)' => i \in InState(mem) \cup batch \/ i <= trimmed \/ i <= unread
  <2> SUFFICES ASSUME pc = "replay", NEW i \in 1..lastDelivered, IsBar(i)'
               PROVE  i \in InState(mem) \cup batch \/ i <= trimmed \/ i <= unread
    OBVIOUS
  <2>1. i \in 1..Len(stream)
    BY <1>2, <1>4
  <2> QED
    BY <1>11, <2>1 DEF Reached
<1>13. pc = "exec" =>
         /\ InState(ckpt) \subseteq InState(mem)
         /\ \A i \in batch : Oldest(i) => ~IsBar(i)' \/ i \in InState(mem)
  BY <1>4, <1>11 DEF Reached
<1>14. \A i : Oldest(i)' = Oldest(i)
  BY <1>10 DEF Oldest
<1> QED
  BY <1>5, <1>6, <1>8, <1>9, <1>10, <1>12, <1>13, <1>14 DEF Reached

\* A step of the serving process.
LEMMA ReachedServing ==
    ASSUME Typed, Typed', Reached,
           UNCHANGED <<stream, age, saved, unread>>,
           pc \notin {"down", "group"}, pc' \notin {"down", "group", "replay"},
           lastDelivered <= lastDelivered', trimmed <= trimmed', dropped \subseteq dropped',
           Tracks(mem'), Tracks(ckpt'), InState(ckpt) \subseteq InState(ckpt'),
           pc' = "exec" =>
               /\ InState(ckpt') \subseteq InState(mem')
               /\ \A i \in batch' : Oldest(i)' => ~IsBar(i) \/ i \in InState(mem'),
           \A i \in 1..Len(stream) : Acked(i)' => Acked(i) \/ Explained(i)'
    PROVE  Reached'
<1>1. Ordered' /\ Tracks(mem)' /\ Tracks(ckpt)'
  BY DEF Reached, Ordered, Tracks, InState, Seen, BarBucket
<1>2. lastDelivered' # -1
  <2>1. lastDelivered # -1 /\ lastDelivered \in -1..Len(stream) /\ lastDelivered' \in Int
    BY DEF Reached, Typed, TypeOK
  <2> QED
    BY <2>1
<1>3. NothingSkipped'
  <2>1. \A i \in 1..Len(stream) : age[i] <= age'[i]
    <3>1. age \in [Ids -> 0..MaxBarAge + 1] /\ 1..Len(stream) \subseteq Ids
      BY PositionType DEF Typed, TypeOK
    <3>2. \A i \in 1..Len(stream) : age[i] \in 0..MaxBarAge + 1
      BY <3>1
    <3> QED
      BY <3>2, ConstantsOK
  <2>2. Len(stream) <= Len(stream')
        /\ \A i \in 1..Len(stream') : Acked(i)' => (i <= Len(stream) /\ Acked(i)) \/ Explained(i)'
    BY PositionType
  <2> QED
    BY <2>1, <2>2, SkipFrame DEF Reached
<1> QED
  BY <1>1, <1>2, <1>3 DEF Reached, InState, IsBar

LEMMA NextReached == Typed /\ Sealing /\ Reached /\ [Next]_vars => Reached'
<1> SUFFICES ASSUME Typed, Sealing, Reached, [Next]_vars PROVE Reached'
  OBVIOUS
<1> USE DEF redis, task, history
<1>a. Typed' /\ Sealing'
  BY NextTyped, NextSealing DEF Sealing
<1>b. \A i \in 1..Len(stream) : age[i] \in Int /\ age[i] <= age[i]
  <2>1. age \in [Ids -> 0..MaxBarAge + 1] /\ 1..Len(stream) \subseteq Ids
    BY PositionType DEF Typed, TypeOK
  <2>2. \A i \in 1..Len(stream) : age[i] \in 0..MaxBarAge + 1
    BY <2>1
  <2> QED
    BY <2>2, ConstantsOK
<1>c. /\ stream \in Seq(Entry) /\ Len(stream) \in Nat /\ Len(stream) <= MaxEntries
      /\ lastDelivered \in -1..Len(stream) /\ trimmed \in 0..Len(stream)
      /\ batch \subseteq 1..Len(stream) /\ pending \subseteq 1..Len(stream)
      /\ StateOK(mem) /\ StateOK(ckpt) /\ Sound(mem) /\ Sound(ckpt)
      /\ Ordered /\ Tracks(mem) /\ Tracks(ckpt)
  BY PositionType DEF Typed, TypeOK, Sealing, Reached
<1>0. CASE UNCHANGED vars
  BY <1>0, <1>a, <1>b, <1>c, ReachedFrame DEF vars
<1>1. ASSUME NEW k \in Kinds, NEW b \in Buckets, NEW v \in Venues, NEW old \in Olds,
             Publish(k, b, v, old)
      PROVE  Reached'
  BY <1>1, <1>a, PublishReached
<1>2. CASE Tick
  <2>1. /\ UNCHANGED <<stream, trimmed, lastDelivered, pending, saved, ckpt, features,
                       task, restarts, history>>
        /\ age' = [i \in Ids |-> IF i <= Len(stream) /\ age[i] <= MaxBarAge
                                 THEN age[i] + 1 ELSE age[i]]
    BY <1>2 DEF Tick
  <2>2. \A i \in 1..Len(stream) : age[i] <= age'[i]
    BY <1>b, <2>1, PositionType
  <2> QED
    BY <1>a, <1>c, <2>1, <2>2, ReachedFrame
<1>3. CASE Start
  <2>1. /\ pc' = "group" /\ mem' = ckpt /\ UNCHANGED <<redis, history>>
    BY <1>3 DEF Start
  <2> QED
    BY <1>a, <1>b, <1>c, <2>1, ReachedFrame
<1>4. CASE EnsureGroup
  <2>1. /\ pc = "group" /\ pc' = IF saved THEN "claim" ELSE "history"
        /\ lastDelivered' = IF lastDelivered = -1 THEN Len(stream) ELSE lastDelivered
        /\ UNCHANGED <<stream, trimmed, pending, age, saved, ckpt, mem, batch, history>>
    BY <1>4 DEF EnsureGroup
  <2>2. saved => lastDelivered' = lastDelivered
    BY <2>1 DEF Reached
  <2>3. NothingSkipped'
    <3>1. CASE saved
      BY <2>1, <2>2, <3>1 DEF Reached, NothingSkipped, Acked, InState
    <3>2. CASE ~saved
      BY <2>1, <3>2 DEF NothingSkipped
    <3> QED
      BY <3>1, <3>2
  <2>4. Ordered' /\ Tracks(mem)' /\ Tracks(ckpt)'
    BY <1>c, <2>1 DEF Ordered, Tracks, InState, Seen, BarBucket
  <2>5. lastDelivered' # -1
    BY <1>c, <2>1
  <2> QED
    BY <2>1, <2>3, <2>4, <2>5 DEF Reached
<1>5. CASE ReadHistory
  <2>1. /\ pc = "history" /\ pc' = "replay"
        /\ batch' = {i \in 1..Len(stream) : trimmed < i /\ i > Len(stream) - ReplayCount}
        /\ unread' = Len(stream) - ReplayCount
        /\ UNCHANGED <<redis, mem>>
    BY <1>5 DEF ReadHistory
  <2>2. ~saved /\ mem = EmptyState
    BY <2>1 DEF Sealing
  <2>3. NothingSkipped'
    BY <2>1, <2>2 DEF NothingSkipped
  <2>4. Ordered' /\ Tracks(mem)' /\ Tracks(ckpt)'
    BY <1>c, <2>1 DEF Ordered, Tracks, InState, Seen, BarBucket
  <2>5. InState(mem') = {}
    BY <2>1, <2>2, EmptyTracks
  <2>6. \A i \in 1..lastDelivered : i \in batch' \/ i <= trimmed \/ i <= unread'
    <3>1. ASSUME NEW i \in 1..lastDelivered
          PROVE  i \in batch' \/ i <= trimmed \/ i <= unread'
      <4>1. i \in 1..Len(stream) /\ trimmed \in Int /\ ReplayCount \in Int
        BY <1>c, ConstantsOK
      <4> QED
        BY <2>1, <4>1
    <3> QED
      BY <3>1
  <2>7. lastDelivered # -1
    BY <2>1 DEF Reached
  <2> QED
    BY <2>1, <2>3, <2>4, <2>5, <2>6, <2>7 DEF Reached, InState
<1>6. ASSUME NEW i \in batch, ReplayBar(i) PROVE Reached'
  <2>1. /\ pc = "replay" /\ pc' = "replay" /\ batch' = batch \ {i}
        /\ mem' = IF Accepts(mem, i, TRUE) THEN Accepted(mem, i) ELSE mem
        /\ UNCHANGED <<redis, history>> /\ Oldest(i)
    BY <1>6 DEF ReplayBar
  <2>2. i \in 1..Len(stream) /\ ~saved /\ lastDelivered # -1
    BY <1>c, <2>1 DEF Sealing, Reached
  <2>3. /\ \A j \in InState(mem) : j < i
        /\ \A k \in batch : i <= k
    BY <2>1 DEF Reached, Oldest
  <2>4. ~OutOfOrder(mem, i) /\ (BarBucket(i) = Seen(mem, i) => i \in InState(mem))
    <3>1. PICK r \in BOOLEAN : r = TRUE
      OBVIOUS
    <3> QED
      BY <1>c, <2>2, <2>3, InTurnFacts
  <2>5. IsBar(i) => Accepts(mem, i, TRUE) \/ i \in InState(mem)
    BY <2>4 DEF Accepts, Rejects, Ignores, Stale, IsBar
  <2>6. /\ InState(mem') \subseteq InState(mem) \cup {i} /\ InState(mem) \subseteq InState(mem')
        /\ IsBar(i) => i \in InState(mem')
        /\ Tracks(mem')
    <3>1. CASE Accepts(mem, i, TRUE)
      <4>1. mem' = Accepted(mem, i)
        BY <2>1, <3>1
      <4> QED
        BY <1>c, <2>2, <2>4, <4>1, InStateAccepted, AcceptedTracks
    <3>2. CASE ~Accepts(mem, i, TRUE)
      BY <1>c, <2>1, <2>5, <3>2
    <3> QED
      BY <3>1, <3>2
  <2>7. Ordered' /\ Tracks(mem)' /\ Tracks(ckpt)'
    <3>1. stream' = stream /\ ckpt' = ckpt
      BY <2>1
    <3>2. Tracks(mem)'
      BY <2>6, <3>1 DEF Tracks, InState, Seen, BarBucket
    <3> QED
      BY <1>c, <3>1, <3>2 DEF Ordered, Tracks, InState, Seen, BarBucket
  <2>8. NothingSkipped'
    BY <2>1, <2>2 DEF NothingSkipped
  <2>9. \A j \in InState(mem'), k \in batch' : j < k
    <3> SUFFICES ASSUME NEW j \in InState(mem'), NEW k \in batch' PROVE j < k
      OBVIOUS
    <3>1. k \in batch /\ k # i /\ i <= k /\ k \in Int /\ i \in Int
      BY <1>c, <2>1, <2>2, <2>3
    <3>2. j = i \/ j \in InState(mem)
      BY <2>6
    <3> QED
      BY <2>1, <3>1, <3>2 DEF Reached
  <2>10. \A k \in 1..lastDelivered :
            IsBar(k) => k \in InState(mem') \cup batch' \/ k <= trimmed \/ k <= unread
    <3> SUFFICES ASSUME NEW k \in 1..lastDelivered, IsBar(k)
                 PROVE  k \in InState(mem') \cup batch' \/ k <= trimmed \/ k <= unread
      OBVIOUS
    <3>1. k \in InState(mem) \cup batch \/ k <= trimmed \/ k <= unread
      BY <2>1 DEF Reached
    <3> QED
      BY <2>1, <2>6, <3>1
  <2> QED
    BY <2>1, <2>2, <2>7, <2>8, <2>9, <2>10 DEF Reached, InState, IsBar
<1>7. CASE SaveState
  <2>1. /\ pc = "replay" /\ pc' = "claim" /\ batch = {} /\ ckpt' = mem /\ saved' = TRUE
        /\ UNCHANGED <<stream, trimmed, lastDelivered, pending, age, mem, batch, dropped, unread>>
    BY <1>7 DEF SaveState
  <2>2. Ordered' /\ Tracks(mem)' /\ Tracks(ckpt)'
    BY <1>c, <2>1 DEF Ordered, Tracks, InState, Seen, BarBucket
  <2>3. NothingSkipped'
    <3> SUFFICES ASSUME NEW i \in 1..Len(stream), Acked(i)'
                 PROVE  ~IsBar(i) \/ i \in InState(ckpt') \/ i <= trimmed \/ i <= unread
      BY <2>1 DEF NothingSkipped, IsBar, InState
    <3>1. i \in 1..lastDelivered
      BY <1>c, <2>1 DEF Acked
    <3> QED
      BY <2>1, <3>1 DEF Reached
  <2>4. lastDelivered # -1
    BY <2>1 DEF Reached
  <2> QED
    BY <2>1, <2>2, <2>3, <2>4 DEF Reached
<1>8. CASE Crash
  <2>1. pc' = "down" /\ mem' = EmptyState /\ UNCHANGED <<redis, history>>
    BY <1>8 DEF Crash
  <2> QED
    BY <1>a, <1>b, <2>1, EmptyTracks, ReachedFrame
\* Steps that move on without computing or acknowledging.
<1>9. ASSUME pc \in {"claim", "read", "handle", "exec", "ack", "trim"},
             pc' \in {"claim", "read", "handle", "ack", "trim"},
             UNCHANGED <<stream, age, saved, ckpt, mem, dropped, unread>>,
             lastDelivered <= lastDelivered', trimmed <= trimmed',
             \A i \in 1..Len(stream) : Acked(i)' => Acked(i) \/ i <= trimmed'
      PROVE  Reached'
  <2>1. \A i \in 1..Len(stream) : Acked(i)' => Acked(i) \/ Explained(i)'
    BY <1>9 DEF Explained
  <2> QED
    BY <1>9, <1>a, <1>c, <2>1, ReachedServing
<1>10. CASE Claim
  <2>1. /\ pc = "claim" /\ pc' \in {"handle", "read"} /\ UNCHANGED lastDelivered
        /\ pending' = {i \in pending : idle[i] < PendingIdle \/ trimmed < i}
        /\ UNCHANGED <<stream, trimmed, age, saved, ckpt, mem, history>>
    BY <1>10 DEF Claim, Deliver
  <2>2. \A i \in pending : i \notin pending' => i <= trimmed
    BY <1>c, <2>1
  <2>3. \A i \in 1..Len(stream) : Acked(i)' => Acked(i) \/ i <= trimmed'
    BY <2>1, <2>2 DEF Acked
  <2>4. lastDelivered <= lastDelivered' /\ trimmed <= trimmed'
    BY <1>c, <2>1
  <2> QED
    BY <1>9, <2>1, <2>3, <2>4
<1>11. CASE Read
  <2> DEFINE from == IF lastDelivered < trimmed THEN trimmed ELSE lastDelivered
             upTo == IF from + ReadCount < Len(stream) THEN from + ReadCount ELSE Len(stream)
             entries == {i \in Ids : from < i /\ i <= upTo}
  <2>1. /\ pc = "read" /\ pc' \in {"handle", "claim"}
        /\ pending' = pending \cup entries
        /\ lastDelivered' = IF entries = {} THEN lastDelivered ELSE upTo
        /\ UNCHANGED <<stream, trimmed, age, saved, ckpt, mem, history>>
    BY <1>11 DEF Read, Deliver
  <2>2. from \in Int /\ upTo \in Int /\ lastDelivered <= from /\ from <= upTo
        /\ lastDelivered \in Int
        /\ (from = lastDelivered \/ from = trimmed)
    BY <1>c, ConstantsOK
  <2>3. \A i \in 1..Len(stream) : Acked(i)' => Acked(i) \/ i <= trimmed'
    <3> SUFFICES ASSUME NEW i \in 1..Len(stream), Acked(i)', ~Acked(i) PROVE i <= trimmed
      BY <2>1
    <3>1. i \notin pending /\ i \notin entries /\ lastDelivered < i /\ i <= lastDelivered'
      BY <1>c, <2>1, <2>2 DEF Acked
    <3>2. i <= upTo /\ i \in Ids
      BY <2>1, <2>2, <3>1, PositionType
    <3>3. ~(from < i)
      BY <3>1, <3>2
    <3> QED
      BY <1>c, <2>2, <3>1, <3>3
  <2>4. lastDelivered <= lastDelivered' /\ trimmed <= trimmed'
    BY <1>c, <2>1, <2>2
  <2> HIDE DEF entries, upTo, from
  <2> QED
    BY <1>9, <2>1, <2>3, <2>4
<1>12. ASSUME NEW i \in batch, Ignore(i) PROVE Reached'
  <2>1. /\ pc = "handle" /\ pc' = "exec" /\ mem' = mem /\ Ignores(mem, i, FALSE) /\ Oldest(i)
        /\ UNCHANGED <<redis, batch, history>>
    BY <1>12 DEF Ignore, Handling, Buffer
  <2>2. mem = ckpt
    BY <2>1 DEF Sealing
  <2>3. ~IsBar(i) \/ i \in InState(mem)
    <3>1. PICK r \in BOOLEAN : r = TRUE
      OBVIOUS
    <3>2. BarBucket(i) = Seen(mem, i) => i \in InState(mem)
      BY <1>c, InTurnFacts
    <3> QED
      BY <2>1, <3>2 DEF Ignores, IsBar
  <2>4. \A k \in batch : Oldest(k) => k = i
    BY <1>c, <2>1 DEF Oldest
  <2>5. \A k \in batch' : Oldest(k)' => ~IsBar(k) \/ k \in InState(mem')
    BY <2>1, <2>3, <2>4 DEF Oldest
  <2>6. lastDelivered <= lastDelivered' /\ trimmed <= trimmed'
        /\ \A k \in 1..Len(stream) : Acked(k)' => Acked(k)
    BY <1>c, <2>1 DEF Acked
  <2> QED
    BY <1>a, <1>c, <2>1, <2>2, <2>5, <2>6, ReachedServing
<1>13. ASSUME NEW i \in batch, Accept(i) PROVE Reached'
  <2>1. /\ pc = "handle" /\ pc' = "exec" /\ mem' = Accepted(mem, i) /\ Accepts(mem, i, FALSE)
        /\ Oldest(i) /\ UNCHANGED <<redis, batch, history>>
    BY <1>13 DEF Accept, Handling, Buffer
  <2>2. mem = ckpt
    BY <2>1 DEF Sealing
  <2>3. ~OutOfOrder(mem, i) /\ i \in 1..Len(stream)
    BY <1>c, <2>1, AcceptsInOrder
  <2>4. InState(mem') = InState(mem) \cup {i} /\ Tracks(mem')
    BY <1>c, <2>1, <2>3, InStateAccepted, AcceptedTracks
  <2>5. \A k \in batch : Oldest(k) => k = i
    BY <1>c, <2>1 DEF Oldest
  <2>6. \A k \in batch' : Oldest(k)' => ~IsBar(k) \/ k \in InState(mem')
    BY <2>1, <2>4, <2>5 DEF Oldest
  <2>7. lastDelivered <= lastDelivered' /\ trimmed <= trimmed'
        /\ \A k \in 1..Len(stream) : Acked(k)' => Acked(k)
    BY <1>c, <2>1 DEF Acked
  <2> QED
    BY <1>a, <1>c, <2>1, <2>2, <2>4, <2>6, <2>7, ReachedServing
<1>14. ASSUME NEW i \in batch, Reject(i) PROVE Reached'
  <2>1. /\ pc = "handle" /\ pc' = "ack" /\ UNCHANGED <<redis, batch, mem, history>>
    BY <1>14 DEF Reject, Handling
  <2>2. lastDelivered <= lastDelivered' /\ trimmed <= trimmed'
        /\ \A k \in 1..Len(stream) : Acked(k)' => Acked(k)
    BY <1>c, <2>1 DEF Acked
  <2> QED
    BY <1>9, <2>1, <2>2
<1>15. ASSUME NEW rest PROVE Continue(rest) \in {"handle", "read", "claim"}
  BY DEF Continue
<1>16. ASSUME NEW i \in batch, Execute(i) PROVE Reached'
  <2>1. /\ pc = "exec" /\ pc' \in {"trim", "handle", "read", "claim"} /\ ckpt' = mem
        /\ pending' = pending \ {i} /\ Oldest(i)
        /\ UNCHANGED <<stream, trimmed, lastDelivered, age, saved, mem, history>>
    BY <1>15, <1>16 DEF Execute, XAck
  <2>2. InState(ckpt) \subseteq InState(ckpt') /\ (~IsBar(i) \/ i \in InState(ckpt'))
    BY <2>1 DEF Reached
  <2>3. \A k \in 1..Len(stream) : Acked(k)' => Acked(k) \/ Explained(k)'
    BY <2>1, <2>2 DEF Acked, Explained, IsBar, InState
  <2>4. lastDelivered <= lastDelivered' /\ trimmed <= trimmed'
    BY <1>c, <2>1
  <2>5. Tracks(mem') /\ Tracks(ckpt')
    BY <1>c, <2>1
  <2> QED
    BY <1>a, <2>1, <2>2, <2>3, <2>4, <2>5, ReachedServing
<1>17. ASSUME NEW i \in batch, AckRejected(i) PROVE Reached'
  <2>1. /\ pc = "ack" /\ pc' \in {"handle", "read", "claim"}
        /\ pending' = pending \ {i}
        /\ dropped' = IF stream[i].kind = "bar" /\ ~Stale(i, FALSE)
                      THEN dropped \cup {i} ELSE dropped
        /\ UNCHANGED <<stream, trimmed, lastDelivered, age, saved, ckpt, mem, unread>>
    BY <1>15, <1>17 DEF AckRejected, XAck
  <2>2. ~IsBar(i) \/ stream[i].old \/ age[i] > MaxBarAge \/ i \in dropped'
    BY <2>1 DEF IsBar, Stale
  <2>3. \A k \in 1..Len(stream) : Acked(k)' => Acked(k) \/ Explained(k)'
    BY <2>1, <2>2 DEF Acked, Explained, IsBar, InState
  <2>4. lastDelivered <= lastDelivered' /\ trimmed <= trimmed'
    BY <1>c, <2>1
  <2> QED
    BY <1>a, <1>c, <2>1, <2>3, <2>4, ReachedServing
<1>18. ASSUME NEW n \in 0..MaxEntries, Trim(n) PROVE Reached'
  <2>1. /\ pc = "trim" /\ pc' \in {"handle", "read", "claim"}
        /\ trimmed <= trimmed'
        /\ UNCHANGED <<stream, lastDelivered, pending, age, saved, ckpt, mem, history>>
    BY <1>15, <1>18 DEF Trim
  <2>2. lastDelivered <= lastDelivered' /\ \A k \in 1..Len(stream) : Acked(k)' => Acked(k)
    BY <1>c, <2>1 DEF Acked
  <2> QED
    BY <1>9, <2>1, <2>2
<1> QED
  BY <1>0, <1>1, <1>2, <1>3, <1>4, <1>5, <1>6, <1>7, <1>8, <1>10, <1>11, <1>12, <1>13,
     <1>14, <1>16, <1>17, <1>18 DEF Next, Task

\* A bar that follows all of the state leaves one bucket open and completes at
\* most one, which has its row then.
LEMMA AcceptedInTurn ==
    ASSUME stream \in Seq(Entry), Len(stream) <= MaxEntries, Ordered,
           NEW s, StateOK(s), Sound(s), OneOpen(s),
           NEW i \in 1..Len(stream), ~OutOfOrder(s, i),
           \A j \in InState(s) : j < i
    PROVE  /\ OneOpen(Accepted(s, i))
           /\ (\A d \in s.done : HasRow(s, {}, d)) =>
                  \A d \in Accepted(s, i).done :
                      HasRow(Accepted(s, i), Output(s, Accepted(s, i)), d)
<1> DEFINE t == Accepted(s, i)
           b == BarBucket(i)
           open == s.open \cup {i}
           new == Sealed(open, b)
<1>1. /\ t.open = open \ Ready(open, b) /\ t.done = s.done \cup new
      /\ t.last = IF new = {} THEN s.last
                  ELSE (CHOOSE d \in new : \A e \in new : e.bucket <= d.bucket).bucket
  BY DEF Accepted
<1>2. /\ StateOK(t) /\ Sound(t) /\ Extends(s, t)
      /\ b \in Nat /\ s.open \subseteq 1..Len(stream)
      /\ \A k \in 1..Len(stream) : BarBucket(k) \in Nat
  BY AcceptedFacts, BucketType DEF StateOK
<1>3. ASSUME NEW k \in s.open PROVE BarBucket(k) <= b
  <2>1. k \in InState(s) /\ k \in 1..Len(stream)
    BY <1>2 DEF InState
  <2> QED
    BY <2>1 DEF Ordered
<1>4. \A k \in t.open : BarBucket(k) = b
  <2> SUFFICES ASSUME NEW k \in t.open PROVE BarBucket(k) = b
    OBVIOUS
  <2>1. k \in open /\ ~(BarBucket(k) < b)
    BY <1>1 DEF Ready
  <2>2. BarBucket(k) \in Nat /\ BarBucket(k) <= b
    BY <1>2, <1>3, <2>1
  <2> QED
    BY <1>2, <2>1, <2>2
<1>5. \A d, e \in new : d = e
  <2> SUFFICES ASSUME NEW d \in new, NEW e \in new PROVE d = e
    OBVIOUS
  <2> DEFINE F(j) == [bucket |-> BarBucket(j),
                      bars |-> {k \in open : BarBucket(k) = BarBucket(j)}]
  <2>1. PICK j \in Ready(open, b) : d = F(j)
    BY DEF Sealed
  <2>2. PICK k \in Ready(open, b) : e = F(k)
    BY DEF Sealed
  <2>3. j \in s.open /\ k \in s.open
    BY <1>2 DEF Ready
  <2>4. BarBucket(j) = BarBucket(k)
    BY <2>3 DEF OneOpen
  <2> QED
    BY <2>1, <2>2, <2>4
<1> HIDE DEF new, t
<1>6. OneOpen(t)
  BY <1>4 DEF OneOpen
<1>7. \A d \in t.done : d.bucket \in Nat /\ d.bucket <= t.last
  BY <1>2, ConstantsOK DEF StateOK, State, Completed, Sound
<1>8. ASSUME \A d \in s.done : HasRow(s, {}, d), NEW d \in t.done
      PROVE  HasRow(t, Output(s, t), d)
  <2>1. CASE d \in s.done
    <3>1. {e \in t.done : e.bucket <= d.bucket} = {e \in s.done : e.bucket <= d.bucket}
      <4>1. s.done \subseteq t.done
        BY <1>2 DEF Extends
      <4>2. ASSUME NEW e \in t.done \ s.done PROVE ~(e.bucket <= d.bucket)
        <5>1. d.bucket < e.bucket
          BY <1>2, <2>1 DEF Extends
        <5> QED
          BY <1>7, <2>1, <4>1, <5>1
      <4> QED
        BY <4>1, <4>2
    <3> QED
      BY <1>8, <2>1, <3>1 DEF HasRow
  <2>2. CASE d \notin s.done
    <3>1. d \in new
      BY <1>1, <2>2
    <3>2. t.last = d.bucket
      <4>1. \A e \in new : e.bucket <= d.bucket
        BY <1>5, <1>7, <3>1
      <4>2. \E f \in new : \A e \in new : e.bucket <= f.bucket
        BY <3>1, <4>1
      <4>3. (CHOOSE f \in new : \A e \in new : e.bucket <= f.bucket) \in new
        BY <4>2
      <4> QED
        BY <1>1, <1>5, <3>1, <4>3
    <3>3. {e \in t.done : e.bucket <= d.bucket} = t.done
      BY <1>7, <3>2
    <3>4. t.count = Cardinality(t.done) /\ t.count \in Nat
      BY <1>2 DEF Sound, StateOK, State
    <3>5. CASE t.count > Window
      BY <2>2, <3>2, <3>5 DEF HasRow, Output
    <3>6. CASE ~(t.count > Window)
      <4>1. Cardinality({e \in t.done : e.bucket <= d.bucket}) = t.count
        BY <3>3, <3>4
      <4>2. Cardinality({e \in t.done : e.bucket <= d.bucket}) <= Window
        BY <3>4, <3>6, <4>1, ConstantsOK
      <4> QED
        BY <4>2 DEF HasRow
    <3> QED
      BY <3>5, <3>6
  <2> QED
    BY <2>1, <2>2
<1> QED
  BY <1>6, <1>8 DEF t

LEMMA InitInTurn == Init => InTurn /\ RowsKept
BY DEF Init, InTurn, RowsKept, Running

\* Coming bars stay behind the state when nothing is computed.
LEMMA InTurnFrame ==
    ASSUME Typed, InTurn, restarts = 0, Running, Running',
           UNCHANGED <<stream, mem, covered>>,
           pending' = batch', batch' \subseteq 1..lastDelivered',
           pc' \in {"claim", "read"} => batch' = {},
           lastDelivered <= lastDelivered', lastDelivered' \in Int,
           \A i \in batch' : i \in batch \/ lastDelivered < i
    PROVE  InTurn'
<1>1. lastDelivered \in Int
  BY DEF Typed, TypeOK
<1>2. ASSUME covered', NEW i \in 1..Len(stream'), IsBar(i)', i \in batch' \/ lastDelivered' < i
      PROVE  i \in InState(mem)' \/ \A j \in InState(mem)' : j < i
  <2>1. IsBar(i) /\ (i \in batch \/ lastDelivered < i)
    BY <1>1, <1>2 DEF IsBar
  <2> QED
    BY <1>2, <2>1 DEF InTurn, InState
<1>3. covered' => OneOpen(mem)'
  BY DEF InTurn, OneOpen, BarBucket
<1>4. pc' # "replay"
  BY DEF Running
<1> QED
  BY <1>2, <1>3, <1>4 DEF InTurn

LEMMA NextInTurn ==
    Typed /\ Sealing /\ Reached /\ InTurn /\ RowsKept /\ [Next]_vars => InTurn' /\ RowsKept'
<1> SUFFICES ASSUME Typed, Sealing, Reached, InTurn, RowsKept, [Next]_vars
             PROVE  InTurn' /\ RowsKept'
  OBVIOUS
<1> USE DEF redis, task, history
<1>a. Typed' /\ Sealing'
  BY NextTyped, NextSealing DEF Sealing
<1>b. restarts' # 0 => InTurn' /\ RowsKept'
  BY DEF InTurn, RowsKept
<1>c. /\ stream \in Seq(Entry) /\ Len(stream) \in Nat /\ Len(stream) <= MaxEntries
      /\ lastDelivered \in -1..Len(stream) /\ lastDelivered \in Int /\ trimmed \in 0..Len(stream)
      /\ batch \subseteq 1..Len(stream) /\ pending \subseteq 1..Len(stream)
      /\ StateOK(mem) /\ StateOK(ckpt) /\ Sound(mem) /\ Sound(ckpt)
      /\ Ordered /\ Tracks(mem) /\ Tracks(ckpt) /\ restarts \in Nat
      /\ InState(mem) \subseteq 1..Len(stream)
  BY PositionType, InStateType DEF Typed, TypeOK, Sealing, Reached
\* Nothing changes for the rows while nothing is computed or committed.
<1>d. ASSUME UNCHANGED <<mem, ckpt, row, features, warmed, covered, restarts>>,
             Running' => Running
      PROVE  RowsKept'
  BY <1>d DEF RowsKept, HasRow
<1>0. CASE UNCHANGED vars
  <2>1. RowsKept'
    BY <1>0, <1>d DEF vars, Running
  <2> QED
    BY <1>0, <2>1 DEF vars, InTurn, Running, OneOpen, BarBucket, InState, IsBar
<1>1. ASSUME NEW k \in Kinds, NEW b \in Buckets, NEW v \in Venues, NEW old \in Olds,
             Publish(k, b, v, old), restarts = 0
      PROVE  InTurn' /\ RowsKept'
  <2>1. /\ UNCHANGED <<trimmed, lastDelivered, pending, age, idle, saved, ckpt, features,
                       task, restarts, history>>
        /\ stream' = Append(stream, [kind |-> k, bucket |-> b, venue |-> v, old |-> old])
    BY <1>1 DEF Publish
  <2>2. PICK n \in Nat : n = Len(stream) + 1
    BY <1>c
  <2>3. [kind |-> k, bucket |-> b, venue |-> v, old |-> old] \in Entry
    BY ConstantsOK DEF Entry
  <2>4. /\ Len(stream') = n
        /\ \A i \in 1..Len(stream) : stream'[i] = stream[i]
        /\ \A i \in 1..Len(stream') : i = n \/ i \in 1..Len(stream)
    BY <1>c, <2>1, <2>2, <2>3
  <2>5. RowsKept'
    BY <1>d, <2>1 DEF Running
  <2>6. OneOpen(mem) => OneOpen(mem)'
    <3>1. \A i \in mem.open : i \in 1..Len(stream)
      BY <1>c DEF StateOK
    <3>2. \A i \in 1..Len(stream) : BarBucket(i)' = BarBucket(i)
      BY <2>4 DEF BarBucket
    <3> QED
      BY <2>1, <3>1, <3>2 DEF OneOpen
  <2>7. InState(mem)' = InState(mem)
    BY <2>1 DEF InState
  <2>8. \A j \in InState(mem) \cup batch : j < n
    <3>1. \A j \in InState(mem) \cup batch : j \in 1..Len(stream)
      BY <1>c
    <3> QED
      BY <1>c, <2>2, <3>1
  <2>9. \A i \in 1..Len(stream) : IsBar(i)' = IsBar(i)
    BY <2>4 DEF IsBar
  <2>10. ASSUME pc = "replay", covered, NEW i \in 1..Len(stream'), IsBar(i)', unread < i
         PROVE  i \in InState(mem) \cup batch \/ \A j \in InState(mem) \cup batch : j < i
    BY <1>1, <2>4, <2>8, <2>9, <2>10 DEF InTurn
  <2>11. ASSUME Running, covered, NEW i \in 1..Len(stream'), IsBar(i)',
                i \in batch \/ lastDelivered < i
         PROVE  i \in InState(mem) \/ \A j \in InState(mem) : j < i
    BY <1>1, <2>4, <2>8, <2>9, <2>11 DEF InTurn
  <2> QED
    BY <1>1, <2>1, <2>5, <2>6, <2>7, <2>10, <2>11 DEF InTurn, Running
<1>2. CASE Tick
  <2>1. UNCHANGED <<stream, trimmed, lastDelivered, pending, saved, ckpt, features,
                    task, restarts, history>>
    BY <1>2 DEF Tick
  <2>2. RowsKept'
    BY <1>d, <2>1 DEF Running
  <2> QED
    BY <2>1, <2>2 DEF InTurn, Running, OneOpen, BarBucket, InState, IsBar
<1>3. CASE Start
  <2>1. pc = "down" /\ pc' = "group" /\ UNCHANGED <<redis, restarts, history>>
    BY <1>3 DEF Start
  <2> QED
    BY <2>1 DEF InTurn, RowsKept, Running
<1>4. CASE EnsureGroup
  <2>1. /\ pc = "group" /\ pc' = IF saved THEN "claim" ELSE "history"
        /\ UNCHANGED <<trimmed, pending, saved, restarts>>
    BY <1>4 DEF EnsureGroup
  <2>2. restarts = 0 => ~saved
    BY <2>1 DEF InTurn, Running
  <2> QED
    BY <2>1, <2>2 DEF InTurn, RowsKept, Running
<1>5. ASSUME ReadHistory, restarts = 0 PROVE InTurn' /\ RowsKept'
  <2>1. /\ pc = "history" /\ pc' = "replay"
        /\ batch' = {i \in 1..Len(stream) : trimmed < i /\ i > Len(stream) - ReplayCount}
        /\ unread' = Len(stream) - ReplayCount
        /\ covered' = (Len(stream) - ReplayCount <= lastDelivered)
        /\ UNCHANGED <<redis, restarts, mem>>
    BY <1>5 DEF ReadHistory
  <2>2. mem = EmptyState /\ trimmed = 0 /\ pending = {} /\ ~saved
    BY <1>5, <2>1 DEF Sealing, InTurn, Running
  <2>3. OneOpen(mem)'
    BY <2>1, <2>2, EmptyFacts DEF OneOpen
  <2>4. \A i \in 1..Len(stream) : unread' < i => i \in batch'
    <3>1. ReplayCount \in Int
      BY ConstantsOK
    <3> QED
      BY <1>c, <2>1, <2>2, <3>1
  <2>5. covered' => unread' <= lastDelivered'
    BY <2>1
  <2> QED
    BY <2>1, <2>2, <2>3, <2>4, <2>5 DEF InTurn, RowsKept, Running
<1>6. ASSUME NEW i \in batch, ReplayBar(i), restarts = 0 PROVE InTurn' /\ RowsKept'
  <2>1. /\ pc = "replay" /\ pc' = "replay" /\ batch' = batch \ {i}
        /\ mem' = IF Accepts(mem, i, TRUE) THEN Accepted(mem, i) ELSE mem
        /\ UNCHANGED <<redis, restarts, history>>
    BY <1>6 DEF ReplayBar
  <2>2. \A j \in InState(mem) : j < i
    BY <2>1 DEF Reached
  <2>3. ~OutOfOrder(mem, i) /\ (BarBucket(i) = Seen(mem, i) => i \in InState(mem))
    <3>1. PICK r \in BOOLEAN : r = TRUE
      OBVIOUS
    <3> QED
      BY <1>c, <2>2, InTurnFacts
  <2>4. IsBar(i) => Accepts(mem, i, TRUE) \/ i \in InState(mem)
    BY <2>3 DEF Accepts, Rejects, Ignores, Stale, IsBar
  <2>5. /\ InState(mem') \subseteq InState(mem) \cup {i} /\ InState(mem) \subseteq InState(mem')
        /\ IsBar(i) => i \in InState(mem')
        /\ OneOpen(mem')
    <3>1. OneOpen(mem)
      BY <1>6, <2>1 DEF InTurn
    <3>2. CASE Accepts(mem, i, TRUE)
      <4>1. mem' = Accepted(mem, i)
        BY <2>1, <3>2
      <4> QED
        BY <1>c, <2>2, <2>3, <3>1, <4>1, InStateAccepted, AcceptedInTurn
    <3>3. CASE ~Accepts(mem, i, TRUE)
      BY <2>1, <2>4, <3>1, <3>3
    <3> QED
      BY <3>2, <3>3
  <2>6. OneOpen(mem)' /\ InState(mem)' = InState(mem')
    BY <2>1, <2>5 DEF OneOpen, BarBucket, InState
  <2>7. ASSUME covered', NEW k \in 1..Len(stream), IsBar(k), unread < k
        PROVE  \/ k \in InState(mem') \cup batch'
               \/ \A j \in InState(mem') \cup batch' : j < k
    <3>1. k \in InState(mem) \cup batch \/ \A j \in InState(mem) \cup batch : j < k
      BY <1>6, <2>1, <2>7 DEF InTurn
    <3>2. CASE k \in InState(mem) \cup batch
      BY <2>1, <2>5, <2>7, <3>2
    <3>3. CASE \A j \in InState(mem) \cup batch : j < k
      BY <2>1, <2>5, <3>3
    <3> QED
      BY <3>1, <3>2, <3>3
  <2>8. covered' => unread' <= lastDelivered'
    BY <1>6, <2>1 DEF InTurn
  <2>9. \A k : IsBar(k)' = IsBar(k)
    BY <2>1 DEF IsBar
  <2>10. pending' = {} /\ trimmed' = 0 /\ ~saved'
    BY <1>6, <2>1 DEF InTurn, Running
  <2> QED
    BY <2>1, <2>6, <2>7, <2>8, <2>9, <2>10 DEF InTurn, RowsKept, Running
<1>7. ASSUME SaveState, restarts = 0 PROVE InTurn' /\ RowsKept'
  <2>1. /\ pc = "replay" /\ pc' = "claim" /\ batch = {} /\ ckpt' = mem /\ warmed' = mem.last
        /\ UNCHANGED <<stream, lastDelivered, pending, mem, batch, restarts, unread, covered>>
    BY <1>7 DEF SaveState
  <2>2. pending = {} /\ OneOpen(mem)
    BY <1>7, <2>1 DEF InTurn, Running
  <2>3. OneOpen(mem)' /\ InState(mem)' = InState(mem)
    BY <2>1, <2>2 DEF OneOpen, BarBucket, InState
  <2>4. ASSUME covered, NEW i \in 1..Len(stream), IsBar(i), i \in batch \/ lastDelivered < i
        PROVE  i \in InState(mem) \/ \A j \in InState(mem) : j < i
    <3>1. unread <= lastDelivered /\ lastDelivered < i /\ unread \in Int
      BY <1>7, <2>1, <2>4 DEF InTurn, Typed, TypeOK
    <3>2. unread < i
      BY <1>c, <3>1
    <3> QED
      BY <1>7, <2>1, <2>4, <3>2 DEF InTurn
  <2>5. \A i : IsBar(i)' = IsBar(i)
    BY <2>1 DEF IsBar
  <2>6. \A d \in mem.done : d.bucket <= warmed'
    BY <1>c, <2>1 DEF Sound
  <2>7. RowsKept'
    BY <2>1, <2>6 DEF RowsKept, HasRow
  <2> QED
    BY <2>1, <2>2, <2>3, <2>4, <2>5, <2>7 DEF InTurn, Running
<1>8. CASE Crash
  <2>1. restarts' # 0
    BY <1>c, <1>8 DEF Crash
  <2> QED
    BY <1>b, <2>1
<1>9. ASSUME Claim, restarts = 0 PROVE InTurn' /\ RowsKept'
  <2>1. /\ pc = "claim" /\ pc' \in {"handle", "read"} /\ batch' \subseteq pending
        /\ (batch' = {} => pc' = "read") /\ (batch' # {} => pc' = "handle")
        /\ pending' \subseteq pending
        /\ UNCHANGED <<stream, lastDelivered, mem, ckpt, row, features, restarts, history>>
    BY <1>9 DEF Claim, Deliver
  <2>2. pending = {}
    BY <1>9, <2>1 DEF InTurn, Running
  <2>3. pending' = {} /\ batch' = {} /\ Running /\ Running'
    BY <2>1, <2>2 DEF Running
  <2> QED
    BY <1>9, <1>c, <1>d, <2>1, <2>3, InTurnFrame
<1>10. ASSUME Read, restarts = 0 PROVE InTurn' /\ RowsKept'
  <2> DEFINE from == IF lastDelivered < trimmed THEN trimmed ELSE lastDelivered
             upTo == IF from + ReadCount < Len(stream) THEN from + ReadCount ELSE Len(stream)
             entries == {i \in Ids : from < i /\ i <= upTo}
  <2>1. /\ pc = "read" /\ pc' = IF entries = {} THEN "claim" ELSE "handle"
        /\ batch' = entries /\ pending' = pending \cup entries
        /\ lastDelivered' = IF entries = {} THEN lastDelivered ELSE upTo
        /\ UNCHANGED <<stream, mem, ckpt, row, features, restarts, history>>
    BY <1>10 DEF Read, Deliver
  <2>2. from \in Int /\ upTo \in Int /\ lastDelivered <= from /\ from <= upTo
    BY <1>c, ConstantsOK
  <2>3. lastDelivered <= lastDelivered' /\ lastDelivered' \in Int
    BY <1>c, <2>1, <2>2
  <2>4. \A i \in entries : lastDelivered < i /\ i \in 1..upTo
    BY <1>c, <2>2 DEF Ids
  <2> HIDE DEF entries, upTo, from
  <2>5. pending = {} /\ Running /\ Running'
    BY <1>10, <2>1 DEF InTurn, Running
  <2>6. pending' = batch' /\ batch' \subseteq 1..lastDelivered'
    BY <2>1, <2>4, <2>5
  <2>7. pc' \in {"claim", "read"} => batch' = {}
    BY <2>1
  <2>8. \A i \in batch' : i \in batch \/ lastDelivered < i
    BY <2>1, <2>4
  <2>9. InTurn'
    BY <1>10, <2>1, <2>3, <2>5, <2>6, <2>7, <2>8, InTurnFrame
  <2> QED
    BY <1>d, <2>1, <2>5, <2>9
<1>11. ASSUME restarts = 0, Running, pc' \in {"exec", "ack"}, pc # "claim", pc # "read",
              UNCHANGED <<stream, mem, lastDelivered, pending, batch, covered>>
       PROVE  InTurn'
  <2>1. pending = batch /\ batch \subseteq 1..lastDelivered /\ Running'
    BY <1>11 DEF InTurn, Running
  <2> QED
    BY <1>11, <1>c, <2>1, InTurnFrame
<1>12. ASSUME NEW i \in batch, Ignore(i), restarts = 0 PROVE InTurn' /\ RowsKept'
  <2>1. /\ pc = "handle" /\ pc' = "exec" /\ mem' = mem /\ row' = {}
        /\ UNCHANGED <<redis, batch, restarts, history>>
    BY <1>12 DEF Ignore, Handling, Buffer
  <2>2. mem = ckpt /\ Running /\ Running'
    BY <2>1 DEF Sealing, Running
  <2>3. RowsKept'
    BY <2>1, <2>2 DEF RowsKept, HasRow
  <2> QED
    BY <1>11, <1>12, <2>1, <2>2, <2>3
<1>13. ASSUME NEW i \in batch, Accept(i), restarts = 0 PROVE InTurn' /\ RowsKept'
  <2>1. /\ pc = "handle" /\ pc' = "exec" /\ mem' = Accepted(mem, i) /\ Accepts(mem, i, FALSE)
        /\ row' = Output(mem, Accepted(mem, i)) /\ Oldest(i)
        /\ UNCHANGED <<redis, batch, restarts, history>>
    BY <1>13 DEF Accept, Handling, Buffer
  <2>2. mem = ckpt /\ Running /\ Running'
    BY <2>1 DEF Sealing, Running
  <2>3. ~OutOfOrder(mem, i) /\ i \in 1..Len(stream) /\ i \notin InState(mem)
    <3>1. PICK r \in BOOLEAN : r = FALSE
      OBVIOUS
    <3>2. ~OutOfOrder(mem, i)
      BY <2>1, AcceptsInOrder
    <3>3. i \in InState(mem) => ~Accepts(mem, i, r)
      BY <1>c, InTurnFacts
    <3> QED
      BY <1>c, <2>1, <3>1, <3>2, <3>3
  <2>4. IsBar(i)
    <3>1. stream[i].kind \in {"bar", "bad", "other"}
      <4>1. stream[i] \in Entry
        BY <1>c, <2>3
      <4> QED
        BY <4>1, ConstantsOK DEF Entry
    <3> QED
      BY <2>1, <3>1 DEF Accepts, Rejects, Ignores, IsBar
  <2>5. batch \subseteq 1..lastDelivered /\ pending = batch
    BY <1>13, <2>2 DEF InTurn
  <2>6. InTurn'
    <3>1. ASSUME covered
          PROVE  OneOpen(mem') /\ \A j \in InState(mem) : j < i
      <4>1. OneOpen(mem) /\ \A j \in InState(mem) : j < i
        BY <1>13, <2>2, <2>3, <2>4, <3>1 DEF InTurn
      <4>2. OneOpen(Accepted(mem, i))
        BY <1>c, <2>3, <4>1, AcceptedInTurn
      <4> QED
        BY <2>1, <4>1, <4>2
    <3>2. OneOpen(mem)' <=> OneOpen(mem')
      BY <2>1 DEF OneOpen, BarBucket
    <3>3. InState(mem)' = InState(mem) \cup {i}
      <4>1. InState(mem') = InState(mem) \cup {i}
        BY <1>c, <2>1, <2>3, InStateAccepted
      <4> QED
        BY <4>1 DEF InState
    <3>4. ASSUME covered, NEW k \in 1..Len(stream), IsBar(k), k \in batch \/ lastDelivered < k
          PROVE  k \in InState(mem)' \/ \A j \in InState(mem)' : j < k
      <4>1. k = i \/ i < k
        BY <1>c, <2>1, <2>5, <3>4 DEF Oldest
      <4>2. k \in InState(mem) \/ \A j \in InState(mem) : j < k
        BY <1>13, <2>2, <3>4 DEF InTurn
      <4> QED
        BY <3>3, <4>1, <4>2
    <3>5. \A k : IsBar(k)' = IsBar(k)
      BY <2>1 DEF IsBar
    <3> QED
      BY <1>13, <2>1, <2>2, <2>5, <3>1, <3>2, <3>3, <3>4, <3>5 DEF InTurn, Running
  <2>7. RowsKept'
    <3> SUFFICES ASSUME covered PROVE /\ \A d \in ckpt.done : HasRow(ckpt, {}, d)'
                                      /\ \A d \in mem'.done : HasRow(mem, row, d)'
      BY <2>1 DEF RowsKept
    <3>1. OneOpen(mem) /\ \A j \in InState(mem) : j < i
      BY <1>13, <2>2, <2>3, <2>4 DEF InTurn
    <3>2. \A d \in mem.done : HasRow(mem, {}, d)
      BY <1>13, <2>2 DEF RowsKept
    <3>3. \A d \in mem'.done : HasRow(mem', row', d)
      BY <1>c, <2>1, <2>3, <3>1, <3>2, AcceptedInTurn
    <3>4. \A d \in ckpt.done : HasRow(ckpt, {}, d)'
      BY <2>1, <2>2, <3>2 DEF HasRow
    <3>5. \A d \in mem'.done : HasRow(mem, row, d)'
      BY <2>1, <3>3 DEF HasRow
    <3> QED
      BY <3>4, <3>5
  <2> QED
    BY <2>6, <2>7
<1>14. ASSUME NEW i \in batch, Reject(i), restarts = 0 PROVE InTurn' /\ RowsKept'
  <2>1. /\ pc = "handle" /\ pc' = "ack"
        /\ UNCHANGED <<redis, batch, mem, row, restarts, history>>
    BY <1>14 DEF Reject, Handling
  <2> QED
    BY <1>11, <1>14, <1>d, <2>1 DEF Running
<1>15. ASSUME NEW rest
       PROVE  /\ Continue(rest) \in {"handle", "read", "claim"}
              /\ Continue(rest) \in {"claim", "read"} => rest = {}
  BY DEF Continue
<1>16. ASSUME NEW i \in batch, Execute(i), restarts = 0 PROVE InTurn' /\ RowsKept'
  <2>1. /\ pc = "exec" /\ pending' = pending \ {i} /\ batch' = batch \ {i}
        /\ ckpt' = mem /\ row' = {}
        /\ pc' \in {"trim", "handle", "read", "claim"}
        /\ pc' \in {"claim", "read"} => batch' = {}
        /\ UNCHANGED <<stream, lastDelivered, mem, restarts, history>>
    BY <1>15, <1>16 DEF Execute, XAck
  <2>2. Running /\ Running' /\ pending = batch /\ batch \subseteq 1..lastDelivered
    BY <1>16, <2>1 DEF InTurn, Running
  <2>3. lastDelivered <= lastDelivered' /\ lastDelivered' \in Int
    BY <1>c, <2>1
  <2>4. InTurn'
    BY <1>16, <2>1, <2>2, <2>3, InTurnFrame
  <2>5. \A k \in 1..Len(features) : k \in 1..Len(features') /\ features'[k] = features[k]
    <3>1. features \in Seq(Completed) /\ row \subseteq Completed
      BY DEF Typed, TypeOK
    <3>2. features' = features \/ \E d \in row : features' = Append(features, d)
      BY <1>16 DEF Execute
    <3> QED
      BY <3>1, <3>2
  <2>6. \A d \in row : \E k \in 1..Len(features') : features'[k] = d
    <3> SUFFICES ASSUME NEW d \in row PROVE \E k \in 1..Len(features') : features'[k] = d
      OBVIOUS
    <3>1. PICK e \in row : features' = Append(features, e)
      BY <1>16 DEF Execute
    <3>2. d = e
      BY <1>c, <2>1, <3>1 DEF Sealing, Sound
    <3>3. features \in Seq(Completed) /\ e \in Completed
      BY <3>1 DEF Typed, TypeOK
    <3> QED
      BY <3>1, <3>2, <3>3
  <2>7. RowsKept'
    <3> SUFFICES ASSUME covered, NEW d \in mem.done
                 PROVE  HasRow(mem, {}, d)'
      BY <2>1 DEF RowsKept, HasRow
    <3>1. HasRow(mem, row, d)
      BY <1>16, <2>2 DEF RowsKept
    <3>2. (\E k \in 1..Len(features) : features[k] = d) =>
              \E k \in 1..Len(features') : features'[k] = d
      BY <2>5
    <3> QED
      BY <2>1, <2>6, <3>1, <3>2 DEF HasRow
  <2> QED
    BY <2>4, <2>7
<1>17. ASSUME NEW i \in batch, AckRejected(i), restarts = 0 PROVE InTurn' /\ RowsKept'
  <2>1. /\ pc = "ack" /\ pending' = pending \ {i} /\ batch' = batch \ {i}
        /\ pc' \in {"handle", "read", "claim"}
        /\ pc' \in {"claim", "read"} => batch' = {}
        /\ UNCHANGED <<stream, lastDelivered, mem, ckpt, row, features, restarts, warmed,
                       covered>>
    BY <1>15, <1>17 DEF AckRejected, XAck
  <2>2. Running /\ Running' /\ pending = batch /\ batch \subseteq 1..lastDelivered
    BY <1>17, <2>1 DEF InTurn, Running
  <2>3. lastDelivered <= lastDelivered' /\ lastDelivered' \in Int
    BY <1>c, <2>1
  <2>4. InTurn'
    BY <1>17, <2>1, <2>2, <2>3, InTurnFrame
  <2> QED
    BY <1>d, <2>1, <2>2, <2>4
<1>18. ASSUME NEW n \in 0..MaxEntries, Trim(n), restarts = 0 PROVE InTurn' /\ RowsKept'
  <2>1. /\ pc = "trim" /\ pc' \in {"handle", "read", "claim"}
        /\ pc' \in {"claim", "read"} => batch' = {} /\ batch' = batch
        /\ UNCHANGED <<stream, lastDelivered, pending, batch, mem, ckpt, row, features, restarts,
                       history>>
    BY <1>15, <1>18 DEF Trim
  <2>2. Running /\ Running' /\ pending = batch /\ batch \subseteq 1..lastDelivered
    BY <1>18, <2>1 DEF InTurn, Running
  <2>3. lastDelivered <= lastDelivered' /\ lastDelivered' \in Int
    BY <1>c, <2>1
  <2>4. InTurn'
    BY <1>18, <2>1, <2>2, <2>3, InTurnFrame
  <2> QED
    BY <1>d, <2>1, <2>2, <2>4
<1>19. restarts' = 0 => restarts = 0
  <2>1. CASE Task
    BY <2>1 DEF Task, Start, EnsureGroup, ReadHistory, ReplayBar, SaveState, Claim, Read,
       Deliver, Ignore, Accept, Reject, Buffer, Execute, AckRejected, Trim
  <2>2. CASE Crash
    BY <1>c, <2>2 DEF Crash
  <2>3. CASE UNCHANGED vars \/ Tick
    BY <2>3 DEF vars, Tick
  <2>4. ASSUME NEW k \in Kinds, NEW b \in Buckets, NEW v \in Venues, NEW old \in Olds,
               Publish(k, b, v, old)
        PROVE  restarts' = restarts
    BY <2>4 DEF Publish
  <2> QED
    BY <2>1, <2>2, <2>3, <2>4 DEF Next
<1> QED
  BY <1>0, <1>1, <1>2, <1>3, <1>4, <1>5, <1>6, <1>7, <1>8, <1>9, <1>10, <1>12, <1>13,
     <1>14, <1>16, <1>17, <1>18, <1>19, <1>b DEF Next, Task

LEMMA ReachedInvariance == Spec => [](Typed /\ Sealing /\ Reached /\ InTurn /\ RowsKept)
<1>1. Init => Reached /\ InTurn /\ RowsKept
  BY InitReached, InitInTurn
<1>2. Typed /\ Sealing /\ Reached /\ InTurn /\ RowsKept /\ [Next]_vars
        => (Reached /\ InTurn /\ RowsKept)'
  BY NextReached, NextInTurn
<1> QED
  BY <1>1, <1>2, Invariance, PTL DEF Spec

\* Once the state is saved, every fresh bar of the stream is in the state, still
\* to be delivered, rejected, trimmed or older than what the warm-up read: group
\* creation before the warm-up leaves no gap between them.
THEOREM NoBarSkipped == Spec => []NothingSkipped
<1>1. Reached => NothingSkipped
  BY DEF Reached
<1> QED
  BY <1>1, ReachedInvariance, PTL

\* While the process is not restarted, every bucket completed after the warm-up
\* is published, however the bars are batched and trimmed.
THEOREM EveryRowPublished == Spec => []RowsComplete
<1>1. Sealing /\ InTurn /\ RowsKept => RowsComplete
  <2> SUFFICES ASSUME Sealing, InTurn, RowsKept, restarts = 0, covered
               PROVE  \A d \in ckpt.done : HasRow(ckpt, {}, d)
    BY DEF RowsComplete, HasRow
  <2>1. CASE Running
    BY <2>1 DEF RowsKept
  <2>2. CASE ~Running
    BY <2>2, EmptyFacts DEF InTurn, Sealing
  <2> QED
    BY <2>1, <2>2
<1> QED
  BY <1>1, ReachedInvariance, PTL

=============================================================================
