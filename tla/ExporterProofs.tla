--------------------------- MODULE ExporterProofs ---------------------------
(***************************************************************************)
(* What holds of Exporter for every value of its constants: its types, that *)
(* an entry is stored, then acknowledged, then trimmed, for any number of    *)
(* workers and whatever fails, and that the retention window survives.      *)
(***************************************************************************)
EXTENDS Exporter, TLAPS, WellFoundedInduction, SequenceTheorems, FiniteSetTheorems

-----------------------------------------------------------------------------
(* Sets of naturals *)

LEMMA MinExists ==
    ASSUME NEW S \in SUBSET Nat, S # {}
    PROVE  \E m \in S : \A x \in S : m <= x
<1> DEFINE less == {p \in Nat \X Nat : p[1] < p[2]}
<1>1. IsWellFoundedOn(less, Nat)
  BY NatLessThanWellFounded DEF OpToRel
<1>2. PICK m \in S : \A x \in S : <<x, m>> \notin less
  <2> HIDE DEF less
  <2> QED
    BY <1>1, WFMin
<1>3. ASSUME NEW x \in S PROVE m <= x
  <2>1. <<x, m>> \notin less /\ <<x, m>> \in Nat \X Nat
    BY <1>2
  <2>2. ~(x < m)
    BY <2>1
  <2> QED
    BY <2>2
<1> QED
  BY <1>3

LEMMA MaxExists ==
    ASSUME NEW S \in SUBSET Nat, S # {}, NEW b \in Nat, \A x \in S : x <= b
    PROVE  \E m \in S : \A x \in S : x <= m
<1> DEFINE T == {b - x : x \in S}
<1>1. T \subseteq Nat /\ T # {}
  <2>1. \A x \in S : b - x \in Nat
    OBVIOUS
  <2>2. PICK x \in S : TRUE
    OBVIOUS
  <2>3. b - x \in T
    OBVIOUS
  <2> QED
    BY <2>1, <2>3
<1>2. PICK y \in T : \A z \in T : y <= z
  <2> HIDE DEF T
  <2> QED
    BY <1>1, MinExists
<1>3. PICK m \in S : y = b - m
  OBVIOUS
<1>4. \A x \in S : b - x \in T
  OBVIOUS
<1> HIDE DEF T
<1>5. ASSUME NEW x \in S PROVE x <= m
  <2>1. b - m <= b - x
    BY <1>2, <1>3, <1>4
  <2> QED
    BY <2>1
<1> QED
  BY <1>5

-----------------------------------------------------------------------------
(* The rows that stay in the buffer *)

LEMMA WithoutFacts ==
    ASSUME NEW S, NEW rows \in Seq(S), NEW ids
    PROVE  /\ Without(rows, ids) \in Seq(S)
           /\ \A n \in 1..Len(Without(rows, ids)) :
                  \E k \in 1..Len(rows) : Without(rows, ids)[n] = rows[k] /\ rows[k] \notin ids
           /\ \A k \in 1..Len(rows) : rows[k] \notin ids =>
                  \E n \in 1..Len(Without(rows, ids)) : Without(rows, ids)[n] = rows[k]
<1> DEFINE kept == {k \in DOMAIN rows : rows[k] \notin ids}
           Before(k) == {m \in kept : m <= k}
           Rank(k) == Cardinality(Before(k))
           Nth(n) == CHOOSE k \in kept : Rank(k) = n
           size == Cardinality(kept)
<1>1. /\ DOMAIN rows = 1..Len(rows) /\ Len(rows) \in Nat
      /\ kept \subseteq 1..Len(rows)
  OBVIOUS
<1>2. IsFiniteSet(kept) /\ \A k : IsFiniteSet(Before(k))
  <2>1. IsFiniteSet(1..Len(rows))
    BY <1>1, FS_Interval
  <2>2. IsFiniteSet(kept)
    BY <1>1, <2>1, FS_Subset
  <2>3. \A k : Before(k) \subseteq kept
    OBVIOUS
  <2> HIDE DEF kept, Before
  <2> QED
    BY <2>2, <2>3, FS_Subset
<1>3. size \in Nat /\ \A k : Rank(k) \in Nat
  <2> HIDE DEF kept, Before
  <2> QED
    BY <1>2, FS_CardinalityType
<1>4. ASSUME NEW k \in kept PROVE Rank(k) = Rank(k - 1) + 1
  <2>1. k \in Nat /\ \A m \in kept : m \in Nat
    BY <1>1
  <2>2. Before(k) = Before(k - 1) \cup {k} /\ k \notin Before(k - 1)
    BY <2>1
  <2> HIDE DEF kept, Before
  <2> QED
    BY <1>2, <2>2, FS_AddElement
<1>5. ASSUME NEW k \in Nat, k \notin kept PROVE Rank(k) = Rank(k - 1)
  <2>1. Before(k) = Before(k - 1)
    BY <1>1, <1>5
  <2> QED
    BY <2>1
<1>6. Rank(0) = 0 /\ Rank(Len(rows)) = size
  <2>1. Before(0) = {} /\ Before(Len(rows)) = kept
    BY <1>1
  <2> QED
    BY <2>1, FS_EmptySet
<1>7. ASSUME NEW k \in Nat, NEW m \in Nat, k <= m PROVE Rank(k) <= Rank(m)
  <2>1. Before(k) \subseteq Before(m)
    BY <1>1, <1>7
  <2> HIDE DEF kept, Before
  <2> QED
    BY <1>2, <2>1, FS_Subset
<1>8. ASSUME NEW k \in kept PROVE Rank(k) \in 1..size
  <2>1. k \in Nat /\ k <= Len(rows) /\ Len(rows) \in Nat /\ k - 1 \in Nat
    BY <1>1
  <2>2. Rank(k) <= size /\ Rank(k - 1) \in Nat /\ Rank(k) \in Nat
    BY <2>1, <1>3, <1>6, <1>7
  <2> HIDE DEF Rank, size
  <2> QED
    BY <1>3, <1>4, <2>2
<1>9. ASSUME NEW k \in kept, NEW m \in kept, Rank(k) = Rank(m) PROVE k = m
  <2>1. k \in Nat /\ m \in Nat /\ k - 1 \in Nat /\ m - 1 \in Nat
    BY <1>1
  <2>2. Rank(k) = Rank(k - 1) + 1 /\ Rank(m) = Rank(m - 1) + 1
    BY <1>4
  <2>3. /\ k <= m - 1 => Rank(k) <= Rank(m - 1)
        /\ m <= k - 1 => Rank(m) <= Rank(k - 1)
    BY <2>1, <1>7
  <2>4. Rank(k) \in Nat /\ Rank(m) \in Nat /\ Rank(k - 1) \in Nat /\ Rank(m - 1) \in Nat
    BY <1>3
  <2>5. Rank(k) = Rank(m)
    BY <1>9
  <2>6. ~(k <= m - 1)
    <3> HIDE DEF Rank
    <3> QED
      BY <2>2, <2>3, <2>4, <2>5
  <2>7. ~(m <= k - 1)
    <3> HIDE DEF Rank
    <3> QED
      BY <2>2, <2>3, <2>4, <2>5
  <2> QED
    BY <2>1, <2>6, <2>7
<1>10. ASSUME NEW n \in 1..size PROVE Nth(n) \in kept /\ Rank(Nth(n)) = n
  <2> SUFFICES \E k \in kept : Rank(k) = n
    OBVIOUS
  <2> DEFINE T == {k \in Nat : n <= Rank(k)}
  <2>1. Len(rows) \in T
    BY <1>1, <1>3, <1>6
  <2>2. PICK k \in T : \A m \in T : k <= m
    <3> HIDE DEF Rank
    <3>1. T \in SUBSET Nat /\ T # {}
      BY <2>1
    <3> HIDE DEF T
    <3> QED
      BY <3>1, MinExists
  <2>3. k \in Nat /\ n <= Rank(k) /\ n \in Nat /\ n >= 1
    BY <1>3
  <2>4. k - 1 \in Nat
    <3> HIDE DEF Rank
    <3> QED
      BY <1>6, <2>3
  <2>5. Rank(k - 1) < n
    <3> HIDE DEF Rank
    <3>1. k - 1 \notin T
      BY <2>2, <2>3
    <3> QED
      BY <1>3, <2>3, <2>4, <3>1
  <2> HIDE DEF Rank, kept, T
  <2>6. k \in kept
    BY <1>3, <1>5, <2>3, <2>5
  <2>7. Rank(k) = n
    BY <1>3, <1>4, <2>3, <2>5, <2>6
  <2> QED
    BY <2>6, <2>7
<1>11. Without(rows, ids) = [n \in 1..size |-> rows[Nth(n)]]
  BY DEF Without
<1>12. /\ Without(rows, ids) \in Seq(S) /\ Len(Without(rows, ids)) = size
       /\ \A n \in 1..size : Without(rows, ids)[n] = rows[Nth(n)]
  <2>1. \A n \in 1..size : rows[Nth(n)] \in S
    <3>1. \A k \in 1..Len(rows) : rows[k] \in S
      OBVIOUS
    <3> HIDE DEF Nth, size
    <3> QED
      BY <1>1, <1>10, <3>1
  <2> HIDE DEF Nth, size
  <2> QED
    BY <1>3, <1>11, <2>1
<1>13. \A n \in 1..size : Nth(n) \in 1..Len(rows) /\ rows[Nth(n)] \notin ids
  BY <1>1, <1>10
<1>14. ASSUME NEW k \in 1..Len(rows), rows[k] \notin ids
       PROVE  \E n \in 1..size : rows[Nth(n)] = rows[k]
  <2>1. k \in kept
    BY <1>1, <1>14
  <2>2. Rank(k) \in 1..size
    BY <1>8, <2>1
  <2>3. Nth(Rank(k)) = k
    <3> HIDE DEF Rank, kept, size, Nth
    <3>1. Nth(Rank(k)) \in kept /\ Rank(Nth(Rank(k))) = Rank(k)
      BY <1>10, <2>2
    <3> QED
      BY <1>9, <2>1, <3>1
  <2> QED
    BY <2>2, <2>3
<1> HIDE DEF Nth, size
<1> QED
  BY <1>12, <1>13, <1>14

-----------------------------------------------------------------------------
(* The invariant *)

\* TypeOK for everything but the workers, with what TypeOK leaves out: the
\* stream is in time order and what is pending was delivered.
Shared ==
    /\ stream \in Seq(Entry) /\ Len(stream) <= MaxEntries
    /\ \A i, j \in Published : i <= j => stream[i].ms <= stream[j].ms
    /\ trimmed \in 0..MaxEntries /\ lastDelivered \in 0..Len(stream)
    /\ pending \subseteq 1..lastDelivered /\ idle \in [Ids -> 0..PendingIdle]
    /\ objects \subseteq Objects /\ letters \subseteq Ids
    /\ faults \in 0..MaxFaults

\* A process holds delivered entries only, and flushes partitions it has rows of.
Shape(s) ==
    /\ s \in Worker
    /\ s.todo \subseteq 1..lastDelivered
    /\ s.buffer \in Seq(1..lastDelivered)
    /\ s.pc \in {"upload", "ack"} => s.plan # {} /\ s.plan \subseteq PartsOf(Rows(s))

\* An entry that may be trimmed as far as the retention goes.
Old(i) == \E j \in Published : Acked(j) /\ stream[i].ms + Retention < stream[j].ms

\* What a process has done by the time it is at an await.
Claims(s) ==
    /\ s.pc = "ack" => \A i \in GroupIds(s) : Stored(i)
    /\ s.pc \in {"letter", "ackone"} => s.todo # {}
    /\ s.pc = "letter" => stream[FirstOf(s.todo)].kind = "malformed"
    /\ s.pc = "ackone" => Stored(FirstOf(s.todo))
    /\ \A i \in s.exported : Acked(i)
    /\ s.pc = "xinfo" => s.exported # {}
    /\ s.pc \in {"xpending", "xtrim"} => /\ s.cut < lastDelivered
                                        /\ \A i \in 1..s.cut : Old(i)
    /\ s.pc = "xtrim" => \A i \in 1..s.cut : Acked(i)

Inductive ==
    /\ Shared
    /\ worker \in [Workers -> Worker]
    /\ \A w \in Workers : Shape(worker[w]) /\ Claims(worker[w])
    /\ AckAfterStore /\ TrimAfterAck /\ RetentionKept

\* The stream keeps its entries, and what is delivered, acknowledged or stored
\* stays so.
Grows ==
    /\ Len(stream) <= Len(stream')
    /\ \A i \in Published : stream'[i] = stream[i]
    /\ lastDelivered <= lastDelivered'
    /\ \A i \in Published : Acked(i) => Acked(i)'
    /\ \A i \in Published : Stored(i) => Stored(i)'

-----------------------------------------------------------------------------
(* What a process holds *)

LEMMA SharedFacts ==
    ASSUME Shared
    PROVE  /\ Len(stream) \in Nat /\ MaxEntries \in Nat /\ lastDelivered \in Nat
           /\ lastDelivered <= Len(stream)
           /\ 1..lastDelivered \subseteq Published /\ Published \subseteq Ids
           /\ 1..lastDelivered \subseteq Ids
           /\ \A i \in Published : /\ stream[i].part \in Partitions
                                   /\ stream[i].ms \in Nat
<1>1. /\ Len(stream) \in Nat /\ MaxEntries \in Nat /\ lastDelivered \in Nat
      /\ lastDelivered <= Len(stream) /\ Len(stream) <= MaxEntries
  BY ConstantsOK DEF Shared
<1>2. \A i \in Published : stream[i] \in Entry
  BY DEF Shared, Published
<1>3. \A i \in Published : stream[i].part \in Partitions /\ stream[i].ms \in Nat
  BY <1>2, ConstantsOK DEF Entry
<1>4. /\ 1..lastDelivered \subseteq Published /\ Published \subseteq Ids
      /\ 1..lastDelivered \subseteq Ids
  BY <1>1 DEF Published, Ids
<1> QED
  BY <1>1, <1>3, <1>4

\* The rows of a process were delivered.
LEMMA RowsFacts ==
    ASSUME Shared, NEW s, Shape(s)
    PROVE  /\ Rows(s) \subseteq 1..lastDelivered
           /\ s.todo \subseteq 1..lastDelivered
           /\ DOMAIN s.buffer = 1..Len(s.buffer) /\ Len(s.buffer) \in Nat
           /\ \A k \in 1..Len(s.buffer) : s.buffer[k] \in 1..lastDelivered
<1>1. s.buffer \in Seq(1..lastDelivered)
  BY DEF Shape
<1>2. DOMAIN s.buffer = 1..Len(s.buffer) /\ Len(s.buffer) \in Nat
      /\ \A k \in 1..Len(s.buffer) : s.buffer[k] \in 1..lastDelivered
  BY <1>1, LenProperties, ElementOfSeq
<1> QED
  BY <1>2 DEF Rows, Shape

\* A flush has a group at hand, of rows of a partition of its plan.
LEMMA GroupFacts ==
    ASSUME Shared, NEW s, Shape(s), s.pc \in {"upload", "ack"}
    PROVE  /\ GroupPart(s) \in s.plan /\ GroupPart(s) \in Partitions
           /\ GroupIds(s) \subseteq Rows(s) /\ GroupIds(s) # {}
           /\ \A i \in GroupIds(s) : stream[i].part = GroupPart(s)
<1>1. PICK p \in s.plan : p \in PartsOf(Rows(s))
  BY DEF Shape
<1>2. PICK i \in Rows(s) : stream[i].part = p
  BY <1>1 DEF PartsOf
<1>3. PICK k \in DOMAIN s.buffer : s.buffer[k] = i
  BY <1>2 DEF Rows
<1>4. k \in InPlan(s)
  BY <1>1, <1>2, <1>3 DEF InPlan
<1>5. InPlan(s) \subseteq Nat /\ InPlan(s) \subseteq DOMAIN s.buffer
  BY RowsFacts DEF InPlan
<1> DEFINE first == CHOOSE m \in InPlan(s) : \A n \in InPlan(s) : m <= n
<1>6. first \in InPlan(s)
  <2>1. \E m \in InPlan(s) : \A n \in InPlan(s) : m <= n
    BY <1>4, <1>5, MinExists
  <2> QED
    BY <2>1
<1>7. GroupPart(s) = stream[s.buffer[first]].part
  BY DEF GroupPart
<1> HIDE DEF first
<1>8. s.buffer[first] \in Rows(s) /\ GroupPart(s) \in s.plan
  BY <1>5, <1>6, <1>7 DEF InPlan, Rows
<1>9. s.buffer[first] \in GroupIds(s)
  BY <1>7, <1>8 DEF GroupIds
<1>10. s.plan \subseteq Partitions
  BY DEF Shape, Worker
<1> QED
  BY <1>8, <1>9, <1>10 DEF GroupIds

\* The least of some delivered entries is one of them.
LEMMA FirstFacts ==
    ASSUME Shared, NEW ids \in SUBSET (1..lastDelivered), ids # {}
    PROVE  FirstOf(ids) \in ids /\ \A i \in ids : FirstOf(ids) <= i
<1>1. ids \in SUBSET Nat
  BY SharedFacts
<1>2. \E i \in ids : \A j \in ids : i <= j
  BY <1>1, MinExists
<1> QED
  BY <1>2 DEF FirstOf

\* So is the greatest.
LEMMA LastFacts ==
    ASSUME Shared, NEW ids \in SUBSET (1..lastDelivered), ids # {}
    PROVE  LastOf(ids) \in ids
<1>1. ids \in SUBSET Nat /\ lastDelivered \in Nat /\ \A i \in ids : i <= lastDelivered
  BY SharedFacts
<1>2. \E i \in ids : \A j \in ids : j <= i
  BY <1>1, MaxExists
<1> QED
  BY <1>2 DEF LastOf

-----------------------------------------------------------------------------
(* What others do does not disturb a process *)

LEMMA ShapeStays ==
    ASSUME Shared, Shared', Grows,
           NEW w, NEW STATE t, worker'[w] = t, Shape(t)
    PROVE  Shape(worker[w])'
<1>1. 1..lastDelivered \subseteq 1..lastDelivered'
  BY SharedFacts DEF Grows, Shared
<1>2. t.buffer \in Seq(1..lastDelivered') /\ t.todo \subseteq 1..lastDelivered'
  BY <1>1, SeqMonotonic DEF Shape
<1>3. \A i \in Rows(t) : stream'[i] = stream[i]
  BY RowsFacts, SharedFacts DEF Grows
<1>4. Rows(worker[w])' = Rows(t)
  BY DEF Rows
<1>5. PartsOf(Rows(worker[w]))' = PartsOf(Rows(t))
  BY <1>3, <1>4 DEF PartsOf
<1> QED
  BY <1>2, <1>5 DEF Shape, Worker

\* What a process knows stays true.
LEMMA ClaimsStay ==
    ASSUME Shared, Shared', Grows,
           NEW w, NEW STATE t, worker'[w] = t, Shape(t), Claims(t)
    PROVE  Claims(worker[w])'
<1>1. 1..lastDelivered \subseteq Published /\ lastDelivered \in Nat
  BY SharedFacts
<1>2. \A i \in Published : Acked(i) => Acked(i)'
  BY DEF Grows
<1>3. \A i \in Published : stream'[i] = stream[i] /\ i \in Published'
  <2>1. Len(stream) <= Len(stream') /\ Len(stream) \in Nat /\ Len(stream') \in Nat
    BY DEF Grows, Shared
  <2> QED
    BY <2>1 DEF Grows, Published
<1>4. ASSUME NEW i \in Published, Old(i) PROVE Old(i)'
  <2>1. PICK j \in Published : Acked(j) /\ stream[i].ms + Retention < stream[j].ms
    BY <1>4 DEF Old
  <2>2. j \in Published' /\ Acked(j)' /\ stream'[i].ms + Retention < stream'[j].ms
    BY <1>2, <1>3, <2>1
  <2> QED
    BY <2>2 DEF Old
<1>5. worker'[w].pc = "ack" => \A i \in GroupIds(worker[w])' : Stored(i)'
  <2> SUFFICES ASSUME t.pc = "ack" PROVE \A i \in GroupIds(worker[w])' : Stored(i)'
    OBVIOUS
  <2>1. Rows(worker[w])' = Rows(t) /\ \A i \in Rows(t) : i \in Published
    BY <1>1, RowsFacts DEF Rows
  <2>2. DOMAIN t.buffer = 1..Len(t.buffer)
        /\ \A k \in 1..Len(t.buffer) : t.buffer[k] \in Published
    BY <1>1, RowsFacts
  <2>3. InPlan(worker[w])' = InPlan(t)
    BY <1>3, <2>2 DEF InPlan
  <2> DEFINE first == CHOOSE k \in InPlan(t) : \A m \in InPlan(t) : k <= m
  <2>4. GroupPart(worker[w])' = stream'[t.buffer[first]].part
    BY <2>3 DEF GroupPart
  <2>5. GroupPart(t) = stream[t.buffer[first]].part
    BY DEF GroupPart
  <2> HIDE DEF first
  <2>6. first \in InPlan(t)
    <3>1. InPlan(t) \subseteq Nat
      BY <2>2, RowsFacts DEF InPlan
    <3>2. PICK i \in GroupIds(t) : TRUE
      BY GroupFacts
    <3>3. PICK k \in DOMAIN t.buffer : t.buffer[k] = i
      BY GroupFacts DEF Rows
    <3>4. k \in InPlan(t)
      BY <3>2, <3>3, GroupFacts DEF InPlan
    <3>5. \E k0 \in InPlan(t) : \A m \in InPlan(t) : k0 <= m
      BY <3>1, <3>4, MinExists
    <3> QED
      BY <3>5 DEF first
  <2>7. GroupPart(worker[w])' = GroupPart(t)
    <3>1. t.buffer[first] \in Published
      BY <2>2, <2>6 DEF InPlan
    <3> QED
      BY <1>3, <2>4, <2>5, <3>1
  <2>8. GroupIds(worker[w])' = GroupIds(t)
    BY <1>3, <2>1, <2>7 DEF GroupIds
  <2>9. \A i \in GroupIds(t) : Stored(i) /\ i \in Published
    BY <2>1, GroupFacts DEF Claims
  <2> QED
    BY <2>8, <2>9 DEF Grows
<1>6. worker'[w].pc \in {"letter", "ackone"} => worker'[w].todo # {}
  BY DEF Claims
<1>7. ASSUME t.pc \in {"letter", "ackone"} PROVE FirstOf(t.todo) \in Published
  BY <1>1, <1>7, FirstFacts DEF Shape, Claims
<1>8. worker'[w].pc = "letter" => stream'[FirstOf(worker'[w].todo)].kind = "malformed"
  BY <1>3, <1>7 DEF Claims
<1>9. worker'[w].pc = "ackone" => Stored(FirstOf(worker[w].todo))'
  <2> SUFFICES ASSUME t.pc = "ackone" PROVE Stored(FirstOf(worker[w].todo))'
    OBVIOUS
  <2>1. Stored(FirstOf(t.todo)) /\ FirstOf(t.todo) \in Published
    BY <1>7 DEF Claims
  <2>2. FirstOf(worker[w].todo)' = FirstOf(t.todo)
    BY DEF FirstOf
  <2> QED
    BY <2>1, <2>2 DEF Grows, Stored
<1>10. \A i \in worker'[w].exported : Acked(i)'
  <2>1. \A i \in t.exported : i \in Published /\ Acked(i)
    BY <1>1 DEF Claims, Shape, Worker, Ids, Acked
  <2> QED
    BY <1>2, <2>1
<1>11. worker'[w].pc = "xinfo" => worker'[w].exported # {}
  BY DEF Claims
<1>12. worker'[w].pc \in {"xpending", "xtrim"} => /\ worker'[w].cut < lastDelivered'
                                         /\ \A i \in 1..worker'[w].cut : Old(i)'
  <2> SUFFICES ASSUME t.pc \in {"xpending", "xtrim"}
               PROVE  t.cut < lastDelivered' /\ \A i \in 1..t.cut : Old(i)'
    OBVIOUS
  <2>1. t.cut < lastDelivered /\ t.cut \in Int /\ \A i \in 1..t.cut : Old(i)
    BY DEF Claims, Shape, Worker
  <2>2. lastDelivered <= lastDelivered' /\ lastDelivered' \in Int
    BY DEF Grows, Shared
  <2>3. 1..t.cut \subseteq Published
    BY <1>1, <2>1
  <2> QED
    BY <1>1, <1>4, <2>1, <2>2, <2>3
<1>13. worker'[w].pc = "xtrim" => \A i \in 1..worker'[w].cut : Acked(i)'
  <2> SUFFICES ASSUME t.pc = "xtrim", NEW i \in 1..t.cut PROVE Acked(i)'
    OBVIOUS
  <2>1. t.cut < lastDelivered /\ t.cut \in Int /\ Acked(i)
    BY DEF Claims, Shape, Worker
  <2>2. i \in Published
    BY <1>1, <2>1
  <2> QED
    BY <1>2, <2>1, <2>2
<1> QED
  BY <1>5, <1>6, <1>8, <1>9, <1>10, <1>11, <1>12, <1>13 DEF Claims

-----------------------------------------------------------------------------
(* Where flush, Retry and the end of run lead to *)

\* At these awaits a process claims nothing but what it exported.
LEMMA NothingClaimed ==
    ASSUME NEW s, s.pc \in {"down", "loop", "reclaim", "read", "ingest", "upload"},
           \A i \in s.exported : Acked(i)
    PROVE  Claims(s)
BY DEF Claims

\* The partitions of a buffer that is not empty.
LEMMA PartsFacts ==
    ASSUME Shared, NEW s, Shape(s), s.buffer # <<>>
    PROVE  PartsOf(Rows(s)) # {} /\ PartsOf(Rows(s)) \subseteq Partitions
<1>1. s.buffer \in Seq(1..lastDelivered)
  BY DEF Shape
<1>2. Len(s.buffer) # 0 /\ Len(s.buffer) \in Nat
  BY <1>1, EmptySeq
<1>3. 1 \in DOMAIN s.buffer
  BY <1>2, RowsFacts
<1>4. s.buffer[1] \in Rows(s)
  BY <1>3 DEF Rows
<1>5. Rows(s) \subseteq Published
  BY RowsFacts, SharedFacts
<1> QED
  BY <1>4, <1>5, SharedFacts DEF PartsOf

LEMMA CutType ==
    ASSUME NEW s \in Worker, NEW n \in Int
    PROVE  [s EXCEPT !.cut = n] \in Worker
BY DEF Worker

LEMMA FreshOk ==
    ASSUME Shared
    PROVE  /\ Shape(Fresh) /\ Claims(Fresh)
           /\ Shape(Down) /\ Claims(Down)
<1>1. <<>> \in Seq(1..lastDelivered) /\ <<>> \in Seq(Ids)
  BY EmptySeq
<1>2. ReclaimInterval \in 0..ReclaimInterval /\ 0 \in 0..FlushInterval
  BY ConstantsOK
<1>3. Fresh \in Worker
  BY <1>1, <1>2 DEF Fresh, Worker
<1>4. Down \in Worker
  <2> HIDE DEF Fresh
  <2> QED
    BY <1>3 DEF Down, Worker
<1>5. /\ Fresh.todo = {} /\ Fresh.buffer = <<>> /\ Fresh.pc = "loop" /\ Fresh.exported = {}
      /\ Down.todo = {} /\ Down.buffer = <<>> /\ Down.pc = "down" /\ Down.exported = {}
  BY DEF Fresh, Down
<1> QED
  BY <1>1, <1>3, <1>4, <1>5, NothingClaimed DEF Shape

LEMMA RetryOk ==
    ASSUME Shared, NEW s, Shape(s)
    PROVE  Shape(Retry(s)) /\ Claims(Retry(s))
<1> DEFINE t == [s EXCEPT !.pc = "loop", !.phase = "check", !.todo = {}, !.plan = {},
                          !.exported = {}, !.cut = 0]
<1>1. t \in Worker
  <2> DEFINE u == [s EXCEPT !.pc = "loop", !.phase = "check", !.todo = {}, !.plan = {},
                            !.exported = {}]
  <2>1. u \in Worker
    BY DEF Shape, Worker
  <2>2. t = [u EXCEPT !.cut = 0]
    OBVIOUS
  <2> HIDE DEF u, t
  <2> QED
    BY <2>1, <2>2, CutType
<1>2. t.pc = "loop" /\ t.todo = {} /\ t.buffer = s.buffer /\ t.exported = {}
  BY DEF Shape, Worker
<1>3. Retry(s) = IF s.phase = "final" THEN Down ELSE t
  BY DEF Retry
<1> HIDE DEF t
<1>4. Shape(t) /\ Claims(t)
  BY <1>1, <1>2, NothingClaimed DEF Shape
<1> QED
  BY <1>3, <1>4, FreshOk

LEMMA FinalOk ==
    ASSUME Shared, NEW s, Shape(s)
    PROVE  Shape(Final(s)) /\ Claims(Final(s))
<1> DEFINE t == [s EXCEPT !.pc = "upload", !.phase = "final", !.todo = {},
                          !.plan = PartsOf(Rows(s)), !.exported = {}, !.cut = 0]
<1>1. CASE \/ s.phase = "final" \/ s.buffer = <<>>
           \/ \E i \in Rows(s) : stream[i].kind = "poison"
  BY <1>1, FreshOk DEF Final
<1>2. CASE ~(\/ s.phase = "final" \/ s.buffer = <<>>
             \/ \E i \in Rows(s) : stream[i].kind = "poison")
  <2>1. Final(s) = t
    BY <1>2 DEF Final
  <2>2. PartsOf(Rows(s)) # {} /\ PartsOf(Rows(s)) \subseteq Partitions
    BY <1>2, PartsFacts
  <2>3. /\ t.pc = "upload" /\ t.todo = {} /\ t.plan = PartsOf(Rows(s))
        /\ t.buffer = s.buffer /\ t.exported = {}
    BY DEF Shape, Worker
  <2>4. t \in Worker
    <3> DEFINE u == [s EXCEPT !.pc = "upload", !.phase = "final", !.todo = {},
                              !.plan = PartsOf(Rows(s)), !.exported = {}]
    <3>1. u \in Worker
      BY <2>2 DEF Shape, Worker
    <3>2. t = [u EXCEPT !.cut = 0]
      OBVIOUS
    <3> HIDE DEF u, t
    <3> QED
      BY <3>1, <3>2, CutType
  <2> HIDE DEF t
  <2>5. PartsOf(Rows(t)) = PartsOf(Rows(s))
    BY <2>3 DEF Rows
  <2>6. Shape(t)
    BY <2>2, <2>3, <2>4, <2>5 DEF Shape
  <2> QED
    BY <2>1, <2>3, <2>6, NothingClaimed
<1> QED
  BY <1>1, <1>2

LEMMA FlushOk ==
    ASSUME Shared, NEW s, Shape(s), s.buffer # <<>>
    PROVE  Shape(Flush(s)) /\ Claims(Flush(s))
<1> DEFINE t == [s EXCEPT !.pc = "upload", !.plan = PartsOf(Rows(s)), !.exported = {}]
<1>1. CASE \E i \in Rows(s) : stream[i].kind = "poison"
  BY <1>1, FinalOk DEF Flush
<1>2. CASE ~(\E i \in Rows(s) : stream[i].kind = "poison")
  <2>1. Flush(s) = t
    BY <1>2 DEF Flush
  <2>2. PartsOf(Rows(s)) # {} /\ PartsOf(Rows(s)) \subseteq Partitions
    BY PartsFacts
  <2>3. /\ t.pc = "upload" /\ t.todo = s.todo /\ t.plan = PartsOf(Rows(s))
        /\ t.buffer = s.buffer /\ t.exported = {}
    BY DEF Shape, Worker
  <2>4. t \in Worker
    BY <2>2 DEF Shape, Worker
  <2> HIDE DEF t
  <2>5. PartsOf(Rows(t)) = PartsOf(Rows(s))
    BY <2>3 DEF Rows
  <2>6. Shape(t)
    BY <2>2, <2>3, <2>4, <2>5 DEF Shape
  <2> QED
    BY <2>1, <2>3, <2>6, NothingClaimed
<1> QED
  BY <1>1, <1>2

LEMMA AfterFlushOk ==
    ASSUME Shared, NEW s, Shape(s)
    PROVE  Shape(AfterFlush(s)) /\ Claims(AfterFlush(s))
<1> DEFINE pc == IF s.phase = "check" THEN "loop" ELSE "ingest"
           t == [[s EXCEPT !.exported = {}, !.cut = 0, !.sinceFlush = 0] EXCEPT !.pc = pc]
<1>1. AfterFlush(s) = IF s.phase = "final" THEN Down ELSE t
  BY DEF AfterFlush
<1>2. pc \in {"loop", "ingest"}
  OBVIOUS
<1> HIDE DEF pc
<1>3. 0 \in 0..FlushInterval
  BY ConstantsOK
<1>4. t \in Worker
  <2> DEFINE u == [s EXCEPT !.exported = {}]
             v == [u EXCEPT !.cut = 0]
  <2>1. u \in Worker
    BY DEF Shape, Worker
  <2>2. t = [v EXCEPT !.sinceFlush = 0, !.pc = pc]
    OBVIOUS
  <2> HIDE DEF u, t
  <2>3. v \in Worker
    BY <2>1, CutType
  <2> HIDE DEF v
  <2> QED
    BY <1>2, <1>3, <2>2, <2>3 DEF Worker
<1>5. t.pc = pc /\ t.todo = s.todo /\ t.buffer = s.buffer /\ t.exported = {}
  BY DEF Shape, Worker
<1> HIDE DEF t
<1>6. Shape(t)
  BY <1>2, <1>4, <1>5 DEF Shape
<1>7. Claims(t)
  BY <1>2, <1>5, NothingClaimed
<1> QED
  BY <1>1, <1>6, <1>7, FreshOk

-----------------------------------------------------------------------------
(* Steps *)

\* A process that does nothing is not disturbed by a step that only grows.
LEMMA OtherStays ==
    ASSUME Inductive, Shared', Grows, NEW v \in Workers, worker'[v] = worker[v]
    PROVE  Shape(worker[v])' /\ Claims(worker[v])'
<1>1. Shared /\ Shape(worker[v]) /\ Claims(worker[v])
  BY DEF Inductive
<1>2. worker[v]' = worker[v]
  OBVIOUS
<1> QED
  BY <1>1, <1>2, ShapeStays, ClaimsStay

\* What was trimmed stays acknowledged, and behind the retention window.
LEMMA TrimmedStays ==
    ASSUME Inductive, Shared', Grows, UNCHANGED trimmed
    PROVE  TrimAfterAck' /\ RetentionKept'
<1>1. Shared /\ TrimAfterAck /\ RetentionKept
  BY DEF Inductive
<1>2. lastDelivered <= Len(stream) /\ lastDelivered \in Nat /\ Len(stream) \in Nat
  BY <1>1, SharedFacts
<1>3. \A i \in 1..trimmed : i \in Published /\ Acked(i)
  BY <1>1, <1>2 DEF TrimAfterAck, Acked, Published, Shared
<1>4. TrimAfterAck'
  BY <1>3 DEF TrimAfterAck, Grows
<1>5. Published \subseteq Published'
  BY <1>2 DEF Grows, Published, Shared
<1>6. ASSUME NEW i \in 1..trimmed
      PROVE  \E j \in Published' : Acked(j)' /\ stream'[i].ms + Retention < stream'[j].ms
  <2>1. PICK j \in Published : Acked(j) /\ stream[i].ms + Retention < stream[j].ms
    BY <1>1 DEF RetentionKept
  <2>2. stream'[i] = stream[i] /\ stream'[j] = stream[j] /\ Acked(j)'
    BY <1>3, <2>1 DEF Grows
  <2> QED
    BY <1>5, <2>1, <2>2
<1>7. RetentionKept'
  BY <1>6 DEF RetentionKept
<1> QED
  BY <1>4, <1>7

\* A step of one process that only grows, trims nothing and acknowledges only
\* what is stored.
LEMMA OneSteps ==
    ASSUME Inductive, Shared', Grows, UNCHANGED trimmed,
           \A i \in Published' : Acked(i)' => (i \in Published /\ Acked(i)) \/ Stored(i)',
           NEW w \in Workers, NEW STATE t, Becomes(w, t),
           Shape(worker[w])', Claims(worker[w])'
    PROVE  Inductive'
<1>1. /\ worker \in [Workers -> Worker] /\ Shared /\ AckAfterStore
  BY DEF Inductive
<1>2. worker' = [worker EXCEPT ![w] = t]
  BY DEF Becomes
<1>3. worker'[w] \in Worker
  BY DEF Shape, Worker
<1>4. worker' \in [Workers -> Worker]
  BY <1>1, <1>2, <1>3
<1>5. ASSUME NEW v \in Workers, v # w PROVE Shape(worker[v])' /\ Claims(worker[v])'
  <2>1. worker'[v] = worker[v]
    BY <1>1, <1>2, <1>5
  <2> QED
    BY <2>1, OtherStays
<1>6. AckAfterStore'
  BY <1>1 DEF AckAfterStore, Grows
<1> QED
  BY <1>4, <1>5, <1>6, TrimmedStays DEF Inductive

\* A step that changes nothing but one process, and counts at most one fault.
LEMMA OneStepsAlone ==
    ASSUME Inductive, UNCHANGED <<redis, objects, letters>>, faults' \in 0..MaxFaults,
           NEW w \in Workers, NEW STATE t, Becomes(w, t), Shape(t), Claims(t)
    PROVE  Inductive'
<1>1. /\ worker \in [Workers -> Worker] /\ Shared
  BY DEF Inductive
<1>2. UNCHANGED <<stream, trimmed, lastDelivered, pending, idle, objects, letters>>
  BY DEF redis
<1>3. Shared'
  BY <1>1, <1>2 DEF Shared, Published
<1>4. Grows
  <2>1. Len(stream) \in Nat /\ lastDelivered \in Nat
    BY <1>1, SharedFacts
  <2> QED
    BY <1>2, <2>1 DEF Grows, Acked, Stored
<1>5. \A i \in Published' : Acked(i)' => i \in Published /\ Acked(i)
  BY <1>2 DEF Published, Acked
<1>6. worker'[w] = t
  BY <1>1 DEF Becomes
<1>7. worker[w]' = t
  BY <1>6
<1>8. Shape(worker[w])' /\ Claims(worker[w])'
  BY <1>1, <1>3, <1>4, <1>7, ShapeStays, ClaimsStay
<1> QED
  BY <1>2, <1>3, <1>4, <1>5, <1>8, OneSteps

LEMMA Alone ==
    ASSUME Inductive, NEW w \in Workers, NEW STATE t, Becomes(w, t),
           UNCHANGED <<redis, objects, letters, faults>>, Shape(t), Claims(t)
    PROVE  Inductive'
<1>1. faults' \in 0..MaxFaults
  BY DEF Inductive, Shared
<1> QED
  BY <1>1, OneStepsAlone

LEMMA StartStep ==
    ASSUME Inductive, NEW w \in Workers, Start(w) PROVE Inductive'
<1>1. Becomes(w, Fresh) /\ UNCHANGED <<redis, objects, letters, faults>>
  BY DEF Start
<1>2. Shape(Fresh) /\ Claims(Fresh)
  BY FreshOk DEF Inductive
<1> QED
  BY <1>1, <1>2, Alone

LEMMA LoopStep ==
    ASSUME Inductive, NEW w \in Workers, Loop(w) PROVE Inductive'
<1> DEFINE s == worker[w]
           t == IF s.stop THEN Final(s)
                ELSE IF s.sinceReclaim >= ReclaimInterval THEN [s EXCEPT !.pc = "reclaim"]
                ELSE [s EXCEPT !.pc = "read"]
<1>1. Shared /\ Shape(s) /\ Claims(s)
  BY DEF Inductive
<1>2. Becomes(w, t) /\ UNCHANGED <<redis, objects, letters, faults>>
  BY DEF Loop
<1>3. Shape(Final(s)) /\ Claims(Final(s))
  BY <1>1, FinalOk
<1>4. ASSUME NEW pc \in {"reclaim", "read"}
      PROVE  Shape([s EXCEPT !.pc = pc]) /\ Claims([s EXCEPT !.pc = pc])
  <2> DEFINE u == [s EXCEPT !.pc = pc]
  <2>1. u \in Worker /\ u.pc = pc /\ u.todo = s.todo /\ u.buffer = s.buffer
        /\ u.exported = s.exported
    BY <1>1 DEF Shape, Worker
  <2> HIDE DEF u
  <2>2. Shape(u)
    BY <1>1, <2>1 DEF Shape
  <2>3. Claims(u)
    BY <1>1, <2>1, NothingClaimed DEF Claims
  <2> QED
    BY <2>2, <2>3 DEF u
<1>5. Shape(t) /\ Claims(t)
  BY <1>3, <1>4
<1> HIDE DEF t
<1> QED
  BY <1>2, <1>5, Alone

\* The entry that _ingest is at.
LEMMA IngestingFacts ==
    ASSUME Inductive, NEW w \in Workers, NEW i \in Ids, NEW kinds, Ingesting(w, i, kinds)
    PROVE  /\ Shared /\ Shape(worker[w]) /\ Claims(worker[w])
           /\ worker[w].pc = "ingest" /\ i \in worker[w].todo
           /\ i \in 1..lastDelivered /\ i \in Published /\ i \in Ids
           /\ FirstOf(worker[w].todo) = i /\ stream[i].kind \in kinds
<1> DEFINE s == worker[w]
<1>1. Shared /\ Shape(s) /\ Claims(s)
  BY DEF Inductive
<1>2. /\ s.pc = "ingest" /\ i \in s.todo /\ \A j \in s.todo : i <= j
      /\ stream[i].kind \in kinds
  BY DEF Ingesting, At
<1>3. s.todo \in SUBSET (1..lastDelivered) /\ s.todo # {}
  BY <1>1, <1>2 DEF Shape
<1>4. /\ FirstOf(s.todo) \in s.todo /\ \A j \in s.todo : FirstOf(s.todo) <= j
  BY <1>1, <1>3, FirstFacts
<1>5. FirstOf(s.todo) = i
  <2>1. FirstOf(s.todo) <= i /\ i <= FirstOf(s.todo)
    BY <1>2, <1>4
  <2>2. FirstOf(s.todo) \in Int /\ i \in Int
    BY <1>3, <1>4, SharedFacts DEF Ids
  <2> QED
    BY <2>1, <2>2
<1> QED
  BY <1>1, <1>2, <1>3, <1>5, SharedFacts

LEMMA BufferStep ==
    ASSUME Inductive, NEW w \in Workers, NEW i \in Ids, Buffer(w, i) PROVE Inductive'
<1> DEFINE s == worker[w]
           clock == IF s.buffer = <<>> THEN 0 ELSE s.sinceFlush
           t == [s EXCEPT !.todo = s.todo \ {i}, !.buffer = Append(s.buffer, i),
                          !.sinceFlush = clock]
<1>1. /\ Shared /\ Shape(s) /\ Claims(s) /\ s.pc = "ingest"
      /\ i \in 1..lastDelivered /\ i \in Ids
  BY IngestingFacts DEF Buffer
<1>2. /\ Becomes(w, IF Len(t.buffer) >= FlushSize THEN Flush(t) ELSE t)
      /\ UNCHANGED <<redis, objects, letters, faults>>
  BY <1>1 DEF Buffer, Shape, Worker
<1>3. clock \in 0..FlushInterval
  BY <1>1, ConstantsOK DEF Shape, Worker
<1> HIDE DEF clock
<1>4. s.buffer \in Seq(Ids) /\ s.buffer \in Seq(1..lastDelivered)
  BY <1>1 DEF Shape, Worker
<1>5. /\ Append(s.buffer, i) \in Seq(Ids) /\ Append(s.buffer, i) \in Seq(1..lastDelivered)
      /\ Append(s.buffer, i) # <<>>
  BY <1>1, <1>4
<1>6. s \in Worker /\ s.todo \subseteq Ids
  BY <1>1 DEF Shape, Worker
<1>7. t \in Worker
  BY <1>3, <1>5, <1>6 DEF Worker
<1>8. /\ t.pc = "ingest" /\ t.todo = s.todo \ {i} /\ t.buffer = Append(s.buffer, i)
      /\ t.exported = s.exported
  BY <1>1, <1>6 DEF Worker
<1> HIDE DEF t
<1>9. Shape(t)
  BY <1>1, <1>5, <1>7, <1>8 DEF Shape
<1>10. Claims(t)
  BY <1>1, <1>8, NothingClaimed DEF Claims
<1>11. Shape(Flush(t)) /\ Claims(Flush(t))
  BY <1>1, <1>5, <1>8, <1>9, FlushOk
<1> DEFINE u == IF Len(t.buffer) >= FlushSize THEN Flush(t) ELSE t
<1>12. Shape(u) /\ Claims(u)
  BY <1>9, <1>10, <1>11
<1> HIDE DEF u
<1> QED
  BY <1>2, <1>12, Alone DEF u

LEMMA DeadLetterStep ==
    ASSUME Inductive, NEW w \in Workers, NEW i \in Ids, DeadLetter(w, i) PROVE Inductive'
<1> DEFINE s == worker[w]
           t == [s EXCEPT !.pc = "letter"]
<1>1. /\ Shared /\ Shape(s) /\ Claims(s) /\ i \in s.todo
      /\ FirstOf(s.todo) = i /\ stream[i].kind = "malformed"
  <2>1. Ingesting(w, i, Refused)
    BY DEF DeadLetter
  <2> QED
    BY <2>1, IngestingFacts DEF Refused
<1>2. Becomes(w, t) /\ UNCHANGED <<redis, objects, letters, faults>>
  BY DEF DeadLetter
<1>3. t \in Worker /\ t.pc = "letter" /\ t.todo = s.todo /\ t.buffer = s.buffer
      /\ t.exported = s.exported
  BY <1>1 DEF Shape, Worker
<1> HIDE DEF t
<1>4. Shape(t)
  BY <1>1, <1>3 DEF Shape
<1>5. Claims(t)
  BY <1>1, <1>3 DEF Claims
<1> QED
  BY <1>2, <1>4, <1>5, Alone

LEMMA ExcludeStep ==
    ASSUME Inductive, NEW w \in Workers, NEW i \in Ids, Exclude(w, i) PROVE Inductive'
<1> DEFINE s == worker[w]
           t == [s EXCEPT !.pc = "ackone"]
<1>1. /\ Shared /\ Shape(s) /\ Claims(s) /\ i \in s.todo
      /\ FirstOf(s.todo) = i /\ stream[i].kind = "excluded"
  <2>1. Ingesting(w, i, {"excluded"})
    BY DEF Exclude
  <2> QED
    BY <2>1, IngestingFacts
<1>2. Becomes(w, t) /\ UNCHANGED <<redis, objects, letters, faults>>
  BY DEF Exclude
<1>3. t \in Worker /\ t.pc = "ackone" /\ t.todo = s.todo /\ t.buffer = s.buffer
      /\ t.exported = s.exported
  BY <1>1 DEF Shape, Worker
<1> HIDE DEF t
<1>4. Shape(t)
  BY <1>1, <1>3 DEF Shape
<1>5. Stored(i)
  BY <1>1 DEF Stored
<1>6. Claims(t)
  BY <1>1, <1>3, <1>5 DEF Claims
<1> QED
  BY <1>2, <1>4, <1>6, Alone

LEMMA IngestedStep ==
    ASSUME Inductive, NEW w \in Workers, Ingested(w) PROVE Inductive'
<1> DEFINE s == worker[w]
           t == [s EXCEPT !.phase = "check"]
           r == [s EXCEPT !.pc = "read"]
           l == [t EXCEPT !.pc = "loop"]
           next == IF s.phase = "reclaim" THEN r ELSE IF ShouldFlush(s) THEN Flush(t) ELSE l
<1>1. Shared /\ Shape(s) /\ Claims(s) /\ s.pc = "ingest"
  BY DEF Inductive, Ingested, At
<1>2. Becomes(w, next) /\ UNCHANGED <<redis, objects, letters, faults>>
  BY DEF Ingested
<1>3. /\ t \in Worker /\ t.pc = "ingest" /\ t.todo = s.todo /\ t.buffer = s.buffer
      /\ r \in Worker /\ r.pc = "read" /\ r.todo = s.todo /\ r.buffer = s.buffer
      /\ r.exported = s.exported
  BY <1>1 DEF Shape, Worker
<1>4. /\ l \in Worker /\ l.pc = "loop" /\ l.todo = s.todo /\ l.buffer = s.buffer
      /\ l.exported = s.exported
  BY <1>1 DEF Shape, Worker
<1> HIDE DEF t, r, l
<1>5. Shape(t) /\ Shape(r) /\ Shape(l)
  BY <1>1, <1>3, <1>4 DEF Shape
<1>6. \A i \in s.exported : Acked(i)
  BY <1>1 DEF Claims
<1>7. Claims(r) /\ Claims(l)
  BY <1>3, <1>4, <1>6, NothingClaimed
<1>8. ASSUME ShouldFlush(s) PROVE Shape(Flush(t)) /\ Claims(Flush(t))
  BY <1>1, <1>3, <1>5, <1>8, FlushOk DEF ShouldFlush
<1>9. Shape(next) /\ Claims(next)
  BY <1>5, <1>7, <1>8
<1> HIDE DEF next
<1> QED
  BY <1>2, <1>9, Alone

LEMMA RedisErrorStep ==
    ASSUME Inductive, NEW w \in Workers, RedisError(w) PROVE Inductive'
<1>1. /\ Becomes(w, Retry(worker[w])) /\ UNCHANGED <<redis, objects, letters>>
      /\ faults < MaxFaults /\ faults' = faults + 1
  BY DEF RedisError, Fault
<1>2. faults' \in 0..MaxFaults
  BY <1>1, ConstantsOK DEF Inductive, Shared
<1>3. Shape(Retry(worker[w])) /\ Claims(Retry(worker[w]))
  BY RetryOk DEF Inductive
<1> QED
  BY <1>1, <1>2, <1>3, OneStepsAlone

LEMMA AbortStep ==
    ASSUME Inductive, NEW w \in Workers, Abort(w) PROVE Inductive'
<1>1. /\ Becomes(w, Final(worker[w])) /\ UNCHANGED <<redis, objects, letters>>
      /\ faults < MaxFaults /\ faults' = faults + 1
  BY DEF Abort, Fault
<1>2. faults' \in 0..MaxFaults
  BY <1>1, ConstantsOK DEF Inductive, Shared
<1>3. Shape(Final(worker[w])) /\ Claims(Final(worker[w]))
  BY FinalOk DEF Inductive
<1> QED
  BY <1>1, <1>2, <1>3, OneStepsAlone

LEMMA KillStep ==
    ASSUME Inductive, NEW w \in Workers, Kill(w) PROVE Inductive'
<1>1. /\ Becomes(w, Down) /\ UNCHANGED <<redis, objects, letters>>
      /\ faults < MaxFaults /\ faults' = faults + 1
  BY DEF Kill, Fault
<1>2. faults' \in 0..MaxFaults
  BY <1>1, ConstantsOK DEF Inductive, Shared
<1>3. Shape(Down) /\ Claims(Down)
  BY FreshOk DEF Inductive
<1> QED
  BY <1>1, <1>2, <1>3, OneStepsAlone

\* What a process holds and claims does not depend on its clocks, on stop and on
\* phase.
LEMMA SameClaims ==
    ASSUME NEW s, NEW t, Shape(s), Claims(s), t \in Worker, t.pc = s.pc, t.todo = s.todo,
           t.buffer = s.buffer, t.plan = s.plan, t.exported = s.exported, t.cut = s.cut
    PROVE  Shape(t) /\ Claims(t)
<1>1. Rows(t) = Rows(s) /\ PartsOf(Rows(t)) = PartsOf(Rows(s))
  BY DEF Rows, PartsOf
<1>2. InPlan(t) = InPlan(s)
  BY DEF InPlan
<1>3. GroupPart(t) = GroupPart(s)
  BY <1>2 DEF GroupPart
<1>4. GroupIds(t) = GroupIds(s)
  BY <1>1, <1>3 DEF GroupIds
<1>5. Shape(t)
  BY <1>1 DEF Shape
<1>6. Claims(t)
  BY <1>4 DEF Claims
<1> QED
  BY <1>5, <1>6

LEMMA TerminateStep ==
    ASSUME Inductive, NEW w \in Workers, Terminate(w) PROVE Inductive'
<1> DEFINE s == worker[w]
           t == [s EXCEPT !.stop = TRUE]
<1>1. /\ Becomes(w, t) /\ UNCHANGED <<redis, objects, letters>>
      /\ faults < MaxFaults /\ faults' = faults + 1
  BY DEF Terminate, Fault
<1>2. faults' \in 0..MaxFaults
  BY <1>1, ConstantsOK DEF Inductive, Shared
<1>3. Shape(s) /\ Claims(s)
  BY DEF Inductive
<1>4. /\ t \in Worker /\ t.pc = s.pc /\ t.todo = s.todo /\ t.buffer = s.buffer
      /\ t.plan = s.plan /\ t.exported = s.exported /\ t.cut = s.cut
  BY <1>3 DEF Shape, Worker
<1> HIDE DEF t
<1>5. Shape(t) /\ Claims(t)
  BY <1>3, <1>4, SameClaims
<1> QED
  BY <1>1, <1>2, <1>5, OneStepsAlone

\* The entries older than a time are the first ones of the stream.
LEMMA OlderIsPrefix ==
    ASSUME Shared, NEW t \in Int, NEW i \in Published, i <= OlderThan(t)
    PROVE  stream[i].ms < t
<1> DEFINE older == {k \in 1..Len(stream) : stream[k].ms < t}
<1>1. Len(stream) \in Nat /\ i \in 1..Len(stream) /\ stream[i].ms \in Nat
  BY SharedFacts DEF Published
<1>2. SUFFICES ASSUME ~(stream[i].ms < t) PROVE FALSE
  OBVIOUS
<1>3. older \subseteq 1..(i - 1)
  <2> SUFFICES ASSUME NEW k \in older, i <= k PROVE FALSE
    BY <1>1
  <2>1. stream[i].ms <= stream[k].ms /\ stream[k].ms \in Nat /\ stream[k].ms < t
    BY <1>1, SharedFacts DEF Shared, Published
  <2> QED
    BY <1>1, <1>2, <2>1
<1>4. IsFiniteSet(1..(i - 1)) /\ Cardinality(1..(i - 1)) = i - 1
  <2> DEFINE n == i - 1
  <2>1. n \in Nat
    BY <1>1
  <2> HIDE DEF n
  <2>2. /\ IsFiniteSet(1..n)
        /\ Cardinality(1..n) = IF 1 > n THEN 0 ELSE n - 1 + 1
    BY <2>1, FS_Interval
  <2>3. Cardinality(1..n) = n
    BY <2>1, <2>2
  <2> QED
    BY <2>2, <2>3 DEF n
<1>5. Cardinality(older) <= i - 1 /\ Cardinality(older) \in Nat
  <2> HIDE DEF older
  <2> QED
    BY <1>3, <1>4, FS_Subset, FS_CardinalityType
<1>6. OlderThan(t) = Cardinality(older)
  BY DEF OlderThan
<1> HIDE DEF older
<1> QED
  BY <1>1, <1>5, <1>6

\* The number of older entries is a natural, whatever the time.
LEMMA OlderType ==
    ASSUME Shared, NEW t PROVE OlderThan(t) \in Nat
<1> DEFINE older == {k \in 1..Len(stream) : stream[k].ms < t}
<1>1. IsFiniteSet(1..Len(stream)) /\ older \subseteq 1..Len(stream)
  BY SharedFacts, FS_Interval
<1>2. IsFiniteSet(older)
  <2> HIDE DEF older
  <2> QED
    BY <1>1, FS_Subset
<1>3. OlderThan(t) = Cardinality(older)
  BY DEF OlderThan
<1> HIDE DEF older
<1> QED
  BY <1>2, <1>3, FS_CardinalityType

LEMMA XInfoStep ==
    ASSUME Inductive, NEW w \in Workers, XInfo(w) PROVE Inductive'
<1> DEFINE s == worker[w]
           last == LastOf(s.exported)
           since == stream[last].ms - Retention
           cut == Min2(OlderThan(since), lastDelivered - 1)
           t == [s EXCEPT !.pc = "xpending", !.cut = cut]
<1>1. Shared /\ Shape(s) /\ Claims(s) /\ s.pc = "xinfo"
  BY DEF Inductive, XInfo, At
<1>2. Becomes(w, t) /\ UNCHANGED <<redis, objects, letters, faults>>
  BY DEF XInfo
<1>3. s.exported \in SUBSET (1..lastDelivered) /\ s.exported # {}
  BY <1>1, SharedFacts DEF Claims, Shape, Worker, Acked, Ids
<1>4. last \in s.exported /\ last \in Published /\ Acked(last) /\ stream[last].ms \in Nat
  <2>1. last \in s.exported
    BY <1>1, <1>3, LastFacts
  <2> QED
    BY <1>1, <1>3, <2>1, SharedFacts DEF Claims
<1> HIDE DEF last
<1>5. since \in Int /\ Retention \in Nat
  BY <1>4, ConstantsOK
<1>6. OlderThan(since) \in Nat /\ lastDelivered \in Nat
  <2> HIDE DEF since
  <2> QED
    BY <1>1, OlderType, SharedFacts
<1>7. cut \in Int /\ cut < lastDelivered /\ cut <= OlderThan(since)
  <2> HIDE DEF since
  <2> QED
    BY <1>6 DEF Min2
<1> HIDE DEF cut
<1>8. ASSUME NEW i \in 1..cut PROVE Old(i)
  <2>1. i \in Published /\ i <= OlderThan(since)
    <3> HIDE DEF since
    <3>1. i \in Nat /\ i >= 1 /\ i <= cut
      BY <1>7
    <3>2. i \in 1..lastDelivered
      BY <1>6, <1>7, <3>1
    <3> QED
      BY <1>1, <1>6, <1>7, <3>1, <3>2, SharedFacts
  <2>2. stream[i].ms < since
    <3> HIDE DEF since
    <3> QED
      BY <1>1, <1>5, <2>1, OlderIsPrefix
  <2>3. stream[i].ms \in Nat
    BY <1>1, <2>1, SharedFacts
  <2>4. stream[i].ms + Retention < stream[last].ms
    BY <1>4, <1>5, <2>2, <2>3
  <2> QED
    BY <1>4, <2>4 DEF Old
<1>9. /\ t \in Worker /\ t.pc = "xpending" /\ t.todo = s.todo /\ t.buffer = s.buffer
      /\ t.exported = s.exported /\ t.cut = cut
  BY <1>1, <1>7 DEF Shape, Worker
<1> HIDE DEF t
<1>10. Shape(t)
  BY <1>1, <1>9 DEF Shape
<1>11. Claims(t)
  BY <1>1, <1>7, <1>8, <1>9 DEF Claims
<1> QED
  BY <1>2, <1>10, <1>11, Alone

LEMMA XPendingStep ==
    ASSUME Inductive, NEW w \in Workers, XPending(w) PROVE Inductive'
<1> DEFINE s == worker[w]
           cut == IF pending = {} THEN s.cut ELSE Min2(s.cut, FirstOf(pending) - 1)
           t == [s EXCEPT !.pc = "xtrim", !.cut = cut]
<1>1. Shared /\ Shape(s) /\ Claims(s) /\ s.pc = "xpending"
  BY DEF Inductive, XPending, At
<1>2. Becomes(w, t) /\ UNCHANGED <<redis, objects, letters, faults>>
  BY <1>1 DEF XPending, Shape, Worker
<1>3. s.cut \in Int /\ s.cut < lastDelivered /\ lastDelivered \in Nat
      /\ \A i \in 1..s.cut : Old(i)
  BY <1>1, SharedFacts DEF Claims, Shape, Worker
<1>4. pending \in SUBSET (1..lastDelivered)
  BY <1>1 DEF Shared
<1>5. ASSUME pending # {}
      PROVE  FirstOf(pending) \in Nat /\ \A i \in pending : FirstOf(pending) <= i
  <2>1. FirstOf(pending) \in pending /\ \A i \in pending : FirstOf(pending) <= i
    BY <1>1, <1>4, <1>5, FirstFacts
  <2>2. FirstOf(pending) \in 1..lastDelivered
    BY <1>4, <2>1
  <2>3. FirstOf(pending) \in Nat
    BY <1>3, <2>2
  <2> QED
    BY <2>1, <2>3
<1>6. /\ cut \in Int /\ cut <= s.cut
      /\ \A i \in 1..cut : i \notin pending
  <2>1. CASE pending = {}
    BY <1>3, <2>1
  <2>2. CASE pending # {}
    <3>1. cut = Min2(s.cut, FirstOf(pending) - 1)
      BY <2>2
    <3>2. cut \in Int /\ cut <= s.cut /\ cut <= FirstOf(pending) - 1
      BY <1>3, <1>5, <2>2, <3>1 DEF Min2
    <3> HIDE DEF cut
    <3> QED
      BY <1>5, <2>2, <3>2
  <2> QED
    BY <2>1, <2>2
<1> HIDE DEF cut
<1>7. cut < lastDelivered
  BY <1>3, <1>6
<1>8. ASSUME NEW i \in 1..cut PROVE Old(i) /\ Acked(i)
  <2>1. i \in 1..s.cut /\ i <= lastDelivered
    BY <1>3, <1>6, <1>7
  <2> QED
    BY <1>3, <1>6, <2>1 DEF Acked
<1>9. /\ t \in Worker /\ t.pc = "xtrim" /\ t.todo = s.todo /\ t.buffer = s.buffer
      /\ t.exported = s.exported /\ t.cut = cut
  BY <1>1, <1>6 DEF Shape, Worker
<1> HIDE DEF t
<1>10. Shape(t)
  BY <1>1, <1>9 DEF Shape
<1>11. Claims(t)
  BY <1>1, <1>7, <1>8, <1>9 DEF Claims
<1> QED
  BY <1>2, <1>10, <1>11, Alone

\* Acknowledging what is stored.
LEMMA AckFacts ==
    ASSUME Inductive, NEW STATE ids, \A i \in ids : Stored(i), XAck(ids),
           UNCHANGED <<stream, trimmed, lastDelivered, objects, letters>>,
           faults' \in 0..MaxFaults
    PROVE  /\ Shared' /\ Grows
           /\ \A i \in Published' : Acked(i)' => (i \in Published /\ Acked(i)) \/ Stored(i)'
           /\ \A i \in ids : i \in 1..lastDelivered => Acked(i)'
<1>1. Shared
  BY DEF Inductive
<1>2. pending' = pending \ ids /\ idle' \in [Ids -> 0..PendingIdle]
  BY <1>1, ConstantsOK DEF XAck, Shared
<1>3. Shared'
  BY <1>1, <1>2 DEF Shared, Published
<1>4. \A i : Stored(i)' <=> Stored(i)
  BY DEF Stored
<1>5. \A i : Acked(i) => Acked(i)'
  BY <1>2 DEF Acked
<1>6. Grows
  <2>1. Len(stream) \in Nat /\ lastDelivered \in Nat
    BY <1>1, SharedFacts
  <2> QED
    BY <1>4, <1>5, <2>1 DEF Grows
<1>7. \A i \in Published' : Acked(i)' => (i \in Published /\ Acked(i)) \/ Stored(i)'
  <2> SUFFICES ASSUME NEW i \in Published', Acked(i)', ~Acked(i) PROVE Stored(i)'
    BY DEF Published
  <2>1. i \in ids
    BY <1>2 DEF Acked
  <2> QED
    BY <1>4, <2>1
<1>8. ASSUME NEW i \in ids, i \in 1..lastDelivered PROVE Acked(i)'
  <2>1. i <= lastDelivered
    BY <1>1, <1>8, SharedFacts
  <2> QED
    BY <1>2, <2>1 DEF Acked
<1> QED
  BY <1>3, <1>6, <1>7, <1>8

LEMMA AckOneStep ==
    ASSUME Inductive, NEW w \in Workers, NEW lost \in BOOLEAN, AckOne(w, lost)
    PROVE  Inductive'
<1> DEFINE s == worker[w]
           i == FirstOf(s.todo)
           t == [s EXCEPT !.pc = "ingest", !.todo = s.todo \ {i}]
           u == IF lost THEN Retry(s) ELSE t
<1>1. Shared /\ Shape(s) /\ Claims(s) /\ s.pc = "ackone"
  BY DEF Inductive, AckOne, At
<1>2. /\ XAck({i}) /\ UNCHANGED <<stream, trimmed, lastDelivered, objects, letters>>
      /\ Reply(w, lost, t)
  BY <1>1 DEF AckOne, Shape, Worker
<1>3. Becomes(w, u) /\ faults' \in 0..MaxFaults
  BY <1>1, <1>2, ConstantsOK DEF Reply, Shared
<1>4. \A k \in {i} : Stored(k)
  BY <1>1 DEF Claims
<1>5. /\ Shared' /\ Grows
      /\ \A k \in Published' : Acked(k)' => (k \in Published /\ Acked(k)) \/ Stored(k)'
  BY <1>2, <1>3, <1>4, AckFacts
<1>6. /\ t \in Worker /\ t.pc = "ingest" /\ t.todo = s.todo \ {i} /\ t.buffer = s.buffer
      /\ t.exported = s.exported
  BY <1>1 DEF Shape, Worker
<1> HIDE DEF t, i
<1>7. Shape(t)
  BY <1>1, <1>6 DEF Shape
<1>8. Claims(t)
  BY <1>1, <1>6, NothingClaimed DEF Claims
<1>9. Shape(u) /\ Claims(u)
  BY <1>1, <1>7, <1>8, RetryOk
<1> HIDE DEF u
<1>10. worker'[w] = u
  BY <1>3 DEF Becomes, Inductive
<1>11. Shape(worker[w])' /\ Claims(worker[w])'
  BY <1>1, <1>5, <1>9, <1>10, ShapeStays, ClaimsStay
<1> QED
  BY <1>2, <1>3, <1>5, <1>11, OneSteps

\* Storing only grows.
LEMMA StoreFacts ==
    ASSUME Inductive, UNCHANGED <<redis, faults>>,
           objects \subseteq objects', objects' \subseteq Objects,
           letters \subseteq letters', letters' \subseteq Ids
    PROVE  /\ Shared' /\ Grows /\ UNCHANGED trimmed
           /\ \A i \in Published' : Acked(i)' => i \in Published /\ Acked(i)
<1>1. Shared /\ UNCHANGED <<stream, trimmed, lastDelivered, pending, idle>>
  BY DEF Inductive, redis
<1>2. Shared'
  BY <1>1 DEF Shared, Published
<1>3. \A i : Stored(i) => Stored(i)'
  BY <1>1 DEF Stored
<1>4. \A i : Acked(i)' <=> Acked(i)
  BY <1>1 DEF Acked
<1>5. Grows
  <2>1. Len(stream) \in Nat /\ lastDelivered \in Nat
    BY <1>1, SharedFacts
  <2> QED
    BY <1>1, <1>3, <1>4, <2>1 DEF Grows
<1> QED
  BY <1>1, <1>2, <1>4, <1>5 DEF Published

LEMMA UploadLetterStep ==
    ASSUME Inductive, NEW w \in Workers, UploadLetter(w) PROVE Inductive'
<1> DEFINE s == worker[w]
           i == FirstOf(s.todo)
           t == [s EXCEPT !.pc = "ackone"]
<1>1. Shared /\ Shape(s) /\ Claims(s) /\ s.pc = "letter"
  BY DEF Inductive, UploadLetter, At
<1>2. Becomes(w, t) /\ letters' = letters \cup {i} /\ UNCHANGED <<redis, objects, faults>>
  BY DEF UploadLetter
<1>3. s.todo \in SUBSET (1..lastDelivered) /\ s.todo # {}
  BY <1>1 DEF Shape, Claims
<1>4. i \in Published /\ i \in Ids /\ stream[i].kind = "malformed"
  <2>1. i \in s.todo
    BY <1>1, <1>3, FirstFacts
  <2>2. stream[i].kind = "malformed"
    BY <1>1 DEF Claims
  <2> HIDE DEF i
  <2> QED
    BY <1>1, <1>3, <2>1, <2>2, SharedFacts
<1>5. /\ t \in Worker /\ t.pc = "ackone" /\ t.todo = s.todo /\ t.buffer = s.buffer
      /\ t.exported = s.exported
  BY <1>1 DEF Shape, Worker
<1> HIDE DEF t
<1>6. objects \subseteq objects' /\ objects' \subseteq Objects
      /\ letters \subseteq letters' /\ letters' \subseteq Ids
  BY <1>1, <1>2, <1>4 DEF Shared
<1>7. /\ Shared' /\ Grows /\ UNCHANGED trimmed
      /\ \A k \in Published' : Acked(k)' => k \in Published /\ Acked(k)
  BY <1>2, <1>6, StoreFacts
<1>8. Shape(t)
  BY <1>1, <1>5 DEF Shape
<1>9. worker'[w] = t
  BY <1>2 DEF Becomes, Inductive
<1>10. Shape(worker[w])'
  BY <1>1, <1>7, <1>8, <1>9, ShapeStays
<1>11. FirstOf(worker[w].todo)' = i
  BY <1>5, <1>9 DEF FirstOf
<1>12. Stored(FirstOf(worker[w].todo))'
  <2>1. stream' = stream /\ i \in letters'
    BY <1>2 DEF redis
  <2> HIDE DEF i
  <2> QED
    BY <1>11, <2>1, <1>4 DEF Stored
<1>13. \A k \in worker'[w].exported : Acked(k)'
  <2>1. \A k \in s.exported : k \in Published /\ Acked(k)
    BY <1>1, SharedFacts DEF Claims, Shape, Worker, Ids, Acked
  <2> QED
    BY <1>5, <1>7, <1>9, <2>1 DEF Grows
<1>14. Claims(worker[w])'
  BY <1>3, <1>5, <1>9, <1>12, <1>13 DEF Claims
<1> QED
  BY <1>2, <1>7, <1>10, <1>14, OneSteps

LEMMA UploadStep ==
    ASSUME Inductive, NEW w \in Workers, Upload(w) PROVE Inductive'
<1> DEFINE s == worker[w]
           o == [part |-> GroupPart(s), rows |-> GroupIds(s)]
           t == [s EXCEPT !.pc = "ack"]
<1>1. Shared /\ Shape(s) /\ Claims(s) /\ s.pc = "upload"
  BY DEF Inductive, Upload, At
<1>2. Becomes(w, t) /\ objects' = objects \cup {o} /\ UNCHANGED <<redis, letters, faults>>
  BY DEF Upload
<1>3. /\ GroupPart(s) \in Partitions /\ GroupIds(s) \subseteq Ids
      /\ \A i \in GroupIds(s) : stream[i].part = GroupPart(s)
  <2>1. Rows(s) \subseteq Ids
    BY <1>1, RowsFacts, SharedFacts
  <2> QED
    BY <1>1, <2>1, GroupFacts
<1>4. o \in Objects /\ o.part = GroupPart(s) /\ o.rows = GroupIds(s)
  BY <1>3 DEF Objects
<1> HIDE DEF o
<1>5. /\ t \in Worker /\ t.pc = "ack" /\ t.todo = s.todo /\ t.buffer = s.buffer
      /\ t.plan = s.plan /\ t.exported = s.exported
  BY <1>1 DEF Shape, Worker
<1> HIDE DEF t
<1>6. objects \subseteq objects' /\ objects' \subseteq Objects
      /\ letters \subseteq letters' /\ letters' \subseteq Ids
  BY <1>1, <1>2, <1>4 DEF Shared
<1>7. /\ Shared' /\ Grows /\ UNCHANGED trimmed
      /\ \A k \in Published' : Acked(k)' => k \in Published /\ Acked(k)
  BY <1>2, <1>6, StoreFacts
<1>8. PartsOf(Rows(t)) = PartsOf(Rows(s))
  BY <1>5 DEF Rows, PartsOf
<1>9. Shape(t)
  BY <1>1, <1>5, <1>8 DEF Shape
<1>10. worker'[w] = t
  BY <1>2 DEF Becomes, Inductive
<1>11. Shape(worker[w])'
  BY <1>1, <1>7, <1>9, <1>10, ShapeStays
<1>12. GroupIds(worker[w])' = GroupIds(s)
  <2>1. stream' = stream
    BY <1>2 DEF redis
  <2>2. InPlan(worker[w])' = InPlan(s)
    BY <1>5, <1>10, <2>1 DEF InPlan
  <2>3. GroupPart(worker[w])' = GroupPart(s)
    BY <1>5, <1>10, <2>1, <2>2 DEF GroupPart
  <2>4. Rows(worker[w])' = Rows(s)
    BY <1>5, <1>10 DEF Rows
  <2> QED
    BY <2>1, <2>3, <2>4 DEF GroupIds
<1>13. \A i \in GroupIds(worker[w])' : Stored(i)'
  <2>1. stream' = stream /\ o \in objects'
    BY <1>2 DEF redis
  <2> QED
    BY <1>3, <1>4, <1>12, <2>1 DEF Stored
<1>14. \A k \in worker'[w].exported : Acked(k)'
  <2>1. \A k \in s.exported : k \in Published /\ Acked(k)
    BY <1>1, SharedFacts DEF Claims, Shape, Worker, Ids, Acked
  <2> QED
    BY <1>5, <1>7, <1>10, <2>1 DEF Grows
<1>15. Claims(worker[w])'
  BY <1>5, <1>10, <1>13, <1>14 DEF Claims
<1> QED
  BY <1>2, <1>7, <1>11, <1>15, OneSteps

LEMMA AckGroupStep ==
    ASSUME Inductive, NEW w \in Workers, NEW lost \in BOOLEAN, AckGroup(w, lost)
    PROVE  Inductive'
<1> DEFINE s == worker[w]
           ids == GroupIds(s)
           rest == s.plan \ {GroupPart(s)}
           kept == Without(s.buffer, ids)
           exported == s.exported \cup ids
           clock == IF ResetsReclaim THEN 0 ELSE s.sinceReclaim
           pc == IF rest # {} THEN "upload" ELSE "xinfo"
           t == [s EXCEPT !.buffer = kept, !.plan = rest, !.exported = exported,
                          !.sinceReclaim = clock, !.pc = pc]
           state == IF rest # {} \/ Trims THEN t ELSE AfterFlush(t)
           u == IF lost THEN Retry(s) ELSE state
<1>1. Shared /\ Shape(s) /\ Claims(s) /\ s.pc = "ack" /\ s \in Worker
  BY DEF Inductive, AckGroup, At, Shape
<1>2. /\ XAck(ids) /\ UNCHANGED <<stream, trimmed, lastDelivered, objects, letters>>
      /\ Reply(w, lost, state)
  <2>1. t = [s EXCEPT !.buffer = Without(@, ids), !.plan = rest, !.exported = @ \cup ids,
                      !.sinceReclaim = IF ResetsReclaim THEN 0 ELSE @, !.pc = pc]
    BY <1>1 DEF Worker
  <2> QED
    BY <2>1 DEF AckGroup
<1>3. Becomes(w, u) /\ faults' \in 0..MaxFaults
  BY <1>1, <1>2, ConstantsOK DEF Reply, Shared
<1>4. /\ \A i \in ids : Stored(i)
      /\ ids \subseteq Rows(s) /\ Rows(s) \subseteq 1..lastDelivered /\ ids # {}
      /\ 1..lastDelivered \subseteq Ids /\ 1..lastDelivered \subseteq Published
  BY <1>1, GroupFacts, RowsFacts, SharedFacts DEF Claims
<1> HIDE DEF state
<1>5. /\ Shared' /\ Grows
      /\ \A i \in Published' : Acked(i)' => (i \in Published /\ Acked(i)) \/ Stored(i)'
      /\ \A i \in ids : i \in 1..lastDelivered => Acked(i)'
  BY <1>2, <1>3, <1>4, AckFacts
<1>6. kept \in Seq(1..lastDelivered) /\ kept \in Seq(Ids)
  <2>1. s.buffer \in Seq(1..lastDelivered)
    BY <1>1 DEF Shape
  <2>2. kept \in Seq(1..lastDelivered)
    BY <2>1, WithoutFacts
  <2> QED
    BY <1>4, <2>2, SeqMonotonic
<1>7. /\ rest \subseteq Partitions /\ exported \subseteq Ids /\ clock \in 0..ReclaimInterval
      /\ pc \in {"upload", "xinfo"}
  BY <1>1, <1>4, ConstantsOK DEF Worker
<1>8. \A p \in rest : p \in PartsOf({kept[k] : k \in DOMAIN kept})
  <2> SUFFICES ASSUME NEW p \in rest PROVE p \in PartsOf({kept[k] : k \in DOMAIN kept})
    OBVIOUS
  <2>1. p \in s.plan /\ p # GroupPart(s) /\ p \in PartsOf(Rows(s))
    BY <1>1 DEF Shape
  <2>2. PICK i \in Rows(s) : stream[i].part = p
    BY <2>1 DEF PartsOf
  <2>3. i \notin ids
    BY <1>1, <2>1, <2>2, GroupFacts
  <2>4. PICK k \in 1..Len(s.buffer) : s.buffer[k] = i
    BY <1>1, <2>2, RowsFacts DEF Rows
  <2>5. s.buffer \in Seq(1..lastDelivered)
    BY <1>1 DEF Shape
  <2>a. \A m \in 1..Len(s.buffer) : s.buffer[m] \notin ids =>
            \E n \in 1..Len(kept) : kept[n] = s.buffer[m]
    BY <2>5, WithoutFacts
  <2> HIDE DEF kept, ids, rest
  <2>6. PICK n \in 1..Len(kept) : kept[n] = i
    BY <2>3, <2>4, <2>a
  <2>7. n \in DOMAIN kept
    BY <1>6
  <2>8. i \in {kept[m] : m \in DOMAIN kept}
    BY <2>6, <2>7
  <2> QED
    BY <2>2, <2>8 DEF PartsOf
<1>9. /\ t \in Worker /\ t.pc = pc /\ t.todo = s.todo /\ t.buffer = kept /\ t.plan = rest
      /\ t.exported = exported
  <2> HIDE DEF kept, rest, exported, clock, pc
  <2> QED
    BY <1>1, <1>6, <1>7 DEF Worker
<1> HIDE DEF t
<1>10. Shape(t)
  <2>1. Rows(t) = {kept[k] : k \in DOMAIN kept}
    BY <1>9 DEF Rows
  <2>2. pc = "upload" => rest # {}
    OBVIOUS
  <2>3. pc # "ack"
    OBVIOUS
  <2>4. s.todo \subseteq 1..lastDelivered
    BY <1>1 DEF Shape
  <2> HIDE DEF kept, rest, pc
  <2>5. rest \subseteq PartsOf(Rows(t))
    BY <1>8, <2>1
  <2> QED
    BY <1>6, <1>9, <2>2, <2>3, <2>4, <2>5 DEF Shape
<1>11. worker'[w] = u
  BY <1>3 DEF Becomes, Inductive
<1>12. CASE ~lost /\ (rest # {} \/ Trims)
  <2>1. worker'[w] = t
    BY <1>11, <1>12 DEF state
  <2>2. Shape(worker[w])'
    BY <1>1, <1>5, <1>10, <2>1, ShapeStays
  <2>3. \A i \in exported : Acked(i)'
    <3>1. \A i \in s.exported : i \in Published /\ Acked(i)
      BY <1>1, <1>4 DEF Claims, Worker, Ids, Acked
    <3> QED
      BY <1>4, <1>5, <3>1 DEF Grows
  <2>4. exported # {}
    BY <1>4
  <2> HIDE DEF exported
  <2>5. Claims(worker[w])'
    BY <1>7, <1>9, <2>1, <2>3, <2>4 DEF Claims
  <2> QED
    BY <1>2, <1>3, <1>5, <2>2, <2>5, OneSteps
<1>13. CASE lost \/ ~(rest # {} \/ Trims)
  <2>1. Shape(u) /\ Claims(u)
    BY <1>1, <1>10, <1>13, RetryOk, AfterFlushOk DEF state
  <2> HIDE DEF u
  <2>2. Shape(worker[w])' /\ Claims(worker[w])'
    BY <1>1, <1>5, <1>11, <2>1, ShapeStays, ClaimsStay
  <2> QED
    BY <1>2, <1>3, <1>5, <2>2, OneSteps
<1> QED
  BY <1>12, <1>13

\* Trimming before the cut.
LEMMA XTrimStep ==
    ASSUME Inductive, NEW w \in Workers, NEW n \in 0..MaxEntries, NEW lost \in BOOLEAN,
           XTrim(w, n, lost)
    PROVE  Inductive'
<1> DEFINE s == worker[w]
           u == IF lost THEN Retry(s) ELSE AfterFlush(s)
<1>1. Shared /\ Shape(s) /\ Claims(s) /\ s.pc = "xtrim"
  BY DEF Inductive, XTrim, At
<1>2. /\ trimmed' = n /\ (n = trimmed \/ n <= s.cut)
      /\ UNCHANGED <<stream, lastDelivered, pending, idle, objects, letters>>
      /\ Becomes(w, u) /\ faults' \in 0..MaxFaults
  BY <1>1, ConstantsOK DEF XTrim, Reply, Shared
<1>3. Shape(u) /\ Claims(u)
  BY <1>1, RetryOk, AfterFlushOk
<1> HIDE DEF u
<1>4. Shared'
  BY <1>1, <1>2 DEF Shared, Published
<1>5. \A i : (Acked(i)' <=> Acked(i)) /\ (Stored(i)' <=> Stored(i))
  BY <1>2 DEF Acked, Stored
<1>6. Grows
  <2>1. Len(stream) \in Nat /\ lastDelivered \in Nat
    BY <1>1, SharedFacts
  <2> QED
    BY <1>2, <1>5, <2>1 DEF Grows
<1>7. worker' = [worker EXCEPT ![w] = u] /\ worker \in [Workers -> Worker]
  BY <1>2 DEF Becomes, Inductive
<1>8. worker' \in [Workers -> Worker]
  BY <1>3, <1>7 DEF Shape
<1>9. ASSUME NEW v \in Workers PROVE Shape(worker[v])' /\ Claims(worker[v])'
  <2>1. CASE v = w
    <3>1. worker'[w] = u
      BY <1>7
    <3> QED
      BY <1>1, <1>3, <1>4, <1>6, <2>1, <3>1, ShapeStays, ClaimsStay
  <2>2. CASE v # w
    BY <1>4, <1>6, <1>7, <2>2, OtherStays
  <2> QED
    BY <2>1, <2>2
<1>10. \A i \in 1..n : Acked(i) /\ Old(i)
  <2>1. CASE n = trimmed
    BY <2>1 DEF Inductive, TrimAfterAck, RetentionKept, Old
  <2>2. CASE n <= s.cut
    <3>1. s.cut \in Int /\ n \in Int
      BY <1>1 DEF Shape, Worker
    <3>2. 1..n \subseteq 1..s.cut
      BY <2>2, <3>1
    <3> QED
      BY <1>1, <3>2 DEF Claims
  <2> QED
    BY <1>2, <2>1, <2>2
<1>11. TrimAfterAck'
  BY <1>2, <1>5, <1>10 DEF TrimAfterAck
<1>12. RetentionKept'
  BY <1>2, <1>5, <1>10 DEF RetentionKept, Old, Published
<1>13. AckAfterStore'
  BY <1>2, <1>5 DEF Inductive, AckAfterStore, Published
<1> QED
  BY <1>4, <1>8, <1>9, <1>11, <1>12, <1>13 DEF Inductive

\* Entries handed to a worker: the rest of the group is as it was.
LEMMA DeliverFacts ==
    ASSUME Inductive, NEW STATE entries, NEW STATE upTo, upTo \in lastDelivered..Len(stream),
           entries \subseteq pending \cup (lastDelivered + 1)..upTo,
           \A i \in (lastDelivered + 1)..upTo : i \in entries,
           Deliver(entries), lastDelivered' = upTo, faults' \in 0..MaxFaults
    PROVE  /\ Shared' /\ Grows /\ UNCHANGED trimmed
           /\ \A i \in Published' : Acked(i)' => i \in Published /\ Acked(i)
           /\ entries \subseteq 1..lastDelivered' /\ 1..lastDelivered' \subseteq Ids
<1>1. /\ Shared /\ lastDelivered \in Nat /\ Len(stream) \in Nat /\ MaxEntries \in Nat
      /\ lastDelivered <= Len(stream) /\ Len(stream) <= MaxEntries
      /\ pending \subseteq 1..lastDelivered
  BY SharedFacts DEF Inductive, Shared
<1>2. /\ pending' = pending \cup entries /\ idle' \in [Ids -> 0..PendingIdle]
      /\ UNCHANGED <<stream, trimmed, objects, letters>>
  BY <1>1, ConstantsOK DEF Deliver, Shared
<1>3. upTo \in Nat /\ lastDelivered <= upTo /\ upTo <= Len(stream)
  BY <1>1
<1>4. entries \subseteq 1..upTo /\ pending \subseteq 1..upTo /\ 1..upTo \subseteq Ids
  BY <1>1, <1>3 DEF Ids
<1>5. Shared'
  BY <1>1, <1>2, <1>3, <1>4 DEF Shared, Published
<1>6. ASSUME NEW i \in Published PROVE Acked(i)' <=> Acked(i)
  <2>1. i \in Nat /\ i >= 1
    BY <1>1 DEF Published
  <2>2. CASE i <= lastDelivered
    <3>1. i \notin (lastDelivered + 1)..upTo
      BY <1>1, <1>3, <2>1, <2>2
    <3>2. i \in entries => i \in pending
      BY <3>1
    <3> QED
      BY <1>1, <1>2, <1>3, <2>1, <2>2, <3>2 DEF Acked
  <2>3. CASE ~(i <= lastDelivered)
    <3>1. i <= upTo => i \in entries
      BY <1>1, <1>3, <2>1, <2>3
    <3> QED
      BY <1>2, <2>3, <3>1 DEF Acked
  <2> QED
    BY <2>2, <2>3
<1>7. Grows
  <2>1. \A i : Stored(i)' <=> Stored(i)
    BY <1>2 DEF Stored
  <2> QED
    BY <1>1, <1>2, <1>3, <1>6, <2>1 DEF Grows
<1> QED
  BY <1>2, <1>4, <1>5, <1>6, <1>7 DEF Published

\* A reply with entries, or the loss of it.
LEMMA DeliverStep ==
    ASSUME Inductive, NEW w \in Workers, NEW lost \in BOOLEAN,
           NEW STATE entries, NEW STATE upTo, NEW STATE t,
           upTo \in lastDelivered..Len(stream),
           entries \subseteq pending \cup (lastDelivered + 1)..upTo,
           \A i \in (lastDelivered + 1)..upTo : i \in entries,
           Deliver(entries), lastDelivered' = upTo,
           Reply(w, lost, t),
           entries \subseteq Ids => t \in Worker,
           t.pc = "ingest", t.todo = entries, t.buffer = worker[w].buffer,
           t.exported = worker[w].exported
    PROVE  /\ Inductive'
           /\ Grows /\ UNCHANGED <<stream, trimmed, objects, letters>>
           /\ \A i \in Published' : Acked(i)' => i \in Published /\ Acked(i)
<1> DEFINE s == worker[w]
           u == IF lost THEN Retry(s) ELSE t
<1>1. Shared /\ Shape(s) /\ Claims(s)
  BY DEF Inductive
<1>2. Becomes(w, u) /\ faults' \in 0..MaxFaults
  BY <1>1, ConstantsOK DEF Reply, Shared
<1>3. /\ Shared' /\ Grows /\ UNCHANGED trimmed
      /\ \A i \in Published' : Acked(i)' => i \in Published /\ Acked(i)
      /\ entries \subseteq 1..lastDelivered' /\ 1..lastDelivered' \subseteq Ids
  BY <1>2, DeliverFacts
<1>4. worker'[w] = u
  BY <1>2 DEF Becomes, Inductive
<1>5. ASSUME lost PROVE Inductive'
  <2>1. Shape(u) /\ Claims(u)
    BY <1>1, <1>5, RetryOk
  <2> HIDE DEF u
  <2>2. Shape(worker[w])' /\ Claims(worker[w])'
    BY <1>1, <1>3, <1>4, <2>1, ShapeStays, ClaimsStay
  <2> QED
    BY <1>2, <1>3, <2>2, OneSteps
<1>6. ASSUME ~lost PROVE Inductive'
  <2>1. worker'[w] = t /\ t \in Worker
    BY <1>3, <1>4, <1>6
  <2>2. 1..lastDelivered \subseteq 1..lastDelivered'
    BY <1>1, <1>3, SharedFacts DEF Grows, Shared
  <2>3. s.buffer \in Seq(1..lastDelivered')
    BY <1>1, <2>2, SeqMonotonic DEF Shape
  <2>4. Shape(worker[w])'
    BY <1>3, <2>1, <2>3 DEF Shape, Worker
  <2>5. \A i \in s.exported : Acked(i)'
    <3>1. \A i \in s.exported : i \in Published /\ Acked(i)
      BY <1>1, SharedFacts DEF Claims, Shape, Worker, Ids, Acked
    <3> QED
      BY <1>3, <3>1 DEF Grows
  <2>6. Claims(worker[w])'
    BY <2>1, <2>5 DEF Claims
  <2> QED
    BY <1>2, <1>3, <2>4, <2>6, OneSteps
<1>7. UNCHANGED <<stream, trimmed, objects, letters>>
  BY DEF Deliver
<1> QED
  BY <1>3, <1>5, <1>6, <1>7

LEMMA ReclaimStep ==
    ASSUME Inductive, NEW w \in Workers, NEW lost \in BOOLEAN, Reclaim(w, lost)
    PROVE  /\ Inductive'
           /\ Grows /\ UNCHANGED <<stream, trimmed, objects, letters>>
           /\ \A i \in Published' : Acked(i)' => i \in Published /\ Acked(i)
<1> DEFINE s == worker[w]
           eligible == {i \in pending : idle[i] >= PendingIdle}
           entries == {i \in eligible : Cardinality({j \in eligible : j < i}) < ReadCount}
           t == [s EXCEPT !.pc = "ingest", !.phase = "reclaim", !.todo = entries,
                          !.sinceReclaim = 0]
<1>1. Shared /\ s \in Worker
  BY DEF Inductive, Shape
<1>2. Deliver(entries) /\ UNCHANGED lastDelivered /\ Reply(w, lost, t)
  BY DEF Reclaim
<1>3. entries \subseteq pending
  OBVIOUS
<1> HIDE DEF entries
<1>4. 0 \in 0..ReclaimInterval
  BY ConstantsOK
<1>5. entries \subseteq Ids => t \in Worker
  BY <1>1, <1>4 DEF Worker
<1>6. /\ t.pc = "ingest" /\ t.todo = entries /\ t.buffer = s.buffer
      /\ t.exported = s.exported
  BY <1>1 DEF Worker
<1> HIDE DEF t
<1>7. /\ lastDelivered \in lastDelivered..Len(stream)
      /\ \A i \in (lastDelivered + 1)..lastDelivered : i \in entries
  BY <1>1, SharedFacts
<1>8. entries \subseteq pending \cup (lastDelivered + 1)..lastDelivered
  BY <1>3
<1>9. lastDelivered' = lastDelivered
  BY <1>2
<1> QED
  BY <1>2, <1>5, <1>6, <1>7, <1>8, <1>9, DeliverStep

LEMMA ReadStep ==
    ASSUME Inductive, NEW w \in Workers, NEW lost \in BOOLEAN, Read(w, lost)
    PROVE  /\ Inductive'
           /\ Grows /\ UNCHANGED <<stream, trimmed, objects, letters>>
           /\ \A i \in Published' : Acked(i)' => i \in Published /\ Acked(i)
<1> DEFINE s == worker[w]
           capacity == IF Len(s.buffer) < FlushSize THEN FlushSize - Len(s.buffer) ELSE 1
           upTo == Min2(lastDelivered + Min2(ReadCount, capacity), Len(stream))
           entries == {i \in Ids : lastDelivered < i /\ i <= upTo}
           t == [s EXCEPT !.pc = "ingest", !.phase = "read", !.todo = entries]
<1>1. Shared /\ s \in Worker /\ Shape(s)
  BY DEF Inductive, Shape
<1>2. Deliver(entries) /\ lastDelivered' = upTo /\ Reply(w, lost, t)
  BY DEF Read
<1>3. /\ lastDelivered \in Nat /\ Len(stream) \in Nat /\ lastDelivered <= Len(stream)
      /\ MaxEntries \in Nat /\ Len(stream) <= MaxEntries
  BY <1>1, SharedFacts DEF Shared
<1>4. capacity \in Nat
  <2>1. Len(s.buffer) \in Nat /\ FlushSize \in Nat
    BY <1>1, RowsFacts, ConstantsOK
  <2> QED
    BY <2>1
<1> HIDE DEF capacity
<1>5. upTo \in lastDelivered..Len(stream)
  <2>1. Min2(ReadCount, capacity) \in Nat
    BY <1>4, ConstantsOK DEF Min2
  <2> QED
    BY <1>3, <2>1 DEF Min2
<1> HIDE DEF upTo
<1>6. entries = (lastDelivered + 1)..upTo
  <2>1. upTo \in Nat /\ upTo <= MaxEntries
    BY <1>3, <1>5
  <2>2. \A i \in (lastDelivered + 1)..upTo : i \in Ids
    BY <1>3, <2>1 DEF Ids
  <2>3. \A i \in entries : i \in Nat
    BY DEF Ids
  <2> QED
    BY <1>3, <2>1, <2>2, <2>3
<1> HIDE DEF entries
<1>7. entries \subseteq Ids => t \in Worker
  BY <1>1 DEF Worker
<1>8. /\ t.pc = "ingest" /\ t.todo = entries /\ t.buffer = s.buffer
      /\ t.exported = s.exported
  BY <1>1 DEF Worker
<1> HIDE DEF t
<1>9. /\ entries \subseteq pending \cup (lastDelivered + 1)..upTo
      /\ \A i \in (lastDelivered + 1)..upTo : i \in entries
  BY <1>6
<1> QED
  BY <1>2, <1>5, <1>7, <1>8, <1>9, DeliverStep

\* Nobody acts: the environment publishes, or time passes.
LEMMA NobodySteps ==
    ASSUME Inductive, Shared', Grows, UNCHANGED <<trimmed, lastDelivered, pending>>,
           worker' \in [Workers -> Worker],
           \A v \in Workers : Shape(worker[v])' /\ Claims(worker[v])'
    PROVE  Inductive'
<1>1. Shared /\ AckAfterStore
  BY DEF Inductive
<1>2. \A i : Acked(i)' <=> Acked(i)
  BY DEF Acked
<1>3. AckAfterStore'
  <2> SUFFICES ASSUME NEW i \in Published', Acked(i)' PROVE Stored(i)'
    BY DEF AckAfterStore
  <2>1. Acked(i) /\ i \in Nat /\ i >= 1 /\ i <= lastDelivered
    BY <1>1, <1>2, SharedFacts DEF Acked, Published, Shared
  <2>2. i \in Published
    BY <1>1, <2>1, SharedFacts
  <2> QED
    BY <1>1, <2>1, <2>2 DEF AckAfterStore, Grows
<1> QED
  BY <1>3, TrimmedStays DEF Inductive

LEMMA PublishStep ==
    ASSUME Inductive, NEW k \in Kinds, NEW p \in Partitions, NEW t \in Times, Publish(k, p, t)
    PROVE  Inductive'
<1> DEFINE e == [kind |-> k, part |-> p, ms |-> t]
<1>1. /\ Shared /\ Len(stream) \in Nat /\ MaxEntries \in Nat /\ lastDelivered \in Nat
      /\ lastDelivered <= Len(stream) /\ t \in Nat
  BY SharedFacts, ConstantsOK DEF Inductive
<1>2. /\ Len(stream) < MaxEntries /\ \A i \in 1..Len(stream) : stream[i].ms <= t
      /\ stream' = Append(stream, e)
      /\ UNCHANGED <<trimmed, lastDelivered, pending, idle, objects, letters, worker, faults>>
  BY DEF Publish
<1>3. e \in Entry /\ e.ms = t
  BY DEF Entry
<1> HIDE DEF e
<1>4. /\ stream' \in Seq(Entry) /\ Len(stream') = Len(stream) + 1
      /\ \A i \in 1..Len(stream) : stream'[i] = stream[i]
      /\ stream'[Len(stream) + 1] = e
  BY <1>1, <1>2, <1>3 DEF Shared
<1>5. \A i, j \in Published' : i <= j => stream'[i].ms <= stream'[j].ms
  <2> SUFFICES ASSUME NEW i \in 1..Len(stream'), NEW j \in 1..Len(stream'), i <= j
               PROVE  stream'[i].ms <= stream'[j].ms
    BY DEF Published
  <2>1. CASE j <= Len(stream)
    <3>1. i \in 1..Len(stream) /\ j \in 1..Len(stream)
      BY <1>1, <1>4, <2>1
    <3> QED
      BY <1>1, <1>4, <3>1 DEF Shared, Published
  <2>2. CASE i <= Len(stream) /\ j = Len(stream) + 1
    <3>1. i \in 1..Len(stream)
      BY <1>1, <2>2
    <3> QED
      BY <1>2, <1>3, <1>4, <2>2, <3>1
  <2>3. CASE i = Len(stream) + 1 /\ j = Len(stream) + 1
    BY <1>1, <1>3, <1>4, <2>3
  <2> QED
    BY <1>1, <1>4, <2>1, <2>2, <2>3
<1>6. Shared'
  <2>1. Len(stream') <= MaxEntries /\ lastDelivered' \in 0..Len(stream')
    BY <1>1, <1>2, <1>4
  <2>2. /\ trimmed' \in 0..MaxEntries /\ pending' \subseteq 1..lastDelivered'
        /\ idle' \in [Ids -> 0..PendingIdle] /\ objects' \subseteq Objects
        /\ letters' \subseteq Ids /\ faults' \in 0..MaxFaults
    BY <1>1, <1>2 DEF Shared
  <2> QED
    BY <1>4, <1>5, <2>1, <2>2 DEF Shared
<1>7. Grows
  BY <1>1, <1>2, <1>4 DEF Grows, Published, Acked, Stored
<1>8. \A v \in Workers : Shape(worker[v])' /\ Claims(worker[v])'
  BY <1>2, <1>6, <1>7, OtherStays
<1>9. worker' \in [Workers -> Worker]
  BY <1>2 DEF Inductive
<1> QED
  BY <1>2, <1>6, <1>7, <1>8, <1>9, NobodySteps

LEMMA TickStep ==
    ASSUME Inductive, Tick PROVE Inductive'
<1> DEFINE tick(v) == [worker[v] EXCEPT
               !.sinceReclaim = UpTo(worker[v].sinceReclaim, ReclaimInterval),
               !.sinceFlush = IF worker[v].buffer = <<>> THEN worker[v].sinceFlush
                              ELSE UpTo(worker[v].sinceFlush, FlushInterval)]
<1>1. Shared /\ worker \in [Workers -> Worker]
  BY DEF Inductive
<1>2. /\ UNCHANGED <<stream, trimmed, lastDelivered, pending, objects, letters, faults>>
      /\ idle' = [i \in Ids |-> IF i \in pending THEN UpTo(idle[i], PendingIdle) ELSE idle[i]]
  BY DEF Tick
<1>3. worker' = [v \in Workers |-> tick(v)]
  BY <1>1 DEF Tick, Worker
<1>4. idle' \in [Ids -> 0..PendingIdle]
  BY <1>1, <1>2, ConstantsOK DEF Shared, UpTo
<1>5. Shared'
  BY <1>1, <1>2, <1>4 DEF Shared, Published
<1>6. Grows
  <2>1. Len(stream) \in Nat /\ lastDelivered \in Nat
    BY <1>1, SharedFacts
  <2> QED
    BY <1>2, <2>1 DEF Grows, Acked, Stored
<1>7. ASSUME NEW v \in Workers
      PROVE  /\ worker'[v] \in Worker
             /\ Shape(worker[v])' /\ Claims(worker[v])'
  <2>1. worker'[v] = tick(v)
    BY <1>3
  <2>2. worker[v] \in Worker /\ Shape(worker[v]) /\ Claims(worker[v])
    BY DEF Inductive
  <2>3. /\ UpTo(worker[v].sinceReclaim, ReclaimInterval) \in 0..ReclaimInterval
        /\ UpTo(worker[v].sinceFlush, FlushInterval) \in 0..FlushInterval
    BY <2>2, ConstantsOK DEF UpTo, Worker
  <2>4. /\ tick(v) \in Worker /\ tick(v).pc = worker[v].pc /\ tick(v).todo = worker[v].todo
        /\ tick(v).buffer = worker[v].buffer /\ tick(v).plan = worker[v].plan
        /\ tick(v).exported = worker[v].exported /\ tick(v).cut = worker[v].cut
    BY <2>2, <2>3 DEF Worker
  <2> HIDE DEF tick
  <2>5. Shape(tick(v)) /\ Claims(tick(v))
    BY <2>2, <2>4, SameClaims
  <2>6. Shape(worker[v])' /\ Claims(worker[v])'
    BY <1>1, <1>5, <1>6, <2>1, <2>5, ShapeStays, ClaimsStay
  <2> QED
    BY <2>1, <2>4, <2>6
<1>8. worker' \in [Workers -> Worker]
  BY <1>3, <1>7
<1> QED
  BY <1>2, <1>5, <1>6, <1>7, <1>8, NobodySteps

-----------------------------------------------------------------------------
(* The invariant holds *)

LEMMA InitInductive == Init => Inductive
<1> SUFFICES ASSUME Init PROVE Inductive
  OBVIOUS
<1> USE DEF Init
<1>1. stream \in Seq(Entry) /\ Len(stream) = 0
  BY EmptySeq
<1>2. idle \in [Ids -> 0..PendingIdle]
  BY ConstantsOK
<1>3. Shared
  <2>1. Published = {}
    BY <1>1 DEF Published
  <2> QED
    BY <1>1, <1>2, <2>1, ConstantsOK DEF Shared
<1>4. \A w \in Workers : Shape(worker[w]) /\ Claims(worker[w]) /\ worker[w] \in Worker
  BY <1>3, FreshOk DEF Shape
<1>5. worker \in [Workers -> Worker]
  BY <1>4
<1>6. AckAfterStore /\ TrimAfterAck /\ RetentionKept
  BY <1>1 DEF AckAfterStore, TrimAfterAck, RetentionKept, Published
<1> QED
  BY <1>3, <1>4, <1>5, <1>6 DEF Inductive

LEMMA NextInductive == Inductive /\ [Next]_vars => Inductive'
<1> SUFFICES ASSUME Inductive, [Next]_vars PROVE Inductive'
  OBVIOUS
<1>1. CASE UNCHANGED vars
  <2>1. UNCHANGED <<stream, trimmed, lastDelivered, pending, idle, objects, letters, worker,
                    faults>>
    BY <1>1 DEF vars, redis
  <2>2. Shared /\ worker' \in [Workers -> Worker]
    BY <2>1 DEF Inductive
  <2>3. Shared'
    BY <2>1, <2>2 DEF Shared, Published
  <2>4. Grows
    <3>1. Len(stream) \in Nat /\ lastDelivered \in Nat
      BY <2>2, SharedFacts
    <3> QED
      BY <2>1, <3>1 DEF Grows, Acked, Stored
  <2>5. \A v \in Workers : Shape(worker[v])' /\ Claims(worker[v])'
    BY <2>1, <2>3, <2>4, OtherStays
  <2> QED
    BY <2>1, <2>2, <2>3, <2>4, <2>5, NobodySteps
<1>2. CASE \E k \in Kinds, p \in Partitions, t \in Times : Publish(k, p, t)
  BY <1>2, PublishStep
<1>3. CASE Tick
  BY <1>3, TickStep
<1>4. ASSUME NEW w \in Workers, Step(w) PROVE Inductive'
  <2>1. CASE Start(w) \/ Loop(w) \/ Upload(w) \/ UploadLetter(w) \/ Ingested(w)
             \/ XInfo(w) \/ XPending(w)
    BY <2>1, StartStep, LoopStep, UploadStep, UploadLetterStep, IngestedStep, XInfoStep,
       XPendingStep
  <2>2. CASE \E i \in Ids : Buffer(w, i) \/ DeadLetter(w, i) \/ Exclude(w, i)
    BY <2>2, BufferStep, DeadLetterStep, ExcludeStep
  <2>3. CASE Reclaim(w, FALSE) \/ Read(w, FALSE) \/ AckOne(w, FALSE) \/ AckGroup(w, FALSE)
    BY <2>3, ReclaimStep, ReadStep, AckOneStep, AckGroupStep
  <2>4. CASE \E n \in 0..MaxEntries : XTrim(w, n, FALSE)
    BY <2>4, XTrimStep
  <2> QED
    BY <1>4, <2>1, <2>2, <2>3, <2>4 DEF Step
<1>5. ASSUME NEW w \in Workers, LostReply(w) PROVE Inductive'
  <2>1. CASE Reclaim(w, TRUE) \/ Read(w, TRUE) \/ AckOne(w, TRUE) \/ AckGroup(w, TRUE)
    BY <2>1, ReclaimStep, ReadStep, AckOneStep, AckGroupStep
  <2>2. CASE \E n \in 0..MaxEntries : XTrim(w, n, TRUE)
    BY <2>2, XTrimStep
  <2> QED
    BY <1>5, <2>1, <2>2 DEF LostReply
<1>6. ASSUME NEW w \in Workers, RedisError(w) \/ Abort(w) \/ Terminate(w) \/ Kill(w)
      PROVE  Inductive'
  BY <1>6, RedisErrorStep, AbortStep, TerminateStep, KillStep
<1> QED
  BY <1>1, <1>2, <1>3, <1>4, <1>5, <1>6 DEF Next

LEMMA Invariance == Spec => []Inductive
BY InitInductive, NextInductive, PTL DEF Spec

-----------------------------------------------------------------------------
(* Theorems *)

\* Every variable of the exporter keeps its type, for any number of workers,
\* partitions, entries and faults, and any setting of the services.
THEOREM TypesHold == Spec => []TypeOK
<1>1. Inductive => TypeOK
  <2> SUFFICES ASSUME Inductive PROVE TypeOK
    OBVIOUS
  <2>1. Shared /\ worker \in [Workers -> Worker]
    BY DEF Inductive
  <2>2. pending \subseteq Ids
    BY <2>1, SharedFacts DEF Shared
  <2> QED
    BY <2>1, <2>2 DEF Shared, TypeOK
<1> QED
  BY <1>1, Invariance, PTL

\* No entry is acknowledged before its object or dead letter is in GCS.
THEOREM AcksAfterStore == Spec => []AckAfterStore
<1>1. Inductive => AckAfterStore
  BY DEF Inductive
<1> QED
  BY <1>1, Invariance, PTL

\* Nothing pending or undelivered is ever trimmed, however the commands of
\* trim_exported interleave with those of other workers.
THEOREM TrimsAfterAck == Spec => []TrimAfterAck
<1>1. Inductive => TrimAfterAck
  BY DEF Inductive
<1> QED
  BY <1>1, Invariance, PTL

\* Trimming leaves the retention window before the newest acknowledged entry.
THEOREM KeepsRetention == Spec => []RetentionKept
<1>1. Inductive => RetentionKept
  BY DEF Inductive
<1> QED
  BY <1>1, Invariance, PTL

\* The exporter implements the archive: each step stores, acknowledges what is
\* stored, removes what is acknowledged, or changes none of the three.
THEOREM ExporterArchives == Spec => StoresBeforeAck
<1> DEFINE stored == {i \in Published : Stored(i)}
           acked == {i \in Published : Acked(i)}
           removed == 1..trimmed
           Same == UNCHANGED <<stored, acked, removed>>
           Allowed == Archive!Store \/ Archive!Ack \/ Archive!Remove \/ Same
<1>1. Init => Archive!Init
  <2> SUFFICES ASSUME Init PROVE Archive!Init
    OBVIOUS
  <2>1. Published = {} /\ trimmed = 0
    BY EmptySeq DEF Init, Published
  <2> QED
    BY <2>1 DEF Archive!Init
<1>2. Inductive /\ Inductive' /\ [Next]_vars => Allowed
  <2> SUFFICES ASSUME Inductive, Inductive', [Next]_vars PROVE Allowed
    OBVIOUS
  <2>1. /\ Shared /\ Shared' /\ Published \subseteq Ids /\ Published' \subseteq Ids
        /\ Len(stream) \in Nat /\ lastDelivered \in Nat /\ lastDelivered <= Len(stream)
    <3>1. Shared /\ Shared'
      BY DEF Inductive
    <3>2. Published' \subseteq Ids
      BY <3>1, ConstantsOK DEF Shared, Published, Ids
    <3> QED
      BY <3>1, <3>2, SharedFacts
  <2>2. acked \subseteq stored /\ acked' \subseteq stored'
    BY DEF Inductive, AckAfterStore
  <2>3. ASSUME UNCHANGED <<stream, trimmed, lastDelivered, pending, objects, letters>> PROVE Same
    BY <2>3 DEF Published, Acked, Stored
  <2>4. ASSUME UNCHANGED <<trimmed, lastDelivered, pending>>, stored \subseteq stored',
               acked' = acked
        PROVE  Archive!Store
    BY <2>1, <2>4 DEF Archive!Store
  <2>5. CASE Tick \/ UNCHANGED vars
    BY <2>3, <2>5 DEF Tick, vars, redis
  <2>6. ASSUME NEW k \in Kinds, NEW p \in Partitions, NEW t \in Times, Publish(k, p, t)
        PROVE  Archive!Store
    <3> DEFINE e == [kind |-> k, part |-> p, ms |-> t]
    <3>1. /\ stream' = Append(stream, e)
          /\ UNCHANGED <<trimmed, lastDelivered, pending, objects, letters>>
      BY <2>6 DEF Publish
    <3>2. e \in Entry
      BY DEF Entry
    <3> HIDE DEF e
    <3>3. /\ Len(stream') = Len(stream) + 1
          /\ \A i \in Published : stream'[i] = stream[i] /\ i \in Published'
      BY <2>1, <3>1, <3>2 DEF Shared, Published
    <3>4. stored \subseteq stored'
      BY <3>1, <3>3 DEF Stored
    <3>5. acked' = acked
      <4>1. \A i \in Published' : i <= lastDelivered => i \in Published
        BY <2>1, <3>3 DEF Published
      <4> QED
        BY <3>1, <3>3, <4>1 DEF Acked
    <3> QED
      BY <2>4, <3>1, <3>4, <3>5
  <2>7. ASSUME NEW w \in Workers, Upload(w) \/ UploadLetter(w) PROVE Archive!Store
    <3>1. /\ UNCHANGED <<stream, trimmed, lastDelivered, pending>>
          /\ objects \subseteq objects' /\ letters \subseteq letters'
      BY <2>7 DEF Upload, UploadLetter, redis
    <3>2. stored \subseteq stored' /\ acked' = acked
      BY <3>1 DEF Stored, Acked, Published
    <3> QED
      BY <2>4, <3>1, <3>2
  <2>8. ASSUME NEW w \in Workers, NEW lost \in BOOLEAN, AckOne(w, lost) \/ AckGroup(w, lost)
        PROVE  Archive!Ack
    <3>1. /\ UNCHANGED <<stream, trimmed, lastDelivered, objects, letters>>
          /\ pending' \subseteq pending
      BY <2>8 DEF AckOne, AckGroup, XAck
    <3>2. stored' = stored /\ removed' = removed /\ acked \subseteq acked'
      BY <3>1 DEF Stored, Acked, Published
    <3> QED
      BY <2>2, <3>2 DEF Archive!Ack
  <2>9. ASSUME NEW w \in Workers, NEW lost \in BOOLEAN, Reclaim(w, lost) \/ Read(w, lost)
        PROVE  Same
    <3>1. /\ Grows /\ UNCHANGED <<stream, trimmed, objects, letters>>
          /\ \A i \in Published' : Acked(i)' => i \in Published /\ Acked(i)
      BY <2>9, ReclaimStep, ReadStep
    <3>2. stored' = stored /\ removed' = removed
      BY <3>1 DEF Stored, Published
    <3>3. acked' = acked
      BY <3>1 DEF Grows, Published
    <3> QED
      BY <3>2, <3>3
  <2>10. ASSUME NEW w \in Workers, NEW n \in 0..MaxEntries, NEW lost \in BOOLEAN,
                XTrim(w, n, lost)
         PROVE  Archive!Remove
    <3>1. /\ trimmed <= n /\ trimmed' = n
          /\ UNCHANGED <<stream, lastDelivered, pending, objects, letters>>
      BY <2>10 DEF XTrim
    <3>2. stored' = stored /\ acked' = acked
      BY <3>1 DEF Stored, Acked, Published
    <3>3. removed \subseteq removed'
      BY <3>1, ConstantsOK, <2>1 DEF Shared
    <3>4. removed' \subseteq acked'
      <4>1. \A i \in 1..n : Acked(i)'
        BY <3>1 DEF Inductive, TrimAfterAck
      <4>2. \A i \in 1..n : i <= lastDelivered /\ i \in Nat /\ i >= 1
        BY <3>1, <4>1 DEF Acked
      <4>3. 1..n \subseteq Published'
        BY <2>1, <3>1, <4>2 DEF Published
      <4> QED
        BY <3>1, <4>1, <4>3
    <3> QED
      BY <3>2, <3>3, <3>4 DEF Archive!Remove
  <2>11. ASSUME NEW w \in Workers,
                \/ Start(w) \/ Loop(w) \/ Ingested(w) \/ XInfo(w) \/ XPending(w)
                \/ RedisError(w) \/ Abort(w) \/ Terminate(w) \/ Kill(w)
         PROVE  Same
    BY <2>3, <2>11 DEF Start, Loop, Ingested, XInfo, XPending, RedisError, Abort, Terminate,
                       Kill, Fault, redis
  <2>12. ASSUME NEW w \in Workers, NEW i \in Ids, Buffer(w, i) \/ DeadLetter(w, i) \/ Exclude(w, i)
         PROVE  Same
    BY <2>3, <2>12 DEF Buffer, DeadLetter, Exclude, redis
  <2>13. ASSUME NEW w \in Workers, Step(w) \/ LostReply(w) PROVE Allowed
    <3> HIDE DEF Same
    <3> QED
      BY <2>7, <2>8, <2>9, <2>10, <2>11, <2>12, <2>13 DEF Step, LostReply
  <2> HIDE DEF Same
  <2> QED
    BY <2>5, <2>6, <2>11, <2>13, <2>3 DEF Next
<1> QED
  BY <1>1, <1>2, Invariance, PTL DEF Spec, StoresBeforeAck, Archive!Spec
=============================================================================
