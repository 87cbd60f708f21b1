---------------------------- MODULE BackfillProofs ----------------------------
(***************************************************************************)
(* Proofs about Backfill, for every number of hours, slots, backfills,     *)
(* CronJobs, retries and faults: QuietMeansWhole from the invariant Sound, *)
(* ResumeKeepsProgress from Progress, SoundSuccess from Faultless besides. *)
(***************************************************************************)
EXTENDS Backfill, TLAPS, WellFoundedInduction, FiniteSetTheorems

-----------------------------------------------------------------------------
(* Sets of naturals *)

LEMMA MinExists ==
    ASSUME NEW S \in SUBSET Nat, S # {}
    PROVE  \E m \in S : \A x \in S : m <= x
<1> DEFINE less == {p \in Nat \X Nat : p[1] < p[2]}
<1>1. IsWellFoundedOn(less, Nat)
  BY NatLessThanWellFounded DEF OpToRel
<1>2. PICK m \in S : \A x \in S : <<x, m>> \notin less
  <2> HIDE DEF less
  <2> QED
    BY <1>1, WFMin
<1>3. ASSUME NEW x \in S PROVE m <= x
  <2>1. <<x, m>> \notin less /\ <<x, m>> \in Nat \X Nat
    BY <1>2
  <2>2. ~(x < m)
    BY <2>1
  <2> QED
    BY <2>2
<1> QED
  BY <1>3

\* The steps of a resampling before it deletes the bars, and whether it has begun:
\* the death of one that has not leaves everything as it was.
Loading == {"load", "insert"}
Begun(s) ==
    \/ job[s].step \in {"insert", "merge"}
    \/ job[s].step = "load" /\ job[s].left # Files(job[s].hour)

\* The hour's rows of kind k are in the raw table, or on their way.
Covered(k, h) ==
    \/ raw[k][h] > 0
    \/ \E d \in Works(h) : job[d].step = "insert" /\ job[d].kind = k

\* Somebody is going to delete the hour's bars.
Redo(h) == \E d \in Works(h) : Begun(d) /\ job[d].step \in Loading

Right(h) ==
    /\ bars[h].trades = Expected("trades", h)
    /\ bars[h].books = Expected("books", h)

\* The hour is built, or about to be.
Claimed(h) ==
    built[h] \/ \E s \in Works(h) : job[s].fresh /\ job[s].step = "merge"

Hourly(h) ==
    /\ \A k \in Kinds \ Files(h) : raw[k][h] = 0
    /\ built[h] => \A k \in Files(h) : Covered(k, h)
    /\ \A s \in Works(h) :
           job[s].fresh /\ job[s].step \in {"load", "insert", "merge"} =>
               \A k \in Files(h) \ job[s].left : Covered(k, h)
    /\ Claimed(h) /\ bars[h] # None => Right(h) \/ Redo(h)
    /\ built[h] /\ bars[h] = None => \E d \in Works(h) : job[d].step = "merge"

Shape(j) ==
    /\ j.step \in {"load", "insert", "merge"} =>
           j.phase = "resample" /\ j.left \subseteq Files(j.hour)
    /\ j.step = "insert" => j.kind \in j.left
    /\ j.step = "merge" => j.left = {}

RunType == [status : {"none", "running", "killed", "success", "failure"},
            mode : Modes, at : Nat \ {0}, resume : BOOLEAN,
            pending : SUBSET Hours, failed : BOOLEAN]

RunTyped == run \in RunType /\ run.at <= Len(run.mode)

Typed ==
    /\ raw \in [Kinds -> [Hours -> Nat]]
    /\ bars \in [Hours -> Bar \cup {None}]
    /\ built \in [Hours -> BOOLEAN]
    /\ job \in [Slots -> Job \cup {None}]
    /\ \A s \in Occupied : Shape(job[s])
    /\ RunTyped

Sound == Typed /\ \A h \in Hours : Hourly(h)
-----------------------------------------------------------------------------
(* Types *)

LEMMA Constants ==
    /\ Hours \subseteq Nat
    /\ \A h \in Hours : Files(h) \subseteq Kinds
    /\ \A s \in Occupied : s \in Slots
BY BackfillAssumption DEF Hours, Files, Occupied

LEMMA ModesArePhases == Modes \subseteq Seq(Phases) \ {<<>>}
<1>1. AllPhases \in Seq(Phases) /\ AllPhases # <<>>
  BY DEF AllPhases, Phases
<1>2. \A p \in Phases : <<p>> \in Seq(Phases) /\ <<p>> # <<>>
  OBVIOUS
<1> QED
  BY <1>1, <1>2, BackfillAssumption

LEMMA NewChild ==
    ASSUME NEW h \in Hours, NEW p \in Phases, NEW own \in BOOLEAN
    PROVE  /\ Child(h, p, own) \in Job
           /\ Shape(Child(h, p, own))
           /\ Child(h, p, own).hour = h /\ Child(h, p, own).phase = p
           /\ Child(h, p, own).step = IF p = "resample" THEN "load" ELSE "query"
           /\ p = "resample" => Child(h, p, own).left = Files(h)
<1>1. Files(h) \in SUBSET Kinds
  BY DEF Files
<1> QED
  BY <1>1 DEF Child, Job, Shape

LEMMA Pending ==
    ASSUME Typed, run.pending # {}
    PROVE  Min(run.pending) \in Hours
<1>1. run.pending \in SUBSET Nat /\ run.pending \subseteq Hours
  BY Constants DEF Typed, RunTyped, RunType
<1>2. \E h \in run.pending : \A x \in run.pending : h <= x
  BY <1>1, MinExists
<1> QED
  BY <1>1, <1>2 DEF Min

LEMMA ModeType ==
    ASSUME Typed
    PROVE  Phase \in Phases
<1>1. run.mode \in Seq(Phases) /\ run.at \in 1 .. Len(run.mode)
  BY ModesArePhases DEF Typed, RunTyped, RunType
<1> QED
  BY <1>1 DEF Phase

LEMMA BeginningType ==
    ASSUME NEW st, NEW mode \in Modes, NEW at \in Nat \ {0}, NEW r \in BOOLEAN,
           NEW f \in BOOLEAN
    PROVE  Beginning(st, mode, at, r, f) \in RunType
<1>1. Hours \ (Skips(st, mode, at, r) \cup Blocks(st, mode, at, r)) \in SUBSET Hours
  OBVIOUS
<1>2. (f \/ Blocks(st, mode, at, r) # {}) \in BOOLEAN
  OBVIOUS
<1> QED
  BY <1>1, <1>2 DEF Beginning, RunType

LEMMA InitTyped == Init => Typed
<1> SUFFICES ASSUME Init PROVE Typed
  OBVIOUS
<1>1. raw \in [Kinds -> [Hours -> Nat]] /\ bars \in [Hours -> Bar \cup {None}]
  BY DEF Init
<1>2. built \in [Hours -> BOOLEAN] /\ job \in [Slots -> Job \cup {None}]
  BY DEF Init
<1>3. \A s \in Occupied : Shape(job[s])
  BY DEF Init, Occupied
<1>4. RunTyped
  <2>1. PICK m \in Modes :
            run = [status |-> "none", mode |-> m, at |-> 1, resume |-> FALSE,
                   pending |-> {}, failed |-> FALSE]
    BY DEF Init
  <2>2. m \in Seq(Phases) /\ m # <<>>
    BY ModesArePhases
  <2>3. 1 <= Len(m)
    BY <2>2
  <2> QED
    BY <2>1, <2>3 DEF RunTyped, RunType
<1> QED
  BY <1>1, <1>2, <1>3, <1>4 DEF Typed

-----------------------------------------------------------------------------
(* The queries of a child *)

LEMMA JobUpdate ==
    ASSUME Typed, NEW s \in Occupied, NEW j \in Job, Shape(j),
           j.hour = job[s].hour, j.phase = job[s].phase,
           job' = [job EXCEPT ![s] = j]
    PROVE  /\ job' \in [Slots -> Job \cup {None}]
           /\ Occupied' = Occupied
           /\ \A t \in Occupied' : Shape(job'[t])
           /\ job'[s] = j
           /\ \A t \in Slots : t # s => job'[t] = job[t]
           /\ \A h \in Hours : Works(h)' = Works(h)
<1>1. s \in Slots /\ job \in [Slots -> Job \cup {None}]
  BY DEF Typed, Occupied
<1>2. j # None
  BY NoneAssumption
<1>3. job'[s] = j /\ \A t \in Slots : t # s => job'[t] = job[t]
  BY <1>1
<1>4. Occupied' = Occupied
  BY <1>2, <1>3 DEF Occupied
<1>5. \A t \in Occupied' : Shape(job'[t])
  BY <1>3, <1>4 DEF Typed, Occupied
<1>6. \A h \in Hours : Works(h)' = Works(h)
  BY <1>3, <1>4, Constants DEF Works
<1>7. job' \in [Slots -> Job \cup {None}]
  BY <1>1
<1> QED
  BY <1>3, <1>4, <1>5, <1>6, <1>7

\* An hour stays as it is while the jobs that have begun on it do, whoever comes
\* or goes besides.
SameJob(t) ==
    /\ job'[t].step = job[t].step /\ job'[t].kind = job[t].kind
    /\ job'[t].left = job[t].left /\ job'[t].fresh = job[t].fresh

LEMMA HourKept ==
    ASSUME NEW h \in Hours, Hourly(h),
           \A k \in Kinds : raw'[k][h] = raw[k][h],
           bars'[h] = bars[h], built'[h] = built[h],
           \A t \in Works(h) : Begun(t) => t \in Works(h)' /\ SameJob(t),
           \A t \in Works(h)' :
               (t \in Works(h) /\ Begun(t) /\ SameJob(t)) \/ ~Begun(t)'
    PROVE  Hourly(h)'
<1>1. \A t \in Works(h) : job[t].hour = h
  BY DEF Works
<1>2. \A t \in Works(h)' : job'[t].hour = h
  BY DEF Works
<1>3. ASSUME NEW k \in Files(h), Covered(k, h) PROVE Covered(k, h)'
  <2>1. k \in Kinds
    BY Constants
  <2>2. CASE raw[k][h] > 0
    BY <2>1, <2>2 DEF Covered
  <2>3. ASSUME NEW d \in Works(h), job[d].step = "insert" /\ job[d].kind = k
        PROVE  Covered(k, h)'
    <3>1. d \in Works(h)' /\ SameJob(d)
      BY <2>3 DEF Begun
    <3> QED
      BY <2>3, <3>1 DEF Covered, SameJob
  <2> QED
    BY <1>3, <2>2, <2>3 DEF Covered
<1>4. \A k \in Kinds \ Files(h) : raw'[k][h] = 0
  BY DEF Hourly
<1>5. built'[h] => \A k \in Files(h) : Covered(k, h)'
  BY <1>3 DEF Hourly
<1>6. ASSUME NEW s \in Works(h)', job'[s].fresh, job'[s].step \in {"load", "insert", "merge"},
             NEW k \in Files(h) \ job'[s].left
      PROVE  Covered(k, h)'
  <2>1. s \in Works(h) /\ SameJob(s)
    BY <1>2, <1>6 DEF Begun
  <2>2. Covered(k, h)
    BY <1>6, <2>1 DEF Hourly, SameJob
  <2> QED
    BY <1>3, <2>2
<1>7. Claimed(h)' => Claimed(h)
  <2>1. ASSUME NEW s \in Works(h)', job'[s].fresh, job'[s].step = "merge" PROVE Claimed(h)
    <3>1. s \in Works(h) /\ SameJob(s)
      BY <2>1 DEF Begun
    <3> QED
      BY <2>1, <3>1 DEF Claimed, SameJob
  <2> QED
    BY <2>1 DEF Claimed
<1>8. Redo(h) => Redo(h)'
  <2>1. ASSUME NEW d \in Works(h), Begun(d), job[d].step \in Loading PROVE Redo(h)'
    <3>1. d \in Works(h)' /\ SameJob(d)
      BY <2>1
    <3>2. Begun(d)'
      BY <1>1, <1>2, <2>1, <3>1 DEF Begun, SameJob, Files
    <3> QED
      BY <2>1, <3>1, <3>2 DEF Redo, SameJob
  <2> QED
    BY <2>1 DEF Redo
<1>9. Right(h)' = Right(h)
  BY DEF Right, Expected, Files
<1>10. ASSUME NEW d \in Works(h), job[d].step = "merge"
       PROVE  \E t \in Works(h)' : job'[t].step = "merge"
  <2>1. d \in Works(h)' /\ SameJob(d)
    BY <1>10 DEF Begun
  <2> QED
    BY <1>10, <2>1 DEF SameJob
<1> QED
  BY <1>4, <1>5, <1>6, <1>7, <1>8, <1>9, <1>10 DEF Hourly, Files

\* A job and the fields that its queries change.
LEMMA JobFields ==
    ASSUME Typed, NEW s \in Occupied
    PROVE  /\ s \in Slots /\ job[s] \in Job
           /\ job[s].hour \in Hours /\ job[s].phase \in Phases
           /\ job[s].left \subseteq Kinds
           /\ Shape(job[s])
<1>1. s \in Slots /\ job[s] \in Job
  BY DEF Typed, Occupied
<1> QED
  BY <1>1 DEF Job, Typed

\* A query of job s leaves the other hours alone.
LEMMA Elsewhere ==
    ASSUME Sound, NEW s \in Occupied, NEW j \in Job, Shape(j),
           j.hour = job[s].hour, j.phase = job[s].phase,
           job' = [job EXCEPT ![s] = j],
           NEW h \in Hours, h # job[s].hour,
           \A k \in Kinds : raw'[k][h] = raw[k][h],
           bars'[h] = bars[h], built'[h] = built[h]
    PROVE  Hourly(h)'
<1>1. Typed /\ Hourly(h)
  BY DEF Sound
<1>2. /\ \A t \in Slots : t # s => job'[t] = job[t]
      /\ Works(h)' = Works(h)
  BY <1>1, JobUpdate
<1>3. \A t \in Works(h) : t # s /\ t \in Slots
  BY Constants DEF Works
<1>4. \A t \in Works(h) : job'[t] = job[t]
  BY <1>2, <1>3
<1> QED
  BY <1>1, <1>2, <1>4, HourKept DEF SameJob, Begun

LEMMA QuerySound ==
    ASSUME Sound, NEW s \in Occupied, NEW g \in Hours, g = job[s].hour,
           NEW j \in Job, Shape(j), j.hour = g, j.phase = job[s].phase,
           job' = [job EXCEPT ![s] = j],
           raw' \in [Kinds -> [Hours -> Nat]],
           bars' \in [Hours -> Bar \cup {None}],
           built' \in [Hours -> BOOLEAN],
           \A h \in Hours \ {g} :
               /\ \A k \in Kinds : raw'[k][h] = raw[k][h]
               /\ bars'[h] = bars[h] /\ built'[h] = built[h],
           UNCHANGED run,
           Hourly(g)'
    PROVE  Sound'
<1>1. Typed
  BY DEF Sound
<1>2. \A h \in Hours \ {g} : Hourly(h)'
  BY Elsewhere
<1>3. job' \in [Slots -> Job \cup {None}] /\ \A t \in Occupied' : Shape(job'[t])
  BY <1>1, JobUpdate
<1>4. Typed'
  BY <1>1, <1>3 DEF Typed, RunTyped
<1> QED
  BY <1>2, <1>4 DEF Sound

\* The other jobs of the hour, before and after a query of s.
LEMMA OthersStay ==
    ASSUME Sound, NEW s \in Occupied, NEW g \in Hours, g = job[s].hour,
           NEW j \in Job, Shape(j), j.hour = g, j.phase = job[s].phase,
           job' = [job EXCEPT ![s] = j]
    PROVE  /\ job'[s] = j
           /\ Works(g)' = Works(g)
           /\ \A t \in Works(g) :
                  t # s => job'[t] = job[t] /\ Begun(t)' = Begun(t)
<1>1. Typed
  BY DEF Sound
<1>2. /\ \A t \in Slots : t # s => job'[t] = job[t]
      /\ \A h \in Hours : Works(h)' = Works(h)
      /\ job'[s] = j
  <2>1. j.hour = job[s].hour
    OBVIOUS
  <2> QED
    BY <1>1, <2>1, JobUpdate
<1>3. \A t \in Works(g) : t \in Slots
  BY Constants DEF Works
<1> QED
  BY <1>2, <1>3 DEF Begun, Files

LEMMA DeleteRawSound ==
    ASSUME Sound, NEW s \in Occupied, NEW g \in Hours, g = job[s].hour,
           NEW k \in Kinds, DeleteRaw(s, k), UNCHANGED run
    PROVE  Sound'
<1> DEFINE j == [job[s] EXCEPT !.step = "insert", !.kind = k]
<1>1. Typed /\ Hourly(g)
  BY DEF Sound
<1>2. /\ s \in Slots /\ job[s] \in Job
      /\ job[s].phase \in Phases
      /\ job[s].left \subseteq Kinds
      /\ Shape(job[s])
  BY <1>1, JobFields
<1>3. /\ job[s].step = "load" /\ k \in job[s].left
      /\ raw' = [raw EXCEPT ![k][g] = 0]
      /\ job' = [job EXCEPT ![s] = j]
      /\ UNCHANGED <<bars, built>>
  BY DEF DeleteRaw
<1>4. /\ j \in Job
      /\ j.hour = g /\ j.phase = job[s].phase /\ j.left = job[s].left
      /\ j.step = "insert" /\ j.kind = k /\ j.fresh = job[s].fresh
  BY <1>2 DEF Job
<1>5. Shape(j)
  BY <1>2, <1>3, <1>4 DEF Shape
<1>6. s \in Works(g)
  BY <1>2, <1>3 DEF Works, Shape
<1>7. k \in Files(g)
  BY <1>2, <1>3 DEF Shape
<1>8. /\ raw' \in [Kinds -> [Hours -> Nat]]
      /\ \A h \in Hours, i \in Kinds : h # g \/ i # k => raw'[i][h] = raw[i][h]
  BY <1>1, <1>2, <1>3 DEF Typed
<1> HIDE DEF j
<1>9. /\ job'[s] = j
      /\ Works(g)' = Works(g)
      /\ \A t \in Works(g) : t # s => job'[t] = job[t] /\ Begun(t)' = Begun(t)
  BY <1>3, <1>4, <1>5, OthersStay
<1>10. Hourly(g)'
  <2>1. ASSUME NEW i \in Files(g), Covered(i, g) PROVE Covered(i, g)'
    <3>1. CASE i = k
      BY <1>4, <1>6, <1>9, <3>1 DEF Covered
    <3>2. CASE i # k
      <4>1. raw'[i][g] = raw[i][g]
        BY <1>2, <1>8, <3>2, Constants
      <4>2. \A d \in Works(g) : job[d].step = "insert" => d # s
        BY <1>3
      <4>3. ASSUME NEW d \in Works(g), job[d].step = "insert" /\ job[d].kind = i
            PROVE  Covered(i, g)'
        BY <1>9, <4>2, <4>3 DEF Covered
      <4> QED
        BY <2>1, <4>1, <4>3 DEF Covered
    <3> QED
      BY <3>1, <3>2
  <2>2. Redo(g)'
    BY <1>4, <1>6, <1>9 DEF Redo, Begun, Loading
  <2>3. \A i \in Kinds \ Files(g) : raw'[i][g] = 0
    BY <1>1, <1>2, <1>7, <1>8 DEF Hourly
  <2>4. built'[g] => \A i \in Files(g) : Covered(i, g)'
    BY <1>1, <1>2, <1>3, <2>1 DEF Hourly
  <2>5. ASSUME NEW t \in Works(g)', job'[t].fresh, job'[t].step \in {"load", "insert", "merge"},
               NEW i \in Files(g) \ job'[t].left
        PROVE  Covered(i, g)'
    <3>1. /\ t \in Works(g) /\ job[t].fresh /\ job[t].left = job'[t].left
          /\ job[t].step \in {"load", "insert", "merge"}
      BY <1>3, <1>4, <1>9, <2>5
    <3> QED
      BY <1>1, <1>2, <2>1, <2>5, <3>1 DEF Hourly
  <2>6. ASSUME built'[g], bars'[g] = None
        PROVE  \E d \in Works(g)' : job'[d].step = "merge"
    <3>1. PICK d \in Works(g) : job[d].step = "merge"
      BY <1>1, <1>2, <1>3, <2>6 DEF Hourly
    <3> QED
      BY <1>3, <1>9, <3>1
  <2> QED
    BY <2>2, <2>3, <2>4, <2>5, <2>6 DEF Hourly, Files
<1>11. \A h \in Hours \ {g} :
          /\ \A i \in Kinds : raw'[i][h] = raw[i][h]
          /\ bars'[h] = bars[h] /\ built'[h] = built[h]
  BY <1>3, <1>8
<1>12. bars' \in [Hours -> Bar \cup {None}] /\ built' \in [Hours -> BOOLEAN]
  BY <1>1, <1>3 DEF Typed
<1> QED
  BY <1>3, <1>4, <1>5, <1>8, <1>10, <1>11, <1>12, QuerySound

LEMMA InsertRawSound ==
    ASSUME Sound, NEW s \in Occupied, NEW g \in Hours, g = job[s].hour,
           InsertRaw(s), UNCHANGED run
    PROVE  Sound'
<1> DEFINE k == job[s].kind
           j == [job[s] EXCEPT !.step = "load", !.kind = None, !.left = job[s].left \ {k}]
<1>1. Typed /\ Hourly(g)
  BY DEF Sound
<1>2. /\ s \in Slots /\ job[s] \in Job
      /\ job[s].phase \in Phases
      /\ job[s].left \subseteq Kinds
      /\ Shape(job[s])
  BY <1>1, JobFields
<1>3. /\ job[s].step = "insert"
      /\ raw' = [raw EXCEPT ![k][g] = @ + 1]
      /\ job' = [job EXCEPT ![s] = j]
      /\ UNCHANGED <<bars, built>>
  <2>1. job' = [job EXCEPT ![s] = j]
    BY DEF InsertRaw
  <2>2. raw' = [raw EXCEPT ![k][g] = @ + 1]
    BY DEF InsertRaw
  <2> QED
    BY <2>1, <2>2 DEF InsertRaw
<1>4. /\ j \in Job
      /\ j.hour = g /\ j.phase = job[s].phase /\ j.left = job[s].left \ {k}
      /\ j.step = "load" /\ j.fresh = job[s].fresh
  BY <1>2 DEF Job
<1>5. Shape(j)
  BY <1>2, <1>3, <1>4 DEF Shape
<1>6. s \in Works(g)
  BY <1>2, <1>3 DEF Works, Shape
<1>7. k \in Files(g) /\ k \in job[s].left /\ k \in Kinds
  BY <1>2, <1>3 DEF Shape
<1>8. /\ raw' \in [Kinds -> [Hours -> Nat]]
      /\ \A h \in Hours, i \in Kinds : h # g \/ i # k => raw'[i][h] = raw[i][h]
      /\ raw'[k][g] > 0
  BY <1>1, <1>2, <1>3, <1>7 DEF Typed
<1>13. PICK l \in Kinds : l = k
  BY <1>7
<1> HIDE DEF j
<1>9. /\ job'[s] = j
      /\ Works(g)' = Works(g)
      /\ \A t \in Works(g) : t # s => job'[t] = job[t] /\ Begun(t)' = Begun(t)
  BY <1>3, <1>4, <1>5, OthersStay
<1>10. Hourly(g)'
  <2>1. ASSUME NEW i \in Files(g), Covered(i, g) PROVE Covered(i, g)'
    <3>1. CASE i = l
      BY <1>8, <1>13, <3>1 DEF Covered
    <3>2. CASE i # l
      <4>1. raw'[i][g] = raw[i][g]
        BY <1>2, <1>8, <1>13, <3>2, Constants
      <4>2. ASSUME NEW d \in Works(g), job[d].step = "insert" /\ job[d].kind = i
            PROVE  Covered(i, g)'
        <5>1. d # s
          BY <1>13, <3>2, <4>2
        <5> QED
          BY <1>9, <4>2, <5>1 DEF Covered
      <4> QED
        BY <2>1, <4>1, <4>2 DEF Covered
    <3> QED
      BY <3>1, <3>2
  <2>2. Redo(g)'
    <3>1. l \in Files(g) /\ l \notin j.left
      BY <1>4, <1>7, <1>13
    <3> QED
      BY <1>4, <1>6, <1>9, <3>1 DEF Redo, Begun, Loading, Files
  <2>3. \A i \in Kinds \ Files(g) : raw'[i][g] = 0
    BY <1>1, <1>2, <1>7, <1>8 DEF Hourly
  <2>4. built'[g] => \A i \in Files(g) : Covered(i, g)'
    BY <1>1, <1>2, <1>3, <2>1 DEF Hourly
  <2>5. ASSUME NEW t \in Works(g)', job'[t].fresh, job'[t].step \in {"load", "insert", "merge"},
               NEW i \in Files(g) \ job'[t].left
        PROVE  Covered(i, g)'
    <3>1. CASE i = l
      BY <1>8, <1>13, <3>1 DEF Covered
    <3>2. CASE i # l
      <4>1. /\ t \in Works(g) /\ job[t].fresh /\ i \notin job[t].left
            /\ job[t].step \in {"load", "insert", "merge"}
        BY <1>3, <1>4, <1>9, <1>13, <2>5, <3>2
      <4> QED
        BY <1>1, <1>2, <2>1, <2>5, <4>1 DEF Hourly
    <3> QED
      BY <3>1, <3>2
  <2>6. ASSUME built'[g], bars'[g] = None
        PROVE  \E d \in Works(g)' : job'[d].step = "merge"
    <3>1. PICK d \in Works(g) : job[d].step = "merge"
      BY <1>1, <1>2, <1>3, <2>6 DEF Hourly
    <3> QED
      BY <1>3, <1>9, <3>1
  <2> QED
    BY <2>2, <2>3, <2>4, <2>5, <2>6 DEF Hourly, Files
<1>11. \A h \in Hours \ {g} :
          /\ \A i \in Kinds : raw'[i][h] = raw[i][h]
          /\ bars'[h] = bars[h] /\ built'[h] = built[h]
  BY <1>3, <1>8
<1>12. bars' \in [Hours -> Bar \cup {None}] /\ built' \in [Hours -> BOOLEAN]
  BY <1>1, <1>3 DEF Typed
<1> QED
  BY <1>3, <1>4, <1>5, <1>8, <1>10, <1>11, <1>12, QuerySound

LEMMA DeleteBarsSound ==
    ASSUME Sound, NEW s \in Occupied, NEW g \in Hours, g = job[s].hour,
           DeleteBars(s), UNCHANGED run
    PROVE  Sound'
<1> DEFINE j == [job[s] EXCEPT !.step = "merge"]
<1>1. Typed /\ Hourly(g)
  BY DEF Sound
<1>2. /\ s \in Slots /\ job[s] \in Job
      /\ job[s].phase \in Phases
      /\ Shape(job[s])
  BY <1>1, JobFields
<1>3. /\ job[s].step = "load" /\ job[s].left = {}
      /\ bars' = [bars EXCEPT ![g] = None]
      /\ job' = [job EXCEPT ![s] = j]
      /\ UNCHANGED <<raw, built>>
  BY DEF DeleteBars
<1>4. /\ j \in Job
      /\ j.hour = g /\ j.phase = job[s].phase /\ j.left = {}
      /\ j.step = "merge" /\ j.fresh = job[s].fresh
  BY <1>2, <1>3 DEF Job
<1>5. Shape(j)
  BY <1>2, <1>3, <1>4 DEF Shape
<1>6. s \in Works(g)
  BY <1>2, <1>3 DEF Works, Shape
<1>7. /\ bars' \in [Hours -> Bar \cup {None}]
      /\ \A h \in Hours \ {g} : bars'[h] = bars[h]
      /\ bars'[g] = None
  BY <1>1, <1>3 DEF Typed
<1> HIDE DEF j
<1>8. /\ job'[s] = j
      /\ Works(g)' = Works(g)
      /\ \A t \in Works(g) : t # s => job'[t] = job[t] /\ Begun(t)' = Begun(t)
  BY <1>3, <1>4, <1>5, OthersStay
<1>9. Hourly(g)'
  <2>1. ASSUME NEW i \in Files(g), Covered(i, g) PROVE Covered(i, g)'
    <3>1. ASSUME NEW d \in Works(g), job[d].step = "insert" /\ job[d].kind = i
          PROVE  Covered(i, g)'
      <4>1. d # s
        BY <1>3, <3>1
      <4> QED
        BY <1>8, <3>1, <4>1 DEF Covered
    <3> QED
      BY <1>3, <2>1, <3>1 DEF Covered
  <2>2. \A i \in Kinds \ Files(g) : raw'[i][g] = 0
    BY <1>1, <1>3 DEF Hourly
  <2>3. built'[g] => \A i \in Files(g) : Covered(i, g)'
    BY <1>1, <1>3, <2>1 DEF Hourly
  <2>4. ASSUME NEW t \in Works(g)', job'[t].fresh, job'[t].step \in {"load", "insert", "merge"},
               NEW i \in Files(g) \ job'[t].left
        PROVE  Covered(i, g)'
    <3>1. /\ t \in Works(g) /\ job[t].fresh /\ i \notin job[t].left
          /\ job[t].step \in {"load", "insert", "merge"}
      BY <1>3, <1>4, <1>8, <2>4
    <3> QED
      BY <1>1, <2>1, <2>4, <3>1 DEF Hourly
  <2>5. \E d \in Works(g)' : job'[d].step = "merge"
    BY <1>4, <1>6, <1>8
  <2> QED
    BY <1>7, <2>2, <2>3, <2>4, <2>5 DEF Hourly, Files
<1>10. /\ raw' \in [Kinds -> [Hours -> Nat]] /\ built' \in [Hours -> BOOLEAN]
       /\ \A h \in Hours \ {g} :
            /\ \A i \in Kinds : raw'[i][h] = raw[i][h]
            /\ bars'[h] = bars[h] /\ built'[h] = built[h]
  BY <1>1, <1>3, <1>7 DEF Typed
<1> QED
  BY <1>3, <1>4, <1>5, <1>7, <1>9, <1>10, QuerySound

\* When nobody is going to delete the bars of a claimed hour, its raw tables
\* have what the bars should count.
LEMMA ResampledRight ==
    ASSUME Sound, NEW h \in Hours, Claimed(h), ~Redo(h)
    PROVE  /\ Resampled(h).trades = Expected("trades", h)
           /\ Resampled(h).books = Expected("books", h)
<1>1. Typed /\ Hourly(h)
  BY DEF Sound
<1>2. \A d \in Works(h) : job[d].step # "insert"
  BY DEF Redo, Begun, Loading
<1>3. ASSUME NEW s \in Works(h), job[s].fresh, job[s].step = "merge", NEW k \in Files(h)
      PROVE  Covered(k, h)
  <2>1. job[s].left = {}
    BY <1>1, <1>3, JobFields DEF Works, Shape
  <2> QED
    BY <1>1, <1>3, <2>1 DEF Hourly
<1>4. \A k \in Files(h) : raw[k][h] > 0
  <2>1. \A k \in Files(h) : Covered(k, h)
    BY <1>1, <1>3 DEF Claimed, Hourly
  <2> QED
    BY <1>2, <2>1 DEF Covered
<1>5. \A k \in Kinds \ Files(h) : raw[k][h] = 0
  BY <1>1 DEF Hourly
<1>6. \A k \in Kinds : raw[k][h] \in Nat
  BY <1>1 DEF Typed
<1>7. \A k \in Kinds : Deduplicated(raw[k][h]) = Expected(k, h)
  BY <1>4, <1>5, <1>6 DEF Deduplicated, Expected
<1> QED
  BY <1>7 DEF Resampled, Kinds

LEMMA ResampledType ==
    ASSUME NEW h \in Hours
    PROVE  Resampled(h) \in Bar /\ Resampled(h) # None
<1>1. Resampled(h) \in Bar
  <2>1. (\A b \in Before(h) : raw["trades"][b] > 0) \in BOOLEAN
    OBVIOUS
  <2>2. \A n : Deduplicated(n) \in Nat
    BY DEF Deduplicated
  <2> QED
    BY <2>1, <2>2 DEF Resampled, Bar
<1> QED
  BY <1>1, NoneAssumption

LEMMA MergeBarsSound ==
    ASSUME Sound, NEW s \in Occupied, NEW g \in Hours, g = job[s].hour,
           MergeBars(s), UNCHANGED run
    PROVE  Sound'
<1> DEFINE j == [job[s] EXCEPT !.step = "done"]
<1>1. Typed /\ Hourly(g)
  BY DEF Sound
<1>2. /\ s \in Slots /\ job[s] \in Job
      /\ job[s].phase \in Phases
      /\ Shape(job[s])
  BY <1>1, JobFields
<1>3. /\ job[s].step = "merge"
      /\ bars' = [bars EXCEPT ![g] = Merged(g)]
      /\ built' = [built EXCEPT ![g] = built[g] \/ job[s].fresh]
      /\ job' = [job EXCEPT ![s] = j]
      /\ UNCHANGED raw
  BY DEF MergeBars
<1>4. /\ j \in Job
      /\ j.hour = g /\ j.phase = job[s].phase /\ j.step = "done"
  BY <1>2 DEF Job
<1>5. Shape(j)
  BY <1>4 DEF Shape
<1>6. s \in Works(g) /\ job[s].left = {}
  BY <1>2, <1>3 DEF Works, Shape
<1>7. Merged(g) \in Bar
  <2>1. CASE bars[g] = None
    BY <2>1, ResampledType DEF Merged
  <2>2. CASE bars[g] # None
    <3>1. bars[g] \in Bar
      BY <1>1, <2>2 DEF Typed
    <3>2. Resampled(g).trades \in Nat
      BY ResampledType DEF Bar
    <3> QED
      BY <2>2, <3>1, <3>2 DEF Merged, Bar
  <2> QED
    BY <2>1, <2>2
<1>8. /\ bars' \in [Hours -> Bar \cup {None}]
      /\ \A h \in Hours \ {g} : bars'[h] = bars[h]
      /\ bars'[g] = Merged(g)
  BY <1>1, <1>3, <1>7 DEF Typed
<1>9. bars'[g] # None
  BY <1>7, <1>8, NoneAssumption
<1>10. /\ built' \in [Hours -> BOOLEAN]
       /\ \A h \in Hours \ {g} : built'[h] = built[h]
       /\ built'[g] => built[g] \/ job[s].fresh
  <2>1. (built[g] \/ job[s].fresh) \in BOOLEAN
    OBVIOUS
  <2> QED
    BY Zenon, <1>1, <1>3, <2>1 DEF Typed
<1> HIDE DEF j
<1>11. /\ job'[s] = j
       /\ Works(g)' = Works(g)
       /\ \A t \in Works(g) : t # s => job'[t] = job[t] /\ Begun(t)' = Begun(t)
  BY <1>3, <1>4, <1>5, OthersStay
<1>12. Hourly(g)'
  <2>1. ASSUME NEW i \in Files(g), Covered(i, g) PROVE Covered(i, g)'
    <3>1. ASSUME NEW d \in Works(g), job[d].step = "insert" /\ job[d].kind = i
          PROVE  Covered(i, g)'
      <4>1. d # s
        BY <1>3, <3>1
      <4> QED
        BY <1>11, <3>1, <4>1 DEF Covered
    <3> QED
      BY <1>3, <2>1, <3>1 DEF Covered
  <2>2. \A i \in Kinds \ Files(g) : raw'[i][g] = 0
    BY <1>1, <1>3 DEF Hourly
  <2>3. built'[g] => \A i \in Files(g) : Covered(i, g)'
    <3>1. job[s].fresh => \A i \in Files(g) : Covered(i, g)
      BY <1>1, <1>3, <1>6 DEF Hourly
    <3>2. built[g] => \A i \in Files(g) : Covered(i, g)
      BY <1>1 DEF Hourly
    <3> QED
      BY <1>10, <2>1, <3>1, <3>2
  <2>4. ASSUME NEW t \in Works(g)', job'[t].fresh, job'[t].step \in {"load", "insert", "merge"},
               NEW i \in Files(g) \ job'[t].left
        PROVE  Covered(i, g)'
    <3>1. /\ t \in Works(g) /\ job[t].fresh /\ i \notin job[t].left
          /\ job[t].step \in {"load", "insert", "merge"}
      BY <1>4, <1>11, <2>4
    <3> QED
      BY <1>1, <2>1, <2>4, <3>1 DEF Hourly
  <2>5. Claimed(g)' => Claimed(g)
    <3>1. job[s].fresh => Claimed(g)
      BY <1>3, <1>6 DEF Claimed
    <3>2. built[g] => Claimed(g)
      BY DEF Claimed
    <3>3. ASSUME NEW t \in Works(g)', job'[t].fresh, job'[t].step = "merge" PROVE Claimed(g)
      <4>1. t \in Works(g) /\ t # s
        BY <1>4, <1>11, <3>3
      <4>2. job'[t] = job[t]
        BY <1>11, <4>1
      <4> QED
        BY <3>3, <4>1, <4>2 DEF Claimed
    <3> QED
      BY <1>10, <3>1, <3>2, <3>3 DEF Claimed
  <2>6. Redo(g) => Redo(g)'
    <3>1. ASSUME NEW d \in Works(g), Begun(d), job[d].step \in Loading PROVE Redo(g)'
      <4>1. d # s
        BY <1>3, <3>1 DEF Loading
      <4>2. d \in Works(g)' /\ job'[d] = job[d] /\ Begun(d)'
        BY <1>11, <3>1, <4>1
      <4> QED
        BY <3>1, <4>2 DEF Redo
    <3> QED
      BY <3>1 DEF Redo
  <2>7. ASSUME Claimed(g), ~Redo(g) PROVE Right(g)'
    <3>1. /\ Resampled(g).trades = Expected("trades", g)
          /\ Resampled(g).books = Expected("books", g)
      BY <2>7, ResampledRight
    <3>2. CASE bars[g] = None
      <4>1. Merged(g) = Resampled(g)
        BY <3>2 DEF Merged
      <4> QED
        BY <1>8, <3>1, <4>1 DEF Right, Expected, Files
    <3>3. CASE bars[g] # None
      <4>1. Right(g)
        BY <1>1, <2>7, <3>3 DEF Hourly
      <4>2. bars[g] \in Bar
        BY <1>1, <3>3 DEF Typed
      <4>3. /\ Merged(g).trades = Resampled(g).trades
            /\ Merged(g).books = bars[g].books
        BY <3>3, <4>2 DEF Merged, Bar
      <4> QED
        BY <1>8, <3>1, <4>1, <4>3 DEF Right, Expected, Files
    <3> QED
      BY <3>2, <3>3
  <2> QED
    BY <1>9, <2>2, <2>3, <2>4, <2>5, <2>6, <2>7 DEF Hourly, Files
<1>13. /\ raw' \in [Kinds -> [Hours -> Nat]]
       /\ \A h \in Hours \ {g} :
            /\ \A i \in Kinds : raw'[i][h] = raw[i][h]
            /\ bars'[h] = bars[h] /\ built'[h] = built[h]
  BY <1>1, <1>3, <1>8, <1>10 DEF Typed
<1> QED
  BY <1>3, <1>4, <1>5, <1>8, <1>10, <1>12, <1>13, QuerySound

LEMMA DeriveSound ==
    ASSUME Sound, NEW s \in Occupied, NEW g \in Hours, g = job[s].hour,
           Derive(s), UNCHANGED run
    PROVE  Sound'
<1> DEFINE j == [job[s] EXCEPT !.step = "done"]
<1>1. Typed /\ Hourly(g)
  BY DEF Sound
<1>2. /\ s \in Slots /\ job[s] \in Job
      /\ job[s].phase \in Phases
      /\ Shape(job[s])
  BY <1>1, JobFields
<1>3. /\ job[s].step = "query"
      /\ job' = [job EXCEPT ![s] = j]
      /\ UNCHANGED <<raw, bars, built>>
  BY DEF Derive
<1>4. /\ j \in Job
      /\ j.hour = g /\ j.phase = job[s].phase /\ j.step = "done"
  BY <1>2 DEF Job
<1>5. Shape(j)
  BY <1>4 DEF Shape
<1> HIDE DEF j
<1>6. /\ job'[s] = j
      /\ Works(g)' = Works(g)
      /\ \A t \in Works(g) : t # s => job'[t] = job[t] /\ Begun(t)' = Begun(t)
  BY <1>3, <1>4, <1>5, OthersStay
<1>7. ~Begun(s) /\ ~Begun(s)'
  BY <1>3, <1>4, <1>6 DEF Begun
<1>8. \A t \in Works(g) : Begun(t) => t \in Works(g)' /\ SameJob(t)
  BY <1>6, <1>7 DEF SameJob
<1>9. \A t \in Works(g)' : (t \in Works(g) /\ Begun(t) /\ SameJob(t)) \/ ~Begun(t)'
  BY <1>6, <1>7 DEF SameJob
<1>10. Hourly(g)'
  BY <1>1, <1>3, <1>8, <1>9, HourKept
<1>11. /\ raw' \in [Kinds -> [Hours -> Nat]]
       /\ bars' \in [Hours -> Bar \cup {None}] /\ built' \in [Hours -> BOOLEAN]
       /\ \A h \in Hours \ {g} :
            /\ \A i \in Kinds : raw'[i][h] = raw[i][h]
            /\ bars'[h] = bars[h] /\ built'[h] = built[h]
  BY <1>1, <1>3 DEF Typed
<1> QED
  BY <1>3, <1>4, <1>5, <1>10, <1>11, QuerySound

-----------------------------------------------------------------------------
(* Processes that come and go *)

\* The jobs of the slots in moved begin anew or leave, the hours that they cut
\* short are not built any more, and the other jobs of these hours not fresh.
LEMMA MovedSound ==
    ASSUME Sound, NEW moved \in SUBSET Slots,
           UNCHANGED <<raw, bars>>, RunTyped',
           built' = Unbuilt(moved \cap Occupied),
           job' \in [Slots -> Job \cup {None}],
           \A t \in Occupied' : Shape(job'[t]),
           \A t \in moved : t \in Occupied' => ~Begun(t)',
           \A t \in Slots \ moved :
               /\ t \in Occupied' <=> t \in Occupied
               /\ t \in Occupied =>
                    /\ job'[t].hour = job[t].hour /\ job'[t].phase = job[t].phase
                    /\ job'[t].step = job[t].step /\ job'[t].kind = job[t].kind
                    /\ job'[t].left = job[t].left
                    /\ IF job[t].hour \in Cut(moved \cap Occupied) THEN job'[t].fresh = FALSE
                       ELSE job'[t].fresh = job[t].fresh
    PROVE  Sound'
<1>1. Typed /\ \A h \in Hours : Hourly(h)
  BY DEF Sound
<1>2. built' \in [Hours -> BOOLEAN]
  BY DEF Unbuilt
<1>3. Typed'
  BY <1>1, <1>2 DEF Typed
<1>4. \A h \in Hours : \A t \in Works(h) : t \in Slots /\ t \in Occupied /\ job[t].hour = h
  BY DEF Works, Occupied
<1>5. \A h \in Hours : \A t \in Works(h)' : t \in Slots /\ t \in Occupied' /\ job'[t].hour = h
  BY DEF Works, Occupied
<1>6. ASSUME NEW h \in Hours, h \in Cut(moved \cap Occupied) PROVE Hourly(h)'
  <2>1. ~built'[h]
    BY <1>6 DEF Unbuilt
  <2>2. \A t \in Works(h)' : t \notin moved => job'[t].fresh = FALSE
    <3>1. \A t \in Works(h)' \ moved : t \in Occupied /\ job[t].hour = h
      BY <1>5
    <3> QED
      BY <1>5, <1>6, <3>1
  <2>3. \A t \in Works(h)' : t \in moved => ~Begun(t)'
    BY <1>5
  <2>4. \A k \in Kinds \ Files(h) : raw'[k][h] = 0
    BY <1>1 DEF Hourly
  <2>5. ASSUME NEW t \in Works(h)', job'[t].fresh, job'[t].step \in {"load", "insert", "merge"}
        PROVE  Files(h) \ job'[t].left = {}
    BY <1>5, <2>2, <2>3, <2>5 DEF Begun, Files
  <2>6. ~Claimed(h)'
    <3>1. ASSUME NEW t \in Works(h)', job'[t].fresh, job'[t].step = "merge" PROVE FALSE
      BY <2>2, <2>3, <3>1 DEF Begun
    <3> QED
      BY <2>1, <3>1 DEF Claimed
  <2> QED
    BY <2>1, <2>4, <2>5, <2>6 DEF Hourly, Files
<1>7. ASSUME NEW h \in Hours, h \notin Cut(moved \cap Occupied) PROVE Hourly(h)'
  <2>1. built'[h] = built[h]
    BY <1>1, <1>7 DEF Unbuilt, Typed
  <2>2. ASSUME NEW t \in Works(h), Begun(t) PROVE t \notin moved
    <3>1. job[t].phase = "resample" /\ ~Ended(t)
      BY <2>2 DEF Works, Ended, Begun
    <3>2. job[t].step = "load" => job[t].left # Files(job[t].hour)
      BY <2>2 DEF Begun
    <3> QED
      BY <1>4, <1>7, <3>1, <3>2 DEF Cut
  <2>3. ASSUME NEW t \in Works(h), t \notin moved PROVE t \in Works(h)' /\ SameJob(t)
    BY <1>4, <1>7, <2>3 DEF Works, SameJob
  <2>4. ASSUME NEW t \in Works(h)', t \notin moved
        PROVE  t \in Works(h) /\ SameJob(t) /\ Begun(t)' = Begun(t)
    <3>1. t \in Slots \ moved /\ t \in Occupied' /\ t \in Occupied
      BY <1>5, <2>4
    <3>2. job[t].hour = h /\ job[t].phase = "resample"
      BY <1>5, <2>4, <3>1 DEF Works
    <3>3. t \in Works(h)
      BY <3>1, <3>2 DEF Works
    <3>4. SameJob(t)
      BY <2>3, <2>4, <3>3
    <3>5. Begun(t)' = Begun(t)
      BY <1>5, <3>2, <3>4 DEF Begun, SameJob, Files
    <3> QED
      BY <3>3, <3>4, <3>5
  <2>5. \A t \in Works(h) : Begun(t) => t \in Works(h)' /\ SameJob(t)
    BY <2>2, <2>3
  <2>6. \A t \in Works(h)' : (t \in Works(h) /\ Begun(t) /\ SameJob(t)) \/ ~Begun(t)'
    <3>1. \A t \in Works(h)' : t \in moved => ~Begun(t)'
      BY <1>5
    <3> QED
      BY <2>4, <3>1
  <2> QED
    BY <1>1, <2>1, <2>5, <2>6, HourKept
<1> QED
  BY <1>3, <1>6, <1>7 DEF Sound

LEMMA NothingCut ==
    ASSUME NEW dead, \A s \in dead : Ended(s), Typed, built' = built
    PROVE  built' = Unbuilt(dead) /\ Cut(dead) = {}
<1>1. Cut(dead) = {}
  BY DEF Cut
<1>2. built = [h \in Hours |-> built[h]] /\ \A h \in Hours : built[h] \in BOOLEAN
  BY DEF Typed
<1> QED
  BY <1>1, <1>2 DEF Unbuilt

\* No job changes.
LEMMA IdleSound ==
    ASSUME Sound, UNCHANGED <<raw, bars, built, job>>, RunTyped'
    PROVE  Sound'
<1>1. Typed
  BY DEF Sound
<1>2. \A t \in Slots : t \in Occupied' <=> t \in Occupied
  BY DEF Occupied
<1>3. {} \cap Occupied = {}
  OBVIOUS
<1>4. built' = Unbuilt({}) /\ Cut({}) = {}
  BY <1>1, NothingCut
<1>5. job' \in [Slots -> Job \cup {None}] /\ \A t \in Occupied' : Shape(job'[t])
  BY <1>1 DEF Typed, Occupied
<1> QED
  BY <1>2, <1>3, <1>4, <1>5, MovedSound

LEMMA ArrivalSound ==
    ASSUME Sound, NEW h \in Hours, NEW p \in Phases, NEW own \in BOOLEAN,
           Free # {}, job' = [job EXCEPT ![Slot] = Child(h, p, own)],
           UNCHANGED <<raw, bars, built>>, RunTyped'
    PROVE  Sound'
<1>1. Typed
  BY DEF Sound
<1>2. PICK f \in Free : f = Slot
  BY DEF Slot
<1>3. f \in Slots /\ f \notin Occupied
  BY <1>2 DEF Free
<1> DEFINE c == Child(h, p, own)
<1>4. /\ c \in Job /\ Shape(c) /\ c # None
      /\ c.hour = h /\ c.step = IF p = "resample" THEN "load" ELSE "query"
      /\ p = "resample" => c.left = Files(h)
  BY NewChild, NoneAssumption
<1> HIDE DEF c
<1>5. /\ job' \in [Slots -> Job \cup {None}]
      /\ job'[f] = c /\ \A t \in Slots \ {f} : job'[t] = job[t]
  BY <1>1, <1>2, <1>3, <1>4 DEF Typed, c
<1>6. \A t \in Slots \ {f} : t \in Occupied' <=> t \in Occupied
  BY <1>5 DEF Occupied
<1>7. \A t \in Occupied' : Shape(job'[t])
  <2>1. \A t \in Occupied' : t = f \/ t \in Slots \ {f}
    BY DEF Occupied
  <2> QED
    BY <1>1, <1>4, <1>5, <1>6, <2>1 DEF Typed
<1>8. ~Begun(f)'
  BY <1>4, <1>5 DEF Begun, Files
<1>9. {f} \cap Occupied = {}
  BY <1>3
<1>10. built' = Unbuilt({}) /\ Cut({}) = {}
  BY <1>1, NothingCut
<1>11. \A t \in Slots \ {f} :
            /\ t \in Occupied' <=> t \in Occupied
            /\ job'[t] = job[t]
            /\ job[t].hour \notin Cut({f} \cap Occupied)
  BY <1>5, <1>6, <1>9, <1>10
<1>12. {f} \in SUBSET Slots /\ \A t \in {f} : t \in Occupied' => ~Begun(t)'
  BY <1>3, <1>8
<1>13. built' = Unbuilt({f} \cap Occupied)
  BY <1>9, <1>10
<1> QED
  BY <1>5, <1>7, <1>11, <1>12, <1>13, MovedSound

LEMMA DepartureSound ==
    ASSUME Sound, NEW s \in Occupied, Ended(s), job' = [job EXCEPT ![s] = None],
           UNCHANGED <<raw, bars, built>>, RunTyped'
    PROVE  Sound'
<1>1. Typed
  BY DEF Sound
<1>2. s \in Slots
  BY DEF Occupied
<1>3. /\ job' \in [Slots -> Job \cup {None}]
      /\ job'[s] = None /\ \A t \in Slots \ {s} : job'[t] = job[t]
  BY <1>1, <1>2 DEF Typed
<1>4. \A t \in Slots \ {s} : t \in Occupied' <=> t \in Occupied
  BY <1>3 DEF Occupied
<1>5. s \notin Occupied'
  BY <1>3 DEF Occupied
<1>6. \A t \in Occupied' : Shape(job'[t])
  <2>1. \A t \in Occupied' : t \in Slots \ {s}
    BY <1>5 DEF Occupied
  <2> QED
    BY <1>1, <1>3, <1>4, <2>1 DEF Typed
<1>7. {s} \cap Occupied = {s}
  OBVIOUS
<1>8. built' = Unbuilt({s}) /\ Cut({s}) = {}
  BY <1>1, NothingCut
<1>9. \A t \in Slots \ {s} :
            /\ t \in Occupied' <=> t \in Occupied
            /\ job'[t] = job[t]
            /\ job[t].hour \notin Cut({s} \cap Occupied)
  BY <1>3, <1>4, <1>7, <1>8
<1>10. {s} \in SUBSET Slots /\ \A t \in {s} : t \in Occupied' => ~Begun(t)'
  BY <1>2, <1>5
<1>11. built' = Unbuilt({s} \cap Occupied)
  BY <1>7, <1>8
<1> QED
  BY <1>3, <1>6, <1>9, <1>10, <1>11, MovedSound

\* What Shaken leaves of a job.
LEMMA ShakenJob ==
    ASSUME Typed, NEW dead, NEW t \in Slots
    PROVE  /\ t \notin Occupied => Shaken(dead)[t] = job[t]
           /\ t \in Occupied \ dead =>
                /\ Shaken(dead)[t] \in Job
                /\ Shape(Shaken(dead)[t])
                /\ Shaken(dead)[t].hour = job[t].hour /\ Shaken(dead)[t].phase = job[t].phase
                /\ Shaken(dead)[t].step = job[t].step /\ Shaken(dead)[t].kind = job[t].kind
                /\ Shaken(dead)[t].left = job[t].left
                /\ IF job[t].hour \in Cut(dead) THEN Shaken(dead)[t].fresh = FALSE
                   ELSE Shaken(dead)[t].fresh = job[t].fresh
<1>1. t \notin Occupied => Shaken(dead)[t] = job[t]
  BY DEF Shaken
<1>2. ASSUME t \in Occupied \ dead
      PROVE  /\ Shaken(dead)[t] \in Job
             /\ Shaken(dead)[t].hour = job[t].hour /\ Shaken(dead)[t].phase = job[t].phase
             /\ Shaken(dead)[t].step = job[t].step /\ Shaken(dead)[t].kind = job[t].kind
             /\ Shaken(dead)[t].left = job[t].left
             /\ IF job[t].hour \in Cut(dead) THEN Shaken(dead)[t].fresh = FALSE
                ELSE Shaken(dead)[t].fresh = job[t].fresh
  <2>1. job[t] \in Job
    BY <1>2, JobFields
  <2>2. CASE job[t].hour \in Cut(dead)
    <3>1. Shaken(dead)[t] = [job[t] EXCEPT !.fresh = FALSE]
      BY <1>2, <2>2 DEF Shaken
    <3> QED
      BY <2>1, <2>2, <3>1 DEF Job
  <2>3. CASE job[t].hour \notin Cut(dead)
    <3>1. Shaken(dead)[t] = job[t]
      BY <1>2, <2>3 DEF Shaken
    <3> QED
      BY <2>1, <2>3, <3>1
  <2> QED
    BY <2>2, <2>3
<1>3. ASSUME t \in Occupied \ dead PROVE Shape(Shaken(dead)[t])
  <2>1. Shape(job[t])
    BY <1>3, JobFields
  <2> QED
    BY <1>2, <1>3, <2>1 DEF Shape
<1> QED
  BY <1>1, <1>2, <1>3

LEMMA FailsSound ==
    ASSUME Sound, NEW s \in Occupied, Fails(s)
    PROVE  Sound'
<1>1. Typed
  BY DEF Sound
<1>2. s \in Slots /\ job[s] \in Job /\ job[s].hour \in Hours /\ job[s].phase \in Phases
  BY <1>1, JobFields
<1> DEFINE c == Child(job[s].hour, job[s].phase, TRUE)
           again == [c EXCEPT !.attempt = job[s].attempt + 1]
           gone == [job[s] EXCEPT !.step = "failed"]
           next == IF ~job[s].own THEN None
                   ELSE IF job[s].attempt <= Retries THEN again ELSE gone
<1>3. Shaken({s})[s] = job[s]
  BY <1>2 DEF Shaken
<1>4. job' = [Shaken({s}) EXCEPT ![s] = next]
  BY <1>3 DEF Fails
<1>5. /\ c \in Job /\ Shape(c) /\ c.hour = job[s].hour
      /\ c.step = IF job[s].phase = "resample" THEN "load" ELSE "query"
      /\ job[s].phase = "resample" => c.left = Files(job[s].hour)
  <2> HIDE DEF again, gone, next
  <2>1. PICK yes \in BOOLEAN : yes = TRUE
    OBVIOUS
  <2>2. c = Child(job[s].hour, job[s].phase, yes)
    BY <2>1
  <2> HIDE DEF c
  <2> QED
    BY <1>2, <2>2, NewChild
<1> HIDE DEF c
<1>6. /\ again \in Job /\ Shape(again)
      /\ again.hour = job[s].hour /\ again.left = c.left /\ again.step = c.step
  <2>1. job[s].attempt \in Nat
    BY <1>2 DEF Job
  <2>2. /\ again \in Job /\ again.hour = c.hour /\ again.phase = c.phase
        /\ again.left = c.left /\ again.kind = c.kind /\ again.step = c.step
    BY <1>5, <2>1 DEF Job
  <2> HIDE DEF again
  <2> QED
    BY <1>5, <2>2 DEF Shape
<1>7. gone \in Job /\ Shape(gone) /\ gone.step = "failed"
  <2>1. gone \in Job /\ gone.step = "failed"
    BY <1>2 DEF Job
  <2> HIDE DEF gone
  <2> QED
    BY <2>1 DEF Shape
<1>8. DOMAIN Shaken({s}) = Slots
  BY DEF Shaken
<1> HIDE DEF again, gone
<1>9. next \in Job \cup {None} /\ (next # None => Shape(next))
  BY <1>6, <1>7
<1>10. job'[s] = next /\ \A t \in Slots \ {s} : job'[t] = Shaken({s})[t]
  BY <1>2, <1>4, <1>8 DEF Shaken
<1>11. s \in Occupied' => ~Begun(s)'
  <2>1. CASE next = None
    BY <1>10, <2>1 DEF Occupied
  <2>2. CASE next = again
    <3>1. job'[s] = again
      BY <1>10, <2>2
    <3> QED
      BY <1>5, <1>6, <3>1 DEF Begun, Files
  <2>3. CASE next = gone
    <3>1. job'[s] = gone
      BY <1>10, <2>3
    <3> QED
      BY <1>7, <3>1 DEF Begun
  <2> QED
    BY <2>1, <2>2, <2>3
<1> HIDE DEF next
<1>12. \A t \in Slots \ {s} : t \in Occupied' <=> t \in Occupied
  <2>1. ASSUME NEW t \in Slots \ {s}, t \in Occupied PROVE t \in Occupied'
    <3>1. Shaken({s})[t] \in Job
      BY <1>1, <2>1, ShakenJob
    <3> QED
      BY <1>10, <3>1, NoneAssumption DEF Occupied
  <2>2. ASSUME NEW t \in Slots \ {s}, t \notin Occupied PROVE t \notin Occupied'
    BY <1>1, <1>10, <2>2, ShakenJob DEF Occupied
  <2> QED
    BY <2>1, <2>2
<1>13. {s} \cap Occupied = {s}
  OBVIOUS
<1>14. ASSUME NEW t \in Slots \ {s}, t \in Occupied
       PROVE  /\ Shape(job'[t]) /\ job'[t] \in Job
              /\ job'[t].hour = job[t].hour /\ job'[t].phase = job[t].phase
              /\ job'[t].step = job[t].step /\ job'[t].kind = job[t].kind
              /\ job'[t].left = job[t].left
              /\ IF job[t].hour \in Cut({s}) THEN job'[t].fresh = FALSE
                 ELSE job'[t].fresh = job[t].fresh
  <2>1. PICK dead \in SUBSET Slots : dead = {s}
    BY <1>2
  <2>2. job'[t] = Shaken(dead)[t] /\ t \in Occupied \ dead
    BY <1>10, <1>14, <2>1
  <2> DEFINE j == Shaken(dead)[t]
  <2>3. /\ Shape(j) /\ j \in Job
        /\ j.hour = job[t].hour /\ j.phase = job[t].phase
        /\ j.step = job[t].step /\ j.kind = job[t].kind /\ j.left = job[t].left
        /\ IF job[t].hour \in Cut(dead) THEN j.fresh = FALSE ELSE j.fresh = job[t].fresh
    BY <1>1, <2>2, ShakenJob
  <2>4. job'[t] = j
    BY <2>2
  <2> HIDE DEF j
  <2> QED
    BY <2>1, <2>3, <2>4
<1>15. job' \in [Slots -> Job \cup {None}]
  <2>1. \A t \in Slots : job'[t] \in Job \cup {None}
    BY <1>9, <1>10, <1>12, <1>14 DEF Occupied
  <2>2. job' = [t \in Slots |-> job'[t]]
    BY <1>4, <1>8
  <2> QED
    BY <2>1, <2>2
<1>16. \A t \in Occupied' : Shape(job'[t])
  BY <1>9, <1>10, <1>12, <1>14 DEF Occupied
<1>17. RunTyped' /\ UNCHANGED <<raw, bars>> /\ built' = Unbuilt({s} \cap Occupied)
  BY <1>1, <1>13 DEF Fails, Typed, RunTyped, tables
<1>18. {s} \in SUBSET Slots /\ \A t \in {s} : t \in Occupied' => ~Begun(t)'
  BY <1>2, <1>11
<1>19. \A t \in Slots \ {s} :
          /\ t \in Occupied' <=> t \in Occupied
          /\ t \in Occupied =>
               /\ job'[t].hour = job[t].hour /\ job'[t].phase = job[t].phase
               /\ job'[t].step = job[t].step /\ job'[t].kind = job[t].kind
               /\ job'[t].left = job[t].left
               /\ IF job[t].hour \in Cut({s} \cap Occupied) THEN job'[t].fresh = FALSE
                  ELSE job'[t].fresh = job[t].fresh
  BY <1>12, <1>13, <1>14
<1> QED
  BY <1>15, <1>16, <1>17, <1>18, <1>19, MovedSound

LEMMA KillSound ==
    ASSUME Sound, Kill
    PROVE  Sound'
<1>1. Typed
  BY DEF Sound
<1>2. PICK dead \in SUBSET Own :
        /\ built' = Unbuilt(dead)
        /\ job' = [s \in Slots |->
                    IF s \in dead THEN None
                    ELSE IF s \in Own THEN [Shaken(dead)[s] EXCEPT !.own = FALSE]
                    ELSE Shaken(dead)[s]]
  BY DEF Kill
<1>3. dead \in SUBSET Slots /\ dead \cap Occupied = dead
  BY DEF Own, Occupied
<1>4. \A t \in dead : job'[t] = None /\ t \notin Occupied'
  BY <1>2, <1>3 DEF Occupied
<1>5. \A t \in Slots : t \notin Occupied => job'[t] = None
  <2>1. \A t \in Slots : t \notin Occupied => t \notin Own /\ t \notin dead /\ job[t] = None
    BY DEF Own, Occupied
  <2> QED
    BY <1>1, <1>2, <2>1, ShakenJob
<1>6. ASSUME NEW t \in Slots \ dead, t \in Occupied
      PROVE  /\ Shape(job'[t]) /\ job'[t] \in Job
             /\ job'[t].hour = job[t].hour /\ job'[t].phase = job[t].phase
             /\ job'[t].step = job[t].step /\ job'[t].kind = job[t].kind
             /\ job'[t].left = job[t].left
             /\ IF job[t].hour \in Cut(dead) THEN job'[t].fresh = FALSE
                ELSE job'[t].fresh = job[t].fresh
  <2> DEFINE j == Shaken(dead)[t]
             orphan == [j EXCEPT !.own = FALSE]
  <2>1. /\ j \in Job
        /\ Shape(j)
        /\ j.hour = job[t].hour /\ j.phase = job[t].phase
        /\ j.step = job[t].step /\ j.kind = job[t].kind /\ j.left = job[t].left
        /\ IF job[t].hour \in Cut(dead) THEN j.fresh = FALSE ELSE j.fresh = job[t].fresh
    BY <1>1, <1>6, ShakenJob
  <2>2. CASE t \in Own
    <3>1. job'[t] = orphan
      BY <1>2, <1>6, <2>2
    <3> HIDE DEF j
    <3>2. /\ orphan \in Job
          /\ orphan.hour = j.hour /\ orphan.phase = j.phase
          /\ orphan.step = j.step /\ orphan.kind = j.kind /\ orphan.left = j.left
          /\ orphan.fresh = j.fresh
      BY <2>1 DEF Job
    <3> HIDE DEF orphan
    <3>3. Shape(orphan)
      BY <2>1, <3>2 DEF Shape
    <3> QED
      BY <2>1, <3>1, <3>2, <3>3
  <2>3. CASE t \notin Own
    <3>1. job'[t] = j
      BY <1>2, <1>6, <2>3
    <3> QED
      BY <2>1, <3>1
  <2> QED
    BY <2>2, <2>3
<1>7. \A t \in Slots \ dead : t \in Occupied' <=> t \in Occupied
  BY <1>5, <1>6, NoneAssumption DEF Occupied
<1>8. job' \in [Slots -> Job \cup {None}]
  <2>1. \A t \in Slots : job'[t] \in Job \cup {None}
    BY <1>4, <1>5, <1>6
  <2>2. job' = [t \in Slots |-> job'[t]]
    BY <1>2
  <2> QED
    BY <2>1, <2>2
<1>9. \A t \in Occupied' : Shape(job'[t])
  <2>1. \A t \in Occupied' : t \in Slots \ dead
    BY <1>4 DEF Occupied
  <2> QED
    BY <1>6, <1>7, <2>1
<1>10. UNCHANGED <<raw, bars>> /\ built' = Unbuilt(dead \cap Occupied)
  BY <1>2, <1>3 DEF Kill, tables
<1>11. RunTyped'
  BY <1>1 DEF Kill, Typed, RunTyped, RunType
<1> QED
  BY <1>3, <1>4, <1>6, <1>7, <1>8, <1>9, <1>10, <1>11, MovedSound

-----------------------------------------------------------------------------
(* The theorem *)

LEMMA InitSound == Init => Sound
<1> SUFFICES ASSUME Init PROVE Sound
  OBVIOUS
<1>1. Occupied = {} /\ \A h \in Hours : Works(h) = {}
  BY DEF Init, Occupied, Works
<1>2. ASSUME NEW h \in Hours PROVE Hourly(h)
  <2>1. \A k \in Kinds : raw[k][h] = 0
    BY DEF Init
  <2>2. ~built[h] /\ ~Claimed(h)
    BY <1>1 DEF Init, Claimed
  <2> QED
    BY <1>1, <2>1, <2>2 DEF Hourly
<1> QED
  BY <1>2, InitTyped DEF Sound

\* The steps of the backfill process itself.
LEMMA BackfillSteps ==
    ASSUME Sound,
           \/ \E m \in Modes, r \in BOOLEAN : Invoke(m, r)
           \/ Launch \/ NextPhase \/ Exit
           \/ \E s \in Slots : Record(s)
    PROVE  Sound'
<1>1. Typed
  BY DEF Sound
<1>2. /\ run \in RunType /\ run.at <= Len(run.mode)
      /\ run.mode \in Modes /\ run.at \in Nat \ {0} /\ run.resume \in BOOLEAN
      /\ run.failed \in BOOLEAN /\ run.pending \in SUBSET Hours
  BY <1>1 DEF Typed, RunTyped, RunType
<1>3. \A m \in Modes : Len(m) \in Nat \ {0}
  BY ModesArePhases
<1>4. ASSUME NEW m \in Modes, NEW r \in BOOLEAN, Invoke(m, r) PROVE Sound'
  <2>1. run' = Beginning(Loaded(r), m, 1, r, FALSE)
    BY <1>4 DEF Invoke
  <2>2. run' \in RunType /\ run'.at = 1 /\ run'.mode = m
    <3>1. PICK at \in Nat \ {0} : at = 1
      BY SMT
    <3>2. PICK no \in BOOLEAN : no = FALSE
      OBVIOUS
    <3>3. Beginning(Loaded(r), m, at, r, no) \in RunType
      BY BeginningType
    <3> QED
      BY <2>1, <3>1, <3>2, <3>3 DEF Beginning
  <2>3. RunTyped'
    BY <1>3, <2>2 DEF RunTyped
  <2> QED
    BY <1>4, <2>3, IdleSound DEF Invoke, tables
<1>5. CASE Launch
  <2>1. Min(run.pending) \in Hours
    BY <1>1, <1>5, Pending DEF Launch
  <2>2. Phase \in Phases
    BY <1>1, ModeType
  <2>3. RunTyped'
    BY <1>2, <1>5 DEF Launch, RunTyped, RunType
  <2>4. PICK h \in Hours, p \in Phases, own \in BOOLEAN :
            h = Min(run.pending) /\ p = Phase /\ own = TRUE
    BY <2>1, <2>2
  <2>5. Free # {} /\ job' = [job EXCEPT ![Slot] = Child(h, p, own)]
    BY <1>5, <2>4 DEF Launch
  <2> QED
    BY <1>5, <2>3, <2>5, ArrivalSound DEF Launch, tables, history
<1>6. CASE NextPhase
  <2>1. run' = Beginning(state, run.mode, run.at + 1, run.resume, run.failed)
    BY <1>6 DEF NextPhase
  <2>2. run' \in RunType /\ run'.at = run.at + 1 /\ run'.mode = run.mode
    <3>1. run.at + 1 \in Nat \ {0}
      BY <1>2
    <3>2. Beginning(state, run.mode, run.at + 1, run.resume, run.failed) \in RunType
      BY <1>2, <3>1, BeginningType
    <3> QED
      BY <2>1, <3>2 DEF Beginning
  <2>3. RunTyped'
    BY <1>2, <1>3, <1>6, <2>2 DEF NextPhase, RunTyped
  <2> QED
    BY <1>6, <2>3, IdleSound DEF NextPhase, tables, history
<1>7. CASE Exit
  <2>1. RunTyped'
    BY <1>2, <1>7 DEF Exit, RunTyped, RunType
  <2> QED
    BY <1>7, <2>1, IdleSound DEF Exit, tables, history
<1>8. ASSUME NEW s \in Slots, Record(s) PROVE Sound'
  <2>1. s \in Occupied
    BY <1>8 DEF Record, Own
  <2>2. RunTyped'
    <3>1. (run.failed \/ job[s].step = "failed") \in BOOLEAN
      OBVIOUS
    <3>2. run' = [run EXCEPT !.failed = run.failed \/ job[s].step = "failed"]
      BY <1>8 DEF Record
    <3> QED
      BY <1>2, <3>1, <3>2 DEF RunTyped, RunType
  <2> QED
    BY <1>8, <2>1, <2>2, DepartureSound DEF Record, tables, history
<1> QED
  BY <1>4, <1>5, <1>6, <1>7, <1>8

\* The steps of a child process or a CronJob.
LEMMA ProcessSteps ==
    ASSUME Sound, NEW s \in Slots, Process(s)
    PROVE  Sound'
<1>1. Typed /\ s \in Occupied
  BY DEF Sound, Process
<1>2. RunTyped' /\ UNCHANGED run
  BY <1>1 DEF Process, Query, Leave, Typed, RunTyped
<1>3. PICK g \in Hours : g = job[s].hour
  BY <1>1, JobFields
<1>4. CASE Query(s)
  BY <1>1, <1>2, <1>3, <1>4, DeleteRawSound, InsertRawSound, DeleteBarsSound,
     MergeBarsSound, DeriveSound DEF Query
<1>5. CASE Leave(s)
  <2>1. /\ Ended(s) /\ job' = [job EXCEPT ![s] = None]
        /\ UNCHANGED <<raw, bars, built>>
    BY <1>5 DEF Leave, Ended, tables, history
  <2> QED
    BY <1>1, <1>2, <2>1, DepartureSound
<1> QED
  BY <1>4, <1>5 DEF Process

LEMMA CronSound ==
    ASSUME Sound, NEW c \in Scheduled, Cron(c[1], c[2])
    PROVE  Sound'
<1>1. RunTyped'
  BY DEF Sound, Typed, Cron, RunTyped
<1>2. PICK h \in Hours, p \in Phases, own \in BOOLEAN :
          h = c[1] /\ p = c[2] /\ own = FALSE
  BY BackfillAssumption
<1>3. Free # {} /\ job' = [job EXCEPT ![Slot] = Child(h, p, own)]
  BY <1>2 DEF Cron
<1> QED
  BY <1>1, <1>3, ArrivalSound DEF Cron, tables

LEMMA NextSound == Sound /\ [Next]_vars => Sound'
<1> SUFFICES ASSUME Sound, [Next]_vars PROVE Sound'
  OBVIOUS
<1>1. CASE UNCHANGED vars
  <2>1. RunTyped' /\ UNCHANGED <<raw, bars, built, job>>
    BY <1>1 DEF vars, Sound, Typed, RunTyped
  <2> QED
    BY <2>1, IdleSound
<1>2. CASE \/ \E m \in Modes, r \in BOOLEAN : Invoke(m, r)
           \/ Launch \/ NextPhase \/ Exit
           \/ \E s \in Slots : Record(s)
  BY <1>2, BackfillSteps
<1>3. CASE \E s \in Slots : Process(s)
  BY <1>3, ProcessSteps
<1>4. CASE \E s \in Occupied : Fails(s)
  BY <1>4, FailsSound
<1>5. CASE Kill
  BY <1>5, KillSound
<1>6. CASE \E c \in Scheduled : Cron(c[1], c[2])
  BY <1>6, CronSound
<1> QED
  BY <1>1, <1>2, <1>3, <1>4, <1>5, <1>6 DEF Next

\* Whoever loads, retries, dies or lives on, in whatever order, the bars of an
\* hour that nobody works on and whose last resampling was not cut short hold
\* every archived object once (load_raw_to_bigquery.py, run_bigquery_hourly.py
\* and backfill_bigquery.py, for every number of hours, processes and faults).
THEOREM BarsAreWhole == Spec => []QuietMeansWhole
<1>1. Sound => QuietMeansWhole
  <2> SUFFICES ASSUME Sound, NEW h \in Hours, built[h], Works(h) = {}
               PROVE  bars[h] # None /\ Right(h)
    BY DEF QuietMeansWhole, Right
  <2>1. bars[h] # None
    BY DEF Sound, Hourly
  <2>2. ~Redo(h) /\ Claimed(h)
    BY DEF Redo, Claimed
  <2> QED
    BY <2>1, <2>2 DEF Sound, Hourly
<1> QED
  BY <1>1, InitSound, NextSound, PTL DEF Spec

-----------------------------------------------------------------------------
(* Resuming *)

Ledger == [Hours -> [Phases -> Statuses \cup {None}]]

\* An hour of this phase that is waiting or worked on by the backfill.
Due(h) == h \in run.pending \/ \E s \in Own : job[s].hour = h

\* What memory and file agree on, and what is due is not complete in either.
Resumed ==
    /\ \A h \in Hours, p \in Phases : state[h][p] = "complete" <=> file[h][p] = "complete"
    /\ \A h \in Hours : Due(h) => file[h][Phase] # "complete"

\* A running backfill has one child per hour, of the phase at hand.
Single ==
    /\ \A s \in Own : job[s].phase = Phase /\ job[s].hour \notin run.pending
    /\ \A s, t \in Own : job[s].hour = job[t].hour => s = t

Progress ==
    /\ file \in Ledger /\ state \in Ledger
    /\ ~Running => Own = {}
    /\ Running => Single
    /\ Running /\ run.resume => Resumed

LEMMA LedgerUpdate ==
    ASSUME NEW st \in Ledger, NEW h \in Hours, NEW p \in Phases, NEW v \in Statuses
    PROVE  /\ [st EXCEPT ![h][p] = v] \in Ledger
           /\ \A i \in Hours, q \in Phases :
                  [st EXCEPT ![h][p] = v][i][q] = IF i = h /\ q = p THEN v ELSE st[i][q]
BY DEF Ledger

\* Marking hours as blocked makes none complete and takes none back.
LEMMA BlockedAgrees ==
    ASSUME NEW st \in Ledger, NEW mode \in Modes, NEW at \in 1..Len(mode), NEW r \in BOOLEAN
    PROVE  /\ Blocked(st, mode, at, r) \in Ledger
           /\ r => \A h \in Hours, p \in Phases :
                     Blocked(st, mode, at, r)[h][p] = "complete" <=> st[h][p] = "complete"
<1>1. mode[at] \in Phases
  BY ModesArePhases
<1>2. ASSUME NEW h \in Hours
      PROVE  /\ Blocked(st, mode, at, r)[h] \in [Phases -> Statuses \cup {None}]
             /\ r => \A p \in Phases :
                       Blocked(st, mode, at, r)[h][p] = "complete" <=> st[h][p] = "complete"
  <2>1. st[h] \in [Phases -> Statuses \cup {None}]
    BY DEF Ledger
  <2>2. CASE h \in Blocks(st, mode, at, r)
    <3>1. Blocked(st, mode, at, r)[h] = [st[h] EXCEPT ![mode[at]] = "blocked"]
      BY <2>2 DEF Blocked
    <3>2. r => st[h][mode[at]] # "complete"
      BY <2>2 DEF Blocks, Skips
    <3> QED
      BY <1>1, <2>1, <3>1, <3>2 DEF Statuses
  <2>3. CASE h \notin Blocks(st, mode, at, r)
    BY <2>1, <2>3 DEF Blocked
  <2> QED
    BY <2>2, <2>3
<1>3. Blocked(st, mode, at, r) = [h \in Hours |-> Blocked(st, mode, at, r)[h]]
  BY DEF Blocked
<1> QED
  BY <1>2, <1>3 DEF Ledger

\* The backfill and its file as they are, and its children on the same hours.
LEMMA ProgressKept ==
    ASSUME Progress, UNCHANGED <<file, state, run>>, Own' \subseteq Own,
           \A t \in Own' : job'[t].hour = job[t].hour /\ job'[t].phase = job[t].phase
    PROVE  Progress'
<1>1. Running' = Running /\ Phase' = Phase
  BY DEF Running, Phase
<1>2. Single => Single'
  BY <1>1 DEF Single
<1>3. \A h \in Hours : Due(h)' => Due(h)
  BY DEF Due
<1>4. Resumed => Resumed'
  BY <1>1, <1>3 DEF Resumed
<1> QED
  BY <1>1, <1>2, <1>4 DEF Progress

\* At the beginning of a phase that has no children yet.
LEMMA ProgressBegins ==
    ASSUME NEW st \in Ledger, NEW mode \in Modes, NEW at \in 1..Len(mode),
           NEW r \in BOOLEAN, NEW f \in BOOLEAN, file \in Ledger, UNCHANGED file,
           run' = Beginning(st, mode, at, r, f), state' = Blocked(st, mode, at, r),
           Own' = {},
           r => \A h \in Hours, p \in Phases : st[h][p] = "complete" <=> file[h][p] = "complete"
    PROVE  Progress'
<1>1. /\ Running' /\ run'.resume = r /\ Phase' = mode[at]
      /\ run'.pending = Hours \ (Skips(st, mode, at, r) \cup Blocks(st, mode, at, r))
  BY DEF Beginning, Running, Phase
<1>2. Single'
  BY DEF Single
<1>3. mode[at] \in Phases
  BY ModesArePhases
<1>4. ASSUME r PROVE Resumed'
  <2>1. \A h \in Hours, p \in Phases : state'[h][p] = "complete" <=> file'[h][p] = "complete"
    BY <1>4, BlockedAgrees
  <2>2. \A h \in Hours : Due(h)' => h \notin Skips(st, mode, at, r)
    BY <1>1 DEF Due
  <2>3. \A h \in Hours : Due(h)' => file'[h][Phase'] # "complete"
    BY <1>1, <1>3, <1>4, <2>2 DEF Skips
  <2> QED
    BY <2>1, <2>3 DEF Resumed
<1>5. state' \in Ledger
  BY BlockedAgrees
<1> QED
  BY <1>1, <1>2, <1>4, <1>5 DEF Progress

LEMMA InitProgress == Init => Progress
<1> SUFFICES ASSUME Init PROVE Progress
  OBVIOUS
<1>1. Own = {}
  BY DEF Init, Own, Occupied
<1>2. ~Running
  BY DEF Init, Running
<1>3. file \in Ledger /\ state \in Ledger
  BY DEF Init, Empty, Ledger
<1> QED
  BY <1>1, <1>2, <1>3 DEF Progress

LEMMA InvokeProgress ==
    ASSUME Progress, NEW m \in Modes, NEW r \in BOOLEAN, Invoke(m, r)
    PROVE  Progress'
<1>1. ~Running /\ Own = {} /\ UNCHANGED <<file, job>>
  BY DEF Invoke, Progress
<1>2. Own' = {}
  BY <1>1 DEF Own, Occupied
<1>3. Loaded(r) \in Ledger /\ (r => Loaded(r) = file)
  BY DEF Loaded, Empty, Ledger, Progress
<1>4. PICK at \in 1..Len(m) : at = 1
  <2>1. Len(m) \in Nat \ {0}
    BY ModesArePhases
  <2> QED
    BY <2>1
<1>5. PICK no \in BOOLEAN : no = FALSE
  OBVIOUS
<1>6. /\ run' = Beginning(Loaded(r), m, at, r, no)
      /\ state' = Blocked(Loaded(r), m, at, r)
  BY <1>4, <1>5 DEF Invoke
<1>7. file \in Ledger
  BY DEF Progress
<1> QED
  BY <1>1, <1>2, <1>3, <1>6, <1>7, ProgressBegins

LEMMA NextPhaseProgress ==
    ASSUME Typed, Progress, NextPhase
    PROVE  Progress'
<1>1. Running /\ Own = {} /\ UNCHANGED <<file, job>> /\ run.at < Len(run.mode)
  BY DEF NextPhase, PhaseEnds
<1>2. Own' = {}
  BY <1>1 DEF Own, Occupied
<1>3. /\ run.mode \in Modes /\ run.at \in Nat \ {0} /\ run.resume \in BOOLEAN
      /\ run.failed \in BOOLEAN
  BY DEF Typed, RunTyped, RunType
<1>4. run.at + 1 \in 1..Len(run.mode)
  <2>1. Len(run.mode) \in Nat
    BY <1>3, BackfillAssumption
  <2> QED
    BY <1>1, <1>3, <2>1
<1>5. /\ state \in Ledger /\ file \in Ledger
      /\ run.resume => \A h \in Hours, p \in Phases :
                          state[h][p] = "complete" <=> file[h][p] = "complete"
  BY <1>1 DEF Progress, Resumed
<1>6. /\ run' = Beginning(state, run.mode, run.at + 1, run.resume, run.failed)
      /\ state' = Blocked(state, run.mode, run.at + 1, run.resume)
  BY DEF NextPhase
<1> QED
  BY <1>1, <1>2, <1>3, <1>4, <1>5, <1>6, ProgressBegins

\* What a change of one slot does to the children of the backfill.
LEMMA OwnAfter ==
    ASSUME Typed, NEW s \in Slots, NEW j, job' = [job EXCEPT ![s] = j]
    PROVE  /\ \A t \in Own' \ {s} : t \in Own /\ job'[t] = job[t]
           /\ s \in Own' => j # None /\ j.own /\ job'[s] = j
<1>1. DOMAIN job = Slots
  BY DEF Typed
<1>2. job'[s] = j /\ \A t \in Slots \ {s} : job'[t] = job[t]
  BY <1>1
<1> QED
  BY <1>2 DEF Own, Occupied

LEMMA LaunchProgress ==
    ASSUME Typed, Progress, Launch
    PROVE  Progress'
<1>1. /\ Running /\ run.pending # {} /\ Free # {}
      /\ UNCHANGED <<file, state>>
  BY DEF Launch
<1>2. PICK h \in Hours : h = Min(run.pending)
  BY <1>1, Pending
<1>3. h \in run.pending
  <2>1. run.pending \in SUBSET Nat /\ run.pending \subseteq Hours
    BY Constants DEF Typed, RunTyped, RunType
  <2>2. \E x \in run.pending : \A y \in run.pending : x <= y
    BY <1>1, <2>1, MinExists
  <2> QED
    BY <1>2, <2>1, <2>2 DEF Min
<1>4. PICK f \in Slots : f = Slot
  BY <1>1 DEF Slot, Free
<1> DEFINE c == Child(h, Phase, TRUE)
<1>5. c.hour = h /\ c.phase = Phase
  BY DEF Child
<1>6. job' = [job EXCEPT ![f] = c]
  BY <1>2, <1>4 DEF Launch
<1>7. run' = [run EXCEPT !.pending = run.pending \ {h}]
  BY <1>2 DEF Launch
<1> HIDE DEF c
<1>8. /\ run'.pending = run.pending \ {h} /\ Running' /\ Phase' = Phase
      /\ run'.resume = run.resume
  BY <1>1, <1>7 DEF Typed, RunTyped, RunType, Running, Phase
<1>9. \A t \in Own' : t # f => t \in Own /\ job'[t] = job[t]
  BY <1>6, OwnAfter
<1>10. f \in Own' => job'[f] = c
  BY <1>6, OwnAfter
<1>11. Single
  BY <1>1 DEF Progress
<1>12. Single'
  <2>1. \A t \in Own' : job'[t].phase = Phase' /\ job'[t].hour \notin run'.pending
    BY <1>5, <1>8, <1>9, <1>10, <1>11 DEF Single
  <2>2. \A t \in Own' : t # f => job'[t].hour # h
    BY <1>3, <1>9, <1>11 DEF Single
  <2>3. \A t, u \in Own' : job'[t].hour = job'[u].hour => t = u
    BY <1>5, <1>9, <1>10, <1>11, <2>2 DEF Single
  <2> QED
    BY <2>1, <2>3 DEF Single
<1>13. \A i \in Hours : Due(i)' => Due(i)
  BY <1>3, <1>5, <1>8, <1>9, <1>10 DEF Due
<1>14. Resumed => Resumed'
  BY <1>1, <1>8, <1>13 DEF Resumed
<1> QED
  BY <1>1, <1>8, <1>12, <1>14 DEF Progress

\* A child that is recorded was of an hour that the file does not call complete.
LEMMA RecordEffect ==
    ASSUME Typed, Progress, NEW s \in Slots, Record(s)
    PROVE  /\ Running /\ s \in Own /\ job[s].hour \in Hours /\ job[s].phase = Phase
           /\ Phase \in Phases /\ Due(job[s].hour)
           /\ state' \in Ledger /\ file' = state'
           /\ \A h \in Hours, p \in Phases :
                 h # job[s].hour \/ p # job[s].phase => state'[h][p] = state[h][p]
<1>1. Running /\ s \in Own /\ s \in Occupied
  BY DEF Record, Own
<1>2. job[s].hour \in Hours /\ job[s].phase \in Phases
  BY <1>1, JobFields
<1>3. PICK h \in Hours, p \in Phases : h = job[s].hour /\ p = job[s].phase
  BY <1>2
<1>4. PICK v \in Statuses : v = IF job[s].step = "done" THEN "complete" ELSE "failed"
  BY DEF Statuses
<1>5. state' = [state EXCEPT ![h][p] = v] /\ file' = state'
  BY <1>3, <1>4 DEF Record
<1>6. state \in Ledger
  BY DEF Progress
<1>7. job[s].phase = Phase
  BY <1>1 DEF Progress, Single
<1>8. Due(job[s].hour)
  BY <1>1 DEF Due
<1>9. /\ state' \in Ledger
      /\ \A i \in Hours, q \in Phases : i # h \/ q # p => state'[i][q] = state[i][q]
  <2> DEFINE st == [state EXCEPT ![h][p] = v]
  <2>1. /\ st \in Ledger
        /\ \A i \in Hours, q \in Phases : st[i][q] = IF i = h /\ q = p THEN v ELSE state[i][q]
    BY <1>6, LedgerUpdate
  <2>2. state' = st
    BY <1>5
  <2> HIDE DEF st
  <2> QED
    BY <2>1, <2>2
<1> QED
  BY <1>1, <1>2, <1>3, <1>5, <1>7, <1>8, <1>9

LEMMA RecordProgress ==
    ASSUME Typed, Progress, NEW s \in Slots, Record(s)
    PROVE  Progress'
<1>1. /\ Running /\ s \in Own /\ job[s].hour \in Hours /\ job[s].phase = Phase
      /\ Phase \in Phases
      /\ state' \in Ledger /\ file' = state'
      /\ \A h \in Hours, p \in Phases :
            h # job[s].hour \/ p # job[s].phase => state'[h][p] = state[h][p]
  BY RecordEffect
<1>2. /\ job' = [job EXCEPT ![s] = None]
      /\ run' = [run EXCEPT !.failed = run.failed \/ job[s].step = "failed"]
  BY DEF Record
<1>3. /\ run'.pending = run.pending /\ Running' /\ Phase' = Phase
      /\ run'.resume = run.resume
  BY <1>1, <1>2 DEF Typed, RunTyped, RunType, Running, Phase
<1>4. \A t \in Own' : t # s /\ t \in Own /\ job'[t] = job[t]
  BY <1>2, OwnAfter
<1>5. Single
  BY <1>1 DEF Progress
<1>6. Single'
  BY <1>3, <1>4, <1>5 DEF Single
<1>7. \A h \in Hours : Due(h)' => Due(h) /\ h # job[s].hour
  <2>1. \A t \in Own' : job'[t].hour = job[t].hour /\ job[t].hour # job[s].hour
    BY <1>1, <1>4, <1>5 DEF Single
  <2>2. job[s].hour \notin run.pending
    BY <1>1, <1>5 DEF Single
  <2> QED
    BY <1>3, <1>4, <2>1, <2>2 DEF Due
<1>8. ASSUME run.resume, Resumed PROVE Resumed'
  <2>1. \A h \in Hours : Due(h)' => state'[h][Phase] # "complete"
    BY <1>1, <1>7, <1>8 DEF Resumed
  <2> QED
    BY <1>1, <1>3, <2>1 DEF Resumed
<1> QED
  BY <1>1, <1>3, <1>6, <1>8 DEF Progress

LEMMA StopProgress ==
    ASSUME Typed, Progress, Exit \/ Kill
    PROVE  Progress'
<1>1. ~Running'
  <2>1. run \in RunType
    BY DEF Typed, RunTyped
  <2> QED
    BY <2>1 DEF Exit, Kill, Running, RunType
<1>2. CASE Exit
  <2>1. Own' = {}
    BY <1>2 DEF Exit, PhaseEnds, Own, Occupied
  <2> QED
    BY <1>1, <1>2, <2>1 DEF Progress, Exit
<1>3. CASE Kill
  <2>1. PICK dead \in SUBSET Own :
          job' = [s \in Slots |->
                    IF s \in dead THEN None
                    ELSE IF s \in Own THEN [Shaken(dead)[s] EXCEPT !.own = FALSE]
                    ELSE Shaken(dead)[s]]
    BY <1>3 DEF Kill
  <2>2. ASSUME NEW t \in Slots PROVE t \notin Own'
    <3>1. CASE t \in dead
      BY <2>1, <3>1 DEF Own, Occupied
    <3>2. CASE t \in Own \ dead
      <4> DEFINE j == Shaken(dead)[t]
      <4>1. job'[t] = [j EXCEPT !.own = FALSE]
        BY <2>1, <3>2
      <4>2. j \in Job
        BY <3>2, ShakenJob DEF Own
      <4> HIDE DEF j
      <4>3. job'[t].own = FALSE
        BY <4>1, <4>2 DEF Job
      <4> QED
        BY <4>3 DEF Own
    <3>3. CASE t \notin Own
      <4>1. job'[t] = Shaken(dead)[t]
        BY <2>1, <3>3
      <4>2. CASE t \notin Occupied
        BY <4>1, <4>2, ShakenJob DEF Own, Occupied
      <4>3. CASE t \in Occupied
        <5>1. job[t] \in Job /\ ~job[t].own
          BY <3>3, <4>3, JobFields DEF Own
        <5>2. job'[t] = job[t] \/ job'[t] = [job[t] EXCEPT !.fresh = FALSE]
          BY <4>1 DEF Shaken
        <5> QED
          BY <5>1, <5>2 DEF Own, Job
      <4> QED
        BY <4>2, <4>3
    <3> QED
      BY <3>1, <3>2, <3>3
  <2>3. Own' = {}
    BY <2>2 DEF Own, Occupied
  <2> QED
    BY <1>1, <1>3, <2>3 DEF Progress, Kill
<1> QED
  BY <1>2, <1>3

LEMMA FailsProgress ==
    ASSUME Typed, Progress, NEW s \in Occupied, Fails(s)
    PROVE  Progress'
<1>1. /\ UNCHANGED <<file, state, run>>
      /\ job' = [Shaken({s}) EXCEPT ![s] =
                    IF ~@.own THEN None
                    ELSE IF @.attempt <= Retries
                    THEN [Child(@.hour, @.phase, TRUE) EXCEPT !.attempt = job[s].attempt + 1]
                    ELSE [@ EXCEPT !.step = "failed"]]
  BY DEF Fails
<1>2. s \in Slots /\ job[s] \in Job
  BY JobFields
<1>3. Shaken({s})[s] = job[s] /\ DOMAIN Shaken({s}) = Slots
  BY <1>2 DEF Shaken
<1>4. s \in Own' => s \in Own /\ job'[s].hour = job[s].hour /\ job'[s].phase = job[s].phase
  <2> DEFINE again == [Child(job[s].hour, job[s].phase, TRUE)
                         EXCEPT !.attempt = job[s].attempt + 1]
             gone == [job[s] EXCEPT !.step = "failed"]
  <2>1. again.hour = job[s].hour /\ again.phase = job[s].phase
    BY DEF Child
  <2>2. gone.hour = job[s].hour /\ gone.phase = job[s].phase
    BY <1>2 DEF Job
  <2>3. job'[s] = IF ~job[s].own THEN None
                  ELSE IF job[s].attempt <= Retries THEN again ELSE gone
    BY <1>1, <1>2, <1>3
  <2> HIDE DEF again, gone
  <2> QED
    BY <2>1, <2>2, <2>3 DEF Own, Occupied
<1>5. ASSUME NEW t \in Slots \ {s}, t \in Own'
      PROVE  t \in Own /\ job'[t].hour = job[t].hour /\ job'[t].phase = job[t].phase
  <2>1. job'[t] = Shaken({s})[t]
    BY <1>1, <1>3, <1>5
  <2>2. job'[t] = job[t] \/ (t \in Occupied /\ job'[t] = [job[t] EXCEPT !.fresh = FALSE])
    BY <2>1 DEF Shaken
  <2>3. CASE job'[t] = job[t]
    BY <1>5, <2>3 DEF Own, Occupied
  <2>4. CASE t \in Occupied /\ job'[t] = [job[t] EXCEPT !.fresh = FALSE]
    <3>1. job[t] \in Job
      BY <2>4, JobFields
    <3>2. job'[t].own = job[t].own /\ job'[t].hour = job[t].hour /\ job'[t].phase = job[t].phase
      BY <2>4, <3>1 DEF Job
    <3> QED
      BY <1>5, <2>4, <3>2 DEF Own
  <2> QED
    BY <2>2, <2>3, <2>4
<1>6. Own' \subseteq Slots
  BY DEF Own, Occupied
<1> QED
  BY <1>1, <1>4, <1>5, <1>6, ProgressKept

LEMMA ProcessProgress ==
    ASSUME Typed, Progress, NEW s \in Slots, Process(s)
    PROVE  Progress'
<1>1. s \in Occupied /\ job[s] \in Job /\ UNCHANGED <<file, state, run>>
  BY JobFields DEF Process, Query, Leave
<1>2. PICK j : /\ job' = [job EXCEPT ![s] = j]
               /\ j = None \/ (/\ j.hour = job[s].hour /\ j.phase = job[s].phase
                               /\ j.own = job[s].own)
  <2>1. CASE Leave(s)
    BY <2>1 DEF Leave
  <2>2. ASSUME NEW k \in Kinds, DeleteRaw(s, k)
        PROVE  \E j : /\ job' = [job EXCEPT ![s] = j]
                      /\ j.hour = job[s].hour /\ j.phase = job[s].phase
                      /\ j.own = job[s].own
    <3> DEFINE j == [job[s] EXCEPT !.step = "insert", !.kind = k]
    <3>1. job' = [job EXCEPT ![s] = j]
      BY <2>2 DEF DeleteRaw
    <3>2. j.hour = job[s].hour /\ j.phase = job[s].phase /\ j.own = job[s].own
      BY <1>1 DEF Job
    <3> QED
      BY <3>1, <3>2
  <2>3. ASSUME InsertRaw(s)
        PROVE  \E j : /\ job' = [job EXCEPT ![s] = j]
                      /\ j.hour = job[s].hour /\ j.phase = job[s].phase
                      /\ j.own = job[s].own
    <3> DEFINE j == [job[s] EXCEPT !.step = "load", !.kind = None,
                                   !.left = job[s].left \ {job[s].kind}]
    <3>1. job' = [job EXCEPT ![s] = j]
      BY <2>3 DEF InsertRaw
    <3>2. j.hour = job[s].hour /\ j.phase = job[s].phase /\ j.own = job[s].own
      BY <1>1 DEF Job
    <3> QED
      BY <3>1, <3>2
  <2>4. ASSUME NEW step \in {"merge", "done"}, job' = [job EXCEPT ![s].step = step]
        PROVE  \E j : /\ job' = [job EXCEPT ![s] = j]
                      /\ j.hour = job[s].hour /\ j.phase = job[s].phase
                      /\ j.own = job[s].own
    <3> DEFINE j == [job[s] EXCEPT !.step = step]
    <3>1. job' = [job EXCEPT ![s] = j]
      BY <2>4
    <3>2. j.hour = job[s].hour /\ j.phase = job[s].phase /\ j.own = job[s].own
      BY <1>1 DEF Job
    <3> QED
      BY <3>1, <3>2
  <2>5. DeleteBars(s) \/ MergeBars(s) \/ Derive(s) =>
          \E step \in {"merge", "done"} : job' = [job EXCEPT ![s].step = step]
    BY DEF DeleteBars, MergeBars, Derive
  <2> QED
    BY <2>1, <2>2, <2>3, <2>4, <2>5 DEF Process, Query
<1>3. /\ \A t \in Own' \ {s} : t \in Own /\ job'[t] = job[t]
      /\ s \in Own' => j # None /\ j.own /\ job'[s] = j
  BY <1>2, OwnAfter
<1>4. s \in Own' => s \in Own /\ job'[s].hour = job[s].hour /\ job'[s].phase = job[s].phase
  BY <1>1, <1>2, <1>3 DEF Own
<1> QED
  BY <1>1, <1>3, <1>4, ProgressKept

LEMMA CronProgress ==
    ASSUME Typed, Progress, NEW c \in Scheduled, Cron(c[1], c[2])
    PROVE  Progress'
<1>1. UNCHANGED <<file, state, run>> /\ Free # {}
  BY DEF Cron, tables
<1>2. PICK f \in Slots : f = Slot
  BY <1>1 DEF Slot, Free
<1> DEFINE j == Child(c[1], c[2], FALSE)
<1>3. job' = [job EXCEPT ![f] = j] /\ ~j.own
  BY <1>2 DEF Cron, Child
<1> HIDE DEF j
<1>4. \A t \in Own' : t \in Own /\ job'[t] = job[t]
  BY <1>3, OwnAfter
<1> QED
  BY <1>1, <1>4, ProgressKept

LEMMA NextProgress == Typed /\ Progress /\ [Next]_vars => Progress'
<1> SUFFICES ASSUME Typed, Progress, [Next]_vars PROVE Progress'
  OBVIOUS
<1>1. CASE UNCHANGED vars
  <2>1. UNCHANGED <<file, state, run, job>>
    BY <1>1 DEF vars
  <2>2. Own' = Own
    BY <2>1 DEF Own, Occupied
  <2> QED
    BY <2>1, <2>2, ProgressKept
<1>2. CASE \E m \in Modes, r \in BOOLEAN : Invoke(m, r)
  BY <1>2, InvokeProgress
<1>3. CASE Launch
  BY <1>3, LaunchProgress
<1>4. CASE \E s \in Slots : Record(s)
  BY <1>4, RecordProgress
<1>5. CASE NextPhase
  BY <1>5, NextPhaseProgress
<1>6. CASE Exit \/ Kill
  BY <1>6, StopProgress
<1>7. CASE \E s \in Slots : Process(s)
  BY <1>7, ProcessProgress
<1>8. CASE \E s \in Occupied : Fails(s)
  BY <1>8, FailsProgress
<1>9. CASE \E c \in Scheduled : Cron(c[1], c[2])
  BY <1>9, CronProgress
<1> QED
  BY <1>1, <1>2, <1>3, <1>4, <1>5, <1>6, <1>7, <1>8, <1>9 DEF Next

\* Only a resampling of an hour touches its bars.
LEMMA BarsTouched ==
    ASSUME Typed, [Next]_vars, NEW h \in Hours, bars'[h] # bars[h]
    PROVE  Works(h) # {}
<1>1. bars' # bars
  OBVIOUS
<1>2. PICK s \in Slots : Process(s)
  BY <1>1 DEF Next, vars, tables, Invoke, Launch, Record, NextPhase, Exit, Fails, Kill, Cron
<1>3. s \in Occupied /\ (DeleteBars(s) \/ MergeBars(s))
  BY <1>1, <1>2 DEF Process, Leave, tables, Query, DeleteRaw, InsertRaw, Derive
<1>4. job[s].step \in {"load", "merge"}
  BY <1>3 DEF DeleteBars, MergeBars
<1>5. \A v : bars' = [bars EXCEPT ![job[s].hour] = v] => job[s].hour = h
  BY DEF Typed
<1>6. job[s].hour = h
  BY <1>3, <1>5 DEF DeleteBars, MergeBars
<1>7. job[s].phase = "resample"
  BY <1>3, <1>4 DEF Typed, Shape
<1> QED
  BY <1>3, <1>6, <1>7 DEF Works

\* A resumed backfill takes nothing back: an hour that the state file calls
\* complete stays complete, and unless another process works on the hour its
\* bars are not touched (--resume of backfill_bigquery.py, for every range,
\* number of workers, retries, kills and CronJobs).
THEOREM ResumeIsMonotone == Spec => ResumeKeepsProgress
<1>1. ASSUME Typed, Progress, [Next]_vars, Running, run.resume, NEW h \in Hours
      PROVE  /\ \A p \in Phases : file[h][p] = "complete" => file'[h][p] = "complete"
             /\ file[h]["resample"] = "complete" /\ Works(h) \subseteq Own =>
                    bars'[h] = bars[h]
  <2>1. Single /\ Resumed
    BY <1>1 DEF Progress
  <2>2. ASSUME NEW p \in Phases, file[h][p] = "complete" PROVE file'[h][p] = "complete"
    <3>1. CASE UNCHANGED file
      BY <2>2, <3>1
    <3>2. ASSUME NEW s \in Slots, Record(s) PROVE file'[h][p] = "complete"
      <4>1. /\ job[s].hour \in Hours /\ job[s].phase = Phase /\ Due(job[s].hour)
            /\ file' = state'
            /\ \A i \in Hours, q \in Phases :
                  i # job[s].hour \/ q # job[s].phase => state'[i][q] = state[i][q]
        BY <1>1, <3>2, RecordEffect
      <4>2. h # job[s].hour \/ p # Phase
        BY <2>1, <2>2, <4>1 DEF Resumed
      <4> QED
        BY <2>1, <2>2, <4>1, <4>2 DEF Resumed
    <3>3. UNCHANGED file \/ \E s \in Slots : Record(s)
      BY <1>1 DEF Next, vars, Invoke, Launch, NextPhase, Exit, Process, Query, Leave,
                  Fails, Kill, Cron
    <3> QED
      BY <3>1, <3>2, <3>3
  <2>3. ASSUME file[h]["resample"] = "complete", Works(h) \subseteq Own, bars'[h] # bars[h]
        PROVE  FALSE
    <3>1. PICK s \in Own : job[s].hour = h /\ job[s].phase = "resample"
      <4>1. Works(h) # {}
        BY <1>1, <2>3, BarsTouched
      <4> QED
        BY <2>3, <4>1 DEF Works
    <3>2. Due(h) /\ Phase = "resample"
      BY <2>1, <3>1 DEF Due, Single
    <3> QED
      BY <2>1, <2>3, <3>2 DEF Resumed
  <2> QED
    BY <2>2, <2>3
<1>2. Typed /\ Progress /\ [Next]_vars =>
        [Running /\ run.resume =>
          \A h \in Hours :
            /\ \A p \in Phases : file[h][p] = "complete" => file'[h][p] = "complete"
            /\ file[h]["resample"] = "complete" /\ Works(h) \subseteq Own =>
                bars'[h] = bars[h]]_vars
  BY <1>1
<1>3. Sound => Typed
  BY DEF Sound
<1> QED
  BY <1>2, <1>3, InitSound, NextSound, InitProgress, NextProgress, PTL
     DEF Spec, ResumeKeepsProgress

-----------------------------------------------------------------------------
(* A sound success *)

\* A backfill of all phases, without --resume, that nobody has joined so far.
Pure ==
    /\ run.status \in {"running", "success"}
    /\ alone /\ ~run.resume /\ Len(run.mode) = 3

\* It has failed on an hour, recorded or not.
Failing == run.failed \/ \E s \in Own : job[s].step = "failed"

\* The hour is through the phase at hand, or through phase i of the run.
Settled(h) ==
    h \notin run.pending /\ \A s \in Own : job[s].hour = h => job[s].step = "done"
Through(i, h) == run.at > i \/ (run.at = i /\ Settled(h))

\* The raw tables have every archived object of the hour.
Stocked(h) == \A k \in Files(h) : raw[k][h] > 0

\* The resampling child has loaded what it has not left, and deleted the bars
\* that it is about to merge.
Loads(s) ==
    /\ job[s].step # "query"
    /\ ~Ended(s) => \A k \in Files(job[s].hour) \ job[s].left : raw[k][job[s].hour] > 0
    /\ job[s].step = "merge" => bars[job[s].hour] = None

\* The hours are resampled one after the other, the earliest first.
InTurn ==
    /\ \A s, t \in Own : ~Ended(s) /\ ~Ended(t) => s = t
    /\ \A h \in run.pending, i \in Hours : h <= i => i \in run.pending
    /\ \A s \in Own : Loads(s)

Reached(h) ==
    /\ Through(1, h) => Whole(h) /\ Stocked(h)
    /\ Through(2, h) => derived["features"][h] = Inputs("features", h)
    /\ Through(3, h) => derived["targets"][h] = Inputs("targets", h)

Derived == [Phases \ {"resample"} -> [Hours -> (SUBSET Hours) \cup {None}]]

Faultless ==
    /\ derived \in Derived
    /\ Pure =>
        /\ Occupied = Own
        /\ run.status = "success" => run.at = 3 /\ run.pending = {} /\ ~run.failed
        /\ ~Failing => (run.at = 1 => InTurn) /\ \A h \in Hours : Reached(h)

LEMMA PureRun ==
    ASSUME Typed, Pure
    PROVE  /\ run.at \in 1..3 /\ run.mode \in Modes
           /\ Phase = CASE run.at = 1 -> "resample" [] run.at = 2 -> "features"
                        [] OTHER -> "targets"
<1>1. run.mode \in Modes /\ run.at \in Nat \ {0} /\ run.at <= Len(run.mode)
  BY DEF Typed, RunTyped, RunType
<1>2. run.mode = AllPhases
  <2>1. \A p \in Phases : Len(<<p>>) # 3
    OBVIOUS
  <2> QED
    BY <1>1, <2>1, BackfillAssumption DEF Pure
<1>3. run.at \in 1..3
  BY <1>1 DEF Pure
<1> QED
  BY <1>1, <1>2, <1>3 DEF Phase, AllPhases

LEMMA ReachedKept ==
    ASSUME NEW h \in Hours, Reached(h),
           \A k \in Kinds : raw'[k][h] = raw[k][h],
           bars'[h] = bars[h],
           \A p \in Phases \ {"resample"} : derived'[p][h] = derived[p][h],
           \A i \in 1..3 : Through(i, h)' => Through(i, h)
    PROVE  Reached(h)'
<1>1. Whole(h)' = Whole(h)
  BY DEF Whole, Expected, Files, Before
<1>2. Stocked(h)' = Stocked(h)
  BY Constants DEF Stocked, Files
<1>3. /\ derived'["features"][h] = derived["features"][h]
      /\ derived'["targets"][h] = derived["targets"][h]
  BY DEF Phases
<1> HIDE DEF Through
<1>4. /\ Through(1, h)' => Through(1, h)
      /\ Through(2, h)' => Through(2, h)
      /\ Through(3, h)' => Through(3, h)
  OBVIOUS
<1> QED
  BY <1>1, <1>2, <1>3, <1>4 DEF Reached, Inputs, Before, After

\* The backfill starts: every hour is waiting and nothing has failed.
LEMMA InvokeFaultless ==
    ASSUME Faultless, NEW m \in Modes, NEW r \in BOOLEAN, Invoke(m, r), Pure'
    PROVE  Faultless'
<1>1. /\ run' = Beginning(Loaded(r), m, 1, r, FALSE) /\ job' = job /\ derived' = derived
      /\ Occupied = {}
  BY DEF Invoke, Pure, tables
<1>2. ~r
  BY <1>1 DEF Pure, Beginning
<1>3. /\ Skips(Loaded(r), m, 1, r) = {} /\ Blocks(Loaded(r), m, 1, r) = {}
  BY <1>2 DEF Skips, Blocks
<1>4. /\ run'.at = 1 /\ run'.pending = Hours /\ run'.failed = FALSE
      /\ run'.status = "running"
  BY <1>1, <1>3 DEF Beginning
<1>5. Occupied' = {} /\ Own' = {}
  BY <1>1 DEF Occupied, Own
<1>6. InTurn'
  BY <1>4, <1>5 DEF InTurn
<1>7. ASSUME NEW h \in Hours PROVE Reached(h)'
  BY <1>4 DEF Reached, Through, Settled
<1> QED
  BY <1>1, <1>4, <1>5, <1>6, <1>7 DEF Faultless

\* The next phase begins when every hour is through the last one.
LEMMA NextPhaseFaultless ==
    ASSUME Typed, Faultless, NextPhase, Pure'
    PROVE  Faultless'
<1>1. /\ run' = Beginning(state, run.mode, run.at + 1, run.resume, run.failed)
      /\ UNCHANGED <<raw, bars, derived, job, alone>>
      /\ Running /\ run.pending = {} /\ Own = {}
  BY DEF NextPhase, PhaseEnds, tables, history
<1>2. Pure
  BY <1>1 DEF Pure, Running, Beginning
<1>3. run.at \in 1..3 /\ ~run.resume
  BY <1>2, PureRun DEF Pure
<1>4. Occupied = {}
  BY <1>1, <1>2 DEF Faultless
<1>5. Occupied' = {} /\ Own' = {}
  BY <1>1, <1>4 DEF Occupied, Own
<1>6. run'.at = run.at + 1 /\ run'.status = "running"
  BY <1>1 DEF Beginning
<1>7. ASSUME ~Failing'
      PROVE  ~Failing /\ run'.pending = Hours
  <2> DEFINE blocks == Blocks(state, run.mode, run.at + 1, run.resume)
             skips == Skips(state, run.mode, run.at + 1, run.resume)
  <2>1. /\ run'.failed = (run.failed \/ blocks # {})
        /\ run'.pending = Hours \ (skips \cup blocks)
    BY <1>1 DEF Beginning
  <2>2. skips = {}
    BY <1>3 DEF Skips
  <2> HIDE DEF blocks, skips
  <2>3. ~run.failed /\ blocks = {}
    BY <1>7, <2>1 DEF Failing
  <2> QED
    BY <1>1, <2>1, <2>2, <2>3 DEF Failing
<1>8. ASSUME ~Failing', NEW h \in Hours PROVE Reached(h)'
  <2>1. Reached(h)
    BY <1>2, <1>7, <1>8 DEF Faultless
  <2>2. Settled(h)
    BY <1>1 DEF Settled
  <2>3. \A i \in 1..3 : Through(i, h)' => Through(i, h)
    <3>1. ~Settled(h)'
      BY <1>7, <1>8 DEF Settled
    <3> QED
      BY <1>3, <1>6, <2>2, <3>1 DEF Through
  <2> QED
    BY <1>1, <2>1, <2>3, ReachedKept
<1>9. run'.at # 1
  BY <1>3, <1>6
<1> QED
  BY <1>1, <1>5, <1>6, <1>8, <1>9 DEF Faultless

\* A success leaves no hour behind.
LEMMA ExitFaultless ==
    ASSUME Typed, Faultless, Exit, Pure'
    PROVE  Faultless'
<1>1. /\ run' = [run EXCEPT !.status = IF run.failed THEN "failure" ELSE "success"]
      /\ UNCHANGED <<raw, bars, derived, job, alone>>
      /\ Running /\ run.pending = {} /\ Own = {} /\ run.at = Len(run.mode)
  BY DEF Exit, PhaseEnds, tables, history
<1>2. run \in RunType
  BY DEF Typed, RunTyped
<1>3. /\ run'.at = run.at /\ run'.pending = run.pending /\ run'.failed = run.failed
      /\ run'.mode = run.mode /\ run'.resume = run.resume
      /\ run'.status = IF run.failed THEN "failure" ELSE "success"
  BY <1>1, <1>2 DEF RunType
<1>4. Pure /\ ~run.failed /\ run.at = 3
  BY <1>1, <1>3 DEF Pure, Running
<1>5. Occupied' = Occupied /\ Own' = Own
  BY <1>1 DEF Occupied, Own
<1>6. Failing' = Failing /\ \A h \in Hours : Settled(h)' = Settled(h)
  BY <1>1, <1>3, <1>5 DEF Failing, Settled
<1>7. ~Failing
  BY <1>1, <1>4 DEF Failing
<1>8. ASSUME NEW h \in Hours PROVE Reached(h)'
  <2>1. Reached(h)
    BY <1>4, <1>7 DEF Faultless
  <2>2. \A i \in 1..3 : Through(i, h)' => Through(i, h)
    BY <1>3, <1>6 DEF Through
  <2> QED
    BY <1>1, <2>1, <2>2, ReachedKept
<1> QED
  BY <1>1, <1>3, <1>4, <1>5, <1>8 DEF Faultless

\* No slot holds an unfinished child of the backfill when the first phase takes
\* an hour.
LEMMA OneWorker ==
    ASSUME Launch, Phase = "resample"
    PROVE  \A s \in Own : Ended(s)
<1> DEFINE busy == {s \in Own : ~Ended(s)}
<1>1. IsFiniteSet(busy)
  <2>1. busy \subseteq Slots
    BY DEF Own, Occupied
  <2> HIDE DEF busy
  <2> QED
    BY <2>1, BackfillAssumption, FS_Subset
<1>2. Cardinality(busy) < 1
  BY DEF Launch, Workers
<1>3. busy = {}
  <2> HIDE DEF busy
  <2>1. Cardinality(busy) \in Nat
    BY <1>1, FS_CardinalityType
  <2> QED
    BY <1>1, <1>2, <2>1, FS_EmptySet
<1> QED
  BY <1>3

\* A child starts on the earliest hour that waits.
LEMMA LaunchFaultless ==
    ASSUME Typed, Progress, Faultless, Launch, Pure'
    PROVE  Faultless'
<1>1. /\ Running /\ run.pending # {} /\ Free # {}
      /\ job' = [job EXCEPT ![Slot] = Child(Min(run.pending), Phase, TRUE)]
      /\ run' = [run EXCEPT !.pending = @ \ {Min(run.pending)}]
      /\ UNCHANGED <<raw, bars, derived, alone>>
  BY DEF Launch, tables, history
<1>2. PICK g \in Hours, f \in Free : g = Min(run.pending) /\ f = Slot
  BY <1>1, Pending DEF Slot
<1>3. f \in Slots /\ f \notin Occupied /\ job[f] = None
  BY <1>2 DEF Free, Occupied
<1>4. PICK p \in Phases : p = Phase
  BY ModeType
<1> DEFINE c == Child(g, p, TRUE)
<1>5. /\ c \in Job /\ c.hour = g /\ c.own
      /\ c.step = IF p = "resample" THEN "load" ELSE "query"
      /\ p = "resample" => c.left = Files(g)
  <2>1. PICK own \in BOOLEAN : own = TRUE
    OBVIOUS
  <2> QED
    BY <2>1, NewChild DEF Child
<1>6. job' = [job EXCEPT ![f] = c]
  BY <1>1, <1>2, <1>4
<1>7. /\ job'[f] = c /\ \A t \in Slots : t # f => job'[t] = job[t]
  BY <1>3, <1>6 DEF Typed
<1> HIDE DEF c
<1>8. c # None
  BY <1>5, NoneAssumption
<1>9. Occupied' = Occupied \cup {f} /\ Own' = Own \cup {f} /\ f \notin Own
  BY <1>3, <1>5, <1>7, <1>8 DEF Occupied, Own
<1>10. \A t \in Own : t # f /\ job'[t] = job[t]
  BY <1>7, <1>9 DEF Own, Occupied
<1>11. /\ run'.pending = run.pending \ {g}
       /\ run'.at = run.at /\ run'.status = run.status /\ run'.failed = run.failed
       /\ run'.resume = run.resume /\ run'.mode = run.mode
  BY <1>1, <1>2 DEF Typed, RunTyped, RunType
<1>12. Pure
  BY <1>1, <1>11 DEF Pure
<1>13. Failing' = Failing
  <2>1. c.step # "failed"
    BY <1>5
  <2> QED
    BY <1>7, <1>9, <1>10, <1>11, <2>1 DEF Failing
<1>14. \A h \in Hours : Settled(h)' => Settled(h)
  <2>1. c.step # "done"
    BY <1>5
  <2> QED
    BY <1>5, <1>7, <1>9, <1>10, <1>11, <2>1 DEF Settled
<1>15. ASSUME ~Failing', NEW h \in Hours PROVE Reached(h)'
  <2>1. Reached(h)
    BY <1>12, <1>13, <1>15 DEF Faultless
  <2>2. \A i \in 1..3 : Through(i, h)' => Through(i, h)
    BY <1>11, <1>14 DEF Through
  <2> QED
    BY <1>1, <2>1, <2>2, ReachedKept
<1>16. ASSUME ~Failing', run'.at = 1 PROVE InTurn'
  <2>1. InTurn
    BY <1>11, <1>12, <1>13, <1>16 DEF Faultless
  <2>2. p = "resample"
    BY <1>4, <1>11, <1>12, <1>16, PureRun
  <2>3. \A t \in Own : Ended(t)
    BY <1>4, <2>2, OneWorker
  <2>4. \A t \in Own : Ended(t)'
    BY <1>10, <2>3 DEF Ended
  <2>5. \A s, t \in Own' : ~Ended(s)' /\ ~Ended(t)' => s = t
    BY <1>9, <2>4
  <2>6. \A h \in run'.pending, i \in Hours : h <= i => i \in run'.pending
    <3>1. \A h \in run.pending : g <= h
      <4>1. run.pending \in SUBSET Nat
        BY Constants DEF Typed, RunTyped, RunType
      <4>2. \E h \in run.pending : \A x \in run.pending : h <= x
        BY <1>1, <4>1, MinExists
      <4> QED
        BY <1>2, <4>1, <4>2 DEF Min
    <3>2. run.pending \subseteq Hours
      BY DEF Typed, RunTyped, RunType
    <3>3. ASSUME NEW h \in run'.pending, NEW i \in Hours, h <= i
          PROVE  i \in run'.pending
      <4>1. h \in run.pending /\ h # g /\ h \in Nat /\ i \in Nat /\ g \in Nat
        BY <1>11, <3>2, <3>3, Constants
      <4>2. i \in run.pending
        BY <2>1, <3>3, <4>1 DEF InTurn
      <4>3. i # g
        BY <3>1, <3>3, <4>1
      <4> QED
        BY <1>11, <4>2, <4>3
    <3> QED
      BY <3>3
  <2>7. Loads(f)'
    BY <1>5, <1>7, <2>2 DEF Loads, Files
  <2>8. ASSUME NEW t \in Own PROVE Loads(t)'
    <3>1. Loads(t) /\ job'[t] = job[t]
      BY <1>10, <2>1 DEF InTurn
    <3> QED
      BY <1>1, <3>1 DEF Loads, Ended, Files
  <2>9. \A s \in Own' : Loads(s)'
    BY <1>9, <2>7, <2>8
  <2> QED
    BY <2>5, <2>6, <2>9 DEF InTurn
<1>17. Occupied' = Own' /\ run'.status # "success"
  BY <1>1, <1>9, <1>11, <1>12 DEF Faultless, Running
<1> QED
  BY <1>1, <1>15, <1>16, <1>17 DEF Faultless

\* A child that failed makes the backfill fail, one that is done leaves its
\* hour settled.
LEMMA RecordFaultless ==
    ASSUME Typed, Faultless, NEW s \in Slots, Record(s), Pure'
    PROVE  Faultless'
<1>1. /\ Running /\ s \in Own /\ Ended(s)
      /\ run' = [run EXCEPT !.failed = @ \/ job[s].step = "failed"]
      /\ job' = [job EXCEPT ![s] = None]
      /\ UNCHANGED <<raw, bars, derived, alone>>
  BY DEF Record, tables, history
<1>2. job'[s] = None /\ \A t \in Slots : t # s => job'[t] = job[t]
  BY <1>1 DEF Typed
<1>3. Occupied' = Occupied \ {s} /\ Own' = Own \ {s}
  BY <1>2 DEF Occupied, Own
<1>4. \A t \in Own' : t \in Own /\ t # s /\ job'[t] = job[t]
  BY <1>2, <1>3 DEF Own, Occupied
<1>5. /\ run'.pending = run.pending
      /\ run'.at = run.at /\ run'.status = run.status
      /\ run'.failed = (run.failed \/ job[s].step = "failed")
      /\ run'.resume = run.resume /\ run'.mode = run.mode
  BY <1>1 DEF Typed, RunTyped, RunType
<1>6. Pure
  BY <1>1, <1>5 DEF Pure
<1>7. ASSUME ~Failing' PROVE ~Failing /\ job[s].step = "done"
  BY <1>1, <1>3, <1>4, <1>5, <1>7 DEF Failing, Ended
<1>8. ASSUME ~Failing', NEW h \in Hours PROVE Reached(h)'
  <2>1. Reached(h)
    BY <1>6, <1>7, <1>8 DEF Faultless
  <2>2. Settled(h)' => Settled(h)
    BY <1>3, <1>4, <1>5, <1>7, <1>8 DEF Settled
  <2>3. \A i \in 1..3 : Through(i, h)' => Through(i, h)
    BY <1>5, <2>2 DEF Through
  <2> QED
    BY <1>1, <2>1, <2>3, ReachedKept
<1>9. ASSUME ~Failing', run'.at = 1 PROVE InTurn'
  <2>1. InTurn
    BY <1>5, <1>6, <1>7, <1>9 DEF Faultless
  <2>2. \A t \in Own' : Ended(t)' = Ended(t) /\ (Loads(t) => Loads(t)')
    BY <1>1, <1>4 DEF Loads, Ended, Files
  <2> QED
    BY <1>4, <1>5, <2>1, <2>2 DEF InTurn
<1>10. Occupied' = Own' /\ run'.status # "success"
  BY <1>1, <1>3, <1>5, <1>6 DEF Faultless, Running
<1> QED
  BY <1>1, <1>8, <1>9, <1>10 DEF Faultless

\* A child of the backfill goes on, as j, and nothing else happens to the jobs.
Advances(s, j) ==
    /\ s \in Own /\ ~Ended(s)
    /\ j \in Job /\ j.own /\ j.hour = job[s].hour
    /\ job'[s] = j
    /\ \A t \in Slots \ {s} :
        /\ t \in Occupied' <=> t \in Occupied
        /\ t \in Occupied =>
            /\ job'[t].own = job[t].own /\ job'[t].hour = job[t].hour
            /\ job'[t].step = job[t].step /\ job'[t].left = job[t].left
    /\ UNCHANGED <<run, alone>>

LEMMA Advanced ==
    ASSUME Typed, Progress, Faultless, Pure, NEW s \in Slots, NEW j, Advances(s, j),
           NEW g \in Hours, g = job[s].hour
    PROVE  /\ Running /\ Occupied' = Own' /\ Own' = Own
           /\ ~Failing' => ~Failing
           /\ g \notin run.pending
           /\ \A t \in Own : t # s => job[t].hour # g
           /\ \A t \in Own : t # s => /\ job'[t].step = job[t].step
                                      /\ job'[t].hour = job[t].hour
                                      /\ job'[t].left = job[t].left
           /\ \A h \in Hours, i \in 1..3 :
                h # g \/ j.step # "done" => (Through(i, h)' => Through(i, h))
<1>1. s \in Own /\ ~Ended(s) /\ j # None
  BY NoneAssumption DEF Advances
<1>2. \A t \in Slots : t \in Occupied' <=> t \in Occupied
  BY <1>1 DEF Advances, Own, Occupied
<1>3. Occupied' = Occupied
  BY <1>2 DEF Occupied
<1>4. Own' = Own
  BY <1>3 DEF Own, Advances, Occupied
<1>5. Running
  BY <1>1 DEF Progress
<1>6. /\ g \notin run.pending
      /\ \A t \in Own : t # s => job[t].hour # g
  BY <1>1, <1>5 DEF Progress, Single
<1>7. \A t \in Own : t # s => /\ job'[t].step = job[t].step
                              /\ job'[t].hour = job[t].hour
                              /\ job'[t].left = job[t].left
  BY DEF Own, Occupied, Advances
<1>8. ~Failing' => ~Failing
  <2>1. job[s].step # "failed"
    BY <1>1 DEF Ended
  <2> QED
    BY <1>4, <1>7, <2>1 DEF Failing, Advances
<1>9. \A h \in Hours : h # g => Settled(h)' = Settled(h)
  BY <1>4, <1>7 DEF Settled, Advances
<1>10. j.step # "done" => ~Settled(g)'
  BY <1>1, <1>4 DEF Settled, Advances
<1>11. run'.at = run.at
  BY DEF Advances
<1>12. \A h \in Hours, i \in 1..3 :
          h # g \/ j.step # "done" => (Through(i, h)' => Through(i, h))
  BY <1>9, <1>10, <1>11 DEF Through
<1> QED
  BY <1>3, <1>4, <1>5, <1>6, <1>7, <1>8, <1>12 DEF Faultless

LEMMA TurnKept ==
    ASSUME Typed, Progress, Faultless, Pure, NEW s \in Slots, NEW j, Advances(s, j),
           NEW g \in Hours, g = job[s].hour, InTurn, Loads(s)',
           \A h \in Hours \ {g} : /\ \A k \in Kinds : raw'[k][h] = raw[k][h]
                                  /\ bars'[h] = bars[h]
    PROVE  InTurn'
<1>1. /\ Own' = Own
      /\ \A t \in Own : t # s => job[t].hour # g
      /\ \A t \in Own : t # s => /\ job'[t].step = job[t].step
                                 /\ job'[t].hour = job[t].hour
                                 /\ job'[t].left = job[t].left
  BY Advanced
<1>2. s \in Own /\ ~Ended(s) /\ UNCHANGED run
  BY DEF Advances
<1>3. \A t \in Own : t # s => Ended(t)' = Ended(t)
  BY <1>1 DEF Ended
<1>4. \A t, u \in Own' : ~Ended(t)' /\ ~Ended(u)' => t = u
  BY <1>1, <1>2, <1>3 DEF InTurn
<1>5. ASSUME NEW t \in Own, t # s PROVE Loads(t)'
  <2>1. Loads(t)
    BY DEF InTurn
  <2>2. PICK h \in Hours \ {g} : h = job[t].hour
    BY <1>1, <1>5, JobFields DEF Own
  <2>3. \A k \in Kinds : raw'[k][h] = raw[k][h]
    OBVIOUS
  <2>4. bars'[h] = bars[h] /\ Files(h) \subseteq Kinds
    BY Constants
  <2>5. job'[t].hour = h /\ Ended(t)' = Ended(t)
    BY <1>1, <1>3, <1>5, <2>2
  <2> QED
    BY <1>1, <1>5, <2>1, <2>2, <2>3, <2>4, <2>5 DEF Loads, Files
<1> QED
  BY <1>1, <1>2, <1>4, <1>5 DEF InTurn

LEMMA AdvanceFaultless ==
    ASSUME Typed, Progress, Faultless, Pure, NEW s \in Slots, NEW j, Advances(s, j),
           NEW g \in Hours, g = job[s].hour,
           \A h \in Hours \ {g} : /\ \A k \in Kinds : raw'[k][h] = raw[k][h]
                                  /\ bars'[h] = bars[h]
                                  /\ \A p \in Phases \ {"resample"} :
                                        derived'[p][h] = derived[p][h],
           derived' \in Derived,
           ~Failing /\ InTurn /\ run.at = 1 /\ j.step # "failed" => Loads(s)',
           ~Failing /\ j.step # "failed" /\ (\A h \in Hours : Reached(h)) /\
                (run.at = 1 => InTurn) => Reached(g)'
    PROVE  Faultless'
<1>1. /\ Running /\ Occupied' = Own' /\ Own' = Own /\ (~Failing' => ~Failing)
      /\ \A h \in Hours, i \in 1..3 : h # g => (Through(i, h)' => Through(i, h))
  BY Advanced
<1>2. ~Failing' => j.step # "failed"
  BY <1>1 DEF Failing, Advances
<1>3. UNCHANGED run
  BY DEF Advances
<1>4. ASSUME ~Failing' PROVE (run'.at = 1 => InTurn') /\ \A h \in Hours : Reached(h)'
  <2>1. (run.at = 1 => InTurn) /\ \A h \in Hours : Reached(h)
    BY <1>1, <1>4 DEF Faultless
  <2>2. run'.at = 1 => InTurn'
    BY <1>1, <1>2, <1>3, <1>4, <2>1, TurnKept
  <2>3. Reached(g)'
    BY <1>1, <1>2, <1>4, <2>1
  <2>4. ASSUME NEW h \in Hours \ {g} PROVE Reached(h)'
    <3>1. \A i \in 1..3 : Through(i, h)' => Through(i, h)
      BY <1>1
    <3> QED
      BY <2>1, <3>1, ReachedKept
  <2> QED
    BY <2>2, <2>3, <2>4
<1>5. run'.status # "success"
  BY <1>1, <1>3 DEF Running
<1> QED
  BY <1>1, <1>4, <1>5 DEF Faultless

LEMMA FailsFaultless ==
    ASSUME Typed, Progress, Faultless, NEW s \in Occupied, Fails(s), Pure'
    PROVE  Faultless'
<1>1. /\ UNCHANGED <<raw, bars, derived, run, alone>>
      /\ job' = [Shaken({s}) EXCEPT ![s] =
                    IF ~@.own THEN None
                    ELSE IF @.attempt <= Retries
                    THEN [Child(@.hour, @.phase, TRUE) EXCEPT !.attempt = job[s].attempt + 1]
                    ELSE [@ EXCEPT !.step = "failed"]]
      /\ ~Ended(s)
  BY DEF Fails, tables
<1>2. s \in Slots /\ job[s] \in Job /\ job[s].hour \in Hours /\ job[s].phase \in Phases
  BY JobFields
<1>3. Pure /\ s \in Own /\ job[s].own
  <2>1. Pure
    BY <1>1 DEF Pure
  <2> QED
    BY <2>1 DEF Faultless, Own
<1>4. Shaken({s})[s] = job[s] /\ DOMAIN Shaken({s}) = Slots
  BY <1>2 DEF Shaken
<1>5. PICK g \in Hours, p \in Phases : g = job[s].hour /\ p = job[s].phase
  BY <1>2
<1> DEFINE again == [Child(g, p, TRUE) EXCEPT !.attempt = job[s].attempt + 1]
           gone == [job[s] EXCEPT !.step = "failed"]
           j == IF job[s].attempt <= Retries THEN again ELSE gone
<1>6. job'[s] = j
  BY <1>1, <1>2, <1>3, <1>4, <1>5
<1>7. /\ again \in Job /\ again.own /\ again.hour = g
      /\ again.step = IF p = "resample" THEN "load" ELSE "query"
      /\ p = "resample" => again.left = Files(g)
  <2>1. PICK own \in BOOLEAN : own = TRUE
    OBVIOUS
  <2>2. /\ Child(g, p, own) \in Job /\ Child(g, p, own).own = own
        /\ Child(g, p, own).hour = g
        /\ Child(g, p, own).step = IF p = "resample" THEN "load" ELSE "query"
        /\ p = "resample" => Child(g, p, own).left = Files(g)
    BY NewChild DEF Child
  <2>3. job[s].attempt + 1 \in Nat
    BY <1>2 DEF Job
  <2> QED
    BY <2>1, <2>2, <2>3 DEF Job
<1>8. gone \in Job /\ gone.own /\ gone.hour = g /\ gone.step = "failed"
  BY <1>2, <1>3, <1>5 DEF Job
<1>9. \A t \in Slots \ {s} :
        /\ t \in Occupied' <=> t \in Occupied
        /\ t \in Occupied =>
            /\ job'[t].own = job[t].own /\ job'[t].hour = job[t].hour
            /\ job'[t].step = job[t].step /\ job'[t].left = job[t].left
  <2> SUFFICES ASSUME NEW t \in Slots \ {s}
               PROVE  /\ t \in Occupied' <=> t \in Occupied
                      /\ t \in Occupied =>
                          /\ job'[t].own = job[t].own /\ job'[t].hour = job[t].hour
                          /\ job'[t].step = job[t].step /\ job'[t].left = job[t].left
    OBVIOUS
  <2>1. job'[t] = Shaken({s})[t]
    BY <1>1, <1>4
  <2>2. job'[t] = job[t] \/ (t \in Occupied /\ job'[t] = [job[t] EXCEPT !.fresh = FALSE])
    BY <2>1 DEF Shaken
  <2>3. CASE job'[t] = job[t]
    BY <2>3 DEF Occupied
  <2>4. CASE t \in Occupied /\ job'[t] = [job[t] EXCEPT !.fresh = FALSE]
    <3>1. job[t] \in Job
      BY <2>4, JobFields
    <3>2. /\ job'[t] \in Job /\ job'[t].own = job[t].own /\ job'[t].hour = job[t].hour
          /\ job'[t].step = job[t].step /\ job'[t].left = job[t].left
      BY <2>4, <3>1 DEF Job
    <3>3. t \in Occupied'
      BY <3>2, NoneAssumption DEF Occupied
    <3> QED
      BY <2>4, <3>2, <3>3
  <2> QED
    BY <2>2, <2>3, <2>4
<1> HIDE DEF again, gone
<1>10. Advances(s, j)
  BY <1>1, <1>3, <1>5, <1>6, <1>7, <1>8, <1>9 DEF Advances
<1>11. j.step # "failed" => j = again
  BY <1>8
<1>12. j.step # "done"
  BY <1>7, <1>8
<1> HIDE DEF j
<1>13. ASSUME run.at = 1, j.step # "failed" PROVE Loads(s)'
  <2>1. p = "resample"
    <3>1. Running
      BY <1>3 DEF Progress
    <3> QED
      BY <1>3, <1>5, <1>13, <3>1, PureRun DEF Progress, Single
  <2> QED
    BY <1>6, <1>7, <1>11, <1>13, <2>1 DEF Loads, Files
<1>14. ASSUME \A h \in Hours : Reached(h) PROVE Reached(g)'
  <2>1. \A i \in 1..3 : Through(i, g)' => Through(i, g)
    BY <1>2, <1>3, <1>5, <1>10, <1>12, Advanced
  <2> QED
    BY <1>1, <1>14, <2>1, ReachedKept
<1>15. derived' \in Derived
  BY <1>1 DEF Faultless
<1> QED
  BY <1>1, <1>2, <1>3, <1>5, <1>10, <1>13, <1>14, <1>15, AdvanceFaultless

\* A query of a child of the backfill.
LEMMA QueryAdvances ==
    ASSUME Typed, NEW s \in Own, ~Ended(s), NEW j \in Job,
           j.own = job[s].own, j.hour = job[s].hour,
           job' = [job EXCEPT ![s] = j], UNCHANGED <<run, alone>>
    PROVE  Advances(s, j)
<1>1. s \in Slots /\ job[s].own
  BY DEF Own, Occupied
<1>2. job'[s] = j /\ \A t \in Slots : t # s => job'[t] = job[t]
  BY <1>1 DEF Typed
<1> QED
  BY <1>1, <1>2 DEF Advances, Occupied

\* In the first phase the children load and merge, in the others they derive.
LEMMA StepOfPhase ==
    ASSUME Typed, Progress, Pure, NEW s \in Own
    PROVE  /\ Running
           /\ run.at = 1 <=> job[s].phase = "resample"
           /\ job[s].step \in {"load", "insert", "merge"} => run.at = 1
           /\ run.at = 2 <=> job[s].phase = "features"
           /\ run.at = 3 <=> job[s].phase = "targets"
           /\ run.at \in 1..3
<1>1. Running
  BY DEF Progress
<1>2. job[s].phase = Phase
  BY <1>1 DEF Progress, Single
<1>3. s \in Occupied
  BY DEF Own
<1>4. Shape(job[s])
  BY <1>3, JobFields
<1> QED
  BY <1>1, <1>2, <1>4, PureRun DEF Shape

LEMMA LoadFaultless ==
    ASSUME Typed, Progress, Faultless, Pure, NEW s \in Own, UNCHANGED <<run, alone>>,
           InsertRaw(s) \/ DeleteBars(s) \/ \E k \in Kinds : DeleteRaw(s, k)
    PROVE  Faultless'
<1>1. /\ s \in Slots /\ job[s] \in Job /\ job[s].phase \in Phases
      /\ job[s].left \subseteq Kinds /\ Shape(job[s])
  BY JobFields DEF Own
<1>2. PICK g \in Hours : g = job[s].hour
  BY JobFields DEF Own
<1>3. UNCHANGED derived /\ job[s].step \in {"load", "insert"} /\ ~Ended(s)
  BY DEF InsertRaw, DeleteBars, DeleteRaw, Ended
<1>4. ASSUME NEW j \in Job, j.own = job[s].own, j.hour = g,
             job' = [job EXCEPT ![s] = j], j.step \in {"load", "insert", "merge"},
             \A h \in Hours \ {g} : /\ \A k \in Kinds : raw'[k][h] = raw[k][h]
                                    /\ bars'[h] = bars[h],
             Loads(s) => Loads(s)'
      PROVE  Faultless'
  <2>1. Advances(s, j)
    BY <1>2, <1>3, <1>4, QueryAdvances
  <2>2. run.at = 1
    BY <1>3, StepOfPhase
  <2>3. Reached(g)'
    <3>1. ~Through(1, g)'
      <4>1. Own' = Own /\ job'[s] = j /\ UNCHANGED run
        BY <1>1, <1>2, <2>1, Advanced DEF Advances
      <4>2. ~Settled(g)'
        BY <1>4, <4>1 DEF Settled
      <4> QED
        BY <2>2, <4>1, <4>2 DEF Through
    <3>2. run'.at = 1
      BY <2>2
    <3> QED
      BY <3>1, <3>2 DEF Reached, Through
  <2>4. InTurn => Loads(s)
    BY DEF InTurn
  <2>5. derived' \in Derived
    BY <1>3 DEF Faultless
  <2>6. \A h \in Hours \ {g} : /\ \A k \in Kinds : raw'[k][h] = raw[k][h]
                               /\ bars'[h] = bars[h]
                               /\ \A p \in Phases \ {"resample"} :
                                     derived'[p][h] = derived[p][h]
    BY <1>3, <1>4
  <2> QED
    BY <1>1, <1>2, <1>4, <2>1, <2>3, <2>4, <2>5, <2>6, AdvanceFaultless
<1>5. ASSUME NEW k \in Kinds, DeleteRaw(s, k) PROVE Faultless'
  <2> DEFINE j == [job[s] EXCEPT !.step = "insert", !.kind = k]
  <2>1. /\ k \in job[s].left /\ job[s].step = "load"
        /\ raw' = [raw EXCEPT ![k][g] = 0]
        /\ job' = [job EXCEPT ![s] = j]
        /\ UNCHANGED bars
    BY <1>2, <1>5 DEF DeleteRaw
  <2>2. /\ j \in Job /\ j.own = job[s].own /\ j.hour = g /\ j.step = "insert"
        /\ j.left = job[s].left
    BY <1>1, <1>2 DEF Job
  <2>3. \A h \in Hours, i \in Kinds : h # g \/ i # k => raw'[i][h] = raw[i][h]
    BY <2>1 DEF Typed
  <2> HIDE DEF j
  <2>4. job'[s] = j
    BY <1>1, <2>1 DEF Typed
  <2>5. Loads(s) => Loads(s)'
    <3>1. \A i \in Files(g) \ job[s].left : raw'[i][g] = raw[i][g]
      BY <2>1, <2>3, Constants
    <3> QED
      BY <1>2, <1>3, <2>2, <2>4, <3>1 DEF Loads, Files
  <2> QED
    BY <1>4, <2>1, <2>2, <2>3, <2>5
<1>6. CASE InsertRaw(s)
  <2>0. PICK k \in Kinds : k = job[s].kind
    BY <1>1, <1>6 DEF InsertRaw, Shape
  <2> DEFINE j == [job[s] EXCEPT !.step = "load", !.kind = None, !.left = job[s].left \ {k}]
  <2>1. /\ job[s].step = "insert"
        /\ raw' = [raw EXCEPT ![k][g] = @ + 1]
        /\ job' = [job EXCEPT ![s] = j]
        /\ UNCHANGED bars
    BY <1>2, <1>6, <2>0 DEF InsertRaw
  <2>2. /\ j \in Job /\ j.own = job[s].own /\ j.hour = g /\ j.step = "load"
        /\ j.left = job[s].left \ {k}
    BY <1>1, <1>2 DEF Job
  <2>3. /\ \A h \in Hours, i \in Kinds : h # g \/ i # k => raw'[i][h] = raw[i][h]
        /\ raw'[k][g] > 0
    BY <2>1 DEF Typed
  <2> HIDE DEF j
  <2>4. job'[s] = j
    BY <1>1, <2>1 DEF Typed
  <2>5. Loads(s) => Loads(s)'
    <3> SUFFICES ASSUME Loads(s), NEW i \in Files(g) \ j.left PROVE raw'[i][g] > 0
      BY <1>2, <2>2, <2>4 DEF Loads, Files
    <3>1. CASE i = k
      BY <2>3, <3>1
    <3>2. CASE i # k
      <4>1. i \in Files(g) \ job[s].left /\ i \in Kinds
        BY <2>2, <3>2, Constants
      <4>2. raw'[i][g] = raw[i][g]
        BY <2>3, <3>2, <4>1
      <4> QED
        BY <1>2, <1>3, <4>1, <4>2 DEF Loads
    <3> QED
      BY <3>1, <3>2
  <2> QED
    BY <1>4, <2>1, <2>2, <2>3, <2>5
<1>7. CASE DeleteBars(s)
  <2> DEFINE j == [job[s] EXCEPT !.step = "merge"]
  <2>1. /\ bars' = [bars EXCEPT ![g] = None]
        /\ job' = [job EXCEPT ![s] = j]
        /\ UNCHANGED raw
    BY <1>2, <1>7 DEF DeleteBars
  <2>2. /\ j \in Job /\ j.own = job[s].own /\ j.hour = g /\ j.step = "merge"
        /\ j.left = job[s].left
    BY <1>1, <1>2 DEF Job
  <2>3. bars'[g] = None /\ \A h \in Hours \ {g} : bars'[h] = bars[h]
    BY <2>1 DEF Typed
  <2> HIDE DEF j
  <2>4. job'[s] = j
    BY <1>1, <2>1 DEF Typed
  <2>5. Loads(s) => Loads(s)'
    BY <1>2, <1>3, <2>1, <2>2, <2>3, <2>4 DEF Loads, Files
  <2> QED
    BY <1>4, <2>1, <2>2, <2>3, <2>5
<1> QED
  BY <1>5, <1>6, <1>7

\* The bars that are merged are whole: the hour's objects are loaded, and so are
\* those of the hour before, whose turn has passed.
LEMMA MergeFaultless ==
    ASSUME Sound, Progress, Faultless, Pure, NEW s \in Own, UNCHANGED <<run, alone>>,
           MergeBars(s), UNCHANGED derived
    PROVE  Faultless'
<1>1. Typed /\ s \in Slots /\ job[s] \in Job /\ Shape(job[s])
  BY JobFields DEF Own, Sound
<1>2. PICK g \in Hours : g = job[s].hour
  BY <1>1, JobFields DEF Own
<1> DEFINE j == [job[s] EXCEPT !.step = "done"]
<1>3. /\ job[s].step = "merge" /\ ~Ended(s) /\ job[s].left = {}
      /\ bars' = [bars EXCEPT ![g] = Merged(g)]
      /\ job' = [job EXCEPT ![s] = j]
      /\ UNCHANGED raw
  BY <1>1, <1>2 DEF MergeBars, Ended, Shape
<1>4. j \in Job /\ j.own = job[s].own /\ j.hour = g /\ j.step = "done"
  BY <1>1, <1>2 DEF Job
<1>5. bars'[g] = Merged(g) /\ \A h \in Hours \ {g} : bars'[h] = bars[h]
  BY <1>1, <1>3 DEF Typed
<1> HIDE DEF j
<1>6. job'[s] = j
  BY <1>1, <1>3 DEF Typed
<1>7. Advances(s, j)
  BY <1>1, <1>2, <1>3, <1>4, QueryAdvances
<1>8. run.at = 1
  BY <1>1, <1>3, StepOfPhase
<1>9. Loads(s)'
  BY <1>4, <1>6 DEF Loads, Ended
<1>10. ASSUME ~Failing, InTurn, \A h \in Hours : Reached(h) PROVE Reached(g)'
  <2>1. Loads(s)
    BY <1>10 DEF InTurn
  <2>2. bars[g] = None /\ \A k \in Files(g) : raw[k][g] > 0
    BY <1>2, <1>3, <2>1 DEF Loads
  <2>3. \A h \in Hours : \A k \in Kinds \ Files(h) : raw[k][h] = 0
    BY DEF Sound, Hourly
  <2>4. ASSUME NEW b \in Before(g) PROVE raw["trades"][b] > 0 <=> "trades" \in Files(b)
    <3>1. b \in Hours /\ b <= g /\ b # g
      BY <2>4, Constants DEF Before
    <3>2. g \notin run.pending
      BY <1>1, <1>2, <1>7, Advanced
    <3>3. b \notin run.pending
      BY <1>10, <3>1, <3>2 DEF InTurn
    <3>4. ASSUME NEW t \in Own, job[t].hour = b PROVE job[t].step = "done"
      <4>1. t # s
        BY <1>2, <3>1, <3>4
      <4>2. Ended(t)
        BY <1>3, <1>10, <4>1 DEF InTurn
      <4> QED
        BY <1>10, <4>2 DEF Ended, Failing
    <3>5. Through(1, b)
      BY <1>8, <3>3, <3>4 DEF Through, Settled
    <3>6. Stocked(b)
      BY <1>10, <3>1, <3>5 DEF Reached
    <3>7. "trades" \in Kinds
      BY DEF Kinds
    <3> QED
      BY <2>3, <3>1, <3>6, <3>7 DEF Stocked
  <2>5. \A k \in Kinds : Deduplicated(raw[k][g]) = Expected(k, g)
    <3>1. \A k \in Kinds : raw[k][g] \in Nat
      BY <1>1 DEF Typed
    <3> QED
      BY <2>2, <2>3, <3>1 DEF Deduplicated, Expected
  <2>6. Whole(g)'
    <3>1. bars'[g] = Resampled(g)
      BY <1>5, <2>2 DEF Merged
    <3>2. Resampled(g).joined = (\A b \in Before(g) : raw["trades"][b] > 0)
      BY DEF Resampled
    <3>3. (\A b \in Before(g) : raw["trades"][b] > 0) = (\A b \in Before(g) : "trades" \in Files(b))
      BY <2>4
    <3>4. Whole(g)' = (bars'[g] = [trades |-> Expected("trades", g),
                                   books |-> Expected("books", g),
                                   joined |-> \A b \in Before(g) : "trades" \in Files(b)])
      BY DEF Whole, Expected, Files, Before
    <3> QED
      BY <2>5, <3>1, <3>3, <3>4 DEF Resampled, Kinds
  <2>7. Stocked(g)'
    BY <1>3, <2>2 DEF Stocked, Files
  <2>8. ~Through(2, g)' /\ ~Through(3, g)'
    BY <1>8 DEF Through
  <2> QED
    BY <2>6, <2>7, <2>8 DEF Reached
<1>11. derived' \in Derived
  BY DEF Faultless
<1>12. \A h \in Hours \ {g} : /\ \A k \in Kinds : raw'[k][h] = raw[k][h]
                              /\ bars'[h] = bars[h]
                              /\ \A p \in Phases \ {"resample"} :
                                    derived'[p][h] = derived[p][h]
  BY <1>3, <1>5
<1> QED
  BY <1>1, <1>2, <1>7, <1>8, <1>9, <1>10, <1>11, <1>12, AdvanceFaultless

\* What a query derives of the bars, and of nothing else.
LEMMA DeriveEffect ==
    ASSUME Typed, derived \in Derived, NEW s \in Occupied, Derive(s)
    PROVE  /\ derived' \in Derived
           /\ \A p \in Phases \ {"resample"}, h \in Hours :
                derived'[p][h] = IF p = job[s].phase /\ h = job[s].hour
                                 THEN {i \in Inputs(p, h) : Whole(i)} ELSE derived[p][h]
<1>1. PICK g \in Hours, q \in Phases : g = job[s].hour /\ q = job[s].phase
  BY JobFields
<1> DEFINE new == {i \in Inputs(q, g) : Whole(i)}
<1>2. new \in SUBSET Hours
  BY DEF Inputs, Before, After
<1>3. derived' = [derived EXCEPT ![q][g] = new]
  BY <1>1 DEF Derive
<1> HIDE DEF new
<1>4. /\ derived' \in Derived
      /\ \A p \in Phases \ {"resample"}, h \in Hours :
            derived'[p][h] = IF p = q /\ h = g THEN new ELSE derived[p][h]
  BY <1>2, <1>3 DEF Derived
<1> QED
  BY <1>1, <1>4 DEF new

LEMMA DeriveFaultless ==
    ASSUME Typed, Progress, Faultless, Pure, NEW s \in Own, UNCHANGED <<run, alone>>,
           Derive(s)
    PROVE  Faultless'
<1>1. s \in Slots /\ s \in Occupied /\ job[s] \in Job
  BY JobFields DEF Own
<1>2. PICK g \in Hours : g = job[s].hour
  BY <1>1, JobFields
<1> DEFINE j == [job[s] EXCEPT !.step = "done"]
<1>3. /\ job[s].step = "query" /\ ~Ended(s)
      /\ job' = [job EXCEPT ![s] = j]
      /\ UNCHANGED <<raw, bars>>
  BY DEF Derive, Ended
<1>4. j \in Job /\ j.own = job[s].own /\ j.hour = g /\ j.step = "done"
  BY <1>1, <1>2 DEF Job
<1> HIDE DEF j
<1>5. Advances(s, j)
  BY <1>2, <1>3, <1>4, QueryAdvances
<1>6. /\ derived' \in Derived
      /\ \A p \in Phases \ {"resample"}, h \in Hours :
            derived'[p][h] = IF p = job[s].phase /\ h = job[s].hour
                             THEN {i \in Inputs(p, h) : Whole(i)} ELSE derived[p][h]
  BY <1>1, DeriveEffect DEF Faultless
<1>7. /\ run.at \in 1..3
      /\ run.at = 2 <=> job[s].phase = "features"
      /\ run.at = 3 <=> job[s].phase = "targets"
  BY StepOfPhase
<1>8. InTurn => run.at # 1
  <2>1. CASE InTurn /\ run.at = 1
    <3>1. Loads(s)
      BY <2>1 DEF InTurn
    <3> QED
      BY <1>3, <3>1 DEF Loads
  <2> QED
    BY <2>1
<1>9. ASSUME \A h \in Hours : Reached(h), run.at = 1 => InTurn PROVE Reached(g)'
  <2>1. run.at \in 2..3
    BY <1>7, <1>8, <1>9
  <2>2. \A h \in Hours : Whole(h) /\ Stocked(h)
    BY <1>9, <2>1 DEF Reached, Through
  <2>3. Whole(g)' /\ Stocked(g)'
    BY <1>3, <2>2 DEF Whole, Stocked, Expected, Files, Before
  <2>4. \A p \in {"features", "targets"} : {i \in Inputs(p, g) : Whole(i)} = Inputs(p, g)
    BY <2>2 DEF Inputs, Before, After
  <2>5. /\ "features" \in Phases \ {"resample"} /\ "targets" \in Phases \ {"resample"}
    BY DEF Phases
  <2>6. run.at = 2 => derived'["features"][g] = Inputs("features", g)
    BY <1>2, <1>6, <1>7, <2>4, <2>5
  <2>7. run.at = 3 => derived'["targets"][g] = Inputs("targets", g)
    BY <1>2, <1>6, <1>7, <2>4, <2>5
  <2>8. run.at = 3 => derived'["features"][g] = Inputs("features", g)
    <3>1. CASE run.at = 3
      <4>1. derived["features"][g] = Inputs("features", g)
        BY <1>9, <3>1 DEF Reached, Through
      <4> QED
        BY <1>6, <1>7, <2>5, <3>1, <4>1
    <3> QED
      BY <3>1
  <2>9. run'.at = run.at
    OBVIOUS
  <2>10. /\ Inputs("features", g)' = Inputs("features", g)
         /\ Inputs("targets", g)' = Inputs("targets", g)
    BY DEF Inputs, Before, After
  <2>11. run.at = 2 => ~Through(3, g)'
    BY <2>9 DEF Through
  <2> QED
    BY <2>1, <2>3, <2>6, <2>7, <2>8, <2>10, <2>11 DEF Reached
<1>10. \A h \in Hours \ {g} : /\ \A k \in Kinds : raw'[k][h] = raw[k][h]
                              /\ bars'[h] = bars[h]
                              /\ \A p \in Phases \ {"resample"} :
                                    derived'[p][h] = derived[p][h]
  BY <1>2, <1>3, <1>6
<1>11. InTurn /\ run.at = 1 => Loads(s)'
  BY <1>8
<1> QED
  BY <1>1, <1>2, <1>5, <1>6, <1>9, <1>10, <1>11, AdvanceFaultless

LEMMA DerivedKept ==
    ASSUME Typed, Faultless, [Next]_vars
    PROVE  derived' \in Derived
<1>1. CASE UNCHANGED derived
  BY <1>1 DEF Faultless
<1>2. ASSUME NEW s \in Occupied, Derive(s) PROVE derived' \in Derived
  BY <1>2, DeriveEffect DEF Faultless
<1>3. UNCHANGED derived \/ \E s \in Occupied : Derive(s)
  BY DEF Next, vars, tables, Invoke, Launch, Record, NextPhase, Exit, Process, Query,
         DeleteRaw, InsertRaw, DeleteBars, MergeBars, Leave, Fails, Kill, Cron
<1> QED
  BY <1>1, <1>2, <1>3

LEMMA ProcessFaultless ==
    ASSUME Sound, Progress, Faultless, NEW s \in Slots, Process(s), Pure'
    PROVE  Faultless'
<1>1. Typed /\ UNCHANGED <<run, alone>>
  BY DEF Sound, Process, Query, Leave, history
<1>2. Pure
  BY <1>1 DEF Pure
<1>3. s \in Own
  BY <1>2 DEF Faultless, Process
<1>4. ~Leave(s)
  BY <1>3 DEF Own, Leave
<1>5. MergeBars(s) => UNCHANGED derived
  BY DEF MergeBars
<1> QED
  BY <1>1, <1>2, <1>3, <1>4, <1>5, LoadFaultless, MergeFaultless, DeriveFaultless
     DEF Process, Query

LEMMA NextFaultless == Sound /\ Progress /\ Faultless /\ [Next]_vars => Faultless'
<1> SUFFICES ASSUME Sound, Progress, Faultless, [Next]_vars PROVE Faultless'
  OBVIOUS
<1>1. Typed
  BY DEF Sound
<1>2. CASE ~Pure'
  BY <1>1, <1>2, DerivedKept DEF Faultless
<1>3. CASE Pure'
  <2>1. CASE UNCHANGED vars
    <3>1. UNCHANGED <<raw, bars, derived, run, job, alone>>
      BY <2>1 DEF vars
    <3>2. Own' = Own /\ Occupied' = Occupied /\ Pure' = Pure
      BY <3>1 DEF Own, Occupied, Pure
    <3>3. Failing' = Failing /\ \A h \in Hours : Settled(h)' = Settled(h)
      BY <3>1, <3>2 DEF Failing, Settled
    <3>4. InTurn' = InTurn
      BY <3>1, <3>2 DEF InTurn, Loads, Ended, Files
    <3>5. ASSUME NEW h \in Hours, Reached(h) PROVE Reached(h)'
      <4>1. \A i \in 1..3 : Through(i, h)' => Through(i, h)
        BY <3>1, <3>3 DEF Through
      <4> QED
        BY <3>1, <3>5, <4>1, ReachedKept
    <3> QED
      BY <3>1, <3>2, <3>3, <3>4, <3>5 DEF Faultless
  <2>2. CASE \E m \in Modes, r \in BOOLEAN : Invoke(m, r)
    BY <1>3, <2>2, InvokeFaultless
  <2>3. CASE Launch
    BY <1>1, <1>3, <2>3, LaunchFaultless
  <2>4. CASE \E s \in Slots : Record(s)
    BY <1>1, <1>3, <2>4, RecordFaultless
  <2>5. CASE NextPhase
    BY <1>1, <1>3, <2>5, NextPhaseFaultless
  <2>6. CASE Exit
    BY <1>1, <1>3, <2>6, ExitFaultless
  <2>7. CASE \E s \in Slots : Process(s)
    BY <1>3, <2>7, ProcessFaultless
  <2>8. CASE \E s \in Occupied : Fails(s)
    BY <1>1, <1>3, <2>8, FailsFaultless
  <2>9. CASE Kill
    <3>1. run'.status = "killed"
      BY <1>1, <2>9 DEF Kill, Typed, RunTyped, RunType
    <3> QED
      BY <1>3, <3>1 DEF Pure
  <2>10. CASE \E c \in Scheduled : Cron(c[1], c[2])
    BY <1>3, <2>10 DEF Cron, Pure
  <2> QED
    BY <2>1, <2>2, <2>3, <2>4, <2>5, <2>6, <2>7, <2>8, <2>9, <2>10 DEF Next
<1> QED
  BY <1>2, <1>3

LEMMA InitFaultless == Init => Faultless
<1> SUFFICES ASSUME Init PROVE Faultless
  OBVIOUS
<1>1. derived \in Derived
  <2>1. derived = [p \in Phases \ {"resample"} |-> [h \in Hours |-> None]]
    BY DEF Init
  <2>2. [h \in Hours |-> None] \in [Hours -> (SUBSET Hours) \cup {None}]
    OBVIOUS
  <2> QED
    BY <2>1, <2>2 DEF Derived
<1>2. ~Pure
  BY DEF Init, Pure
<1> QED
  BY <1>1, <1>2 DEF Faultless

\* A backfill of everything that says success tells the truth: whatever failed
\* and was retried on the way, every hour's bars are whole and joined to the
\* hour before, and its features and labels were derived from whole bars (the
\* phases, retries and exit status of backfill_bigquery.py, for every range,
\* number of workers and faults).
THEOREM SuccessIsSound == Spec => []SoundSuccess
<1>1. Sound /\ Progress /\ Faultless => SoundSuccess
  <2> SUFFICES ASSUME Sound, Progress, Faultless, run.status = "success", alone,
                      ~run.resume, Len(run.mode) = 3, NEW h \in Hours
               PROVE  Whole(h) /\ \A p \in DOMAIN derived : derived[p][h] = Inputs(p, h)
    BY DEF SoundSuccess
  <2>1. Pure /\ Own = {}
    BY DEF Pure, Progress, Running
  <2>2. run.at = 3 /\ run.pending = {} /\ ~Failing
    BY <2>1 DEF Faultless, Failing
  <2>3. Reached(h)
    BY <2>1, <2>2 DEF Faultless
  <2>4. \A i \in 1..3 : Through(i, h)
    BY <2>1, <2>2 DEF Through, Settled
  <2>5. DOMAIN derived = {"features", "targets"}
    BY DEF Faultless, Derived, Phases
  <2> QED
    BY <2>3, <2>4, <2>5 DEF Reached
<1>2. Sound => Typed
  BY DEF Sound
<1> QED
  BY <1>1, <1>2, InitSound, NextSound, InitProgress, NextProgress, InitFaultless,
     NextFaultless, PTL DEF Spec

=============================================================================
