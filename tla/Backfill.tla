------------------------------ MODULE Backfill ------------------------------
(***************************************************************************)
(* The batch ETL of services/batch_etl: backfill_bigquery.py walks a range *)
(* of UTC hours in three phases (resample, features, targets), starts one  *)
(* child process per hour and phase, retries it, and records in a state    *)
(* file which hours of which phase are complete.  A child of the first     *)
(* phase (run_bigquery_hourly.py and its load_raw_to_bigquery.py) replaces *)
(* a slice of the raw tables and of the bars by a DELETE and an INSERT or  *)
(* MERGE that are queries of their own; a child of the other phases is one *)
(* MERGE.  A query may fail; the backfill may be killed, and its children  *)
(* then die with it or live on; the hourly CronJobs run the same scripts.  *)
(*                                                                         *)
(* Abstractions: venues are independent slices and one stands for all;     *)
(* rows are counted as copies of the hour's archived objects.  Feature and *)
(* label rows are the set of hours whose bars were whole when they were    *)
(* derived.  What the archive holds does not change.                       *)
(***************************************************************************)
EXTENDS Naturals, FiniteSets, Sequences, FiniteSetsExt

CONSTANTS
    LastHour,         \* the range is the hours 1..LastHour
    Archived,         \* the <<kind, hour>> the archive has objects of
    Modes,            \* sequences of phases: all of them, or --features-only, ...
    Retries,          \* --retries
    HourParallelism,  \* --hour-parallelism
    Scheduled,        \* the <<hour, phase>> of the range that a CronJob may run
    Slots,            \* processes that can run at once
    MaxRuns, MaxFaults, MaxCrons,
    None

Hours == 1..LastHour
Kinds == {"trades", "books"}
AllPhases == <<"resample", "features", "targets">>
Phases == {"resample", "features", "targets"}
Statuses == {"complete", "failed", "blocked"}

ASSUME BackfillAssumption ==
    /\ LastHour \in Nat \ {0}
    /\ Archived \subseteq Kinds \X Hours
    /\ Scheduled \subseteq Hours \X Phases
    /\ Modes \subseteq {AllPhases} \cup {<<p>> : p \in Phases}
    /\ Retries \in Nat
    /\ HourParallelism \in Nat \ {0}
    /\ IsFiniteSet(Slots)
    /\ MaxRuns \in Nat /\ MaxFaults \in Nat /\ MaxCrons \in Nat
    /\ None \notin Statuses \cup Kinds

VARIABLES
    raw,       \* raw[k][h]: copies of the hour's objects in the raw table of k
    bars,      \* bars[h]: None, or what the hour's bars were merged from
    derived,   \* derived[p][h]: None, or the hours whose bars were whole
    file,      \* the state file: file[h][p] is None or a status
    state,     \* the state in the memory of the backfill
    run,       \* the backfill process
    job,       \* job[s]: None, or the child process in slot s
    built,     \* history: built[h] iff the last resampling of h was not cut short
    alone,     \* history: no other process has run since the backfill started
    runs, faults, crons

tables == <<raw, bars, derived>>
history == <<built, alone>>
budget == <<runs, faults, crons>>
vars == <<raw, bars, derived, file, state, run, job, built, alone, runs, faults, crons>>

Files(h) == {k \in Kinds : <<k, h>> \in Archived}
Empty == [h \in Hours |-> [p \in Phases |-> None]]

\* The first hour of the range has no predecessor in it, the last no successor.
Before(h) == {h - 1} \cap Hours
After(h) == {h + 1} \cap Hours

\* The bars of an hour: how often they count its trades and its book levels,
\* and whether their first fill interval reaches the trades of the hour before.
Bar == [trades : Nat, books : Nat, joined : BOOLEAN]

Job == [hour : Hours, phase : Phases, attempt : Nat, own : BOOLEAN,
        left : SUBSET Kinds, kind : Kinds \cup {None}, fresh : BOOLEAN,
        step : {"load", "insert", "merge", "query", "done", "failed"}]

\* None is neither a job nor bars.
ASSUME NoneAssumption == None \notin Job \cup Bar

Running == run.status = "running"
Phase == run.mode[run.at]
Occupied == {s \in Slots : job[s] # None}
Own == {s \in Occupied : job[s].own}
Free == Slots \ Occupied
Slot == CHOOSE s \in Free : TRUE
Ended(s) == job[s].step \in {"done", "failed"}
Works(h) == {s \in Occupied : job[s].hour = h /\ job[s].phase = "resample"}

\* What the hour's bars should count of the objects of a kind.
Expected(k, h) == IF k \in Files(h) THEN 1 ELSE 0

Whole(h) ==
    bars[h] = [trades |-> Expected("trades", h), books |-> Expected("books", h),
               joined |-> \A b \in Before(h) : "trades" \in Files(b)]

-----------------------------------------------------------------------------
(***************************************************************************)
(* The backfill process.                                                   *)
(***************************************************************************)

\* The hours that a phase skips: complete ones, with --resume.
Skips(st, mode, at, resume) ==
    {h \in Hours : resume /\ st[h][mode[at]] = "complete"}

\* The hours whose previous phase of this run is not complete.
Blocks(st, mode, at, resume) ==
    {h \in Hours \ Skips(st, mode, at, resume) :
        at > 1 /\ st[h][mode[at - 1]] # "complete"}

Blocked(st, mode, at, resume) ==
    [h \in Hours |-> IF h \in Blocks(st, mode, at, resume)
                     THEN [st[h] EXCEPT ![mode[at]] = "blocked"] ELSE st[h]]

\* The process at the beginning of phase at of mode, with the state st.
Beginning(st, mode, at, resume, failed) ==
    [status |-> "running", mode |-> mode, at |-> at, resume |-> resume,
     pending |-> Hours \ (Skips(st, mode, at, resume) \cup Blocks(st, mode, at, resume)),
     failed |-> failed \/ Blocks(st, mode, at, resume) # {}]

Init ==
    /\ raw = [k \in Kinds |-> [h \in Hours |-> 0]]
    /\ bars = [h \in Hours |-> None]
    /\ derived = [p \in Phases \ {"resample"} |-> [h \in Hours |-> None]]
    /\ file = Empty
    /\ state = Empty
    /\ \E m \in Modes :
        run = [status |-> "none", mode |-> m, at |-> 1, resume |-> FALSE,
               pending |-> {}, failed |-> FALSE]
    /\ job = [s \in Slots |-> None]
    /\ built = [h \in Hours |-> FALSE]
    /\ alone = TRUE
    /\ runs = 0
    /\ faults = 0
    /\ crons = 0

\* Mutant of Loaded: --resume skips nothing.
LoadedNever(resume) == Empty

\* The operator starts a backfill.  The lock admits one process at a time; its
\* children do not hold it.  Only --resume reads the state file.
Loaded(resume) == IF resume THEN file ELSE Empty

Invoke(mode, resume) ==
    /\ ~Running
    /\ runs < MaxRuns
    /\ runs' = runs + 1
    /\ run' = Beginning(Loaded(resume), mode, 1, resume, FALSE)
    /\ state' = Blocked(Loaded(resume), mode, 1, resume)
    /\ alone' = (Occupied = {})
    /\ UNCHANGED <<tables, file, job, built, faults, crons>>

\* A child process for phase p of hour h.  The objects are listed per kind, in
\* no fixed order; a kind without objects is skipped before anything is deleted.
Child(h, p, own) ==
    [hour |-> h, phase |-> p, attempt |-> 1, own |-> own, kind |-> None, fresh |-> TRUE,
     left |-> IF p = "resample" THEN Files(h) ELSE {},
     step |-> IF p = "resample" THEN "load" ELSE "query"]

\* Mutant of Workers: the hours of every phase run in parallel.
WorkersOfAnyPhase == HourParallelism

\* Raw tables are shared: the first phase takes one hour after the other.
Workers == IF Phase = "resample" THEN 1 ELSE HourParallelism

\* A worker takes the next hour as soon as its child has ended, which may be
\* before the main thread has recorded it.
Launch ==
    /\ Running
    /\ run.pending # {}
    /\ Free # {}
    /\ Cardinality({s \in Own : ~Ended(s)}) < Workers
    /\ job' = [job EXCEPT ![Slot] = Child(Min(run.pending), Phase, TRUE)]
    /\ run' = [run EXCEPT !.pending = @ \ {Min(run.pending)}]
    /\ UNCHANGED <<tables, file, state, history, budget>>

\* A child has ended: its status is recorded and the state file replaced.
Record(s) ==
    /\ Running
    /\ s \in Own
    /\ Ended(s)
    /\ state' = [state EXCEPT ![job[s].hour][job[s].phase] =
                    IF job[s].step = "done" THEN "complete" ELSE "failed"]
    /\ file' = state'
    /\ run' = [run EXCEPT !.failed = @ \/ job[s].step = "failed"]
    /\ job' = [job EXCEPT ![s] = None]
    /\ UNCHANGED <<tables, history, budget>>

\* Every child of the phase has ended.  Hours that are blocked are recorded in
\* memory only: the file has them when the next child ends.
PhaseEnds == Running /\ run.pending = {} /\ Own = {}

NextPhase ==
    /\ PhaseEnds
    /\ run.at < Len(run.mode)
    /\ run' = Beginning(state, run.mode, run.at + 1, run.resume, run.failed)
    /\ state' = Blocked(state, run.mode, run.at + 1, run.resume)
    /\ UNCHANGED <<tables, file, job, history, budget>>

Exit ==
    /\ PhaseEnds
    /\ run.at = Len(run.mode)
    /\ run' = [run EXCEPT !.status = IF run.failed THEN "failure" ELSE "success"]
    /\ UNCHANGED <<tables, file, state, job, history, budget>>

-----------------------------------------------------------------------------
(***************************************************************************)
(* A child process: the queries it sends to BigQuery.                      *)
(***************************************************************************)

DeleteRaw(s, k) ==
    /\ job[s].step = "load"
    /\ k \in job[s].left
    /\ raw' = [raw EXCEPT ![k][job[s].hour] = 0]
    /\ job' = [job EXCEPT ![s] = [@ EXCEPT !.step = "insert", !.kind = k]]
    /\ UNCHANGED <<bars, derived, built>>

InsertRaw(s) ==
    /\ job[s].step = "insert"
    /\ raw' = [raw EXCEPT ![job[s].kind][job[s].hour] = @ + 1]
    /\ job' = [job EXCEPT ![s] = [@ EXCEPT !.step = "load", !.kind = None,
                                           !.left = job[s].left \ {job[s].kind}]]
    /\ UNCHANGED <<bars, derived, built>>

\* Mutant of DeleteBars: the bars are merged over the old ones.
DeleteBarsNot(s) ==
    /\ job[s].step = "load"
    /\ job[s].left = {}
    /\ job' = [job EXCEPT ![s].step = "merge"]
    /\ UNCHANGED <<raw, bars, derived, built>>

DeleteBars(s) ==
    /\ job[s].step = "load"
    /\ job[s].left = {}
    /\ bars' = [bars EXCEPT ![job[s].hour] = None]
    /\ job' = [job EXCEPT ![s].step = "merge"]
    /\ UNCHANGED <<raw, derived, built>>

\* The row that the resampling query reads from the raw tables.  It keeps one
\* row of a trade id and one of a book level: copies do not count twice.
Deduplicated(copies) == IF copies = 0 THEN 0 ELSE 1

Resampled(h) ==
    [trades |-> Deduplicated(raw["trades"][h]), books |-> Deduplicated(raw["books"][h]),
     joined |-> \A b \in Before(h) : raw["trades"][b] > 0]

\* WHEN MATCHED updates the trade columns, not the book and fill columns.
Merged(h) ==
    IF bars[h] = None THEN Resampled(h)
    ELSE [bars[h] EXCEPT !.trades = Resampled(h).trades]

MergeBars(s) ==
    /\ job[s].step = "merge"
    /\ bars' = [bars EXCEPT ![job[s].hour] = Merged(job[s].hour)]
    /\ built' = [built EXCEPT ![job[s].hour] = @ \/ job[s].fresh]
    /\ job' = [job EXCEPT ![s].step = "done"]
    /\ UNCHANGED <<raw, derived>>

\* The bars that a feature or label row of the hour is computed from.
Inputs(p, h) == {h} \cup IF p = "features" THEN Before(h) ELSE After(h)

Derive(s) ==
    /\ job[s].step = "query"
    /\ derived' = [derived EXCEPT ![job[s].phase][job[s].hour] =
                    {i \in Inputs(job[s].phase, job[s].hour) : Whole(i)}]
    /\ job' = [job EXCEPT ![s].step = "done"]
    /\ UNCHANGED <<raw, bars, built>>

\* What the death of the processes dead leaves of the other jobs and of built:
\* a resampling that has begun is cut short, whoever else works on its hour.
Cut(dead) ==
    {job[s].hour : s \in {d \in dead :
        /\ job[d].phase = "resample"
        /\ ~Ended(d)
        /\ job[d].step = "load" => job[d].left # Files(job[d].hour)}}

Shaken(dead) ==
    [s \in Slots |->
        IF s \in Occupied \ dead /\ job[s].hour \in Cut(dead)
        THEN [job[s] EXCEPT !.fresh = FALSE] ELSE job[s]]

Unbuilt(dead) == [h \in Hours |-> built[h] /\ h \notin Cut(dead)]

\* A query raises (one that raises although BigQuery has executed it fails here
\* as the next query).  A child of the backfill is started again from the
\* beginning while it has retries left.
Fails(s) ==
    /\ faults < MaxFaults
    /\ ~Ended(s)
    /\ faults' = faults + 1
    /\ built' = Unbuilt({s})
    /\ job' = [Shaken({s}) EXCEPT ![s] =
                IF ~@.own THEN None
                ELSE IF @.attempt <= Retries
                THEN [Child(@.hour, @.phase, TRUE) EXCEPT !.attempt = job[s].attempt + 1]
                ELSE [@ EXCEPT !.step = "failed"]]
    /\ UNCHANGED <<tables, file, state, run, alone, runs, crons>>

\* A process that no backfill waits for ends.
Leave(s) ==
    /\ ~job[s].own
    /\ job[s].step = "done"
    /\ job' = [job EXCEPT ![s] = None]
    /\ UNCHANGED <<tables, file, state, run, history, budget>>

Query(s) ==
    /\ \/ \E k \in Kinds : DeleteRaw(s, k)
       \/ InsertRaw(s)
       \/ DeleteBars(s)
       \/ MergeBars(s)
       \/ Derive(s)
    /\ UNCHANGED <<file, state, run, alone, budget>>

-----------------------------------------------------------------------------
\* The backfill is killed: the lock is free, the memory is lost, and each of
\* its children dies or goes on without it.
Kill ==
    /\ Running
    /\ faults < MaxFaults
    /\ faults' = faults + 1
    /\ run' = [run EXCEPT !.status = "killed"]
    /\ \E dead \in SUBSET Own :
        /\ built' = Unbuilt(dead)
        /\ job' = [s \in Slots |->
                    IF s \in dead THEN None
                    ELSE IF s \in Own THEN [Shaken(dead)[s] EXCEPT !.own = FALSE]
                    ELSE Shaken(dead)[s]]
    /\ UNCHANGED <<tables, file, state, alone, runs, crons>>

\* A CronJob of the cluster runs one of the scripts; it knows no lock.
Cron(h, p) ==
    /\ crons < MaxCrons
    /\ Free # {}
    /\ crons' = crons + 1
    /\ alone' = FALSE
    /\ job' = [job EXCEPT ![Slot] = Child(h, p, FALSE)]
    /\ UNCHANGED <<tables, file, state, run, built, runs, faults>>

Process(s) == s \in Occupied /\ (Query(s) \/ Leave(s))

Next ==
    \/ \E m \in Modes, r \in BOOLEAN : Invoke(m, r)
    \/ Launch
    \/ \E s \in Slots : Record(s)
    \/ NextPhase
    \/ Exit
    \/ \E s \in Slots : Process(s)
    \/ \E s \in Occupied : Fails(s)
    \/ Kill
    \/ \E c \in Scheduled : Cron(c[1], c[2])

Spec == Init /\ [][Next]_vars

-----------------------------------------------------------------------------
(***************************************************************************)
(* Properties.                                                             *)
(***************************************************************************)

\* However retries, processes that outlive a killed backfill and CronJobs
\* interleave their deletes, inserts and merges of one hour: when nobody works
\* on the hour and its last resampling was not cut short, its bars hold every
\* archived object, once.  "Replacing the exact bar slice makes a resumed
\* backfill idempotent and removes rows written twice by previously concurrent
\* workers", and rows written twice to the raw tables do not show in the bars.
QuietMeansWhole ==
    \A h \in Hours : built[h] /\ Works(h) = {} =>
        /\ bars[h] # None
        /\ bars[h].trades = Expected("trades", h)
        /\ bars[h].books = Expected("books", h)

\* A backfill of all phases that reports success, started without --resume
\* and alone: every hour's bars are whole and reach back to the hour before,
\* and its features and labels were derived from whole bars of every hour of
\* the range that they read.
SoundSuccess ==
    run.status = "success" /\ alone /\ ~run.resume /\ Len(run.mode) = 3 =>
        \A h \in Hours :
            /\ Whole(h)
            /\ \A p \in DOMAIN derived : derived[p][h] = Inputs(p, h)

\* A resumed backfill takes nothing back: whatever the state file calls complete
\* stays so, and the bars of an hour that it calls complete are not touched
\* unless another process works on them.
ResumeKeepsProgress ==
    [][Running /\ run.resume =>
        \A h \in Hours :
            /\ \A p \in Phases : file[h][p] = "complete" => file'[h][p] = "complete"
            /\ file[h]["resample"] = "complete" /\ Works(h) \subseteq Own =>
                bars'[h] = bars[h]]_vars

=============================================================================
