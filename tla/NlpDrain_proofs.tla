--------------------------- MODULE NlpDrain_proofs ---------------------------
(***************************************************************************)
(* Proofs about NlpDrain and TwoDrains, for any number of rows, sources,     *)
(* attempts, runs and resolutions: the type invariant, the safety            *)
(* invariants and action properties of one process and of two, that the     *)
(* stage implements RecordLifecycle, and that its batches are fair.         *)
(*                                                                         *)
(* Every step of a process takes every row along one of a few moves; what    *)
(* the moves keep is proved of a row alone, once for both processes.         *)
(***************************************************************************)
EXTENDS TwoDrains, FiniteSetTheorems, WellFoundedInduction, TLAPS

\* A row of the tables with the job one process has for it.
Row(r) == [raw |-> raw[r], core |-> core[r], open |-> open[r],
           unacked |-> unacked[r], job |-> job[r]]
Row2(r) == [Row(r) EXCEPT !.job = job2[r]]

-----------------------------------------------------------------------------
(* What a process may rely on about a row.                                 *)

\* The row waits in the queue: what the batch query selects.
Waits(v) == v.raw = "text" /\ ~v.core /\ v.open = 0

\* What a coroutine may rely on about its row, by the place it has reached.
\* Nobody else writes the row, except an operator who resolves its failure.
AtQueued(v) == v.job.pc = "queued" => Waits(v)
AtCall(v) == v.job.pc = "call" => Waits(v)
AtPersist(v) == v.job.pc = "persist" => Waits(v) /\ ~v.job.allBusy
AtRecord(v) ==
    v.job.pc = "record" =>
        /\ Waits(v)
        /\ v.job.attempt = MaxAttempts
        /\ ~v.job.busy
        /\ ~v.job.allBusy
AtSleep(v) ==
    v.job.pc = "sleep" =>
        /\ v.raw = "text" /\ ~v.core
        /\ v.open = 0 \/ (v.job.attempt = MaxAttempts /\ ~v.job.busy)
        /\ v.open <= MaxAttempts
        /\ ~v.job.busy => ~v.job.allBusy
AtFinal(v) ==
    v.job.pc = "final" =>
        /\ v.raw = "text" /\ ~v.core
        /\ v.open <= MaxAttempts
        /\ ~v.job.allBusy
AtUnknown(v) ==
    v.job.pc = "unknown" =>
        /\ Waits(v) \/ (v.core /\ v.unacked /\ v.open = 0)
        /\ ~v.job.allBusy

Reached(v) ==
    /\ AtQueued(v)
    /\ AtCall(v)
    /\ AtPersist(v)
    /\ AtRecord(v)
    /\ AtSleep(v)
    /\ AtFinal(v)
    /\ AtUnknown(v)

\* The job has made an attempt if it is past its start.
Counted(v) ==
    /\ v.job.pc = "queued" => v.job.attempt = 0
    /\ AtWork(v.job) /\ v.job.pc # "queued" => v.job.attempt >= 1

\* The tables agree about the row, whoever writes it.
Sound(v) ==
    /\ v.core <=> v.raw = "cleared"
    /\ v.open > 0 => v.raw # "absent"
    /\ AtWork(v.job) => v.raw # "absent"

\* The failures of the row are those of one process.
Agree(v) ==
    /\ v.core /\ v.open > 0 => v.unacked
    /\ v.open <= MaxAttempts + 1

RowInv(v) == Counted(v) /\ Sound(v) /\ Reached(v) /\ Agree(v)

IndInv ==
    /\ TypeOK
    /\ \A r \in Records : RowInv(Row(r))

-----------------------------------------------------------------------------
(* The moves of a row.                                                     *)

RowType(v) ==
    /\ v.raw \in {"absent", "text", "cleared"}
    /\ v.core \in BOOLEAN
    /\ v.open \in Nat
    /\ v.unacked \in BOOLEAN
    /\ v.job \in JobState

Same(v, w) ==
    w.raw = v.raw /\ w.core = v.core /\ w.open = v.open /\ w.unacked = v.unacked

Goes(v, w, pc) ==
    /\ w.job.pc = pc
    /\ w.job.attempt = v.job.attempt
    /\ w.job.busy = v.job.busy
    /\ w.job.allBusy = v.job.allBusy

\* Start and Awake: an attempt is made, or there is no provider.
Tries(v, w) ==
    /\ \/ v.job.pc = "queued"
       \/ v.job.pc = "sleep" /\ v.job.attempt < MaxAttempts
    /\ \/ /\ w.job.pc = "call"
          /\ w.job.attempt = v.job.attempt + 1
          /\ w.job.busy = v.job.busy
          /\ w.job.allBusy = v.job.allBusy
       \/ Goes(v, w, "no")
    /\ Same(v, w)

\* Awake, after the last attempt.
GivesUp(v, w) ==
    /\ v.job.pc = "sleep"
    /\ v.job.attempt = MaxAttempts
    /\ Goes(v, w, IF v.job.busy THEN "no" ELSE "final")
    /\ Same(v, w)

\* Valid, Unknown, Invalid and AllBusy.
Hears(v, w) ==
    /\ v.job.pc = "call"
    /\ w.job.attempt = v.job.attempt
    /\ \/ /\ w.job.pc \in {"persist", "unknown"}
          /\ w.job.busy = v.job.busy
          /\ ~w.job.allBusy
       \/ /\ w.job.pc = IF v.job.attempt = MaxAttempts THEN "record" ELSE "sleep"
          /\ ~w.job.busy
          /\ ~w.job.allBusy
       \/ /\ w.job.pc = "sleep"
          /\ w.job.busy
          /\ w.job.allBusy = v.job.allBusy
    /\ Same(v, w)

\* Commit and CommitUnacked.
Writes(v, w) ==
    /\ v.job.pc = "persist"
    /\ ~v.core /\ w.core
    /\ w.raw = "cleared" /\ w.open = 0
    /\ \/ Goes(v, w, "ok") /\ w.unacked = v.unacked
       \/ Goes(v, w, "unknown") /\ w.unacked

\* Abort.
Aborts(v, w) == v.job.pc = "persist" /\ Goes(v, w, "unknown") /\ Same(v, w)

\* RecordFailure.
Fails(v, w) ==
    /\ v.job.pc \in {"record", "unknown", "final"}
    /\ w.open = IF v.open = 0 THEN v.job.attempt ELSE v.open + 1
    /\ w.raw = v.raw /\ w.core = v.core /\ w.unacked = v.unacked
    /\ Goes(v, w, IF v.job.pc = "record" THEN "sleep" ELSE "no")

\* RecordFails.
Forgets(v, w) ==
    /\ v.job.pc \in {"record", "unknown", "final"}
    /\ Goes(v, w, "no")
    /\ Same(v, w)

Works(v, w) ==
    \/ Tries(v, w)
    \/ GivesUp(v, w)
    \/ Hears(v, w)
    \/ Writes(v, w)
    \/ Aborts(v, w)
    \/ Fails(v, w)
    \/ Forgets(v, w)

\* Fetch takes the row into a batch; Fetch, Gathered, Crash and Run end its job.
Queues(v, w) ==
    /\ Same(v, w) /\ Waits(v)
    /\ w.job.pc = "queued" /\ w.job.attempt = 0
Drops(v, w) == Same(v, w) /\ w.job.pc = "none"

\* Collect and Resolve.
Adds(v, w) ==
    /\ v.raw = "absent" /\ w.raw = "text"
    /\ w.core = v.core /\ w.open = v.open /\ w.unacked = v.unacked
    /\ w.job = v.job
Resolves(v, w) ==
    /\ v.open > 0 /\ w.open = 0
    /\ w.raw = v.raw /\ w.core = v.core /\ w.unacked = v.unacked
    /\ w.job = v.job

Rests(v, w) == Same(v, w) /\ w.job = v.job

Moves(v, w) ==
    \/ Works(v, w)
    \/ Queues(v, w)
    \/ Drops(v, w)
    \/ Adds(v, w)
    \/ Resolves(v, w)
    \/ Rests(v, w)

\* A move keeps what a process may rely on, if no other one writes the row.
LEMMA MoveKeepsRow ==
    ASSUME NEW v, NEW w, RowType(v), RowType(w), RowInv(v), Moves(v, w)
    PROVE  RowInv(w)
<1> USE SizeAssumption DEF RowType, RowInv, Counted, Sound, Agree, AtWork, Ended
<1>1. v.job.attempt \in 0 .. MaxAttempts /\ v.job.busy \in BOOLEAN
  BY DEF JobState
<1>2. CASE Tries(v, w)
  BY <1>1, <1>2 DEF Tries, Goes, Same, Reached, Waits, AtQueued, AtCall, AtPersist,
     AtRecord, AtSleep, AtFinal, AtUnknown
<1>3. CASE GivesUp(v, w)
  BY <1>1, <1>3 DEF GivesUp, Goes, Same, Reached, Waits, AtQueued, AtCall, AtPersist,
     AtRecord, AtSleep, AtFinal, AtUnknown
<1>4. CASE Hears(v, w)
  BY <1>1, <1>4 DEF Hears, Same, Reached, Waits, AtQueued, AtCall, AtPersist,
     AtRecord, AtSleep, AtFinal, AtUnknown
<1>5. CASE Writes(v, w)
  BY <1>1, <1>5 DEF Writes, Goes, Reached, Waits, AtQueued, AtCall, AtPersist,
     AtRecord, AtSleep, AtFinal, AtUnknown
<1>6. CASE Aborts(v, w) \/ Forgets(v, w)
  BY <1>1, <1>6 DEF Aborts, Forgets, Goes, Same, Reached, Waits, AtQueued, AtCall,
     AtPersist, AtRecord, AtSleep, AtFinal, AtUnknown
<1>7. CASE Fails(v, w)
  BY <1>1, <1>7 DEF Fails, Goes, Reached, Waits, AtQueued, AtCall, AtPersist,
     AtRecord, AtSleep, AtFinal, AtUnknown
<1>8. CASE Queues(v, w) \/ Drops(v, w) \/ Rests(v, w)
  BY <1>8 DEF Queues, Drops, Rests, Same, Reached, Waits, AtQueued, AtCall,
     AtPersist, AtRecord, AtSleep, AtFinal, AtUnknown
<1>9. CASE Adds(v, w) \/ Resolves(v, w)
  BY <1>9 DEF Adds, Resolves, Reached, Waits, AtQueued, AtCall, AtPersist,
     AtRecord, AtSleep, AtFinal, AtUnknown
<1> QED
  BY <1>2, <1>3, <1>4, <1>5, <1>6, <1>7, <1>8, <1>9 DEF Moves, Works

\* It keeps the part that holds whoever else writes the row in any case.
LEMMA MoveKeepsSound ==
    ASSUME NEW v, NEW w, RowType(v), RowType(w), Counted(v), Sound(v), Moves(v, w)
    PROVE  Counted(w) /\ Sound(w)
<1> USE SizeAssumption DEF RowType, Counted, Sound, AtWork, Ended
<1>1. v.job.attempt \in 0 .. MaxAttempts
  BY DEF JobState
<1>2. CASE Works(v, w)
  BY <1>1, <1>2 DEF Works, Tries, GivesUp, Hears, Writes, Aborts, Fails, Forgets,
     Goes, Same
<1>3. CASE ~Works(v, w)
  BY <1>3 DEF Moves, Queues, Drops, Adds, Resolves, Rests, Waits, Same
<1> QED
  BY <1>2, <1>3

-----------------------------------------------------------------------------
(* Every step of the first process moves every row, at most one of them in   *)
(* the tables.                                                              *)

\* An attempt starts, or finds no provider and leaves the row in the queue.
LEMMA AttemptMoves ==
    ASSUME TypeOK, NEW r \in Records, job[r].attempt < MaxAttempts,
           \/ job[r].pc = "queued"
           \/ job[r].pc = "sleep",
           Attempt(r, job[r]), UNCHANGED tables
    PROVE  job' \in [Records -> JobState] /\ Tries(Row(r), Row(r)')
<1>1. job[r] \in JobState /\ job \in [Records -> JobState]
  BY DEF TypeOK
<1>2. job[r].attempt \in Nat /\ job[r].attempt + 1 \in 0 .. MaxAttempts
  BY <1>1, SizeAssumption DEF JobState
<1>3. CASE available
  <2>1. job' = [job EXCEPT ![r] = [job[r] EXCEPT !.pc = "call", !.attempt = @ + 1]]
    BY <1>3 DEF Attempt, Set
  <2>2. /\ job'[r].pc = "call" /\ job'[r].attempt = job[r].attempt + 1
        /\ job'[r].busy = job[r].busy /\ job'[r].allBusy = job[r].allBusy
        /\ job' \in [Records -> JobState]
    BY <2>1, <1>1, <1>2 DEF JobState
  <2> QED
    BY <2>2 DEF Tries, Same, Row, tables
<1>4. CASE ~available
  <2>1. job' = [job EXCEPT ![r] = [job[r] EXCEPT !.pc = "no"]]
    BY <1>4 DEF Attempt, Set
  <2>2. /\ job'[r].pc = "no" /\ job'[r].attempt = job[r].attempt
        /\ job'[r].busy = job[r].busy /\ job'[r].allBusy = job[r].allBusy
        /\ job' \in [Records -> JobState]
    BY <2>1, <1>1 DEF JobState
  <2> QED
    BY <2>2 DEF Tries, Goes, Same, Row, tables
<1> QED
  BY <1>3, <1>4

\* A coroutine goes on to another place.
LEMMA StepGoes ==
    ASSUME TypeOK, NEW r \in Records, Step(r, job'[r].pc),
           job'[r].pc \in {"persist", "record", "unknown", "final", "sleep", "ok", "no"}
    PROVE  job' \in [Records -> JobState] /\ Goes(Row(r), Row(r)', job'[r].pc)
<1>1. job[r] \in JobState /\ job \in [Records -> JobState]
  BY DEF TypeOK
<1>2. PICK pc \in {"persist", "record", "unknown", "final", "sleep", "ok", "no"} :
        pc = job'[r].pc
  OBVIOUS
<1>3. job' = [job EXCEPT ![r].pc = pc]
  BY <1>2 DEF Step
<1>4. /\ job'[r].attempt = job[r].attempt /\ job'[r].busy = job[r].busy
      /\ job'[r].allBusy = job[r].allBusy /\ job' \in [Records -> JobState]
  BY <1>1, <1>3 DEF JobState
<1> QED
  BY <1>4 DEF Goes, Row

\* A coroutine moves its row and no other one.
LEMMA WorkMoves ==
    ASSUME TypeOK, NEW r \in Records, Counted(Row(r)), Work(r)
    PROVE  /\ TypeOK'
           /\ Works(Row(r), Row(r)')
           /\ \A q \in Records \ {r} : Rests(Row(q), Row(q)')
<1> USE SizeAssumption
<1>1. job[r] \in JobState /\ job \in [Records -> JobState] /\ open[r] \in Nat
  BY DEF TypeOK
<1>2. job[r].attempt \in 0 .. MaxAttempts
  BY <1>1 DEF JobState
<1>3. ASSUME job' \in [Records -> JobState]
      PROVE  TypeOK'
  <2>1. UNCHANGED <<available, main, runs, resolves>>
    BY DEF Work, Start, Valid, Invalid, Unknown, AllBusy, Awake, Commit, CommitUnacked,
       Abort, RecordFailure, RecordFails
  <2>2. /\ raw' = raw \/ raw' = [raw EXCEPT ![r] = "cleared"]
        /\ core' = core \/ core' = [core EXCEPT ![r] = TRUE]
        /\ unacked' = unacked \/ unacked' = [unacked EXCEPT ![r] = TRUE]
    BY DEF Work, Start, Valid, Invalid, Unknown, AllBusy, Awake, Commit, CommitUnacked,
       Abort, RecordFailure, RecordFails, Write, tables
  <2>3. \/ open' = open \/ open' = [open EXCEPT ![r] = 0]
        \/ open' = [open EXCEPT ![r] = IF @ = 0 THEN job[r].attempt ELSE @ + 1]
    BY DEF Work, Start, Valid, Invalid, Unknown, AllBusy, Awake, Commit, CommitUnacked,
       Abort, RecordFailure, RecordFails, Write, Upsert, tables
  <2>4. open' \in [Records -> Nat]
    BY <2>3, <1>1, <1>2 DEF TypeOK
  <2>5. /\ raw' \in [Records -> {"absent", "text", "cleared"}]
        /\ core' \in [Records -> BOOLEAN]
        /\ unacked' \in [Records -> BOOLEAN]
    BY <2>2 DEF TypeOK
  <2> QED
    BY <1>3, <2>1, <2>4, <2>5 DEF TypeOK
<1>4. ASSUME NEW q \in Records \ {r} PROVE Rests(Row(q), Row(q)')
  <2>1. job' = [job EXCEPT ![r] = job'[r]]
    BY DEF Work, Start, Valid, Invalid, Unknown, AllBusy, Awake, Commit,
       CommitUnacked, Abort, RecordFailure, RecordFails, Attempt, Set, Step, TypeOK
  <2>2. job'[q] = job[q]
    BY <2>1 DEF TypeOK
  <2>3. raw'[q] = raw[q] /\ core'[q] = core[q] /\ open'[q] = open[q] /\ unacked'[q] = unacked[q]
    BY DEF Work, Start, Valid, Invalid, Unknown, AllBusy, Awake, Commit,
       CommitUnacked, Abort, RecordFailure, RecordFails, Write, Upsert, tables, TypeOK
  <2> QED
    BY <2>2, <2>3 DEF Rests, Same, Row
<1>5. CASE Start(r)
  <2>1. job[r].attempt < MaxAttempts
    BY <1>5 DEF Start, Counted, Row
  <2>2. job' \in [Records -> JobState] /\ Tries(Row(r), Row(r)')
    BY <1>5, <2>1, AttemptMoves DEF Start
  <2> QED
    BY <1>3, <1>4, <2>2 DEF Works
<1>6. CASE Awake(r) /\ job[r].attempt < MaxAttempts
  <2>1. Attempt(r, job[r])
    BY <1>6, <1>2 DEF Awake
  <2>2. job' \in [Records -> JobState] /\ Tries(Row(r), Row(r)')
    BY <1>6, <2>1, AttemptMoves DEF Awake
  <2> QED
    BY <1>3, <1>4, <2>2 DEF Works
<1>7. CASE Awake(r) /\ job[r].attempt = MaxAttempts
  <2>1. Step(r, IF job[r].busy THEN "no" ELSE "final")
    BY <1>7 DEF Awake
  <2>2. job'[r].pc = IF job[r].busy THEN "no" ELSE "final"
    BY <2>1, <1>1 DEF Step, JobState
  <2>3. job' \in [Records -> JobState] /\ Goes(Row(r), Row(r)', job'[r].pc)
    BY <2>1, <2>2, StepGoes
  <2>4. GivesUp(Row(r), Row(r)')
    BY <1>7, <2>2, <2>3 DEF Awake, GivesUp, Same, Row, tables
  <2> QED
    BY <1>3, <1>4, <2>3, <2>4 DEF Works
<1>8. CASE Valid(r) \/ Unknown(r)
  <2>1. PICK pc \in {"persist", "unknown"} :
          job' = [job EXCEPT ![r] = [job[r] EXCEPT !.pc = pc, !.allBusy = FALSE]]
    BY <1>8 DEF Valid, Unknown, Set
  <2>2. /\ job'[r].pc = pc /\ job'[r].attempt = job[r].attempt
        /\ job'[r].busy = job[r].busy /\ ~job'[r].allBusy
        /\ job' \in [Records -> JobState]
    BY <2>1, <1>1 DEF JobState
  <2>3. Hears(Row(r), Row(r)')
    BY <1>8, <2>2 DEF Valid, Unknown, Hears, Same, Row, tables
  <2> QED
    BY <1>3, <1>4, <2>2, <2>3 DEF Works
<1>9. CASE Invalid(r)
  <2>1. /\ job'[r].pc = IF job[r].attempt = MaxAttempts THEN "record" ELSE "sleep"
        /\ job'[r].attempt = job[r].attempt /\ ~job'[r].busy /\ ~job'[r].allBusy
        /\ job' \in [Records -> JobState]
    BY <1>9, <1>1 DEF Invalid, Set, JobState
  <2>2. Hears(Row(r), Row(r)')
    BY <1>9, <2>1 DEF Invalid, Hears, Same, Row, tables
  <2> QED
    BY <1>3, <1>4, <2>1, <2>2 DEF Works
<1>10. CASE AllBusy(r)
  <2>1. /\ job'[r].pc = "sleep" /\ job'[r].attempt = job[r].attempt
        /\ job'[r].busy /\ job'[r].allBusy = job[r].allBusy
        /\ job' \in [Records -> JobState]
    BY <1>10, <1>1 DEF AllBusy, Set, JobState
  <2>2. Hears(Row(r), Row(r)')
    BY <1>10, <2>1 DEF AllBusy, Hears, Same, Row, tables
  <2> QED
    BY <1>3, <1>4, <2>1, <2>2 DEF Works
<1>11. CASE Commit(r) \/ CommitUnacked(r)
  <2>1. /\ ~core[r] /\ core'[r] /\ raw'[r] = "cleared" /\ open'[r] = 0
        /\ job[r].pc = "persist"
    BY <1>11 DEF Commit, CommitUnacked, Write, TypeOK
  <2>2. \/ Step(r, "ok") /\ unacked'[r] = unacked[r]
        \/ Step(r, "unknown") /\ unacked'[r]
    BY <1>11 DEF Commit, CommitUnacked, TypeOK
  <2>3. \/ Step(r, "ok") /\ job'[r].pc = "ok" /\ unacked'[r] = unacked[r]
        \/ Step(r, "unknown") /\ job'[r].pc = "unknown" /\ unacked'[r]
    BY <2>2, <1>1 DEF Step, JobState
  <2>4. job' \in [Records -> JobState] /\ Goes(Row(r), Row(r)', job'[r].pc)
    BY <2>3, StepGoes
  <2>5. Writes(Row(r), Row(r)')
    BY <2>1, <2>3, <2>4 DEF Writes, Row
  <2> QED
    BY <1>3, <1>4, <2>4, <2>5 DEF Works
<1>12. CASE Abort(r) \/ RecordFails(r)
  <2>1. \/ job[r].pc = "persist" /\ Step(r, "unknown")
        \/ Recording(r) /\ Step(r, "no")
    BY <1>12 DEF Abort, RecordFails
  <2>2. \/ job[r].pc = "persist" /\ Step(r, "unknown") /\ job'[r].pc = "unknown"
        \/ Recording(r) /\ Step(r, "no") /\ job'[r].pc = "no"
    BY <2>1, <1>1 DEF Step, JobState
  <2>3. job' \in [Records -> JobState] /\ Goes(Row(r), Row(r)', job'[r].pc)
    BY <2>2, StepGoes
  <2>4. Same(Row(r), Row(r)')
    BY <1>12 DEF Abort, RecordFails, tables, Same, Row
  <2>5. Aborts(Row(r), Row(r)') \/ Forgets(Row(r), Row(r)')
    BY <2>2, <2>3, <2>4 DEF Aborts, Forgets, Recording, Row
  <2> QED
    BY <1>3, <1>4, <2>3, <2>5 DEF Works
<1>13. CASE RecordFailure(r)
  <2>1. AfterRecord(r) \in {"sleep", "no"} /\ job'[r].pc = AfterRecord(r)
    BY <1>13, <1>1 DEF RecordFailure, Step, AfterRecord, JobState
  <2>2. job' \in [Records -> JobState] /\ Goes(Row(r), Row(r)', job'[r].pc)
    BY <1>13, <2>1, StepGoes DEF RecordFailure
  <2>3. open'[r] = IF open[r] = 0 THEN job[r].attempt ELSE open[r] + 1
    BY <1>13 DEF RecordFailure, Upsert, TypeOK
  <2>4. Fails(Row(r), Row(r)')
    BY <1>13, <2>1, <2>2, <2>3 DEF RecordFailure, Recording, AfterRecord, Fails, Row
  <2> QED
    BY <1>3, <1>4, <2>2, <2>4 DEF Works
<1>14. Awake(r) => job[r].attempt < MaxAttempts \/ job[r].attempt = MaxAttempts
  BY DEF Awake
<1> QED
  BY <1>5, <1>6, <1>7, <1>8, <1>9, <1>10, <1>11, <1>12, <1>13, <1>14 DEF Work

\* The loop and the end of a process leave the tables alone; they queue rows
\* that wait, or end jobs.
LEMMA LoopMoves ==
    ASSUME TypeOK, Loop \/ Deplete \/ Crash \/ Run
    PROVE  /\ TypeOK'
           /\ UNCHANGED tables
           /\ \A r \in Records : \/ Queues(Row(r), Row(r)')
                                 \/ Drops(Row(r), Row(r)')
                                 \/ Rests(Row(r), Row(r)')
<1> USE SizeAssumption
<1>1. UNCHANGED tables
  BY DEF Loop, Check, Fetch, Gathered, Deplete, Crash, Run
<1>2. ASSUME NEW r \in Records PROVE Same(Row(r), Row(r)')
  BY <1>1 DEF tables, Same, Row
<1>3. NoJob \in JobState /\ NoJob.pc = "none" /\ NoJob.attempt = 0
  BY DEF NoJob, JobState
<1>4. Queued \in JobState /\ Queued.pc = "queued" /\ Queued.attempt = 0
  BY <1>3 DEF Queued, JobState
<1>5. /\ available' \in BOOLEAN /\ runs' \in 0 .. MaxRuns /\ resolves' = resolves
      /\ main' \in [pc : {"check", "fetch", "gather", "done"}, noProgress : Nat]
  <2>1. CASE Loop
    BY <2>1 DEF Loop, Check, Fetch, Gathered, TypeOK
  <2>2. CASE Deplete \/ Crash
    BY <2>2 DEF Deplete, Crash, TypeOK
  <2>3. CASE Run
    BY <2>3 DEF Run, TypeOK
  <2> QED
    BY <2>1, <2>2, <2>3
<1>6. ASSUME job' \in [Records -> JobState] PROVE TypeOK'
  BY <1>1, <1>5, <1>6 DEF TypeOK, tables
<1>7. CASE Fetch
  <2>1. PICK B \in SUBSET Pending : job' = [r \in Records |-> IF r \in B THEN Queued ELSE NoJob]
    BY <1>7 DEF Fetch
  <2>2. job' \in [Records -> JobState]
    BY <2>1, <1>3, <1>4
  <2>3. ASSUME NEW r \in Records PROVE Queues(Row(r), Row(r)') \/ Drops(Row(r), Row(r)')
    <3>1. (job'[r] = Queued /\ Waits(Row(r))) \/ job'[r] = NoJob
      BY <2>1 DEF Pending, Waits, Row
    <3> QED
      BY <3>1, <1>2, <1>3, <1>4 DEF Queues, Drops, Row
  <2> QED
    BY <1>1, <1>6, <2>2, <2>3
<1>8. CASE Gathered \/ Crash \/ Run
  <2>1. job' = [r \in Records |-> NoJob]
    BY <1>8 DEF Gathered, Crash, Run
  <2>2. job' \in [Records -> JobState]
    BY <2>1, <1>3
  <2>3. ASSUME NEW r \in Records PROVE Drops(Row(r), Row(r)')
    BY <2>1, <1>2, <1>3 DEF Drops, Row
  <2> QED
    BY <1>1, <1>6, <2>2, <2>3
<1>9. CASE Check \/ Deplete
  <2>1. job' = job
    BY <1>9 DEF Check, Deplete
  <2>2. ASSUME NEW r \in Records PROVE Rests(Row(r), Row(r)')
    BY <2>1, <1>2 DEF Rests, Row
  <2> QED
    BY <1>1, <1>6, <2>1, <2>2 DEF TypeOK
<1> QED
  BY <1>7, <1>8, <1>9 DEF Loop

\* A collector adds a row, an operator resolves a failure.
LEMMA TableMoves ==
    ASSUME TypeOK, NEW r \in Records, Collect(r) \/ Resolve(r)
    PROVE  /\ TypeOK' /\ UNCHANGED job
           /\ Adds(Row(r), Row(r)') \/ Resolves(Row(r), Row(r)')
           /\ \A q \in Records \ {r} : Rests(Row(q), Row(q)')
<1>1. CASE Collect(r)
  <2>1. raw' = [raw EXCEPT ![r] = "text"] /\ UNCHANGED <<core, open, unacked, job>>
    BY <1>1 DEF Collect
  <2>2. TypeOK'
    BY <1>1, <2>1 DEF Collect, TypeOK
  <2>3. raw'[r] = "text" /\ \A q \in Records \ {r} : raw'[q] = raw[q]
    BY <2>1 DEF TypeOK
  <2> QED
    BY <1>1, <2>1, <2>2, <2>3 DEF Collect, Adds, Rests, Same, Row
<1>2. CASE Resolve(r)
  <2>1. open' = [open EXCEPT ![r] = 0] /\ UNCHANGED <<raw, core, unacked, job>>
    BY <1>2 DEF Resolve
  <2>2. TypeOK'
    BY <1>2, <2>1, SizeAssumption DEF Resolve, TypeOK
  <2>3. open'[r] = 0 /\ \A q \in Records \ {r} : open'[q] = open[q]
    BY <2>1 DEF TypeOK
  <2> QED
    BY <1>2, <2>1, <2>2, <2>3 DEF Resolve, Resolves, Rests, Same, Row
<1> QED
  BY <1>1, <1>2

\* At most one row of the tables changes.
AtMostOne ==
    \/ \A q \in Records : Same(Row(q), Row(q)')
    \/ \E r \in Records : \A q \in Records \ {r} : Same(Row(q), Row(q)')

\* Every step of the process moves the rows.
LEMMA NextMoves ==
    ASSUME TypeOK, \A r \in Records : Counted(Row(r)), [Next]_vars
    PROVE  /\ TypeOK'
           /\ \A r \in Records : Moves(Row(r), Row(r)')
           /\ AtMostOne
<1>1. ASSUME NEW r \in Records, Work(r) \/ Collect(r) \/ Resolve(r)
      PROVE  /\ TypeOK'
             /\ \A q \in Records : Moves(Row(q), Row(q)')
             /\ AtMostOne
  <2>1. TypeOK'
    BY <1>1, WorkMoves, TableMoves
  <2>2. Moves(Row(r), Row(r)')
    BY <1>1, WorkMoves, TableMoves DEF Moves
  <2>3. \A q \in Records \ {r} : Rests(Row(q), Row(q)')
    BY <1>1, WorkMoves, TableMoves
  <2>4. \A q \in Records : Moves(Row(q), Row(q)')
    BY <2>2, <2>3 DEF Moves
  <2>5. AtMostOne
    BY <2>3 DEF AtMostOne, Rests
  <2> QED
    BY <2>1, <2>4, <2>5
<1>2. CASE Loop \/ Deplete \/ Crash \/ Run
  BY <1>2, LoopMoves DEF Moves, AtMostOne, Queues, Drops, Rests
<1>3. CASE UNCHANGED vars
  <2>1. TypeOK'
    BY <1>3 DEF vars, TypeOK
  <2>2. \A q \in Records : Rests(Row(q), Row(q)')
    BY <1>3 DEF vars, Rests, Same, Row
  <2> QED
    BY <2>1, <2>2 DEF Moves, AtMostOne, Rests
<1> QED
  BY <1>1, <1>2, <1>3 DEF Next

-----------------------------------------------------------------------------
(* The invariant of one process.                                           *)

\* A typed state has typed rows.
LEMMA RowsTyped ==
    ASSUME TypeOK, NEW r \in Records
    PROVE  RowType(Row(r))
  BY DEF TypeOK, RowType, Row

\* The invariant holds before the first run.
LEMMA InitEstablishesInvariant == Init => IndInv
<1> SUFFICES ASSUME Init PROVE IndInv
  OBVIOUS
<1>1. NoJob \in JobState /\ NoJob.pc = "none"
  BY SizeAssumption DEF NoJob, JobState
<1>2. TypeOK
  BY <1>1, SizeAssumption DEF Init, TypeOK
<1>3. ASSUME NEW r \in Records PROVE RowInv(Row(r))
  BY <1>1, SizeAssumption DEF Init, Row, RowInv, Counted, Sound, Reached, Agree,
     AtWork, Ended, Waits, AtQueued, AtCall, AtPersist, AtRecord, AtSleep, AtFinal,
     AtUnknown
<1> QED
  BY <1>2, <1>3 DEF IndInv

\* Every step keeps the invariant.
LEMMA NextKeepsInvariant == IndInv /\ [Next]_vars => IndInv'
<1> SUFFICES ASSUME IndInv, [Next]_vars PROVE IndInv'
  OBVIOUS
<1>1. /\ TypeOK'
      /\ \A r \in Records : Moves(Row(r), Row(r)')
  BY NextMoves DEF IndInv, RowInv
<1>2. ASSUME NEW r \in Records PROVE RowInv(Row(r))'
  <2>1. RowType(Row(r)) /\ RowType(Row(r)')
    BY <1>1, RowsTyped DEF IndInv, TypeOK, RowType, Row
  <2> QED
    BY <1>1, <2>1, MoveKeepsRow DEF IndInv
<1> QED
  BY <1>1, <1>2 DEF IndInv

\* The invariant holds in every reachable state.
LEMMA Inductive == Spec => []IndInv
  BY InitEstablishesInvariant, NextKeepsInvariant, PTL DEF Spec

-----------------------------------------------------------------------------
(* The theorems about states.                                              *)

\* The state has its type: no path through run_llm_record goes beyond
\* max_attempts.
THEOREM TypeCorrect == Spec => []TypeOK
<1>1. IndInv => TypeOK
  BY DEF IndInv
<1> QED
  BY <1>1, Inductive, PTL

\* Only a lost acknowledgement leaves a processed record among the open
\* failures of failure_tracker.
THEOREM FailedInCoreNeedsLostAck == Spec => []FailedInCoreOnlyIfUnacked
<1>1. IndInv => FailedInCoreOnlyIfUnacked
  BY DEF IndInv, FailedInCoreOnlyIfUnacked, RowInv, Agree, Row
<1> QED
  BY <1>1, Inductive, PTL

\* attempt_count of an open failure never exceeds the attempts of one job by
\* more than one, however many runs and resolutions there are.
THEOREM AttemptCountStaysBounded == Spec => []AttemptCountBounded
<1>1. IndInv => AttemptCountBounded
  BY DEF IndInv, AttemptCountBounded, RowInv, Agree, Row
<1> QED
  BY <1>1, Inductive, PTL

-----------------------------------------------------------------------------
(* The theorems about steps.                                               *)

\* Only record_failure raises the count of an open failure.
LEMMA CountRises ==
    ASSUME NEW v, NEW w, RowType(v), RowInv(v), Moves(v, w), w.open > v.open
    PROVE  Fails(v, w)
  BY DEF RowType, Moves, Works, Tries, GivesUp, Hears, Writes, Aborts, Forgets,
     Queues, Drops, Adds, Resolves, Rests, Same

\* A record all of whose attempts met busy providers is never recorded as
\* failed.
THEOREM TransientNeverRecorded == Spec => TransientIsNotRecorded
<1>1. ASSUME IndInv, [Next]_vars, NEW r \in Records, open'[r] > open[r]
      PROVE  ~job[r].allBusy
  <2>1. RowInv(Row(r)) /\ RowType(Row(r)) /\ Moves(Row(r), Row(r)')
    BY <1>1, NextMoves, RowsTyped DEF IndInv, RowInv
  <2>2. Row(r)'.open > Row(r).open
    BY <1>1 DEF Row
  <2>3. Fails(Row(r), Row(r)')
    BY <2>1, <2>2, CountRises
  <2>4. ~Row(r).job.allBusy
    BY <2>1, <2>3 DEF Fails, RowInv, Reached, AtRecord, AtUnknown, AtFinal
  <2> QED
    BY <2>4 DEF Row
<1>2. IndInv /\ [Next]_vars =>
        [\A r \in Records : open'[r] > open[r] => ~job[r].allBusy]_vars
  BY <1>1
<1> QED
  BY <1>2, Inductive, PTL DEF Spec, TransientIsNotRecorded

\* Only the start of a job and the end of a pause make a call.
LEMMA CallBegins ==
    ASSUME NEW v, NEW w, Moves(v, w), v.job.pc # "call", w.job.pc = "call"
    PROVE  Tries(v, w)
  BY DEF Moves, Works, GivesUp, Hears, Writes, Aborts, Fails, Forgets, Goes,
     Queues, Drops, Adds, Resolves, Rests

\* No call of the LLM is spent on a record that is done or failed.
THEOREM OnlyPendingTried == Spec => OnlyPendingIsTried
<1>1. ASSUME IndInv, [Next]_vars, NEW r \in Records,
             job[r].pc # "call", job'[r].pc = "call"
      PROVE  raw[r] = "text" /\ ~core[r] /\ open[r] = 0
  <2>1. RowInv(Row(r)) /\ Moves(Row(r), Row(r)')
    BY <1>1, NextMoves DEF IndInv, RowInv
  <2>2. Row(r).job.pc # "call" /\ Row(r)'.job.pc = "call"
    BY <1>1 DEF Row
  <2>3. Tries(Row(r), Row(r)')
    BY <2>1, <2>2, CallBegins
  <2>4. Row(r).job.attempt \in 0 .. MaxAttempts
    BY <1>1 DEF IndInv, TypeOK, JobState, Row
  <2>5. Waits(Row(r))
    BY <2>1, <2>3, <2>4, SizeAssumption DEF Tries, RowInv, Reached, AtQueued, AtSleep,
       Waits
  <2> QED
    BY <2>5 DEF Waits, Row
<1>2. IndInv /\ [Next]_vars =>
        [\A r \in Records :
            job[r].pc # "call" /\ job'[r].pc = "call" =>
                raw[r] = "text" /\ ~core[r] /\ open[r] = 0]_vars
  BY <1>1
<1> QED
  BY <1>2, Inductive, PTL DEF Spec, OnlyPendingIsTried

-----------------------------------------------------------------------------
(* The stage implements RecordLifecycle.                                   *)

status == [r \in Records |-> Status(r)]

\* The status of a row, and the moves of the life cycle.
RowStatus(v) ==
    IF v.core THEN "done"
    ELSE IF v.open > 0 THEN "failed"
    ELSE IF v.raw = "text" THEN "pending"
    ELSE "absent"

Turns(from, to) ==
    \/ to = from
    \/ from = "absent" /\ to = "pending"
    \/ from = "pending" /\ to \in {"done", "failed"}
    \/ from = "failed" /\ to = "pending"

\* A move of a row is a move of the life cycle, but that a process may finish
\* what another one gave up on.
LEMMA MoveTurns ==
    ASSUME NEW v, NEW w, RowType(v), RowType(w), Counted(v), Sound(v), Moves(v, w)
    PROVE  /\ \/ Turns(RowStatus(v), RowStatus(w))
              \/ RowStatus(v) = "failed" /\ RowStatus(w) = "done"
           /\ Reached(v) => Turns(RowStatus(v), RowStatus(w))
<1> USE SizeAssumption DEF RowType, Counted, Sound, AtWork, Ended, RowStatus, Turns
<1>1. v.job.attempt \in 0 .. MaxAttempts
  BY DEF JobState
<1>2. CASE Writes(v, w)
  BY <1>2 DEF Writes, Reached, AtPersist, Waits
<1>3. CASE Fails(v, w)
  BY <1>1, <1>3 DEF Fails
<1>4. CASE Tries(v, w) \/ GivesUp(v, w) \/ Hears(v, w) \/ Aborts(v, w) \/ Forgets(v, w)
  BY <1>4 DEF Tries, GivesUp, Hears, Aborts, Forgets, Same
<1>5. CASE Queues(v, w) \/ Drops(v, w) \/ Rests(v, w)
  BY <1>5 DEF Queues, Drops, Rests, Same
<1>6. CASE Adds(v, w) \/ Resolves(v, w)
  BY <1>6 DEF Adds, Resolves
<1> QED
  BY <1>2, <1>3, <1>4, <1>5, <1>6 DEF Moves, Works

\* The status is read off the row.
LEMMA StatusOfRow ==
    ASSUME NEW r
    PROVE  Status(r) = RowStatus(Row(r)) /\ Status(r)' = RowStatus(Row(r)')
  BY DEF Status, RowStatus, Row

\* A step that turns the status of one record at most is a step of the life
\* cycle, or one record is finished that was failed.
LEMMA TurnsOfLifecycle ==
    ASSUME AtMostOne,
           \A r \in Records : \/ Turns(Status(r), Status(r)')
                              \/ Status(r) = "failed" /\ Status(r)' = "done"
    PROVE  \/ Lifecycle!Next
           \/ UNCHANGED status
           \/ \E r \in Records :
                 /\ ~Turns(Status(r), Status(r)')
                 /\ Lifecycle!Becomes(r, "failed", "done")
<1>1. ASSUME NEW r \in Records, Same(Row(r), Row(r)') PROVE Status(r)' = Status(r)
  BY <1>1 DEF Same, Row, Status
<1>2. CASE \A r \in Records : Status(r)' = Status(r)
  BY <1>2 DEF status
<1>3. CASE ~\A r \in Records : Status(r)' = Status(r)
  <2>1. PICK r \in Records : \A q \in Records \ {r} : Status(q)' = Status(q)
    BY <1>1, <1>3 DEF AtMostOne
  <2>2. Status(r)' # Status(r)
    BY <1>3, <2>1
  <2>3. [q \in Records |-> Status(q)]' = [[q \in Records |-> Status(q)] EXCEPT ![r] = Status(r)']
    BY <2>1
  <2>4. ASSUME NEW from, NEW to, Status(r) = from, Status(r)' = to
        PROVE  Lifecycle!Becomes(r, from, to)
    BY <2>3, <2>4 DEF Lifecycle!Becomes
  <2>5. CASE Status(r) = "failed" /\ Status(r)' = "done"
    <3>1. ~Turns(Status(r), Status(r)')
      BY <2>5 DEF Turns
    <3> QED
      BY <2>4, <2>5, <3>1
  <2>6. CASE Turns(Status(r), Status(r)')
    <3>1. \/ Lifecycle!Becomes(r, "absent", "pending")
          \/ Lifecycle!Becomes(r, "pending", "done")
          \/ Lifecycle!Becomes(r, "pending", "failed")
          \/ Lifecycle!Becomes(r, "failed", "pending")
      BY <2>2, <2>4, <2>6 DEF Turns
    <3> QED
      BY <3>1 DEF Lifecycle!Next, Lifecycle!Collect, Lifecycle!Finish, Lifecycle!Fail,
         Lifecycle!Retry
  <2> QED
    BY <2>5, <2>6
<1> QED
  BY <1>2, <1>3

\* Every step of the stage is a step of the lifecycle or a stutter.
LEMMA NextImplementsLifecycle == IndInv /\ [Next]_vars => [Lifecycle!Next]_status
<1> SUFFICES ASSUME IndInv, [Next]_vars PROVE [Lifecycle!Next]_status
  OBVIOUS
<1>1. TypeOK' /\ AtMostOne /\ \A r \in Records : Moves(Row(r), Row(r)')
  BY NextMoves DEF IndInv, RowInv
<1>2. ASSUME NEW r \in Records PROVE Turns(Status(r), Status(r)')
  <2>1. RowType(Row(r)) /\ RowType(Row(r)') /\ RowInv(Row(r))
    BY <1>1, RowsTyped DEF IndInv, TypeOK, RowType, Row
  <2> QED
    BY <1>1, <2>1, MoveTurns, StatusOfRow DEF RowInv
<1> QED
  BY <1>1, <1>2, TurnsOfLifecycle

\* The drain loop with run_llm_record, over its three tables, keeps the
\* promise of RecordLifecycle: crashes, lost acknowledgements, failing
\* statements and resolutions never lose, repeat or revive a record.
THEOREM StageKeepsLifecycle == Spec => KeepsLifecycle
<1>1. Init => status = [r \in Records |-> "absent"]
  BY DEF Init, status, Status
<1>2. IndInv /\ [Next]_vars => [Lifecycle!Next]_status
  BY NextImplementsLifecycle
<1> QED
  BY <1>1, <1>2, Inductive, PTL DEF Spec, KeepsLifecycle, Lifecycle!Spec,
     Lifecycle!Init, status

-----------------------------------------------------------------------------
(* Batches.                                                                *)

NatLess == {pair \in Nat \X Nat : pair[1] < pair[2]}

\* The natural numbers have no infinite descent.
LEMMA NatLessWellFounded == IsWellFoundedOn(NatLess, Nat)
  BY NatLessThanWellFounded, Zenon DEF OpToRel, NatLess

\* Something has the least number.
LEMMA Smallest ==
    ASSUME NEW S, S # {}, NEW f \in [S -> Nat]
    PROVE  \E x \in S : \A y \in S : f[x] <= f[y]
<1> DEFINE Image == {f[x] : x \in S}
<1>1. Image \in SUBSET Nat /\ Image # {}
  OBVIOUS
<1> HIDE DEF Image
<1>2. PICK n \in Image : \A m \in Image : ~(<<m, n>> \in NatLess)
  BY <1>1, NatLessWellFounded, WFMin
<1>3. ASSUME NEW m \in Image PROVE n <= m
  <2>1. n \in Nat /\ m \in Nat
    BY <1>1
  <2>2. m < n => <<m, n>> \in NatLess
    BY <2>1 DEF NatLess
  <2> QED
    BY <1>2, <2>1, <2>2
<1>4. PICK x \in S : n = f[x]
  BY DEF Image
<1> QED
  BY <1>3, <1>4 DEF Image

\* The queue is finite.
LEMMA QueueFinite ==
    /\ IsFiniteSet(Pending) /\ Cardinality(Pending) \in Nat
    /\ Pending \in SUBSET Nat
    /\ \A S \in SUBSET Pending : IsFiniteSet(S) /\ Cardinality(S) \in Nat
<1>1. IsFiniteSet(Records)
  BY SizeAssumption, FS_Interval DEF Records
<1>2. Pending \in SUBSET Records
  BY DEF Pending
<1>3. IsFiniteSet(Pending)
  BY <1>1, <1>2, FS_Subset
<1>4. \A S \in SUBSET Pending : IsFiniteSet(S)
  BY <1>3, FS_Subset
<1> QED
  BY <1>2, <1>3, <1>4, FS_CardinalityType, SizeAssumption DEF Records

\* A smaller part of the queue has fewer records.
LEMMA Fewer ==
    ASSUME NEW S \in SUBSET Pending, NEW T \in SUBSET S
    PROVE  /\ Cardinality(T) <= Cardinality(S)
           /\ T # S => Cardinality(T) < Cardinality(S)
<1>1. S \in SUBSET Pending /\ T \in SUBSET Pending
  OBVIOUS
<1>2. /\ IsFiniteSet(S)
      /\ Cardinality(S) \in Nat /\ Cardinality(T) \in Nat
  BY <1>1, QueueFinite
<1>3. /\ Cardinality(T) <= Cardinality(S)
      /\ Cardinality(S) = Cardinality(T) => S = T
  BY <1>2, FS_Subset
<1> QED
  BY <1>2, <1>3

\* Row numbers rise within a source.
Older(r) == {q \in Pending : Source[q] = Source[r] /\ q <= r}

LEMMA RowNumberRises ==
    ASSUME NEW p \in Pending, NEW q \in Pending, Source[p] = Source[q], p < q
    PROVE  RowNumber(p) < RowNumber(q)
<1>1. p \in Nat /\ q \in Nat /\ \A x \in Pending : x \in Nat
  BY QueueFinite
<1>2. Older(p) \in SUBSET Older(q) /\ Older(q) \in SUBSET Pending
  <2>1. ASSUME NEW x \in Pending, Source[x] = Source[p], x <= p
        PROVE  Source[x] = Source[q] /\ x <= q
    BY <1>1, <2>1
  <2> QED
    BY <2>1 DEF Older
<1>3. q \in Older(q) /\ q \notin Older(p)
  BY <1>1 DEF Older
<1> QED
  BY <1>2, <1>3, Fewer DEF RowNumber, Older

\* The order of the batch query is a strict order of the whole queue.
LEMMA BeforeOrders ==
    ASSUME NEW p \in Pending, NEW q \in Pending, NEW r \in Pending
    PROVE  /\ ~Before(p, p)
           /\ Before(p, q) /\ Before(q, r) => Before(p, r)
           /\ p # q => Before(p, q) \/ Before(q, p)
<1>1. \A x \in Pending : RowNumber(x) \in Nat /\ Source[x] \in Nat /\ x \in Nat
  BY QueueFinite, SourceAssumption DEF RowNumber, Pending
<1>2. p # q => ~(Source[p] = Source[q] /\ RowNumber(p) = RowNumber(q))
  <2>1. p < q /\ Source[p] = Source[q] => RowNumber(p) < RowNumber(q)
    BY RowNumberRises
  <2>2. q < p /\ Source[p] = Source[q] => RowNumber(q) < RowNumber(p)
    BY RowNumberRises
  <2> QED
    BY <1>1, <2>1, <2>2
<1> QED
  BY <1>1, <1>2 DEF Before

\* What the query would return before a record.
Ahead(r) == {q \in Pending : Before(q, r)}

LEMMA AheadRises ==
    ASSUME NEW p \in Pending, NEW q \in Pending, Before(p, q)
    PROVE  Cardinality(Ahead(p)) < Cardinality(Ahead(q))
<1>1. Ahead(p) \in SUBSET Ahead(q) /\ Ahead(q) \in SUBSET Pending
  BY BeforeOrders DEF Ahead
<1>2. p \in Ahead(q) /\ p \notin Ahead(p)
  BY BeforeOrders DEF Ahead
<1> QED
  BY <1>1, <1>2, Fewer

\* A batch is a beginning of that order.
LEMMA BatchIsBeginning ==
    ASSUME NEW B, RoundRobin(B)
    PROVE  /\ B \in SUBSET Pending
           /\ \A r \in B, q \in Pending : Before(q, r) => q \in B
<1>1. B = {r \in Pending : Cardinality(Ahead(r)) < BatchLimit}
  BY DEF RoundRobin, Ahead
<1>2. \A r \in Pending : Cardinality(Ahead(r)) \in Nat
  BY QueueFinite DEF Ahead
<1>3. ASSUME NEW r \in B, NEW q \in Pending, Before(q, r)
      PROVE  q \in B
  BY <1>1, <1>2, <1>3, AheadRises, SizeAssumption
<1> QED
  BY <1>1, <1>3

\* It is full, or all there is.
LEMMA RoundRobinIsFull ==
    ASSUME NEW B, RoundRobin(B), B # Pending
    PROVE  Cardinality(B) = BatchLimit
<1>1. B = {r \in Pending : Cardinality(Ahead(r)) < BatchLimit}
  BY DEF RoundRobin, Ahead
<1>2. /\ \A r \in Pending : Cardinality(Ahead(r)) \in Nat
      /\ B \in SUBSET Pending
      /\ Cardinality(B) \in Nat /\ IsFiniteSet(B)
      /\ BatchLimit \in Nat
  BY <1>1, QueueFinite, SizeAssumption DEF Ahead
<1>3. Cardinality(B) >= BatchLimit
  <2> DEFINE Left == Pending \ B
             f == [r \in Left |-> Cardinality(Ahead(r))]
  <2>1. Left # {} /\ f \in [Left -> Nat]
    BY <1>2
  <2>2. PICK q \in Left : \A r \in Left : f[q] <= f[r]
    BY <2>1, Smallest
  <2>3. Ahead(q) \in SUBSET B
    <3>1. SUFFICES ASSUME NEW r \in Ahead(q), r \notin B PROVE FALSE
      OBVIOUS
    <3>2. r \in Left /\ Before(r, q)
      BY <3>1 DEF Ahead
    <3>3. Cardinality(Ahead(r)) < Cardinality(Ahead(q))
      BY <3>2, AheadRises
    <3> QED
      BY <1>2, <2>2, <3>2, <3>3
  <2>4. Cardinality(Ahead(q)) <= Cardinality(B)
    BY <1>2, <2>3, Fewer
  <2>5. ~(Cardinality(Ahead(q)) < BatchLimit)
    BY <1>1
  <2> QED
    BY <1>2, <2>4, <2>5
<1>4. Cardinality(B) <= BatchLimit
  <2>1. SUFFICES ASSUME Cardinality(B) > BatchLimit PROVE FALSE
    BY <1>2
  <2>2. B # {}
    BY <1>2, <2>1, FS_EmptySet
  <2> DEFINE f == [r \in B |-> BatchLimit - 1 - Cardinality(Ahead(r))]
  <2>3. f \in [B -> Nat]
    BY <1>1, <1>2
  <2>4. PICK r \in B : \A q \in B : f[r] <= f[q]
    BY <2>2, <2>3, Smallest
  <2>5. (B \ {r}) \in SUBSET Ahead(r)
    <3>1. ASSUME NEW q \in B \ {r} PROVE Before(q, r)
      <4>1. Before(r, q) => Cardinality(Ahead(r)) < Cardinality(Ahead(q))
        BY <1>2, AheadRises
      <4>2. ~(Cardinality(Ahead(r)) < Cardinality(Ahead(q)))
        BY <1>2, <2>4
      <4> QED
        BY <1>2, <4>1, <4>2, BeforeOrders
    <3> QED
      BY <1>2, <3>1 DEF Ahead
  <2>6. Cardinality(B \ {r}) <= Cardinality(Ahead(r))
    <3>1. Ahead(r) \in SUBSET Pending
      BY DEF Ahead
    <3> QED
      BY <2>5, <3>1, Fewer
  <2>7. Cardinality(B \ {r}) = Cardinality(B) - 1
    BY <1>2, FS_RemoveElement
  <2> QED
    BY <1>1, <1>2, <2>1, <2>6, <2>7
<1> QED
  BY <1>2, <1>3, <1>4

\* Of each source the oldest.
LEMMA OldestFirst ==
    ASSUME NEW B, RoundRobin(B), NEW r \in B, NEW q \in Pending \ B,
           Source[r] = Source[q]
    PROVE  r < q
<1>1. r \in Pending /\ r \in Nat /\ q \in Nat /\ r # q /\ ~Before(q, r)
  BY QueueFinite, BatchIsBeginning
<1>2. q < r => RowNumber(q) < RowNumber(r)
  BY <1>1, RowNumberRises
<1> QED
  BY <1>1, <1>2 DEF Before

\* The last record of a source in the batch has its share for a row number.
LEMMA LastOfShare ==
    ASSUME NEW B, RoundRobin(B), NEW r \in B
    PROVE  \E l \in B : RowNumber(l) = Share(B, Source[r])
<1> DEFINE Mine == {x \in B : Source[x] = Source[r]}
           f == [x \in Mine |-> N - x]
<1>1. /\ B \in SUBSET Pending /\ Mine # {}
      /\ \A x \in B : x \in Nat /\ x <= N
  BY BatchIsBeginning, SizeAssumption DEF Pending, Records
<1>2. f \in [Mine -> Nat]
  BY <1>1, SizeAssumption
<1>3. PICK l \in Mine : \A x \in Mine : f[l] <= f[x]
  BY <1>1, <1>2, Smallest
<1>4. \A x \in Mine : x <= l
  BY <1>1, <1>3, SizeAssumption
<1>5. Older(l) = Mine
  <2>1. ASSUME NEW x \in Older(l) PROVE x \in B
    <3>1. x \in Pending /\ Source[x] = Source[l] /\ x <= l /\ x \in Nat /\ l \in Nat
      BY <1>1, QueueFinite DEF Older
    <3> QED
      BY <3>1, OldestFirst
  <2> QED
    BY <1>1, <1>4, <2>1 DEF Older
<1> QED
  BY <1>5 DEF RowNumber, Older, Share

\* The first record of a source outside the batch has the next number.
LEMMA FirstLeft ==
    ASSUME NEW B, RoundRobin(B), NEW q \in Pending \ B
    PROVE  \E l \in Pending \ B : RowNumber(l) = Share(B, Source[q]) + 1
<1> DEFINE Mine == {x \in B : Source[x] = Source[q]}
           Left == {x \in Pending \ B : Source[x] = Source[q]}
           f == [x \in Left |-> x]
<1>1. B \in SUBSET Pending /\ Left # {} /\ \A x \in Pending : x \in Nat
  BY BatchIsBeginning, QueueFinite
<1>2. f \in [Left -> Nat]
  BY <1>1
<1>3. PICK l \in Left : \A x \in Left : f[l] <= f[x]
  BY <1>1, <1>2, Smallest
<1>4. Older(l) = Mine \cup {l}
  <2>1. ASSUME NEW x \in Mine PROVE x <= l
    BY <1>1, OldestFirst
  <2>2. ASSUME NEW x \in Older(l), x # l PROVE x \in Mine
    BY <1>1, <1>3, <2>2 DEF Older
  <2> QED
    BY <1>1, <2>1, <2>2 DEF Older
<1>5. Cardinality(Mine \cup {l}) = Cardinality(Mine) + 1
  <2>1. Mine \in SUBSET Pending /\ l \notin Mine
    BY <1>1
  <2> QED
    BY <2>1, QueueFinite, FS_AddElement
<1> QED
  BY <1>4, <1>5 DEF RowNumber, Older, Share

\* No source is ahead of one that is left behind by more than one record.
LEMMA EvenShares ==
    ASSUME NEW B, RoundRobin(B), NEW r \in B, NEW q \in Pending \ B
    PROVE  Share(B, Source[r]) <= Share(B, Source[q]) + 1
<1>1. PICK m \in B : RowNumber(m) = Share(B, Source[r])
  BY LastOfShare
<1>2. PICK l \in Pending \ B : RowNumber(l) = Share(B, Source[q]) + 1
  BY FirstLeft
<1>3. m \in Pending /\ ~Before(l, m)
  BY BatchIsBeginning
<1>4. RowNumber(m) \in Nat /\ RowNumber(l) \in Nat
  BY <1>3, QueueFinite DEF RowNumber
<1> QED
  BY <1>1, <1>2, <1>3, <1>4 DEF Before

\* The resumes of a batch are as many as there is room for, too.
LEMMA AnyOrderIsFull ==
    ASSUME NEW B, AnyOrder(B), B # Pending
    PROVE  Cardinality(B) = BatchLimit
<1>1. B \in SUBSET Pending
  BY DEF AnyOrder
<1>2. Cardinality(B) < Cardinality(Pending)
  BY <1>1, Fewer
<1> QED
  BY <1>1, <1>2, QueueFinite DEF AnyOrder

\* A batch of any kind takes all it has room for, and a batch of vacancies has
\* the same number of each source, as far as each has that many.
THEOREM BatchesAlwaysFair == Spec => BatchesAreFair
<1> DEFINE Taken == {r \in Records : InBatch(r)'}
<1>1. ASSUME Fetch PROVE Fair(Taken)
  <2>1. PICK B \in SUBSET Pending :
          /\ IsBatch(B)
          /\ job' = [r \in Records |-> IF r \in B THEN Queued ELSE NoJob]
    BY <1>1 DEF Fetch
  <2>2. Taken = B
    <3>1. B \in SUBSET Records
      BY DEF Pending
    <3>2. Queued.pc # "none" /\ NoJob.pc = "none"
      BY DEF Queued, NoJob
    <3> QED
      BY <2>1, <3>1, <3>2 DEF InBatch
  <2>3. B # Pending => Cardinality(B) = BatchLimit
    BY <2>1, RoundRobinIsFull, AnyOrderIsFull DEF IsBatch
  <2>4. ASSUME RecordType = "vacancy", NEW r \in B, NEW q \in Pending \ B
        PROVE  /\ Source[r] = Source[q] => r < q
               /\ Share(B, Source[r]) <= Share(B, Source[q]) + 1
    <3>1. RoundRobin(B)
      BY <2>1, <2>4 DEF IsBatch
    <3> QED
      BY <3>1, OldestFirst, EvenShares
  <2> QED
    BY <2>2, <2>3, <2>4 DEF Fair
<1>2. [Next]_vars => [Fetch => Fair(Taken)]_vars
  BY <1>1
<1> QED
  BY <1>2, PTL DEF Spec, BatchesAreFair

-----------------------------------------------------------------------------
\* The second process has the same rows and jobs.
LEMMA SecondNames ==
    /\ Second!Records = Records
    /\ Second!JobState = JobState
    /\ Second!tables = tables
  BY DEF Second!Records, Records, Second!JobState, JobState, Second!tables, tables

USE SecondNames

-----------------------------------------------------------------------------
(* The same of the second process: the moves are those of an instance of     *)
(* NlpDrain, of which the lemmas above cannot be cited.                      *)

\* An attempt starts, or finds no provider and leaves the row in the queue.
LEMMA AttemptMoves2 ==
    ASSUME Second!TypeOK, NEW r \in Records, job2[r].attempt < MaxAttempts,
           \/ job2[r].pc = "queued"
           \/ job2[r].pc = "sleep",
           Second!Attempt(r, job2[r]), UNCHANGED tables
    PROVE  job2' \in [Records -> JobState] /\ Tries(Row2(r), Row2(r)')
<1>1. job2[r] \in JobState /\ job2 \in [Records -> JobState]
  BY DEF Second!TypeOK
<1>2. job2[r].attempt \in Nat /\ job2[r].attempt + 1 \in 0 .. MaxAttempts
  BY <1>1, SizeAssumption DEF JobState
<1>3. CASE available2
  <2>1. job2' = [job2 EXCEPT ![r] = [job2[r] EXCEPT !.pc = "call", !.attempt = @ + 1]]
    BY <1>3 DEF Second!Attempt, Second!Set
  <2>2. /\ job2'[r].pc = "call" /\ job2'[r].attempt = job2[r].attempt + 1
        /\ job2'[r].busy = job2[r].busy /\ job2'[r].allBusy = job2[r].allBusy
        /\ job2' \in [Records -> JobState]
    BY <2>1, <1>1, <1>2 DEF JobState
  <2> QED
    BY <2>2 DEF Tries, Same, Row, Row2, Second!tables, tables
<1>4. CASE ~available2
  <2>1. job2' = [job2 EXCEPT ![r] = [job2[r] EXCEPT !.pc = "no"]]
    BY <1>4 DEF Second!Attempt, Second!Set
  <2>2. /\ job2'[r].pc = "no" /\ job2'[r].attempt = job2[r].attempt
        /\ job2'[r].busy = job2[r].busy /\ job2'[r].allBusy = job2[r].allBusy
        /\ job2' \in [Records -> JobState]
    BY <2>1, <1>1 DEF JobState
  <2> QED
    BY <2>2 DEF Tries, Goes, Same, Row, Row2, Second!tables, tables
<1> QED
  BY <1>3, <1>4

\* A coroutine goes on to another place.
LEMMA StepGoes2 ==
    ASSUME Second!TypeOK, NEW r \in Records, Second!Step(r, job2'[r].pc),
           job2'[r].pc \in {"persist", "record", "unknown", "final", "sleep", "ok", "no"}
    PROVE  job2' \in [Records -> JobState] /\ Goes(Row2(r), Row2(r)', job2'[r].pc)
<1>1. job2[r] \in JobState /\ job2 \in [Records -> JobState]
  BY DEF Second!TypeOK
<1>2. PICK pc \in {"persist", "record", "unknown", "final", "sleep", "ok", "no"} :
        pc = job2'[r].pc
  OBVIOUS
<1>3. job2' = [job2 EXCEPT ![r].pc = pc]
  BY <1>2 DEF Second!Step
<1>4. /\ job2'[r].attempt = job2[r].attempt /\ job2'[r].busy = job2[r].busy
      /\ job2'[r].allBusy = job2[r].allBusy /\ job2' \in [Records -> JobState]
  BY <1>1, <1>3 DEF JobState
<1> QED
  BY <1>4 DEF Goes, Row, Row2

\* A coroutine moves its row and no other one.
LEMMA WorkMoves2 ==
    ASSUME Second!TypeOK, NEW r \in Records, Counted(Row2(r)), Second!Work(r)
    PROVE  /\ Second!TypeOK'
           /\ Works(Row2(r), Row2(r)')
           /\ \A q \in Records \ {r} : Rests(Row2(q), Row2(q)')
<1> USE SizeAssumption
<1>1. job2[r] \in JobState /\ job2 \in [Records -> JobState] /\ open[r] \in Nat
  BY DEF Second!TypeOK
<1>2. job2[r].attempt \in 0 .. MaxAttempts
  BY <1>1 DEF JobState
<1>3. ASSUME job2' \in [Records -> JobState]
      PROVE  Second!TypeOK'
  <2>1. UNCHANGED <<available2, main2, runs2, resolves>>
    BY DEF Second!Work, Second!Start, Second!Valid, Second!Invalid, Second!Unknown,
       Second!AllBusy, Second!Awake, Second!Commit, Second!CommitUnacked,
       Second!Abort, Second!RecordFailure, Second!RecordFails
  <2>2. /\ raw' = raw \/ raw' = [raw EXCEPT ![r] = "cleared"]
        /\ core' = core \/ core' = [core EXCEPT ![r] = TRUE]
        /\ unacked' = unacked \/ unacked' = [unacked EXCEPT ![r] = TRUE]
    BY DEF Second!Work, Second!Start, Second!Valid, Second!Invalid, Second!Unknown,
       Second!AllBusy, Second!Awake, Second!Commit, Second!CommitUnacked,
       Second!Abort, Second!RecordFailure, Second!RecordFails, Second!Write,
       Second!tables, tables
  <2>3. \/ open' = open \/ open' = [open EXCEPT ![r] = 0]
        \/ open' = [open EXCEPT ![r] = IF @ = 0 THEN job2[r].attempt ELSE @ + 1]
    BY DEF Second!Work, Second!Start, Second!Valid, Second!Invalid, Second!Unknown,
       Second!AllBusy, Second!Awake, Second!Commit, Second!CommitUnacked,
       Second!Abort, Second!RecordFailure, Second!RecordFails, Second!Write,
       Second!Upsert, Second!tables, tables
  <2>4. open' \in [Records -> Nat]
    BY <2>3, <1>1, <1>2 DEF Second!TypeOK
  <2>5. /\ raw' \in [Records -> {"absent", "text", "cleared"}]
        /\ core' \in [Records -> BOOLEAN]
        /\ unacked' \in [Records -> BOOLEAN]
    BY <2>2 DEF Second!TypeOK
  <2> QED
    BY <1>3, <2>1, <2>4, <2>5 DEF Second!TypeOK
<1>4. ASSUME NEW q \in Records \ {r} PROVE Rests(Row2(q), Row2(q)')
  <2>1. job2' = [job2 EXCEPT ![r] = job2'[r]]
    BY DEF Second!Work, Second!Start, Second!Valid, Second!Invalid, Second!Unknown,
       Second!AllBusy, Second!Awake, Second!Commit, Second!CommitUnacked,
       Second!Abort, Second!RecordFailure, Second!RecordFails, Second!Attempt,
       Second!Set, Second!Step, Second!TypeOK
  <2>2. job2'[q] = job2[q]
    BY <2>1 DEF Second!TypeOK
  <2>3. raw'[q] = raw[q] /\ core'[q] = core[q] /\ open'[q] = open[q] /\ unacked'[q] = unacked[q]
    BY DEF Second!Work, Second!Start, Second!Valid, Second!Invalid, Second!Unknown,
       Second!AllBusy, Second!Awake, Second!Commit, Second!CommitUnacked,
       Second!Abort, Second!RecordFailure, Second!RecordFails, Second!Write,
       Second!Upsert, Second!tables, tables, Second!TypeOK
  <2> QED
    BY <2>2, <2>3 DEF Rests, Same, Row, Row2
<1>5. CASE Second!Start(r)
  <2>1. job2[r].attempt < MaxAttempts
    BY <1>5 DEF Second!Start, Counted, Row, Row2
  <2>2. job2' \in [Records -> JobState] /\ Tries(Row2(r), Row2(r)')
    BY <1>5, <2>1, AttemptMoves2 DEF Second!Start, Second!tables, tables
  <2> QED
    BY <1>3, <1>4, <2>2 DEF Works
<1>6. CASE Second!Awake(r) /\ job2[r].attempt < MaxAttempts
  <2>1. Second!Attempt(r, job2[r])
    BY <1>6, <1>2 DEF Second!Awake
  <2>2. job2' \in [Records -> JobState] /\ Tries(Row2(r), Row2(r)')
    BY <1>6, <2>1, AttemptMoves2 DEF Second!Awake, Second!tables, tables
  <2> QED
    BY <1>3, <1>4, <2>2 DEF Works
<1>7. CASE Second!Awake(r) /\ job2[r].attempt = MaxAttempts
  <2>1. Second!Step(r, IF job2[r].busy THEN "no" ELSE "final")
    BY <1>7 DEF Second!Awake
  <2>2. job2'[r].pc = IF job2[r].busy THEN "no" ELSE "final"
    BY <2>1, <1>1 DEF Second!Step, JobState
  <2>3. job2' \in [Records -> JobState] /\ Goes(Row2(r), Row2(r)', job2'[r].pc)
    BY <2>1, <2>2, StepGoes2
  <2>4. GivesUp(Row2(r), Row2(r)')
    BY <1>7, <2>2, <2>3 DEF Second!Awake, GivesUp, Same, Row, Row2, Second!tables,
       tables
  <2> QED
    BY <1>3, <1>4, <2>3, <2>4 DEF Works
<1>8. CASE Second!Valid(r) \/ Second!Unknown(r)
  <2>1. PICK pc \in {"persist", "unknown"} :
          job2' = [job2 EXCEPT ![r] = [job2[r] EXCEPT !.pc = pc, !.allBusy = FALSE]]
    BY <1>8 DEF Second!Valid, Second!Unknown, Second!Set
  <2>2. /\ job2'[r].pc = pc /\ job2'[r].attempt = job2[r].attempt
        /\ job2'[r].busy = job2[r].busy /\ ~job2'[r].allBusy
        /\ job2' \in [Records -> JobState]
    BY <2>1, <1>1 DEF JobState
  <2>3. Hears(Row2(r), Row2(r)')
    BY <1>8, <2>2 DEF Second!Valid, Second!Unknown, Hears, Same, Row, Row2,
       Second!tables, tables
  <2> QED
    BY <1>3, <1>4, <2>2, <2>3 DEF Works
<1>9. CASE Second!Invalid(r)
  <2>1. /\ job2'[r].pc = IF job2[r].attempt = MaxAttempts THEN "record" ELSE "sleep"
        /\ job2'[r].attempt = job2[r].attempt /\ ~job2'[r].busy /\ ~job2'[r].allBusy
        /\ job2' \in [Records -> JobState]
    BY <1>9, <1>1 DEF Second!Invalid, Second!Set, JobState
  <2>2. Hears(Row2(r), Row2(r)')
    BY <1>9, <2>1 DEF Second!Invalid, Hears, Same, Row, Row2, Second!tables, tables
  <2> QED
    BY <1>3, <1>4, <2>1, <2>2 DEF Works
<1>10. CASE Second!AllBusy(r)
  <2>1. /\ job2'[r].pc = "sleep" /\ job2'[r].attempt = job2[r].attempt
        /\ job2'[r].busy /\ job2'[r].allBusy = job2[r].allBusy
        /\ job2' \in [Records -> JobState]
    BY <1>10, <1>1 DEF Second!AllBusy, Second!Set, JobState
  <2>2. Hears(Row2(r), Row2(r)')
    BY <1>10, <2>1 DEF Second!AllBusy, Hears, Same, Row, Row2, Second!tables, tables
  <2> QED
    BY <1>3, <1>4, <2>1, <2>2 DEF Works
<1>11. CASE Second!Commit(r) \/ Second!CommitUnacked(r)
  <2>1. /\ ~core[r] /\ core'[r] /\ raw'[r] = "cleared" /\ open'[r] = 0
        /\ job2[r].pc = "persist"
    BY <1>11 DEF Second!Commit, Second!CommitUnacked, Second!Write, Second!TypeOK
  <2>2. \/ Second!Step(r, "ok") /\ unacked'[r] = unacked[r]
        \/ Second!Step(r, "unknown") /\ unacked'[r]
    BY <1>11 DEF Second!Commit, Second!CommitUnacked, Second!TypeOK
  <2>3. \/ Second!Step(r, "ok") /\ job2'[r].pc = "ok" /\ unacked'[r] = unacked[r]
        \/ Second!Step(r, "unknown") /\ job2'[r].pc = "unknown" /\ unacked'[r]
    BY <2>2, <1>1 DEF Second!Step, JobState
  <2>4. job2' \in [Records -> JobState] /\ Goes(Row2(r), Row2(r)', job2'[r].pc)
    BY <2>3, StepGoes2
  <2>5. Writes(Row2(r), Row2(r)')
    BY <2>1, <2>3, <2>4 DEF Writes, Row, Row2
  <2> QED
    BY <1>3, <1>4, <2>4, <2>5 DEF Works
<1>12. CASE Second!Abort(r) \/ Second!RecordFails(r)
  <2>1. \/ job2[r].pc = "persist" /\ Second!Step(r, "unknown")
        \/ Second!Recording(r) /\ Second!Step(r, "no")
    BY <1>12 DEF Second!Abort, Second!RecordFails
  <2>2. \/ job2[r].pc = "persist" /\ Second!Step(r, "unknown") /\ job2'[r].pc = "unknown"
        \/ Second!Recording(r) /\ Second!Step(r, "no") /\ job2'[r].pc = "no"
    BY <2>1, <1>1 DEF Second!Step, JobState
  <2>3. job2' \in [Records -> JobState] /\ Goes(Row2(r), Row2(r)', job2'[r].pc)
    BY <2>2, StepGoes2
  <2>4. Same(Row2(r), Row2(r)')
    BY <1>12 DEF Second!Abort, Second!RecordFails, Second!tables, tables, Same, Row,
       Row2
  <2>5. Aborts(Row2(r), Row2(r)') \/ Forgets(Row2(r), Row2(r)')
    BY <2>2, <2>3, <2>4 DEF Aborts, Forgets, Second!Recording, Row, Row2
  <2> QED
    BY <1>3, <1>4, <2>3, <2>5 DEF Works
<1>13. CASE Second!RecordFailure(r)
  <2>1. Second!AfterRecord(r) \in {"sleep", "no"} /\ job2'[r].pc = Second!AfterRecord(r)
    BY <1>13, <1>1 DEF Second!RecordFailure, Second!Step, Second!AfterRecord, JobState
  <2>2. job2' \in [Records -> JobState] /\ Goes(Row2(r), Row2(r)', job2'[r].pc)
    BY <1>13, <2>1, StepGoes2 DEF Second!RecordFailure
  <2>3. open'[r] = IF open[r] = 0 THEN job2[r].attempt ELSE open[r] + 1
    BY <1>13 DEF Second!RecordFailure, Second!Upsert, Second!TypeOK
  <2>4. Fails(Row2(r), Row2(r)')
    BY <1>13, <2>1, <2>2, <2>3 DEF Second!RecordFailure, Second!Recording,
       Second!AfterRecord, Fails, Row, Row2
  <2> QED
    BY <1>3, <1>4, <2>2, <2>4 DEF Works
<1>14. Second!Awake(r) => job2[r].attempt < MaxAttempts \/ job2[r].attempt = MaxAttempts
  BY DEF Second!Awake
<1> QED
  BY <1>5, <1>6, <1>7, <1>8, <1>9, <1>10, <1>11, <1>12, <1>13, <1>14 DEF Second!Work

\* The loop and the end of a process leave the tables alone; they queue rows
\* that wait, or end jobs.
LEMMA LoopMoves2 ==
    ASSUME Second!TypeOK, Second!Loop \/ Second!Deplete \/ Second!Crash \/ Second!Run
    PROVE  /\ Second!TypeOK'
           /\ UNCHANGED tables
           /\ \A r \in Records : \/ Queues(Row2(r), Row2(r)')
                                 \/ Drops(Row2(r), Row2(r)')
                                 \/ Rests(Row2(r), Row2(r)')
<1> USE SizeAssumption
<1>1. UNCHANGED tables
  BY DEF Second!Loop, Second!Check, Second!Fetch, Second!Gathered, Second!Deplete,
     Second!Crash, Second!Run, Second!tables, tables
<1>2. ASSUME NEW r \in Records PROVE Same(Row2(r), Row2(r)')
  BY <1>1 DEF Second!tables, tables, Same, Row, Row2
<1>3. Second!NoJob \in JobState /\ Second!NoJob.pc = "none" /\ Second!NoJob.attempt = 0
  BY DEF Second!NoJob, JobState
<1>4. Second!Queued \in JobState /\ Second!Queued.pc = "queued" /\ Second!Queued.attempt = 0
  BY <1>3 DEF Second!Queued, JobState
<1>5. /\ available2' \in BOOLEAN /\ runs2' \in 0 .. MaxRuns /\ resolves' = resolves
      /\ main2' \in [pc : {"check", "fetch", "gather", "done"}, noProgress : Nat]
  <2>1. CASE Second!Loop
    BY <2>1 DEF Second!Loop, Second!Check, Second!Fetch, Second!Gathered, Second!TypeOK
  <2>2. CASE Second!Deplete \/ Second!Crash
    BY <2>2 DEF Second!Deplete, Second!Crash, Second!TypeOK
  <2>3. CASE Second!Run
    BY <2>3 DEF Second!Run, Second!TypeOK
  <2> QED
    BY <2>1, <2>2, <2>3
<1>6. ASSUME job2' \in [Records -> JobState] PROVE Second!TypeOK'
  BY <1>1, <1>5, <1>6 DEF Second!TypeOK, Second!tables, tables
<1>7. CASE Second!Fetch
  <2>1. PICK B \in SUBSET Second!Pending : job2' = [r \in Records |-> IF r \in B THEN Second!Queued ELSE Second!NoJob]
    BY <1>7 DEF Second!Fetch
  <2>2. job2' \in [Records -> JobState]
    BY <2>1, <1>3, <1>4
  <2>3. ASSUME NEW r \in Records PROVE Queues(Row2(r), Row2(r)') \/ Drops(Row2(r), Row2(r)')
    <3>1. (job2'[r] = Second!Queued /\ Waits(Row2(r))) \/ job2'[r] = Second!NoJob
      BY <2>1 DEF Second!Pending, Waits, Row, Row2
    <3> QED
      BY <3>1, <1>2, <1>3, <1>4 DEF Queues, Drops, Row, Row2
  <2> QED
    BY <1>1, <1>6, <2>2, <2>3
<1>8. CASE Second!Gathered \/ Second!Crash \/ Second!Run
  <2>1. job2' = [r \in Records |-> Second!NoJob]
    BY <1>8 DEF Second!Gathered, Second!Crash, Second!Run
  <2>2. job2' \in [Records -> JobState]
    BY <2>1, <1>3
  <2>3. ASSUME NEW r \in Records PROVE Drops(Row2(r), Row2(r)')
    BY <2>1, <1>2, <1>3 DEF Drops, Row, Row2
  <2> QED
    BY <1>1, <1>6, <2>2, <2>3
<1>9. CASE Second!Check \/ Second!Deplete
  <2>1. job2' = job2
    BY <1>9 DEF Second!Check, Second!Deplete
  <2>2. ASSUME NEW r \in Records PROVE Rests(Row2(r), Row2(r)')
    BY <2>1, <1>2 DEF Rests, Row, Row2
  <2> QED
    BY <1>1, <1>6, <2>1, <2>2 DEF Second!TypeOK
<1> QED
  BY <1>7, <1>8, <1>9 DEF Second!Loop

\* A collector adds a row, an operator resolves a failure.
LEMMA TableMoves2 ==
    ASSUME Second!TypeOK, NEW r \in Records, Second!Collect(r) \/ Second!Resolve(r)
    PROVE  /\ Second!TypeOK' /\ UNCHANGED job2
           /\ Adds(Row2(r), Row2(r)') \/ Resolves(Row2(r), Row2(r)')
           /\ \A q \in Records \ {r} : Rests(Row2(q), Row2(q)')
<1>1. CASE Second!Collect(r)
  <2>1. raw' = [raw EXCEPT ![r] = "text"] /\ UNCHANGED <<core, open, unacked, job2>>
    BY <1>1 DEF Second!Collect
  <2>2. Second!TypeOK'
    BY <1>1, <2>1 DEF Second!Collect, Second!TypeOK
  <2>3. raw'[r] = "text" /\ \A q \in Records \ {r} : raw'[q] = raw[q]
    BY <2>1 DEF Second!TypeOK
  <2> QED
    BY <1>1, <2>1, <2>2, <2>3 DEF Second!Collect, Adds, Rests, Same, Row, Row2
<1>2. CASE Second!Resolve(r)
  <2>1. open' = [open EXCEPT ![r] = 0] /\ UNCHANGED <<raw, core, unacked, job2>>
    BY <1>2 DEF Second!Resolve
  <2>2. Second!TypeOK'
    BY <1>2, <2>1, SizeAssumption DEF Second!Resolve, Second!TypeOK
  <2>3. open'[r] = 0 /\ \A q \in Records \ {r} : open'[q] = open[q]
    BY <2>1 DEF Second!TypeOK
  <2> QED
    BY <1>2, <2>1, <2>2, <2>3 DEF Second!Resolve, Resolves, Rests, Same, Row, Row2
<1> QED
  BY <1>1, <1>2

\* Every step of the process moves the rows.
LEMMA NextMoves2 ==
    ASSUME Second!TypeOK, \A r \in Records : Counted(Row2(r)), Second!Next
    PROVE  /\ Second!TypeOK'
           /\ \A r \in Records : Moves(Row2(r), Row2(r)')
           /\ AtMostOne
<1>1. ASSUME NEW r \in Records, Second!Work(r) \/ Second!Collect(r) \/ Second!Resolve(r)
      PROVE  /\ Second!TypeOK'
             /\ \A q \in Records : Moves(Row2(q), Row2(q)')
             /\ AtMostOne
  <2>1. Second!TypeOK'
    BY <1>1, WorkMoves2, TableMoves2
  <2>2. Moves(Row2(r), Row2(r)')
    BY <1>1, WorkMoves2, TableMoves2 DEF Moves
  <2>3. \A q \in Records \ {r} : Rests(Row2(q), Row2(q)')
    BY <1>1, WorkMoves2, TableMoves2
  <2>4. \A q \in Records : Moves(Row2(q), Row2(q)')
    BY <2>2, <2>3 DEF Moves
  <2>5. AtMostOne
    BY <2>3 DEF AtMostOne, Rests, Same, Row, Row2
  <2> QED
    BY <2>1, <2>4, <2>5
<1>2. CASE Second!Loop \/ Second!Deplete \/ Second!Crash \/ Second!Run
  BY <1>2, LoopMoves2 DEF Moves, AtMostOne, Queues, Drops, Rests, Same, Row, Row2
<1> QED
  BY <1>1, <1>2 DEF Second!Next, Second!Records, Records

-----------------------------------------------------------------------------
(* The invariant of two processes.                                         *)

\* What holds of a row whoever writes it; and a row the two have never had in
\* their batches at once is as each of them left it.
Shareable(r) ==
    /\ Counted(Row(r)) /\ Sound(Row(r))
    /\ Counted(Row2(r)) /\ Sound(Row2(r))
    /\ ~shared[r] =>
         /\ ~(AtWork(job[r]) /\ AtWork(job2[r]))
         /\ RowInv(Row(r))
         /\ RowInv(Row2(r))

BothInv ==
    /\ TypeOK
    /\ Second!TypeOK
    /\ shared \in [Records -> BOOLEAN]
    /\ \A r \in Records : Shareable(r)

\* The rows of the second process are typed.
LEMMA RowsTyped2 ==
    ASSUME Second!TypeOK, NEW r \in Records
    PROVE  RowType(Row2(r))
  BY DEF Second!TypeOK, RowType, Row, Row2

\* A move of one process keeps the other one's view of the row.
LEMMA OtherKeepsSound ==
    ASSUME NEW v, NEW w, NEW u, NEW x, RowType(v),
           Same(v, u), Same(w, x), x.job = u.job,
           Counted(w), Sound(w), Counted(u), Sound(u), Moves(v, w)
    PROVE  Counted(x) /\ Sound(x)
<1>1. w.raw = "absent" => v.raw = "absent"
  BY DEF Moves, Works, Tries, GivesUp, Hears, Writes, Aborts, Fails, Forgets,
     Queues, Drops, Adds, Resolves, Rests, Same
<1> QED
  BY <1>1 DEF Counted, Sound, Same

\* If they have not got it at the same time, it is left as the other one left it.
LEMMA OtherKeepsRow ==
    ASSUME NEW v, NEW w, NEW u, NEW x, RowType(v), RowType(w), RowType(u), RowType(x),
           Same(v, u), Same(w, x), x.job = u.job,
           RowInv(v), RowInv(w), RowInv(u), Moves(v, w),
           ~(AtWork(v.job) /\ AtWork(u.job))
    PROVE  RowInv(x)
<1>1. Counted(x) /\ Sound(x)
  BY OtherKeepsSound DEF RowInv
<1>2. Agree(x)
  BY DEF RowInv, Agree, Same
<1>3. Reached(x)
  <2>1. CASE ~AtWork(u.job)
    BY <2>1 DEF Reached, AtWork, Ended, AtQueued, AtCall, AtPersist, AtRecord, AtSleep,
       AtFinal, AtUnknown
  <2>2. CASE Works(v, w)
    <3>1. AtWork(v.job)
      BY <2>2 DEF Works, Tries, GivesUp, Hears, Writes, Aborts, Fails, Forgets,
         AtWork, Ended
    <3> QED
      BY <2>1, <3>1
  <2>3. CASE Queues(v, w) \/ Drops(v, w) \/ Rests(v, w)
    BY <2>3 DEF Queues, Drops, Rests, Same, RowInv, Reached, Waits, AtQueued, AtCall,
       AtPersist, AtRecord, AtSleep, AtFinal, AtUnknown
  <2>4. CASE Adds(v, w) /\ AtWork(u.job)
    BY <2>4 DEF Adds, Same, RowInv, Sound
  <2>5. CASE Resolves(v, w)
    BY <2>5, SizeAssumption DEF Resolves, Same, RowInv, Reached, Waits, AtQueued,
       AtCall, AtPersist, AtRecord, AtSleep, AtFinal, AtUnknown
  <2> QED
    BY <2>1, <2>2, <2>3, <2>4, <2>5 DEF Moves
<1> QED
  BY <1>1, <1>2, <1>3 DEF RowInv

\* Both start apart.
LEMMA BothInitEstablishes == BothInit => BothInv
<1> SUFFICES ASSUME BothInit PROVE BothInv
  OBVIOUS
<1>1. IndInv
  BY InitEstablishesInvariant DEF BothInit
<1>2. NoJob \in JobState /\ NoJob.pc = "none"
  BY SizeAssumption DEF NoJob, JobState
<1>3. job2 = [r \in Records |-> NoJob]
  BY DEF BothInit, Second!Init, Second!NoJob, NoJob
<1>4. /\ available2 = TRUE /\ runs2 = 0
      /\ main2 = [pc |-> "done", noProgress |-> 0]
  BY DEF BothInit, Second!Init
<1>5. Second!TypeOK
  BY <1>1, <1>2, <1>3, <1>4, SizeAssumption DEF IndInv, TypeOK, Second!TypeOK
<1>6. ASSUME NEW r \in Records PROVE Shareable(r)
  <2>1. ~AtWork(job2[r]) /\ ~shared[r]
    BY <1>2, <1>3 DEF AtWork, Ended, BothInit
  <2>2. RowInv(Row(r))
    BY <1>1 DEF IndInv
  <2>3. RowInv(Row2(r))
    BY <2>1, <2>2 DEF Row, Row2, RowInv, Counted, Sound, Reached, Agree, AtWork, Ended,
       AtQueued, AtCall, AtPersist, AtRecord, AtSleep, AtFinal, AtUnknown
  <2> QED
    BY <2>1, <2>2, <2>3 DEF Shareable, RowInv
<1> QED
  BY <1>1, <1>5, <1>6 DEF BothInv, IndInv, BothInit

\* What a step of either process does to the rows, as both see them.
BothMove ==
    \/ /\ \A r \in Records : Moves(Row(r), Row(r)')
       /\ UNCHANGED job2
    \/ /\ \A r \in Records : Moves(Row2(r), Row2(r)')
       /\ UNCHANGED job

\* Every step of the two moves the rows.
LEMMA BothNextMoves ==
    ASSUME BothInv, BothNext
    PROVE  TypeOK' /\ Second!TypeOK' /\ BothMove /\ AtMostOne /\ Note
<1>1. CASE Next /\ UNCHANGED own2 /\ Note
  <2>1. TypeOK' /\ AtMostOne /\ \A r \in Records : Moves(Row(r), Row(r)')
    BY <1>1, NextMoves DEF BothInv, Shareable
  <2>2. Second!TypeOK'
    BY <1>1, <2>1 DEF own2, BothInv, TypeOK, Second!TypeOK
  <2> QED
    BY <1>1, <2>1, <2>2 DEF BothMove, own2
<1>2. CASE Second!Next /\ UNCHANGED own1 /\ Note
  <2>1. Second!TypeOK' /\ AtMostOne /\ \A r \in Records : Moves(Row2(r), Row2(r)')
    BY <1>2, NextMoves2 DEF BothInv, Shareable
  <2>2. TypeOK'
    BY <1>2, <2>1 DEF own1, BothInv, TypeOK, Second!TypeOK
  <2> QED
    BY <1>2, <2>1, <2>2 DEF BothMove, own1
<1> QED
  BY <1>1, <1>2 DEF BothNext

\* Every step of the two keeps the invariant.
LEMMA BothNextKeeps == BothInv /\ [BothNext]_bothVars => BothInv'
<1> SUFFICES ASSUME BothInv, [BothNext]_bothVars PROVE BothInv'
  OBVIOUS
<1>1. CASE BothNext
  <2>1. TypeOK' /\ Second!TypeOK' /\ BothMove /\ Note
    BY <1>1, BothNextMoves
  <2>2. shared' \in [Records -> BOOLEAN]
    BY <2>1 DEF Note, BothInv, AtWork
  <2>3. ASSUME NEW r \in Records PROVE Shareable(r)'
    <3>1. /\ RowType(Row(r)) /\ RowType(Row2(r))
          /\ Same(Row(r), Row2(r)) /\ Same(Row2(r), Row(r))
      BY RowsTyped, RowsTyped2 DEF BothInv, Same, Row, Row2
    <3>2. /\ RowType(Row(r)') /\ RowType(Row2(r)')
          /\ Same(Row(r)', Row2(r)') /\ Same(Row2(r)', Row(r)')
      BY <2>1 DEF TypeOK, Second!TypeOK, RowType, Same, Row, Row2
    <3>3. Row(r).job = job[r] /\ Row2(r).job = job2[r]
      BY DEF Row, Row2
    <3>4. Row(r)'.job = job'[r] /\ Row2(r)'.job = job2'[r]
      BY DEF Row, Row2
    <3>5. Shareable(r)
      BY DEF BothInv
    <3>6. ~shared'[r] => ~shared[r] /\ ~(AtWork(job'[r]) /\ AtWork(job2'[r]))
      BY <2>1 DEF Note
    <3>7. CASE Moves(Row(r), Row(r)') /\ job2' = job2
      <4>1. Counted(Row(r)') /\ Sound(Row(r)')
        BY <3>1, <3>2, <3>5, <3>7, MoveKeepsSound DEF Shareable
      <4>2. Counted(Row2(r)') /\ Sound(Row2(r)')
        BY <3>1, <3>2, <3>3, <3>4, <3>5, <3>7, <4>1, OtherKeepsSound DEF Shareable
      <4>3. ASSUME ~shared'[r] PROVE RowInv(Row(r)') /\ RowInv(Row2(r)')
        <5>1. RowInv(Row(r)')
          BY <3>1, <3>2, <3>5, <3>6, <3>7, <4>3, MoveKeepsRow DEF Shareable
        <5>2. RowInv(Row2(r)')
          BY <3>1, <3>2, <3>3, <3>4, <3>5, <3>6, <3>7, <4>3, <5>1, OtherKeepsRow DEF
             Shareable
        <5> QED
          BY <5>1, <5>2
      <4> QED
        BY <3>6, <4>1, <4>2, <4>3 DEF Shareable
    <3>8. CASE Moves(Row2(r), Row2(r)') /\ job' = job
      <4>1. Counted(Row2(r)') /\ Sound(Row2(r)')
        BY <3>1, <3>2, <3>5, <3>8, MoveKeepsSound DEF Shareable
      <4>2. Counted(Row(r)') /\ Sound(Row(r)')
        BY <3>1, <3>2, <3>3, <3>4, <3>5, <3>8, <4>1, OtherKeepsSound DEF Shareable
      <4>3. ASSUME ~shared'[r] PROVE RowInv(Row(r)') /\ RowInv(Row2(r)')
        <5>1. RowInv(Row2(r)')
          BY <3>1, <3>2, <3>5, <3>6, <3>8, <4>3, MoveKeepsRow DEF Shareable
        <5>2. RowInv(Row(r)')
          BY <3>1, <3>2, <3>3, <3>4, <3>5, <3>6, <3>8, <4>3, <5>1, OtherKeepsRow DEF
             Shareable
        <5> QED
          BY <5>1, <5>2
      <4> QED
        BY <3>6, <4>1, <4>2, <4>3 DEF Shareable
    <3> QED
      BY <2>1, <3>7, <3>8 DEF BothMove
  <2> QED
    BY <2>1, <2>2, <2>3 DEF BothInv
<1>2. CASE UNCHANGED bothVars
  <2>1. TypeOK' /\ Second!TypeOK' /\ shared' = shared
    BY <1>2 DEF bothVars, own1, own2, tables, BothInv, TypeOK, Second!TypeOK
  <2>2. ASSUME NEW r \in Records PROVE Shareable(r)'
    <3>1. Row(r)' = Row(r) /\ Row2(r)' = Row2(r) /\ job' = job /\ job2' = job2
      BY <1>2 DEF bothVars, own1, own2, tables, Row, Row2
    <3>2. Shareable(r)
      BY DEF BothInv
    <3> QED
      BY <2>1, <3>1, <3>2 DEF Shareable
  <2> QED
    BY <2>1, <2>2 DEF BothInv
<1> QED
  BY <1>1, <1>2

\* The invariant holds in every reachable state of the two.
LEMMA BothInductive == BothSpec => []BothInv
  BY BothInitEstablishes, BothNextKeeps, PTL DEF BothSpec

-----------------------------------------------------------------------------
(* The theorems about two processes.                                       *)

\* A processed record stands among the open failures only if both processes
\* have had it in their batches at once, or an acknowledgement was lost: no
\* crash, resolution or order of the two alone leaves that behind.
THEOREM FailedInCoreNeedsShared == BothSpec => []FailedInCoreOnlyIfShared
<1>1. BothInv => FailedInCoreOnlyIfShared
  BY DEF BothInv, FailedInCoreOnlyIfShared, Shareable, RowInv, Agree, Row
<1> QED
  BY <1>1, BothInductive, PTL

\* A step of the two is a step of the life cycle, but for a record both have
\* shared, which one of them may finish after the other one gave up on it.
LEMMA BothStepOfLifecycle ==
    ASSUME BothInv, BothNext
    PROVE  \/ Lifecycle!Next
           \/ UNCHANGED status
           \/ \E r \in Records : shared[r] /\ Lifecycle!Becomes(r, "failed", "done")
<1>1. TypeOK' /\ Second!TypeOK' /\ BothMove /\ AtMostOne
  BY BothNextMoves
<1>2. ASSUME NEW r \in Records
      PROVE  /\ \/ Turns(Status(r), Status(r)')
                \/ Status(r) = "failed" /\ Status(r)' = "done"
             /\ ~Turns(Status(r), Status(r)') => shared[r]
  <2>1. Shareable(r) /\ RowType(Row(r)) /\ RowType(Row2(r))
    BY RowsTyped, RowsTyped2 DEF BothInv
  <2>2. RowType(Row(r)') /\ RowType(Row2(r)')
    BY <1>1 DEF TypeOK, Second!TypeOK, RowType, Row, Row2
  <2>3. /\ Status(r) = RowStatus(Row(r)) /\ Status(r)' = RowStatus(Row(r)')
        /\ Status(r) = RowStatus(Row2(r)) /\ Status(r)' = RowStatus(Row2(r)')
    BY DEF Status, RowStatus, Row, Row2
  <2>4. CASE Moves(Row(r), Row(r)')
    BY <2>1, <2>2, <2>3, <2>4, MoveTurns DEF Shareable, RowInv
  <2>5. CASE Moves(Row2(r), Row2(r)')
    BY <2>1, <2>2, <2>3, <2>5, MoveTurns DEF Shareable, RowInv
  <2> QED
    BY <1>1, <2>4, <2>5 DEF BothMove
<1> QED
  BY <1>1, <1>2, TurnsOfLifecycle

\* Two processes on one queue keep the life cycle of every record, but for one
\* move: a shared record that failed in one process is finished by the other.
THEOREM TwoKeepLifecycleApart == BothSpec => KeepsLifecycleApart
<1>1. BothInv /\ [BothNext]_bothVars =>
        [\/ Lifecycle!Next
         \/ \E r \in Records :
               shared[r] /\ Lifecycle!Becomes(r, "failed", "done")
        ]_[r \in Records |-> Status(r)]
  <2> SUFFICES ASSUME BothInv, [BothNext]_bothVars
               PROVE  [\/ Lifecycle!Next
                       \/ \E r \in Records :
                             shared[r] /\ Lifecycle!Becomes(r, "failed", "done")
                      ]_[r \in Records |-> Status(r)]
    OBVIOUS
  <2>1. CASE BothNext
    BY <2>1, BothStepOfLifecycle DEF status
  <2>2. CASE UNCHANGED bothVars
    BY <2>2 DEF bothVars, tables, Status
  <2> QED
    BY <2>1, <2>2
<1> QED
  BY <1>1, BothInductive, PTL DEF BothSpec, KeepsLifecycleApart
=============================================================================
