------------------------------ MODULE NlpDrain ------------------------------
(***************************************************************************)
(* The NLP stage of one record type: the drain loop of                      *)
(* nlp_vacancies.main / nlp_resumes.run_processor and the run of            *)
(* nlp_pipeline.run_llm_record for every record of a batch, over the tables *)
(* staging.raw_*, core.* and staging.failed_records.                        *)
(*                                                                         *)
(* complete() is seen through its results only.  What is relied on, that    *)
(* AllProvidersExhausted is raised on entry or not at all and that no       *)
(* provider comes back in a process, is Completion, which LlmCascade        *)
(* implements.                                                              *)
(***************************************************************************)
EXTENDS Integers, FiniteSets

CONSTANTS
    N,            \* number of staging rows; ids are 1 .. N
    Source,       \* source_name of each row, numbered in their sort order
    RecordType,   \* "vacancy" or "resume"
    BatchLimit,   \* BATCH_LIMIT
    Concurrency,  \* LLM_CONCURRENCY
    MaxAttempts,  \* max_attempts of run_llm_record
    MaxRuns,      \* bound: runs of the pipeline
    MaxResolves   \* bound: manual resolutions

Records == 1 .. N

ASSUME SizeAssumption ==
    /\ N \in Nat
    /\ BatchLimit \in Nat \ {0}
    /\ Concurrency \in Nat \ {0}
    /\ MaxAttempts \in Nat \ {0}
    /\ MaxRuns \in Nat
    /\ MaxResolves \in Nat
ASSUME SourceAssumption == Source \in [Records -> Nat]
ASSUME TypeAssumption == RecordType \in {"vacancy", "resume"}

VARIABLES
    raw,        \* staging row: "absent", "text" (text to process) or "cleared"
    core,       \* does the row have its core row
    open,       \* attempt_count of its unresolved failed_records row, 0 if none
    available,  \* any_available()
    main,       \* the drain loop
    job,        \* run_llm_record of each record of the batch
    runs,       \* runs started
    resolves,   \* manual resolutions made
    unacked     \* history: rows whose commit was not acknowledged

tables == <<raw, core, open, unacked>>
vars == <<raw, core, open, available, main, job, runs, resolves, unacked>>

-----------------------------------------------------------------------------
NoJob == [pc |-> "none", attempt |-> 0, busy |-> FALSE, allBusy |-> TRUE]
Queued == [NoJob EXCEPT !.pc = "queued"]

Ended == {"ok", "no"}
InBatch(r) == job[r].pc # "none"
Running(r) == InBatch(r) /\ job[r].pc \notin Ended \cup {"queued"}

\* Slip: the join with failed_records left out of the batch query.
Pending_WithFailed == {r \in Records : raw[r] = "text" /\ ~core[r]}

\* WHERE of the batch query: text to process, no core row, no open failure.
Pending == {r \in Records : raw[r] = "text" /\ ~core[r] /\ open[r] = 0}

\* ROW_NUMBER() OVER (PARTITION BY source_name ORDER BY id).
RowNumber(r) ==
    Cardinality({q \in Pending : Source[q] = Source[r] /\ q <= r})

\* Slip: ORDER BY id, as the rows were scraped.
Before_AsScraped(q, r) == q < r

\* ORDER BY rn, source_name.
Before(q, r) ==
    \/ RowNumber(q) < RowNumber(r)
    \/ RowNumber(q) = RowNumber(r) /\ Source[q] < Source[r]

\* The vacancies are taken round-robin from the sources.
RoundRobin(B) ==
    B = {r \in Pending : Cardinality({q \in Pending : Before(q, r)}) < BatchLimit}

\* The resumes are taken in whatever order the table yields: the query has a
\* LIMIT and no ORDER BY.
AnyOrder(B) ==
    /\ B \subseteq Pending
    /\ Cardinality(B) = IF Cardinality(Pending) < BatchLimit
                        THEN Cardinality(Pending) ELSE BatchLimit

IsBatch(B) == IF RecordType = "vacancy" THEN RoundRobin(B) ELSE AnyOrder(B)

-----------------------------------------------------------------------------
(* The drain loop.                                                         *)

\* The top of the loop: leave it when no provider is available.
Check ==
    /\ main.pc = "check"
    /\ main' = [main EXCEPT !.pc = IF available THEN "fetch" ELSE "done"]
    /\ UNCHANGED <<tables, available, job, runs, resolves>>

\* The next batch is read and its coroutines are created; leave the loop when
\* the queue is empty.
Fetch ==
    /\ main.pc = "fetch"
    /\ \E B \in SUBSET Pending :
         /\ IsBatch(B)
         /\ main' = [main EXCEPT !.pc = IF B = {} THEN "done" ELSE "gather"]
         /\ job' = [r \in Records |-> IF r \in B THEN Queued ELSE NoJob]
    /\ UNCHANGED <<tables, available, runs, resolves>>

\* Slip: a batch that only deferred its records counts as progress.
Gathered_Patient ==
    LET success == \E r \in Records : job[r].pc = "ok"
        idle == IF success \/ \E r \in Records : job[r].busy THEN 0
                ELSE main.noProgress + 1
    IN
    /\ main.pc = "gather"
    /\ \A r \in Records : InBatch(r) => job[r].pc \in Ended
    /\ main' = [pc |-> IF idle >= 2 THEN "done" ELSE "check", noProgress |-> idle]
    /\ job' = [r \in Records |-> NoJob]
    /\ UNCHANGED <<tables, available, runs, resolves>>

\* All coroutines of the batch have ended; leave the loop after two batches
\* in a row without a success.
Gathered ==
    LET success == \E r \in Records : job[r].pc = "ok"
        idle == IF success THEN 0 ELSE main.noProgress + 1
    IN
    /\ main.pc = "gather"
    /\ \A r \in Records : InBatch(r) => job[r].pc \in Ended
    /\ main' = [pc |-> IF idle >= 2 THEN "done" ELSE "check", noProgress |-> idle]
    /\ job' = [r \in Records |-> NoJob]
    /\ UNCHANGED <<tables, available, runs, resolves>>

-----------------------------------------------------------------------------
(* run_llm_record.                                                         *)

Set(r, j) == job' = [job EXCEPT ![r] = j]
Step(r, pc) == job' = [job EXCEPT ![r].pc = pc]

\* An attempt calls complete(): with no provider available it raises
\* AllProvidersExhausted at once and the record is left in the queue.
Attempt(r, j) ==
    Set(r, IF available THEN [j EXCEPT !.pc = "call", !.attempt = @ + 1]
                        ELSE [j EXCEPT !.pc = "no"])

\* A slot of llm_semaphore is free; the check of any_available() before the
\* first attempt has the same outcome as the exception.
Start(r) ==
    /\ job[r].pc = "queued"
    /\ Cardinality({q \in Records : Running(q)}) < Concurrency
    /\ Attempt(r, job[r])
    /\ UNCHANGED <<tables, available, main, runs, resolves>>

\* complete() returned a text with a JSON object that fits the schema.
Valid(r) ==
    /\ job[r].pc = "call"
    /\ Set(r, [job[r] EXCEPT !.pc = "persist", !.allBusy = FALSE])
    /\ UNCHANGED <<tables, available, main, runs, resolves>>

\* The object does not fit the schema: the last attempt records the failure
\* before the pause of a second.
Invalid(r) ==
    /\ job[r].pc = "call"
    /\ Set(r, [job[r] EXCEPT
                 !.pc = IF job[r].attempt = MaxAttempts THEN "record" ELSE "sleep",
                 !.busy = FALSE, !.allBusy = FALSE])
    /\ UNCHANGED <<tables, available, main, runs, resolves>>

\* No JSON object in the text, or any other exception.
Unknown(r) ==
    /\ job[r].pc = "call"
    /\ Set(r, [job[r] EXCEPT !.pc = "unknown", !.allBusy = FALSE])
    /\ UNCHANGED <<tables, available, main, runs, resolves>>

\* Slip: the transient cause is not remembered.
AllBusy_Forgotten(r) ==
    /\ job[r].pc = "call"
    /\ Set(r, [job[r] EXCEPT !.pc = "sleep"])
    /\ UNCHANGED <<tables, available, main, runs, resolves>>

\* complete() raised AllProvidersBusy: sleep retry_after.
AllBusy(r) ==
    /\ job[r].pc = "call"
    /\ Set(r, [job[r] EXCEPT !.pc = "sleep", !.busy = TRUE])
    /\ UNCHANGED <<tables, available, main, runs, resolves>>

\* After the pause: the next attempt, or the end of the loop, where a record
\* whose last failure was transient is left in the queue.
Awake(r) ==
    /\ job[r].pc = "sleep"
    /\ \/ /\ job[r].attempt < MaxAttempts
          /\ Attempt(r, job[r])
       \/ /\ job[r].attempt = MaxAttempts
          /\ Step(r, IF job[r].busy THEN "no" ELSE "final")
    /\ UNCHANGED <<tables, available, main, runs, resolves>>

\* What the transaction of persist() writes: the core row (staging_id is
\* unique there), no raw text any more, its open failure resolved.
Write(r) ==
    /\ ~core[r]
    /\ core' = [core EXCEPT ![r] = TRUE]
    /\ raw' = [raw EXCEPT ![r] = "cleared"]
    /\ open' = [open EXCEPT ![r] = 0]

Commit(r) ==
    /\ job[r].pc = "persist"
    /\ Write(r)
    /\ Step(r, "ok")
    /\ UNCHANGED <<available, main, runs, resolves, unacked>>

\* The server commits and the connection is lost before the client knows.
CommitUnacked(r) ==
    /\ job[r].pc = "persist"
    /\ Write(r)
    /\ unacked' = [unacked EXCEPT ![r] = TRUE]
    /\ Step(r, "unknown")
    /\ UNCHANGED <<available, main, runs, resolves>>

\* Slip: persist() without a transaction leaves what it had written.
Abort_NoTransaction(r) ==
    /\ job[r].pc = "persist"
    /\ core' = [core EXCEPT ![r] = TRUE]
    /\ Step(r, "unknown")
    /\ UNCHANGED <<raw, open, unacked, available, main, runs, resolves>>

\* A statement fails (constraint, deadlock, connection): rolled back.
Abort(r) ==
    /\ job[r].pc = "persist"
    /\ Step(r, "unknown")
    /\ UNCHANGED <<tables, available, main, runs, resolves>>

\* Slip: the attempt number added to the count of the open row.
Upsert_Sum(r) == open' = [open EXCEPT ![r] = @ + job[r].attempt]

\* record_failure: a new open row with this attempt count, or one more
\* attempt in the row that is open.
Upsert(r) ==
    open' = [open EXCEPT ![r] = IF @ = 0 THEN job[r].attempt ELSE @ + 1]

\* Where a job goes on after record_failure: the last invalid attempt sleeps
\* and falls out of the loop, the others return False.
AfterRecord(r) == IF job[r].pc = "record" THEN "sleep" ELSE "no"

Recording(r) == job[r].pc \in {"record", "unknown", "final"}

RecordFailure(r) ==
    /\ Recording(r)
    /\ Upsert(r)
    /\ Step(r, AfterRecord(r))
    /\ UNCHANGED <<raw, core, unacked, available, main, runs, resolves>>

\* The statement of record_failure itself fails; the exception ends the job
\* and gather() collects it.
RecordFails(r) ==
    /\ Recording(r)
    /\ Step(r, "no")
    /\ UNCHANGED <<tables, available, main, runs, resolves>>

-----------------------------------------------------------------------------
(* The environment.                                                        *)

\* The last budget runs out, here or in the stage of the other record type.
Deplete ==
    /\ available
    /\ main.pc # "done"
    /\ available' = FALSE
    /\ UNCHANGED <<tables, main, job, runs, resolves>>

\* The process is killed, or a query of the drain loop fails: the coroutines
\* are gone, the transactions that did not commit too.
Crash ==
    /\ main.pc # "done"
    /\ main' = [main EXCEPT !.pc = "done"]
    /\ job' = [r \in Records |-> NoJob]
    /\ UNCHANGED <<tables, available, runs, resolves>>

\* The collectors add a row; they never touch one that is there.
Collect(r) ==
    /\ main.pc = "done"
    /\ raw[r] = "absent"
    /\ raw' = [raw EXCEPT ![r] = "text"]
    /\ UNCHANGED <<core, open, unacked, available, main, job, runs, resolves>>

\* The next run: a new process with new budgets.
Run ==
    /\ main.pc = "done"
    /\ runs < MaxRuns
    /\ runs' = runs + 1
    /\ available' = TRUE
    /\ main' = [pc |-> "check", noProgress |-> 0]
    /\ job' = [r \in Records |-> NoJob]
    /\ UNCHANGED <<tables, resolves>>

\* PATCH /failures/{id}/resolve, at any time.
Resolve(r) ==
    /\ open[r] > 0
    /\ resolves < MaxResolves
    /\ resolves' = resolves + 1
    /\ open' = [open EXCEPT ![r] = 0]
    /\ UNCHANGED <<raw, core, unacked, available, main, job, runs>>

-----------------------------------------------------------------------------
Init ==
    /\ raw = [r \in Records |-> "absent"]
    /\ core = [r \in Records |-> FALSE]
    /\ open = [r \in Records |-> 0]
    /\ available = TRUE
    /\ main = [pc |-> "done", noProgress |-> 0]
    /\ job = [r \in Records |-> NoJob]
    /\ runs = 0
    /\ resolves = 0
    /\ unacked = [r \in Records |-> FALSE]

Work(r) ==
    \/ Start(r)
    \/ Valid(r)
    \/ Invalid(r)
    \/ Unknown(r)
    \/ AllBusy(r)
    \/ Awake(r)
    \/ Commit(r)
    \/ CommitUnacked(r)
    \/ Abort(r)
    \/ RecordFailure(r)
    \/ RecordFails(r)

Loop == Check \/ Fetch \/ Gathered

Next ==
    \/ Loop
    \/ \E r \in Records : Work(r)
    \/ Deplete
    \/ Crash
    \/ \E r \in Records : Collect(r)
    \/ Run
    \/ \E r \in Records : Resolve(r)

Spec == Init /\ [][Next]_vars

-----------------------------------------------------------------------------
(* Properties.                                                             *)

JobState ==
    [pc : {"none", "queued", "call", "sleep", "persist", "record", "unknown",
           "final", "ok", "no"},
     attempt : 0 .. MaxAttempts,
     busy : BOOLEAN,
     allBusy : BOOLEAN]

\* The shape of the state.
TypeOK ==
    /\ raw \in [Records -> {"absent", "text", "cleared"}]
    /\ core \in [Records -> BOOLEAN]
    /\ open \in [Records -> Nat]
    /\ available \in BOOLEAN
    /\ main \in [pc : {"check", "fetch", "gather", "done"}, noProgress : Nat]
    /\ job \in [Records -> JobState]
    /\ runs \in 0 .. MaxRuns
    /\ resolves \in 0 .. MaxResolves
    /\ unacked \in [Records -> BOOLEAN]

\* A processed record stands among the open failures only when the
\* acknowledgement of its commit was lost: neither an aborted transaction,
\* nor the double record of the last attempt, nor a crash leaves that behind.
FailedInCoreOnlyIfUnacked ==
    \A r \in Records : core[r] /\ open[r] > 0 => unacked[r]

\* The two records of one failed job add up to one attempt more than were
\* made, and no later run adds to them: a failed record is not tried again
\* while its failure is open.
AttemptCountBounded == \A r \in Records : open[r] <= MaxAttempts + 1

\* Busy providers alone never make a failed record, over all paths through
\* the attempts of run_llm_record.
TransientIsNotRecorded ==
    [][\A r \in Records : open'[r] > open[r] => ~job[r].allBusy]_vars

\* A call of the LLM is never spent on a record that is done or stands among
\* the open failures, though batches, resolutions and crashes interleave.
OnlyPendingIsTried ==
    [][\A r \in Records :
          job[r].pc # "call" /\ job'[r].pc = "call" =>
              raw[r] = "text" /\ ~core[r] /\ open[r] = 0]_vars

\* No batch leaves a record behind that it has room for, and the starving of DOU
\* and robota (nlp_vacancies.py:191) is averted: a source whose record is
\* left behind has as many in the batch as any other, but for one, and its
\* oldest ones, however much the others have scraped.
Share(B, s) == Cardinality({r \in B : Source[r] = s})
Fair(B) ==
    /\ B # Pending => Cardinality(B) = BatchLimit
    /\ RecordType = "vacancy" =>
         \A r \in B, q \in Pending \ B :
            /\ Source[r] = Source[q] => r < q
            /\ Share(B, Source[r]) <= Share(B, Source[q]) + 1
BatchesAreFair == [][Fetch => Fair({r \in Records : InBatch(r)'})]_vars

\* The stage keeps the promise of RecordLifecycle.
Status(r) ==
    IF core[r] THEN "done"
    ELSE IF open[r] > 0 THEN "failed"
    ELSE IF raw[r] = "text" THEN "pending"
    ELSE "absent"

Lifecycle == INSTANCE RecordLifecycle WITH state <- [r \in Records |-> Status(r)]
KeepsLifecycle == Lifecycle!Spec

=============================================================================
