------------------------------ MODULE EtlFlow ------------------------------
(***************************************************************************)
(* etl_flow of run_pipeline.py and the connection pool all its tasks share  *)
(* (src/db/database.py), in one process with one event loop.                *)
(*                                                                         *)
(* A worker is a coroutine of a task between two uses of the database: the  *)
(* page coroutines of a scraper, the record coroutines of an NLP stage, the *)
(* loop of a task itself.  Workers of a task are alike, so they are counted. *)
(***************************************************************************)
EXTENDS Integers

CONSTANTS
    Tasks,      \* the @task functions
    Stage,      \* the stage of etl_flow a task is awaited in, from 1
    LastStage,
    Retries,    \* retries= of each task
    Gathering,  \* tasks whose main() awaits a gather() that raises
    Loose,      \* owner of the workers whose task has given up on them
    Jobs,       \* bound: workers started by one attempt of a task
    MaxPools    \* bound: pools created in the process

ASSUME FlowAssumption ==
    /\ LastStage \in Nat \ {0}
    /\ Stage \in [Tasks -> 1 .. LastStage]
    /\ Retries \in [Tasks -> Nat]
    /\ Gathering \subseteq Tasks
    /\ Loose \notin Tasks
    /\ Jobs \in Nat
    /\ MaxPools \in Nat

VARIABLES
    phase,    \* where etl_flow is
    stage,    \* the stage it awaits
    outcome,  \* how its try block ended
    pool,     \* AsyncDatabasePool._pool
    status,   \* every pool ever created
    task,     \* the attempt of each task
    work,     \* the workers of each task
    failed    \* history: has an attempt failed

vars == <<phase, stage, outcome, pool, status, task, work, failed>>

Owners == Tasks \cup {Loose}
Pools == 1 .. MaxPools
NoPool == 0

NotStarted == [pc |-> "idle", attempt |-> 0, jobs |-> 0]
NoWork == [idle |-> 0, opening |-> 0, held |-> [p \in Pools |-> 0]]
Sum(v, w) == [idle |-> v.idle + w.idle,
              opening |-> v.opening + w.opening,
              held |-> [p \in Pools |-> v.held[p] + w.held[p]]]

Attempt(n) == [pc |-> "run", attempt |-> n, jobs |-> Jobs]
Launch(s) == [t \in Tasks |-> IF Stage[t] = s THEN Attempt(1) ELSE task[t]]
Cancelled == [t \in Tasks |-> IF task[t].pc \in {"run", "paused"}
                              THEN [task[t] EXCEPT !.pc = "cancelled"]
                              ELSE task[t]]

\* create_pool() has returned: the next pool is open.
Create(p) ==
    /\ status[p] = "none"
    /\ \A q \in Pools : status[q] = "none" => p <= q
    /\ status' = [status EXCEPT ![p] = "open"]
    /\ pool' = p

-----------------------------------------------------------------------------
(* AsyncDatabasePool, as a worker calls it.                                *)

\* get_connection(): take a connection of the pool that is there, with no
\* suspension after the check, or create one.
Get(o) ==
    /\ work[o].idle > 0
    /\ \/ /\ pool = NoPool
          /\ work' = [work EXCEPT ![o].idle = @ - 1, ![o].opening = @ + 1]
       \/ /\ pool # NoPool
          /\ work' = [work EXCEPT ![o].idle = @ - 1, ![o].held[pool] = @ + 1]
    /\ UNCHANGED <<phase, stage, outcome, pool, status, task, failed>>

\* create_pool() of this worker returns: _pool is overwritten, whatever it
\* was, and the worker goes on from initialize() or takes a connection.
Opened(o) ==
    /\ work[o].opening > 0
    /\ \E p \in Pools :
         /\ Create(p)
         /\ \/ work' = [work EXCEPT ![o].opening = @ - 1, ![o].idle = @ + 1]
            \/ work' = [work EXCEPT ![o].opening = @ - 1, ![o].held[p] = @ + 1]
    /\ UNCHANGED <<phase, stage, outcome, task, failed>>

\* Slip: close first, detach afterwards.
CloseAll_DetachLast ==
    IF pool = NoPool
    THEN phase' = "ended" /\ UNCHANGED <<pool, status>>
    ELSE /\ phase' = "closing"
         /\ status' = [status EXCEPT ![pool] = "closing"]
         /\ UNCHANGED pool

\* close_all(), up to the await of pool.close().
CloseAll ==
    IF pool = NoPool
    THEN phase' = "ended" /\ UNCHANGED <<pool, status>>
    ELSE /\ phase' = "closing"
         /\ status' = [status EXCEPT ![pool] = "closing"]
         /\ pool' = NoPool

-----------------------------------------------------------------------------
(* Tasks.                                                                  *)

\* The attempt starts another worker.
Spawn(t) ==
    /\ task[t].pc = "run"
    /\ task[t].jobs > 0
    /\ task' = [task EXCEPT ![t].jobs = @ - 1]
    /\ work' = [work EXCEPT ![t].idle = @ + 1]
    /\ UNCHANGED <<phase, stage, outcome, pool, status, failed>>

\* The workers v with one of them gone.
Without(v) ==
    {[v EXCEPT !.idle = @ - 1] : i \in 1 .. v.idle}
    \cup {[v EXCEPT !.opening = @ - 1] : i \in 1 .. v.opening}
    \cup {[v EXCEPT !.held[p] = @ - 1] : p \in {q \in Pools : v.held[q] > 0}}

\* A worker is through, and its connection is back; an exception that nobody
\* awaits, or that gather() collects, is dropped.
WorkerEnds(o) ==
    /\ \E w \in Without(work[o]) :
         /\ o \in Gathering => w.opening = work[o].opening
         /\ work' = [work EXCEPT ![o] = w]
    /\ UNCHANGED <<phase, stage, outcome, pool, status, task, failed>>

\* Slip: the retry counter is not advanced.
NextTry_Endless(t) == [task[t] EXCEPT !.pc = "paused", !.attempt = 0]

\* Prefect waits for the retry, or the task has failed for good.
NextTry(t) ==
    [task[t] EXCEPT !.pc = IF task[t].attempt <= Retries[t] THEN "paused" ELSE "failed"]

\* A worker raises and main() with it.  The other workers of a gather() that
\* raises go on and belong to nobody; main() of the other tasks raises only
\* between two gathers.
AttemptFails(t) ==
    /\ task[t].pc = "run"
    /\ \E w \in Without(work[t]) :
         /\ t \in Gathering \/ w = NoWork
         /\ work' = [work EXCEPT ![t] = NoWork, ![Loose] = Sum(@, w)]
    /\ task' = [task EXCEPT ![t] = NextTry(t)]
    /\ failed' = TRUE
    /\ UNCHANGED <<phase, stage, outcome, pool, status>>

Retry(t) ==
    /\ task[t].pc = "paused"
    /\ task' = [task EXCEPT ![t] = Attempt(@.attempt + 1)]
    /\ UNCHANGED <<phase, stage, outcome, pool, status, work, failed>>

\* Slip: the workers of a task are started and not awaited.
TaskEnds_NotAwaited(t) ==
    /\ task[t].pc = "run"
    /\ task' = [task EXCEPT ![t].pc = "ok"]
    /\ work' = [work EXCEPT ![t] = NoWork, ![Loose] = Sum(@, work[t])]
    /\ UNCHANGED <<phase, stage, outcome, pool, status, failed>>

\* Slip: main() closes the pool in a finally of its own.
TaskEnds_Closes(t) ==
    /\ task[t].pc = "run"
    /\ work[t] = NoWork
    /\ task' = [task EXCEPT ![t].pc = "ok"]
    /\ pool' = NoPool
    /\ status' = [p \in Pools |-> IF p = pool THEN "closed" ELSE status[p]]
    /\ UNCHANGED <<phase, stage, outcome, work, failed>>

\* main() returns: there may be fewer workers than Jobs.
TaskEnds(t) ==
    /\ task[t].pc = "run"
    /\ work[t] = NoWork
    /\ task' = [task EXCEPT ![t].pc = "ok"]
    /\ UNCHANGED <<phase, stage, outcome, pool, status, work, failed>>

-----------------------------------------------------------------------------
(* etl_flow.                                                               *)

\* initialize() of the flow: nothing else runs yet.
Start ==
    /\ phase = "init"
    /\ \/ /\ \E p \in Pools : Create(p)
          /\ phase' = "run"
          /\ stage' = 1
          /\ task' = Launch(1)
          /\ UNCHANGED outcome
       \/ /\ phase' = "ended"
          /\ outcome' = "failed"
          /\ UNCHANGED <<stage, pool, status, task>>
    /\ UNCHANGED <<work, failed>>

Current == {t \in Tasks : Stage[t] = stage}

\* gather() returns: the next stage, or the end of the try block.
StageDone ==
    /\ phase = "run"
    /\ \A t \in Current : task[t].pc = "ok"
    /\ \/ /\ stage < LastStage
          /\ stage' = stage + 1
          /\ task' = Launch(stage + 1)
          /\ UNCHANGED <<phase, outcome, pool, status>>
       \/ /\ stage = LastStage
          /\ outcome' = "ok"
          /\ CloseAll
          /\ UNCHANGED <<stage, task>>
    /\ UNCHANGED <<work, failed>>

\* gather() raises the first exception; its other tasks go on.
StageFails ==
    /\ phase = "run"
    /\ \E t \in Current : task[t].pc = "failed"
    /\ outcome' = "failed"
    /\ CloseAll
    /\ UNCHANGED <<stage, task, work, failed>>

\* Ctrl+C: asyncio cancels the flow, which cancels the tasks it awaits and
\* what they await; loose workers are not among them.
Interrupt ==
    /\ phase = "run"
    /\ outcome' = "interrupted"
    /\ task' = Cancelled
    /\ work' = [o \in Owners |-> IF o = Loose THEN work[o] ELSE NoWork]
    /\ CloseAll
    /\ UNCHANGED <<stage, failed>>

\* pool.close() returns when all its connections are back.
Closed ==
    /\ phase = "closing"
    /\ \A p \in Pools, o \in Owners :
          status[p] = "closing" => work[o].held[p] = 0
    /\ status' = [p \in Pools |-> IF status[p] = "closing" THEN "closed" ELSE status[p]]
    /\ phase' = "ended"
    /\ UNCHANGED <<stage, outcome, pool, task, work, failed>>

\* asyncio.run() cancels what is left and the process exits.
Exit ==
    /\ phase = "ended"
    /\ phase' = "exited"
    /\ task' = Cancelled
    /\ work' = [o \in Owners |-> NoWork]
    /\ UNCHANGED <<stage, outcome, pool, status, failed>>

-----------------------------------------------------------------------------
Init ==
    /\ phase = "init"
    /\ stage = 0
    /\ outcome = "none"
    /\ pool = NoPool
    /\ status = [p \in Pools |-> "none"]
    /\ task = [t \in Tasks |-> NotStarted]
    /\ work = [o \in Owners |-> NoWork]
    /\ failed = FALSE

Flow == Start \/ StageDone \/ StageFails \/ Closed
TaskStep(t) == Retry(t) \/ TaskEnds(t) \/ AttemptFails(t)
WorkerStep(o) == Get(o) \/ Opened(o) \/ WorkerEnds(o)

Next ==
    \/ Flow
    \/ Interrupt
    \/ Exit
    \/ \E t \in Tasks : Spawn(t) \/ TaskStep(t)
    \/ \E o \in Owners : WorkerStep(o)

Spec == Init /\ [][Next]_vars

\* The event loop runs every coroutine that can go on; requests and queries
\* end, well or not.  A task is not obliged to use its workers up.
Fairness ==
    /\ WF_vars(Flow)
    /\ \A t \in Tasks : WF_vars(TaskStep(t))
    /\ \A o \in Owners : WF_vars(WorkerStep(o))

FairSpec == Spec /\ Fairness

-----------------------------------------------------------------------------
(* Properties.                                                             *)

Workers == [idle : Nat, opening : Nat, held : [Pools -> Nat]]
Attempts == [pc : {"idle", "run", "paused", "ok", "failed", "cancelled"},
             attempt : Nat, jobs : 0 .. Jobs]
Statuses == {"none", "open", "closing", "closed"}

\* The shape of the state.
TypeOK ==
    /\ phase \in {"init", "run", "closing", "ended", "exited"}
    /\ stage \in 0 .. LastStage
    /\ outcome \in {"none", "ok", "failed", "interrupted"}
    /\ pool \in 0 .. MaxPools
    /\ status \in [Pools -> Statuses]
    /\ task \in [Tasks -> Attempts]
    /\ \A t \in Tasks : task[t].attempt <= Retries[t] + 1
    /\ work \in [Owners -> Workers]
    /\ failed \in BOOLEAN

\* Whoever reads _pool, at any point between the steps of close_all() and of
\* other initialisations, finds no pool or an open one.
NeverHalfClosed == pool # NoPool => status[pool] = "open"

\* A stage starts only when every task of the stages before it has ended well,
\* and the flow succeeds only if all have: retries, siblings of a failed task
\* and an interruption included.
StagesInOrder ==
    /\ \A t, u \in Tasks :
          Stage[u] < Stage[t] /\ task[t].pc # "idle" => task[u].pc = "ok"
    /\ outcome = "ok" => \A t \in Tasks : task[t].pc = "ok"

\* While the flow works there is one pool, although every task would create
\* one: a second one comes only after close_all() has detached the first.
SecondPoolOnlyAfterClose ==
    phase \in {"init", "run"} => \A p \in Pools : status[p] # "none" => p = pool

\* Nothing is left open by a flow without a failed attempt, interrupted or
\* not: an open pool at the end belongs to workers somebody gave up on.
LeakNeedsFailure ==
    phase \in {"ended", "exited"} /\ ~failed => \A p \in Pools : status[p] # "open"

\* The flow ends, though it closes the pool while siblings of the failed task
\* hold connections, and they may retry.
FlowEnds == phase = "run" ~> phase \in {"ended", "exited"}

=============================================================================
