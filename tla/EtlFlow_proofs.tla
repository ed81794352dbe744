--------------------------- MODULE EtlFlow_proofs ---------------------------
(***************************************************************************)
(* Proofs about EtlFlow, for any tasks in any number of stages, any number   *)
(* of retries, workers and pools.                                            *)
(***************************************************************************)
EXTENDS EtlFlow, TLAPS

\* Prefect waits only for a retry that is left.
PausedHasRetry ==
    \A t \in Tasks : task[t].pc = "paused" => task[t].attempt <= Retries[t]

\* Only a running attempt has workers; what it gives up on is loose.
WorkersAreOfRunning ==
    \A t \in Tasks : task[t].pc # "run" => work[t] = NoWork

\* Before initialize() of the flow.
Untouched ==
    phase = "init" =>
        /\ outcome = "none"
        /\ pool = NoPool
        /\ \A p \in Pools : status[p] = "none"
        /\ \A t \in Tasks : task[t].pc = "idle"
        /\ work = [o \in Owners |-> NoWork]

\* While stages are awaited, those before are done and those after idle.
StagesAwaited ==
    phase = "run" =>
        /\ stage \in 1 .. LastStage
        /\ outcome # "ok"
        /\ \A t \in Tasks : /\ Stage[t] < stage => task[t].pc = "ok"
                            /\ stage < Stage[t] => task[t].pc = "idle"

\* ... and whoever wants a connection finds the pool.
PoolIsThere ==
    phase \in {"init", "run"} =>
        /\ \A o \in Owners : work[o].opening = 0
        /\ phase = "run" => pool # NoPool

\* Without a failed attempt nobody is given up on, and nothing runs or stays
\* open when the flow has ended.
Tidy ==
    ~failed =>
        /\ work[Loose] = NoWork
        /\ \A t \in Tasks : task[t].pc \notin {"paused", "failed"}
        /\ phase \notin {"init", "run"} =>
             /\ \A p \in Pools : status[p] # "open"
             /\ \A t \in Tasks : task[t].pc # "run"

IndInv ==
    /\ TypeOK
    /\ NeverHalfClosed
    /\ StagesInOrder
    /\ SecondPoolOnlyAfterClose
    /\ PausedHasRetry
    /\ WorkersAreOfRunning
    /\ Untouched
    /\ StagesAwaited
    /\ PoolIsThere
    /\ Tidy

-----------------------------------------------------------------------------
(* Workers.                                                                *)

\* The empty count of workers.
LEMMA NoWorkIsWorkers == NoWork \in Workers /\ NoWork.opening = 0
  BY DEF NoWork, Workers

\* One worker less opens no more pools, and there was one.
LEMMA OneWorkerLess ==
    ASSUME NEW v \in Workers, NEW w \in Without(v)
    PROVE  /\ w \in Workers
           /\ w.opening <= v.opening
           /\ v # NoWork
<1>1. CASE \E i \in 1 .. v.idle : w = [v EXCEPT !.idle = @ - 1]
  BY <1>1 DEF Workers, NoWork
<1>2. CASE \E i \in 1 .. v.opening : w = [v EXCEPT !.opening = @ - 1]
  BY <1>2 DEF Workers, NoWork
<1>3. CASE \E p \in Pools : v.held[p] > 0 /\ w = [v EXCEPT !.held[p] = @ - 1]
  BY <1>3 DEF Workers, NoWork
<1> QED
  BY <1>1, <1>2, <1>3 DEF Without

\* Two groups of workers together.
LEMMA SumOfWorkers ==
    ASSUME NEW v \in Workers, NEW w \in Workers
    PROVE  /\ Sum(v, w) \in Workers
           /\ Sum(v, w).opening = v.opening + w.opening
  BY DEF Workers, Sum

\* One worker turns from what it does to something else.
LEMMA WorkerMoves ==
    ASSUME NEW v \in Workers
    PROVE  /\ v.idle > 0 =>
                /\ v # NoWork
                /\ [v EXCEPT !.idle = @ - 1, !.opening = @ + 1] \in Workers
                /\ \A p \in Pools : [v EXCEPT !.idle = @ - 1, !.held[p] = @ + 1] \in Workers
           /\ v.opening > 0 =>
                /\ v # NoWork
                /\ [v EXCEPT !.opening = @ - 1, !.idle = @ + 1] \in Workers
                /\ \A p \in Pools : [v EXCEPT !.opening = @ - 1, !.held[p] = @ + 1] \in Workers
<1>1. /\ v.idle \in Nat /\ v.opening \in Nat /\ v.held \in [Pools -> Nat]
      /\ v = [idle |-> v.idle, opening |-> v.opening, held |-> v.held]
  BY DEF Workers
<1>2. v.idle > 0 \/ v.opening > 0 => v # NoWork
  BY DEF NoWork
<1>3. \A p \in Pools : [v.held EXCEPT ![p] = @ + 1] \in [Pools -> Nat]
  BY <1>1
<1>4. /\ v.idle > 0 => v.idle - 1 \in Nat
      /\ v.opening > 0 => v.opening - 1 \in Nat
      /\ v.idle + 1 \in Nat
      /\ v.opening + 1 \in Nat
  BY <1>1
<1> QED
  BY <1>1, <1>2, <1>3, <1>4, Zenon DEF Workers

\* The tasks of a stage start, the others stay as they are.
LEMMA LaunchShape ==
    ASSUME task \in [Tasks -> Attempts], NEW s
    PROVE  /\ Launch(s) \in [Tasks -> Attempts]
           /\ \A t \in Tasks : IF Stage[t] = s
                               THEN Launch(s)[t].pc = "run" /\ Launch(s)[t].attempt = 1
                               ELSE Launch(s)[t] = task[t]
  BY FlowAssumption DEF Launch, Attempt, Attempts

\* What runs or waits for its retry is cancelled, the rest stays as it is.
LEMMA CancelledShape ==
    ASSUME task \in [Tasks -> Attempts]
    PROVE  /\ Cancelled \in [Tasks -> Attempts]
           /\ \A t \in Tasks :
                /\ Cancelled[t].pc = IF task[t].pc \in {"run", "paused"} THEN "cancelled"
                                                                       ELSE task[t].pc
                /\ Cancelled[t].attempt = task[t].attempt
  BY DEF Cancelled, Attempts

-----------------------------------------------------------------------------
(* The first state.                                                        *)

\* No pool, no tasks, no workers.
LEMMA InitHolds == Init => IndInv
<1> SUFFICES ASSUME Init PROVE IndInv
  OBVIOUS
<1> USE FlowAssumption DEF Init, NoPool
<1>1. TypeOK
  <2>1. task \in [Tasks -> Attempts] /\ \A t \in Tasks : task[t].attempt <= Retries[t] + 1
    BY DEF NotStarted, Attempts
  <2>2. work \in [Owners -> Workers]
    BY NoWorkIsWorkers
  <2>3. status \in [Pools -> Statuses]
    BY DEF Statuses
  <2>4. pool \in 0 .. MaxPools /\ stage \in 0 .. LastStage
    OBVIOUS
  <2> QED
    BY <2>1, <2>2, <2>3, <2>4 DEF TypeOK
<1>2. NeverHalfClosed
  BY DEF NeverHalfClosed, NotStarted, NoWork, Owners
<1>3. StagesInOrder
  BY DEF StagesInOrder, NotStarted, NoWork, Owners
<1>4. SecondPoolOnlyAfterClose
  BY DEF SecondPoolOnlyAfterClose, NotStarted, NoWork, Owners
<1>5. PausedHasRetry
  BY DEF PausedHasRetry, NotStarted, NoWork, Owners
<1>6. WorkersAreOfRunning
  BY DEF WorkersAreOfRunning, NotStarted, NoWork, Owners
<1>7. Untouched
  BY DEF Untouched, NotStarted, NoWork, Owners
<1>8. StagesAwaited
  BY DEF StagesAwaited, NotStarted, NoWork, Owners
<1>9. PoolIsThere
  BY DEF PoolIsThere, NotStarted, NoWork, Owners
<1>10. Tidy
  BY DEF Tidy, NotStarted, NoWork, Owners
<1> QED
  BY <1>1, <1>2, <1>3, <1>4, <1>5, <1>6, <1>7, <1>8, <1>9, <1>10 DEF IndInv

\* A worker takes a connection of the pool that is there, or begins to create one.
LEMMA GetHolds == ASSUME IndInv, NEW o \in Owners, Get(o) PROVE IndInv'
<1> USE FlowAssumption DEF IndInv, Get, NoPool, Owners
<1>types. /\ task \in [Tasks -> Attempts] /\ work \in [Owners -> Workers]
          /\ pool \in 0 .. MaxPools /\ stage \in 0 .. LastStage
          /\ status \in [Pools -> Statuses]
          /\ \A u \in Tasks : task[u].attempt <= Retries[u] + 1
  BY DEF TypeOK
<1>moves. work' \in [Owners -> Workers] /\ work[o] # NoWork
  <2>1. work[o] \in Workers
    BY <1>types
  <2>2. CASE pool = NoPool
    <3>1. work' = [work EXCEPT ![o] = [work[o] EXCEPT !.idle = @ - 1, !.opening = @ + 1]]
      BY <2>2
    <3> QED
      BY <1>types, <2>1, <2>2, <3>1, WorkerMoves
  <2>3. CASE pool # NoPool
    <3>1. work' = [work EXCEPT ![o] = [work[o] EXCEPT !.idle = @ - 1, !.held[pool] = @ + 1]]
      BY <2>3
    <3>2. pool \in Pools
      BY <1>types, <2>3 DEF Pools
    <3> QED
      BY <1>types, <2>1, <2>3, <3>1, <3>2, WorkerMoves
  <2> QED
    BY <2>2, <2>3
<1>1. TypeOK'
  BY <1>types, <1>moves DEF TypeOK, PausedHasRetry, Pools, Statuses
<1>2. NeverHalfClosed'
  BY <1>types DEF NeverHalfClosed
<1>3. StagesInOrder'
  BY <1>types DEF StagesInOrder, StagesAwaited, Untouched
<1>4. SecondPoolOnlyAfterClose'
  BY <1>types DEF SecondPoolOnlyAfterClose, PoolIsThere, Untouched, Pools
<1>5. PausedHasRetry'
  BY <1>types DEF PausedHasRetry
<1>6. WorkersAreOfRunning'
  BY <1>types, <1>moves DEF WorkersAreOfRunning
<1>7. Untouched'
  BY <1>types DEF Untouched, NoWork
<1>8. StagesAwaited'
  BY <1>types DEF StagesAwaited, Untouched, StagesInOrder
<1>9. PoolIsThere'
  <2> SUFFICES ASSUME phase \in {"init", "run"}
               PROVE  (\A w \in Owners : work'[w].opening = 0) /\ (phase = "run" => pool # NoPool)
    BY DEF PoolIsThere
  <2>1. pool # NoPool
    BY DEF PoolIsThere, Untouched, NoWork
  <2>2. work' = [work EXCEPT ![o].idle = @ - 1, ![o].held[pool] = @ + 1]
    BY <2>1
  <2>3. \A w \in Owners : work'[w].opening = work[w].opening
    BY <1>types, <2>2 DEF Workers
  <2> QED
    BY <2>1, <2>3 DEF PoolIsThere
<1>10. Tidy'
  BY <1>types, <1>moves DEF Tidy, SecondPoolOnlyAfterClose, PoolIsThere,
     WorkersAreOfRunning, Untouched, StagesAwaited, NeverHalfClosed
<1> QED
  BY <1>1, <1>2, <1>3, <1>4, <1>5, <1>6, <1>7, <1>8, <1>9, <1>10

\* A worker creates a pool only when close_all() has detached the first.
LEMMA OpenedHolds == ASSUME IndInv, NEW o \in Owners, Opened(o) PROVE IndInv'
<1> USE FlowAssumption DEF IndInv, Opened, Create, NoPool, Owners
<1>types. /\ task \in [Tasks -> Attempts] /\ work \in [Owners -> Workers]
          /\ pool \in 0 .. MaxPools /\ stage \in 0 .. LastStage
          /\ status \in [Pools -> Statuses]
          /\ \A u \in Tasks : task[u].attempt <= Retries[u] + 1
  BY DEF TypeOK
<1>moves. work' \in [Owners -> Workers] /\ work[o] # NoWork
  <2>1. work[o] \in Workers
    BY <1>types
  <2>2. PICK p \in Pools :
          \/ work' = [work EXCEPT ![o].opening = @ - 1, ![o].idle = @ + 1]
          \/ work' = [work EXCEPT ![o].opening = @ - 1, ![o].held[p] = @ + 1]
    OBVIOUS
  <2>3. \/ work' = [work EXCEPT ![o] = [work[o] EXCEPT !.opening = @ - 1, !.idle = @ + 1]]
        \/ work' = [work EXCEPT ![o] = [work[o] EXCEPT !.opening = @ - 1, !.held[p] = @ + 1]]
    BY <1>types, <2>2
  <2>4. /\ work[o].opening > 0 /\ work[o] # NoWork
        /\ [work[o] EXCEPT !.opening = @ - 1, !.idle = @ + 1] \in Workers
        /\ [work[o] EXCEPT !.opening = @ - 1, !.held[p] = @ + 1] \in Workers
    BY <2>1, WorkerMoves
  <2> QED
    BY <1>types, <2>3, <2>4
<1>1. TypeOK'
  BY <1>types, <1>moves DEF TypeOK, PausedHasRetry, Pools, Statuses
<1>2. NeverHalfClosed'
  BY <1>types DEF NeverHalfClosed
<1>3. StagesInOrder'
  BY <1>types DEF StagesInOrder, StagesAwaited, Untouched
<1>4. SecondPoolOnlyAfterClose'
  BY <1>types DEF SecondPoolOnlyAfterClose, PoolIsThere, Untouched, Pools
<1>5. PausedHasRetry'
  BY <1>types DEF PausedHasRetry
<1>6. WorkersAreOfRunning'
  BY <1>types, <1>moves DEF WorkersAreOfRunning
<1>7. Untouched'
  BY <1>types DEF Untouched, PoolIsThere
<1>8. StagesAwaited'
  BY <1>types DEF StagesAwaited, Untouched, StagesInOrder
<1>9. PoolIsThere'
  BY <1>types, <1>moves DEF PoolIsThere, Untouched, Workers, Pools
<1>10. Tidy'
  BY <1>types, <1>moves DEF Tidy, SecondPoolOnlyAfterClose, PoolIsThere,
     WorkersAreOfRunning, Untouched, StagesAwaited, NeverHalfClosed
<1> QED
  BY <1>1, <1>2, <1>3, <1>4, <1>5, <1>6, <1>7, <1>8, <1>9, <1>10

\* A worker less.
LEMMA WorkerEndsHolds == ASSUME IndInv, NEW o \in Owners, WorkerEnds(o) PROVE IndInv'
<1> USE FlowAssumption DEF IndInv, WorkerEnds, NoPool, Owners
<1>types. /\ task \in [Tasks -> Attempts] /\ work \in [Owners -> Workers]
          /\ pool \in 0 .. MaxPools /\ stage \in 0 .. LastStage
          /\ status \in [Pools -> Statuses]
          /\ \A u \in Tasks : task[u].attempt <= Retries[u] + 1
  BY DEF TypeOK
<1>moves. PICK w \in Without(work[o]) : work' = [work EXCEPT ![o] = w]
  OBVIOUS
<1>less. w \in Workers /\ w.opening <= work[o].opening /\ work[o] # NoWork
  BY <1>types, OneWorkerLess
<1>1. TypeOK'
  BY <1>types, <1>moves, <1>less DEF TypeOK, PausedHasRetry, Pools, Statuses
<1>2. NeverHalfClosed'
  BY <1>types DEF NeverHalfClosed
<1>3. StagesInOrder'
  BY <1>types DEF StagesInOrder, StagesAwaited, Untouched
<1>4. SecondPoolOnlyAfterClose'
  BY <1>types DEF SecondPoolOnlyAfterClose, PoolIsThere, Untouched, Pools
<1>5. PausedHasRetry'
  BY <1>types DEF PausedHasRetry
<1>6. WorkersAreOfRunning'
  BY <1>types, <1>moves, <1>less DEF WorkersAreOfRunning
<1>7. Untouched'
  BY <1>types, <1>moves, <1>less DEF Untouched
<1>8. StagesAwaited'
  BY <1>types DEF StagesAwaited, Untouched, StagesInOrder
<1>9. PoolIsThere'
  BY <1>types, <1>moves, <1>less DEF PoolIsThere, Untouched, Workers
<1>10. Tidy'
  BY <1>types, <1>moves, <1>less DEF Tidy, SecondPoolOnlyAfterClose, PoolIsThere,
     WorkersAreOfRunning, Untouched, StagesAwaited, NeverHalfClosed
<1> QED
  BY <1>1, <1>2, <1>3, <1>4, <1>5, <1>6, <1>7, <1>8, <1>9, <1>10

\* A task that runs has one worker more.
LEMMA SpawnHolds == ASSUME IndInv, NEW t \in Tasks, Spawn(t) PROVE IndInv'
<1> USE FlowAssumption DEF IndInv, Spawn, NoPool, Owners
<1>types. /\ task \in [Tasks -> Attempts] /\ work \in [Owners -> Workers]
          /\ pool \in 0 .. MaxPools /\ stage \in 0 .. LastStage
          /\ status \in [Pools -> Statuses]
          /\ \A u \in Tasks : task[u].attempt <= Retries[u] + 1
  BY DEF TypeOK
<1>moves. task' \in [Tasks -> Attempts] /\ work' \in [Owners -> Workers]
  <2>1. [task[t] EXCEPT !.jobs = @ - 1] \in Attempts
    BY <1>types DEF Attempts
  <2>2. [work[t] EXCEPT !.idle = @ + 1] \in Workers
    <3>1. work[t] \in Workers
      BY <1>types
    <3> QED
      BY <3>1 DEF Workers
  <2>3. /\ task' = [task EXCEPT ![t] = [task[t] EXCEPT !.jobs = @ - 1]]
        /\ work' = [work EXCEPT ![t] = [work[t] EXCEPT !.idle = @ + 1]]
    OBVIOUS
  <2> QED
    BY <1>types, <2>1, <2>2, <2>3
<1>1. TypeOK'
  BY <1>types, <1>moves DEF TypeOK, PausedHasRetry, Pools, Statuses
<1>2. NeverHalfClosed'
  BY <1>types, <1>moves DEF NeverHalfClosed
<1>3. StagesInOrder'
  BY <1>types, <1>moves DEF StagesInOrder, StagesAwaited, Untouched
<1>4. SecondPoolOnlyAfterClose'
  BY <1>types, <1>moves DEF SecondPoolOnlyAfterClose, PoolIsThere, Untouched, Pools
<1>5. PausedHasRetry'
  BY <1>types, <1>moves DEF PausedHasRetry
<1>6. WorkersAreOfRunning'
  BY <1>types, <1>moves DEF WorkersAreOfRunning
<1>7. Untouched'
  BY <1>types, <1>moves DEF Untouched
<1>8. StagesAwaited'
  BY <1>types, <1>moves DEF StagesAwaited, Untouched, StagesInOrder
<1>9. PoolIsThere'
  BY <1>types, <1>moves DEF PoolIsThere, Untouched, Workers
<1>10. Tidy'
  BY <1>types, <1>moves DEF Tidy, SecondPoolOnlyAfterClose, PoolIsThere,
     WorkersAreOfRunning, Untouched, StagesAwaited, NeverHalfClosed, Attempts
<1> QED
  BY <1>1, <1>2, <1>3, <1>4, <1>5, <1>6, <1>7, <1>8, <1>9, <1>10

\* The workers left behind are covered by the failure.
LEMMA AttemptFailsHolds == ASSUME IndInv, NEW t \in Tasks, AttemptFails(t) PROVE IndInv'
<1> USE FlowAssumption DEF IndInv, AttemptFails, NextTry, NoPool, Owners
<1>types. /\ task \in [Tasks -> Attempts] /\ work \in [Owners -> Workers]
          /\ pool \in 0 .. MaxPools /\ stage \in 0 .. LastStage
          /\ status \in [Pools -> Statuses]
          /\ \A u \in Tasks : task[u].attempt <= Retries[u] + 1
  BY DEF TypeOK
<1>moves. PICK w \in Without(work[t]) :
              work' = [work EXCEPT ![t] = NoWork, ![Loose] = Sum(@, w)]
  OBVIOUS
<1>less. /\ w \in Workers /\ w.opening <= work[t].opening
         /\ Sum(work[Loose], w) \in Workers
         /\ Sum(work[Loose], w).opening = work[Loose].opening + w.opening
         /\ NoWork \in Workers /\ NoWork.opening = 0
  BY <1>types, OneWorkerLess, SumOfWorkers, NoWorkIsWorkers
<1>1. TypeOK'
  <2>1. work' \in [Owners -> Workers]
    BY <1>types, <1>moves, <1>less
  <2>2. task' \in [Tasks -> Attempts] /\ \A u \in Tasks : task'[u].attempt <= Retries[u] + 1
    BY <1>types DEF Attempts
  <2> QED
    BY <2>1, <2>2 DEF TypeOK
<1>2. NeverHalfClosed'
  BY <1>types DEF NeverHalfClosed
<1>3. StagesInOrder'
  BY <1>types DEF StagesInOrder, StagesAwaited, Untouched
<1>4. SecondPoolOnlyAfterClose'
  BY <1>types DEF SecondPoolOnlyAfterClose, PoolIsThere, Untouched, Pools
<1>5. PausedHasRetry'
  BY <1>types DEF PausedHasRetry
<1>6. WorkersAreOfRunning'
  BY <1>types, <1>moves, <1>less DEF WorkersAreOfRunning
<1>7. Untouched'
  BY <1>types DEF Untouched
<1>8. StagesAwaited'
  BY <1>types DEF StagesAwaited, Untouched, StagesInOrder
<1>9. PoolIsThere'
  BY <1>types, <1>moves, <1>less DEF PoolIsThere, Untouched, Workers
<1>10. Tidy'
  BY <1>types, <1>moves, <1>less DEF Tidy, SecondPoolOnlyAfterClose, PoolIsThere,
     WorkersAreOfRunning, Untouched, StagesAwaited, NeverHalfClosed, Attempts
<1> QED
  BY <1>1, <1>2, <1>3, <1>4, <1>5, <1>6, <1>7, <1>8, <1>9, <1>10

\* A paused task has a retry left.
LEMMA RetryHolds == ASSUME IndInv, NEW t \in Tasks, Retry(t) PROVE IndInv'
<1> USE FlowAssumption DEF IndInv, Retry, Attempt, NoPool, Owners
<1>types. /\ task \in [Tasks -> Attempts] /\ work \in [Owners -> Workers]
          /\ pool \in 0 .. MaxPools /\ stage \in 0 .. LastStage
          /\ status \in [Pools -> Statuses]
          /\ \A u \in Tasks : task[u].attempt <= Retries[u] + 1
  BY DEF TypeOK
<1>moves. task' \in [Tasks -> Attempts]
  BY <1>types DEF Attempts
<1>1. TypeOK'
  <2>1. \A u \in Tasks : task'[u].attempt <= Retries[u] + 1
    BY <1>types DEF PausedHasRetry, Attempts
  <2> QED
    BY <1>moves, <2>1 DEF TypeOK
<1>2. NeverHalfClosed'
  BY <1>types, <1>moves DEF NeverHalfClosed
<1>3. StagesInOrder'
  BY <1>types, <1>moves DEF StagesInOrder, StagesAwaited, Untouched
<1>4. SecondPoolOnlyAfterClose'
  BY <1>types, <1>moves DEF SecondPoolOnlyAfterClose, PoolIsThere, Untouched, Pools
<1>5. PausedHasRetry'
  BY <1>types, <1>moves DEF PausedHasRetry
<1>6. WorkersAreOfRunning'
  BY <1>types, <1>moves DEF WorkersAreOfRunning
<1>7. Untouched'
  BY <1>types, <1>moves DEF Untouched
<1>8. StagesAwaited'
  BY <1>types, <1>moves DEF StagesAwaited, Untouched, StagesInOrder
<1>9. PoolIsThere'
  BY <1>types, <1>moves DEF PoolIsThere, Untouched, Workers
<1>10. Tidy'
  BY <1>types, <1>moves DEF Tidy, SecondPoolOnlyAfterClose, PoolIsThere,
     WorkersAreOfRunning, Untouched, StagesAwaited, NeverHalfClosed
<1> QED
  BY <1>1, <1>2, <1>3, <1>4, <1>5, <1>6, <1>7, <1>8, <1>9, <1>10

\* A task ends well without workers.
LEMMA TaskEndsHolds == ASSUME IndInv, NEW t \in Tasks, TaskEnds(t) PROVE IndInv'
<1> USE FlowAssumption DEF IndInv, TaskEnds, NoPool, Owners
<1>types. /\ task \in [Tasks -> Attempts] /\ work \in [Owners -> Workers]
          /\ pool \in 0 .. MaxPools /\ stage \in 0 .. LastStage
          /\ status \in [Pools -> Statuses]
          /\ \A u \in Tasks : task[u].attempt <= Retries[u] + 1
  BY DEF TypeOK
<1>moves. task' \in [Tasks -> Attempts]
  BY <1>types DEF Attempts
<1>1. TypeOK'
  BY <1>types, <1>moves DEF TypeOK, PausedHasRetry, Pools, Statuses
<1>2. NeverHalfClosed'
  BY <1>types, <1>moves DEF NeverHalfClosed
<1>3. StagesInOrder'
  BY <1>types, <1>moves DEF StagesInOrder, StagesAwaited, Untouched
<1>4. SecondPoolOnlyAfterClose'
  BY <1>types, <1>moves DEF SecondPoolOnlyAfterClose, PoolIsThere, Untouched, Pools
<1>5. PausedHasRetry'
  BY <1>types, <1>moves DEF PausedHasRetry
<1>6. WorkersAreOfRunning'
  BY <1>types, <1>moves DEF WorkersAreOfRunning
<1>7. Untouched'
  BY <1>types, <1>moves DEF Untouched
<1>8. StagesAwaited'
  BY <1>types, <1>moves DEF StagesAwaited, Untouched, StagesInOrder
<1>9. PoolIsThere'
  BY <1>types, <1>moves DEF PoolIsThere, Untouched, Workers
<1>10. Tidy'
  BY <1>types, <1>moves DEF Tidy, SecondPoolOnlyAfterClose, PoolIsThere,
     WorkersAreOfRunning, Untouched, StagesAwaited, NeverHalfClosed
<1> QED
  BY <1>1, <1>2, <1>3, <1>4, <1>5, <1>6, <1>7, <1>8, <1>9, <1>10

\* The first pool is created before the first task starts.
LEMMA StartHolds == ASSUME IndInv, Start PROVE IndInv'
<1> USE FlowAssumption DEF IndInv, Start, Create, NoPool, Owners
<1>types. /\ task \in [Tasks -> Attempts] /\ work \in [Owners -> Workers]
          /\ pool \in 0 .. MaxPools /\ stage \in 0 .. LastStage
          /\ status \in [Pools -> Statuses]
          /\ \A u \in Tasks : task[u].attempt <= Retries[u] + 1
  BY DEF TypeOK
<1>moves. task' = task \/ task' = Launch(1)
  OBVIOUS
<1>1. TypeOK'
  <2>1. task' \in [Tasks -> Attempts] /\ \A u \in Tasks : task'[u].attempt <= Retries[u] + 1
    BY <1>moves, <1>types, LaunchShape
  <2>2. status' \in [Pools -> Statuses] /\ pool' \in 0 .. MaxPools
    BY <1>types DEF Statuses, Pools
  <2>3. stage' \in 0 .. LastStage
    BY <1>types
  <2> QED
    BY <2>1, <2>2, <2>3 DEF TypeOK
<1>2. NeverHalfClosed'
  BY <1>types, LaunchShape DEF NeverHalfClosed
<1>3. StagesInOrder'
  BY <1>types, LaunchShape DEF StagesInOrder, StagesAwaited, Untouched
<1>4. SecondPoolOnlyAfterClose'
  BY <1>types, LaunchShape DEF SecondPoolOnlyAfterClose, PoolIsThere, Untouched, Pools
<1>5. PausedHasRetry'
  BY <1>types, LaunchShape DEF PausedHasRetry
<1>6. WorkersAreOfRunning'
  BY <1>types, LaunchShape DEF WorkersAreOfRunning
<1>7. Untouched'
  BY <1>types, LaunchShape DEF Untouched
<1>8. StagesAwaited'
  <2> SUFFICES ASSUME phase' = "run" PROVE StagesAwaited'
    BY DEF StagesAwaited
  <2>1. stage' = 1 /\ task' = Launch(1) /\ outcome' = "none" /\ 1 \in 1 .. LastStage
    BY DEF Untouched
  <2>2. \A u \in Tasks : Stage[u] \in 1 .. LastStage /\ task[u].pc = "idle"
    BY DEF Untouched
  <2> QED
    BY <1>types, <2>1, <2>2, LaunchShape DEF StagesAwaited
<1>9. PoolIsThere'
  BY <1>types, LaunchShape DEF PoolIsThere, Untouched, Pools
<1>10. Tidy'
  BY <1>types, LaunchShape DEF Tidy, SecondPoolOnlyAfterClose, PoolIsThere,
     WorkersAreOfRunning, Untouched, StagesAwaited, NeverHalfClosed
<1> QED
  BY <1>1, <1>2, <1>3, <1>4, <1>5, <1>6, <1>7, <1>8, <1>9, <1>10

\* The next stage starts after all of this one ended well; after the last the pool is detached.
LEMMA StageDoneHolds == ASSUME IndInv, StageDone PROVE IndInv'
<1> USE FlowAssumption DEF IndInv, StageDone, CloseAll, Current, NoPool, Owners
<1>types. /\ task \in [Tasks -> Attempts] /\ work \in [Owners -> Workers]
          /\ pool \in 0 .. MaxPools /\ stage \in 0 .. LastStage
          /\ status \in [Pools -> Statuses]
          /\ \A u \in Tasks : task[u].attempt <= Retries[u] + 1
  BY DEF TypeOK
<1>moves. task' = task \/ task' = Launch(stage + 1)
  OBVIOUS
<1>1. TypeOK'
  <2>1. task' \in [Tasks -> Attempts] /\ \A u \in Tasks : task'[u].attempt <= Retries[u] + 1
    BY <1>moves, <1>types, LaunchShape
  <2>2. status' \in [Pools -> Statuses] /\ pool' \in 0 .. MaxPools
    BY <1>types DEF Statuses, Pools
  <2>3. stage' \in 0 .. LastStage
    BY <1>types
  <2> QED
    BY <2>1, <2>2, <2>3 DEF TypeOK
<1>2. NeverHalfClosed'
  BY <1>types, LaunchShape DEF NeverHalfClosed
<1>3. StagesInOrder'
  BY <1>types, LaunchShape DEF StagesInOrder, StagesAwaited, Untouched
<1>4. SecondPoolOnlyAfterClose'
  BY <1>types, LaunchShape DEF SecondPoolOnlyAfterClose, PoolIsThere, Untouched, Pools
<1>5. PausedHasRetry'
  BY <1>types, LaunchShape DEF PausedHasRetry
<1>6. WorkersAreOfRunning'
  BY <1>types, LaunchShape DEF WorkersAreOfRunning
<1>7. Untouched'
  BY <1>types, LaunchShape DEF Untouched
<1>8. StagesAwaited'
  <2> SUFFICES ASSUME phase' = "run" PROVE StagesAwaited'
    BY DEF StagesAwaited
  <2>1. /\ stage < LastStage /\ stage' = stage + 1 /\ stage' \in 1 .. LastStage
        /\ task' = Launch(stage + 1) /\ outcome' # "ok"
    BY <1>types DEF StagesAwaited
  <2>2. ASSUME NEW u \in Tasks
        PROVE  /\ Stage[u] < stage' => task'[u].pc = "ok"
               /\ stage' < Stage[u] => task'[u].pc = "idle"
    <3>1. Stage[u] \in Nat /\ stage \in Nat
      BY <1>types
    <3>2. Stage[u] < stage + 1 => Stage[u] # stage + 1 /\ task[u].pc = "ok"
      BY <3>1 DEF StagesAwaited
    <3>3. stage + 1 < Stage[u] => Stage[u] # stage + 1 /\ task[u].pc = "idle"
      BY <3>1 DEF StagesAwaited
    <3> QED
      BY <1>types, <2>1, <3>2, <3>3, LaunchShape
  <2> QED
    BY <2>1, <2>2 DEF StagesAwaited
<1>9. PoolIsThere'
  BY <1>types, LaunchShape DEF PoolIsThere, Untouched, Workers
<1>10. Tidy'
  BY <1>types, LaunchShape DEF Tidy, SecondPoolOnlyAfterClose, PoolIsThere,
     WorkersAreOfRunning, Untouched, StagesAwaited, NeverHalfClosed
<1> QED
  BY <1>1, <1>2, <1>3, <1>4, <1>5, <1>6, <1>7, <1>8, <1>9, <1>10

\* The pool is detached after a failed attempt.
LEMMA StageFailsHolds == ASSUME IndInv, StageFails PROVE IndInv'
<1> USE FlowAssumption DEF IndInv, StageFails, CloseAll, Current, NoPool, Owners
<1>types. /\ task \in [Tasks -> Attempts] /\ work \in [Owners -> Workers]
          /\ pool \in 0 .. MaxPools /\ stage \in 0 .. LastStage
          /\ status \in [Pools -> Statuses]
          /\ \A u \in Tasks : task[u].attempt <= Retries[u] + 1
  BY DEF TypeOK
<1>1. TypeOK'
  BY <1>types DEF TypeOK, PausedHasRetry, Pools, Statuses
<1>2. NeverHalfClosed'
  BY <1>types DEF NeverHalfClosed
<1>3. StagesInOrder'
  BY <1>types DEF StagesInOrder, StagesAwaited, Untouched
<1>4. SecondPoolOnlyAfterClose'
  BY <1>types DEF SecondPoolOnlyAfterClose, PoolIsThere, Untouched, Pools
<1>5. PausedHasRetry'
  BY <1>types DEF PausedHasRetry
<1>6. WorkersAreOfRunning'
  BY <1>types DEF WorkersAreOfRunning
<1>7. Untouched'
  BY <1>types DEF Untouched
<1>8. StagesAwaited'
  BY <1>types DEF StagesAwaited, Untouched, StagesInOrder
<1>9. PoolIsThere'
  BY <1>types DEF PoolIsThere, Untouched, Workers
<1>10. Tidy'
  BY <1>types DEF Tidy, SecondPoolOnlyAfterClose, PoolIsThere, WorkersAreOfRunning,
     Untouched, StagesAwaited, NeverHalfClosed
<1> QED
  BY <1>1, <1>2, <1>3, <1>4, <1>5, <1>6, <1>7, <1>8, <1>9, <1>10

\* The pool is detached, and only loose workers are left.
LEMMA InterruptHolds == ASSUME IndInv, Interrupt PROVE IndInv'
<1> USE FlowAssumption DEF IndInv, Interrupt, CloseAll, NoPool, Owners
<1>types. /\ task \in [Tasks -> Attempts] /\ work \in [Owners -> Workers]
          /\ pool \in 0 .. MaxPools /\ stage \in 0 .. LastStage
          /\ status \in [Pools -> Statuses]
          /\ \A u \in Tasks : task[u].attempt <= Retries[u] + 1
  BY DEF TypeOK
<1>moves. /\ task' = Cancelled /\ task' \in [Tasks -> Attempts]
          /\ \A t \in Tasks : task'[t].pc = IF task[t].pc \in {"run", "paused"}
                                            THEN "cancelled" ELSE task[t].pc
          /\ \A t \in Tasks : task'[t].attempt = task[t].attempt
          /\ work' \in [Owners -> Workers]
  BY <1>types, CancelledShape, NoWorkIsWorkers
<1>1. TypeOK'
  BY <1>types, <1>moves DEF TypeOK, PausedHasRetry, Pools, Statuses
<1>2. NeverHalfClosed'
  BY <1>types, <1>moves DEF NeverHalfClosed
<1>3. StagesInOrder'
  BY <1>types, <1>moves DEF StagesInOrder, StagesAwaited, Untouched
<1>4. SecondPoolOnlyAfterClose'
  BY <1>types, <1>moves DEF SecondPoolOnlyAfterClose, PoolIsThere, Untouched, Pools
<1>5. PausedHasRetry'
  BY <1>types, <1>moves DEF PausedHasRetry
<1>6. WorkersAreOfRunning'
  BY <1>types, <1>moves DEF WorkersAreOfRunning
<1>7. Untouched'
  BY <1>types, <1>moves DEF Untouched
<1>8. StagesAwaited'
  BY <1>types, <1>moves DEF StagesAwaited, Untouched, StagesInOrder
<1>9. PoolIsThere'
  BY <1>types, <1>moves DEF PoolIsThere, Untouched, Workers
<1>10. Tidy'
  BY <1>types, <1>moves DEF Tidy, SecondPoolOnlyAfterClose, PoolIsThere,
     WorkersAreOfRunning, Untouched, StagesAwaited, NeverHalfClosed, Attempts
<1> QED
  BY <1>1, <1>2, <1>3, <1>4, <1>5, <1>6, <1>7, <1>8, <1>9, <1>10

\* The pool that was detached is closed.
LEMMA ClosedHolds == ASSUME IndInv, Closed PROVE IndInv'
<1> USE FlowAssumption DEF IndInv, Closed, NoPool, Owners
<1>types. /\ task \in [Tasks -> Attempts] /\ work \in [Owners -> Workers]
          /\ pool \in 0 .. MaxPools /\ stage \in 0 .. LastStage
          /\ status \in [Pools -> Statuses]
          /\ \A u \in Tasks : task[u].attempt <= Retries[u] + 1
  BY DEF TypeOK
<1>1. TypeOK'
  BY <1>types DEF TypeOK, PausedHasRetry, Pools, Statuses
<1>2. NeverHalfClosed'
  BY <1>types DEF NeverHalfClosed, Pools
<1>3. StagesInOrder'
  BY <1>types DEF StagesInOrder, StagesAwaited, Untouched
<1>4. SecondPoolOnlyAfterClose'
  BY <1>types DEF SecondPoolOnlyAfterClose, PoolIsThere, Untouched, Pools
<1>5. PausedHasRetry'
  BY <1>types DEF PausedHasRetry
<1>6. WorkersAreOfRunning'
  BY <1>types DEF WorkersAreOfRunning
<1>7. Untouched'
  BY <1>types DEF Untouched
<1>8. StagesAwaited'
  BY <1>types DEF StagesAwaited, Untouched, StagesInOrder
<1>9. PoolIsThere'
  BY <1>types DEF PoolIsThere, Untouched, Workers
<1>10. Tidy'
  BY <1>types DEF Tidy, SecondPoolOnlyAfterClose, PoolIsThere, WorkersAreOfRunning,
     Untouched, StagesAwaited, NeverHalfClosed
<1> QED
  BY <1>1, <1>2, <1>3, <1>4, <1>5, <1>6, <1>7, <1>8, <1>9, <1>10

\* Nobody is left.
LEMMA ExitHolds == ASSUME IndInv, Exit PROVE IndInv'
<1> USE FlowAssumption DEF IndInv, Exit, NoPool, Owners
<1>types. /\ task \in [Tasks -> Attempts] /\ work \in [Owners -> Workers]
          /\ pool \in 0 .. MaxPools /\ stage \in 0 .. LastStage
          /\ status \in [Pools -> Statuses]
          /\ \A u \in Tasks : task[u].attempt <= Retries[u] + 1
  BY DEF TypeOK
<1>moves. /\ task' = Cancelled /\ task' \in [Tasks -> Attempts]
          /\ \A t \in Tasks : task'[t].pc = IF task[t].pc \in {"run", "paused"}
                                            THEN "cancelled" ELSE task[t].pc
          /\ \A t \in Tasks : task'[t].attempt = task[t].attempt
          /\ work' \in [Owners -> Workers]
  BY <1>types, CancelledShape, NoWorkIsWorkers
<1>1. TypeOK'
  BY <1>types, <1>moves DEF TypeOK, PausedHasRetry, Pools, Statuses
<1>2. NeverHalfClosed'
  BY <1>types, <1>moves DEF NeverHalfClosed
<1>3. StagesInOrder'
  BY <1>types, <1>moves DEF StagesInOrder, StagesAwaited, Untouched
<1>4. SecondPoolOnlyAfterClose'
  BY <1>types, <1>moves DEF SecondPoolOnlyAfterClose, PoolIsThere, Untouched, Pools
<1>5. PausedHasRetry'
  BY <1>types, <1>moves DEF PausedHasRetry
<1>6. WorkersAreOfRunning'
  BY <1>types, <1>moves DEF WorkersAreOfRunning
<1>7. Untouched'
  BY <1>types, <1>moves DEF Untouched
<1>8. StagesAwaited'
  BY <1>types, <1>moves DEF StagesAwaited, Untouched, StagesInOrder
<1>9. PoolIsThere'
  BY <1>types, <1>moves DEF PoolIsThere, Untouched, Workers
<1>10. Tidy'
  BY <1>types, <1>moves DEF Tidy, SecondPoolOnlyAfterClose, PoolIsThere,
     WorkersAreOfRunning, Untouched, StagesAwaited, NeverHalfClosed, Attempts
<1> QED
  BY <1>1, <1>2, <1>3, <1>4, <1>5, <1>6, <1>7, <1>8, <1>9, <1>10

-----------------------------------------------------------------------------
(* Theorems.                                                               *)

\* Every step keeps the invariant.
LEMMA StepHolds == IndInv /\ [Next]_vars => IndInv'
<1> SUFFICES ASSUME IndInv, [Next]_vars PROVE IndInv'
  OBVIOUS
<1>1. CASE Start
  BY <1>1, StartHolds
<1>2. CASE StageDone
  BY <1>2, StageDoneHolds
<1>3. CASE StageFails
  BY <1>3, StageFailsHolds
<1>4. CASE Closed
  BY <1>4, ClosedHolds
<1>5. CASE Interrupt
  BY <1>5, InterruptHolds
<1>6. CASE Exit
  BY <1>6, ExitHolds
<1>7. ASSUME NEW t \in Tasks, Spawn(t) \/ TaskStep(t) PROVE IndInv'
  BY <1>7, SpawnHolds, RetryHolds, TaskEndsHolds, AttemptFailsHolds DEF TaskStep
<1>8. ASSUME NEW o \in Owners, WorkerStep(o) PROVE IndInv'
  BY <1>8, GetHolds, OpenedHolds, WorkerEndsHolds DEF WorkerStep
<1>9. CASE UNCHANGED vars
  BY <1>9 DEF vars, IndInv, TypeOK, NeverHalfClosed, StagesInOrder,
     SecondPoolOnlyAfterClose, PausedHasRetry, WorkersAreOfRunning, Untouched,
     StagesAwaited, PoolIsThere, Tidy
<1> QED
  BY <1>1, <1>2, <1>3, <1>4, <1>5, <1>6, <1>7, <1>8, <1>9 DEF Next, Flow

\* The invariant holds throughout.
LEMMA Inductive == Spec => []IndInv
  BY InitHolds, StepHolds, PTL DEF Spec

\* The variables keep their types, and no task is tried more often than its
\* retries= says.
THEOREM TypeCorrect == Spec => []TypeOK
  BY Inductive, PTL DEF IndInv

\* get_connection() and close_all(): whoever finds a pool finds an open one.
THEOREM PoolNeverHalfClosed == Spec => []NeverHalfClosed
  BY Inductive, PTL DEF IndInv

\* etl_flow: a stage starts after all tasks of the stages before it are done,
\* and the flow succeeds only if all are.
THEOREM StagesStayInOrder == Spec => []StagesInOrder
  BY Inductive, PTL DEF IndInv

\* initialize(): one pool until close_all() detaches it.
THEOREM OnePoolUntilClose == Spec => []SecondPoolOnlyAfterClose
  BY Inductive, PTL DEF IndInv

\* close_all(): a flow without a failed attempt leaves no pool open, however
\* it ends.
THEOREM LeakAlwaysNeedsFailure == Spec => []LeakNeedsFailure
<1>1. IndInv => LeakNeedsFailure
  BY DEF IndInv, Tidy, LeakNeedsFailure
<1> QED
  BY <1>1, Inductive, PTL
=============================================================================
