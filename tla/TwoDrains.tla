----------------------------- MODULE TwoDrains -----------------------------
(***************************************************************************)
(* Two processes of the pipeline drain the queue of one record type at the  *)
(* same time: a run that cron starts while the one before it still works.   *)
(* Nothing keeps them apart but the tables.  Each process has its own loop,  *)
(* jobs and budgets; a process that meets a core row of the other at its     *)
(* insert can only abort, because staging_id is unique there.               *)
(*                                                                         *)
(* The first process is NlpDrain itself, the second one an instance of it   *)
(* over the same tables.                                                    *)
(***************************************************************************)
EXTENDS NlpDrain

VARIABLES
    available2, main2, job2, runs2,   \* the second process
    shared    \* history: records both have been working on at the same time

Second == INSTANCE NlpDrain
    WITH available <- available2, main <- main2, job <- job2, runs <- runs2

own1 == <<available, main, job, runs>>
own2 == <<available2, main2, job2, runs2>>
bothVars == <<tables, resolves, own1, own2, shared>>

AtWork(j) == j.pc \notin Ended \cup {"none"}

\* Both have the record in their batch, queued or running.
Note ==
    shared' = [r \in Records |->
                 shared[r] \/ (AtWork(job'[r]) /\ AtWork(job2'[r]))]

BothInit == Init /\ Second!Init /\ shared = [r \in Records |-> FALSE]

BothNext ==
    \/ Next /\ UNCHANGED own2 /\ Note
    \/ Second!Next /\ UNCHANGED own1 /\ Note

BothSpec == BothInit /\ [][BothNext]_bothVars

\* The event loop of the first process goes on with every coroutine that can;
\* the second one may stop anywhere.
Fairness ==
    /\ WF_bothVars(Loop /\ UNCHANGED own2 /\ Note)
    /\ \A r \in Records : WF_bothVars(Work(r) /\ UNCHANGED own2 /\ Note)

BothFairSpec == BothSpec /\ Fairness

-----------------------------------------------------------------------------
(* Properties.                                                             *)

\* What one process promises of a processed record, weakened by exactly what
\* an overlap does to it: it stands among the open failures only if both
\* processes had it in their batches at once, or an acknowledgement was lost.
FailedInCoreOnlyIfShared ==
    \A r \in Records : core[r] /\ open[r] > 0 => unacked[r] \/ shared[r]

\* The same of RecordLifecycle: two processes add one move to it, a record
\* that one of them gave up on and the other one then finishes.
KeepsLifecycleApart ==
    [][\/ Lifecycle!Next
       \/ \E r \in Records :
             shared[r] /\ Lifecycle!Becomes(r, "failed", "done")
      ]_[r \in Records |-> Status(r)]

\* The loop of a process ends, whatever the other one takes from its queue,
\* puts back there or leaves half done.
FirstEnds == main.pc = "check" ~> main.pc = "done"
=============================================================================
