--------------------------- MODULE SalarySnapshot ---------------------------
(***************************************************************************)
(* From core rows to the daily snapshot: currency_converter.run_conversion  *)
(* and analytics_snapshot.build_snapshot, as the last two stages of the     *)
(* flow and as commands of their own, in processes that may overlap.        *)
(*                                                                         *)
(* Days are numbered from 1.  A rate is known by the day it was fetched on;  *)
(* 0 is NULL.  A row of the snapshot stands for the records it counts and    *)
(* the USD values it averages.                                              *)
(***************************************************************************)
EXTENDS Integers, FiniteSets

CONSTANTS
    Procs,      \* processes
    Rows,       \* rows of core.vacancies and core.resumes
    Kind,       \* "vacancy" or "resume", for every row
    Market,     \* search_category of a vacancy's staging row
    Currency,   \* currency of a row's salary; "none" for a row without salary
    MaxDays,    \* bound: days
    MaxStarts   \* bound: processes started

Days == 1 .. MaxDays
Currencies == {"USD", "UAH", "EUR"}

ASSUME RowsAssumption ==
    /\ IsFiniteSet(Rows)
    /\ Kind \in [Rows -> {"vacancy", "resume"}]
    /\ Market \in [Rows -> STRING]
    /\ Currency \in [Rows -> Currencies \cup {"none", "other"}]
ASSUME BoundAssumption == MaxDays \in Nat \ {0} /\ MaxStarts \in Nat

VARIABLES
    today,      \* date.today() and CURRENT_TIMESTAMP
    created,    \* day of created_at, 0 while there is no row
    usd,        \* day of the rate of *_salary_usd_eq, 0 for NULL
    shows,      \* the snapshot of a day: for every row -1 (not counted) or its usd
    proc,       \* the processes
    starts,     \* processes started
    raced,      \* history: conversions that overlapped, builds that overlapped
    settled     \* history: rows whose flow built the snapshot of their day

core == <<created, usd>>
history == <<raced, settled>>
vars == <<today, core, shows, proc, starts, history>>

-----------------------------------------------------------------------------
Hidden == [r \in Rows |-> -1]

Off == [pc |-> "off", task |-> "none", made |-> {}, rates |-> {}, rateDay |-> 0,
        table |-> "none", chosen |-> {}, writes |-> {}, target |-> 0, seen |-> Hidden]

Set(p, s) == proc' = [proc EXCEPT ![p] = s]

\* A process is started: the flow by cron, the others from the command line.
\* A backfill is a series of builds of one day each.
Start(p) ==
    /\ proc[p].pc = "off"
    /\ starts < MaxStarts
    /\ starts' = starts + 1
    /\ \/ Set(p, [Off EXCEPT !.pc = "nlp", !.task = "flow"])
       \/ Set(p, [Off EXCEPT !.pc = "rates", !.task = "convert"])
       \/ \E d \in 1 .. today :
            Set(p, [Off EXCEPT !.pc = "build", !.task = "snapshot", !.target = d])
    /\ UNCHANGED <<today, core, shows, history>>

\* The NLP stage commits a row.
Persist(p, r) ==
    /\ proc[p].pc = "nlp"
    /\ created[r] = 0
    /\ created' = [created EXCEPT ![r] = today]
    /\ Set(p, [proc[p] EXCEPT !.made = @ \cup {r}])
    /\ UNCHANGED <<today, usd, shows, starts, history>>

NlpDone(p) ==
    /\ proc[p].pc = "nlp"
    /\ Set(p, [proc[p] EXCEPT !.pc = "rates"])
    /\ UNCHANGED <<today, core, shows, starts, history>>

\* The process fails or is killed; its transaction is rolled back.
Fail(p) ==
    /\ proc[p].pc # "off"
    /\ Set(p, Off)
    /\ UNCHANGED <<today, core, shows, starts, history>>

-----------------------------------------------------------------------------
(* run_conversion.                                                         *)

\* The stage after the conversion: the flow builds a snapshot.
AfterConversion(p) ==
    IF proc[p].task = "flow" THEN [proc[p] EXCEPT !.pc = "build"] ELSE Off

\* get_conversion_rates(): all rates, no EUR, or none at all, in which case
\* the conversion is skipped.
Rates(p) ==
    /\ proc[p].pc = "rates"
    /\ \/ \E known \in {{"USD", "UAH"}, Currencies} :
            Set(p, [proc[p] EXCEPT !.pc = "select", !.table = "vacancy",
                                   !.rates = known, !.rateDay = today])
       \/ Set(p, AfterConversion(p))
    /\ UNCHANGED <<today, core, shows, starts, history>>

Converting(p) == proc[p].pc \in {"select", "update", "commit"}

\* Slip: converted rows are chosen again.
Unconverted_Any(table) ==
    {r \in Rows : Kind[r] = table /\ created[r] # 0}

Unconverted(table) ==
    {r \in Rows : Kind[r] = table /\ created[r] # 0 /\ usd[r] = 0}

\* process_table(): the rows without USD values whose currency has a rate.
Select(p) ==
    /\ proc[p].pc = "select"
    /\ Set(p, [proc[p] EXCEPT
                 !.pc = "update",
                 !.chosen = {r \in Unconverted(proc[p].table) :
                                Currency[r] \in proc[p].rates}])
    /\ raced' = [raced EXCEPT !.rates = @ \/ \E q \in Procs \ {p} : Converting(q)]
    /\ UNCHANGED <<today, core, shows, starts, settled>>

\* Slip: the resumes are forgotten.
Update_OneTable(p) ==
    /\ proc[p].pc = "update"
    /\ \A q \in Procs \ {p} : proc[q].writes \cap proc[p].chosen = {}
    /\ Set(p, [proc[p] EXCEPT !.pc = "commit",
                              !.writes = @ \cup proc[p].chosen,
                              !.chosen = {}])
    /\ UNCHANGED <<today, core, shows, starts, history>>

\* The UPDATE by id waits while another transaction has written one of the
\* rows.  It does not look at the USD values again.
Update(p) ==
    /\ proc[p].pc = "update"
    /\ \A q \in Procs \ {p} : proc[q].writes \cap proc[p].chosen = {}
    /\ Set(p, [proc[p] EXCEPT
                 !.pc = IF proc[p].table = "vacancy" THEN "select" ELSE "commit",
                 !.table = "resume",
                 !.writes = @ \cup proc[p].chosen,
                 !.chosen = {}])
    /\ UNCHANGED <<today, core, shows, starts, history>>

Commit(p) ==
    /\ proc[p].pc = "commit"
    /\ usd' = [r \in Rows |-> IF r \in proc[p].writes THEN proc[p].rateDay ELSE usd[r]]
    /\ Set(p, [AfterConversion(p) EXCEPT !.writes = {}])
    /\ UNCHANGED <<today, created, shows, starts, history>>

-----------------------------------------------------------------------------
(* build_snapshot.                                                         *)

Building(p) == proc[p].pc \in {"vacancies", "write"}

\* Slip: the day asked for is ignored.
Aggregate_Today(table, day, seen) ==
    [r \in Rows |-> IF Kind[r] # table THEN seen[r]
                    ELSE IF created[r] = today THEN usd[r] ELSE -1]

\* What an aggregation of a day sees of the rows of one table.
Aggregate(table, day, seen) ==
    [r \in Rows |-> IF Kind[r] # table THEN seen[r]
                    ELSE IF created[r] = day THEN usd[r] ELSE -1]

\* The day is fixed and the resumes are aggregated.
ReadResumes(p) ==
    LET day == IF proc[p].task = "flow" THEN today ELSE proc[p].target IN
    /\ proc[p].pc = "build"
    /\ Set(p, [proc[p] EXCEPT !.pc = "vacancies", !.target = day,
                              !.seen = Aggregate("resume", day, Hidden)])
    /\ raced' = [raced EXCEPT !.builds = @ \/ \E q \in Procs \ {p} : Building(q)]
    /\ UNCHANGED <<today, core, shows, starts, settled>>

\* The vacancies are aggregated by category, in a statement of their own.
ReadVacancies(p) ==
    /\ proc[p].pc = "vacancies"
    /\ Set(p, [proc[p] EXCEPT !.pc = "write",
                              !.seen = Aggregate("vacancy", proc[p].target, @)])
    /\ UNCHANGED <<today, core, shows, starts, history>>

\* The rows of the snapshot a build writes: 'ALL' for the resumes and one for
\* each category that has vacancies.
Written(p) ==
    {r \in Rows :
        \/ Kind[r] = "resume"
        \/ \E v \in Rows : /\ Kind[v] = "vacancy"
                           /\ Market[v] = Market[r]
                           /\ proc[p].seen[v] # -1}

\* Slip: rows that are there already are left as they are.
Upserted_DoNothing(p) ==
    [r \in Rows |-> IF r \in Written(p) /\ \A q \in Written(p) : shows[proc[p].target][q] = -1
                    THEN proc[p].seen[r] ELSE shows[proc[p].target][r]]

Upserted(p) ==
    [r \in Rows |-> IF r \in Written(p) THEN proc[p].seen[r]
                    ELSE shows[proc[p].target][r]]

\* All rows in one transaction (or the single row 'ALL' in one statement).
Write(p) ==
    /\ proc[p].pc = "write"
    /\ shows' = [shows EXCEPT ![proc[p].target] = Upserted(p)]
    /\ settled' = settled \cup {r \in proc[p].made : created[r] = proc[p].target}
    /\ Set(p, Off)
    /\ UNCHANGED <<today, core, starts, raced>>

-----------------------------------------------------------------------------
NewDay ==
    /\ today < MaxDays
    /\ today' = today + 1
    /\ UNCHANGED <<core, shows, proc, starts, history>>

Init ==
    /\ today = 1
    /\ created = [r \in Rows |-> 0]
    /\ usd = [r \in Rows |-> 0]
    /\ shows = [d \in Days |-> Hidden]
    /\ proc = [p \in Procs |-> Off]
    /\ starts = 0
    /\ raced = [rates |-> FALSE, builds |-> FALSE]
    /\ settled = {}

Work(p) ==
    \/ \E r \in Rows : Persist(p, r)
    \/ NlpDone(p)
    \/ Rates(p)
    \/ Select(p)
    \/ Update(p)
    \/ Commit(p)
    \/ ReadResumes(p)
    \/ ReadVacancies(p)
    \/ Write(p)

Next ==
    \/ \E p \in Procs : Start(p) \/ Work(p) \/ Fail(p)
    \/ NewDay

Spec == Init /\ [][Next]_vars

-----------------------------------------------------------------------------
(* Properties.                                                             *)

Process ==
    [pc : {"off", "nlp", "rates", "select", "update", "commit", "build",
           "vacancies", "write"},
     task : {"none", "flow", "convert", "snapshot"},
     made : SUBSET Rows,
     rates : SUBSET Currencies,
     rateDay : 0 .. MaxDays,
     table : {"none", "vacancy", "resume"},
     chosen : SUBSET Rows,
     writes : SUBSET Rows,
     target : 0 .. MaxDays,
     seen : [Rows -> -1 .. MaxDays]]

\* The shape of the state.
TypeOK ==
    /\ today \in Days
    /\ created \in [Rows -> 0 .. MaxDays]
    /\ usd \in [Rows -> 0 .. MaxDays]
    /\ shows \in [Days -> [Rows -> -1 .. MaxDays]]
    /\ proc \in [Procs -> Process]
    /\ starts \in 0 .. MaxStarts
    /\ raced \in [rates : BOOLEAN, builds : BOOLEAN]
    /\ settled \subseteq Rows

\* A rate is frozen with the first conversion of a row, unless two
\* conversions overlapped.
RevaluedOnlyInRace ==
    [][\A r \in Rows : usd[r] # 0 /\ usd'[r] # usd[r] => raced.rates]_vars

\* A snapshot never forgets a row or its value, however often and for
\* whatever day it is built, unless two builds overlapped.
ForgetsOnlyInRace ==
    [][\A d \in Days, r \in Rows :
          shows[d][r] > shows'[d][r] => raced.builds \/ raced.rates]_vars

\* What a flow persisted is counted in the snapshot of its day if the flow
\* built that snapshot, which a flow that runs into the next day does not.
SettledIsCounted ==
    raced.builds \/ \A r \in settled : shows[created[r]][r] # -1

\* A flow that found all rates writes no row of its own with a salary and
\* without a value, whatever other processes convert and build meanwhile.
OwnRowsArePriced ==
    \A p \in Procs : \A r \in proc[p].made :
        /\ proc[p].pc = "write"
        /\ proc[p].rates = Currencies
        /\ Currency[r] \in Currencies
        => proc[p].seen[r] # 0

=============================================================================
