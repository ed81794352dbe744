# Formal models of the labor market analytics system

TLA+ models, TLC runs and TLAPS proofs for the Python program in this repository: a nightly
pipeline that collects vacancies and resumes from Ukrainian job boards, enriches them with free LLM
providers, converts salaries, and builds daily market snapshots, next to a FastAPI service that
reads the result. `PROJECT.json` lists components, runs, mutants, the source lines of every
definition, findings, hazards and theorems. Paths below are relative to the repository.

## 1. The system

### Components

| Component | Code | State it keeps | Operations that change it |
|---|---|---|---|
| LLM cascade | `src/processor/llm_cascade.py`, `rate_limiter.py` | process-wide list `PROVIDERS`: daily counters, cooldown, `disabled`, token bucket of each | `complete()`, `DailyBudget.record`, `acquire()`, `trip_cooldown` |
| NLP orchestrator | `nlp_pipeline.py`, `failure_tracker.py` | local state of one record's job; table `staging.failed_records` | `run_llm_record`, `record_failure`, `mark_resolved` |
| Drain loops | `nlp_vacancies.py`, `nlp_resumes.py` | batch, `no_progress`; tables `staging.raw_*`, `core.*` | batch query, `gather`, `persist` |
| Dictionary resolvers | `llm_utils.py`, `skill_normalizer.py` | cache shared by the coroutines of a record type; tables `dictionaries.*` | `get_or_create_*`, `resolve_skill_id` |
| Currency converter | `currency_converter.py` | `*_salary_usd_eq` columns | `run_conversion` |
| Snapshot | `analytics_snapshot.py` | `analytics.daily_market_snapshots` | `build_snapshot`, `backfill_history` |
| ETL flow | `run_pipeline.py` | Prefect task states | `etl_flow` and its eight tasks |
| Database pool | `src/db/database.py` | `AsyncDatabasePool._pool` | `initialize`, `get_connection`, `close_all` |
| Collectors | `src/scrapers/*`, `src/sources/*` | `staging.raw_*` | paging, `fetch_html` with retries, insert |
| Admin API | `src/admin/*` | `failed_records.is_resolved` | `resolve_failure`; the rest reads |
| Authentication | `src/auth/*`, `scripts/create_user.py` | `auth.users` | start-up, seeding, login, `touch_and_get_active` |
| API rate limit | `src/api/ratelimit.py` | time stamps per client | `check`, `_sweep` |
| Public search | `src/client/*` | none; a visitor's page number is in the browser | read only: `find_many`, `count` |
| Analytics, health | `src/api/routes/*`, `src/api/main.py` | none | read only; the lifespan of the process |
| Visits | `src/tracking/*` | `analytics.visits` | one insert, one delete of old rows |
| Frontend, scripts, deployment | `frontend`, `install.sh`, `docker-compose*.yml`, `docs` | none of the pipeline's | none |

### How they interact

- `etl_flow` runs in one process and one event loop: first four collectors side by side, then the
  two drain loops side by side, then conversion, then the snapshot. Cron starts it, and nothing
  keeps two runs apart.
- All tasks of a flow share one connection pool. The flow opens it, every coroutine that finds none
  opens one, and the flow closes it whatever its tasks are doing.
- Both drain loops start up to `LLM_CONCURRENCY` coroutines each. All of them call `complete()` and
  so share `PROVIDERS`: the counters, cooldowns and buckets are shared memory, read and written
  between awaits.
- A successful call is persisted in one transaction per record. The coroutines of one record type
  share the dictionary cache, the transactions share the tables.
- The admin API runs in another process and resolves failures in the same tables at any time.
- The API reads what the pipeline has committed, page by page, each page in a query of its own.
- API processes that start create the same schemas and the same first account, beside each other and
  beside `scripts/create_user.py`.

### What is hard in it

Shared state read before an await and used after it (budget, cooldown, `disabled`, `_pool`, cached
ids, the row a login was decided on); checks without the lock that guards the writes; results of
different coroutines in any order; coroutines that outlive the `gather()` that started them; a commit
whose acknowledgement is lost; a process killed at any point and started again with empty counters
and full tables; two processes on one queue; retries bounded per record and per batch by different
rules; a bucket without a queue; transactions that wait for each other's unique keys; lists that
change while they are read page by page. `PROJECT.json` "hazards" has each at its line.

### What makes each component correct

- Cascade: the stop of a day is overshot by a known amount only; `AllProvidersExhausted` is raised
  only when waiting is useless; `AllProvidersBusy` always asks for a pause; `complete()` returns,
  unless other calls overtake it and fail for ever.
- Orchestrator and drain: a record is pending, then done for good or failed, and a failed one is
  tried again only when its failure is resolved; busy providers alone never make a failure; the
  loop ends, beside another process too.
- Resolvers: a core row refers to the committed row of the name it was resolved from; two record
  types never deadlock over companies, locations and sources.
- Converter and snapshot: a salary is converted once, at a real rate; a snapshot row is the
  aggregate of its day.
- Pool and flow: nobody gets a pool that is being closed; one pool while the flow works; no pool is
  left open by a flow in which nothing failed; stages in order; the flow ends.
- Collectors: nothing that was listed is passed over without a reason; a row is stored once per
  source and external id and never rewritten; a scan ends.
- Authentication: a deactivated or deleted account is refused at its next request; every process
  comes to serve; somebody active is shown as online.
- API rate limit: at most `limit` requests in any window; a client that waits `Retry-After` is let in.
- Search: whoever turns the pages to the last one sees everything found at the start; page and total
  agree.

## 2. Modules

| Module | What it is | Proofs |
|---|---|---|
| `LlmCascade` | `complete()` for any number of coroutines over any number of providers | `LlmCascade_proofs` |
| `Completion` | abstract specification: what `complete()` promises its callers | refinement in `LlmCascade_proofs` |
| `NlpDrain` | drain loop, `run_llm_record` and the tables, for one record type | `NlpDrain_proofs` |
| `RecordLifecycle` | abstract specification: what the NLP stage promises about a record | refinement in `NlpDrain_proofs` |
| `TwoDrains` | `NlpDrain` and an instance of it over the same tables | `NlpDrain_proofs` |
| `DictionaryCache` | transactions of `persist()` with the shared cache, on PostgreSQL | `DictionaryCache_proofs` |
| `EtlFlow` | the flow, its tasks and their coroutines, and the pool they share | `EtlFlow_proofs` |
| `Collector` | the collectors over a job board that changes | `Collector_proofs` |
| `SalarySnapshot` | conversion and snapshot, in processes that may overlap | `SalarySnapshot_proofs` |
| `AuthSessions` | accounts, start-up, login and tokens, in several processes | `AuthSessions_proofs` |
| `SlidingWindow` | the rate limit of the API | `PublicApi_proofs` |
| `Search` | a visitor turning pages while the pipeline adds rows | `PublicApi_proofs` |
| `MC*` | constants for TLC; one `.cfg` per question | - |

The modules meet where the program's parts do: `NlpDrain` sees the cascade through the results of
`complete()`, and what it assumes of them is `Completion`, which `LlmCascade` implements; `NlpDrain` takes the
transaction that `DictionaryCache` opens up as one step; `EtlFlow` counts the coroutines whose work
`Collector` and `NlpDrain` describe; the rows `SalarySnapshot` converts and `Search` finds are the
rows `NlpDrain` commits.

A definition with an underscore in its name (`OutOfBudget_Strict`, `Abort_NoTransaction`, ...) stands
before the definition it distorts the way a slip in the code would. These are the mutants of
`PROJECT.json`: each breaks the property it is listed for, so the property does say something about
the code.

### LlmCascade and Completion

An asyncio coroutine runs without interruption from one suspension to the next. `complete()`
suspends in `acquire()` and in the HTTP call only; the two `asyncio.Lock`s are never held across an
await, so they never suspend anybody. An action is therefore one whole segment: `Begin` (the call,
up to the first suspension), `Wake` (a token is there: the second check of line 253, then the call
or the rest of the list), the five ways a call can end (`Text`, `EmptyText`, `RateLimited`,
`ModelGone`, `OtherError`; four of them go on along the list), `Take` (the caller has the result),
`Tick` and `Restart`. `Scan` is the loop over `PROVIDERS`: it stops at the first ready provider
(`StopAt`) or falls out of the list (`GiveUp`).

State: `requests`, `tokens` (`DailyBudget`), `cooldown`, `disabled`, `nextToken` (the bucket with
`burst = 1`, as ticks to the next whole token), and per coroutine where it is suspended, `saw_budget`
and the list `cooldowns` (a set: only its minimum is used). Deadlines are kept as remaining ticks,
so no clock is bounded. `banned`, `late` and `billed` are history: they are never read by an action.
`billed` is what a provider has counted for good: requests it answered, and those that were under way
when a process was killed, which it has received although nobody heard the answer. With the calls in
flight it is what was sent over the day less what failed.
Not modelled: the text of errors (whether a message is a 429 or a missing model is the choice of
the action), the length of the pause (`RetryAfter`), the retries inside the client library. Requests
that end in an error (429, 5xx, timeout) are in none of the counts, as `DailyBudget.record` is not
called for them; whether the provider counts them is its own affair, and the code sets no bound on
how many there are in a day.

`Completion` says what `complete()` is for its callers: `AllProvidersExhausted` comes at once, exactly
when no provider is left; a call that got past that ends with a text or with `AllProvidersBusy`, even
if the budgets run out while it waits; only the answer to a call uses up the last provider, and only
a restart brings one back. `LlmCascade` implements it with `any_available()` and the results as the
mapping (`KeepsContract`), although it reads the list provider by provider without a lock.

Checked: `RequestsBounded`, `TokensBounded`, `ExhaustedIsFinal`, `LateCallsBounded`,
`BusyAsksToWait` (run `cascade`); `BilledBounded`, `KeepsContract` and the liveness property
`CallsReturn` (run `cascade_live`). Run `cascade` checks deadlock too: somebody can always go on.

Fairness is weak: `WF(Tick)` (time passes), `WF(Wake(t))` (the event loop wakes a sleeper whose token
stays there), `WF(Answer(t))` (the HTTP client has a timeout). Callers are not obliged to call.
`acquire()` has no queue: whoever finds its token taken sleeps again, and nothing orders it before
those that come later. So it is not true that every coroutine leaves `complete()`: one may be
overtaken for ever, and TLC has the behaviour, in which two others call, fail, wait out the cooldown
and call again. `CallsReturn` says that this is the only kind of behaviour in which it happens: calls
that are answered use up the budget that lets others overtake it, a provider that is switched off
draws no newcomers, and during a cooldown they do not compete. A run of the NLP stage makes
finitely many calls (three attempts for a record of a batch, and the loop ends after two batches
without a success), so there each one returns, however late.

### NlpDrain and RecordLifecycle

One record type in one process. `Check`, `Fetch`, `Gathered` are the drain loop; `Start`, `Valid`,
`Invalid`, `Unknown`, `AllBusy`, `Awake`, `Commit`, `CommitUnacked`, `Abort`, `RecordFailure`,
`RecordFails` the coroutine of a record; `Deplete` the budget running out, `Crash`, `Collect`, `Run`,
`Resolve` the environment. The tables are `raw`, `core`, `open` (the `attempt_count` of the open
failure, 0 if there is none). A transaction of `persist()` is one step, because within one process
nobody else writes these rows; its three ends (committed, committed but not acknowledged, rolled
back) are three actions. `complete()` is seen through its results, as `Completion` has
them: `Attempt` leaves the record in the queue exactly when nothing is available, a coroutine in a
call never hears `AllProvidersExhausted`, and only `Run` makes `available` true. `Deplete` may come at
any time, because the coroutines of the other record type use up the same providers.

`RecordLifecycle` says what the stage is for: absent, pending, then done for ever or failed, and
back from failed to pending only. `NlpDrain` implements it under the mapping `Status`
(`KeepsLifecycle`), whatever crashes, lost acknowledgements, failing inserts and manual resolutions
do. Further, in run `drain`: `FailedInCoreOnlyIfUnacked`, `AttemptCountBounded`,
`TransientIsNotRecorded`, `OnlyPendingIsTried`, and `BatchesAreFair`: no batch leaves behind a record it
has room for, and a batch of vacancies takes the oldest of every source in equal numbers, so no
backlog of one source keeps the others from the daily budget. The resumes have no such order, and
none is claimed. The system really stops when the last run is over,
so this run does not check deadlock.

### TwoDrains

A run that cron starts while the one before it still works. `TwoDrains` extends
`NlpDrain`, whose variables are those of the first process, and takes it a second time as the
instance `Second`, with the tables in common and a loop, jobs and budgets of its own; a step is a
step of one of them. The
second process to insert a record meets the unique `staging_id` and can only abort, so `Commit` of
`NlpDrain` asks for a record that is not in `core` yet - in one process that always holds.

The promises of one process fail here, and the run `overlap` says by how much:
`FailedInCoreOnlyIfShared` (a processed record stands among the open failures only if both processes
had it in their batches at once, or an acknowledgement was lost) and `KeepsLifecycleApart` (two
processes add exactly one move to `RecordLifecycle`: what one gave up on the other may finish).
`FirstEnds` is liveness: the loop of a process ends whatever the other one takes from its queue, puts
back there or leaves half done. Fairness: weak, of the first process's loop and of each of its
coroutines (calls and queries return or fail, pauses end); the second process has none and may stop
anywhere. `shared` is history.

### DictionaryCache

The transactions of `persist()` of both record types, with one cache each. A resolver is three
steps, as in the code: `Lookup` (cache), `Upsert` or `Select` and `InsertSkill` (the statement, which
may wait for another transaction's key), `Publish` (cache). `Insert` writes the references and
checks foreign keys; `Commit`, `Rollback`. PostgreSQL is modelled from what the code uses of it:
READ COMMITTED visibility, unique keys that wait, foreign keys checked against visible rows, ids
that are never reused, a deadlock detector. Names stand for whole keys (`country::city`, lower-case
skill names); synonyms are taken as resolved; ids of all tables come from one sequence.

Checked in run `dictionary`: `CoreRefsHold` (a committed record refers to the committed row of its
name, although the cache hands out ids of rows that never came to be), `OwnRefsHold`,
`CacheNeverMisnames`, `DeadlocksAreOfSkills`.

### EtlFlow

The flow in one process and one event loop. `phase` and `stage` say where `etl_flow` is, `task` which
attempt of a task runs or waits for its retry, `pool` is `AsyncDatabasePool._pool` and `status` what
has become of every pool ever created. A worker is a coroutine of a task between two uses of the
database; the workers of a task are alike, so `work` counts them: idle, inside `create_pool()`, or
holding a connection of some pool. `Get` is `get_connection()` up to its first suspension, `Opened`
the return of `create_pool()`, which overwrites `_pool`; `CloseAll` is `close_all()` up to the await
of `pool.close()`, `Closed` its return. `AttemptFails` leaves the siblings of a `gather()` that
raises to nobody (`Loose`); the tasks of `Gathering` are those whose `main()` gathers so, the others
raise only between two gathers. `StageFails` is the flow's own `gather()`: its other tasks go on
while the pool is closed. `Interrupt` is Ctrl+C, `Exit` the end of `asyncio.run()`.

Checked in run `flow`: `NeverHalfClosed`, `SecondPoolOnlyAfterClose`, `LeakNeedsFailure`, `FlowEnds`.
Fairness: weak, of the flow, of every task and of the workers of every owner - the event loop runs
each coroutine that can go on, and requests and queries end, well or not. A task is not obliged to
use up the workers it may start. The process exits, so deadlock is not checked.

### Collector

`main()` of one collector, with the retries Prefect gives its task, over a board that changes while
it is read. `scan` is where `main()` is (category, page, attempt), `page` what of the page at hand is
still to be stored, `loose` the page coroutines of a failed attempt that go on, `listing` the board
and `stored` the rows with the category they were stored under. The four collectors share one shape
and differ in `kind`: work.ua reads a page of its own for every posting, robota.ua and DOU bring the
description along; DOU has one feed, one page and one category. `ReadPage`, `PageLost`, `Check`,
`PageItem`, `ListedItem`, `PageDone` are the loop; `Fetches` says what the tries of one call can come
to; `Raise`, `Kill`, `Again`, `Run` end and start attempts; `Post` and `TakeDown` are the board.

`owed` is history: what stood in each category when the attempt started, emptied by every reason the
collector has for missing something. `ScanIsComplete` says that nothing else is missing: neither a
posting pushed from page to page while the pages are read, nor one on a page whose other postings
are known. `RowsAreFinal` says that a row is written once and under a category of its posting,
beside left-over coroutines too; `ScanEnds` is liveness. Fairness: `WF(Step)`: calls and queries
return or fail, the loop goes on, cron starts run after run. The board is free.

### SalarySnapshot

The last stages of the flow, and the converter and the snapshot builder as commands of their own.
Cron starts a flow every night and nothing keeps two of them, or a flow and a command, apart.
`Persist` is a row committed by the NLP stage; `Rates`, `Select`, `Update`, `Commit` are
`run_conversion()` (both tables in one transaction: the SELECT and the UPDATE of a table are two
statements, and an UPDATE waits for rows another transaction has written); `ReadResumes`,
`ReadVacancies`, `Write` are `build_snapshot()`. A backfill is a series of builds. `Fail` is an
error or a kill at any point. A USD value is the day of its rate, amounts are left out; a snapshot
row stands for the records it counts. `Rates` may find all rates, no EUR, or none at all, in which
case the conversion is skipped and the flow goes on to the snapshot, as the code does.

Checked in run `snapshot`: `RevaluedOnlyInRace`, `ForgetsOnlyInRace`, `SettledIsCounted`,
`OwnRowsArePriced`. Processes end and no more are started than the bound, so deadlock is not
checked.

### AuthSessions

API processes over `auth.users`, each with one request at a time; two of them show what two requests
do to each other. `Boot`, `EnsureAuth`, `SeedExists`, `SeedInsert`, `EnsureVisits` are `lifespan()` up
to its yield: two processes that found no schema create the same one, and the second may fail at the
catalogue and be started again (`restart: always`). `Login` and `Verify` are the two halves of
`/login` around the hashing, `Request`, `ById` (one statement: touch and read) and `ByName` with
`Touch` (a token of before the uid claim: two statements) are `get_current_user()`. `CliStart` and
`CliInsert` are `create_user`; `Activate`, `Deactivate`, `Delete` the operator at the database. One
clock in ticks stands for the hours of tokens and the minutes and seconds of presence; a token is
what its payload says.

`entitled` is history: was the token of a request good at some moment since the request came. Run
`auth`: `RevokedAtOnce`, `PresenceIsTight` (the throttle of the activity mark does not hide active
people) and `ProcessesServe`. Fairness: weak, of each process's start - it goes on with its lifespan,
and the container starts it again. Requests have none. Ids and time are bounded, so deadlock is not
checked.

### SlidingWindow

`check()` is synchronous, so a call is one step: `Admit` or `Refuse`. `hits` is `_hits` (a key that
is not in the dictionary has the empty deque), `lastSweep` is `_last_sweep`. `Fresh` is the
`popleft()` loop, `Sweep` is `_sweep()`. Time passes in ticks of any length, `Second` of them to a
second, because `Retry-After` is rounded up to whole seconds. `admitted` (when the last `Limit + 1`
requests of a client were let in) and `told` are history: the code does not keep them, and the
promises are about them. The deque is pruned, swept and recreated; that its length still bounds the
requests of every window is `WindowBounded`. A limit of 0 is excluded: `check()` would then index
an empty deque, and no endpoint uses it.

Checked in run `window`: `WindowBounded`, `RetryIsEnough`, `ForgetsIdle`. Nobody is ever stuck, so
deadlock is checked; the run ends at `MaxTime`, where requests still come.

### Search

A visitor of the public search. `Ask` is a request for a page, `Find` is `find_many()` (a page by
LIMIT and OFFSET with the number of all rows beside each of its own), `Count` the second query of a
page without rows, `Turn` and `Leave` the buttons. `VacancyMatches` and `ResumeMatches` are the
filters: a blank criterion is none, NULL meets none, experience is compared the other way round.
`Begin` and `End` are the transaction of a row - `created_at` is the time it began, and it becomes
visible when it ends - and `Convert` its salary. Rows of one time stamp come in any order, another
one in every query. The visitor waits for each page before turning to the next; that the frontend shows
the last answer while a page is loading (`placeholderData`, `hooks.ts:199`), so that an impatient one
could skip pages, is not modelled. An answer without rows has no buttons.

Checked in run `search`: `WalkIsComplete`, `EmptyOnlyBeyond`, and deadlock: there is always another
search. A search has no liveness of its own, so no fairness is assumed.

## 3. Runs and bounds

| Run | Bounds | Why they are enough |
|---|---|---|
| `cascade` | 3 coroutines, 2 providers, stops of 1 and 3 requests, pause 2, error cooldown 1, symmetric coroutines | one coroutine in the call, one asleep behind it and one arriving; the first provider runs out while the second has budget, and the second runs out by tokens |
| `cascade_live` | 1 provider, 3 coroutines, 1 restart | two sleepers compete with a newcomer for one bucket; a process is killed with three calls under way |
| `claim_cooldown` | 1 provider, 2 coroutines, pauses of 2 and 3 | section 4 |
| `drain` | 3 vacancies of 2 sources, batches of 2, 2 attempts, 2 runs, 1 resolution | a batch that leaves a record behind, a record that comes back in a later batch and in a later run |
| `overlap` | 2 resumes, batches of 1, 1 attempt, 1 run of each process | both take the same record, or one each and then the other's; one gives up before, between and after the steps of the other |
| `dictionary` | 2 vacancies and a resume at once, 3 transactions, 1 location, 1 source, 2 skills in both orders, symmetric vacancies and skills | the sharers of a cache and a stranger to it; one transaction rolls back, one has its id, one re-inserts the name |
| `flow` | 5 tasks in 3 stages, 2 workers for each attempt, 3 pools, 1 retry in the first stage | a task that gathers and one that does not, beside each other; two left-over workers open a second and a third pool |
| `collector` | 3 postings (one in both of 2 categories, one without description), 2 pages of 2 cards, 3 tries, 1 retry, all kinds, a filter that names no category | a posting is pushed to the second page and off it; a retry runs beside left-over coroutines; a later run finds rows of an earlier one |
| `snapshot` | 2 processes, 2 vacancies of different categories and currencies and a resume, 3 days, 2 starts | two conversions or builds overlap around midnight, and a row of an older day is rebuilt |
| `auth` | 2 processes, 1 name, 2 ids, tokens of 2 ticks, window 3, throttle 1, 4 ticks | both processes and the script start at once; an account and its successor of the same name; a token that expires, and one that outlives its account |
| `window` | 3 clients, 2 requests in 3 ticks, 2 ticks to a second, threshold 2, 6 ticks, symmetric clients | two whole windows, so sweeps by time and by number happen with hits on both sides of the cutoff |
| `search` | 4 rows with and without salary, experience and skill, both kinds, 3 filters, pages of 2, 2 ticks | a full page, a second one and rows that tie; a transaction that began earlier ends between two pages |

Bounds in the guards: `MaxRestarts`, `MaxRuns`, `MaxResolves`, `MaxPersists`, `MaxTime`, `MaxDays`,
`MaxStarts`, `Jobs`, `MaxPools`, `MaxIds`, `MaxPage`, and the set `Filters`. The theorems of section 5
hold for every value of the constants.

## 4. Where the code and its comments differ

One run with `expect: violation` checks what a comment says: `claim_cooldown` (`CooldownIsKept`). A
15-second cooldown of a later error overwrites the longer pause of an earlier 429
(`llm_cascade.py:133`), and calls start inside the announced pause, where the comment of line 120
says that all coroutines pass the provider over until then.

Met while modelling, without a run of their own:

- A coroutine that slept in `acquire()` calls a provider switched off meanwhile: line 253 does not
  look at `disabled`. `LateCallsBounded` says how many such calls there can be.
- `AllProvidersBusy` is also raised when a provider with budget is not cooling down (an empty text,
  or a cooldown that ended during the scan), where the comment of line 307 says all of them are.
- A restart on the same day grants the daily budget again, and what was under way when the old process
  ended is counted by the provider only; `BilledBounded` says what holds instead.
- The drain loop also stops after two batches that failed for reasons other than cooldowns.
- A record with a schema error is put off without a trace when its last attempt meets busy
  providers: the cause of the last attempt alone decides (`nlp_pipeline.py:117`), where the comment
  of line 112 says that all attempts failed so. `TransientIsNotRecorded` is the direction that holds.
- The last validation error is recorded twice (`nlp_pipeline.py:122-124`), so `attempt_count` can be
  one more than the attempts that were made. `AttemptCountBounded` is what holds.
- An id is put into the shared cache before its transaction commits. Another coroutine that uses it
  fails on the foreign key, where the comment at `skill_normalizer.py:13` counts on `ON CONFLICT` to
  resolve such races; if the first transaction rolls back, the id stays in the cache and every later
  record with that name fails until the process ends. `CoreRefsHold` says that none of this reaches
  a committed record.
- A conversion that overlaps another one around midnight overwrites its USD values at its own rate,
  because the UPDATE goes by id alone (`currency_converter.py:99`). `RevaluedOnlyInRace` is what
  holds.
- `database.py:4` speaks of one pool, initialised exactly once in a process. Siblings of a failed task
  that go on after `close_all()` open a second one that nobody closes; `SecondPoolOnlyAfterClose` and
  `LeakNeedsFailure` are what holds.
- Two drain processes can record a failure of a record the other one has processed;
  `FailedInCoreOnlyIfShared` says when.
- A page that cannot be had after all tries ends its category like the end of the list, and the task
  succeeds; the next run reads it again.
- A refused request of a deactivated account still moves its activity mark, so the account is shown
  as online. An administrator that is deleted is seeded again by the next start.
- The pending count of the admin page includes records the batch query leaves out, although
  `admin/services.py:36` calls the two the same query.
- A flow that runs past midnight builds the snapshot of the new day only: what it persisted before
  midnight stays out of the snapshot of its day until somebody starts a backfill. The same holds for
  a night without a rate: the values are filled in later, the snapshot is not rebuilt.

## 5. What is proved

The theorems are proved by TLAPS for every value of the constants that the `ASSUME`s of the modules
allow. Those say: constants have their types; the coroutines of the cascade, the transactions and
the rows of a snapshot are finite sets; the token stop of a provider exceeds the estimate of a call;
windows, pauses, pages and attempts are positive; names of different tables are different; the
throttle of the activity mark is shorter than the window of presence.

**`LlmCascade_proofs`** (`TypeCorrect`, `RequestsStayBounded`, `TokensStayBounded`,
`ExhaustedStaysFinal`, `LateCallsStayBounded`, `BusyAlwaysAsksToWait`, `BilledStaysBounded`), for any
number of coroutines and providers. The inductive invariant is the conjunction of the six safety
invariants, the type, and two facts none of them says: a suspended coroutine is at a provider and
has seen budget (`Suspended`), and only a disabled provider has late calls. They need each other:
a call that starts raises `InFlight` by one, so `RequestsBounded` needs the check made at that very
step; `ExhaustedIsFinal` survives because a scan that ends without budget saw every provider in the
state of one step and an answer only charges. `BilledBounded` is not inductive and is replaced by
`BilledBefore`, what the earlier processes left on the bill: a restart adds what `RequestsBounded`
allows, calls in flight included. The lemmas `ScanShape` and `ScanLands` say where the loop over the list can end, and
`BeginMoves`, `WakeMoves`, ... say of every segment what it changes, so the invariant is shown once
for `Moves`.

`CascadeKeepsContract` uses that every segment of `complete()` is one `Moves`: it takes one coroutine
to a place its caller may see next (`Turns`), and only the end of a call changes what is available,
never to more (`MovesUseUp`). That a coroutine past its entry never raises `AllProvidersExhausted` is
`Suspended`: it has seen budget, and `saw_budget` is never taken back.

**`NlpDrain_proofs`** for one process (`TypeCorrect`, `FailedInCoreNeedsLostAck`,
`AttemptCountStaysBounded`, `TransientNeverRecorded`, `OnlyPendingTried`, `StageKeepsLifecycle`,
`BatchesAlwaysFair`) and for two (`FailedInCoreNeedsShared`, `TwoKeepLifecycleApart`), for any number of
records, sources, runs, resolutions, any batch size and number of attempts. The invariant is about a row alone, as a value
(`Row(r)`: what the tables and one process's job say of it). `Reached` says for every place a
coroutine can be suspended at what it may rely on about its row (`AtQueued` ... `AtUnknown`: it still
waits in the queue, or it is committed without an acknowledgement, or its failure is open and only
the operator can close it), `Counted` and `Sound` bound the attempts and the failure's count, and
`Agree` says that the three tables agree. Every step takes every row along one of a few moves
(`Tries`, `GivesUp`, `Hears`, `Writes`, ..., `Rests`), and the moves keep the invariant of the row
(`MoveKeepsRow`) and map to at most one step of `RecordLifecycle` (`MoveTurns`, `TurnsOfLifecycle`).
Without `AtSleep` and `AtFinal` the refinement fails on paper: they bound what happens between the
two recordings of the last validation error.

`BatchesAlwaysFair` needs no invariant but an argument about the query: its ORDER BY is a strict order of
the whole queue (`BeforeOrders`), because row numbers rise within a source; a batch is a beginning of
it (`BatchIsBeginning`) with `BATCH_LIMIT` records (`RoundRobinIsFull`); the last record of a source in
the batch has the source's share for its row number, and the first one left out has the next
(`LastOfShare`, `FirstLeft`), so shares differ by one at most.

With two processes nobody can rely on `Reached` or `Agree` any more: the other process may take the
row away under a suspended coroutine. `BothInv` therefore keeps `Counted` and `Sound` of both processes
for every row, and the whole `RowInv` of a process for the rows that have not been `shared` - which is
inductive because a process that has such a row in its batch keeps the other one away from it
(`Shareable`, `OtherKeepsRow`): the moves of a process at work on the row change nothing for one that is
not, and when both are at work the row is shared from then on. The lemmas about moves serve both
processes; only `NextMoves`, that a step is a move, is proved once for each.

**`DictionaryCache_proofs`** (`TypeCorrect`, `CoreRefsAlwaysHold`, `OwnRefsAlwaysHold`,
`CacheNeverComesToMisname`, `DeadlocksAreAlwaysOfSkills`), for any number of coroutines, names and
lists of skills. The reference of a record, the cache and the two versions of a row are four places
an id can be in; the invariant says that there is one function from ids to names that all of them
agree with (`IdsAreUnique`), and that every id in use has been issued (`IssuedBefore`), so a new one
can be given to any name. An uncommitted row is locked by its transaction (`FreshIsLocked`);
`JobsAreSound` says what a transaction holds at each of its steps. Deadlocks are a matter of order:
whatever a transaction holds comes before what it waits for (`LocksInOrder`), with the skills last
and unordered among themselves, so a cycle of waiting is one of skills.

**`EtlFlow_proofs`** (`TypeCorrect`, `PoolNeverHalfClosed`, `OnePoolUntilClose`,
`LeakAlwaysNeedsFailure`, `StagesStayInOrder`), for any tasks, stages, retries and numbers of
workers. That every task finds a pool follows from `PoolIsThere` (while the flow works `_pool` is the
only pool ever created, so nobody is inside `create_pool()`); that nothing is left open from `Tidy`:
without a failed attempt there are no left-over workers, so when `close_all()` has detached the pool
nobody is there to open another. `WorkersAreOfRunning` and `Untouched` say that only an attempt that
runs has workers, and that a stage that has not come yet has none. `StagesInOrder` needs
`StagesAwaited`: `gather()` returned for every stage before the one at hand.

**`Collector_proofs`** (`TypeCorrect`, `ScanAlwaysComplete`, `RowsAlwaysFinal`), for any board, any
number of categories, pages and tries. The invariant says of every category already passed
(`Behind`), and of the pages of the one at hand (`Here`), that what is still owed there and stands
within the pages read so far has a row or is on the page at hand. It holds because nothing owed ever
moves up: postings only push it down (`CompletePushed`), so what is within the first m pages now was
there when they were read, and a posting taken down above it empties `owed`. An empty page is the end
of the list (`PagesMeet`), and no active category is skipped (`FirstIsLeast`, `NextIsNext`).
`RowsAlwaysFinal` needs what the page at hand and the left-over coroutines carry: `PageFits`,
`LooseFits`.

**`SalarySnapshot_proofs`** (`TypeCorrect`, `RevaluedAlwaysInRace`, `ForgetsAlwaysInRace`,
`SettledAlwaysCounted`, `OwnRowsAlwaysPriced`), for any processes, rows, markets and days. Each
process is `Sound` on its own: what it has selected was unconverted and still is unless conversions
have overlapped, what it has aggregated is still what the tables show unless builds have. The two
invariants about pairs (`OneConversion`, `OneBuild`) say that an overlap is noticed: without one, at
most one process has selected or aggregated. Lemmas about a step of another process (`OthersKeep`)
keep the proof linear in the number of actions.

**`AuthSessions_proofs`** (`TypeCorrect`, `AlwaysRevokedAtOnce`, `PresenceStaysTight`), for any
processes, names and durations. `RevokedAtOnce` is inductive with `GoodIsNoted` and `LetInIsEntitled`
(a request past its check was good at some moment), with `IdsAreAsked` and `ActiveExists` for what a
row or a token can name. `PresenceIsTight` is `MarkIsClose`: the mark is at most the throttle behind
the last time the account was served.

**`PublicApi_proofs`**, first about `SlidingWindow` (`TypeCorrect`, `WindowStaysBounded`,
`RetryAlwaysEnough`, `IdleAlwaysForgotten`), for any limit, window, resolution of time, threshold and number of clients.
The invariant: the deque of a key is the end of the times at which the key was let in, and all it
lacks has left the window (`EndOf`) - true after `popleft`, after a sweep, and for a key that was
deleted and came back; the times are in order; a refused client was told a time at which the
oldest of its last `Limit` requests has left the window (`ToldEnough`); what is in the dictionary was
hit within a window of the last sweep (`SweptRecently`). `FreshEnd` is the lemma about the loop.

Then about `Search` (`WalkAlwaysComplete`, `EmptyAlwaysBeyond`), for any set of rows, filters and size of
a page. The invariant (`SearchInv`) must say of a row that is still owed why a later page will bring
it: its distance from the top, the rows found that are newer (`Newer`), is at least the number of
rows on the pages before the one at hand (`Ahead`; once that page is shown, on the pages up to it).
It holds because rows are added and never taken away, so the distance only grows (`GrowthKeeps`), and
because a row that ties with no other and is near enough to the top is on the page read or on an
earlier one, in whatever order the others come (`PagesHold`, `PageMovesOn`). At the last page nothing
can be that far down. The other theorem follows from `Offsets`: a page without rows has as many rows
before it as there are (`EmptyPageIsBeyond`).

## 6. What is only model-checked, and what is not modelled

Only by TLC, on the bounds of section 3: liveness (`CallsReturn`, `FirstEnds`, `FlowEnds`, `ScanEnds`,
`ProcessesServe`), because TLAPS proves no liveness under fairness. Every invariant and every action
property of the passing runs has its theorem.

Proved of the parts and not of their sum: `Completion` is what `LlmCascade` implements and what
`NlpDrain` was written against. That `NlpDrain` asks no more of it is seen by reading `Attempt`, `Valid`,
`Invalid`, `AllBusy` and `Deplete` beside the five actions of `Completion`; there is no module that
composes the two.

Left out of the modules, on purpose:

- pure work on one value: HTML and XML parsing, prompts, the schemas of LLM answers (an answer fits
  or does not: two actions of `NlpDrain`), titles and amounts, password hashing and token signing,
  `get_client_ip`;
- waiting for one of the 30 connections of the pool, and cancellation inside `pool.close()`;
- the retries inside the client library of the LLM providers: one call may be three requests there,
  so the bounds of `LlmCascade` count calls;
- columns that no other step reads: region, industry and website of the dictionaries, the dictionary
  of categories, sums and averages of a snapshot;
- a salary that is converted a second time under a visitor's eyes: `Search` converts each row once,
  since only overlapping conversions do otherwise (`RevaluedOnlyInRace`);
- the routes of `src/api/routes/analytics.py` and `health.py`: single read-only SQL statements over
  the snapshot, formatted as JSON, with no state between two requests;
- the visit log: one throttled insert and deletes and counts by wall clock;
- the views of the frontend, the configuration and the scripts of the deployment.

One hazard has no property: the library's retries.

## 7. Plan

What would add most next:

1. `NlpDrain` composed with `Completion`, both record types over one `available`.
2. The 30 connections of the pool: coroutines that hold one while they wait for another would be able
   to wait for each other, so that nobody does is worth a property.
3. The bucket of `LlmCascade` as a module of its own, with the bound on tokens per window that its
   comment promises.
4. The visit log and its retention, beside the requests that write it.
