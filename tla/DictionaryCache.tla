--------------------------- MODULE DictionaryCache ---------------------------
(***************************************************************************)
(* The transactions of persist() in nlp_vacancies and nlp_resumes: each     *)
(* resolves the names of its record to ids of the dictionaries.* tables     *)
(* with get_or_create_company / _location / _source and resolve_skill_id,   *)
(* writes its core row, and commits.  The resolvers look into a cache that  *)
(* all coroutines of one record type share, and put there an id as soon as  *)
(* their statement returns it, before the transaction commits.              *)
(*                                                                         *)
(* PostgreSQL is modelled as the code uses it, with READ COMMITTED: a       *)
(* statement sees committed rows and those of its own transaction; an       *)
(* insert waits for the transaction that holds the same unique key; a       *)
(* foreign key is checked against visible rows when the statement ends; a   *)
(* sequence never yields an id twice; a deadlock costs one of its members.  *)
(***************************************************************************)
EXTENDS Integers, Sequences, FiniteSets

CONSTANTS
    Vacancies,   \* coroutines that persist vacancies
    Resumes,     \* coroutines that persist resumes
    Companies,   \* names of dictionaries.companies
    Locations,   \* of dictionaries.locations
    Sources,     \* of dictionaries.sources
    Skills,      \* of dictionaries.skills, synonyms resolved
    SkillLists,  \* the lists of skills a record may have
    None,        \* no name, no transaction
    MaxPersists  \* bound: transactions begun

Tasks == Vacancies \cup Resumes
Names == Companies \cup Locations \cup Sources \cup Skills
Caches == {"vacancy", "resume"}

ASSUME TasksAssumption == Vacancies \cap Resumes = {} /\ IsFiniteSet(Tasks)
ASSUME NamesAssumption ==
    /\ Companies \cap Locations = {} /\ Sources \cap (Companies \cup Locations) = {}
    /\ Skills \cap (Companies \cup Locations \cup Sources) = {}
    /\ SkillLists \subseteq Seq(Skills)
ASSUME NoneAssumption == None \notin Tasks /\ None \notin Names
ASSUME BoundAssumption == MaxPersists \in Nat

VARIABLES
    row,       \* row[n]: id of the committed row of n, 0 if there is none
    fresh,     \* fresh[n]: id of its uncommitted row, 0 if there is none
    lock,      \* lock[n]: transaction that inserted or updated the row of n
    nextId,    \* the sequences of the tables, taken as one
    cache,     \* cache[c][n]: id in the shared cache, 0 if not there
    job,       \* the persist() of each coroutine
    core,      \* references of the committed core rows
    persists   \* transactions begun

database == <<row, fresh, lock, nextId>>
vars == <<row, fresh, lock, nextId, cache, job, core, persists>>

-----------------------------------------------------------------------------
NoJob == [pc |-> "idle", todo |-> <<>>, got |-> 0, inserted |-> FALSE,
          refs |-> {}, linked |-> {}]

CacheOf(t) == IF t \in Vacancies THEN "vacancy" ELSE "resume"

\* A name the LLM did not find is resolved to NULL without a query.
Known(name) == IF name = None THEN <<>> ELSE <<name>>

\* Slip: the resume resolves its source first.
Order_Swapped(t, company, location, source, skills) ==
    (IF t \in Vacancies THEN Known(company) \o Known(location) \o <<source>>
                        ELSE <<source>> \o Known(location)) \o skills

\* The order in which persist() resolves names; a resume has no company.
Order(t, company, location, source, skills) ==
    (IF t \in Vacancies THEN Known(company) \o Known(location) \o <<source>>
                        ELSE Known(location) \o <<source>>) \o skills

-----------------------------------------------------------------------------
(* What a transaction sees and holds.                                      *)

Visible(t, n, id) ==
    id # 0 /\ (row[n] = id \/ (fresh[n] = id /\ lock[n] = t))

Free(t, n) == lock[n] \in {None, t}

\* Slip: core.* declared without REFERENCES.
KeyHolds_NoForeignKey(t, id) == TRUE

\* The foreign key of one reference.
KeyHolds(t, id) == \E n \in Names : Visible(t, n, id)

Holding(t) == {n \in Names : lock[n] = t}

Unlock(t) == lock' = [n \in Names |-> IF lock[n] = t THEN None ELSE lock[n]]

\* The name being resolved.
Current(t) == Head(job[t].todo)

Set(t, j) == job' = [job EXCEPT ![t] = j]

\* The next statement writes references: the core row once no name but
\* skills is left, a row of core.*_skills after every skill.
MustWrite(t) ==
    \/ job[t].inserted /\ job[t].refs # {}
    \/ ~job[t].inserted /\ (job[t].todo # <<>> => Current(t) \in Skills)

-----------------------------------------------------------------------------
(* The steps of persist().                                                 *)

Begin(t) ==
    /\ job[t].pc = "idle"
    /\ persists < MaxPersists
    /\ persists' = persists + 1
    /\ \E company \in Companies \cup {None}, location \in Locations \cup {None},
          source \in Sources, skills \in SkillLists :
         Set(t, [NoJob EXCEPT
                   !.pc = "resolve",
                   !.todo = Order(t, company, location, source, skills)])
    /\ UNCHANGED <<database, cache, core>>

\* A resolved name: its reference is to be written.
Resolved(t, id, fromCache) ==
    [job[t] EXCEPT
       !.pc = "resolve",
       !.todo = Tail(@),
       !.got = 0,
       !.refs = @ \cup {[name |-> Current(t), id |-> id, hit |-> fromCache]}]

\* Phase 1 of a resolver: the look into the cache.
Lookup(t) ==
    /\ job[t].pc = "resolve"
    /\ ~MustWrite(t)
    /\ job[t].todo # <<>>
    /\ LET id == cache[CacheOf(t)][Current(t)] IN
         Set(t, IF id # 0 THEN Resolved(t, id, TRUE) ELSE [job[t] EXCEPT !.pc = "query"])
    /\ UNCHANGED <<database, cache, core, persists>>

\* The statement returns an id to the coroutine.
Return(t, id) == Set(t, [job[t] EXCEPT !.pc = "answer", !.got = id])

\* Slip: the next id reckoned from the rows that are there.
NewRow_MaxPlusOne(t, n) ==
    LET used == {0} \cup {row[m] : m \in Names} \cup {fresh[m] : m \in Names}
        next == 1 + (CHOOSE i \in used : \A j \in used : j <= i)
    IN
    /\ fresh' = [fresh EXCEPT ![n] = next]
    /\ lock' = [lock EXCEPT ![n] = t]
    /\ nextId' = nextId + 1
    /\ Return(t, next)
    /\ UNCHANGED row

\* A new row with the next id of the sequence, locked until the end of the
\* transaction.
NewRow(t, n) ==
    /\ fresh' = [fresh EXCEPT ![n] = nextId]
    /\ lock' = [lock EXCEPT ![n] = t]
    /\ nextId' = nextId + 1
    /\ Return(t, nextId)
    /\ UNCHANGED row

\* Phase 2 for companies, locations and sources: INSERT ... ON CONFLICT DO
\* UPDATE ... RETURNING id.
Upsert(t) ==
    LET n == Current(t) IN
    /\ job[t].pc = "query"
    /\ n \notin Skills
    /\ Free(t, n)
    /\ \/ row[n] = 0 /\ fresh[n] = 0 /\ NewRow(t, n)
       \/ /\ row[n] # 0 \/ fresh[n] # 0
          /\ lock' = [lock EXCEPT ![n] = t]
          /\ Return(t, IF row[n] # 0 THEN row[n] ELSE fresh[n])
          /\ UNCHANGED <<row, fresh, nextId>>
    /\ UNCHANGED <<cache, core, persists>>

\* Slip: the transaction reads what others have not committed.
Select_Dirty(t) ==
    LET n == Current(t)
        seen == {id \in {row[n], fresh[n]} : id # 0}
    IN
    /\ job[t].pc = "query"
    /\ n \in Skills
    /\ \/ \E id \in seen : Return(t, id)
       \/ seen = {} /\ Set(t, [job[t] EXCEPT !.pc = "insert"])
    /\ UNCHANGED <<database, cache, core, persists>>

\* Phase 2 for skills: SELECT from the synonyms and from the skills.
Select(t) ==
    LET n == Current(t)
        seen == {id \in {row[n], fresh[n]} : Visible(t, n, id)}
    IN
    /\ job[t].pc = "query"
    /\ n \in Skills
    /\ \/ \E id \in seen : Return(t, id)
       \/ seen = {} /\ Set(t, [job[t] EXCEPT !.pc = "insert"])
    /\ UNCHANGED <<database, cache, core, persists>>

\* INSERT ... ON CONFLICT DO NOTHING, and the fallback SELECT when another
\* transaction has committed the skill meanwhile.
InsertSkill(t) ==
    LET n == Current(t) IN
    /\ job[t].pc = "insert"
    /\ Free(t, n)
    /\ \/ row[n] = 0 /\ NewRow(t, n)
       \/ row[n] # 0 /\ Return(t, row[n]) /\ UNCHANGED database
    /\ UNCHANGED <<cache, core, persists>>

\* Phase 3: the id goes into the cache.
Publish(t) ==
    /\ job[t].pc = "answer"
    /\ cache' = [cache EXCEPT ![CacheOf(t)][Current(t)] = job[t].got]
    /\ Set(t, Resolved(t, job[t].got, FALSE))
    /\ UNCHANGED <<database, core, persists>>

\* The statement that writes the references; all foreign keys hold.
Insert(t) ==
    /\ job[t].pc = "resolve"
    /\ MustWrite(t)
    /\ \A ref \in job[t].refs : KeyHolds(t, ref.id)
    /\ Set(t, [job[t] EXCEPT !.inserted = TRUE, !.refs = {}, !.linked = @ \cup job[t].refs])
    /\ UNCHANGED <<database, cache, core, persists>>

\* Raw text cleared, failure resolved, COMMIT.
Commit(t) ==
    /\ job[t].pc = "resolve"
    /\ ~MustWrite(t)
    /\ job[t].todo = <<>>
    /\ row' = [n \in Names |->
                 IF n \in Holding(t) /\ fresh[n] # 0 THEN fresh[n] ELSE row[n]]
    /\ fresh' = [n \in Names |-> IF n \in Holding(t) THEN 0 ELSE fresh[n]]
    /\ Unlock(t)
    /\ core' = core \cup job[t].linked
    /\ Set(t, NoJob)
    /\ UNCHANGED <<nextId, cache, persists>>

\* The transaction is rolled back and run_llm_record records an "unknown"
\* failure; the cache keeps what the transaction has put there.
Rollback(t) ==
    /\ fresh' = [n \in Names |-> IF n \in Holding(t) THEN 0 ELSE fresh[n]]
    /\ Unlock(t)
    /\ Set(t, NoJob)
    /\ UNCHANGED <<row, nextId, cache, core, persists>>

\* A reference does not exist: foreign_key_violation.
KeyFails(t) ==
    /\ job[t].pc = "resolve"
    /\ MustWrite(t)
    /\ \E ref \in job[t].refs : ~KeyHolds(t, ref.id)
    /\ Rollback(t)

\* t waits for a key that u holds.
WaitsFor(t, u) ==
    /\ \/ job[t].pc = "query" /\ Current(t) \notin Skills
       \/ job[t].pc = "insert"
    /\ lock[Current(t)] = u
    /\ u # t

\* Each waits for another one: cycles, without those who wait for a cycle.
Deadlocked(S) ==
    /\ S # {}
    /\ \A t \in S : (\E u \in S : WaitsFor(t, u)) /\ (\E u \in S : WaitsFor(u, t))

\* PostgreSQL aborts a transaction of a deadlock.
Victim(t) ==
    /\ \E S \in SUBSET Tasks : t \in S /\ Deadlocked(S)
    /\ Rollback(t)

\* A statement fails for any other reason: connection lost, value too long.
Fault(t) ==
    /\ job[t].pc # "idle"
    /\ Rollback(t)

-----------------------------------------------------------------------------
Init ==
    /\ row = [n \in Names |-> 0]
    /\ fresh = [n \in Names |-> 0]
    /\ lock = [n \in Names |-> None]
    /\ nextId = 1
    /\ cache = [c \in Caches |-> [n \in Names |-> 0]]
    /\ job = [t \in Tasks |-> NoJob]
    /\ core = {}
    /\ persists = 0

Work(t) ==
    \/ Lookup(t)
    \/ Upsert(t)
    \/ Select(t)
    \/ InsertSkill(t)
    \/ Publish(t)
    \/ Insert(t)
    \/ Commit(t)
    \/ KeyFails(t)
    \/ Victim(t)

Next == \E t \in Tasks : Begin(t) \/ Work(t) \/ Fault(t)

Spec == Init /\ [][Next]_vars

-----------------------------------------------------------------------------
(* Properties.                                                             *)

Reference == [name : Names, id : Nat \ {0}, hit : BOOLEAN]

JobState ==
    [pc : {"idle", "resolve", "query", "insert", "answer"},
     todo : Seq(Names),
     got : Nat,
     inserted : BOOLEAN,
     refs : SUBSET Reference,
     linked : SUBSET Reference]

\* The shape of the state.
TypeOK ==
    /\ row \in [Names -> Nat]
    /\ fresh \in [Names -> Nat]
    /\ lock \in [Names -> Tasks \cup {None}]
    /\ nextId \in Nat \ {0}
    /\ cache \in [Caches -> [Names -> Nat]]
    /\ job \in [Tasks -> JobState]
    /\ core \subseteq Reference
    /\ persists \in 0 .. MaxPersists

\* Whatever ids the cache hands out, of rows not yet committed or rolled back
\* long ago, a processed record refers to the committed row of the very name
\* it was resolved from.
CoreRefsHold == \A ref \in core : row[ref.name] = ref.id

\* An id that the transaction has got from the database itself stays good
\* until it writes it, however the transactions that race for the name end.
OwnRefsHold ==
    \A t \in Tasks : \A ref \in job[t].refs \cup job[t].linked :
        ~ref.hit => Visible(t, ref.name, ref.id)

\* A cached id never comes to stand for another name.
CacheNeverMisnames ==
    \A c \in Caches : \A n, m \in Names :
        n # m /\ cache[c][n] # 0 => cache[c][n] \notin {row[m], fresh[m], cache[c][m]}

\* Company, location and source are locked in one order by both record types,
\* so a deadlock is always one between inserts of skills.
DeadlocksAreOfSkills ==
    \A S \in SUBSET Tasks :
        Deadlocked(S) => \A t \in S : Current(t) \in Skills

=============================================================================
