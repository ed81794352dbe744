----------------------- MODULE SalarySnapshot_proofs -----------------------
(***************************************************************************)
(* Proofs about SalarySnapshot, for any processes, rows, currencies, days    *)
(* and number of starts.                                                    *)
(***************************************************************************)
EXTENDS SalarySnapshot, TLAPS

\* A conversion that has selected rows, and a build that has aggregated some.
BegunOf(s) == s.pc \in {"update", "commit"} \/ (s.pc = "select" /\ s.table = "resume")
BuildingOf(s) == s.pc \in {"vacancies", "write"}
HasRead(s, r) == s.pc = "write" \/ (s.pc = "vacancies" /\ Kind[r] = "resume")

\* The conversion has come to a row.
Passed(s, r) ==
    \/ s.pc = "commit"
    \/ s.pc = "update" /\ (Kind[r] = s.table \/ s.table = "resume")
    \/ s.pc = "select" /\ s.table = "resume" /\ Kind[r] = "vacancy"

\* What a process knows fits where it is.
ShapeOf(s) ==
    /\ s \in Process
    /\ s.pc \in {"off", "nlp", "rates"} => s.rates = {}
    /\ s.pc \in {"select", "update", "commit"} => s.table # "none" /\ s.rateDay # 0
    /\ s.pc = "commit" => s.table = "resume"
    /\ s.pc \in {"select", "commit"} => s.chosen = {}
    /\ ~BegunOf(s) => s.chosen = {} /\ s.writes = {}
    /\ s.pc = "nlp" => s.task = "flow"
    /\ s.task # "flow" => s.made = {}
    /\ BuildingOf(s) \/ (s.pc = "build" /\ s.task # "flow") => s.target # 0

\* The rows of a process are there, and without overlapping conversions those
\* it is about to value have no value.
RowsOf(s, cr, us, ra) ==
    /\ \A r \in s.made \cup s.chosen \cup s.writes : cr[r] # 0
    /\ ~ra.rates => \A r \in s.chosen \cup s.writes : us[r] = 0

\* What a build has seen of a row is of its day and not newer than the row, its
\* own rows are in it, and without overlaps so is all the snapshot shows.
SeenOf(s, cr, us, sh, ra) ==
    BuildingOf(s) => \A r \in Rows :
        /\ s.seen[r] # -1 => cr[r] = s.target
        /\ ~ra.rates => s.seen[r] <= us[r]
        /\ HasRead(s, r) =>
             /\ r \in s.made /\ cr[r] = s.target => s.seen[r] # -1
             /\ ~ra.builds /\ sh[s.target][r] # -1 => s.seen[r] # -1
             /\ ~ra.builds /\ ~ra.rates => sh[s.target][r] <= s.seen[r]

\* A process that found all rates values its own rows before it builds.
PricedOf(s, us) ==
    s.rates = Currencies =>
        \A r \in s.made : Currency[r] \in Currencies =>
            /\ Passed(s, r) => us[r] # 0 \/ r \in s.chosen \/ r \in s.writes
            /\ s.pc \in {"build", "vacancies", "write"} => us[r] # 0
            /\ HasRead(s, r) => s.seen[r] # 0

Sound(s, cr, us, sh, ra) ==
    /\ ShapeOf(s)
    /\ RowsOf(s, cr, us, ra)
    /\ SeenOf(s, cr, us, sh, ra)
    /\ PricedOf(s, us)

ProcsAreSound == \A p \in Procs : Sound(proc[p], created, usd, shows, raced)

\* Overlaps are noticed.
OneConversion ==
    ~raced.rates => \A p, q \in Procs :
        BegunOf(proc[p]) /\ BegunOf(proc[q]) => p = q
OneBuild ==
    ~raced.builds => \A p, q \in Procs :
        BuildingOf(proc[p]) /\ BuildingOf(proc[q]) => p = q

CreatedFirst == \A r \in Rows : usd[r] # 0 => created[r] # 0

\* A snapshot shows rows of its day, and no value a row has not got yet.
ShowsAreOfDay ==
    \A d \in Days, r \in Rows :
        /\ shows[d][r] # -1 => created[r] = d
        /\ ~raced.rates => shows[d][r] <= usd[r]

SettledIsCreated == \A r \in settled : created[r] # 0

IndInv ==
    /\ TypeOK
    /\ ProcsAreSound
    /\ OneConversion
    /\ OneBuild
    /\ CreatedFirst
    /\ ShowsAreOfDay
    /\ SettledIsCreated
    /\ SettledIsCounted

-----------------------------------------------------------------------------
(* How the shared state moves.                                             *)

\* What the assumptions say of days, starts and kinds.
LEMMA Numbers ==
    /\ MaxDays \in Nat /\ MaxDays >= 1
    /\ MaxStarts \in Nat
    /\ \A r \in Rows : Kind[r] = "vacancy" \/ Kind[r] = "resume"
    /\ Days = 1 .. MaxDays
  BY BoundAssumption, RowsAssumption DEF Days

\* Rows are created once, and valued once unless conversions have overlapped;
\* a value does not go away.
CoreMoves ==
    /\ created' \in [Rows -> 0 .. MaxDays]
    /\ usd' \in [Rows -> 0 .. MaxDays]
    /\ \A r \in Rows :
        /\ created[r] # 0 => created'[r] = created[r]
        /\ usd[r] # 0 => usd'[r] # 0
        /\ usd'[r] # 0 => created'[r] # 0
        /\ ~raced.rates /\ usd[r] # 0 => usd'[r] = usd[r]

RacedMoves ==
    /\ raced' \in [rates : BOOLEAN, builds : BOOLEAN]
    /\ raced.rates => raced'.rates
    /\ raced.builds => raced'.builds

\* A step that leaves the core tables alone.
LEMMA SameCore ==
    ASSUME IndInv, UNCHANGED <<created, usd>>
    PROVE  CoreMoves
  BY DEF IndInv, TypeOK, CreatedFirst, CoreMoves

\* A step that makes no conversions or builds overlap.
LEMMA SameRaced ==
    ASSUME IndInv, UNCHANGED raced
    PROVE  RacedMoves
  BY DEF IndInv, TypeOK, RacedMoves

\* A process stays sound while others move the shared state: nobody values its
\* rows or writes the snapshot it works on unless the overlap is noticed.
LEMMA OthersKeep ==
    ASSUME IndInv, CoreMoves, RacedMoves, NEW q \in Procs,
           ~raced'.rates =>
               \A r \in proc[q].chosen \cup proc[q].writes : usd'[r] = usd[r],
           ~raced'.builds /\ BuildingOf(proc[q]) => UNCHANGED shows
    PROVE  Sound(proc[q], created', usd', shows', raced')
  <1> DEFINE s == proc[q]
  <1>1. Sound(s, created, usd, shows, raced) /\ s \in Process
    BY DEF IndInv, ProcsAreSound, Sound, ShapeOf
  <1>2. /\ s.made \subseteq Rows /\ s.chosen \subseteq Rows /\ s.writes \subseteq Rows
        /\ s.seen \in [Rows -> -1 .. MaxDays]
        /\ s.target \in 0 .. MaxDays
    BY <1>1 DEF Process
  <1>3. usd \in [Rows -> 0 .. MaxDays] /\ created \in [Rows -> 0 .. MaxDays]
    BY DEF IndInv, TypeOK
  <1>4. ~raced'.rates => ~raced.rates
    BY DEF RacedMoves
  <1>5. ~raced'.builds => ~raced.builds
    BY DEF RacedMoves
  <1>6. RowsOf(s, created', usd', raced')
    BY <1>1, <1>2, <1>4 DEF Sound, RowsOf, CoreMoves
  <1>7. ~raced'.rates => \A r \in Rows : usd[r] <= usd'[r]
    BY <1>3, <1>4, Numbers DEF CoreMoves
  <1>8. ASSUME BuildingOf(s), NEW r \in Rows
        PROVE  /\ s.seen[r] # -1 => created'[r] = s.target
               /\ ~raced'.rates => s.seen[r] <= usd'[r]
               /\ HasRead(s, r) =>
                    /\ r \in s.made /\ created'[r] = s.target => s.seen[r] # -1
                    /\ ~raced'.builds /\ shows'[s.target][r] # -1 => s.seen[r] # -1
                    /\ ~raced'.builds /\ ~raced'.rates => shows'[s.target][r] <= s.seen[r]
    <2>1. s.target # 0 /\ s.seen[r] \in -1 .. MaxDays
      BY <1>1, <1>2, <1>8 DEF Sound, ShapeOf
    <2>2. /\ s.seen[r] # -1 => created[r] = s.target
          /\ ~raced.rates => s.seen[r] <= usd[r]
      BY <1>1, <1>8 DEF Sound, SeenOf
    <2>3. s.seen[r] # -1 => created'[r] = s.target
      BY <2>1, <2>2 DEF CoreMoves
    <2>4. ~raced'.rates => s.seen[r] <= usd'[r]
      <3>1. usd[r] \in 0 .. MaxDays /\ usd'[r] \in 0 .. MaxDays
        BY <1>3 DEF CoreMoves
      <3> QED
        BY <3>1, <2>1, <2>2, <1>4, <1>7, Numbers
    <2>5. r \in s.made => created'[r] = created[r]
      BY <1>1 DEF Sound, RowsOf, CoreMoves
    <2>6. ASSUME HasRead(s, r)
          PROVE  /\ r \in s.made /\ created'[r] = s.target => s.seen[r] # -1
                 /\ ~raced'.builds /\ shows'[s.target][r] # -1 => s.seen[r] # -1
                 /\ ~raced'.builds /\ ~raced'.rates => shows'[s.target][r] <= s.seen[r]
      <3>1. /\ r \in s.made /\ created[r] = s.target => s.seen[r] # -1
            /\ ~raced.builds /\ shows[s.target][r] # -1 => s.seen[r] # -1
            /\ ~raced.builds /\ ~raced.rates => shows[s.target][r] <= s.seen[r]
        BY <1>1, <1>8, <2>6 DEF Sound, SeenOf
      <3>2. ~raced'.builds => shows'[s.target][r] = shows[s.target][r]
        BY <1>8
      <3> QED
        BY <3>1, <3>2, <2>5, <1>4, <1>5
    <2> QED
      BY <2>3, <2>4, <2>6
  <1>9. PricedOf(s, usd')
    BY <1>1, <1>2 DEF Sound, PricedOf, CoreMoves
  <1> HIDE DEF s
  <1>10. SeenOf(s, created', usd', shows', raced')
    BY <1>8 DEF SeenOf
  <1>11. Sound(s, created', usd', shows', raced')
    BY <1>1, <1>6, <1>9, <1>10 DEF Sound
  <1> QED
    BY <1>11 DEF s

\* The snapshots stay true while the rows move.
LEMMA SameShows ==
    ASSUME IndInv, CoreMoves, RacedMoves, UNCHANGED <<shows, settled>>
    PROVE  ShowsAreOfDay' /\ SettledIsCreated' /\ SettledIsCounted'
  <1>1. /\ usd \in [Rows -> 0 .. MaxDays]
        /\ created \in [Rows -> 0 .. MaxDays]
        /\ shows \in [Days -> [Rows -> -1 .. MaxDays]]
        /\ settled \subseteq Rows
    BY DEF IndInv, TypeOK
  <1>2. ASSUME NEW d \in Days, NEW r \in Rows
        PROVE  /\ shows[d][r] # -1 => created'[r] = d
               /\ ~raced'.rates => shows[d][r] <= usd'[r]
    <2>1. /\ shows[d][r] # -1 => created[r] = d
          /\ ~raced.rates => shows[d][r] <= usd[r]
      BY DEF IndInv, ShowsAreOfDay
    <2>2. /\ created[r] # 0 => created'[r] = created[r]
          /\ ~raced.rates /\ usd[r] # 0 => usd'[r] = usd[r]
          /\ usd[r] \in 0 .. MaxDays /\ usd'[r] \in 0 .. MaxDays
          /\ shows[d][r] \in -1 .. MaxDays
          /\ d # 0
      BY <1>1, Numbers DEF CoreMoves
    <2> QED
      BY <2>1, <2>2, Numbers DEF RacedMoves
  <1>3. ShowsAreOfDay'
    BY <1>2 DEF ShowsAreOfDay
  <1>4. \A r \in settled : created[r] # 0 /\ created'[r] = created[r]
    BY <1>1 DEF IndInv, SettledIsCreated, CoreMoves
  <1> QED
    BY <1>3, <1>4 DEF IndInv, SettledIsCreated, SettledIsCounted, RacedMoves

\* The step of one process, put together.
LEMMA StepOf ==
    ASSUME IndInv, NEW p \in Procs, NEW t,
           proc' = [proc EXCEPT ![p] = t],
           Sound(t, created', usd', shows', raced'),
           CoreMoves, RacedMoves,
           today' \in Days, starts' \in 0 .. MaxStarts,
           shows' \in [Days -> [Rows -> -1 .. MaxDays]], settled' \subseteq Rows,
           ShowsAreOfDay' /\ SettledIsCreated' /\ SettledIsCounted',
           \A q \in Procs \ {p} : ~raced'.rates =>
               \A r \in proc[q].chosen \cup proc[q].writes : usd'[r] = usd[r],
           \A q \in Procs \ {p} :
               ~raced'.builds /\ BuildingOf(proc[q]) => UNCHANGED shows,
           \A q \in Procs \ {p} :
               ~raced'.rates /\ BegunOf(t) => ~BegunOf(proc[q]),
           \A q \in Procs \ {p} :
               ~raced'.builds /\ BuildingOf(t) => ~BuildingOf(proc[q])
    PROVE  IndInv'
  <1>1. proc \in [Procs -> Process] /\ t \in Process
    BY DEF IndInv, TypeOK, Sound, ShapeOf
  <1>2. proc' \in [Procs -> Process] /\ proc'[p] = t
        /\ \A q \in Procs \ {p} : proc'[q] = proc[q]
    BY <1>1
  <1>3. \A q \in Procs \ {p} : Sound(proc[q], created', usd', shows', raced')
    BY OthersKeep
  <1>4. ProcsAreSound'
    BY <1>2, <1>3 DEF ProcsAreSound
  <1>5. TypeOK'
    BY <1>2 DEF TypeOK, CoreMoves, RacedMoves
  <1>6. OneConversion'
    BY <1>2 DEF IndInv, OneConversion, RacedMoves
  <1>7. OneBuild'
    BY <1>2 DEF IndInv, OneBuild, RacedMoves
  <1>8. CreatedFirst'
    BY DEF CreatedFirst, CoreMoves
  <1> QED
    BY <1>4, <1>5, <1>6, <1>7, <1>8 DEF IndInv

\* Most steps leave the rows, the snapshots and the history alone and begin
\* neither a conversion nor a build.
LEMMA QuietStepOf ==
    ASSUME IndInv, NEW p \in Procs, NEW t,
           proc' = [proc EXCEPT ![p] = t],
           Sound(t, created, usd, shows, raced),
           UNCHANGED <<today, core, shows, history>>,
           starts' \in 0 .. MaxStarts,
           BegunOf(t) => BegunOf(proc[p]),
           BuildingOf(t) => BuildingOf(proc[p])
    PROVE  IndInv'
  <1>1. UNCHANGED <<created, usd, raced, settled>>
    BY DEF core, history
  <1>2. CoreMoves /\ RacedMoves
    BY <1>1, SameCore, SameRaced
  <1>3. ShowsAreOfDay' /\ SettledIsCreated' /\ SettledIsCounted'
    BY <1>1, <1>2, SameShows
  <1>4. /\ today' \in Days
        /\ shows' \in [Days -> [Rows -> -1 .. MaxDays]]
        /\ settled' \subseteq Rows
    BY <1>1 DEF IndInv, TypeOK
  <1>5. Sound(t, created', usd', shows', raced')
    BY <1>1
  <1>6. \A q \in Procs \ {p} :
           /\ ~raced'.rates /\ BegunOf(t) => ~BegunOf(proc[q])
           /\ ~raced'.builds /\ BuildingOf(t) => ~BuildingOf(proc[q])
    BY <1>1 DEF IndInv, OneConversion, OneBuild
  <1> QED
    BY <1>1, <1>2, <1>3, <1>4, <1>5, <1>6, StepOf

-----------------------------------------------------------------------------
(* The steps.                                                              *)

\* A process that is off has read and written nothing.
LEMMA OffFields ==
    /\ Off \in Process
    /\ Off.pc = "off" /\ Off.task = "none" /\ Off.made = {} /\ Off.rates = {}
    /\ Off.chosen = {} /\ Off.writes = {}
  <1>1. Off \in Process
    BY Numbers DEF Off, Process, Hidden, Currencies
  <1> QED
    BY <1>1 DEF Off

\* A process that does nothing yet.
LEMMA NewIsSound ==
    ASSUME NEW t \in Process, t.made = {}, t.rates = {}, t.chosen = {}, t.writes = {},
           t.pc \in {"off", "nlp", "rates", "build"},
           t.pc = "nlp" => t.task = "flow",
           t.pc = "build" /\ t.task # "flow" => t.target # 0
    PROVE  Sound(t, created, usd, shows, raced) /\ ~BegunOf(t) /\ ~BuildingOf(t)
  BY DEF Sound, ShapeOf, RowsOf, SeenOf, PricedOf, BegunOf, BuildingOf, Currencies

\* A process starts with nothing selected.
LEMMA StartHolds ==
    ASSUME IndInv, NEW p \in Procs, Start(p)
    PROVE  IndInv'
  <1>0. /\ starts < MaxStarts
        /\ starts' = starts + 1
        /\ UNCHANGED <<today, core, shows, history>>
    BY DEF Start
  <1>1. starts' \in 0 .. MaxStarts
    BY <1>0, Numbers DEF IndInv, TypeOK
  <1>2. ASSUME NEW t \in Process, proc' = [proc EXCEPT ![p] = t],
               t.made = {}, t.rates = {}, t.chosen = {}, t.writes = {},
               t.pc \in {"off", "nlp", "rates", "build"},
               t.pc = "nlp" => t.task = "flow",
               t.pc = "build" /\ t.task # "flow" => t.target # 0
        PROVE  IndInv'
    <2>1. Sound(t, created, usd, shows, raced) /\ ~BegunOf(t) /\ ~BuildingOf(t)
      BY <1>2, NewIsSound
    <2> QED
      BY <1>0, <1>1, <1>2, <2>1, QuietStepOf
  <1>3. CASE Set(p, [Off EXCEPT !.pc = "nlp", !.task = "flow"])
    <2> DEFINE t == [Off EXCEPT !.pc = "nlp", !.task = "flow"]
    <2>1. t \in Process
      BY OffFields DEF Process
    <2>2. /\ t.made = {} /\ t.rates = {} /\ t.chosen = {} /\ t.writes = {}
          /\ t.pc = "nlp" /\ t.task = "flow"
      BY DEF Off
    <2>3. proc' = [proc EXCEPT ![p] = t]
      BY <1>3 DEF Set
    <2> HIDE DEF t
    <2> QED
      BY <1>2, <2>1, <2>2, <2>3
  <1>4. CASE Set(p, [Off EXCEPT !.pc = "rates", !.task = "convert"])
    <2> DEFINE t == [Off EXCEPT !.pc = "rates", !.task = "convert"]
    <2>1. t \in Process
      BY OffFields DEF Process
    <2>2. /\ t.made = {} /\ t.rates = {} /\ t.chosen = {} /\ t.writes = {}
          /\ t.pc = "rates"
      BY DEF Off
    <2>3. proc' = [proc EXCEPT ![p] = t]
      BY <1>4 DEF Set
    <2> HIDE DEF t
    <2> QED
      BY <1>2, <2>1, <2>2, <2>3
  <1>5. ASSUME NEW d \in 1 .. today,
               Set(p, [Off EXCEPT !.pc = "build", !.task = "snapshot", !.target = d])
        PROVE  IndInv'
    <2> DEFINE t == [Off EXCEPT !.pc = "build", !.task = "snapshot", !.target = d]
    <2>0. d \in 0 .. MaxDays /\ d # 0
      BY Numbers DEF IndInv, TypeOK
    <2>1. t \in Process
      BY <2>0, OffFields DEF Process
    <2>2. /\ t.made = {} /\ t.rates = {} /\ t.chosen = {} /\ t.writes = {}
          /\ t.pc = "build" /\ t.target = d
      BY DEF Off
    <2>3. proc' = [proc EXCEPT ![p] = t]
      BY <1>5 DEF Set
    <2> HIDE DEF t
    <2> QED
      BY <1>2, <2>0, <2>1, <2>2, <2>3
  <1> QED
    BY <1>3, <1>4, <1>5 DEF Start

\* A process that fails forgets what it selected.
LEMMA FailHolds ==
    ASSUME IndInv, NEW p \in Procs, Fail(p)
    PROVE  IndInv'
  <1>1. proc' = [proc EXCEPT ![p] = Off] /\ UNCHANGED <<today, core, shows, history>>
        /\ starts' \in 0 .. MaxStarts
    BY DEF Fail, Set, IndInv, TypeOK
  <1>2. Sound(Off, created, usd, shows, raced) /\ ~BegunOf(Off) /\ ~BuildingOf(Off)
    BY OffFields, NewIsSound
  <1> QED
    BY <1>1, <1>2, QuietStepOf

\* The flow goes on to the conversion.
LEMMA NlpDoneHolds ==
    ASSUME IndInv, NEW p \in Procs, NlpDone(p)
    PROVE  IndInv'
  <1> DEFINE s == proc[p]
             t == [s EXCEPT !.pc = "rates"]
  <1>1. Sound(s, created, usd, shows, raced) /\ s \in Process /\ s.pc = "nlp"
    BY DEF IndInv, ProcsAreSound, Sound, ShapeOf, NlpDone
  <1>2. /\ t \in Process /\ t.pc = "rates" /\ t.task = s.task /\ t.made = s.made
        /\ t.rates = s.rates /\ t.chosen = s.chosen /\ t.writes = s.writes
    BY <1>1 DEF Process
  <1>3. proc' = [proc EXCEPT ![p] = t] /\ UNCHANGED <<today, core, shows, history>>
        /\ starts' \in 0 .. MaxStarts
    BY DEF NlpDone, Set, IndInv, TypeOK
  <1> HIDE DEF s, t
  <1>4. Sound(t, created, usd, shows, raced) /\ ~BegunOf(t) /\ ~BuildingOf(t)
    BY <1>1, <1>2 DEF Sound, ShapeOf, RowsOf, SeenOf, PricedOf, BegunOf, BuildingOf,
                      Currencies
  <1> QED
    BY <1>3, <1>4, QuietStepOf

\* A new row is of today and unconverted: nobody has selected it.
LEMMA PersistHolds ==
    ASSUME IndInv, NEW p \in Procs, NEW r \in Rows, Persist(p, r)
    PROVE  IndInv'
  <1> DEFINE s == proc[p]
             t == [s EXCEPT !.made = s.made \cup {r}]
  <1>1. Sound(s, created, usd, shows, raced) /\ s \in Process /\ s.pc = "nlp"
    BY DEF IndInv, ProcsAreSound, Sound, ShapeOf, Persist
  <1>2. /\ t \in Process /\ t.pc = "nlp" /\ t.task = s.task /\ t.made = s.made \cup {r}
        /\ t.rates = s.rates /\ t.chosen = s.chosen /\ t.writes = s.writes
    BY <1>1 DEF Process
  <1>3. proc' = [proc EXCEPT ![p] = t]
    BY DEF Persist, Set
  <1>4. UNCHANGED <<today, usd, shows, raced, settled, starts>>
    BY DEF Persist, history
  <1>5. CoreMoves
    BY Numbers DEF Persist, IndInv, TypeOK, CoreMoves, CreatedFirst, Days
  <1>6. RacedMoves
    BY <1>4, SameRaced
  <1>7. ShowsAreOfDay' /\ SettledIsCreated' /\ SettledIsCounted'
    BY <1>4, <1>5, <1>6, SameShows
  <1>8. created'[r] # 0 /\ s.made \subseteq Rows
    BY <1>1, Numbers DEF Persist, IndInv, TypeOK, Process, Days
  <1>9. /\ today' \in Days /\ starts' \in 0 .. MaxStarts
        /\ shows' \in [Days -> [Rows -> -1 .. MaxDays]]
        /\ settled' \subseteq Rows
    BY <1>4 DEF IndInv, TypeOK
  <1> HIDE DEF s, t
  <1>10. ~BegunOf(t) /\ ~BuildingOf(t)
    BY <1>2 DEF BegunOf, BuildingOf
  <1>11. Sound(t, created', usd', shows', raced')
    BY <1>1, <1>2, <1>5, <1>8, <1>10
    DEF Sound, ShapeOf, RowsOf, SeenOf, PricedOf, CoreMoves, BegunOf, BuildingOf,
        Currencies
  <1> QED
    BY <1>3, <1>4, <1>5, <1>6, <1>7, <1>9, <1>10, <1>11, StepOf

-----------------------------------------------------------------------------
(* The conversion.                                                         *)

\* A conversion begins: its rates are of today, or there are none and it is skipped.
LEMMA RatesHolds ==
    ASSUME IndInv, NEW p \in Procs, Rates(p)
    PROVE  IndInv'
  <1> DEFINE s == proc[p]
  <1>1. Sound(s, created, usd, shows, raced) /\ s \in Process /\ s.pc = "rates"
    BY DEF IndInv, ProcsAreSound, Sound, ShapeOf, Rates
  <1>2. UNCHANGED <<today, core, shows, history>> /\ starts' \in 0 .. MaxStarts
    BY DEF Rates, IndInv, TypeOK
  <1>3. today \in 0 .. MaxDays /\ today # 0
    BY Numbers DEF IndInv, TypeOK
  <1>4. ASSUME NEW known \in {{"USD", "UAH"}, Currencies},
               Set(p, [proc[p] EXCEPT !.pc = "select", !.table = "vacancy",
                                      !.rates = known, !.rateDay = today])
        PROVE  IndInv'
    <2> DEFINE t == [s EXCEPT !.pc = "select", !.table = "vacancy",
                              !.rates = known, !.rateDay = today]
    <2>0. known \subseteq Currencies
      BY DEF Currencies
    <2>1. /\ t \in Process /\ t.pc = "select" /\ t.task = s.task /\ t.made = s.made
          /\ t.table = "vacancy" /\ t.rateDay = today
          /\ t.chosen = s.chosen /\ t.writes = s.writes
      BY <1>1, <1>3, <2>0 DEF Process
    <2>2. proc' = [proc EXCEPT ![p] = t]
      BY <1>4 DEF Set
    <2> HIDE DEF s, t
    <2>3. Sound(t, created, usd, shows, raced) /\ ~BegunOf(t) /\ ~BuildingOf(t)
      BY <1>1, <1>3, <2>1 DEF Sound, ShapeOf, RowsOf, SeenOf, PricedOf, BegunOf,
                              BuildingOf, HasRead, Passed
    <2> QED
      BY <1>2, <2>2, <2>3, QuietStepOf
  <1>5. CASE Set(p, AfterConversion(p))
    <2>1. CASE s.task = "flow"
      <3> DEFINE t == [s EXCEPT !.pc = "build"]
      <3>1. /\ t \in Process /\ t.pc = "build" /\ t.task = s.task /\ t.made = s.made
            /\ t.rates = s.rates /\ t.chosen = s.chosen /\ t.writes = s.writes
        BY <1>1 DEF Process
      <3>2. proc' = [proc EXCEPT ![p] = t]
        BY <1>5, <2>1 DEF Set, AfterConversion
      <3> HIDE DEF s, t
      <3>3. Sound(t, created, usd, shows, raced) /\ ~BegunOf(t) /\ ~BuildingOf(t)
        BY <1>1, <2>1, <3>1 DEF Sound, ShapeOf, RowsOf, SeenOf, PricedOf, BegunOf,
                                BuildingOf, Currencies
      <3> QED
        BY <1>2, <3>2, <3>3, QuietStepOf
    <2>2. CASE s.task # "flow"
      <3>1. proc' = [proc EXCEPT ![p] = Off]
        BY <1>5, <2>2 DEF Set, AfterConversion
      <3>2. Sound(Off, created, usd, shows, raced) /\ ~BegunOf(Off) /\ ~BuildingOf(Off)
        BY OffFields, NewIsSound
      <3> QED
        BY <1>2, <3>1, <3>2, QuietStepOf
    <2> QED
      BY <2>1, <2>2
  <1> QED
    BY <1>4, <1>5 DEF Rates

\* process_table() chooses rows without a value; a conversion beside it is
\* noticed.
LEMMA SelectHolds ==
    ASSUME IndInv, NEW p \in Procs, Select(p)
    PROVE  IndInv'
  <1> DEFINE s == proc[p]
             chosen == {r \in Unconverted(s.table) : Currency[r] \in s.rates}
             t == [s EXCEPT !.pc = "update", !.chosen = chosen]
  <1>1. Sound(s, created, usd, shows, raced) /\ s \in Process /\ s.pc = "select"
    BY DEF IndInv, ProcsAreSound, Sound, ShapeOf, Select
  <1>2. chosen \subseteq Rows
    BY DEF Unconverted
  <1>3. \A r \in chosen : created[r] # 0 /\ usd[r] = 0
    BY DEF Unconverted
  <1>4. \A r \in Rows : Kind[r] = s.table /\ created[r] # 0 /\ usd[r] = 0
                         /\ Currency[r] \in s.rates => r \in chosen
    BY DEF Unconverted
  <1>5. /\ t \in Process /\ t.pc = "update" /\ t.task = s.task /\ t.made = s.made
        /\ t.table = s.table /\ t.rates = s.rates /\ t.rateDay = s.rateDay
        /\ t.chosen = chosen /\ t.writes = s.writes
    BY <1>1, <1>2 DEF Process
  <1>6. proc' = [proc EXCEPT ![p] = t]
    BY DEF Select, Set
  <1>7. UNCHANGED <<today, created, usd, shows, settled, starts>>
    BY DEF Select, core
  <1>8. raced' \in [rates : BOOLEAN, builds : BOOLEAN]
        /\ raced'.builds = raced.builds
        /\ (raced'.rates <=> raced.rates \/ \E q \in Procs \ {p} : Converting(q))
    <2> DEFINE new == raced.rates \/ \E q \in Procs \ {p} : Converting(q)
    <2>1. raced' = [raced EXCEPT !.rates = new] /\ new \in BOOLEAN
      BY DEF Select
    <2> HIDE DEF new
    <2>2. /\ raced' \in [rates : BOOLEAN, builds : BOOLEAN]
          /\ raced'.builds = raced.builds
          /\ raced'.rates = new
      BY <2>1 DEF IndInv, TypeOK
    <2> QED
      BY <2>2 DEF new
  <1>9. CoreMoves /\ RacedMoves
    BY <1>7, <1>8, SameCore DEF RacedMoves
  <1>10. ShowsAreOfDay' /\ SettledIsCreated' /\ SettledIsCounted'
    BY <1>7, <1>9, SameShows
  <1>11. /\ today' \in Days /\ starts' \in 0 .. MaxStarts
         /\ shows' \in [Days -> [Rows -> -1 .. MaxDays]]
         /\ settled' \subseteq Rows
    BY <1>7 DEF IndInv, TypeOK
  <1>12. \A q \in Procs \ {p} : ~raced'.rates => ~BegunOf(proc[q])
    BY <1>8 DEF Converting, BegunOf
  <1> HIDE DEF s, t, chosen
  <1>13. RowsOf(t, created, usd, raced')
    BY <1>1, <1>3, <1>5, <1>9 DEF Sound, RowsOf, RacedMoves
  <1>14. ShapeOf(t) /\ ~BuildingOf(t)
    BY <1>1, <1>5 DEF Sound, ShapeOf, BegunOf, BuildingOf
  <1>15. PricedOf(t, usd)
    <2>1. s.made \subseteq Rows /\ \A r \in s.made : created[r] # 0
      BY <1>1 DEF Sound, RowsOf, Process
    <2>2. ASSUME s.rates = Currencies, NEW r \in s.made, Currency[r] \in Currencies,
                 Passed(t, r)
          PROVE  usd[r] # 0 \/ r \in chosen \/ r \in s.writes
      <3>1. CASE Kind[r] = s.table
        BY <1>4, <2>1, <2>2, <3>1
      <3>2. CASE Kind[r] # s.table
        <4>1. s.table = "resume" /\ Kind[r] = "vacancy"
          BY <1>5, <2>1, <2>2, <3>2, Numbers DEF Passed
        <4>2. Passed(s, r)
          BY <1>1, <4>1 DEF Passed
        <4>3. s.chosen = {}
          BY <1>1 DEF Sound, ShapeOf
        <4> QED
          BY <1>1, <2>2, <4>2, <4>3 DEF Sound, PricedOf
      <3> QED
        BY <3>1, <3>2
    <2> QED
      BY <1>5, <1>14, <2>2 DEF PricedOf, HasRead, BuildingOf
  <1>16. Sound(t, created', usd', shows', raced')
    BY <1>7, <1>13, <1>14, <1>15 DEF Sound, SeenOf
  <1> QED
    BY <1>6, <1>7, <1>9, <1>10, <1>11, <1>12, <1>14, <1>16, StepOf

\* The writes of a process are of the rows it selected.
LEMMA UpdateHolds ==
    ASSUME IndInv, NEW p \in Procs, Update(p)
    PROVE  IndInv'
  <1> DEFINE s == proc[p]
             t == [s EXCEPT !.pc = IF s.table = "vacancy" THEN "select" ELSE "commit",
                            !.table = "resume",
                            !.writes = s.writes \cup s.chosen,
                            !.chosen = {}]
  <1>1. Sound(s, created, usd, shows, raced) /\ s \in Process /\ s.pc = "update"
    BY DEF IndInv, ProcsAreSound, Sound, ShapeOf, Update
  <1>2. /\ t \in Process /\ t.pc = IF s.table = "vacancy" THEN "select" ELSE "commit"
        /\ t.task = s.task /\ t.made = s.made
        /\ t.table = "resume" /\ t.rates = s.rates /\ t.rateDay = s.rateDay
        /\ t.chosen = {} /\ t.writes = s.writes \cup s.chosen
    BY <1>1 DEF Process
  <1>3. proc' = [proc EXCEPT ![p] = t]
    BY DEF Update, Set
  <1>4. UNCHANGED <<today, core, shows, history>> /\ starts' \in 0 .. MaxStarts
    BY DEF Update, IndInv, TypeOK
  <1>5. s.table = "vacancy" \/ s.table = "resume"
    BY <1>1 DEF Sound, ShapeOf, Process
  <1>6. BegunOf(proc[p])
    BY <1>1 DEF BegunOf
  <1> HIDE DEF s, t
  <1>7. BegunOf(t) /\ ~BuildingOf(t) /\ ShapeOf(t)
    BY <1>1, <1>2, <1>5 DEF Sound, ShapeOf, BegunOf, BuildingOf
  <1>8. RowsOf(t, created, usd, raced)
    BY <1>1, <1>2 DEF Sound, RowsOf
  <1>9. PricedOf(t, usd)
    <2>1. \A r \in s.made : Passed(t, r) => Passed(s, r)
      BY <1>1, <1>2, <1>5 DEF Passed
    <2> QED
      BY <1>1, <1>2, <1>7, <2>1 DEF Sound, PricedOf, HasRead, BuildingOf
  <1>10. Sound(t, created, usd, shows, raced)
    BY <1>7, <1>8, <1>9 DEF Sound, SeenOf
  <1> QED
    BY <1>3, <1>4, <1>6, <1>7, <1>10, QuietStepOf

\* Without overlaps the values committed are first values.
LEMMA CommitMovesCore ==
    ASSUME IndInv, NEW p \in Procs, Commit(p)
    PROVE  /\ CoreMoves
           /\ \A q \in Procs \ {p} : ~raced.rates =>
                 \A r \in proc[q].chosen \cup proc[q].writes : usd'[r] = usd[r]
           /\ \A r \in Rows : r \in proc[p].writes => usd'[r] # 0
           /\ \A r \in Rows : usd[r] # 0 => usd'[r] # 0
  <1> DEFINE s == proc[p]
  <1>1. Sound(s, created, usd, shows, raced) /\ s \in Process /\ s.pc = "commit"
    BY DEF IndInv, ProcsAreSound, Sound, ShapeOf, Commit
  <1>2. s.rateDay \in 0 .. MaxDays /\ s.rateDay # 0
    BY <1>1 DEF Sound, ShapeOf, Process
  <1>3. \A r \in s.writes : created[r] # 0 /\ (~raced.rates => usd[r] = 0)
    BY <1>1 DEF Sound, RowsOf
  <1>4. usd' = [r \in Rows |-> IF r \in s.writes THEN s.rateDay ELSE usd[r]]
        /\ UNCHANGED created
    BY DEF Commit
  <1>5. CoreMoves
    BY <1>2, <1>3, <1>4 DEF IndInv, TypeOK, CreatedFirst, CoreMoves
  <1>6. ASSUME NEW q \in Procs \ {p}, ~raced.rates,
               NEW r \in proc[q].chosen \cup proc[q].writes
        PROVE  usd'[r] = usd[r]
    <2>1. BegunOf(proc[p]) /\ ~BegunOf(proc[q])
      BY <1>1, <1>6 DEF IndInv, OneConversion, BegunOf
    <2>2. ShapeOf(proc[q])
      BY DEF IndInv, ProcsAreSound, Sound
    <2> QED
      BY <1>6, <2>1, <2>2 DEF ShapeOf
  <1> QED
    BY <1>2, <1>4, <1>5, <1>6

\* Rows get their values; whoever else selected them overlaps.
LEMMA CommitHolds ==
    ASSUME IndInv, NEW p \in Procs, Commit(p)
    PROVE  IndInv'
  <1> DEFINE s == proc[p]
  <1>1. Sound(s, created, usd, shows, raced) /\ s \in Process /\ s.pc = "commit"
    BY DEF IndInv, ProcsAreSound, Sound, ShapeOf, Commit
  <1>2. UNCHANGED <<today, created, shows, starts, raced, settled>>
    BY DEF Commit, history
  <1>3. RacedMoves
    BY <1>2, SameRaced
  <1>4. /\ CoreMoves
        /\ \A q \in Procs \ {p} : ~raced.rates =>
              \A r \in proc[q].chosen \cup proc[q].writes : usd'[r] = usd[r]
        /\ \A r \in Rows : r \in s.writes => usd'[r] # 0
        /\ \A r \in Rows : usd[r] # 0 => usd'[r] # 0
    BY CommitMovesCore
  <1>5. ShowsAreOfDay' /\ SettledIsCreated' /\ SettledIsCounted'
    BY <1>2, <1>3, <1>4, SameShows
  <1>6. /\ today' \in Days /\ starts' \in 0 .. MaxStarts
        /\ shows' \in [Days -> [Rows -> -1 .. MaxDays]]
        /\ settled' \subseteq Rows
    BY <1>2 DEF IndInv, TypeOK
  <1>7. ASSUME NEW t, proc' = [proc EXCEPT ![p] = t], ~BegunOf(t), ~BuildingOf(t),
               Sound(t, created', usd', shows', raced')
        PROVE  IndInv'
    BY <1>2, <1>3, <1>4, <1>5, <1>6, <1>7, StepOf
  <1>8. CASE s.task = "flow"
    <2> DEFINE t == [s EXCEPT !.pc = "build", !.writes = {}]
    <2>1. /\ t \in Process /\ t.pc = "build" /\ t.task = s.task /\ t.made = s.made
          /\ t.rates = s.rates /\ t.chosen = s.chosen /\ t.writes = {}
      BY <1>1 DEF Process
    <2>2. proc' = [proc EXCEPT ![p] = t]
      <3>1. [AfterConversion(p) EXCEPT !.writes = {}] = t
        BY <1>8 DEF AfterConversion
      <3> QED
        BY <3>1 DEF Commit, Set
    <2> HIDE DEF t
    <2>3. ~BegunOf(t) /\ ~BuildingOf(t)
      BY <2>1 DEF BegunOf, BuildingOf
    <2>4. PricedOf(t, usd')
      <3>1. ASSUME s.rates = Currencies, NEW r \in s.made, Currency[r] \in Currencies
            PROVE  usd'[r] # 0
        <4>1. usd[r] # 0 \/ r \in s.chosen \/ r \in s.writes
          BY <1>1, <3>1 DEF Sound, PricedOf, Passed
        <4>2. s.chosen = {} /\ r \in Rows
          BY <1>1 DEF Sound, ShapeOf, Process
        <4> QED
          BY <1>4, <4>1, <4>2
      <3> QED
        BY <2>1, <3>1 DEF PricedOf, Passed, HasRead
    <2>5. ShapeOf(t)
      BY <1>1, <1>8, <2>1, <2>3 DEF Sound, ShapeOf
    <2>6. RowsOf(t, created', usd', raced')
      BY <1>1, <1>2, <2>1 DEF Sound, ShapeOf, RowsOf
    <2>7. Sound(t, created', usd', shows', raced')
      BY <2>3, <2>4, <2>5, <2>6 DEF Sound, SeenOf
    <2> QED
      BY <1>7, <2>2, <2>3, <2>7
  <1>9. CASE s.task # "flow"
    <2> DEFINE t == [Off EXCEPT !.writes = {}]
    <2>1. /\ t \in Process /\ t.pc = "off" /\ t.made = {} /\ t.rates = {}
          /\ t.chosen = {} /\ t.writes = {}
      <3>1. t \in Process
        BY OffFields DEF Process
      <3> QED
        BY <3>1 DEF Off
    <2>2. proc' = [proc EXCEPT ![p] = t]
      BY <1>9 DEF Commit, Set, AfterConversion
    <2> HIDE DEF t
    <2>3. Sound(t, created', usd', shows', raced') /\ ~BegunOf(t) /\ ~BuildingOf(t)
      BY <2>1 DEF Sound, ShapeOf, RowsOf, SeenOf, PricedOf, BegunOf, BuildingOf,
                  Currencies
    <2> QED
      BY <1>7, <2>2, <2>3
  <1> QED
    BY <1>8, <1>9

-----------------------------------------------------------------------------
(* The build.                                                              *)

\* What the aggregation of a day sees of a row of its table.
LEMMA AggregateSees ==
    ASSUME IndInv, NEW table, NEW day \in 0 .. MaxDays,
           NEW seen \in [Rows -> -1 .. MaxDays]
    PROVE  /\ Aggregate(table, day, seen) \in [Rows -> -1 .. MaxDays]
           /\ \A r \in Rows :
                /\ Kind[r] # table => Aggregate(table, day, seen)[r] = seen[r]
                /\ Kind[r] = table /\ created[r] = day =>
                      Aggregate(table, day, seen)[r] = usd[r]
                /\ Kind[r] = table /\ created[r] # day =>
                      Aggregate(table, day, seen)[r] = -1
  BY Numbers DEF IndInv, TypeOK, Aggregate

\* A row just aggregated is seen as it is, which is not behind what the
\* snapshot shows of it.
LEMMA FreshIsSeen ==
    ASSUME IndInv, NEW d \in Days, NEW r \in Rows, NEW v \in -1 .. MaxDays,
           created[r] = d => v = usd[r],
           created[r] # d => v = -1
    PROVE  /\ v # -1 => created[r] = d
           /\ v <= usd[r]
           /\ created[r] = d => v # -1
           /\ shows[d][r] # -1 => v # -1
           /\ ~raced.rates => shows[d][r] <= v
  <1>1. /\ usd[r] \in 0 .. MaxDays
        /\ shows[d][r] \in -1 .. MaxDays
    BY DEF IndInv, TypeOK
  <1>2. /\ shows[d][r] # -1 => created[r] = d
        /\ ~raced.rates => shows[d][r] <= usd[r]
    BY DEF IndInv, ShowsAreOfDay
  <1> QED
    BY <1>1, <1>2, Numbers

\* The first aggregate: a build that overlaps another one is noticed here.
LEMMA ReadResumesHolds ==
    ASSUME IndInv, NEW p \in Procs, ReadResumes(p)
    PROVE  IndInv'
  <1> DEFINE s == proc[p]
             day == IF s.task = "flow" THEN today ELSE s.target
             seen == Aggregate("resume", day, Hidden)
             t == [s EXCEPT !.pc = "vacancies", !.target = day, !.seen = seen]
  <1>1. Sound(s, created, usd, shows, raced) /\ s \in Process /\ s.pc = "build"
    BY DEF IndInv, ProcsAreSound, Sound, ShapeOf, ReadResumes
  <1>2. day \in Days
    BY <1>1, Numbers DEF IndInv, TypeOK, Sound, ShapeOf, Process
  <1>3. Hidden \in [Rows -> -1 .. MaxDays] /\ \A r \in Rows : Hidden[r] = -1
    BY Numbers DEF Hidden
  <1>4. proc' = [proc EXCEPT ![p] = t]
    BY DEF ReadResumes, Set
  <1>5. raced' = [raced EXCEPT !.builds = raced.builds
                                          \/ \E q \in Procs \ {p} : Building(q)]
        /\ UNCHANGED <<today, created, usd, shows, starts, settled>>
    BY DEF ReadResumes, core
  <1> HIDE DEF day
  <1>6. /\ seen \in [Rows -> -1 .. MaxDays]
        /\ \A r \in Rows :
             /\ Kind[r] # "resume" => seen[r] = -1
             /\ Kind[r] = "resume" /\ created[r] = day => seen[r] = usd[r]
             /\ Kind[r] = "resume" /\ created[r] # day => seen[r] = -1
    BY <1>2, <1>3, AggregateSees, Numbers
  <1> HIDE DEF seen
  <1>7. /\ t \in Process /\ t.pc = "vacancies" /\ t.task = s.task /\ t.made = s.made
        /\ t.rates = s.rates /\ t.chosen = s.chosen /\ t.writes = s.writes
        /\ t.target = day /\ t.seen = seen
    <2>1. day \in 0 .. MaxDays
      BY <1>2, Numbers
    <2>2. t \in Process
      BY <1>1, <1>6, <2>1 DEF Process
    <2> QED
      BY <1>1, <2>2 DEF Process
  <1>8. raced' \in [rates : BOOLEAN, builds : BOOLEAN]
        /\ raced'.rates = raced.rates
        /\ (raced'.builds <=> raced.builds \/ \E q \in Procs \ {p} : Building(q))
    <2> DEFINE new == raced.builds \/ \E q \in Procs \ {p} : Building(q)
    <2>1. raced' = [raced EXCEPT !.builds = new] /\ new \in BOOLEAN
      BY <1>5
    <2> HIDE DEF new
    <2>2. /\ raced' \in [rates : BOOLEAN, builds : BOOLEAN]
          /\ raced'.rates = raced.rates
          /\ raced'.builds = new
      BY <2>1 DEF IndInv, TypeOK
    <2> QED
      BY <2>2 DEF new
  <1>9. CoreMoves /\ RacedMoves
    BY <1>5, <1>8, SameCore DEF RacedMoves
  <1>10. ShowsAreOfDay' /\ SettledIsCreated' /\ SettledIsCounted'
    BY <1>5, <1>9, SameShows
  <1>11. /\ today' \in Days /\ starts' \in 0 .. MaxStarts
         /\ shows' \in [Days -> [Rows -> -1 .. MaxDays]]
         /\ settled' \subseteq Rows
    BY <1>5 DEF IndInv, TypeOK
  <1>12. \A q \in Procs \ {p} : ~raced'.builds => ~BuildingOf(proc[q])
    BY <1>8 DEF Building, BuildingOf
  <1> HIDE DEF s, t
  <1>13. ShapeOf(t) /\ RowsOf(t, created, usd, raced) /\ ~BegunOf(t)
    BY <1>1, <1>2, <1>7, Numbers DEF Sound, ShapeOf, RowsOf, BegunOf, BuildingOf
  <1>14. ASSUME NEW r \in Rows, HasRead(t, r)
         PROVE  /\ seen[r] # -1 => created[r] = day
                /\ seen[r] <= usd[r]
                /\ created[r] = day => seen[r] # -1
                /\ shows[day][r] # -1 => seen[r] # -1
                /\ ~raced.rates => shows[day][r] <= seen[r]
    <2>1. Kind[r] = "resume"
      BY <1>7, <1>14 DEF HasRead
    <2>2. seen[r] \in -1 .. MaxDays
      BY <1>6
    <2> QED
      BY <1>2, <1>6, <2>1, <2>2, FreshIsSeen
  <1>15. ASSUME NEW r \in Rows, ~HasRead(t, r)
         PROVE  seen[r] = -1 /\ seen[r] <= usd[r]
    <2>1. Kind[r] # "resume" /\ usd[r] \in 0 .. MaxDays
      BY <1>7, <1>15 DEF HasRead, IndInv, TypeOK
    <2> QED
      BY <1>6, <2>1
  <1>16. SeenOf(t, created, usd, shows, raced')
    BY <1>7, <1>8, <1>14, <1>15 DEF SeenOf
  <1>17. PricedOf(t, usd)
    <2>1. ASSUME s.rates = Currencies, NEW r \in s.made, Currency[r] \in Currencies
          PROVE  usd[r] # 0 /\ (HasRead(t, r) => seen[r] # 0) /\ ~Passed(t, r)
      <3>1. usd[r] # 0 /\ r \in Rows
        BY <1>1, <2>1 DEF Sound, PricedOf, Process
      <3>2. seen[r] = usd[r] \/ seen[r] = -1
        BY <1>6, <3>1
      <3> QED
        BY <1>7, <3>1, <3>2 DEF Passed
    <2> QED
      BY <1>7, <2>1 DEF PricedOf
  <1>18. Sound(t, created', usd', shows', raced')
    BY <1>5, <1>8, <1>13, <1>16, <1>17 DEF Sound, RowsOf
  <1> QED
    BY <1>4, <1>5, <1>9, <1>10, <1>11, <1>12, <1>13, <1>18, StepOf

\* The second aggregate.
LEMMA ReadVacanciesHolds ==
    ASSUME IndInv, NEW p \in Procs, ReadVacancies(p)
    PROVE  IndInv'
  <1> DEFINE s == proc[p]
             seen == Aggregate("vacancy", s.target, s.seen)
             t == [s EXCEPT !.pc = "write", !.seen = seen]
  <1>1. Sound(s, created, usd, shows, raced) /\ s \in Process /\ s.pc = "vacancies"
    BY DEF IndInv, ProcsAreSound, Sound, ShapeOf, ReadVacancies
  <1>2. s.target \in Days /\ s.seen \in [Rows -> -1 .. MaxDays]
    BY <1>1, Numbers DEF Sound, ShapeOf, BuildingOf, Process
  <1>3. proc' = [proc EXCEPT ![p] = t] /\ UNCHANGED <<today, core, shows, history>>
        /\ starts' \in 0 .. MaxStarts
    BY DEF ReadVacancies, Set, IndInv, TypeOK
  <1>4. /\ seen \in [Rows -> -1 .. MaxDays]
        /\ \A r \in Rows :
             /\ Kind[r] # "vacancy" => seen[r] = s.seen[r]
             /\ Kind[r] = "vacancy" /\ created[r] = s.target => seen[r] = usd[r]
             /\ Kind[r] = "vacancy" /\ created[r] # s.target => seen[r] = -1
    <2>1. s.target \in 0 .. MaxDays
      BY <1>2, Numbers
    <2> HIDE DEF s
    <2> QED
      BY <1>2, <2>1, AggregateSees
  <1> HIDE DEF seen
  <1>5. /\ t \in Process /\ t.pc = "write" /\ t.task = s.task /\ t.made = s.made
        /\ t.rates = s.rates /\ t.chosen = s.chosen /\ t.writes = s.writes
        /\ t.target = s.target /\ t.seen = seen
    BY <1>1, <1>4 DEF Process
  <1>6. BuildingOf(proc[p])
    BY <1>1 DEF BuildingOf
  <1> HIDE DEF s, t
  <1>7. ShapeOf(t) /\ RowsOf(t, created, usd, raced) /\ ~BegunOf(t)
    BY <1>1, <1>5 DEF Sound, ShapeOf, RowsOf, BegunOf, BuildingOf
  <1>8. ASSUME NEW r \in Rows
        PROVE  /\ seen[r] # -1 => created[r] = s.target
               /\ ~raced.rates => seen[r] <= usd[r]
               /\ r \in s.made /\ created[r] = s.target => seen[r] # -1
               /\ ~raced.builds /\ shows[s.target][r] # -1 => seen[r] # -1
               /\ ~raced.builds /\ ~raced.rates => shows[s.target][r] <= seen[r]
    <2>1. CASE Kind[r] = "vacancy"
      <3>1. seen[r] \in -1 .. MaxDays
        BY <1>4
      <3> QED
        BY <1>2, <1>4, <2>1, <3>1, FreshIsSeen
    <2>2. CASE Kind[r] # "vacancy"
      <3>1. seen[r] = s.seen[r] /\ HasRead(s, r) /\ BuildingOf(s)
        BY <1>1, <1>4, <2>2, Numbers DEF HasRead, BuildingOf
      <3> QED
        BY <1>1, <3>1 DEF Sound, SeenOf
    <2> QED
      BY <2>1, <2>2
  <1>9. SeenOf(t, created, usd, shows, raced)
    BY <1>5, <1>8 DEF SeenOf
  <1>10. PricedOf(t, usd)
    <2>1. ASSUME s.rates = Currencies, NEW r \in s.made, Currency[r] \in Currencies
          PROVE  usd[r] # 0 /\ seen[r] # 0 /\ ~Passed(t, r)
      <3>1. usd[r] # 0 /\ r \in Rows /\ (HasRead(s, r) => s.seen[r] # 0)
        BY <1>1, <2>1 DEF Sound, PricedOf, Process
      <3>2. seen[r] # 0
        <4>1. CASE Kind[r] = "vacancy"
          BY <1>4, <3>1, <4>1
        <4>2. CASE Kind[r] # "vacancy"
          BY <1>1, <1>4, <3>1, <4>2, Numbers DEF HasRead
        <4> QED
          BY <4>1, <4>2
      <3> QED
        BY <1>5, <3>1, <3>2 DEF Passed
    <2> QED
      BY <1>5, <2>1 DEF PricedOf
  <1>11. Sound(t, created, usd, shows, raced)
    BY <1>7, <1>9, <1>10 DEF Sound
  <1> QED
    BY <1>3, <1>6, <1>7, <1>11, QuietStepOf

\* The upsert: a row of the snapshot becomes what the build has seen, or stays.
LEMMA UpsertedIs ==
    ASSUME IndInv, NEW p \in Procs, proc[p].pc = "write"
    PROVE  /\ proc[p].target \in Days
           /\ Upserted(p) \in [Rows -> -1 .. MaxDays]
           /\ \A r \in Rows :
                \/ Upserted(p)[r] = proc[p].seen[r]
                \/ /\ Upserted(p)[r] = shows[proc[p].target][r]
                   /\ proc[p].seen[r] = -1
  <1>1. Sound(proc[p], created, usd, shows, raced) /\ proc[p] \in Process
    BY DEF IndInv, ProcsAreSound, Sound, ShapeOf
  <1>2. proc[p].target \in Days /\ proc[p].seen \in [Rows -> -1 .. MaxDays]
    BY <1>1, Numbers DEF Sound, ShapeOf, BuildingOf, Process
  <1>3. shows[proc[p].target] \in [Rows -> -1 .. MaxDays]
    BY <1>2 DEF IndInv, TypeOK
  <1>4. \A r \in Rows : proc[p].seen[r] # -1 => r \in Written(p)
    BY Numbers DEF Written
  <1> QED
    BY <1>2, <1>3, <1>4 DEF Upserted

\* The snapshot of the day becomes what was aggregated.
LEMMA WriteHolds ==
    ASSUME IndInv, NEW p \in Procs, Write(p)
    PROVE  IndInv'
  <1> DEFINE s == proc[p]
             d == s.target
  <1>1. Sound(s, created, usd, shows, raced) /\ s \in Process /\ s.pc = "write"
    BY DEF IndInv, ProcsAreSound, Sound, ShapeOf, Write
  <1>2. /\ shows' = [shows EXCEPT ![d] = Upserted(p)]
        /\ settled' = settled \cup {r \in s.made : created[r] = d}
        /\ proc' = [proc EXCEPT ![p] = Off]
        /\ UNCHANGED <<today, created, usd, starts, raced>>
    BY DEF Write, Set, core
  <1>3. /\ d \in Days
        /\ Upserted(p) \in [Rows -> -1 .. MaxDays]
        /\ \A r \in Rows :
             \/ Upserted(p)[r] = s.seen[r]
             \/ Upserted(p)[r] = shows[d][r] /\ s.seen[r] = -1
    BY <1>1, UpsertedIs
  <1>4. CoreMoves /\ RacedMoves
    BY <1>2, SameCore, SameRaced
  <1>5. /\ shows \in [Days -> [Rows -> -1 .. MaxDays]]
        /\ shows' \in [Days -> [Rows -> -1 .. MaxDays]]
        /\ \A e \in Days : e # d => shows'[e] = shows[e]
        /\ shows'[d] = Upserted(p)
    BY <1>2, <1>3 DEF IndInv, TypeOK
  <1>6. s.made \subseteq Rows /\ settled \subseteq Rows /\ settled' \subseteq Rows
    BY <1>1, <1>2 DEF Process, IndInv, TypeOK
  <1>7. \A r \in Rows :
           /\ s.seen[r] # -1 => created[r] = d
           /\ ~raced.rates => s.seen[r] <= usd[r]
           /\ r \in s.made /\ created[r] = d => s.seen[r] # -1
           /\ ~raced.builds /\ shows[d][r] # -1 => s.seen[r] # -1
    BY <1>1 DEF Sound, SeenOf, BuildingOf, HasRead
  <1>8. ShowsAreOfDay'
    <2>1. ASSUME NEW e \in Days, NEW r \in Rows
          PROVE  /\ shows'[e][r] # -1 => created[r] = e
                 /\ ~raced.rates => shows'[e][r] <= usd[r]
      <3>1. /\ shows[e][r] # -1 => created[r] = e
            /\ ~raced.rates => shows[e][r] <= usd[r]
        BY DEF IndInv, ShowsAreOfDay
      <3>2. CASE e # d
        BY <1>5, <3>1, <3>2
      <3>3. CASE e = d
        BY <1>3, <1>5, <1>7, <3>1, <3>3
      <3> QED
        BY <3>2, <3>3
    <2> QED
      BY <1>2, <2>1 DEF ShowsAreOfDay
  <1>9. SettledIsCreated'
    BY <1>2, <1>3, <1>6, Numbers DEF IndInv, SettledIsCreated
  <1>10. SettledIsCounted'
    <2>1. ASSUME ~raced.builds, NEW r \in settled'
          PROVE  shows'[created[r]][r] # -1
      <3>1. CASE r \in settled /\ created[r] # d
        <4>1. shows[created[r]][r] # -1 /\ created[r] \in Days /\ r \in Rows
          BY <1>6, <2>1, <3>1, Numbers
          DEF IndInv, TypeOK, SettledIsCounted, SettledIsCreated
        <4> QED
          BY <1>5, <3>1, <4>1
      <3>2. CASE r \in settled /\ created[r] = d
        <4>1. shows[d][r] # -1 /\ r \in Rows
          BY <1>6, <2>1, <3>2 DEF IndInv, SettledIsCounted
        <4> QED
          BY <1>3, <1>5, <1>7, <2>1, <3>2, <4>1
      <3>3. CASE r \in s.made /\ created[r] = d
        BY <1>3, <1>5, <1>6, <1>7, <3>3
      <3> QED
        BY <1>2, <2>1, <3>1, <3>2, <3>3
    <2> QED
      BY <1>2, <2>1 DEF SettledIsCounted
  <1>11. \A q \in Procs \ {p} : ~raced'.builds => ~BuildingOf(proc[q])
    BY <1>1, <1>2 DEF IndInv, OneBuild, BuildingOf
  <1>12. today' \in Days /\ starts' \in 0 .. MaxStarts
    BY <1>2 DEF IndInv, TypeOK
  <1>13. Sound(Off, created', usd', shows', raced') /\ ~BegunOf(Off) /\ ~BuildingOf(Off)
    <2>1. /\ ShapeOf(Off) /\ ~BegunOf(Off) /\ ~BuildingOf(Off)
          /\ Off.made = {} /\ Off.chosen = {} /\ Off.writes = {}
      BY OffFields, NewIsSound DEF Sound
    <2> QED
      BY <2>1 DEF Sound, RowsOf, SeenOf, PricedOf
  <1> HIDE DEF s, d
  <1> QED
    BY <1>2, <1>4, <1>5, <1>6, <1>8, <1>9, <1>10, <1>11, <1>12, <1>13, StepOf

\* Only the date changes.
LEMMA NewDayHolds ==
    ASSUME IndInv, NewDay
    PROVE  IndInv'
  <1>1. UNCHANGED <<created, usd, shows, proc, starts, raced, settled>>
    BY DEF NewDay, core, history
  <1>2. today' \in Days
    BY Numbers DEF NewDay, IndInv, TypeOK
  <1> QED
    BY <1>1, <1>2 DEF IndInv, TypeOK, ProcsAreSound, Sound, OneConversion, OneBuild,
                      CreatedFirst, ShowsAreOfDay, SettledIsCreated, SettledIsCounted,
                      RowsOf, SeenOf, PricedOf

-----------------------------------------------------------------------------
\* No rows, no values, no snapshots.
LEMMA InitHolds == Init => IndInv
  <1> SUFFICES ASSUME Init PROVE IndInv
    OBVIOUS
  <1>1. \A p \in Procs : proc[p] = Off
    BY DEF Init
  <1>2. ProcsAreSound /\ OneConversion /\ OneBuild
    BY <1>1, OffFields, NewIsSound DEF ProcsAreSound, OneConversion, OneBuild
  <1>3. TypeOK
    BY OffFields, Numbers DEF Init, TypeOK, Hidden
  <1>4. CreatedFirst /\ ShowsAreOfDay /\ SettledIsCreated /\ SettledIsCounted
    BY DEF Init, Hidden, CreatedFirst, ShowsAreOfDay, SettledIsCreated, SettledIsCounted
  <1> QED
    BY <1>2, <1>3, <1>4 DEF IndInv

\* Every step keeps the invariant.
LEMMA StepHolds == IndInv /\ [Next]_vars => IndInv'
  <1> SUFFICES ASSUME IndInv, [Next]_vars PROVE IndInv'
    OBVIOUS
  <1>1. CASE Next
    BY <1>1, StartHolds, FailHolds, PersistHolds, NlpDoneHolds, RatesHolds, SelectHolds,
       UpdateHolds, CommitHolds, ReadResumesHolds, ReadVacanciesHolds, WriteHolds,
       NewDayHolds
    DEF Next, Work
  <1>2. CASE UNCHANGED vars
    BY <1>2 DEF vars, core, history, IndInv, TypeOK, ProcsAreSound, Sound, OneConversion,
                OneBuild, CreatedFirst, ShowsAreOfDay, SettledIsCreated,
                SettledIsCounted, RowsOf, SeenOf, PricedOf
  <1> QED
    BY <1>1, <1>2

\* The invariant holds throughout.
LEMMA Inductive == Spec => []IndInv
  BY InitHolds, StepHolds, PTL DEF Spec

-----------------------------------------------------------------------------
(* Theorems.                                                               *)

\* The variables keep their types.
THEOREM TypeCorrect == Spec => []TypeOK
  BY Inductive, PTL DEF IndInv

\* process_table(), the UPDATE by id: a row is valued once unless conversions
\* overlapped, whatever fails and whoever starts.
THEOREM RevaluedAlwaysInRace == Spec => RevaluedOnlyInRace
  <1> DEFINE A == \A r \in Rows : usd[r] # 0 /\ usd'[r] # usd[r] => raced.rates
  <1>1. IndInv /\ [Next]_vars => [A]_vars
    <2> SUFFICES ASSUME IndInv, Next PROVE A
      BY DEF A
    <2>1. ASSUME NEW p \in Procs, Commit(p)
          PROVE  A
      BY <2>1, CommitMovesCore DEF CoreMoves
    <2>2. ASSUME UNCHANGED usd
          PROVE  A
      BY <2>2
    <2> HIDE DEF A
    <2>3. ASSUME NEW p \in Procs, Start(p) \/ Fail(p) \/ Work(p), ~Commit(p)
          PROVE  UNCHANGED usd
      BY <2>3 DEF Start, Fail, Work, Persist, NlpDone, Rates, Select, Update,
                  ReadResumes, ReadVacancies, Write, core
    <2>4. NewDay => UNCHANGED usd
      BY DEF NewDay, core
    <2> QED
      BY <2>1, <2>2, <2>3, <2>4 DEF Next
  <1> QED
    BY <1>1, Inductive, PTL DEF Spec, RevaluedOnlyInRace

\* build_snapshot(), backfill: building a snapshot again does not lose what it
\* shows, unless conversions or builds overlapped.
THEOREM ForgetsAlwaysInRace == Spec => ForgetsOnlyInRace
  <1> DEFINE A == \A d \in Days, r \in Rows :
                    shows[d][r] > shows'[d][r] => raced.builds \/ raced.rates
  <1>1. IndInv /\ [Next]_vars => [A]_vars
    <2> SUFFICES ASSUME IndInv, Next PROVE A
      BY DEF A
    <2>1. ASSUME NEW p \in Procs, Write(p)
          PROVE  A
      <3>1. proc[p].pc = "write" /\ Sound(proc[p], created, usd, shows, raced)
        BY <2>1 DEF Write, IndInv, ProcsAreSound
      <3>2. shows' = [shows EXCEPT ![proc[p].target] = Upserted(p)]
        BY <2>1 DEF Write
      <3>3. ASSUME NEW d \in Days, NEW r \in Rows, shows[d][r] > shows'[d][r],
                   ~raced.builds, ~raced.rates
            PROVE  FALSE
        <4>1. shows[d][r] \in -1 .. MaxDays /\ shows \in [Days -> [Rows -> -1 .. MaxDays]]
          BY DEF IndInv, TypeOK
        <4>2. d = proc[p].target /\ shows'[d][r] = Upserted(p)[r]
          BY <3>2, <3>3, <4>1
        <4>3. shows[d][r] <= proc[p].seen[r]
          BY <3>1, <3>3, <4>2 DEF Sound, SeenOf, BuildingOf, HasRead
        <4>4. \/ Upserted(p)[r] = proc[p].seen[r]
              \/ Upserted(p)[r] = shows[d][r]
          BY <3>1, <4>2, UpsertedIs
        <4>5. proc[p].seen[r] \in -1 .. MaxDays
          BY <3>1 DEF Sound, ShapeOf, Process
        <4> QED
          BY <3>3, <4>1, <4>2, <4>3, <4>4, <4>5
      <3> QED
        BY <3>3
    <2>2. ASSUME UNCHANGED shows
          PROVE  A
      BY <2>2 DEF IndInv, TypeOK
    <2> HIDE DEF A
    <2>3. ASSUME NEW p \in Procs, Start(p) \/ Fail(p) \/ Work(p), ~Write(p)
          PROVE  UNCHANGED shows
      BY <2>3 DEF Start, Fail, Work, Persist, NlpDone, Rates, Select, Update, Commit,
                  ReadResumes, ReadVacancies
    <2>4. NewDay => UNCHANGED shows
      BY DEF NewDay
    <2> QED
      BY <2>1, <2>2, <2>3, <2>4 DEF Next
  <1> QED
    BY <1>1, Inductive, PTL DEF Spec, ForgetsOnlyInRace

\* etl_flow: what a flow has persisted is in the snapshot it built that day.
THEOREM SettledAlwaysCounted == Spec => []SettledIsCounted
  BY Inductive, PTL DEF IndInv

\* etl_flow: conversion comes before the snapshot for the flow's own rows.
THEOREM OwnRowsAlwaysPriced == Spec => []OwnRowsArePriced
  <1>1. IndInv => OwnRowsArePriced
    BY DEF IndInv, ProcsAreSound, Sound, PricedOf, HasRead, OwnRowsArePriced
  <1> QED
    BY <1>1, Inductive, PTL
=============================================================================
