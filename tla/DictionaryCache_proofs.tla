----------------------- MODULE DictionaryCache_proofs -----------------------
(***************************************************************************)
(* Proofs about DictionaryCache, for any number of coroutines, names and     *)
(* lists of skills.                                                          *)
(***************************************************************************)
EXTENDS DictionaryCache, TLAPS

\* The order in which a transaction resolves: skills come last, and the rest
\* one of a kind.
Rank(n) == IF n \in Companies THEN 1 ELSE IF n \in Locations THEN 2
           ELSE IF n \in Sources THEN 3 ELSE 4

After(n, m) == (n \in Skills /\ m \in Skills) \/ Rank(m) < Rank(n)

Ascending(s) == \A i, j \in 1 .. Len(s) : i < j => After(s[j], s[i])

\* The names a transaction has no lock on yet.
Ahead(j) == IF j.pc = "answer" THEN Tail(j.todo) ELSE j.todo

\* A sequence hands out an id once, so an id is of one name for ever.
IdsOf(owner) ==
    /\ \A n \in Names :
         /\ row[n] # 0 => owner[row[n]] = n
         /\ fresh[n] # 0 => owner[fresh[n]] = n
         /\ \A c \in Caches : cache[c][n] # 0 => owner[cache[c][n]] = n
    /\ \A t \in Tasks : \A ref \in job[t].refs : owner[ref.id] = ref.name

IssuedBefore ==
    /\ \A n \in Names :
         /\ row[n] < nextId
         /\ fresh[n] < nextId
         /\ \A c \in Caches : cache[c][n] < nextId
    /\ \A t \in Tasks : \A ref \in job[t].refs : ref.id < nextId

IdsAreUnique == \E owner \in [Nat -> Names \cup {None}] : IdsOf(owner)

\* A row that is not committed is locked, and the only one of its name.
FreshIsLocked ==
    \A n \in Names : fresh[n] # 0 => row[n] = 0 /\ lock[n] # None

\* What a transaction may rely on.
JobInv(t) ==
    /\ job[t].pc = "idle" => job[t] = NoJob /\ Holding(t) = {}
    /\ job[t].pc \in {"query", "insert", "answer"} => job[t].todo # <<>>
    /\ job[t].pc = "insert" => lock[Current(t)] # t \/ fresh[Current(t)] = 0
    /\ job[t].pc = "answer" => Visible(t, Current(t), job[t].got)
    /\ \A ref \in job[t].refs : ~ref.hit => Visible(t, ref.name, ref.id)
    /\ \A ref \in job[t].linked : Visible(t, ref.name, ref.id)

\* Locks are taken in the order of resolution.
InOrder(t) ==
    /\ Ascending(job[t].todo)
    /\ \A n \in Holding(t) : \A i \in 1 .. Len(Ahead(job[t])) : After(Ahead(job[t])[i], n)

JobsAreSound == \A t \in Tasks : JobInv(t)
LocksInOrder == \A t \in Tasks : InOrder(t)

IndInv ==
    /\ TypeOK
    /\ CoreRefsHold
    /\ IssuedBefore
    /\ IdsAreUnique
    /\ FreshIsLocked
    /\ JobsAreSound
    /\ LocksInOrder

-----------------------------------------------------------------------------
(* Sequences of names.                                                     *)

\* Two sequences, the second of which comes after the first.
LEMMA ConcatAscends ==
    ASSUME NEW s \in Seq(Names), NEW u \in Seq(Names), Ascending(s), Ascending(u),
           \A i \in 1 .. Len(s), j \in 1 .. Len(u) : After(u[j], s[i])
    PROVE  /\ s \o u \in Seq(Names)
           /\ Ascending(s \o u)
           /\ \A k \in 1 .. Len(s \o u) :
                 \/ \E i \in 1 .. Len(s) : (s \o u)[k] = s[i]
                 \/ \E j \in 1 .. Len(u) : (s \o u)[k] = u[j]
<1> DEFINE c == s \o u
<1>1. c \in Seq(Names) /\ Len(c) = Len(s) + Len(u)
  OBVIOUS
<1>2. \A k \in 1 .. Len(c) : c[k] = IF k <= Len(s) THEN s[k] ELSE u[k - Len(s)]
  OBVIOUS
<1> HIDE DEF c
<1>3. ASSUME NEW i \in 1 .. Len(c), NEW j \in 1 .. Len(c), i < j
      PROVE  After(c[j], c[i])
  <2>1. CASE j <= Len(s)
    BY <1>1, <1>2, <1>3, <2>1 DEF Ascending
  <2>2. CASE i <= Len(s) /\ Len(s) < j
    <3>1. j - Len(s) \in 1 .. Len(u) /\ i \in 1 .. Len(s)
      BY <1>1, <2>2
    <3> QED
      BY <1>2, <2>2, <3>1
  <2>3. CASE Len(s) < i
    <3>1. /\ i - Len(s) \in 1 .. Len(u) /\ j - Len(s) \in 1 .. Len(u)
          /\ i - Len(s) < j - Len(s)
      BY <1>1, <1>3, <2>3
    <3>2. c[i] = u[i - Len(s)] /\ c[j] = u[j - Len(s)]
      BY <1>2, <1>3, <2>3
    <3> QED
      BY <3>1, <3>2 DEF Ascending
  <2> QED
    BY <1>3, <2>1, <2>2, <2>3
<1>4. ASSUME NEW k \in 1 .. Len(c)
      PROVE  \/ \E i \in 1 .. Len(s) : c[k] = s[i]
             \/ \E j \in 1 .. Len(u) : c[k] = u[j]
  <2>1. CASE k <= Len(s)
    BY <1>2, <2>1
  <2>2. CASE Len(s) < k
    <3>1. k - Len(s) \in 1 .. Len(u)
      BY <1>1, <2>2
    <3> QED
      BY <1>2, <2>2, <3>1
  <2> QED
    BY <2>1, <2>2
<1> QED
  BY <1>1, <1>3, <1>4 DEF c, Ascending

\* A name that is known or not.
LEMMA KnownShape ==
    ASSUME NEW S \in SUBSET Names, NEW n \in S \cup {None}
    PROVE  /\ Known(n) \in Seq(Names)
           /\ Ascending(Known(n))
           /\ \A i \in 1 .. Len(Known(n)) : Known(n)[i] \in S
<1>1. CASE n = None
  BY <1>1 DEF Known, Ascending
<1>2. CASE n # None
  <2>1. Known(n) = <<n>> /\ n \in S
    BY <1>2 DEF Known
  <2> QED
    BY <2>1 DEF Ascending
<1> QED
  BY <1>1, <1>2

\* The order of persist() is one of names, and ascends.
LEMMA OrderAscends ==
    ASSUME NEW t \in Tasks, NEW company \in Companies \cup {None},
           NEW location \in Locations \cup {None}, NEW source \in Sources,
           NEW skills \in SkillLists
    PROVE  /\ Order(t, company, location, source, skills) \in Seq(Names)
           /\ Ascending(Order(t, company, location, source, skills))
<1> DEFINE a == Known(company)
           b == Known(location)
           d == <<source>>
           Within(s, S) == \A i \in 1 .. Len(s) : s[i] \in S
<1>1. /\ a \in Seq(Names) /\ Ascending(a) /\ Within(a, Companies)
      /\ b \in Seq(Names) /\ Ascending(b) /\ Within(b, Locations)
      /\ Companies \subseteq Names /\ Locations \subseteq Names
      /\ Sources \subseteq Names /\ Skills \subseteq Names
  <2>1. /\ Companies \in SUBSET Names /\ Locations \in SUBSET Names
        /\ Sources \subseteq Names /\ Skills \subseteq Names
    BY DEF Names
  <2> QED
    BY <2>1, KnownShape
<1>2. d \in Seq(Names) /\ Ascending(d) /\ Within(d, Sources)
  BY <1>1 DEF Ascending
<1>3. skills \in Seq(Skills) /\ skills \in Seq(Names) /\ Within(skills, Skills)
  BY <1>1, NamesAssumption
<1>4. /\ \A n \in Companies, m \in Locations \cup Sources \cup Skills : After(m, n)
      /\ \A n \in Locations, m \in Sources \cup Skills : After(m, n)
      /\ \A n \in Sources, m \in Skills : After(m, n)
      /\ \A n, m \in Skills : After(m, n)
  BY NamesAssumption DEF After, Rank
<1>5. Ascending(skills)
  BY <1>3, <1>4 DEF Ascending
<1> HIDE DEF a, b, d
<1>6. a \o b \in Seq(Names) /\ Ascending(a \o b) /\ Within(a \o b, Companies \cup Locations)
  BY <1>1, <1>4, ConcatAscends
<1>7. /\ a \o b \o d \in Seq(Names) /\ Ascending(a \o b \o d)
      /\ Within(a \o b \o d, Companies \cup Locations \cup Sources)
  <2>1. \A i \in 1 .. Len(a \o b), j \in 1 .. Len(d) : After(d[j], (a \o b)[i])
    BY <1>2, <1>4, <1>6
  <2>2. d \in Seq(Names) /\ Ascending(d)
    BY <1>2
  <2>3. /\ a \o b \o d \in Seq(Names) /\ Ascending(a \o b \o d)
        /\ \A k \in 1 .. Len(a \o b \o d) :
              \/ \E i \in 1 .. Len(a \o b) : (a \o b \o d)[k] = (a \o b)[i]
              \/ \E j \in 1 .. Len(d) : (a \o b \o d)[k] = d[j]
    BY <1>6, <2>1, <2>2, ConcatAscends
  <2> QED
    BY <1>2, <1>6, <2>3
<1>8. a \o b \o d \o skills \in Seq(Names) /\ Ascending(a \o b \o d \o skills)
  BY <1>3, <1>4, <1>5, <1>7, ConcatAscends
<1>9. /\ b \o d \in Seq(Names) /\ Ascending(b \o d)
      /\ Within(b \o d, Locations \cup Sources)
  <2>1. \A i \in 1 .. Len(b), j \in 1 .. Len(d) : After(d[j], b[i])
    BY <1>1, <1>2, <1>4
  <2>2. d \in Seq(Names) /\ Ascending(d)
    BY <1>2
  <2> QED
    BY <1>1, <1>2, <2>1, <2>2, ConcatAscends
<1>10. b \o d \o skills \in Seq(Names) /\ Ascending(b \o d \o skills)
  BY <1>3, <1>4, <1>5, <1>9, ConcatAscends
<1> QED
  BY <1>8, <1>10 DEF Order, a, b, d

\* What is left of an ascending sequence ascends, and comes after its head.
LEMMA TailAscends ==
    ASSUME NEW s \in Seq(Names), s # <<>>, Ascending(s)
    PROVE  /\ Head(s) \in Names
           /\ Tail(s) \in Seq(Names)
           /\ Ascending(Tail(s))
           /\ \A i \in 1 .. Len(Tail(s)) : After(Tail(s)[i], Head(s))
  BY DEF Ascending

-----------------------------------------------------------------------------
(* The first state.                                                        *)

\* No ids, no transactions, no references.
LEMMA InitHolds == Init => IndInv
<1> SUFFICES ASSUME Init PROVE IndInv
  OBVIOUS
<1> USE DEF Init
<1>1. TypeOK
  BY BoundAssumption DEF TypeOK, NoJob, JobState, Reference
<1>2. CoreRefsHold
  BY DEF CoreRefsHold
<1>3. IssuedBefore
  BY DEF IssuedBefore, NoJob
<1>4. IdsAreUnique
  <2>1. IdsOf([i \in Nat |-> None])
    BY DEF IdsOf, NoJob
  <2> QED
    BY <2>1 DEF IdsAreUnique
<1>5. FreshIsLocked
  BY DEF FreshIsLocked
<1>6. JobsAreSound
  BY NoneAssumption DEF JobsAreSound, JobInv, NoJob, Holding
<1>7. LocksInOrder
  BY NoneAssumption DEF LocksInOrder, InOrder, NoJob, Holding, Ascending
<1> QED
  BY <1>1, <1>2, <1>3, <1>4, <1>5, <1>6, <1>7 DEF IndInv

-----------------------------------------------------------------------------
(* Facts for the steps.                                                    *)

\* What the invariant says of one coroutine.
LEMMA JobFacts ==
    ASSUME IndInv, NEW t \in Tasks
    PROVE  /\ job[t] \in JobState
           /\ JobInv(t)
           /\ InOrder(t)
           /\ t # None
           /\ job[t].todo # <<>> => Current(t) \in Names
  BY NoneAssumption DEF IndInv, TypeOK, JobState, JobsAreSound, LocksInOrder, Current

\* A step that leaves the database alone and of the coroutines changes t only.
LEMMA LocalStep ==
    ASSUME IndInv, NEW t \in Tasks, NEW j \in JobState, Set(t, j), UNCHANGED database,
           JobInv(t)', InOrder(t)'
    PROVE  FreshIsLocked' /\ JobsAreSound' /\ LocksInOrder'
<1>1. FreshIsLocked'
  BY DEF IndInv, FreshIsLocked, database
<1>2. ASSUME NEW u \in Tasks, u # t PROVE JobInv(u)' /\ InOrder(u)'
  <2>1. job'[u] = job[u] /\ JobInv(u) /\ InOrder(u)
    BY <1>2 DEF IndInv, TypeOK, JobsAreSound, LocksInOrder, Set
  <2> QED
    BY <2>1 DEF JobInv, InOrder, Holding, Current, Visible, database
<1> QED
  BY <1>1, <1>2 DEF JobsAreSound, LocksInOrder

\* The same, of ids: what t has in hand, and what is in the cache, is of a row
\* of its name or was in the cache before.
LEMMA LocalIds ==
    ASSUME IndInv, NEW t \in Tasks, NEW j \in JobState, Set(t, j), UNCHANGED database,
           \A c \in Caches, n \in Names : cache'[c][n] \in {cache[c][n], row[n], fresh[n]},
           \A ref \in j.refs :
              \/ ref \in job[t].refs
              \/ ref.id \in {cache[CacheOf(t)][ref.name], row[ref.name], fresh[ref.name]}
    PROVE  IssuedBefore' /\ IdsAreUnique'
<1>1. /\ \A u \in Tasks : job'[u] = IF u = t THEN j ELSE job[u]
      /\ row' = row /\ fresh' = fresh /\ nextId' = nextId
      /\ CacheOf(t) \in Caches
      /\ \A ref \in j.refs : ref.name \in Names /\ ref.id # 0
  BY DEF IndInv, TypeOK, Set, database, CacheOf, Caches, JobState, Reference
<1>2. IssuedBefore'
  BY <1>1 DEF IndInv, IssuedBefore
<1>3. IdsAreUnique'
  <2>1. PICK owner \in [Nat -> Names \cup {None}] : IdsOf(owner)
    BY DEF IndInv, IdsAreUnique
  <2>2. IdsOf(owner)'
    BY <1>1, <2>1 DEF IdsOf
  <2> QED
    BY <2>2 DEF IdsAreUnique
<1> QED
  BY <1>2, <1>3

\* What comes after the head of the names to resolve.
LEMMA AheadShrinks ==
    ASSUME NEW s \in Seq(Names), s # <<>>, Ascending(s)
    PROVE  /\ Ascending(Tail(s))
           /\ \A i \in 1 .. Len(Tail(s)) :
                /\ i + 1 \in 1 .. Len(s) /\ Tail(s)[i] = s[i + 1]
                /\ After(Tail(s)[i], Head(s))
<1>1. \A i \in 1 .. Len(Tail(s)) : i + 1 \in 1 .. Len(s) /\ Tail(s)[i] = s[i + 1]
  OBVIOUS
<1> QED
  BY <1>1, TailAscends

\* A name is resolved.
LEMMA ResolvedShape ==
    ASSUME NEW t \in Tasks, job[t] \in JobState, job[t].todo # <<>>,
           NEW id \in Nat \ {0}, NEW hit \in BOOLEAN
    PROVE  /\ Resolved(t, id, hit) \in JobState
           /\ Resolved(t, id, hit).pc = "resolve"
           /\ Resolved(t, id, hit).todo = Tail(job[t].todo)
           /\ Resolved(t, id, hit).refs =
                 job[t].refs \cup {[name |-> Current(t), id |-> id, hit |-> hit]}
           /\ Resolved(t, id, hit).linked = job[t].linked
<1> DEFINE todo == Tail(job[t].todo)
           refs == job[t].refs \cup {[name |-> Current(t), id |-> id, hit |-> hit]}
<1>1. todo \in Seq(Names) /\ Current(t) \in Names
  BY DEF JobState, Current
<1>2. refs \in SUBSET Reference
  BY <1>1 DEF Reference, JobState
<1>3. Resolved(t, id, hit) = [job[t] EXCEPT !.pc = "resolve", !.todo = todo,
                                           !.got = 0, !.refs = refs]
  BY DEF Resolved
<1> HIDE DEF todo, refs
<1>4. [job[t] EXCEPT !.pc = "resolve", !.todo = todo, !.got = 0, !.refs = refs] \in JobState
  BY <1>1, <1>2 DEF JobState
<1>5. /\ Resolved(t, id, hit) \in JobState
      /\ Resolved(t, id, hit).pc = "resolve"
      /\ Resolved(t, id, hit).todo = todo
      /\ Resolved(t, id, hit).refs = refs
      /\ Resolved(t, id, hit).linked = job[t].linked
  BY <1>3, <1>4 DEF JobState
<1> QED
  BY <1>5 DEF todo, refs

-----------------------------------------------------------------------------
(* The steps of persist().                                                 *)

\* A transaction begins with no locks and with its names in order.
LEMMA BeginHolds == ASSUME IndInv, NEW t \in Tasks, Begin(t) PROVE IndInv'
<1> USE DEF Begin
<1>1. PICK company \in Companies \cup {None}, location \in Locations \cup {None},
           source \in Sources, skills \in SkillLists :
        Set(t, [NoJob EXCEPT !.pc = "resolve",
                             !.todo = Order(t, company, location, source, skills)])
  OBVIOUS
<1> DEFINE todo == Order(t, company, location, source, skills)
           j == [NoJob EXCEPT !.pc = "resolve", !.todo = todo]
<1>2. todo \in Seq(Names) /\ Ascending(todo)
  BY OrderAscends
<1> HIDE DEF todo
<1>3. /\ j \in JobState /\ j.pc = "resolve" /\ j.todo = todo
      /\ j.refs = {} /\ j.linked = {}
  BY <1>2 DEF NoJob, JobState
<1> HIDE DEF j
<1>4. Set(t, j) /\ job'[t] = j
  BY <1>1 DEF Set, j, todo, IndInv, TypeOK
<1>5. JobInv(t)'
  BY <1>3, <1>4 DEF JobInv
<1>6. InOrder(t)'
  <2>1. Holding(t)' = {}
    BY JobFacts DEF JobInv, Holding, database
  <2> QED
    BY <1>2, <1>3, <1>4, <2>1 DEF InOrder
<1>7. TypeOK'
  BY <1>3, <1>4, BoundAssumption DEF IndInv, TypeOK, database, Set
<1>8. CoreRefsHold'
  BY DEF IndInv, CoreRefsHold, database
<1> QED
  BY <1>3, <1>4, <1>5, <1>6, <1>7, <1>8, LocalStep, LocalIds DEF IndInv

\* An id taken from the cache belongs to the name asked for.
LEMMA LookupHolds == ASSUME IndInv, NEW t \in Tasks, Lookup(t) PROVE IndInv'
<1> USE DEF Lookup
<1> DEFINE id == cache[CacheOf(t)][Current(t)]
           j == IF id # 0 THEN Resolved(t, id, TRUE) ELSE [job[t] EXCEPT !.pc = "query"]
<1>1. /\ Set(t, j) /\ job[t].pc = "resolve" /\ job[t].todo # <<>>
      /\ job[t] \in JobState /\ job[t].todo \in Seq(Names) /\ JobInv(t) /\ InOrder(t)
      /\ Current(t) \in Names /\ id \in Nat
  BY JobFacts DEF JobState, IndInv, TypeOK, CacheOf, Caches
<1>2. /\ Tail(job[t].todo) \in Seq(Names) /\ Ascending(Tail(job[t].todo))
      /\ Ascending(job[t].todo)
  BY <1>1, TailAscends DEF InOrder
<1>3. /\ j \in JobState
      /\ j.linked = job[t].linked
      /\ \A ref \in j.refs :
            ref \in job[t].refs \/ (ref.hit /\ ref.name = Current(t) /\ ref.id = id)
  <2>1. CASE id = 0
    BY <1>1, <2>1 DEF JobState
  <2>2. CASE id # 0
    <3>1. j = Resolved(t, id, TRUE) /\ id \in Nat \ {0}
      BY <1>1, <2>2
    <3> HIDE DEF j, id
    <3>2. /\ j \in JobState /\ j.linked = job[t].linked
          /\ j.refs = job[t].refs \cup {[name |-> Current(t), id |-> id, hit |-> TRUE]}
      BY <1>1, <3>1, ResolvedShape
    <3> QED
      BY <3>2
  <2> QED
    BY <2>1, <2>2
<1>4. \/ j.pc = "query" /\ j.todo = job[t].todo
      \/ j.pc = "resolve" /\ j.todo = Tail(job[t].todo)
  <2>1. CASE id = 0
    BY <1>1, <2>1 DEF JobState
  <2>2. CASE id # 0
    BY <1>1, <2>2, ResolvedShape
  <2> QED
    BY <1>1, <2>1, <2>2
<1> HIDE DEF j
<1>5. job'[t] = j /\ UNCHANGED <<row, fresh, lock>>
  BY <1>1 DEF Set, IndInv, TypeOK, database
<1>6. JobInv(t)'
  BY <1>1, <1>3, <1>4, <1>5 DEF JobInv, Visible
<1>7. InOrder(t)'
  <2>1. Ahead(job[t]) = job[t].todo /\ Ahead(j) = j.todo
    BY <1>1, <1>4 DEF Ahead
  <2>2. \A i \in 1 .. Len(Tail(job[t].todo)) :
           i + 1 \in 1 .. Len(job[t].todo) /\ Tail(job[t].todo)[i] = job[t].todo[i + 1]
    BY <1>1
  <2> QED
    BY <1>1, <1>2, <1>4, <1>5, <2>1, <2>2 DEF InOrder, Holding
<1>8. TypeOK'
  BY <1>3, <1>1 DEF IndInv, TypeOK, database, Set
<1>9. CoreRefsHold'
  BY DEF IndInv, CoreRefsHold, database
<1> QED
  BY <1>1, <1>3, <1>4, <1>6, <1>7, <1>8, <1>9, LocalStep, LocalIds DEF IndInv, id

\* A statement that changes nothing has an answer, or finds nothing.
LEMMA AnswerHolds ==
    ASSUME IndInv, NEW t \in Tasks, job[t].pc \in {"query", "insert"},
           NEW j \in JobState, Set(t, j), j.todo = job[t].todo, j.refs = job[t].refs,
           j.linked = job[t].linked,
           \/ j.pc = "answer" /\ Visible(t, Current(t), j.got)
           \/ j.pc = "insert" /\ (lock[Current(t)] # t \/ fresh[Current(t)] = 0),
           UNCHANGED <<database, cache, core, persists>>
    PROVE  IndInv'
<1>1. /\ job[t] \in JobState /\ JobInv(t) /\ InOrder(t)
      /\ job[t].todo # <<>> /\ job[t].todo \in Seq(Names)
  BY JobFacts DEF JobInv, JobState
<1>2. job'[t] = j /\ UNCHANGED <<row, fresh, lock>> /\ Current(t)' = Current(t)
  BY DEF Set, IndInv, TypeOK, database, Current
<1>3. JobInv(t)'
  BY <1>1, <1>2 DEF JobInv, Visible
<1>4. InOrder(t)'
  <2>1. Ahead(job[t]) = job[t].todo /\ Ahead(j) \in {j.todo, Tail(j.todo)}
    BY <1>1 DEF Ahead
  <2>2. \A i \in 1 .. Len(Tail(job[t].todo)) :
           i + 1 \in 1 .. Len(job[t].todo) /\ Tail(job[t].todo)[i] = job[t].todo[i + 1]
    BY <1>1
  <2> QED
    BY <1>1, <1>2, <2>1, <2>2 DEF InOrder, Holding
<1>5. TypeOK'
  BY DEF IndInv, TypeOK, database, Set
<1>6. CoreRefsHold'
  BY DEF IndInv, CoreRefsHold, database
<1> QED
  BY <1>3, <1>4, <1>5, <1>6, LocalStep, LocalIds DEF IndInv

\* Return(t, id) for a row that t sees.
LEMMA ReturnHolds ==
    ASSUME IndInv, NEW t \in Tasks, job[t].pc \in {"query", "insert"}, NEW id \in Nat,
           Visible(t, Current(t), id), Return(t, id),
           UNCHANGED <<database, cache, core, persists>>
    PROVE  IndInv'
<1> DEFINE j == [job[t] EXCEPT !.pc = "answer", !.got = id]
<1>1. /\ j \in JobState /\ j.todo = job[t].todo /\ j.refs = job[t].refs
      /\ j.linked = job[t].linked /\ j.pc = "answer" /\ j.got = id
  BY JobFacts DEF JobState
<1>2. Set(t, j)
  BY DEF Return
<1> HIDE DEF j
<1> QED
  BY <1>1, <1>2, AnswerHolds

\* A row that is found is the one of its name.
LEMMA SelectHolds == ASSUME IndInv, NEW t \in Tasks, Select(t) PROVE IndInv'
<1> USE DEF Select
<1>1. /\ job[t].pc = "query" /\ job[t] \in JobState /\ Current(t) \in Names
      /\ row[Current(t)] \in Nat /\ fresh[Current(t)] \in Nat
  BY JobFacts DEF JobInv, IndInv, TypeOK
<1>2. CASE \E id \in {row[Current(t)], fresh[Current(t)]} :
             Visible(t, Current(t), id) /\ Return(t, id)
  BY <1>1, <1>2, ReturnHolds
<1>3. CASE /\ \A id \in {row[Current(t)], fresh[Current(t)]} : ~Visible(t, Current(t), id)
           /\ Set(t, [job[t] EXCEPT !.pc = "insert"])
  <2> DEFINE j == [job[t] EXCEPT !.pc = "insert"]
  <2>1. /\ j \in JobState /\ j.todo = job[t].todo /\ j.refs = job[t].refs
        /\ j.linked = job[t].linked /\ j.pc = "insert"
    BY <1>1 DEF JobState
  <2>2. lock[Current(t)] # t \/ fresh[Current(t)] = 0
    BY <1>3 DEF Visible
  <2>3. Set(t, j)
    BY <1>3
  <2> HIDE DEF j
  <2> QED
    BY <1>1, <2>1, <2>2, <2>3, AnswerHolds
<1> QED
  BY <1>2, <1>3

\* The id that is published is the one the statement returned.
LEMMA PublishHolds == ASSUME IndInv, NEW t \in Tasks, Publish(t) PROVE IndInv'
<1> USE DEF Publish
<1> DEFINE id == job[t].got
           j == Resolved(t, id, FALSE)
           ref == [name |-> Current(t), id |-> id, hit |-> FALSE]
<1>1. /\ job[t].pc = "answer" /\ job[t] \in JobState /\ JobInv(t) /\ InOrder(t)
      /\ job[t].todo # <<>> /\ job[t].todo \in Seq(Names) /\ Current(t) \in Names
  BY JobFacts DEF JobInv, JobState
<1>2. Visible(t, Current(t), id) /\ id \in Nat \ {0}
  BY <1>1 DEF JobInv, Visible, JobState
<1> HIDE DEF id
<1>3. /\ j \in JobState /\ j.pc = "resolve" /\ j.todo = Tail(job[t].todo)
      /\ j.refs = job[t].refs \cup {ref} /\ j.linked = job[t].linked
  BY <1>1, <1>2, ResolvedShape
<1>4. Set(t, j) /\ cache' = [cache EXCEPT ![CacheOf(t)][Current(t)] = id]
  BY DEF id
<1> HIDE DEF j, Publish
<1>5. job'[t] = j /\ UNCHANGED <<row, fresh, lock>> /\ UNCHANGED database
  BY <1>4 DEF Set, IndInv, TypeOK, database, Publish
<1>6. JobInv(t)'
  <2>1. \A r \in j.refs : ~r.hit => Visible(t, r.name, r.id)
    BY <1>1, <1>2, <1>3 DEF JobInv
  <2> QED
    BY <1>1, <1>3, <1>5, <2>1 DEF JobInv, Visible
<1>7. InOrder(t)'
  <2>1. Ahead(job[t]) = Tail(job[t].todo) /\ Ahead(j) = Tail(job[t].todo)
    BY <1>1, <1>3 DEF Ahead
  <2>2. Ascending(Tail(job[t].todo))
    BY <1>1, AheadShrinks DEF InOrder
  <2> QED
    BY <1>1, <1>3, <1>5, <2>1, <2>2 DEF InOrder, Holding
<1>8. cache' \in [Caches -> [Names -> Nat]]
  BY <1>1, <1>2, <1>4 DEF IndInv, TypeOK
<1>9. TypeOK'
  BY <1>3, <1>4, <1>5, <1>8 DEF IndInv, TypeOK, Set, database, Publish
<1>10. CoreRefsHold'
  BY DEF IndInv, CoreRefsHold, database, Publish
<1>11. IssuedBefore' /\ IdsAreUnique'
  <2>1. \A c \in Caches, n \in Names : cache'[c][n] \in {cache[c][n], row[n], fresh[n]}
    BY <1>2, <1>4 DEF IndInv, TypeOK, Visible
  <2>2. \A r \in j.refs : \/ r \in job[t].refs
                          \/ r.id \in {row[r.name], fresh[r.name]}
    BY <1>2, <1>3 DEF Visible
  <2> QED
    BY <1>3, <1>4, <1>5, <2>1, <2>2, LocalIds
<1> QED
  BY <1>3, <1>4, <1>5, <1>6, <1>7, <1>9, <1>10, <1>11, LocalStep DEF IndInv

\* The references that are written are those that were resolved.
LEMMA InsertHolds == ASSUME IndInv, NEW t \in Tasks, Insert(t) PROVE IndInv'
<1> USE DEF Insert
<1> DEFINE j == [job[t] EXCEPT !.inserted = TRUE, !.refs = {}, !.linked = @ \cup job[t].refs]
<1>1. /\ job[t].pc = "resolve" /\ job[t] \in JobState /\ JobInv(t) /\ InOrder(t)
  BY JobFacts
<1>2. /\ j \in JobState /\ j.pc = "resolve" /\ j.todo = job[t].todo
      /\ j.refs = {} /\ j.linked = job[t].linked \cup job[t].refs
  BY <1>1 DEF JobState
<1> HIDE DEF j
<1>3. Set(t, j) /\ job'[t] = j /\ UNCHANGED <<row, fresh, lock>>
  BY DEF Set, IndInv, TypeOK, database, j
<1>4. ASSUME NEW ref \in job[t].refs PROVE Visible(t, ref.name, ref.id)
  <2>1. PICK n \in Names : Visible(t, n, ref.id)
    BY DEF KeyHolds
  <2>2. PICK owner \in [Nat -> Names \cup {None}] : IdsOf(owner)
    BY DEF IndInv, IdsAreUnique
  <2>3. owner[ref.id] = ref.name /\ owner[ref.id] = n
    BY <2>1, <2>2 DEF IdsOf, Visible
  <2> QED
    BY <2>1, <2>3
<1>5. JobInv(t)'
  BY <1>1, <1>2, <1>3, <1>4 DEF JobInv, Visible
<1>6. InOrder(t)'
  BY <1>1, <1>2, <1>3 DEF InOrder, Holding, Ahead
<1>7. TypeOK'
  BY <1>2, <1>3 DEF IndInv, TypeOK, database, Set
<1>8. CoreRefsHold'
  BY DEF IndInv, CoreRefsHold, database
<1> QED
  BY <1>2, <1>3, <1>5, <1>6, <1>7, <1>8, LocalStep, LocalIds DEF IndInv

\* The statement of a resolver has the row of the name at hand: it was there
\* or it is new, and it is locked.
LEMMA GrabHolds ==
    ASSUME IndInv, NEW t \in Tasks, job[t].pc \in {"query", "insert"},
           Free(t, Current(t)), NEW id \in Nat \ {0}, Return(t, id),
           lock' = [lock EXCEPT ![Current(t)] = t],
           \/ /\ id \in {row[Current(t)], fresh[Current(t)]}
              /\ UNCHANGED <<fresh, nextId>>
           \/ /\ row[Current(t)] = 0 /\ fresh[Current(t)] = 0 /\ id = nextId
              /\ fresh' = [fresh EXCEPT ![Current(t)] = nextId]
              /\ nextId' = nextId + 1,
           UNCHANGED <<row, cache, core, persists>>
    PROVE  IndInv'
<1> DEFINE n == Current(t)
           j == [job[t] EXCEPT !.pc = "answer", !.got = id]
<1>1. /\ job[t] \in JobState /\ JobInv(t) /\ InOrder(t)
      /\ job[t].todo # <<>> /\ job[t].todo \in Seq(Names) /\ n \in Names /\ t # None
  BY JobFacts DEF JobInv, JobState
<1>2. /\ j \in JobState /\ j.pc = "answer" /\ j.got = id /\ j.todo = job[t].todo
      /\ j.refs = job[t].refs /\ j.linked = job[t].linked
  BY <1>1 DEF JobState
<1>3. /\ job' = [job EXCEPT ![t] = j] /\ job'[t] = j
      /\ \A u \in Tasks : u # t => job'[u] = job[u]
  BY DEF Return, Set, IndInv, TypeOK
<1>4. lock'[n] = t /\ (\A m \in Names : m # n => lock'[m] = lock[m] /\ fresh'[m] = fresh[m])
  BY <1>1 DEF IndInv, TypeOK
<1>5. /\ fresh'[n] = fresh[n] \/ (fresh[n] = 0 /\ fresh'[n] = nextId)
      /\ id = row[n] \/ id = fresh'[n]
      /\ fresh'[n] # 0 => row[n] = 0
  BY <1>1 DEF IndInv, TypeOK, FreshIsLocked
<1>6. Current(t)' = n
  BY <1>2, <1>3 DEF Current
<1> HIDE DEF j, n
<1>7. ASSUME NEW u \in Tasks, NEW m \in Names, NEW i, Visible(u, m, i)
      PROVE  Visible(u, m, i)'
  <2>1. CASE m = n
    BY <1>4, <1>5, <1>7, <2>1 DEF Visible, Free, n, IndInv, FreshIsLocked
  <2>2. CASE m # n
    BY <1>4, <1>7, <2>2 DEF Visible
  <2> QED
    BY <2>1, <2>2
<1>8. /\ FreshIsLocked'
      /\ CoreRefsHold'
  BY <1>1, <1>4, <1>5 DEF IndInv, FreshIsLocked, CoreRefsHold
<1>9. TypeOK'
  <2>1. fresh' \in [Names -> Nat] /\ nextId' \in Nat \ {0}
    <3>1. fresh \in [Names -> Nat] /\ nextId \in Nat \ {0}
      BY DEF IndInv, TypeOK
    <3> QED
      BY <3>1
  <2>3. lock' \in [Names -> Tasks \cup {None}]
    <3>1. lock \in [Names -> Tasks \cup {None}]
      BY DEF IndInv, TypeOK
    <3> QED
      BY <3>1
  <2>2. job' \in [Tasks -> JobState]
    BY <1>2, <1>3 DEF IndInv, TypeOK
  <2> QED
    BY <2>1, <2>2, <2>3 DEF IndInv, TypeOK
<1>10. JobsAreSound'
  <2>1. JobInv(t)'
    <3>1. \A ref \in job[t].refs \cup job[t].linked : ref.name \in Names
      BY <1>1 DEF JobState, Reference
    <3>2. Visible(t, Current(t), job[t].got)'
      BY <1>2, <1>3, <1>4, <1>5, <1>6 DEF Visible
    <3> QED
      BY <1>1, <1>2, <1>3, <1>6, <1>7, <3>1, <3>2 DEF JobInv
  <2>2. ASSUME NEW u \in Tasks, u # t PROVE JobInv(u)'
    <3>1. /\ job'[u] = job[u] /\ JobInv(u) /\ job[u] \in JobState /\ Current(u)' = Current(u)
          /\ job[u].todo # <<>> => Current(u) \in Names
      BY <1>3, <2>2, JobFacts DEF Current
    <3>2. \A ref \in job[u].refs \cup job[u].linked : ref.name \in Names
      BY <3>1 DEF JobState, Reference
    <3>3. Holding(u)' \subseteq Holding(u)
      BY <1>4, <2>2 DEF Holding
    <3>4. job[u].pc = "insert" => lock'[Current(u)] # u \/ fresh'[Current(u)] = 0
      BY <1>4, <2>2, <3>1 DEF JobInv
    <3> QED
      BY <1>7, <3>1, <3>2, <3>3, <3>4 DEF JobInv
  <2> QED
    BY <2>1, <2>2 DEF JobsAreSound
<1>11. LocksInOrder'
  <2>1. InOrder(t)'
    <3>1. Ahead(job[t]) = job[t].todo /\ Ahead(j) = Tail(job[t].todo)
      BY <1>2 DEF Ahead
    <3>2. \A m \in Holding(t)' : m = n \/ m \in Holding(t)
      BY <1>4 DEF Holding
    <3>3. \A i \in 1 .. Len(Tail(job[t].todo)) :
            /\ i + 1 \in 1 .. Len(job[t].todo)
            /\ Tail(job[t].todo)[i] = job[t].todo[i + 1]
            /\ After(Tail(job[t].todo)[i], n)
      BY <1>1, AheadShrinks DEF InOrder, n, Current
    <3> QED
      BY <1>1, <1>2, <1>3, <3>1, <3>2, <3>3 DEF InOrder
  <2>2. ASSUME NEW u \in Tasks, u # t PROVE InOrder(u)'
    <3>1. job'[u] = job[u] /\ InOrder(u) /\ Holding(u)' \subseteq Holding(u)
      BY <1>3, <1>4, <2>2, JobFacts DEF Holding
    <3> QED
      BY <3>1 DEF InOrder
  <2> QED
    BY <2>1, <2>2 DEF LocksInOrder
<1>12. IssuedBefore'
  <2>1. ASSUME NEW m \in Names
        PROVE  /\ row'[m] < nextId' /\ fresh'[m] < nextId'
               /\ \A c \in Caches : cache'[c][m] < nextId'
    BY <1>4, <1>5 DEF IndInv, IssuedBefore, TypeOK
  <2>2. ASSUME NEW u \in Tasks, NEW ref \in job'[u].refs PROVE ref.id < nextId'
    <3>1. ref \in job[u].refs /\ ref.id \in Nat /\ ref.id < nextId
      BY <1>2, <1>3, JobFacts DEF IndInv, IssuedBefore, JobState, Reference
    <3> QED
      BY <3>1 DEF IndInv, TypeOK
  <2> QED
    BY <2>1, <2>2 DEF IssuedBefore
<1>13. IdsAreUnique'
  <2>1. PICK owner \in [Nat -> Names \cup {None}] : IdsOf(owner)
    BY DEF IndInv, IdsAreUnique
  <2>2. PICK next \in [Nat -> Names \cup {None}] :
          next = IF fresh'[n] = fresh[n] THEN owner ELSE [owner EXCEPT ![nextId] = n]
    BY <1>1
  <2>3. /\ \A i \in Nat : i < nextId => next[i] = owner[i]
        /\ fresh'[n] # 0 => next[fresh'[n]] = n
    BY <1>1, <1>5, <2>1, <2>2 DEF IndInv, TypeOK, IdsOf
  <2>4. IdsOf(next)'
    <3>1. \A m \in Names : /\ row[m] \in Nat /\ row[m] < nextId
                          /\ fresh[m] \in Nat /\ fresh[m] < nextId
                          /\ \A c \in Caches : cache[c][m] \in Nat /\ cache[c][m] < nextId
      BY DEF IndInv, TypeOK, IssuedBefore
    <3>2. \A u \in Tasks : /\ job'[u].refs = job[u].refs
                          /\ \A ref \in job[u].refs : ref.id \in Nat /\ ref.id < nextId
      BY <1>2, <1>3 DEF IndInv, TypeOK, IssuedBefore, JobState, Reference
    <3>3. ASSUME NEW m \in Names
          PROVE  /\ row'[m] # 0 => next[row'[m]] = m
                 /\ fresh'[m] # 0 => next[fresh'[m]] = m
                 /\ \A c \in Caches : cache'[c][m] # 0 => next[cache'[c][m]] = m
      BY <1>4, <2>1, <2>3, <3>1 DEF IdsOf
    <3>4. \A u \in Tasks : \A ref \in job'[u].refs : next[ref.id] = ref.name
      BY <2>1, <2>3, <3>2 DEF IdsOf
    <3> QED
      BY <3>3, <3>4, Zenon DEF IdsOf
  <2> QED
    BY <2>4 DEF IdsAreUnique
<1> QED
  BY <1>8, <1>9, <1>10, <1>11, <1>12, <1>13 DEF IndInv

\* The statement locks a name ahead of all it holds, and returns its row or a new id.
LEMMA UpsertHolds == ASSUME IndInv, NEW t \in Tasks, Upsert(t) PROVE IndInv'
<1> USE DEF Upsert
<1> DEFINE n == Current(t)
<1>1. /\ n \in Names /\ t # None /\ row[n] \in Nat /\ fresh[n] \in Nat
      /\ nextId \in Nat \ {0}
  BY JobFacts DEF JobInv, IndInv, TypeOK
<1>2. CASE row[n] = 0 /\ fresh[n] = 0 /\ NewRow(t, n)
  BY <1>1, <1>2, GrabHolds DEF NewRow
<1>3. CASE /\ row[n] # 0 \/ fresh[n] # 0
           /\ lock' = [lock EXCEPT ![n] = t]
           /\ Return(t, IF row[n] # 0 THEN row[n] ELSE fresh[n])
           /\ UNCHANGED <<row, fresh, nextId>>
  <2> DEFINE id == IF row[n] # 0 THEN row[n] ELSE fresh[n]
  <2>1. id \in Nat \ {0} /\ id \in {row[n], fresh[n]} /\ Return(t, id)
    BY <1>1, <1>3
  <2> HIDE DEF id
  <2> QED
    BY <1>1, <1>3, <2>1, GrabHolds
<1> QED
  BY <1>2, <1>3

\* A skill whose key is free has a row or gets one with a new id.
LEMMA InsertSkillHolds == ASSUME IndInv, NEW t \in Tasks, InsertSkill(t) PROVE IndInv'
<1> USE DEF InsertSkill
<1> DEFINE n == Current(t)
<1>1. /\ n \in Names /\ t # None /\ row[n] \in Nat /\ nextId \in Nat \ {0} /\ JobInv(t)
  BY JobFacts DEF JobInv, IndInv, TypeOK
<1>2. CASE row[n] = 0 /\ NewRow(t, n)
  <2>1. fresh[n] = 0
    BY <1>1 DEF JobInv, Free, IndInv, FreshIsLocked
  <2> QED
    BY <1>1, <1>2, <2>1, GrabHolds DEF NewRow
<1>3. CASE row[n] # 0 /\ Return(t, row[n]) /\ UNCHANGED database
  <2>1. Visible(t, n, row[n])
    BY <1>3 DEF Visible
  <2> QED
    BY <1>1, <1>3, <2>1, ReturnHolds
<1> QED
  BY <1>2, <1>3

\* The transaction ends: its rows are there, or they are gone.
LEMMA EndHolds ==
    ASSUME IndInv, NEW t \in Tasks, Set(t, NoJob), Unlock(t),
           row' \in [Names -> Nat],
           \A n \in Names : row[n] # 0 => row'[n] = row[n],
           \A n \in Names : row'[n] # row[n] => n \in Holding(t) /\ row'[n] = fresh[n],
           fresh' = [n \in Names |-> IF n \in Holding(t) THEN 0 ELSE fresh[n]],
           core' \subseteq Reference, CoreRefsHold',
           UNCHANGED <<nextId, cache, persists>>
    PROVE  IndInv'
<1>1. t # None /\ NoJob \in JobState
  BY JobFacts DEF NoJob, JobState
<1>2. /\ job'[t] = NoJob /\ job' \in [Tasks -> JobState]
      /\ \A u \in Tasks : u # t => job'[u] = job[u]
  BY <1>1 DEF Set, IndInv, TypeOK
<1>3. /\ Holding(t)' = {}
      /\ \A n \in Names : n \notin Holding(t) => lock'[n] = lock[n] /\ fresh'[n] = fresh[n]
      /\ \A n \in Names : n \in Holding(t) => lock'[n] = None /\ fresh'[n] = 0
      /\ \A u \in Tasks : u # t => Holding(u)' = Holding(u)
  BY <1>1, NoneAssumption DEF Unlock, Holding, IndInv, TypeOK
<1>4. TypeOK'
  <2>1. fresh' \in [Names -> Nat] /\ lock' \in [Names -> Tasks \cup {None}]
    BY DEF IndInv, TypeOK, Unlock
  <2> QED
    BY <1>2, <2>1 DEF IndInv, TypeOK
<1>5. FreshIsLocked'
  BY <1>3 DEF IndInv, FreshIsLocked
<1>6. ASSUME NEW u \in Tasks, u # t, NEW m \in Names, NEW i, Visible(u, m, i)
      PROVE  Visible(u, m, i)'
  BY <1>3, <1>6 DEF Visible, Holding
<1>7. JobsAreSound'
  <2>1. JobInv(t)'
    BY <1>2, <1>3 DEF JobInv, NoJob
  <2>2. ASSUME NEW u \in Tasks, u # t PROVE JobInv(u)'
    <3>1. /\ job'[u] = job[u] /\ JobInv(u) /\ job[u] \in JobState /\ Current(u)' = Current(u)
          /\ job[u].todo # <<>> => Current(u) \in Names
          /\ Holding(u)' = Holding(u)
      BY <1>2, <1>3, <2>2, JobFacts DEF Current
    <3>2. \A ref \in job[u].refs \cup job[u].linked : ref.name \in Names
      BY <3>1 DEF JobState, Reference
    <3>3. job[u].pc = "insert" => lock'[Current(u)] # u \/ fresh'[Current(u)] = 0
      BY <1>3, <2>2, <3>1, JobFacts DEF JobInv
    <3> QED
      BY <1>6, <2>2, <3>1, <3>2, <3>3 DEF JobInv
  <2> QED
    BY <2>1, <2>2 DEF JobsAreSound
<1>8. LocksInOrder'
  <2>1. InOrder(t)'
    BY <1>2, <1>3 DEF InOrder, NoJob, Ascending
  <2>2. ASSUME NEW u \in Tasks, u # t PROVE InOrder(u)'
    BY <1>2, <1>3, <2>2, JobFacts DEF InOrder
  <2> QED
    BY <2>1, <2>2 DEF LocksInOrder
<1>9. \A u \in Tasks : job'[u].refs \subseteq job[u].refs
  BY <1>2 DEF NoJob
<1>10. \A n \in Names : row'[n] \in {row[n], fresh[n]} /\ fresh'[n] \in {0, fresh[n]}
  BY <1>3
<1>11. IssuedBefore'
  BY <1>9, <1>10 DEF IndInv, TypeOK, IssuedBefore
<1>12. IdsAreUnique'
  <2>1. PICK owner \in [Nat -> Names \cup {None}] : IdsOf(owner)
    BY DEF IndInv, IdsAreUnique
  <2>2. IdsOf(owner)'
    BY <1>9, <1>10, <2>1 DEF IdsOf
  <2> QED
    BY <2>2 DEF IdsAreUnique
<1> QED
  BY <1>4, <1>5, <1>7, <1>8, <1>11, <1>12 DEF IndInv

\* The rows of the transaction become visible, and its references are of them.
LEMMA CommitHolds == ASSUME IndInv, NEW t \in Tasks, Commit(t) PROVE IndInv'
<1> USE DEF Commit
<1>1. /\ row' \in [Names -> Nat]
      /\ \A n \in Names : row[n] # 0 => row'[n] = row[n]
      /\ \A n \in Names : row'[n] # row[n] => n \in Holding(t) /\ row'[n] = fresh[n]
      /\ \A n \in Holding(t) : fresh[n] # 0 => row'[n] = fresh[n]
  BY DEF IndInv, TypeOK, FreshIsLocked, Holding
<1>2. \A ref \in job[t].linked : ref \in Reference /\ Visible(t, ref.name, ref.id)
  BY JobFacts DEF JobState, JobInv
<1>3. core' \subseteq Reference
  BY <1>2 DEF IndInv, TypeOK
<1>4. CoreRefsHold'
  <2>1. ASSUME NEW ref \in core PROVE row'[ref.name] = ref.id
    BY <1>1 DEF IndInv, TypeOK, CoreRefsHold, Reference
  <2>2. ASSUME NEW ref \in job[t].linked PROVE row'[ref.name] = ref.id
    <3>1. ref.name \in Names /\ ref.id # 0
      BY <1>2 DEF Reference
    <3> QED
      BY <1>1, <1>2, <3>1 DEF Visible, Holding
  <2> QED
    BY <2>1, <2>2 DEF CoreRefsHold
<1> QED
  BY <1>1, <1>3, <1>4, EndHolds

\* The rows of the transaction disappear, and nobody else has committed references to them.
LEMMA RollbackHolds == ASSUME IndInv, NEW t \in Tasks, Rollback(t) PROVE IndInv'
<1> USE DEF Rollback
<1>1. row' \in [Names -> Nat] /\ core' \subseteq Reference /\ CoreRefsHold'
  BY DEF IndInv, TypeOK, CoreRefsHold
<1> QED
  BY <1>1, EndHolds

\* Every step keeps the invariant.
LEMMA StepHolds == IndInv /\ [Next]_vars => IndInv'
<1> SUFFICES ASSUME IndInv, [Next]_vars PROVE IndInv'
  OBVIOUS
<1>1. ASSUME NEW t \in Tasks, Begin(t) \/ Work(t) \/ Fault(t) PROVE IndInv'
  <2>1. CASE Begin(t)
    BY <2>1, BeginHolds
  <2>2. CASE Lookup(t) \/ Upsert(t) \/ Select(t) \/ InsertSkill(t)
    BY <2>2, LookupHolds, UpsertHolds, SelectHolds, InsertSkillHolds
  <2>3. CASE Publish(t) \/ Insert(t) \/ Commit(t)
    BY <2>3, PublishHolds, InsertHolds, CommitHolds
  <2>4. CASE KeyFails(t) \/ Victim(t) \/ Fault(t)
    BY <2>4, RollbackHolds DEF KeyFails, Victim, Fault
  <2> QED
    BY <1>1, <2>1, <2>2, <2>3, <2>4 DEF Work
<1>2. CASE UNCHANGED vars
  <2>1. /\ row' = row /\ fresh' = fresh /\ lock' = lock /\ nextId' = nextId
        /\ cache' = cache /\ job' = job /\ core' = core /\ persists' = persists
    BY <1>2 DEF vars
  <2>2. TypeOK' /\ CoreRefsHold' /\ IssuedBefore' /\ FreshIsLocked'
    BY <2>1 DEF IndInv, TypeOK, CoreRefsHold, IssuedBefore, FreshIsLocked
  <2>3. IdsAreUnique'
    BY <2>1 DEF IndInv, IdsAreUnique, IdsOf
  <2>4. JobsAreSound'
    BY <2>1 DEF IndInv, JobsAreSound, JobInv, Holding, Current, Visible
  <2>5. LocksInOrder'
    BY <2>1 DEF IndInv, LocksInOrder, InOrder, Holding
  <2> QED
    BY <2>2, <2>3, <2>4, <2>5 DEF IndInv
<1> QED
  BY <1>1, <1>2 DEF Next

\* The invariant holds throughout.
LEMMA Inductive == Spec => []IndInv
  BY InitHolds, StepHolds, PTL DEF Spec

-----------------------------------------------------------------------------
(* Theorems.                                                               *)

\* The variables keep their types.
THEOREM TypeCorrect == Spec => []TypeOK
  BY Inductive, PTL DEF IndInv

\* persist(): a committed record refers to the rows of its own names.
THEOREM CoreRefsAlwaysHold == Spec => []CoreRefsHold
  BY Inductive, PTL DEF IndInv

\* get_or_create_*, resolve_skill_id: an id the transaction has got from the
\* database is good until it ends.
THEOREM OwnRefsAlwaysHold == Spec => []OwnRefsHold
<1>1. IndInv => OwnRefsHold
  BY DEF IndInv, JobsAreSound, JobInv, OwnRefsHold
<1> QED
  BY <1>1, Inductive, PTL

\* The shared cache: an id in it is of one name, whatever becomes of its row.
THEOREM CacheNeverComesToMisname == Spec => []CacheNeverMisnames
<1>1. IndInv => CacheNeverMisnames
  <2> SUFFICES ASSUME IndInv, NEW c \in Caches, NEW n \in Names, NEW m \in Names,
                      n # m, cache[c][n] # 0
               PROVE  cache[c][n] \notin {row[m], fresh[m], cache[c][m]}
    BY DEF CacheNeverMisnames
  <2>1. PICK owner : IdsOf(owner)
    BY DEF IndInv, IdsAreUnique
  <2> QED
    BY <2>1 DEF IdsOf
<1> QED
  BY <1>1, Inductive, PTL

\* persist(): the order of the names keeps companies, locations and sources out
\* of every deadlock.
THEOREM DeadlocksAreAlwaysOfSkills == Spec => []DeadlocksAreOfSkills
<1>1. IndInv => DeadlocksAreOfSkills
  <2> SUFFICES ASSUME IndInv, NEW S \in SUBSET Tasks, Deadlocked(S), NEW t \in S
               PROVE  Current(t) \in Skills
    BY DEF DeadlocksAreOfSkills
  <2>1. ASSUME NEW u \in S, NEW v \in S, WaitsFor(u, v)
        PROVE  After(Current(v), Current(u))
    <3>1. /\ job[u].pc \in {"query", "insert"} /\ lock[Current(u)] = v
          /\ Current(u) \in Names
      BY <2>1, JobFacts DEF WaitsFor, JobInv
    <3>2. /\ job[v].pc \in {"query", "insert"} /\ job[v].todo # <<>>
          /\ job[v].todo \in Seq(Names) /\ InOrder(v)
      BY JobFacts DEF Deadlocked, WaitsFor, JobInv, JobState
    <3>3. Ahead(job[v]) = job[v].todo /\ Current(v) = job[v].todo[1] /\ 1 \in 1 .. Len(job[v].todo)
      BY <3>2 DEF Ahead, Current
    <3> QED
      BY <3>1, <3>2, <3>3 DEF InOrder, Holding
  <2>2. \A v \in S : \E u \in S : After(Current(v), Current(u))
    BY <2>1 DEF Deadlocked
  <2>3. \A v \in S : Current(v) \in Names /\ Rank(Current(v)) \in 1 .. 4
    <3>1. \A v \in S : v \in Tasks /\ job[v].pc \in {"query", "insert"}
      BY DEF Deadlocked, WaitsFor
    <3>2. \A v \in S : Current(v) \in Names
      BY <3>1, JobFacts DEF JobInv
    <3> QED
      BY <3>2 DEF Rank
  <2>4. \A v \in S : Current(v) \in Skills \/ Rank(Current(v)) > 1
    BY <2>2, <2>3 DEF After
  <2>5. \A v \in S : Current(v) \in Skills => Rank(Current(v)) = 4
    BY <2>3, NamesAssumption DEF Rank
  <2>6. \A v \in S : Rank(Current(v)) > 1
    BY <2>4, <2>5
  <2>7. \A v \in S : Rank(Current(v)) > 2
    BY <2>2, <2>3, <2>5, <2>6 DEF After
  <2>8. \A v \in S : Rank(Current(v)) > 3
    BY <2>2, <2>3, <2>5, <2>7 DEF After
  <2> QED
    BY <2>3, <2>8 DEF Rank, Names
<1> QED
  BY <1>1, Inductive, PTL
=============================================================================
