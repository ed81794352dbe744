------------------------------- MODULE Search -------------------------------
(***************************************************************************)
(* The public search of src/client: a visitor turns the pages of a filtered *)
(* list, newest first, while the pipeline adds rows to it and fills in      *)
(* salaries.  Every page is a query of its own, by LIMIT and OFFSET, and an *)
(* empty page has its total from a second one.                              *)
(*                                                                         *)
(* Vacancies and resumes are searched by the same code twice.  The table is *)
(* seen through what the queries read: core rows are inserted, get their     *)
(* value in USD once, and are never deleted.                                 *)
(***************************************************************************)
EXTENDS Integers, FiniteSets

CONSTANTS
    Rows,      \* rows of core.vacancies or core.resumes
    Kinds,     \* what is searched: subset of {"vacancy", "resume"}
    Years,     \* experience_years of a row, as a set: empty for NULL
    Worth,     \* its value in USD once converted, empty if it has no salary
    Has,       \* the skills, places, levels and sources it can be found by
    Filters,   \* bound: what visitors ask for
    Blank,     \* a criterion of blanks
    PageSize,  \* page_size
    MaxPage,   \* bound: pages asked for without a walk
    MaxClock    \* bound: the clock

ASSUME SearchAssumption ==
    /\ Kinds \subseteq {"vacancy", "resume"}
    /\ Years \in [Rows -> SUBSET Nat]
    /\ Worth \in [Rows -> SUBSET Nat]
    /\ \A f \in Filters : f.salary \subseteq Nat /\ f.years \subseteq Nat
    /\ PageSize \in Nat \ {0}
    /\ MaxPage \in Nat \ {0}
    /\ MaxClock \in Nat

VARIABLES
    kind,     \* which of the two searches this is
    clock,
    there,    \* "no", "open" (in a transaction) or "yes"
    created,  \* created_at
    usd,      \* the value in USD, empty for NULL
    visit,    \* the request at hand, and what the visitor sees
    owed,     \* history: rows found when the walk began and not shown since
    grew      \* history: has a row come to the list since the page was read

searchVars == <<kind, clock, there, created, usd, visit, owed, grew>>

-----------------------------------------------------------------------------
(* Filters: the factory, the strategies and _build_where.                  *)

\* A criterion that is blank is none.
Criteria(f) == f.needs \ {Blank}

\* NULL, a salary that is not converted yet included, meets no criterion.
Pays(r, f) == \A n \in f.salary : \E v \in usd[r] : v >= n

\* A vacancy asks for no more experience than the visitor has ...
VacancyMatches(r, f) ==
    /\ Criteria(f) \subseteq Has[r]
    /\ Pays(r, f)
    /\ \A n \in f.years : \E y \in Years[r] : y <= n

\* ... a resume offers no less than the visitor looks for.
ResumeMatches(r, f) ==
    /\ Criteria(f) \subseteq Has[r]
    /\ Pays(r, f)
    /\ \A n \in f.years : \E y \in Years[r] : y >= n

Matches(r, f) == IF kind = "vacancy" THEN VacancyMatches(r, f) ELSE ResumeMatches(r, f)

Found(f) == {r \in Rows : there[r] = "yes" /\ Matches(r, f)}

-----------------------------------------------------------------------------
(* Pages.                                                                  *)

\* P can be what stands first in S ordered by created_at DESC: rows of one
\* time stamp come in any order, another one in every query.
First(P, S) ==
    /\ P \subseteq S
    /\ \A p \in P, q \in S \ P : created[p] >= created[q]

Least(m, n) == IF m < n THEN m ELSE n

\* LIMIT PageSize OFFSET (page - 1) * PageSize.
IsPage(items, page, S) ==
    \E P \in SUBSET S :
        /\ P \cap items = {}
        /\ First(P, S)
        /\ First(P \cup items, S)
        /\ Cardinality(P) = Least((page - 1) * PageSize, Cardinality(S))
        /\ Cardinality(P \cup items) = Least(page * PageSize, Cardinality(S))

\* At least one page, the last one not full.
Pages(total) ==
    IF total = 0 THEN 1 ELSE (total + PageSize - 1) \div PageSize

Answered == visit.pc \in {"shown", "done"}

-----------------------------------------------------------------------------
(* The visitor and the facade.                                             *)

\* A search, from its first page, or a page asked for by its number.
Ask(f, page) ==
    /\ visit.pc = "none" \/ Answered
    /\ visit' = [pc |-> "find", filter |-> f, page |-> page, items |-> {}, total |-> 0]
    /\ owed' = IF page = 1 THEN Found(f) ELSE {}
    /\ UNCHANGED <<kind, clock, there, created, usd, grew>>

\* Slip: OFFSET is page * page_size.
Find_NextOffset ==
    /\ visit.pc = "find"
    /\ \E items \in SUBSET Found(visit.filter) :
         /\ IsPage(items, visit.page + 1, Found(visit.filter))
         /\ visit' = [visit EXCEPT !.pc = IF items = {} THEN "count" ELSE "shown",
                                   !.items = items,
                                   !.total = Cardinality(Found(visit.filter))]
         /\ owed' = owed \ items
    /\ grew' = FALSE
    /\ UNCHANGED <<kind, clock, there, created, usd>>

\* find_many(): the page, with the number of all rows beside each of its own.
Find ==
    LET S == Found(visit.filter) IN
    /\ visit.pc = "find"
    /\ \E items \in SUBSET S :
         /\ IsPage(items, visit.page, S)
         /\ visit' = IF items = {} THEN [visit EXCEPT !.pc = "count"]
                     ELSE [visit EXCEPT !.pc = "shown", !.items = items,
                                        !.total = Cardinality(S)]
         /\ owed' = owed \ items
    /\ grew' = FALSE
    /\ UNCHANGED <<kind, clock, there, created, usd>>

\* Slip: count() without the filter.
Count_All ==
    /\ visit.pc = "count"
    /\ visit' = [visit EXCEPT !.pc = "shown",
                              !.total = Cardinality({r \in Rows : there[r] = "yes"})]
    /\ UNCHANGED <<kind, clock, there, created, usd, owed, grew>>

\* count(), of a page without rows only.
Count ==
    /\ visit.pc = "count"
    /\ visit' = [visit EXCEPT !.pc = "shown", !.total = Cardinality(Found(visit.filter))]
    /\ UNCHANGED <<kind, clock, there, created, usd, owed, grew>>

\* The buttons, under an answer with rows: back, forward, and no further than
\* its pages.  The visitor waits for each page before going on.
Turn ==
    /\ visit.pc = "shown"
    /\ visit.items # {}
    /\ \E page \in {visit.page - 1, visit.page + 1} :
         /\ 1 <= page /\ page <= Pages(visit.total)
         /\ visit' = [visit EXCEPT !.pc = "find", !.page = page, !.items = {}, !.total = 0]
    /\ UNCHANGED <<kind, clock, there, created, usd, owed, grew>>

\* The visitor has come to the last page.
Leave ==
    /\ visit.pc = "shown"
    /\ visit.page >= Pages(visit.total)
    /\ visit' = [visit EXCEPT !.pc = "done"]
    /\ UNCHANGED <<kind, clock, there, created, usd, owed, grew>>

-----------------------------------------------------------------------------
(* The pipeline.                                                           *)

\* Does the list that is being read grow in this step?
Note == grew' = (grew \/ Found(visit.filter)' # Found(visit.filter))

\* created_at is the time the transaction began ...
Begin(r) ==
    /\ there[r] = "no"
    /\ there' = [there EXCEPT ![r] = "open"]
    /\ created' = [created EXCEPT ![r] = clock]
    /\ UNCHANGED <<kind, clock, usd, visit, owed, grew>>

\* ... and others see the row when it has ended, or never.
End(r) ==
    /\ there[r] = "open"
    /\ \/ there' = [there EXCEPT ![r] = "yes"] /\ UNCHANGED created
       \/ /\ there' = [there EXCEPT ![r] = "no"]
          /\ created' = [created EXCEPT ![r] = 0]
    /\ UNCHANGED <<kind, clock, usd, visit, owed>>
    /\ Note

\* The converter fills in the value.
Convert(r) ==
    /\ there[r] = "yes"
    /\ usd[r] # Worth[r]
    /\ usd' = [usd EXCEPT ![r] = Worth[r]]
    /\ UNCHANGED <<kind, clock, there, created, visit, owed>>
    /\ Note

Pass ==
    /\ clock < MaxClock
    /\ clock' = clock + 1
    /\ UNCHANGED <<kind, there, created, usd, visit, owed, grew>>

-----------------------------------------------------------------------------
Nothing == [salary |-> {}, years |-> {}, needs |-> {}]

SearchInit ==
    /\ kind \in Kinds
    /\ clock = 0
    /\ there = [r \in Rows |-> "no"]
    /\ created = [r \in Rows |-> 0]
    /\ usd = [r \in Rows |-> {}]
    /\ visit = [pc |-> "none", filter |-> Nothing, page |-> 1, items |-> {}, total |-> 0]
    /\ owed = {}
    /\ grew = FALSE

SearchNext ==
    \/ \E f \in Filters, page \in 1 .. MaxPage : Ask(f, page)
    \/ Find
    \/ Count
    \/ Turn
    \/ Leave
    \/ \E r \in Rows : Begin(r) \/ End(r) \/ Convert(r)
    \/ Pass

SearchSpec == SearchInit /\ [][SearchNext]_searchVars

-----------------------------------------------------------------------------
(* Properties.                                                             *)

\* Another row of the same microsecond: their order is not fixed.
Tied(r) == \E q \in Rows \ {r} : there[q] = "yes" /\ created[q] = created[r]

\* Whoever turns the pages to the last one has seen every row that was found
\* when the search began, though rows are added above, below and between them
\* and each answer tells another number of pages; but for rows that share
\* their time stamp.
WalkIsComplete == visit.pc = "done" => \A r \in owed : Tied(r)

\* An answer without rows is one of a page beyond its own number of pages, or
\* of an empty list, unless the list grew between the two queries.
EmptyOnlyBeyond ==
    Answered /\ visit.items = {} /\ visit.total > 0 =>
        visit.page > Pages(visit.total) \/ grew
=============================================================================
