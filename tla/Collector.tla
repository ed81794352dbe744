----------------------------- MODULE Collector -----------------------------
(***************************************************************************)
(* One collector of the first stage: main() of scrapers/workua_vacancies,   *)
(* scrapers/workua_resumes, sources/robota_vacancies or sources/dou_rss,     *)
(* with the retries Prefect gives its task, over a job board that changes    *)
(* while it is read and the staging table that keeps what was found.         *)
(*                                                                         *)
(* The four share one shape: categories in turn, pages of a category in     *)
(* turn, new postings of a page.  They differ in what a page brings along   *)
(* (links only, or whole postings), in the check against the table and in    *)
(* who inserts.  The two collectors of work.ua are the same code twice.      *)
(***************************************************************************)
EXTENDS Integers, Sequences

CONSTANTS
    Kinds,     \* subset of {"workua", "robota", "dou"}
    Items,     \* postings of the board, named by their external_id
    Last,      \* number of categories; they are 1 .. Last
    In,        \* the categories an item is posted in
    Blank,     \* items without a description
    Wanted,    \* SCRAPE_CATEGORIES, as the labels it names
    MaxPages,  \* MAX_PAGES
    PageSize,  \* cards on a page of the board
    Tries,     \* retries= of fetch_html and _fetch_page
    Retries    \* retries= of the @task

Categories == 1 .. Last

ASSUME CollectorAssumption ==
    /\ Kinds \subseteq {"workua", "robota", "dou"}
    /\ Last \in Nat \ {0}
    /\ In \in [Items -> SUBSET Categories]
    /\ Blank \subseteq Items
    /\ MaxPages \in Nat \ {0}
    /\ PageSize \in Nat \ {0}
    /\ Tries \in Nat \ {0}
    /\ Retries \in Nat

VARIABLES
    kind,     \* which collector this is
    listing,  \* the board: postings of each category, newest first
    stored,   \* search_category of the row of each item, 0 if it has none
    scan,     \* main(): where it is
    page,     \* items of the page at hand that are still to be stored
    loose,    \* page coroutines left behind by a failed attempt
    owed      \* history: what was listed in each category when the attempt
              \* started, and no excuse has come up since

vars == <<kind, listing, stored, scan, page, loose, owed>>

None == 0
ToSet(s) == {s[k] : k \in DOMAIN s}

-----------------------------------------------------------------------------
(* What the sources differ in.                                             *)

\* fetch_html reads a page of its own for every posting.
FetchesItems == kind = "workua"

\* A feed of DOU is one page.
Depth == IF kind = "dou" THEN 1 ELSE MaxPages

\* DOU knows one category of the market.  (raw_resumes has no search_category:
\* for a scan of resumes the label only tells which category found the row.)
Label(c) == IF kind = "dou" THEN 1 ELSE c

\* active_categories(): a filter that names no category is not a filter.
Picked == Wanted \cap Categories
IsActive(c) == kind = "dou" \/ Picked = {} \/ c \in Picked

\* The next active category after c, or none.
Following(c) == {d \in Categories : d > c /\ IsActive(d)}
First(S) == CHOOSE c \in S : \A d \in S : c <= d

\* main() is not running.
NoScan(pc, attempt) == [pc |-> pc, category |-> 1, number |-> 1, attempt |-> attempt]

\* Where main() goes from category c.
NextCategory(c) ==
    IF Following(c) = {} THEN NoScan("done", 0)
    ELSE [scan EXCEPT !.pc = "read", !.category = First(Following(c)), !.number = 1]

\* The next page of the category, up to MAX_PAGES.
NextPage ==
    IF scan.number = Depth THEN NextCategory(scan.category)
    ELSE [scan EXCEPT !.pc = "read", !.number = @ + 1]

\* The first page of the first category.
Entry(attempt) ==
    [pc |-> "read", category |-> First(Following(0)), number |-> 1, attempt |-> attempt]

-----------------------------------------------------------------------------
(* Requests to the board.                                                  *)

\* The answers to the tries of one call: "ok" is a 200 with a body, "final" a
\* 404, an empty body or a GraphQL error, "again" a 429, another status or an
\* exception.
Answers == [1 .. Tries -> {"ok", "final", "again"}]

\* Does the call return a text: the first answer that is not retried decides.
Text(a) ==
    \E k \in 1 .. Tries : a[k] = "ok" /\ \A j \in 1 .. k - 1 : a[j] = "again"

Fetches == {Text(a) : a \in Answers}

\* The cards of a page, as the board shows them now.
Cards(c, n) ==
    {listing[c][k] : k \in {j \in DOMAIN listing[c] :
                             (n - 1) * PageSize < j /\ j <= n * PageSize}}

\* From here on the attempt owes nothing of these categories.
Excused(S) == owed' = [c \in Categories |-> IF c \in S THEN {} ELSE owed[c]]

At(c, n) == scan.category = c /\ scan.number = n

\* Slip: a page without new postings ends the category.
Check_StopsAtKnown ==
    /\ scan.pc = "check"
    /\ page' = {i \in page : stored[i] = None}
    /\ scan' = IF page' = {} THEN NextCategory(scan.category)
               ELSE [scan EXCEPT !.pc = "items"]
    /\ UNCHANGED <<kind, listing, stored, loose, owed>>

\* A page of the list is read: an empty one ends the category.
ReadPage(c, n) ==
    /\ scan.pc = "read"
    /\ At(c, n)
    /\ TRUE \in Fetches
    /\ page' = Cards(c, n)
    /\ scan' = IF page' = {} THEN NextCategory(c)
               ELSE [scan EXCEPT !.pc = IF kind = "dou" THEN "items" ELSE "check"]
    /\ UNCHANGED <<kind, listing, stored, loose, owed>>

\* Slip: a page that cannot be had starts the category over.
PageLost_Restarts ==
    /\ scan.pc = "read"
    /\ FALSE \in Fetches
    /\ scan' = [scan EXCEPT !.number = 1]
    /\ Excused({scan.category})
    /\ UNCHANGED <<kind, listing, stored, page, loose>>

\* A page that cannot be had, or a feed that is no XML, ends the category like
\* an empty one.
PageLost ==
    /\ scan.pc = "read"
    /\ FALSE \in Fetches
    /\ scan' = NextCategory(scan.category)
    /\ Excused({scan.category})
    /\ UNCHANGED <<kind, listing, stored, page, loose>>

\* One query finds out which of the cards have a row.
Check ==
    /\ scan.pc = "check"
    /\ page' = {i \in page : stored[i] = None}
    /\ scan' = [scan EXCEPT !.pc = "items"]
    /\ UNCHANGED <<kind, listing, stored, loose, owed>>

-----------------------------------------------------------------------------
(* Postings.                                                               *)

\* INSERT ... ON CONFLICT (source_name, external_id) DO NOTHING.
Insert(i, label) ==
    stored' = [stored EXCEPT ![i] = IF @ = None THEN label ELSE @]

\* The page of a posting is fetched and stored, or cannot be had.
PageItem(i) ==
    /\ scan.pc = "items"
    /\ FetchesItems
    /\ i \in page
    /\ page' = page \ {i}
    /\ \/ /\ TRUE \in Fetches
          /\ Insert(i, Label(scan.category))
          /\ UNCHANGED owed
       \/ /\ FALSE \in Fetches
          /\ owed' = [owed EXCEPT ![scan.category] = @ \ {i}]
          /\ UNCHANGED stored
    /\ UNCHANGED <<kind, listing, scan, loose>>

\* robota.ua and DOU bring the description along: without one there is
\* nothing to store.
Storable(i) == i \notin Blank

ListedItem(i) ==
    /\ scan.pc = "items"
    /\ ~FetchesItems
    /\ i \in page
    /\ page' = page \ {i}
    /\ IF Storable(i) THEN Insert(i, Label(scan.category)) ELSE UNCHANGED stored
    /\ UNCHANGED <<kind, listing, scan, loose, owed>>

\* gather() returns, or the loop over the new postings ends.
PageDone ==
    /\ scan.pc = "items"
    /\ page = {}
    /\ scan' = NextPage
    /\ UNCHANGED <<kind, listing, stored, page, loose, owed>>

\* Slip: the label is read when the row is written.
LooseItem_LateLabel(l) ==
    /\ l \in loose
    /\ loose' = loose \ {l}
    /\ \/ Insert(l[1], Label(scan.category))
       \/ UNCHANGED stored
    /\ UNCHANGED <<kind, listing, scan, page, owed>>

\* A coroutine left behind by a failed attempt ends; l[2] is its category.
LooseItem(l) ==
    /\ l \in loose
    /\ loose' = loose \ {l}
    /\ \/ Insert(l[1], l[2])
       \/ UNCHANGED stored
    /\ UNCHANGED <<kind, listing, scan, page, owed>>

-----------------------------------------------------------------------------
(* Attempts.                                                               *)

\* A query fails: main() raises.  Of a gather() the other page coroutines go
\* on.  Prefect starts main() again, or the task has failed.
Raise ==
    /\ \/ scan.pc = "check" /\ UNCHANGED loose
       \/ /\ scan.pc = "items"
          /\ \E i \in page :
               loose' = IF FetchesItems
                        THEN loose \cup ((page \ {i}) \X {Label(scan.category)})
                        ELSE loose
    /\ page' = {}
    /\ scan' = IF scan.attempt <= Retries THEN NoScan("paused", scan.attempt)
               ELSE NoScan("failed", 0)
    /\ Excused(Categories)
    /\ UNCHANGED <<kind, listing, stored>>

\* The process is killed.
Kill ==
    /\ scan.pc \notin {"idle", "done", "failed"}
    /\ scan' = NoScan("failed", 0)
    /\ page' = {}
    /\ loose' = {}
    /\ Excused(Categories)
    /\ UNCHANGED <<kind, listing, stored>>

\* main() from the start, with what the board shows now.
Begin(attempt) ==
    /\ scan' = Entry(attempt)
    /\ owed' = [c \in Categories |-> ToSet(listing[c])]
    /\ UNCHANGED <<kind, listing, stored, page>>

Again ==
    /\ scan.pc = "paused"
    /\ Begin(scan.attempt + 1)
    /\ UNCHANGED loose

\* The next run of the flow, a process of its own.
Run ==
    /\ scan.pc \in {"idle", "done", "failed"}
    /\ loose' = {}
    /\ Begin(1)

-----------------------------------------------------------------------------
(* The board.                                                              *)

\* A posting goes to the top of a category.
Post(c, i) ==
    /\ c \in In[i]
    /\ i \notin ToSet(listing[c])
    /\ listing' = [listing EXCEPT ![c] = <<i>> \o @]
    /\ UNCHANGED <<kind, stored, scan, page, loose, owed>>

\* The k-th is taken down, and what stood below it moves up.
TakeDown(c, k) ==
    /\ k \in DOMAIN listing[c]
    /\ listing' = [listing EXCEPT ![c] =
                     [j \in 1 .. Len(listing[c]) - 1 |->
                        IF j < k THEN listing[c][j] ELSE listing[c][j + 1]]]
    /\ Excused({c})
    /\ UNCHANGED <<kind, stored, scan, page, loose>>

-----------------------------------------------------------------------------
Init ==
    /\ kind \in Kinds
    /\ listing = [c \in Categories |-> <<>>]
    /\ stored = [i \in Items |-> None]
    /\ scan = NoScan("idle", 0)
    /\ page = {}
    /\ loose = {}
    /\ owed = [c \in Categories |-> {}]

\* main() goes on.
Step ==
    \/ \E c \in Categories, n \in 1 .. MaxPages : ReadPage(c, n)
    \/ PageLost
    \/ Check
    \/ \E i \in Items : PageItem(i) \/ ListedItem(i)
    \/ PageDone
    \/ Again
    \/ Run

Next ==
    \/ Step
    \/ \E l \in loose : LooseItem(l)
    \/ Raise
    \/ Kill
    \/ \E c \in Categories :
         \/ \E i \in Items : Post(c, i)
         \/ \E k \in DOMAIN listing[c] : TakeDown(c, k)

Spec == Init /\ [][Next]_vars

\* The event loop goes on, calls and queries return or fail, and cron starts
\* run after run.
Fairness == WF_vars(Step)

FairSpec == Spec /\ Fairness

-----------------------------------------------------------------------------
(* Properties.                                                             *)

Scans ==
    [pc : {"idle", "read", "check", "items", "paused", "done", "failed"},
     category : Categories, number : 1 .. MaxPages, attempt : 0 .. Retries + 1]

\* The shape of the state: the scan never leaves the pages it is limited to.
TypeOK ==
    /\ kind \in Kinds
    /\ listing \in [Categories -> Seq(Items)]
    /\ \A c \in Categories : \A i \in ToSet(listing[c]) : c \in In[i]
    /\ stored \in [Items -> Categories \cup {None}]
    /\ scan \in Scans
    /\ page \subseteq Items
    /\ loose \subseteq Items \X Categories
    /\ owed \in [Categories -> SUBSET Items]

\* The items of category c the collector can see and has to keep.
Due(c) ==
    {listing[c][k] : k \in {j \in DOMAIN listing[c] : j <= Depth * PageSize}}
    \ (IF FetchesItems THEN {} ELSE Blank)

\* Whatever is posted while the pages are read, a scan that ends has a row for
\* every posting that was listed when it started and is still on the pages it
\* reads, unless in that category a page was lost, the posting itself could
\* not be fetched, or a posting was taken down: none is passed over because
\* others push it from page to page, or because the scan had rows already.
ScanIsComplete ==
    scan.pc = "done" =>
        \A c \in Categories : IsActive(c) =>
            \A i \in Due(c) \cap owed[c] : stored[i] # None

\* A row is written once, under a category its posting is listed in: by
\* retries beside the coroutines of a failed attempt, by another category, by
\* a later run.
RowsAreFinal ==
    [][\A i \in Items :
          IF stored[i] # None THEN stored'[i] = stored[i]
          ELSE stored'[i] # None => \E c \in In[i] : stored'[i] = Label(c)]_vars

\* A scan ends, or its attempt does, while the board keeps changing under it
\* and whatever it answers.
ScanEnds == scan.pc = "read" ~> scan.pc \in {"paused", "done", "failed"}
=============================================================================
