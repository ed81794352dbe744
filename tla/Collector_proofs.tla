-------------------------- MODULE Collector_proofs --------------------------
(***************************************************************************)
(* Proofs about Collector, for any board, categories, filter, number and     *)
(* size of pages, tries and retries.                                        *)
(***************************************************************************)
EXTENDS Collector, WellFoundedInduction, TLAPS

\* Of the first m postings of a category, s, those in o have a row, cannot be
\* kept, or are at hand in S.
Complete(s, m, o, S, st, kd) ==
    \A k \in DOMAIN s :
        k <= m /\ s[k] \in o =>
            \/ st[s[k]] # None
            \/ kd # "workua" /\ s[k] \in Blank
            \/ s[k] \in S

\* The scan is through with a category: nothing within its depth is missing.
ThroughWith(c) ==
    Complete(listing[c], Depth * PageSize, owed[c], {}, stored, kind)

Scanning == scan.pc \in {"read", "check", "items"}
AtPage == scan.pc \in {"check", "items"}

\* main() is through with the categories it has left, ...
Behind ==
    \A c \in Categories :
        IsActive(c) /\ (scan.pc = "done" \/ (Scanning /\ c < scan.category))
            => ThroughWith(c)

\* ... and with the pages of this one, but for what is at hand.
Here ==
    LET c == scan.category IN
    /\ scan.pc = "read" =>
         Complete(listing[c], (scan.number - 1) * PageSize, owed[c], {}, stored, kind)
    /\ AtPage =>
         Complete(listing[c], scan.number * PageSize, owed[c], page, stored, kind)

NothingOwed == ~Scanning /\ scan.pc # "done" => \A c \in Categories : owed[c] = {}
OwedIsListed == \A c \in Categories : owed[c] \subseteq ToSet(listing[c])

\* What is at hand is of the category of the scan, what was left behind of one
\* it was posted in.
PageFits == /\ \A i \in page : scan.category \in In[i]
            /\ ~AtPage => page = {}
LooseFits == \A l \in loose : \E c \in In[l[1]] : l[2] = Label(c)

WithinLimits == scan.number <= Depth /\ (scan.pc = "paused" => scan.attempt <= Retries)

IndInv ==
    /\ TypeOK
    /\ Behind
    /\ Here
    /\ NothingOwed
    /\ OwedIsListed
    /\ PageFits
    /\ LooseFits
    /\ WithinLimits

-----------------------------------------------------------------------------
(* Numbers and sequences.                                                  *)

\* What the assumption says of categories, pages and tries.
LEMMA Numbers ==
    /\ Last \in Nat /\ Last >= 1
    /\ MaxPages \in Nat /\ MaxPages >= 1
    /\ PageSize \in Nat /\ PageSize >= 1
    /\ Retries \in Nat
    /\ Categories = 1 .. Last
    /\ \A i \in Items : In[i] \subseteq Categories
  BY CollectorAssumption DEF Categories

\* A collector reads at least one page and at most MAX_PAGES.
LEMMA DepthIs == Depth \in 1 .. MaxPages /\ Depth * PageSize \in Nat
  <1>1. Depth \in 1 .. MaxPages
    BY Numbers DEF Depth
  <1> QED
    BY <1>1, Numbers

\* Pages follow each other without a gap.
LEMMA PagesMeet ==
    ASSUME NEW n \in 1 .. MaxPages
    PROVE  /\ n * PageSize \in Nat
           /\ (n - 1) * PageSize \in Nat
           /\ n * PageSize = (n - 1) * PageSize + PageSize
           /\ ((n + 1) - 1) * PageSize = n * PageSize
           /\ (1 - 1) * PageSize = 0
  <1>1. PageSize \in Nat /\ n \in Nat /\ n >= 1
    BY Numbers
  <1> QED
    BY <1>1

\* A posting on top moves every other one down by one.
LEMMA Pushed ==
    ASSUME NEW s \in Seq(Items), NEW i \in Items
    PROVE  /\ <<i>> \o s \in Seq(Items)
           /\ Len(<<i>> \o s) = Len(s) + 1
           /\ (<<i>> \o s)[1] = i
           /\ \A k \in 2 .. Len(s) + 1 : (<<i>> \o s)[k] = s[k - 1]
           /\ ToSet(<<i>> \o s) = {i} \cup ToSet(s)
  <1> DEFINE t == <<i>> \o s
  <1>1. /\ t \in Seq(Items)
        /\ Len(t) = Len(s) + 1
        /\ t[1] = i
        /\ \A k \in 2 .. Len(s) + 1 : t[k] = s[k - 1]
    OBVIOUS
  <1>2. DOMAIN t = 1 .. Len(s) + 1 /\ DOMAIN s = 1 .. Len(s) /\ Len(s) \in Nat
    BY <1>1
  <1> HIDE DEF t
  <1>3. \A x \in ToSet(t) : x \in {i} \cup ToSet(s)
    <2> TAKE x \in ToSet(t)
    <2>1. PICK k \in 1 .. Len(s) + 1 : x = t[k]
      BY <1>2 DEF ToSet
    <2>2. CASE k = 1
      BY <1>1, <2>1, <2>2
    <2>3. CASE k # 1
      <3>1. x = s[k - 1] /\ k - 1 \in DOMAIN s
        BY <1>1, <1>2, <2>1, <2>3
      <3> QED
        BY <3>1 DEF ToSet
    <2> QED
      BY <2>2, <2>3
  <1>4. i \in ToSet(t)
    BY <1>1, <1>2 DEF ToSet
  <1>5. \A x \in ToSet(s) : x \in ToSet(t)
    <2> TAKE x \in ToSet(s)
    <2>1. PICK k \in 1 .. Len(s) : x = s[k]
      BY <1>2 DEF ToSet
    <2>2. k + 1 \in DOMAIN t /\ t[k + 1] = x
      BY <1>1, <1>2, <2>1
    <2> QED
      BY <2>2 DEF ToSet
  <1>6. ToSet(t) = {i} \cup ToSet(s)
    BY <1>3, <1>4, <1>5
  <1> QED
    BY <1>1, <1>6 DEF t

\* Taking a posting down brings no new one.
LEMMA Removed ==
    ASSUME NEW s \in Seq(Items), NEW k \in DOMAIN s, NEW t,
           t = [j \in 1 .. Len(s) - 1 |-> IF j < k THEN s[j] ELSE s[j + 1]]
    PROVE  t \in Seq(Items) /\ ToSet(t) \subseteq ToSet(s)
  <1>1. Len(s) \in Nat /\ DOMAIN s = 1 .. Len(s) /\ Len(s) - 1 \in Nat
    OBVIOUS
  <1>2. \A j \in 1 .. Len(s) - 1 : j \in DOMAIN s /\ j + 1 \in DOMAIN s
    BY <1>1
  <1>3. \A j \in 1 .. Len(s) - 1 : t[j] \in Items /\ t[j] \in ToSet(s)
    <2> TAKE j \in 1 .. Len(s) - 1
    <2>1. \E x \in DOMAIN s : t[j] = s[x]
      BY <1>2
    <2> QED
      BY <1>1, <2>1 DEF ToSet
  <1>4. t \in [1 .. Len(s) - 1 -> Items]
    BY <1>3
  <1>5. t \in Seq(Items)
    BY <1>1, <1>4
  <1>6. DOMAIN t = 1 .. Len(s) - 1
    BY <1>4
  <1> QED
    BY <1>3, <1>5, <1>6 DEF ToSet

\* Complete goes on to hold when less is owed and more is stored.
LEMMA CompleteKeeps ==
    ASSUME NEW s \in Seq(Items), NEW m, NEW m2, NEW o, NEW o2, NEW S, NEW S2,
           NEW st, NEW st2, NEW kd,
           Complete(s, m, o, S, st, kd),
           m = m2,
           o2 \subseteq o,
           \A i \in Items : st[i] # None => st2[i] # None,
           \A i \in Items \cap S : \/ i \in S2
                                   \/ i \notin o2
                                   \/ st2[i] # None
                                   \/ kd # "workua" /\ i \in Blank
    PROVE  Complete(s, m2, o2, S2, st2, kd)
  <1>1. \A k \in DOMAIN s : s[k] \in Items
    OBVIOUS
  <1> QED
    BY <1>1 DEF Complete

\* A posting that comes on top pushes others down, never up.
LEMMA CompletePushed ==
    ASSUME NEW s \in Seq(Items), NEW i \in Items, NEW m \in Int, NEW o, NEW S, NEW st,
           NEW kd, Complete(s, m, o, S, st, kd), i \notin o
    PROVE  Complete(<<i>> \o s, m, o, S, st, kd)
  <1> DEFINE t == <<i>> \o s
  <1>1. /\ t[1] = i
        /\ \A k \in 2 .. Len(s) + 1 : t[k] = s[k - 1]
        /\ DOMAIN t = 1 .. Len(s) + 1
        /\ DOMAIN s = 1 .. Len(s)
        /\ Len(s) \in Nat
    BY Pushed
  <1> HIDE DEF t
  <1>2. ASSUME NEW k \in DOMAIN t, k <= m, t[k] \in o
        PROVE  \/ st[t[k]] # None
               \/ kd # "workua" /\ t[k] \in Blank
               \/ t[k] \in S
    <2>1. k # 1
      BY <1>1, <1>2
    <2>2. k - 1 \in DOMAIN s /\ t[k] = s[k - 1] /\ k - 1 <= m
      BY <1>1, <1>2, <2>1
    <2> QED
      BY <1>2, <2>2 DEF Complete
  <1> QED
    BY <1>2 DEF Complete, t

\* Nothing is missing of what nothing is owed of.
LEMMA CompleteEmpty ==
    ASSUME NEW s, NEW m, NEW S, NEW st, NEW kd
    PROVE  Complete(s, m, {}, S, st, kd)
  BY DEF Complete

-----------------------------------------------------------------------------
(* The order of the categories.                                            *)

NatLess == {ss \in Nat \X Nat : ss[1] < ss[2]}

\* Every set of numbers has a least one.
LEMMA NatLessWellFounded == IsWellFoundedOn(NatLess, Nat)
  BY NatLessThanWellFounded, Zenon DEF OpToRel, NatLess

\* The next category is the least of those that are left.
LEMMA FirstIsLeast ==
    ASSUME NEW S \in SUBSET Categories, S # {}
    PROVE  First(S) \in S /\ \A d \in S : First(S) <= d
  <1>1. S \subseteq Nat
    BY Numbers
  <1>2. PICK c \in S : \A d \in S : <<d, c>> \notin NatLess
    BY <1>1, NatLessWellFounded, WFMin
  <1>3. \A d \in S : c <= d
    <2> TAKE d \in S
    <2>1. d \in Nat /\ c \in Nat /\ <<d, c>> \notin NatLess
      BY <1>1, <1>2
    <2>2. ~(d < c)
      BY <2>1 DEF NatLess
    <2> QED
      BY <2>1, <2>2
  <1> QED
    BY <1>3 DEF First

\* Some category is active, whatever the filter says.
LEMMA SomeIsActive ==
    /\ Following(0) # {} /\ Following(0) \subseteq Categories
    /\ \A d \in Categories : d \in Following(0) <=> IsActive(d)
  <1>1. 1 \in Categories /\ \A d \in Categories : d > 0
    BY Numbers
  <1>2. \E d \in Categories : IsActive(d)
    BY <1>1 DEF IsActive, Picked
  <1> QED
    BY <1>1, <1>2 DEF Following

\* NextCategory goes to the next active category, and skips none.
LEMMA NextIsNext ==
    ASSUME TypeOK, NEW c \in Categories
    PROVE  \/ /\ NextCategory(c) = NoScan("done", 0)
              /\ \A e \in Categories : IsActive(e) => e <= c
           \/ \E d \in Categories :
                /\ NextCategory(c) = [scan EXCEPT !.pc = "read", !.category = d,
                                                  !.number = 1]
                /\ IsActive(d)
                /\ \A e \in Categories : IsActive(e) /\ e < d => e <= c
  <1>1. Following(c) \in SUBSET Categories
    BY DEF Following
  <1>2. CASE Following(c) = {}
    <2>1. NextCategory(c) = NoScan("done", 0)
      BY <1>2 DEF NextCategory
    <2>2. ASSUME NEW e \in Categories, IsActive(e)
          PROVE  e <= c
      <3>1. ~(e > c)
        BY <1>2, <2>2 DEF Following
      <3> QED
        BY <3>1, Numbers
    <2> QED
      BY <2>1, <2>2
  <1>3. CASE Following(c) # {}
    <2> DEFINE d == First(Following(c))
    <2>1. d \in Following(c) /\ \A e \in Following(c) : d <= e
      BY <1>1, <1>3, FirstIsLeast
    <2>2. NextCategory(c) = [scan EXCEPT !.pc = "read", !.category = d, !.number = 1]
      BY <1>3 DEF NextCategory
    <2> HIDE DEF d
    <2>3. d \in Categories /\ IsActive(d)
      BY <2>1 DEF Following
    <2>4. ASSUME NEW e \in Categories, IsActive(e), e < d
          PROVE  e <= c
      <3>1. e \notin Following(c)
        BY <2>1, <2>3, <2>4, Numbers
      <3> QED
        BY <2>4, <3>1, Numbers DEF Following
    <2> QED
      BY <2>2, <2>3, <2>4
  <1> QED
    BY <1>2, <1>3

-----------------------------------------------------------------------------
(* What every step leaves alone or only adds to.                           *)

StoredMoves ==
    /\ stored' \in [Items -> Categories \cup {None}]
    /\ \A i \in Items : stored[i] # None => stored'[i] = stored[i]
    /\ \A i \in Items : stored[i] = None /\ stored'[i] # None =>
                         \E c \in In[i] : stored'[i] = Label(c)

\* A step that stores nothing.
LEMMA SameStored ==
    ASSUME TypeOK, UNCHANGED stored
    PROVE  StoredMoves
  BY DEF TypeOK, Scans, StoredMoves

\* A row is stored under a category.
LEMMA LabelIs == \A c \in Categories : Label(c) \in Categories
  BY Numbers DEF Label

\* An insert gives a posting without a row one, and rewrites none.
LEMMA InsertMoves ==
    ASSUME TypeOK, NEW i \in Items, NEW label, NEW c \in In[i], label = Label(c),
           Insert(i, label)
    PROVE  StoredMoves /\ stored'[i] # None
  <1>1. label \in Categories /\ label # None
    BY LabelIs, Numbers DEF None
  <1> QED
    BY <1>1 DEF TypeOK, Scans, StoredMoves, Insert

\* kind does not change, so neither does what depends on it.
LEMMA SameKind ==
    ASSUME UNCHANGED kind
    PROVE  /\ Depth' = Depth
           /\ FetchesItems' = FetchesItems
           /\ \A c \in Categories : IsActive(c)' = IsActive(c) /\ Label(c)' = Label(c)
  BY DEF Depth, FetchesItems, IsActive, Label

\* A category that was read to its end stays so while its list stands still.
LEMMA ThroughKeeps ==
    ASSUME TypeOK, NEW c \in Categories, ThroughWith(c), StoredMoves, UNCHANGED kind,
           listing'[c] = listing[c], owed'[c] \subseteq owed[c]
    PROVE  ThroughWith(c)'
  <1>1. listing[c] \in Seq(Items) /\ Depth' = Depth
    BY SameKind DEF TypeOK, Scans
  <1>2. Complete(listing[c], Depth * PageSize, owed'[c], {}, stored', kind)
    BY <1>1, CompleteKeeps DEF ThroughWith, StoredMoves
  <1> QED
    BY <1>1, <1>2 DEF ThroughWith

\* The step of a scan that stays on its page.
LEMMA StayHolds ==
    ASSUME IndInv, AtPage, AtPage', UNCHANGED <<kind, listing>>, StoredMoves,
           scan' \in Scans,
           scan'.category = scan.category, scan'.number = scan.number,
           page' \subseteq page, loose' = loose,
           owed' \in [Categories -> SUBSET Items],
           \A c \in Categories : owed'[c] \subseteq owed[c],
           \A i \in page : \/ i \in page'
                           \/ i \notin owed'[scan.category]
                           \/ stored'[i] # None
                           \/ (kind # "workua" /\ i \in Blank)
    PROVE  IndInv'
  <1> DEFINE c == scan.category
  <1>0. TypeOK /\ c \in Categories /\ scan.number \in 1 .. MaxPages
    BY DEF IndInv, TypeOK, Scans
  <1>1. TypeOK'
    BY <1>0 DEF TypeOK, Scans, StoredMoves
  <1>2. Behind'
    <2>1. ASSUME NEW d \in Categories, IsActive(d), d < c
          PROVE  ThroughWith(d)'
      <3>1. ThroughWith(d)
        BY <2>1 DEF IndInv, Behind, Scanning, AtPage
      <3> QED
        BY <1>0, <3>1, ThroughKeeps
    <2> QED
      BY <2>1, SameKind DEF Behind, Scanning, AtPage
  <1>3. Here'
    <2>1. Complete(listing[c], scan.number * PageSize, owed[c], page, stored, kind)
      BY DEF IndInv, Here
    <2>2. listing[c] \in Seq(Items)
      BY <1>0 DEF TypeOK, Scans
    <2>3. Complete(listing[c], scan.number * PageSize, owed'[c], page', stored', kind)
      BY <1>0, <2>1, <2>2, CompleteKeeps DEF StoredMoves
    <2> QED
      BY <2>3 DEF Here, AtPage
  <1>4. NothingOwed' /\ OwedIsListed'
    BY DEF NothingOwed, IndInv, OwedIsListed, AtPage, Scanning
  <1>5. PageFits'
    BY DEF IndInv, PageFits
  <1>6. LooseFits'
    BY <1>0, SameKind, Numbers DEF IndInv, LooseFits, TypeOK
  <1>7. WithinLimits'
    BY SameKind DEF IndInv, WithinLimits, AtPage
  <1> QED
    BY <1>1, <1>2, <1>3, <1>4, <1>5, <1>6, <1>7 DEF IndInv

\* The scan leaves a category it is through with.
LEMMA LeaveHolds ==
    ASSUME IndInv, Scanning, NEW c \in Categories, c = scan.category,
           scan' = NextCategory(c), page' = {},
           UNCHANGED <<kind, listing, stored, loose>>,
           owed' \in [Categories -> SUBSET Items],
           \A d \in Categories : owed'[d] \subseteq owed[d],
           ThroughWith(c)'
    PROVE  IndInv'
  <1>0. TypeOK /\ scan.number \in 1 .. MaxPages
    BY DEF IndInv, TypeOK, Scans
  <1>1. StoredMoves
    BY <1>0, SameStored
  <1>2. \A d \in Categories : IsActive(d) /\ d <= c => ThroughWith(d)'
    <2> TAKE d \in Categories
    <2>1. CASE d = c
      BY <2>1
    <2>2. CASE d < c /\ IsActive(d)
      <3>1. ThroughWith(d)
        BY <2>2 DEF IndInv, Behind
      <3> QED
        BY <1>0, <1>1, <3>1, ThroughKeeps
    <2> QED
      BY <1>0, <2>1, <2>2, Numbers
  <1>3. OwedIsListed' /\ LooseFits'
    BY <1>0, SameKind, Numbers DEF IndInv, OwedIsListed, LooseFits, TypeOK
  <1>4. PageFits'
    BY DEF PageFits
  <1>5. CASE /\ NextCategory(c) = NoScan("done", 0)
             /\ \A e \in Categories : IsActive(e) => e <= c
    <2>1. scan' = [pc |-> "done", category |-> 1, number |-> 1, attempt |-> 0]
      BY <1>5 DEF NoScan
    <2>2. TypeOK'
      BY <1>0, <1>1, <2>1, Numbers DEF TypeOK, Scans, StoredMoves
    <2>3. Behind'
      BY <1>2, <1>5, SameKind DEF Behind
    <2>4. Here' /\ NothingOwed'
      BY <2>1 DEF Here, NothingOwed, AtPage
    <2>5. WithinLimits'
      BY <2>1, SameKind, DepthIs, Numbers DEF WithinLimits
    <2> QED
      BY <1>3, <1>4, <2>2, <2>3, <2>4, <2>5 DEF IndInv
  <1>6. ASSUME NEW d \in Categories,
               NextCategory(c) = [scan EXCEPT !.pc = "read", !.category = d, !.number = 1],
               IsActive(d),
               \A e \in Categories : IsActive(e) /\ e < d => e <= c
        PROVE  IndInv'
    <2>1. /\ scan'.pc = "read" /\ scan'.category = d /\ scan'.number = 1
          /\ scan' \in Scans
      <3>1. 1 \in 1 .. MaxPages
        BY Numbers
      <3> QED
        BY <1>0, <1>6, <3>1 DEF TypeOK, Scans
    <2>2. TypeOK'
      BY <1>0, <1>1, <2>1 DEF TypeOK, Scans, StoredMoves
    <2>3. Behind'
      BY <1>2, <1>6, <2>1, SameKind DEF Behind, Scanning
    <2>4. Here'
      <3>1. (1 - 1) * PageSize = 0
        BY PagesMeet, Numbers
      <3>2. listing[d] \in Seq(Items)
        BY <1>0 DEF TypeOK, Scans
      <3>3. Complete(listing[d], 0, owed'[d], {}, stored', kind)
        BY <3>2 DEF Complete
      <3> QED
        BY <2>1, <3>1, <3>3 DEF Here, AtPage
    <2>5. NothingOwed' /\ WithinLimits'
      BY <2>1, SameKind, DepthIs, Numbers DEF NothingOwed, Scanning, WithinLimits
    <2> QED
      BY <1>3, <1>4, <2>2, <2>3, <2>4, <2>5 DEF IndInv
  <1> QED
    BY <1>0, <1>5, <1>6, NextIsNext

\* The scan stops, and owes nothing any more.
LEMMA StopHolds ==
    ASSUME IndInv, NEW pc \in {"paused", "failed"}, NEW attempt \in 0 .. Retries + 1,
           scan' = NoScan(pc, attempt), pc = "paused" => attempt <= Retries,
           page' = {}, Excused(Categories), UNCHANGED <<kind, listing, stored>>,
           loose' \subseteq Items \X Categories, LooseFits'
    PROVE  IndInv'
  <1>0. TypeOK
    BY DEF IndInv
  <1>1. scan' = [pc |-> pc, category |-> 1, number |-> 1, attempt |-> attempt]
    BY DEF NoScan
  <1>2. owed' = [c \in Categories |-> {}]
    BY DEF Excused
  <1>3. TypeOK'
    BY <1>0, <1>1, <1>2, Numbers DEF TypeOK, Scans
  <1>4. ~Scanning' /\ ~AtPage' /\ scan'.pc # "done" /\ scan'.pc # "read"
    BY <1>1 DEF Scanning, AtPage
  <1>5. Behind' /\ Here' /\ NothingOwed' /\ OwedIsListed' /\ PageFits'
    BY <1>2, <1>4 DEF Behind, Here, NothingOwed, OwedIsListed, PageFits
  <1>6. WithinLimits'
    BY <1>1, SameKind, DepthIs, Numbers DEF WithinLimits
  <1> QED
    BY <1>3, <1>5, <1>6 DEF IndInv

-----------------------------------------------------------------------------
(* The pages.                                                              *)

\* A page that is read covers the next cards of its category; an empty one is its end.
LEMMA ReadPageHolds ==
    ASSUME IndInv, NEW c \in Categories, NEW n \in 1 .. MaxPages, ReadPage(c, n)
    PROVE  IndInv'
  <1>0. /\ TypeOK /\ scan.pc = "read" /\ scan.category = c /\ scan.number = n
        /\ Scanning /\ listing[c] \in Seq(Items) /\ \A i \in ToSet(listing[c]) : c \in In[i]
        /\ UNCHANGED <<kind, listing, stored, loose, owed>>
    BY DEF IndInv, TypeOK, Scans, ReadPage, At, Scanning
  <1>1. /\ DOMAIN listing[c] = 1 .. Len(listing[c]) /\ Len(listing[c]) \in Nat
        /\ \A k \in DOMAIN listing[c] : listing[c][k] \in Items
                                       /\ listing[c][k] \in ToSet(listing[c])
    BY <1>0 DEF ToSet
  <1>2. Complete(listing[c], (n - 1) * PageSize, owed[c], {}, stored, kind)
    BY <1>0 DEF IndInv, Here
  <1>3. page' = {listing[c][k] : k \in {j \in DOMAIN listing[c] :
                             (n - 1) * PageSize < j /\ j <= n * PageSize}}
    BY DEF ReadPage, Cards
  <1>4. /\ n * PageSize \in Nat /\ (n - 1) * PageSize \in Nat
        /\ n * PageSize = (n - 1) * PageSize + PageSize
    BY PagesMeet
  <1>5. page' \subseteq Items /\ \A i \in page' : c \in In[i]
    BY <1>0, <1>1, <1>3
  <1>6. CASE page' = {}
    <2>1. Len(listing[c]) <= (n - 1) * PageSize
      <3>1. SUFFICES ASSUME Len(listing[c]) > (n - 1) * PageSize PROVE FALSE
        BY <1>1, <1>4
      <3>2. (n - 1) * PageSize + 1 \in DOMAIN listing[c]
        BY <1>1, <1>4, <3>1
      <3>3. (n - 1) * PageSize + 1 <= n * PageSize
        BY <1>4, Numbers
      <3>4. PICK x \in DOMAIN listing[c] : x = (n - 1) * PageSize + 1
        BY <3>2
      <3>5. (n - 1) * PageSize < x /\ x <= n * PageSize
        BY <1>4, <3>3, <3>4
      <3>6. listing[c][x] \in page'
        BY <1>3, <3>5
      <3> QED
        BY <1>6, <3>6
    <2>2. Complete(listing[c], Depth * PageSize, owed[c], {}, stored, kind)
      BY <1>1, <1>2, <1>4, <2>1 DEF Complete
    <2>3. ThroughWith(c)'
      BY <1>0, <2>2, SameKind DEF ThroughWith
    <2>4. scan' = NextCategory(c)
      BY <1>6 DEF ReadPage
    <2>5. owed' \in [Categories -> SUBSET Items] /\ \A d \in Categories : owed'[d] \subseteq owed[d]
      BY <1>0 DEF TypeOK, Scans
    <2> QED
      BY <1>0, <1>6, <2>3, <2>4, <2>5, LeaveHolds
  <1>7. CASE page' # {}
    <2> DEFINE pc == IF kind = "dou" THEN "items" ELSE "check"
    <2>1. scan' = [scan EXCEPT !.pc = pc]
      BY <1>7 DEF ReadPage
    <2>2. pc \in {"check", "items"}
      OBVIOUS
    <2> HIDE DEF pc
    <2>3. /\ scan'.pc = pc /\ scan'.category = c /\ scan'.number = n
          /\ scan' \in Scans
      BY <1>0, <2>1, <2>2 DEF TypeOK, Scans
    <2>4. TypeOK'
      BY <1>0, <1>5, <2>3 DEF TypeOK, Scans
    <2>5. Behind'
      BY <1>0, <2>2, <2>3, SameKind DEF IndInv, Behind, Scanning, ThroughWith
    <2>6. Complete(listing[c], n * PageSize, owed[c], page', stored, kind)
      <3>1. ASSUME NEW k \in DOMAIN listing[c], k <= n * PageSize, listing[c][k] \in owed[c]
            PROVE  \/ stored[listing[c][k]] # None
                   \/ kind # "workua" /\ listing[c][k] \in Blank
                   \/ listing[c][k] \in page'
        <4>1. CASE k <= (n - 1) * PageSize
          BY <1>2, <3>1, <4>1 DEF Complete
        <4>2. CASE ~(k <= (n - 1) * PageSize)
          <5>1. (n - 1) * PageSize < k
            BY <1>1, <1>4, <4>2
          <5> QED
            BY <1>3, <3>1, <5>1
        <4> QED
          BY <4>1, <4>2
      <3> QED
        BY <3>1 DEF Complete
    <2>7. Here'
      BY <1>0, <2>2, <2>3, <2>6 DEF Here, AtPage
    <2>8. NothingOwed' /\ OwedIsListed' /\ LooseFits'
      BY <1>0, <2>2, <2>3, SameKind, Numbers
      DEF IndInv, NothingOwed, OwedIsListed, LooseFits, Scanning, TypeOK
    <2>9. PageFits'
      BY <1>5, <2>2, <2>3 DEF PageFits, AtPage
    <2>10. WithinLimits'
      BY <1>0, <2>2, <2>3, SameKind DEF IndInv, WithinLimits
    <2> QED
      BY <2>4, <2>5, <2>7, <2>8, <2>9, <2>10 DEF IndInv
  <1> QED
    BY <1>6, <1>7

\* A lost page excuses its category.
LEMMA PageLostHolds ==
    ASSUME IndInv, PageLost
    PROVE  IndInv'
  <1>0. /\ TypeOK /\ scan.pc = "read" /\ scan.category \in Categories
        /\ Scanning /\ page = {}
        /\ UNCHANGED <<kind, listing, stored, page, loose>>
    BY DEF IndInv, TypeOK, Scans, PageLost, Scanning, PageFits, AtPage
  <1>1. PICK c \in Categories : c = scan.category
    BY <1>0
  <1>2. scan' = NextCategory(c)
        /\ owed' = [d \in Categories |-> IF d \in {c} THEN {} ELSE owed[d]]
    BY <1>1 DEF PageLost, Excused
  <1>3. owed' \in [Categories -> SUBSET Items] /\ owed'[c] = {}
        /\ \A d \in Categories : owed'[d] \subseteq owed[d]
    BY <1>0, <1>2 DEF TypeOK, Scans
  <1>4. ThroughWith(c)'
    BY <1>3, CompleteEmpty DEF ThroughWith
  <1> QED
    BY <1>0, <1>1, <1>2, <1>3, <1>4, LeaveHolds

\* What the check takes off the page has a row.
LEMMA CheckHolds ==
    ASSUME IndInv, Check
    PROVE  IndInv'
  <1>0. /\ TypeOK /\ scan.pc = "check" /\ AtPage
        /\ UNCHANGED <<kind, listing, stored, loose, owed>>
        /\ page' = {i \in page : stored[i] = None}
        /\ scan' = [scan EXCEPT !.pc = "items"]
    BY DEF IndInv, Check, AtPage
  <1>1. /\ scan'.pc = "items" /\ scan'.category = scan.category
        /\ scan'.number = scan.number
        /\ scan' \in Scans
    BY <1>0 DEF TypeOK, Scans
  <1>2. AtPage'
    BY <1>1 DEF AtPage
  <1>3. StoredMoves /\ owed' \in [Categories -> SUBSET Items]
    BY <1>0, SameStored DEF TypeOK, Scans
  <1>4. \A i \in page : \/ i \in page'
                        \/ i \notin owed'[scan.category]
                        \/ stored'[i] # None
                        \/ kind # "workua" /\ i \in Blank
    BY <1>0
  <1>5. page' \subseteq page /\ loose' = loose /\ UNCHANGED <<kind, listing>>
        /\ \A c \in Categories : owed'[c] \subseteq owed[c]
    BY <1>0
  <1> QED
    BY <1>0, <1>1, <1>2, <1>3, <1>4, <1>5, StayHolds

\* What all steps of a posting have in common.
LEMMA ItemHolds ==
    ASSUME IndInv, NEW i \in page, scan.pc = "items", page' = page \ {i},
           UNCHANGED <<kind, listing, scan, loose>>, StoredMoves,
           owed' \in [Categories -> SUBSET Items],
           \A c \in Categories : owed'[c] \subseteq owed[c],
           \/ i \notin owed'[scan.category]
           \/ stored'[i] # None
           \/ kind # "workua" /\ i \in Blank
    PROVE  IndInv'
  <1>1. AtPage /\ AtPage'
    BY DEF AtPage
  <1>2. scan' \in Scans
    BY DEF IndInv, TypeOK, Scans
  <1>3. \A j \in page : \/ j \in page'
                        \/ j \notin owed'[scan.category]
                        \/ stored'[j] # None
                        \/ kind # "workua" /\ j \in Blank
    OBVIOUS
  <1>4. /\ page' \subseteq page /\ loose' = loose /\ UNCHANGED <<kind, listing>>
        /\ scan'.category = scan.category /\ scan'.number = scan.number
    OBVIOUS
  <1> QED
    BY <1>1, <1>2, <1>3, <1>4, StayHolds

\* A posting leaves the page with a row, or is owed no longer.
LEMMA PageItemHolds ==
    ASSUME IndInv, NEW i \in Items, PageItem(i)
    PROVE  IndInv'
  <1> DEFINE c == scan.category
  <1>0. /\ TypeOK /\ scan.pc = "items" /\ i \in page /\ page' = page \ {i}
        /\ c \in Categories /\ c \in In[i]
        /\ UNCHANGED <<kind, listing, scan, loose>>
    BY DEF IndInv, TypeOK, Scans, PageItem, PageFits
  <1>1. CASE Insert(i, Label(c)) /\ UNCHANGED owed
    <2>1. StoredMoves /\ stored'[i] # None
      BY <1>0, <1>1, InsertMoves
    <2>2. owed' \in [Categories -> SUBSET Items] /\ \A d \in Categories : owed'[d] \subseteq owed[d]
      BY <1>0, <1>1 DEF TypeOK, Scans
    <2> QED
      BY <1>0, <2>1, <2>2, ItemHolds
  <1>2. CASE owed' = [owed EXCEPT ![c] = owed[c] \ {i}] /\ UNCHANGED stored
    <2>1. /\ owed' \in [Categories -> SUBSET Items]
          /\ \A d \in Categories : owed'[d] \subseteq owed[d]
          /\ i \notin owed'[c]
      BY <1>0, <1>2 DEF TypeOK, Scans
    <2>2. StoredMoves
      BY <1>0, <1>2, SameStored
    <2> QED
      BY <1>0, <2>1, <2>2, ItemHolds
  <1> QED
    BY <1>1, <1>2 DEF PageItem

\* A posting leaves the page with a row, or has nothing to store.
LEMMA ListedItemHolds ==
    ASSUME IndInv, NEW i \in Items, ListedItem(i)
    PROVE  IndInv'
  <1> DEFINE c == scan.category
  <1>0. /\ TypeOK /\ scan.pc = "items" /\ i \in page /\ page' = page \ {i}
        /\ c \in Categories /\ c \in In[i] /\ kind # "workua"
        /\ UNCHANGED <<kind, listing, scan, loose, owed>>
    BY DEF IndInv, TypeOK, Scans, ListedItem, PageFits, FetchesItems
  <1>1. owed' \in [Categories -> SUBSET Items] /\ \A d \in Categories : owed'[d] \subseteq owed[d]
    BY <1>0 DEF TypeOK, Scans
  <1>2. CASE Insert(i, Label(c))
    <2>1. StoredMoves /\ stored'[i] # None
      BY <1>0, <1>2, InsertMoves
    <2> QED
      BY <1>0, <1>1, <2>1, ItemHolds
  <1>3. CASE i \in Blank /\ UNCHANGED stored
    <2>1. StoredMoves
      BY <1>0, <1>3, SameStored
    <2> QED
      BY <1>0, <1>1, <1>3, <2>1, ItemHolds
  <1> QED
    BY <1>2, <1>3 DEF ListedItem, Storable

\* An empty page is stored, so the scan goes on to the next one or the next category.
LEMMA PageDoneHolds ==
    ASSUME IndInv, PageDone
    PROVE  IndInv'
  <1>0. /\ TypeOK /\ scan.pc = "items" /\ page = {} /\ scan' = NextPage
        /\ scan.category \in Categories /\ scan.number \in 1 .. MaxPages
        /\ Scanning /\ AtPage
        /\ UNCHANGED <<kind, listing, stored, page, loose, owed>>
    BY DEF IndInv, TypeOK, Scans, PageDone, Scanning, AtPage
  <1>1. PICK c \in Categories : c = scan.category
    BY <1>0
  <1>2. PICK n \in 1 .. MaxPages : n = scan.number
    BY <1>0
  <1>3. Complete(listing[c], n * PageSize, owed[c], {}, stored, kind)
    BY <1>0, <1>1, <1>2 DEF IndInv, Here
  <1>4. owed' \in [Categories -> SUBSET Items] /\ \A d \in Categories : owed'[d] \subseteq owed[d]
    BY <1>0 DEF TypeOK, Scans
  <1>5. CASE n = Depth
    <2>1. scan' = NextCategory(c)
      BY <1>0, <1>1, <1>2, <1>5 DEF NextPage
    <2>2. ThroughWith(c)'
      BY <1>0, <1>3, <1>5, SameKind DEF ThroughWith
    <2> QED
      BY <1>0, <1>1, <1>4, <2>1, <2>2, LeaveHolds
  <1>6. CASE n # Depth
    <2>1. scan' = [scan EXCEPT !.pc = "read", !.number = n + 1]
      BY <1>0, <1>2, <1>6 DEF NextPage
    <2>2. n + 1 <= Depth /\ n + 1 \in 1 .. MaxPages
      BY <1>2, <1>6, DepthIs, Numbers DEF IndInv, WithinLimits
    <2>3. /\ scan'.pc = "read" /\ scan'.category = c /\ scan'.number = n + 1
          /\ scan' \in Scans
      BY <1>0, <1>1, <2>1, <2>2 DEF TypeOK, Scans
    <2>4. TypeOK'
      BY <1>0, <2>3 DEF TypeOK, Scans
    <2>5. Behind'
      BY <1>0, <1>1, <2>3, SameKind DEF IndInv, Behind, Scanning, ThroughWith
    <2>6. Here'
      <3>1. ((n + 1) - 1) * PageSize = n * PageSize
        BY PagesMeet
      <3> QED
        BY <1>0, <1>3, <2>3, <3>1 DEF Here, AtPage
    <2>7. NothingOwed' /\ OwedIsListed' /\ LooseFits' /\ PageFits'
      BY <1>0, <2>3, SameKind, Numbers
      DEF IndInv, NothingOwed, OwedIsListed, LooseFits, Scanning, TypeOK, PageFits
    <2>8. WithinLimits'
      BY <2>2, <2>3, <1>0, SameKind DEF WithinLimits
    <2> QED
      BY <2>4, <2>5, <2>6, <2>7, <2>8 DEF IndInv
  <1> QED
    BY <1>5, <1>6

-----------------------------------------------------------------------------
(* Coroutines left behind, attempts, and the board.                        *)

\* Steps beside the scan: they leave scan and page alone.
LEMMA BesideHolds ==
    ASSUME IndInv, UNCHANGED <<kind, listing, scan, page, owed>>, StoredMoves,
           loose' \subseteq loose
    PROVE  IndInv'
  <1>0. TypeOK
    BY DEF IndInv
  <1>1. TypeOK'
    BY <1>0 DEF TypeOK, Scans, StoredMoves
  <1>2. Behind'
    <2>1. ASSUME NEW c \in Categories, ThroughWith(c)
          PROVE  ThroughWith(c)'
      BY <1>0, <2>1, ThroughKeeps
    <2> QED
      BY <2>1, SameKind DEF IndInv, Behind, Scanning
  <1>3. Here'
    <2> DEFINE c == scan.category
    <2>1. listing[c] \in Seq(Items)
      BY <1>0 DEF TypeOK, Scans
    <2>2. ASSUME scan.pc = "read"
          PROVE  Complete(listing[c], (scan.number - 1) * PageSize, owed[c], {}, stored', kind)
      <3>1. Complete(listing[c], (scan.number - 1) * PageSize, owed[c], {}, stored, kind)
        BY <2>2 DEF IndInv, Here
      <3> QED
        BY <2>1, <3>1, CompleteKeeps DEF StoredMoves
    <2>3. ASSUME AtPage
          PROVE  Complete(listing[c], scan.number * PageSize, owed[c], page, stored', kind)
      <3>1. Complete(listing[c], scan.number * PageSize, owed[c], page, stored, kind)
        BY <2>3 DEF IndInv, Here
      <3> QED
        BY <2>1, <3>1, CompleteKeeps DEF StoredMoves
    <2> QED
      BY <2>2, <2>3 DEF Here, AtPage
  <1>4. NothingOwed' /\ OwedIsListed' /\ PageFits'
    BY DEF IndInv, NothingOwed, Scanning, OwedIsListed, PageFits, AtPage
  <1>5. LooseFits'
    BY <1>0, SameKind, Numbers DEF IndInv, LooseFits, TypeOK
  <1>6. WithinLimits'
    BY SameKind DEF IndInv, WithinLimits
  <1> QED
    BY <1>1, <1>2, <1>3, <1>4, <1>5, <1>6 DEF IndInv

\* A coroutine left behind writes the label it was started with.
LEMMA LooseItemMoves ==
    ASSUME IndInv, NEW l \in loose, LooseItem(l)
    PROVE  StoredMoves
  <1>0. TypeOK
    BY DEF IndInv
  <1>1. PICK c \in In[l[1]] : l[2] = Label(c)
    BY DEF IndInv, LooseFits
  <1>2. l[1] \in Items
    BY <1>0 DEF TypeOK, Scans
  <1>3. CASE Insert(l[1], l[2])
    BY <1>0, <1>1, <1>2, <1>3, InsertMoves
  <1>4. CASE UNCHANGED stored
    BY <1>0, <1>4, SameStored
  <1> QED
    BY <1>3, <1>4 DEF LooseItem

\* A coroutine left behind adds a row at most.
LEMMA LooseItemHolds ==
    ASSUME IndInv, NEW l \in loose, LooseItem(l)
    PROVE  IndInv'
  <1>1. StoredMoves
    BY LooseItemMoves
  <1>2. UNCHANGED <<kind, listing, scan, page, owed>> /\ loose' \subseteq loose
    BY DEF LooseItem
  <1> QED
    BY <1>1, <1>2, BesideHolds

\* A failed attempt owes nothing; what it leaves behind fits its labels.
LEMMA RaiseHolds ==
    ASSUME IndInv, Raise
    PROVE  IndInv'
  <1>0. /\ TypeOK /\ AtPage /\ page' = {} /\ Excused(Categories)
        /\ UNCHANGED <<kind, listing, stored>>
        /\ scan.attempt \in 0 .. Retries + 1 /\ scan.category \in Categories
        /\ loose \subseteq Items \X Categories /\ page \subseteq Items
    BY DEF IndInv, TypeOK, Scans, Raise, AtPage
  <1>1. \A l \in loose' : l \in loose \/ l \in page \X {Label(scan.category)}
    BY DEF Raise
  <1>2. Label(scan.category) \in Categories
    BY <1>0, LabelIs
  <1>3. loose' \subseteq Items \X Categories
    BY <1>0, <1>1, <1>2
  <1>4. LooseFits'
    <2>1. ASSUME NEW l \in loose'
          PROVE  \E c \in In[l[1]] : l[2] = Label(c)
      <3>1. CASE l \in loose
        BY <3>1 DEF IndInv, LooseFits
      <3>2. CASE l \in page \X {Label(scan.category)}
        <4>1. l[1] \in page /\ l[2] = Label(scan.category)
          BY <3>2
        <4>2. scan.category \in In[l[1]]
          BY <4>1 DEF IndInv, PageFits
        <4> QED
          BY <4>1, <4>2
      <3> QED
        BY <1>1, <3>1, <3>2
    <2>2. \A l \in loose' : In[l[1]] \subseteq Categories
      BY <1>3, Numbers
    <2> QED
      BY <1>0, <2>1, <2>2, SameKind DEF LooseFits
  <1>5. CASE scan.attempt <= Retries /\ scan' = NoScan("paused", scan.attempt)
    <2>1. PICK n \in 0 .. Retries + 1 : n = scan.attempt
      BY <1>0
    <2> QED
      BY <1>0, <1>3, <1>4, <1>5, <2>1, StopHolds
  <1>6. CASE scan' = NoScan("failed", 0)
    <2>1. 0 \in 0 .. Retries + 1
      BY Numbers
    <2> QED
      BY <1>0, <1>3, <1>4, <1>6, <2>1, StopHolds
  <1> QED
    BY <1>5, <1>6 DEF Raise

\* A killed process owes nothing.
LEMMA KillHolds ==
    ASSUME IndInv, Kill
    PROVE  IndInv'
  <1>1. /\ scan' = NoScan("failed", 0) /\ page' = {} /\ loose' = {}
        /\ Excused(Categories) /\ UNCHANGED <<kind, listing, stored>>
    BY DEF Kill
  <1>2. LooseFits' /\ 0 \in 0 .. Retries + 1
    BY <1>1, Numbers DEF LooseFits
  <1> QED
    BY <1>1, <1>2, StopHolds

\* main() owes what is listed when it starts.
LEMMA BeginHolds ==
    ASSUME IndInv, NEW attempt \in 0 .. Retries + 1, Begin(attempt), page = {},
           loose' \subseteq loose
    PROVE  IndInv'
  <1>0. /\ TypeOK /\ scan' = Entry(attempt)
        /\ owed' = [c \in Categories |-> ToSet(listing[c])]
        /\ UNCHANGED <<kind, listing, stored, page>>
    BY DEF IndInv, Begin
  <1>1. PICK d \in Categories : /\ d = First(Following(0))
                                /\ \A e \in Categories : IsActive(e) => d <= e
    <2>1. /\ First(Following(0)) \in Following(0)
          /\ \A e \in Following(0) : First(Following(0)) <= e
      BY SomeIsActive, FirstIsLeast
    <2> QED
      BY <2>1, SomeIsActive
  <1>2. scan' = [pc |-> "read", category |-> d, number |-> 1, attempt |-> attempt]
    BY <1>0, <1>1 DEF Entry
  <1>3. \A c \in Categories : ToSet(listing[c]) \subseteq Items
    BY <1>0 DEF TypeOK, Scans, ToSet
  <1>4. TypeOK'
    BY <1>0, <1>2, <1>3, Numbers DEF TypeOK, Scans
  <1>5. Behind'
    BY <1>1, <1>2, <1>0, SameKind, Numbers DEF Behind, Scanning
  <1>6. Here'
    <2>1. (1 - 1) * PageSize = 0
      BY PagesMeet, Numbers
    <2>2. listing[d] \in Seq(Items)
      BY <1>0 DEF TypeOK, Scans
    <2>3. Complete(listing[d], 0, owed'[d], {}, stored', kind)
      BY <2>2 DEF Complete
    <2> QED
      BY <1>0, <1>2, <2>1, <2>3 DEF Here, AtPage
  <1>7. NothingOwed' /\ OwedIsListed' /\ PageFits'
    BY <1>0, <1>2 DEF NothingOwed, Scanning, OwedIsListed, PageFits
  <1>8. LooseFits'
    BY <1>0, SameKind, Numbers DEF IndInv, LooseFits, TypeOK
  <1>9. WithinLimits'
    BY <1>0, <1>2, SameKind, DepthIs, Numbers DEF WithinLimits
  <1> QED
    BY <1>4, <1>5, <1>6, <1>7, <1>8, <1>9 DEF IndInv

\* A retry begins like any attempt.
LEMMA AgainHolds ==
    ASSUME IndInv, Again
    PROVE  IndInv'
  <1>1. /\ scan.pc = "paused" /\ Begin(scan.attempt + 1) /\ loose' = loose
        /\ scan.attempt \in 0 .. Retries + 1 /\ scan.attempt <= Retries
    BY DEF Again, IndInv, WithinLimits, TypeOK, Scans
  <1>2. page = {}
    BY <1>1 DEF IndInv, PageFits, AtPage
  <1>3. PICK n \in 0 .. Retries + 1 : n = scan.attempt + 1
    BY <1>1, Numbers
  <1> QED
    BY <1>1, <1>2, <1>3, BeginHolds

\* So does the first attempt of a run.
LEMMA RunHolds ==
    ASSUME IndInv, Run
    PROVE  IndInv'
  <1>1. page = {} /\ Begin(1) /\ loose' = {} /\ 1 \in 0 .. Retries + 1
    BY Numbers DEF Run, IndInv, PageFits, AtPage
  <1> QED
    BY <1>1, BeginHolds

\* The board changes under the scan.
LEMMA PostHolds ==
    ASSUME IndInv, NEW c \in Categories, NEW i \in Items, Post(c, i)
    PROVE  IndInv'
  <1>0. /\ TypeOK /\ c \in In[i] /\ i \notin ToSet(listing[c])
        /\ UNCHANGED <<kind, stored, scan, page, loose, owed>>
        /\ listing[c] \in Seq(Items)
        /\ listing' = [listing EXCEPT ![c] = <<i>> \o listing[c]]
    BY DEF IndInv, TypeOK, Scans, Post
  <1> DEFINE t == <<i>> \o listing[c]
  <1>1. t \in Seq(Items) /\ ToSet(t) = {i} \cup ToSet(listing[c])
    BY <1>0, Pushed
  <1>2. listing' \in [Categories -> Seq(Items)] /\ listing'[c] = t
        /\ \A d \in Categories : d # c => listing'[d] = listing[d]
    BY <1>0, <1>1 DEF TypeOK, Scans
  <1>3. i \notin owed[c]
    BY <1>0 DEF IndInv, OwedIsListed
  <1>4. ASSUME NEW d \in Categories, NEW m \in Int, NEW S,
               Complete(listing[d], m, owed[d], S, stored, kind)
        PROVE  Complete(listing'[d], m, owed[d], S, stored, kind)
    <2>1. CASE d = c
      BY <1>0, <1>2, <1>3, <1>4, <2>1, CompletePushed
    <2>2. CASE d # c
      BY <1>2, <1>4, <2>2
    <2> QED
      BY <2>1, <2>2
  <1> HIDE DEF t
  <1>5. TypeOK'
    BY <1>0, <1>1, <1>2 DEF TypeOK, Scans
  <1>6. Behind'
    <2>1. ASSUME NEW d \in Categories, ThroughWith(d)
          PROVE  ThroughWith(d)'
      <3>1. Depth * PageSize \in Int /\ Depth' = Depth
        BY <1>0, DepthIs, SameKind
      <3>2. Complete(listing'[d], Depth * PageSize, owed[d], {}, stored, kind)
        BY <1>4, <2>1, <3>1 DEF ThroughWith
      <3> QED
        BY <1>0, <3>1, <3>2 DEF ThroughWith
    <2> QED
      BY <1>0, <2>1, SameKind DEF IndInv, Behind, Scanning
  <1>7. Here'
    <2> DEFINE d == scan.category
    <2>1. d \in Categories /\ scan.number \in 1 .. MaxPages
      BY <1>0 DEF TypeOK, Scans
    <2>2. scan.number * PageSize \in Int /\ (scan.number - 1) * PageSize \in Int
      BY <2>1, PagesMeet
    <2>3. ASSUME scan.pc = "read"
          PROVE  Complete(listing'[d], (scan.number - 1) * PageSize, owed[d], {}, stored, kind)
      BY <1>4, <2>1, <2>2, <2>3 DEF IndInv, Here
    <2>4. ASSUME AtPage
          PROVE  Complete(listing'[d], scan.number * PageSize, owed[d], page, stored, kind)
      BY <1>4, <2>1, <2>2, <2>4 DEF IndInv, Here
    <2> QED
      BY <1>0, <2>3, <2>4 DEF Here, AtPage
  <1>8. OwedIsListed'
    BY <1>0, <1>1, <1>2 DEF IndInv, OwedIsListed
  <1>9. NothingOwed' /\ PageFits'
    BY <1>0 DEF IndInv, NothingOwed, Scanning, PageFits, AtPage
  <1>10. LooseFits' /\ WithinLimits'
    BY <1>0, SameKind, Numbers DEF IndInv, LooseFits, WithinLimits, TypeOK
  <1> QED
    BY <1>5, <1>6, <1>7, <1>8, <1>9, <1>10 DEF IndInv

\* A category from which a posting is taken down is excused.
LEMMA TakeDownHolds ==
    ASSUME IndInv, NEW c \in Categories, NEW k \in DOMAIN listing[c], TakeDown(c, k)
    PROVE  IndInv'
  <1> DEFINE t == [j \in 1 .. Len(listing[c]) - 1 |->
                     IF j < k THEN listing[c][j] ELSE listing[c][j + 1]]
  <1>0. /\ TypeOK
        /\ UNCHANGED <<kind, stored, scan, page, loose>>
        /\ listing[c] \in Seq(Items)
        /\ listing' = [listing EXCEPT ![c] = t]
        /\ owed' = [d \in Categories |-> IF d \in {c} THEN {} ELSE owed[d]]
    BY DEF IndInv, TypeOK, Scans, TakeDown, Excused
  <1>1. t \in Seq(Items) /\ ToSet(t) \subseteq ToSet(listing[c])
    BY <1>0, Removed
  <1> HIDE DEF t
  <1>2. listing' \in [Categories -> Seq(Items)] /\ listing'[c] = t
        /\ \A d \in Categories : d # c => listing'[d] = listing[d]
    BY <1>0, <1>1 DEF TypeOK, Scans
  <1>3. /\ owed' \in [Categories -> SUBSET Items] /\ owed'[c] = {}
        /\ \A d \in Categories : d # c => owed'[d] = owed[d]
    BY <1>0 DEF TypeOK, Scans
  <1>4. ASSUME NEW d \in Categories, NEW m, NEW S,
               Complete(listing[d], m, owed[d], S, stored, kind)
        PROVE  Complete(listing'[d], m, owed'[d], S, stored, kind)
    <2>1. CASE d = c
      BY <1>3, <2>1, CompleteEmpty
    <2>2. CASE d # c
      BY <1>2, <1>3, <1>4, <2>2
    <2> QED
      BY <2>1, <2>2
  <1>5. TypeOK'
    BY <1>0, <1>1, <1>2, <1>3 DEF TypeOK, Scans
  <1>6. Behind'
    <2>1. ASSUME NEW d \in Categories, ThroughWith(d)
          PROVE  ThroughWith(d)'
      <3>1. Depth' = Depth
        BY <1>0, SameKind
      <3>2. Complete(listing'[d], Depth * PageSize, owed'[d], {}, stored, kind)
        BY <1>4, <2>1 DEF ThroughWith
      <3> QED
        BY <1>0, <3>1, <3>2 DEF ThroughWith
    <2> QED
      BY <1>0, <2>1, SameKind DEF IndInv, Behind, Scanning
  <1>7. Here'
    <2> DEFINE d == scan.category
    <2>1. d \in Categories
      BY <1>0 DEF TypeOK, Scans
    <2>2. ASSUME scan.pc = "read"
          PROVE  Complete(listing'[d], (scan.number - 1) * PageSize, owed'[d], {}, stored, kind)
      BY <1>4, <2>1, <2>2 DEF IndInv, Here
    <2>3. ASSUME AtPage
          PROVE  Complete(listing'[d], scan.number * PageSize, owed'[d], page, stored, kind)
      BY <1>4, <2>1, <2>3 DEF IndInv, Here
    <2> QED
      BY <1>0, <2>2, <2>3 DEF Here, AtPage
  <1>8. OwedIsListed' /\ NothingOwed'
    BY <1>0, <1>2, <1>3 DEF IndInv, OwedIsListed, NothingOwed, Scanning
  <1>9. PageFits' /\ LooseFits' /\ WithinLimits'
    BY <1>0, SameKind, Numbers
    DEF IndInv, PageFits, AtPage, LooseFits, WithinLimits, TypeOK
  <1> QED
    BY <1>5, <1>6, <1>7, <1>8, <1>9 DEF IndInv

-----------------------------------------------------------------------------
\* Nothing is listed, stored or owed at the start.
LEMMA InitHolds == Init => IndInv
  <1> SUFFICES ASSUME Init PROVE IndInv
    OBVIOUS
  <1>1. /\ scan = [pc |-> "idle", category |-> 1, number |-> 1, attempt |-> 0]
        /\ \A c \in Categories : listing[c] = <<>> /\ owed[c] = {}
        /\ page = {} /\ loose = {}
    BY DEF Init, NoScan
  <1>2. listing \in [Categories -> Seq(Items)] /\ \A c \in Categories : ToSet(listing[c]) = {}
    BY <1>1 DEF Init, ToSet
  <1>3. TypeOK
    BY <1>1, <1>2, Numbers DEF Init, TypeOK, Scans, None
  <1>4. WithinLimits
    BY <1>1, DepthIs, Numbers DEF WithinLimits
  <1> QED
    BY <1>1, <1>3, <1>4 DEF IndInv, Behind, Here, NothingOwed, OwedIsListed, PageFits,
                            LooseFits, Scanning, AtPage

\* Every step keeps the invariant.
LEMMA StepHolds == IndInv /\ [Next]_vars => IndInv'
  <1> SUFFICES ASSUME IndInv, [Next]_vars PROVE IndInv'
    OBVIOUS
  <1>1. CASE Next
    BY <1>1, ReadPageHolds, PageLostHolds, CheckHolds, PageItemHolds, ListedItemHolds,
       PageDoneHolds, AgainHolds, RunHolds, LooseItemHolds, RaiseHolds, KillHolds,
       PostHolds, TakeDownHolds
    DEF Next, Step
  <1>2. CASE UNCHANGED vars
    BY <1>2 DEF vars, IndInv, TypeOK, Behind, Here, NothingOwed, OwedIsListed, PageFits,
                LooseFits, WithinLimits, Scanning, AtPage, ThroughWith, Depth,
                IsActive, Label
  <1> QED
    BY <1>1, <1>2

\* The invariant holds throughout.
LEMMA Inductive == Spec => []IndInv
  BY InitHolds, StepHolds, PTL DEF Spec

-----------------------------------------------------------------------------
(* Theorems.                                                               *)

\* The scan never leaves the categories, pages and attempts it is limited to.
THEOREM TypeCorrect == Spec => []TypeOK
  BY Inductive, PTL DEF IndInv

\* main() of the collectors: no posting is passed over because others push it
\* from page to page, because an attempt failed before or because the scan had
\* rows already.
THEOREM ScanAlwaysComplete == Spec => []ScanIsComplete
  <1>1. IndInv => ScanIsComplete
    <2> SUFFICES ASSUME IndInv, scan.pc = "done",
                        NEW c \in Categories, IsActive(c),
                        NEW i \in Due(c) \cap owed[c]
                 PROVE  stored[i] # None
      BY DEF ScanIsComplete
    <2>1. ThroughWith(c)
      BY DEF IndInv, Behind
    <2>2. PICK k \in DOMAIN listing[c] : k <= Depth * PageSize /\ i = listing[c][k]
      BY DEF Due
    <2>3. ~(kind # "workua" /\ i \in Blank)
      BY DEF Due, FetchesItems
    <2> QED
      BY <2>1, <2>2, <2>3 DEF ThroughWith, Complete
  <1> QED
    BY <1>1, Inductive, PTL

\* ON CONFLICT DO NOTHING, and the label of a coroutine is that of its page: a
\* row stays as it was written, under a category of its posting.
THEOREM RowsAlwaysFinal == Spec => RowsAreFinal
  <1> DEFINE A == \A i \in Items :
                    IF stored[i] # None THEN stored'[i] = stored[i]
                    ELSE stored'[i] # None => \E c \in In[i] : stored'[i] = Label(c)
  <1>1. IndInv /\ [Next]_vars => [A]_vars
    <2> SUFFICES ASSUME IndInv, Next PROVE A
      BY DEF A
    <2>0. TypeOK
      BY DEF IndInv
    <2>1. StoredMoves => A
      BY DEF StoredMoves
    <2>2. UNCHANGED stored => StoredMoves
      BY <2>0, SameStored
    <2> HIDE DEF A
    <2>3. ASSUME NEW i \in Items, PageItem(i) \/ ListedItem(i)
          PROVE  StoredMoves
      <3>1. i \in page /\ scan.category \in In[i]
        BY <2>3 DEF PageItem, ListedItem, IndInv, PageFits
      <3>2. Insert(i, Label(scan.category)) \/ UNCHANGED stored
        BY <2>3 DEF PageItem, ListedItem
      <3> QED
        BY <2>0, <2>2, <3>1, <3>2, InsertMoves
    <2>4. ASSUME NEW l \in loose, LooseItem(l)
          PROVE  StoredMoves
      BY <2>4, LooseItemMoves
    <2>5. (\E c \in Categories, n \in 1 .. MaxPages : ReadPage(c, n))
          \/ PageLost \/ Check \/ PageDone \/ Again \/ Run \/ Raise \/ Kill
          => UNCHANGED stored
      BY DEF ReadPage, PageLost, Check, PageDone, Again, Run, Begin, Raise, Kill
    <2>6. ASSUME NEW c \in Categories,
                 \/ \E i \in Items : Post(c, i)
                 \/ \E k \in DOMAIN listing[c] : TakeDown(c, k)
          PROVE  UNCHANGED stored
      BY <2>6 DEF Post, TakeDown
    <2> QED
      BY <2>1, <2>2, <2>3, <2>4, <2>5, <2>6 DEF Next, Step
  <1> QED
    BY <1>1, Inductive, PTL DEF Spec, RowsAreFinal
=============================================================================
