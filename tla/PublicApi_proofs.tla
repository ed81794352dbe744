--------------------------- MODULE PublicApi_proofs ---------------------------
(***************************************************************************)
(* Proofs about the two components that serve clients without an account:    *)
(* SlidingWindow, for any number of clients, any limit, window, resolution   *)
(* of time and threshold of the sweep; and Search, for any rows, filters and *)
(* size of a page.  They share no state.                                    *)
(***************************************************************************)
EXTENDS SlidingWindow, Search, FiniteSetTheorems, WellFoundedInduction, TLAPS

-----------------------------------------------------------------------------
(* The limit of requests.                                                  *)

Times == 0 .. MaxTime

\* The times at which requests of a key were let in are in order.
Ordered(a, time) ==
    /\ \A i, j \in 1 .. Len(a) : i <= j => a[i] <= a[j]
    /\ \A i \in 1 .. Len(a) : a[i] <= time

\* The deque of a key is the end of these times, and what it lacks has left
\* the window.
EndOf(h, a, time) ==
    /\ Len(h) <= Len(a)
    /\ \A i \in 1 .. Len(h) : h[i] = a[Len(a) - Len(h) + i]
    /\ \A i \in 1 .. Len(a) - Len(h) : a[i] <= time - Window

\* A refused key was told a time at which the oldest of its last Limit
\* requests has left the window.
ToldEnough(a, t) ==
    t > 0 => Len(a) >= Limit /\ a[Len(a) - Limit + 1] + Window <= t

Spaced(a) == Len(a) > Limit => a[Len(a)] - a[1] >= Window

KeyInv(h, a, t, time) ==
    /\ h \in Seq(Times) /\ Len(h) <= Limit
    /\ a \in Seq(Times) /\ Len(a) <= Limit + 1
    /\ t \in Nat
    /\ Ordered(a, time)
    /\ EndOf(h, a, time)
    /\ ToldEnough(a, t)
    /\ Spaced(a)

\* Every key in the dictionary was hit within a window of the last sweep, and
\* no request was let in more than a window after it.
SweptRecently ==
    /\ \A k \in Known(hits) : Last(hits[k]) > lastSweep - Window
    /\ \A q \in Known(admitted) : Last(admitted[q]) <= lastSweep + Window

\* Over the threshold, every key in the dictionary counts.
SweptWhenFull ==
    Cardinality(Known(hits)) > SweepKeys =>
        \A k \in Known(hits), q \in Known(admitted) :
            Last(hits[k]) + Window > Last(admitted[q])

IndInv ==
    /\ now \in Times
    /\ lastSweep \in 0 .. now
    /\ hits = [k \in Keys |-> hits[k]]
    /\ admitted = [k \in Keys |-> admitted[k]]
    /\ told = [k \in Keys |-> told[k]]
    /\ \A k \in Keys : KeyInv(hits[k], admitted[k], told[k], now)
    /\ SweptRecently
    /\ SweptWhenFull

-----------------------------------------------------------------------------
(* The popleft() loop.                                                     *)

NatLess == {pair \in Nat \X Nat : pair[1] < pair[2]}

\* The natural numbers have no infinite descent.
LEMMA NatLessWellFounded == IsWellFoundedOn(NatLess, Nat)
  BY NatLessThanWellFounded, Zenon DEF OpToRel, NatLess

\* The loop keeps an end of the deque that starts with a time inside the
\* window, and drops times outside it only.
LEMMA FreshEnd ==
    ASSUME NEW s \in Seq(Times), now \in Times
    PROVE  /\ Fresh(s) \in Seq(Times)
           /\ Len(Fresh(s)) <= Len(s)
           /\ \A i \in 1 .. Len(Fresh(s)) : Fresh(s)[i] = s[Len(s) - Len(Fresh(s)) + i]
           /\ \A i \in 1 .. Len(s) - Len(Fresh(s)) : s[i] <= now - Window
           /\ Len(Fresh(s)) > 0 => Fresh(s)[1] > now - Window
<1> USE TimeAssumption
<1>1. \A i \in 1 .. Len(s) : s[i] \in Int
  BY DEF Times
<1>2. CASE \A i \in 1 .. Len(s) : Old(s[i])
  BY <1>2 DEF Fresh, Old
<1>3. CASE ~\A i \in 1 .. Len(s) : Old(s[i])
  <2> DEFINE Live == {i \in 1 .. Len(s) : ~Old(s[i])}
             P(i) == ~Old(s[i]) /\ \A j \in 1 .. i - 1 : Old(s[j])
             first == CHOOSE i \in 1 .. Len(s) : P(i)
  <2>1. Live \in SUBSET Nat /\ Live # {}
    BY <1>3
  <2>2. PICK x \in Live : \A y \in Live : ~(<<y, x>> \in NatLess)
    BY <2>1, NatLessWellFounded, WFMin
  <2>3. x \in 1 .. Len(s) /\ P(x)
    <3>1. ASSUME NEW j \in 1 .. x - 1 PROVE Old(s[j])
      <4>1. <<j, x>> \in NatLess
        BY DEF NatLess
      <4> QED
        BY <2>2, <4>1
    <3> QED
      BY <3>1
  <2>4. first \in 1 .. Len(s) /\ P(first)
    <3> HIDE DEF P
    <3> QED
      BY <2>3
  <2>5. Fresh(s) = SubSeq(s, first, Len(s))
    BY <1>3 DEF Fresh
  <2> HIDE DEF first
  <2>6. Len(Fresh(s)) = Len(s) - first + 1 /\ Fresh(s) \in Seq(Times)
    BY <2>4, <2>5
  <2>7. \A i \in 1 .. Len(Fresh(s)) : Fresh(s)[i] = s[first + i - 1]
    BY <2>4, <2>5, <2>6
  <2>8. Fresh(s)[1] > now - Window
    <3>1. Fresh(s)[1] = s[first] /\ s[first] \in Int
      BY <2>4, <2>6, <2>7, <1>1
    <3> QED
      BY <2>4, <3>1 DEF Old, Times
  <2> QED
    BY <2>4, <2>6, <2>7, <2>8 DEF Old
<1> QED
  BY <1>2, <1>3

-----------------------------------------------------------------------------
(* A request that is let in.                                               *)

\* The deque and the times after a request at `now`, swept or not.
LEMMA AdmitKeepsKey ==
    ASSUME now \in Times, NEW h, NEW a, NEW t, KeyInv(h, a, t, now), ~Full(Fresh(h))
    PROVE  KeyInv(Append(Fresh(h), now), Latest(Append(a, now)), 0, now)
<1> USE LimitAssumption, TimeAssumption
<1> DEFINE f == Fresh(h)
           b == Append(a, now)
           c == Latest(b)
<1>1. /\ h \in Seq(Times) /\ a \in Seq(Times) /\ Len(a) <= Limit + 1
      /\ Ordered(a, now) /\ EndOf(h, a, now)
  BY DEF KeyInv
<1>2. /\ f \in Seq(Times) /\ Len(f) <= Len(h) /\ Len(f) < Limit
      /\ \A i \in 1 .. Len(f) : f[i] = h[Len(h) - Len(f) + i]
      /\ \A i \in 1 .. Len(h) - Len(f) : h[i] <= now - Window
  BY <1>1, FreshEnd DEF Full
<1> HIDE DEF f
<1>3. EndOf(f, a, now)
  <2>1. ASSUME NEW i \in 1 .. Len(f) PROVE f[i] = a[Len(a) - Len(f) + i]
    <3>1. Len(h) - Len(f) + i \in 1 .. Len(h)
      BY <1>1, <1>2
    <3> QED
      BY <1>1, <1>2, <3>1 DEF EndOf
  <2>2. ASSUME NEW i \in 1 .. Len(a) - Len(f) PROVE a[i] <= now - Window
    <3>1. CASE i <= Len(a) - Len(h)
      BY <1>1, <3>1 DEF EndOf
    <3>2. CASE i > Len(a) - Len(h)
      <4>1. i - (Len(a) - Len(h)) \in 1 .. Len(h) - Len(f)
        BY <1>1, <1>2, <3>2 DEF EndOf
      <4>2. h[i - (Len(a) - Len(h))] = a[i]
        BY <1>1, <1>2, <4>1 DEF EndOf
      <4> QED
        BY <1>2, <4>1, <4>2
    <3> QED
      BY <1>1, <3>1, <3>2
  <2> QED
    BY <1>1, <1>2, <2>1, <2>2 DEF EndOf
<1>4. /\ Append(f, now) \in Seq(Times) /\ Len(Append(f, now)) = Len(f) + 1
      /\ \A i \in 1 .. Len(f) : Append(f, now)[i] = f[i]
      /\ Append(f, now)[Len(f) + 1] = now
  BY <1>2
<1>5. /\ b \in Seq(Times) /\ Len(b) = Len(a) + 1
      /\ \A i \in 1 .. Len(a) : b[i] = a[i]
      /\ b[Len(a) + 1] = now
  BY <1>1
<1> HIDE DEF b
<1>6. Ordered(b, now)
  <2>1. ASSUME NEW i \in 1 .. Len(b) PROVE b[i] <= now
    <3>1. CASE i = Len(a) + 1
      BY <1>5, <3>1 DEF Times
    <3>2. CASE i \in 1 .. Len(a)
      BY <1>1, <1>5, <3>2 DEF Ordered
    <3> QED
      BY <1>1, <1>5, <3>1, <3>2
  <2>2. ASSUME NEW i \in 1 .. Len(b), NEW j \in 1 .. Len(b), i <= j PROVE b[i] <= b[j]
    <3>1. CASE j = Len(a) + 1
      BY <1>5, <2>1, <3>1
    <3>2. CASE j # Len(a) + 1
      <4>1. i \in 1 .. Len(a) /\ j \in 1 .. Len(a)
        BY <1>5, <2>2, <3>2
      <4> QED
        BY <1>1, <1>5, <2>2, <4>1 DEF Ordered
    <3> QED
      BY <3>1, <3>2
  <2> QED
    BY <2>1, <2>2 DEF Ordered
<1>7. EndOf(Append(f, now), b, now)
  <2>1. ASSUME NEW i \in 1 .. Len(f) + 1
        PROVE  Append(f, now)[i] = b[Len(b) - (Len(f) + 1) + i]
    <3>1. CASE i = Len(f) + 1
      BY <1>2, <1>4, <1>5, <3>1
    <3>2. CASE i \in 1 .. Len(f)
      <4>1. Len(a) - Len(f) + i \in 1 .. Len(a) /\ f[i] = a[Len(a) - Len(f) + i]
        BY <1>1, <1>2, <1>3, <3>2 DEF EndOf
      <4> QED
        BY <1>2, <1>4, <1>5, <3>2, <4>1
    <3> QED
      BY <1>2, <3>1, <3>2
  <2>2. ASSUME NEW i \in 1 .. Len(b) - (Len(f) + 1) PROVE b[i] <= now - Window
    <3>1. i \in 1 .. Len(a) - Len(f) /\ i \in 1 .. Len(a)
      BY <1>1, <1>2, <1>5
    <3> QED
      BY <1>3, <1>5, <3>1 DEF EndOf
  <2> QED
    BY <1>1, <1>2, <1>3, <1>4, <1>5, <2>1, <2>2 DEF EndOf
<1>8. PICK d \in 0 .. 1 :
        /\ c \in Seq(Times) /\ Len(c) = Len(b) - d /\ Len(c) <= Limit + 1
        /\ \A i \in 1 .. Len(c) : c[i] = b[i + d]
        /\ d = 1 => Len(b) > Limit + 1
  <2>1. CASE Len(b) > Limit + 1
    <3>1. c = Tail(b) /\ Len(c) = Len(b) - 1 /\ c \in Seq(Times)
      BY <1>5, <2>1 DEF Latest
    <3>2. \A i \in 1 .. Len(c) : c[i] = b[i + 1]
      BY <1>5, <3>1
    <3> QED
      BY <1>1, <1>5, <2>1, <3>1, <3>2
  <2>2. CASE ~(Len(b) > Limit + 1)
    BY <1>5, <2>2 DEF Latest
  <2> QED
    BY <2>1, <2>2
<1> HIDE DEF c
<1>9. Ordered(c, now)
  BY <1>5, <1>6, <1>8 DEF Ordered
<1>10. EndOf(Append(f, now), c, now)
  <2>1. Len(f) + 1 <= Len(c)
    BY <1>1, <1>2, <1>3, <1>5, <1>8 DEF EndOf
  <2>2. ASSUME NEW i \in 1 .. Len(f) + 1
        PROVE  Append(f, now)[i] = c[Len(c) - (Len(f) + 1) + i]
    <3>1. /\ Len(c) - (Len(f) + 1) + i \in 1 .. Len(c)
          /\ Len(c) - (Len(f) + 1) + i + d = Len(b) - (Len(f) + 1) + i
      BY <1>2, <1>5, <1>8, <2>1
    <3> QED
      BY <1>4, <1>7, <1>8, <3>1 DEF EndOf
  <2>3. ASSUME NEW i \in 1 .. Len(c) - (Len(f) + 1) PROVE c[i] <= now - Window
    <3>1. i \in 1 .. Len(c) /\ i + d \in 1 .. Len(b) - (Len(f) + 1)
      BY <1>2, <1>5, <1>8, <2>1
    <3> QED
      BY <1>4, <1>7, <1>8, <3>1 DEF EndOf
  <2> QED
    BY <1>4, <2>1, <2>2, <2>3 DEF EndOf
<1>11. Spaced(c)
  <2> SUFFICES ASSUME Len(c) > Limit PROVE c[Len(c)] - c[1] >= Window
    BY DEF Spaced
  <2>1. Len(c) = Limit + 1 /\ c[Len(c)] = now
    BY <1>5, <1>8
  <2>2. 1 \in 1 .. Len(c) - Len(Append(f, now))
    BY <1>2, <1>4, <2>1
  <2>3. c[1] <= now - Window /\ c[1] \in Times
    BY <1>8, <1>10, <2>1, <2>2 DEF EndOf
  <2> QED
    BY <2>1, <2>3 DEF Times
<1> QED
  BY <1>2, <1>4, <1>8, <1>9, <1>10, <1>11 DEF KeyInv, ToldEnough, f, b, c

-----------------------------------------------------------------------------
(* A request that is refused, a sweep, and time.                           *)

\* The pause reaches beyond the moment at which the oldest time stamp leaves
\* the window.
LEMMA PauseReaches ==
    ASSUME now \in Nat, NEW oldest \in Nat
    PROVE  /\ RetryAfter(oldest) \in Nat
           /\ oldest + Window <= now + RetryAfter(oldest) * Second
<1> DEFINE left == oldest + Window - now
           whole == left \div Second
<1>1. left \in Int /\ Second \in Nat /\ Second > 0
  BY TimeAssumption
<1>2. whole \in Int /\ left < (whole + 1) * Second
  <2> HIDE DEF left
  <2> QED
    BY <1>1
<1>3. RetryAfter(oldest) = IF whole + 1 > 1 THEN whole + 1 ELSE 1
  BY DEF RetryAfter
<1> HIDE DEF whole
<1>4. RetryAfter(oldest) \in Nat /\ RetryAfter(oldest) >= whole + 1
  BY <1>2, <1>3
<1>5. left <= RetryAfter(oldest) * Second
  <2>1. PICK e \in Nat : RetryAfter(oldest) = whole + 1 + e
    <3> HIDE DEF left
    <3>1. RetryAfter(oldest) - (whole + 1) \in Nat
      BY <1>2, <1>4
    <3>2. RetryAfter(oldest) = whole + 1 + (RetryAfter(oldest) - (whole + 1))
      BY <1>2, <1>4
    <3> QED
      BY <3>1, <3>2, Zenon
  <2>2. RetryAfter(oldest) * Second = (whole + 1) * Second + e * Second
    BY <1>1, <1>2, <2>1
  <2>3. e * Second \in Nat /\ (whole + 1) * Second \in Int
    BY <1>1, <1>2
  <2> HIDE DEF left
  <2> QED
    BY <1>1, <1>2, <2>2, <2>3
<1>6. RetryAfter(oldest) * Second \in Nat
  BY <1>1, <1>4
<1> QED
  BY <1>1, <1>4, <1>5, <1>6, TimeAssumption

\* A refused request leaves the deque as it is, and the announced pause is enough.
LEMMA RefuseKeepsKey ==
    ASSUME now \in Times, NEW h, NEW a, NEW t, KeyInv(h, a, t, now), Full(Fresh(h))
    PROVE  /\ KeyInv(Fresh(h), a, now + RetryAfter(Fresh(h)[1]) * Second, now)
           /\ Fresh(h) # <<>> /\ h # <<>>
           /\ Last(Fresh(h)) = Last(h)
<1> USE LimitAssumption, TimeAssumption
<1> DEFINE f == Fresh(h)
<1>1. /\ h \in Seq(Times) /\ a \in Seq(Times) /\ Len(a) <= Limit + 1 /\ Len(h) <= Limit
      /\ Ordered(a, now) /\ EndOf(h, a, now) /\ Spaced(a)
  BY DEF KeyInv
<1>2. /\ f \in Seq(Times) /\ Len(f) <= Len(h) /\ Len(f) >= Limit
      /\ \A i \in 1 .. Len(f) : f[i] = h[Len(h) - Len(f) + i]
  BY <1>1, FreshEnd DEF Full
<1> HIDE DEF f
<1>3. Len(f) = Limit /\ Len(h) = Limit
  BY <1>1, <1>2
<1>4. \A i \in 1 .. Limit : f[i] = h[i]
  BY <1>1, <1>2, <1>3
<1>5. f = h
  BY <1>1, <1>2, <1>3, <1>4
<1>6. h[1] = a[Len(a) - Limit + 1] /\ Len(a) >= Limit /\ h[1] \in Nat
  BY <1>1, <1>3 DEF EndOf, Times
<1>7. /\ RetryAfter(h[1]) * Second \in Nat
      /\ h[1] + Window <= now + RetryAfter(h[1]) * Second
  <2>1. now \in Nat
    BY DEF Times
  <2>2. /\ RetryAfter(h[1]) \in Nat
        /\ h[1] + Window <= now + RetryAfter(h[1]) * Second
    BY <1>6, <2>1, PauseReaches, Zenon
  <2> QED
    BY <2>2
<1>8. KeyInv(h, a, now + RetryAfter(h[1]) * Second, now)
  <2> DEFINE u == now + RetryAfter(h[1]) * Second
  <2>1. u \in Nat /\ h[1] + Window <= u
    BY <1>7 DEF Times
  <2> HIDE DEF u
  <2>2. ToldEnough(a, u)
    BY <1>6, <2>1 DEF ToldEnough
  <2>3. KeyInv(h, a, u, now)
    BY <1>1, <2>1, <2>2, Zenon DEF KeyInv
  <2> QED
    BY <2>3 DEF u
<1> QED
  BY <1>1, <1>3, <1>5, <1>8 DEF f

\* A key that is swept, or that nobody uses while time passes.
LEMMA SweepKeepsKey ==
    ASSUME now \in Times, NEW h, NEW a, NEW t, KeyInv(h, a, t, now),
           h # <<>>, Old(Last(h))
    PROVE  KeyInv(<<>>, a, t, now)
<1> USE LimitAssumption, TimeAssumption
<1>1. /\ h \in Seq(Times) /\ a \in Seq(Times)
      /\ Ordered(a, now) /\ EndOf(h, a, now)
  BY DEF KeyInv
<1>2. Len(h) > 0 /\ h[Len(h)] = a[Len(a)] /\ Len(a) >= Len(h)
  BY <1>1 DEF EndOf
<1>3. a[Len(a)] <= now - Window
  BY <1>2 DEF Old, Last
<1>4. ASSUME NEW i \in 1 .. Len(a) PROVE a[i] <= now - Window
  <2>1. a[i] <= a[Len(a)] /\ a[i] \in Times /\ a[Len(a)] \in Times
    BY <1>1, <1>2 DEF Ordered
  <2> QED
    BY <1>3, <2>1 DEF Times
<1>5. EndOf(<<>>, a, now)
  BY <1>1, <1>4 DEF EndOf
<1> QED
  BY <1>5 DEF KeyInv

\* What holds of a key still holds when time has passed.
LEMMA TimeKeepsKey ==
    ASSUME now \in Times, NEW h, NEW a, NEW t, KeyInv(h, a, t, now)
    PROVE  KeyInv(h, a, t, now + 1)
<1> USE TimeAssumption
<1>1. h \in Seq(Times) /\ a \in Seq(Times) /\ Ordered(a, now) /\ EndOf(h, a, now)
  BY DEF KeyInv
<1>2. Ordered(a, now + 1)
  BY <1>1 DEF Ordered, Times
<1>3. ASSUME NEW later, later = now + 1 PROVE EndOf(h, a, later)
  <2>1. ASSUME NEW i \in 1 .. Len(a) - Len(h) PROVE a[i] <= later - Window
    <3>1. i \in 1 .. Len(a)
      BY <1>1
    <3>2. a[i] <= now - Window /\ a[i] \in Times
      BY <1>1, <3>1 DEF EndOf
    <3> QED
      BY <1>3, <3>2 DEF Times
  <2>2. /\ Len(h) <= Len(a)
        /\ \A i \in 1 .. Len(h) : h[i] = a[Len(a) - Len(h) + i]
    BY <1>1, Zenon DEF EndOf
  <2> QED
    BY <2>1, <2>2 DEF EndOf
<1> QED
  BY <1>2, <1>3 DEF KeyInv

-----------------------------------------------------------------------------
(* Every action keeps the invariant.                                       *)

\* The last elements of the sequences of a known key are times.
LEMMA LastInTime ==
    ASSUME NEW h, NEW a, NEW t, NEW time, KeyInv(h, a, t, time)
    PROVE  /\ h # <<>> => Last(h) \in Times
           /\ a # <<>> => Last(a) \in Times /\ Last(a) <= time
<1>1. h \in Seq(Times) /\ a \in Seq(Times) /\ Ordered(a, time)
  BY DEF KeyInv
<1>2. h # <<>> => Len(h) \in 1 .. Len(h)
  BY <1>1
<1>3. a # <<>> => Len(a) \in 1 .. Len(a)
  BY <1>1
<1> QED
  BY <1>1, <1>2, <1>3 DEF Last, Ordered

\* A request that is let in, with or without a sweep, keeps the invariant.
LEMMA AdmitKeepsInvariant ==
    ASSUME IndInv, NEW k \in Keys, Admit(k)
    PROVE  IndInv'
<1> USE TimeAssumption
<1> DEFINE h == [hits EXCEPT ![k] = Append(Fresh(hits[k]), now)]
<1>1. /\ now' = now /\ now \in Times /\ lastSweep \in 0 .. now
      /\ ~Full(Fresh(hits[k]))
      /\ hits = [q \in Keys |-> hits[q]]
      /\ admitted = [q \in Keys |-> admitted[q]]
      /\ told = [q \in Keys |-> told[q]]
      /\ \A q \in Keys : KeyInv(hits[q], admitted[q], told[q], now)
      /\ SweptRecently
  BY DEF IndInv, Admit
<1>2. /\ admitted' = [admitted EXCEPT ![k] = Latest(Append(@, now))]
      /\ told' = [told EXCEPT ![k] = 0]
      /\ IF SweepDue(h) THEN hits' = Sweep(h) /\ lastSweep' = now
                        ELSE hits' = h /\ lastSweep' = lastSweep
  BY DEF Admit
<1>3. /\ h = [q \in Keys |-> h[q]]
      /\ admitted' = [q \in Keys |-> admitted'[q]]
      /\ told' = [q \in Keys |-> told'[q]]
  BY <1>1, <1>2
<1>4. ASSUME NEW q \in Keys
      PROVE  KeyInv(h[q], admitted'[q], told'[q], now)
  <2>1. CASE q = k
    <3>1. /\ h[q] = Append(Fresh(hits[k]), now)
          /\ admitted'[q] = Latest(Append(admitted[k], now))
          /\ told'[q] = 0
      BY <1>1, <1>2, <2>1
    <3> QED
      BY <1>1, <2>1, <3>1, AdmitKeepsKey
  <2>2. CASE q # k
    <3>1. h[q] = hits[q] /\ admitted'[q] = admitted[q] /\ told'[q] = told[q]
      BY <1>1, <1>2, <2>2
    <3> QED
      BY <1>1, <3>1
  <2> QED
    BY <2>1, <2>2
<1>5. Last(h[k]) = now
  <2>1. Fresh(hits[k]) \in Seq(Times) /\ h[k] = Append(Fresh(hits[k]), now)
    BY <1>1, FreshEnd DEF KeyInv
  <2> QED
    BY <1>1, <2>1 DEF Last
<1> HIDE DEF h
<1>6. ASSUME NEW q \in Keys, admitted'[q] # <<>>
      PROVE  Last(admitted'[q]) \in Times /\ Last(admitted'[q]) <= now
  BY <1>4, <1>6, LastInTime
<1>7. CASE SweepDue(h)
  <2>1. hits' = Sweep(h) /\ lastSweep' = now
    BY <1>2, <1>7
  <2>2. hits' = [q \in Keys |-> hits'[q]]
    BY <2>1 DEF Sweep
  <2>3. ASSUME NEW q \in Keys
        PROVE  /\ KeyInv(hits'[q], admitted'[q], told'[q], now)
               /\ hits'[q] # <<>> => Last(hits'[q]) \in Times /\ Last(hits'[q]) > now - Window
    <3>1. CASE h[q] # <<>> /\ Old(Last(h[q]))
      <4>1. hits'[q] = <<>>
        BY <2>1, <3>1 DEF Sweep
      <4> QED
        BY <1>1, <1>4, <3>1, <4>1, SweepKeepsKey
    <3>2. CASE ~(h[q] # <<>> /\ Old(Last(h[q])))
      <4>1. hits'[q] = h[q]
        BY <2>1, <3>2 DEF Sweep
      <4>2. hits'[q] # <<>> => Last(h[q]) \in Times /\ ~Old(Last(h[q]))
        BY <1>4, <3>2, <4>1, LastInTime
      <4> QED
        BY <1>1, <1>4, <4>1, <4>2 DEF Old, Times
    <3> QED
      BY <3>1, <3>2
  <2>4. SweptRecently'
    BY <1>1, <1>6, <2>1, <2>3 DEF SweptRecently, Known, Times
  <2>5. SweptWhenFull'
    BY <1>1, <1>6, <2>3 DEF SweptWhenFull, Known, Times
  <2> QED
    BY <1>1, <1>3, <2>1, <2>2, <2>3, <2>4, <2>5 DEF IndInv, Times
<1>8. CASE ~SweepDue(h)
  <2>1. hits' = h /\ lastSweep' = lastSweep
    BY <1>2, <1>8
  <2>2. ~(now - lastSweep > Window) /\ ~(Cardinality(Known(h)) > SweepKeys)
    BY <1>8 DEF SweepDue
  <2>3. ASSUME NEW q \in Known(hits') PROVE Last(hits'[q]) > lastSweep - Window
    <3>1. CASE q = k
      BY <1>1, <1>5, <2>1, <3>1 DEF Times
    <3>2. CASE q # k
      <4>1. h[q] = hits[q] /\ q \in Known(hits)
        BY <1>1, <2>1, <2>3, <3>2 DEF h, Known
      <4> QED
        BY <1>1, <2>1, <4>1 DEF SweptRecently
    <3> QED
      BY <3>1, <3>2
  <2>4. ASSUME NEW q \in Known(admitted') PROVE Last(admitted'[q]) <= lastSweep + Window
    BY <1>1, <1>6, <2>2, <2>4 DEF Known, Times
  <2>5. SweptRecently'
    BY <2>1, <2>3, <2>4 DEF SweptRecently
  <2>6. SweptWhenFull'
    BY <2>1, <2>2 DEF SweptWhenFull, Known
  <2> QED
    BY <1>1, <1>3, <1>4, <2>1, <2>5, <2>6 DEF IndInv
<1> QED
  BY <1>7, <1>8

\* A refused request keeps the invariant.
LEMMA RefuseKeepsInvariant ==
    ASSUME IndInv, NEW k \in Keys, Refuse(k)
    PROVE  IndInv'
<1> DEFINE f == Fresh(hits[k])
           until == now + RetryAfter(f[1]) * Second
<1>1. /\ now \in Times
      /\ hits = [q \in Keys |-> hits[q]]
      /\ admitted = [q \in Keys |-> admitted[q]]
      /\ told = [q \in Keys |-> told[q]]
      /\ \A q \in Keys : KeyInv(hits[q], admitted[q], told[q], now)
  BY DEF IndInv
<1>2. /\ Full(f)
      /\ hits' = [hits EXCEPT ![k] = f]
      /\ told' = [told EXCEPT ![k] = until]
      /\ UNCHANGED <<now, lastSweep, admitted>>
  BY DEF Refuse
<1>3. /\ KeyInv(f, admitted[k], until, now)
      /\ f # <<>> /\ hits[k] # <<>>
      /\ Last(f) = Last(hits[k])
  BY <1>1, <1>2, RefuseKeepsKey
<1> HIDE DEF f, until
<1>4. hits' = [q \in Keys |-> hits'[q]] /\ told' = [q \in Keys |-> told'[q]]
  BY <1>1, <1>2
<1>5. ASSUME NEW q \in Keys
      PROVE  /\ KeyInv(hits'[q], admitted'[q], told'[q], now')
             /\ hits'[q] # <<>> <=> hits[q] # <<>>
             /\ hits[q] # <<>> => Last(hits'[q]) = Last(hits[q])
  <2>1. CASE q = k
    <3>1. hits'[q] = f /\ told'[q] = until
      BY <1>1, <1>2, <2>1
    <3> QED
      BY <1>2, <1>3, <2>1, <3>1
  <2>2. CASE q # k
    <3>1. hits'[q] = hits[q] /\ told'[q] = told[q]
      BY <1>1, <1>2, <2>2
    <3> QED
      BY <1>1, <1>2, <3>1
  <2> QED
    BY <2>1, <2>2
<1>6. Known(hits') = Known(hits) /\ Known(admitted') = Known(admitted)
  BY <1>2, <1>5 DEF Known
<1>7. SweptRecently'
  BY <1>2, <1>5, <1>6 DEF SweptRecently, IndInv, Known
<1>8. SweptWhenFull'
  BY <1>2, <1>5, <1>6 DEF SweptWhenFull, IndInv, Known
<1> QED
  BY <1>1, <1>2, <1>4, <1>5, <1>7, <1>8 DEF IndInv

\* Every step keeps the invariant.
LEMMA NextKeepsInvariant == IndInv /\ [Next]_vars => IndInv'
<1> SUFFICES ASSUME IndInv, [Next]_vars PROVE IndInv'
  OBVIOUS
<1>1. ASSUME NEW k \in Keys, Admit(k) \/ Refuse(k) PROVE IndInv'
  BY <1>1, AdmitKeepsInvariant, RefuseKeepsInvariant
<1>2. CASE Tick
  <2>1. /\ now \in Times /\ now + 1 \in Times /\ lastSweep \in 0 .. now
        /\ now' = now + 1 /\ UNCHANGED <<hits, lastSweep, admitted, told>>
    BY <1>2, TimeAssumption DEF Tick, IndInv, Times
  <2>2. ASSUME NEW k \in Keys PROVE KeyInv(hits[k], admitted[k], told[k], now + 1)
    BY <2>1, TimeKeepsKey DEF IndInv
  <2>3. lastSweep' \in 0 .. now'
    BY <2>1 DEF Times
  <2> QED
    BY <2>1, <2>2, <2>3 DEF IndInv, SweptRecently, SweptWhenFull, Known
<1>3. CASE UNCHANGED vars
  BY <1>3 DEF vars, IndInv, SweptRecently, SweptWhenFull, Known
<1> QED
  BY <1>1, <1>2, <1>3 DEF Next

\* The invariant holds when the limiter is created.
LEMMA InitEstablishesInvariant == Init => IndInv
<1> SUFFICES ASSUME Init PROVE IndInv
  OBVIOUS
<1> USE TimeAssumption, LimitAssumption
<1>1. KeyInv(<<>>, <<>>, 0, 0)
  BY DEF KeyInv, Ordered, EndOf, ToldEnough, Spaced
<1>2. Known(hits) = {} /\ Known(admitted) = {}
  BY DEF Init, Known
<1> QED
  BY <1>1, <1>2 DEF Init, IndInv, SweptRecently, SweptWhenFull, Times

\* The invariant holds in every reachable state.
LEMMA Inductive == Spec => []IndInv
  BY InitEstablishesInvariant, NextKeepsInvariant, PTL DEF Spec

-----------------------------------------------------------------------------
(* The theorems.                                                           *)

\* The state has its type: no deque outgrows the limit.
THEOREM TypeCorrect == Spec => []TypeOK
<1>1. IndInv => TypeOK
  <2> SUFFICES ASSUME IndInv PROVE TypeOK
    OBVIOUS
  <2>1. \A k \in Keys : /\ hits[k] \in Seq(Times) /\ Len(hits[k]) <= Limit
                        /\ admitted[k] \in Seq(Times)
                        /\ told[k] \in Nat
    BY DEF IndInv, KeyInv
  <2>2. hits \in [Keys -> Seq(Times)] /\ admitted \in [Keys -> Seq(Times)] /\ told \in [Keys -> Nat]
    BY <2>1 DEF IndInv
  <2>3. now \in Times /\ lastSweep \in Times
    BY TimeAssumption DEF IndInv, Times
  <2> QED
    BY <2>1, <2>2, <2>3 DEF TypeOK, Times
<1> QED
  BY <1>1, Inductive, PTL

\* In no window, wherever it is laid, are more than Limit requests of one
\* client let in, whatever sweeps do to the dictionary meanwhile.
THEOREM WindowStaysBounded == Spec => []WindowBounded
<1>1. IndInv => WindowBounded
  BY DEF IndInv, KeyInv, Spaced, WindowBounded, Last
<1> QED
  BY <1>1, Inductive, PTL

\* A refused client that waits as Retry-After tells it is let in.
THEOREM RetryAlwaysEnough == Spec => []RetryIsEnough
<1>1. IndInv => RetryIsEnough
  <2> SUFFICES ASSUME IndInv, NEW k \in Keys, told[k] > 0, told[k] <= now,
                      Full(Fresh(hits[k]))
               PROVE  FALSE
    BY DEF RetryIsEnough
  <2> USE LimitAssumption, TimeAssumption
  <2> DEFINE f == Fresh(hits[k])
             a == admitted[k]
             i == Len(a) - Limit + 1
  <2>1. /\ now \in Times /\ a \in Seq(Times) /\ told[k] \in Nat
        /\ hits[k] \in Seq(Times) /\ Len(hits[k]) <= Limit
        /\ Ordered(a, now) /\ EndOf(hits[k], a, now) /\ ToldEnough(a, told[k])
    BY DEF IndInv, KeyInv
  <2>2. /\ Len(f) <= Len(hits[k]) /\ f \in Seq(Times) /\ Len(f) >= Limit
        /\ \A j \in 1 .. Len(f) : f[j] = hits[k][Len(hits[k]) - Len(f) + j]
        /\ Len(f) > 0 => f[1] > now - Window
    BY <2>1, FreshEnd DEF Full
  <2> HIDE DEF f
  <2>3. Len(f) = Limit /\ Len(hits[k]) = Limit /\ f[1] = hits[k][1]
    BY <2>1, <2>2
  <2>4. hits[k][1] = a[i] /\ a[i] \in Times
    BY <2>1, <2>3 DEF EndOf
  <2>5. a[i] + Window <= told[k]
    BY <2>1 DEF ToldEnough
  <2>6. f[1] > now - Window
    BY <2>2, <2>3
  <2>7. a[i] \in Int /\ now \in Int /\ told[k] \in Int /\ Window \in Int
    <3>1. now \in Times /\ told[k] \in Nat
      BY <2>1
    <3> HIDE DEF a, i
    <3> QED
      BY <3>1, <2>4 DEF Times
  <2>8. f[1] = a[i]
    BY <2>3, <2>4
  <2> HIDE DEF a, i
  <2> QED
    BY <2>5, <2>6, <2>7, <2>8
<1> QED
  BY <1>1, Inductive, PTL

\* The dictionary does not keep idle clients for ever.
THEOREM IdleAlwaysForgotten == Spec => []ForgetsIdle
<1>1. IndInv => ForgetsIdle
  <2> SUFFICES ASSUME IndInv, NEW k \in Known(hits), NEW q \in Known(admitted)
               PROVE  /\ Last(hits[k]) + 2 * Window > Last(admitted[q])
                      /\ Cardinality(Known(hits)) > SweepKeys =>
                             Last(hits[k]) + Window > Last(admitted[q])
    BY DEF ForgetsIdle
  <2>1. Last(hits[k]) \in Times /\ Last(admitted[q]) \in Times /\ lastSweep \in Int
    BY LastInTime DEF IndInv, Known
  <2>2. Last(hits[k]) > lastSweep - Window /\ Last(admitted[q]) <= lastSweep + Window
    BY DEF IndInv, SweptRecently
  <2>3. Last(hits[k]) + 2 * Window > Last(admitted[q])
    BY <2>1, <2>2, TimeAssumption DEF Times
  <2> QED
    BY <2>3 DEF IndInv, SweptWhenFull
<1> QED
  BY <1>1, Inductive, PTL

-----------------------------------------------------------------------------
(* The public search.                                                      *)

\* The rows others can see.
Seen == {r \in Rows : there[r] = "yes"}

\* The rows of the list that come before a row of it in any order of a page.
Newer(r) == {q \in Found(visit.filter) : created[q] > created[r]}

\* The rows before a page, if the list is long enough.
Before(page) == (page - 1) * PageSize

VisitType ==
    [pc : {"none", "find", "count", "shown", "done"},
     filter : Filters \cup {Nothing},
     page : Nat \ {0},
     items : SUBSET Rows,
     total : Nat]

SearchTypeOK ==
    /\ kind \in Kinds
    /\ clock \in Nat
    /\ there \in [Rows -> {"no", "open", "yes"}]
    /\ created \in [Rows -> Nat]
    /\ usd \in [Rows -> SUBSET Nat]
    /\ visit \in VisitType
    /\ owed \in SUBSET Rows
    /\ grew \in BOOLEAN

\* A value is filled in once, and only what is in the list is owed.
ListInv ==
    /\ IsFiniteSet(Seen)
    /\ \A r \in Rows : usd[r] = {} \/ usd[r] = Worth[r]
    /\ owed \subseteq Found(visit.filter)
    /\ visit.pc = "none" => owed = {}

\* A row that is owed, and alone at its time, lies behind every page that has
\* been shown, and not before the one that is being read.
Ahead(r) ==
    CASE visit.pc = "find" -> Cardinality(Newer(r)) >= Before(visit.page)
      [] visit.pc = "shown" -> /\ Cardinality(Newer(r)) >= Before(visit.page + 1)
                               /\ visit.total > Before(visit.page + 1)
      [] OTHER -> FALSE

WalkInv == \A r \in owed : ~Tied(r) => Ahead(r)

\* A page without rows lies beyond the list, as it was when it was read.
EmptyInv ==
    /\ visit.pc \in {"find", "count"} => visit.items = {}
    /\ visit.pc = "count" /\ ~grew =>
         Cardinality(Found(visit.filter)) <= Before(visit.page)
    /\ Answered /\ visit.items = {} /\ ~grew => visit.total <= Before(visit.page)

SearchInv ==
    /\ SearchTypeOK
    /\ ListInv
    /\ WalkInv
    /\ EmptyInv

-----------------------------------------------------------------------------
(* Pages.                                                                  *)

\* The offset of a page is that of the one before it and a page.
LEMMA Offsets ==
    ASSUME NEW page \in Nat \ {0}
    PROVE  /\ Before(page) \in Nat /\ Before(page + 1) \in Nat
           /\ Before(page + 1) = Before(page) + PageSize
           /\ Before(page + 1) = page * PageSize
           /\ PageSize \in Nat /\ PageSize > 0
           /\ page > 1 => Before(page - 1) \in Nat /\ Before(page - 1) < Before(page)
<1>1. PICK n \in Nat : page = n + 1
  <2>1. page - 1 \in Nat /\ page = (page - 1) + 1
    OBVIOUS
  <2> QED
    BY <2>1, Zenon
<1>2. PageSize \in Nat /\ PageSize > 0
  BY SearchAssumption
<1>3. Before(page) = n * PageSize /\ n * PageSize \in Nat
  BY <1>1, <1>2 DEF Before
<1>4. Before(page + 1) = (n + 1) * PageSize /\ (n + 1) * PageSize = n * PageSize + PageSize
  BY <1>1, <1>2 DEF Before
<1>5. ASSUME page > 1 PROVE Before(page - 1) \in Nat /\ Before(page - 1) < Before(page)
  <2>1. PICK m \in Nat : n = m + 1
    <3>1. n - 1 \in Nat /\ n = (n - 1) + 1
      BY <1>1, <1>5
    <3> QED
      BY <3>1, Zenon
  <2>2. Before(page - 1) = m * PageSize /\ m * PageSize \in Nat
    BY <1>1, <1>2, <2>1 DEF Before
  <2>3. n * PageSize = m * PageSize + PageSize
    BY <1>2, <2>1
  <2> QED
    BY <1>2, <1>3, <2>2, <2>3
<1> QED
  BY <1>1, <1>2, <1>3, <1>4, <1>5

\* The number of pages: as many as it takes to hold all rows, and no more.
LEMMA PagesHold ==
    ASSUME NEW total \in Nat, NEW page \in Nat \ {0}
    PROVE  /\ Pages(total) \in Nat \ {0}
           /\ total > Before(page + 1) => Pages(total) > page
           /\ total > 0 /\ total <= Before(page) => Pages(total) < page
<1>1. PageSize \in Nat /\ PageSize > 0
  BY SearchAssumption
<1>2. CASE total = 0
  <2>1. Pages(total) = 1 /\ Before(page + 1) \in Nat
    BY <1>2, Offsets DEF Pages
  <2> QED
    BY <1>2, <2>1
<1>3. CASE total > 0
  <2> DEFINE top == total + PageSize - 1
             pages == top \div PageSize
  <2>1. Pages(total) = pages
    BY <1>3 DEF Pages
  <2>2. top \in Nat /\ top >= PageSize
    BY <1>1, <1>3
  <2>3. pages \in Int /\ pages * PageSize <= top /\ top < (pages + 1) * PageSize
    <3> HIDE DEF top
    <3> QED
      BY <1>1, <2>2
  <2> HIDE DEF pages
  <2>4. (pages + 1) * PageSize = pages * PageSize + PageSize /\ pages * PageSize \in Int
    BY <1>1, <2>3
  <2>5. pages >= 1
    <3>1. SUFFICES ASSUME pages <= 0 PROVE FALSE
      BY <2>3
    <3>2. PICK d \in Nat : 0 = pages + d
      <4>1. 0 - pages \in Nat /\ 0 = pages + (0 - pages)
        BY <2>3, <3>1
      <4> QED
        BY <4>1, Zenon
    <3>3. 0 = pages * PageSize + d * PageSize /\ d * PageSize \in Nat
      BY <1>1, <2>3, <3>2
    <3> QED
      BY <1>1, <2>2, <2>3, <2>4, <3>3
  <2>6. ASSUME total > Before(page + 1), pages <= page PROVE FALSE
    <3>1. PICK d \in Nat : page = pages + d
      <4>1. page - pages \in Nat /\ page = pages + (page - pages)
        BY <2>3, <2>6
      <4> QED
        BY <4>1, Zenon
    <3>2. page * PageSize = pages * PageSize + d * PageSize /\ d * PageSize \in Nat
      BY <1>1, <2>3, <3>1
    <3>3. Before(page + 1) = page * PageSize
      BY Offsets
    <3> QED
      BY <1>1, <2>3, <2>4, <2>6, <3>2, <3>3
  <2>7. ASSUME total <= Before(page), pages >= page PROVE FALSE
    <3>1. PICK d \in Nat : pages = page + d
      <4>1. pages - page \in Nat /\ pages = page + (pages - page)
        BY <2>3, <2>7
      <4> QED
        BY <4>1, Zenon
    <3>2. pages * PageSize = page * PageSize + d * PageSize /\ d * PageSize \in Nat
      BY <1>1, <2>3, <3>1
    <3>3. page * PageSize = Before(page) + PageSize /\ Before(page) \in Nat
      BY Offsets
    <3> QED
      BY <1>1, <2>3, <2>7, <3>2, <3>3
  <2> QED
    BY <2>1, <2>3, <2>5, <2>6, <2>7
<1> QED
  BY <1>2, <1>3

\* A list is finite, and so is what is newer in it.
LEMMA ListFinite ==
    ASSUME IsFiniteSet(Seen), NEW f
    PROVE  /\ IsFiniteSet(Found(f))
           /\ Cardinality(Found(f)) \in Nat
           /\ \A S \in SUBSET Found(f) :
                IsFiniteSet(S) /\ Cardinality(S) \in Nat /\
                Cardinality(S) <= Cardinality(Found(f))
<1>1. Found(f) \in SUBSET Seen
  BY DEF Found, Seen
<1>2. IsFiniteSet(Found(f))
  BY <1>1, FS_Subset
<1>3. Cardinality(Found(f)) \in Nat
  BY <1>2, FS_CardinalityType
<1>4. ASSUME NEW S \in SUBSET Found(f)
      PROVE  IsFiniteSet(S) /\ Cardinality(S) \in Nat /\ Cardinality(S) <= Cardinality(Found(f))
  BY <1>2, FS_Subset, FS_CardinalityType
<1> QED
  BY <1>2, <1>3, <1>4

\* A page that has to hold a row, by the number of rows newer than it, and does
\* not, is a full one, all of it newer: no page after it has missed the row.
LEMMA PageMovesOn ==
    ASSUME NEW S \in SUBSET Rows, IsFiniteSet(S), created \in [Rows -> Nat],
           NEW items \in SUBSET S, NEW page \in Nat \ {0}, IsPage(items, page, S),
           NEW r \in S \ items, \A q \in S \ {r} : created[q] # created[r],
           NEW ahead, ahead = {q \in S : created[q] > created[r]},
           Cardinality(ahead) >= Before(page)
    PROVE  /\ Cardinality(ahead) >= Before(page + 1)
           /\ Cardinality(S) > Before(page + 1)
           /\ items # {}
<1>1. PICK P \in SUBSET S :
        /\ P \cap items = {}
        /\ First(P, S)
        /\ First(P \cup items, S)
        /\ Cardinality(P) = Least((page - 1) * PageSize, Cardinality(S))
        /\ Cardinality(P \cup items) = Least(page * PageSize, Cardinality(S))
  BY DEF IsPage
<1>2. /\ Before(page) \in Nat /\ Before(page + 1) \in Nat
      /\ Before(page) < Before(page + 1)
      /\ (page - 1) * PageSize = Before(page) /\ page * PageSize = Before(page + 1)
  BY Offsets DEF Before
<1>3. /\ IsFiniteSet(ahead) /\ Cardinality(ahead) \in Nat
      /\ IsFiniteSet(P) /\ Cardinality(P) \in Nat
      /\ IsFiniteSet(P \cup items) /\ Cardinality(P \cup items) \in Nat
      /\ Cardinality(S) \in Nat
  <2>1. ahead \in SUBSET S /\ (P \cup items) \in SUBSET S
    OBVIOUS
  <2> QED
    BY <2>1, FS_Subset, FS_CardinalityType
<1>4. r \notin P
  <2>1. SUFFICES ASSUME r \in P PROVE FALSE
    OBVIOUS
  <2>2. ASSUME NEW q \in ahead PROVE q \in P
    <3>1. q \in S /\ q \in Rows /\ r \in Rows /\ ~(created[r] >= created[q])
      OBVIOUS
    <3> QED
      BY <1>1, <2>1, <3>1 DEF First
  <2>3. r \notin ahead
    OBVIOUS
  <2>4. (ahead \cup {r}) \in SUBSET P
    BY <2>1, <2>2
  <2>5. Cardinality(ahead \cup {r}) = Cardinality(ahead) + 1
    BY <1>3, <2>3, FS_AddElement
  <2>6. Cardinality(ahead \cup {r}) <= Cardinality(P)
    BY <1>3, <2>4, FS_Subset
  <2> QED
    BY <1>1, <1>2, <1>3, <2>5, <2>6 DEF Least
<1>5. (P \cup items) \in SUBSET ahead
  <2>1. ASSUME NEW p \in P \cup items PROVE p \in ahead
    <3>1. p \in S \ {r} /\ p \in Rows /\ r \in Rows
      BY <1>4
    <3>2. created[p] >= created[r] /\ created[p] # created[r]
      BY <1>1, <1>4, <3>1 DEF First
    <3>3. created[p] \in Nat /\ created[r] \in Nat
      BY <3>1
    <3> QED
      BY <3>1, <3>2, <3>3
  <2> QED
    BY <2>1
<1>6. Cardinality(P \cup items) < Cardinality(S)
  <2>1. Cardinality(P \cup items) <= Cardinality(S)
    BY FS_Subset
  <2>2. Cardinality(S) = Cardinality(P \cup items) => S = P \cup items
    BY FS_Subset
  <2>3. S # P \cup items
    BY <1>4
  <2> QED
    BY <1>3, <2>1, <2>2, <2>3
<1>7. Cardinality(P \cup items) = Before(page + 1)
  BY <1>1, <1>2, <1>3, <1>6 DEF Least
<1>8. Cardinality(P \cup items) <= Cardinality(ahead)
  BY <1>3, <1>5, FS_Subset
<1>9. items # {}
  <2>1. SUFFICES ASSUME items = {} PROVE FALSE
    OBVIOUS
  <2>2. Cardinality(P \cup items) = Cardinality(P)
    <3>1. P \cup items = P
      BY <2>1
    <3> QED
      BY <3>1, Zenon
  <2>3. Cardinality(P) = Least(Before(page), Cardinality(S))
    BY <1>1, <1>2
  <2> QED
    BY <1>2, <1>3, <1>6, <1>7, <2>2, <2>3 DEF Least
<1> QED
  BY <1>2, <1>3, <1>6, <1>7, <1>8, <1>9

\* A page without rows lies behind all of them.
LEMMA EmptyPageIsBeyond ==
    ASSUME NEW S, IsFiniteSet(S), NEW page \in Nat \ {0}, IsPage({}, page, S)
    PROVE  Cardinality(S) <= Before(page)
<1>1. PICK P \in SUBSET S :
        /\ Cardinality(P) = Least((page - 1) * PageSize, Cardinality(S))
        /\ Cardinality(P \cup {}) = Least(page * PageSize, Cardinality(S))
  BY DEF IsPage
<1>2. P \cup {} = P
  OBVIOUS
<1>3. /\ Before(page) \in Nat /\ Before(page + 1) \in Nat
      /\ Before(page) < Before(page + 1)
      /\ (page - 1) * PageSize = Before(page) /\ page * PageSize = Before(page + 1)
  BY Offsets DEF Before
<1>4. Cardinality(S) \in Nat
  BY FS_CardinalityType
<1> QED
  BY <1>1, <1>2, <1>3, <1>4 DEF Least

-----------------------------------------------------------------------------
(* The visitor's steps.                                                    *)

\* The visitor's steps leave the tables alone.
LEMMA VisitorReads ==
    ASSUME UNCHANGED <<kind, there, created, usd>>, NEW f, visit'.filter = f
    PROVE  /\ Found(visit.filter)' = Found(f)
           /\ Seen' = Seen
           /\ \A r : Tied(r)' <=> Tied(r)
           /\ \A r : Newer(r)' = {q \in Found(f) : created[q] > created[r]}
<1>1. Found(visit.filter)' = Found(f)
  BY DEF Found, Matches, VacancyMatches, ResumeMatches, Pays
<1>2. \A r : Newer(r)' = {q \in Found(f) : created[q] > created[r]}
  BY <1>1 DEF Newer
<1> QED
  BY <1>1, <1>2 DEF Seen, Tied

\* A search begins: all that is found is owed.
LEMMA AskKeeps ==
    ASSUME SearchInv, NEW f \in Filters, NEW page \in 1 .. MaxPage, Ask(f, page)
    PROVE  SearchInv'
<1>1. /\ visit' = [pc |-> "find", filter |-> f, page |-> page, items |-> {}, total |-> 0]
      /\ UNCHANGED <<kind, clock, there, created, usd, grew>>
      /\ owed' = IF page = 1 THEN Found(f) ELSE {}
  BY DEF Ask
<1>2. page \in Nat \ {0} /\ visit' \in VisitType
  BY <1>1, SearchAssumption DEF VisitType
<1>3. /\ visit'.filter = f /\ visit'.pc = "find" /\ visit'.page = page
      /\ visit'.items = {}
  BY <1>1
<1>4. Found(visit.filter)' = Found(f) /\ Seen' = Seen
  BY <1>1, <1>3, VisitorReads
<1>5. SearchTypeOK'
  BY <1>1, <1>2 DEF SearchInv, SearchTypeOK, Found
<1>6. ListInv'
  BY <1>1, <1>3, <1>4 DEF SearchInv, ListInv
<1>7. ASSUME NEW r \in owed' PROVE Ahead(r)'
  <2>1. page = 1 /\ Before(page) = 0
    BY <1>1, <1>7, SearchAssumption DEF Before
  <2>2. Newer(r)' = {q \in Found(f) : created[q] > created[r]}
    BY <1>1, <1>3, VisitorReads
  <2>3. Cardinality(Newer(r)') \in Nat
    BY <2>2, ListFinite DEF SearchInv, ListInv
  <2>4. Cardinality(Newer(r)') >= Before(visit'.page)
    BY <1>3, <2>1, <2>3
  <2> QED
    BY <1>3, <2>4 DEF Ahead
<1>8. EmptyInv'
  BY <1>3 DEF EmptyInv, Answered
<1> QED
  BY <1>5, <1>6, <1>7, <1>8 DEF SearchInv, WalkInv

\* A page is read.
LEMMA FindKeeps ==
    ASSUME SearchInv, Find
    PROVE  SearchInv'
<1> DEFINE S == Found(visit.filter)
<1>1. PICK items \in SUBSET S :
        /\ IsPage(items, visit.page, S)
        /\ visit' = IF items = {} THEN [visit EXCEPT !.pc = "count"]
                    ELSE [visit EXCEPT !.pc = "shown", !.items = items,
                                       !.total = Cardinality(S)]
        /\ owed' = owed \ items
  BY DEF Find
<1>2. /\ visit.pc = "find" /\ grew' = FALSE
      /\ UNCHANGED <<kind, clock, there, created, usd>>
  BY DEF Find
<1>3. /\ visit \in VisitType /\ visit.page \in Nat \ {0} /\ visit.items = {}
      /\ S \in SUBSET Rows /\ IsFiniteSet(S) /\ Cardinality(S) \in Nat
  BY <1>2, ListFinite DEF SearchInv, SearchTypeOK, ListInv, EmptyInv, VisitType, Found
<1>4. visit'.filter = visit.filter /\ visit'.page = visit.page
  BY <1>1, <1>3 DEF VisitType
<1>5. CASE items = {}
  <2>1. visit' = [visit EXCEPT !.pc = "count"]
    BY <1>1, <1>5
  <2> QED
    <3>1. visit' \in VisitType /\ visit'.pc = "count" /\ visit'.items = {}
      BY <1>3, <2>1 DEF VisitType
    <3>2. Found(visit.filter)' = S /\ Seen' = Seen
      BY <1>2, <1>4, VisitorReads
    <3>3. SearchTypeOK' /\ ListInv'
      BY <1>1, <1>2, <3>1, <3>2 DEF SearchInv, SearchTypeOK, ListInv
    <3>4. Cardinality(S) <= Before(visit.page)
      BY <1>1, <1>3, <1>5, EmptyPageIsBeyond
    <3>5. EmptyInv'
      BY <1>4, <3>1, <3>2, <3>4 DEF EmptyInv, Answered
    <3>6. ASSUME NEW r \in owed, ~Tied(r) PROVE FALSE
      <4>1. r \in S \ items /\ Ahead(r) /\ \A q \in S \ {r} : created[q] # created[r]
        BY <1>5, <3>6 DEF SearchInv, ListInv, WalkInv, Tied, Found
      <4>2. Cardinality(Newer(r)) >= Before(visit.page)
        BY <1>2, <4>1 DEF Ahead
      <4>3. Newer(r) = {q \in S : created[q] > created[r]}
        BY DEF Newer
      <4>4. created \in [Rows -> Nat]
        BY DEF SearchInv, SearchTypeOK
      <4>5. items # {}
        BY <1>1, <1>3, <4>1, <4>2, <4>3, <4>4, PageMovesOn
      <4> QED
        BY <1>5, <4>5
    <3>7. WalkInv'
      BY <1>1, <1>2, <1>4, <3>6, VisitorReads DEF WalkInv
    <3> QED
      BY <3>3, <3>5, <3>7 DEF SearchInv
<1>6. CASE items # {}
  <2>1. visit' = [visit EXCEPT !.pc = "shown", !.items = items, !.total = Cardinality(S)]
    BY <1>1, <1>6
  <2>2. /\ visit' \in VisitType /\ visit'.pc = "shown" /\ visit'.items = items
        /\ visit'.total = Cardinality(S)
    BY <1>3, <2>1 DEF VisitType
  <2>3. Found(visit.filter)' = S /\ Seen' = Seen
    BY <1>2, <1>4, VisitorReads
  <2>4. SearchTypeOK' /\ ListInv'
    BY <1>1, <1>2, <2>2, <2>3 DEF SearchInv, SearchTypeOK, ListInv
  <2>5. EmptyInv'
    BY <1>6, <2>2 DEF EmptyInv, Answered
  <2>6. ASSUME NEW r \in owed', ~Tied(r) PROVE Ahead(r)'
    <3>1. r \in S \ items /\ Ahead(r) /\ \A q \in S \ {r} : created[q] # created[r]
      BY <1>1, <2>6 DEF SearchInv, ListInv, WalkInv, Tied, Found
    <3>2. Cardinality(Newer(r)) >= Before(visit.page)
      BY <1>2, <3>1 DEF Ahead
    <3>3. Newer(r) = {q \in S : created[q] > created[r]}
      BY DEF Newer
    <3>4. /\ Cardinality(Newer(r)) >= Before(visit.page + 1)
          /\ Cardinality(S) > Before(visit.page + 1)
      BY <1>1, <1>3, <3>1, <3>2, <3>3, PageMovesOn DEF SearchInv, SearchTypeOK
    <3>5. Newer(r)' = Newer(r)
      BY <1>2, <1>4, <3>3, VisitorReads
    <3> QED
      BY <1>4, <2>2, <3>4, <3>5 DEF Ahead
  <2>7. WalkInv'
    BY <1>2, <1>4, <2>6, VisitorReads DEF WalkInv
  <2> QED
    BY <2>4, <2>5, <2>7 DEF SearchInv
<1> QED
  BY <1>5, <1>6

\* The rows of an empty page's list are counted.
LEMMA CountKeeps ==
    ASSUME SearchInv, Count
    PROVE  SearchInv'
<1> DEFINE S == Found(visit.filter)
<1>1. /\ visit.pc = "count"
      /\ visit' = [visit EXCEPT !.pc = "shown", !.total = Cardinality(S)]
      /\ UNCHANGED <<kind, clock, there, created, usd, owed, grew>>
  BY DEF Count
<1>2. visit \in VisitType /\ Cardinality(S) \in Nat
  BY ListFinite DEF SearchInv, SearchTypeOK, ListInv
<1>3. /\ visit' \in VisitType /\ visit'.pc = "shown" /\ visit'.total = Cardinality(S)
      /\ visit'.filter = visit.filter /\ visit'.page = visit.page
      /\ visit'.items = visit.items
  BY <1>1, <1>2 DEF VisitType
<1>4. Found(visit.filter)' = S /\ Seen' = Seen
  BY <1>1, <1>3, VisitorReads
<1>5. SearchTypeOK' /\ ListInv'
  BY <1>1, <1>3, <1>4 DEF SearchInv, SearchTypeOK, ListInv
<1>6. EmptyInv'
  BY <1>1, <1>3 DEF SearchInv, EmptyInv, Answered
<1>7. ASSUME NEW r \in owed PROVE Tied(r)
  BY <1>1 DEF SearchInv, WalkInv, Ahead
<1>8. WalkInv'
  BY <1>1, <1>3, <1>7, VisitorReads DEF WalkInv
<1> QED
  BY <1>5, <1>6, <1>8 DEF SearchInv

\* The visitor turns to the page before or after.
LEMMA TurnKeeps ==
    ASSUME SearchInv, Turn
    PROVE  SearchInv'
<1>1. PICK page \in {visit.page - 1, visit.page + 1} :
        /\ 1 <= page
        /\ visit' = [visit EXCEPT !.pc = "find", !.page = page, !.items = {}, !.total = 0]
  BY DEF Turn
<1>2. visit.pc = "shown" /\ UNCHANGED <<kind, clock, there, created, usd, owed, grew>>
  BY DEF Turn
<1>3. visit \in VisitType /\ visit.page \in Nat \ {0} /\ page \in Nat \ {0}
  BY <1>1 DEF SearchInv, SearchTypeOK, VisitType
<1>4. /\ visit' \in VisitType /\ visit'.pc = "find" /\ visit'.items = {}
      /\ visit'.filter = visit.filter /\ visit'.page = page
  BY <1>1, <1>3 DEF VisitType
<1>5. Found(visit.filter)' = Found(visit.filter) /\ Seen' = Seen
  BY <1>2, <1>4, VisitorReads
<1>6. SearchTypeOK' /\ ListInv'
  BY <1>2, <1>4, <1>5 DEF SearchInv, SearchTypeOK, ListInv
<1>7. EmptyInv'
  BY <1>4 DEF EmptyInv, Answered
<1>8. Before(page) \in Nat /\ Before(page) <= Before(visit.page + 1)
  <2>1. CASE page = visit.page + 1
    BY <1>3, <2>1, Offsets
  <2>2. CASE page = visit.page - 1
    <3>1. visit.page > 1
      BY <1>1, <1>3, <2>2
    <3>2. Before(visit.page - 1) < Before(visit.page) /\ Before(visit.page - 1) \in Nat
      BY <1>3, <3>1, Offsets
    <3>3. Before(visit.page + 1) = Before(visit.page) + PageSize /\ Before(visit.page) \in Nat
          /\ PageSize \in Nat
      BY <1>3, Offsets
    <3> QED
      BY <2>2, <3>2, <3>3
  <2> QED
    BY <1>1, <2>1, <2>2
<1>9. ASSUME NEW r \in owed, ~Tied(r) PROVE Ahead(r)'
  <2>1. Cardinality(Newer(r)) >= Before(visit.page + 1)
    BY <1>2, <1>9 DEF SearchInv, WalkInv, Ahead
  <2>2. Newer(r)' = Newer(r)
    BY <1>2, <1>4, VisitorReads DEF Newer
  <2>3. Cardinality(Newer(r)) \in Nat /\ Before(visit.page + 1) \in Nat
    <3>1. Newer(r) \in SUBSET Found(visit.filter)
      BY DEF Newer
    <3>2. Cardinality(Newer(r)) \in Nat
      BY <3>1, ListFinite DEF SearchInv, ListInv
    <3>3. Before(visit.page + 1) \in Nat
      BY <1>3, Offsets
    <3> QED
      BY <3>2, <3>3
  <2> QED
    BY <1>4, <1>8, <2>1, <2>2, <2>3 DEF Ahead
<1>10. WalkInv'
  BY <1>2, <1>4, <1>9, VisitorReads DEF WalkInv
<1> QED
  BY <1>6, <1>7, <1>10 DEF SearchInv

\* The visitor has come to the last page: nothing is owed that stands alone.
LEMMA LeaveKeeps ==
    ASSUME SearchInv, Leave
    PROVE  SearchInv'
<1>1. /\ visit.pc = "shown" /\ visit.page >= Pages(visit.total)
      /\ visit' = [visit EXCEPT !.pc = "done"]
      /\ UNCHANGED <<kind, clock, there, created, usd, owed, grew>>
  BY DEF Leave
<1>2. visit \in VisitType /\ visit.page \in Nat \ {0} /\ visit.total \in Nat
  BY DEF SearchInv, SearchTypeOK, VisitType
<1>3. /\ visit' \in VisitType /\ visit'.pc = "done" /\ visit'.total = visit.total
      /\ visit'.filter = visit.filter /\ visit'.page = visit.page
      /\ visit'.items = visit.items
  BY <1>1, <1>2 DEF VisitType
<1>4. Found(visit.filter)' = Found(visit.filter) /\ Seen' = Seen
  BY <1>1, <1>3, VisitorReads
<1>5. SearchTypeOK' /\ ListInv'
  BY <1>1, <1>3, <1>4 DEF SearchInv, SearchTypeOK, ListInv
<1>6. EmptyInv'
  BY <1>1, <1>3 DEF SearchInv, EmptyInv, Answered
<1>7. ASSUME NEW r \in owed, ~Tied(r) PROVE FALSE
  <2>1. visit.total > Before(visit.page + 1)
    BY <1>1, <1>7 DEF SearchInv, WalkInv, Ahead
  <2>2. Pages(visit.total) > visit.page /\ Pages(visit.total) \in Nat
    BY <1>2, <2>1, PagesHold
  <2> QED
    BY <1>1, <1>2, <2>2
<1>8. WalkInv'
  BY <1>1, <1>3, <1>7, VisitorReads DEF WalkInv
<1> QED
  BY <1>5, <1>6, <1>8 DEF SearchInv

-----------------------------------------------------------------------------
(* The pipeline's steps.                                                   *)

\* The list may only grow under the visitor, and its rows keep their places.
LEMMA GrowthKeeps ==
    ASSUME SearchInv, SearchTypeOK', IsFiniteSet(Seen'),
           \A r \in Rows : usd'[r] = {} \/ usd'[r] = Worth[r],
           Seen \subseteq Seen', \A r \in Seen : created'[r] = created[r],
           Found(visit.filter) \subseteq Found(visit.filter)',
           UNCHANGED <<visit, owed>>,
           grew' = (grew \/ Found(visit.filter)' # Found(visit.filter))
    PROVE  SearchInv'
<1>1. ListInv'
  BY DEF SearchInv, ListInv
<1>2. EmptyInv'
  <2>1. CASE grew'
    BY <2>1 DEF SearchInv, EmptyInv, Answered
  <2>2. CASE ~grew'
    <3>1. ~grew /\ Found(visit.filter)' = Found(visit.filter)
      BY <2>2
    <3> QED
      BY <3>1 DEF SearchInv, EmptyInv, Answered
  <2> QED
    BY <2>1, <2>2
<1>3. ASSUME NEW r \in owed, ~Tied(r)' PROVE Ahead(r)'
  <2>1. r \in Found(visit.filter) /\ r \in Seen
    BY DEF SearchInv, ListInv, Found, Seen
  <2>2. ~Tied(r)
    BY <1>3, <2>1 DEF Tied, Seen
  <2>3. Newer(r) \in SUBSET Newer(r)'
    <3>1. ASSUME NEW q \in Newer(r) PROVE q \in Newer(r)'
      <4>1. q \in Found(visit.filter)' /\ q \in Seen /\ created[q] > created[r]
        BY DEF Newer, Found, Seen
      <4>2. created'[q] > created'[r]
        BY <2>1, <4>1
      <4> QED
        BY <4>1, <4>2 DEF Newer
    <3> QED
      BY <3>1
  <2>4. IsFiniteSet(Newer(r)')
    <3>1. Newer(r)' \in SUBSET Seen'
      BY DEF Newer, Found, Seen
    <3> QED
      BY <3>1, FS_Subset
  <2>5. /\ Cardinality(Newer(r)) <= Cardinality(Newer(r)')
        /\ Cardinality(Newer(r)) \in Nat /\ Cardinality(Newer(r)') \in Nat
    BY <2>3, <2>4, FS_Subset, FS_CardinalityType
  <2>6. Before(visit.page) \in Nat /\ Before(visit.page + 1) \in Nat
    <3>1. visit.page \in Nat \ {0}
      BY DEF SearchInv, SearchTypeOK, VisitType
    <3> QED
      BY <3>1, Offsets
  <2>7. Ahead(r)
    BY <2>2 DEF SearchInv, WalkInv
  <2> QED
    BY <2>5, <2>6, <2>7 DEF Ahead
<1> QED
  BY <1>1, <1>2, <1>3 DEF SearchInv, WalkInv

\* A transaction gives a row the time it began.
LEMMA BeginKeeps ==
    ASSUME SearchInv, NEW r \in Rows, Begin(r)
    PROVE  SearchInv'
<1>1. /\ there[r] = "no" /\ there' = [there EXCEPT ![r] = "open"]
      /\ created' = [created EXCEPT ![r] = clock]
      /\ UNCHANGED <<kind, clock, usd, visit, owed, grew>>
  BY DEF Begin
<1>2. SearchTypeOK'
  BY <1>1 DEF SearchInv, SearchTypeOK
<1>3. Seen' = Seen /\ \A q \in Seen : created'[q] = created[q]
  BY <1>1 DEF SearchInv, SearchTypeOK, Seen
<1>4. Found(visit.filter)' = Found(visit.filter)
  <2>1. \A q \in Rows : there'[q] = "yes" <=> there[q] = "yes"
    BY <1>1 DEF SearchInv, SearchTypeOK
  <2> QED
    BY <1>1, <2>1 DEF Found, Matches, VacancyMatches, ResumeMatches, Pays
<1>5. grew' = (grew \/ Found(visit.filter)' # Found(visit.filter))
  BY <1>1, <1>4 DEF SearchInv, SearchTypeOK
<1> QED
  BY <1>1, <1>2, <1>3, <1>4, <1>5, GrowthKeeps DEF SearchInv, ListInv

\* It ends, and others see the row, or not.
LEMMA EndKeeps ==
    ASSUME SearchInv, NEW r \in Rows, End(r)
    PROVE  SearchInv'
<1>1. /\ there[r] = "open"
      /\ \/ there' = [there EXCEPT ![r] = "yes"] /\ UNCHANGED created
         \/ /\ there' = [there EXCEPT ![r] = "no"]
            /\ created' = [created EXCEPT ![r] = 0]
      /\ UNCHANGED <<kind, clock, usd, visit, owed>>
      /\ grew' = (grew \/ Found(visit.filter)' # Found(visit.filter))
  BY DEF End, Note
<1>2. SearchTypeOK'
  BY <1>1 DEF SearchInv, SearchTypeOK
<1>3. /\ Seen \subseteq Seen' /\ Seen' \subseteq Seen \cup {r}
      /\ \A q \in Seen : created'[q] = created[q]
  BY <1>1 DEF SearchInv, SearchTypeOK, Seen
<1>4. IsFiniteSet(Seen')
  <2>1. IsFiniteSet(Seen \cup {r})
    BY FS_AddElement DEF SearchInv, ListInv
  <2> QED
    BY <1>3, <2>1, FS_Subset
<1>5. Found(visit.filter) \subseteq Found(visit.filter)'
  <2>1. \A q \in Rows : there[q] = "yes" => there'[q] = "yes"
    BY <1>1 DEF SearchInv, SearchTypeOK
  <2> QED
    BY <1>1, <2>1 DEF Found, Matches, VacancyMatches, ResumeMatches, Pays
<1> QED
  BY <1>1, <1>2, <1>3, <1>4, <1>5, GrowthKeeps DEF SearchInv, ListInv

\* A value that is filled in takes no row out of a list.
LEMMA ConvertKeeps ==
    ASSUME SearchInv, NEW r \in Rows, Convert(r)
    PROVE  SearchInv'
<1>1. /\ usd[r] # Worth[r] /\ usd' = [usd EXCEPT ![r] = Worth[r]]
      /\ UNCHANGED <<kind, clock, there, created, visit, owed>>
      /\ grew' = (grew \/ Found(visit.filter)' # Found(visit.filter))
  BY DEF Convert, Note
<1>2. SearchTypeOK'
  BY <1>1, SearchAssumption DEF SearchInv, SearchTypeOK
<1>3. /\ usd[r] = {} /\ usd'[r] = Worth[r]
      /\ \A q \in Rows : usd'[q] = usd[q] \/ usd[q] = {}
      /\ \A q \in Rows : usd'[q] = {} \/ usd'[q] = Worth[q]
  BY <1>1 DEF SearchInv, SearchTypeOK, ListInv
<1>4. Seen' = Seen /\ created' = created
  BY <1>1 DEF Seen
<1>5. Found(visit.filter) \subseteq Found(visit.filter)'
  <2>1. ASSUME NEW f, NEW q \in Rows, Pays(q, f) PROVE Pays(q, f)'
    BY <1>3, <2>1 DEF Pays
  <2>2. visit' = visit /\ there' = there /\ kind' = kind
    BY <1>1
  <2>3. ASSUME NEW f, NEW q \in Rows, Matches(q, f) PROVE Matches(q, f)'
    BY <2>1, <2>2, <2>3 DEF Matches, VacancyMatches, ResumeMatches
  <2>4. PICK f : f = visit.filter
    OBVIOUS
  <2>5. Found(f) \subseteq Found(f)'
    BY <2>2, <2>3 DEF Found
  <2> QED
    BY <2>2, <2>4, <2>5
<1> QED
  BY <1>1, <1>2, <1>3, <1>4, <1>5, GrowthKeeps DEF SearchInv, ListInv

-----------------------------------------------------------------------------
(* The theorems.                                                           *)

\* Before the first search nothing is owed.
LEMMA SearchInitEstablishes == SearchInit => SearchInv
<1> SUFFICES ASSUME SearchInit PROVE SearchInv
  OBVIOUS
<1>1. visit \in VisitType /\ visit.pc = "none"
  BY DEF SearchInit, VisitType, Nothing
<1>2. SearchTypeOK
  BY <1>1 DEF SearchInit, SearchTypeOK
<1>3. Seen = {}
  BY DEF SearchInit, Seen
<1>4. ListInv
  BY <1>3, FS_EmptySet DEF SearchInit, ListInv
<1>5. WalkInv /\ EmptyInv
  BY <1>1 DEF SearchInit, WalkInv, EmptyInv, Answered
<1> QED
  BY <1>2, <1>4, <1>5 DEF SearchInv

\* Every step keeps the invariant.
LEMMA SearchNextKeeps == SearchInv /\ [SearchNext]_searchVars => SearchInv'
<1> SUFFICES ASSUME SearchInv, [SearchNext]_searchVars PROVE SearchInv'
  OBVIOUS
<1>1. CASE \E f \in Filters, page \in 1 .. MaxPage : Ask(f, page)
  BY <1>1, AskKeeps
<1>2. CASE Find \/ Count \/ Turn \/ Leave
  BY <1>2, FindKeeps, CountKeeps, TurnKeeps, LeaveKeeps
<1>3. CASE \E r \in Rows : Begin(r) \/ End(r) \/ Convert(r)
  BY <1>3, BeginKeeps, EndKeeps, ConvertKeeps
<1>4. CASE Pass \/ UNCHANGED searchVars
  <2>1. clock' \in Nat /\ UNCHANGED <<kind, there, created, usd, visit, owed, grew>>
    BY <1>4, SearchAssumption DEF Pass, searchVars, SearchInv, SearchTypeOK
  <2>2. SearchTypeOK'
    BY <2>1 DEF SearchInv, SearchTypeOK
  <2>3. Seen' = Seen
    BY <2>1 DEF Seen
  <2>4. Found(visit.filter)' = Found(visit.filter)
    BY <2>1 DEF Found, Matches, VacancyMatches, ResumeMatches, Pays
  <2>5. grew' = (grew \/ Found(visit.filter)' # Found(visit.filter))
    BY <2>1, <2>4 DEF SearchInv, SearchTypeOK
  <2> QED
    BY <2>1, <2>2, <2>3, <2>4, <2>5, GrowthKeeps DEF SearchInv, ListInv
<1> QED
  BY <1>1, <1>2, <1>3, <1>4 DEF SearchNext

\* The invariant holds in every reachable state.
LEMMA SearchInductive == SearchSpec => []SearchInv
  BY SearchInitEstablishes, SearchNextKeeps, PTL DEF SearchSpec

\* Whoever turns the pages to the last one, back and forth, has seen every row
\* that was found at the beginning and shares its time stamp with no other one,
\* for any number of rows, filters and any size of a page.
THEOREM WalkAlwaysComplete == SearchSpec => []WalkIsComplete
<1>1. SearchInv => WalkIsComplete
  BY DEF SearchInv, WalkInv, WalkIsComplete, Ahead
<1> QED
  BY <1>1, SearchInductive, PTL

\* Page, total and number of pages of an empty answer agree, though the total
\* comes from a second query, unless the list grew since the first one.
THEOREM EmptyAlwaysBeyond == SearchSpec => []EmptyOnlyBeyond
<1>1. ASSUME SearchInv, Answered, visit.items = {}, visit.total > 0, ~grew
      PROVE  visit.page > Pages(visit.total)
  <2>1. visit.page \in Nat \ {0} /\ visit.total \in Nat
    BY <1>1 DEF SearchInv, SearchTypeOK, VisitType
  <2>2. visit.total <= Before(visit.page)
    BY <1>1 DEF SearchInv, EmptyInv
  <2>3. Pages(visit.total) < visit.page /\ Pages(visit.total) \in Nat
    BY <1>1, <2>1, <2>2, PagesHold
  <2> QED
    BY <2>1, <2>3
<1>2. SearchInv => EmptyOnlyBeyond
  BY <1>1 DEF EmptyOnlyBeyond
<1> QED
  BY <1>2, SearchInductive, PTL
=============================================================================
