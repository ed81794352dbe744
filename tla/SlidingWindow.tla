--------------------------- MODULE SlidingWindow ---------------------------
(***************************************************************************)
(* SlidingWindowRateLimiter of api/ratelimit.py: the limit of requests per   *)
(* client of one endpoint.  check() is synchronous, so one call is one step. *)
(*                                                                         *)
(* Time is counted in ticks of any length, Second of them to a second,       *)
(* because the pause a refused client is told is rounded to whole seconds.   *)
(* A key that is not in the dictionary _hits has the empty deque here: with  *)
(* Limit > 0 no key in it ever has one between two calls.                    *)
(***************************************************************************)
EXTENDS Integers, Sequences, FiniteSets

CONSTANTS
    Keys,       \* client addresses
    Limit,      \* requests allowed in a window
    Window,     \* window_seconds, in ticks
    Second,     \* ticks to a second
    SweepKeys,  \* _SWEEP_KEYS_THRESHOLD
    MaxTime     \* bound: ticks

ASSUME LimitAssumption == Limit \in Nat \ {0}
ASSUME TimeAssumption ==
    /\ Window \in Nat \ {0}
    /\ Second \in Nat \ {0}
    /\ MaxTime \in Nat
ASSUME SweepAssumption == SweepKeys \in Nat

VARIABLES
    now,        \* time.monotonic()
    hits,       \* _hits
    lastSweep,  \* _last_sweep
    admitted,   \* history: when the last Limit + 1 requests of a key were let in
    told        \* history: when a refused key may come back; 0 once it is let in

vars == <<now, hits, lastSweep, admitted, told>>

-----------------------------------------------------------------------------
Last(s) == s[Len(s)]

\* The last Limit + 1 elements.
Latest(s) == IF Len(s) > Limit + 1 THEN Tail(s) ELSE s

\* A time stamp that has left the window.
Old(t) == t <= now - Window

\* The time stamps left after the popleft() loop: all from the first one that
\* is not old.
Fresh(dq) ==
    IF \A i \in 1 .. Len(dq) : Old(dq[i]) THEN <<>>
    ELSE LET first == CHOOSE i \in 1 .. Len(dq) :
                        ~Old(dq[i]) /\ \A j \in 1 .. i - 1 : Old(dq[j])
         IN  SubSeq(dq, first, Len(dq))

\* Slip: the pause is cut down to whole seconds.
RetryAfter_Down(oldest) ==
    LET whole == (oldest + Window - now) \div Second
    IN  IF whole > 1 THEN whole ELSE 1

\* The pause until the oldest time stamp has left the window, in whole seconds.
RetryAfter(oldest) ==
    LET whole == (oldest + Window - now) \div Second + 1
    IN  IF whole > 1 THEN whole ELSE 1

\* Slip: a key is dropped with its oldest hit.
Sweep_ByFirst(h) == [k \in Keys |-> IF h[k] # <<>> /\ Old(h[k][1]) THEN <<>> ELSE h[k]]

\* _sweep(): keys whose last hit is old are dropped.
Sweep(h) == [k \in Keys |-> IF h[k] # <<>> /\ Old(Last(h[k])) THEN <<>> ELSE h[k]]

Known(h) == {k \in Keys : h[k] # <<>>}

\* Slip: only the number of keys makes the limiter sweep.
SweepDue_ByNumber(h) == Cardinality(Known(h)) > SweepKeys

\* Once in a window, or on every call when there are too many keys.
SweepDue(h) == now - lastSweep > Window \/ Cardinality(Known(h)) > SweepKeys

Full(dq) == Len(dq) >= Limit

-----------------------------------------------------------------------------
\* check(k) returns (True, 0).
Admit(k) ==
    LET dq == Fresh(hits[k])
        h  == [hits EXCEPT ![k] = Append(dq, now)]
    IN
    /\ ~Full(dq)
    /\ IF SweepDue(h) THEN hits' = Sweep(h) /\ lastSweep' = now
                      ELSE hits' = h /\ UNCHANGED lastSweep
    /\ admitted' = [admitted EXCEPT ![k] = Latest(Append(@, now))]
    /\ told' = [told EXCEPT ![k] = 0]
    /\ UNCHANGED now

\* check(k) returns (False, retry_after).
Refuse(k) ==
    LET dq == Fresh(hits[k]) IN
    /\ Full(dq)
    /\ hits' = [hits EXCEPT ![k] = dq]
    /\ told' = [told EXCEPT ![k] = now + RetryAfter(dq[1]) * Second]
    /\ UNCHANGED <<now, lastSweep, admitted>>

Tick ==
    /\ now < MaxTime
    /\ now' = now + 1
    /\ UNCHANGED <<hits, lastSweep, admitted, told>>

Init ==
    /\ now = 0
    /\ hits = [k \in Keys |-> <<>>]
    /\ lastSweep = 0
    /\ admitted = [k \in Keys |-> <<>>]
    /\ told = [k \in Keys |-> 0]

Next ==
    \/ \E k \in Keys : Admit(k) \/ Refuse(k)
    \/ Tick

Spec == Init /\ [][Next]_vars

-----------------------------------------------------------------------------
(* Properties.                                                             *)

\* The shape of the state; a deque never holds more than Limit time stamps.
TypeOK ==
    /\ now \in 0 .. MaxTime
    /\ hits \in [Keys -> Seq(0 .. MaxTime)]
    /\ \A k \in Keys : Len(hits[k]) <= Limit
    /\ lastSweep \in 0 .. MaxTime
    /\ admitted \in [Keys -> Seq(0 .. MaxTime)]
    /\ told \in [Keys -> Nat]

\* The limit: between a request that is let in and the one that is let in
\* Limit requests later lies at least a window, wherever the window is laid
\* and whatever sweeps other clients cause in between.
WindowBounded ==
    \A k \in Keys :
        Len(admitted[k]) > Limit => Last(admitted[k]) - admitted[k][1] >= Window

\* Retry-After is enough: a client that was refused and waits as told is let
\* in, unless a request of its address was let in meanwhile.
RetryIsEnough ==
    \A k \in Keys :
        told[k] > 0 /\ told[k] <= now => ~Full(Fresh(hits[k]))

\* The dictionary forgets idle clients: with every request let in, it keeps
\* no client that was silent for two windows, and none that was silent for
\* one if it is over its threshold.
ForgetsIdle ==
    \A k \in Known(hits), q \in Known(admitted) :
        /\ Last(hits[k]) + 2 * Window > Last(admitted[q])
        /\ Cardinality(Known(hits)) > SweepKeys =>
               Last(hits[k]) + Window > Last(admitted[q])
=============================================================================
