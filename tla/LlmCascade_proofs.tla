-------------------------- MODULE LlmCascade_proofs --------------------------
(***************************************************************************)
(* Proofs about LlmCascade, for any number of coroutines and providers and  *)
(* any limits.  One inductive invariant, IndInv, carries the type invariant *)
(* and the safety invariants together; with it, every step of the cascade   *)
(* is one its callers may count on: the cascade implements Completion.      *)
(***************************************************************************)
EXTENDS LlmCascade, FiniteSetTheorems, WellFoundedInduction, TLAPS

\* A suspended coroutine is at a provider it has found budget at.
Suspended ==
    \A t \in Tasks :
        task[t].pc \in {"acquire", "call"} =>
            task[t].at \in Providers /\ task[t].sawBudget

\* Only calls to disabled providers are counted as late.
LateOnlyIfDisabled == \A p \in Providers : ~disabled[p] => late[p] = 0

\* What the processes before this one left on the bill: each at most its
\* overshot stop, calls under way at its end included.
BilledBefore ==
    \A p \in Providers :
        billed[p] - requests[p] <= restarts * (RpdStop[p] + Cardinality(Tasks) - 1)

IndInv ==
    /\ TypeOK
    /\ Suspended
    /\ LateOnlyIfDisabled
    /\ RequestsBounded
    /\ TokensBounded
    /\ ExhaustedIsFinal
    /\ LateCallsBounded
    /\ BusyAsksToWait
    /\ BilledBefore

-----------------------------------------------------------------------------
(* Arithmetic and least elements.                                          *)

\* Multiplication by a natural number is monotonic.
LEMMA TimesMonotonic ==
    ASSUME NEW m \in Nat, NEW a \in Nat, NEW b \in Nat, a <= b
    PROVE  m * a <= m * b
<1>1. PICK d \in Nat : b = a + d
  <2>1. b - a \in Nat /\ b = a + (b - a)
    OBVIOUS
  <2> QED
    BY <2>1
<1>2. m * b = m * a + m * d
  BY <1>1
<1>3. m * d \in Nat /\ m * a \in Nat
  OBVIOUS
<1> QED
  BY <1>2, <1>3

\* One call fewer in flight frees m tokens of the reserve.
LEMMA TimesPredecessor ==
    ASSUME NEW m \in Nat, NEW a \in Nat, a > 0
    PROVE  m * (a - 1) = m * a - m
OBVIOUS

NatLess == {pair \in Nat \X Nat : pair[1] < pair[2]}

\* The natural numbers have no infinite descent.
LEMMA NatLessWellFounded == IsWellFoundedOn(NatLess, Nat)
  BY NatLessThanWellFounded, Zenon DEF OpToRel, NatLess

\* min() of a non-empty list of pauses is one of them.
LEMMA MinOfNaturals ==
    ASSUME NEW S \in SUBSET Nat, S # {}
    PROVE  Min(S) \in S
<1>1. PICK x \in S : \A y \in S : ~(<<y, x>> \in NatLess)
  BY NatLessWellFounded, WFMin
<1>2. ASSUME NEW y \in S
      PROVE  x <= y
  <2>1. x \in Nat /\ y \in Nat
    OBVIOUS
  <2>2. y < x => <<y, x>> \in NatLess
    BY <2>1 DEF NatLess
  <2> QED
    BY <1>1, <2>1, <2>2
<1> QED
  BY <1>2 DEF Min

-----------------------------------------------------------------------------
(* The loop.                                                               *)

\* Where the loop may leave a coroutine.
Stops(s, from) ==
    /\ s.pc \in {"acquire", "call"}
    /\ s.at \in from .. NumProviders
    /\ s.sawBudget
    /\ Ready(s.at)

GivesUp(s, from, saw) ==
    \/ /\ s.pc = "busy" /\ s.retry > 0
       /\ saw \/ \E q \in from .. NumProviders : Usable(q)
    \/ s.pc = "exhausted" /\ ~saw /\ \A q \in from .. NumProviders : ~Usable(q)

\* A coroutine outside complete() has a well-formed local state.
LEMMA OutsideType ==
    ASSUME NEW pc \in {"idle", "text", "exhausted", "busy"}, NEW retry \in Nat
    PROVE  Outside(pc, retry) \in LocalState
  BY ProvidersAssumption DEF Outside, LocalState

\* A busy result is well formed and asks for a pause.
LEMMA BusyResult ==
    ASSUME NEW waits \in SUBSET (Nat \ {0})
    PROVE  /\ Busy(waits) \in LocalState
           /\ Busy(waits).pc = "busy"
           /\ Busy(waits).retry > 0
<1> DEFINE retry == IF waits = {} THEN DefaultRetry ELSE Min(waits)
<1>1. retry \in Nat \ {0}
  <2>1. CASE waits = {}
    BY <2>1, TimeAssumption
  <2>2. CASE waits # {}
    <3>1. Min(waits) \in waits
      BY <2>2, MinOfNaturals
    <3> QED
      BY <2>2, <3>1
  <2> QED
    BY <2>1, <2>2
<1>2. Busy(waits) = Outside("busy", retry)
  BY DEF Busy
<1> HIDE DEF retry
<1>3. Outside("busy", retry) \in LocalState
  BY <1>1, OutsideType
<1> QED
  BY <1>1, <1>2, <1>3 DEF Outside

\* Before the provider the loop stops at, every usable one is cooling.
LEMMA SkippedPositive ==
    ASSUME TypeOK, NEW from \in 1 .. NumProviders + 1, NEW to \in 0 .. NumProviders,
           \A q \in from .. to : ~Ready(q)
    PROVE  Skipped(from, to) \in SUBSET (Nat \ {0})
<1>1. ASSUME NEW q \in from .. to, Usable(q)
      PROVE  cooldown[q] \in Nat \ {0}
  <2>1. q \in Providers
    BY ProvidersAssumption DEF Providers
  <2>2. cooldown[q] \in Nat
    BY <2>1 DEF TypeOK
  <2> QED
    BY <1>1, <2>2 DEF Ready
<1> QED
  BY <1>1 DEF Skipped

\* What one pass of the loop does to the coroutine and to the buckets.
LEMMA ScanShape ==
    ASSUME TypeOK, NEW t \in Tasks, NEW from \in 1 .. NumProviders + 1,
           NEW saw \in BOOLEAN, NEW waits \in SUBSET (Nat \ {0}),
           NEW bucket \in [Providers -> Nat],
           Scan(t, from, saw, waits, bucket)
    PROVE  /\ nextToken' \in [Providers -> Nat]
           /\ \E s \in LocalState :
                /\ task' = [task EXCEPT ![t] = s]
                /\ Stops(s, from) \/ GivesUp(s, from, saw)
<1>1. CASE \E p \in from .. NumProviders : StopAt(t, p, from, waits, bucket)
  <2>1. PICK p \in from .. NumProviders : StopAt(t, p, from, waits, bucket)
    BY <1>1
  <2>2. p \in Providers /\ p \in 0 .. NumProviders /\ p - 1 \in 0 .. NumProviders
    BY ProvidersAssumption DEF Providers
  <2>3. Skipped(from, p - 1) \in SUBSET (Nat \ {0})
    BY <2>1, <2>2, SkippedPositive DEF StopAt, TakeToken
  <2> DEFINE s == At(IF bucket[p] = 0 THEN "call" ELSE "acquire", p,
                     waits \cup Skipped(from, p - 1))
  <2>4. task' = [task EXCEPT ![t] = s]
    BY <2>1 DEF StopAt, TakeToken
  <2>5. s \in LocalState
    BY <2>2, <2>3 DEF At, LocalState
  <2>6. Stops(s, from)
    BY <2>1 DEF Stops, At, StopAt, TakeToken
  <2>7. nextToken' \in [Providers -> Nat]
    BY <2>1, <2>2, TimeAssumption DEF StopAt, TakeToken
  <2> QED
    BY <2>4, <2>5, <2>6, <2>7
<1>2. CASE GiveUp(t, from, saw, waits, bucket)
  <2> DEFINE left == Skipped(from, NumProviders)
             seen == saw \/ \E q \in from .. NumProviders : Usable(q)
             s == IF seen THEN Busy(waits \cup left) ELSE Exhausted
  <2>1. task' = [task EXCEPT ![t] = s]
    BY <1>2 DEF GiveUp
  <2>2. waits \cup left \in SUBSET (Nat \ {0})
    <3>1. NumProviders \in 0 .. NumProviders
      BY ProvidersAssumption
    <3>2. left \in SUBSET (Nat \ {0})
      BY <1>2, <3>1, SkippedPositive DEF GiveUp
    <3> QED
      BY <3>2
  <2>3. CASE seen
    <3>1. s = Busy(waits \cup left)
      BY <2>3
    <3>2. s \in LocalState /\ s.pc = "busy" /\ s.retry > 0
      BY <2>2, <3>1, BusyResult
    <3> QED
      BY <1>2, <2>1, <2>3, <3>2 DEF GivesUp, GiveUp
  <2>4. CASE ~seen
    <3>1. s = Exhausted
      BY <2>4
    <3>2. s \in LocalState /\ s.pc = "exhausted"
      BY <3>1, OutsideType DEF Exhausted, Outside
    <3> QED
      BY <1>2, <2>1, <2>4, <3>2 DEF GivesUp, GiveUp
  <2> QED
    BY <2>3, <2>4
<1> QED
  BY <1>1, <1>2 DEF Scan

-----------------------------------------------------------------------------
(* The steps.  Moves(t, s) says of a step of coroutine t, which leaves it in *)
(* the local state s, all that the invariant needs to know.                 *)

\* What holds of the state a coroutine is left in.
Lands(s) ==
    /\ s.pc \in {"acquire", "call"} => s.at \in Providers /\ s.sawBudget
    /\ s.pc = "acquire" => ~disabled[s.at] /\ ~disabled'[s.at]
    /\ s.pc = "call" => /\ ~OutOfBudget(s.at)
                       /\ requests'[s.at] = requests[s.at]
                       /\ tokens'[s.at] = tokens[s.at]
    /\ s.pc = "busy" => s.retry > 0
    /\ s.pc = "exhausted" => ~AnyAvailable

\* A provider's budget is charged for a call that ends, or not at all.
Charges(t, s, p) ==
    \/ /\ requests'[p] = requests[p]
       /\ tokens'[p] = tokens[p]
       /\ billed'[p] = billed[p]
    \/ /\ task[t].pc = "call" /\ task[t].at = p
       /\ ~(s.pc = "call" /\ s.at = p)
       /\ requests'[p] = requests[p] + 1
       /\ billed'[p] = billed[p] + 1
       /\ tokens[p] <= tokens'[p]
       /\ tokens'[p] <= tokens[p] + MaxCallTokens

\* A provider is switched off by a call that ends, and called late only by
\* a coroutine that leaves its acquire().
Disables(t, s, p) ==
    \/ disabled'[p] = disabled[p] /\ late'[p] = late[p]
    \/ /\ task[t].pc = "call" /\ task[t].at = p
       /\ ~disabled[p] /\ disabled'[p] /\ late'[p] = late[p]
    \/ /\ task[t].pc = "acquire" /\ task[t].at = p /\ s.pc = "call"
       /\ disabled[p] /\ disabled'[p] /\ late'[p] = late[p] + 1

\* Where a coroutine may go from where it is.
Turns(t, s) ==
    \/ /\ task[t].pc = "idle" /\ s.pc \in {"acquire", "call", "busy"}
       /\ AnyAvailable
    \/ task[t].pc = "idle" /\ s.pc = "exhausted"
    \/ /\ task[t].pc \in {"acquire", "call"}
       /\ s.pc \in {"acquire", "call", "text", "busy"}
    \/ task[t].pc \in {"text", "exhausted", "busy"} /\ s.pc = "idle"

Moves(t, s) ==
    /\ task' = [task EXCEPT ![t] = s]
    /\ Turns(t, s)
    /\ Lands(s)
    /\ \A p \in Providers : Charges(t, s, p) /\ Disables(t, s, p)
    /\ restarts' = restarts

\* A pass of the loop lands well, whatever the segment did before it to the
\* provider the coroutine comes from.
LEMMA ScanLands ==
    ASSUME IndInv, NEW t \in Tasks, NEW from \in 1 .. NumProviders + 1,
           NEW saw \in BOOLEAN, NEW s \in LocalState,
           from = 1 \/ saw,
           Stops(s, from) \/ GivesUp(s, from, saw),
           \A p \in from .. NumProviders :
               /\ requests'[p] = requests[p]
               /\ tokens'[p] = tokens[p]
               /\ disabled'[p] = disabled[p]
    PROVE  Lands(s)
<1>1. CASE Stops(s, from)
  <2>1. s.at \in Providers
    BY <1>1, ProvidersAssumption DEF Stops, Providers
  <2> QED
    BY <1>1, <2>1 DEF Stops, Lands, Ready, Usable
<1>2. CASE GivesUp(s, from, saw)
  <2>1. s.pc = "exhausted" => ~AnyAvailable
    BY <1>2 DEF GivesUp, AnyAvailable, Providers
  <2> QED
    BY <1>2, <2>1 DEF GivesUp, Lands
<1> QED
  BY <1>1, <1>2

\* complete() is called: one coroutine moves.
LEMMA BeginMoves ==
    ASSUME IndInv, NEW t \in Tasks, Begin(t)
    PROVE  TypeOK' /\ \E s \in LocalState : Moves(t, s)
<1>1. /\ 1 \in 1 .. NumProviders + 1 /\ FALSE \in BOOLEAN
      /\ {} \in SUBSET (Nat \ {0})
      /\ nextToken \in [Providers -> Nat]
  BY ProvidersAssumption DEF IndInv, TypeOK
<1>2. Scan(t, 1, FALSE, {}, nextToken)
  BY DEF Begin
<1>3. /\ nextToken' \in [Providers -> Nat]
      /\ \E s \in LocalState :
           /\ task' = [task EXCEPT ![t] = s]
           /\ Stops(s, 1) \/ GivesUp(s, 1, FALSE)
  BY <1>1, <1>2, ScanShape DEF IndInv
<1>4. PICK s \in LocalState :
           /\ task' = [task EXCEPT ![t] = s]
           /\ Stops(s, 1) \/ GivesUp(s, 1, FALSE)
  BY <1>3
<1>5. Lands(s)
  BY <1>1, <1>4, ScanLands DEF Begin, budget
<1>6. TypeOK'
  BY <1>3, <1>4 DEF IndInv, TypeOK, Begin, budget
<1>7. Turns(t, s)
  <2>1. 1 .. NumProviders = Providers /\ task[t].pc = "idle"
    BY DEF Providers, Begin
  <2>2. s.pc \in {"acquire", "call", "busy"} => AnyAvailable
    BY <1>4, <2>1 DEF Stops, GivesUp, Ready, AnyAvailable
  <2> QED
    BY <1>4, <2>1, <2>2 DEF Turns, Stops, GivesUp
<1> QED
  BY <1>4, <1>5, <1>6, <1>7 DEF Moves, Charges, Disables, Begin, budget

\* The loop after the provider a suspended coroutine stopped at.
LEMMA ContinueShape ==
    ASSUME IndInv, NEW t \in Tasks, task[t].pc \in {"acquire", "call"},
           NEW waits \in SUBSET (Nat \ {0}), NEW bucket \in [Providers -> Nat],
           Continue(t, waits, bucket),
           \A p \in Providers : p # task[t].at =>
               /\ requests'[p] = requests[p]
               /\ tokens'[p] = tokens[p]
               /\ disabled'[p] = disabled[p]
    PROVE  /\ task[t].at \in Providers
           /\ nextToken' \in [Providers -> Nat]
           /\ \E s \in LocalState :
                /\ task' = [task EXCEPT ![t] = s]
                /\ Lands(s)
                /\ s.pc \in {"acquire", "call"} => s.at # task[t].at
                /\ s.pc \in {"acquire", "call", "busy"}
                /\ Turns(t, s)
<1> DEFINE from == task[t].at + 1
<1>1. task[t].at \in Providers /\ task[t].sawBudget = TRUE
  BY DEF IndInv, TypeOK, LocalState, Suspended
<1>2. from \in 1 .. NumProviders + 1
  BY <1>1, ProvidersAssumption DEF Providers
<1>3. Scan(t, from, TRUE, waits, bucket)
  BY <1>1 DEF Continue
<1>4. /\ nextToken' \in [Providers -> Nat]
      /\ \E s \in LocalState :
           /\ task' = [task EXCEPT ![t] = s]
           /\ Stops(s, from) \/ GivesUp(s, from, TRUE)
  BY <1>2, <1>3, ScanShape DEF IndInv
<1>5. PICK s \in LocalState :
           /\ task' = [task EXCEPT ![t] = s]
           /\ Stops(s, from) \/ GivesUp(s, from, TRUE)
  BY <1>4
<1>6. \A p \in from .. NumProviders : p \in Providers /\ p # task[t].at
  BY <1>1, ProvidersAssumption DEF Providers
<1>7. Lands(s)
  <2>1. \A p \in from .. NumProviders :
               /\ requests'[p] = requests[p]
               /\ tokens'[p] = tokens[p]
               /\ disabled'[p] = disabled[p]
    BY <1>6
  <2> HIDE DEF from
  <2> QED
    BY <1>2, <1>5, <2>1, ScanLands
<1>8. s.pc \in {"acquire", "call"} => s.at # task[t].at
  BY <1>5, <1>6 DEF Stops, GivesUp
<1>9. s.pc \in {"acquire", "call", "busy"}
  BY <1>5 DEF Stops, GivesUp
<1>10. Turns(t, s)
  BY <1>9 DEF Turns
<1> QED
  BY <1>1, <1>4, <1>5, <1>7, <1>8, <1>9, <1>10

\* A coroutine wakes up in acquire(): it calls, or goes on along the list.
LEMMA WakeMoves ==
    ASSUME IndInv, NEW t \in Tasks, Wake(t)
    PROVE  TypeOK' /\ \E s \in LocalState : Moves(t, s)
<1> DEFINE p == task[t].at
           taken == TakeToken(nextToken, p)
<1>1. task[t].pc = "acquire" /\ p \in Providers /\ task[t] \in LocalState
  BY DEF Wake, TakeToken, IndInv, TypeOK, Suspended
<1>2. taken \in [Providers -> Nat]
  BY <1>1, TimeAssumption DEF TakeToken, IndInv, TypeOK
<1>3. task[t].waits \in SUBSET (Nat \ {0})
  BY <1>1 DEF LocalState
<1>4. CASE /\ OutOfBudget(p) \/ cooldown[p] > 0
           /\ Continue(t, task[t].waits, taken)
           /\ UNCHANGED late
  <2>1. /\ nextToken' \in [Providers -> Nat]
        /\ \E s \in LocalState :
             task' = [task EXCEPT ![t] = s] /\ Lands(s) /\ Turns(t, s)
    BY <1>1, <1>2, <1>3, <1>4, ContinueShape DEF Wake, TakeToken, budget
  <2>2. PICK s \in LocalState :
             task' = [task EXCEPT ![t] = s] /\ Lands(s) /\ Turns(t, s)
    BY <2>1
  <2>3. TypeOK'
    BY <1>4, <2>1, <2>2 DEF IndInv, TypeOK, Wake, TakeToken, budget
  <2> QED
    BY <1>4, <2>2, <2>3 DEF Moves, Charges, Disables, Wake, TakeToken, budget
<1>5. CASE /\ ~OutOfBudget(p) /\ cooldown[p] = 0
           /\ task' = [task EXCEPT ![t].pc = "call"]
           /\ nextToken' = taken
           /\ late' = [late EXCEPT ![p] = IF disabled[p] THEN @ + 1 ELSE @]
  <2> DEFINE s == [task[t] EXCEPT !.pc = "call"]
  <2>1. s \in LocalState /\ s.pc = "call" /\ s.at = p /\ s.sawBudget
    BY <1>1 DEF LocalState, IndInv, Suspended
  <2>2. task' = [task EXCEPT ![t] = s]
    BY <1>5
  <2>3. TypeOK'
    <3>1. late' \in [Providers -> Nat]
      <4>1. late \in [Providers -> Nat]
        BY DEF IndInv, TypeOK
      <4>2. late[p] + 1 \in Nat /\ late[p] \in Nat
        BY <1>1, <4>1
      <4> QED
        BY <1>1, <1>5, <4>1, <4>2
    <3>2. task' \in [Tasks -> LocalState]
      BY <2>1, <2>2 DEF IndInv, TypeOK
    <3> QED
      BY <1>2, <1>5, <3>1, <3>2 DEF IndInv, TypeOK, Wake, TakeToken, budget
  <2>4. Lands(s)
    BY <1>1, <1>5, <2>1 DEF Lands, Wake, TakeToken, budget
  <2>5. ASSUME NEW q \in Providers
        PROVE  Charges(t, s, q) /\ Disables(t, s, q)
    <3>1. Charges(t, s, q)
      BY DEF Charges, Wake, TakeToken, budget
    <3>2. disabled' = disabled
      BY DEF Wake, TakeToken
    <3>3. CASE q = p /\ disabled[p]
      <4>1. late'[q] = late[q] + 1
        BY <1>1, <1>5, <3>3 DEF IndInv, TypeOK
      <4> QED
        BY <1>1, <2>1, <3>1, <3>2, <3>3, <4>1 DEF Disables
    <3>4. CASE ~(q = p /\ disabled[p])
      <4>1. late'[q] = late[q]
        BY <1>1, <1>5, <3>4 DEF IndInv, TypeOK
      <4> QED
        BY <3>1, <3>2, <4>1 DEF Disables
    <3> QED
      BY <3>3, <3>4
  <2>6. Turns(t, s)
    BY <1>1, <2>1 DEF Turns
  <2> QED
    BY <2>1, <2>2, <2>3, <2>4, <2>5, <2>6 DEF Moves, Wake, TakeToken
<1> QED
  BY <1>4, <1>5 DEF Wake, TakeToken

\* DailyBudget.record charges one provider.
LEMMA RecordCharges ==
    ASSUME TypeOK, NEW p \in Providers, Record(p)
    PROVE  /\ requests' \in [Providers -> Nat]
           /\ tokens' \in [Providers -> Nat]
           /\ billed' \in [Providers -> Nat]
           /\ requests'[p] = requests[p] + 1
           /\ billed'[p] = billed[p] + 1
           /\ tokens[p] <= tokens'[p]
           /\ tokens'[p] <= tokens[p] + MaxCallTokens
           /\ \A q \in Providers :
                q # p => /\ requests'[q] = requests[q]
                         /\ tokens'[q] = tokens[q]
                         /\ billed'[q] = billed[q]
<1>1. PICK c \in CallTokens : tokens' = [tokens EXCEPT ![p] = @ + c]
  BY DEF Record
<1>2. c \in Nat /\ c <= MaxCallTokens /\ MaxCallTokens \in Nat
  BY BudgetAssumption
<1>3. /\ requests' = [requests EXCEPT ![p] = @ + 1]
      /\ billed' = [billed EXCEPT ![p] = @ + 1]
  BY DEF Record
<1> QED
  BY <1>1, <1>2, <1>3 DEF TypeOK

\* A call that answers with a text ends complete().
LEMMA TextMoves ==
    ASSUME IndInv, NEW t \in Tasks, Text(t)
    PROVE  TypeOK' /\ \E s \in LocalState : Moves(t, s)
<1>1. task[t].pc = "call" /\ task[t].at \in Providers
  BY DEF Text, IndInv, Suspended
<1>2. Record(task[t].at) /\ TypeOK
  BY DEF Text, IndInv
<1>3. Answered \in LocalState /\ Answered.pc = "text"
  BY OutsideType DEF Answered, Outside
<1>4. TypeOK'
  BY <1>1, <1>2, <1>3, RecordCharges DEF TypeOK, Text
<1>5. Lands(Answered)
  BY <1>3 DEF Lands
<1>6. \A p \in Providers : Charges(t, Answered, p)
  BY <1>1, <1>2, <1>3, RecordCharges DEF Charges
<1>7. \A p \in Providers : Disables(t, Answered, p)
  BY DEF Disables, Text
<1>8. Turns(t, Answered)
  BY <1>1, <1>3 DEF Turns
<1> QED
  BY <1>3, <1>4, <1>5, <1>6, <1>7, <1>8 DEF Moves, Text

\* A call that answers with an empty text is charged and the loop goes on.
LEMMA EmptyTextMoves ==
    ASSUME IndInv, NEW t \in Tasks, EmptyText(t)
    PROVE  TypeOK' /\ \E s \in LocalState : Moves(t, s)
<1> DEFINE at == task[t].at
<1>1. task[t].pc = "call" /\ at \in Providers /\ task[t] \in LocalState
  BY DEF EmptyText, IndInv, TypeOK, Suspended
<1>2. Record(at) /\ TypeOK
  BY DEF EmptyText, IndInv
<1>3. task[t].waits \in SUBSET (Nat \ {0}) /\ nextToken \in [Providers -> Nat]
  BY <1>1, <1>2 DEF LocalState, TypeOK
<1>4. \A p \in Providers : p # at =>
           /\ requests'[p] = requests[p]
           /\ tokens'[p] = tokens[p]
           /\ disabled'[p] = disabled[p]
  BY <1>1, <1>2, RecordCharges DEF EmptyText
<1>5. /\ nextToken' \in [Providers -> Nat]
      /\ \E s \in LocalState :
           /\ task' = [task EXCEPT ![t] = s]
           /\ Lands(s) /\ Turns(t, s)
           /\ s.pc \in {"acquire", "call"} => s.at # at
  BY <1>1, <1>3, <1>4, ContinueShape DEF EmptyText
<1>6. PICK s \in LocalState :
           /\ task' = [task EXCEPT ![t] = s]
           /\ Lands(s) /\ Turns(t, s)
           /\ s.pc \in {"acquire", "call"} => s.at # at
  BY <1>5
<1>7. TypeOK'
  BY <1>1, <1>2, <1>5, <1>6, RecordCharges DEF TypeOK, EmptyText
<1>8. \A p \in Providers : Charges(t, s, p)
  BY <1>1, <1>2, <1>6, RecordCharges DEF Charges
<1>9. \A p \in Providers : Disables(t, s, p)
  BY DEF Disables, EmptyText
<1> QED
  BY <1>6, <1>7, <1>8, <1>9 DEF Moves, EmptyText

\* A call that ends with an error charges nothing and goes on.
LEMMA ErrorMoves ==
    ASSUME IndInv, NEW t \in Tasks, task[t].pc = "call",
           NEW waits \in SUBSET (Nat \ {0}),
           Continue(t, waits, nextToken),
           cooldown' \in [Providers -> Nat], banned' \in [Providers -> Nat],
           disabled' \in {disabled, [disabled EXCEPT ![task[t].at] = TRUE]},
           UNCHANGED <<budget, restarts, late>>
    PROVE  TypeOK' /\ \E s \in LocalState : Moves(t, s)
<1> DEFINE at == task[t].at
<1>1. at \in Providers /\ TypeOK /\ nextToken \in [Providers -> Nat]
  BY DEF IndInv, TypeOK, Suspended
<1>2. \A p \in Providers : p # at => disabled'[p] = disabled[p]
  BY <1>1 DEF TypeOK
<1>3. disabled' \in [Providers -> BOOLEAN] /\ disabled'[at] \in {disabled[at], TRUE}
  BY <1>1 DEF TypeOK
<1>4. /\ nextToken' \in [Providers -> Nat]
      /\ \E s \in LocalState :
           task' = [task EXCEPT ![t] = s] /\ Lands(s) /\ Turns(t, s)
  BY <1>1, <1>2, ContinueShape DEF budget
<1>5. PICK s \in LocalState :
           task' = [task EXCEPT ![t] = s] /\ Lands(s) /\ Turns(t, s)
  BY <1>4
<1>6. TypeOK'
  BY <1>1, <1>3, <1>4, <1>5 DEF TypeOK, budget
<1>7. ASSUME NEW p \in Providers
      PROVE  Charges(t, s, p) /\ Disables(t, s, p)
  <2>1. Charges(t, s, p) /\ late'[p] = late[p]
    BY DEF Charges, budget
  <2>2. CASE disabled'[p] = disabled[p]
    BY <2>1, <2>2 DEF Disables
  <2>3. CASE disabled'[p] # disabled[p]
    <3>1. p = at
      BY <1>2, <2>3
    <3>2. disabled[at] \in BOOLEAN
      BY <1>1 DEF TypeOK
    <3>3. ~disabled[p] /\ disabled'[p]
      BY <1>3, <2>3, <3>1, <3>2
    <3> QED
      BY <2>1, <3>1, <3>3 DEF Disables
  <2> QED
    BY <2>2, <2>3
<1> QED
  BY <1>5, <1>6, <1>7 DEF Moves

\* The three kinds of failed calls.
LEMMA FailureMoves ==
    ASSUME IndInv, NEW t \in Tasks, RateLimited(t) \/ ModelGone(t) \/ OtherError(t)
    PROVE  TypeOK' /\ \E s \in LocalState : Moves(t, s)
<1>1. /\ task[t].pc = "call" /\ task[t].at \in Providers
      /\ task[t].waits \in SUBSET (Nat \ {0})
      /\ cooldown \in [Providers -> Nat] /\ banned \in [Providers -> Nat]
  BY DEF RateLimited, ModelGone, OtherError, IndInv, TypeOK, LocalState, Suspended
<1>2. CASE RateLimited(t)
  <2>1. PICK seconds \in RetryAfter :
           /\ TripCooldown(t, seconds)
           /\ banned' = [banned EXCEPT ![task[t].at] = IF @ > seconds THEN @ ELSE seconds]
    BY <1>2 DEF RateLimited
  <2>2. seconds \in Nat \ {0}
    BY TimeAssumption
  <2>3. banned' \in [Providers -> Nat] /\ cooldown' \in [Providers -> Nat]
    BY <1>1, <2>1, <2>2 DEF TripCooldown
  <2>4. task[t].waits \cup {seconds} \in SUBSET (Nat \ {0})
    BY <1>1, <2>2
  <2> QED
    BY <1>1, <1>2, <2>1, <2>3, <2>4, ErrorMoves DEF RateLimited, TripCooldown
<1>3. CASE ModelGone(t)
  BY <1>1, <1>3, ErrorMoves DEF ModelGone
<1>4. CASE OtherError(t)
  <2>1. ErrorCooldown \in Nat \ {0}
    BY TimeAssumption
  <2>2. cooldown' \in [Providers -> Nat]
    BY <1>1, <1>4, <2>1 DEF OtherError, TripCooldown
  <2>3. task[t].waits \cup {ErrorCooldown} \in SUBSET (Nat \ {0})
    BY <1>1, <2>1
  <2> QED
    BY <1>1, <1>4, <2>2, <2>3, ErrorMoves DEF OtherError, TripCooldown
<1> QED
  BY <1>2, <1>3, <1>4

\* The caller takes the result.
LEMMA TakeMoves ==
    ASSUME IndInv, NEW t \in Tasks, Take(t)
    PROVE  TypeOK' /\ \E s \in LocalState : Moves(t, s)
<1>1. Idle \in LocalState /\ Idle.pc = "idle"
  BY OutsideType DEF Idle, Outside
<1>2. Lands(Idle)
  BY <1>1 DEF Lands
<1>3. TypeOK'
  BY <1>1 DEF IndInv, TypeOK, Take, budget
<1>4. Turns(t, Idle)
  BY <1>1 DEF Turns, Take
<1> QED
  BY <1>1, <1>2, <1>3, <1>4 DEF Moves, Charges, Disables, Take, budget

-----------------------------------------------------------------------------
(* Every step preserves the invariant.                                     *)

\* Counting the coroutines at a provider.
LEMMA Counts ==
    ASSUME NEW S \in SUBSET Tasks
    PROVE  /\ IsFiniteSet(S)
           /\ Cardinality(S) \in Nat
           /\ Cardinality(S) <= Cardinality(Tasks)
           /\ Cardinality(Tasks) \in Nat \ {0}
           /\ \A t \in Tasks : t \notin S => Cardinality(S) < Cardinality(Tasks)
           /\ \A t \in S : /\ Cardinality(S) > 0
                           /\ Cardinality(S \ {t}) = Cardinality(S) - 1
<1>1. IsFiniteSet(Tasks) /\ Cardinality(Tasks) \in Nat /\ Tasks # {}
  BY TasksAssumption, FS_CardinalityType
<1>2. /\ IsFiniteSet(S)
      /\ Cardinality(S) <= Cardinality(Tasks)
      /\ Cardinality(S) = Cardinality(Tasks) => S = Tasks
  BY <1>1, FS_Subset
<1>3. Cardinality(S) \in Nat
  BY <1>2, FS_CardinalityType
<1>4. Cardinality(Tasks) # 0
  BY <1>1, FS_EmptySet
<1>5. ASSUME NEW t \in Tasks, t \notin S
      PROVE  Cardinality(S) < Cardinality(Tasks)
  BY <1>1, <1>2, <1>3, <1>5
<1>6. ASSUME NEW t \in S
      PROVE  Cardinality(S) > 0 /\ Cardinality(S \ {t}) = Cardinality(S) - 1
  <2>1. Cardinality(S) # 0
    BY <1>2, FS_EmptySet
  <2>2. Cardinality(S \ {t}) = IF t \in S THEN Cardinality(S) - 1 ELSE Cardinality(S)
    BY <1>2, FS_RemoveElement, Zenon
  <2> QED
    BY <1>3, <2>1, <2>2
<1> QED
  BY <1>1, <1>2, <1>3, <1>4, <1>5, <1>6

\* A part of a set of coroutines has no more of them.
LEMMA SmallerCount ==
    ASSUME NEW S \in SUBSET Tasks, NEW R \in SUBSET S
    PROVE  Cardinality(R) <= Cardinality(S)
  BY Counts, FS_Subset

\* A coroutine that moves keeps the budgets: a call starts only after the check
\* of that same step, and a charge takes it out of flight.
LEMMA MovesKeepsBudgets ==
    ASSUME IndInv, TypeOK', NEW t \in Tasks, NEW s \in LocalState, Moves(t, s)
    PROVE  RequestsBounded' /\ TokensBounded'
<1>1. ASSUME NEW p \in Providers
      PROVE  /\ requests'[p] + Cardinality(InFlight(p)')
                  < RpdStop[p] + Cardinality(Tasks)
             /\ tokens'[p] + MaxCallTokens * Cardinality(InFlight(p)')
                  < TpdStop[p] - Estimate + MaxCallTokens * Cardinality(Tasks)
  <2> DEFINE before == Cardinality(InFlight(p))
             after == Cardinality(InFlight(p)')
             all == Cardinality(Tasks)
  <2>1. InFlight(p) \in SUBSET Tasks /\ InFlight(p)' \in SUBSET Tasks
    BY DEF InFlight
  <2>2. /\ before \in Nat /\ after \in Nat /\ all \in Nat
        /\ after <= all
    BY <2>1, Counts
  <2>3. /\ requests[p] \in Nat /\ requests'[p] \in Nat
        /\ tokens[p] \in Nat /\ tokens'[p] \in Nat
        /\ RpdStop[p] \in Nat /\ TpdStop[p] \in Nat
        /\ Estimate \in Nat /\ MaxCallTokens \in Nat
    BY BudgetAssumption DEF IndInv, TypeOK
  <2>4. /\ requests[p] + before < RpdStop[p] + all
        /\ tokens[p] + MaxCallTokens * before
             < TpdStop[p] - Estimate + MaxCallTokens * all
    BY DEF IndInv, RequestsBounded, TokensBounded
  <2>5. /\ task' = [task EXCEPT ![t] = s]
        /\ task \in [Tasks -> LocalState]
    BY DEF Moves, IndInv, TypeOK
  <2>6. MaxCallTokens * after <= MaxCallTokens * all
    BY <2>2, <2>3, TimesMonotonic
  <2>7. /\ MaxCallTokens * before \in Nat
        /\ MaxCallTokens * after \in Nat
        /\ MaxCallTokens * all \in Nat
    BY <2>2, <2>3
  <2>8. CASE s.pc = "call" /\ s.at = p
    <3>1. /\ ~OutOfBudget(p)
          /\ requests'[p] = requests[p] /\ tokens'[p] = tokens[p]
      BY <2>8 DEF Moves, Lands
    <3>2. requests[p] < RpdStop[p] /\ tokens[p] + Estimate < TpdStop[p]
      BY <2>3, <3>1 DEF OutOfBudget
    <3> HIDE DEF before, after, all
    <3> QED
      BY <2>2, <2>3, <2>6, <2>7, <3>1, <3>2 DEF after, all
  <2>9. CASE ~(s.pc = "call" /\ s.at = p)
    <3>1. InFlight(p)' = InFlight(p) \ {t}
      BY <2>5, <2>9 DEF InFlight
    <3>2. CASE task[t].pc = "call" /\ task[t].at = p
      <4>1. t \in InFlight(p)
        BY <3>2 DEF InFlight
      <4>2. before > 0 /\ after = before - 1
        BY <2>1, <3>1, <4>1, Counts
      <4>3. MaxCallTokens * after = MaxCallTokens * before - MaxCallTokens
        BY <2>2, <2>3, <4>2, TimesPredecessor
      <4>4. \/ requests'[p] = requests[p] /\ tokens'[p] = tokens[p]
            \/ /\ requests'[p] = requests[p] + 1
               /\ tokens'[p] <= tokens[p] + MaxCallTokens
        BY DEF Moves, Charges
      <4> HIDE DEF before, after, all
      <4> QED
        BY <2>2, <2>3, <2>4, <2>7, <4>2, <4>3, <4>4 DEF after, all
    <3>3. CASE ~(task[t].pc = "call" /\ task[t].at = p)
      <4>1. requests'[p] = requests[p] /\ tokens'[p] = tokens[p]
        BY <3>3 DEF Moves, Charges
      <4>2. InFlight(p)' = InFlight(p)
        BY <3>1, <3>3 DEF InFlight
      <4> QED
        BY <2>4, <4>1, <4>2
    <3> QED
      BY <3>2, <3>3
  <2> QED
    BY <2>8, <2>9
<1> QED
  BY <1>1 DEF RequestsBounded, TokensBounded

\* Budgets only shrink and providers are only switched off; only the end of a
\* call does either.
LEMMA MovesUseUp ==
    ASSUME IndInv, TypeOK', NEW t \in Tasks, NEW s \in LocalState, Moves(t, s)
    PROVE  /\ AnyAvailable' => AnyAvailable
           /\ task[t].pc \notin {"acquire", "call"} => AnyAvailable' = AnyAvailable
<1>1. ASSUME NEW p \in Providers, Usable(p)'
      PROVE  Usable(p)
  <2>1. /\ requests[p] \in Nat /\ requests'[p] \in Nat
        /\ tokens[p] \in Nat /\ tokens'[p] \in Nat
        /\ RpdStop[p] \in Nat /\ TpdStop[p] \in Nat /\ Estimate \in Nat
        /\ MaxCallTokens \in Nat
    BY BudgetAssumption DEF IndInv, TypeOK
  <2>2. requests[p] <= requests'[p] /\ tokens[p] <= tokens'[p]
    BY <2>1 DEF Moves, Charges
  <2>3. ~disabled[p]
    BY <1>1 DEF Moves, Disables, Usable
  <2>4. ~OutOfBudget(p)
    BY <1>1, <2>1, <2>2 DEF Usable, OutOfBudget
  <2> QED
    BY <2>3, <2>4 DEF Usable
<1>2. AnyAvailable' => AnyAvailable
  BY <1>1 DEF AnyAvailable
<1>3. ASSUME task[t].pc \notin {"acquire", "call"}, NEW p \in Providers
      PROVE  Usable(p)' = Usable(p)
  <2>1. /\ requests'[p] = requests[p] /\ tokens'[p] = tokens[p]
        /\ disabled'[p] = disabled[p]
    BY <1>3 DEF Moves, Charges, Disables
  <2> QED
    BY <2>1 DEF Usable, OutOfBudget
<1> QED
  BY <1>2, <1>3 DEF AnyAvailable

\* Whoever has found every provider used up is right from then on.
LEMMA MovesKeepsExhausted ==
    ASSUME IndInv, TypeOK', NEW t \in Tasks, NEW s \in LocalState, Moves(t, s)
    PROVE  ExhaustedIsFinal'
<1>1. AnyAvailable' => AnyAvailable
  BY MovesUseUp
<1>2. ASSUME NEW u \in Tasks, task'[u].pc = "exhausted"
      PROVE  ~AnyAvailable
  <2>1. CASE u = t
    BY <1>2, <2>1 DEF Moves, Lands, IndInv, TypeOK
  <2>2. CASE u # t
    <3>1. task[u].pc = "exhausted"
      BY <1>2, <2>2 DEF Moves, IndInv, TypeOK
    <3> QED
      BY <3>1 DEF IndInv, ExhaustedIsFinal
  <2> QED
    BY <2>1, <2>2
<1> QED
  BY <1>1, <1>2 DEF ExhaustedIsFinal

\* A coroutine that moves keeps the bound on late calls: whoever calls a
\* disabled provider was asleep in its acquire().
LEMMA MovesKeepsLate ==
    ASSUME IndInv, TypeOK', NEW t \in Tasks, NEW s \in LocalState, Moves(t, s)
    PROVE  LateCallsBounded' /\ LateOnlyIfDisabled'
<1>1. ASSUME NEW p \in Providers
      PROVE  /\ disabled'[p] =>
                    late'[p] + Cardinality(Waiting(p)') < Cardinality(Tasks)
             /\ ~disabled'[p] => late'[p] = 0
  <2> DEFINE before == Cardinality(Waiting(p))
             after == Cardinality(Waiting(p)')
             all == Cardinality(Tasks)
  <2>1. Waiting(p) \in SUBSET Tasks /\ Waiting(p)' \in SUBSET Tasks
    BY DEF Waiting
  <2>2. /\ before \in Nat /\ after \in Nat /\ all \in Nat
        /\ late[p] \in Nat /\ late'[p] \in Nat
    BY <2>1, Counts DEF IndInv, TypeOK
  <2>3. /\ task' = [task EXCEPT ![t] = s]
        /\ task \in [Tasks -> LocalState]
        /\ disabled[p] \in BOOLEAN /\ disabled'[p] \in BOOLEAN
    BY DEF Moves, IndInv, TypeOK
  <2>4. /\ disabled[p] => late[p] + before < all
        /\ ~disabled[p] => late[p] = 0
    BY DEF IndInv, LateCallsBounded, LateOnlyIfDisabled
  <2>5. disabled[p] \/ disabled'[p] => Waiting(p)' = Waiting(p) \ {t}
    BY <2>3 DEF Moves, Lands, Waiting
  <2>6. CASE disabled'[p] = disabled[p] /\ late'[p] = late[p]
    <3>1. disabled[p] => after <= before
      BY <2>1, <2>5, SmallerCount
    <3> HIDE DEF before, after, all
    <3> QED
      BY <2>2, <2>4, <2>6, <3>1 DEF after, all
  <2>7. CASE ~disabled[p] /\ disabled'[p] /\ late'[p] = late[p]
    <3>1. t \notin Waiting(p)'
      BY <2>5, <2>7
    <3>2. after < all
      BY <2>1, <3>1, Counts
    <3> HIDE DEF before, after, all
    <3> QED
      BY <2>2, <2>4, <2>7, <3>2 DEF after, all
  <2>8. CASE /\ task[t].pc = "acquire" /\ task[t].at = p
             /\ disabled[p] /\ disabled'[p] /\ late'[p] = late[p] + 1
    <3>1. t \in Waiting(p)
      BY <2>8 DEF Waiting
    <3>2. after = before - 1
      BY <2>1, <2>5, <2>8, <3>1, Counts
    <3> HIDE DEF before, after, all
    <3> QED
      BY <2>2, <2>4, <2>8, <3>2 DEF after, all
  <2> QED
    BY <2>6, <2>7, <2>8 DEF Moves, Disables
<1> QED
  BY <1>1 DEF LateCallsBounded, LateOnlyIfDisabled

\* A coroutine that moves keeps the whole invariant.
LEMMA MovesKeepsInvariant ==
    ASSUME IndInv, TypeOK', NEW t \in Tasks, NEW s \in LocalState, Moves(t, s)
    PROVE  IndInv'
<1>1. /\ task' = [task EXCEPT ![t] = s]
      /\ task \in [Tasks -> LocalState]
      /\ Lands(s)
  BY DEF Moves, IndInv, TypeOK
<1>2. Suspended'
  BY <1>1 DEF IndInv, Suspended, Lands
<1>3. BusyAsksToWait'
  BY <1>1 DEF IndInv, BusyAsksToWait, Lands
<1>4. BilledBefore'
  <2>1. ASSUME NEW p \in Providers
        PROVE  /\ billed'[p] - requests'[p] = billed[p] - requests[p]
               /\ restarts' = restarts
    BY DEF Moves, Charges, IndInv, TypeOK
  <2> QED
    BY <2>1 DEF IndInv, BilledBefore
<1> QED
  BY <1>2, <1>3, <1>4, MovesKeepsBudgets, MovesKeepsExhausted, MovesKeepsLate
     DEF IndInv

\* A unit of time: only the countdowns change.
LEMMA TickKeepsInvariant ==
    ASSUME IndInv, Tick
    PROVE  IndInv'
<1>1. ASSUME NEW left \in [Providers -> Nat]
      PROVE  Down(left) \in [Providers -> Nat]
  BY DEF Down
<1>2. TypeOK'
  BY <1>1 DEF IndInv, TypeOK, Tick, budget
<1> QED
  BY <1>2 DEF IndInv, Tick, budget, Suspended, LateOnlyIfDisabled,
     RequestsBounded, TokensBounded, ExhaustedIsFinal, LateCallsBounded,
     BusyAsksToWait, BilledBefore, InFlight, Waiting, AnyAvailable, Usable,
     OutOfBudget

\* With nobody inside complete() and all counters at zero.
LEMMA FreshProcess ==
    ASSUME NEW tsk, tsk = [t \in Tasks |-> Idle]
    PROVE  /\ tsk \in [Tasks -> LocalState]
           /\ \A t \in Tasks : tsk[t].pc = "idle"
  BY OutsideType DEF Idle, Outside

\* In a new process no coroutine waits or calls.
LEMMA NobodyInside ==
    /\ Cardinality({}) = 0
    /\ Cardinality(Tasks) \in Nat \ {0}
    /\ MaxCallTokens * 0 = 0
    /\ MaxCallTokens * Cardinality(Tasks) \in Nat
<1>1. {} \in SUBSET Tasks
  OBVIOUS
<1>2. Cardinality(Tasks) \in Nat \ {0}
  BY <1>1, Counts
<1> QED
  BY <1>2, FS_EmptySet, BudgetAssumption

\* The invariant holds when the first process starts.
LEMMA InitEstablishesInvariant ==
    ASSUME Init
    PROVE  IndInv
<1>1. task \in [Tasks -> LocalState] /\ \A t \in Tasks : task[t].pc = "idle"
  BY FreshProcess DEF Init
<1>2. TypeOK
  BY <1>1, TimeAssumption DEF Init, TypeOK
<1>3. \A p \in Providers : InFlight(p) = {} /\ Waiting(p) = {}
  BY <1>1 DEF InFlight, Waiting
<1>4. Suspended /\ ExhaustedIsFinal /\ BusyAsksToWait
  BY <1>1 DEF Suspended, ExhaustedIsFinal, BusyAsksToWait
<1>5. LateOnlyIfDisabled /\ LateCallsBounded
  BY DEF Init, LateOnlyIfDisabled, LateCallsBounded
<1>6. ASSUME NEW p \in Providers
      PROVE  /\ requests[p] + Cardinality(InFlight(p))
                  < RpdStop[p] + Cardinality(Tasks)
             /\ tokens[p] + MaxCallTokens * Cardinality(InFlight(p))
                  < TpdStop[p] - Estimate + MaxCallTokens * Cardinality(Tasks)
             /\ billed[p] - requests[p]
                  <= restarts * (RpdStop[p] + Cardinality(Tasks) - 1)
  <2>1. requests[p] = 0 /\ tokens[p] = 0 /\ billed[p] = 0 /\ restarts = 0
    BY DEF Init
  <2>2. InFlight(p) = {}
    BY <1>3
  <2>3. RpdStop[p] \in Nat /\ TpdStop[p] \in Nat /\ Estimate \in Nat /\ TpdStop[p] > Estimate
    BY BudgetAssumption
  <2> QED
    BY <2>1, <2>2, <2>3, NobodyInside
<1>7. RequestsBounded /\ TokensBounded /\ BilledBefore
  BY <1>6 DEF RequestsBounded, TokensBounded, BilledBefore
<1> QED
  BY <1>2, <1>4, <1>5, <1>7 DEF IndInv

\* What a process has counted and what it has under way at one provider.
LEMMA ProcessShare ==
    ASSUME IndInv, NEW p \in Providers
    PROVE  /\ RpdStop[p] + Cardinality(Tasks) - 1 \in Nat
           /\ requests[p] \in Nat /\ billed[p] \in Nat
           /\ Cardinality(InFlight(p)) \in Nat
           /\ requests[p] + Cardinality(InFlight(p))
                <= RpdStop[p] + Cardinality(Tasks) - 1
<1>1. RpdStop[p] \in Nat /\ requests[p] \in Nat /\ billed[p] \in Nat
  BY BudgetAssumption DEF IndInv, TypeOK
<1>2. InFlight(p) \in SUBSET Tasks
  BY DEF InFlight
<1>3. Cardinality(InFlight(p)) \in Nat
  BY <1>2, Counts
<1>4. requests[p] + Cardinality(InFlight(p)) < RpdStop[p] + Cardinality(Tasks)
  BY DEF IndInv, RequestsBounded
<1> QED
  BY <1>1, <1>3, <1>4, NobodyInside

\* Multiples of a process's share.
LEMMA OneMoreShare ==
    ASSUME NEW n \in Nat, NEW k \in Nat
    PROVE  n * k \in Nat /\ (n + 1) * k = n * k + k
OBVIOUS

\* A restart keeps it; the bill grows by what the old process had counted and
\* by what it had under way.
LEMMA RestartKeepsInvariant ==
    ASSUME IndInv, Restart
    PROVE  IndInv'
<1>1. task' \in [Tasks -> LocalState] /\ \A t \in Tasks : task'[t].pc = "idle"
  BY FreshProcess DEF Restart
<1>2. restarts' = restarts + 1 /\ restarts \in Nat /\ restarts' \in 0 .. MaxRestarts
  BY TimeAssumption DEF Restart, IndInv, TypeOK
<1>3. TypeOK'
  <2>1. billed' \in [Providers -> Nat]
    <3>1. \A p \in Providers : billed[p] + Cardinality(InFlight(p)) \in Nat
      BY ProcessShare
    <3> QED
      BY <3>1 DEF Restart
  <2> QED
    BY <1>1, <1>2, <2>1 DEF Restart, IndInv, TypeOK
<1>4. \A p \in Providers : InFlight(p)' = {} /\ Waiting(p)' = {}
  BY <1>1 DEF InFlight, Waiting
<1>5. Suspended' /\ ExhaustedIsFinal' /\ BusyAsksToWait'
  BY <1>1 DEF Suspended, ExhaustedIsFinal, BusyAsksToWait
<1>6. LateOnlyIfDisabled' /\ LateCallsBounded'
  BY DEF Restart, LateOnlyIfDisabled, LateCallsBounded
<1>7. ASSUME NEW p \in Providers
      PROVE  /\ requests'[p] + Cardinality(InFlight(p)')
                  < RpdStop[p] + Cardinality(Tasks)
             /\ tokens'[p] + MaxCallTokens * Cardinality(InFlight(p)')
                  < TpdStop[p] - Estimate + MaxCallTokens * Cardinality(Tasks)
             /\ billed'[p] - requests'[p]
                  <= restarts' * (RpdStop[p] + Cardinality(Tasks) - 1)
  <2> DEFINE k == RpdStop[p] + Cardinality(Tasks) - 1
             under == Cardinality(InFlight(p))
  <2>1. requests'[p] = 0 /\ tokens'[p] = 0 /\ billed'[p] = billed[p] + under
    BY DEF Restart
  <2>2. InFlight(p)' = {}
    BY <1>4
  <2>3. RpdStop[p] \in Nat /\ TpdStop[p] \in Nat /\ Estimate \in Nat /\ TpdStop[p] > Estimate
    BY BudgetAssumption
  <2>4. /\ requests[p] \in Nat /\ billed[p] \in Nat /\ k \in Nat /\ under \in Nat
        /\ requests[p] + under <= k
    BY ProcessShare
  <2>5. billed[p] - requests[p] <= restarts * k
    BY DEF IndInv, BilledBefore
  <2>6. restarts * k \in Nat /\ restarts' * k = restarts * k + k
    BY <1>2, <2>4, OneMoreShare
  <2>7. billed'[p] - requests'[p] <= restarts' * k
    <3> HIDE DEF k, under
    <3> QED
      BY <2>1, <2>4, <2>5, <2>6
  <2> QED
    BY <2>1, <2>2, <2>3, <2>7, NobodyInside
<1>8. RequestsBounded' /\ TokensBounded' /\ BilledBefore'
  BY <1>7 DEF RequestsBounded, TokensBounded, BilledBefore
<1> QED
  BY <1>3, <1>5, <1>6, <1>8 DEF IndInv

\* Every segment of complete() is a move.
LEMMA StepMoves ==
    ASSUME IndInv, NEW t \in Tasks,
           \/ Begin(t) \/ Wake(t) \/ Text(t) \/ EmptyText(t) \/ RateLimited(t)
           \/ ModelGone(t) \/ OtherError(t) \/ Take(t)
    PROVE  TypeOK' /\ \E s \in LocalState : Moves(t, s)
  BY BeginMoves, WakeMoves, TextMoves, EmptyTextMoves, FailureMoves, TakeMoves

\* Every step keeps the invariant.
LEMMA NextKeepsInvariant == IndInv /\ [Next]_vars => IndInv'
<1> SUFFICES ASSUME IndInv, [Next]_vars
             PROVE  IndInv'
  OBVIOUS
<1>1. ASSUME NEW t \in Tasks,
             \/ Begin(t) \/ Wake(t) \/ Text(t) \/ EmptyText(t) \/ RateLimited(t)
             \/ ModelGone(t) \/ OtherError(t) \/ Take(t)
      PROVE  IndInv'
  <2>1. TypeOK' /\ \E s \in LocalState : Moves(t, s)
    BY <1>1, StepMoves
  <2> QED
    BY <2>1, MovesKeepsInvariant
<1>2. CASE Tick
  BY <1>2, TickKeepsInvariant
<1>3. CASE Restart
  BY <1>3, RestartKeepsInvariant
<1>4. CASE UNCHANGED vars
  BY <1>4 DEF vars, IndInv, TypeOK, Suspended, LateOnlyIfDisabled,
     RequestsBounded, TokensBounded, ExhaustedIsFinal, LateCallsBounded,
     BusyAsksToWait, BilledBefore, InFlight, Waiting, AnyAvailable, Usable,
     OutOfBudget
<1> QED
  BY <1>1, <1>2, <1>3, <1>4 DEF Next

-----------------------------------------------------------------------------
(* The theorems.                                                           *)

\* The invariant holds in every reachable state.
LEMMA Inductive == Spec => []IndInv
  BY InitEstablishesInvariant, NextKeepsInvariant, PTL DEF Spec

\* The state has its type, in every run of any number of coroutines.
THEOREM TypeCorrect == Spec => []TypeOK
<1>1. IndInv => TypeOK
  BY DEF IndInv
<1> QED
  BY <1>1, Inductive, PTL

\* DailyBudget's request stop is overshot by fewer calls than there are
\* coroutines, although the check and the count are far apart: answered calls
\* and calls in flight, not the failed ones nor the library's own retries.
THEOREM RequestsStayBounded == Spec => []RequestsBounded
<1>1. IndInv => RequestsBounded
  BY DEF IndInv
<1> QED
  BY <1>1, Inductive, PTL

\* The token stop is overshot by at most a full call of every coroutine.
THEOREM TokensStayBounded == Spec => []TokensBounded
<1>1. IndInv => TokensBounded
  BY DEF IndInv
<1> QED
  BY <1>1, Inductive, PTL

\* AllProvidersExhausted reaches the caller only when, then and later in the
\* process, no provider is usable.
THEOREM ExhaustedStaysFinal == Spec => []ExhaustedIsFinal
<1>1. IndInv => ExhaustedIsFinal
  BY DEF IndInv
<1> QED
  BY <1>1, Inductive, PTL

\* A provider that was switched off gets fewer calls than there are
\* coroutines, all of coroutines that were asleep in its acquire().
THEOREM LateCallsStayBounded == Spec => []LateCallsBounded
<1>1. IndInv => LateCallsBounded
  BY DEF IndInv
<1> QED
  BY <1>1, Inductive, PTL

\* AllProvidersBusy always asks for a positive pause.
THEOREM BusyAlwaysAsksToWait == Spec => []BusyAsksToWait
<1>1. IndInv => BusyAsksToWait
  BY DEF IndInv
<1> QED
  BY <1>1, Inductive, PTL

\* Over a day, the requests a provider has received and that did not fail come
\* to at most one overshot stop for every process started on that day, calls
\* under way when a process was killed included.
THEOREM BilledStaysBounded == Spec => []BilledBounded
<1>1. IndInv => BilledBounded
  <2> SUFFICES ASSUME IndInv, NEW p \in Providers
               PROVE  billed[p] + Cardinality(InFlight(p))
                        <= (restarts + 1) * (RpdStop[p] + Cardinality(Tasks) - 1)
    BY DEF BilledBounded
  <2> DEFINE k == RpdStop[p] + Cardinality(Tasks) - 1
             under == Cardinality(InFlight(p))
  <2>1. restarts \in Nat
    BY TimeAssumption DEF IndInv, TypeOK
  <2>2. /\ requests[p] \in Nat /\ billed[p] \in Nat /\ k \in Nat /\ under \in Nat
        /\ requests[p] + under <= k
    BY ProcessShare
  <2>3. billed[p] - requests[p] <= restarts * k
    BY DEF IndInv, BilledBefore
  <2>4. restarts * k \in Nat /\ (restarts + 1) * k = restarts * k + k
    BY <2>1, <2>2, OneMoreShare
  <2> HIDE DEF k, under
  <2>5. billed[p] + under <= (restarts + 1) * k
    BY <2>2, <2>3, <2>4
  <2> QED
    BY <2>5 DEF k, under
<1> QED
  BY <1>1, Inductive, PTL

-----------------------------------------------------------------------------
(* The cascade implements Completion.                                      *)

callers == [t \in Tasks |-> Seen(task[t].pc)]

\* Where a coroutine is, as its caller sees it.
LEMMA SeenFrom ==
    /\ Seen("idle") = "out"
    /\ Seen("acquire") = "in" /\ Seen("call") = "in"
    /\ Seen("text") = "text"
    /\ Seen("exhausted") = "exhausted" /\ Seen("busy") = "busy"
  BY DEF Seen

\* A caller whose coroutine moves is the only one that moves.
LEMMA CallerMoves ==
    ASSUME IndInv, NEW t \in Tasks, NEW s \in LocalState, Moves(t, s),
           NEW places, Seen(s.pc) \in places
    PROVE  /\ callers[t] = Seen(task[t].pc)
           /\ Contract!Lands(t, places)
<1>1. task' = [task EXCEPT ![t] = s] /\ task \in [Tasks -> LocalState]
  BY DEF Moves, IndInv, TypeOK
<1>2. callers' = [callers EXCEPT ![t] = Seen(s.pc)]
  BY <1>1 DEF callers
<1> QED
  BY <1>2 DEF callers, Contract!Lands

\* Every move of a coroutine is a step of its caller.
LEMMA MovesAreOfContract ==
    ASSUME IndInv, TypeOK', NEW t \in Tasks, NEW s \in LocalState, Moves(t, s)
    PROVE  Contract!Call(t) \/ Contract!Answer(t) \/ Contract!Take(t)
<1>1. /\ Turns(t, s) /\ Lands(s)
      /\ restarts' = restarts
      /\ AnyAvailable \in BOOLEAN /\ AnyAvailable' \in BOOLEAN
  BY DEF Moves, AnyAvailable
<1>2. /\ AnyAvailable' => AnyAvailable
      /\ task[t].pc \notin {"acquire", "call"} => AnyAvailable' = AnyAvailable
  BY MovesUseUp
<1>3. CASE /\ task[t].pc = "idle" /\ s.pc \in {"acquire", "call", "busy"}
           /\ AnyAvailable
  <2>1. Seen(s.pc) \in {"in", "busy"} /\ Seen(task[t].pc) = "out"
    BY <1>3, SeenFrom
  <2>2. callers[t] = "out" /\ Contract!Lands(t, {"in", "busy"})
    BY <2>1, CallerMoves
  <2> QED
    BY <1>1, <1>2, <1>3, <2>2 DEF callers, Contract!Call
<1>4. CASE task[t].pc = "idle" /\ s.pc = "exhausted"
  <2>1. Seen(s.pc) \in {"exhausted"} /\ Seen(task[t].pc) = "out"
    BY <1>4, SeenFrom
  <2>2. callers[t] = "out" /\ Contract!Lands(t, {"exhausted"})
    BY <2>1, CallerMoves
  <2>3. ~AnyAvailable
    BY <1>1, <1>4 DEF Lands
  <2> QED
    BY <1>1, <1>2, <1>4, <2>2, <2>3 DEF callers, Contract!Call
<1>5. CASE /\ task[t].pc \in {"acquire", "call"}
           /\ s.pc \in {"acquire", "call", "text", "busy"}
  <2>1. Seen(s.pc) \in {"in", "text", "busy"} /\ Seen(task[t].pc) = "in"
    BY <1>5, SeenFrom
  <2>2. callers[t] = "in" /\ Contract!Lands(t, {"in", "text", "busy"})
    BY <2>1, CallerMoves
  <2>3. AnyAvailable' \in {AnyAvailable, FALSE}
    BY <1>1, <1>2
  <2> QED
    BY <1>1, <2>2, <2>3 DEF callers, Contract!Answer
<1>6. CASE task[t].pc \in {"text", "exhausted", "busy"} /\ s.pc = "idle"
  <2>1. Seen(s.pc) \in {"out"} /\ Seen(task[t].pc) \in {"text", "busy", "exhausted"}
    BY <1>6, SeenFrom
  <2>2. /\ callers[t] \in {"text", "busy", "exhausted"}
        /\ Contract!Lands(t, {"out"})
    BY <2>1, CallerMoves
  <2> QED
    BY <1>1, <1>2, <1>6, <2>2 DEF callers, Contract!Take
<1> QED
  BY <1>1, <1>3, <1>4, <1>5, <1>6 DEF Turns

\* A process starts with everybody outside.
LEMMA FreshCallers ==
    ASSUME NEW tsk, tsk = [t \in Tasks |-> Idle]
    PROVE  [t \in Tasks |-> Seen(tsk[t].pc)] = [t \in Tasks |-> "out"]
  BY FreshProcess, SeenFrom

\* Time and steps that change nothing are not seen by the callers.
LEMMA TimeIsUnseen ==
    ASSUME Tick \/ UNCHANGED vars
    PROVE  UNCHANGED <<AnyAvailable, callers, restarts>>
<1>1. /\ task' = task /\ restarts' = restarts
      /\ requests' = requests /\ tokens' = tokens /\ disabled' = disabled
  BY DEF Tick, vars, budget
<1> QED
  BY <1>1 DEF callers, AnyAvailable, Usable, OutOfBudget

\* complete() keeps its contract, with any providers, budgets, buckets and
\* pauses: initial states map to initial states, and every step to a step of
\* one caller, to a restart or to a stutter.
THEOREM CascadeKeepsContract == Spec => KeepsContract
<1>1. Init => Contract!Init
  <2> SUFFICES ASSUME Init
               PROVE  Contract!Init
    OBVIOUS
  <2>1. callers = [t \in Tasks |-> "out"] /\ restarts = 0
    BY FreshCallers DEF Init, callers
  <2>2. AnyAvailable \in BOOLEAN
    BY DEF AnyAvailable
  <2> QED
    BY <2>1, <2>2 DEF Contract!Init, callers
<1>2. IndInv /\ [Next]_vars => [Contract!Next]_<<AnyAvailable, callers, restarts>>
  <2> SUFFICES ASSUME IndInv, [Next]_vars
               PROVE  [Contract!Next]_<<AnyAvailable, callers, restarts>>
    OBVIOUS
  <2>1. ASSUME NEW t \in Tasks,
               \/ Begin(t) \/ Wake(t) \/ Text(t) \/ EmptyText(t) \/ RateLimited(t)
               \/ ModelGone(t) \/ OtherError(t) \/ Take(t)
        PROVE  Contract!Next
    <3>1. TypeOK' /\ \E s \in LocalState : Moves(t, s)
      BY <2>1, StepMoves
    <3>2. Contract!Call(t) \/ Contract!Answer(t) \/ Contract!Take(t)
      BY <3>1, MovesAreOfContract
    <3> QED
      BY <3>2 DEF Contract!Next
  <2>2. CASE Restart
    <3>1. callers' = [t \in Tasks |-> "out"] /\ restarts' = restarts + 1
      BY <2>2, FreshCallers DEF Restart, callers
    <3>2. AnyAvailable' \in BOOLEAN
      BY DEF AnyAvailable
    <3> QED
      BY <3>1, <3>2 DEF Contract!Next, Contract!Restart, callers
  <2>3. CASE Tick \/ UNCHANGED vars
    BY <2>3, TimeIsUnseen
  <2> QED
    BY <2>1, <2>2, <2>3 DEF Next
<1>3. Spec => [][Contract!Next]_<<AnyAvailable, callers, restarts>>
  BY <1>2, Inductive, PTL DEF Spec
<1> QED
  BY <1>1, <1>3, PTL DEF Spec, KeepsContract, Contract!Spec, callers
=============================================================================
