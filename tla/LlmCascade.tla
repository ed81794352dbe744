----------------------------- MODULE LlmCascade -----------------------------
(***************************************************************************)
(* The LLM cascade of src/processor/llm_cascade.py: the coroutines of       *)
(* nlp_vacancies and nlp_resumes run complete() concurrently over the one   *)
(* process-wide list PROVIDERS.                                             *)
(*                                                                         *)
(* asyncio runs a coroutine without interruption from one suspension point  *)
(* to the next.  complete() suspends in two places only: asleep in          *)
(* TokenBucketRateLimiter.acquire() and awaiting the HTTP answer (the two   *)
(* asyncio locks are never held across an await, hence never contended).    *)
(* An action is one such segment: it handles what ended the suspension and  *)
(* goes on along the list of providers to the next one.                     *)
(*                                                                         *)
(* Time is discrete and relative: a deadline of the code is kept as the     *)
(* number of ticks left, so no clock has to be bounded.                     *)
(***************************************************************************)
EXTENDS Integers, FiniteSets, FiniteSetsExt

CONSTANTS
    Tasks,         \* coroutines that may be inside complete() at once
    NumProviders,  \* length of PROVIDERS; the index is the priority
    RpdStop,       \* _rpd_stop_at of each provider's DailyBudget
    TpdStop,       \* _tpd_stop_at
    Estimate,      \* estimated_tokens of is_exhausted()
    CallTokens,    \* tokens an answered call may turn out to have used
    MaxCallTokens, \* the largest of them
    Interval,      \* ticks between tokens of the provider's bucket (1/rate)
    RetryAfter,    \* pauses _parse_retry_after may read from a 429
    ErrorCooldown, \* cooldown after any other transient error (15 s)
    DefaultRetry,  \* retry_after when no provider left a cooldown (10 s)
    MaxRestarts    \* bound: how often the process is started again in a day

Providers == 1 .. NumProviders

ASSUME TasksAssumption == IsFiniteSet(Tasks) /\ Tasks # {}
ASSUME ProvidersAssumption == NumProviders \in Nat \ {0}
ASSUME BudgetAssumption ==
    /\ RpdStop \in [Providers -> Nat]
    /\ TpdStop \in [Providers -> Nat]
    /\ Estimate \in Nat
    /\ \A p \in Providers : TpdStop[p] > Estimate
    /\ MaxCallTokens \in Nat
    /\ CallTokens \subseteq 0 .. MaxCallTokens
ASSUME TimeAssumption ==
    /\ Interval \in [Providers -> Nat \ {0}]
    /\ RetryAfter \subseteq Nat \ {0}
    /\ ErrorCooldown \in Nat \ {0}
    /\ DefaultRetry \in Nat \ {0}
    /\ MaxRestarts \in Nat

VARIABLES
    requests,   \* DailyBudget._requests of each provider
    tokens,     \* DailyBudget._tokens
    cooldown,   \* ticks until cooldown_until
    disabled,   \* LLMProvider.disabled
    nextToken,  \* ticks until the bucket (burst = 1) holds a whole token
    task,       \* the local state of each coroutine
    restarts,   \* number of restarts so far
    banned,     \* history: ticks left of the longest pause a 429 asked for
    late,       \* history: calls started at the provider once it was disabled
    billed      \* history: requests the provider has counted today for good:
                \* answered, or under way when a process ended

budget == <<requests, tokens, billed>>
vars == <<requests, tokens, cooldown, disabled, nextToken, task, restarts,
          banned, late, billed>>

-----------------------------------------------------------------------------
(* The local state of a coroutine.                                         *)

\* Outside complete(): not called yet, or left with a result.
Outside(pc, retry) ==
    [pc |-> pc, at |-> 0, sawBudget |-> FALSE, waits |-> {}, retry |-> retry]

Idle == Outside("idle", 0)

\* Suspended at provider p, in acquire() or in the call itself.
At(pc, p, waits) ==
    [pc |-> pc, at |-> p, sawBudget |-> TRUE, waits |-> waits, retry |-> 0]

\* complete() returned a text, or raised on an answer that has no choices: for
\* the cascade the same.
Answered == Outside("text", 0)

\* complete() raised AllProvidersExhausted.
Exhausted == Outside("exhausted", 0)

\* complete() raised AllProvidersBusy(retry_after).
Busy(waits) == Outside("busy", IF waits = {} THEN DefaultRetry ELSE Min(waits))

Waiting(p) == {t \in Tasks : task[t].pc = "acquire" /\ task[t].at = p}
InFlight(p) == {t \in Tasks : task[t].pc = "call" /\ task[t].at = p}

-----------------------------------------------------------------------------
(* DailyBudget and the state of a provider.                                *)

\* Slip: `>` for `>=` at the request stop.
OutOfBudget_Strict(p) ==
    \/ tokens[p] + Estimate >= TpdStop[p]
    \/ requests[p] > RpdStop[p]

\* Slip: the spent tokens compared without the estimate of the next call.
OutOfBudget_NoEstimate(p) ==
    \/ tokens[p] >= TpdStop[p]
    \/ requests[p] >= RpdStop[p]

\* DailyBudget.is_exhausted.
OutOfBudget(p) ==
    \/ tokens[p] + Estimate >= TpdStop[p]
    \/ requests[p] >= RpdStop[p]

\* Slip: `disabled` forgotten at the top of the loop.
Usable_DisabledToo(p) == ~OutOfBudget(p)

\* Not skipped at the top of the loop: enabled and with budget.
Usable(p) == ~disabled[p] /\ ~OutOfBudget(p)

AnyAvailable == \E p \in Providers : Usable(p)

\* The provider the loop stops at.
Ready(p) == Usable(p) /\ cooldown[p] = 0

\* DailyBudget.record of an answered call.
Record(p) ==
    \E c \in CallTokens :
        /\ tokens' = [tokens EXCEPT ![p] = @ + c]
        /\ requests' = [requests EXCEPT ![p] = @ + 1]
        /\ billed' = [billed EXCEPT ![p] = @ + 1]

\* acquire() takes the whole token of a bucket with burst = 1; the next one is
\* there after 1 / rate.
TakeToken(bucket, p) == [bucket EXCEPT ![p] = Interval[p]]

-----------------------------------------------------------------------------
(* The loop of complete() over PROVIDERS, from provider `from` to the next  *)
(* suspension or to the end of the list.  `bucket` is nextToken as the      *)
(* segment has left it so far.                                             *)

\* Slip: the remaining cooldown appended for exhausted providers as well.
Skipped_Unfiltered(from, to) == {cooldown[q] : q \in from .. to}

\* The cooldowns appended on the way from one provider to another.
Skipped(from, to) == {cooldown[q] : q \in {r \in from .. to : Usable(r)}}

\* The loop reaches the first ready provider: with a whole token in its
\* bucket acquire() does not suspend and the call starts at once.
StopAt(t, p, from, waits, bucket) ==
    LET free == bucket[p] = 0 IN
    /\ Ready(p)
    /\ \A q \in from .. (p - 1) : ~Ready(q)
    /\ task' = [task EXCEPT ![t] =
                  At(IF free THEN "call" ELSE "acquire", p,
                     waits \cup Skipped(from, p - 1))]
    /\ nextToken' = IF free THEN TakeToken(bucket, p) ELSE bucket

\* Slip: saw_budget set only after the cooldown check.
GiveUp_LateFlag(t, from, saw, waits, bucket) ==
    /\ \A q \in from .. NumProviders : ~Ready(q)
    /\ task' = [task EXCEPT ![t] =
                  IF saw THEN Busy(waits \cup Skipped(from, NumProviders))
                         ELSE Exhausted]
    /\ nextToken' = bucket

\* No provider is ready: the two exceptions at the end of complete().
GiveUp(t, from, saw, waits, bucket) ==
    LET sawBudget == saw \/ \E q \in from .. NumProviders : Usable(q) IN
    /\ \A q \in from .. NumProviders : ~Ready(q)
    /\ task' = [task EXCEPT ![t] =
                  IF sawBudget THEN Busy(waits \cup Skipped(from, NumProviders))
                               ELSE Exhausted]
    /\ nextToken' = bucket

Scan(t, from, saw, waits, bucket) ==
    \/ \E p \in from .. NumProviders : StopAt(t, p, from, waits, bucket)
    \/ GiveUp(t, from, saw, waits, bucket)

\* Slip: saw_budget set for the providers after this one only.
Continue_Forgets(t, waits, bucket) == Scan(t, task[t].at + 1, FALSE, waits, bucket)

\* `continue`: the loop goes on after the provider the coroutine stopped at.
Continue(t, waits, bucket) ==
    Scan(t, task[t].at + 1, task[t].sawBudget, waits, bucket)

-----------------------------------------------------------------------------
(* The segments of complete().                                             *)

\* complete() is called.
Begin(t) ==
    /\ task[t].pc = "idle"
    /\ Scan(t, 1, FALSE, {}, nextToken)
    /\ UNCHANGED <<budget, cooldown, disabled, restarts, banned, late>>

\* Slip: after a failed second check the same provider is waited for again.
Wake_Stubborn(t) ==
    LET p == task[t].at IN
    /\ task[t].pc = "acquire"
    /\ nextToken[p] = 0
    /\ nextToken' = TakeToken(nextToken, p)
    /\ \/ /\ OutOfBudget(p) \/ cooldown[p] > 0
          /\ UNCHANGED <<task, late>>
       \/ /\ ~OutOfBudget(p) /\ cooldown[p] = 0
          /\ task' = [task EXCEPT ![t].pc = "call"]
          /\ late' = [late EXCEPT ![p] = IF disabled[p] THEN @ + 1 ELSE @]
    /\ UNCHANGED <<budget, cooldown, disabled, restarts, banned>>

\* acquire() takes the token and returns.  The provider is checked again for
\* budget and cooldown, not for disabled.
Wake(t) ==
    LET p == task[t].at
        taken == TakeToken(nextToken, p)
    IN
    /\ task[t].pc = "acquire"
    /\ nextToken[p] = 0
    /\ \/ /\ OutOfBudget(p) \/ cooldown[p] > 0
          /\ Continue(t, task[t].waits, taken)
          /\ UNCHANGED late
       \/ /\ ~OutOfBudget(p) /\ cooldown[p] = 0
          /\ task' = [task EXCEPT ![t].pc = "call"]
          /\ nextToken' = taken
          /\ late' = [late EXCEPT ![p] = IF disabled[p] THEN @ + 1 ELSE @]
    /\ UNCHANGED <<budget, cooldown, disabled, restarts, banned>>

\* The call ends with a text.
Text(t) ==
    /\ task[t].pc = "call"
    /\ Record(task[t].at)
    /\ task' = [task EXCEPT ![t] = Answered]
    /\ UNCHANGED <<cooldown, disabled, nextToken, restarts, banned, late>>

\* The call ends with an empty text: paid for, and on to the next provider.
EmptyText(t) ==
    /\ task[t].pc = "call"
    /\ Record(task[t].at)
    /\ Continue(t, task[t].waits, nextToken)
    /\ UNCHANGED <<cooldown, disabled, restarts, banned, late>>

\* trip_cooldown of the provider of t, and its pause appended to cooldowns.
TripCooldown(t, seconds) ==
    /\ cooldown' = [cooldown EXCEPT ![task[t].at] = seconds]
    /\ Continue(t, task[t].waits \cup {seconds}, nextToken)

\* The provider answers 429 and says when to come back.
RateLimited(t) ==
    /\ task[t].pc = "call"
    /\ \E seconds \in RetryAfter :
         /\ TripCooldown(t, seconds)
         /\ banned' = [banned EXCEPT ![task[t].at] = IF @ > seconds THEN @ ELSE seconds]
    /\ UNCHANGED <<budget, disabled, restarts, late>>

\* 401, 404 or an unknown model: the provider is switched off.
ModelGone(t) ==
    /\ task[t].pc = "call"
    /\ disabled' = [disabled EXCEPT ![task[t].at] = TRUE]
    /\ Continue(t, task[t].waits, nextToken)
    /\ UNCHANGED <<budget, cooldown, restarts, banned, late>>

\* Network error, 5xx, client timeout.
OtherError(t) ==
    /\ task[t].pc = "call"
    /\ TripCooldown(t, ErrorCooldown)
    /\ UNCHANGED <<budget, disabled, restarts, banned, late>>

Answer(t) ==
    \/ Text(t)
    \/ EmptyText(t)
    \/ RateLimited(t)
    \/ ModelGone(t)
    \/ OtherError(t)

\* The caller takes the result; it may call complete() again.
Take(t) ==
    /\ task[t].pc \in {"text", "exhausted", "busy"}
    /\ task' = [task EXCEPT ![t] = Idle]
    /\ UNCHANGED <<budget, cooldown, disabled, nextToken, restarts, banned, late>>

-----------------------------------------------------------------------------
(* The environment.                                                        *)

Down(left) == [p \in Providers |-> IF left[p] > 0 THEN left[p] - 1 ELSE 0]

\* One unit of monotonic time passes.
Tick ==
    /\ \E p \in Providers : cooldown[p] > 0 \/ nextToken[p] > 0 \/ banned[p] > 0
    /\ cooldown' = Down(cooldown)
    /\ nextToken' = Down(nextToken)
    /\ banned' = Down(banned)
    /\ UNCHANGED <<budget, disabled, task, restarts, late>>

\* The process ends or is killed and a new one is started on the same day:
\* PROVIDERS is built anew.  The providers have received the requests that were
\* under way, and what they have counted stays.
Restart ==
    /\ restarts < MaxRestarts
    /\ restarts' = restarts + 1
    /\ requests' = [p \in Providers |-> 0]
    /\ tokens' = [p \in Providers |-> 0]
    /\ cooldown' = [p \in Providers |-> 0]
    /\ disabled' = [p \in Providers |-> FALSE]
    /\ nextToken' = [p \in Providers |-> 0]
    /\ task' = [t \in Tasks |-> Idle]
    /\ late' = [p \in Providers |-> 0]
    /\ billed' = [p \in Providers |-> billed[p] + Cardinality(InFlight(p))]
    /\ UNCHANGED banned

-----------------------------------------------------------------------------
Init ==
    /\ requests = [p \in Providers |-> 0]
    /\ tokens = [p \in Providers |-> 0]
    /\ cooldown = [p \in Providers |-> 0]
    /\ disabled = [p \in Providers |-> FALSE]
    /\ nextToken = [p \in Providers |-> 0]
    /\ task = [t \in Tasks |-> Idle]
    /\ restarts = 0
    /\ banned = [p \in Providers |-> 0]
    /\ late = [p \in Providers |-> 0]
    /\ billed = [p \in Providers |-> 0]

Next ==
    \/ \E t \in Tasks : Begin(t)
    \/ \E t \in Tasks : Wake(t)
    \/ \E t \in Tasks : Text(t)
    \/ \E t \in Tasks : EmptyText(t)
    \/ \E t \in Tasks : RateLimited(t)
    \/ \E t \in Tasks : ModelGone(t)
    \/ \E t \in Tasks : OtherError(t)
    \/ \E t \in Tasks : Take(t)
    \/ Tick
    \/ Restart

Spec == Init /\ [][Next]_vars

\* Time passes; the event loop wakes a sleeper whose token stays there; the
\* HTTP client answers or times out.  acquire() has no queue: a sleeper whose
\* token was taken by another sleeps again, and nothing orders it before those
\* that come later.  Callers are not obliged to call.
Fairness ==
    /\ WF_vars(Tick)
    /\ \A t \in Tasks : WF_vars(Wake(t)) /\ WF_vars(Answer(t))

FairSpec == Spec /\ Fairness

-----------------------------------------------------------------------------
(* Properties.                                                             *)

LocalState ==
    [pc : {"idle", "acquire", "call", "text", "exhausted", "busy"},
     at : 0 .. NumProviders,
     sawBudget : BOOLEAN,
     waits : SUBSET (Nat \ {0}),
     retry : Nat]

\* The shape of the state.
TypeOK ==
    /\ requests \in [Providers -> Nat]
    /\ tokens \in [Providers -> Nat]
    /\ cooldown \in [Providers -> Nat]
    /\ disabled \in [Providers -> BOOLEAN]
    /\ nextToken \in [Providers -> Nat]
    /\ task \in [Tasks -> LocalState]
    /\ restarts \in 0 .. MaxRestarts
    /\ banned \in [Providers -> Nat]
    /\ late \in [Providers -> Nat]
    /\ billed \in [Providers -> Nat]

\* is_exhausted() is read without the lock and counts only answered calls,
\* so calls in flight may carry _requests past the stop; counting them, the
\* overshoot stays below the number of coroutines.
RequestsBounded ==
    \A p \in Providers :
        requests[p] + Cardinality(InFlight(p)) < RpdStop[p] + Cardinality(Tasks)

\* The same for tokens: every call in flight may cost MaxCallTokens where
\* is_exhausted() reckoned with the estimate of a single one.
TokensBounded ==
    \A p \in Providers :
        tokens[p] + MaxCallTokens * Cardinality(InFlight(p))
            < TpdStop[p] - Estimate + MaxCallTokens * Cardinality(Tasks)

\* complete() raises AllProvidersExhausted on a scan of providers read one by
\* one; when the caller gets it, and for as long as it holds on to it, no
\* provider has become usable: the caller is right to leave the record.
ExhaustedIsFinal ==
    \A t \in Tasks : task[t].pc = "exhausted" => ~AnyAvailable

\* Wake does not look at `disabled` again, so a provider switched off may
\* still be called, but only by coroutines that were already asleep in its
\* acquire(): all but the one whose call switched it off.
LateCallsBounded ==
    \A p \in Providers :
        disabled[p] => late[p] + Cardinality(Waiting(p)) < Cardinality(Tasks)

\* run_llm_record has three attempts and sleeps retry_after between them: an
\* AllProvidersBusy that asked for no pause would burn them at once.
BusyAsksToWait ==
    \A t \in Tasks : task[t].pc = "busy" => task[t].retry > 0

\* A request counts at the provider from the moment it is sent, though
\* DailyBudget counts it when it is answered: over a day every process may
\* overshoot the stop once, also one that was killed with requests under way.
\* Not counted here, as DailyBudget counts none of them and nothing bounds them:
\* requests that end in an error the process gets to see.
BilledBounded ==
    \A p \in Providers :
        billed[p] + Cardinality(InFlight(p))
            <= (restarts + 1) * (RpdStop[p] + Cardinality(Tasks) - 1)

\* A coroutine may be overtaken for ever, but only while calls fail for ever:
\* answered ones use up the budgets that let others overtake it.  Where calls
\* are finite in number, as in a run of the NLP stage, each one returns.
Inside(t) == task[t].pc \in {"acquire", "call"}
Fails == \E t \in Tasks : RateLimited(t) \/ OtherError(t)
CallsReturn == \A t \in Tasks : <>[]Inside(t) => []<><<Fails>>_vars

\* What a caller sees of the cascade.
Seen(pc) ==
    CASE pc = "idle" -> "out"
      [] pc \in {"acquire", "call"} -> "in"
      [] pc \in {"text", "exhausted", "busy"} -> pc

Contract == INSTANCE Completion
    WITH available <- AnyAvailable, caller <- [t \in Tasks |-> Seen(task[t].pc)],
         process <- restarts

\* The cascade is what NlpDrain takes it for: a coroutine gets
\* AllProvidersExhausted on entry or not at all, on entry whenever no provider
\* is left, though providers are read one by one and run out under the
\* coroutines that wait for them; and nothing but a restart brings one back.
KeepsContract == Contract!Spec

-----------------------------------------------------------------------------
(* What comments of the code say and the code does not keep.               *)

StartsCall(t) ==
    /\ task'[t].pc = "call"
    /\ task[t].pc # "call" \/ task[t].at # task'[t].at

\* "after a 429 the provider is skipped by all parallel tasks until that
\* moment" (llm_cascade.py:120): no call starts during an announced pause.
CooldownIsKept ==
    [][\A t \in Tasks : StartsCall(t) => banned[task'[t].at] = 0]_vars
=============================================================================
