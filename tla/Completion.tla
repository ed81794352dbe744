----------------------------- MODULE Completion -----------------------------
(***************************************************************************)
(* What complete() promises the NLP stage, whatever providers, budgets,      *)
(* buckets and pauses do: AllProvidersExhausted comes at once, and exactly   *)
(* when the process has no provider left; a call that got past that ends     *)
(* with a text or with AllProvidersBusy, even if the budgets run out while   *)
(* it waits; and only the answer to somebody's call can use up the last     *)
(* provider, which no process gets back.                                    *)
(***************************************************************************)
EXTENDS Naturals

CONSTANT Tasks

VARIABLES
    available,   \* any_available()
    caller,      \* "out", "in" complete(), or what the caller has come out with
    process      \* number of the process

Lands(t, places) ==
    \E place \in places : caller' = [caller EXCEPT ![t] = place]

Call(t) ==
    /\ caller[t] = "out"
    /\ Lands(t, IF available THEN {"in", "busy"} ELSE {"exhausted"})
    /\ UNCHANGED <<available, process>>

Answer(t) ==
    /\ caller[t] = "in"
    /\ Lands(t, {"in", "text", "busy"})
    /\ available' \in {available, FALSE}
    /\ UNCHANGED process

Take(t) ==
    /\ caller[t] \in {"text", "busy", "exhausted"}
    /\ Lands(t, {"out"})
    /\ UNCHANGED <<available, process>>

Restart ==
    /\ process' = process + 1
    /\ available' \in BOOLEAN
    /\ caller' = [t \in Tasks |-> "out"]

Init ==
    /\ available \in BOOLEAN
    /\ caller = [t \in Tasks |-> "out"]
    /\ process = 0

Next == Restart \/ \E t \in Tasks : Call(t) \/ Answer(t) \/ Take(t)

Spec == Init /\ [][Next]_<<available, caller, process>>
=============================================================================
