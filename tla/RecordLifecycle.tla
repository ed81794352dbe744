-------------------------- MODULE RecordLifecycle --------------------------
(***************************************************************************)
(* What the NLP stage promises about a scraped record, whatever the LLM,    *)
(* the database and the operator do: it is pending until it is either done, *)
(* for good, or failed, and a failed record is tried again only once its    *)
(* failure has been resolved.                                               *)
(***************************************************************************)
CONSTANT Records
VARIABLE state

Init == state = [r \in Records |-> "absent"]

Becomes(r, from, to) ==
    /\ state[r] = from
    /\ state' = [state EXCEPT ![r] = to]

Collect(r) == Becomes(r, "absent", "pending")
Finish(r) == Becomes(r, "pending", "done")
Fail(r) == Becomes(r, "pending", "failed")
Retry(r) == Becomes(r, "failed", "pending")

Next == \E r \in Records : Collect(r) \/ Finish(r) \/ Fail(r) \/ Retry(r)

Spec == Init /\ [][Next]_state
=============================================================================
