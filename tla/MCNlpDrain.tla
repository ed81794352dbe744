----------------------------- MODULE MCNlpDrain -----------------------------
(* Constants of NlpDrain for TLC: the first source has all rows but the     *)
(* last.                                                                    *)
EXTENDS NlpDrain

MCSource == [r \in Records |-> IF r < N THEN 1 ELSE 2]
=============================================================================
