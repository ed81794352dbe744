--------------------------- MODULE MCLlmCascade ---------------------------
(* Constants of LlmCascade for TLC.  Two providers, the first the scarcer   *)
(* in requests, the second in tokens.                                       *)
EXTENDS LlmCascade, TLC

MCRpdStop == [p \in Providers |-> IF p = 1 THEN 1 ELSE 3]
MCTpdStop == [p \in Providers |-> IF p = 1 THEN 9 ELSE 3]
MCInterval == [p \in Providers |-> 1]
TaskSymmetry == Permutations(Tasks)
=============================================================================
