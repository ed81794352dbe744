---------------------------- MODULE MCTwoDrains ----------------------------
(* Constants of TwoDrains for TLC: all rows are of one source.              *)
EXTENDS TwoDrains

MCSource == [r \in 1 .. N |-> 1]
=============================================================================
