----------------------------- MODULE MCCollector -----------------------------
(* Constants of Collector for TLC: three postings in the first category, one  *)
(* of them in the second as well.                                            *)
EXTENDS Collector

CONSTANTS x, y, z

MCIn == [i \in Items |-> IF i = y THEN {1, 2} ELSE {1}]
=============================================================================
