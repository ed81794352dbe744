------------------------------ MODULE MCSearch ------------------------------
(* Constants of Search for TLC: rows with and without experience, a salary  *)
(* and the criterion asked for.                                             *)
EXTENDS Search

CONSTANTS a, b, c, d

MCYears == [r \in Rows |-> IF r \in {a, b} THEN {1} ELSE IF r = c THEN {} ELSE {3}]
MCWorth == [r \in Rows |-> IF r \in {a, b} THEN {2} ELSE IF r = c THEN {1} ELSE {}]
MCHas == [r \in Rows |-> IF r = d THEN {} ELSE {"python"}]
MCFilters == {[salary |-> {}, years |-> {}, needs |-> {"blank"}],
              [salary |-> {}, years |-> {2}, needs |-> {}],
              [salary |-> {2}, years |-> {}, needs |-> {"python"}]}
=============================================================================
