-------------------------- MODULE MCSalarySnapshot --------------------------
(* Constants of SalarySnapshot for TLC: vacancies of two categories and a    *)
(* resume, one of them with a salary in EUR.                                *)
EXTENDS SalarySnapshot, TLC

CONSTANTS p1, p2, v1, v2, r1

MCKind == [r \in Rows |-> IF r = r1 THEN "resume" ELSE "vacancy"]
MCMarket == [r \in Rows |-> IF r = v1 THEN "IT" ELSE "Sales"]
MCCurrency == [r \in Rows |-> IF r = v2 THEN "EUR" ELSE "UAH"]

ProcSymmetry == Permutations(Procs)
=============================================================================
