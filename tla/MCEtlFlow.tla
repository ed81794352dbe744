------------------------------ MODULE MCEtlFlow ------------------------------
(* Constants of EtlFlow for TLC: a scraper whose page coroutines are         *)
(* gathered, a source read by one coroutine, two NLP stages, a conversion.   *)
EXTENDS EtlFlow

CONSTANTS vacancies, dou, nlpV, nlpR, convert

MCStage == [t \in Tasks |-> IF t \in {nlpV, nlpR} THEN 2 ELSE IF t = convert THEN 3 ELSE 1]
MCRetries == [t \in Tasks |-> IF Stage[t] = 1 THEN 1 ELSE 0]
=============================================================================
