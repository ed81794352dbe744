-------------------------- MODULE MCDictionaryCache --------------------------
(* Constants of DictionaryCache for TLC: the two skills in both orders.     *)
EXTENDS DictionaryCache, TLC

CONSTANTS s1, s2
MCSkills == {s1, s2}
MCSkillLists == {<<>>, <<s1, s2>>, <<s2, s1>>}
Symmetry == Permutations(Vacancies) \cup Permutations(MCSkills)
=============================================================================
