-------------------------- MODULE MCLocalReference --------------------------
(* Finite values for LocalReference; callers, decisions and references are   *)
(* interchangeable.                                                          *)
EXTENDS LocalReference, TLC

CONSTANTS c1, c2, d1, d2, r1, r2

MCCallers    == {c1, c2}
MCDecisions  == {d1, d2}
MCReferences == {r1, r2}

Symmetry == Permutations(MCCallers) \cup Permutations(MCDecisions)
            \cup Permutations(MCReferences)
=============================================================================
