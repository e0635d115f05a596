------------------------- MODULE MCRuntimeRegistry -------------------------
(* Finite values for RuntimeRegistry: two packages of one contract that      *)
(* differ in their evidence, and one of another runtime that is not for      *)
(* production.                                                               *)
EXTENDS RuntimeRegistry, TLC

CONSTANTS p1, p2, p3, m1, m2, d1, d2

RuntimeOf     == (p1 :> m1) @@ (p2 :> m1) @@ (p3 :> m2)
TwoDispatches == {d1, d2}

DispatchSymmetry == Permutations(TwoDispatches)
=============================================================================
