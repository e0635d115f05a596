--------------------------- MODULE MCByokSessions ---------------------------
(* Finite values for ByokSessions. *)
EXTENDS ByokSessions, TLC

CONSTANTS h1, h2, h3, h4, t1, t2

MCHandles == {h1, h2, h3, h4}
MCThreads == {t1, t2}

Symmetry == Permutations(MCHandles) \cup Permutations(MCThreads)
=============================================================================
