-------------------------- MODULE MCHostAuthority --------------------------
(* Finite values for HostAuthority; the runs are interchangeable.            *)
EXTENDS HostAuthority, TLC

CONSTANTS r1, r2

MCRuns == {r1, r2}

Symmetry == Permutations(MCRuns)
=============================================================================
