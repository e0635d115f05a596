----------------------------- MODULE MCExecutor -----------------------------
(* Finite values for Executor. *)
EXTENDS Executor

CONSTANTS c1, c2, p1, p2, p3

TwoClients == {c1, c2}
ThreeProcs == {p1, p2, p3}
=============================================================================
