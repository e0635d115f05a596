---------------------------- MODULE MCErrorCache ----------------------------
(* Finite values for ErrorCache. *)
EXTENDS ErrorCache, TLC

CONSTANTS w1, w2, e1

TwoWorkers == {w1, w2}
OneError   == {e1}

WorkerSymmetry == Permutations(TwoWorkers)
=============================================================================
