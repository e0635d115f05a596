----------------------------- MODULE MCChatPage -----------------------------
(* Finite values for ChatPage. *)
EXTENDS ChatPage, TLC

CONSTANTS t1, t2

OneTab      == {t1}
TwoTabs     == {t1, t2}
TwoRequests == 1..2

TabSymmetry == Permutations(TwoTabs)
=============================================================================
