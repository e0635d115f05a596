---------------------------- MODULE MCChatStreams ----------------------------
(* Finite values for ChatStreams. *)
EXTENDS ChatStreams

TwoRequests == {1, 2}
=============================================================================
