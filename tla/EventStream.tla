---------------------------- MODULE EventStream ----------------------------
(***************************************************************************)
(* What the page may rely on: the answer to a message that was sent is a   *)
(* stream of events that ends, with one result or broken without any, and  *)
(* that is never opened again.  Both backends of the gateway promise it    *)
(* (ChatStreams), the page builds on it (ChatPage).                        *)
(***************************************************************************)
CONSTANT Requests   \* messages sent

VARIABLE stream

Init == stream = [r \in Requests |-> "unsent"]

Steps(r, from, to) == stream[r] = from /\ stream' = [stream EXCEPT ![r] = to]

Opens(r) == Steps(r, "unsent", "open")

(* The result, its last event. *)
Results(r) == Steps(r, "open", "result")

(* It ends without: something was raised, or its reader left. *)
Breaks(r) == Steps(r, "open", "broken")

Next == \E r \in Requests : Opens(r) \/ Results(r) \/ Breaks(r)

Ends(r) == Results(r) \/ Breaks(r)

Spec == Init /\ [][Next]_stream /\ \A r \in Requests : WF_stream(Ends(r))
=============================================================================
