------------------------------ MODULE OneShot ------------------------------
(***************************************************************************)
(* What a single-use reference promises: a decision is answered once, an   *)
(* answer that delivers the reference is executed at most once, and the    *)
(* outcome of that execution is recorded at most once and is final.        *)
(*                                                                         *)
(* LocalReference implements this specification.                           *)
(***************************************************************************)
EXTENDS Naturals

CONSTANT Decisions

VARIABLES
  life,   \* how far each decision has come
  posts   \* how often the code of each decision was sent to the executor

Lives == {"none", "open", "fallback", "delivered", "running", "verified", "failed"}

(* Where a decision may go from each point of its life. *)
Moves == { <<"none", "open">>,
           <<"open", "fallback">>, <<"open", "delivered">>,
           <<"delivered", "running">>,
           <<"running", "verified">>, <<"running", "failed">> }

Init ==
  /\ life = [d \in Decisions |-> "none"]
  /\ posts = [d \in Decisions |-> 0]

Advance(d) ==
  /\ \E to \in Lives : /\ <<life[d], to>> \in Moves
                       /\ life' = [life EXCEPT ![d] = to]
  /\ UNCHANGED posts

(* A run is sent at most once, and a verified one was sent. *)
Post(d) ==
  /\ life[d] = "running"
  /\ posts[d] = 0
  /\ posts' = [posts EXCEPT ![d] = 1]
  /\ UNCHANGED life

Next == \E d \in Decisions : Advance(d) \/ Post(d)

Spec == Init /\ [][Next]_<<life, posts>>
=============================================================================
