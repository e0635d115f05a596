---------------------------- MODULE RootedGrants ----------------------------
(***************************************************************************)
(* What the signed path promises its owner.  A grant, be it a dispatch, a  *)
(* receipt, an admission, a policy, a handoff or a recorded reuse, is made *)
(* by one writer at a time, who looks at the clock and the root first.  It *)
(* is made under the statement that is then the latest one and approves,   *)
(* unexpired at that clock, and no other statement comes in between; what  *)
(* is inspected again must find it unexpired when it is granted.  Nothing  *)
(* is granted twice or rewritten, nor after a revocation.                  *)
(*                                                                         *)
(* HostAuthority implements this specification.                            *)
(***************************************************************************)
EXTENDS Naturals

CONSTANTS
  None,       \* no statement yet; no writer
  Inspected   \* the kinds of grant that look at the root again

VARIABLES clock, root, looked, grants

Statement == [revision : Nat, action : {"approve", "revoke"}, until : Nat]

InForce(at) ==
  /\ root # None
  /\ root.action = "approve"
  /\ at < root.until

Init == clock = 0 /\ root = None /\ looked = None /\ grants = {}

Pass == clock' = clock + 1 /\ UNCHANGED <<root, looked, grants>>

(* Statements follow each other, and nothing follows a revocation. *)
State ==
  /\ looked = None
  /\ root' \in Statement
  /\ IF root = None THEN root'.revision = 1
     ELSE root.action = "approve" /\ root'.revision = root.revision + 1
  /\ UNCHANGED <<clock, looked, grants>>

Look == looked = None /\ looked' = clock /\ UNCHANGED <<clock, root, grants>>

Leave == looked # None /\ looked' = None /\ UNCHANGED <<clock, root, grants>>

Grant ==
  /\ looked # None /\ looked' = None
  /\ InForce(looked)
  /\ \E g \in grants' \ grants :
       /\ g.revision = root.revision
       /\ g.subject[1] \in Inspected => InForce(clock)
       /\ \A h \in grants : h.subject # g.subject
       /\ grants' = grants \cup {g}
  /\ UNCHANGED <<clock, root>>

Next == Pass \/ State \/ Look \/ Leave \/ Grant

Spec == Init /\ [][Next]_<<clock, root, looked, grants>>
=============================================================================
