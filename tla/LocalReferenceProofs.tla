------------------------ MODULE LocalReferenceProofs ------------------------
(***************************************************************************)
(* For any callers, decisions, references and bounds: the tables of the    *)
(* single-use reference stay well typed, what is bound is what was listed, *)
(* what is verified is current, and LocalReference implements OneShot.     *)
(*                                                                         *)
(* The argument: a decision has at most one caller past _bind (the         *)
(* dispatch row is unique), and as long as there is one, the decision has  *)
(* no outcome, and its request was not sent before that caller sent it.    *)
(***************************************************************************)
EXTENDS LocalReference, TLAPS

Working == {"bound", "sent", "recorded", "failing"}

(* What the four tables say of each other. *)
TablesInv ==
  \A d \in Decisions :
    /\ consumption[d] # None => decision[d] # None
    /\ Delivered(d) => /\ consumption[d].ref \in References
                       /\ consumption[d].ref \in decision[d].snapshot
    /\ dispatch[d] # None => /\ Delivered(d)
                             /\ dispatch[d].ref = consumption[d].ref
                             /\ Fresh(d, dispatch[d].at)
    /\ completion[d] # "none" => dispatch[d] # None
    /\ posts[d] # 0 => posts[d] = 1 /\ dispatch[d] # None

(* What a caller knows of the decision it holds. *)
HoldsInv ==
  \A c \in Callers :
    /\ stage[c] \in {"prepared", "denied"} => decision[holds[c]] # None
    /\ stage[c] = "pointed" => Delivered(holds[c])
    /\ stage[c] \in Working =>
         /\ dispatch[holds[c]] # None
         /\ completion[holds[c]] = "none"
         /\ stage[c] = "bound" => posts[holds[c]] = 0
         /\ stage[c] \in {"sent", "recorded"} => posts[holds[c]] = 1

(* Nobody else works on that decision. *)
AloneInv ==
  \A c, e \in Callers :
    stage[c] \in Working /\ stage[e] \in Working /\ holds[c] = holds[e] => c = e

RefInv == TypeOK /\ TablesInv /\ HoldsInv /\ AloneInv
-----------------------------------------------------------------------------
LEMMA InitRef == Init => RefInv
<1> SUFFICES ASSUME Init PROVE RefInv
  OBVIOUS
<1> USE DEF Init
<1>1. TypeOK
  BY ReferenceAssumption DEF TypeOK, Stages
<1>2. TablesInv
  BY DEF TablesInv, Delivered
<1>3. HoldsInv /\ AloneInv
  BY DEF HoldsInv, AloneInv, Working
<1> QED  BY <1>1, <1>2, <1>3 DEF RefInv

(* Every step of every caller, and of its environment, keeps the types. *)
LEMMA StepTypes == RefInv /\ [Next]_vars => TypeOK'
<1> SUFFICES ASSUME RefInv, [Next]_vars PROVE TypeOK'
  OBVIOUS
<1> USE ReferenceAssumption DEF RefInv, TypeOK, library, store, callers, Stages
<1>1. ASSUME NEW c \in Callers, NEW d \in Decisions, Prepare(c, d) PROVE TypeOK'
  <2>1. decision' \in [Decisions -> Decision \cup {None}]
    BY <1>1 DEF Prepare, Decision
  <2> QED  BY <1>1, <2>1 DEF Prepare
<1>2. ASSUME NEW c \in Callers, NEW d \in Decisions, Present(c, d) PROVE TypeOK'
  BY <1>2 DEF Present
<1>3. ASSUME NEW c \in Callers, Deliver(c) PROVE TypeOK'
  <2>1. consumption' \in [Decisions -> Consumption \cup {None}]
    BY <1>3 DEF Deliver, Consumption
  <2> QED  BY <1>3, <2>1 DEF Deliver, Goes
<1>4. ASSUME NEW c \in Callers, Deny(c) PROVE TypeOK'
  BY <1>4 DEF Deny, Goes
<1>5. ASSUME NEW c \in Callers, FallBack(c) PROVE TypeOK'
  <2>1. consumption' \in [Decisions -> Consumption \cup {None}]
    BY <1>5 DEF FallBack, Consumption
  <2> QED  BY <1>5, <2>1 DEF FallBack, Returns
<1>6. ASSUME NEW c \in Callers, Bind(c) PROVE TypeOK'
  <2>1. Delivered(holds[c]) /\ offer = consumption[holds[c]].ref /\ holds[c] \in Decisions
    BY <1>6 DEF Bind, Readable
  <2>2. offer \in References
    BY <2>1 DEF TablesInv
  <2>3. dispatch' \in [Decisions -> Dispatched \cup {None}]
    BY <1>6, <2>2 DEF Bind, Dispatched
  <2> QED  BY <1>6, <2>3 DEF Bind, Goes
<1>7. ASSUME NEW c \in Callers, Decline(c) PROVE TypeOK'
  BY <1>7 DEF Decline, Returns
<1>8. ASSUME NEW c \in Callers, Send(c) PROVE TypeOK'
  BY <1>8 DEF Send, Goes
<1>9. ASSUME NEW c \in Callers, Answer(c) PROVE TypeOK'
  BY <1>9 DEF Answer, Goes
<1>10. ASSUME NEW c \in Callers, Lose(c) \/ Reject(c) PROVE TypeOK'
  BY <1>10 DEF Lose, Reject, Goes
<1>11. ASSUME NEW c \in Callers, Verify(c) PROVE TypeOK'
  BY <1>11 DEF Verify, Returns
<1>12. ASSUME NEW c \in Callers, Fail(c) PROVE TypeOK'
  BY <1>12 DEF Fail, Returns
<1>13. CASE Crash
  BY <1>13 DEF Crash
<1>14. CASE LibraryChanges
  BY <1>14 DEF LibraryChanges
<1>15. CASE Tick
  BY <1>15 DEF Tick
<1>16. CASE UNCHANGED vars
  BY <1>16 DEF vars
<1> QED  BY <1>1, <1>2, <1>3, <1>4, <1>5, <1>6, <1>7, <1>8, <1>9, <1>10, <1>11,
            <1>12, <1>13, <1>14, <1>15, <1>16 DEF Next

(* Each table is only ever extended, and only consistently with the others. *)
LEMMA StepTables == RefInv /\ [Next]_vars => TablesInv'
<1> SUFFICES ASSUME RefInv, [Next]_vars, NEW d \in Decisions
             PROVE  /\ (consumption[d] # None => decision[d] # None)'
                    /\ (Delivered(d) => /\ consumption[d].ref \in References
                                        /\ consumption[d].ref \in decision[d].snapshot)'
                    /\ (dispatch[d] # None => /\ Delivered(d)
                                              /\ dispatch[d].ref = consumption[d].ref
                                              /\ Fresh(d, dispatch[d].at))'
                    /\ (completion[d] # "none" => dispatch[d] # None)'
                    /\ (posts[d] # 0 => posts[d] = 1 /\ dispatch[d] # None)'
  BY DEF TablesInv
<1> DEFINE Rows == /\ (consumption[d] # None => decision[d] # None)'
                   /\ (Delivered(d) => /\ consumption[d].ref \in References
                                       /\ consumption[d].ref \in decision[d].snapshot)'
                   /\ (dispatch[d] # None => /\ Delivered(d)
                                             /\ dispatch[d].ref = consumption[d].ref
                                             /\ Fresh(d, dispatch[d].at))'
                   /\ (completion[d] # "none" => dispatch[d] # None)'
                   /\ (posts[d] # 0 => posts[d] = 1 /\ dispatch[d] # None)'
<1> USE ReferenceAssumption DEF RefInv, TypeOK, TablesInv, HoldsInv, Working, Delivered, Fresh
<1>1. ASSUME NEW c \in Callers, NEW e \in Decisions, Prepare(c, e) PROVE Rows
  BY <1>1 DEF Prepare
<1>2. ASSUME NEW c \in Callers, NEW e \in Decisions, Present(c, e) PROVE Rows
  BY <1>2 DEF Present, store
<1>3. ASSUME NEW c \in Callers, Deliver(c) PROVE Rows
  BY <1>3 DEF Deliver
<1>4. ASSUME NEW c \in Callers, Deny(c) PROVE Rows
  BY <1>4 DEF Deny, store
<1>5. ASSUME NEW c \in Callers, FallBack(c) PROVE Rows
  BY <1>5 DEF FallBack
<1>6. ASSUME NEW c \in Callers, Bind(c) PROVE Rows
  BY <1>6 DEF Bind, Readable
<1>7. ASSUME NEW c \in Callers, Decline(c) PROVE Rows
  BY <1>7 DEF Decline, store
<1>8. ASSUME NEW c \in Callers, Send(c) PROVE Rows
  BY <1>8 DEF Send, store
<1>9. ASSUME NEW c \in Callers, Answer(c) PROVE Rows
  BY <1>9 DEF Answer, store
<1>10. ASSUME NEW c \in Callers, Lose(c) \/ Reject(c) PROVE Rows
  BY <1>10 DEF Lose, Reject, store
<1>11. ASSUME NEW c \in Callers, Verify(c) PROVE Rows
  BY <1>11 DEF Verify
<1>12. ASSUME NEW c \in Callers, Fail(c) PROVE Rows
  BY <1>12 DEF Fail
<1>13. CASE Crash
  BY <1>13 DEF Crash, store
<1>14. CASE LibraryChanges
  BY <1>14 DEF LibraryChanges, store
<1>15. CASE Tick
  BY <1>15 DEF Tick, store
<1>16. CASE UNCHANGED vars
  BY <1>16 DEF vars, store
<1> QED  BY <1>1, <1>2, <1>3, <1>4, <1>5, <1>6, <1>7, <1>8, <1>9, <1>10, <1>11,
            <1>12, <1>13, <1>14, <1>15, <1>16 DEF Next

(* A caller that steps finds what it knew; one that does not keeps it, *)
(* because a decision that somebody works on is nobody else's.         *)
LEMMA StepHolds == RefInv /\ [Next]_vars => HoldsInv'
<1> SUFFICES ASSUME RefInv, [Next]_vars, NEW b \in Callers
             PROVE  /\ (stage[b] \in {"prepared", "denied"} => decision[holds[b]] # None)'
                    /\ (stage[b] = "pointed" => Delivered(holds[b]))'
                    /\ (stage[b] \in Working =>
                          /\ dispatch[holds[b]] # None
                          /\ completion[holds[b]] = "none"
                          /\ (stage[b] = "bound" => posts[holds[b]] = 0)
                          /\ (stage[b] \in {"sent", "recorded"} => posts[holds[b]] = 1))'
  BY DEF HoldsInv
<1> DEFINE Knows == /\ (stage[b] \in {"prepared", "denied"} => decision[holds[b]] # None)'
                    /\ (stage[b] = "pointed" => Delivered(holds[b]))'
                    /\ (stage[b] \in Working =>
                          /\ dispatch[holds[b]] # None
                          /\ completion[holds[b]] = "none"
                          /\ (stage[b] = "bound" => posts[holds[b]] = 0)
                          /\ (stage[b] \in {"sent", "recorded"} => posts[holds[b]] = 1))'
<1> USE ReferenceAssumption DEF RefInv, TypeOK, TablesInv, HoldsInv, AloneInv, Working, Delivered, Stages
<1>1. ASSUME NEW c \in Callers, NEW e \in Decisions, Prepare(c, e) PROVE Knows
  <2>1. [snapshot |-> listed, made |-> clock] # None
    BY DEF Decision
  <2> QED  BY <1>1, <2>1 DEF Prepare
<1>2. ASSUME NEW c \in Callers, NEW e \in Decisions, Present(c, e) PROVE Knows
  BY <1>2 DEF Present, store
<1>3. ASSUME NEW c \in Callers, Deliver(c) PROVE Knows
  <2>1. [kind |-> "delivery", ref |-> offer] # None
    BY DEF Consumption
  <2> QED  BY <1>3, <2>1 DEF Deliver, Goes
<1>4. ASSUME NEW c \in Callers, Deny(c) PROVE Knows
  BY <1>4 DEF Deny, store, Goes
<1>5. ASSUME NEW c \in Callers, FallBack(c) PROVE Knows
  BY <1>5 DEF FallBack, Returns
<1>6. ASSUME NEW c \in Callers, Bind(c) PROVE Knows
  <2>1. offer \in References
    BY <1>6 DEF Bind, Readable
  <2>2. [ref |-> offer, at |-> clock] # None
    BY <2>1 DEF Dispatched
  <2>3. posts[holds[c]] = 0 /\ completion[holds[c]] = "none"
    BY <1>6 DEF Bind
  <2> QED  BY <1>6, <2>2, <2>3 DEF Bind, Goes
<1>7. ASSUME NEW c \in Callers, Decline(c) PROVE Knows
  BY <1>7 DEF Decline, store, Returns
<1>8. ASSUME NEW c \in Callers, Send(c) PROVE Knows
  BY <1>8 DEF Send, store, Goes
<1>9. ASSUME NEW c \in Callers, Answer(c) PROVE Knows
  BY <1>9 DEF Answer, store, Goes
<1>10. ASSUME NEW c \in Callers, Lose(c) \/ Reject(c) PROVE Knows
  BY <1>10 DEF Lose, Reject, store, Goes
<1>11. ASSUME NEW c \in Callers, Verify(c) PROVE Knows
  BY <1>11 DEF Verify, Returns
<1>12. ASSUME NEW c \in Callers, Fail(c) PROVE Knows
  BY <1>12 DEF Fail, Returns
<1>13. CASE Crash
  BY <1>13 DEF Crash, store
<1>14. CASE LibraryChanges
  BY <1>14 DEF LibraryChanges, store, callers
<1>15. CASE Tick
  BY <1>15 DEF Tick, store, callers
<1>16. CASE UNCHANGED vars
  BY <1>16 DEF vars, store, callers
<1> QED  BY <1>1, <1>2, <1>3, <1>4, <1>5, <1>6, <1>7, <1>8, <1>9, <1>10, <1>11,
            <1>12, <1>13, <1>14, <1>15, <1>16 DEF Next

(* Only _bind lets a caller work on a decision, and only one that nobody is *)
(* working on.                                                              *)
LEMMA StepAlone == RefInv /\ [Next]_vars => AloneInv'
<1> SUFFICES ASSUME RefInv, [Next]_vars, NEW a \in Callers, NEW b \in Callers,
                    (stage[a] \in Working /\ stage[b] \in Working /\ holds[a] = holds[b])'
             PROVE  a = b
  BY DEF AloneInv
<1> USE ReferenceAssumption DEF RefInv, TypeOK, HoldsInv, AloneInv, Working, Stages
<1>1. ASSUME NEW c \in Callers, NEW e \in Decisions, Prepare(c, e) \/ Present(c, e)
      PROVE a = b
  BY <1>1 DEF Prepare, Present
<1>2. ASSUME NEW c \in Callers, Bind(c) PROVE a = b
  BY <1>2 DEF Bind, Goes
<1>3. ASSUME NEW c \in Callers,
             \/ Deliver(c) \/ Deny(c) \/ Send(c) \/ Answer(c) \/ Lose(c) \/ Reject(c)
      PROVE a = b
  BY <1>3 DEF Deliver, Deny, Send, Answer, Lose, Reject, Goes
<1>4. ASSUME NEW c \in Callers, FallBack(c) \/ Decline(c) \/ Verify(c) \/ Fail(c)
      PROVE a = b
  BY <1>4 DEF FallBack, Decline, Verify, Fail, Returns
<1>5. CASE Crash
  BY <1>5 DEF Crash
<1>6. CASE LibraryChanges \/ Tick \/ UNCHANGED vars
  BY <1>6 DEF LibraryChanges, Tick, vars, callers
<1> QED  BY <1>1, <1>2, <1>3, <1>4, <1>5, <1>6 DEF Next

LEMMA RefInvariant == Spec => []RefInv
<1>1. RefInv /\ [Next]_vars => RefInv'
  BY StepTypes, StepTables, StepHolds, StepAlone DEF RefInv
<1> QED  BY InitRef, <1>1, PTL DEF Spec
-----------------------------------------------------------------------------
(* Type correctness of the single-use reference: the schema of its tables    *)
(* and the stages of its callers, for any number of both.                    *)
THEOREM ReferenceTypes == Spec => []TypeOK
BY RefInvariant, PTL DEF RefInv

(* What is bound and sent is the version that was delivered, which was       *)
(* listed when the decision was made, and it was bound while that was fresh. *)
THEOREM ReferenceKept == Spec => []OneReference
<1>1. RefInv => OneReference
  BY DEF RefInv, TablesInv, OneReference
<1> QED  BY RefInvariant, <1>1, PTL

(* An execution is verified only while the library offers what was sent, and *)
(* it was sent once and passed.                                              *)
THEOREM VerifiedCurrent == Spec => VerifiedIsCurrent
<1> DEFINE Now == \A d \in Decisions : completion[d] # "verified" /\ completion'[d] = "verified" =>
                    /\ offer = dispatch[d].ref
                    /\ posts[d] = 1
                    /\ history[d] = "passed"
<1>1. RefInv /\ [Next]_vars => [Now]_vars
  <2> SUFFICES ASSUME RefInv, [Next]_vars, NEW d \in Decisions,
                      completion[d] # "verified", completion'[d] = "verified"
               PROVE  offer = dispatch[d].ref /\ posts[d] = 1 /\ history[d] = "passed"
    OBVIOUS
  <2>1. PICK c \in Callers : Verify(c) \/ Fail(c)
    BY DEF Next, vars, store, Prepare, Present, Deliver, Deny, FallBack, Bind, Decline,
           Send, Answer, Lose, Reject, Crash, LibraryChanges, Tick
  <2>2. Verify(c) /\ holds[c] = d
    BY <2>1 DEF Verify, Fail, RefInv, TypeOK, Stages
  <2> QED  BY <2>2 DEF Verify, Readable, RefInv, TablesInv, HoldsInv, Working
<1> QED  BY RefInvariant, <1>1, PTL DEF Spec, VerifiedIsCurrent
-----------------------------------------------------------------------------
LifeOf == [d \in Decisions |-> Life(d)]

(* One decision moves along the table of OneShot, the others stay. *)
LEMMA LifeMoves ==
  ASSUME NEW e \in Decisions, NEW to \in Abstract!Lives,
         <<Life(e), to>> \in Abstract!Moves,
         Life(e)' = to, \A d \in Decisions \ {e} : Life(d)' = Life(d),
         posts' = posts
  PROVE  Abstract!Advance(e)
<1>1. LifeOf' = [LifeOf EXCEPT ![e] = to]
  BY DEF LifeOf
<1> QED  BY <1>1 DEF Abstract!Advance, LifeOf

LEMMA LifeStays ==
  ASSUME UNCHANGED store PROVE LifeOf' = LifeOf
BY DEF store, LifeOf, Life, Delivered

(* LocalReference implements the single-use promise: a pointer presented any *)
(* number of times, by any callers, across crashes and lost answers, is      *)
(* executed at most once, and a recorded outcome is final.                   *)
THEOREM Implements == Spec => ImplementsOneShot
<1>1. Init => Abstract!Init
  BY DEF Init, Abstract!Init, Life, Delivered
<1>2. RefInv /\ [Next]_vars => [Abstract!Next]_<<LifeOf, posts>>
  <2> SUFFICES ASSUME RefInv, [Next]_vars
               PROVE  Abstract!Next \/ UNCHANGED <<LifeOf, posts>>
    OBVIOUS
  <2> USE ReferenceAssumption DEF RefInv, TypeOK, TablesInv, HoldsInv, Working, Stages
  <2>0. ASSUME NEW c \in Callers, stage[c] \in {"prepared", "denied"} \cup Working
         PROVE  holds[c] \in Decisions
    BY <2>0
  <2>1. ASSUME NEW c \in Callers, NEW e \in Decisions, Prepare(c, e) PROVE Abstract!Advance(e)
    <3>1. [snapshot |-> listed, made |-> clock] # None
      BY DEF Decision
    <3>2. Life(e) = "none" /\ Life(e)' = "open"
      BY <2>1, <3>1 DEF Prepare, Life, Delivered
    <3>3. \A d \in Decisions \ {e} : Life(d)' = Life(d)
      BY <2>1 DEF Prepare, Life, Delivered
    <3>4. "open" \in Abstract!Lives /\ <<"none", "open">> \in Abstract!Moves
      BY DEF Abstract!Lives, Abstract!Moves
    <3> QED  BY <2>1, <3>2, <3>3, <3>4, LifeMoves DEF Prepare
  <2>2. ASSUME NEW c \in Callers, Deliver(c) PROVE Abstract!Advance(holds[c])
    <3>0. PICK e \in Decisions : e = holds[c]
      BY <2>2, <2>0 DEF Deliver, FallBack, Bind, Verify, Fail, Send
    <3>1. [kind |-> "delivery", ref |-> offer] # None
      BY DEF Consumption
    <3>2. e \in Decisions /\ Life(e) = "open" /\ Life(e)' = "delivered"
      BY <2>2, <3>0, <3>1 DEF Deliver, Life, Delivered
    <3>3. \A d \in Decisions \ {e} : Life(d)' = Life(d)
      BY <2>2, <3>0 DEF Deliver, Life, Delivered
    <3>4. "delivered" \in Abstract!Lives /\ <<"open", "delivered">> \in Abstract!Moves
      BY DEF Abstract!Lives, Abstract!Moves
    <3> QED  BY <2>2, <3>0, <3>2, <3>3, <3>4, LifeMoves DEF Deliver
  <2>3. ASSUME NEW c \in Callers, FallBack(c)
        PROVE  Abstract!Advance(holds[c]) \/ UNCHANGED <<LifeOf, posts>>
    <3>0. PICK e \in Decisions : e = holds[c]
      BY <2>3, <2>0 DEF Deliver, FallBack, Bind, Verify, Fail, Send
    <3>1. CASE UNCHANGED consumption
      BY <2>3, <3>0, <3>1, LifeStays DEF FallBack, store
    <3>2. CASE consumption' # consumption
      <4>1. [kind |-> "fallback", ref |-> None] # None
        BY DEF Consumption
      <4>2. e \in Decisions /\ Life(e) = "open" /\ Life(e)' = "fallback"
        BY <2>3, <3>0, <3>2, <4>1 DEF FallBack, Life, Delivered
      <4>3. \A d \in Decisions \ {e} : Life(d)' = Life(d)
        BY <2>3, <3>0, <3>2 DEF FallBack, Life, Delivered
      <4>4. "fallback" \in Abstract!Lives /\ <<"open", "fallback">> \in Abstract!Moves
        BY DEF Abstract!Lives, Abstract!Moves
      <4> QED  BY <2>3, <3>0, <4>2, <4>3, <4>4, LifeMoves DEF FallBack
    <3> QED  BY <3>1, <3>2
  <2>4. ASSUME NEW c \in Callers, Bind(c) PROVE Abstract!Advance(holds[c])
    <3>0. PICK e \in Decisions : e = holds[c]
      BY <2>4, <2>0 DEF Deliver, FallBack, Bind, Verify, Fail, Send
    <3>1. e \in Decisions /\ offer \in References /\ Delivered(e)
      BY <2>4, <3>0 DEF Bind, Readable
    <3>2. [ref |-> offer, at |-> clock] # None
      BY <3>1 DEF Dispatched
    <3>3. Life(e) = "delivered" /\ Life(e)' = "running"
      BY <2>4, <3>0, <3>1, <3>2 DEF Bind, Life, Delivered
    <3>4. \A d \in Decisions \ {e} : Life(d)' = Life(d)
      BY <2>4, <3>0 DEF Bind, Life, Delivered
    <3>5. "running" \in Abstract!Lives /\ <<"delivered", "running">> \in Abstract!Moves
      BY DEF Abstract!Lives, Abstract!Moves
    <3> QED  BY <2>4, <3>0, <3>1, <3>3, <3>4, <3>5, LifeMoves DEF Bind
  <2>5. ASSUME NEW c \in Callers, Verify(c) PROVE Abstract!Advance(holds[c])
    <3>0. PICK e \in Decisions : e = holds[c]
      BY <2>5, <2>0 DEF Deliver, FallBack, Bind, Verify, Fail, Send
    <3>1. e \in Decisions /\ Life(e) = "running" /\ Life(e)' = "verified"
      BY <2>5, <3>0 DEF Verify, Life
    <3>2. \A d \in Decisions \ {e} : Life(d)' = Life(d)
      BY <2>5, <3>0 DEF Verify, Life, Delivered
    <3>3. "verified" \in Abstract!Lives /\ <<"running", "verified">> \in Abstract!Moves
      BY DEF Abstract!Lives, Abstract!Moves
    <3> QED  BY <2>5, <3>0, <3>1, <3>2, <3>3, LifeMoves DEF Verify
  <2>6. ASSUME NEW c \in Callers, Fail(c)
        PROVE  Abstract!Advance(holds[c]) \/ UNCHANGED <<LifeOf, posts>>
    <3>0. PICK e \in Decisions : e = holds[c]
      BY <2>6, <2>0 DEF Deliver, FallBack, Bind, Verify, Fail, Send
    <3>1. CASE UNCHANGED completion
      BY <2>6, <3>0, <3>1, LifeStays DEF Fail, store
    <3>2. CASE completion' # completion
      <4>1. e \in Decisions /\ Life(e) = "running" /\ Life(e)' = "failed"
        BY <2>6, <3>0, <3>2 DEF Fail, Life
      <4>2. \A d \in Decisions \ {e} : Life(d)' = Life(d)
        BY <2>6, <3>0, <3>2 DEF Fail, Life, Delivered
      <4>3. "failed" \in Abstract!Lives /\ <<"running", "failed">> \in Abstract!Moves
        BY DEF Abstract!Lives, Abstract!Moves
      <4> QED  BY <2>6, <3>0, <4>1, <4>2, <4>3, LifeMoves DEF Fail
    <3> QED  BY <3>1, <3>2
  <2>7. ASSUME NEW c \in Callers, Send(c) PROVE Abstract!Post(holds[c])
    <3>0. PICK e \in Decisions : e = holds[c]
      BY <2>7, <2>0 DEF Deliver, FallBack, Bind, Verify, Fail, Send
    <3>1. e \in Decisions /\ Life(e) = "running" /\ posts[e] = 0
      BY <2>7, <3>0 DEF Send, Life
    <3>2. LifeOf' = LifeOf
      BY <2>7, <3>0, LifeStays DEF Send
    <3>3. posts' = [posts EXCEPT ![e] = 1]
      BY <2>7, <3>0, <3>1 DEF Send
    <3> QED  BY <3>0, <3>1, <3>2, <3>3 DEF Abstract!Post, LifeOf
  <2>8. ASSUME NEW c \in Callers, NEW d \in Decisions, Present(c, d)
        PROVE  UNCHANGED <<LifeOf, posts>>
    BY <2>8, LifeStays DEF Present
  <2>9. ASSUME Crash \/ LibraryChanges \/ Tick \/ UNCHANGED vars
        PROVE  UNCHANGED <<LifeOf, posts>>
    BY <2>9, LifeStays DEF Crash, LibraryChanges, Tick, vars
  <2>10. ASSUME NEW c \in Callers, \/ Deny(c) \/ Decline(c) \/ Answer(c) \/ Lose(c) \/ Reject(c)
         PROVE  UNCHANGED <<LifeOf, posts>>
    BY <2>10, LifeStays DEF Deny, Decline, Answer, Lose, Reject
  <2> QED
    BY <2>1, <2>2, <2>3, <2>4, <2>5, <2>6, <2>7, <2>8, <2>9, <2>10
    DEF Next, Abstract!Next, Deliver, FallBack, Bind, Verify, Fail, Send
<1> QED
  BY RefInvariant, <1>1, <1>2, PTL DEF Spec, ImplementsOneShot, Abstract!Spec, LifeOf
=============================================================================
