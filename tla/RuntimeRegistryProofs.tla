----------------------- MODULE RuntimeRegistryProofs -----------------------
(***************************************************************************)
(* Proofs, for every set of packages, dispatches, operators and analyses,  *)
(* of what RuntimeRegistry promises.                                       *)
(*                                                                         *)
(* The life of the row has five points and no way back (ApprovedOnce), so  *)
(* a revision that was approved is the only one; everything else is what a *)
(* dispatch carries from stage to stage (Carried).                         *)
(***************************************************************************)
EXTENDS RuntimeRegistry, SequenceTheorems, TLAPS

(* Each disjunct of Next leaves every value in its type. *)
LEMMA Types == TypeOK /\ [Next]_vars => TypeOK'
<1> SUFFICES ASSUME TypeOK, [Next]_vars PROVE TypeOK'
  OBVIOUS
<1> USE RegistryAssumption DEF TypeOK, Statuses, Stages, Approval, Receipt, Use, Origin,
        registry, dispatch
<1>1. CASE UNCHANGED vars
  BY <1>1 DEF vars
<1>2. CASE Replace
  BY <1>2 DEF Replace
<1>3. CASE Register
  <2>1. disk \in Packages
    BY <1>3 DEF Register
  <2>2. row' \in [status : Statuses, revision : Nat, manifest : Packages \cup {None}]
    BY <1>3, <2>1 DEF Register
  <2> QED BY <1>3, <2>2 DEF Register
<1>4. CASE ClearHistory
  BY <1>4 DEF ClearHistory
<1>5. ASSUME NEW o \in Operators, CheckPackage(o) PROVE TypeOK'
  BY <1>5 DEF CheckPackage
<1>6. ASSUME NEW o \in Operators, NEW n \in 1..2, Approve(o, n) PROVE TypeOK'
  <2>1. row' \in [status : Statuses, revision : Nat, manifest : Packages \cup {None}]
    <3>1. row' = [row EXCEPT !.status = "approved", !.revision = row.revision + 1]
      BY <1>6 DEF Approve, Transition
    <3>2. row = [status |-> row.status, revision |-> row.revision, manifest |-> row.manifest]
      OBVIOUS
    <3>3. row' = [status |-> "approved", revision |-> row.revision + 1, manifest |-> row.manifest]
      BY <3>1, <3>2
    <3>4. row.revision + 1 \in Nat /\ row.manifest \in Packages \cup {None}
      OBVIOUS
    <3> QED BY <3>3, <3>4
  <2>2. audit' \in Seq(Statuses)
    <3>1. audit \in Seq(Statuses) /\ "approved" \in Statuses /\ audit' = Append(audit, "approved")
      BY <1>6 DEF Approve, Transition
    <3> HIDE DEF Statuses
    <3> QED BY <3>1, SMT
  <2> QED BY <1>6, <2>1, <2>2 DEF Approve
<1>7. ASSUME NEW n \in 1..2, Retire(n) PROVE TypeOK'
  <2>1. row' \in [status : Statuses, revision : Nat, manifest : Packages \cup {None}]
    <3>1. row' = [row EXCEPT !.status = "retired", !.revision = row.revision + 1]
      BY <1>7 DEF Retire, Transition
    <3>2. row = [status |-> row.status, revision |-> row.revision, manifest |-> row.manifest]
      OBVIOUS
    <3>3. row' = [status |-> "retired", revision |-> row.revision + 1, manifest |-> row.manifest]
      BY <3>1, <3>2
    <3>4. row.revision + 1 \in Nat /\ row.manifest \in Packages \cup {None}
      OBVIOUS
    <3> QED BY <3>3, <3>4
  <2>2. audit' \in Seq(Statuses)
    <3>1. audit \in Seq(Statuses) /\ "retired" \in Statuses /\ audit' = Append(audit, "retired")
      BY <1>7 DEF Retire, Transition
    <3> HIDE DEF Statuses
    <3> QED BY <3>1, SMT
  <2> QED BY <1>7, <2>1, <2>2 DEF Retire
<1>8. ASSUME NEW d \in Dispatches, NEW r \in Runs, Begin(d, r) PROVE TypeOK'
  BY <1>8 DEF Begin
<1>9. ASSUME NEW d \in Dispatches, ReadPackage(d) PROVE TypeOK'
  <2>1. held' \in [Dispatches -> (Packages \cup {None}) \X (Packages \cup {None})]
    <3>1. held[d][1] \in Packages \cup {None} /\ disk \in Packages \cup {None}
      OBVIOUS
    <3>2. held' = [held EXCEPT ![d] = <<held[d][1], disk>>]
      BY <1>9 DEF ReadPackage
    <3> QED BY <3>1, <3>2
  <2>2. stage' \in [Dispatches -> Stages] /\ \A e \in Dispatches : stage'[e] # "idle" => runOf[e] # None
    <3>1. /\ stage[d] # "idle"
          /\ \E x \in Stages : stage' = [stage EXCEPT ![d] = x]
      BY <1>9 DEF ReadPackage
    <3>2. /\ stage \in [Dispatches -> Stages]
          /\ \A e \in Dispatches : stage[e] # "idle" => runOf[e] # None
      OBVIOUS
    <3> QED BY ONLY <3>1, <3>2
  <2> QED BY <1>9, <2>1, <2>2 DEF ReadPackage
<1>10. ASSUME NEW d \in Dispatches, Post(d) PROVE TypeOK'
  <2>1. before'[d] \in Approval \cup {None}
    <3>1. CASE Eligible(held[d][1], held[d][2])
      <4>1. row.manifest \in Packages /\ row.revision \in Nat
        BY <3>1 DEF Eligible
      <4> QED BY <1>10, <3>1, <4>1 DEF Post
    <3>2. CASE ~Eligible(held[d][1], held[d][2])
      BY <1>10, <3>2 DEF Post
    <3> QED BY <3>1, <3>2
  <2>2. before' \in [Dispatches -> Approval \cup {None}]
    BY <1>10, <2>1 DEF Post
  <2> QED BY <1>10, <2>2 DEF Post
<1>11. ASSUME NEW d \in Dispatches, Lose(d) PROVE TypeOK'
  BY <1>11 DEF Lose
<1>12. ASSUME NEW d \in Dispatches, Recheck(d) PROVE TypeOK'
  BY <1>12 DEF Recheck
<1>13. ASSUME NEW d \in Dispatches, Complete(d) PROVE TypeOK'
  <2>1. receipts' \in [Dispatches -> Receipt \cup {None}]
    <3>1. CASE receipts' = receipts
      BY <3>1
    <3>2. CASE receipts' # receipts
      <4>1. receipts' = [receipts EXCEPT ![d] =
              [run |-> runOf[d], observed |-> row.revision, eligible |-> Stands(d)]]
        BY <1>13, <3>2 DEF Complete
      <4>2. runOf[d] \in Runs /\ row.revision \in Nat
        BY <1>13 DEF Complete
      <4>3. Stands(d) \in BOOLEAN
        BY DEF Stands
      <4> QED BY <4>1, <4>2, <4>3
    <3> QED BY <3>1, <3>2
  <2> QED BY <1>13, <2>1 DEF Complete
<1>14. ASSUME NEW d \in Dispatches, NEW x \in Runtimes \cup {None}, Answer(d, x) PROVE TypeOK'
  BY <1>14 DEF Answer
<1>15. ASSUME NEW d \in Dispatches, NEW x \in Outputs \cup {None}, Note(d, x) PROVE TypeOK'
  BY <1>15 DEF Note
<1>16. ASSUME NEW a \in Analyses, Verify(a) PROVE TypeOK'
  BY <1>16 DEF Verify
<1>17. ASSUME NEW a \in Analyses, NEW d \in Dispatches, NEW r \in Runs \cup {None},
              NEW x \in Outputs, Resolve(a, d, r, x) PROVE TypeOK'
  BY <1>17 DEF Resolve
<1> QED
  BY <1>1, <1>2, <1>3, <1>4, <1>5, <1>6, <1>7, <1>8, <1>9, <1>10, <1>11, <1>12, <1>13,
     <1>14, <1>15, <1>16, <1>17 DEF Next

-----------------------------------------------------------------------------
(* What a dispatch carries: the approval it captured is the only one there   *)
(* ever was, the contract it sends is the registered one, a window that      *)
(* matched saw the runtime of that contract.                                 *)
Captured(d) ==
  /\ before[d] = [revision |-> 2, manifest |-> row.manifest]
  /\ row.manifest \in Packages /\ row.manifest \in Production
  /\ row.revision >= 2 /\ audit[2] = "approved"

Safe(d) ==
  /\ before[d] # None => Captured(d) /\ stage[d] \notin {"idle", "capturing", "checking"}
  /\ before[d] # None /\ stage[d] \in {"posted", "answered", "rechecking"} =>
       held[d][1] \in Packages /\ Contract[held[d][1]] = Contract[row.manifest]
  /\ d \in window => /\ before[d] # None /\ ran[d] = Runtime[row.manifest]
                     /\ stage[d] \in {"closed", "noting", "over"}
  /\ receipts[d] # None => d \in window
  /\ history[d] # None => stage[d] = "over"

Carried == \A d \in Dispatches : Safe(d)

(* A resolved history row is that of a dispatch that is over. *)
Resolved ==
  /\ \A a \in Analyses : source[a] # None =>
       /\ stage[source[a].dispatch] = "over"
       /\ history[source[a].dispatch] \in {source[a].output, None}
  /\ \A u \in used : stage[u.dispatch] = "over"

IInv == /\ TypeOK /\ ApprovedOnce /\ Carried /\ Resolved
        /\ ReceiptStood /\ UseIsCovered /\ UseIsOfOutput

-----------------------------------------------------------------------------
(* The three ways the audit grows once there is a row. *)
LEMMA Grown ==
  /\ Append(<<"candidate">>, "approved") = <<"candidate", "approved">>
  /\ Append(<<"candidate">>, "retired") = <<"candidate", "retired">>
  /\ Append(<<"candidate", "approved">>, "retired") = <<"candidate", "approved", "retired">>
<1> DEFINE two == <<"candidate", "approved">>
           gone == <<"candidate", "retired">>
           three == <<"candidate", "approved", "retired">>
<1>1. /\ <<"candidate">> \in Seq(Statuses) /\ two \in Seq(Statuses)
      /\ gone \in Seq(Statuses) /\ three \in Seq(Statuses)
      /\ "approved" \in Statuses /\ "retired" \in Statuses
  BY DEF Statuses
<1>2. Append(<<"candidate">>, "approved") = two
  <2>1. Append(<<"candidate">>, "approved") \in Seq(Statuses)
    BY <1>1
  <2>2. Len(Append(<<"candidate">>, "approved")) = 2 /\ Len(two) = 2
    OBVIOUS
  <2>3. \A i \in 1..2 : Append(<<"candidate">>, "approved")[i] = two[i]
    OBVIOUS
  <2>4. \A i \in 1..Len(Append(<<"candidate">>, "approved")) : Append(<<"candidate">>, "approved")[i] = two[i]
    BY <2>2, <2>3
  <2> HIDE DEF two
  <2> QED BY <1>1, <2>1, <2>2, <2>4, SeqEqual
<1>3. Append(<<"candidate">>, "retired") = gone
  <2>1. Append(<<"candidate">>, "retired") \in Seq(Statuses)
    BY <1>1
  <2>2. Len(Append(<<"candidate">>, "retired")) = 2 /\ Len(gone) = 2
    OBVIOUS
  <2>3. \A i \in 1..2 : Append(<<"candidate">>, "retired")[i] = gone[i]
    OBVIOUS
  <2>4. \A i \in 1..Len(Append(<<"candidate">>, "retired")) : Append(<<"candidate">>, "retired")[i] = gone[i]
    BY <2>2, <2>3
  <2> HIDE DEF gone
  <2> QED BY <1>1, <2>1, <2>2, <2>4, SeqEqual
<1>4. Append(two, "retired") = three
  <2>1. Append(two, "retired") \in Seq(Statuses)
    BY <1>1
  <2>2. Len(Append(two, "retired")) = 3 /\ Len(three) = 3
    OBVIOUS
  <2>3. \A i \in 1..3 : Append(two, "retired")[i] = three[i]
    OBVIOUS
  <2>4. \A i \in 1..Len(Append(two, "retired")) : Append(two, "retired")[i] = three[i]
    BY <2>2, <2>3
  <2> HIDE DEF three
  <2> QED BY <1>1, <2>1, <2>2, <2>4, SeqEqual
<1> QED BY <1>2, <1>3, <1>4

(* The point of its life tells the audit. *)
LEMMA RowLife ==
  ASSUME TypeOK, ApprovedOnce
  PROVE  /\ row.status = "none" => audit = <<>> /\ row.revision = 0
         /\ row.status = "candidate" => audit = <<"candidate">> /\ row.revision = 1
         /\ row.status = "approved" =>
              audit = <<"candidate", "approved">> /\ row.revision = 2
<1>1. CASE audit = <<>>
  BY <1>1 DEF ApprovedOnce
<1>2. CASE audit = <<"candidate">>
  BY <1>2 DEF ApprovedOnce
<1>3. CASE audit = <<"candidate", "approved">>
  BY <1>3 DEF ApprovedOnce
<1>4. CASE audit = <<"candidate", "retired">>
  BY <1>4 DEF ApprovedOnce
<1>5. CASE audit = <<"candidate", "approved", "retired">>
  BY <1>5 DEF ApprovedOnce
<1> QED BY <1>1, <1>2, <1>3, <1>4, <1>5 DEF ApprovedOnce

(* The registry's own actions. *)
RegistryStep ==
  \/ Register
  \/ \E o \in Operators : CheckPackage(o) \/ \E n \in 1..2 : Approve(o, n)
  \/ \E n \in 1..2 : Retire(n)

(* Every other action leaves the registry alone. *)
LEMMA OthersKeep == [Next]_vars /\ ~RegistryStep => UNCHANGED <<row, audit>>
<1> SUFFICES ASSUME [Next]_vars, ~RegistryStep PROVE UNCHANGED <<row, audit>>
  OBVIOUS
<1> USE DEF registry, dispatch
<1>1. CASE UNCHANGED vars
  BY <1>1 DEF vars
<1>2. CASE Replace \/ ClearHistory
  BY <1>2 DEF Replace, ClearHistory
<1>3. ASSUME NEW d \in Dispatches,
             \/ \E r \in Runs : Begin(d, r)
             \/ ReadPackage(d) \/ Post(d) \/ Lose(d) \/ Recheck(d) \/ Complete(d)
             \/ \E x \in Runtimes \cup {None} : Answer(d, x)
             \/ \E x \in Outputs \cup {None} : Note(d, x)
      PROVE  UNCHANGED <<row, audit>>
  BY <1>3 DEF Begin, ReadPackage, Post, Lose, Recheck, Complete, Answer, Note
<1>4. ASSUME NEW a \in Analyses,
             \/ Verify(a)
             \/ \E d \in Dispatches, r \in Runs \cup {None}, x \in Outputs :
                  Resolve(a, d, r, x)
      PROVE  UNCHANGED <<row, audit>>
  BY <1>4 DEF Verify, Resolve
<1> QED BY <1>1, <1>2, <1>3, <1>4 DEF Next, RegistryStep

(* A registry step leaves dispatches and analyses alone. *)
LEMMA RegistryKeeps == RegistryStep => UNCHANGED <<dispatch, source, used>>
BY DEF RegistryStep, Register, CheckPackage, Approve, Retire, Transition

(* The life of the row goes one way, and its manifest and its approval stay. *)
LEMMA LifeStep ==
  ASSUME TypeOK, ApprovedOnce, [Next]_vars
  PROVE  /\ ApprovedOnce'
         /\ row.status # "none" => row'.manifest = row.manifest
         /\ row.revision >= 2 => row'.revision >= 2 /\ audit'[2] = audit[2]
<1>0. CASE ~RegistryStep
  BY <1>0, OthersKeep DEF ApprovedOnce
<1>1. CASE Register
  BY <1>1, RowLife DEF Register, ApprovedOnce
<1>2. ASSUME NEW o \in Operators, CheckPackage(o)
      PROVE  UNCHANGED <<row, audit>>
  BY <1>2 DEF CheckPackage
<1>3. ASSUME NEW o \in Operators, NEW n \in 1..2, Approve(o, n)
      PROVE  /\ ApprovedOnce' /\ row'.manifest = row.manifest
             /\ row.revision = 1
  <2>1. audit = <<"candidate">> /\ row.revision = 1
    BY <1>3, RowLife DEF Approve, Transition
  <2>2. row' = [row EXCEPT !.status = "approved", !.revision = 2]
    BY <1>3, <2>1 DEF Approve, Transition
  <2>3. audit' = <<"candidate", "approved">>
    BY <1>3, <2>1, Grown DEF Approve, Transition
  <2>4. row'.status = "approved" /\ row'.revision = 2 /\ row'.manifest = row.manifest
    BY <2>2 DEF TypeOK
  <2>5. Len(audit') = 2 /\ audit'[2] = "approved" /\ audit' # <<>>
    BY <2>3
  <2>7. row'.revision = Len(audit')
    BY <2>3, <2>4, <2>5
  <2>8. audit' \in { <<>>, <<"candidate">>, <<"candidate", "approved">>,
                    <<"candidate", "retired">>, <<"candidate", "approved", "retired">> }
    BY <2>3
  <2>9. row'.status = IF audit' = <<>> THEN "none" ELSE audit'[Len(audit')]
    BY <2>5, <2>4
  <2>6. ApprovedOnce'
    BY <2>7, <2>8, <2>9, Zenon DEF ApprovedOnce
  <2> QED BY <2>1, <2>4, <2>6
<1>4. ASSUME NEW n \in 1..2, Retire(n)
      PROVE  /\ ApprovedOnce' /\ row'.manifest = row.manifest
             /\ row.revision >= 2 => row'.revision >= 2 /\ audit'[2] = audit[2]
  <2>1. audit \in {<<"candidate">>, <<"candidate", "approved">>} /\ row.revision = Len(audit)
    BY <1>4, RowLife DEF Retire, Transition, ApprovedOnce
  <2>2. row' = [row EXCEPT !.status = "retired", !.revision = row.revision + 1]
    BY <1>4 DEF Retire, Transition
  <2>3. audit' = Append(audit, "retired")
    BY <1>4 DEF Retire, Transition
  <2>4. /\ row'.status = "retired" /\ row'.revision = row.revision + 1
        /\ row'.manifest = row.manifest
    BY <2>2 DEF TypeOK
  <2>5. CASE audit = <<"candidate">>
    <3>1. audit' = <<"candidate", "retired">>
      BY <2>3, <2>5, Grown
    <3>2. row'.revision = 2 /\ row.revision = 1
      BY <2>1, <2>4, <2>5
    <3>3. Len(audit') = 2 /\ audit'[2] = "retired" /\ audit' # <<>>
      BY <3>1
    <3>5. row'.revision = Len(audit')
      BY <3>1, <3>2, <3>3
    <3>6. audit' \in { <<>>, <<"candidate">>, <<"candidate", "approved">>,
                      <<"candidate", "retired">>, <<"candidate", "approved", "retired">> }
      BY <3>1
    <3>7. row'.status = IF audit' = <<>> THEN "none" ELSE audit'[Len(audit')]
      BY <3>3, <2>4
    <3>4. ApprovedOnce'
      BY <3>5, <3>6, <3>7, Zenon DEF ApprovedOnce
    <3> QED BY <3>2, <3>4, <2>4
  <2>6. CASE audit = <<"candidate", "approved">>
    <3>1. audit' = <<"candidate", "approved", "retired">>
      BY <2>3, <2>6, Grown
    <3>2. row'.revision = 3 /\ audit'[2] = audit[2]
      BY <2>1, <2>4, <2>6, <3>1
    <3>3. Len(audit') = 3 /\ audit'[3] = "retired" /\ audit' # <<>>
      BY <3>1
    <3>5. row'.revision = Len(audit')
      BY <3>1, <3>2, <3>3
    <3>6. audit' \in { <<>>, <<"candidate">>, <<"candidate", "approved">>,
                      <<"candidate", "retired">>, <<"candidate", "approved", "retired">> }
      BY <3>1
    <3>7. row'.status = IF audit' = <<>> THEN "none" ELSE audit'[Len(audit')]
      BY <3>3, <2>4
    <3>4. ApprovedOnce'
      BY <3>5, <3>6, <3>7, Zenon DEF ApprovedOnce
    <3> QED BY <3>2, <3>4, <2>4
  <2> QED BY <2>1, <2>5, <2>6
<1> QED
  <2>1. CASE \E o \in Operators : CheckPackage(o)
    BY <1>2, <2>1 DEF ApprovedOnce
  <2>2. CASE \E o \in Operators : \E n \in 1..2 : Approve(o, n)
    BY <1>3, <2>2
  <2>3. CASE Register
    BY <1>1, <2>3, RowLife DEF Register
  <2> QED BY <1>0, <1>1, <1>4, <2>1, <2>2, <2>3 DEF RegistryStep

-----------------------------------------------------------------------------
(* What was captured outlives every change of the registry. *)
LEMMA CapturedStays ==
  ASSUME TypeOK, ApprovedOnce, [Next]_vars,
         NEW d \in Dispatches, Captured(d), before'[d] = before[d]
  PROVE  Captured(d)' /\ row'.manifest = row.manifest
<1>1. row.status # "none"
  BY DEF Captured, ApprovedOnce
<1>2. row'.manifest = row.manifest /\ row'.revision >= 2 /\ audit'[2] = audit[2]
  BY <1>1, LifeStep DEF Captured
<1> QED BY <1>2 DEF Captured

(* Before a capture there is nothing to carry. *)
LEMMA CarriedStep ==
  ASSUME TypeOK, ApprovedOnce, Carried, [Next]_vars
  PROVE  Carried'
<1> SUFFICES ASSUME NEW e \in Dispatches
             PROVE  Safe(e)'
  BY DEF Carried, Safe
<1> DEFINE Mine == <<stage[e], held[e], before[e], ran[e], receipts[e], history[e], e \in window>>
<1>0. ASSUME Mine' = Mine PROVE Safe(e)'
  <2>1. before[e] # None => Captured(e)' /\ row'.manifest = row.manifest
    BY <1>0, CapturedStays DEF Carried, Safe
  <2> QED BY <1>0, <2>1 DEF Carried, Safe
<1>1. CASE UNCHANGED vars \/ Replace \/ RegistryStep
  BY <1>0, <1>1, RegistryKeeps DEF vars, dispatch, Replace
<1>2. CASE ClearHistory
  BY <1>2, OthersKeep, CapturedStays DEF ClearHistory, Carried, Safe, registry, Captured
<1>3. ASSUME NEW a \in Analyses,
             \/ Verify(a)
             \/ \E d \in Dispatches, r \in Runs \cup {None}, x \in Outputs :
                  Resolve(a, d, r, x)
      PROVE  Safe(e)'
  BY <1>0, <1>3 DEF Verify, Resolve, dispatch
<1>4. ASSUME NEW d \in Dispatches, NEW r \in Runs, Begin(d, r) PROVE Safe(e)'
  BY <1>0, <1>4 DEF Begin, TypeOK, Carried, Safe
<1>5. ASSUME NEW d \in Dispatches, ReadPackage(d) PROVE Safe(e)'
  <2>1. CASE d # e
    BY <1>0, <1>5, <2>1 DEF ReadPackage, TypeOK
  <2>2. CASE d = e
    <3>1. UNCHANGED <<row, audit, before, ran, window, receipts, history>>
      BY <1>5 DEF ReadPackage, registry
    <3>2. held'[e][1] = held[e][1]
      BY <1>5, <2>2 DEF ReadPackage, TypeOK
    <3>3. \/ stage[e] = "capturing" /\ stage'[e] = "checking"
          \/ stage[e] = "answered" /\ stage'[e] = "rechecking"
      BY <1>5, <2>2 DEF ReadPackage, TypeOK
    <3> QED BY <3>1, <3>2, <3>3 DEF Carried, Safe, Captured
  <2> QED BY <2>1, <2>2
<1>6. ASSUME NEW d \in Dispatches, Post(d) PROVE Safe(e)'
  <2>1. CASE d # e
    BY <1>0, <1>6, <2>1 DEF Post, TypeOK
  <2>2. CASE d = e
    <3>1. UNCHANGED <<row, audit, ran, window, receipts, history>>
      BY <1>6 DEF Post, registry
    <3>2. stage[e] = "checking" /\ stage'[e] = "posted" /\ held'[e][1] = held[e][1]
      BY <1>6, <2>2 DEF Post, TypeOK
    <3>3. CASE Eligible(held[e][1], held[e][2])
      <4>1. before'[e] = [revision |-> row.revision, manifest |-> row.manifest]
        BY <1>6, <2>2, <3>3 DEF Post, TypeOK
      <4>2. /\ row.manifest \in Packages /\ row.manifest \in Production
            /\ held[e][1] \in Packages /\ Contract[held[e][1]] = Contract[row.manifest]
        BY <3>3 DEF Eligible, TypeOK
      <4>3. row.revision = 2 /\ audit = <<"candidate", "approved">>
        BY <3>3, RowLife DEF Eligible
      <4>4. Captured(e)'
        BY <3>1, <4>1, <4>2, <4>3 DEF Captured
      <4> QED BY <3>1, <3>2, <4>1, <4>2, <4>4 DEF Carried, Safe
    <3>4. CASE ~Eligible(held[e][1], held[e][2])
      <4>1. before'[e] = None
        BY <1>6, <2>2, <3>4 DEF Post, TypeOK
      <4> QED BY <3>1, <3>2, <4>1 DEF Carried, Safe
    <3> QED BY <3>3, <3>4
  <2> QED BY <2>1, <2>2
<1>7. ASSUME NEW d \in Dispatches, NEW x \in Runtimes \cup {None}, Answer(d, x) PROVE Safe(e)'
  <2>1. UNCHANGED <<row, audit>>
    BY <1>7 DEF Answer, registry
  <2> QED BY <1>0, <1>7, <2>1 DEF Answer, TypeOK, Carried, Safe, Captured
<1>8. ASSUME NEW d \in Dispatches, Lose(d) PROVE Safe(e)'
  <2>1. UNCHANGED <<row, audit>>
    BY <1>8 DEF Lose, registry
  <2> QED BY <1>0, <1>8, <2>1 DEF Lose, TypeOK, Carried, Safe, Captured
<1>9. ASSUME NEW d \in Dispatches, Recheck(d) PROVE Safe(e)'
  <2>1. CASE d # e
    BY <1>0, <1>9, <2>1 DEF Recheck, TypeOK
  <2>2. CASE d = e
    <3>1. UNCHANGED <<row, audit, before, ran, receipts, history>>
      BY <1>9 DEF Recheck, registry
    <3>2. stage[e] = "rechecking" /\ stage'[e] = "closed"
      BY <1>9, <2>2 DEF Recheck, TypeOK
    <3>3. e \in window' => Matched(e) \/ e \in window
      BY <1>9, <2>2 DEF Recheck
    <3>4. Matched(e) => before[e] # None /\ ran[e] = Runtime[row.manifest]
      BY <3>2, RegistryAssumption DEF Matched, Carried, Safe, Captured
    <3>5. e \in window => e \in window'
      BY <1>9 DEF Recheck
    <3> QED BY <3>1, <3>2, <3>3, <3>4, <3>5 DEF Carried, Safe, Captured
  <2> QED BY <2>1, <2>2
<1>10. ASSUME NEW d \in Dispatches, Complete(d) PROVE Safe(e)'
  <2>1. UNCHANGED <<row, audit>>
    BY <1>10 DEF Complete, registry
  <2> QED BY <1>0, <1>10, <2>1 DEF Complete, TypeOK, Carried, Safe, Captured
<1>11. ASSUME NEW d \in Dispatches, NEW x \in Outputs \cup {None}, Note(d, x) PROVE Safe(e)'
  <2>1. UNCHANGED <<row, audit>>
    BY <1>11 DEF Note, registry
  <2> QED BY <1>0, <1>11, <2>1 DEF Note, TypeOK, Carried, Safe, Captured
<1> QED
  BY <1>1, <1>2, <1>3, <1>4, <1>5, <1>6, <1>7, <1>8, <1>9, <1>10, <1>11 DEF Next, RegistryStep

-----------------------------------------------------------------------------
(* A receipt is written once and stays, with what was captured. *)
LEMMA ReceiptStays ==
  ASSUME TypeOK, Carried, [Next]_vars, NEW d \in Dispatches, receipts[d] # None
  PROVE  /\ receipts'[d] = receipts[d] /\ before'[d] = before[d] /\ ran'[d] = ran[d]
         /\ stage[d] \in {"closed", "noting", "over"}
<1>1. stage[d] \in {"closed", "noting", "over"}
  BY DEF Carried, Safe
<1>2. ASSUME NEW e \in Dispatches,
             \/ \E r \in Runs : Begin(e, r)
             \/ ReadPackage(e) \/ Post(e) \/ Lose(e) \/ Recheck(e)
             \/ \E x \in Runtimes \cup {None} : Answer(e, x)
             \/ \E x \in Outputs \cup {None} : Note(e, x)
      PROVE  receipts'[d] = receipts[d] /\ before'[d] = before[d] /\ ran'[d] = ran[d]
  BY <1>1, <1>2 DEF Begin, ReadPackage, Post, Lose, Recheck, Answer, Note, TypeOK
<1>3. ASSUME NEW e \in Dispatches, Complete(e)
      PROVE  receipts'[d] = receipts[d] /\ before'[d] = before[d] /\ ran'[d] = ran[d]
  BY <1>3 DEF Complete, TypeOK
<1>4. ASSUME NEW a \in Analyses,
             \/ Verify(a)
             \/ \E e \in Dispatches, r \in Runs \cup {None}, x \in Outputs :
                  Resolve(a, e, r, x)
      PROVE  UNCHANGED dispatch
  BY <1>4 DEF Verify, Resolve
<1>5. CASE UNCHANGED vars \/ Replace \/ RegistryStep \/ ClearHistory
  BY <1>1, <1>5, RegistryKeeps DEF vars, Replace, dispatch, ClearHistory
<1> QED BY <1>1, <1>2, <1>3, <1>4, <1>5 DEF Next, RegistryStep, dispatch

LEMMA ReceiptStep ==
  ASSUME TypeOK, ApprovedOnce, Carried, ReceiptStood, [Next]_vars
  PROVE  ReceiptStood'
<1> SUFFICES ASSUME NEW d \in Dispatches, receipts'[d] # None, receipts'[d].eligible
             PROVE  /\ before'[d] = [revision |-> receipts'[d].observed, manifest |-> row'.manifest]
                    /\ audit'[receipts'[d].observed] = "approved"
                    /\ row'.manifest \in Production
                    /\ ran'[d] = Runtime[row'.manifest]
  BY DEF ReceiptStood
<1>1. CASE receipts[d] # None
  <2>1. receipts'[d] = receipts[d] /\ before'[d] = before[d] /\ ran'[d] = ran[d]
    BY <1>1, ReceiptStays
  <2>2. before[d] # None /\ Captured(d)
    BY <1>1 DEF Carried, Safe
  <2>3. Captured(d)' /\ row'.manifest = row.manifest
    BY <2>1, <2>2, CapturedStays
  <2>4. /\ before[d] = [revision |-> receipts[d].observed, manifest |-> row.manifest]
        /\ ran[d] = Runtime[row.manifest]
    BY <1>1, <2>1 DEF ReceiptStood
  <2>5. receipts[d].observed = 2
    BY <2>2, <2>4 DEF Captured
  <2> QED BY <2>1, <2>3, <2>4, <2>5 DEF Captured
<1>2. CASE receipts[d] = None
  <2>1. PICK e \in Dispatches : Complete(e)
    <3>1. receipts' # receipts
      BY <1>2
    <3>2. ASSUME NEW e \in Dispatches,
                 \/ \E r \in Runs : Begin(e, r)
                 \/ ReadPackage(e) \/ Post(e) \/ Lose(e) \/ Recheck(e)
                 \/ \E x \in Runtimes \cup {None} : Answer(e, x)
                 \/ \E x \in Outputs \cup {None} : Note(e, x)
          PROVE  receipts' = receipts
      BY <3>2 DEF Begin, ReadPackage, Post, Lose, Recheck, Answer, Note
    <3>3. ASSUME NEW a \in Analyses,
                 \/ Verify(a)
                 \/ \E e \in Dispatches, r \in Runs \cup {None}, x \in Outputs :
                      Resolve(a, e, r, x)
          PROVE  receipts' = receipts
      BY <3>3 DEF Verify, Resolve, dispatch
    <3>4. ASSUME UNCHANGED vars \/ Replace \/ RegistryStep \/ ClearHistory
          PROVE  receipts' = receipts
      BY <3>4, RegistryKeeps DEF vars, Replace, dispatch, ClearHistory
    <3> QED BY <3>1, <3>2, <3>3, <3>4 DEF Next, RegistryStep
  <2>2. d = e /\ d \in window /\ Stands(d) /\ receipts'[d].observed = row.revision
    BY <1>2, <2>1 DEF Complete, TypeOK
  <2>3. UNCHANGED <<row, audit, before, ran>>
    BY <2>1 DEF Complete, registry
  <2>4. before[d] # None /\ Captured(d) /\ ran[d] = Runtime[row.manifest]
    BY <2>2 DEF Carried, Safe
  <2>5. row.revision = 2
    BY <2>2, <2>4, RowLife DEF Stands
  <2> QED BY <2>2, <2>3, <2>4, <2>5 DEF Captured
<1> QED BY <1>1, <1>2

-----------------------------------------------------------------------------
(* A dispatch that is over stays so, and its history row can only go. *)
LEMMA OverStays ==
  ASSUME TypeOK, [Next]_vars, NEW d \in Dispatches, stage[d] = "over"
  PROVE  stage'[d] = "over" /\ history'[d] \in {history[d], None}
<1>1. ASSUME NEW e \in Dispatches,
             \/ \E r \in Runs : Begin(e, r)
             \/ ReadPackage(e) \/ Post(e) \/ Lose(e) \/ Recheck(e) \/ Complete(e)
             \/ \E x \in Runtimes \cup {None} : Answer(e, x)
             \/ \E x \in Outputs \cup {None} : Note(e, x)
      PROVE  stage'[d] = "over" /\ history'[d] = history[d]
  BY <1>1 DEF Begin, ReadPackage, Post, Lose, Recheck, Complete, Answer, Note, TypeOK
<1>2. ASSUME NEW a \in Analyses,
             \/ Verify(a)
             \/ \E e \in Dispatches, r \in Runs \cup {None}, x \in Outputs :
                  Resolve(a, e, r, x)
      PROVE  UNCHANGED dispatch
  BY <1>2 DEF Verify, Resolve
<1>3. CASE UNCHANGED vars \/ Replace \/ RegistryStep
  BY <1>3, RegistryKeeps DEF vars, Replace, dispatch
<1>4. CASE ClearHistory
  BY <1>4 DEF ClearHistory
<1> QED BY <1>1, <1>2, <1>3, <1>4 DEF Next, RegistryStep, dispatch

(* What the analyses hold changes in their own actions only. *)
LEMMA AnalysesAlone ==
  ASSUME [Next]_vars,
         ~ \E a \in Analyses :
             \/ Verify(a)
             \/ \E d \in Dispatches, r \in Runs \cup {None}, x \in Outputs :
                  Resolve(a, d, r, x)
  PROVE  UNCHANGED <<source, used>>
<1>1. ASSUME NEW e \in Dispatches,
             \/ \E r \in Runs : Begin(e, r)
             \/ ReadPackage(e) \/ Post(e) \/ Lose(e) \/ Recheck(e) \/ Complete(e)
             \/ \E x \in Runtimes \cup {None} : Answer(e, x)
             \/ \E x \in Outputs \cup {None} : Note(e, x)
      PROVE  UNCHANGED <<source, used>>
  BY <1>1 DEF Begin, ReadPackage, Post, Lose, Recheck, Complete, Answer, Note
<1>2. CASE UNCHANGED vars \/ Replace \/ RegistryStep \/ ClearHistory
  BY <1>2, RegistryKeeps DEF vars, Replace, ClearHistory
<1> QED BY <1>1, <1>2 DEF Next, RegistryStep

LEMMA ResolvedStep ==
  ASSUME TypeOK, Carried, Resolved, UseIsOfOutput, [Next]_vars
  PROVE  Resolved' /\ UseIsOfOutput'
<1>1. \A u \in used : u.dispatch \in Dispatches
  BY DEF TypeOK, Use
<1>2. \A a \in Analyses : source[a] # None => source[a].dispatch \in Dispatches
  BY DEF TypeOK, Origin
<1>3. ASSUME NEW a \in Analyses, NEW d \in Dispatches, NEW r \in Runs \cup {None},
             NEW x \in Outputs, Resolve(a, d, r, x)
      PROVE  Resolved' /\ UseIsOfOutput'
  <2>1. UNCHANGED <<stage, history, used>>
    BY <1>3 DEF Resolve, dispatch
  <2>2. source' = [source EXCEPT ![a] = [dispatch |-> d, output |-> x]]
    BY <1>3 DEF Resolve
  <2>3. history[d] = x /\ x # None
    BY <1>3, RegistryAssumption DEF Resolve, Source
  <2>4. stage[d] = "over"
    BY <2>3 DEF Carried, Safe
  <2> QED BY <2>1, <2>2, <2>3, <2>4 DEF Resolved, UseIsOfOutput, TypeOK
<1>4. ASSUME NEW a \in Analyses, Verify(a)
      PROVE  Resolved' /\ UseIsOfOutput'
  <2>1. UNCHANGED <<stage, history>> /\ source[a] # None
    BY <1>4 DEF Verify, dispatch
  <2>2. source' = [source EXCEPT ![a] = None]
    BY <1>4 DEF Verify
  <2>3. \A u \in used' : u \in used \/ u = [dispatch |-> source[a].dispatch,
                                          output |-> source[a].output, at |-> Len(audit)]
    BY <1>4 DEF Verify
  <2> QED BY <2>1, <2>2, <2>3 DEF Resolved, UseIsOfOutput, TypeOK
<1>5. ASSUME UNCHANGED <<source, used>>
      PROVE  Resolved' /\ UseIsOfOutput'
  BY <1>1, <1>2, <1>5, OverStays DEF Resolved, UseIsOfOutput
<1> QED BY <1>3, <1>4, <1>5, AnalysesAlone

LEMMA UseStep ==
  ASSUME TypeOK, ApprovedOnce, Carried, ReceiptStood, UseIsCovered, [Next]_vars
  PROVE  UseIsCovered'
<1>1. \A u \in used : u.dispatch \in Dispatches
  BY DEF TypeOK, Use
<1>2. ASSUME NEW u \in used
      PROVE  /\ receipts'[u.dispatch] # None /\ receipts'[u.dispatch].eligible
             /\ u.at = before'[u.dispatch].revision
  BY <1>1, ReceiptStays DEF UseIsCovered
<1>3. ASSUME NEW a \in Analyses, Verify(a) PROVE UseIsCovered'
  <2> DEFINE d == source[a].dispatch
  <2>1. source[a] # None /\ d \in Dispatches
    BY <1>3 DEF Verify, TypeOK, Origin
  <2>2. CASE ~Consumable(d)
    BY <1>2, <1>3, <2>2 DEF Verify, UseIsCovered
  <2>3. CASE Consumable(d)
    <3>1. used' = used \cup {[dispatch |-> d, output |-> source[a].output, at |-> Len(audit)]}
      BY <1>3, <2>3 DEF Verify
    <3>2. receipts[d] # None /\ receipts[d].eligible /\ row.revision = receipts[d].observed
      BY <2>3 DEF Consumable
    <3>3. before[d].revision = Len(audit)
      <4>1. row.revision = Len(audit)
        BY DEF ApprovedOnce
      <4>2. before[d] = [revision |-> receipts[d].observed, manifest |-> row.manifest]
        BY <2>1, <3>2 DEF ReceiptStood
      <4>3. before[d].revision = receipts[d].observed
        BY <4>2
      <4> HIDE DEF d
      <4> QED BY <3>2, <4>1, <4>3
    <3>4. UNCHANGED <<receipts, before>>
      BY <1>3 DEF Verify, dispatch
    <3> HIDE DEF d
    <3> QED BY <1>2, <3>1, <3>2, <3>3, <3>4 DEF UseIsCovered
  <2> QED BY <2>2, <2>3
<1>4. CASE used' = used
  BY <1>2, <1>4 DEF UseIsCovered
<1>5. ASSUME NEW a \in Analyses, NEW d \in Dispatches, NEW r \in Runs \cup {None},
             NEW x \in Outputs, Resolve(a, d, r, x)
      PROVE  used' = used
  BY <1>5 DEF Resolve
<1> QED BY <1>3, <1>4, <1>5, AnalysesAlone
-----------------------------------------------------------------------------
LEMMA Initially == Init => IInv
<1> SUFFICES ASSUME Init PROVE IInv
  OBVIOUS
<1>1. TypeOK
  BY DEF Init, TypeOK, Statuses, Stages
<1>2. ApprovedOnce
  BY DEF Init, ApprovedOnce
<1>3. Carried /\ Resolved
  BY DEF Init, Carried, Safe, Resolved
<1>4. ReceiptStood /\ UseIsCovered /\ UseIsOfOutput
  BY DEF Init, ReceiptStood, UseIsCovered, UseIsOfOutput
<1> QED BY <1>1, <1>2, <1>3, <1>4 DEF IInv

LEMMA Step == IInv /\ [Next]_vars => IInv'
BY Types, LifeStep, CarriedStep, ResolvedStep, ReceiptStep, UseStep DEF IInv

LEMMA Invariance == Spec => []IInv
<1>1. Init => IInv
  BY Initially
<1>2. IInv /\ [Next]_vars => IInv'
  BY Step
<1> QED BY <1>1, <1>2, PTL DEF Spec

(* The registry, the dispatches and the analyses hold nothing but values of  *)
(* their schema.                                                             *)
THEOREM RegistryTyped == Spec => []TypeOK
BY Invariance, PTL DEF IInv

(* However many operators act on whatever revision they believe in, the      *)
(* package is approved at most once and its retirement is final.             *)
THEOREM RegistryApprovesOnce == Spec => []ApprovedOnce
BY Invariance, PTL DEF IInv

(* An eligible receipt has seen one approval stand from before its dispatch  *)
(* posted its code until the receipt was written.                            *)
THEOREM RegistryReceiptStood == Spec => []ReceiptStood
BY Invariance, PTL DEF IInv

(* A receipt is only ever used while the approval its dispatch captured      *)
(* still stands (verify_dispatch_completion).                                *)
THEOREM RegistryUse == Spec => []UseIsCovered
BY Invariance, PTL DEF IInv

(* An analysis is only ever told that it may use the receipt of the dispatch *)
(* that recorded the output it was given (resolve_execution_source).         *)
THEOREM RegistryUsesOwnOutput == Spec => []UseIsOfOutput
BY Invariance, PTL DEF IInv
=============================================================================
