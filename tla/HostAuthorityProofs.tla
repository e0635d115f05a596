------------------------ MODULE HostAuthorityProofs ------------------------
(***************************************************************************)
(* Proofs, for every set of skills, runs and decisions and every window,   *)
(* of what HostAuthority promises.                                         *)
(*                                                                         *)
(* The argument is that of the code: a coordinator passes its stages in    *)
(* one order (Passed), one transaction is open at a time and does not      *)
(* commit before the clock it read (Timed), a policy follows an admission  *)
(* (Held), and every table keeps its first row for a key (Filed).          *)
(***************************************************************************)
EXTENDS HostAuthority, TLAPS

(* A coordinator that has started has a plan, and a skill if it is to        *)
(* produce one.                                                              *)
Pipeline == {"checked", "stored", "numbered", "linked", "admitted"}

Planned ==
  \A r \in Runs :
    /\ stage[r] # "idle" => plan[r] \in Plan
    /\ stage[r] # "idle" /\ plan[r].decision = None => plan[r].skill \in Skills
    /\ stage[r] \in Pipeline => plan[r].decision = None

TypeInv == TypeOK /\ Planned

LEMMA NoneIsNone ==
  /\ \A x \in Statement \cup Plan \cup Dispatch \cup Receipt \cup Capsule \cup Decision
          \cup Handoff \cup Epoch \cup Writing \cup Skills \cup Runs \cup Decisions \cup Nat : x # None
  /\ Fallback # None /\ Fallback \notin Handoff
  BY AuthorityAssumption

LEMMA Holding ==
  ASSUME TypeInv, NEW x, Holds(x)
  PROVE  writing # None /\ writing.at \in Nat
  BY DEF TypeInv, TypeOK, RunnerTypes, Writing, Holds

LEMMA Types == TypeInv /\ [Next]_vars => TypeInv'
<1> SUFFICES ASSUME TypeInv, [Next]_vars PROVE TypeInv'
  OBVIOUS
<1> USE AuthorityAssumption DEF TypeInv, TypeOK, LedgerTypes, ReuseTypes, SkillTypes, RunnerTypes,
        Planned, Pipeline, Stages, Goes, ledger, reuse, skill, runner
<1>1. CASE UNCHANGED vars
  BY <1>1 DEF vars
<1>2. CASE Tick
  BY <1>2 DEF Tick
<1>3. ASSUME NEW a \in {"approve", "revoke"}, NEW n \in RootLives, State(a, clock + n)
      PROVE TypeInv'
  BY <1>3 DEF State, Statement
<1>4. ASSUME NEW r \in Runs, root # None, NEW p \in Plans, Sign(r, p) PROVE TypeInv'
  <2>1. p \in Plan /\ (p.decision = None => p.skill \in Skills)
    <3>1. root.revision \in Nat /\ \A n \in PolicyLives : clock + n \in Nat
      BY <1>4 DEF Statement
    <3>2. CASE p \in [skill : Skills, revision : {root.revision}, decision : {None},
                     opened : {clock}, policy : {0} \cup {clock + n : n \in PolicyLives}]
      BY <3>1, <3>2 DEF Plan
    <3>3. CASE p \in [skill : {None}, revision : {root.revision},
                     decision : {d \in Decisions : handoffs[d] \in Handoff},
                     opened : {clock}, policy : {0}]
      BY <3>1, <3>3 DEF Plan
    <3> QED BY <1>4, <3>2, <3>3 DEF Plans
  <2> QED BY <1>4, <2>1 DEF Sign
<1>5. ASSUME NEW r \in Runs, RecordDispatch(r) PROVE TypeInv'
  <2>1. /\ stage[r] = "signed" /\ stage' = [stage EXCEPT ![r] = "approved"]
        /\ writing' = None /\ writing.at \in Nat
    BY <1>5, Holding DEF RecordDispatch, Dispatchable, Ends
  <2>2. /\ plan[r].revision \in Nat /\ plan[r].opened + Window \in Nat
        /\ plan[r].decision \in Decisions \cup {None}
    BY <2>1 DEF Plan
  <2>3. dispatches' \in [Runs -> Dispatch \cup {None}]
    BY <1>5, <2>1, <2>2 DEF RecordDispatch, Dispatch
  <2>4. RunnerTypes' /\ Planned'
    BY <1>5, <2>1 DEF RecordDispatch
  <2> QED BY <1>5, <2>3, <2>4 DEF RecordDispatch
<1>6. ASSUME NEW r \in Runs, Post(r) \/ Answer(r) PROVE TypeInv'
  <2>1. CASE Post(r)
    BY <2>1 DEF Post
  <2>2. CASE Answer(r)
    BY <2>2 DEF Answer
  <2> QED BY <1>6, <2>1, <2>2
<1>7. ASSUME NEW r \in Runs, Abandon(r) PROVE TypeInv'
  BY <1>7 DEF Abandon
<1>8. ASSUME NEW r \in Runs, Again(r) PROVE TypeInv'
  <2> DEFINE p == [skill |-> plan[r].skill, revision |-> plan[r].revision,
                   decision |-> plan[r].decision, opened |-> plan[r].opened, policy |-> 0]
  <2>1. /\ plan[r] \in Plan /\ plan[r].decision = None /\ plan[r].skill \in Skills
        /\ stage[r] # "idle" /\ stage' = [stage EXCEPT ![r] = "observed"]
    BY <1>8 DEF Again
  <2>2. plan' = [plan EXCEPT ![r] = p] /\ p \in Plan
    <3>1. plan' = [plan EXCEPT ![r] = [plan[r] EXCEPT !.policy = 0]]
      BY <1>8 DEF Again
    <3>2. [plan[r] EXCEPT !.policy = 0] = p /\ p \in Plan
      BY ONLY <2>1, 0 \in Nat DEF Plan
    <3> QED BY ONLY <3>1, <3>2
  <2>3. p.decision = None /\ p.skill \in Skills
    BY <2>1
  <2> HIDE DEF p
  <2>4. plan' \in [Runs -> Plan \cup {None}] /\ Planned'
    BY <2>1, <2>2, <2>3
  <2>5. RunnerTypes'
    BY <1>8, <2>1, <2>4 DEF Again
  <2>6. UNCHANGED <<clock, ledger, reuse, skill>> /\ changes' \in Nat
    BY <1>8 DEF Again
  <2> QED BY <2>4, <2>5, <2>6
<1>9. ASSUME NEW r \in Runs, Check(r) PROVE TypeInv'
  BY <1>9 DEF Check
<1>10. ASSUME NEW r \in Runs, Store(r) PROVE TypeInv'
  <2>1. plan[r].skill \in Skills /\ version[plan[r].skill] \in Nat
    BY <1>10 DEF Store
  <2>2. SkillTypes'
    <3>1. CASE found[plan[r].skill][r] # 0
      BY <1>10, <3>1 DEF Store
    <3>2. CASE found[plan[r].skill][r] = 0
      <4> DEFINE s == plan[r].skill
                 v == IF pinned[s] THEN version[s] ELSE version[s] + 1
                 l == IF life[s] = "absent" THEN "candidate"
                      ELSE IF life[s] = "active" /\ ~pinned[s] THEN "questioned" ELSE life[s]
      <4>1. v \in Nat /\ l \in {"absent", "candidate", "active", "questioned"}
        BY <2>1
      <4>2. /\ version' = [version EXCEPT ![s] = v]
            /\ pinned' = [pinned EXCEPT ![s] = TRUE]
            /\ found' = [found EXCEPT ![s] = [found[s] EXCEPT ![r] = v]]
            /\ life' = [life EXCEPT ![s] = l]
        BY <1>10, <3>2 DEF Store
      <4> HIDE DEF s, v, l
      <4>3. /\ version' \in [Skills -> Nat] /\ pinned' \in [Skills -> BOOLEAN]
            /\ found' \in [Skills -> [Runs -> Nat]]
            /\ life' \in [Skills -> {"absent", "candidate", "active", "questioned"}]
        BY <4>1, <4>2
      <4> QED BY <1>10, <4>3 DEF Store
    <3> QED BY <3>1, <3>2
  <2>3. RunnerTypes' /\ Planned'
    BY <1>10 DEF Store
  <2> QED BY <1>10, <2>2, <2>3 DEF Store
<1>11. ASSUME NEW r \in Runs, Number(r) PROVE TypeInv'
  BY <1>11 DEF Number
<1>12. ASSUME NEW x \in Runs \cup Decisions, Begin(x) \/ Rollback(x) PROVE TypeInv'
  <2>1. writing' \in Writing \cup {None}
    BY <1>12 DEF Begin, Rollback, Ends, Writing
  <2> QED BY <1>12, <2>1 DEF Begin, Rollback
<1>13. ASSUME NEW r \in Runs, Record(r) PROVE TypeInv'
  <2>1. stage[r] = "numbered" /\ writing' = None /\ writing.at \in Nat
    BY <1>13, Holding DEF Record, Recordable, Ends
  <2>2. [skill |-> plan[r].skill, version |-> number[r], at |-> writing.at] \in Receipt
    BY <2>1 DEF Receipt
  <2> QED BY <1>13, <2>1, <2>2 DEF Record
<1>14. ASSUME NEW r \in Runs, Admit(r) PROVE TypeInv'
  <2>0. stage[r] = "linked" /\ writing' = None
    BY <1>14 DEF Admit, Admissible, Ends
  <2>1. [skill |-> plan[r].skill, version |-> number[r], run |-> r] \in Admission
    BY <2>0 DEF Admission
  <2>2. LedgerTypes' /\ SkillTypes'
    BY <1>14, <2>1 DEF Admit
  <2>3. /\ stage' = [stage EXCEPT ![r] = "over"] \/ stage' = [stage EXCEPT ![r] = "admitted"]
        /\ number' = number \/ number' = [number EXCEPT ![r] = 0]
        /\ UNCHANGED <<plan, sent, answered>>
    BY <1>14 DEF Admit
  <2>4. RunnerTypes' /\ Planned'
    BY <2>0, <2>3
  <2> QED BY <1>14, <2>2, <2>4 DEF Admit
<1>15. ASSUME NEW r \in Runs, Register(r) PROVE TypeInv'
  <2>1. stage[r] = "admitted" /\ writing' = None /\ writing.at \in Nat
    BY <1>15, Holding DEF Register, Coverable, Ends
  <2>2. [until |-> plan[r].policy, at |-> writing.at] \in Capsule
    BY <2>1 DEF Plan, Capsule
  <2> QED BY <1>15, <2>1, <2>2 DEF Register
<1>16. ASSUME NEW r \in Runs, ObserveReuse(r) PROVE TypeInv'
  BY <1>16 DEF ObserveReuse, Observable, Ends
<1>17. ASSUME NEW d \in Decisions, Decide(d) \/ FallBack(d) PROVE TypeInv'
  <2>1. CASE Decide(d)
    <3>1. Listed \in SUBSET (Skills \X Nat)
      BY DEF Listed
    <3>2. [made |-> clock, listed |-> Listed] \in Decision
      BY <3>1 DEF Decision
    <3> QED BY <2>1, <3>2 DEF Decide
  <2>2. CASE FallBack(d)
    BY <2>2 DEF FallBack
  <2> QED BY <1>17, <2>1, <2>2
<1>18. ASSUME NEW d \in Decisions, NEW r \in Runs, HandOff(d, r) PROVE TypeInv'
  <2>1. receipts[r] \in Receipt /\ writing' = None
    BY <1>18 DEF HandOff, Deliverable, Verified, Sourced, Ends
  <2>2. [skill |-> receipts[r].skill, version |-> receipts[r].version, run |-> r] \in Handoff
    BY <2>1 DEF Receipt, Handoff
  <2> QED BY <1>18, <2>1, <2>2 DEF HandOff
<1>19. ASSUME NEW s \in Skills, Others(s) PROVE TypeInv'
  <2>1. CASE \E o \in Objection : Object(s, o)
    BY <2>1 DEF Object, Changed
  <2>2. CASE Archive(s)
    BY <2>2 DEF Archive, Changed
  <2>3. CASE Revalidate(s)
    <3>1. [at |-> clock, receipts |-> {r \in Runs : receipts[r] # None}] \in Epoch
      BY DEF Epoch
    <3> QED BY <2>3, <3>1 DEF Revalidate
  <2>4. CASE Supersede(s)
    BY <2>4 DEF Supersede, Changed
  <2>5. CASE AdmitLocally(s)
    BY <2>5 DEF AdmitLocally, Changed
  <2> QED BY <1>19, <2>1, <2>2, <2>3, <2>4, <2>5 DEF Others
<1>20. ASSUME NEW r \in Runs, Confirm(r) PROVE TypeInv'
  BY <1>20 DEF Confirm
<1> QED
  BY <1>1, <1>2, <1>3, <1>4, <1>5, <1>6, <1>7, <1>8, <1>9, <1>10, <1>11, <1>12, <1>13,
     <1>14, <1>15, <1>16, <1>17, <1>18, <1>19, <1>20 DEF Next

LEMMA TypesInitially == Init => TypeInv
  BY AuthorityAssumption DEF Init, TypeInv, TypeOK, LedgerTypes, ReuseTypes, SkillTypes,
     RunnerTypes, Planned, Pipeline, Stages
-----------------------------------------------------------------------------
(* Which action writes what. *)
Early == {"idle", "signed", "approved", "posted"}

(* A coordinator past its observation moves on.                              *)
Later ==
  /\ UNCHANGED <<clock, dispatches, sent, answered>>
  /\ \E r \in Runs, x \in Stages \ Early :
       stage[r] \notin Early /\ stage' = [stage EXCEPT ![r] = x]
  /\ \A q \in Runs : plan'[q].decision = plan[q].decision

Writers ==
  /\ clock' = clock \/ Tick
  /\ root' = root \/ \E a \in {"approve", "revoke"}, n \in RootLives : State(a, clock + n)
  /\ dispatches' = dispatches \/ \E r \in Runs : RecordDispatch(r)
  /\ receipts' = receipts \/ \E r \in Runs : Record(r)
  /\ admissions' = admissions \/ \E r \in Runs : Admit(r)
  /\ capsules' = capsules \/ \E r \in Runs : Register(r)
  /\ decisions' = decisions \/ \E d \in Decisions : Decide(d)
  /\ \/ handoffs' = handoffs
     \/ \E d \in Decisions : FallBack(d) \/ \E r \in Runs : HandOff(d, r)
  /\ executions' = executions \/ \E r \in Runs : ObserveReuse(r)
  /\ writing' = writing \/ writing' = None \/ \E x \in Runs \cup Decisions : Begin(x)

Movers ==
  \/ UNCHANGED <<clock, dispatches, sent, answered, stage, plan>>
  \/ Tick
  \/ \E r \in Runs : \/ \E p \in Plans : Sign(r, p)
                     \/ RecordDispatch(r) \/ Post(r) \/ Answer(r)
  \/ Later

LEMMA WhoWrites == TypeInv /\ [Next]_vars => Writers
<1> SUFFICES ASSUME TypeInv, [Next]_vars PROVE Writers
  OBVIOUS
<1> USE DEF ledger, reuse, skill, runner
<1>1. CASE UNCHANGED vars
  BY <1>1 DEF vars, Writers
<1>2. CASE Tick
  BY <1>2 DEF Tick, Writers
<1>3. ASSUME NEW a \in {"approve", "revoke"}, NEW n \in RootLives, State(a, clock + n)
      PROVE Writers
  <2>1. UNCHANGED <<clock, dispatches, receipts, admissions, capsules, reuse, skill, runner>>
    BY <1>3 DEF State
  <2> QED BY <1>3, <2>1 DEF Writers
<1>4. ASSUME NEW r \in Runs, NEW p \in Plans, Sign(r, p) PROVE Writers
  <2>1. UNCHANGED <<clock, ledger, reuse, skill, writing>>
    BY <1>4 DEF Sign
  <2> QED BY <1>4, <2>1 DEF Writers
<1>5. ASSUME NEW r \in Runs, RecordDispatch(r) PROVE Writers
  <2>1. UNCHANGED <<clock, root, receipts, admissions, capsules, reuse, skill>> /\ writing' = None
    BY <1>5 DEF RecordDispatch, Ends
  <2> QED BY <1>5, <2>1 DEF Writers
<1>6. ASSUME NEW r \in Runs, Post(r) PROVE Writers
  <2>1. UNCHANGED <<clock, ledger, reuse, skill, writing>>
    BY <1>6 DEF Post
  <2> QED BY <1>6, <2>1 DEF Writers
<1>7. ASSUME NEW r \in Runs, Answer(r) PROVE Writers
  <2>1. UNCHANGED <<clock, ledger, reuse, skill, writing>>
    BY <1>7 DEF Answer
  <2> QED BY <1>7, <2>1 DEF Writers
<1>8. ASSUME NEW r \in Runs, Abandon(r) PROVE Writers
  <2>1. UNCHANGED <<clock, ledger, reuse, skill, writing>>
    BY <1>8 DEF Abandon
  <2> QED BY <1>8, <2>1 DEF Writers
<1>9. ASSUME NEW r \in Runs, Again(r) PROVE Writers
  <2>1. UNCHANGED <<clock, ledger, reuse, skill, writing>>
    BY <1>9 DEF Again
  <2> QED BY <1>9, <2>1 DEF Writers
<1>10. ASSUME NEW r \in Runs, Check(r) PROVE Writers
  <2>1. UNCHANGED <<clock, ledger, reuse, skill, writing>>
    BY <1>10 DEF Check
  <2> QED BY <1>10, <2>1 DEF Writers
<1>11. ASSUME NEW r \in Runs, Store(r) PROVE Writers
  <2>1. UNCHANGED <<clock, ledger, reuse, writing>>
    BY <1>11 DEF Store
  <2> QED BY <2>1 DEF Writers
<1>12. ASSUME NEW r \in Runs, Number(r) PROVE Writers
  <2>1. UNCHANGED <<clock, ledger, reuse, skill, writing>>
    BY <1>12 DEF Number
  <2> QED BY <1>12, <2>1 DEF Writers
<1>13. ASSUME NEW x \in Runs \cup Decisions, Begin(x) \/ Rollback(x) PROVE Writers
  <2>1. UNCHANGED <<clock, ledger, reuse>> /\ (writing' = None \/ Begin(x))
    BY <1>13 DEF Begin, Rollback, Ends
  <2> QED BY <2>1 DEF Writers
<1>14. ASSUME NEW r \in Runs, Record(r) PROVE Writers
  <2>1. UNCHANGED <<clock, root, dispatches, admissions, capsules, reuse>> /\ writing' = None
    BY <1>14 DEF Record, Ends
  <2> QED BY <1>14, <2>1 DEF Writers
<1>15. ASSUME NEW r \in Runs, Admit(r) PROVE Writers
  <2>1. UNCHANGED <<clock, root, dispatches, receipts, capsules, reuse>> /\ writing' = None
    BY <1>15 DEF Admit, Ends
  <2> QED BY <1>15, <2>1 DEF Writers
<1>16. ASSUME NEW r \in Runs, Register(r) PROVE Writers
  <2>1. UNCHANGED <<clock, root, dispatches, receipts, admissions, reuse>> /\ writing' = None
    BY <1>16 DEF Register, Ends
  <2> QED BY <1>16, <2>1 DEF Writers
<1>17. ASSUME NEW r \in Runs, ObserveReuse(r) PROVE Writers
  <2>1. UNCHANGED <<clock, ledger, decisions, handoffs>> /\ writing' = None
    BY <1>17 DEF ObserveReuse, Ends
  <2> QED BY <1>17, <2>1 DEF Writers
<1>18. ASSUME NEW d \in Decisions, Decide(d) PROVE Writers
  <2>1. UNCHANGED <<clock, ledger, handoffs, executions, skill, runner>>
    BY <1>18 DEF Decide
  <2> QED BY <1>18, <2>1 DEF Writers
<1>19. ASSUME NEW d \in Decisions, FallBack(d) PROVE Writers
  <2>1. UNCHANGED <<clock, ledger, decisions, executions, skill, runner>>
    BY <1>19 DEF FallBack
  <2> QED BY <1>19, <2>1 DEF Writers
<1>20. ASSUME NEW d \in Decisions, NEW r \in Runs, HandOff(d, r) PROVE Writers
  <2>1. UNCHANGED <<clock, ledger, decisions, executions>> /\ writing' = None
    BY <1>20 DEF HandOff, Ends
  <2> QED BY <1>20, <2>1 DEF Writers
<1>21. ASSUME NEW s \in Skills, Others(s) PROVE Writers
  <2>1. UNCHANGED <<clock, ledger, reuse, runner>>
    BY <1>21 DEF Others, Object, Archive, Revalidate, Supersede, AdmitLocally
  <2> QED BY <2>1 DEF Writers
<1>22. ASSUME NEW r \in Runs, Confirm(r) PROVE Writers
  <2>1. UNCHANGED <<clock, ledger, reuse, runner>>
    BY <1>22 DEF Confirm
  <2> QED BY <2>1 DEF Writers
<1> QED
  BY <1>1, <1>2, <1>3, <1>4, <1>5, <1>6, <1>7, <1>8, <1>9, <1>10, <1>11, <1>12, <1>13, <1>14, <1>15,
     <1>16, <1>17, <1>18, <1>19, <1>20, <1>21, <1>22 DEF Next

LEMMA WhoMoves == TypeInv /\ [Next]_vars => Movers
<1> SUFFICES ASSUME TypeInv, [Next]_vars PROVE Movers
  OBVIOUS
<1> USE DEF TypeInv, TypeOK, RunnerTypes, ledger, reuse, skill, runner
<1>1. CASE UNCHANGED vars
  BY <1>1 DEF vars, Movers
<1>2. CASE Tick
  BY <1>2 DEF Movers
<1>3. ASSUME NEW a \in {"approve", "revoke"}, NEW n \in RootLives, State(a, clock + n)
      PROVE Movers
  BY <1>3 DEF State, Movers
<1>4. ASSUME NEW r \in Runs, (\E p \in Plans : Sign(r, p)) \/ RecordDispatch(r) \/ Post(r) \/ Answer(r)
      PROVE Movers
  BY <1>4 DEF Movers
<1>5. ASSUME NEW r \in Runs, Check(r) PROVE Movers
  <2>1. stage[r] \notin Early /\ stage' = [stage EXCEPT ![r] = "checked"]
    BY <1>5 DEF Check, Goes, Early
  <2>2. UNCHANGED <<clock, dispatches, sent, answered, plan>>
    BY <1>5 DEF Check
  <2>3. "checked" \in Stages \ Early
    BY DEF Stages, Early
  <2> QED BY <2>1, <2>2, <2>3 DEF Movers, Later
<1>6. ASSUME NEW r \in Runs, Store(r) PROVE Movers
  <2>1. stage[r] \notin Early /\ stage' = [stage EXCEPT ![r] = "stored"]
    BY <1>6 DEF Store, Goes, Early
  <2>2. UNCHANGED <<clock, dispatches, sent, answered, plan>>
    BY <1>6 DEF Store
  <2>3. "stored" \in Stages \ Early
    BY DEF Stages, Early
  <2> QED BY <2>1, <2>2, <2>3 DEF Movers, Later
<1>7. ASSUME NEW r \in Runs, Number(r) PROVE Movers
  <2>1. stage[r] \notin Early /\ stage' = [stage EXCEPT ![r] = "numbered"]
    BY <1>7 DEF Number, Goes, Early
  <2>2. UNCHANGED <<clock, dispatches, sent, answered, plan>>
    BY <1>7 DEF Number
  <2>3. "numbered" \in Stages \ Early
    BY DEF Stages, Early
  <2> QED BY <2>1, <2>2, <2>3 DEF Movers, Later
<1>8. ASSUME NEW x \in Runs \cup Decisions, Begin(x) \/ Rollback(x) PROVE Movers
  BY <1>8 DEF Begin, Rollback, Movers
<1>9. ASSUME NEW r \in Runs, Record(r) PROVE Movers
  <2>1. stage[r] \notin Early /\ stage' = [stage EXCEPT ![r] = "linked"]
    BY <1>9 DEF Record, Recordable, Goes, Early
  <2>2. UNCHANGED <<clock, dispatches, sent, answered, plan>>
    BY <1>9 DEF Record
  <2>3. "linked" \in Stages \ Early
    BY DEF Stages, Early
  <2> QED BY <2>1, <2>2, <2>3 DEF Movers, Later
<1>10. ASSUME NEW r \in Runs, Confirm(r) PROVE Movers
  BY <1>10 DEF Confirm, Movers
<1>11. ASSUME NEW r \in Runs, Register(r) PROVE Movers
  <2>1. stage[r] \notin Early /\ stage' = [stage EXCEPT ![r] = "over"]
    BY <1>11 DEF Register, Coverable, Goes, Early
  <2>2. UNCHANGED <<clock, dispatches, sent, answered, plan>>
    BY <1>11 DEF Register
  <2>3. "over" \in Stages \ Early
    BY DEF Stages, Early
  <2> QED BY <2>1, <2>2, <2>3 DEF Movers, Later
<1>12. ASSUME NEW r \in Runs, ObserveReuse(r) PROVE Movers
  <2>1. stage[r] \notin Early /\ stage' = [stage EXCEPT ![r] = "over"]
    BY <1>12 DEF ObserveReuse, Observable, Goes, Early
  <2>2. UNCHANGED <<clock, dispatches, sent, answered, plan>>
    BY <1>12 DEF ObserveReuse
  <2>3. "over" \in Stages \ Early
    BY DEF Stages, Early
  <2> QED BY <2>1, <2>2, <2>3 DEF Movers, Later
<1>13. ASSUME NEW r \in Runs, Admit(r) PROVE Movers
  <2>1. \E x \in Stages \ Early : stage[r] \notin Early /\ stage' = [stage EXCEPT ![r] = x]
    BY <1>13 DEF Admit, Admissible, Goes, Early, Stages
  <2>2. UNCHANGED <<clock, dispatches, sent, answered, plan>>
    BY <1>13 DEF Admit
  <2> QED BY <2>1, <2>2 DEF Movers, Later
<1>14. ASSUME NEW r \in Runs, Abandon(r) PROVE Movers
  <2>1. \E x \in Stages \ Early : stage[r] \notin Early /\ stage' = [stage EXCEPT ![r] = x]
    BY <1>14 DEF Abandon, Goes, Early, Stages
  <2>2. UNCHANGED <<clock, dispatches, sent, answered, plan>>
    BY <1>14 DEF Abandon
  <2> QED BY <2>1, <2>2 DEF Movers, Later
<1>15. ASSUME NEW r \in Runs, Again(r) PROVE Movers
  <2>1. stage[r] \notin Early /\ stage' = [stage EXCEPT ![r] = "observed"]
    BY <1>15 DEF Again, Goes, Early
  <2>2. UNCHANGED <<clock, dispatches, sent, answered>>
    BY <1>15 DEF Again
  <2>3. \A q \in Runs : plan'[q].decision = plan[q].decision
    <3>1. plan[r] \in Plan /\ plan' = [plan EXCEPT ![r] = [plan[r] EXCEPT !.policy = 0]]
      BY <1>15 DEF Again, Planned
    <3>2. [plan[r] EXCEPT !.policy = 0].decision = plan[r].decision
      BY <3>1 DEF Plan
    <3> QED BY <3>1, <3>2
  <2>4. "observed" \in Stages \ Early
    BY DEF Stages, Early
  <2> QED BY <2>1, <2>2, <2>3, <2>4 DEF Movers, Later
<1>16. ASSUME NEW d \in Decisions, Decide(d) \/ FallBack(d) \/ \E r \in Runs : HandOff(d, r)
      PROVE Movers
  BY <1>16 DEF Decide, FallBack, HandOff, Movers
<1>17. ASSUME NEW s \in Skills, Others(s) PROVE Movers
  BY <1>17 DEF Others, Object, Archive, Revalidate, Supersede, AdmitLocally, Changed, Movers
<1> QED
  BY <1>1, <1>2, <1>3, <1>4, <1>5, <1>6, <1>7, <1>8, <1>9, <1>10, <1>11, <1>12, <1>13, <1>14, <1>15, <1>16, <1>17 DEF Next

-----------------------------------------------------------------------------
(* What a coordinator's stage says of its dispatch and its observation. *)
PassedBy(r) ==
  /\ stage[r] \in {"idle", "signed"} => dispatches[r] = None
  /\ stage[r] \in {"idle", "signed", "approved"} => sent[r] = 0 /\ answered[r] = None
  /\ stage[r] \notin {"idle", "signed"} =>
       /\ dispatches[r] # None
       /\ dispatches[r].at <= clock
       /\ dispatches[r].decision = plan[r].decision
  /\ stage[r] \notin {"idle", "signed", "approved"} =>
       dispatches[r].at <= sent[r] /\ sent[r] <= clock
  /\ stage[r] \notin Early =>
       answered[r] # None /\ sent[r] <= answered[r] /\ answered[r] <= clock

Passed == \A r \in Runs : PassedBy(r)

(* The clock does not go back while a transaction is open. *)
Timed == writing # None => writing.at <= clock

LEMMA Timing == TypeInv /\ Timed /\ [Next]_vars => Timed'
<1> SUFFICES ASSUME TypeInv, Timed, [Next]_vars PROVE Timed'
  OBVIOUS
<1> USE NoneIsNone DEF TypeInv, TypeOK, RunnerTypes, Writing
<1>0. Writers
  BY WhoWrites
<1>1. clock \in Nat /\ clock <= clock' /\ clock' \in Nat
  BY <1>0 DEF Writers, Tick
<1>2. CASE writing' = writing
  BY <1>1, <1>2 DEF Timed
<1>3. CASE writing' = None
  BY <1>3 DEF Timed
<1>4. ASSUME NEW x \in Runs \cup Decisions, Begin(x) PROVE Timed'
  <2>1. writing' = [by |-> x, at |-> clock] /\ clock' = clock
    BY <1>4 DEF Begin
  <2> QED BY <2>1 DEF Timed
<1> QED BY <1>0, <1>2, <1>3, <1>4 DEF Writers

LEMMA Passing == TypeInv /\ Passed /\ Timed /\ [Next]_vars => Passed'
<1> SUFFICES ASSUME TypeInv, Passed, Timed, [Next]_vars, NEW q \in Runs PROVE PassedBy(q)'
  BY DEF Passed
<1> USE NoneIsNone DEF TypeInv, TypeOK, RunnerTypes, LedgerTypes
<1>0. PassedBy(q) /\ Movers
  BY WhoMoves DEF Passed
<1>1. CASE UNCHANGED <<clock, dispatches, sent, answered, stage, plan>>
  BY <1>0, <1>1 DEF PassedBy
<1>2. CASE Tick
  <2>1. UNCHANGED <<dispatches, sent, answered, stage, plan>> /\ clock' = clock + 1
    BY <1>2 DEF Tick, ledger, runner
  <2> QED BY <1>0, <2>1 DEF PassedBy, Early, Dispatch
<1>3. ASSUME NEW r \in Runs, NEW p \in Plans, Sign(r, p) PROVE PassedBy(q)'
  <2>1. /\ UNCHANGED <<clock, dispatches, sent, answered>>
        /\ stage[r] = "idle" /\ stage' = [stage EXCEPT ![r] = "signed"]
        /\ plan' = [plan EXCEPT ![r] = p]
    BY <1>3 DEF Sign, Goes, ledger
  <2> QED BY <1>0, <2>1 DEF PassedBy, Early
<1>4. ASSUME NEW r \in Runs, RecordDispatch(r) PROVE PassedBy(q)'
  <2>1. /\ UNCHANGED <<clock, plan, sent, answered>>
        /\ stage[r] = "signed" /\ stage' = [stage EXCEPT ![r] = "approved"]
        /\ writing.at \in Nat /\ writing.at <= clock
    BY <1>4, Holding DEF RecordDispatch, Dispatchable, Goes, Ends, Timed
  <2>2. dispatches' = [dispatches EXCEPT ![r] =
          [revision |-> plan[r].revision, until |-> plan[r].opened + Window, at |-> writing.at,
           decision |-> plan[r].decision]]
    BY <1>4 DEF RecordDispatch
  <2>3. q = r => dispatches'[q] # None /\ dispatches'[q].at <= clock
                 /\ dispatches'[q].decision = plan[q].decision
    <3>1. plan[r] \in Plan /\ plan[r].opened + Window \in Nat
      BY <2>1, AuthorityAssumption DEF Planned, Plan
    <3>2. [revision |-> plan[r].revision, until |-> plan[r].opened + Window, at |-> writing.at,
           decision |-> plan[r].decision] \in Dispatch
      BY <2>1, <3>1 DEF Plan, Dispatch
    <3> QED BY <2>1, <2>2, <3>2
  <2>4. q # r => dispatches'[q] = dispatches[q]
    BY <2>2
  <2> QED BY <1>0, <2>1, <2>3, <2>4 DEF PassedBy, Early
<1>5. ASSUME NEW r \in Runs, Post(r) PROVE PassedBy(q)'
  <2>1. /\ UNCHANGED <<clock, dispatches, answered, plan>>
        /\ sent' = [sent EXCEPT ![r] = clock]
        /\ stage[r] = "approved" /\ stage' = [stage EXCEPT ![r] = "posted"]
    BY <1>5 DEF Post, Goes, ledger
  <2> QED BY <1>0, <2>1 DEF PassedBy, Early
<1>6. ASSUME NEW r \in Runs, Answer(r) PROVE PassedBy(q)'
  <2>1. /\ UNCHANGED <<clock, dispatches, sent, plan>>
        /\ answered' = [answered EXCEPT ![r] = clock]
        /\ stage[r] = "posted" /\ stage' = [stage EXCEPT ![r] = "observed"]
    BY <1>6 DEF Answer, Goes, ledger
  <2> QED BY <1>0, <2>1 DEF PassedBy, Early
<1>7. CASE Later
  <2>1. PICK r \in Runs, x \in Stages \ Early :
          stage[r] \notin Early /\ stage' = [stage EXCEPT ![r] = x]
    BY <1>7 DEF Later
  <2>2. plan'[q].decision = plan[q].decision /\ UNCHANGED <<clock, dispatches, sent, answered>>
    BY <1>7 DEF Later
  <2> QED BY <1>0, <2>1, <2>2 DEF PassedBy, Early
<1> QED BY <1>0, <1>1, <1>2, <1>3, <1>4, <1>5, <1>6, <1>7 DEF Movers

(* A dispatch is under a statement made before it, and lasts no longer. *)
RootedBy(r) ==
  dispatches[r] # None =>
    /\ root # None /\ dispatches[r].revision <= root.revision
    /\ dispatches[r].revision = root.revision /\ root.action = "approve" =>
         dispatches[r].until <= root.until

Rooted == \A r \in Runs : RootedBy(r)

LEMMA Rooting == TypeInv /\ Rooted /\ [Next]_vars => Rooted'
<1> SUFFICES ASSUME TypeInv, Rooted, [Next]_vars, NEW q \in Runs PROVE RootedBy(q)'
  BY DEF Rooted
<1> USE NoneIsNone DEF TypeInv, TypeOK, RunnerTypes, LedgerTypes
<1>0. RootedBy(q) /\ Writers
  BY WhoWrites DEF Rooted
<1>1. CASE root' = root /\ dispatches' = dispatches
  BY <1>0, <1>1 DEF RootedBy
<1>2. ASSUME NEW a \in {"approve", "revoke"}, NEW n \in RootLives, State(a, clock + n)
      PROVE RootedBy(q)'
  <2>1. dispatches' = dispatches /\ root'.revision = IF root = None THEN 1 ELSE root.revision + 1
    BY <1>2 DEF State
  <2>2. root' \in Statement
    BY <1>2, AuthorityAssumption DEF State, Statement
  <2> QED BY <1>0, <2>1, <2>2 DEF RootedBy, Dispatch, Statement
<1>3. ASSUME NEW r \in Runs, RecordDispatch(r) PROVE RootedBy(q)'
  <2>1. /\ root' = root /\ root # None /\ plan[r].revision = root.revision
        /\ plan[r].opened + Window <= root.until
    BY <1>3 DEF RecordDispatch, Dispatchable, InForce
  <2>2. dispatches' = [dispatches EXCEPT ![r] =
          [revision |-> plan[r].revision, until |-> plan[r].opened + Window, at |-> writing.at,
           decision |-> plan[r].decision]]
    BY <1>3 DEF RecordDispatch
  <2>3. q = r => dispatches'[q].revision = root.revision /\ dispatches'[q].until <= root.until
    BY <2>1, <2>2
  <2>4. q # r => dispatches'[q] = dispatches[q]
    BY <2>2
  <2> QED BY <1>0, <2>1, <2>3, <2>4 DEF RootedBy, Statement
<1> QED BY <1>0, <1>1, <1>2, <1>3 DEF Writers

-----------------------------------------------------------------------------
(* What is said of a skill that a run may be taken as evidence for. *)
GoodFor(s, r) ==
  /\ ~archived[s] /\ life[s] \in {"candidate", "active"} /\ pinned[s]
  /\ asked[s] # None => asked[s].at < dispatches[r].at

(* The receipt of a run is for the plan of its coordinator. *)
OwnReceipt(r) ==
  /\ receipts[r] # None
  /\ receipts[r].skill = plan[r].skill /\ receipts[r].version = number[r]

(* A coordinator that goes on to a policy has admitted its own run. *)
HeldBy(r) ==
  stage[r] = "admitted" =>
    /\ OwnReceipt(r)
    /\ [skill |-> plan[r].skill, version |-> number[r], run |-> r] \in admissions

Held == \A r \in Runs : HeldBy(r)

(* A step leaves a coordinator where it is, or is its own. *)
Still(q) ==
  /\ stage'[q] = stage[q]
  /\ stage[q] = "admitted" => plan'[q] = plan[q] /\ number'[q] = number[q]

LEMMA WhoseStep ==
  ASSUME TypeInv, [Next]_vars, NEW q \in Runs
  PROVE  Still(q) \/ stage'[q] # "admitted" \/ Admit(q)
<1> USE DEF TypeInv, TypeOK, RunnerTypes, Goes, Still, ledger, reuse, skill, runner
<1>1. CASE UNCHANGED vars
  BY <1>1 DEF vars
<1>2. CASE Tick
  BY <1>2 DEF Tick
<1>3. ASSUME NEW a \in {"approve", "revoke"}, NEW n \in RootLives, State(a, clock + n)
      PROVE Still(q)
  BY <1>3 DEF State
<1>4. ASSUME NEW r \in Runs, NEW p \in Plans, Sign(r, p)
      PROVE Still(q) \/ stage'[q] # "admitted"
  BY <1>4 DEF Sign
<1>5. ASSUME NEW r \in Runs, RecordDispatch(r) \/ Post(r) \/ Answer(r)
      PROVE Still(q) \/ stage'[q] # "admitted"
  BY <1>5 DEF RecordDispatch, Post, Answer
<1>6. ASSUME NEW r \in Runs, Abandon(r) \/ Again(r)
      PROVE Still(q) \/ stage'[q] # "admitted"
  BY <1>6 DEF Abandon, Again
<1>7. ASSUME NEW r \in Runs, Check(r) \/ Store(r) \/ Number(r)
      PROVE Still(q) \/ stage'[q] # "admitted"
  BY <1>7 DEF Check, Store, Number
<1>8. ASSUME NEW x \in Runs \cup Decisions, Begin(x) \/ Rollback(x) PROVE Still(q)
  BY <1>8 DEF Begin, Rollback
<1>9. ASSUME NEW r \in Runs, Record(r) \/ Register(r) \/ ObserveReuse(r)
      PROVE Still(q) \/ stage'[q] # "admitted"
  BY <1>9 DEF Record, Register, ObserveReuse
<1>10. ASSUME NEW r \in Runs, Admit(r) PROVE Still(q) \/ Admit(q)
  <2>1. CASE r = q
    BY <1>10, <2>1
  <2>2. CASE r # q
    BY <1>10, <2>2 DEF Admit
  <2> QED BY <2>1, <2>2
<1>11. ASSUME NEW d \in Decisions, Decide(d) \/ FallBack(d) \/ \E r \in Runs : HandOff(d, r)
      PROVE Still(q)
  BY <1>11 DEF Decide, FallBack, HandOff
<1>12. ASSUME NEW s \in Skills, Others(s) PROVE Still(q)
  BY <1>12 DEF Others, Object, Archive, Revalidate, Supersede, AdmitLocally, Changed
<1>13. ASSUME NEW r \in Runs, Confirm(r) PROVE Still(q)
  BY <1>13 DEF Confirm
<1> QED
  BY <1>1, <1>2, <1>3, <1>4, <1>5, <1>6, <1>7, <1>8, <1>9, <1>10, <1>11, <1>12, <1>13 DEF Next

LEMMA HoldingOn == TypeInv /\ Held /\ [Next]_vars => Held'
<1> SUFFICES ASSUME TypeInv, Held, [Next]_vars, NEW r \in Runs, stage'[r] = "admitted"
             PROVE  HeldBy(r)'
  BY DEF Held, HeldBy
<1> USE NoneIsNone DEF TypeInv, TypeOK, RunnerTypes, LedgerTypes
<1>0. Writers
  BY WhoWrites
<1>1. CASE Admit(r)
  <2>1. /\ number' = number
        /\ admissions' = admissions \cup
             {[skill |-> plan[r].skill, version |-> number[r], run |-> r]}
        /\ UNCHANGED <<receipts, plan>>
    BY <1>1 DEF Admit, Goes
  <2>2. OwnReceipt(r)
    BY <1>1 DEF Admit, Admissible, Verified, Sourced, OwnReceipt
  <2> QED BY <2>1, <2>2 DEF HeldBy, OwnReceipt
<1>2. CASE Still(r)
  <2>1. stage[r] = "admitted" /\ plan'[r] = plan[r] /\ number'[r] = number[r]
    BY <1>2 DEF Still
  <2>2. receipts[r] # None => receipts'[r] = receipts[r]
    <3>1. ASSUME NEW x \in Runs, Record(x) PROVE receipts[r] # None => receipts'[r] = receipts[r]
      BY <3>1 DEF Record, Recordable
    <3> QED BY <1>0, <3>1 DEF Writers
  <2>3. admissions \subseteq admissions'
    <3>1. ASSUME NEW x \in Runs, Admit(x) PROVE admissions \subseteq admissions'
      BY <3>1 DEF Admit
    <3> QED BY <1>0, <3>1 DEF Writers
  <2> QED BY <2>1, <2>2, <2>3 DEF Held, HeldBy, OwnReceipt
<1> QED BY <1>1, <1>2, WhoseStep

-----------------------------------------------------------------------------
(* What each table says of the others; no row is ever replaced. *)
ReceiptFiled(r) ==
  receipts[r] # None =>
    /\ stage[r] \notin Early
    /\ answered[r] <= receipts[r].at /\ receipts[r].at <= dispatches[r].until

CapsuleFiled(r) ==
  capsules[r] # None =>
    /\ receipts[r] # None
    /\ [skill |-> receipts[r].skill, version |-> receipts[r].version, run |-> r] \in admissions

HandoffFiled(d) ==
  /\ handoffs[d] # None => decisions[d] # None
  /\ handoffs[d] \in Handoff =>
       /\ capsules[handoffs[d].run] # None
       /\ receipts[handoffs[d].run].skill = handoffs[d].skill
       /\ receipts[handoffs[d].run].version = handoffs[d].version

Filed ==
  /\ \A r \in Runs : ReceiptFiled(r) /\ CapsuleFiled(r)
  /\ \A a \in admissions : receipts[a.run] # None
  /\ \A d \in Decisions : HandoffFiled(d)

(* The tables only grow. *)
Kept ==
  /\ \A r \in Runs : /\ receipts[r] # None => receipts'[r] = receipts[r]
                     /\ capsules[r] # None => capsules'[r] = capsules[r]
                     /\ dispatches[r] # None => dispatches'[r] = dispatches[r]
  /\ admissions \subseteq admissions'
  /\ \A d \in Decisions : /\ decisions[d] # None => decisions'[d] = decisions[d]
                          /\ handoffs[d] # None => handoffs'[d] = handoffs[d]

LEMMA Keeping == TypeInv /\ Passed /\ [Next]_vars => Kept
<1> SUFFICES ASSUME TypeInv, Passed, [Next]_vars PROVE Kept
  OBVIOUS
<1> USE NoneIsNone DEF TypeInv, TypeOK, RunnerTypes, LedgerTypes, ReuseTypes
<1>0. Writers
  BY WhoWrites
<1>1. ASSUME NEW r \in Runs PROVE receipts[r] # None => receipts'[r] = receipts[r]
  <2>1. ASSUME NEW x \in Runs, Record(x) PROVE receipts[r] # None => receipts'[r] = receipts[r]
    BY <2>1 DEF Record, Recordable
  <2> QED BY <1>0, <2>1 DEF Writers
<1>2. ASSUME NEW r \in Runs PROVE capsules[r] # None => capsules'[r] = capsules[r]
  <2>1. ASSUME NEW x \in Runs, Register(x) PROVE capsules[r] # None => capsules'[r] = capsules[r]
    BY <2>1 DEF Register, Coverable
  <2> QED BY <1>0, <2>1 DEF Writers
<1>3. ASSUME NEW r \in Runs PROVE dispatches[r] # None => dispatches'[r] = dispatches[r]
  <2>1. ASSUME NEW x \in Runs, RecordDispatch(x)
        PROVE dispatches[r] # None => dispatches'[r] = dispatches[r]
    <3>1. stage[x] = "signed" /\ \E e : dispatches' = [dispatches EXCEPT ![x] = e]
      BY <2>1 DEF RecordDispatch, Dispatchable
    <3>2. dispatches[x] = None
      BY <3>1 DEF Passed, PassedBy
    <3> QED BY <3>1, <3>2
  <2> QED BY <1>0, <2>1 DEF Writers
<1>4. admissions \subseteq admissions'
  <2>1. ASSUME NEW x \in Runs, Admit(x) PROVE admissions \subseteq admissions'
    BY <2>1 DEF Admit
  <2> QED BY <1>0, <2>1 DEF Writers
<1>5. ASSUME NEW d \in Decisions PROVE decisions[d] # None => decisions'[d] = decisions[d]
  <2>1. ASSUME NEW x \in Decisions, Decide(x) PROVE decisions[d] # None => decisions'[d] = decisions[d]
    BY <2>1 DEF Decide
  <2> QED BY <1>0, <2>1 DEF Writers
<1>6. ASSUME NEW d \in Decisions PROVE handoffs[d] # None => handoffs'[d] = handoffs[d]
  <2>1. ASSUME NEW x \in Decisions, FallBack(x) PROVE handoffs[d] # None => handoffs'[d] = handoffs[d]
    BY <2>1 DEF FallBack, Open
  <2>2. ASSUME NEW x \in Decisions, NEW r \in Runs, HandOff(x, r)
        PROVE handoffs[d] # None => handoffs'[d] = handoffs[d]
    BY <2>2 DEF HandOff, Deliverable, Open
  <2> QED BY <1>0, <2>1, <2>2 DEF Writers
<1> QED BY <1>1, <1>2, <1>3, <1>4, <1>5, <1>6 DEF Kept

(* An answered coordinator stays answered, and keeps its answer. *)
LEMMA Answered ==
  ASSUME TypeInv, [Next]_vars, NEW r \in Runs, stage[r] \notin Early
  PROVE  stage'[r] \notin Early /\ answered'[r] = answered[r] /\ sent'[r] = sent[r]
<1> USE DEF TypeInv, TypeOK, RunnerTypes, Early
<1>1. CASE UNCHANGED <<clock, dispatches, sent, answered, stage, plan>>
  BY <1>1
<1>2. CASE Tick
  BY <1>2 DEF Tick, runner
<1>3. ASSUME NEW x \in Runs, (\E p \in Plans : Sign(x, p)) \/ RecordDispatch(x) \/ Post(x) \/ Answer(x)
      PROVE stage'[r] \notin Early /\ answered'[r] = answered[r] /\ sent'[r] = sent[r]
  BY <1>3 DEF Sign, RecordDispatch, Dispatchable, Post, Answer, Goes
<1>4. CASE Later
  BY <1>4 DEF Later
<1> QED BY <1>1, <1>2, <1>3, <1>4, WhoMoves DEF Movers

LEMMA Filing == TypeInv /\ Passed /\ Held /\ Filed /\ [Next]_vars => Filed'
<1> SUFFICES ASSUME TypeInv, Passed, Held, Filed, [Next]_vars PROVE Filed'
  OBVIOUS
<1> USE NoneIsNone DEF TypeInv, TypeOK, RunnerTypes, LedgerTypes, ReuseTypes
<1>0. Writers /\ Kept /\ TypeInv'
  BY WhoWrites, Keeping, Types
<1>1. ASSUME NEW r \in Runs PROVE ReceiptFiled(r)'
  <2>1. CASE receipts[r] # None
    <3>1. /\ receipts'[r] = receipts[r] /\ stage[r] \notin Early
          /\ dispatches'[r] = dispatches[r]
      BY <1>0, <2>1 DEF Kept, Filed, ReceiptFiled, Passed, PassedBy, Early
    <3>2. stage'[r] \notin Early /\ answered'[r] = answered[r]
      BY <3>1, Answered
    <3> QED BY <2>1, <3>1, <3>2 DEF Filed, ReceiptFiled
  <2>2. CASE receipts[r] = None /\ receipts'[r] # None
    <3>1. PICK x \in Runs : Record(x)
      BY <1>0, <2>2 DEF Writers
    <3>2. /\ receipts' = [receipts EXCEPT ![x] =
               [skill |-> plan[x].skill, version |-> number[x], at |-> writing.at]]
          /\ stage' = [stage EXCEPT ![x] = "linked"]
          /\ UNCHANGED <<answered, dispatches>>
      BY <3>1 DEF Record, Goes
    <3>3. x = r
      BY <2>2, <3>2
    <3>4. receipts'[r].at = writing.at /\ stage'[r] = "linked"
      BY <3>2, <3>3
    <3>5. answered[r] <= writing.at /\ writing.at <= dispatches[r].until
      BY <3>1, <3>3 DEF Record, Recordable, Verified, Sourced
    <3> QED BY <3>2, <3>4, <3>5 DEF ReceiptFiled, Early
  <2> QED BY <2>1, <2>2 DEF ReceiptFiled
<1>2. ASSUME NEW r \in Runs PROVE CapsuleFiled(r)'
  <2>1. CASE capsules[r] # None
    BY <1>0, <2>1 DEF Kept, Filed, CapsuleFiled
  <2>2. CASE capsules[r] = None /\ capsules'[r] # None
    <3>1. PICK x \in Runs : Register(x)
      BY <1>0, <2>2 DEF Writers
    <3>2. /\ \E e : capsules' = [capsules EXCEPT ![x] = e]
          /\ stage[x] = "admitted"
          /\ UNCHANGED <<receipts, admissions>>
      BY <3>1 DEF Register, Coverable
    <3>3. x = r
      BY <2>2, <3>2
    <3> QED BY <3>2, <3>3 DEF Held, HeldBy, OwnReceipt, CapsuleFiled
  <2> QED BY <2>1, <2>2 DEF CapsuleFiled
<1>3. ASSUME NEW a \in admissions' PROVE receipts'[a.run] # None
  <2>1. CASE a \in admissions
    BY <1>0, <2>1 DEF Kept, Filed, Admission
  <2>2. CASE a \notin admissions
    <3>1. PICK x \in Runs : Admit(x)
      BY <1>0, <2>2 DEF Writers
    <3>2. a.run = x /\ receipts' = receipts
      BY <2>2, <3>1 DEF Admit
    <3>3. receipts[x] # None
      BY <3>1 DEF Admit, Admissible, Verified, Sourced
    <3> QED BY <3>2, <3>3
  <2> QED BY <2>1, <2>2
<1>4. ASSUME NEW d \in Decisions PROVE HandoffFiled(d)'
  <2>1. CASE handoffs[d] # None
    <3>1. handoffs'[d] = handoffs[d] /\ decisions'[d] # None
      BY <1>0, <2>1 DEF Kept, Filed, HandoffFiled
    <3>2. ASSUME handoffs[d] \in Handoff
          PROVE  /\ capsules'[handoffs[d].run] # None
                 /\ receipts'[handoffs[d].run] = receipts[handoffs[d].run]
      <4>1. handoffs[d].run \in Runs /\ capsules[handoffs[d].run] # None
        BY <3>2 DEF Handoff, Filed, HandoffFiled
      <4>2. receipts[handoffs[d].run] # None
        BY <4>1 DEF Filed, CapsuleFiled
      <4> QED BY <1>0, <4>1, <4>2 DEF Kept
    <3> QED BY <2>1, <3>1, <3>2 DEF Filed, HandoffFiled
  <2>2. CASE handoffs[d] = None /\ handoffs'[d] # None
    <3>1. ASSUME NEW x \in Decisions, FallBack(x) PROVE HandoffFiled(d)'
      BY <2>2, <3>1 DEF FallBack, Open, HandoffFiled
    <3>2. ASSUME NEW x \in Decisions, NEW r \in Runs, HandOff(x, r) PROVE HandoffFiled(d)'
      <4>1. /\ handoffs' = [handoffs EXCEPT ![x] =
                 [skill |-> receipts[r].skill, version |-> receipts[r].version, run |-> r]]
            /\ decisions[x] # None /\ capsules[r] # None
            /\ UNCHANGED <<decisions, receipts, capsules>>
        BY <3>2 DEF HandOff, Deliverable, Open, ledger
      <4>2. x = d
        BY <2>2, <4>1
      <4>3. handoffs'[d].run = r /\ handoffs'[d].skill = receipts[r].skill
            /\ handoffs'[d].version = receipts[r].version
        BY <4>1, <4>2
      <4> QED BY <4>1, <4>2, <4>3 DEF HandoffFiled
    <3> QED BY <1>0, <2>2, <3>1, <3>2 DEF Writers
  <2> QED BY <2>1, <2>2 DEF HandoffFiled
<1> QED BY <1>1, <1>2, <1>3, <1>4 DEF Filed

-----------------------------------------------------------------------------
(* A dispatch made for a decision is the only one, of another run than the   *)
(* reference's, after the handoff.                                           *)
BoundBy(r) ==
  dispatches[r] # None /\ dispatches[r].decision # None =>
    LET d == dispatches[r].decision IN
    /\ handoffs[d] \in Handoff /\ handoffs[d].run # r
    /\ \A q \in Runs : dispatches[q] # None /\ dispatches[q].decision = d => q = r

ReusedBy(r) ==
  r \in executions =>
    LET d == dispatches[r].decision IN
    /\ dispatches[r] # None /\ d # None
    /\ stage[r] \notin Early
    /\ decisions[d].made <= dispatches[r].at
    /\ dispatches[r].at < decisions[d].made + DecisionLife

Bound == \A r \in Runs : BoundBy(r) /\ ReusedBy(r)

LEMMA Binding == TypeInv /\ Passed /\ Held /\ Filed /\ Bound /\ [Next]_vars => Bound'
<1> SUFFICES ASSUME TypeInv, Passed, Held, Filed, Bound, [Next]_vars PROVE Bound'
  OBVIOUS
<1> USE NoneIsNone DEF TypeInv, TypeOK, RunnerTypes, LedgerTypes, ReuseTypes
<1>0. Writers /\ Kept /\ TypeInv'
  BY WhoWrites, Keeping, Types
<1>1. ASSUME NEW r \in Runs PROVE BoundBy(r)'
  <2>1. CASE dispatches' = dispatches
    BY <1>0, <2>1 DEF Kept, Bound, BoundBy, Dispatch
  <2>2. ASSUME NEW x \in Runs, RecordDispatch(x) PROVE BoundBy(r)'
    <3> DEFINE e == [revision |-> plan[x].revision, until |-> plan[x].opened + Window,
                     at |-> writing.at, decision |-> plan[x].decision]
    <3>1. /\ dispatches' = [dispatches EXCEPT ![x] = e]
          /\ dispatches[x] = None /\ handoffs' = handoffs
          /\ Binds(x, plan[x].decision, writing.at)
      BY <2>2 DEF RecordDispatch, Dispatchable, reuse, Passed, PassedBy
    <3>2. e.decision = plan[x].decision
      OBVIOUS
    <3> HIDE DEF e
    <3>3. /\ dispatches'[x] = e
          /\ \A q \in Runs : q # x => dispatches'[q] = dispatches[q]
      BY <3>1
    <3>4. e.decision # None =>
             /\ handoffs[e.decision] \in Handoff /\ handoffs[e.decision].run # x
             /\ \A q \in Runs : dispatches[q] # None => dispatches[q].decision # e.decision
      BY <3>1, <3>2 DEF Binds, Readable
    <3>5. CASE r = x
      BY <3>1, <3>3, <3>4, <3>5 DEF BoundBy
    <3>6. CASE r # x
      BY <3>1, <3>3, <3>4, <3>6 DEF Bound, BoundBy
    <3> QED BY <3>5, <3>6
  <2> QED BY <1>0, <2>1, <2>2 DEF Writers
<1>2. ASSUME NEW r \in Runs PROVE ReusedBy(r)'
  <2>1. CASE r \in executions
    <3>1. /\ dispatches[r] # None /\ dispatches[r].decision \in Decisions
          /\ dispatches'[r] = dispatches[r] /\ stage'[r] \notin Early
      BY <1>0, <2>1, Answered DEF Bound, ReusedBy, Kept, Dispatch
    <3>2. decisions'[dispatches[r].decision] = decisions[dispatches[r].decision]
      <4>1. handoffs[dispatches[r].decision] # None
        BY <2>1, <3>1 DEF Bound, BoundBy, ReusedBy
      <4> QED BY <1>0, <3>1, <4>1 DEF Filed, HandoffFiled, Kept
    <3> QED BY <2>1, <3>1, <3>2 DEF Bound, ReusedBy
  <2>2. CASE r \notin executions /\ r \in executions'
    <3>1. PICK x \in Runs : ObserveReuse(x)
      BY <1>0, <2>2 DEF Writers
    <3>2. x = r
      BY <2>2, <3>1 DEF ObserveReuse
    <3>3. /\ stage[r] = "observed" /\ stage' = [stage EXCEPT ![r] = "over"]
          /\ plan[r].decision # None
          /\ \E later \in writing.at .. clock :
               Readable(dispatches[r].decision, dispatches[r].at, later)
          /\ UNCHANGED <<decisions, dispatches>>
      BY <3>1, <3>2 DEF ObserveReuse, Observable, Goes, ledger
    <3>4. dispatches[r] # None /\ dispatches[r].decision = plan[r].decision
      BY <3>3 DEF Passed, PassedBy
    <3> QED BY <3>3, <3>4 DEF ReusedBy, Readable, Early
  <2> QED BY <2>1, <2>2 DEF ReusedBy
<1> QED BY <1>1, <1>2 DEF Bound

-----------------------------------------------------------------------------
IInv == TypeInv /\ Passed /\ Timed /\ Rooted /\ Held /\ Filed /\ Bound

LEMMA Initially == Init => IInv
<1> SUFFICES ASSUME Init PROVE IInv
  OBVIOUS
<1> USE NoneIsNone DEF Init
<1>1. TypeInv
  BY TypesInitially
<1>2. Passed /\ Timed /\ Rooted
  BY DEF Passed, PassedBy, Early, Timed, Rooted, RootedBy
<1>3. Held
  BY DEF Held, HeldBy
<1>4. Filed
  BY DEF Filed, ReceiptFiled, CapsuleFiled, HandoffFiled
<1>5. Bound
  BY DEF Bound, BoundBy, ReusedBy
<1> QED BY <1>1, <1>2, <1>3, <1>4, <1>5 DEF IInv

LEMMA Inductive == IInv /\ [Next]_vars => IInv'
  BY Types, Passing, Timing, Rooting, HoldingOn, Filing, Binding DEF IInv

LEMMA Always == Spec => []IInv
  BY Initially, Inductive, PTL DEF Spec

(* Every value the authority's tables, the skills and the coordinators hold  *)
(* is of its kind (all writers of skill_authority, skill_host_intake,        *)
(* skill_fixed_activation and the reference modules).                        *)
THEOREM AuthorityTyped == Spec => []TypeOK
<1>1. IInv => TypeOK
  BY DEF IInv, TypeInv
<1> QED BY <1>1, Always, PTL

(* skill_host_intake.record: a receipt is of an observation made and         *)
(* received inside the window of a dispatch that was recorded before it.     *)
THEOREM AuthorityEvidence == Spec => []EvidenceInWindow
<1>1. ASSUME IInv PROVE EvidenceInWindow
  <2> SUFFICES ASSUME NEW r \in Runs
      PROVE /\ sent[r] # 0 \/ answered[r] # None =>
                 dispatches[r] # None /\ dispatches[r].at <= sent[r]
            /\ receipts[r] # None =>
                 /\ answered[r] # None
                 /\ sent[r] <= answered[r] /\ answered[r] <= receipts[r].at
                 /\ receipts[r].at <= dispatches[r].until
            /\ (/\ dispatches[r] # None /\ root # None
                /\ dispatches[r].revision = root.revision /\ root.action = "approve")
                 => dispatches[r].until <= root.until
    BY DEF EvidenceInWindow
  <2> USE <1>1 DEF IInv
  <2>1. PassedBy(r) /\ RootedBy(r) /\ ReceiptFiled(r)
    BY DEF Passed, Rooted, Filed
  <2>2. sent[r] # 0 \/ answered[r] # None => dispatches[r] # None /\ dispatches[r].at <= sent[r]
    BY <2>1 DEF PassedBy
  <2>3. receipts[r] # None =>
          /\ answered[r] # None
          /\ sent[r] <= answered[r] /\ answered[r] <= receipts[r].at
          /\ receipts[r].at <= dispatches[r].until
    BY <2>1 DEF PassedBy, ReceiptFiled
  <2> QED BY <2>1, <2>2, <2>3 DEF RootedBy
<1> QED BY <1>1, Always, PTL

(* skill_reference_registry.register and skill_reference_consumer.consume:   *)
(* what is handed out is covered by a policy about a run that was admitted.  *)
THEOREM AuthorityHandsOutAdmitted == Spec => []HandoffWasAdmitted
<1>1. IInv => HandoffWasAdmitted
  BY DEF IInv, Filed, CapsuleFiled, HandoffFiled, HandoffWasAdmitted
<1> QED BY <1>1, Always, PTL

(* skill_reference_execution.bind_connection and observe: a reuse was bound  *)
(* to its handoff when it was dispatched, alone, and is not its own source.  *)
THEOREM AuthorityReuseBound == Spec => []ReuseWasBound
<1>1. ASSUME IInv PROVE ReuseWasBound
  <2> SUFFICES ASSUME NEW r \in executions
      PROVE LET d == dispatches[r].decision IN
            /\ d # None /\ handoffs[d] \in Handoff
            /\ decisions[d].made <= dispatches[r].at
            /\ dispatches[r].at < decisions[d].made + DecisionLife
            /\ dispatches[r].at <= sent[r]
            /\ handoffs[d].run # r
            /\ \A q \in executions : dispatches[q].decision = d => q = r
    BY DEF ReuseWasBound
  <2>1. executions \subseteq Runs
    BY <1>1 DEF IInv, TypeInv, TypeOK, ReuseTypes
  <2>2. \A q \in executions : BoundBy(q) /\ ReusedBy(q) /\ PassedBy(q)
    BY <1>1, <2>1 DEF IInv, Bound, Passed
  <2>3. \A q \in executions : dispatches[q] # None
    BY <2>2 DEF ReusedBy
  <2> QED BY <2>1, <2>2, <2>3 DEF BoundBy, ReusedBy, PassedBy, Early
<1> QED BY <1>1, Always, PTL

-----------------------------------------------------------------------------
(* Whatever turns a run into trust finds the skill in good standing and the  *)
(* run dispatched after the last revalidation request.                       *)
LEMMA VerifiedIsGood ==
  \A r \in Runs, s \in Skills : \A v, b, t : Verified(r, s, v, b, t) => GoodFor(s, r)
  BY DEF Verified, Fresh, GoodFor

LEMMA Taking ==
  ASSUME IInv, [Next]_vars, NEW s \in Skills, NEW r \in TakenFor(s)
  PROVE  r \in Runs /\ GoodFor(s, r)
<1> USE NoneIsNone DEF IInv, TypeInv, TypeOK, RunnerTypes, LedgerTypes, ReuseTypes
<1>0. Writers /\ TypeInv'
  BY WhoWrites, Types
<1>1. CASE r \in {q \in Runs : receipts[q] # receipts'[q] /\ receipts'[q].skill = s}
  <2>1. PICK x \in Runs : Record(x)
    BY <1>0, <1>1 DEF Writers
  <2>2. /\ receipts' = [receipts EXCEPT ![x] =
             [skill |-> plan[x].skill, version |-> number[x], at |-> writing.at]]
        /\ Verified(x, plan[x].skill, number[x], FALSE, writing.at)
    BY <2>1 DEF Record, Recordable
  <2>3. x = r /\ plan[x].skill = s
    BY <1>1, <2>2
  <2> QED BY <1>1, <2>2, <2>3, VerifiedIsGood
<1>2. CASE r \in {a.run : a \in {x \in admissions' \ admissions : x.skill = s}}
  <2>1. PICK a \in admissions' \ admissions : a.skill = s /\ a.run = r
    BY <1>2
  <2>2. PICK x \in Runs : Admit(x)
    BY <1>0, <2>1 DEF Writers
  <2>3. /\ admissions' = admissions \cup
             {[skill |-> plan[x].skill, version |-> number[x], run |-> x]}
        /\ Verified(x, plan[x].skill, number[x], TRUE, writing.at)
    BY <2>2 DEF Admit, Admissible
  <2>4. a = [skill |-> plan[x].skill, version |-> number[x], run |-> x]
    BY ONLY <2>1, <2>3
  <2>5. x = r /\ plan[x].skill = s
    BY ONLY <2>1, <2>4
  <2> QED BY <2>3, <2>5, VerifiedIsGood
<1>3. CASE r \in {q \in Runs : capsules[q] # capsules'[q] /\ receipts[q].skill = s}
  <2>1. PICK x \in Runs : Register(x)
    BY <1>0, <1>3 DEF Writers
  <2>2. /\ \E e : capsules' = [capsules EXCEPT ![x] = e]
        /\ Verified(x, plan[x].skill, number[x], TRUE, writing.at)
    BY <2>1 DEF Register, Coverable
  <2>3. x = r /\ receipts[x].skill = plan[x].skill
    BY <1>3, <2>2 DEF Verified
  <2>4. Verified(r, s, number[r], TRUE, writing.at)
    BY <1>3, <2>2, <2>3
  <2> QED BY <1>3, <2>4, VerifiedIsGood
<1>4. CASE r \in {handoffs'[d].run : d \in {e \in Decisions : handoffs[e] # handoffs'[e]
                                      /\ handoffs'[e] # Fallback /\ handoffs'[e].skill = s}}
  <2>1. PICK e \in Decisions : /\ handoffs[e] # handoffs'[e] /\ handoffs'[e] # Fallback
                               /\ handoffs'[e].skill = s /\ r = handoffs'[e].run
    BY <1>4
  <2>2. PICK d \in Decisions : FallBack(d) \/ \E x \in Runs : HandOff(d, x)
    BY <1>0, <2>1 DEF Writers
  <2>3. ~FallBack(d)
    BY <2>1 DEF FallBack
  <2>4. PICK x \in Runs : HandOff(d, x)
    BY <2>2, <2>3
  <2>5. /\ handoffs' = [handoffs EXCEPT ![d] =
             [skill |-> receipts[x].skill, version |-> receipts[x].version, run |-> x]]
        /\ Verified(x, receipts[x].skill, receipts[x].version, TRUE, writing.at)
    BY <2>4 DEF HandOff, Deliverable
  <2>6. x = r /\ receipts[x].skill = s
    BY <2>1, <2>5
  <2> QED BY <2>5, <2>6, VerifiedIsGood
<1>5. CASE r \in {handoffs[dispatches[x].decision].run :
                    x \in {q \in executions' \ executions :
                             /\ dispatches[q].decision # None
                             /\ handoffs[dispatches[q].decision].skill = s}}
  <2>1. PICK q \in executions' \ executions :
          /\ dispatches[q].decision # None
          /\ handoffs[dispatches[q].decision].skill = s
          /\ r = handoffs[dispatches[q].decision].run
    BY <1>5
  <2>2. PICK x \in Runs : ObserveReuse(x)
    BY <1>0, <2>1 DEF Writers
  <2>3. x = q /\ \E t : Readable(dispatches[q].decision, dispatches[q].at, t)
    BY <2>1, <2>2 DEF ObserveReuse, Observable
  <2>4. /\ handoffs[dispatches[q].decision] \in Handoff
        /\ \E t : Verified(r, s, handoffs[dispatches[q].decision].version, TRUE, t)
    BY <2>1, <2>3 DEF Readable
  <2> QED BY <2>1, <2>4, VerifiedIsGood DEF Handoff
<1> QED BY <1>1, <1>2, <1>3, <1>4, <1>5 DEF TakenFor

(* skill_host_intake.verify_connection, lines 80 to 92, wherever a run is    *)
(* taken for evidence: not if it was dispatched before the last request.     *)
THEOREM AuthorityNothingStale == Spec => NothingOnStaleEvidence
<1>1. IInv /\ [Next]_vars => [\A s \in Skills : asked[s] # None =>
         \A r \in TakenFor(s) : asked[s].at < dispatches[r].at]_vars
  BY Taking DEF GoodFor
<1> QED BY <1>1, Always, PTL DEF Spec, NothingOnStaleEvidence

(* The life cycle checks of the same handlers, up to their commits: no run   *)
(* is taken for evidence of a skill that is archived, questioned or changed. *)
THEOREM AuthorityNeedsStanding == Spec => TrustNeedsStanding
<1>1. IInv /\ [Next]_vars => [\A s \in Skills : TakenFor(s) # {} =>
         ~archived[s] /\ life[s] # "questioned" /\ pinned[s]]_vars
  BY Taking DEF GoodFor
<1> QED BY <1>1, Always, PTL DEF Spec, TrustNeedsStanding

-----------------------------------------------------------------------------
(* The grants of each table. *)
Dispatched == {Granted("dispatch", r, r) : r \in {q \in Runs : dispatches[q] # None}}
Received   == {Granted("receipt", r, r) : r \in {q \in Runs : receipts[q] # None}}
Admitted   == {Granted("admission", a, a.run) : a \in admissions}
Covered    == {Granted("policy", r, r) : r \in {q \in Runs : capsules[q] # None}}
HandedOut  == {Granted("handoff", d, handoffs[d].run) :
                 d \in {e \in Decisions : handoffs[e] \in Handoff}}
Reused     == {Granted("reuse", r, r) : r \in executions}

LEMMA Tables == grants = Dispatched \cup Received \cup Admitted \cup Covered \cup HandedOut \cup Reused
  BY DEF grants, Dispatched, Received, Admitted, Covered, HandedOut, Reused

LEMMA TablesNext ==
  grants' = Dispatched' \cup Received' \cup Admitted' \cup Covered' \cup HandedOut' \cup Reused'
  BY DEF grants, Dispatched, Received, Admitted, Covered, HandedOut, Reused

LEMMA Subject == \A what, who, r : /\ Granted(what, who, r).subject = <<what, who>>
                                   /\ Granted(what, who, r).revision = dispatches[r].revision
  BY DEF Granted, Under

(* Every grant is about a dispatched run, so that recording a dispatch       *)
(* leaves the other tables' grants alone.                                    *)
LEMMA AboutDispatched ==
  ASSUME IInv
  PROVE  /\ \A r \in Runs : receipts[r] # None => dispatches[r] # None
         /\ \A a \in admissions : a.run \in Runs /\ dispatches[a.run] # None
         /\ \A r \in Runs : capsules[r] # None => dispatches[r] # None
         /\ \A d \in Decisions : handoffs[d] \in Handoff =>
              handoffs[d].run \in Runs /\ dispatches[handoffs[d].run] # None
         /\ \A r \in executions : r \in Runs /\ dispatches[r] # None
<1> USE DEF IInv, TypeInv, TypeOK, LedgerTypes, ReuseTypes
<1>1. \A r \in Runs : receipts[r] # None => dispatches[r] # None
  BY DEF Filed, ReceiptFiled, Passed, PassedBy, Early
<1>2. \A r \in Runs : capsules[r] # None => dispatches[r] # None
  BY <1>1 DEF Filed, CapsuleFiled
<1>3. \A a \in admissions : a.run \in Runs /\ dispatches[a.run] # None
  BY <1>1 DEF Filed, Admission
<1>4. \A d \in Decisions : handoffs[d] \in Handoff =>
        handoffs[d].run \in Runs /\ dispatches[handoffs[d].run] # None
  BY <1>2 DEF Filed, HandoffFiled, Handoff
<1>5. \A r \in executions : r \in Runs /\ dispatches[r] # None
  BY DEF Bound, ReusedBy
<1> QED BY <1>1, <1>2, <1>3, <1>4, <1>5

(* The transaction that ends had looked. *)
LEMMA Looking ==
  ASSUME TypeInv, NEW x, Ends(x)
  PROVE  looked = writing.at /\ looked # None /\ looked' = None
  BY Holding, NoneIsNone DEF Ends, looked

LEMMA Granting ==
  ASSUME NEW g, NEW n, NEW at, looked = at, looked # None, looked' = None,
         InForce(n, at), g.revision = n,
         g.subject[1] \in {"receipt", "admission"} => InForce(n, clock),
         UNCHANGED <<clock, root>>,
         grants' = grants \cup {g}, \A h \in grants : h.subject # g.subject
  PROVE  Ledger!Grant
<1>1. Ledger!InForce(looked) /\ g.revision = root.revision
  BY DEF InForce, Ledger!InForce
<1>2. g.subject[1] \in {"receipt", "admission"} => Ledger!InForce(clock)
  BY DEF InForce, Ledger!InForce
<1>3. g \in grants' \ grants
  OBVIOUS
<1> QED BY <1>1, <1>2, <1>3 DEF Ledger!Grant

LEMMA Entry ==
  ASSUME IInv, NEW x, Ends(x), NEW what, NEW who, NEW r, Authorised(r, writing.at),
         what \in {"receipt", "admission"} => Authorised(r, clock),
         UNCHANGED <<clock, root, dispatches>>,
         grants' = grants \cup {Granted(what, who, r)},
         \A h \in grants : h.subject # <<what, who>>
  PROVE  Ledger!Grant
<1> DEFINE g == Granted(what, who, r)
<1>1. InForce(dispatches[r].revision, writing.at)
  BY DEF Authorised
<1>2. looked = writing.at /\ looked # None /\ looked' = None
  BY Looking DEF IInv
<1>3. g.subject = <<what, who>> /\ g.subject[1] = what /\ g.revision = dispatches[r].revision
  BY Subject
<1>4. g.subject[1] \in {"receipt", "admission"} => InForce(dispatches[r].revision, clock)
  BY <1>3 DEF Authorised
<1>5. grants' = grants \cup {g} /\ \A h \in grants : h.subject # g.subject
  BY <1>3
<1> HIDE DEF g
<1> QED BY <1>1, <1>2, <1>3, <1>4, <1>5, Granting

(* A transaction that ends and adds nothing. *)
LEMMA Leaving ==
  ASSUME IInv, NEW x, Ends(x), UNCHANGED <<clock, root, grants>>
  PROVE  Ledger!Next
  BY Looking DEF IInv, Ledger!Next, Ledger!Leave

(* What a grant already there is about: the kind and the key tell its table. *)
LEMMA Subjects ==
  ASSUME NEW h \in grants, NEW what, NEW who, h.subject = <<what, who>>
  PROVE  \/ what = "dispatch" /\ who \in Runs /\ dispatches[who] # None
         \/ what = "receipt" /\ who \in Runs /\ receipts[who] # None
         \/ what = "admission" /\ who \in admissions
         \/ what = "policy" /\ who \in Runs /\ capsules[who] # None
         \/ what = "handoff" /\ who \in Decisions /\ handoffs[who] \in Handoff
         \/ what = "reuse" /\ who \in executions
<1>0. \A a, b, c, d : <<a, b>> = <<c, d>> => a = c /\ b = d
  OBVIOUS
<1>1. CASE h \in Dispatched
  <2> PICK r \in Runs : dispatches[r] # None /\ h = Granted("dispatch", r, r)
    BY <1>1 DEF Dispatched
  <2> QED BY <1>0, Subject
<1>2. CASE h \in Received
  <2> PICK r \in Runs : receipts[r] # None /\ h = Granted("receipt", r, r)
    BY <1>2 DEF Received
  <2> QED BY <1>0, Subject
<1>3. CASE h \in Admitted
  <2> PICK a \in admissions : h = Granted("admission", a, a.run)
    BY <1>3 DEF Admitted
  <2> QED BY <1>0, Subject
<1>4. CASE h \in Covered
  <2> PICK r \in Runs : capsules[r] # None /\ h = Granted("policy", r, r)
    BY <1>4 DEF Covered
  <2> QED BY <1>0, Subject
<1>5. CASE h \in HandedOut
  <2> PICK d \in Decisions : handoffs[d] \in Handoff /\ h = Granted("handoff", d, handoffs[d].run)
    BY <1>5 DEF HandedOut
  <2> QED BY <1>0, Subject
<1>6. CASE h \in Reused
  <2> PICK r \in executions : h = Granted("reuse", r, r)
    BY <1>6 DEF Reused
  <2> QED BY <1>0, Subject
<1> QED BY <1>1, <1>2, <1>3, <1>4, <1>5, <1>6, Tables

LEMMA Refining == IInv /\ [Next]_vars => [Ledger!Next]_<<clock, root, looked, grants>>
<1> SUFFICES ASSUME IInv, [Next]_vars PROVE [Ledger!Next]_<<clock, root, looked, grants>>
  OBVIOUS
<1> USE NoneIsNone DEF IInv, TypeInv, TypeOK, RunnerTypes, LedgerTypes, ReuseTypes
<1>0. Writers /\ Kept /\ TypeInv'
  BY WhoWrites, Keeping, Types
<1>1. CASE UNCHANGED <<clock, root, dispatches, receipts, admissions, capsules, handoffs, executions>>
  <2>1. UNCHANGED <<clock, root, grants>>
    BY <1>1 DEF grants, Granted, Under
  <2>2. CASE looked' = looked
    BY <2>1, <2>2
  <2>3. CASE writing' = None /\ looked' # looked
    <3>1. looked # None /\ looked' = None
      BY <2>3 DEF looked
    <3> QED BY <2>1, <3>1 DEF Ledger!Next, Ledger!Leave
  <2>4. ASSUME NEW x \in Runs \cup Decisions, Begin(x) PROVE Ledger!Next
    <3>1. writing = None /\ writing' = [by |-> x, at |-> clock] /\ writing' # None
      BY <1>0, <2>4 DEF Begin, Unlocked, Writing
    <3>2. looked = None /\ looked' = clock
      BY <3>1 DEF looked
    <3> QED BY <2>1, <3>2 DEF Ledger!Next, Ledger!Look
  <2>5. writing' = writing => looked' = looked
    BY DEF looked
  <2> QED BY <1>0, <2>2, <2>3, <2>4, <2>5 DEF Writers
<1>2. CASE Tick
  <2>1. /\ clock' = clock + 1 /\ looked' = looked
        /\ UNCHANGED <<root, dispatches, receipts, admissions, capsules, handoffs, executions>>
    BY <1>2 DEF Tick, ledger, reuse, runner, looked
  <2>2. grants' = grants
    BY <2>1 DEF grants, Granted, Under
  <2> QED BY <2>1, <2>2 DEF Ledger!Next, Ledger!Pass
<1>3. ASSUME NEW a \in {"approve", "revoke"}, NEW n \in RootLives, State(a, clock + n)
      PROVE Ledger!Next
  <2>1. /\ UNCHANGED <<clock, dispatches, receipts, admissions, capsules, handoffs, executions>>
        /\ root' = [revision |-> IF root = None THEN 1 ELSE root.revision + 1,
                    action |-> a, until |-> clock + n]
        /\ root # None => root.action = "approve"
        /\ looked = None /\ looked' = None
    BY <1>3 DEF State, Unlocked, reuse, runner, looked
  <2>2. grants' = grants
    BY <2>1 DEF grants, Granted, Under
  <2>4. root' \in Ledger!Statement
    BY <1>0, <2>1, AuthorityAssumption DEF Statement, Ledger!Statement
  <2>5. IF root = None THEN root'.revision = 1
        ELSE root.action = "approve" /\ root'.revision = root.revision + 1
    BY <2>1
  <2> QED BY <2>1, <2>2, <2>4, <2>5 DEF Ledger!Next, Ledger!State
<1>4. ASSUME NEW x \in Runs, RecordDispatch(x) PROVE Ledger!Next
  <2>1. /\ UNCHANGED <<clock, root, receipts, admissions, capsules, handoffs, executions>>
        /\ InForce(plan[x].revision, writing.at)
        /\ dispatches[x] = None
    BY <1>4 DEF RecordDispatch, Dispatchable, reuse, Passed, PassedBy
  <2>2. dispatches'[x].revision = plan[x].revision /\ dispatches'[x] # None
    <3>1. dispatches' = [dispatches EXCEPT ![x] =
             [revision |-> plan[x].revision, until |-> plan[x].opened + Window,
              at |-> writing.at, decision |-> plan[x].decision]]
      BY <1>4 DEF RecordDispatch
    <3>2. stage'[x] = "approved"
      BY <1>4 DEF RecordDispatch, Goes
    <3>3. Passed'
      BY Passing
    <3> QED BY <3>1, <3>2, <3>3 DEF Passed, PassedBy
  <2>3. \A q \in Runs : q # x => dispatches'[q] = dispatches[q]
    BY <1>4 DEF RecordDispatch
  <2> DEFINE g == [subject |-> <<"dispatch", x>>, revision |-> dispatches'[x].revision]
  <2>4. Dispatched' = Dispatched \cup {g}
    BY <2>1, <2>2, <2>3 DEF Dispatched, Granted, Under
  <2>5. \A q \in Runs : dispatches[q] # None => dispatches'[q] = dispatches[q]
    BY <1>0 DEF Kept
  <2>6. Received' = Received /\ Covered' = Covered /\ Reused' = Reused
    BY <2>1, <2>5, AboutDispatched DEF Received, Covered, Reused, Granted, Under
  <2>7. Admitted' = Admitted
    BY <2>1, <2>5, AboutDispatched DEF Admitted, Granted, Under
  <2>8. HandedOut' = HandedOut
    BY <2>1, <2>5, AboutDispatched DEF HandedOut, Granted, Under
  <2>9. grants' = grants \cup {g}
    BY <2>4, <2>6, <2>7, <2>8, Tables, TablesNext
  <2>10. \A h \in grants : h.subject # g.subject
    BY <2>1, Subjects
  <2>11. g.revision = plan[x].revision /\ g.subject[1] = "dispatch"
    BY <2>2
  <2>12. looked = writing.at /\ looked # None /\ looked' = None
    BY <1>4, Looking DEF RecordDispatch
  <2> HIDE DEF g
  <2>13. g.subject[1] \notin {"receipt", "admission"}
    BY <2>11
  <2>14. Ledger!Grant
    BY ONLY <2>1, <2>9, <2>10, <2>11, <2>12, <2>13, Granting
  <2> QED BY <2>14 DEF Ledger!Next
<1>5. ASSUME NEW x \in Runs, Record(x) PROVE Ledger!Next
  <2>1. /\ UNCHANGED <<clock, root, dispatches, admissions, capsules, handoffs, executions>>
        /\ \E e : receipts' = [receipts EXCEPT ![x] = e]
        /\ Ends(x) /\ Authorised(x, writing.at) /\ Authorised(x, clock)
        /\ receipts[x] = None /\ receipts'[x] # None
    <3>1. receipts' = [receipts EXCEPT ![x] =
             [skill |-> plan[x].skill, version |-> number[x], at |-> writing.at]]
      BY <1>5 DEF Record
    <3>2. stage[x] = "numbered" /\ writing.at \in Nat
      BY <1>5, Holding DEF Record, Recordable, Ends
    <3>3. [skill |-> plan[x].skill, version |-> number[x], at |-> writing.at] \in Receipt
      BY <3>2 DEF Planned, Receipt, Pipeline
    <3>4. UNCHANGED <<clock, root, dispatches, admissions, capsules, handoffs, executions>>
      BY <1>5 DEF Record, reuse
    <3>5. /\ Ends(x) /\ Authorised(x, writing.at) /\ Authorised(x, clock)
          /\ receipts[x] = None
      BY <1>5 DEF Record, Recordable, Verified, Sourced
    <3>6. receipts'[x] # None
      BY <3>1, <3>3
    <3> QED BY ONLY <3>1, <3>4, <3>5, <3>6
  <2>2. Received' = Received \cup {Granted("receipt", x, x)}
    BY <2>1 DEF Received, Granted, Under
  <2>3. grants' = grants \cup {Granted("receipt", x, x)}
    <3>1. /\ Dispatched' = Dispatched /\ Admitted' = Admitted /\ Covered' = Covered
          /\ HandedOut' = HandedOut /\ Reused' = Reused
      BY <2>1 DEF Dispatched, Admitted, Covered, HandedOut, Reused, Granted, Under
    <3> QED BY <2>2, <3>1, Tables, TablesNext
  <2>4. \A h \in grants : h.subject # <<"receipt", x>>
    BY <2>1, NoneIsNone, Subjects
  <2> QED BY <2>1, <2>3, <2>4, Entry DEF Ledger!Next
<1>6. ASSUME NEW x \in Runs, Admit(x) PROVE [Ledger!Next]_<<clock, root, looked, grants>>
  <2> DEFINE a == [skill |-> plan[x].skill, version |-> number[x], run |-> x]
  <2>1. /\ UNCHANGED <<clock, root, dispatches, receipts, capsules, handoffs, executions>>
        /\ admissions' = admissions \cup {a}
        /\ Ends(x) /\ Authorised(x, writing.at) /\ Authorised(x, clock)
    BY <1>6 DEF Admit, Admissible, Verified, Sourced, reuse
  <2>2. a.run = x
    OBVIOUS
  <2> HIDE DEF a
  <2>3. Admitted' = Admitted \cup {Granted("admission", a, x)}
    BY <2>1, <2>2 DEF Admitted, Granted, Under
  <2>4. grants' = grants \cup {Granted("admission", a, x)}
    <3>1. /\ Dispatched' = Dispatched /\ Received' = Received /\ Covered' = Covered
          /\ HandedOut' = HandedOut /\ Reused' = Reused
      BY <2>1 DEF Dispatched, Received, Covered, HandedOut, Reused, Granted, Under
    <3> QED BY <2>3, <3>1, Tables, TablesNext
  <2>5. CASE a \in admissions
    <3>1. Granted("admission", a, x) \in grants
      BY <2>2, <2>5 DEF grants
    <3> QED BY <2>1, <2>4, <3>1, Leaving
  <2>6. CASE a \notin admissions
    <3>1. \A h \in grants : h.subject # <<"admission", a>>
      BY <2>6, NoneIsNone, Subjects
    <3> QED BY <2>1, <2>4, <3>1, Entry DEF Ledger!Next
  <2> QED BY <2>5, <2>6
<1>7. ASSUME NEW x \in Runs, Register(x) PROVE Ledger!Next
  <2>1. /\ UNCHANGED <<clock, root, dispatches, receipts, admissions, handoffs, executions>>
        /\ \E e : capsules' = [capsules EXCEPT ![x] = e]
        /\ Ends(x) /\ Authorised(x, writing.at)
        /\ capsules[x] = None /\ capsules'[x] # None
    <3>1. capsules' = [capsules EXCEPT ![x] = [until |-> plan[x].policy, at |-> writing.at]]
      BY <1>7 DEF Register
    <3>2. stage[x] = "admitted" /\ writing.at \in Nat
      BY <1>7, Holding DEF Register, Coverable, Ends
    <3>3. [until |-> plan[x].policy, at |-> writing.at] \in Capsule
      BY <3>2 DEF Planned, Plan, Capsule
    <3>4. Ends(x) /\ Authorised(x, writing.at) /\ capsules[x] = None
      BY <1>7 DEF Register, Coverable, Verified, Sourced
    <3>5. UNCHANGED <<clock, root, dispatches, receipts, admissions, handoffs, executions>>
      BY <1>7 DEF Register, reuse
    <3>6. capsules'[x] # None
      BY <3>1, <3>3
    <3> QED BY ONLY <3>1, <3>4, <3>5, <3>6
  <2>2. Covered' = Covered \cup {Granted("policy", x, x)}
    BY <2>1 DEF Covered, Granted, Under
  <2>3. grants' = grants \cup {Granted("policy", x, x)}
    <3>1. /\ Dispatched' = Dispatched /\ Received' = Received /\ Admitted' = Admitted
          /\ HandedOut' = HandedOut /\ Reused' = Reused
      BY <2>1 DEF Dispatched, Received, Admitted, HandedOut, Reused, Granted, Under
    <3> QED BY <2>2, <3>1, Tables, TablesNext
  <2>4. \A h \in grants : h.subject # <<"policy", x>>
    BY <2>1, NoneIsNone, Subjects
  <2> QED BY <2>1, <2>3, <2>4, Entry DEF Ledger!Next
<1>8. ASSUME NEW d \in Decisions, FallBack(d) PROVE UNCHANGED <<clock, root, looked, grants>>
  <2>1. /\ UNCHANGED <<clock, root, dispatches, receipts, admissions, capsules, executions>>
        /\ handoffs' = [handoffs EXCEPT ![d] = Fallback] /\ handoffs[d] = None
        /\ looked' = looked
    BY <1>8 DEF FallBack, Open, ledger, runner, looked
  <2>2. \A e \in Decisions : handoffs'[e] \in Handoff <=> handoffs[e] \in Handoff
    BY <2>1
  <2>3. \A e \in Decisions : handoffs[e] \in Handoff => handoffs'[e] = handoffs[e]
    BY <2>1
  <2>4. HandedOut' = HandedOut
    BY <2>1, <2>2, <2>3 DEF HandedOut, Granted, Under
  <2>5. /\ Dispatched' = Dispatched /\ Received' = Received /\ Admitted' = Admitted
        /\ Covered' = Covered /\ Reused' = Reused
    BY <2>1 DEF Dispatched, Received, Admitted, Covered, Reused, Granted, Under
  <2> QED BY <2>1, <2>4, <2>5, Tables, TablesNext
<1>9. ASSUME NEW d \in Decisions, NEW x \in Runs, HandOff(d, x) PROVE Ledger!Next
  <2> DEFINE e == [skill |-> receipts[x].skill, version |-> receipts[x].version, run |-> x]
  <2>1. /\ UNCHANGED <<clock, root, dispatches, receipts, admissions, capsules, executions>>
        /\ handoffs' = [handoffs EXCEPT ![d] = e] /\ handoffs[d] = None
        /\ Ends(d) /\ Authorised(x, writing.at) /\ receipts[x] # None
    BY <1>9 DEF HandOff, Deliverable, Open, ledger, Verified, Sourced
  <2>2. e \in Handoff /\ e.run = x
    BY <2>1 DEF Receipt, Handoff
  <2> HIDE DEF e
  <2>3. HandedOut' = HandedOut \cup {Granted("handoff", d, x)}
    BY <2>1, <2>2 DEF HandedOut, Granted, Under
  <2>4. grants' = grants \cup {Granted("handoff", d, x)}
    <3>1. /\ Dispatched' = Dispatched /\ Received' = Received /\ Admitted' = Admitted
          /\ Covered' = Covered /\ Reused' = Reused
      BY <2>1 DEF Dispatched, Received, Admitted, Covered, Reused, Granted, Under
    <3> QED BY <2>3, <3>1, Tables, TablesNext
  <2>5. \A h \in grants : h.subject # <<"handoff", d>>
    BY <2>1, NoneIsNone, Subjects
  <2> QED BY <2>1, <2>4, <2>5, Entry DEF Ledger!Next
<1>10. ASSUME NEW x \in Runs, ObserveReuse(x) PROVE [Ledger!Next]_<<clock, root, looked, grants>>
  <2>1. /\ UNCHANGED <<clock, root, dispatches, receipts, admissions, capsules, handoffs>>
        /\ executions' = executions \cup {x} /\ Ends(x) /\ Authorised(x, writing.at)
    BY <1>10 DEF ObserveReuse, Observable, ledger, Sourced
  <2>2. grants' = grants \cup {Granted("reuse", x, x)}
    <3>1. /\ Dispatched' = Dispatched /\ Received' = Received /\ Admitted' = Admitted
          /\ Covered' = Covered /\ HandedOut' = HandedOut
      BY <2>1 DEF Dispatched, Received, Admitted, Covered, HandedOut, Granted, Under
    <3>2. Reused' = Reused \cup {Granted("reuse", x, x)}
      BY <2>1 DEF Reused, Granted, Under
    <3> QED BY <3>1, <3>2, Tables, TablesNext
  <2>3. CASE x \in executions
    <3>1. Granted("reuse", x, x) \in grants
      BY <2>3 DEF grants
    <3> QED BY <2>1, <2>2, <3>1, Leaving
  <2>4. CASE x \notin executions
    <3>1. \A h \in grants : h.subject # <<"reuse", x>>
      BY <2>4, NoneIsNone, Subjects
    <3> QED BY <2>1, <2>2, <3>1, Entry DEF Ledger!Next
  <2> QED BY <2>3, <2>4
<1> QED
  <2> HIDE DEF IInv, TypeInv, TypeOK, RunnerTypes, LedgerTypes, ReuseTypes
  <2> QED BY <1>0, <1>1, <1>2, <1>3, <1>4, <1>5, <1>6, <1>7, <1>8, <1>9, <1>10 DEF Writers

(* The six granting transactions implement the owner's ledger, whatever      *)
(* expires, is renewed or revoked between them and whatever expires within:  *)
(* each grant is judged at the clock its transaction read, and a receipt and *)
(* an admission again when they are committed.                               *)
THEOREM AuthorityImplementsLedger == Spec => ImplementsRootedGrants
<1>1. Init => Ledger!Init
  <2> SUFFICES ASSUME Init PROVE grants = {}
    BY DEF Init, looked, Ledger!Init
  <2>1. \A d \in Decisions : handoffs[d] \notin Handoff
    BY NoneIsNone DEF Init
  <2> QED BY <2>1 DEF Init, grants
<1>2. IInv /\ [Next]_vars => [Ledger!Next]_<<clock, root, looked, grants>>
  BY Refining
<1> QED BY <1>1, <1>2, Always, PTL DEF Spec, ImplementsRootedGrants, Ledger!Spec
=============================================================================
