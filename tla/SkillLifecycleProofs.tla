------------------------ MODULE SkillLifecycleProofs ------------------------
(***************************************************************************)
(* Proofs about SkillLifecycle for any set of skills, runs, codes,         *)
(* administrators and tickets.                                             *)
(***************************************************************************)
EXTENDS SkillLifecycle, TLAPS

-----------------------------------------------------------------------------
(* Types. *)

(* What the shared part of create_candidate does to the types. *)
LEMMA ObserveTypes ==
  ASSUME TypeOK, NEW s \in Skills, NEW r \in Runs, NEW c \in Codes,
         NEW k \in Kinds, Observe(s, r, c, k)
  PROVE  /\ version' \in [Skills -> Nat]
         /\ head' \in [Skills -> VersionHead \cup {NoHead}]
         /\ bounds' \in [Skills -> Kinds]
         /\ updated' \in [Skills -> Nat]
         /\ observed' \subseteq Observation
<1> USE DEF TypeOK, RowTypes, CodeTypes
<1>1. CASE Seen(s, r)
  BY <1>1 DEF Observe
<1>2. CASE ~Seen(s, r)
  <2>1. version' \in [Skills -> Nat]
    BY <1>2 DEF Observe
  <2>2. head' \in [Skills -> VersionHead \cup {NoHead}]
    BY <1>2 DEF Observe, VersionHead
  <2>3. bounds' \in [Skills -> Kinds]
    BY <1>2 DEF Observe
  <2>4. updated' \in [Skills -> Nat]
    BY <1>2 DEF Observe
  <2>5. Observed(s, version'[s], r, c, k) \in Observation
    BY <2>1 DEF Observed, Observation
  <2>6. observed' \subseteq Observation
    BY <1>2, <2>5 DEF Observe
  <2>7. QED
    BY <2>1, <2>2, <2>3, <2>4, <2>6
<1>3. QED
  BY <1>1, <1>2

LEMMA CandidateWriteTypes ==
  ASSUME TypeOK, NEW s \in Skills, NEW r \in Runs, NEW c \in Codes,
         CandidateWrite(s, r, c)
  PROVE  RowTypes' /\ CodeTypes' /\ EventTypes'
<1>1. /\ version' \in [Skills -> Nat]
      /\ head' \in [Skills -> VersionHead \cup {NoHead}]
      /\ bounds' \in [Skills -> Kinds]
      /\ updated' \in [Skills -> Nat]
      /\ observed' \subseteq Observation
  BY ObserveTypes DEF CandidateWrite, Kinds
<1>2. audit' \in [Skills -> Nat]
  BY DEF CandidateWrite, EventsOfObserve, TypeOK, EventTypes
<1>3. status' \in [Skills -> Statuses] /\ grade' \in [Skills -> Grades]
  BY DEF CandidateWrite, StatusAfter, TypeOK, RowTypes, Statuses, Grades
<1>4. UNCHANGED <<archived, admittedAt, objectedAt, epoch, statement, tickets,
                  sources, negative>>
  BY DEF CandidateWrite
<1>5. QED
  BY <1>1, <1>2, <1>3, <1>4 DEF TypeOK, RowTypes, CodeTypes, EventTypes

LEMMA InitTypes == Init => TypeOK
BY DEF Init, TypeOK, RowTypes, CodeTypes, EventTypes, RunTypes, Statuses, Grades,
       Kinds, Phases, Statements

LEMMA SkillFrame ==
  ASSUME TypeOK, UNCHANGED skillVars
  PROVE  RowTypes' /\ CodeTypes' /\ EventTypes'
BY DEF TypeOK, skillVars, rowVars, codeVars, eventVars, RowTypes, CodeTypes, EventTypes

LEMMA RunFrame ==
  ASSUME TypeOK, UNCHANGED runVars
  PROVE  RunTypes'
BY DEF TypeOK, runVars, RunTypes

(* The steps of a run that leave the store alone. *)
LEMMA HandlerTypes ==
  ASSUME TypeOK, NEW r \in Runs,
         \/ \E s \in Skills, c \in Codes, d \in BOOLEAN : Dispatch(r, s, c, d)
         \/ Record(r) \/ RepeatRunId(r) \/ Refuse(r) \/ CrashHandlers
  PROVE  TypeOK'
<1>1. UNCHANGED <<skillVars, view, clock, names>>
  BY DEF Dispatch, Record, RepeatRunId, Refuse, CrashHandlers
<1>2. RunTypes'
  <2> USE DEF TypeOK, RunTypes, Phases
  <2>1. CASE \E s \in Skills, c \in Codes, d \in BOOLEAN : Dispatch(r, s, c, d)
    <3>1. PICK s \in Skills, c \in Codes, d \in BOOLEAN : Dispatch(r, s, c, d)
      BY <2>1
    <3>2. [skill |-> s, code |-> c, declared |-> d, epoch |-> epoch[s]] \in Request
      BY DEF Request, EventTypes
    <3>3. QED
      BY <3>1, <3>2 DEF Dispatch
  <2>2. CASE Record(r)
    <3>1. good' \subseteq Runs
      BY <2>2 DEF Record
    <3>2. /\ phase[r] = "running"
          /\ phase' = [phase EXCEPT ![r] = "recorded"]
          /\ rows' = [rows EXCEPT ![r] = 1]
          /\ request' = request
      BY <2>2 DEF Record
    <3>3. QED
      BY <3>1, <3>2
  <2>3. CASE RepeatRunId(r)
    BY <2>3 DEF RepeatRunId
  <2>4. CASE Refuse(r)
    BY <2>4 DEF Refuse
  <2>5. CASE CrashHandlers
    BY <2>5 DEF CrashHandlers
  <2>6. QED
    BY <2>1, <2>2, <2>3, <2>4, <2>5
<1>3. QED
  BY <1>1, <1>2, SkillFrame DEF TypeOK

(* A run with a row in the history has been dispatched. *)
LEMMA RecordedRunTypes ==
  ASSUME TypeOK, NEW r \in Runs, rows[r] = 1
  PROVE  phase[r] # "new" /\ request[r] \in Request
<1>1. \A q \in Runs : /\ rows[q] > 0 => phase[q] # "new"
                      /\ phase[q] # "new" => request[q] \in Request
  BY DEF TypeOK, RunTypes
<1>2. QED
  BY <1>1

(* The steps of a run that write the store. *)
LEMMA IntakeTypes ==
  ASSUME TypeOK, NEW r \in Runs, Admit(r) \/ Complete(r) \/ Recover(r)
  PROVE  TypeOK'
<1>1. CASE Admit(r)
  <2>1. request[r] \in Request
    BY <1>1 DEF Admit, TypeOK, RunTypes
  <2>2. PICK s \in Skills : s = Fingerprint(r)
    BY <2>1 DEF Fingerprint, Request, TypeOK
  <2>3. Observe(s, r, Recipe, "fixed")
    BY <1>1, <2>2 DEF Admit
  <2>4. /\ version' \in [Skills -> Nat]
        /\ head' \in [Skills -> VersionHead \cup {NoHead}]
        /\ bounds' \in [Skills -> Kinds]
        /\ updated' \in [Skills -> Nat]
        /\ observed' \subseteq Observation
    BY <2>2, <2>3, ObserveTypes, LifecycleAssumption DEF Kinds
  <2>5. status' \in [Skills -> Statuses] /\ grade' \in [Skills -> Grades]
    BY <1>1, <2>2 DEF Admit, TypeOK, RowTypes, Statuses, Grades
  <2>6. audit' \in [Skills -> Nat]
    BY <1>1, <2>2 DEF Admit, EventsOfObserve, TypeOK, EventTypes
  <2>7. admittedAt' \in [Skills -> Nat]
    BY <1>1, <2>2, <2>6 DEF Admit, TypeOK, EventTypes
  <2>8. [run |-> r, skill |-> s, version |-> version'[s]] \in Source
    BY <2>2, <2>4 DEF Source
  <2>9. sources' \subseteq Source
    BY <1>1, <2>2, <2>8 DEF Admit, TypeOK, CodeTypes
  <2>10. UNCHANGED <<archived, objectedAt, epoch, statement, tickets, negative,
                     request, rows, good, view, clock, names>>
    BY <1>1 DEF Admit
  <2>11. RunTypes'
    BY <1>1, <2>1, <2>10 DEF Admit, TypeOK, RunTypes, Phases
  <2>12. QED
    BY <2>4, <2>5, <2>6, <2>7, <2>9, <2>10, <2>11
       DEF TypeOK, RowTypes, CodeTypes, EventTypes
<1>2. CASE Complete(r)
  <2>1. request[r] \in Request
    BY <1>2 DEF Complete, TypeOK, RunTypes
  <2>2. Fingerprint(r) \in Skills /\ request[r].code \in Codes
    BY <2>1 DEF Fingerprint, Request, TypeOK
  <2>3. CandidateWrite(Fingerprint(r), r, request[r].code) \/ UNCHANGED skillVars
    BY <1>2 DEF Complete
  <2>4. RowTypes' /\ CodeTypes' /\ EventTypes'
    BY <2>2, <2>3, CandidateWriteTypes, SkillFrame
  <2>5. RunTypes' /\ UNCHANGED <<view, clock, names>>
    BY <1>2 DEF Complete, TypeOK, RunTypes, Phases
  <2>6. QED
    BY <2>4, <2>5 DEF TypeOK
<1>3. CASE Recover(r)
  <2>1. request[r] \in Request
    BY <1>3, RecordedRunTypes DEF Recover, CandidateRun
  <2>2. Fingerprint(r) \in Skills /\ request[r].code \in Codes
    BY <2>1 DEF Fingerprint, Request, TypeOK
  <2>3. RowTypes' /\ CodeTypes' /\ EventTypes'
    BY <1>3, <2>2, CandidateWriteTypes DEF Recover
  <2>4. RunTypes' /\ UNCHANGED <<view, clock, names>>
    BY <1>3, RunFrame DEF Recover
  <2>5. QED
    BY <2>3, <2>4 DEF TypeOK
<1>4. QED
  BY <1>1, <1>2, <1>3

(* Statements and feedback. *)
LEMMA FeedbackTypes ==
  ASSUME TypeOK, NEW s \in Skills, NEW r \in Runs,
         \/ \E t \in Tickets : Confirm(s, r, t) \/ Withdraw(s, r, t)
         \/ Negative(s, r)
  PROVE  TypeOK'
<1>1. UNCHANGED <<grade, archived, bounds, codeVars, admittedAt, epoch, sources,
                  runVars, view, clock, names>>
  BY DEF Confirm, Withdraw, Negative, rowVars
<1>2. RowTypes' /\ negative' \in [Skills -> SUBSET Runs] /\ EventTypes'
  <2> USE DEF TypeOK, RowTypes, CodeTypes, EventTypes, Statuses, Statements
  <2>1. CASE \E t \in Tickets : Confirm(s, r, t)
    <3>1. PICK t \in Tickets : Confirm(s, r, t)
      BY <2>1
    <3>2. [skill |-> s, id |-> t] \in Ticket
      BY DEF Ticket
    <3>3. RowTypes' /\ negative' = negative
      BY <3>1 DEF Confirm, rowVars
    <3>4. EventTypes'
      BY <3>1, <3>2 DEF Confirm
    <3>5. QED
      BY <3>3, <3>4
  <2>2. CASE \E t \in Tickets : Withdraw(s, r, t)
    <3>1. PICK t \in Tickets : Withdraw(s, r, t)
      BY <2>2
    <3>2. [skill |-> s, id |-> t] \in Ticket
      BY DEF Ticket
    <3>3. status' \in [Skills -> Statuses] /\ updated' \in [Skills -> Nat]
      BY <3>1 DEF Withdraw
    <3>4. EventTypes'
      BY <3>1, <3>2 DEF Withdraw
    <3>5. negative' = negative
      BY <3>1 DEF Withdraw
    <3>6. QED
      BY <1>1, <3>3, <3>4, <3>5
  <2>3. CASE Negative(s, r)
    <3>1. status' \in [Skills -> Statuses]
      BY <2>3 DEF Negative
    <3>2. updated' \in [Skills -> Nat] /\ negative' \in [Skills -> SUBSET Runs]
      BY <2>3 DEF Negative
    <3>3. objectedAt' \in [Skills -> Nat]
      BY <2>3 DEF Negative
    <3>4. audit' \in [Skills -> Nat] /\ UNCHANGED <<statement, tickets>>
      BY <2>3 DEF Negative
    <3>5. QED
      BY <1>1, <3>1, <3>2, <3>3, <3>4
  <2>4. QED
    BY <2>1, <2>2, <2>3
<1>3. QED
  BY <1>1, <1>2, RunFrame DEF TypeOK, CodeTypes, codeVars

LEMMA ShownIsPage ==
  ASSUME TypeOK, NEW s \in Skills
  PROVE  Shown(s) \in Page
BY DEF TypeOK, RowTypes, CodeTypes, EventTypes, Shown, Page

(* The administrators. *)
LEMMA AdminTypes ==
  ASSUME TypeOK, NEW a \in Admins,
         \/ \E s \in Skills : Look(a, s)
         \/ Leave(a) \/ Archive(a) \/ Restore(a) \/ Revalidate(a)
  PROVE  TypeOK'
<1>1. CASE \E s \in Skills : Look(a, s)
  <2>1. view' \in [Admins -> Page \cup {NoView}]
    BY <1>1, ShownIsPage DEF Look, TypeOK
  <2>2. UNCHANGED <<skillVars, runVars, clock, names>>
    BY <1>1 DEF Look
  <2>3. QED
    BY <2>1, <2>2, SkillFrame, RunFrame DEF TypeOK
<1>2. CASE Leave(a)
  <2>1. view' \in [Admins -> Page \cup {NoView}]
    BY <1>2 DEF Leave, TypeOK
  <2>2. UNCHANGED <<skillVars, runVars, clock, names>>
    BY <1>2 DEF Leave
  <2>3. QED
    BY <2>1, <2>2, SkillFrame, RunFrame DEF TypeOK
<1>3. CASE Archive(a) \/ Restore(a) \/ Revalidate(a)
  <2>1. view[a] # NoView /\ view' = [view EXCEPT ![a] = NoView]
    BY <1>3 DEF Archive, Restore, Revalidate
  <2>2. view[a].skill \in Skills
    BY <2>1 DEF TypeOK, Page
  <2>3. UNCHANGED <<bounds, codeVars, admittedAt, statement, tickets, sources,
                    negative, runVars, clock, names>>
    BY <1>3 DEF Archive, Restore, Revalidate
  <2>4. /\ status' \in [Skills -> Statuses]
        /\ grade' \in [Skills -> Grades]
        /\ archived' \in [Skills -> BOOLEAN]
        /\ updated' \in [Skills -> Nat]
    <3> USE DEF TypeOK, RowTypes, Statuses, Grades
    <3>1. CASE Archive(a)
      BY <3>1, <2>2 DEF Archive
    <3>2. CASE Restore(a)
      BY <3>2, <2>2 DEF Restore
    <3>3. CASE Revalidate(a)
      BY <3>3, <2>2 DEF Revalidate
    <3>4. QED
      BY <1>3, <3>1, <3>2, <3>3
  <2>5. /\ audit' \in [Skills -> Nat]
        /\ objectedAt' \in [Skills -> Nat]
        /\ epoch' \in [Skills -> Nat]
    <3> USE DEF TypeOK, EventTypes
    <3>1. CASE Archive(a)
      BY <3>1, <2>2 DEF Archive
    <3>2. CASE Restore(a)
      BY <3>2, <2>2 DEF Restore
    <3>3. CASE Revalidate(a)
      BY <3>3, <2>2 DEF Revalidate
    <3>4. QED
      BY <1>3, <3>1, <3>2, <3>3
  <2>6. QED
    BY <2>1, <2>3, <2>4, <2>5, RunFrame
       DEF TypeOK, RowTypes, CodeTypes, EventTypes, codeVars
<1>4. QED
  BY <1>1, <1>2, <1>3

LEMMA StepTypes == TypeOK /\ [Next]_vars => TypeOK'
<1> SUFFICES ASSUME TypeOK, [Next]_vars PROVE TypeOK'
  OBVIOUS
<1>1. ASSUME NEW r \in Runs,
             \/ \E s \in Skills, c \in Codes, d \in BOOLEAN : Dispatch(r, s, c, d)
             \/ Record(r) \/ RepeatRunId(r) \/ Refuse(r) \/ CrashHandlers
      PROVE TypeOK'
  BY <1>1, HandlerTypes
<1>2. ASSUME NEW r \in Runs, Admit(r) \/ Complete(r) \/ Recover(r)
      PROVE TypeOK'
  BY <1>2, IntakeTypes
<1>3. CASE CrashHandlers
  <2>1. PICK r \in Runs : TRUE
    BY <1>3 DEF CrashHandlers
  <2>2. QED
    BY <1>1, <1>3
<1>4. CASE Upgrade
  <2>1. UNCHANGED skillVars /\ RunTypes' /\ UNCHANGED <<view, clock>>
    BY <1>4 DEF Upgrade, TypeOK, RunTypes, Phases
  <2>2. names' \in [Skills -> Skills]
    BY <1>4 DEF Upgrade
  <2>3. QED
    BY <2>1, <2>2, SkillFrame DEF TypeOK
<1>5. CASE UNCHANGED vars
  BY <1>5, SkillFrame, RunFrame DEF vars, TypeOK, runVars
<1>6. CASE Tick
  BY <1>6, SkillFrame, RunFrame DEF Tick, TypeOK
<1>7. QED
  BY <1>1, <1>2, <1>3, <1>4, <1>5, <1>6, FeedbackTypes, AdminTypes DEF Next

(* Every handler keeps the store, the history and the pages within the schema. *)
THEOREM TypeCorrect == Spec => []TypeOK
BY InitTypes, StepTypes, PTL DEF Spec

-----------------------------------------------------------------------------
(***************************************************************************)
(* What an active label rests on, for any set of skills, runs, codes,      *)
(* administrators and tickets.                                             *)
(*                                                                         *)
(* Neither property is inductive.  What carries them is that the bounds a  *)
(* skill was created under never change while it exists (ObservedInv), so  *)
(* that the generic candidate path cannot reach a skill the local intake   *)
(* admitted (FixedInv).                                                    *)
(***************************************************************************)
(* Every observation and every admitted run agrees with the bounds its skill *)
(* was created under.                                                        *)
ObservedInv ==
  /\ \A o \in observed : Exists(o.skill) /\ bounds[o.skill] = o.kind
  /\ \A x \in sources : Exists(x.skill) /\ bounds[x.skill] = "fixed"

(* A skill under fixed bounds holds the recipe, and the run its latest       *)
(* version names was admitted; an active skill is one of these.              *)
FixedInv ==
  \A s \in Skills :
    /\ bounds[s] = "fixed" => /\ Exists(s)
                              /\ head[s] # NoHead
                              /\ head[s].code = Recipe
                              /\ head[s].run \in CurrentSources(s)
    /\ status[s] = "active" => grade[s] = "Q4" /\ bounds[s] = "fixed"

TrustInv == TypeOK /\ ObservedInv /\ FixedInv
-----------------------------------------------------------------------------
LEMMA InitTrust == Init => TrustInv
BY InitTypes DEF Init, TrustInv, ObservedInv, FixedInv

(* What an accepted write of create_candidate leaves behind. *)
LEMMA ObserveEffect ==
  ASSUME TypeOK, ObservedInv, NEW s \in Skills, NEW r \in Runs, NEW c \in Codes,
         NEW k \in Kinds, Acceptable(s, r, c, k), Observe(s, r, c, k)
  PROVE  /\ \A z \in Skills : z # s => /\ version'[z] = version[z]
                                       /\ head'[z] = head[z]
                                       /\ bounds'[z] = bounds[z]
         /\ Exists(s) => bounds[s] = k
         /\ Exists(s)' /\ bounds'[s] = k
         /\ \A o \in observed' : \/ o \in observed
                                 \/ o.skill = s /\ o.run = r /\ o.kind = k
<1> USE DEF TypeOK, CodeTypes, RowTypes
<1>1. Exists(s) => bounds[s] = k
  BY DEF Acceptable
<1>2. CASE Seen(s, r)
  <2>1. Exists(s)
    BY <1>2 DEF Seen, ObservedInv
  <2>2. UNCHANGED <<version, head, bounds, observed>>
    BY <1>2 DEF Observe
  <2>3. QED
    BY <1>1, <2>1, <2>2 DEF Exists
<1>3. CASE ~Seen(s, r)
  <2>1. /\ bounds' = [bounds EXCEPT ![s] = IF Exists(s) THEN @ ELSE k]
        /\ observed' = observed \cup {Observed(s, version'[s], r, c, k)}
    BY <1>3, Zenon DEF Observe
  <2>2. \/ /\ version' = [version EXCEPT ![s] = @ + 1]
           /\ head' = [head EXCEPT ![s] = [code |-> c, run |-> r]]
        \/ ~NewVersion(s, c) /\ UNCHANGED <<version, head>>
    BY <1>3, Zenon DEF Observe
  <2>3. Exists(s)'
    BY <2>2 DEF Exists, NewVersion
  <2>4. \A z \in Skills : z # s => version'[z] = version[z] /\ head'[z] = head[z]
    BY <2>2
  <2>5. \A z \in Skills : z # s => bounds'[z] = bounds[z]
    BY <2>1
  <2>6. bounds'[s] = k
    BY <1>1, <2>1
  <2>7. \A o \in observed' : \/ o \in observed
                             \/ o.skill = s /\ o.run = r /\ o.kind = k
    BY <2>1 DEF Observed
  <2>8. QED
    BY <1>1, <2>3, <2>4, <2>5, <2>6, <2>7
<1>4. QED
  BY <1>2, <1>3

(* Only the intake makes a skill active or touches what was observed. *)
LEMMA RowTrust ==
  ASSUME TrustInv, UNCHANGED <<bounds, codeVars, sources>>,
         \A s \in Skills : status'[s] = "active" =>
                             status[s] = "active" /\ grade'[s] = grade[s]
  PROVE  ObservedInv' /\ FixedInv'
<1>1. ObservedInv'
  BY DEF TrustInv, ObservedInv, Exists, codeVars
<1>2. FixedInv'
  BY DEF TrustInv, FixedInv, CurrentSources, Exists, codeVars
<1>3. QED
  BY <1>1, <1>2

LEMMA StoreTrust ==
  ASSUME TrustInv, UNCHANGED skillVars
  PROVE  ObservedInv' /\ FixedInv'
BY RowTrust DEF skillVars, rowVars, codeVars

(* The candidate path writes skills of other bounds than the local intake.   *)
LEMMA CandidateTrust ==
  ASSUME TrustInv, NEW r \in Runs, CandidateRun(r),
         CandidateWrite(Fingerprint(r), r, request[r].code)
  PROVE  ObservedInv' /\ FixedInv'
<1>1. PICK s \in Skills, c \in Codes : s = Fingerprint(r) /\ c = request[r].code
  <2>1. rows[r] = 1
    BY DEF CandidateRun
  <2>2. QED
    BY <2>1, RecordedRunTypes DEF TrustInv, TypeOK, Fingerprint, Request
<1>2. CandidateWrite(s, r, c) /\ Acceptable(s, r, c, "generic") /\ Observe(s, r, c, "generic")
  BY <1>1 DEF CandidateRun, CandidateWrite
<1>3. /\ \A z \in Skills : z # s => /\ version'[z] = version[z]
                                    /\ head'[z] = head[z]
                                    /\ bounds'[z] = bounds[z]
      /\ Exists(s) => bounds[s] = "generic"
      /\ Exists(s)' /\ bounds'[s] = "generic"
      /\ \A o \in observed' : \/ o \in observed
                              \/ o.skill = s /\ o.run = r /\ o.kind = "generic"
  BY <1>1, <1>2, ObserveEffect DEF TrustInv, Kinds
<1>4. sources' = sources
  BY <1>2 DEF CandidateWrite
<1>5. /\ \A o \in observed : o.skill \in Skills
      /\ \A x \in sources : x.skill \in Skills
  BY DEF TrustInv, TypeOK, CodeTypes, Observation, Source
<1>6. \A z \in Skills : Exists(z) => bounds'[z] = bounds[z] /\ Exists(z)'
  BY <1>3 DEF Exists
<1>7. ObservedInv'
  <2>1. ASSUME NEW o \in observed'
        PROVE  /\ Exists(o.skill)'
               /\ bounds'[o.skill] = o.kind
    <3>1. CASE o \in observed
      BY <3>1, <1>5, <1>6 DEF TrustInv, ObservedInv
    <3>2. CASE o.skill = s /\ o.run = r /\ o.kind = "generic"
      BY <3>2, <1>3
    <3>3. QED
      BY <1>3, <3>1, <3>2
  <2>2. ASSUME NEW x \in sources'
        PROVE  /\ Exists(x.skill)'
               /\ bounds'[x.skill] = "fixed"
    BY <1>4, <1>5, <1>6 DEF TrustInv, ObservedInv
  <2>3. QED
    BY <2>1, <2>2 DEF ObservedInv
<1>8. FixedInv'
  <2>1. ASSUME NEW z \in Skills, z # s
        PROVE  status'[z] = status[z] /\ grade'[z] = grade[z]
    <3>1. CASE Seen(s, r)
      BY <1>2, <3>1 DEF CandidateWrite
    <3>2. CASE ~Seen(s, r)
      <4>1. /\ status' = [status EXCEPT ![s] = StatusAfter(s, c)]
            /\ grade' = [grade EXCEPT ![s] = IF NewVersion(s, c) THEN "Q2" ELSE @]
        BY <1>2, <3>2, Zenon DEF CandidateWrite
      <4>2. QED
        BY <2>1, <4>1 DEF TrustInv, TypeOK, RowTypes
    <3>3. QED
      BY <3>1, <3>2
  <2>2. status'[s] # "active"
    <3>1. ~Exists(s) \/ status[s] # "active"
      BY <1>1, <1>3 DEF TrustInv, FixedInv
    <3>2. Seen(s, r) => Exists(s)
      BY DEF TrustInv, ObservedInv, Seen
    <3>3. CASE Seen(s, r)
      BY <1>2, <3>1, <3>2, <3>3 DEF CandidateWrite
    <3>4. CASE ~Seen(s, r)
      <4>1. status' = [status EXCEPT ![s] = StatusAfter(s, c)]
        BY <1>2, <3>4, Zenon DEF CandidateWrite
      <4>2. StatusAfter(s, c) # "active"
        BY <3>1 DEF StatusAfter
      <4>3. QED
        BY <1>1, <4>1, <4>2 DEF TrustInv, TypeOK, RowTypes
    <3>5. QED
      BY <3>3, <3>4
  <2>3. ASSUME NEW z \in Skills, z # s
        PROVE  Exists(z)' = Exists(z) /\ CurrentSources(z)' = CurrentSources(z)
    BY <1>3, <1>4, <2>3 DEF Exists, CurrentSources
  <2>4. ASSUME NEW z \in Skills
        PROVE  /\ bounds'[z] = "fixed" => /\ Exists(z)'
                                          /\ head'[z] # NoHead
                                          /\ head'[z].code = Recipe
                                          /\ head'[z].run \in CurrentSources(z)'
               /\ status'[z] = "active" => grade'[z] = "Q4" /\ bounds'[z] = "fixed"
    <3>1. CASE z = s
      BY <3>1, <1>3, <2>2
    <3>2. CASE z # s
      BY <3>2, <1>3, <2>1, <2>3 DEF TrustInv, FixedInv
    <3>3. QED
      BY <3>1, <3>2
  <2>5. QED
    BY <2>4 DEF FixedInv
<1>9. QED
  BY <1>7, <1>8

(* The local intake admits into the skill of the run, under fixed bounds. *)
LEMMA AdmitTrust ==
  ASSUME TrustInv, NEW r \in Runs, Admit(r)
  PROVE  ObservedInv' /\ FixedInv'
<1>1. PICK s \in Skills : s = Fingerprint(r)
  BY DEF Admit, TrustInv, TypeOK, RunTypes, Fingerprint, Request
<1> DEFINE new == [run |-> r, skill |-> s, version |-> version'[s]]
<1>2. Acceptable(s, r, Recipe, "fixed") /\ Observe(s, r, Recipe, "fixed")
  BY <1>1 DEF Admit
<1>3. /\ \A z \in Skills : z # s => /\ version'[z] = version[z]
                                    /\ head'[z] = head[z]
                                    /\ bounds'[z] = bounds[z]
      /\ Exists(s) => bounds[s] = "fixed"
      /\ Exists(s)' /\ bounds'[s] = "fixed"
      /\ \A o \in observed' : \/ o \in observed
                              \/ o.skill = s /\ o.run = r /\ o.kind = "fixed"
  BY <1>2, ObserveEffect, LifecycleAssumption DEF TrustInv, Kinds
<1>4. sources' = sources \cup {new}
  BY <1>1 DEF Admit
<1>5. /\ \A o \in observed : o.skill \in Skills
      /\ \A x \in sources : x.skill \in Skills
  BY DEF TrustInv, TypeOK, CodeTypes, Observation, Source
<1>6. \A z \in Skills : Exists(z) => bounds'[z] = bounds[z] /\ Exists(z)'
  BY <1>3 DEF Exists
<1>7. ObservedInv'
  <2>1. ASSUME NEW o \in observed'
        PROVE  /\ Exists(o.skill)'
               /\ bounds'[o.skill] = o.kind
    <3>1. CASE o \in observed
      BY <3>1, <1>5, <1>6 DEF TrustInv, ObservedInv
    <3>2. CASE o.skill = s /\ o.run = r /\ o.kind = "fixed"
      BY <3>2, <1>1, <1>3
    <3>3. QED
      BY <1>3, <3>1, <3>2
  <2>2. ASSUME NEW x \in sources'
        PROVE  /\ Exists(x.skill)'
               /\ bounds'[x.skill] = "fixed"
    <3>1. CASE x \in sources
      BY <3>1, <1>5, <1>6 DEF TrustInv, ObservedInv
    <3>2. CASE x = new
      BY <3>2, <1>1, <1>3
    <3>3. QED
      BY <1>4, <3>1, <3>2
  <2>3. QED
    BY <2>1, <2>2 DEF ObservedInv
<1>8. FixedInv'
  <2>1. ASSUME NEW z \in Skills, z # s
        PROVE  status'[z] = status[z] /\ grade'[z] = grade[z]
    BY <1>1, <2>1 DEF Admit, TrustInv, TypeOK, RowTypes
  <2>2. status'[s] = "active" /\ grade'[s] = "Q4"
    BY <1>1 DEF Admit, TrustInv, TypeOK, RowTypes
  <2>3. ASSUME NEW z \in Skills, z # s
        PROVE  Exists(z)' = Exists(z) /\ CurrentSources(z)' = CurrentSources(z)
    BY <1>3, <1>4, <2>3 DEF Exists, CurrentSources
  <2>4. /\ head'[s] # NoHead
        /\ head'[s].code = Recipe
        /\ head'[s].run \in CurrentSources(s)'
    <3>1. CASE Exists(s)
      <4>1. head[s] # NoHead /\ head[s].code = Recipe /\ head[s].run \in CurrentSources(s)
        BY <1>1, <1>3, <3>1 DEF TrustInv, FixedInv
      <4>2. ~NewVersion(s, Recipe)
        BY <3>1, <4>1 DEF NewVersion
      <4>3. version' = version /\ head' = head
        BY <1>2, <4>2, Zenon DEF Observe
      <4>4. CurrentSources(s) \subseteq CurrentSources(s)'
        BY <1>4, <4>3 DEF CurrentSources
      <4>5. QED
        BY <4>1, <4>3, <4>4
    <3>2. CASE ~Exists(s)
      <4>1. ~Seen(s, r)
        BY <3>2 DEF TrustInv, ObservedInv, Seen
      <4>2. head' = [head EXCEPT ![s] = [code |-> Recipe, run |-> r]]
        <5>1. NewVersion(s, Recipe)
          BY <3>2 DEF NewVersion
        <5>2. QED
          BY <1>2, <4>1, <5>1, Zenon DEF Observe
      <4>3. head'[s] = [code |-> Recipe, run |-> r]
        BY <1>1, <4>2 DEF TrustInv, TypeOK, CodeTypes
      <4>4. [code |-> Recipe, run |-> r] # NoHead
        BY LifecycleAssumption
      <4>5. r \in CurrentSources(s)'
        <5>1. new \in {y \in sources' : y.skill = s /\ y.version = version'[s]}
          BY <1>4
        <5>2. new.run \in CurrentSources(s)'
          BY <5>1 DEF CurrentSources
        <5>3. QED
          BY <5>2
      <4>6. QED
        BY <4>3, <4>4, <4>5
    <3>3. QED
      BY <3>1, <3>2
  <2>5. ASSUME NEW z \in Skills
        PROVE  /\ bounds'[z] = "fixed" => /\ Exists(z)'
                                          /\ head'[z] # NoHead
                                          /\ head'[z].code = Recipe
                                          /\ head'[z].run \in CurrentSources(z)'
               /\ status'[z] = "active" => grade'[z] = "Q4" /\ bounds'[z] = "fixed"
    <3>1. CASE z = s
      BY <3>1, <1>3, <2>2, <2>4
    <3>2. CASE z # s
      BY <3>2, <1>3, <2>1, <2>3 DEF TrustInv, FixedInv
    <3>3. QED
      BY <3>1, <3>2
  <2>6. QED
    BY <2>5 DEF FixedInv
<1>9. QED
  BY <1>7, <1>8

LEMMA StepTrust == TrustInv /\ [Next]_vars => TrustInv'
<1> SUFFICES ASSUME TrustInv, [Next]_vars PROVE ObservedInv' /\ FixedInv'
  BY StepTypes DEF TrustInv
<1> USE DEF TrustInv
<1>1. ASSUME NEW r \in Runs, Admit(r)
      PROVE  ObservedInv' /\ FixedInv'
  BY <1>1, AdmitTrust
<1>2. ASSUME NEW r \in Runs, Complete(r) \/ Recover(r)
      PROVE  ObservedInv' /\ FixedInv'
  <2>1. \/ CandidateRun(r) /\ CandidateWrite(Fingerprint(r), r, request[r].code)
        \/ UNCHANGED skillVars
    BY <1>2 DEF Complete, Recover
  <2>2. QED
    BY <2>1, CandidateTrust, StoreTrust
<1>3. ASSUME NEW s \in Skills, NEW r \in Runs,
             \/ \E t \in Tickets : Confirm(s, r, t) \/ Withdraw(s, r, t)
             \/ Negative(s, r)
      PROVE  ObservedInv' /\ FixedInv'
  <2>1. UNCHANGED <<grade, bounds, codeVars, sources>>
    BY <1>3 DEF Confirm, Withdraw, Negative, rowVars
  <2>2. \A z \in Skills : status'[z] = "active" => status[z] = "active"
    BY <1>3 DEF Confirm, Withdraw, Negative, rowVars, TypeOK, RowTypes
  <2>3. QED
    BY <2>1, <2>2, RowTrust
<1>4. ASSUME NEW a \in Admins, Archive(a) \/ Restore(a) \/ Revalidate(a)
      PROVE  ObservedInv' /\ FixedInv'
  <2>1. UNCHANGED <<bounds, codeVars, sources>>
    BY <1>4 DEF Archive, Restore, Revalidate
  <2>2. \A z \in Skills : status'[z] = "active" =>
                           status[z] = "active" /\ grade'[z] = grade[z]
    <3>1. CASE Archive(a)
      BY <3>1 DEF Archive
    <3>2. CASE Restore(a)
      BY <3>2 DEF Restore, TypeOK, RowTypes
    <3>3. CASE Revalidate(a)
      BY <3>3 DEF Revalidate, TypeOK, RowTypes
    <3>4. QED
      BY <1>4, <3>1, <3>2, <3>3
  <2>3. QED
    BY <2>1, <2>2, RowTrust
<1>5. CASE \/ \E r \in Runs, s \in Skills, c \in Codes, d \in BOOLEAN : Dispatch(r, s, c, d)
           \/ \E r \in Runs : Record(r) \/ RepeatRunId(r) \/ Refuse(r)
           \/ CrashHandlers \/ Upgrade
           \/ \E a \in Admins : Leave(a) \/ \E s \in Skills : Look(a, s)
           \/ Tick \/ UNCHANGED vars
  <2>1. UNCHANGED skillVars
    BY <1>5 DEF Dispatch, Record, RepeatRunId, Refuse, CrashHandlers, Upgrade, Leave, Look,
                Tick, vars
  <2>2. QED
    BY <2>1, StoreTrust
<1>6. QED
  <2>1. CASE \E r \in Runs : \/ Record(r) \/ RepeatRunId(r) \/ Admit(r) \/ Refuse(r)
                             \/ Complete(r) \/ Recover(r)
    BY <2>1, <1>1, <1>2, <1>5
  <2>2. CASE \/ \E s \in Skills, r \in Runs, t \in Tickets :
                 Confirm(s, r, t) \/ Withdraw(s, r, t)
           \/ \E s \in Skills, r \in Runs : Negative(s, r)
    BY <2>2, <1>3
  <2>3. CASE \E a \in Admins : Leave(a) \/ Archive(a) \/ Restore(a) \/ Revalidate(a)
    BY <2>3, <1>4, <1>5
  <2>4. CASE \E a \in Admins, s \in Skills : Look(a, s)
    BY <2>4, <1>5
  <2>5. QED
    BY <1>5, <2>1, <2>2, <2>3, <2>4 DEF Next

LEMMA TrustAlways == Spec => []TrustInv
BY InitTrust, StepTrust, PTL DEF Spec

(* What is active was admitted: no path leaves the active label on code or   *)
(* evidence that did not pass the local intake.                              *)
THEOREM ActiveAdmitted == Spec => []ActiveIsAdmitted
<1>1. TrustInv => ActiveIsAdmitted
  BY DEF TrustInv, FixedInv, ActiveIsAdmitted
<1>2. QED
  BY <1>1, TrustAlways, PTL

-----------------------------------------------------------------------------
(***************************************************************************)
(* The order of events in the skill library: objections and admissions,    *)
(* pages and revalidations, and what it takes to be handed out.            *)
(*                                                                         *)
(* The argument is that every change of the record an administrator can    *)
(* see moves the number of the skill's last event (RecordMovesAudit).      *)
(***************************************************************************)
(* Objections were recorded; one that nothing answered leaves no active label. *)
ObjectionInv ==
  \A s \in Skills : /\ objectedAt[s] <= audit[s]
                    /\ status[s] = "active" => objectedAt[s] < admittedAt[s]

(* A page whose event number is still the latest shows the current record. *)
ViewInv ==
  \A a \in Admins : view[a] # NoView =>
    /\ view[a].audit <= audit[view[a].skill]
    /\ view[a].audit = audit[view[a].skill] => view[a] = Shown(view[a].skill)

(* What an administrator sees of s, and what an objection to s looks at. *)
PageRecord(s) == <<updated[s], audit[s], status[s], archived[s], version[s], negative[s]>>
-----------------------------------------------------------------------------
(* Candidate writes. *)
LEMMA CandidateMoves ==
  ASSUME TypeOK, NEW s \in Skills, NEW r \in Runs, NEW c \in Codes,
         CandidateWrite(s, r, c), NEW z \in Skills
  PROVE  /\ audit'[z] \in Nat /\ audit[z] <= audit'[z]
         /\ audit'[z] = audit[z] => PageRecord(z)' = PageRecord(z)
         /\ status'[z] = "active" => status[z] = "active"
         /\ UNCHANGED <<admittedAt, objectedAt>>
<1> USE DEF TypeOK, RowTypes, CodeTypes, EventTypes
<1>1. audit' = [audit EXCEPT ![s] = @ + EventsOfObserve(s, r)]
      /\ Observe(s, r, c, "generic")
      /\ UNCHANGED <<archived, admittedAt, objectedAt, negative>>
  BY DEF CandidateWrite
<1>2. CASE Seen(s, r)
  <2>1. UNCHANGED <<version, updated, status>>
    BY <1>1, <1>2 DEF Observe, CandidateWrite
  <2>2. audit' = audit
    BY <1>1, <1>2 DEF EventsOfObserve
  <2>3. QED
    BY <1>1, <2>1, <2>2 DEF PageRecord
<1>3. CASE ~Seen(s, r)
  <2>1. audit' = [audit EXCEPT ![s] = @ + 1]
    BY <1>1, <1>3 DEF EventsOfObserve
  <2>2. status' = [status EXCEPT ![s] = StatusAfter(s, c)]
    BY <1>3, Zenon DEF CandidateWrite
  <2>3. updated' = [updated EXCEPT ![s] = clock]
    BY <1>1, <1>3, Zenon DEF Observe
  <2>4. version' = [version EXCEPT ![s] = @ + 1] \/ version' = version
    BY <1>1, <1>3, Zenon DEF Observe
  <2>5. CASE z = s
    <3>1. audit'[z] = audit[z] + 1 /\ audit[z] \in Nat
      BY <2>1, <2>5
    <3>2. status'[z] = "active" => status[z] = "active"
      BY <2>2, <2>5 DEF StatusAfter
    <3>3. QED
      BY <1>1, <3>1, <3>2
  <2>6. CASE z # s
    <3>1. audit'[z] = audit[z] /\ status'[z] = status[z] /\ updated'[z] = updated[z]
      BY <2>1, <2>2, <2>3, <2>6
    <3>2. version'[z] = version[z]
      BY <2>4, <2>6
    <3>3. QED
      BY <1>1, <3>1, <3>2 DEF PageRecord
  <2>7. QED
    BY <2>5, <2>6
<1>4. QED
  BY <1>2, <1>3

LEMMA StoreFrame ==
  ASSUME UNCHANGED skillVars, NEW z \in Skills
  PROVE  /\ PageRecord(z)' = PageRecord(z)
         /\ UNCHANGED <<status, audit, admittedAt, objectedAt>>
BY DEF skillVars, rowVars, codeVars, eventVars, PageRecord

(* A run is admitted after everything that was recorded about its skill. *)
LEMMA AdmitMoves ==
  ASSUME TypeOK, NEW r \in Runs, Admit(r), NEW z \in Skills
  PROVE  /\ audit'[z] \in Nat /\ audit[z] <= audit'[z]
         /\ audit'[z] = audit[z] => PageRecord(z)' = PageRecord(z)
         /\ objectedAt' = objectedAt
         /\ \/ z = Fingerprint(r) /\ admittedAt'[z] = audit'[z] /\ audit'[z] > audit[z]
            \/ z # Fingerprint(r) /\ admittedAt'[z] = admittedAt[z] /\ status'[z] = status[z]
<1> USE DEF TypeOK, RowTypes, CodeTypes, EventTypes
<1>1. PICK s \in Skills : s = Fingerprint(r)
  BY DEF Admit, RunTypes, Fingerprint, Request
<1>2. /\ Observe(s, r, Recipe, "fixed")
      /\ audit' = [audit EXCEPT ![s] = @ + EventsOfObserve(s, r) + 1]
      /\ admittedAt' = [admittedAt EXCEPT ![s] = audit'[s]]
      /\ status' = [status EXCEPT ![s] = "active"]
      /\ UNCHANGED <<archived, objectedAt, negative>>
  BY <1>1 DEF Admit
<1>3. EventsOfObserve(s, r) \in {0, 1}
  BY DEF EventsOfObserve
<1>4. CASE z = s
  <2>1. audit'[z] \in Nat /\ audit'[z] > audit[z] /\ admittedAt'[z] = audit'[z]
    BY <1>2, <1>3, <1>4
  <2>2. QED
    BY <1>1, <1>2, <1>4, <2>1
<1>5. CASE z # s
  <2>1. /\ audit'[z] = audit[z] /\ admittedAt'[z] = admittedAt[z] /\ status'[z] = status[z]
    BY <1>2, <1>5
  <2>2. updated'[z] = updated[z]
    <3>1. CASE Seen(s, r)
      BY <1>2, <3>1 DEF Observe
    <3>2. CASE ~Seen(s, r)
      <4>1. updated' = [updated EXCEPT ![s] = clock]
        BY <1>2, <3>2, Zenon DEF Observe
      <4>2. QED
        BY <1>5, <4>1
    <3>3. QED
      BY <3>1, <3>2
  <2>3. version'[z] = version[z]
    <3>1. version' = [version EXCEPT ![s] = @ + 1] \/ version' = version
      BY <1>2, Zenon DEF Observe
    <3>2. QED
      BY <1>5, <3>1
  <2>4. QED
    BY <1>1, <1>2, <1>5, <2>1, <2>2, <2>3 DEF PageRecord
<1>6. QED
  BY <1>4, <1>5

LEMMA FeedbackMoves ==
  ASSUME TypeOK, NEW s \in Skills, NEW r \in Runs,
         \/ \E t \in Tickets : Confirm(s, r, t) \/ Withdraw(s, r, t)
         \/ Negative(s, r),
         NEW z \in Skills
  PROVE  /\ audit'[z] \in Nat /\ audit[z] <= audit'[z]
         /\ audit'[z] = audit[z] => PageRecord(z)' = PageRecord(z)
         /\ admittedAt' = admittedAt
         /\ objectedAt[z] <= audit[z] => objectedAt'[z] <= audit'[z]
         /\ status'[z] = "active" => status[z] = "active" /\ objectedAt'[z] = objectedAt[z]
<1> USE DEF TypeOK, RowTypes, CodeTypes, EventTypes
<1>1. /\ audit' = [audit EXCEPT ![s] = @ + 1]
      /\ UNCHANGED <<archived, version, admittedAt>>
  BY DEF Confirm, Withdraw, Negative, rowVars, codeVars
<1>2. \A x \in Skills : x # s => PageRecord(x)' = PageRecord(x)
  <2>1. CASE \E t \in Tickets : Confirm(s, r, t)
    BY <2>1, <1>1 DEF Confirm, PageRecord, rowVars
  <2>2. CASE \E t \in Tickets : Withdraw(s, r, t)
    BY <2>2, <1>1 DEF Withdraw, PageRecord
  <2>3. CASE Negative(s, r)
    BY <2>3, <1>1 DEF Negative, PageRecord
  <2>4. QED
    BY <2>1, <2>2, <2>3
<1>3. /\ objectedAt[z] <= audit[z] => objectedAt'[z] <= audit'[z]
      /\ status'[z] = "active" => status[z] = "active" /\ objectedAt'[z] = objectedAt[z]
  <2>1. CASE \E t \in Tickets : Confirm(s, r, t)
    BY <2>1, <1>1 DEF Confirm, rowVars
  <2>2. CASE \E t \in Tickets : Withdraw(s, r, t)
    BY <2>2, <1>1 DEF Withdraw
  <2>3. CASE Negative(s, r)
    <3>1. PICK doubted \in BOOLEAN :
            /\ status' = [status EXCEPT ![s] =
                            IF @ = "active" /\ doubted THEN "questioned" ELSE @]
            /\ objectedAt' = [objectedAt EXCEPT ![s] = IF doubted THEN audit[s] + 1 ELSE @]
      BY <2>3 DEF Negative
    <3>2. QED
      BY <3>1, <1>1
  <2>4. QED
    BY <2>1, <2>2, <2>3
<1>4. audit'[z] \in Nat /\ audit[z] <= audit'[z] /\ (audit'[z] = audit[z] => z # s)
  BY <1>1
<1>5. QED
  BY <1>1, <1>2, <1>3, <1>4

LEMMA PageMoves ==
  ASSUME TypeOK, NEW a \in Admins, Archive(a) \/ Restore(a) \/ Revalidate(a),
         NEW z \in Skills
  PROVE  /\ audit'[z] \in Nat /\ audit[z] <= audit'[z]
         /\ audit'[z] = audit[z] => PageRecord(z)' = PageRecord(z)
         /\ admittedAt' = admittedAt
         /\ objectedAt[z] <= audit[z] => objectedAt'[z] <= audit'[z]
         /\ status'[z] = "active" => status[z] = "active" /\ objectedAt'[z] = objectedAt[z]
<1> USE DEF TypeOK, RowTypes, CodeTypes, EventTypes
<1>1. PICK s \in Skills : s = view[a].skill
  BY DEF Archive, Restore, Revalidate, Page
<1>2. /\ audit' = [audit EXCEPT ![s] = @ + 1]
      /\ UNCHANGED <<version, negative, admittedAt>>
  BY <1>1 DEF Archive, Restore, Revalidate, codeVars
<1>3. /\ objectedAt[z] <= audit[z] => objectedAt'[z] <= audit'[z]
      /\ status'[z] = "active" => status[z] = "active" /\ objectedAt'[z] = objectedAt[z]
      /\ z # s => /\ status'[z] = status[z] /\ archived'[z] = archived[z]
                  /\ updated'[z] = updated[z]
  <2>1. CASE Archive(a)
    <3>1. UNCHANGED <<objectedAt, status>>
      BY <2>1 DEF Archive
    <3>2. z # s => archived'[z] = archived[z] /\ updated'[z] = updated[z]
      BY <2>1, <1>1 DEF Archive
    <3>3. QED
      BY <1>2, <3>1, <3>2
  <2>2. CASE Restore(a)
    <3>1. objectedAt' = [objectedAt EXCEPT ![s] = audit[s] + 1]
      BY <2>2, <1>1 DEF Restore
    <3>2. status' = [status EXCEPT ![s] = IF @ = "active" THEN "questioned" ELSE @]
      BY <2>2, <1>1 DEF Restore
    <3>3. z # s => archived'[z] = archived[z] /\ updated'[z] = updated[z]
      BY <2>2, <1>1 DEF Restore
    <3>4. QED
      BY <1>2, <3>1, <3>2, <3>3
  <2>3. CASE Revalidate(a)
    BY <2>3, <1>1, <1>2 DEF Revalidate
  <2>4. QED
    BY <1>1, <2>1, <2>2, <2>3
<1>4. audit'[z] \in Nat /\ audit[z] <= audit'[z] /\ (audit'[z] = audit[z] => z # s)
  BY <1>2
<1>5. audit'[z] = audit[z] => PageRecord(z)' = PageRecord(z)
  BY <1>2, <1>3, <1>4 DEF PageRecord
<1>6. QED
  BY <1>2, <1>3, <1>4, <1>5

(* Every change of the record moves the number of its last event. *)
LEMMA RecordMovesAudit ==
  ASSUME TypeOK, [Next]_vars, NEW z \in Skills
  PROVE  /\ audit'[z] \in Nat /\ audit[z] <= audit'[z]
         /\ audit'[z] = audit[z] => PageRecord(z)' = PageRecord(z)
<1> DEFINE Goal == /\ audit'[z] \in Nat /\ audit[z] <= audit'[z]
                   /\ audit'[z] = audit[z] => PageRecord(z)' = PageRecord(z)
<1>1. CASE UNCHANGED skillVars
  <2>1. audit[z] \in Nat
    BY DEF TypeOK, EventTypes
  <2>2. QED
    BY <1>1, <2>1, StoreFrame
<1>2. ASSUME NEW r \in Runs, CandidateRun(r),
             CandidateWrite(Fingerprint(r), r, request[r].code)
      PROVE  Goal
  <2>1. rows[r] = 1
    BY <1>2 DEF CandidateRun
  <2>2. Fingerprint(r) \in Skills /\ request[r].code \in Codes
    BY <2>1, RecordedRunTypes DEF Fingerprint, Request, TypeOK
  <2>3. QED
    BY <1>2, <2>2, CandidateMoves
<1>3. ASSUME NEW r \in Runs, Complete(r) \/ Recover(r)
      PROVE  Goal
  <2>1. \/ CandidateRun(r) /\ CandidateWrite(Fingerprint(r), r, request[r].code)
        \/ UNCHANGED skillVars
    BY <1>3 DEF Complete, Recover
  <2>2. QED
    BY <1>1, <1>2, <2>1
<1>4. ASSUME NEW r \in Runs, Admit(r)
      PROVE  Goal
  BY <1>4, AdmitMoves
<1>5. ASSUME NEW s \in Skills, NEW r \in Runs,
             \/ \E t \in Tickets : Confirm(s, r, t) \/ Withdraw(s, r, t)
             \/ Negative(s, r)
      PROVE  Goal
  BY <1>5, FeedbackMoves
<1>6. ASSUME NEW a \in Admins, Archive(a) \/ Restore(a) \/ Revalidate(a)
      PROVE  Goal
  BY <1>6, PageMoves
<1>7. CASE \/ \E r \in Runs, s \in Skills, c \in Codes, d \in BOOLEAN : Dispatch(r, s, c, d)
           \/ \E r \in Runs : Record(r) \/ RepeatRunId(r) \/ Refuse(r)
           \/ CrashHandlers \/ Upgrade
           \/ \E a \in Admins : Leave(a) \/ \E s \in Skills : Look(a, s)
           \/ Tick \/ UNCHANGED vars
  <2>1. UNCHANGED skillVars
    BY <1>7 DEF Dispatch, Record, RepeatRunId, Refuse, CrashHandlers, Upgrade, Leave, Look, Tick, vars
  <2>2. QED
    BY <1>1, <2>1
<1>8. QED
  <2>1. CASE \E r \in Runs : \/ Record(r) \/ RepeatRunId(r) \/ Admit(r) \/ Refuse(r)
                             \/ Complete(r) \/ Recover(r)
    BY <2>1, <1>3, <1>4, <1>7
  <2>2. CASE \/ \E s \in Skills, r \in Runs, t \in Tickets :
                 Confirm(s, r, t) \/ Withdraw(s, r, t)
           \/ \E s \in Skills, r \in Runs : Negative(s, r)
    BY <2>2, <1>5
  <2>3. CASE \E a \in Admins : Leave(a) \/ Archive(a) \/ Restore(a) \/ Revalidate(a)
    BY <2>3, <1>6, <1>7
  <2>4. CASE \E a \in Admins, s \in Skills : Look(a, s)
    BY <2>4, <1>7
  <2>5. QED
    BY <1>7, <2>1, <2>2, <2>3, <2>4 DEF Next

LEMMA StepObjection == TypeOK /\ ObjectionInv /\ [Next]_vars => ObjectionInv'
<1> SUFFICES ASSUME TypeOK, ObjectionInv, [Next]_vars, NEW z \in Skills
             PROVE  /\ objectedAt'[z] <= audit'[z]
                    /\ status'[z] = "active" => objectedAt'[z] < admittedAt'[z]
  BY DEF ObjectionInv
<1> DEFINE Goal == /\ objectedAt'[z] <= audit'[z]
                   /\ status'[z] = "active" => objectedAt'[z] < admittedAt'[z]
<1>1. /\ objectedAt[z] \in Nat /\ admittedAt[z] \in Nat /\ audit[z] \in Nat
      /\ objectedAt[z] <= audit[z]
      /\ status[z] = "active" => objectedAt[z] < admittedAt[z]
  BY DEF TypeOK, EventTypes, ObjectionInv
<1>2. CASE UNCHANGED skillVars
  BY <1>1, <1>2, StoreFrame
<1>3. ASSUME NEW r \in Runs, Complete(r) \/ Recover(r)
      PROVE  Goal
  <2>1. \/ CandidateRun(r) /\ CandidateWrite(Fingerprint(r), r, request[r].code)
        \/ UNCHANGED skillVars
    BY <1>3 DEF Complete, Recover
  <2>2. CASE UNCHANGED skillVars
    BY <1>2, <2>2
  <2>3. CASE CandidateRun(r) /\ CandidateWrite(Fingerprint(r), r, request[r].code)
    <3>1. rows[r] = 1
      BY <2>3 DEF CandidateRun
    <3>2. Fingerprint(r) \in Skills /\ request[r].code \in Codes
      BY <3>1, RecordedRunTypes DEF Fingerprint, Request, TypeOK
    <3>3. /\ audit'[z] \in Nat /\ audit[z] <= audit'[z]
          /\ status'[z] = "active" => status[z] = "active"
          /\ UNCHANGED <<admittedAt, objectedAt>>
      BY <2>3, <3>2, CandidateMoves
    <3>4. QED
      BY <1>1, <3>3
  <2>4. QED
    BY <2>1, <2>2, <2>3
<1>4. ASSUME NEW r \in Runs, Admit(r)
      PROVE  Goal
  BY <1>1, <1>4, AdmitMoves
<1>5. ASSUME NEW s \in Skills, NEW r \in Runs,
             \/ \E t \in Tickets : Confirm(s, r, t) \/ Withdraw(s, r, t)
             \/ Negative(s, r)
      PROVE  Goal
  BY <1>1, <1>5, FeedbackMoves
<1>6. ASSUME NEW a \in Admins, Archive(a) \/ Restore(a) \/ Revalidate(a)
      PROVE  Goal
  BY <1>1, <1>6, PageMoves
<1>7. CASE \/ \E r \in Runs, s \in Skills, c \in Codes, d \in BOOLEAN : Dispatch(r, s, c, d)
           \/ \E r \in Runs : Record(r) \/ RepeatRunId(r) \/ Refuse(r)
           \/ CrashHandlers \/ Upgrade
           \/ \E a \in Admins : Leave(a) \/ \E s \in Skills : Look(a, s)
           \/ Tick \/ UNCHANGED vars
  <2>1. UNCHANGED skillVars
    BY <1>7 DEF Dispatch, Record, RepeatRunId, Refuse, CrashHandlers, Upgrade, Leave, Look, Tick, vars
  <2>2. QED
    BY <1>2, <2>1
<1>8. QED
  <2>1. CASE \E r \in Runs : \/ Record(r) \/ RepeatRunId(r) \/ Admit(r) \/ Refuse(r)
                             \/ Complete(r) \/ Recover(r)
    BY <2>1, <1>3, <1>4, <1>7
  <2>2. CASE \/ \E s \in Skills, r \in Runs, t \in Tickets :
                 Confirm(s, r, t) \/ Withdraw(s, r, t)
           \/ \E s \in Skills, r \in Runs : Negative(s, r)
    BY <2>2, <1>5
  <2>3. CASE \E a \in Admins : Leave(a) \/ Archive(a) \/ Restore(a) \/ Revalidate(a)
    BY <2>3, <1>6, <1>7
  <2>4. CASE \E a \in Admins, s \in Skills : Look(a, s)
    BY <2>4, <1>7
  <2>5. QED
    BY <1>7, <2>1, <2>2, <2>3, <2>4 DEF Next

(* A withdrawal, a second recent failure and a restore are each answered by  *)
(* a later admission before the skill is active again.                       *)
THEOREM ObjectionsHold == Spec => []ObjectionsAnswered
<1>1. Init => ObjectionInv
  BY DEF Init, ObjectionInv
<1>2. ObjectionInv => ObjectionsAnswered
  BY DEF ObjectionInv, ObjectionsAnswered
<1>3. QED
  BY <1>1, <1>2, StepObjection, TypeCorrect, PTL DEF Spec
-----------------------------------------------------------------------------
(* Pages. *)

LEMMA StepView == TypeOK /\ ViewInv /\ [Next]_vars => ViewInv'
<1> SUFFICES ASSUME TypeOK, ViewInv, [Next]_vars, NEW a \in Admins, view'[a] # NoView
             PROVE  (/\ view[a].audit <= audit[view[a].skill]
                     /\ view[a].audit = audit[view[a].skill]
                           => view[a] = Shown(view[a].skill))'
  BY DEF ViewInv
<1>1. ASSUME NEW s \in Skills, Look(a, s)
      PROVE  view'[a] = Shown(s)' /\ view'[a].skill = s /\ view'[a].audit = audit'[s]
  <2>1. UNCHANGED skillVars /\ view'[a] = Shown(s)
    BY <1>1 DEF Look, TypeOK
  <2>2. Shown(s)' = Shown(s) /\ audit' = audit
    BY <2>1 DEF Shown, skillVars, rowVars, codeVars, eventVars
  <2>3. QED
    BY <2>1, <2>2 DEF Shown
<1>2. CASE \E s \in Skills : Look(a, s)
  <2>1. PICK s \in Skills : view'[a] = Shown(s)' /\ view'[a].skill = s /\ view'[a].audit = audit'[s]
    BY <1>1, <1>2
  <2>2. audit'[s] \in Nat
    BY StepTypes DEF TypeOK, EventTypes
  <2>3. QED
    BY <2>1, <2>2 DEF Shown
<1>3. CASE view'[a] = view[a]
  <2>1. PICK s \in Skills : s = view[a].skill
    BY <1>3 DEF TypeOK, Page
  <2>2. view[a].audit \in Nat /\ audit[s] \in Nat
    BY <1>3, <2>1 DEF TypeOK, Page, EventTypes
  <2>3. /\ audit'[s] \in Nat /\ audit[s] <= audit'[s]
        /\ audit'[s] = audit[s] => PageRecord(s)' = PageRecord(s)
    BY RecordMovesAudit
  <2>4. view[a].audit <= audit[s] /\ (view[a].audit = audit[s] => view[a] = Shown(s))
    BY <1>3, <2>1 DEF ViewInv
  <2>5. PageRecord(s)' = PageRecord(s) => Shown(s)' = Shown(s)
    BY DEF PageRecord, Shown
  <2>6. view'[a].audit = audit'[s] => view'[a] = Shown(s)'
    BY <1>3, <2>2, <2>3, <2>4, <2>5
  <2>7. view'[a].audit <= audit'[s]
    BY <1>3, <2>2, <2>3, <2>4
  <2>8. QED
    BY <1>3, <2>1, <2>6, <2>7 DEF Shown
<1>4. view'[a] = view[a] \/ \E s \in Skills : Look(a, s)
  <2>1. ASSUME NEW b \in Admins, Leave(b) \/ Archive(b) \/ Restore(b) \/ Revalidate(b)
        PROVE  view'[a] = view[a]
    <3>1. view' = [view EXCEPT ![b] = NoView]
      BY <2>1 DEF Leave, Archive, Restore, Revalidate
    <3>2. QED
      BY <3>1 DEF TypeOK
  <2>2. ASSUME NEW b \in Admins, NEW s \in Skills, Look(b, s), b # a
        PROVE  view'[a] = view[a]
    BY <2>2 DEF Look, TypeOK
  <2>3. ASSUME NEW r \in Runs, \/ Record(r) \/ RepeatRunId(r) \/ Admit(r) \/ Refuse(r)
                               \/ Complete(r) \/ Recover(r)
        PROVE  view' = view
    BY <2>3 DEF Record, RepeatRunId, Admit, Refuse, Complete, Recover
  <2>4. ASSUME NEW s \in Skills, NEW r \in Runs,
               \/ \E t \in Tickets : Confirm(s, r, t) \/ Withdraw(s, r, t)
               \/ Negative(s, r)
        PROVE  view' = view
    BY <2>4 DEF Confirm, Withdraw, Negative
  <2>5. CASE \/ \E r \in Runs, s \in Skills, c \in Codes, d \in BOOLEAN : Dispatch(r, s, c, d)
             \/ CrashHandlers \/ Upgrade \/ Tick \/ UNCHANGED vars
    BY <2>5 DEF Dispatch, CrashHandlers, Upgrade, Tick, vars
  <2>6. CASE \E b \in Admins, s \in Skills : Look(b, s)
    BY <2>2, <2>6
  <2>7. CASE \E b \in Admins : Leave(b) \/ Archive(b) \/ Restore(b) \/ Revalidate(b)
    BY <2>1, <2>7
  <2>8. QED
    BY <2>3, <2>4, <2>5, <2>6, <2>7 DEF Next
<1>5. QED
  BY <1>2, <1>3, <1>4

(* A revalidation request is granted only on the record it was shown. *)
THEOREM RevalidationCurrent == Spec => RevalidationSawCurrent
<1> DEFINE Saw == \A s \in Skills : epoch[s]' # epoch[s] =>
                   \E a \in Admins : view[a] = Shown(s) /\ view'[a] = NoView
<1>1. Init => ViewInv
  BY DEF Init, ViewInv
<1>2. TypeOK /\ ViewInv /\ [Next]_vars => [Saw]_vars
  <2> SUFFICES ASSUME TypeOK, ViewInv, Next, NEW s \in Skills, epoch'[s] # epoch[s]
               PROVE  \E a \in Admins : view[a] = Shown(s) /\ view'[a] = NoView
    OBVIOUS
  <2>1. ASSUME NEW a \in Admins, Revalidate(a)
        PROVE  view[a] = Shown(s) /\ view'[a] = NoView
    <3>1. view[a] # NoView /\ audit[view[a].skill] = view[a].audit
      BY <2>1 DEF Revalidate
    <3>2. view[a] = Shown(view[a].skill)
      BY <3>1 DEF ViewInv
    <3>3. epoch' = [epoch EXCEPT ![view[a].skill] = @ + 1] /\ view' = [view EXCEPT ![a] = NoView]
      BY <2>1 DEF Revalidate
    <3>4. view[a].skill = s
      BY <3>3 DEF TypeOK, EventTypes
    <3>5. QED
      BY <3>2, <3>3, <3>4 DEF TypeOK
  <2>2. ASSUME NEW r \in Runs, CandidateWrite(Fingerprint(r), r, request[r].code)
        PROVE  epoch' = epoch
    BY <2>2 DEF CandidateWrite
  <2>3. ASSUME NEW r \in Runs, \/ Record(r) \/ RepeatRunId(r) \/ Admit(r) \/ Refuse(r)
                               \/ Complete(r) \/ Recover(r)
        PROVE  epoch' = epoch
    BY <2>2, <2>3 DEF Record, RepeatRunId, Admit, Refuse, Complete, Recover, skillVars, eventVars
  <2>4. ASSUME NEW z \in Skills, NEW r \in Runs,
               \/ \E t \in Tickets : Confirm(z, r, t) \/ Withdraw(z, r, t)
               \/ Negative(z, r)
        PROVE  epoch' = epoch
    BY <2>4 DEF Confirm, Withdraw, Negative
  <2>5. ASSUME NEW a \in Admins, \/ Leave(a) \/ Archive(a) \/ Restore(a)
                                 \/ \E z \in Skills : Look(a, z)
        PROVE  epoch' = epoch
    BY <2>5 DEF Leave, Archive, Restore, Look, skillVars, eventVars
  <2>6. ASSUME \/ \E r \in Runs, z \in Skills, c \in Codes, d \in BOOLEAN : Dispatch(r, z, c, d)
               \/ CrashHandlers \/ Upgrade \/ Tick
        PROVE  epoch' = epoch
    BY <2>6 DEF Dispatch, CrashHandlers, Upgrade, Tick, skillVars, eventVars
  <2>7. \E a \in Admins : Revalidate(a)
    <3>1. CASE \E r \in Runs : \/ Record(r) \/ RepeatRunId(r) \/ Admit(r) \/ Refuse(r)
                               \/ Complete(r) \/ Recover(r)
      BY <2>3, <3>1
    <3>2. CASE \/ \E z \in Skills, r \in Runs, t \in Tickets :
                   Confirm(z, r, t) \/ Withdraw(z, r, t)
               \/ \E z \in Skills, r \in Runs : Negative(z, r)
      BY <2>4, <3>2
    <3>3. CASE \E a \in Admins : Leave(a) \/ Archive(a) \/ Restore(a) \/ Revalidate(a)
      BY <2>5, <3>3
    <3>4. CASE \E a \in Admins, z \in Skills : Look(a, z)
      BY <2>5, <3>4
    <3>5. QED
      BY <2>6, <3>1, <3>2, <3>3, <3>4 DEF Next
  <2>8. QED
    BY <2>1, <2>7
<1>3. QED
  BY <1>1, <1>2, StepView, TypeCorrect, PTL DEF Spec, RevalidationSawCurrent
-----------------------------------------------------------------------------
(* Delivery. *)

(* Deliverable looks at the row of s, its latest version, its admitted runs  *)
(* and its negative feedback, and at nothing else.                           *)
LEMMA DeliverableFrame ==
  ASSUME NEW s \in Skills,
         /\ status'[s] = "active" => /\ status[s] = "active" /\ grade'[s] = grade[s]
                                     /\ archived'[s] = archived[s]
         /\ UNCHANGED <<bounds, version, head, sources>>
         /\ negative[s] \subseteq negative'[s],
         Deliverable(s)'
  PROVE  Deliverable(s)
BY DEF Deliverable, CurrentSources

(* A step that adds no admitted run of s does not make s deliverable. *)
LEMMA StepDelivery ==
  ASSUME TypeOK, Next, NEW s \in Skills, Deliverable(s)', ~Deliverable(s)
  PROVE  \E x \in sources' \ sources : x.skill = s
<1>1. CASE UNCHANGED skillVars
  <2>1. Deliverable(s)
    BY <1>1, DeliverableFrame DEF skillVars, rowVars, codeVars
  <2>2. QED
    BY <2>1
<1>2. ASSUME NEW r \in Runs, CandidateRun(r),
             CandidateWrite(Fingerprint(r), r, request[r].code)
      PROVE  Deliverable(s)
  <2>1. rows[r] = 1
    BY <1>2 DEF CandidateRun
  <2>2. PICK z \in Skills, c \in Codes : z = Fingerprint(r) /\ c = request[r].code
    BY <2>1, RecordedRunTypes DEF Fingerprint, Request, TypeOK
  <2>3. /\ Observe(z, r, c, "generic")
        /\ UNCHANGED <<archived, sources, negative>>
    BY <1>2, <2>2 DEF CandidateWrite
  <2>4. CASE Seen(z, r)
    <3>1. UNCHANGED <<version, head, bounds, status, grade>>
      BY <1>2, <2>2, <2>3, <2>4 DEF Observe, CandidateWrite
    <3>2. QED
      BY <2>3, <3>1, DeliverableFrame
  <2>5. CASE ~Seen(z, r)
    <3>1. bounds' = [bounds EXCEPT ![z] = IF Exists(z) THEN @ ELSE "generic"]
      BY <2>3, <2>5, Zenon DEF Observe
    <3>2. s # z
      <4>1. bounds'[s] = "fixed"
        BY DEF Deliverable
      <4>2. Exists(z) => bounds[z] = "generic"
        BY <1>2, <2>2 DEF CandidateRun, Acceptable
      <4>3. bounds'[z] = "generic"
        BY <3>1, <4>2 DEF TypeOK, RowTypes
      <4>4. QED
        BY <4>1, <4>3
    <3>3. /\ status' = [status EXCEPT ![z] = StatusAfter(z, c)]
          /\ grade' = [grade EXCEPT ![z] = IF NewVersion(z, c) THEN "Q2" ELSE @]
      BY <1>2, <2>2, <2>5, Zenon DEF CandidateWrite
    <3>4. \/ /\ version' = [version EXCEPT ![z] = @ + 1]
             /\ head' = [head EXCEPT ![z] = [code |-> c, run |-> r]]
          \/ UNCHANGED <<version, head>>
      BY <2>3, <2>5, Zenon DEF Observe
    <3>5. /\ bounds'[s] = bounds[s] /\ status'[s] = status[s] /\ grade'[s] = grade[s]
      BY <3>1, <3>2, <3>3 DEF TypeOK, RowTypes
    <3>6. version'[s] = version[s] /\ head'[s] = head[s]
      BY <3>2, <3>4 DEF TypeOK, CodeTypes
    <3>7. CurrentSources(s)' = CurrentSources(s)
      BY <2>3, <3>6 DEF CurrentSources
    <3>8. QED
      BY <2>3, <3>5, <3>6, <3>7 DEF Deliverable
  <2>6. QED
    BY <2>4, <2>5
<1>3. ASSUME NEW r \in Runs, Complete(r) \/ Recover(r)
      PROVE  \E x \in sources' \ sources : x.skill = s
  <2>1. \/ CandidateRun(r) /\ CandidateWrite(Fingerprint(r), r, request[r].code)
        \/ UNCHANGED skillVars
    BY <1>3 DEF Complete, Recover
  <2>2. QED
    BY <1>1, <1>2, <2>1
<1>4. ASSUME NEW r \in Runs, Admit(r)
      PROVE  \E x \in sources' \ sources : x.skill = s
  <2>1. PICK z \in Skills : z = Fingerprint(r)
    BY <1>4 DEF Admit, TypeOK, RunTypes, Fingerprint, Request
  <2> DEFINE new == [run |-> r, skill |-> z, version |-> version'[z]]
  <2>2. /\ sources' = sources \cup {new}
        /\ new \notin sources
    BY <1>4, <2>1 DEF Admit, Prior
  <2>3. CASE s = z
    BY <2>2, <2>3
  <2>4. CASE s # z
    <3>1. /\ Observe(z, r, Recipe, "fixed")
          /\ status' = [status EXCEPT ![z] = "active"]
          /\ grade' = [grade EXCEPT ![z] = "Q4"]
          /\ UNCHANGED <<archived, negative>>
      BY <1>4, <2>1 DEF Admit
    <3>2. \/ /\ version' = [version EXCEPT ![z] = @ + 1]
             /\ head' = [head EXCEPT ![z] = [code |-> Recipe, run |-> r]]
          \/ UNCHANGED <<version, head>>
      BY <3>1, Zenon DEF Observe
    <3>3. \/ bounds' = [bounds EXCEPT ![z] = IF Exists(z) THEN @ ELSE "fixed"]
          \/ bounds' = bounds
      BY <3>1, Zenon DEF Observe
    <3>4. version'[s] = version[s] /\ head'[s] = head[s]
      BY <2>4, <3>2 DEF TypeOK, CodeTypes
    <3>5. bounds'[s] = bounds[s] /\ status'[s] = status[s] /\ grade'[s] = grade[s]
      BY <2>4, <3>1, <3>3 DEF TypeOK, RowTypes
    <3>6. CurrentSources(s)' = CurrentSources(s)
      BY <2>2, <2>4, <3>4 DEF CurrentSources
    <3>7. Deliverable(s)
      BY <3>1, <3>4, <3>5, <3>6 DEF Deliverable
    <3>8. QED
      BY <3>7
  <2>5. QED
    BY <2>3, <2>4
<1>5. ASSUME NEW z \in Skills, NEW r \in Runs,
             \/ \E t \in Tickets : Confirm(z, r, t) \/ Withdraw(z, r, t)
             \/ Negative(z, r)
      PROVE  FALSE
  <2>1. UNCHANGED <<grade, archived, bounds, version, head, sources>>
    BY <1>5 DEF Confirm, Withdraw, Negative, rowVars, codeVars
  <2>2. status'[s] = "active" => status[s] = "active"
    BY <1>5, FeedbackMoves
  <2>3. negative[s] \subseteq negative'[s]
    BY <1>5 DEF Confirm, Withdraw, Negative, TypeOK, CodeTypes
  <2>4. QED
    BY <2>1, <2>2, <2>3, DeliverableFrame
<1>6. ASSUME NEW a \in Admins, Archive(a) \/ Restore(a) \/ Revalidate(a)
      PROVE  FALSE
  <2>1. PICK z \in Skills : z = view[a].skill
    BY <1>6 DEF Archive, Restore, Revalidate, TypeOK, Page
  <2>2. UNCHANGED <<bounds, version, head, sources, negative>>
    BY <1>6 DEF Archive, Restore, Revalidate, codeVars
  <2>3. status'[s] = "active" /\ ~archived'[s]
    BY DEF Deliverable
  <2>4. status[s] = "active" /\ grade'[s] = grade[s] /\ archived'[s] = archived[s]
    <3> USE DEF TypeOK, RowTypes
    <3>1. CASE Archive(a)
      BY <2>1, <2>3, <3>1 DEF Archive
    <3>2. CASE Restore(a)
      BY <2>1, <2>3, <3>2 DEF Restore
    <3>3. CASE Revalidate(a)
      BY <2>1, <2>3, <3>3 DEF Revalidate
    <3>4. QED
      BY <1>6, <3>1, <3>2, <3>3
  <2>5. QED
    BY <2>2, <2>4, DeliverableFrame
<1>7. CASE \/ \E r \in Runs, z \in Skills, c \in Codes, d \in BOOLEAN : Dispatch(r, z, c, d)
           \/ \E r \in Runs : Record(r) \/ RepeatRunId(r) \/ Refuse(r)
           \/ CrashHandlers \/ Upgrade
           \/ \E a \in Admins : Leave(a) \/ \E z \in Skills : Look(a, z)
           \/ Tick
  <2>1. UNCHANGED skillVars
    BY <1>7 DEF Dispatch, Record, RepeatRunId, Refuse, CrashHandlers, Upgrade, Leave, Look, Tick
  <2>2. QED
    BY <1>1, <2>1
<1>8. QED
  <2>1. CASE \E r \in Runs : \/ Record(r) \/ RepeatRunId(r) \/ Admit(r) \/ Refuse(r)
                             \/ Complete(r) \/ Recover(r)
    BY <2>1, <1>3, <1>4, <1>7
  <2>2. CASE \/ \E z \in Skills, r \in Runs, t \in Tickets :
                 Confirm(z, r, t) \/ Withdraw(z, r, t)
           \/ \E z \in Skills, r \in Runs : Negative(z, r)
    BY <2>2, <1>5
  <2>3. CASE \E a \in Admins : Leave(a) \/ Archive(a) \/ Restore(a) \/ Revalidate(a)
    BY <2>3, <1>6, <1>7
  <2>4. CASE \E a \in Admins, z \in Skills : Look(a, z)
    BY <2>4, <1>7
  <2>5. QED
    BY <1>7, <2>1, <2>2, <2>3, <2>4 DEF Next

(* A skill becomes deliverable only in the commit that admits a run of it. *)
THEOREM DeliveryAdmitted == Spec => DeliveryNeedsAdmission
<1> DEFINE Admits == \A s \in Skills : ~Deliverable(s) /\ Deliverable(s)' =>
                       \E x \in sources' \ sources : x.skill = s
<1>1. TypeOK /\ [Next]_vars => [Admits]_vars
  <2> SUFFICES ASSUME TypeOK, Next, NEW s \in Skills, ~Deliverable(s), Deliverable(s)'
               PROVE  \E x \in sources' \ sources : x.skill = s
    OBVIOUS
  <2>1. QED
    BY StepDelivery
<1>2. QED
  BY <1>1, TypeCorrect, PTL DEF Spec, DeliveryNeedsAdmission
-----------------------------------------------------------------------------
(***************************************************************************)
(* What recorded evidence is evidence of.                                  *)
(*                                                                         *)
(* That a run is recorded for one skill carries itself: the only write     *)
(* looks at everything that was recorded.  That a version is one code does *)
(* not: a later version must not get the number of an earlier one, and     *)
(* what is observed of the latest must be the code its row holds.          *)
(***************************************************************************)
(* No observation is of a version to come; one of the latest version saw the *)
(* code of that version.                                                     *)
NumberedInv ==
  \A o \in observed :
    /\ o.version <= version[o.skill]
    /\ o.version = version[o.skill] => o.code = head[o.skill].code

EvidenceInv == TypeOK /\ OneSkillPerRun /\ NumberedInv /\ VersionsAreOneCode
-----------------------------------------------------------------------------
LEMMA InitEvidence == Init => EvidenceInv
BY InitTypes DEF Init, EvidenceInv, OneSkillPerRun, NumberedInv, VersionsAreOneCode

(* What the shared part of create_candidate, once it has accepted, does to   *)
(* the evidence.                                                             *)
LEMMA ObserveEvidence ==
  ASSUME EvidenceInv, NEW s \in Skills, NEW r \in Runs, NEW c \in Codes,
         NEW k \in Kinds, Acceptable(s, r, c, k), Observe(s, r, c, k)
  PROVE  OneSkillPerRun' /\ NumberedInv' /\ VersionsAreOneCode'
<1> USE DEF EvidenceInv, TypeOK, CodeTypes
<1>1. CASE Seen(s, r)
  <2>1. UNCHANGED <<version, head, observed>>
    BY <1>1 DEF Observe
  <2> QED
    BY <2>1 DEF OneSkillPerRun, NumberedInv, VersionsAreOneCode
<1>2. CASE ~Seen(s, r)
  <2> DEFINE new == Observed(s, version'[s], r, c, k)
  <2>1. observed' = observed \cup {new}
    BY <1>2 DEF Observe
  <2>2. /\ new.skill = s /\ new.run = r /\ new.kind = k
        /\ new.code = c /\ new.version = version'[s]
    BY DEF Observed
  <2>3. \A o \in observed : /\ o.skill \in Skills /\ o.version \in Nat
                            /\ version[o.skill] \in Nat
    BY DEF Observation
  <2> HIDE DEF new
  <2>4. OneSkillPerRun'
    <3>1. \A o \in observed : o.run = r /\ o.kind = k => o.skill = s
      BY DEF Acceptable, IdentityFree
    <3> QED
      BY <2>1, <2>2, <3>1 DEF OneSkillPerRun
  (* Either the code is new and so is the number, or neither is. *)
  <2>5. \/ /\ version' = [version EXCEPT ![s] = @ + 1]
           /\ head' = [head EXCEPT ![s] = [code |-> c, run |-> r]]
        \/ /\ UNCHANGED <<version, head>>
           /\ head[s].code = c
    BY <1>2 DEF Observe, NewVersion
  <2>6. /\ version'[s] \in Nat /\ head'[s].code = c
        /\ \A z \in Skills \ {s} : version'[z] = version[z] /\ head'[z] = head[z]
    BY <2>5
  <2>7. \A o \in observed : o.skill = s /\ o.version = version'[s] => o.code = c
    <3> SUFFICES ASSUME NEW o \in observed, o.skill = s, o.version = version'[s]
                 PROVE  o.code = c
      OBVIOUS
    <3>1. o.version <= version[s]
      BY DEF NumberedInv
    <3>2. UNCHANGED version /\ head[s].code = c
      BY <2>3, <2>5, <3>1
    <3> QED
      BY <3>2 DEF NumberedInv
  <2>8. NumberedInv'
    <3>1. ASSUME NEW o \in observed
          PROVE  /\ o.version <= version'[o.skill]
                 /\ o.version = version'[o.skill] => o.code = head'[o.skill].code
      <4>1. CASE o.skill = s
        <5>1. o.version <= version[s]
          BY <4>1 DEF NumberedInv
        <5>2. version[s] <= version'[s]
          BY <2>5
        <5> QED
          BY <2>3, <2>6, <2>7, <4>1, <5>1, <5>2
      <4>2. CASE o.skill # s
        BY <2>3, <2>6, <4>2 DEF NumberedInv
      <4> QED
        BY <4>1, <4>2
    <3>2. new.version <= version'[new.skill] /\ head'[new.skill].code = new.code
      BY <2>2, <2>6
    <3> QED
      BY <2>1, <3>1, <3>2 DEF NumberedInv
  <2>9. VersionsAreOneCode'
    BY <2>1, <2>2, <2>7 DEF VersionsAreOneCode
  <2> QED
    BY <2>4, <2>8, <2>9
<1> QED
  BY <1>1, <1>2

(* Nobody but the two intakes touches what was observed. *)
LEMMA EvidenceFrame ==
  ASSUME EvidenceInv, UNCHANGED codeVars
  PROVE  OneSkillPerRun' /\ NumberedInv' /\ VersionsAreOneCode'
BY DEF EvidenceInv, codeVars, OneSkillPerRun, NumberedInv, VersionsAreOneCode

LEMMA StepEvidence == EvidenceInv /\ [Next]_vars => EvidenceInv'
<1> SUFFICES ASSUME EvidenceInv, [Next]_vars
             PROVE  OneSkillPerRun' /\ NumberedInv' /\ VersionsAreOneCode'
  BY StepTypes DEF EvidenceInv
<1>1. ASSUME NEW r \in Runs, Admit(r)
      PROVE  OneSkillPerRun' /\ NumberedInv' /\ VersionsAreOneCode'
  <2>1. Fingerprint(r) \in Skills
    BY <1>1 DEF Admit, EvidenceInv, TypeOK, RunTypes, Fingerprint, Request
  <2>2. /\ Acceptable(Fingerprint(r), r, Recipe, "fixed")
        /\ Observe(Fingerprint(r), r, Recipe, "fixed")
    BY <1>1 DEF Admit
  <2> QED
    BY <2>1, <2>2, ObserveEvidence, LifecycleAssumption DEF Kinds
<1>2. ASSUME NEW r \in Runs, CandidateRun(r),
             CandidateWrite(Fingerprint(r), r, request[r].code)
      PROVE  OneSkillPerRun' /\ NumberedInv' /\ VersionsAreOneCode'
  <2>1. Fingerprint(r) \in Skills /\ request[r].code \in Codes
    BY <1>2, RecordedRunTypes DEF CandidateRun, EvidenceInv, TypeOK, Fingerprint, Request
  <2>2. /\ Acceptable(Fingerprint(r), r, request[r].code, "generic")
        /\ Observe(Fingerprint(r), r, request[r].code, "generic")
    BY <1>2 DEF CandidateRun, CandidateWrite
  <2> QED
    BY <2>1, <2>2, ObserveEvidence DEF Kinds
<1>3. ASSUME UNCHANGED codeVars
      PROVE  OneSkillPerRun' /\ NumberedInv' /\ VersionsAreOneCode'
  BY <1>3, EvidenceFrame
<1>4. \/ \E r \in Runs : Admit(r)
      \/ \E r \in Runs : CandidateRun(r) /\ CandidateWrite(Fingerprint(r), r, request[r].code)
      \/ UNCHANGED codeVars
  <2> USE DEF skillVars
  <2>1. CASE \E r \in Runs : \/ Record(r) \/ RepeatRunId(r) \/ Admit(r) \/ Refuse(r)
                             \/ Complete(r) \/ Recover(r)
    BY <2>1 DEF Record, RepeatRunId, Refuse, Complete, Recover
  <2>2. CASE \/ \E s \in Skills, r \in Runs, t \in Tickets :
                  Confirm(s, r, t) \/ Withdraw(s, r, t)
             \/ \E s \in Skills, r \in Runs : Negative(s, r)
    BY <2>2 DEF Confirm, Withdraw, Negative
  <2>3. CASE \/ \E a \in Admins, s \in Skills : Look(a, s)
             \/ \E a \in Admins : Leave(a) \/ Archive(a) \/ Restore(a) \/ Revalidate(a)
    BY <2>3 DEF Look, Leave, Archive, Restore, Revalidate
  <2>4. CASE \/ \E r \in Runs, s \in Skills, c \in Codes, d \in BOOLEAN : Dispatch(r, s, c, d)
             \/ CrashHandlers \/ Upgrade \/ Tick \/ UNCHANGED vars
    BY <2>4 DEF Dispatch, CrashHandlers, Upgrade, Tick, vars
  <2> QED
    BY <2>1, <2>2, <2>3, <2>4 DEF Next
<1> QED
  BY <1>1, <1>2, <1>3, <1>4

LEMMA EvidenceAlways == Spec => []EvidenceInv
BY InitEvidence, StepEvidence, PTL DEF Spec

(* No handler, recovery scan or upgrade makes one run evidence of two skills *)
(* under one validator (source_run_parameter_identity_conflict).             *)
THEOREM EvidenceOfOneSkill == Spec => []OneSkillPerRun
<1>1. EvidenceInv => OneSkillPerRun
  BY DEF EvidenceInv
<1> QED
  BY <1>1, EvidenceAlways, PTL

(* A version of a skill is one code for good: whatever is observed of it     *)
(* later, in whatever order runs are stored and rescanned, saw the same code *)
(* (create_candidate).                                                       *)
THEOREM VersionsKeepCode == Spec => []VersionsAreOneCode
<1>1. EvidenceInv => VersionsAreOneCode
  BY DEF EvidenceInv
<1> QED
  BY <1>1, EvidenceAlways, PTL
=============================================================================
