---------------------------- MODULE HostAuthority ----------------------------
(***************************************************************************)
(* The signed path across hosts.  An owner's signed statements open and    *)
(* close a root; under it the host observer dispatches the pinned recipe,  *)
(* signs what it saw, and the gateway turns the observation into a         *)
(* candidate, a receipt, an admission and a repeated reference policy, one *)
(* transaction after the other.  A generation decision may then be         *)
(* answered with the skill, and a further run bound to that answer and     *)
(* observed is the only thing that counts as a reuse of it.                *)
(*                                                                         *)
(* Between the transactions no lock is held: the root expires, is renewed  *)
(* or revoked, and administrators and the local intake change the skill.   *)
(*                                                                         *)
(* Each of the six transactions that grant something takes the write lock, *)
(* reads the clock (Begin), checks at length and commits (RecordDispatch,  *)
(* Record, Admit, Register, HandOff, ObserveReuse), and time may pass in   *)
(* between.  Nothing else they read can change under the lock, so their    *)
(* checks stand in the action that commits, at the clock read at Begin or, *)
(* where the code reads it once more, at any clock since.  The rest are    *)
(* one action: they ask nothing of the root.                               *)
(*                                                                         *)
(* A run is one coordinator (source_runner or reference_runner) with its   *)
(* own identifier and nonce.  A skill is the record of one scene of the    *)
(* fixed profile.  The clock does not go back.                             *)
(***************************************************************************)
EXTENDS Naturals, FiniteSets

CONSTANTS
  Skills, Runs, Decisions,
  None, Fallback,
  Window,       \* how long a dispatch context is good for
  RootLives,    \* the windows an owner gives a statement
  PolicyLives,  \* the windows an operator gives a policy
  DecisionLife, \* how long a generation decision is good for
  MaxClock,     \* bound: last value of the clock
  MaxRevision,  \* bound: owner's statements
  MaxChanges    \* bound: what others do to the skills, and replays

Statement == [revision : Nat, action : {"approve", "revoke"}, until : Nat]
Plan      == [skill : Skills \cup {None}, revision : Nat,
              decision : Decisions \cup {None}, opened : Nat, policy : Nat]
Dispatch  == [revision : Nat, until : Nat, at : Nat, decision : Decisions \cup {None}]
Receipt   == [skill : Skills, version : Nat, at : Nat]
Capsule   == [until : Nat, at : Nat]
Admission == [skill : Skills, version : Nat, run : Runs]
Decision  == [made : Nat, listed : SUBSET (Skills \X Nat)]
Handoff   == [skill : Skills, version : Nat, run : Runs]
Epoch     == [at : Nat, receipts : SUBSET Runs]
Objection == Runs \X {"feedback", "withdrawal"}
Writing   == [by : Runs \cup Decisions, at : Nat]

ASSUME AuthorityAssumption ==
  /\ Window \in Nat /\ DecisionLife \in Nat
  /\ RootLives \subseteq Nat \ {0} /\ PolicyLives \subseteq Nat \ {0}
  /\ MaxClock \in Nat /\ MaxRevision \in Nat /\ MaxChanges \in Nat
  /\ None \notin Skills \cup Runs \cup Decisions \cup Nat
  /\ None \notin Statement \cup Plan \cup Dispatch \cup Receipt \cup Capsule
  /\ None \notin Decision \cup Handoff \cup Epoch \cup Writing
  /\ Fallback \notin Handoff \cup {None}

VARIABLES
  clock,
  root,        \* skill_authority_roots: the latest row
  dispatches,  \* skill_host_dispatches with skill_reference_dispatches
  receipts,    \* skill_host_verifications
  admissions,  \* the fixed_profile_admitted events
  capsules,    \* skill_reference_capsules, by the run whose evidence they hold
  decisions,   \* skill_generation_decisions
  handoffs,    \* skill_generation_consumptions
  executions,  \* skill_reference_executions
  life, archived, version, pinned,  \* the skill, and whether its code is the recipe
  found,       \* the version each run is associated with, 0 for none
  objected,    \* runs with negative feedback, and those with a withdrawn statement
  asked,       \* the latest revalidation request, and the receipts before it
  stage, plan, sent, answered, number,  \* the coordinators
  writing,     \* who holds the write lock, and the clock it read then
  changes

ledger == <<root, dispatches, receipts, admissions, capsules>>
reuse  == <<decisions, handoffs, executions>>
skill  == <<life, archived, version, pinned, found, objected, asked>>
runner == <<stage, plan, sent, answered, number, writing>>
vars   == <<clock, ledger, reuse, skill, runner, changes>>

Stages == {"idle", "signed", "approved", "posted", "observed", "checked", "stored",
           "numbered", "linked", "admitted", "over"}
-----------------------------------------------------------------------------
(* What a transaction asks of the authority. *)

(* _root_connection: the latest statement has this revision, approves, and   *)
(* has not run out.                                                          *)
InForce(revision, now) ==
  /\ root # None
  /\ root.action = "approve"
  /\ root.revision = revision
  /\ now < root.until

(* inspect_connection, its part that a recorded receipt does not relax. *)
Authorised(r, now) ==
  /\ dispatches[r] # None
  /\ InForce(dispatches[r].revision, now)
  /\ dispatches[r].until <= root.until

(* Mutant: the context need not be open any more when evidence arrives. *)
SourcedLate(r, recorded, now) ==
  /\ Authorised(r, now)
  /\ answered[r] # None
  /\ IF recorded THEN receipts[r] # None ELSE answered[r] <= now
  /\ dispatches[r].at <= sent[r]
  /\ answered[r] <= dispatches[r].until

(* verify_source_connection: fresh evidence comes while the context of its   *)
(* dispatch is open; recorded evidence came then.                            *)
Sourced(r, recorded, now) ==
  /\ Authorised(r, now)
  /\ answered[r] # None
  /\ IF recorded THEN receipts[r] # None
     ELSE answered[r] <= now /\ now <= dispatches[r].until
  /\ dispatches[r].at <= sent[r]
  /\ answered[r] <= dispatches[r].until

(* Mutant: only a receipt older than the request is refused. *)
FreshReceipt(r, s, recorded) ==
  asked[s] # None /\ recorded => r \notin asked[s].receipts

(* A revalidation request asks for a later dispatch and a later receipt. *)
Fresh(r, s, recorded) ==
  asked[s] # None =>
    /\ asked[s].at < dispatches[r].at
    /\ recorded => r \notin asked[s].receipts

(* skill_host_intake.verify_connection, for version v of s. *)
Verified(r, s, v, recorded, now) ==
  /\ Sourced(r, recorded, now)
  /\ version[s] = v /\ pinned[s] /\ found[s][r] = v
  /\ ~archived[s] /\ life[s] \in {"candidate", "active"}
  /\ Fresh(r, s, recorded)
  /\ recorded => receipts[r].skill = s /\ receipts[r].version = v

InUse(s) == life[s] = "active" /\ ~archived[s]

(* The metadata shortlist, of every skill: the code takes those of one       *)
(* scenario, three at most.                                                  *)
Listed == {<<s, version[s]>> : s \in {t \in Skills : InUse(t)}}

(* A decision can be answered once, while it is good. *)
Open(d, now) ==
  /\ decisions[d] # None /\ handoffs[d] = None
  /\ decisions[d].made <= now /\ now < decisions[d].made + DecisionLife

(* read_committed_context, with the decision judged at the time given and    *)
(* everything else now.                                                      *)
Readable(d, at, now) ==
  /\ handoffs[d] \in Handoff
  /\ decisions[d].made <= at /\ at < decisions[d].made + DecisionLife
  /\ <<handoffs[d].skill, handoffs[d].version>> \in Listed
  /\ capsules[handoffs[d].run] # None
  /\ now < capsules[handoffs[d].run].until
  /\ Verified(handoffs[d].run, handoffs[d].skill, handoffs[d].version, TRUE, now)

(* bind_connection, in the transaction of the dispatch, with a clock of its  *)
(* own: a handoff is bound to one further run.                               *)
Binds(r, d, now) ==
  d # None =>
    /\ \E later \in now .. clock : Readable(d, later, later)
    /\ handoffs[d].run # r
    /\ \A q \in Runs : dispatches[q] # None => dispatches[q].decision # d
-----------------------------------------------------------------------------
(* What the six transactions check, at the clock they read first. *)

(* record_dispatch. *)
Dispatchable(r, now) ==
  LET until == plan[r].opened + Window IN
  /\ stage[r] = "signed"
  /\ now <= until
  /\ InForce(plan[r].revision, now)
  /\ until <= root.until
  /\ Binds(r, plan[r].decision, now)

(* skill_host_intake.record. *)
Recordable(r, now) ==
  /\ stage[r] = "numbered"
  /\ Verified(r, plan[r].skill, number[r], FALSE, now)
  /\ receipts[r] = None

(* skill_fixed_activation.admit: only a candidate, and no objection against  *)
(* this run.                                                                 *)
Admissible(r, now) ==
  /\ stage[r] = "linked"
  /\ Verified(r, plan[r].skill, number[r], TRUE, now)
  /\ life[plan[r].skill] = "candidate"
  /\ \A o \in objected : o[1] # r

(* Mutant: the coordinator's knowledge of the admission is enough. *)
CoverableAdmitted(r, now) ==
  /\ stage[r] = "admitted"
  /\ now < plan[r].policy
  /\ Authorised(r, now)
  /\ capsules[r] = None

(* Mutant: the coordinator asks whether the evidence was recorded. *)
CoverableRecorded(r, now) ==
  /\ stage[r] \in {"linked", "admitted"} /\ plan[r].policy # 0
  /\ now < plan[r].policy
  /\ Verified(r, plan[r].skill, number[r], TRUE, now)
  /\ InUse(plan[r].skill)
  /\ capsules[r] = None

(* skill_reference_registry.register, after an admission of this call. *)
Coverable(r, now) ==
  /\ stage[r] = "admitted"
  /\ now < plan[r].policy
  /\ Verified(r, plan[r].skill, number[r], TRUE, now)
  /\ InUse(plan[r].skill)
  /\ capsules[r] = None

(* skill_reference_consumer.consume with the capsule of run r. *)
Deliverable(d, r, now) ==
  LET s == receipts[r].skill
      v == receipts[r].version
  IN
  /\ Open(d, now)
  /\ capsules[r] # None /\ now < capsules[r].until
  /\ Verified(r, s, v, TRUE, now)
  /\ InUse(s)
  /\ decisions[d].listed = Listed /\ <<s, v>> \in Listed

(* Mutant: any observation of the same code counts as a reuse. *)
ObservableAny(r, now) ==
  /\ stage[r] = "observed"
  /\ Sourced(r, FALSE, now)

(* skill_reference_execution.observe, which reads the clock once more. *)
Observable(r, now) ==
  /\ stage[r] = "observed" /\ plan[r].decision # None
  /\ Sourced(r, FALSE, now)
  /\ \E later \in now .. clock :
       Readable(dispatches[r].decision, dispatches[r].at, later)
-----------------------------------------------------------------------------
(* BEGIN IMMEDIATE: one writer at a time. *)

Unlocked == writing = None

Holds(x) == writing # None /\ writing.by = x

(* The transaction of x ends. *)
Ends(x) == Holds(x) /\ writing' = None

Goes(r, to) == stage' = [stage EXCEPT ![r] = to]
-----------------------------------------------------------------------------
Init ==
  /\ clock = 0
  /\ root = None
  /\ dispatches = [r \in Runs |-> None]
  /\ receipts = [r \in Runs |-> None]
  /\ admissions = {}
  /\ capsules = [r \in Runs |-> None]
  /\ decisions = [d \in Decisions |-> None]
  /\ handoffs = [d \in Decisions |-> None]
  /\ executions = {}
  /\ life = [s \in Skills |-> "absent"]
  /\ archived = [s \in Skills |-> FALSE]
  /\ version = [s \in Skills |-> 0]
  /\ pinned = [s \in Skills |-> FALSE]
  /\ found = [s \in Skills |-> [r \in Runs |-> 0]]
  /\ objected = {}
  /\ asked = [s \in Skills |-> None]
  /\ stage = [r \in Runs |-> "idle"]
  /\ plan = [r \in Runs |-> None]
  /\ sent = [r \in Runs |-> 0]
  /\ answered = [r \in Runs |-> None]
  /\ number = [r \in Runs |-> 0]
  /\ writing = None
  /\ changes = 0

Tick ==
  /\ clock < MaxClock
  /\ clock' = clock + 1
  /\ UNCHANGED <<ledger, reuse, skill, runner, changes>>

(* record_root_statement: the next revision; a revocation is terminal. *)
State(action, until) ==
  /\ Unlocked
  /\ root # None => root.action = "approve" /\ root.revision < MaxRevision
  /\ root' = [revision |-> IF root = None THEN 1 ELSE root.revision + 1,
              action |-> action, until |-> until]
  /\ UNCHANGED <<clock, dispatches, receipts, admissions, capsules, reuse, skill,
                 runner, changes>>
-----------------------------------------------------------------------------
(* The coordinator: one dispatch, one request, one observation. *)

(* A context is built and signed; a policy window, if any, is open. *)
Sign(r, p) ==
  /\ stage[r] = "idle"
  /\ p.opened = clock
  /\ plan' = [plan EXCEPT ![r] = p]
  /\ Goes(r, "signed")
  /\ UNCHANGED <<clock, ledger, reuse, skill, sent, answered, number, writing, changes>>

(* A transaction that would be refused at once leaves no trace, and is not   *)
(* begun here.                                                               *)
Begin(x) ==
  /\ Unlocked
  /\ \/ /\ x \in Runs
        /\ \/ Dispatchable(x, clock) \/ Recordable(x, clock) \/ Admissible(x, clock)
           \/ Coverable(x, clock) \/ Observable(x, clock)
     \/ x \in Decisions /\ \E r \in Runs : Deliverable(x, r, clock)
  /\ writing' = [by |-> x, at |-> clock]
  /\ UNCHANGED <<clock, ledger, reuse, skill, stage, plan, sent, answered, number, changes>>

(* It is refused, or its process dies: what it wrote is undone.  The code    *)
(* does not try again; here it may.                                          *)
Rollback(x) ==
  /\ Ends(x)
  /\ UNCHANGED <<clock, ledger, reuse, skill, stage, plan, sent, answered, number, changes>>

(* record_dispatch. *)
RecordDispatch(r) ==
  LET p == plan[r] IN
  /\ Ends(r)
  /\ Dispatchable(r, writing.at)
  /\ dispatches' = [dispatches EXCEPT ![r] =
       [revision |-> p.revision, until |-> p.opened + Window, at |-> writing.at,
        decision |-> p.decision]]
  /\ Goes(r, "approved")
  /\ UNCHANGED <<clock, root, receipts, admissions, capsules, reuse, skill, plan, sent,
                 answered, number, changes>>

(* The executor is asked once, and may answer. *)
Post(r) ==
  /\ stage[r] = "approved"
  /\ sent' = [sent EXCEPT ![r] = clock]
  /\ Goes(r, "posted")
  /\ UNCHANGED <<clock, ledger, reuse, skill, plan, answered, number, writing, changes>>

Answer(r) ==
  /\ stage[r] = "posted"
  /\ answered' = [answered EXCEPT ![r] = clock]
  /\ Goes(r, "observed")
  /\ UNCHANGED <<clock, ledger, reuse, skill, plan, sent, number, writing, changes>>

(* A coordinator whose step is refused or fails, or which dies, takes no     *)
(* further step of its own, but the pipeline goes on to the admission when   *)
(* the receipt is refused.                                                   *)
Abandon(r) ==
  /\ stage[r] = "numbered" /\ ~Holds(r)
  /\ Goes(r, "linked")
  /\ UNCHANGED <<clock, ledger, reuse, skill, plan, sent, answered, number, writing, changes>>

(* Kept evidence is given to the pipeline again, which signs no policy. *)
Again(r) ==
  /\ stage[r] \in {"checked", "stored", "numbered", "linked", "admitted", "over"}
  /\ ~Holds(r)
  /\ plan[r].decision = None
  /\ changes < MaxChanges
  /\ plan' = [plan EXCEPT ![r].policy = 0]
  /\ Goes(r, "observed")
  /\ number' = [number EXCEPT ![r] = 0]
  /\ changes' = changes + 1
  /\ UNCHANGED <<clock, ledger, reuse, skill, sent, answered, writing>>
-----------------------------------------------------------------------------
(* skill_fixed_pipeline.accumulate. *)

Check(r) ==
  /\ Unlocked
  /\ stage[r] = "observed" /\ plan[r].decision = None
  /\ Sourced(r, receipts[r] # None, clock)
  /\ Goes(r, "checked")
  /\ UNCHANGED <<clock, ledger, reuse, skill, plan, sent, answered, number, writing, changes>>

(* create_candidate with the recipe; a run seen before changes nothing, and  *)
(* conflicts unless the latest code is the recipe.  It is refused, too, if   *)
(* its preconditions or evidence differ from the stored ones: not here.      *)
Store(r) ==
  LET s == plan[r].skill
      v == IF pinned[s] THEN version[s] ELSE version[s] + 1
  IN
  /\ Unlocked
  /\ stage[r] = "checked"
  /\ \A t \in Skills \ {s} : found[t][r] = 0
  /\ IF found[s][r] # 0
     THEN pinned[s] /\ UNCHANGED <<life, version, pinned, found>>
     ELSE /\ version' = [version EXCEPT ![s] = v]
          /\ pinned' = [pinned EXCEPT ![s] = TRUE]
          /\ found' = [found EXCEPT ![s][r] = v]
          /\ life' = [life EXCEPT ![s] = IF @ = "absent" THEN "candidate"
                                         ELSE IF @ = "active" /\ ~pinned[s] THEN "questioned"
                                         ELSE @]
  /\ Goes(r, "stored")
  /\ UNCHANGED <<clock, ledger, reuse, archived, objected, asked, plan, sent, answered,
                 number, writing, changes>>

(* The version is read afterwards. *)
Number(r) ==
  /\ stage[r] = "stored"
  /\ number' = [number EXCEPT ![r] = version[plan[r].skill]]
  /\ Goes(r, "numbered")
  /\ UNCHANGED <<clock, ledger, reuse, skill, plan, sent, answered, writing, changes>>

(* Mutant: the authority is not inspected again before the commit. *)
RecordBlindly(r) ==
  /\ Ends(r)
  /\ Recordable(r, writing.at)
  /\ receipts' = [receipts EXCEPT ![r] =
       [skill |-> plan[r].skill, version |-> number[r], at |-> writing.at]]
  /\ Goes(r, "linked")
  /\ UNCHANGED <<clock, root, dispatches, admissions, capsules, reuse, skill, plan, sent,
                 answered, number, changes>>

(* skill_host_intake.record: the receipt is committed if the authority       *)
(* stands when it is looked at again, which is the last thing done.          *)
Record(r) ==
  /\ Ends(r)
  /\ Recordable(r, writing.at)
  /\ Authorised(r, clock)
  /\ receipts' = [receipts EXCEPT ![r] =
       [skill |-> plan[r].skill, version |-> number[r], at |-> writing.at]]
  /\ Goes(r, "linked")
  /\ UNCHANGED <<clock, root, dispatches, admissions, capsules, reuse, skill, plan, sent,
                 answered, number, changes>>

(* Mutant: the event does not name the version. *)
AdmitUnnamed(r) ==
  LET s == plan[r].skill IN
  /\ Ends(r)
  /\ Admissible(r, writing.at)
  /\ Authorised(r, clock)
  /\ admissions' = admissions \cup {[skill |-> s, run |-> r]}
  /\ life' = [life EXCEPT ![s] = "active"]
  /\ IF plan[r].policy = 0
     THEN Goes(r, "over") /\ number' = [number EXCEPT ![r] = 0]
     ELSE Goes(r, "admitted") /\ UNCHANGED number
  /\ UNCHANGED <<clock, root, dispatches, receipts, capsules, reuse, archived, version,
                 pinned, found, objected, asked, plan, sent, answered, changes>>

(* skill_fixed_activation.admit: the update and the event are committed if   *)
(* the authority stands when it is looked at again.                          *)
Admit(r) ==
  LET s == plan[r].skill IN
  /\ Ends(r)
  /\ Admissible(r, writing.at)
  /\ Authorised(r, clock)
  /\ admissions' = admissions \cup {[skill |-> s, version |-> number[r], run |-> r]}
  /\ life' = [life EXCEPT ![s] = "active"]
  /\ IF plan[r].policy = 0
     THEN Goes(r, "over") /\ number' = [number EXCEPT ![r] = 0]
     ELSE Goes(r, "admitted") /\ UNCHANGED number
  /\ UNCHANGED <<clock, root, dispatches, receipts, capsules, reuse, archived, version,
                 pinned, found, objected, asked, plan, sent, answered, changes>>

(* skill_reference_registry.register; the authority is not looked at again. *)
Register(r) ==
  /\ Ends(r)
  /\ Coverable(r, writing.at)
  /\ capsules' = [capsules EXCEPT ![r] = [until |-> plan[r].policy, at |-> writing.at]]
  /\ number' = [number EXCEPT ![r] = 0]
  /\ Goes(r, "over")
  /\ UNCHANGED <<clock, root, dispatches, receipts, admissions, reuse, skill, plan, sent,
                 answered, changes>>
-----------------------------------------------------------------------------
(* Generation decisions, handoffs, and the one thing that counts as reuse. *)

(* skill_generation_decision.prepare. *)
Decide(d) ==
  /\ Unlocked
  /\ decisions[d] = None
  /\ decisions' = [decisions EXCEPT ![d] = [made |-> clock, listed |-> Listed]]
  /\ UNCHANGED <<clock, ledger, handoffs, executions, skill, runner, changes>>

(* skill_generation_decision.consume: nothing is handed out. *)
FallBack(d) ==
  /\ Unlocked
  /\ Open(d, clock)
  /\ handoffs' = [handoffs EXCEPT ![d] = Fallback]
  /\ UNCHANGED <<clock, ledger, decisions, executions, skill, runner, changes>>

(* skill_reference_consumer.consume; nor is it here. *)
HandOff(d, r) ==
  /\ Ends(d)
  /\ Deliverable(d, r, writing.at)
  /\ handoffs' = [handoffs EXCEPT ![d] =
       [skill |-> receipts[r].skill, version |-> receipts[r].version, run |-> r]]
  /\ UNCHANGED <<clock, ledger, decisions, executions, skill, stage, plan, sent, answered,
                 number, changes>>

(* skill_reference_execution.observe; nor here. *)
ObserveReuse(r) ==
  /\ Ends(r)
  /\ Observable(r, writing.at)
  /\ executions' = executions \cup {r}
  /\ Goes(r, "over")
  /\ UNCHANGED <<clock, ledger, decisions, handoffs, skill, plan, sent, answered, number,
                 changes>>
-----------------------------------------------------------------------------
(* What others do to the skills (SkillLifecycle has it in full). *)

Changed == Unlocked /\ changes < MaxChanges /\ changes' = changes + 1

(* A withdrawal questions an active skill, a negative feedback may. *)
Object(s, o) ==
  /\ Changed
  /\ found[s][o[1]] # 0 /\ o \notin objected
  /\ objected' = objected \cup {o}
  /\ \/ life[s] = "active" /\ life' = [life EXCEPT ![s] = "questioned"]
     \/ (life[s] = "active" => o[2] = "feedback") /\ UNCHANGED life
  /\ UNCHANGED <<clock, ledger, reuse, archived, version, pinned, found, asked, runner>>

(* A later statement that confirms lifts a withdrawal, not a feedback. *)
Confirm(r) ==
  /\ Unlocked
  /\ <<r, "withdrawal">> \in objected
  /\ objected' = objected \ {<<r, "withdrawal">>}
  /\ UNCHANGED <<clock, ledger, reuse, life, archived, version, pinned, found, asked, runner,
                 changes>>

Archive(s) ==
  /\ Changed
  /\ life[s] # "absent"
  /\ archived' = [archived EXCEPT ![s] = ~@]
  /\ life' = [life EXCEPT ![s] = IF archived[s] /\ @ = "active" THEN "questioned" ELSE @]
  /\ UNCHANGED <<clock, ledger, reuse, version, pinned, found, objected, asked, runner>>

(* request_revalidation. *)
Revalidate(s) ==
  /\ Unlocked
  /\ life[s] = "questioned" /\ ~archived[s]
  /\ life' = [life EXCEPT ![s] = "candidate"]
  /\ asked' = [asked EXCEPT ![s] =
       [at |-> clock, receipts |-> {r \in Runs : receipts[r] # None}]]
  /\ UNCHANGED <<clock, ledger, reuse, archived, version, pinned, found, objected, runner,
                 changes>>

(* Other code under the same fingerprint. *)
Supersede(s) ==
  /\ Changed
  /\ life[s] # "absent" /\ pinned[s]
  /\ version' = [version EXCEPT ![s] = @ + 1]
  /\ pinned' = [pinned EXCEPT ![s] = FALSE]
  /\ life' = [life EXCEPT ![s] = IF @ = "active" THEN "questioned" ELSE @]
  /\ UNCHANGED <<clock, ledger, reuse, archived, found, objected, asked, runner>>

(* The local intake of the gateway admits a run of its own. *)
AdmitLocally(s) ==
  /\ Changed
  /\ life[s] \in {"absent", "candidate"} /\ ~archived[s]
  /\ life' = [life EXCEPT ![s] = "active"]
  /\ version' = [version EXCEPT ![s] = IF pinned[s] THEN @ ELSE @ + 1]
  /\ pinned' = [pinned EXCEPT ![s] = TRUE]
  /\ UNCHANGED <<clock, ledger, reuse, archived, found, objected, asked, runner>>

Others(s) ==
  \/ \E o \in Objection : Object(s, o)
  \/ Archive(s) \/ Revalidate(s) \/ Supersede(s) \/ AdmitLocally(s)

(* What a coordinator may be started for, under the latest statement: a      *)
(* source of a skill, with or without a policy, or a reuse of what a         *)
(* decision was answered with.                                               *)
Plans ==
  [skill : Skills, revision : {root.revision}, decision : {None}, opened : {clock},
   policy : {0} \cup {clock + n : n \in PolicyLives}]
  \cup [skill : {None}, revision : {root.revision},
        decision : {d \in Decisions : handoffs[d] \in Handoff},
        opened : {clock}, policy : {0}]

Next ==
  \/ Tick
  \/ \E a \in {"approve", "revoke"}, n \in RootLives : State(a, clock + n)
  \/ \E x \in Runs \cup Decisions : Begin(x) \/ Rollback(x)
  \/ \E r \in Runs :
       \/ root # None /\ \E p \in Plans : Sign(r, p)
       \/ RecordDispatch(r) \/ Post(r) \/ Answer(r) \/ Abandon(r) \/ Again(r)
       \/ Check(r) \/ Store(r) \/ Number(r)
       \/ Confirm(r) \/ Record(r) \/ Admit(r) \/ Register(r) \/ ObserveReuse(r)
  \/ \E d \in Decisions : \/ Decide(d) \/ FallBack(d)
                          \/ \E r \in Runs : HandOff(d, r)
  \/ \E s \in Skills : Others(s)

Spec == Init /\ [][Next]_vars
-----------------------------------------------------------------------------
(* What the signed path promises. *)

LedgerTypes ==
  /\ root \in Statement \cup {None}
  /\ dispatches \in [Runs -> Dispatch \cup {None}]
  /\ receipts \in [Runs -> Receipt \cup {None}]
  /\ admissions \subseteq Admission
  /\ capsules \in [Runs -> Capsule \cup {None}]

ReuseTypes ==
  /\ decisions \in [Decisions -> Decision \cup {None}]
  /\ handoffs \in [Decisions -> Handoff \cup {Fallback, None}]
  /\ executions \subseteq Runs

SkillTypes ==
  /\ life \in [Skills -> {"absent", "candidate", "active", "questioned"}]
  /\ archived \in [Skills -> BOOLEAN]
  /\ version \in [Skills -> Nat]
  /\ pinned \in [Skills -> BOOLEAN]
  /\ found \in [Skills -> [Runs -> Nat]]
  /\ objected \subseteq Objection
  /\ asked \in [Skills -> Epoch \cup {None}]

RunnerTypes ==
  /\ stage \in [Runs -> Stages]
  /\ plan \in [Runs -> Plan \cup {None}]
  /\ sent \in [Runs -> Nat]
  /\ answered \in [Runs -> Nat \cup {None}]
  /\ number \in [Runs -> Nat]
  /\ writing \in Writing \cup {None}

(* The values the authority database, the skills and the coordinators hold:  *)
(* every write of every handler stays within them.                           *)
TypeOK ==
  /\ LedgerTypes /\ ReuseTypes /\ SkillTypes /\ RunnerTypes
  /\ clock \in Nat /\ changes \in Nat


(* Every receipt is about an observation that was made, and received, while  *)
(* its dispatch was open, and whose request was not sent before the dispatch *)
(* was recorded; and a dispatch does not outlive the statement it is under.  *)
EvidenceInWindow ==
  \A r \in Runs :
    /\ sent[r] # 0 \/ answered[r] # None => dispatches[r] # None /\ dispatches[r].at <= sent[r]
    /\ receipts[r] # None =>
         /\ answered[r] # None
         /\ sent[r] <= answered[r] /\ answered[r] <= receipts[r].at
         /\ receipts[r].at <= dispatches[r].until
    /\ (/\ dispatches[r] # None /\ root # None
        /\ dispatches[r].revision = root.revision /\ root.action = "approve")
         => dispatches[r].until <= root.until

(* What a policy covers was admitted through the signed path, on the very    *)
(* run whose evidence it holds, and what is handed out is covered by one.    *)
HandoffWasAdmitted ==
  /\ \A r \in Runs : capsules[r] # None =>
       /\ receipts[r] # None
       /\ [skill |-> receipts[r].skill, version |-> receipts[r].version, run |-> r] \in admissions
  /\ \A d \in Decisions : handoffs[d] \in Handoff =>
       /\ capsules[handoffs[d].run] # None
       /\ receipts[handoffs[d].run].skill = handoffs[d].skill
       /\ receipts[handoffs[d].run].version = handoffs[d].version

(* A run is recorded as a reuse only if it was dispatched for that purpose,  *)
(* after the handoff and while its decision was good; it is not the run the  *)
(* reference came from, and no other run reuses the same handoff.            *)
ReuseWasBound ==
  \A r \in executions :
    LET d == dispatches[r].decision IN
    /\ d # None /\ handoffs[d] \in Handoff
    /\ decisions[d].made <= dispatches[r].at
    /\ dispatches[r].at < decisions[d].made + DecisionLife
    /\ dispatches[r].at <= sent[r]
    /\ handoffs[d].run # r
    /\ \A q \in executions : dispatches[q].decision = d => q = r

(* The run a step takes as evidence for a skill, by any of the writes that   *)
(* turn evidence into trust.                                                 *)
TakenFor(s) ==
  {r \in Runs : receipts[r] # receipts'[r] /\ receipts'[r].skill = s}
  \cup {a.run : a \in {x \in admissions' \ admissions : x.skill = s}}
  \cup {r \in Runs : capsules[r] # capsules'[r] /\ receipts[r].skill = s}
  \cup {handoffs'[d].run : d \in {e \in Decisions : handoffs[e] # handoffs'[e]
                                      /\ handoffs'[e] # Fallback
                                      /\ handoffs'[e].skill = s}}
  \cup {handoffs[dispatches[r].decision].run :
          r \in {q \in executions' \ executions :
                   /\ dispatches[q].decision # None
                   /\ handoffs[dispatches[q].decision].skill = s}}

(* Once a revalidation of a skill has been asked for, no run dispatched      *)
(* before it is evidence for the skill again, however late its observation   *)
(* is received and wherever in the pipeline it was: not for a receipt, an    *)
(* admission, a policy, a handoff or a reuse.                                *)
NothingOnStaleEvidence ==
  [][\A s \in Skills : asked[s] # None =>
       \A r \in TakenFor(s) : asked[s].at < dispatches[r].at]_vars

(* An archived or questioned skill is not handed out, admitted or covered by *)
(* a policy, and a run recorded as its reuse finds it in use to the end.     *)
TrustNeedsStanding ==
  [][\A s \in Skills : TakenFor(s) # {} =>
       ~archived[s] /\ life[s] # "questioned" /\ pinned[s]]_vars

(* What the ledger says was granted, and under which revision. *)
Under(r) == dispatches[r].revision

Granted(what, who, r) == [subject |-> <<what, who>>, revision |-> Under(r)]

grants ==
  {Granted("dispatch", r, r) : r \in {q \in Runs : dispatches[q] # None}}
  \cup {Granted("receipt", r, r) : r \in {q \in Runs : receipts[q] # None}}
  \cup {Granted("admission", a, a.run) : a \in admissions}
  \cup {Granted("policy", r, r) : r \in {q \in Runs : capsules[q] # None}}
  \cup {Granted("handoff", d, handoffs[d].run) :
          d \in {e \in Decisions : handoffs[e] \in Handoff}}
  \cup {Granted("reuse", r, r) : r \in executions}

(* The clock that whoever is writing read. *)
looked == IF writing = None THEN None ELSE writing.at

Ledger == INSTANCE RootedGrants WITH Inspected <- {"receipt", "admission"}

(* Every grant is made once, under the statement that is still the latest    *)
(* one, that approves, and that had not run out at the clock its transaction *)
(* read when it began; a receipt and an admission need it not to have run    *)
(* out when they are committed either.  None is made after a revocation.     *)
(* Between the transactions the root may expire, be renewed or be revoked;   *)
(* within one only the first, and record_dispatch, register, consume and     *)
(* observe, which look at it once, then grant all the same.                  *)
ImplementsRootedGrants == Ledger!Spec
=============================================================================
