--------------------------- MODULE SkillLifecycle ---------------------------
(***************************************************************************)
(* The skill library of the gateway: how an exact simulation profile       *)
(* becomes an active (Q4) skill, how generic code becomes a Q2 candidate,  *)
(* and how statements, negative feedback, archiving and revalidation take  *)
(* trust away again.                                                       *)
(*                                                                         *)
(* Every action is one SQLite transaction (BEGIN IMMEDIATE in SkillStore), *)
(* or one append to the execution history.  What interleaves is everything *)
(* around the transactions: several runs in flight, the two intake steps   *)
(* of one run, administrators acting on a page they read earlier, a crash  *)
(* between a recorded run and its intake, and the later recovery scan.     *)
(*                                                                         *)
(* A skill of the model is the fingerprint of one reviewed fixed profile   *)
(* (scenario and normalised parameters).  Code is a member of Codes; the   *)
(* pinned code of the profile is Recipe, the only code whose output is the *)
(* exact trace the local intake reads; the candidate path reads the field  *)
(* block that other code prints and the recipe does not.                   *)
(*                                                                         *)
(* Run identifiers are numbers: the code compares run identifiers (UUID    *)
(* text) with each other, and their order has nothing to do with time.     *)
(***************************************************************************)
EXTENDS Naturals, FiniteSets

CONSTANTS
  Skills,       \* fingerprints of the fixed profiles
  Runs,         \* identifiers of executed runs
  Codes,        \* code texts that runs execute
  Recipe,       \* the pinned code of a fixed profile
  Admins,       \* administrators, or maintenance scripts, with a page open
  Tickets,      \* request identifiers of feedback statements
  NoHead,       \* a skill without a version
  NoRequest,    \* a run that has not been dispatched
  NoView,       \* an administrator who looks at nothing
  MaxClock,     \* bound: last value of the clock
  MaxRepeats,   \* bound: runs whose identifier a caller uses twice
  MaxAudit      \* bound: archive and restore stop at this event number

ASSUME LifecycleAssumption ==
  /\ Runs \subseteq Nat
  /\ Recipe \in Codes
  /\ NoHead \notin [code : Codes, run : Runs]
  /\ MaxClock \in Nat
  /\ MaxRepeats \in Nat
  /\ MaxAudit \in Nat

VARIABLES
  \* simulation_skills, one row per fingerprint
  status, grade, archived, bounds, updated,
  \* skill_versions: latest version number, and its code and evidence run
  version, head,
  \* source runs of versions and of candidate_observed events
  observed,
  \* skill_local_sources
  sources,
  \* skill_feedback
  negative,
  \* skill_events: last id, and what the statements and epochs in it say
  audit, admittedAt, objectedAt, epoch, statement, tickets,
  \* executions table, and how far the handler of each run has come
  phase, request, rows, good,
  \* what each administrator read, and the clock behind updated_at
  view, clock,
  \* the fingerprint the running release computes for given parameters
  names

rowVars   == <<status, grade, archived, bounds, updated>>
codeVars  == <<version, head, observed>>
eventVars == <<audit, admittedAt, objectedAt, epoch, statement, tickets>>
skillVars == <<rowVars, codeVars, eventVars, sources, negative>>
runVars   == <<phase, request, rows, good>>
vars == <<skillVars, runVars, view, clock, names>>

Kinds    == {"none", "fixed", "generic"}
Statuses == {"absent", "candidate", "active", "questioned"}
Grades   == {"none", "Q2", "Q4"}
Statements == {"none", "confirmed", "withdrawn"}
Phases   == {"new", "running", "recorded", "fallback", "settled"}

VersionHead == [code : Codes, run : Runs]
Request == [skill : Skills, code : Codes, declared : BOOLEAN, epoch : Nat]
Observation ==
  [skill : Skills, version : Nat, code : Codes, run : Runs, kind : Kinds, at : Nat]
Source  == [run : Runs, skill : Skills, version : Nat]
Ticket  == [skill : Skills, id : Tickets]
Page    == [skill : Skills, updated : Nat, audit : Nat, status : Statuses,
            archived : BOOLEAN, version : Nat, negative : SUBSET Runs]
-----------------------------------------------------------------------------
(* Reads of the store. *)

Exists(s) == version[s] > 0

(* Mutant: a run may be recorded for another fingerprint. *)
AnyIdentity(s, r, k) == TRUE

(* Runs recorded under s, by a version or by an observation of one. *)
ObservedRuns(s) == {o.run : o \in {x \in observed : x.skill = s}}
Seen(s, r) == \E o \in observed : o.skill = s /\ o.run = r

(* source_run_parameter_identity_conflict: under one validator a run may not *)
(* be recorded for two fingerprints.                                        *)
IdentityFree(s, r, k) ==
  \A o \in observed : o.run = r /\ o.kind = k => o.skill = s

(* When s last saw run r. *)
SeenAt(s, r) ==
  CHOOSE t \in {o.at : o \in observed} :
    /\ \E o \in observed : o.skill = s /\ o.run = r /\ o.at = t
    /\ \A o \in observed : o.skill = s /\ o.run = r => o.at <= t

(* The three latest distinct source runs; equal stamps go to the larger id. *)
RecentRuns(s) ==
  LET Later(q, r) == \/ SeenAt(s, q) > SeenAt(s, r)
                     \/ SeenAt(s, q) = SeenAt(s, r) /\ q > r
  IN {r \in ObservedRuns(s) :
        Cardinality({q \in ObservedRuns(s) : Later(q, r)}) < 3}

(* The admitted runs behind the latest version of s. *)
CurrentSources(s) == {x.run : x \in {y \in sources : y.skill = s /\ y.version = version[s]}}

(* verify_connection: the latest version may be handed out.  The evidence is *)
(* the capsule of the smallest source run, and it must be the one that the   *)
(* version itself names.                                                     *)
Deliverable(s) ==
  /\ status[s] = "active" /\ grade[s] = "Q4" /\ ~archived[s]
  /\ bounds[s] = "fixed"
  /\ head[s] # NoHead
  /\ head[s].code = Recipe
  /\ head[s].run \in CurrentSources(s)
  /\ \A r \in CurrentSources(s) : head[s].run <= r
  /\ head[s].run \notin negative[s]

(* read_detail: one snapshot for the administrator's page. *)
Shown(s) ==
  [skill |-> s, updated |-> updated[s], audit |-> audit[s], status |-> status[s],
   archived |-> archived[s], version |-> version[s], negative |-> negative[s]]
-----------------------------------------------------------------------------
(* SkillStore.create_candidate. *)

(* Mutant: other code for a known fingerprint counts as another success. *)
SameVersion(s, c) == ~Exists(s)

NewVersion(s, c) == ~(Exists(s) /\ head[s].code = c)

(* Mutant: the declared bounds are not compared with the recorded ones. *)
AnyBounds(s, r, c, k) ==
  /\ IdentityFree(s, r, k)
  /\ Exists(s) /\ Seen(s, r) => head[s].code = c

(* Not refused: the declared bounds match those of an existing skill, and a *)
(* run that was seen before comes with the same code.                       *)
Acceptable(s, r, c, k) ==
  /\ IdentityFree(s, r, k)
  /\ Exists(s) => bounds[s] = k /\ (Seen(s, r) => head[s].code = c)

Observed(s, v, r, c, k) ==
  [skill |-> s, version |-> v, code |-> c, run |-> r, kind |-> k, at |-> clock]

(* The part of the write that does not depend on who called: a run that was *)
(* seen leaves everything as it is.                                         *)
Observe(s, r, c, k) ==
  \/ Seen(s, r) /\ UNCHANGED <<version, head, bounds, updated, observed>>
  \/ /\ ~Seen(s, r)
     /\ \/ /\ NewVersion(s, c)
           /\ version' = [version EXCEPT ![s] = @ + 1]
           /\ head' = [head EXCEPT ![s] = [code |-> c, run |-> r]]
        \/ ~NewVersion(s, c) /\ UNCHANGED <<version, head>>
     /\ bounds' = [bounds EXCEPT ![s] = IF Exists(s) THEN @ ELSE k]
     /\ updated' = [updated EXCEPT ![s] = clock]
     /\ observed' = observed \cup {Observed(s, version'[s], r, c, k)}

(* candidate_created, candidate_observed or candidate_versioned: one event. *)
EventsOfObserve(s, r) == IF Seen(s, r) THEN 0 ELSE 1

(* A new version never inherits the active label of the old one. *)
StatusAfter(s, c) ==
  IF ~Exists(s) THEN "candidate"
  ELSE IF NewVersion(s, c) /\ status[s] = "active" THEN "questioned"
  ELSE status[s]

CandidateWrite(s, r, c) ==
  /\ Observe(s, r, c, "generic")
  /\ audit' = [audit EXCEPT ![s] = @ + EventsOfObserve(s, r)]
  /\ IF Seen(s, r)
     THEN UNCHANGED <<status, grade>>
     ELSE /\ status' = [status EXCEPT ![s] = StatusAfter(s, c)]
          /\ grade' = [grade EXCEPT ![s] = IF NewVersion(s, c) THEN "Q2" ELSE @]
  /\ UNCHANGED <<archived, admittedAt, objectedAt, epoch, statement, tickets,
                 sources, negative>>
-----------------------------------------------------------------------------
(* Runs: dispatch, the history row, and the handler after it. *)

Init ==
  /\ status = [s \in Skills |-> "absent"]
  /\ grade = [s \in Skills |-> "none"]
  /\ archived = [s \in Skills |-> FALSE]
  /\ bounds = [s \in Skills |-> "none"]
  /\ updated = [s \in Skills |-> 0]
  /\ version = [s \in Skills |-> 0]
  /\ head = [s \in Skills |-> NoHead]
  /\ observed = {}
  /\ sources = {}
  /\ negative = [s \in Skills |-> {}]
  /\ audit = [s \in Skills |-> 0]
  /\ admittedAt = [s \in Skills |-> 0]
  /\ objectedAt = [s \in Skills |-> 0]
  /\ epoch = [s \in Skills |-> 0]
  /\ statement = [s \in Skills |-> [r \in Runs |-> "none"]]
  /\ tickets = {}
  /\ phase = [r \in Runs |-> "new"]
  /\ request = [r \in Runs |-> NoRequest]
  /\ rows = [r \in Runs |-> 0]
  /\ good = {}
  /\ view = [a \in Admins |-> NoView]
  /\ clock = 0
  /\ names = [s \in Skills |-> s]

(* run_jwave_code, or the bootstrap script, sends code to the executor.      *)
(* "declared" says that the caller's parameters passed candidate_intake's    *)
(* prepare; s is the fingerprint of the parameters the code simulates.       *)
Dispatch(r, s, c, declared) ==
  /\ phase[r] = "new"
  /\ phase' = [phase EXCEPT ![r] = "running"]
  /\ request' = [request EXCEPT ![r] =
       [skill |-> s, code |-> c, declared |-> declared, epoch |-> epoch[s]]]
  /\ UNCHANGED <<skillVars, rows, good, view, clock, names>>

(* The executor answered and record_execution wrote a row.  A run is good    *)
(* when the row shows exit 0, no timeout, no stderr and passing physics.     *)
Record(r) ==
  /\ phase[r] = "running"
  /\ phase' = [phase EXCEPT ![r] = "recorded"]
  /\ rows' = [rows EXCEPT ![r] = 1]
  /\ \/ good' = good \cup {r}
     \/ UNCHANGED good
  /\ UNCHANGED <<skillVars, request, view, clock, names>>

(* run_id is a caller's argument and executions.run_id is not unique: a      *)
(* second row makes every later read of this run ambiguous.                  *)
RepeatRunId(r) ==
  /\ rows[r] = 1
  /\ Cardinality({q \in Runs : rows[q] = 2}) < MaxRepeats
  /\ rows' = [rows EXCEPT ![r] = 2]
  /\ UNCHANGED <<skillVars, phase, request, good, view, clock, names>>

(* Mutant: the gateway comes back without the runs it had been executing. *)
CrashForgets ==
  /\ \E r \in Runs : phase[r] \in {"running", "recorded", "fallback"}
  /\ phase' = [r \in Runs |-> IF phase[r] = "settled" THEN "settled" ELSE "new"]
  /\ UNCHANGED <<skillVars, request, rows, good, view, clock, names>>

(* The gateway dies: a run without a row is lost, a recorded one keeps its   *)
(* row, and nobody finishes either.                                          *)
CrashHandlers ==
  /\ \E r \in Runs : phase[r] \in {"running", "recorded", "fallback"}
  /\ phase' = [r \in Runs |-> IF phase[r] = "new" THEN "new" ELSE "settled"]
  /\ UNCHANGED <<skillVars, request, rows, good, view, clock, names>>

(* A new release of the gateway normalises parameters differently: what was  *)
(* stored keeps its fingerprint, what is stored from now on gets another.    *)
Upgrade ==
  /\ names = [s \in Skills |-> s]
  /\ names' \in [Skills -> Skills]
  /\ phase' = [r \in Runs |-> IF phase[r] = "new" THEN "new" ELSE "settled"]
  /\ UNCHANGED <<skillVars, request, rows, good, view, clock>>

(* The parameters of r under the normalisation of the running release. *)
Fingerprint(r) == names[request[r].skill]

(* _history: the row of r is unique and holds a passing run of the recipe. *)
ExactProfileRun(r) ==
  rows[r] = 1 /\ r \in good /\ request[r].code = Recipe

Prior(r) == \E x \in sources : x.run = r

(* skill_local_profile.record accepts: candidate, local source, event and    *)
(* activation commit together.                                               *)
Admit(r) ==
  LET s == Fingerprint(r) IN
  /\ phase[r] = "recorded"
  /\ ExactProfileRun(r)
  /\ ~Prior(r)
  /\ Exists(s) => status[s] = "candidate" /\ ~archived[s]
  /\ Acceptable(s, r, Recipe, "fixed")
  /\ Observe(s, r, Recipe, "fixed")
  /\ sources' = sources \cup {[run |-> r, skill |-> s, version |-> version'[s]]}
  /\ audit' = [audit EXCEPT ![s] = @ + EventsOfObserve(s, r) + 1]
  /\ admittedAt' = [admittedAt EXCEPT ![s] = audit'[s]]
  /\ status' = [status EXCEPT ![s] = "active"]
  /\ grade' = [grade EXCEPT ![s] = "Q4"]
  /\ phase' = [phase EXCEPT ![r] = "settled"]
  /\ UNCHANGED <<archived, objectedAt, epoch, statement, tickets, negative,
                 request, rows, good, view, clock, names>>

(* record refuses, for a reason in the store or a transient one (every       *)
(* error, a busy database included, is caught and answered with a denial);   *)
(* _finalize_skill_learning goes on to the candidate path.                   *)
Refuse(r) ==
  /\ phase[r] = "recorded"
  /\ phase' = [phase EXCEPT ![r] =
                 IF request[r].declared THEN "fallback" ELSE "settled"]
  /\ UNCHANGED <<skillVars, request, rows, good, view, clock, names>>

(* candidate_intake.complete would store r as a Q2 candidate. *)
CandidateRun(r) ==
  /\ rows[r] = 1 /\ r \in good
  /\ request[r].declared
  /\ request[r].code # Recipe
  /\ Acceptable(Fingerprint(r), r, request[r].code, "generic")

Complete(r) ==
  /\ phase[r] = "fallback"
  /\ phase' = [phase EXCEPT ![r] = "settled"]
  /\ \/ /\ CandidateRun(r)
        /\ CandidateWrite(Fingerprint(r), r, request[r].code)
     \/ UNCHANGED skillVars
  /\ UNCHANGED <<request, rows, good, view, clock, names>>

(* recover_pending calls complete for every recorded run, whatever became of *)
(* the handler that recorded it.                                             *)
Recover(r) ==
  /\ CandidateRun(r)
  /\ CandidateWrite(Fingerprint(r), r, request[r].code)
  /\ UNCHANGED <<runVars, view, clock, names>>
-----------------------------------------------------------------------------
(* Statements, feedback and the administrators. *)

(* record_feedback_statement.  A ticket that s knows is answered from the    *)
(* record (or refused) and changes nothing.                                  *)
NewTicket(s, t) == [skill |-> s, id |-> t] \notin tickets

Confirm(s, r, t) ==
  /\ Exists(s) /\ NewTicket(s, t) /\ Seen(s, r)
  /\ tickets' = tickets \cup {[skill |-> s, id |-> t]}
  /\ statement' = [statement EXCEPT ![s][r] = "confirmed"]
  /\ audit' = [audit EXCEPT ![s] = @ + 1]
  /\ UNCHANGED <<rowVars, codeVars, admittedAt, objectedAt, epoch, sources,
                 negative, runVars, view, clock, names>>

Withdraw(s, r, t) ==
  /\ Exists(s) /\ NewTicket(s, t) /\ Seen(s, r)
  /\ statement[s][r] = "confirmed"
  /\ tickets' = tickets \cup {[skill |-> s, id |-> t]}
  /\ statement' = [statement EXCEPT ![s][r] = "withdrawn"]
  /\ audit' = [audit EXCEPT ![s] = @ + 1]
  /\ objectedAt' = [objectedAt EXCEPT ![s] = audit[s] + 1]
  /\ IF status[s] = "active"
     THEN /\ status' = [status EXCEPT ![s] = "questioned"]
          /\ updated' = [updated EXCEPT ![s] = clock]
     ELSE UNCHANGED <<status, updated>>
  /\ UNCHANGED <<grade, archived, bounds, codeVars, admittedAt, epoch, sources,
                 negative, runVars, view, clock, names>>

(* Mutant: the recent failures are counted before this one is inserted. *)
CountedBeforeInsert(s, r) ==
  LET failures == RecentRuns(s) \cap negative[s]
      doubted  == Cardinality(failures \cup (RecentRuns(s) \cap {r})) >= 2
  IN
  /\ Exists(s) /\ Seen(s, r) /\ r \notin negative[s]
  /\ negative' = [negative EXCEPT ![s] = @ \cup {r}]
  /\ status' = [status EXCEPT ![s] =
                  IF @ = "active" /\ Cardinality(failures) >= 2 THEN "questioned" ELSE @]
  /\ updated' = [updated EXCEPT ![s] = clock]
  /\ audit' = [audit EXCEPT ![s] = @ + 1]
  /\ objectedAt' = [objectedAt EXCEPT ![s] = IF doubted THEN audit[s] + 1 ELSE @]
  /\ UNCHANGED <<grade, archived, bounds, codeVars, admittedAt, epoch, statement,
                 tickets, sources, runVars, view, clock, names>>

(* record_negative_feedback; a second one for the same run changes nothing. *)
Negative(s, r) ==
  LET failures == RecentRuns(s) \cap (negative[s] \cup {r})
      doubted  == Cardinality(failures) >= 2
  IN
  /\ Exists(s) /\ Seen(s, r) /\ r \notin negative[s]
  /\ negative' = [negative EXCEPT ![s] = @ \cup {r}]
  /\ status' = [status EXCEPT ![s] =
                  IF @ = "active" /\ doubted THEN "questioned" ELSE @]
  /\ updated' = [updated EXCEPT ![s] = clock]
  /\ audit' = [audit EXCEPT ![s] = @ + 1]
  /\ objectedAt' = [objectedAt EXCEPT ![s] = IF doubted THEN audit[s] + 1 ELSE @]
  /\ UNCHANGED <<grade, archived, bounds, codeVars, admittedAt, epoch, statement,
                 tickets, sources, runVars, view, clock, names>>

(* An administrator, or a maintenance script, reads the skill. *)
Look(a, s) ==
  /\ Exists(s) /\ view[a] = NoView
  /\ view' = [view EXCEPT ![a] = Shown(s)]
  /\ UNCHANGED <<skillVars, runVars, clock, names>>

(* The page is closed, or its request is refused as stale. *)
Leave(a) ==
  /\ view[a] # NoView
  /\ view' = [view EXCEPT ![a] = NoView]
  /\ UNCHANGED <<skillVars, runVars, clock, names>>

(* set_archived compares updated_at only. *)
Archive(a) ==
  LET s == view[a].skill IN
  /\ view[a] # NoView
  /\ updated[s] = view[a].updated
  /\ ~archived[s]
  /\ audit[s] < MaxAudit
  /\ archived' = [archived EXCEPT ![s] = TRUE]
  /\ updated' = [updated EXCEPT ![s] = clock]
  /\ audit' = [audit EXCEPT ![s] = @ + 1]
  /\ view' = [view EXCEPT ![a] = NoView]
  /\ UNCHANGED <<status, grade, bounds, codeVars, admittedAt, objectedAt, epoch,
                 statement, tickets, sources, negative, runVars, clock, names>>

(* Mutant: a restored skill gets its active label back. *)
RestoreReactivates(a) ==
  LET s == view[a].skill IN
  /\ view[a] # NoView
  /\ updated[s] = view[a].updated
  /\ archived[s]
  /\ audit[s] < MaxAudit
  /\ archived' = [archived EXCEPT ![s] = FALSE]
  /\ updated' = [updated EXCEPT ![s] = clock]
  /\ audit' = [audit EXCEPT ![s] = @ + 1]
  /\ objectedAt' = [objectedAt EXCEPT ![s] = audit[s] + 1]
  /\ view' = [view EXCEPT ![a] = NoView]
  /\ UNCHANGED <<status, grade, bounds, codeVars, admittedAt, epoch, statement,
                 tickets, sources, negative, runVars, clock, names>>

(* A restore questions a skill that was active. *)
Restore(a) ==
  LET s == view[a].skill IN
  /\ view[a] # NoView
  /\ updated[s] = view[a].updated
  /\ archived[s]
  /\ audit[s] < MaxAudit
  /\ archived' = [archived EXCEPT ![s] = FALSE]
  /\ status' = [status EXCEPT ![s] = IF @ = "active" THEN "questioned" ELSE @]
  /\ updated' = [updated EXCEPT ![s] = clock]
  /\ audit' = [audit EXCEPT ![s] = @ + 1]
  /\ objectedAt' = [objectedAt EXCEPT ![s] = audit[s] + 1]
  /\ view' = [view EXCEPT ![a] = NoView]
  /\ UNCHANGED <<grade, bounds, codeVars, admittedAt, epoch, statement, tickets,
                 sources, negative, runVars, clock, names>>

(* Mutant: the time stamp alone decides whether the page is current. *)
RevalidateByStamp(a) ==
  LET s == view[a].skill IN
  /\ view[a] # NoView
  /\ status[s] = "questioned" /\ ~archived[s]
  /\ updated[s] = view[a].updated
  /\ status' = [status EXCEPT ![s] = "candidate"]
  /\ grade' = [grade EXCEPT ![s] = "Q2"]
  /\ updated' = [updated EXCEPT ![s] = clock]
  /\ audit' = [audit EXCEPT ![s] = @ + 1]
  /\ epoch' = [epoch EXCEPT ![s] = @ + 1]
  /\ view' = [view EXCEPT ![a] = NoView]
  /\ UNCHANGED <<archived, bounds, codeVars, admittedAt, objectedAt, statement,
                 tickets, sources, negative, runVars, clock, names>>

(* request_revalidation compares updated_at and the last event id. *)
Revalidate(a) ==
  LET s == view[a].skill IN
  /\ view[a] # NoView
  /\ status[s] = "questioned" /\ ~archived[s]
  /\ updated[s] = view[a].updated
  /\ audit[s] = view[a].audit
  /\ status' = [status EXCEPT ![s] = "candidate"]
  /\ grade' = [grade EXCEPT ![s] = "Q2"]
  /\ updated' = [updated EXCEPT ![s] = clock]
  /\ audit' = [audit EXCEPT ![s] = @ + 1]
  /\ epoch' = [epoch EXCEPT ![s] = @ + 1]
  /\ view' = [view EXCEPT ![a] = NoView]
  /\ UNCHANGED <<archived, bounds, codeVars, admittedAt, objectedAt, statement,
                 tickets, sources, negative, runVars, clock, names>>

Tick ==
  /\ clock < MaxClock
  /\ clock' = clock + 1
  /\ UNCHANGED <<skillVars, runVars, view, names>>

Next ==
  \/ \E r \in Runs, s \in Skills, c \in Codes, d \in BOOLEAN : Dispatch(r, s, c, d)
  \/ \E r \in Runs : \/ Record(r) \/ RepeatRunId(r) \/ Admit(r) \/ Refuse(r)
                     \/ Complete(r) \/ Recover(r)
  \/ CrashHandlers
  \/ Upgrade
  \/ \E s \in Skills, r \in Runs, t \in Tickets : Confirm(s, r, t) \/ Withdraw(s, r, t)
  \/ \E s \in Skills, r \in Runs : Negative(s, r)
  \/ \E a \in Admins, s \in Skills : Look(a, s)
  \/ \E a \in Admins : Leave(a) \/ Archive(a) \/ Restore(a) \/ Revalidate(a)
  \/ Tick

Spec == Init /\ [][Next]_vars
-----------------------------------------------------------------------------
(* What the skill library promises. *)

RowTypes ==
  /\ status \in [Skills -> Statuses]
  /\ grade \in [Skills -> Grades]
  /\ archived \in [Skills -> BOOLEAN]
  /\ bounds \in [Skills -> Kinds]
  /\ updated \in [Skills -> Nat]

CodeTypes ==
  /\ version \in [Skills -> Nat]
  /\ head \in [Skills -> VersionHead \cup {NoHead}]
  /\ observed \subseteq Observation
  /\ sources \subseteq Source
  /\ negative \in [Skills -> SUBSET Runs]

EventTypes ==
  /\ audit \in [Skills -> Nat]
  /\ admittedAt \in [Skills -> Nat]
  /\ objectedAt \in [Skills -> Nat]
  /\ epoch \in [Skills -> Nat]
  /\ statement \in [Skills -> [Runs -> Statements]]
  /\ tickets \subseteq Ticket

(* Whatever has left phase "new" carries a request; only such runs have rows. *)
RunTypes ==
  /\ phase \in [Runs -> Phases]
  /\ request \in [Runs -> Request \cup {NoRequest}]
  /\ rows \in [Runs -> 0..2]
  /\ good \subseteq Runs
  /\ \A r \in Runs : /\ rows[r] > 0 => phase[r] # "new"
                     /\ phase[r] # "new" => request[r] \in Request

(* The values the store, the history and the administrators' pages can hold: *)
(* every write of every handler stays within the schema.                     *)
TypeOK ==
  /\ RowTypes /\ CodeTypes /\ EventTypes /\ RunTypes
  /\ view \in [Admins -> Page \cup {NoView}]
  /\ clock \in Nat
  /\ names \in [Skills -> Skills]

(* An active skill is Q4, holds the pinned recipe under the fixed bounds, and *)
(* the run its latest version names as evidence was admitted through the      *)
(* local intake for that version: no path of create_candidate, feedback or    *)
(* archiving leaves the active label on other code or other evidence.         *)
ActiveIsAdmitted ==
  \A s \in Skills : status[s] = "active" =>
    /\ grade[s] = "Q4"
    /\ bounds[s] = "fixed"
    /\ head[s] # NoHead
    /\ head[s].code = Recipe
    /\ head[s].run \in CurrentSources(s)

(* A withdrawal, a second failure among the three latest runs, and a restore *)
(* from the archive are each followed by a new admission before the skill is *)
(* active again, in whatever order statements, feedback, archiving,          *)
(* revalidation and runs in flight commit.                                   *)
ObjectionsAnswered ==
  \A s \in Skills : status[s] = "active" => objectedAt[s] < admittedAt[s]

(* A recorded run is evidence of one skill under one validator, whoever      *)
(* writes it and under whichever normalisation: its handler, a recovery scan *)
(* that meets it again, or a scan after an upgrade.                          *)
OneSkillPerRun ==
  \A o, p \in observed : o.run = p.run /\ o.kind = p.kind => o.skill = p.skill

(* What is observed of one version of a skill is all the same code, also     *)
(* when runs of different code are written and rescanned out of order.       *)
VersionsAreOneCode ==
  \A o, p \in observed :
    o.skill = p.skill /\ o.version = p.version => o.code = p.code

(* A skill that could not be handed out becomes deliverable only in the      *)
(* commit that admits a further run of it: never by a restore, a statement,  *)
(* a revalidation or a candidate write.                                      *)
DeliveryNeedsAdmission ==
  [][\A s \in Skills : ~Deliverable(s) /\ Deliverable(s)' =>
       \E x \in sources' \ sources : x.skill = s]_vars

(* A revalidation acts on exactly the record its administrator was shown:    *)
(* whatever else committed since that page was read makes it stale, also     *)
(* when nothing moved the time stamp.                                        *)
RevalidationSawCurrent ==
  [][\A s \in Skills : epoch[s]' # epoch[s] =>
       \E a \in Admins : view[a] = Shown(s) /\ view'[a] = NoView]_vars

(* What request_revalidation says of itself: "A new independent dispatch and *)
(* receipt must follow this immutable epoch", and the change log: an old     *)
(* proof cannot restore trust.  The local intake compares nothing with the   *)
(* epoch, so a run dispatched before the request may still be admitted.      *)
(* But once a run of the current epoch is admitted, what is handed out       *)
(* should rest on a run of that epoch and not on the evidence that was       *)
(* called in question.                                                       *)
EvidenceFollowsEpoch ==
  \A s \in Skills :
    Deliverable(s) /\ (\E r \in CurrentSources(s) : request[r].epoch = epoch[s])
      => request[head[s].run].epoch = epoch[s]
=============================================================================
