# Verification of the simulation gateway

TLA+ models of the gateway (`src/app`) and of its executor (`src/executor`), the
TLC configurations that check them on small instances, and proofs, checked by
TLAPS, of the properties that matter most for every instance.

1. [Inventory](#1-inventory)
2. [Models](#2-models)
3. [Runs](#3-runs)
4. [Proofs](#4-proofs)
5. [Where the code and what is said of it differ](#5-where-the-code-and-what-is-said-of-it-differ)
6. [What is not modelled](#6-what-is-not-modelled)
7. [Plan](#7-plan)

To check a model: `tlc -config <name>.cfg MC<Module>.tla`. To check proofs:
`tlapm <Module>Proofs.tla`. `PROJECT.json` lists the components, the runs, for
each definition the lines of the code it stands for, and for each property a
mutant of the code (an operator marked "Mutant" in the module) that violates it.

## 1. Inventory

The gateway is one Python process: tools called by a language model platform,
a portal with its pages, and a local workflow. Tools run in threads, the portal
in the event loop, and everything durable is in SQLite files. It sends code to
the executor, a second container that runs one request at a time.

| Component | State | Operations | Interacts with |
|---|---|---|---|
| Skill store (`skill_store.py`, `skill_library_service.py`, `skill_api.py`) | `simulation_skills`, `skill_versions`, `skill_events`, `skill_feedback`, ... | create_candidate, feedback statements, negative feedback, archive and restore, revalidation, reads | both intakes, retrieval, administrators' pages |
| Fixed profile intake (`skill_local_profile.py`, `skill_local_catalog.py`, `scripts/skill_library/local_basic.py`) | `skill_local_sources` | record, verify_connection, bootstrap | history, skill store |
| Candidate intake (`candidate_intake.py`) | none of its own | prepare, complete, recover_pending | history, skill store |
| Execution tools (`tools.py`) | none of their own | run_jwave_code, run_jwave_code_with_retry | executor, history, intakes, error cache, language model |
| Dispatch (`execution.py`), executor (`executor/executor.py`) | a socket's queue, one tree of processes | POST /execute, deadline, kill, sweep | tools |
| Execution history (`dashboard.py`) | `executions` | record_execution, clearing, pages | tools, intakes, analysis |
| Single-use local reference (`skill_generation_decision.py`, `skill_local_profile.consume`, `skill_local_execution.py`) | decisions, consumptions, dispatches, completions | prepare, consume, bind, finish | skill store, executor, history |
| Error cache (`cache_store.py`, `llm.py`) | `error_fix_cache` | query, update | retry tool, local workflow |
| Model profiles (`model_profiles.py`) | profiles in memory | register, resolve, remove | portal, every model call |
| Local workflow (`local_workflow.py`) | one request | extract, reference, generate, run, correct, review, explain | language model, tools, references, history |
| Workflow client (`workflow_client.py`) | the run of a remote service | post, follow, give up, stop | Dify |
| Portal (`portal.py`), chat page (in `dashboard.py`) | sessions in the browser's storage, one conversation per tab | send, show an answer, go to, start and delete a session | either backend |
| Runtime registry (`runtime_registry_service.py`, `scripts/validation/runtime_*.py`) | `runtime_packages`, `runtime_audit`, `runtime_dispatch_completions` | register, approve, retire; contract of a dispatch, recheck, receipt, use of a receipt | dispatch, history, analysis |
| Signed cross-host path (`skill_authority.py`, `skill_host_intake.py`, `skill_fixed_*.py`, `skill_reference_*.py`, `host_observer/`) | root statements, dispatches, verifications, admissions, capsules, consumptions, reuses | state, dispatch, observe, record, admit, register, hand off, reuse | skill store, executor |
| Skill retrieval (`skill_retrieval.py`) | none | search | skill store, decisions |
| Physics checks (`physics_*.py`, `initial_pressure_validation.py`, `static_check.py`, `analysis.py`) | none | judgements of a trace or a code text | intakes, tools |

What is hard in them, and what makes each correct:

- **Skill library.** Runs take seconds, so several are in flight while users
  send feedback and administrators act on pages read earlier; the two intakes
  of one run are two transactions; the gateway may die between a recorded run
  and its intake; a later recovery scan meets every recorded run again, perhaps
  after a release that normalises parameters differently; `run_id` is a
  caller's argument and not unique. *Correct* means: only an admitted run of
  the pinned recipe makes a skill active or deliverable, every objection needs
  a later admission, a run is evidence of one skill, a version is one code, and
  an administrator acts on what was shown.
- **Single-use reference.** Four transactions, an HTTP call, and no lock between
  them: the skill may be withdrawn or superseded, the thirty seconds may pass,
  the clock may be set back, the answer may be lost, another caller may present
  the same pointer, the gateway may die. *Correct* means: one execution, one
  final outcome, of the version that was listed, delivered and is still offered.
- **Executor.** User code forks, detaches with `setsid`, orphans its children
  and exits while it is being killed. *Correct* means: nothing of it is left
  when the next request starts, and no request blocks the queue for ever.
- **Error cache.** A row is read in one transaction and written in another, by
  several requests at once. *Correct* means: trust is earned, three failures in
  a row are doubted, five retire the entry, and an outcome is recorded for the
  error it belongs to.
- **Model profiles.** The clock is read before the lock; the table is bounded.
  *Correct* means: no key is served after its removal or its time, the table
  keeps its limit, and what gives way is what would have ended first.
- **Local workflow, workflow client.** Any of a dozen calls may fail after an
  earlier one had effects; the reader leaves while a thread still executes; a
  remote run ends while it is being stopped; the history is cleared between an
  execution and its lookup. *Correct* means: one stream, one result at most, an
  end; a success only for a run that passed; a bounded number of executions; no
  known task left running.
- **Chat page.** An answer arrives while the user is in another session, has
  deleted this one, or has it in two tabs. *Correct* means: what belongs to a
  session stays there, an answer is kept, a deleted session stays deleted.
- **Runtime registry.** The package directory and the approval may change between
  any two reads of a dispatch, attempts of one retry share a run identifier, and
  a receipt outlives the approval. *Correct* means: a receipt is eligible only if
  one approval stood all the time, and is used only while it still stands, for
  the output it is about.
- **Signed path.** Five transactions on two hosts, under an owner's root that is
  renewed, revoked or expires at any moment between them, and expires also inside
  one, after its look at the clock and before its commit; others object to,
  archive, revalidate or supersede the skill meanwhile. *Correct* means: nothing is
  granted without a statement that was in force when the transaction looked, on a
  late observation, or on evidence from before a revalidation; and a reuse was bound
  before it ran.

## 2. Models

| Module | Models | Extended by |
|---|---|---|
| `SkillLifecycle` | skill store, both intakes, history and the run handlers around them | `MCSkillLifecycle`, `SkillLifecycleProofs` |
| `LocalReference` | decisions, their consumption, the bound execution and its outcome, with the library as its environment | `MCLocalReference`, `LocalReferenceProofs` |
| `OneShot` | the promise `LocalReference` implements | |
| `Executor` | the executor, its clients and the processes of user code | `MCExecutor`, `ExecutorProofs` |
| `ErrorCache` | the cache and the two correction loops that feed it | `MCErrorCache`, `ErrorCacheProofs` |
| `ByokSessions` | the table of temporary model profiles | `MCByokSessions`, `PortalProofs` |
| `RuntimeRegistry` | approvals, the dispatches that rely on them, their receipts and the analyses that use those | `MCRuntimeRegistry`, `RuntimeRegistryProofs` |
| `HostAuthority` | the signed path: two hosts, the owner, the coordinators | `MCHostAuthority`, `HostAuthorityProofs` |
| `RootedGrants` | the owner's ledger, which `HostAuthority` implements | |
| `EventStream` | the promise between the gateway and the page | |
| `ChatStreams` | both backends of the chat, which implement `EventStream` | `MCChatStreams`, `ChatStreamsProofs` |
| `ChatPage` | the chat page, built on `EventStream` | `MCChatPage`, `PortalProofs` |

In every model an action is one atomic piece of the code: a SQLite transaction
(the store opens them with `BEGIN IMMEDIATE`), a section under a lock, a system
call, one append to the history. Between actions anything else may happen.

### SkillLifecycle

A skill is the fingerprint of a reviewed fixed profile. Its row is `status`,
`grade`, `archived`, `bounds` (whether its preconditions are those of the fixed
profile) and `updated`; its versions are `version` and `head` (code and evidence
run of the latest), `observed` (every run it ever saw, with the version, code and
validator) and `sources` (the rows of the local intake). `audit` is the number of
its last event; `admittedAt`, `objectedAt` and `epoch` say where the admission,
the objection and the revalidation are among the events. A run has a `phase` (how
far its handler is), a `request`, the number of its history `rows`, and is in
`good` if its row shows a clean exit and passing physics; that verdict, a
floating-point judgement, is a free choice when the row is written. The page an
administrator has open is `view`.

| Action | Code |
|---|---|
| `Dispatch`, `Record`, `Admit`, `Refuse`, `Complete` | `run_jwave_code`: execute, `record_execution`, `skill_local_profile.record`, then `candidate_intake.complete` |
| `RepeatRunId` | a second history row under a caller's `run_id` |
| `CrashHandlers`, `Recover`, `Upgrade` | restart, `recover_pending`, a release with other parameter names |
| `Confirm`, `Withdraw`, `Negative` | `record_feedback_statement`, `record_negative_feedback` |
| `Look`, `Leave`, `Archive`, `Restore`, `Revalidate` | `read_detail`, `set_archived`, `request_revalidation` |

`Observe`, `Acceptable` and `NewVersion` are the shared part of
`create_candidate`, which `Admit` calls in its own transaction and
`CandidateWrite` in another. `Deliverable` is `verify_connection`. Simplified: a
feedback is given about a run the skill has seen (not through consistency cases
or signed dispatches), the feature switches of the local path are on, and a
request identifier of a statement is a pair of a skill and a ticket.

### LocalReference and OneShot

The tables are `decision`, `consumption`, `dispatch`, `completion` and the row of
`history`; `stage` and `holds` say where each caller is. The library is what the
two reads of it return, `listed` and `offer`, and changes at any moment
(`LibraryChanges`); SkillLifecycle says how it really changes. The clock may go
back (`Tick`). `Bind` is `_bind`, `Send`, `Answer` and `Lose` the call of
`_execute_code`, `Verify`, `Reject` and `Fail` the two uses of `_finish`.
`OneShot` has for each decision one life, `none`, `open`, `fallback` or
`delivered`, `running`, `verified` or `failed`, and at most one execution;
`Life` reads it from the tables, and `ImplementsOneShot` says that every step of
`LocalReference` is a step of `OneShot` or leaves it unchanged. One request (one
scenario, one set of parameters) is modelled.

### Executor

`client` and `backlog` are the requests and the socket; `phase` is where the only
thread of the server is; `state`, `parent`, `born` and `group` are the process
table. The server is process 1 of its namespace and a subreaper, so `Die` gives it
the children of whatever dies. `KillGroup`, `List`, `Kill`, `Reap`, `LastReap`
and `LastLook` are the steps of `_kill_process_group` and
`_terminate_descendants`, one system call or read of `/proc` each; `Fork`,
`Setsid`, `Exit` and `Wait` are user code, at any moment. Identifiers are used
again after they are reaped. A kill takes effect at once; a real process that is
still dying runs no code of its own, is still listed, and is met again by the
next round. `List` reads the children from the kernel's file; where the kernel has
no such file `_direct_child_pids` finds none (`executor.py:103`), and the sweep does
nothing: that kernel is not modelled. A client gives up without the server noticing
(`GiveUp`), and one that never sends its body is left out (section 3); `Restart` is
the container's.

### ErrorCache

A row is its counts of uses, successes and failures in a row; the hint, a text, is
left out. A request (`Begin`) is one of the retry tool or of the
local workflow; `job` holds how many corrections it has left, the failure its
present code was written for (`fixes`), and the error its outcome will be recorded
for (`credit`). `Select` and `Write` are the two halves of `_update_cache`;
`WriteRaises` is a locked database or a row inserted meanwhile. `Fix` is
`_llm_fix_code` or `fix_code`, `NoFix` its failure. `fails`, `writes`, `wins` and
`lost` count what really happened, for the properties only.

### ByokSessions

`expires` is the table. `Enter` reads the clock; `Register` and `Resolve` are what
`register_session_profile` and `_resolve_session` do under the lock, with the
clean-up `Kept`; `Remove` is the user's, `Restart` the gateway's.

### RuntimeRegistry

`disk` is the package directory, which may be replaced between any two reads
(`Replace`); `row` and `audit` are the registry of one approval; `checked` is the
package an operator's approval has read. A dispatch goes through `Begin`,
`ReadPackage`, `Post`, `Answer` or `Lose`, `Recheck`, `Complete` and `Note`, with
`held` the package as read before and after, `before` the approval it captured and
`window` whether it matched again afterwards. Hashing and checking a package is one
read whose result is the package, or none. An analysis (`Resolve`, `Verify`) finds
the history row of an output and asks whether the receipt of its dispatch may be
used. `Matched` has two reads of the package and one of the row; `MatchedUnread`
is a helper of a mutant. The receipts keyed by run in `runtime_completion.py` are
an offline prototype that nothing in the gateway calls.

### HostAuthority and RootedGrants

The store's tables are `root`, `dispatches`, `receipts`, `admissions`, `capsules`,
`decisions`, `handoffs` and `executions`; a skill is its `life`, `archived`,
`version`, whether it is the `pinned` recipe, the version each run is associated
with (`found`), the runs that were objected to, and its last revalidation
(`asked`). A run's coordinator is at a `stage` of its `plan`:

| Action | Code |
|---|---|
| `State`, `Sign`, `RecordDispatch` | `record_root_statement`, the context signed, `record_dispatch` |
| `Post`, `Answer`, `Abandon`, `Again` | `forwarder`, its lost answers, a replay of the pipeline |
| `Check`, `Store`, `Number`, `Record`, `Admit` | `skill_fixed_pipeline.accumulate` and the two transactions it ends in |
| `Register` | `skill_reference_registry.register` |
| `Decide`, `HandOff`, `FallBack`, `ObserveReuse` | `prepare`, the consumers, `observe` |
| `Begin`, `Rollback` | `BEGIN IMMEDIATE` and `time.time_ns()` of a granting transaction, and its refusal |
| `Object`, `Confirm`, `Archive`, `Revalidate`, `Supersede`, `AdmitLocally` | what others do to the skill |

Six transactions grant something: `record_dispatch`, `record`, `admit`, `register`,
`consume` and `observe`. Each takes the write lock, reads the clock, verifies at
length and commits, in two actions here: `Begin` sets `writing`, the holder of the
lock and the clock it read, and `RecordDispatch`, `Record`, `Admit`, `Register`,
`HandOff` or `ObserveReuse` commits with the checks made at `writing.at`. While
`writing` is set no other writer moves (`Unlocked`), as under `BEGIN IMMEDIATE`, but
the clock does, so a root, a policy or a decision may run out before the commit.
They differ in what they do about it:

- `record` and `admit` inspect the root again, at the clock of that moment, as the
  last thing before the commit (`skill_host_intake.py:163`,
  `skill_fixed_activation.py:76-79`): `Record` and `Admit` ask `Authorised(r, clock)`.
- `record_dispatch` with a reference, and `observe`, read the clock once more in
  `read_committed_context` (`skill_reference_consumer.py:148`): `Binds` and
  `Observable` judge the reference at any clock since the first.
- `register` and `consume` look once, and nothing of what these four were granted
  under is looked at before their commit: **the root may have expired by then.**

So a grant is judged at the clock its transaction read, not at its commit, and that
is all that is claimed. `RootedGrants` has the statement, the clock that the one
writer has read (`looked`) and the set of grants: each under the latest statement,
approved and unexpired at `looked`, once, none after a revocation; those `Inspected`,
receipts and admissions, unexpired when they are granted too. `grants` reads them
from the tables. The time of a receipt and of a policy is the clock at `Begin`,
which is what the code stores.

Simplified: a transaction that would be refused at the clock it reads is not begun,
as it leaves no trace; a `Rollback` lets the coordinator try again, which the code
does not. `Listed` is over every skill, where `_shortlist` takes one scenario and
three at most: every skill of the model is of the decision's scenario, and the limit
is not reached. `Store` does not refuse a candidate for other preconditions or
evidence than those stored, which allows more than the code does. A withdrawal is
lifted by a later confirmation (`Confirm`), a negative feedback is not.

### EventStream, ChatStreams and ChatPage

`EventStream` says what the page may rely on: a stream opens, has one result or
breaks, and ends. In `ChatStreams` a request's `job` is its `phase` and what its
handler knows: the corrections left, the executions it caused, whether the last
run passed and is in the history, whether it was the delivered reference, whether a
thread is still executing for a reader that left (`late`), whether the service's
task is `known` and what its `stop` came to, and how the stream ended (`said`).
Each stage of `local_workflow.workflow_events` and of `workflow_client` is an
action with its ways to fail: `ModelFails`, `ExecuteRaises`, `LookupRaises`,
`Loses`, `GivesUp`. An execution or its analysis that raises becomes an error result
if the exception is one that `local_workflow.py:370` catches, and breaks the stream
otherwise; its row may be in the history by then. `Leave` is a reader that goes,
`LeaveStop` one that goes while the service is being asked to stop, so that nobody
learns whether it did; `LateRun` is the thread that goes on,
`TaskEnds` the service, `Clear` an administrator who empties the history.
`streams` is the refinement mapping: `KeepsThePromise` is `Events!Spec` with its
liveness.

In `ChatPage` a session is its list of messages, its requirement (the set of the
messages merged into it) and whether it has a title; `stored` is the browser's
list, `page` what each tab shows, `ask` the locals of `ask()` for each message: the
tab, the session it was sent in, the slot its answer will be written to. A handler
runs to its end or to the first error it raises (`RenderRaises`, `PersistRaises`);
between two of them the user may do anything else. The page and the stream step
jointly: `Land` with `Events!Results` or `Events!Breaks`, `Close` and a reader that
goes away with `Breaks`. `entered` and `shared` record, for the properties, where a
tab came with an answer due and what two tabs had at once.

## 3. Runs

Deadlock checking is off where the system may really stop: every run has been
executed, every profile issued, or the bound of a counter is reached. It is on for
`LocalReference`, whose library and clock always move.

| Run | Instance | Question |
|---|---|---|
| `skill_trust` | 1 skill, 2 runs, the recipe and one other code, 1 administrator, 2 tickets, one repeated run id | `ActiveIsAdmitted`, `ObjectionsAnswered`, `DeliveryNeedsAdmission`, `RevalidationSawCurrent`, `TypeOK`: is what is active and handed out exactly what was admitted after every objection, and does a revalidation act on what was shown |
| `skill_intake` | 2 skills, 3 runs, the recipe and two other codes, an upgrade, no administrators | `OneSkillPerRun`, `VersionsAreOneCode`: does evidence stay in its place however runs are stored and rescanned |
| `local_reference` | 2 callers, 2 decisions, 2 versions | `ImplementsOneShot`, `OneReference`, `VerifiedIsCurrent`: one execution, one outcome, of the right version |
| `executor` | 2 requests, 3 process identifiers, 4 starts | `NothingSurvives`, `EveryRequestEnds`: is the tree cleared, and does every request end |
| `error_cache` | 2 requests, 1 error, 6 recordings | `NoInventedTrust`, `DoubtedUnlessLost`, `OutcomeOfItsFix`, `TypeOK`: what races of recordings can and cannot do |
| `byok_sessions` | 4 profiles, 2 threads, a table of 2 | `TableBounded`, `ServedWasValid`, `SoonestGivesWay`: stale clocks and a full table |
| `runtime_registry` | 2 dispatches of one run id, 3 packages (two of one contract with different evidence), 1 operator, 1 analysis, 2 outputs | `ApprovedOnce`, `ReceiptStood`, `UseIsCovered`, `UseIsOfOutput`, `TypeOK`: does an eligible receipt rest on one approval, and is it used only while that stands and for its own output |
| `host_authority` | 2 coordinators, 1 skill, 1 decision, 2 statements, 1 change by others | `EvidenceInWindow`, `HandoffWasAdmitted`, `ReuseWasBound`, `NothingOnStaleEvidence`, `TrustNeedsStanding`, `ImplementsRootedGrants`, `TypeOK`: is anything granted that the root at the clock its transaction read, the window or a revalidation excludes |
| `chat_streams` | 2 messages, 2 corrections, either backend | `KeepsThePromise`, `SuccessIsEarned`, `EffortBounded`, `NoTaskLeftBehind`, `RunsDown`: does every stream keep its promise, whatever fails, and can a request go in circles |
| `chat_page` | 2 tabs, 2 messages, 2 sessions | `IsolatedUnlessEntered`, `AnswersKept`, `DeletedStaysDeleted`, `TypeOK`: what a handler between two events of an answer can and cannot do |
| `skill_epoch`, `chat_isolation` | | violations, section 5 |

Bounds, and why they are enough for these questions:

- `MaxClock` ends the clock. Stamps only matter by their order: `updated_at` has a
  resolution of a second, so equal stamps are the interesting case and one tick
  gives both equal and different ones. For profiles, `TTL = 2` and three ticks let
  a profile outlive, meet and miss a stale clock. For decisions, `TTL = 1`.
- `Limit = 2` stands for the 128 profiles of the table: the clean-up compares with
  the limit and drops one, and two profiles are the smallest table with a choice.
- `MaxRepeats = 1` run identifiers are used twice. One ambiguous run among two is
  enough to admit, repeat and rescan in every order.
- `ObjectionsAnswered` is about the latest three distinct runs of a skill; with two
  runs that window is never full. The theorem `ObjectionsHold` has no such bound.
- `MaxAudit` stops only archiving and restoring, which could go on for ever, after
  the fourth event of a skill; everything else is bounded by runs and tickets.
- `MaxForks = 4` starts of processes: a root, a child that detaches, a grandchild
  that is orphaned while its parent is being killed, and the next request's root.
  The proof of `NothingSurvives` has no bound.
- `MaxRetries = 2` corrections are `MAX_RETRIES` of the workflow; the tool allows
  up to seven, which repeat the same steps. `MaxWrites = 6` recordings reach the
  fifth failure in a row and the recreation of the entry after it.
- `Window = 0`, root lives of 1 and 2, `DecisionLife = 1` and one tick: a window, a
  decision or a root can each be over while another still holds, and the tick can
  come while a transaction holds the lock. `MaxRevision = 2`
  statements are an approval and its renewal or revocation, `MaxChanges = 1` one
  thing done by others. Two coordinators are one that produces and one that
  reuses, or two that compete; that no third run reuses the same handoff is beyond
  this instance and left to the theorem `AuthorityReuseBound`. A plan is signed
  under the latest statement, and one to reuse only for a decision with a handoff:
  others end at their first check.
- Two messages and two sessions for the page: one answer that lands where another
  is due. That a hole of an array is stored as null and then breaks drawing needs
  three messages; the instance with one tab and three was checked as well.
- `MaxSessions` sessions are ever created; deleting and starting go on until then.
- Symmetry is used for tabs, dispatches, coordinators, skills, callers, decisions,
  versions, handles, threads, workers, tickets and the codes other than the recipe,
  which the modules only compare for equality, and in no run with a liveness property. The runs of the skill
  library are not symmetric: the code orders run identifiers.

Fairness. `EveryRequestEnds` and `KeepsThePromise` need it. `FairSpec` of `Executor`
adds weak fairness of `Steps`, the steps of the server's thread, each of which is
enabled until it is taken (`Deadline` because `process.wait` has a timeout,
`RootEnds` and `KillGroup` because a killed process ends). Clients and user code
are not fair: they may stop or go on at will. `Accept` takes a whole request in one
fair step, but `rfile.read` (`executor.py:248`) has no timeout: a client that
announces a body and does not send it stops the only thread for as long as it
stays, so `EveryRequestEnds` assumes clients that send what they announce; the
gateway's does. That user code starts finitely many processes is an assumption,
which only the process and CPU limits of the container back.
`Spec` of `ChatStreams` has weak fairness of `Serve(r)`, the gateway's own steps for
a request, each of which the code bounds: a call of the model by the read timeout
and the size limit of `model_client`, the executor by the timeout of the request,
the service's stream by its deadline of 180 s. Readers, the service and
administrators are not fair, and nothing of the page is: it may stay closed, and a
coordinator of the signed path may die anywhere.

## 4. Proofs

All theorems hold for every value of the constants that satisfies the named
assumption of the module (`LifecycleAssumption`, `ReferenceAssumption`,
`ExecutorAssumption`, `CacheAssumption`, `SessionAssumption`,
`RegistryAssumption`, `AuthorityAssumption`, `StreamAssumption`): these say that
bounds are natural numbers, that run identifiers are numbers, that the recipe is
a code, and that the values for "nothing" differ from the others. TLC evaluates
them in every run. `PageAssumption` says that messages are numbered from 1
and that the value for "nothing" is no session, page or request. `PortalProofs` is about two
modules, so the specification of `ByokSessions` is named `SessionSpec`, its parts
`SessionInit` and `SessionNext`.

| Module | Theorem | Says |
|---|---|---|
| `SkillLifecycleProofs` | `TypeCorrect`, `ActiveAdmitted`, `ObjectionsHold`, `RevalidationCurrent`, `DeliveryAdmitted`, `EvidenceOfOneSkill`, `VersionsKeepCode` | `TypeOK`, `ActiveIsAdmitted`, `ObjectionsAnswered`, `RevalidationSawCurrent`, `DeliveryNeedsAdmission`, `OneSkillPerRun`, `VersionsAreOneCode` |
| `LocalReferenceProofs` | `ReferenceTypes`, `ReferenceKept`, `VerifiedCurrent`, `Implements` | `TypeOK`, `OneReference`, `VerifiedIsCurrent`, `ImplementsOneShot` |
| `ExecutorProofs` | `ExecutorTypes`, `TreeCleared` | `TypeOK`, `NothingSurvives` |
| `ErrorCacheProofs` | `CacheTypes`, `TrustEarned`, `OnlyRacesKeep`, `OutcomesCredited` | `TypeOK`, `NoInventedTrust`, `DoubtedUnlessLost`, `OutcomeOfItsFix` |
| `PortalProofs`, of `ByokSessions` | `ProfileTypes`, `ProfilesBounded`, `ServedValid`, `SoonestFirst` | `SessionTypeOK`, `TableBounded`, `ServedWasValid`, `SoonestGivesWay` |
| `PortalProofs`, of `ChatPage` | `PageTypes`, `DeletedForGood`, `SessionsStayApart`, `AnswersStay`, `StreamsAreRead` | `TypeOK`, `DeletedStaysDeleted`, `IsolatedUnlessEntered`, `AnswersKept`, the reader's side of `EventStream` |
| `RuntimeRegistryProofs` | `RegistryTyped`, `RegistryApprovesOnce`, `RegistryReceiptStood`, `RegistryUse`, `RegistryUsesOwnOutput` | `TypeOK`, `ApprovedOnce`, `ReceiptStood`, `UseIsCovered`, `UseIsOfOutput` |
| `HostAuthorityProofs` | `AuthorityTyped`, `AuthorityEvidence`, `AuthorityHandsOutAdmitted`, `AuthorityReuseBound`, `AuthorityNothingStale`, `AuthorityNeedsStanding`, `AuthorityImplementsLedger` | the seven properties of `host_authority` |
| `ChatStreamsProofs` | `StreamsTyped`, `StreamsEarned`, `StreamsBounded`, `StreamsLeaveNothing`, `StreamsRunDown`, `StreamsKeepOrder` | `TypeOK`, `SuccessIsEarned`, `EffortBounded`, `NoTaskLeftBehind`, `RunsDown`, the safety part of `KeepsThePromise` |

None of the invariants is inductive alone. What carries them:

- **Trust** (`TrustInv`). `ActiveIsAdmitted` survives a candidate write only
  because that write cannot reach a skill of the local intake. The strengthening
  is that the bounds a skill was created under never change and agree with every
  observation and every source of it (`ObservedInv`), and that a skill under the
  fixed bounds holds the recipe and admitted evidence whatever its status
  (`FixedInv`).
- **Audit** (`ObjectionInv`, `ViewInv`). An objection is never later than the last
  event, and an admission is the last event when it commits, hence later. For the
  administrators: every change of anything on the page moves the number of the
  last event (`RecordMovesAudit`), so a page with the latest number is current;
  a comparison of `updated_at` alone would not do.
- **Evidence** (`EvidenceInv`). That a run is evidence of one skill holds because an
  admission looks at everything recorded for the run. That a version is one code
  does not follow from the step alone: no observation is of a version to come, and
  one of the latest version saw the code in the skill's row (`NumberedInv`), so a
  new version starts without observations and an old one is never added to.
- **Single use** (`RefInv`). The four tables constrain each other (`TablesInv`), a
  caller past `_bind` knows its decision has no outcome and how often it was sent
  (`HoldsInv`), and no other caller is past `_bind` with the same decision
  (`AloneInv`). With it each step maps to one step of `OneShot` or to none.
- **Executor** (`ExecutorInv`). The sweep looks at the server's own children only.
  Every process hangs from the server by living parents that were started before
  it (`TreeInv`); if the server has no child, the process started first among
  those left would have no parent, so none is left.
- **Error cache** (`CacheInv`). What a row claims is claimed by every copy of it
  that a request holds, totals only grow, and as long as no write replaced
  something unread, the row's failures in a row are the real ones (`StreakInv`).
  An execution of the local workflow whose outcome is pending runs the code that
  was written for it (`CreditInv`).
- **Profiles** (`ProfileInv`). The clean-up leaves less than the limit. A step
  registers at most one handle (`OneRegistrar`), and what it sends away is what the
  clean-up ranks first by expiry (`GivesWay`), at the clock read before the lock.
- **Registry** (`IInv`). What a dispatch carries is tied to the registry: the
  approval it captured is the only one there ever was, and a window that matched
  saw the runtime of that contract (`Carried`); a resolved history row is that of a
  dispatch that is over (`Resolved`).
- **Signed path** (`IInv`). The order of a coordinator's stages (`Passed`), a
  transaction not committing before the clock it read (`Timed`), statements that
  only grow (`Rooted`), a policy following an admission of its run (`Held`), each
  table keeping its first row for a key (`Filed`), and a reuse bound by its dispatch
  (`Bound`). The refinement (`AuthorityImplementsLedger`) then needs, for each of the
  six kinds of grant, that its subject is new and its revision the one in force at
  the clock the transaction read; for a receipt and an admission `Authorised` at the
  commit gives the rest. It does not say that a dispatch, a policy, a handoff or a
  reuse is committed under an unexpired root, which the code does not ensure.
- **Streams** (`Inv`). For one record: how the executions follow from the
  corrections left (`Counted`), which flags a phase allows (`Flagged`), and what the
  handler knows of the service's task (`Matches`). Each step gives its request
  another good record and leaves the others alone (`OneRecord`, `OneTask`), and
  maps to one step of `EventStream` or to none. `RunsDown` needs `Counted`: a rank
  that counts the corrections left only falls if none is taken below zero.

- **Page** (`PageInv`). What is shown and what is stored are good in the same sense
  (`Good`): in a session that was never entered every message and the requirement
  were sent there (`Proper`), and if it was never shared either, every answer
  written there is still in it. An answer that is due has a slot with its own
  message where its tab is, unless that session is entered (`DueInv`); two tabs on
  one session make it shared (`SoleInv`); no session is used before it is made
  (`MadeInv`). So an answer overwrites only its own slot, and a page that stores what
  it shows loses nothing (`StoreInv`, `ShowInv`). For the stream, a tab waits exactly
  as long as it is open (`ReadInv`).

The type invariants of `LocalReference`, `Executor`, `ByokSessions` and `ChatStreams`
are proved and no longer listed in a run.

Only model-checked: `EveryRequestEnds` and the liveness of `KeepsThePromise`,
since liveness under fairness is outside what the prover supports. So are
induction over data and recursive operators; none of the proved modules uses
them. `RunsDown` is the part of the stream's liveness that is safety, and is
proved: a stream that is served ends after boundedly many steps; that it is
served is the fairness of section 3.

## 5. Where the code and what is said of it differ

Two runs violate one property each, which states what a comment or a document says.

1. **Questioned evidence is delivered again after a revalidation** (`skill_epoch`,
   `EvidenceFollowsEpoch`). `verify_connection` (`skill_local_profile.py:158`) takes
   the source with the smallest run identifier and requires it to be the one the
   version names, so after the admission of a fresh run the old evidence is what is
   delivered. `request_revalidation` says "A new independent dispatch and receipt must
   follow this immutable epoch" (`skill_store.py:1350`), the changelog
   (`docs/CHANGELOG.md:2180`) that an old proof cannot restore trust.
2. **An answer lands in another session** (`chat_isolation`, `SessionIsolation`).
   `ask()` keeps the index of its message only and writes to whatever conversation
   is shown when an event arrives; the comments of the page and of `chat_api` say
   that sessions are isolated. `IsolatedUnlessEntered` is what remains true: moving
   while an answer is due is the only way to mix two sessions.

Observed while modelling, without a run of their own:

- The local intake (`skill_local_profile.record`, line 131) only asks that the status
  is `candidate`, so a run dispatched before a revalidation request is admitted after
  it and alone makes the skill active again, against the same sentence of
  `request_revalidation`. `ObjectionsAnswered` holds all the same: it asks for a later
  admission, not for a later run. The signed path does compare the dispatch with the
  request (`NothingOnStaleEvidence`).
- `_update_cache` reads and writes absolute counts in two transactions, so of two
  recordings at once one is lost and an entry can survive its fifth failure in a
  row, though the comments say it is deleted at five. `DoubtedUnlessLost` is what
  remains true, and is proved: only a recording written over another does this.
- The update stores the latest code as the hint whether it worked or not; one
  failure does not end the trust in a row with three successes, and the prompt
  presents that code as a known fix to be applied directly.
- `_resolve_session` runs the clean-up of an insertion; with 128 live profiles each
  model call drops the profile nearest to its expiry, possibly the one in use.
- Generic code whose declared parameters are those of the plane-wave profile takes
  its fingerprint; later fixed admissions are then refused as a conflict of
  preconditions.
- The retry tool keeps the last signature it met: after a failure without one, an
  outcome is recorded for an error the code was not written for.
- With the wall clock set back below a registration, neither outcome of a single-use
  reference can be recorded until it has caught up.
- Code that forks faster than the sweep kills is stopped by the container's limits
  only.
- `record_dispatch`, `register`, `consume` and `observe` look at the root once, right
  after they begin, and grant what they grant although it expires before they commit;
  `record` and `admit` inspect it again. No comment or document promises the second
  look for the four. Only time can do this, to the statement, a policy or a decision:
  the lock keeps renewals and revocations out.
- Renewing a root makes all earlier receipts and policies unusable, and
  `source_runner` registers a policy only if the same call admitted the run.
- `verify_completion_for_consumption` looks at the registry again but not at the
  package on disk, whose drift it names.
- The report of a corrected run shows `first_code`; a run that a thread finishes
  after its reader left is recorded, an outcome pending for the cache is not.

## 6. What is not modelled

- Everything numeric: the physics checks, the trace analysis and the static check
  judge floating-point data or code text; models have their verdict as a choice.
- Of the signed path: signatures and container identity (a document is authentic and
  about the pinned recipe, or it is not in the model), the derivation walk,
  approvals for one generation, the limit of three capsules, several policies for
  one run, the two-second budgets, the switches of the configuration (constants of
  the process), a clock that is set back, and the batches of consistency cases
  (`controlled_*.py`, `skill_consistency_*.py`). Freshness of an observation (300 s)
  follows from the window of at most 90 s.
- Of the chat: prompts, parsing and wording, requests refused with 400 and answers
  that are not streamed, the order, time stamps and drawing of the session list. A
  handler of the page is one step although another tab could interleave with its
  accesses to the storage; the session shown after a deletion is any that remains.
  Two registrations of a temporary profile at once, by the settings page, leave a
  handle that is never revoked; that page is not modelled.
- Of the registry: the contents of a package and of its evidence.
- Retrieval and statistics: reads. The other pages of the portal and
  the dashboard: HTML over the state of other components.
- Schema migrations, backups, retrieval logs and the derivation walk of the skill
  store; resource limits, the work directory and output truncation of the
  executor; the wording of prompts and signatures of the error cache.
- Scripts that generate workflow graphs, run experiments or install the system.

`PROJECT.json` lists each with its reason, and the hazards that no property
covers, with the reason.

## 7. Plan

Done, in this order, the most important behaviour first:

1. `SkillLifecycle`: what may be active and delivered.
2. `LocalReference` with `OneShot`: what happens to what is delivered.
3. `Executor`: what happens to what is sent.
4. `ErrorCache`, `ByokSessions`: the tables that requests share.
5. `RuntimeRegistry`: what an approval covers.
6. `HostAuthority` with `RootedGrants`: the signed path.
7. `ChatStreams` and `ChatPage` with `EventStream`: what a user is told.

Left, of the models: the batches of consistency cases on the signed path and the
feedback about them; the recovery cursor of `recover_pending`; the derivation walk
of the store and the decision tables of the physics gate as functions, compared with
a reference definition over small inputs, by TLC only.

Theorems still worth proving: the rank arguments behind the two liveness properties,
as far as they are safety. `RunsDown` is the first of them; the other is that the
executor's sweep runs out of processes, for which a kill that takes time must become
a step of its own. Then the invariants of the models above, when they are written.
