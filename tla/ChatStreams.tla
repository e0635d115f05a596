---------------------------- MODULE ChatStreams ----------------------------
(***************************************************************************)
(* The gateway's answer to one chat message is a stream of events: some of *)
(* progress, then at most one result.  The portal first merges the message *)
(* into the requirement it came with, then one of two backends serves it:  *)
(*                                                                         *)
(*   local  the stages of local_workflow run in the gateway: the model     *)
(*          extracts the parameters, a delivered reference is executed or  *)
(*          code is generated, executed and corrected, the model reviews;  *)
(*   dify   workflow_client posts the message to a workflow service once   *)
(*          and follows the run of the service, which it asks to stop if   *)
(*          it gives the stream up.                                        *)
(*                                                                         *)
(* A call of the model is one step that succeeds or not; what it says is   *)
(* left out.  The correction cache is in ErrorCache, the execution of a    *)
(* reference in LocalReference, the profile of a call in ByokSessions.     *)
(***************************************************************************)
EXTENDS Naturals

CONSTANTS
  Requests,    \* messages sent
  MaxRetries   \* MAX_RETRIES

ASSUME StreamAssumption == MaxRetries \in Nat

VARIABLES
  backend,  \* config.ORCHESTRATION_BACKEND, read at start
  job,      \* what the gateway knows of each request
  task      \* the service's run for it

vars == <<backend, job, task>>

LocalPhases  == {"extract", "reference", "lookup", "generate", "execute", "fix",
                 "review", "explain"}
RemotePhases == {"post", "stream", "stopping"}
Phases       == {"unsent", "merge", "closed"} \cup LocalPhases \cup RemotePhases

(* A task of the service. *)
Tasks == {"none", "running", "succeeded", "failed", "stopped"}

(* left: corrections still allowed; runs: executions it has caused; listed:  *)
(* the last is in the history; passed: _passed of it; direct: it was the     *)
(* delivered reference; late: a thread still executes for a reader that left;*)
(* known: the task's id was received; said: how the stream ended.            *)
Job == [phase : Phases, left : Nat, runs : Nat,
        listed : BOOLEAN, passed : BOOLEAN, direct : BOOLEAN, late : BOOLEAN,
        known : BOOLEAN, stop : {"not_needed", "unconfirmed", "requested"},
        said : {"nothing", "succeeded", "error", "broken", "gone"}]

Unsent == [phase |-> "unsent", left |-> MaxRetries, runs |-> 0,
           listed |-> FALSE, passed |-> FALSE, direct |-> FALSE, late |-> FALSE,
           known |-> FALSE, stop |-> "not_needed", said |-> "nothing"]
-----------------------------------------------------------------------------
Init ==
  /\ backend \in {"local", "dify"}
  /\ job = [r \in Requests |-> Unsent]
  /\ task = [r \in Requests |-> "none"]

At(r, p) == job[r].phase = p

(* The gateway's step on request r alone. *)
Becomes(r, j) == job' = [job EXCEPT ![r] = j] /\ UNCHANGED <<backend, task>>

To(r, p)     == [job[r] EXCEPT !.phase = p]
Ends(j, how) == [j EXCEPT !.phase = "closed", !.said = how]

First == IF backend = "local" THEN "extract" ELSE "post"

(* chat_api: a message that comes with a requirement is merged into it first.*)
Arrive(r, merges) ==
  /\ At(r, "unsent")
  /\ Becomes(r, To(r, IF merges THEN "merge" ELSE First))

(* _merge_requirement: the model's merge, or the plain concatenation. *)
Merge(r) == At(r, "merge") /\ Becomes(r, To(r, First))
-----------------------------------------------------------------------------
(* The local backend. *)

(* The parameters are extracted, overridden by declared ones and valid. *)
Extract(r) == At(r, "extract") /\ Becomes(r, To(r, "reference"))

(* A model call fails (a profile that is gone included), or what it returned *)
(* is refused: parameters that are invalid, code that is empty or too long.  *)
ModelFails(r) ==
  /\ job[r].phase \in {"extract", "generate", "fix", "review", "explain"}
  /\ Becomes(r, Ends(job[r], "error"))

(* generation_context delivers nothing, or what it delivered does not verify *)
(* once executed; a run may be left behind.                                  *)
NoReference(r, ran) ==
  /\ At(r, "reference")
  /\ Becomes(r, [To(r, "generate") EXCEPT !.runs = @ + IF ran THEN 1 ELSE 0])

(* execute_reference has verified its run and recorded it. *)
RunReference(r) ==
  /\ At(r, "reference")
  /\ Becomes(r, [To(r, "lookup") EXCEPT !.runs = @ + 1, !.listed = TRUE])

(* Mutant: a failed reference is corrected like generated code. *)
AfterRunCorrecting(j) == IF j.passed \/ j.left = 0 THEN "review" ELSE "fix"

(* After an execution and its analysis. *)
AfterRun(j) == IF j.passed \/ j.direct \/ j.left = 0 THEN "review" ELSE "fix"

Ran(j, p) == LET k == [j EXCEPT !.passed = p] IN [k EXCEPT !.phase = AfterRun(k)]

(* get_execution_by_run_id: an administrator may have cleared the history. *)
Lookup(r, p) ==
  /\ At(r, "lookup")
  /\ Becomes(r, IF job[r].listed THEN Ran([job[r] EXCEPT !.direct = TRUE], p)
                ELSE To(r, "generate"))

(* The history cannot be read: sqlite3.Error is not caught. *)
LookupRaises(r) == At(r, "lookup") /\ Becomes(r, Ends(job[r], "broken"))

Generate(r) == At(r, "generate") /\ Becomes(r, To(r, "execute"))

(* run_jwave_code in a thread: executed, recorded, analysed. *)
Execute(r, p) ==
  /\ At(r, "execute")
  /\ Becomes(r, Ran([job[r] EXCEPT !.runs = @ + 1, !.listed = TRUE], p))

(* The executor does not answer, the history cannot be written or what came  *)
(* back cannot be analysed, before or after the run is recorded: a ValueError*)
(* and its like become an error, httpx.HTTPError and sqlite3.Error are not   *)
(* caught and the stream has no result.                                      *)
ExecuteRaises(r, ran, kept, how) ==
  /\ At(r, "execute")
  /\ kept => ran
  /\ Becomes(r, Ends([job[r] EXCEPT !.runs = @ + IF ran THEN 1 ELSE 0,
                                    !.listed = kept], how))

(* Mutant: a correction is not counted. *)
FixUncounted(r) == At(r, "fix") /\ Becomes(r, To(r, "execute"))

Fix(r) ==
  /\ At(r, "fix")
  /\ Becomes(r, [To(r, "execute") EXCEPT !.left = @ - 1])

Review(r) == At(r, "review") /\ Becomes(r, To(r, "explain"))

(* Mutant: a reviewed result counts as a success. *)
ExplainReviewed(r) ==
  At(r, "explain") /\ Becomes(r, Ends(job[r], "succeeded"))

(* The status is _passed, whatever the review says. *)
Explain(r) ==
  At(r, "explain") /\ Becomes(r, Ends(job[r], IF job[r].passed THEN "succeeded" ELSE "error"))

(* The thread ends although its reader has left: what it ran is recorded. *)
LateRun(r, ran) ==
  /\ job[r].late
  /\ Becomes(r, [job[r] EXCEPT !.late = FALSE, !.listed = ran,
                               !.runs = @ + IF ran THEN 1 ELSE 0])

(* clear_executions by an administrator. *)
Clear ==
  /\ \E r \in Requests : job[r].listed
  /\ job' = [r \in Requests |-> [job[r] EXCEPT !.listed = FALSE]]
  /\ UNCHANGED <<backend, task>>
-----------------------------------------------------------------------------
(* The dify backend. *)

(* The one POST.  Its answer may be an error or be lost. *)
Post(r, reached, answered) ==
  /\ At(r, "post")
  /\ answered => reached
  /\ job' = [job EXCEPT ![r] = IF answered THEN To(r, "stream") ELSE Ends(@, "error")]
  /\ task' = [task EXCEPT ![r] = IF reached THEN "running" ELSE @]
  /\ UNCHANGED backend

(* An event that carries the task's id. *)
Announce(r) ==
  /\ At(r, "stream") /\ ~job[r].known
  /\ Becomes(r, [job[r] EXCEPT !.known = TRUE])

(* The service's run ends by itself. *)
TaskEnds(r, how) ==
  /\ task[r] = "running"
  /\ task' = [task EXCEPT ![r] = how]
  /\ UNCHANGED <<backend, job>>

(* workflow_finished: a success is one only with its report. *)
Finished(r, report) ==
  /\ At(r, "stream") /\ task[r] \in {"succeeded", "failed"}
  /\ Becomes(r, Ends([job[r] EXCEPT !.known = TRUE],
                     IF task[r] = "succeeded" /\ report THEN "succeeded" ELSE "error"))

(* Mutant: a reader that leaves is not a reason to stop the task. *)
GivesUpQuietly(j, how) ==
  IF j.phase = "stream" /\ j.known /\ how = "error"
  THEN [j EXCEPT !.phase = "stopping", !.said = how]
  ELSE Ends(j, how)

(* The stream is given up before workflow_finished: a known task is stopped. *)
GivesUp(j, how) ==
  IF j.phase = "stream" /\ j.known
  THEN [j EXCEPT !.phase = "stopping", !.said = how]
  ELSE Ends(j, how)

(* Mutant: no deadline, a stream is given up only when its task is over. *)
LosesNoTime(r) ==
  At(r, "stream") /\ task[r] # "running" /\ Becomes(r, GivesUp(job[r], "error"))

(* The deadline, a silent or lost connection, an event that does not parse,  *)
(* an "error" event.                                                         *)
Loses(r) == At(r, "stream") /\ Becomes(r, GivesUp(job[r], "error"))

(* The POST that asks the service to stop: it is confirmed, or it may not    *)
(* have arrived.                                                             *)
Stop(r, confirmed, arrives) ==
  /\ At(r, "stopping")
  /\ confirmed => arrives
  /\ job' = [job EXCEPT ![r] = [@ EXCEPT !.phase = "closed",
                                !.stop = IF confirmed THEN "requested" ELSE "unconfirmed"]]
  /\ task' = [task EXCEPT ![r] = IF arrives /\ @ = "running" THEN "stopped" ELSE @]
  /\ UNCHANGED backend
-----------------------------------------------------------------------------
(* The reader has gone: the generator is closed.  A thread is not, and the   *)
(* post of a task whose id was not received yet cannot be taken back.        *)
Leave(r) ==
  \/ /\ job[r].phase \notin {"unsent", "stopping", "closed"}
     /\ Becomes(r, [GivesUp(job[r], "gone") EXCEPT !.late = job[r].phase \in {"reference", "execute"}])
  \/ /\ At(r, "post")
     /\ job' = [job EXCEPT ![r] = Ends(@, "gone")]
     /\ task' = [task EXCEPT ![r] = "running"]
     /\ UNCHANGED backend

(* It goes while the stop is under way, which is cancelled and stays         *)
(* unconfirmed.                                                              *)
LeaveStop(r, arrives) ==
  /\ At(r, "stopping")
  /\ job' = [job EXCEPT ![r] = [Ends(@, "gone") EXCEPT !.stop = "unconfirmed"]]
  /\ task' = [task EXCEPT ![r] = IF arrives /\ @ = "running" THEN "stopped" ELSE @]
  /\ UNCHANGED backend

(* What the gateway does for r by itself. *)
Serve(r) ==
  \/ Merge(r)
  \/ Extract(r) \/ ModelFails(r)
  \/ \E ran \in BOOLEAN : NoReference(r, ran)
  \/ RunReference(r) \/ LookupRaises(r)
  \/ \E p \in BOOLEAN : Lookup(r, p) \/ Execute(r, p)
  \/ Generate(r) \/ Fix(r) \/ Review(r) \/ Explain(r)
  \/ \E ran, kept \in BOOLEAN, how \in {"error", "broken"} : ExecuteRaises(r, ran, kept, how)
  \/ \E ran \in BOOLEAN : LateRun(r, ran)
  \/ \E reached, answered \in BOOLEAN : Post(r, reached, answered)
  \/ Announce(r) \/ Loses(r)
  \/ \E report \in BOOLEAN : Finished(r, report)
  \/ \E confirmed, arrives \in BOOLEAN : Stop(r, confirmed, arrives)

Next ==
  \/ \E r \in Requests :
       \/ \E merges \in BOOLEAN : Arrive(r, merges)
       \/ Serve(r)
       \/ Leave(r) \/ \E arrives \in BOOLEAN : LeaveStop(r, arrives)
       \/ \E how \in {"succeeded", "failed"} : TaskEnds(r, how)
  \/ Clear

(* Every step of the gateway comes to an end: a call of the model by the     *)
(* read timeout and the size limit of model_client, the executor by the      *)
(* timeout of the request, the service's stream by the deadline.             *)
Spec == Init /\ [][Next]_vars /\ \A r \in Requests : WF_vars(Serve(r))
-----------------------------------------------------------------------------
TypeOK ==
  /\ backend \in {"local", "dify"}
  /\ job \in [Requests -> Job]
  /\ task \in [Requests -> Tasks]

(* A stream says "succeeded" only for a simulation that was executed for it, *)
(* and whose last run passed the deterministic gate, or for a run that the   *)
(* service finished (_passed, workflow_finished): a model's review, an       *)
(* interrupted stream or a stopped task is never a success.                  *)
SuccessIsEarned ==
  \A r \in Requests : job[r].said = "succeeded" =>
    IF backend = "local"
    THEN /\ job[r].passed /\ job[r].runs > 0
         /\ job[r].direct => job[r].runs = 1
    ELSE task[r] = "succeeded"

(* A request causes at most one execution more than its corrections, and one *)
(* that the reference was tried for; a request that used the reference       *)
(* executes and corrects nothing else (used_direct_reference).               *)
EffortBounded ==
  \A r \in Requests :
    /\ job[r].runs <= MaxRetries + 2
    /\ job[r].direct => job[r].runs = 1 /\ job[r].left = MaxRetries

(* When a stream has ended, however it ended, a run of the service goes on   *)
(* only if its id never arrived or the stop was not confirmed: "停止已知任务" *)
(* (workflow_client's finally).                                              *)
NoTaskLeftBehind ==
  \A r \in Requests : job[r].phase = "closed" /\ task[r] = "running" =>
    ~job[r].known \/ job[r].stop = "unconfirmed"

(* How much may still happen to a request: each correction still allowed is  *)
(* an execution more.                                                        *)
Rank(j) ==
  CASE j.phase = "unsent"    -> 2 * j.left + 12
    [] j.phase = "merge"     -> 2 * j.left + 11
    [] j.phase = "extract"   -> 2 * j.left + 10
    [] j.phase = "reference" -> 2 * j.left + 9
    [] j.phase = "lookup"    -> 2 * j.left + 8
    [] j.phase = "generate"  -> 2 * j.left + 7
    [] j.phase = "execute"   -> 2 * j.left + 6
    [] j.phase = "fix"       -> 2 * j.left + 5
    [] j.phase = "post"      -> 6
    [] j.phase = "stream"    -> IF j.known THEN 4 ELSE 5
    [] j.phase = "review"    -> 4
    [] j.phase \in {"explain", "stopping"} -> 3
    [] j.phase = "closed"    -> IF j.late THEN 1 ELSE 0

(* No request goes in circles: whatever the model, the executor, the service *)
(* and the reader do, and however their steps mix, each thing that happens   *)
(* to a request leaves less that may still happen to it.  (The history may   *)
(* be cleared at any time.)                                                  *)
RunsDown ==
  [][\A r \in Requests :
       job'[r] # [job[r] EXCEPT !.listed = job'[r].listed] =>
         Rank(job'[r]) \in 0..(Rank(job[r]) - 1)]_vars

(* The stream as its reader sees it. *)
Seen(j) ==
  CASE j.phase = "unsent" -> "unsent"
    [] j.phase = "closed" -> IF j.said \in {"succeeded", "error"} THEN "result" ELSE "broken"
    [] OTHER              -> "open"

streams == [r \in Requests |-> Seen(job[r])]

Events == INSTANCE EventStream WITH stream <- streams

(* Whatever happens to the model, the executor, the service or the history,  *)
(* both backends keep the promise: one result at most, nothing after it, and *)
(* every stream ends.                                                        *)
KeepsThePromise == Events!Spec
=============================================================================
