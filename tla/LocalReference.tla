--------------------------- MODULE LocalReference ---------------------------
(***************************************************************************)
(* The single-use local reference: a generation decision is prepared and   *)
(* consumed, the pointer it returns is bound to one execution, the pinned  *)
(* code is sent to the executor, the answer enters the execution history,  *)
(* and the execution is verified or failed for good.                       *)
(*                                                                         *)
(* Every store action is one BEGIN IMMEDIATE transaction.  Between them no *)
(* lock is held: the skill may be withdrawn, archived or admitted again,   *)
(* the wall clock may pass the expiry or be set back, the executor may not *)
(* answer, the gateway may die, and another caller may present the same    *)
(* pointer.                                                                *)
(*                                                                         *)
(* One request (scenario, parameters, context) is modelled: whatever does  *)
(* not match it is refused like an unknown decision.  The library is what  *)
(* the two reads of it return: "listed" is the metadata shortlist, "offer" *)
(* the one version of it that verify_connection accepts (it asks for the   *)
(* parameters of the request and the newest version, and one skill has the *)
(* fingerprint of a request).                                              *)
(***************************************************************************)
EXTENDS Integers

CONSTANTS
  Callers,      \* workflow requests and operator scripts
  Decisions,    \* identifiers of generation decisions
  References,   \* what can be offered: a version of a skill
  None,         \* nothing
  TTL,          \* how long a decision may be used
  MaxClock      \* bound: last value of the clock

Decision    == [snapshot : SUBSET References, made : Nat]
Consumption == [kind : {"fallback", "delivery"}, ref : References \cup {None}]
Dispatched  == [ref : References, at : Nat]

ASSUME ReferenceAssumption ==
  /\ None \notin References \cup Decision \cup Consumption \cup Dispatched
  /\ TTL \in Nat /\ MaxClock \in Nat

VARIABLES
  listed, offer,   \* the skill library
  clock,           \* time.time_ns
  decision,        \* skill_generation_decisions
  consumption,     \* skill_generation_consumptions
  dispatch,        \* skill_local_reference_dispatches
  completion,      \* skill_local_reference_completions
  history,         \* the row of the run bound to a decision
  posts,           \* requests that reached the executor for it
  stage, holds     \* how far each caller is, and with which decision

library == <<listed, offer>>
store   == <<decision, consumption, dispatch, completion>>
callers == <<stage, holds>>
vars == <<library, clock, store, history, posts, callers>>

Stages == {"idle", "prepared", "denied", "pointed", "bound", "sent", "recorded", "failing"}


(* created_ns <= now < expires_ns. *)
Fresh(d, now) == decision[d].made <= now /\ now < decision[d].made + TTL

Delivered(d) == consumption[d] # None /\ consumption[d].kind = "delivery"

(* read_connection returns the reference: it was delivered, the decision was *)
(* fresh at the time given, and the library offers the very same one now.    *)
Readable(d, at) ==
  /\ Delivered(d)
  /\ Fresh(d, at)
  /\ offer = consumption[d].ref
-----------------------------------------------------------------------------
Init ==
  /\ listed = {}
  /\ offer = None
  /\ clock = 0
  /\ decision = [d \in Decisions |-> None]
  /\ consumption = [d \in Decisions |-> None]
  /\ dispatch = [d \in Decisions |-> None]
  /\ completion = [d \in Decisions |-> "none"]
  /\ history = [d \in Decisions |-> "none"]
  /\ posts = [d \in Decisions |-> 0]
  /\ stage = [c \in Callers |-> "idle"]
  /\ holds = [c \in Callers |-> None]

Goes(c, to) ==
  /\ stage' = [stage EXCEPT ![c] = to]
  /\ UNCHANGED holds

Returns(c) ==
  /\ stage' = [stage EXCEPT ![c] = "idle"]
  /\ holds' = [holds EXCEPT ![c] = None]

(* prepare: the shortlist of the moment is kept with the decision. *)
Prepare(c, d) ==
  /\ stage[c] = "idle"
  /\ decision[d] = None
  /\ decision' = [decision EXCEPT ![d] = [snapshot |-> listed, made |-> clock]]
  /\ stage' = [stage EXCEPT ![c] = "prepared"]
  /\ holds' = [holds EXCEPT ![c] = d]
  /\ UNCHANGED <<library, clock, consumption, dispatch, completion, history, posts>>

(* Mutant: the snapshot of the decision is not compared with the present. *)
DeliverAnything(c) ==
  LET d == holds[c] IN
  /\ stage[c] = "prepared"
  /\ Fresh(d, clock)
  /\ consumption[d] = None
  /\ offer # None
  /\ consumption' = [consumption EXCEPT ![d] = [kind |-> "delivery", ref |-> offer]]
  /\ Goes(c, "pointed")
  /\ UNCHANGED <<library, clock, decision, dispatch, completion, history, posts>>

(* skill_local_profile.consume. *)
Deliver(c) ==
  LET d == holds[c] IN
  /\ stage[c] = "prepared"
  /\ Fresh(d, clock)
  /\ consumption[d] = None
  /\ listed = decision[d].snapshot
  /\ offer # None
  /\ consumption' = [consumption EXCEPT ![d] = [kind |-> "delivery", ref |-> offer]]
  /\ Goes(c, "pointed")
  /\ UNCHANGED <<library, clock, decision, dispatch, completion, history, posts>>

(* consume refuses: nothing is offered, the shortlist or its order changed,  *)
(* the decision expired, a switch is off or the store is busy.               *)
Deny(c) ==
  /\ stage[c] = "prepared"
  /\ Goes(c, "denied")
  /\ UNCHANGED <<library, clock, store, history, posts>>

(* Another consumer records that no local reference is used, or cannot. *)
FallBack(c) ==
  LET d == holds[c] IN
  /\ stage[c] = "denied"
  /\ \/ /\ Fresh(d, clock)
        /\ consumption[d] = None
        /\ consumption' = [consumption EXCEPT ![d] = [kind |-> "fallback", ref |-> None]]
     \/ UNCHANGED consumption
  /\ Returns(c)
  /\ UNCHANGED <<library, clock, decision, dispatch, completion, history, posts>>

(* execute_reference is called with a pointer delivered earlier. *)
Present(c, d) ==
  /\ stage[c] = "idle"
  /\ Delivered(d)
  /\ stage' = [stage EXCEPT ![c] = "pointed"]
  /\ holds' = [holds EXCEPT ![c] = d]
  /\ UNCHANGED <<library, clock, store, history, posts>>

(* Mutant: one execution per run identifier instead of one per decision. *)
BindAgain(c) ==
  LET d == holds[c] IN
  /\ stage[c] = "pointed"
  /\ Readable(d, clock)
  /\ dispatch' = [dispatch EXCEPT ![d] = [ref |-> offer, at |-> clock]]
  /\ Goes(c, "bound")
  /\ UNCHANGED <<library, clock, decision, consumption, completion, history, posts>>

(* _bind: the reference is read again and the run registered, once for each  *)
(* generation, before anything is sent.                                      *)
Bind(c) ==
  LET d == holds[c] IN
  /\ stage[c] = "pointed"
  /\ Readable(d, clock)
  /\ dispatch[d] = None
  /\ dispatch' = [dispatch EXCEPT ![d] = [ref |-> offer, at |-> clock]]
  /\ Goes(c, "bound")
  /\ UNCHANGED <<library, clock, decision, consumption, completion, history, posts>>

(* The workflow does not use the pointer, or _bind refuses. *)
Decline(c) ==
  /\ stage[c] = "pointed"
  /\ Returns(c)
  /\ UNCHANGED <<library, clock, store, history, posts>>

(* _execute_code posts the pinned code. *)
Send(c) ==
  /\ stage[c] = "bound"
  /\ posts' = [posts EXCEPT ![holds[c]] = @ + 1]
  /\ Goes(c, "sent")
  /\ UNCHANGED <<library, clock, store, history>>

(* The answer is written to the execution history; whether its output passes *)
(* the exact checks is not known before.                                     *)
Answer(c) ==
  /\ stage[c] = "sent"
  /\ \E result \in {"passed", "rejected"} :
       history' = [history EXCEPT ![holds[c]] = result]
  /\ Goes(c, "recorded")
  /\ UNCHANGED <<library, clock, store, posts>>

(* The request does not get out, is not answered or answered by an HTTP      *)
(* error, or the history cannot be written.                                  *)
Lose(c) ==
  /\ stage[c] \in {"bound", "sent"}
  /\ Goes(c, "failing")
  /\ UNCHANGED <<library, clock, store, history, posts>>

(* Mutant: what was delivered is not compared with what is offered now. *)
VerifyAsDelivered(c) ==
  LET d == holds[c] IN
  /\ stage[c] = "recorded"
  /\ history[d] = "passed"
  /\ completion[d] = "none"
  /\ dispatch[d].at <= clock
  /\ Fresh(d, dispatch[d].at)
  /\ completion' = [completion EXCEPT ![d] = "verified"]
  /\ Returns(c)
  /\ UNCHANGED <<library, clock, decision, consumption, dispatch, history, posts>>

(* _finish accepts: the decision was fresh when the run was registered, and  *)
(* the library still offers what was delivered.                              *)
Verify(c) ==
  LET d == holds[c] IN
  /\ stage[c] = "recorded"
  /\ history[d] = "passed"
  /\ completion[d] = "none"
  /\ dispatch[d].at <= clock
  /\ Readable(d, dispatch[d].at)
  /\ completion' = [completion EXCEPT ![d] = "verified"]
  /\ Returns(c)
  /\ UNCHANGED <<library, clock, decision, consumption, dispatch, history, posts>>

(* _finish refuses, for a reason in the store or a transient one. *)
Reject(c) ==
  /\ stage[c] = "recorded"
  /\ Goes(c, "failing")
  /\ UNCHANGED <<library, clock, store, history, posts>>

(* _finish(failed=True) records the failure, or cannot: the store is busy or *)
(* the clock is behind the registration.                                     *)
Fail(c) ==
  LET d == holds[c] IN
  /\ stage[c] = "failing"
  /\ \/ /\ completion[d] = "none"
        /\ dispatch[d].at <= clock
        /\ completion' = [completion EXCEPT ![d] = "failed"]
     \/ UNCHANGED completion
  /\ Returns(c)
  /\ UNCHANGED <<library, clock, decision, consumption, dispatch, history, posts>>

(* The process dies; what it was doing is not taken up again. *)
Crash ==
  /\ \E c \in Callers : stage[c] # "idle"
  /\ stage' = [c \in Callers |-> "idle"]
  /\ holds' = [c \in Callers |-> None]
  /\ UNCHANGED <<library, clock, store, history, posts>>

(* Anything the skill library may do: only what is listed can be offered. *)
LibraryChanges ==
  /\ listed' \in SUBSET References
  /\ offer' \in listed' \cup {None}
  /\ UNCHANGED <<clock, store, history, posts, callers>>

(* Time passes, or the clock of the host is set back. *)
Tick ==
  /\ clock' \in 0..MaxClock
  /\ clock' \in {clock + 1, clock - 1}
  /\ UNCHANGED <<library, store, history, posts, callers>>

Next ==
  \/ \E c \in Callers, d \in Decisions : Prepare(c, d) \/ Present(c, d)
  \/ \E c \in Callers : \/ Deliver(c) \/ Deny(c) \/ FallBack(c)
                        \/ Bind(c) \/ Decline(c) \/ Send(c) \/ Answer(c) \/ Lose(c)
                        \/ Verify(c) \/ Reject(c) \/ Fail(c)
  \/ Crash
  \/ LibraryChanges
  \/ Tick

Spec == Init /\ [][Next]_vars
-----------------------------------------------------------------------------
(* What the single-use reference promises. *)

(* The tables and the callers hold what their schemas and handlers say: who  *)
(* is past "idle" holds a decision, and who is bound has a registered run.   *)
TypeOK ==
  /\ listed \in SUBSET References /\ offer \in listed \cup {None}
  /\ clock \in Nat
  /\ decision \in [Decisions -> Decision \cup {None}]
  /\ consumption \in [Decisions -> Consumption \cup {None}]
  /\ dispatch \in [Decisions -> Dispatched \cup {None}]
  /\ completion \in [Decisions -> {"none", "verified", "failed"}]
  /\ history \in [Decisions -> {"none", "passed", "rejected"}]
  /\ posts \in [Decisions -> Nat]
  /\ stage \in [Callers -> Stages]
  /\ holds \in [Callers -> Decisions \cup {None}]
  /\ \A c \in Callers : stage[c] # "idle" => holds[c] \in Decisions

(* Where a decision is in its life, read from the four tables. *)
Life(d) ==
  IF completion[d] # "none" THEN completion[d]
  ELSE IF dispatch[d] # None THEN "running"
  ELSE IF Delivered(d) THEN "delivered"
  ELSE IF consumption[d] # None THEN "fallback"
  ELSE IF decision[d] # None THEN "open"
  ELSE "none"

Abstract == INSTANCE OneShot WITH life <- [d \in Decisions |-> Life(d)]

(* "a transport failure is terminal for that intent and never triggers a     *)
(* replay": however many callers present a pointer, before or after a crash, *)
(* a lost answer or a failed completion, its code is sent at most once, only *)
(* after the run was registered, and a recorded outcome never changes.       *)
ImplementsOneShot == Abstract!Spec

(* The reference that is bound and sent is the one that was delivered, which *)
(* was listed when the decision was made, and it was bound while the         *)
(* decision was fresh: no change of the library in between substitutes       *)
(* another version.                                                          *)
OneReference ==
  \A d \in Decisions : dispatch[d] # None =>
    /\ dispatch[d].ref = consumption[d].ref
    /\ dispatch[d].ref \in decision[d].snapshot
    /\ Fresh(d, dispatch[d].at)

(* An execution is verified only while the library offers the version that   *)
(* was sent, its answer passed and it was sent once: "prebound execution     *)
(* time never skips current lifecycle".                                      *)
VerifiedIsCurrent ==
  [][\A d \in Decisions : completion[d] # "verified" /\ completion'[d] = "verified" =>
       /\ offer = dispatch[d].ref
       /\ posts[d] = 1
       /\ history[d] = "passed"]_vars
=============================================================================
