----------------------------- MODULE ErrorCache -----------------------------
(***************************************************************************)
(* The cache of corrections and the two loops that feed it: the retry tool *)
(* and the local workflow execute code, ask the model for a correction of  *)
(* a failure (with the cached hint for its error, if it is trusted) and    *)
(* record how the corrected code did.                                      *)
(*                                                                         *)
(* Recording reads the row in one transaction and writes it in another.    *)
(* Many requests are served at once.                                       *)
(***************************************************************************)
EXTENDS Naturals, FiniteSets

CONSTANTS
  Workers,     \* requests served at once
  Errors,      \* error signatures
  None,
  MaxRetries,  \* bound: corrections of one request (max_retries, MAX_RETRIES)
  MaxWrites    \* bound: outcomes recorded for one error

ASSUME CacheAssumption ==
  /\ MaxRetries \in Nat /\ MaxWrites \in Nat
  /\ None \notin Errors \cup {"pass", "silent"}

VARIABLES
  row,     \* error_fix_cache
  stage,   \* where each request is
  job,     \* what it remembers
  fails,   \* failures recorded in a row for the present row of an error
  writes,  \* outcomes recorded for an error
  wins,    \* those among them that were successes
  lost     \* an outcome of the present row was written over by a later one

counts == <<fails, writes, wins, lost>>
vars == <<row, stage, job, counts>>

Row == [hits : Nat, wins : Nat, streak : Nat]

(* "silent" is a failure without a signature. *)
Outcomes == Errors \cup {"pass", "silent"}
Stages   == {"idle", "execute", "fix", "select", "write"}

(* left: corrections still allowed; outcome: of the latest execution;        *)
(* fixes: the failure the present code was written for; credit: the error    *)
(* its outcome is to be recorded for; seen: the row read for it.             *)
Job == [kind : {"tool", "local"}, left : Nat, outcome : Outcomes,
        fixes : Outcomes \cup {None}, credit : Errors \cup {None}, seen : Row \cup {None}]

Fresh(k, n) == [kind |-> k, left |-> n, outcome |-> "pass",
                fixes |-> None, credit |-> None, seen |-> None]
AtRest == Fresh("tool", 0)
-----------------------------------------------------------------------------
Init ==
  /\ row = [e \in Errors |-> None]
  /\ stage = [w \in Workers |-> "idle"]
  /\ job = [w \in Workers |-> AtRest]
  /\ fails = [e \in Errors |-> 0]
  /\ writes = [e \in Errors |-> 0]
  /\ wins = [e \in Errors |-> 0]
  /\ lost = [e \in Errors |-> FALSE]

(* confidence >= 0.7, where confidence = wins / hits, halved from the third  *)
(* failure in a row on.                                                      *)
Trusted(r) == 10 * r.wins >= 7 * r.hits * (IF r.streak >= 3 THEN 2 ELSE 1)

(* Retired at the fifth failure in a row. *)
Retires(r, passed) == ~passed /\ r.streak + 1 >= 5

(* Mutant: a failure is counted among the successes. *)
CountedAlways(r, passed) ==
  [hits   |-> r.hits + 1,
   wins   |-> r.wins + 1,
   streak |-> IF passed THEN 0 ELSE r.streak + 1]

(* One more outcome.  The hint itself is left out: it becomes the code that   *)
(* was run, whatever came of it.                                             *)
Counted(r, passed) ==
  [hits   |-> r.hits + 1,
   wins   |-> r.wins + IF passed THEN 1 ELSE 0,
   streak |-> IF passed THEN 0 ELSE r.streak + 1]

(* Mutant: the first outcome is not counted as a failure in a row. *)
FirstRowClean(passed) ==
  [Counted([hits |-> 0, wins |-> 0, streak |-> 0], passed) EXCEPT !.streak = 0]

FirstRow(passed) == Counted([hits |-> 0, wins |-> 0, streak |-> 0], passed)

Passed(w) == job[w].outcome = "pass"

(* Mutant: one correction more than allowed. *)
OnwardsOnceMore(left, o) == IF o = "pass" \/ left < 0 THEN "idle" ELSE "fix"

(* The request is over, unless a correction is due and allowed. *)
Onwards(left, o) == IF o = "pass" \/ left = 0 THEN "idle" ELSE "fix"

End(w) ==
  /\ stage' = [stage EXCEPT ![w] = "idle"]
  /\ job' = [job EXCEPT ![w] = AtRest]
-----------------------------------------------------------------------------
(* A request for at most n corrections; the workflow's is MAX_RETRIES.       *)
Begin(w, k, n) ==
  /\ stage[w] = "idle"
  /\ stage' = [stage EXCEPT ![w] = "execute"]
  /\ job' = [job EXCEPT ![w] = Fresh(k, n)]
  /\ UNCHANGED <<row, counts>>

(* _execute_code.  The tool records only the last outcome, for the last      *)
(* signature it has met; the workflow records that of every correction.      *)
Execute(w, o) ==
  LET j    == job[w]
      next == Onwards(j.left, o)
  IN
  /\ stage[w] = "execute"
  /\ LET to == IF j.credit # None /\ (j.kind = "local" \/ next = "idle")
               THEN "select" ELSE next
     IN  /\ stage' = [stage EXCEPT ![w] = to]
         /\ job' = [job EXCEPT ![w] = IF to = "idle" THEN AtRest ELSE [j EXCEPT !.outcome = o]]
  /\ UNCHANGED <<row, counts>>

(* fix_code and _llm_fix_code: the row of the error is read (Trusted), the   *)
(* model answers with corrected code.                                        *)
Fix(w) ==
  LET o == job[w].outcome IN
  /\ stage[w] = "fix"
  /\ job' = [job EXCEPT ![w].left = @ - 1,
                        ![w].fixes = o,
                        ![w].credit = IF o \in Errors THEN o ELSE @]
  /\ stage' = [stage EXCEPT ![w] = "execute"]
  /\ UNCHANGED <<row, counts>>

(* The model's call fails or its code is unusable: the request ends.         *)
NoFix(w) ==
  /\ stage[w] = "fix"
  /\ End(w)
  /\ UNCHANGED <<row, counts>>

(* _update_cache, up to its SELECT. *)
Select(w) ==
  /\ stage[w] = "select"
  /\ job' = [job EXCEPT ![w].seen = row[job[w].credit]]
  /\ stage' = [stage EXCEPT ![w] = "write"]
  /\ UNCHANGED <<row, counts>>

(* Mutant: pending_cache_update is not reset. *)
ResumeKeeping(w) ==
  \/ /\ job[w].kind = "tool" \/ Onwards(job[w].left, job[w].outcome) = "idle"
     /\ End(w)
  \/ /\ job[w].kind = "local" /\ Onwards(job[w].left, job[w].outcome) = "fix"
     /\ stage' = [stage EXCEPT ![w] = "fix"]
     /\ job' = [job EXCEPT ![w].seen = None]

(* What a request does after recording. *)
Resume(w) ==
  \/ /\ job[w].kind = "tool" \/ Onwards(job[w].left, job[w].outcome) = "idle"
     /\ End(w)
  \/ /\ job[w].kind = "local" /\ Onwards(job[w].left, job[w].outcome) = "fix"
     /\ stage' = [stage EXCEPT ![w] = "fix"]
     /\ job' = [job EXCEPT ![w].credit = None, ![w].seen = None]

(* The rest of _update_cache: INSERT, DELETE or UPDATE by the signature.     *)
Write(w) ==
  LET e == job[w].credit
      r == job[w].seen
      p == Passed(w)
  IN
  /\ stage[w] = "write" /\ writes[e] < MaxWrites
  /\ IF r = None
     THEN row[e] = None /\ row' = [row EXCEPT ![e] = FirstRow(p)]
     ELSE row' = [row EXCEPT ![e] = IF Retires(r, p) \/ @ = None THEN None
                                    ELSE Counted(r, p)]
  /\ fails' = [fails EXCEPT ![e] = IF p \/ row'[e] = None THEN 0 ELSE @ + 1]
  /\ writes' = [writes EXCEPT ![e] = @ + 1]
  /\ wins' = [wins EXCEPT ![e] = @ + IF p THEN 1 ELSE 0]
  /\ lost' = [lost EXCEPT ![e] = row'[e] # None /\ (@ \/ r # row[e])]
  /\ Resume(w)

(* It raises, the row having been inserted meanwhile or the database being   *)
(* locked; both callers go on.                                               *)
WriteRaises(w) ==
  /\ stage[w] = "write"
  /\ Resume(w)
  /\ UNCHANGED <<row, counts>>

(* The executor cannot be reached, or the gateway dies. *)
Crash(w) ==
  /\ stage[w] # "idle"
  /\ End(w)
  /\ UNCHANGED <<row, counts>>

Next == \E w \in Workers :
  \/ \E k \in {"tool", "local"}, n \in 0..MaxRetries : Begin(w, k, n)
  \/ \E o \in Outcomes : Execute(w, o)
  \/ Fix(w) \/ NoFix(w) \/ Select(w) \/ Write(w) \/ WriteRaises(w) \/ Crash(w)

Spec == Init /\ [][Next]_vars
-----------------------------------------------------------------------------
TypeOK ==
  /\ row \in [Errors -> Row \cup {None}]
  /\ stage \in [Workers -> Stages]
  /\ job \in [Workers -> Job]
  /\ fails \in [Errors -> Nat]
  /\ writes \in [Errors -> Nat]
  /\ wins \in [Errors -> Nat]
  /\ lost \in [Errors -> BOOLEAN]

(* Races lose counts but never invent trust: a row claims no more successes  *)
(* than were recorded, its counts fit together, and none outlives its fifth  *)
(* failure in a row as it counts them (_update_cache).                       *)
NoInventedTrust ==
  \A e \in Errors : row[e] # None =>
    /\ row[e].wins <= wins[e]
    /\ row[e].hits <= writes[e]
    /\ row[e].wins + row[e].streak <= row[e].hits
    /\ row[e].streak < 5

(* The workflow records an outcome for the error that the code it has just   *)
(* run was written to correct, and for no other (pending_cache_update).      *)
OutcomeOfItsFix ==
  [][\A w \in Workers : stage[w] = "execute" /\ stage'[w] = "select" /\ job[w].kind = "local" =>
       job[w].credit = job[w].fixes]_vars

(* "Three or more failures in a row: doubted", "five or more: deleted".      *)
DoubtedOrGone(e) ==
  /\ fails[e] < 5
  /\ fails[e] >= 3 => ~Trusted(row[e])

(* It is so for any number of requests until a recording is written over     *)
(* another that it has not read: overlapping reads and writes of             *)
(* _update_cache are the only way past the two rules.                        *)
DoubtedUnlessLost ==
  \A e \in Errors : row[e] # None => DoubtedOrGone(e) \/ lost[e]
=============================================================================
