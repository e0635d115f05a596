--------------------------- MODULE RuntimeRegistry ---------------------------
(***************************************************************************)
(* The registry that approves one runtime package, and the dispatches that *)
(* rely on it.  A dispatch captures the approval before it posts its code, *)
(* compares it again after the answer, and records a receipt under its own *)
(* nonce in a transaction that looks once more; an analysis asks, much     *)
(* later, whether the receipt of the run it was handed may still be used.  *)
(*                                                                         *)
(* The package is a directory the operator may replace at any time; the    *)
(* registry is a database; nothing locks the two together.                 *)
(***************************************************************************)
EXTENDS Naturals, Sequences

CONSTANTS
  Packages,    \* contents of the package directory, each with its manifest
  Production,  \* the packages whose scope is production
  Candidates,  \* the packages whose own label is candidate
  Contract,    \* of each package: the hashes it pins
  Runtime,     \* of each package: the one of them an executor reports
  Runtimes,    \* what an executor may report
  Dispatches,  \* nonces
  Runs,        \* run identifiers: the attempts of a retry share one
  Outputs,
  Operators, Analyses,
  None

ASSUME RegistryAssumption ==
  /\ Production \subseteq Packages /\ Candidates \subseteq Packages
  /\ Runtime \in [Packages -> Runtimes]
  /\ DOMAIN Contract = Packages
  /\ \A p, q \in Packages : Contract[p] = Contract[q] => Runtime[p] = Runtime[q]
  /\ None \notin Packages \cup Runtimes \cup Dispatches \cup Runs \cup Outputs
  /\ None \notin [revision : Nat, manifest : Packages]
  /\ None \notin [run : Runs, observed : Nat, eligible : BOOLEAN]
  /\ None \notin [dispatch : Dispatches, output : Outputs]

VARIABLES
  disk,      \* the package directory; None: missing or invalid
  row,       \* runtime_packages: status, revision, manifest
  audit,     \* runtime_audit: the status each revision gave
  checked,   \* the package an operator's approval has read
  stage,     \* how far each dispatch is
  runOf,     \* the run it belongs to
  held,      \* the package as it has read it first, and as it reads it again
  before,    \* the approval it captured before posting; None: not eligible
  ran,       \* the runtime the executor's receipt names; None: unmatched
  window,    \* approval_window_matched
  receipts,  \* runtime_dispatch_completions
  history,   \* executions: the run and output of each recorded dispatch
  source,    \* the history row an analysis has resolved
  used       \* the receipts analyses were told they may use, and when

registry == <<row, audit, checked>>
dispatch == <<stage, runOf, held, before, ran, window, receipts, history>>
vars     == <<disk, registry, dispatch, source, used>>

Statuses == {"none", "candidate", "approved", "retired"}
Stages   == {"idle", "capturing", "checking", "posted", "answered", "rechecking",
             "closed", "noting", "over"}
-----------------------------------------------------------------------------
Init ==
  /\ disk \in Packages \cup {None}
  /\ row = [status |-> "none", revision |-> 0, manifest |-> None]
  /\ audit = <<>>
  /\ checked = [o \in Operators |-> None]
  /\ stage = [d \in Dispatches |-> "idle"]
  /\ runOf = [d \in Dispatches |-> None]
  /\ held = [d \in Dispatches |-> <<None, None>>]
  /\ before = [d \in Dispatches |-> None]
  /\ ran = [d \in Dispatches |-> None]
  /\ window = {}
  /\ receipts = [d \in Dispatches |-> None]
  /\ history = [d \in Dispatches |-> None]
  /\ source = [a \in Analyses |-> None]
  /\ used = {}

(* The package directory is replaced, damaged or repaired. *)
Replace ==
  /\ disk' \in (Packages \cup {None}) \ {disk}
  /\ UNCHANGED <<registry, dispatch, source, used>>

(* register: the primary key admits one row, whatever becomes of it. *)
Register ==
  /\ row.status = "none"
  /\ disk \in Candidates
  /\ row' = [status |-> "candidate", revision |-> 1, manifest |-> disk]
  /\ audit' = <<"candidate">>
  /\ UNCHANGED <<disk, checked, dispatch, source, used>>

(* Towards an approval the package is read first. *)
CheckPackage(o) ==
  /\ disk # None
  /\ checked' = [checked EXCEPT ![o] = disk]
  /\ UNCHANGED <<disk, row, audit, dispatch, source, used>>

(* Mutant: an approval of a row that was retired meanwhile goes through. *)
TransitionAny(from, to, expected) ==
  /\ row.status \in {"candidate", "approved", "retired"}
  /\ row.revision = expected
  /\ row' = [row EXCEPT !.status = to, !.revision = @ + 1]
  /\ audit' = Append(audit, to)

(* transition: BEGIN IMMEDIATE, the expected revision, a legal move, and the *)
(* audit row in the same commit.                                             *)
Transition(from, to, expected) ==
  /\ row.status \in from
  /\ row.revision = expected
  /\ row' = [row EXCEPT !.status = to, !.revision = @ + 1]
  /\ audit' = Append(audit, to)

(* The package must be the registered one; it may have been replaced since   *)
(* it was read.                                                              *)
Approve(o, expected) ==
  /\ checked[o] # None /\ checked[o] = row.manifest
  /\ Transition({"candidate"}, "approved", expected)
  /\ checked' = [checked EXCEPT ![o] = None]
  /\ UNCHANGED <<disk, dispatch, source, used>>

(* Retirement needs no package. *)
Retire(expected) ==
  /\ Transition({"candidate", "approved"}, "retired", expected)
  /\ UNCHANGED <<disk, checked, dispatch, source, used>>

-----------------------------------------------------------------------------
(* inspect_eligibility of the pinned contract of package p, when the package *)
(* it has read itself is q: neither read is in the transaction of the row.   *)
Eligible(p, q) ==
  /\ p # None /\ q # None
  /\ row.status = "approved"
  /\ row.manifest = q
  /\ q \in Production
  /\ Contract[q] = Contract[p]

(* capture_dispatch_contract reads the package for the contract it pins. *)
Begin(d, r) ==
  /\ stage[d] = "idle"
  /\ stage' = [stage EXCEPT ![d] = "capturing"]
  /\ runOf' = [runOf EXCEPT ![d] = r]
  /\ held' = [held EXCEPT ![d] = <<disk, None>>]
  /\ UNCHANGED <<disk, registry, before, ran, window, receipts, history, source, used>>

(* inspect_eligibility reads it again, before posting and after the answer. *)
ReadPackage(d) ==
  /\ \/ stage[d] = "capturing" /\ stage' = [stage EXCEPT ![d] = "checking"]
     \/ stage[d] = "answered" /\ stage' = [stage EXCEPT ![d] = "rechecking"]
  /\ held' = [held EXCEPT ![d] = <<@[1], disk>>]
  /\ UNCHANGED <<disk, registry, runOf, before, ran, window, receipts, history,
                 source, used>>

(* It reads the row; the code is posted whatever came of it. *)
Post(d) ==
  /\ stage[d] = "checking"
  /\ stage' = [stage EXCEPT ![d] = "posted"]
  /\ before' = [before EXCEPT ![d] =
       IF Eligible(held[d][1], held[d][2])
       THEN [revision |-> row.revision, manifest |-> row.manifest] ELSE None]
  /\ held' = [held EXCEPT ![d] = <<@[1], None>>]
  /\ UNCHANGED <<disk, registry, runOf, ran, window, receipts, history,
                 source, used>>

(* The executor answers: with a receipt of this request, or without. *)
Answer(d, x) ==
  /\ stage[d] = "posted"
  /\ stage' = [stage EXCEPT ![d] = "answered"]
  /\ ran' = [ran EXCEPT ![d] = x]
  /\ UNCHANGED <<disk, registry, runOf, held, before, window, receipts, history,
                 source, used>>

(* The request fails or the gateway dies. *)
Lose(d) ==
  /\ stage[d] \notin {"idle", "over"}
  /\ stage' = [stage EXCEPT ![d] = "over"]
  /\ UNCHANGED <<disk, registry, runOf, held, before, ran, window, receipts, history,
                 source, used>>

(* Mutant: the executor's own report is not compared with the contract. *)
MatchedUnread(d) ==
  /\ before[d] # None
  /\ Eligible(held[d][1], held[d][2])
  /\ row.revision = before[d].revision
  /\ row.manifest = before[d].manifest

(* What makes recheck_dispatch_contract match. *)
Matched(d) ==
  /\ before[d] # None
  /\ ran[d] # None
  /\ ran[d] = Runtime[held[d][1]]
  /\ Eligible(held[d][1], held[d][2])
  /\ row.revision = before[d].revision
  /\ row.manifest = before[d].manifest

Recheck(d) ==
  /\ stage[d] = "rechecking"
  /\ stage' = [stage EXCEPT ![d] = "closed"]
  /\ window' = IF Matched(d) THEN window \cup {d} ELSE window
  /\ held' = [held EXCEPT ![d] = <<None, None>>]
  /\ UNCHANGED <<disk, registry, runOf, before, ran, receipts, history,
                 source, used>>

(* Mutant: the window that was just compared is taken for the present. *)
StandsAsCompared(d) == TRUE

(* The row as the transaction of the receipt finds it. *)
Stands(d) ==
  /\ row.status = "approved"
  /\ row.revision = before[d].revision
  /\ row.manifest = before[d].manifest

(* Mutant: the receipt is written before the run identifier is known. *)
CompleteUnnamed(d) ==
  /\ stage[d] = "closed"
  /\ stage' = [stage EXCEPT ![d] = "noting"]
  /\ \/ /\ d \in window
        /\ receipts[d] = None
        /\ receipts' = [receipts EXCEPT ![d] =
             [run |-> None, observed |-> row.revision, eligible |-> Stands(d)]]
     \/ UNCHANGED receipts
  /\ UNCHANGED <<disk, registry, runOf, held, before, ran, window, history,
                 source, used>>

(* record_dispatch_completion: a receipt, eligible or not, if the window     *)
(* matched; a failing write leaves none.                                     *)
Complete(d) ==
  /\ stage[d] = "closed"
  /\ stage' = [stage EXCEPT ![d] = "noting"]
  /\ \/ /\ d \in window
        /\ receipts[d] = None
        /\ receipts' = [receipts EXCEPT ![d] =
             [run |-> runOf[d], observed |-> row.revision, eligible |-> Stands(d)]]
     \/ UNCHANGED receipts
  /\ UNCHANGED <<disk, registry, runOf, held, before, ran, window, history,
                 source, used>>

(* record_execution appends the row of a call; an attempt that is corrected  *)
(* and run again leaves none.                                                *)
Note(d, x) ==
  /\ stage[d] = "noting"
  /\ stage' = [stage EXCEPT ![d] = "over"]
  /\ history' = [history EXCEPT ![d] = x]
  /\ UNCHANGED <<disk, registry, runOf, held, before, ran, window, receipts,
                 source, used>>

(* clear_executions. *)
ClearHistory ==
  /\ \E d \in Dispatches : history[d] # None
  /\ history' = [d \in Dispatches |-> None]
  /\ UNCHANGED <<disk, registry, stage, runOf, held, before, ran, window, receipts,
                 source, used>>

-----------------------------------------------------------------------------
(* Mutant: the run identifier alone names the row. *)
SourceOfRun(d, r, x) ==
  /\ history[d] # None
  /\ r \in {None, runOf[d]}
  /\ r = None => history[d] = x

(* resolve_execution_source: the one row of a run (or, without a run, of an  *)
(* output) that holds the output the analysis was given, provided its run    *)
(* has no other row.                                                         *)
Source(d, r, x) ==
  /\ history[d] = x
  /\ r \in {None, runOf[d]}
  /\ \A e \in Dispatches \ {d} :
       /\ runOf[e] = runOf[d] => history[e] = None
       /\ r = None => history[e] # x

(* An analysis is called with an output and, perhaps, a run. *)
Resolve(a, d, r, x) ==
  /\ Source(d, r, x)
  /\ source' = [source EXCEPT ![a] = [dispatch |-> d, output |-> x]]
  /\ UNCHANGED <<disk, registry, dispatch, used>>

(* Mutant: an intact receipt is good for ever. *)
ConsumableForEver(d) == receipts[d] # None /\ receipts[d].eligible

(* verify_dispatch_completion: the receipt and the row, in one snapshot. *)
Consumable(d) ==
  /\ receipts[d] # None
  /\ receipts[d].eligible
  /\ row.status = "approved"
  /\ row.revision = receipts[d].observed

Verify(a) ==
  /\ source[a] # None
  /\ used' = IF Consumable(source[a].dispatch)
             THEN used \cup {[dispatch |-> source[a].dispatch,
                              output |-> source[a].output, at |-> Len(audit)]}
             ELSE used
  /\ source' = [source EXCEPT ![a] = None]
  /\ UNCHANGED <<disk, registry, dispatch>>

Next ==
  \/ Replace \/ Register \/ ClearHistory
  \/ \E o \in Operators : CheckPackage(o) \/ \E n \in 1..2 : Approve(o, n)
  \/ \E n \in 1..2 : Retire(n)
  \/ \E d \in Dispatches :
       \/ \E r \in Runs : Begin(d, r)
       \/ ReadPackage(d) \/ Post(d) \/ Lose(d) \/ Recheck(d) \/ Complete(d)
       \/ \E x \in Runtimes \cup {None} : Answer(d, x)
       \/ \E x \in Outputs \cup {None} : Note(d, x)
  \/ \E a \in Analyses : \/ Verify(a)
                         \/ \E d \in Dispatches, r \in Runs \cup {None}, x \in Outputs :
                              Resolve(a, d, r, x)

Spec == Init /\ [][Next]_vars
-----------------------------------------------------------------------------
(* What the registry promises. *)

Approval == [revision : Nat, manifest : Packages]
Receipt  == [run : Runs, observed : Nat, eligible : BOOLEAN]
Use      == [dispatch : Dispatches, output : Outputs, at : Nat]
Origin   == [dispatch : Dispatches, output : Outputs]

(* The values of the schema, of the dispatches and of the analyses. *)
TypeOK ==
  /\ disk \in Packages \cup {None}
  /\ row \in [status : Statuses, revision : Nat, manifest : Packages \cup {None}]
  /\ audit \in Seq(Statuses)
  /\ checked \in [Operators -> Packages \cup {None}]
  /\ stage \in [Dispatches -> Stages]
  /\ runOf \in [Dispatches -> Runs \cup {None}]
  /\ \A d \in Dispatches : stage[d] # "idle" => runOf[d] # None
  /\ held \in [Dispatches -> (Packages \cup {None}) \X (Packages \cup {None})]
  /\ before \in [Dispatches -> Approval \cup {None}]
  /\ ran \in [Dispatches -> Runtimes \cup {None}]
  /\ window \subseteq Dispatches
  /\ receipts \in [Dispatches -> Receipt \cup {None}]
  /\ history \in [Dispatches -> Outputs \cup {None}]
  /\ source \in [Analyses -> Origin \cup {None}]
  /\ used \subseteq Use

(* The audit is the life of the row, and no life comes back: a package is    *)
(* approved at most once, and a retired one for no one again, whatever       *)
(* revision the operators who act at the same time believe in.  A dispatch   *)
(* that compares two revisions relies on it.                                 *)
ApprovedOnce ==
  /\ row.revision = Len(audit)
  /\ audit \in { <<>>, <<"candidate">>, <<"candidate", "approved">>,
                 <<"candidate", "retired">>, <<"candidate", "approved", "retired">> }
  /\ row.status = IF audit = <<>> THEN "none" ELSE audit[Len(audit)]

(* An eligible receipt names the approval its dispatch captured before it    *)
(* posted the code, that approval still stood when the receipt was written,  *)
(* and the executor reported the runtime of the registered package: however  *)
(* the package directory and the registry changed in between.                *)
ReceiptStood ==
  \A d \in Dispatches : receipts[d] # None /\ receipts[d].eligible =>
    /\ before[d] = [revision |-> receipts[d].observed, manifest |-> row.manifest]
    /\ audit[receipts[d].observed] = "approved"
    /\ row.manifest \in Production
    /\ ran[d] = Runtime[row.manifest]

(* When an analysis is told that a receipt may be used, the approval has not *)
(* changed since before that dispatch posted its code, not even once and     *)
(* back.                                                                     *)
UseIsCovered ==
  \A u \in used :
    /\ receipts[u.dispatch] # None
    /\ receipts[u.dispatch].eligible
    /\ u.at = before[u.dispatch].revision

(* The receipt is that of the dispatch that printed the output the analysis  *)
(* was given, also when several attempts share a run identifier or print the *)
(* same.                                                                     *)
UseIsOfOutput ==
  \A u \in used : history[u.dispatch] \in {u.output, None}
=============================================================================
