------------------------- MODULE ChatStreamsProofs -------------------------
(***************************************************************************)
(* Proofs about ChatStreams, for any number of requests and corrections.   *)
(*                                                                         *)
(* The inductive invariant says of every request how its executions, its   *)
(* corrections and the end of its stream go together at each stage.        *)
(***************************************************************************)
EXTENDS ChatStreams, TLAPS

Early == {"unsent", "merge", "extract", "reference"}

(* How many executions a request may have caused at each stage. *)
Counted(j) ==
  /\ j.left <= MaxRetries /\ j.runs <= MaxRetries + 2
  /\ j.phase \in Early => j.runs = 0 /\ j.left = MaxRetries
  /\ j.phase = "lookup" => j.runs = 1 /\ j.left = MaxRetries
  /\ j.phase = "generate" => j.runs <= 1 /\ j.left = MaxRetries
  /\ j.phase = "execute" \/ j.late => j.runs + j.left <= MaxRetries + 1
  /\ j.phase = "fix" => j.left > 0 /\ j.runs + j.left <= MaxRetries + 2

(* What its flags say. *)
Flagged(j) ==
  /\ j.direct => /\ j.runs = 1 /\ j.left = MaxRetries /\ ~j.late
                 /\ j.phase \in {"review", "explain", "closed"}
  /\ j.passed => j.runs > 0
  /\ j.late => j.phase = "closed" /\ j.said = "gone"
  /\ j.known => j.phase \in {"stream", "stopping", "closed"}
  /\ j.said # "nothing" => j.phase \in {"stopping", "closed"}
  /\ j.phase = "stopping" => j.known /\ j.said \in {"error", "gone"}

(* How it goes with the backend and the task. *)
Matches(j, b, k) ==
  /\ b = "local" => j.phase \notin RemotePhases
  /\ b = "dify" => j.phase \notin LocalPhases
  /\ j.said = "succeeded" => IF b = "local" THEN j.passed ELSE k = "succeeded"
  /\ j.phase = "closed" /\ k = "running" => ~j.known \/ j.stop = "unconfirmed"

Good(j, b, k) == j \in Job /\ Counted(j) /\ Flagged(j) /\ Matches(j, b, k)

Inv ==
  /\ TypeOK
  /\ \A r \in Requests : Counted(job[r]) /\ Flagged(job[r]) /\ Matches(job[r], backend, task[r])

LEMMA Initially == Init => Inv
BY StreamAssumption DEF Init, Inv, TypeOK, Unsent, Job, Phases, Tasks, Counted, Flagged, Matches,
   Early, LocalPhases, RemotePhases

(* How a stream may change: as the promise says. *)
Turns(j, n) ==
  \/ Seen(n) = Seen(j)
  \/ Seen(j) = "unsent" /\ Seen(n) = "open"
  \/ Seen(j) = "open" /\ Seen(n) \in {"result", "broken"}

(* How a request may change: it has less left to happen to it. *)
Legal(j, n) == Turns(j, n) /\ (n = j \/ Rank(n) \in 0..(Rank(j) - 1))

(* Nothing but its place in the history has changed. *)
Same(j, n) == n = [j EXCEPT !.listed = n.listed]

Fewer == \A r \in Requests : ~Same(job[r], job'[r]) => Rank(job'[r]) \in 0..(Rank(job[r]) - 1)

Kept == Inv' /\ [Events!Next]_streams /\ Fewer

LEMMA Promise ==
  ASSUME NEW r \in Requests, NEW j, job \in [Requests -> Job],
         job' = [job EXCEPT ![r] = j], Turns(job[r], j)
  PROVE  [Events!Next]_streams
<1>1. /\ streams[r] = Seen(job[r])
      /\ streams' = [streams EXCEPT ![r] = Seen(j)]
  BY DEF streams
<1>2. CASE Seen(j) = Seen(job[r]) BY <1>1, <1>2 DEF streams
<1>3. CASE Seen(job[r]) = "unsent" /\ Seen(j) = "open"
  BY <1>1, <1>3 DEF Events!Next, Events!Opens, Events!Steps
<1>4. CASE Seen(job[r]) = "open" /\ Seen(j) \in {"result", "broken"}
  BY <1>1, <1>4 DEF Events!Next, Events!Results, Events!Breaks, Events!Steps
<1>. QED BY <1>2, <1>3, <1>4 DEF Turns

(* A record that is left alone, and one that has less to come. *)
LEMMA SameOf == ASSUME NEW j \in Job PROVE Same(j, j)
BY DEF Job, Same

LEMMA Down ==
  ASSUME NEW r \in Requests, NEW j, job \in [Requests -> Job],
         job' = [job EXCEPT ![r] = j], Legal(job[r], j)
  PROVE  Fewer
<1>1. ASSUME NEW q \in Requests, ~Same(job[q], job'[q])
      PROVE  Rank(job'[q]) \in 0..(Rank(job[q]) - 1)
  <2>1. job[q] \in Job OBVIOUS
  <2>2. job'[q] # job[q] BY <1>1, <2>1, SameOf
  <2>3. q = r /\ job'[q] = j BY <2>2
  <2>. QED BY <2>2, <2>3 DEF Legal
<1>. QED BY <1>1 DEF Fewer

(* A step on one request's record keeps the invariant if the record is good. *)
LEMMA OneRecord ==
  ASSUME Inv, NEW r \in Requests, NEW j, Becomes(r, j), Good(j, backend, task[r]),
         Legal(job[r], j)
  PROVE  Kept
<1>1. Inv' BY DEF Inv, TypeOK, Becomes, Good, Counted, Flagged, Matches
<1>2. [Events!Next]_streams BY Promise DEF Becomes, Inv, TypeOK, Legal
<1>3. Fewer BY Down DEF Becomes, Inv, TypeOK
<1>. QED BY <1>1, <1>2, <1>3 DEF Kept

(* The same for a step that also touches the task. *)
LEMMA OneTask ==
  ASSUME Inv, NEW r \in Requests, NEW j, NEW k \in Tasks, job' = [job EXCEPT ![r] = j],
         task' = [task EXCEPT ![r] = k], backend' = backend, Good(j, backend, k),
         Legal(job[r], j)
  PROVE  Kept
<1>1. Inv' BY DEF Inv, TypeOK, Good, Counted, Flagged, Matches
<1>2. [Events!Next]_streams BY Promise DEF Inv, TypeOK, Legal
<1>3. Fewer BY Down DEF Inv, TypeOK
<1>. QED BY <1>1, <1>2, <1>3 DEF Kept

LEMMA Known == ASSUME Inv, NEW r \in Requests PROVE Good(job[r], backend, task[r])
BY DEF Inv, TypeOK, Good

(* A record field by field, and what each change of the model makes of it.   *)
Rec(ph, le, n, li, pa, di, la, kn, st, sa) ==
  [phase |-> ph, left |-> le, runs |-> n, listed |-> li, passed |-> pa, direct |-> di,
   late |-> la, known |-> kn, stop |-> st, said |-> sa]

LEMMA Whole ==
  ASSUME NEW j \in Job
  PROVE  j = Rec(j.phase, j.left, j.runs, j.listed, j.passed, j.direct, j.late, j.known, j.stop, j.said)
BY DEF Job, Rec

LEMMA SetsPhase ==
  ASSUME NEW j \in Job, NEW p
  PROVE  [j EXCEPT !.phase = p]
          = Rec(p, j.left, j.runs, j.listed, j.passed, j.direct, j.late, j.known, j.stop, j.said)
BY Whole DEF Rec

LEMMA SetsRuns ==
  ASSUME NEW j \in Job, NEW n, NEW b
  PROVE  [j EXCEPT !.runs = n, !.listed = b]
          = Rec(j.phase, j.left, n, b, j.passed, j.direct, j.late, j.known, j.stop, j.said)
<1>1. PICK k1 : k1 = [j EXCEPT !.runs = n] OBVIOUS
<1>2. k1 = Rec(j.phase, j.left, n, j.listed, j.passed, j.direct, j.late, j.known, j.stop, j.said) BY Whole, <1>1 DEF Rec
<1>3. [k1 EXCEPT !.listed = b] = Rec(j.phase, j.left, n, b, j.passed, j.direct, j.late, j.known, j.stop, j.said) BY <1>2 DEF Rec
<1>. QED BY <1>1, <1>3

LEMMA SetsLate ==
  ASSUME NEW j \in Job, NEW n, NEW b, NEW c
  PROVE  [j EXCEPT !.late = c, !.listed = b, !.runs = n]
          = Rec(j.phase, j.left, n, b, j.passed, j.direct, c, j.known, j.stop, j.said)
<1>1. PICK k1 : k1 = [j EXCEPT !.late = c] OBVIOUS
<1>2. k1 = Rec(j.phase, j.left, j.runs, j.listed, j.passed, j.direct, c, j.known, j.stop, j.said) BY Whole, <1>1 DEF Rec
<1>3. PICK k2 : k2 = [k1 EXCEPT !.listed = b] OBVIOUS
<1>4. k2 = Rec(j.phase, j.left, j.runs, b, j.passed, j.direct, c, j.known, j.stop, j.said) BY <1>2, <1>3 DEF Rec
<1>5. [k2 EXCEPT !.runs = n] = Rec(j.phase, j.left, n, b, j.passed, j.direct, c, j.known, j.stop, j.said) BY <1>4 DEF Rec
<1>. QED BY <1>1, <1>3, <1>5

LEMMA SetsPhaseRuns ==
  ASSUME NEW j \in Job, NEW p, NEW n
  PROVE  [[j EXCEPT !.phase = p] EXCEPT !.runs = n]
          = Rec(p, j.left, n, j.listed, j.passed, j.direct, j.late, j.known, j.stop, j.said)
<1>1. PICK k1 : k1 = [j EXCEPT !.phase = p] OBVIOUS
<1>2. k1 = Rec(p, j.left, j.runs, j.listed, j.passed, j.direct, j.late, j.known, j.stop, j.said) BY Whole, <1>1 DEF Rec
<1>3. [k1 EXCEPT !.runs = n] = Rec(p, j.left, n, j.listed, j.passed, j.direct, j.late, j.known, j.stop, j.said) BY <1>2 DEF Rec
<1>. QED BY <1>1, <1>3

LEMMA SetsPhaseLeft ==
  ASSUME NEW j \in Job, NEW p, NEW n
  PROVE  [[j EXCEPT !.phase = p] EXCEPT !.left = n]
          = Rec(p, n, j.runs, j.listed, j.passed, j.direct, j.late, j.known, j.stop, j.said)
<1>1. PICK k1 : k1 = [j EXCEPT !.phase = p] OBVIOUS
<1>2. k1 = Rec(p, j.left, j.runs, j.listed, j.passed, j.direct, j.late, j.known, j.stop, j.said) BY Whole, <1>1 DEF Rec
<1>3. [k1 EXCEPT !.left = n] = Rec(p, n, j.runs, j.listed, j.passed, j.direct, j.late, j.known, j.stop, j.said) BY <1>2 DEF Rec
<1>. QED BY <1>1, <1>3

LEMMA SetsPhaseRunsListed ==
  ASSUME NEW j \in Job, NEW p, NEW n, NEW b
  PROVE  [[j EXCEPT !.phase = p] EXCEPT !.runs = n, !.listed = b]
          = Rec(p, j.left, n, b, j.passed, j.direct, j.late, j.known, j.stop, j.said)
<1>1. PICK k1 : k1 = [j EXCEPT !.phase = p] OBVIOUS
<1>2. k1 = Rec(p, j.left, j.runs, j.listed, j.passed, j.direct, j.late, j.known, j.stop, j.said) BY Whole, <1>1 DEF Rec
<1>3. PICK k2 : k2 = [k1 EXCEPT !.runs = n] OBVIOUS
<1>4. k2 = Rec(p, j.left, n, j.listed, j.passed, j.direct, j.late, j.known, j.stop, j.said) BY <1>2, <1>3 DEF Rec
<1>5. [k2 EXCEPT !.listed = b] = Rec(p, j.left, n, b, j.passed, j.direct, j.late, j.known, j.stop, j.said) BY <1>4 DEF Rec
<1>. QED BY <1>1, <1>3, <1>5

LEMMA SetsDirect ==
  ASSUME NEW j \in Job, NEW s
  PROVE  [j EXCEPT !.direct = s]
          = Rec(j.phase, j.left, j.runs, j.listed, j.passed, s, j.late, j.known, j.stop, j.said)
BY Whole DEF Rec

LEMMA SetsKnown ==
  ASSUME NEW j \in Job, NEW s
  PROVE  [j EXCEPT !.known = s]
          = Rec(j.phase, j.left, j.runs, j.listed, j.passed, j.direct, j.late, s, j.stop, j.said)
BY Whole DEF Rec

LEMMA SetsStop ==
  ASSUME NEW j \in Job, NEW p, NEW x
  PROVE  [j EXCEPT !.phase = p, !.stop = x]
          = Rec(p, j.left, j.runs, j.listed, j.passed, j.direct, j.late, j.known, x, j.said)
<1>1. PICK k1 : k1 = [j EXCEPT !.phase = p] OBVIOUS
<1>2. k1 = Rec(p, j.left, j.runs, j.listed, j.passed, j.direct, j.late, j.known, j.stop, j.said) BY Whole, <1>1 DEF Rec
<1>3. [k1 EXCEPT !.stop = x] = Rec(p, j.left, j.runs, j.listed, j.passed, j.direct, j.late, j.known, x, j.said) BY <1>2 DEF Rec
<1>. QED BY <1>1, <1>3

(* What the end of an execution and of a stream make of a record. *)
LEMMA RanOf ==
  ASSUME NEW ph, NEW le, NEW n, NEW li, NEW pa, NEW di, NEW la, NEW kn, NEW st, NEW sa, NEW p
  PROVE  Ran(Rec(ph, le, n, li, pa, di, la, kn, st, sa), p)
           = Rec(IF p \/ di \/ le = 0 THEN "review" ELSE "fix", le, n, li, p, di, la, kn, st, sa)
<1>. DEFINE j == Rec(ph, le, n, li, pa, di, la, kn, st, sa)
            to == IF p \/ di \/ le = 0 THEN "review" ELSE "fix"
<1>1. PICK k : k = [j EXCEPT !.passed = p] OBVIOUS
<1>2. k = Rec(ph, le, n, li, p, di, la, kn, st, sa) BY <1>1 DEF Rec
<1>3. /\ k.passed = p /\ k.direct = di /\ k.left = le BY <1>2 DEF Rec
<1>4. AfterRun(k) = to BY <1>3, Zenon DEF AfterRun
<1>5. [k EXCEPT !.phase = to] = Rec(to, le, n, li, p, di, la, kn, st, sa) BY <1>2 DEF Rec
<1>. HIDE DEF to, j
<1>6. Ran(j, p) = Rec(to, le, n, li, p, di, la, kn, st, sa) BY <1>1, <1>4, <1>5 DEF Ran
<1>. QED BY <1>6 DEF to, j

Shut(j, x, how) == [j EXCEPT !.phase = x, !.said = how]

LEMMA Closing ==
  ASSUME NEW ph, NEW le, NEW n, NEW li, NEW pa, NEW di, NEW la, NEW kn, NEW st, NEW sa, NEW how, NEW x
  PROVE  Shut(Rec(ph, le, n, li, pa, di, la, kn, st, sa), x, how) = Rec(x, le, n, li, pa, di, la, kn, st, how)
<1>. DEFINE j == Rec(ph, le, n, li, pa, di, la, kn, st, sa)
<1>1. PICK k : k = [j EXCEPT !.phase = x] OBVIOUS
<1>2. k = Rec(x, le, n, li, pa, di, la, kn, st, sa) BY <1>1 DEF Rec
<1>3. [k EXCEPT !.said = how] = Rec(x, le, n, li, pa, di, la, kn, st, how) BY <1>2 DEF Rec
<1>. HIDE DEF j
<1>4. [j EXCEPT !.phase = x, !.said = how] = [[j EXCEPT !.phase = x] EXCEPT !.said = how] OBVIOUS
<1>5. Shut(j, x, how) = Rec(x, le, n, li, pa, di, la, kn, st, how) BY <1>1, <1>3, <1>4 DEF Shut
<1>. QED BY <1>5 DEF j

LEMMA EndsOf ==
  ASSUME NEW ph, NEW le, NEW n, NEW li, NEW pa, NEW di, NEW la, NEW kn, NEW st, NEW sa, NEW how
  PROVE  Ends(Rec(ph, le, n, li, pa, di, la, kn, st, sa), how) = Rec("closed", le, n, li, pa, di, la, kn, st, how)
<1>. DEFINE j == Rec(ph, le, n, li, pa, di, la, kn, st, sa)
<1>1. Shut(j, "closed", how) = Rec("closed", le, n, li, pa, di, la, kn, st, how) BY Closing
<1>. HIDE DEF j
<1>2. Ends(j, how) = Rec("closed", le, n, li, pa, di, la, kn, st, how) BY <1>1 DEF Ends, Shut
<1>. QED BY <1>2 DEF j

LEMMA GivesUpOf ==
  ASSUME NEW ph, NEW le, NEW n, NEW li, NEW pa, NEW di, NEW la, NEW kn, NEW st, NEW sa, NEW how
  PROVE  GivesUp(Rec(ph, le, n, li, pa, di, la, kn, st, sa), how)
           = Rec(IF ph = "stream" /\ kn THEN "stopping" ELSE "closed", le, n, li, pa, di, la, kn, st, how)
<1>. DEFINE j == Rec(ph, le, n, li, pa, di, la, kn, st, sa)
<1>1. j.phase = ph /\ j.known = kn BY DEF Rec
<1>2. Ends(j, how) = Rec("closed", le, n, li, pa, di, la, kn, st, how) BY EndsOf
<1>3. Shut(j, "stopping", how) = Rec("stopping", le, n, li, pa, di, la, kn, st, how) BY Closing
<1>. HIDE DEF j
<1>4. GivesUp(j, how) = Rec(IF ph = "stream" /\ kn THEN "stopping" ELSE "closed", le, n, li, pa, di, la, kn, st, how)
  BY <1>1, <1>2, <1>3 DEF GivesUp, Shut
<1>. QED BY <1>4 DEF j

(* The stages that execute nothing. *)
LEMMA StageSteps ==
  ASSUME Inv, NEW r \in Requests,
         \/ \E merges \in BOOLEAN : Arrive(r, merges)
         \/ Merge(r) \/ Extract(r) \/ Generate(r) \/ Review(r) \/ Fix(r)
  PROVE  Kept
<1>1. Good(job[r], backend, task[r]) BY Known
<1>0. job[r] \in Job BY <1>1 DEF Good
<1>2. backend \in {"local", "dify"} BY DEF Inv, TypeOK
<1>. DEFINE j == job[r]
<1>3. ASSUME NEW p \in {"merge", "extract", "post", "reference", "execute", "explain"},
             Becomes(r, To(r, p)),
             \/ j.phase = "unsent" /\ p \in {"merge", First}
             \/ j.phase = "merge" /\ p = First
             \/ j.phase = "extract" /\ p = "reference"
             \/ j.phase = "generate" /\ p = "execute"
             \/ j.phase = "review" /\ p = "explain"
      PROVE  Kept
  <2>. DEFINE n == Rec(p, j.left, j.runs, j.listed, j.passed, j.direct, j.late, j.known, j.stop, j.said)
  <2>1. To(r, p) = n BY <1>0, SetsPhase DEF To
  <2>2. Good(n, backend, task[r]) /\ Legal(j, n)
    <3>1. Good(n, backend, task[r]) /\ Turns(j, n)
      BY <1>1, <1>2, <1>3, StreamAssumption
      DEF Rec, Good, Job, Counted, Flagged, Matches, First, Early, LocalPhases, RemotePhases, Phases,
        Turns, Seen
    <3>2. Rank(n) \in 0..(Rank(j) - 1)
      <4>1. n.phase = p /\ n.left = j.left /\ j.left \in Nat BY <1>0 DEF Rec, Job
      <4>2. p = "merge" => Rank(n) = 2 * j.left + 11 BY <4>1 DEF Rank
      <4>3. p = "extract" => Rank(n) = 2 * j.left + 10 BY <4>1 DEF Rank
      <4>4. p = "post" => Rank(n) = 6 BY <4>1 DEF Rank
      <4>5. p \in {"merge", First} => p \in {"merge", "extract", "post"} BY DEF First
      <4>6. CASE j.phase = "unsent" /\ p \in {"merge", First}
        <5>1. Rank(j) = 2 * j.left + 12 BY <4>6 DEF Rank
        <5>. QED BY <4>1, <4>2, <4>3, <4>4, <4>5, <4>6, <5>1
      <4>10. CASE j.phase = "merge" /\ p = First
        <5>1. Rank(j) = 2 * j.left + 11 BY <4>10 DEF Rank
        <5>2. First \in {"extract", "post"} BY DEF First
        <5>. QED BY <4>1, <4>3, <4>4, <4>10, <5>1, <5>2
      <4>7. CASE j.phase = "extract" /\ p = "reference" BY <4>1, <4>7 DEF Rank
      <4>8. CASE j.phase = "generate" /\ p = "execute" BY <4>1, <4>8 DEF Rank
      <4>9. CASE j.phase = "review" /\ p = "explain" BY <4>1, <4>9 DEF Rank
      <4>. QED BY <1>3, <4>6, <4>7, <4>8, <4>9, <4>10
    <3>. QED BY <3>1, <3>2 DEF Legal
  <2>. HIDE DEF n
  <2>. QED BY <1>3, <2>1, <2>2, OneRecord
<1>4. ASSUME Fix(r) PROVE Kept
  <2>. DEFINE n == Rec("execute", j.left - 1, j.runs, j.listed, j.passed, j.direct, j.late, j.known, j.stop, j.said)
  <2>1. [[j EXCEPT !.phase = "execute"] EXCEPT !.left = j.left - 1] = n BY <1>0, SetsPhaseLeft
  <2>2. Becomes(r, n) /\ j.phase = "fix" BY <1>4, <2>1 DEF Fix, At, To
  <2>3. Good(n, backend, task[r]) /\ Legal(j, n)
    BY <1>1, <1>2, <2>2, StreamAssumption
    DEF Rec, Good, Job, Counted, Flagged, Matches, First, Early, LocalPhases, RemotePhases, Phases,
      Legal, Turns, Seen, Rank
  <2>. HIDE DEF n
  <2>. QED BY <2>2, <2>3, OneRecord
<1>5. First \in {"extract", "post"} BY DEF First
<1>6. ASSUME NEW merges \in BOOLEAN, Arrive(r, merges) PROVE Kept
  <2>. DEFINE p == IF merges THEN "merge" ELSE First
  <2>1. p \in {"merge", "extract", "post"} /\ p \in {"merge", First} BY <1>5
  <2>2. j.phase = "unsent" /\ Becomes(r, To(r, p)) BY <1>6 DEF Arrive, At
  <2>. HIDE DEF p
  <2>. QED BY <2>1, <2>2, <1>3
<1>7. CASE Merge(r) BY <1>3, <1>5, <1>7 DEF Merge, At
<1>8. CASE Extract(r) BY <1>3, <1>8 DEF Extract, At
<1>9. CASE Generate(r) BY <1>3, <1>9 DEF Generate, At
<1>10. CASE Review(r) BY <1>3, <1>10 DEF Review, At
<1>. QED BY <1>4, <1>6, <1>7, <1>8, <1>9, <1>10

(* The stages that execute, and a thread whose reader has left. *)
LEMMA RunSteps ==
  ASSUME Inv, NEW r \in Requests,
         \/ \E ran \in BOOLEAN : NoReference(r, ran) \/ LateRun(r, ran)
         \/ \E ran, kept \in BOOLEAN, how \in {"error", "broken"} : ExecuteRaises(r, ran, kept, how)
         \/ RunReference(r)
         \/ \E p \in BOOLEAN : Lookup(r, p) \/ Execute(r, p)
  PROVE  Kept
<1>1. Good(job[r], backend, task[r]) BY Known
<1>0. job[r] \in Job BY <1>1 DEF Good
<1>2. backend \in {"local", "dify"} BY DEF Inv, TypeOK
<1>. DEFINE j == job[r]
<1>3. ASSUME NEW ran \in BOOLEAN, NoReference(r, ran) PROVE Kept
  <2>. DEFINE n == Rec("generate", j.left, j.runs + (IF ran THEN 1 ELSE 0), j.listed, j.passed, j.direct, j.late, j.known, j.stop, j.said)
  <2>1. [[j EXCEPT !.phase = "generate"] EXCEPT !.runs = j.runs + (IF ran THEN 1 ELSE 0)] = n BY <1>0, SetsPhaseRuns
  <2>2. Becomes(r, n) /\ j.phase = "reference"
    <3>1. PICK k : k = To(r, "generate") OBVIOUS
    <3>2. k.runs = j.runs BY <1>0, <3>1, SetsPhase DEF To, Rec
    <3>3. [k EXCEPT !.runs = j.runs + (IF ran THEN 1 ELSE 0)] = n BY <2>1, <3>1 DEF To
    <3>. QED BY <1>3, <3>1, <3>2, <3>3 DEF NoReference, At
  <2>3. Good(n, backend, task[r]) /\ Legal(j, n)
    BY <1>1, <1>2, <2>2, StreamAssumption
    DEF Rec, Good, Job, Counted, Flagged, Matches, First, Early, LocalPhases, RemotePhases, Phases,
      Legal, Turns, Seen, Rank
  <2>. HIDE DEF n
  <2>. QED BY <2>2, <2>3, OneRecord
<1>4. ASSUME RunReference(r) PROVE Kept
  <2>. DEFINE n == Rec("lookup", j.left, j.runs + 1, TRUE, j.passed, j.direct, j.late, j.known, j.stop, j.said)
  <2>1. [[j EXCEPT !.phase = "lookup"] EXCEPT !.runs = j.runs + 1, !.listed = TRUE] = n BY <1>0, SetsPhaseRunsListed
  <2>2. Becomes(r, n) /\ j.phase = "reference"
    <3>1. PICK k : k = To(r, "lookup") OBVIOUS
    <3>2. k.runs = j.runs BY <1>0, <3>1, SetsPhase DEF To, Rec
    <3>3. [k EXCEPT !.runs = j.runs + 1, !.listed = TRUE] = n BY <2>1, <3>1 DEF To
    <3>. QED BY <1>4, <3>1, <3>2, <3>3 DEF RunReference, At
  <2>3. Good(n, backend, task[r]) /\ Legal(j, n)
    BY <1>1, <1>2, <2>2, StreamAssumption
    DEF Rec, Good, Job, Counted, Flagged, Matches, First, Early, LocalPhases, RemotePhases, Phases,
      Legal, Turns, Seen, Rank
  <2>. HIDE DEF n
  <2>. QED BY <2>2, <2>3, OneRecord
<1>5. ASSUME NEW ran \in BOOLEAN, NEW f \in BOOLEAN, NEW how \in {"error", "broken"},
             ExecuteRaises(r, ran, f, how)
      PROVE  Kept
  <2>. DEFINE k == Rec(j.phase, j.left, j.runs + (IF ran THEN 1 ELSE 0), f, j.passed, j.direct, j.late, j.known, j.stop, j.said)
              n == Rec("closed", j.left, j.runs + (IF ran THEN 1 ELSE 0), f, j.passed, j.direct, j.late, j.known, j.stop, how)
  <2>1. Becomes(r, n) /\ j.phase = "execute"
    <3>1. [j EXCEPT !.runs = j.runs + (IF ran THEN 1 ELSE 0), !.listed = f] = k
      BY <1>0, SetsRuns
    <3>2. Ends(k, how) = n BY EndsOf
    <3>. QED BY <1>5, <3>1, <3>2 DEF ExecuteRaises, At
  <2>3. Good(n, backend, task[r]) /\ Legal(j, n)
    BY <1>1, <1>2, <2>1, StreamAssumption
    DEF Rec, Good, Job, Counted, Flagged, Matches, Early, LocalPhases, RemotePhases, Phases,
      Legal, Turns, Seen, Rank
  <2>. HIDE DEF n
  <2>. QED BY <2>1, <2>3, OneRecord
<1>6. ASSUME NEW ran \in BOOLEAN, LateRun(r, ran) PROVE Kept
  <2>. DEFINE n == Rec(j.phase, j.left, j.runs + (IF ran THEN 1 ELSE 0), ran, j.passed, j.direct, FALSE, j.known, j.stop, j.said)
  <2>1. [j EXCEPT !.late = FALSE, !.listed = ran, !.runs = j.runs + (IF ran THEN 1 ELSE 0)] = n BY <1>0, SetsLate
  <2>2. Becomes(r, n) /\ j.late BY <1>6, <2>1 DEF LateRun
  <2>3. Good(n, backend, task[r]) /\ Legal(j, n)
    <3>1. Good(n, backend, task[r]) /\ Turns(j, n)
      BY <1>1, <1>2, <2>2, StreamAssumption
      DEF Rec, Good, Job, Counted, Flagged, Matches, First, Early, LocalPhases, RemotePhases, Phases,
        Turns, Seen
    <3>2. Rank(n) \in 0..(Rank(j) - 1)
      <4>1. j.phase = "closed" /\ n.phase = "closed" /\ n.late = FALSE
        BY <1>1, <2>2 DEF Good, Flagged, Rec
      <4>2. Rank(j) = 1 BY <4>1, <2>2 DEF Rank
      <4>3. Rank(n) = 0 BY <4>1 DEF Rank
      <4>. HIDE DEF n
      <4>. QED BY <4>2, <4>3
    <3>. QED BY <3>1, <3>2 DEF Legal
  <2>. HIDE DEF n
  <2>. QED BY <2>2, <2>3, OneRecord
<1>7. ASSUME NEW p \in BOOLEAN, Execute(r, p) PROVE Kept
  <2>0. PICK f \in BOOLEAN : f = TRUE OBVIOUS
  <2>. DEFINE k == Rec(j.phase, j.left, j.runs + 1, f, j.passed, j.direct, j.late, j.known, j.stop, j.said)
              n == Rec(IF p \/ j.direct \/ j.left = 0 THEN "review" ELSE "fix", j.left, j.runs + 1, f, p, j.direct, j.late, j.known, j.stop, j.said)
  <2>1. [j EXCEPT !.runs = j.runs + 1, !.listed = f] = k BY <1>0, SetsRuns
  <2>2. Ran(k, p) = n BY RanOf
  <2>3. Becomes(r, n) /\ j.phase = "execute" BY <1>7, <2>0, <2>1, <2>2 DEF Execute, At
  <2>4. Good(n, backend, task[r]) /\ Legal(j, n)
    BY <1>1, <1>2, <2>0, <2>3, StreamAssumption
    DEF Rec, Good, Job, Counted, Flagged, Matches, Early, LocalPhases, RemotePhases, Phases,
      Legal, Turns, Seen, Rank
  <2>. HIDE DEF n
  <2>. QED BY <2>3, <2>4, OneRecord
<1>8. ASSUME NEW p \in BOOLEAN, Lookup(r, p), j.listed PROVE Kept
  <2>0. PICK f \in BOOLEAN : f = TRUE OBVIOUS
  <2>. DEFINE k == Rec(j.phase, j.left, j.runs, j.listed, j.passed, f, j.late, j.known, j.stop, j.said)
              n == Rec(IF p \/ f \/ j.left = 0 THEN "review" ELSE "fix", j.left, j.runs, j.listed, p, f, j.late, j.known, j.stop, j.said)
  <2>1. [j EXCEPT !.direct = f] = k BY <1>0, SetsDirect
  <2>2. Ran(k, p) = n BY RanOf
  <2>3. Becomes(r, n) /\ j.phase = "lookup" BY <1>8, <2>0, <2>1, <2>2 DEF Lookup, At
  <2>4. Good(n, backend, task[r]) /\ Legal(j, n)
    BY <1>1, <1>2, <2>0, <2>3, StreamAssumption
    DEF Rec, Good, Job, Counted, Flagged, Matches, Early, LocalPhases, RemotePhases, Phases,
      Legal, Turns, Seen, Rank
  <2>. HIDE DEF n
  <2>. QED BY <2>3, <2>4, OneRecord
<1>9. ASSUME NEW p \in BOOLEAN, Lookup(r, p), ~j.listed PROVE Kept
  <2>. DEFINE n == Rec("generate", j.left, j.runs, j.listed, j.passed, j.direct, j.late, j.known, j.stop, j.said)
  <2>1. To(r, "generate") = n BY <1>0, SetsPhase DEF To
  <2>2. Becomes(r, n) /\ j.phase = "lookup" BY <1>9, <2>1 DEF Lookup, At
  <2>3. Good(n, backend, task[r]) /\ Legal(j, n)
    BY <1>1, <1>2, <2>2, StreamAssumption
    DEF Rec, Good, Job, Counted, Flagged, Matches, First, Early, LocalPhases, RemotePhases, Phases,
      Legal, Turns, Seen, Rank
  <2>. HIDE DEF n
  <2>. QED BY <2>2, <2>3, OneRecord
<1>. QED BY <1>3, <1>4, <1>5, <1>6, <1>7, <1>8, <1>9

(* A stream of the local backend ends. *)
LEMMA EndSteps ==
  ASSUME Inv, NEW r \in Requests, ModelFails(r) \/ Explain(r) \/ LookupRaises(r)
  PROVE  Kept
<1>1. Good(job[r], backend, task[r]) BY Known
<1>0. job[r] \in Job BY <1>1 DEF Good
<1>2. backend \in {"local", "dify"} BY DEF Inv, TypeOK
<1>. DEFINE j == job[r]
<1>3. ASSUME NEW how \in {"succeeded", "error", "broken"}, Becomes(r, Ends(j, how)),
             j.phase \in {"extract", "lookup", "generate", "fix", "review", "explain"},
             how = "succeeded" => j.passed
      PROVE  Kept
  <2>. DEFINE n == Rec("closed", j.left, j.runs, j.listed, j.passed, j.direct, j.late, j.known, j.stop, how)
  <2>1. Ends(j, how) = n BY <1>0, Whole, EndsOf
  <2>2. Good(n, backend, task[r]) /\ Legal(j, n)
    BY <1>1, <1>2, <1>3, StreamAssumption
    DEF Rec, Good, Job, Counted, Flagged, Matches, Early, LocalPhases, RemotePhases, Phases,
      Legal, Turns, Seen, Rank
  <2>. HIDE DEF n
  <2>. QED BY <1>3, <2>1, <2>2, OneRecord
<1>4. CASE ModelFails(r) BY <1>3, <1>4 DEF ModelFails
<1>5. CASE Explain(r)
  <2>1. CASE j.passed BY <1>3, <1>5, <2>1 DEF Explain, At
  <2>2. CASE ~j.passed BY <1>3, <1>5, <2>2 DEF Explain, At
  <2>. QED BY <2>1, <2>2
<1>6. CASE LookupRaises(r) BY <1>3, <1>6 DEF LookupRaises, At
<1>. QED BY <1>4, <1>5, <1>6

(* The steps of the dify backend. *)
LEMMA RemoteSteps ==
  ASSUME Inv, NEW r \in Requests,
         \/ \E x, y \in BOOLEAN : Post(r, x, y) \/ Stop(r, x, y)
         \/ Announce(r) \/ Loses(r)
         \/ \E x \in BOOLEAN : Finished(r, x)
         \/ \E how \in {"succeeded", "failed"} : TaskEnds(r, how)
  PROVE  Kept
<1>1. Good(job[r], backend, task[r]) BY Known
<1>0. job[r] \in Job BY <1>1 DEF Good
<1>2. backend \in {"local", "dify"} /\ task[r] \in Tasks /\ task \in [Requests -> Tasks] BY DEF Inv, TypeOK
<1>. DEFINE j == job[r]
<1>3. ASSUME NEW x \in BOOLEAN, NEW y \in BOOLEAN, Post(r, x, y) PROVE Kept
  <2>. DEFINE k == IF x THEN "running" ELSE task[r]
  <2>1. task' = [task EXCEPT ![r] = k] /\ backend' = backend /\ j.phase = "post" /\ k \in Tasks
    BY <1>2, <1>3 DEF Post, At, Tasks
  <2>2. CASE y
    <3>. DEFINE n == Rec("stream", j.left, j.runs, j.listed, j.passed, j.direct, j.late, j.known, j.stop, j.said)
    <3>1. To(r, "stream") = n BY <1>0, SetsPhase DEF To
    <3>2. job' = [job EXCEPT ![r] = n] BY <1>3, <2>2, <3>1 DEF Post
    <3>3. Good(n, backend, k) /\ Legal(j, n)
      BY <1>1, <1>2, <2>1, StreamAssumption
      DEF Rec, Good, Job, Counted, Flagged, Matches, Early, LocalPhases, RemotePhases, Phases,
      Legal, Turns, Seen, Rank
    <3>. HIDE DEF n, k
    <3>. QED BY <2>1, <3>2, <3>3, OneTask
  <2>3. CASE ~y
    <3>. DEFINE n == Rec("closed", j.left, j.runs, j.listed, j.passed, j.direct, j.late, j.known, j.stop, "error")
    <3>1. Ends(j, "error") = n BY <1>0, Whole, EndsOf
    <3>2. job' = [job EXCEPT ![r] = n] BY <1>3, <2>3, <3>1 DEF Post
    <3>3. Good(n, backend, k) /\ Legal(j, n)
      BY <1>1, <1>2, <2>1, StreamAssumption
      DEF Rec, Good, Job, Counted, Flagged, Matches, Early, LocalPhases, RemotePhases, Phases,
      Legal, Turns, Seen, Rank
    <3>. HIDE DEF n, k
    <3>. QED BY <2>1, <3>2, <3>3, OneTask
  <2>. QED BY <2>2, <2>3
<1>4. ASSUME NEW x \in BOOLEAN, NEW y \in BOOLEAN, Stop(r, x, y) PROVE Kept
  <2>. DEFINE k == IF y /\ task[r] = "running" THEN "stopped" ELSE task[r]
              z == IF x THEN "requested" ELSE "unconfirmed"
              n == Rec("closed", j.left, j.runs, j.listed, j.passed, j.direct, j.late, j.known, z, j.said)
  <2>1. task' = [task EXCEPT ![r] = k] /\ backend' = backend /\ j.phase = "stopping" /\ k \in Tasks
    BY <1>2, <1>4 DEF Stop, At, Tasks
  <2>2. [j EXCEPT !.phase = "closed", !.stop = z] = n BY <1>0, SetsStop
  <2>3. job' = [job EXCEPT ![r] = n] BY <1>4, <2>2 DEF Stop
  <2>4. x => y BY <1>4 DEF Stop
  <2>5. Good(n, backend, k) /\ Legal(j, n)
    BY <1>1, <1>2, <2>1, <2>4, StreamAssumption
    DEF Rec, Good, Job, Counted, Flagged, Matches, Early, LocalPhases, RemotePhases, Phases,
      Legal, Turns, Seen, Rank
  <2>. HIDE DEF n, k
  <2>. QED BY <2>1, <2>3, <2>5, OneTask
<1>5. CASE Announce(r)
  <2>0. PICK f \in BOOLEAN : f = TRUE OBVIOUS
  <2>. DEFINE n == Rec(j.phase, j.left, j.runs, j.listed, j.passed, j.direct, j.late, f, j.stop, j.said)
  <2>1. [j EXCEPT !.known = f] = n BY <1>0, SetsKnown
  <2>2. Becomes(r, n) /\ j.phase = "stream" BY <1>5, <2>0, <2>1 DEF Announce, At
  <2>3. Good(n, backend, task[r]) /\ Legal(j, n)
    <3>1. Good(n, backend, task[r]) /\ Turns(j, n)
      BY <1>1, <1>2, <2>0, <2>2, StreamAssumption
      DEF Rec, Good, Job, Counted, Flagged, Matches, Early, LocalPhases, RemotePhases, Phases,
        Turns, Seen
    <3>2. Rank(n) \in 0..(Rank(j) - 1)
      <4>1. n.phase = "stream" /\ n.known = TRUE BY <2>0, <2>2 DEF Rec
      <4>2. ~j.known BY <1>5 DEF Announce
      <4>3. Rank(j) = 5 BY <2>2, <4>2 DEF Rank
      <4>4. Rank(n) = 4 BY <4>1 DEF Rank
      <4>. QED BY <4>3, <4>4
    <3>. QED BY <3>1, <3>2 DEF Legal
  <2>. HIDE DEF n
  <2>. QED BY <2>2, <2>3, OneRecord
<1>6. CASE Loses(r)
  <2>. DEFINE n == Rec(IF j.phase = "stream" /\ j.known THEN "stopping" ELSE "closed",
                       j.left, j.runs, j.listed, j.passed, j.direct, j.late, j.known, j.stop, "error")
  <2>1. GivesUp(j, "error") = n BY <1>0, Whole, GivesUpOf
  <2>2. Becomes(r, n) /\ j.phase = "stream" BY <1>6, <2>1 DEF Loses, At
  <2>3. Good(n, backend, task[r]) /\ Legal(j, n)
    BY <1>1, <1>2, <2>2, StreamAssumption
    DEF Rec, Good, Job, Counted, Flagged, Matches, Early, LocalPhases, RemotePhases, Phases,
      Legal, Turns, Seen, Rank
  <2>. HIDE DEF n
  <2>. QED BY <2>2, <2>3, OneRecord
<1>7. ASSUME NEW x \in BOOLEAN, Finished(r, x) PROVE Kept
  <2>0. PICK f \in BOOLEAN : f = TRUE OBVIOUS
  <2>. DEFINE how == IF task[r] = "succeeded" /\ x THEN "succeeded" ELSE "error"
              k == Rec(j.phase, j.left, j.runs, j.listed, j.passed, j.direct, j.late, f, j.stop, j.said)
              n == Rec("closed", j.left, j.runs, j.listed, j.passed, j.direct, j.late, f, j.stop, how)
  <2>1. [j EXCEPT !.known = f] = k BY <1>0, SetsKnown
  <2>2. Ends(k, how) = n BY EndsOf
  <2>3. Becomes(r, n) /\ j.phase = "stream" /\ task[r] # "running"
    BY <1>7, <2>0, <2>1, <2>2 DEF Finished, At
  <2>4. Good(n, backend, task[r]) /\ Legal(j, n)
    BY <1>1, <1>2, <2>0, <2>3, StreamAssumption
    DEF Rec, Good, Job, Counted, Flagged, Matches, Early, LocalPhases, RemotePhases, Phases,
      Legal, Turns, Seen, Rank
  <2>. HIDE DEF n
  <2>. QED BY <2>3, <2>4, OneRecord
<1>8. ASSUME NEW how \in {"succeeded", "failed"}, TaskEnds(r, how) PROVE Kept
  <2>1. task' = [task EXCEPT ![r] = how] /\ backend' = backend /\ job' = job /\ task[r] = "running"
    BY <1>8 DEF TaskEnds
  <2>2. job' = [job EXCEPT ![r] = j] BY <2>1 DEF Inv, TypeOK
  <2>3. how \in Tasks BY DEF Tasks
  <2>4. Good(j, backend, how) /\ Legal(j, j) BY <1>1, <1>2, <2>1 DEF Good, Matches, Flagged, Legal, Turns
  <2>. QED BY <2>1, <2>2, <2>3, <2>4, OneTask
<1>. QED BY <1>3, <1>4, <1>5, <1>6, <1>7, <1>8

(* A reader leaves. *)
LEMMA LeaveSteps ==
  ASSUME Inv, NEW r \in Requests, Leave(r) \/ \E arrives \in BOOLEAN : LeaveStop(r, arrives)
  PROVE  Kept
<1>1. Good(job[r], backend, task[r]) BY Known
<1>0. job[r] \in Job BY <1>1 DEF Good
<1>2. backend \in {"local", "dify"} BY DEF Inv, TypeOK
<1>. DEFINE j == job[r]
<1>2a. task[r] \in Tasks BY DEF Inv, TypeOK
<1>4. CASE /\ j.phase \notin {"unsent", "stopping", "closed"}
           /\ Becomes(r, [GivesUp(j, "gone") EXCEPT !.late = j.phase \in {"reference", "execute"}])
  <2>0. PICK l \in BOOLEAN : l = (j.phase \in {"reference", "execute"})
    <3>1. CASE j.phase \in {"reference", "execute"} BY <3>1
    <3>2. CASE j.phase \notin {"reference", "execute"}
      <4>1. FALSE = (j.phase \in {"reference", "execute"}) BY <3>2
      <4>. QED BY <4>1
    <3>. QED BY <3>1, <3>2
  <2>. DEFINE to == IF j.phase = "stream" /\ j.known THEN "stopping" ELSE "closed"
              k == Rec(to, j.left, j.runs, j.listed, j.passed, j.direct, j.late, j.known, j.stop, "gone")
              n == Rec(to, j.left, j.runs, j.listed, j.passed, j.direct, l, j.known, j.stop, "gone")
  <2>1. GivesUp(j, "gone") = k BY <1>0, Whole, GivesUpOf
  <2>2. [k EXCEPT !.late = l] = n BY DEF Rec
  <2>3. Becomes(r, n)
    <3>. HIDE DEF k, n
    <3>. QED BY <1>4, <2>0, <2>1, <2>2
  <2>4. Good(n, backend, task[r]) /\ Legal(j, n)
    BY <1>1, <1>2, <1>4, <2>0, StreamAssumption
    DEF Rec, Good, Job, Counted, Flagged, Matches, Early, LocalPhases, RemotePhases, Phases,
      Legal, Turns, Seen, Rank
  <2>. HIDE DEF n
  <2>. QED BY <2>3, <2>4, OneRecord
<1>5. CASE /\ At(r, "post") /\ backend' = backend
           /\ job' = [job EXCEPT ![r] = Ends(@, "gone")]
           /\ task' = [task EXCEPT ![r] = "running"]
  <2>. DEFINE n == Rec("closed", j.left, j.runs, j.listed, j.passed, j.direct, j.late, j.known, j.stop, "gone")
  <2>1. Ends(j, "gone") = n BY <1>0, Whole, EndsOf
  <2>2. job' = [job EXCEPT ![r] = n] BY <1>5, <2>1
  <2>3. "running" \in Tasks BY DEF Tasks
  <2>4. Good(n, backend, "running") /\ Legal(j, n)
    BY <1>1, <1>2, <1>5, StreamAssumption
    DEF At, Rec, Good, Job, Counted, Flagged, Matches, Early, LocalPhases, RemotePhases, Phases,
      Legal, Turns, Seen, Rank
  <2>. HIDE DEF n
  <2>. QED BY <1>5, <2>2, <2>3, <2>4, OneTask
<1>6. ASSUME NEW y \in BOOLEAN, LeaveStop(r, y) PROVE Kept
  <2>. DEFINE k == IF y /\ task[r] = "running" THEN "stopped" ELSE task[r]
              m == Rec("closed", j.left, j.runs, j.listed, j.passed, j.direct, j.late, j.known, j.stop, "gone")
              n == Rec("closed", j.left, j.runs, j.listed, j.passed, j.direct, j.late, j.known, "unconfirmed", "gone")
  <2>1. task' = [task EXCEPT ![r] = k] /\ backend' = backend /\ j.phase = "stopping" /\ k \in Tasks
    BY <1>2a, <1>6 DEF LeaveStop, At, Tasks
  <2>2. Ends(j, "gone") = m BY <1>0, Whole, EndsOf
  <2>3. [m EXCEPT !.stop = "unconfirmed"] = n BY DEF Rec
  <2>4. job' = [job EXCEPT ![r] = n]
    <3>. HIDE DEF m, n
    <3>. QED BY <1>6, <2>2, <2>3 DEF LeaveStop
  <2>5. Good(n, backend, k) /\ Legal(j, n)
    BY <1>1, <1>2, <2>1, StreamAssumption
    DEF Rec, Good, Job, Counted, Flagged, Matches, Early, LocalPhases, RemotePhases, Phases,
      Legal, Turns, Seen, Rank
  <2>. HIDE DEF n, k
  <2>. QED BY <2>1, <2>4, <2>5, OneTask
<1>. QED BY <1>4, <1>5, <1>6 DEF Leave

(* The history is cleared: no other part of a record changes. *)
LEMMA ClearSteps == ASSUME Inv, Clear PROVE Kept
<1>1. PICK f \in BOOLEAN : f = FALSE OBVIOUS
<1>2. ASSUME NEW r \in Requests
      PROVE  job'[r] \in Job /\ Counted(job'[r]) /\ Flagged(job'[r]) /\ Matches(job'[r], backend, task[r])
  <2>. DEFINE j == job[r]
              n == Rec(j.phase, j.left, j.runs, f, j.passed, j.direct, j.late, j.known, j.stop, j.said)
  <2>1. j \in Job /\ Good(j, backend, task[r]) BY Known DEF Good
  <2>2. [j EXCEPT !.listed = f] = n BY <2>1, Whole DEF Rec
  <2>3. job'[r] = n BY <1>1, <2>2 DEF Clear
  <2>4. Good(n, backend, task[r])
    BY <2>1 DEF Rec, Good, Job, Counted, Flagged, Matches
  <2>. QED BY <2>3, <2>4 DEF Good
<1>3. job' = [r \in Requests |-> job'[r]] BY DEF Clear
<1>4. job' \in [Requests -> Job] BY <1>2, <1>3
<1>5. backend' = backend /\ task' = task BY DEF Clear
<1>6. Inv' BY <1>2, <1>4, <1>5 DEF Inv, TypeOK
<1>7. ASSUME NEW r \in Requests PROVE Seen(job'[r]) = Seen(job[r]) BY Known DEF Clear, Seen, Good, Job
<1>8. streams' = streams BY <1>7 DEF streams
<1>9. ASSUME NEW r \in Requests PROVE Same(job[r], job'[r])
  <2>1. PICK j : j = job[r] OBVIOUS
  <2>2. job'[r] = [j EXCEPT !.listed = f] BY <1>1, <2>1 DEF Clear
  <2>3. j \in Job BY <2>1, Known DEF Good
  <2>4. job'[r].listed = f BY <2>2, <2>3 DEF Job
  <2>. QED BY <2>1, <2>2, <2>4 DEF Same
<1>10. Fewer BY <1>9 DEF Fewer
<1>. QED BY <1>6, <1>8, <1>10 DEF Kept

LEMMA Steps == ASSUME Inv, [Next]_vars PROVE Kept
<1>1. CASE Next
  <2>1. CASE Clear BY <2>1, ClearSteps
  <2>2. ASSUME NEW r \in Requests,
               \/ \E merges \in BOOLEAN : Arrive(r, merges)
               \/ Serve(r) \/ Leave(r) \/ \E arrives \in BOOLEAN : LeaveStop(r, arrives)
               \/ \E how \in {"succeeded", "failed"} : TaskEnds(r, how)
        PROVE  Kept
    BY <2>2, StageSteps, RunSteps, EndSteps, RemoteSteps, LeaveSteps DEF Serve
  <2>. QED BY <1>1, <2>1, <2>2 DEF Next
<1>2. CASE UNCHANGED vars
  <2>1. Inv' BY <1>2 DEF vars, Inv, TypeOK
  <2>2. streams' = streams BY <1>2 DEF vars, streams
  <2>3. Fewer BY <1>2, Known, SameOf DEF vars, Fewer, Good
  <2>. QED BY <2>1, <2>2, <2>3 DEF Kept
<1>. QED BY <1>1, <1>2

THEOREM Invariance == Spec => []Inv
<1>1. Inv /\ [Next]_vars => Inv' BY Steps DEF Kept
<1>. QED BY Initially, <1>1, PTL DEF Spec

(* Every record stays a record. *)
THEOREM StreamsTyped == Spec => []TypeOK
<1>1. Inv => TypeOK BY DEF Inv
<1>. QED BY Invariance, <1>1, PTL

(* A stream says "succeeded" only for what was executed and passed, or what  *)
(* the service finished: whatever the interleaving, with any number of       *)
(* requests (local_workflow's _passed, workflow_client's workflow_finished). *)
THEOREM StreamsEarned == Spec => []SuccessIsEarned
<1>1. Inv => SuccessIsEarned
  BY DEF Inv, TypeOK, SuccessIsEarned, Counted, Flagged, Matches
<1>. QED BY Invariance, <1>1, PTL

(* Executions and corrections of a request stay within MAX_RETRIES, also     *)
(* when readers leave and the history is cleared in between (local_workflow).*)
THEOREM StreamsBounded == Spec => []EffortBounded
<1>1. Inv => EffortBounded BY DEF Inv, EffortBounded, Counted, Flagged
<1>. QED BY Invariance, <1>1, PTL

(* The task of a stream that has ended goes on only if its id never arrived  *)
(* or its stop was not confirmed (workflow_client's finally).                *)
THEOREM StreamsLeaveNothing == Spec => []NoTaskLeftBehind
<1>1. Inv => NoTaskLeftBehind BY DEF Inv, NoTaskLeftBehind, Matches
<1>. QED BY Invariance, <1>1, PTL

(* No request goes in circles: whatever happens to the model, the executor,  *)
(* the service or the reader, each step leaves less that may still happen to *)
(* a request (the correction loop of workflow_events counts down, and a      *)
(* stream that was given up is not taken up again).                          *)
THEOREM StreamsRunDown == Spec => RunsDown
<1>1. ASSUME Inv, [Next]_vars
      PROVE  \A r \in Requests :
               job'[r] # [job[r] EXCEPT !.listed = job'[r].listed] =>
                 Rank(job'[r]) \in 0..(Rank(job[r]) - 1)
  BY <1>1, Steps DEF Kept, Fewer, Same
<1>. QED BY Invariance, <1>1, PTL DEF Spec, RunsDown

(* The safety part of the promise: at most one result, and nothing after the *)
(* end of a stream, in both backends (EventStream).                          *)
THEOREM StreamsKeepOrder == Spec => Events!Init /\ [][Events!Next]_streams
<1>1. Init => Events!Init BY DEF Init, Events!Init, streams, Seen, Unsent
<1>2. Inv /\ [Next]_vars => [Events!Next]_streams BY Steps DEF Kept
<1>. QED BY Invariance, <1>1, <1>2, PTL DEF Spec
=============================================================================
