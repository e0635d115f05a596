-------------------------- MODULE ErrorCacheProofs --------------------------
(***************************************************************************)
(* For any requests, errors and bounds: however the two transactions of    *)
(* several recordings interleave, a row never claims more successes or     *)
(* uses than were recorded.                                                *)
(*                                                                         *)
(* The argument: what is claimed by a row is also claimed by every copy of *)
(* it that a request holds, and the totals only grow, so a row written     *)
(* from an old copy claims at most one more than the totals of that time.  *)
(***************************************************************************)
EXTENDS ErrorCache, TLAPS

(* What a row, or a copy of it, may claim about an error. *)
Fits(r, e) ==
  /\ r.wins <= wins[e]
  /\ r.hits <= writes[e]
  /\ r.wins + r.streak <= r.hits
  /\ r.streak < 5

JobInv ==
  \A w \in Workers :
    /\ stage[w] = "fix" => job[w].left # 0
    /\ stage[w] \in {"select", "write"} => job[w].credit # None
    /\ job[w].seen # None => stage[w] = "write" /\ Fits(job[w].seen, job[w].credit)

(* While no outcome was written over, the row counts what happened. *)
StreakInv ==
  \A e \in Errors : IF row[e] = None THEN fails[e] = 0
                    ELSE lost[e] \/ row[e].streak = fails[e]

CacheInv == TypeOK /\ NoInventedTrust /\ JobInv /\ StreakInv
-----------------------------------------------------------------------------
LEMMA RestIsJob ==
  ASSUME NEW k \in {"tool", "local"}, NEW n \in Nat
  PROVE  /\ Fresh(k, n) \in Job
         /\ Fresh(k, n).seen = None /\ Fresh(k, n).credit = None
BY DEF Fresh, Job, Outcomes

(* One more outcome keeps a row typed and fitting. *)
LEMMA CountedFits ==
  ASSUME NEW r, NEW p \in BOOLEAN, NEW x \in Nat, NEW y \in Nat,
         r.hits \in Nat, r.wins \in Nat, r.streak \in Nat,
         r.wins <= x, r.hits <= y, r.wins + r.streak <= r.hits, ~Retires(r, p), r.streak < 5
  PROVE  /\ Counted(r, p) \in Row
         /\ Counted(r, p).wins <= x + (IF p THEN 1 ELSE 0)
         /\ Counted(r, p).hits <= y + 1
         /\ Counted(r, p).wins + Counted(r, p).streak <= Counted(r, p).hits
         /\ Counted(r, p).streak < 5
<1>1. CASE p
  BY <1>1 DEF Counted, Row
<1>2. CASE ~p
  BY <1>2 DEF Counted, Row, Retires
<1> QED  BY <1>1, <1>2

LEMMA InitCache == Init => CacheInv
<1> SUFFICES ASSUME Init PROVE CacheInv
  OBVIOUS
<1> USE CacheAssumption DEF Init
<1>1. AtRest \in Job /\ AtRest.seen = None
  BY RestIsJob DEF AtRest
<1>2. TypeOK
  BY <1>1 DEF TypeOK, Stages
<1>3. NoInventedTrust
  BY DEF NoInventedTrust
<1>4. JobInv
  BY <1>1 DEF JobInv
<1>5. StreakInv
  BY DEF StreakInv
<1> QED  BY <1>2, <1>3, <1>4, <1>5 DEF CacheInv

LEMMA NextCache == CacheInv /\ [Next]_vars => CacheInv'
<1> SUFFICES ASSUME CacheInv, [Next]_vars PROVE CacheInv'
  OBVIOUS
<1> USE CacheAssumption DEF counts
<1>a. TypeOK /\ NoInventedTrust /\ JobInv /\ StreakInv
  BY DEF CacheInv
<1>r. AtRest \in Job /\ AtRest.seen = None /\ AtRest.credit = None
  BY RestIsJob DEF AtRest
(* A step of w that leaves the rows and the totals alone. *)
<1>b. ASSUME NEW w \in Workers, UNCHANGED <<row, counts>>,
             NEW s \in Stages, stage' = [stage EXCEPT ![w] = s],
             NEW j \in Job, job' = [job EXCEPT ![w] = j],
             s = "fix" => j.left # 0,
             s \in {"select", "write"} => j.credit # None,
             j.seen # None => s = "write" /\ Fits(j.seen, j.credit)
      PROVE  CacheInv'
  <2>1. TypeOK'
    BY <1>a, <1>b DEF TypeOK
  <2>2. NoInventedTrust'
    BY <1>a, <1>b DEF NoInventedTrust
  <2>3. JobInv'
    BY <1>a, <1>b DEF JobInv, Fits, TypeOK
  <2>4. StreakInv'
    BY <1>a, <1>b DEF StreakInv
  <2> QED  BY <2>1, <2>2, <2>3, <2>4 DEF CacheInv
<1>e. ASSUME NEW w \in Workers, End(w), UNCHANGED <<row, counts>> PROVE CacheInv'
  BY <1>b, <1>e, <1>r DEF End, Stages
<1>c. ASSUME NEW w \in Workers, NEW o \in Outcomes
      PROVE  /\ Onwards(job[w].left, o) \in {"idle", "fix"}
             /\ Onwards(job[w].left, o) = "fix" => job[w].left # 0
  BY DEF Onwards
<1>1. ASSUME NEW w \in Workers, NEW k \in {"tool", "local"}, NEW n \in 0..MaxRetries,
             Begin(w, k, n)
      PROVE  CacheInv'
  <2>1. Fresh(k, n) \in Job /\ Fresh(k, n).seen = None
    BY RestIsJob
  <2> QED  BY <1>1, <1>b, <2>1 DEF Begin, Stages
<1>2. ASSUME NEW w \in Workers, NEW o \in Outcomes, Execute(w, o) PROVE CacheInv'
  <2> DEFINE j    == job[w]
             next == Onwards(j.left, o)
             to   == IF j.credit # None /\ (j.kind = "local" \/ next = "idle")
                     THEN "select" ELSE next
             now  == [j EXCEPT !.outcome = o]
  <2>1. /\ stage' = [stage EXCEPT ![w] = to]
        /\ job' = [job EXCEPT ![w] = IF to = "idle" THEN AtRest ELSE now]
        /\ UNCHANGED <<row, counts>>
    BY <1>2 DEF Execute
  <2>2. stage[w] = "execute" /\ j \in Job /\ j.seen = None
    BY <1>a, <1>2 DEF Execute, TypeOK, JobInv
  <2>3. now \in Job /\ now.seen = None /\ now.credit = j.credit /\ now.left = j.left
    BY <2>2 DEF Job
  <2>4. next \in {"idle", "fix"} /\ (next = "fix" => j.left # 0)
    BY <1>c
  <2>5. to \in Stages /\ (to = "fix" => j.left # 0) /\ (to = "select" => j.credit # None)
        /\ to # "write"
    BY <2>4 DEF Stages
  <2> HIDE DEF j, next, to, now
  <2>6. CASE to = "idle"
    BY <1>b, <1>r, <2>1, <2>5, <2>6
  <2>7. CASE to # "idle"
    BY <1>b, <2>1, <2>3, <2>5, <2>7
  <2> QED  BY <2>6, <2>7
<1>3. ASSUME NEW w \in Workers, Fix(w) PROVE CacheInv'
  <2> DEFINE o == job[w].outcome
             j == [job[w] EXCEPT !.left = @ - 1, !.fixes = o,
                                 !.credit = IF o \in Errors THEN o ELSE @]
  <2>1. /\ stage' = [stage EXCEPT ![w] = "execute"]
        /\ job' = [job EXCEPT ![w] = j]
        /\ UNCHANGED <<row, counts>>
    BY <1>a, <1>3 DEF Fix, TypeOK, Job
  <2>2. stage[w] = "fix" /\ job[w] \in Job /\ job[w].seen = None /\ job[w].left # 0
    BY <1>a, <1>3 DEF Fix, TypeOK, JobInv
  <2>3. job[w].left - 1 \in Nat
    BY <2>2 DEF Job
  <2>4. j \in Job /\ j.seen = None
    BY <2>2, <2>3 DEF Job
  <2> HIDE DEF j
  <2> QED  BY <1>b, <2>1, <2>4 DEF Stages
<1>4. ASSUME NEW w \in Workers, NoFix(w) PROVE CacheInv'
  BY <1>e, <1>4 DEF NoFix
<1>5. ASSUME NEW w \in Workers, Select(w) PROVE CacheInv'
  <2> DEFINE j == [job[w] EXCEPT !.seen = row[job[w].credit]]
  <2>1. /\ stage' = [stage EXCEPT ![w] = "write"]
        /\ job' = [job EXCEPT ![w] = j]
        /\ UNCHANGED <<row, counts>>
    BY <1>5 DEF Select
  <2>2. job[w] \in Job /\ job[w].credit \in Errors
    BY <1>a, <1>5 DEF Select, TypeOK, JobInv, Job
  <2>3. j \in Job /\ j.credit = job[w].credit /\ j.seen = row[j.credit]
    BY <1>a, <2>2 DEF TypeOK, Job
  <2>4. j.seen # None => Fits(j.seen, j.credit)
    BY <1>a, <2>2, <2>3 DEF NoInventedTrust, Fits
  <2>5. j.credit # None
    BY <2>2, <2>3
  <2> HIDE DEF j
  <2> QED  BY <1>b, <2>1, <2>3, <2>4, <2>5 DEF Stages
(* What recording leaves of the request itself. *)
<1>d. ASSUME NEW w \in Workers, stage[w] = "write", Resume(w)
      PROVE  \E s \in Stages, j \in Job :
               /\ stage' = [stage EXCEPT ![w] = s] /\ job' = [job EXCEPT ![w] = j]
               /\ s = "fix" => j.left # 0
               /\ s \notin {"select", "write"} /\ j.seen = None
  <2>1. CASE End(w)
    BY <2>1, <1>r DEF End, Stages
  <2>2. CASE /\ Onwards(job[w].left, job[w].outcome) = "fix"
             /\ stage' = [stage EXCEPT ![w] = "fix"]
             /\ job' = [job EXCEPT ![w].credit = None, ![w].seen = None]
    <3> DEFINE j == [job[w] EXCEPT !.credit = None, !.seen = None]
    <3>1. job[w] \in Job /\ job[w].outcome \in Outcomes
      BY <1>a DEF TypeOK, Job
    <3>2. j \in Job /\ j.seen = None /\ j.left = job[w].left
      BY <3>1 DEF Job
    <3>3. j.left # 0
      BY <1>c, <2>2, <3>1, <3>2
    <3>4. job' = [job EXCEPT ![w] = j]
      BY <1>a, <2>2 DEF TypeOK, Job
    <3> HIDE DEF j
    <3> QED  BY <2>2, <3>2, <3>3, <3>4 DEF Stages
  <2> QED  BY <1>d, <2>1, <2>2 DEF Resume
<1>6. ASSUME NEW w \in Workers, WriteRaises(w) PROVE CacheInv'
  BY <1>b, <1>d, <1>6 DEF WriteRaises
<1>7. ASSUME NEW w \in Workers, Write(w) PROVE CacheInv'
  <2> DEFINE e == job[w].credit
             r == job[w].seen
             p == Passed(w)
             new == IF r = None THEN FirstRow(p)
                    ELSE IF Retires(r, p) \/ row[e] = None THEN None ELSE Counted(r, p)
             one == IF p THEN 1 ELSE 0
  <2>1. stage[w] = "write" /\ Resume(w)
    BY <1>7 DEF Write
  <2>2. PICK s \in Stages, j \in Job :
               /\ stage' = [stage EXCEPT ![w] = s] /\ job' = [job EXCEPT ![w] = j]
               /\ s = "fix" => j.left # 0
               /\ s \notin {"select", "write"} /\ j.seen = None
    BY <1>d, <2>1
  <2>3. e \in Errors /\ r \in Row \cup {None} /\ p \in BOOLEAN
    BY <1>a, <2>1 DEF TypeOK, JobInv, Job, Passed
  <2>4. /\ row' = [row EXCEPT ![e] = new]
        /\ fails' = [fails EXCEPT ![e] = IF p \/ row'[e] = None THEN 0 ELSE @ + 1]
        /\ writes' = [writes EXCEPT ![e] = @ + 1]
        /\ wins' = [wins EXCEPT ![e] = @ + one]
        /\ lost' = [lost EXCEPT ![e] = row'[e] # None /\ (@ \/ r # row[e])]
    BY <1>a, <1>7, <2>3 DEF Write, TypeOK
  <2>5. wins[e] \in Nat /\ writes[e] \in Nat /\ one \in Nat
    BY <1>a, <2>3 DEF TypeOK
  <2>6. new # None =>
          /\ new \in Row
          /\ new.wins <= wins[e] + one /\ new.hits <= writes[e] + 1
          /\ new.wins + new.streak <= new.hits /\ new.streak < 5
    <3>1. CASE r = None
      <4> DEFINE z == [hits |-> 0, wins |-> 0, streak |-> 0]
      <4>1. ~Retires(z, p)
        BY DEF Retires
      <4>2. /\ Counted(z, p) \in Row
            /\ Counted(z, p).wins <= wins[e] + one
            /\ Counted(z, p).hits <= writes[e] + 1
            /\ Counted(z, p).wins + Counted(z, p).streak <= Counted(z, p).hits
            /\ Counted(z, p).streak < 5
        <5>1. /\ z.hits \in Nat /\ z.wins \in Nat /\ z.streak \in Nat
              /\ z.wins <= wins[e] /\ z.hits <= writes[e]
              /\ z.wins + z.streak <= z.hits /\ z.streak < 5
          BY <2>5
        <5> HIDE DEF z, e, p
        <5> QED  BY <4>1, <5>1, <2>3, <2>5, CountedFits
      <4> QED  BY <3>1, <4>2 DEF FirstRow
    <3>2. CASE r # None /\ new # None
      <4>1. r \in Row /\ Fits(r, e) /\ ~Retires(r, p) /\ new = Counted(r, p)
        BY <1>a, <2>3, <3>2 DEF JobInv
      <4>2. /\ r.hits \in Nat /\ r.wins \in Nat /\ r.streak \in Nat
            /\ r.wins <= wins[e] /\ r.hits <= writes[e]
            /\ r.wins + r.streak <= r.hits /\ r.streak < 5
        BY <4>1 DEF Fits, Row
      <4> HIDE DEF r, e, p, new
      <4>3. /\ Counted(r, p) \in Row
            /\ Counted(r, p).wins <= wins[e] + (IF p THEN 1 ELSE 0)
            /\ Counted(r, p).hits <= writes[e] + 1
            /\ Counted(r, p).wins + Counted(r, p).streak <= Counted(r, p).hits
            /\ Counted(r, p).streak < 5
        BY <4>1, <4>2, <2>3, <2>5, CountedFits
      <4> QED  BY <4>1, <4>3
    <3> QED  BY <3>1, <3>2
  <2>11. r = row[e] /\ new # None /\ (row[e] # None => row[e].streak = fails[e])
           => new.streak = IF p THEN 0 ELSE fails[e] + 1
    <3> SUFFICES ASSUME r = row[e], new # None, row[e] # None => row[e].streak = fails[e]
                 PROVE  new.streak = IF p THEN 0 ELSE fails[e] + 1
      OBVIOUS
    <3>1. CASE r = None
      <4>1. row[e] = None /\ fails[e] = 0
        BY <1>a, <2>3, <3>1 DEF StreakInv
      <4> QED  BY <3>1, <4>1 DEF FirstRow, Counted
    <3>2. CASE r # None
      BY <3>2 DEF Counted
    <3> QED  BY <3>1, <3>2
  <2> HIDE DEF new, one, p, r
  <2>7. TypeOK'
    <3>1. row' \in [Errors -> Row \cup {None}]
      BY <1>a, <2>4, <2>6 DEF TypeOK
    <3>2. fails' \in [Errors -> Nat] /\ writes' \in [Errors -> Nat] /\ wins' \in [Errors -> Nat]
      BY <1>a, <2>3, <2>4, <2>5 DEF TypeOK
    <3>3. lost' \in [Errors -> BOOLEAN]
      BY <1>a, <2>3, <2>4 DEF TypeOK
    <3> QED  BY <1>a, <2>2, <3>1, <3>2, <3>3 DEF TypeOK
  <2>8. \A x \in Errors : wins[x] <= wins'[x] /\ writes[x] <= writes'[x]
    BY <1>a, <2>3, <2>4, <2>5 DEF TypeOK
  <2>9. NoInventedTrust'
    <3>1. ASSUME NEW x \in Errors, x # e, row'[x] # None
          PROVE  (/\ row[x].wins <= wins[x] /\ row[x].hits <= writes[x]
                  /\ row[x].wins + row[x].streak <= row[x].hits /\ row[x].streak < 5)'
      <4>1. row'[x] = row[x] /\ wins'[x] = wins[x] /\ writes'[x] = writes[x]
        BY <1>a, <2>3, <2>4, <3>1 DEF TypeOK
      <4> QED  BY <1>a, <3>1, <4>1 DEF NoInventedTrust
    <3>2. row'[e] = new /\ wins'[e] = wins[e] + one /\ writes'[e] = writes[e] + 1
      BY <1>a, <2>3, <2>4 DEF TypeOK
    <3>3. row'[e] # None =>
            /\ row'[e].wins <= wins'[e] /\ row'[e].hits <= writes'[e]
            /\ row'[e].wins + row'[e].streak <= row'[e].hits /\ row'[e].streak < 5
      <4> HIDE DEF e
      <4> QED  BY <2>6, <3>2
    <3> HIDE DEF e
    <3> QED  BY <2>3, <3>1, <3>3 DEF NoInventedTrust
  <2>10. JobInv'
    <3>1. ASSUME NEW v \in Workers, v # w, job[v].seen # None
          PROVE  Fits(job[v].seen, job[v].credit)'
      <4>1. Fits(job[v].seen, job[v].credit) /\ job[v].credit \in Errors /\ job[v].seen \in Row
        BY <1>a, <3>1 DEF JobInv, TypeOK, Job
      <4>2. job'[v] = job[v]
        BY <1>a, <2>2, <3>1 DEF TypeOK
      <4>3. /\ wins[job[v].credit] \in Nat /\ writes[job[v].credit] \in Nat
            /\ wins'[job[v].credit] \in Nat /\ writes'[job[v].credit] \in Nat
            /\ wins[job[v].credit] <= wins'[job[v].credit]
            /\ writes[job[v].credit] <= writes'[job[v].credit]
        BY <1>a, <2>7, <2>8, <4>1 DEF TypeOK
      <4> QED  BY <4>1, <4>2, <4>3 DEF Fits, Row
    <3> QED  BY <1>a, <2>2, <3>1 DEF JobInv, TypeOK
  <2>12. StreakInv'
    <3>1. ASSUME NEW x \in Errors, x # e
          PROVE  IF row'[x] = None THEN fails'[x] = 0
                 ELSE lost'[x] \/ row'[x].streak = fails'[x]
      <4>1. row'[x] = row[x] /\ fails'[x] = fails[x] /\ lost'[x] = lost[x]
        BY <1>a, <2>3, <2>4, <3>1 DEF TypeOK
      <4> QED  BY <1>a, <3>1, <4>1 DEF StreakInv
    <3>2. /\ row'[e] = new
          /\ fails'[e] = IF p \/ new = None THEN 0 ELSE fails[e] + 1
          /\ lost'[e] = (new # None /\ (lost[e] \/ r # row[e]))
      BY <1>a, <2>3, <2>4 DEF TypeOK
    <3>3. row[e] # None => lost[e] \/ row[e].streak = fails[e]
      BY <1>a, <2>3 DEF StreakInv
    <3>4. IF row'[e] = None THEN fails'[e] = 0 ELSE lost'[e] \/ row'[e].streak = fails'[e]
      <4> HIDE DEF e
      <4> QED  BY <2>11, <3>2, <3>3
    <3> HIDE DEF e
    <3> QED  BY <2>3, <3>1, <3>4 DEF StreakInv
  <2> QED  BY <2>7, <2>9, <2>10, <2>12 DEF CacheInv
<1>8. ASSUME NEW w \in Workers, Crash(w) PROVE CacheInv'
  BY <1>e, <1>8 DEF Crash
<1>9. CASE UNCHANGED vars
  BY <1>a, <1>9 DEF vars, CacheInv, TypeOK, NoInventedTrust, JobInv, StreakInv, Fits
<1> QED  BY <1>1, <1>2, <1>3, <1>4, <1>5, <1>6, <1>7, <1>8, <1>9 DEF Next

(* The rows and the requests stay well typed; in particular no request       *)
(* corrects more often than it may (workflow_events, the retry tool).        *)
THEOREM CacheTypes == Spec => []TypeOK
<1>1. CacheInv => TypeOK
  BY DEF CacheInv
<1> QED  BY <1>1, InitCache, NextCache, PTL DEF Spec

(* No interleaving of recordings makes a row claim more than happened        *)
(* (_update_cache).                                                          *)
THEOREM TrustEarned == Spec => []NoInventedTrust
<1>1. CacheInv => NoInventedTrust
  BY DEF CacheInv
<1> QED  BY <1>1, InitCache, NextCache, PTL DEF Spec

(* Only an outcome written over by another leaves an error trusted after its *)
(* third failure in a row, or kept after its fifth (_update_cache).          *)
THEOREM OnlyRacesKeep == Spec => []DoubtedUnlessLost
<1>1. CacheInv => DoubtedUnlessLost
  <2> SUFFICES ASSUME CacheInv, NEW e \in Errors, row[e] # None, ~lost[e]
               PROVE  DoubtedOrGone(e)
    BY DEF DoubtedUnlessLost
  <2>1. /\ row[e].hits \in Nat /\ row[e].wins \in Nat /\ row[e].streak \in Nat
        /\ row[e].wins + row[e].streak <= row[e].hits /\ row[e].streak < 5
    BY DEF CacheInv, TypeOK, NoInventedTrust, Row
  <2>2. fails[e] = row[e].streak
    BY DEF CacheInv, StreakInv
  <2>3. row[e].streak >= 3 => ~Trusted(row[e])
    BY <2>1 DEF Trusted
  <2> QED  BY <2>1, <2>2, <2>3 DEF DoubtedOrGone
<1> QED  BY <1>1, InitCache, NextCache, PTL DEF Spec
-----------------------------------------------------------------------------
(* Before the workflow asks for a correction it has no outcome to record, and *)
(* the one it records after it is for the failure that correction was for.   *)
CreditInv ==
  \A w \in Workers : job[w].kind = "local" =>
    /\ stage[w] = "fix" => job[w].credit = None
    /\ stage[w] = "execute" => job[w].credit \in {None, job[w].fixes}

(* One step of one request, the others left alone. *)
LEMMA CreditOfOne ==
  ASSUME CacheInv, CreditInv, NEW w \in Workers, NEW s, NEW j,
         stage' = [stage EXCEPT ![w] = s], job' = [job EXCEPT ![w] = j],
         j.kind = "local" => /\ s = "fix" => j.credit = None
                             /\ s = "execute" => j.credit \in {None, j.fixes}
  PROVE  CreditInv'
BY DEF CacheInv, TypeOK, CreditInv

LEMMA StepCredit == CacheInv /\ CreditInv /\ [Next]_vars => CreditInv'
<1> SUFFICES ASSUME CacheInv, CreditInv, [Next]_vars PROVE CreditInv'
  OBVIOUS
<1> USE CacheAssumption DEF Fresh, AtRest
<1>j. job \in [Workers -> Job]
  BY DEF CacheInv, TypeOK
<1>e. ASSUME NEW w \in Workers, End(w) PROVE CreditInv'
  BY <1>e, CreditOfOne DEF End
<1>r. ASSUME NEW w \in Workers, Resume(w) PROVE CreditInv'
  <2>1. CASE /\ stage' = [stage EXCEPT ![w] = "fix"]
             /\ job' = [job EXCEPT ![w].credit = None, ![w].seen = None]
    <3> DEFINE j == [job[w] EXCEPT !.credit = None, !.seen = None]
    <3>1. job' = [job EXCEPT ![w] = j] /\ j.credit = None
      BY <1>j, <2>1 DEF Job
    <3> HIDE DEF j
    <3> QED  BY <2>1, <3>1, CreditOfOne
  <2> QED  BY <1>e, <1>r, <2>1 DEF Resume
<1>1. ASSUME NEW w \in Workers, NEW k \in {"tool", "local"}, NEW n \in 0..MaxRetries,
             Begin(w, k, n)
      PROVE  CreditInv'
  BY <1>1, CreditOfOne DEF Begin
<1>2. ASSUME NEW w \in Workers, NEW o \in Outcomes, Execute(w, o) PROVE CreditInv'
  <2> DEFINE j  == job[w]
             to == IF j.credit # None /\ (j.kind = "local" \/ Onwards(j.left, o) = "idle")
                   THEN "select" ELSE Onwards(j.left, o)
             now == IF to = "idle" THEN AtRest ELSE [j EXCEPT !.outcome = o]
  <2>1. stage' = [stage EXCEPT ![w] = to] /\ job' = [job EXCEPT ![w] = now]
    BY <1>2 DEF Execute
  <2>2. to # "execute"
    BY DEF Onwards
  <2>3. j.kind = "local" /\ to = "fix" => j.credit = None
    OBVIOUS
  <2>4. to # "idle" => now.kind = j.kind /\ now.credit = j.credit
    BY <1>j DEF Job
  <2>5. now.kind = "local" => (to = "fix" => now.credit = None)
    BY <2>3, <2>4
  <2> HIDE DEF to, now
  <2> QED  BY <2>1, <2>2, <2>5, CreditOfOne
<1>3. ASSUME NEW w \in Workers, Fix(w) PROVE CreditInv'
  <2> DEFINE o == job[w].outcome
             j == [job[w] EXCEPT !.left = @ - 1, !.fixes = o,
                                 !.credit = IF o \in Errors THEN o ELSE @]
  <2>1. /\ stage' = [stage EXCEPT ![w] = "execute"] /\ job' = [job EXCEPT ![w] = j]
        /\ stage[w] = "fix"
    BY <1>3, <1>j DEF Fix, Job
  <2>2. /\ j.kind = job[w].kind /\ j.fixes = o
        /\ j.credit = IF o \in Errors THEN o ELSE job[w].credit
    BY <1>j DEF Job
  <2>3. j.kind = "local" => j.credit \in {None, j.fixes}
    BY <2>1, <2>2 DEF CreditInv
  <2> HIDE DEF j
  <2> QED  BY <2>1, <2>3, CreditOfOne
<1>4. ASSUME NEW w \in Workers, Select(w) PROVE CreditInv'
  <2> DEFINE j == [job[w] EXCEPT !.seen = row[job[w].credit]]
  <2>1. stage' = [stage EXCEPT ![w] = "write"] /\ job' = [job EXCEPT ![w] = j]
    BY <1>4 DEF Select
  <2> HIDE DEF j
  <2> QED  BY <2>1, CreditOfOne
<1>5. CASE UNCHANGED vars
  BY <1>5 DEF vars, CreditInv
<1> QED  BY <1>e, <1>r, <1>1, <1>2, <1>3, <1>4, <1>5
         DEF Next, NoFix, Write, WriteRaises, Crash

(* The workflow never records an outcome for an error other than the one its *)
(* latest correction was asked for (pending_cache_update): what the cache    *)
(* counts for an error is about corrections of that error.                   *)
THEOREM OutcomesCredited == Spec => OutcomeOfItsFix
<1> DEFINE Credited ==
      \A w \in Workers : stage[w] = "execute" /\ stage'[w] = "select" /\ job[w].kind = "local" =>
        job[w].credit = job[w].fixes
<1>1. Init => CreditInv
  BY DEF Init, CreditInv, AtRest, Fresh
<1>2. CacheInv /\ CreditInv /\ [Next]_vars => [Credited]_vars
  <2> SUFFICES ASSUME CacheInv, CreditInv, Next, NEW w \in Workers,
                      stage[w] = "execute", stage'[w] = "select", job[w].kind = "local"
               PROVE  job[w].credit = job[w].fixes
    OBVIOUS
  <2>1. PICK v \in Workers : \E o \in Outcomes : Execute(v, o)
    BY DEF Next, Begin, Fix, NoFix, Select, Write, WriteRaises, Crash, Resume, End,
           CacheInv, TypeOK
  <2>2. v = w
    BY <2>1 DEF Execute, CacheInv, TypeOK
  <2>3. job[w].credit # None
    BY <2>1, <2>2 DEF Execute, CacheInv, TypeOK, Onwards
  <2> QED  BY <2>3 DEF CreditInv
<1>3. CacheInv /\ [Next]_vars => CacheInv'
  BY NextCache
<1> HIDE DEF Credited
<1>4. Spec => [][Credited]_vars
  BY <1>1, <1>2, <1>3, InitCache, StepCredit, PTL DEF Spec
<1> QED  BY <1>4 DEF OutcomeOfItsFix, Credited
=============================================================================
