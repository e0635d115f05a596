--------------------------- MODULE ExecutorProofs ---------------------------
(***************************************************************************)
(* For any clients, processes and number of forks: nothing of a request's  *)
(* code is left when the executor answers it or takes the next one.        *)
(*                                                                         *)
(* The sweep only looks at the server's own children.  That is enough      *)
(* because every process hangs from the server by a chain of living        *)
(* parents, each started before its child: if the server has no child, the *)
(* process started first among those left would have no parent at all.     *)
(***************************************************************************)
EXTENDS Executor, WellFoundedInduction, TLAPS

(* The parent of a process is the server, or alive and older. *)
TreeInv ==
  \A p \in Procs : Exists(p) =>
    \/ parent[p] = Server
    \/ state[parent[p]] = "alive" /\ born[parent[p]] < born[p]

BornInv == \A p \in Procs : born[p] <= forks

ProcsOK ==
  /\ state \in [Procs -> {"none", "alive", "zombie"}]
  /\ parent \in [Procs -> Procs \cup {Server}]
  /\ born \in [Procs -> Nat]
  /\ group \in SUBSET Procs
  /\ forks \in Nat

ExecutorInv == TypeOK /\ TreeInv /\ BornInv /\ NothingSurvives
-----------------------------------------------------------------------------
(* A death keeps the tree: the orphans hang from the server. *)
LEMMA DieKeepsTree ==
  ASSUME ProcsOK, TreeInv, BornInv,
         NEW D, NEW R, D \subseteq {p \in Procs : Exists(p)}, Die(D, R)
  PROVE  ProcsOK' /\ TreeInv' /\ BornInv'
<1> USE ExecutorAssumption DEF Die, ProcsOK, Exists
<1>1. ProcsOK'
  OBVIOUS
<1>2. BornInv'
  BY DEF BornInv
<1>3. ASSUME NEW p \in Procs, Exists(p)'
      PROVE  (\/ parent[p] = Server
              \/ state[parent[p]] = "alive" /\ born[parent[p]] < born[p])'
  <2>1. Exists(p)
    BY <1>3
  <2>2. CASE parent[p] \in D \cup R
    BY <2>2
  <2>3. CASE parent[p] \notin D \cup R
    <3>1. parent'[p] = parent[p]
      BY <2>3
    <3>2. CASE parent[p] = Server
      BY <3>1, <3>2
    <3>3. CASE parent[p] # Server
      <4>1. parent[p] \in Procs /\ state[parent[p]] = "alive" /\ born[parent[p]] < born[p]
        BY <2>1, <3>3 DEF TreeInv
      <4>2. state'[parent[p]] = "alive"
        BY <2>3, <4>1
      <4> QED  BY <3>1, <4>1, <4>2
    <3> QED  BY <3>2, <3>3
  <2> QED  BY <2>2, <2>3
<1> QED  BY <1>1, <1>2, <1>3 DEF TreeInv

(* So does a start: the new process is the youngest and nobody's parent. *)
LEMMA StartKeepsTree ==
  ASSUME ProcsOK, TreeInv, BornInv,
         NEW p \in Procs, NEW x \in Procs \cup {Server},
         x = Server \/ state[x] = "alive", Start(p, x)
  PROVE  /\ TreeInv' /\ BornInv'
         /\ state' \in [Procs -> {"none", "alive", "zombie"}]
         /\ parent' \in [Procs -> Procs \cup {Server}]
         /\ born' \in [Procs -> Nat]
         /\ forks' \in Nat
<1> USE ExecutorAssumption DEF Start, ProcsOK, Exists
<1>1. /\ state' \in [Procs -> {"none", "alive", "zombie"}]
      /\ parent' \in [Procs -> Procs \cup {Server}]
      /\ born' \in [Procs -> Nat]
      /\ forks' \in Nat
  OBVIOUS
<1>2. BornInv'
  BY DEF BornInv
<1>3. ASSUME NEW q \in Procs, Exists(q)'
      PROVE  (\/ parent[q] = Server
              \/ state[parent[q]] = "alive" /\ born[parent[q]] < born[q])'
  <2>1. CASE q = p
    <3>1. parent'[q] = x /\ born'[q] = forks + 1
      BY <2>1
    <3>2. CASE x = Server
      BY <3>1, <3>2
    <3>3. CASE x # Server
      <4>1. x \in Procs /\ x # p /\ state[x] = "alive" /\ born[x] <= forks
        BY <3>3 DEF BornInv
      <4>2. state'[x] = "alive" /\ born'[x] = born[x]
        BY <4>1
      <4>3. born[x] < forks + 1
        BY <4>1
      <4> QED  BY <3>1, <4>2, <4>3
    <3> QED  BY <3>2, <3>3
  <2>2. CASE q # p
    <3>1. Exists(q) /\ parent'[q] = parent[q] /\ born'[q] = born[q]
      BY <1>3, <2>2
    <3>2. CASE parent[q] = Server
      BY <3>1, <3>2
    <3>3. CASE parent[q] # Server
      <4>1. parent[q] \in Procs /\ state[parent[q]] = "alive" /\ born[parent[q]] < born[q]
        BY <3>1, <3>3 DEF TreeInv
      <4>2. parent[q] # p
        BY <4>1
      <4> QED  BY <3>1, <4>1, <4>2
    <3> QED  BY <3>2, <3>3
  <2> QED  BY <2>1, <2>2
<1> QED  BY <1>1, <1>2, <1>3 DEF TreeInv

(* A server without children is alone. *)
LEMMA NoneLeft ==
  ASSUME ProcsOK, TreeInv, Children(Server) = {}
  PROVE  \A p \in Procs : ~Exists(p)
<1> DEFINE Left == {p \in Procs : Exists(p)}
           Ages == {born[p] : p \in Left}
<1> SUFFICES ASSUME Left # {} PROVE FALSE
  OBVIOUS
<1>1. Ages \subseteq Nat /\ Ages # {}
  BY DEF ProcsOK
<1>2. PICK a \in Ages : \A b \in Ages : ~(<<b, a>> \in OpToRel(<, Nat))
  <2> HIDE DEF Ages
  <2> QED  BY <1>1, NatLessThanWellFounded, WFMin, Zenon
<1>3. \A b \in Ages : ~(b < a)
  BY <1>1, <1>2, Zenon DEF OpToRel
<1>4. PICK p \in Left : a = born[p]
  BY <1>2
<1>5. parent[p] # Server
  BY <1>4 DEF Children
<1>6. parent[p] \in Procs /\ state[parent[p]] = "alive" /\ born[parent[p]] < born[p]
  BY <1>4, <1>5 DEF TreeInv, ProcsOK
<1>7. parent[p] \in Left
  BY <1>6 DEF Exists
<1> QED  BY <1>3, <1>4, <1>6, <1>7
-----------------------------------------------------------------------------
LEMMA InitExecutor == Init => ExecutorInv
<1> SUFFICES ASSUME Init PROVE ExecutorInv
  OBVIOUS
<1> USE ExecutorAssumption DEF Init
<1>1. TypeOK
  BY DEF TypeOK, Phases
<1>2. TreeInv /\ BornInv /\ NothingSurvives
  BY DEF TreeInv, BornInv, NothingSurvives, Exists
<1> QED  BY <1>1, <1>2 DEF ExecutorInv

LEMMA NextExecutor == ExecutorInv /\ [Next]_vars => ExecutorInv'
<1> SUFFICES ASSUME ExecutorInv, [Next]_vars PROVE ExecutorInv'
  OBVIOUS
<1> USE ExecutorAssumption
<1>a. TypeOK /\ ProcsOK /\ TreeInv /\ BornInv /\ NothingSurvives
  BY DEF ExecutorInv, TypeOK, ProcsOK
(* Steps that leave the processes alone. *)
<1>b. ASSUME UNCHANGED procs PROVE TreeInv' /\ BornInv'
  BY <1>a, <1>b DEF procs, TreeInv, BornInv, Exists
<1>c. ASSUME UNCHANGED procs, phase' = phase PROVE NothingSurvives'
  BY <1>a, <1>c DEF procs, NothingSurvives, Exists
(* A live process: the server is at work. *)
<1>d. ASSUME NEW p \in Procs, Exists(p) PROVE phase \notin {"idle", "done"}
  BY <1>a, <1>d DEF NothingSurvives
(* Steps by which processes die, away from rest. *)
<1>e. ASSUME NEW D, NEW R, D \subseteq {p \in Procs : Exists(p)}, Die(D, R)
      PROVE  ProcsOK' /\ TreeInv' /\ BornInv'
  BY <1>a, <1>e, DieKeepsTree
<1>1. ASSUME NEW c \in Clients, Post(c) PROVE ExecutorInv'
  <2>1. TypeOK'
    BY <1>a, <1>1 DEF TypeOK, Post, procs
  <2> QED  BY <1>1, <1>b, <1>c, <2>1 DEF Post, ExecutorInv
<1>2. ASSUME NEW c \in Clients, GiveUp(c) PROVE ExecutorInv'
  <2>1. TypeOK'
    BY <1>a, <1>2 DEF TypeOK, GiveUp, procs
  <2> QED  BY <1>2, <1>b, <1>c, <2>1 DEF GiveUp, ExecutorInv
<1>3. ASSUME NEW p \in Procs, NEW q \in Procs, Fork(p, q) PROVE ExecutorInv'
  <2>1. state[p] = "alive" /\ Start(q, p)
    BY <1>3 DEF Fork
  <2>2. /\ TreeInv' /\ BornInv'
        /\ state' \in [Procs -> {"none", "alive", "zombie"}]
        /\ parent' \in [Procs -> Procs \cup {Server}]
        /\ born' \in [Procs -> Nat]
        /\ forks' \in Nat
    BY <1>a, <2>1, StartKeepsTree
  <2>3. TypeOK'
    BY <1>a, <1>3, <2>2 DEF TypeOK, Fork, requests
  <2>4. phase \notin {"idle", "done"} /\ phase' = phase
    BY <1>d, <1>3, <2>1 DEF Exists, Fork
  <2> QED  BY <2>2, <2>3, <2>4 DEF ExecutorInv, NothingSurvives
<1>4. ASSUME NEW p \in Procs, Setsid(p) PROVE ExecutorInv'
  <2>1. TypeOK'
    BY <1>a, <1>4 DEF TypeOK, Setsid, requests
  <2>2. TreeInv' /\ BornInv' /\ NothingSurvives'
    BY <1>a, <1>4 DEF Setsid, TreeInv, BornInv, NothingSurvives, Exists
  <2> QED  BY <2>1, <2>2 DEF ExecutorInv
<1>5. ASSUME NEW p \in Procs, Exit(p) PROVE ExecutorInv'
  <2>1. ProcsOK' /\ TreeInv' /\ BornInv'
    BY <1>e, <1>5 DEF Exit, Exists
  <2>2. TypeOK'
    BY <1>a, <1>5, <2>1 DEF TypeOK, ProcsOK, Exit, requests
  <2>3. phase \notin {"idle", "done"} /\ phase' = phase
    BY <1>d, <1>5 DEF Exists, Exit
  <2> QED  BY <2>1, <2>2, <2>3 DEF ExecutorInv, NothingSurvives
<1>6. ASSUME NEW p \in Procs, NEW q \in Procs, Wait(p, q) PROVE ExecutorInv'
  <2>1. ProcsOK' /\ TreeInv' /\ BornInv'
    BY <1>e, <1>6 DEF Wait
  <2>2. TypeOK'
    BY <1>a, <1>6, <2>1 DEF TypeOK, ProcsOK, Wait, requests
  <2>3. phase \notin {"idle", "done"} /\ phase' = phase
    BY <1>d, <1>6 DEF Exists, Wait
  <2> QED  BY <2>1, <2>2, <2>3 DEF ExecutorInv, NothingSurvives
<1>7. ASSUME NEW p \in Procs, Accept(p) PROVE ExecutorInv'
  <2>1. Start(p, Server)
    BY <1>7 DEF Accept
  <2>2. /\ TreeInv' /\ BornInv'
        /\ state' \in [Procs -> {"none", "alive", "zombie"}]
        /\ parent' \in [Procs -> Procs \cup {Server}]
        /\ born' \in [Procs -> Nat]
        /\ forks' \in Nat
    BY <1>a, <2>1, StartKeepsTree
  <2>3. Head(backlog) \in Clients /\ Tail(backlog) \in Seq(Clients)
    BY <1>a, <1>7 DEF TypeOK, Accept
  <2>4. TypeOK'
    BY <1>a, <1>7, <2>2, <2>3 DEF TypeOK, Accept, Phases
  <2> QED  BY <1>7, <2>2, <2>4 DEF ExecutorInv, NothingSurvives, Accept
<1>8. CASE Refuse
  <2>1. Head(backlog) \in Clients /\ Tail(backlog) \in Seq(Clients)
    BY <1>a, <1>8 DEF TypeOK, Refuse
  <2>2. TypeOK'
    BY <1>a, <1>8, <2>1 DEF TypeOK, Refuse, procs
  <2> QED  BY <1>8, <1>b, <1>c, <2>2 DEF Refuse, ExecutorInv
<1>9. CASE RootEnds
  <2>1. ProcsOK' /\ TreeInv' /\ BornInv'
    BY <1>e, <1>9 DEF RootEnds
  <2>2. TypeOK'
    BY <1>a, <1>9, <2>1 DEF TypeOK, ProcsOK, RootEnds, requests, Phases
  <2> QED  BY <1>9, <2>1, <2>2 DEF ExecutorInv, NothingSurvives, RootEnds
<1>10. CASE Deadline
  <2>1. TypeOK'
    BY <1>a, <1>10 DEF TypeOK, Deadline, requests, procs, Phases
  <2> QED  BY <1>10, <1>b, <2>1 DEF Deadline, ExecutorInv, NothingSurvives
<1>11. CASE KillGroup
  <2>1. ProcsOK' /\ TreeInv' /\ BornInv'
    <3>1. {p \in group : state[p] = "alive"} \subseteq {p \in Procs : Exists(p)}
      BY <1>a DEF ProcsOK, Exists
    <3> QED  BY <1>e, <1>11, <3>1 DEF KillGroup
  <2>2. TypeOK'
    BY <1>a, <1>11, <2>1 DEF TypeOK, ProcsOK, KillGroup, requests, Phases
  <2> QED  BY <1>11, <2>1, <2>2 DEF ExecutorInv, NothingSurvives, KillGroup
<1>12. CASE List
  <2>1. TypeOK'
    BY <1>a, <1>12 DEF TypeOK, List, requests, procs, Phases, Children
  <2> QED  BY <1>12, <1>b, <2>1 DEF List, ExecutorInv, NothingSurvives
<1>13. ASSUME NEW p \in Procs, Kill(p) PROVE ExecutorInv'
  <2>1. ProcsOK' /\ TreeInv' /\ BornInv'
    <3>1. {p} \cap {q \in Procs : state[q] = "alive"} \subseteq {q \in Procs : Exists(q)}
      BY DEF Exists
    <3> QED  BY <1>e, <1>13, <3>1 DEF Kill
  <2>2. TypeOK'
    BY <1>a, <1>13, <2>1 DEF TypeOK, ProcsOK, Kill, requests, Phases
  <2> QED  BY <1>13, <2>1, <2>2 DEF ExecutorInv, NothingSurvives, Kill
<1>14. CASE Reap
  <2>1. ProcsOK' /\ TreeInv' /\ BornInv'
    BY <1>e, <1>14 DEF Reap
  <2>2. TypeOK'
    BY <1>a, <1>14, <2>1 DEF TypeOK, ProcsOK, Reap, requests, Phases
  <2> QED  BY <1>14, <2>1, <2>2 DEF ExecutorInv, NothingSurvives, Reap
<1>15. CASE LastReap
  <2>1. ProcsOK' /\ TreeInv' /\ BornInv'
    BY <1>e, <1>15 DEF LastReap
  <2>2. TypeOK'
    BY <1>a, <1>15, <2>1 DEF TypeOK, ProcsOK, LastReap, requests, Phases
  <2> QED  BY <1>15, <2>1, <2>2 DEF ExecutorInv, NothingSurvives, LastReap
<1>16. CASE LastLook
  <2>1. TypeOK'
    BY <1>a, <1>16 DEF TypeOK, LastLook, requests, procs, Phases
  <2>2. CASE Children(Server) = {}
    <3>1. \A p \in Procs : ~Exists(p)
      BY <1>a, <2>2, NoneLeft
    <3>2. NothingSurvives'
      BY <1>16, <3>1 DEF NothingSurvives, LastLook, procs, Exists
    <3> QED  BY <1>16, <1>b, <2>1, <3>2 DEF LastLook, ExecutorInv
  <2>3. CASE Children(Server) # {}
    BY <1>16, <1>b, <2>1, <2>3 DEF LastLook, ExecutorInv, NothingSurvives
  <2> QED  BY <2>2, <2>3
<1>17. CASE Answer
  <2>1. TypeOK'
    BY <1>a, <1>17 DEF TypeOK, Answer, procs, Phases
  <2>2. NothingSurvives'
    BY <1>a, <1>17 DEF NothingSurvives, Answer, procs, Exists
  <2> QED  BY <1>17, <1>b, <2>1, <2>2 DEF Answer, ExecutorInv
<1>18. CASE Restart
  <2>1. TypeOK'
    BY <1>a, <1>18 DEF TypeOK, Restart, Phases
  <2>2. TreeInv' /\ BornInv' /\ NothingSurvives'
    BY <1>a, <1>18 DEF Restart, TreeInv, BornInv, NothingSurvives, Exists
  <2> QED  BY <2>1, <2>2 DEF ExecutorInv
<1>19. CASE UNCHANGED vars
  BY <1>a, <1>19 DEF vars, requests, procs, ExecutorInv, TypeOK, TreeInv, BornInv,
     NothingSurvives, Exists
<1> QED  BY <1>1, <1>2, <1>3, <1>4, <1>5, <1>6, <1>7, <1>8, <1>9, <1>10, <1>11, <1>12,
            <1>13, <1>14, <1>15, <1>16, <1>17, <1>18, <1>19 DEF Next, Steps, UserSteps

(* The executor's tables of requests and processes stay well typed (execute, *)
(* do_POST).                                                                 *)
THEOREM ExecutorTypes == Spec => []TypeOK
<1>1. ExecutorInv => TypeOK
  BY DEF ExecutorInv
<1> QED  BY <1>1, InitExecutor, NextExecutor, PTL DEF Spec

(* Nothing of a request's code is left when it is answered or the next one   *)
(* is taken (_kill_process_group, _terminate_descendants).                   *)
THEOREM TreeCleared == Spec => []NothingSurvives
<1>1. ExecutorInv => NothingSurvives
  BY DEF ExecutorInv
<1> QED  BY <1>1, InitExecutor, NextExecutor, PTL DEF Spec
=============================================================================
