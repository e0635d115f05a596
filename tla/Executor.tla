------------------------------ MODULE Executor ------------------------------
(***************************************************************************)
(* The executor: one request at a time runs as a tree of user processes,   *)
(* which is killed and reaped before the request is answered.              *)
(*                                                                         *)
(* The server is process 1 and the subreaper of the container: the         *)
(* children of a process that dies become its own.  User processes fork,   *)
(* leave the process group, exit and wait at any moment, also while the    *)
(* server kills them.  Clients wait in the listening socket and give up    *)
(* after a time of their own; the server does not notice.                  *)
(***************************************************************************)
EXTENDS Naturals, FiniteSets, Sequences

CONSTANTS
  Clients,    \* requests the gateway posts
  Procs,      \* process identifiers, used again after they are reaped
  Server,     \* the executor itself
  None,
  MaxForks    \* bound: processes started altogether

ASSUME ExecutorAssumption ==
  /\ Server \notin Procs /\ None \notin Procs \cup Clients
  /\ MaxForks \in Nat

VARIABLES
  client,    \* how each request stands with its client
  backlog,   \* requests accepted by the socket
  serving,   \* the request being executed
  phase,     \* where the server is
  root,      \* the process it started
  state,     \* of each process
  parent,    \* of each process
  born,      \* the order in which processes were started
  group,     \* processes in the group of the root
  targets,   \* children listed and not yet killed
  forks      \* processes started so far

requests == <<client, backlog, serving>>
procs    == <<state, parent, born, group, forks>>
vars     == <<requests, phase, root, procs, targets>>

Phases == {"idle", "running", "group", "list", "sweep", "reap", "last", "look", "done"}

Exists(p)   == state[p] # "none"
Children(x) == {p \in Procs : Exists(p) /\ parent[p] = x}
-----------------------------------------------------------------------------
Init ==
  /\ client = [c \in Clients |-> "new"]
  /\ backlog = <<>>
  /\ serving = None
  /\ phase = "idle"
  /\ root = None
  /\ state = [p \in Procs |-> "none"]
  /\ parent = [p \in Procs |-> Server]
  /\ born = [p \in Procs |-> 0]
  /\ group = {}
  /\ targets = {}
  /\ forks = 0

(* p becomes a child of x. *)
Start(p, x) ==
  /\ ~Exists(p)
  /\ state' = [state EXCEPT ![p] = "alive"]
  /\ parent' = [parent EXCEPT ![p] = x]
  /\ born' = [born EXCEPT ![p] = forks + 1]
  /\ forks' = forks + 1

(* The processes of D die: they stay as zombies, the server adopts their     *)
(* children, and those of R are reaped.                                      *)
Die(D, R) ==
  /\ state' = [p \in Procs |-> IF p \in R THEN "none"
                               ELSE IF p \in D THEN "zombie" ELSE state[p]]
  /\ parent' = [p \in Procs |-> IF parent[p] \in D \cup R THEN Server ELSE parent[p]]
  /\ group' = group \ R
  /\ UNCHANGED <<born, forks>>

-----------------------------------------------------------------------------
(* Clients. *)

Post(c) ==
  /\ client[c] = "new"
  /\ client' = [client EXCEPT ![c] = "waiting"]
  /\ backlog' = Append(backlog, c)
  /\ UNCHANGED <<serving, phase, root, procs, targets>>

(* httpx.post gives up timeout_seconds + 10 after it was called. *)
GiveUp(c) ==
  /\ client[c] = "waiting"
  /\ client' = [client EXCEPT ![c] = "gone"]
  /\ UNCHANGED <<backlog, serving, phase, root, procs, targets>>

-----------------------------------------------------------------------------
(* User code. *)

Fork(p, q) ==
  /\ state[p] = "alive" /\ forks < MaxForks
  /\ Start(q, p)
  /\ group' = IF p \in group THEN group \cup {q} ELSE group
  /\ UNCHANGED <<requests, phase, root, targets>>

(* setsid, for any process but the leader of the group. *)
Setsid(p) ==
  /\ state[p] = "alive" /\ p \in group /\ p # root
  /\ group' = group \ {p}
  /\ UNCHANGED <<requests, phase, root, state, parent, born, forks, targets>>

Exit(p) ==
  /\ state[p] = "alive"
  /\ Die({p}, {})
  /\ UNCHANGED <<requests, phase, root, targets>>

Wait(p, q) ==
  /\ state[p] = "alive" /\ state[q] = "zombie" /\ parent[q] = p
  /\ Die({}, {q})
  /\ UNCHANGED <<requests, phase, root, targets>>

-----------------------------------------------------------------------------
(* The server. *)

(* do_POST, up to Popen.  The body has arrived: it is read without a timeout,*)
(* and a client that never sends it is left out.                             *)
Accept(p) ==
  /\ phase = "idle" /\ backlog # <<>> /\ forks < MaxForks
  /\ serving' = Head(backlog)
  /\ backlog' = Tail(backlog)
  /\ Start(p, Server)
  /\ root' = p
  /\ group' = {p}
  /\ phase' = "running"
  /\ UNCHANGED <<client, targets>>

(* What do_POST answers without running anything: a bad token, path, size    *)
(* or payload.                                                               *)
Refuse ==
  /\ phase = "idle" /\ backlog # <<>>
  /\ backlog' = Tail(backlog)
  /\ client' = [client EXCEPT ![Head(backlog)] = IF @ = "waiting" THEN "refused" ELSE @]
  /\ UNCHANGED <<serving, phase, root, procs, targets>>

(* process.wait returns and reaps the root. *)
RootEnds ==
  /\ phase = "running" /\ state[root] = "zombie"
  /\ Die({}, {root})
  /\ root' = None
  /\ phase' = "group"
  /\ UNCHANGED <<requests, targets>>

(* Mutant: wait is called without a timeout. *)
WaitForever ==
  /\ phase = "running" /\ state[root] = "zombie"
  /\ phase' = "group"
  /\ UNCHANGED <<requests, root, procs, targets>>

(* TimeoutExpired. *)
Deadline ==
  /\ phase = "running"
  /\ phase' = "group"
  /\ UNCHANGED <<requests, root, procs, targets>>

(* _kill_process_group: the group dies at once, the root is waited for. *)
KillGroup ==
  /\ phase = "group"
  /\ Die({p \in group : state[p] = "alive"}, {root} \ {None})
  /\ root' = None
  /\ phase' = "list"
  /\ UNCHANGED <<requests, targets>>

(* _terminate_descendants: the direct children of the moment, from a kernel  *)
(* that lists them (without the file the code finds none) ...                *)
List ==
  /\ phase = "list"
  /\ targets' = Children(Server)
  /\ phase' = IF targets' = {} THEN "last" ELSE "sweep"
  /\ UNCHANGED <<requests, root, procs>>

(* ... are killed one by one, *)
Kill(p) ==
  /\ phase = "sweep" /\ p \in targets
  /\ Die({p} \cap {q \in Procs : state[q] = "alive"}, {})
  /\ targets' = targets \ {p}
  /\ phase' = IF targets' = {} THEN "reap" ELSE "sweep"
  /\ UNCHANGED <<requests, root>>

(* Mutant: one sweep is thought to be enough. *)
ReapOnce ==
  /\ phase = "reap"
  /\ Die({}, {p \in Children(Server) : state[p] = "zombie"})
  /\ phase' = "done"
  /\ UNCHANGED <<requests, root, targets>>

(* and those that are dead are reaped. *)
Reap ==
  /\ phase = "reap"
  /\ Die({}, {p \in Children(Server) : state[p] = "zombie"})
  /\ phase' = "list"
  /\ UNCHANGED <<requests, root, targets>>

(* The list was empty: whatever died is reaped ... *)
LastReap ==
  /\ phase = "last"
  /\ Die({}, {p \in Children(Server) : state[p] = "zombie"})
  /\ phase' = "look"
  /\ UNCHANGED <<requests, root, targets>>

(* ... and the list is read again. *)
LastLook ==
  /\ phase = "look"
  /\ phase' = IF Children(Server) = {} THEN "done" ELSE "list"
  /\ UNCHANGED <<requests, root, procs, targets>>

(* _send: the client may be gone. *)
Answer ==
  /\ phase = "done"
  /\ client' = [client EXCEPT ![serving] = IF @ = "waiting" THEN "answered" ELSE @]
  /\ serving' = None
  /\ phase' = "idle"
  /\ UNCHANGED <<backlog, root, procs, targets>>

Steps ==
  \/ \E p \in Procs : Accept(p) \/ Kill(p)
  \/ Refuse \/ RootEnds \/ Deadline \/ KillGroup \/ List \/ Reap \/ LastReap \/ LastLook \/ Answer

UserSteps ==
  \/ \E p, q \in Procs : Fork(p, q) \/ Wait(p, q)
  \/ \E p \in Procs : Setsid(p) \/ Exit(p)

(* The container is started again: every process and connection is lost. *)
Restart ==
  /\ phase # "idle" \/ backlog # <<>>
  /\ client' = [c \in Clients |-> IF client[c] = "waiting" THEN "gone" ELSE client[c]]
  /\ backlog' = <<>> /\ serving' = None /\ phase' = "idle" /\ root' = None
  /\ state' = [p \in Procs |-> "none"]
  /\ group' = {} /\ targets' = {}
  /\ UNCHANGED <<parent, born, forks>>

Next == (\E c \in Clients : Post(c) \/ GiveUp(c)) \/ Steps \/ UserSteps \/ Restart

Spec == Init /\ [][Next]_vars

(* The server is not suspended for good. *)
FairSpec == Spec /\ WF_vars(Steps)
-----------------------------------------------------------------------------
TypeOK ==
  /\ client \in [Clients -> {"new", "waiting", "answered", "refused", "gone"}]
  /\ backlog \in Seq(Clients)
  /\ serving \in Clients \cup {None}
  /\ phase \in Phases
  /\ root \in Procs \cup {None}
  /\ state \in [Procs -> {"none", "alive", "zombie"}]
  /\ parent \in [Procs -> Procs \cup {Server}]
  /\ born \in [Procs -> Nat]
  /\ group \in SUBSET Procs
  /\ targets \in SUBSET Procs
  /\ forks \in Nat

(* When a request is answered, and when the next one starts, no process of   *)
(* the code that ran is left, alive or dead, whatever it forked, wherever it *)
(* moved and however it raced with being killed.                             *)
NothingSurvives ==
  phase \in {"idle", "done"} => \A p \in Procs : ~Exists(p)

(* No request is held up for ever, by its own code or by that of a request   *)
(* before it, whether the code never returns, survives its parent or leaves  *)
(* its group, as long as no code forks for ever.                             *)
EveryRequestEnds == \A c \in Clients : client[c] = "waiting" ~> client[c] # "waiting"
=============================================================================
