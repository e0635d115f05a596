---------------------------- MODULE ByokSessions ----------------------------
(***************************************************************************)
(* The table of temporary model profiles: a user's endpoint and key are    *)
(* registered under a random handle, resolved before every model call, and *)
(* removed by the user, by their age, by the limit of the table or by a    *)
(* restart of the gateway.                                                 *)
(*                                                                         *)
(* The portal registers and removes in the event loop while tools resolve  *)
(* in threads.  Each operation reads the clock first and takes the lock    *)
(* afterwards, so the time it acts on may be behind.                       *)
(***************************************************************************)
EXTENDS Integers, FiniteSets

CONSTANTS
  Handles,    \* tokens, each given out once
  Threads,    \* registrations and resolutions under way
  Nil,
  Limit,      \* _SESSION_LIMIT
  TTL,        \* byok_session_ttl_seconds
  MaxClock    \* bound: last value of the clock

ASSUME SessionAssumption ==
  /\ Limit \in Nat \ {0} /\ TTL \in Nat \ {0} /\ MaxClock \in Nat
  /\ Nil \notin Handles \cup Nat

VARIABLES
  clock,     \* time.monotonic
  expires,   \* _session_profiles: when each profile of the table expires
  issued,    \* handles given out
  removed,   \* handles their users have removed
  wants,     \* the handle a thread works for
  read,      \* the time it read before it asked for the lock
  answer     \* what its resolution returned

table  == <<expires, issued, removed>>
thread == <<wants, read, answer>>
sessionVars   == <<clock, table, thread>>

Answers == {"none", "served", "missing"}

Table == {h \in Handles : expires[h] # Nil}
-----------------------------------------------------------------------------
SessionInit ==
  /\ clock = 0
  /\ expires = [h \in Handles |-> Nil]
  /\ issued = {}
  /\ removed = {}
  /\ wants = [t \in Threads |-> Nil]
  /\ read = [t \in Threads |-> 0]
  /\ answer = [t \in Threads |-> "none"]

(* Mutant: a profile is kept at the instant it expires. *)
UnexpiredInclusive(now) == {h \in Table : expires[h] >= now}

(* What the first loop of _cleanup_sessions keeps. *)
Unexpired(now) == {h \in Table : expires[h] > now}

(* Mutant: the loop stops one too early. *)
KeptAtLimit(now) ==
  {K \in SUBSET Unexpired(now) :
     /\ K = Unexpired(now) \/ Cardinality(K) = Limit
     /\ Cardinality(K) <= Limit
     /\ \A h \in Unexpired(now) \ K, k \in K : expires[h] <= expires[k]}

(* Mutant: the profile that would live longest gives way. *)
KeptOldest(now) ==
  {K \in SUBSET Unexpired(now) :
     /\ K = Unexpired(now) \/ Cardinality(K) = Limit - 1
     /\ Cardinality(K) < Limit
     /\ \A h \in Unexpired(now) \ K, k \in K : expires[h] >= expires[k]}

(* What _cleanup_sessions leaves: while the table is full, the profile that  *)
(* expires first is dropped (any of several that expire together).           *)
Kept(now) ==
  {K \in SUBSET Unexpired(now) :
     /\ K = Unexpired(now) \/ Cardinality(K) = Limit - 1
     /\ Cardinality(K) < Limit
     /\ \A h \in Unexpired(now) \ K, k \in K : expires[h] <= expires[k]}

(* A thread asks for a handle: a new one to register, a known one to use. *)
Enter(t, h) ==
  /\ wants[t] = Nil
  /\ h \in issued \/ \A u \in Threads : wants[u] # h
  /\ wants' = [wants EXCEPT ![t] = h]
  /\ read' = [read EXCEPT ![t] = clock]
  /\ answer' = [answer EXCEPT ![t] = "none"]
  /\ UNCHANGED <<clock, table>>

(* register_session_profile, from the lock on. *)
Register(t) ==
  LET h == wants[t] IN
  /\ h # Nil
  /\ h \notin issued
  /\ \E K \in Kept(read[t]) :
       expires' = [g \in Handles |-> IF g = h THEN read[t] + TTL
                                     ELSE IF g \in K THEN expires[g] ELSE Nil]
  /\ issued' = issued \cup {h}
  /\ wants' = [wants EXCEPT ![t] = Nil]
  /\ UNCHANGED <<clock, removed, read, answer>>

(* _resolve_session, from the lock on: it cleans the table up as well. *)
Resolve(t) ==
  LET h == wants[t] IN
  /\ h \in issued
  /\ \E K \in Kept(read[t]) :
       /\ expires' = [g \in Handles |-> IF g \in K THEN expires[g] ELSE Nil]
       /\ answer' = [answer EXCEPT ![t] = IF h \in K THEN "served" ELSE "missing"]
  /\ wants' = [wants EXCEPT ![t] = Nil]
  /\ UNCHANGED <<clock, issued, removed, read>>

(* remove_session_profile. *)
Remove(h) ==
  /\ h \in Table
  /\ expires' = [expires EXCEPT ![h] = Nil]
  /\ removed' = removed \cup {h}
  /\ UNCHANGED <<clock, issued, thread>>

(* The table lives in the memory of the process. *)
Restart ==
  /\ Table # {}
  /\ expires' = [h \in Handles |-> Nil]
  /\ wants' = [t \in Threads |-> Nil]
  /\ answer' = [t \in Threads |-> "none"]
  /\ UNCHANGED <<clock, issued, removed, read>>

Tick ==
  /\ clock < MaxClock
  /\ clock' = clock + 1
  /\ UNCHANGED <<table, thread>>

SessionNext ==
  \/ \E t \in Threads : \/ \E h \in Handles : Enter(t, h)
                        \/ Register(t)
                        \/ Resolve(t)
  \/ \E h \in Handles : Remove(h)
  \/ Restart
  \/ Tick

SessionSpec == SessionInit /\ [][SessionNext]_sessionVars
-----------------------------------------------------------------------------
SessionTypeOK ==
  /\ clock \in Nat
  /\ expires \in [Handles -> Nat \cup {Nil}]
  /\ issued \in SUBSET Handles
  /\ removed \in SUBSET Handles
  /\ wants \in [Threads -> Handles \cup {Nil}]
  /\ read \in [Threads -> Nat]
  /\ answer \in [Threads -> Answers]

(* The table never holds more than _SESSION_LIMIT keys, and none that was    *)
(* removed by its user: an old registration or a stale clock brings none     *)
(* back.                                                                     *)
TableBounded ==
  /\ Cardinality(Table) <= Limit
  /\ Table \cap removed = {}
  /\ Table \subseteq issued

(* A key is used for a model call only if its user had not removed it and    *)
(* its time had not passed when the resolution began, however long the       *)
(* thread then waited for the lock.                                          *)
ServedWasValid ==
  [][\A t \in Threads : wants[t] # Nil /\ answer'[t] = "served" =>
       /\ wants[t] \in issued \ removed
       /\ read[t] < expires[wants[t]]]_sessionVars

(* A registration sends away only what had expired when it began and, if the *)
(* table is full, the profile that would have expired next.                  *)
SoonestGivesWay ==
  [][\A t \in Threads : issued' # issued /\ wants[t] \in issued' \ issued =>
       \A g \in Table, k \in Table :
         expires'[g] = Nil /\ expires'[k] # Nil /\ expires[g] > read[t] =>
           /\ expires[g] <= expires[k]
           /\ Cardinality(Table) >= Limit]_sessionVars
=============================================================================
