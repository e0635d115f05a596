------------------------------ MODULE ChatPage ------------------------------
(***************************************************************************)
(* The chat page: tabs of one browser show the sessions that are kept in   *)
(* its local storage, send messages to /chat and write the events of the   *)
(* answer (EventStream) into the conversation they show.                   *)
(*                                                                         *)
(* A handler of the page runs to its end or to the first error it raises;  *)
(* between two of them the user may do anything else: send another message,*)
(* go to another session, delete this one, close the tab.                  *)
(***************************************************************************)
EXTENDS Naturals, Sequences

CONSTANTS
  Requests,     \* messages, numbered as they are sent
  Tabs,
  MaxSessions,  \* bound: sessions ever created; they are numbered
  None

VARIABLES
  stream,   \* the gateway's answer to each message
  stored,   \* acouagent_sessions
  last,     \* acouagent_current
  made,     \* sessions created so far
  page,     \* what each tab shows: currentSessionId, conversation, currentRequirement
  ask,      \* what the page knows of each request: the locals of ask()
  entered,  \* sessions a tab has come to while an answer to it was due
  shared    \* sessions that were in two tabs at a time

pageVars == <<stored, last, made, page, ask, entered, shared>>
vars     == <<stream, pageVars>>

Events == INSTANCE EventStream

Sessions == 1..MaxSessions
Listed   == {s \in Sessions : stored[s] # None}
Open     == {t \in Tabs : page[t] # None}

(* An element of a conversation; a request is named by its number.  A hole   *)
(* of an array is skipped by map and becomes null once it has been stored.   *)
Said(r, k) == [of |-> r, kind |-> k]
Hole  == Said(0, "hole")
Null  == Said(0, "null")
Entry == [of : Requests, kind : {"user", "wait", "done"}] \cup {Hole, Null}

(* currentRequirement: the messages that were merged into it. *)
Session == [talk : Seq(Entry), needs : SUBSET Requests, titled : BOOLEAN]
Page    == [at : Sessions, talk : Seq(Entry), needs : SUBSET Requests]
Empty   == [talk |-> <<>>, needs |-> {}, titled |-> FALSE]

(* due: the tab waits for the answer; landed: the session it was written in. *)
Ask == [tab : Tabs, home : Sessions, slot : Nat, needs : SUBSET Requests,
        state : {"due", "written", "dropped"}, landed : Sessions \cup {None}]

ASSUME PageAssumption ==
  /\ Requests \subseteq Nat \ {0} /\ MaxSessions \in Nat
  /\ None \notin Sessions \cup Session \cup Page \cup Ask

Due(t) == {r \in Requests : ask[r] # None /\ ask[r].state = "due" /\ ask[r].tab = t}
-----------------------------------------------------------------------------
Init ==
  /\ Events!Init
  /\ stored = [s \in Sessions |-> None] /\ last = None /\ made = 0
  /\ page = [t \in Tabs |-> None]
  /\ ask = [r \in Requests |-> None]
  /\ entered = {} /\ shared = {}

(* renderChat reads a member of every element that map visits. *)
RenderRaises(talk) == \E i \in DOMAIN talk : talk[i] = Null

(* persistCurrent looks for the first message of the user to name a session  *)
(* that has no name, and reads a member of every element before it.          *)
PersistRaises(p) ==
  /\ p.at \in Listed /\ ~stored[p.at].titled
  /\ \E i \in DOMAIN p.talk : /\ p.talk[i] \in {Hole, Null}
                              /\ \A j \in 1..(i - 1) : p.talk[j].kind # "user"

(* Mutant: a session that is not in the list is added to it. *)
SavedAlways(p) ==
  [stored EXCEPT ![p.at] =
     [talk   |-> [i \in DOMAIN p.talk |-> IF p.talk[i] = Hole THEN Null ELSE p.talk[i]],
      needs  |-> p.needs,
      titled |-> \E i \in DOMAIN p.talk : p.talk[i].kind = "user"]]

(* The list after persistCurrent: a session no longer in it is left out. *)
Saved(p) ==
  IF p.at \notin Listed THEN stored
  ELSE [stored EXCEPT ![p.at] =
          [talk   |-> [i \in DOMAIN p.talk |-> IF p.talk[i] = Hole THEN Null ELSE p.talk[i]],
           needs  |-> p.needs,
           titled |-> @.titled \/ \E i \in DOMAIN p.talk : p.talk[i].kind = "user"]]

(* conversation[slot] = e *)
Put(talk, slot, e) ==
  [i \in 1..(IF slot > Len(talk) THEN slot ELSE Len(talk)) |->
     IF i = slot THEN e ELSE IF i <= Len(talk) THEN talk[i] ELSE Hole]

(* Tab t goes to session s of the list. *)
Shows(t, s, list) ==
  /\ page' = [page EXCEPT ![t] = [at |-> s, talk |-> list[s].talk, needs |-> list[s].needs]]
  /\ entered' = IF Due(t) = {} THEN entered ELSE entered \cup {s}
  /\ shared' = IF \E u \in Open \ {t} : page[u].at = s THEN shared \cup {s} ELSE shared
  /\ last' = s

(* A new session, added to the list. *)
Creates(t, list) ==
  /\ made < MaxSessions
  /\ made' = made + 1
  /\ stored' = [list EXCEPT ![made + 1] = Empty]
  /\ Shows(t, made + 1, stored')
-----------------------------------------------------------------------------
(* initChat *)
Load(t) ==
  /\ t \notin Open
  /\ IF last \in Listed
     THEN Shows(t, last, stored) /\ UNCHANGED <<stored, made>>
     ELSE Creates(t, stored)
  /\ UNCHANGED <<stream, ask>>

(* Nobody reads the answers to R any more: their streams break. *)
Abandons(R) ==
  stream' = [r \in Requests |-> IF r \in R /\ stream[r] = "open" THEN "broken" ELSE stream[r]]

(* Mutant: a closed tab still waits for its answers. *)
CloseWaiting(t) ==
  /\ t \in Open
  /\ page' = [page EXCEPT ![t] = None]
  /\ UNCHANGED <<stream, stored, last, made, ask, entered, shared>>

(* The tab is closed or loaded again; what it waited for is dropped. *)
Close(t) ==
  /\ t \in Open
  /\ page' = [page EXCEPT ![t] = None]
  /\ ask' = [r \in Requests |-> IF r \in Due(t) THEN [ask[r] EXCEPT !.state = "dropped"] ELSE ask[r]]
  /\ Abandons(Due(t))
  /\ UNCHANGED <<stored, last, made, entered, shared>>

(* Mutant: the conversation of the session that is left stays on the page. *)
SwitchKeeping(t, s) ==
  LET list == Saved(page[t]) IN
  /\ t \in Open /\ s # page[t].at /\ s <= made
  /\ ~PersistRaises(page[t])
  /\ stored' = list
  /\ IF list[s] # None
     THEN Shows(t, s, [list EXCEPT ![s].talk = page[t].talk])
     ELSE UNCHANGED <<page, last, entered, shared>>
  /\ UNCHANGED <<stream, made, ask>>

(* switchSession: the list on the page may be behind the stored one. *)
Switch(t, s) ==
  LET list == Saved(page[t]) IN
  /\ t \in Open /\ s # page[t].at /\ s <= made
  /\ ~PersistRaises(page[t])
  /\ stored' = list
  /\ IF list[s] # None THEN Shows(t, s, list) ELSE UNCHANGED <<page, last, entered, shared>>
  /\ UNCHANGED <<stream, made, ask>>

(* resetChat *)
New(t) ==
  /\ t \in Open /\ ~PersistRaises(page[t])
  /\ Creates(t, Saved(page[t]))
  /\ UNCHANGED <<stream, ask>>

(* deleteSession; from the present session the page goes to the first that   *)
(* is left (here: to any), or to a new one.                                  *)
Delete(t, s) ==
  LET list == [stored EXCEPT ![s] = None] IN
  /\ t \in Open /\ s \in Listed \cup {page[t].at}
  /\ IF s # page[t].at
     THEN stored' = list /\ UNCHANGED <<last, made, page, entered, shared>>
     ELSE IF \E g \in Sessions : list[g] # None
     THEN stored' = list /\ (\E g \in Sessions : list[g] # None /\ Shows(t, g, list)) /\ UNCHANGED made
     ELSE Creates(t, list)
  /\ UNCHANGED <<stream, ask>>

(* ask: a message that cannot be shown is not sent.  Nothing keeps a second  *)
(* message from being sent by the keyboard while an answer is due.           *)
Send(t, r) ==
  LET p    == page[t]
      q    == Append(p.talk, Said(r, "user"))
      sent == ~RenderRaises(p.talk)
  IN
  /\ t \in Open /\ ask[r] = None
  /\ \A n \in Requests : n < r => ask[n] # None
  /\ page' = [page EXCEPT ![t].talk = IF sent THEN Append(q, Said(r, "wait")) ELSE q]
  /\ ask' = [ask EXCEPT ![r] = [tab |-> t, home |-> p.at, slot |-> Len(q) + 1, needs |-> p.needs,
                                state |-> IF sent THEN "due" ELSE "dropped", landed |-> None]]
  /\ IF sent THEN Events!Opens(r) ELSE UNCHANGED stream
  /\ UNCHANGED <<stored, last, made, entered, shared>>

(* What r's handler has written to the conversation shown by its tab. *)
Written(r, k) == Put(page[ask[r].tab].talk, ask[r].slot, Said(r, k))

IsDue(r) == ask[r] # None /\ ask[r].state = "due"

(* A progress event.  If the page cannot be drawn, the handler ends there.   *)
Progress(r) ==
  LET t      == ask[r].tab
      q      == Written(r, "wait")
      raises == RenderRaises(q)
  IN
  /\ IsDue(r)
  /\ page[t].talk # q
  /\ page' = [page EXCEPT ![t].talk = IF raises THEN Written(r, "done") ELSE q]
  /\ ask' = IF raises THEN [ask EXCEPT ![r].state = "dropped"] ELSE ask
  /\ Abandons(IF raises THEN {r} ELSE {})
  /\ UNCHANGED <<stored, last, made, entered, shared>>

(* Mutant: the answer is not stored. *)
LandOnly(r, answered) ==
  LET t == ask[r].tab
      p == [page[t] EXCEPT !.talk = Written(r, "done"),
                           !.needs = IF answered THEN ask[r].needs \cup {r} ELSE @]
  IN
  /\ IsDue(r)
  /\ IF answered THEN Events!Results(r) ELSE Events!Breaks(r)
  /\ page' = [page EXCEPT ![t] = p]
  /\ ask' = [ask EXCEPT ![r].state = "written", ![r].landed = p.at]
  /\ UNCHANGED <<stored, last, made, entered, shared>>

(* The end of ask: the result, or a failure if the stream or the connection  *)
(* broke; it is shown, and stored unless drawing or storing raises.          *)
Land(r, answered) ==
  LET t == ask[r].tab
      p == [page[t] EXCEPT !.talk = Written(r, "done"),
                           !.needs = IF answered THEN ask[r].needs \cup {r} ELSE @]
  IN
  /\ IsDue(r)
  /\ IF answered THEN Events!Results(r) ELSE Events!Breaks(r)
  /\ page' = [page EXCEPT ![t] = p]
  /\ ask' = [ask EXCEPT ![r].state = "written", ![r].landed = p.at]
  /\ stored' = IF RenderRaises(p.talk) \/ PersistRaises(p) THEN stored ELSE Saved(p)
  /\ UNCHANGED <<last, made, entered, shared>>

Next ==
  \/ \E t \in Tabs :
       \/ Load(t) \/ Close(t) \/ New(t)
       \/ \E s \in Sessions : Switch(t, s) \/ Delete(t, s)
       \/ \E r \in Requests : Send(t, r)
  \/ \E r \in Requests :
       \/ Progress(r)
       \/ \E answered \in BOOLEAN : Land(r, answered)

Spec == Init /\ [][Next]_vars
-----------------------------------------------------------------------------
TypeOK ==
  /\ stream \in [Requests -> {"unsent", "open", "result", "broken"}]
  /\ stored \in [Sessions -> Session \cup {None}]
  /\ last \in Sessions \cup {None}
  /\ made \in 0..MaxSessions
  /\ page \in [Tabs -> Page \cup {None}]
  /\ ask \in [Requests -> Ask \cup {None}]
  /\ \A r \in Requests : IsDue(r) => ask[r].tab \in Open
  /\ entered \subseteq Sessions /\ shared \subseteq Sessions

(* A session that a user deleted is not brought back by another tab that     *)
(* still shows it, nor by an answer that arrives for it (persistCurrent).    *)
DeletedStaysDeleted == [][\A s \in 1..made : s \notin Listed => s \notin Listed']_vars

(* The conversation belongs to session s: no holes, its own messages only.   *)
Own(s, talk, needs) ==
  /\ \A i \in DOMAIN talk : talk[i] \notin {Hole, Null} /\ ask[talk[i].of].home = s
  /\ \A r \in needs : ask[r] # None /\ ask[r].home = s

(* "会话隔离": the messages and the requirement of a session are those that    *)
(* were sent in it.                                                          *)
SessionIsolation ==
  /\ \A s \in Listed : Own(s, stored[s].talk, stored[s].needs)
  /\ \A t \in Open : Own(page[t].at, page[t].talk, page[t].needs)

(* It is so for every session that no tab came to while it waited for an     *)
(* answer: moving while an answer is due is the only way to mix two.         *)
IsolatedUnlessEntered ==
  /\ \A s \in Listed \ entered : Own(s, stored[s].talk, stored[s].needs)
  /\ \A t \in Open : page[t].at \notin entered => Own(page[t].at, page[t].talk, page[t].needs)

(* What was answered in a session is kept for as long as the session is,     *)
(* unless a tab came to it with an answer due or two tabs had it at once.    *)
AnswersKept ==
  \A r \in Requests : ask[r] # None /\ ask[r].state = "written" =>
    LET s == ask[r].landed IN
    s \in Listed \ (entered \cup shared) =>
      \E i \in DOMAIN stored[s].talk : stored[s].talk[i] = Said(r, "done")
=============================================================================
