---------------------------- MODULE PortalProofs ----------------------------
(***************************************************************************)
(* Proofs about the two components of the portal: the chat page, and the   *)
(* table of temporary model profiles behind its settings.                  *)
(*                                                                         *)
(* The chat page, for any messages, tabs and number of sessions.  A        *)
(* session no tab came to with an answer due, and that was never in two    *)
(* tabs, has one page; what is due there is due to that session, in a slot *)
(* that holds its own message, so that an answer overwrites nothing else   *)
(* and whatever was answered is on the page and in the store.              *)
(***************************************************************************)
EXTENDS ChatPage, ByokSessions, FiniteSetTheorems, SequenceTheorems, TLAPS

-----------------------------------------------------------------------------
(* Conversations. *)

(* conversation[slot] = e adds or replaces that element and no other. *)
LEMMA PutFacts ==
  ASSUME NEW talk \in Seq(Entry), NEW slot \in Nat, NEW e \in Entry
  PROVE  /\ Put(talk, slot, e) \in Seq(Entry)
         /\ \A i \in DOMAIN talk : i \in DOMAIN Put(talk, slot, e)
         /\ \A i \in DOMAIN talk \ {slot} : Put(talk, slot, e)[i] = talk[i]
         /\ slot # 0 => slot \in DOMAIN Put(talk, slot, e) /\ Put(talk, slot, e)[slot] = e
         /\ slot \in DOMAIN talk => DOMAIN Put(talk, slot, e) = DOMAIN talk
<1> DEFINE n == IF slot > Len(talk) THEN slot ELSE Len(talk)
           at(i) == IF i = slot THEN e ELSE IF i <= Len(talk) THEN talk[i] ELSE Hole
<1>1. Len(talk) \in Nat /\ n \in Nat /\ DOMAIN talk = 1..Len(talk)
      /\ \A i \in 1..Len(talk) : talk[i] \in Entry
  OBVIOUS
<1>2. Hole \in Entry
  BY DEF Entry
<1>3. \A i \in 1..n : at(i) \in Entry
  BY <1>1, <1>2
<1>4. Put(talk, slot, e) = [i \in 1..n |-> at(i)]
  BY DEF Put
<1> HIDE DEF at
<1>5. Put(talk, slot, e) \in Seq(Entry)
  BY <1>1, <1>3, <1>4
<1>6. DOMAIN Put(talk, slot, e) = 1..n /\ \A i \in 1..n : Put(talk, slot, e)[i] = at(i)
  BY <1>4
<1>7. \A i \in 1..Len(talk) : i \in 1..n
  BY <1>1
<1>8. \A i \in 1..Len(talk) : i # slot => at(i) = talk[i]
  BY <1>1 DEF at
<1>9. slot # 0 => slot \in 1..n /\ at(slot) = e
  BY <1>1 DEF at
<1>10. ASSUME slot \in 1..Len(talk) PROVE n = Len(talk)
  <2>1. ~(slot > Len(talk))
    BY <1>1, <1>10
  <2> QED
    BY <2>1
<1> HIDE DEF n
<1>11. \A i \in DOMAIN talk : i \in DOMAIN Put(talk, slot, e)
  BY <1>1, <1>6, <1>7
<1>12. \A i \in DOMAIN talk \ {slot} : Put(talk, slot, e)[i] = talk[i]
  BY <1>1, <1>6, <1>7, <1>8
<1>13. slot # 0 => slot \in DOMAIN Put(talk, slot, e) /\ Put(talk, slot, e)[slot] = e
  BY <1>6, <1>9
<1>14. slot \in DOMAIN talk => DOMAIN Put(talk, slot, e) = DOMAIN talk
  BY <1>1, <1>6, <1>10
<1> QED
  BY <1>5, <1>11, <1>12, <1>13, <1>14

(* Storing a conversation turns its holes into null. *)
Stored(talk) == [i \in DOMAIN talk |-> IF talk[i] = Hole THEN Null ELSE talk[i]]

LEMMA StoredFacts ==
  ASSUME NEW talk \in Seq(Entry)
  PROVE  Stored(talk) \in Seq(Entry)
<1>1. Len(talk) \in Nat /\ DOMAIN talk = 1..Len(talk) /\ \A i \in 1..Len(talk) : talk[i] \in Entry
  OBVIOUS
<1>2. Null \in Entry
  BY DEF Entry
<1>3. \A i \in 1..Len(talk) : (IF talk[i] = Hole THEN Null ELSE talk[i]) \in Entry
  BY <1>1, <1>2
<1> QED
  BY <1>1, <1>3 DEF Stored

LEMMA AppendFacts ==
  ASSUME NEW talk \in Seq(Entry), NEW e \in Entry
  PROVE  /\ Append(talk, e) \in Seq(Entry)
         /\ Len(Append(talk, e)) \in Nat
         /\ DOMAIN Append(talk, e) = 1..Len(Append(talk, e))
         /\ \A i \in DOMAIN talk : i \in DOMAIN Append(talk, e) /\ Append(talk, e)[i] = talk[i]
         /\ \A i \in DOMAIN Append(talk, e) \ DOMAIN talk : Append(talk, e)[i] = e
         /\ Len(talk) + 1 \in DOMAIN Append(talk, e) /\ Append(talk, e)[Len(talk) + 1] = e
<1> DEFINE k == Len(talk)
           all == Append(talk, e)
<1>1. /\ k \in Nat /\ DOMAIN talk = 1..k /\ all \in Seq(Entry) /\ Len(all) = k + 1
      /\ \A i \in 1..k : all[i] = talk[i]
      /\ all[k + 1] = e
  BY AppendProperties
<1>2. DOMAIN all = 1..(k + 1)
  BY <1>1
<1> HIDE DEF k, all
<1>3. \A i \in 1..k : i \in 1..(k + 1)
  BY <1>1
<1>4. \A i \in 1..(k + 1) \ 1..k : i = k + 1
  BY <1>1
<1> QED
  BY <1>1, <1>2, <1>3, <1>4 DEF k, all

(* What the page says of a message is an element of a conversation. *)
LEMMA SaidIsEntry ==
  ASSUME NEW r \in Requests, NEW k \in {"user", "wait", "done"}
  PROVE  /\ Said(r, k) \in Entry /\ Said(r, k).of = r
         /\ Said(r, k) \notin {Hole, Null}
BY PageAssumption DEF Said, Entry, Hole, Null
-----------------------------------------------------------------------------
(* Types. *)

LEMMA InitPage == Init => TypeOK
BY PageAssumption DEF Init, TypeOK, Events!Init, IsDue, Open

(* persistCurrent changes the row of the session shown, if there is one. *)
LEMMA SavedFacts ==
  ASSUME TypeOK, NEW p \in Page
  PROVE  /\ Saved(p) \in [Sessions -> Session \cup {None}]
         /\ \A z \in Sessions : z # p.at => Saved(p)[z] = stored[z]
         /\ p.at \notin Listed => Saved(p) = stored
         /\ p.at \in Listed => /\ Saved(p)[p.at] # None
                               /\ Saved(p)[p.at].talk = Stored(p.talk)
                               /\ Saved(p)[p.at].needs = p.needs
<1> USE PageAssumption DEF TypeOK
<1>1. CASE p.at \notin Listed
  BY <1>1 DEF Saved
<1>2. CASE p.at \in Listed
  <2> DEFINE told == \E i \in DOMAIN p.talk : p.talk[i].kind = "user"
             row  == [talk |-> Stored(p.talk), needs |-> p.needs,
                      titled |-> stored[p.at].titled \/ told]
  <2>1. p.at \in Sessions /\ stored[p.at] \in Session
    BY <1>2 DEF Listed
  <2>2. Stored(p.talk) \in Seq(Entry)
    BY StoredFacts DEF Page
  <2>3. row \in Session
    BY <2>1, <2>2 DEF Session, Page
  <2>4. Saved(p) = [stored EXCEPT ![p.at] = row]
    BY <1>2, <2>1 DEF Saved, Stored
  <2>5. row.talk = Stored(p.talk) /\ row.needs = p.needs
    OBVIOUS
  <2> HIDE DEF row
  <2> QED
    BY <1>2, <2>1, <2>3, <2>4, <2>5
<1> QED
  BY <1>1, <1>2

LEMMA EmptySession == Empty \in Session /\ Empty # None
<1>1. <<>> \in Seq(Entry)
  OBVIOUS
<1>2. Empty \in Session
  BY <1>1 DEF Empty, Session
<1> QED
  BY <1>2, PageAssumption

(* What it is to go to a session of the list. *)
LEMMA ShowsFacts ==
  ASSUME TypeOK, NEW t \in Tabs, NEW s \in Sessions,
         NEW list \in [Sessions -> Session \cup {None}], list[s] # None,
         Shows(t, s, list)
  PROVE  /\ page' \in [Tabs -> Page \cup {None}]
         /\ Open' = Open \cup {t}
         /\ page'[t].at = s /\ page'[t].talk = list[s].talk /\ page'[t].needs = list[s].needs
         /\ \A u \in Tabs \ {t} : page'[u] = page[u]
         /\ last' \in Sessions
         /\ entered' \subseteq Sessions /\ entered \subseteq entered'
         /\ Due(t) # {} => s \in entered'
         /\ shared' \subseteq Sessions /\ shared \subseteq shared'
         /\ \A u \in Open \ {t} : page[u].at = s => s \in shared'
<1> DEFINE p == [at |-> s, talk |-> list[s].talk, needs |-> list[s].needs]
<1>1. p \in Page /\ p # None
  BY PageAssumption DEF Session, Page
<1>2. page' = [page EXCEPT ![t] = p] /\ page \in [Tabs -> Page \cup {None}]
  BY DEF Shows, TypeOK
<1>3. p.at = s /\ p.talk = list[s].talk /\ p.needs = list[s].needs
  OBVIOUS
<1>4. last' \in Sessions /\ entered' \subseteq Sessions /\ entered \subseteq entered'
      /\ (Due(t) # {} => s \in entered') /\ shared' \subseteq Sessions /\ shared \subseteq shared'
      /\ \A u \in Open \ {t} : page[u].at = s => s \in shared'
  BY DEF Shows, TypeOK
<1> HIDE DEF p
<1>5. Open' = Open \cup {t}
  BY <1>1, <1>2 DEF Open
<1> QED
  BY <1>1, <1>2, <1>3, <1>4, <1>5

(* The handlers that go to another session: what they leave in the store is  *)
(* what was there, what persistCurrent made of the session shown, or the     *)
(* empty session they create.                                                *)
Goes(t) == Load(t) \/ New(t) \/ \E s \in Sessions : Switch(t, s) \/ Delete(t, s)

KeptAt(t, z) ==
  \/ z \in Listed /\ stored'[z] = stored[z]
  \/ z \in Listed /\ t \in Open /\ z = page[t].at /\ stored'[z] = Saved(page[t])[z]
  \/ z = made + 1 /\ made' = made + 1 /\ stored'[z] = Empty

LEMMA CreatesFacts ==
  ASSUME TypeOK, NEW t \in Tabs,
         NEW list \in [Sessions -> Session \cup {None}], Creates(t, list)
  PROVE  /\ made + 1 \in Sessions /\ made' = made + 1
         /\ stored' = [list EXCEPT ![made + 1] = Empty]
         /\ stored' \in [Sessions -> Session \cup {None}]
         /\ stored'[made + 1] # None /\ Shows(t, made + 1, stored')
<1>1. made + 1 \in Sessions
  BY PageAssumption DEF TypeOK, Creates, Sessions
<1> QED
  BY <1>1, EmptySession DEF Creates

LEMMA GoesFacts ==
  ASSUME TypeOK, NEW t \in Tabs, Goes(t)
  PROVE  /\ stored' \in [Sessions -> Session \cup {None}]
         /\ made' \in {made, made + 1} /\ made' \in 0..MaxSessions
         /\ UNCHANGED <<stream, ask>>
         /\ \A z \in Sessions : stored'[z] # None => KeptAt(t, z)
         /\ \/ UNCHANGED <<page, last, entered, shared>>
            \/ \E s \in Sessions : stored'[s] # None /\ Shows(t, s, stored')
<1> USE PageAssumption
<1>t. /\ stored \in [Sessions -> Session \cup {None}] /\ made \in 0..MaxSessions
      /\ \A u \in Open : page[u] \in Page /\ page[u].at \in Sessions
  BY DEF TypeOK, Open, Page
<1> DEFINE Store == [Sessions -> Session \cup {None}]
(* A session is created on top of list. *)
<1>c. ASSUME NEW list \in Store, Creates(t, list), UNCHANGED <<stream, ask>>,
             \A z \in Sessions : list[z] # None =>
               \/ z \in Listed /\ list[z] = stored[z]
               \/ z \in Listed /\ t \in Open /\ z = page[t].at /\ list[z] = Saved(page[t])[z]
      PROVE  /\ stored' \in [Sessions -> Session \cup {None}]
             /\ made' \in {made, made + 1} /\ made' \in 0..MaxSessions
             /\ UNCHANGED <<stream, ask>>
             /\ \A z \in Sessions : stored'[z] # None => KeptAt(t, z)
             /\ \E s \in Sessions : stored'[s] # None /\ Shows(t, s, stored')
  <2>1. /\ made + 1 \in Sessions /\ made' = made + 1
        /\ stored' = [list EXCEPT ![made + 1] = Empty]
        /\ stored' \in Store
        /\ stored'[made + 1] # None /\ Shows(t, made + 1, stored')
    BY <1>c, CreatesFacts
  <2>2. \A z \in Sessions : stored'[z] = IF z = made + 1 THEN Empty ELSE list[z]
    BY <2>1
  <2>3. \A z \in Sessions : stored'[z] # None => KeptAt(t, z)
    BY <1>c, <2>1, <2>2 DEF KeptAt
  <2>4. made' \in 0..MaxSessions
    BY <1>t, <2>1 DEF Sessions
  <2> QED
    BY <1>c, <2>1, <2>3, <2>4
<1>1. CASE Load(t)
  <2>1. CASE last \in Listed
    BY <1>1, <1>t, <2>1 DEF Load, Listed, KeptAt
  <2>2. CASE last \notin Listed
    BY <1>1, <1>c, <1>t, <2>2 DEF Load, Listed
  <2> QED
    BY <2>1, <2>2
<1>2. ASSUME t \in Open
      PROVE  /\ Saved(page[t]) \in Store
             /\ \A z \in Sessions : Saved(page[t])[z] # None =>
                  \/ z \in Listed /\ Saved(page[t])[z] = stored[z]
                  \/ z \in Listed /\ z = page[t].at
  BY <1>2, <1>t, SavedFacts DEF Listed
<1>3. CASE New(t)
  BY <1>2, <1>3, <1>c DEF New
<1>4. ASSUME NEW s \in Sessions, Switch(t, s)
      PROVE  /\ stored' \in Store /\ made' = made /\ UNCHANGED <<stream, ask>>
             /\ \A z \in Sessions : stored'[z] # None => KeptAt(t, z)
             /\ \/ UNCHANGED <<page, last, entered, shared>>
                \/ \E z \in Sessions : stored'[z] # None /\ Shows(t, z, stored')
  <2>1. t \in Open /\ stored' = Saved(page[t]) /\ UNCHANGED <<stream, made, ask>>
    BY <1>4 DEF Switch
  <2>2. \/ UNCHANGED <<page, last, entered, shared>>
        \/ stored'[s] # None /\ Shows(t, s, stored')
    BY <1>4, <2>1 DEF Switch
  <2> QED
    BY <1>2, <2>1, <2>2 DEF KeptAt
<1>5. ASSUME NEW s \in Sessions, Delete(t, s)
      PROVE  /\ stored' \in Store /\ made' \in {made, made + 1} /\ made' \in 0..MaxSessions
             /\ UNCHANGED <<stream, ask>>
             /\ \A z \in Sessions : stored'[z] # None => KeptAt(t, z)
             /\ \/ UNCHANGED <<page, last, entered, shared>>
                \/ \E z \in Sessions : stored'[z] # None /\ Shows(t, z, stored')
  <2> DEFINE list == [stored EXCEPT ![s] = None]
  <2>1. list \in Store /\ \A z \in Sessions : list[z] # None => z \in Listed /\ list[z] = stored[z]
    BY <1>t DEF Listed
  <2>2. /\ UNCHANGED <<stream, ask>>
        /\ \/ stored' = list /\ UNCHANGED <<last, made, page, entered, shared>>
           \/ /\ stored' = list /\ UNCHANGED made
              /\ \E g \in Sessions : list[g] # None /\ Shows(t, g, list)
           \/ Creates(t, list)
    BY <1>5 DEF Delete
  <2> HIDE DEF list
  <2>3. CASE stored' = list /\ UNCHANGED <<last, made, page, entered, shared>>
    BY <1>t, <2>1, <2>2, <2>3 DEF KeptAt
  <2>4. CASE /\ stored' = list /\ UNCHANGED made
             /\ \E g \in Sessions : list[g] # None /\ Shows(t, g, list)
    BY <1>t, <2>1, <2>2, <2>4 DEF KeptAt
  <2>5. CASE Creates(t, list)
    BY <1>c, <2>1, <2>2, <2>5
  <2> QED
    BY <2>2, <2>3, <2>4, <2>5
<1> QED
  BY <1>1, <1>3, <1>4, <1>5, <1>t DEF Goes

(* A message is appended to the conversation, with its pending answer if it  *)
(* is sent at all.                                                           *)
LEMMA SendFacts ==
  ASSUME TypeOK, NEW t \in Tabs, NEW r \in Requests, Send(t, r)
  PROVE  LET p == page[t]
             q == page'[t]
             a == ask'[r]
         IN
         /\ t \in Open /\ ask[r] = None
         /\ page' \in [Tabs -> Page \cup {None}] /\ q \in Page /\ q # None
         /\ q.at = p.at /\ q.needs = p.needs
         /\ \A i \in DOMAIN p.talk : i \in DOMAIN q.talk /\ q.talk[i] = p.talk[i]
         /\ \A i \in DOMAIN q.talk \ DOMAIN p.talk : q.talk[i].of = r
         /\ \A u \in Tabs \ {t} : page'[u] = page[u]
         /\ ask' \in [Requests -> Ask \cup {None}] /\ a \in Ask /\ a # None
         /\ a.tab = t /\ a.home = p.at /\ a.needs = p.needs
         /\ a.state \in {"due", "dropped"}
         /\ a.state = "due" => a.slot \in DOMAIN q.talk /\ q.talk[a.slot].of = r
         /\ \A n \in Requests \ {r} : ask'[n] = ask[n]
         /\ UNCHANGED <<stored, last, made, entered, shared>>
         /\ stream' \in [Requests -> {"unsent", "open", "result", "broken"}]
<1> USE PageAssumption
<1> DEFINE p    == page[t]
           sent == ~RenderRaises(p.talk)
           said == Append(p.talk, Said(r, "user"))
           talk == IF sent THEN Append(said, Said(r, "wait")) ELSE said
           q    == [p EXCEPT !.talk = talk]
           a    == [tab |-> t, home |-> p.at, slot |-> Len(said) + 1, needs |-> p.needs,
                    state |-> IF sent THEN "due" ELSE "dropped", landed |-> None]
<1>1. /\ t \in Open /\ ask[r] = None /\ p \in Page
      /\ page \in [Tabs -> Page \cup {None}] /\ ask \in [Requests -> Ask \cup {None}]
  BY DEF Send, TypeOK, Open
<1>2. /\ p.talk \in Seq(Entry) /\ p.at \in Sessions /\ p.needs \in SUBSET Requests
  BY <1>1 DEF Page
<1>3. /\ Said(r, "user") \in Entry /\ Said(r, "wait") \in Entry
      /\ Said(r, "user").of = r /\ Said(r, "wait").of = r
  BY SaidIsEntry
<1>4. /\ talk \in Seq(Entry) /\ Len(said) \in Nat
      /\ \A i \in DOMAIN p.talk : i \in DOMAIN talk /\ talk[i] = p.talk[i]
      /\ \A i \in DOMAIN talk \ DOMAIN p.talk : talk[i].of = r
      /\ sent => Len(said) + 1 \in DOMAIN talk /\ talk[Len(said) + 1].of = r
  <2>1. /\ said \in Seq(Entry) /\ Len(said) \in Nat /\ DOMAIN said = 1..Len(said)
        /\ \A i \in DOMAIN p.talk : i \in DOMAIN said /\ said[i] = p.talk[i]
        /\ \A i \in DOMAIN said \ DOMAIN p.talk : said[i].of = r
    BY <1>2, <1>3, AppendFacts
  <2> DEFINE full == Append(said, Said(r, "wait"))
  <2>2. /\ full \in Seq(Entry)
        /\ \A i \in DOMAIN said : i \in DOMAIN full /\ full[i] = said[i]
        /\ \A i \in DOMAIN full \ DOMAIN said : full[i] = Said(r, "wait")
        /\ Len(said) + 1 \in DOMAIN full /\ full[Len(said) + 1] = Said(r, "wait")
    BY <1>3, <2>1, AppendFacts
  <2>3. talk = IF sent THEN full ELSE said
    OBVIOUS
  <2> HIDE DEF said, sent, full, talk, p
  <2>4. CASE sent
    BY <1>3, <2>1, <2>2, <2>3, <2>4
  <2>5. CASE ~sent
    BY <2>1, <2>3, <2>5
  <2> QED
    BY <2>4, <2>5
<1>5. /\ page' = [page EXCEPT ![t] = q] /\ ask' = [ask EXCEPT ![r] = a]
      /\ UNCHANGED <<stored, last, made, entered, shared>>
  BY <1>1 DEF Send
<1>6. stream' \in [Requests -> {"unsent", "open", "result", "broken"}]
  BY DEF Send, TypeOK, Events!Opens, Events!Steps
<1> HIDE DEF sent, talk, said
<1>7. q \in Page /\ q.talk = talk /\ q.at = p.at /\ q.needs = p.needs
  BY <1>1, <1>2, <1>4 DEF Page
<1>8. /\ a \in Ask /\ a.tab = t /\ a.home = p.at /\ a.needs = p.needs
      /\ a.state \in {"due", "dropped"} /\ (a.state = "due" => sent) /\ a.slot = Len(said) + 1
  BY <1>2, <1>4 DEF Ask
<1>9. q # None /\ a # None
  BY <1>7, <1>8
<1> HIDE DEF q, a
<1>10. t \in Tabs /\ page'[t] = q /\ ask'[r] = a
       /\ (\A u \in Tabs \ {t} : page'[u] = page[u])
       /\ (\A n \in Requests \ {r} : ask'[n] = ask[n])
       /\ page' \in [Tabs -> Page \cup {None}] /\ ask' \in [Requests -> Ask \cup {None}]
  BY <1>1, <1>5, <1>7, <1>8 DEF Open
<1> HIDE DEF p
<1> QED
  BY <1>1, <1>4, <1>5, <1>6, <1>7, <1>8, <1>9, <1>10 DEF p

(* Events that arrive for a message are put in its slot of the conversation  *)
(* its tab shows.                                                            *)
Writes(r) == Progress(r) \/ \E answered \in BOOLEAN : Land(r, answered)

LEMMA WritesFacts ==
  ASSUME TypeOK, NEW r \in Requests, Writes(r)
  PROVE  LET t == ask[r].tab
             p == page[t]
             q == page'[t]
             a == ask'[r]
         IN
         /\ IsDue(r) /\ t \in Open /\ p \in Page
         /\ page' \in [Tabs -> Page \cup {None}] /\ q \in Page /\ q # None
         /\ q.at = p.at /\ q.needs \in {p.needs, ask[r].needs \cup {r}}
         /\ \A i \in DOMAIN p.talk : i \in DOMAIN q.talk
         /\ \A i \in DOMAIN p.talk \ {ask[r].slot} : q.talk[i] = p.talk[i]
         /\ ask[r].slot \in DOMAIN p.talk =>
              DOMAIN q.talk = DOMAIN p.talk /\ q.talk[ask[r].slot].of = r
         /\ \A u \in Tabs \ {t} : page'[u] = page[u]
         /\ ask' \in [Requests -> Ask \cup {None}] /\ a \in Ask
         /\ a.tab = t /\ a.home = ask[r].home /\ a.needs = ask[r].needs /\ a.slot = ask[r].slot
         /\ a.state = "written" => /\ a.landed = p.at
                                   /\ ask[r].slot # 0 => /\ ask[r].slot \in DOMAIN q.talk
                                                         /\ q.talk[ask[r].slot] = Said(r, "done")
                                   /\ stored' = IF RenderRaises(q.talk) \/ PersistRaises(q)
                                                THEN stored ELSE Saved(q)
         /\ a.state # "written" => stored' = stored
         /\ \A n \in Requests \ {r} : ask'[n] = ask[n]
         /\ UNCHANGED <<last, made, entered, shared>>
         /\ stream' \in [Requests -> {"unsent", "open", "result", "broken"}]
<1> USE PageAssumption
<1> DEFINE t == ask[r].tab
           p == page[t]
<1>1. /\ IsDue(r) /\ t \in Open /\ p \in Page /\ ask[r] \in Ask
      /\ page \in [Tabs -> Page \cup {None}] /\ ask \in [Requests -> Ask \cup {None}]
  BY DEF Writes, Progress, Land, TypeOK, Open, IsDue
<1>2. /\ t \in Tabs /\ p.talk \in Seq(Entry) /\ p.at \in Sessions /\ p.needs \in SUBSET Requests
      /\ ask[r].slot \in Nat /\ ask[r].needs \in SUBSET Requests
  BY <1>1 DEF Page, Ask, Open
<1>3. ASSUME NEW e \in {Said(r, "wait"), Said(r, "done")}
      PROVE  /\ Put(p.talk, ask[r].slot, e) \in Seq(Entry) /\ e.of = r
             /\ \A i \in DOMAIN p.talk : i \in DOMAIN Put(p.talk, ask[r].slot, e)
             /\ \A i \in DOMAIN p.talk \ {ask[r].slot} :
                  Put(p.talk, ask[r].slot, e)[i] = p.talk[i]
             /\ ask[r].slot # 0 => /\ ask[r].slot \in DOMAIN Put(p.talk, ask[r].slot, e)
                                   /\ Put(p.talk, ask[r].slot, e)[ask[r].slot] = e
             /\ ask[r].slot \in DOMAIN p.talk =>
                  /\ DOMAIN Put(p.talk, ask[r].slot, e) = DOMAIN p.talk
                  /\ Put(p.talk, ask[r].slot, e)[ask[r].slot] = e
  <2>1. e \in Entry /\ e.of = r
    BY SaidIsEntry
  <2> DEFINE talk == p.talk
             slot == ask[r].slot
             put  == Put(talk, slot, e)
  <2>2. talk \in Seq(Entry) /\ slot \in Nat /\ 0 \notin DOMAIN talk
    BY <1>2
  <2> HIDE DEF p, talk, slot
  <2>3. /\ put \in Seq(Entry)
        /\ \A i \in DOMAIN talk : i \in DOMAIN put
        /\ \A i \in DOMAIN talk \ {slot} : put[i] = talk[i]
        /\ slot # 0 => slot \in DOMAIN put /\ put[slot] = e
        /\ slot \in DOMAIN talk => DOMAIN put = DOMAIN talk
    BY <2>1, <2>2, PutFacts
  <2> HIDE DEF put
  <2>4. slot \in DOMAIN talk => DOMAIN put = DOMAIN talk /\ put[slot] = e
    BY <2>2, <2>3
  <2> QED
    BY <2>1, <2>3, <2>4 DEF put, talk, slot
<1>4. stream' \in [Requests -> {"unsent", "open", "result", "broken"}]
  <2>1. CASE Progress(r)
    BY <2>1 DEF Progress, Abandons, TypeOK
  <2>2. CASE \E answered \in BOOLEAN : Land(r, answered)
    BY <2>2 DEF Land, Events!Results, Events!Breaks, Events!Steps, TypeOK
  <2> QED
    BY <2>1, <2>2 DEF Writes
<1>5. PICK e \in {Said(r, "wait"), Said(r, "done")}, n \in {p.needs, ask[r].needs \cup {r}},
           st \in {"due", "dropped", "written"}, ld \in Sessions \cup {None} :
        /\ page' = [page EXCEPT ![t] = [p EXCEPT !.talk = Put(p.talk, ask[r].slot, e),
                                                 !.needs = n]]
        /\ ask' = [ask EXCEPT ![r] = [ask[r] EXCEPT !.state = st, !.landed = ld]]
        /\ st = "written" => /\ ld = p.at /\ e = Said(r, "done")
                             /\ stored' = IF RenderRaises(page'[t].talk) \/ PersistRaises(page'[t])
                                          THEN stored ELSE Saved(page'[t])
        /\ st # "written" => stored' = stored
        /\ UNCHANGED <<last, made, entered, shared>>
  <2>0. /\ ask[r] = [ask[r] EXCEPT !.state = "due", !.landed = ask[r].landed]
        /\ ask[r].landed \in Sessions \cup {None}
    BY <1>1 DEF IsDue, Ask
  <2>1. CASE Progress(r)
    <3> DEFINE raises == RenderRaises(Written(r, "wait"))
               e == IF raises THEN Said(r, "done") ELSE Said(r, "wait")
               st == IF raises THEN "dropped" ELSE "due"
               a  == [ask[r] EXCEPT !.state = st, !.landed = ask[r].landed]
               q  == [p EXCEPT !.talk = Put(p.talk, ask[r].slot, e), !.needs = p.needs]
    <3>1. page' = [page EXCEPT ![t] = q]
      <4>1. page' = [page EXCEPT ![t].talk = Put(p.talk, ask[r].slot, e)]
        BY <2>1 DEF Progress, Written
      <4>2. [p EXCEPT !.talk = Put(p.talk, ask[r].slot, e)] = q
        BY <1>1 DEF Page
      <4> QED
        BY <1>1, <1>2, <4>1, <4>2
    <3>2. ask' = [ask EXCEPT ![r] = a]
      <4>1. CASE raises
        <5>1. ask' = [ask EXCEPT ![r].state = "dropped"]
          BY <2>1, <4>1 DEF Progress
        <5>2. [ask[r] EXCEPT !.state = "dropped"] = a
          BY <1>1, <4>1 DEF Ask
        <5> QED
          BY <1>1, <5>1, <5>2
      <4>2. CASE ~raises
        BY <1>1, <2>0, <2>1, <4>2 DEF Progress
      <4> QED
        BY <4>1, <4>2
    <3>3. stored' = stored /\ UNCHANGED <<last, made, entered, shared>>
      BY <2>1 DEF Progress
    <3>4. e \in {Said(r, "wait"), Said(r, "done")} /\ st \in {"due", "dropped", "written"}
          /\ st # "written"
      OBVIOUS
    <3> HIDE DEF e, st, p
    <3> QED
      BY <2>0, <3>1, <3>2, <3>3, <3>4
  <2>2. ASSUME NEW answered \in BOOLEAN, Land(r, answered)
        PROVE  \E n \in {p.needs, ask[r].needs \cup {r}} :
                 /\ page' = [page EXCEPT ![t] =
                      [p EXCEPT !.talk = Put(p.talk, ask[r].slot, Said(r, "done")), !.needs = n]]
                 /\ ask' = [ask EXCEPT ![r] = [ask[r] EXCEPT !.state = "written", !.landed = p.at]]
                 /\ stored' = IF RenderRaises(page'[t].talk) \/ PersistRaises(page'[t])
                              THEN stored ELSE Saved(page'[t])
                 /\ UNCHANGED <<last, made, entered, shared>>
    <3> DEFINE n == IF answered THEN ask[r].needs \cup {r} ELSE p.needs
               q == [p EXCEPT !.talk = Put(p.talk, ask[r].slot, Said(r, "done")), !.needs = n]
    <3>1. page' = [page EXCEPT ![t] = q]
      BY <2>2 DEF Land, Written
    <3>2. q.at = p.at
      BY <1>1 DEF Page
    <3>3. ask' = [ask EXCEPT ![r].state = "written", ![r].landed = p.at]
      BY <2>2, <3>2 DEF Land, Written
    <3>4. ask' = [ask EXCEPT ![r] = [ask[r] EXCEPT !.state = "written", !.landed = p.at]]
      BY <1>1, <3>3
    <3>5. page'[t] = q
      BY <1>1, <1>2, <3>1
    <3>6. /\ stored' = IF RenderRaises(q.talk) \/ PersistRaises(q) THEN stored ELSE Saved(q)
          /\ UNCHANGED <<last, made, entered, shared>>
      BY <2>2 DEF Land, Written
    <3> HIDE DEF p
    <3> QED
      BY <3>1, <3>4, <3>5, <3>6
  <2> HIDE DEF p, t
  <2>3. p.at \in Sessions \cup {None}
    BY <1>2
  <2> QED
    BY <2>1, <2>2, <2>3 DEF Writes
<1> DEFINE talk == Put(p.talk, ask[r].slot, e)
           q == [p EXCEPT !.talk = talk, !.needs = n]
           a == [ask[r] EXCEPT !.state = st, !.landed = ld]
<1>6. q \in Page /\ q.at = p.at /\ q.talk = talk /\ q.needs = n
  <2>1. talk \in Seq(Entry) /\ n \in SUBSET Requests
    BY <1>2, <1>3
  <2> HIDE DEF talk
  <2> QED
    BY <1>1, <2>1 DEF Page
<1>7. /\ a \in Ask /\ a.tab = t /\ a.home = ask[r].home /\ a.needs = ask[r].needs
      /\ a.slot = ask[r].slot /\ a.state = st /\ a.landed = ld
  BY <1>1 DEF Ask
<1>8. q # None
  BY <1>6
<1> HIDE DEF q, a, p
<1>9. page' = [page EXCEPT ![t] = q] /\ ask' = [ask EXCEPT ![r] = a]
  BY <1>5 DEF q, a
<1>10. /\ page'[t] = q /\ ask'[r] = a
       /\ \A u \in Tabs \ {t} : page'[u] = page[u]
       /\ \A x \in Requests \ {r} : ask'[x] = ask[x]
       /\ page' \in [Tabs -> Page \cup {None}] /\ ask' \in [Requests -> Ask \cup {None}]
  BY <1>1, <1>2, <1>6, <1>7, <1>9
<1>11. /\ \A i \in DOMAIN p.talk : i \in DOMAIN talk
       /\ \A i \in DOMAIN p.talk \ {ask[r].slot} : talk[i] = p.talk[i]
       /\ ask[r].slot \in DOMAIN p.talk =>
            DOMAIN talk = DOMAIN p.talk /\ talk[ask[r].slot].of = r
       /\ ask[r].slot # 0 => ask[r].slot \in DOMAIN talk /\ talk[ask[r].slot] = e
  BY <1>3
<1>12. /\ st = "written" => /\ ld = p.at /\ e = Said(r, "done")
                            /\ stored' = IF RenderRaises(q.talk) \/ PersistRaises(q)
                                         THEN stored ELSE Saved(q)
       /\ st # "written" => stored' = stored
       /\ UNCHANGED <<last, made, entered, shared>>
  BY <1>5, <1>10
<1> HIDE DEF talk, t
<1> QED
  BY <1>1, <1>4, <1>6, <1>7, <1>8, <1>10, <1>11, <1>12 DEF p, t

(* A tab that is closed waits for nothing any more; what was written before  *)
(* stays as it was.                                                          *)
LEMMA CloseFacts ==
  ASSUME TypeOK, NEW t \in Tabs, Close(t)
  PROVE  /\ page' \in [Tabs -> Page \cup {None}] /\ page'[t] = None
         /\ \A u \in Tabs \ {t} : page'[u] = page[u]
         /\ ask' \in [Requests -> Ask \cup {None}]
         /\ \A r \in Requests :
              /\ ask[r] = None => ask'[r] = None
              /\ ask[r] # None => /\ ask'[r] # None /\ ask'[r].home = ask[r].home
                                  /\ ask'[r].state \in {ask[r].state, "dropped"}
              /\ IsDue(r)' => ask'[r] = ask[r] /\ ask[r].tab # t
              /\ ask'[r] # None /\ ask'[r].state = "written" => ask'[r] = ask[r]
         /\ UNCHANGED <<stored, last, made, entered, shared>>
         /\ stream' \in [Requests -> {"unsent", "open", "result", "broken"}]
<1> USE PageAssumption
<1>1. /\ page' = [page EXCEPT ![t] = None] /\ page \in [Tabs -> Page \cup {None}]
      /\ UNCHANGED <<stored, last, made, entered, shared>>
      /\ ask \in [Requests -> Ask \cup {None}]
  BY DEF Close, TypeOK
<1>2. stream' \in [Requests -> {"unsent", "open", "result", "broken"}]
  BY DEF Close, Abandons, TypeOK
<1>3. ASSUME NEW r \in Requests, r \in Due(t)
      PROVE  /\ ask[r] \in Ask /\ ask'[r] = [ask[r] EXCEPT !.state = "dropped"]
             /\ ask'[r] \in Ask /\ ask'[r] # None /\ ask'[r].home = ask[r].home
             /\ ask'[r].state = "dropped"
  BY <1>1, <1>3 DEF Close, Due, Ask
<1>4. ASSUME NEW r \in Requests, r \notin Due(t)
      PROVE  ask'[r] = ask[r]
  BY <1>4 DEF Close
<1>5. ask' \in [Requests -> Ask \cup {None}]
  <2>1. ask' = [r \in Requests |-> ask'[r]]
    BY DEF Close
  <2>2. \A r \in Requests : ask'[r] \in Ask \cup {None}
    BY <1>1, <1>3, <1>4
  <2> QED
    BY <2>1, <2>2
<1>6. ASSUME NEW r \in Requests
      PROVE  /\ ask[r] = None => ask'[r] = None
             /\ ask[r] # None => /\ ask'[r] # None /\ ask'[r].home = ask[r].home
                                 /\ ask'[r].state \in {ask[r].state, "dropped"}
             /\ IsDue(r)' => ask'[r] = ask[r] /\ ask[r].tab # t
             /\ ask'[r] # None /\ ask'[r].state = "written" => ask'[r] = ask[r]
  <2>1. CASE r \in Due(t)
    BY <1>3, <2>1 DEF IsDue, Due
  <2>2. CASE r \notin Due(t)
    BY <1>4, <2>2 DEF IsDue, Due
  <2> QED
    BY <2>1, <2>2
<1> QED
  BY <1>1, <1>2, <1>5, <1>6

(* What the page does is one of four things. *)
LEMMA StepCases ==
  ASSUME [Next]_vars
  PROVE  \/ \E t \in Tabs : Goes(t) \/ Close(t) \/ \E r \in Requests : Send(t, r)
         \/ \E r \in Requests : Writes(r)
         \/ UNCHANGED vars
BY DEF Next, Goes, Writes

LEMMA StepTypes == TypeOK /\ [Next]_vars => TypeOK'
<1> SUFFICES ASSUME TypeOK, [Next]_vars PROVE TypeOK'
  OBVIOUS
<1> USE PageAssumption
<1>1. CASE \E t \in Tabs : Goes(t)
  <2> PICK t \in Tabs : Goes(t)
    BY <1>1
  <2>1. /\ stored' \in [Sessions -> Session \cup {None}] /\ made' \in 0..MaxSessions
        /\ UNCHANGED <<stream, ask>>
        /\ \/ UNCHANGED <<page, last, entered, shared>>
           \/ \E s \in Sessions : stored'[s] # None /\ Shows(t, s, stored')
    BY GoesFacts
  <2>2. CASE UNCHANGED <<page, last, entered, shared>>
    BY <2>1, <2>2 DEF TypeOK, IsDue, Open
  <2>3. ASSUME NEW s \in Sessions, stored'[s] # None, Shows(t, s, stored')
        PROVE  /\ page' \in [Tabs -> Page \cup {None}] /\ Open \subseteq Open'
               /\ last' \in Sessions /\ entered' \subseteq Sessions /\ shared' \subseteq Sessions
    BY <2>1, <2>3, ShowsFacts
  <2>4. CASE \E s \in Sessions : stored'[s] # None /\ Shows(t, s, stored')
    BY <2>1, <2>3, <2>4 DEF TypeOK, IsDue
  <2> QED
    BY <2>1, <2>2, <2>4
<1>2. CASE \E t \in Tabs : Close(t)
  <2> PICK t \in Tabs : Close(t)
    BY <1>2
  <2>1. \A r \in Requests : IsDue(r)' => IsDue(r) /\ ask'[r].tab \in Open \ {t}
    BY CloseFacts DEF TypeOK, IsDue
  <2>2. Open \ {t} \subseteq Open'
    BY CloseFacts DEF Open
  <2> QED
    BY <2>1, <2>2, CloseFacts DEF TypeOK
<1>3. CASE \E t \in Tabs, r \in Requests : Send(t, r)
  <2> PICK t \in Tabs, r \in Requests : Send(t, r)
    BY <1>3
  <2>1. /\ page'[t] # None /\ ask'[r].tab = t /\ \A u \in Tabs \ {t} : page'[u] = page[u]
        /\ \A n \in Requests \ {r} : ask'[n] = ask[n]
    BY SendFacts
  <2>2. Open \subseteq Open' /\ t \in Open'
    BY <2>1 DEF Open
  <2>3. \A n \in Requests : IsDue(n)' => ask'[n].tab \in Open'
    BY <2>1, <2>2 DEF TypeOK, IsDue
  <2> QED
    BY <2>3, SendFacts DEF TypeOK
<1>4. CASE \E r \in Requests : Writes(r)
  <2> PICK r \in Requests : Writes(r)
    BY <1>4
  <2> DEFINE t == ask[r].tab
  <2>1. /\ t \in Open /\ page'[t] # None /\ ask'[r].tab = t /\ page'[t] \in Page
        /\ page' \in [Tabs -> Page \cup {None}] /\ ask' \in [Requests -> Ask \cup {None}]
        /\ \A u \in Tabs \ {t} : page'[u] = page[u]
        /\ \A n \in Requests \ {r} : ask'[n] = ask[n]
        /\ stored' \in {stored, Saved(page'[t])}
        /\ UNCHANGED <<last, made, entered, shared>>
        /\ stream' \in [Requests -> {"unsent", "open", "result", "broken"}]
    BY WritesFacts
  <2>2. Open \subseteq Open'
    BY <2>1 DEF Open
  <2>3. \A n \in Requests : IsDue(n)' => ask'[n].tab \in Open'
    BY <2>1, <2>2 DEF TypeOK, IsDue
  <2>4. stored' \in [Sessions -> Session \cup {None}]
    BY <2>1, SavedFacts DEF TypeOK
  <2> QED
    BY <2>1, <2>3, <2>4 DEF TypeOK
<1>5. CASE UNCHANGED vars
  BY <1>5 DEF vars, pageVars, TypeOK, IsDue, Open
<1> QED
  BY <1>1, <1>2, <1>3, <1>4, <1>5, StepCases

(* What the page and the store hold has the form the handlers rely on, and   *)
(* only an open tab waits for an answer.                                     *)
THEOREM PageTypes == Spec => []TypeOK
<1>1. Init => TypeOK
  BY InitPage
<1>2. TypeOK /\ [Next]_vars => TypeOK'
  BY StepTypes
<1> QED
  BY <1>1, <1>2, PTL DEF Spec
-----------------------------------------------------------------------------
(* A session that was deleted. *)

LEMMA StepDeleted ==
  ASSUME TypeOK, [Next]_vars, NEW z \in 1..made, z \notin Listed
  PROVE  z \notin Listed'
<1>1. made \in Nat /\ z # made + 1
  BY PageAssumption DEF TypeOK
<1>2. SUFFICES ASSUME z \in Sessions, stored'[z] # None
               PROVE  z \in Listed
  BY DEF Listed
<1>3. CASE \E t \in Tabs : Goes(t)
  BY <1>1, <1>2, <1>3, GoesFacts DEF KeptAt
<1>4. CASE \E t \in Tabs : Close(t) \/ \E r \in Requests : Send(t, r)
  <2>1. stored' = stored
    BY <1>4 DEF Close, Send
  <2> QED
    BY <1>2, <2>1 DEF Listed
<1>5. CASE \E r \in Requests : Writes(r)
  <2> PICK r \in Requests : Writes(r)
    BY <1>5
  <2>1. page'[ask[r].tab] \in Page /\ stored' \in {stored, Saved(page'[ask[r].tab])}
    BY WritesFacts
  <2>2. stored'[z] # stored[z] => z \in Listed
    BY <1>2, <2>1, SavedFacts
  <2> QED
    BY <1>2, <2>2 DEF Listed
<1>6. CASE UNCHANGED vars
  BY <1>2, <1>6 DEF vars, pageVars, Listed
<1> QED
  BY <1>3, <1>4, <1>5, <1>6, StepCases

(* A session that the user deleted stays deleted: persistCurrent does not    *)
(* put it back, whether another tab still shows it or an answer to it comes. *)
THEOREM DeletedForGood == Spec => DeletedStaysDeleted
<1>1. TypeOK /\ [Next]_vars => [\A s \in 1..made : s \notin Listed => s \notin Listed']_vars
  BY StepDeleted
<1> QED
  BY <1>1, PageTypes, PTL DEF Spec, DeletedStaysDeleted
-----------------------------------------------------------------------------
(* The inductive invariant.  Its parts are operators of the page's requests, *)
(* k, and of the sets of sessions that were entered and shared.              *)
Sent(k, s, r)      == k[r] # None /\ k[r].home = s
WrittenIn(k, s, r) == k[r] # None /\ k[r].state = "written" /\ k[r].landed = s
Awaited(k, r)      == k[r] # None /\ k[r].state = "due"
Holds(talk, r)     == \E i \in DOMAIN talk : talk[i] = Said(r, "done")

Proper(k, s, talk, needs) ==
  /\ \A i \in DOMAIN talk : talk[i].of \in Requests /\ Sent(k, s, talk[i].of)
  /\ \A r \in needs : Sent(k, s, r)

(* A conversation of session s, shown or stored, is its own and complete. *)
Good(k, en, sh, s, talk, needs) ==
  /\ s \notin en => Proper(k, s, talk, needs)
  /\ s \notin en \cup sh => \A r \in Requests : WrittenIn(k, s, r) => Holds(talk, r)

(* A due answer has its slot, in the session it was asked in. *)
Slotted(k, r, s, talk) ==
  /\ k[r].home = s
  /\ k[r].slot \in DOMAIN talk /\ talk[k[r].slot].of = r
  /\ \A q \in k[r].needs : Sent(k, s, q)

MadeInv ==
  /\ \A z \in Sessions : stored[z] # None => z <= made
  /\ \A t \in Tabs : page[t] # None => page[t].at <= made
  /\ \A r \in Requests : ask[r] # None /\ ask[r].state = "written" => ask[r].landed \in 1..made

SoleInv ==
  \A t, u \in Tabs : page[t] # None /\ page[u] # None /\ t # u /\ page[t].at = page[u].at
                       => page[t].at \in shared

DueInv ==
  \A r \in Requests : Awaited(ask, r) /\ page[ask[r].tab].at \notin entered
                        => Slotted(ask, r, page[ask[r].tab].at, page[ask[r].tab].talk)

StoreInv ==
  \A z \in Sessions : stored[z] # None =>
    Good(ask, entered, shared, z, stored[z].talk, stored[z].needs)

ShowInv ==
  \A t \in Tabs : page[t] # None =>
    Good(ask, entered, shared, page[t].at, page[t].talk, page[t].needs)

PageInv == MadeInv /\ SoleInv /\ DueInv /\ StoreInv /\ ShowInv

(* It stays good as requests are sent and as more sessions are entered.      *)
LEMMA GoodStays ==
  ASSUME NEW k, NEW k2, NEW en, NEW en2, NEW sh, NEW sh2, NEW s, NEW talk, NEW needs,
         needs \subseteq Requests, en \subseteq en2, sh \subseteq sh2,
         \A r \in Requests : k[r] # None => k2[r] # None /\ k2[r].home = k[r].home,
         s \notin en2 \cup sh2 => \A r \in Requests : WrittenIn(k2, s, r) => WrittenIn(k, s, r),
         Good(k, en, sh, s, talk, needs)
  PROVE  Good(k2, en2, sh2, s, talk, needs)
<1>1. ASSUME NEW r \in Requests, Sent(k, s, r) PROVE Sent(k2, s, r)
  BY <1>1 DEF Sent
<1>2. s \notin en2 => Proper(k2, s, talk, needs)
  BY <1>1 DEF Good, Proper
<1>3. s \notin en2 \cup sh2 => \A r \in Requests : WrittenIn(k2, s, r) => Holds(talk, r)
  BY DEF Good
<1> QED
  BY <1>2, <1>3 DEF Good

(* An own conversation has no holes: it is drawn, and stored as it is.       *)
LEMMA ProperIsDrawn ==
  ASSUME NEW k, NEW s, NEW talk, NEW needs, Proper(k, s, talk, needs)
  PROVE  ~RenderRaises(talk) /\ \A i \in DOMAIN talk : talk[i] \notin {Hole, Null}
<1>1. 0 \notin Requests /\ Hole.of = 0 /\ Null.of = 0
  BY PageAssumption DEF Hole, Null, Said
<1> QED
  BY <1>1 DEF Proper, RenderRaises

LEMMA StoredGood ==
  ASSUME NEW k, NEW en, NEW sh, NEW s, NEW talk \in Seq(Entry), NEW needs,
         Good(k, en, sh, s, talk, needs)
  PROVE  Good(k, en, sh, s, Stored(talk), needs)
<1>1. CASE s \notin en
  <2>1. \A i \in DOMAIN talk : talk[i] # Hole
    BY <1>1, ProperIsDrawn DEF Good
  <2>2. talk = [i \in DOMAIN talk |-> talk[i]]
    OBVIOUS
  <2>3. Stored(talk) = talk
    BY <2>1, <2>2 DEF Stored
  <2> QED
    BY <2>3
<1>2. CASE s \in en
  BY <1>2 DEF Good
<1> QED
  BY <1>1, <1>2

LEMMA InitPageInv == Init => PageInv
BY DEF Init, PageInv, MadeInv, SoleInv, DueInv, StoreInv, ShowInv, Awaited

LEMMA PageTypeFacts ==
  ASSUME TypeOK
  PROVE  /\ made \in Nat /\ Sessions \subseteq Nat \ {0}
         /\ \A z \in Sessions : stored[z] # None =>
              stored[z].talk \in Seq(Entry) /\ stored[z].needs \subseteq Requests
         /\ \A t \in Tabs : page[t] # None =>
              /\ page[t] \in Page /\ page[t].at \in Sessions
              /\ page[t].talk \in Seq(Entry) /\ page[t].needs \subseteq Requests
         /\ \A r \in Requests : ask[r] # None => ask[r] \in Ask /\ ask[r].needs \subseteq Requests
         /\ \A r \in Requests : Awaited(ask, r) => ask[r].tab \in Tabs /\ page[ask[r].tab] # None
<1>1. /\ stored \in [Sessions -> Session \cup {None}] /\ page \in [Tabs -> Page \cup {None}]
      /\ ask \in [Requests -> Ask \cup {None}] /\ made \in Nat
      /\ \A r \in Requests : IsDue(r) => ask[r].tab \in Open
  BY PageAssumption DEF TypeOK
<1>2. \A z \in Sessions : stored[z] # None =>
        stored[z].talk \in Seq(Entry) /\ stored[z].needs \subseteq Requests
  BY <1>1 DEF Session
<1>3. \A t \in Tabs : page[t] # None =>
        /\ page[t] \in Page /\ page[t].at \in Sessions
        /\ page[t].talk \in Seq(Entry) /\ page[t].needs \subseteq Requests
  BY <1>1 DEF Page
<1>4. \A r \in Requests : ask[r] # None => ask[r] \in Ask /\ ask[r].needs \subseteq Requests
  BY <1>1 DEF Ask
<1>5. \A r \in Requests : Awaited(ask, r) => ask[r].tab \in Tabs /\ page[ask[r].tab] # None
  BY <1>1 DEF Awaited, IsDue, Open
<1>6. Sessions \subseteq Nat \ {0}
  BY PageAssumption DEF Sessions
<1> QED
  BY <1>1, <1>2, <1>3, <1>4, <1>5, <1>6

(* Going to a session: what is due there, or was shown twice, marks it.      *)
LEMMA GoesInv ==
  ASSUME TypeOK, PageInv, NEW t \in Tabs, Goes(t)
  PROVE  PageInv'
<1> USE DEF PageInv
<1>1. /\ made' \in {made, made + 1} /\ UNCHANGED ask
      /\ \A z \in Sessions : stored'[z] # None => KeptAt(t, z)
      /\ \/ UNCHANGED <<page, entered, shared>>
         \/ \E s \in Sessions : stored'[s] # None /\ Shows(t, s, stored')
  BY GoesFacts
<1>2. made \in Nat /\ made \in 0..made' /\ made' \in Nat
  BY <1>1, PageTypeFacts
<1>3. ASSUME NEW z \in Sessions, stored'[z] # None PROVE z <= made'
  <2>1. z \in Nat /\ ((z = made + 1 /\ made' = made + 1) \/ stored[z] # None)
    BY <1>1, <1>3, PageTypeFacts DEF KeptAt, Listed
  <2>2. stored[z] # None => z <= made
    BY DEF MadeInv
  <2> QED
    BY <1>2, <2>1, <2>2
<1>4. ASSUME NEW z \in Sessions, stored'[z] # None
      PROVE  /\ Good(ask, entered, shared, z, stored'[z].talk, stored'[z].needs)
             /\ stored'[z].needs \subseteq Requests
  <2>1. CASE z \in Listed /\ stored'[z] = stored[z]
    BY <2>1, PageTypeFacts DEF Listed, StoreInv
  <2>2. CASE z \in Listed /\ t \in Open /\ z = page[t].at /\ stored'[z] = Saved(page[t])[z]
    <3>1. page[t] \in Page /\ page[t].talk \in Seq(Entry) /\ page[t].needs \subseteq Requests
          /\ Good(ask, entered, shared, z, page[t].talk, page[t].needs)
      BY <2>2, PageTypeFacts DEF Open, ShowInv
    <3>2. stored'[z].talk = Stored(page[t].talk) /\ stored'[z].needs = page[t].needs
      BY <2>2, <3>1, SavedFacts
    <3> QED
      BY <3>1, <3>2, StoredGood
  <2>3. CASE z = made + 1 /\ stored'[z] = Empty
    <3>1. \A r \in Requests : ~WrittenIn(ask, z, r)
      BY <1>2, <2>3 DEF WrittenIn, MadeInv
    <3>2. DOMAIN Empty.talk = {} /\ Empty.needs = {}
      BY DEF Empty
    <3> QED
      BY <2>3, <3>1, <3>2 DEF Good, Proper
  <2> QED
    BY <1>1, <1>4, <2>1, <2>2, <2>3 DEF KeptAt
<1>5. MadeInv'
  <2>1. \A r \in Requests : ask'[r] # None /\ ask'[r].state = "written" => ask'[r].landed \in 1..made'
    BY <1>1, <1>2 DEF MadeInv
  <2>2. ASSUME NEW u \in Tabs, page'[u] # None PROVE page'[u].at <= made'
    <3>1. CASE page'[u] = page[u]
      BY <1>2, <2>2, <3>1, PageTypeFacts DEF MadeInv
    <3>2. CASE \E s \in Sessions : stored'[s] # None /\ Shows(t, s, stored') /\ u = t
      BY <1>3, <3>2, GoesFacts, ShowsFacts
    <3> QED
      BY <1>1, <3>1, <3>2, GoesFacts, ShowsFacts
  <2> QED
    BY <1>3, <2>1, <2>2 DEF MadeInv
<1>6. CASE UNCHANGED <<page, entered, shared>>
  BY <1>1, <1>4, <1>5, <1>6 DEF SoleInv, DueInv, StoreInv, ShowInv
<1>7. CASE \E s \in Sessions : stored'[s] # None /\ Shows(t, s, stored')
  <2> PICK s \in Sessions : stored'[s] # None /\ Shows(t, s, stored')
    BY <1>7
  <2>1. /\ page'[t].at = s /\ page'[t].talk = stored'[s].talk /\ page'[t].needs = stored'[s].needs
        /\ \A u \in Tabs \ {t} : page'[u] = page[u]
        /\ entered \subseteq entered' /\ (Due(t) # {} => s \in entered')
        /\ shared \subseteq shared' /\ \A u \in Open \ {t} : page[u].at = s => s \in shared'
    BY GoesFacts, ShowsFacts
  <2>2. \A z \in Sessions : stored'[z] # None =>
          Good(ask', entered', shared', z, stored'[z].talk, stored'[z].needs)
    BY <1>1, <1>4, <2>1, GoodStays
  <2>3. \A u \in Tabs : page'[u] # None =>
          Good(ask', entered', shared', page'[u].at, page'[u].talk, page'[u].needs)
    <3>1. Good(ask', entered', shared', page'[t].at, page'[t].talk, page'[t].needs)
      BY <2>1, <2>2
    <3>2. \A u \in Tabs \ {t} : page[u] # None =>
            Good(ask', entered', shared', page[u].at, page[u].talk, page[u].needs)
      BY <1>1, <2>1, GoodStays, PageTypeFacts DEF ShowInv
    <3> QED
      BY <2>1, <3>1, <3>2
  <2>5. \A u, v \in Tabs : page'[u] # None /\ page'[v] # None /\ u # v /\ page'[u].at = page'[v].at
                             => page'[u].at \in shared'
    <3>1. \A u \in Tabs \ {t} : page'[u] # None /\ page'[u].at = s => s \in shared'
      BY <2>1 DEF Open
    <3> QED
      BY <2>1, <3>1 DEF SoleInv
  <2>6. \A r \in Requests : Awaited(ask', r) /\ page'[ask'[r].tab].at \notin entered'
          => Slotted(ask', r, page'[ask'[r].tab].at, page'[ask'[r].tab].talk)
    <3> SUFFICES ASSUME NEW r \in Requests, Awaited(ask, r), page'[ask[r].tab].at \notin entered'
                 PROVE  Slotted(ask, r, page'[ask[r].tab].at, page'[ask[r].tab].talk)
      BY <1>1
    <3>1. ask[r].tab \in Tabs
      BY PageTypeFacts
    <3>2. CASE ask[r].tab = t
      BY <2>1, <3>2 DEF Due, Awaited
    <3>3. CASE ask[r].tab # t
      BY <2>1, <3>1, <3>3 DEF DueInv
    <3> QED
      BY <3>2, <3>3
  <2> QED
    BY <1>5, <2>2, <2>3, <2>5, <2>6 DEF SoleInv, DueInv, StoreInv, ShowInv
<1> QED
  BY <1>1, <1>6, <1>7

LEMMA CloseInv ==
  ASSUME TypeOK, PageInv, NEW t \in Tabs, Close(t)
  PROVE  PageInv'
<1> USE DEF PageInv
<1>1. /\ page'[t] = None /\ \A u \in Tabs \ {t} : page'[u] = page[u]
      /\ \A r \in Requests :
           /\ ask[r] # None => ask'[r] # None /\ ask'[r].home = ask[r].home
           /\ IsDue(r)' => ask'[r] = ask[r] /\ ask[r].tab # t
           /\ ask'[r] # None /\ ask'[r].state = "written" => ask'[r] = ask[r]
      /\ UNCHANGED <<stored, made, entered, shared>>
  BY CloseFacts
<1>2. MadeInv' /\ SoleInv'
  BY <1>1 DEF MadeInv, SoleInv
<1>3. \A s : \A r \in Requests : WrittenIn(ask', s, r) => WrittenIn(ask, s, r)
  BY <1>1 DEF WrittenIn
<1>4. StoreInv'
  BY <1>1, <1>3, GoodStays, PageTypeFacts DEF StoreInv
<1>5. ShowInv'
  <2>1. \A u \in Tabs : page[u] # None =>
          Good(ask', entered', shared', page[u].at, page[u].talk, page[u].needs)
    BY <1>1, <1>3, GoodStays, PageTypeFacts DEF ShowInv
  <2> QED
    BY <1>1, <2>1 DEF ShowInv
<1>6. \A r \in Requests : Awaited(ask', r) /\ page'[ask'[r].tab].at \notin entered'
        => Slotted(ask', r, page'[ask'[r].tab].at, page'[ask'[r].tab].talk)
  <2> SUFFICES ASSUME NEW r \in Requests, Awaited(ask', r), page'[ask'[r].tab].at \notin entered'
               PROVE  Slotted(ask', r, page'[ask'[r].tab].at, page'[ask'[r].tab].talk)
    OBVIOUS
  <2>1. ask'[r] = ask[r] /\ Awaited(ask, r) /\ ask[r].tab \in Tabs \ {t}
    BY <1>1, PageTypeFacts DEF Awaited, IsDue
  <2>2. Slotted(ask, r, page[ask[r].tab].at, page[ask[r].tab].talk)
    BY <1>1, <2>1 DEF DueInv
  <2>3. \A q \in ask[r].needs : Sent(ask', page[ask[r].tab].at, q)
    BY <1>1, <2>1, <2>2, PageTypeFacts DEF Slotted, Sent, Awaited
  <2> QED
    BY <1>1, <2>1, <2>2, <2>3 DEF Slotted
<1> QED
  BY <1>2, <1>4, <1>5, <1>6 DEF DueInv

(* A message is added to the conversation of the session it is sent in.      *)
LEMMA SendInv ==
  ASSUME TypeOK, PageInv, NEW t \in Tabs, NEW r \in Requests, Send(t, r)
  PROVE  PageInv'
<1> USE DEF PageInv
<1> DEFINE p == page[t]
           q == page'[t]
           a == ask'[r]
<1>1. /\ t \in Open /\ ask[r] = None /\ q # None /\ q.at = p.at /\ q.needs = p.needs
      /\ \A i \in DOMAIN p.talk : i \in DOMAIN q.talk /\ q.talk[i] = p.talk[i]
      /\ \A i \in DOMAIN q.talk \ DOMAIN p.talk : q.talk[i].of = r
      /\ \A u \in Tabs \ {t} : page'[u] = page[u]
      /\ a # None /\ a.tab = t /\ a.home = p.at /\ a.needs = p.needs
      /\ a.state \in {"due", "dropped"}
      /\ a.state = "due" => a.slot \in DOMAIN q.talk /\ q.talk[a.slot].of = r
      /\ \A n \in Requests \ {r} : ask'[n] = ask[n]
      /\ UNCHANGED <<stored, made, entered, shared>>
  BY SendFacts
<1>2. p # None /\ p.at \in Sessions /\ p.needs \subseteq Requests
  BY <1>1, PageTypeFacts DEF Open
<1>3. /\ \A n \in Requests : ask[n] # None => ask'[n] # None /\ ask'[n].home = ask[n].home
      /\ \A n \in Requests : ask'[n] # None /\ ask'[n].state = "written" => ask'[n] = ask[n]
      /\ \A s : \A n \in Requests : WrittenIn(ask', s, n) => WrittenIn(ask, s, n)
  BY <1>1 DEF WrittenIn
<1>4. MadeInv' /\ SoleInv'
  <2>1. \A u \in Tabs : (page'[u] # None <=> page[u] # None) /\ page'[u].at = page[u].at
    BY <1>1, <1>2
  <2> QED
    BY <1>1, <1>3, <2>1 DEF MadeInv, SoleInv
<1>5. StoreInv'
  BY <1>1, <1>3, GoodStays, PageTypeFacts DEF StoreInv
<1>6. ASSUME NEW u \in Tabs, page[u] # None
      PROVE  Good(ask', entered', shared', page[u].at, page[u].talk, page[u].needs)
  BY <1>1, <1>3, <1>6, GoodStays, PageTypeFacts DEF ShowInv
<1>7. Good(ask', entered', shared', q.at, q.talk, q.needs)
  <2>1. Good(ask', entered', shared', p.at, p.talk, p.needs) /\ Sent(ask', p.at, r)
    BY <1>1, <1>2, <1>6 DEF Sent
  <2> HIDE DEF p, q, a
  <2>2. ASSUME p.at \notin entered' PROVE Proper(ask', p.at, q.talk, p.needs)
    BY <1>1, <2>1, <2>2 DEF Good, Proper
  <2>3. \A n : Holds(p.talk, n) => Holds(q.talk, n)
    BY <1>1 DEF Holds
  <2> QED
    BY <1>1, <2>1, <2>2, <2>3 DEF Good
<1>8. ShowInv'
  BY <1>1, <1>6, <1>7 DEF ShowInv
<1>9. ASSUME NEW n \in Requests, Awaited(ask', n), page'[ask'[n].tab].at \notin entered'
      PROVE  Slotted(ask', n, page'[ask'[n].tab].at, page'[ask'[n].tab].talk)
  <2>1. CASE n = r
    <3>1. Good(ask', entered', shared', p.at, p.talk, p.needs) /\ p.at \notin entered'
      BY <1>1, <1>2, <1>6, <1>9, <2>1
    <3>2. \A m \in p.needs : Sent(ask', p.at, m)
      BY <3>1 DEF Good, Proper
    <3> QED
      BY <1>1, <1>9, <2>1, <3>2 DEF Slotted, Awaited
  <2>2. CASE n # r
    <3>1. /\ ask'[n] = ask[n] /\ Awaited(ask, n)
          /\ ask[n].tab \in Tabs /\ page[ask[n].tab] # None /\ ask[n].needs \subseteq Requests
      BY <1>1, <1>9, <2>2, PageTypeFacts DEF Awaited
    <3> DEFINE u == ask[n].tab
    <3>2. page'[u].at = page[u].at /\ page[u].at \notin entered
      BY <1>1, <1>9, <3>1
    <3>3. Slotted(ask, n, page[u].at, page[u].talk)
      BY <3>1, <3>2 DEF DueInv
    <3>4. /\ ask[n].slot \in DOMAIN page'[u].talk
          /\ page'[u].talk[ask[n].slot].of = n
      BY <1>1, <3>1, <3>3 DEF Slotted
    <3>5. \A m \in ask[n].needs : Sent(ask', page[u].at, m)
      BY <1>3, <3>1, <3>3 DEF Slotted, Sent
    <3> QED
      BY <3>1, <3>2, <3>3, <3>4, <3>5 DEF Slotted
  <2> QED
    BY <2>1, <2>2
<1> QED
  BY <1>4, <1>5, <1>8, <1>9 DEF DueInv

(* An event is put where its message waits for it.                           *)
LEMMA WritesInv ==
  ASSUME TypeOK, PageInv, NEW r \in Requests, Writes(r)
  PROVE  PageInv'
<1> USE DEF PageInv
<1> DEFINE t == ask[r].tab
           p == page[t]
           q == page'[t]
           a == ask'[r]
           slot == ask[r].slot
<1>1. /\ IsDue(r) /\ t \in Open /\ p \in Page
      /\ q \in Page /\ q # None /\ q.at = p.at /\ q.needs \in {p.needs, ask[r].needs \cup {r}}
      /\ \A i \in DOMAIN p.talk : i \in DOMAIN q.talk
      /\ \A i \in DOMAIN p.talk \ {slot} : q.talk[i] = p.talk[i]
      /\ slot \in DOMAIN p.talk => DOMAIN q.talk = DOMAIN p.talk /\ q.talk[slot].of = r
      /\ \A u \in Tabs \ {t} : page'[u] = page[u]
      /\ a \in Ask /\ a.tab = t /\ a.home = ask[r].home /\ a.needs = ask[r].needs /\ a.slot = slot
      /\ a.state = "written" => /\ a.landed = p.at
                                /\ slot # 0 => slot \in DOMAIN q.talk /\ q.talk[slot] = Said(r, "done")
                                /\ stored' = IF RenderRaises(q.talk) \/ PersistRaises(q)
                                             THEN stored ELSE Saved(q)
      /\ a.state # "written" => stored' = stored
      /\ \A n \in Requests \ {r} : ask'[n] = ask[n]
      /\ UNCHANGED <<made, entered, shared>>
  BY WritesFacts
<1>2. /\ t \in Tabs /\ p # None /\ p.at \in Sessions /\ p.talk \in Seq(Entry) /\ q.talk \in Seq(Entry)
      /\ ask[r] # None /\ a # None /\ ask[r].needs \subseteq Requests /\ q.needs \subseteq Requests
      /\ Awaited(ask, r) /\ ~(\E s : WrittenIn(ask, s, r)) /\ made \in Nat /\ p.at \in 1..made
  <2>1. a # None
    BY <1>1, PageAssumption
  <2>2. p.at <= made /\ made \in Nat /\ p.at \in Nat \ {0}
    BY <1>1, PageTypeFacts DEF Open, MadeInv
  <2>3. p.at \in 1..made
    BY <2>2
  <2>4. q.talk \in Seq(Entry) /\ q.needs \subseteq Requests
    BY <1>1 DEF Page
  <2> QED
    BY <1>1, <2>1, <2>2, <2>3, <2>4, PageTypeFacts DEF IsDue, Awaited, WrittenIn, Open
<1> HIDE DEF p, q, a, slot, t
<1>3. \A n \in Requests : ask[n] # None => ask'[n] # None /\ ask'[n].home = ask[n].home
  BY <1>1, <1>2 DEF a
<1>4. \A s : \A n \in Requests :
        WrittenIn(ask', s, n) =>
          \/ WrittenIn(ask, s, n) /\ n # r
          \/ n = r /\ s = p.at /\ a.state = "written"
  BY <1>1, <1>2 DEF WrittenIn, a
<1>5. ASSUME p.at \notin entered
      PROVE  Slotted(ask, r, p.at, p.talk) /\ slot # 0
  <2>1. Slotted(ask, r, p.at, p.talk)
    BY <1>1, <1>2, <1>5 DEF DueInv, p, t
  <2>2. slot \in DOMAIN p.talk /\ 0 \notin DOMAIN p.talk
    BY <1>2, <2>1 DEF Slotted, slot
  <2> QED
    BY <2>1, <2>2
(* The page that is written to. *)
<1>6. Good(ask', entered', shared', p.at, q.talk, q.needs)
  <2>1. Good(ask, entered, shared, p.at, p.talk, p.needs)
    BY <1>2 DEF ShowInv, p
  <2>2. ASSUME p.at \notin entered
        PROVE  Proper(ask', p.at, q.talk, q.needs)
    <3>1. /\ Proper(ask, p.at, p.talk, p.needs) /\ Slotted(ask, r, p.at, p.talk)
          /\ ask[r].home = p.at
      BY <1>5, <2>1, <2>2 DEF Good, Slotted
    <3>2. \A n \in Requests : Sent(ask, p.at, n) => Sent(ask', p.at, n)
      BY <1>3 DEF Sent
    <3>3. Sent(ask', p.at, r)
      BY <1>2, <3>1, <3>2 DEF Sent
    <3>4. \A i \in DOMAIN q.talk : q.talk[i].of \in Requests /\ Sent(ask', p.at, q.talk[i].of)
      BY <1>1, <3>1, <3>2, <3>3 DEF Proper, Slotted, slot
    <3>5. \A n \in q.needs : Sent(ask', p.at, n)
      BY <1>1, <1>2, <3>1, <3>2, <3>3 DEF Proper, Slotted
    <3> QED
      BY <3>4, <3>5 DEF Proper
  <2>3. ASSUME p.at \notin entered \cup shared, NEW n \in Requests, WrittenIn(ask', p.at, n)
        PROVE  Holds(q.talk, n)
    <3>1. CASE n = r /\ a.state = "written"
      BY <1>1, <1>5, <2>3, <3>1 DEF Holds
    <3>2. CASE WrittenIn(ask, p.at, n) /\ n # r
      <4>1. PICK i \in DOMAIN p.talk : p.talk[i] = Said(n, "done")
        BY <2>1, <2>3, <3>2 DEF Good, Holds
      <4>2. i # slot
        BY <1>5, <2>3, <3>2, <4>1 DEF Slotted, Said, slot
      <4> QED
        BY <1>1, <4>1, <4>2 DEF Holds
    <3> QED
      BY <1>4, <2>3, <3>1, <3>2
  <2> QED
    BY <1>1, <2>2, <2>3 DEF Good
(* The others. *)
<1>7. ASSUME NEW s, NEW talk, NEW needs, needs \subseteq Requests,
             s # p.at \/ s \in shared \/ a.state # "written",
             Good(ask, entered, shared, s, talk, needs)
      PROVE  Good(ask', entered', shared', s, talk, needs)
  BY <1>1, <1>3, <1>4, <1>7, GoodStays
<1>8. MadeInv' /\ SoleInv'
  <2>1. \A n \in Requests : ask'[n] # None /\ ask'[n].state = "written" => ask'[n].landed \in 1..made
    BY <1>1, <1>2 DEF MadeInv, a
  <2>2. \A u \in Tabs : (page'[u] # None <=> page[u] # None) /\ page'[u].at = page[u].at
    BY <1>1, <1>2 DEF p, q
  <2>3. \A z \in Sessions : stored'[z] # None => stored[z] # None
    BY <1>1, SavedFacts DEF Listed
  <2> QED
    BY <1>1, <2>1, <2>2, <2>3 DEF MadeInv, SoleInv
<1>9. ShowInv'
  <2> SUFFICES ASSUME NEW u \in Tabs, page'[u] # None
               PROVE  Good(ask', entered', shared', page'[u].at, page'[u].talk, page'[u].needs)
    BY DEF ShowInv
  <2>1. CASE u = t
    BY <1>1, <1>6, <2>1 DEF q
  <2>2. CASE u # t
    <3>1. page'[u] = page[u] /\ (page[u].at # p.at \/ page[u].at \in shared)
      BY <1>1, <1>2, <2>2 DEF SoleInv, p
    <3> QED
      BY <1>7, <3>1, PageTypeFacts DEF ShowInv
  <2> QED
    BY <2>1, <2>2
<1>10. StoreInv'
  <2> SUFFICES ASSUME NEW z \in Sessions, stored'[z] # None
               PROVE  Good(ask', entered', shared', z, stored'[z].talk, stored'[z].needs)
    BY DEF StoreInv
  <2>1. CASE stored'[z] = stored[z] /\ (z # p.at \/ a.state # "written")
    BY <1>7, <2>1, PageTypeFacts DEF StoreInv
  <2>2. CASE z = p.at /\ z \in entered
    BY <1>1, <2>2 DEF Good
  <2>3. CASE z = p.at /\ z \notin entered /\ a.state = "written"
    <3>1. Proper(ask', p.at, q.talk, q.needs)
      BY <1>1, <1>6, <2>3 DEF Good
    <3>2. ~RenderRaises(q.talk) /\ ~PersistRaises(q)
      BY <3>1, ProperIsDrawn DEF PersistRaises
    <3>3. stored' = Saved(q)
      BY <1>1, <2>3, <3>2
    <3>4. z \in Listed
      BY <1>1, <2>3, <3>3, SavedFacts DEF Listed
    <3>5. stored'[z].talk = Stored(q.talk) /\ stored'[z].needs = q.needs
      BY <1>1, <2>3, <3>3, <3>4, SavedFacts
    <3> QED
      BY <1>2, <1>6, <2>3, <3>5, StoredGood
  <2>4. z # p.at => stored'[z] = stored[z]
    BY <1>1, SavedFacts
  <2> QED
    BY <1>1, <2>1, <2>2, <2>3, <2>4
<1>11. ASSUME NEW n \in Requests, Awaited(ask', n), page'[ask'[n].tab].at \notin entered'
       PROVE  Slotted(ask', n, page'[ask'[n].tab].at, page'[ask'[n].tab].talk)
  <2>1. CASE n = r
    <3>1. p.at \notin entered /\ ask'[n].tab = t /\ page'[t] = q
      BY <1>1, <1>11, <2>1 DEF a, q
    <3>2. Slotted(ask, r, p.at, p.talk)
      BY <1>5, <3>1
    <3>3. \A m \in ask[r].needs : Sent(ask', p.at, m)
      BY <1>2, <1>3, <3>2 DEF Slotted, Sent
    <3> QED
      BY <1>1, <2>1, <3>1, <3>2, <3>3 DEF Slotted, a, slot
  <2>2. CASE n # r
    <3> DEFINE u == ask[n].tab
    <3>1. /\ ask'[n] = ask[n] /\ Awaited(ask, n)
          /\ u \in Tabs /\ page[u] # None /\ ask[n].needs \subseteq Requests
      BY <1>1, <1>11, <2>2, PageTypeFacts DEF Awaited
    <3>2. page'[u].at = page[u].at /\ page[u].at \notin entered
      BY <1>1, <1>11, <3>1 DEF p, q
    <3>3. Slotted(ask, n, page[u].at, page[u].talk)
      BY <3>1, <3>2 DEF DueInv
    <3>4. \A m \in ask[n].needs : Sent(ask', page[u].at, m)
      BY <1>3, <3>1, <3>3 DEF Slotted, Sent
    <3>5. ask[n].slot \in DOMAIN page'[u].talk /\ page'[u].talk[ask[n].slot].of = n
      <4>1. CASE u # t
        BY <1>1, <3>1, <3>3, <4>1 DEF Slotted
      <4>2. CASE u = t
        <5>1. slot # ask[n].slot
          BY <1>5, <2>2, <3>2, <3>3, <4>2 DEF Slotted, slot, p
        <5> QED
          BY <1>1, <3>3, <4>2, <5>1 DEF Slotted, p, q
      <4> QED
        BY <4>1, <4>2
    <3> QED
      BY <3>1, <3>2, <3>3, <3>4, <3>5 DEF Slotted
  <2> QED
    BY <2>1, <2>2
<1> QED
  BY <1>8, <1>9, <1>10, <1>11 DEF DueInv

LEMMA StepPageInv == TypeOK /\ PageInv /\ [Next]_vars => PageInv'
<1> SUFFICES ASSUME TypeOK, PageInv, [Next]_vars PROVE PageInv'
  OBVIOUS
<1>1. CASE UNCHANGED vars
  BY <1>1 DEF vars, pageVars, PageInv, MadeInv, SoleInv, DueInv, StoreInv, ShowInv
<1> QED
  BY <1>1, StepCases, GoesInv, CloseInv, SendInv, WritesInv

LEMMA PageAlways == Spec => [](TypeOK /\ PageInv)
<1>1. Init => TypeOK /\ PageInv
  BY InitPage, InitPageInv
<1>2. TypeOK /\ PageInv /\ [Next]_vars => TypeOK' /\ PageInv'
  BY StepTypes, StepPageInv
<1> QED
  BY <1>1, <1>2, PTL DEF Spec

(* Moving to a session while an answer is due is the only way to mix two: a  *)
(* session no tab ever came to like that holds its own messages and its own  *)
(* requirement, on every page and in the store, with no hole in them.        *)
THEOREM SessionsStayApart == Spec => []IsolatedUnlessEntered
<1>1. TypeOK /\ PageInv => IsolatedUnlessEntered
  <2> SUFFICES ASSUME TypeOK, PageInv PROVE IsolatedUnlessEntered
    OBVIOUS
  <2>1. ASSUME NEW s, NEW talk, NEW needs, Proper(ask, s, talk, needs)
        PROVE  Own(s, talk, needs)
    BY <2>1, ProperIsDrawn DEF Proper, Own, Sent
  <2>2. \A s \in Listed \ entered : Proper(ask, s, stored[s].talk, stored[s].needs)
    BY DEF PageInv, StoreInv, Good, Listed
  <2>3. \A t \in Open : page[t].at \notin entered =>
          Proper(ask, page[t].at, page[t].talk, page[t].needs)
    BY DEF PageInv, ShowInv, Good, Open
  <2> QED
    BY <2>1, <2>2, <2>3 DEF IsolatedUnlessEntered
<1> QED
  BY <1>1, PageAlways, PTL

(* What was answered in a session stays in its stored conversation for as    *)
(* long as the session is listed, unless a tab came to it with an answer due *)
(* or two tabs had it at a time: no later answer, message, switch or save    *)
(* writes over it.                                                           *)
THEOREM AnswersStay == Spec => []AnswersKept
<1>1. TypeOK /\ PageInv => AnswersKept
  BY DEF PageInv, StoreInv, Good, AnswersKept, Listed, WrittenIn, Holds
<1> QED
  BY <1>1, PageAlways, PTL
-----------------------------------------------------------------------------
(* The page and the promise of EventStream. *)

(* A stream is open as long as a tab waits for its answer. *)
ReadInv ==
  \A r \in Requests : /\ stream[r] = "open" <=> IsDue(r)
                      /\ ask[r] = None => stream[r] = "unsent"

LEMMA StepReads ==
  ASSUME TypeOK, ReadInv, [Next]_vars, NEW r \in Requests
  PROVE  /\ stream'[r] = "open" <=> IsDue(r)'
         /\ ask'[r] = None => stream'[r] = "unsent"
         /\ stream'[r] # stream[r] => Events!Opens(r) \/ stream[r] = "open"
<1> USE DEF ReadInv
<1>1. stream \in [Requests -> {"unsent", "open", "result", "broken"}]
      /\ ask \in [Requests -> Ask \cup {None}]
  BY DEF TypeOK
<1>2. CASE \E t \in Tabs : Goes(t)
  <2>1. UNCHANGED <<stream, ask>>
    BY <1>2, GoesFacts
  <2> QED
    BY <2>1 DEF IsDue
<1>3. ASSUME NEW t \in Tabs, Close(t)
      PROVE  /\ stream'[r] = "open" <=> IsDue(r)'
             /\ ask'[r] = None => stream'[r] = "unsent"
             /\ stream'[r] # stream[r] => stream[r] = "open"
  <2>1. stream'[r] = IF r \in Due(t) /\ stream[r] = "open" THEN "broken" ELSE stream[r]
    BY <1>3 DEF Close, Abandons
  <2>2. CASE r \in Due(t)
    <3>1. ask'[r] = [ask[r] EXCEPT !.state = "dropped"] /\ ask[r] \in Ask /\ IsDue(r)
      BY <1>1, <1>3, <2>2 DEF Close, Due, IsDue
    <3>2. ask'[r] # None /\ ~IsDue(r)'
      BY <1>3, <2>2, <3>1, CloseFacts DEF IsDue, Ask
    <3> QED
      BY <2>1, <2>2, <3>1, <3>2
  <2>3. CASE r \notin Due(t)
    BY <1>3, <2>1, <2>3 DEF Close, IsDue
  <2> QED
    BY <2>2, <2>3
<1>4. ASSUME NEW t \in Tabs, NEW n \in Requests, Send(t, n)
      PROVE  /\ stream'[r] = "open" <=> IsDue(r)'
             /\ ask'[r] = None => stream'[r] = "unsent"
             /\ stream'[r] # stream[r] => Events!Opens(r)
  <2>1. /\ ask[n] = None /\ ask'[n] # None
        /\ \A m \in Requests \ {n} : ask'[m] = ask[m]
    BY <1>4, SendFacts
  <2>2. stream[n] = "unsent"
    BY <2>1
  <2>3. \/ ask'[n].state = "due" /\ Events!Opens(n)
        \/ ask'[n].state = "dropped" /\ stream' = stream
    BY <1>1, <1>4 DEF Send
  <2> QED
    BY <1>1, <2>1, <2>2, <2>3 DEF IsDue, Events!Opens, Events!Steps
<1>5. ASSUME NEW n \in Requests, Writes(n)
      PROVE  /\ stream'[r] = "open" <=> IsDue(r)'
             /\ ask'[r] = None => stream'[r] = "unsent"
             /\ stream'[r] # stream[r] => stream[r] = "open"
  <2>1. /\ IsDue(n) /\ ask[n] \in Ask /\ ask'[n] \in Ask /\ ask'[n] # None
        /\ \A m \in Requests \ {n} : ask'[m] = ask[m]
    BY <1>1, <1>5, WritesFacts, PageAssumption DEF IsDue
  <2>2. \A m \in Requests \ {n} : stream'[m] = stream[m]
    BY <1>1, <1>5 DEF Writes, Progress, Land, Abandons, Events!Results, Events!Breaks, Events!Steps
  <2>3. stream[n] = "open" /\ (stream'[n] = "open" <=> IsDue(n)')
    <3>1. CASE Progress(n)
      <4>1. \/ ask' = ask /\ stream' = stream
            \/ ask' = [ask EXCEPT ![n].state = "dropped"] /\ stream'[n] = "broken"
        BY <1>1, <2>1, <3>1 DEF Progress, Abandons
      <4> QED
        BY <1>1, <2>1, <4>1 DEF IsDue, Ask
    <3>2. CASE \E answered \in BOOLEAN : Land(n, answered)
      <4>1. ask'[n].state = "written" /\ stream'[n] \in {"result", "broken"}
        BY <1>1, <2>1, <3>2 DEF Land, IsDue, Ask, Events!Results, Events!Breaks, Events!Steps
      <4> QED
        BY <2>1, <4>1 DEF IsDue
    <3> QED
      BY <1>5, <3>1, <3>2 DEF Writes
  <2> QED
    BY <2>1, <2>2, <2>3 DEF IsDue
<1>6. CASE UNCHANGED vars
  BY <1>6 DEF vars, pageVars, IsDue
<1> QED
  BY <1>2, <1>3, <1>4, <1>5, <1>6, StepCases, GoesFacts

(* The page asks of a stream only what EventStream promises: it opens one    *)
(* for a message not yet sent, takes a result or a break from one that is    *)
(* open, and expects nothing of one that ended.  No stream stays open that   *)
(* nobody reads (Close, a page that cannot be drawn).                        *)
THEOREM StreamsAreRead ==
  Spec => /\ [](\A r \in Requests : stream[r] = "open" <=> IsDue(r))
          /\ [][\A r \in Requests : stream'[r] # stream[r] =>
                  Events!Opens(r) \/ stream[r] = "open"]_vars
<1>1. Init => ReadInv
  BY DEF Init, ReadInv, IsDue, Events!Init
<1>2. TypeOK /\ ReadInv /\ [Next]_vars => ReadInv'
  <2> SUFFICES ASSUME TypeOK, ReadInv, [Next]_vars PROVE ReadInv'
    OBVIOUS
  <2> QED
    BY StepReads DEF ReadInv
<1>3. TypeOK /\ ReadInv /\ [Next]_vars
        => [\A r \in Requests : stream'[r] # stream[r] => Events!Opens(r) \/ stream[r] = "open"]_vars
  BY StepReads
<1>4. ReadInv => \A r \in Requests : stream[r] = "open" <=> IsDue(r)
  BY DEF ReadInv
<1> QED
  BY <1>1, <1>2, <1>3, <1>4, PageTypes, PTL DEF Spec
-----------------------------------------------------------------------------
(* The table of temporary model profiles, for any handles, threads, limit,   *)
(* lifetime and bound of the clock that its assumption admits.               *)
(*                                                                           *)
(* The argument: what the clean-up leaves is smaller than the limit, so a    *)
(* registration fits in; and what a resolution serves is among what the      *)
(* clean-up found unexpired at the time the thread had read.                 *)

ProfileInv ==
  /\ SessionTypeOK
  /\ IsFiniteSet(Table) /\ Cardinality(Table) <= Limit
  /\ Table \cap removed = {} /\ Table \subseteq issued
  /\ removed \subseteq issued

(* A thread at work has no answer yet. *)
AtWork == \A t \in Threads : wants[t] # Nil => answer[t] = "none"
-----------------------------------------------------------------------------
(* What the clean-up leaves is a finite part of the table below the limit. *)
LEMMA CleanUpFacts ==
  ASSUME ProfileInv, NEW t \in Threads, NEW K \in Kept(read[t])
  PROVE  /\ K \subseteq Table
         /\ IsFiniteSet(K)
         /\ Cardinality(K) < Limit
         /\ \A h \in K : expires[h] > read[t]
<1>1. K \subseteq Table /\ Cardinality(K) < Limit /\ \A h \in K : expires[h] > read[t]
  BY DEF Kept, Unexpired
<1>2. IsFiniteSet(K)
  BY <1>1, FS_Subset DEF ProfileInv
<1> QED
  BY <1>1, <1>2

LEMMA InitProfiles ==
  ASSUME SessionInit
  PROVE  ProfileInv
<1> USE SessionAssumption DEF SessionInit
<1>1. SessionTypeOK
  BY DEF SessionTypeOK, Answers
<1>2. Table = {}
  BY DEF Table
<1> QED
  BY <1>1, <1>2, FS_EmptySet DEF ProfileInv

(* A registration adds one profile to what the clean-up left. *)
LEMMA RegisterStep ==
  ASSUME ProfileInv, NEW t \in Threads, Register(t)
  PROVE  ProfileInv'
<1> USE SessionAssumption
<1> DEFINE h == wants[t]
<1>1. h \in Handles /\ h \notin issued
  BY DEF Register, ProfileInv, SessionTypeOK
<1>2. PICK K \in Kept(read[t]) :
        expires' = [g \in Handles |-> IF g = h THEN read[t] + TTL
                                      ELSE IF g \in K THEN expires[g] ELSE Nil]
  BY DEF Register
<1>3. K \subseteq Table /\ IsFiniteSet(K) /\ Cardinality(K) < Limit
  BY <1>2, CleanUpFacts
<1>4. read[t] + TTL \in Nat
  BY DEF ProfileInv, SessionTypeOK
<1>5. Table' = K \cup {h}
  <2>1. \A g \in Handles : expires'[g] = IF g = h THEN read[t] + TTL
                                         ELSE IF g \in K THEN expires[g] ELSE Nil
    BY <1>2
  <2>2. \A g \in K : g \in Handles /\ expires[g] # Nil
    BY <1>3 DEF Table
  <2>3. read[t] + TTL # Nil
    BY <1>4
  <2> QED
    BY <1>1, <2>1, <2>2, <2>3 DEF Table
<1>6. h \notin K
  BY <1>1, <1>3 DEF ProfileInv
<1>7. IsFiniteSet(Table') /\ Cardinality(Table') = Cardinality(K) + 1
  BY <1>3, <1>5, <1>6, FS_AddElement
<1>8. Cardinality(Table') <= Limit
  BY <1>3, <1>7, FS_CardinalityType
<1>9. SessionTypeOK'
  BY <1>1, <1>2, <1>4 DEF Register, ProfileInv, SessionTypeOK
<1>10. Table' \cap removed' = {} /\ Table' \subseteq issued'
  BY <1>1, <1>3, <1>5 DEF Register, ProfileInv
<1>11. removed' \subseteq issued'
  BY DEF Register, ProfileInv
<1> QED
  BY <1>7, <1>8, <1>9, <1>10, <1>11 DEF ProfileInv

(* A resolution leaves what the clean-up left. *)
LEMMA ResolveStep ==
  ASSUME ProfileInv, NEW t \in Threads, Resolve(t)
  PROVE  ProfileInv'
<1> USE SessionAssumption
<1>1. PICK K \in Kept(read[t]) :
        expires' = [g \in Handles |-> IF g \in K THEN expires[g] ELSE Nil]
  BY DEF Resolve
<1>2. K \subseteq Table /\ IsFiniteSet(K) /\ Cardinality(K) < Limit
  BY <1>1, CleanUpFacts
<1>3. Table' = K
  <2>1. \A g \in Handles : expires'[g] = IF g \in K THEN expires[g] ELSE Nil
    BY <1>1
  <2>2. \A g \in K : g \in Handles /\ expires[g] # Nil
    BY <1>2 DEF Table
  <2> QED
    BY <2>1, <2>2 DEF Table
<1>4. SessionTypeOK'
  <2>1. answer' \in [Threads -> Answers]
    BY DEF Resolve, ProfileInv, SessionTypeOK, Answers
  <2> QED
    BY <1>1, <2>1 DEF Resolve, ProfileInv, SessionTypeOK
<1>5. Cardinality(Table') <= Limit
  BY <1>2, <1>3, FS_CardinalityType
<1> QED
  BY <1>2, <1>3, <1>4, <1>5 DEF ProfileInv, Resolve

(* The user or a restart takes profiles out. *)
LEMMA EndStep ==
  ASSUME ProfileInv, Restart \/ \E h \in Handles : Remove(h)
  PROVE  ProfileInv'
<1> USE SessionAssumption
<1>1. SessionTypeOK'
  BY DEF Restart, Remove, ProfileInv, SessionTypeOK, thread, Answers, Table
<1>2. Table' \subseteq Table /\ Table' \cap removed' = {} /\ Table' \subseteq issued'
  <2>1. CASE Restart
    BY <2>1 DEF Restart, Table
  <2>2. ASSUME NEW h \in Handles, Remove(h)
        PROVE  Table' \subseteq Table /\ Table' \cap removed' = {} /\ Table' \subseteq issued'
    BY <2>2 DEF Remove, Table, ProfileInv, SessionTypeOK
  <2> QED
    BY <2>1, <2>2
<1>3. IsFiniteSet(Table') /\ Cardinality(Table') <= Cardinality(Table)
  BY <1>2, FS_Subset DEF ProfileInv
<1>4. Cardinality(Table') <= Limit
  BY <1>3, FS_CardinalityType DEF ProfileInv
<1>5. removed' \subseteq issued'
  BY DEF Restart, Remove, ProfileInv
<1> QED
  BY <1>1, <1>2, <1>3, <1>4, <1>5 DEF ProfileInv

LEMMA StepProfiles ==
  ASSUME ProfileInv, [SessionNext]_sessionVars
  PROVE  ProfileInv'
<1> USE SessionAssumption
<1>1. ASSUME NEW t \in Threads, NEW h \in Handles, Enter(t, h) PROVE ProfileInv'
  <2>1. SessionTypeOK'
    BY <1>1 DEF Enter, ProfileInv, SessionTypeOK, table, Answers
  <2>2. Table' = Table /\ issued' = issued /\ removed' = removed
    BY <1>1 DEF Enter, table, Table
  <2> QED
    BY <2>1, <2>2 DEF ProfileInv
<1>2. CASE Tick \/ UNCHANGED sessionVars
  <2>1. SessionTypeOK'
    BY <1>2 DEF Tick, ProfileInv, SessionTypeOK, table, thread, sessionVars
  <2>2. Table' = Table /\ issued' = issued /\ removed' = removed
    BY <1>2 DEF Tick, table, sessionVars, Table
  <2> QED
    BY <2>1, <2>2 DEF ProfileInv
<1> QED
  BY <1>1, <1>2, RegisterStep, ResolveStep, EndStep DEF SessionNext

LEMMA ProfilesAlways == SessionSpec => []ProfileInv
BY InitProfiles, StepProfiles, PTL DEF SessionSpec
-----------------------------------------------------------------------------
(* Every reachable table of temporary profiles is well typed. *)
THEOREM ProfileTypes == SessionSpec => []SessionTypeOK
BY ProfilesAlways, PTL DEF ProfileInv

(* The table never outgrows its limit and holds no key its user removed. *)
THEOREM ProfilesBounded == SessionSpec => []TableBounded
<1>1. ProfileInv => TableBounded
  BY DEF ProfileInv, TableBounded
<1> QED
  BY <1>1, ProfilesAlways, PTL

(* A key is served only while it is registered, not removed and unexpired at *)
(* the time its resolution began.                                            *)
THEOREM ServedValid == SessionSpec => ServedWasValid
<1> DEFINE Valid == \A t \in Threads : wants[t] # Nil /\ answer'[t] = "served" =>
                      /\ wants[t] \in issued \ removed
                      /\ read[t] < expires[wants[t]]
<1>1. AtWork /\ ProfileInv /\ [SessionNext]_sessionVars => [Valid]_sessionVars
  <2> SUFFICES ASSUME AtWork, ProfileInv, SessionNext, NEW t \in Threads,
                      wants[t] # Nil, answer'[t] = "served"
               PROVE  wants[t] \in issued \ removed /\ read[t] < expires[wants[t]]
    OBVIOUS
  <2>1. Resolve(t)
    <3>1. answer'[t] # answer[t]
      BY DEF AtWork
    <3>2. PICK u \in Threads : Resolve(u) \/ (\E h \in Handles : Enter(u, h)) \/ Restart
      BY <3>1 DEF SessionNext, Register, Remove, Tick, thread, ProfileInv, SessionTypeOK
    <3> QED
      BY <3>1, <3>2 DEF Resolve, Enter, Restart, ProfileInv, SessionTypeOK
  <2>2. PICK K \in Kept(read[t]) : answer'[t] = IF wants[t] \in K THEN "served" ELSE "missing"
    BY <2>1 DEF Resolve, ProfileInv, SessionTypeOK
  <2>3. wants[t] \in Table /\ read[t] < expires[wants[t]]
    BY <2>2, CleanUpFacts DEF ProfileInv, SessionTypeOK, Table
  <2> QED
    BY <2>3 DEF ProfileInv
<1>2. SessionInit => AtWork
  BY DEF SessionInit, AtWork
<1>3. ProfileInv /\ AtWork /\ [SessionNext]_sessionVars => AtWork'
  BY DEF ProfileInv, SessionTypeOK, AtWork, SessionNext, Enter, Register, Resolve,
         Remove, Restart, Tick, thread, sessionVars
<1> QED
  BY ProfilesAlways, <1>1, <1>2, <1>3, PTL DEF SessionSpec, ServedWasValid

(* One thread registers a handle: tokens are random. *)
OneRegistrar ==
  \A t, u \in Threads : wants[t] # Nil /\ wants[t] = wants[u] /\ wants[t] \notin issued => t = u

(* What a registration sends away although its time had not come.            *)
LEMMA GivesWay ==
  ASSUME ProfileInv, NEW t \in Threads, Register(t),
         NEW g \in Table, NEW k \in Table,
         expires'[g] = Nil, expires'[k] # Nil, expires[g] > read[t]
  PROVE  expires[g] <= expires[k] /\ Cardinality(Table) >= Limit
<1> USE SessionAssumption
<1>1. PICK K \in Kept(read[t]) :
        expires' = [f \in Handles |-> IF f = wants[t] THEN read[t] + TTL
                                      ELSE IF f \in K THEN expires[f] ELSE Nil]
  BY DEF Register
<1>2. K \subseteq Table /\ IsFiniteSet(K)
  BY <1>1, CleanUpFacts
<1>3. g # wants[t] /\ k # wants[t] /\ g \in Handles /\ k \in Handles
  BY DEF Register, Table, ProfileInv
<1>4. k \in K /\ g \notin K
  BY <1>1, <1>2, <1>3 DEF Table
<1>5. g \in Unexpired(read[t]) \ K
  BY <1>4 DEF Unexpired
<1>6. expires[g] <= expires[k] /\ Cardinality(K) = Limit - 1
  BY <1>1, <1>4, <1>5 DEF Kept
<1>7. IsFiniteSet(K \cup {g}) /\ Cardinality(K \cup {g}) = Cardinality(K) + 1
  BY <1>2, <1>4, FS_AddElement
<1>8. Cardinality(K \cup {g}) <= Cardinality(Table)
  BY <1>2, FS_Subset DEF ProfileInv
<1>9. Cardinality(Table) \in Nat
  BY FS_CardinalityType DEF ProfileInv
<1> QED
  BY <1>6, <1>7, <1>8, <1>9

(* A registration sends away only what had expired when it began and, if the *)
(* table is full, the profile that would have expired next.                  *)
THEOREM SoonestFirst == SessionSpec => SoonestGivesWay
<1> DEFINE Way == \A t \in Threads : issued' # issued /\ wants[t] \in issued' \ issued =>
                    \A g \in Table, k \in Table :
                      expires'[g] = Nil /\ expires'[k] # Nil /\ expires[g] > read[t] =>
                        /\ expires[g] <= expires[k]
                        /\ Cardinality(Table) >= Limit
<1>1. ProfileInv /\ OneRegistrar /\ [SessionNext]_sessionVars => [Way]_sessionVars
  <2> SUFFICES ASSUME ProfileInv, OneRegistrar, SessionNext, NEW t \in Threads,
                      wants[t] \in issued' \ issued,
                      NEW g \in Table, NEW k \in Table,
                      expires'[g] = Nil, expires'[k] # Nil, expires[g] > read[t]
               PROVE  expires[g] <= expires[k] /\ Cardinality(Table) >= Limit
    OBVIOUS
  <2>1. PICK u \in Threads : Register(u)
    BY DEF SessionNext, Enter, Resolve, Remove, Restart, Tick, table
  <2>2. wants[t] = wants[u] /\ wants[t] # Nil
    BY <2>1 DEF Register
  <2>3. t = u
    BY <2>2 DEF OneRegistrar
  <2> QED
    BY <2>1, <2>3, GivesWay
<1>2. SessionInit => OneRegistrar
  BY DEF SessionInit, OneRegistrar
<1>3. ProfileInv /\ OneRegistrar /\ [SessionNext]_sessionVars => OneRegistrar'
  BY DEF ProfileInv, SessionTypeOK, OneRegistrar, SessionNext, Enter, Register, Resolve,
         Remove, Restart, Tick, table, thread, sessionVars
<1> QED
  BY ProfilesAlways, <1>1, <1>2, <1>3, PTL DEF SessionSpec, SoonestGivesWay
=============================================================================
