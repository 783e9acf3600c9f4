-------------------------- MODULE TransportsProofs ---------------------------
(***************************************************************************)
(* Proofs about the transports' parts, each an invariant of the steps that *)
(* MCTransports takes: the registry, Telegram's table of bindings, its     *)
(* inbox, its queue of items to be sent, the movie's project, the web      *)
(* fork's pages; at last the types of all of them.                         *)
(***************************************************************************)
EXTENDS MCTransports, FiniteSetTheorems, TLAPS

allVars == <<part, queueVars, inboxVars, bindingsVars, forkVars, registryVars, movieVars>>

-----------------------------------------------------------------------------
(* The registry of agents and threads *)

LEMMA RegistryStep ==
    ASSUME Registry!DeletedIsGone, Registry!Next
    PROVE  Registry!DeletedIsGone'
<1> USE DEF Registry!DeletedIsGone
<1>1. ASSUME NEW k \in Threads, Registry!Get(k) PROVE Registry!DeletedIsGone'
    BY <1>1 DEF Registry!Get, Registry!New
<1>2. ASSUME NEW k \in Threads, Registry!Message(k) PROVE Registry!DeletedIsGone'
    BY <1>2 DEF Registry!Message, Registry!New
<1>3. ASSUME NEW k \in Threads, Registry!Delete(k) \/ Registry!DeleteUnopened(k)
      PROVE Registry!DeletedIsGone'
    BY <1>3 DEF Registry!Delete, Registry!DeleteUnopened, Registry!New
<1>4. ASSUME NEW n \in DOMAIN agents,
             Registry!Started(n) \/ Registry!StartFails(n) \/ Registry!TurnStarts(n)
      PROVE Registry!DeletedIsGone'
    BY <1>4 DEF Registry!Started, Registry!StartFails, Registry!TurnStarts
<1>5. ASSUME NEW n \in DOMAIN agents, Registry!TurnEnds(n) PROVE Registry!DeletedIsGone'
    BY <1>5 DEF Registry!TurnEnds
<1>6. ASSUME NEW d \in deletions, Registry!Closed(d) PROVE Registry!DeletedIsGone'
    BY <1>6 DEF Registry!Closed
<1>7. ASSUME NEW d \in deletions, Registry!Notified(d) PROVE Registry!DeletedIsGone'
    BY <1>7 DEF Registry!Notified
<1> QED BY <1>1, <1>2, <1>3, <1>4, <1>5, <1>6, <1>7 DEF Registry!Next

\* A thread that was deleted has a history again only through a turn that one of its agent
\* objects ends later, whoever gets or deletes it meanwhile (Agent.get, Agent.close).
THEOREM HistoryGoesWithThread == Spec => []DeletedIsGone
<1>1. Init => Registry!DeletedIsGone
    BY DEF Init, Registry!Init, Registry!DeletedIsGone
<1>2. Registry!DeletedIsGone /\ [Next]_allVars => Registry!DeletedIsGone'
  <2> SUFFICES ASSUME Registry!DeletedIsGone, [Next]_allVars PROVE Registry!DeletedIsGone'
      OBVIOUS
  <2>1. CASE Registry!Next BY <2>1, RegistryStep
  <2>2. CASE UNCHANGED registryVars BY <2>2 DEF registryVars, Registry!DeletedIsGone
  <2> QED BY <2>1, <2>2 DEF Next, allVars
<1> QED BY <1>1, <1>2, PTL DEF Spec, allVars, DeletedIsGone

-----------------------------------------------------------------------------
(* Telegram's table of bindings *)

\* A table of bindings has the right type, and no agent has two chats.
Topics == UNION {[T -> Bindings!ThreadIds] : T \in SUBSET Bindings!TopicIds}
Table(b) ==
    /\ DOMAIN b \subseteq Bindings!Chats
    /\ \A c \in DOMAIN b : b[c] \in Bindings!Entry
    /\ \A c, e \in DOMAIN b : b[c].agent \in Agents /\ b[c].agent = b[e].agent => c = e

Places == [chat : Bindings!Chats \cup {None}, topic : Bindings!TopicIds \cup {None}]
Deletes(d) == \E n :
    d \in [thread : Bindings!ThreadIds \cup {None}, left : SUBSET Bindings!Chats,
           todo : SUBSET (Bindings!Chats \X Bindings!TopicIds), size : {n}]

BindingsTypes ==
    /\ place \in [Bindings!Transports -> Places]
    /\ creating \in SUBSET (Bindings!Transports \X Tasks \X Bindings!Chats)
    /\ Deletes(deletion)
    /\ topics \in 0..MaxTopics /\ migrated \in SUBSET (Groups \X Groups) /\ binds \in 0..MaxBinds

\* A transport that asks for a topic knows the chat.
AskersPlaced == \A tr \in Bindings!Transports, t \in Tasks, c \in Bindings!Chats :
    <<tr, t, c>> \in creating => place[tr].chat # None

BindingsInv == Table(bindings) /\ Table(file) /\ BindingsTypes /\ AskersPlaced

LEMMA EntryAgent ==
    ASSUME NEW r \in Bindings!Entry, NEW t \in Topics
    PROVE  /\ [r EXCEPT !.topics = t] \in Bindings!Entry
           /\ [r EXCEPT !.topics = t].agent = r.agent
BY DEF Bindings!Entry, Topics

LEMMA TopicsHave ==
    ASSUME NEW t \in Topics
    PROVE  DOMAIN t \subseteq Bindings!TopicIds /\ \A u \in DOMAIN t : t[u] \in Bindings!ThreadIds
BY DEF Topics

LEMMA TopicsAre ==
    ASSUME NEW S \in SUBSET Bindings!TopicIds, NEW f \in [S -> Bindings!ThreadIds]
    PROVE  f \in Topics
BY DEF Topics

LEMMA EntryHas ==
    ASSUME NEW r \in Bindings!Entry
    PROVE  r.topics \in Topics /\ r.agent \in Agents \cup {None}
BY DEF Bindings!Entry, Topics

LEMMA NoTopicsOK == Bindings!NoTopics \in Topics
<1>1. Bindings!NoTopics \in [{} -> Bindings!ThreadIds] BY DEF Bindings!NoTopics
<1> QED BY <1>1, TopicsAre

\* A topic in a chat: no agent gets a chat by it.
LEMMA WithTopicTable ==
    ASSUME Table(bindings), NEW group \in Bindings!Chats,
           NEW topic \in Bindings!TopicIds, NEW thread \in Bindings!ThreadIds
    PROVE  Table(Bindings!WithTopic(group, topic, thread))
<1> DEFINE old == IF group \in DOMAIN bindings THEN bindings[group]
               ELSE [agent |-> None, topics |-> Bindings!NoTopics]
           more == [t \in DOMAIN old.topics \cup {topic} |->
                    IF t = topic THEN thread ELSE old.topics[t]]
           new == [old EXCEPT !.topics = more]
           W == [c \in DOMAIN bindings \cup {group} |-> IF c = group THEN new ELSE bindings[c]]
<1>1. old \in Bindings!Entry
  <2>1. CASE group \in DOMAIN bindings BY <2>1 DEF Table
  <2>2. CASE group \notin DOMAIN bindings
    <3>1. [agent |-> None, topics |-> Bindings!NoTopics] \in Bindings!Entry
        BY NoTopicsOK DEF Bindings!Entry, Topics
    <3> QED BY <3>1, <2>2
  <2> QED BY <2>1, <2>2
<1>2. more \in Topics
  <2>1. old.topics \in Topics BY <1>1, EntryHas
  <2>2. DOMAIN old.topics \cup {topic} \in SUBSET Bindings!TopicIds BY <2>1, TopicsHave
  <2> HIDE DEF old
  <2>3. more \in [DOMAIN old.topics \cup {topic} -> Bindings!ThreadIds] BY <2>1, TopicsHave
  <2> QED BY <2>2, <2>3, TopicsAre
<1>3. new \in Bindings!Entry /\ new.agent = old.agent
  <2> HIDE DEF old, more
  <2> QED BY <1>1, <1>2, EntryAgent
<1>4. Bindings!WithTopic(group, topic, thread) = W BY DEF Bindings!WithTopic
<1>5. group \in DOMAIN bindings => new.agent = bindings[group].agent BY <1>3
<1>6. group \notin DOMAIN bindings => new.agent = None BY <1>3
<1> HIDE DEF new
<1>7. Table(W)
  <2>1. DOMAIN W \subseteq Bindings!Chats BY DEF Table
  <2>2. ASSUME NEW c \in DOMAIN W PROVE W[c] \in Bindings!Entry BY <1>3 DEF Table
  <2>3. ASSUME NEW c \in DOMAIN W, NEW e \in DOMAIN W, W[c].agent \in Agents,
               W[c].agent = W[e].agent
        PROVE c = e
      BY <2>3, <1>5, <1>6, BindingsAssumption DEF Table
  <2> QED BY <2>1, <2>2, <2>3 DEF Table
<1> QED BY <1>4, <1>7

LEMMA SaveBindingTable ==
    ASSUME Table(bindings), NEW group \in Bindings!Chats, NEW agent \in Agents
    PROVE  Table(Bindings!SaveBinding(group, agent))
<1> DEFINE kept == {c \in DOMAIN bindings : c = group \/ bindings[c].agent # agent}
           old == IF group \in DOMAIN bindings THEN bindings[group].topics ELSE Bindings!NoTopics
           new == [agent |-> agent, topics |-> old]
           W == [c \in kept \cup {group} |-> IF c = group THEN new ELSE bindings[c]]
<1>1. old \in Topics BY NoTopicsOK, EntryHas DEF Table
<1>2. new \in Bindings!Entry /\ new.agent = agent BY <1>1 DEF Bindings!Entry, Topics
<1>3. Bindings!SaveBinding(group, agent) = W BY DEF Bindings!SaveBinding
<1> HIDE DEF new
<1>4. Table(W)
  <2>1. DOMAIN W \subseteq Bindings!Chats BY DEF Table
  <2>2. ASSUME NEW c \in DOMAIN W PROVE W[c] \in Bindings!Entry BY <1>2 DEF Table
  <2>3. ASSUME NEW c \in DOMAIN W, NEW e \in DOMAIN W, W[c].agent \in Agents,
               W[c].agent = W[e].agent
        PROVE c = e
      BY <2>3, <1>2 DEF Table
  <2> QED BY <2>1, <2>2, <2>3 DEF Table
<1> QED BY <1>3, <1>4

LEMMA MovedTable ==
    ASSUME Table(bindings), NEW group \in DOMAIN bindings, NEW new \in Bindings!Chats
    PROVE  Table([c \in (DOMAIN bindings \ {group}) \cup {new} |->
                    IF c = new THEN bindings[group] ELSE bindings[c]])
BY DEF Table

LEMMA DeletedTopicTable ==
    ASSUME Table(bindings), NEW group \in DOMAIN bindings, NEW t
    PROVE  Table([bindings EXCEPT ![group].topics = Bindings!Restrict(@, DOMAIN @ \ {t})])
<1> DEFINE less == Bindings!Restrict(bindings[group].topics, DOMAIN bindings[group].topics \ {t})
           new == [bindings[group] EXCEPT !.topics = less]
           W == [bindings EXCEPT ![group] = new]
<1>1. bindings[group] \in Bindings!Entry BY DEF Table
<1>2. less \in Topics
  <2>1. bindings[group].topics \in Topics BY <1>1, EntryHas
  <2>2. DOMAIN bindings[group].topics \ {t} \in SUBSET Bindings!TopicIds BY <2>1, TopicsHave
  <2>3. less \in [DOMAIN bindings[group].topics \ {t} -> Bindings!ThreadIds]
      BY <2>1, TopicsHave DEF Bindings!Restrict
  <2> QED BY <2>2, <2>3, TopicsAre
<1>3. new \in Bindings!Entry /\ new.agent = bindings[group].agent
  <2> HIDE DEF less
  <2> QED BY <1>1, <1>2, EntryAgent
<1> HIDE DEF new
<1>4. Table(W) BY <1>3 DEF Table
<1> QED BY <1>4 DEF new

LEMMA BoundToChats ==
    ASSUME Table(bindings), NEW agent
    PROVE  Bindings!BoundTo(agent) \subseteq Bindings!Chats
BY DEF Table, Bindings!BoundTo

\* A transport is found in a chat.
LEMMA FoundPlaces ==
    ASSUME BindingsInv, NEW tr \in Bindings!Transports, NEW p \in Bindings!Found(tr)
    PROVE  p \in Places /\ p.chat \in Bindings!Chats
<1> USE BindingsAssumption
<1>0. \A agent : Bindings!BoundTo(agent) \subseteq Bindings!Chats
    BY BoundToChats DEF BindingsInv
<1>m. MainChat \in Bindings!Chats BY DEF Bindings!Chats
<1>1. CASE p = place[tr] /\ place[tr].chat # None
    BY <1>1 DEF BindingsInv, BindingsTypes, Places
<1>2. CASE p \in Bindings!Reverse(tr)
  <2>1. CASE p = [chat |-> MainChat, topic |-> None] BY <2>1, <1>m DEF Places
  <2>2. CASE p \in {[chat |-> c, topic |-> None] : c \in Bindings!BoundTo(tr[1])}
      BY <2>2, <1>0 DEF Places
  <2>3. CASE p \in [chat : Bindings!BoundTo(tr[1]), topic : Bindings!TopicIds]
      BY <2>3, <1>0 DEF Places
  <2> QED BY <1>2, <2>1, <2>2, <2>3 DEF Bindings!Reverse
<1>3. CASE p \in [chat : Bindings!ChatFor(tr[1]), topic : {None}]
    BY <1>3, <1>0, <1>m DEF Places, Bindings!ChatFor
<1> QED BY <1>1, <1>2, <1>3 DEF Bindings!Found

LEMMA OwnTransports == Bindings!Own \subseteq Bindings!Transports
BY DEF Bindings!Own, Bindings!Transports

LEMMA EnsureStep ==
    ASSUME BindingsInv, NEW tr \in Bindings!Own, NEW task \in Tasks, Bindings!Ensure(tr, task)
    PROVE  BindingsInv'
<1>1. PICK p \in Bindings!Found(tr) :
        /\ place' = [place EXCEPT ![tr] = p]
        /\ creating' = IF p.topic = None /\ tr[2] # Default
                       THEN creating \cup {<<tr, task, p.chat>>} ELSE creating
    BY DEF Bindings!Ensure
<1>2. tr \in Bindings!Transports BY OwnTransports
<1>3. p \in Places /\ p.chat \in Bindings!Chats BY <1>2, FoundPlaces
<1>f. UNCHANGED <<bindings, file, deletion, topics, migrated, binds>> BY DEF Bindings!Ensure
<1>4. BindingsTypes'
  <2>1. place' \in [Bindings!Transports -> Places]
      BY <1>1, <1>2, <1>3 DEF BindingsInv, BindingsTypes
  <2>2. creating' \in SUBSET (Bindings!Transports \X Tasks \X Bindings!Chats)
      BY <1>1, <1>2, <1>3 DEF BindingsInv, BindingsTypes
  <2> QED BY <2>1, <2>2, <1>f DEF BindingsInv, BindingsTypes
<1>5. AskersPlaced'
  <2> SUFFICES ASSUME NEW x \in Bindings!Transports, NEW t \in Tasks, NEW c \in Bindings!Chats,
                      <<x, t, c>> \in creating'
               PROVE  place'[x].chat # None
      BY DEF AskersPlaced
  <2>1. CASE x = tr BY <2>1, <1>1, <1>2, <1>3, BindingsAssumption DEF BindingsInv, BindingsTypes
  <2>2. CASE x # tr
    <3>1. <<x, t, c>> \in creating BY <2>2, <1>1
    <3> QED BY <2>2, <3>1, <1>1, <1>2 DEF BindingsInv, BindingsTypes, AskersPlaced
  <2> QED BY <2>1, <2>2
<1>6. Table(bindings)' /\ Table(file)' BY <1>f DEF BindingsInv, Table
<1> QED BY <1>4, <1>5, <1>6 DEF BindingsInv

LEMMA TopicCreatedStep ==
    ASSUME BindingsInv, NEW tr \in Bindings!Own, NEW task \in Tasks,
           Bindings!TopicCreated(tr, task)
    PROVE  BindingsInv'
<1>1. PICK c \in Bindings!Chats :
        <<tr, task, c>> \in creating /\ creating' = creating \ {<<tr, task, c>>}
    BY DEF Bindings!TopicCreated
<1>2. /\ topics < MaxTopics /\ topics' = topics + 1
      /\ place' = [place EXCEPT ![tr].topic = topics']
      /\ bindings' = Bindings!WithTopic(place[tr].chat, topics', tr[2])
      /\ file' = Bindings!WithTopic(place[tr].chat, topics', tr[2])
      /\ UNCHANGED <<deletion, migrated, binds>>
    BY DEF Bindings!TopicCreated, Bindings!Save
<1>3. tr \in Bindings!Transports /\ tr[2] \in Bindings!ThreadIds
    BY OwnTransports DEF Bindings!Own, Bindings!ThreadIds
<1>4. place[tr] \in Places BY <1>3 DEF BindingsInv, BindingsTypes
<1>5. place[tr].chat \in Bindings!Chats
    BY <1>1, <1>3, <1>4 DEF BindingsInv, AskersPlaced, Places
<1>6. topics' \in Bindings!TopicIds /\ topics' \in 0..MaxTopics
    BY <1>2, BindingsAssumption DEF BindingsInv, BindingsTypes, Bindings!TopicIds
<1>7. PICK n \in Bindings!TopicIds : n = topics' BY <1>6
<1>8. PICK place1 : place1 = place[tr].chat OBVIOUS
<1>9. Table(Bindings!WithTopic(place1, n, tr[2]))
    BY <1>3, <1>5, <1>7, <1>8, WithTopicTable DEF BindingsInv
<1>10. bindings' = Bindings!WithTopic(place1, n, tr[2]) /\ file' = bindings'
    BY <1>2, <1>7, <1>8
<1>11. Table(bindings)' /\ Table(file)' BY <1>9, <1>10 DEF Table
<1>12. [place[tr] EXCEPT !.topic = n] \in Places /\ [place[tr] EXCEPT !.topic = n].chat = place[tr].chat
    BY <1>4 DEF Places
<1>13. place' = [place EXCEPT ![tr] = [place[tr] EXCEPT !.topic = n]] BY <1>2, <1>7
<1>14. BindingsTypes'
  <2>1. place' \in [Bindings!Transports -> Places]
      BY <1>3, <1>12, <1>13 DEF BindingsInv, BindingsTypes
  <2> QED BY <2>1, <1>1, <1>2, <1>6 DEF BindingsInv, BindingsTypes
<1>15. AskersPlaced'
    BY <1>1, <1>3, <1>12, <1>13 DEF BindingsInv, BindingsTypes, AskersPlaced
<1> QED BY <1>11, <1>14, <1>15 DEF BindingsInv

LEMMA TopicRefusedStep ==
    ASSUME BindingsInv, NEW tr \in Bindings!Own, NEW task \in Tasks,
           Bindings!TopicRefused(tr, task)
    PROVE  BindingsInv'
<1>1. /\ creating' \in SUBSET creating
      /\ UNCHANGED <<bindings, file, place, deletion, topics, migrated, binds>>
    BY DEF Bindings!TopicRefused
<1> QED BY <1>1 DEF BindingsInv, BindingsTypes, AskersPlaced, Table

LEMMA MigrateStep ==
    ASSUME BindingsInv, NEW tr \in Bindings!Own, NEW task \in Tasks,
           NEW group \in Groups, NEW new \in Groups, Bindings!Migrate(tr, task, group, new)
    PROVE  BindingsInv'
<1>1. /\ <<tr, task, group>> \in creating
      /\ migrated' = migrated \cup {<<group, new>>}
      /\ place' = [place EXCEPT ![tr].chat = new]
      /\ creating' = (creating \ {<<tr, task, group>>}) \cup {<<tr, task, new>>}
      /\ UNCHANGED <<deletion, topics, binds>>
    BY DEF Bindings!Migrate
<1>2. tr \in Bindings!Transports /\ new \in Bindings!Chats
    BY OwnTransports DEF Bindings!Chats
<1>3. Table(bindings)' /\ Table(file)'
  <2>1. CASE group \in DOMAIN bindings
    <3> DEFINE W == [c \in (DOMAIN bindings \ {group}) \cup {new} |->
                    IF c = new THEN bindings[group] ELSE bindings[c]]
    <3>1. bindings' = W /\ file' = W BY <2>1 DEF Bindings!Migrate, Bindings!Save
    <3>2. Table(W) BY <2>1, <1>2, MovedTable DEF BindingsInv
    <3> HIDE DEF W
    <3> QED BY <3>1, <3>2 DEF Table
  <2>2. CASE group \notin DOMAIN bindings
      BY <2>2 DEF Bindings!Migrate, BindingsInv, Table
  <2> QED BY <2>1, <2>2
<1>4. place[tr] \in Places BY <1>2 DEF BindingsInv, BindingsTypes
<1>5. [place[tr] EXCEPT !.chat = new] \in Places /\ [place[tr] EXCEPT !.chat = new].chat = new
    BY <1>2, <1>4 DEF Places
<1>6. place' = [place EXCEPT ![tr] = [place[tr] EXCEPT !.chat = new]] BY <1>1
<1>7. BindingsTypes'
  <2>1. place' \in [Bindings!Transports -> Places]
      BY <1>2, <1>5, <1>6 DEF BindingsInv, BindingsTypes
  <2>2. creating' \in SUBSET (Bindings!Transports \X Tasks \X Bindings!Chats)
      BY <1>1, <1>2 DEF BindingsInv, BindingsTypes
  <2>3. migrated' \in SUBSET (Groups \X Groups) BY <1>1 DEF BindingsInv, BindingsTypes
  <2> QED BY <2>1, <2>2, <2>3, <1>1 DEF BindingsInv, BindingsTypes
<1>8. AskersPlaced'
  <2> SUFFICES ASSUME NEW x \in Bindings!Transports, NEW t \in Tasks, NEW c \in Bindings!Chats,
                      <<x, t, c>> \in creating'
               PROVE  place'[x].chat # None
      BY DEF AskersPlaced
  <2>1. CASE x = tr
      BY <2>1, <1>2, <1>5, <1>6, BindingsAssumption DEF BindingsInv, BindingsTypes
  <2>2. CASE x # tr
    <3>1. <<x, t, c>> \in creating BY <2>2, <1>1
    <3> QED BY <2>2, <3>1, <1>6, <1>2 DEF BindingsInv, BindingsTypes, AskersPlaced
  <2> QED BY <2>1, <2>2
<1> QED BY <1>3, <1>7, <1>8 DEF BindingsInv

LEMMA BindStep ==
    ASSUME BindingsInv, NEW group \in Bindings!Chats, NEW agent \in Agents,
           Bindings!Bind(group, agent)
    PROVE  BindingsInv'
<1>1. /\ binds < MaxBinds /\ binds' = binds + 1
      /\ bindings' = Bindings!SaveBinding(group, agent)
      /\ file' = Bindings!SaveBinding(group, agent)
      /\ UNCHANGED <<place, creating, deletion, topics, migrated>>
    BY DEF Bindings!Bind, Bindings!Save
<1>2. Table(bindings)' /\ Table(file)'
    BY <1>1, SaveBindingTable DEF BindingsInv, Table
<1>3. BindingsTypes' BY <1>1, BindingsAssumption DEF BindingsInv, BindingsTypes
<1>4. AskersPlaced' BY <1>1 DEF BindingsInv, AskersPlaced
<1> QED BY <1>2, <1>3, <1>4 DEF BindingsInv

\* A message, of a topic that exists or is new.
LEMMA ArrivesStep ==
    ASSUME BindingsInv, NEW group \in Bindings!Chats, NEW topic \in Bindings!TopicIds \cup {None},
           Bindings!Arrives(group, topic), topics' \in 0..MaxTopics
    PROVE  BindingsInv'
<1> DEFINE agent == Bindings!AgentOf(group, topic)
           known == IF group \in DOMAIN bindings THEN bindings[group].topics ELSE Bindings!NoTopics
           thread == IF topic = None THEN Default
                  ELSE IF topic \in DOMAIN known THEN known[topic] ELSE Bindings!NewThread(topic)
           put == [chat |-> group, topic |-> topic]
<1>1. known \in Topics BY NoTopicsOK, EntryHas DEF BindingsInv, Table
<1>2. thread \in Bindings!ThreadIds
  <2> HIDE DEF known
  <2> QED BY <1>1, TopicsHave DEF Bindings!ThreadIds
<1>3. agent \in Agents
  <2>1. agent # None BY DEF Bindings!Arrives
  <2>2. agent \in Agents \cup {None}
      BY EntryHas, BindingsAssumption DEF Bindings!AgentOf, BindingsInv, Table
  <2> QED BY <2>1, <2>2
<1>4. <<agent, thread>> \in Bindings!Transports
    BY <1>2, <1>3 DEF Bindings!Transports, Bindings!ThreadIds
<1>5. /\ place' = [place EXCEPT ![<<agent, thread>>] = put]
      /\ IF topic # None /\ topic \notin DOMAIN known
         THEN /\ bindings' = Bindings!WithTopic(group, topic, thread)
              /\ file' = Bindings!WithTopic(group, topic, thread)
         ELSE UNCHANGED <<bindings, file>>
      /\ UNCHANGED <<creating, deletion, migrated, binds>>
    BY DEF Bindings!Arrives, Bindings!Save
<1>6. PICK th \in Bindings!ThreadIds : th = thread BY <1>2
<1>7. PICK ag \in Agents : ag = agent BY <1>3
<1>8. /\ place' = [place EXCEPT ![<<ag, th>>] = put]
      /\ \/ topic # None /\ bindings' = Bindings!WithTopic(group, topic, th) /\ file' = bindings'
         \/ UNCHANGED <<bindings, file>>
    BY <1>5, <1>6, <1>7
<1>9. <<ag, th>> \in Bindings!Transports BY <1>4, <1>6, <1>7
<1>10. put \in Places /\ put.chat # None BY BindingsAssumption DEF Places
<1> HIDE DEF agent, known, thread, put
<1>11. Table(bindings)' /\ Table(file)'
  <2>1. CASE UNCHANGED <<bindings, file>> BY <2>1 DEF BindingsInv, Table
  <2>2. CASE topic # None /\ bindings' = Bindings!WithTopic(group, topic, th) /\ file' = bindings'
      BY <2>2, WithTopicTable DEF BindingsInv, Table
  <2> QED BY <1>8, <2>1, <2>2
<1>12. BindingsTypes'
  <2>1. place' \in [Bindings!Transports -> Places]
      BY <1>8, <1>9, <1>10 DEF BindingsInv, BindingsTypes
  <2> QED BY <2>1, <1>5 DEF BindingsInv, BindingsTypes
<1>13. AskersPlaced' BY <1>5, <1>8, <1>9, <1>10 DEF BindingsInv, BindingsTypes, AskersPlaced
<1> QED BY <1>11, <1>12, <1>13 DEF BindingsInv

LEMMA MessageStep ==
    ASSUME BindingsInv, Bindings!Message
    PROVE  BindingsInv'
<1>1. CASE \E group \in Bindings!Chats, topic \in (1..topics) \cup {None} :
            Bindings!Arrives(group, topic) /\ UNCHANGED topics
  <2>1. PICK group \in Bindings!Chats, topic \in (1..topics) \cup {None} :
            Bindings!Arrives(group, topic) /\ UNCHANGED topics
      BY <1>1
  <2>2. topics \in 0..MaxTopics BY DEF BindingsInv, BindingsTypes
  <2>3. topic \in Bindings!TopicIds \cup {None}
      BY <2>2, BindingsAssumption DEF Bindings!TopicIds
  <2> QED BY <2>1, <2>2, <2>3, ArrivesStep
<1>2. CASE \E group \in Groups :
            /\ topics < MaxTopics /\ topics' = topics + 1
            /\ Bindings!Arrives(group, topics')
  <2>1. PICK group \in Groups :
            /\ topics < MaxTopics /\ topics' = topics + 1
            /\ Bindings!Arrives(group, topics')
      BY <1>2
  <2>2. topics' \in 0..MaxTopics /\ topics' \in Bindings!TopicIds
      BY <2>1, BindingsAssumption DEF BindingsInv, BindingsTypes, Bindings!TopicIds
  <2>3. PICK n \in Bindings!TopicIds : n = topics' BY <2>2
  <2>4. Bindings!Arrives(group, n) BY <2>1, <2>3
  <2>5. group \in Bindings!Chats BY DEF Bindings!Chats
  <2> QED BY <2>2, <2>4, <2>5, ArrivesStep
<1> QED BY <1>1, <1>2 DEF Bindings!Message

LEMMA DeleteTopicStep ==
    ASSUME Table(bindings), Table(file), NEW d, Deletes(d),
           NEW e \in Bindings!Chats \X Bindings!TopicIds, Bindings!DeleteTopic(d, e)
    PROVE  Table(bindings)' /\ Table(file)' /\ Deletes(deletion')
<1>1. /\ deletion' = [d EXCEPT !.todo = @ \ {e}]
      /\ bindings' = IF e[1] \in DOMAIN bindings
             THEN [bindings EXCEPT ![e[1]].topics = Bindings!Restrict(@, DOMAIN @ \ {e[2]})]
             ELSE bindings
      /\ UNCHANGED file
    BY DEF Bindings!DeleteTopic
<1>2. Table(bindings)'
  <2>1. CASE e[1] \in DOMAIN bindings
    <3> DEFINE W == [bindings EXCEPT ![e[1]].topics = Bindings!Restrict(@, DOMAIN @ \ {e[2]})]
    <3>1. Table(W) BY <2>1, DeletedTopicTable
    <3>2. bindings' = W BY <1>1, <2>1
    <3> HIDE DEF W
    <3> QED BY <3>1, <3>2 DEF Table
  <2>2. CASE e[1] \notin DOMAIN bindings BY <2>2, <1>1 DEF Table
  <2> QED BY <2>1, <2>2
<1>3. Table(file)' BY <1>1 DEF Table
<1>4. Deletes(deletion') BY <1>1 DEF Deletes
<1> QED BY <1>2, <1>3, <1>4

LEMMA ProceedStep ==
    ASSUME Table(bindings), Table(file), NEW d, Deletes(d), Bindings!Proceed(d)
    PROVE  Table(bindings)' /\ Table(file)' /\ Deletes(deletion')
<1>1. CASE d.todo # {}
  <2>1. PICK e \in d.todo : Bindings!DeleteTopic(d, e) BY <1>1 DEF Bindings!Proceed
  <2> QED BY <2>1, DeleteTopicStep DEF Deletes
<1>2. CASE deletion' = Bindings!Rest /\ (UNCHANGED <<bindings, file>> \/ Bindings!Save(bindings))
    BY <1>2 DEF Bindings!Rest, Bindings!Save, Deletes, Table
<1>3. CASE \E c \in d.left : \E e \in Bindings!TopicsOf(c, d.thread) :
            Bindings!DeleteTopic([d EXCEPT !.left = @ \ {c}, !.todo = Bindings!TopicsOf(c, d.thread)], e)
  <2>1. PICK c \in d.left : \E e \in Bindings!TopicsOf(c, d.thread) :
            Bindings!DeleteTopic([d EXCEPT !.left = @ \ {c}, !.todo = Bindings!TopicsOf(c, d.thread)], e)
      BY <1>3
  <2> DEFINE D == [d EXCEPT !.left = @ \ {c}, !.todo = Bindings!TopicsOf(c, d.thread)]
  <2>2. PICK e \in Bindings!TopicsOf(c, d.thread) : Bindings!DeleteTopic(D, e) BY <2>1
  <2>3. c \in Bindings!Chats BY DEF Deletes
  <2>4. Bindings!TopicsOf(c, d.thread) \in SUBSET (Bindings!Chats \X Bindings!TopicIds)
    <3>1. CASE c \in DOMAIN bindings
      <4>1. DOMAIN bindings[c].topics \subseteq Bindings!TopicIds
          BY <3>1, EntryHas, TopicsHave DEF Table
      <4> QED BY <2>3, <4>1 DEF Bindings!TopicsOf
    <3>2. CASE c \notin DOMAIN bindings BY <3>2 DEF Bindings!TopicsOf
    <3> QED BY <3>1, <3>2
  <2>7. Deletes(D)
    <3> DEFINE tops == Bindings!TopicsOf(c, d.thread)
               less == d.left \ {c}
    <3>1. tops \in SUBSET (Bindings!Chats \X Bindings!TopicIds) BY <2>4
    <3>2. less \in SUBSET Bindings!Chats BY DEF Deletes
    <3> HIDE DEF tops, less
    <3>3. Deletes([d EXCEPT !.left = less, !.todo = tops]) BY <3>1, <3>2 DEF Deletes
    <3> QED BY <3>3 DEF tops, less
  <2> HIDE DEF D
  <2> QED BY <2>2, <2>4, <2>7, DeleteTopicStep
<1> QED BY <1>1, <1>2, <1>3 DEF Bindings!Proceed

LEMMA DeletionStep ==
    ASSUME BindingsInv,
           (\E thread \in Bindings!ThreadIds : Bindings!ThreadDelete(thread)) \/ Bindings!TopicDeleted
    PROVE  BindingsInv'
<1>1. UNCHANGED <<place, creating, topics, migrated, binds>>
    BY DEF Bindings!ThreadDelete, Bindings!TopicDeleted
<1>2. \E d : Deletes(d) /\ Bindings!Proceed(d)
  <2>1. ASSUME NEW thread \in Bindings!ThreadIds, Bindings!ThreadDelete(thread)
        PROVE  \E d : Deletes(d) /\ Bindings!Proceed(d)
    <3> DEFINE D == [thread |-> thread, left |-> DOMAIN bindings, todo |-> {},
                     size |-> Bindings!Cardinality(DOMAIN bindings)]
    <3>1. Deletes(D) BY DEF Deletes, BindingsInv, Table
    <3>2. Bindings!Proceed(D) BY <2>1 DEF Bindings!ThreadDelete
    <3> HIDE DEF D
    <3> QED BY <3>1, <3>2
  <2>2. CASE Bindings!TopicDeleted
    <3>1. Deletes(deletion) BY DEF Deletes, BindingsInv, BindingsTypes
    <3>2. Bindings!Proceed(deletion) BY <2>2 DEF Bindings!TopicDeleted
    <3> QED BY <3>1, <3>2
  <2> QED BY <2>1, <2>2
<1>3. Table(bindings)' /\ Table(file)' /\ Deletes(deletion')
    BY <1>2, ProceedStep DEF BindingsInv
<1>4. BindingsTypes' BY <1>1, <1>3 DEF BindingsInv, BindingsTypes, Deletes
<1>5. AskersPlaced' BY <1>1 DEF BindingsInv, AskersPlaced
<1> QED BY <1>3, <1>4, <1>5 DEF BindingsInv

LEMMA RestDeletes == Deletes(Bindings!Rest)
<1>1. Bindings!Rest \in [thread : Bindings!ThreadIds \cup {None}, left : SUBSET Bindings!Chats,
           todo : SUBSET (Bindings!Chats \X Bindings!TopicIds), size : {0}]
    BY DEF Bindings!Rest
<1> QED BY <1>1 DEF Deletes

LEMMA RestartStep ==
    ASSUME BindingsInv, Bindings!Restart
    PROVE  BindingsInv'
<1>1. /\ binds < MaxBinds /\ binds' = binds + 1
      /\ bindings' = file /\ file' = file
      /\ place' = [tr \in Bindings!Transports |-> Bindings!Lost]
      /\ creating' = {} /\ deletion' = Bindings!Rest
      /\ UNCHANGED <<topics, migrated>>
    BY DEF Bindings!Restart
<1>2. BindingsTypes'
    BY <1>1, BindingsAssumption, RestDeletes
       DEF BindingsInv, BindingsTypes, Places, Bindings!Lost
<1>3. AskersPlaced' BY <1>1 DEF AskersPlaced
<1>4. Table(bindings)' /\ Table(file)' BY <1>1 DEF BindingsInv, Table
<1> QED BY <1>2, <1>3, <1>4 DEF BindingsInv

LEMMA BindingsStep ==
    ASSUME BindingsInv, Bindings!Next
    PROVE  BindingsInv'
<1>1. ASSUME NEW tr \in Bindings!Own, NEW task \in Tasks,
             \/ Bindings!Ensure(tr, task) \/ Bindings!TopicCreated(tr, task)
             \/ Bindings!TopicRefused(tr, task)
             \/ \E group, new \in Groups : Bindings!Migrate(tr, task, group, new)
      PROVE  BindingsInv'
    BY <1>1, EnsureStep, TopicCreatedStep, TopicRefusedStep, MigrateStep
<1>2. ASSUME NEW group \in Bindings!Chats, NEW agent \in Agents, Bindings!Bind(group, agent)
      PROVE  BindingsInv'
    BY <1>2, BindStep
<1>3. CASE Bindings!Message BY <1>3, MessageStep
<1>4. CASE (\E thread \in Bindings!ThreadIds : Bindings!ThreadDelete(thread))
           \/ Bindings!TopicDeleted
    BY <1>4, DeletionStep
<1>5. CASE Bindings!Restart BY <1>5, RestartStep
<1> QED BY <1>1, <1>2, <1>3, <1>4, <1>5 DEF Bindings!Next

LEMMA BindingsStart ==
    ASSUME Bindings!Init
    PROVE  BindingsInv
<1>1. Table(bindings) /\ Table(file) BY DEF Bindings!Init, Table
<1>2. BindingsTypes
    BY BindingsAssumption, RestDeletes
       DEF Bindings!Init, BindingsTypes, Places, Bindings!Lost
<1>3. AskersPlaced BY DEF Bindings!Init, AskersPlaced
<1> QED BY <1>1, <1>2, <1>3 DEF BindingsInv

LEMMA CardIs == ASSUME NEW S PROVE Bindings!Cardinality(S) = Cardinality(S)
BY DEF Bindings!Cardinality, Cardinality

LEMMA OneChat == BindingsInv => OneChatPerAgent
<1> SUFFICES ASSUME BindingsInv, NEW agent \in Agents
             PROVE  Cardinality(Bindings!BoundTo(agent)) <= 1
    BY CardIs DEF OneChatPerAgent, Bindings!OneChatPerAgent
<1>1. CASE Bindings!BoundTo(agent) = {} BY <1>1, FS_EmptySet
<1>2. CASE Bindings!BoundTo(agent) # {}
  <2>1. PICK c : Bindings!BoundTo(agent) = {c}
      BY <1>2 DEF Bindings!BoundTo, BindingsInv, Table
  <2> QED BY <2>1, FS_Singleton
<1> QED BY <1>1, <1>2

LEMMA BindingsRest == BindingsInv /\ UNCHANGED bindingsVars => BindingsInv'
BY DEF bindingsVars, BindingsInv, Table, BindingsTypes, AskersPlaced

\* Whatever groups are bound, topics made, threads deleted and messages moved, an agent
\* never has two chats in the table of bindings (transport/telegram.py, save_binding).
THEOREM BindingsStayOne == Spec => []OneChatPerAgent
<1>1. Init => BindingsInv BY BindingsStart DEF Init
<1>2. BindingsInv /\ [Next]_allVars => BindingsInv'
  <2> SUFFICES ASSUME BindingsInv, [Next]_allVars PROVE BindingsInv' OBVIOUS
  <2>1. CASE Bindings!Next BY <2>1, BindingsStep
  <2>2. CASE UNCHANGED bindingsVars BY <2>2, BindingsRest
  <2> QED BY <2>1, <2>2 DEF Next, allVars
<1> QED BY <1>1, <1>2, OneChat, PTL DEF Spec, allVars

-----------------------------------------------------------------------------
(* Telegram, incoming: messages on their way to a handler *)

\* Where a message is on its way.
PendingAt(m) == {i \in DOMAIN pending : pending[i] = m}
HandledIn(m) == {h \in handling : m \in Inbox!ToSet(h.batch)}
GivenAt(m) == {i \in DOMAIN given : m \in Inbox!ToSet(given[i])}
DroppedIn(m) == {b \in dropped : m \in Inbox!ToSet(b)}

One(A, B, C, D) ==
    \/ (\E x : A = {x}) /\ B = {} /\ C = {} /\ D = {}
    \/ A = {} /\ (\E x : B = {x}) /\ C = {} /\ D = {}
    \/ A = {} /\ B = {} /\ (\E x : C = {x}) /\ D = {}
    \/ A = {} /\ B = {} /\ C = {} /\ (\E x : D = {x})

Somewhere(m) == One(PendingAt(m), HandledIn(m), GivenAt(m), DroppedIn(m))

Known(b) == Inbox!ToSet(b) \subseteq 1..Len(arrived)

InboxTypes ==
    /\ arrived \in Seq(Kinds) /\ Len(arrived) <= MaxMessages
    /\ pending \in Seq(Nat) /\ Len(pending) <= Len(arrived)
    /\ \A i, j \in DOMAIN pending : i < j => pending[i] < pending[j]
    /\ Known(pending)
    /\ flushTask \in [at : {"none", "sleeping"}, batch : {<<>>}]
    /\ flushTask.at = "sleeping" => pending # <<>>
    /\ handling \in SUBSET [batch : Inbox!Batch, left : 0..MaxMessages]
    /\ \A h \in handling : Known(h.batch)
    /\ given \in Seq(Inbox!Batch) /\ \A i \in DOMAIN given : Known(given[i])
    /\ dropped \in SUBSET Inbox!Batch /\ \A b \in dropped : Known(b)
    /\ failures \in 0..MaxFailures /\ closed \in BOOLEAN

InboxInv == InboxTypes /\ \A m \in 1..Len(arrived) : Somewhere(m)

\* The number of singletons among four sets.
LEMMA OneCounts ==
    ASSUME NEW A, NEW B, NEW C, NEW D, One(A, B, C, D)
    PROVE  Cardinality(A) + Cardinality(B) + Cardinality(C) + Cardinality(D) = 1
<1>1. Cardinality({}) = 0 BY FS_EmptySet
<1>2. \A x : Cardinality({x}) = 1 BY FS_Singleton
<1>3. \A S : S = {} => Cardinality(S) = 0 BY <1>1
<1>4. \A S : (\E x : S = {x}) => Cardinality(S) = 1 BY <1>2
<1>5. \/ Cardinality(A) = 1 /\ Cardinality(B) = 0 /\ Cardinality(C) = 0 /\ Cardinality(D) = 0
      \/ Cardinality(A) = 0 /\ Cardinality(B) = 1 /\ Cardinality(C) = 0 /\ Cardinality(D) = 0
      \/ Cardinality(A) = 0 /\ Cardinality(B) = 0 /\ Cardinality(C) = 1 /\ Cardinality(D) = 0
      \/ Cardinality(A) = 0 /\ Cardinality(B) = 0 /\ Cardinality(C) = 0 /\ Cardinality(D) = 1
    BY <1>3, <1>4, Zenon DEF One
<1> QED BY <1>5

LEMMA InboxCardinality == ASSUME NEW S PROVE Inbox!Cardinality(S) = Cardinality(S)
BY DEF Inbox!Cardinality, Cardinality

LEMMA InboxOnce == InboxInv => IncomingOnce
<1> SUFFICES ASSUME InboxInv, NEW m \in 1..Len(arrived) PROVE Inbox!Places(m) = 1
    BY DEF IncomingOnce, Inbox!IncomingOnce, Inbox!Count
<1>1. One(PendingAt(m), HandledIn(m), GivenAt(m), DroppedIn(m)) BY DEF InboxInv, Somewhere
<1>2. Inbox!Places(m) = Cardinality(PendingAt(m)) + Cardinality(HandledIn(m))
                        + Cardinality(GivenAt(m)) + Cardinality(DroppedIn(m))
    BY InboxCardinality DEF Inbox!Places, PendingAt, HandledIn, GivenAt, DroppedIn
<1> QED BY <1>1, <1>2, OneCounts

LEMMA PendingBatch ==
    ASSUME InboxTypes, pending # <<>>
    PROVE  pending \in Inbox!Batch
<1>1. Len(pending) \in 1..MaxMessages BY InboxAssumption DEF InboxTypes
<1>2. pending \in [1..Len(pending) -> 1..MaxMessages]
  <2>1. pending \in [1..Len(pending) -> Nat] BY DEF InboxTypes
  <2>2. \A i \in 1..Len(pending) : pending[i] \in 1..Len(arrived)
      BY <2>1 DEF InboxTypes, Known, Inbox!ToSet
  <2>3. Len(arrived) \in Nat /\ Len(arrived) <= MaxMessages BY DEF InboxTypes
  <2>4. \A i \in 1..Len(pending) : pending[i] \in 1..MaxMessages
      BY <2>2, <2>3, InboxAssumption
  <2> QED BY <2>1, <2>4
<1>3. pending \in UNION {[1..n -> 1..MaxMessages] : n \in 1..MaxMessages} BY <1>1, <1>2
<1> QED BY <1>3 DEF Inbox!Batch, InboxTypes

LEMMA WithoutNothing ==
    ASSUME InboxTypes
    PROVE  /\ Inbox!Without(flushTask) = handling
BY DEF InboxTypes, Inbox!Without, Inbox!Batch

LEMMA HandleMessageStep ==
    ASSUME InboxInv, Inbox!HandleMessage
    PROVE  InboxInv'
<1>1. PICK kind \in Kinds : arrived' = Append(arrived, kind) BY DEF Inbox!HandleMessage
<1>2. /\ Len(arrived) < MaxMessages
      /\ pending' = Append(pending, Len(arrived) + 1)
      /\ handling' = handling
      /\ flushTask' = [at |-> "sleeping", batch |-> <<>>]
      /\ UNCHANGED <<given, dropped, failures, closed>>
    BY WithoutNothing DEF InboxInv, Inbox!HandleMessage, Inbox!Count
<1>3. Len(arrived') = Len(arrived) + 1 /\ arrived' \in Seq(Kinds) /\ Len(arrived) \in Nat
    BY <1>1 DEF InboxInv, InboxTypes
<1>4. /\ pending' \in Seq(Nat) /\ Len(pending') = Len(pending) + 1 /\ Len(pending) \in Nat
      /\ \A i \in 1..Len(pending) : pending'[i] = pending[i]
      /\ pending'[Len(pending) + 1] = Len(arrived) + 1
      /\ DOMAIN pending = 1..Len(pending) /\ DOMAIN pending' = 1..(Len(pending) + 1)
    BY <1>2, <1>3 DEF InboxInv, InboxTypes
<1>5. \A i \in 1..Len(pending) : pending[i] \in 1..Len(arrived)
    BY <1>4 DEF InboxInv, InboxTypes, Known, Inbox!ToSet
<1>6. \A b : Known(b) => Known(b)'
    BY <1>3 DEF Known
<1>7. InboxTypes'
  <2>1. \A i, j \in DOMAIN pending' : i < j => pending'[i] < pending'[j]
    <3> SUFFICES ASSUME NEW i \in 1..(Len(pending) + 1), NEW j \in 1..(Len(pending) + 1), i < j
                 PROVE  pending'[i] < pending'[j]
        BY <1>4
    <3>1. i \in 1..Len(pending) BY <1>4
    <3>2. CASE j \in 1..Len(pending)
        BY <1>4, <3>1, <3>2 DEF InboxInv, InboxTypes
    <3>3. CASE j = Len(pending) + 1
      <4>1. pending[i] \in 1..Len(arrived) BY <3>1, <1>5
      <4>2. pending'[i] = pending[i] /\ pending'[j] = Len(arrived) + 1 BY <3>1, <3>3, <1>4
      <4> QED BY <4>1, <4>2, <1>3
    <3> QED BY <3>2, <3>3, <1>4
  <2>2. Known(pending)' BY <1>3, <1>4, <1>5 DEF Known, Inbox!ToSet
  <2>3. pending' # <<>> BY <1>4
  <2>4. \A h \in handling' : Known(h.batch)' BY <1>2, <1>6 DEF InboxInv, InboxTypes
  <2>5. \A i \in DOMAIN given' : Known(given[i])'
      BY <1>2, <1>6, <1>3 DEF InboxInv, InboxTypes, Known
  <2>6. \A b \in dropped' : Known(b)' BY <1>2, <1>6 DEF InboxInv, InboxTypes
  <2> QED BY <2>1, <2>2, <2>3, <2>4, <2>5, <2>6, <1>2, <1>3, <1>4, InboxAssumption
          DEF InboxInv, InboxTypes
<1>8. ASSUME NEW m \in 1..Len(arrived') PROVE Somewhere(m)'
  <2>1. HandledIn(m)' = HandledIn(m) /\ GivenAt(m)' = GivenAt(m) /\ DroppedIn(m)' = DroppedIn(m)
      BY <1>2 DEF HandledIn, GivenAt, DroppedIn
  <2>2. CASE m \in 1..Len(arrived)
    <3>1. PendingAt(m)' = PendingAt(m) BY <1>3, <1>4, <2>2 DEF PendingAt
    <3>2. Somewhere(m) BY <2>2 DEF InboxInv
    <3> QED BY <2>1, <3>1, <3>2 DEF Somewhere
  <2>3. CASE m = Len(arrived) + 1
    <3>1. PendingAt(m)' = {Len(pending) + 1} BY <1>3, <1>4, <1>5, <2>3 DEF PendingAt
    <3>2. m \notin 1..Len(arrived) BY <1>3, <2>3
    <3>3. HandledIn(m) = {} /\ GivenAt(m) = {} /\ DroppedIn(m) = {}
        BY <3>2 DEF HandledIn, GivenAt, DroppedIn, InboxInv, InboxTypes, Known
    <3> QED BY <2>1, <3>1, <3>3 DEF Somewhere, One
  <2> QED BY <1>3, <2>2, <2>3
<1> QED BY <1>7, <1>8 DEF InboxInv

LEMMA FlushStep ==
    ASSUME InboxInv, Inbox!Flush
    PROVE  InboxInv'
<1> DEFINE new == [batch |-> pending, left |-> Len(pending)]
<1>1. /\ handling' = handling \cup {new}
      /\ pending' = <<>> /\ flushTask' = [at |-> "none", batch |-> <<>>]
      /\ UNCHANGED <<arrived, given, dropped, failures, closed>>
    BY DEF Inbox!Flush, Inbox!NoTask
<1>2. pending \in Inbox!Batch BY PendingBatch DEF InboxInv, InboxTypes, Inbox!Flush
<1>3. new \in [batch : Inbox!Batch, left : 0..MaxMessages] /\ new.batch = pending
    BY <1>2, InboxAssumption DEF InboxInv, InboxTypes
<1> HIDE DEF new
<1>4. \A b : Known(b)' <=> Known(b) BY <1>1 DEF Known
<1>5. InboxTypes'
  <2>1. Known(pending)' BY <1>1 DEF Known, Inbox!ToSet
  <2>2. \A h \in handling' : Known(h.batch)' BY <1>1, <1>3, <1>4 DEF InboxInv, InboxTypes
  <2>3. \A i \in DOMAIN given' : Known(given[i])' BY <1>1 DEF InboxInv, InboxTypes, Known
  <2>4. \A b \in dropped' : Known(b)' BY <1>1, <1>4 DEF InboxInv, InboxTypes
  <2>5. pending' \in Seq(Nat) /\ Len(pending') = 0 /\ DOMAIN pending' = {} BY <1>1
  <2> QED BY <2>1, <2>2, <2>3, <2>4, <2>5, <1>1, <1>3 DEF InboxInv, InboxTypes
<1>6. ASSUME NEW m \in 1..Len(arrived') PROVE Somewhere(m)'
  <2>1. GivenAt(m)' = GivenAt(m) /\ DroppedIn(m)' = DroppedIn(m) /\ PendingAt(m)' = {}
      BY <1>1 DEF GivenAt, DroppedIn, PendingAt
  <2>2. Somewhere(m) BY <1>1 DEF InboxInv
  <2>3. CASE PendingAt(m) = {}
    <3>1. m \notin Inbox!ToSet(pending) BY <2>3 DEF PendingAt, Inbox!ToSet
    <3>2. HandledIn(m)' = HandledIn(m) BY <3>1, <1>1, <1>3 DEF HandledIn
    <3> QED BY <2>1, <2>2, <2>3, <3>2 DEF Somewhere
  <2>4. CASE PendingAt(m) # {}
    <3>1. m \in Inbox!ToSet(pending) BY <2>4 DEF PendingAt, Inbox!ToSet
    <3>2. HandledIn(m) = {} /\ GivenAt(m) = {} /\ DroppedIn(m) = {}
        BY <2>2, <2>4 DEF Somewhere, One
    <3>3. HandledIn(m)' = {new} BY <3>1, <3>2, <1>1, <1>3 DEF HandledIn
    <3> QED BY <2>1, <3>2, <3>3 DEF Somewhere, One
  <2> QED BY <2>3, <2>4
<1> QED BY <1>5, <1>6 DEF InboxInv

LEMMA DescribeStep ==
    ASSUME InboxInv, NEW h \in handling, Inbox!Describe(h)
    PROVE  InboxInv'
<1> DEFINE new == [h EXCEPT !.left = @ - 1]
<1>1. /\ h.left > 0
      /\ handling' = (handling \ {h}) \cup {new}
      /\ failures' \in 0..MaxFailures
      /\ UNCHANGED <<arrived, pending, flushTask, given, dropped, closed>>
    BY InboxAssumption DEF Inbox!Describe, InboxInv, InboxTypes
<1>2. h \in [batch : Inbox!Batch, left : 0..MaxMessages] BY DEF InboxInv, InboxTypes
<1>3. new \in [batch : Inbox!Batch, left : 0..MaxMessages] /\ new.batch = h.batch
    BY <1>1, <1>2, InboxAssumption
<1> HIDE DEF new
<1>4. \A b : Known(b)' <=> Known(b) BY <1>1 DEF Known
<1>5. InboxTypes'
  <2>1. Known(pending)' BY <1>1 DEF InboxInv, InboxTypes, Known
  <2>2. \A g \in handling' : Known(g.batch)' BY <1>1, <1>3, <1>4 DEF InboxInv, InboxTypes
  <2>3. \A i \in DOMAIN given' : Known(given[i])' BY <1>1 DEF InboxInv, InboxTypes, Known
  <2>4. \A b \in dropped' : Known(b)' BY <1>1, <1>4 DEF InboxInv, InboxTypes
  <2> QED BY <2>1, <2>2, <2>3, <2>4, <1>1, <1>3 DEF InboxInv, InboxTypes
<1>6. ASSUME NEW m \in 1..Len(arrived') PROVE Somewhere(m)'
  <2>1. GivenAt(m)' = GivenAt(m) /\ DroppedIn(m)' = DroppedIn(m) /\ PendingAt(m)' = PendingAt(m)
      BY <1>1 DEF GivenAt, DroppedIn, PendingAt
  <2>2. Somewhere(m) BY <1>1 DEF InboxInv
  <2>3. CASE m \notin Inbox!ToSet(h.batch)
    <3>1. HandledIn(m)' = HandledIn(m) BY <2>3, <1>1, <1>3 DEF HandledIn
    <3> QED BY <2>1, <2>2, <3>1 DEF Somewhere
  <2>4. CASE m \in Inbox!ToSet(h.batch)
    <3>1. h \in HandledIn(m) BY <2>4 DEF HandledIn
    <3>2. HandledIn(m) = {h} /\ PendingAt(m) = {} /\ GivenAt(m) = {} /\ DroppedIn(m) = {}
        BY <2>2, <3>1 DEF Somewhere, One
    <3>3. HandledIn(m)' = {new} BY <2>4, <3>2, <1>1, <1>3 DEF HandledIn
    <3> QED BY <2>1, <3>2, <3>3 DEF Somewhere, One
  <2> QED BY <2>3, <2>4
<1> QED BY <1>5, <1>6 DEF InboxInv

\* A batch that has been handled: the agent has it, or it is dropped.
LEMMA FlushEndStep ==
    ASSUME InboxInv, NEW h \in handling,
           handling' = handling \ {h},
           \/ dropped' = dropped \cup {h.batch} /\ given' = given
           \/ given' = Append(given, h.batch) /\ dropped' = dropped,
           failures' \in 0..MaxFailures,
           UNCHANGED <<arrived, pending, flushTask, closed>>
    PROVE  InboxInv'
<1>1. h.batch \in Inbox!Batch /\ Known(h.batch) BY DEF InboxInv, InboxTypes
<1>2. \A b : Known(b)' <=> Known(b) BY DEF Known
<1>3. given \in Seq(Inbox!Batch) BY DEF InboxInv, InboxTypes
<1>4. given' = Append(given, h.batch) =>
        /\ given' \in Seq(Inbox!Batch) /\ Len(given') = Len(given) + 1 /\ Len(given) \in Nat
        /\ \A i \in 1..Len(given) : given'[i] = given[i]
        /\ given'[Len(given) + 1] = h.batch
        /\ DOMAIN given = 1..Len(given) /\ DOMAIN given' = 1..(Len(given) + 1)
    BY <1>1, <1>3
<1>5. InboxTypes'
  <2>1. Known(pending)' BY DEF InboxInv, InboxTypes, Known
  <2>2. \A g \in handling' : Known(g.batch)' BY <1>2 DEF InboxInv, InboxTypes
  <2>3. \A i \in DOMAIN given' : Known(given[i])'
    <3> SUFFICES ASSUME NEW i \in DOMAIN given' PROVE Inbox!ToSet(given'[i]) \subseteq 1..Len(arrived)
        BY DEF Known
    <3>1. \A n \in DOMAIN given : Inbox!ToSet(given[n]) \subseteq 1..Len(arrived)
        BY DEF InboxInv, InboxTypes, Known
    <3>2. CASE given' = given BY <3>1, <3>2
    <3>3. CASE given' = Append(given, h.batch)
      <4>1. CASE i \in 1..Len(given) BY <4>1, <3>1, <3>3, <1>4
      <4>2. CASE i = Len(given) + 1 BY <4>2, <3>3, <1>1, <1>4 DEF Known
      <4>3. i \in 1..(Len(given) + 1) /\ Len(given) \in Nat BY <3>3, <1>4, Zenon
      <4> QED BY <4>1, <4>2, <4>3
    <3> QED BY <3>2, <3>3
  <2>4. given' \in Seq(Inbox!Batch) BY <1>3, <1>4
  <2>5. \A b \in dropped' : Known(b)' BY <1>1, <1>2 DEF InboxInv, InboxTypes
  <2> QED BY <2>1, <2>2, <2>3, <2>4, <2>5, <1>1 DEF InboxInv, InboxTypes
<1>6. ASSUME NEW m \in 1..Len(arrived') PROVE Somewhere(m)'
  <2>1. PendingAt(m)' = PendingAt(m) BY DEF PendingAt
  <2>2. Somewhere(m) BY DEF InboxInv
  <2>3. CASE m \notin Inbox!ToSet(h.batch)
    <3>1. HandledIn(m)' = HandledIn(m) BY <2>3 DEF HandledIn
    <3>2. DroppedIn(m)' = DroppedIn(m) BY <2>3 DEF DroppedIn
    <3>3. GivenAt(m)' = GivenAt(m) BY <2>3, <1>4 DEF GivenAt
    <3> QED BY <2>1, <2>2, <3>1, <3>2, <3>3 DEF Somewhere
  <2>4. CASE m \in Inbox!ToSet(h.batch)
    <3>1. h \in HandledIn(m) BY <2>4 DEF HandledIn
    <3>2. HandledIn(m) = {h} /\ PendingAt(m) = {} /\ GivenAt(m) = {} /\ DroppedIn(m) = {}
        BY <2>2, <3>1 DEF Somewhere, One
    <3>3. HandledIn(m)' = {} BY <3>2 DEF HandledIn
    <3>4. CASE dropped' = dropped \cup {h.batch} /\ given' = given
      <4>1. DroppedIn(m)' = {h.batch} BY <3>2, <3>4, <2>4 DEF DroppedIn
      <4>2. GivenAt(m)' = {} BY <3>2, <3>4 DEF GivenAt
      <4> QED BY <2>1, <3>2, <3>3, <4>1, <4>2 DEF Somewhere, One
    <3>5. CASE given' = Append(given, h.batch) /\ dropped' = dropped
      <4>1. DroppedIn(m)' = {} BY <3>2, <3>5 DEF DroppedIn
      <4>2. GivenAt(m)' = {Len(given) + 1} BY <3>2, <3>5, <2>4, <1>4 DEF GivenAt
      <4> QED BY <2>1, <3>2, <3>3, <4>1, <4>2 DEF Somewhere, One
    <3> QED BY <3>4, <3>5
  <2> QED BY <2>3, <2>4
<1> QED BY <1>5, <1>6 DEF InboxInv

LEMMA CloseStep ==
    ASSUME InboxInv, Inbox!Close
    PROVE  InboxInv'
<1>1. /\ handling' = handling /\ closed' = TRUE
      /\ flushTask' = [at |-> "none", batch |-> <<>>]
      /\ UNCHANGED <<arrived, pending, given, dropped, failures>>
    BY WithoutNothing DEF InboxInv, Inbox!Close, Inbox!NoTask
<1>2. \A b : Known(b)' <=> Known(b) BY <1>1 DEF Known
<1>3. InboxTypes' BY <1>1, <1>2 DEF InboxInv, InboxTypes, Known
<1>4. ASSUME NEW m \in 1..Len(arrived') PROVE Somewhere(m)'
    BY <1>1 DEF InboxInv, Somewhere, PendingAt, HandledIn, GivenAt, DroppedIn
<1> QED BY <1>3, <1>4 DEF InboxInv

LEMMA InboxStep ==
    ASSUME InboxInv, Inbox!Next
    PROVE  InboxInv'
<1>1. CASE Inbox!HandleMessage BY <1>1, HandleMessageStep
<1>2. CASE Inbox!Flush BY <1>2, FlushStep
<1>3. ASSUME NEW h \in handling, Inbox!Describe(h) PROVE InboxInv' BY <1>3, DescribeStep
<1>4. ASSUME NEW h \in handling, Inbox!Raise(h) PROVE InboxInv'
    BY <1>4, FlushEndStep, InboxAssumption DEF Inbox!Raise, InboxInv, InboxTypes
<1>5. ASSUME NEW h \in handling, Inbox!Process(h) PROVE InboxInv'
    BY <1>5, FlushEndStep DEF Inbox!Process, InboxInv, InboxTypes
<1>6. CASE Inbox!Close BY <1>6, CloseStep
<1> QED BY <1>1, <1>2, <1>3, <1>4, <1>5, <1>6 DEF Inbox!Next, Inbox!HandleMessages

LEMMA InboxStart == ASSUME Inbox!Init PROVE InboxInv
<1>1. arrived = <<>> /\ pending = <<>> /\ flushTask = [at |-> "none", batch |-> <<>>]
      /\ handling = {} /\ given = <<>> /\ dropped = {} /\ failures = 0 /\ closed = FALSE
    BY DEF Inbox!Init, Inbox!NoTask
<1>0. <<>> \in Seq(Kinds) /\ <<>> \in Seq(Nat) /\ <<>> \in Seq(Inbox!Batch) OBVIOUS
<1>2. Len(arrived) = 0 /\ Len(pending) = 0 /\ DOMAIN pending = {} /\ DOMAIN given = {}
    BY <1>1
<1>4. InboxTypes
  <2>1. Known(pending) BY <1>2 DEF Known, Inbox!ToSet
  <2>2. flushTask \in [at : {"none", "sleeping"}, batch : {<<>>}] /\ flushTask.at # "sleeping"
      BY <1>1
  <2>3. arrived \in Seq(Kinds) /\ Len(arrived) <= MaxMessages BY <1>0, <1>1, <1>2, InboxAssumption
  <2>4. pending \in Seq(Nat) /\ Len(pending) <= Len(arrived) BY <1>0, <1>1, <1>2
  <2>5. \A i, j \in DOMAIN pending : i < j => pending[i] < pending[j] BY <1>2
  <2>6. /\ handling \in SUBSET [batch : Inbox!Batch, left : 0..MaxMessages]
        /\ \A h \in handling : Known(h.batch)
        /\ dropped \in SUBSET Inbox!Batch /\ \A b \in dropped : Known(b)
      BY <1>1
  <2>7. given \in Seq(Inbox!Batch) /\ \A i \in DOMAIN given : Known(given[i]) BY <1>0, <1>1, <1>2
  <2>8. failures \in 0..MaxFailures BY <1>1, InboxAssumption
  <2>9. closed \in BOOLEAN BY <1>1, Zenon
  <2> QED BY <2>1, <2>2, <2>3, <2>4, <2>5, <2>6, <2>7, <2>8, <2>9 DEF InboxTypes
<1>3. 1..Len(arrived) = {} BY <1>1
<1> QED BY <1>4, <1>3 DEF InboxInv

LEMMA InboxTypeOK == InboxInv => Inbox!TypeOK
<1> SUFFICES ASSUME InboxInv PROVE Inbox!TypeOK OBVIOUS
<1>1. pending \in Inbox!Batch \cup {<<>>} BY PendingBatch DEF InboxInv
<1>2. Inbox!ToSet(given) \subseteq Inbox!Batch BY DEF InboxInv, InboxTypes, Inbox!ToSet
<1> QED BY <1>1, <1>2 DEF InboxInv, InboxTypes, Inbox!TypeOK, Inbox!Handled

LEMMA InboxRests == InboxInv /\ UNCHANGED inboxVars => InboxInv'
<1> SUFFICES ASSUME InboxInv, UNCHANGED inboxVars PROVE InboxInv' OBVIOUS
<1>1. UNCHANGED <<arrived, pending, flushTask, handling, given, dropped, failures, closed>>
    BY DEF inboxVars
<1>2. InboxTypes' BY <1>1 DEF InboxInv, InboxTypes, Known
<1>3. \A m \in 1..Len(arrived') : Somewhere(m)'
  <2> SUFFICES ASSUME NEW m \in 1..Len(arrived) PROVE Somewhere(m)' BY <1>1
  <2>1. /\ PendingAt(m)' = PendingAt(m) /\ HandledIn(m)' = HandledIn(m)
        /\ GivenAt(m)' = GivenAt(m) /\ DroppedIn(m)' = DroppedIn(m)
      BY <1>1 DEF PendingAt, HandledIn, GivenAt, DroppedIn
  <2> QED BY <2>1 DEF Somewhere, InboxInv
<1> QED BY <1>2, <1>3 DEF InboxInv

\* Every message that arrived is in one place: waiting to be flushed, in a batch being
\* handled, given to the agent or dropped, and in it once (TelegramTransport's inbox).
THEOREM MessagesInOnePlace == Spec => []IncomingOnce
<1>1. Init => InboxInv BY InboxStart DEF Init
<1>2. InboxInv /\ [Next]_allVars => InboxInv'
  <2> SUFFICES ASSUME InboxInv, [Next]_allVars PROVE InboxInv' OBVIOUS
  <2>1. CASE Inbox!Next BY <2>1, InboxStep
  <2>2. CASE UNCHANGED inboxVars BY <2>2, InboxRests
  <2> QED BY <2>1, <2>2 DEF Next, allVars
<1> QED BY <1>1, <1>2, InboxOnce, PTL DEF Spec, allVars

-----------------------------------------------------------------------------
(* Telegram, outgoing: the items of a transport's queue *)

EditOf(e, m) == e.kind = "edit" /\ e.msg = m

\* What message m will show once the items q behind item `it` are worked off, when it
\* was last given the text `last`: the text t, by update u if an item says so.
Settles(q, it, last, m, t, u) ==
    /\ \A j \in DOMAIN q :
        EditOf(q[j], m) /\ (\A k \in DOMAIN q : k > j => ~EditOf(q[k], m))
            => q[j].text = t /\ q[j].update = u
    /\ (\A k \in DOMAIN q : ~EditOf(q[k], m)) =>
        IF it # None /\ EditOf(it, m) THEN it.text = t /\ it.update = u ELSE last = t

\* Of two items of a stream the first is not newer, and only one is a send.
Follows(d, e) ==
    d.of = e.of => d.update <= e.update /\ ~(d.kind = "send" /\ e.kind = "send")

\* An item fits its stream.
Fits(e) ==
    /\ broken[e.of] <= e.update /\ e.update <= updates[e.of]
    /\ e.kind = "edit" =>
        /\ e.msg <= sent
        /\ \A s \in Streams : \A i \in DOMAIN messages[s] : messages[s][i] = e.msg => s = e.of
    /\ e.kind = "send" =>
        /\ caller[e.of] \in {"sending", "cancelled"} /\ e.update = updates[e.of]
        /\ caller[e.of] = "sending" => e.text = bodies[e.of][Len(messages[e.of]) + 1]

CallerStates == {"idle", "sending", "deleting", "cancelled"}

WorkerTypes ==
    /\ queue \in Seq(Queue!Item)
    /\ \/ worker \in {"none", "ready", "dead"} /\ item = None
       \/ worker \in {"waiting", "flooded"} /\ item \in Queue!Item
    /\ errors \in 0..MaxErrors

StreamTypes ==
    /\ messages \in [Streams -> Seq(Nat)]
    /\ caller \in [Streams -> CallerStates]
    /\ bodies \in [Streams -> Queue!Bodies \cup {<<>>}]
    /\ updates \in [Streams -> 0..MaxUpdates] /\ broken \in [Streams -> 0..MaxUpdates]
    /\ \A s \in Streams : broken[s] <= updates[s]

\* The chat shows the texts the messages were last given, and a message of a stream is in
\* the chat and in one place.
ChatTells ==
    /\ sent \in Nat /\ lastEdit \in Seq(Texts) /\ Len(lastEdit) = sent
    /\ DOMAIN chat \subseteq 1..sent /\ \A m \in DOMAIN chat : chat[m] = lastEdit[m]
    /\ \A s \in Streams : \A i \in DOMAIN messages[s] : messages[s][i] \in DOMAIN chat
    /\ \A s, r \in Streams : \A i \in DOMAIN messages[s], j \in DOMAIN messages[r] :
        messages[s][i] = messages[r][j] => s = r /\ i = j

ItemsFit ==
    /\ \A j \in DOMAIN queue : Fits(queue[j])
    /\ item # None => Fits(item)

ItemsInOrder ==
    /\ \A j, k \in DOMAIN queue : j < k => Follows(queue[j], queue[k])
    /\ item # None => \A k \in DOMAIN queue : Follows(item, queue[k])

CallersAt == \A s \in Streams :
    /\ caller[s] = "idle" /\ broken[s] < updates[s] => Len(messages[s]) = Len(bodies[s])
    /\ caller[s] = "sending" => Len(messages[s]) < Len(bodies[s])
    /\ caller[s] = "deleting" => Len(messages[s]) > Len(bodies[s])

TextsComing == \A s \in Streams : broken[s] < updates[s] =>
    \A i \in DOMAIN messages[s] : i <= Len(bodies[s]) =>
        Settles(queue, item, lastEdit[messages[s][i]], messages[s][i], bodies[s][i], updates[s])

QueueInv ==
    /\ WorkerTypes /\ StreamTypes /\ ChatTells /\ ItemsFit /\ ItemsInOrder /\ CallersAt
    /\ TextsComing

-----------------------------------------------------------------------------

LEMMA ItemHas ==
    ASSUME NEW e \in Queue!Item
    PROVE  /\ e.of \in Streams /\ e.update \in 1..MaxUpdates /\ e.text \in Texts
           /\ e.kind \in {"send", "edit"} /\ e # None
           /\ e.kind = "edit" => e.msg \in Nat \ {0}
BY QueueAssumption DEF Queue!Item, Queue!Messages

LEMMA BodiesAre ==
    ASSUME NEW b \in Queue!Bodies \cup {<<>>}
    PROVE  b \in Seq(Texts) /\ DOMAIN b = 1..Len(b) /\ Len(b) \in Nat
           /\ (b \in Queue!Bodies => Len(b) > 0)
<1>1. CASE b \in Queue!Bodies
  <2>1. PICK n \in 1..2 : b \in [1..n -> Texts] BY <1>1 DEF Queue!Bodies
  <2>2. b \in Seq(Texts) /\ Len(b) = n BY <2>1
  <2> QED BY <2>1, <2>2
<1>2. CASE b \notin Queue!Bodies
  <2>1. b = <<>> BY <1>2
  <2> QED BY <2>1, <1>2
<1> QED BY <1>1, <1>2

LEMMA Concat ==
    ASSUME NEW q \in Seq(Queue!Item), NEW x \in Seq(Queue!Item)
    PROVE  /\ q \o x \in Seq(Queue!Item) /\ Len(q \o x) = Len(q) + Len(x)
           /\ \A j \in DOMAIN q : j \in DOMAIN (q \o x) /\ (q \o x)[j] = q[j]
           /\ \A i \in DOMAIN x : Len(q) + i \in DOMAIN (q \o x) /\ (q \o x)[Len(q) + i] = x[i]
           /\ \A j \in DOMAIN (q \o x) :
                j \in DOMAIN q \/ (\E i \in DOMAIN x : j = Len(q) + i)
<1>1. q \o x \in Seq(Queue!Item) /\ Len(q \o x) = Len(q) + Len(x) OBVIOUS
<1>2. \A j \in DOMAIN q : j \in DOMAIN (q \o x) /\ (q \o x)[j] = q[j] OBVIOUS
<1>3. \A i \in DOMAIN x : Len(q) + i \in DOMAIN (q \o x) /\ (q \o x)[Len(q) + i] = x[i] OBVIOUS
<1>4. ASSUME NEW j \in DOMAIN (q \o x) PROVE j \in DOMAIN q \/ (\E i \in DOMAIN x : j = Len(q) + i)
  <2>1. CASE j > Len(q)
    <3>1. j - Len(q) \in DOMAIN x /\ j = Len(q) + (j - Len(q)) BY <2>1, <1>1
    <3> QED BY <3>1
  <2>2. CASE ~(j > Len(q)) BY <2>2, <1>1
  <2> QED BY <2>1, <2>2
<1> QED BY <1>1, <1>2, <1>3, <1>4

\* Items that edit other messages leave what a message will show.
LEMMA SettlesBesides ==
    ASSUME NEW q \in Seq(Queue!Item), NEW x \in Seq(Queue!Item), NEW it, NEW last, NEW m, NEW t,
           NEW u, Settles(q, it, last, m, t, u), \A i \in DOMAIN x : ~EditOf(x[i], m)
    PROVE  Settles(q \o x, it, last, m, t, u)
<1>1. PICK y \in Seq(Queue!Item) : y = q \o x BY Concat
<1>2. \A j \in DOMAIN q : j \in DOMAIN y /\ y[j] = q[j] BY <1>1, Concat
<1>3. \A j \in DOMAIN y : j \in DOMAIN q \/ ~EditOf(y[j], m) BY <1>1, Concat
<1>4. ASSUME NEW j \in DOMAIN y, EditOf(y[j], m), \A k \in DOMAIN y : k > j => ~EditOf(y[k], m)
      PROVE  y[j].text = t /\ y[j].update = u
  <2>1. j \in DOMAIN q /\ EditOf(q[j], m) BY <1>2, <1>3, <1>4
  <2>2. \A k \in DOMAIN q : k > j => ~EditOf(q[k], m) BY <1>2, <1>4
  <2> QED BY <1>2, <2>1, <2>2 DEF Settles
<1>5. (\A k \in DOMAIN y : ~EditOf(y[k], m)) => \A k \in DOMAIN q : ~EditOf(q[k], m) BY <1>2
<1> QED BY <1>1, <1>4, <1>5 DEF Settles

\* An edit behind all others decides.
LEMMA SettlesAnew ==
    ASSUME NEW q \in Seq(Queue!Item), NEW x \in Seq(Queue!Item), NEW it, NEW last, NEW m, NEW t,
           NEW u, NEW i \in DOMAIN x, EditOf(x[i], m), x[i].text = t, x[i].update = u,
           \A k \in DOMAIN x : EditOf(x[k], m) => k = i
    PROVE  Settles(q \o x, it, last, m, t, u)
<1>1. PICK y \in Seq(Queue!Item) : y = q \o x BY Concat
<1>2. PICK n : n = Len(q) + i OBVIOUS
<1>3. n \in DOMAIN y /\ y[n] = x[i] BY <1>1, <1>2, Concat
<1>4. \A j \in DOMAIN y : j > n => ~EditOf(y[j], m)
  <2> SUFFICES ASSUME NEW j \in DOMAIN y, j > n PROVE ~EditOf(y[j], m) OBVIOUS
  <2>1. j \notin DOMAIN q BY <1>2
  <2>2. PICK k \in DOMAIN x : j = Len(q) + k BY <1>1, <2>1, Concat
  <2>3. y[j] = x[k] /\ k # i BY <1>1, <1>2, <2>2, Concat
  <2> QED BY <2>3
<1>5. ASSUME NEW j \in DOMAIN y, EditOf(y[j], m), \A k \in DOMAIN y : k > j => ~EditOf(y[k], m)
      PROVE  y[j].text = t /\ y[j].update = u
  <2>1. ~(n > j) BY <1>3, <1>5
  <2>2. ~(j > n) BY <1>4, <1>5
  <2>3. j = n BY <2>1, <2>2, <1>2
  <2> QED BY <1>3, <2>3
<1> QED BY <1>1, <1>3, <1>5 DEF Settles

LEMMA TailHas ==
    ASSUME NEW q \in Seq(Queue!Item), q # <<>>
    PROVE  /\ Tail(q) \in Seq(Queue!Item) /\ Head(q) \in Queue!Item /\ Head(q) = q[1]
           /\ 1 \in DOMAIN q
           /\ \A j \in DOMAIN Tail(q) : j + 1 \in DOMAIN q /\ Tail(q)[j] = q[j + 1]
           /\ \A j \in DOMAIN q : j = 1 \/ (j - 1 \in DOMAIN Tail(q) /\ Tail(q)[j - 1] = q[j])
OBVIOUS

\* The first item is taken, or dropped because one behind it edits the same message.
LEMMA SettlesTaken ==
    ASSUME NEW q \in Seq(Queue!Item), q # <<>>, NEW it, NEW last, NEW m, NEW t, NEW u,
           Settles(q, None, last, m, t, u),
           \/ it = Head(q)
           \/ it = None /\ (EditOf(Head(q), m) => \E i \in DOMAIN Tail(q) : EditOf(Tail(q)[i], m))
    PROVE  Settles(Tail(q), it, last, m, t, u)
<1>1. PICK y \in Seq(Queue!Item) : y = Tail(q) BY TailHas
<1>2. PICK h \in Queue!Item : h = Head(q) /\ h = q[1] BY TailHas
<1>3. \A j \in DOMAIN y : j + 1 \in DOMAIN q /\ y[j] = q[j + 1] BY <1>1, TailHas
<1>4. \A j \in DOMAIN q : j = 1 \/ (j - 1 \in DOMAIN y /\ y[j - 1] = q[j]) BY <1>1, TailHas
<1>5. ASSUME NEW j \in DOMAIN y, EditOf(y[j], m), \A k \in DOMAIN y : k > j => ~EditOf(y[k], m)
      PROVE  y[j].text = t /\ y[j].update = u
  <2>1. j + 1 \in DOMAIN q /\ EditOf(q[j + 1], m) BY <1>3, <1>5
  <2>2. ASSUME NEW k \in DOMAIN q, k > j + 1 PROVE ~EditOf(q[k], m)
    <3>1. k - 1 \in DOMAIN y /\ y[k - 1] = q[k] /\ k - 1 > j BY <1>4, <2>2
    <3> QED BY <3>1, <1>5
  <2>3. q[j + 1].text = t /\ q[j + 1].update = u BY <2>1, <2>2 DEF Settles
  <2> QED BY <2>3, <1>3
<1>6. ASSUME \A k \in DOMAIN y : ~EditOf(y[k], m)
      PROVE  IF it # None /\ EditOf(it, m) THEN it.text = t /\ it.update = u ELSE last = t
  <2>1. \A k \in DOMAIN q : k > 1 => ~EditOf(q[k], m) BY <1>4, <1>6
  <2>2. CASE EditOf(h, m)
    <3>1. it = h BY <1>1, <1>2, <1>6, <2>2
    <3>2. 1 \in DOMAIN q BY TailHas
    <3>3. h.text = t /\ h.update = u BY <1>2, <2>1, <2>2, <3>2 DEF Settles
    <3> QED BY <3>1, <3>3, <2>2, ItemHas
  <2>3. CASE ~EditOf(h, m)
    <3>1. \A k \in DOMAIN q : ~EditOf(q[k], m) BY <1>2, <2>1, <2>3
    <3>2. last = t BY <3>1 DEF Settles
    <3> QED BY <3>2, <1>2, <2>3
  <2> QED BY <2>2, <2>3
<1> QED BY <1>1, <1>5, <1>6 DEF Settles

\* The item taken has been executed.
LEMMA SettlesExecuted ==
    ASSUME NEW q, NEW it \in Queue!Item, NEW last, NEW new, NEW m, NEW t, NEW u,
           Settles(q, it, last, m, t, u), new = IF EditOf(it, m) THEN it.text ELSE last
    PROVE  Settles(q, None, new, m, t, u)
BY ItemHas DEF Settles

\* The item taken was lost, but is not of the update that matters.
LEMMA SettlesRefused ==
    ASSUME NEW q, NEW it \in Queue!Item, NEW last, NEW m, NEW t, NEW u,
           Settles(q, it, last, m, t, u), EditOf(it, m) => it.update # u
    PROVE  Settles(q, None, last, m, t, u)
BY ItemHas DEF Settles

-----------------------------------------------------------------------------

LEMMA EditsAre ==
    ASSUME StreamTypes, ChatTells, NEW s \in Streams, NEW chunks \in Queue!Bodies, NEW u \in 1..MaxUpdates
    PROVE  LET e == Queue!Edits(s, chunks, u) IN
           /\ e \in Seq(Queue!Item)
           /\ \A i \in DOMAIN e :
                /\ i \in DOMAIN messages[s] /\ i \in DOMAIN chunks
                /\ e[i].kind = "edit" /\ e[i].msg = messages[s][i] /\ e[i].text = chunks[i]
                /\ e[i].of = s /\ e[i].update = u
           /\ \A i \in DOMAIN messages[s] : i <= Len(chunks) => i \in DOMAIN e
<1>1. PICK ms \in Seq(Nat) : ms = messages[s] BY DEF StreamTypes
<1>2. \A i \in DOMAIN ms : ms[i] \in Nat \ {0}
  <2>1. \A i \in DOMAIN ms : ms[i] \in 1..sent /\ sent \in Nat BY <1>1 DEF ChatTells
  <2> QED BY <2>1
<1>3. chunks \in Seq(Texts) /\ DOMAIN chunks = 1..Len(chunks) /\ Len(chunks) \in Nat BY BodiesAre
<1>4. PICK n \in Nat : n = IF Len(chunks) < Len(ms) THEN Len(chunks) ELSE Len(ms)
  <2>1. PICK k \in Nat : k = Len(chunks) BY <1>3
  <2>2. PICK l \in Nat : l = Len(ms) OBVIOUS
  <2> QED BY <2>1, <2>2
<1>5. PICK e : e = [i \in 1..n |-> [kind |-> "edit", msg |-> ms[i], text |-> chunks[i], of |-> s,
                                    update |-> u]]
    OBVIOUS
<1>6. Queue!Edits(s, chunks, u) = e
  <2>1. Queue!Known(s) = Len(ms) BY <1>1 DEF Queue!Known
  <2> QED BY <1>1, <1>4, <1>5, <2>1 DEF Queue!Edits
<1>7. \A i \in 1..n : i \in DOMAIN ms /\ i \in DOMAIN chunks
  <2>1. PICK k \in Nat : k = Len(chunks) BY <1>3
  <2>2. PICK l \in Nat : l = Len(ms) OBVIOUS
  <2>3. n <= k /\ n <= l BY <1>4, <2>1, <2>2
  <2>4. DOMAIN chunks = 1..k /\ DOMAIN ms = 1..l BY <1>3, <2>1, <2>2
  <2> QED BY <2>3, <2>4
<1>8. \A i \in 1..n : e[i] \in Queue!Item
    BY <1>2, <1>3, <1>5, <1>7 DEF Queue!Item, Queue!Messages
<1>9. DOMAIN e = 1..n BY <1>5
<1>10. e \in Seq(Queue!Item) BY <1>5, <1>8
<1>11. \A i \in DOMAIN e : e[i].kind = "edit" /\ e[i].msg = ms[i] /\ e[i].text = chunks[i]
                           /\ e[i].of = s /\ e[i].update = u
    BY <1>5
<1>12. \A i \in DOMAIN ms : i <= Len(chunks) => i \in 1..n BY <1>4
<1> QED BY <1>1, <1>6, <1>7, <1>9, <1>10, <1>11, <1>12

\* The queue has grown by x: the items, and a send of the next chunk when there is one.
Grown(x, s, chunks, known, items) ==
    /\ queue' = queue \o x
    /\ \A i \in DOMAIN items : i \in DOMAIN x /\ x[i] = items[i]
    /\ \A i \in DOMAIN x :
        \/ i \in DOMAIN items /\ x[i] = items[i]
        \/ /\ i = Len(items) + 1 /\ caller'[s] = "sending"
           /\ x[i].kind = "send" /\ x[i].of = s /\ x[i].update = updates'[s]
           /\ x[i].text = chunks[known + 1]

\* What GoesOn queues.
LEMMA GoesOnQueues ==
    ASSUME queue \in Seq(Queue!Item), caller \in [Streams -> CallerStates],
           NEW s \in Streams, NEW chunks \in Queue!Bodies \cup {<<>>}, NEW known \in Nat,
           NEW items \in Seq(Queue!Item), updates'[s] \in 1..MaxUpdates,
           Queue!GoesOn(s, chunks, known, items)
    PROVE  \E x \in Seq(Queue!Item) : Grown(x, s, chunks, known, items)
<1>0. chunks \in Seq(Texts) /\ DOMAIN chunks = 1..Len(chunks) /\ Len(chunks) \in Nat BY BodiesAre
<1>1. CASE known < Len(chunks)
  <2>1. PICK e : e = Queue!Send(s, chunks[known + 1], updates'[s]) OBVIOUS
  <2>2. chunks[known + 1] \in Texts BY <1>0, <1>1
  <2>3. e \in Queue!Item /\ e.kind = "send" /\ e.of = s /\ e.update = updates'[s]
        /\ e.text = chunks[known + 1]
      BY <2>1, <2>2 DEF Queue!Send, Queue!Item
  <2>4. PICK x : x = items \o <<e>> OBVIOUS
  <2>5. queue' = queue \o items \o <<e>> /\ caller' = [caller EXCEPT ![s] = "sending"]
      BY <1>1, <2>1 DEF Queue!GoesOn
  <2>6. x \in Seq(Queue!Item) /\ queue' = queue \o x BY <2>3, <2>4, <2>5
  <2>7. \A i \in DOMAIN items : i \in DOMAIN x /\ x[i] = items[i] BY <2>3, <2>4, Concat
  <2>8. \A i \in DOMAIN x : i \in DOMAIN items \/ (i = Len(items) + 1 /\ x[i] = e)
      BY <2>3, <2>4
  <2>9. caller' \in [Streams -> CallerStates] /\ caller'[s] = "sending"
        /\ \A r \in Streams : r # s => caller'[r] = caller[r]
      BY <2>5 DEF CallerStates
  <2>10. \A i \in DOMAIN x :
            \/ i \in DOMAIN items /\ x[i] = items[i]
            \/ /\ i = Len(items) + 1 /\ caller'[s] = "sending"
               /\ x[i].kind = "send" /\ x[i].of = s /\ x[i].update = updates'[s]
               /\ x[i].text = chunks[known + 1]
      BY <2>3, <2>7, <2>8, <2>9
  <2> QED BY <2>6, <2>7, <2>10 DEF Grown
<1>2. CASE ~(known < Len(chunks))
  <2>1. queue' = queue \o items BY <1>2 DEF Queue!GoesOn
  <2> QED BY <2>1 DEF Grown
<1> QED BY <1>1, <1>2

\* What becomes of the stream's caller.
LEMMA GoesOnHas ==
    ASSUME queue \in Seq(Queue!Item), caller \in [Streams -> CallerStates],
           NEW s \in Streams, NEW chunks \in Queue!Bodies \cup {<<>>}, NEW known \in Nat,
           NEW items \in Seq(Queue!Item), updates'[s] \in 1..MaxUpdates,
           Queue!GoesOn(s, chunks, known, items)
    PROVE  /\ caller' \in [Streams -> CallerStates]
           /\ \A r \in Streams : r # s => caller'[r] = caller[r]
           /\ caller'[s] = "sending" => known < Len(chunks)
           /\ caller'[s] = "deleting" => known > Len(chunks)
           /\ caller'[s] = "idle" => known = Len(chunks)
           /\ caller'[s] # "cancelled"
<1>0. chunks \in Seq(Texts) /\ DOMAIN chunks = 1..Len(chunks) /\ Len(chunks) \in Nat BY BodiesAre
<1>1. CASE known < Len(chunks)
  <2>1. caller' = [caller EXCEPT ![s] = "sending"] BY <1>1 DEF Queue!GoesOn
  <2>2. caller' \in [Streams -> CallerStates] /\ caller'[s] = "sending"
        /\ \A r \in Streams : r # s => caller'[r] = caller[r]
      BY <2>1 DEF CallerStates
  <2> QED BY <1>1, <2>2
<1>2. CASE ~(known < Len(chunks))
  <2>1. queue' = queue \o items
        /\ caller' = [caller EXCEPT ![s] = IF known > Len(chunks) THEN "deleting" ELSE "idle"]
      BY <1>2 DEF Queue!GoesOn
  <2>2. caller' \in [Streams -> CallerStates]
        /\ caller'[s] = (IF known > Len(chunks) THEN "deleting" ELSE "idle")
        /\ \A r \in Streams : r # s => caller'[r] = caller[r]
      BY <2>1 DEF CallerStates
  <2>3. known > Len(chunks) \/ known = Len(chunks)
    <3>1. PICK k \in Nat : k = Len(chunks) BY <1>0
    <3> QED BY <1>2, <3>1
  <2> QED BY <1>2, <2>1, <2>2, <2>3
<1> QED BY <1>1, <1>2

LEMMA RunningIs ==
    ASSUME WorkerTypes, worker' = Queue!Running, item' = item
    PROVE  \/ worker' \in {"none", "ready", "dead"} /\ item' = None
           \/ worker' \in {"waiting", "flooded"} /\ item' \in Queue!Item
BY DEF WorkerTypes, Queue!Running

LEMMA UpdateHas ==
    ASSUME NEW s \in Streams, Queue!Update(s)
    PROVE  /\ caller[s] = "idle" /\ updates[s] < MaxUpdates
           /\ updates' = [updates EXCEPT ![s] = @ + 1]
           /\ \E chunks \in Queue!Bodies :
                /\ bodies' = [bodies EXCEPT ![s] = chunks]
                /\ Queue!GoesOn(s, chunks, Queue!Known(s), Queue!Edits(s, chunks, updates'[s]))
           /\ worker' = Queue!Running
           /\ UNCHANGED <<item, messages, lastEdit, broken, chat, sent, errors>>
BY DEF Queue!Update

LEMMA OrderConcat ==
    ASSUME NEW q \in Seq(Queue!Item), NEW x \in Seq(Queue!Item),
           \A j, k \in DOMAIN q : j < k => Follows(q[j], q[k]),
           \A j, k \in DOMAIN x : j < k => Follows(x[j], x[k]),
           \A j \in DOMAIN q, k \in DOMAIN x : Follows(q[j], x[k])
    PROVE  \A j, k \in DOMAIN (q \o x) : j < k => Follows((q \o x)[j], (q \o x)[k])
<1>1. PICK y \in Seq(Queue!Item) : y = q \o x BY Concat
<1>2. \A j \in DOMAIN q : j \in DOMAIN y /\ y[j] = q[j] BY <1>1, Concat
<1>3. \A i \in DOMAIN x : Len(q) + i \in DOMAIN y /\ y[Len(q) + i] = x[i] BY <1>1, Concat
<1>4. \A j \in DOMAIN y : j \in DOMAIN q \/ (\E i \in DOMAIN x : j = Len(q) + i) BY <1>1, Concat
<1>5. ASSUME NEW j \in DOMAIN y, NEW k \in DOMAIN y, j < k PROVE Follows(y[j], y[k])
  <2>1. CASE k \in DOMAIN q
    <3>1. j \in DOMAIN q BY <1>5, <2>1
    <3> QED BY <1>2, <1>5, <2>1, <3>1
  <2>2. CASE k \notin DOMAIN q
    <3>1. PICK b \in DOMAIN x : k = Len(q) + b BY <1>4, <2>2
    <3>2. y[k] = x[b] BY <1>3, <3>1
    <3>3. CASE j \in DOMAIN q BY <1>2, <3>2, <3>3
    <3>4. CASE j \notin DOMAIN q
      <4>1. PICK a \in DOMAIN x : j = Len(q) + a BY <1>4, <3>4
      <4>2. y[j] = x[a] /\ a < b BY <1>3, <1>5, <3>1, <4>1
      <4> QED BY <3>2, <4>2
    <3> QED BY <3>3, <3>4
  <2> QED BY <2>1, <2>2
<1> QED BY <1>1, <1>5

\* What the invariant says of the items, each taken as a value.
LEMMA ItemsAre ==
    ASSUME QueueInv
    PROVE  /\ \A j \in DOMAIN queue : queue[j] \in Queue!Item /\ Fits(queue[j])
           /\ item # None => item \in Queue!Item /\ Fits(item)
BY DEF QueueInv, WorkerTypes, ItemsFit

LEMMA SayStep ==
    ASSUME QueueInv, NEW s \in Streams, Queue!Update(s)
    PROVE  QueueInv'
<1>1. /\ caller[s] = "idle" /\ updates[s] < MaxUpdates
      /\ updates' = [updates EXCEPT ![s] = @ + 1]
      /\ worker' = Queue!Running
      /\ UNCHANGED <<item, messages, lastEdit, broken, chat, sent, errors>>
    BY UpdateHas
<1>2. PICK chunks \in Queue!Bodies :
        /\ bodies' = [bodies EXCEPT ![s] = chunks]
        /\ Queue!GoesOn(s, chunks, Queue!Known(s), Queue!Edits(s, chunks, updates'[s]))
    BY UpdateHas
<1>3. WorkerTypes /\ StreamTypes /\ ChatTells /\ ItemsFit /\ ItemsInOrder /\ CallersAt /\ TextsComing
    BY DEF QueueInv
<1>4. PICK u \in 1..MaxUpdates : u = updates[s] + 1
    BY <1>1, <1>3, QueueAssumption DEF StreamTypes
<1>5. updates'[s] = u /\ (\A r \in Streams : r # s => updates'[r] = updates[r])
      /\ updates' \in [Streams -> 0..MaxUpdates]
    BY <1>1, <1>3, <1>4 DEF StreamTypes
<1>6. bodies'[s] = chunks /\ (\A r \in Streams : r # s => bodies'[r] = bodies[r])
      /\ bodies' \in [Streams -> Queue!Bodies \cup {<<>>}]
    BY <1>2, <1>3 DEF StreamTypes
<1>7. PICK e \in Seq(Queue!Item) : e = Queue!Edits(s, chunks, u) BY <1>3, EditsAre
<1>8. /\ \A i \in DOMAIN e :
            /\ i \in DOMAIN messages[s] /\ i \in DOMAIN chunks
            /\ e[i].kind = "edit" /\ e[i].msg = messages[s][i] /\ e[i].text = chunks[i]
            /\ e[i].of = s /\ e[i].update = u
      /\ \A i \in DOMAIN messages[s] : i <= Len(chunks) => i \in DOMAIN e
    BY <1>3, <1>7, EditsAre
<1>9. PICK known \in Nat : known = Len(messages[s]) BY <1>3 DEF StreamTypes
<1>10. Queue!GoesOn(s, chunks, known, e) BY <1>2, <1>5, <1>7, <1>9 DEF Queue!Known
<1>11. queue \in Seq(Queue!Item) /\ caller \in [Streams -> CallerStates] /\ updates'[s] \in 1..MaxUpdates
    BY <1>3, <1>5 DEF WorkerTypes, StreamTypes
<1>12. PICK x \in Seq(Queue!Item) :
        /\ queue' = queue \o x
        /\ \A i \in DOMAIN e : i \in DOMAIN x /\ x[i] = e[i]
        /\ \A i \in DOMAIN x :
            \/ i \in DOMAIN e /\ x[i] = e[i]
            \/ /\ i = Len(e) + 1 /\ caller'[s] = "sending"
               /\ x[i].kind = "send" /\ x[i].of = s /\ x[i].update = updates'[s]
               /\ x[i].text = chunks[known + 1]
  <2>1. \E x \in Seq(Queue!Item) : Grown(x, s, chunks, known, e) BY <1>10, <1>11, GoesOnQueues
  <2> QED BY <2>1 DEF Grown
<1>13. /\ caller' \in [Streams -> CallerStates]
       /\ \A r \in Streams : r # s => caller'[r] = caller[r]
       /\ caller'[s] = "sending" => known < Len(chunks)
       /\ caller'[s] = "deleting" => known > Len(chunks)
       /\ caller'[s] = "idle" => known = Len(chunks)
       /\ caller'[s] # "cancelled"
    BY <1>10, <1>11, GoesOnHas
<1>14. \A r \in Streams : updates[r] \in 0..MaxUpdates /\ broken[r] \in 0..MaxUpdates /\ broken[r] <= updates[r]
    BY <1>3 DEF StreamTypes
<1>15. ASSUME NEW o \in Queue!Item, Fits(o) PROVE Fits(o)' /\ (o.of = s => o.update < u)
  <2>1. o.of \in Streams /\ o.update \in 1..MaxUpdates BY ItemHas
  <2>2. o.kind = "send" => o.of # s BY <1>1, <1>15 DEF Fits
  <2>3. o.of = s => o.update < u BY <1>4, <1>14, <1>15, <2>1 DEF Fits
  <2>4. broken'[o.of] <= o.update /\ o.update <= updates'[o.of]
    <3>1. CASE o.of = s BY <1>1, <1>4, <1>5, <1>15, <2>1, <2>3, <3>1 DEF Fits
    <3>2. CASE o.of # s BY <1>1, <1>5, <1>15, <2>1, <3>2 DEF Fits
    <3> QED BY <3>1, <3>2
  <2>5. Fits(o)' BY <1>1, <1>5, <1>6, <1>13, <1>15, <2>1, <2>2, <2>4 DEF Fits
  <2> QED BY <2>3, <2>5
<1>16. \A i \in DOMAIN x : x[i] \in Queue!Item /\ x[i].of = s /\ x[i].update = u BY <1>5, <1>8, <1>12
<1>17. ASSUME NEW i \in DOMAIN x, NEW o \in Queue!Item, o = x[i] PROVE Fits(o)'
  <2>1. o.of = s /\ o.update = u BY <1>16, <1>17
  <2>2. broken'[s] <= u /\ u <= updates'[s] BY <1>1, <1>4, <1>5, <1>14
  <2>3. CASE i \in DOMAIN e /\ x[i] = e[i]
    <3>1. i \in DOMAIN messages[s] /\ o.kind = "edit" /\ o.msg = messages[s][i] BY <1>8, <1>17, <2>3
    <3>2. o.msg <= sent BY <1>3, <3>1 DEF ChatTells
    <3>3. \A r \in Streams : \A k \in DOMAIN messages[r] : messages[r][k] = o.msg => r = s
        BY <1>3, <3>1 DEF ChatTells
    <3> QED BY <1>1, <2>1, <2>2, <3>1, <3>2, <3>3 DEF Fits
  <2>4. CASE ~(i \in DOMAIN e /\ x[i] = e[i])
    <3>1. o.kind = "send" /\ caller'[s] = "sending" /\ o.text = chunks[known + 1] BY <1>12, <1>17, <2>4
    <3> QED BY <1>1, <1>5, <1>6, <1>9, <2>1, <2>2, <3>1 DEF Fits
  <2> QED BY <2>3, <2>4
<1>18. WorkerTypes'
  <2>1. queue' \in Seq(Queue!Item) BY <1>11, <1>12, Concat
  <2> QED BY <1>1, <1>3, <2>1, RunningIs DEF WorkerTypes
<1>19. StreamTypes'
  <2>1. \A r \in Streams : broken'[r] <= updates'[r]
    <3> SUFFICES ASSUME NEW r \in Streams PROVE broken'[r] <= updates'[r] OBVIOUS
    <3>1. CASE r = s BY <1>1, <1>4, <1>5, <1>14, <3>1
    <3>2. CASE r # s BY <1>1, <1>5, <1>14, <3>2
    <3> QED BY <3>1, <3>2
  <2> QED BY <1>1, <1>3, <1>5, <1>6, <1>13, <2>1 DEF StreamTypes
<1>20. ChatTells' BY <1>1, <1>3 DEF ChatTells
<1>21. ItemsFit'
  <2>1. ASSUME NEW j \in DOMAIN queue' PROVE \E o \in Queue!Item : o = queue'[j] /\ Fits(o)'
    <3>1. CASE j \in DOMAIN queue
      <4>1. queue'[j] = queue[j] BY <1>11, <1>12, <3>1, Concat
      <4>2. queue[j] \in Queue!Item /\ Fits(queue[j]) BY <3>1, ItemsAre
      <4>3. PICK o \in Queue!Item : o = queue[j] BY <4>2
      <4> QED BY <1>15, <4>1, <4>2, <4>3
    <3>2. CASE j \notin DOMAIN queue
      <4>1. PICK i \in DOMAIN x : j = Len(queue) + i BY <1>11, <1>12, <3>2, Concat
      <4>2. queue'[j] = x[i] BY <1>11, <1>12, <4>1, Concat
      <4> QED BY <1>16, <1>17, <4>2
    <3> QED BY <3>1, <3>2
  <2>2. ASSUME item # None PROVE Fits(item)'
    <3>1. PICK o \in Queue!Item : o = item /\ Fits(o) BY <2>2, ItemsAre
    <3>2. Fits(o)' BY <1>15, <3>1
    <3> QED BY <1>1, <3>1, <3>2 DEF Fits
  <2> QED BY <1>1, <2>1, <2>2 DEF ItemsFit, Fits
<1>22. ItemsInOrder'
  <2>1. \A j, k \in DOMAIN x : j < k => Follows(x[j], x[k])
    <3> SUFFICES ASSUME NEW j \in DOMAIN x, NEW k \in DOMAIN x, j < k PROVE Follows(x[j], x[k])
        OBVIOUS
    <3>1. ~(x[j].kind = "send" /\ x[k].kind = "send") BY <1>8, <1>12
    <3>2. x[j].update <= x[k].update BY <1>16
    <3> QED BY <3>1, <3>2 DEF Follows
  <2>2. ASSUME NEW o \in Queue!Item, Fits(o), NEW k \in DOMAIN x PROVE Follows(o, x[k])
    <3>1. o.of = s => o.kind # "send" BY <1>1, <2>2 DEF Fits
    <3>2. o.of = s => o.update < u /\ o.update \in 1..MaxUpdates BY <1>15, <2>2, ItemHas
    <3> QED BY <1>16, <3>1, <3>2 DEF Follows
  <2>3. \A j \in DOMAIN queue, k \in DOMAIN x : Follows(queue[j], x[k]) BY <2>2, ItemsAre
  <2>4. \A j, k \in DOMAIN queue' : j < k => Follows(queue'[j], queue'[k])
      BY <1>3, <1>11, <1>12, <2>1, <2>3, OrderConcat DEF ItemsInOrder
  <2>5. ASSUME item # None, NEW k \in DOMAIN queue' PROVE Follows(item, queue'[k])
    <3>1. CASE k \in DOMAIN queue
      <4>1. queue'[k] = queue[k] BY <1>11, <1>12, <3>1, Concat
      <4> QED BY <1>3, <2>5, <3>1, <4>1 DEF ItemsInOrder
    <3>2. CASE k \notin DOMAIN queue
      <4>1. PICK i \in DOMAIN x : k = Len(queue) + i BY <1>11, <1>12, <3>2, Concat
      <4>2. queue'[k] = x[i] BY <1>11, <1>12, <4>1, Concat
      <4> QED BY <2>2, <2>5, <4>2, ItemsAre
    <3> QED BY <3>1, <3>2
  <2> QED BY <1>1, <2>4, <2>5 DEF ItemsInOrder
<1>23. CallersAt'
  <2> SUFFICES ASSUME NEW r \in Streams
               PROVE  /\ caller'[r] = "idle" /\ broken'[r] < updates'[r] => Len(messages'[r]) = Len(bodies'[r])
                      /\ caller'[r] = "sending" => Len(messages'[r]) < Len(bodies'[r])
                      /\ caller'[r] = "deleting" => Len(messages'[r]) > Len(bodies'[r])
      BY DEF CallersAt
  <2>1. CASE r = s BY <1>1, <1>6, <1>9, <1>13, <2>1
  <2>2. CASE r # s BY <1>1, <1>3, <1>5, <1>6, <1>13, <2>2 DEF CallersAt
  <2> QED BY <2>1, <2>2
<1>24. TextsComing'
  <2> SUFFICES ASSUME NEW r \in Streams, broken'[r] < updates'[r], NEW i \in DOMAIN messages'[r],
                      i <= Len(bodies'[r])
               PROVE  Settles(queue', item', lastEdit'[messages'[r][i]], messages'[r][i],
                              bodies'[r][i], updates'[r])
      BY DEF TextsComing
  <2>1. PICK m : m = messages[r][i] OBVIOUS
  <2>2. PICK t : t = bodies'[r][i] OBVIOUS
  <2>3. PICK last : last = lastEdit[m] OBVIOUS
  <2>4. i \in DOMAIN messages[r] BY <1>1
  <2>5. CASE r = s
    <3>1. i \in DOMAIN e BY <1>6, <1>8, <2>4, <2>5
    <3>2. i \in DOMAIN x /\ EditOf(x[i], m) /\ x[i].text = t /\ x[i].update = u
        BY <1>6, <1>8, <1>12, <2>1, <2>2, <2>5, <3>1 DEF EditOf
    <3>3. \A k \in DOMAIN x : EditOf(x[k], m) => k = i
      <4> SUFFICES ASSUME NEW k \in DOMAIN x, EditOf(x[k], m) PROVE k = i OBVIOUS
      <4>1. k \in DOMAIN e /\ x[k] = e[k] BY <1>12 DEF EditOf
      <4>2. k \in DOMAIN messages[s] /\ messages[s][k] = messages[s][i]
          BY <1>8, <2>1, <2>5, <4>1 DEF EditOf
      <4> QED BY <1>3, <2>4, <2>5, <4>2 DEF ChatTells
    <3>4. Settles(queue \o x, item, last, m, t, u) BY <1>11, <3>2, <3>3, SettlesAnew
    <3> QED BY <1>1, <1>5, <1>12, <2>1, <2>2, <2>3, <2>5, <3>4
  <2>6. CASE r # s
    <3>1. broken[r] < updates[r] /\ i <= Len(bodies[r]) /\ t = bodies[r][i] /\ updates'[r] = updates[r]
        BY <1>1, <1>5, <1>6, <2>2, <2>6
    <3>2. Settles(queue, item, last, m, t, updates[r])
        BY <1>3, <2>1, <2>3, <2>4, <3>1 DEF TextsComing
    <3>3. \A k \in DOMAIN x : ~EditOf(x[k], m)
      <4> SUFFICES ASSUME NEW k \in DOMAIN x, EditOf(x[k], m) PROVE FALSE OBVIOUS
      <4>1. k \in DOMAIN e /\ x[k] = e[k] BY <1>12 DEF EditOf
      <4>2. k \in DOMAIN messages[s] /\ messages[s][k] = messages[r][i]
          BY <1>8, <2>1, <4>1 DEF EditOf
      <4> QED BY <1>3, <2>4, <2>6, <4>2 DEF ChatTells
    <3>4. PICK v : v = updates[r] OBVIOUS
    <3>5. Settles(queue \o x, item, last, m, t, v) BY <1>11, <3>2, <3>3, <3>4, SettlesBesides
    <3> QED BY <1>1, <1>12, <2>1, <2>2, <2>3, <3>1, <3>4, <3>5
  <2> QED BY <2>5, <2>6
<1> QED BY <1>18, <1>19, <1>20, <1>21, <1>22, <1>23, <1>24 DEF QueueInv

LEMMA FrontHas ==
    ASSUME NEW q \in Seq(Nat), q # <<>>
    PROVE  /\ Queue!Front(q) \in Seq(Nat) /\ Len(Queue!Front(q)) = Len(q) - 1
           /\ \A i \in DOMAIN Queue!Front(q) :
                i \in DOMAIN q /\ Queue!Front(q)[i] = q[i] /\ i # Len(q)
           /\ Queue!Last(q) = q[Len(q)] /\ Len(q) \in DOMAIN q
<1>1. PICK n \in Nat : n = Len(q) - 1 /\ n + 1 = Len(q) OBVIOUS
<1>2. PICK f : f = Queue!Front(q) OBVIOUS
<1>3. f = SubSeq(q, 1, n) BY <1>1, <1>2 DEF Queue!Front
<1>4. f \in Seq(Nat) /\ Len(f) = n /\ \A i \in 1..n : f[i] = q[i] BY <1>1, <1>3
<1>5. DOMAIN f = 1..n /\ DOMAIN q = 1..(n + 1) BY <1>1, <1>4
<1>6. Queue!Last(q) = q[Len(q)] BY DEF Queue!Last
<1> QED BY <1>1, <1>2, <1>4, <1>5, <1>6

LEMMA AppendHas ==
    ASSUME NEW q \in Seq(Nat), NEW v \in Nat
    PROVE  /\ Len(Append(q, v)) = Len(q) + 1
           /\ \A i \in DOMAIN Append(q, v) :
                \/ i \in DOMAIN q /\ Append(q, v)[i] = q[i]
                \/ i = Len(q) + 1 /\ Append(q, v)[i] = v
<1>1. Len(Append(q, v)) = Len(q) + 1 OBVIOUS
<1>2. ASSUME NEW i \in DOMAIN Append(q, v)
      PROVE  \/ i \in DOMAIN q /\ Append(q, v)[i] = q[i]
             \/ i = Len(q) + 1 /\ Append(q, v)[i] = v
  OBVIOUS
<1> QED BY <1>1, <1>2

LEMMA OrderStill ==
    ASSUME QueueInv, queue' = queue, item' = item \/ item' = None
    PROVE  ItemsInOrder'
<1>1. ItemsInOrder BY DEF QueueInv
<1>2. CASE item' = item BY <1>1, <1>2 DEF ItemsInOrder
<1>3. CASE item' = None BY <1>1, <1>3 DEF ItemsInOrder
<1> QED BY <1>2, <1>3

LEMMA DeleteSurplusStep ==
    ASSUME QueueInv, NEW s \in Streams, Queue!DeleteSurplus(s)
    PROVE  QueueInv'
<1>1. /\ caller[s] = "deleting"
      /\ messages' = [messages EXCEPT ![s] = Queue!Front(@)]
      /\ caller' = [caller EXCEPT ![s] = IF Queue!Known(s) - 1 > Len(bodies[s]) THEN @ ELSE "idle"]
      /\ UNCHANGED <<queue, worker, item, bodies, updates, lastEdit, broken, sent>>
    BY DEF Queue!DeleteSurplus, Queue!queueVars
<1>2. \/ chat' = [m \in DOMAIN chat \ {Queue!Last(messages[s])} |-> chat[m]] /\ errors' = errors
      \/ errors < MaxErrors /\ errors' = errors + 1 /\ chat' = chat
    BY DEF Queue!DeleteSurplus
<1>3. WorkerTypes /\ StreamTypes /\ ChatTells /\ ItemsFit /\ ItemsInOrder /\ CallersAt /\ TextsComing
    BY DEF QueueInv
<1>4. PICK ms \in Seq(Nat) : ms = messages[s] BY <1>3 DEF StreamTypes
<1>5. PICK nb \in Nat : nb = Len(bodies[s]) BY <1>3, BodiesAre DEF StreamTypes
<1>6. PICK nm \in Nat : nm = Len(ms) BY <1>4
<1>7. nm > nb /\ ms # <<>> BY <1>1, <1>3, <1>4, <1>5, <1>6 DEF CallersAt
<1>8. /\ Queue!Front(ms) \in Seq(Nat) /\ Len(Queue!Front(ms)) = Len(ms) - 1
      /\ \A i \in DOMAIN Queue!Front(ms) : i \in DOMAIN ms /\ Queue!Front(ms)[i] = ms[i] /\ i # Len(ms)
      /\ Queue!Last(ms) = ms[Len(ms)] /\ Len(ms) \in DOMAIN ms
    BY <1>7, FrontHas
<1>9. messages' \in [Streams -> Seq(Nat)] /\ messages'[s] = Queue!Front(ms)
      /\ \A r \in Streams : r # s => messages'[r] = messages[r]
    BY <1>1, <1>3, <1>4, <1>8 DEF StreamTypes
<1>10. \A r \in Streams : \A i \in DOMAIN messages'[r] :
            /\ i \in DOMAIN messages[r] /\ messages'[r][i] = messages[r][i]
            /\ messages[r][i] # ms[Len(ms)]
  <2> SUFFICES ASSUME NEW r \in Streams, NEW i \in DOMAIN messages'[r]
               PROVE  /\ i \in DOMAIN messages[r] /\ messages'[r][i] = messages[r][i]
                      /\ messages[r][i] # ms[Len(ms)]
      OBVIOUS
  <2>1. i \in DOMAIN messages[r] /\ messages'[r][i] = messages[r][i] /\ (r = s => i # Len(ms))
      BY <1>4, <1>8, <1>9
  <2> QED BY <1>3, <1>4, <1>8, <2>1 DEF ChatTells
<1>11. caller' \in [Streams -> CallerStates]
       /\ caller'[s] = (IF nm - 1 > nb THEN "deleting" ELSE "idle")
       /\ \A r \in Streams : r # s => caller'[r] = caller[r]
    BY <1>1, <1>3, <1>4, <1>5, <1>6 DEF StreamTypes, CallerStates, Queue!Known
<1>12. WorkerTypes' BY <1>1, <1>2, <1>3, QueueAssumption DEF WorkerTypes
<1>13. StreamTypes' BY <1>1, <1>3, <1>9, <1>11 DEF StreamTypes
<1>14. ChatTells'
  <2>1. DOMAIN chat' \subseteq DOMAIN chat /\ \A m \in DOMAIN chat' : chat'[m] = chat[m] BY <1>2
  <2>2. \A m \in DOMAIN chat : m # ms[Len(ms)] => m \in DOMAIN chat' BY <1>2, <1>4, <1>8
  <2>3. \A r \in Streams : \A i \in DOMAIN messages'[r] : messages'[r][i] \in DOMAIN chat'
      BY <1>3, <1>10, <2>2 DEF ChatTells
  <2>4. \A r, p \in Streams : \A i \in DOMAIN messages'[r], j \in DOMAIN messages'[p] :
            messages'[r][i] = messages'[p][j] => r = p /\ i = j
      BY <1>3, <1>10 DEF ChatTells
  <2> QED BY <1>1, <1>3, <2>1, <2>3, <2>4 DEF ChatTells
<1>15. ItemsFit'
  <2>1. ASSUME NEW o \in Queue!Item, Fits(o) PROVE Fits(o)'
    <3>1. o.of \in Streams BY ItemHas
    <3>2. o.kind = "send" => o.of # s BY <1>1, <2>1 DEF Fits
    <3>3. o.kind = "send" => caller'[o.of] = caller[o.of] /\ messages'[o.of] = messages[o.of]
        BY <1>9, <1>11, <3>1, <3>2
    <3>4. \A r \in Streams : \A i \in DOMAIN messages'[r] :
                i \in DOMAIN messages[r] /\ messages'[r][i] = messages[r][i]
        BY <1>10
    <3> QED BY <1>1, <2>1, <3>3, <3>4 DEF Fits
  <2>2. ASSUME NEW j \in DOMAIN queue PROVE Fits(queue[j])'
    <3>1. PICK o \in Queue!Item : o = queue[j] /\ Fits(o) BY ItemsAre
    <3> QED BY <1>1, <2>1, <3>1 DEF Fits
  <2>3. ASSUME item # None PROVE Fits(item)'
    <3>1. PICK o \in Queue!Item : o = item /\ Fits(o) BY <2>3, ItemsAre
    <3> QED BY <1>1, <2>1, <3>1 DEF Fits
  <2> QED BY <1>1, <2>2, <2>3 DEF ItemsFit, Fits
<1>16. ItemsInOrder' BY <1>1, OrderStill
<1>17. CallersAt'
  <2> SUFFICES ASSUME NEW r \in Streams
               PROVE  /\ caller'[r] = "idle" /\ broken'[r] < updates'[r] => Len(messages'[r]) = Len(bodies'[r])
                      /\ caller'[r] = "sending" => Len(messages'[r]) < Len(bodies'[r])
                      /\ caller'[r] = "deleting" => Len(messages'[r]) > Len(bodies'[r])
      BY DEF CallersAt
  <2>1. CASE r = s
    <3>1. Len(messages'[s]) = nm - 1 /\ Len(bodies'[s]) = nb BY <1>1, <1>5, <1>6, <1>8, <1>9
    <3>2. caller'[s] # "sending" BY <1>11
    <3>3. caller'[s] = "deleting" => nm - 1 > nb BY <1>11
    <3>4. caller'[s] = "idle" => nm - 1 = nb BY <1>7, <1>11
    <3> QED BY <2>1, <3>1, <3>2, <3>3, <3>4
  <2>2. CASE r # s BY <1>1, <1>3, <1>9, <1>11, <2>2 DEF CallersAt
  <2> QED BY <2>1, <2>2
<1>18. TextsComing' BY <1>1, <1>3, <1>10 DEF TextsComing
<1> QED BY <1>12, <1>13, <1>14, <1>15, <1>16, <1>17, <1>18 DEF QueueInv

LEMMA CancelStep ==
    ASSUME QueueInv, NEW s \in Streams, Queue!Cancel(s)
    PROVE  QueueInv'
<1>1. /\ caller[s] = "sending" /\ errors < MaxErrors /\ errors' = errors + 1
      /\ caller' = [caller EXCEPT ![s] = "cancelled"]
      /\ UNCHANGED <<queue, worker, item, messages, bodies, updates, lastEdit, broken, chat, sent>>
    BY DEF Queue!Cancel, Queue!queueVars
<1>2. WorkerTypes /\ StreamTypes /\ ChatTells /\ ItemsFit /\ ItemsInOrder /\ CallersAt /\ TextsComing
    BY DEF QueueInv
<1>3. caller' \in [Streams -> CallerStates] /\ caller'[s] = "cancelled"
      /\ \A r \in Streams : r # s => caller'[r] = caller[r]
    BY <1>1, <1>2 DEF StreamTypes, CallerStates
<1>4. WorkerTypes' BY <1>1, <1>2, QueueAssumption DEF WorkerTypes
<1>5. StreamTypes' BY <1>1, <1>2, <1>3 DEF StreamTypes
<1>6. ChatTells' BY <1>1, <1>2 DEF ChatTells
<1>7. ItemsFit'
  <2>1. ASSUME NEW o \in Queue!Item, Fits(o) PROVE Fits(o)'
    <3>1. o.of \in Streams BY ItemHas
    <3> QED BY <1>1, <1>3, <2>1, <3>1 DEF Fits
  <2>2. ASSUME NEW j \in DOMAIN queue PROVE Fits(queue[j])'
    <3>1. PICK o \in Queue!Item : o = queue[j] /\ Fits(o) BY ItemsAre
    <3> QED BY <1>1, <2>1, <3>1 DEF Fits
  <2>3. ASSUME item # None PROVE Fits(item)'
    <3>1. PICK o \in Queue!Item : o = item /\ Fits(o) BY <2>3, ItemsAre
    <3> QED BY <1>1, <2>1, <3>1 DEF Fits
  <2> QED BY <1>1, <2>2, <2>3 DEF ItemsFit, Fits
<1>8. ItemsInOrder' BY <1>1, OrderStill
<1>9. CallersAt' BY <1>1, <1>2, <1>3 DEF CallersAt
<1>10. TextsComing' BY <1>1, <1>2 DEF TextsComing
<1> QED BY <1>4, <1>5, <1>6, <1>7, <1>8, <1>9, <1>10 DEF QueueInv

LEMMA TakeStep ==
    ASSUME QueueInv, Queue!Take
    PROVE  QueueInv'
<1>1. /\ worker = "ready" /\ queue # <<>> /\ queue' = Tail(queue)
      /\ UNCHANGED <<messages, caller, bodies, updates, lastEdit, broken, chat, sent, errors>>
    BY DEF Queue!Take, Queue!streamVars
<1>2. \/ Queue!Overtaken(Head(queue), Tail(queue)) /\ worker' = worker /\ item' = item
      \/ worker' = "waiting" /\ item' = Head(queue)
    BY DEF Queue!Take
<1>3. WorkerTypes /\ StreamTypes /\ ChatTells /\ ItemsFit /\ ItemsInOrder /\ CallersAt /\ TextsComing
    BY DEF QueueInv
<1>4. queue \in Seq(Queue!Item) /\ item = None BY <1>1, <1>3 DEF WorkerTypes
<1>5. /\ queue' \in Seq(Queue!Item) /\ Head(queue) \in Queue!Item /\ Head(queue) = queue[1]
      /\ 1 \in DOMAIN queue
      /\ \A j \in DOMAIN queue' : j + 1 \in DOMAIN queue /\ queue'[j] = queue[j + 1]
    BY <1>1, <1>4, TailHas
<1>6. item' = None \/ (item' = Head(queue) /\ item' \in Queue!Item) BY <1>2, <1>4, <1>5
<1>7. WorkerTypes' BY <1>1, <1>2, <1>3, <1>4, <1>5 DEF WorkerTypes
<1>8. StreamTypes' BY <1>1, <1>3 DEF StreamTypes
<1>9. ChatTells' BY <1>1, <1>3 DEF ChatTells
<1>10. ItemsFit'
  <2>1. ASSUME NEW o \in Queue!Item, Fits(o) PROVE Fits(o)' BY <1>1, <2>1 DEF Fits
  <2>2. ASSUME NEW j \in DOMAIN queue' PROVE \E o \in Queue!Item : o = queue'[j] /\ Fits(o)'
    <3>1. PICK o \in Queue!Item : o = queue[j + 1] /\ Fits(o) BY <1>5, ItemsAre
    <3> QED BY <1>5, <2>1, <3>1
  <2>3. ASSUME item' # None PROVE \E o \in Queue!Item : o = item' /\ Fits(o)'
    <3>1. PICK o \in Queue!Item : o = queue[1] /\ Fits(o) BY <1>5, ItemsAre
    <3> QED BY <1>5, <1>6, <2>1, <2>3, <3>1
  <2> QED BY <2>2, <2>3 DEF ItemsFit, Fits
<1>11. ItemsInOrder'
  <2>1. \A j \in DOMAIN queue' : j \in Int BY <1>5
  <2>2. \A j, k \in DOMAIN queue' : j < k => Follows(queue'[j], queue'[k])
    <3> SUFFICES ASSUME NEW j \in DOMAIN queue', NEW k \in DOMAIN queue', j < k
                 PROVE  Follows(queue'[j], queue'[k])
        OBVIOUS
    <3>1. j + 1 < k + 1 BY <2>1
    <3> QED BY <1>3, <1>5, <3>1 DEF ItemsInOrder
  <2>3. \A k \in DOMAIN queue' : Follows(queue[1], queue'[k])
    <3> SUFFICES ASSUME NEW k \in DOMAIN queue' PROVE Follows(queue[1], queue'[k])
        OBVIOUS
    <3>1. 1 < k + 1 BY <1>5
    <3> QED BY <1>3, <1>5, <3>1 DEF ItemsInOrder
  <2> QED BY <1>5, <1>6, <2>2, <2>3 DEF ItemsInOrder
<1>12. CallersAt' BY <1>1, <1>3 DEF CallersAt
<1>13. TextsComing'
  <2> SUFFICES ASSUME NEW r \in Streams, broken[r] < updates[r], NEW i \in DOMAIN messages[r],
                      i <= Len(bodies[r])
               PROVE  Settles(queue', item', lastEdit[messages[r][i]], messages[r][i],
                              bodies[r][i], updates[r])
      BY <1>1 DEF TextsComing
  <2>1. PICK m : m = messages[r][i] OBVIOUS
  <2>2. PICK t : t = bodies[r][i] OBVIOUS
  <2>3. PICK last : last = lastEdit[m] OBVIOUS
  <2>4. PICK u : u = updates[r] OBVIOUS
  <2>5. Settles(queue, None, last, m, t, u)
      BY <1>3, <1>4, <2>1, <2>2, <2>3, <2>4 DEF TextsComing
  <2>6. PICK it : it = item' OBVIOUS
  <2>7. \/ it = Head(queue)
        \/ it = None /\ (EditOf(Head(queue), m) => \E i1 \in DOMAIN Tail(queue) : EditOf(Tail(queue)[i1], m))
      BY <1>2, <1>4, <2>6 DEF Queue!Overtaken, EditOf
  <2>8. Settles(Tail(queue), it, last, m, t, u) BY <1>1, <1>4, <2>5, <2>7, SettlesTaken
  <2> QED BY <1>1, <2>1, <2>2, <2>3, <2>4, <2>6, <2>8
<1> QED BY <1>7, <1>8, <1>9, <1>10, <1>11, <1>12, <1>13 DEF QueueInv

LEMMA FloodedStep ==
    ASSUME QueueInv, Queue!Flooded
    PROVE  QueueInv'
<1>1. /\ worker = "waiting" /\ errors < MaxErrors /\ worker' = "flooded" /\ errors' = errors + 1
      /\ UNCHANGED <<queue, item, messages, caller, bodies, updates, lastEdit, broken, chat, sent>>
    BY DEF Queue!Flooded, Queue!streamVars
<1>2. WorkerTypes /\ StreamTypes /\ ChatTells /\ ItemsFit /\ ItemsInOrder /\ CallersAt /\ TextsComing
    BY DEF QueueInv
<1>3. WorkerTypes' BY <1>1, <1>2, QueueAssumption DEF WorkerTypes
<1>4. StreamTypes' BY <1>1, <1>2 DEF StreamTypes
<1>5. ChatTells' BY <1>1, <1>2 DEF ChatTells
<1>6. ItemsFit' BY <1>1, <1>2 DEF ItemsFit, Fits
<1>7. ItemsInOrder' BY <1>1, <1>2 DEF ItemsInOrder
<1>8. CallersAt' BY <1>1, <1>2 DEF CallersAt
<1>9. TextsComing' BY <1>1, <1>2 DEF TextsComing
<1> QED BY <1>3, <1>4, <1>5, <1>6, <1>7, <1>8, <1>9 DEF QueueInv

-----------------------------------------------------------------------------
(* The item taken is worked off *)

LEMMA ItemTaken ==
    ASSUME QueueInv, worker \in {"waiting", "flooded"}
    PROVE  /\ item \in Queue!Item /\ item # None /\ Fits(item)
           /\ \A k \in DOMAIN queue : Follows(item, queue[k])
<1>1. item \in Queue!Item BY DEF QueueInv, WorkerTypes
<1>2. item # None BY <1>1, ItemHas
<1> QED BY <1>1, <1>2 DEF QueueInv, ItemsFit, ItemsInOrder

\* An edit is executed.
LEMMA EditedStep ==
    ASSUME QueueInv, Queue!Executed, item.kind = "edit"
    PROVE  QueueInv'
<1>1. /\ worker \in {"waiting", "flooded"} /\ worker' = "ready" /\ item' = None
      /\ UNCHANGED <<queue, messages, caller, bodies, updates, broken, sent, errors>>
      /\ \/ lastEdit[item.msg] = item.text /\ UNCHANGED <<lastEdit, chat>>
         \/ /\ lastEdit' = [lastEdit EXCEPT ![item.msg] = item.text]
            /\ chat' = [chat EXCEPT ![item.msg] = item.text]
    BY DEF Queue!Executed, Queue!Shows, Queue!Settled, Queue!streamVars
<1>2. WorkerTypes /\ StreamTypes /\ ChatTells /\ ItemsFit /\ ItemsInOrder /\ CallersAt /\ TextsComing
    BY DEF QueueInv
<1>3. item \in Queue!Item /\ item # None /\ Fits(item) BY <1>1, ItemTaken
<1>4. PICK n : n = item.msg OBVIOUS
<1>5. n \in 1..sent /\ item.text \in Texts
  <2>1. n \in Nat \ {0} /\ item.text \in Texts BY <1>3, <1>4, ItemHas
  <2>2. n <= sent BY <1>3, <1>4 DEF Fits
  <2> QED BY <1>2, <2>1, <2>2 DEF ChatTells
<1>6. /\ lastEdit' \in Seq(Texts) /\ Len(lastEdit') = sent /\ lastEdit'[n] = item.text
      /\ \A m \in 1..sent : m # n => lastEdit'[m] = lastEdit[m]
    BY <1>1, <1>2, <1>4, <1>5 DEF ChatTells
<1>7. DOMAIN chat' = DOMAIN chat /\ \A m \in DOMAIN chat' : chat'[m] = lastEdit'[m]
  <2>1. \A m \in DOMAIN chat : m \in 1..sent /\ chat[m] = lastEdit[m] BY <1>2 DEF ChatTells
  <2>2. CASE lastEdit[item.msg] = item.text /\ UNCHANGED <<lastEdit, chat>> BY <2>1, <2>2
  <2>3. CASE chat' = [chat EXCEPT ![item.msg] = item.text] BY <1>4, <1>6, <2>1, <2>3
  <2> QED BY <1>1, <2>2, <2>3
<1>8. WorkerTypes' BY <1>1, <1>2 DEF WorkerTypes
<1>9. StreamTypes' BY <1>1, <1>2 DEF StreamTypes
<1>10. ChatTells'
  <2>1. DOMAIN chat' \subseteq 1..sent BY <1>2, <1>7 DEF ChatTells
  <2> QED BY <1>1, <1>2, <1>6, <1>7, <2>1 DEF ChatTells
<1>11. ItemsFit' BY <1>1, <1>2 DEF ItemsFit, Fits
<1>12. ItemsInOrder' BY <1>1, OrderStill
<1>13. CallersAt' BY <1>1, <1>2 DEF CallersAt
<1>14. TextsComing'
  <2> SUFFICES ASSUME NEW r \in Streams, broken[r] < updates[r], NEW i \in DOMAIN messages[r],
                      i <= Len(bodies[r])
               PROVE  Settles(queue, None, lastEdit'[messages[r][i]], messages[r][i],
                              bodies[r][i], updates[r])
      BY <1>1 DEF TextsComing
  <2>1. PICK m : m = messages[r][i] OBVIOUS
  <2>2. PICK t : t = bodies[r][i] OBVIOUS
  <2>3. PICK last : last = lastEdit[m] OBVIOUS
  <2>4. PICK u : u = updates[r] OBVIOUS
  <2>5. PICK new : new = lastEdit'[m] OBVIOUS
  <2>6. PICK it \in Queue!Item : it = item BY <1>3
  <2>7. Settles(queue, it, last, m, t, u)
      BY <1>2, <2>1, <2>2, <2>3, <2>4, <2>6 DEF TextsComing
  <2>8. m \in 1..sent BY <1>2, <2>1 DEF ChatTells
  <2>9. new = IF EditOf(it, m) THEN it.text ELSE last
    <3>1. EditOf(it, m) <=> m = n BY <1>4, <2>6 DEF EditOf
    <3> QED BY <1>6, <2>3, <2>5, <2>6, <2>8, <3>1
  <2>10. Settles(queue, None, new, m, t, u) BY <2>7, <2>9, SettlesExecuted
  <2> QED BY <2>1, <2>2, <2>4, <2>5, <2>10
<1> QED BY <1>8, <1>9, <1>10, <1>11, <1>12, <1>13, <1>14 DEF QueueInv

\* A send puts one more message into the chat.
LEMMA SendShown ==
    ASSUME ChatTells, NEW text \in Texts, sent' = sent + 1, lastEdit' = Append(lastEdit, text),
           chat' = [m \in DOMAIN chat \cup {sent'} |-> IF m = sent' THEN text ELSE chat[m]]
    PROVE  /\ sent' \in Nat /\ lastEdit' \in Seq(Texts) /\ Len(lastEdit') = sent'
           /\ \A m \in 1..sent : lastEdit'[m] = lastEdit[m]
           /\ lastEdit'[sent'] = text /\ sent' > sent
           /\ DOMAIN chat' = DOMAIN chat \cup {sent'} /\ DOMAIN chat' \subseteq 1..sent'
           /\ \A m \in DOMAIN chat' : chat'[m] = lastEdit'[m]
<1>1. sent \in Nat /\ lastEdit \in Seq(Texts) /\ Len(lastEdit) = sent /\ DOMAIN chat \subseteq 1..sent
      /\ \A m \in DOMAIN chat : chat[m] = lastEdit[m]
    BY DEF ChatTells
<1>2. /\ sent' \in Nat /\ lastEdit' \in Seq(Texts) /\ Len(lastEdit') = sent'
      /\ \A m \in 1..sent : lastEdit'[m] = lastEdit[m]
      /\ lastEdit'[sent'] = text /\ sent' > sent
    BY <1>1
<1>3. DOMAIN chat' = DOMAIN chat \cup {sent'} BY <1>1
<1>4. DOMAIN chat' \subseteq 1..sent' BY <1>1, <1>2, <1>3
<1>5. \A m \in DOMAIN chat' : chat'[m] = lastEdit'[m]
  <2>1. \A m \in DOMAIN chat : m \in 1..sent /\ m # sent' BY <1>1, <1>2
  <2> QED BY <1>1, <1>2, <2>1
<1> QED BY <1>2, <1>3, <1>4, <1>5

LEMMA SentHas ==
    ASSUME QueueInv, Queue!Executed, item.kind = "send"
    PROVE  /\ worker \in {"waiting", "flooded"} /\ item' = None
           /\ UNCHANGED <<broken, errors>>
           /\ sent' = sent + 1 /\ lastEdit' = Append(lastEdit, item.text)
           /\ chat' = [m \in DOMAIN chat \cup {sent'} |-> IF m = sent' THEN item.text ELSE chat[m]]
           /\ UNCHANGED <<bodies, updates>>
           /\ \/ /\ caller[item.of] = "cancelled" /\ worker' = "dead"
                 /\ UNCHANGED <<messages, caller, queue>>
              \/ /\ caller[item.of] # "cancelled" /\ worker' = "ready"
                 /\ messages' = [messages EXCEPT ![item.of] = Append(@, sent + 1)]
                 /\ Queue!GoesOn(item.of, bodies[item.of], Queue!Known(item.of) + 1, <<>>)
<1>1. sent \in Nat BY DEF QueueInv, ChatTells
<1>2. sent + 1 # None BY <1>1, QueueAssumption
<1>3. Queue!Settled(item.of, sent + 1) BY DEF Queue!Executed, Queue!Shows
<1>4. CASE caller[item.of] = "cancelled"
    BY <1>3, <1>4 DEF Queue!Executed, Queue!Shows, Queue!Settled, Queue!streamVars
<1>5. CASE caller[item.of] # "cancelled"
    BY <1>2, <1>3, <1>5 DEF Queue!Executed, Queue!Shows, Queue!Settled, Queue!streamVars
<1> QED BY <1>4, <1>5

\* A send is executed whose caller was cancelled: the worker ends.
LEMMA SentInVainStep ==
    ASSUME QueueInv, Queue!Executed, item.kind = "send", caller[item.of] = "cancelled"
    PROVE  QueueInv'
<1>1. /\ worker \in {"waiting", "flooded"} /\ item' = None /\ worker' = "dead"
      /\ UNCHANGED <<broken, errors, bodies, updates, messages, caller, queue>>
      /\ sent' = sent + 1 /\ lastEdit' = Append(lastEdit, item.text)
      /\ chat' = [m \in DOMAIN chat \cup {sent'} |-> IF m = sent' THEN item.text ELSE chat[m]]
    BY SentHas
<1>2. WorkerTypes /\ StreamTypes /\ ChatTells /\ ItemsFit /\ ItemsInOrder /\ CallersAt /\ TextsComing
    BY DEF QueueInv
<1>3. item \in Queue!Item /\ item # None /\ Fits(item) BY <1>1, ItemTaken
<1>4. /\ sent' \in Nat /\ lastEdit' \in Seq(Texts) /\ Len(lastEdit') = sent'
      /\ \A m \in 1..sent : lastEdit'[m] = lastEdit[m]
      /\ lastEdit'[sent'] = item.text /\ sent' > sent
      /\ DOMAIN chat' = DOMAIN chat \cup {sent'} /\ DOMAIN chat' \subseteq 1..sent'
      /\ \A m \in DOMAIN chat' : chat'[m] = lastEdit'[m]
  <2>1. PICK text \in Texts : text = item.text BY <1>3, ItemHas
  <2> QED BY <1>1, <1>2, <2>1, SendShown
<1>5. WorkerTypes' BY <1>1, <1>2 DEF WorkerTypes
<1>6. StreamTypes' BY <1>1, <1>2 DEF StreamTypes
<1>7. ChatTells' BY <1>1, <1>2, <1>4 DEF ChatTells
<1>8. ItemsFit'
  <2>1. ASSUME NEW o \in Queue!Item, Fits(o) PROVE Fits(o)'
    <3>1. o.kind = "edit" => o.msg <= sent'
      <4>1. o.kind = "edit" => o.msg \in Nat /\ o.msg <= sent BY <2>1, ItemHas DEF Fits
      <4>2. sent \in Nat BY <1>2 DEF ChatTells
      <4> QED BY <1>4, <4>1, <4>2
    <3> QED BY <1>1, <2>1, <3>1 DEF Fits
  <2>2. ASSUME NEW j \in DOMAIN queue PROVE Fits(queue[j])'
    <3>1. PICK o \in Queue!Item : o = queue[j] /\ Fits(o) BY ItemsAre
    <3> QED BY <1>1, <2>1, <3>1 DEF Fits
  <2> QED BY <1>1, <2>2 DEF ItemsFit, Fits
<1>9. ItemsInOrder' BY <1>1, OrderStill
<1>10. CallersAt' BY <1>1, <1>2 DEF CallersAt
<1>11. TextsComing'
  <2> SUFFICES ASSUME NEW r \in Streams, broken[r] < updates[r], NEW i \in DOMAIN messages[r],
                      i <= Len(bodies[r])
               PROVE  Settles(queue, None, lastEdit'[messages[r][i]], messages[r][i],
                              bodies[r][i], updates[r])
      BY <1>1 DEF TextsComing
  <2>1. PICK m : m = messages[r][i] OBVIOUS
  <2>2. PICK t : t = bodies[r][i] OBVIOUS
  <2>3. PICK last : last = lastEdit[m] OBVIOUS
  <2>4. PICK u : u = updates[r] OBVIOUS
  <2>5. PICK it \in Queue!Item : it = item BY <1>3
  <2>6. Settles(queue, it, last, m, t, u)
      BY <1>2, <2>1, <2>2, <2>3, <2>4, <2>5 DEF TextsComing
  <2>7. m \in 1..sent BY <1>2, <2>1 DEF ChatTells
  <2>8. last = lastEdit'[m] BY <1>4, <2>3, <2>7
  <2>9. ~EditOf(it, m) BY <2>5 DEF EditOf
  <2>10. Settles(queue, None, last, m, t, u) BY <2>6, <2>9, SettlesExecuted
  <2> QED BY <2>1, <2>2, <2>4, <2>8, <2>10
<1> QED BY <1>5, <1>6, <1>7, <1>8, <1>9, <1>10, <1>11 DEF QueueInv

\* A send is executed and its caller goes on with the next chunk.
LEMMA SentStep ==
    ASSUME QueueInv, Queue!Executed, item.kind = "send", caller[item.of] # "cancelled"
    PROVE  QueueInv'
<1>1. /\ worker \in {"waiting", "flooded"} /\ item' = None /\ worker' = "ready"
      /\ UNCHANGED <<broken, errors, bodies, updates>>
      /\ sent' = sent + 1 /\ lastEdit' = Append(lastEdit, item.text)
      /\ chat' = [m \in DOMAIN chat \cup {sent'} |-> IF m = sent' THEN item.text ELSE chat[m]]
      /\ messages' = [messages EXCEPT ![item.of] = Append(@, sent + 1)]
      /\ Queue!GoesOn(item.of, bodies[item.of], Queue!Known(item.of) + 1, <<>>)
    BY SentHas
<1>2. WorkerTypes /\ StreamTypes /\ ChatTells /\ ItemsFit /\ ItemsInOrder /\ CallersAt /\ TextsComing
    BY DEF QueueInv
<1>3. item \in Queue!Item /\ item # None /\ Fits(item) /\ \A k \in DOMAIN queue : Follows(item, queue[k])
    BY <1>1, ItemTaken
<1>4. PICK s \in Streams : s = item.of BY <1>3, ItemHas
<1>5. PICK text \in Texts : text = item.text BY <1>3, ItemHas
<1>6. /\ sent' \in Nat /\ lastEdit' \in Seq(Texts) /\ Len(lastEdit') = sent'
      /\ \A m \in 1..sent : lastEdit'[m] = lastEdit[m]
      /\ lastEdit'[sent'] = text /\ sent' > sent
      /\ DOMAIN chat' = DOMAIN chat \cup {sent'} /\ DOMAIN chat' \subseteq 1..sent'
      /\ \A m \in DOMAIN chat' : chat'[m] = lastEdit'[m]
    BY <1>1, <1>2, <1>5, SendShown
<1>7. sent \in Nat /\ DOMAIN chat \subseteq 1..sent BY <1>2 DEF ChatTells
<1>8. PICK ms \in Seq(Nat) : ms = messages[s] BY <1>2 DEF StreamTypes
<1>9. PICK chunks \in Queue!Bodies \cup {<<>>} : chunks = bodies[s] BY <1>2 DEF StreamTypes
<1>10. PICK known \in Nat : known = Len(ms) + 1 BY <1>8
<1>11. caller[s] = "sending" /\ text = chunks[known] /\ item.update = updates[s]
       /\ broken[s] <= updates[s] /\ updates[s] \in 1..MaxUpdates
  <2>1. caller[s] \in {"sending", "cancelled"} /\ caller[s] # "cancelled"
      BY <1>1, <1>3, <1>4 DEF Fits
  <2>2. text = bodies[s][Len(messages[s]) + 1] /\ item.update = updates[s]
      BY <1>3, <1>4, <1>5, <2>1 DEF Fits
  <2>3. item.update \in 1..MaxUpdates BY <1>3, ItemHas
  <2>4. broken[s] <= updates[s] BY <1>2 DEF StreamTypes
  <2> QED BY <1>8, <1>9, <1>10, <2>1, <2>2, <2>3, <2>4
<1>12. messages' \in [Streams -> Seq(Nat)] /\ messages'[s] = Append(ms, sent')
       /\ \A r \in Streams : r # s => messages'[r] = messages[r]
  <2>1. Append(ms, sent') \in Seq(Nat) BY <1>6, <1>8
  <2> QED BY <1>1, <1>2, <1>4, <1>8, <2>1 DEF StreamTypes
<1>13. Len(messages'[s]) = known /\ \A r \in Streams : \A i \in DOMAIN messages'[r] :
            \/ i \in DOMAIN messages[r] /\ messages'[r][i] = messages[r][i]
            \/ r = s /\ i = known /\ messages'[r][i] = sent'
  <2>1. PICK v \in Nat : v = sent' BY <1>6
  <2>2. PICK ns : ns = Append(ms, v) OBVIOUS
  <2>3. Len(ns) = known BY <1>10, <2>2, AppendHas
  <2>4. \A i \in DOMAIN ns : (i \in DOMAIN ms /\ ns[i] = ms[i]) \/ (i = known /\ ns[i] = v)
      BY <1>10, <2>2, AppendHas
  <2> QED BY <1>8, <1>12, <2>1, <2>2, <2>3, <2>4
<1>14. \A r \in Streams : \A i \in DOMAIN messages[r] : messages[r][i] \in DOMAIN chat
                                                       /\ messages[r][i] \in 1..sent
                                                       /\ messages[r][i] # sent'
    BY <1>2, <1>6, <1>7 DEF ChatTells
<1>15. <<>> \in Seq(Queue!Item) /\ queue \in Seq(Queue!Item) /\ caller \in [Streams -> CallerStates]
       /\ updates'[s] \in 1..MaxUpdates
    BY <1>1, <1>2, <1>11 DEF WorkerTypes, StreamTypes
<1>16. PICK none \in Seq(Queue!Item) : none = <<>> BY <1>15
<1>17. Queue!GoesOn(s, chunks, known, none)
    BY <1>1, <1>4, <1>8, <1>9, <1>10, <1>16 DEF Queue!Known
<1>18. PICK x \in Seq(Queue!Item) :
        /\ queue' = queue \o x
        /\ \A i \in DOMAIN x :
           /\ i = 1 /\ caller'[s] = "sending"
           /\ x[i].kind = "send" /\ x[i].of = s /\ x[i].update = updates'[s]
           /\ x[i].text = chunks[known + 1]
  <2>1. PICK x \in Seq(Queue!Item) : Grown(x, s, chunks, known, none)
      BY <1>15, <1>17, GoesOnQueues
  <2>2. DOMAIN none = {} /\ Len(none) = 0 BY <1>16
  <2> QED BY <2>1, <2>2 DEF Grown
<1>19. /\ caller' \in [Streams -> CallerStates]
       /\ \A r \in Streams : r # s => caller'[r] = caller[r]
       /\ caller'[s] = "sending" => known < Len(chunks)
       /\ caller'[s] = "deleting" => known > Len(chunks)
       /\ caller'[s] = "idle" => known = Len(chunks)
       /\ caller'[s] # "cancelled"
    BY <1>15, <1>17, GoesOnHas
<1>20. WorkerTypes'
  <2>1. queue' \in Seq(Queue!Item) BY <1>15, <1>18, Concat
  <2> QED BY <1>1, <1>2, <2>1 DEF WorkerTypes
<1>21. StreamTypes' BY <1>1, <1>2, <1>12, <1>19 DEF StreamTypes
<1>22. ChatTells'
  <2>1. \A r \in Streams : \A i \in DOMAIN messages'[r] : messages'[r][i] \in DOMAIN chat'
      BY <1>6, <1>13, <1>14
  <2>2. \A r, p \in Streams : \A i \in DOMAIN messages'[r], j \in DOMAIN messages'[p] :
            messages'[r][i] = messages'[p][j] => r = p /\ i = j
      BY <1>2, <1>13, <1>14 DEF ChatTells
  <2> QED BY <1>6, <2>1, <2>2 DEF ChatTells
<1>23. ASSUME NEW o \in Queue!Item, Fits(o), Follows(item, o) PROVE Fits(o)' /\ (o.of = s => o.kind # "send")
  <2>1. o.of \in Streams BY ItemHas
  <2>2. o.of = s => o.kind # "send" BY <1>4, <1>23 DEF Follows
  <2>3. o.kind = "edit" => o.msg <= sent' /\ o.msg # sent'
    <3>1. o.kind = "edit" => o.msg \in Nat /\ o.msg <= sent BY <1>23, ItemHas DEF Fits
    <3> QED BY <1>6, <1>7, <3>1
  <2>4. o.kind = "edit" => \A r \in Streams : \A i \in DOMAIN messages'[r] : messages'[r][i] = o.msg => r = o.of
      BY <1>13, <1>23, <2>3 DEF Fits
  <2>5. o.kind = "send" => caller'[o.of] = caller[o.of] /\ messages'[o.of] = messages[o.of]
      BY <1>12, <1>19, <2>1, <2>2
  <2> QED BY <1>1, <1>23, <2>2, <2>3, <2>4, <2>5 DEF Fits
<1>24. ItemsFit'
  <2>1. ASSUME NEW j \in DOMAIN queue' PROVE \E o \in Queue!Item : o = queue'[j] /\ Fits(o)'
    <3>1. CASE j \in DOMAIN queue
      <4>1. queue'[j] = queue[j] BY <1>15, <1>18, <3>1, Concat
      <4>2. PICK o \in Queue!Item : o = queue[j] /\ Fits(o) BY <3>1, ItemsAre
      <4>3. Follows(item, o) BY <1>3, <3>1, <4>2
      <4> QED BY <1>23, <4>1, <4>2, <4>3
    <3>2. CASE j \notin DOMAIN queue
      <4>1. PICK i \in DOMAIN x : j = Len(queue) + i BY <1>15, <1>18, <3>2, Concat
      <4>2. PICK o \in Queue!Item : o = x[i] OBVIOUS
      <4>3. o = queue'[j] BY <1>15, <1>18, <4>1, <4>2, Concat
      <4>4. o.kind = "send" /\ o.of = s /\ o.update = updates'[s] /\ o.text = chunks[known + 1]
            /\ caller'[s] = "sending"
          BY <1>18, <4>2
      <4>5. Len(messages'[s]) = known /\ bodies'[s] = chunks BY <1>1, <1>9, <1>13
      <4>6. broken'[s] <= updates'[s] /\ updates'[s] <= updates'[s] BY <1>1, <1>11
      <4>7. Fits(o)' BY <4>4, <4>5, <4>6 DEF Fits
      <4> QED BY <4>3, <4>7
    <3> QED BY <3>1, <3>2
  <2> QED BY <1>1, <2>1 DEF ItemsFit, Fits
<1>25. ItemsInOrder'
  <2>1. \A j, k \in DOMAIN x : j < k => Follows(x[j], x[k]) BY <1>18
  <2>2. ASSUME NEW j \in DOMAIN queue, NEW k \in DOMAIN x PROVE Follows(queue[j], x[k])
    <3>1. PICK o \in Queue!Item : o = queue[j] /\ Fits(o) BY ItemsAre
    <3>2. o.of = s => o.kind # "send" BY <1>3, <1>23, <3>1
    <3>3. o.of = s => o.update <= updates[s] BY <3>1 DEF Fits
    <3>4. x[k].of = s /\ x[k].update = updates[s] BY <1>1, <1>18
    <3> QED BY <3>1, <3>2, <3>3, <3>4 DEF Follows
  <2>3. \A j, k \in DOMAIN queue' : j < k => Follows(queue'[j], queue'[k])
      BY <1>2, <1>15, <1>18, <2>1, <2>2, OrderConcat DEF ItemsInOrder
  <2> QED BY <1>1, <2>3 DEF ItemsInOrder
<1>26. CallersAt'
  <2> SUFFICES ASSUME NEW r \in Streams
               PROVE  /\ caller'[r] = "idle" /\ broken'[r] < updates'[r] => Len(messages'[r]) = Len(bodies'[r])
                      /\ caller'[r] = "sending" => Len(messages'[r]) < Len(bodies'[r])
                      /\ caller'[r] = "deleting" => Len(messages'[r]) > Len(bodies'[r])
      BY DEF CallersAt
  <2>1. CASE r = s BY <1>1, <1>9, <1>13, <1>19, <2>1
  <2>2. CASE r # s BY <1>1, <1>2, <1>12, <1>19, <2>2 DEF CallersAt
  <2> QED BY <2>1, <2>2
<1>27. TextsComing'
  <2> SUFFICES ASSUME NEW r \in Streams, broken[r] < updates[r], NEW i \in DOMAIN messages'[r],
                      i <= Len(bodies[r])
               PROVE  Settles(queue', None, lastEdit'[messages'[r][i]], messages'[r][i],
                              bodies[r][i], updates[r])
      BY <1>1 DEF TextsComing
  <2>1. PICK m : m = messages'[r][i] OBVIOUS
  <2>2. PICK t : t = bodies[r][i] OBVIOUS
  <2>3. PICK last : last = lastEdit'[m] OBVIOUS
  <2>4. PICK u : u = updates[r] OBVIOUS
  <2>5. PICK it \in Queue!Item : it = item BY <1>3
  <2>6. \A k \in DOMAIN x : ~EditOf(x[k], m) BY <1>18 DEF EditOf
  <2>7. Settles(queue, None, last, m, t, u)
    <3>1. CASE i \in DOMAIN messages[r] /\ messages'[r][i] = messages[r][i]
      <4>1. m = messages[r][i] /\ last = lastEdit[m] BY <1>6, <1>14, <2>1, <2>3, <3>1
      <4>2. Settles(queue, it, last, m, t, u)
          BY <1>2, <2>2, <2>4, <2>5, <3>1, <4>1 DEF TextsComing
      <4>3. ~EditOf(it, m) BY <2>5 DEF EditOf
      <4> QED BY <4>2, <4>3, SettlesExecuted
    <3>2. CASE r = s /\ i = known /\ messages'[r][i] = sent'
      <4>1. m = sent' /\ last = t BY <1>6, <1>9, <1>11, <2>1, <2>2, <2>3, <3>2
      <4>2. \A j \in DOMAIN queue : ~EditOf(queue[j], m)
        <5> SUFFICES ASSUME NEW j \in DOMAIN queue, EditOf(queue[j], m) PROVE FALSE OBVIOUS
        <5>1. PICK o \in Queue!Item : o = queue[j] /\ Fits(o) BY ItemsAre
        <5>2. o.kind = "edit" /\ o.msg = sent' BY <4>1, <5>1 DEF EditOf
        <5>3. sent' <= sent BY <5>1, <5>2 DEF Fits
        <5> QED BY <1>6, <1>7, <5>3
      <4> QED BY <4>1, <4>2 DEF Settles
    <3> QED BY <1>13, <3>1, <3>2
  <2>8. Settles(queue \o x, None, last, m, t, u) BY <1>15, <2>6, <2>7, SettlesBesides
  <2> QED BY <1>18, <2>1, <2>2, <2>3, <2>4, <2>8
<1> QED BY <1>20, <1>21, <1>22, <1>24, <1>25, <1>26, <1>27 DEF QueueInv

LEMMA RefusedHas ==
    ASSUME QueueInv, Queue!Refused
    PROVE  /\ worker \in {"waiting", "flooded"} /\ item' = None /\ worker' \in {"ready", "dead"}
           /\ broken' = [broken EXCEPT ![item.of] = item.update]
           /\ errors' = errors \/ (errors < MaxErrors /\ errors' = errors + 1)
           /\ UNCHANGED <<queue, messages, bodies, updates, lastEdit, chat, sent>>
           /\ \/ caller' = caller
              \/ item.kind = "send" /\ caller' = [caller EXCEPT ![item.of] = "idle"]
<1>1. Queue!Settled(item.of, None) BY DEF Queue!Refused
<1>2. CASE item.kind = "edit" \/ caller[item.of] = "cancelled"
    BY <1>1, <1>2 DEF Queue!Refused, Queue!Settled, Queue!streamVars
<1>3. CASE ~(item.kind = "edit" \/ caller[item.of] = "cancelled")
  <2>1. worker \in {"waiting", "flooded"} BY DEF Queue!Refused
  <2>2. item.kind = "send" BY <1>3, <2>1, ItemTaken, ItemHas
  <2> QED BY <1>1, <1>3, <2>2 DEF Queue!Refused, Queue!Settled, Queue!streamVars
<1> QED BY <1>2, <1>3

\* An item is lost: its update is broken from there on.
LEMMA RefusedStep ==
    ASSUME QueueInv, Queue!Refused
    PROVE  QueueInv'
<1>1. /\ worker \in {"waiting", "flooded"} /\ item' = None /\ worker' \in {"ready", "dead"}
      /\ broken' = [broken EXCEPT ![item.of] = item.update]
      /\ errors' = errors \/ (errors < MaxErrors /\ errors' = errors + 1)
      /\ UNCHANGED <<queue, messages, bodies, updates, lastEdit, chat, sent>>
      /\ \/ caller' = caller
         \/ item.kind = "send" /\ caller' = [caller EXCEPT ![item.of] = "idle"]
    BY RefusedHas
<1>2. WorkerTypes /\ StreamTypes /\ ChatTells /\ ItemsFit /\ ItemsInOrder /\ CallersAt /\ TextsComing
    BY DEF QueueInv
<1>3. item \in Queue!Item /\ item # None /\ Fits(item) /\ \A k \in DOMAIN queue : Follows(item, queue[k])
    BY <1>1, ItemTaken
<1>4. PICK s \in Streams : s = item.of BY <1>3, ItemHas
<1>5. PICK u \in 1..MaxUpdates : u = item.update BY <1>3, ItemHas
<1>6. broken[s] <= u /\ u <= updates[s] BY <1>3, <1>4, <1>5 DEF Fits
<1>7. \A r \in Streams : updates[r] \in 0..MaxUpdates /\ broken[r] \in 0..MaxUpdates /\ broken[r] <= updates[r]
    BY <1>2 DEF StreamTypes
<1>8. broken' \in [Streams -> 0..MaxUpdates] /\ broken'[s] = u
      /\ \A r \in Streams : r # s => broken'[r] = broken[r]
    BY <1>1, <1>2, <1>4, <1>5, QueueAssumption DEF StreamTypes
<1>9. /\ caller' \in [Streams -> CallerStates]
      /\ \A r \in Streams : r # s => caller'[r] = caller[r]
      /\ caller'[s] = caller[s] \/ (item.kind = "send" /\ caller'[s] = "idle" /\ u = updates[s])
  <2>1. item.kind = "send" => u = updates[s] BY <1>3, <1>4, <1>5 DEF Fits
  <2> QED BY <1>1, <1>2, <1>4, <2>1 DEF StreamTypes, CallerStates
<1>10. WorkerTypes' BY <1>1, <1>2, QueueAssumption DEF WorkerTypes
<1>11. StreamTypes'
  <2>1. \A r \in Streams : broken'[r] <= updates[r] BY <1>6, <1>7, <1>8
  <2> QED BY <1>1, <1>2, <1>8, <1>9, <2>1 DEF StreamTypes
<1>12. ChatTells' BY <1>1, <1>2 DEF ChatTells
<1>13. ItemsFit'
  <2>1. ASSUME NEW o \in Queue!Item, Fits(o), Follows(item, o) PROVE Fits(o)'
    <3>1. o.of \in Streams BY ItemHas
    <3>2. broken'[o.of] <= o.update
      <4>1. CASE o.of = s BY <1>4, <1>5, <1>8, <2>1, <4>1 DEF Follows
      <4>2. CASE o.of # s BY <1>8, <2>1, <3>1, <4>2 DEF Fits
      <4> QED BY <4>1, <4>2
    <3>3. o.kind = "send" => caller'[o.of] = caller[o.of] BY <1>4, <1>9, <2>1, <3>1 DEF Follows
    <3> QED BY <1>1, <2>1, <3>2, <3>3 DEF Fits
  <2>2. ASSUME NEW j \in DOMAIN queue PROVE Fits(queue[j])'
    <3>1. PICK o \in Queue!Item : o = queue[j] /\ Fits(o) BY ItemsAre
    <3>2. Follows(item, o) BY <1>3, <3>1
    <3> QED BY <1>1, <2>1, <3>1, <3>2 DEF Fits
  <2> QED BY <1>1, <2>2 DEF ItemsFit, Fits
<1>14. ItemsInOrder' BY <1>1, OrderStill
<1>15. CallersAt'
  <2> SUFFICES ASSUME NEW r \in Streams
               PROVE  /\ caller'[r] = "idle" /\ broken'[r] < updates[r] => Len(messages[r]) = Len(bodies[r])
                      /\ caller'[r] = "sending" => Len(messages[r]) < Len(bodies[r])
                      /\ caller'[r] = "deleting" => Len(messages[r]) > Len(bodies[r])
      BY <1>1 DEF CallersAt
  <2>1. CASE r = s /\ caller'[s] = caller[s]
    <3>1. broken'[r] < updates[r] => broken[r] < updates[r] BY <1>6, <1>7, <1>8, <2>1
    <3> QED BY <1>2, <2>1, <3>1 DEF CallersAt
  <2>2. CASE r = s /\ caller'[s] = "idle" /\ u = updates[s] BY <1>7, <1>8, <2>2
  <2>3. CASE r # s BY <1>2, <1>8, <1>9, <2>3 DEF CallersAt
  <2> QED BY <1>9, <2>1, <2>2, <2>3
<1>16. TextsComing'
  <2> SUFFICES ASSUME NEW r \in Streams, broken'[r] < updates[r], NEW i \in DOMAIN messages[r],
                      i <= Len(bodies[r])
               PROVE  Settles(queue, None, lastEdit[messages[r][i]], messages[r][i],
                              bodies[r][i], updates[r])
      BY <1>1 DEF TextsComing
  <2>1. PICK m : m = messages[r][i] OBVIOUS
  <2>2. PICK t : t = bodies[r][i] OBVIOUS
  <2>3. PICK last : last = lastEdit[m] OBVIOUS
  <2>4. PICK v : v = updates[r] OBVIOUS
  <2>5. PICK it \in Queue!Item : it = item BY <1>3
  <2>6. broken[r] < updates[r]
    <3>1. CASE r = s BY <1>6, <1>7, <1>8, <3>1
    <3>2. CASE r # s BY <1>8, <3>2
    <3> QED BY <3>1, <3>2
  <2>7. Settles(queue, it, last, m, t, v)
      BY <1>2, <2>1, <2>2, <2>3, <2>4, <2>5, <2>6 DEF TextsComing
  <2>8. EditOf(it, m) => it.update # v
    <3> SUFFICES ASSUME EditOf(it, m) PROVE it.update # v OBVIOUS
    <3>1. r = s BY <1>3, <1>4, <2>1, <2>5 DEF EditOf, Fits
    <3> QED BY <1>5, <1>7, <1>8, <2>4, <2>5, <3>1
  <2>9. Settles(queue, None, last, m, t, v) BY <2>7, <2>8, SettlesRefused
  <2> QED BY <2>1, <2>2, <2>3, <2>4, <2>9
<1> QED BY <1>10, <1>11, <1>12, <1>13, <1>14, <1>15, <1>16 DEF QueueInv

-----------------------------------------------------------------------------

LEMMA QueueStart == Queue!Init => QueueInv
<1> SUFFICES ASSUME Queue!Init PROVE QueueInv OBVIOUS
<1>1. WorkerTypes BY QueueAssumption DEF Queue!Init, WorkerTypes
<1>2. StreamTypes BY QueueAssumption DEF Queue!Init, StreamTypes, CallerStates
<1>3. DOMAIN lastEdit = {} /\ DOMAIN chat = {} /\ Len(lastEdit) = 0 /\ lastEdit \in Seq(Texts)
    BY DEF Queue!Init
<1>4. \A s \in Streams : DOMAIN messages[s] = {} /\ Len(messages[s]) = 0 /\ Len(bodies[s]) = 0
                         /\ caller[s] = "idle"
  <2>1. \A s \in Streams : messages[s] = <<>> /\ bodies[s] = <<>> /\ caller[s] = "idle"
      BY DEF Queue!Init
  <2>2. DOMAIN <<>> = {} /\ Len(<<>>) = 0 OBVIOUS
  <2> QED BY <2>1, <2>2
<1>5. ChatTells BY <1>3, <1>4 DEF Queue!Init, ChatTells
<1>6. ItemsFit /\ ItemsInOrder BY DEF Queue!Init, ItemsFit, ItemsInOrder
<1>7. CallersAt BY <1>4 DEF CallersAt
<1>8. TextsComing BY <1>4 DEF TextsComing
<1> QED BY <1>1, <1>2, <1>5, <1>6, <1>7, <1>8 DEF QueueInv

LEMMA QueueStep == QueueInv /\ Queue!Next => QueueInv'
<1> SUFFICES ASSUME QueueInv, Queue!Next PROVE QueueInv' OBVIOUS
<1>1. CASE \E s \in Streams : Queue!Update(s) \/ Queue!DeleteSurplus(s) \/ Queue!Cancel(s)
    BY <1>1, SayStep, DeleteSurplusStep, CancelStep
<1>2. CASE Queue!Take BY <1>2, TakeStep
<1>3. CASE Queue!Flooded BY <1>3, FloodedStep
<1>4. CASE Queue!Executed
  <2>1. worker \in {"waiting", "flooded"} BY <1>4 DEF Queue!Executed
  <2>2. item.kind \in {"send", "edit"} BY <2>1, ItemTaken, ItemHas
  <2> QED BY <1>4, <2>2, EditedStep, SentInVainStep, SentStep
<1>5. CASE Queue!Refused BY <1>5, RefusedStep
<1> QED BY <1>1, <1>2, <1>3, <1>4, <1>5 DEF Queue!Next, Queue!Finish

LEMMA QueueRests == QueueInv /\ UNCHANGED queueVars => QueueInv'
<1> SUFFICES ASSUME QueueInv, UNCHANGED queueVars PROVE QueueInv' OBVIOUS
<1>1. UNCHANGED <<queue, worker, item, lastEdit, messages, caller, bodies, updates, broken, chat,
                  sent, errors>>
    BY DEF queueVars
<1>2. WorkerTypes' /\ StreamTypes' /\ ChatTells' BY <1>1 DEF QueueInv, WorkerTypes, StreamTypes, ChatTells
<1>3. ItemsFit' /\ ItemsInOrder' BY <1>1 DEF QueueInv, ItemsFit, ItemsInOrder, Fits
<1>4. CallersAt' /\ TextsComing' BY <1>1 DEF QueueInv, CallersAt, TextsComing
<1> QED BY <1>2, <1>3, <1>4 DEF QueueInv

LEMMA QueueFinal == QueueInv => FinalText
<1> SUFFICES ASSUME QueueInv, queue = <<>>, item = None, NEW s \in Streams, caller[s] = "idle",
                    broken[s] < updates[s]
             PROVE  /\ Queue!Known(s) = Len(bodies[s])
                    /\ \A i \in 1..Queue!Known(s) :
                        messages[s][i] \in DOMAIN chat /\ chat[messages[s][i]] = bodies[s][i]
    BY DEF FinalText, Queue!FinalText
<1>1. StreamTypes /\ ChatTells /\ CallersAt /\ TextsComing BY DEF QueueInv
<1>2. Len(messages[s]) = Len(bodies[s]) BY <1>1 DEF CallersAt
<1>3. PICK ms \in Seq(Nat) : ms = messages[s] BY <1>1 DEF StreamTypes
<1>4. ASSUME NEW i \in 1..Len(ms) PROVE ms[i] \in DOMAIN chat /\ chat[ms[i]] = bodies[s][i]
  <2>1. i \in DOMAIN messages[s] /\ i <= Len(bodies[s]) BY <1>2, <1>3
  <2>2. ms[i] \in DOMAIN chat /\ chat[ms[i]] = lastEdit[ms[i]] BY <1>1, <1>3, <2>1 DEF ChatTells
  <2>3. Settles(queue, item, lastEdit[ms[i]], ms[i], bodies[s][i], updates[s])
      BY <1>1, <1>3, <2>1 DEF TextsComing
  <2>4. lastEdit[ms[i]] = bodies[s][i] BY <2>3 DEF Settles
  <2> QED BY <2>2, <2>4
<1> QED BY <1>2, <1>3, <1>4 DEF Queue!Known

\* When the queue is worked off, the messages of a stream show the chunks of its last
\* update, unless an item of it was refused or cancelled: the worker's dropping of
\* overtaken edits and of texts that are there already loses nothing (telegram.py, _worker).
THEOREM LastTextShown == Spec => []FinalText
<1>1. Init => QueueInv BY QueueStart DEF Init
<1>2. QueueInv /\ [Next]_allVars => QueueInv'
  <2> SUFFICES ASSUME QueueInv, [Next]_allVars PROVE QueueInv' OBVIOUS
  <2>1. CASE Queue!Next BY <2>1, QueueStep
  <2>2. CASE UNCHANGED queueVars BY <2>2, QueueRests
  <2> QED BY <2>1, <2>2 DEF Next, allVars
<1> QED BY <1>1, <1>2, QueueFinal, PTL DEF Spec, allVars

-----------------------------------------------------------------------------
(* The movie's project *)

Over(T) == UNION {[S -> T] : S \in SUBSET Movie!Ids}
Character == [edited : {TRUE, FALSE}, primary : 0..MaxIds]
Generation == [owner : Movie!Ids, status : Movie!Statuses]

\* A project whose parts fit together.
Sound(p) ==
    /\ p \in [next : 1..(MaxIds + 1), characters : Over(Character), generations : Over(Generation)]
    /\ \A c \in DOMAIN p.characters : c < p.next
    /\ \A g \in DOMAIN p.generations :
        g < p.next /\ p.generations[g].owner \in DOMAIN p.characters

Generating(p) == {g \in DOMAIN p.generations : p.generations[g].status = "generating"}
Pictures(p) ==
    {g \in DOMAIN p.generations : p.generations[g].status = "done"}
    \cup ({p.characters[c].primary : c \in DOMAIN p.characters} \ {0})

Written == {g \in Movie!Ids : written[g] > 0}

MovieTypes ==
    /\ live \in Movie!Launches /\ overwritten \in BOOLEAN
    /\ written \in [Movie!Ids -> Nat] /\ cut \in SUBSET Movie!Ids
    /\ DOMAIN project = Movie!Launches /\ \A l \in Movie!Launches : Sound(project[l])
    /\ DOMAIN jobs = Movie!Launches
    /\ \A l \in Movie!Launches : DOMAIN jobs[l] \subseteq Movie!Ids

\* The file is what some launch has in memory, the live one unless it was overwritten.
DiskIsSome ==
    /\ \E l \in Movie!Launches : disk = project[l]
    /\ ~overwritten => disk = project[live]

AllAccounted == \A l \in Movie!Launches : Generating(project[l]) \subseteq DOMAIN jobs[l] \cup cut
AllPictured == \A l \in Movie!Launches : Pictures(project[l]) \subseteq Written

\* Unless a launch left behind has saved: an id that is not given out, or whose task
\* still runs, has no picture, any other at most one.
WrittenOnce ==
    /\ \A g \in DOMAIN jobs[live] : g < project[live].next
    /\ ~overwritten => \A g \in Movie!Ids :
        /\ written[g] <= 1
        /\ g >= project[live].next \/ g \in DOMAIN jobs[live] => written[g] = 0

LaunchesAhead == \A l \in Movie!Launches : l > live => DOMAIN jobs[l] = {}

MovieInv ==
    /\ MovieTypes /\ DiskIsSome /\ AllAccounted /\ AllPictured /\ WrittenOnce /\ LaunchesAhead

-----------------------------------------------------------------------------

LEMMA OverHas ==
    ASSUME NEW T, NEW f \in Over(T)
    PROVE  DOMAIN f \in SUBSET Movie!Ids /\ f \in [DOMAIN f -> T]
BY DEF Over

LEMMA PutDomain ==
    ASSUME NEW f, NEW x, NEW v PROVE DOMAIN Movie!Put(f, x, v) = DOMAIN f \cup {x}
BY DEF Movie!Put

LEMMA PutAt == ASSUME NEW f, NEW x, NEW v PROVE Movie!Put(f, x, v)[x] = v
BY DEF Movie!Put

LEMMA PutElse ==
    ASSUME NEW f, NEW x, NEW v, NEW y \in DOMAIN f, y # x
    PROVE  Movie!Put(f, x, v)[y] = f[y]
BY DEF Movie!Put

LEMMA WithoutHas ==
    ASSUME NEW f, NEW gone
    PROVE  /\ DOMAIN Movie!Without(f, gone) = DOMAIN f \ gone
           /\ \A y \in DOMAIN f \ gone : Movie!Without(f, gone)[y] = f[y]
BY DEF Movie!Without, Movie!Restrict

LEMMA ExceptHas ==
    ASSUME NEW f, NEW x \in DOMAIN f, NEW v
    PROVE  /\ DOMAIN [f EXCEPT ![x] = v] = DOMAIN f
           /\ [f EXCEPT ![x] = v][x] = v
           /\ \A y \in DOMAIN f : y # x => [f EXCEPT ![x] = v][y] = f[y]
OBVIOUS

LEMMA CharactersOver ==
    ASSUME NEW f \in Over(Character)
    PROVE  /\ \A x \in Movie!Ids, v \in Character : Movie!Put(f, x, v) \in Over(Character)
           /\ \A gone : Movie!Without(f, gone) \in Over(Character)
           /\ \A x \in DOMAIN f, v \in Character : [f EXCEPT ![x] = v] \in Over(Character)
<1>0. DOMAIN f \in SUBSET Movie!Ids /\ f \in [DOMAIN f -> Character] BY DEF Over
<1>1. ASSUME NEW x \in Movie!Ids, NEW v \in Character PROVE Movie!Put(f, x, v) \in Over(Character)
  <2>1. Movie!Put(f, x, v) \in [DOMAIN f \cup {x} -> Character] BY <1>0 DEF Movie!Put
  <2>2. DOMAIN f \cup {x} \in SUBSET Movie!Ids BY <1>0
  <2> QED BY <2>1, <2>2 DEF Over
<1>2. ASSUME NEW gone PROVE Movie!Without(f, gone) \in Over(Character)
  <2>1. Movie!Without(f, gone) \in [DOMAIN f \ gone -> Character]
      BY <1>0 DEF Movie!Without, Movie!Restrict
  <2>2. DOMAIN f \ gone \in SUBSET Movie!Ids BY <1>0
  <2> QED BY <2>1, <2>2 DEF Over
<1>3. ASSUME NEW x \in DOMAIN f, NEW v \in Character PROVE [f EXCEPT ![x] = v] \in Over(Character)
  <2>1. [f EXCEPT ![x] = v] \in [DOMAIN f -> Character] BY <1>0
  <2> QED BY <1>0, <2>1 DEF Over
<1> QED BY <1>1, <1>2, <1>3

LEMMA GenerationsOver ==
    ASSUME NEW f \in Over(Generation)
    PROVE  /\ \A x \in Movie!Ids, v \in Generation : Movie!Put(f, x, v) \in Over(Generation)
           /\ \A gone : Movie!Without(f, gone) \in Over(Generation)
           /\ \A x \in DOMAIN f, v \in Generation : [f EXCEPT ![x] = v] \in Over(Generation)
<1>0. DOMAIN f \in SUBSET Movie!Ids /\ f \in [DOMAIN f -> Generation] BY DEF Over
<1>1. ASSUME NEW x \in Movie!Ids, NEW v \in Generation PROVE Movie!Put(f, x, v) \in Over(Generation)
  <2>1. Movie!Put(f, x, v) \in [DOMAIN f \cup {x} -> Generation] BY <1>0 DEF Movie!Put
  <2>2. DOMAIN f \cup {x} \in SUBSET Movie!Ids BY <1>0
  <2> QED BY <2>1, <2>2 DEF Over
<1>2. ASSUME NEW gone PROVE Movie!Without(f, gone) \in Over(Generation)
  <2>1. Movie!Without(f, gone) \in [DOMAIN f \ gone -> Generation]
      BY <1>0 DEF Movie!Without, Movie!Restrict
  <2>2. DOMAIN f \ gone \in SUBSET Movie!Ids BY <1>0
  <2> QED BY <2>1, <2>2 DEF Over
<1>3. ASSUME NEW x \in DOMAIN f, NEW v \in Generation PROVE [f EXCEPT ![x] = v] \in Over(Generation)
  <2>1. [f EXCEPT ![x] = v] \in [DOMAIN f -> Generation] BY <1>0
  <2> QED BY <1>0, <2>1 DEF Over
<1> QED BY <1>1, <1>2, <1>3

\* The first picture of a character becomes the one it is shown with.
LEMMA PrimarySet ==
    ASSUME NEW chars \in Over(Character), NEW c, NEW g \in Movie!Ids
    PROVE  /\ Movie!WithPrimary(chars, c, g) \in Over(Character)
           /\ DOMAIN Movie!WithPrimary(chars, c, g) = DOMAIN chars
           /\ \A d \in DOMAIN chars :
                Movie!WithPrimary(chars, c, g)[d].primary \in {chars[d].primary, g}
<1>1. CASE c \in DOMAIN chars /\ chars[c].primary = 0
  <2> DEFINE new == [chars[c] EXCEPT !.primary = g]
  <2>1. chars[c] \in Character BY <1>1, OverHas
  <2>0. g \in 0..MaxIds BY MovieAssumption DEF Movie!Ids
  <2>2. new \in Character /\ new.primary = g BY <2>0, <2>1 DEF Character
  <2>3. Movie!WithPrimary(chars, c, g) = [chars EXCEPT ![c] = new]
      BY <1>1 DEF Movie!WithPrimary
  <2> HIDE DEF new
  <2>4. /\ [chars EXCEPT ![c] = new] \in Over(Character)
        /\ DOMAIN [chars EXCEPT ![c] = new] = DOMAIN chars
        /\ [chars EXCEPT ![c] = new][c] = new
        /\ \A y \in DOMAIN chars : y # c => [chars EXCEPT ![c] = new][y] = chars[y]
      BY <1>1, <2>2, CharactersOver, ExceptHas
  <2>5. ASSUME NEW d \in DOMAIN chars
        PROVE  [chars EXCEPT ![c] = new][d].primary \in {chars[d].primary, g}
      BY <2>2, <2>4
  <2> QED BY <2>3, <2>4, <2>5
<1>2. CASE ~(c \in DOMAIN chars /\ chars[c].primary = 0)
  <2>1. Movie!WithPrimary(chars, c, g) = chars BY <1>2 DEF Movie!WithPrimary
  <2> QED BY <2>1
<1> QED BY <1>1, <1>2

LEMMA SoundParts ==
    ASSUME NEW p, Sound(p)
    PROVE  /\ p.next \in 1..(MaxIds + 1)
           /\ p.characters \in Over(Character) /\ p.generations \in Over(Generation)
           /\ DOMAIN p.characters \subseteq Movie!Ids /\ DOMAIN p.generations \subseteq Movie!Ids
           /\ \A c \in DOMAIN p.characters : p.characters[c] \in Character
           /\ \A g \in DOMAIN p.generations : p.generations[g] \in Generation
BY OverHas DEF Sound

ProjectSet ==
    [next : 1..(MaxIds + 1), characters : Over(Character), generations : Over(Generation)]
Fields(q, n, cs, gs) ==
    q \in ProjectSet /\ q.next = n /\ q.characters = cs /\ q.generations = gs

LEMMA Changed ==
    ASSUME NEW p \in ProjectSet, NEW n \in 1..(MaxIds + 1), NEW cs \in Over(Character),
           NEW gs \in Over(Generation)
    PROVE  /\ Fields([p EXCEPT !.characters = cs], p.next, cs, p.generations)
           /\ Fields([p EXCEPT !.generations = gs], p.next, p.characters, gs)
           /\ Fields([p EXCEPT !.next = n, !.characters = cs], n, cs, p.generations)
           /\ Fields([p EXCEPT !.next = n, !.generations = gs], n, p.characters, gs)
           /\ Fields([p EXCEPT !.characters = cs, !.generations = gs], p.next, cs, gs)
           /\ Fields([p EXCEPT !.generations = gs, !.characters = cs], p.next, cs, gs)
           /\ Fields([p EXCEPT !.next = n, !.generations = gs, !.characters = cs], n, cs, gs)
<1> USE DEF ProjectSet, Fields
<1>1. Fields([p EXCEPT !.characters = cs], p.next, cs, p.generations) OBVIOUS
<1>2. Fields([p EXCEPT !.generations = gs], p.next, p.characters, gs) OBVIOUS
<1>3. Fields([p EXCEPT !.next = n, !.characters = cs], n, cs, p.generations) OBVIOUS
<1>4. Fields([p EXCEPT !.next = n, !.generations = gs], n, p.characters, gs) OBVIOUS
<1>5. Fields([p EXCEPT !.characters = cs, !.generations = gs], p.next, cs, gs) OBVIOUS
<1>6. Fields([p EXCEPT !.generations = gs, !.characters = cs], p.next, cs, gs) OBVIOUS
<1>7. Fields([p EXCEPT !.next = n, !.generations = gs, !.characters = cs], n, cs, gs) OBVIOUS
<1> HIDE DEF Fields
<1> QED BY <1>1, <1>2, <1>3, <1>4, <1>5, <1>6, <1>7

LEMMA FieldsSound ==
    ASSUME NEW q, NEW n, NEW cs, NEW gs, Fields(q, n, cs, gs),
           \A c \in DOMAIN cs : c < n,
           \A g \in DOMAIN gs : g < n /\ gs[g].owner \in DOMAIN cs
    PROVE  Sound(q)
BY DEF Sound, Fields, ProjectSet

\* What a save keeps, of the live launch or of one left behind.
LEMMA Saves ==
    ASSUME MovieInv, NEW l \in Movie!Launches, NEW p, Sound(p),
           project' = [project EXCEPT ![l] = p], disk' = p, live' = live, cut' = cut,
           overwritten' \in BOOLEAN, ~overwritten' => ~overwritten /\ l = live,
           DOMAIN jobs' = Movie!Launches, DOMAIN jobs'[l] \subseteq Movie!Ids,
           \A k \in Movie!Launches : k # l => jobs'[k] = jobs[k],
           written' \in [Movie!Ids -> Nat], Written \subseteq Written',
           Pictures(p) \subseteq Written', Generating(p) \subseteq DOMAIN jobs'[l] \cup cut
    PROVE  MovieTypes' /\ DiskIsSome' /\ AllAccounted' /\ AllPictured'
<1>1. DOMAIN project' = Movie!Launches /\ project'[l] = p
      /\ \A k \in Movie!Launches : k # l => project'[k] = project[k]
    BY DEF MovieInv, MovieTypes
<1>2. MovieTypes'
  <2>1. \A k \in Movie!Launches : Sound(project'[k]) BY <1>1 DEF MovieInv, MovieTypes
  <2>2. \A k \in Movie!Launches : DOMAIN jobs'[k] \subseteq Movie!Ids
      BY DEF MovieInv, MovieTypes
  <2> QED BY <1>1, <2>1, <2>2 DEF MovieInv, MovieTypes
<1>3. DiskIsSome' BY <1>1 DEF DiskIsSome
<1>4. AllAccounted'
  <2> SUFFICES ASSUME NEW k \in Movie!Launches
               PROVE  Generating(project'[k]) \subseteq DOMAIN jobs'[k] \cup cut
      BY DEF AllAccounted
  <2>1. CASE k = l BY <2>1, <1>1
  <2>2. CASE k # l BY <2>2, <1>1 DEF MovieInv, AllAccounted
  <2> QED BY <2>1, <2>2
<1>5. AllPictured'
  <2> SUFFICES ASSUME NEW k \in Movie!Launches PROVE Pictures(project'[k]) \subseteq Written'
      BY DEF AllPictured
  <2>1. CASE k = l BY <2>1, <1>1
  <2>2. CASE k # l BY <2>2, <1>1 DEF MovieInv, AllPictured
  <2> QED BY <2>1, <2>2
<1> QED BY <1>2, <1>3, <1>4, <1>5

\* A save of the live launch by the page or a tool, which asks for no picture.
LEMMA PageSaves ==
    ASSUME MovieInv, NEW p, Sound(p), Movie!Save(live, p), p.next >= project[live].next,
           Generating(p) \subseteq Generating(project[live]), Pictures(p) \subseteq Written,
           UNCHANGED <<live, jobs, written, cut, overwritten>>
    PROVE  MovieInv'
<1>1. live \in Movie!Launches /\ project' = [project EXCEPT ![live] = p] /\ disk' = p
      /\ project'[live] = p
    BY DEF Movie!Save, MovieInv, MovieTypes
<1>2. Written' = Written BY DEF Written
<1>3. Generating(p) \subseteq DOMAIN jobs'[live] \cup cut BY <1>1 DEF MovieInv, AllAccounted
<1>4. MovieTypes' /\ DiskIsSome' /\ AllAccounted' /\ AllPictured'
  <2>1. overwritten' \in BOOLEAN /\ (~overwritten' => ~overwritten)
      BY DEF MovieInv, MovieTypes
  <2>2. /\ DOMAIN jobs' = Movie!Launches /\ DOMAIN jobs'[live] \subseteq Movie!Ids
        /\ written' \in [Movie!Ids -> Nat]
      BY <1>1 DEF MovieInv, MovieTypes
  <2> QED BY <1>1, <1>2, <1>3, <2>1, <2>2, Saves
<1>5. WrittenOnce'
  <2>1. project[live].next \in Int /\ p.next \in Int /\ \A g \in Movie!Ids : g \in Int
      BY <1>1, SoundParts DEF MovieInv, MovieTypes, Movie!Ids
  <2>2. DOMAIN jobs[live] \subseteq Movie!Ids BY <1>1 DEF MovieInv, MovieTypes
  <2>3. \A g \in Movie!Ids : g < project[live].next => g < p.next BY <2>1
  <2>4. \A g \in Movie!Ids : g >= p.next => g >= project[live].next BY <2>1
  <2> QED BY <1>1, <2>2, <2>3, <2>4 DEF MovieInv, WrittenOnce
<1>6. LaunchesAhead' BY DEF MovieInv, LaunchesAhead
<1> QED BY <1>4, <1>5, <1>6 DEF MovieInv

LEMMA HereSound ==
    ASSUME MovieInv
    PROVE  /\ Sound(Movie!Here) /\ Movie!Here \in ProjectSet /\ Movie!Here = project[live]
           /\ Pictures(Movie!Here) \subseteq Written
           /\ Generating(Movie!Here) \subseteq DOMAIN jobs[live] \cup cut
           /\ live \in Movie!Launches
BY DEF MovieInv, MovieTypes, AllPictured, AllAccounted, Movie!Here, Sound, ProjectSet

LEMMA CreateStep ==
    ASSUME MovieInv, Movie!Create, UNCHANGED <<live, jobs, written, cut, overwritten>>
    PROVE  MovieInv'
<1> DEFINE p == Movie!Here
           n == p.next + 1
           cs == Movie!Put(p.characters, p.next, Movie!NewCharacter)
           q == [p EXCEPT !.next = n, !.characters = cs]
<1>1. Sound(p) /\ p \in ProjectSet /\ p = project[live] /\ Pictures(p) \subseteq Written
    BY HereSound
<1>2. p.next \in Movie!Ids /\ Movie!Save(live, q) BY DEF Movie!Create
<1>3. n \in 1..(MaxIds + 1) /\ n > p.next BY <1>2, MovieAssumption DEF Movie!Ids
<1>4. Movie!NewCharacter \in Character /\ Movie!NewCharacter.primary = 0
    BY MovieAssumption DEF Movie!NewCharacter, Character
<1>5. /\ p.characters \in Over(Character) /\ p.generations \in Over(Generation)
      /\ DOMAIN p.characters \subseteq Movie!Ids /\ DOMAIN p.generations \subseteq Movie!Ids
    BY <1>1, SoundParts
<1> HIDE DEF p, n
<1>6. /\ cs \in Over(Character) /\ DOMAIN cs = DOMAIN p.characters \cup {p.next}
      /\ cs[p.next] = Movie!NewCharacter
      /\ \A y \in DOMAIN p.characters : y # p.next => cs[y] = p.characters[y]
  <2>1. PICK f : f = p.characters OBVIOUS
  <2>2. PICK x : x = p.next OBVIOUS
  <2>3. PICK v : v = Movie!NewCharacter OBVIOUS
  <2>4. cs = Movie!Put(f, x, v) BY <2>1, <2>2, <2>3
  <2>5. f \in Over(Character) /\ x \in Movie!Ids /\ v \in Character
      BY <1>2, <1>4, <1>5, <2>1, <2>2, <2>3
  <2> HIDE DEF cs
  <2>6. /\ Movie!Put(f, x, v) \in Over(Character)
        /\ DOMAIN Movie!Put(f, x, v) = DOMAIN f \cup {x}
        /\ Movie!Put(f, x, v)[x] = v
        /\ \A y \in DOMAIN f : y # x => Movie!Put(f, x, v)[y] = f[y]
    <3>1. Movie!Put(f, x, v) \in Over(Character) BY <2>5, CharactersOver
    <3>2. DOMAIN Movie!Put(f, x, v) = DOMAIN f \cup {x} BY PutDomain
    <3>3. Movie!Put(f, x, v)[x] = v BY PutAt
    <3>4. \A y \in DOMAIN f : y # x => Movie!Put(f, x, v)[y] = f[y] BY PutElse
    <3> QED BY <3>1, <3>2, <3>3, <3>4
  <2> QED BY <2>1, <2>2, <2>3, <2>4, <2>6
<1> HIDE DEF cs
<1>7. Fields(q, n, cs, p.generations) BY <1>1, <1>3, <1>5, <1>6, Changed
<1>8. Sound(q)
  <2>1. \A c \in DOMAIN p.characters : c < p.next BY <1>1 DEF Sound
  <2>2. \A c \in DOMAIN cs : c < n
      BY <1>2, <1>3, <1>5, <1>6, <2>1 DEF Movie!Ids, n
  <2>3. \A g \in DOMAIN p.generations : g < n /\ p.generations[g].owner \in DOMAIN cs
      BY <1>1, <1>2, <1>3, <1>5, <1>6 DEF Sound, Movie!Ids, n
  <2> QED BY <1>7, <2>2, <2>3, FieldsSound
<1> HIDE DEF q
<1>9. Generating(q) = Generating(p) BY <1>7 DEF Fields, Generating
<1>10. Pictures(q) \subseteq Written
  <2>1. \A c \in DOMAIN cs :
            \/ cs[c].primary = 0
            \/ c \in DOMAIN p.characters /\ cs[c].primary = p.characters[c].primary
      BY <1>4, <1>6
  <2> QED BY <1>1, <1>7, <2>1 DEF Fields, Pictures
<1>11. q.next >= project[live].next BY <1>1, <1>2, <1>3, <1>7 DEF Fields, Movie!Ids, n
<1> QED BY <1>1, <1>2, <1>8, <1>9, <1>10, <1>11, PageSaves

\* Of a change that leaves the ids: the characters and generations that remain.
LEMMA KeptSound ==
    ASSUME NEW p, Sound(p), NEW q, NEW cs, NEW gs, Fields(q, p.next, cs, gs),
           DOMAIN cs \subseteq DOMAIN p.characters, DOMAIN gs \subseteq DOMAIN p.generations,
           \A g \in DOMAIN gs : gs[g].owner = p.generations[g].owner /\ gs[g].owner \in DOMAIN cs
    PROVE  Sound(q)
<1>1. \A c \in DOMAIN cs : c < p.next BY DEF Sound
<1>2. \A g \in DOMAIN gs : g < p.next /\ gs[g].owner \in DOMAIN cs BY DEF Sound
<1> QED BY <1>1, <1>2, FieldsSound

\* A character is changed in place.
LEMMA CharacterStep ==
    ASSUME MovieInv, NEW c \in DOMAIN Movie!Here.characters, NEW v \in Character,
           v.primary \in {0, Movie!Here.characters[c].primary} \cup Written,
           Movie!Save(live, [Movie!Here EXCEPT !.characters = [Movie!Here.characters EXCEPT ![c] = v]]),
           UNCHANGED <<live, jobs, written, cut, overwritten>>
    PROVE  MovieInv'
<1> DEFINE p == Movie!Here
           cs == [p.characters EXCEPT ![c] = v]
           q == [p EXCEPT !.characters = cs]
<1>1. Sound(p) /\ p \in ProjectSet /\ p = project[live] /\ Pictures(p) \subseteq Written
    BY HereSound
<1>2. p.characters \in Over(Character) /\ p.generations \in Over(Generation)
      /\ p.next \in 1..(MaxIds + 1)
    BY <1>1, SoundParts
<1>3. /\ cs \in Over(Character) /\ DOMAIN cs = DOMAIN p.characters /\ cs[c] = v
      /\ \A y \in DOMAIN p.characters : y # c => cs[y] = p.characters[y]
  <2> HIDE DEF p
  <2>1. c \in DOMAIN p.characters BY DEF p
  <2> QED BY <1>2, <2>1, CharactersOver, ExceptHas
<1>4. Movie!Save(live, q) OBVIOUS
<1>5. v.primary \in {0, p.characters[c].primary} \cup Written OBVIOUS
<1> HIDE DEF p
<1> HIDE DEF cs
<1>6. Fields(q, p.next, cs, p.generations) BY <1>1, <1>2, <1>3, Changed
<1>7. Sound(q)
  <2>1. \A g \in DOMAIN p.generations : p.generations[g].owner \in DOMAIN cs
      BY <1>1, <1>3 DEF Sound
  <2> QED BY <1>1, <1>3, <1>6, <2>1, KeptSound
<1> HIDE DEF q
<1>8. Generating(q) = Generating(p) BY <1>6 DEF Fields, Generating
<1>9. Pictures(q) \subseteq Written
  <2>1. \A d \in DOMAIN cs : cs[d].primary \in {0, p.characters[d].primary} \cup Written
      BY <1>3, <1>5
  <2> QED BY <1>1, <1>3, <1>6, <2>1 DEF Fields, Pictures
<1>10. q.next >= project[live].next BY <1>1, <1>2, <1>6 DEF Fields
<1> QED BY <1>1, <1>4, <1>7, <1>8, <1>9, <1>10, PageSaves

LEMMA UpdateStep ==
    ASSUME MovieInv, NEW c, Movie!Update(c), UNCHANGED <<live, jobs, written, cut, overwritten>>
    PROVE  MovieInv'
<1> DEFINE v == [Movie!Here.characters[c] EXCEPT !.edited = TRUE]
<1>1. c \in DOMAIN Movie!Here.characters BY DEF Movie!Update, Movie!Alive, Movie!Here
<1>2. Movie!Here.characters[c] \in Character BY <1>1, HereSound, SoundParts
<1>3. v \in Character /\ v.primary = Movie!Here.characters[c].primary BY <1>2 DEF Character
<1>4. Movie!Save(live, [Movie!Here EXCEPT !.characters = [Movie!Here.characters EXCEPT ![c] = v]])
    BY DEF Movie!Update
<1> HIDE DEF v
<1> QED BY <1>1, <1>3, <1>4, CharacterStep

LEMMA SetPrimaryStep ==
    ASSUME MovieInv, NEW g, Movie!SetPrimary(g), UNCHANGED <<live, jobs, written, cut, overwritten>>
    PROVE  MovieInv'
<1> DEFINE c == Movie!Here.generations[g].owner
           v == [Movie!Here.characters[c] EXCEPT !.primary = g]
<1>1. g \in DOMAIN Movie!Here.generations /\ Movie!Here.generations[g].status = "done"
    BY DEF Movie!SetPrimary
<1>2. c \in DOMAIN Movie!Here.characters /\ g \in Movie!Ids
  <2>1. Sound(Movie!Here) BY HereSound
  <2> QED BY <1>1, <2>1, SoundParts DEF Sound
<1>3. Movie!Here.characters[c] \in Character BY <1>2, HereSound, SoundParts
<1>4. g \in 0..MaxIds BY <1>2, MovieAssumption DEF Movie!Ids
<1>5. v \in Character /\ v.primary = g BY <1>3, <1>4 DEF Character
<1>6. g \in Written BY <1>1, HereSound DEF Pictures
<1>7. Movie!Save(live, [Movie!Here EXCEPT !.characters = [Movie!Here.characters EXCEPT ![c] = v]])
    BY DEF Movie!SetPrimary
<1> HIDE DEF v, c
<1> QED BY <1>2, <1>5, <1>6, <1>7, CharacterStep

LEMMA DeleteGenerationStep ==
    ASSUME MovieInv, NEW g, Movie!DeleteGeneration(g),
           UNCHANGED <<live, jobs, written, cut, overwritten>>
    PROVE  MovieInv'
<1> DEFINE p == Movie!Here
           gone == {g}
           gs == Movie!Without(p.generations, gone)
           q == [p EXCEPT !.generations = gs]
<1>1. Sound(p) /\ p \in ProjectSet /\ p = project[live] /\ Pictures(p) \subseteq Written
    BY HereSound
<1>2. p.characters \in Over(Character) /\ p.generations \in Over(Generation)
      /\ p.next \in 1..(MaxIds + 1)
    BY <1>1, SoundParts
<1>3. Movie!Save(live, q) BY DEF Movie!DeleteGeneration
<1> HIDE DEF p
<1> HIDE DEF gone
<1>4. /\ gs \in Over(Generation) /\ DOMAIN gs = DOMAIN p.generations \ gone
      /\ \A y \in DOMAIN p.generations \ gone : gs[y] = p.generations[y]
  <2>1. PICK f : f = p.generations OBVIOUS
  <2>2. f \in Over(Generation) BY <1>2, <2>1
  <2>3. /\ Movie!Without(f, gone) \in Over(Generation)
        /\ DOMAIN Movie!Without(f, gone) = DOMAIN f \ gone
        /\ \A y \in DOMAIN f \ gone : Movie!Without(f, gone)[y] = f[y]
      BY <2>2, GenerationsOver, WithoutHas
  <2> QED BY <2>1, <2>3
<1> HIDE DEF gs
<1>5. Fields(q, p.next, p.characters, gs) BY <1>1, <1>2, <1>4, Changed
<1>6. Sound(q)
  <2>1. \A y \in DOMAIN gs : gs[y].owner = p.generations[y].owner /\ gs[y].owner \in DOMAIN p.characters
      BY <1>1, <1>4 DEF Sound
  <2>2. DOMAIN p.characters \subseteq DOMAIN p.characters
        /\ DOMAIN gs \subseteq DOMAIN p.generations
      BY <1>4
  <2>3. PICK cs : cs = p.characters OBVIOUS
  <2> QED BY <1>1, <1>5, <2>1, <2>2, <2>3, KeptSound
<1> HIDE DEF q
<1>7. Generating(q) \subseteq Generating(p) BY <1>4, <1>5 DEF Fields, Generating
<1>8. Pictures(q) \subseteq Pictures(p) BY <1>4, <1>5 DEF Fields, Pictures
<1>9. q.next >= project[live].next BY <1>1, <1>2, <1>5 DEF Fields
<1> QED BY <1>1, <1>3, <1>6, <1>7, <1>8, <1>9, PageSaves

LEMMA DeleteCharacterStep ==
    ASSUME MovieInv, NEW c, Movie!DeleteCharacter(c),
           UNCHANGED <<live, jobs, written, cut, overwritten>>
    PROVE  MovieInv'
<1> DEFINE p == Movie!Here
           its == {g \in DOMAIN p.generations : p.generations[g].owner = c}
           gone == {c}
           cs == Movie!Without(p.characters, gone)
           gs == Movie!Without(p.generations, its)
           q == [p EXCEPT !.characters = cs, !.generations = gs]
<1>1. Sound(p) /\ p \in ProjectSet /\ p = project[live] /\ Pictures(p) \subseteq Written
    BY HereSound
<1>2. p.characters \in Over(Character) /\ p.generations \in Over(Generation)
      /\ p.next \in 1..(MaxIds + 1)
    BY <1>1, SoundParts
<1>3. Movie!Save(live, q) BY DEF Movie!DeleteCharacter
<1> HIDE DEF p
<1>4. /\ cs \in Over(Character) /\ DOMAIN cs = DOMAIN p.characters \ gone
      /\ \A y \in DOMAIN p.characters \ gone : cs[y] = p.characters[y]
  <2> HIDE DEF gone, q, its
  <2> QED BY <1>2, CharactersOver, WithoutHas
<1>5. /\ gs \in Over(Generation) /\ DOMAIN gs = DOMAIN p.generations \ its
      /\ \A y \in DOMAIN p.generations \ its : gs[y] = p.generations[y]
  <2> HIDE DEF its
  <2> QED BY <1>2, GenerationsOver, WithoutHas
<1> HIDE DEF cs, gs
<1>6. Fields(q, p.next, cs, gs) BY <1>1, <1>2, <1>4, <1>5, Changed
<1>7. Sound(q)
  <2>1. \A y \in DOMAIN gs : gs[y].owner = p.generations[y].owner /\ gs[y].owner \in DOMAIN cs
    <3>1. \A y \in DOMAIN gs : y \in DOMAIN p.generations /\ y \notin its /\ gs[y] = p.generations[y]
        BY <1>5
    <3>2. \A y \in DOMAIN p.generations : y \notin its => p.generations[y].owner # c
        OBVIOUS
    <3>3. \A y \in DOMAIN p.generations : p.generations[y].owner \in DOMAIN p.characters
        BY <1>1 DEF Sound
    <3> HIDE DEF its
    <3> QED BY <3>1, <3>2, <3>3, <1>4
  <2>2. DOMAIN cs \subseteq DOMAIN p.characters /\ DOMAIN gs \subseteq DOMAIN p.generations
      BY <1>4, <1>5
  <2> HIDE DEF q, its, gone
  <2>3. \A d \in DOMAIN cs : d < p.next BY <1>1, <2>2 DEF Sound
  <2>4. \A g \in DOMAIN gs : g < p.next BY <1>1, <2>2 DEF Sound
  <2> QED BY <1>6, <2>1, <2>3, <2>4 DEF Sound, Fields, ProjectSet
<1> HIDE DEF q
<1>8. Generating(q) \subseteq Generating(p) BY <1>5, <1>6 DEF Fields, Generating
<1>9. Pictures(q) \subseteq Pictures(p) BY <1>4, <1>5, <1>6 DEF Fields, Pictures
<1>10. q.next >= project[live].next BY <1>1, <1>2, <1>6 DEF Fields
<1> QED BY <1>1, <1>3, <1>7, <1>8, <1>9, <1>10, PageSaves

LEMMA PageStep == ASSUME MovieInv, Movie!PageChanges PROVE MovieInv'
<1>1. UNCHANGED <<live, jobs, written, cut, overwritten>> BY DEF Movie!PageChanges
<1>2. CASE Movie!Create BY <1>1, <1>2, CreateStep
<1>3. ASSUME NEW x \in Movie!Ids, Movie!Update(x) PROVE MovieInv' BY <1>1, <1>3, UpdateStep
<1>4. ASSUME NEW x \in Movie!Ids, Movie!SetPrimary(x) PROVE MovieInv'
    BY <1>1, <1>4, SetPrimaryStep
<1>5. ASSUME NEW x \in Movie!Ids, Movie!DeleteCharacter(x) PROVE MovieInv'
    BY <1>1, <1>5, DeleteCharacterStep
<1>6. ASSUME NEW x \in Movie!Ids, Movie!DeleteGeneration(x) PROVE MovieInv'
    BY <1>1, <1>6, DeleteGenerationStep
<1> QED BY <1>2, <1>3, <1>4, <1>5, <1>6 DEF Movie!PageChanges

\* A project with one more generation.
LEMMA AddedSound ==
    ASSUME NEW p, Sound(p), p.next \in Movie!Ids, NEW v \in Generation,
           NEW cs, DOMAIN cs = DOMAIN p.characters, v.owner \in DOMAIN cs,
           NEW q, Fields(q, p.next + 1, cs, Movie!Put(p.generations, p.next, v))
    PROVE  /\ Sound(q)
           /\ Generating(q) \subseteq Generating(p) \cup {p.next}
           /\ v.status # "generating" => Generating(q) \subseteq Generating(p)
           /\ \A g \in DOMAIN q.generations :
                q.generations[g].status = "done" =>
                    \/ g = p.next /\ v.status = "done"
                    \/ g \in DOMAIN p.generations /\ p.generations[g].status = "done"
<1> DEFINE gs == Movie!Put(p.generations, p.next, v)
<1>1. DOMAIN gs = DOMAIN p.generations \cup {p.next} BY PutDomain
<1>2. gs[p.next] = v BY PutAt
<1>3. \A y \in DOMAIN p.generations : y # p.next => gs[y] = p.generations[y] BY PutElse
<1>4. Fields(q, p.next + 1, cs, gs) OBVIOUS
<1> HIDE DEF gs
<1>5. p.next \in Int /\ DOMAIN p.characters \subseteq Int /\ DOMAIN p.generations \subseteq Int
    BY SoundParts DEF Movie!Ids
<1>6. \A c \in DOMAIN cs : c < p.next + 1 BY <1>5 DEF Sound
<1>7. \A g \in DOMAIN gs : g < p.next + 1 BY <1>1, <1>5 DEF Sound
<1>8. \A g \in DOMAIN gs : gs[g].owner \in DOMAIN cs BY <1>1, <1>2, <1>3 DEF Sound
<1>9. Sound(q) BY <1>4, <1>6, <1>7, <1>8 DEF Sound, Fields, ProjectSet
<1>10. q.generations = gs BY <1>4 DEF Fields
<1>11. \A g \in DOMAIN gs : \/ g = p.next /\ gs[g] = v
                            \/ g \in DOMAIN p.generations /\ gs[g] = p.generations[g]
    BY <1>1, <1>2, <1>3
<1>12. Generating(q) \subseteq Generating(p) \cup {p.next} BY <1>10, <1>11 DEF Generating
<1>13. v.status # "generating" => Generating(q) \subseteq Generating(p)
    BY <1>10, <1>11 DEF Generating
<1>14. \A g \in DOMAIN gs : gs[g].status = "done" =>
            \/ g = p.next /\ v.status = "done"
            \/ g \in DOMAIN p.generations /\ p.generations[g].status = "done"
    BY <1>11
<1> QED BY <1>9, <1>10, <1>12, <1>13, <1>14

LEMMA UploadStep == ASSUME MovieInv, Movie!Upload PROVE MovieInv'
<1> DEFINE p == Movie!Here
<1>1. PICK c \in DOMAIN p.characters :
        Movie!Save(live, [p EXCEPT !.next = @ + 1,
            !.generations = Movie!Put(@, p.next, [owner |-> c, status |-> "done"]),
            !.characters = Movie!WithPrimary(@, c, p.next)])
    BY DEF Movie!Upload
<1> DEFINE v == [owner |-> c, status |-> "done"]
           gs == Movie!Put(p.generations, p.next, v)
           cs == Movie!WithPrimary(p.characters, c, p.next)
           n == p.next + 1
           q == [p EXCEPT !.next = n, !.generations = gs, !.characters = cs]
<1>2. /\ p.next \in Movie!Ids /\ written' = [written EXCEPT ![p.next] = @ + 1]
      /\ UNCHANGED <<live, jobs, cut, overwritten>>
    BY DEF Movie!Upload
<1>3. Movie!Save(live, q) BY <1>1
<1>4. /\ Sound(p) /\ p \in ProjectSet /\ p = project[live] /\ Pictures(p) \subseteq Written
      /\ Generating(p) \subseteq DOMAIN jobs[live] \cup cut /\ live \in Movie!Launches
    BY HereSound
<1> HIDE DEF p
<1>5. /\ p.characters \in Over(Character) /\ p.generations \in Over(Generation)
      /\ DOMAIN p.characters \subseteq Movie!Ids
    BY <1>4, SoundParts
<1>6. v \in Generation BY <1>5 DEF Generation, Movie!Statuses
<1>7. gs \in Over(Generation)
  <2> HIDE DEF v
  <2> QED BY <1>2, <1>5, <1>6, GenerationsOver
<1>8. /\ cs \in Over(Character) /\ DOMAIN cs = DOMAIN p.characters
      /\ \A d \in DOMAIN p.characters : cs[d].primary \in {p.characters[d].primary, p.next}
    BY <1>2, <1>5, PrimarySet
<1>9. n \in 1..(MaxIds + 1) BY <1>2, MovieAssumption DEF Movie!Ids
<1>10. Fields(q, n, cs, gs)
  <2> HIDE DEF cs, gs, n
  <2> QED BY <1>4, <1>7, <1>8, <1>9, Changed
<1>11. /\ Sound(q) /\ Generating(q) \subseteq Generating(p)
       /\ \A g \in DOMAIN q.generations : q.generations[g].status = "done" =>
            g = p.next \/ (g \in DOMAIN p.generations /\ p.generations[g].status = "done")
  <2>1. v.owner \in DOMAIN cs /\ v.status # "generating" BY <1>8
  <2>2. Fields(q, p.next + 1, cs, Movie!Put(p.generations, p.next, v)) BY <1>10
  <2> HIDE DEF q, cs, v
  <2> QED BY <1>2, <1>4, <1>6, <1>8, <2>1, <2>2, AddedSound
<1>12. /\ written \in [Movie!Ids -> Nat] /\ written' \in [Movie!Ids -> Nat]
       /\ written'[p.next] = written[p.next] + 1
       /\ \A g \in Movie!Ids : g # p.next => written'[g] = written[g]
    BY <1>2 DEF MovieInv, MovieTypes
<1>13. Written' = Written \cup {p.next} BY <1>2, <1>12 DEF Written
<1> HIDE DEF q, cs, gs, v
<1>14. Pictures(q) \subseteq Written'
  <2>1. \A d \in DOMAIN cs : cs[d].primary \in {p.characters[d].primary, p.next} BY <1>8
  <2>2. \A d \in DOMAIN p.characters : p.characters[d].primary \in Written \cup {0}
      BY <1>4 DEF Pictures
  <2>3. \A g \in DOMAIN p.generations : p.generations[g].status = "done" => g \in Written
      BY <1>4 DEF Pictures
  <2>4. q.characters = cs BY <1>10 DEF Fields
  <2> QED BY <1>8, <1>11, <1>13, <2>1, <2>2, <2>3, <2>4 DEF Pictures
<1>15. project' = [project EXCEPT ![live] = q] /\ disk' = q /\ project'[live] = q
    BY <1>3, <1>4 DEF Movie!Save, MovieInv, MovieTypes
<1>16. MovieTypes' /\ DiskIsSome' /\ AllAccounted' /\ AllPictured'
  <2>1. overwritten' \in BOOLEAN /\ (~overwritten' => ~overwritten)
      BY <1>2 DEF MovieInv, MovieTypes
  <2>2. /\ DOMAIN jobs' = Movie!Launches /\ DOMAIN jobs'[live] \subseteq Movie!Ids
      BY <1>2, <1>4 DEF MovieInv, MovieTypes
  <2>3. Generating(q) \subseteq DOMAIN jobs'[live] \cup cut BY <1>2, <1>4, <1>11
  <2>4. Written \subseteq Written' BY <1>13
  <2>5. \A k \in Movie!Launches : k # live => jobs'[k] = jobs[k] BY <1>2
  <2> QED BY <1>2, <1>4, <1>11, <1>12, <1>14, <1>15, <2>1, <2>2, <2>3, <2>4, <2>5, Saves
<1>17. WrittenOnce'
  <2>1. q.next = p.next + 1 /\ p.next \in Int /\ \A g \in Movie!Ids : g \in Int
      BY <1>2, <1>10 DEF Fields, Movie!Ids
  <2>2. DOMAIN jobs[live] \subseteq Movie!Ids BY <1>4 DEF MovieInv, MovieTypes
  <2>3. \A g \in DOMAIN jobs[live] : g < p.next BY <1>4 DEF MovieInv, WrittenOnce
  <2>4. \A g \in DOMAIN jobs'[live'] : g < project'[live'].next
      BY <1>2, <1>15, <2>1, <2>2, <2>3
  <2>5. ASSUME ~overwritten', NEW g \in Movie!Ids
        PROVE  /\ written'[g] <= 1
               /\ g >= project'[live'].next \/ g \in DOMAIN jobs'[live'] => written'[g] = 0
    <3>1. /\ written[g] <= 1
          /\ g >= p.next \/ g \in DOMAIN jobs[live] => written[g] = 0
        BY <1>2, <1>4, <2>5 DEF MovieInv, WrittenOnce
    <3>2. CASE g = p.next
      <4>1. written'[g] = 1 BY <1>12, <2>1, <3>1, <3>2
      <4>2. ~(g >= project'[live'].next) /\ g \notin DOMAIN jobs'[live']
          BY <1>2, <1>15, <2>1, <2>3, <3>2
      <4> QED BY <4>1, <4>2
    <3>3. CASE g # p.next
      <4>1. g >= project'[live'].next => g >= p.next BY <1>2, <1>15, <2>1
      <4> QED BY <1>2, <1>12, <3>1, <3>3, <4>1
    <3> QED BY <3>2, <3>3
  <2> QED BY <2>4, <2>5 DEF WrittenOnce
<1>18. LaunchesAhead' BY <1>2 DEF MovieInv, LaunchesAhead
<1> QED BY <1>16, <1>17, <1>18 DEF MovieInv

LEMMA EnqueueStep ==
    ASSUME MovieInv, NEW c, NEW model, NEW by, Movie!Enqueue(c, model, by),
           UNCHANGED <<live, written, cut, overwritten>>
    PROVE  MovieInv'
<1> DEFINE p == Movie!Here
           v == [owner |-> c, status |-> "generating"]
           gs == IF Movie!Alive(live, c) THEN Movie!Put(p.generations, p.next, v)
                 ELSE p.generations
           n == p.next + 1
           q == [p EXCEPT !.next = n, !.generations = gs]
           job == [owner |-> c, model |-> model, by |-> by, phase |-> "saved", late |-> FALSE]
<1>1. /\ p.next \in Movie!Ids /\ Movie!Save(live, q)
      /\ jobs' = [jobs EXCEPT ![live] = Movie!Put(@, p.next, job)]
    BY DEF Movie!Enqueue
<1>2. /\ Sound(p) /\ p \in ProjectSet /\ p = project[live] /\ Pictures(p) \subseteq Written
      /\ Generating(p) \subseteq DOMAIN jobs[live] \cup cut /\ live \in Movie!Launches
    BY HereSound
<1>3. Movie!Alive(live, c) <=> c \in DOMAIN p.characters BY <1>2 DEF Movie!Alive
<1> HIDE DEF p, job
<1>4. /\ p.characters \in Over(Character) /\ p.generations \in Over(Generation)
      /\ DOMAIN p.characters \subseteq Movie!Ids
    BY <1>2, SoundParts
<1>5. n \in 1..(MaxIds + 1) /\ p.next \in Int BY <1>1, MovieAssumption DEF Movie!Ids
<1>6. /\ DOMAIN jobs' = Movie!Launches
      /\ DOMAIN jobs'[live] = DOMAIN jobs[live] \cup {p.next}
      /\ \A k \in Movie!Launches : k # live => jobs'[k] = jobs[k]
  <2>1. PICK new : new = Movie!Put(jobs[live], p.next, job) OBVIOUS
  <2>2. DOMAIN new = DOMAIN jobs[live] \cup {p.next} BY <2>1, PutDomain
  <2>3. jobs' = [jobs EXCEPT ![live] = new] BY <1>1, <2>1
  <2> QED BY <1>2, <2>2, <2>3 DEF MovieInv, MovieTypes
<1>7. /\ Fields(q, n, p.characters, gs) /\ Sound(q)
      /\ Generating(q) \subseteq Generating(p) \cup {p.next}
      /\ \A g \in DOMAIN q.generations : q.generations[g].status = "done" =>
            g \in DOMAIN p.generations /\ p.generations[g].status = "done"
  <2>1. CASE Movie!Alive(live, c)
    <3>1. v \in Generation /\ v.owner = c /\ v.status = "generating"
        BY <2>1, <1>3, <1>4 DEF Generation, Movie!Statuses
    <3>2. gs = Movie!Put(p.generations, p.next, v) BY <2>1
    <3>3. PICK w : w = v OBVIOUS
    <3>4. PICK f : f = p.generations OBVIOUS
    <3> HIDE DEF v
    <3>5. gs \in Over(Generation) BY <1>1, <1>4, <3>1, <3>2, GenerationsOver
    <3> HIDE DEF gs, n
    <3>6. Fields(q, n, p.characters, gs) BY <1>2, <1>4, <1>5, <3>5, Changed
    <3> HIDE DEF q
    <3>7. Fields(q, p.next + 1, p.characters, Movie!Put(p.generations, p.next, v))
        BY <3>2, <3>6 DEF n
    <3>8. PICK cs : cs = p.characters OBVIOUS
    <3>9. DOMAIN cs = DOMAIN p.characters /\ v.owner \in DOMAIN cs
          /\ Fields(q, p.next + 1, cs, Movie!Put(p.generations, p.next, v))
        BY <1>3, <2>1, <3>1, <3>7, <3>8
    <3>10. /\ Sound(q)
           /\ Generating(q) \subseteq Generating(p) \cup {p.next}
           /\ \A g \in DOMAIN q.generations :
                q.generations[g].status = "done" =>
                    \/ g = p.next /\ v.status = "done"
                    \/ g \in DOMAIN p.generations /\ p.generations[g].status = "done"
        BY <1>1, <1>2, <3>1, <3>9, AddedSound
    <3> QED BY <3>1, <3>6, <3>10
  <2>2. CASE ~Movie!Alive(live, c)
    <3>1. gs = p.generations BY <2>2
    <3> HIDE DEF gs, n
    <3>2. Fields(q, n, p.characters, gs) BY <1>2, <1>4, <1>5, <3>1, Changed
    <3> HIDE DEF q
    <3>3. DOMAIN p.characters \subseteq Int /\ DOMAIN p.generations \subseteq Int
        BY <1>2, SoundParts DEF Movie!Ids
    <3>4. \A d \in DOMAIN p.characters : d < n BY <1>2, <1>5, <3>3 DEF Sound, n
    <3>5. \A g \in DOMAIN p.generations : g < n BY <1>2, <1>5, <3>3 DEF Sound, n
    <3>6. \A g \in DOMAIN p.generations : p.generations[g].owner \in DOMAIN p.characters
        BY <1>2 DEF Sound
    <3>7. Sound(q) BY <3>1, <3>2, <3>4, <3>5, <3>6 DEF Sound, Fields, ProjectSet
    <3>8. q.generations = p.generations BY <3>1, <3>2 DEF Fields
    <3> QED BY <3>2, <3>7, <3>8 DEF Generating
  <2> QED BY <2>1, <2>2
<1> HIDE DEF q
<1>8. q.next = n /\ q.characters = p.characters BY <1>7 DEF Fields
<1>9. Written' = Written BY DEF Written
<1>10. Pictures(q) \subseteq Written' BY <1>2, <1>7, <1>8, <1>9 DEF Pictures
<1>11. project' = [project EXCEPT ![live] = q] /\ disk' = q /\ project'[live] = q
    BY <1>1, <1>2 DEF Movie!Save, MovieInv, MovieTypes
<1>12. MovieTypes' /\ DiskIsSome' /\ AllAccounted' /\ AllPictured'
  <2>1. overwritten' \in BOOLEAN /\ (~overwritten' => ~overwritten)
      BY DEF MovieInv, MovieTypes
  <2>2. DOMAIN jobs'[live] \subseteq Movie!Ids
      BY <1>1, <1>2, <1>6 DEF MovieInv, MovieTypes
  <2>3. Generating(q) \subseteq DOMAIN jobs'[live] \cup cut BY <1>2, <1>6, <1>7
  <2>4. Written \subseteq Written' /\ written' \in [Movie!Ids -> Nat]
      BY <1>9 DEF MovieInv, MovieTypes
  <2> QED BY <1>2, <1>6, <1>7, <1>10, <1>11, <2>1, <2>2, <2>3, <2>4, Saves
<1>13. WrittenOnce'
  <2>1. \A g \in Movie!Ids : g \in Int BY DEF Movie!Ids
  <2>2. DOMAIN jobs[live] \subseteq Movie!Ids BY <1>2 DEF MovieInv, MovieTypes
  <2>3. \A g \in DOMAIN jobs[live] : g < p.next BY <1>2 DEF MovieInv, WrittenOnce
  <2>4. \A g \in DOMAIN jobs'[live'] : g < project'[live'].next
      BY <1>5, <1>6, <1>8, <1>11, <2>1, <2>2, <2>3
  <2>5. ASSUME ~overwritten', NEW g \in Movie!Ids
        PROVE  /\ written'[g] <= 1
               /\ g >= project'[live'].next \/ g \in DOMAIN jobs'[live'] => written'[g] = 0
    <3>1. /\ written[g] <= 1
          /\ g >= p.next \/ g \in DOMAIN jobs[live] => written[g] = 0
        BY <1>2, <2>5 DEF MovieInv, WrittenOnce
    <3>2. g >= project'[live'].next \/ g \in DOMAIN jobs'[live']
            => g >= p.next \/ g \in DOMAIN jobs[live]
        BY <1>5, <1>6, <1>8, <1>11, <2>1
    <3> QED BY <3>1, <3>2
  <2> QED BY <2>4, <2>5 DEF WrittenOnce
<1>14. LaunchesAhead'
    BY <1>2, <1>6 DEF MovieInv, MovieTypes, LaunchesAhead, Movie!Launches
<1> QED BY <1>12, <1>13, <1>14 DEF MovieInv

\* A step of a task that tells the project nothing.
LEMMA JobsStep ==
    ASSUME MovieInv, DOMAIN jobs' = Movie!Launches,
           \A k \in Movie!Launches : DOMAIN jobs'[k] = DOMAIN jobs[k],
           UNCHANGED <<live, project, disk, written, cut, overwritten>>
    PROVE  MovieInv'
<1>1. live \in Movie!Launches BY DEF MovieInv, MovieTypes
<1>2. MovieTypes' BY DEF MovieInv, MovieTypes
<1>3. DiskIsSome' BY DEF MovieInv, DiskIsSome
<1>4. AllAccounted' BY DEF MovieInv, AllAccounted, Generating
<1>5. AllPictured' BY DEF MovieInv, AllPictured, Pictures, Written
<1>6. WrittenOnce' BY <1>1 DEF MovieInv, WrittenOnce
<1>7. LaunchesAhead' BY DEF MovieInv, LaunchesAhead
<1> QED BY <1>2, <1>3, <1>4, <1>5, <1>6, <1>7 DEF MovieInv

LEMMA EnterStep ==
    ASSUME MovieInv, NEW l \in Movie!Launches, NEW g, NEW phase, Movie!Enter(l, g, phase)
    PROVE  MovieInv'
<1> DEFINE job == [jobs[l][g] EXCEPT !.phase = phase]
           js == [jobs[l] EXCEPT ![g] = job]
<1>1. jobs' = [jobs EXCEPT ![l] = js] BY DEF Movie!Enter
<1>2. UNCHANGED <<live, project, disk, written, cut, overwritten>> BY DEF Movie!Enter
<1>3. DOMAIN js = DOMAIN jobs[l] OBVIOUS
<1> HIDE DEF js
<1>4. DOMAIN jobs' = Movie!Launches /\ \A k \in Movie!Launches : DOMAIN jobs'[k] = DOMAIN jobs[k]
    BY <1>1, <1>3 DEF MovieInv, MovieTypes
<1> QED BY <1>2, <1>4, JobsStep

LEMMA DeadlineStep ==
    ASSUME MovieInv, NEW l \in Movie!Launches, NEW g, Movie!DeadlinePasses(l, g)
    PROVE  MovieInv'
<1> DEFINE job == [jobs[l][g] EXCEPT !.late = TRUE]
           js == [jobs[l] EXCEPT ![g] = job]
<1>1. jobs' = [jobs EXCEPT ![l] = js] BY DEF Movie!DeadlinePasses
<1>2. UNCHANGED <<live, project, disk, written, cut, overwritten>> BY DEF Movie!DeadlinePasses
<1>3. DOMAIN js = DOMAIN jobs[l] OBVIOUS
<1> HIDE DEF js
<1>4. DOMAIN jobs' = Movie!Launches /\ \A k \in Movie!Launches : DOMAIN jobs'[k] = DOMAIN jobs[k]
    BY <1>1, <1>3 DEF MovieInv, MovieTypes
<1> QED BY <1>2, <1>4, JobsStep

LEMMA StoppedStep ==
    ASSUME MovieInv, NEW g, Movie!Stopped(g)
    PROVE  MovieInv'
<1>1. /\ g \in DOMAIN jobs[live] /\ cut' = cut \cup {g}
      /\ jobs' = [jobs EXCEPT ![live] = Movie!Without(@, {g})]
      /\ UNCHANGED <<live, project, disk, edit, written, overwritten>>
    BY DEF Movie!Stopped, Movie!Phase
<1>2. live \in Movie!Launches BY DEF MovieInv, MovieTypes
<1>3. /\ DOMAIN jobs' = Movie!Launches
      /\ DOMAIN jobs'[live] = DOMAIN jobs[live] \ {g}
      /\ \A k \in Movie!Launches : k # live => jobs'[k] = jobs[k]
  <2>1. PICK new : new = Movie!Without(jobs[live], {g}) OBVIOUS
  <2>2. DOMAIN new = DOMAIN jobs[live] \ {g} BY <2>1, WithoutHas
  <2>3. jobs' = [jobs EXCEPT ![live] = new] BY <1>1, <2>1
  <2> QED BY <1>2, <2>2, <2>3 DEF MovieInv, MovieTypes
<1>4. MovieTypes'
  <2>1. cut' \in SUBSET Movie!Ids /\ \A k \in Movie!Launches : DOMAIN jobs'[k] \subseteq Movie!Ids
      BY <1>1, <1>2, <1>3 DEF MovieInv, MovieTypes
  <2> QED BY <1>1, <1>3, <2>1 DEF MovieInv, MovieTypes
<1>5. DiskIsSome' BY <1>1 DEF MovieInv, DiskIsSome
<1>6. AllAccounted'
  <2> SUFFICES ASSUME NEW k \in Movie!Launches
               PROVE  Generating(project[k]) \subseteq DOMAIN jobs'[k] \cup cut'
      BY <1>1 DEF AllAccounted
  <2>1. Generating(project[k]) \subseteq DOMAIN jobs[k] \cup cut BY DEF MovieInv, AllAccounted
  <2> QED BY <1>1, <1>3, <2>1
<1>7. AllPictured' BY <1>1 DEF MovieInv, AllPictured, Pictures, Written
<1>8. WrittenOnce' BY <1>1, <1>3 DEF MovieInv, WrittenOnce
<1>9. LaunchesAhead' BY <1>1, <1>2, <1>3 DEF MovieInv, MovieTypes, LaunchesAhead, Movie!Launches
<1> QED BY <1>4, <1>5, <1>6, <1>7, <1>8, <1>9 DEF MovieInv

\* The end of a task: with its picture in the file, or failed.
LEMMA EndStep ==
    ASSUME MovieInv, NEW l \in Movie!Launches, NEW g \in DOMAIN jobs[l],
           NEW status \in {"done", "failed"}, Movie!End(l, g, status),
           written' = IF status = "done" THEN [written EXCEPT ![g] = @ + 1] ELSE written
    PROVE  MovieInv'
<1> DEFINE p == project[l]
           told == IF g \in DOMAIN p.generations
                   THEN [p.generations EXCEPT ![g].status = status] ELSE p.generations
           chars == IF status = "done"
                    THEN Movie!WithPrimary(p.characters, jobs[l][g].owner, g) ELSE p.characters
           q == [p EXCEPT !.generations = told, !.characters = chars]
<1>1. /\ Movie!Save(l, q)
      /\ jobs' = [jobs EXCEPT ![l] = Movie!Without(@, {g})]
      /\ overwritten' = (overwritten \/ l # live)
      /\ UNCHANGED <<live, edit, cut>>
    BY DEF Movie!End
<1>2. /\ Sound(p) /\ p \in ProjectSet /\ Pictures(p) \subseteq Written /\ g \in Movie!Ids
      /\ Generating(p) \subseteq DOMAIN jobs[l] \cup cut /\ live \in Movie!Launches
    BY DEF MovieInv, MovieTypes, AllPictured, AllAccounted, Sound, ProjectSet
<1>3. p.next \in 1..(MaxIds + 1) /\ p.characters \in Over(Character)
      /\ p.generations \in Over(Generation)
      /\ \A x \in DOMAIN p.generations : p.generations[x] \in Generation
    BY <1>2, SoundParts
<1>p. p = project[l] OBVIOUS
<1> HIDE DEF p
<1>4. /\ told \in Over(Generation) /\ DOMAIN told = DOMAIN p.generations
      /\ \A x \in DOMAIN told : /\ told[x].owner = p.generations[x].owner
                                /\ x # g => told[x] = p.generations[x]
                                /\ x = g => told[x].status = status
  <2>1. CASE g \in DOMAIN p.generations
    <3> DEFINE new == [p.generations[g] EXCEPT !.status = status]
    <3>1. p.generations[g] \in Generation BY <2>1, <1>3
    <3>2. new \in Generation /\ new.owner = p.generations[g].owner /\ new.status = status
        BY <3>1 DEF Generation, Movie!Statuses
    <3>3. told = [p.generations EXCEPT ![g] = new] BY <2>1
    <3> HIDE DEF new, told
    <3>4. told \in Over(Generation) BY <1>3, <2>1, <3>2, <3>3, GenerationsOver
    <3>5. /\ DOMAIN told = DOMAIN p.generations /\ told[g] = new
          /\ \A x \in DOMAIN p.generations : x # g => told[x] = p.generations[x]
        BY <2>1, <3>3
    <3> QED BY <3>2, <3>4, <3>5
  <2>2. CASE g \notin DOMAIN p.generations BY <2>2, <1>3
  <2> QED BY <2>1, <2>2
<1>5. /\ chars \in Over(Character) /\ DOMAIN chars = DOMAIN p.characters
      /\ \A d \in DOMAIN p.characters :
            \/ chars[d].primary = p.characters[d].primary
            \/ status = "done" /\ chars[d].primary = g
  <2>1. CASE status = "done"
    <3>1. PICK o : o = jobs[l][g].owner OBVIOUS
    <3>2. chars = Movie!WithPrimary(p.characters, o, g) BY <2>1, <3>1
    <3>3. /\ Movie!WithPrimary(p.characters, o, g) \in Over(Character)
          /\ DOMAIN Movie!WithPrimary(p.characters, o, g) = DOMAIN p.characters
          /\ \A d \in DOMAIN p.characters :
                Movie!WithPrimary(p.characters, o, g)[d].primary \in {p.characters[d].primary, g}
        BY <1>2, <1>3, PrimarySet
    <3> HIDE DEF chars
    <3> QED BY <2>1, <3>2, <3>3
  <2>2. CASE status # "done" BY <2>2, <1>3
  <2> QED BY <2>1, <2>2
<1> HIDE DEF told, chars
<1>6. Fields(q, p.next, chars, told) BY <1>2, <1>3, <1>4, <1>5, Changed
<1> HIDE DEF q
<1>7. q.next = p.next /\ q.characters = chars /\ q.generations = told BY <1>6 DEF Fields
<1>8. Sound(q)
  <2>1. \A d \in DOMAIN chars : d < p.next BY <1>2, <1>5 DEF Sound
  <2>2. \A x \in DOMAIN told : x < p.next BY <1>2, <1>4 DEF Sound
  <2>3. \A x \in DOMAIN told : told[x].owner \in DOMAIN chars BY <1>2, <1>4, <1>5 DEF Sound
  <2> QED BY <1>6, <2>1, <2>2, <2>3 DEF Sound, Fields, ProjectSet
<1>9. /\ DOMAIN jobs' = Movie!Launches
      /\ DOMAIN jobs'[l] = DOMAIN jobs[l] \ {g}
      /\ \A k \in Movie!Launches : k # l => jobs'[k] = jobs[k]
  <2>1. PICK new : new = Movie!Without(jobs[l], {g}) OBVIOUS
  <2>2. DOMAIN new = DOMAIN jobs[l] \ {g} BY <2>1, WithoutHas
  <2>3. jobs' = [jobs EXCEPT ![l] = new] BY <1>1, <2>1
  <2> QED BY <2>2, <2>3 DEF MovieInv, MovieTypes
<1>10. /\ written \in [Movie!Ids -> Nat] /\ written' \in [Movie!Ids -> Nat]
       /\ \A x \in Movie!Ids : x # g => written'[x] = written[x]
       /\ written'[g] = IF status = "done" THEN written[g] + 1 ELSE written[g]
  <2>1. written \in [Movie!Ids -> Nat] BY DEF MovieInv, MovieTypes
  <2>2. CASE status = "done" BY <1>2, <2>1, <2>2
  <2>3. CASE status # "done" BY <1>2, <2>1, <2>3
  <2> QED BY <2>1, <2>2, <2>3
<1>11. Written \subseteq Written' /\ (status = "done" => g \in Written')
    BY <1>2, <1>10 DEF Written
<1>12. Generating(q) \subseteq DOMAIN jobs'[l] \cup cut
  <2>1. Generating(q) \subseteq Generating(p) \ {g} BY <1>4, <1>7 DEF Generating
  <2> QED BY <1>2, <1>9, <2>1
<1>13. Pictures(q) \subseteq Written'
  <2>1. \A d \in DOMAIN p.characters : p.characters[d].primary \in Written \cup {0}
      BY <1>2 DEF Pictures
  <2>2. \A x \in DOMAIN p.generations : p.generations[x].status = "done" => x \in Written
      BY <1>2 DEF Pictures
  <2>3. \A x \in DOMAIN told : told[x].status = "done" => x \in Written'
      BY <1>4, <1>11, <2>2
  <2>4. \A d \in DOMAIN chars : chars[d].primary \in Written' \cup {0}
      BY <1>5, <1>11, <2>1
  <2> QED BY <1>7, <2>3, <2>4 DEF Pictures
<1>14. project' = [project EXCEPT ![l] = q] /\ disk' = q BY <1>1 DEF Movie!Save
<1>15. overwritten' \in BOOLEAN /\ (~overwritten' => ~overwritten /\ l = live)
    BY <1>1 DEF MovieInv, MovieTypes
<1>16. MovieTypes' /\ DiskIsSome' /\ AllAccounted' /\ AllPictured'
  <2>1. DOMAIN jobs'[l] \subseteq Movie!Ids BY <1>9 DEF MovieInv, MovieTypes
  <2>2. live' = live /\ cut' = cut BY <1>1
  <2> QED BY <1>8, <1>9, <1>10, <1>11, <1>12, <1>13, <1>14, <1>15, <2>1, <2>2, Saves
<1>17. WrittenOnce'
  <2>1. project'[live'].next = project[live].next
    <3>1. CASE l = live BY <1>1, <1>p, <1>7, <1>14, <3>1 DEF MovieInv, MovieTypes
    <3>2. CASE l # live BY <1>1, <1>2, <1>14, <3>2 DEF MovieInv, MovieTypes
    <3> QED BY <3>1, <3>2
  <2>2. DOMAIN jobs'[live'] \subseteq DOMAIN jobs[live] BY <1>1, <1>2, <1>9
  <2>3. \A x \in DOMAIN jobs'[live'] : x < project'[live'].next
      BY <2>1, <2>2 DEF MovieInv, WrittenOnce
  <2>4. ASSUME ~overwritten', NEW x \in Movie!Ids
        PROVE  /\ written'[x] <= 1
               /\ x >= project'[live'].next \/ x \in DOMAIN jobs'[live'] => written'[x] = 0
    <3>1. ~overwritten /\ l = live BY <1>15, <2>4
    <3>2. /\ written[x] <= 1
          /\ x >= project[live].next \/ x \in DOMAIN jobs[live] => written[x] = 0
        BY <3>1 DEF MovieInv, WrittenOnce
    <3>3. CASE x = g
      <4>1. written[g] = 0 BY <3>1, <3>2, <3>3
      <4>2. written'[g] <= 1 BY <1>10, <4>1
      <4>3. g \notin DOMAIN jobs'[live'] BY <1>1, <1>9, <3>1
      <4>4. g < project[live].next BY <3>1 DEF MovieInv, WrittenOnce
      <4>5. g \in Int /\ project[live].next \in Int
          BY <1>2, <1>3, <1>p, <3>1 DEF Movie!Ids
      <4> QED BY <2>1, <3>3, <4>2, <4>3, <4>4, <4>5
    <3>4. CASE x # g BY <1>10, <2>1, <2>2, <3>2, <3>4
    <3> QED BY <3>3, <3>4
  <2> QED BY <2>3, <2>4 DEF WrittenOnce
<1>18. LaunchesAhead'
  <2>1. \A k \in Movie!Launches : DOMAIN jobs'[k] \subseteq DOMAIN jobs[k] BY <1>9
  <2> QED BY <1>1, <2>1 DEF MovieInv, LaunchesAhead
<1> QED BY <1>16, <1>17, <1>18 DEF MovieInv

LEMMA TaskStep ==
    ASSUME MovieInv, NEW l \in Movie!Launches, NEW g \in Movie!Ids,
           Movie!Task(l, g) \/ Movie!Failed(l, g)
    PROVE  MovieInv'
<1>1. CASE Movie!Started(l, g) \/ Movie!Posted(l, g) \/ Movie!PollCompleted(l, g)
    BY <1>1, EnterStep DEF Movie!Started, Movie!Posted, Movie!PollCompleted
<1>2. CASE Movie!DeadlinePasses(l, g) BY <1>2, DeadlineStep
<1>3. CASE Movie!Done(l, g)
  <2>1. g \in DOMAIN jobs[l]
      BY <1>3 DEF Movie!Done, Movie!Answered, Movie!Fetched, Movie!Phase
  <2>2. Movie!End(l, g, "done") /\ written' = [written EXCEPT ![g] = @ + 1]
      BY <1>3 DEF Movie!Done
  <2> QED BY <2>1, <2>2, EndStep
<1>4. CASE Movie!Timeout(l, g) \/ Movie!Failed(l, g)
  <2>1. g \in DOMAIN jobs[l] BY <1>4 DEF Movie!Timeout, Movie!Phase, Movie!Failed
  <2>2. Movie!End(l, g, "failed") /\ written' = written
      BY <1>4 DEF Movie!Timeout, Movie!Failed
  <2> QED BY <2>1, <2>2, EndStep
<1> QED BY <1>1, <1>2, <1>3, <1>4 DEF Movie!Task

LEMMA LoadStep ==
    ASSUME MovieInv, Movie!Load, jobs' = jobs \/ jobs' = [l \in Movie!Launches |-> Movie!Empty]
    PROVE  MovieInv'
<1>1. /\ live < MaxLaunches /\ live' = live + 1
      /\ project' = [project EXCEPT ![live + 1] = disk]
      /\ cut' = cut \cup UNION {DOMAIN jobs[l] : l \in Movie!Launches}
      /\ UNCHANGED <<disk, written, overwritten>>
    BY DEF Movie!Load
<1>2. live \in Int /\ live \in Movie!Launches /\ live' \in Movie!Launches
    BY <1>1, MovieAssumption DEF MovieInv, MovieTypes, Movie!Launches
<1>3. /\ DOMAIN jobs' = Movie!Launches
      /\ \A k \in Movie!Launches : DOMAIN jobs'[k] \subseteq DOMAIN jobs[k]
    BY DEF MovieInv, MovieTypes, Movie!Empty
<1>4. PICK k \in Movie!Launches : disk = project[k] BY DEF MovieInv, DiskIsSome
<1>5. /\ DOMAIN project' = Movie!Launches /\ project'[live'] = disk
      /\ \A l \in Movie!Launches : l # live' => project'[l] = project[l]
    BY <1>1, <1>2 DEF MovieInv, MovieTypes
<1>6. MovieTypes'
  <2>1. cut' \in SUBSET Movie!Ids BY <1>1 DEF MovieInv, MovieTypes
  <2>2. \A l \in Movie!Launches : Sound(project'[l]) BY <1>4, <1>5 DEF MovieInv, MovieTypes
  <2>3. \A l \in Movie!Launches : DOMAIN jobs'[l] \subseteq Movie!Ids
      BY <1>3 DEF MovieInv, MovieTypes
  <2> QED BY <1>1, <1>2, <1>3, <1>5, <2>1, <2>2, <2>3 DEF MovieInv, MovieTypes
<1>7. DiskIsSome' BY <1>1, <1>2, <1>5 DEF DiskIsSome
<1>8. AllAccounted'
  <2> SUFFICES ASSUME NEW l \in Movie!Launches PROVE Generating(project'[l]) \subseteq cut'
      BY DEF AllAccounted
  <2>1. \A m \in Movie!Launches : Generating(project[m]) \subseteq DOMAIN jobs[m] \cup cut
      BY DEF MovieInv, AllAccounted
  <2>2. \A m \in Movie!Launches : DOMAIN jobs[m] \cup cut \subseteq cut' BY <1>1
  <2>3. \E m \in Movie!Launches : project'[l] = project[m] BY <1>4, <1>5
  <2> QED BY <2>1, <2>2, <2>3
<1>9. AllPictured'
  <2> SUFFICES ASSUME NEW l \in Movie!Launches PROVE Pictures(project'[l]) \subseteq Written'
      BY DEF AllPictured
  <2>1. Written' = Written BY <1>1 DEF Written
  <2>2. \E m \in Movie!Launches : project'[l] = project[m] BY <1>4, <1>5
  <2> QED BY <2>1, <2>2 DEF MovieInv, AllPictured
<1>10. WrittenOnce'
  <2>1. DOMAIN jobs'[live'] = {}
    <3>1. live' > live BY <1>1, <1>2
    <3> QED BY <1>2, <1>3, <3>1 DEF MovieInv, LaunchesAhead
  <2>2. ~overwritten' => project'[live'] = project[live]
      BY <1>1, <1>5 DEF MovieInv, DiskIsSome
  <2> QED BY <1>1, <2>1, <2>2 DEF MovieInv, WrittenOnce
<1>11. LaunchesAhead'
  <2>1. \A l \in Movie!Launches : l > live' => l > live
      BY <1>1, <1>2 DEF Movie!Launches
  <2> QED BY <1>3, <2>1 DEF MovieInv, LaunchesAhead
<1> QED BY <1>6, <1>7, <1>8, <1>9, <1>10, <1>11 DEF MovieInv

LEMMA MovieStep == ASSUME MovieInv, Movie!Next PROVE MovieInv'
<1>1. CASE Movie!PageChanges BY <1>1, PageStep
<1>2. CASE Movie!Upload BY <1>2, UploadStep
<1>3. CASE Movie!Generate
  <2>1. PICK c \in DOMAIN Movie!Here.characters, model \in Movie!Models : Movie!Enqueue(c, model, "page")
      BY <1>3 DEF Movie!Generate
  <2>2. UNCHANGED <<live, written, cut, overwritten>> BY <1>3 DEF Movie!Generate
  <2> QED BY <2>1, <2>2, EnqueueStep
<1>4. CASE Movie!SendApproval \/ Movie!Rejected
  <2>1. UNCHANGED <<live, project, disk, jobs, written, cut, overwritten>>
      BY <1>4 DEF Movie!SendApproval, Movie!Rejected
  <2> QED BY <2>1, JobsStep DEF MovieInv, MovieTypes
<1>5. CASE Movie!Approved
  <2>1. UNCHANGED <<live, written, cut, overwritten>> BY <1>5 DEF Movie!Approved
  <2>2. CASE Movie!Create /\ UNCHANGED jobs BY <2>1, <2>2, CreateStep
  <2>3. CASE Movie!Update(edit.target) /\ UNCHANGED jobs BY <2>1, <2>3, UpdateStep
  <2>4. CASE UNCHANGED <<project, disk, jobs>>
      BY <2>1, <2>4, JobsStep DEF MovieInv, MovieTypes
  <2>5. CASE Movie!Enqueue(edit.target, "request", "agent") BY <2>1, <2>5, EnqueueStep
  <2> QED BY <1>5, <2>2, <2>3, <2>4, <2>5
          DEF Movie!Approved, Movie!ApprovedEdit, Movie!ApprovedPicture
<1>6. ASSUME NEW l \in Movie!Launches, NEW g \in Movie!Ids,
             Movie!Task(l, g) \/ Movie!Failed(l, g)
      PROVE  MovieInv'
    BY <1>6, TaskStep
<1>7. ASSUME NEW g \in Movie!Ids, Movie!Stopped(g) PROVE MovieInv' BY <1>7, StoppedStep
<1>8. CASE Movie!Relaunch \/ Movie!Crash
    BY <1>8, LoadStep DEF Movie!Relaunch, Movie!Crash
<1> QED BY <1>1, <1>2, <1>3, <1>4, <1>5, <1>6, <1>7, <1>8 DEF Movie!Next

LEMMA MovieStart == ASSUME Movie!Init PROVE MovieInv
<1> DEFINE p == Movie!NewProject
<1>1. /\ live = 1 /\ project = [l \in Movie!Launches |-> p] /\ disk = p
      /\ jobs = [l \in Movie!Launches |-> Movie!Empty]
      /\ written = [g \in Movie!Ids |-> 0] /\ cut = {} /\ overwritten = FALSE
    BY DEF Movie!Init
<1>2. DOMAIN Movie!Empty = {} BY DEF Movie!Empty
<1>3. Movie!Empty \in Over(Character) /\ Movie!Empty \in Over(Generation)
  <2>1. Movie!Empty \in [{} -> Character] /\ Movie!Empty \in [{} -> Generation]
      BY DEF Movie!Empty
  <2> QED BY <2>1 DEF Over
<1>4. p.next = 1 /\ p.characters = Movie!Empty /\ p.generations = Movie!Empty /\ p \in ProjectSet
    BY <1>3, MovieAssumption DEF Movie!NewProject, ProjectSet
<1> HIDE DEF p
<1>5. Sound(p) BY <1>2, <1>4 DEF Sound, ProjectSet
<1>6. Generating(p) = {} /\ Pictures(p) = {} BY <1>2, <1>4 DEF Generating, Pictures
<1>7. live \in Movie!Launches BY <1>1, MovieAssumption DEF Movie!Launches
<1>8. MovieTypes
  <2>1. overwritten \in BOOLEAN BY <1>1, Zenon
  <2> QED BY <1>1, <1>2, <1>5, <1>7, <2>1 DEF MovieTypes
<1>9. DiskIsSome BY <1>1, <1>7 DEF DiskIsSome
<1>10. AllAccounted /\ AllPictured BY <1>1, <1>6 DEF AllAccounted, AllPictured
<1>11. WrittenOnce BY <1>1, <1>2, <1>7 DEF WrittenOnce
<1>12. LaunchesAhead BY <1>1, <1>2 DEF LaunchesAhead
<1> QED BY <1>8, <1>9, <1>10, <1>11, <1>12 DEF MovieInv

LEMMA MovieSafe == MovieInv => MovieKept
<1> SUFFICES ASSUME MovieInv PROVE Movie!MovieKept BY DEF MovieKept
<1>1. /\ Movie!Here = project[live] /\ Pictures(Movie!Here) \subseteq Written
      /\ Generating(Movie!Here) \subseteq DOMAIN jobs[live] \cup cut
    BY HereSound
<1>2. Movie!SavedIsMemory BY <1>1 DEF Movie!SavedIsMemory, MovieInv, DiskIsSome
<1>3. Movie!GenerationsAccounted BY <1>1 DEF Movie!GenerationsAccounted, Generating
<1>4. Movie!PicturesKept
    BY <1>1 DEF Movie!PicturesKept, Pictures, Written, MovieInv, WrittenOnce
<1> QED BY <1>2, <1>3, <1>4 DEF Movie!MovieKept

LEMMA MovieTypeOK == MovieInv => Movie!TypeOK
<1> SUFFICES ASSUME MovieInv PROVE Movie!TypeOK OBVIOUS
<1>1. ASSUME NEW p, Sound(p) PROVE Movie!IsProject(p)
  <2>1. \A c \in DOMAIN p.characters : p.characters[c].primary \in 0..MaxIds
      BY <1>1, SoundParts DEF Character
  <2>2. \A g \in DOMAIN p.generations : p.generations[g].status \in Movie!Statuses
      BY <1>1, SoundParts DEF Generation
  <2> QED BY <1>1, <2>1, <2>2, SoundParts DEF Movie!IsProject, Sound
<1>2. Sound(disk) BY DEF MovieInv, DiskIsSome, MovieTypes
<1> QED BY <1>1, <1>2 DEF MovieInv, MovieTypes, Movie!TypeOK

LEMMA MovieRests == MovieInv /\ UNCHANGED movieVars => MovieInv'
<1> SUFFICES ASSUME MovieInv, UNCHANGED movieVars PROVE MovieInv' OBVIOUS
<1>1. UNCHANGED <<live, project, disk, jobs, edit, written, cut, overwritten>> BY DEF movieVars
<1>2. Written' = Written BY <1>1 DEF Written
<1>3. MovieTypes' /\ DiskIsSome' BY <1>1 DEF MovieInv, MovieTypes, DiskIsSome
<1>4. AllAccounted' /\ AllPictured' BY <1>1, <1>2 DEF MovieInv, AllAccounted, AllPictured
<1>5. WrittenOnce' /\ LaunchesAhead' BY <1>1 DEF MovieInv, WrittenOnce, LaunchesAhead
<1> QED BY <1>3, <1>4, <1>5 DEF MovieInv

\* The project file, the generations that run and the pictures written stay in step
\* through saves, approvals, relaunches and crashes.
THEOREM ProjectKept == Spec => []MovieKept
<1>1. Init => MovieInv BY MovieStart DEF Init
<1>2. MovieInv /\ [Next]_allVars => MovieInv'
  <2> SUFFICES ASSUME MovieInv, [Next]_allVars PROVE MovieInv' OBVIOUS
  <2>1. CASE Movie!Next BY <2>1, MovieStep
  <2>2. CASE UNCHANGED movieVars BY <2>2, MovieRests
  <2> QED BY <2>1, <2>2 DEF Next, allVars
<1> QED BY <1>1, <1>2, MovieSafe, PTL DEF Spec, allVars

-----------------------------------------------------------------------------
(* The web fork and its pages *)

Sent == Fork!Ids
Message == ({"event"} \X Sent) \cup ({"replay"} \X Seq(Sent))

ForkTypes ==
    /\ events \in Seq(Fork!EventKinds) /\ Len(events) <= MaxEvents
    /\ buffer \in Seq(Sent) /\ history \in Seq(Sent)
    /\ sends \subseteq [id : Sent, to : (SUBSET Clients) \ {{}}]
    /\ online \subseteq Clients
    /\ wire \in [Clients -> Seq(Message)]
    /\ asked \in [Clients -> {Fork!NoRequest, -1} \cup Sent]
    /\ lastSeen \in [Clients -> {-1} \cup Sent]
    /\ fetch \in [Clients -> [at : {"asked", "answered", "done"}, answer : Seq(Sent)]]
    /\ ready \in [Clients -> BOOLEAN]
    /\ dialogSeen \in [Clients -> {-1} \cup Sent]
    /\ held \in [Clients -> Seq(Sent)] /\ shown \in [Clients -> Seq(Sent)]
    /\ cuts \in 0..MaxCuts

\* The history is in the order of the ids, what a page has been answered too; a page
\* has shown nothing newer than what it knows to be the newest.
ForkOrder ==
    /\ Fork!Increasing(history) /\ \A i \in DOMAIN history : history[i] <= Len(events)
    /\ \A c \in Clients :
        /\ Fork!Increasing(fetch[c].answer)
        /\ Fork!Increasing(shown[c])
        /\ \A i \in DOMAIN shown[c] : shown[c][i] <= dialogSeen[c]

ForkInv == ForkTypes /\ ForkOrder

LEMMA ForkCardinality == ASSUME NEW S PROVE Fork!Cardinality(S) = Cardinality(S)
BY DEF Fork!Cardinality, Cardinality

\* The places picked out of 1..n have the counts 1, 2, 3 and so on.
LEMMA Counted ==
    ASSUME NEW n \in Nat, NEW K \in SUBSET (1..n)
    PROVE  /\ Cardinality(K) \in 0..n
           /\ \A r \in 1..Cardinality(K) :
                Fork!Nth(K, r) \in K /\ Cardinality({j \in K : j <= Fork!Nth(K, r)}) = r
<1> DEFINE UpTo(x) == {j \in K : j <= x}
           f == [x \in K |-> Cardinality(UpTo(x))]
           T == 1..Cardinality(K)
<1>1. IsFiniteSet(1..n) /\ Cardinality(1..n) = n
    <2>1. 1 \in Int /\ n \in Int OBVIOUS
    <2>2. IsFiniteSet(1..n) /\ Cardinality(1..n) = IF 1 > n THEN 0 ELSE n - 1 + 1
        BY <2>1, FS_Interval
    <2> QED BY <2>2
<1>2. IsFiniteSet(K) /\ Cardinality(K) \in Nat /\ Cardinality(K) <= n
    BY <1>1, FS_Subset, FS_CardinalityType
<1>3. \A x \in K : UpTo(x) \in SUBSET K /\ IsFiniteSet(UpTo(x)) /\ Cardinality(UpTo(x)) \in Nat
    <2> TAKE x \in K
    <2>1. UpTo(x) \in SUBSET K OBVIOUS
    <2> QED BY <2>1, <1>2, FS_Subset, FS_CardinalityType
<1>4. \A x \in K : Cardinality(UpTo(x)) <= Cardinality(K) /\ Cardinality(UpTo(x)) # 0
    <2> TAKE x \in K
    <2>1. x \in UpTo(x) OBVIOUS
    <2>2. UpTo(x) # {} BY <2>1
    <2> QED BY <2>2, <1>2, <1>3, FS_Subset, FS_EmptySet
<1>5. \A x, y \in K : x < y => Cardinality(UpTo(x)) < Cardinality(UpTo(y))
    <2> TAKE x, y \in K
    <2> HAVE x < y
    <2>1. UpTo(x) \in SUBSET UpTo(y) /\ y \in UpTo(y) /\ y \notin UpTo(x)
        <3>1. \A z \in K : z \in Int OBVIOUS
        <3>2. \A z \in K : z <= x => z <= y BY <3>1
        <3>3. ~(y <= x) /\ y <= y BY <3>1
        <3> QED BY <3>2, <3>3
    <2>2. Cardinality(UpTo(x)) <= Cardinality(UpTo(y)) /\ Cardinality(UpTo(x)) # Cardinality(UpTo(y))
        BY <2>1, <1>3, FS_Subset
    <2> QED BY <2>2, <1>3
<1>6. \A x \in K : f[x] \in T
    <2> HIDE DEF UpTo
    <2> QED BY <1>2, <1>3, <1>4
<1>7. \A x, y \in K : f[x] = f[y] => x = y
    <2> TAKE x, y \in K
    <2> HIDE DEF UpTo
    <2>1. x \in Int /\ y \in Int OBVIOUS
    <2>2. CASE x < y BY <2>2, <1>3, <1>5
    <2>3. CASE y < x BY <2>3, <1>3, <1>5
    <2> QED BY <2>1, <2>2, <2>3
<1>8. f \in Injection(K, T) BY <1>6, <1>7 DEF Injection, IsInjective
<1>9. IsFiniteSet(T) /\ Cardinality(T) = Cardinality(K)
    <2>1. 1 \in Int /\ Cardinality(K) \in Int BY <1>2
    <2>2. IsFiniteSet(T) /\ Cardinality(T) = IF 1 > Cardinality(K) THEN 0 ELSE Cardinality(K) - 1 + 1
        BY <2>1, FS_Interval
    <2> QED BY <1>2, <2>2
<1>10. f \in Surjection(K, T) BY <1>8, <1>9, FS_Injection
<1>11. \A r \in T : \E x \in K : Cardinality(UpTo(x)) = r BY <1>10 DEF Surjection
<1>12. \A r \in T : Fork!Nth(K, r) \in K /\ Cardinality(UpTo(Fork!Nth(K, r))) = r
    BY <1>11, ForkCardinality DEF Fork!Nth
<1> QED BY <1>2, <1>12

\* The elements at the places K: what they are, where they stand, and in which order.
LEMMA AtHas ==
    ASSUME NEW X, NEW s \in Seq(X), NEW K \in SUBSET (DOMAIN s)
    PROVE  /\ Fork!At(s, K) \in Seq(X) /\ Len(Fork!At(s, K)) = Cardinality(K)
           /\ Cardinality(K) \in Nat
           /\ \A r \in 1..Cardinality(K) :
                Fork!Nth(K, r) \in K /\ Fork!At(s, K)[r] = s[Fork!Nth(K, r)]
           /\ \A q, r \in 1..Cardinality(K) : q < r => Fork!Nth(K, q) < Fork!Nth(K, r)
<1>1. Len(s) \in Nat /\ DOMAIN s = 1..Len(s) /\ K \in SUBSET (1..Len(s)) OBVIOUS
<1>2. /\ Cardinality(K) \in Nat
      /\ \A r \in 1..Cardinality(K) :
            Fork!Nth(K, r) \in K /\ Cardinality({j \in K : j <= Fork!Nth(K, r)}) = r
    <2>1. Len(s) \in Nat OBVIOUS
    <2>2. K \in SUBSET (1..Len(s)) OBVIOUS
    <2>3. Cardinality(K) \in 0..Len(s) BY <2>1, <2>2, Counted
    <2>4. \A r \in 1..Cardinality(K) :
            Fork!Nth(K, r) \in K /\ Cardinality({j \in K : j <= Fork!Nth(K, r)}) = r
        BY <2>1, <2>2, Counted
    <2> QED BY <2>1, <2>3, <2>4
<1>3. Fork!At(s, K) = [r \in 1..Cardinality(K) |-> s[Fork!Nth(K, r)]]
    BY ForkCardinality DEF Fork!At
<1>4. \A r \in 1..Cardinality(K) : s[Fork!Nth(K, r)] \in X
    <2>1. \A k \in K : s[k] \in X OBVIOUS
    <2> QED BY <2>1, <1>2
<1>5. Fork!At(s, K) \in Seq(X) /\ Len(Fork!At(s, K)) = Cardinality(K) BY <1>2, <1>3, <1>4
<1>6. \A q, r \in 1..Cardinality(K) : q < r => Fork!Nth(K, q) < Fork!Nth(K, r)
    <2> TAKE q, r \in 1..Cardinality(K)
    <2> HAVE q < r
    <2> DEFINE x == Fork!Nth(K, q)
               y == Fork!Nth(K, r)
    <2>1. x \in 1..Len(s) /\ y \in 1..Len(s) BY <1>1, <1>2
    <2>2. Cardinality({j \in K : j <= x}) = q /\ Cardinality({j \in K : j <= y}) = r BY <1>2
    <2> HIDE DEF x, y
    <2>3. ASSUME y <= x PROVE FALSE
        <3>1. {j \in K : j <= y} \in SUBSET {j \in K : j <= x} BY <2>1, <2>3, <1>1
        <3>2. IsFiniteSet({j \in K : j <= x})
            <4>1. {j \in K : j <= x} \in SUBSET (1..Len(s)) BY <1>1
            <4>2. 1 \in Int /\ Len(s) \in Int OBVIOUS
            <4>3. IsFiniteSet(1..Len(s)) BY <4>2, FS_Interval
            <4> QED BY <4>1, <4>3, FS_Subset
        <3>3. r <= q BY <3>1, <3>2, <2>2, FS_Subset
        <3> QED BY <3>3
    <2>4. x < y BY <2>1, <2>3
    <2> QED BY <2>4 DEF x, y
<1> QED BY <1>2, <1>3, <1>5, <1>6

\* A set of numbers has a least one.
LEMMA LeastNumber ==
    ASSUME NEW T, T \subseteq Nat, T # {}
    PROVE  \E x \in T : \A y \in T : x <= y
<1> DEFINE I == {1..n : n \in T}
<1>1. I \subseteq FiniteSubsetsOf(Nat)
  <2>1. \A n \in T : IsFiniteSet(1..n)
    BY FS_Interval
  <2> QED BY <2>1 DEF FiniteSubsetsOf
<1>2. I # {}
  OBVIOUS
<1>3. IsWellFoundedOn(StrictSubsetOrdering(Nat), FiniteSubsetsOf(Nat))
  BY FS_StrictSubsetOrderingWellFounded
<1>4. \E s \in I : \A t \in I : ~(<<t, s>> \in StrictSubsetOrdering(Nat))
  BY <1>1, <1>2, <1>3, WFMin
<1>5. PICK x \in T : \A t \in I : ~(<<t, 1..x>> \in StrictSubsetOrdering(Nat))
  BY <1>4
<1>6. ASSUME NEW y \in T, y < x PROVE FALSE
  <2>1. 1..y \subseteq 1..x /\ x \in 1..x /\ x \notin 1..y /\ 1..x \subseteq Nat
    BY <1>6
  <2>2. <<1..y, 1..x>> \in StrictSubsetOrdering(Nat)
    BY <2>1 DEF StrictSubsetOrdering
  <2> QED BY <2>2, <1>5
<1> QED BY <1>6

\* The greatest of the ids that have been seen.
LEMMA GreatestId ==
    ASSUME NEW S, S \subseteq {-1} \cup Sent, S # {}
    PROVE  Fork!Max(S) \in S /\ \A y \in S : y <= Fork!Max(S)
<1>1. \A y \in S : MaxEvents - y \in Nat BY ForkAssumption DEF Sent, Fork!Ids
<1> DEFINE T == {MaxEvents - y : y \in S}
<1>2. T \subseteq Nat /\ T # {} BY <1>1
<1>3. PICK t \in T : \A u \in T : t <= u BY <1>2, LeastNumber
<1>4. PICK x \in S : t = MaxEvents - x BY <1>3
<1>5. \A y \in S : MaxEvents - x <= MaxEvents - y BY <1>3, <1>4
<1>6. \A y \in S : y \in Int
    <2>1. {-1} \cup Sent \subseteq Int BY ForkAssumption DEF Sent, Fork!Ids
    <2> QED BY <2>1
<1>7. \A y \in S : x >= y BY <1>5, <1>6, ForkAssumption
<1>8. Fork!Max(S) \in S /\ \A y \in S : Fork!Max(S) >= y BY <1>7 DEF Fork!Max
<1> QED BY <1>6, <1>8

\* One sequence behind another.
LEMMA ConcatTyped ==
    ASSUME NEW X, NEW a \in Seq(X), NEW b \in Seq(X)
    PROVE  a \o b \in Seq(X) /\ DOMAIN (a \o b) = 1..(Len(a) + Len(b))
OBVIOUS

\* A sequence's set of elements.
LEMMA ToSetHas == ASSUME NEW X, NEW s \in Seq(X)
                  PROVE  Fork!ToSet(s) \subseteq X /\ \A i \in DOMAIN s : s[i] \in Fork!ToSet(s)
BY DEF Fork!ToSet

\* What a page reduces comes behind what it shows, in order.
LEMMA ReducedHas ==
    ASSUME NEW ids \in Seq(Sent), NEW s \in {-1} \cup Sent, NEW old \in Seq(Sent),
           Fork!Increasing(old), \A i \in DOMAIN old : old[i] <= s
    PROVE  LET new == Fork!Reduced([seen |-> s, shown |-> old], ids)
           IN /\ new.seen \in {-1} \cup Sent /\ new.shown \in Seq(Sent)
              /\ Fork!Increasing(new.shown)
              /\ \A i \in DOMAIN new.shown : new.shown[i] <= new.seen
<1> DEFINE K == {k \in DOMAIN ids : ids[k] > s /\ \A j \in 1..(k - 1) : ids[j] < ids[k]}
           more == Fork!At(ids, K)
           seen == Fork!Max(Fork!ToSet(ids) \cup {s})
<1>1. /\ Fork!Reduced([seen |-> s, shown |-> old], ids).seen = seen
      /\ Fork!Reduced([seen |-> s, shown |-> old], ids).shown = old \o more
    BY DEF Fork!Reduced
<1>2. K \in SUBSET (DOMAIN ids) OBVIOUS
<1>3. \A k \in K : k \in DOMAIN ids /\ ids[k] > s /\ ids[k] \in Sent
    OBVIOUS
<1>4. \A k, l \in K : k < l => ids[k] < ids[l]
    <2> TAKE k, l \in K
    <2> HAVE k < l
    <2>1. k \in Nat /\ l \in Nat /\ k >= 1 OBVIOUS
    <2>2. k \in 1..(l - 1) BY <2>1
    <2> QED BY <2>2
<1> HIDE DEF K
<1>5. /\ more \in Seq(Sent) /\ Len(more) = Cardinality(K) /\ Cardinality(K) \in Nat
      /\ \A r \in 1..Cardinality(K) : Fork!Nth(K, r) \in K /\ more[r] = ids[Fork!Nth(K, r)]
      /\ \A q, r \in 1..Cardinality(K) : q < r => Fork!Nth(K, q) < Fork!Nth(K, r)
    BY <1>2, AtHas
<1> HIDE DEF more
<1>6. \A r \in 1..Len(more) : more[r] > s /\ more[r] \in Fork!ToSet(ids)
    BY <1>2, <1>3, <1>5, ToSetHas
<1>7. \A q, r \in 1..Len(more) : q < r => more[q] < more[r]
    BY <1>4, <1>5
<1>8. Fork!ToSet(ids) \subseteq Sent BY ToSetHas
<1>9. seen \in Fork!ToSet(ids) \cup {s} /\ \A y \in Fork!ToSet(ids) \cup {s} : y <= seen
    <2>1. Fork!ToSet(ids) \cup {s} \subseteq {-1} \cup Sent BY <1>8
    <2> QED BY <2>1, GreatestId
<1> HIDE DEF seen
<1>10. seen \in {-1} \cup Sent /\ s <= seen /\ \A r \in 1..Len(more) : more[r] <= seen
    BY <1>6, <1>8, <1>9
<1>11. {-1} \cup Sent \subseteq Int BY ForkAssumption DEF Sent, Fork!Ids
<1>12. /\ old \o more \in Seq(Sent) /\ DOMAIN (old \o more) = 1..(Len(old) + Len(more))
       /\ Len(old) \in Nat /\ Len(more) \in Nat /\ DOMAIN old = 1..Len(old)
       /\ \A i \in 1..Len(old) : (old \o more)[i] = old[i]
       /\ \A i \in 1..(Len(old) + Len(more)) : i > Len(old) =>
            i - Len(old) \in 1..Len(more) /\ (old \o more)[i] = more[i - Len(old)]
    <2>1. old \in Seq(Sent) /\ more \in Seq(Sent) BY <1>5
    <2>2. Len(old) \in Nat /\ Len(more) \in Nat /\ DOMAIN old = 1..Len(old) BY <2>1
    <2>3. old \o more \in Seq(Sent) /\ DOMAIN (old \o more) = 1..(Len(old) + Len(more))
        BY <2>1, ConcatTyped
    <2>4. \A i \in 1..(Len(old) + Len(more)) :
            (old \o more)[i] = IF i <= Len(old) THEN old[i] ELSE more[i - Len(old)]
        BY <2>1
    <2> HIDE <2>1
    <2> QED BY <2>2, <2>3, <2>4
<1>13. \A i \in 1..Len(old) : old[i] \in Int /\ old[i] <= s
    <2>1. \A i \in 1..Len(old) : old[i] \in Sent OBVIOUS
    <2> QED BY <2>1, <1>11, <1>12
<1>14. \A i \in 1..Len(more) : more[i] \in Int BY <1>5, <1>11
<1> DEFINE all == old \o more
<1>15. \A i \in DOMAIN all : all[i] \in Int /\ all[i] <= seen
    <2> SUFFICES ASSUME NEW i \in 1..(Len(old) + Len(more)) PROVE all[i] \in Int /\ all[i] <= seen
        BY <1>12
    <2>1. CASE i <= Len(old)
        <3>1. i \in 1..Len(old) BY <2>1, <1>12
        <3> QED BY <3>1, <1>10, <1>11, <1>12, <1>13
    <2>2. CASE i > Len(old)
        <3>1. i - Len(old) \in 1..Len(more) /\ all[i] = more[i - Len(old)] BY <2>2, <1>12
        <3> QED BY <3>1, <1>10, <1>14
    <2> QED BY <2>1, <2>2, <1>12
<1>16. \A i, j \in DOMAIN all : i < j => all[i] < all[j]
    <2> SUFFICES ASSUME NEW i \in 1..(Len(old) + Len(more)), NEW j \in 1..(Len(old) + Len(more)), i < j
                 PROVE  all[i] < all[j]
        BY <1>12
    <2>1. CASE j <= Len(old)
        <3>1. i \in DOMAIN old /\ j \in DOMAIN old BY <2>1, <1>12
        <3> QED BY <3>1, <1>12 DEF Fork!Increasing
    <2>2. CASE j > Len(old) /\ i <= Len(old)
        <3>1. i \in 1..Len(old) /\ all[i] = old[i] /\ j - Len(old) \in 1..Len(more)
              /\ all[j] = more[j - Len(old)]
            BY <2>2, <1>12
        <3>2. old[i] <= s /\ old[i] \in Int /\ more[j - Len(old)] > s /\ more[j - Len(old)] \in Int
            BY <3>1, <1>6, <1>13, <1>14
        <3> QED BY <3>1, <3>2, <1>11
    <2>3. CASE i > Len(old)
        <3>1. j > Len(old) BY <2>3, <1>12
        <3>2. /\ i - Len(old) \in 1..Len(more) /\ j - Len(old) \in 1..Len(more)
              /\ all[i] = more[i - Len(old)] /\ all[j] = more[j - Len(old)]
            BY <2>3, <3>1, <1>12
        <3>3. i - Len(old) < j - Len(old) BY <1>12
        <3> QED BY <3>2, <3>3, <1>7
    <2> QED BY <2>1, <2>2, <2>3, <1>12
<1>17. Fork!Increasing(all) BY <1>16 DEF Fork!Increasing
<1> QED BY <1>1, <1>10, <1>12, <1>15, <1>17

LEMMA SendStep == ASSUME ForkInv, Fork!Send PROVE ForkInv'
<1> USE ForkAssumption
<1>1. Fork!NextId \in Sent /\ Fork!NextId = Len(events) + 1 /\ Len(events) \in Nat
    BY DEF ForkInv, ForkTypes, Fork!Send, Fork!NextId, Sent, Fork!Ids
<1>2. PICK kind \in {"final", "partial", "log"} :
        /\ events' = Append(events, kind)
        /\ buffer' = IF kind = "partial" THEN buffer ELSE Fork!Buffered(events')
        /\ history' = IF kind = "final" THEN Append(history, Fork!NextId) ELSE history
    BY DEF Fork!Send
<1>3. /\ sends' = sends \cup (IF online = {} THEN {} ELSE {[id |-> Fork!NextId, to |-> online]})
      /\ UNCHANGED <<online, wire, asked, lastSeen, fetch, ready, dialogSeen, held, shown, cuts>>
    BY DEF Fork!Send, Fork!dialogVars
<1>4. events' \in Seq(Fork!EventKinds) /\ Len(events') = Len(events) + 1 /\ Len(events') <= MaxEvents
    BY <1>1, <1>2 DEF ForkInv, ForkTypes, Fork!EventKinds, Sent, Fork!Ids
<1>5. Append(buffer, Fork!NextId) \in Seq(Sent)
    BY <1>1 DEF ForkInv, ForkTypes
<1>6. Fork!Buffered(events') \in Seq(Sent)
    <2> DEFINE all == Append(buffer, Fork!NextId)
               same == {k \in DOMAIN all : Fork!OfTransport(all[k], events') = Fork!OfTransport(Fork!NextId, events')}
    <2>1. Fork!Buffered(events') = IF Fork!Cardinality(same) <= BufferMax THEN all
                                  ELSE Fork!At(all, DOMAIN all \ {Fork!Nth(same, 1)})
        BY DEF Fork!Buffered
    <2>2. DOMAIN all \ {Fork!Nth(same, 1)} \in SUBSET (DOMAIN all) OBVIOUS
    <2>3. Fork!At(all, DOMAIN all \ {Fork!Nth(same, 1)}) \in Seq(Sent) BY <1>5, <2>2, AtHas
    <2> QED BY <1>5, <2>1, <2>3
<1>7. buffer' \in Seq(Sent) BY <1>2, <1>6 DEF ForkInv, ForkTypes
<1>8. /\ history' \in Seq(Sent) /\ Fork!Increasing(history')
      /\ \A i \in DOMAIN history' : history'[i] <= Len(events')
    <2>1. /\ history \in Seq(Sent) /\ Fork!Increasing(history)
          /\ \A i \in DOMAIN history : history[i] <= Len(events) /\ history[i] \in Int
        BY DEF ForkInv, ForkTypes, ForkOrder, Sent, Fork!Ids
    <2>2. CASE history' = history
        <3>1. \A i \in DOMAIN history : history[i] <= Len(events') BY <2>1, <1>1, <1>4
        <3> QED BY <3>1, <2>1, <2>2
    <2>3. CASE history' = Append(history, Fork!NextId)
        <3> DEFINE h == Append(history, Fork!NextId)
                   n == Len(history)
        <3>1. h \in Seq(Sent) BY <2>1, <1>1
        <3>2. /\ n \in Nat /\ DOMAIN h = 1..(n + 1) /\ h[n + 1] = Fork!NextId
              /\ DOMAIN history = 1..n /\ \A i \in 1..n : h[i] = history[i]
            BY <2>1, <1>1
        <3> HIDE DEF h, n
        <3>3. \A i \in DOMAIN h : h[i] <= Len(events') /\ h[i] \in Int /\ (i # n + 1 => h[i] < Fork!NextId)
            BY <3>2, <2>1, <1>1, <1>4
        <3>4. \A i, j \in DOMAIN h : i < j => h[i] < h[j]
            BY <3>2, <3>3, <2>1 DEF Fork!Increasing
        <3> QED BY <3>1, <3>3, <3>4, <2>3 DEF Fork!Increasing, h
    <2> QED BY <2>2, <2>3, <1>2
<1>9. sends' \subseteq [id : Sent, to : (SUBSET Clients) \ {{}}]
    BY <1>1, <1>3 DEF ForkInv, ForkTypes
<1>10. ForkTypes'
    BY <1>3, <1>4, <1>7, <1>8, <1>9 DEF ForkInv, ForkTypes
<1>11. ForkOrder'
    BY <1>3, <1>8 DEF ForkInv, ForkOrder
<1> QED BY <1>10, <1>11 DEF ForkInv

\* A client's queue with one more message.
LEMMA OneMore ==
    ASSUME NEW X, NEW f \in [Clients -> Seq(X)], NEW x \in X, NEW c
    PROVE  [f EXCEPT ![c] = Append(@, x)] \in [Clients -> Seq(X)]
<1> DEFINE g == [f EXCEPT ![c] = Append(@, x)]
<1>1. g = [d \in Clients |-> IF d = c THEN Append(f[d], x) ELSE f[d]] OBVIOUS
<1>2. \A d \in Clients : f[d] \in Seq(X) /\ Append(f[d], x) \in Seq(X) OBVIOUS
<1> QED BY <1>1, <1>2

LEMMA DeliverStep == ASSUME ForkInv, NEW s \in sends, Fork!Deliver(s) PROVE ForkInv'
<1> DEFINE c == Fork!Min(s.to)
<1>1. /\ wire' = [wire EXCEPT ![c] = Append(@, <<"event", s.id>>)]
      /\ sends' = (sends \ {s}) \cup (IF s.to = {c} THEN {} ELSE {[s EXCEPT !.to = @ \ {c}]})
      /\ UNCHANGED <<events, buffer, history, online, asked, lastSeen, fetch, ready, dialogSeen,
                     held, shown, cuts>>
    BY DEF Fork!Deliver, Fork!dialogVars
<1> HIDE DEF c
<1>2. /\ sends \subseteq [id : Sent, to : (SUBSET Clients) \ {{}}] /\ wire \in [Clients -> Seq(Message)]
      /\ s \in [id : Sent, to : (SUBSET Clients) \ {{}}]
    BY DEF ForkInv, ForkTypes
<1>3. <<"event", s.id>> \in Message BY <1>2 DEF Message
<1>4. wire' \in [Clients -> Seq(Message)] BY <1>1, <1>2, <1>3, OneMore
<1>5. s.to # {c} => [s EXCEPT !.to = @ \ {c}] \in [id : Sent, to : (SUBSET Clients) \ {{}}]
    <2> DEFINE some == (SUBSET Clients) \ {{}}
    <2>1. s.to # {c} => s.to \ {c} \in some BY <1>2
    <2>2. s \in [id : Sent, to : some] BY <1>2
    <2> HIDE DEF some
    <2>3. s.to \ {c} \in some => [s EXCEPT !.to = @ \ {c}] \in [id : Sent, to : some] BY <2>2
    <2> QED BY <2>1, <2>3 DEF some
<1>6. sends' \subseteq [id : Sent, to : (SUBSET Clients) \ {{}}]
    BY <1>1, <1>2, <1>5
<1>7. ForkTypes' BY <1>1, <1>4, <1>6 DEF ForkInv, ForkTypes
<1>8. ForkOrder' BY <1>1 DEF ForkInv, ForkOrder
<1> QED BY <1>7, <1>8 DEF ForkInv
LEMMA SendTargetedStep ==
    ASSUME ForkInv, NEW c \in Clients, Fork!SendTargeted(c) PROVE ForkInv'
<1> USE ForkAssumption
<1>1. /\ Fork!NextId \in Sent /\ Fork!NextId = Len(events) + 1 /\ Len(events) \in Nat
      /\ events \in Seq(Fork!EventKinds)
    BY DEF ForkInv, ForkTypes, Fork!SendTargeted, Fork!NextId, Sent, Fork!Ids
<1>2. /\ events' = Append(events, "targeted") /\ Fork!NextId <= MaxEvents
      /\ wire' = [wire EXCEPT ![c] = Append(@, <<"event", Fork!NextId>>)]
      /\ UNCHANGED <<buffer, history, sends, online, asked, lastSeen, fetch, ready, dialogSeen,
                     held, shown, cuts>>
    BY DEF Fork!SendTargeted, Fork!dialogVars
<1>3. events' \in Seq(Fork!EventKinds) /\ Len(events') = Len(events) + 1 /\ Len(events') <= MaxEvents
    BY <1>1, <1>2 DEF Fork!EventKinds
<1>4. <<"event", Fork!NextId>> \in Message BY <1>1 DEF Message
<1>5. wire' \in [Clients -> Seq(Message)] BY <1>2, <1>4, OneMore DEF ForkInv, ForkTypes
<1>6. ForkTypes' BY <1>2, <1>3, <1>5 DEF ForkInv, ForkTypes
<1>7. \A i \in DOMAIN history : history[i] <= Len(events')
    <2>1. history \in Seq(Sent) /\ \A i \in DOMAIN history : history[i] <= Len(events)
        BY DEF ForkInv, ForkTypes, ForkOrder
    <2>2. \A i \in DOMAIN history : history[i] \in Int BY <2>1 DEF Sent, Fork!Ids
    <2> QED BY <2>1, <2>2, <1>1, <1>3
<1>8. ForkOrder' BY <1>2, <1>7 DEF ForkInv, ForkOrder
<1> QED BY <1>6, <1>8 DEF ForkInv

LEMMA AnswerReplayStep ==
    ASSUME ForkInv, NEW c \in Clients, Fork!AnswerReplay(c) PROVE ForkInv'
<1> DEFINE missed == Fork!At(buffer, {k \in DOMAIN buffer : buffer[k] > asked[c]})
<1>1. /\ asked' = [asked EXCEPT ![c] = Fork!NoRequest]
      /\ wire' = IF missed = <<>> THEN wire ELSE [wire EXCEPT ![c] = Append(@, <<"replay", missed>>)]
      /\ UNCHANGED <<events, buffer, history, sends, online, lastSeen, fetch, ready, dialogSeen,
                     held, shown, cuts>>
    BY DEF Fork!AnswerReplay, Fork!serverVars, Fork!dialogVars
<1>2. missed \in Seq(Sent)
    <2>1. {k \in DOMAIN buffer : buffer[k] > asked[c]} \in SUBSET (DOMAIN buffer) OBVIOUS
    <2> QED BY <2>1, AtHas DEF ForkInv, ForkTypes
<1> HIDE DEF missed
<1>3. <<"replay", missed>> \in Message BY <1>2 DEF Message
<1>4. wire' \in [Clients -> Seq(Message)] BY <1>1, <1>3, OneMore DEF ForkInv, ForkTypes
<1>5. asked' \in [Clients -> {Fork!NoRequest, -1} \cup Sent] BY <1>1 DEF ForkInv, ForkTypes
<1>6. ForkTypes' BY <1>1, <1>4, <1>5 DEF ForkInv, ForkTypes
<1>7. ForkOrder' BY <1>1 DEF ForkInv, ForkOrder
<1> QED BY <1>6, <1>7 DEF ForkInv

LEMMA AnswerHistoryStep ==
    ASSUME ForkInv, NEW c \in Clients, Fork!AnswerHistory(c) PROVE ForkInv'
<1> DEFINE answered == [at |-> "answered", answer |-> history]
<1>1. /\ fetch' = [fetch EXCEPT ![c] = answered]
      /\ UNCHANGED <<events, buffer, history, sends, online, wire, asked, lastSeen, ready,
                     dialogSeen, held, shown, cuts>>
    BY DEF Fork!AnswerHistory, Fork!serverVars, Fork!dialogVars
<1>2. answered \in [at : {"asked", "answered", "done"}, answer : Seq(Sent)]
    BY DEF ForkInv, ForkTypes
<1>3. answered.answer = history OBVIOUS
<1> HIDE DEF answered
<1>4. fetch' \in [Clients -> [at : {"asked", "answered", "done"}, answer : Seq(Sent)]]
    BY <1>1, <1>2 DEF ForkInv, ForkTypes
<1>5. ForkTypes' BY <1>1, <1>4 DEF ForkInv, ForkTypes
<1>6. \A d \in Clients : fetch'[d].answer = IF d = c THEN history ELSE fetch[d].answer
    BY <1>1, <1>3 DEF ForkInv, ForkTypes
<1>7. \A d \in Clients : Fork!Increasing(fetch'[d].answer)
    BY <1>6 DEF ForkInv, ForkOrder
<1>8. ForkOrder' BY <1>1, <1>7 DEF ForkInv, ForkOrder
<1> QED BY <1>5, <1>8 DEF ForkInv

LEMMA ConnectStep ==
    ASSUME ForkInv, NEW c \in Clients, Fork!Connect(c) PROVE ForkInv'
<1>1. /\ online' = online \cup {c} /\ asked' = [asked EXCEPT ![c] = lastSeen[c]]
      /\ UNCHANGED <<events, buffer, history, sends, wire, lastSeen, fetch, ready, dialogSeen,
                     held, shown, cuts>>
    BY DEF Fork!Connect, Fork!serverVars, Fork!dialogVars
<1>2. lastSeen[c] \in {Fork!NoRequest, -1} \cup Sent BY DEF ForkInv, ForkTypes
<1>3. asked' \in [Clients -> {Fork!NoRequest, -1} \cup Sent] BY <1>1, <1>2 DEF ForkInv, ForkTypes
<1>4. ForkTypes' BY <1>1, <1>3 DEF ForkInv, ForkTypes
<1>5. ForkOrder' BY <1>1 DEF ForkInv, ForkOrder
<1> QED BY <1>4, <1>5 DEF ForkInv

LEMMA ReceiveStep ==
    ASSUME ForkInv, NEW c \in Clients, Fork!Receive(c) PROVE ForkInv'
<1> DEFINE msg == Head(wire[c])
           ids == IF msg[1] = "event" THEN <<msg[2]>> ELSE msg[2]
           mine == Fork!At(ids, {k \in DOMAIN ids : Fork!OfTransport(ids[k], events)})
           new == Fork!Reduced([seen |-> dialogSeen[c], shown |-> shown[c]], mine)
           seen == Fork!Max(Fork!ToSet(ids) \cup {lastSeen[c]})
<1>1. /\ wire[c] # <<>> /\ wire' = [wire EXCEPT ![c] = Tail(@)]
      /\ lastSeen' = [lastSeen EXCEPT ![c] = seen]
      /\ IF ready[c]
         THEN /\ dialogSeen' = [dialogSeen EXCEPT ![c] = new.seen]
              /\ shown' = [shown EXCEPT ![c] = new.shown]
              /\ UNCHANGED held
         ELSE /\ held' = [held EXCEPT ![c] = @ \o mine]
              /\ UNCHANGED <<dialogSeen, shown>>
      /\ UNCHANGED <<events, buffer, history, sends, online, asked, fetch, ready, cuts>>
    BY DEF Fork!Receive, Fork!serverVars
<1>2. wire[c] \in Seq(Message) /\ msg \in Message
    BY <1>1 DEF ForkInv, ForkTypes
<1>3. ids \in Seq(Sent)
    <2>1. CASE msg \in {"event"} \X Sent
        <3>1. msg[1] = "event" /\ msg[2] \in Sent BY <2>1
        <3> QED BY <3>1
    <2>2. CASE msg \in {"replay"} \X Seq(Sent)
        <3>1. msg[1] = "replay" /\ msg[2] \in Seq(Sent) BY <2>2
        <3> QED BY <3>1
    <2> QED BY <2>1, <2>2, <1>2 DEF Message
<1> HIDE DEF ids
<1>4. mine \in Seq(Sent)
    <2>1. {k \in DOMAIN ids : Fork!OfTransport(ids[k], events)} \in SUBSET (DOMAIN ids) OBVIOUS
    <2> QED BY <2>1, <1>3, AtHas
<1>5. seen \in {-1} \cup Sent
    <2>1. Fork!ToSet(ids) \cup {lastSeen[c]} \subseteq {-1} \cup Sent
        BY <1>3, ToSetHas DEF ForkInv, ForkTypes
    <2>2. seen \in Fork!ToSet(ids) \cup {lastSeen[c]} BY <2>1, GreatestId
    <2> QED BY <2>1, <2>2
<1>6. /\ new.seen \in {-1} \cup Sent /\ new.shown \in Seq(Sent)
      /\ Fork!Increasing(new.shown) /\ \A i \in DOMAIN new.shown : new.shown[i] <= new.seen
    <2>1. /\ dialogSeen[c] \in {-1} \cup Sent /\ shown[c] \in Seq(Sent)
          /\ Fork!Increasing(shown[c]) /\ \A i \in DOMAIN shown[c] : shown[c][i] <= dialogSeen[c]
        BY DEF ForkInv, ForkTypes, ForkOrder
    <2> HIDE DEF mine
    <2> QED BY <2>1, <1>4, ReducedHas
<1> HIDE DEF mine, new, seen, msg
<1>7. wire' \in [Clients -> Seq(Message)] /\ lastSeen' \in [Clients -> {-1} \cup Sent]
    <2>1. Tail(wire[c]) \in Seq(Message) BY <1>1, <1>2
    <2> QED BY <2>1, <1>1, <1>5 DEF ForkInv, ForkTypes
<1>8. CASE ready[c]
    <2>1. /\ dialogSeen' = [dialogSeen EXCEPT ![c] = new.seen]
          /\ shown' = [shown EXCEPT ![c] = new.shown] /\ held' = held
        BY <1>1, <1>8
    <2>2. dialogSeen' \in [Clients -> {-1} \cup Sent] /\ shown' \in [Clients -> Seq(Sent)]
        BY <2>1, <1>6 DEF ForkInv, ForkTypes
    <2>3. ForkTypes' BY <2>1, <2>2, <1>1, <1>7 DEF ForkInv, ForkTypes
    <2>4. \A d \in Clients : /\ shown'[d] = IF d = c THEN new.shown ELSE shown[d]
                             /\ dialogSeen'[d] = IF d = c THEN new.seen ELSE dialogSeen[d]
        BY <2>1 DEF ForkInv, ForkTypes
    <2>5. ForkOrder' BY <2>4, <1>1, <1>6 DEF ForkInv, ForkOrder
    <2> QED BY <2>3, <2>5 DEF ForkInv
<1>9. CASE ~ready[c]
    <2>1. held' = [held EXCEPT ![c] = @ \o mine] /\ UNCHANGED <<dialogSeen, shown>>
        BY <1>1, <1>9
    <2>2. held[c] \o mine \in Seq(Sent) BY <1>4, ConcatTyped DEF ForkInv, ForkTypes
    <2>3. held' \in [Clients -> Seq(Sent)] BY <2>1, <2>2 DEF ForkInv, ForkTypes
    <2>4. ForkTypes' BY <2>1, <2>3, <1>1, <1>7 DEF ForkInv, ForkTypes
    <2>5. ForkOrder' BY <2>1, <1>1 DEF ForkInv, ForkOrder
    <2> QED BY <2>4, <2>5 DEF ForkInv
<1> QED BY <1>8, <1>9

LEMMA FetchLoadStep ==
    ASSUME ForkInv, NEW c \in Clients, Fork!Load(c) PROVE ForkInv'
<1> DEFINE answer == fetch[c].answer
           new == Fork!Reduced(Fork!Fetched(answer), held[c])
           done == [at |-> "done", answer |-> <<>>]
           seen == Fork!Max(Fork!ToSet(answer) \cup {-1})
<1>1. /\ fetch' = [fetch EXCEPT ![c] = done]
      /\ ready' = [ready EXCEPT ![c] = TRUE]
      /\ dialogSeen' = [dialogSeen EXCEPT ![c] = new.seen]
      /\ shown' = [shown EXCEPT ![c] = new.shown]
      /\ held' = [held EXCEPT ![c] = <<>>]
      /\ UNCHANGED <<events, buffer, history, sends, online, wire, asked, lastSeen, cuts>>
    BY DEF Fork!Load, Fork!serverVars
<1>2. answer \in Seq(Sent) /\ Fork!Increasing(answer) /\ held[c] \in Seq(Sent)
    BY DEF ForkInv, ForkTypes, ForkOrder
<1> HIDE DEF answer
<1>3. Fork!Fetched(answer) = [seen |-> seen, shown |-> answer] BY DEF Fork!Fetched
<1>4. seen \in {-1} \cup Sent /\ \A i \in DOMAIN answer : answer[i] <= seen
    <2>1. Fork!ToSet(answer) \cup {-1} \subseteq {-1} \cup Sent BY <1>2, ToSetHas
    <2>2. seen \in Fork!ToSet(answer) \cup {-1} /\ \A y \in Fork!ToSet(answer) \cup {-1} : y <= seen
        BY <2>1, GreatestId
    <2>3. \A i \in DOMAIN answer : answer[i] \in Fork!ToSet(answer) BY <1>2, ToSetHas
    <2> HIDE DEF seen
    <2> QED BY <2>1, <2>2, <2>3
<1> HIDE DEF seen
<1>5. /\ new.seen \in {-1} \cup Sent /\ new.shown \in Seq(Sent)
      /\ Fork!Increasing(new.shown) /\ \A i \in DOMAIN new.shown : new.shown[i] <= new.seen
    BY <1>2, <1>3, <1>4, ReducedHas
<1>6. done \in [at : {"asked", "answered", "done"}, answer : Seq(Sent)] /\ done.answer = <<>>
    OBVIOUS
<1> HIDE DEF new, done
<1>7. /\ fetch' \in [Clients -> [at : {"asked", "answered", "done"}, answer : Seq(Sent)]]
      /\ dialogSeen' \in [Clients -> {-1} \cup Sent] /\ shown' \in [Clients -> Seq(Sent)]
    BY <1>1, <1>5, <1>6 DEF ForkInv, ForkTypes
<1>8. ready' \in [Clients -> BOOLEAN] /\ held' \in [Clients -> Seq(Sent)]
    <2>1. <<>> \in Seq(Sent) OBVIOUS
    <2> QED BY <2>1, <1>1 DEF ForkInv, ForkTypes
<1>9. ForkTypes' BY <1>1, <1>7, <1>8 DEF ForkInv, ForkTypes
<1>10. \A d \in Clients : /\ shown'[d] = IF d = c THEN new.shown ELSE shown[d]
                          /\ dialogSeen'[d] = IF d = c THEN new.seen ELSE dialogSeen[d]
                          /\ fetch'[d].answer = IF d = c THEN <<>> ELSE fetch[d].answer
    BY <1>1, <1>6 DEF ForkInv, ForkTypes
<1>11. Fork!Increasing(<<>>) BY DEF Fork!Increasing
<1>12. ForkOrder' BY <1>1, <1>5, <1>10, <1>11 DEF ForkInv, ForkOrder
<1> QED BY <1>9, <1>12 DEF ForkInv

\* Messages and requests are lost, and the sends go on without the clients that are gone.
LEMMA GoneHas ==
    ASSUME ForkTypes, NEW cs \in SUBSET Clients, Fork!Gone(cs)
    PROVE  /\ online' \subseteq Clients /\ wire' \in [Clients -> Seq(Message)]
           /\ asked' \in [Clients -> {Fork!NoRequest, -1} \cup Sent] /\ cuts' \in 0..MaxCuts
<1>1. /\ online' = online \ cs /\ cuts < MaxCuts /\ cuts' = cuts + 1
      /\ wire' = [c \in Clients |-> IF c \in cs THEN <<>> ELSE wire[c]]
      /\ asked' = [c \in Clients |-> IF c \in cs THEN Fork!NoRequest ELSE asked[c]]
    BY DEF Fork!Gone
<1>2. <<>> \in Seq(Message) OBVIOUS
<1>3. wire' \in [Clients -> Seq(Message)] BY <1>1, <1>2 DEF ForkTypes
<1>4. asked' \in [Clients -> {Fork!NoRequest, -1} \cup Sent] BY <1>1 DEF ForkTypes
<1> QED BY <1>1, <1>3, <1>4, ForkAssumption DEF ForkTypes

LEMMA StillSends ==
    ASSUME ForkTypes, NEW c
    PROVE  UNION {Fork!StillTo(s, {c}) : s \in sends} \subseteq [id : Sent, to : (SUBSET Clients) \ {{}}]
<1> DEFINE some == (SUBSET Clients) \ {{}}
<1>1. SUFFICES ASSUME NEW s \in sends, NEW x \in Fork!StillTo(s, {c}) PROVE x \in [id : Sent, to : some]
    OBVIOUS
<1>2. s \in [id : Sent, to : some] BY DEF ForkTypes
<1>3. ~(s.to \subseteq {c}) /\ x = [s EXCEPT !.to = @ \ {c}] BY <1>1 DEF Fork!StillTo
<1>4. s.to \ {c} \in some BY <1>2, <1>3
<1> HIDE DEF some
<1> QED BY <1>2, <1>3, <1>4

LEMMA CutStep == ASSUME ForkInv, NEW c \in Clients, Fork!Cut(c) PROVE ForkInv'
<1>1. /\ Fork!Gone({c}) /\ sends' = UNION {Fork!StillTo(s, {c}) : s \in sends}
      /\ UNCHANGED <<events, buffer, history, lastSeen, fetch, ready, dialogSeen, held, shown>>
    BY DEF Fork!Cut, Fork!dialogVars
<1>2. /\ online' \subseteq Clients /\ wire' \in [Clients -> Seq(Message)]
      /\ asked' \in [Clients -> {Fork!NoRequest, -1} \cup Sent] /\ cuts' \in 0..MaxCuts
    <2>1. {c} \in SUBSET Clients OBVIOUS
    <2> QED BY <2>1, <1>1, GoneHas DEF ForkInv
<1>3. sends' \subseteq [id : Sent, to : (SUBSET Clients) \ {{}}] BY <1>1, StillSends DEF ForkInv
<1>4. ForkTypes' BY <1>1, <1>2, <1>3 DEF ForkInv, ForkTypes
<1>5. ForkOrder' BY <1>1 DEF ForkInv, ForkOrder
<1> QED BY <1>4, <1>5 DEF ForkInv

LEMMA ReloadStep == ASSUME ForkInv, NEW c \in Clients, Fork!Reload(c) PROVE ForkInv'
<1>1. /\ Fork!Gone({c}) /\ sends' = UNION {Fork!StillTo(s, {c}) : s \in sends}
      /\ lastSeen' = [lastSeen EXCEPT ![c] = -1] /\ fetch' = [fetch EXCEPT ![c] = Fork!Asked]
      /\ ready' = [ready EXCEPT ![c] = FALSE] /\ dialogSeen' = [dialogSeen EXCEPT ![c] = -1]
      /\ held' = [held EXCEPT ![c] = <<>>] /\ shown' = [shown EXCEPT ![c] = <<>>]
      /\ UNCHANGED <<events, buffer, history>>
    BY DEF Fork!Reload
<1>2. /\ online' \subseteq Clients /\ wire' \in [Clients -> Seq(Message)]
      /\ asked' \in [Clients -> {Fork!NoRequest, -1} \cup Sent] /\ cuts' \in 0..MaxCuts
    <2>1. {c} \in SUBSET Clients OBVIOUS
    <2> QED BY <2>1, <1>1, GoneHas DEF ForkInv
<1>3. sends' \subseteq [id : Sent, to : (SUBSET Clients) \ {{}}] BY <1>1, StillSends DEF ForkInv
<1>4. Fork!Asked \in [at : {"asked", "answered", "done"}, answer : Seq(Sent)] /\ Fork!Asked.answer = <<>>
    BY DEF Fork!Asked
<1>5. /\ fetch' \in [Clients -> [at : {"asked", "answered", "done"}, answer : Seq(Sent)]]
      /\ lastSeen' \in [Clients -> {-1} \cup Sent] /\ dialogSeen' \in [Clients -> {-1} \cup Sent]
    BY <1>1, <1>4 DEF ForkInv, ForkTypes
<1>6. /\ ready' \in [Clients -> BOOLEAN] /\ held' \in [Clients -> Seq(Sent)]
      /\ shown' \in [Clients -> Seq(Sent)]
    <2>1. <<>> \in Seq(Sent) OBVIOUS
    <2> QED BY <2>1, <1>1 DEF ForkInv, ForkTypes
<1>7. ForkTypes' BY <1>1, <1>2, <1>3, <1>5, <1>6 DEF ForkInv, ForkTypes
<1>8. \A d \in Clients : /\ shown'[d] = IF d = c THEN <<>> ELSE shown[d]
                         /\ dialogSeen'[d] = IF d = c THEN -1 ELSE dialogSeen[d]
                         /\ fetch'[d].answer = IF d = c THEN <<>> ELSE fetch[d].answer
    BY <1>1, <1>4 DEF ForkInv, ForkTypes
<1>9. Fork!Increasing(<<>>) BY DEF Fork!Increasing
<1>10. ForkOrder' BY <1>1, <1>8, <1>9 DEF ForkInv, ForkOrder
<1> QED BY <1>7, <1>10 DEF ForkInv

LEMMA ServerRestartStep == ASSUME ForkInv, Fork!Restart PROVE ForkInv'
<1>1. /\ Fork!Gone(Clients) /\ buffer' = <<>> /\ sends' = {}
      /\ UNCHANGED <<events, history, lastSeen, fetch, ready, dialogSeen, held, shown>>
    BY DEF Fork!Restart, Fork!dialogVars
<1>2. /\ online' \subseteq Clients /\ wire' \in [Clients -> Seq(Message)]
      /\ asked' \in [Clients -> {Fork!NoRequest, -1} \cup Sent] /\ cuts' \in 0..MaxCuts
    <2>1. Clients \in SUBSET Clients OBVIOUS
    <2> QED BY <2>1, <1>1, GoneHas DEF ForkInv
<1>3. buffer' \in Seq(Sent) /\ sends' \subseteq [id : Sent, to : (SUBSET Clients) \ {{}}]
    BY <1>1
<1>4. ForkTypes' BY <1>1, <1>2, <1>3 DEF ForkInv, ForkTypes
<1>5. ForkOrder' BY <1>1 DEF ForkInv, ForkOrder
<1> QED BY <1>4, <1>5 DEF ForkInv

LEMMA ForkStep == ForkInv /\ Fork!Next => ForkInv'
BY SendStep, DeliverStep, SendTargetedStep, AnswerReplayStep, AnswerHistoryStep, ConnectStep,
   ReceiveStep, FetchLoadStep, CutStep, ReloadStep, ServerRestartStep DEF Fork!Next

LEMMA ForkStart == Fork!Init => ForkInv
<1> SUFFICES ASSUME Fork!Init PROVE ForkInv OBVIOUS
<1> USE DEF Fork!Init
<1>1. \A X : <<>> \in Seq(X) OBVIOUS
<1>2. Fork!Asked \in [at : {"asked", "answered", "done"}, answer : Seq(Sent)] /\ Fork!Asked.answer = <<>>
    BY <1>1 DEF Fork!Asked
<1>3. events \in Seq(Fork!EventKinds) /\ Len(events) <= MaxEvents /\ cuts \in 0..MaxCuts
    BY ForkAssumption
<1>4. buffer \in Seq(Sent) /\ history \in Seq(Sent) /\ sends = {} /\ online = {}
    BY <1>1
<1>5. wire \in [Clients -> Seq(Message)] /\ held \in [Clients -> Seq(Sent)] /\ shown \in [Clients -> Seq(Sent)]
    BY <1>1
<1>6. /\ asked \in [Clients -> {Fork!NoRequest, -1} \cup Sent] /\ lastSeen \in [Clients -> {-1} \cup Sent]
      /\ dialogSeen \in [Clients -> {-1} \cup Sent] /\ ready \in [Clients -> BOOLEAN]
    OBVIOUS
<1>7. fetch \in [Clients -> [at : {"asked", "answered", "done"}, answer : Seq(Sent)]]
    BY <1>2
<1>8. ForkTypes BY <1>3, <1>4, <1>5, <1>6, <1>7 DEF ForkTypes
<1>9. ForkOrder BY <1>2 DEF ForkOrder, Fork!Increasing
<1> QED BY <1>8, <1>9 DEF ForkInv

LEMMA ForkRests == ForkInv /\ UNCHANGED forkVars => ForkInv'
BY DEF ForkInv, ForkTypes, ForkOrder, forkVars

LEMMA ForkTypeOK == ForkInv => Fork!TypeOK
<1> SUFFICES ASSUME ForkInv PROVE Fork!TypeOK OBVIOUS
<1> USE DEF ForkInv, ForkTypes
<1>1. \A i \in DOMAIN events : events[i] \in Fork!EventKinds OBVIOUS
<1>2. Fork!ToSet(history) \subseteq Fork!Ids /\ Fork!ToSet(buffer) \subseteq Fork!Ids
    BY ToSetHas DEF Sent
<1>3. \A s \in sends : s.id \in Fork!Ids /\ s.to \in (SUBSET Clients) \ {{}} BY DEF Sent
<1>4. \A c \in Clients :
        /\ asked[c] \in {Fork!NoRequest, -1} \cup Fork!Ids /\ lastSeen[c] \in {-1} \cup Fork!Ids
        /\ fetch[c].at \in {"asked", "answered", "done"}
        /\ ready[c] \in BOOLEAN /\ dialogSeen[c] \in {-1} \cup Fork!Ids
    BY DEF Sent
<1>5. \A c \in Clients : Fork!ToSet(held[c]) \subseteq Fork!Ids /\ Fork!ToSet(shown[c]) \subseteq Fork!Ids
    BY ToSetHas DEF Sent
<1> QED BY <1>1, <1>2, <1>3, <1>4, <1>5 DEF Fork!TypeOK

\* No overlap of the history, of replays, of live events and of events held back makes a
\* page show an event twice or out of order (ChatDialog.handleEvent, _fetchHistory).
THEOREM PagesShowOnce == Spec => []ShownOnce
<1>1. Init => ForkInv BY ForkStart DEF Init
<1>2. ForkInv /\ [Next]_allVars => ForkInv'
  <2> SUFFICES ASSUME ForkInv, [Next]_allVars PROVE ForkInv' OBVIOUS
  <2>1. CASE Fork!Next BY <2>1, ForkStep
  <2>2. CASE UNCHANGED forkVars BY <2>2, ForkRests
  <2> QED BY <2>1, <2>2 DEF Next, allVars
<1>3. ForkInv => ShownOnce BY DEF ForkInv, ForkOrder, ShownOnce, Fork!ShownOnce
<1> QED BY <1>1, <1>2, <1>3, PTL DEF Spec, allVars

-----------------------------------------------------------------------------
(* The types of the parts *)

\* Nothing refers to an agent object that has not been made, and no agent object has more
\* messages queued than there were.
RegistryTypes ==
    /\ agents \in Seq(Registry!Object) /\ Len(agents) <= MaxInstances
    /\ registry \in [Threads -> 0..Len(agents)] /\ routes \in [Threads -> 0..Len(agents)]
    /\ threads \subseteq Threads /\ saved \subseteq Threads /\ late \subseteq Threads
    /\ deletions \subseteq [thread : Threads, at : {"closing", "notifying"}, agent : 1..Len(agents)]
    /\ userMessages \in 0..MaxUserMessages /\ startFailures \in 0..MaxStartFailures
    /\ \A n \in DOMAIN agents : agents[n].queued <= userMessages

\* A field of an agent object changes, the others stay.
LEMMA ObjectHas ==
    \A o \in Registry!Object :
        o.thread \in Threads /\ o.queued \in 0..MaxUserMessages /\ o.busy \in BOOLEAN
BY DEF Registry!Object

LEMMA ObjectAt ==
    \A o \in Registry!Object : \A a \in {"starting", "open", "failed", "closed"} :
        [o EXCEPT !.at = a] \in Registry!Object /\ [o EXCEPT !.at = a].queued = o.queued
BY DEF Registry!Object

LEMMA ObjectBusy ==
    \A o \in Registry!Object : \A b \in BOOLEAN :
        [o EXCEPT !.busy = b] \in Registry!Object /\ [o EXCEPT !.busy = b].queued = o.queued
BY DEF Registry!Object

LEMMA ObjectQueued ==
    \A o \in Registry!Object : \A q \in 0..MaxUserMessages :
        [o EXCEPT !.queued = q] \in Registry!Object /\ [o EXCEPT !.queued = q].queued = q
BY DEF Registry!Object

LEMMA ObjectPut ==
    ASSUME RegistryTypes, NEW n \in DOMAIN agents, NEW o \in Registry!Object,
           o.queued <= userMessages', userMessages' \in userMessages..MaxUserMessages,
           agents' = [agents EXCEPT ![n] = o]
    PROVE  /\ agents' \in Seq(Registry!Object) /\ Len(agents') = Len(agents)
           /\ Len(agents') <= MaxInstances
           /\ \A k \in DOMAIN agents' : agents'[k].queued <= userMessages'
<1>1. agents \in Seq(Registry!Object) /\ Len(agents) <= MaxInstances BY DEF RegistryTypes
<1>2. /\ DOMAIN agents' = DOMAIN agents
      /\ \A k \in DOMAIN agents : agents'[k] = IF k = n THEN o ELSE agents[k]
    BY <1>1
<1>3. agents' \in Seq(Registry!Object) /\ Len(agents') = Len(agents)
    BY <1>1
<1>4. \A k \in DOMAIN agents : agents[k].queued <= userMessages /\ agents[k].queued \in Int
    BY <1>1, ObjectHas DEF RegistryTypes
<1>5. userMessages \in Int /\ userMessages' \in Int /\ userMessages <= userMessages'
    BY DEF RegistryTypes
<1>6. \A k \in DOMAIN agents' : agents'[k].queued <= userMessages'
    BY <1>2, <1>4, <1>5
<1> QED BY <1>1, <1>3, <1>6

LEMMA NewTyped ==
    ASSUME RegistryTypes, NEW k \in Threads, NEW for \in {"use", "delete"}, NEW queued \in 0..MaxUserMessages,
           queued <= userMessages', userMessages' \in userMessages..MaxUserMessages,
           Registry!New(k, for, queued),
           UNCHANGED <<registry, saved, deletions, late, startFailures>>
    PROVE  RegistryTypes'
<1> USE RegistryAssumption
<1> DEFINE o == [thread |-> k, at |-> "starting", for |-> for, queued |-> queued, busy |-> FALSE]
           n == Len(agents)
<1>1. /\ n < MaxInstances /\ agents' = Append(agents, o)
      /\ routes' = [routes EXCEPT ![k] = n + 1] /\ threads' = threads \cup {k}
    BY DEF Registry!New
<1>2. o \in Registry!Object /\ o.queued = queued BY DEF Registry!Object
<1>3. agents \in Seq(Registry!Object) /\ n \in Nat BY DEF RegistryTypes
<1> HIDE DEF o
<1>4. agents' \in Seq(Registry!Object) /\ Len(agents') = n + 1 /\ Len(agents') <= MaxInstances
    BY <1>1, <1>2, <1>3
<1>5. \A i \in DOMAIN agents' : (i \in DOMAIN agents /\ agents'[i] = agents[i]) \/ agents'[i] = o
    BY <1>1, <1>2, <1>3
<1>6. \A i \in DOMAIN agents : agents[i].queued <= userMessages /\ agents[i].queued \in Int
    BY <1>3, ObjectHas DEF RegistryTypes
<1>7. \A i \in DOMAIN agents' : agents'[i].queued <= userMessages'
    <2>1. userMessages \in Int /\ userMessages' \in Int /\ userMessages <= userMessages' BY DEF RegistryTypes
    <2> QED BY <2>1, <1>2, <1>5, <1>6
<1>8. registry' \in [Threads -> 0..(n + 1)] /\ routes' \in [Threads -> 0..(n + 1)]
    <2>1. \A x \in 0..n : x \in 0..(n + 1) BY <1>3
    <2> QED BY <2>1, <1>1, <1>3 DEF RegistryTypes
<1>9. deletions' \subseteq [thread : Threads, at : {"closing", "notifying"}, agent : 1..(n + 1)]
    <2>1. \A x \in 1..n : x \in 1..(n + 1) BY <1>3
    <2> QED BY <2>1 DEF RegistryTypes
<1>10. userMessages' \in 0..MaxUserMessages BY DEF RegistryTypes
<1> HIDE DEF n
<1> QED BY <1>1, <1>4, <1>7, <1>8, <1>9, <1>10 DEF RegistryTypes

LEMMA RegistryTyped == RegistryTypes /\ Registry!Next => RegistryTypes'
<1> SUFFICES ASSUME RegistryTypes, Registry!Next PROVE RegistryTypes' OBVIOUS
<1> USE RegistryAssumption
<1>0. /\ 0 \in 0..MaxUserMessages /\ 0 <= userMessages
      /\ userMessages \in Nat /\ userMessages \in userMessages..MaxUserMessages
    BY DEF RegistryTypes
<1>n. /\ Len(agents) \in Nat /\ DOMAIN agents = 1..Len(agents)
      /\ \A n \in DOMAIN agents : agents[n] \in Registry!Object /\ agents[n].queued <= userMessages
    BY DEF RegistryTypes
<1>1. ASSUME NEW k \in Threads, Registry!Get(k) \/ Registry!DeleteUnopened(k) PROVE RegistryTypes'
    BY <1>0, <1>1, NewTyped DEF Registry!Get, Registry!DeleteUnopened
<1>2. ASSUME NEW k \in Threads, Registry!Message(k) PROVE RegistryTypes'
    <2>1. /\ userMessages' = userMessages + 1 /\ userMessages' \in userMessages..MaxUserMessages
          /\ UNCHANGED <<registry, saved, deletions, late, startFailures>>
        BY <1>0, <1>2 DEF Registry!Message
    <2>2. CASE routes[k] # 0
        <3> DEFINE n == routes[k]
                   o == [agents[n] EXCEPT !.queued = @ + 1]
        <3>1. n \in DOMAIN agents BY <2>2, <1>n DEF RegistryTypes
        <3>2. agents' = [agents EXCEPT ![n].queued = @ + 1] /\ UNCHANGED <<routes, threads>>
            BY <1>2, <2>2 DEF Registry!Message
        <3>3. agents[n] \in Registry!Object /\ agents[n].queued <= userMessages BY <3>1, <1>n
        <3> HIDE DEF n
        <3>4. agents[n].queued + 1 \in 0..MaxUserMessages /\ agents[n].queued + 1 <= userMessages'
            <4>1. agents[n].queued \in 0..MaxUserMessages BY <3>3, ObjectHas
            <4> QED BY <4>1, <3>3, <2>1, <1>0
        <3>5. o \in Registry!Object /\ o.queued = agents[n].queued + 1 BY <3>3, <3>4, ObjectQueued
        <3>6. agents' = [agents EXCEPT ![n] = o] BY <3>2
        <3> HIDE DEF o
        <3>7. /\ agents' \in Seq(Registry!Object) /\ Len(agents') = Len(agents)
              /\ Len(agents') <= MaxInstances
              /\ \A i \in DOMAIN agents' : agents'[i].queued <= userMessages'
            BY <2>1, <3>1, <3>4, <3>5, <3>6, ObjectPut
        <3>8. userMessages' \in 0..MaxUserMessages BY <2>1, <1>0
        <3> QED BY <2>1, <3>2, <3>7, <3>8 DEF RegistryTypes
    <2>3. CASE routes[k] = 0
        <3>1. Registry!New(k, "use", 1) BY <1>2, <2>3 DEF Registry!Message
        <3>2. 1 \in 0..MaxUserMessages /\ 1 <= userMessages' BY <2>1, <1>0
        <3> QED BY <2>1, <3>1, <3>2, NewTyped
    <2> QED BY <2>2, <2>3
<1>3. ASSUME NEW k \in Threads, Registry!Delete(k) PROVE RegistryTypes'
    <2>1. /\ deletions' = deletions \cup {[thread |-> k, at |-> "closing", agent |-> registry[k]]}
          /\ registry[k] # 0
          /\ UNCHANGED <<registry, agents, routes, threads, saved, late, userMessages, startFailures>>
        BY <1>3 DEF Registry!Delete
    <2>2. registry[k] \in 1..Len(agents) BY <2>1, <1>n DEF RegistryTypes
    <2> QED BY <2>1, <2>2 DEF RegistryTypes
<1>4. ASSUME NEW n \in DOMAIN agents, Registry!Started(n) PROVE RegistryTypes'
    <2> DEFINE o == [agents[n] EXCEPT !.at = "open"]
               d == [thread |-> agents[n].thread, at |-> "closing", agent |-> n]
    <2>1. /\ agents' = [agents EXCEPT ![n] = o]
          /\ registry' = [registry EXCEPT ![agents[n].thread] = n]
          /\ deletions' \subseteq deletions \cup {d}
          /\ UNCHANGED <<routes, threads, saved, late, userMessages, startFailures>>
        BY <1>4 DEF Registry!Started
    <2>2. agents[n] \in Registry!Object /\ agents[n].queued <= userMessages BY <1>n
    <2>3. o \in Registry!Object /\ o.queued = agents[n].queued /\ agents[n].thread \in Threads
        BY <2>2, ObjectHas, ObjectAt
    <2> HIDE DEF o
    <2>4. /\ agents' \in Seq(Registry!Object) /\ Len(agents') = Len(agents)
          /\ Len(agents') <= MaxInstances
          /\ \A i \in DOMAIN agents' : agents'[i].queued <= userMessages'
        BY <2>1, <2>2, <2>3, <1>0, ObjectPut
    <2>5. registry' \in [Threads -> 0..Len(agents)]
        <3>1. n \in 0..Len(agents) BY <1>n
        <3>2. registry \in [Threads -> 0..Len(agents)] BY DEF RegistryTypes
        <3> QED BY <2>1, <3>1, <3>2
    <2>6. deletions' \subseteq [thread : Threads, at : {"closing", "notifying"}, agent : 1..Len(agents)]
        BY <2>1, <2>3, <1>n DEF RegistryTypes
    <2> QED BY <2>1, <2>4, <2>5, <2>6 DEF RegistryTypes
<1>5. ASSUME NEW n \in DOMAIN agents, Registry!StartFails(n) PROVE RegistryTypes'
    <2> DEFINE o == [agents[n] EXCEPT !.at = "failed"]
    <2>1. /\ agents' = [agents EXCEPT ![n] = o]
          /\ startFailures < MaxStartFailures /\ startFailures' = startFailures + 1
          /\ UNCHANGED <<registry, routes, threads, saved, deletions, late, userMessages>>
        BY <1>5 DEF Registry!StartFails
    <2>2. agents[n] \in Registry!Object /\ agents[n].queued <= userMessages BY <1>n
    <2>3. o \in Registry!Object /\ o.queued = agents[n].queued BY <2>2, ObjectAt
    <2> HIDE DEF o
    <2>4. /\ agents' \in Seq(Registry!Object) /\ Len(agents') = Len(agents)
          /\ Len(agents') <= MaxInstances
          /\ \A i \in DOMAIN agents' : agents'[i].queued <= userMessages'
        BY <2>1, <2>2, <2>3, <1>0, ObjectPut
    <2>5. startFailures' \in 0..MaxStartFailures BY <2>1 DEF RegistryTypes
    <2> QED BY <2>1, <2>4, <2>5 DEF RegistryTypes
<1>6. ASSUME NEW n \in DOMAIN agents, Registry!TurnStarts(n) PROVE RegistryTypes'
    <2> DEFINE o == [agents[n] EXCEPT !.queued = 0, !.busy = TRUE]
    <2>1. /\ agents' = [agents EXCEPT ![n].queued = 0, ![n].busy = TRUE]
          /\ UNCHANGED <<registry, routes, threads, saved, deletions, late, userMessages, startFailures>>
        BY <1>6 DEF Registry!TurnStarts
    <2>2. agents[n] \in Registry!Object BY <1>n
    <2>3. o \in Registry!Object /\ o.queued = 0
        <3> DEFINE none == [agents[n] EXCEPT !.queued = 0]
        <3>1. o = [none EXCEPT !.busy = TRUE] BY <2>2 DEF Registry!Object
        <3>2. none \in Registry!Object /\ none.queued = 0 BY <2>2, <1>0, ObjectQueued
        <3> HIDE DEF none, o
        <3>3. TRUE \in BOOLEAN OBVIOUS
        <3> QED BY <3>1, <3>2, <3>3, ObjectBusy
    <2>a. agents' = [agents EXCEPT ![n] = o] BY <2>1
    <2> HIDE DEF o
    <2>4. /\ agents' \in Seq(Registry!Object) /\ Len(agents') = Len(agents)
          /\ Len(agents') <= MaxInstances
          /\ \A i \in DOMAIN agents' : agents'[i].queued <= userMessages'
        BY <2>1, <2>a, <2>3, <1>0, ObjectPut
    <2> QED BY <2>1, <2>4 DEF RegistryTypes
<1>7. ASSUME NEW n \in DOMAIN agents, Registry!TurnEnds(n) PROVE RegistryTypes'
    <2> DEFINE o == [agents[n] EXCEPT !.busy = FALSE]
    <2>1. /\ agents' = [agents EXCEPT ![n] = o]
          /\ saved' = saved \cup {agents[n].thread} /\ late' \subseteq late \cup {agents[n].thread}
          /\ UNCHANGED <<registry, routes, threads, deletions, userMessages, startFailures>>
        BY <1>7 DEF Registry!TurnEnds
    <2>2. agents[n] \in Registry!Object /\ agents[n].queued <= userMessages BY <1>n
    <2>3. o \in Registry!Object /\ o.queued = agents[n].queued /\ agents[n].thread \in Threads
        BY <2>2, ObjectHas, ObjectBusy
    <2> HIDE DEF o
    <2>4. /\ agents' \in Seq(Registry!Object) /\ Len(agents') = Len(agents)
          /\ Len(agents') <= MaxInstances
          /\ \A i \in DOMAIN agents' : agents'[i].queued <= userMessages'
        BY <2>1, <2>2, <2>3, <1>0, ObjectPut
    <2>5. saved' \subseteq Threads /\ late' \subseteq Threads BY <2>1, <2>3 DEF RegistryTypes
    <2> QED BY <2>1, <2>4, <2>5 DEF RegistryTypes
<1>8. ASSUME NEW d \in deletions, Registry!Closed(d) PROVE RegistryTypes'
    <2> DEFINE n == d.agent
               o == [agents[n] EXCEPT !.at = "closed"]
    <2>1. /\ agents' = [agents EXCEPT ![n] = o]
          /\ registry' = [registry EXCEPT ![d.thread] = 0]
          /\ saved' \subseteq saved /\ threads' \subseteq threads
          /\ deletions' = (deletions \ {d}) \cup {[d EXCEPT !.at = "notifying"]}
          /\ UNCHANGED <<routes, late, userMessages, startFailures>>
        BY <1>8 DEF Registry!Closed
    <2>2. /\ n \in DOMAIN agents /\ d.thread \in Threads
          /\ [d EXCEPT !.at = "notifying"] \in
                [thread : Threads, at : {"closing", "notifying"}, agent : 1..Len(agents)]
        BY <1>n DEF RegistryTypes
    <2> HIDE DEF n
    <2>3. agents[n] \in Registry!Object /\ agents[n].queued <= userMessages BY <2>2, <1>n
    <2>4. o \in Registry!Object /\ o.queued = agents[n].queued BY <2>3, ObjectAt
    <2> HIDE DEF o
    <2>5. /\ agents' \in Seq(Registry!Object) /\ Len(agents') = Len(agents)
          /\ Len(agents') <= MaxInstances
          /\ \A i \in DOMAIN agents' : agents'[i].queued <= userMessages'
        BY <2>1, <2>2, <2>3, <2>4, <1>0, ObjectPut
    <2>6. registry' \in [Threads -> 0..Len(agents)] BY <2>1, <1>n DEF RegistryTypes
    <2>7. deletions' \subseteq [thread : Threads, at : {"closing", "notifying"}, agent : 1..Len(agents)]
        BY <2>1, <2>2 DEF RegistryTypes
    <2> QED BY <2>1, <2>5, <2>6, <2>7 DEF RegistryTypes
<1>9. ASSUME NEW d \in deletions, Registry!Notified(d) PROVE RegistryTypes'
    <2>1. /\ routes' = [routes EXCEPT ![d.thread] = 0] /\ deletions' = deletions \ {d}
          /\ UNCHANGED <<registry, agents, threads, saved, late, userMessages, startFailures>>
        BY <1>9 DEF Registry!Notified
    <2>2. routes' \in [Threads -> 0..Len(agents)] BY <2>1, <1>n DEF RegistryTypes
    <2> QED BY <2>1, <2>2 DEF RegistryTypes
<1> QED BY <1>1, <1>2, <1>3, <1>4, <1>5, <1>6, <1>7, <1>8, <1>9 DEF Registry!Next

LEMMA RegistryTypesStart == Registry!Init => RegistryTypes
<1> SUFFICES ASSUME Registry!Init PROVE RegistryTypes OBVIOUS
<1>1. agents = <<>> /\ Len(agents) = 0 /\ agents \in Seq(Registry!Object) /\ DOMAIN agents = {}
    BY DEF Registry!Init
<1>2. registry \in [Threads -> 0..Len(agents)] /\ routes \in [Threads -> 0..Len(agents)]
    BY <1>1 DEF Registry!Init
<1> QED BY <1>1, <1>2, RegistryAssumption DEF Registry!Init, RegistryTypes

LEMMA RegistryTypesRest == RegistryTypes /\ UNCHANGED registryVars => RegistryTypes'
BY DEF RegistryTypes, registryVars

LEMMA RegistryTypeOK == RegistryTypes => Registry!TypeOK
<1> SUFFICES ASSUME RegistryTypes PROVE Registry!TypeOK OBVIOUS
<1>1. /\ 0..Len(agents) \subseteq {0} \cup Registry!Numbers /\ 1..Len(agents) \subseteq Registry!Numbers
    BY RegistryAssumption DEF RegistryTypes, Registry!Numbers
<1>2. registry \in [Threads -> {0} \cup Registry!Numbers] /\ routes \in [Threads -> {0} \cup Registry!Numbers]
    BY <1>1 DEF RegistryTypes
<1>3. deletions \subseteq [thread : Threads, at : {"closing", "notifying"}, agent : Registry!Numbers]
    BY <1>1 DEF RegistryTypes
<1>4. \A n \in DOMAIN agents : agents[n] \in Registry!Object BY DEF RegistryTypes
<1> QED BY <1>2, <1>3, <1>4 DEF RegistryTypes, Registry!TypeOK

LEMMA BindingsTypeOK == BindingsInv => Bindings!TypeOK
<1> SUFFICES ASSUME BindingsInv PROVE Bindings!TypeOK OBVIOUS
<1>1. /\ deletion.thread \in Bindings!ThreadIds \cup {None}
      /\ deletion.left \subseteq Bindings!Chats /\ deletion.todo \subseteq Bindings!Chats \X Bindings!TopicIds
    BY DEF BindingsInv, BindingsTypes, Deletes
<1> QED BY <1>1 DEF BindingsInv, BindingsTypes, Table, Places, Bindings!TypeOK

LEMMA QueueTypeOK == QueueInv => Queue!TypeOK
<1> SUFFICES ASSUME QueueInv PROVE Queue!TypeOK OBVIOUS
<1> USE DEF QueueInv
<1>1. /\ \A i \in DOMAIN queue : queue[i] \in Queue!Item
      /\ worker \in {"none", "ready", "waiting", "flooded", "dead"}
      /\ item \in Queue!Item \cup {None} /\ errors \in 0..MaxErrors
    BY DEF WorkerTypes
<1>2. DOMAIN lastEdit \subseteq 1..sent /\ DOMAIN chat \subseteq 1..sent /\ sent \in Nat
    BY DEF ChatTells
<1>3. \A s \in Streams : Queue!ToSet(messages[s]) \subseteq 1..sent
    <2>1. \A s \in Streams : \A i \in DOMAIN messages[s] : messages[s][i] \in 1..sent
        BY DEF ChatTells
    <2> TAKE s \in Streams
    <2>2. ASSUME NEW x \in Queue!ToSet(messages[s]) PROVE x \in 1..sent
        <3>1. PICK i \in DOMAIN messages[s] : x = messages[s][i] BY DEF Queue!ToSet
        <3> QED BY <3>1, <2>1
    <2> QED BY <2>2
<1>4. /\ caller \in [Streams -> {"idle", "sending", "deleting", "cancelled"}]
      /\ \A s \in Streams : bodies[s] \in Queue!Bodies \cup {<<>>}
      /\ updates \in [Streams -> 0..MaxUpdates] /\ broken \in [Streams -> 0..MaxUpdates]
    BY DEF StreamTypes, CallerStates
<1> QED BY <1>1, <1>2, <1>3, <1>4 DEF Queue!TypeOK

AllTyped == QueueInv /\ InboxInv /\ BindingsInv /\ ForkInv /\ RegistryTypes /\ MovieInv

\* Whichever part runs, its values keep their types, and so do those of the parts at rest:
\* agent objects, topics, messages and events that are referred to have been made.
THEOREM TransportsTyped == Spec => []TypeOK
<1>1. Init => AllTyped
    BY QueueStart, InboxStart, BindingsStart, ForkStart, RegistryTypesStart, MovieStart DEF Init, AllTyped
<1>2. AllTyped /\ [Next]_allVars => AllTyped'
  <2> SUFFICES ASSUME AllTyped, [Next]_allVars PROVE AllTyped' OBVIOUS
  <2>1. QueueInv' BY QueueStep, QueueRests DEF Next, AllTyped, allVars
  <2>2. InboxInv' BY InboxStep, InboxRests DEF Next, AllTyped, allVars
  <2>3. BindingsInv'
    <3>1. CASE Bindings!Next BY <3>1, BindingsStep DEF AllTyped
    <3>2. CASE UNCHANGED bindingsVars BY <3>2, BindingsRest DEF AllTyped
    <3> QED BY <3>1, <3>2 DEF Next, allVars
  <2>4. ForkInv' BY ForkStep, ForkRests DEF Next, AllTyped, allVars
  <2>5. RegistryTypes' BY RegistryTyped, RegistryTypesRest DEF Next, AllTyped, allVars
  <2>6. MovieInv' BY MovieStep, MovieRests DEF Next, AllTyped, allVars
  <2> QED BY <2>1, <2>2, <2>3, <2>4, <2>5, <2>6 DEF AllTyped
<1>3. AllTyped => TypeOK
    BY QueueTypeOK, InboxTypeOK, BindingsTypeOK, ForkTypeOK, RegistryTypeOK, MovieTypeOK DEF AllTyped, TypeOK
<1> QED BY <1>1, <1>2, <1>3, PTL DEF Spec, allVars
=============================================================================
