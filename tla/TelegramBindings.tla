-------------------------- MODULE TelegramBindings ---------------------------
(***************************************************************************)
(* forks/telegram.json and the transports that use it                      *)
(* (transport/telegram.py): which agent a chat belongs to, which thread a  *)
(* topic is, and the chat and topic each transport remembers.  Topics are  *)
(* created and deleted over awaits, by several tasks of several            *)
(* transports, while the user binds chats.                                 *)
(***************************************************************************)
EXTENDS Integers, FiniteSets, Functions

CONSTANTS
    Agents, MainAgent,  \* ids of agents
    Groups,             \* chats besides the private one
    MainChat,           \* _main_chat_id
    Threads,            \* ids of threads an agent makes itself
    Default,            \* the thread ""
    Tasks,              \* tasks of one transport that may need its topic
    None,
    MaxTopics,          \* bound: topics there ever are
    MaxBinds            \* bound: times the user binds a chat, and restarts

VARIABLES
    bindings,    \* _bindings_cache
    file,        \* forks/telegram.json
    place,       \* chat_id and thread_id of the transport of each agent's thread
    creating,    \* tasks that await create_forum_topic, and in which chat
    deletion,    \* the thread_delete that is under way
    topics,      \* topics so far, by number
    migrated,    \* the group that became a supergroup, with its old and new id
    binds

vars == <<bindings, file, place, creating, deletion, topics, migrated, binds>>

NewThread(topic) == <<"topic", topic>>  \* the uuid made for a topic of the user
OldIds == {m[1] : m \in migrated}
Chats == Groups \cup {MainChat}
TopicIds == 1..MaxTopics
ThreadIds == Threads \cup {Default} \cup {NewThread(t) : t \in TopicIds}
Transports == Agents \X (Threads \cup {Default} \cup {NewThread(t) : t \in TopicIds})
Lost == [chat |-> None, topic |-> None]
Entry == [agent : Agents \cup {None}, topics : UNION {[T -> ThreadIds] : T \in SUBSET TopicIds}]
NoTopics == [t \in {} |-> Default]
Rest == [thread |-> None, left |-> {}, todo |-> {}, size |-> 0]

TypeOK ==
    /\ DOMAIN bindings \subseteq Chats /\ \A c \in DOMAIN bindings : bindings[c] \in Entry
    /\ DOMAIN file \subseteq Chats /\ \A c \in DOMAIN file : file[c] \in Entry
    /\ \A tr \in Transports :
        place[tr] \in [chat : Chats \cup {None}, topic : TopicIds \cup {None}]
    /\ creating \subseteq Transports \X Tasks \X Chats
    /\ deletion.thread \in ThreadIds \cup {None}
    /\ deletion.left \subseteq Chats /\ deletion.todo \subseteq Chats \X TopicIds
    /\ topics \in 0..MaxTopics /\ migrated \subseteq Groups \X Groups /\ binds \in 0..MaxBinds

Init ==
    /\ bindings = [c \in {} |-> None] /\ file = bindings
    /\ place = [tr \in Transports |-> Lost]
    /\ creating = {} /\ deletion = Rest
    /\ topics = 0 /\ migrated = {} /\ binds = 0

-----------------------------------------------------------------------------
(* The table *)

\* save_bindings writes the whole table.
Save(b) == bindings' = b /\ file' = b

BoundTo(agent) == {c \in DOMAIN bindings : bindings[c].agent = agent}

\* lookup_binding, without the topic it adds: the agent of a chat.  A chat that is
\* not in the table is the main agent's if it is its private one.
AgentOf(chat, topic) ==
    IF chat \in DOMAIN bindings THEN bindings[chat].agent
    ELSE IF chat = MainChat /\ topic = None THEN MainAgent ELSE None

\* reverse_binding: the chat and topic of a thread, Lost if there is none.
Reverse(tr) ==
    IF tr = <<MainAgent, Default>> THEN {[chat |-> MainChat, topic |-> None]}
    ELSE IF tr[2] = Default THEN {[chat |-> c, topic |-> None] : c \in BoundTo(tr[1])}
    ELSE {p \in [chat : BoundTo(tr[1]), topic : TopicIds] :
            /\ p.topic \in DOMAIN bindings[p.chat].topics
            /\ bindings[p.chat].topics[p.topic] = tr[2]}

\* find_chat_for_agent
ChatFor(agent) ==
    IF BoundTo(agent) = {} /\ agent = MainAgent THEN {MainChat} ELSE BoundTo(agent)

\* Where _ensure_chat_and_topic finds the transport to be.
Found(tr) ==
    IF place[tr].chat # None THEN {place[tr]}
    ELSE IF Reverse(tr) # {} THEN Reverse(tr)
    ELSE [chat : ChatFor(tr[1]), topic : {None}]

-----------------------------------------------------------------------------
(* _ensure_chat_and_topic *)

Busy(tr, task) == \E c \in Chats : <<tr, task, c>> \in creating

\* The place is remembered; a thread that has no topic yet asks for one.
Ensure(tr, task) ==
    /\ ~Busy(tr, task)
    /\ \E p \in Found(tr) :
        /\ place' = [place EXCEPT ![tr] = p]
        /\ creating' = IF p.topic = None /\ tr[2] # Default
                       THEN creating \cup {<<tr, task, p.chat>>} ELSE creating
    /\ UNCHANGED <<bindings, file, deletion, topics, migrated, binds>>

\* The table with the topic in the chat: an entry the chat does not have is made
\* without an agent.
WithTopic(chat, topic, thread) ==
    LET old == IF chat \in DOMAIN bindings THEN bindings[chat]
               ELSE [agent |-> None, topics |-> NoTopics]
        new == [old EXCEPT !.topics = [t \in DOMAIN @ \cup {topic} |->
                    IF t = topic THEN thread ELSE @[t]]]
    IN [c \in DOMAIN bindings \cup {chat} |-> IF c = chat THEN new ELSE bindings[c]]

\* Telegram has made the topic: it is stored under the chat the transport has now.
TopicCreated(tr, task) ==
    /\ topics < MaxTopics /\ topics' = topics + 1
    /\ \E c \in Chats :
        /\ <<tr, task, c>> \in creating /\ c \notin OldIds
        /\ creating' = creating \ {<<tr, task, c>>}
    /\ place' = [place EXCEPT ![tr].topic = topics']
    /\ Save(WithTopic(place[tr].chat, topics', tr[2]))
    /\ UNCHANGED <<deletion, migrated, binds>>

\* Any other answer but a migration: nothing is stored.
TopicRefused(tr, task) ==
    /\ \E c \in Chats : creating' = creating \ {<<tr, task, c>>}
    /\ creating' # creating
    /\ UNCHANGED <<bindings, file, place, deletion, topics, migrated, binds>>

-----------------------------------------------------------------------------
(* The user *)

\* Wrong variant: only the chat itself is looked at.
SaveBindingOnly(chat, agent) ==
    LET old == IF chat \in DOMAIN bindings THEN bindings[chat].topics ELSE NoTopics
    IN [c \in DOMAIN bindings \cup {chat} |->
            IF c = chat THEN [agent |-> agent, topics |-> old] ELSE bindings[c]]

\* _save_binding: the agent loses the chat it had; the topics of this chat stay.
SaveBinding(chat, agent) ==
    LET kept == {c \in DOMAIN bindings : c = chat \/ bindings[c].agent # agent}
        old == IF chat \in DOMAIN bindings THEN bindings[chat].topics ELSE NoTopics
    IN [c \in kept \cup {chat} |->
            IF c = chat THEN [agent |-> agent, topics |-> old] ELSE bindings[c]]

\* bind_to and clone_from, of a chat that answered "not bound".
Bind(chat, agent) ==
    /\ binds < MaxBinds /\ binds' = binds + 1
    /\ chat \notin OldIds
    /\ Save(SaveBinding(chat, agent))
    /\ UNCHANGED <<place, creating, deletion, topics, migrated>>

\* on_message and resolve_tg: a topic that is not in the table of a bound chat
\* becomes a new thread; the transport is where the message came from.
Arrives(chat, topic) ==
    LET agent == AgentOf(chat, topic)
        known == IF chat \in DOMAIN bindings THEN bindings[chat].topics ELSE NoTopics
        thread == IF topic = None THEN Default
                  ELSE IF topic \in DOMAIN known THEN known[topic] ELSE NewThread(topic)
    IN /\ chat \notin OldIds /\ agent # None
       /\ ~(agent = MainAgent /\ topic = None /\ chat # MainChat)
       /\ place' = [place EXCEPT ![<<agent, thread>>] = [chat |-> chat, topic |-> topic]]
       /\ IF topic # None /\ topic \notin DOMAIN known
          THEN Save(WithTopic(chat, topic, thread)) ELSE UNCHANGED <<bindings, file>>
       /\ UNCHANGED <<creating, deletion, migrated, binds>>

Message ==
    \/ \E chat \in Chats, topic \in (1..topics) \cup {None} :
        Arrives(chat, topic) /\ UNCHANGED topics
    \/ \E chat \in Groups :
        /\ topics < MaxTopics /\ topics' = topics + 1
        /\ Arrives(chat, topics')

-----------------------------------------------------------------------------
(* thread_delete *)

\* The topics of the thread in a chat.
TopicsOf(chat, thread) ==
    {<<chat, t>> : t \in IF chat \in DOMAIN bindings
                          THEN {u \in DOMAIN bindings[chat].topics :
                                    bindings[chat].topics[u] = thread}
                          ELSE {}}

\* A topic is deleted in the table, then awaited to be deleted in the chat: every
\* other handler sees and saves the table without it meanwhile.
DeleteTopic(d, e) ==
    /\ deletion' = [d EXCEPT !.todo = @ \ {e}]
    /\ bindings' = IF e[1] \in DOMAIN bindings
                   THEN [bindings EXCEPT ![e[1]].topics = Restrict(@, DOMAIN @ \ {e[2]})]
                   ELSE bindings
    /\ UNCHANGED file

\* From one await to the next: a topic of this chat, or the next chat that has one,
\* or the end.  If chats came or went the iteration raises, and nothing is saved.
Proceed(d) ==
    LET ahead == {c \in d.left : TopicsOf(c, d.thread) # {}} IN
    IF d.todo # {} THEN \E e \in d.todo : DeleteTopic(d, e)
    ELSE IF Cardinality(DOMAIN bindings) # d.size
    THEN deletion' = Rest /\ UNCHANGED <<bindings, file>>
    ELSE IF ahead = {} THEN deletion' = Rest /\ Save(bindings)
    ELSE \E c \in ahead : \E e \in TopicsOf(c, d.thread) :
            DeleteTopic([d EXCEPT !.left = @ \ {c}, !.todo = TopicsOf(c, d.thread)], e)

ThreadDelete(thread) ==
    /\ deletion = Rest /\ thread # Default
    /\ Proceed([thread |-> thread, left |-> DOMAIN bindings, todo |-> {},
                size |-> Cardinality(DOMAIN bindings)])
    /\ UNCHANGED <<place, creating, topics, migrated, binds>>

\* delete_forum_topic has answered, or failed: both go on.
TopicDeleted ==
    /\ deletion # Rest /\ Proceed(deletion)
    /\ UNCHANGED <<place, creating, topics, migrated, binds>>

-----------------------------------------------------------------------------
(* Telegram and the process *)

\* The group gets a new id, and a task that asks for a topic in it learns of it
\* (_migrate_chat) and asks again; the other transports remember the old id.
Migrate(tr, task, chat, new) ==
    /\ <<tr, task, chat>> \in creating
    /\ \/ <<chat, new>> \in migrated
       \/ migrated = {} /\ chat # new /\ new \notin DOMAIN bindings
    /\ migrated' = migrated \cup {<<chat, new>>}
    /\ IF chat \in DOMAIN bindings
       THEN Save([c \in (DOMAIN bindings \ {chat}) \cup {new} |->
                    IF c = new THEN bindings[chat] ELSE bindings[c]])
       ELSE UNCHANGED <<bindings, file>>
    /\ place' = [place EXCEPT ![tr].chat = new]
    /\ creating' = (creating \ {<<tr, task, chat>>}) \cup {<<tr, task, new>>}
    /\ UNCHANGED <<deletion, topics, binds>>

\* The process is started again, and reads the file.
Restart ==
    /\ binds < MaxBinds /\ binds' = binds + 1
    /\ bindings' = file
    /\ place' = [tr \in Transports |-> Lost]
    /\ creating' = {} /\ deletion' = Rest
    /\ UNCHANGED <<file, topics, migrated>>

-----------------------------------------------------------------------------

Own == Agents \X (Threads \cup {Default})

Next ==
    \/ \E tr \in Own, task \in Tasks :
        \/ Ensure(tr, task) \/ TopicCreated(tr, task) \/ TopicRefused(tr, task)
        \/ \E chat, new \in Groups : Migrate(tr, task, chat, new)
    \/ \E chat \in Chats, agent \in Agents : Bind(chat, agent)
    \/ Message
    \/ \E thread \in ThreadIds : ThreadDelete(thread)
    \/ TopicDeleted
    \/ Restart

Spec == Init /\ [][Next]_vars

-----------------------------------------------------------------------------

\* An agent has one chat: whatever the tasks that create, migrate and delete topics
\* are at when the user binds a chat.
OneChatPerAgent == \A agent \in Agents : Cardinality(BoundTo(agent)) <= 1

=============================================================================
