---------------------------- MODULE MCTransports -----------------------------
(* The transports' parts, the project that the movie's transport serves among   *)
(* them: the initial states choose which of them runs, the others rest.         *)
EXTENDS Integers, Sequences

CONSTANTS
    Streams, Texts, MaxUpdates, MaxBodies, MaxErrors,
    Kinds, MaxMessages, MaxFailures,
    Agents, MainAgent, Groups, MainChat, BoundThreads, Default, Tasks, None, MaxTopics, MaxBinds,
    Clients, BufferMax, MaxEvents, MaxCuts,
    Threads, MaxInstances, MaxUserMessages, MaxStartFailures,
    MaxIds, MaxLaunches

VARIABLE part
VARIABLES queue, worker, item, lastEdit, messages, caller, bodies, updates, broken, chat, sent, errors
VARIABLES arrived, pending, flushTask, handling, given, dropped, failures, closed
VARIABLES bindings, file, place, creating, deletion, topics, migrated, binds
VARIABLES events, buffer, history, sends, online, wire, asked, lastSeen, fetch, ready, dialogSeen,
          held, shown, cuts
VARIABLES registry, agents, routes, threads, saved, deletions, late, userMessages, startFailures
VARIABLES live, project, disk, jobs, edit, written, cut, overwritten

Queue == INSTANCE TelegramQueue
Inbox == INSTANCE TelegramInbox
Bindings == INSTANCE TelegramBindings WITH Threads <- BoundThreads
Fork == INSTANCE WebFork
Registry == INSTANCE AgentRegistry
    WITH MaxMessages <- MaxUserMessages, MaxFailures <- MaxStartFailures,
         messages <- userMessages, failures <- startFailures
Movie == INSTANCE MovieProject

\* A transport's queue: None is neither an item nor a message id; counts are counts.
ASSUME QueueAssumption ==
    /\ None \notin Queue!Item /\ None \notin Nat
    /\ MaxUpdates \in Nat /\ MaxErrors \in Nat

\* The inbox: counts are counts.
ASSUME InboxAssumption == MaxMessages \in Nat /\ MaxFailures \in Nat

\* The bindings: None is neither an agent nor a chat, the main agent is one of the agents.
ASSUME BindingsAssumption ==
    /\ None \notin Agents /\ None \notin Bindings!Chats /\ MainAgent \in Agents
    /\ MaxTopics \in Nat /\ MaxBinds \in Nat

\* The registry: counts are counts.
ASSUME RegistryAssumption ==
    MaxInstances \in Nat /\ MaxUserMessages \in Nat /\ MaxStartFailures \in Nat

\* The web fork: counts are counts.
ASSUME ForkAssumption == MaxEvents \in Nat /\ MaxCuts \in Nat

\* The movie: there is at least one launch.
ASSUME MovieAssumption == MaxIds \in Nat /\ MaxLaunches \in Nat \ {0}

queueVars == <<queue, worker, item, lastEdit, messages, caller, bodies, updates, broken, chat,
               sent, errors>>
inboxVars == <<arrived, pending, flushTask, handling, given, dropped, failures, closed>>
bindingsVars == <<bindings, file, place, creating, deletion, topics, migrated, binds>>
forkVars == <<events, buffer, history, sends, online, wire, asked, lastSeen, fetch, ready,
              dialogSeen, held, shown, cuts>>
registryVars == <<registry, agents, routes, threads, saved, deletions, late, userMessages,
                  startFailures>>
movieVars == <<live, project, disk, jobs, edit, written, cut, overwritten>>

Init ==
    /\ part \in {"queue", "inbox", "bindings", "fork", "registry", "movie"}
    /\ Queue!Init /\ Inbox!Init /\ Bindings!Init /\ Fork!Init /\ Registry!Init
    /\ Movie!Init

Next ==
    /\ UNCHANGED part
    /\ \/ /\ part = "queue" /\ Queue!Next
          /\ UNCHANGED <<inboxVars, bindingsVars, forkVars, registryVars, movieVars>>
       \/ /\ part = "inbox" /\ Inbox!Next
          /\ UNCHANGED <<queueVars, bindingsVars, forkVars, registryVars, movieVars>>
       \/ /\ part = "bindings" /\ Bindings!Next
          /\ UNCHANGED <<queueVars, inboxVars, forkVars, registryVars, movieVars>>
       \/ /\ part = "fork" /\ Fork!Next
          /\ UNCHANGED <<queueVars, inboxVars, bindingsVars, registryVars, movieVars>>
       \/ /\ part = "registry" /\ Registry!Next
          /\ UNCHANGED <<queueVars, inboxVars, bindingsVars, forkVars, movieVars>>
       \/ /\ part = "movie" /\ Movie!Next
          /\ UNCHANGED <<queueVars, inboxVars, bindingsVars, forkVars, registryVars>>

Spec ==
    /\ Init
    /\ [][Next]_<<part, queueVars, inboxVars, bindingsVars, forkVars, registryVars, movieVars>>
    /\ Queue!Fairness

-----------------------------------------------------------------------------

\* The values of every part have their types.
TypeOK ==
    /\ Queue!TypeOK /\ Inbox!TypeOK /\ Bindings!TypeOK /\ Fork!TypeOK /\ Registry!TypeOK
    /\ Movie!TypeOK

\* Telegram, outgoing: whoever awaits a send is answered.
SendsSettle == Queue!SendsSettle

\* Telegram, outgoing: the messages show the last text.
FinalText == Queue!FinalText

\* Telegram, incoming: each message is in one place.
IncomingOnce == Inbox!IncomingOnce

\* Telegram's bindings: an agent has one chat.
OneChatPerAgent == Bindings!OneChatPerAgent

\* The pages: no event is shown twice or out of order.
ShownOnce == Fork!ShownOnce

\* The registry: a deleted thread leaves no history behind.
DeletedIsGone == Registry!DeletedIsGone

\* The movie: the file is the project, a generation that is shown as running runs, and
\* pictures are where the project says.
MovieKept == Movie!MovieKept
=============================================================================
