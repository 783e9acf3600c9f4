---------------------------- MODULE AgentRegistry ----------------------------
(***************************************************************************)
(* Agent.get, Agent.close and thread_delete (agent/agent.py) over the      *)
(* registry of one agent's threads, with the web fork's table of           *)
(* transports, which an agent enters before it has started.                *)
(***************************************************************************)
EXTENDS Integers, Sequences, FiniteSets

CONSTANTS
    Threads,       \* thread ids
    MaxInstances,  \* bound: Agent objects ever made
    MaxMessages,   \* bound: messages of the user
    MaxFailures    \* bound: starts that fail

VARIABLES
    registry,   \* _instances: the number of the agent object, 0 if there is none
    agents,     \* every Agent object so far: its thread, state, queued messages, turn
    routes,     \* WebFork.transports, by the agent object behind each
    threads,    \* THREADS.json
    saved,      \* threads whose CONTEXT file exists
    deletions,  \* the thread_deletes under way
    late,       \* threads that saved a turn after they had been deleted
    messages, failures

vars == <<registry, agents, routes, threads, saved, deletions, late, messages, failures>>

Numbers == 1..MaxInstances
Object == [thread : Threads, at : {"starting", "open", "failed", "closed"}, for : {"use", "delete"},
           queued : 0..MaxMessages, busy : BOOLEAN]

TypeOK ==
    /\ registry \in [Threads -> {0} \cup Numbers]
    /\ Len(agents) <= MaxInstances /\ \A n \in DOMAIN agents : agents[n] \in Object
    /\ routes \in [Threads -> {0} \cup Numbers]
    /\ threads \subseteq Threads /\ saved \subseteq Threads /\ late \subseteq Threads
    /\ deletions \subseteq [thread : Threads, at : {"closing", "notifying"}, agent : Numbers]
    /\ messages \in 0..MaxMessages /\ failures \in 0..MaxFailures

Init ==
    /\ registry = [k \in Threads |-> 0] /\ agents = <<>>
    /\ routes = [k \in Threads |-> 0]
    /\ threads = {} /\ saved = {} /\ deletions = {} /\ late = {}
    /\ messages = 0 /\ failures = 0

-----------------------------------------------------------------------------

\* Agent.get of a thread that is not in the registry: the constructor enters the
\* transport (set_agent) and the thread (thread_ensure), and the start is awaited.
New(k, for, queued) ==
    /\ Len(agents) < MaxInstances
    /\ agents' = Append(agents, [thread |-> k, at |-> "starting", for |-> for,
                                 queued |-> queued, busy |-> FALSE])
    /\ routes' = [routes EXCEPT ![k] = Len(agents) + 1]
    /\ threads' = threads \cup {k}

Get(k) ==
    /\ registry[k] = 0 /\ New(k, "use", 0)
    /\ UNCHANGED <<registry, saved, deletions, late, messages, failures>>

\* The start is over: the loop runs, the agent is stored over whichever is there.
Started(n) ==
    /\ agents[n].at = "starting"
    /\ agents' = [agents EXCEPT ![n].at = "open"]
    /\ registry' = [registry EXCEPT ![agents[n].thread] = n]
    /\ deletions' = deletions \cup
        (IF agents[n].for = "use" THEN {}
         ELSE {[thread |-> agents[n].thread, at |-> "closing", agent |-> n]})
    /\ UNCHANGED <<routes, threads, saved, late, messages, failures>>

\* A skill fails to start: there is no loop and no entry, but the transport stays
\* in the fork.
StartFails(n) ==
    /\ agents[n].at = "starting" /\ failures < MaxFailures
    /\ failures' = failures + 1
    /\ agents' = [agents EXCEPT ![n].at = "failed"]
    /\ UNCHANGED <<registry, routes, threads, saved, deletions, late, messages>>

\* ws_handle_message: a thread without a transport is got first; the message goes to
\* the transport that is there then.
Message(k) ==
    /\ messages < MaxMessages /\ messages' = messages + 1
    /\ IF routes[k] # 0
       THEN /\ agents' = [agents EXCEPT ![routes[k]].queued = @ + 1]
            /\ UNCHANGED <<routes, threads>>
       ELSE New(k, "use", 1)
    /\ UNCHANGED <<registry, saved, deletions, late, failures>>

\* loop: close does not end it.
TurnStarts(n) ==
    /\ agents[n].at \in {"open", "closed"} /\ ~agents[n].busy /\ agents[n].queued > 0
    /\ agents' = [agents EXCEPT ![n].queued = 0, ![n].busy = TRUE]
    /\ UNCHANGED <<registry, routes, threads, saved, deletions, late, messages, failures>>

\* The answer is added to the memory, which writes its file.
TurnEnds(n) ==
    /\ agents[n].busy
    /\ agents' = [agents EXCEPT ![n].busy = FALSE]
    /\ saved' = saved \cup {agents[n].thread}
    /\ late' = IF agents[n].thread \in threads THEN late ELSE late \cup {agents[n].thread}
    /\ UNCHANGED <<registry, routes, threads, deletions, messages, failures>>

-----------------------------------------------------------------------------
(* thread_delete *)

\* The agent of the thread is looked up; one that is there is closed.
Delete(k) ==
    /\ registry[k] # 0
    /\ deletions' = deletions \cup {[thread |-> k, at |-> "closing", agent |-> registry[k]]}
    /\ UNCHANGED <<registry, agents, routes, threads, saved, late, messages, failures>>

\* One that is not there is made, and closed when it has started.
DeleteUnopened(k) ==
    /\ registry[k] = 0 /\ k \in threads /\ New(k, "delete", 0)
    /\ UNCHANGED <<registry, saved, deletions, late, messages, failures>>

\* Wrong variant: an agent that is not the registered one leaves the file alone.
ClosedIfRegistered(d) ==
    /\ d.at = "closing"
    /\ agents' = [agents EXCEPT ![d.agent].at = "closed"]
    /\ registry' = [registry EXCEPT ![d.thread] = 0]
    /\ saved' = IF registry[d.thread] = d.agent THEN saved \ {d.thread} ELSE saved
    /\ threads' = threads \ {d.thread}
    /\ deletions' = (deletions \ {d}) \cup {[d EXCEPT !.at = "notifying"]}
    /\ UNCHANGED <<routes, late, messages, failures>>

\* transport.close and backend.close have been awaited: whatever is in the registry
\* under the thread is taken out, its file is removed, and the thread's entry.
Closed(d) ==
    /\ d.at = "closing"
    /\ agents' = [agents EXCEPT ![d.agent].at = "closed"]
    /\ registry' = [registry EXCEPT ![d.thread] = 0]
    /\ saved' = saved \ {d.thread}
    /\ threads' = threads \ {d.thread}
    /\ deletions' = (deletions \ {d}) \cup {[d EXCEPT !.at = "notifying"]}
    /\ UNCHANGED <<routes, late, messages, failures>>

\* The transports are told; the fork drops whichever transport it has.
Notified(d) ==
    /\ d.at = "notifying"
    /\ routes' = [routes EXCEPT ![d.thread] = 0]
    /\ deletions' = deletions \ {d}
    /\ UNCHANGED <<registry, agents, threads, saved, late, messages, failures>>

-----------------------------------------------------------------------------

Next ==
    \/ \E k \in Threads : Get(k) \/ Message(k) \/ Delete(k) \/ DeleteUnopened(k)
    \/ \E n \in DOMAIN agents : Started(n) \/ StartFails(n) \/ TurnStarts(n) \/ TurnEnds(n)
    \/ \E d \in deletions : Closed(d) \/ Notified(d)

Spec == Init /\ [][Next]_vars

-----------------------------------------------------------------------------

\* A deleted thread leaves no history behind, whatever turns end while its agent is
\* being closed, and whoever else gets or deletes it; only a turn that an agent object
\* still ends after the deletion brings the file back.
DeletedIsGone == \A k \in saved : k \in threads \/ k \in late
=============================================================================
