------------------------------ MODULE CodexTurns ------------------------------
(***************************************************************************)
(* One agent on the codex backend (backends/codex.py): llm() brings the    *)
(* thread of the app-server in step with the memory, starts a turn on it   *)
(* and collects what the router of the shared CodexClient gets from the    *)
(* server's notifications; tools run in tasks of their own.  Every request *)
(* has a timeout, /stop cancels llm() at any await.                        *)
(*                                                                         *)
(* The server is external: it answers requests in order or not at all, and *)
(* the rollout file of a thread holds the thread's items.  A turn is known *)
(* by the newest user message it was given.                                *)
(***************************************************************************)
EXTENDS Integers, Sequences, FiniteSets

CONSTANTS
    MaxMessages,   \* bound: messages of the user
    MaxThreads,    \* bound: threads of the server
    MaxFaults,     \* bound: /stop commands, deaths of the server and restarts
    NativeTurns    \* bound: the turns that may run a tool of the server's own

ASSUME BoundsAssumption == {MaxMessages, MaxThreads, MaxFaults} \subseteq Nat

VARIABLES
    memory,    \* memory._turns
    onDisk,    \* CONTEXT.json
    pc,        \* where llm() is suspended
    got,       \* the future of the request awaited: "none", "ok", "err"
    newThread, \* the thread its answer names
    thread,    \* _thread_id, or 0
    saved,     \* thread_id of CODEX.json, or 0
    handlers,  \* CodexClient._handlers: the threads registered for this backend
    stream,    \* _stream_state: for which message (0: empty), turns, result
    held,      \* the message the router is showing: its turn and its stream
    tools,     \* _active_tool_tasks: the turns whose tool call they run
    cut,       \* those of them that were cancelled and have not ended yet
    toServer, toClient,  \* the pipes
    created,   \* threads the server has created
    items,     \* what each of them holds
    live,      \* the turns running on each thread
    asked,     \* turns that wait for the answer to a tool call
    replies,   \* answers the server got to the tool call of each turn
    strayed,   \* threads that got a turn although they were not in step
    sent, faults,  \* messages of the user; stops, deaths and restarts so far
    alive      \* the app-server process runs

clientVars == <<memory, onDisk, pc, got, newThread, thread, saved, handlers, stream>>
routerVars == <<held, tools, cut>>
serverVars == <<created, items, live, asked, replies, strayed>>
faultVars == <<sent, faults, alive>>
vars == <<clientVars, routerVars, toServer, toClient, serverVars, faultVars>>

Messages == 1..MaxMessages
Threads == 1..MaxThreads
Item == {"user", "call", "answer", "notice"} \X Messages
Stages == {"idle", "ask", "resume", "fresh", "inject", "starting", "running",
           "stopping", "draining", "abandoning"}
Requesting == {"resume", "fresh", "inject", "starting"}

TypeOK ==
    /\ memory \in Seq(Item) /\ onDisk \in Seq(Item)
    /\ pc \in Stages
    /\ got \in {"none", "ok", "err"}
    /\ {thread, saved, newThread} \subseteq Threads \cup {0}
    /\ handlers \subseteq Threads
    /\ stream \in [for : Messages \cup {0}, turns : Seq(Item),
                   result : {"none", "completed", "failed"}]
    /\ held \in [turn : Messages \cup {0}, for : Messages \cup {0}]
    /\ tools \subseteq Messages /\ cut \subseteq tools
    /\ created \in 0..MaxThreads
    /\ items \in [Threads -> SUBSET Item] /\ live \in [Threads -> SUBSET Messages]
    /\ asked \subseteq Messages /\ replies \in [Messages -> Nat]
    /\ strayed \subseteq Threads
    /\ sent \in 0..MaxMessages /\ faults \in 0..MaxFaults /\ alive \in BOOLEAN

NoStream == [for |-> 0, turns |-> <<>>, result |-> "none"]
NotHeld == [turn |-> 0, for |-> 0]

Init ==
    /\ memory = <<>> /\ onDisk = <<>>
    /\ pc = "idle" /\ got = "none" /\ newThread = 0
    /\ thread = 0 /\ saved = 0 /\ handlers = {}
    /\ stream = NoStream /\ held = NotHeld /\ tools = {} /\ cut = {}
    /\ toServer = <<>> /\ toClient = <<>>
    /\ created = 0
    /\ items = [h \in Threads |-> {}] /\ live = [h \in Threads |-> {}]
    /\ asked = {} /\ replies = [k \in Messages |-> 0] /\ strayed = {}
    /\ sent = 0 /\ faults = 0 /\ alive = TRUE

-----------------------------------------------------------------------------
(* Helpers *)

SetOf(s) == {s[i] : i \in DOMAIN s}

\* The length of the memory without the user's turns at its end.
StableLength(m) == CHOOSE n \in 0..Len(m) :
    /\ \A i \in (n + 1)..Len(m) : m[i][1] = "user"
    /\ n > 0 => m[n][1] # "user"

Stable(m) == SubSeq(m, 1, StableLength(m))
Pending(m) == SubSeq(m, StableLength(m) + 1, Len(m))
Newest(m) == m[Len(m)][2]

\* Wrong variant: the rollout is trusted.
NeverDiverged(h) == FALSE

\* Wrong variant: only what the rollout has too much is noticed.
DivergedOneWay(h) == ~(items[h] \subseteq SetOf(Stable(memory)))

\* The memory and the rollout are compared as sets of signatures.
Diverged(h) == items[h] # SetOf(Stable(memory))

\* What is written to a dead process goes nowhere.
Write(m) == toServer' = IF alive THEN Append(toServer, m) ELSE toServer

\* _request: a new future and the message.  llm() makes a request of each kind
\* at most once, so its kind and the message stand for the id.
Request(stage, h, set) ==
    /\ pc' = stage /\ got' = "none" /\ newThread' = 0
    /\ Write([t |-> stage, h |-> h, k |-> Newest(memory), set |-> set,
              base |-> SetOf(Stable(memory))])

StartTurn(h) ==
    /\ stream' = [NoStream EXCEPT !.for = Newest(memory)]
    /\ Request("starting", h, SetOf(Pending(memory)))

\* llm() returns or raises; a late answer to its request finds no future.
Leave == pc' = "idle" /\ got' = "none" /\ newThread' = 0 /\ UNCHANGED toServer

\* The turns a call of llm() hands to the memory; an answer saves it.
Remember(turns) ==
    /\ memory' = memory \o turns
    /\ onDisk' = IF turns # <<>> /\ turns[Len(turns)][1] \in {"answer", "notice"}
                 THEN memory' ELSE onDisk

-----------------------------------------------------------------------------
(* llm() *)

\* The agent's loop adds the user's turn and, unless it is only noted, asks.
UserTurn ==
    /\ pc = "idle" /\ sent < MaxMessages
    /\ sent' = sent + 1
    /\ memory' = Append(memory, <<"user", sent'>>)
    /\ pc' \in {"ask", "idle"}
    /\ UNCHANGED <<onDisk, got, newThread, thread, saved, handlers, stream,
                   routerVars, toServer, toClient, serverVars, faults, alive>>

\* get_contents may trim the memory; a thread is resumed unless there is none
\* or the tools or the instructions have changed.
Ask ==
    /\ pc = "ask"
    /\ \E cutAt \in 0..StableLength(memory) :
        /\ memory' = SubSeq(memory, cutAt + 1, Len(memory))
        /\ onDisk' = IF cutAt = 0 THEN onDisk ELSE memory'
    /\ \/ saved # 0 /\ Request("resume", saved, {})
       \/ Request("fresh", 0, {})
    /\ UNCHANGED <<thread, saved, handlers, stream, routerVars, toClient, serverVars, faultVars>>

Resumed ==
    /\ pc = "resume" /\ got = "ok"
    /\ thread' = saved
    /\ IF Diverged(saved)
       THEN /\ handlers' = handlers \ {saved}
            /\ Request("fresh", 0, {})
            /\ UNCHANGED stream
       ELSE /\ handlers' = handlers \cup {saved}
            /\ StartTurn(saved)
    /\ UNCHANGED <<memory, onDisk, saved, routerVars, toClient, serverVars, faultVars>>

\* An error or no answer in time.
Fails == got # "ok"

ResumeFails ==
    /\ pc = "resume" /\ Fails
    /\ Request("fresh", 0, {})
    /\ UNCHANGED <<memory, onDisk, thread, saved, handlers, stream, routerVars, toClient,
                   serverVars, faultVars>>

\* Wrong variant: the old thread stays registered.
BothRegistered == handlers \cup {newThread}

Reregistered == (handlers \ {thread}) \cup {newThread}

\* The new thread is registered and saved before the memory is injected.
FreshStarted ==
    /\ pc = "fresh" /\ got = "ok"
    /\ handlers' = Reregistered
    /\ thread' = newThread /\ saved' = newThread
    /\ IF Stable(memory) = <<>>
       THEN StartTurn(newThread)
       ELSE /\ Request("inject", newThread, SetOf(Stable(memory)))
            /\ UNCHANGED stream
    /\ UNCHANGED <<memory, onDisk, routerVars, toClient, serverVars, faultVars>>

Injected ==
    /\ pc = "inject" /\ got = "ok"
    /\ StartTurn(thread)
    /\ UNCHANGED <<memory, onDisk, thread, saved, handlers, routerVars, toClient,
                   serverVars, faultVars>>

TurnAccepted ==
    /\ pc = "starting" /\ got = "ok"
    /\ pc' = "running" /\ got' = "none"
    /\ UNCHANGED <<memory, onDisk, newThread, thread, saved, handlers, stream,
                   routerVars, toServer, toClient, serverVars, faultVars>>

RequestFails ==
    /\ pc \in {"fresh", "inject", "starting"} /\ Fails
    /\ Leave
    /\ stream' = IF pc = "starting" THEN NoStream ELSE stream
    /\ UNCHANGED <<memory, onDisk, thread, saved, handlers, routerVars, toClient,
                   serverVars, faultVars>>

TurnEnds ==
    /\ pc = "running" /\ stream.result # "none"
    /\ IF stream.result = "completed" THEN Remember(stream.turns) ELSE UNCHANGED <<memory, onDisk>>
    /\ stream' = NoStream
    /\ Leave
    /\ UNCHANGED <<thread, saved, handlers, routerVars, toClient, serverVars, faultVars>>

\* 600 seconds without turn/completed.
TurnTimesOut ==
    /\ pc = "running" /\ stream.result = "none"
    /\ stream' = NoStream
    /\ cut' = tools
    /\ Request("abandoning", thread, {})
    /\ UNCHANGED <<memory, onDisk, thread, saved, handlers, held, tools, toClient,
                   serverVars, faultVars>>

Abandoned ==
    /\ pc = "abandoning"
    /\ Leave
    /\ UNCHANGED <<memory, onDisk, thread, saved, handlers, stream, routerVars, toClient,
                   serverVars, faultVars>>

\* /stop: only the wait for the turn catches the cancellation.
Stop ==
    /\ faults < MaxFaults /\ faults' = faults + 1
    /\ pc \notin {"idle", "stopping", "draining"}
    /\ IF pc = "running"
       THEN cut' = tools /\ Request("stopping", thread, {})
       ELSE cut' = cut /\ Leave
    /\ UNCHANGED <<memory, onDisk, thread, saved, handlers, stream, held, tools, toClient,
                   serverVars, sent, alive>>

\* The interrupt was answered, or five seconds have passed.
StopRequested ==
    /\ pc = "stopping"
    /\ pc' = "draining" /\ got' = "none"
    /\ UNCHANGED <<memory, onDisk, newThread, thread, saved, handlers, stream,
                   routerVars, toServer, toClient, serverVars, faultVars>>

\* Wrong variant: the wait for the end of the turn has no limit.
DrainedFully ==
    /\ pc = "draining" /\ stream.result # "none"
    /\ Remember(Append(stream.turns, <<"notice", stream.for>>))
    /\ stream' = NoStream
    /\ Leave
    /\ UNCHANGED <<thread, saved, handlers, routerVars, toClient, serverVars, faultVars>>

\* The turn has ended, or ten seconds have passed: what there is is kept.
Drained ==
    /\ pc = "draining"
    /\ Remember(Append(stream.turns, <<"notice", stream.for>>))
    /\ stream' = NoStream
    /\ Leave
    /\ UNCHANGED <<thread, saved, handlers, routerVars, toClient, serverVars, faultVars>>

-----------------------------------------------------------------------------
(* The router and the tool tasks *)

Routes(kinds) == held = NotHeld /\ toClient # <<>> /\ Head(toClient).t \in kinds
Mine(m) == m.h \in handlers /\ stream.for # 0

RouteReply ==
    /\ Routes({"ok", "err"})
    /\ LET m == Head(toClient) IN
        IF m.to = pc /\ m.k = Newest(memory) /\ got = "none"
        THEN got' = m.t /\ newThread' = m.h
        ELSE UNCHANGED <<got, newThread>>
    /\ toClient' = Tail(toClient)
    /\ UNCHANGED <<memory, onDisk, pc, thread, saved, handlers, stream, routerVars,
                   toServer, serverVars, faultVars>>

ToolReply(k) == [t |-> "reply", h |-> 0, k |-> k, set |-> {}, base |-> {}]

Decline(k) == Write(ToolReply(k))

RouteTool ==
    /\ Routes({"tool"})
    /\ LET m == Head(toClient) IN
        IF m.h \in handlers THEN tools' = tools \cup {m.k} /\ UNCHANGED toServer
        ELSE Decline(m.k) /\ UNCHANGED tools
    /\ toClient' = Tail(toClient)
    /\ UNCHANGED <<clientVars, held, cut, serverVars, faultVars>>

\* _handle_notification: a message is shown before it is kept.
RouteNotification ==
    /\ Routes({"call", "message", "completed", "failed"})
    /\ LET m == Head(toClient) IN
        /\ stream' = IF ~Mine(m) THEN stream
                     ELSE CASE m.t = "call" -> [stream EXCEPT !.turns = Append(@, <<"call", m.k>>)]
                            [] m.t = "message" -> stream
                            [] OTHER -> [stream EXCEPT !.result = m.t]
        /\ held' = IF Mine(m) /\ m.t = "message" THEN [turn |-> m.k, for |-> stream.for] ELSE held
    /\ toClient' = Tail(toClient)
    /\ UNCHANGED <<memory, onDisk, pc, got, newThread, thread, saved, handlers, tools,
                   cut, toServer, serverVars, faultVars>>

\* A tool the server ran itself, a command, a patch, a search, an image or one of
\* an MCP server: its call and its result are kept together; a call of the resource
\* tools of MCP is suppressed, though the rollout has it.
RouteNative ==
    /\ Routes({"native", "suppressed"})
    /\ LET m == Head(toClient) IN
        stream' = IF Mine(m) /\ m.t = "native"
                  THEN [stream EXCEPT !.turns = Append(@, <<"call", m.k>>)] ELSE stream
    /\ toClient' = Tail(toClient)
    /\ UNCHANGED <<memory, onDisk, pc, got, newThread, thread, saved, handlers, routerVars,
                   toServer, serverVars, faultVars>>

\* The transport is back: the turn goes to the state the router started with,
\* which llm() may have dropped by now.  A transport that raises loses it.
MessageShown ==
    /\ held # NotHeld
    /\ \/ stream' = IF stream.for = held.for
                    THEN [stream EXCEPT !.turns = Append(@, <<"answer", held.turn>>)] ELSE stream
       \/ UNCHANGED stream
    /\ held' = NotHeld
    /\ UNCHANGED <<memory, onDisk, pc, got, newThread, thread, saved, handlers, tools,
                   cut, toServer, toClient, serverVars, faultVars>>

\* Wrong variant: the cancelled task answers and then runs on.
ToolCutTwice(k) ==
    /\ k \in cut
    /\ cut' = cut \ {k} /\ tools' = tools
    /\ Write(ToolReply(k))
    /\ UNCHANGED <<clientVars, held, toClient, serverVars, faultVars>>

\* A cancelled tool answers too.
ToolCut(k) ==
    /\ k \in cut
    /\ cut' = cut \ {k} /\ tools' = tools \ {k}
    /\ Write(ToolReply(k))
    /\ UNCHANGED <<clientVars, held, toClient, serverVars, faultVars>>

\* Wrong variant: a cancelled task may still end as if it were not.
ToolEndsCut(k) ==
    /\ k \in tools
    /\ tools' = tools \ {k}
    /\ Write(ToolReply(k))
    /\ UNCHANGED <<clientVars, held, cut, toClient, serverVars, faultVars>>

ToolEnds(k) ==
    /\ k \in tools \ cut
    /\ tools' = tools \ {k}
    /\ Write(ToolReply(k))
    /\ UNCHANGED <<clientVars, held, cut, toClient, serverVars, faultVars>>

-----------------------------------------------------------------------------
(* The app-server *)

Serves(kind) == alive /\ toServer # <<>> /\ Head(toServer).t = kind
Note(t, to, h, k) == [t |-> t, to |-> to, h |-> h, k |-> k]
Answer(t, h) == toClient' = Append(toClient, Note(t, Head(toServer).t, h, Head(toServer).k))
Taken == toServer' = Tail(toServer)

ServeRefused ==
    /\ \E kind \in Requesting : Serves(kind)
    /\ Answer("err", 0) /\ Taken
    /\ UNCHANGED <<clientVars, routerVars, serverVars, faultVars>>

ServeResume ==
    /\ Serves("resume")
    /\ Answer("ok", Head(toServer).h) /\ Taken
    /\ UNCHANGED <<clientVars, routerVars, serverVars, faultVars>>

ServeNew ==
    /\ Serves("fresh") /\ created < MaxThreads
    /\ created' = created + 1
    /\ Answer("ok", created') /\ Taken
    /\ UNCHANGED <<clientVars, routerVars, items, live, asked, replies, strayed, faultVars>>

ServeInject ==
    /\ Serves("inject")
    /\ LET m == Head(toServer) IN items' = [items EXCEPT ![m.h] = @ \cup m.set]
    /\ Answer("ok", 0) /\ Taken
    /\ UNCHANGED <<clientVars, routerVars, created, live, asked, replies, strayed, faultVars>>

ServeTurn ==
    /\ Serves("starting")
    /\ LET m == Head(toServer) IN
        /\ items' = [items EXCEPT ![m.h] = @ \cup m.set]
        /\ live' = [live EXCEPT ![m.h] = @ \cup {m.k}]
        /\ strayed' = IF items[m.h] = m.base THEN strayed ELSE strayed \cup {m.h}
    /\ Answer("ok", 0) /\ Taken
    /\ UNCHANGED <<clientVars, routerVars, created, asked, replies, faultVars>>

\* Its answer only shortens a wait that ends anyway, and is left out.
ServeInterrupt ==
    /\ Serves("stopping") \/ Serves("abandoning")
    /\ LET h == Head(toServer).h IN
        \/ /\ live[h] # {}
           /\ live' = [live EXCEPT ![h] = {}]
           /\ asked' = asked \ live[h]
           /\ toClient' = Append(toClient, Note("completed", "", h, CHOOSE k \in live[h] : TRUE))
        \/ UNCHANGED <<live, asked, toClient>>
    /\ Taken
    /\ UNCHANGED <<clientVars, routerVars, created, items, replies, strayed, faultVars>>

ServeReply ==
    /\ Serves("reply")
    /\ LET k == Head(toServer).k IN
        /\ replies' = [replies EXCEPT ![k] = @ + 1]
        /\ asked' = asked \ {k}
        /\ IF k \notin asked THEN UNCHANGED <<items, toClient>>
           ELSE LET h == CHOOSE h \in Threads : k \in live[h] IN
                /\ items' = [items EXCEPT ![h] = @ \cup {<<"call", k>>}]
                /\ toClient' = Append(toClient, Note("call", "", h, k))
    /\ Taken
    /\ UNCHANGED <<clientVars, routerVars, created, live, strayed, faultVars>>

\* A running turn calls a tool, once, ...
CallTool(h, k) ==
    /\ k \in live[h] /\ k \notin asked
    /\ {<<"call", k>>, <<"answer", k>>} \cap items[h] = {}
    /\ asked' = asked \cup {k}
    /\ toClient' = Append(toClient, Note("tool", "", h, k))
    /\ UNCHANGED <<clientVars, routerVars, toServer, created, items, live, replies, strayed, faultVars>>

\* ... or runs one of its own, ...
RunNative(h, k) ==
    /\ k \in live[h] \cap NativeTurns /\ k \notin asked
    /\ {<<"call", k>>, <<"answer", k>>} \cap items[h] = {}
    /\ items' = [items EXCEPT ![h] = @ \cup {<<"call", k>>}]
    /\ \E t \in {"native", "suppressed"} : toClient' = Append(toClient, Note(t, "", h, k))
    /\ UNCHANGED <<clientVars, routerVars, toServer, created, live, asked, replies, strayed, faultVars>>

\* ... says something, once, ...
Say(h, k) ==
    /\ k \in live[h] /\ k \notin asked
    /\ <<"answer", k>> \notin items[h]
    /\ items' = [items EXCEPT ![h] = @ \cup {<<"answer", k>>}]
    /\ toClient' = Append(toClient, Note("message", "", h, k))
    /\ UNCHANGED <<clientVars, routerVars, toServer, created, live, asked, replies, strayed, faultVars>>

\* ... and ends.
Complete(h, k) ==
    /\ k \in live[h] /\ k \notin asked
    /\ live' = [live EXCEPT ![h] = @ \ {k}]
    /\ \E end \in {"completed", "failed"} : toClient' = Append(toClient, Note(end, "", h, k))
    /\ UNCHANGED <<clientVars, routerVars, toServer, created, items, asked, replies, strayed, faultVars>>

-----------------------------------------------------------------------------
(* Failures *)

\* The app-server dies.  The reader ends without a word, nobody starts another.
Die ==
    /\ alive /\ alive' = FALSE
    /\ faults < MaxFaults /\ faults' = faults + 1
    /\ toServer' = <<>> /\ asked' = {}
    /\ live' = [h \in Threads |-> {}]
    /\ UNCHANGED <<clientVars, routerVars, toClient, created, items, replies, strayed,
                   sent>>

\* The agent's process is restarted, and with it the app-server.
Restart ==
    /\ faults < MaxFaults /\ faults' = faults + 1 /\ alive' = TRUE
    /\ memory' = onDisk
    /\ pc' = "idle" /\ got' = "none" /\ newThread' = 0
    /\ thread' = 0 /\ handlers' = {} /\ stream' = NoStream
    /\ held' = NotHeld /\ tools' = {} /\ cut' = {}
    /\ toServer' = <<>> /\ toClient' = <<>>
    /\ asked' = {} /\ live' = [h \in Threads |-> {}]
    /\ UNCHANGED <<onDisk, saved, created, items, replies, strayed, sent>>

-----------------------------------------------------------------------------

Llm ==
    \/ Ask \/ Resumed \/ ResumeFails \/ FreshStarted \/ Injected \/ TurnAccepted
    \/ RequestFails \/ TurnEnds \/ TurnTimesOut \/ Abandoned \/ StopRequested \/ Drained

Router == RouteReply \/ RouteTool \/ RouteNotification \/ RouteNative \/ MessageShown
ToolTask == \E k \in Messages : ToolCut(k) \/ ToolEnds(k)

Serve ==
    \/ ServeRefused \/ ServeResume \/ ServeNew \/ ServeInject \/ ServeTurn
    \/ ServeInterrupt \/ ServeReply

Model == \E h \in Threads, k \in Messages :
    CallTool(h, k) \/ RunNative(h, k) \/ Say(h, k) \/ Complete(h, k)

Next ==
    \/ UserTurn \/ Llm \/ Stop \/ Router \/ ToolTask \/ Serve \/ Model
    \/ Die \/ Restart

\* llm() has a limit on every wait; the router and the tools run, a transport
\* call ends; the server reads its input.
Fairness == WF_vars(Llm) /\ WF_vars(Router) /\ WF_vars(ToolTask) /\ WF_vars(Serve)

Spec == Init /\ [][Next]_vars /\ Fairness

-----------------------------------------------------------------------------
(* Properties *)

\* The model answers knowing the conversation: when a turn begins, its thread
\* holds what the memory holds before the messages the turn is given, no more
\* and no less, whatever was trimmed, stopped, lost or restarted before.
HistoryInStep == strayed = {}

\* "so that the next turn/start does not land on a live old turn".
TurnsDoNotOverlap == \A h \in Threads : Cardinality(live[h]) <= 1

\* Both: a turn begins on a thread that is in step with the memory and idle.
ThreadInStep == HistoryInStep /\ TurnsDoNotOverlap

\* What the memory keeps as answer to a message belongs to the turn of that
\* message, not to a late notification of an earlier one.
AnswersOwnQuestion ==
    \A i \in DOMAIN memory : memory[i][1] \in {"call", "answer", "notice"} =>
        \A j \in 1..(i - 1) : memory[j][1] = "user" => memory[j][2] <= memory[i][2]

\* The server gets one answer to a tool call, a cancelled or orphaned one included.
ToolRepliedOnce == \A k \in Messages : replies[k] <= 1

\* llm() ends: nothing the server does or fails to do keeps it.
LlmEnds == pc # "idle" ~> pc = "idle"

\* "_stream_state ... is reset on leaving llm(); while it is empty notifications
\* are ignored".
StreamResetOnExit == pc = "idle" => stream.for = 0

=============================================================================
