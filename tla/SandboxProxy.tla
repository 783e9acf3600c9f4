---------------------------- MODULE SandboxProxy ----------------------------
(***************************************************************************)
(* The reverse tunnel of the dashboard (transport/dashboard/sandbox_proxy.py) and *)
(* its worker in the container (container_lib/sandbox_proxy.py).  Requests *)
(* of browsers travel as frames over one WebSocket which the worker opens; *)
(* the first request that finds no tunnel starts a worker.  A tunnel is a  *)
(* number; the host serves it until it notices that it is gone, the worker *)
(* may have lost it before and may have opened the next one.               *)
(***************************************************************************)
EXTENDS Integers, Sequences, FiniteSets

CONSTANTS
    Pages,        \* requests to a port, answered with start, chunks, end
    Scripts,      \* requests that run a .py file, answered with one frame
    Sockets,      \* WebSockets to a port
    MaxRequests,  \* bound on the requests made
    MaxFailures,  \* attempts after which a worker gives up (10 in the code)
    MaxTunnels,   \* bound on the tunnels opened
    MaxMishaps    \* bound on lost tunnels, expired timers and failed starts

VARIABLES
    tunnel,       \* SandboxProxy.tunnel: the number of the current one, 0 for None
    handlers,     \* the tunnels whose handle_tunnel is in its loop
    opened,       \* the number of tunnels opened so far
    stage,        \* how far the handler of each request is
    inbox,        \* its future or queue: the frames it has not taken yet
    table,        \* the requests in _pending_http, _http_queues, _ws_sessions
    over,         \* the tunnel over which its frame was sent
    starter,      \* the request that holds _start_lock
    worker,       \* the process in the container
    failures,     \* its consecutive_failures
    link,         \* the tunnel the worker holds, 0 when it has none
    toWorker,     \* requests on their way to the worker over its link
    jobs,         \* what the worker's task of each request does next
    fromWorker,   \* the frames on their way to the host over each tunnel
    mishaps

vars == <<tunnel, handlers, opened, stage, inbox, table, over, starter,
          worker, failures, link, toWorker, jobs, fromWorker, mishaps>>
hostVars == <<tunnel, handlers, opened>>
workerVars == <<worker, failures, link, toWorker, jobs>>

Requests == Pages \cup Scripts \cup Sockets
NoRequest == "none"
Tunnels == 1..MaxTunnels
Settled == {"idle", "failed", "done"}
Stages == Settled \cup {"queued", "starting", "woken", "reading", "waiting", "streaming"}

\* The frames a request is answered with, in the order the worker's task
\* sends them; Nothing stands for the None (or the exception) of a closed tunnel.
Nothing == [request |-> NoRequest, kind |-> "nothing"]
Frame(r, kind) == [request |-> r, kind |-> kind]
FrameKinds == {"answer", "start", "chunk", "end", "nothing"}

Init ==
    /\ tunnel = 0 /\ handlers = {} /\ opened = 0
    /\ stage = [r \in Requests |-> "idle"]
    /\ inbox = [r \in Requests |-> <<>>]
    /\ table = {}
    /\ over = [r \in Requests |-> 0]
    /\ starter = NoRequest
    /\ worker = "none" /\ failures = 0 /\ link = 0
    /\ toWorker = <<>> /\ jobs = [r \in Requests |-> "none"]
    /\ fromWorker = [t \in Tunnels |-> <<>>]
    /\ mishaps = 0

-----------------------------------------------------------------------------
(* The host *)

\* What a request does when it has its tunnel: its entry in the table, and then
\* the body of an HTTP request, read before its frame is sent.
Register(r) ==
    /\ table' = table \cup {r}
    /\ stage' = [stage EXCEPT ![r] = "reading"]

\* handle_http, handle_cgi, handle_ws up to the first await of _ensure_tunnel.
Ask(r) ==
    /\ stage[r] = "idle"
    /\ Cardinality({q \in Requests : stage[q] # "idle"}) < MaxRequests
    /\ IF tunnel # 0 THEN Register(r)
                     ELSE stage' = [stage EXCEPT ![r] = "queued"] /\ UNCHANGED table
    /\ UNCHANGED <<hostVars, inbox, over, starter, workerVars, fromWorker, mishaps>>

\* _ensure_tunnel under the lock: the tunnel is looked at again, and without one
\* a worker is started, which first kills the worker that still runs.
TakeLock(r) ==
    /\ stage[r] = "queued" /\ starter = NoRequest
    /\ IF tunnel # 0
       THEN Register(r) /\ UNCHANGED <<starter, workerVars>>
       ELSE /\ starter' = r
            /\ stage' = [stage EXCEPT ![r] = "starting"]
            /\ worker' = "dialing" /\ failures' = 0 /\ link' = 0
            /\ toWorker' = <<>> /\ jobs' = [j \in Requests |-> "none"]
            /\ UNCHANGED table
    /\ UNCHANGED <<hostVars, inbox, over, fromWorker, mishaps>>

\* tunnel_ready was set: the lock is left, the tunnel may be gone again.
Resume(r) ==
    /\ stage[r] = "woken"
    /\ starter' = NoRequest
    /\ IF tunnel # 0 THEN Register(r)
                     ELSE stage' = [stage EXCEPT ![r] = "failed"] /\ UNCHANGED table
    /\ UNCHANGED <<hostVars, inbox, over, workerVars, fromWorker, mishaps>>

\* The exec that starts the worker raises, or START_TIMEOUT passes.
StartFails(r) ==
    /\ stage[r] = "starting" /\ mishaps < MaxMishaps
    /\ starter' = NoRequest
    /\ stage' = [stage EXCEPT ![r] = "failed"]
    /\ mishaps' = mishaps + 1
    /\ UNCHANGED <<hostVars, inbox, table, over, workerVars, fromWorker>>

\* _send: the frame goes over the current tunnel; without one, or when the worker
\* has lost it, it is dropped and the handler waits all the same.
Send(r) ==
    /\ stage[r] = "reading"
    /\ stage' = [stage EXCEPT ![r] = "waiting"]
    /\ over' = [over EXCEPT ![r] = tunnel]
    /\ toWorker' = IF tunnel # 0 /\ tunnel = link THEN Append(toWorker, r) ELSE toWorker
    /\ UNCHANGED <<hostVars, inbox, table, starter, worker, failures, link, jobs,
                   fromWorker, mishaps>>

\* The handler takes the next frame: the first one must open the answer, a closed
\* tunnel ends a body like its last frame does.
Take(r) ==
    /\ stage[r] \in {"waiting", "streaming"} /\ inbox[r] # <<>>
    /\ inbox' = [inbox EXCEPT ![r] = Tail(@)]
    /\ LET kind == Head(inbox[r]).kind IN
       \/ /\ stage[r] = "waiting" /\ kind = "start"
          /\ stage' = [stage EXCEPT ![r] = "streaming"] /\ UNCHANGED table
       \/ /\ stage[r] = "waiting" /\ kind # "start"
          /\ stage' = [stage EXCEPT ![r] = IF kind = "answer" THEN "done" ELSE "failed"]
          /\ table' = table \ {r}
       \/ /\ stage[r] = "streaming" /\ kind \in {"start", "chunk"}
          /\ UNCHANGED <<stage, table>>
       \/ /\ stage[r] = "streaming" /\ kind \in {"end", "nothing"}
          /\ stage' = [stage EXCEPT ![r] = "done"]
          /\ table' = table \ {r}
    /\ UNCHANGED <<hostVars, over, starter, workerVars, fromWorker, mishaps>>

\* HTTP_TIMEOUT: of a page and a script, a WebSocket waits without a limit.
Expire(r) ==
    /\ stage[r] \in {"waiting", "streaming"} /\ r \notin Sockets /\ inbox[r] = <<>>
    /\ mishaps < MaxMishaps
    /\ stage' = [stage EXCEPT ![r] = "failed"]
    /\ table' = table \ {r}
    /\ mishaps' = mishaps + 1
    /\ UNCHANGED <<hostVars, inbox, over, starter, workerVars, fromWorker>>

\* The browser closes its socket: c2s tells the worker over whichever tunnel is
\* current, and ends; s2c goes on until it is told.
Leave(r) ==
    /\ r \in Sockets /\ stage[r] = "streaming" /\ jobs[r] = "chunk"
    /\ tunnel # 0 /\ tunnel = link
    /\ jobs' = [jobs EXCEPT ![r] = "end"]
    /\ UNCHANGED <<hostVars, stage, inbox, table, over, starter, worker, failures, link,
                   toWorker, fromWorker, mishaps>>

\* handle_tunnel up to its loop: the new tunnel replaces the old one, whose
\* handler has yet to notice that it was closed.
Accept ==
    /\ worker = "dialing" /\ opened < MaxTunnels
    /\ opened' = opened + 1
    /\ tunnel' = opened + 1
    /\ handlers' = handlers \cup {opened + 1}
    /\ link' = opened + 1
    /\ worker' = "linked" /\ failures' = 0
    /\ stage' = [r \in Requests |-> IF stage[r] = "starting" THEN "woken" ELSE stage[r]]
    /\ UNCHANGED <<inbox, table, over, starter, toWorker, jobs, fromWorker, mishaps>>

\* _route_from_worker: a frame goes to the request it names while that is in the
\* table; the entry of a script leaves with its answer.
Route(t) ==
    /\ t \in handlers /\ fromWorker[t] # <<>>
    /\ LET frame == Head(fromWorker[t]) IN
       /\ inbox' = [r \in Requests |->
                        IF r = frame.request /\ r \in table
                        THEN Append(inbox[r], frame) ELSE inbox[r]]
       /\ table' = table \ ({frame.request} \cap Scripts)
    /\ fromWorker' = [fromWorker EXCEPT ![t] = Tail(@)]
    /\ UNCHANGED <<hostVars, stage, over, starter, workerVars, mishaps>>

\* Wrong variant: only the loss of the current tunnel ends the waiting requests.
ToldByCurrent(t) == IF tunnel = t THEN table ELSE {}

\* The requests the end of a tunnel's handler tells: all of them, also when the
\* tunnel was replaced and they wait for answers over the new one.
Told(t) == table

\* The end of handle_tunnel: the host notices that the tunnel is gone.
Disconnect(t) ==
    /\ t \in handlers /\ t # link
    /\ handlers' = handlers \ {t}
    /\ tunnel' = IF tunnel = t THEN 0 ELSE tunnel
    /\ inbox' = [r \in Requests |-> IF r \in Told(t) THEN Append(inbox[r], Nothing) ELSE inbox[r]]
    /\ table' = table \ Told(t)
    /\ fromWorker' = [fromWorker EXCEPT ![t] = <<>>]
    /\ UNCHANGED <<opened, stage, over, starter, workerVars, mishaps>>

-----------------------------------------------------------------------------
(* The worker *)

\* run_once: every request gets a task of its own.
Start ==
    /\ toWorker # <<>>
    /\ toWorker' = Tail(toWorker)
    /\ jobs' = [jobs EXCEPT ![Head(toWorker)] =
                    IF Head(toWorker) \in Scripts THEN "answer" ELSE "start"]
    /\ UNCHANGED <<hostVars, stage, inbox, table, over, starter, worker, failures, link,
                   fromWorker, mishaps>>

\* handle_cgi sends its one frame; handle_http and WSSession open the answer, pass
\* on what they read, and end it, also when reading fails half way.  A refused
\* connection answers a page with 502 and a chunk, and a socket with ws_fail.  One
\* chunk stands for the body, and one message for those of a socket.
Answer(r) ==
    /\ jobs[r] # "none"
    /\ \E kind \in IF jobs[r] = "chunk" THEN {"chunk", "end"}
                   ELSE IF r \in Sockets /\ jobs[r] = "start" THEN {"start", "end"} ELSE {jobs[r]} :
        /\ fromWorker' = [fromWorker EXCEPT ![link] = Append(@, Frame(r, kind))]
        /\ jobs' = [jobs EXCEPT ![r] = CASE kind = "start" -> "chunk"
                                         [] kind = "chunk" -> "end"
                                         [] OTHER -> "none"]
    /\ UNCHANGED <<hostVars, stage, inbox, table, over, starter, worker, failures, link,
                   toWorker, mishaps>>

\* The worker after a tunnel or an attempt failed: it counts, and gives up or
\* sleeps and dials again.  The tasks of the lost tunnel cannot send any more.
CountFailure ==
    /\ failures' = failures + 1
    /\ worker' = IF failures + 1 >= MaxFailures THEN "none" ELSE "dialing"
    /\ link' = 0 /\ toWorker' = <<>> /\ jobs' = [r \in Requests |-> "none"]
    /\ UNCHANGED <<hostVars, stage, inbox, table, over, starter, fromWorker>>

\* A ping is not answered or the connection breaks: the worker leaves the tunnel.
LoseTunnel ==
    /\ worker = "linked" /\ mishaps < MaxMishaps
    /\ mishaps' = mishaps + 1
    /\ CountFailure

\* The host is not reached.
DialFails ==
    /\ worker = "dialing" /\ mishaps < MaxMishaps
    /\ mishaps' = mishaps + 1
    /\ CountFailure

-----------------------------------------------------------------------------
Next ==
    \/ \E r \in Requests :
        \/ Ask(r) \/ TakeLock(r) \/ Resume(r) \/ StartFails(r) \/ Send(r)
        \/ Take(r) \/ Expire(r) \/ Leave(r) \/ Answer(r)
    \/ \E t \in Tunnels : Route(t) \/ Disconnect(t)
    \/ Accept \/ Start \/ LoseTunnel \/ DialFails

Spec == Init /\ [][Next]_vars

-----------------------------------------------------------------------------
\* The values of the proxy have their types.
TypeOK ==
    /\ tunnel \in 0..MaxTunnels /\ opened \in 0..MaxTunnels /\ link \in 0..MaxTunnels
    /\ handlers \subseteq 1..opened
    /\ stage \in [Requests -> Stages]
    /\ \A r \in Requests : \A i \in 1..Len(inbox[r]) : inbox[r][i].kind \in FrameKinds
    /\ table \subseteq Requests
    /\ over \in [Requests -> 0..MaxTunnels]
    /\ starter \in Requests \cup {NoRequest}
    /\ worker \in {"none", "dialing", "linked"}
    /\ failures \in 0..MaxFailures /\ mishaps \in 0..MaxMishaps

\* Nobody waits for a tunnel that is gone: a request without an answer to read has
\* been sent over a tunnel whose handler still runs and will tell it, and is in
\* the table.  A WebSocket has no timer, so without this it would wait for ever,
\* also when its tunnel was replaced before the host noticed the loss.
NoneForgotten ==
    \A r \in Requests :
        stage[r] \in {"waiting", "streaming"} /\ inbox[r] = <<>>
        => r \in table /\ over[r] \in handlers
=============================================================================
