# TLA+ specifications of slonagent

slonagent is a personal LLM agent: a Python process that holds several agents
(one directory each) and several threads per agent, answers through Telegram and
a web UI, keeps a long-term memory, runs tools in Docker sandboxes and calls
models directly (OpenAI-compatible) or through a Claude or Codex session.  Almost
all of it is asyncio: the hazards are what another task may do while a turn waits
for a model, a tool or a transport; what a `/stop`, a timeout or a restart leaves
behind; and whether two copies of the same conversation (the memory and the
session of a backend) stay the same.

This directory holds TLA+ modules of that behaviour, configurations for the TLC
model checker and proofs for TLAPS.

    tlc -workers 2 -config Memory.cfg MCMemory     # one run
    tlapm ObservationalMemoryProofs.tla            # the proofs of one module

## 1. The system

| Component | State it keeps | Operations | Hard behaviour |
|---|---|---|---|
| Observational memory (`memory/memory.py`, `providers/base.py`, `compressors/log.py`) | turns of each thread with `_observed` and `_anonymous` flags, `CONTEXT*.json`; per directory the pending turns, a lock, `PENDING_*.json`, `LOG.md`, `log/history` | `add_turn`, `get_contents`/`compress`, `_consolidate`/`_observe`, restart | several threads of one directory interleave around LLM calls; stop or error in a consolidation; crash between two files |
| Window compressor, old files (`compressors/window.py`, `memory._migrate_gemini_turns`) | a list of turns | cut to a window, convert | a reply without its call |
| Agent loop (`agent/agent.py`) | `_message_queue`, the running turn, `_stop_event`, history | `process_message`, `call_before_next_message`, `next_message`, `stop`, tool rounds | a cancellation lands at any await; batches, coroutines and stops interleave |
| Agent and thread registry (`Agent.get`, `Agent.close`, `thread_delete`) | `_instances`, `THREADS.json`, the web fork's `transports` | get, start, close, delete | `get` awaits `start()` between its check and its entry; a turn ends while its agent is closed |
| RPC host-sandbox (`container_lib/rpc.py`, `container_lib/agent.py`, `transport/web/agent_rpc.py`) | ids, `_pending`, `_futures`, worker count on each side | `call`, reader, one thread per incoming call, async handlers, close | threads on both sides, nested calls, a broken connection, order of replies |
| Codex backend (`agent/backends/codex.py`) | `_thread_id`, `CODEX.json`, `_stream_state`, `_handlers`, tool tasks | `llm`, `_ensure_thread`, router, tool tasks | late answers after timeouts, stops, the death of the server, divergence of memory and rollout |
| Claude backend (`agent/backends/claude.py`) | session id, jsonl session file | `llm`, `_sync_claude_session` | the session file is edited to follow the memory; stop drains the stream |
| Stateless backends (`openai.py`, `echo.py`) | none | `llm` | retries, streaming |
| Sandbox container, shells and file tools (`skills/sandbox/__init__.py`) | container, committed image, hash of its mounts; logs of background shells; files of the mounts | `_ensure_container`, `exec`, `read_shell`, `kill_shell`, `edit`, `grep`, ... | cached hash against the real container, a log that is read while it is written, pages |
| Sandbox proxy (`transport/dashboard/sandbox_proxy.py`, `container_lib/sandbox_proxy.py`) | the tunnel, the table of requests; the worker | HTTP, CGI, WebSocket requests, start of the worker | a tunnel replaced or lost under its requests |
| Cron (`skills/cron.py`) | a task file per thread | `_tick`, `schedule_task`, `cancel_task` | a crash between firing and saving, a cancel while a task fires |
| Telegram (`transport/telegram.py`) | send queue, debounce of incoming messages, `forks/telegram.json` and the topics | queue worker, streams, batches, bind, topics | cancelled waiter against the worker's answer, two tasks creating one topic |
| Web (`transport/web/fork.py`, `ChatDialog.js`) | clients, event buffers, history; what a page has seen | send, replay, targeted send, reconnect, reload | replay, history and live events overlap |
| Transport fan-out (`transport/multi.py`) | children | every transport call | one child fails |
| Fact memory (`memory/providers/fact/`) | pending turns, SQLite and LanceDB tables, entities and aliases, jobs | chunking, extraction, entity resolution, retain, consolidation, recall | two stores without a common transaction, a thread per access, parallel LLM calls whose answers are cut or late |
| Movie Creator (`modes/movie_creator`) | `project.json`, generations and their tasks, approvals | changes of the page and of the tools, polls of a provider | one object saved whole by many tasks, two launches over one file |
| Checkers (`modes/checkers`) | a board, a pending move | legal moves, captures, `launch` loop | a move sent at the wrong time |
| Personalities, dashboard, other skills and modes, browser UI | files, media | - | - |

How they interact: transports call `Agent.process_message`; the loop task takes
batches from the queue, calls `Memory.add_turn`, asks the backend (`llm`), which
reads `Memory.get_contents` (and so compresses) and returns turns; tools are
methods of skills, of which the sandbox is one; the sandbox's scripts call back
into the agent over the RPC; memory providers consolidate inside `add_turn` and
schedule coroutines with `call_before_next_message`; cron and the fact provider
feed the same queue.  The registry makes and closes agents, and tells the web fork
and Telegram's bindings.

What makes each component correct, in one line: memory - nothing a user said
disappears silently, nothing anonymous is recorded, what the model is sent is well
formed; loop - every message is answered or its fate is known, in order, and a stop
stops; registry - a deleted thread stays deleted; RPC - every call ends, once, with
its own value; Codex and Claude - the model answers knowing exactly the
conversation of the memory, and turns do not mix; cron - a task is neither lost nor
doubled by a restart; sandbox - what commands leave is kept, and what the tools show
is complete; proxy - no request waits for a tunnel that is gone; transports - what
is shown is the last text, in order, once; fact memory - every word reaches the
extractor, the two stores agree, a fact is consolidated once, a name keeps its
meaning, recall obeys its filters; Movie Creator - the file is the project.

The `hazards` of `PROJECT.json` list where in the source these can go wrong and
the property that watches it.

## 2. Modules

    ObservationalMemory <- ObservationalMemoryProofs (TLAPS)
                        <- MCMemory        Memory.cfg, MemoryForgets.cfg
    AgentLoop, ObservationalMemory (its lock)
                        <- MCTurns         Turns.cfg
    AgentLoop           <- AgentLoopProofs (TLAPS)
    RpcCalls <=refines= RpcChannel
                        <- MCRpcChannel    RpcChannel.cfg
    RpcChannel          <- RpcChannelProofs (TLAPS)
    CodexTurns          <- MCCodexTurns    CodexTurns.cfg, CodexOrphan.cfg
                        <- CodexTurnsProofs (TLAPS)
    SandboxContainer, SandboxProxy, SandboxFiles, ShellLog, Cron, Checkers
                        <- MCServices      Services.cfg
    MCServices          <- ServicesProofs (TLAPS)
    SandboxContainer    <-                 SandboxMounts.cfg
    TelegramQueue, TelegramInbox, TelegramBindings, WebFork, AgentRegistry, MovieProject
                        <- MCTransports    Transports.cfg
    MCTransports        <- TransportsProofs (TLAPS)
    WebFork             <-                 WebReplay.cfg
    DialogChunks, FactExtract, EntityResolver, FactStore, FactRecall, ClaudeSession,
    HistoryShapes       <- MCStores        Stores.cfg
    ClaudeSession       <- ClaudeSessionProofs (TLAPS)
    MCStores            <- StoresProofs (TLAPS), which takes the former for its sessions
    FactExtract         <-                 CausesMeant.cfg

A step is always the code between two suspension points of an asyncio task (or,
in `RpcChannel` and the fact memory, between two operations of a thread that another
thread can see).  Definitions whose comment begins "Wrong variant" are plausible bugs
of the definition that follows; no specification uses them.  Substituting one for its
original must break the property it is listed with under `mutants`, which shows
that the property depends on that piece of code.

`MCTurns`, `MCServices`, `MCTransports` and `MCStores` each hold components that share
no state: their initial states choose which of them runs while the others rest, so
that one run covers them at the sum of their sizes, not the product.


### ObservationalMemory

One agent directory with several threads, each one asyncio task.

| Model | Code |
|---|---|
| `mem`, `observed`, `saved` | `Memory._turns`, its `_observed` flags, `CONTEXT*.json` |
| `pending`, `savedPending`, `lock` | `BaseProvider._pending_by_dir`, `PENDING_logcompressor.json`, `_locks` |
| `snapshot`, `cutoff`, `existing` | locals of a running `_consolidate`/`_observe` |
| `log`, `history` | the turns whose observations `LOG.md`, `log/history/*` hold |
| `UserTurn`, `AskModel`, `ToolRound`, `Answer*` | `add_turn` and `get_contents` as the loop calls them |
| `LockAcquired`, `Observer*`, `Reflected`, `ObserveRaises`, `Notified` | the awaits of `add_turn` under the lock and of `_observe` |
| `Interrupt` | the turn's task is cancelled, or the loop gives up |
| `CleanCrash`, `TornCrash` | the process dies; `TornCrash` while `LOG.md` is written in place |

`abandoned` is a history variable: turns that left `pending` by one of the ways
the code accepts (an empty observer, a swallowed exception, a stop, a crash).
Abstracted: the text and the size of turns - whether a list has reached a token
limit is a free choice, which covers every tokenizer and every limit; a tool call
has one reply; the reflector may forget anything from `LOG.md`, but a full copy is
already in `history`.  The module is for backends whose `llm` returns one turn.


### AgentLoop

The queue and the loop task of one agent.  `Send` is `process_message`, `Stop` is
`stop`, `CallBeforeNextMessage` schedules a coroutine; `TakeItems` is the part of
`next_message` that does not suspend; the other actions are the awaits of
`handle_turn`.  `backend` distinguishes backends that return one turn per call
("dict": the stateless ones) from those that return all the turns of a session
("list": Claude, Codex), which catch the cancellation and return what they have.
`CancelWaiting`, `CancelTurn`, `CancelFinishing` are `stoppable()` cancelling the
task at each kind of await.  `fate` is a history variable.  A coroutine of the
queue that raises ends the loop (`dead`): the code does not catch it.


### RpcCalls and RpcChannel

`RpcCalls` states what a caller may rely on: a handler runs at most once for a
call, a value is the value that run returned, a settled call stays settled.
`RpcChannel` models the two ends: registration and sending of a call are separate
steps of the calling thread; the reader dispatches, resolves and fails what is
pending when the connection ends (copy, then clear, in two steps); worker threads
run handlers, may make one nested call, answer, and leave; async handlers announce
a future and answer later.  `ImplementsRpcCalls` is the refinement, with the
mapping `Status` for what the caller sees.  The ids of calls are taken atomically
(the interpreter's lock).  The two ends differ: `agent_rpc.py`'s `writeline`
returns silently on a closed socket while the script's raises (`Silent`).  A
coroutine of an async handler makes no call itself.


### CodexTurns

`llm()` (`Ask` ... `Drained`), the router (`RouteReply`, `RouteTool`,
`RouteNotification`, `RouteNative`, `MessageShown`), the tool tasks (`ToolEnds`, `ToolCut`), and
the app-server as an environment (`Serve*`, `CallTool`, `Say`, `Complete`, `Die`).
The server is external: modelled from the requests and notifications the code
sends and expects.  It answers in order or not at all, may refuse any request, and
holds for every thread the items a resume returns.  The rollout file of a thread is
taken to hold its items when a resume is answered; a rollout that lags behind is
not modelled (the code then treats the thread as not diverged).  A turn makes at
most one tool call, may run one tool of the server's own before it, and says one
message; a turn is identified by the newest user message it was given.  Abstracted: process start
and the pool of clients, `restart()` (nobody calls it), reasoning and file-change items, images, rendering.


### ClaudeSession

`llm()` of one thread, its Claude Code process and the process's session file.

| Model | Code |
|---|---|
| `mem` | `Memory._turns`; `uuid` is `_uuid`, 0 for a turn without one; `id` names the user turn, or the call a reply belongs to |
| `created`, `client` | `CLAUDE.json`, `_client` ("dead": its process has ended and the object is still there) |
| `session`, `cli`, `inbox`, `stream` | external: the uuids of the jsonl file, the query the process works on, what it has not taken, what `receive_response` has not read |
| `Sync` (`Desync`, `FirstMatch`, `Stale`, `CanonOrder`) | `_sync_claude_session` and the disconnect after a pruning |
| `Reuse`, `Connect`, `ConnectFails` | the client: kept, made anew (resume, else fresh), or not made |
| `Ask`, `AskFails`, `Read`, `Finish`, ... | `get_contents`, `query`, the loop over the stream, `memory.add_turn` of the result |
| `StopEarly`, `StopConnecting`, `StopAsking`, `StopStreaming`, `Drained`, `DrainTimesOut` | a cancellation at each kind of await, and the handler of the one in the stream |

`heard`, `pruned`, `lost`, `unread` and `mixed` are history variables: which query
carried a user turn, what a synchronisation has cut, whether the session file was
ever lost, and whether messages of a query that nobody waits for are, or ever were,
in the live process.  The process is modelled from the messages the code expects:
it writes an entry when it sends its message, answers a query with a text after at
most one round of two parallel calls, whose results reach file and stream in any
order, and ends with a result message.  It may die; an idle session's file may be
deleted.  A uuid is a number that encodes its query and its kind.  Abstracted:
messages of sub-agents (shown, not recorded), streaming of parts, costs, content of
the prompt (that the prompt or the tools changed is a free choice), an ephemeral
agent, for which a desync raises instead of notifying.  A second `/stop` during the
drain is not modelled.


### SandboxContainer

The container of one agent directory and the tool calls that use it.  The stages of
a call are the awaits of `_ensure_container` (`Locked`, `Inspect`, `Brought`,
`Committed`, `Removed`, `Synced`) and of `exec` (`ExecStarts`, `ExecEnds`,
`ExecInterrupted`, `Killed`).  `lock` has the holder of the `asyncio.Lock` (who waits
is let in in any order), `cached` is `_mounts_hash`.  podman is external: `Effect`
says what each of its commands does to `box` and `image`.  A call that is stopped
kills the podman client, which may have done its work by then (`Cancelled`).
`rm -f` is taken to remove the container.  `installed` is a history variable: what
commands left that ended while no other call was between `commit` and `rm`; what a
command leaves in that gap is lost, and the code has nothing against it.  Left out:
script tools, the notice of a recreation, the RPC address, and `SandboxSkill.stop`,
which nobody calls.  One thread of the directory is modelled: two threads would each
have their own lock and hash for one container.

### SandboxProxy

Both ends of the tunnel through which a browser reaches a port of the container.
The host's side is one action per await of a request handler (`Ask`, `TakeLock`,
`Resume`, `Send`, `Take`, `Expire`, `Leave`) and of `handle_tunnel` (`Accept`,
`Route`, `Disconnect`); the worker's is `Start`, `Answer`, `LoseTunnel`, `DialFails`
with its budget of consecutive failures.  `table` stands for the three dictionaries of
requests, `inbox` for a request's future or queue, `over` for the tunnel its frame
went over.  The worker may have lost a tunnel, and even opened the next one, before
the host notices: `tunnel` and `link` are separate, and `finally` of the old
`handle_tunnel` then runs beside the new one.  Headers and bodies are abstracted; a
request is of one of three kinds because these wait differently: a page (queue,
timed), a script (future, timed), a socket (queue, not timed).


### SandboxFiles and ShellLog

`SandboxFiles` has the tools that change files (`Write`, `EditFile`, `MultiEdit`) and
those that show them in pages (`read`, `grep` in its three modes, `glob`).  An edit is
applied to a text as the code applies it: counted, refused when it is missing or not
unique, and only written when all edits of a call match.  `pager` is the dialogue of
the model with one query: it asks on until no page says that it was cut.  A line is
one token, so an edit replaces whole lines; an empty `old_string` is a token of its own
and counts one more than the length, as Python's `count` does.

`ShellLog` has one background command: the process with the line it has half written,
a child that outlives it, the rename of its log, and the three parts of `read_shell`
(count, page, liveness), between which the process writes on.


### Cron

One `CRON*.json`: the tick of the daemon (`TickStarts`, `Resolved`, `NotResolved`,
`Delivered`, `DivisionByZero`) with its two kinds of await, and the tools
(`ScheduleTask`, `CancelTask`), which run at any of them.  `list` is what the tick has
read at its start; a task cancelled during the tick is still delivered by it.
`SaveFails` is an error of `_save_tasks`, which the code logs and swallows, or the
first half of a crash in it: a prefix of the lines is left, the last one perhaps
broken (`torn`: then the file loads as empty, and the next save replaces it).
`fired` is a history variable: the runs delivered, without those of ticks that ended
before their save.  A time is a natural number, the unit of which is one step of
the clock; a task whose `scheduled_at` is no date does not occur, as
`schedule_task` refuses it.


### Checkers

The board, `Moves` (simple moves and maximal chains of captures, men and kings),
`make_move` (`After`, `Promoted`), the machine's choice (`BestMoves`: any of the best),
and the loop of the `launch` tool with its three awaits.  A page may send a move at any
time, a good one or not; `move` and `woken` are the variables a message sets.  The
size of the board and the rows of men are constants.


### TelegramQueue, TelegramInbox, TelegramBindings

`TelegramQueue` is the outgoing side of one transport: a stream's update
(`Update`) becomes edits and sends in `_queue`, the worker takes an item unless a
newer edit of its message is behind it (`Take`, `Overtaken`), and the request is
executed, delayed by a flood, refused for good or refused silently (`Executed`,
`Flooded`, `Refused`).  The callers wait for the ids of new messages and may be
cancelled.  `SendsSettle` has to allow for `worker = "dead"`: setting the result of a
cancelled future raises in the worker.

`TelegramInbox` is the incoming side: a message joins the batch that waits a tenth of
a second, or starts one; `Flush` hands a batch to a task of its own, which looks at one
message after the other (downloads, transcriptions: `Describe`, `Raise`) and then
calls the agent.

`TelegramBindings` is `forks/telegram.json` and what the transports remember of it:
binding of chats, topics made by the user and by the transports, deletion of a
thread's topics over awaits, a group's migration, a restart.  Tasks of one transport
that both await the creation of a topic are in `creating`.


### WebFork

The server's part of an event (`Send` with its buffer and history, `Deliver` one
client at a time, `SendTargeted`, `AnswerReplay`, `AnswerHistory`) and the page's: the
app's `lastSeen`, the dialog's own, events held back until the history is there
(`Receive`, `Load`, `Fetched`).  Connections break, pages reload and the server
restarts, which empties the buffers.  An event is "final" or "partial" of a stream,
"log", or "targeted" to one client; only the first is in the history.


### AgentRegistry

`Agent.get` registers after `start()` returns, while the web fork's table of
transports has the new agent before; `Get`, `Started`, `StartFails` are its parts, so
that two of them overlap.  `TurnStarts` and `TurnEnds` bracket a turn, whose end saves
the history of the thread whatever has happened to it.  `Delete`, `Closed`, `Notified`
are the awaits of `thread_delete`.  `late` is a history variable.


### MovieProject

The project of the Movie Creator as one value per launch: characters with their
generations, the current one (`primary`), the next id.  Every change of the page, of
an approved tool and of a generation's task is followed by a save of all of it.  A
task's awaits are `Started`, `Posted`, `Answered`, `Fetched`, its ends `Done`,
`Timeout`, `Failed`.  `Relaunch` is `/exit` and another launch, which reads the file
while the tasks of the launch before go on; `Crash` keeps the file only.  Scenes,
shots and folders are kept like characters and left out, as are thumbnails.


### DialogChunks, FactExtract, EntityResolver, FactStore, FactRecall

The fact memory, cut where one step hands a value to the next.

* `DialogChunks`: from the pending turns to chunks and documents.  A text is a length;
  a word is known by its turn, its block and its place, so that a chunk is a sequence
  of words and marks.  The splitter of langchain is external.
* `FactExtract`: chunks in parallel under a semaphore, an answer that is unreadable,
  fails, is too long (the chunk is halved), or is a list with odd entries.  `of` and
  `meant` are the statement a fact was made of and the one its cause names.
* `EntityResolver`: a name is looked for among the aliases, then the entities of that
  name, then those that are similar or share its company.  `meaning` is a history
  variable: what the name was resolved to first.
* `FactStore`: `retain` under its lock, one action for every access that runs in a
  thread of the executor (`Dedup`, `StoreFacts`, `Index`, `SearchLinks`,
  `InsertLinks`), and `create_observations`, started by the pipeline or by the command,
  whose actions are done in SQLite and then in LanceDB.  `holder` is the connection
  whose failed write left its transaction open.  Texts are equal or not; equal ones
  are above every threshold of similarity.
* `FactRecall`: the four searches in their order, each with a query of its own, the
  fusion of the rankings, the filters and the token limit, while observations are
  deleted between them.  Similarities, strengths and proximities are tenths.

Embeddings, the reranker, the tokenizer and the parsing of dates are abstracted.


### HistoryShapes

Two pure functions on histories: `Migrated` (turns of the old Gemini format, converted
when a file is read) and `Compressed` (the window of the default compressor).  `old`
grows turn by turn through all the files of the bound, so that TLC evaluates both
functions on each of them and compares what they give with what it has to be.


## 3. Runs

| Run | Question | Properties |
|---|---|---|
| `memory` | Do turns stay accounted for, observed once, private when anonymous, and is the history sent to the model well formed, with two threads, stops, errors and a crash? | `Accounted`, `ObservedOnce`, `AnonymousNeverRecorded`, `ToolsPaired`, `LogKeepsAll` |
| `turns` | Do messages enter the history in order and is it one a model accepts; is a stop clean; is every message settled, does a stop end, does a task that queues for the directory's lock get on? | `MCTypeOK`, `HistoryInOrder`, `StopAddsOnlyNotice`, `TurnsEnd` |
| `rpc_channel` | Does the channel implement `RpcCalls`; is the worker cap kept; does every call end? | `TypedAndCapped`, `ImplementsRpcCalls`, `CallsSettle` |
| `codex` | Is the thread in step with the memory when a turn begins; do turns stay apart; is every tool call answered once; does `llm` end? | `TypeOK`, `ThreadInStep`, `AnswersOwnQuestion`, `ToolRepliedOnce`, `LlmEnds` |
| `transports` | Telegram: does a chat show the last text, is a message handled once, has an agent one chat, is every send answered? Web: is an event shown once and in order? Registry: is a deleted thread gone? Movie: is the file the project, and has what runs a task and what is done a picture? | `TypeOK`, `FinalText`, `IncomingOnce`, `OneChatPerAgent`, `ShownOnce`, `DeletedIsGone`, `MovieKept`, `SendsSettle` |
| `services` | Sandbox: is the name free when a container is made, is what commands leave kept? Proxy: does nobody wait for a tunnel that is gone? Files and shells: do edits compose, are pages complete, are lines read whole? Cron: is a run delivered once, do tick and tools keep each other's tasks, is what is due served? Checkers: do captures and moves agree, can the one to move? | `MCTypeOK`, `ContainerKept`, `NoneForgotten`, `StepsCompose`, `ShellReadWhole`, `TasksServedOnce`, `DueIsServed` |
| `stores` | Fact memory: does every word reach the extractor behind its speaker, do facts keep their order, a name its entity, the stores their agreement, and does recall obey its filters? Claude: is a desync reported only when the file was lost, has every answered user turn been sent, do answers and results belong to their questions and calls? Are converted and cut histories well formed? | `TypeOK`, `FactsInOrder`, `NameKeepsEntity`, `StoresAgree`, `FactsAccounted`, `RecallExact`, `SessionInStep`, `AnswersPaired` |
| `memory_forgets`, `codex_orphan`, `sandbox_mounts`, `web_replay`, `causes_meant` | Statements of the repository the code does not keep: section 6 | `ForgottenOnlyIfObserved`, `StreamResetOnExit`, `MountsCurrent`, `CaughtUp`, `CausesMeant` |

The modules' properties are named after what they say and commented where they are
defined; `ThreadInStep`, `ContainerKept`, `HistoryInOrder`, `MovieKept` and several of
the composing modules' are conjunctions of parts that have names of their own.  The
deadlock check is off everywhere: nobody has to send another
message, and an instance whose bounds are used up may rest.

Bounds, and why they are enough for the interesting cases.

* `memory` (2 threads, 5 turns, one of the threads may be anonymous, 1 crash): five
  turns are a user turn, a tool round and an answer in one thread while the other adds
  and answers, so a consolidation can run, queue and be stopped with turns of both
  threads in the snapshot; trimming can cut between a call and its reply; a second
  consolidation can reuse `LOG.md`.
* `turns` (3 messages, 1 coroutine, 2 stops, 2 iterations, both kinds of backend; for the
  lock 2 threads, 4 turns): a batch of two behind a running turn; a stop that arrives
  while the loop is already cancelled or between turns; the limit of iterations.
* `rpc_channel` (2 calls of the script, 1 nested call of the host, 1 worker per end,
  1 disconnect): calls overlap, are refused at the cap, and meet a disconnect
  everywhere.
* `codex` (2 messages, 2 threads, 1 stop, death or restart; refusals, timeouts and late
  answers unbounded): the first message leaves a thread and perhaps a running turn
  behind, the second finds it again, or another thread, after a fault.  A tool of the
  server's own runs in the first turn only.
* `transports`: 2 streams with 2 updates each (3 in all), texts that need one or two
  messages, and 1 refused request: an edit is overtaken while another stream's is in
  the worker.  3 incoming messages of 4 kinds, 1 failure: two batches are handled at
  once.  2 agents, 2 groups and the private chat, 1 topic, 2 bindings: an agent is
  bound elsewhere while its topic is made or deleted.  1 page, a buffer of 2, 3 events
  and 1 cut: the buffer overflows and every source of events overlaps with every other
  (pages do not influence each other but for the order of a broadcast).  2 threads,
  3 agent objects, 1 message, 1 failed start: two starts of one thread overlap, and a
  third agent follows a deletion.  3 ids and 2 launches of the movie: a character, a
  generation left behind, and one of the next launch.
* `services`: 2 parallel calls, 3 commands, 2 changes between 2 configurations,
  2 failures, stops or restarts: two recreations and one back to the first mounts, with
  a second call waiting or running.  Proxy: one request of each kind and one repeated,
  2 tunnels, a budget of 2 failures, 1 loss.  Files: 2 tokens, texts up to 5 lines,
  2 edits in a call; pages of 1 and 2.  Shell: 4 lines, pages of 2, 4 reads.  Cron:
  2 tasks, intervals 0 to 2, times to 3, 1 restart or failed save: a tick is cut between
  two deliveries, and an interval of 2 at time 3 has skipped a run.  Checkers: a board
  of 5 with a row of men each, 4 plies, 5 messages: captures, chains and kings occur.
* `stores`: dialogue of 2 threads and 3 turns, with texts below, at and above the chunk
  size.  Extraction: 2 chunks of up to 2 statements, 2 attempts, 1 place in the
  semaphore.  Resolver: 3 names of which two are similar only in company, 3 batches,
  1 crash.  Store: 2 jobs of up to 2 facts, 2 texts, 2 connections, 3 ids, 1 command and
  1 failure or restart: two runs of the consolidation overlap with a job.  Texts and
  connections are symmetric: they are only compared, and the run checks no liveness.
  Recall: 3 rows, 3 links, 8 queries, a limit of 2.  Claude: 3 user turns, pruning above
  1 stale entry (20 in the code), 1 mishap: trimmed in the second turn, pruned in the
  third, with what the mishap left.  Histories: 4 old turns, a hard limit of 7 tokens and
  a soft one of 4.

## 4. Fairness

* Memory: `WF(Consolidate(t))`, as the LLM calls have a timeout and a bounded number of
  retries; `SF(LockAcquired(t))`, as `asyncio.Lock` wakes its waiters in order.  No
  fairness for users, stops, crashes or a thread's own turn.
* Loop: `WF(Loop)` and `WF(Cancel)`: model, tool and transport calls have timeouts,
  and the event loop runs every ready task.  The tool rounds are bounded by
  `max_iterations`.  None for messages, stops and coroutines arriving.
* RPC: `WF` of the reader and of the worker threads of each end: the operating system
  schedules them and handlers end.  None for making calls (nested ones included) or for
  the connection breaking.
* Codex: `WF(Llm)`, as every wait has a timeout; `WF(Router)`, `WF(ToolTask)`: tasks of
  the loop whose awaits end; `WF(Serve)`: the server reads its input (it need not
  answer well).  The model's own steps have no fairness: it may think for ever, and
  `LlmEnds` holds all the same.
* Cron: `WF(Tick)`: the daemon ticks every 30 seconds and a delivery ends;
  `SF(Resolved)`: an agent that is asked for again and again is got some time (a thread
  that can never be started keeps its tasks waiting, which is what the code means).
* TelegramQueue: `WF(Take)` and `WF(Finish)`: the worker's task runs and its requests
  have timeouts.
* Everything else: none; the properties are about safety.

## 5. Proofs

Every theorem is about the specification itself, for all values of its constants, from
the named assumptions of the module it extends: bounds are natural numbers; the two
ends of a channel differ; the absent values (`None`) are none of the values they stand
in for; a script is not a page or a socket; a budget of failures and a clock are not
zero, and the intervals are at most the last time.  TLC evaluates them in every run.

* `ObservationalMemoryProofs`: `TypeCorrect`, `LockSafe`, `LogKept`, `PrivacySafe`,
  `AnonymousSafe`, `TurnsAccounted`, `OnceObserved`, `ToolsStayPaired`.  `LogKeepsAll`
  needs to know that the copy of the log a task read before its LLM call is still the
  log when it writes it back: the invariant behind it says that a holder's `existing`
  covers what `LOG.md` holds (while observing) or that `history` already does (while
  reflecting).  It is inductive only together with the lock's invariant: without the
  lock another task could write in between.  Privacy is strengthened by the same
  statement for `existing`.  `Accounted` and `ObservedOnce` rest on what a task holds at
  each stage: one that is past its observation holds only turns that are settled, and
  what is reflected is in the log or its history.  `ToolsPaired` is proved of the
  history and of the saved files at once, since a restart turns one into the other.
* `AgentLoopProofs`: `WellFormed`, `StopIsClean`, `InOrder`.  The history ends with a
  user turn or tool results exactly while the model is awaited and with a call while its
  tools are; a task that is cancelled is in one of the stages in which it can only close
  its rounds.  For the order, ids grow from the history over the batch in the hands of
  the loop and the queue to the messages not yet sent.
* `RpcChannelProofs`: `WorkersSafe` and `ChannelKeepsPromise`, the refinement of
  `RpcCalls`.  Six invariants are inductive together: the types; what an end knows of
  its own calls (`AskInv`: only ids given out are pending); what serves a call
  (`ServeInv`: its message, then one worker thread and at most one coroutine, and how
  far the handler is with each); the counted threads (`CapInv`); that a value under way
  or given to a caller is what this call's handler returned (`AnswerInv`); and that all
  who say which call a future belongs to agree (`FutureInv`: the caller's table, the
  messages that announce and end it, the coroutine).  The last two need each other: a
  future's final value is given to the call the table names.  Each step is then a step
  of `RpcCalls` (`Issue`, `Execute`, `Finish`, `Complete`, `Fail`) or a stutter.
* `CodexTurnsProofs`: `TypesOK`, `TurnsInStep` (`ThreadInStep`), `AnswersBelong`
  (`AnswersOwnQuestion`), `RepliedOnce` (`ToolRepliedOnce`).  A thread *owes* a turn that
  was sent to it, runs on it, or has notifications nobody has read.  The heart of the
  invariant (`OwedOpen`) is that the saved thread can only owe a turn whose message the
  memory holds with nothing behind it, or with the notice of its interruption.  A thread
  that owes something therefore never equals the memory, the comparison finds it out of
  step and `llm` leaves it: that is why no answer of a turn given up earlier is collected
  for a later one.  This needs the order of the pipe: once the request `llm` waits for is
  answered, the server has taken all requests before it (`Answered`), and after its last
  notification a turn says nothing (`Ended`).  For the tool call: it is in one place, with
  the client, in a task, in an answer, or counted (`CallOnce`), and nowhere before its
  turn was sent (`CallKnown`).
* `TransportsProofs`: five parts of the run `transports`.  `LastTextShown` (`FinalText`):
  the invariant (`TextsComing`) says of each message what it *will* show once the queue is
  worked off, the last edit behind the item in the worker or else the item or else the
  text remembered for it; it is kept by coalescing because the queue is in the order of
  updates, with one send of a stream at most.  `MessagesInOnePlace` (`IncomingOnce`):
  exactly one of four sets of places is a singleton and the others are empty, which
  becomes the count.  `BindingsStayOne` (`OneChatPerAgent`): holds of the table in memory
  and of the file, which a restart reads.  `ProjectKept` (`MovieKept`): the file is the
  project of some launch, of the live one until another has saved over it; who is shown
  as generating has a task or was cut; an id not given out, or still worked on, has no
  picture.  `HistoryGoesWithThread` (`DeletedIsGone`) is inductive as it stands.
* `ServicesProofs`: four parts of the run `services`.  `HolderAlone` and `ContainerSafe`
  (`ContainerKept`): the invariant says who is in the lock's section, what that call knows
  of the container from its last `inspect`, and where the files of commands are; "the name
  is free when a container is made" is not inductive without the part about the lock.
  `RequestsTold` (`NoneForgotten`): a request under way that is in the table has a tunnel whose handler still runs and will
  end it; one that has left the table has its last frame waiting (`SomeoneTells`).  For a
  script that needs that it is given one frame and leaves with it (`ScriptsAnswered`,
  `ScriptsReadOnce`).  `LogReadWhole` (`ShellReadWhole`): what is kept is a beginning of
  the log, a read counts before it shows, and a read begun when all writers are gone
  counts everything.  `TasksServed` (`TasksServedOnce`): the runs delivered are before the
  next run of their task, in the file and in the list of the tick, until that tick has
  saved the new one (`RunsPast`); the tick's list and the file agree on the tasks both
  have (`TickSound`), so that the save moves exactly what the tick fired.
* `ClaudeSessionProofs`: `SessionAnswers`, for the sessions of Claude Code alone.  What the
  process has told of the query that is out, read by `llm()` or still in the stream, is
  taken as one sequence (`Told`): every entry is in it once, a result behind its call, and
  the message that ends the query comes last (`ToldFits`); how much of it there is follows
  from how far the process is (`StageFits`).  Unless a call left something unread nothing
  of another query is anywhere (`OneQuery`), so that what is read belongs to the question,
  and when the end message has been read all calls have their results.  A stop adds one for
  each call without; the drain reads up to the end message, behind which there is nothing.
  The calls of the memory are older than the query that is out, hence no result of it is
  one of theirs (`CallsHaveReply`).  While a query is out all user turns of the memory have
  been in one (`UsersHeard`); trimming only takes turns away from the front.
* `StoresProofs`: four parts of the run `stores`.  `StoresPaired` (`StoresAgree`): one
  consolidation runs at a time, the ids of a job's facts are its own until it has written
  their rows, and a row and its vector part only between the two writes of one step of
  the task that makes them (`VectorsPaired`); without a failure every difference between
  the stores has such an owner.  `FactsOnce` (`FactsAccounted`): what was given to the
  model is marked as consolidated, or will be by the run that gave it (`GivenOnce`);
  while no observation was deleted and no vector outlived its row, what a search found
  is still a row when the links are written (`LinksFit`).  `NamesKept`
  (`NameKeepsEntity`): what a name first meant is what the tables say, its alias or the
  entity of that name; the cache of a batch has every alias and says nothing else.  An
  entity is added under a name only when none has it, so the first of that name is the
  only one.  `SessionAnswers` (`AnswersPaired`): the steps of the sessions in `MCStores`
  are those of `ClaudeSessionProofs`, whose invariant is kept by the steps of the others.

Where a proof needs an induction (`LeastNumber`: a set of numbers has a least one) it
takes the library's fact that strict inclusion is well founded on finite sets.

Only model-checked:

* Liveness under fairness (`TurnsEnd`, `CallsSettle`, `LlmEnds`, `DueIsServed`,
  `SendsSettle`): beyond the prover, as is anything about `ENABLED`.
* What a definition computes by recursion or by a fold over a sequence: `StepsCompose`
  (edits folded over a text, pages of a search, chains of captures),
  `RecallExact`, `FactsInOrder`, and the comparison of the session file with the memory
  and the cutting of histories in `SessionInStep`.  The library's induction theorems take
  an operator as a parameter, which the provers cannot instantiate.
* The typing of the composing modules (`MCTypeOK` of `turns` and `services`, `TypeOK` of
  `transports` and `stores`): the parts of it that the other invariants need are in
  them.
* `ShownOnce` of the pages.

## 6. Where the code and its texts disagree

Runs that show it:

* `memory_forgets` (`log.py:782`): the docstring says that what is kept beside the
  observations has not entered them yet.  Turns are flagged `_observed` before the
  observer is asked; if it returns nothing, raises or is stopped, they are trimmed all
  the same and no log has them.
* `codex_orphan` (`codex.py:1537`): the comment on `_stream_state` says it is reset on
  leaving `llm()`.  A cancellation in `turn/start` is not an `Exception`: the state
  stays, and the turn on the server is not interrupted.
* `sandbox_mounts` (`sandbox/__init__.py:326`): the prompt says that a change of the
  mounts recreates the container.  One that is stopped when the change is noticed is
  only started: it keeps the old mounts, and the hash of the new ones is cached.
* `web_replay` (`fork.py:226`): the buffers are there to catch up after a reconnect.  A
  live event that reaches the page before the answer to its replay request makes the
  dialog drop every event of the answer.
* `causes_meant` (`retain.py:661`): a cause is meant to be resolved from the place the
  model gave it to the id of a fact of the chunk.  Skipped entries and halved chunks
  shift the places.

What the modules have, and no run is made of:

* Registry: two callers of `Agent.get` for one thread, both in `start()`, each make an
  agent (`agent.py:100`), where the docstring says one thread has one agent
  (`agent.py:52`).  `close` pops whatever is registered, and a turn in flight writes the
  thread's file again: hence `late` in `DeletedIsGone`.
* Stop: `agent.py:321` says a partial answer is not saved; a backend that returns a list
  catches the cancellation and returns what it has with a notice.
* RPC: `rpc.py:40` says that `max_workers` "caps in-flight calls"; an async handler's
  worker leaves when it has announced its future, so any number of coroutines may run.
* Claude: the user turn that opens a trimmed memory has no uuid and is cut from the
  session with the old entries (`claude.py:380`).  A stop inside `query()`, an error of
  the transport while streaming, or a drain that times out leave messages unread, which
  the next turn takes for its own: `AnswersOwnQuestion` and `CallsPaired` hold outside of
  that, with `unread` and `mixed` saying when.  A dead process leaves `_client` in place
  (`claude.py:664`).
* Sandbox: a container removed from outside leaves the cached hash (line 295), so that
  every `exec` fails until the mounts change; what a command installs between `commit`
  and `rm` is lost.  A background command whose log is not renamed yet is "not found";
  the children of a killed shell write on.
* Proxy: the `finally` of a tunnel that was replaced ends the requests of all tunnels,
  the new one's included; a body cut by the loss of its tunnel ends as if it were
  complete; a WebSocket waits for its opening without a timeout.
* Cron: a repeat of `0m` is accepted and divides by zero when it fires: the tick ends,
  its task is delivered every 30 seconds and the tasks behind it are not served.
  `DueIsServed` holds only without such a task.
* Telegram: the worker of the queue dies of the result it gives to a cancelled caller
  (`telegram.py:493`); two tasks of one transport make two topics (line 236); a migrated
  group leaves the other transports with its old id.
* Web: the ids of targeted events let a page skip earlier ones it has not got; a
  restart empties the buffers, and a page does not fetch the history again.
* Movie: a task of a launch left by `/exit` saves its old project over the later one's,
  and its result never appears there; after a crash "generating" stays for ever; the
  provider's poll skips its deadline on network errors; an approval's answer carries no
  id and may be taken for the next question's.
* Facts: an insert of links that misses its foreign key leaves the transaction open and
  the database locked for all others; a chunk with one odd field ends the extraction of
  all of them; the pending batch is lost at a crash, and a batch that the model did not
  answer is marked as consolidated; the aliases are decided by company as well as by
  the name, so that names below the threshold are merged; recall cuts its candidates
  before it filters by type and tag.  A single reply of the chunk size exceeds it with
  its speaker's mark.
* Window: the turn that makes `min_user_turns` is itself left out when the soft limit is
  exceeded, so that one less is kept (`window.py:30`).

## 7. Not modelled

* Stateless backends: a request and its answer; retries appear as the free failure of a
  model call in `AgentLoop`.
* Transport fan-out (`multi.py`): every call is passed to each child in turn, without
  state of its own.
* Dashboard: operations on files and git for a browser, I/O without state between two
  requests; the pool of its watchers costs a page its refresh at most.
* Codex: the start of the app-server and the pool of its clients; reasoning and
  file-change items.  Claude: messages of sub-agents, costs, `/context`.
* Sandbox: the start of the podman machine, the firewall's rule, script tools; two
  threads of one directory.
* Sub-agents, configuration, commands, transcription and description of media.
* Web: uploads, static files.  Telegram: files, voice, suggestions, formatting.
* Skills that wrap one request (web search, speech, images); the coding and diary modes,
  which are prompts; personalities, which are files written whole; the browser UI but
  for the events a page has seen.
* Token counting, prompts, embeddings, the reranker: their results are free choices.

## 8. What is left

1. `CodexPool`: the start, sharing and restart of app-server clients (`codex.py:141`),
   with the cancelled start that is not shut down.
2. `SandboxContainer` with two threads of one directory, each with a lock of its own.
3. `ClaudeSession` with the messages of sub-agents and the ephemeral agent.
4. The composition of `AgentLoop` with `AgentRegistry` (a loop that is closed while its
   queue has messages) and with `TelegramInbox`.
5. Proofs, in order of value: `ShownOnce` of the web's pages; the alarm in `SessionInStep`,
   which needs what the entries of the file and the turns of the memory have in common;
   the typing of the composing modules.
