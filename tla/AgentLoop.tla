------------------------------ MODULE AgentLoop ------------------------------
(***************************************************************************)
(* One agent of agent.py: its message queue (process_message,              *)
(* call_before_next_message, next_message), the loop task that turns a     *)
(* batch of messages into one turn of the history, the tool rounds, and    *)
(* /stop, which cancels the task of the turn through stoppable().          *)
(*                                                                         *)
(* The loop task, the transports that bring messages and the providers     *)
(* that schedule coroutines are tasks of one event loop: a step below is   *)
(* the code between two suspension points.                                 *)
(***************************************************************************)
EXTENDS Naturals, Sequences, FiniteSets

CONSTANTS
    Backends,       \* "dict": llm() returns one turn; "list": it returns all of them
    MaxIterations,  \* Agent.max_iterations
    MaxMessages,    \* bound: messages sent
    MaxCoros,       \* bound: coroutines put in the queue
    MaxStops        \* bound: /stop commands

ASSUME BoundsAssumption == MaxMessages \in Nat /\ MaxCoros \in Nat /\ MaxStops \in Nat

VARIABLES
    backend,  \* the backend of this agent
    queue,    \* _message_queue
    pc,       \* where handle_turn is suspended
    batch,    \* the messages next_message has taken so far
    history,  \* memory._turns
    rounds,   \* `iteration`
    stop,     \* _stop_event
    cancelled,\* stoppable() has cancelled the task and waits for it to end
    current,  \* messages of the turn being answered
    fate,     \* what became of each message
    coros,    \* coroutines put so far
    stops     \* /stop commands so far

turnVars == <<batch, history, rounds, current, fate>>
countVars == <<backend, coros, stops>>
vars == <<queue, pc, turnVars, stop, cancelled, countVars>>

Messages == 1..MaxMessages
Item == [kind : {"msg"}, id : Messages, asks : BOOLEAN]
        \cup [kind : {"coro"}, id : {0}, asks : {FALSE}]
Turn == [role : {"user", "call", "tool", "answer", "aborted"}, ids : Seq(Messages)]
Stages == {"waiting", "coro", "processing", "llm", "tools", "adding", "limit",
           "interrupting", "reporting", "finishing", "dead"}
Fates == {"unsent", "open", "noted", "answered", "failed", "stopped", "lost"}

TypeOK ==
    /\ backend \in Backends
    /\ queue \in Seq(Item) /\ batch \in Seq(Item)
    /\ pc \in Stages
    /\ history \in Seq(Turn)
    /\ rounds \in Nat
    /\ stop \in BOOLEAN /\ cancelled \in BOOLEAN
    /\ current \subseteq Messages
    /\ fate \in [Messages -> Fates]
    /\ coros \in 0..MaxCoros /\ stops \in 0..MaxStops

Init ==
    /\ backend \in Backends
    /\ queue = <<>> /\ batch = <<>> /\ history = <<>>
    /\ pc = "waiting"
    /\ rounds = 0
    /\ stop = FALSE /\ cancelled = FALSE
    /\ current = {}
    /\ fate = [m \in Messages |-> "unsent"]
    /\ coros = 0 /\ stops = 0

-----------------------------------------------------------------------------
(* Helpers *)

Ids(items) == [i \in DOMAIN items |-> items[i].id]
IdSet(items) == {items[i].id : i \in DOMAIN items}
Plain(role) == [role |-> role, ids |-> <<>>]

\* The messages S, still open, end as f.
Settle(S, f) == [m \in Messages |-> IF m \in S /\ fate[m] = "open" THEN f ELSE fate[m]]

\* Where the messages at the head of a queue end: get() does not suspend before.
Lead(q, n) ==
    /\ \A i \in 1..n : q[i].kind = "msg"
    /\ n < Len(q) => q[n + 1].kind = "coro"

\* The user's turn: every message of the batch is merged into one.
BeginTurn(b) ==
    /\ history' = Append(history, [role |-> "user", ids |-> Ids(b)])
    /\ batch' = <<>> /\ rounds' = 0
    /\ IF \E i \in DOMAIN b : b[i].asks
       THEN pc' = "processing" /\ current' = IdSet(b) /\ fate' = fate
       ELSE pc' = "finishing" /\ current' = {} /\ fate' = Settle(IdSet(b), "noted")

\* next_message from a point where the task runs: it goes on taking items until
\* it awaits a coroutine, or the queue, or has a batch and an empty queue.
TakeItems ==
    \E n \in 0..Len(queue) :
        LET b == batch \o SubSeq(queue, 1, n) IN
        /\ Lead(queue, n)
        /\ \/ /\ n < Len(queue)
              /\ queue' = SubSeq(queue, n + 2, Len(queue))
              /\ batch' = b /\ pc' = "coro"
              /\ UNCHANGED <<history, rounds, current, fate>>
           \/ /\ n = Len(queue) /\ b # <<>>
              /\ queue' = <<>>
              /\ BeginTurn(b)
           \/ /\ n = Len(queue) /\ b = <<>>
              /\ queue' = <<>> /\ batch' = <<>> /\ pc' = "waiting"
              /\ UNCHANGED <<history, rounds, current, fate>>

\* Wrong variant: the loop does not clear the event.
NextTurnStopped ==
    /\ pc' = "waiting"
    /\ cancelled' = FALSE /\ stop' = stop

\* The task ends; the loop clears the event and starts the next one.
NextTurn ==
    /\ pc' = "waiting"
    /\ stop' = FALSE /\ cancelled' = FALSE

\* The turn's task goes on to `stage`, history and counters unchanged.
Move(from, stage) ==
    /\ pc = from /\ pc' = stage
    /\ UNCHANGED <<queue, turnVars, stop, cancelled, countVars>>

-----------------------------------------------------------------------------
(* The other tasks *)

\* process_message of a message that is not a command.
Send(asks) ==
    /\ \E m \in Messages :
        /\ fate[m] = "unsent" /\ \A k \in 1..(m - 1) : fate[k] # "unsent"
        /\ queue' = Append(queue, [kind |-> "msg", id |-> m, asks |-> asks])
        /\ fate' = [fate EXCEPT ![m] = "open"]
    /\ UNCHANGED <<pc, batch, history, rounds, current, stop, cancelled, countVars>>

CallBeforeNextMessage ==
    /\ coros < MaxCoros /\ coros' = coros + 1
    /\ queue' = Append(queue, [kind |-> "coro", id |-> 0, asks |-> FALSE])
    /\ UNCHANGED <<pc, turnVars, stop, cancelled, backend, stops>>

\* /stop is a bypass command: it never passes through the queue.
Stop ==
    /\ stops < MaxStops /\ stops' = stops + 1
    /\ stop' = TRUE
    /\ UNCHANGED <<queue, pc, turnVars, cancelled, backend, coros>>

-----------------------------------------------------------------------------
(* handle_turn *)

ItemArrives ==
    /\ pc = "waiting" /\ queue # <<>>
    /\ TakeItems
    /\ UNCHANGED <<stop, cancelled, countVars>>

\* Wrong variant: after a coroutine the queue is awaited, batch or no batch.
CoroEndsWaits ==
    /\ pc = "coro" /\ pc' = "waiting"
    /\ UNCHANGED <<queue, turnVars, stop, cancelled, countVars>>

CoroEnds ==
    /\ pc = "coro"
    /\ TakeItems
    /\ UNCHANGED <<stop, cancelled, countVars>>

\* next_message is called outside the try: what a coroutine raises ends the
\* loop, unless stoppable has seen /stop by then.
CoroRaises ==
    /\ pc = "coro"
    /\ fate' = Settle(IdSet(batch), "lost")
    /\ batch' = <<>>
    /\ \/ pc' = "dead" /\ UNCHANGED <<stop, cancelled>>
       \/ stop /\ NextTurn
    /\ UNCHANGED <<queue, history, rounds, current, countVars>>

ProcessingShown == Move("processing", "llm")

\* Any await of the try block may raise: the handler reports it.
Raises ==
    /\ pc \in {"processing", "llm", "tools", "adding", "limit"}
    /\ fate' = Settle(current, "failed")
    /\ pc' = "reporting"
    /\ UNCHANGED <<queue, batch, history, rounds, current, stop, cancelled, countVars>>

Reported == Move("reporting", "finishing")

\* Wrong variant: the call is saved before its tools have run.
AsksToolsEarly ==
    /\ backend = "dict" /\ pc = "llm" /\ rounds < MaxIterations
    /\ pc' = "tools"
    /\ history' = Append(history, Plain("call"))
    /\ UNCHANGED <<queue, batch, rounds, current, fate, stop, cancelled, countVars>>

\* The model asks for tools: run them, or warn at the limit.
AsksTools ==
    /\ backend = "dict"
    /\ \/ rounds < MaxIterations /\ Move("llm", "tools")
       \/ rounds >= MaxIterations /\ Move("llm", "limit")

LimitSent ==
    /\ pc = "limit" /\ pc' = "finishing"
    /\ fate' = Settle(current, "failed")
    /\ UNCHANGED <<queue, batch, history, rounds, current, stop, cancelled, countVars>>

\* The call and its results enter the history together.
ToolsEnd ==
    /\ pc = "tools" /\ pc' = "llm"
    /\ history' = history \o <<Plain("call"), Plain("tool")>>
    /\ rounds' = rounds + 1
    /\ UNCHANGED <<queue, batch, current, fate, stop, cancelled, countVars>>

\* add_turn: the turn is in memory before a provider suspends it.
Answers ==
    /\ pc = "llm" /\ pc' = "adding"
    /\ \/ backend = "dict" /\ history' = Append(history, Plain("answer"))
       \/ backend = "list" /\ \E n \in 0..1 :
            history' = history \o (IF n = 0 THEN <<>> ELSE <<Plain("call"), Plain("tool")>>)
                               \o <<Plain("answer")>>
    /\ fate' = Settle(current, "answered")
    /\ UNCHANGED <<queue, batch, rounds, current, stop, cancelled, countVars>>

\* The claude and codex backends swallow the cancellation, interrupt the model
\* and return what they have, calls paired and an interruption notice appended.
Interrupted ==
    /\ pc = "interrupting" /\ pc' = "adding"
    /\ \E n \in 0..1 :
        history' = history \o (IF n = 0 THEN <<>> ELSE <<Plain("call"), Plain("tool")>>)
                           \o <<Plain("aborted")>>
    /\ UNCHANGED <<queue, batch, rounds, current, fate, stop, cancelled, countVars>>

Added == Move("adding", "finishing")

Finished ==
    /\ pc = "finishing"
    /\ NextTurn
    /\ current' = {}
    /\ UNCHANGED <<queue, batch, history, rounds, fate, countVars>>

-----------------------------------------------------------------------------
(* stoppable: the event fires, the task is cancelled once and awaited *)

\* Wrong variant: the batch is put back, behind what arrived in the meantime.
CancelWaitingRequeues ==
    /\ stop /\ ~cancelled /\ pc \in {"waiting", "coro"}
    /\ queue' = queue \o batch /\ batch' = <<>>
    /\ NextTurn
    /\ UNCHANGED <<history, rounds, current, fate, countVars>>

\* Cancelled inside next_message: what it had taken is gone.
CancelWaiting ==
    /\ stop /\ ~cancelled /\ pc \in {"waiting", "coro"}
    /\ fate' = Settle(IdSet(batch), "lost")
    /\ batch' = <<>>
    /\ NextTurn
    /\ UNCHANGED <<queue, history, rounds, current, countVars>>

\* Wrong variant: the tool round under way is added before the task ends.
CancelTurnSaves ==
    /\ stop /\ ~cancelled
    /\ pc \in {"processing", "llm", "tools", "adding", "limit", "reporting"}
    /\ pc' = IF pc = "tools" THEN "tools" ELSE "finishing"
    /\ cancelled' = TRUE
    /\ fate' = Settle(current, "stopped")
    /\ UNCHANGED <<queue, batch, history, rounds, current, stop, countVars>>

\* Wrong variant: the task survives a cancelled transport call.
CancelTurnParks ==
    /\ stop /\ ~cancelled
    /\ pc \in {"processing", "llm", "tools", "adding", "limit", "reporting"}
    /\ pc' = "stopped"
    /\ cancelled' = TRUE
    /\ fate' = Settle(current, "stopped")
    /\ UNCHANGED <<queue, batch, history, rounds, current, stop, countVars>>

CancelTurn ==
    /\ stop /\ ~cancelled
    /\ pc \in {"processing", "llm", "tools", "adding", "limit", "reporting"}
    /\ pc' = IF pc = "llm" /\ backend = "list" THEN "interrupting" ELSE "finishing"
    /\ cancelled' = TRUE
    /\ fate' = Settle(current, "stopped")
    /\ UNCHANGED <<queue, batch, history, rounds, current, stop, countVars>>

CancelFinishing ==
    /\ stop /\ ~cancelled /\ pc = "finishing"
    /\ NextTurn
    /\ current' = {}
    /\ UNCHANGED <<queue, batch, history, rounds, fate, countVars>>

-----------------------------------------------------------------------------

Environment == CallBeforeNextMessage \/ Stop \/ \E asks \in BOOLEAN : Send(asks)

Loop ==
    \/ ItemArrives \/ CoroEnds \/ CoroRaises \/ ProcessingShown \/ Raises \/ Reported
    \/ AsksTools \/ LimitSent \/ ToolsEnd \/ Answers \/ Interrupted \/ Added \/ Finished

Cancel == CancelWaiting \/ CancelTurn \/ CancelFinishing

Next == Environment \/ Loop \/ Cancel

\* Model, tool and transport calls end (they have timeouts), and a task woken by
\* the event is run.
Fairness == WF_vars(Loop) /\ WF_vars(Cancel)

Spec == Init /\ [][Next]_vars /\ Fairness

-----------------------------------------------------------------------------
(* Properties *)

\* Messages enter the history in the order they were sent and at most once,
\* however batches, coroutines and stops fall between them.
EnteredInOrder ==
    \A i, j \in DOMAIN history : \A a \in DOMAIN history[i].ids, b \in DOMAIN history[j].ids :
        i < j \/ (i = j /\ a < b) => history[i].ids[a] < history[j].ids[b]

\* The history the model is given: a call is followed by its results, and an
\* answer, or the notice of an interruption, ends what a user turn began.
HistoryWellFormed ==
    \A i \in DOMAIN history :
        /\ history[i].role = "call" => i < Len(history) /\ history[i + 1].role = "tool"
        /\ history[i].role = "tool" => i > 1 /\ history[i - 1].role = "call"
        /\ history[i].role \in {"answer", "aborted"} =>
             (i < Len(history) => history[i + 1].role = "user")

\* Messages enter the history in the order they were sent and at most once, and
\* what has entered is a history a model accepts.
HistoryInOrder == EnteredInOrder /\ HistoryWellFormed

\* What a stop may add to the history: nothing, or, from a backend that returns
\* its turns as a list, whole rounds closed by the notice of the interruption.
StopAddsOnlyNotice ==
    [][cancelled => \/ history' = history
                    \/ /\ backend = "list" /\ Len(history') > Len(history)
                       /\ history'[Len(history')].role = "aborted"]_vars

\* Every message is settled in the end: answered, noted, reported as failed,
\* stopped, or lost with its batch; only a dead loop leaves messages open.
MessagesSettle == \A m \in Messages : fate[m] = "open" ~> fate[m] # "open" \/ pc = "dead"

\* /stop takes effect: the loop gets back to a cleared event.
StopEnds == stop ~> (~stop \/ pc = "dead")

=============================================================================
