------------------------- MODULE ObservationalMemory -------------------------
(***************************************************************************)
(* The conversation memory of one agent directory: Memory (memory.py), the *)
(* pending list that BaseProvider shares between the threads of a          *)
(* directory (providers/base.py) and the LogCompressor that turns pending  *)
(* turns into LOG.md and trims the history sent to the model (log.py).     *)
(*                                                                         *)
(* Every thread of the directory is one asyncio task of one process: a     *)
(* step below is the code between two suspension points.  A turn is its    *)
(* index in `turns`, which is also the order of `_timestamp`.  Turns have no *)
(* size: whether a list of them has reached a token limit is a free choice. *)
(***************************************************************************)
EXTENDS Naturals, Sequences, FiniteSets

CONSTANTS
    Threads,           \* threads of the directory, each with its own Memory
    Nobody,            \* the lock's value while no task holds it
    MayHide,           \* bound: the threads in which somebody sends /anonymous
    MaxTurns           \* bound: turns added in one behaviour

ASSUME ThreadsAssumption == Nobody \notin Threads /\ MayHide \subseteq Threads
ASSUME BoundsAssumption == MaxTurns \in Nat

VARIABLES
    turns,         \* every turn ever added: thread, role, `_anonymous` flag
    mem,           \* Memory._turns of each thread
    observed,      \* those of them flagged `_observed`
    saved,         \* CONTEXT*.json of each thread: the turns and their flags
    pending,       \* BaseProvider._pending_by_dir[dir]
    savedPending,  \* PENDING_logcompressor.json
    anonymous,     \* Memory.anonymous of each thread, kept in THREADS.json
    pc,            \* where the task of each thread is suspended
    snapshot,      \* the turns a running _consolidate was given
    cutoff,        \* its cutoff timestamp
    existing,      \* its copy of LOG.md: existing_observations, then updated
    lock,          \* BaseProvider._locks[dir]
    log,           \* turns whose observations LOG.md holds
    history,       \* turns whose observations some log/history snapshot holds
    abandoned,     \* turns that left pending without reaching LOG.md
    crash          \* how the process died, if it did: "none", "clean", "torn"

memVars == <<mem, observed, saved>>
pendingVars == <<pending, savedPending>>
taskVars == <<pc, snapshot, cutoff, existing, lock>>
logVars == <<log, history, abandoned>>
vars == <<turns, memVars, pendingVars, anonymous, taskVars, logVars, crash>>

Ids == 1..MaxTurns
Roles == {"user", "call", "tool", "answer"}
Turn == [thread : Threads, role : Roles, private : BOOLEAN]
Stages == {"idle", "ask", "llm", "waiting", "observing", "reflecting", "notifying"}
Consolidating == {"waiting", "observing", "reflecting"}
Holding == {"observing", "reflecting", "notifying"}

TypeOK ==
    /\ turns \in Seq(Turn) /\ DOMAIN turns \subseteq Ids
    /\ mem \in [Threads -> SUBSET Ids]
    /\ observed \in [Threads -> SUBSET Ids]
    /\ saved \in [Threads -> [ids : SUBSET Ids, observed : SUBSET Ids]]
    /\ pending \in SUBSET Ids /\ savedPending \in SUBSET Ids
    /\ anonymous \in [Threads -> BOOLEAN]
    /\ pc \in [Threads -> Stages]
    /\ snapshot \in [Threads -> SUBSET Ids]
    /\ cutoff \in [Threads -> Nat]
    /\ existing \in [Threads -> SUBSET Ids]
    /\ lock \in Threads \cup {Nobody}
    /\ log \in SUBSET Ids /\ history \in SUBSET Ids /\ abandoned \in SUBSET Ids
    /\ crash \in {"none", "clean", "torn"}

Init ==
    /\ turns = <<>>
    /\ mem = [t \in Threads |-> {}]
    /\ observed = [t \in Threads |-> {}]
    /\ saved = [t \in Threads |-> [ids |-> {}, observed |-> {}]]
    /\ pending = {} /\ savedPending = {}
    /\ anonymous = [t \in Threads |-> FALSE]
    /\ pc = [t \in Threads |-> "idle"]
    /\ snapshot = [t \in Threads |-> {}]
    /\ cutoff = [t \in Threads |-> 0]
    /\ existing = [t \in Threads |-> {}]
    /\ lock = Nobody
    /\ log = {} /\ history = {} /\ abandoned = {}
    /\ crash = "none"

-----------------------------------------------------------------------------
(* Helpers *)

NewTurn(t, role) == [thread |-> t, role |-> role, private |-> anonymous[t]]
NextId == Len(turns) + 1

\* The turns _observe flags in the memory of the consolidating thread.
UpTo(S, c) == {x \in S : x <= c}

\* compress: newer than the newest observed turn everything stays, below it
\* the token limits may cut anywhere; turn sizes are abstracted, so any such
\* cut is possible.
Cuts(t) == {0} \cup {x \in mem[t] : \E o \in observed[t] : x <= o}

\* Wrong variant: the loop that drops leading tool replies is missing.
StripNothing(S) == S

\* ... and the kept turns never begin with a tool reply.
StripTools(S) == {x \in S : \E y \in S : y <= x /\ turns[y].role # "tool"}

Kept(t, cut) == StripTools({x \in mem[t] : x > cut})

\* Wrong variant: the snapshot is the whole pending list.
RecordableAll(S, ts) == S

\* The snapshot leaves anonymous turns out, the cutoff does not.
Recordable(S, ts) == {x \in S : ~ts[x].private}

Goto(t, stage) == pc' = [pc EXCEPT ![t] = stage]

-----------------------------------------------------------------------------
(* A thread's own turn: Memory.add_turn and Memory.get_contents *)

ToggleAnonymous(t) ==
    /\ t \in MayHide
    /\ anonymous' = [anonymous EXCEPT ![t] = ~@]
    /\ UNCHANGED <<turns, memVars, pendingVars, taskVars, logVars, crash>>

\* The user's turn; without trigger_answer the handler ends here.
UserTurn(t) ==
    /\ pc[t] = "idle" /\ NextId \in Ids
    /\ turns' = Append(turns, NewTurn(t, "user"))
    /\ mem' = [mem EXCEPT ![t] = @ \cup {NextId}]
    /\ pending' = pending \cup {NextId}
    /\ \E stage \in {"ask", "idle"} : Goto(t, stage)
    /\ UNCHANGED <<observed, saved, savedPending, anonymous, snapshot, cutoff,
                   existing, lock, logVars, crash>>

\* llm(): get_contents compresses the history and saves it when it got shorter.
AskModel(t) ==
    /\ pc[t] = "ask"
    /\ \E cut \in Cuts(t) :
        LET kept == Kept(t, cut) IN
        /\ mem' = [mem EXCEPT ![t] = kept]
        /\ observed' = [observed EXCEPT ![t] = @ \cap kept]
        /\ saved' = IF kept = mem[t] THEN saved
                    ELSE [saved EXCEPT ![t] = [ids |-> kept, observed |-> observed'[t]]]
    /\ Goto(t, "llm")
    /\ UNCHANGED <<turns, pendingVars, anonymous, snapshot, cutoff, existing,
                   lock, logVars, crash>>

\* The model asked for tools: the call and its replies are added together.
ToolRound(t) ==
    /\ pc[t] = "llm" /\ NextId + 1 \in Ids
    /\ turns' = Append(Append(turns, NewTurn(t, "call")), NewTurn(t, "tool"))
    /\ mem' = [mem EXCEPT ![t] = @ \cup {NextId, NextId + 1}]
    /\ pending' = pending \cup {NextId, NextId + 1}
    /\ Goto(t, "ask")
    /\ UNCHANGED <<observed, saved, savedPending, anonymous, snapshot, cutoff,
                   existing, lock, logVars, crash>>

\* The final answer is added and saved; below the token limit the pending
\* list is only saved.
AnswerKeepsPending(t) ==
    /\ pc[t] = "llm" /\ NextId \in Ids
    /\ turns' = Append(turns, NewTurn(t, "answer"))
    /\ mem' = [mem EXCEPT ![t] = @ \cup {NextId}]
    /\ saved' = [saved EXCEPT ![t] = [ids |-> mem'[t], observed |-> observed[t]]]
    /\ pending' = pending \cup {NextId}
    /\ savedPending' = pending'
    /\ Goto(t, "idle")
    /\ UNCHANGED <<observed, anonymous, snapshot, cutoff, existing, lock, logVars, crash>>

\* Wrong variant: consolidations of one directory are not serialised.
LockIgnored == TRUE

\* asyncio.Lock lets nobody overtake the tasks already queued on it.
LockFree == lock = Nobody /\ \A u \in Threads : pc[u] # "waiting"

\* At the limit the pending list is taken and cleared before the lock is
\* asked for.  The lock is free: _observe runs on to its first LLM call.
AnswerObserves(t) ==
    /\ pc[t] = "llm" /\ NextId \in Ids
    /\ LockFree
    /\ turns' = Append(turns, NewTurn(t, "answer"))
    /\ mem' = [mem EXCEPT ![t] = @ \cup {NextId}]
    /\ observed' = [observed EXCEPT ![t] = @ \cup UpTo(mem'[t], NextId)]
    /\ saved' = [saved EXCEPT ![t] = [ids |-> mem'[t], observed |-> observed'[t]]]
    /\ snapshot' = [snapshot EXCEPT ![t] = Recordable(pending \cup {NextId}, turns')]
    /\ cutoff' = [cutoff EXCEPT ![t] = NextId]
    /\ pending' = {}
    /\ lock' = t
    /\ existing' = [existing EXCEPT ![t] = log]
    /\ Goto(t, "observing")
    /\ UNCHANGED <<savedPending, anonymous, logVars, crash>>

\* Wrong variant: the pending list is not cleared before the lock is asked for.
AnswerWaitsUncleared(t) ==
    /\ pc[t] = "llm" /\ NextId \in Ids
    /\ ~LockFree
    /\ turns' = Append(turns, NewTurn(t, "answer"))
    /\ mem' = [mem EXCEPT ![t] = @ \cup {NextId}]
    /\ saved' = [saved EXCEPT ![t] = [ids |-> mem'[t], observed |-> observed[t]]]
    /\ snapshot' = [snapshot EXCEPT ![t] = Recordable(pending \cup {NextId}, turns')]
    /\ cutoff' = [cutoff EXCEPT ![t] = NextId]
    /\ pending' = pending \cup {NextId}
    /\ Goto(t, "waiting")
    /\ UNCHANGED <<observed, savedPending, anonymous, existing, lock, logVars, crash>>

\* ... the lock is taken: the task queues on it, its snapshot in hand.
AnswerWaits(t) ==
    /\ pc[t] = "llm" /\ NextId \in Ids
    /\ ~LockFree
    /\ turns' = Append(turns, NewTurn(t, "answer"))
    /\ mem' = [mem EXCEPT ![t] = @ \cup {NextId}]
    /\ saved' = [saved EXCEPT ![t] = [ids |-> mem'[t], observed |-> observed[t]]]
    /\ snapshot' = [snapshot EXCEPT ![t] = Recordable(pending \cup {NextId}, turns')]
    /\ cutoff' = [cutoff EXCEPT ![t] = NextId]
    /\ pending' = {}
    /\ Goto(t, "waiting")
    /\ UNCHANGED <<observed, savedPending, anonymous, existing, lock, logVars, crash>>

-----------------------------------------------------------------------------
(* The consolidating task: BaseProvider.add_turn under the lock, _observe *)

LockAcquired(t) ==
    /\ pc[t] = "waiting" /\ lock = Nobody
    /\ lock' = t
    /\ observed' = [observed EXCEPT ![t] = @ \cup UpTo(mem[t], cutoff[t])]
    /\ saved' = [saved EXCEPT ![t] = [ids |-> mem[t], observed |-> observed'[t]]]
    /\ existing' = [existing EXCEPT ![t] = log]
    /\ Goto(t, "observing")
    /\ UNCHANGED <<turns, mem, pendingVars, anonymous, snapshot, cutoff, logVars, crash>>

\* The observer has answered for each thread of the snapshot; it wrote
\* observations for the threads in `parts` and nothing for the others.
Observed(t, parts) == {x \in snapshot[t] : turns[x].thread \in parts}

ObserverEmpty(t) ==
    /\ pc[t] = "observing"
    /\ abandoned' = abandoned \cup snapshot[t]
    /\ existing' = [existing EXCEPT ![t] = {}]
    /\ Goto(t, "notifying")
    /\ UNCHANGED <<turns, memVars, pendingVars, anonymous, snapshot, cutoff,
                   lock, log, history, crash>>

ObserverAppends(t) ==
    /\ pc[t] = "observing"
    /\ \E parts \in SUBSET Threads :
        /\ Observed(t, parts) # {}
        /\ log' = existing[t] \cup Observed(t, parts)
        /\ abandoned' = abandoned \cup (snapshot[t] \ Observed(t, parts))
    /\ existing' = [existing EXCEPT ![t] = {}]
    /\ Goto(t, "notifying")
    /\ UNCHANGED <<turns, memVars, pendingVars, anonymous, snapshot, cutoff,
                   lock, history, crash>>

\* Too long: a full copy goes to log/history before the reflector is asked.
ObserverOverflows(t) ==
    /\ pc[t] = "observing"
    /\ \E parts \in SUBSET Threads :
        LET updated == existing[t] \cup Observed(t, parts) IN
        /\ Observed(t, parts) # {}
        /\ history' = history \cup updated
        /\ existing' = [existing EXCEPT ![t] = updated]
        /\ abandoned' = abandoned \cup (snapshot[t] \ Observed(t, parts))
    /\ Goto(t, "reflecting")
    /\ UNCHANGED <<turns, memVars, pendingVars, anonymous, snapshot, cutoff,
                   lock, log, crash>>

\* The reflector keeps what it likes; its empty answer is replaced by its input.
Reflected(t) ==
    /\ pc[t] = "reflecting"
    /\ \E kept \in SUBSET existing[t] :
        log' = IF kept = {} THEN existing[t] ELSE kept
    /\ existing' = [existing EXCEPT ![t] = {}]
    /\ Goto(t, "notifying")
    /\ UNCHANGED <<turns, memVars, pendingVars, anonymous, snapshot, cutoff,
                   lock, history, abandoned, crash>>

\* _consolidate swallows an Exception of _observe and reports it.
ObserveRaises(t) ==
    /\ pc[t] \in {"observing", "reflecting"}
    /\ abandoned' = abandoned \cup (snapshot[t] \ history)
    /\ existing' = [existing EXCEPT ![t] = {}]
    /\ Goto(t, "notifying")
    /\ UNCHANGED <<turns, memVars, pendingVars, anonymous, snapshot, cutoff,
                   lock, log, history, crash>>

\* Wrong variant: the pending list is cleared after the consolidation.
NotifiedClears(t) ==
    /\ pc[t] = "notifying"
    /\ lock' = Nobody
    /\ pending' = {} /\ savedPending' = {}
    /\ snapshot' = [snapshot EXCEPT ![t] = {}]
    /\ cutoff' = [cutoff EXCEPT ![t] = 0]
    /\ Goto(t, "idle")
    /\ UNCHANGED <<turns, memVars, anonymous, existing, logVars, crash>>

\* The lock is released and whatever is pending now is saved.
Notified(t) ==
    /\ pc[t] = "notifying"
    /\ lock' = Nobody
    /\ savedPending' = pending
    /\ snapshot' = [snapshot EXCEPT ![t] = {}]
    /\ cutoff' = [cutoff EXCEPT ![t] = 0]
    /\ Goto(t, "idle")
    /\ UNCHANGED <<turns, memVars, pending, anonymous, existing, logVars, crash>>

\* Wrong variant: acquire() without `async with`, so a stop leaves the lock taken.
InterruptKeepsLock(t) ==
    /\ pc[t] # "idle"
    /\ abandoned' = IF pc[t] \in Consolidating
                    THEN abandoned \cup (snapshot[t] \ history) ELSE abandoned
    /\ snapshot' = [snapshot EXCEPT ![t] = {}]
    /\ cutoff' = [cutoff EXCEPT ![t] = 0]
    /\ existing' = [existing EXCEPT ![t] = {}]
    /\ Goto(t, "idle")
    /\ UNCHANGED <<turns, memVars, pendingVars, anonymous, lock, log, history, crash>>

\* /stop cancels the turn, the model call fails for good, or the iteration
\* limit ends it: `async with` releases the lock, the snapshot is dropped and
\* the pending list is not saved.
Interrupt(t) ==
    /\ pc[t] # "idle"
    /\ lock' = IF lock = t THEN Nobody ELSE lock
    /\ abandoned' = IF pc[t] \in Consolidating
                    THEN abandoned \cup (snapshot[t] \ history) ELSE abandoned
    /\ snapshot' = [snapshot EXCEPT ![t] = {}]
    /\ cutoff' = [cutoff EXCEPT ![t] = 0]
    /\ existing' = [existing EXCEPT ![t] = {}]
    /\ Goto(t, "idle")
    /\ UNCHANGED <<turns, memVars, pendingVars, anonymous, log, history, crash>>

-----------------------------------------------------------------------------
(* The process dies and is started again: Memory.__init__, BaseProvider.start *)

InFlight == UNION {snapshot[t] : t \in Threads}
Restart ==
    /\ crash = "none"
    /\ mem' = [t \in Threads |-> saved[t].ids]
    /\ observed' = [t \in Threads |-> saved[t].observed]
    /\ pending' = savedPending
    /\ abandoned' = abandoned \cup ((pending \cup InFlight) \ (savedPending \cup history))
    /\ pc' = [t \in Threads |-> "idle"]
    /\ snapshot' = [t \in Threads |-> {}]
    /\ cutoff' = [t \in Threads |-> 0]
    /\ existing' = [t \in Threads |-> {}]
    /\ lock' = Nobody
    /\ UNCHANGED <<turns, saved, savedPending, anonymous, history>>

\* Bound: one crash per behaviour.
CleanCrash == Restart /\ crash' = "clean" /\ log' = log

\* _write_log opens LOG.md for writing in place: a task at that write leaves a
\* part of the text behind.
TornCrash ==
    /\ \E t \in Threads : pc[t] \in {"observing", "reflecting"}
    /\ Restart /\ crash' = "torn"
    /\ log' \in SUBSET log

-----------------------------------------------------------------------------

Consolidate(t) ==
    \/ ObserverEmpty(t) \/ ObserverAppends(t) \/ ObserverOverflows(t)
    \/ Reflected(t) \/ ObserveRaises(t) \/ Notified(t)

Next ==
    \/ \E t \in Threads :
        \/ ToggleAnonymous(t) \/ UserTurn(t) \/ AskModel(t) \/ ToolRound(t)
        \/ AnswerKeepsPending(t) \/ AnswerObserves(t) \/ AnswerWaits(t)
        \/ LockAcquired(t) \/ Consolidate(t) \/ Interrupt(t)
    \/ CleanCrash \/ TornCrash

\* The observer's and the reflector's requests end (the client times out and
\* retries a bounded number of times), and asyncio.Lock wakes its waiters in
\* arrival order.  Nobody is obliged to write to the agent, to stop it or to
\* crash it.
Fairness == \A t \in Threads : WF_vars(Consolidate(t)) /\ SF_vars(LockAcquired(t))

Spec == Init /\ [][Next]_vars /\ Fairness

-----------------------------------------------------------------------------
(* Properties *)

Recorded == log \cup history

\* No turn silently falls out of the pipeline: a turn of a thread that is not
\* anonymous is pending, in the snapshot of a running consolidation, covered by
\* LOG.md or its history, or was given up by one of the failures the model
\* names (an empty observer, an error, a stop, a crash).  A torn LOG.md loses
\* what only it held.
Accounted ==
    crash # "torn" =>
        \A x \in DOMAIN turns :
            turns[x].private \/ x \in pending \cup InFlight \cup Recorded \cup abandoned

\* A turn reaches the observer once: while the process lives, what is pending or
\* being observed is not already recorded, and no two tasks observe the same turn.
ObservedOnce ==
    crash = "none" =>
        /\ pending \cap (Recorded \cup InFlight) = {}
        /\ \A t \in Threads : pc[t] \in Consolidating \ {"reflecting"} => snapshot[t] \cap Recorded = {}
        /\ \A t, u \in Threads : t # u => snapshot[t] \cap snapshot[u] = {}

\* /anonymous promises that the thread "is not written to LOG.md": not to LOG.md,
\* not to its history, and not to the observer's input.
AnonymousNeverRecorded ==
    \A x \in Recorded \cup InFlight : ~turns[x].private

\* What is sent to the model never has a tool reply without its call: neither
\* trimming nor a restart separates the two.
ToolsPaired ==
    \A t \in Threads : \A x \in mem[t] : turns[x].role = "tool" => x - 1 \in mem[t]

\* "Snapshots + the current LOG.md = the whole memory without loss": no step of
\* any thread, however the tasks interleave around the LLM calls, makes the log
\* and its history forget a turn; only a crash in the middle of the write does.
LogKeepsAll == [][crash' # "torn" => Recorded \subseteq Recorded']_vars

\* A task that queues for the directory's lock gets on: no stop, error or empty
\* answer of the holder leaves the lock taken.
WaitersProceed == \A t \in Threads : pc[t] = "waiting" ~> pc[t] # "waiting"

\* The docstring of LogCompressor: what compress leaves out of the history has
\* entered the observations.
ForgottenOnlyIfObserved ==
    [][\A t \in Threads : crash' = crash =>
        \A x \in mem[t] \ mem'[t] : turns[x].private \/ x \in Recorded]_vars

=============================================================================
