---------------------------- MODULE TelegramInbox ----------------------------
(***************************************************************************)
(* The incoming side of one TelegramTransport (transport/telegram.py):     *)
(* messages that arrive within a tenth of a second are handled as one      *)
(* batch; its files are fetched and described before the agent gets it, so *)
(* that several batches are handled at a time.                             *)
(***************************************************************************)
EXTENDS Integers, Sequences, FiniteSets, SequencesExt

CONSTANTS
    Kinds,       \* of a message: \subseteq {"text", "photo", "voice", "service"}
    MaxMessages, \* bound: messages that arrive
    MaxFailures  \* bound: downloads, transcriptions and calls that fail

VARIABLES
    arrived,     \* the kinds of the messages, in the order of their arrival
    pending,     \* _pending_messages
    flushTask,   \* _flush_task: whether it is there and sleeps, and the batch it handles
    handling,    \* the batches being handled, each with what is left to look at
    given,       \* the batches the agent got by process_message
    dropped,     \* batches that ended without: nothing in them, or an error
    failures,
    closed

vars == <<arrived, pending, flushTask, handling, given, dropped, failures, closed>>

Count == Len(arrived)
Batch == {b \in UNION {[1..n -> 1..MaxMessages] : n \in 1..MaxMessages} :
            \A i \in DOMAIN b, j \in DOMAIN b : i < j => b[i] < b[j]}
NoTask == [at |-> "none", batch |-> <<>>]
Handled == [batch : Batch, left : 0..MaxMessages]

TypeOK ==
    /\ \A i \in DOMAIN arrived : arrived[i] \in Kinds
    /\ pending \in Batch \cup {<<>>}
    /\ flushTask \in [at : {"none", "sleeping", "handling"}, batch : Batch \cup {<<>>}]
    /\ handling \subseteq Handled
    /\ ToSet(given) \subseteq Batch
    /\ dropped \subseteq Batch
    /\ failures \in 0..MaxFailures /\ closed \in BOOLEAN

Init ==
    /\ arrived = <<>> /\ pending = <<>> /\ flushTask = NoTask
    /\ handling = {} /\ given = <<>> /\ dropped = {}
    /\ failures = 0 /\ closed = FALSE

-----------------------------------------------------------------------------

\* What a cancelled task was handling is not handled any further.
Without(task) == {h \in handling : h.batch # task.batch}

\* handle_message: the task that still sleeps is replaced by one that sleeps anew.
HandleMessage ==
    /\ ~closed /\ Count < MaxMessages
    /\ \E kind \in Kinds : arrived' = Append(arrived, kind)
    /\ pending' = Append(pending, Count + 1)
    /\ handling' = Without(flushTask)
    /\ flushTask' = [at |-> "sleeping", batch |-> <<>>]
    /\ UNCHANGED <<given, dropped, failures, closed>>

\* Wrong variant: the task is forgotten only when it has handled the batch.
FlushHolds ==
    /\ flushTask.at = "sleeping"
    /\ handling' = handling \cup {[batch |-> pending, left |-> Len(pending)]}
    /\ pending' = <<>>
    /\ flushTask' = [at |-> "handling", batch |-> pending]
    /\ UNCHANGED <<arrived, given, dropped, failures, closed>>

\* flush: the batch is taken and the task forgotten before the first await of the
\* handling, so that the next message does not cancel it.
Flush ==
    /\ flushTask.at = "sleeping"
    /\ handling' = handling \cup {[batch |-> pending, left |-> Len(pending)]}
    /\ pending' = <<>>
    /\ flushTask' = NoTask
    /\ UNCHANGED <<arrived, given, dropped, failures, closed>>

Current(h) == arrived[h.batch[Len(h.batch) - h.left + 1]]

\* _handle_messages looks at the next message; the failure to transcribe or to
\* describe leaves a part without content.
Describe(h) ==
    /\ h.left > 0
    /\ \/ UNCHANGED failures
       \/ Current(h) = "voice" /\ failures < MaxFailures /\ failures' = failures + 1
    /\ handling' = (handling \ {h}) \cup {[h EXCEPT !.left = @ - 1]}
    /\ UNCHANGED <<arrived, pending, flushTask, given, dropped, closed>>

\* A photo is fetched without a handler, and in a group the members are counted
\* first: the error of either ends the task, and with it the batch.
Raise(h) ==
    /\ h.left > 0 /\ failures < MaxFailures
    /\ Current(h) = "photo" \/ h.left = Len(h.batch)
    /\ handling' = handling \ {h}
    /\ dropped' = dropped \cup {h.batch}
    /\ failures' = failures + 1
    /\ UNCHANGED <<arrived, pending, flushTask, given, closed>>

\* The parts go to the agent as one message; a batch without any goes nowhere.
Process(h) ==
    /\ h.left = 0
    /\ handling' = handling \ {h}
    /\ IF \A i \in DOMAIN h.batch : arrived[h.batch[i]] = "service"
       THEN dropped' = dropped \cup {h.batch} /\ UNCHANGED given
       ELSE given' = Append(given, h.batch) /\ UNCHANGED dropped
    /\ UNCHANGED <<arrived, pending, flushTask, failures, closed>>

\* close cancels the task; messages that wait for it are not handled.
Close ==
    /\ ~closed /\ closed' = TRUE
    /\ handling' = Without(flushTask)
    /\ flushTask' = NoTask
    /\ UNCHANGED <<arrived, pending, given, dropped, failures>>

HandleMessages == \E h \in handling : Describe(h) \/ Raise(h) \/ Process(h)

Next == HandleMessage \/ Flush \/ HandleMessages \/ Close

Spec == Init /\ [][Next]_vars

-----------------------------------------------------------------------------

\* How often the message is somewhere on its way.
Places(m) ==
    Cardinality({i \in DOMAIN pending : pending[i] = m})
    + Cardinality({h \in handling : m \in ToSet(h.batch)})
    + Cardinality({i \in DOMAIN given : m \in ToSet(given[i])})
    + Cardinality({b \in dropped : m \in ToSet(b)})

\* However messages arrive between the awaits of the handling of others, each is
\* in one place: no flush loses the messages of a batch or hands them over twice.
IncomingOnce == \A m \in 1..Count : Places(m) = 1
=============================================================================
