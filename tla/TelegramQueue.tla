---------------------------- MODULE TelegramQueue ----------------------------
(***************************************************************************)
(* The outgoing side of one TelegramTransport (transport/telegram.py): the *)
(* streams of a turn are shown as chat messages that are sent and edited   *)
(* through one queue, by a worker that skips edits overtaken by newer ones *)
(* and tries a flooded or failed request once more.                        *)
(***************************************************************************)
EXTENDS Integers, Sequences, FiniteSets, SequencesExt

CONSTANTS
    Streams,     \* stream ids; the updates of one are sent one after the other
    Texts,       \* texts of a chunk
    None,        \* no message
    MaxUpdates,  \* bound: updates of a stream
    MaxBodies,   \* bound: updates of all streams
    MaxErrors    \* bound: requests Telegram refuses, and tasks cancelled

VARIABLES
    queue,      \* _queue
    worker,     \* _queue_task: what it is at
    item,       \* the item it has taken
    lastEdit,   \* _last_edit_texts, by message id
    messages,   \* _stream_messages
    caller,     \* the coroutine of each stream: "idle", "sending", "deleting", "cancelled"
    bodies,     \* the chunks of its last update
    updates,    \* how many updates it had
    broken,     \* the last of them with an item that failed
    chat,       \* what the chat shows: the text of each message
    sent,       \* message ids given by Telegram
    errors

queueVars == <<queue, worker, item>>
streamVars == <<messages, caller, bodies, updates>>
vars == <<queueVars, streamVars, lastEdit, broken, chat, sent, errors>>

Messages == Nat \ {0}
Item == [kind : {"send"}, text : Texts, of : Streams, update : 1..MaxUpdates]
        \cup [kind : {"edit"}, msg : Messages, text : Texts,
              of : Streams, update : 1..MaxUpdates]
Bodies == UNION {[1..n -> Texts] : n \in 1..2}

TypeOK ==
    /\ \A i \in DOMAIN queue : queue[i] \in Item
    /\ worker \in {"none", "ready", "waiting", "flooded", "dead"}
    /\ item \in Item \cup {None}
    /\ DOMAIN lastEdit \subseteq 1..sent /\ DOMAIN chat \subseteq 1..sent
    /\ \A s \in Streams : ToSet(messages[s]) \subseteq 1..sent
    /\ caller \in [Streams -> {"idle", "sending", "deleting", "cancelled"}]
    /\ \A s \in Streams : bodies[s] \in Bodies \cup {<<>>}
    /\ updates \in [Streams -> 0..MaxUpdates] /\ broken \in [Streams -> 0..MaxUpdates]
    /\ sent \in Nat /\ errors \in 0..MaxErrors

Init ==
    /\ queue = <<>> /\ worker = "none" /\ item = None
    /\ lastEdit = <<>>
    /\ messages = [s \in Streams |-> <<>>]
    /\ caller = [s \in Streams |-> "idle"]
    /\ bodies = [s \in Streams |-> <<>>]
    /\ updates = [s \in Streams |-> 0]
    /\ broken = [s \in Streams |-> 0]
    /\ chat = <<>> /\ sent = 0 /\ errors = 0

-----------------------------------------------------------------------------
(* The callers: send_message and send_thinking of a stream *)

\* _ensure_queue: a worker that has died is started again by the next item only.
Running == IF worker \in {"none", "dead"} THEN "ready" ELSE worker

Known(s) == Len(messages[s])

\* _edit: the item is queued, nobody waits for it.
Edits(s, chunks, update) ==
    [i \in 1..(IF Len(chunks) < Known(s) THEN Len(chunks) ELSE Known(s)) |->
        [kind |-> "edit", msg |-> messages[s][i], text |-> chunks[i],
         of |-> s, update |-> update]]

\* _send: the item is queued and its future awaited.
Send(s, text, update) == [kind |-> "send", text |-> text, of |-> s, update |-> update]

\* _answer goes on behind `known` messages of the stream: the next chunk is sent,
\* or the messages that are too many are deleted one by one.
GoesOn(s, chunks, known, items) ==
    IF known < Len(chunks)
    THEN /\ queue' = queue \o items \o <<Send(s, chunks[known + 1], updates'[s])>>
         /\ caller' = [caller EXCEPT ![s] = "sending"]
    ELSE /\ queue' = queue \o items
         /\ caller' = [caller EXCEPT ![s] = IF known > Len(chunks) THEN "deleting" ELSE "idle"]

\* _answer: the messages the stream has are edited, all before the first await.
Update(s) ==
    /\ caller[s] = "idle" /\ updates[s] < MaxUpdates
    /\ FoldSet(LAMBDA r, n : n + updates[r], 0, Streams) < MaxBodies
    /\ updates' = [updates EXCEPT ![s] = @ + 1]
    /\ \E chunks \in Bodies :
        /\ bodies' = [bodies EXCEPT ![s] = chunks]
        /\ GoesOn(s, chunks, Known(s), Edits(s, chunks, updates'[s]))
    /\ worker' = Running
    /\ UNCHANGED <<item, messages, lastEdit, broken, chat, sent, errors>>

\* A message that is too many is deleted past the queue; a refusal is ignored,
\* and the message is forgotten in either case.
DeleteSurplus(s) ==
    /\ caller[s] = "deleting"
    /\ \/ chat' = [m \in DOMAIN chat \ {Last(messages[s])} |-> chat[m]] /\ UNCHANGED errors
       \/ errors < MaxErrors /\ errors' = errors + 1 /\ UNCHANGED chat
    /\ messages' = [messages EXCEPT ![s] = Front(@)]
    /\ caller' = [caller EXCEPT ![s] = IF Known(s) - 1 > Len(bodies[s]) THEN @ ELSE "idle"]
    /\ UNCHANGED <<queueVars, bodies, updates, lastEdit, broken, sent>>

\* The turn is stopped while a send is awaited: its future is cancelled, the item
\* stays in the queue, and the stream is not continued.
Cancel(s) ==
    /\ caller[s] = "sending" /\ errors < MaxErrors
    /\ caller' = [caller EXCEPT ![s] = "cancelled"]
    /\ errors' = errors + 1
    /\ UNCHANGED <<queueVars, messages, bodies, updates, lastEdit, broken, chat, sent>>

-----------------------------------------------------------------------------
(* The worker *)

\* Wrong variant: a newer edit of any message overtakes.
OvertakenByAny(it, rest) ==
    it.kind = "edit" /\ \E i \in DOMAIN rest : rest[i].kind = "edit"

Overtaken(it, rest) ==
    it.kind = "edit" /\ \E i \in DOMAIN rest : rest[i].kind = "edit" /\ rest[i].msg = it.msg

\* An edit of a message that has a newer edit in the queue is dropped.
Take ==
    /\ worker = "ready" /\ queue # <<>>
    /\ queue' = Tail(queue)
    /\ IF Overtaken(Head(queue), Tail(queue))
       THEN UNCHANGED <<worker, item>>
       ELSE worker' = "waiting" /\ item' = Head(queue)
    /\ UNCHANGED <<streamVars, lastEdit, broken, chat, sent, errors>>

\* The worker goes on, and the caller of a send with what it got.
Settled(s, msg) ==
    IF item.kind = "edit"
    THEN worker' = "ready" /\ UNCHANGED <<streamVars, queue>>
    ELSE IF caller[s] = "cancelled"
    THEN \* set_result and set_exception of a cancelled future raise: the worker ends.
         worker' = "dead" /\ UNCHANGED <<streamVars, queue>>
    ELSE IF msg = None
    THEN \* _answer gives up: the chunks behind are not sent.
         /\ worker' = "ready"
         /\ caller' = [caller EXCEPT ![s] = "idle"]
         /\ UNCHANGED <<queue, messages, bodies, updates>>
    ELSE /\ messages' = [messages EXCEPT ![s] = Append(@, msg)]
         /\ UNCHANGED <<bodies, updates>>
         /\ GoesOn(s, bodies[s], Known(s) + 1, <<>>)
         /\ worker' = "ready"

\* _exec_item: an edit to the text the message was last given is not sent.
Shows ==
    IF item.kind = "send"
    THEN /\ sent' = sent + 1
         /\ lastEdit' = Append(lastEdit, item.text)
         /\ chat' = [m \in DOMAIN chat \cup {sent'} |-> IF m = sent' THEN item.text ELSE chat[m]]
         /\ Settled(item.of, sent + 1)
    ELSE /\ \/ lastEdit[item.msg] = item.text /\ UNCHANGED <<lastEdit, chat>>
            \/ /\ lastEdit[item.msg] # item.text
               /\ item.msg \in DOMAIN chat
               /\ lastEdit' = [lastEdit EXCEPT ![item.msg] = item.text]
               /\ chat' = [chat EXCEPT ![item.msg] = item.text]
         /\ UNCHANGED sent
         /\ Settled(item.of, None)

\* It is on the wire only if the text is not the one the message has already.
Requested == item.kind = "edit" => lastEdit[item.msg] # item.text
\* A message that was deleted meanwhile cannot be edited.
Gone == item.kind = "edit" /\ item.msg \notin DOMAIN chat

Executed ==
    /\ worker \in {"waiting", "flooded"} /\ item' = None
    /\ Shows
    /\ UNCHANGED <<broken, errors>>

\* RetryAfter or a server error: the worker sleeps and tries once more.
Flooded ==
    /\ worker = "waiting" /\ Requested /\ errors < MaxErrors
    /\ worker' = "flooded" /\ errors' = errors + 1
    /\ UNCHANGED <<queue, item, streamVars, lastEdit, broken, chat, sent>>

\* Wrong variant: the error is only logged, as that of an edit.
RefusedSilently ==
    /\ worker \in {"waiting", "flooded"} /\ Requested
    /\ \/ Gone /\ UNCHANGED errors
       \/ errors < MaxErrors /\ errors' = errors + 1
    /\ item' = None /\ worker' = "ready"
    /\ broken' = [broken EXCEPT ![item.of] = item.update]
    /\ UNCHANGED <<queue, streamVars, lastEdit, chat, sent>>

\* Another error, or any error of the second try: the item is lost, the future of
\* a send gets the exception.
Refused ==
    /\ worker \in {"waiting", "flooded"} /\ Requested
    /\ \/ Gone /\ UNCHANGED errors
       \/ errors < MaxErrors /\ errors' = errors + 1
    /\ item' = None
    /\ broken' = [broken EXCEPT ![item.of] = item.update]
    /\ Settled(item.of, None)
    /\ UNCHANGED <<lastEdit, chat, sent>>

Finish == Executed \/ Refused

-----------------------------------------------------------------------------

Next ==
    \/ \E s \in Streams : Update(s) \/ DeleteSurplus(s) \/ Cancel(s)
    \/ Take \/ Flooded \/ Finish

\* The event loop runs the worker and the callers; every request is answered.
Fairness == WF_vars(Take) /\ WF_vars(Finish)

Spec == Init /\ [][Next]_vars /\ Fairness

-----------------------------------------------------------------------------
(* Properties *)

\* Whoever awaits a send gets a message or an error, however often requests are
\* refused: unless the worker died of a send whose caller had been cancelled,
\* which leaves the items behind it to the next one that queues something.
SendsSettle ==
    \A s \in Streams : caller[s] = "sending" ~> caller[s] # "sending" \/ worker = "dead"

\* When the queue is worked off, the messages of a stream show the chunks of its
\* last update: coalescing and the memory of last texts have dropped nothing but
\* what was out of date. An update with an item that Telegram refused, or that
\* was cancelled, is excepted; the next one puts it right.
FinalText ==
    queue = <<>> /\ item = None =>
        \A s \in Streams : caller[s] = "idle" /\ broken[s] < updates[s] =>
            /\ Known(s) = Len(bodies[s])
            /\ \A i \in 1..Known(s) :
                messages[s][i] \in DOMAIN chat /\ chat[messages[s][i]] = bodies[s][i]

=============================================================================
