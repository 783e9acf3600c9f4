------------------------------- MODULE WebFork -------------------------------
(***************************************************************************)
(* The events of a web fork and the pages that show them                   *)
(* (transport/web/fork.py, its Chat dialogs and the dashboard's app.js):   *)
(* an event is buffered, written to the history and sent to each client    *)
(* in turn; a page first loads the history, and after every connect asks   *)
(* for what it has not seen.                                               *)
(***************************************************************************)
EXTENDS Integers, Sequences, FiniteSets, SequencesExt, FiniteSetsExt

CONSTANTS
    Clients,      \* pages, numbered in the order the set of sockets is iterated in
    BufferMax,    \* maxlen of replay_transport
    MaxEvents,    \* bound: events
    MaxCuts       \* bound: lost connections, reloads and restarts of the server

VARIABLES
    events,       \* the kind of every event so far; its id is its place
    buffer,       \* replay_transport and replay_other
    history,      \* WEB.json
    sends,        \* send(): the event and the clients it is still to be sent to
    online,       \* the clients whose socket is in `clients`
    wire,         \* what is on its way to each client
    asked,        \* the last_seen_id of a replay request on its way, NoRequest if there is none
    lastSeen,     \* _lastSeenId of the app
    fetch,        \* /api/history: "asked", its answer, or "done"
    ready,        \* the dialog has its history
    dialogSeen,   \* _lastSeenId of the dialog
    held,         \* _pending of the dialog
    shown,        \* the events the dialog has reduced into its messages
    cuts

serverVars == <<events, buffer, history, sends>>
dialogVars == <<ready, dialogSeen, held, shown>>
vars == <<serverVars, online, wire, asked, lastSeen, fetch, dialogVars, cuts>>

NoRequest == -2
\* Of the transport: the end of a stream or a message; a partial one.  A line of the
\* log; a command for the client that wrote last.
EventKinds == {"final", "partial", "log", "targeted"}
Ids == 1..MaxEvents

\* The elements of s at the places K, in their order.
Nth(K, n) == CHOOSE k \in K : Cardinality({j \in K : j <= k}) = n
At(s, K) == [n \in 1..Cardinality(K) |-> s[Nth(K, n)]]

Increasing(s) == \A i, j \in DOMAIN s : i < j => s[i] < s[j]

TypeOK ==
    /\ \A i \in DOMAIN events : events[i] \in EventKinds
    /\ ToSet(history) \subseteq Ids /\ ToSet(buffer) \subseteq Ids
    /\ \A s \in sends : s.id \in Ids /\ s.to \in (SUBSET Clients) \ {{}}
    /\ online \subseteq Clients
    /\ \A c \in Clients :
        /\ asked[c] \in {NoRequest, -1} \cup Ids /\ lastSeen[c] \in {-1} \cup Ids
        /\ fetch[c].at \in {"asked", "answered", "done"}
        /\ ready[c] \in BOOLEAN /\ dialogSeen[c] \in {-1} \cup Ids
        /\ ToSet(held[c]) \subseteq Ids /\ ToSet(shown[c]) \subseteq Ids
    /\ cuts \in 0..MaxCuts

Asked == [at |-> "asked", answer |-> <<>>]

Init ==
    /\ events = <<>> /\ buffer = <<>> /\ history = <<>> /\ sends = {}
    /\ online = {} /\ wire = [c \in Clients |-> <<>>]
    /\ asked = [c \in Clients |-> NoRequest] /\ lastSeen = [c \in Clients |-> -1]
    /\ fetch = [c \in Clients |-> Asked]
    /\ ready = [c \in Clients |-> FALSE] /\ dialogSeen = [c \in Clients |-> -1]
    /\ held = [c \in Clients |-> <<>>] /\ shown = [c \in Clients |-> <<>>]
    /\ cuts = 0

-----------------------------------------------------------------------------
(* The server *)

NextId == Len(events) + 1
OfTransport(i, kinds) == kinds[i] \in {"final", "partial"}

\* The deque of the kind drops its oldest event when it is full.
Buffered(kinds) ==
    LET all == Append(buffer, NextId)
        same == {k \in DOMAIN all : OfTransport(all[k], kinds) = OfTransport(NextId, kinds)}
    IN IF Cardinality(same) <= BufferMax THEN all ELSE At(all, DOMAIN all \ {Nth(same, 1)})

\* send: partial events are neither buffered nor written to the history, events that
\* are not of the transport only buffered.
Send ==
    /\ NextId <= MaxEvents
    /\ \E kind \in {"final", "partial", "log"} :
        /\ events' = Append(events, kind)
        /\ buffer' = IF kind = "partial" THEN buffer ELSE Buffered(events')
        /\ history' = IF kind = "final" THEN Append(history, NextId) ELSE history
    /\ sends' = sends \cup (IF online = {} THEN {} ELSE {[id |-> NextId, to |-> online]})
    /\ UNCHANGED <<online, wire, asked, lastSeen, fetch, dialogVars, cuts>>

\* The next socket of a send gets the event; sends that wait for the same socket
\* get to it in their order.
Deliver(s) ==
    LET c == Min(s.to) IN
    /\ \A t \in sends : t.id < s.id => c \notin t.to
    /\ wire' = [wire EXCEPT ![c] = Append(@, <<"event", s.id>>)]
    /\ sends' = (sends \ {s}) \cup (IF s.to = {c} THEN {} ELSE {[s EXCEPT !.to = @ \ {c}]})
    /\ UNCHANGED <<events, buffer, history, online, asked, lastSeen, fetch, dialogVars, cuts>>

\* send_targeted: the id is one of the same sequence, the event is not kept, and it
\* does not wait for the sends under way.
SendTargeted(c) ==
    /\ NextId <= MaxEvents /\ c \in online
    /\ events' = Append(events, "targeted")
    /\ wire' = [wire EXCEPT ![c] = Append(@, <<"event", NextId>>)]
    /\ UNCHANGED <<buffer, history, sends, online, asked, lastSeen, fetch, dialogVars, cuts>>

\* ws_handle_message, of a replay request: the two buffers, merged by id.
AnswerReplay(c) ==
    /\ asked[c] # NoRequest
    /\ asked' = [asked EXCEPT ![c] = NoRequest]
    /\ LET missed == At(buffer, {k \in DOMAIN buffer : buffer[k] > asked[c]})
       IN wire' = IF missed = <<>> THEN wire
                  ELSE [wire EXCEPT ![c] = Append(@, <<"replay", missed>>)]
    /\ UNCHANGED <<serverVars, online, lastSeen, fetch, dialogVars, cuts>>

\* _api_history
AnswerHistory(c) ==
    /\ fetch[c] = Asked
    /\ fetch' = [fetch EXCEPT ![c] = [at |-> "answered", answer |-> history]]
    /\ UNCHANGED <<serverVars, online, wire, asked, lastSeen, dialogVars, cuts>>

-----------------------------------------------------------------------------
(* The page *)

\* _connect: the socket is in `clients` at once, the request still on its way.
Connect(c) ==
    /\ c \notin online
    /\ online' = online \cup {c}
    /\ asked' = [asked EXCEPT ![c] = lastSeen[c]]
    /\ UNCHANGED <<serverVars, wire, lastSeen, fetch, dialogVars, cuts>>

\* handleEvent of the dialog, for one event after the other: what is not newer than
\* the newest, of the dialog or of the events before it, is taken to be there already.
Reduced(d, ids) ==
    LET new == {k \in DOMAIN ids : ids[k] > d.seen /\ \A j \in 1..(k - 1) : ids[j] < ids[k]}
    IN [seen |-> Max(ToSet(ids) \cup {d.seen}), shown |-> d.shown \o At(ids, new)]

\* ws.onmessage: an event, or those of a replay; the dialog gets the transport's.
Receive(c) ==
    /\ wire[c] # <<>>
    /\ wire' = [wire EXCEPT ![c] = Tail(@)]
    /\ LET msg == Head(wire[c])
           ids == IF msg[1] = "event" THEN <<msg[2]>> ELSE msg[2]
           mine == At(ids, {k \in DOMAIN ids : OfTransport(ids[k], events)})
           new == Reduced([seen |-> dialogSeen[c], shown |-> shown[c]], mine)
       IN /\ lastSeen' = [lastSeen EXCEPT ![c] = Max(ToSet(ids) \cup {@})]
          /\ IF ready[c]
             THEN /\ dialogSeen' = [dialogSeen EXCEPT ![c] = new.seen]
                  /\ shown' = [shown EXCEPT ![c] = new.shown]
                  /\ UNCHANGED held
             ELSE /\ held' = [held EXCEPT ![c] = @ \o mine]
                  /\ UNCHANGED <<dialogSeen, shown>>
    /\ UNCHANGED <<serverVars, online, asked, fetch, ready, cuts>>

\* Wrong variant: the newest id of the history is not remembered.
FetchedUnseen(answer) == [seen |-> -1, shown |-> answer]

Fetched(answer) == [seen |-> Max(ToSet(answer) \cup {-1}), shown |-> answer]

\* _fetchHistory: the history is shown, then what was held back meanwhile.
Load(c) ==
    /\ fetch[c].at = "answered"
    /\ fetch' = [fetch EXCEPT ![c] = [at |-> "done", answer |-> <<>>]]
    /\ ready' = [ready EXCEPT ![c] = TRUE]
    /\ LET new == Reduced(Fetched(fetch[c].answer), held[c])
       IN /\ dialogSeen' = [dialogSeen EXCEPT ![c] = new.seen]
          /\ shown' = [shown EXCEPT ![c] = new.shown]
    /\ held' = [held EXCEPT ![c] = <<>>]
    /\ UNCHANGED <<serverVars, online, wire, asked, lastSeen, cuts>>

-----------------------------------------------------------------------------
(* Faults *)

Gone(cs) ==
    /\ online' = online \ cs
    /\ wire' = [c \in Clients |-> IF c \in cs THEN <<>> ELSE wire[c]]
    /\ asked' = [c \in Clients |-> IF c \in cs THEN NoRequest ELSE asked[c]]
    /\ cuts < MaxCuts /\ cuts' = cuts + 1

\* Wrong variant: a send whose last client is gone goes on waiting.
StillToNobody(s, cs) == {[s EXCEPT !.to = @ \ cs]}

StillTo(s, cs) == IF s.to \subseteq cs THEN {} ELSE {[s EXCEPT !.to = @ \ cs]}

\* The connection breaks: what was on its way, or still to be sent, is lost.
Cut(c) ==
    /\ c \in online /\ Gone({c})
    /\ sends' = UNION {StillTo(s, {c}) : s \in sends}
    /\ UNCHANGED <<events, buffer, history, lastSeen, fetch, dialogVars>>

\* The page is loaded again.
Reload(c) ==
    /\ ready[c] /\ Gone({c})
    /\ sends' = UNION {StillTo(s, {c}) : s \in sends}
    /\ lastSeen' = [lastSeen EXCEPT ![c] = -1] /\ fetch' = [fetch EXCEPT ![c] = Asked]
    /\ ready' = [ready EXCEPT ![c] = FALSE] /\ dialogSeen' = [dialogSeen EXCEPT ![c] = -1]
    /\ held' = [held EXCEPT ![c] = <<>>] /\ shown' = [shown EXCEPT ![c] = <<>>]
    /\ UNCHANGED <<events, buffer, history>>

\* The server starts again: the buffers are empty, new ids are above the old ones.
Restart ==
    /\ Gone(Clients)
    /\ buffer' = <<>> /\ sends' = {}
    /\ UNCHANGED <<events, history, lastSeen, fetch, dialogVars>>

-----------------------------------------------------------------------------

Next ==
    \/ Send \/ \E s \in sends : Deliver(s)
    \/ \E c \in Clients :
        \/ SendTargeted(c) \/ AnswerReplay(c) \/ AnswerHistory(c)
        \/ Connect(c) \/ Receive(c) \/ Load(c)
        \/ Cut(c) \/ Reload(c)
    \/ Restart

Spec == Init /\ [][Next]_vars

-----------------------------------------------------------------------------

\* A page shows no event twice and none out of order, whatever history, replays,
\* live events and events held back overlap.
ShownOnce == \A c \in Clients : Increasing(shown[c])

\* "Replay-буферы — для catch-up на ws-реконнекте" (fork.py:55): when the replay is
\* answered and nothing is on its way, the page shows every final event of the buffer.
CaughtUp ==
    \A c \in online : ready[c] /\ asked[c] = NoRequest /\ wire[c] = <<>> /\ sends = {} =>
        \A i \in ToSet(buffer) : events[i] = "final" => i \in ToSet(shown[c])
=============================================================================
