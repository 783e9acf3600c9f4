---------------------------- MODULE ClaudeSession ----------------------------
(***************************************************************************)
(* The Claude backend (agent/backends/claude.py): llm() drives a Claude    *)
(* Code process, whose session file it first compares with the memory of   *)
(* the thread.  The process and its file are external.                     *)
(***************************************************************************)
EXTENDS Naturals, Sequences, FiniteSets

CONSTANTS
    PruneAbove,    \* stale entries the session may hold (20 in the code)
    MaxUsers,      \* bound: user turns
    MaxMishaps     \* bound: stops, errors, deaths, restarts, lost files

VARIABLES
    mem,        \* the turns of the memory
    created,    \* `created` of CLAUDE.json
    client,     \* _client: "none", "live", or "dead" when its process is gone
    session,    \* the session file: present, the uuids of its entries
    cli,        \* the process: the query it runs and how far it is
    inbox,      \* queries it has not taken yet
    stream,     \* messages receive_response has not read yet
    phase,      \* the await llm() is at
    turns,      \* `turns` of llm()
    query,      \* the last query written
    heard,      \* for every user turn the query that carried it, 0: none
    pruned,     \* entries the synchronisation has removed
    alarm,      \* the last synchronisation reported a desync
    lost,       \* the session file has been lost
    unread,     \* the live process has messages of a query nobody waits for
    mixed,      \* that has ever been so
    users, mishaps   \* counts

memoryVars == <<mem, heard, users>>
cliVars == <<session, cli, inbox, stream>>
flagVars == <<pruned, alarm, lost, unread, mixed>>
claudeVars == <<memoryVars, cliVars, flagVars, created, client, phase, turns, query, mishaps>>

\* The entries of a query: its user message, two parallel calls, their results and
\* the answer.  Their uuids are numbers, ordered like the code's strings.
UserEntry(n) == 10 * n
CallEntry(n, i) == 10 * n + i
ReplyEntry(n, i) == 10 * n + 4 + i
TextEntry(n) == 10 * n + 9
QueryOf(uuid) == uuid \div 10
IsCall(uuid) == uuid % 10 \in {1, 2}
IsReply(uuid) == uuid % 10 \in {5, 6}
CallOf(uuid) == uuid - 4

NoUuid == 0
Turn(kind, uuid, id) == [kind |-> kind, uuid |-> uuid, id |-> id]
Result(ok) == IF ok THEN 1 ELSE 2   \* messages that are no entries
IsResult(msg) == msg < 10

Kinds == {"user", "text", "call", "reply", "note"}
TypeOK ==
    /\ \A t \in {mem[i] : i \in DOMAIN mem} \cup {turns[i] : i \in DOMAIN turns} :
        t \in [kind : Kinds, uuid : Nat, id : Nat]
    /\ created \in BOOLEAN /\ client \in {"none", "live", "dead"}
    /\ session.present \in BOOLEAN /\ session.entries \in Seq(Nat)
    /\ cli \in [n : Nat, stage : {"idle", "asked", "called", "replied"}]
    /\ inbox \in Seq(Nat) /\ stream \in Seq(Nat)
    /\ phase \in {"idle", "syncing", "preparing", "asking", "streaming", "finishing", "draining"}
    /\ heard \in [1..MaxUsers -> 0..query] /\ query \in Nat /\ pruned \subseteq Nat
    /\ users \in 0..MaxUsers /\ mishaps \in 0..MaxMishaps

Init ==
    /\ mem = <<>> /\ turns = <<>> /\ heard = [u \in 1..MaxUsers |-> 0] /\ users = 0
    /\ created = FALSE /\ client = "none" /\ session = [present |-> FALSE, entries |-> <<>>]
    /\ cli = [n |-> 0, stage |-> "idle"] /\ inbox = <<>> /\ stream = <<>>
    /\ phase = "idle" /\ query = 0 /\ pruned = {}
    /\ alarm = FALSE /\ lost = FALSE /\ unread = FALSE /\ mixed = FALSE
    /\ mishaps = 0

-----------------------------------------------------------------------------
(* Helpers *)

Elements(s) == {s[i] : i \in DOMAIN s}
From(s, i) == SubSeq(s, i, Len(s))
Rank(S, x) == Cardinality({y \in S : y < x})
Mishap == mishaps < MaxMishaps /\ mishaps' = mishaps + 1

\* Messages may now be read by a call they do not belong to.
LeavesUnread == unread' = TRUE /\ mixed' = TRUE
NothingUnread == UNCHANGED <<unread, mixed>>

\* The process ends, with what it has not written to its file.
CliGone == cli' = [n |-> 0, stage |-> "idle"] /\ inbox' = <<>> /\ stream' = <<>>

\* Wrong variant: a call that ends leaves its stage to be cleaned up by nobody.
LlmParks == phase' = "raised" /\ turns' = <<>>

\* llm() is left; turns it has not returned are dropped.
LlmEnds == phase' = "idle" /\ turns' = <<>>

-----------------------------------------------------------------------------
(* _sync_claude_session *)

\* The elements of s at the places K, in their order.
At(s, K) == [n \in 1..Cardinality(K) |-> s[CHOOSE k \in K : Rank(K, k) = n - 1]]

OurUuids == {t.uuid : t \in Elements(mem)} \ {NoUuid}
OurPlaces == {i \in DOMAIN mem : mem[i].uuid # NoUuid /\ mem[i].uuid \in Elements(session.entries)}
OurSynced == At([i \in DOMAIN mem |-> mem[i].uuid], OurPlaces)
ClaudeSynced == At(session.entries, {i \in DOMAIN session.entries : session.entries[i] \in OurUuids})

\* Wrong variant: the order of parallel results counts.
FileOrder(uuids) == uuids

\* _canon_order: the results of every run of results are sorted.
CanonOrder(uuids) ==
    LET Run(i) == {j \in DOMAIN uuids :
                    \A k \in DOMAIN uuids : (i <= k /\ k <= j) \/ (j <= k /\ k <= i) => IsReply(uuids[k])}
    IN  [i \in DOMAIN uuids |->
            IF IsReply(uuids[i])
            THEN CHOOSE u \in {uuids[j] : j \in Run(i)} :
                    Rank({uuids[j] : j \in Run(i)}, u) = Rank(Run(i), i)
            ELSE uuids[i]]

Desync ==
    /\ OurUuids # {}
    /\ \/ ~session.present
       \/ OurSynced = <<>>
       \/ CanonOrder(OurSynced) # CanonOrder(ClaudeSynced)

FirstMatch == CHOOSE i \in DOMAIN session.entries :
    /\ session.entries[i] \in OurUuids
    /\ \A j \in 1..(i - 1) : session.entries[j] \notin OurUuids

\* What stands before the first entry the memory knows.
Stale == IF OurUuids = {} \/ Desync THEN <<>> ELSE SubSeq(session.entries, 1, FirstMatch - 1)

Sync ==
    /\ phase = "syncing"
    /\ phase' = "preparing"
    /\ IF created /\ Len(Stale) > PruneAbove
       THEN /\ session' = [session EXCEPT !.entries = From(@, FirstMatch)]
            /\ pruned' = pruned \cup Elements(Stale)
            /\ client' = "none" /\ CliGone /\ unread' = FALSE
       ELSE UNCHANGED <<cliVars, pruned, client, unread>>
    /\ alarm' = (created /\ Desync)
    /\ UNCHANGED <<memoryVars, created, turns, query, lost, mixed, mishaps>>

-----------------------------------------------------------------------------
(* The client *)

\* The prompt and the tools are those of the live client.
Reuse ==
    /\ phase = "preparing" /\ client # "none"
    /\ phase' = "asking"
    /\ UNCHANGED <<memoryVars, cliVars, flagVars, created, client, turns, query, mishaps>>

\* Or they have changed, or there is none: a session that exists is resumed; where
\* that fails a fresh one is made under the same id.
Connect ==
    /\ phase = "preparing"
    /\ phase' = "asking"
    /\ client' = "live" /\ created' = TRUE /\ CliGone /\ unread' = FALSE
    /\ UNCHANGED <<memoryVars, session, pruned, alarm, lost, mixed, turns, query, mishaps>>

ConnectFails ==
    /\ phase = "preparing" /\ Mishap
    /\ client' = "none" /\ CliGone /\ unread' = FALSE
    /\ LlmEnds
    /\ UNCHANGED <<memoryVars, session, pruned, alarm, lost, mixed, created, query>>

-----------------------------------------------------------------------------
(* The query *)

\* What get_contents may leave of the memory: a suffix, without results at its head.
\* It keeps the user turn at the end, without which llm() has nothing to send.
Contents == {From(mem, i) : i \in {j \in DOMAIN mem : mem[j].kind # "reply"}}

\* Wrong variant: only the last user turn.
PendingLast(turnsNow) == {turnsNow[Len(turnsNow)].id}

\* The user turns at the end of the memory.
Pending(turnsNow) ==
    {turnsNow[i].id : i \in {j \in DOMAIN turnsNow :
        \A k \in j..Len(turnsNow) : turnsNow[k].kind = "user"}}

\* `query` writes the message for the process.
Writes ==
    /\ query' = query + 1 /\ inbox' = Append(inbox, query')
    /\ \E kept \in Contents :
        /\ mem' = kept
        /\ heard' = [u \in DOMAIN heard |-> IF u \in Pending(kept) THEN query' ELSE heard[u]]

Ask ==
    /\ phase = "asking" /\ client = "live"
    /\ Writes
    /\ phase' = "streaming" /\ turns' = <<>>
    /\ UNCHANGED <<users, session, cli, stream, flagVars, created, client, mishaps>>

\* The process is gone: `query` raises, and `_client` stays.
AskFails ==
    /\ phase = "asking" /\ client = "dead"
    /\ mem' \in Contents
    /\ LlmEnds
    /\ UNCHANGED <<heard, users, cliVars, flagVars, created, client, query, mishaps>>

-----------------------------------------------------------------------------
(* The stream *)

Message == Head(stream)
TurnOf(msg) ==
    IF IsCall(msg) THEN Turn("call", msg, msg)
    ELSE IF IsReply(msg) THEN Turn("reply", msg, CallOf(msg))
    ELSE Turn("text", msg, 0)

Read ==
    /\ phase = "streaming" /\ stream # <<>>
    /\ stream' = Tail(stream)
    /\ IF IsResult(Message)
       THEN IF Message = Result(TRUE) THEN phase' = "finishing" /\ UNCHANGED turns ELSE LlmEnds
       ELSE turns' = Append(turns, TurnOf(Message)) /\ UNCHANGED phase
    /\ UNCHANGED <<memoryVars, session, cli, inbox, flagVars, created, client, query, mishaps>>

\* The transport raises out of the loop: nobody reads what is still to come.
ReadRaises ==
    /\ phase = "streaming" /\ Mishap
    /\ \/ /\ stream # <<>> /\ stream' = Tail(stream)
          /\ IF IsResult(Message) THEN NothingUnread ELSE LeavesUnread
       \/ cli.stage # "idle" /\ UNCHANGED stream /\ LeavesUnread
    /\ LlmEnds
    /\ UNCHANGED <<memoryVars, session, cli, inbox, pruned, alarm, lost, created, client, query>>

StreamBreaks ==
    /\ phase = "streaming" /\ client = "dead"
    /\ LlmEnds
    /\ UNCHANGED <<memoryVars, cliVars, flagVars, created, client, query, mishaps>>

Finish ==
    /\ phase = "finishing"
    /\ mem' = mem \o turns
    /\ LlmEnds
    /\ UNCHANGED <<heard, users, cliVars, flagVars, created, client, query, mishaps>>

-----------------------------------------------------------------------------
(* A stop *)

\* Before the query: nothing is added, though get_contents may have trimmed.
StopEarly ==
    /\ phase \in {"syncing", "preparing", "asking"} /\ Mishap
    /\ mem' \in IF phase = "asking" THEN Contents ELSE {mem}
    /\ LlmEnds
    /\ UNCHANGED <<heard, users, cliVars, flagVars, created, client, query>>

\* In connect(): the client that is left has no prompt yet and will be replaced.
StopConnecting ==
    /\ phase = "preparing" /\ Mishap
    /\ client' = "none" /\ CliGone /\ unread' = FALSE
    /\ LlmEnds
    /\ UNCHANGED <<memoryVars, session, pruned, alarm, lost, mixed, created, query>>

\* In query(), when the message is already written: this await is outside the try.
StopAsking ==
    /\ phase = "asking" /\ client = "live" /\ Mishap
    /\ Writes
    /\ LlmEnds /\ LeavesUnread
    /\ UNCHANGED <<users, session, cli, stream, pruned, alarm, lost, created, client>>

StopStreaming ==
    /\ phase \in {"streaming", "finishing"} /\ Mishap
    /\ phase' = "draining"
    /\ UNCHANGED <<memoryVars, cliVars, flagVars, created, client, turns, query>>

\* Wrong variant: the calls that have no result yet stay so.
UnpairedLeft == <<>>

\* A result for every call that has none, in the order of the calls.
Unanswered == {i \in DOMAIN turns : turns[i].kind = "call"
                    /\ \A r \in Elements(turns) : r.kind = "reply" => r.id # turns[i].id}
Unpaired ==
    [k \in 1..Cardinality(Unanswered) |->
        LET i == CHOOSE i \in Unanswered : Rank(Unanswered, i) = k - 1
        IN  Turn("reply", NoUuid, turns[i].id)]

ReturnsPartial ==
    /\ mem' = mem \o turns \o Unpaired \o <<Turn("note", NoUuid, 0)>>
    /\ LlmEnds
    /\ UNCHANGED <<heard, users, session, cli, inbox, pruned, alarm, lost, created, client, query>>

ResultWaits == \E i \in DOMAIN stream : IsResult(stream[i])
FirstResult == CHOOSE i \in DOMAIN stream :
    IsResult(stream[i]) /\ \A j \in 1..(i - 1) : ~IsResult(stream[j])

\* Wrong variant: what the interrupted query leaves is not read.
DrainedNot ==
    /\ phase = "draining" /\ ResultWaits
    /\ ReturnsPartial
    /\ UNCHANGED stream /\ NothingUnread /\ UNCHANGED mishaps

Drained ==
    /\ phase = "draining" /\ ResultWaits
    /\ stream' = From(stream, FirstResult + 1)
    /\ ReturnsPartial
    /\ NothingUnread /\ UNCHANGED mishaps

\* After 10 seconds; nothing is to come when the process is idle or gone.
DrainTimesOut ==
    /\ phase = "draining" /\ ~ResultWaits
    /\ stream' = <<>>
    /\ ReturnsPartial
    /\ IF cli.stage = "idle" /\ inbox = <<>> THEN NothingUnread ELSE LeavesUnread
    /\ UNCHANGED mishaps

-----------------------------------------------------------------------------
(* The process *)

Writing(entries, messages) ==
    /\ session' = [present |-> TRUE, entries |-> session.entries \o entries]
    /\ stream' = stream \o messages
    /\ UNCHANGED <<memoryVars, inbox, flagVars, created, client, phase, turns, query>>

CliTakes ==
    /\ client = "live" /\ cli.stage = "idle" /\ inbox # <<>>
    /\ cli' = [n |-> Head(inbox), stage |-> "asked"] /\ inbox' = Tail(inbox)
    /\ session' = [present |-> TRUE, entries |-> Append(session.entries, UserEntry(Head(inbox)))]
    /\ UNCHANGED <<memoryVars, stream, flagVars, created, client, phase, turns, query, mishaps>>

CliCalls ==
    /\ cli.stage = "asked" /\ cli' = [cli EXCEPT !.stage = "called"]
    /\ LET calls == <<CallEntry(cli.n, 1), CallEntry(cli.n, 2)>> IN Writing(calls, calls)
    /\ UNCHANGED mishaps

\* Parallel results are streamed in one order and written in another.
CliReplies ==
    /\ cli.stage = "called" /\ cli' = [cli EXCEPT !.stage = "replied"]
    /\ LET a == ReplyEntry(cli.n, 1) b == ReplyEntry(cli.n, 2) IN
        \E written, sent \in {<<a, b>>, <<b, a>>} : Writing(written, sent)
    /\ UNCHANGED mishaps

CliAnswers ==
    /\ cli.stage \in {"asked", "replied"} /\ cli' = [cli EXCEPT !.stage = "idle"]
    /\ Writing(<<TextEntry(cli.n)>>, <<TextEntry(cli.n), Result(TRUE)>>)
    /\ UNCHANGED mishaps

CliFails ==
    /\ cli.stage # "idle" /\ cli' = [cli EXCEPT !.stage = "idle"]
    /\ Writing(<<>>, <<Result(FALSE)>>)
    /\ Mishap

CliInterrupted ==
    /\ phase = "draining" /\ cli.stage # "idle" /\ cli' = [cli EXCEPT !.stage = "idle"]
    /\ Writing(<<>>, <<Result(FALSE)>>)
    /\ UNCHANGED mishaps

CliDies ==
    /\ client = "live" /\ Mishap
    /\ client' = "dead" /\ CliGone
    /\ UNCHANGED <<memoryVars, session, flagVars, created, phase, turns, query>>

\* Claude Code deletes old transcripts.
SessionLost ==
    /\ session.present /\ client = "none" /\ Mishap
    /\ session' = [present |-> FALSE, entries |-> <<>>] /\ lost' = TRUE
    /\ UNCHANGED <<memoryVars, cli, inbox, stream, pruned, alarm, unread, mixed, created, client,
                   phase, turns, query>>

-----------------------------------------------------------------------------
(* The loop of the agent *)

\* A user turn, to be answered now or with the next.
UserTurn ==
    /\ phase = "idle" /\ users < MaxUsers
    /\ users' = users + 1
    /\ mem' = Append(mem, Turn("user", NoUuid, users'))
    /\ phase' \in {"idle", "syncing"}
    /\ UNCHANGED <<heard, cliVars, flagVars, created, client, turns, query, mishaps>>

\* The process of the agent is restarted: CLAUDE.json and the memory are on disk.
Restart ==
    /\ Mishap
    /\ client' = "none" /\ CliGone /\ unread' = FALSE
    /\ LlmEnds
    /\ UNCHANGED <<memoryVars, session, pruned, alarm, lost, mixed, created, query>>

-----------------------------------------------------------------------------

Llm ==
    \/ Sync \/ Reuse \/ Connect \/ ConnectFails \/ Ask \/ AskFails
    \/ Read \/ ReadRaises \/ StreamBreaks \/ Finish \/ Drained \/ DrainTimesOut
Stops == StopEarly \/ StopConnecting \/ StopAsking \/ StopStreaming
Process ==
    \/ CliTakes \/ CliCalls \/ CliReplies \/ CliAnswers \/ CliFails \/ CliInterrupted
    \/ CliDies \/ SessionLost

Next == Llm \/ Stops \/ Process \/ UserTurn \/ Restart

Spec == Init /\ [][Next]_claudeVars

-----------------------------------------------------------------------------
(* Properties *)

\* The alarm about a desync is never false: nothing that happens between memory and
\* session - stops, errors, restarts, trimming, parallel results - raises it while
\* the session file is there.
AlarmMeansLost == alarm => lost

\* A query's answer is made of messages of that query, unless the messages of an
\* earlier one were left unread: by an error of the transport, by a stop in query(), or
\* by a drain that timed out.
AnswersOwnQuestion ==
    phase \in {"streaming", "finishing"} /\ ~unread =>
        \A t \in Elements(turns) : QueryOf(t.uuid) = query

\* Every tool call in the memory has one result, which stands behind it.
CallsPaired ==
    ~mixed =>
        \A i \in DOMAIN mem : mem[i].kind = "call" =>
            Cardinality({j \in DOMAIN mem : mem[j].kind = "reply" /\ mem[j].id = mem[i].id /\ j > i}) = 1

\* A user turn that something stands behind has been sent to the session.
UserTurnsHeard ==
    \A i, j \in DOMAIN mem :
        i < j /\ mem[i].kind = "user" /\ mem[j].kind # "user" => heard[mem[i].id] # 0

=============================================================================
