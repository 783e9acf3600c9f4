-------------------------- MODULE StorePartsProofs --------------------------
(***************************************************************************)
(* Two parts of MCStores of which much can be shown without the others:    *)
(* the sessions of Claude Code and the chunks of a dialogue.               *)
(*                                                                         *)
(* Of the sessions, for every number of user turns and mishaps: user turns *)
(* are sent, an answer belongs to its question, a call has one result. The *)
(* invariant is about the query that is out. What the process has told of  *)
(* it, read or not, is one sequence, Told: every entry once, a result      *)
(* behind its call, the message that ends the query last. Unless something *)
(* was left unread there is nothing else to read. So the calls of turns    *)
(* have their results when the query ends, or get them when it is stopped, *)
(* and no other query has calls with these ids.                            *)
(*                                                                         *)
(* Of the dialogue: what is packed, line by line, is all the text so far,  *)
(* in order, and a chunk that is closed holds whole lines within the size  *)
(* or one piece of a longer one (Packing, Packed).                         *)
(***************************************************************************)
EXTENDS ClaudeSession, FiniteSetTheorems, SequenceTheorems, TLAPS

CONSTANTS TurnContents, People, MaxDialogTurns \* of the dialogue, as in MCStores
VARIABLE dialog

Quiet == {"idle", "syncing", "preparing", "asking"}
Busy == {"streaming", "finishing", "draining"}
ATurn == [kind : Kinds, uuid : Nat, id : Nat]

SessionTypes ==
    /\ MaxUsers \in Nat
    /\ mem \in Seq(ATurn) /\ turns \in Seq(ATurn)
    /\ client \in {"none", "live", "dead"}
    /\ cli \in [n : Nat, stage : {"idle", "asked", "called", "replied"}]
    /\ inbox \in Seq(Nat) /\ stream \in Seq(Nat)
    /\ phase \in Quiet \cup Busy
    /\ query \in Nat /\ users \in 0..MaxUsers /\ heard \in [1..MaxUsers -> Nat]

\* While llm() has a query out, every user turn of the memory was in some query.
UsersHeard ==
    /\ \A i \in DOMAIN turns : turns[i].kind # "user"
    /\ \A i \in DOMAIN mem : mem[i].kind = "user" => mem[i].id \in 1..users
    /\ UserTurnsHeard
    /\ phase \in Busy => \A i \in DOMAIN mem : mem[i].kind = "user" => heard[mem[i].id] # 0

\* The call has something to read, the process something to do, for the last query only.
NothingComes == cli.stage = "idle" /\ inbox = <<>> /\ stream = <<>>
OneQuery ==
    /\ phase \in Quiet \cup {"finishing"} \/ client = "dead" => NothingComes
    /\ inbox # <<>> => inbox = <<query>> /\ cli.stage = "idle" /\ stream = <<>> /\ turns = <<>>
    /\ cli.stage # "idle" => cli.n = query /\ inbox = <<>>

\* What the process has told of a query, read or not: every entry once, a result of a
\* call behind it, and the message that ends the query last.
Told == [i \in 1..(Len(turns) + Len(stream)) |->
            IF i <= Len(turns) THEN turns[i].uuid ELSE stream[i - Len(turns)]]
WasTold(u) == \E i \in DOMAIN Told : Told[i] = u
Entries == {CallEntry(query, 1), CallEntry(query, 2),
            ReplyEntry(query, 1), ReplyEntry(query, 2), TextEntry(query)}
ToldFits ==
    /\ \A i \in DOMAIN turns : turns[i].uuid \in Entries /\ turns[i] = TurnOf(turns[i].uuid)
    /\ \A i \in DOMAIN stream :
        \/ stream[i] \in Entries
        \/ stream[i] \in {1, 2} /\ i = Len(stream) /\ cli.stage = "idle" /\ inbox = <<>>
    /\ \A i, j \in DOMAIN Told : Told[i] = Told[j] => i = j
    /\ \A k \in {1, 2}, j \in DOMAIN Told : Told[j] = ReplyEntry(query, k) =>
        \E i \in DOMAIN Told : i < j /\ Told[i] = CallEntry(query, k)

CallsSaid == WasTold(CallEntry(query, 1)) /\ WasTold(CallEntry(query, 2))
NoCallSaid == ~WasTold(CallEntry(query, 1)) /\ ~WasTold(CallEntry(query, 2))
RepliesSaid == WasTold(ReplyEntry(query, 1)) /\ WasTold(ReplyEntry(query, 2))
NoReplySaid == ~WasTold(ReplyEntry(query, 1)) /\ ~WasTold(ReplyEntry(query, 2))
StageFits ==
    /\ cli.stage \in {"called", "replied"} => CallsSaid
    /\ cli.stage = "asked" => turns = <<>> /\ stream = <<>>
    /\ cli.stage = "called" => NoReplySaid
    /\ cli.stage = "replied" => RepliesSaid
    /\ cli.stage # "idle" => ~WasTold(TextEntry(query))
    /\ phase = "finishing" \/ WasTold(1) => NoCallSaid \/ RepliesSaid

\* A call of the memory is older than the query that is out and has its one result.
OneReply(m, i) ==
    \E j \in DOMAIN m :
        /\ i < j /\ m[j].kind = "reply" /\ m[j].id = m[i].id
        /\ \A k \in DOMAIN m : i < k /\ m[k].kind = "reply" /\ m[k].id = m[i].id => k = j
CallsHaveReply ==
    \A i \in DOMAIN mem : mem[i].kind = "call" =>
        /\ mem[i].id < 10 * query + (IF phase \in Quiet THEN 10 ELSE 0)
        /\ OneReply(mem, i)

SessionInv ==
    /\ SessionTypes /\ UsersHeard
    /\ phase \in Quiet => turns = <<>>
    /\ phase \in Busy => query > 0
    /\ ~unread => OneQuery /\ ToldFits /\ StageFits
    /\ unread => mixed
    /\ ~mixed => CallsHaveReply

\* What a program that has just begun knows of no session.
LEMMA SessionStart == ASSUME MaxUsers \in Nat, Init PROVE SessionInv
<1> USE DEF Init
<1>1. SessionTypes
  <2>1. heard \in [1..MaxUsers -> Nat] /\ users \in 0..MaxUsers
    OBVIOUS
  <2>2. /\ mem \in Seq(ATurn) /\ turns \in Seq(ATurn)
        /\ inbox \in Seq(Nat) /\ stream \in Seq(Nat)
    OBVIOUS
  <2> QED BY <2>1, <2>2 DEF SessionTypes, Quiet, Busy
<1>2. UsersHeard
  BY DEF UsersHeard, UserTurnsHeard, Quiet, Busy
<1>3. OneQuery /\ ToldFits /\ StageFits
  BY DEF OneQuery, NothingComes, ToldFits, Told, StageFits, WasTold
<1>4. CallsHaveReply
  BY DEF CallsHaveReply
<1> QED
  BY <1>1, <1>2, <1>3, <1>4 DEF SessionInv, Quiet, Busy

\* The parts of a turn that stands for a message, and its uuid.
LEMMA TurnOfMessage ==
  ASSUME NEW u \in Nat
  PROVE  TurnOf(u) \in ATurn /\ TurnOf(u).uuid = u /\ TurnOf(u).kind # "user"
BY DEF TurnOf, Turn, ATurn, Kinds, IsCall, IsReply,
       CallOf

\* What a kept end of the memory is.
LEMMA KeptIs ==
  ASSUME SessionTypes, NEW kept \in Contents
  PROVE  \E i \in DOMAIN mem :
            /\ kept = SubSeq(mem, i, Len(mem)) /\ kept \in Seq(ATurn)
            /\ Len(kept) = Len(mem) - i + 1
            /\ \A j \in DOMAIN kept : j + i - 1 \in DOMAIN mem /\ kept[j] = mem[j + i - 1]
<1>1. PICK i \in DOMAIN mem : kept = SubSeq(mem, i, Len(mem))
  BY DEF Contents, From
<1>2. mem \in Seq(ATurn) /\ Len(mem) \in Nat /\ i \in 1..Len(mem)
  BY DEF SessionTypes
<1>3. Len(kept) = Len(mem) - i + 1 /\ kept \in Seq(ATurn)
  BY <1>1, <1>2
<1>4. \A j \in DOMAIN kept : j + i - 1 \in DOMAIN mem /\ kept[j] = mem[j + i - 1]
  BY <1>1, <1>2, <1>3
<1> QED
  BY <1>1, <1>3, <1>4

LEMMA BoundTyped == ASSUME SessionTypes \/ SessionInv PROVE MaxUsers \in Nat
BY DEF SessionInv, SessionTypes

\* The members of a set of numbers have the ranks 0, 1, 2 and so on.
LEMMA Ranks ==
  ASSUME NEW S \in SUBSET Nat, IsFiniteSet(S)
  PROVE  /\ \A x \in S : Rank(S, x) \in 0..(Cardinality(S) - 1)
         /\ \A x, y \in S : Rank(S, x) = Rank(S, y) => x = y
         /\ \A r \in 0..(Cardinality(S) - 1) : \E x \in S : Rank(S, x) = r
<1> DEFINE Before(x) == {y \in S : y < x}
           f == [x \in S |-> Rank(S, x)]
           T == 0..(Cardinality(S) - 1)
<1>1. Cardinality(S) \in Nat
  BY FS_CardinalityType
<1>2. \A x \in S : IsFiniteSet(Before(x)) /\ Cardinality(Before(x)) \in Nat
                   /\ Rank(S, x) = Cardinality(Before(x))
  <2> TAKE x \in S
  <2>1. Before(x) \in SUBSET S
    OBVIOUS
  <2>2. IsFiniteSet(Before(x))
    BY <2>1, FS_Subset
  <2>3. Cardinality(Before(x)) \in Nat
    BY <2>2, FS_CardinalityType
  <2>4. Rank(S, x) = Cardinality(Before(x))
    BY DEF Rank
  <2> QED BY <2>2, <2>3, <2>4
<1>3. \A x \in S : Cardinality(Before(x)) < Cardinality(S)
  <2> TAKE x \in S
  <2>1. Before(x) \in SUBSET S /\ Before(x) # S
    OBVIOUS
  <2>2. Cardinality(Before(x)) <= Cardinality(S) /\ Cardinality(Before(x)) # Cardinality(S)
    BY <2>1, FS_Subset
  <2> QED BY <2>2, <1>1, <1>2
<1>4. \A x, y \in S : x < y => Cardinality(Before(x)) < Cardinality(Before(y))
  <2> TAKE x, y \in S
  <2> HAVE x < y
  <2>0. \A z \in S : z \in Nat
    OBVIOUS
  <2>a. \A z \in S : z < x => z < y
    BY <2>0
  <2>b. ~(x < x)
    BY <2>0
  <2>1. Before(x) \in SUBSET Before(y) /\ x \in Before(y) /\ x \notin Before(x)
    BY <2>a, <2>b
  <2>2. Cardinality(Before(x)) <= Cardinality(Before(y))
        /\ Cardinality(Before(x)) # Cardinality(Before(y))
    BY <2>1, <1>2, FS_Subset
  <2> QED BY <2>2, <1>2
<1>5. \A x \in S : Rank(S, x) \in T
  <2> TAKE x \in S
  <2> HIDE DEF Before
  <2> QED BY <1>1, <1>2, <1>3
<1>6. \A x, y \in S : Rank(S, x) = Rank(S, y) => x = y
  <2> TAKE x, y \in S
  <2> HIDE DEF Before
  <2>1. x \in Nat /\ y \in Nat
    OBVIOUS
  <2>2. CASE x < y
    BY <2>2, <1>2, <1>4
  <2>3. CASE y < x
    BY <2>3, <1>2, <1>4
  <2> QED BY <2>1, <2>2, <2>3
<1>7. f \in Injection(S, T)
  BY <1>5, <1>6 DEF Injection, IsInjective
<1>8. IsFiniteSet(T) /\ Cardinality(T) = Cardinality(S)
  <2>1. 0 \in Int /\ Cardinality(S) - 1 \in Int
    BY <1>1
  <2>2. IsFiniteSet(T) /\ Cardinality(T) = IF 0 > Cardinality(S) - 1 THEN 0 ELSE Cardinality(S) - 1 - 0 + 1
    BY <2>1, FS_Interval
  <2> QED BY <1>1, <2>2
<1>9. f \in Surjection(S, T)
  BY <1>7, <1>8, FS_Injection
<1>10. \A r \in T : \E x \in S : f[x] = r
  BY <1>9 DEF Surjection
<1> QED
  BY <1>5, <1>6, <1>10

\* The results that a stop adds: one for every call that has none.
LEMMA ResultsAdded ==
  ASSUME SessionTypes
  PROVE  /\ Unpaired \in Seq(ATurn) /\ Len(Unpaired) \in Nat
         /\ \E w \in [1..Len(Unpaired) -> Unanswered] :
              /\ \A k \in 1..Len(Unpaired) :
                    Unpaired[k] = Turn("reply", NoUuid, turns[w[k]].id)
              /\ \A k, l \in 1..Len(Unpaired) : w[k] = w[l] => k = l
              /\ \A i \in Unanswered : \E k \in 1..Len(Unpaired) : w[k] = i
<1> DEFINE S == Unanswered
           n == Cardinality(S)
           w == [k \in 1..n |-> CHOOSE i \in S : Rank(S, i) = k - 1]
<1>1. S \subseteq 1..Len(turns) /\ Len(turns) \in Nat /\ turns \in Seq(ATurn)
  BY DEF SessionTypes, Unanswered
<1>2. IsFiniteSet(1..Len(turns)) /\ S \in SUBSET (1..Len(turns)) /\ S \in SUBSET Nat
  BY <1>1, FS_Interval
<1>3. IsFiniteSet(S) /\ n \in Nat
  BY <1>2, FS_Subset, FS_CardinalityType
<1>4. /\ \A x \in S : Rank(S, x) \in 0..(n - 1)
      /\ \A x, y \in S : Rank(S, x) = Rank(S, y) => x = y
      /\ \A r \in 0..(n - 1) : \E x \in S : Rank(S, x) = r
  BY <1>2, <1>3, Ranks
<1>5. \A k \in 1..n : w[k] \in S /\ Rank(S, w[k]) = k - 1
  <2> TAKE k \in 1..n
  <2>1. k - 1 \in 0..(n - 1)
    BY <1>3
  <2> QED BY <2>1, <1>4
<1>6. w \in [1..n -> S]
  BY <1>5
<1>7. Unpaired = [k \in 1..n |-> Turn("reply", NoUuid, turns[w[k]].id)]
  <2>1. Unpaired = [k \in 1..n |-> Turn("reply", NoUuid,
                                turns[CHOOSE i \in S : Rank(S, i) = k - 1].id)]
    BY Zenon DEF Unpaired
  <2> QED BY <2>1
<1> HIDE DEF S, w
<1>8. \A k \in 1..n : turns[w[k]].id \in Nat
  <2>1. \A i \in 1..Len(turns) : turns[i] \in ATurn
    BY <1>1
  <2>2. \A k \in 1..n : turns[w[k]] \in ATurn
    BY <2>1, <1>1, <1>5 DEF S
  <2> QED BY <2>2 DEF ATurn
<1>9. \A k \in 1..n : Turn("reply", NoUuid, turns[w[k]].id) \in ATurn
  BY <1>8 DEF ATurn, Turn, NoUuid, Kinds
<1>10. Unpaired \in Seq(ATurn) /\ Len(Unpaired) = n
  BY <1>3, <1>7, <1>9
<1>11. \A k, l \in 1..n : w[k] = w[l] => k = l
  BY <1>3, <1>5
<1>12. \A i \in S : \E k \in 1..n : w[k] = i
  <2> TAKE i \in S
  <2>1. Rank(S, i) \in 0..(n - 1)
    BY <1>4
  <2>2. Rank(S, i) + 1 \in 1..n
    BY <1>3, <2>1
  <2>3. w[Rank(S, i) + 1] \in S /\ Rank(S, w[Rank(S, i) + 1]) = Rank(S, i)
    BY <2>1, <2>2, <1>5
  <2> QED BY <2>2, <2>3, <1>4
<1> QED
  BY <1>3, <1>6, <1>7, <1>10, <1>11, <1>12 DEF S

LEMMA SessionTyped ==
  ASSUME SessionTypes, Next
  PROVE  SessionTypes'
<1> USE DEF Quiet, Busy, memoryVars, cliVars, flagVars, CliGone,
            LlmEnds, Mishap, LeavesUnread, NothingUnread
<1> DEFINE Kept == \A m \in Contents : m \in Seq(ATurn)
<1>k. Kept
  BY KeptIs
<1> HIDE DEF Kept
<1>1. CASE Sync
  <2>1. \/ client' = "none" /\ CliGone
        \/ client' = client /\ cli' = cli /\ inbox' = inbox /\ stream' = stream
    BY <1>1, Zenon DEF Sync
  <2>2. phase' = "preparing" /\ UNCHANGED <<mem, heard, users, turns, query>>
    BY <1>1, Zenon DEF Sync
  <2>3. /\ client' \in {"none", "live", "dead"} /\ inbox' \in Seq(Nat) /\ stream' \in Seq(Nat)
        /\ cli' \in [n : Nat, stage : {"idle", "asked", "called", "replied"}]
    <3>1. CASE client' = "none" /\ CliGone
      <4>1. <<>> \in Seq(Nat) /\ [n |-> 0, stage |-> "idle"] \in [n : Nat, stage : {"idle", "asked", "called", "replied"}]
        OBVIOUS
      <4> QED BY <3>1, <4>1, Zenon
    <3>2. CASE client' = client /\ cli' = cli /\ inbox' = inbox /\ stream' = stream
      BY <3>2, Zenon DEF SessionTypes
    <3> QED BY <2>1, <3>1, <3>2
  <2> QED BY <2>2, <2>3 DEF SessionTypes
<1>2a. CASE Reuse
  BY <1>2a DEF SessionTypes, Reuse
<1>2b. CASE Connect
  BY <1>2b DEF SessionTypes, Connect
<1>2c. CASE ConnectFails
  BY <1>2c DEF SessionTypes, ConnectFails
<1>w. ASSUME Writes
      PROVE  /\ query' \in Nat /\ inbox' \in Seq(Nat) /\ mem' \in Seq(ATurn)
             /\ heard' \in [1..MaxUsers -> Nat]
  <2>1. query' = query + 1 /\ inbox' = Append(inbox, query') /\ query \in Nat /\ inbox \in Seq(Nat)
    BY <1>w DEF SessionTypes, Writes
  <2>2. query' \in Nat /\ inbox' \in Seq(Nat)
    BY <2>1
  <2>3. PICK m \in Contents :
          mem' = m /\ heard' = [u \in DOMAIN heard |-> IF u \in Pending(m) THEN query' ELSE heard[u]]
    BY <1>w DEF Writes
  <2>4. heard \in [1..MaxUsers -> Nat]
    BY DEF SessionTypes
  <2> QED BY <1>k, <2>2, <2>3, <2>4 DEF Kept
<1>3. CASE Ask
  BY <1>3, <1>w DEF SessionTypes, Ask
<1>4. CASE AskFails
  BY <1>4, <1>k DEF SessionTypes, AskFails, Kept
<1>5. CASE Read
  <2>1. Head(stream) \in Nat /\ Tail(stream) \in Seq(Nat) /\ turns \in Seq(ATurn)
    BY <1>5 DEF SessionTypes, Read
  <2>2. Append(turns, TurnOf(Head(stream))) \in Seq(ATurn)
    BY <2>1, TurnOfMessage
  <2>a. \/ phase' = "finishing" /\ turns' = turns
        \/ phase' = "idle" /\ turns' = <<>>
        \/ phase' = phase /\ turns' = Append(turns, TurnOf(Head(stream)))
    BY <1>5, Zenon DEF Read, Message
  <2>b. phase \in Quiet \cup Busy /\ stream' = Tail(stream)
    BY <1>5, Zenon DEF SessionTypes, Read
  <2>3. turns' \in Seq(ATurn) /\ stream' \in Seq(Nat) /\ phase' \in Quiet \cup Busy
    <3>1. stream' \in Seq(Nat)
      BY <2>1, <2>b
    <3>2. turns' \in Seq(ATurn)
      <4>1. <<>> \in Seq(ATurn)
        OBVIOUS
      <4> QED BY <2>1, <2>2, <2>a, <4>1, Zenon
    <3> QED BY <2>a, <2>b, <3>1, <3>2
  <2> QED BY <1>5, <2>3 DEF SessionTypes, Read
<1>6. CASE ReadRaises
  <2>1. stream # <<>> => Tail(stream) \in Seq(Nat)
    BY DEF SessionTypes
  <2>2. stream' = stream \/ (stream # <<>> /\ stream' = Tail(stream))
    BY <1>6, Zenon DEF ReadRaises
  <2>3. stream' \in Seq(Nat)
    BY <2>1, <2>2 DEF SessionTypes
  <2>4. /\ phase' = "idle" /\ turns' = <<>>
        /\ UNCHANGED <<mem, heard, users, cli, inbox, client, query>>
    BY <1>6 DEF ReadRaises
  <2> QED BY <2>3, <2>4 DEF SessionTypes
<1>7a. CASE StreamBreaks
  BY <1>7a DEF SessionTypes, StreamBreaks
<1>7b. CASE StopStreaming
  BY <1>7b DEF SessionTypes, StopStreaming
<1>8. CASE Finish
  <2>1. mem \o turns \in Seq(ATurn)
    BY DEF SessionTypes
  <2> QED BY <1>8, <2>1 DEF SessionTypes, Finish
<1>p. ASSUME ReturnsPartial PROVE mem' \in Seq(ATurn)
  <2>1. Unpaired \in Seq(ATurn)
    BY ResultsAdded
  <2>2. Turn("note", NoUuid, 0) \in ATurn
    BY DEF ATurn, Turn, NoUuid, Kinds
  <2>3. mem \in Seq(ATurn) /\ turns \in Seq(ATurn)
    BY DEF SessionTypes
  <2> QED BY <1>p, <2>1, <2>2, <2>3 DEF ReturnsPartial
<1>9. CASE Drained
  <2>1. stream' \in Seq(Nat)
    <3>1. stream \in Seq(Nat) /\ FirstResult \in 1..Len(stream)
      <4>1. \E i \in DOMAIN stream : IsResult(stream[i])
                /\ \A j \in 1..(i - 1) : ~IsResult(stream[j])
        <5>1. stream \in Seq(Nat) /\ Len(stream) \in Nat
          BY DEF SessionTypes
        <5> DEFINE S == {i \in 1..Len(stream) : IsResult(stream[i])}
        <5>2. S \subseteq Nat /\ S # {} /\ IsFiniteSet(S)
          <6>1. IsFiniteSet(1..Len(stream)) /\ S \in SUBSET (1..Len(stream))
            BY <5>1, FS_Interval
          <6>2. S # {}
            BY <1>9, <5>1 DEF Drained, ResultWaits
          <6> QED BY <6>1, <6>2, FS_Subset
        <5>3. Cardinality(S) \in Nat /\ Cardinality(S) # 0
          BY <5>2, FS_CardinalityType, FS_EmptySet
        <5>r. \A r \in 0..(Cardinality(S) - 1) : \E x \in S : Rank(S, x) = r
          <6>1. S \in SUBSET Nat
            BY <5>2
          <6> QED BY <6>1, <5>2, Ranks
        <5>4. PICK i \in S : Rank(S, i) = 0
          <6>1. 0 \in 0..(Cardinality(S) - 1)
            BY <5>3
          <6> QED BY <6>1, <5>r
        <5>5. {y \in S : y < i} = {}
          <6>1. IsFiniteSet({y \in S : y < i}) /\ Cardinality({y \in S : y < i}) = 0
            <7>1. {y \in S : y < i} \in SUBSET S
              OBVIOUS
            <7>2. Cardinality({y \in S : y < i}) = 0
              BY <5>4 DEF Rank
            <7>3. IsFiniteSet({y \in S : y < i})
              BY <7>1, <5>2, FS_Subset
            <7> QED BY <7>2, <7>3
          <6>2. \A T : IsFiniteSet(T) /\ Cardinality(T) = 0 => T = {}
            BY FS_EmptySet
          <6> QED BY <6>1, <6>2
        <5>6. i \in 1..Len(stream) /\ DOMAIN stream = 1..Len(stream) /\ IsResult(stream[i])
          BY <5>1
        <5>7. ASSUME NEW j \in 1..(i - 1), IsResult(stream[j]) PROVE FALSE
          <6>1. j \in 1..Len(stream) /\ j < i
            BY <5>6, <5>1
          <6>2. j \in {y \in S : y < i}
            BY <6>1, <5>7
          <6> QED BY <6>2, <5>5
        <5> QED BY <5>6, <5>7
      <4>2. FirstResult \in DOMAIN stream
        BY <4>1, Zenon DEF FirstResult
      <4> QED BY <4>2 DEF SessionTypes
    <3> QED BY <1>9, <3>1 DEF Drained, From
  <2> QED BY <1>9, <1>p, <2>1 DEF SessionTypes, Drained, ReturnsPartial
<1>10. CASE DrainTimesOut
  BY <1>10, <1>p DEF SessionTypes, DrainTimesOut, ReturnsPartial
<1>11. CASE StopEarly
  BY <1>11, <1>k DEF SessionTypes, StopEarly, Kept
<1>12a. CASE StopConnecting
  BY <1>12a DEF SessionTypes, StopConnecting
<1>12b. CASE Restart
  BY <1>12b DEF SessionTypes, Restart
<1>13. CASE StopAsking
  <2>1. Writes /\ phase' = "idle" /\ turns' = <<>> /\ UNCHANGED <<users, cli, stream, client>>
    BY <1>13, Zenon DEF StopAsking
  <2> QED BY <2>1, <1>w DEF SessionTypes
<1>14. CASE CliTakes
  <2>1. Head(inbox) \in Nat /\ Tail(inbox) \in Seq(Nat)
    BY <1>14 DEF SessionTypes, CliTakes
  <2> QED BY <1>14, <2>1 DEF SessionTypes, CliTakes
<1>e. /\ TextEntry(cli.n) \in Nat
      /\ \A k \in {1, 2} : CallEntry(cli.n, k) \in Nat /\ ReplyEntry(cli.n, k) \in Nat
      /\ Result(TRUE) \in Nat /\ Result(FALSE) \in Nat
  <2>1. cli.n \in Nat
    BY DEF SessionTypes
  <2>2. \A n \in Nat : 10 * n + 9 \in Nat /\ \A k \in {1, 2} : 10 * n + k \in Nat /\ 10 * n + 4 + k \in Nat
    OBVIOUS
  <2> QED BY <2>1, <2>2 DEF TextEntry, CallEntry, ReplyEntry, Result
<1>t. /\ \A a, b \in Nat : stream \o <<a>> \in Seq(Nat) /\ stream \o <<a, b>> \in Seq(Nat)
      /\ stream \o <<>> \in Seq(Nat)
  BY DEF SessionTypes
<1>15. CASE CliCalls
  <2>1. stream' = stream \o <<CallEntry(cli.n, 1), CallEntry(cli.n, 2)>>
    BY <1>15, Zenon DEF CliCalls, Writing
  <2>2. stream' \in Seq(Nat)
    BY <1>e, <1>t, <2>1
  <2>3. /\ cli' = [cli EXCEPT !.stage = "called"]
        /\ UNCHANGED <<mem, turns, client, inbox, phase, query, users, heard>>
    BY <1>15, Zenon DEF CliCalls, Writing
  <2> QED BY <2>2, <2>3 DEF SessionTypes
<1>16. CASE CliReplies
  <2> DEFINE a == ReplyEntry(cli.n, 1)
             b == ReplyEntry(cli.n, 2)
  <2>1. \E sent \in {<<a, b>>, <<b, a>>} : stream' = stream \o sent
    BY <1>16, Zenon DEF CliReplies, Writing
  <2>2. a \in Nat /\ b \in Nat
    BY <1>e
  <2> HIDE DEF a, b
  <2>3. stream' \in Seq(Nat)
    BY <2>1, <2>2, <1>t
  <2> QED BY <1>16, <2>3 DEF SessionTypes, CliReplies, Writing
<1>17. CASE CliAnswers
  <2>1. stream' = stream \o <<TextEntry(cli.n), Result(TRUE)>>
    BY <1>17, Zenon DEF CliAnswers, Writing
  <2> QED BY <1>17, <1>e, <1>t, <2>1 DEF SessionTypes, CliAnswers, Writing
<1>18a. CASE CliFails
  <2>1. stream' = stream \o <<Result(FALSE)>>
    BY <1>18a, Zenon DEF CliFails, Writing
  <2> QED BY <1>18a, <1>e, <1>t, <2>1 DEF SessionTypes, CliFails, Writing
<1>18b. CASE CliInterrupted
  <2>1. stream' = stream \o <<Result(FALSE)>>
    BY <1>18b, Zenon DEF CliInterrupted, Writing
  <2> QED BY <1>18b, <1>e, <1>t, <2>1 DEF SessionTypes, CliInterrupted, Writing
<1>19a. CASE CliDies
  BY <1>19a DEF SessionTypes, CliDies
<1>19b. CASE SessionLost
  BY <1>19b DEF SessionTypes, SessionLost
<1>20. CASE UserTurn
  <2>1. Turn("user", NoUuid, users') \in ATurn /\ users' \in 0..MaxUsers
    BY <1>20, BoundTyped
       DEF SessionTypes, UserTurn, ATurn, Turn, NoUuid, Kinds
  <2>2. mem' \in Seq(ATurn)
    BY <1>20, <2>1 DEF SessionTypes, UserTurn
  <2> QED BY <1>20, <2>1, <2>2 DEF SessionTypes, UserTurn
<1> QED
  BY <1>1, <1>2a, <1>2b, <1>2c, <1>3, <1>4, <1>5, <1>6, <1>7a, <1>7b, <1>8, <1>9, <1>10, <1>11, <1>12a, <1>12b, <1>13, <1>14,
     <1>15, <1>16, <1>17, <1>18a, <1>18b, <1>19a, <1>19b, <1>20
     DEF Next, Llm, Stops, Process

\* An end of the memory is as good as the memory.
LEMMA Trimmed ==
  ASSUME SessionInv, NEW kept \in {mem} \cup Contents
  PROVE  /\ kept \in Seq(ATurn)
         /\ \A i \in DOMAIN kept : kept[i].kind = "user" => kept[i].id \in 1..users
         /\ \A i, j \in DOMAIN kept :
                i < j /\ kept[i].kind = "user" /\ kept[j].kind # "user" => heard[kept[i].id] # 0
         /\ ~mixed => \A i \in DOMAIN kept : kept[i].kind = "call" =>
                /\ kept[i].id < 10 * query + (IF phase \in Quiet THEN 10 ELSE 0)
                /\ OneReply(kept, i)
<1>0. SessionTypes /\ mem \in Seq(ATurn)
  BY DEF SessionInv, SessionTypes
<1>1. CASE kept = mem
  BY <1>0, <1>1 DEF SessionInv, UsersHeard, UserTurnsHeard, CallsHaveReply
<1>2. CASE kept \in Contents
  <2>1. PICK s \in DOMAIN mem :
            /\ kept = SubSeq(mem, s, Len(mem)) /\ kept \in Seq(ATurn)
            /\ Len(kept) = Len(mem) - s + 1
            /\ \A j \in DOMAIN kept : j + s - 1 \in DOMAIN mem /\ kept[j] = mem[j + s - 1]
    BY <1>0, <1>2, KeptIs
  <2>2. Len(mem) \in Nat /\ DOMAIN mem = 1..Len(mem) /\ s \in 1..Len(mem) /\ Len(kept) \in Nat
        /\ DOMAIN kept = 1..Len(kept)
    BY <1>0, <2>1
  <2>3. \A i \in DOMAIN kept : kept[i].kind = "user" => kept[i].id \in 1..users
    BY <2>1 DEF SessionInv, UsersHeard
  <2>4. ASSUME NEW i \in DOMAIN kept, NEW j \in DOMAIN kept,
               i < j, kept[i].kind = "user", kept[j].kind # "user"
        PROVE  heard[kept[i].id] # 0
    <3>1. i + s - 1 \in DOMAIN mem /\ j + s - 1 \in DOMAIN mem /\ i + s - 1 < j + s - 1
      BY <2>1, <2>2, <2>4
    <3> QED BY <2>1, <2>4, <3>1 DEF SessionInv, UsersHeard, UserTurnsHeard
  <2>5. ASSUME ~mixed, NEW i \in DOMAIN kept, kept[i].kind = "call"
        PROVE  /\ kept[i].id < 10 * query + (IF phase \in Quiet THEN 10 ELSE 0)
               /\ OneReply(kept, i)
    <3> DEFINE at == i + s - 1
    <3>1. at \in DOMAIN mem /\ mem[at] = kept[i]
      BY <2>1
    <3>2. mem[at].id < 10 * query + (IF phase \in Quiet THEN 10 ELSE 0) /\ OneReply(mem, at)
      BY <2>5, <3>1 DEF SessionInv, CallsHaveReply
    <3>3. PICK j \in DOMAIN mem :
            /\ at < j /\ mem[j].kind = "reply" /\ mem[j].id = mem[at].id
            /\ \A k \in DOMAIN mem : at < k /\ mem[k].kind = "reply" /\ mem[k].id = mem[at].id => k = j
      BY <3>2 DEF OneReply
    <3>4. j - s + 1 \in DOMAIN kept /\ i < j - s + 1 /\ (j - s + 1) + s - 1 = j
      BY <2>1, <2>2, <3>1, <3>3
    <3>5. kept[j - s + 1] = mem[j]
      BY <2>1, <3>4
    <3>6. ASSUME NEW k \in DOMAIN kept, i < k, kept[k].kind = "reply", kept[k].id = kept[i].id
          PROVE  k = j - s + 1
      <4>1. k + s - 1 \in DOMAIN mem /\ at < k + s - 1 /\ mem[k + s - 1] = kept[k]
        BY <2>1, <2>2, <3>6
      <4>2. k + s - 1 = j
        BY <3>1, <3>3, <3>6, <4>1
      <4> QED BY <2>2, <4>2
    <3>7. OneReply(kept, i)
      BY <3>1, <3>3, <3>4, <3>5, <3>6 DEF OneReply
    <3> QED BY <3>1, <3>2, <3>7
  <2> QED BY <2>1, <2>3, <2>4, <2>5
<1> QED BY <1>1, <1>2

\* Nothing is told of a query that is not out.
LEMMA QuietFits ==
  ASSUME phase' \in Quiet, turns' = <<>>, NothingComes'
  PROVE  OneQuery' /\ ToldFits' /\ StageFits'
<1>1. OneQuery'
  BY DEF OneQuery, NothingComes
<1>2. DOMAIN Told' = {}
  BY DEF Told, NothingComes
<1>3. ToldFits'
  BY <1>2 DEF ToldFits, NothingComes
<1>4. \A u : ~WasTold(u)'
  BY <1>2 DEF WasTold
<1>5. StageFits'
  BY <1>4 DEF StageFits, NothingComes, Quiet, NoCallSaid
<1> QED BY <1>1, <1>3, <1>5

\* When llm() is left with nothing to come, or something nobody will ask for, all is well
\* with an end of the memory.
LEMMA GoesQuiet ==
  ASSUME SessionInv, SessionTypes', phase' \in Quiet, turns' = <<>>,
         mem' \in {mem} \cup Contents, UNCHANGED <<users, heard, query>>,
         unread' \/ NothingComes', unread' => mixed', mixed => mixed'
  PROVE  SessionInv'
<1>1. UsersHeard'
  <2>1. /\ \A i \in DOMAIN mem' : mem'[i].kind = "user" => mem'[i].id \in 1..users
        /\ \A i, j \in DOMAIN mem' :
                i < j /\ mem'[i].kind = "user" /\ mem'[j].kind # "user" => heard[mem'[i].id] # 0
    BY Trimmed
  <2>2. phase' \notin Busy
    BY DEF Quiet, Busy
  <2> QED BY <2>1, <2>2 DEF UsersHeard, UserTurnsHeard
<1>2. ~mixed' => CallsHaveReply'
  <2>1. ~mixed => \A i \in DOMAIN mem' : mem'[i].kind = "call" =>
                /\ mem'[i].id < 10 * query + (IF phase \in Quiet THEN 10 ELSE 0)
                /\ OneReply(mem', i)
    BY Trimmed
  <2>2. query \in Nat /\ mem' \in Seq(ATurn)
    BY DEF SessionInv, SessionTypes
  <2>a. \A i \in DOMAIN mem' : mem'[i] \in ATurn
    BY <2>2
  <2>3. \A i \in DOMAIN mem' : mem'[i].id \in Nat
    BY <2>a, Zenon DEF ATurn
  <2>4. ASSUME ~mixed', NEW i \in DOMAIN mem', mem'[i].kind = "call"
        PROVE  mem'[i].id < 10 * query' + 10 /\ OneReply(mem', i)
    BY <2>1, <2>2, <2>3, <2>4
  <2> QED BY <2>4 DEF CallsHaveReply, OneReply
<1>3. ~unread' => OneQuery' /\ ToldFits' /\ StageFits'
  BY QuietFits
<1>4. phase' \notin Busy
  BY DEF Quiet, Busy
<1> QED BY <1>1, <1>2, <1>3, <1>4 DEF SessionInv

\* The process is as it was and nothing of the query has been told.
LEMMA SyncStep == ASSUME SessionInv, Sync PROVE SessionInv'
<1>1. SessionTypes'
  BY SessionTyped DEF SessionInv, Next, Llm
<1>2. /\ phase = "syncing" /\ phase' = "preparing" /\ UNCHANGED <<mem, heard, users, turns, query, mixed>>
      /\ \/ unread' = FALSE /\ NothingComes'
         \/ UNCHANGED <<unread, cli, inbox, stream>>
  <2>1. /\ phase = "syncing" /\ phase' = "preparing" /\ UNCHANGED <<mem, heard, users, turns, query, mixed>>
        /\ \/ unread' = FALSE /\ CliGone
           \/ UNCHANGED <<unread, cli, inbox, stream>>
    BY DEF Sync, cliVars, memoryVars
  <2>2. CliGone => NothingComes'
    BY DEF CliGone, NothingComes
  <2> QED BY <2>1, <2>2
<1>3. turns = <<>> /\ (unread => mixed) /\ (~unread => NothingComes)
  BY <1>2 DEF SessionInv, OneQuery, Quiet
<1>4. unread' \/ NothingComes'
  BY <1>2, <1>3 DEF NothingComes
<1> QED BY <1>1, <1>2, <1>3, <1>4, GoesQuiet DEF Quiet

LEMMA ClientSteps ==
  ASSUME SessionInv, Reuse \/ Connect \/ ConnectFails
  PROVE  SessionInv'
<1>1. SessionTypes'
  BY SessionTyped DEF SessionInv, Next, Llm
<1>2. /\ phase = "preparing" /\ phase' \in Quiet /\ (turns' = turns \/ turns' = <<>>)
      /\ UNCHANGED <<mem, heard, users, query, mixed>>
      /\ \/ unread' = FALSE /\ NothingComes'
         \/ UNCHANGED <<unread, cli, inbox, stream>>
  BY DEF Reuse, Connect, ConnectFails, CliGone, LlmEnds,
         cliVars, memoryVars, flagVars, NothingComes, Quiet
<1>3. turns = <<>> /\ (unread => mixed) /\ (~unread => NothingComes)
  BY <1>2 DEF SessionInv, OneQuery, Quiet
<1>4. unread' \/ NothingComes'
  BY <1>2, <1>3 DEF NothingComes
<1> QED BY <1>1, <1>2, <1>3, <1>4, GoesQuiet

LEMMA QuietStops ==
  ASSUME SessionInv,
         AskFails \/ StopEarly \/ StopConnecting \/ Restart
  PROVE  SessionInv'
<1>1. SessionTypes'
  BY SessionTyped DEF SessionInv, Next, Llm, Stops
<1>2. /\ phase' \in Quiet /\ turns' = <<>> /\ mem' \in {mem} \cup Contents
      /\ UNCHANGED <<heard, users, query, mixed>>
      /\ \/ unread' = FALSE /\ NothingComes'
         \/ phase \in Quiet /\ UNCHANGED <<unread, cli, inbox, stream>>
  <2>1. CASE AskFails
    BY <2>1 DEF AskFails, LlmEnds, cliVars, flagVars, Quiet
  <2>2. CASE StopEarly
    BY <2>2 DEF StopEarly, LlmEnds, cliVars, flagVars, Quiet
  <2>3. CASE StopConnecting
    BY <2>3 DEF StopConnecting, CliGone, LlmEnds, memoryVars, NothingComes,
                Quiet
  <2>4. CASE Restart
    BY <2>4 DEF Restart, CliGone, LlmEnds, memoryVars, NothingComes, Quiet
  <2> QED BY <2>1, <2>2, <2>3, <2>4
<1>3. (unread => mixed) /\ (phase \in Quiet /\ ~unread => NothingComes)
  BY DEF SessionInv, OneQuery
<1>4. unread' \/ NothingComes'
  BY <1>2, <1>3 DEF NothingComes
<1> QED BY <1>1, <1>2, <1>3, <1>4, GoesQuiet

\* After the message that ends a query nothing comes.
LEMMA ResultLast ==
  ASSUME SessionInv, phase \in Busy, ~unread, stream # <<>>, IsResult(Head(stream))
  PROVE  cli.stage = "idle" /\ inbox = <<>> /\ Len(stream) = 1 /\ Tail(stream) = <<>>
<1>1. stream \in Seq(Nat) /\ query \in Nat /\ query > 0 /\ ToldFits
  BY DEF SessionInv, SessionTypes
<1>2. 1 \in DOMAIN stream /\ stream[1] = Head(stream) /\ Head(stream) < 10
  BY <1>1 DEF IsResult
<1>3. stream[1] \notin Entries
  BY <1>1, <1>2 DEF Entries, CallEntry, ReplyEntry, TextEntry
<1>4. 1 = Len(stream) /\ cli.stage = "idle" /\ inbox = <<>>
  BY <1>1, <1>2, <1>3 DEF ToldFits
<1>5. Tail(stream) \in Seq(Nat) /\ Len(Tail(stream)) = 0
  BY <1>1, <1>4
<1>6. \A s \in Seq(Nat) : Len(s) = 0 => s = <<>>
  OBVIOUS
<1> QED BY <1>4, <1>5, <1>6

\* The transport fails while llm() reads: when the last message was read, nothing is left.
LEMMA StreamFails ==
  ASSUME SessionInv, ReadRaises \/ StreamBreaks
  PROVE  SessionInv'
<1>1. SessionTypes'
  BY SessionTyped DEF SessionInv, Next, Llm
<1>2. /\ phase = "streaming" /\ phase' = "idle" /\ turns' = <<>>
      /\ UNCHANGED <<mem, heard, users, query, cli, inbox>>
      /\ \/ unread' = TRUE /\ mixed' = TRUE
         \/ /\ UNCHANGED <<unread, mixed>>
            /\ \/ client = "dead" /\ stream' = stream
               \/ stream # <<>> /\ IsResult(Head(stream)) /\ stream' = Tail(stream)
  <2>1. CASE ReadRaises
    BY <2>1 DEF ReadRaises, LlmEnds, memoryVars, LeavesUnread,
                NothingUnread, Message
  <2>2. CASE StreamBreaks
    BY <2>2 DEF StreamBreaks, LlmEnds, memoryVars, cliVars, flagVars
  <2> QED BY <2>1, <2>2
<1>3. stream \in Seq(Nat) /\ query \in Nat /\ query > 0
  BY <1>2 DEF SessionInv, SessionTypes, Busy
<1>4. ASSUME ~unread, stream # <<>>, IsResult(Head(stream))
      PROVE  cli.stage = "idle" /\ inbox = <<>> /\ Tail(stream) = <<>>
  BY <1>2, <1>4, ResultLast DEF Busy
<1>5. ASSUME ~unread, client = "dead" PROVE NothingComes
  BY <1>5 DEF SessionInv, OneQuery
<1>6. unread' \/ NothingComes'
  BY <1>2, <1>4, <1>5 DEF NothingComes
<1>7. (unread' => mixed') /\ (mixed => mixed')
  BY <1>2 DEF SessionInv
<1> QED BY <1>1, <1>2, <1>6, <1>7, GoesQuiet DEF Quiet

\* A user turn comes while nothing is query.
LEMMA UserTurnStep == ASSUME SessionInv, UserTurn PROVE SessionInv'
<1>1. SessionTypes'
  BY SessionTyped DEF SessionInv, Next
<1>2. /\ phase = "idle" /\ phase' \in Quiet
      /\ users' = users + 1 /\ mem' = Append(mem, Turn("user", NoUuid, users'))
      /\ UNCHANGED <<heard, cli, inbox, stream, client, turns, query, unread, mixed>>
  BY DEF UserTurn, cliVars, flagVars, Quiet
<1>3. mem \in Seq(ATurn) /\ users \in 0..MaxUsers /\ users' \in 0..MaxUsers /\ query \in Nat
  BY <1>1 DEF SessionInv, SessionTypes
<1> DEFINE last == Len(mem) + 1
<1>4. /\ DOMAIN mem' = 1..last /\ DOMAIN mem = 1..Len(mem) /\ Len(mem) \in Nat
      /\ \A i \in DOMAIN mem : i \in DOMAIN mem' /\ mem'[i] = mem[i]
      /\ mem'[last] = [kind |-> "user", uuid |-> 0, id |-> users']
      /\ \A i \in DOMAIN mem' : i \in DOMAIN mem \/ i = last
  BY <1>2, <1>3 DEF Turn, NoUuid
<1> HIDE DEF last
<1>5. UsersHeard'
  <2>1. \A i \in DOMAIN mem' : mem'[i].kind = "user" => mem'[i].id \in 1..users'
    <3> TAKE i \in DOMAIN mem'
    <3>1. CASE i \in DOMAIN mem
      BY <3>1, <1>2, <1>3, <1>4 DEF SessionInv, UsersHeard
    <3>2. CASE i = last
      BY <3>2, <1>2, <1>3, <1>4, BoundTyped
    <3> QED BY <1>4, <3>1, <3>2
  <2>2. ASSUME NEW i \in DOMAIN mem', NEW j \in DOMAIN mem', i < j,
               mem'[i].kind = "user", mem'[j].kind # "user"
        PROVE  heard'[mem'[i].id] # 0
    <3>1. j \in DOMAIN mem /\ i \in DOMAIN mem
      BY <2>2, <1>4 DEF last
    <3> QED BY <2>2, <3>1, <1>2, <1>4 DEF SessionInv, UsersHeard, UserTurnsHeard
  <2>3. \A i \in DOMAIN turns' : turns'[i].kind # "user"
    BY <1>2 DEF SessionInv, UsersHeard
  <2>4. phase' \notin Busy
    BY <1>2 DEF Quiet, Busy
  <2> QED BY <2>1, <2>2, <2>3, <2>4 DEF UsersHeard, UserTurnsHeard
<1>6. ~mixed' => CallsHaveReply'
  <2> SUFFICES ASSUME ~mixed', NEW i \in DOMAIN mem', mem'[i].kind = "call"
               PROVE  mem'[i].id < 10 * query' + (IF phase' \in Quiet THEN 10 ELSE 0) /\ OneReply(mem', i)
    BY DEF CallsHaveReply, OneReply
  <2>1. i \in DOMAIN mem /\ mem'[i] = mem[i] /\ phase \in Quiet
    BY <1>2, <1>4 DEF Quiet
  <2>2. mem[i].id < 10 * query + 10 /\ OneReply(mem, i)
    BY <1>2, <2>1 DEF SessionInv, CallsHaveReply
  <2>3. PICK j \in DOMAIN mem :
          /\ i < j /\ mem[j].kind = "reply" /\ mem[j].id = mem[i].id
          /\ \A k \in DOMAIN mem : i < k /\ mem[k].kind = "reply" /\ mem[k].id = mem[i].id => k = j
    BY <2>2 DEF OneReply
  <2>4. \A k \in DOMAIN mem' : i < k /\ mem'[k].kind = "reply" /\ mem'[k].id = mem'[i].id => k = j
    BY <1>4, <2>1, <2>3
  <2>5. OneReply(mem', i)
    BY <1>4, <2>1, <2>3, <2>4 DEF OneReply
  <2> QED BY <1>2, <2>2, <2>1, <2>5
<1>7. turns = <<>> /\ (~unread => NothingComes)
  BY <1>2 DEF SessionInv, OneQuery, Quiet
<1>8. ~unread' => OneQuery' /\ ToldFits' /\ StageFits'
  <2>1. ASSUME ~unread' PROVE OneQuery' /\ ToldFits' /\ StageFits'
    <3>1. OneQuery /\ ToldFits /\ StageFits
      BY <1>2, <2>1 DEF SessionInv
    <3>2. Told' = Told
      BY <1>2 DEF Told
    <3>3. \A u : WasTold(u)' = WasTold(u)
      BY <3>2 DEF WasTold
    <3>4. NothingComes'
      BY <1>2, <1>7, <2>1 DEF NothingComes
    <3>5. OneQuery'
      BY <3>4 DEF OneQuery, NothingComes
    <3>6. ToldFits'
      BY <1>2, <3>1, <3>2 DEF ToldFits, Entries
    <3>7. StageFits'
      BY <1>2, <3>1, <3>3, <3>4
         DEF StageFits, NothingComes, Quiet, CallsSaid, NoCallSaid, RepliesSaid, NoReplySaid
    <3> QED BY <3>5, <3>6, <3>7
  <2> QED BY <2>1
<1>9. phase' \notin Busy
  BY <1>2 DEF Quiet, Busy
<1> QED BY <1>1, <1>2, <1>5, <1>6, <1>7, <1>8, <1>9 DEF SessionInv

\* A query is written: it carries the user turns at the end, the others were in another.
LEMMA QueryWritten ==
  ASSUME SessionInv, SessionTypes', phase = "asking", Writes, UNCHANGED <<users, mixed>>,
         turns' = <<>>
  PROVE  /\ query' = query + 1 /\ inbox' = Append(inbox, query')
         /\ UsersHeard'
         /\ ~mixed' => CallsHaveReply'
<1>1. query' = query + 1 /\ inbox' = Append(inbox, query')
  BY DEF Writes
<1>2. PICK kept \in Contents :
        mem' = kept /\ heard' = [u \in DOMAIN heard |-> IF u \in Pending(kept) THEN query' ELSE heard[u]]
  BY DEF Writes
<1>3. /\ mem' \in Seq(ATurn)
      /\ \A i \in DOMAIN mem' : mem'[i].kind = "user" => mem'[i].id \in 1..users
      /\ \A i, j \in DOMAIN mem' :
             i < j /\ mem'[i].kind = "user" /\ mem'[j].kind # "user" => heard[mem'[i].id] # 0
      /\ ~mixed => \A i \in DOMAIN mem' : mem'[i].kind = "call" =>
             /\ mem'[i].id < 10 * query + (IF phase \in Quiet THEN 10 ELSE 0)
             /\ OneReply(mem', i)
  BY <1>2, Trimmed
<1>4. query \in Nat /\ query' \in Nat /\ heard \in [1..MaxUsers -> Nat] /\ users \in 0..MaxUsers
      /\ phase \in Quiet
  BY <1>1 DEF SessionInv, SessionTypes, Quiet
<1>5. ASSUME NEW i \in DOMAIN mem', mem'[i].kind = "user" PROVE heard'[mem'[i].id] # 0
  <2>1. mem'[i].id \in DOMAIN heard
    BY <1>3, <1>4, <1>5, BoundTyped
  <2>2. CASE mem'[i].id \in Pending(mem')
    BY <2>1, <2>2, <1>1, <1>2, <1>4
  <2>3. CASE mem'[i].id \notin Pending(mem')
    <3>1. PICK k \in i..Len(mem') : mem'[k].kind # "user"
      BY <2>3 DEF Pending
    <3>2. k \in DOMAIN mem' /\ i < k
      BY <1>3, <1>5, <3>1
    <3>3. heard[mem'[i].id] # 0
      BY <1>3, <1>5, <3>1, <3>2
    <3> QED BY <2>1, <2>3, <1>2, <3>3
  <2> QED BY <2>2, <2>3
<1>6. UsersHeard'
  BY <1>3, <1>5 DEF UsersHeard, UserTurnsHeard
<1>7. ASSUME ~mixed' PROVE CallsHaveReply'
  <2>1. \A i \in DOMAIN mem' : mem'[i] \in ATurn
    BY <1>3
  <2>2. \A i \in DOMAIN mem' : mem'[i].id \in Nat
    BY <2>1, Zenon DEF ATurn
  <2>3. ASSUME NEW i \in DOMAIN mem', mem'[i].kind = "call"
        PROVE  mem'[i].id < 10 * query' + (IF phase' \in Quiet THEN 10 ELSE 0) /\ OneReply(mem', i)
    <3>1. mem'[i].id < 10 * query + 10 /\ OneReply(mem', i)
      BY <1>3, <1>4, <1>7, <2>3
    <3>2. mem'[i].id < 10 * query'
      BY <1>1, <1>4, <2>2, <3>1
    <3>3. mem'[i].id < 10 * query' + (IF phase' \in Quiet THEN 10 ELSE 0)
      BY <1>4, <2>2, <3>2
    <3> QED BY <3>1, <3>3
  <2> QED BY <2>3 DEF CallsHaveReply, OneReply
<1> QED BY <1>1, <1>6, <1>7

LEMMA AskStep == ASSUME SessionInv, Ask PROVE SessionInv'
<1>1. SessionTypes'
  BY SessionTyped DEF SessionInv, Next, Llm
<1>2. /\ phase = "asking" /\ client = "live" /\ Writes /\ phase' = "streaming" /\ turns' = <<>>
      /\ UNCHANGED <<users, cli, stream, client, unread, mixed>>
  BY DEF Ask, flagVars
<1>3. /\ query' = query + 1 /\ inbox' = Append(inbox, query') /\ UsersHeard' /\ (~mixed' => CallsHaveReply')
  BY <1>1, <1>2, QueryWritten
<1>4. query \in Nat
  BY DEF SessionInv, SessionTypes
<1>5. ASSUME ~unread' PROVE OneQuery' /\ ToldFits' /\ StageFits'
  <2>1. NothingComes
    BY <1>2, <1>5 DEF SessionInv, OneQuery, Quiet
  <2>2. inbox' = <<query'>> /\ cli'.stage = "idle" /\ stream' = <<>> /\ turns' = <<>>
    BY <2>1, <1>2, <1>3 DEF NothingComes
  <2>3. OneQuery'
    BY <1>2, <2>2 DEF OneQuery, Quiet
  <2>4. DOMAIN Told' = {}
    BY <2>2 DEF Told
  <2>5. \A u : ~WasTold(u)'
    BY <2>4 DEF WasTold
  <2>6. ToldFits'
    BY <2>2, <2>4 DEF ToldFits
  <2>7. StageFits'
    BY <1>2, <2>2, <2>5 DEF StageFits
  <2> QED BY <2>3, <2>6, <2>7
<1>6. phase' \notin Quiet /\ query' > 0 /\ (unread' => mixed')
  BY <1>2, <1>3, <1>4 DEF SessionInv, Quiet
<1> QED BY <1>1, <1>3, <1>5, <1>6 DEF SessionInv

LEMMA StopAskingStep == ASSUME SessionInv, StopAsking PROVE SessionInv'
<1>1. SessionTypes'
  BY SessionTyped DEF SessionInv, Next, Stops
<1>2. /\ phase = "asking" /\ Writes /\ phase' = "idle" /\ turns' = <<>> /\ users' = users
      /\ unread' = TRUE /\ mixed' = TRUE
  BY DEF StopAsking, LlmEnds, LeavesUnread
<1>3. UsersHeard'
  <2>1. PICK kept \in Contents :
          mem' = kept /\ heard' = [u \in DOMAIN heard |-> IF u \in Pending(kept) THEN query' ELSE heard[u]]
    BY <1>2 DEF Writes
  <2>2. /\ \A i \in DOMAIN mem' : mem'[i].kind = "user" => mem'[i].id \in 1..users
        /\ \A i, j \in DOMAIN mem' :
               i < j /\ mem'[i].kind = "user" /\ mem'[j].kind # "user" => heard[mem'[i].id] # 0
    BY <2>1, Trimmed
  <2>3. query \in Nat /\ query' = query + 1 /\ heard \in [1..MaxUsers -> Nat] /\ users \in 0..MaxUsers
    BY <1>2 DEF SessionInv, SessionTypes, Writes
  <2>4. \A u \in DOMAIN heard : heard[u] # 0 => heard'[u] # 0
    BY <2>1, <2>3
  <2>5. \A i \in 1..users : i \in DOMAIN heard
    BY <2>3, BoundTyped
  <2>6. phase' \notin Busy
    BY <1>2 DEF Busy
  <2> QED BY <1>2, <2>2, <2>4, <2>5, <2>6 DEF UsersHeard, UserTurnsHeard
<1> QED BY <1>1, <1>2, <1>3 DEF SessionInv, Busy

LEMMA ToldIs ==
  ASSUME SessionTypes
  PROVE  /\ Len(turns) \in Nat /\ Len(stream) \in Nat
         /\ DOMAIN turns = 1..Len(turns) /\ DOMAIN stream = 1..Len(stream)
         /\ DOMAIN Told = 1..(Len(turns) + Len(stream))
         /\ \A i \in DOMAIN turns : i \in DOMAIN Told /\ Told[i] = turns[i].uuid
         /\ \A i \in DOMAIN stream : Len(turns) + i \in DOMAIN Told /\ Told[Len(turns) + i] = stream[i]
         /\ \A i \in DOMAIN Told : i \in DOMAIN turns \/ i - Len(turns) \in DOMAIN stream
<1>1. Len(turns) \in Nat /\ Len(stream) \in Nat
      /\ DOMAIN turns = 1..Len(turns) /\ DOMAIN stream = 1..Len(stream)
  BY DEF SessionTypes
<1>2. DOMAIN Told = 1..(Len(turns) + Len(stream))
  BY DEF Told
<1>3. \A i \in DOMAIN Told : Told[i] = IF i <= Len(turns) THEN turns[i].uuid ELSE stream[i - Len(turns)]
  BY <1>2 DEF Told
<1>4. \A i \in DOMAIN turns : i \in DOMAIN Told /\ Told[i] = turns[i].uuid
  BY <1>1, <1>2, <1>3
<1>5. \A i \in DOMAIN stream : Len(turns) + i \in DOMAIN Told /\ Told[Len(turns) + i] = stream[i]
  BY <1>1, <1>2, <1>3
<1> QED BY <1>1, <1>2, <1>4, <1>5

\* A message that is read was told before.
LEMMA ToldRead ==
  ASSUME SessionTypes, SessionTypes', stream # <<>>, stream' = Tail(stream),
         NEW t \in ATurn, t.uuid = Head(stream), turns' = Append(turns, t)
  PROVE  Told' = Told
<1> DEFINE n == Len(turns)
           m == Len(stream)
<1>1. turns \in Seq(ATurn) /\ stream \in Seq(Nat) /\ n \in Nat /\ m \in Nat /\ m > 0
  BY DEF SessionTypes
<1>2. /\ Len(turns') = n + 1 /\ Len(stream') = m - 1
      /\ \A i \in 1..n : turns'[i] = turns[i]
      /\ turns'[n + 1] = t
      /\ \A i \in 1..(m - 1) : stream'[i] = stream[i + 1]
      /\ Head(stream) = stream[1]
  BY <1>1
<1> HIDE DEF n, m
<1>3. (n + 1) + (m - 1) = n + m
  BY <1>1
<1>4. Told' = [i \in 1..(n + m) |-> IF i <= n + 1 THEN turns'[i].uuid ELSE stream'[i - (n + 1)]]
  BY <1>2, <1>3 DEF Told
<1>5. Told = [i \in 1..(n + m) |-> IF i <= n THEN turns[i].uuid ELSE stream[i - n]]
  BY DEF Told, n, m
<1>6. ASSUME NEW i \in 1..(n + m)
      PROVE  (IF i <= n + 1 THEN turns'[i].uuid ELSE stream'[i - (n + 1)])
                = (IF i <= n THEN turns[i].uuid ELSE stream[i - n])
  <2>1. CASE i <= n
    BY <1>1, <1>2, <2>1
  <2>2. CASE i = n + 1
    BY <1>1, <1>2, <2>2
  <2>3. CASE i > n + 1
    <3>1. i - (n + 1) \in 1..(m - 1) /\ (i - (n + 1)) + 1 = i - n
      BY <1>1, <2>3
    <3>2. PICK j \in 1..(m - 1) : j = i - (n + 1)
      BY <3>1
    <3>3. stream'[j] = stream[j + 1] /\ j + 1 = i - n
      BY <1>2, <3>1, <3>2
    <3>4. ~(i <= n + 1) /\ ~(i <= n)
      BY <1>1, <2>3
    <3> QED BY <3>2, <3>3, <3>4
  <2>4. i \in Nat /\ (i <= n \/ i = n + 1 \/ i > n + 1)
    BY <1>1
  <2> QED BY <2>1, <2>2, <2>3, <2>4
<1> QED BY <1>4, <1>5, <1>6

\* What the process writes is told behind the rest.
LEMMA ToldGrows ==
  ASSUME SessionTypes, SessionTypes', turns' = turns, NEW said \in Seq(Nat), stream' = stream \o said
  PROVE  /\ Len(said) \in Nat /\ DOMAIN said = 1..Len(said)
         /\ DOMAIN Told' = 1..(Len(turns) + Len(stream) + Len(said))
         /\ \A i \in DOMAIN Told : i \in DOMAIN Told' /\ Told'[i] = Told[i]
         /\ \A i \in DOMAIN said :
                /\ Len(turns) + Len(stream) + i \in DOMAIN Told'
                /\ Told'[Len(turns) + Len(stream) + i] = said[i]
         /\ \A i \in DOMAIN Told' :
                i \in DOMAIN Told \/ i - (Len(turns) + Len(stream)) \in DOMAIN said
<1> DEFINE n == Len(turns)
           m == Len(stream)
<1>1. stream \in Seq(Nat) /\ n \in Nat /\ m \in Nat /\ Len(said) \in Nat /\ DOMAIN said = 1..Len(said)
  BY DEF SessionTypes
<1>2. /\ Len(turns') = n /\ Len(stream') = m + Len(said)
      /\ \A i \in 1..m : stream'[i] = stream[i]
      /\ \A i \in 1..Len(said) : stream'[m + i] = said[i]
  BY <1>1
<1> HIDE DEF n, m
<1>3. Told' = [i \in 1..(n + m + Len(said)) |-> IF i <= n THEN turns[i].uuid ELSE stream'[i - n]]
  <2>1. n + (m + Len(said)) = n + m + Len(said)
    BY <1>1
  <2> QED BY <1>2, <2>1 DEF Told
<1>4. Told = [i \in 1..(n + m) |-> IF i <= n THEN turns[i].uuid ELSE stream[i - n]]
  BY DEF Told, n, m
<1>5. ASSUME NEW i \in DOMAIN Told PROVE i \in DOMAIN Told' /\ Told'[i] = Told[i]
  <2>1. i \in 1..(n + m) /\ i \in 1..(n + m + Len(said))
    BY <1>1, <1>4, <1>5
  <2>2. CASE i <= n
    BY <2>1, <2>2, <1>3, <1>4
  <2>3. CASE i > n
    <3>1. i - n \in 1..m
      BY <1>1, <2>1, <2>3
    <3> QED BY <1>1, <2>1, <2>3, <3>1, <1>2, <1>3, <1>4
  <2> QED BY <1>1, <2>1, <2>2, <2>3
<1>6. ASSUME NEW i \in DOMAIN said
      PROVE  n + m + i \in DOMAIN Told' /\ Told'[n + m + i] = said[i]
  <2>1. n + m + i \in 1..(n + m + Len(said)) /\ n + m + i > n /\ (n + m + i) - n = m + i
        /\ i \in 1..Len(said)
    BY <1>1, <1>6
  <2>2. ~(n + m + i <= n)
    BY <1>1, <2>1
  <2> QED BY <2>1, <2>2, <1>2, <1>3
<1>7. DOMAIN Told' = 1..(n + m + Len(said)) /\ DOMAIN Told = 1..(n + m)
  BY <1>3, <1>4
<1>8. \A i \in DOMAIN Told' : i \in DOMAIN Told \/ i - (n + m) \in DOMAIN said
  BY <1>1, <1>7
<1> QED BY <1>1, <1>5, <1>6, <1>7, <1>8 DEF n, m

LEMMA ReadStep == ASSUME SessionInv, Read PROVE SessionInv'
<1>1. SessionTypes /\ SessionTypes'
  BY SessionTyped DEF SessionInv, Next, Llm
<1>2. /\ phase = "streaming" /\ stream # <<>> /\ stream' = Tail(stream)
      /\ UNCHANGED <<mem, heard, users, cli, inbox, client, query, unread, mixed>>
      /\ IF IsResult(Head(stream))
         THEN \/ phase' = "finishing" /\ turns' = turns /\ Head(stream) = 1
              \/ phase' = "idle" /\ turns' = <<>>
         ELSE turns' = Append(turns, TurnOf(Head(stream))) /\ phase' = phase
  BY DEF Read, Message, LlmEnds, memoryVars, flagVars,
         Result
<1>3. stream \in Seq(Nat) /\ turns \in Seq(ATurn) /\ Head(stream) \in Nat /\ phase \in Busy
  BY <1>1, <1>2 DEF SessionTypes, Busy
<1>4. query > 0 /\ (unread => mixed)
  BY <1>3 DEF SessionInv
<1>c. phase' \in Busy => (~mixed' => CallsHaveReply')
  BY <1>2 DEF SessionInv, CallsHaveReply, OneReply, Busy, Quiet
<1>5. CASE phase' = "idle"
  <2>1. IsResult(Head(stream)) /\ turns' = <<>>
    BY <1>2, <1>5
  <2>2. unread' \/ NothingComes'
    BY <1>2, <1>3, <2>1, ResultLast DEF NothingComes
  <2> QED BY <1>1, <1>2, <1>4, <1>5, <2>1, <2>2, GoesQuiet DEF Quiet
<1>6. CASE phase' = "finishing"
  <2>1. IsResult(Head(stream)) /\ turns' = turns /\ Head(stream) = 1
    BY <1>2, <1>6
  <2>2. UsersHeard'
    BY <1>2, <1>3, <2>1 DEF SessionInv, UsersHeard, UserTurnsHeard
  <2>3. ASSUME ~unread' PROVE OneQuery' /\ ToldFits' /\ StageFits'
    <3>1. ToldFits /\ StageFits /\ OneQuery
      BY <1>2, <2>3 DEF SessionInv
    <3>2. cli.stage = "idle" /\ inbox = <<>> /\ Len(stream) = 1 /\ stream' = <<>>
      BY <1>2, <1>3, <2>1, <2>3, ResultLast
    <3>3. NothingComes' /\ OneQuery'
      BY <1>2, <3>2 DEF NothingComes, OneQuery
    <3>4. /\ DOMAIN Told = 1..(Len(turns) + 1) /\ DOMAIN Told' = 1..Len(turns) /\ Len(turns) \in Nat
          /\ \A i \in DOMAIN Told' : i \in DOMAIN Told /\ Told'[i] = Told[i]
          /\ \A i \in DOMAIN Told : i \in DOMAIN Told' \/ i = Len(turns) + 1
          /\ Told[Len(turns) + 1] = 1
      <4>1. DOMAIN Told = 1..(Len(turns) + 1) /\ Len(turns) \in Nat /\ Told[Len(turns) + 1] = 1
        BY <1>1, <1>3, <2>1, <3>2, ToldIs
      <4>2. DOMAIN Told' = 1..Len(turns)
        BY <2>1, <3>2, <4>1 DEF Told
      <4>3. \A i \in 1..Len(turns) : Told[i] = turns[i].uuid
        BY <1>1, <4>1, ToldIs
      <4>4. \A i \in 1..Len(turns) : Told'[i] = turns[i].uuid
        BY <2>1, <3>2, <4>1 DEF Told
      <4> QED BY <4>1, <4>2, <4>3, <4>4
    <3>5. ToldFits'
      <4>1. \A i \in DOMAIN turns' : turns'[i].uuid \in Entries' /\ turns'[i] = TurnOf(turns'[i].uuid)
        BY <1>2, <2>1, <3>1 DEF ToldFits, Entries
      <4>2. \A i, j \in DOMAIN Told' : Told'[i] = Told'[j] => i = j
        BY <3>1, <3>4 DEF ToldFits
      <4>3. ASSUME NEW k \in {1, 2}, NEW j \in DOMAIN Told', Told'[j] = ReplyEntry(query, k)
            PROVE  \E i \in DOMAIN Told' : i < j /\ Told'[i] = CallEntry(query, k)
        <5>1. PICK i \in DOMAIN Told : i < j /\ Told[i] = CallEntry(query, k)
          BY <3>1, <3>4, <4>3 DEF ToldFits
        <5>2. i \in DOMAIN Told'
          BY <3>4, <5>1
        <5> QED BY <3>4, <5>1, <5>2
      <4> QED BY <1>2, <3>2, <4>1, <4>2, <4>3 DEF ToldFits
    <3>6. WasTold(1)
      BY <3>4 DEF WasTold
    <3>7. \A u : WasTold(u)' => WasTold(u)
      BY <3>4 DEF WasTold
    <3>8. \A u : u # 1 /\ WasTold(u) => WasTold(u)'
      BY <3>4 DEF WasTold
    <3>9. \A k \in {1, 2} : ReplyEntry(query, k) # 1
      BY <1>1, <1>4 DEF ReplyEntry, SessionTypes
    <3>10. NoCallSaid \/ RepliesSaid
      BY <3>1, <3>6 DEF StageFits
    <3>11. NoCallSaid' \/ RepliesSaid'
      BY <1>2, <3>7, <3>8, <3>9, <3>10 DEF NoCallSaid, RepliesSaid
    <3>12. StageFits'
      BY <1>2, <3>2, <3>11 DEF StageFits
    <3> QED BY <3>3, <3>5, <3>12
  <2>4. phase' \notin Quiet /\ query' > 0 /\ (unread' => mixed')
    BY <1>2, <1>4, <1>6 DEF Quiet
  <2> QED BY <1>1, <1>6, <1>c, <2>2, <2>3, <2>4 DEF SessionInv, Busy
<1>7. CASE ~IsResult(Head(stream))
  <2> DEFINE t == TurnOf(Head(stream))
  <2>1. turns' = Append(turns, t) /\ phase' = phase
    BY <1>2, <1>7
  <2>2. t \in ATurn /\ t.uuid = Head(stream) /\ t.kind # "user"
    BY <1>3, TurnOfMessage
  <2> HIDE DEF t
  <2>3. Told' = Told
    BY <1>1, <1>2, <2>1, <2>2, ToldRead
  <2>4. /\ DOMAIN turns' = 1..(Len(turns) + 1) /\ Len(turns) \in Nat
        /\ \A i \in DOMAIN turns' : (i \in DOMAIN turns /\ turns'[i] = turns[i]) \/ turns'[i] = t
    BY <1>3, <2>1, <2>2
  <2>5. UsersHeard'
    <3>1. \A i \in DOMAIN turns' : turns'[i].kind # "user"
      BY <2>2, <2>4 DEF SessionInv, UsersHeard
    <3> QED BY <1>2, <2>1, <3>1 DEF SessionInv, UsersHeard, UserTurnsHeard
  <2>6. ASSUME ~unread' PROVE OneQuery' /\ ToldFits' /\ StageFits'
    <3>1. ToldFits /\ StageFits /\ OneQuery
      BY <1>2, <2>6 DEF SessionInv
    <3>2. 1 \in DOMAIN stream /\ stream[1] = Head(stream) /\ Len(stream') = Len(stream) - 1
          /\ \A i \in DOMAIN stream' : i + 1 \in DOMAIN stream /\ stream'[i] = stream[i + 1]
      BY <1>2, <1>3
    <3>3. Head(stream) \in Entries
      BY <1>7, <3>1, <3>2 DEF ToldFits, IsResult
    <3>4. OneQuery'
      <4>1. inbox = <<>>
        BY <1>2, <3>1 DEF OneQuery
      <4>2. client # "dead"
        BY <1>2, <3>1 DEF OneQuery, NothingComes
      <4> QED BY <1>2, <2>1, <3>1, <4>1, <4>2 DEF OneQuery, Quiet
    <3>5. ToldFits'
      <4>1. \A i \in DOMAIN turns' : turns'[i].uuid \in Entries' /\ turns'[i] = TurnOf(turns'[i].uuid)
        <5>1. t = TurnOf(t.uuid)
          BY <2>2 DEF t
        <5> QED BY <1>2, <2>2, <2>4, <3>1, <3>3, <5>1 DEF ToldFits, Entries
      <4>2. ASSUME NEW i \in DOMAIN stream'
            PROVE  \/ stream'[i] \in Entries'
                   \/ stream'[i] \in {1, 2} /\ i = Len(stream') /\ cli'.stage = "idle" /\ inbox' = <<>>
        <5>1. \/ stream[i + 1] \in Entries
              \/ stream[i + 1] \in {1, 2} /\ i + 1 = Len(stream) /\ cli.stage = "idle" /\ inbox = <<>>
          BY <3>1, <3>2, <4>2 DEF ToldFits
        <5>2. i \in Nat /\ Len(stream) \in Nat
          BY <1>1, <4>2 DEF SessionTypes
        <5>3. Entries' = Entries
          BY <1>2 DEF Entries
        <5> QED BY <1>2, <3>2, <4>2, <5>1, <5>2, <5>3
      <4> QED BY <1>2, <2>3, <3>1, <4>1, <4>2 DEF ToldFits
    <3>6. \A u : WasTold(u)' = WasTold(u)
      BY <2>3 DEF WasTold
    <3>7. cli.stage # "asked"
      BY <1>2, <3>1 DEF StageFits
    <3>8. StageFits'
      BY <1>2, <2>1, <3>1, <3>6, <3>7 DEF StageFits, CallsSaid, NoCallSaid, RepliesSaid, NoReplySaid
    <3> QED BY <3>4, <3>5, <3>8
  <2>7. phase' \notin Quiet /\ query' > 0 /\ (unread' => mixed') /\ phase' \in Busy
    BY <1>2, <1>4, <2>1 DEF Quiet, Busy
  <2> QED BY <1>1, <1>c, <2>5, <2>6, <2>7 DEF SessionInv
<1> QED BY <1>2, <1>5, <1>6, <1>7

\* A stop while the answer is read or just after.
LEMMA StopStreamingStep == ASSUME SessionInv, StopStreaming PROVE SessionInv'
<1>1. SessionTypes /\ SessionTypes'
  BY SessionTyped DEF SessionInv, Next, Stops
<1>2. /\ phase \in {"streaming", "finishing"} /\ phase' = "draining"
      /\ UNCHANGED <<mem, heard, users, cli, inbox, stream, client, turns, query, unread, mixed>>
  BY DEF StopStreaming, memoryVars, cliVars, flagVars
<1>3. Told' = Told
  BY <1>2 DEF Told
<1>4. \A u : WasTold(u)' = WasTold(u)
  BY <1>3 DEF WasTold
<1>5. UsersHeard'
  BY <1>2 DEF SessionInv, UsersHeard, UserTurnsHeard, Busy
<1>6. ASSUME ~unread' PROVE OneQuery' /\ ToldFits' /\ StageFits'
  <2>1. ToldFits /\ StageFits /\ OneQuery
    BY <1>2, <1>6 DEF SessionInv
  <2>2. OneQuery'
    BY <1>2, <2>1 DEF OneQuery, Quiet, NothingComes
  <2>3. ToldFits'
    BY <1>2, <1>3, <2>1 DEF ToldFits, Entries
  <2>4. StageFits'
    BY <1>2, <1>4, <2>1 DEF StageFits, CallsSaid, NoCallSaid, RepliesSaid, NoReplySaid
  <2> QED BY <2>2, <2>3, <2>4
<1>7. ~mixed' => CallsHaveReply'
  BY <1>2 DEF SessionInv, CallsHaveReply, OneReply, Quiet
<1>8. phase' \notin Quiet /\ query' > 0 /\ (unread' => mixed')
  BY <1>2 DEF SessionInv, Quiet, Busy
<1> QED BY <1>1, <1>5, <1>6, <1>7, <1>8 DEF SessionInv

LEMMA ProcessGoes ==
  ASSUME SessionInv, SessionTypes', UNCHANGED <<mem, heard, users, query, turns, phase, unread, mixed>>,
         ~unread => OneQuery' /\ ToldFits' /\ StageFits'
  PROVE  SessionInv'
<1>1. UsersHeard'
  BY DEF SessionInv, UsersHeard, UserTurnsHeard
<1>2. ~mixed' => CallsHaveReply'
  BY DEF SessionInv, CallsHaveReply, OneReply
<1> QED BY <1>1, <1>2 DEF SessionInv

\* While the process works on a query, llm() reads or drains, and no query has ended.
LEMMA AtWork ==
  ASSUME SessionInv, ~unread, cli.stage # "idle"
  PROVE  /\ phase \in {"streaming", "draining"} /\ query > 0 /\ client # "dead"
         /\ cli.n = query /\ inbox = <<>> /\ ToldFits /\ StageFits
         /\ \A i \in DOMAIN stream : stream[i] \in Entries
         /\ ~WasTold(1) /\ ~WasTold(2)
<1>1. OneQuery /\ ToldFits /\ StageFits /\ SessionTypes
  BY DEF SessionInv
<1>2. phase \in {"streaming", "draining"} /\ client # "dead" /\ cli.n = query /\ inbox = <<>>
  BY <1>1 DEF OneQuery, NothingComes, SessionTypes, Quiet, Busy
<1>3. query > 0 /\ query \in Nat
  BY <1>1, <1>2 DEF SessionInv, SessionTypes, Busy
<1>4. \A i \in DOMAIN stream : stream[i] \in Entries
  BY <1>1 DEF ToldFits
<1>5. \A i \in DOMAIN Told : Told[i] \in Entries
  <2> TAKE i \in DOMAIN Told
  <2>1. CASE i \in DOMAIN turns
    BY <2>1, <1>1, ToldIs DEF ToldFits
  <2>2. CASE i - Len(turns) \in DOMAIN stream
    <3>1. PICK j \in DOMAIN stream : j = i - Len(turns)
      BY <2>2
    <3>2. Len(turns) + j = i
      BY <1>1, <3>1, ToldIs
    <3> QED BY <3>2, <1>1, <1>4, ToldIs
  <2> QED BY <1>1, <2>1, <2>2, ToldIs
<1>6. 1 \notin Entries /\ 2 \notin Entries
  BY <1>3 DEF Entries, CallEntry, ReplyEntry, TextEntry
<1> QED BY <1>1, <1>2, <1>3, <1>4, <1>5, <1>6 DEF WasTold

\* What is told next is new, its results follow their calls, and what ends the query is last.
LEMMA ToldFurther ==
  ASSUME SessionInv, SessionTypes', ~unread, cli.stage # "idle", turns' = turns, query' = query,
         NEW said \in Seq(Nat), stream' = stream \o said, inbox' = <<>>,
         \A i \in DOMAIN said :
            /\ ~WasTold(said[i])
            /\ \/ said[i] \in Entries
               \/ said[i] \in {1, 2} /\ i = Len(said) /\ cli'.stage = "idle",
         \A i, j \in DOMAIN said : said[i] = said[j] => i = j,
         \A k \in {1, 2}, j \in DOMAIN said : said[j] = ReplyEntry(query, k) =>
            WasTold(CallEntry(query, k))
  PROVE  ToldFits' /\ \A u : WasTold(u)' <=> WasTold(u) \/ \E i \in DOMAIN said : said[i] = u
<1> DEFINE n == Len(turns) + Len(stream)
<1>1. SessionTypes /\ ToldFits /\ \A i \in DOMAIN stream : stream[i] \in Entries
  BY AtWork DEF SessionInv
<1>2. /\ Len(said) \in Nat /\ DOMAIN said = 1..Len(said)
      /\ DOMAIN Told' = 1..(n + Len(said))
      /\ \A i \in DOMAIN Told : i \in DOMAIN Told' /\ Told'[i] = Told[i]
      /\ \A i \in DOMAIN said : n + i \in DOMAIN Told' /\ Told'[n + i] = said[i]
      /\ \A i \in DOMAIN Told' : i \in DOMAIN Told \/ i - n \in DOMAIN said
  BY <1>1, ToldGrows
<1>3. n \in Nat /\ DOMAIN Told = 1..n /\ Len(stream) \in Nat /\ DOMAIN stream = 1..Len(stream)
      /\ stream \in Seq(Nat)
  BY <1>1, ToldIs DEF SessionTypes
<1> HIDE DEF n
<1>4. ASSUME NEW i \in DOMAIN Told'
      PROVE  \/ i \in DOMAIN Told /\ Told'[i] = Told[i]
             \/ \E j \in DOMAIN said : i = n + j /\ Told'[i] = said[j]
  <2>1. CASE i \in DOMAIN Told
    BY <2>1, <1>2
  <2>2. CASE i - n \in DOMAIN said
    <3>1. PICK j \in DOMAIN said : j = i - n
      BY <2>2
    <3>2. i = n + j
      BY <1>2, <1>3, <3>1
    <3> QED BY <1>2, <3>2
  <2> QED BY <1>2, <2>1, <2>2
<1>5. \A u : WasTold(u)' <=> WasTold(u) \/ \E i \in DOMAIN said : said[i] = u
  <2> TAKE u
  <2>1. WasTold(u)' => WasTold(u) \/ \E i \in DOMAIN said : said[i] = u
    BY <1>4 DEF WasTold
  <2>2. WasTold(u) \/ (\E i \in DOMAIN said : said[i] = u) => WasTold(u)'
    BY <1>2 DEF WasTold
  <2> QED BY <2>1, <2>2
<1>6. \A i \in DOMAIN turns' : turns'[i].uuid \in Entries' /\ turns'[i] = TurnOf(turns'[i].uuid)
  BY <1>1 DEF ToldFits, Entries
<1>7. ASSUME NEW i \in DOMAIN stream'
      PROVE  \/ stream'[i] \in Entries'
             \/ stream'[i] \in {1, 2} /\ i = Len(stream') /\ cli'.stage = "idle" /\ inbox' = <<>>
  <2>1. Len(stream') = Len(stream) + Len(said) /\ i \in 1..(Len(stream) + Len(said)) /\ Entries' = Entries
    BY <1>2, <1>3, <1>7 DEF Entries
  <2>2. CASE i <= Len(stream)
    <3>1. i \in DOMAIN stream /\ stream'[i] = stream[i]
      BY <1>2, <1>3, <2>1, <2>2
    <3> QED BY <1>1, <2>1, <3>1
  <2>3. CASE i > Len(stream)
    <3>1. PICK j \in DOMAIN said : j = i - Len(stream)
      BY <1>2, <1>3, <2>1, <2>3
    <3>2. stream'[i] = said[j]
      BY <1>2, <1>3, <2>1, <2>3, <3>1
    <3>3. j = Len(said) => i = Len(stream')
      BY <1>2, <1>3, <2>1, <3>1
    <3> QED BY <2>1, <3>2, <3>3
  <2> QED BY <1>3, <2>1, <2>2, <2>3
<1>8. ASSUME NEW i \in DOMAIN Told', NEW j \in DOMAIN Told', Told'[i] = Told'[j]
      PROVE  i = j
  <2>1. CASE i \in DOMAIN Told /\ j \in DOMAIN Told
    BY <2>1, <1>1, <1>2, <1>8 DEF ToldFits
  <2>2. CASE i \notin DOMAIN Told /\ j \notin DOMAIN Told
    BY <2>2, <1>4, <1>8
  <2>3. CASE i \in DOMAIN Told /\ j \notin DOMAIN Told
    <3>1. WasTold(Told'[j])
      BY <2>3, <1>2, <1>8 DEF WasTold
    <3> QED BY <2>3, <3>1, <1>4
  <2>4. CASE j \in DOMAIN Told /\ i \notin DOMAIN Told
    <3>1. WasTold(Told'[i])
      BY <2>4, <1>2, <1>8 DEF WasTold
    <3> QED BY <2>4, <3>1, <1>4
  <2> QED BY <2>1, <2>2, <2>3, <2>4
<1>9. ASSUME NEW k \in {1, 2}, NEW j \in DOMAIN Told', Told'[j] = ReplyEntry(query, k)
      PROVE  \E i \in DOMAIN Told' : i < j /\ Told'[i] = CallEntry(query, k)
  <2>1. CASE j \in DOMAIN Told
    <3>1. PICK i \in DOMAIN Told : i < j /\ Told[i] = CallEntry(query, k)
      BY <2>1, <1>1, <1>2, <1>9 DEF ToldFits
    <3> QED BY <3>1, <1>2
  <2>2. CASE j \notin DOMAIN Told
    <3>1. PICK l \in DOMAIN said : j = n + l /\ Told'[j] = said[l]
      BY <2>2, <1>4
    <3>2. WasTold(CallEntry(query, k))
      BY <3>1, <1>9
    <3>3. PICK i \in DOMAIN Told : Told[i] = CallEntry(query, k)
      BY <3>2 DEF WasTold
    <3>4. i < j
      BY <1>2, <1>3, <3>1, <3>3
    <3> QED BY <1>2, <3>3, <3>4
  <2> QED BY <2>1, <2>2
<1>10. ToldFits'
  BY <1>6, <1>7, <1>8, <1>9 DEF ToldFits
<1> QED BY <1>5, <1>10

\* The entries of a query, the two messages that are none, all differ.
LEMMA EntriesDiffer ==
  ASSUME query \in Nat, query > 0
  PROVE  LET c1 == CallEntry(query, 1)  c2 == CallEntry(query, 2)
             r1 == ReplyEntry(query, 1) r2 == ReplyEntry(query, 2)
             t == TextEntry(query)
         IN  /\ c1 \in Nat /\ c2 \in Nat /\ r1 \in Nat /\ r2 \in Nat /\ t \in Nat
             /\ c1 > 2 /\ c2 > 2 /\ r1 > 2 /\ r2 > 2 /\ t > 2
             /\ c1 # c2 /\ r1 # r2 /\ c1 # r1 /\ c1 # r2 /\ c2 # r1 /\ c2 # r2
             /\ t # c1 /\ t # c2 /\ t # r1 /\ t # r2
BY DEF CallEntry, ReplyEntry, TextEntry

LEMMA CliTakesStep == ASSUME SessionInv, CliTakes PROVE SessionInv'
<1>1. SessionTypes /\ SessionTypes'
  BY SessionTyped DEF SessionInv, Next, Process
<1>2. /\ client = "live" /\ cli.stage = "idle" /\ inbox # <<>>
      /\ cli' = [n |-> Head(inbox), stage |-> "asked"] /\ inbox' = Tail(inbox)
      /\ UNCHANGED <<mem, heard, users, query, turns, phase, unread, mixed, stream, client>>
  BY DEF CliTakes, memoryVars, flagVars
<1>3. ASSUME ~unread PROVE OneQuery' /\ ToldFits' /\ StageFits'
  <2>1. OneQuery
    BY <1>3 DEF SessionInv
  <2>2. inbox = <<query>> /\ stream = <<>> /\ turns = <<>> /\ phase \notin Quiet \cup {"finishing"}
    BY <1>2, <2>1 DEF OneQuery, NothingComes
  <2>3. inbox' = <<>> /\ cli'.n = query' /\ cli'.stage = "asked" /\ stream' = <<>> /\ turns' = <<>>
    BY <1>1, <1>2, <2>2
  <2>4. OneQuery'
    BY <1>2, <2>2, <2>3 DEF OneQuery
  <2>5. DOMAIN Told' = {}
    BY <2>3 DEF Told
  <2>6. \A u : ~WasTold(u)'
    BY <2>5 DEF WasTold
  <2>7. ToldFits'
    BY <2>3, <2>5 DEF ToldFits
  <2>8. StageFits'
    BY <1>2, <2>2, <2>3, <2>6 DEF StageFits
  <2> QED BY <2>4, <2>7, <2>8
<1> QED BY <1>1, <1>2, <1>3, ProcessGoes

LEMMA CliCallsStep == ASSUME SessionInv, CliCalls PROVE SessionInv'
<1>1. SessionTypes /\ SessionTypes'
  BY SessionTyped DEF SessionInv, Next, Process
<1> DEFINE said == <<CallEntry(cli.n, 1), CallEntry(cli.n, 2)>>
<1>2. /\ cli.stage = "asked" /\ cli' = [cli EXCEPT !.stage = "called"]
      /\ stream' = stream \o said
      /\ UNCHANGED <<mem, heard, users, query, turns, phase, unread, mixed, inbox, client>>
  BY Zenon DEF CliCalls, Writing, memoryVars, flagVars
<1>3. ASSUME ~unread PROVE OneQuery' /\ ToldFits' /\ StageFits'
  <2>1. /\ phase \in {"streaming", "draining"} /\ query > 0 /\ client # "dead"
        /\ cli.n = query /\ inbox = <<>> /\ StageFits
    BY <1>2, <1>3, AtWork
  <2>2. query \in Nat /\ cli'.stage = "called" /\ cli'.n = query
    BY <1>1, <1>2, <2>1 DEF SessionTypes
  <2>3. turns = <<>> /\ stream = <<>>
    BY <1>2, <2>1 DEF StageFits
  <2>4. \A u : ~WasTold(u)
    BY <2>3 DEF WasTold, Told
  <2> DEFINE c1 == CallEntry(query, 1)
             c2 == CallEntry(query, 2)
  <2>5. /\ c1 \in Nat /\ c2 \in Nat /\ c1 # c2 /\ c1 \in Entries /\ c2 \in Entries /\ c1 > 2 /\ c2 > 2
        /\ \A k \in {1, 2} : ReplyEntry(query, k) \notin {c1, c2}
        /\ TextEntry(query) \notin {c1, c2}
    BY <2>1, <2>2, EntriesDiffer DEF Entries
  <2>6. said = <<c1, c2>>
    BY <2>1
  <2> HIDE DEF c1, c2, said
  <2>7. /\ said \in Seq(Nat) /\ Len(said) = 2 /\ DOMAIN said = {1, 2} /\ said[1] = c1 /\ said[2] = c2
    BY <2>5, <2>6
  <2>8. ToldFits' /\ \A u : WasTold(u)' <=> WasTold(u) \/ \E i \in DOMAIN said : said[i] = u
    <3>1. \A i \in DOMAIN said : ~WasTold(said[i]) /\ said[i] \in Entries
      BY <2>4, <2>5, <2>7
    <3>2. \A i, j \in DOMAIN said : said[i] = said[j] => i = j
      BY <2>5, <2>7
    <3>3. \A k \in {1, 2}, j \in DOMAIN said : said[j] # ReplyEntry(query, k)
      BY <2>5, <2>7
    <3>4. cli.stage # "idle" /\ inbox' = <<>> /\ query' = query /\ turns' = turns /\ stream' = stream \o said
      BY <1>2, <2>1
    <3> QED BY <1>1, <1>3, <2>7, <3>1, <3>2, <3>3, <3>4, ToldFurther
  <2>9. \A u : WasTold(u)' <=> u = c1 \/ u = c2
    BY <2>4, <2>7, <2>8
  <2>10. StageFits'
    <3>1. CallsSaid' /\ NoReplySaid' /\ ~WasTold(TextEntry(query))' /\ ~WasTold(1)'
      BY <1>2, <2>5, <2>9 DEF CallsSaid, NoReplySaid, c1, c2
    <3> QED BY <1>2, <2>1, <2>2, <3>1 DEF StageFits
  <2>11. OneQuery'
    BY <1>2, <2>1, <2>2 DEF OneQuery, Quiet
  <2> QED BY <2>8, <2>10, <2>11
<1> QED BY <1>1, <1>2, <1>3, ProcessGoes

LEMMA CliRepliesStep == ASSUME SessionInv, CliReplies PROVE SessionInv'
<1>1. SessionTypes /\ SessionTypes'
  BY SessionTyped DEF SessionInv, Next, Process
<1> DEFINE a == ReplyEntry(cli.n, 1)
           b == ReplyEntry(cli.n, 2)
<1>2. /\ cli.stage = "called" /\ cli' = [cli EXCEPT !.stage = "replied"]
      /\ \E said \in {<<a, b>>, <<b, a>>} : stream' = stream \o said
      /\ UNCHANGED <<mem, heard, users, query, turns, phase, unread, mixed, inbox, client>>
  BY Zenon DEF CliReplies, Writing, memoryVars, flagVars
<1>3. PICK said \in {<<a, b>>, <<b, a>>} : stream' = stream \o said
  BY <1>2
<1>4. ASSUME ~unread PROVE OneQuery' /\ ToldFits' /\ StageFits'
  <2>1. /\ phase \in {"streaming", "draining"} /\ query > 0 /\ client # "dead"
        /\ cli.n = query /\ inbox = <<>> /\ StageFits /\ ~WasTold(1)
    BY <1>2, <1>4, AtWork
  <2>2. query \in Nat /\ cli'.stage = "replied" /\ cli'.n = query
    BY <1>1, <1>2, <2>1 DEF SessionTypes
  <2>3. CallsSaid /\ NoReplySaid /\ ~WasTold(TextEntry(query))
    BY <1>2, <2>1 DEF StageFits
  <2> DEFINE r1 == ReplyEntry(query, 1)
             r2 == ReplyEntry(query, 2)
  <2>4. /\ r1 \in Nat /\ r2 \in Nat /\ r1 # r2 /\ r1 \in Entries /\ r2 \in Entries /\ r1 > 2 /\ r2 > 2
        /\ TextEntry(query) \notin {r1, r2}
    BY <2>1, <2>2, EntriesDiffer DEF Entries
  <2>5. said = <<r1, r2>> \/ said = <<r2, r1>>
    BY <2>1
  <2>c. WasTold(CallEntry(query, 1)) /\ WasTold(CallEntry(query, 2))
        /\ ~WasTold(r1) /\ ~WasTold(r2)
    BY <2>3 DEF CallsSaid, NoReplySaid
  <2> HIDE DEF r1, r2
  <2>6. /\ said \in Seq(Nat) /\ Len(said) = 2 /\ DOMAIN said = {1, 2}
        /\ (said[1] = r1 /\ said[2] = r2) \/ (said[1] = r2 /\ said[2] = r1)
    <3>1. CASE said = <<r1, r2>>
      BY <2>4, <3>1
    <3>2. CASE said = <<r2, r1>>
      BY <2>4, <3>2
    <3> QED BY <2>5, <3>1, <3>2
  <2>7. ToldFits' /\ \A u : WasTold(u)' <=> WasTold(u) \/ \E i \in DOMAIN said : said[i] = u
    <3>1. \A i \in DOMAIN said : ~WasTold(said[i]) /\ said[i] \in Entries
      <4>1. \A i \in DOMAIN said : said[i] = r1 \/ said[i] = r2
        BY <2>6
      <4> QED BY <2>c, <2>4, <4>1
    <3>2. \A i, j \in DOMAIN said : said[i] = said[j] => i = j
      BY <2>4, <2>6
    <3>3. \A k \in {1, 2}, j \in DOMAIN said : WasTold(CallEntry(query, k))
      BY <2>c
    <3>4. cli.stage # "idle" /\ inbox' = <<>> /\ query' = query /\ turns' = turns /\ stream' = stream \o said
      BY <1>2, <1>3, <2>1
    <3> QED BY <1>1, <1>4, <2>6, <3>1, <3>2, <3>3, <3>4, ToldFurther
  <2>8. \A u : WasTold(u)' <=> WasTold(u) \/ u = r1 \/ u = r2
    BY <2>6, <2>7
  <2>9. StageFits'
    <3>1. CallsSaid' /\ RepliesSaid' /\ ~WasTold(TextEntry(query))' /\ ~WasTold(1)'
      BY <1>2, <2>1, <2>3, <2>c, <2>4, <2>8 DEF CallsSaid, RepliesSaid, r1, r2
    <3> QED BY <1>2, <2>1, <2>2, <3>1 DEF StageFits
  <2>10. OneQuery'
    BY <1>2, <2>1, <2>2 DEF OneQuery, Quiet
  <2> QED BY <2>7, <2>9, <2>10
<1> QED BY <1>1, <1>2, <1>4, ProcessGoes

LEMMA CliAnswersStep == ASSUME SessionInv, CliAnswers PROVE SessionInv'
<1>1. SessionTypes /\ SessionTypes'
  BY SessionTyped DEF SessionInv, Next, Process
<1> DEFINE said == <<TextEntry(cli.n), Result(TRUE)>>
<1>2. /\ cli.stage \in {"asked", "replied"} /\ cli' = [cli EXCEPT !.stage = "idle"]
      /\ stream' = stream \o said
      /\ UNCHANGED <<mem, heard, users, query, turns, phase, unread, mixed, inbox, client>>
  BY Zenon DEF CliAnswers, Writing, memoryVars, flagVars
<1>3. ASSUME ~unread PROVE OneQuery' /\ ToldFits' /\ StageFits'
  <2>0. cli.stage # "idle"
    BY <1>2
  <2>1. /\ phase \in {"streaming", "draining"} /\ query > 0 /\ client # "dead"
        /\ cli.n = query /\ inbox = <<>> /\ StageFits /\ ~WasTold(1)
    BY <2>0, <1>3, AtWork
  <2>2. query \in Nat /\ cli'.stage = "idle" /\ cli'.n = query
    BY <1>1, <1>2, <2>1 DEF SessionTypes
  <2> DEFINE t == TextEntry(query)
  <2>3. t \in Nat /\ t > 2 /\ t \in Entries /\ (\A k \in {1, 2} : ReplyEntry(query, k) \notin {t, 1})
        /\ (\A k \in {1, 2} : CallEntry(query, k) \notin {t, 1})
    BY <2>1, <2>2, EntriesDiffer DEF Entries
  <2>4. said = <<t, 1>>
    BY <2>1 DEF Result
  <2>5. ~WasTold(t) /\ (NoCallSaid \/ RepliesSaid)
    <3>1. CASE cli.stage = "asked"
      BY <2>1, <3>1 DEF StageFits, NoCallSaid, WasTold, Told
    <3>2. CASE cli.stage = "replied"
      BY <2>1, <3>2 DEF StageFits
    <3> QED BY <1>2, <2>0, <2>1, <3>1, <3>2 DEF StageFits
  <2> HIDE DEF t, said
  <2>6. /\ said \in Seq(Nat) /\ Len(said) = 2 /\ DOMAIN said = {1, 2} /\ said[1] = t /\ said[2] = 1
    BY <2>3, <2>4
  <2>7. ToldFits' /\ \A u : WasTold(u)' <=> WasTold(u) \/ \E i \in DOMAIN said : said[i] = u
    <3>1. \A i \in DOMAIN said :
            /\ ~WasTold(said[i])
            /\ \/ said[i] \in Entries
               \/ said[i] \in {1, 2} /\ i = Len(said) /\ cli'.stage = "idle"
      BY <2>1, <2>2, <2>3, <2>5, <2>6
    <3>2. \A i, j \in DOMAIN said : said[i] = said[j] => i = j
      BY <2>3, <2>6
    <3>3. \A k \in {1, 2}, j \in DOMAIN said : said[j] # ReplyEntry(query, k)
      BY <2>3, <2>6
    <3>4. inbox' = <<>> /\ query' = query /\ turns' = turns /\ stream' = stream \o said
      BY <1>2, <2>1
    <3> QED BY <1>1, <1>3, <2>0, <2>6, <3>1, <3>2, <3>3, <3>4, ToldFurther
  <2>8. \A u : WasTold(u)' <=> WasTold(u) \/ u = t \/ u = 1
    BY <2>6, <2>7
  <2>9. StageFits'
    <3>1. NoCallSaid' \/ RepliesSaid'
      BY <1>2, <2>3, <2>5, <2>8 DEF NoCallSaid, RepliesSaid
    <3> QED BY <2>2, <3>1 DEF StageFits
  <2>10. OneQuery'
    BY <1>2, <2>1, <2>2 DEF OneQuery, Quiet
  <2> QED BY <2>7, <2>9, <2>10
<1> QED BY <1>1, <1>2, <1>3, ProcessGoes

LEMMA CliFailsStep == ASSUME SessionInv, CliFails \/ CliInterrupted PROVE SessionInv'
<1>1. SessionTypes /\ SessionTypes'
  BY SessionTyped DEF SessionInv, Next, Process
<1> DEFINE said == <<2>>
<1>2. /\ cli.stage # "idle" /\ cli' = [cli EXCEPT !.stage = "idle"]
      /\ stream' = stream \o said
      /\ UNCHANGED <<mem, heard, users, query, turns, phase, unread, mixed, inbox, client>>
  BY DEF CliFails, CliInterrupted, Writing, memoryVars, flagVars,
         Result
<1>3. ASSUME ~unread PROVE OneQuery' /\ ToldFits' /\ StageFits'
  <2>1. /\ phase \in {"streaming", "draining"} /\ query > 0 /\ client # "dead"
        /\ cli.n = query /\ inbox = <<>> /\ StageFits /\ ~WasTold(1) /\ ~WasTold(2)
    BY <1>2, <1>3, AtWork
  <2>2. query \in Nat /\ cli'.stage = "idle" /\ cli'.n = query
    BY <1>1, <1>2, <2>1 DEF SessionTypes
  <2>3. \A k \in {1, 2} : ReplyEntry(query, k) # 2
    BY <2>1, <2>2, EntriesDiffer
  <2>4. said \in Seq(Nat) /\ Len(said) = 1 /\ DOMAIN said = {1} /\ said[1] = 2
    OBVIOUS
  <2> HIDE DEF said
  <2>5. ToldFits' /\ \A u : WasTold(u)' <=> WasTold(u) \/ \E i \in DOMAIN said : said[i] = u
    <3>1. \A i \in DOMAIN said : ~WasTold(said[i]) /\ said[i] \in {1, 2} /\ i = Len(said) /\ cli'.stage = "idle"
      BY <2>1, <2>2, <2>4
    <3>2. \A i, j \in DOMAIN said : said[i] = said[j] => i = j
      BY <2>4
    <3>3. \A k \in {1, 2}, j \in DOMAIN said : said[j] # ReplyEntry(query, k)
      BY <2>3, <2>4
    <3>4. cli.stage # "idle" /\ inbox' = <<>> /\ query' = query /\ turns' = turns /\ stream' = stream \o said
      BY <1>2, <2>1
    <3> QED BY <1>1, <1>3, <2>4, <3>1, <3>2, <3>3, <3>4, ToldFurther
  <2>6. ~WasTold(1)'
    BY <2>1, <2>4, <2>5
  <2>7. StageFits'
    BY <1>2, <2>1, <2>2, <2>6 DEF StageFits
  <2>8. OneQuery'
    BY <1>2, <2>1, <2>2 DEF OneQuery, Quiet
  <2> QED BY <2>5, <2>7, <2>8
<1> QED BY <1>1, <1>2, <1>3, ProcessGoes

\* The process dies: what is read of its answer stays as it is.
LEMMA CliDiesStep == ASSUME SessionInv, CliDies PROVE SessionInv'
<1>1. SessionTypes /\ SessionTypes'
  BY SessionTyped DEF SessionInv, Next, Process
<1>2. /\ client' = "dead" /\ cli' = [n |-> 0, stage |-> "idle"] /\ inbox' = <<>> /\ stream' = <<>>
      /\ UNCHANGED <<mem, heard, users, query, turns, phase, unread, mixed>>
  BY DEF CliDies, CliGone, memoryVars, flagVars
<1>3. ASSUME ~unread PROVE OneQuery' /\ ToldFits' /\ StageFits'
  <2>1. OneQuery /\ ToldFits /\ StageFits
    BY <1>3 DEF SessionInv
  <2>2. OneQuery'
    BY <1>2 DEF OneQuery, NothingComes
  <2>3. DOMAIN Told' = 1..Len(turns) /\ Len(turns) \in Nat
        /\ \A i \in 1..Len(turns) : Told'[i] = turns[i].uuid /\ i \in DOMAIN Told /\ Told[i] = turns[i].uuid
    BY <1>1, <1>2, ToldIs DEF Told
  <2>4. ToldFits'
    <3>1. \A i \in DOMAIN turns' : turns'[i].uuid \in Entries' /\ turns'[i] = TurnOf(turns'[i].uuid)
      BY <1>2, <2>1 DEF ToldFits, Entries
    <3>2. \A i, j \in DOMAIN Told' : Told'[i] = Told'[j] => i = j
      BY <2>1, <2>3 DEF ToldFits
    <3>3. ASSUME NEW k \in {1, 2}, NEW j \in DOMAIN Told', Told'[j] = ReplyEntry(query, k)
          PROVE  \E i \in DOMAIN Told' : i < j /\ Told'[i] = CallEntry(query, k)
      <4>1. PICK i \in DOMAIN Told : i < j /\ Told[i] = CallEntry(query, k)
        BY <2>1, <2>3, <3>3 DEF ToldFits
      <4>2. i \in DOMAIN Told'
        BY <1>1, <2>3, <4>1, ToldIs
      <4> QED BY <2>3, <4>1, <4>2
    <3> QED BY <1>2, <3>1, <3>2, <3>3 DEF ToldFits
  <2>5. ASSUME phase = "finishing" PROVE NoCallSaid' \/ RepliesSaid'
    <3>1. stream = <<>> /\ (NoCallSaid \/ RepliesSaid)
      BY <2>1, <2>5 DEF OneQuery, NothingComes, StageFits
    <3>2. Told' = Told
      BY <1>2, <3>1 DEF Told
    <3>3. \A u : WasTold(u)' = WasTold(u)
      BY <3>2 DEF WasTold
    <3> QED BY <1>2, <3>1, <3>3 DEF NoCallSaid, RepliesSaid
  <2>6. phase # "idle" /\ phase \notin Quiet => ~WasTold(1)'
    <3>1. query \in Nat /\ (phase \notin Quiet => query > 0)
      BY <1>1 DEF SessionInv, SessionTypes
    <3>2. \A i \in DOMAIN Told' : Told'[i] \in Entries
      BY <1>1, <2>1, <2>3, ToldIs DEF ToldFits
    <3>3. phase \notin Quiet => 1 \notin Entries
      BY <3>1 DEF Entries, CallEntry, ReplyEntry, TextEntry
    <3> QED BY <3>2, <3>3 DEF WasTold
  <2>7. phase \in Quiet => ~WasTold(1)'
    BY <1>2, <2>3 DEF SessionInv, WasTold
  <2>8. StageFits'
    BY <1>2, <2>5, <2>6, <2>7 DEF StageFits, Quiet
  <2> QED BY <2>2, <2>4, <2>8
<1> QED BY <1>1, <1>2, <1>3, ProcessGoes

LEMMA SessionLostStep == ASSUME SessionInv, SessionLost PROVE SessionInv'
<1>1. SessionTypes /\ SessionTypes'
  BY SessionTyped DEF SessionInv, Next, Process
<1>2. UNCHANGED <<mem, heard, users, query, turns, phase, unread, mixed, cli, inbox, stream, client>>
  BY DEF SessionLost, memoryVars
<1>3. Told' = Told
  BY <1>2 DEF Told
<1>4. \A u : WasTold(u)' = WasTold(u)
  BY <1>3 DEF WasTold
<1>5. OneQuery /\ ToldFits /\ StageFits => OneQuery' /\ ToldFits' /\ StageFits'
  BY <1>2, <1>3, <1>4 DEF OneQuery, NothingComes, ToldFits, Entries, StageFits, CallsSaid, NoCallSaid,
                          RepliesSaid, NoReplySaid
<1> QED BY <1>1, <1>2, <1>5, ProcessGoes DEF SessionInv

\* A memory whose calls have their results goes on with turns whose calls have theirs.
LEMMA PairsJoined ==
  ASSUME NEW m \in Seq(ATurn), NEW add \in Seq(ATurn),
         \A i \in DOMAIN m : m[i].kind = "call" => OneReply(m, i),
         \A i \in DOMAIN add : add[i].kind = "call" => OneReply(add, i),
         \A i \in DOMAIN m, j \in DOMAIN add :
            m[i].kind = "call" /\ add[j].kind = "reply" => m[i].id # add[j].id
  PROVE  \A i \in DOMAIN (m \o add) : (m \o add)[i].kind = "call" => OneReply(m \o add, i)
<1> DEFINE n == Len(m)
           l == Len(add)
           both == m \o add
<1>1. /\ n \in Nat /\ l \in Nat /\ DOMAIN m = 1..n /\ DOMAIN add = 1..l /\ DOMAIN both = 1..(n + l)
      /\ \A i \in 1..n : both[i] = m[i]
      /\ \A i \in 1..l : both[n + i] = add[i]
  OBVIOUS
<1> HIDE DEF n, l, both
<1>2. \A i \in DOMAIN both : i \in 1..n \/ \E j \in 1..l : i = n + j
  <2> TAKE i \in DOMAIN both
  <2>1. CASE i <= n
    BY <1>1, <2>1
  <2>2. CASE i > n
    <3>1. i - n \in 1..l /\ i = n + (i - n)
      BY <1>1, <2>2
    <3> QED BY <3>1
  <2> QED BY <1>1, <2>1, <2>2
<1>3. ASSUME NEW i \in 1..n, both[i].kind = "call" PROVE OneReply(both, i)
  <2>1. m[i].kind = "call" /\ both[i] = m[i] /\ i \in DOMAIN m
    BY <1>1, <1>3
  <2>2. PICK j \in DOMAIN m :
          /\ i < j /\ m[j].kind = "reply" /\ m[j].id = m[i].id
          /\ \A k \in DOMAIN m : i < k /\ m[k].kind = "reply" /\ m[k].id = m[i].id => k = j
    BY <2>1 DEF OneReply
  <2>3. j \in DOMAIN both /\ both[j] = m[j]
    BY <1>1
  <2>4. ASSUME NEW k \in DOMAIN both, i < k, both[k].kind = "reply", both[k].id = both[i].id
        PROVE  k = j
    <3>1. CASE k \in 1..n
      BY <1>1, <2>1, <2>2, <2>4, <3>1
    <3>2. ASSUME NEW p \in 1..l, k = n + p PROVE FALSE
      <4>1. add[p].kind = "reply" /\ add[p].id = m[i].id /\ p \in DOMAIN add
        BY <1>1, <2>1, <2>4, <3>2
      <4> QED BY <2>1, <4>1
    <3> QED BY <1>2, <3>1, <3>2
  <2> QED BY <2>1, <2>2, <2>3, <2>4 DEF OneReply
<1>4. ASSUME NEW q \in 1..l, both[n + q].kind = "call" PROVE OneReply(both, n + q)
  <2>1. add[q].kind = "call" /\ both[n + q] = add[q] /\ q \in DOMAIN add
    BY <1>1, <1>4
  <2>2. PICK j \in DOMAIN add :
          /\ q < j /\ add[j].kind = "reply" /\ add[j].id = add[q].id
          /\ \A k \in DOMAIN add : q < k /\ add[k].kind = "reply" /\ add[k].id = add[q].id => k = j
    BY <2>1 DEF OneReply
  <2>3. n + j \in DOMAIN both /\ both[n + j] = add[j] /\ n + q < n + j
    BY <1>1, <2>2
  <2>4. ASSUME NEW k \in DOMAIN both, n + q < k, both[k].kind = "reply", both[k].id = both[n + q].id
        PROVE  k = n + j
    <3>1. CASE k \in 1..n
      BY <1>1, <2>4, <3>1
    <3>2. ASSUME NEW p \in 1..l, k = n + p PROVE k = n + j
      <4>1. q < p /\ add[p].kind = "reply" /\ add[p].id = add[q].id
        BY <1>1, <2>1, <2>4, <3>2
      <4> QED BY <1>1, <2>2, <3>2, <4>1
    <3> QED BY <1>2, <3>1, <3>2
  <2> QED BY <2>1, <2>2, <2>3, <2>4 DEF OneReply
<1>5. \A i \in DOMAIN both : both[i].kind = "call" => OneReply(both, i)
  BY <1>2, <1>3, <1>4
<1> QED BY <1>5 DEF both

\* The calls and results that were read of a query.
LEMMA TurnsRead ==
  ASSUME SessionTypes, query > 0, ToldFits
  PROVE  /\ \A i \in DOMAIN turns : turns[i].kind = "call" =>
                \E k \in {1, 2} : turns[i].uuid = CallEntry(query, k) /\ turns[i].id = turns[i].uuid
         /\ \A i \in DOMAIN turns : turns[i].kind = "reply" =>
                \E k \in {1, 2} : turns[i].uuid = ReplyEntry(query, k)
                                  /\ turns[i].id = CallEntry(query, k)
         /\ \A i \in DOMAIN turns : turns[i].kind \in {"call", "reply", "text"}
         /\ \A i, j \in DOMAIN turns : turns[i].uuid = turns[j].uuid => i = j
         /\ \A k \in {1, 2}, j \in DOMAIN turns : turns[j].uuid = ReplyEntry(query, k) =>
                turns[j].kind = "reply" /\ turns[j].id = CallEntry(query, k)
<1>1. query \in Nat
  BY DEF SessionTypes
<1>2. /\ \A u \in {CallEntry(query, 1), CallEntry(query, 2)} :
            IsCall(u) /\ ~IsReply(u)
      /\ \A k \in {1, 2} : LET u == ReplyEntry(query, k) IN
            IsReply(u) /\ ~IsCall(u) /\ CallOf(u) = CallEntry(query, k)
      /\ ~IsCall(TextEntry(query)) /\ ~IsReply(TextEntry(query))
  BY <1>1 DEF CallEntry, ReplyEntry, TextEntry, IsCall, IsReply,
              CallOf
<1>3. ASSUME NEW i \in DOMAIN turns
      PROVE  \/ /\ turns[i].kind = "call" /\ turns[i].id = turns[i].uuid
                /\ turns[i].uuid \in {CallEntry(query, 1), CallEntry(query, 2)}
             \/ /\ turns[i].kind = "reply"
                /\ \E k \in {1, 2} : turns[i].uuid = ReplyEntry(query, k)
                                     /\ turns[i].id = CallEntry(query, k)
             \/ turns[i].kind = "text" /\ turns[i].uuid = TextEntry(query)
  <2>1. turns[i].uuid \in Entries /\ turns[i] = TurnOf(turns[i].uuid)
    BY <1>3 DEF ToldFits
  <2> DEFINE u == turns[i].uuid
  <2>2. CASE u \in {CallEntry(query, 1), CallEntry(query, 2)}
    <3>1. turns[i] = [kind |-> "call", uuid |-> u, id |-> u]
      BY <1>2, <2>1, <2>2 DEF TurnOf, Turn
    <3> QED BY <2>2, <3>1
  <2>3. ASSUME NEW k \in {1, 2}, u = ReplyEntry(query, k)
        PROVE  turns[i].kind = "reply" /\ turns[i].id = CallEntry(query, k)
    <3>1. turns[i] = [kind |-> "reply", uuid |-> u, id |-> CallOf(u)]
      BY <1>2, <2>1, <2>3 DEF TurnOf, Turn
    <3> QED BY <1>2, <2>3, <3>1
  <2>4. CASE u = TextEntry(query)
    <3>1. turns[i] = [kind |-> "text", uuid |-> u, id |-> 0]
      BY <1>2, <2>1, <2>4 DEF TurnOf, Turn
    <3> QED BY <2>4, <3>1
  <2> QED BY <2>1, <2>2, <2>3, <2>4 DEF Entries
<1>4. ASSUME NEW i \in DOMAIN turns, NEW j \in DOMAIN turns, turns[i].uuid = turns[j].uuid
      PROVE  i = j
  BY <1>4, ToldIs DEF ToldFits
<1>5. \A k \in {1, 2} :
        /\ ReplyEntry(query, k) \notin {CallEntry(query, 1), CallEntry(query, 2)}
        /\ ReplyEntry(query, k) # TextEntry(query)
  BY <1>1, EntriesDiffer
<1>6. ReplyEntry(query, 1) # ReplyEntry(query, 2)
  BY <1>1, EntriesDiffer
<1>7. ASSUME NEW k \in {1, 2}, NEW j \in DOMAIN turns, turns[j].uuid = ReplyEntry(query, k)
      PROVE  turns[j].kind = "reply" /\ turns[j].id = CallEntry(query, k)
  BY <1>3, <1>5, <1>6, <1>7
<1>8. \A i \in DOMAIN turns : turns[i].kind = "call" =>
                \E k \in {1, 2} : turns[i].uuid = CallEntry(query, k) /\ turns[i].id = turns[i].uuid
  BY <1>3
<1>9. \A i \in DOMAIN turns : turns[i].kind = "reply" =>
                \E k \in {1, 2} : turns[i].uuid = ReplyEntry(query, k)
                                  /\ turns[i].id = CallEntry(query, k)
  BY <1>3
<1>10. \A i \in DOMAIN turns : turns[i].kind \in {"call", "reply", "text"}
  BY <1>3
<1> QED BY <1>4, <1>7, <1>8, <1>9, <1>10

\* llm() returns turns: they are put behind the memory.
LEMMA MemoryGrows ==
  ASSUME SessionInv, SessionTypes', phase \in Busy, phase' = "idle", turns' = <<>>,
         UNCHANGED <<heard, users, query>>, NEW add \in Seq(ATurn), mem' = mem \o add,
         \A i \in DOMAIN add : add[i].kind # "user",
         mixed => mixed', unread' => mixed', unread' \/ NothingComes',
         ~mixed' => \A i \in DOMAIN add :
            /\ add[i].kind = "call" => OneReply(add, i)
            /\ add[i].kind \in {"call", "reply"} => add[i].id \in (10 * query)..(10 * query + 9)
  PROVE  SessionInv'
<1>1. mem \in Seq(ATurn) /\ query \in Nat /\ SessionTypes
  BY DEF SessionInv, SessionTypes
<1> DEFINE n == Len(mem)
           l == Len(add)
<1>2. /\ n \in Nat /\ l \in Nat /\ DOMAIN mem = 1..n /\ DOMAIN add = 1..l /\ DOMAIN mem' = 1..(n + l)
      /\ \A i \in 1..n : mem'[i] = mem[i]
      /\ \A i \in 1..l : mem'[n + i] = add[i]
  BY <1>1
<1> HIDE DEF n, l
<1>3. ASSUME NEW i \in DOMAIN mem'
      PROVE  (i \in DOMAIN mem /\ mem'[i] = mem[i]) \/ \E j \in DOMAIN add : i = n + j /\ mem'[i] = add[j]
  <2>1. CASE i <= n
    BY <1>2, <2>1
  <2>2. CASE i > n
    <3>1. PICK j \in 1..l : i = n + j
      <4>1. i - n \in 1..l /\ i = n + (i - n)
        BY <1>2, <2>2
      <4> QED BY <4>1
    <3> QED BY <1>2, <3>1
  <2> QED BY <1>2, <2>1, <2>2
<1>4. \A i \in DOMAIN mem' : mem'[i].kind = "user" => i \in DOMAIN mem /\ mem'[i] = mem[i]
  BY <1>3
<1>5. UsersHeard'
  <2>1. \A i \in DOMAIN mem' : mem'[i].kind = "user" => mem'[i].id \in 1..users /\ heard[mem'[i].id] # 0
    BY <1>4 DEF SessionInv, UsersHeard
  <2>2. phase' \notin Busy
    BY DEF Busy
  <2> QED BY <2>1, <2>2 DEF UsersHeard, UserTurnsHeard
<1>6. ASSUME ~mixed' PROVE CallsHaveReply'
  <2>1. \A i \in DOMAIN mem : mem[i].kind = "call" => mem[i].id < 10 * query /\ OneReply(mem, i)
    <3>1. phase \notin Quiet
      BY DEF Quiet, Busy
    <3>2. \A i \in DOMAIN mem : mem[i] \in ATurn
      BY <1>1
    <3>3. \A i \in DOMAIN mem : mem[i].id \in Nat
      BY <3>2, Zenon DEF ATurn
    <3>4. \A i \in DOMAIN mem : mem[i].kind = "call" => mem[i].id < 10 * query + 0 /\ OneReply(mem, i)
      BY <1>6, <3>1 DEF SessionInv, CallsHaveReply
    <3> QED BY <1>1, <3>3, <3>4
  <2>2. \A i \in DOMAIN add :
            /\ add[i].kind = "call" => OneReply(add, i)
            /\ add[i].kind \in {"call", "reply"} => add[i].id \in (10 * query)..(10 * query + 9)
    BY <1>6
  <2>3. \A i \in DOMAIN mem, j \in DOMAIN add :
            mem[i].kind = "call" /\ add[j].kind = "reply" => mem[i].id # add[j].id
    <3> TAKE i \in DOMAIN mem, j \in DOMAIN add
    <3> HAVE mem[i].kind = "call" /\ add[j].kind = "reply"
    <3>1. mem[i].id < 10 * query /\ add[j].id \in (10 * query)..(10 * query + 9) /\ mem[i] \in ATurn
      BY <1>1, <2>1, <2>2
    <3>2. mem[i].id \in Nat
      BY <3>1 DEF ATurn
    <3> QED BY <1>1, <3>1, <3>2
  <2>4. \A i \in DOMAIN (mem \o add) : (mem \o add)[i].kind = "call" => OneReply(mem \o add, i)
    BY <1>1, <2>1, <2>2, <2>3, PairsJoined
  <2>5. ASSUME NEW i \in DOMAIN mem', mem'[i].kind = "call"
        PROVE  mem'[i].id < 10 * query' + 10
    <3>1. CASE i \in DOMAIN mem /\ mem'[i] = mem[i]
      <4>1. mem[i].id < 10 * query /\ mem[i] \in ATurn
        BY <1>1, <2>1, <2>5, <3>1
      <4>2. mem[i].id \in Nat
        BY <4>1 DEF ATurn
      <4> QED BY <1>1, <3>1, <4>1, <4>2
    <3>2. ASSUME NEW j \in DOMAIN add, mem'[i] = add[j] PROVE mem'[i].id < 10 * query' + 10
      <4>1. add[j].id \in (10 * query)..(10 * query + 9)
        BY <2>2, <2>5, <3>2
      <4> QED BY <1>1, <3>2, <4>1
    <3> QED BY <1>3, <3>1, <3>2
  <2>6. ASSUME NEW i \in DOMAIN mem', mem'[i].kind = "call" PROVE OneReply(mem', i)
    BY <2>4, <2>6
  <2>7. phase' \in Quiet
    BY DEF Quiet
  <2> QED BY <2>5, <2>6, <2>7 DEF CallsHaveReply, OneReply
<1>7. ~unread' => OneQuery' /\ ToldFits' /\ StageFits'
  BY QuietFits DEF Quiet
<1>8. phase' \in Quiet /\ phase' \notin Busy
  BY DEF Quiet, Busy
<1> QED BY <1>5, <1>6, <1>7, <1>8 DEF SessionInv

LEMMA FinishStep == ASSUME SessionInv, Finish PROVE SessionInv'
<1>1. SessionTypes /\ SessionTypes'
  BY SessionTyped DEF SessionInv, Next, Llm
<1>2. /\ phase = "finishing" /\ mem' = mem \o turns /\ phase' = "idle" /\ turns' = <<>>
      /\ UNCHANGED <<heard, users, query, cli, inbox, stream, unread, mixed>>
  BY DEF Finish, LlmEnds, cliVars, flagVars
<1>3. turns \in Seq(ATurn) /\ query \in Nat /\ query > 0 /\ (unread => mixed)
  BY <1>1, <1>2 DEF SessionInv, SessionTypes, Busy
<1>4. \A i \in DOMAIN turns : turns[i].kind # "user"
  BY DEF SessionInv, UsersHeard
<1>5. unread' \/ NothingComes'
  BY <1>2 DEF SessionInv, OneQuery, NothingComes
<1>6. ASSUME ~mixed
      PROVE  \A i \in DOMAIN turns :
                /\ turns[i].kind = "call" => OneReply(turns, i)
                /\ turns[i].kind \in {"call", "reply"} => turns[i].id \in (10 * query)..(10 * query + 9)
  <2>1. ToldFits /\ StageFits /\ OneQuery
    BY <1>3, <1>6 DEF SessionInv
  <2>2. stream = <<>> /\ (NoCallSaid \/ RepliesSaid)
    BY <1>2, <2>1 DEF OneQuery, NothingComes, StageFits
  <2>3. /\ \A i \in DOMAIN turns : turns[i].kind = "call" =>
                \E k \in {1, 2} : turns[i].uuid = CallEntry(query, k) /\ turns[i].id = turns[i].uuid
        /\ \A i \in DOMAIN turns : turns[i].kind = "reply" =>
                \E k \in {1, 2} : turns[i].uuid = ReplyEntry(query, k)
                                  /\ turns[i].id = CallEntry(query, k)
        /\ \A i, j \in DOMAIN turns : turns[i].uuid = turns[j].uuid => i = j
        /\ \A k \in {1, 2}, j \in DOMAIN turns : turns[j].uuid = ReplyEntry(query, k) =>
                turns[j].kind = "reply" /\ turns[j].id = CallEntry(query, k)
    BY <1>1, <1>3, <2>1, TurnsRead
  <2>4. DOMAIN Told = DOMAIN turns /\ \A i \in DOMAIN turns : Told[i] = turns[i].uuid
    BY <1>1, <2>2, ToldIs
  <2>5. ASSUME NEW i \in DOMAIN turns, turns[i].kind = "call" PROVE OneReply(turns, i)
    <3>1. PICK k \in {1, 2} : turns[i].uuid = CallEntry(query, k) /\ turns[i].id = turns[i].uuid
      BY <2>3, <2>5
    <3>2. WasTold(CallEntry(query, k))
      BY <2>4, <3>1 DEF WasTold
    <3>3. WasTold(ReplyEntry(query, k))
      BY <2>2, <3>2 DEF NoCallSaid, RepliesSaid
    <3>4. PICK j \in DOMAIN turns : turns[j].uuid = ReplyEntry(query, k)
      BY <2>4, <3>3 DEF WasTold
    <3>5. turns[j].kind = "reply" /\ turns[j].id = turns[i].id
      BY <2>3, <3>1, <3>4
    <3>6. i < j
      <4>1. PICK c \in DOMAIN Told : c < j /\ Told[c] = CallEntry(query, k)
        BY <2>1, <2>4, <3>4 DEF ToldFits
      <4>2. c = i
        BY <2>3, <2>4, <3>1, <4>1
      <4> QED BY <4>1, <4>2
    <3>7. ASSUME NEW q \in DOMAIN turns, turns[q].kind = "reply", turns[q].id = turns[i].id
          PROVE  q = j
      <4>1. PICK p \in {1, 2} : turns[q].uuid = ReplyEntry(query, p)
                                /\ turns[q].id = CallEntry(query, p)
        BY <2>3, <3>7
      <4>2. p = k
        BY <1>3, <3>1, <3>7, <4>1 DEF CallEntry
      <4> QED BY <2>3, <3>4, <4>1, <4>2
    <3> QED BY <3>5, <3>6, <3>7 DEF OneReply
  <2>6. \A k \in {1, 2} : CallEntry(query, k) \in (10 * query)..(10 * query + 9)
    BY <1>3 DEF CallEntry
  <2>7. ASSUME NEW i \in DOMAIN turns, turns[i].kind \in {"call", "reply"}
        PROVE  turns[i].id \in (10 * query)..(10 * query + 9)
    BY <2>3, <2>6, <2>7
  <2> QED BY <2>5, <2>7
<1> QED BY <1>1, <1>2, <1>3, <1>4, <1>5, <1>6, MemoryGrows DEF Busy

\* What a stopped llm() returns: its turns, a result for every call without one, a notice.
Partial == turns \o Unpaired \o <<Turn("note", NoUuid, 0)>>

LEMMA PartialIs ==
  ASSUME SessionTypes
  PROVE  /\ Partial \in Seq(ATurn)
         /\ DOMAIN Partial = 1..(Len(turns) + Len(Unpaired) + 1)
         /\ Len(turns) \in Nat /\ Len(Unpaired) \in Nat
         /\ \A i \in 1..Len(turns) : Partial[i] = turns[i]
         /\ \A k \in 1..Len(Unpaired) : Partial[Len(turns) + k] = Unpaired[k]
         /\ Partial[Len(turns) + Len(Unpaired) + 1] = Turn("note", NoUuid, 0)
         /\ \A i \in DOMAIN Partial :
                \/ i \in 1..Len(turns)
                \/ \E k \in 1..Len(Unpaired) : i = Len(turns) + k
                \/ i = Len(turns) + Len(Unpaired) + 1
<1> DEFINE u == Unpaired
           note == Turn("note", NoUuid, 0)
           n == Len(turns)
           l == Len(u)
<1>1. turns \in Seq(ATurn) /\ u \in Seq(ATurn) /\ note \in ATurn
  BY ResultsAdded DEF SessionTypes, ATurn, Turn, NoUuid, Kinds
<1>2. n \in Nat /\ l \in Nat
  BY <1>1
<1>3. Partial = (turns \o u) \o <<note>>
  BY DEF Partial
<1> HIDE DEF u, note
<1>4. /\ turns \o u \in Seq(ATurn) /\ Len(turns \o u) = n + l
      /\ \A i \in 1..n : (turns \o u)[i] = turns[i]
      /\ \A k \in 1..l : (turns \o u)[n + k] = u[k]
  BY <1>1
<1>5. /\ Partial \in Seq(ATurn) /\ Len(Partial) = n + l + 1
      /\ \A i \in 1..(n + l) : Partial[i] = (turns \o u)[i]
      /\ Partial[n + l + 1] = note
  BY <1>1, <1>3, <1>4
<1>6. DOMAIN Partial = 1..(n + l + 1)
  BY <1>5
<1> HIDE DEF n, l
<1>7. \A i \in 1..n : i \in 1..(n + l)
  BY <1>2
<1>8. \A k \in 1..l : n + k \in 1..(n + l)
  BY <1>2
<1>9. ASSUME NEW i \in 1..(n + l + 1)
      PROVE  i \in 1..n \/ (\E k \in 1..l : i = n + k) \/ i = n + l + 1
  <2>1. CASE i <= n
    BY <1>2, <2>1
  <2>2. CASE i > n /\ i <= n + l
    <3>1. i - n \in 1..l /\ i = n + (i - n)
      BY <1>2, <2>2
    <3> QED BY <3>1
  <2>3. CASE i = n + l + 1
    BY <2>3
  <2> QED BY <1>2, <2>1, <2>2, <2>3
<1>10. \A i \in 1..n : Partial[i] = turns[i]
  BY <1>4, <1>5, <1>7
<1>11. \A k \in 1..l : Partial[n + k] = u[k]
  BY <1>4, <1>5, <1>8
<1> QED BY <1>2, <1>5, <1>6, <1>9, <1>10, <1>11 DEF n, l, u, note

LEMMA Joined ==
  ASSUME NEW S, NEW a \in Seq(S), NEW b \in Seq(S), NEW c \in Seq(S)
  PROVE  (a \o b) \o c = a \o (b \o c)
OBVIOUS

\* Its calls have one result each, read or added.
LEMMA PartialPaired ==
  ASSUME SessionTypes, query > 0, ToldFits
  PROVE  \A i \in DOMAIN Partial :
            /\ Partial[i].kind = "call" => OneReply(Partial, i)
            /\ Partial[i].kind \in {"call", "reply"} => Partial[i].id \in (10 * query)..(10 * query + 9)
<1> DEFINE u == Unpaired
           n == Len(turns)
           l == Len(u)
<1>1. /\ Partial \in Seq(ATurn) /\ DOMAIN Partial = 1..(n + l + 1) /\ n \in Nat /\ l \in Nat
      /\ \A i \in 1..n : Partial[i] = turns[i]
      /\ \A k \in 1..l : Partial[n + k] = u[k]
      /\ Partial[n + l + 1] = Turn("note", NoUuid, 0)
      /\ \A i \in DOMAIN Partial : i \in 1..n \/ (\E k \in 1..l : i = n + k) \/ i = n + l + 1
  BY PartialIs
<1>2. PICK w \in [1..l -> Unanswered] :
        /\ \A k \in 1..l : u[k] = Turn("reply", NoUuid, turns[w[k]].id)
        /\ \A k, p \in 1..l : w[k] = w[p] => k = p
        /\ \A i \in Unanswered : \E k \in 1..l : w[k] = i
  BY ResultsAdded
<1>3. /\ \A i \in DOMAIN turns : turns[i].kind = "call" =>
              \E k \in {1, 2} : turns[i].uuid = CallEntry(query, k) /\ turns[i].id = turns[i].uuid
      /\ \A i \in DOMAIN turns : turns[i].kind = "reply" =>
              \E k \in {1, 2} : turns[i].uuid = ReplyEntry(query, k)
                                /\ turns[i].id = CallEntry(query, k)
      /\ \A i, j \in DOMAIN turns : turns[i].uuid = turns[j].uuid => i = j
      /\ query \in Nat /\ DOMAIN turns = 1..n
  BY TurnsRead, ToldIs DEF SessionTypes
<1>4. \A i \in Unanswered : i \in 1..n /\ turns[i].kind = "call"
        /\ \A j \in 1..n : turns[j].kind = "reply" => turns[j].id # turns[i].id
  BY <1>3 DEF Unanswered, Elements
<1>5. \A i \in 1..n : turns[i].kind = "call" /\ i \notin Unanswered =>
        \E j \in 1..n : turns[j].kind = "reply" /\ turns[j].id = turns[i].id
  BY <1>3 DEF Unanswered, Elements
<1> HIDE DEF u, n, l
<1>6. \A k \in 1..l : w[k] \in 1..n /\ turns[w[k]].kind = "call" /\ w[k] \in Unanswered
  BY <1>2, <1>4
<1>7. ASSUME NEW k \in 1..l
      PROVE  Partial[n + k].kind = "reply" /\ Partial[n + k].id = turns[w[k]].id
  <2>1. Partial[n + k] = u[k]
    BY <1>1
  <2>2. u[k] = Turn("reply", NoUuid, turns[w[k]].id)
    BY <1>2
  <2>3. Partial[n + k] = [kind |-> "reply", uuid |-> NoUuid, id |-> turns[w[k]].id]
    BY <2>1, <2>2 DEF Turn
  <2> QED BY <2>3
<1>8. Partial[n + l + 1].kind = "note"
  BY <1>1 DEF Turn
<1>9. \A i, j \in 1..n : turns[i].kind = "call" /\ turns[j].kind = "call" /\ turns[i].id = turns[j].id => i = j
  BY <1>3
<1>10. \A i, j \in 1..n : turns[i].kind = "reply" /\ turns[j].kind = "reply" /\ turns[i].id = turns[j].id
          => i = j
  <2> TAKE i, j \in 1..n
  <2> HAVE turns[i].kind = "reply" /\ turns[j].kind = "reply" /\ turns[i].id = turns[j].id
  <2>1. PICK k \in {1, 2} : turns[i].uuid = ReplyEntry(query, k) /\ turns[i].id = CallEntry(query, k)
    BY <1>3
  <2>2. PICK p \in {1, 2} : turns[j].uuid = ReplyEntry(query, p) /\ turns[j].id = CallEntry(query, p)
    BY <1>3
  <2>3. k = p
    <3>1. CallEntry(query, k) = CallEntry(query, p)
      BY <2>1, <2>2
    <3>2. 10 * query + k = 10 * query + p
      BY <3>1, <1>3 DEF CallEntry
    <3>3. 10 * query \in Nat
      BY <1>3
    <3> QED BY <3>2, <3>3
  <2> QED BY <1>3, <2>1, <2>2, <2>3
<1>11. ASSUME NEW i \in 1..n, NEW j \in 1..n, turns[i].kind = "call", turns[j].kind = "reply",
              turns[j].id = turns[i].id
       PROVE  i < j
  <2>1. PICK k \in {1, 2} : turns[i].uuid = CallEntry(query, k) /\ turns[i].id = turns[i].uuid
    BY <1>3, <1>11
  <2>2. PICK p \in {1, 2} : turns[j].uuid = ReplyEntry(query, p) /\ turns[j].id = CallEntry(query, p)
    BY <1>3, <1>11
  <2>3. k = p
    BY <1>3, <1>11, <2>1, <2>2 DEF CallEntry
  <2>4. j \in DOMAIN Told /\ Told[j] = ReplyEntry(query, k) /\ i \in DOMAIN Told
        /\ Told[i] = CallEntry(query, k)
    BY <1>3, <2>1, <2>2, <2>3, ToldIs
  <2>5. PICK c \in DOMAIN Told : c < j /\ Told[c] = CallEntry(query, k)
    BY <2>4 DEF ToldFits
  <2>6. c = i
    BY <2>4, <2>5 DEF ToldFits
  <2> QED BY <2>5, <2>6
<1>12. ASSUME NEW i \in DOMAIN Partial, Partial[i].kind = "call"
       PROVE  OneReply(Partial, i)
  <2>1. i \in 1..n /\ turns[i].kind = "call" /\ Partial[i] = turns[i]
    <3>1. i \in 1..n
      BY <1>1, <1>7, <1>8, <1>12
    <3> QED BY <3>1, <1>1, <1>12
  <2>2. CASE i \in Unanswered
    <3>1. PICK k \in 1..l : w[k] = i
      BY <1>2, <2>2
    <3>2. /\ n + k \in DOMAIN Partial /\ i < n + k
          /\ Partial[n + k].kind = "reply" /\ Partial[n + k].id = Partial[i].id
      BY <1>1, <1>7, <2>1, <3>1
    <3>3. ASSUME NEW q \in DOMAIN Partial, Partial[q].kind = "reply", Partial[q].id = Partial[i].id
          PROVE  q = n + k
      <4>1. q \notin 1..n
        BY <1>1, <1>4, <2>1, <2>2, <3>3
      <4>2. PICK p \in 1..l : q = n + p
        BY <1>1, <1>8, <3>3, <4>1
      <4>3. turns[w[p]].id = turns[i].id
        BY <1>7, <2>1, <3>3, <4>2
      <4>4. w[p] = w[k]
        BY <1>6, <1>9, <2>1, <3>1, <4>3
      <4> QED BY <1>2, <4>2, <4>4
    <3> QED BY <3>2, <3>3 DEF OneReply
  <2>3. CASE i \notin Unanswered
    <3>1. PICK j \in 1..n : turns[j].kind = "reply" /\ turns[j].id = turns[i].id
      BY <1>5, <2>1, <2>3
    <3>2. /\ j \in DOMAIN Partial /\ i < j /\ Partial[j] = turns[j]
      BY <1>1, <1>11, <2>1, <3>1
    <3>3. ASSUME NEW q \in DOMAIN Partial, Partial[q].kind = "reply", Partial[q].id = Partial[i].id
          PROVE  q = j
      <4>1. CASE q \in 1..n
        BY <1>1, <1>10, <2>1, <3>1, <3>3, <4>1
      <4>2. ASSUME NEW p \in 1..l, q = n + p PROVE FALSE
        <5>1. turns[w[p]].id = turns[i].id
          BY <1>7, <2>1, <3>3, <4>2
        <5>2. w[p] = i
          BY <1>6, <1>9, <2>1, <5>1
        <5> QED BY <1>6, <2>3, <5>2
      <4> QED BY <1>1, <1>8, <3>3, <4>1, <4>2
    <3> QED BY <2>1, <3>1, <3>2, <3>3 DEF OneReply
  <2> QED BY <2>2, <2>3
<1>13. \A k \in {1, 2} : CallEntry(query, k) \in (10 * query)..(10 * query + 9)
  BY <1>3 DEF CallEntry
<1>14. \A i \in 1..n : turns[i].kind \in {"call", "reply"} => turns[i].id \in (10 * query)..(10 * query + 9)
  BY <1>3, <1>13
<1>15. ASSUME NEW i \in DOMAIN Partial, Partial[i].kind \in {"call", "reply"}
       PROVE  Partial[i].id \in (10 * query)..(10 * query + 9)
  <2>1. CASE i \in 1..n
    BY <1>1, <1>14, <1>15, <2>1
  <2>2. ASSUME NEW k \in 1..l, i = n + k PROVE Partial[i].id \in (10 * query)..(10 * query + 9)
    BY <1>6, <1>7, <1>14, <2>2
  <2> QED BY <1>1, <1>8, <1>15, <2>1, <2>2
<1> QED BY <1>12, <1>15

LEMMA DrainSteps == ASSUME SessionInv, Drained \/ DrainTimesOut PROVE SessionInv'
<1>1. SessionTypes /\ SessionTypes'
  BY SessionTyped DEF SessionInv, Next, Llm
<1>2. phase = "draining" /\ ReturnsPartial
  BY DEF Drained, DrainTimesOut
<1>3. /\ mem' = mem \o turns \o Unpaired \o <<Turn("note", NoUuid, 0)>>
      /\ phase' = "idle" /\ turns' = <<>> /\ UNCHANGED <<heard, users, query, cli, inbox>>
  BY <1>2 DEF ReturnsPartial, LlmEnds
<1>4. /\ mem \in Seq(ATurn) /\ turns \in Seq(ATurn) /\ Unpaired \in Seq(ATurn)
      /\ Turn("note", NoUuid, 0) \in ATurn /\ stream \in Seq(Nat) /\ query \in Nat
      /\ query > 0
  BY <1>1, <1>2, ResultsAdded
     DEF SessionInv, SessionTypes, ATurn, Turn, NoUuid, Kinds, Busy
<1>5. mem' = mem \o Partial
  <2> DEFINE u == Unpaired
             e == <<Turn("note", NoUuid, 0)>>
             t == turns \o u
  <2>0. \A a, b, c \in Seq(ATurn) : (a \o b) \o c = a \o (b \o c)
    BY Joined
  <2>1. e \in Seq(ATurn) /\ u \in Seq(ATurn) /\ mem \in Seq(ATurn) /\ turns \in Seq(ATurn)
    BY <1>4
  <2>2. mem' = ((mem \o turns) \o u) \o e /\ Partial = (turns \o u) \o e
    BY <1>3 DEF Partial
  <2> HIDE DEF u, e
  <2>3. (mem \o turns) \o u = mem \o (turns \o u)
    BY <2>0, <2>1, Zenon
  <2>4. t \in Seq(ATurn)
    BY <1>4, <2>1
  <2>5. mem' = (mem \o t) \o e /\ Partial = t \o e
    BY <2>2, <2>3
  <2> HIDE DEF t
  <2>6. (mem \o t) \o e = mem \o (t \o e)
    BY <2>0, <2>1, <2>4, Zenon
  <2> QED BY <2>5, <2>6
<1>6. Partial \in Seq(ATurn) /\ \A i \in DOMAIN Partial : Partial[i].kind # "user"
  <2>1. \A i \in DOMAIN turns : turns[i].kind # "user"
    BY DEF SessionInv, UsersHeard
  <2>2. PICK w \in [1..Len(Unpaired) -> Unanswered] :
          \A k \in 1..Len(Unpaired) :
            Unpaired[k] = Turn("reply", NoUuid, turns[w[k]].id)
    BY <1>1, ResultsAdded
  <2>3. ASSUME NEW k \in 1..Len(Unpaired) PROVE Unpaired[k].kind = "reply"
    <3>1. Unpaired[k] = Turn("reply", NoUuid, turns[w[k]].id)
      BY <2>2
    <3>2. Unpaired[k] = [kind |-> "reply", uuid |-> NoUuid, id |-> turns[w[k]].id]
      BY <3>1 DEF Turn
    <3> QED BY <3>2
  <2>4. Turn("note", NoUuid, 0).kind = "note"
    BY DEF Turn
  <2>5. DOMAIN turns = 1..Len(turns)
    BY <1>4
  <2>6. Partial \in Seq(ATurn)
    BY <1>1, PartialIs
  <2>7. ASSUME NEW i \in DOMAIN Partial PROVE Partial[i].kind # "user"
    <3>1. CASE i \in 1..Len(turns)
      BY <1>1, <2>1, <2>5, <3>1, PartialIs
    <3>2. ASSUME NEW k \in 1..Len(Unpaired), i = Len(turns) + k PROVE Partial[i].kind # "user"
      BY <1>1, <2>3, <3>2, PartialIs
    <3>3. CASE i = Len(turns) + Len(Unpaired) + 1
      BY <1>1, <2>4, <3>3, PartialIs
    <3> QED BY <1>1, <3>1, <3>2, <3>3, PartialIs
  <2> QED BY <2>6, <2>7
<1>7. (mixed => mixed') /\ (unread' => mixed')
  BY DEF SessionInv, Drained, DrainTimesOut, NothingUnread, LeavesUnread
<1>8. ASSUME ~mixed'
      PROVE  \A i \in DOMAIN Partial :
                /\ Partial[i].kind = "call" => OneReply(Partial, i)
                /\ Partial[i].kind \in {"call", "reply"} => Partial[i].id \in (10 * query)..(10 * query + 9)
  <2>1. ToldFits
    BY <1>7, <1>8 DEF SessionInv
  <2> QED BY <1>1, <1>4, <2>1, PartialPaired
<1>9. unread' \/ NothingComes'
  <2>1. CASE DrainTimesOut
    BY <1>3, <2>1 DEF DrainTimesOut, NothingUnread, LeavesUnread, NothingComes
  <2>2. CASE Drained
    <3> SUFFICES ASSUME ~unread PROVE NothingComes'
      BY <2>2 DEF Drained, NothingUnread
    <3>1. ToldFits
      BY DEF SessionInv
    <3>2. PICK i \in DOMAIN stream : IsResult(stream[i])
      BY <2>2 DEF Drained, ResultWaits
    <3>3. \A j \in DOMAIN stream : IsResult(stream[j]) =>
            j = Len(stream) /\ cli.stage = "idle" /\ inbox = <<>>
      <4>1. \A e \in Entries : ~IsResult(e)
        BY <1>4 DEF Entries, CallEntry, ReplyEntry, TextEntry, IsResult
      <4> QED BY <3>1, <4>1 DEF ToldFits
    <3>4. \E j \in DOMAIN stream : IsResult(stream[j])
                /\ \A k \in 1..(j - 1) : ~IsResult(stream[k])
      <4>1. \A k \in 1..(i - 1) : k \in DOMAIN stream /\ k # Len(stream)
        BY <1>4, <3>2, <3>3
      <4> QED BY <3>2, <3>3, <4>1
    <3>5. FirstResult \in DOMAIN stream /\ IsResult(stream[FirstResult])
      BY <3>4, Zenon DEF FirstResult
    <3>6. FirstResult = Len(stream) /\ cli.stage = "idle" /\ inbox = <<>>
      BY <3>3, <3>5
    <3>7. stream' = SubSeq(stream, Len(stream) + 1, Len(stream))
      BY <2>2, <3>6 DEF Drained, From
    <3>8. stream' \in Seq(Nat) /\ Len(stream') = 0
      BY <1>4, <3>7
    <3>9. \A s \in Seq(Nat) : Len(s) = 0 => s = <<>>
      OBVIOUS
    <3>10. stream' = <<>>
      BY <3>8, <3>9
    <3> QED BY <1>3, <3>6, <3>10 DEF NothingComes
  <2> QED BY <2>1, <2>2
<1> QED BY <1>1, <1>2, <1>3, <1>5, <1>6, <1>7, <1>8, <1>9, MemoryGrows DEF Busy

LEMMA SessionRests == ASSUME SessionInv, UNCHANGED claudeVars PROVE SessionInv'
<1>1. UNCHANGED <<mem, turns, client, cli, inbox, stream, phase, query, heard, users, unread, mixed>>
  BY DEF claudeVars, memoryVars, cliVars, flagVars
<1> USE <1>1 DEF SessionInv
<1>2. SessionTypes'
  BY DEF SessionTypes
<1>3. UsersHeard'
  BY DEF UsersHeard, UserTurnsHeard
<1>4. OneQuery' = OneQuery
  BY DEF OneQuery, NothingComes
<1>5. Told' = Told
  BY DEF Told
<1>6. ToldFits' = ToldFits
  BY <1>5 DEF ToldFits, Entries
<1>7. StageFits' = StageFits
  BY <1>5 DEF StageFits, CallsSaid, NoCallSaid, RepliesSaid, NoReplySaid, WasTold
<1>8. CallsHaveReply' = CallsHaveReply
  BY DEF CallsHaveReply, OneReply
<1> QED BY <1>2, <1>3, <1>4, <1>6, <1>7, <1>8

LEMMA SessionStep == ASSUME SessionInv, [Next]_claudeVars PROVE SessionInv'
<1>1. CASE UNCHANGED claudeVars
  BY <1>1, SessionRests
<1>2. CASE Next
  <2>1. CASE Llm
    BY <2>1, SyncStep, ClientSteps, AskStep, QuietStops, ReadStep, StreamFails, FinishStep, DrainSteps
       DEF Llm
  <2>2. CASE Stops
    BY <2>2, QuietStops, StopAskingStep, StopStreamingStep DEF Stops
  <2>3. CASE Process
    BY <2>3, CliTakesStep, CliCallsStep, CliRepliesStep, CliAnswersStep, CliFailsStep, CliDiesStep,
       SessionLostStep DEF Process
  <2> QED BY <1>2, <2>1, <2>2, <2>3, UserTurnStep, QuietStops DEF Next
<1> QED BY <1>1, <1>2

LEMMA SessionInvariant == ASSUME MaxUsers \in Nat PROVE Spec => []SessionInv
<1>1. Init => SessionInv
  BY SessionStart
<1>2. SessionInv /\ [Next]_claudeVars => SessionInv'
  BY SessionStep
<1> QED BY <1>1, <1>2, PTL DEF Spec

\* What the invariant is for: every user turn that something stands behind was in the query
\* of a call, what a call reads belongs to its own query, and every tool call that the
\* memory keeps has one result behind it.
LEMMA SessionMeans ==
  ASSUME SessionInv
  PROVE  UserTurnsHeard /\ AnswersOwnQuestion /\ CallsPaired
<1>1. SessionInv => UserTurnsHeard
  BY DEF SessionInv, UsersHeard
<1>2. SessionInv => AnswersOwnQuestion
  <2> SUFFICES ASSUME SessionInv, phase \in {"streaming", "finishing"}, ~unread,
                      NEW i \in DOMAIN turns
               PROVE  QueryOf(turns[i].uuid) = query
    BY DEF AnswersOwnQuestion, Elements
  <2>1. turns[i].uuid \in Entries /\ query \in Nat
    BY DEF SessionInv, ToldFits, SessionTypes
  <2>2. \E d \in 0..9 : turns[i].uuid = 10 * query + d
    <3> USE <2>1 DEF Entries, CallEntry, ReplyEntry, TextEntry
    <3> QED OBVIOUS
  <2>3. \A d \in 0..9 : (10 * query + d) \div 10 = query
    BY <2>1
  <2> QED BY <2>2, <2>3 DEF QueryOf
<1>3. SessionInv => CallsPaired
  <2> SUFFICES ASSUME SessionInv, ~mixed, NEW i \in DOMAIN mem, mem[i].kind = "call"
               PROVE  Cardinality({j \in DOMAIN mem :
                          mem[j].kind = "reply" /\ mem[j].id = mem[i].id /\ j > i}) = 1
    BY DEF CallsPaired
  <2> DEFINE replies == {j \in DOMAIN mem : mem[j].kind = "reply" /\ mem[j].id = mem[i].id /\ j > i}
  <2>1. PICK j \in DOMAIN mem :
          /\ i < j /\ mem[j].kind = "reply" /\ mem[j].id = mem[i].id
          /\ \A k \in DOMAIN mem : i < k /\ mem[k].kind = "reply" /\ mem[k].id = mem[i].id => k = j
    BY DEF SessionInv, CallsHaveReply, OneReply
  <2>2. DOMAIN mem \subseteq Nat
    BY DEF SessionInv, SessionTypes
  <2>3. replies = {j}
    BY <2>1, <2>2
  <2>4. IsFiniteSet(replies) /\ Cardinality(replies) = 1
    BY <2>3, FS_Singleton
  <2> QED BY <2>4
<1> QED BY <1>1, <1>2, <1>3

\* The sessions of Claude Code: user turns are sent, an answer belongs to its question and a
\* call has one result - however the process, the transport and the stops come in each
\* other's way (agent/backends/claude.py).
THEOREM SessionAnswers ==
  ASSUME MaxUsers \in Nat
  PROVE  Spec => [](UserTurnsHeard /\ AnswersOwnQuestion /\ CallsPaired)
<1>1. SessionInv => UserTurnsHeard /\ AnswersOwnQuestion /\ CallsPaired
  BY SessionMeans
<1> QED BY <1>1, SessionInvariant, PTL

--------------------------------------------------------------------------------
(* The types of a session *)

\* The types of what the steps only write.
FileTypes ==
    /\ MaxMishaps \in Nat /\ PruneAbove \in Nat
    /\ created \in BOOLEAN
    /\ session \in [present : BOOLEAN, entries : Seq(Nat)]
    /\ heard \in [1..MaxUsers -> 0..query] /\ pruned \in SUBSET Nat
    /\ mishaps \in 0..MaxMishaps

\* Finitely many places have a first one.
LEMMA LeastPlace ==
  ASSUME NEW S \in SUBSET Nat, IsFiniteSet(S), S # {}
  PROVE  \E k \in S : \A j \in S : ~(j < k)
<1>1. Cardinality(S) \in Nat /\ Cardinality(S) # 0
  BY FS_CardinalityType, FS_EmptySet
<1>2. 0 \in 0..(Cardinality(S) - 1) /\ \A r \in 0..(Cardinality(S) - 1) : \E x \in S : Rank(S, x) = r
  BY <1>1, Ranks
<1>3. PICK k \in S : Rank(S, k) = 0
  BY <1>2
<1>4. {y \in S : y < k} \in SUBSET S /\ Cardinality({y \in S : y < k}) = 0
  BY <1>3 DEF Rank
<1>5. {y \in S : y < k} = {}
  <2>1. IsFiniteSet({y \in S : y < k})
    BY <1>4, FS_Subset
  <2>2. \A T : IsFiniteSet(T) /\ Cardinality(T) = 0 => T = {}
    BY FS_EmptySet
  <2> QED BY <1>4, <2>1, <2>2
<1> QED BY <1>5

\* A synchronisation cuts the session file at an entry that the memory knows.
LEMMA StaleIs ==
  ASSUME SessionTypes, FileTypes, Len(Stale) > PruneAbove
  PROVE  FirstMatch \in DOMAIN session.entries /\ Stale = SubSeq(session.entries, 1, FirstMatch - 1)
<1>1. OurUuids # {} /\ ~Desync /\ Stale = SubSeq(session.entries, 1, FirstMatch - 1)
  <2>1. Len(<<>>) = 0 /\ ~(0 > PruneAbove)
    BY DEF FileTypes
  <2>2. Stale = IF OurUuids = {} \/ Desync THEN <<>> ELSE SubSeq(session.entries, 1, FirstMatch - 1)
    BY DEF Stale
  <2> QED BY <2>1, <2>2, Zenon
<1>2. OurSynced # <<>>
  BY <1>1 DEF Desync
<1>3. OurPlaces # {}
  <2> SUFFICES ASSUME OurPlaces = {} PROVE FALSE
    OBVIOUS
  <2>1. Cardinality({}) = 0
    BY FS_EmptySet
  <2>2. OurSynced = <<>>
    BY <2>1 DEF OurSynced, At
  <2> QED BY <1>2, <2>2
<1>4. PICK i \in OurPlaces : TRUE
  BY <1>3
<1>5. mem[i].uuid \in OurUuids /\ \E k \in DOMAIN session.entries : session.entries[k] = mem[i].uuid
  BY <1>4 DEF OurPlaces, OurUuids, Elements
<1> DEFINE S == {k \in 1..Len(session.entries) : session.entries[k] \in OurUuids}
<1>6. S \in SUBSET Nat /\ S # {} /\ IsFiniteSet(S)
  <2>1. session.entries \in Seq(Nat) /\ Len(session.entries) \in Nat
    BY DEF FileTypes
  <2>2. IsFiniteSet(1..Len(session.entries)) /\ S \in SUBSET (1..Len(session.entries))
    <3>1. 1 \in Int /\ Len(session.entries) \in Int
      BY <2>1
    <3> QED BY <3>1, FS_Interval
  <2>3. S # {}
    BY <1>5, <2>1
  <2>4. S \in SUBSET Nat
    BY <2>1
  <2> QED BY <2>2, <2>3, <2>4, FS_Subset
<1>7. PICK k \in S : \A j \in S : ~(j < k)
  BY <1>6, LeastPlace
<1>8. session.entries \in Seq(Nat)
  BY DEF FileTypes
<1>9. /\ k \in DOMAIN session.entries /\ session.entries[k] \in OurUuids
      /\ \A j \in 1..(k - 1) : session.entries[j] \notin OurUuids
  BY <1>7, <1>8
<1>10. FirstMatch \in DOMAIN session.entries
  <2> HIDE DEF S
  <2> QED BY <1>9 DEF FirstMatch
<1> QED BY <1>1, <1>10

\* From a place on, and up to it.
LEMMA PartsTyped ==
  ASSUME NEW s \in Seq(Nat), NEW i \in DOMAIN s
  PROVE  /\ From(s, i) \in Seq(Nat)
         /\ SubSeq(s, 1, i - 1) \in Seq(Nat) /\ Elements(SubSeq(s, 1, i - 1)) \in SUBSET Nat
<1>1. From(s, i) \in Seq(Nat) /\ SubSeq(s, 1, i - 1) \in Seq(Nat)
  BY DEF From
<1> DEFINE q == SubSeq(s, 1, i - 1)
<1> HIDE DEF q
<1>2. q \in Seq(Nat) => Elements(q) \in SUBSET Nat
  BY DEF Elements
<1> QED BY <1>1, <1>2 DEF q

LEMMA FilesTyped ==
  ASSUME SessionTypes, FileTypes, Next
  PROVE  FileTypes'
<1> USE DEF memoryVars, cliVars, flagVars, CliGone, LlmEnds, LeavesUnread, NothingUnread
<1>q. query \in Nat /\ heard \in [1..MaxUsers -> 0..query]
  BY DEF SessionTypes, FileTypes
<1>m. Mishap => mishaps' \in 0..MaxMishaps
  BY DEF FileTypes, Mishap
<1>1. CASE Sync
  <2>1. CASE created /\ Len(Stale) > PruneAbove
    <3>1. session.entries \in Seq(Nat) /\ session.present \in BOOLEAN
      BY DEF FileTypes
    <3>2. /\ session' = [session EXCEPT !.entries = From(@, FirstMatch)]
          /\ pruned' = pruned \cup Elements(Stale)
          /\ UNCHANGED <<heard, query, created, mishaps>>
      BY <1>1, <2>1, Zenon DEF Sync
    <3>3. From(session.entries, FirstMatch) \in Seq(Nat) /\ Elements(Stale) \in SUBSET Nat
      BY <2>1, <3>1, StaleIs, PartsTyped
    <3>4. pruned' \in SUBSET Nat
      BY <3>2, <3>3 DEF FileTypes
    <3>5. session' \in [present : BOOLEAN, entries : Seq(Nat)]
      BY <3>2, <3>3 DEF FileTypes
    <3> QED BY <3>2, <3>4, <3>5 DEF FileTypes
  <2>2. CASE ~(created /\ Len(Stale) > PruneAbove)
    <3>1. UNCHANGED <<session, pruned, heard, query, created, mishaps>>
      BY <1>1, <2>2, Zenon DEF Sync
    <3> QED BY <3>1 DEF FileTypes
  <2> QED BY <2>1, <2>2
<1>2. CASE Reuse \/ Connect \/ ConnectFails
  <2>1. /\ UNCHANGED <<heard, query, session, pruned>> /\ created' \in {created, TRUE}
        /\ (UNCHANGED mishaps \/ Mishap)
    BY <1>2 DEF Reuse, Connect, ConnectFails
  <2> QED BY <1>m, <2>1 DEF FileTypes
<1>3. CASE Ask \/ StopAsking
  <2>1. Writes /\ UNCHANGED <<session, pruned, created>> /\ (UNCHANGED mishaps \/ Mishap)
    BY <1>3, Zenon DEF Ask, StopAsking
  <2>2. PICK kept \in Contents :
          heard' = [u \in DOMAIN heard |-> IF u \in Pending(kept) THEN query' ELSE heard[u]]
    BY <2>1 DEF Writes
  <2>3. query' = query + 1
    BY <2>1 DEF Writes
  <2>4. heard' \in [1..MaxUsers -> 0..query']
    <3> DEFINE P(u) == u \in Pending(kept)
    <3>1. heard' = [u \in DOMAIN heard |-> IF P(u) THEN query' ELSE heard[u]]
      BY <2>2
    <3> HIDE DEF P
    <3> QED BY <1>q, <2>3, <3>1
  <2> QED BY <1>m, <2>1, <2>4 DEF FileTypes
<1>4. CASE AskFails \/ Read \/ StreamBreaks \/ Finish
  <2>1. UNCHANGED <<heard, query, session, pruned, created, mishaps>>
    BY <1>4, Zenon DEF AskFails, Read, StreamBreaks, Finish
  <2> QED BY <2>1 DEF FileTypes
<1>5. CASE ReadRaises \/ StopEarly \/ StopConnecting \/ StopStreaming \/ Restart
  <2>1. UNCHANGED <<heard, query, session, pruned, created>> /\ Mishap
    BY <1>5, Zenon DEF ReadRaises, StopEarly, StopConnecting, StopStreaming, Restart
  <2> QED BY <1>m, <2>1 DEF FileTypes
<1>6. CASE Drained \/ DrainTimesOut
  <2>1. UNCHANGED <<heard, query, session, pruned, created, mishaps>>
    BY <1>6, Zenon DEF Drained, DrainTimesOut, ReturnsPartial
  <2> QED BY <2>1 DEF FileTypes
<1>e. /\ cli.n \in Nat /\ TextEntry(cli.n) \in Nat
      /\ \A k \in {1, 2} : CallEntry(cli.n, k) \in Nat /\ ReplyEntry(cli.n, k) \in Nat
  <2>1. cli.n \in Nat
    BY DEF SessionTypes
  <2>2. \A n \in Nat : 10 * n + 9 \in Nat /\ \A k \in {1, 2} : 10 * n + k \in Nat /\ 10 * n + 4 + k \in Nat
    OBVIOUS
  <2> QED BY <2>1, <2>2 DEF TextEntry, CallEntry, ReplyEntry
<1>t. ASSUME NEW new \in Seq(Nat), session' = [present |-> TRUE, entries |-> session.entries \o new]
      PROVE  session' \in [present : BOOLEAN, entries : Seq(Nat)]
  <2>1. session.entries \in Seq(Nat)
    BY DEF FileTypes
  <2>2. session.entries \o new \in Seq(Nat)
    BY <2>1
  <2> QED BY <1>t, <2>2
<1>w. /\ \A a, b \in Nat : <<a>> \in Seq(Nat) /\ <<a, b>> \in Seq(Nat)
      /\ <<>> \in Seq(Nat)
  OBVIOUS
<1>7. CASE CliTakes
  <2>1. Head(inbox) \in Nat
    BY <1>7 DEF SessionTypes, CliTakes
  <2>2. /\ UNCHANGED <<heard, query, pruned, created, mishaps>>
        /\ session' = [present |-> TRUE, entries |-> Append(session.entries, UserEntry(Head(inbox)))]
    BY <1>7, Zenon DEF CliTakes
  <2>3. UserEntry(Head(inbox)) \in Nat /\ session.entries \in Seq(Nat)
    BY <2>1 DEF UserEntry, FileTypes
  <2>4. Append(session.entries, UserEntry(Head(inbox))) \in Seq(Nat)
    BY <2>3
  <2> QED BY <2>2, <2>4 DEF FileTypes
<1>8. ASSUME NEW new \in Seq(Nat), NEW messages, Writing(new, messages),
             UNCHANGED mishaps \/ Mishap
      PROVE  FileTypes'
  <2>1. /\ UNCHANGED <<heard, query, pruned, created>>
        /\ session' = [present |-> TRUE, entries |-> session.entries \o new]
    BY <1>8, Zenon DEF Writing
  <2> QED BY <1>8, <1>m, <1>t, <2>1 DEF FileTypes
<1>9. CASE CliCalls
  <2> DEFINE calls == <<CallEntry(cli.n, 1), CallEntry(cli.n, 2)>>
  <2>1. calls \in Seq(Nat)
    BY <1>e, <1>w
  <2>2. Writing(calls, calls) /\ UNCHANGED mishaps
    BY <1>9, Zenon DEF CliCalls
  <2> QED BY <1>8, <2>1, <2>2
<1>10. CASE CliReplies
  <2> DEFINE a == ReplyEntry(cli.n, 1)
             b == ReplyEntry(cli.n, 2)
  <2>1. PICK written, sent \in {<<a, b>>, <<b, a>>} : Writing(written, sent)
    BY <1>10, Zenon DEF CliReplies
  <2>2. written \in Seq(Nat)
    BY <1>e, <1>w, <2>1
  <2>3. UNCHANGED mishaps
    BY <1>10, Zenon DEF CliReplies
  <2> QED BY <1>8, <2>1, <2>2, <2>3
<1>11. CASE CliAnswers
  <2>1. Writing(<<TextEntry(cli.n)>>, <<TextEntry(cli.n), Result(TRUE)>>) /\ UNCHANGED mishaps
    BY <1>11, Zenon DEF CliAnswers
  <2> QED BY <1>8, <1>e, <1>w, <2>1
<1>12. CASE CliFails \/ CliInterrupted
  <2>1. Writing(<<>>, <<Result(FALSE)>>) /\ (UNCHANGED mishaps \/ Mishap)
    BY <1>12, Zenon DEF CliFails, CliInterrupted
  <2> QED BY <1>8, <1>w, <2>1
<1>13. CASE CliDies
  <2>1. UNCHANGED <<heard, query, session, pruned, created>> /\ Mishap
    BY <1>13, Zenon DEF CliDies
  <2> QED BY <1>m, <2>1 DEF FileTypes
<1>14. CASE SessionLost
  <2>1. /\ UNCHANGED <<heard, query, pruned, created>> /\ Mishap
        /\ session' = [present |-> FALSE, entries |-> <<>>]
    BY <1>14, Zenon DEF SessionLost
  <2>2. session' \in [present : BOOLEAN, entries : Seq(Nat)]
    BY <2>1, <1>w
  <2> QED BY <1>m, <2>1, <2>2 DEF FileTypes
<1>15. CASE UserTurn
  <2>1. UNCHANGED <<heard, query, session, pruned, created, mishaps>>
    BY <1>15, Zenon DEF UserTurn
  <2> QED BY <2>1 DEF FileTypes
<1> QED
  BY <1>1, <1>2, <1>3, <1>4, <1>5, <1>6, <1>7, <1>9, <1>10, <1>11, <1>12, <1>13, <1>14, <1>15
  DEF Next, Llm, Stops, Process

\* What the two say is the type of the session.
LEMMA SessionHasType == SessionTypes /\ FileTypes => TypeOK
<1> SUFFICES ASSUME SessionTypes, FileTypes PROVE TypeOK
  OBVIOUS
<1>1. \A t \in {mem[i] : i \in DOMAIN mem} \cup {turns[i] : i \in DOMAIN turns} :
        t \in [kind : Kinds, uuid : Nat, id : Nat]
  <2>1. mem \in Seq(ATurn) /\ turns \in Seq(ATurn)
    BY DEF SessionTypes
  <2>2. (\A i \in DOMAIN mem : mem[i] \in ATurn) /\ (\A i \in DOMAIN turns : turns[i] \in ATurn)
    BY <2>1
  <2> QED BY <2>2 DEF ATurn
<1>2. /\ session.present \in BOOLEAN /\ session.entries \in Seq(Nat) /\ pruned \subseteq Nat
      /\ created \in BOOLEAN /\ mishaps \in 0..MaxMishaps /\ heard \in [1..MaxUsers -> 0..query]
  BY DEF FileTypes
<1> QED BY <1>1, <1>2 DEF SessionTypes, TypeOK, Quiet, Busy

LEMMA FilesStart ==
  ASSUME MaxUsers \in Nat, MaxMishaps \in Nat, PruneAbove \in Nat, Init
  PROVE  FileTypes
<1>1. /\ heard = [u \in 1..MaxUsers |-> 0] /\ query = 0 /\ pruned = {} /\ mishaps = 0
      /\ created = FALSE /\ session = [present |-> FALSE, entries |-> <<>>]
  BY DEF Init
<1>2. session \in [present : BOOLEAN, entries : Seq(Nat)]
  BY <1>1
<1>3. heard \in [1..MaxUsers -> 0..query]
  BY <1>1
<1>4. created \in BOOLEAN
  BY <1>1
<1>5. pruned \in SUBSET Nat /\ mishaps \in 0..MaxMishaps
  BY <1>1
<1> QED BY <1>2, <1>3, <1>4, <1>5 DEF FileTypes

LEMMA FilesRest == FileTypes /\ UNCHANGED claudeVars => FileTypes'
BY DEF FileTypes, claudeVars, memoryVars, cliVars, flagVars

-----------------------------------------------------------------------------
(* The dialogue that is cut into chunks, with the sizes of MCStores *)

Dialog == INSTANCE DialogChunks
    WITH ChunkSize <- 6, Mark <- 1, Contents <- TurnContents, MaxTurns <- MaxDialogTurns,
         pending <- dialog

-----------------------------------------------------------------------------
(* Sequences put one behind another *)

\* A set of numbers has a least one.
LEMMA LeastNumber ==
    ASSUME NEW T, T \subseteq Nat, T # {}
    PROVE  \E x \in T : \A y \in T : x <= y
<1> DEFINE I == {1..n : n \in T}
<1>1. I \subseteq FiniteSubsetsOf(Nat)
  <2>1. \A n \in T : IsFiniteSet(1..n)
    BY FS_Interval
  <2> QED BY <2>1 DEF FiniteSubsetsOf
<1>2. I # {}
  OBVIOUS
<1>3. IsWellFoundedOn(StrictSubsetOrdering(Nat), FiniteSubsetsOf(Nat))
  BY FS_StrictSubsetOrderingWellFounded
<1>4. \E s \in I : \A t \in I : ~(<<t, s>> \in StrictSubsetOrdering(Nat))
  BY <1>1, <1>2, <1>3, WFMin
<1>5. PICK x \in T : \A t \in I : ~(<<t, 1..x>> \in StrictSubsetOrdering(Nat))
  BY <1>4
<1>6. ASSUME NEW y \in T, y < x PROVE FALSE
  <2>1. 1..y \subseteq 1..x /\ x \in 1..x /\ x \notin 1..y /\ 1..x \subseteq Nat
    BY <1>6
  <2>2. <<1..y, 1..x>> \in StrictSubsetOrdering(Nat)
    BY <2>1 DEF StrictSubsetOrdering
  <2> QED BY <2>2, <1>5
<1> QED BY <1>6

\* FlattenSeq, step by step: the first n of the sequences put together.
Runs(ss, F) ==
    /\ DOMAIN F = 0..Len(ss) /\ F[0] = <<>>
    /\ \A n \in 1..Len(ss) : F[n] = F[n - 1] \o ss[n]

LEMMA OneByOne ==
    ASSUME NEW S, NEW ss \in Seq(Seq(S)), NEW m \in 0..Len(ss)
    PROVE  \E F : /\ DOMAIN F = 0..m /\ F[0] = <<>>
                  /\ \A n \in 1..m : F[n] = F[n - 1] \o ss[n]
                  /\ \A n \in 0..m : F[n] \in Seq(S)
<1> DEFINE P(k) == \E F : /\ DOMAIN F = 0..k /\ F[0] = <<>>
                          /\ \A n \in 1..k : F[n] = F[n - 1] \o ss[n]
                          /\ \A n \in 0..k : F[n] \in Seq(S)
           T == {k \in 0..Len(ss) : ~P(k)}
<1>1. SUFFICES ASSUME T # {} PROVE FALSE
  <2> HIDE DEF P
  <2>1. P(m)
    BY <1>1
  <2> QED BY <2>1 DEF P
<1>2. PICK k \in T : \A j \in T : k <= j
  <2> HIDE DEF P
  <2>1. T \subseteq Nat
    OBVIOUS
  <2> HIDE DEF T
  <2> QED BY <1>1, <2>1, LeastNumber
<1>3. CASE k = 0
  <2> DEFINE F == [n \in 0..0 |-> <<>>]
  <2>1. DOMAIN F = 0..0 /\ F[0] = <<>> /\ \A n \in 0..0 : F[n] \in Seq(S)
    OBVIOUS
  <2>2. 1..0 = {}
    OBVIOUS
  <2> HIDE DEF F
  <2>3. P(0)
    BY <2>1, <2>2
  <2> QED BY <1>2, <1>3, <2>3
<1>4. CASE k # 0
  <2>1. k - 1 \in 0..Len(ss) /\ k - 1 \notin T /\ k \in 1..Len(ss)
    <3> HIDE DEF P
    <3>1. k \in 0..Len(ss) /\ Len(ss) \in Nat
      BY <1>2
    <3>2. k - 1 \in 0..Len(ss) /\ k \in 1..Len(ss) /\ ~(k <= k - 1)
      BY <1>4, <3>1
    <3> HIDE DEF T
    <3> QED BY <1>2, <3>2
  <2>2. PICK F : /\ DOMAIN F = 0..(k - 1) /\ F[0] = <<>>
                 /\ \A n \in 1..(k - 1) : F[n] = F[n - 1] \o ss[n]
                 /\ \A n \in 0..(k - 1) : F[n] \in Seq(S)
    <3>1. P(k - 1)
      BY <2>1
    <3> QED BY <3>1
  <2> DEFINE next == F[k - 1] \o ss[k]
             G == [n \in 0..k |-> IF n = k THEN next ELSE F[n]]
  <2>3. next \in Seq(S)
    <3>1. F[k - 1] \in Seq(S) /\ ss[k] \in Seq(S)
      BY <2>1, <2>2
    <3> QED BY <3>1
  <2> HIDE DEF next
  <2>4. DOMAIN G = 0..k /\ G[k] = next /\ \A n \in 0..(k - 1) : G[n] = F[n]
    <3>1. k \in 0..k /\ \A n \in 0..(k - 1) : n \in 0..k /\ n # k
      BY <2>1
    <3> QED BY <3>1
  <2>5. \A n \in 1..k : G[n] = G[n - 1] \o ss[n]
    <3> HIDE DEF G
    <3> TAKE n \in 1..k
    <3>1. CASE n = k
      <4>1. G[n - 1] = F[k - 1]
        BY <2>1, <2>4, <3>1
      <4> QED BY <2>4, <3>1, <4>1 DEF next
    <3>2. CASE n # k
      <4>1. n \in 1..(k - 1) /\ n \in 0..(k - 1) /\ n - 1 \in 0..(k - 1)
        BY <2>1, <3>2
      <4> QED BY <2>2, <2>4, <4>1
    <3> QED BY <3>1, <3>2
  <2> HIDE DEF G
  <2>6. \A n \in 0..k : G[n] \in Seq(S)
    <3> TAKE n \in 0..k
    <3>1. n = k \/ n \in 0..(k - 1)
      BY <2>1
    <3> QED BY <2>2, <2>3, <2>4, <3>1
  <2>7. G[0] = <<>>
    BY <2>1, <2>2, <2>4
  <2>8. P(k)
    BY <2>4, <2>5, <2>6, <2>7
  <2> QED BY <1>2, <2>8
<1> QED BY <1>3, <1>4

\* There is one way to do it, and it depends on the sequences so far only.
Follows(F, ss, m) == \A n \in 1..m : F[n] = F[n - 1] \o ss[n]
AlikeTo(ss, tt, m) == \A n \in 1..m : ss[n] = tt[n]

LEMMA OneWay ==
    ASSUME NEW ss, NEW tt, NEW F, NEW G, NEW m \in Nat,
           F[0] = G[0], Follows(F, ss, m), Follows(G, tt, m), AlikeTo(ss, tt, m)
    PROVE  F[m] = G[m]
<1> USE DEF Follows, AlikeTo
<1> DEFINE T == {n \in 0..m : F[n] # G[n]}
<1>1. SUFFICES ASSUME T # {} PROVE FALSE
  OBVIOUS
<1>2. PICK n \in T : \A j \in T : n <= j
  <2>1. T \subseteq Nat
    OBVIOUS
  <2> HIDE DEF T
  <2> QED BY <1>1, <2>1, LeastNumber
<1>3. n # 0
  BY <1>2
<1>4. n \in 1..m /\ n - 1 \in 0..m /\ n - 1 \notin T
  BY <1>2, <1>3
<1>5. F[n - 1] = G[n - 1]
  BY <1>4
<1> QED BY <1>2, <1>4, <1>5

Flat(ss) ==
    IF Len(ss) = 0 THEN ss ELSE
    LET flatten[i \in 1..Len(ss)] == IF i = 1 THEN ss[i] ELSE flatten[i - 1] \o ss[i]
    IN  flatten[Len(ss)]

LEMMA FlatRuns ==
    ASSUME NEW S, NEW ss \in Seq(Seq(S)), NEW F, Runs(ss, F)
    PROVE  Flat(ss) = F[Len(ss)] /\ Flat(ss) \in Seq(S)
<1> DEFINE m == Len(ss)
           Def(h) == h = [i \in 1..m |-> IF i = 1 THEN ss[i] ELSE h[i - 1] \o ss[i]]
           h0 == CHOOSE h : Def(h)
<1>1. m \in Nat /\ \A n \in 1..m : ss[n] \in Seq(S)
  OBVIOUS
<1>m. AlikeTo(ss, ss, m)
  BY DEF AlikeTo
<1>2. PICK H : /\ DOMAIN H = 0..m /\ H[0] = <<>>
               /\ \A n \in 1..m : H[n] = H[n - 1] \o ss[n]
               /\ \A n \in 0..m : H[n] \in Seq(S)
  <2>1. m \in 0..Len(ss)
    BY <1>1
  <2> QED BY <2>1, OneByOne
<1>3. F[m] = H[m] /\ H[m] \in Seq(S)
  <2>1. F[0] = H[0] /\ Follows(F, ss, m) /\ Follows(H, ss, m)
    BY <1>2 DEF Runs, Follows
  <2>2. m \in 0..m
    BY <1>1
  <2> HIDE DEF m
  <2>3. F[m] = H[m]
    BY <1>1, <1>2, <1>m, <2>1, OneWay
  <2> QED BY <1>2, <2>2, <2>3
<1>4. CASE m = 0
  BY <1>2, <1>3, <1>4 DEF Flat
<1>5. CASE m # 0
  <2>1. Flat(ss) = h0[m]
    BY <1>5 DEF Flat
  <2> DEFINE g == [i \in 1..m |-> H[i]]
  <2>2. Def(g)
    <3>1. \A i \in 1..m : g[i] = IF i = 1 THEN ss[i] ELSE g[i - 1] \o ss[i]
      <4> TAKE i \in 1..m
      <4>1. CASE i = 1
        <5>1. H[1] = <<>> \o ss[1] /\ ss[1] \in Seq(S)
          <6>1. 1 \in 1..m /\ 1 - 1 = 0
            BY <4>1
          <6>2. H[1] = H[1 - 1] \o ss[1]
            BY <1>2, <6>1
          <6> QED BY <1>1, <1>2, <6>1, <6>2
        <5>2. <<>> \o ss[1] = ss[1]
          BY <5>1
        <5> QED BY <4>1, <5>1, <5>2
      <4>2. CASE i # 1
        <5>1. i - 1 \in 1..m
          BY <1>1, <4>2
        <5> QED BY <1>2, <4>2, <5>1
      <4> QED BY <4>1, <4>2
    <3>2. g = [i \in 1..m |-> g[i]]
      OBVIOUS
    <3> HIDE DEF g
    <3> QED BY <3>1, <3>2
  <2>3. Def(h0)
    <3> HIDE DEF Def
    <3> QED BY <2>2
  <2> HIDE DEF h0
  <2>4. \A i \in 1..m : h0[i] = IF i = 1 THEN ss[i] ELSE h0[i - 1] \o ss[i]
    BY <2>3
  <2> DEFINE K == [i \in 0..m |-> IF i = 0 THEN <<>> ELSE h0[i]]
  <2>5. K[0] = <<>> /\ \A i \in 1..m : K[i] = h0[i] /\ i \in 0..m
    BY <1>1
  <2> HIDE DEF K
  <2>6. \A i \in 1..m : K[i] = K[i - 1] \o ss[i]
    <3> TAKE i \in 1..m
    <3>1. CASE i = 1
      <4>1. <<>> \o ss[1] = ss[1]
        BY <1>1, <3>1
      <4>2. K[i - 1] = <<>>
        BY <2>5, <3>1
      <4> QED BY <2>4, <2>5, <3>1, <4>1, <4>2
    <3>2. CASE i # 1
      <4>1. i - 1 \in 1..m
        BY <1>1, <3>2
      <4> QED BY <2>4, <2>5, <3>2, <4>1
    <3> QED BY <3>1, <3>2
  <2>7. K[m] = H[m]
    <3>1. K[0] = H[0] /\ Follows(K, ss, m) /\ Follows(H, ss, m)
      BY <1>2, <2>5, <2>6 DEF Follows
    <3> HIDE DEF m
    <3> QED BY <1>1, <1>2, <1>m, <2>6, <3>1, OneWay
  <2>8. m \in 1..m
    BY <1>1, <1>5
  <2> QED BY <1>3, <2>1, <2>5, <2>7, <2>8
<1> QED BY <1>4, <1>5

LEMMA RunsExist ==
    ASSUME NEW S, NEW ss \in Seq(Seq(S))
    PROVE  \E F : Runs(ss, F) /\ \A n \in 0..Len(ss) : F[n] \in Seq(S)
<1>1. Len(ss) \in 0..Len(ss)
  OBVIOUS
<1> QED BY <1>1, OneByOne DEF Runs

LEMMA FlatEmpty == Flat(<<>>) = <<>>
BY DEF Flat

\* The first n of the sequences put together, and then the next.
LEMMA FlatNext ==
    ASSUME NEW S, NEW ss \in Seq(Seq(S)), NEW s \in Seq(S)
    PROVE  /\ Flat(Append(ss, s)) = Flat(ss) \o s
           /\ Flat(ss) \in Seq(S) /\ Flat(Append(ss, s)) \in Seq(S)
<1> DEFINE tt == Append(ss, s)
           m == Len(ss)
<1>1. /\ tt \in Seq(Seq(S)) /\ Len(tt) = m + 1 /\ m \in Nat /\ tt[m + 1] = s
      /\ \A n \in 1..m : tt[n] = ss[n]
  OBVIOUS
<1> HIDE DEF tt
<1>2. PICK F : Runs(ss, F)
  BY RunsExist
<1>3. PICK G : Runs(tt, G)
  BY <1>1, RunsExist
<1>4. Flat(ss) = F[m] /\ Flat(ss) \in Seq(S)
  BY <1>2, FlatRuns
<1>5. Flat(tt) = G[m + 1] /\ Flat(tt) \in Seq(S)
  BY <1>1, <1>3, FlatRuns
<1>6. F[m] = G[m]
  <2>1. F[0] = G[0] /\ Follows(F, ss, m)
    BY <1>2, <1>3 DEF Runs, Follows
  <2>2. Follows(G, tt, m)
    <3>1. \A n \in 1..m : n \in 1..Len(tt)
      BY <1>1
    <3> QED BY <1>3, <3>1 DEF Runs, Follows
  <2>3. AlikeTo(ss, tt, m)
    BY <1>1 DEF AlikeTo
  <2> HIDE DEF m
  <2> QED BY <1>1, <2>1, <2>2, <2>3, OneWay
<1>7. G[m + 1] = G[m] \o s
  <2>1. m + 1 \in 1..Len(tt) /\ (m + 1) - 1 = m
    BY <1>1
  <2>2. G[m + 1] = G[(m + 1) - 1] \o tt[m + 1]
    BY <1>3, <2>1 DEF Runs
  <2> QED BY <1>1, <2>1, <2>2
<1> QED BY <1>4, <1>5, <1>6, <1>7 DEF tt

LEMMA FlatOne ==
    ASSUME NEW S, NEW s \in Seq(S)
    PROVE  Flat(<<s>>) = s
<1>1. <<>> \in Seq(Seq(S)) /\ Append(<<>>, s) = <<s>>
  OBVIOUS
<1>2. Flat(Append(<<>>, s)) = Flat(<<>>) \o s
  BY <1>1, FlatNext
<1>3. <<>> \o s = s
  OBVIOUS
<1> QED BY <1>1, <1>2, <1>3, FlatEmpty

\* A sequence up to its n-th element.
LEMMA UpTo ==
    ASSUME NEW S, NEW s \in Seq(S), NEW n \in 1..Len(s)
    PROVE  /\ SubSeq(s, 1, n) \in Seq(S) /\ SubSeq(s, 1, n - 1) \in Seq(S)
           /\ SubSeq(s, 1, n) = Append(SubSeq(s, 1, n - 1), s[n])
<1> DEFINE a == SubSeq(s, 1, n)
           b == SubSeq(s, 1, n - 1)
           c == Append(b, s[n])
<1>1. a \in Seq(S) /\ Len(a) = n /\ \A i \in 1..n : a[i] = s[i]
  OBVIOUS
<1>2. b \in Seq(S) /\ Len(b) = n - 1 /\ \A i \in 1..(n - 1) : b[i] = s[i]
  OBVIOUS
<1> HIDE DEF a, b
<1>3. c \in Seq(S) /\ Len(c) = n /\ \A i \in 1..n : c[i] = s[i]
  BY <1>2
<1> HIDE DEF c
<1>4. a = c
  BY <1>1, <1>3
<1> QED BY <1>1, <1>2, <1>4 DEF a, b, c

LEMMA AllOfIt ==
    ASSUME NEW S, NEW s \in Seq(S)
    PROVE  SubSeq(s, 1, Len(s)) = s /\ SubSeq(s, 1, 0) = <<>>
OBVIOUS

\* The first sequences and then the others.
LEMMA FlatBoth ==
    ASSUME NEW S, NEW ss \in Seq(Seq(S)), NEW tt \in Seq(Seq(S))
    PROVE  Flat(ss \o tt) = Flat(ss) \o Flat(tt)
<1> DEFINE P(n) == Flat(ss \o SubSeq(tt, 1, n)) = Flat(ss) \o Flat(SubSeq(tt, 1, n))
           T == {n \in 0..Len(tt) : ~P(n)}
<1>1. SUFFICES T = {}
  <2>1. Len(tt) \in 0..Len(tt) /\ SubSeq(tt, 1, Len(tt)) = tt
    BY AllOfIt
  <2>2. P(Len(tt))
    BY <1>1, <2>1
  <2> QED BY <2>1, <2>2
<1>2. SUFFICES ASSUME T # {} PROVE FALSE
  OBVIOUS
<1>3. PICK n \in T : \A j \in T : n <= j
  <2>1. T \subseteq Nat
    OBVIOUS
  <2> HIDE DEF T
  <2> QED BY <1>2, <2>1, LeastNumber
<1>4. CASE n = 0
  <2>1. SubSeq(tt, 1, 0) = <<>> /\ ss \o <<>> = ss
    BY AllOfIt
  <2>2. Flat(ss) \in Seq(S)
    BY RunsExist, FlatRuns
  <2>3. Flat(ss) \o <<>> = Flat(ss)
    BY <2>2
  <2>4. P(0)
    BY <2>1, <2>3, FlatEmpty
  <2> QED BY <1>3, <1>4, <2>4
<1>5. CASE n # 0
  <2>1. n \in 1..Len(tt) /\ n - 1 \in 0..Len(tt) /\ n - 1 \notin T
    BY <1>3, <1>5
  <2>2. P(n - 1)
    BY <2>1
  <2> DEFINE a == SubSeq(tt, 1, n - 1)
             b == SubSeq(tt, 1, n)
             s == tt[n]
  <2>3. a \in Seq(Seq(S)) /\ b = Append(a, s) /\ s \in Seq(S)
    BY <2>1, UpTo
  <2>4. Flat(ss \o a) = Flat(ss) \o Flat(a)
    BY <2>2
  <2> HIDE DEF a, b, s
  <2>5. Flat(b) = Flat(a) \o s /\ Flat(a) \in Seq(S)
    BY <2>3, FlatNext
  <2> HIDE DEF P, T
  <2>7. ss \o a \in Seq(Seq(S))
    BY <2>3
  <2>6. ss \o b = Append(ss \o a, s)
    <3>1. b = a \o <<s>> /\ <<s>> \in Seq(Seq(S))
      BY <2>3, AppendIsConcat
    <3>2. (ss \o a) \o <<s>> = ss \o (a \o <<s>>)
      <4> DEFINE U == Seq(S)
      <4>1. ss \in Seq(U) /\ a \in Seq(U) /\ <<s>> \in Seq(U)
        BY <2>3, <3>1
      <4> HIDE DEF U, P, T
      <4> QED BY <4>1, ConcatAssociative
    <3>3. Append(ss \o a, s) = (ss \o a) \o <<s>>
      BY <2>3, <2>7, AppendIsConcat
    <3> QED BY <3>1, <3>2, <3>3
  <2>8. Flat(ss \o b) = Flat(ss \o a) \o s
    BY <2>3, <2>6, <2>7, FlatNext
  <2>9. Flat(ss) \in Seq(S)
    BY RunsExist, FlatRuns
  <2>10. (Flat(ss) \o Flat(a)) \o s = Flat(ss) \o (Flat(a) \o s)
    <3> DEFINE x == Flat(ss)
               y == Flat(a)
    <3>1. x \in Seq(S) /\ y \in Seq(S) /\ s \in Seq(S)
      BY <2>3, <2>5, <2>9
    <3> HIDE DEF x, y
    <3>2. (x \o y) \o s = x \o (y \o s)
      BY <3>1, ConcatAssociative
    <3> QED BY <3>2 DEF x, y
  <2>11. Flat(ss \o b) = Flat(ss) \o Flat(b)
    BY <2>4, <2>5, <2>8, <2>10
  <2>12. P(n)
    BY <2>11 DEF b, P
  <2> QED BY <1>3, <2>12 DEF T
<1> QED BY <1>4, <1>5

LEMMA FlatIs == \A ss : Dialog!FlattenSeq(ss) = Flat(ss)
BY DEF Dialog!FlattenSeq, Flat

-----------------------------------------------------------------------------
(* The lines of a dialogue and their words *)

Word == Nat \X Nat \X Nat
SpokenLine == [by : Nat, words : Seq(Word)]

\* All words of a line are its speaker's.
OwnWords(line) == line \in SpokenLine /\ \A i \in DOMAIN line.words : line.words[i][1] = line.by
OwnLines(lines) == lines \in Seq(SpokenLine) /\ \A i \in DOMAIN lines : OwnWords(lines[i])

\* The words of some lines, and of some chunks.
WordsOf(lines) == [i \in DOMAIN lines |-> lines[i].words]
TextOf(lines) == Flat(WordsOf(lines))
TextsOf(chunks) == [i \in DOMAIN chunks |-> TextOf(chunks[i])]
AllText(chunks) == Flat(TextsOf(chunks))

LEMMA TextTyped ==
    ASSUME NEW lines \in Seq(SpokenLine)
    PROVE  WordsOf(lines) \in Seq(Seq(Word)) /\ Len(WordsOf(lines)) = Len(lines)
           /\ TextOf(lines) \in Seq(Word)
<1>1. \A i \in DOMAIN lines : lines[i] \in SpokenLine
  OBVIOUS
<1>2. \A i \in DOMAIN lines : lines[i].words \in Seq(Word)
  BY <1>1 DEF SpokenLine
<1>3. WordsOf(lines) \in Seq(Seq(Word)) /\ Len(WordsOf(lines)) = Len(lines)
  <2> DEFINE U == Seq(Word)
  <2> HIDE DEF U
  <2>1. Len(lines) \in Nat /\ DOMAIN lines = 1..Len(lines)
    OBVIOUS
  <2>2. WordsOf(lines) \in Seq(U) /\ Len(WordsOf(lines)) = Len(lines)
    BY <1>2, <2>1 DEF WordsOf, U
  <2> QED BY <2>2 DEF U
<1>4. TextOf(lines) \in Seq(Word)
  <2> DEFINE ss == WordsOf(lines)
  <2>1. ss \in Seq(Seq(Word))
    BY <1>3
  <2> HIDE DEF ss
  <2>2. Flat(ss) \in Seq(Word)
    BY <2>1, RunsExist, FlatRuns
  <2> QED BY <2>2 DEF TextOf, ss
<1> QED BY <1>3, <1>4

LEMMA TextEmpty == TextOf(<<>>) = <<>>
<1>1. WordsOf(<<>>) = <<>>
  BY DEF WordsOf
<1> QED BY <1>1, FlatEmpty DEF TextOf

LEMMA TextNext ==
    ASSUME NEW lines \in Seq(SpokenLine), NEW line \in SpokenLine
    PROVE  TextOf(Append(lines, line)) = TextOf(lines) \o line.words
<1> DEFINE ss == WordsOf(lines)
           tt == WordsOf(Append(lines, line))
           s == line.words
<1>1. ss \in Seq(Seq(Word)) /\ Len(ss) = Len(lines) /\ s \in Seq(Word)
  BY TextTyped DEF SpokenLine
<1>2. tt = Append(ss, s)
  <2>1. Append(lines, line) \in Seq(SpokenLine) /\ Len(Append(lines, line)) = Len(lines) + 1
        /\ Append(lines, line)[Len(lines) + 1] = line
        /\ \A i \in 1..Len(lines) : Append(lines, line)[i] = lines[i]
    BY AppendProperties
  <2>2. tt \in Seq(Seq(Word)) /\ Len(tt) = Len(lines) + 1
    BY <2>1, TextTyped
  <2>3. \A i \in 1..(Len(lines) + 1) : tt[i] = Append(lines, line)[i].words
    <3>1. DOMAIN Append(lines, line) = 1..(Len(lines) + 1)
      BY <2>1
    <3> QED BY <3>1 DEF WordsOf
  <2>4. \A i \in 1..Len(lines) : ss[i] = lines[i].words
    BY DEF WordsOf
  <2> DEFINE U == Seq(Word)
  <2>5. ss \in Seq(U) /\ tt \in Seq(U) /\ s \in U
    BY <1>1, <2>2
  <2> HIDE DEF U, ss, tt
  <2>6. /\ Append(ss, s) \in Seq(U) /\ Len(Append(ss, s)) = Len(ss) + 1
        /\ Append(ss, s)[Len(ss) + 1] = s
        /\ \A i \in 1..Len(ss) : Append(ss, s)[i] = ss[i]
    BY <2>5, AppendProperties
  <2>7. \A i \in 1..(Len(lines) + 1) : tt[i] = Append(ss, s)[i]
    <3> TAKE i \in 1..(Len(lines) + 1)
    <3>1. CASE i = Len(lines) + 1
      BY <1>1, <2>1, <2>3, <2>6, <3>1
    <3>2. CASE i # Len(lines) + 1
      <4>1. i \in 1..Len(lines)
        BY <3>2
      <4> QED BY <1>1, <2>1, <2>3, <2>4, <2>6, <4>1
    <3> QED BY <3>1, <3>2
  <2> QED BY <1>1, <2>2, <2>5, <2>6, <2>7, SeqEqual
<1> HIDE DEF ss, tt, s
<1>3. Flat(tt) = Flat(ss) \o s
  BY <1>1, <1>2, FlatNext
<1> QED BY <1>3 DEF TextOf, ss, tt, s

LEMMA TextOne ==
    ASSUME NEW line \in SpokenLine
    PROVE  TextOf(<<line>>) = line.words
<1>1. <<>> \in Seq(SpokenLine) /\ Append(<<>>, line) = <<line>>
  OBVIOUS
<1>2. line.words \in Seq(Word)
  BY DEF SpokenLine
<1>3. TextOf(<<line>>) = TextOf(<<>>) \o line.words
  BY <1>1, TextNext
<1> QED BY <1>2, <1>3, TextEmpty, ConcatEmptySeq

LEMMA AllTextTyped ==
    ASSUME NEW chunks \in Seq(Seq(SpokenLine))
    PROVE  /\ TextsOf(chunks) \in Seq(Seq(Word)) /\ Len(TextsOf(chunks)) = Len(chunks)
           /\ AllText(chunks) \in Seq(Word)
<1> DEFINE U == Seq(Word)
           L == Seq(SpokenLine)
<1>1. \A i \in DOMAIN chunks : TextOf(chunks[i]) \in U
  <2>1. \A i \in DOMAIN chunks : chunks[i] \in L
    OBVIOUS
  <2> QED BY <2>1, TextTyped
<1>2. Len(chunks) \in Nat /\ DOMAIN chunks = 1..Len(chunks)
  OBVIOUS
<1> HIDE DEF U
<1>3. TextsOf(chunks) \in Seq(U) /\ Len(TextsOf(chunks)) = Len(chunks)
  BY <1>1, <1>2 DEF TextsOf
<1> DEFINE ss == TextsOf(chunks)
<1>4. ss \in Seq(Seq(Word))
  BY <1>3 DEF U
<1> HIDE DEF ss
<1>5. Flat(ss) \in Seq(Word)
  BY <1>4, RunsExist, FlatRuns
<1> QED BY <1>3, <1>4, <1>5 DEF AllText, ss

LEMMA AllTextEmpty == AllText(<<>>) = <<>>
<1>1. TextsOf(<<>>) = <<>>
  BY DEF TextsOf
<1> QED BY <1>1, FlatEmpty DEF AllText

LEMMA AllTextNext ==
    ASSUME NEW chunks \in Seq(Seq(SpokenLine)), NEW c \in Seq(SpokenLine)
    PROVE  AllText(Append(chunks, c)) = AllText(chunks) \o TextOf(c)
<1> DEFINE L == Seq(SpokenLine)
           U == Seq(Word)
           ss == TextsOf(chunks)
           tt == TextsOf(Append(chunks, c))
           s == TextOf(c)
<1>1. ss \in Seq(U) /\ Len(ss) = Len(chunks) /\ s \in U
  BY AllTextTyped, TextTyped
<1>2. /\ Append(chunks, c) \in Seq(L) /\ Len(Append(chunks, c)) = Len(chunks) + 1
      /\ Append(chunks, c)[Len(chunks) + 1] = c
      /\ \A i \in 1..Len(chunks) : Append(chunks, c)[i] = chunks[i]
  <2>1. chunks \in Seq(L) /\ c \in L
    OBVIOUS
  <2> HIDE DEF L
  <2> QED BY <2>1, AppendProperties
<1>3. tt \in Seq(U) /\ Len(tt) = Len(chunks) + 1
  BY <1>2, AllTextTyped
<1>4. \A i \in 1..(Len(chunks) + 1) : tt[i] = TextOf(Append(chunks, c)[i])
  <2>1. DOMAIN Append(chunks, c) = 1..(Len(chunks) + 1)
    BY <1>2
  <2> QED BY <2>1 DEF TextsOf
<1>5. \A i \in 1..Len(chunks) : ss[i] = TextOf(chunks[i])
  BY DEF TextsOf
<1>n. Len(chunks) \in Nat
  OBVIOUS
<1>6. tt = Append(ss, s)
  <2> HIDE DEF U, ss, tt, s
  <2>6. /\ Append(ss, s) \in Seq(U) /\ Len(Append(ss, s)) = Len(ss) + 1
        /\ Append(ss, s)[Len(ss) + 1] = s
        /\ \A i \in 1..Len(ss) : Append(ss, s)[i] = ss[i]
    BY <1>1, AppendProperties
  <2>7. \A i \in 1..(Len(chunks) + 1) : tt[i] = Append(ss, s)[i]
    <3> TAKE i \in 1..(Len(chunks) + 1)
    <3>1. CASE i = Len(chunks) + 1
      BY <1>1, <1>2, <1>4, <2>6, <3>1 DEF s
    <3>2. CASE i # Len(chunks) + 1
      <4>1. i \in 1..Len(chunks)
        BY <3>2, <1>n
      <4> QED BY <1>1, <1>2, <1>4, <1>5, <2>6, <4>1
    <3> QED BY <3>1, <3>2
  <2> QED BY <1>1, <1>3, <2>6, <2>7, SeqEqual
<1>7. ss \in Seq(Seq(Word)) /\ s \in Seq(Word)
  BY <1>1
<1> HIDE DEF ss, tt, s, U
<1>8. Flat(tt) = Flat(ss) \o s
  BY <1>6, <1>7, FlatNext
<1> QED BY <1>8 DEF AllText, ss, tt, s

LEMMA AllTextBoth ==
    ASSUME NEW chunks \in Seq(Seq(SpokenLine)), NEW others \in Seq(Seq(SpokenLine))
    PROVE  AllText(chunks \o others) = AllText(chunks) \o AllText(others)
<1> DEFINE L == Seq(SpokenLine)
           U == Seq(Word)
           ss == TextsOf(chunks)
           rr == TextsOf(others)
           tt == TextsOf(chunks \o others)
<1>1. ss \in Seq(U) /\ Len(ss) = Len(chunks) /\ rr \in Seq(U) /\ Len(rr) = Len(others)
  BY AllTextTyped
<1>2. /\ chunks \o others \in Seq(L) /\ Len(chunks \o others) = Len(chunks) + Len(others)
      /\ \A i \in 1..(Len(chunks) + Len(others)) : (chunks \o others)[i] =
            IF i <= Len(chunks) THEN chunks[i] ELSE others[i - Len(chunks)]
  <2>1. chunks \in Seq(L) /\ others \in Seq(L)
    OBVIOUS
  <2> HIDE DEF L
  <2> QED BY <2>1, ConcatProperties
<1>3. tt \in Seq(U) /\ Len(tt) = Len(chunks) + Len(others)
  BY <1>2, AllTextTyped
<1>4. \A i \in 1..(Len(chunks) + Len(others)) : tt[i] = TextOf((chunks \o others)[i])
  <2>1. DOMAIN (chunks \o others) = 1..(Len(chunks) + Len(others))
    BY <1>2
  <2> QED BY <2>1 DEF TextsOf
<1>5. /\ \A i \in 1..Len(chunks) : ss[i] = TextOf(chunks[i])
      /\ \A i \in 1..Len(others) : rr[i] = TextOf(others[i])
  BY DEF TextsOf
<1>n. Len(chunks) \in Nat /\ Len(others) \in Nat
  OBVIOUS
<1>6. tt = ss \o rr
  <2> HIDE DEF U, ss, tt, rr
  <2>6. /\ ss \o rr \in Seq(U) /\ Len(ss \o rr) = Len(ss) + Len(rr)
        /\ \A i \in 1..(Len(ss) + Len(rr)) : (ss \o rr)[i] =
              IF i <= Len(ss) THEN ss[i] ELSE rr[i - Len(ss)]
    BY <1>1, ConcatProperties
  <2>7. \A i \in 1..(Len(chunks) + Len(others)) : tt[i] = (ss \o rr)[i]
    <3> TAKE i \in 1..(Len(chunks) + Len(others))
    <3>1. CASE i <= Len(chunks)
      <4>1. i \in 1..Len(chunks)
        BY <3>1, <1>n
      <4> QED BY <1>1, <1>2, <1>4, <1>5, <2>6, <3>1, <4>1
    <3>2. CASE ~(i <= Len(chunks))
      <4>1. i - Len(chunks) \in 1..Len(others)
        BY <3>2, <1>n
      <4>2. tt[i] = TextOf(others[i - Len(chunks)])
        BY <1>2, <1>4, <3>2
      <4>3. (ss \o rr)[i] = rr[i - Len(chunks)]
        BY <1>1, <2>6, <3>2
      <4> QED BY <1>5, <4>1, <4>2, <4>3
    <3> QED BY <3>1, <3>2
  <2> QED BY <1>1, <1>3, <2>6, <2>7, SeqEqual
<1>7. ss \in Seq(Seq(Word)) /\ rr \in Seq(Seq(Word))
  BY <1>1
<1> HIDE DEF ss, tt, rr, U
<1>8. Flat(tt) = Flat(ss) \o Flat(rr)
  BY <1>6, <1>7, FlatBoth
<1> QED BY <1>8 DEF AllText, ss, tt, rr

LEMMA AllTextOne ==
    ASSUME NEW c \in Seq(SpokenLine)
    PROVE  AllText(<<c>>) = TextOf(c)
<1> DEFINE L == Seq(SpokenLine)
<1>1. <<>> \in Seq(Seq(SpokenLine)) /\ Append(<<>>, c) = <<c>>
  <2> HIDE DEF L
  <2>1. <<>> \in Seq(L) /\ Append(<<>>, c) = <<c>>
    OBVIOUS
  <2> QED BY <2>1 DEF L
<1>2. AllText(<<c>>) = AllText(<<>>) \o TextOf(c)
  BY <1>1, AllTextNext
<1> QED BY <1>2, AllTextEmpty, TextTyped, ConcatEmptySeq

-----------------------------------------------------------------------------
(* A reply that is cut *)

\* Where the j-th piece of a text of n words ends.
Until(n, j) == IF 6 * j < n THEN 6 * j ELSE n
PieceCount(n) == (n + 5) \div 6

LEMMA PiecesCover ==
    ASSUME NEW n \in Nat
    PROVE  /\ PieceCount(n) \in Nat /\ n <= 6 * PieceCount(n)
           /\ \A j \in 1..PieceCount(n) : 6 * (j - 1) < n
<1>1. PieceCount(n) \in Int /\ 6 * PieceCount(n) <= n + 5 /\ n + 5 < 6 * PieceCount(n) + 6
  BY DEF PieceCount
<1> QED BY <1>1

\* A run of a text: its places in the text.
LEMMA RunOf ==
    ASSUME NEW S, NEW s \in Seq(S), NEW a \in Nat, NEW b \in Nat, a < b, b <= Len(s)
    PROVE  /\ SubSeq(s, a + 1, b) \in Seq(S) /\ Len(SubSeq(s, a + 1, b)) = b - a
           /\ \A k \in 1..(b - a) : SubSeq(s, a + 1, b)[k] = s[a + k]
<1> DEFINE r == SubSeq(s, a + 1, b)
<1>1. \A k \in (a + 1)..b : s[k] \in S
  OBVIOUS
<1>2. /\ r \in Seq(S) /\ Len(r) = IF a + 1 <= b THEN b - (a + 1) + 1 ELSE 0
      /\ \A k \in 1..(b - (a + 1) + 1) : r[k] = s[(a + 1) + k - 1]
  <2>1. a + 1 \in Int /\ b \in Int
    OBVIOUS
  <2> QED BY <1>1, <2>1, SubSeqProperties
<1> HIDE DEF r
<1>3. Len(r) = b - a
  BY <1>2
<1>4. ASSUME NEW k \in 1..(b - a) PROVE r[k] = s[a + k]
  <2>1. k \in 1..(b - (a + 1) + 1) /\ (a + 1) + k - 1 = a + k
    OBVIOUS
  <2>2. r[k] = s[(a + 1) + k - 1]
    BY <1>2, <2>1
  <2> QED BY <2>1, <2>2
<1> QED BY <1>2, <1>3, <1>4 DEF r

LEMMA PieceIs ==
    ASSUME NEW S, NEW words \in Seq(S), NEW i \in 1..PieceCount(Len(words))
    PROVE  /\ Dialog!Take(SubSeq(words, (i - 1) * 6 + 1, Len(words)), 6)
                = SubSeq(words, Until(Len(words), i - 1) + 1, Until(Len(words), i))
           /\ Until(Len(words), i - 1) = 6 * (i - 1)
           /\ Until(Len(words), i) \in 6 * (i - 1) + 1..6 * (i - 1) + 6
           /\ Until(Len(words), i) <= Len(words)
<1> DEFINE n == Len(words)
           a == 6 * (i - 1)
           b == Until(n, i)
           rest == SubSeq(words, a + 1, n)
<1>1. n \in Nat /\ i \in Int /\ a \in Nat /\ a < n /\ (i - 1) * 6 = a
  <2>1. n \in Nat
    OBVIOUS
  <2> HIDE DEF n
  <2>2. a < n /\ PieceCount(n) \in Nat
    BY <2>1, PiecesCover DEF n
  <2>3. i \in Int /\ 1 <= i
    BY <2>2 DEF n
  <2> QED BY <2>1, <2>2, <2>3
<1>2. Until(n, i - 1) = a
  BY <1>1 DEF Until
<1>3. b \in Int /\ a < b /\ b <= n /\ b <= a + 6 /\ (b = a + 6 \/ (b = n /\ n - a <= 6))
  BY <1>1 DEF Until
<1> HIDE DEF n, a, b
<1>4. rest \in Seq(S) /\ Len(rest) = n - a /\ \A k \in 1..(n - a) : rest[k] = words[a + k]
  BY <1>1, RunOf DEF n
<1> HIDE DEF rest
<1> DEFINE taken == Dialog!Take(rest, 6)
           piece == SubSeq(words, a + 1, b)
<1>5. taken = SubSeq(rest, 1, b - a)
  BY <1>1, <1>3, <1>4 DEF Dialog!Take
<1>6. taken \in Seq(S) /\ Len(taken) = b - a /\ \A k \in 1..(b - a) : taken[k] = words[a + k]
  <2>1. 0 < b - a /\ b - a <= Len(rest) /\ b - a \in Nat /\ 0 \in Nat
    BY <1>1, <1>3, <1>4
  <2>2. /\ SubSeq(rest, 0 + 1, b - a) \in Seq(S) /\ Len(SubSeq(rest, 0 + 1, b - a)) = (b - a) - 0
        /\ \A k \in 1..((b - a) - 0) : SubSeq(rest, 0 + 1, b - a)[k] = rest[0 + k]
    BY <1>4, <2>1, RunOf
  <2>3. 0 + 1 = 1 /\ (b - a) - 0 = b - a /\ \A k \in 1..(b - a) : 0 + k = k /\ k \in 1..(n - a)
    BY <1>1, <1>3
  <2> HIDE DEF taken
  <2>4. taken \in Seq(S) /\ Len(taken) = b - a /\ \A k \in 1..(b - a) : taken[k] = rest[k]
    BY <1>5, <2>2, <2>3
  <2> QED BY <1>4, <2>3, <2>4
<1>7. piece \in Seq(S) /\ Len(piece) = b - a /\ \A k \in 1..(b - a) : piece[k] = words[a + k]
  <2>1. b \in Nat /\ b <= Len(words)
    BY <1>1, <1>3 DEF n
  <2> QED BY <1>1, <1>3, <2>1, RunOf
<1> HIDE DEF taken, piece
<1>8. taken = piece
  BY <1>6, <1>7
<1> QED BY <1>1, <1>2, <1>3, <1>8 DEF taken, piece, rest, n, a, b

\* Cut, a text is whole: its pieces put one behind another are the text.
CutWell(S, words, p) ==
    /\ p \in Seq(Seq(S)) /\ Flat(p) = words
    /\ \A i \in 1..Len(p) : /\ p[i] \in Seq(S) /\ Len(p[i]) <= 6
                            /\ \A k \in 1..Len(p[i]) : \E j \in 1..Len(words) : p[i][k] = words[j]

LEMMA PiecesWhole ==
    ASSUME NEW S, NEW words \in Seq(S)
    PROVE  CutWell(S, words, Dialog!Pieces(words))
<1> DEFINE n == Len(words)
           count == PieceCount(n)
           p == Dialog!Pieces(words)
           U == Seq(S)
<1>1. n \in Nat /\ count \in Nat /\ n <= 6 * count
  BY PiecesCover
<1>2. p = [i \in 1..count |-> Dialog!Take(SubSeq(words, (i - 1) * 6 + 1, Len(words)), 6)]
  <2>1. (Len(words) + 6 - 1) \div 6 = count
    <3>1. n + 6 - 1 = n + 5
      BY <1>1
    <3> QED BY <3>1 DEF PieceCount
  <2> QED BY <2>1 DEF Dialog!Pieces
<1> HIDE DEF p
<1>3. \A i \in 1..count : p[i] = SubSeq(words, Until(n, i - 1) + 1, Until(n, i))
  BY <1>2, PieceIs
<1>4. \A i \in 1..count : /\ Until(n, i - 1) \in Nat /\ Until(n, i) \in Nat
                          /\ Until(n, i - 1) = 6 * (i - 1)
                          /\ Until(n, i - 1) < Until(n, i) /\ Until(n, i) <= n
                          /\ Until(n, i) - Until(n, i - 1) <= 6
  <2> TAKE i \in 1..count
  <2>1. /\ Until(n, i - 1) = 6 * (i - 1) /\ Until(n, i) \in 6 * (i - 1) + 1..6 * (i - 1) + 6
        /\ Until(n, i) <= n
    BY PieceIs
  <2>2. i \in Int /\ 6 * (i - 1) \in Nat
    BY <1>1
  <2> QED BY <2>1, <2>2
<1>5. \A i \in 1..count : /\ p[i] \in Seq(S) /\ Len(p[i]) = Until(n, i) - Until(n, i - 1)
                          /\ \A k \in 1..Len(p[i]) : p[i][k] = words[Until(n, i - 1) + k]
  <2> TAKE i \in 1..count
  <2> DEFINE a == Until(n, i - 1)
             b == Until(n, i)
  <2>1. a \in Nat /\ b \in Nat /\ a < b /\ b <= n /\ p[i] = SubSeq(words, a + 1, b)
    BY <1>3, <1>4
  <2> HIDE DEF a, b
  <2>2. b <= Len(words)
    BY <2>1 DEF n
  <2>3. /\ p[i] \in Seq(S) /\ Len(p[i]) = b - a
        /\ \A k \in 1..(b - a) : p[i][k] = words[a + k]
    BY <2>1, <2>2, RunOf
  <2> QED BY <2>3 DEF a, b
<1>6. p \in Seq(U) /\ Len(p) = count
  <2>1. \A i \in 1..count : p[i] \in U
    BY <1>5
  <2>2. p = [i \in 1..count |-> p[i]]
    BY <1>2
  <2> HIDE DEF U, count
  <2> QED BY <1>1, <2>1, <2>2
<1>7. Flat(p) = words
  <2> DEFINE P(j) == Flat(SubSeq(p, 1, j)) = SubSeq(words, 1, Until(n, j))
             T == {j \in 0..count : ~P(j)}
  <2>1. ASSUME T # {} PROVE FALSE
    <3>1. PICK j \in T : \A k \in T : j <= k
      <4>1. T \subseteq Nat
        BY <1>1
      <4> HIDE DEF T
      <4> QED BY <2>1, <4>1, LeastNumber
    <3>2. CASE j = 0
      <4>1. SubSeq(p, 1, 0) = <<>> /\ SubSeq(words, 1, 0) = <<>>
        BY SubSeqEmpty
      <4>2. Until(n, 0) = 0
        BY <1>1 DEF Until
      <4>3. P(0)
        BY <4>1, <4>2, FlatEmpty
      <4> QED BY <3>1, <3>2, <4>3
    <3>3. CASE j # 0
      <4>1. j \in 1..count /\ j - 1 \in 0..count /\ j - 1 \notin T /\ j \in 1..Len(p)
        <5>1. j \in 0..count
          BY <3>1
        <5>2. j \in 1..count /\ j - 1 \in 0..count /\ ~(j <= j - 1)
          BY <1>1, <3>3, <5>1
        <5> HIDE DEF T, count
        <5> QED BY <1>6, <3>1, <5>2
      <4>2. P(j - 1)
        BY <4>1
      <4> DEFINE a == Until(n, j - 1)
                 b == Until(n, j)
                 before == SubSeq(p, 1, j - 1)
      <4>3. a \in Nat /\ b \in Nat /\ a < b /\ b <= n /\ p[j] = SubSeq(words, a + 1, b) /\ p[j] \in U
        BY <1>3, <1>4, <1>5, <4>1
      <4>4. before \in Seq(U) /\ SubSeq(p, 1, j) = Append(before, p[j])
        <5> HIDE DEF U
        <5> QED BY <1>6, <4>1, UpTo
      <4>5. Flat(before) = SubSeq(words, 1, a)
        BY <4>2
      <4> HIDE DEF a, b, before
      <4>6. Flat(Append(before, p[j])) = Flat(before) \o p[j]
        <5>1. before \in Seq(Seq(S)) /\ p[j] \in Seq(S)
          BY <4>3, <4>4
        <5> QED BY <5>1, FlatNext
      <4>7. SubSeq(words, 1, a) \o SubSeq(words, a + 1, b) = SubSeq(words, 1, b)
        <5>1. 1 \in 1..(Len(words) + 1) /\ a \in (1 - 1)..Len(words) /\ b \in a..Len(words)
          BY <1>1, <4>3
        <5> HIDE DEF n
        <5> QED BY <5>1, ConcatAdjacentSubSeq
      <4>8. Flat(SubSeq(p, 1, j)) = SubSeq(words, 1, b)
        BY <4>3, <4>4, <4>5, <4>6, <4>7
      <4>9. P(j)
        BY <4>8 DEF b
      <4> QED BY <3>1, <4>9
    <3> QED BY <3>2, <3>3
  <2>2. P(count)
    <3>1. count \in 0..count
      BY <1>1
    <3> HIDE DEF P, count
    <3> QED BY <2>1, <3>1
  <2>3. SubSeq(p, 1, count) = p /\ SubSeq(words, 1, n) = words
    <3>1. SubSeq(p, 1, Len(p)) = p
      <4> HIDE DEF U
      <4> QED BY <1>6, AllOfIt
    <3> QED BY <1>6, <3>1, AllOfIt
  <2>4. Until(n, count) = n
    BY <1>1 DEF Until
  <2> QED BY <2>2, <2>3, <2>4
<1>8. \A i \in 1..Len(p) : /\ p[i] \in Seq(S) /\ Len(p[i]) <= 6
                           /\ \A k \in 1..Len(p[i]) : \E j \in 1..Len(words) : p[i][k] = words[j]
  <2> TAKE i \in 1..Len(p)
  <2>1. i \in 1..count
    BY <1>6
  <2> DEFINE a == Until(n, i - 1)
             b == Until(n, i)
  <2>2. /\ a \in Nat /\ b \in Nat /\ b <= n /\ b - a <= 6 /\ p[i] \in Seq(S) /\ Len(p[i]) = b - a
        /\ \A k \in 1..Len(p[i]) : p[i][k] = words[a + k]
    BY <1>4, <1>5, <2>1
  <2> HIDE DEF a, b
  <2>3. \A k \in 1..Len(p[i]) : a + k \in 1..Len(words)
    BY <1>1, <2>2
  <2>4. Len(p[i]) <= 6
    BY <2>2
  <2> QED BY <2>2, <2>3, <2>4
<1> QED BY <1>6, <1>7, <1>8 DEF p, U, CutWell

-----------------------------------------------------------------------------
(* The chunks of a dialogue *)

LEMMA TextIs == \A lines : Dialog!TextOf(lines) = TextOf(lines)
BY FlatIs DEF Dialog!TextOf, TextOf, WordsOf

LEMMA SizeNext ==
    ASSUME NEW c \in Seq(SpokenLine), NEW line \in SpokenLine
    PROVE  /\ Dialog!Size(c) \in Int /\ Dialog!Length(line) = 1 + Len(line.words)
           /\ Dialog!Size(Append(c, line)) = Dialog!Size(c) + Dialog!Length(line) + 1
<1> DEFINE d == Append(c, line)
<1>1. line.words \in Seq(Word) /\ TextOf(c) \in Seq(Word) /\ Len(c) \in Nat
  <2>1. line.words \in Seq(Word)
    BY DEF SpokenLine
  <2>2. TextOf(c) \in Seq(Word)
    BY TextTyped
  <2> QED BY <2>1, <2>2
<1>2. TextOf(d) = TextOf(c) \o line.words /\ Len(d) = Len(c) + 1
  BY TextNext, AppendProperties
<1> HIDE DEF d
<1>3. Len(TextOf(d)) = Len(TextOf(c)) + Len(line.words)
  BY <1>1, <1>2, ConcatProperties
<1>4. Dialog!Size(c) = Len(TextOf(c)) + (1 + 1) * Len(c) - 1
      /\ Dialog!Size(d) = Len(TextOf(d)) + (1 + 1) * Len(d) - 1
  BY TextIs DEF Dialog!Size
<1>5. Dialog!Length(line) = 1 + Len(line.words)
  BY DEF Dialog!Length
<1>6. Len(TextOf(c)) \in Nat /\ Len(line.words) \in Nat
  BY <1>1
<1> DEFINE x == Len(TextOf(c))
           y == Len(line.words)
           z == Len(c)
<1>7. /\ x \in Nat /\ y \in Nat /\ z \in Nat
      /\ Dialog!Size(c) = x + (1 + 1) * z - 1 /\ Dialog!Length(line) = 1 + y
      /\ Dialog!Size(d) = (x + y) + (1 + 1) * (z + 1) - 1
  BY <1>1, <1>2, <1>3, <1>4, <1>5, <1>6
<1> HIDE DEF x, y, z
<1>8. Dialog!Size(c) \in Int /\ Dialog!Size(d) = Dialog!Size(c) + Dialog!Length(line) + 1
  BY <1>7
<1> QED BY <1>5, <1>8 DEF d

\* A chunk: lines of their speakers, within the size, or a single line of a piece.
ChunkFits(c) ==
    /\ c # <<>> /\ OwnLines(c)
    /\ Len(c) > 1 => Dialog!Size(c) <= 6
    /\ Len(c) = 1 => Len(c[1].words) <= 6
Packing(c) ==
    /\ c = [done |-> c.done, open |-> c.open]
    /\ c.done \in Seq(Seq(SpokenLine)) /\ \A i \in DOMAIN c.done : ChunkFits(c.done[i])
    /\ c.open = <<>> \/ ChunkFits(c.open)
Packed(c) == AllText(c.done) \o TextOf(c.open)

LEMMA OwnLinesTyped == \A c : ChunkFits(c) => c \in Seq(SpokenLine)
BY DEF ChunkFits, OwnLines

LEMMA PackingTyped ==
    ASSUME NEW c, Packing(c)
    PROVE  c.open \in Seq(SpokenLine) /\ AllText(c.done) \in Seq(Word) /\ TextOf(c.open) \in Seq(Word)
<1>1. c.open \in Seq(SpokenLine)
  <2>1. CASE c.open = <<>>
    BY <2>1
  <2>2. CASE c.open # <<>>
    BY <2>2, OwnLinesTyped DEF Packing
  <2> QED BY <2>1, <2>2
<1> QED BY <1>1, AllTextTyped, TextTyped DEF Packing

\* Closing the open chunk loses nothing.
LEMMA FlushedKeeps ==
    ASSUME NEW c, Packing(c)
    PROVE  /\ Packing(Dialog!Flushed(c)) /\ Packed(Dialog!Flushed(c)) = Packed(c)
           /\ Dialog!Flushed(c).open = <<>> /\ AllText(Dialog!Flushed(c).done) = Packed(c)
<1> DEFINE f == Dialog!Flushed(c)
           L == Seq(SpokenLine)
<1>1. c.done \in Seq(L) /\ c.open \in L /\ AllText(c.done) \in Seq(Word) /\ TextOf(c.open) \in Seq(Word)
  BY PackingTyped DEF Packing
<1>2. f.open = <<>> /\ f.done = (IF c.open = <<>> THEN c.done ELSE Append(c.done, c.open))
      /\ f = [done |-> f.done, open |-> f.open]
  BY DEF Dialog!Flushed
<1> HIDE DEF f
<1>3. CASE c.open = <<>>
  <2>1. f.done = c.done
    BY <1>2, <1>3
  <2>2. Packing(f)
    BY <1>2, <2>1 DEF Packing
  <2>3. AllText(f.done) = Packed(c)
    BY <1>1, <1>3, <2>1, TextEmpty, ConcatEmptySeq DEF Packed
  <2> QED BY <1>2, <1>3, <2>1, <2>2, <2>3 DEF Packed, f
<1>4. CASE c.open # <<>>
  <2>1. f.done = Append(c.done, c.open) /\ ChunkFits(c.open)
    BY <1>2, <1>4 DEF Packing
  <2>2. /\ f.done \in Seq(L) /\ Len(f.done) = Len(c.done) + 1 /\ f.done[Len(c.done) + 1] = c.open
        /\ \A i \in 1..Len(c.done) : f.done[i] = c.done[i]
    <3> HIDE DEF L
    <3> QED BY <1>1, <2>1, AppendProperties
  <2>3. \A i \in DOMAIN f.done : ChunkFits(f.done[i])
    <3> TAKE i \in DOMAIN f.done
    <3>1. DOMAIN f.done = 1..(Len(c.done) + 1) /\ Len(c.done) \in Nat /\ DOMAIN c.done = 1..Len(c.done)
      <4> HIDE DEF L
      <4> QED BY <1>1, <2>2
    <3>2. CASE i = Len(c.done) + 1
      BY <2>1, <2>2, <3>2
    <3>3. CASE i # Len(c.done) + 1
      <4>1. i \in 1..Len(c.done)
        BY <3>1, <3>3
      <4>2. ChunkFits(c.done[i])
        BY <3>1, <4>1 DEF Packing
      <4> QED BY <2>2, <4>1, <4>2
    <3> QED BY <3>2, <3>3
  <2>4. Packing(f)
    BY <1>2, <2>2, <2>3 DEF Packing
  <2>5. AllText(f.done) = Packed(c)
    BY <1>1, <2>1, AllTextNext DEF Packed
  <2>6. AllText(f.done) \in Seq(Word)
    BY <2>2, AllTextTyped
  <2>7. Packed(f) = AllText(f.done)
    BY <1>2, <2>6, TextEmpty, ConcatEmptySeq DEF Packed
  <2> QED BY <1>2, <2>4, <2>5, <2>7 DEF f
<1> QED BY <1>3, <1>4

LEMMA FittedKeeps ==
    ASSUME NEW c, Packing(c), NEW line
    PROVE  /\ Packing(Dialog!Fitted(c, line)) /\ Packed(Dialog!Fitted(c, line)) = Packed(c)
           /\ \/ Dialog!Fitted(c, line).open = <<>>
              \/ Dialog!Size(Dialog!Fitted(c, line).open) + Dialog!Length(line) + 1 <= 6
                 \/ ~(Dialog!Size(Dialog!Fitted(c, line).open) + Dialog!Length(line) + 1 > 6)
<1>1. CASE c.open # <<>> /\ Dialog!Size(c.open) + Dialog!Length(line) + 1 > 6
  <2>1. Dialog!Fitted(c, line) = Dialog!Flushed(c)
    BY <1>1 DEF Dialog!Fitted
  <2> QED BY <2>1, FlushedKeeps
<1>2. CASE ~(c.open # <<>> /\ Dialog!Size(c.open) + Dialog!Length(line) + 1 > 6)
  <2>1. Dialog!Fitted(c, line) = c
    BY <1>2 DEF Dialog!Fitted
  <2> QED BY <1>2, <2>1
<1> QED BY <1>1, <1>2

\* The pieces of a reply that is cut, each a chunk of its own.
Singles(line, cut) == [i \in DOMAIN cut |-> <<Dialog!Line(line.by, cut[i])>>]
CutFitted(line, q) == /\ q \in Seq(Seq(SpokenLine)) /\ AllText(q) = line.words
                      /\ \A i \in DOMAIN q : ChunkFits(q[i])

LEMMA CutFits ==
    ASSUME NEW line, OwnWords(line)
    PROVE  CutFitted(line, Singles(line, Dialog!Pieces(line.words)))
<1> DEFINE cut == Dialog!Pieces(line.words)
           l(i) == Dialog!Line(line.by, cut[i])
           q == [i \in DOMAIN cut |-> <<l(i)>>]
           m == Len(cut)
           L == Seq(SpokenLine)
           U == Seq(Word)
<1>1. line.words \in Seq(Word) /\ line.by \in Nat
      /\ \A j \in 1..Len(line.words) : line.words[j][1] = line.by
  BY DEF OwnWords, SpokenLine
<1>2. /\ cut \in Seq(U) /\ Flat(cut) = line.words
      /\ \A i \in 1..m : /\ cut[i] \in U /\ Len(cut[i]) <= 6
                         /\ \A k \in 1..Len(cut[i]) : \E j \in 1..Len(line.words) :
                                cut[i][k] = line.words[j]
  <2> DEFINE w == line.words
  <2>1. w \in Seq(Word)
    BY <1>1
  <2> HIDE DEF w
  <2>2. CutWell(Word, w, Dialog!Pieces(w))
    BY <2>1, PiecesWhole
  <2> QED BY <2>2 DEF w, CutWell
<1> HIDE DEF cut
<1>3. m \in Nat /\ DOMAIN cut = 1..m
  <2> HIDE DEF U
  <2> QED BY <1>2
<1>4. \A i \in 1..m : /\ OwnWords(l(i)) /\ l(i).words = cut[i] /\ l(i) \in SpokenLine
  <2> TAKE i \in 1..m
  <2>1. l(i) = [by |-> line.by, words |-> cut[i]]
    BY DEF Dialog!Line
  <2>2. \A k \in DOMAIN cut[i] : cut[i][k][1] = line.by
    <3> TAKE k \in DOMAIN cut[i]
    <3>1. k \in 1..Len(cut[i])
      BY <1>2
    <3> QED BY <1>1, <1>2, <3>1
  <2>3. l(i) \in SpokenLine
    BY <1>1, <1>2, <2>1 DEF SpokenLine
  <2> QED BY <2>1, <2>2, <2>3 DEF OwnWords
<1>5. \A i \in 1..m : ChunkFits(<<l(i)>>) /\ <<l(i)>> \in L
  <2> TAKE i \in 1..m
  <2> DEFINE c == <<l(i)>>
  <2>1. c \in L /\ Len(c) = 1 /\ c # <<>> /\ c[1] = l(i) /\ DOMAIN c = {1}
    <3>1. l(i) \in SpokenLine
      BY <1>4
    <3> HIDE DEF l
    <3> QED BY <3>1
  <2> HIDE DEF c
  <2>2. OwnLines(c)
    BY <1>4, <2>1 DEF OwnLines
  <2>3. Len(c[1].words) <= 6
    BY <1>2, <1>4, <2>1
  <2>4. ChunkFits(c)
    BY <2>1, <2>2, <2>3 DEF ChunkFits
  <2> QED BY <2>1, <2>4 DEF c
<1> HIDE DEF l
<1>6. q \in Seq(L) /\ Len(q) = m /\ DOMAIN q = 1..m /\ \A i \in 1..m : q[i] = <<l(i)>>
  <2> HIDE DEF L, m
  <2> QED BY <1>3, <1>5
<1> HIDE DEF q
<1>7. \A i \in DOMAIN q : ChunkFits(q[i])
  BY <1>5, <1>6
<1>8. TextsOf(q) = cut
  <2>1. TextsOf(q) \in Seq(U) /\ Len(TextsOf(q)) = m
    BY <1>6, AllTextTyped
  <2>2. \A i \in 1..m : TextsOf(q)[i] = cut[i]
    <3> TAKE i \in 1..m
    <3>1. TextOf(<<l(i)>>) = cut[i]
      BY <1>4, TextOne DEF l
    <3> QED BY <1>6, <3>1 DEF TextsOf
  <2> HIDE DEF U
  <2> QED BY <1>2, <2>1, <2>2, SeqEqual
<1>9. AllText(q) = line.words
  BY <1>2, <1>8 DEF AllText
<1> QED BY <1>6, <1>7, <1>9 DEF CutFitted, Singles, q, cut, l

\* A line is added whole, behind what is there.
LEMMA AddedKeeps ==
    ASSUME NEW c, Packing(c), NEW line, OwnWords(line)
    PROVE  /\ Packing(Dialog!Added(c, line))
           /\ Packed(Dialog!Added(c, line)) = Packed(c) \o line.words
<1> DEFINE f == Dialog!Fitted(c, line)
           g == Dialog!Flushed(f)
           a == Dialog!Added(c, line)
           L == Seq(SpokenLine)
<1>1. Packing(f) /\ Packed(f) = Packed(c)
      /\ (f.open = <<>> \/ ~(Dialog!Size(f.open) + Dialog!Length(line) + 1 > 6)
          \/ Dialog!Size(f.open) + Dialog!Length(line) + 1 <= 6)
  BY FittedKeeps
<1> HIDE DEF f
<1>2. Packing(g) /\ g.open = <<>> /\ AllText(g.done) = Packed(c)
  BY <1>1, FlushedKeeps
<1> HIDE DEF g
<1>3. line \in SpokenLine /\ line.words \in Seq(Word)
  BY DEF OwnWords, SpokenLine
<1>4. CASE Dialog!Length(line) > 6
  <2> DEFINE cut == Dialog!Pieces(line.words)
             q == [i \in DOMAIN cut |-> <<Dialog!Line(line.by, cut[i])>>]
  <2>1. /\ q \in Seq(L) /\ AllText(q) = line.words /\ \A i \in DOMAIN q : ChunkFits(q[i])
    BY CutFits DEF CutFitted, Singles
  <2>2. a = [g EXCEPT !.done = @ \o q]
    BY <1>4 DEF Dialog!Added, f, g
  <2> HIDE DEF q, a
  <2>3. g = [done |-> g.done, open |-> g.open] /\ g.done \in Seq(L)
    BY <1>2 DEF Packing
  <2>4. a = [done |-> g.done \o q, open |-> <<>>]
    BY <1>2, <2>2, <2>3
  <2>5. a.done = g.done \o q /\ a.open = <<>> /\ a = [done |-> a.done, open |-> a.open]
    BY <2>4
  <2>6. /\ a.done \in Seq(L) /\ Len(a.done) = Len(g.done) + Len(q)
        /\ \A i \in 1..(Len(g.done) + Len(q)) : a.done[i] =
              IF i <= Len(g.done) THEN g.done[i] ELSE q[i - Len(g.done)]
    <3> HIDE DEF L
    <3> QED BY <2>1, <2>3, <2>5, ConcatProperties
  <2>7. \A i \in DOMAIN a.done : ChunkFits(a.done[i])
    <3> TAKE i \in DOMAIN a.done
    <3>1. /\ DOMAIN a.done = 1..(Len(g.done) + Len(q)) /\ Len(g.done) \in Nat /\ Len(q) \in Nat
          /\ DOMAIN g.done = 1..Len(g.done) /\ DOMAIN q = 1..Len(q)
      <4> HIDE DEF L
      <4> QED BY <2>1, <2>3, <2>6
    <3>2. CASE i <= Len(g.done)
      <4>1. i \in DOMAIN g.done /\ a.done[i] = g.done[i]
        BY <2>6, <3>1, <3>2
      <4> QED BY <1>2, <4>1 DEF Packing
    <3>3. CASE ~(i <= Len(g.done))
      <4>1. i - Len(g.done) \in DOMAIN q /\ a.done[i] = q[i - Len(g.done)]
        <5>1. i \in 1..(Len(g.done) + Len(q)) /\ i - Len(g.done) \in 1..Len(q)
          BY <3>1, <3>3
        <5> QED BY <2>6, <3>1, <3>3, <5>1
      <4> QED BY <2>1, <4>1
    <3> QED BY <3>2, <3>3
  <2>8. Packing(a)
    BY <2>5, <2>6, <2>7 DEF Packing
  <2>9. AllText(a.done) = AllText(g.done) \o AllText(q)
    BY <2>1, <2>3, <2>5, AllTextBoth
  <2>10. Packed(a) = AllText(a.done)
    <3>1. AllText(a.done) \in Seq(Word)
      BY <2>8, PackingTyped
    <3> QED BY <2>5, <3>1, TextEmpty, ConcatEmptySeq DEF Packed
  <2> QED BY <1>2, <2>1, <2>8, <2>9, <2>10 DEF a
<1>5. CASE ~(Dialog!Length(line) > 6)
  <2> DEFINE open == Append(f.open, line)
  <2>1. a = [f EXCEPT !.open = Append(@, line)]
    BY <1>5 DEF Dialog!Added, f
  <2>2. f = [done |-> f.done, open |-> f.open] /\ f.done \in Seq(L) /\ f.open \in L
        /\ (f.open = <<>> \/ ChunkFits(f.open)) /\ AllText(f.done) \in Seq(Word)
        /\ TextOf(f.open) \in Seq(Word)
    BY <1>1, PackingTyped DEF Packing
  <2> HIDE DEF a
  <2>3. a.done = f.done /\ a.open = open /\ a = [done |-> a.done, open |-> a.open]
    BY <2>1, <2>2
  <2>4. /\ open \in Seq(SpokenLine) /\ open # <<>> /\ Len(open) = Len(f.open) + 1
        /\ open[Len(f.open) + 1] = line /\ \A i \in 1..Len(f.open) : open[i] = f.open[i]
    BY <1>3, <2>2, AppendProperties
  <2>5. Dialog!Size(f.open) \in Int /\ Dialog!Length(line) = 1 + Len(line.words)
        /\ Dialog!Size(open) = Dialog!Size(f.open) + Dialog!Length(line) + 1
    BY <1>3, <2>2, SizeNext
  <2>6. TextOf(open) = TextOf(f.open) \o line.words
    BY <1>3, <2>2, TextNext
  <2> HIDE DEF open
  <2>7. OwnLines(open)
    <3> SUFFICES ASSUME NEW i \in DOMAIN open PROVE OwnWords(open[i])
      BY <2>4 DEF OwnLines
    <3>1. DOMAIN open = 1..(Len(f.open) + 1) /\ Len(f.open) \in Nat /\ DOMAIN f.open = 1..Len(f.open)
      BY <2>2, <2>4
    <3>2. CASE i = Len(f.open) + 1
      BY <2>4, <3>2
    <3>3. CASE i # Len(f.open) + 1
      <4>1. i \in DOMAIN f.open /\ i \in 1..Len(f.open)
        BY <3>1, <3>3
      <4>2. f.open # <<>>
        BY <4>1
      <4>3. OwnWords(f.open[i])
        BY <2>2, <4>1, <4>2 DEF ChunkFits, OwnLines
      <4> QED BY <2>4, <4>1, <4>3
    <3> QED BY <3>2, <3>3
  <2>8. ChunkFits(open)
    <3>1. CASE f.open = <<>>
      <4>1. Len(open) = 1 /\ open[1] = line
        BY <2>4, <3>1
      <4>2. Len(line.words) <= 6
        <5>1. Len(line.words) \in Nat
          BY <1>3
        <5> QED BY <1>5, <2>5, <5>1
      <4>3. ~(Len(open) > 1) /\ Len(open[1].words) <= 6
        BY <4>1, <4>2
      <4>4. open # <<>>
        BY <2>4
      <4> QED BY <2>7, <4>3, <4>4 DEF ChunkFits
    <3>2. CASE f.open # <<>>
      <4>1. Len(f.open) \in Nat /\ Len(f.open) # 0
        BY <2>2, <3>2
      <4>2. Len(open) # 1
        BY <2>4, <4>1
      <4>3. Len(line.words) \in Nat
        BY <1>3
      <4>4. Dialog!Size(open) <= 6
        BY <1>1, <2>5, <3>2, <4>3
      <4> QED BY <2>4, <2>7, <4>2, <4>4 DEF ChunkFits
    <3> QED BY <3>1, <3>2
  <2>9. Packing(a)
    BY <1>1, <2>3, <2>8 DEF Packing
  <2>10. Packed(a) = AllText(f.done) \o (TextOf(f.open) \o line.words)
    BY <2>3, <2>6 DEF Packed
  <2>11. (AllText(f.done) \o TextOf(f.open)) \o line.words
            = AllText(f.done) \o (TextOf(f.open) \o line.words)
    <3> DEFINE x == AllText(f.done)
               y == TextOf(f.open)
               z == line.words
    <3>1. x \in Seq(Word) /\ y \in Seq(Word) /\ z \in Seq(Word)
      BY <1>3, <2>2
    <3> HIDE DEF x, y, z
    <3>2. (x \o y) \o z = x \o (y \o z)
      BY <3>1, ConcatAssociative
    <3> QED BY <3>2 DEF x, y, z
  <2>12. Packed(f) = AllText(f.done) \o TextOf(f.open)
    BY DEF Packed
  <2> QED BY <1>1, <2>9, <2>10, <2>11, <2>12 DEF a
<1> QED BY <1>4, <1>5

-----------------------------------------------------------------------------
(* From the turns to the items *)

\* The state of the packing after each line.
Start == [done |-> <<>>, open |-> <<>>]
Packs(F, lines, m) == DOMAIN F = 0..m /\ F[0] = Start
                      /\ \A n \in 1..m : F[n] = Dialog!Added(F[n - 1], lines[n])

LEMMA PacksExist ==
    ASSUME NEW lines, NEW top \in Nat
    PROVE  \E F : Packs(F, lines, top)
<1> DEFINE P(k) == \E F : Packs(F, lines, k)
           T == {k \in 0..top : ~P(k)}
<1>1. SUFFICES ASSUME T # {} PROVE FALSE
  <2> HIDE DEF P
  <2>1. P(top)
    BY <1>1
  <2> QED BY <2>1 DEF P
<1>2. PICK k \in T : \A j \in T : k <= j
  <2> HIDE DEF P
  <2>1. T \subseteq Nat
    OBVIOUS
  <2> HIDE DEF T
  <2> QED BY <1>1, <2>1, LeastNumber
<1>3. CASE k = 0
  <2> DEFINE F == [n \in 0..0 |-> Start]
  <2>1. DOMAIN F = 0..0 /\ F[0] = Start /\ 1..0 = {}
    OBVIOUS
  <2> HIDE DEF F
  <2>2. P(0)
    BY <2>1 DEF Packs
  <2> QED BY <1>2, <1>3, <2>2
<1>4. CASE k # 0
  <2>1. k - 1 \in 0..top /\ k - 1 \notin T /\ k \in 1..top
    <3> HIDE DEF P
    <3>1. k \in 0..top
      BY <1>2
    <3>2. k - 1 \in 0..top /\ k \in 1..top /\ ~(k <= k - 1)
      BY <1>4, <3>1
    <3> HIDE DEF T
    <3> QED BY <1>2, <3>2
  <2>2. PICK F : Packs(F, lines, k - 1)
    <3>1. P(k - 1)
      BY <2>1
    <3> QED BY <3>1
  <2> DEFINE next == Dialog!Added(F[k - 1], lines[k])
             G == [n \in 0..k |-> IF n = k THEN next ELSE F[n]]
  <2> HIDE DEF next
  <2>3. DOMAIN G = 0..k /\ G[k] = next /\ \A n \in 0..(k - 1) : G[n] = F[n]
    <3>1. k \in 0..k /\ \A n \in 0..(k - 1) : n \in 0..k /\ n # k
      BY <2>1
    <3> QED BY <3>1
  <2> HIDE DEF G
  <2>4. \A n \in 1..k : G[n] = Dialog!Added(G[n - 1], lines[n])
    <3> TAKE n \in 1..k
    <3>1. CASE n = k
      <4>1. G[n - 1] = F[k - 1]
        BY <2>1, <2>3, <3>1
      <4> QED BY <2>3, <3>1, <4>1 DEF next
    <3>2. CASE n # k
      <4>1. n \in 1..(k - 1) /\ n \in 0..(k - 1) /\ n - 1 \in 0..(k - 1)
        BY <2>1, <3>2
      <4> QED BY <2>2, <2>3, <4>1 DEF Packs
    <3> QED BY <3>1, <3>2
  <2>5. G[0] = Start
    BY <2>1, <2>2, <2>3 DEF Packs
  <2>6. P(k)
    BY <2>3, <2>4, <2>5 DEF Packs
  <2> QED BY <1>2, <2>6
<1> QED BY <1>3, <1>4

\* The chunks of a dialogue hold all its words, in order, and fit.
LEMMA ChunksWhole ==
    ASSUME NEW lines, OwnLines(lines)
    PROVE  /\ Dialog!Chunks(lines) \in Seq(Seq(SpokenLine))
           /\ AllText(Dialog!Chunks(lines)) = TextOf(lines)
           /\ \A i \in DOMAIN Dialog!Chunks(lines) : ChunkFits(Dialog!Chunks(lines)[i])
<1> DEFINE m == Len(lines)
           Def(h) == h = [n \in 0..m |-> IF n = 0 THEN Start ELSE Dialog!Added(h[n - 1], lines[n])]
           h0 == CHOOSE h : Def(h)
           end == h0[m]
<1>1. lines \in Seq(SpokenLine) /\ m \in Nat /\ \A i \in 1..m : OwnWords(lines[i])
  BY DEF OwnLines
<1>2. Dialog!Chunks(lines) = Dialog!Flushed(end).done
  BY DEF Dialog!Chunks, Start
<1>3. Def(h0)
  <2>1. PICK F : Packs(F, lines, m)
    BY <1>1, PacksExist
  <2> DEFINE g == [n \in 0..m |-> F[n]]
  <2>2. \A n \in 0..m : g[n] = IF n = 0 THEN Start ELSE Dialog!Added(g[n - 1], lines[n])
    <3> TAKE n \in 0..m
    <3>1. CASE n = 0
      BY <2>1, <3>1 DEF Packs
    <3>2. CASE n # 0
      <4>1. n \in 1..m /\ n - 1 \in 0..m
        BY <1>1, <3>2
      <4> QED BY <2>1, <3>2, <4>1 DEF Packs
    <3> QED BY <3>1, <3>2
  <2>3. g = [n \in 0..m |-> g[n]]
    OBVIOUS
  <2> HIDE DEF g
  <2>4. Def(g)
    BY <2>2, <2>3
  <2> HIDE DEF Def
  <2> QED BY <2>4
<1> HIDE DEF h0
<1>4. h0[0] = Start /\ \A n \in 1..m : h0[n] = Dialog!Added(h0[n - 1], lines[n])
  <2>1. \A n \in 0..m : h0[n] = IF n = 0 THEN Start ELSE Dialog!Added(h0[n - 1], lines[n])
    BY <1>3
  <2>2. 0 \in 0..m /\ \A n \in 1..m : n \in 0..m /\ n # 0
    BY <1>1
  <2> QED BY <2>1, <2>2
<1> HIDE DEF Def
<1> DEFINE Good(n) == Packing(h0[n]) /\ Packed(h0[n]) = TextOf(SubSeq(lines, 1, n))
           T == {n \in 0..m : ~Good(n)}
<1>5. Good(0)
  <2>1. Start.done = <<>> /\ Start.open = <<>> /\ Start = [done |-> Start.done, open |-> Start.open]
    BY DEF Start
  <2> DEFINE L == Seq(SpokenLine)
  <2>2. <<>> \in Seq(L) /\ DOMAIN <<>> = {}
    <3> HIDE DEF L
    <3> QED OBVIOUS
  <2>3. Packing(Start)
    BY <2>1, <2>2 DEF Packing
  <2>4. <<>> \o <<>> = <<>>
    OBVIOUS
  <2>5. Packed(Start) = <<>>
    BY <2>1, <2>4, AllTextEmpty, TextEmpty DEF Packed
  <2>6. SubSeq(lines, 1, 0) = <<>>
    BY SubSeqEmpty
  <2> QED BY <1>4, <2>3, <2>5, <2>6, TextEmpty
<1>6. ASSUME NEW n \in 1..m, Good(n - 1) PROVE Good(n)
  <2> DEFINE a == SubSeq(lines, 1, n - 1)
  <2>1. a \in Seq(SpokenLine) /\ SubSeq(lines, 1, n) = Append(a, lines[n])
    BY <1>1, UpTo
  <2>2. OwnWords(lines[n]) /\ lines[n] \in SpokenLine
    BY <1>1 DEF OwnWords
  <2>3. Packing(h0[n - 1]) /\ Packed(h0[n - 1]) = TextOf(a) /\ h0[n] = Dialog!Added(h0[n - 1], lines[n])
    BY <1>4, <1>6
  <2> HIDE DEF a
  <2>4. Packing(h0[n]) /\ Packed(h0[n]) = TextOf(a) \o lines[n].words
    BY <2>2, <2>3, AddedKeeps
  <2>5. TextOf(Append(a, lines[n])) = TextOf(a) \o lines[n].words
    BY <2>1, <2>2, TextNext
  <2> QED BY <2>1, <2>4, <2>5
<1> HIDE DEF Good
<1>7. ASSUME T # {} PROVE FALSE
  <2>1. PICK n \in T : \A j \in T : n <= j
    <3>1. T \subseteq Nat
      BY <1>1
    <3> HIDE DEF T
    <3> QED BY <1>7, <3>1, LeastNumber
  <2>2. n \in 0..m /\ ~Good(n)
    BY <2>1
  <2>3. n \in 1..m /\ n - 1 \in 0..m /\ ~(n <= n - 1)
    <3>1. n # 0
      BY <1>5, <2>2
    <3> QED BY <1>1, <2>2, <3>1
  <2>4. Good(n - 1)
    BY <2>1, <2>3
  <2> QED BY <1>6, <2>2, <2>3, <2>4
<1>8. Good(m)
  <2>1. m \in 0..m
    BY <1>1
  <2> HIDE DEF m
  <2> QED BY <1>7, <2>1
<1>9. Packing(end) /\ Packed(end) = TextOf(lines)
  BY <1>1, <1>8, AllOfIt DEF Good
<1> HIDE DEF end
<1>10. Packing(Dialog!Flushed(end)) /\ AllText(Dialog!Flushed(end).done) = Packed(end)
  BY <1>9, FlushedKeeps
<1> QED BY <1>2, <1>9, <1>10 DEF Packing

\* The blocks there are.
BlockPlaces == {w \in Nat \X Nat : w[1] \in DOMAIN dialog /\ w[2] \in DOMAIN dialog[w[1]].blocks}
Block == [size : Nat, document : BOOLEAN]

\* The turns are as they are given, and the n-th of some places is one of them.
DialogFits ==
    /\ Dialog!TypeOK /\ TurnContents \subseteq Seq(Block)
    /\ \A n \in Int : \A K \in SUBSET (1..n) :
          /\ Dialog!Cardinality(K) \in Nat
          /\ \A x \in 1..Dialog!Cardinality(K) : Dialog!Nth(K, x) \in K

LEMMA BlocksTyped ==
    ASSUME DialogFits, NEW t \in DOMAIN dialog
    PROVE  t \in Nat /\ dialog[t].blocks \in Seq(Block)
<1>1. dialog \in Seq(Dialog!Turn)
  BY DEF DialogFits, Dialog!TypeOK
<1>2. t \in Nat /\ dialog[t] \in Dialog!Turn
  BY <1>1
<1>3. dialog[t].blocks \in TurnContents
  BY <1>2 DEF Dialog!Turn
<1> QED BY <1>2, <1>3 DEF DialogFits

LEMMA OfTurnTyped ==
    ASSUME DialogFits, NEW t \in DOMAIN dialog, NEW p, NEW document
    PROVE  Dialog!OfTurn(p, document, t) \in Seq(BlockPlaces)
<1> DEFINE blocks == dialog[t].blocks
           kept == {b \in DOMAIN blocks : blocks[b].size > 0 /\ blocks[b].document = document}
           n == Len(blocks)
           count == Dialog!Cardinality(kept)
<1>1. t \in Nat /\ blocks \in Seq(Block)
  BY BlocksTyped
<1>2. n \in Nat /\ DOMAIN blocks = 1..n
  BY <1>1
<1>3. kept \in SUBSET (1..n)
  BY <1>2
<1>a. DOMAIN dialog[t].blocks = 1..n
  BY <1>2
<1>4. Dialog!OfTurn(p, document, t) = <<>>
      \/ Dialog!OfTurn(p, document, t) = [x \in 1..Dialog!Cardinality(kept) |-> <<t, Dialog!Nth(kept, x)>>]
  BY DEF Dialog!OfTurn
<1> HIDE DEF blocks, kept, n
<1>5. Dialog!Cardinality(kept) = count
  OBVIOUS
<1>7. count \in Nat /\ \A x \in 1..count : Dialog!Nth(kept, x) \in kept
  <2>1. n \in Int
    BY <1>2
  <2> QED BY <1>3, <2>1 DEF DialogFits
<1> HIDE DEF count
<1>8. \A x \in 1..count : <<t, Dialog!Nth(kept, x)>> \in BlockPlaces
  <2> TAKE x \in 1..count
  <2> DEFINE b == Dialog!Nth(kept, x)
  <2>1. b \in 1..n
    BY <1>3, <1>7
  <2>2. b \in Nat /\ b \in DOMAIN dialog[t].blocks
    BY <1>2, <1>a, <2>1
  <2> HIDE DEF b
  <2>3. <<t, b>> \in Nat \X Nat /\ <<t, b>>[1] = t /\ <<t, b>>[2] = b
    BY <1>1, <2>2
  <2>4. <<t, b>> \in BlockPlaces
    BY <2>2, <2>3 DEF BlockPlaces
  <2> QED BY <2>4 DEF b
<1>9. [x \in 1..count |-> <<t, Dialog!Nth(kept, x)>>] \in Seq(BlockPlaces)
  <2> DEFINE f(x) == <<t, Dialog!Nth(kept, x)>>
  <2>1. \A x \in 1..count : f(x) \in BlockPlaces
    BY <1>8
  <2> HIDE DEF f
  <2>2. [x \in 1..count |-> f(x)] \in Seq(BlockPlaces)
    BY <1>7, <2>1
  <2> QED BY <2>2 DEF f
<1>10. <<>> \in Seq(BlockPlaces)
  OBVIOUS
<1> QED BY <1>4, <1>5, <1>9, <1>10

LEMMA KeptTyped ==
    ASSUME DialogFits, NEW p, NEW document
    PROVE  Dialog!Kept(p, document) \in Seq(BlockPlaces)
<1> DEFINE f(t) == Dialog!OfTurn(p, document, t)
           ss == [t \in DOMAIN dialog |-> f(t)]
           U == Seq(BlockPlaces)
           n == Len(dialog)
<1>1. n \in Nat /\ DOMAIN dialog = 1..n
  BY DEF DialogFits, Dialog!TypeOK
<1>2. \A t \in 1..n : f(t) \in U
  BY <1>1, OfTurnTyped
<1>3. Dialog!Kept(p, document) = Flat(ss)
  BY FlatIs DEF Dialog!Kept
<1> HIDE DEF f, U, n
<1>4. ss \in Seq(U)
  BY <1>1, <1>2
<1> HIDE DEF ss
<1>5. ss \in Seq(Seq(BlockPlaces))
  BY <1>4 DEF U
<1>6. Flat(ss) \in Seq(BlockPlaces)
  BY <1>5, RunsExist, FlatRuns
<1> QED BY <1>3, <1>6

\* A block is a line of its turn's words.
LEMMA PlaceWords ==
    ASSUME DialogFits, NEW w \in BlockPlaces
    PROVE  /\ OwnWords(Dialog!Line(w[1], Dialog!Words(w[1], w[2])))
           /\ Dialog!Line(w[1], Dialog!Words(w[1], w[2])) \in SpokenLine
           /\ Dialog!Line(w[1], Dialog!Words(w[1], w[2])).words = Dialog!Words(w[1], w[2])
<1> DEFINE t == w[1]
           b == w[2]
           size == dialog[t].blocks[b].size
           words == Dialog!Words(t, b)
           line == Dialog!Line(t, words)
<1>1. t \in Nat /\ b \in Nat /\ t \in DOMAIN dialog /\ b \in DOMAIN dialog[t].blocks
  BY DEF BlockPlaces
<1>2. size \in Nat
  <2>1. dialog[t].blocks \in Seq(Block)
    BY <1>1, BlocksTyped
  <2>2. dialog[t].blocks[b] \in Block
    BY <1>1, <2>1
  <2> QED BY <2>2 DEF Block
<1>3. words = [k \in 1..size |-> <<t, b, k>>]
  BY DEF Dialog!Words
<1> HIDE DEF t, b, size, words
<1>4. \A k \in 1..size : <<t, b, k>> \in Word /\ <<t, b, k>>[1] = t
  <2> TAKE k \in 1..size
  <2>1. k \in Nat
    BY <1>2
  <2> QED BY <1>1, <2>1 DEF Word
<1>5. words \in Seq(Word) /\ DOMAIN words = 1..size /\ \A k \in DOMAIN words : words[k][1] = t
  BY <1>2, <1>3, <1>4
<1>6. line = [by |-> t, words |-> words]
  BY DEF Dialog!Line
<1> HIDE DEF line
<1>7. line \in SpokenLine /\ line.words = words /\ line.by = t
  BY <1>1, <1>5, <1>6 DEF SpokenLine
<1>8. OwnWords(line)
  BY <1>5, <1>7 DEF OwnWords
<1> QED BY <1>7, <1>8 DEF line, words, t, b

-----------------------------------------------------------------------------
(* The items *)

\* The lines of a thread's replies, and what a conversation must hold of them.
LinesOf(said) == [i \in DOMAIN said |-> Dialog!Line(said[i][1], Dialog!Words(said[i][1], said[i][2]))]

LEMMA LinesTyped ==
    ASSUME DialogFits, NEW said \in Seq(BlockPlaces)
    PROVE  /\ OwnLines(LinesOf(said))
           /\ TextOf(LinesOf(said)) =
                Dialog!FlattenSeq([k \in DOMAIN said |-> Dialog!Words(said[k][1], said[k][2])])
<1> DEFINE l(i) == Dialog!Line(said[i][1], Dialog!Words(said[i][1], said[i][2]))
           lines == LinesOf(said)
<1>1. Len(said) \in Nat /\ DOMAIN said = 1..Len(said) /\ \A i \in DOMAIN said : said[i] \in BlockPlaces
  OBVIOUS
<1>2. \A i \in DOMAIN said : /\ OwnWords(l(i)) /\ l(i) \in SpokenLine
                             /\ l(i).words = Dialog!Words(said[i][1], said[i][2])
  BY <1>1, PlaceWords
<1>3. lines = [i \in DOMAIN said |-> l(i)]
  BY DEF LinesOf
<1> HIDE DEF l, lines
<1>4. lines \in Seq(SpokenLine) /\ DOMAIN lines = DOMAIN said
  BY <1>1, <1>2, <1>3
<1>5. OwnLines(lines)
  BY <1>2, <1>3, <1>4 DEF OwnLines
<1>6. WordsOf(lines) = [k \in DOMAIN said |-> Dialog!Words(said[k][1], said[k][2])]
  BY <1>2, <1>3, <1>4 DEF WordsOf
<1> QED BY <1>5, <1>6, FlatIs DEF TextOf, lines

\* What is said of an item, as the property says it.
ItemKept(item, said) ==
    /\ Dialog!Said(item) = Dialog!FlattenSeq([k \in DOMAIN said |->
                                Dialog!Words(said[k][1], said[k][2])])
    /\ \A c \in Dialog!ToSet(item.chunks) :
        /\ c # <<>>
        /\ \A k \in DOMAIN c : \A w \in Dialog!ToSet(c[k].words) : w[1] = c[k].by
        /\ Len(c) > 1 => Dialog!Size(c) <= 6
        /\ Len(c) = 1 => Len(c[1].words) <= 6

LEMMA ConversationKept ==
    ASSUME DialogFits, NEW said \in Seq(BlockPlaces), NEW item,
           item.chunks = Dialog!Chunks(LinesOf(said))
    PROVE  ItemKept(item, said)
<1> DEFINE lines == LinesOf(said)
           cs == item.chunks
<1>1. OwnLines(lines) /\ TextOf(lines) =
        Dialog!FlattenSeq([k \in DOMAIN said |-> Dialog!Words(said[k][1], said[k][2])])
  BY LinesTyped
<1> HIDE DEF lines
<1>2. /\ cs \in Seq(Seq(SpokenLine)) /\ AllText(cs) = TextOf(lines)
      /\ \A i \in DOMAIN cs : ChunkFits(cs[i])
  BY <1>1, ChunksWhole DEF lines
<1>3. Dialog!Said(item) = AllText(cs)
  BY TextIs, FlatIs DEF Dialog!Said, AllText, TextsOf
<1>4. \A c \in Dialog!ToSet(cs) : ChunkFits(c)
  BY <1>2 DEF Dialog!ToSet
<1> HIDE DEF cs
<1>5. ASSUME NEW c, ChunkFits(c)
      PROVE  /\ c # <<>>
             /\ \A k \in DOMAIN c : \A w \in Dialog!ToSet(c[k].words) : w[1] = c[k].by
             /\ Len(c) > 1 => Dialog!Size(c) <= 6
             /\ Len(c) = 1 => Len(c[1].words) <= 6
  <2>1. \A k \in DOMAIN c : \A w \in Dialog!ToSet(c[k].words) : w[1] = c[k].by
    BY <1>5 DEF ChunkFits, OwnLines, OwnWords, Dialog!ToSet
  <2> QED BY <1>5, <2>1 DEF ChunkFits
<1>6. \A c \in Dialog!ToSet(cs) :
        /\ c # <<>>
        /\ \A k \in DOMAIN c : \A w \in Dialog!ToSet(c[k].words) : w[1] = c[k].by
        /\ Len(c) > 1 => Dialog!Size(c) <= 6
        /\ Len(c) = 1 => Len(c[1].words) <= 6
  BY <1>4, <1>5
<1> QED BY <1>1, <1>2, <1>3, <1>6 DEF ItemKept, cs

\* The two items of a document.
Other == [kind : {"document", "upload"}, date : Nat, chunks : Seq(Seq(SpokenLine))]
Documented(documents) == [i \in DOMAIN documents |->
    LET t == documents[i][1] IN
    <<[kind |-> "document", date |-> 0,
       chunks |-> <<<<Dialog!Line(t, Dialog!Words(t, documents[i][2]))>>>>],
      [kind |-> "upload", date |-> t, chunks |-> <<>>]>>]

LEMMA DocumentsAreOthers ==
    ASSUME DialogFits, NEW documents \in Seq(BlockPlaces)
    PROVE  Flat(Documented(documents)) \in Seq(Other)
<1> DEFINE L == Seq(SpokenLine)
           U == Seq(Other)
           l(i) == Dialog!Line(documents[i][1], Dialog!Words(documents[i][1], documents[i][2]))
           two(i) == <<[kind |-> "document", date |-> 0, chunks |-> <<<<l(i)>>>>],
                       [kind |-> "upload", date |-> documents[i][1], chunks |-> <<>>]>>
           ss == Documented(documents)
<1>1. Len(documents) \in Nat /\ DOMAIN documents = 1..Len(documents)
      /\ \A i \in DOMAIN documents : documents[i] \in BlockPlaces
  OBVIOUS
<1>2. \A i \in DOMAIN documents : l(i) \in SpokenLine /\ documents[i][1] \in Nat
  BY <1>1, PlaceWords DEF BlockPlaces
<1>3. ss = [i \in DOMAIN documents |-> two(i)]
  BY DEF Documented
<1> HIDE DEF l, ss
<1>4. \A i \in DOMAIN documents : two(i) \in U
  <2> TAKE i \in DOMAIN documents
  <2>1. <<<<l(i)>>>> \in Seq(L) /\ <<>> \in Seq(L)
    <3>1. <<l(i)>> \in L
      BY <1>2
    <3> HIDE DEF L
    <3> QED BY <3>1
  <2> DEFINE a == [kind |-> "document", date |-> 0, chunks |-> <<<<l(i)>>>>]
             b == [kind |-> "upload", date |-> documents[i][1], chunks |-> <<>>]
  <2>2. a \in Other /\ b \in Other
    BY <1>2, <2>1 DEF Other
  <2> HIDE DEF a, b
  <2>3. <<a, b>> \in Seq(Other)
    BY <2>2
  <2> QED BY <2>3 DEF a, b
<1> HIDE DEF two, U
<1>5. ss \in Seq(U)
  BY <1>1, <1>3, <1>4
<1>6. ss \in Seq(Seq(Other))
  BY <1>5 DEF U
<1>7. Flat(ss) \in Seq(Other)
  BY <1>6, RunsExist, FlatRuns
<1> QED BY <1>7 DEF ss

\* Every word of a conversation is in its chunks, once and in order.
LEMMA DialogIsKept == DialogFits => Dialog!DialogKept
<1> SUFFICES ASSUME DialogFits, NEW p \in People, NEW i \in DOMAIN Dialog!Items(p),
                    Dialog!Items(p)[i].kind = "conversation"
             PROVE  i = 1 /\ ItemKept(Dialog!Items(p)[i], Dialog!Kept(p, FALSE))
  BY DEF Dialog!DialogKept, ItemKept
<1> DEFINE said == Dialog!Kept(p, FALSE)
           documents == Dialog!Kept(p, TRUE)
           others == Flat(Documented(documents))
           conversation == [kind |-> "conversation", date |-> said[1][1],
                            chunks |-> Dialog!Chunks(LinesOf(said))]
           first == IF said = <<>> THEN <<>> ELSE <<conversation>>
<1>1. said \in Seq(BlockPlaces) /\ documents \in Seq(BlockPlaces)
  BY KeptTyped
<1>2. Dialog!Items(p) = first \o others
  BY FlatIs DEF Dialog!Items, LinesOf, Documented
<1>3. others \in Seq(Other)
  BY <1>1, DocumentsAreOthers
<1> HIDE DEF others, said, documents
<1>4. \A o \in Other : o.kind # "conversation"
  BY DEF Other
<1>5. CASE said = <<>>
  <2>1. Dialog!Items(p) = others
    BY <1>2, <1>3, <1>5, ConcatEmptySeq
  <2>2. Dialog!Items(p)[i] \in Other
    BY <1>3, <2>1
  <2> QED BY <1>4, <2>2
<1>6. CASE said # <<>>
  <2> HIDE DEF conversation
  <2>1. first = <<conversation>> /\ Len(first) = 1 /\ first[1] = conversation
    BY <1>6
  <2> HIDE DEF first
  <2> DEFINE S == Other \cup {conversation}
  <2>2. first \in Seq(S) /\ others \in Seq(S)
    BY <1>3, <2>1
  <2>3. /\ Dialog!Items(p) \in Seq(S) /\ Len(Dialog!Items(p)) = 1 + Len(others) /\ Len(others) \in Nat
        /\ \A j \in 1..(1 + Len(others)) :
              Dialog!Items(p)[j] = IF j <= 1 THEN first[j] ELSE others[j - 1]
    <3> HIDE DEF S
    <3> QED BY <1>2, <2>1, <2>2, ConcatProperties
  <2>4. i \in 1..(1 + Len(others))
    BY <2>3
  <2>5. i = 1
    <3>1. SUFFICES ASSUME i # 1 PROVE FALSE
      OBVIOUS
    <3>2. i - 1 \in 1..Len(others) /\ ~(i <= 1)
      BY <2>3, <2>4, <3>1
    <3>3. Dialog!Items(p)[i] = others[i - 1]
      BY <2>3, <2>4, <3>2
    <3>4. others[i - 1] \in Other
      BY <1>3, <3>2
    <3> QED BY <1>4, <3>3, <3>4
  <2>6. Dialog!Items(p)[i] = conversation
    BY <2>1, <2>3, <2>4, <2>5
  <2>7. conversation.chunks = Dialog!Chunks(LinesOf(said))
    BY DEF conversation
  <2>8. ItemKept(conversation, said)
    BY <1>1, <2>7, ConversationKept
  <2> QED BY <2>5, <2>6, <2>8 DEF said
<1> QED BY <1>5, <1>6

=============================================================================
