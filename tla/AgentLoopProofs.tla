--------------------------- MODULE AgentLoopProofs ----------------------------
(***************************************************************************)
(* The history an agent builds is one a model accepts, a stop adds nothing *)
(* to it but whole rounds closed by their notice, and messages enter it in *)
(* the order they were sent and at most once: for any number of messages,  *)
(* tool rounds, coroutines and stops.                                      *)
(***************************************************************************)
EXTENDS MCTurns, SequenceTheorems, TLAPS

Roles == {"user", "call", "tool", "answer", "aborted"}
Entries == [kind : {"msg", "coro"}, id : Nat, asks : BOOLEAN]
Turns == [role : Roles, ids : Seq(Nat)]

\* The types that the proofs need; the bounds may be anything.
Typed ==
    /\ queue \in Seq(Entries) /\ batch \in Seq(Entries)
    /\ history \in Seq(Turns)
    /\ pc \in Stages
    /\ stop \in BOOLEAN /\ cancelled \in BOOLEAN

\* What HistoryWellFormed says of a history.
Formed(h) ==
    \A i \in DOMAIN h :
        /\ h[i].role = "call" => i < Len(h) /\ h[i + 1].role = "tool"
        /\ h[i].role = "tool" => i > 1 /\ h[i - 1].role = "call"
        /\ h[i].role \in {"answer", "aborted"} => (i < Len(h) => h[i + 1].role = "user")

\* A turn is under way that an answer may still end.
Open(h) == h # <<>> /\ h[Len(h)].role \in {"user", "tool"}

\* While the model or a tool is awaited the history ends with what the answer is to.
HistoryInv ==
    /\ Formed(history)
    /\ pc \in {"processing", "llm", "tools", "interrupting"} => Open(history)

\* A cancelled task is on its way out; only a backend that returns its turns as a list
\* goes through the handler that adds some.
CancelInv ==
    /\ cancelled => pc \in {"interrupting", "adding", "reporting", "finishing"}
    /\ pc = "interrupting" => backend = "list"

IInv == Typed /\ HistoryInv /\ CancelInv

-----------------------------------------------------------------------------
(* What may be appended *)

\* The empty history is formed.
LEMMA Nothing == <<>> \in Seq(Entries) /\ <<>> \in Seq(Turns) /\ Formed(<<>>)
BY DEF Formed

\* A user's turn may follow anything, and opens a turn.
LEMMA AppendUser ==
    ASSUME NEW h \in Seq(Turns), Formed(h), NEW u \in Turns, u.role = "user"
    PROVE  Append(h, u) \in Seq(Turns) /\ Formed(Append(h, u)) /\ Open(Append(h, u))
<1> DEFINE g == Append(h, u)
<1>1. g \in Seq(Turns) /\ Len(g) = Len(h) + 1 /\ g[Len(g)] = u
  OBVIOUS
<1>2. \A i \in 1..Len(h) : g[i] = h[i]
  OBVIOUS
<1>3. ASSUME NEW i \in 1..Len(g)
      PROVE  /\ g[i].role = "call" => i < Len(g) /\ g[i + 1].role = "tool"
             /\ g[i].role = "tool" => i > 1 /\ g[i - 1].role = "call"
             /\ g[i].role \in {"answer", "aborted"} => (i < Len(g) => g[i + 1].role = "user")
  <2>1. CASE i = Len(g)
    BY <1>1, <2>1
  <2>2. CASE i < Len(h)
    BY <1>1, <1>2, <2>2 DEF Formed
  <2>3. CASE i = Len(h)
    BY <1>1, <1>2, <2>3 DEF Formed
  <2> QED BY <1>1, <2>1, <2>2, <2>3
<1> HIDE DEF g
<1>4. Formed(g)
  BY <1>1, <1>3 DEF Formed
<1>5. Open(g)
  BY <1>1 DEF Open
<1> QED BY <1>1, <1>4, <1>5 DEF g

\* An answer or an abort may end an open turn.
LEMMA AppendEnd ==
    ASSUME NEW h \in Seq(Turns), Formed(h), Open(h),
           NEW e \in Turns, e.role \in {"answer", "aborted"}
    PROVE  Append(h, e) \in Seq(Turns) /\ Formed(Append(h, e))
<1> DEFINE g == Append(h, e)
<1>1. g \in Seq(Turns) /\ Len(g) = Len(h) + 1 /\ g[Len(g)] = e
  OBVIOUS
<1>2. \A i \in 1..Len(h) : g[i] = h[i]
  OBVIOUS
<1>3. ASSUME NEW i \in 1..Len(g)
      PROVE  /\ g[i].role = "call" => i < Len(g) /\ g[i + 1].role = "tool"
             /\ g[i].role = "tool" => i > 1 /\ g[i - 1].role = "call"
             /\ g[i].role \in {"answer", "aborted"} => (i < Len(g) => g[i + 1].role = "user")
  <2>1. CASE i = Len(g)
    BY <1>1, <2>1
  <2>2. CASE i < Len(h)
    BY <1>1, <1>2, <2>2 DEF Formed
  <2>3. CASE i = Len(h)
    <3>1. g[i] = h[i] /\ h[i].role \in {"user", "tool"}
      BY <1>2, <2>3 DEF Open
    <3>2. h[i].role = "tool" => i > 1 /\ h[i - 1].role = "call" /\ g[i - 1] = h[i - 1]
      BY <1>2, <2>3 DEF Formed
    <3> QED BY <3>1, <3>2
  <2> QED BY <1>1, <2>1, <2>2, <2>3
<1> HIDE DEF g
<1>4. Formed(g)
  BY <1>1, <1>3 DEF Formed
<1> QED BY <1>1, <1>4 DEF g

\* A whole round leaves an open turn open.
LEMMA AppendRound ==
    ASSUME NEW h \in Seq(Turns), Formed(h), Open(h)
    PROVE  LET g == h \o <<Plain("call"), Plain("tool")>>
           IN  g \in Seq(Turns) /\ Formed(g) /\ Open(g) /\ Len(g) = Len(h) + 2
<1> DEFINE g == h \o <<Plain("call"), Plain("tool")>>
<1>1. /\ g \in Seq(Turns) /\ Len(g) = Len(h) + 2
      /\ g[Len(h) + 1].role = "call" /\ g[Len(h) + 2].role = "tool"
  BY DEF Plain, Turns, Roles
<1>2. \A i \in 1..Len(h) : g[i] = h[i]
  OBVIOUS
<1>3. ASSUME NEW i \in 1..Len(g)
      PROVE  /\ g[i].role = "call" => i < Len(g) /\ g[i + 1].role = "tool"
             /\ g[i].role = "tool" => i > 1 /\ g[i - 1].role = "call"
             /\ g[i].role \in {"answer", "aborted"} => (i < Len(g) => g[i + 1].role = "user")
  <2>1. CASE i \in {Len(h) + 1, Len(h) + 2}
    BY <1>1, <2>1
  <2>2. CASE i < Len(h)
    BY <1>1, <1>2, <2>2 DEF Formed
  <2>3. CASE i = Len(h)
    <3>1. g[i] = h[i] /\ h[i].role \in {"user", "tool"}
      BY <1>2, <2>3 DEF Open
    <3>2. h[i].role = "tool" => i > 1 /\ h[i - 1].role = "call" /\ g[i - 1] = h[i - 1]
      BY <1>2, <2>3 DEF Formed
    <3> QED BY <3>1, <3>2
  <2> QED BY <1>1, <2>1, <2>2, <2>3
<1> HIDE DEF g
<1>4. Formed(g)
  BY <1>1, <1>3 DEF Formed
<1>5. Open(g)
  BY <1>1 DEF Open
<1> QED BY <1>1, <1>4, <1>5 DEF g

-----------------------------------------------------------------------------
(* The steps *)

\* Items are taken and their messages are merged: at most a user's turn is added.
LEMMA TakingKeeps ==
    ASSUME IInv, TakeItems, pc \in {"waiting", "coro"}, UNCHANGED <<stop, cancelled, backend>>
    PROVE  IInv'
<1>1. PICK n \in 0..Len(queue) :
        LET b == batch \o SubSeq(queue, 1, n) IN
        \/ /\ n < Len(queue)
           /\ queue' = SubSeq(queue, n + 2, Len(queue))
           /\ batch' = b /\ pc' = "coro" /\ history' = history
        \/ queue' = <<>> /\ BeginTurn(b)
        \/ queue' = <<>> /\ batch' = <<>> /\ pc' = "waiting" /\ history' = history
  BY DEF TakeItems
<1> DEFINE b == batch \o SubSeq(queue, 1, n)
<1>2. b \in Seq(Entries)
  <2>1. SubSeq(queue, 1, n) \in Seq(Entries)
    BY <1>1 DEF IInv, Typed
  <2> QED BY <2>1 DEF IInv, Typed
<1>3. SubSeq(queue, n + 2, Len(queue)) \in Seq(Entries)
  BY <1>1 DEF IInv, Typed
<1>4. cancelled' = FALSE
  BY DEF IInv, Typed, CancelInv
<1>5. CASE BeginTurn(b) /\ queue' = <<>>
  <2> DEFINE u == [role |-> "user", ids |-> Ids(b)]
  <2>1. u \in Turns /\ u.role = "user"
    <3>1. \A i \in 1..Len(b) : b[i].id \in Nat
      <4> HIDE DEF b
      <4>1. \A i \in 1..Len(b) : b[i] \in Entries
        BY <1>2
      <4> QED BY <4>1 DEF Entries
    <3>2. Ids(b) \in Seq(Nat)
      <4> HIDE DEF b
      <4> QED BY <1>2, <3>1 DEF Ids
    <3> QED BY <3>2 DEF Turns, Roles
  <2>2. /\ history' = Append(history, u) /\ batch' = <<>>
        /\ pc' \in {"processing", "finishing"}
    BY <1>5 DEF BeginTurn
  <2>3. history' \in Seq(Turns) /\ Formed(history') /\ Open(history')
    BY <2>1, <2>2, AppendUser DEF IInv, Typed, HistoryInv
  <2> QED BY <1>4, <1>5, <2>2, <2>3 DEF IInv, Typed, HistoryInv, CancelInv, Stages
<1>6. CASE history' = history /\ pc' \in {"waiting", "coro"}
           /\ queue' \in Seq(Entries) /\ batch' \in Seq(Entries)
  BY <1>4, <1>6 DEF IInv, Typed, HistoryInv, CancelInv, Stages
<1> QED BY <1>1, <1>2, <1>3, <1>5, <1>6, Nothing

\* The other tasks leave the turn alone.
LEMMA EnvironmentKeeps ==
    ASSUME IInv, Environment
    PROVE  IInv'
<1>1. ASSUME NEW asks \in BOOLEAN, Send(asks) PROVE IInv'
  <2>1. /\ queue' \in Seq(Entries)
        /\ UNCHANGED <<pc, batch, history, stop, cancelled, backend>>
    BY <1>1 DEF Send, IInv, Typed, Entries, Messages, countVars
  <2> QED BY <2>1 DEF IInv, Typed, HistoryInv, CancelInv
<1>2. CASE CallBeforeNextMessage
  <2>1. /\ queue' \in Seq(Entries)
        /\ UNCHANGED <<pc, batch, history, stop, cancelled, backend>>
    BY <1>2 DEF CallBeforeNextMessage, IInv, Typed, Entries, turnVars
  <2> QED BY <2>1 DEF IInv, Typed, HistoryInv, CancelInv
<1>3. CASE Stop
  BY <1>3 DEF Stop, IInv, Typed, HistoryInv, CancelInv, turnVars
<1> QED BY <1>1, <1>2, <1>3 DEF Environment

\* Steps of the turn that leave the history as it is.
LEMMA PassingKeeps ==
    ASSUME IInv, \/ CoroRaises \/ ProcessingShown \/ Raises \/ Reported \/ AsksTools
                 \/ LimitSent \/ Added \/ Finished \/ Cancel
    PROVE  IInv' /\ history' = history
<1> USE DEF IInv, Typed, HistoryInv, CancelInv, Stages, turnVars, countVars, Move, NextTurn
<1>1. CASE CoroRaises
  <2>1. /\ pc = "coro" /\ batch' = <<>> /\ UNCHANGED <<queue, history, backend>>
        /\ cancelled = FALSE /\ cancelled' = FALSE /\ stop' \in BOOLEAN
        /\ pc' \in {"dead", "waiting"}
    BY <1>1 DEF CoroRaises
  <2> QED BY <2>1, Nothing
<1>2. CASE ProcessingShown \/ Reported \/ AsksTools \/ Added
  BY <1>2 DEF ProcessingShown, Reported, AsksTools, Added
<1>3. CASE Raises
  BY <1>3 DEF Raises
<1>4. CASE LimitSent
  BY <1>4 DEF LimitSent
<1>5. CASE Finished
  BY <1>5 DEF Finished
<1>6. CASE CancelWaiting
  BY <1>6, Nothing DEF CancelWaiting
<1>7. CASE CancelTurn
  BY <1>7 DEF CancelTurn
<1>8. CASE CancelFinishing
  BY <1>8 DEF CancelFinishing
<1> QED BY <1>1, <1>2, <1>3, <1>4, <1>5, <1>6, <1>7, <1>8 DEF Cancel

\* What a list backend returns: perhaps a whole round, and the turn that ends it.
LEMMA ListKeeps ==
    ASSUME IInv, Open(history), NEW n \in 0..1, NEW role \in {"answer", "aborted"},
           history' = history \o (IF n = 0 THEN <<>> ELSE <<Plain("call"), Plain("tool")>>)
                              \o <<Plain(role)>>
    PROVE  /\ history' \in Seq(Turns) /\ Formed(history')
           /\ Len(history') > Len(history) /\ history'[Len(history')].role = role
<1> DEFINE h == history \o (IF n = 0 THEN <<>> ELSE <<Plain("call"), Plain("tool")>>)
<1>1. h \in Seq(Turns) /\ Formed(h) /\ Open(h) /\ Len(h) >= Len(history)
  <2>1. history \in Seq(Turns) /\ Formed(history)
    BY DEF IInv, Typed, HistoryInv
  <2>2. CASE n = 0
    <3>1. h = history \o <<>>
      BY <2>2
    <3>2. h = history
      BY <2>1, <3>1
    <3> HIDE DEF h
    <3> QED BY <2>1, <3>2
  <2>3. CASE n = 1
    <3> DEFINE g == history \o <<Plain("call"), Plain("tool")>>
    <3>1. h = g
      BY <2>3
    <3>2. g \in Seq(Turns) /\ Formed(g) /\ Open(g) /\ Len(g) = Len(history) + 2
      BY <2>1, AppendRound
    <3>3. Len(history) \in Nat
      BY <2>1
    <3> HIDE DEF h, g
    <3> QED BY <3>1, <3>2, <3>3
  <2> QED BY <2>2, <2>3
<1>2. Plain(role) \in Turns /\ Plain(role).role = role
  BY DEF Plain, Turns, Roles
<1> HIDE DEF h
<1>3. history' = h \o <<Plain(role)>>
  BY DEF h
<1>4. history' = Append(h, Plain(role))
  BY <1>1, <1>2, <1>3, AppendIsConcat
<1>5. history' \in Seq(Turns) /\ Formed(history')
  BY <1>1, <1>2, <1>4, AppendEnd
<1>6. /\ Len(Append(h, Plain(role))) = Len(h) + 1
      /\ Append(h, Plain(role))[Len(h) + 1] = Plain(role)
  <2>1. \A e \in Turns : Len(Append(h, e)) = Len(h) + 1 /\ Append(h, e)[Len(h) + 1] = e
    BY <1>1
  <2> QED BY <1>2, <2>1
<1>7. Len(history') > Len(history)
  BY <1>1, <1>4, <1>6 DEF IInv, Typed
<1>8. history'[Len(history')] = Plain(role)
  BY <1>4, <1>6
<1> QED BY <1>2, <1>5, <1>7, <1>8

\* Steps of the turn that add to it.
LEMMA AddingKeeps ==
    ASSUME IInv, ToolsEnd \/ Answers \/ Interrupted
    PROVE  IInv'
<1>0. history \in Seq(Turns) /\ Formed(history)
  BY DEF IInv, Typed, HistoryInv
<1>1. CASE ToolsEnd
  <2>1. Open(history)
    BY <1>1 DEF ToolsEnd, IInv, HistoryInv
  <2>2. history' \in Seq(Turns) /\ Formed(history') /\ Open(history')
    BY <1>0, <1>1, <2>1, AppendRound DEF ToolsEnd
  <2> QED BY <1>1, <2>2 DEF ToolsEnd, IInv, Typed, HistoryInv, CancelInv, Stages, countVars
<1>2. CASE Answers
  <2>1. Open(history)
    BY <1>2 DEF Answers, IInv, HistoryInv
  <2>2. history' \in Seq(Turns) /\ Formed(history')
    <3>1. CASE history' = Append(history, Plain("answer"))
      <4>1. Plain("answer") \in Turns /\ Plain("answer").role = "answer"
        BY DEF Plain, Turns, Roles
      <4> QED BY <1>0, <2>1, <3>1, <4>1, AppendEnd
    <3>2. ASSUME NEW n \in 0..1,
                 history' = history \o (IF n = 0 THEN <<>> ELSE <<Plain("call"), Plain("tool")>>)
                                    \o <<Plain("answer")>>
          PROVE  history' \in Seq(Turns) /\ Formed(history')
      BY <2>1, <3>2, ListKeeps
    <3> QED BY <1>2, <3>1, <3>2 DEF Answers
  <2> QED BY <1>2, <2>2 DEF Answers, IInv, Typed, HistoryInv, CancelInv, Stages, countVars
<1>3. CASE Interrupted
  <2>1. Open(history)
    BY <1>3 DEF Interrupted, IInv, HistoryInv
  <2>2. history' \in Seq(Turns) /\ Formed(history')
    BY <1>3, <2>1, ListKeeps DEF Interrupted
  <2> QED BY <1>3, <2>2 DEF Interrupted, IInv, Typed, HistoryInv, CancelInv, Stages, countVars
<1> QED BY <1>1, <1>2, <1>3

\* The invariant holds in every reachable state.
THEOREM LoopInvariant == Spec => []IInv
<1>1. Init => IInv
  BY Nothing DEF Init, IInv, Typed, HistoryInv, CancelInv, Formed, Stages
<1>2. IInv /\ [Next]_vars => IInv'
  <2> SUFFICES ASSUME IInv, [Next]_vars PROVE IInv'
    OBVIOUS
  <2>1. CASE ItemArrives \/ CoroEnds
    BY <2>1, TakingKeeps DEF ItemArrives, CoroEnds, countVars
  <2>2. CASE Next /\ ~(ItemArrives \/ CoroEnds)
    BY <2>2, EnvironmentKeeps, PassingKeeps, AddingKeeps DEF Next, Loop
  <2>3. CASE UNCHANGED vars
    BY <2>3 DEF vars, turnVars, countVars, IInv, Typed, HistoryInv, CancelInv
  <2> QED BY <2>1, <2>2, <2>3
<1> QED BY <1>1, <1>2, PTL DEF Spec

\* The history the model is given is well formed: a call is followed by its results, and
\* an answer, or the notice of an interruption, ends what a user turn began.
THEOREM WellFormed == Spec => []HistoryWellFormed
<1>1. IInv => HistoryWellFormed
  BY DEF IInv, HistoryInv, Formed, HistoryWellFormed
<1> QED BY <1>1, LoopInvariant, PTL

\* After /stop has cancelled a turn, its task adds nothing to the history but, with a
\* backend that returns its turns as a list, whole rounds closed by the notice.
THEOREM StopIsClean == Spec => StopAddsOnlyNotice
<1> DEFINE Quiet == cancelled => \/ history' = history
                                \/ /\ backend = "list" /\ Len(history') > Len(history)
                                   /\ history'[Len(history')].role = "aborted"
<1>1. IInv /\ [Next]_vars => [Quiet]_vars
  <2> SUFFICES ASSUME IInv, Next, cancelled PROVE Quiet
    OBVIOUS
  <2>1. pc \in {"interrupting", "adding", "reporting", "finishing"}
    BY DEF IInv, CancelInv
  <2>2. CASE Interrupted
    <3>1. backend = "list" /\ Open(history)
      BY <2>2 DEF Interrupted, IInv, CancelInv, HistoryInv
    <3> QED BY <2>2, <3>1, ListKeeps DEF Interrupted
  <2>3. CASE Environment
    BY <2>3 DEF Environment, Send, CallBeforeNextMessage, Stop, turnVars
  <2>4. CASE Raises \/ Reported \/ Added \/ Finished \/ Cancel
    BY <2>4, PassingKeeps
  <2>5. ~(ItemArrives \/ CoroEnds \/ CoroRaises \/ ProcessingShown \/ AsksTools \/ LimitSent
          \/ ToolsEnd \/ Answers)
    BY <2>1 DEF ItemArrives, CoroEnds, CoroRaises, ProcessingShown, AsksTools, LimitSent,
                ToolsEnd, Answers, Move
  <2> QED BY <2>2, <2>3, <2>4, <2>5 DEF Next, Loop
<1> QED BY <1>1, LoopInvariant, PTL DEF Spec, StopAddsOnlyNotice

-----------------------------------------------------------------------------
(* Order: at every moment the ids grow from the history over the batch and   *)
(* the queue to the messages that are not sent yet.                          *)

\* The messages among the items of a sequence are in order; those of one are all before
\* those of another; a history has only messages before m.
Sorted(s) ==
    \A i, j \in DOMAIN s : i < j /\ s[i].kind = "msg" /\ s[j].kind = "msg" => s[i].id < s[j].id
Before(s, t) ==
    \A i \in DOMAIN s, j \in DOMAIN t :
        s[i].kind = "msg" /\ t[j].kind = "msg" => s[i].id < t[j].id
Below(h, m) == \A i \in DOMAIN h : \A a \in DOMAIN h[i].ids : h[i].ids[a] < m
Above(s, h) == \A j \in DOMAIN s : s[j].kind = "msg" => Below(h, s[j].id)

\* EnteredInOrder, of a history.
Ordered(h) ==
    \A i, j \in DOMAIN h : \A a \in DOMAIN h[i].ids, b \in DOMAIN h[j].ids :
        i < j \/ (i = j /\ a < b) => h[i].ids[a] < h[j].ids[b]

\* All items of a sequence are messages.
Pure(s) == \A i \in DOMAIN s : s[i].kind = "msg"

\* What is not sent yet comes after everything.
Later(h, s, t, m) ==
    /\ Below(h, m)
    /\ \A i \in DOMAIN s : s[i].kind = "msg" => s[i].id < m
    /\ \A i \in DOMAIN t : t[i].kind = "msg" => t[i].id < m

Unsent == {m \in Messages : fate[m] = "unsent"}

OrderInv ==
    /\ fate \in [Messages -> Fates]
    /\ Ordered(history) /\ Pure(batch) /\ Sorted(batch) /\ Sorted(queue)
    /\ Before(batch, queue) /\ Above(batch, history) /\ Above(queue, history)
    /\ \A m \in Unsent : Later(history, batch, queue, m)

-----------------------------------------------------------------------------
(* Sequences *)

\* The first n items, and those from k on.
LEMMA Cut ==
    ASSUME NEW s \in Seq(Entries), NEW n \in 0..Len(s), NEW k \in 1..(Len(s) + 2), k > n
    PROVE  /\ SubSeq(s, 1, n) \in Seq(Entries) /\ Len(SubSeq(s, 1, n)) = n
           /\ \A i \in 1..n : SubSeq(s, 1, n)[i] = s[i]
           /\ SubSeq(s, k, Len(s)) \in Seq(Entries)
           /\ \A i \in DOMAIN SubSeq(s, k, Len(s)) :
                i + k - 1 \in 1..Len(s) /\ SubSeq(s, k, Len(s))[i] = s[i + k - 1]
OBVIOUS

\* One behind the other.
LEMMA Joined ==
    ASSUME NEW T, NEW s \in Seq(T), NEW t \in Seq(T)
    PROVE  /\ s \o t \in Seq(T) /\ Len(s \o t) = Len(s) + Len(t)
           /\ \A i \in 1..Len(s \o t) : (i \in 1..Len(s) /\ (s \o t)[i] = s[i])
                                    \/ (i - Len(s) \in 1..Len(t) /\ (s \o t)[i] = t[i - Len(s)])
OBVIOUS

\* The ids of some items.
LEMMA IdsOf ==
    ASSUME NEW s \in Seq(Entries)
    PROVE  /\ Ids(s) \in Seq(Nat) /\ DOMAIN Ids(s) = 1..Len(s)
           /\ \A a \in 1..Len(s) : Ids(s)[a] = s[a].id /\ s[a].id \in Nat
<1>1. \A a \in 1..Len(s) : s[a] \in Entries
  OBVIOUS
<1>2. \A a \in 1..Len(s) : s[a].id \in Nat
  BY <1>1 DEF Entries
<1>3. Ids(s) = [a \in 1..Len(s) |-> s[a].id]
  BY DEF Ids
<1> QED BY <1>2, <1>3

\* A history that only turns without messages are added to.
LEMMA Padded ==
    ASSUME NEW h \in Seq(Turns), NEW p \in Seq(Turns), \A i \in 1..Len(p) : p[i].ids = <<>>
    PROVE  /\ Ordered(h) => Ordered(h \o p)
           /\ \A m : Below(h, m) => Below(h \o p, m)
<1> DEFINE g == h \o p
<1>1. g \in Seq(Turns) /\ Len(g) = Len(h) + Len(p)
  OBVIOUS
<1>2. \A i \in 1..Len(h) : g[i] = h[i]
  OBVIOUS
<1>3. \A i \in 1..Len(g) : i > Len(h) => g[i].ids = <<>>
  OBVIOUS
<1> HIDE DEF g
<1>4. \A i \in 1..Len(g) : \A a \in DOMAIN g[i].ids : i \in 1..Len(h) /\ g[i] = h[i]
  BY <1>1, <1>2, <1>3
<1>5. Ordered(h) => Ordered(g)
  BY <1>1, <1>4 DEF Ordered
<1>6. \A m : Below(h, m) => Below(g, m)
  BY <1>1, <1>4 DEF Below
<1> QED BY <1>5, <1>6 DEF g

\* A history that a turn is added to whose messages are in order and after all others.
LEMMA Extended ==
    ASSUME NEW h \in Seq(Turns), Ordered(h), NEW u \in Turns,
           \A a, b \in DOMAIN u.ids : a < b => u.ids[a] < u.ids[b],
           \A a \in DOMAIN u.ids : Below(h, u.ids[a])
    PROVE  /\ Ordered(Append(h, u))
           /\ \A m : Below(h, m) /\ (\A a \in DOMAIN u.ids : u.ids[a] < m) => Below(Append(h, u), m)
<1> DEFINE g == Append(h, u)
<1>1. g \in Seq(Turns) /\ Len(g) = Len(h) + 1 /\ g[Len(g)] = u
  OBVIOUS
<1>2. \A i \in 1..Len(h) : g[i] = h[i]
  OBVIOUS
<1> HIDE DEF g
<1>3. \A i \in 1..Len(g) : (i \in 1..Len(h) /\ g[i] = h[i]) \/ (i = Len(h) + 1 /\ g[i] = u)
  BY <1>1, <1>2
<1>4. Ordered(g)
  <2> SUFFICES ASSUME NEW i \in 1..Len(g), NEW j \in 1..Len(g),
                      NEW a \in DOMAIN g[i].ids, NEW b \in DOMAIN g[j].ids,
                      i < j \/ (i = j /\ a < b)
               PROVE  g[i].ids[a] < g[j].ids[b]
    BY <1>1 DEF Ordered
  <2>1. CASE j \in 1..Len(h) /\ g[j] = h[j]
    <3>1. i \in 1..Len(h) /\ g[i] = h[i]
      BY <2>1, <1>2
    <3> QED BY <2>1, <3>1 DEF Ordered
  <2>2. CASE j = Len(h) + 1 /\ g[j] = u
    <3>1. CASE i \in 1..Len(h) /\ g[i] = h[i]
      BY <2>2, <3>1 DEF Below
    <3>2. CASE i = Len(h) + 1 /\ g[i] = u
      BY <2>2, <3>2
    <3> QED BY <1>3, <3>1, <3>2
  <2> QED BY <1>3, <2>1, <2>2
<1>5. ASSUME NEW m, Below(h, m), \A a \in DOMAIN u.ids : u.ids[a] < m PROVE Below(g, m)
  BY <1>1, <1>3, <1>5 DEF Below
<1> QED BY <1>4, <1>5 DEF g

-----------------------------------------------------------------------------
(* The steps *)

\* What becomes of a message that is open does not concern those that are not sent.
LEMMA SettleKeeps ==
    ASSUME NEW S, NEW f \in Fates, f # "unsent", fate \in [Messages -> Fates], fate' = Settle(S, f)
    PROVE  Unsent' = Unsent /\ fate' \in [Messages -> Fates]
BY DEF Settle, Unsent, Fates

\* An item behind the others: a message that was the first not sent, or a coroutine.
LEMMA SendOrders ==
    ASSUME IInv, OrderInv, NEW asks \in BOOLEAN, Send(asks)
    PROVE  OrderInv'
<1>1. PICK m \in Messages :
        /\ fate[m] = "unsent" /\ \A k \in 1..(m - 1) : fate[k] # "unsent"
        /\ queue' = Append(queue, [kind |-> "msg", id |-> m, asks |-> asks])
        /\ fate' = [fate EXCEPT ![m] = "open"]
  BY DEF Send
<1> DEFINE e == [kind |-> "msg", id |-> m, asks |-> asks]
<1>2. UNCHANGED <<batch, history>> /\ m \in Nat
  BY DEF Send, Messages
<1>3. e \in Entries /\ e.kind = "msg" /\ e.id = m
  BY <1>2 DEF Entries
<1> HIDE DEF e
<1>4. /\ queue' = Append(queue, e) /\ Len(queue') = Len(queue) + 1 /\ queue'[Len(queue) + 1] = e
      /\ queue' \in Seq(Entries) /\ \A i \in 1..Len(queue) : queue'[i] = queue[i]
  BY <1>1, <1>3 DEF e, IInv, Typed
<1>5. \A i \in 1..Len(queue') : i \in 1..Len(queue) \/ i = Len(queue) + 1
  BY <1>4
<1>6. Later(history, batch, queue, m)
  BY <1>1 DEF OrderInv, Unsent
<1>7. Sorted(queue')
  BY <1>3, <1>4, <1>5, <1>6 DEF Sorted, Later, OrderInv
<1>8. Before(batch, queue')
  BY <1>3, <1>4, <1>5, <1>6 DEF Before, Later, OrderInv
<1>9. Above(queue', history)
  BY <1>3, <1>4, <1>5, <1>6 DEF Above, Later, OrderInv
<1>10. ASSUME NEW k \in Unsent' PROVE Later(history, batch, queue', k)
  <2>1. k \in Messages /\ k # m /\ fate[k] = "unsent"
    BY <1>1, <1>10 DEF Unsent, OrderInv, Fates
  <2>2. m < k
    BY <1>1, <2>1 DEF Messages
  <2>3. Later(history, batch, queue, k)
    BY <2>1 DEF OrderInv, Unsent
  <2> QED BY <1>3, <1>4, <1>5, <2>2, <2>3 DEF Later
<1>11. fate' \in [Messages -> Fates]
  BY <1>1 DEF OrderInv, Fates
<1> QED BY <1>2, <1>7, <1>8, <1>9, <1>10, <1>11 DEF OrderInv

\* A coroutine has no place among the messages.
LEMMA CoroOrders ==
    ASSUME IInv, OrderInv, CallBeforeNextMessage
    PROVE  OrderInv'
<1> DEFINE e == [kind |-> "coro", id |-> 0, asks |-> FALSE]
<1>1. UNCHANGED <<batch, history, fate>>
  BY DEF CallBeforeNextMessage, turnVars
<1>2. e \in Entries /\ e.kind = "coro"
  BY DEF Entries
<1>3. queue' = Append(queue, e)
  BY DEF CallBeforeNextMessage
<1> HIDE DEF e
<1>4. /\ Len(queue') = Len(queue) + 1 /\ queue'[Len(queue) + 1] = e
      /\ queue' \in Seq(Entries) /\ \A i \in 1..Len(queue) : queue'[i] = queue[i]
  BY <1>2, <1>3 DEF IInv, Typed
<1>5. \A i \in 1..Len(queue') : queue'[i].kind = "msg" => i \in 1..Len(queue) /\ queue'[i] = queue[i]
  BY <1>2, <1>4
<1>6. /\ Sorted(queue') /\ Before(batch, queue') /\ Above(queue', history)
  BY <1>4, <1>5 DEF Sorted, Before, Above, OrderInv
<1>7. \A m \in Unsent : Later(history, batch, queue', m)
  BY <1>4, <1>5 DEF Later, OrderInv
<1> QED BY <1>1, <1>6, <1>7 DEF OrderInv, Unsent

\* The batch is dropped, or both are as they were, and messages end.
LEMMA DropOrders ==
    ASSUME IInv, OrderInv, UNCHANGED <<queue, history>>, batch' \in {batch, <<>>},
           Unsent' = Unsent, fate' \in [Messages -> Fates]
    PROVE  OrderInv'
<1>1. CASE batch' = batch
  BY <1>1 DEF OrderInv
<1>2. CASE batch' = <<>>
  <2>1. DOMAIN batch' = {}
    BY <1>2
  <2>2. Pure(batch') /\ Sorted(batch') /\ Before(batch', queue) /\ Above(batch', history)
    BY <2>1 DEF Pure, Sorted, Before, Above
  <2>3. \A m \in Unsent : Later(history, batch', queue, m)
    BY <2>1 DEF Later, OrderInv
  <2> QED BY <2>2, <2>3 DEF OrderInv
<1> QED BY <1>1, <1>2

\* The history grows by turns without messages.
LEMMA PaddedOrders ==
    ASSUME IInv, OrderInv, UNCHANGED <<queue, batch>>, Unsent' = Unsent,
           fate' \in [Messages -> Fates],
           NEW p \in Seq(Turns), \A i \in 1..Len(p) : p[i].ids = <<>>, history' = history \o p
    PROVE  OrderInv'
<1>1. Ordered(history') /\ \A m : Below(history, m) => Below(history', m)
  BY Padded DEF OrderInv, IInv, Typed
<1>2. Above(batch, history') /\ Above(queue, history')
  BY <1>1 DEF OrderInv, Above
<1>3. \A m \in Unsent : Later(history', batch, queue, m)
  BY <1>1 DEF OrderInv, Later
<1> QED BY <1>1, <1>2, <1>3 DEF OrderInv

\* What the steps of a turn add to the history has no messages.
LEMMA AddedTurns ==
    ASSUME history \in Seq(Turns), ToolsEnd \/ Answers \/ Interrupted
    PROVE  \E p \in Seq(Turns) : history' = history \o p /\ \A i \in 1..Len(p) : p[i].ids = <<>>
<1> DEFINE round == <<Plain("call"), Plain("tool")>>
<1>1. round \in Seq(Turns) /\ Len(round) = 2 /\ \A i \in 1..2 : round[i].ids = <<>>
  BY DEF Plain, Turns, Roles
<1>2. ASSUME NEW role \in Roles
      PROVE  /\ Plain(role) \in Turns /\ Plain(role).ids = <<>>
             /\ <<Plain(role)>> \in Seq(Turns) /\ Len(<<Plain(role)>>) = 1
             /\ <<Plain(role)>>[1] = Plain(role)
  BY DEF Plain, Turns
<1>3. CASE ToolsEnd
  BY <1>1, <1>3 DEF ToolsEnd
<1>4. CASE Answers \/ Interrupted
  <2>1. PICK role \in {"answer", "aborted"} :
            \/ history' = Append(history, Plain(role))
            \/ \E n \in 0..1 : history' = history \o (IF n = 0 THEN <<>> ELSE round) \o <<Plain(role)>>
    BY <1>4 DEF Answers, Interrupted
  <2> DEFINE e == Plain(role)
  <2>2. e \in Turns /\ e.ids = <<>> /\ <<e>> \in Seq(Turns) /\ Len(<<e>>) = 1 /\ <<e>>[1] = e
    BY <1>2 DEF Roles
  <2> HIDE DEF e, round
  <2>6. ASSUME history' = history \o <<e>>
        PROVE  \E p \in Seq(Turns) : history' = history \o p /\ \A i \in 1..Len(p) : p[i].ids = <<>>
    <3>1. \A i \in 1..Len(<<e>>) : <<e>>[i].ids = <<>>
      BY <2>2
    <3> <<e>> \in Seq(Turns)
      BY <2>2
    <3> WITNESS <<e>> \in Seq(Turns)
    <3> QED BY <2>6, <3>1
  <2>3. CASE history' = Append(history, e)
    <3>1. history' = history \o <<e>>
      BY <2>2, <2>3, AppendIsConcat
    <3> QED BY <2>6, <3>1
  <2>4. CASE history' = history \o <<>> \o <<e>>
    <3>1. history \o <<>> = history
      OBVIOUS
    <3>2. history' = history \o <<e>>
      BY <2>4, <3>1
    <3> QED BY <2>6, <3>2
  <2>5. CASE history' = history \o round \o <<e>>
    <3> DEFINE p == round \o <<e>>
    <3>1. /\ p \in Seq(Turns)
          /\ \A i \in 1..Len(p) : (i \in 1..Len(round) /\ p[i] = round[i])
                                \/ (i - Len(round) \in 1..Len(<<e>>) /\ p[i] = <<e>>[i - Len(round)])
      BY <1>1, <2>2, Joined
    <3>3. \A i \in 1..Len(p) : p[i].ids = <<>>
      <4> HIDE DEF p
      <4> QED BY <1>1, <2>2, <3>1
    <3>2. history' = history \o p
      BY <1>1, <2>2, <2>5
    <3> QED BY <3>1, <3>2, <3>3
  <2> QED BY <2>1, <2>3, <2>4, <2>5 DEF e
<1> QED BY <1>3, <1>4

\* Messages leave the queue for the batch from its head, in order; the batch leaves for
\* the history when the queue is empty.
LEMMA TakingOrders ==
    ASSUME IInv, OrderInv, TakeItems
    PROVE  OrderInv'
<1>1. PICK n \in 0..Len(queue) :
        LET b == batch \o SubSeq(queue, 1, n) IN
        /\ Lead(queue, n)
        /\ \/ /\ n < Len(queue)
              /\ queue' = SubSeq(queue, n + 2, Len(queue))
              /\ batch' = b /\ UNCHANGED <<history, fate>>
           \/ /\ n = Len(queue)
              /\ queue' = <<>>
              /\ BeginTurn(b)
           \/ /\ n = Len(queue)
              /\ queue' = <<>> /\ batch' = <<>> /\ UNCHANGED <<history, fate>>
  BY DEF TakeItems
<1> DEFINE head == SubSeq(queue, 1, n)
           rest == SubSeq(queue, n + 2, Len(queue))
           b == batch \o head
<1>2. /\ head \in Seq(Entries) /\ Len(head) = n /\ \A i \in 1..n : head[i] = queue[i]
      /\ rest \in Seq(Entries)
      /\ \A i \in DOMAIN rest : i + n + 1 \in 1..Len(queue) /\ rest[i] = queue[i + n + 1]
  BY Cut DEF IInv, Typed
<1>3. batch \in Seq(Entries) /\ queue \in Seq(Entries) /\ history \in Seq(Turns)
  BY DEF IInv, Typed
<1>4. n \in Nat /\ n <= Len(queue) /\ \A i \in 1..n : queue[i].kind = "msg"
  BY <1>1, <1>3 DEF Lead
<1> HIDE DEF head, rest
<1>5. /\ b \in Seq(Entries)
      /\ \A i \in 1..Len(b) : (i \in 1..Len(batch) /\ b[i] = batch[i])
                            \/ (i - Len(batch) \in 1..Len(head) /\ b[i] = head[i - Len(batch)])
  BY <1>2, <1>3, Joined
<1> HIDE DEF b
<1>6. \A i \in 1..Len(b) : (i \in 1..Len(batch) /\ b[i] = batch[i])
                          \/ (i - Len(batch) \in 1..n /\ b[i] = queue[i - Len(batch)])
  BY <1>2, <1>5
<1>14. \A i, j \in 1..Len(queue) :
        i < j /\ queue[i].kind = "msg" /\ queue[j].kind = "msg" => queue[i].id < queue[j].id
  BY <1>3 DEF OrderInv, Sorted
<1>7. Pure(b)
  <2> SUFFICES ASSUME NEW i \in 1..Len(b) PROVE b[i].kind = "msg"
    BY <1>5 DEF Pure
  <2>1. CASE i \in 1..Len(batch) /\ b[i] = batch[i]
    BY <1>3, <2>1 DEF OrderInv, Pure
  <2>2. CASE i - Len(batch) \in 1..n /\ b[i] = queue[i - Len(batch)]
    BY <1>4, <2>2
  <2> QED BY <1>6, <2>1, <2>2
<1>8. Sorted(b)
  <2> SUFFICES ASSUME NEW i \in 1..Len(b), NEW j \in 1..Len(b), i < j PROVE b[i].id < b[j].id
    BY <1>5 DEF Sorted
  <2>1. CASE i \in 1..Len(batch) /\ b[i] = batch[i] /\ j \in 1..Len(batch) /\ b[j] = batch[j]
    BY <1>3, <2>1 DEF OrderInv, Sorted, Pure
  <2>2. CASE /\ i \in 1..Len(batch) /\ b[i] = batch[i]
             /\ j - Len(batch) \in 1..n /\ b[j] = queue[j - Len(batch)]
    BY <1>3, <1>4, <2>2 DEF OrderInv, Before, Pure
  <2>3. CASE /\ i - Len(batch) \in 1..n /\ b[i] = queue[i - Len(batch)]
             /\ j - Len(batch) \in 1..n /\ b[j] = queue[j - Len(batch)]
    <3>1. /\ i - Len(batch) \in 1..Len(queue) /\ j - Len(batch) \in 1..Len(queue)
          /\ i - Len(batch) < j - Len(batch)
      BY <1>3, <1>4, <2>3
    <3> QED BY <1>4, <1>14, <2>3, <3>1
  <2> QED BY <1>3, <1>5, <1>6, <2>1, <2>2, <2>3
<1>9. Above(b, history)
  <2> SUFFICES ASSUME NEW i \in 1..Len(b) PROVE Below(history, b[i].id)
    BY <1>5 DEF Above
  <2>1. CASE i \in 1..Len(batch) /\ b[i] = batch[i]
    BY <1>3, <2>1 DEF OrderInv, Above, Pure
  <2>2. CASE i - Len(batch) \in 1..n /\ b[i] = queue[i - Len(batch)]
    <3>1. i - Len(batch) \in 1..Len(queue)
      BY <1>3, <1>4, <2>2
    <3> QED BY <1>3, <1>4, <2>2, <3>1 DEF OrderInv, Above
  <2> QED BY <1>6, <2>1, <2>2
<1>10. \A m \in Unsent : Below(history, m) /\ \A i \in 1..Len(b) : b[i].id < m
  BY <1>3, <1>4, <1>6 DEF OrderInv, Later, Pure
<1>11. CASE /\ n < Len(queue) /\ queue' = rest /\ batch' = b /\ UNCHANGED <<history, fate>>
  <2>1. Sorted(rest)
    <3> SUFFICES ASSUME NEW i \in DOMAIN rest, NEW j \in DOMAIN rest, i < j,
                        rest[i].kind = "msg", rest[j].kind = "msg"
                 PROVE  rest[i].id < rest[j].id
      BY DEF Sorted
    <3>1. i \in Nat /\ j \in Nat
      BY <1>2
    <3>2. i + n + 1 < j + n + 1
      BY <1>4, <3>1
    <3> QED BY <1>2, <1>14, <3>2
  <2>2. Above(rest, history)
    BY <1>2, <1>3 DEF OrderInv, Above
  <2>3. Before(b, rest)
    <3> SUFFICES ASSUME NEW i \in 1..Len(b), NEW j \in DOMAIN rest, rest[j].kind = "msg"
                 PROVE  b[i].id < rest[j].id
      BY <1>5 DEF Before
    <3>1. j + n + 1 \in 1..Len(queue) /\ rest[j] = queue[j + n + 1] /\ j \in Nat
      BY <1>2
    <3>2. CASE i \in 1..Len(batch) /\ b[i] = batch[i]
      BY <1>3, <3>1, <3>2 DEF OrderInv, Before, Pure
    <3>3. CASE i - Len(batch) \in 1..n /\ b[i] = queue[i - Len(batch)]
      <4>1. i - Len(batch) \in 1..Len(queue) /\ i - Len(batch) < j + n + 1
        BY <1>3, <1>4, <3>1, <3>3
      <4> QED BY <1>4, <1>14, <3>1, <3>3, <4>1
    <3> QED BY <1>6, <3>2, <3>3
  <2>4. \A m \in Unsent : Later(history, b, rest, m)
    <3> SUFFICES ASSUME NEW m \in Unsent PROVE Later(history, b, rest, m)
      OBVIOUS
    <3>1. Below(history, m) /\ \A i \in DOMAIN b : b[i].id < m
      BY <1>5, <1>10
    <3>2. \A i \in 1..Len(queue) : queue[i].kind = "msg" => queue[i].id < m
      BY <1>3 DEF OrderInv, Later
    <3>3. \A i \in DOMAIN rest : rest[i].kind = "msg" => rest[i].id < m
      BY <1>2, <3>2
    <3> QED BY <3>1, <3>3 DEF Later
  <2> QED BY <1>7, <1>8, <1>9, <1>11, <2>1, <2>2, <2>3, <2>4 DEF OrderInv, Unsent
<1>12. CASE queue' = <<>> /\ batch' = <<>> /\ UNCHANGED <<history, fate>>
  <2>1. DOMAIN queue' = {} /\ DOMAIN batch' = {}
    BY <1>12
  <2>2. /\ Pure(batch') /\ Sorted(batch') /\ Sorted(queue') /\ Before(batch', queue')
        /\ Above(batch', history) /\ Above(queue', history)
    BY <2>1 DEF Pure, Sorted, Before, Above
  <2>3. \A m \in Unsent : Later(history, batch', queue', m)
    BY <2>1 DEF OrderInv, Later
  <2> QED BY <1>12, <2>2, <2>3 DEF OrderInv, Unsent
<1>13. CASE queue' = <<>> /\ BeginTurn(b)
  <2> DEFINE u == [role |-> "user", ids |-> Ids(b)]
  <2>1. /\ history' = Append(history, u) /\ batch' = <<>>
        /\ fate' = fate \/ fate' = Settle(IdSet(b), "noted")
    BY <1>13 DEF BeginTurn
  <2>2. /\ u.ids \in Seq(Nat) /\ DOMAIN u.ids = 1..Len(b)
        /\ \A a \in 1..Len(b) : u.ids[a] = b[a].id
    BY <1>5, IdsOf
  <2>3. u \in Turns
    BY <2>2 DEF Turns, Roles
  <2> HIDE DEF u
  <2>4. \A a, c \in DOMAIN u.ids : a < c => u.ids[a] < u.ids[c]
    <3>1. DOMAIN b = 1..Len(b)
      BY <1>5
    <3>2. \A a, c \in DOMAIN b : a < c => b[a].id < b[c].id
      BY <1>7, <1>8 DEF Sorted, Pure
    <3> QED BY <2>2, <3>1, <3>2
  <2>5. \A a \in DOMAIN u.ids : Below(history, u.ids[a])
    BY <1>5, <1>7, <1>9, <2>2 DEF Above, Pure
  <2>6. /\ Ordered(history')
        /\ \A m : Below(history, m) /\ (\A a \in DOMAIN u.ids : u.ids[a] < m) => Below(history', m)
    BY <1>3, <2>1, <2>3, <2>4, <2>5, Extended DEF OrderInv
  <2>7. Unsent' = Unsent /\ fate' \in [Messages -> Fates]
    <3>1. CASE fate' = fate
      BY <3>1 DEF OrderInv, Unsent
    <3>2. CASE fate' = Settle(IdSet(b), "noted")
      BY <3>2, SettleKeeps DEF OrderInv, Fates
    <3> QED BY <2>1, <3>1, <3>2
  <2>8. DOMAIN queue' = {} /\ DOMAIN batch' = {}
    BY <1>13, <2>1
  <2>9. \A m \in Unsent : Later(history', batch', queue', m)
    BY <1>10, <2>2, <2>6, <2>8 DEF Later
  <2>10. /\ Pure(batch') /\ Sorted(batch') /\ Sorted(queue') /\ Before(batch', queue')
         /\ Above(batch', history') /\ Above(queue', history')
    BY <2>8 DEF Pure, Sorted, Before, Above
  <2> QED BY <2>6, <2>7, <2>9, <2>10 DEF OrderInv
<1> QED BY <1>1, <1>11, <1>12, <1>13 DEF b, head, rest

\* It holds in every reachable state.
THEOREM Order == Spec => []OrderInv
<1>1. Init => OrderInv
  <2> SUFFICES ASSUME Init PROVE OrderInv
    OBVIOUS
  <2>1. DOMAIN queue = {} /\ DOMAIN batch = {} /\ DOMAIN history = {}
    BY DEF Init
  <2>2. fate \in [Messages -> Fates]
    BY DEF Init, Fates
  <2> QED BY <2>1, <2>2 DEF OrderInv, Ordered, Pure, Sorted, Before, Above, Below, Later
<1>2. IInv /\ OrderInv /\ [Next]_vars => OrderInv'
  <2> SUFFICES ASSUME IInv, OrderInv, [Next]_vars PROVE OrderInv'
    OBVIOUS
  <2>1. CASE ItemArrives \/ CoroEnds
    BY <2>1, TakingOrders DEF ItemArrives, CoroEnds
  <2>2. CASE Environment
    <3>1. CASE Stop
      BY <3>1 DEF Stop, turnVars, OrderInv, Unsent
    <3> QED BY <2>2, <3>1, SendOrders, CoroOrders DEF Environment
  <2>3. CASE CoroRaises \/ Raises \/ LimitSent \/ CancelWaiting \/ CancelTurn
    <3>1. PICK S \in {current, IdSet(batch)}, f \in {"lost", "failed", "stopped"} :
            fate' = Settle(S, f)
      BY <2>3 DEF CoroRaises, Raises, LimitSent, CancelWaiting, CancelTurn
    <3>2. Unsent' = Unsent /\ fate' \in [Messages -> Fates]
      BY <3>1, SettleKeeps DEF OrderInv, Fates
    <3>3. UNCHANGED <<queue, history>> /\ batch' \in {batch, <<>>}
      BY <2>3 DEF CoroRaises, Raises, LimitSent, CancelWaiting, CancelTurn
    <3> QED BY <3>2, <3>3, DropOrders
  <2>4. CASE \/ ProcessingShown \/ Reported \/ AsksTools \/ Added \/ Finished
             \/ CancelFinishing
    <3>1. UNCHANGED <<queue, batch, history, fate>>
      BY <2>4 DEF ProcessingShown, Reported, AsksTools, Added, Finished, CancelFinishing, Move,
                  turnVars
    <3> QED BY <3>1 DEF OrderInv, Unsent
  <2>5. CASE ToolsEnd \/ Answers \/ Interrupted
    <3>1. UNCHANGED <<queue, batch>> /\ Unsent' = Unsent /\ fate' \in [Messages -> Fates]
      <4>1. UNCHANGED <<queue, batch>> /\ (fate' = fate \/ fate' = Settle(current, "answered"))
        BY <2>5 DEF ToolsEnd, Answers, Interrupted
      <4>2. CASE fate' = fate
        BY <4>1, <4>2 DEF OrderInv, Unsent
      <4>3. CASE fate' = Settle(current, "answered")
        BY <4>1, <4>3, SettleKeeps DEF OrderInv, Fates
      <4> QED BY <4>1, <4>2, <4>3
    <3>2. PICK p \in Seq(Turns) : history' = history \o p /\ \A i \in 1..Len(p) : p[i].ids = <<>>
      BY <2>5, AddedTurns DEF IInv, Typed
    <3> QED BY <3>1, <3>2, PaddedOrders
  <2>6. CASE UNCHANGED vars
    BY <2>6 DEF vars, turnVars, OrderInv, Unsent
  <2> QED BY <2>1, <2>2, <2>3, <2>4, <2>5, <2>6 DEF Next, Loop, Cancel
<1> QED BY <1>1, <1>2, LoopInvariant, PTL DEF Spec

\* Messages enter the history in the order they were sent and at most once, and the
\* history is well formed: HistoryInOrder, of every reachable state.
THEOREM InOrder == Spec => []HistoryInOrder
<1>1. OrderInv => EnteredInOrder
  BY DEF OrderInv, Ordered, EnteredInOrder
<1> QED BY <1>1, Order, WellFormed, PTL DEF HistoryInOrder

-----------------------------------------------------------------------------
(* The types of the run *)

\* next_message keeps messages, never coroutines, in its batch.  That is why every id of a
\* turn is the id of a message.
BatchOfMessages == \A i \in DOMAIN batch : batch[i].kind = "msg"

LoopTypes == TypeOK /\ BatchOfMessages

\* What next_message adds to its batch, and what it leaves in the queue.
LEMMA ItemsTaken ==
    ASSUME NEW q \in Seq(Item), NEW b \in Seq(Item), NEW n \in 0..Len(q), Lead(q, n),
           \A i \in DOMAIN b : b[i].kind = "msg"
    PROVE  /\ b \o SubSeq(q, 1, n) \in Seq(Item)
           /\ \A i \in DOMAIN (b \o SubSeq(q, 1, n)) : (b \o SubSeq(q, 1, n))[i].kind = "msg"
           /\ n < Len(q) => SubSeq(q, n + 2, Len(q)) \in Seq(Item)
<1> DEFINE head == SubSeq(q, 1, n)
           all == b \o head
<1>1. /\ head \in Seq(Item) /\ Len(head) = n
      /\ \A i \in 1..n : head[i] = q[i]
  OBVIOUS
<1>2. \A i \in 1..n : head[i].kind = "msg"
  BY <1>1 DEF Lead
<1> HIDE DEF head
<1>3. /\ all \in Seq(Item) /\ DOMAIN all = 1..Len(all)
      /\ \A i \in 1..Len(all) : (i \in 1..Len(b) /\ all[i] = b[i])
                             \/ (i - Len(b) \in 1..Len(head) /\ all[i] = head[i - Len(b)])
  BY <1>1, Joined
<1> HIDE DEF all
<1>4. \A i \in DOMAIN all : all[i].kind = "msg"
  BY <1>1, <1>2, <1>3
<1>5. n < Len(q) => SubSeq(q, n + 2, Len(q)) \in Seq(Item)
  OBVIOUS
<1> QED BY <1>3, <1>4, <1>5 DEF all, head

\* The ids of messages are ids of messages.
LEMMA IdsOfMessages ==
    ASSUME NEW b \in Seq(Item), \A i \in DOMAIN b : b[i].kind = "msg"
    PROVE  Ids(b) \in Seq(Messages) /\ IdSet(b) \subseteq Messages
<1>1. \A i \in 1..Len(b) : b[i] \in Item /\ b[i].kind = "msg"
  OBVIOUS
<1>2. \A i \in 1..Len(b) : b[i].id \in Messages
  BY <1>1 DEF Item
<1>3. Ids(b) = [i \in 1..Len(b) |-> b[i].id]
  BY DEF Ids
<1> QED BY <1>2, <1>3 DEF IdSet

\* What settles a message gives it an end.
LEMMA SettleTyped ==
    ASSUME NEW S, NEW f \in Fates, fate \in [Messages -> Fates]
    PROVE  Settle(S, f) \in [Messages -> Fates]
BY DEF Settle

\* The turns without messages that end a turn or a tool round.
LEMMA PlainTyped ==
    ASSUME NEW role \in {"user", "call", "tool", "answer", "aborted"}
    PROVE  Plain(role) \in Turn
BY DEF Plain, Turn

\* Taking items keeps the types.
LEMMA TakingTyped ==
    ASSUME LoopTypes, TakeItems, UNCHANGED <<stop, cancelled, countVars>>
    PROVE  LoopTypes'
<1>1. PICK n \in 0..Len(queue) :
        LET b == batch \o SubSeq(queue, 1, n) IN
        /\ Lead(queue, n)
        /\ \/ /\ n < Len(queue)
              /\ queue' = SubSeq(queue, n + 2, Len(queue))
              /\ batch' = b /\ pc' = "coro"
              /\ UNCHANGED <<history, rounds, current, fate>>
           \/ /\ n = Len(queue) /\ b # <<>>
              /\ queue' = <<>>
              /\ BeginTurn(b)
           \/ /\ n = Len(queue) /\ b = <<>>
              /\ queue' = <<>> /\ batch' = <<>> /\ pc' = "waiting"
              /\ UNCHANGED <<history, rounds, current, fate>>
  BY DEF TakeItems
<1> DEFINE b == batch \o SubSeq(queue, 1, n)
<1>2. queue \in Seq(Item) /\ batch \in Seq(Item) /\ \A i \in DOMAIN batch : batch[i].kind = "msg"
  BY DEF LoopTypes, TypeOK, BatchOfMessages
<1>3. /\ b \in Seq(Item) /\ \A i \in DOMAIN b : b[i].kind = "msg"
      /\ n < Len(queue) => SubSeq(queue, n + 2, Len(queue)) \in Seq(Item)
  BY <1>1, <1>2, ItemsTaken
<1>4. Ids(b) \in Seq(Messages) /\ IdSet(b) \subseteq Messages
  BY <1>3, IdsOfMessages
<1>5. /\ backend' \in Backends /\ stop' \in BOOLEAN /\ cancelled' \in BOOLEAN
      /\ coros' \in 0..MaxCoros /\ stops' \in 0..MaxStops
  BY DEF LoopTypes, TypeOK, countVars
<1>6. <<>> \in Seq(Item) /\ DOMAIN <<>> = {}
  OBVIOUS
<1>7. \/ /\ n < Len(queue) /\ queue' = SubSeq(queue, n + 2, Len(queue)) /\ batch' = b
         /\ pc' = "coro" /\ UNCHANGED <<history, rounds, current, fate>>
      \/ queue' = <<>> /\ BeginTurn(b)
      \/ queue' = <<>> /\ batch' = <<>> /\ pc' = "waiting"
         /\ UNCHANGED <<history, rounds, current, fate>>
  BY <1>1
<1> HIDE DEF b
<1>8. CASE /\ n < Len(queue) /\ queue' = SubSeq(queue, n + 2, Len(queue)) /\ batch' = b
           /\ pc' = "coro" /\ UNCHANGED <<history, rounds, current, fate>>
  BY <1>3, <1>5, <1>8 DEF LoopTypes, TypeOK, BatchOfMessages, Stages
<1>9. CASE queue' = <<>> /\ BeginTurn(b)
  <2>1. /\ batch' = <<>> /\ rounds' = 0
        /\ history' = Append(history, [role |-> "user", ids |-> Ids(b)])
        /\ pc' \in {"processing", "finishing"} /\ current' \in {IdSet(b), {}}
        /\ fate' = fate \/ fate' = Settle(IdSet(b), "noted")
    BY <1>9 DEF BeginTurn
  <2>2. history' \in Seq(Turn)
    <3>1. [role |-> "user", ids |-> Ids(b)] \in Turn
      BY <1>4 DEF Turn
    <3> QED BY <2>1, <3>1 DEF LoopTypes, TypeOK
  <2>3. fate' \in [Messages -> Fates]
    <3>1. fate \in [Messages -> Fates] /\ "noted" \in Fates
      BY DEF LoopTypes, TypeOK, Fates
    <3> QED BY <2>1, <3>1, SettleTyped
  <2>4. pc' \in Stages /\ rounds' \in Nat /\ current' \subseteq Messages
    BY <1>4, <2>1 DEF Stages
  <2> QED BY <1>5, <1>6, <1>9, <2>1, <2>2, <2>3, <2>4 DEF LoopTypes, TypeOK, BatchOfMessages
<1>10. CASE /\ queue' = <<>> /\ batch' = <<>> /\ pc' = "waiting"
            /\ UNCHANGED <<history, rounds, current, fate>>
  BY <1>5, <1>6, <1>10 DEF LoopTypes, TypeOK, BatchOfMessages, Stages
<1> QED BY <1>7, <1>8, <1>9, <1>10

\* What is sent, scheduled or stopped from outside keeps the types.
LEMMA EnvironmentTyped == ASSUME LoopTypes, Environment PROVE LoopTypes'
<1>1. CASE Stop
  BY <1>1, BoundsAssumption DEF Stop, LoopTypes, TypeOK, BatchOfMessages, turnVars
<1>2. CASE CallBeforeNextMessage
  <2>1. [kind |-> "coro", id |-> 0, asks |-> FALSE] \in Item
    BY DEF Item
  <2>2. queue' \in Seq(Item)
    BY <1>2, <2>1 DEF CallBeforeNextMessage, LoopTypes, TypeOK
  <2> QED
    BY <1>2, <2>2, BoundsAssumption
    DEF CallBeforeNextMessage, LoopTypes, TypeOK, BatchOfMessages, turnVars
<1>3. ASSUME NEW asks \in BOOLEAN, Send(asks) PROVE LoopTypes'
  <2>1. PICK m \in Messages :
          /\ queue' = Append(queue, [kind |-> "msg", id |-> m, asks |-> asks])
          /\ fate' = [fate EXCEPT ![m] = "open"]
    BY <1>3 DEF Send
  <2>2. [kind |-> "msg", id |-> m, asks |-> asks] \in Item
    BY DEF Item
  <2>3. queue' \in Seq(Item) /\ fate' \in [Messages -> Fates]
    BY <2>1, <2>2 DEF LoopTypes, TypeOK, Fates
  <2> QED BY <1>3, <2>3 DEF Send, LoopTypes, TypeOK, BatchOfMessages, countVars
<1> QED BY <1>1, <1>2, <1>3 DEF Environment

\* A step of the turn under way, or its cancellation, keeps the types.
LEMMA TurnTyped ==
    ASSUME LoopTypes,
           \/ CoroRaises \/ ProcessingShown \/ Raises \/ Reported \/ AsksTools \/ LimitSent
           \/ ToolsEnd \/ Answers \/ Interrupted \/ Added \/ Finished \/ Cancel
    PROVE  LoopTypes'
<1>1. CASE \/ ProcessingShown \/ Reported \/ AsksTools \/ Added \/ Finished \/ CancelFinishing
  BY <1>1
  DEF ProcessingShown, Reported, AsksTools, Added, Finished, CancelFinishing, Move, NextTurn,
      LoopTypes, TypeOK, BatchOfMessages, Stages, turnVars, countVars
<1>2. CASE CoroRaises \/ Raises \/ LimitSent \/ CancelWaiting \/ CancelTurn
  <2>1. PICK S \in {current, IdSet(batch)}, f \in {"lost", "failed", "stopped"} :
          fate' = Settle(S, f)
    BY <1>2 DEF CoroRaises, Raises, LimitSent, CancelWaiting, CancelTurn
  <2>2. fate' \in [Messages -> Fates]
    <3>1. fate \in [Messages -> Fates] /\ f \in Fates
      BY DEF LoopTypes, TypeOK, Fates
    <3> QED BY <2>1, <3>1, SettleTyped
  <2>3. /\ UNCHANGED <<queue, history, rounds, current, countVars>> /\ batch' \in {batch, <<>>}
        /\ stop' \in {stop, FALSE} /\ cancelled' \in {cancelled, TRUE, FALSE}
        /\ pc' \in {"waiting", "dead", "reporting", "finishing", "interrupting"}
    BY <1>2 DEF CoroRaises, Raises, LimitSent, CancelWaiting, CancelTurn, NextTurn, countVars
  <2>4. batch' \in Seq(Item) /\ BatchOfMessages'
    <3>1. <<>> \in Seq(Item) /\ DOMAIN <<>> = {}
      OBVIOUS
    <3> QED BY <2>3, <3>1 DEF LoopTypes, TypeOK, BatchOfMessages
  <2>5. pc' \in Stages /\ stop' \in BOOLEAN /\ cancelled' \in BOOLEAN
    BY <2>3 DEF LoopTypes, TypeOK, Stages
  <2> QED BY <2>2, <2>3, <2>4, <2>5 DEF LoopTypes, TypeOK, countVars
<1>3. CASE ToolsEnd \/ Answers \/ Interrupted
  <2>1. history' \in Seq(Turn)
    <3>1. /\ Plain("call") \in Turn /\ Plain("tool") \in Turn /\ Plain("answer") \in Turn
          /\ Plain("aborted") \in Turn /\ history \in Seq(Turn)
      BY PlainTyped DEF LoopTypes, TypeOK
    <3>2. /\ <<Plain("call"), Plain("tool")>> \in Seq(Turn) /\ <<>> \in Seq(Turn)
          /\ <<Plain("answer")>> \in Seq(Turn) /\ <<Plain("aborted")>> \in Seq(Turn)
      BY <3>1
    <3>3. \A s, t \in Seq(Turn) : s \o t \in Seq(Turn)
      OBVIOUS
    <3>4. Append(history, Plain("answer")) \in Seq(Turn)
      BY <3>1
    <3>5. \/ history' = history \o <<Plain("call"), Plain("tool")>>
          \/ history' = Append(history, Plain("answer"))
          \/ \E n \in 0..1, e \in {<<Plain("answer")>>, <<Plain("aborted")>>} :
                history' = history \o (IF n = 0 THEN <<>> ELSE <<Plain("call"), Plain("tool")>>)
                                   \o e
      BY <1>3 DEF ToolsEnd, Answers, Interrupted
    <3>6. ASSUME NEW n \in 0..1, NEW e \in {<<Plain("answer")>>, <<Plain("aborted")>>}
          PROVE  history \o (IF n = 0 THEN <<>> ELSE <<Plain("call"), Plain("tool")>>) \o e
                   \in Seq(Turn)
      <4>1. (IF n = 0 THEN <<>> ELSE <<Plain("call"), Plain("tool")>>) \in Seq(Turn)
            /\ e \in Seq(Turn)
        BY <3>2
      <4> QED BY <3>1, <3>3, <4>1
    <3> QED BY <3>1, <3>2, <3>3, <3>4, <3>5, <3>6
  <2>2. fate' \in [Messages -> Fates]
    <3>1. fate \in [Messages -> Fates] /\ "answered" \in Fates
      BY DEF LoopTypes, TypeOK, Fates
    <3>2. fate' = fate \/ fate' = Settle(current, "answered")
      BY <1>3 DEF ToolsEnd, Answers, Interrupted
    <3> QED BY <3>1, <3>2, SettleTyped
  <2>3. /\ UNCHANGED <<queue, batch, current, stop, cancelled, countVars>>
        /\ pc' \in {"llm", "adding"} /\ rounds' \in {rounds, rounds + 1}
    BY <1>3 DEF ToolsEnd, Answers, Interrupted, countVars
  <2> QED BY <2>1, <2>2, <2>3 DEF LoopTypes, TypeOK, BatchOfMessages, Stages, countVars
<1> QED BY <1>1, <1>2, <1>3 DEF Cancel

\* Every step of the loop keeps the types.
LEMMA LoopStepTyped == LoopTypes /\ [Next]_vars => LoopTypes'
<1> SUFFICES ASSUME LoopTypes, [Next]_vars PROVE LoopTypes'
  OBVIOUS
<1>1. CASE ItemArrives \/ CoroEnds
  BY <1>1, TakingTyped DEF ItemArrives, CoroEnds
<1>2. CASE Next /\ ~(ItemArrives \/ CoroEnds)
  BY <1>2, EnvironmentTyped, TurnTyped DEF Next, Loop
<1>3. CASE UNCHANGED vars
  BY <1>3 DEF vars, turnVars, countVars, LoopTypes, TypeOK, BatchOfMessages
<1> QED BY <1>1, <1>2, <1>3

\* The memory of the directory: its theorems, about the variables of the run.
Consolidation == INSTANCE ObservationalMemoryProofs
                     WITH MayHide <- {}, pc <- await, history <- logHistory

\* The consolidations of the run take the steps those theorems are about.
LEMMA MemorySteps == Memory!Next => Consolidation!Next
<1> USE DEF Memory!memVars, Consolidation!memVars, Memory!pendingVars, Consolidation!pendingVars,
            Memory!taskVars, Consolidation!taskVars, Memory!logVars, Consolidation!logVars
<1>1. ASSUME NEW t \in Threads, Memory!ToggleAnonymous(t) PROVE Consolidation!ToggleAnonymous(t)
  BY <1>1
  DEF Memory!ToggleAnonymous, Consolidation!ToggleAnonymous
<1>2. ASSUME NEW t \in Threads, Memory!UserTurn(t) PROVE Consolidation!UserTurn(t)
  BY <1>2
  DEF Memory!UserTurn, Consolidation!UserTurn, Memory!NextId, Consolidation!NextId,
      Memory!Ids, Consolidation!Ids, Memory!NewTurn, Consolidation!NewTurn, Memory!Goto,
      Consolidation!Goto
<1>3. ASSUME NEW t \in Threads, Memory!AskModel(t) PROVE Consolidation!AskModel(t)
  BY <1>3
  DEF Memory!AskModel, Consolidation!AskModel, Memory!Cuts, Consolidation!Cuts, Memory!Kept,
      Consolidation!Kept, Memory!StripTools, Consolidation!StripTools, Memory!Goto,
      Consolidation!Goto
<1>4. ASSUME NEW t \in Threads, Memory!ToolRound(t) PROVE Consolidation!ToolRound(t)
  BY <1>4
  DEF Memory!ToolRound, Consolidation!ToolRound, Memory!NextId, Consolidation!NextId,
      Memory!Ids, Consolidation!Ids, Memory!NewTurn, Consolidation!NewTurn, Memory!Goto,
      Consolidation!Goto
<1>5. ASSUME NEW t \in Threads, Memory!AnswerKeepsPending(t) PROVE Consolidation!AnswerKeepsPending(t)
  BY <1>5
  DEF Memory!AnswerKeepsPending, Consolidation!AnswerKeepsPending, Memory!NextId,
      Consolidation!NextId, Memory!Ids, Consolidation!Ids, Memory!NewTurn,
      Consolidation!NewTurn, Memory!Goto, Consolidation!Goto
<1>6. ASSUME NEW t \in Threads, Memory!AnswerObserves(t) PROVE Consolidation!AnswerObserves(t)
  BY <1>6
  DEF Memory!AnswerObserves, Consolidation!AnswerObserves, Memory!NextId,
      Consolidation!NextId, Memory!Ids, Consolidation!Ids, Memory!NewTurn,
      Consolidation!NewTurn, Memory!Goto, Consolidation!Goto, Memory!LockFree,
      Consolidation!LockFree, Memory!UpTo, Consolidation!UpTo, Memory!Recordable,
      Consolidation!Recordable
<1>7. ASSUME NEW t \in Threads, Memory!AnswerWaits(t) PROVE Consolidation!AnswerWaits(t)
  BY <1>7
  DEF Memory!AnswerWaits, Consolidation!AnswerWaits, Memory!NextId, Consolidation!NextId,
      Memory!Ids, Consolidation!Ids, Memory!NewTurn, Consolidation!NewTurn, Memory!Goto,
      Consolidation!Goto, Memory!LockFree, Consolidation!LockFree, Memory!Recordable,
      Consolidation!Recordable
<1>8. ASSUME NEW t \in Threads, Memory!LockAcquired(t) PROVE Consolidation!LockAcquired(t)
  BY <1>8
  DEF Memory!LockAcquired, Consolidation!LockAcquired, Memory!UpTo, Consolidation!UpTo,
      Memory!Goto, Consolidation!Goto
<1>9. ASSUME NEW t \in Threads, Memory!Consolidate(t) PROVE Consolidation!Consolidate(t)
  BY <1>9
  DEF Memory!Consolidate, Consolidation!Consolidate, Memory!ObserverEmpty,
      Consolidation!ObserverEmpty, Memory!ObserverAppends, Consolidation!ObserverAppends,
      Memory!ObserverOverflows, Consolidation!ObserverOverflows, Memory!Observed,
      Consolidation!Observed, Memory!Reflected, Consolidation!Reflected,
      Memory!ObserveRaises, Consolidation!ObserveRaises, Memory!Notified,
      Consolidation!Notified, Memory!Goto, Consolidation!Goto
<1>10. ASSUME NEW t \in Threads, Memory!Interrupt(t) PROVE Consolidation!Interrupt(t)
  BY <1>10
  DEF Memory!Interrupt, Consolidation!Interrupt, Memory!Consolidating,
      Consolidation!Consolidating, Memory!Goto, Consolidation!Goto
<1>11. Memory!CleanCrash => Consolidation!CleanCrash
  BY DEF Memory!CleanCrash, Consolidation!CleanCrash, Memory!Restart, Consolidation!Restart,
      Memory!InFlight, Consolidation!InFlight
<1>12. Memory!TornCrash => Consolidation!TornCrash
  BY DEF Memory!TornCrash, Consolidation!TornCrash, Memory!Restart, Consolidation!Restart,
      Memory!InFlight, Consolidation!InFlight
<1> QED
  BY <1>1, <1>2, <1>3, <1>4, <1>5, <1>6, <1>7, <1>8, <1>9, <1>10, <1>11, <1>12
  DEF Memory!Next, Consolidation!Next

\* Their types are the same.
LEMMA MemoryTypes == Memory!TypeOK <=> Consolidation!TypeOK
BY DEF Memory!TypeOK, Consolidation!TypeOK, Memory!Turn, Consolidation!Turn, Memory!Roles,
      Consolidation!Roles, Memory!Ids, Consolidation!Ids, Memory!Stages,
      Consolidation!Stages

\* The types of the run, whichever part of it runs: what the loop holds, and what the memories
\* of the directory hold.
THEOREM TurnsTyped == MCSpec => []MCTypeOK
<1>1. MCInit => LoopTypes
  <2> SUFFICES ASSUME Init PROVE LoopTypes
    BY DEF MCInit
  <2>1. batch \in Seq(Item) /\ queue \in Seq(Item) /\ history \in Seq(Turn) /\ BatchOfMessages
    BY DEF Init, BatchOfMessages
  <2>2. fate \in [Messages -> Fates]
    BY DEF Init, Fates
  <2>3. coros \in 0..MaxCoros /\ stops \in 0..MaxStops
    BY BoundsAssumption DEF Init
  <2>4. /\ backend \in Backends /\ pc \in Stages /\ rounds \in Nat
        /\ stop \in BOOLEAN /\ cancelled \in BOOLEAN /\ current \subseteq Messages
    BY DEF Init, Stages
  <2> QED BY <2>1, <2>2, <2>3, <2>4 DEF LoopTypes, TypeOK
<1>2. MCInit => Memory!TypeOK
  <2>1. Memory!Init => Consolidation!Init
    BY DEF Memory!Init, Consolidation!Init
  <2> QED BY <2>1, MemoryTypes, MemoryAssumption, Consolidation!StartTyped DEF MCInit
<1>3. LoopTypes /\ [MCNext]_<<part, vars, memoryVars>> => LoopTypes'
  <2>1. [MCNext]_<<part, vars, memoryVars>> => [Next]_vars
    BY DEF MCNext
  <2> QED BY <2>1, LoopStepTyped
<1>4. Memory!TypeOK /\ [MCNext]_<<part, vars, memoryVars>> => Memory!TypeOK'
  <2>1. (Memory!TypeOK)' <=> (Consolidation!TypeOK)'
    BY MemoryTypes, PTL
  <2>2. [MCNext]_<<part, vars, memoryVars>> => [Consolidation!Next]_(Consolidation!vars)
    <3>1. memoryVars' = memoryVars => UNCHANGED Consolidation!vars
      BY DEF memoryVars, Consolidation!vars, Consolidation!memVars, Consolidation!pendingVars,
             Consolidation!taskVars, Consolidation!logVars
    <3> QED BY <3>1, MemorySteps DEF MCNext
  <2> QED BY <2>1, <2>2, MemoryTypes, MemoryAssumption, Consolidation!StepTyped
<1>5. LoopTypes /\ Memory!TypeOK => MCTypeOK
  BY DEF LoopTypes, MCTypeOK
<1> QED BY <1>1, <1>2, <1>3, <1>4, <1>5, PTL DEF MCSpec

=============================================================================
