-------------------------- MODULE RpcChannelProofs --------------------------
(***************************************************************************)
(* RpcChannel keeps what RpcCalls promises, and its worker threads stay    *)
(* below the cap, for any number of calls and any cap.                     *)
(***************************************************************************)
EXTENDS RpcChannel, FiniteSetTheorems, TLAPS

-----------------------------------------------------------------------------
(* The two ends and the messages between them *)

\* The other end of the other end is the end itself.
LEMMA Others ==
    \A p \in Peers :
        /\ Other(p) \in Peers /\ Other(p) # p /\ Other(Other(p)) = p
        /\ \A q \in Peers : q # p => q = Other(p)
<1>1. PICK a \in Peers, b \in Peers : a # b /\ Peers = {a, b}
  BY PeersAssumption
<1>2. \A p \in Peers : Other(p) \in Peers /\ Other(p) # p
  <2> SUFFICES ASSUME NEW p \in Peers PROVE Other(p) \in Peers /\ Other(p) # p
    OBVIOUS
  <2>1. \E q \in Peers : q # p
    BY <1>1
  <2> QED BY <2>1 DEF Other
<1> QED BY <1>1, <1>2

Elems(s) == {s[i] : i \in DOMAIN s}
Msgs(p) == Elems(wire[p])

\* No call is under way twice.
OneCall(s) ==
    \A i, j \in DOMAIN s : s[i].t = "call" /\ s[j].t = "call" /\ s[i].n = s[j].n => i = j
NoCallOf(s, n) == \A x \in Elems(s) : x.t = "call" => x.n # n

\* Reading the first message.
LEMMA Popped ==
    ASSUME NEW s \in Seq(Message), s # <<>>
    PROVE  /\ Tail(s) \in Seq(Message) /\ Head(s) \in Message
           /\ Head(s) \in Elems(s) /\ Elems(Tail(s)) \subseteq Elems(s)
           /\ OneCall(s) => OneCall(Tail(s))
           /\ OneCall(s) /\ Head(s).t = "call" => NoCallOf(Tail(s), Head(s).n)
<1>1. /\ Tail(s) \in Seq(Message) /\ 1 \in DOMAIN s /\ Head(s) = s[1] /\ s[1] \in Message
      /\ DOMAIN s = 1..Len(s) /\ Len(s) \in Nat /\ DOMAIN Tail(s) = 1..(Len(s) - 1)
  OBVIOUS
<1>2. \A i \in DOMAIN Tail(s) : i + 1 \in DOMAIN s /\ i + 1 # 1 /\ Tail(s)[i] = s[i + 1]
  BY <1>1
<1>3. Elems(Tail(s)) \subseteq Elems(s)
  BY <1>2 DEF Elems
<1>4. ASSUME OneCall(s) PROVE OneCall(Tail(s))
  <2> SUFFICES ASSUME NEW i \in DOMAIN Tail(s), NEW j \in DOMAIN Tail(s),
                      Tail(s)[i].t = "call", Tail(s)[j].t = "call", Tail(s)[i].n = Tail(s)[j].n
               PROVE  i = j
    BY DEF OneCall
  <2>1. i + 1 = j + 1
    BY <1>2, <1>4 DEF OneCall
  <2> QED BY <1>1, <2>1
<1>5. ASSUME OneCall(s), Head(s).t = "call", NEW x \in Elems(Tail(s)), x.t = "call", x.n = Head(s).n
      PROVE  FALSE
  <2>1. PICK i \in DOMAIN Tail(s) : x = s[i + 1]
    BY <1>2 DEF Elems
  <2> QED BY <1>1, <1>2, <1>5, <2>1 DEF OneCall
<1> QED BY <1>1, <1>3, <1>4, <1>5 DEF Elems, NoCallOf

\* Sending one.
LEMMA Pushed ==
    ASSUME NEW s \in Seq(Message), NEW m \in Message
    PROVE  /\ Append(s, m) \in Seq(Message) /\ Elems(Append(s, m)) = Elems(s) \cup {m}
           /\ OneCall(s) /\ (m.t = "call" => NoCallOf(s, m.n)) => OneCall(Append(s, m))
<1> DEFINE a == Append(s, m)
<1>1. /\ a \in Seq(Message) /\ DOMAIN s = 1..Len(s) /\ Len(s) \in Nat
      /\ DOMAIN a = 1..(Len(s) + 1) /\ a[Len(s) + 1] = m
      /\ \A i \in DOMAIN s : a[i] = s[i]
  OBVIOUS
<1>2. \A i \in DOMAIN a : (i \in DOMAIN s /\ a[i] = s[i]) \/ (i = Len(s) + 1 /\ a[i] = m)
  BY <1>1
<1>3. DOMAIN s \subseteq DOMAIN a /\ Len(s) + 1 \in DOMAIN a
  BY <1>1
<1> HIDE DEF a
<1>4. Elems(a) = Elems(s) \cup {m}
  BY <1>1, <1>2, <1>3 DEF Elems
<1>5. ASSUME OneCall(s), m.t = "call" => NoCallOf(s, m.n) PROVE OneCall(a)
  BY <1>2, <1>5 DEF OneCall, NoCallOf, Elems
<1> QED BY <1>1, <1>4, <1>5 DEF a

\* What _send does to the two wires.
LEMMA PutEffect ==
    ASSUME wire \in [Peers -> Seq(Message)], NEW p \in Peers, NEW m \in Message, Put(p, m)
    PROVE  /\ wire' \in [Peers -> Seq(Message)]
           /\ \A q \in Peers : \A x \in Msgs(q)' : x \in Msgs(q) \/ (q = Other(p) /\ x = m)
           /\ \A q \in Peers :
                OneCall(wire[q]) /\ (m.t = "call" /\ q = Other(p) => NoCallOf(wire[q], m.n))
                => OneCall(wire'[q])
<1>1. CASE up
  <2>1. wire' = [wire EXCEPT ![Other(p)] = Append(@, m)]
    BY <1>1 DEF Put
  <2>2. \A q \in Peers : wire'[q] = IF q = Other(p) THEN Append(wire[q], m) ELSE wire[q]
    BY <2>1
  <2> QED BY <2>1, <2>2, Others, Pushed DEF Msgs
<1>2. CASE ~up
  BY <1>2 DEF Put, Msgs
<1> QED BY <1>1, <1>2

\* What reading does.
LEMMA PopEffect ==
    ASSUME wire \in [Peers -> Seq(Message)], NEW p \in Peers, wire[p] # <<>>,
           wire' = [wire EXCEPT ![p] = Tail(@)]
    PROVE  /\ wire' \in [Peers -> Seq(Message)]
           /\ Head(wire[p]) \in Message /\ Head(wire[p]) \in Msgs(p)
           /\ \A q \in Peers : \A x \in Msgs(q)' : x \in Msgs(q)
           /\ \A q \in Peers : OneCall(wire[q]) => OneCall(wire'[q])
<1>1. \A q \in Peers : wire'[q] = IF q = p THEN Tail(wire[q]) ELSE wire[q]
  OBVIOUS
<1> QED BY <1>1, Popped DEF Msgs

-----------------------------------------------------------------------------
(* The invariants *)

Asks(p) == 1..MaxCalls[p]
Of(p, n) == <<Other(p), n>>   \* call n that p serves

\* What each end knows of its own calls.
AskInv ==
    /\ \A p \in Peers : nextId[p] <= MaxCalls[p]
    /\ \A p \in Peers : pending[p] \cup doomed[p] \subseteq 1..nextId[p]
    /\ \A p \in Peers : \A g \in futures[p] : g[2] \in 1..nextId[p]
    /\ \A p \in Peers : \A n \in Asks(p) : result[<<p, n>>].s = "none" <=> n > nextId[p]

\* What serves a call: its message, then one worker thread, and for an async
\* handler one coroutine beside it; the handler's phase says how far it is.
Serves(p) ==
    /\ OneCall(wire[p])
    /\ \A m \in Msgs(p) : m.t = "call" =>
        /\ m.n \in Asks(Other(p)) /\ phase[Of(p, m.n)] = "none"
        /\ result[Of(p, m.n)].s \notin {"none", "registered"}
    /\ \A n \in Asks(Other(p)) :
        result[Of(p, n)].s \in {"none", "registered"} => phase[Of(p, n)] = "none"
    /\ \A w \in workers[p] :
        /\ w.n \in Asks(Other(p)) /\ phase[Of(p, w.n)] # "none"
        /\ w.stage \in {"run", "nested"} =>
            phase[Of(p, w.n)] = "running" /\ \A k \in coros[p] : k.n # w.n
        /\ w.stage = "reply" => phase[Of(p, w.n)] = "returned"
        /\ \A v \in workers[p] : v.n = w.n => v = w
    /\ \A k \in coros[p] :
        /\ k.n \in Asks(Other(p))
        /\ IF k.done THEN phase[Of(p, k.n)] \in {"returned", "raised"}
           ELSE phase[Of(p, k.n)] = "running"
        /\ \A j \in coros[p] : j.n = k.n => j = k
ServeInv == \A p \in Peers : Serves(p)

\* Indices of calls.
LEMMA CallIds ==
    ASSUME NEW p \in Peers, NEW n \in Asks(p)
    PROVE  n \in Nat /\ n \in Nums /\ <<p, n>> \in Calls
BY BoundsAssumption DEF Asks, Nums, Calls

\* ... and of the calls an end serves.
LEMMA ServedIds ==
    ASSUME NEW p \in Peers, NEW n \in Asks(Other(p))
    PROVE  n \in Nat /\ n \in Nums /\ Of(p, n) \in Calls
BY Others, CallIds DEF Of

\* What SetResult does.
LEMMA SetEffect ==
    ASSUME result \in [Calls -> Result], NEW c \in Calls, NEW s \in {"none"} \cup Open \cup Settled,
           NEW of \in Calls \cup {NoCall}, result' = SetResult(c, s, of)
    PROVE  /\ result' \in [Calls -> Result]
           /\ \A d \in Calls : result'[d] = IF d = c /\ result[c].s \notin Settled
                                            THEN [s |-> s, of |-> of] ELSE result[d]
<1>1. [s |-> s, of |-> of] \in Result
  BY DEF Result
<1>2. \A d \in Calls : result'[d] = IF d = c /\ result[c].s \notin Settled
                                     THEN [s |-> s, of |-> of] ELSE result[d]
  BY DEF SetResult
<1>3. result' = [result EXCEPT ![c] = IF result[c].s \in Settled THEN result[c] ELSE [s |-> s, of |-> of]]
  BY DEF SetResult
<1> QED BY <1>1, <1>2, <1>3

\* What Register does.
LEMMA RegisterEffect ==
    ASSUME TypeOK, AskInv, NEW p \in Peers, NEW n \in Asks(p), Register(p, n)
    PROVE  /\ nextId' = [nextId EXCEPT ![p] = n] /\ n = nextId[p] + 1
           /\ pending' \in [Peers -> SUBSET Nums]
           /\ \A q \in Peers : pending'[q] \subseteq pending[q] \cup (IF q = p THEN {n} ELSE {})
           /\ result' \in [Calls -> Result] /\ result[<<p, n>>].s = "none"
           /\ \A d \in Calls : result'[d] = IF d = <<p, n>> THEN [s |-> "registered", of |-> NoCall]
                                            ELSE result[d]
<1>1. n \in Nat /\ n \in Nums /\ <<p, n>> \in Calls /\ n = nextId[p] + 1
  BY CallIds DEF Register
<1>2. result[<<p, n>>].s = "none"
  BY <1>1 DEF AskInv, TypeOK
<1>3. pending' = [pending EXCEPT ![p] = @ \cup {n}] /\ nextId' = [nextId EXCEPT ![p] = n]
  BY DEF Register
<1>4. pending' \in [Peers -> SUBSET Nums]
  BY <1>1, <1>3 DEF TypeOK
<1>5. \A q \in Peers : pending'[q] \subseteq pending[q] \cup (IF q = p THEN {n} ELSE {})
  BY <1>3 DEF TypeOK
<1>6. result' = SetResult(<<p, n>>, "registered", NoCall) /\ result \in [Calls -> Result]
  BY DEF Register, TypeOK
<1>7. /\ result' \in [Calls -> Result]
      /\ \A d \in Calls : result'[d] = IF d = <<p, n>> /\ result[<<p, n>>].s \notin Settled
                                       THEN [s |-> "registered", of |-> NoCall] ELSE result[d]
  BY <1>1, <1>6, SetEffect DEF Open
<1> QED BY <1>1, <1>2, <1>3, <1>4, <1>5, <1>7 DEF Settled

-----------------------------------------------------------------------------
(* Types, and what an end knows of its calls *)

\* A new call.
LEMMA RegisterAsks ==
    ASSUME TypeOK, AskInv, NEW p \in Peers, NEW n \in Asks(p), Register(p, n),
           UNCHANGED <<doomed, futures>>
    PROVE  AskInv'
<1>1. /\ n \in Nat /\ <<p, n>> \in Calls /\ n = nextId[p] + 1 /\ n <= MaxCalls[p]
      /\ nextId \in [Peers -> Nat]
  BY CallIds DEF Register, TypeOK
<1>2. \A q \in Peers : nextId'[q] = IF q = p THEN nextId[p] + 1 ELSE nextId[q]
  BY <1>1, RegisterEffect
<1>3. \A q \in Peers : nextId'[q] <= MaxCalls[q]
  BY <1>1, <1>2 DEF AskInv
<1>4. \A q \in Peers : pending'[q] \cup doomed'[q] \subseteq 1..nextId'[q]
  BY <1>1, <1>2, RegisterEffect DEF AskInv
<1>5. \A q \in Peers : \A g \in futures'[q] : g[2] \in 1..nextId'[q]
  BY <1>1, <1>2 DEF AskInv
<1>6. ASSUME NEW q \in Peers, NEW k \in Asks(q)
      PROVE  result'[<<q, k>>].s = "none" <=> k > nextId'[q]
  <2>1. k \in Nat /\ <<q, k>> \in Calls /\ (result[<<q, k>>].s = "none" <=> k > nextId[q])
    BY CallIds DEF AskInv
  <2>2. result'[<<q, k>>].s = IF q = p /\ k = n THEN "registered" ELSE result[<<q, k>>].s
    <3>1. result'[<<q, k>>] = IF <<q, k>> = <<p, n>> THEN [s |-> "registered", of |-> NoCall]
                              ELSE result[<<q, k>>]
      BY <2>1, RegisterEffect
    <3> QED BY <3>1
  <2>3. nextId[q] \in Nat /\ nextId[p] \in Nat
    BY DEF TypeOK
  <2> QED BY <1>1, <1>2, <2>1, <2>2, <2>3
<1> QED BY <1>3, <1>4, <1>5, <1>6 DEF AskInv

\* Every other step.
LEMMA KeepsAsks ==
    ASSUME AskInv, nextId' = nextId,
           \A p \in Peers : pending'[p] \cup doomed'[p] \subseteq pending[p] \cup doomed[p],
           \A p \in Peers : \A g \in futures'[p] : g \in futures[p] \/ g[2] \in pending[p],
           \A c \in Calls : result'[c].s = "none" <=> result[c].s = "none"
    PROVE  AskInv'
<1>1. \A p \in Peers : \A n \in Asks(p) : result'[<<p, n>>].s = "none" <=> n > nextId'[p]
  BY CallIds DEF AskInv
<1> QED BY <1>1 DEF AskInv

\* A thread that registers a call.
LEMMA CallTyped ==
    ASSUME TypeOK, AskInv, NEW p \in Peers, Call(p) \/ \E w \in workers[p] : Nest(p, w)
    PROVE  TypeOK' /\ AskInv'
<1> USE DEF callVars, readVars, workVars
<1>1. PICK n \in Asks(p) : Register(p, n)
  BY DEF Call, Nest, Asks
<1>2. nextId' \in [Peers -> Nat]
  <2>1. n \in Nat /\ nextId' = [nextId EXCEPT ![p] = n]
    BY <1>1, CallIds, RegisterEffect
  <2> QED BY <2>1 DEF TypeOK
<1>3. workers' \in [Peers -> SUBSET Worker]
  <2>1. CASE Call(p)
    BY <2>1 DEF Call, TypeOK
  <2>2. CASE \E w \in workers[p] : Nest(p, w)
    <3>1. PICK w \in workers[p], k \in 1..MaxCalls[p] :
            workers' = [workers EXCEPT ![p] = (@ \ {w}) \cup {[w EXCEPT !.stage = "nested", !.sub = k]}]
      BY <2>2 DEF Nest
    <3>2. w \in Worker /\ k \in Nat
      BY CallIds DEF TypeOK, Asks
    <3>3. [w EXCEPT !.stage = "nested", !.sub = k] \in Worker
      BY <3>2 DEF Worker
    <3> QED BY <3>1, <3>3 DEF TypeOK
  <2> QED BY <2>1, <2>2
<1>4. UNCHANGED <<up, wire, reader, doomed, futures, nextFref, active, coros, phase>>
  BY DEF Call, Nest
<1> QED BY <1>1, <1>2, <1>3, <1>4, RegisterEffect, RegisterAsks DEF TypeOK

\* A message with its type.
LEMMA MsgTyped ==
    ASSUME NEW k \in {"call", "ok", "err", "ok_fut", "fut_done"}, NEW n \in Nat, NEW f \in Nat,
           NEW of \in Calls \cup {NoCall}
    PROVE  Msg(k, n, f, of) \in Message
BY DEF Msg, Message

\* A call's message is sent, or the send raises.
LEMMA SendCallTyped ==
    ASSUME TypeOK, AskInv, NEW p \in Peers, NEW n \in Asks(p), SendCall(p, n)
    PROVE  TypeOK' /\ AskInv'
<1> USE DEF callVars, readVars, workVars
<1>1. n \in Nat /\ <<p, n>> \in Calls /\ Msg("call", n, 0, NoCall) \in Message
  BY CallIds, MsgTyped
<1>2. wire' \in [Peers -> Seq(Message)]
  BY <1>1, PutEffect DEF SendCall, TypeOK
<1>3. PICK s \in {"waiting", "raised"} : result' = SetResult(<<p, n>>, s, NoCall)
  BY DEF SendCall
<1>4. /\ result' \in [Calls -> Result]
      /\ \A d \in Calls : result'[d] = IF d = <<p, n>> /\ result[<<p, n>>].s \notin Settled
                                       THEN [s |-> s, of |-> NoCall] ELSE result[d]
  <2>1. result \in [Calls -> Result] /\ s \in Open \cup Settled
    BY DEF TypeOK, Open, Settled
  <2> QED BY <1>1, <1>3, <2>1, SetEffect
<1>5. \A c \in Calls : result'[c].s = "none" <=> result[c].s = "none"
  BY <1>4 DEF SendCall
<1>6. UNCHANGED <<up, nextId, pending, reader, doomed, futures, nextFref, workers, active, coros, phase>>
  BY DEF SendCall
<1>7. AskInv'
  BY <1>5, <1>6, KeepsAsks
<1> QED BY <1>2, <1>4, <1>6, <1>7 DEF TypeOK

\* The reader takes a call.
LEMMA DispatchTyped ==
    ASSUME TypeOK, AskInv, ServeInv, NEW p \in Peers, DispatchCall(p)
    PROVE  TypeOK' /\ AskInv'
<1> USE DEF callVars, readVars, workVars
<1> DEFINE n == Head(wire[p]).n
           rest == [wire EXCEPT ![p] = Tail(@)]
           refusal == Msg("err", n, 0, NoCall)
<1>1. wire[p] # <<>> /\ Head(wire[p]).t = "call" /\ wire[p] \in Seq(Message)
  BY DEF DispatchCall, Read, TypeOK
<1>2. /\ Head(wire[p]) \in Msgs(p) /\ Tail(wire[p]) \in Seq(Message)
      /\ rest \in [Peers -> Seq(Message)]
  BY <1>1, Popped DEF Msgs, TypeOK
<1>3. n \in Asks(Other(p)) /\ n \in Nat /\ n \in Nums /\ Of(p, n) \in Calls
  BY <1>1, <1>2, ServedIds DEF ServeInv, Serves
<1>4. refusal \in Message
  BY <1>3, MsgTyped
<1>5. Worker0(n) \in Worker
  BY <1>3 DEF Worker0, Worker
<1>6. /\ wire' \in {rest, [rest EXCEPT ![Other(p)] = Append(@, refusal)]}
      /\ \/ UNCHANGED <<active, workers, phase>>
         \/ /\ active' = [active EXCEPT ![p] = @ + 1]
            /\ workers' = [workers EXCEPT ![p] = @ \cup {Worker0(n)}]
            /\ phase' = [phase EXCEPT ![Of(p, n)] = "running"]
      /\ UNCHANGED <<up, nextId, pending, result, reader, doomed, futures, nextFref, coros>>
  BY DEF DispatchCall, Of
<1> HIDE DEF n, rest, refusal
<1>7. wire' \in [Peers -> Seq(Message)]
  <2>1. rest[Other(p)] \in Seq(Message)
    BY <1>2, Others
  <2>2. Append(rest[Other(p)], refusal) \in Seq(Message)
    BY <2>1, <1>4
  <2>3. [rest EXCEPT ![Other(p)] = Append(@, refusal)] \in [Peers -> Seq(Message)]
    BY <1>2, <2>2
  <2> QED BY <1>2, <1>6, <2>3
<1>8. /\ active' \in [Peers -> Nat] /\ workers' \in [Peers -> SUBSET Worker]
      /\ phase' \in [Calls -> {"none", "running", "returned", "raised"}]
  <2>1. active' \in [Peers -> Nat]
    <3>1. active \in [Peers -> Nat]
      BY DEF TypeOK
    <3>2. active' = active \/ active' = [active EXCEPT ![p] = active[p] + 1]
      BY <1>6
    <3>3. active[p] + 1 \in Nat
      BY <3>1
    <3> QED BY <3>1, <3>2, <3>3
  <2>2. workers' \in [Peers -> SUBSET Worker]
    <3>1. workers \in [Peers -> SUBSET Worker]
      BY DEF TypeOK
    <3>2. workers' = workers \/ workers' = [workers EXCEPT ![p] = workers[p] \cup {Worker0(n)}]
      BY <1>6
    <3> QED BY <1>5, <3>1, <3>2
  <2>3. phase' \in [Calls -> {"none", "running", "returned", "raised"}]
    BY <1>3, <1>6 DEF TypeOK
  <2> QED BY <2>1, <2>2, <2>3
<1>9. AskInv'
  BY <1>6, KeepsAsks
<1> QED BY <1>6, <1>7, <1>8, <1>9 DEF TypeOK

\* The reader takes an answer, or the end of the connection.
LEMMA AnswerTyped ==
    ASSUME TypeOK, AskInv, NEW p \in Peers,
           Resolve(p) \/ ResolveFuture(p) \/ ReaderEof(p) \/ FailPending(p)
    PROVE  TypeOK' /\ AskInv'
<1> USE DEF callVars, readVars, workVars
<1>1. ASSUME NEW n \in 1..nextId[p], NEW s \in Settled \cup {"remote"}, NEW m \in Message,
             result' = SetResult(<<p, n>>, s, m.of)
      PROVE  /\ result' \in [Calls -> Result]
             /\ \A c \in Calls : result'[c].s = "none" <=> result[c].s = "none"
  <2>1. n \in Asks(p) /\ <<p, n>> \in Calls
    <3>1. nextId[p] <= MaxCalls[p] /\ nextId[p] \in Nat /\ MaxCalls[p] \in Nat
      BY BoundsAssumption DEF AskInv, TypeOK
    <3>2. n \in Asks(p)
      BY <3>1 DEF Asks
    <3> QED BY <3>2, CallIds
  <2>2. result[<<p, n>>].s # "none"
    <3>1. nextId[p] \in Nat
      BY DEF TypeOK
    <3> QED BY <2>1, <3>1 DEF AskInv
  <2>3. result \in [Calls -> Result] /\ m.of \in Calls \cup {NoCall} /\ s \in Open \cup Settled
    BY DEF TypeOK, Message, Open
  <2>4. /\ result' \in [Calls -> Result]
        /\ \A d \in Calls : result'[d] = IF d = <<p, n>> /\ result[<<p, n>>].s \notin Settled
                                         THEN [s |-> s, of |-> m.of] ELSE result[d]
    BY <1>1, <2>1, <2>3, SetEffect
  <2>5. s # "none"
    BY DEF Settled
  <2> QED BY <2>2, <2>4, <2>5
<1>2. CASE Resolve(p)
  <2> DEFINE m == Head(wire[p])
  <2>1. /\ m \in Message /\ wire' \in [Peers -> Seq(Message)] /\ m.n \in Nat /\ m.f \in Nat
        /\ m.t \in {"ok", "err", "ok_fut"}
    <3>1. wire[p] # <<>> /\ wire' = [wire EXCEPT ![p] = Tail(@)] /\ m.t \in {"ok", "err", "ok_fut"}
      BY <1>2 DEF Resolve
    <3>2. m \in Message /\ wire' \in [Peers -> Seq(Message)]
      BY <3>1, PopEffect DEF TypeOK
    <3> QED BY <3>1, <3>2 DEF Message
  <2>2. UNCHANGED <<up, nextId, reader, doomed, nextFref, workers, active, coros, phase>>
    BY <1>2 DEF Resolve
  <2>3. CASE m.n \notin pending[p]
    <3>1. UNCHANGED <<pending, result, futures>>
      BY <1>2, <2>3 DEF Resolve
    <3>2. AskInv'
      BY <2>2, <3>1, KeepsAsks
    <3> QED BY <2>1, <2>2, <3>1, <3>2 DEF TypeOK
  <2>4. CASE m.n \in pending[p]
    <3>1. /\ pending' = [pending EXCEPT ![p] = @ \ {m.n}]
          /\ futures' = IF m.t = "ok_fut"
                        THEN [futures EXCEPT ![p] = {g \in @ : g[1] # m.f} \cup {<<m.f, m.n>>}]
                        ELSE futures
          /\ \E s \in Settled \cup {"remote"} : result' = SetResult(<<p, m.n>>, s, m.of)
      BY <1>2, <2>1, <2>4 DEF Resolve, Settled
    <3> HIDE DEF m
    <3>2. m.n \in 1..nextId[p] /\ m.n \in Nums
      BY <2>4 DEF AskInv, TypeOK
    <3>3. /\ result' \in [Calls -> Result]
          /\ \A c \in Calls : result'[c].s = "none" <=> result[c].s = "none"
      BY <1>1, <2>1, <3>1, <3>2
    <3>4. pending' \in [Peers -> SUBSET Nums] /\ futures' \in [Peers -> SUBSET (Nat \X Nums)]
      BY <2>1, <3>1, <3>2 DEF TypeOK
    <3>5. /\ \A q \in Peers : pending'[q] \cup doomed'[q] \subseteq pending[q] \cup doomed[q]
          /\ \A q \in Peers : \A g \in futures'[q] : g \in futures[q] \/ g[2] \in pending[q]
      BY <2>2, <2>4, <3>1 DEF TypeOK
    <3>6. AskInv'
      BY <2>2, <3>3, <3>5, KeepsAsks
    <3> QED BY <2>1, <2>2, <3>3, <3>4, <3>6 DEF TypeOK
  <2> QED BY <2>3, <2>4
<1>3. CASE ResolveFuture(p)
  <2> DEFINE m == Head(wire[p])
             mine == {g \in futures[p] : g[1] = m.f}
  <2>1. m \in Message /\ wire' \in [Peers -> Seq(Message)]
    <3>1. wire[p] # <<>> /\ wire' = [wire EXCEPT ![p] = Tail(@)]
      BY <1>3 DEF ResolveFuture, Read
    <3> QED BY <3>1, PopEffect DEF TypeOK
  <2>2. /\ UNCHANGED <<up, nextId, pending, reader, doomed, nextFref, workers, active, coros, phase>>
        /\ futures' = [futures EXCEPT ![p] = @ \ mine]
    BY <1>3 DEF ResolveFuture
  <2>3. result' = result \/ \E g \in futures[p], s \in Settled : result' = SetResult(<<p, g[2]>>, s, m.of)
    <3>1. CASE mine = {}
      BY <1>3, <3>1 DEF ResolveFuture
    <3>2. CASE mine # {}
      <4> DEFINE g == CHOOSE g \in mine : TRUE
      <4>1. g \in mine
        BY <3>2
      <4>2. result' = SetResult(<<p, g[2]>>, IF m.n = 1 THEN "error" ELSE "value", m.of)
        BY <1>3, <3>2 DEF ResolveFuture
      <4> QED BY <4>1, <4>2 DEF Settled
    <3> QED BY <3>1, <3>2
  <2> HIDE DEF m
  <2>4. /\ result' \in [Calls -> Result]
        /\ \A c \in Calls : result'[c].s = "none" <=> result[c].s = "none"
    <3>1. CASE result' = result
      BY <3>1 DEF TypeOK
    <3>2. CASE result' # result
      BY <1>1, <2>1, <2>3, <3>2 DEF AskInv
    <3> QED BY <3>1, <3>2
  <2>5. futures' \in [Peers -> SUBSET (Nat \X Nums)] /\ \A q \in Peers : futures'[q] \subseteq futures[q]
    BY <2>2 DEF TypeOK
  <2>6. AskInv'
    BY <2>2, <2>4, <2>5, KeepsAsks
  <2> QED BY <2>1, <2>2, <2>4, <2>5, <2>6 DEF TypeOK
<1>4. CASE ReaderEof(p)
  <2>1. /\ reader' = [reader EXCEPT ![p] = "failing"] /\ wire' = [wire EXCEPT ![p] = <<>>]
        /\ doomed' = [doomed EXCEPT ![p] = pending[p]]
        /\ UNCHANGED <<up, nextId, pending, result, futures, nextFref, workers, active, coros, phase>>
    BY <1>4 DEF ReaderEof
  <2>2. \A q \in Peers : pending'[q] \cup doomed'[q] \subseteq pending[q] \cup doomed[q]
    BY <2>1 DEF TypeOK
  <2>3. AskInv'
    BY <2>1, <2>2, KeepsAsks
  <2>4. wire' \in [Peers -> Seq(Message)]
    BY <2>1 DEF TypeOK
  <2> QED BY <2>1, <2>3, <2>4 DEF TypeOK
<1>5. CASE FailPending(p)
  <2> DEFINE lost == {<<p, n>> : n \in doomed[p]} \cup {<<p, g[2]>> : g \in futures[p]}
  <2>1. /\ result' = [c \in Calls |-> IF c \in lost /\ result[c].s \notin Settled
                                      THEN [s |-> "error", of |-> NoCall] ELSE result[c]]
        /\ reader' = [reader EXCEPT ![p] = "down"]
        /\ doomed' = [doomed EXCEPT ![p] = {}] /\ pending' = [pending EXCEPT ![p] = {}]
        /\ futures' = [futures EXCEPT ![p] = {}]
        /\ UNCHANGED <<up, wire, nextId, nextFref, workers, active, coros, phase>>
    BY <1>5 DEF FailPending
  <2>2. \A c \in lost : c \in Calls => result[c].s # "none"
    <3> SUFFICES ASSUME NEW n \in 1..nextId[p], <<p, n>> \in Calls PROVE result[<<p, n>>].s # "none"
      BY DEF AskInv
    <3>1. nextId[p] <= MaxCalls[p] /\ nextId[p] \in Nat /\ MaxCalls[p] \in Nat
      BY BoundsAssumption DEF AskInv, TypeOK
    <3>2. n \in Asks(p) /\ ~(n > nextId[p])
      BY <3>1 DEF Asks
    <3> QED BY <3>2 DEF AskInv
  <2> HIDE DEF lost
  <2>3. [s |-> "error", of |-> NoCall] \in Result
    BY DEF Result, Settled
  <2>4. result' \in [Calls -> Result] /\ \A c \in Calls : result'[c].s = "none" <=> result[c].s = "none"
    BY <2>1, <2>2, <2>3 DEF TypeOK
  <2>5. /\ \A q \in Peers : pending'[q] \cup doomed'[q] \subseteq pending[q] \cup doomed[q]
        /\ \A q \in Peers : futures'[q] \subseteq futures[q]
    BY <2>1 DEF TypeOK
  <2>6. AskInv'
    BY <2>1, <2>4, <2>5, KeepsAsks
  <2> QED BY <2>1, <2>4, <2>6 DEF TypeOK
<1> QED BY <1>2, <1>3, <1>4, <1>5

-----------------------------------------------------------------------------
(* The worker threads are counted and capped *)

CapInv == \A p \in Peers :
    IsFiniteSet(workers[p]) /\ active[p] = Cardinality(workers[p]) /\ active[p] <= MaxWorkers

\* One thread goes on to another stage.
LEMMA StepCaps ==
    ASSUME TypeOK, ServeInv, CapInv, NEW p \in Peers, NEW w \in workers[p], NEW v, v.n = w.n,
           workers' = [workers EXCEPT ![p] = (@ \ {w}) \cup {v}], active' = active
    PROVE  CapInv'
<1> DEFINE S == workers[p]
<1>1. /\ IsFiniteSet(S \ {w}) /\ Cardinality(S \ {w}) = Cardinality(S) - 1
      /\ IsFiniteSet(S) /\ Cardinality(S) \in Nat
  BY FS_RemoveElement, FS_CardinalityType DEF CapInv
<1>2. v \notin S \ {w}
  BY DEF ServeInv, Serves
<1>3. IsFiniteSet((S \ {w}) \cup {v}) /\ Cardinality((S \ {w}) \cup {v}) = Cardinality(S)
  <2> DEFINE R == S \ {w}
  <2>1. IsFiniteSet(R) /\ v \notin R /\ Cardinality(R) = Cardinality(S) - 1
    BY <1>1, <1>2
  <2> HIDE DEF R
  <2>2. IsFiniteSet(R \cup {v}) /\ Cardinality(R \cup {v}) = Cardinality(R) + 1
    BY <2>1, FS_AddElement
  <2>3. Cardinality(R \cup {v}) = Cardinality(S)
    BY <1>1, <2>1, <2>2
  <2> QED BY <2>2, <2>3 DEF R
<1>4. \A q \in Peers : workers'[q] = IF q = p THEN (S \ {w}) \cup {v} ELSE workers[q]
  BY DEF TypeOK
<1> QED BY <1>3, <1>4 DEF CapInv

\* ... or ends.
LEMMA ExitCaps ==
    ASSUME TypeOK, CapInv, NEW p \in Peers, NEW w \in workers[p], WorkerExits(p, w)
    PROVE  CapInv' /\ active' \in [Peers -> Nat]
<1> DEFINE S == workers[p]
<1>1. /\ IsFiniteSet(S \ {w}) /\ Cardinality(S \ {w}) = Cardinality(S) - 1
      /\ Cardinality(S) \in Nat /\ Cardinality(S \ {w}) \in Nat /\ active[p] = Cardinality(S)
  BY FS_RemoveElement, FS_CardinalityType DEF CapInv
<1>2. /\ \A q \in Peers : workers'[q] = IF q = p THEN S \ {w} ELSE workers[q]
      /\ active' = [active EXCEPT ![p] = active[p] - 1]
      /\ \A q \in Peers : active'[q] = IF q = p THEN active[p] - 1 ELSE active[q]
  BY DEF WorkerExits, TypeOK
<1>3. active[p] <= MaxWorkers /\ MaxWorkers \in Nat
  BY BoundsAssumption DEF CapInv
<1>4. \A q \in Peers : active'[q] <= MaxWorkers
  BY <1>1, <1>2, <1>3 DEF CapInv
<1>5. \A q \in Peers : IsFiniteSet(workers'[q]) /\ active'[q] = Cardinality(workers'[q])
  BY <1>1, <1>2 DEF CapInv
<1>6. active' \in [Peers -> Nat]
  <2>1. active[p] - 1 \in Nat /\ active \in [Peers -> Nat]
    BY <1>1 DEF TypeOK
  <2> QED BY <1>2, <2>1
<1> QED BY <1>4, <1>5, <1>6 DEF CapInv

\* A call that is dispatched has no thread yet.
LEMMA DispatchCaps ==
    ASSUME TypeOK, ServeInv, CapInv, NEW p \in Peers, DispatchCall(p)
    PROVE  CapInv'
<1> DEFINE n == Head(wire[p]).n
           S == workers[p]
<1>1. CASE UNCHANGED <<active, workers>>
  BY <1>1 DEF CapInv
<1>2. CASE /\ active[p] < MaxWorkers /\ active' = [active EXCEPT ![p] = @ + 1]
           /\ workers' = [workers EXCEPT ![p] = @ \cup {Worker0(n)}]
  <2>1. wire[p] # <<>> /\ Head(wire[p]).t = "call" /\ Head(wire[p]) \in Msgs(p)
    BY Popped DEF DispatchCall, Read, TypeOK, Msgs
  <2>2. phase[Of(p, n)] = "none"
    BY <2>1 DEF ServeInv, Serves
  <2>3. Worker0(n) \notin S
    BY <2>2 DEF ServeInv, Serves, Worker0
  <2>4. /\ IsFiniteSet(S \cup {Worker0(n)}) /\ Cardinality(S) \in Nat
        /\ Cardinality(S \cup {Worker0(n)}) = Cardinality(S) + 1
    BY <2>3, FS_AddElement, FS_CardinalityType DEF CapInv
  <2>5. /\ \A q \in Peers : workers'[q] = IF q = p THEN S \cup {Worker0(n)} ELSE workers[q]
        /\ \A q \in Peers : active'[q] = IF q = p THEN active[p] + 1 ELSE active[q]
    BY <1>2 DEF TypeOK
  <2>6. active[p] + 1 <= MaxWorkers
    BY <1>2, BoundsAssumption DEF TypeOK
  <2> QED BY <2>4, <2>5, <2>6 DEF CapInv
<1> QED BY <1>1, <1>2 DEF DispatchCall

\* The stages of a worker thread.
LEMMA StageTyped ==
    ASSUME TypeOK, ServeInv, CapInv, NEW p \in Peers, NEW w \in workers[p],
           NEW s \in {"run", "reply", "fail", "announce", "exit"}, Step(p, w, s), active' = active
    PROVE  workers' \in [Peers -> SUBSET Worker] /\ CapInv'
<1> DEFINE v == [w EXCEPT !.stage = s]
<1>1. w \in Worker /\ workers \in [Peers -> SUBSET Worker]
  BY DEF TypeOK
<1>2. v \in Worker /\ v.n = w.n
  BY <1>1 DEF Worker
<1>3. workers' = [workers EXCEPT ![p] = (@ \ {w}) \cup {v}]
  BY DEF Step
<1> HIDE DEF v
<1>4. workers' \in [Peers -> SUBSET Worker]
  BY <1>1, <1>2, <1>3
<1> QED BY <1>2, <1>3, <1>4, StepCaps

\* A step of a worker thread.
LEMMA WorkerTyped ==
    ASSUME TypeOK, AskInv, ServeInv, CapInv, NEW p \in Peers, NEW w \in workers[p],
           \/ Unnest(p, w) \/ HandlerEnds(p, w) \/ HandlerIsAsync(p, w) \/ SendOk(p, w)
           \/ SendOkFut(p, w) \/ WorkerExits(p, w)
    PROVE  TypeOK' /\ AskInv' /\ CapInv'
<1> USE DEF callVars, readVars, workVars
<1>1. w \in Worker /\ w.n \in Nat /\ w.n \in Nums /\ Of(p, w.n) \in Calls
  BY ServedIds DEF ServeInv, Serves, TypeOK
<1>2. UNCHANGED <<up, nextId, pending, result, reader, doomed, futures>>
  BY DEF Unnest, HandlerEnds, HandlerIsAsync, SendOk, SendOkFut, WorkerExits
<1>3. AskInv'
  BY <1>2, KeepsAsks
<1>4. CASE Unnest(p, w)
  <2>1. UNCHANGED <<wire, nextFref, active, coros, phase>> /\ Step(p, w, "run")
    BY <1>4 DEF Unnest
  <2>2. workers' \in [Peers -> SUBSET Worker] /\ CapInv'
    BY <2>1, StageTyped
  <2> QED BY <1>2, <1>3, <2>1, <2>2 DEF TypeOK
<1>5. CASE HandlerEnds(p, w)
  <2>1. PICK end \in {"returned", "raised"} :
          /\ phase' = [phase EXCEPT ![Of(p, w.n)] = end]
          /\ Step(p, w, IF end = "returned" THEN "reply" ELSE "fail")
          /\ UNCHANGED <<wire, nextFref, active, coros>>
    BY <1>5 DEF HandlerEnds, Of
  <2>2. workers' \in [Peers -> SUBSET Worker] /\ CapInv'
    BY <2>1, StageTyped
  <2> QED BY <1>2, <1>3, <2>1, <2>2 DEF TypeOK
<1>6. CASE HandlerIsAsync(p, w)
  <2>1. /\ coros' = [coros EXCEPT ![p] = @ \cup {[n |-> w.n, f |-> 0, done |-> FALSE]}]
        /\ Step(p, w, "announce") /\ UNCHANGED <<wire, nextFref, active, phase>>
    BY <1>6 DEF HandlerIsAsync
  <2>2. workers' \in [Peers -> SUBSET Worker] /\ CapInv'
    BY <2>1, StageTyped
  <2>3. [n |-> w.n, f |-> 0, done |-> FALSE] \in Coro
    BY <1>1 DEF Coro
  <2> QED BY <1>2, <1>3, <2>1, <2>2, <2>3 DEF TypeOK
<1>7. CASE SendOk(p, w)
  <2>1. /\ \E m \in Message : Put(p, m)
        /\ Step(p, w, "exit") /\ UNCHANGED <<nextFref, active, coros, phase>>
    <3>1. Msg("ok", w.n, 0, Of(p, w.n)) \in Message /\ Msg("err", w.n, 0, NoCall) \in Message
      BY <1>1, MsgTyped
    <3> QED BY <1>7, <3>1 DEF SendOk, Of
  <2>2. workers' \in [Peers -> SUBSET Worker] /\ CapInv'
    BY <2>1, StageTyped
  <2>3. wire' \in [Peers -> Seq(Message)]
    BY <2>1, PutEffect DEF TypeOK
  <2> QED BY <1>2, <1>3, <2>1, <2>2, <2>3 DEF TypeOK
<1>8. CASE SendOkFut(p, w)
  <2> DEFINE f == NewFref(p)
             announced == {IF k.n = w.n THEN [k EXCEPT !.f = f] ELSE k : k \in coros[p]}
  <2>1. /\ nextFref' = [nextFref EXCEPT ![p] = f]
        /\ coros' = [coros EXCEPT ![p] = announced]
        /\ Put(p, Msg("ok_fut", w.n, f, NoCall))
        /\ Step(p, w, "exit") /\ UNCHANGED <<active, phase>>
    BY <1>8 DEF SendOkFut
  <2>2. f \in Nat
    BY DEF NewFref, TypeOK
  <2>3. workers' \in [Peers -> SUBSET Worker] /\ CapInv'
    BY <2>1, StageTyped
  <2>4. wire' \in [Peers -> Seq(Message)]
    <3>1. Msg("ok_fut", w.n, f, NoCall) \in Message
      BY <1>1, <2>2, MsgTyped
    <3> QED BY <2>1, <3>1, PutEffect DEF TypeOK
  <2>5. announced \subseteq Coro
    <3>1. coros[p] \subseteq Coro
      BY DEF TypeOK
    <3> QED BY <2>2, <3>1 DEF Coro
  <2> HIDE DEF f, announced
  <2>6. nextFref' \in [Peers -> Nat] /\ coros' \in [Peers -> SUBSET Coro]
    BY <2>1, <2>2, <2>5 DEF TypeOK
  <2> QED BY <1>2, <1>3, <2>1, <2>3, <2>4, <2>6 DEF TypeOK
<1>9. CASE WorkerExits(p, w)
  <2>1. /\ workers' = [workers EXCEPT ![p] = @ \ {w}]
        /\ UNCHANGED <<wire, nextFref, coros, phase>>
    BY <1>9 DEF WorkerExits
  <2>2. workers' \in [Peers -> SUBSET Worker]
    BY <2>1 DEF TypeOK
  <2>3. CapInv' /\ active' \in [Peers -> Nat]
    BY <1>9, ExitCaps
  <2> QED BY <1>2, <1>3, <2>1, <2>2, <2>3 DEF TypeOK
<1> QED BY <1>4, <1>5, <1>6, <1>7, <1>8, <1>9

\* A step of a coroutine.
LEMMA CoroTyped ==
    ASSUME TypeOK, AskInv, ServeInv, CapInv, NEW p \in Peers, NEW k \in coros[p],
           CoroEnds(p, k) \/ SendFutDone(p, k)
    PROVE  TypeOK' /\ AskInv' /\ CapInv'
<1> USE DEF callVars, readVars, workVars
<1>1. k \in Coro /\ Of(p, k.n) \in Calls
  BY ServedIds DEF ServeInv, Serves, TypeOK
<1>2. UNCHANGED <<up, nextId, pending, result, reader, doomed, futures, nextFref, workers, active>>
  BY DEF CoroEnds, SendFutDone
<1>3. AskInv' /\ CapInv'
  BY <1>2, KeepsAsks DEF CapInv
<1>4. CASE CoroEnds(p, k)
  <2>1. PICK end \in {"returned", "raised"} :
          /\ phase' = [phase EXCEPT ![Of(p, k.n)] = end]
          /\ coros' = [coros EXCEPT ![p] = (@ \ {k}) \cup {[k EXCEPT !.done = TRUE]}]
          /\ UNCHANGED wire
    BY <1>4 DEF CoroEnds, Of
  <2>2. [k EXCEPT !.done = TRUE] \in Coro
    BY <1>1 DEF Coro
  <2> QED BY <1>2, <1>3, <2>1, <2>2 DEF TypeOK
<1>5. CASE SendFutDone(p, k)
  <2>1. /\ \E m \in Message : Put(p, m)
        /\ coros' = [coros EXCEPT ![p] = @ \ {k}] /\ UNCHANGED phase
    <3>1. /\ k.f \in Nat
          /\ Msg("fut_done", 1, k.f, NoCall) \in Message /\ Msg("fut_done", 0, k.f, Of(p, k.n)) \in Message
      BY <1>1, MsgTyped DEF Coro
    <3> QED BY <1>5, <3>1 DEF SendFutDone, Of
  <2>2. wire' \in [Peers -> Seq(Message)]
    BY <2>1, PutEffect DEF TypeOK
  <2> QED BY <1>2, <1>3, <2>1, <2>2 DEF TypeOK
<1> QED BY <1>4, <1>5

-----------------------------------------------------------------------------
(* A call is served by one message, one thread, one coroutine *)

\* What most steps do: no call is sent, no thread but one that serves the same
\* call takes a thread's place, no coroutine is new.
MsgsKept ==
    \A p \in Peers : OneCall(wire'[p]) /\ \A x \in Msgs(p)' : x.t = "call" => x \in Msgs(p)
ThreadsKept ==
    \A p \in Peers : \A v \in workers'[p] :
        /\ \E w \in workers[p] :
            /\ w.n = v.n
            /\ v.stage \in {"run", "nested"} => w.stage \in {"run", "nested"}
            /\ v.stage = "reply" => w.stage = "reply"
        /\ \A u \in workers'[p] : u.n = v.n => u = v
CorosKept ==
    \A p \in Peers : \A j \in coros'[p] :
        /\ \E k \in coros[p] : k.n = j.n /\ k.done = j.done
        /\ \A i \in coros'[p] : i.n = j.n => i = j
AsksKept ==
    \A c \in Calls :
        result'[c].s \in {"none", "registered"} => result[c].s \in {"none", "registered"}

\* ... in particular a step that leaves them alone.
LEMMA Alone ==
    ASSUME ServeInv
    PROVE  /\ wire' = wire => MsgsKept
           /\ workers' = workers => ThreadsKept
           /\ coros' = coros => CorosKept
           /\ result' = result => AsksKept
<1>1. wire' = wire => MsgsKept
  BY DEF ServeInv, Serves, MsgsKept, Msgs
<1>2. workers' = workers => ThreadsKept
  BY DEF ServeInv, Serves, ThreadsKept
<1>3. coros' = coros => CorosKept
  BY DEF ServeInv, Serves, CorosKept
<1> QED BY <1>1, <1>2, <1>3 DEF AsksKept

\* Then ServeInv is kept.
LEMMA KeepsServing ==
    ASSUME ServeInv, phase' = phase, MsgsKept, ThreadsKept, CorosKept, AsksKept
    PROVE  ServeInv'
<1> SUFFICES ASSUME NEW p \in Peers PROVE Serves(p)'
  BY DEF ServeInv
<1> USE DEF ServeInv, Serves
<1>1. ASSUME NEW m \in Msgs(p)', m.t = "call"
      PROVE  /\ m.n \in Asks(Other(p)) /\ phase[Of(p, m.n)] = "none"
             /\ result'[Of(p, m.n)].s \notin {"none", "registered"}
  BY <1>1, ServedIds DEF MsgsKept, AsksKept
<1>2. ASSUME NEW n \in Asks(Other(p)), result'[Of(p, n)].s \in {"none", "registered"}
      PROVE  phase[Of(p, n)] = "none"
  BY <1>2, ServedIds DEF AsksKept
<1>3. ASSUME NEW v \in workers'[p]
      PROVE  /\ v.n \in Asks(Other(p)) /\ phase[Of(p, v.n)] # "none"
             /\ v.stage \in {"run", "nested"} =>
                    phase[Of(p, v.n)] = "running" /\ \A k \in coros'[p] : k.n # v.n
             /\ v.stage = "reply" => phase[Of(p, v.n)] = "returned"
             /\ \A u \in workers'[p] : u.n = v.n => u = v
  <2>1. PICK w \in workers[p] :
          /\ w.n = v.n
          /\ v.stage \in {"run", "nested"} => w.stage \in {"run", "nested"}
          /\ v.stage = "reply" => w.stage = "reply"
    BY DEF ThreadsKept
  <2>2. \A k \in coros'[p] : \E j \in coros[p] : j.n = k.n
    BY DEF CorosKept
  <2> QED BY <2>1, <2>2 DEF ThreadsKept
<1>4. ASSUME NEW j \in coros'[p]
      PROVE  /\ j.n \in Asks(Other(p))
             /\ IF j.done THEN phase[Of(p, j.n)] \in {"returned", "raised"}
                ELSE phase[Of(p, j.n)] = "running"
             /\ \A i \in coros'[p] : i.n = j.n => i = j
  <2>1. PICK k \in coros[p] : k.n = j.n /\ k.done = j.done
    BY DEF CorosKept
  <2> QED BY <2>1 DEF CorosKept
<1>5. OneCall(wire'[p])
  BY DEF MsgsKept
<1> QED BY <1>1, <1>2, <1>3, <1>4, <1>5 DEF Of, Asks

\* A thread that goes to another stage remains the only one of its call.
LEMMA StageKept ==
    ASSUME TypeOK, ServeInv, NEW p \in Peers, NEW w \in workers[p], NEW v, v.n = w.n,
           workers' = [workers EXCEPT ![p] = (@ \ {w}) \cup {v}],
           v.stage \in {"run", "nested"} => w.stage \in {"run", "nested"},
           v.stage # "reply"
    PROVE  ThreadsKept
<1>1. \A q \in Peers : workers'[q] = IF q = p THEN (workers[p] \ {w}) \cup {v} ELSE workers[q]
  BY DEF TypeOK
<1>2. \A q \in Peers : \A u, x \in workers[q] : x.n = u.n => x = u
  BY DEF ServeInv, Serves
<1> QED BY <1>1, <1>2 DEF ThreadsKept

\* ... with Step.
LEMMA StepKept ==
    ASSUME TypeOK, ServeInv, NEW p \in Peers, NEW w \in workers[p],
           NEW s \in {"run", "fail", "announce", "exit"}, Step(p, w, s),
           s = "run" => w.stage \in {"run", "nested"}
    PROVE  ThreadsKept
<1> DEFINE v == [w EXCEPT !.stage = s]
<1>1. v.n = w.n /\ v.stage = s
  BY DEF TypeOK, Worker
<1>2. workers' = [workers EXCEPT ![p] = (@ \ {w}) \cup {v}]
  BY DEF Step
<1> HIDE DEF v
<1> QED BY <1>1, <1>2, StageKept

\* Sending anything but a call, and reading.
LEMMA WireKept ==
    ASSUME TypeOK, ServeInv, NEW p \in Peers,
           \/ \E m \in Message : m.t # "call" /\ Put(p, m)
           \/ wire[p] # <<>> /\ wire' = [wire EXCEPT ![p] = Tail(@)]
           \/ wire' = [wire EXCEPT ![p] = <<>>]
    PROVE  MsgsKept
<1>1. \A q \in Peers : OneCall(wire[q])
  BY DEF ServeInv, Serves
<1>2. CASE \E m \in Message : m.t # "call" /\ Put(p, m)
  BY <1>1, <1>2, PutEffect DEF MsgsKept, TypeOK
<1>3. CASE wire[p] # <<>> /\ wire' = [wire EXCEPT ![p] = Tail(@)]
  BY <1>1, <1>3, PopEffect DEF MsgsKept, TypeOK
<1>4. CASE wire' = [wire EXCEPT ![p] = <<>>]
  <2>1. \A q \in Peers : wire'[q] = wire[q] \/ wire'[q] = <<>>
    BY <1>4 DEF TypeOK
  <2>2. OneCall(<<>>) /\ Elems(<<>>) = {}
    BY DEF OneCall, Elems
  <2> QED BY <1>1, <2>1, <2>2 DEF MsgsKept, Msgs
<1> QED BY <1>2, <1>3, <1>4

\* The caller's view of a call only gets further.
LEMMA ResultKept ==
    ASSUME TypeOK, AskInv, NEW p \in Peers,
           \/ Call(p) \/ (\E w \in workers[p] : Nest(p, w)) \/ Resolve(p)
           \/ ResolveFuture(p) \/ FailPending(p)
    PROVE  AsksKept
<1>1. CASE Call(p) \/ \E w \in workers[p] : Nest(p, w)
  <2>1. PICK n \in Asks(p) : Register(p, n)
    BY <1>1 DEF Call, Nest, Asks
  <2> QED BY <2>1, RegisterEffect DEF AsksKept
<1>2. CASE Resolve(p) \/ ResolveFuture(p)
  <2>1. result' = result \/ \E c, of : \E s \in Settled \cup {"remote"} : result' = SetResult(c, s, of)
    <3>1. CASE Resolve(p)
      BY <3>1 DEF Resolve, Settled
    <3>2. CASE ResolveFuture(p)
      BY <3>2 DEF ResolveFuture, Settled
    <3> QED BY <1>2, <3>1, <3>2
  <2>2. CASE result' = result
    BY <2>2 DEF AsksKept
  <2>3. ASSUME NEW c, NEW of, NEW s \in Settled \cup {"remote"}, result' = SetResult(c, s, of)
        PROVE  AsksKept
    <3>1. \A d \in Calls : result'[d] = result[d] \/ result'[d] = [s |-> s, of |-> of]
      BY <2>3 DEF SetResult, TypeOK
    <3>2. s \notin {"none", "registered"}
      BY DEF Settled
    <3> QED BY <3>1, <3>2 DEF AsksKept
  <2> QED BY <2>1, <2>2, <2>3
<1>3. CASE FailPending(p)
  <2>1. \A c \in Calls : result'[c] = result[c] \/ result'[c] = [s |-> "error", of |-> NoCall]
    BY <1>3 DEF FailPending
  <2> QED BY <2>1 DEF AsksKept
<1> QED BY <1>1, <1>2, <1>3

\* The steps that start and end no handler and send no call.
LEMMA QuietServes ==
    ASSUME TypeOK, AskInv, ServeInv, NEW p \in Peers,
           \/ Call(p) \/ Resolve(p) \/ ResolveFuture(p) \/ ReaderEof(p) \/ FailPending(p)
           \/ \E w \in workers[p] : \/ Nest(p, w) \/ Unnest(p, w) \/ SendOk(p, w)
                                    \/ SendOkFut(p, w) \/ WorkerExits(p, w)
           \/ \E k \in coros[p] : SendFutDone(p, k)
           \/ Disconnect
    PROVE  ServeInv'
<1> USE DEF callVars, readVars, workVars
<1>1. CASE Call(p) \/ FailPending(p)
  <2>1. UNCHANGED <<wire, workers, coros, phase>>
    BY <1>1 DEF Call, FailPending
  <2>2. AsksKept
    BY <1>1, ResultKept
  <2> QED BY <2>1, <2>2, Alone, KeepsServing
<1>2. CASE Resolve(p) \/ ResolveFuture(p)
  <2>1. /\ UNCHANGED <<workers, coros, phase>>
        /\ wire[p] # <<>> /\ wire' = [wire EXCEPT ![p] = Tail(@)]
    BY <1>2 DEF Resolve, ResolveFuture, Read
  <2>2. AsksKept /\ MsgsKept
    BY <1>2, <2>1, ResultKept, WireKept
  <2> QED BY <2>1, <2>2, Alone, KeepsServing
<1>3. CASE ReaderEof(p) \/ Disconnect
  <2>1. /\ UNCHANGED <<workers, coros, phase, result>>
        /\ wire' = wire \/ wire' = [wire EXCEPT ![p] = <<>>]
    BY <1>3 DEF ReaderEof, Disconnect
  <2>2. MsgsKept
    BY <2>1, Alone, WireKept
  <2> QED BY <2>1, <2>2, Alone, KeepsServing
<1>4. ASSUME NEW w \in workers[p], Nest(p, w) PROVE ServeInv'
  <2>1. PICK k \in Asks(p) :
          workers' = [workers EXCEPT ![p] = (@ \ {w}) \cup {[w EXCEPT !.stage = "nested", !.sub = k]}]
    BY <1>4 DEF Nest, Asks
  <2>2. w.stage = "run" /\ UNCHANGED <<wire, coros, phase>>
    BY <1>4 DEF Nest
  <2> DEFINE v == [w EXCEPT !.stage = "nested", !.sub = k]
  <2>3. v.n = w.n /\ v.stage = "nested"
    BY DEF TypeOK, Worker
  <2> HIDE DEF v
  <2>4. ThreadsKept
    BY <2>1, <2>2, <2>3, StageKept DEF v
  <2>5. AsksKept
    BY <1>4, ResultKept
  <2> QED BY <2>2, <2>4, <2>5, Alone, KeepsServing
<1>5. ASSUME NEW w \in workers[p], Unnest(p, w) PROVE ServeInv'
  <2>1. w.stage = "nested" /\ Step(p, w, "run") /\ UNCHANGED <<wire, coros, phase, result>>
    BY <1>5 DEF Unnest
  <2>2. ThreadsKept
    BY <2>1, StepKept
  <2> QED BY <2>1, <2>2, Alone, KeepsServing
<1>6. ASSUME NEW w \in workers[p], SendOk(p, w) PROVE ServeInv'
  <2>1. /\ \E m \in Message : m.t # "call" /\ Put(p, m)
        /\ Step(p, w, "exit") /\ UNCHANGED <<coros, phase, result>>
    <3>1. /\ Msg("ok", w.n, 0, Of(p, w.n)) \in Message /\ Msg("err", w.n, 0, NoCall) \in Message
          /\ Msg("ok", w.n, 0, Of(p, w.n)).t # "call" /\ Msg("err", w.n, 0, NoCall).t # "call"
      <4>1. w.n \in Nat /\ Of(p, w.n) \in Calls
        BY ServedIds DEF ServeInv, Serves
      <4> QED BY <4>1, MsgTyped DEF Msg
    <3> QED BY <1>6, <3>1 DEF SendOk, Of
  <2>2. ThreadsKept /\ MsgsKept
    BY <2>1, StepKept, WireKept
  <2> QED BY <2>1, <2>2, Alone, KeepsServing
<1>7. ASSUME NEW w \in workers[p], SendOkFut(p, w) PROVE ServeInv'
  <2> DEFINE f == NewFref(p)
             m == Msg("ok_fut", w.n, f, NoCall)
             announced == {IF k.n = w.n THEN [k EXCEPT !.f = f] ELSE k : k \in coros[p]}
  <2>1. /\ coros' = [coros EXCEPT ![p] = announced] /\ Put(p, m)
        /\ Step(p, w, "exit") /\ UNCHANGED <<phase, result>>
    BY <1>7 DEF SendOkFut
  <2>2. m \in Message /\ m.t # "call"
    <3>1. w.n \in Nat /\ f \in Nat
      BY DEF TypeOK, Worker, Nums, NewFref, ServeInv, Serves, Asks
    <3> QED BY <3>1, MsgTyped DEF Msg
  <2> HIDE DEF m
  <2>3. ThreadsKept /\ MsgsKept
    BY <2>1, <2>2, StepKept, WireKept
  <2>4. CorosKept
    <3>1. \A q \in Peers : coros'[q] = IF q = p THEN announced ELSE coros[q]
      BY <2>1 DEF TypeOK
    <3>2. ASSUME NEW j \in announced
          PROVE  \E k \in coros[p] : /\ k.n = j.n /\ k.done = j.done
                                     /\ j = IF k.n = w.n THEN [k EXCEPT !.f = f] ELSE k
      <4>1. PICK k \in coros[p] : j = IF k.n = w.n THEN [k EXCEPT !.f = f] ELSE k
        OBVIOUS
      <4>2. k \in Coro
        BY DEF TypeOK
      <4>3. [k EXCEPT !.f = f].n = k.n /\ [k EXCEPT !.f = f].done = k.done
        BY <4>2 DEF Coro
      <4> QED BY <4>1, <4>3
    <3>3. \A q \in Peers : \A i, j \in coros[q] : i.n = j.n => i = j
      BY DEF ServeInv, Serves
    <3> HIDE DEF announced
    <3>4. ASSUME NEW i \in announced, NEW j \in announced, i.n = j.n PROVE i = j
      <4>1. PICK k \in coros[p] : k.n = i.n /\ i = IF k.n = w.n THEN [k EXCEPT !.f = f] ELSE k
        BY <3>2
      <4>2. PICK l \in coros[p] : l.n = j.n /\ j = IF l.n = w.n THEN [l EXCEPT !.f = f] ELSE l
        BY <3>2
      <4>3. k = l
        BY <3>3, <3>4, <4>1, <4>2
      <4> QED BY <4>1, <4>2, <4>3
    <3> QED BY <3>1, <3>2, <3>3, <3>4 DEF CorosKept
  <2> QED BY <2>1, <2>3, <2>4, Alone, KeepsServing
<1>8. ASSUME NEW w \in workers[p], WorkerExits(p, w) PROVE ServeInv'
  <2>1. workers' = [workers EXCEPT ![p] = @ \ {w}] /\ UNCHANGED <<wire, coros, phase, result>>
    BY <1>8 DEF WorkerExits
  <2>2. \A q \in Peers : workers'[q] \subseteq workers[q]
    BY <2>1 DEF TypeOK
  <2>3. ThreadsKept
    BY <2>2 DEF ServeInv, Serves, ThreadsKept
  <2> QED BY <2>1, <2>3, Alone, KeepsServing
<1>9. ASSUME NEW k \in coros[p], SendFutDone(p, k) PROVE ServeInv'
  <2>1. /\ \E m \in Message : m.t # "call" /\ Put(p, m)
        /\ coros' = [coros EXCEPT ![p] = @ \ {k}] /\ UNCHANGED <<workers, phase, result>>
    <3>1. k.f \in Nat /\ Of(p, k.n) \in Calls
      BY ServedIds DEF TypeOK, Coro, ServeInv, Serves
    <3>2. /\ Msg("fut_done", 1, k.f, NoCall) \in Message /\ Msg("fut_done", 0, k.f, Of(p, k.n)) \in Message
          /\ Msg("fut_done", 1, k.f, NoCall).t # "call" /\ Msg("fut_done", 0, k.f, Of(p, k.n)).t # "call"
      BY <3>1, MsgTyped DEF Msg
    <3> QED BY <1>9, <3>2 DEF SendFutDone, Of
  <2>2. MsgsKept
    BY <2>1, WireKept
  <2>3. \A q \in Peers : coros'[q] \subseteq coros[q]
    BY <2>1 DEF TypeOK
  <2>4. CorosKept
    BY <2>3 DEF ServeInv, Serves, CorosKept
  <2> QED BY <2>1, <2>2, <2>4, Alone, KeepsServing
<1> QED BY <1>1, <1>2, <1>3, <1>4, <1>5, <1>6, <1>7, <1>8, <1>9

\* A call's message is sent by the thread that registered it, once.
LEMMA SendCallServes ==
    ASSUME TypeOK, AskInv, ServeInv, NEW p \in Peers, NEW n \in Asks(p), SendCall(p, n)
    PROVE  ServeInv'
<1> USE DEF callVars, readVars, workVars
<1> DEFINE c == <<p, n>>
           m == Msg("call", n, 0, NoCall)
           q == Other(p)
<1>1. /\ n \in Nat /\ c \in Calls /\ m \in Message /\ m.t = "call" /\ m.n = n
      /\ q \in Peers /\ Other(q) = p /\ c = Of(q, n)
  BY CallIds, MsgTyped, Others DEF Msg, Of
<1>2. /\ result[c].s = "registered" /\ UNCHANGED <<workers, coros, phase>>
      /\ \/ Put(p, m) /\ result' = SetResult(c, "waiting", NoCall)
         \/ wire' = wire /\ result' = SetResult(c, "raised", NoCall)
  BY DEF SendCall
<1> HIDE DEF c, m
<1>3. PICK s \in {"waiting", "raised"} :
        \A d \in Calls : result'[d] = IF d = c THEN [s |-> s, of |-> NoCall] ELSE result[d]
  BY <1>2 DEF SetResult, Settled, TypeOK
<1>4. AsksKept /\ result'[c].s \notin {"none", "registered"}
  BY <1>1, <1>3 DEF AsksKept
<1>5. CASE wire' = wire
  BY <1>2, <1>4, <1>5, Alone, KeepsServing
<1>6. CASE Put(p, m)
  <2>1. phase[c] = "none" /\ NoCallOf(wire[q], n)
    <3>1. \A x \in Msgs(q) : x.t = "call" => result[Of(q, x.n)].s # "registered"
      BY <1>1 DEF ServeInv, Serves
    <3>2. phase[c] = "none"
      BY <1>1, <1>2 DEF ServeInv, Serves
    <3> QED BY <1>1, <1>2, <3>1, <3>2 DEF NoCallOf, Msgs
  <2>2. /\ \A r \in Peers : OneCall(wire'[r])
        /\ \A r \in Peers : \A x \in Msgs(r)' : x \in Msgs(r) \/ (r = q /\ x = m)
    BY <1>1, <1>6, <2>1, PutEffect DEF TypeOK, ServeInv, Serves
  <2>3. ASSUME NEW r \in Peers PROVE Serves(r)'
    <3> USE DEF ServeInv, Serves
    <3>1. ASSUME NEW x \in Msgs(r)', x.t = "call"
          PROVE  /\ x.n \in Asks(Other(r)) /\ phase[Of(r, x.n)] = "none"
                 /\ result'[Of(r, x.n)].s \notin {"none", "registered"}
      <4>1. CASE x \in Msgs(r)
        BY <3>1, <4>1, <1>4, ServedIds DEF AsksKept
      <4>2. CASE r = q /\ x = m
        BY <4>2, <1>1, <1>4, <2>1
      <4> QED BY <2>2, <4>1, <4>2
    <3>2. ASSUME NEW k \in Asks(Other(r)), result'[Of(r, k)].s \in {"none", "registered"}
          PROVE  phase[Of(r, k)] = "none"
      BY <3>2, <1>4, ServedIds DEF AsksKept
    <3> QED BY <1>2, <2>2, <3>1, <3>2 DEF Of, Asks
  <2> QED BY <2>3 DEF ServeInv
<1> QED BY <1>2, <1>5, <1>6

\* What a handler's step does to the thread and the coroutine of its call: `end`
\* is the handler's new phase.
ThreadsMoved(p, n, end) == \A v \in workers'[p] :
    /\ v.n = n /\ v.stage \in {"run", "nested"} => end = "running" /\ \A k \in coros'[p] : k.n # n
    /\ v.n = n /\ v.stage = "reply" => end = "returned"
    /\ v.n = n \/ v \in workers[p]
    /\ \A u \in workers'[p] : u.n = v.n => u = v
CorosMoved(p, n, end) == \A j \in coros'[p] :
    /\ j.n = n => (IF j.done THEN end \in {"returned", "raised"} ELSE end = "running")
    /\ j.n = n \/ j \in coros[p]
    /\ \A i \in coros'[p] : i.n = j.n => i = j
OtherEndSame(p) == \A q \in Peers : q # p => workers'[q] = workers[q] /\ coros'[q] = coros[q]

\* A handler's step: what it changes is the one call it serves.
LEMMA PhaseServes ==
    ASSUME TypeOK, ServeInv, NEW p \in Peers, NEW n \in Asks(Other(p)),
           NEW end \in {"running", "returned", "raised"},
           phase' = [phase EXCEPT ![Of(p, n)] = end], result' = result,
           result[Of(p, n)].s \notin {"none", "registered"}, MsgsKept,
           \A x \in Msgs(p)' : x.t = "call" => x.n # n,
           ThreadsMoved(p, n, end), CorosMoved(p, n, end), OtherEndSame(p)
    PROVE  ServeInv'
<1> SUFFICES ASSUME NEW q \in Peers PROVE Serves(q)'
  BY DEF ServeInv
<1> USE DEF ServeInv, Serves, ThreadsMoved, CorosMoved, OtherEndSame
<1>1. \A r \in Peers : \A k \in Asks(Other(r)) :
        phase'[Of(r, k)] = IF r = p /\ k = n THEN end ELSE phase[Of(r, k)]
  <2>1. ASSUME NEW r \in Peers, NEW k \in Asks(Other(r)) PROVE Of(r, k) = Of(p, n) <=> r = p /\ k = n
    BY Others DEF Of
  <2> QED BY <2>1, ServedIds DEF TypeOK
<1>2. ASSUME NEW m \in Msgs(q)', m.t = "call"
      PROVE  /\ m.n \in Asks(Other(q)) /\ phase'[Of(q, m.n)] = "none"
             /\ result[Of(q, m.n)].s \notin {"none", "registered"}
  BY <1>1, <1>2 DEF MsgsKept
<1>3. ASSUME NEW k \in Asks(Other(q)), result[Of(q, k)].s \in {"none", "registered"}
      PROVE  phase'[Of(q, k)] = "none"
  BY <1>1, <1>3
<1>4. ASSUME NEW v \in workers'[q]
      PROVE  /\ v.n \in Asks(Other(q)) /\ phase'[Of(q, v.n)] # "none"
             /\ v.stage \in {"run", "nested"} =>
                    phase'[Of(q, v.n)] = "running" /\ \A k \in coros'[q] : k.n # v.n
             /\ v.stage = "reply" => phase'[Of(q, v.n)] = "returned"
             /\ \A u \in workers'[q] : u.n = v.n => u = v
  <2>1. CASE q # p
    BY <1>1, <2>1
  <2>2. CASE q = p /\ v.n = n
    BY <1>1, <2>2
  <2>3. CASE q = p /\ v.n # n
    <3>1. v \in workers[p] /\ \A k \in coros'[p] : k.n = n \/ k \in coros[p]
      BY <2>3
    <3>2. \A k \in coros'[p] : k.n = v.n => k \in coros[p]
      BY <2>3, <3>1
    <3> QED BY <1>1, <2>3, <3>1, <3>2
  <2> QED BY <2>1, <2>2, <2>3
<1>5. ASSUME NEW j \in coros'[q]
      PROVE  /\ j.n \in Asks(Other(q))
             /\ IF j.done THEN phase'[Of(q, j.n)] \in {"returned", "raised"}
                ELSE phase'[Of(q, j.n)] = "running"
             /\ \A i \in coros'[q] : i.n = j.n => i = j
  BY <1>1
<1>6. OneCall(wire'[q])
  BY DEF MsgsKept
<1> QED BY <1>2, <1>3, <1>4, <1>5, <1>6 DEF Of, Asks

\* The reader takes a call: its thread is the first.
LEMMA DispatchServes ==
    ASSUME TypeOK, ServeInv, NEW p \in Peers, DispatchCall(p)
    PROVE  ServeInv'
<1> USE DEF callVars, readVars, workVars
<1> DEFINE n == Head(wire[p]).n
           rest == [wire EXCEPT ![p] = Tail(@)]
           refusal == Msg("err", n, 0, NoCall)
<1>1. wire[p] # <<>> /\ Head(wire[p]).t = "call" /\ wire[p] \in Seq(Message)
  BY DEF DispatchCall, Read, TypeOK
<1>2. /\ Head(wire[p]) \in Msgs(p) /\ OneCall(wire[p])
      /\ rest \in [Peers -> Seq(Message)] /\ OneCall(Tail(wire[p]))
      /\ Elems(Tail(wire[p])) \subseteq Msgs(p) /\ NoCallOf(Tail(wire[p]), n)
  BY <1>1, Popped DEF Msgs, TypeOK, ServeInv, Serves
<1>3. /\ n \in Asks(Other(p)) /\ n \in Nat /\ Of(p, n) \in Calls
      /\ phase[Of(p, n)] = "none" /\ result[Of(p, n)].s \notin {"none", "registered"}
  BY <1>1, <1>2, ServedIds DEF ServeInv, Serves
<1>4. refusal \in Message /\ refusal.t = "err"
  BY <1>3, MsgTyped DEF Msg
<1>5. /\ \/ wire' = rest /\ phase' = [phase EXCEPT ![Of(p, n)] = "running"]
            /\ workers' = [workers EXCEPT ![p] = @ \cup {Worker0(n)}]
         \/ wire' \in {rest, [rest EXCEPT ![Other(p)] = Append(@, refusal)]}
            /\ UNCHANGED <<workers, phase>>
      /\ UNCHANGED <<coros, result>>
  BY DEF DispatchCall, Of
<1> HIDE DEF n, refusal
<1>6. /\ \A q \in Peers : OneCall(rest[q])
      /\ \A q \in Peers : \A x \in Elems(rest[q]) : x \in Msgs(q)
  <2>1. \A q \in Peers : rest[q] = IF q = p THEN Tail(wire[p]) ELSE wire[q]
    BY DEF TypeOK
  <2> QED BY <1>2, <2>1 DEF Msgs, ServeInv, Serves
<1>7. rest[p] = Tail(wire[p])
  BY DEF TypeOK
<1> HIDE DEF rest
<1>8. CASE wire' = rest
  <2>1. MsgsKept
    BY <1>6, <1>8 DEF MsgsKept, Msgs
  <2>2. CASE UNCHANGED <<workers, phase>>
    BY <1>5, <2>1, <2>2, Alone, KeepsServing
  <2>3. CASE /\ phase' = [phase EXCEPT ![Of(p, n)] = "running"]
             /\ workers' = [workers EXCEPT ![p] = @ \cup {Worker0(n)}]
    <3>1. \A q \in Peers : workers'[q] = IF q = p THEN workers[p] \cup {Worker0(n)} ELSE workers[q]
      BY <2>3 DEF TypeOK
    <3>2. Worker0(n).n = n /\ Worker0(n).stage = "run"
      BY DEF Worker0
    <3>3. (\A w \in workers[p] : w.n # n) /\ (\A k \in coros[p] : k.n # n)
      BY <1>3 DEF ServeInv, Serves
    <3>4. \A x \in Msgs(p)' : x.t = "call" => x.n # n
      BY <1>2, <1>7, <1>8 DEF Msgs, NoCallOf
    <3>5. ThreadsMoved(p, n, "running")
      BY <1>5, <3>1, <3>2, <3>3 DEF ServeInv, Serves, ThreadsMoved
    <3>6. CorosMoved(p, n, "running")
      BY <1>5, <3>3 DEF ServeInv, Serves, CorosMoved
    <3>7. OtherEndSame(p)
      BY <1>5, <3>1 DEF OtherEndSame
    <3> QED BY <1>3, <1>5, <2>1, <2>3, <3>4, <3>5, <3>6, <3>7, PhaseServes
  <2> QED BY <1>5, <2>2, <2>3
<1>9. CASE wire' = [rest EXCEPT ![Other(p)] = Append(@, refusal)] /\ UNCHANGED <<workers, phase>>
  <2>1. \A q \in Peers : wire'[q] = IF q = Other(p) THEN Append(rest[q], refusal) ELSE rest[q]
    BY <1>2, <1>9
  <2>2. Other(p) \in Peers /\ rest[Other(p)] \in Seq(Message)
    BY <1>2, Others
  <2>3. MsgsKept
    <3> SUFFICES ASSUME NEW q \in Peers
                 PROVE  OneCall(wire'[q]) /\ \A x \in Msgs(q)' : x.t = "call" => x \in Msgs(q)
      BY DEF MsgsKept
    <3>1. CASE q # Other(p)
      BY <1>6, <2>1, <3>1 DEF Msgs
    <3>2. CASE q = Other(p)
      <4>1. /\ Elems(Append(rest[q], refusal)) = Elems(rest[q]) \cup {refusal}
            /\ OneCall(Append(rest[q], refusal))
        BY <1>4, <1>6, <2>2, <3>2, Pushed
      <4> QED BY <1>4, <1>6, <2>1, <3>2, <4>1 DEF Msgs
    <3> QED BY <3>1, <3>2
  <2> QED BY <1>5, <1>9, <2>3, Alone, KeepsServing
<1> QED BY <1>5, <1>8, <1>9

\* A handler ends, or proves to be a coroutine.
LEMMA HandlerServes ==
    ASSUME TypeOK, ServeInv, NEW p \in Peers, NEW w \in workers[p],
           HandlerEnds(p, w) \/ HandlerIsAsync(p, w)
    PROVE  ServeInv'
<1> USE DEF callVars, readVars, workVars
<1>1. /\ w.stage = "run" /\ w.n \in Asks(Other(p)) /\ phase[Of(p, w.n)] = "running"
      /\ \A k \in coros[p] : k.n # w.n
      /\ UNCHANGED <<wire, result>>
  BY DEF HandlerEnds, HandlerIsAsync, ServeInv, Serves
<1>2. /\ result[Of(p, w.n)].s \notin {"none", "registered"}
      /\ \A x \in Msgs(p) : x.t = "call" => x.n # w.n
  BY <1>1 DEF ServeInv, Serves
<1>3. MsgsKept
  BY <1>1, Alone
<1>4. PICK end \in {"running", "returned", "raised"}, s \in {"reply", "fail", "announce"} :
        /\ phase' = [phase EXCEPT ![Of(p, w.n)] = end] /\ Step(p, w, s)
        /\ s = "reply" => end = "returned"
        /\ \/ coros' = coros
           \/ coros' = [coros EXCEPT ![p] = @ \cup {[n |-> w.n, f |-> 0, done |-> FALSE]}]
              /\ end = "running"
  <2>1. CASE HandlerEnds(p, w)
    BY <2>1 DEF HandlerEnds, Of
  <2>2. CASE HandlerIsAsync(p, w)
    <3>1. phase' = [phase EXCEPT ![Of(p, w.n)] = "running"]
      BY <1>1, <2>2, ServedIds DEF HandlerIsAsync, TypeOK
    <3>2. /\ Step(p, w, "announce")
          /\ coros' = [coros EXCEPT ![p] = @ \cup {[n |-> w.n, f |-> 0, done |-> FALSE]}]
      BY <2>2 DEF HandlerIsAsync
    <3> QED BY <3>1, <3>2
  <2> QED BY <2>1, <2>2
<1> DEFINE v == [w EXCEPT !.stage = s]
           k == [n |-> w.n, f |-> 0, done |-> FALSE]
<1>5. v.n = w.n /\ v.stage = s /\ k.n = w.n /\ ~k.done
  BY DEF TypeOK, Worker
<1>6. \A q \in Peers : workers'[q] = IF q = p THEN (workers[p] \ {w}) \cup {v} ELSE workers[q]
  BY <1>4 DEF Step, TypeOK
<1>7. \/ coros' = coros
      \/ end = "running" /\ \A q \in Peers : coros'[q] = IF q = p THEN coros[p] \cup {k} ELSE coros[q]
  BY <1>4 DEF TypeOK
<1> HIDE DEF v, k
<1>8. ThreadsMoved(p, w.n, end)
  <2>1. \A u, x \in workers[p] : x.n = u.n => x = u
    BY DEF ServeInv, Serves
  <2> QED BY <1>4, <1>5, <1>6, <2>1 DEF ThreadsMoved
<1>9. CorosMoved(p, w.n, end)
  <2>1. \A i, j \in coros[p] : i.n = j.n => i = j
    BY DEF ServeInv, Serves
  <2> QED BY <1>1, <1>5, <1>7, <2>1 DEF CorosMoved
<1>10. OtherEndSame(p)
  BY <1>6, <1>7 DEF OtherEndSame
<1>11. \A x \in Msgs(p)' : x.t = "call" => x.n # w.n
  BY <1>1, <1>2 DEF Msgs
<1> QED BY <1>1, <1>2, <1>3, <1>4, <1>8, <1>9, <1>10, <1>11, PhaseServes

\* A coroutine ends.
LEMMA CoroServes ==
    ASSUME TypeOK, ServeInv, NEW p \in Peers, NEW k \in coros[p], CoroEnds(p, k)
    PROVE  ServeInv'
<1> USE DEF callVars, readVars, workVars
<1>1. /\ k.n \in Asks(Other(p)) /\ phase[Of(p, k.n)] = "running" /\ ~k.done
      /\ UNCHANGED <<wire, result, workers>>
  BY DEF CoroEnds, ServeInv, Serves
<1>2. /\ result[Of(p, k.n)].s \notin {"none", "registered"}
      /\ \A x \in Msgs(p) : x.t = "call" => x.n # k.n
  BY <1>1 DEF ServeInv, Serves
<1>3. MsgsKept
  BY <1>1, Alone
<1> DEFINE l == [k EXCEPT !.done = TRUE]
<1>4. PICK end \in {"returned", "raised"} : phase' = [phase EXCEPT ![Of(p, k.n)] = end]
  BY DEF CoroEnds, Of
<1>5. l.n = k.n /\ l.done
  BY DEF TypeOK, Coro
<1>6. \A q \in Peers : coros'[q] = IF q = p THEN (coros[p] \ {k}) \cup {l} ELSE coros[q]
  BY DEF CoroEnds, TypeOK
<1> HIDE DEF l
<1>7. ThreadsMoved(p, k.n, end)
  BY <1>1 DEF ServeInv, Serves, ThreadsMoved
<1>8. CorosMoved(p, k.n, end)
  <2>1. \A i, j \in coros[p] : i.n = j.n => i = j
    BY DEF ServeInv, Serves
  <2> QED BY <1>5, <1>6, <2>1 DEF CorosMoved
<1>9. OtherEndSame(p)
  BY <1>1, <1>6 DEF OtherEndSame
<1>10. \A x \in Msgs(p)' : x.t = "call" => x.n # k.n
  BY <1>1, <1>2 DEF Msgs
<1> QED BY <1>1, <1>2, <1>3, <1>4, <1>7, <1>8, <1>9, <1>10, PhaseServes

-----------------------------------------------------------------------------
(* An answer is the one of the call it is given to *)

\* A value under way, or one a caller has, is what this call's handler returned.
TrueAnswer(p, m) ==
    /\ m.t = "ok" => m.of = <<p, m.n>> /\ m.of \in Calls /\ phase[m.of] = "returned"
    /\ m.t = "fut_done" /\ m.n # 1 =>
        m.of \in Calls /\ m.of = <<p, m.of[2]>> /\ phase[m.of] = "returned"
AnswerInv ==
    /\ \A p \in Peers : \A m \in Msgs(p) : TrueAnswer(p, m)
    /\ \A c \in Calls : result[c].s = "value" => result[c].of = c /\ phase[c] = "returned"

\* Who says which call a future belongs to: the table of the caller, the messages
\* that announce and end it, and the coroutine behind it.
Claims(p) ==
    futures[p]
        \cup {<<m.f, m.n>> : m \in {x \in Msgs(p) : x.t = "ok_fut"}}
        \cup {<<m.f, m.of[2]>> : m \in {x \in Msgs(p) : x.t = "fut_done" /\ x.n # 1}}
        \cup {<<k.f, k.n>> : k \in {x \in coros[Other(p)] : x.f # 0}}

\* They agree, and the next id is a new one.
FutureInv == \A p \in Peers : \A a \in Claims(p) :
    /\ a[1] <= nextFref[Other(p)]
    /\ \A b \in Claims(p) : a[1] = b[1] => a[2] = b[2]

\* A handler that has returned has returned for good.
LEMMA PhaseGrows ==
    ASSUME TypeOK, ServeInv, NEW p \in Peers,
           \/ DispatchCall(p) \/ (\E w \in workers[p] : HandlerEnds(p, w))
           \/ (\E k \in coros[p] : CoroEnds(p, k))
    PROVE  \A c \in Calls : phase[c] = "returned" => phase'[c] = "returned"
<1>1. ASSUME NEW n, NEW end, phase[Of(p, n)] \in {"none", "running"},
             phase' = [phase EXCEPT ![Of(p, n)] = end]
      PROVE  \A c \in Calls : phase[c] = "returned" => phase'[c] = "returned"
  BY <1>1 DEF TypeOK
<1>2. CASE DispatchCall(p)
  <2>1. wire[p] # <<>> /\ Head(wire[p]).t = "call" /\ wire[p] \in Seq(Message)
    BY <1>2 DEF DispatchCall, Read, TypeOK
  <2>2. Head(wire[p]) \in Msgs(p)
    BY <2>1, Popped DEF Msgs
  <2>3. phase[Of(p, Head(wire[p]).n)] = "none"
    BY <2>1, <2>2 DEF ServeInv, Serves
  <2>4. phase' = phase \/ phase' = [phase EXCEPT ![Of(p, Head(wire[p]).n)] = "running"]
    BY <1>2 DEF DispatchCall, Of
  <2> QED BY <1>1, <2>3, <2>4
<1>3. ASSUME NEW w \in workers[p], HandlerEnds(p, w)
      PROVE  \A c \in Calls : phase[c] = "returned" => phase'[c] = "returned"
  <2>1. /\ phase[Of(p, w.n)] = "running"
        /\ \E end \in {"returned", "raised"} : phase' = [phase EXCEPT ![Of(p, w.n)] = end]
    BY <1>3 DEF HandlerEnds, Of, ServeInv, Serves
  <2> QED BY <1>1, <2>1
<1>4. ASSUME NEW k \in coros[p], CoroEnds(p, k)
      PROVE  \A c \in Calls : phase[c] = "returned" => phase'[c] = "returned"
  <2>1. /\ phase[Of(p, k.n)] = "running"
        /\ \E end \in {"returned", "raised"} : phase' = [phase EXCEPT ![Of(p, k.n)] = end]
    BY <1>4 DEF CoroEnds, Of, ServeInv, Serves
  <2> QED BY <1>1, <2>1
<1> QED BY <1>2, <1>3, <1>4

\* Steps that put no answer on the wire but a true one, and take none but a true one.
LEMMA KeepsAnswers ==
    ASSUME AnswerInv,
           \A c \in Calls : phase[c] = "returned" => phase'[c] = "returned",
           \A p \in Peers : \A x \in Msgs(p)' :
                x \in Msgs(p) \/ x.t \notin {"ok", "fut_done"} \/ TrueAnswer(p, x)',
           \A c \in Calls : result'[c].s = "value" =>
                result'[c] = result[c] \/ (result'[c].of = c /\ phase'[c] = "returned")
    PROVE  AnswerInv'
<1>1. ASSUME NEW p \in Peers, NEW m \in Msgs(p)' PROVE TrueAnswer(p, m)'
  BY DEF AnswerInv, TrueAnswer
<1>2. ASSUME NEW c \in Calls, result'[c].s = "value"
      PROVE  result'[c].of = c /\ phase'[c] = "returned"
  BY <1>2 DEF AnswerInv
<1> QED BY <1>1, <1>2 DEF AnswerInv

\* Steps after which nobody claims a future who did not.
LEMMA KeepsClaims ==
    ASSUME FutureInv, nextFref' = nextFref,
           \A p \in Peers : \A g \in futures'[p] : g \in Claims(p),
           \A p \in Peers : \A x \in Msgs(p)' :
                \/ x \in Msgs(p)
                \/ /\ x.t # "ok_fut"
                   /\ x.t = "fut_done" /\ x.n # 1 => <<x.f, x.of[2]>> \in Claims(p),
           \A p \in Peers : \A j \in coros'[p] :
                j.f # 0 => \E k \in coros[p] : k.f = j.f /\ k.n = j.n
    PROVE  FutureInv'
<1>1. ASSUME NEW p \in Peers, NEW a \in Claims(p)' PROVE a \in Claims(p)
  <2>1. CASE a \in futures'[p]
    BY <2>1
  <2>2. ASSUME NEW m \in Msgs(p)', m.t = "ok_fut", a = <<m.f, m.n>> PROVE a \in Claims(p)
    BY <2>2 DEF Claims
  <2>3. ASSUME NEW m \in Msgs(p)', m.t = "fut_done", m.n # 1, a = <<m.f, m.of[2]>>
        PROVE  a \in Claims(p)
    BY <2>3 DEF Claims
  <2>4. ASSUME NEW j \in coros'[Other(p)], j.f # 0, a = <<j.f, j.n>> PROVE a \in Claims(p)
    <3>1. PICK k \in coros[Other(p)] : k.f = j.f /\ k.n = j.n
      BY <2>4, Others
    <3> QED BY <2>4, <3>1 DEF Claims
  <2>5. \/ a \in futures'[p]
        \/ \E m \in Msgs(p)' : m.t = "ok_fut" /\ a = <<m.f, m.n>>
        \/ \E m \in Msgs(p)' : m.t = "fut_done" /\ m.n # 1 /\ a = <<m.f, m.of[2]>>
        \/ \E j \in coros'[Other(p)] : j.f # 0 /\ a = <<j.f, j.n>>
    BY DEF Claims, Other
  <2> QED BY <2>1, <2>2, <2>3, <2>4, <2>5
<1> QED BY <1>1 DEF FutureInv, Other

\* The wire after a send by one end.
LEMMA SentMsgs ==
    ASSUME TypeOK, NEW p \in Peers, NEW m \in Message, Put(p, m)
    PROVE  \A q \in Peers : \A x \in Msgs(q)' : x \in Msgs(q) \/ (q = Other(p) /\ x = m)
BY PutEffect DEF TypeOK

\* The wire after a read, or the end of the connection.
LEMMA ReadMsgs ==
    ASSUME TypeOK, NEW p \in Peers,
           Resolve(p) \/ ResolveFuture(p) \/ ReaderEof(p)
    PROVE  \A q \in Peers : \A x \in Msgs(q)' : x \in Msgs(q)
<1>1. CASE Resolve(p) \/ ResolveFuture(p)
  <2>1. wire[p] # <<>> /\ wire' = [wire EXCEPT ![p] = Tail(@)]
    BY <1>1 DEF Resolve, ResolveFuture, Read
  <2> QED BY <2>1, PopEffect DEF TypeOK
<1>2. CASE ReaderEof(p)
  <2>1. \A q \in Peers : wire'[q] = wire[q] \/ wire'[q] = <<>>
    BY <1>2 DEF ReaderEof, TypeOK
  <2> QED BY <2>1 DEF Msgs, Elems
<1> QED BY <1>1, <1>2

\* The wire after a call was taken: at most its refusal is new.
LEMMA DispatchMsgs ==
    ASSUME TypeOK, ServeInv, NEW p \in Peers, DispatchCall(p)
    PROVE  \A q \in Peers : \A x \in Msgs(q)' : x \in Msgs(q) \/ x.t = "err"
<1> DEFINE n == Head(wire[p]).n
           rest == [wire EXCEPT ![p] = Tail(@)]
           refusal == Msg("err", n, 0, NoCall)
<1>1. wire[p] # <<>> /\ wire[p] \in Seq(Message)
  BY DEF DispatchCall, Read, TypeOK
<1>2. Elems(Tail(wire[p])) \subseteq Msgs(p) /\ Tail(wire[p]) \in Seq(Message) /\ Head(wire[p]) \in Message
  BY <1>1, Popped DEF Msgs
<1>3. refusal \in Message /\ refusal.t = "err"
  <2>1. n \in Nat
    BY <1>2 DEF Message
  <2> QED BY <2>1, MsgTyped DEF Msg
<1>4. wire' = rest \/ wire' = [rest EXCEPT ![Other(p)] = Append(@, refusal)]
  BY DEF DispatchCall
<1> HIDE DEF n, refusal
<1>5. \A q \in Peers : rest[q] \in Seq(Message) /\ Elems(rest[q]) \subseteq Msgs(q)
  <2>1. \A q \in Peers : rest[q] = IF q = p THEN Tail(wire[p]) ELSE wire[q]
    BY DEF TypeOK
  <2> QED BY <1>2, <2>1 DEF Msgs, TypeOK
<1>6. rest \in [Peers -> Seq(Message)]
  BY <1>2 DEF TypeOK
<1> HIDE DEF rest
<1>7. ASSUME NEW q \in Peers PROVE wire'[q] = rest[q] \/ wire'[q] = Append(rest[q], refusal)
  BY <1>4, <1>6
<1>8. ASSUME NEW q \in Peers PROVE Elems(wire'[q]) \subseteq Msgs(q) \cup {refusal}
  BY <1>3, <1>5, <1>7, <1>8, Pushed
<1> QED BY <1>3, <1>8 DEF Msgs

\* Steps that give nobody a value and put none on the wire.
LEMMA SilentAnswers ==
    ASSUME TypeOK, AskInv, ServeInv, AnswerInv, NEW p \in Peers,
           \/ Call(p) \/ (\E n \in Asks(p) : SendCall(p, n))
           \/ DispatchCall(p) \/ ReaderEof(p) \/ FailPending(p)
           \/ \E w \in workers[p] : \/ Nest(p, w) \/ Unnest(p, w) \/ HandlerEnds(p, w)
                                    \/ HandlerIsAsync(p, w) \/ SendOkFut(p, w) \/ WorkerExits(p, w)
           \/ \E k \in coros[p] : CoroEnds(p, k)
           \/ Disconnect
    PROVE  AnswerInv'
<1> USE DEF callVars, readVars, workVars
<1>1. \A c \in Calls : phase[c] = "returned" => phase'[c] = "returned"
  <2>1. CASE \/ DispatchCall(p) \/ (\E w \in workers[p] : HandlerEnds(p, w))
             \/ (\E k \in coros[p] : CoroEnds(p, k))
    BY <2>1, PhaseGrows
  <2>2. CASE \/ Call(p) \/ (\E n \in Asks(p) : SendCall(p, n)) \/ ReaderEof(p) \/ FailPending(p)
             \/ \E w \in workers[p] : \/ Nest(p, w) \/ Unnest(p, w) \/ HandlerIsAsync(p, w)
                                      \/ SendOkFut(p, w) \/ WorkerExits(p, w)
             \/ Disconnect
    BY <2>2 DEF Call, SendCall, ReaderEof, FailPending, Nest, Unnest, HandlerIsAsync, SendOkFut,
                WorkerExits, Disconnect
  <2> QED BY <2>1, <2>2
<1>2. \A q \in Peers : \A x \in Msgs(q)' : x \in Msgs(q) \/ x.t \notin {"ok", "fut_done"}
  <2>1. CASE wire' = wire
    BY <2>1 DEF Msgs
  <2>2. ASSUME NEW n \in Asks(p), SendCall(p, n), wire' # wire
        PROVE  \A q \in Peers : \A x \in Msgs(q)' : x \in Msgs(q) \/ x.t \notin {"ok", "fut_done"}
    <3>1. Put(p, Msg("call", n, 0, NoCall)) /\ Msg("call", n, 0, NoCall) \in Message
      BY <2>2, CallIds, MsgTyped DEF SendCall
    <3> QED BY <3>1, SentMsgs DEF Msg
  <2>3. CASE DispatchCall(p)
    BY <2>3, DispatchMsgs
  <2>4. CASE ReaderEof(p)
    BY <2>4, ReadMsgs
  <2>5. ASSUME NEW w \in workers[p], SendOkFut(p, w)
        PROVE  \A q \in Peers : \A x \in Msgs(q)' : x \in Msgs(q) \/ x.t \notin {"ok", "fut_done"}
    <3>1. Put(p, Msg("ok_fut", w.n, NewFref(p), NoCall))
      BY <2>5 DEF SendOkFut
    <3>2. w.n \in Nat /\ NewFref(p) \in Nat
      BY ServedIds DEF ServeInv, Serves, NewFref, TypeOK
    <3>3. Msg("ok_fut", w.n, NewFref(p), NoCall) \in Message
      BY <3>2, MsgTyped
    <3> QED BY <3>1, <3>3, SentMsgs DEF Msg
  <2> QED BY <2>1, <2>2, <2>3, <2>4, <2>5 DEF Call, FailPending, Nest, Unnest, HandlerEnds,
             HandlerIsAsync, WorkerExits, CoroEnds, Disconnect
<1>3. \A c \in Calls : result'[c].s = "value" => result'[c] = result[c]
  <2>1. CASE result' = result
    BY <2>1
  <2>2. CASE Call(p) \/ \E w \in workers[p] : Nest(p, w)
    <3>1. PICK n \in Asks(p) : Register(p, n)
      BY <2>2 DEF Call, Nest, Asks
    <3>2. \A c \in Calls : result'[c] = result[c] \/ result'[c] = [s |-> "registered", of |-> NoCall]
      BY <3>1, RegisterEffect
    <3> QED BY <3>2
  <2>3. ASSUME NEW n \in Asks(p), SendCall(p, n)
        PROVE  \A c \in Calls : result'[c].s = "value" => result'[c] = result[c]
    <3>1. PICK s \in {"waiting", "raised"} : result' = SetResult(<<p, n>>, s, NoCall)
      BY <2>3 DEF SendCall
    <3>2. \A c \in Calls : result'[c] = result[c] \/ result'[c] = [s |-> s, of |-> NoCall]
      BY <3>1 DEF SetResult, TypeOK
    <3> QED BY <3>2
  <2>4. CASE FailPending(p)
    BY <2>4 DEF FailPending
  <2> QED BY <2>1, <2>2, <2>3, <2>4 DEF DispatchCall, ReaderEof, Unnest, HandlerEnds,
             HandlerIsAsync, SendOkFut, WorkerExits, CoroEnds, Disconnect
<1> QED BY <1>1, <1>2, <1>3, KeepsAnswers

\* The value a handler returned is sent as the answer to its call.
LEMMA SendingAnswers ==
    ASSUME TypeOK, AskInv, ServeInv, AnswerInv, NEW p \in Peers,
           (\E w \in workers[p] : SendOk(p, w)) \/ (\E k \in coros[p] : SendFutDone(p, k))
    PROVE  AnswerInv'
<1> USE DEF callVars, readVars, workVars
<1>1. phase' = phase /\ result' = result
  BY DEF SendOk, SendFutDone
<1>2. ASSUME NEW m \in Message, Put(p, m), TrueAnswer(Other(p), m) PROVE AnswerInv'
  <2>1. \A q \in Peers : \A x \in Msgs(q)' : x \in Msgs(q) \/ TrueAnswer(q, x)'
    BY <1>1, <1>2, SentMsgs DEF TrueAnswer
  <2> QED BY <1>1, <2>1, KeepsAnswers
<1>3. ASSUME NEW w \in workers[p], SendOk(p, w) PROVE AnswerInv'
  <2>1. /\ w.n \in Nat /\ Of(p, w.n) \in Calls /\ Other(p) \in Peers
        /\ w.stage = "reply" => phase[Of(p, w.n)] = "returned"
    BY ServedIds, Others DEF ServeInv, Serves
  <2>2. CASE w.stage = "reply"
    <3> DEFINE m == Msg("ok", w.n, 0, Of(p, w.n))
    <3>1. m \in Message /\ Put(p, m)
      BY <1>3, <2>1, <2>2, MsgTyped DEF SendOk, Of
    <3>2. TrueAnswer(Other(p), m)
      BY <2>1, <2>2 DEF TrueAnswer, Msg, Of
    <3> QED BY <1>2, <3>1, <3>2
  <2>3. CASE w.stage = "fail"
    <3> DEFINE m == Msg("err", w.n, 0, NoCall)
    <3>1. m \in Message /\ Put(p, m)
      BY <1>3, <2>1, <2>3, MsgTyped DEF SendOk
    <3>2. TrueAnswer(Other(p), m)
      BY DEF TrueAnswer, Msg
    <3> QED BY <1>2, <3>1, <3>2
  <2> QED BY <1>3, <2>2, <2>3 DEF SendOk
<1>4. ASSUME NEW k \in coros[p], SendFutDone(p, k) PROVE AnswerInv'
  <2>1. /\ k.f \in Nat /\ Of(p, k.n) \in Calls /\ Other(p) \in Peers
        /\ phase[Of(p, k.n)] \in {"returned", "raised"}
    BY <1>4, ServedIds, Others DEF ServeInv, Serves, TypeOK, Coro, SendFutDone
  <2>2. CASE phase[Of(p, k.n)] = "raised"
    <3> DEFINE m == Msg("fut_done", 1, k.f, NoCall)
    <3>1. m \in Message /\ Put(p, m)
      BY <1>4, <2>1, <2>2, MsgTyped DEF SendFutDone, Of
    <3>2. TrueAnswer(Other(p), m)
      BY DEF TrueAnswer, Msg
    <3> QED BY <1>2, <3>1, <3>2
  <2>3. CASE phase[Of(p, k.n)] = "returned"
    <3> DEFINE m == Msg("fut_done", 0, k.f, Of(p, k.n))
    <3>1. m \in Message /\ Put(p, m)
      BY <1>4, <2>1, <2>3, MsgTyped DEF SendFutDone, Of
    <3>2. TrueAnswer(Other(p), m)
      BY <2>1, <2>3 DEF TrueAnswer, Msg, Of
    <3> QED BY <1>2, <3>1, <3>2
  <2> QED BY <2>1, <2>2, <2>3
<1> QED BY <1>3, <1>4

\* What the reader gives to a caller is the value sent to it.
LEMMA TakingAnswers ==
    ASSUME TypeOK, AskInv, ServeInv, AnswerInv, FutureInv, NEW p \in Peers,
           Resolve(p) \/ ResolveFuture(p)
    PROVE  AnswerInv'
<1> USE DEF callVars, readVars, workVars
<1> DEFINE m == Head(wire[p])
<1>1. /\ phase' = phase /\ m \in Message /\ m \in Msgs(p) /\ TrueAnswer(p, m)
      /\ \A q \in Peers : \A x \in Msgs(q)' : x \in Msgs(q)
  <2>1. wire[p] # <<>> /\ wire' = [wire EXCEPT ![p] = Tail(@)] /\ phase' = phase
    BY DEF Resolve, ResolveFuture, Read
  <2> QED BY <2>1, PopEffect DEF TypeOK, AnswerInv
<1>2. ASSUME NEW n, NEW s \in Settled \cup {"remote"}, s = "value" => m.of = <<p, n>> /\ phase[m.of] = "returned",
             result' = SetResult(<<p, n>>, s, m.of)
      PROVE  AnswerInv'
  <2>1. \A c \in Calls : \/ result'[c] = result[c]
                         \/ c = <<p, n>> /\ result'[c] = [s |-> s, of |-> m.of]
    BY <1>2 DEF SetResult, TypeOK
  <2>2. \A c \in Calls : result'[c].s = "value" =>
          result'[c] = result[c] \/ (result'[c].of = c /\ phase'[c] = "returned")
    BY <1>1, <1>2, <2>1
  <2> QED BY <1>1, <2>2, KeepsAnswers
<1>3. CASE result' = result
  BY <1>1, <1>3, KeepsAnswers
<1>4. CASE Resolve(p)
  <2>1. m.t \in {"ok", "err", "ok_fut"}
    BY <1>4 DEF Resolve
  <2>2. CASE m.n \notin pending[p]
    BY <1>3, <1>4, <2>2 DEF Resolve
  <2>3. CASE m.n \in pending[p]
    <3>1. result' = SetResult(<<p, m.n>>, CASE m.t = "ok" -> "value" [] m.t = "err" -> "error"
                                            [] m.t = "ok_fut" -> "remote", m.of)
      BY <1>4, <2>3 DEF Resolve
    <3>2. PICK s \in Settled \cup {"remote"} :
            result' = SetResult(<<p, m.n>>, s, m.of) /\ (s = "value" => m.t = "ok")
      BY <2>1, <3>1 DEF Settled
    <3>3. s = "value" => m.of = <<p, m.n>> /\ phase[m.of] = "returned"
      BY <1>1, <3>2 DEF TrueAnswer
    <3> HIDE DEF m
    <3> QED BY <1>2, <3>2, <3>3
  <2> QED BY <2>2, <2>3
<1>5. CASE ResolveFuture(p)
  <2> DEFINE mine == {g \in futures[p] : g[1] = m.f}
             g == CHOOSE g \in mine : TRUE
  <2>1. m.t = "fut_done"
    BY <1>5 DEF ResolveFuture, Read
  <2>2. CASE mine = {}
    BY <1>3, <1>5, <2>2 DEF ResolveFuture
  <2>3. CASE mine # {}
    <3>1. g \in mine
      BY <2>3
    <3>2. result' = SetResult(<<p, g[2]>>, IF m.n = 1 THEN "error" ELSE "value", m.of)
      BY <1>5, <2>3 DEF ResolveFuture
    <3>3. g \in futures[p] /\ g[1] = m.f
      BY <3>1
    <3> HIDE DEF g, m
    <3>4. ASSUME m.n # 1 PROVE m.of = <<p, g[2]>> /\ phase[m.of] = "returned"
      <4>1. m.of = <<p, m.of[2]>> /\ phase[m.of] = "returned"
        BY <1>1, <2>1, <3>4 DEF TrueAnswer
      <4>2. <<m.f, m.of[2]>> \in Claims(p) /\ g \in Claims(p)
        BY <1>1, <2>1, <3>3, <3>4 DEF Claims
      <4>3. g[2] = m.of[2]
        BY <3>3, <4>2 DEF FutureInv
      <4> QED BY <4>1, <4>3
    <3>5. PICK s \in Settled : result' = SetResult(<<p, g[2]>>, s, m.of) /\ (s = "value" => m.n # 1)
      BY <3>2 DEF Settled
    <3> QED BY <1>2, <3>4, <3>5
  <2> QED BY <2>2, <2>3
<1> QED BY <1>4, <1>5

\* A new future takes an id nobody claims.
LEMMA NewFuture ==
    ASSUME TypeOK, ServeInv, FutureInv, NEW p \in Peers, NEW w \in workers[p], SendOkFut(p, w)
    PROVE  FutureInv'
<1> USE DEF callVars, readVars, workVars
<1> DEFINE f == NewFref(p)
           m == Msg("ok_fut", w.n, f, NoCall)
           q == Other(p)
<1>1. /\ nextFref' = [nextFref EXCEPT ![p] = f] /\ Put(p, m) /\ futures' = futures
      /\ coros' = [coros EXCEPT ![p] = {IF k.n = w.n THEN [k EXCEPT !.f = f] ELSE k : k \in @}]
  BY DEF SendOkFut
<1>2. f = nextFref[p] + 1 /\ nextFref[p] \in Nat /\ q \in Peers /\ Other(q) = p /\ q # p
  BY Others DEF NewFref, TypeOK
<1>3. m \in Message /\ m.t = "ok_fut" /\ m.n = w.n /\ m.f = f
  <2>1. w.n \in Nat /\ f \in Nat
    BY <1>2, ServedIds DEF ServeInv, Serves
  <2> QED BY <2>1, MsgTyped DEF Msg
<1>4. \A r \in Peers : \A x \in Msgs(r)' : x \in Msgs(r) \/ (r = q /\ x = m)
  BY <1>1, <1>3, SentMsgs
<1>5. \A j \in coros'[p] : (j.n = w.n /\ j.f = f) \/ j \in coros[p]
  <2>1. \A k \in coros[p] : k.n = w.n => [k EXCEPT !.f = f].n = w.n /\ [k EXCEPT !.f = f].f = f
    BY DEF TypeOK, Coro
  <2>2. coros'[p] = {IF k.n = w.n THEN [k EXCEPT !.f = f] ELSE k : k \in coros[p]}
    BY <1>1 DEF TypeOK
  <2> QED BY <2>1, <2>2
<1>6. coros'[q] = coros[q]
  BY <1>1, <1>2 DEF TypeOK
<1> HIDE DEF f, m
<1>7. ASSUME NEW r \in Peers, NEW a \in Claims(r)' PROVE a \in Claims(r) \/ (r = q /\ a = <<f, w.n>>)
  <2>1. \/ a \in futures'[r]
        \/ \E x \in Msgs(r)' : x.t = "ok_fut" /\ a = <<x.f, x.n>>
        \/ \E x \in Msgs(r)' : x.t = "fut_done" /\ x.n # 1 /\ a = <<x.f, x.of[2]>>
        \/ \E j \in coros'[Other(r)] : j.f # 0 /\ a = <<j.f, j.n>>
    BY DEF Claims, Other
  <2>2. CASE a \in futures'[r]
    BY <1>1, <2>2 DEF Claims
  <2>3. ASSUME NEW x \in Msgs(r)', x.t = "ok_fut", a = <<x.f, x.n>>
        PROVE  a \in Claims(r) \/ (r = q /\ a = <<f, w.n>>)
    BY <1>3, <1>4, <2>3 DEF Claims
  <2>4. ASSUME NEW x \in Msgs(r)', x.t = "fut_done", x.n # 1, a = <<x.f, x.of[2]>>
        PROVE  a \in Claims(r)
    BY <1>3, <1>4, <2>4 DEF Claims
  <2>5. ASSUME NEW j \in coros'[Other(r)], j.f # 0, a = <<j.f, j.n>>
        PROVE  a \in Claims(r) \/ (r = q /\ a = <<f, w.n>>)
    <3>1. CASE Other(r) = p
      <4>1. r = q
        BY <3>1, Others
      <4> QED BY <1>5, <2>5, <3>1, <4>1 DEF Claims
    <3>2. CASE Other(r) = q
      BY <1>6, <2>5, <3>2 DEF Claims
    <3> QED BY <3>1, <3>2, Others
  <2> QED BY <2>1, <2>2, <2>3, <2>4, <2>5
<1>8. \A r \in Peers : nextFref'[Other(r)] = IF r = q THEN f ELSE nextFref[Other(r)]
  BY <1>1, <1>2, Others DEF TypeOK
<1>9. \A r \in Peers : \A a \in Claims(r) : a[1] <= nextFref[Other(r)] /\ a[1] \in Nat
  <2>1. ASSUME NEW r \in Peers, NEW a \in Claims(r) PROVE a[1] \in Nat
    <3>1. CASE a \in futures[r]
      BY <3>1 DEF TypeOK
    <3>2. ASSUME NEW x \in Msgs(r), a = <<x.f, x.n>> \/ a = <<x.f, x.of[2]>> PROVE a[1] \in Nat
      <4>1. x \in Message
        BY DEF Msgs, Elems, TypeOK
      <4> QED BY <3>2, <4>1 DEF Message
    <3>3. ASSUME NEW j \in coros[Other(r)], a = <<j.f, j.n>> PROVE a[1] \in Nat
      BY <3>3, Others DEF TypeOK, Coro
    <3> QED BY <3>1, <3>2, <3>3 DEF Claims
  <2> QED BY <2>1 DEF FutureInv
<1>10. ASSUME NEW r \in Peers, NEW a \in Claims(r)'
       PROVE  /\ a[1] <= nextFref'[Other(r)]
              /\ \A b \in Claims(r)' : a[1] = b[1] => a[2] = b[2]
  BY <1>2, <1>7, <1>8, <1>9 DEF FutureInv
<1> QED BY <1>10 DEF FutureInv, Other

\* Every other step: an announcement goes from the message to the caller's table,
\* an end from the coroutine to the message.
LEMMA ClaimsKept ==
    ASSUME TypeOK, AskInv, ServeInv, FutureInv, NEW p \in Peers,
           \/ Call(p) \/ (\E n \in Asks(p) : SendCall(p, n))
           \/ DispatchCall(p) \/ Resolve(p) \/ ResolveFuture(p) \/ ReaderEof(p) \/ FailPending(p)
           \/ \E w \in workers[p] : \/ Nest(p, w) \/ Unnest(p, w) \/ HandlerEnds(p, w)
                                    \/ HandlerIsAsync(p, w) \/ SendOk(p, w) \/ WorkerExits(p, w)
           \/ \E k \in coros[p] : CoroEnds(p, k) \/ SendFutDone(p, k)
           \/ Disconnect
    PROVE  FutureInv'
<1> USE DEF callVars, readVars, workVars
<1>1. nextFref' = nextFref
  BY DEF Call, SendCall, DispatchCall, Resolve, ResolveFuture, ReaderEof, FailPending, Nest, Unnest,
         HandlerEnds, HandlerIsAsync, SendOk, WorkerExits, CoroEnds, SendFutDone, Disconnect
<1>2. ASSUME NEW q \in Peers, NEW g \in futures'[q] PROVE g \in Claims(q)
  <2>1. CASE futures' = futures
    BY <1>2, <2>1 DEF Claims
  <2>2. CASE ResolveFuture(p) \/ FailPending(p)
    <3>1. \A r \in Peers : futures'[r] \subseteq futures[r]
      BY <2>2 DEF ResolveFuture, FailPending, TypeOK
    <3> QED BY <1>2, <3>1 DEF Claims
  <2>3. CASE Resolve(p) /\ futures' # futures
    <3> DEFINE m == Head(wire[p])
    <3>1. /\ wire[p] # <<>> /\ m.t = "ok_fut"
          /\ futures' = [futures EXCEPT ![p] = {h \in @ : h[1] # m.f} \cup {<<m.f, m.n>>}]
      BY <2>3 DEF Resolve
    <3>2. m \in Msgs(p)
      BY <3>1, Popped DEF Msgs, TypeOK
    <3> HIDE DEF m
    <3>3. g \in futures[q] \/ (q = p /\ g = <<m.f, m.n>>)
      BY <1>2, <3>1 DEF TypeOK
    <3> QED BY <3>1, <3>2, <3>3 DEF Claims
  <2> QED BY <2>1, <2>2, <2>3 DEF Call, SendCall, DispatchCall, ReaderEof, Nest, Unnest,
             HandlerEnds, HandlerIsAsync, SendOk, WorkerExits, CoroEnds, SendFutDone, Disconnect
<1>3. ASSUME NEW q \in Peers, NEW x \in Msgs(q)'
      PROVE  \/ x \in Msgs(q)
             \/ /\ x.t # "ok_fut"
                /\ x.t = "fut_done" /\ x.n # 1 => <<x.f, x.of[2]>> \in Claims(q)
  <2> DEFINE Fine == \/ x \in Msgs(q)
                     \/ /\ x.t # "ok_fut"
                        /\ x.t = "fut_done" /\ x.n # 1 => <<x.f, x.of[2]>> \in Claims(q)
  <2>1. CASE wire' = wire
    BY <1>3, <2>1 DEF Msgs
  <2>2. ASSUME NEW n \in Asks(p), SendCall(p, n), wire' # wire PROVE Fine
    <3>1. Put(p, Msg("call", n, 0, NoCall)) /\ Msg("call", n, 0, NoCall) \in Message
      BY <2>2, CallIds, MsgTyped DEF SendCall
    <3> QED BY <1>3, <3>1, SentMsgs DEF Msg
  <2>3. CASE DispatchCall(p)
    BY <1>3, <2>3, DispatchMsgs
  <2>4. CASE Resolve(p) \/ ResolveFuture(p) \/ ReaderEof(p)
    BY <1>3, <2>4, ReadMsgs
  <2>5. ASSUME NEW w \in workers[p], SendOk(p, w) PROVE Fine
    <3>1. w.n \in Nat /\ Of(p, w.n) \in Calls
      BY ServedIds DEF ServeInv, Serves
    <3>2. \E m \in Message : Put(p, m) /\ m.t \in {"ok", "err"}
      <4>1. /\ Msg("ok", w.n, 0, Of(p, w.n)) \in Message /\ Msg("err", w.n, 0, NoCall) \in Message
            /\ Msg("ok", w.n, 0, Of(p, w.n)).t = "ok" /\ Msg("err", w.n, 0, NoCall).t = "err"
        BY <3>1, MsgTyped DEF Msg
      <4> QED BY <2>5, <4>1 DEF SendOk, Of
    <3> QED BY <1>3, <3>2, SentMsgs
  <2>6. ASSUME NEW k \in coros[p], SendFutDone(p, k) PROVE Fine
    <3>1. k.f \in Nat /\ k.f # 0 /\ Of(p, k.n) \in Calls
      BY <2>6, ServedIds DEF ServeInv, Serves, TypeOK, Coro, SendFutDone, Announced
    <3>2. <<k.f, k.n>> \in Claims(Other(p))
      <4>1. k \in coros[Other(Other(p))]
        BY Others
      <4> QED BY <3>1, <4>1 DEF Claims
    <3> DEFINE raised == Msg("fut_done", 1, k.f, NoCall)
               value == Msg("fut_done", 0, k.f, Of(p, k.n))
    <3>3. raised \in Message /\ value \in Message
      BY <3>1, MsgTyped
    <3>4. raised.n = 1 /\ raised.t = "fut_done" /\ value.t = "fut_done" /\ value.f = k.f /\ value.of[2] = k.n
      BY DEF Msg, Of
    <3>5. Put(p, raised) \/ Put(p, value)
      BY <2>6 DEF SendFutDone, Of
    <3> HIDE DEF raised, value
    <3>6. x \in Msgs(q) \/ (q = Other(p) /\ (x = raised \/ x = value))
      BY <1>3, <3>3, <3>5, SentMsgs
    <3> QED BY <3>2, <3>4, <3>6
  <2> QED BY <2>1, <2>2, <2>3, <2>4, <2>5, <2>6 DEF Call, FailPending, Nest, Unnest,
             HandlerEnds, HandlerIsAsync, WorkerExits, CoroEnds, Disconnect
<1>4. ASSUME NEW q \in Peers, NEW j \in coros'[q], j.f # 0
      PROVE  \E k \in coros[q] : k.f = j.f /\ k.n = j.n
  <2>1. CASE coros' = coros
    BY <1>4, <2>1
  <2>2. ASSUME NEW w \in workers[p], HandlerIsAsync(p, w)
        PROVE  \E k \in coros[q] : k.f = j.f /\ k.n = j.n
    <3>1. coros'[q] \subseteq coros[q] \cup {[n |-> w.n, f |-> 0, done |-> FALSE]}
      BY <2>2 DEF HandlerIsAsync, TypeOK
    <3> QED BY <1>4, <3>1
  <2>3. ASSUME NEW l \in coros[p], CoroEnds(p, l)
        PROVE  \E k \in coros[q] : k.f = j.f /\ k.n = j.n
    <3> DEFINE d == [l EXCEPT !.done = TRUE]
    <3>1. d.f = l.f /\ d.n = l.n
      BY DEF TypeOK, Coro
    <3>2. coros'[q] = IF q = p THEN (coros[q] \ {l}) \cup {d} ELSE coros[q]
      BY <2>3 DEF CoroEnds, TypeOK
    <3> HIDE DEF d
    <3> QED BY <1>4, <3>1, <3>2
  <2>4. ASSUME NEW l \in coros[p], SendFutDone(p, l)
        PROVE  \E k \in coros[q] : k.f = j.f /\ k.n = j.n
    <3>1. coros'[q] \subseteq coros[q]
      BY <2>4 DEF SendFutDone, TypeOK
    <3> QED BY <1>4, <3>1
  <2> QED BY <2>1, <2>2, <2>3, <2>4 DEF Call, SendCall, DispatchCall, Resolve, ResolveFuture,
             ReaderEof, FailPending, Nest, Unnest, HandlerEnds, SendOk, WorkerExits, Disconnect
<1> QED BY <1>1, <1>2, <1>3, <1>4, KeepsClaims

-----------------------------------------------------------------------------
(* The inductive invariant *)

IInv == TypeOK /\ AskInv /\ ServeInv /\ CapInv /\ AnswerInv /\ FutureInv

\* It holds when the channel opens.
LEMMA InitInv == Init => IInv
<1> SUFFICES ASSUME Init PROVE IInv
  OBVIOUS
<1> USE DEF Init
<1>1. TypeOK
  <2>1. [s |-> "none", of |-> NoCall] \in Result
    BY DEF Result
  <2>2. result \in [Calls -> Result]
    BY <2>1
  <2>3. wire \in [Peers -> Seq(Message)]
    OBVIOUS
  <2> QED BY <2>2, <2>3 DEF TypeOK
<1>2. AskInv
  <2>1. \A p \in Peers : \A n \in Asks(p) : n \in Nat /\ n > 0 /\ <<p, n>> \in Calls
    <3> SUFFICES ASSUME NEW p \in Peers, NEW n \in Asks(p) PROVE n > 0
      BY CallIds
    <3>1. MaxCalls[p] \in Nat
      BY BoundsAssumption
    <3> QED BY <3>1 DEF Asks
  <2> QED BY <2>1, BoundsAssumption DEF AskInv
<1>3. \A p \in Peers : OneCall(wire[p]) /\ Msgs(p) = {}
  BY DEF OneCall, Msgs, Elems
<1>4. ServeInv
  BY <1>3, ServedIds DEF ServeInv, Serves
<1>5. CapInv
  BY FS_EmptySet, BoundsAssumption DEF CapInv
<1>6. AnswerInv
  BY <1>3 DEF AnswerInv
<1>7. \A p \in Peers : Claims(p) = {}
  BY <1>3, Others DEF Claims
<1> QED BY <1>1, <1>2, <1>4, <1>5, <1>6, <1>7 DEF IInv, FutureInv

\* The actions, one of which is every step.
Actions(p) ==
    \/ Call(p) \/ (\E n \in Asks(p) : SendCall(p, n))
    \/ DispatchCall(p) \/ Resolve(p) \/ ResolveFuture(p) \/ ReaderEof(p) \/ FailPending(p)
    \/ \E w \in workers[p] :
        \/ Nest(p, w) \/ Unnest(p, w) \/ HandlerEnds(p, w) \/ HandlerIsAsync(p, w)
        \/ SendOk(p, w) \/ SendOkFut(p, w) \/ WorkerExits(p, w)
    \/ \E k \in coros[p] : CoroEnds(p, k) \/ SendFutDone(p, k)
    \/ Disconnect

\* No step has another name.
LEMMA StepIs == ASSUME Next PROVE \E p \in Peers : Actions(p)
<1>1. CASE Disconnect
  BY <1>1, PeersAssumption DEF Actions
<1>2. ASSUME NEW p \in Peers, Reader(p) \/ WorkerStep(p) PROVE Actions(p)
  BY <1>2 DEF Reader, WorkerStep, Actions, Asks
<1> QED BY <1>1, <1>2 DEF Next, Actions

\* It is inductive.
LEMMA NextInv == ASSUME IInv, [Next]_vars PROVE IInv'
<1> USE DEF IInv
<1>1. CASE UNCHANGED vars
  <2> USE <1>1 DEF vars, callVars, readVars, workVars
  <2>1. TypeOK' /\ AskInv' /\ CapInv'
    BY DEF TypeOK, AskInv, CapInv, Asks
  <2>2. ServeInv' /\ FutureInv' /\ AnswerInv'
    <3>1. MsgsKept /\ ThreadsKept /\ CorosKept /\ AsksKept /\ \A p \in Peers : Msgs(p)' = Msgs(p)
      BY Alone DEF Msgs
    <3>2. \A p \in Peers : \A g \in futures[p] : g \in Claims(p)
      BY DEF Claims
    <3> QED BY <3>1, <3>2, KeepsServing, KeepsClaims, KeepsAnswers
  <2> QED BY <2>1, <2>2
<1>2. ASSUME NEW p \in Peers, Call(p) \/ \E w \in workers[p] : Nest(p, w) PROVE IInv'
  <2>1. TypeOK' /\ AskInv'
    BY <1>2, CallTyped
  <2>2. ServeInv' /\ AnswerInv' /\ FutureInv'
    BY <1>2, QuietServes, SilentAnswers, ClaimsKept
  <2>3. CapInv'
    <3>1. CASE Call(p)
      BY <3>1 DEF Call, workVars, CapInv
    <3>2. ASSUME NEW w \in workers[p], Nest(p, w) PROVE CapInv'
      <4>1. PICK n \in 1..MaxCalls[p] :
              workers' = [workers EXCEPT ![p] = (@ \ {w}) \cup
                            {[w EXCEPT !.stage = "nested", !.sub = n]}]
        BY <3>2 DEF Nest
      <4> DEFINE v == [w EXCEPT !.stage = "nested", !.sub = n]
      <4>2. v.n = w.n /\ active' = active
        BY <3>2 DEF Nest, TypeOK, Worker
      <4>3. workers' = [workers EXCEPT ![p] = (@ \ {w}) \cup {v}]
        BY <4>1
      <4> HIDE DEF v
      <4> QED BY <4>2, <4>3, StepCaps
    <3> QED BY <1>2, <3>1, <3>2
  <2> QED BY <2>1, <2>2, <2>3
<1>3. ASSUME NEW p \in Peers, NEW n \in Asks(p), SendCall(p, n) PROVE IInv'
  <2>1. TypeOK' /\ AskInv' /\ ServeInv' /\ AnswerInv' /\ FutureInv'
    BY <1>3, SendCallTyped, SendCallServes, SilentAnswers, ClaimsKept
  <2>2. CapInv'
    BY <1>3 DEF SendCall, workVars, CapInv
  <2> QED BY <2>1, <2>2
<1>4. ASSUME NEW p \in Peers, DispatchCall(p) PROVE IInv'
  BY <1>4, DispatchTyped, DispatchServes, DispatchCaps, SilentAnswers, ClaimsKept
<1>5. ASSUME NEW p \in Peers, Resolve(p) \/ ResolveFuture(p) \/ ReaderEof(p) \/ FailPending(p)
      PROVE  IInv'
  <2>1. TypeOK' /\ AskInv' /\ ServeInv' /\ AnswerInv' /\ FutureInv'
    BY <1>5, AnswerTyped, QuietServes, SilentAnswers, TakingAnswers, ClaimsKept
  <2>2. CapInv'
    BY <1>5 DEF Resolve, ResolveFuture, ReaderEof, FailPending, workVars, CapInv
  <2> QED BY <2>1, <2>2
<1>6. ASSUME NEW p \in Peers, NEW w \in workers[p],
             \/ Unnest(p, w) \/ HandlerEnds(p, w) \/ HandlerIsAsync(p, w) \/ SendOk(p, w)
             \/ SendOkFut(p, w) \/ WorkerExits(p, w)
      PROVE  IInv'
  <2>1. TypeOK' /\ AskInv' /\ CapInv'
    BY <1>6, WorkerTyped
  <2>2. ServeInv'
    BY <1>6, QuietServes, HandlerServes
  <2>3. AnswerInv'
    BY <1>6, SilentAnswers, SendingAnswers
  <2>4. FutureInv'
    BY <1>6, ClaimsKept, NewFuture
  <2> QED BY <2>1, <2>2, <2>3, <2>4
<1>7. ASSUME NEW p \in Peers, NEW k \in coros[p], CoroEnds(p, k) \/ SendFutDone(p, k) PROVE IInv'
  <2>1. TypeOK' /\ AskInv' /\ CapInv' /\ FutureInv'
    BY <1>7, CoroTyped, ClaimsKept
  <2>2. ServeInv' /\ AnswerInv'
    BY <1>7, QuietServes, CoroServes, SilentAnswers, SendingAnswers
  <2> QED BY <2>1, <2>2
<1>8. ASSUME NEW p \in Peers, Disconnect PROVE IInv'
  <2>1. ServeInv' /\ AnswerInv' /\ FutureInv'
    BY <1>8, QuietServes, SilentAnswers, ClaimsKept
  <2>2. TypeOK' /\ AskInv' /\ CapInv'
    BY <1>8 DEF Disconnect, callVars, readVars, workVars, TypeOK, AskInv, CapInv, Asks
  <2> QED BY <2>1, <2>2
<1> QED BY <1>1, <1>2, <1>3, <1>4, <1>5, <1>6, <1>7, <1>8, StepIs DEF Actions

\* The invariant holds in every state of every behaviour.
LEMMA Inductive == Spec => []IInv
BY InitInv, NextInv, PTL DEF Spec

\* The number of worker threads of each end is what its counter says and never
\* above the cap: _dispatch_call counts and _run_call's `finally` discounts.
THEOREM WorkersSafe == Spec => []TypedAndCapped
<1>1. IInv => TypedAndCapped
  BY DEF IInv, CapInv, TypedAndCapped, WorkersCapped
<1> QED BY <1>1, Inductive, PTL

-----------------------------------------------------------------------------
(* The channel implements RpcCalls *)

\* The caller's view of a call.
LEMMA StatusIs ==
    ASSUME NEW c \in Calls
    PROVE  /\ result[c].s = "none" => Status(c) = "new"
           /\ result[c].s \in Open => Status(c) = "open"
           /\ result[c].s = "value" /\ result[c].of = c => Status(c) = "done"
           /\ result[c].s \in {"error", "raised"} => Status(c) = "failed"
BY DEF Status, Open

\* ... after a step.
LEMMA StatusBecomes ==
    ASSUME NEW c \in Calls
    PROVE  /\ result'[c].s = "none" => Status(c)' = "new"
           /\ result'[c].s \in Open => Status(c)' = "open"
           /\ result'[c].s = "value" /\ result'[c].of = c => Status(c)' = "done"
           /\ result'[c].s \in {"error", "raised"} => Status(c)' = "failed"
           /\ result'[c] = result[c] => Status(c)' = Status(c)
BY DEF Status, Open

View == [c \in Calls |-> Status(c)]
Promised == [Promise!Next]_<<View, phase>>

\* The caller of one call gets further, the handlers rest.
LEMMA OneMoves ==
    ASSUME TypeOK, NEW c \in Calls, NEW v, phase' = phase, \A d \in Calls \ {c} : result'[d] = result[d],
           result'[c] = v,
           \/ result[c].s = "none" /\ v.s \in Open
           \/ result[c].s \in Open /\ v.s \in Open \cup {"error", "raised"}
           \/ result[c].s \in Open /\ v.s = "value" /\ v.of = c /\ phase[c] = "returned"
           \/ v = result[c]
    PROVE  Promised
<1>1. View' = [View EXCEPT ![c] = Status(c)'] /\ View[c] = Status(c)
  <2>1. \A d \in Calls \ {c} : Status(d)' = Status(d)
    BY StatusBecomes
  <2> QED BY <2>1 DEF View
<1>2. CASE result[c].s = "none" /\ v.s \in Open
  <2>1. Promise!Issue(c)
    BY <1>1, <1>2, StatusIs, StatusBecomes DEF Promise!Issue, View
  <2> QED BY <2>1 DEF Promised, Promise!Next
<1>3. CASE result[c].s \in Open /\ v.s \in Open
  <2>1. View' = View
    BY <1>1, <1>3, StatusIs, StatusBecomes DEF View
  <2> QED BY <2>1 DEF Promised
<1>4. CASE result[c].s \in Open /\ v.s \in {"error", "raised"}
  <2>1. Status(c) = "open" /\ Status(c)' = "failed"
    BY <1>4, StatusIs, StatusBecomes
  <2>2. View' = [d \in Calls |-> IF d \in {c} THEN "failed" ELSE View[d]]
    BY <1>1, <2>1 DEF View
  <2>3. Promise!Fail({c})
    BY <1>1, <2>1, <2>2 DEF Promise!Fail, View
  <2>4. {c} \in SUBSET Calls
    OBVIOUS
  <2> QED BY <2>3, <2>4 DEF Promised, Promise!Next
<1>5. CASE result[c].s \in Open /\ v.s = "value" /\ v.of = c /\ phase[c] = "returned"
  <2>1. Promise!Complete(c)
    BY <1>1, <1>5, StatusIs, StatusBecomes DEF Promise!Complete, View
  <2> QED BY <2>1 DEF Promised, Promise!Next
<1>6. CASE v = result[c]
  <2>1. View' = View
    BY <1>1, <1>6, StatusBecomes DEF View
  <2> QED BY <2>1 DEF Promised
<1> QED BY <1>2, <1>3, <1>4, <1>5, <1>6

\* A handler gets further, the callers rest.
LEMMA OneRuns ==
    ASSUME TypeOK, NEW c \in Calls, result' = result, NEW end,
           phase' = [phase EXCEPT ![c] = end],
           \/ /\ phase[c] = "none" /\ end = "running"
              /\ result[c].s \in Open \cup {"error", "raised"}
           \/ phase[c] = "running" /\ end \in {"running", "returned", "raised"}
    PROVE  Promised
<1>1. View' = View
  BY StatusBecomes DEF View
<1>2. CASE phase[c] = "none" /\ end = "running" /\ result[c].s \in Open \cup {"error", "raised"}
  <2>1. View[c] \in {"open", "failed"}
    BY <1>2, StatusIs DEF View
  <2>2. Promise!Execute(c)
    BY <1>1, <1>2, <2>1 DEF Promise!Execute, View
  <2> QED BY <2>2 DEF Promised, Promise!Next
<1>3. CASE phase[c] = "running" /\ end \in {"returned", "raised"}
  <2>1. Promise!Finish(c)
    BY <1>1, <1>3 DEF Promise!Finish, View
  <2> QED BY <2>1 DEF Promised, Promise!Next
<1>4. CASE phase[c] = "running" /\ end = "running"
  <2>1. phase' = phase
    BY <1>4 DEF TypeOK
  <2> QED BY <1>1, <2>1 DEF Promised
<1> QED BY <1>2, <1>3, <1>4

\* Registering a call issues it; sending it moves nothing but a refusal.
LEMMA AskingRefines ==
    ASSUME IInv, NEW p \in Peers,
           \/ Call(p) \/ (\E n \in Asks(p) : SendCall(p, n)) \/ (\E w \in workers[p] : Nest(p, w))
    PROVE  Promised
<1> USE DEF callVars, readVars, workVars, IInv
<1>1. ASSUME NEW n \in Asks(p), Register(p, n), phase' = phase PROVE Promised
  <2> DEFINE v == [s |-> "registered", of |-> NoCall]
             c == <<p, n>>
  <2>1. /\ c \in Calls /\ result[c].s = "none" /\ result'[c] = v
        /\ \A d \in Calls \ {c} : result'[d] = result[d]
    BY <1>1, CallIds, RegisterEffect
  <2>2. v.s \in Open
    BY DEF Open
  <2> HIDE DEF v, c
  <2> QED BY <1>1, <2>1, <2>2, OneMoves
<1>2. ASSUME NEW n \in Asks(p), SendCall(p, n) PROVE Promised
  <2> DEFINE c == <<p, n>>
  <2>1. PICK s \in {"waiting", "raised"} : result' = SetResult(c, s, NoCall)
    BY <1>2 DEF SendCall
  <2>2. c \in Calls /\ result[c].s = "registered" /\ phase' = phase
    BY <1>2, CallIds DEF SendCall
  <2> DEFINE v == [s |-> s, of |-> NoCall]
  <2> HIDE DEF c
  <2>3. result'[c] = v /\ \A d \in Calls \ {c} : result'[d] = result[d]
    BY <2>1, <2>2 DEF SetResult, Settled, TypeOK
  <2>4. result[c].s \in Open /\ v.s \in Open \cup {"error", "raised"}
    BY <2>2 DEF Open
  <2> HIDE DEF v
  <2> QED BY <2>2, <2>3, <2>4, OneMoves
<1>3. CASE Call(p) \/ \E w \in workers[p] : Nest(p, w)
  <2>1. phase' = phase /\ \E n \in Asks(p) : Register(p, n)
    BY <1>3 DEF Call, Nest, Asks
  <2> QED BY <1>1, <2>1
<1> QED BY <1>2, <1>3

\* What the reader gives a caller.
LEMMA ReadingRefines ==
    ASSUME IInv, AnswerInv', NEW p \in Peers, Resolve(p) \/ ResolveFuture(p)
    PROVE  Promised
<1> USE DEF callVars, readVars, workVars, IInv
<1>1. ASSUME NEW n \in 1..nextId[p], NEW s \in {"value", "error", "remote"}, NEW of,
             result' = SetResult(<<p, n>>, s, of), phase' = phase
      PROVE  Promised
  <2> DEFINE c == <<p, n>>
             v == [s |-> s, of |-> of]
  <2>1. n \in Asks(p) /\ c \in Calls /\ result[c].s # "none"
    <3>1. nextId[p] <= MaxCalls[p] /\ nextId[p] \in Nat /\ MaxCalls[p] \in Nat
      BY BoundsAssumption DEF AskInv, TypeOK
    <3>2. n \in Asks(p)
      BY <3>1 DEF Asks
    <3> QED BY <3>1, <3>2, CallIds DEF AskInv
  <2> HIDE DEF c
  <2>2. /\ \A d \in Calls \ {c} : result'[d] = result[d]
        /\ result'[c] = IF result[c].s \in Settled THEN result[c] ELSE v
    BY <1>1, <2>1 DEF SetResult, TypeOK, c
  <2>3. CASE result[c].s \in Settled
    BY <1>1, <2>1, <2>2, <2>3, OneMoves
  <2>4. CASE result[c].s \notin Settled
    <3>1. result[c].s \in Open
      BY <2>1, <2>4 DEF TypeOK, Result
    <3>2. v.s = s /\ v.of = of /\ result'[c] = v
      BY <2>2, <2>4
    <3> HIDE DEF v
    <3>3. v.s = "value" => v.of = c /\ phase[c] = "returned"
      BY <1>1, <2>1, <3>2 DEF AnswerInv
    <3>4. v.s = "value" \/ v.s \in Open \cup {"error", "raised"}
      BY <3>2 DEF Open
    <3> QED BY <1>1, <2>1, <2>2, <3>1, <3>2, <3>3, <3>4, OneMoves
  <2> QED BY <2>3, <2>4
<1>2. CASE result' = result /\ phase' = phase
  <2>1. View' = View
    BY <1>2, StatusBecomes DEF View
  <2> QED BY <1>2, <2>1 DEF Promised
<1>3. CASE Resolve(p)
  <2> DEFINE m == Head(wire[p])
  <2>1. phase' = phase /\ m.t \in {"ok", "err", "ok_fut"}
    BY <1>3 DEF Resolve
  <2>2. CASE m.n \notin pending[p]
    BY <1>2, <1>3, <2>1, <2>2 DEF Resolve
  <2>3. CASE m.n \in pending[p]
    <3>1. m.n \in 1..nextId[p]
      BY <2>3 DEF AskInv
    <3>2. PICK s \in {"value", "error", "remote"} : result' = SetResult(<<p, m.n>>, s, m.of)
      BY <1>3, <2>1, <2>3 DEF Resolve
    <3> HIDE DEF m
    <3> QED BY <1>1, <2>1, <3>1, <3>2
  <2> QED BY <2>2, <2>3
<1>4. CASE ResolveFuture(p)
  <2> DEFINE m == Head(wire[p])
             mine == {g \in futures[p] : g[1] = m.f}
             g == CHOOSE g \in mine : TRUE
  <2>1. phase' = phase
    BY <1>4 DEF ResolveFuture
  <2>2. CASE mine = {}
    BY <1>2, <1>4, <2>1, <2>2 DEF ResolveFuture
  <2>3. CASE mine # {}
    <3>1. g \in futures[p]
      BY <2>3
    <3>2. PICK s \in {"value", "error", "remote"} : result' = SetResult(<<p, g[2]>>, s, m.of)
      BY <1>4, <2>3 DEF ResolveFuture
    <3> HIDE DEF g, m
    <3>3. g[2] \in 1..nextId[p]
      BY <3>1 DEF AskInv
    <3> QED BY <1>1, <2>1, <3>2, <3>3
  <2> QED BY <2>2, <2>3
<1> QED BY <1>3, <1>4

\* The end of the connection fails what is open.
LEMMA FailingRefines ==
    ASSUME IInv, NEW p \in Peers, FailPending(p)
    PROVE  Promised
<1> USE DEF callVars, readVars, workVars, IInv
<1> DEFINE lost == {<<p, n>> : n \in doomed[p]} \cup {<<p, g[2]>> : g \in futures[p]}
           S == {c \in Calls : c \in lost /\ result[c].s \notin Settled}
<1>1. /\ phase' = phase
      /\ result' = [c \in Calls |-> IF c \in lost /\ result[c].s \notin Settled
                                    THEN [s |-> "error", of |-> NoCall] ELSE result[c]]
  BY DEF FailPending
<1>2. \A c \in lost : c \in Calls => result[c].s # "none"
  <2> SUFFICES ASSUME NEW n \in 1..nextId[p], <<p, n>> \in Calls PROVE result[<<p, n>>].s # "none"
    BY DEF AskInv
  <2>1. nextId[p] <= MaxCalls[p] /\ nextId[p] \in Nat /\ MaxCalls[p] \in Nat
    BY BoundsAssumption DEF AskInv, TypeOK
  <2>2. n \in Asks(p) /\ ~(n > nextId[p])
    BY <2>1 DEF Asks
  <2> QED BY <2>2 DEF AskInv
<1> HIDE DEF lost
<1>3. \A c \in S : c \in Calls /\ Status(c) = "open" /\ Status(c)' = "failed"
  <2>1. \A c \in S : c \in Calls /\ result[c].s \in Open /\ result'[c].s = "error"
    BY <1>1, <1>2 DEF TypeOK, Result
  <2> QED BY <2>1, StatusIs, StatusBecomes
<1>4. \A c \in Calls \ S : Status(c)' = Status(c)
  BY <1>1, StatusBecomes
<1> HIDE DEF S
<1>5. Promise!Fail(S)
  BY <1>1, <1>3, <1>4 DEF Promise!Fail, View
<1>6. S \in SUBSET Calls
  BY <1>3
<1> QED BY <1>5, <1>6 DEF Promised, Promise!Next

\* The start and the end of a handler.
LEMMA HandlingRefines ==
    ASSUME IInv, NEW p \in Peers,
           \/ DispatchCall(p) \/ (\E w \in workers[p] : HandlerEnds(p, w))
           \/ (\E k \in coros[p] : CoroEnds(p, k))
    PROVE  Promised
<1> USE DEF callVars, readVars, workVars, IInv
<1>1. result' = result
  BY DEF DispatchCall, HandlerEnds, CoroEnds
<1>2. CASE DispatchCall(p)
  <2> DEFINE n == Head(wire[p]).n
             c == Of(p, n)
  <2>1. wire[p] # <<>> /\ Head(wire[p]).t = "call"
    BY <1>2 DEF DispatchCall, Read
  <2>2. Head(wire[p]) \in Msgs(p)
    BY <2>1, Popped DEF Msgs, TypeOK
  <2>3. c \in Calls /\ phase[c] = "none" /\ result[c].s \notin {"none", "registered"}
    BY <2>1, <2>2, ServedIds DEF ServeInv, Serves
  <2>4. phase' = phase \/ phase' = [phase EXCEPT ![c] = "running"]
    BY <1>2 DEF DispatchCall, Of
  <2> HIDE DEF c
  <2>5. result[c].s \in Open \cup {"error", "raised"}
    BY <2>3 DEF AnswerInv, TypeOK, Result, Settled
  <2>6. CASE phase' = phase
    <3>1. View' = View
      BY <1>1, StatusBecomes DEF View
    <3> QED BY <2>6, <3>1 DEF Promised
  <2> QED BY <1>1, <2>3, <2>4, <2>5, <2>6, OneRuns
<1>3. ASSUME NEW w \in workers[p], HandlerEnds(p, w) PROVE Promised
  <2>1. Of(p, w.n) \in Calls /\ phase[Of(p, w.n)] = "running"
    BY <1>3, ServedIds DEF HandlerEnds, ServeInv, Serves
  <2>2. \E end \in {"returned", "raised"} : phase' = [phase EXCEPT ![Of(p, w.n)] = end]
    BY <1>3 DEF HandlerEnds, Of
  <2> QED BY <1>1, <2>1, <2>2, OneRuns
<1>4. ASSUME NEW k \in coros[p], CoroEnds(p, k) PROVE Promised
  <2>1. Of(p, k.n) \in Calls /\ phase[Of(p, k.n)] = "running"
    BY <1>4, ServedIds DEF CoroEnds, ServeInv, Serves
  <2>2. \E end \in {"returned", "raised"} : phase' = [phase EXCEPT ![Of(p, k.n)] = end]
    BY <1>4 DEF CoroEnds, Of
  <2> QED BY <1>1, <2>1, <2>2, OneRuns
<1> QED BY <1>2, <1>3, <1>4

\* Every step is one of RpcCalls or leaves its variables alone.
LEMMA StepRefines == ASSUME IInv, IInv', [Next]_vars PROVE Promised
<1> USE DEF callVars, readVars, workVars
<1>1. CASE UNCHANGED <<result, phase>>
  <2>1. View' = View
    BY <1>1, StatusBecomes DEF View
  <2> QED BY <1>1, <2>1 DEF Promised
<1>2. CASE Next
  <2>1. PICK p \in Peers : Actions(p)
    BY <1>2, StepIs
  <2>2. CASE \/ Call(p) \/ (\E n \in Asks(p) : SendCall(p, n)) \/ (\E w \in workers[p] : Nest(p, w))
    BY <2>2, AskingRefines
  <2>3. CASE Resolve(p) \/ ResolveFuture(p)
    BY <2>3, ReadingRefines DEF IInv
  <2>4. CASE FailPending(p)
    BY <2>4, FailingRefines
  <2>5. CASE \/ DispatchCall(p) \/ (\E w \in workers[p] : HandlerEnds(p, w))
             \/ (\E k \in coros[p] : CoroEnds(p, k))
    BY <2>5, HandlingRefines
  <2>6. CASE \/ ReaderEof(p) \/ Disconnect
             \/ \E w \in workers[p] : \/ Unnest(p, w) \/ HandlerIsAsync(p, w) \/ SendOk(p, w)
                                      \/ SendOkFut(p, w) \/ WorkerExits(p, w)
             \/ \E k \in coros[p] : SendFutDone(p, k)
    <3>1. UNCHANGED <<result, phase>>
      BY <2>6 DEF ReaderEof, Disconnect, Unnest, HandlerIsAsync, SendOk, SendOkFut, WorkerExits, SendFutDone
    <3> QED BY <1>1, <3>1
  <2> QED BY <2>1, <2>2, <2>3, <2>4, <2>5, <2>6 DEF Actions
<1> QED BY <1>1, <1>2 DEF vars

\* A handler runs at most once for a call, a value is the one that run returned
\* and comes after it, and a settled call stays as it is: rpc.py's channel is an
\* implementation of RpcCalls, over any interleaving of its threads, any nesting
\* of calls and a connection that breaks anywhere.
THEOREM ChannelKeepsPromise == Spec => ImplementsRpcCalls
<1>1. Init => Promise!Init
  <2>1. Init => \A c \in Calls : Status(c) = "new"
    BY StatusIs DEF Init
  <2> QED BY <2>1 DEF Promise!Init, Init
<1>2. IInv /\ IInv' /\ [Next]_vars => [Promise!Next]_<<[c \in Calls |-> Status(c)], phase>>
  BY StepRefines DEF Promised, View
<1> QED BY <1>1, <1>2, Inductive, PTL DEF Spec, ImplementsRpcCalls, Promise!Spec
=============================================================================
