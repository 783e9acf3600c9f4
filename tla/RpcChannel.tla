----------------------------- MODULE RpcChannel -----------------------------
(***************************************************************************)
(* The bidirectional RPC of container_lib/rpc.py between the host and a    *)
(* script in its sandbox: two Channels joined by a connection that keeps   *)
(* the order and may break.  On each side run a reader thread, one daemon  *)
(* worker thread per incoming call, the coroutines of async handlers, and  *)
(* any thread that makes calls, a handler's thread included.               *)
(***************************************************************************)
EXTENDS Naturals, Sequences, FiniteSets

CONSTANTS
    Peers,       \* the two ends of the channel
    Silent,      \* the ends whose writeline ignores a closed connection
    Callers,     \* the ends where a thread of its own makes calls; handlers may anywhere
    MaxWorkers,  \* Channel._max_workers
    MaxCalls     \* bound: calls made by each end

ASSUME PeersAssumption ==
    /\ \E p, q \in Peers : p # q /\ Peers = {p, q}
    /\ Silent \subseteq Peers /\ Callers \subseteq Peers
ASSUME BoundsAssumption == MaxWorkers \in Nat \ {0} /\ MaxCalls \in [Peers -> Nat]

VARIABLES
    up,        \* the connection is open
    wire,      \* the messages under way to each end
    reader,    \* the reader thread: "run", "failing", "down"
    doomed,    \* the list(self._pending.values()) a failing reader works on
    nextId,    \* Channel._next_id
    pending,   \* Channel._pending
    futures,   \* Channel._futures: the future's id and the call it belongs to
    result,    \* what each call's caller has: a state and the value's origin
    nextFref,  \* Channel._next_fref
    workers,   \* worker threads: the call, the stage, the call it makes itself
    active,    \* Channel._active
    coros,     \* async handlers: the call, the future's id once announced
    phase      \* what happened to the handler of each call

callVars == <<nextId, pending, result>>
readVars == <<reader, doomed, futures>>
workVars == <<nextFref, workers, active, coros, phase>>
vars == <<up, wire, callVars, readVars, workVars>>

Other(p) == CHOOSE q \in Peers : q # p
Calls == UNION {{p} \X (1..MaxCalls[p]) : p \in Peers}
Nums == UNION {1..MaxCalls[p] : p \in Peers}
NoCall == <<>>
Open == {"registered", "waiting", "remote"}
Settled == {"value", "error", "raised"}
Result == [s : {"none"} \cup Open \cup Settled, of : Calls \cup {NoCall}]
Worker == [n : Nums, stage : {"run", "nested", "reply", "fail", "announce", "exit"},
           sub : Nat]
Coro == [n : Nums, f : Nat, done : BOOLEAN]
Message == [t : {"call", "ok", "err", "ok_fut", "fut_done"}, n : Nat, f : Nat,
            of : Calls \cup {NoCall}]

TypeOK ==
    /\ up \in BOOLEAN
    /\ wire \in [Peers -> Seq(Message)]
    /\ reader \in [Peers -> {"run", "failing", "down"}]
    /\ doomed \in [Peers -> SUBSET Nums] /\ pending \in [Peers -> SUBSET Nums]
    /\ nextId \in [Peers -> Nat] /\ nextFref \in [Peers -> Nat]
    /\ futures \in [Peers -> SUBSET (Nat \X Nums)]
    /\ result \in [Calls -> Result]
    /\ workers \in [Peers -> SUBSET Worker] /\ active \in [Peers -> Nat]
    /\ coros \in [Peers -> SUBSET Coro]
    /\ phase \in [Calls -> {"none", "running", "returned", "raised"}]

Init ==
    /\ up = TRUE
    /\ wire = [p \in Peers |-> <<>>]
    /\ reader = [p \in Peers |-> "run"]
    /\ doomed = [p \in Peers |-> {}] /\ pending = [p \in Peers |-> {}]
    /\ nextId = [p \in Peers |-> 0] /\ nextFref = [p \in Peers |-> 0]
    /\ futures = [p \in Peers |-> {}]
    /\ result = [c \in Calls |-> [s |-> "none", of |-> NoCall]]
    /\ workers = [p \in Peers |-> {}] /\ active = [p \in Peers |-> 0]
    /\ coros = [p \in Peers |-> {}]
    /\ phase = [c \in Calls |-> "none"]

-----------------------------------------------------------------------------
(* Helpers *)

Msg(t, n, f, of) == [t |-> t, n |-> n, f |-> f, of |-> of]

\* _send by end p: on a broken connection the message goes nowhere.
Put(p, m) == wire' = IF up THEN [wire EXCEPT ![Other(p)] = Append(@, m)] ELSE wire

\* On a broken connection a writeline that is not silent may raise, and it does
\* once the reader has seen the end.
SendRaises(p) == ~up /\ p \notin Silent

SetResult(c, s, of) == [result EXCEPT ![c] = IF @.s \in Settled THEN @ ELSE [s |-> s, of |-> of]]

Worker0(n) == [n |-> n, stage |-> "run", sub |-> 0]
Step(p, w, stage) == workers' = [workers EXCEPT ![p] = (@ \ {w}) \cup {[w EXCEPT !.stage = stage]}]

-----------------------------------------------------------------------------
(* Making a call: Channel.call, from any thread *)

\* The call's id and its entry in _pending; the message follows in another step.
Register(p, n) ==
    /\ n = nextId[p] + 1 /\ n <= MaxCalls[p]
    /\ nextId' = [nextId EXCEPT ![p] = n]
    /\ pending' = [pending EXCEPT ![p] = @ \cup {n}]
    /\ result' = SetResult(<<p, n>>, "registered", NoCall)

Call(p) ==
    /\ p \in Callers
    /\ \E n \in 1..MaxCalls[p] : Register(p, n)
    /\ UNCHANGED <<up, wire, readVars, workVars>>

SendCall(p, n) ==
    /\ result[<<p, n>>].s = "registered"
    /\ \/ /\ Put(p, Msg("call", n, 0, NoCall))
          /\ ~(SendRaises(p) /\ reader[p] # "run")
          /\ result' = SetResult(<<p, n>>, "waiting", NoCall)
       \/ /\ SendRaises(p)
          /\ result' = SetResult(<<p, n>>, "raised", NoCall)
          /\ UNCHANGED wire
    /\ UNCHANGED <<up, nextId, pending, readVars, workVars>>

-----------------------------------------------------------------------------
(* The reader thread: _reader, _dispatch_call, _resolve, _resolve_future *)

Read(p, t) == reader[p] = "run" /\ wire[p] # <<>> /\ Head(wire[p]).t = t

\* A call takes a worker thread, or is refused when max_workers are busy, or
\* its target does not exist or is not allowed.
DispatchCall(p) ==
    /\ Read(p, "call")
    /\ LET n == Head(wire[p]).n
           rest == [wire EXCEPT ![p] = Tail(@)]
           refusal == Msg("err", n, 0, NoCall)
       IN  \/ /\ active[p] < MaxWorkers
              /\ active' = [active EXCEPT ![p] = @ + 1]
              /\ workers' = [workers EXCEPT ![p] = @ \cup {Worker0(n)}]
              /\ phase' = [phase EXCEPT ![<<Other(p), n>>] = "running"]
              /\ wire' = rest
           \/ /\ wire' = IF up THEN [rest EXCEPT ![Other(p)] = Append(@, refusal)] ELSE rest
              /\ UNCHANGED <<active, workers, phase>>
    /\ UNCHANGED <<up, callVars, readVars, nextFref, coros>>

\* The first reply: the value, an error, or the id of a future.
Resolve(p) ==
    /\ reader[p] = "run" /\ wire[p] # <<>>
    /\ LET m == Head(wire[p]) IN
        /\ m.t \in {"ok", "err", "ok_fut"}
        /\ IF m.n \notin pending[p] THEN UNCHANGED <<pending, result, futures>>
           ELSE /\ pending' = [pending EXCEPT ![p] = @ \ {m.n}]
                /\ futures' = IF m.t = "ok_fut"
                              THEN [futures EXCEPT ![p] = {g \in @ : g[1] # m.f} \cup {<<m.f, m.n>>}]
                              ELSE futures
                /\ result' = SetResult(<<p, m.n>>,
                                 CASE m.t = "ok" -> "value" [] m.t = "err" -> "error"
                                   [] m.t = "ok_fut" -> "remote", m.of)
        /\ wire' = [wire EXCEPT ![p] = Tail(@)]
    /\ UNCHANGED <<up, nextId, reader, doomed, workVars>>

\* The final value of an async handler; n = 1 says that it raised.
ResolveFuture(p) ==
    /\ Read(p, "fut_done")
    /\ LET m == Head(wire[p])
           mine == {g \in futures[p] : g[1] = m.f}
       IN  /\ futures' = [futures EXCEPT ![p] = @ \ mine]
           /\ result' = IF mine = {} THEN result
                        ELSE LET g == CHOOSE g \in mine : TRUE IN
                             SetResult(<<p, g[2]>>, IF m.n = 1 THEN "error" ELSE "value", m.of)
    /\ wire' = [wire EXCEPT ![p] = Tail(@)]
    /\ UNCHANGED <<up, nextId, pending, reader, doomed, workVars>>

\* Wrong variant: the reader returns without failing what is pending.
ReaderEofSilent(p) ==
    /\ reader[p] = "run" /\ ~up
    /\ reader' = [reader EXCEPT ![p] = "down"]
    /\ wire' = [wire EXCEPT ![p] = <<>>]
    /\ UNCHANGED <<up, callVars, doomed, futures, workVars>>

\* The end of the connection: _fail_pending first copies the pending calls ...
ReaderEof(p) ==
    /\ reader[p] = "run" /\ ~up
    /\ reader' = [reader EXCEPT ![p] = "failing"]
    /\ wire' = [wire EXCEPT ![p] = <<>>]
    /\ doomed' = [doomed EXCEPT ![p] = pending[p]]
    /\ UNCHANGED <<up, callVars, futures, workVars>>

\* ... fails those, clears the table, and does the same to the futures.
FailPending(p) ==
    /\ reader[p] = "failing"
    /\ LET lost == {<<p, n>> : n \in doomed[p]} \cup {<<p, g[2]>> : g \in futures[p]} IN
       result' = [c \in Calls |-> IF c \in lost /\ result[c].s \notin Settled
                                  THEN [s |-> "error", of |-> NoCall] ELSE result[c]]
    /\ reader' = [reader EXCEPT ![p] = "down"]
    /\ doomed' = [doomed EXCEPT ![p] = {}]
    /\ pending' = [pending EXCEPT ![p] = {}]
    /\ futures' = [futures EXCEPT ![p] = {}]
    /\ UNCHANGED <<up, wire, nextId, workVars>>

-----------------------------------------------------------------------------
(* The worker thread of one call: run, _run_call, _send_ok *)

\* The handler makes a call of its own and blocks on it.
Nest(p, w) ==
    /\ w.stage = "run" /\ w.sub = 0
    /\ \E n \in 1..MaxCalls[p] :
        /\ Register(p, n)
        /\ workers' = [workers EXCEPT ![p] = (@ \ {w}) \cup
                          {[w EXCEPT !.stage = "nested", !.sub = n]}]
    /\ UNCHANGED <<up, wire, readVars, nextFref, active, coros, phase>>

Unnest(p, w) ==
    /\ w.stage = "nested" /\ result[<<p, w.sub>>].s \in Settled
    /\ Step(p, w, "run")
    /\ UNCHANGED <<up, wire, callVars, readVars, nextFref, active, coros, phase>>

\* Wrong variant: a handler that raises takes its thread down before `finally`.
HandlerEndsBare(p, w) ==
    /\ w.stage = "run"
    /\ \/ /\ phase' = [phase EXCEPT ![<<Other(p), w.n>>] = "returned"]
          /\ Step(p, w, "reply")
       \/ /\ phase' = [phase EXCEPT ![<<Other(p), w.n>>] = "raised"]
          /\ workers' = [workers EXCEPT ![p] = @ \ {w}]
    /\ UNCHANGED <<up, wire, callVars, readVars, nextFref, active, coros>>

\* A sync handler returns or raises.
HandlerEnds(p, w) ==
    /\ w.stage = "run"
    /\ \E end \in {"returned", "raised"} :
        /\ phase' = [phase EXCEPT ![<<Other(p), w.n>>] = end]
        /\ Step(p, w, IF end = "returned" THEN "reply" ELSE "fail")
    /\ UNCHANGED <<up, wire, callVars, readVars, nextFref, active, coros>>

\* An async handler: its coroutine is scheduled and the worker goes on to
\* announce a future.
HandlerIsAsync(p, w) ==
    /\ w.stage = "run"
    /\ coros' = [coros EXCEPT ![p] = @ \cup {[n |-> w.n, f |-> 0, done |-> FALSE]}]
    /\ Step(p, w, "announce")
    /\ UNCHANGED <<up, wire, callVars, readVars, nextFref, active, phase>>

\* Wrong variant: an exception is sent without the thread's bookkeeping stage.
SendOkStuck(p, w) ==
    /\ w.stage \in {"reply", "fail"}
    /\ Put(p, IF w.stage = "reply" THEN Msg("ok", w.n, 0, <<Other(p), w.n>>)
              ELSE Msg("err", w.n, 0, NoCall))
    /\ Step(p, w, "sent")
    /\ UNCHANGED <<up, callVars, readVars, nextFref, active, coros, phase>>

SendOk(p, w) ==
    /\ w.stage \in {"reply", "fail"}
    /\ Put(p, IF w.stage = "reply" THEN Msg("ok", w.n, 0, <<Other(p), w.n>>)
              ELSE Msg("err", w.n, 0, NoCall))
    /\ Step(p, w, "exit")
    /\ UNCHANGED <<up, callVars, readVars, nextFref, active, coros, phase>>

\* Wrong variant: the counter of future ids does not move.
SameFref(p) == 1

NewFref(p) == nextFref[p] + 1

SendOkFut(p, w) ==
    /\ w.stage = "announce"
    /\ LET f == NewFref(p) IN
        /\ nextFref' = [nextFref EXCEPT ![p] = f]
        /\ coros' = [coros EXCEPT ![p] = {IF k.n = w.n THEN [k EXCEPT !.f = f] ELSE k : k \in @}]
        /\ Put(p, Msg("ok_fut", w.n, f, NoCall))
    /\ Step(p, w, "exit")
    /\ UNCHANGED <<up, callVars, readVars, active, phase>>

WorkerExits(p, w) ==
    /\ w.stage = "exit"
    /\ workers' = [workers EXCEPT ![p] = @ \ {w}]
    /\ active' = [active EXCEPT ![p] = @ - 1]
    /\ UNCHANGED <<up, wire, callVars, readVars, nextFref, coros, phase>>

-----------------------------------------------------------------------------
(* The coroutine of an async handler *)

CoroEnds(p, k) ==
    /\ ~k.done
    /\ coros' = [coros EXCEPT ![p] = (@ \ {k}) \cup {[k EXCEPT !.done = TRUE]}]
    /\ \E end \in {"returned", "raised"} : phase' = [phase EXCEPT ![<<Other(p), k.n>>] = end]
    /\ UNCHANGED <<up, wire, callVars, readVars, nextFref, workers, active>>

\* The done-callback is added after ok_fut was sent.
Announced(k) == k.f # 0

SendFutDone(p, k) ==
    /\ k.done /\ Announced(k)
    /\ LET c == <<Other(p), k.n>> IN
       Put(p, IF phase[c] = "raised" THEN Msg("fut_done", 1, k.f, NoCall)
              ELSE Msg("fut_done", 0, k.f, c))
    /\ coros' = [coros EXCEPT ![p] = @ \ {k}]
    /\ UNCHANGED <<up, callVars, readVars, nextFref, workers, active, phase>>

-----------------------------------------------------------------------------
(* The connection *)

\* It breaks.  A reader may still get what had arrived before it sees the end;
\* the rest is lost (ReaderEof).
Disconnect ==
    /\ up /\ up' = FALSE
    /\ UNCHANGED <<wire, callVars, readVars, workVars>>

-----------------------------------------------------------------------------

Reader(p) ==
    DispatchCall(p) \/ Resolve(p) \/ ResolveFuture(p) \/ ReaderEof(p) \/ FailPending(p)

WorkerStep(p) ==
    \/ \E n \in 1..MaxCalls[p] : SendCall(p, n)
    \/ \E w \in workers[p] :
        \/ Unnest(p, w) \/ HandlerEnds(p, w) \/ HandlerIsAsync(p, w) \/ SendOk(p, w)
        \/ SendOkFut(p, w) \/ WorkerExits(p, w)
    \/ \E k \in coros[p] : CoroEnds(p, k) \/ SendFutDone(p, k)

Next ==
    \/ \E p \in Peers :
        \/ Call(p) \/ Reader(p) \/ WorkerStep(p)
        \/ \E w \in workers[p] : Nest(p, w)
    \/ Disconnect

\* Threads run, handlers end.  Nobody has to make a call or break the connection.
Fairness == \A p \in Peers : WF_vars(Reader(p)) /\ WF_vars(WorkerStep(p))

Spec == Init /\ [][Next]_vars /\ Fairness

-----------------------------------------------------------------------------
(* Properties *)

\* The caller's view of a call, for the abstract specification; a value that
\* another call's handler returned would be none of its states.
Status(c) ==
    CASE result[c].s = "none" -> "new"
      [] result[c].s \in Open -> "open"
      [] result[c].s = "value" -> IF result[c].of = c THEN "done" ELSE "mixed up"
      [] OTHER -> "failed"

Promise == INSTANCE RpcCalls WITH
    status <- [c \in Calls |-> Status(c)],
    handler <- phase

\* The channel keeps what RpcCalls promises: at most one run of the handler for
\* a call, the value of that run, no answer before it, no second answer.
ImplementsRpcCalls == Promise!Spec

\* The number of worker threads is what _active says and never above the cap,
\* whatever handlers raise and wherever the connection breaks.
WorkersCapped ==
    \A p \in Peers : active[p] = Cardinality(workers[p]) /\ active[p] <= MaxWorkers

\* The values have their types, and the worker threads are counted and capped.
TypedAndCapped == TypeOK /\ WorkersCapped

\* A call ends for its caller: with a value, an error of the handler, a refusal,
\* or the error of the closed channel, nested calls and a broken connection
\* included.  It is not so for an end whose writeline is silent.
CallsSettle ==
    \A p \in Peers \ Silent : \A n \in 1..MaxCalls[p] :
        result[<<p, n>>].s \in Open ~> result[<<p, n>>].s \in Settled
=============================================================================
