---------------------- MODULE ObservationalMemoryProofs -----------------------
(***************************************************************************)
(* Type correctness of ObservationalMemory, mutual exclusion of the        *)
(* consolidations of a directory, and from it that no interleaving makes   *)
(* LOG.md and its history forget a turn.  Then what becomes of the turns:  *)
(* none falls out of the pipeline from the pending list over the snapshot of *)
(* a consolidation to LOG.md, none is observed twice, and no tool reply    *)
(* loses its call.                                                         *)
(***************************************************************************)
EXTENDS ObservationalMemory, TLAPS

-----------------------------------------------------------------------------
(* Lemmas about the helpers *)

\* A new turn extends the list by a well-typed turn at its end.
LEMMA AppendTurn ==
    ASSUME TypeOK, NEW t \in Threads, NEW role \in Roles, NextId \in Ids
    PROVE  LET s == Append(turns, NewTurn(t, role)) IN
           /\ s \in Seq(Turn) /\ Len(s) = Len(turns) + 1
           /\ DOMAIN s = 1..NextId /\ DOMAIN s \subseteq Ids
           /\ \A x \in DOMAIN turns : s[x] = turns[x]
           /\ s[NextId] = NewTurn(t, role)
<1>1. NewTurn(t, role) \in Turn
  BY DEF NewTurn, TypeOK, Turn
<1>2. turns \in Seq(Turn)
  BY DEF TypeOK
<1> QED
  BY <1>1, <1>2, BoundsAssumption DEF NextId, Ids

\* Two turns added together.
LEMMA AppendTurns ==
    ASSUME TypeOK, NEW t \in Threads, NEW r1 \in Roles, NEW r2 \in Roles,
           NextId + 1 \in Ids
    PROVE  LET s == Append(Append(turns, NewTurn(t, r1)), NewTurn(t, r2)) IN
           /\ s \in Seq(Turn) /\ NextId \in Ids
           /\ DOMAIN s = 1..(NextId + 1) /\ DOMAIN s \subseteq Ids
           /\ \A x \in DOMAIN turns : s[x] = turns[x]
<1>1. NextId \in Ids
  BY BoundsAssumption DEF NextId, Ids, TypeOK
<1> DEFINE a == Append(turns, NewTurn(t, r1))
<1>2. /\ a \in Seq(Turn) /\ Len(a) = Len(turns) + 1
      /\ \A x \in DOMAIN turns : a[x] = turns[x]
  BY <1>1, AppendTurn
<1>3. NewTurn(t, r2) \in Turn /\ turns \in Seq(Turn)
  BY DEF NewTurn, TypeOK, Turn
<1> HIDE DEF a
<1>4. /\ Append(a, NewTurn(t, r2)) \in Seq(Turn)
      /\ DOMAIN Append(a, NewTurn(t, r2)) = 1..(NextId + 1)
      /\ 1..(NextId + 1) \subseteq Ids
      /\ \A x \in DOMAIN turns : Append(a, NewTurn(t, r2))[x] = turns[x]
  BY <1>2, <1>3, BoundsAssumption DEF NextId, Ids
<1> QED
  BY <1>1, <1>4 DEF a

-----------------------------------------------------------------------------
(* Type correctness *)

\* Every action but the crash keeps the types.
LEMMA ThreadStepTyped ==
    ASSUME TypeOK, NEW t \in Threads,
           \/ ToggleAnonymous(t) \/ UserTurn(t) \/ AskModel(t) \/ ToolRound(t)
           \/ AnswerKeepsPending(t) \/ AnswerObserves(t) \/ AnswerWaits(t)
           \/ LockAcquired(t) \/ Consolidate(t) \/ Interrupt(t)
    PROVE  TypeOK'
<1> USE DEF memVars, pendingVars, taskVars, logVars, Goto, Stages
<1>1. CASE ToggleAnonymous(t)
  BY <1>1 DEF ToggleAnonymous, TypeOK
<1>2. CASE UserTurn(t)
  <2>1. turns' \in Seq(Turn) /\ DOMAIN turns' \subseteq Ids
    BY <1>2, AppendTurn DEF UserTurn, Roles
  <2> QED BY <1>2, <2>1 DEF UserTurn, TypeOK
<1>3. CASE AskModel(t)
  <2>1. PICK cut \in Cuts(t) :
          /\ mem' = [mem EXCEPT ![t] = Kept(t, cut)]
          /\ observed' = [observed EXCEPT ![t] = @ \cap Kept(t, cut)]
          /\ saved' = IF Kept(t, cut) = mem[t] THEN saved
                      ELSE [saved EXCEPT ![t] = [ids |-> Kept(t, cut), observed |-> observed'[t]]]
    BY <1>3 DEF AskModel
  <2>2. Kept(t, cut) \subseteq mem[t] /\ mem[t] \subseteq Ids
    BY DEF Kept, StripTools, TypeOK
  <2>3. mem' \in [Threads -> SUBSET Ids] /\ observed' \in [Threads -> SUBSET Ids]
    BY <2>1, <2>2 DEF TypeOK
  <2>4. saved' \in [Threads -> [ids : SUBSET Ids, observed : SUBSET Ids]]
    BY <2>1, <2>2, <2>3 DEF TypeOK
  <2> QED BY <1>3, <2>3, <2>4 DEF AskModel, TypeOK
<1>4. CASE ToolRound(t)
  <2>1. turns' \in Seq(Turn) /\ DOMAIN turns' \subseteq Ids /\ NextId \in Ids
    BY <1>4, AppendTurns DEF ToolRound, Roles
  <2> QED BY <1>4, <2>1 DEF ToolRound, TypeOK
<1>5. CASE AnswerKeepsPending(t)
  <2>1. turns' \in Seq(Turn) /\ DOMAIN turns' \subseteq Ids
    BY <1>5, AppendTurn DEF AnswerKeepsPending, Roles
  <2> QED BY <1>5, <2>1 DEF AnswerKeepsPending, TypeOK
<1>6. CASE AnswerObserves(t)
  <2>1. turns' \in Seq(Turn) /\ DOMAIN turns' \subseteq Ids /\ NextId \in Nat
    BY <1>6, AppendTurn, BoundsAssumption DEF AnswerObserves, Roles, Ids
  <2>2. mem' \in [Threads -> SUBSET Ids]
    BY <1>6 DEF AnswerObserves, TypeOK
  <2>3. observed' \in [Threads -> SUBSET Ids]
    BY <1>6, <2>2 DEF AnswerObserves, TypeOK, UpTo
  <2>4. saved' \in [Threads -> [ids : SUBSET Ids, observed : SUBSET Ids]]
    BY <1>6, <2>2, <2>3 DEF AnswerObserves, TypeOK
  <2>5. snapshot' \in [Threads -> SUBSET Ids]
    BY <1>6 DEF AnswerObserves, TypeOK, Recordable
  <2>6. cutoff' \in [Threads -> Nat] /\ existing' \in [Threads -> SUBSET Ids]
    BY <1>6, <2>1 DEF AnswerObserves, TypeOK
  <2>7. pc' \in [Threads -> Stages] /\ lock' \in Threads \cup {Nobody} /\ pending' \in SUBSET Ids
    BY <1>6 DEF AnswerObserves, TypeOK
  <2> QED BY <1>6, <2>1, <2>2, <2>3, <2>4, <2>5, <2>6, <2>7 DEF AnswerObserves, TypeOK
<1>7. CASE AnswerWaits(t)
  <2>1. turns' \in Seq(Turn) /\ DOMAIN turns' \subseteq Ids /\ NextId \in Nat
    BY <1>7, AppendTurn, BoundsAssumption DEF AnswerWaits, Roles, Ids
  <2>2. mem' \in [Threads -> SUBSET Ids]
    BY <1>7 DEF AnswerWaits, TypeOK
  <2>3. saved' \in [Threads -> [ids : SUBSET Ids, observed : SUBSET Ids]]
    BY <1>7, <2>2 DEF AnswerWaits, TypeOK
  <2>4. snapshot' \in [Threads -> SUBSET Ids] /\ cutoff' \in [Threads -> Nat]
    BY <1>7, <2>1 DEF AnswerWaits, TypeOK, Recordable
  <2> QED BY <1>7, <2>1, <2>2, <2>3, <2>4 DEF AnswerWaits, TypeOK
<1>8. CASE LockAcquired(t)
  <2>1. observed' \in [Threads -> SUBSET Ids]
    BY <1>8 DEF LockAcquired, TypeOK, UpTo
  <2> QED BY <1>8, <2>1 DEF LockAcquired, TypeOK
<1>9. CASE Consolidate(t)
  <2> USE DEF Observed
  <2>1. CASE ObserverEmpty(t)
    BY <2>1 DEF ObserverEmpty, TypeOK
  <2>2. CASE ObserverAppends(t)
    BY <2>2 DEF ObserverAppends, TypeOK
  <2>3. CASE ObserverOverflows(t)
    BY <2>3 DEF ObserverOverflows, TypeOK
  <2>4. CASE Reflected(t)
    BY <2>4 DEF Reflected, TypeOK
  <2>5. CASE ObserveRaises(t)
    BY <2>5 DEF ObserveRaises, TypeOK
  <2>6. CASE Notified(t)
    BY <2>6 DEF Notified, TypeOK
  <2> QED BY <1>9, <2>1, <2>2, <2>3, <2>4, <2>5, <2>6 DEF Consolidate
<1>10. CASE Interrupt(t)
  BY <1>10 DEF Interrupt, TypeOK
<1> QED BY <1>1, <1>2, <1>3, <1>4, <1>5, <1>6, <1>7, <1>8, <1>9, <1>10

\* A crash keeps the types: what is read back was typed when it was saved.
LEMMA CrashTyped ==
    ASSUME TypeOK, CleanCrash \/ TornCrash
    PROVE  TypeOK'
<1> USE DEF Restart, Stages
<1>1. Restart /\ log' \subseteq log /\ crash' \in {"clean", "torn"}
  BY DEF CleanCrash, TornCrash
<1>2. InFlight \subseteq Ids
  BY DEF InFlight, TypeOK
<1>3. mem' \in [Threads -> SUBSET Ids] /\ observed' \in [Threads -> SUBSET Ids]
  BY <1>1 DEF TypeOK
<1> QED BY <1>1, <1>2, <1>3 DEF TypeOK

\* The initial state is well typed.
LEMMA StartTyped == Init => TypeOK
<1> SUFFICES ASSUME Init PROVE TypeOK
  OBVIOUS
<1>1. turns \in Seq(Turn) /\ DOMAIN turns = {}
  BY DEF Init
<1> QED BY <1>1 DEF Init, TypeOK, Stages

\* Every step keeps the types.
LEMMA StepTyped == TypeOK /\ [Next]_vars => TypeOK'
<1> SUFFICES ASSUME TypeOK, [Next]_vars PROVE TypeOK'
  OBVIOUS
<1>1. CASE Next
  BY <1>1, ThreadStepTyped, CrashTyped DEF Next
<1>2. CASE UNCHANGED vars
  BY <1>2 DEF vars, memVars, pendingVars, taskVars, logVars, TypeOK
<1> QED BY <1>1, <1>2

\* Every reachable state is well typed.
THEOREM TypeCorrect == Spec => []TypeOK
BY StartTyped, StepTyped, PTL DEF Spec

-----------------------------------------------------------------------------
(* The lock, and the log under it *)

\* Why no update of LOG.md is lost: the tasks past `async with` are the holder
\* of the lock alone, the holder's copy of LOG.md is still what the file says
\* when the observer answers, and before the reflector is asked the copy, and so
\* the file, is already in log/history.
LockInv ==
    /\ \A t \in Threads : lock = t <=> pc[t] \in Holding
    /\ \A t \in Threads : pc[t] = "observing" => existing[t] = log
    /\ \A t \in Threads :
        pc[t] = "reflecting" => log \subseteq existing[t] /\ existing[t] \subseteq history

\* Steps that leave the lock, the log and what is known of it alone.
LEMMA OutsideLock ==
    ASSUME TypeOK, LockInv, NEW t \in Threads,
           \/ ToggleAnonymous(t) \/ UserTurn(t) \/ AskModel(t) \/ ToolRound(t)
           \/ AnswerKeepsPending(t) \/ AnswerWaits(t)
    PROVE  LockInv'
<1> USE DEF memVars, pendingVars, taskVars, logVars, Goto, Holding
<1>1. UNCHANGED <<existing, lock, log, history>>
  BY DEF ToggleAnonymous, UserTurn, AskModel, ToolRound, AnswerKeepsPending, AnswerWaits
<1>2. \E stage \in {"idle", "ask", "llm", "waiting"} :
        pc' = pc \/ (pc[t] \notin Holding /\ pc' = [pc EXCEPT ![t] = stage])
  BY DEF ToggleAnonymous, UserTurn, AskModel, ToolRound, AnswerKeepsPending, AnswerWaits
<1> QED BY <1>1, <1>2 DEF LockInv, TypeOK

\* Taking the lock, with a fresh copy of the log.
LEMMA LockTaken ==
    ASSUME TypeOK, LockInv, NEW t \in Threads, AnswerObserves(t) \/ LockAcquired(t)
    PROVE  LockInv'
<1> USE DEF memVars, pendingVars, taskVars, logVars, Goto, Holding
<1>1. /\ lock = Nobody /\ lock' = t
      /\ existing' = [existing EXCEPT ![t] = log]
      /\ pc' = [pc EXCEPT ![t] = "observing"]
      /\ UNCHANGED <<log, history>>
  BY DEF AnswerObserves, LockAcquired, LockFree
<1>2. \A u \in Threads : pc[u] \notin Holding
  BY <1>1, ThreadsAssumption DEF LockInv
<1> QED BY <1>1, <1>2 DEF LockInv, TypeOK

\* The steps of a task that may hold it.
LEMMA UnderLock ==
    ASSUME TypeOK, LockInv, NEW t \in Threads, Consolidate(t) \/ Interrupt(t)
    PROVE  LockInv'
<1> USE DEF memVars, pendingVars, taskVars, logVars, Goto, Holding
<1>1. CASE Interrupt(t)
  BY <1>1, ThreadsAssumption DEF Interrupt, LockInv, TypeOK
<1>2. CASE Consolidate(t)
  <2>1. lock = t /\ \A u \in Threads : u # t => pc[u] \notin Holding
    BY <1>2 DEF Consolidate, ObserverEmpty, ObserverAppends, ObserverOverflows, Reflected,
                ObserveRaises, Notified, LockInv
  <2>2. CASE ObserverEmpty(t) \/ ObserverAppends(t) \/ Reflected(t) \/ ObserveRaises(t)
    <3>1. /\ pc' = [pc EXCEPT ![t] = "notifying"] /\ lock' = lock /\ history' = history
          /\ pc[t] \in {"observing", "reflecting"}
          /\ existing' = [existing EXCEPT ![t] = {}]
      BY <2>2 DEF ObserverEmpty, ObserverAppends, Reflected, ObserveRaises
    <3>2. /\ \A u \in Threads : u # t => pc'[u] = pc[u] /\ pc'[u] \notin Holding
          /\ pc'[t] = "notifying"
      BY <2>1, <3>1 DEF TypeOK
    <3> QED BY <2>1, <3>1, <3>2 DEF LockInv
  <2>3. CASE ObserverOverflows(t)
    BY <2>1, <2>3 DEF ObserverOverflows, LockInv, TypeOK
  <2>4. CASE Notified(t)
    BY <2>1, <2>4, ThreadsAssumption DEF Notified, LockInv, TypeOK
  <2> QED BY <1>2, <2>2, <2>3, <2>4 DEF Consolidate
<1> QED BY <1>1, <1>2

\* After a crash nobody holds the lock.
LEMMA CrashUnlocks ==
    ASSUME CleanCrash \/ TornCrash
    PROVE  LockInv'
BY ThreadsAssumption DEF CleanCrash, TornCrash, Restart, LockInv, Holding

\* LockInv holds in every reachable state.
THEOREM LockSafe == Spec => []LockInv
<1>1. Init => LockInv
  BY ThreadsAssumption DEF Init, LockInv, Holding
<1>2. TypeOK /\ LockInv /\ [Next]_vars => LockInv'
  <2> SUFFICES ASSUME TypeOK, LockInv, [Next]_vars PROVE LockInv'
    OBVIOUS
  <2>1. CASE Next
    BY <2>1, OutsideLock, LockTaken, UnderLock, CrashUnlocks DEF Next
  <2>2. CASE UNCHANGED vars
    BY <2>2 DEF vars, taskVars, logVars, LockInv
  <2> QED BY <2>1, <2>2
<1> QED BY <1>1, <1>2, TypeCorrect, PTL DEF Spec

\* No step but a crash in the middle of the write makes LOG.md and log/history
\* together forget a turn (_save_before_reflection's promise), for any number of
\* threads and turns.
THEOREM LogKept == Spec => LogKeepsAll
<1>1. LockInv /\ [Next]_vars => [crash' # "torn" => Recorded \subseteq Recorded']_vars
  <2> SUFFICES ASSUME LockInv, Next, crash' # "torn" PROVE Recorded \subseteq Recorded'
    OBVIOUS
  <2> USE DEF Recorded, memVars, pendingVars, taskVars, logVars
  <2>1. ASSUME NEW t \in Threads,
               \/ ToggleAnonymous(t) \/ UserTurn(t) \/ AskModel(t) \/ ToolRound(t)
               \/ AnswerKeepsPending(t) \/ AnswerObserves(t) \/ AnswerWaits(t)
               \/ LockAcquired(t) \/ Interrupt(t)
        PROVE  log' = log /\ history' = history
    BY <2>1 DEF ToggleAnonymous, UserTurn, AskModel, ToolRound, AnswerKeepsPending,
                AnswerObserves, AnswerWaits, LockAcquired, Interrupt
  <2>2. ASSUME NEW t \in Threads, Consolidate(t) PROVE Recorded \subseteq Recorded'
    <3>1. CASE ObserverEmpty(t) \/ ObserveRaises(t) \/ Notified(t)
      BY <3>1 DEF ObserverEmpty, ObserveRaises, Notified
    <3>2. CASE ObserverAppends(t)
      BY <3>2 DEF ObserverAppends, LockInv
    <3>3. CASE ObserverOverflows(t)
      BY <3>3 DEF ObserverOverflows
    <3>4. CASE Reflected(t)
      BY <3>4 DEF Reflected, LockInv
    <3> QED BY <2>2, <3>1, <3>2, <3>3, <3>4 DEF Consolidate
  <2>3. CASE CleanCrash \/ TornCrash
    BY <2>3 DEF CleanCrash, TornCrash, Restart
  <2> QED BY <2>1, <2>2, <2>3 DEF Next
<1> QED BY <1>1, LockSafe, PTL DEF Spec, LogKeepsAll

-----------------------------------------------------------------------------
(* Anonymous turns *)

\* A turn that can still reach the log: it exists and is not private.
Open(S) == \A x \in S : x \in DOMAIN turns /\ ~turns[x].private

\* Private turns wait in the pending lists like any other, but no snapshot, no
\* copy of the log and no log holds one.
PrivacyInv ==
    /\ pending \subseteq DOMAIN turns /\ savedPending \subseteq DOMAIN turns
    /\ Open(log) /\ Open(history)
    /\ \A t \in Threads : Open(snapshot[t]) /\ Open(existing[t])

\* Adding turns changes no earlier turn.
LEMMA OpenStable ==
    ASSUME NEW S, Open(S), \A x \in DOMAIN turns : x \in DOMAIN turns' /\ turns'[x] = turns[x]
    PROVE  \A x \in S : x \in DOMAIN turns' /\ ~turns'[x].private
BY DEF Open

\* Every step of a thread keeps PrivacyInv.
LEMMA ThreadStepPrivate ==
    ASSUME TypeOK, PrivacyInv, NEW t \in Threads,
           \/ ToggleAnonymous(t) \/ UserTurn(t) \/ AskModel(t) \/ ToolRound(t)
           \/ AnswerKeepsPending(t) \/ AnswerObserves(t) \/ AnswerWaits(t)
           \/ LockAcquired(t) \/ Consolidate(t) \/ Interrupt(t)
    PROVE  PrivacyInv'
<1> USE DEF memVars, pendingVars, taskVars, logVars
<1>1. CASE ToggleAnonymous(t) \/ AskModel(t)
  BY <1>1 DEF ToggleAnonymous, AskModel, PrivacyInv, Open
<1>2. CASE UserTurn(t) \/ AnswerKeepsPending(t) \/ AnswerObserves(t) \/ AnswerWaits(t)
  <2>1. PICK role \in Roles : turns' = Append(turns, NewTurn(t, role)) /\ NextId \in Ids
    BY <1>2 DEF UserTurn, AnswerKeepsPending, AnswerObserves, AnswerWaits, Roles
  <2>2. /\ DOMAIN turns' = 1..NextId /\ DOMAIN turns = 1..Len(turns) /\ Len(turns) \in Nat
        /\ \A x \in DOMAIN turns : turns'[x] = turns[x]
    BY <2>1, AppendTurn DEF TypeOK
  <2>3. /\ \A x \in DOMAIN turns : x \in DOMAIN turns' /\ turns'[x] = turns[x]
        /\ NextId \in DOMAIN turns'
    BY <2>2 DEF NextId
  <2>4. Open(log)' /\ Open(history)' /\ \A u \in Threads : Open(existing[u])'
    <3>1. log' = log /\ history' = history
      BY <1>2 DEF UserTurn, AnswerKeepsPending, AnswerObserves, AnswerWaits
    <3>2. \A u \in Threads : existing'[u] \in {existing[u], log}
      BY <1>2 DEF UserTurn, AnswerKeepsPending, AnswerObserves, AnswerWaits, TypeOK
    <3> QED BY <2>3, <3>1, <3>2 DEF PrivacyInv, Open
  <2>5. pending' \subseteq DOMAIN turns' /\ savedPending' \subseteq DOMAIN turns'
    BY <1>2, <2>3 DEF UserTurn, AnswerKeepsPending, AnswerObserves, AnswerWaits, PrivacyInv
  <2>6. \A u \in Threads : Open(snapshot[u])'
    <3>1. CASE UserTurn(t) \/ AnswerKeepsPending(t)
      BY <3>1, <2>3 DEF UserTurn, AnswerKeepsPending, PrivacyInv, Open
    <3>2. CASE AnswerObserves(t) \/ AnswerWaits(t)
      <4>1. snapshot' = [snapshot EXCEPT ![t] = Recordable(pending \cup {NextId}, turns')]
        BY <3>2 DEF AnswerObserves, AnswerWaits
      <4> QED BY <4>1, <2>3 DEF Recordable, PrivacyInv, Open, TypeOK
    <3> QED BY <1>2, <3>1, <3>2
  <2> QED BY <2>4, <2>5, <2>6 DEF PrivacyInv, Open
<1>3. CASE ToolRound(t)
  <2>1. /\ DOMAIN turns' = 1..(NextId + 1) /\ DOMAIN turns = 1..Len(turns) /\ Len(turns) \in Nat
        /\ \A x \in DOMAIN turns : turns'[x] = turns[x]
    BY <1>3, AppendTurns DEF ToolRound, Roles, TypeOK
  <2>2. /\ \A x \in DOMAIN turns : x \in DOMAIN turns' /\ turns'[x] = turns[x]
        /\ {NextId, NextId + 1} \subseteq DOMAIN turns'
    BY <2>1 DEF NextId
  <2> QED BY <1>3, <2>2 DEF ToolRound, PrivacyInv, Open
<1>4. CASE LockAcquired(t) \/ Interrupt(t)
  BY <1>4 DEF LockAcquired, Interrupt, PrivacyInv, Open, TypeOK
<1>5. CASE Consolidate(t)
  <2> USE DEF Observed
  <2>1. CASE ObserverEmpty(t) \/ ObserveRaises(t) \/ Notified(t)
    BY <2>1 DEF ObserverEmpty, ObserveRaises, Notified, PrivacyInv, Open, TypeOK
  <2>2. CASE ObserverAppends(t)
    BY <2>2 DEF ObserverAppends, PrivacyInv, Open, TypeOK
  <2>3. CASE ObserverOverflows(t)
    BY <2>3 DEF ObserverOverflows, PrivacyInv, Open, TypeOK
  <2>4. CASE Reflected(t)
    BY <2>4 DEF Reflected, PrivacyInv, Open, TypeOK
  <2> QED BY <1>5, <2>1, <2>2, <2>3, <2>4 DEF Consolidate
<1> QED BY <1>1, <1>2, <1>3, <1>4, <1>5

\* PrivacyInv holds in every reachable state.
THEOREM PrivacySafe == Spec => []PrivacyInv
<1>1. Init => PrivacyInv
  BY DEF Init, PrivacyInv, Open
<1>2. TypeOK /\ PrivacyInv /\ [Next]_vars => PrivacyInv'
  <2> SUFFICES ASSUME TypeOK, PrivacyInv, [Next]_vars PROVE PrivacyInv'
    OBVIOUS
  <2>1. CASE \E t \in Threads :
               \/ ToggleAnonymous(t) \/ UserTurn(t) \/ AskModel(t) \/ ToolRound(t)
               \/ AnswerKeepsPending(t) \/ AnswerObserves(t) \/ AnswerWaits(t)
               \/ LockAcquired(t) \/ Consolidate(t) \/ Interrupt(t)
    BY <2>1, ThreadStepPrivate
  <2>2. CASE CleanCrash \/ TornCrash
    <3>1. Restart /\ log' \subseteq log
      BY <2>2 DEF CleanCrash, TornCrash
    <3> QED BY <3>1 DEF Restart, PrivacyInv, Open
  <2>3. CASE UNCHANGED vars
    BY <2>3 DEF vars, pendingVars, taskVars, logVars, PrivacyInv, Open
  <2> QED BY <2>1, <2>2, <2>3 DEF Next
<1> QED BY <1>1, <1>2, TypeCorrect, PTL DEF Spec

\* What is said in an anonymous thread reaches neither the observer nor the log,
\* whenever the mode is switched and however often the process dies.
THEOREM AnonymousSafe == Spec => []AnonymousNeverRecorded
<1>1. PrivacyInv => AnonymousNeverRecorded
  BY DEF PrivacyInv, Open, AnonymousNeverRecorded, Recorded, InFlight
<1> QED BY <1>1, PrivacySafe, PTL

-----------------------------------------------------------------------------
(* No turn falls out of the pipeline *)

Settled == Recorded \cup abandoned
Traced == pending \cup InFlight \cup Settled

\* A task past its observation holds nothing that is not settled already, and
\* what is being reflected is in log/history.
AccountInv ==
    crash # "torn" =>
        /\ \A x \in DOMAIN turns : turns[x].private \/ x \in Traced
        /\ \A t \in Threads :
            /\ pc[t] \notin Consolidating => snapshot[t] \subseteq Settled
            /\ pc[t] = "reflecting" => snapshot[t] \subseteq history \cup abandoned

\* What a step of one thread has to keep: settled turns stay settled, the other
\* threads' snapshots stay, and what this thread drops is settled.
LEMMA StepAccounts ==
    ASSUME AccountInv, crash # "torn", NEW t \in Threads,
           Settled \subseteq Settled', history \cup abandoned \subseteq (history \cup abandoned)',
           \A u \in Threads : u # t => snapshot'[u] = snapshot[u] /\ pc'[u] = pc[u],
           snapshot[t] \subseteq snapshot'[t] \cup Settled',
           pc'[t] \notin Consolidating => snapshot'[t] \subseteq Settled',
           pc'[t] = "reflecting" => snapshot'[t] \subseteq (history \cup abandoned)',
           \A x \in pending \cap DOMAIN turns : turns[x].private \/ x \in pending' \cup snapshot'[t],
           \A x \in DOMAIN turns : x \in DOMAIN turns' /\ turns'[x] = turns[x],
           \A x \in DOMAIN turns' \ DOMAIN turns :
               turns'[x].private \/ x \in pending' \cup snapshot'[t]
    PROVE  AccountInv'
<1>1. \A x \in snapshot'[t] : x \in InFlight'
  BY DEF InFlight
<1>2. ASSUME NEW x \in InFlight PROVE x \in InFlight' \cup Settled'
  <2>1. PICK u \in Threads : x \in snapshot[u]
    BY DEF InFlight
  <2> QED BY <2>1, <1>1 DEF InFlight
<1>3. ASSUME NEW x \in DOMAIN turns' PROVE turns'[x].private \/ x \in Traced'
  BY <1>1, <1>2 DEF Traced, AccountInv
<1>4. ASSUME NEW u \in Threads
      PROVE  /\ pc'[u] \notin Consolidating => snapshot'[u] \subseteq Settled'
             /\ pc'[u] = "reflecting" => snapshot'[u] \subseteq (history \cup abandoned)'
  BY DEF AccountInv
<1> QED BY <1>3, <1>4 DEF AccountInv

\* A step of a thread up to the lock: it adds turns, trims its history, or takes
\* the pending list for a snapshot.
LEMMA TurnAccounts ==
    ASSUME TypeOK, LockInv, AccountInv, crash # "torn", NEW t \in Threads,
           \/ ToggleAnonymous(t) \/ UserTurn(t) \/ AskModel(t) \/ ToolRound(t)
           \/ AnswerKeepsPending(t) \/ AnswerObserves(t) \/ AnswerWaits(t)
           \/ LockAcquired(t)
    PROVE  AccountInv'
<1> USE DEF memVars, pendingVars, taskVars, logVars, Goto, Consolidating
<1>1. /\ log' = log /\ history' = history /\ abandoned' = abandoned
      /\ \A u \in Threads : u # t => snapshot'[u] = snapshot[u] /\ pc'[u] = pc[u]
  BY DEF ToggleAnonymous, UserTurn, AskModel, ToolRound, AnswerKeepsPending,
         AnswerObserves, AnswerWaits, LockAcquired, TypeOK
<1>2. Settled' = Settled /\ (history \cup abandoned)' = history \cup abandoned
  BY <1>1 DEF Settled, Recorded
<1>3. ASSUME NEW role \in Roles, NextId \in Ids, turns' = Append(turns, NewTurn(t, role))
      PROVE  /\ \A x \in DOMAIN turns : x \in DOMAIN turns' /\ turns'[x] = turns[x]
             /\ DOMAIN turns' \ DOMAIN turns = {NextId}
  <2>1. /\ DOMAIN turns' = 1..NextId /\ DOMAIN turns = 1..Len(turns) /\ Len(turns) \in Nat
        /\ \A x \in DOMAIN turns : turns'[x] = turns[x]
    BY <1>3, AppendTurn DEF TypeOK
  <2> QED BY <2>1 DEF NextId
<1>4. CASE ToggleAnonymous(t) \/ AskModel(t) \/ LockAcquired(t)
  <2>1. /\ turns' = turns /\ pending' = pending /\ snapshot' = snapshot
        /\ pc'[t] \in Consolidating \/ pc[t] \notin Consolidating
        /\ pc'[t] = "reflecting" => pc[t] = "reflecting"
        /\ pc'[t] \notin Consolidating => pc[t] \notin Consolidating
    BY <1>4 DEF ToggleAnonymous, AskModel, LockAcquired, TypeOK
  <2> QED BY <1>1, <1>2, <2>1, StepAccounts DEF AccountInv
<1>5. CASE UserTurn(t) \/ AnswerKeepsPending(t)
  <2>1. /\ snapshot' = snapshot /\ pending' = pending \cup {NextId}
        /\ pc[t] \notin Consolidating /\ pc'[t] \notin Consolidating
        /\ \E role \in Roles : turns' = Append(turns, NewTurn(t, role)) /\ NextId \in Ids
    BY <1>5 DEF UserTurn, AnswerKeepsPending, TypeOK, Roles
  <2>2. /\ \A x \in DOMAIN turns : x \in DOMAIN turns' /\ turns'[x] = turns[x]
        /\ DOMAIN turns' \ DOMAIN turns = {NextId}
    BY <2>1, <1>3
  <2> QED BY <1>1, <1>2, <2>1, <2>2, StepAccounts DEF AccountInv
<1>6. CASE AnswerObserves(t) \/ AnswerWaits(t)
  <2>1. /\ snapshot'[t] = Recordable(pending \cup {NextId}, turns')
        /\ pc[t] \notin Consolidating /\ pc'[t] \in {"observing", "waiting"}
        /\ turns' = Append(turns, NewTurn(t, "answer")) /\ NextId \in Ids
    BY <1>6 DEF AnswerObserves, AnswerWaits, TypeOK
  <2>2. /\ \A x \in DOMAIN turns : x \in DOMAIN turns' /\ turns'[x] = turns[x]
        /\ DOMAIN turns' \ DOMAIN turns = {NextId}
    BY <2>1, <1>3 DEF Roles
  <2>3. snapshot[t] \subseteq Settled
    BY <2>1 DEF AccountInv
  <2>4. \A x \in DOMAIN turns' : turns'[x].private \/ x \notin pending \cup {NextId} \/ x \in snapshot'[t]
    BY <2>1 DEF Recordable
  <2> QED BY <1>1, <1>2, <2>1, <2>2, <2>3, <2>4, StepAccounts DEF AccountInv
<1>7. CASE ToolRound(t)
  <2>1. /\ snapshot' = snapshot /\ pending' = pending \cup {NextId, NextId + 1}
        /\ pc[t] \notin Consolidating /\ pc'[t] \notin Consolidating
    BY <1>7 DEF ToolRound, TypeOK
  <2>2. /\ DOMAIN turns' = 1..(NextId + 1) /\ DOMAIN turns = 1..Len(turns) /\ Len(turns) \in Nat
        /\ \A x \in DOMAIN turns : turns'[x] = turns[x]
    BY <1>7, AppendTurns DEF ToolRound, Roles, TypeOK
  <2>3. /\ \A x \in DOMAIN turns : x \in DOMAIN turns' /\ turns'[x] = turns[x]
        /\ DOMAIN turns' \ DOMAIN turns = {NextId, NextId + 1}
    BY <2>2 DEF NextId
  <2> QED BY <1>1, <1>2, <2>1, <2>3, StepAccounts DEF AccountInv
<1> QED BY <1>4, <1>5, <1>6, <1>7

\* A step of the consolidation, or a stop: what leaves the snapshot is in the log,
\* in its history or given up.
LEMMA EndAccounts ==
    ASSUME TypeOK, LockInv, AccountInv, crash # "torn", NEW t \in Threads,
           Consolidate(t) \/ Interrupt(t)
    PROVE  AccountInv'
<1> USE DEF memVars, pendingVars, taskVars, logVars, Goto, Consolidating
<1>1. /\ turns' = turns /\ pending' = pending
      /\ \A u \in Threads : u # t => snapshot'[u] = snapshot[u] /\ pc'[u] = pc[u]
      /\ abandoned \subseteq abandoned' /\ history \subseteq history'
  BY DEF Consolidate, ObserverEmpty, ObserverAppends, ObserverOverflows, Reflected,
         ObserveRaises, Notified, Interrupt, TypeOK
<1>2. Settled \subseteq Settled'
  <2>1. log \subseteq log' \cup history'
    BY DEF Consolidate, ObserverEmpty, ObserverAppends, ObserverOverflows, Reflected,
           ObserveRaises, Notified, Interrupt, LockInv
  <2> QED BY <1>1, <2>1 DEF Settled, Recorded
<1>3. /\ pc'[t] = "reflecting" => snapshot[t] \subseteq (history \cup abandoned)'
      /\ snapshot[t] \subseteq Settled'
      /\ snapshot'[t] = snapshot[t] \/ snapshot'[t] = {}
  <2>1. CASE ObserverEmpty(t)
    BY <2>1 DEF ObserverEmpty, Settled, TypeOK
  <2>2. CASE ObserverAppends(t)
    BY <2>2 DEF ObserverAppends, Settled, Recorded, TypeOK
  <2>3. CASE ObserverOverflows(t)
    BY <2>3 DEF ObserverOverflows, Settled, Recorded, TypeOK
  <2>4. CASE Reflected(t)
    <3>1. snapshot[t] \subseteq history \cup abandoned
      BY <2>4 DEF Reflected, AccountInv
    <3> QED BY <2>4, <3>1 DEF Reflected, Settled, Recorded, TypeOK
  <2>5. CASE ObserveRaises(t)
    BY <2>5 DEF ObserveRaises, Settled, Recorded, TypeOK
  <2>6. CASE Notified(t)
    <3>1. snapshot[t] \subseteq Settled
      BY <2>6 DEF Notified, AccountInv
    <3> QED BY <2>6, <3>1, <1>2 DEF Notified, TypeOK
  <2>7. CASE Interrupt(t)
    <3>1. pc[t] \in Consolidating \/ snapshot[t] \subseteq Settled
      BY DEF AccountInv
    <3>2. pc[t] \in Consolidating => snapshot[t] \subseteq abandoned' \cup history'
      BY <2>7 DEF Interrupt
    <3> QED BY <2>7, <3>1, <3>2, <1>2 DEF Interrupt, Settled, Recorded, TypeOK
  <2> QED BY <2>1, <2>2, <2>3, <2>4, <2>5, <2>6, <2>7 DEF Consolidate
<1> QED
  <2>1. /\ (history \cup abandoned) \subseteq (history \cup abandoned)'
        /\ snapshot[t] \subseteq snapshot'[t] \cup Settled'
        /\ snapshot'[t] \subseteq Settled'
        /\ pc'[t] = "reflecting" => snapshot'[t] \subseteq (history \cup abandoned)'
    BY <1>1, <1>3
  <2> QED BY <1>1, <1>2, <2>1, StepAccounts

\* A crash that tears no write gives up the turns it finds only in memory.
LEMMA CrashAccounts ==
    ASSUME AccountInv, CleanCrash
    PROVE  AccountInv'
<1>1. /\ crash = "none" /\ turns' = turns /\ pending' = savedPending
      /\ log' = log /\ history' = history
      /\ abandoned' = abandoned \cup ((pending \cup InFlight) \ (savedPending \cup history))
      /\ \A t \in Threads : pc'[t] = "idle" /\ snapshot'[t] = {}
  BY DEF CleanCrash, Restart
<1>2. \A x \in DOMAIN turns : turns[x].private \/ x \in Traced
  BY <1>1 DEF AccountInv
<1>3. \A x \in Traced : x \in Traced'
  BY <1>1 DEF Traced, Settled, Recorded
<1> QED BY <1>1, <1>2, <1>3 DEF AccountInv

\* AccountInv holds in every reachable state.
THEOREM AccountSafe == Spec => []AccountInv
<1>1. Init => AccountInv
  BY DEF Init, AccountInv
<1>2. TypeOK /\ LockInv /\ AccountInv /\ [Next]_vars => AccountInv'
  <2> SUFFICES ASSUME TypeOK, LockInv, AccountInv, [Next]_vars PROVE AccountInv'
    OBVIOUS
  <2>1. CASE crash = "torn" /\ Next
    <3>1. crash' = "torn"
      BY <2>1 DEF Next, CleanCrash, TornCrash, Restart, ToggleAnonymous, UserTurn, AskModel,
                  ToolRound, AnswerKeepsPending, AnswerObserves, AnswerWaits, LockAcquired,
                  Consolidate, ObserverEmpty, ObserverAppends, ObserverOverflows, Reflected,
                  ObserveRaises, Notified, Interrupt
    <3> QED BY <3>1 DEF AccountInv
  <2>2. CASE crash # "torn" /\ Next
    <3>1. CASE TornCrash
      BY <3>1 DEF TornCrash, AccountInv
    <3> QED BY <2>2, <3>1, TurnAccounts, EndAccounts, CrashAccounts DEF Next
  <2>3. CASE UNCHANGED vars
    BY <2>3 DEF vars, pendingVars, taskVars, logVars, AccountInv, Traced, Settled, Recorded, InFlight
  <2> QED BY <2>1, <2>2, <2>3
<1> QED BY <1>1, <1>2, TypeCorrect, LockSafe, PTL DEF Spec

\* No turn of a thread that is not anonymous silently falls out of the pipeline,
\* however the tasks of the directory's threads interleave around the lock.
THEOREM TurnsAccounted == Spec => []Accounted
<1>1. AccountInv => Accounted
  BY DEF AccountInv, Accounted, Traced, Settled
<1> QED BY <1>1, AccountSafe, PTL

-----------------------------------------------------------------------------
(* No turn is observed twice *)

\* The ids of new turns are nowhere yet.
LEMMA FreshIds ==
    ASSUME TypeOK, PrivacyInv, NEW x, x = NextId \/ x = NextId + 1
    PROVE  x \notin pending \cup Recorded \cup InFlight
<1>1. x \notin DOMAIN turns
  <2>1. DOMAIN turns = 1..Len(turns) /\ Len(turns) \in Nat
    BY DEF TypeOK
  <2> QED BY <2>1 DEF NextId
<1> QED BY <1>1 DEF PrivacyInv, Open, Recorded, InFlight

\* Turns wait in one place: a step moves them from the pending list to the
\* snapshot of the task that takes the list, and nothing else enters either
\* but new turns.
LEMMA TakingOnce ==
    ASSUME TypeOK, PrivacyInv, ObservedOnce, crash = "none", NEW t \in Threads,
           \/ ToggleAnonymous(t) \/ UserTurn(t) \/ AskModel(t) \/ ToolRound(t)
           \/ AnswerKeepsPending(t) \/ AnswerObserves(t) \/ AnswerWaits(t)
           \/ LockAcquired(t)
    PROVE  ObservedOnce'
<1> USE DEF memVars, pendingVars, taskVars, logVars, Goto, Consolidating
<1>1. /\ log' = log /\ history' = history
      /\ \A u \in Threads : u # t => snapshot'[u] = snapshot[u] /\ pc'[u] = pc[u]
  BY DEF ToggleAnonymous, UserTurn, AskModel, ToolRound, AnswerKeepsPending,
         AnswerObserves, AnswerWaits, LockAcquired, TypeOK
<1>2. Recorded' = Recorded
  BY <1>1 DEF Recorded
<1>3. /\ \A u \in Threads : pending \cap snapshot[u] = {}
      /\ pending \cap Recorded = {}
  BY DEF ObservedOnce, InFlight
<1>4. CASE AnswerObserves(t) \/ AnswerWaits(t)
  <2>1. pending' = {} /\ snapshot'[t] \subseteq pending \cup {NextId}
    BY <1>4 DEF AnswerObserves, AnswerWaits, TypeOK, Recordable
  <2>2. /\ snapshot'[t] \cap Recorded' = {}
        /\ \A u \in Threads : u # t => snapshot'[t] \cap snapshot'[u] = {}
    BY <2>1, <1>1, <1>2, <1>3, FreshIds DEF InFlight
  <2> QED BY <1>1, <1>2, <2>1, <2>2 DEF ObservedOnce
<1>5. CASE \/ ToggleAnonymous(t) \/ UserTurn(t) \/ AskModel(t) \/ ToolRound(t)
           \/ AnswerKeepsPending(t) \/ LockAcquired(t)
  <2>1. /\ snapshot' = snapshot
        /\ \A x \in pending' : x \in pending \/ x = NextId \/ x = NextId + 1
        /\ pc'[t] \in {"waiting", "observing"} => pc[t] \in {"waiting", "observing"}
    BY <1>5 DEF ToggleAnonymous, UserTurn, AskModel, ToolRound, AnswerKeepsPending,
                LockAcquired, TypeOK
  <2>2. /\ pending' \cap Recorded' = {}
        /\ \A u \in Threads : pending' \cap snapshot'[u] = {}
    BY <2>1, <1>2, <1>3, FreshIds DEF InFlight
  <2>3. \A u \in Threads : pc'[u] \in {"waiting", "observing"} => pc[u] \in {"waiting", "observing"}
    BY <1>1, <2>1
  <2>4. pending' \cap (Recorded' \cup InFlight') = {}
    BY <2>2 DEF InFlight
  <2> QED BY <1>2, <2>1, <2>3, <2>4 DEF ObservedOnce
<1> QED BY <1>4, <1>5

\* What a consolidation adds to the log or its history comes from its own
\* snapshot, which is observed no more.
LEMMA EndOnce ==
    ASSUME TypeOK, LockInv, ObservedOnce, crash = "none", NEW t \in Threads,
           Consolidate(t) \/ Interrupt(t)
    PROVE  ObservedOnce'
<1> USE DEF memVars, pendingVars, taskVars, logVars, Goto, Consolidating
<1>1. /\ pending' = pending
      /\ \A u \in Threads : u # t => snapshot'[u] = snapshot[u] /\ pc'[u] = pc[u]
      /\ snapshot'[t] \subseteq snapshot[t]
      /\ pc'[t] \in {"reflecting", "notifying", "idle"}
  BY DEF Consolidate, ObserverEmpty, ObserverAppends, ObserverOverflows, Reflected,
         ObserveRaises, Notified, Interrupt, TypeOK
<1>2. Recorded' \subseteq Recorded \cup snapshot[t]
  <2> USE DEF Recorded
  <2>1. CASE ObserverEmpty(t) \/ ObserveRaises(t) \/ Notified(t) \/ Interrupt(t)
    BY <2>1 DEF ObserverEmpty, ObserveRaises, Notified, Interrupt
  <2>2. CASE ObserverAppends(t)
    BY <2>2 DEF ObserverAppends, LockInv, Observed
  <2>3. CASE ObserverOverflows(t)
    BY <2>3 DEF ObserverOverflows, LockInv, Observed
  <2>4. CASE Reflected(t)
    BY <2>4 DEF Reflected, LockInv
  <2> QED BY <2>1, <2>2, <2>3, <2>4 DEF Consolidate
<1>3. \A u \in Threads : snapshot'[u] \subseteq snapshot[u]
  BY <1>1
<1>4. pending' \cap (Recorded' \cup InFlight') = {}
  <2>1. InFlight' \subseteq InFlight /\ snapshot[t] \subseteq InFlight
    BY <1>3 DEF InFlight
  <2> QED BY <1>1, <1>2, <2>1 DEF ObservedOnce
<1>5. ASSUME NEW u \in Threads, pc'[u] \in {"waiting", "observing"}
      PROVE  snapshot'[u] \cap Recorded' = {}
  <2>1. u # t /\ snapshot'[u] = snapshot[u] /\ pc'[u] = pc[u]
    BY <1>1, <1>5
  <2> QED BY <1>2, <1>5, <2>1 DEF ObservedOnce
<1>6. \A u, v \in Threads : u # v => snapshot'[u] \cap snapshot'[v] = {}
  BY <1>3 DEF ObservedOnce
<1> QED BY <1>4, <1>5, <1>6 DEF ObservedOnce

\* Until the process dies, no turn reaches the observer twice: not through two
\* tasks of the directory, and not once more after it was recorded.
THEOREM OnceObserved == Spec => []ObservedOnce
<1>1. Init => ObservedOnce
  BY DEF Init, ObservedOnce, InFlight, Recorded
<1>2. TypeOK /\ LockInv /\ PrivacyInv /\ ObservedOnce /\ [Next]_vars => ObservedOnce'
  <2> SUFFICES ASSUME TypeOK, LockInv, PrivacyInv, ObservedOnce, [Next]_vars PROVE ObservedOnce'
    OBVIOUS
  <2>1. CASE crash' # "none"
    BY <2>1 DEF ObservedOnce
  <2>2. CASE Next /\ crash' = "none"
    <3>1. crash = "none" /\ ~CleanCrash /\ ~TornCrash
      BY <2>2 DEF Next, CleanCrash, TornCrash, Restart, ToggleAnonymous, UserTurn, AskModel,
                  ToolRound, AnswerKeepsPending, AnswerObserves, AnswerWaits, LockAcquired,
                  Consolidate, ObserverEmpty, ObserverAppends, ObserverOverflows, Reflected,
                  ObserveRaises, Notified, Interrupt
    <3> QED BY <2>2, <3>1, TakingOnce, EndOnce DEF Next
  <2>3. CASE UNCHANGED vars
    BY <2>3 DEF vars, pendingVars, taskVars, logVars, ObservedOnce, Recorded, InFlight
  <2> QED BY <2>1, <2>2, <2>3
<1> QED BY <1>1, <1>2, TypeCorrect, LockSafe, PrivacySafe, PTL DEF Spec

-----------------------------------------------------------------------------
(* No tool reply without its call *)

\* A history in which every tool reply comes right after its call.
Paired(S) ==
    \A x \in S : x \in DOMAIN turns /\ (turns[x].role = "tool" => x - 1 \in S)

\* ... holds of what is in memory and of what a restart would read back.
PairInv ==
    /\ \A x \in DOMAIN turns : 
        turns[x].role = "tool" => x - 1 \in DOMAIN turns /\ turns[x - 1].role # "tool"
    /\ \A t \in Threads : Paired(mem[t]) /\ Paired(saved[t].ids)

\* Trimming cannot come between a call and its reply: a cut there would leave
\* the reply first, and StripTools takes leading replies away.
LEMMA CutPairs ==
    ASSUME TypeOK, PairInv, NEW t \in Threads, NEW cut \in Nat
    PROVE  Paired(Kept(t, cut))
<1> SUFFICES ASSUME NEW x \in Kept(t, cut), turns[x].role = "tool"
             PROVE  x - 1 \in Kept(t, cut)
  BY DEF Paired, Kept, StripTools, PairInv
<1>1. x \in mem[t] /\ x > cut /\ x - 1 \in mem[t] /\ turns[x - 1].role # "tool"
  BY DEF Kept, StripTools, PairInv, Paired
<1>2. x \in Nat /\ x - 1 \in Nat
  BY <1>1, BoundsAssumption DEF TypeOK, Ids
<1>3. PICK y \in mem[t] : y > cut /\ y <= x /\ turns[y].role # "tool"
  BY DEF Kept, StripTools
<1>4. y \in Nat
  BY BoundsAssumption DEF TypeOK, Ids
<1>5. x - 1 > cut /\ x - 1 <= x - 1
  BY <1>2, <1>3, <1>4
<1> QED BY <1>1, <1>5 DEF Kept, StripTools

\* What was paired stays so when turns are added, and a new turn that is no tool
\* reply fits anywhere.
LEMMA PairedGrows ==
    ASSUME NEW S, Paired(S), NEW N,
           \A x \in DOMAIN turns : x \in DOMAIN turns' /\ turns'[x] = turns[x],
           \A x \in N : x \in DOMAIN turns' /\ (turns'[x].role = "tool" => x - 1 \in N)
    PROVE  \A x \in S \cup N : x \in DOMAIN turns' /\ (turns'[x].role = "tool" => x - 1 \in S \cup N)
BY DEF Paired

\* A step that adds turns to a thread's memory, and perhaps saves it.
LEMMA GrowingPairs ==
    ASSUME TypeOK, PairInv, NEW t \in Threads, NEW N,
           \A x \in DOMAIN turns : x \in DOMAIN turns' /\ turns'[x] = turns[x],
           \A x \in N : /\ x \in DOMAIN turns'
                        /\ turns'[x].role = "tool" => x - 1 \in N /\ turns'[x - 1].role # "tool",
           DOMAIN turns' \subseteq DOMAIN turns \cup N,
           mem' = [mem EXCEPT ![t] = @ \cup N],
           \A u \in Threads : saved'[u].ids = saved[u].ids \/ saved'[u].ids = mem'[u]
    PROVE  PairInv'
<1>1. ASSUME NEW u \in Threads PROVE Paired(mem[u])'
  <2>1. mem'[u] = mem[u] \/ mem'[u] = mem[u] \cup N
    BY DEF TypeOK
  <2>2. Paired(mem[u])
    BY DEF PairInv
  <2> QED BY <2>1, <2>2, PairedGrows DEF Paired
<1>2. ASSUME NEW u \in Threads PROVE Paired(saved[u].ids)'
  <2>1. CASE saved'[u].ids = mem'[u]
    BY <2>1, <1>1 DEF Paired
  <2>2. CASE saved'[u].ids = saved[u].ids
    BY <2>2 DEF PairInv, Paired
  <2> QED BY <2>1, <2>2
<1>3. ASSUME NEW x \in DOMAIN turns', turns'[x].role = "tool"
      PROVE  x - 1 \in DOMAIN turns' /\ turns'[x - 1].role # "tool"
  <2>1. CASE x \in DOMAIN turns
    <3>1. x - 1 \in DOMAIN turns /\ turns[x - 1].role # "tool"
      BY <1>3, <2>1 DEF PairInv
    <3> QED BY <3>1
  <2>2. CASE x \in N
    BY <1>3, <2>2
  <2> QED BY <2>1, <2>2
<1> QED BY <1>1, <1>2, <1>3 DEF PairInv

\* Every step of a thread keeps PairInv.
LEMMA ThreadStepPairs ==
    ASSUME TypeOK, PairInv, NEW t \in Threads,
           \/ ToggleAnonymous(t) \/ UserTurn(t) \/ AskModel(t) \/ ToolRound(t)
           \/ AnswerKeepsPending(t) \/ AnswerObserves(t) \/ AnswerWaits(t)
           \/ LockAcquired(t) \/ Consolidate(t) \/ Interrupt(t)
    PROVE  PairInv'
<1> USE DEF memVars, pendingVars, taskVars, logVars
<1>1. ASSUME NEW role \in Roles, role # "tool", NextId \in Ids,
             turns' = Append(turns, NewTurn(t, role)),
             mem' = [mem EXCEPT ![t] = @ \cup {NextId}],
             \A u \in Threads : saved'[u].ids = saved[u].ids \/ saved'[u].ids = mem'[u]
      PROVE  PairInv'
  <2>1. /\ DOMAIN turns' = 1..NextId /\ DOMAIN turns = 1..Len(turns) /\ Len(turns) \in Nat
        /\ \A x \in DOMAIN turns : turns'[x] = turns[x]
    BY <1>1, AppendTurn DEF TypeOK
  <2>2. turns'[NextId].role = role
    <3>1. turns'[NextId] = NewTurn(t, role)
      BY <1>1, AppendTurn
    <3> QED BY <3>1 DEF NewTurn
  <2>3. /\ \A x \in DOMAIN turns : x \in DOMAIN turns' /\ turns'[x] = turns[x]
        /\ DOMAIN turns' \subseteq DOMAIN turns \cup {NextId} /\ NextId \in DOMAIN turns'
    BY <2>1 DEF NextId
  <2>4. \A x \in {NextId} : /\ x \in DOMAIN turns'
                            /\ turns'[x].role = "tool" => x - 1 \in {NextId} /\ turns'[x - 1].role # "tool"
    BY <1>1, <2>2, <2>3
  <2> QED BY <1>1, <2>3, <2>4, GrowingPairs
<1>2. ASSUME NEW o, saved' = saved \/ saved' = [saved EXCEPT ![t] = [ids |-> mem'[t], observed |-> o]]
      PROVE  \A u \in Threads : saved'[u].ids = saved[u].ids \/ saved'[u].ids = mem'[u]
  <2>1. CASE saved' = saved
    BY <2>1
  <2>2. CASE saved' = [saved EXCEPT ![t] = [ids |-> mem'[t], observed |-> o]]
    <3>1. ASSUME NEW u \in Threads
          PROVE  saved'[u] = IF u = t THEN [ids |-> mem'[t], observed |-> o] ELSE saved[u]
      BY <2>2 DEF TypeOK
    <3> QED BY <3>1
  <2> QED BY <1>2, <2>1, <2>2
<1>3. CASE UserTurn(t)
  BY <1>3, <1>1, <1>2 DEF UserTurn, Roles
<1>4. CASE AnswerKeepsPending(t)
  BY <1>4, <1>1, <1>2 DEF AnswerKeepsPending, Roles
<1>5. CASE AnswerObserves(t)
  BY <1>5, <1>1, <1>2 DEF AnswerObserves, Roles
<1>6. CASE AnswerWaits(t)
  BY <1>6, <1>1, <1>2 DEF AnswerWaits, Roles
<1>7. CASE ToolRound(t)
  <2>1. /\ DOMAIN turns' = 1..(NextId + 1) /\ DOMAIN turns = 1..Len(turns) /\ Len(turns) \in Nat
        /\ \A x \in DOMAIN turns : turns'[x] = turns[x]
    BY <1>7, AppendTurns DEF ToolRound, Roles, TypeOK
  <2>2. turns'[NextId].role # "tool"
    BY <1>7, <2>1 DEF ToolRound, NewTurn, NextId, TypeOK
  <2>3. /\ \A x \in DOMAIN turns : x \in DOMAIN turns' /\ turns'[x] = turns[x]
        /\ DOMAIN turns' \subseteq DOMAIN turns \cup {NextId, NextId + 1}
        /\ {NextId, NextId + 1} \subseteq DOMAIN turns'
        /\ (NextId + 1) - 1 = NextId
    BY <2>1 DEF NextId
  <2>4. /\ mem' = [mem EXCEPT ![t] = @ \cup {NextId, NextId + 1}]
        /\ \A u \in Threads : saved'[u].ids = saved[u].ids
    BY <1>7 DEF ToolRound
  <2>5. \A x \in {NextId, NextId + 1} :
           /\ x \in DOMAIN turns'
           /\ turns'[x].role = "tool" => x - 1 \in {NextId, NextId + 1} /\ turns'[x - 1].role # "tool"
    BY <2>2, <2>3
  <2> QED BY <2>3, <2>4, <2>5, GrowingPairs
<1>8. CASE AskModel(t)
  <2>1. PICK cut \in Cuts(t) :
          /\ mem' = [mem EXCEPT ![t] = Kept(t, cut)]
          /\ saved' = IF Kept(t, cut) = mem[t] THEN saved
                      ELSE [saved EXCEPT ![t] = [ids |-> Kept(t, cut), observed |-> observed'[t]]]
          /\ turns' = turns
    BY <1>8 DEF AskModel
  <2>2. cut \in Nat
    BY BoundsAssumption DEF Cuts, TypeOK, Ids
  <2>3. Paired(Kept(t, cut))
    BY <2>2, CutPairs
  <2>4. ASSUME NEW u \in Threads PROVE Paired(mem'[u]) /\ Paired(saved'[u].ids)
    <3>1. mem'[u] = mem[u] \/ mem'[u] = Kept(t, cut)
      BY <2>1 DEF TypeOK
    <3>2. saved'[u].ids = saved[u].ids \/ saved'[u].ids = Kept(t, cut)
      BY <2>1 DEF TypeOK
    <3> QED BY <2>3, <3>1, <3>2 DEF PairInv
  <2> QED BY <2>1, <2>4 DEF PairInv, Paired
<1>9. CASE LockAcquired(t)
  <2>1. /\ turns' = turns /\ mem' = mem
        /\ \A u \in Threads : saved'[u].ids = saved[u].ids \/ saved'[u].ids = mem[u]
    BY <1>9 DEF LockAcquired, TypeOK
  <2> QED BY <2>1 DEF PairInv, Paired
<1>10. CASE ToggleAnonymous(t) \/ Consolidate(t) \/ Interrupt(t)
  <2>1. turns' = turns /\ mem' = mem /\ saved' = saved
    BY <1>10 DEF ToggleAnonymous, Consolidate, ObserverEmpty, ObserverAppends,
                 ObserverOverflows, Reflected, ObserveRaises, Notified, Interrupt
  <2> QED BY <2>1 DEF PairInv, Paired
<1> QED BY <1>3, <1>4, <1>5, <1>6, <1>7, <1>8, <1>9, <1>10

\* What is sent to the model never has a tool reply without its call: neither
\* trimming nor a restart from what was saved separates the two.
THEOREM ToolsStayPaired == Spec => []ToolsPaired
<1>1. Init => PairInv
  BY DEF Init, PairInv, Paired
<1>2. TypeOK /\ PairInv /\ [Next]_vars => PairInv'
  <2> SUFFICES ASSUME TypeOK, PairInv, [Next]_vars PROVE PairInv'
    OBVIOUS
  <2>1. CASE \E t \in Threads :
               \/ ToggleAnonymous(t) \/ UserTurn(t) \/ AskModel(t) \/ ToolRound(t)
               \/ AnswerKeepsPending(t) \/ AnswerObserves(t) \/ AnswerWaits(t)
               \/ LockAcquired(t) \/ Consolidate(t) \/ Interrupt(t)
    BY <2>1, ThreadStepPairs
  <2>2. CASE CleanCrash \/ TornCrash
    <3>1. /\ turns' = turns /\ saved' = saved
          /\ \A t \in Threads : mem'[t] = saved[t].ids
      BY <2>2 DEF CleanCrash, TornCrash, Restart
    <3> QED BY <3>1 DEF PairInv, Paired
  <2>3. CASE UNCHANGED vars
    BY <2>3 DEF vars, memVars, PairInv, Paired
  <2> QED BY <2>1, <2>2, <2>3 DEF Next
<1>3. PairInv => ToolsPaired
  BY DEF PairInv, Paired, ToolsPaired
<1> QED BY <1>1, <1>2, <1>3, TypeCorrect, PTL DEF Spec

=============================================================================
