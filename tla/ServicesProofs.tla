---------------------------- MODULE ServicesProofs ----------------------------
(***************************************************************************)
(* What the services around the agent hold for every number of calls,      *)
(* mounts, tunnels, scripts, lines and tasks: parallel tool calls do not   *)
(* get in each other's way and what commands left in a container survives  *)
(* its replacement, the dashboard's proxy leaves no request waiting for a  *)
(* tunnel that is gone, the reader of a background shell misses no line,   *)
(* the cron does not deliver a run twice.                                  *)
(*                                                                         *)
(* They share no variable, and each has its invariant: the container       *)
(* changes under the lock, by one who knows its state; somebody            *)
(* who still acts holds whatever a request waits for; what is kept of the  *)
(* log is a beginning of it that was counted; the file's next run of a     *)
(* task is later than those delivered, until the tick has saved that.      *)
(***************************************************************************)
EXTENDS MCServices, FiniteSetTheorems, TLAPS

allVars == <<service, sandboxVars, proxyVars, fileVars, shellVars, schedulerVars, gameVars>>

-----------------------------------------------------------------------------
(* The container *)

\* The types that the proofs need; that the counts stay within their bounds is not
\* among them, so the bounds may be anything.
Typed ==
    /\ config \in Mounts
    /\ task \in [Tasks -> [stage : Stages, want : Mounts, n : Nat]]
    /\ box \in [state : {"none", "stopped", "running"}, mounts : Mounts,
                files : SUBSET Nat, procs : SUBSET Nat]
    /\ image \in [exists : BOOLEAN, files : SUBSET Nat]
    /\ commands \in Nat

\* The stages under the lock are those of its holder, and there is one.
LockInv ==
    /\ \A t \in Tasks : task[t].stage \in Holding <=> t \in lock
    /\ \A t, u \in lock : t = u

\* What the holder knows of the container since it has looked: nobody else creates or
\* removes it meanwhile, others only stop it.
KnownInv ==
    \A t \in Tasks :
        /\ At(t, "create") \/ At(t, "recreate") => ~Exists
        /\ At(t, "start") \/ At(t, "commit") => Exists

\* Where the files of the commands are: in the container, or in the image that the next
\* one begins with, which is committed before the container is removed.
FilesInv ==
    /\ Exists => installed \subseteq box.files
    /\ ~Exists => installed \subseteq FromImage /\ box.procs = {}
    /\ \A t \in Tasks : At(t, "remove") => installed \subseteq FromImage

ContainerInv == Typed /\ LockInv /\ KnownInv /\ FilesInv

\* It holds at the start.
LEMMA ContainerInit == Init => ContainerInv
BY DEF Init, ContainerInv, Typed, LockInv, KnownInv, FilesInv, Idle, Stages, Holding, At, Exists,
       FromImage, sandboxCounts

\* Steps of a call that do not change the container.
LEMMA CallKeeps ==
    ASSUME ContainerInv, NEW t \in Tasks, Call(t) \/ Locked(t) \/ Inspect(t) \/ Refused(t) \/ Synced(t)
    PROVE  ContainerInv'
<1> USE DEF ContainerInv, Typed, LockInv, KnownInv, FilesInv, Idle, Stages, Holding, At, Exists,
            FromImage, sandboxCounts, Go, Done, Release, LockFree
<1>1. CASE Call(t)
  BY <1>1 DEF Call, Commands
<1>2. CASE Locked(t)
  BY <1>2 DEF Locked
<1>3. CASE Inspect(t)
  BY <1>3 DEF Inspect, NextStage
<1>4. CASE Refused(t)
  BY <1>4 DEF Refused
<1>5. CASE Synced(t)
  BY <1>5 DEF Synced
<1> QED BY <1>1, <1>2, <1>3, <1>4, <1>5

\* What the podman command of each stage does, taken apart; a stage without a command
\* does nothing.
LEMMA EffectOf ==
    ASSUME ContainerInv, NEW t \in Tasks, Effect(t)
    PROVE  /\ At(t, "create") \/ At(t, "recreate")
                => box' = (IF Exists THEN box ELSE Fresh(t)) /\ image' = image
           /\ At(t, "start") => box' = [box EXCEPT !.state = "running"] /\ image' = image
           /\ At(t, "commit") => box' = box /\ image' = [exists |-> TRUE, files |-> box.files]
           /\ At(t, "remove")
                => /\ box' = [box EXCEPT !.state = "none", !.files = {}, !.procs = {}]
                   /\ image' = image
           /\ task[t].stage \in {"waiting", "inspect", "sync", "exec"} => UNCHANGED <<box, image>>
<1>1. CASE At(t, "create") \/ At(t, "recreate")
  BY <1>1 DEF Effect, At
<1>2. CASE At(t, "start")
  BY <1>2 DEF Effect, At
<1>3. CASE At(t, "commit")
  BY <1>3 DEF Effect, At
<1>4. CASE At(t, "remove")
  BY <1>4 DEF Effect, At
<1>5. CASE task[t].stage \in {"waiting", "inspect", "sync", "exec"}
  BY <1>5 DEF Effect, At
<1> QED BY <1>1, <1>2, <1>3, <1>4, <1>5 DEF At

\* The steps of the holder that change the container or the image.
LEMMA HolderKeeps ==
    ASSUME ContainerInv, NEW t \in Tasks, Brought(t) \/ Committed(t) \/ Removed(t)
    PROVE  ContainerInv'
<1> USE DEF ContainerInv, Typed, LockInv, KnownInv, FilesInv, Stages, Holding, At, Exists,
            FromImage, sandboxCounts, Go, Fresh
<1>1. CASE Brought(t)
  BY <1>1, EffectOf DEF Brought
<1>2. CASE Committed(t)
  <2>1. /\ box' = box /\ image' = [exists |-> TRUE, files |-> box.files]
        /\ task' = [task EXCEPT ![t].stage = "remove"]
        /\ task[t].stage = "commit" /\ box.state # "none"
        /\ UNCHANGED <<config, lock, installed, commands>>
    BY <1>2, EffectOf DEF Committed
  <2>2. installed \subseteq FromImage'
    BY <2>1
  <2> QED BY <2>1, <2>2
<1>3. CASE Removed(t)
  <2>1. /\ box' = [box EXCEPT !.state = "none", !.files = {}, !.procs = {}] /\ image' = image
        /\ task' = [task EXCEPT ![t].stage = "recreate"]
        /\ task[t].stage = "remove"
        /\ UNCHANGED <<config, lock, installed, commands>>
    BY <1>3, EffectOf DEF Removed
  <2>2. /\ box' \in [state : {"none"}, mounts : Mounts, files : {{}}, procs : {{}}]
        /\ installed \subseteq FromImage'
    BY <2>1
  <2> QED BY <2>1, <2>2
<1> QED BY <1>1, <1>2, <1>3

\* A call that fails or is stopped leaves the lock; podman may have done its work.
LEMMA MishapKeeps ==
    ASSUME ContainerInv, NEW t \in Tasks, PodmanFails(t) \/ Cancelled(t)
    PROVE  ContainerInv'
<1> USE DEF ContainerInv, Typed, LockInv, KnownInv, FilesInv, Stages, Holding, Idle, At, Exists,
            FromImage, Mishap, Done, Release, Fresh
<1>1. CASE PodmanFails(t)
  BY <1>1 DEF PodmanFails
<1>2. CASE Cancelled(t)
  <2>1. CASE UNCHANGED <<box, image>>
    BY <1>2, <2>1 DEF Cancelled
  <2>2. CASE Effect(t)
    <3>1. /\ task' = [task EXCEPT ![t] = [stage |-> "idle", want |-> task[t].want, n |-> 0]]
          /\ lock' = lock \ {t}
          /\ UNCHANGED <<config, installed, commands>>
      BY <1>2 DEF Cancelled
    <3>2. CASE At(t, "create") \/ At(t, "recreate")
      BY <2>2, <3>1, <3>2, EffectOf
    <3>3. CASE At(t, "start")
      BY <2>2, <3>1, <3>3, EffectOf
    <3>4. CASE At(t, "commit")
      <4>1. /\ box' = box /\ box.state # "none"
            /\ image' = [exists |-> TRUE, files |-> box.files] /\ installed \subseteq FromImage'
        BY <2>2, <3>1, <3>4, EffectOf
      <4> QED BY <3>1, <3>4, <4>1
    <3>5. CASE At(t, "remove")
      <4>1. /\ box' \in [state : {"none"}, mounts : Mounts, files : {{}}, procs : {{}}]
            /\ image' = image /\ installed \subseteq FromImage
        BY <2>2, <3>5, EffectOf
      <4> QED BY <3>1, <3>5, <4>1
    <3>6. CASE task[t].stage \in {"waiting", "inspect", "sync", "exec"}
      BY <2>2, <3>1, <3>6, EffectOf
    <3> QED BY <1>2, <3>2, <3>3, <3>4, <3>5, <3>6 DEF Cancelled
  <2> QED BY <1>2, <2>1, <2>2 DEF Cancelled
<1> QED BY <1>1, <1>2

\* Commands change the files, and what is installed, of a container that is there.
LEMMA ExecKeeps ==
    ASSUME ContainerInv, NEW t \in Tasks,
           ExecStarts(t) \/ ExecEnds(t) \/ ExecInterrupted(t) \/ Killed(t)
    PROVE  ContainerInv'
<1> USE DEF ContainerInv, Typed, LockInv, KnownInv, FilesInv, Stages, Holding, Idle, At, Exists,
            FromImage, sandboxCounts, Mishap, Go, Done, Release
<1>1. CASE ExecStarts(t)
  BY <1>1 DEF ExecStarts
<1>2. CASE ExecEnds(t)
  <2>1. /\ task' = [task EXCEPT ![t] = [stage |-> "idle", want |-> task[t].want, n |-> 0]]
        /\ lock' = lock \ {t} /\ task[t].stage = "running"
        /\ UNCHANGED <<config, image, commands>>
    BY <1>2 DEF ExecEnds
  <2>2. CASE task[t].n \in box.procs
    <3>1. box' = [state |-> box.state, mounts |-> box.mounts,
                  files |-> box.files \cup {task[t].n}, procs |-> box.procs \ {task[t].n}]
      BY <1>2, <2>2 DEF ExecEnds
    <3>2. installed' = (IF \E u \in Tasks : At(u, "remove") THEN installed
                        ELSE installed \cup {task[t].n})
      BY <1>2, <2>2 DEF ExecEnds
    <3>3. Typed' /\ LockInv' /\ KnownInv'
      BY <2>1, <3>1
    <3>4. CASE \E u \in Tasks : At(u, "remove")
      BY <2>1, <2>2, <3>1, <3>2, <3>3, <3>4
    <3>5. CASE ~\E u \in Tasks : At(u, "remove")
      BY <2>1, <2>2, <3>1, <3>2, <3>3, <3>5
    <3> QED BY <3>4, <3>5
  <2>3. CASE task[t].n \notin box.procs
    BY <1>2, <2>1, <2>3 DEF ExecEnds
  <2> QED BY <2>2, <2>3
<1>3. CASE ExecInterrupted(t)
  BY <1>3 DEF ExecInterrupted
<1>4. CASE Killed(t)
  BY <1>4 DEF Killed
<1> QED BY <1>1, <1>2, <1>3, <1>4

\* What happens around the calls.
LEMMA SurroundingsKeep ==
    ASSUME ContainerInv, ChangeMounts \/ BoxStops \/ Restart
    PROVE  ContainerInv'
<1> USE DEF ContainerInv, Typed, LockInv, KnownInv, FilesInv, Stages, Holding, Idle, At, Exists,
            FromImage, Mishap
<1>1. CASE ChangeMounts
  BY <1>1 DEF ChangeMounts
<1>2. CASE BoxStops
  BY <1>2 DEF BoxStops
<1>3. CASE Restart
  BY <1>3 DEF Restart
<1> QED BY <1>1, <1>2, <1>3

LEMMA ContainerStep == ASSUME ContainerInv, Next PROVE ContainerInv'
BY CallKeeps, HolderKeeps, MishapKeeps, ExecKeeps, SurroundingsKeep DEF Next, Ensure, Exec

LEMMA ContainerRests == ASSUME ContainerInv, UNCHANGED sandboxVars PROVE ContainerInv'
BY DEF sandboxVars, sandboxCounts, ContainerInv, Typed, LockInv, KnownInv, FilesInv, At, Exists, FromImage

\* The lock has one holder, what it knows of the container stays so, and the files of the
\* commands are where the next container finds them (SandboxManager._ensure).
THEOREM HolderAlone == MCSpec => []ContainerInv
<1>1. MCInit => ContainerInv
  BY ContainerInit DEF MCInit
<1>2. ContainerInv /\ [MCNext]_allVars => ContainerInv'
  <2> SUFFICES ASSUME ContainerInv, [MCNext]_allVars PROVE ContainerInv'
    OBVIOUS
  <2>1. CASE Next BY <2>1, ContainerStep
  <2>2. CASE UNCHANGED sandboxVars BY <2>2, ContainerRests
  <2> QED BY <2>1, <2>2 DEF MCNext, allVars
<1> QED BY <1>1, <1>2, PTL DEF MCSpec, allVars

\* The container is kept. Podman is never asked to create one while one of that name
\* exists: what a call saw before its `run` still holds, as it has the lock. And what
\* commands left is in the container, or in the image the next one is made from: the
\* commit, the removal and the new `run` are three steps, and a failure, a stop or a
\* restart may fall between any two of them.
THEOREM ContainerSafe == MCSpec => []ContainerKept
<1>1. ContainerInv => NameFree
  BY DEF ContainerInv, KnownInv, NameFree
<1>2. ContainerInv => StateSurvives
  BY DEF ContainerInv, FilesInv, StateSurvives, FromImage
<1> QED BY <1>1, <1>2, HolderAlone, PTL DEF ContainerKept

-----------------------------------------------------------------------------
(* The proxy *)

ProxyFrames == [request : Proxy!Requests \cup {Proxy!NoRequest}, kind : Proxy!FrameKinds]

\* A frame to a script is its answer; Nothing and the answer of a script are the last
\* that a request is given, for with them it leaves the table.
Fits(f) == f.request \in Scripts => f.kind \in {"answer", "nothing"}
Final(r, f) == f.kind = "nothing" \/ r \in Scripts

ProxyTypes ==
    /\ tunnel \in 0..MaxTunnels /\ opened \in 0..MaxTunnels /\ link \in 0..MaxTunnels
    /\ handlers \subseteq 1..opened
    /\ stage \in [Proxy!Requests -> Proxy!Stages]
    /\ inbox \in [Proxy!Requests -> Seq(ProxyFrames)]
    /\ table \subseteq Proxy!Requests
    /\ over \in [Proxy!Requests -> 0..MaxTunnels]
    /\ starter \in Proxy!Requests \cup {Proxy!NoRequest}
    /\ worker \in {"none", "dialing", "linked"}
    /\ failures \in 0..MaxFailures /\ proxyMishaps \in 0..MaxProxyMishaps
    /\ toWorker \in Seq(Proxy!Requests)
    /\ jobs \in [Proxy!Requests -> {"none", "answer", "start", "chunk", "end"}]
    /\ fromWorker \in [Proxy!Tunnels -> Seq(ProxyFrames)]

\* The worker still has an attempt left while it is one.
WorkerLives == worker # "none" => failures < MaxFailures

\* The task of a script sends one frame, so that only answers are on their way to one.
ScriptsAnswered ==
    /\ \A r \in Scripts : jobs[r] \in {"none", "answer"}
    /\ \A t \in Proxy!Tunnels : \A i \in 1..Len(fromWorker[t]) : Fits(fromWorker[t][i])

\* The tunnel that is current has a handler, which will tell the table of its end.
TunnelHandled == tunnel # 0 => tunnel \in handlers

\* While a request under way is in the table, the handler of its tunnel runs; once it has
\* left, what it is to read ends with its last frame.
Served(r) ==
    /\ stage[r] = "reading" => tunnel \in handlers
    /\ stage[r] \in {"waiting", "streaming"} => over[r] \in handlers
Ending(r) == inbox[r] # <<>> /\ Final(r, inbox[r][Len(inbox[r])])
SomeoneTells ==
    \A r \in Proxy!Requests :
        stage[r] \in {"reading", "waiting", "streaming"} =>
            IF r \in table THEN Served(r) ELSE Ending(r)
\* A script is given nothing before its answer, and no more after it.
ScriptsReadOnce ==
    \A r \in Scripts :
        /\ stage[r] # "streaming"
        /\ \A i \in 1..Len(inbox[r]) : inbox[r][i].kind \in {"answer", "nothing"}

ProxyInv ==
    /\ ProxyTypes /\ WorkerLives /\ ScriptsAnswered /\ TunnelHandled /\ SomeoneTells
    /\ ScriptsReadOnce

\* Sequences: what is added comes last, what is taken leaves the end alone.
LEMMA AddedLast ==
    ASSUME NEW S, NEW s \in Seq(S), NEW e \in S
    PROVE  /\ Append(s, e) \in Seq(S) /\ Append(s, e) # <<>>
           /\ Len(Append(s, e)) = Len(s) + 1 /\ Append(s, e)[Len(Append(s, e))] = e
           /\ \A i \in 1..Len(s) : Append(s, e)[i] = s[i]
    OBVIOUS
LEMMA EmptyIs == ASSUME NEW S PROVE <<>> \in Seq(S)
    OBVIOUS
LEMMA TakenFirst ==
    ASSUME NEW S, NEW s \in Seq(S), s # <<>>
    PROVE  /\ Tail(s) \in Seq(S) /\ Len(Tail(s)) = Len(s) - 1 /\ Head(s) = s[1] /\ Head(s) \in S
           /\ \A i \in 1..Len(Tail(s)) : i + 1 \in 1..Len(s) /\ Tail(s)[i] = s[i + 1]
           /\ Tail(s) # <<>> => Tail(s)[Len(Tail(s))] = s[Len(s)]
           /\ Tail(s) = <<>> => Head(s) = s[Len(s)]
    OBVIOUS

LEMMA ProxyInit == Proxy!Init => ProxyInv
<1> SUFFICES ASSUME Proxy!Init PROVE ProxyInv
    OBVIOUS
<1> USE ProxyAssumption DEF Proxy!Init
<1>1. ProxyTypes
    BY DEF ProxyTypes, Proxy!Stages, Proxy!Settled
<1>2. WorkerLives /\ ScriptsAnswered /\ TunnelHandled /\ SomeoneTells /\ ScriptsReadOnce
    BY DEF WorkerLives, ScriptsAnswered, TunnelHandled, SomeoneTells, ScriptsReadOnce,
           Proxy!Requests, Proxy!Tunnels
<1> QED BY <1>1, <1>2 DEF ProxyInv

\* What a request reads and where it stands, after a step that leaves the handlers alone
\* or takes none away.
LEMMA ProxyHost ==
    ASSUME ProxyInv, NEW r \in Proxy!Requests,
           Proxy!Ask(r) \/ Proxy!TakeLock(r) \/ Proxy!Resume(r) \/ Proxy!StartFails(r) \/ Proxy!Send(r)
    PROVE  ProxyInv'
<1> USE ProxyAssumption DEF ProxyInv, Proxy!hostVars, Proxy!workerVars, Proxy!Register
<1>1. ProxyTypes'
  <2> USE DEF ProxyTypes, Proxy!Stages, Proxy!Settled
  <2>1. CASE Proxy!Ask(r) BY <2>1 DEF Proxy!Ask
  <2>2. CASE Proxy!TakeLock(r)
    <3>1. CASE tunnel # 0 BY <2>2, <3>1 DEF Proxy!TakeLock
    <3>2. CASE tunnel = 0
      <4>0. [j \in Proxy!Requests |-> "none"]
                \in [Proxy!Requests -> {"none", "answer", "start", "chunk", "end"}]
        OBVIOUS
      <4>1. /\ toWorker' \in Seq(Proxy!Requests)
            /\ jobs' \in [Proxy!Requests -> {"none", "answer", "start", "chunk", "end"}]
        <5>1. <<>> \in Seq(Proxy!Requests) BY EmptyIs
        <5>2. toWorker' = <<>> /\ jobs' = [j \in Proxy!Requests |-> "none"]
          BY <2>2, <3>2 DEF Proxy!TakeLock
        <5> QED BY <4>0, <5>1, <5>2
      <4>2. stage' \in [Proxy!Requests -> Proxy!Stages] /\ starter' \in Proxy!Requests
        BY <2>2, <3>2 DEF Proxy!TakeLock
      <4> QED BY <2>2, <3>2, <4>1, <4>2 DEF Proxy!TakeLock
    <3> QED BY <3>1, <3>2 DEF ProxyTypes
  <2>3. CASE Proxy!Resume(r) BY <2>3 DEF Proxy!Resume
  <2>4. CASE Proxy!StartFails(r) BY <2>4 DEF Proxy!StartFails
  <2>5. CASE Proxy!Send(r) BY <2>5 DEF Proxy!Send
  <2> QED BY <2>1, <2>2, <2>3, <2>4, <2>5
<1>2. WorkerLives' /\ TunnelHandled'
  BY DEF WorkerLives, TunnelHandled, Proxy!Ask, Proxy!TakeLock, Proxy!Resume, Proxy!StartFails,
         Proxy!Send
<1>3. ScriptsAnswered'
  <2>1. Scripts \subseteq Proxy!Requests BY DEF Proxy!Requests
  <2>2. fromWorker' = fromWorker /\ (jobs' = jobs \/ jobs' = [j \in Proxy!Requests |-> "none"])
    BY DEF Proxy!Ask, Proxy!TakeLock, Proxy!Resume, Proxy!StartFails, Proxy!Send
  <2> QED BY <2>1, <2>2 DEF ScriptsAnswered, Fits
<1>4. SomeoneTells'
  <2> USE DEF ProxyTypes, SomeoneTells, Served, Ending, Final, TunnelHandled
  <2>1. CASE Proxy!Ask(r) BY <2>1 DEF Proxy!Ask
  <2>2. CASE Proxy!TakeLock(r) BY <2>2 DEF Proxy!TakeLock
  <2>3. CASE Proxy!Resume(r) BY <2>3 DEF Proxy!Resume
  <2>4. CASE Proxy!StartFails(r) BY <2>4 DEF Proxy!StartFails
  <2>5. CASE Proxy!Send(r) BY <2>5 DEF Proxy!Send
  <2> QED BY <2>1, <2>2, <2>3, <2>4, <2>5
<1>5. ScriptsReadOnce'
  <2>1. inbox' = inbox
    BY DEF Proxy!Ask, Proxy!TakeLock, Proxy!Resume, Proxy!StartFails, Proxy!Send
  <2>2. \A q \in Proxy!Requests : stage'[q] = "streaming" => stage[q] = "streaming"
    BY DEF ProxyTypes, Proxy!Ask, Proxy!TakeLock, Proxy!Resume, Proxy!StartFails, Proxy!Send
  <2> QED BY <2>1, <2>2 DEF ScriptsReadOnce, Proxy!Requests
<1> QED BY <1>1, <1>2, <1>3, <1>4, <1>5

LEMMA ProxyTake ==
    ASSUME ProxyInv, NEW r \in Proxy!Requests, Proxy!Take(r) PROVE ProxyInv'
<1> USE ProxyAssumption DEF ProxyInv, Proxy!hostVars, Proxy!workerVars
<1>1. /\ inbox[r] \in Seq(ProxyFrames) /\ inbox[r] # <<>>
      /\ Tail(inbox[r]) \in Seq(ProxyFrames)
      /\ Len(Tail(inbox[r])) = Len(inbox[r]) - 1 /\ Head(inbox[r]) = inbox[r][1]
      /\ Head(inbox[r]) \in ProxyFrames
      /\ \A i \in 1..Len(Tail(inbox[r])) :
           i + 1 \in 1..Len(inbox[r]) /\ Tail(inbox[r])[i] = inbox[r][i + 1]
      /\ Tail(inbox[r]) # <<>> => Tail(inbox[r])[Len(Tail(inbox[r]))] = inbox[r][Len(inbox[r])]
      /\ Tail(inbox[r]) = <<>> => Head(inbox[r]) = inbox[r][Len(inbox[r])]
  <2>1. inbox[r] \in Seq(ProxyFrames) /\ inbox[r] # <<>>
    BY DEF ProxyTypes, Proxy!Take
  <2> HIDE DEF ProxyInv
  <2> QED BY <2>1, TakenFirst
<1>2. inbox' = [inbox EXCEPT ![r] = Tail(inbox[r])] /\ \A q \in Proxy!Requests : q # r => inbox'[q] = inbox[q]
  BY DEF Proxy!Take, ProxyTypes
<1>3. PICK kind : kind = Head(inbox[r]).kind
  OBVIOUS
<1>4. /\ stage' = [stage EXCEPT ![r] = stage'[r]]
      /\ stage'[r] \in {"done", "failed", "streaming"}
      /\ stage'[r] = "streaming" =>
           /\ table' = table
           /\ stage[r] \in {"waiting", "streaming"}
           /\ kind \in {"start", "chunk"}
      /\ table' = table \/ table' = table \ {r}
  <2> USE <1>3 DEF Proxy!Take, ProxyTypes
  <2>1. CASE stage[r] = "waiting" /\ kind = "start" BY <2>1
  <2>2. CASE stage[r] = "waiting" /\ kind # "start" BY <2>2
  <2>3. CASE stage[r] = "streaming" /\ kind \in {"start", "chunk"} BY <2>3
  <2>4. CASE stage[r] = "streaming" /\ kind \in {"end", "nothing"} BY <2>4
  <2> QED BY <2>1, <2>2, <2>3, <2>4
<1>5. UNCHANGED <<tunnel, handlers, opened, over, starter, worker, failures, link, toWorker, jobs,
                  fromWorker, proxyMishaps>>
  BY DEF Proxy!Take
<1>6. ProxyTypes'
  BY <1>1, <1>2, <1>4, <1>5 DEF ProxyTypes, Proxy!Stages, Proxy!Settled
<1>7. WorkerLives' /\ TunnelHandled' /\ ScriptsAnswered'
  BY <1>5 DEF WorkerLives, TunnelHandled, ScriptsAnswered, Fits
<1>8. r \in Scripts => kind \in {"answer", "nothing"}
  BY <1>1, <1>3 DEF ScriptsReadOnce, ProxyTypes
<1>9. SomeoneTells'
  <2> SUFFICES ASSUME NEW q \in Proxy!Requests, stage'[q] \in {"reading", "waiting", "streaming"}
               PROVE  IF q \in table' THEN Served(q)' ELSE Ending(q)'
    BY DEF SomeoneTells
  <2>1. CASE q # r
    BY <2>1, <1>2, <1>4, <1>5 DEF SomeoneTells, Served, Ending, Final, ProxyTypes
  <2>2. CASE q = r
    <3>1. stage'[r] = "streaming" /\ inbox'[r] = Tail(inbox[r]) /\ table' = table
      BY <2>2, <1>2, <1>4 DEF ProxyTypes
    <3>2. CASE r \in table
      BY <2>2, <3>1, <3>2, <1>4, <1>5 DEF SomeoneTells, Served
    <3>3. CASE r \notin table
      <4>1. Ending(r) BY <3>1, <3>3, <1>4 DEF SomeoneTells
      <4>2. Tail(inbox[r]) # <<>>
        BY <4>1, <3>1, <1>1, <1>3, <1>4, <1>8 DEF Ending, Final
      <4> QED BY <2>2, <3>1, <3>3, <4>1, <4>2, <1>1 DEF Ending, Final
    <3> QED BY <3>2, <3>3
  <2> QED BY <2>1, <2>2
<1>10. ScriptsReadOnce'
  <2> SUFFICES ASSUME NEW q \in Scripts
               PROVE  /\ stage'[q] # "streaming"
                      /\ \A i \in 1..Len(inbox'[q]) : inbox'[q][i].kind \in {"answer", "nothing"}
    BY DEF ScriptsReadOnce
  <2>1. q \in Proxy!Requests BY DEF Proxy!Requests
  <2>2. CASE q # r BY <2>1, <2>2, <1>2, <1>4 DEF ScriptsReadOnce, ProxyTypes
  <2>3. CASE q = r
    <3>1. inbox'[r] = Tail(inbox[r]) BY <1>2 DEF ProxyTypes
    <3> QED BY <2>3, <3>1, <1>1, <1>4, <1>8 DEF ScriptsReadOnce
  <2> QED BY <2>2, <2>3
<1> QED BY <1>6, <1>7, <1>9, <1>10

LEMMA ProxyLeaves ==
    ASSUME ProxyInv, NEW r \in Proxy!Requests, Proxy!Expire(r) \/ Proxy!Leave(r) PROVE ProxyInv'
<1> USE ProxyAssumption DEF ProxyInv, Proxy!hostVars, Proxy!workerVars
<1>1. ProxyTypes'
  <2> USE DEF ProxyTypes, Proxy!Stages, Proxy!Settled
  <2>1. CASE Proxy!Expire(r) BY <2>1 DEF Proxy!Expire
  <2>2. CASE Proxy!Leave(r) BY <2>2 DEF Proxy!Leave
  <2> QED BY <2>1, <2>2
<1>2. WorkerLives' /\ TunnelHandled'
  BY DEF WorkerLives, TunnelHandled, Proxy!Expire, Proxy!Leave
<1>3. /\ fromWorker' = fromWorker /\ inbox' = inbox /\ handlers' = handlers /\ over' = over
      /\ tunnel' = tunnel
      /\ \A q \in Proxy!Requests : (stage'[q] = stage[q] /\ (q \in table <=> q \in table'))
                                \/ stage'[q] = "failed"
      /\ \A q \in Scripts : jobs'[q] = jobs[q]
  <2>1. CASE Proxy!Expire(r) BY <2>1 DEF Proxy!Expire, ProxyTypes
  <2>2. CASE Proxy!Leave(r) BY <2>2 DEF Proxy!Leave, ProxyTypes, Proxy!Requests
  <2> QED BY <2>1, <2>2
<1>4. ScriptsAnswered'
  BY <1>3 DEF ScriptsAnswered, Fits
<1>5. SomeoneTells'
  BY <1>3 DEF SomeoneTells, Served, Ending, Final
<1>6. ScriptsReadOnce'
  BY <1>3 DEF ScriptsReadOnce, Proxy!Requests
<1> QED BY <1>1, <1>2, <1>4, <1>5, <1>6

LEMMA ProxyAccept ==
    ASSUME ProxyInv, Proxy!Accept PROVE ProxyInv'
<1> USE ProxyAssumption DEF ProxyInv
<1>1. /\ opened < MaxTunnels /\ opened' = opened + 1 /\ tunnel' = opened + 1
      /\ handlers' = handlers \cup {opened + 1} /\ link' = opened + 1 /\ worker' = "linked"
      /\ failures' = 0
      /\ UNCHANGED <<inbox, table, over, starter, toWorker, jobs, fromWorker, proxyMishaps>>
      /\ stage' = [r \in Proxy!Requests |-> IF stage[r] = "starting" THEN "woken" ELSE stage[r]]
  BY DEF Proxy!Accept
<1>2. \A r \in Proxy!Requests : stage'[r] = stage[r] \/ stage'[r] = "woken"
  BY <1>1
<1>3. stage' \in [Proxy!Requests -> Proxy!Stages]
  BY <1>1 DEF ProxyTypes, Proxy!Stages
<1>4. ProxyTypes'
  BY <1>1, <1>3 DEF ProxyTypes
<1>5. WorkerLives' /\ TunnelHandled'
  BY <1>1 DEF WorkerLives, TunnelHandled
<1>6. ScriptsAnswered'
  BY <1>1 DEF ScriptsAnswered, Fits
<1>7. SomeoneTells'
  BY <1>1, <1>2 DEF SomeoneTells, Served, Ending, Final, TunnelHandled
<1>8. ScriptsReadOnce'
  BY <1>1, <1>2 DEF ScriptsReadOnce, Proxy!Requests
<1> QED BY <1>4, <1>5, <1>6, <1>7, <1>8

LEMMA ProxyRoute ==
    ASSUME ProxyInv, NEW t \in Proxy!Tunnels, Proxy!Route(t) PROVE ProxyInv'
<1> USE ProxyAssumption DEF ProxyInv, Proxy!hostVars, Proxy!workerVars
<1>1. PICK frame : frame = Head(fromWorker[t])
  OBVIOUS
<1>2. /\ fromWorker[t] \in Seq(ProxyFrames) /\ fromWorker[t] # <<>>
      /\ Tail(fromWorker[t]) \in Seq(ProxyFrames)
      /\ frame = fromWorker[t][1] /\ frame \in ProxyFrames /\ 1 \in 1..Len(fromWorker[t])
      /\ \A i \in 1..Len(Tail(fromWorker[t])) :
           i + 1 \in 1..Len(fromWorker[t]) /\ Tail(fromWorker[t])[i] = fromWorker[t][i + 1]
  <2>1. fromWorker[t] \in Seq(ProxyFrames) /\ fromWorker[t] # <<>>
    BY DEF ProxyTypes, Proxy!Route
  <2>2. 1 \in 1..Len(fromWorker[t]) BY <2>1
  <2> HIDE DEF ProxyInv
  <2> QED BY <2>1, <2>2, <1>1, TakenFirst
<1>3. /\ inbox' = [r \in Proxy!Requests |-> IF r = frame.request /\ r \in table
                                             THEN Append(inbox[r], frame) ELSE inbox[r]]
      /\ table' = table \ ({frame.request} \cap Scripts)
      /\ fromWorker' = [fromWorker EXCEPT ![t] = Tail(fromWorker[t])]
      /\ UNCHANGED <<tunnel, handlers, opened, stage, over, starter, worker, failures, link,
                     toWorker, jobs, proxyMishaps>>
  BY <1>1 DEF Proxy!Route
<1>4. \A r \in Proxy!Requests : Append(inbox[r], frame) \in Seq(ProxyFrames)
  BY <1>2 DEF ProxyTypes
<1>5. ProxyTypes'
  BY <1>2, <1>3, <1>4 DEF ProxyTypes
<1>6. WorkerLives' /\ TunnelHandled'
  BY <1>3 DEF WorkerLives, TunnelHandled
<1>7. frame.request \in Scripts => frame.kind \in {"answer", "nothing"}
  BY <1>2 DEF ScriptsAnswered, Fits
<1>8. ScriptsAnswered'
  <2>1. \A u \in Proxy!Tunnels : u # t => fromWorker'[u] = fromWorker[u]
    BY <1>3 DEF ProxyTypes
  <2>2. fromWorker'[t] = Tail(fromWorker[t])
    BY <1>3 DEF ProxyTypes
  <2> QED BY <1>2, <1>3, <2>1, <2>2 DEF ScriptsAnswered, Fits
<1>9. \A r \in Proxy!Requests :
         \/ inbox'[r] = inbox[r] /\ (r \in table <=> r \in table')
         \/ /\ inbox'[r] = Append(inbox[r], frame) /\ r = frame.request
            /\ r \notin Scripts <=> r \in table'
            /\ r \in table
  BY <1>3
<1>10. SomeoneTells'
  <2> SUFFICES ASSUME NEW r \in Proxy!Requests, stage[r] \in {"reading", "waiting", "streaming"}
               PROVE  IF r \in table' THEN Served(r) ELSE Ending(r)'
    BY <1>3 DEF SomeoneTells, Served
  <2>1. CASE inbox'[r] = inbox[r] /\ (r \in table <=> r \in table')
    BY <2>1 DEF SomeoneTells, Ending, Final
  <2>2. CASE inbox'[r] = Append(inbox[r], frame) /\ r \in Scripts /\ r \notin table'
    <3>1. inbox[r] \in Seq(ProxyFrames) BY DEF ProxyTypes
    <3>2. Append(inbox[r], frame) # <<>>
      BY <3>1, <1>2, AddedLast
    <3> QED BY <2>2, <3>2 DEF Ending, Final
  <2>3. CASE r \in table /\ r \in table'
    BY <2>3 DEF SomeoneTells
  <2> QED BY <2>1, <2>2, <2>3, <1>9
<1>11. ScriptsReadOnce'
  <2> SUFFICES ASSUME NEW r \in Scripts
               PROVE  \A i \in 1..Len(inbox'[r]) : inbox'[r][i].kind \in {"answer", "nothing"}
    BY <1>3 DEF ScriptsReadOnce
  <2>1. r \in Proxy!Requests /\ inbox[r] \in Seq(ProxyFrames) BY DEF Proxy!Requests, ProxyTypes
  <2>2. \A i \in 1..Len(inbox[r]) : inbox[r][i].kind \in {"answer", "nothing"}
    BY DEF ScriptsReadOnce
  <2>3. CASE inbox'[r] = inbox[r] BY <2>2, <2>3
  <2>4. CASE inbox'[r] = Append(inbox[r], frame) /\ r = frame.request
    BY <2>1, <2>2, <2>4, <1>2, <1>7
  <2> QED BY <2>1, <2>3, <2>4, <1>9
<1> QED BY <1>5, <1>6, <1>8, <1>10, <1>11

LEMMA ProxyDisconnect ==
    ASSUME ProxyInv, NEW t \in Proxy!Tunnels, Proxy!Disconnect(t) PROVE ProxyInv'
<1> USE ProxyAssumption DEF ProxyInv
<1>1. /\ handlers' = handlers \ {t} /\ tunnel' = (IF tunnel = t THEN 0 ELSE tunnel)
      /\ inbox' = [r \in Proxy!Requests |-> IF r \in table THEN Append(inbox[r], Proxy!Nothing)
                                            ELSE inbox[r]]
      /\ table' = {}
      /\ fromWorker' = [fromWorker EXCEPT ![t] = <<>>]
      /\ UNCHANGED <<opened, stage, over, starter, worker, failures, link, toWorker, jobs,
                     proxyMishaps>>
  BY DEF Proxy!Disconnect, Proxy!Told, Proxy!workerVars
<1>2. Proxy!Nothing \in ProxyFrames /\ Proxy!Nothing.kind = "nothing"
  BY DEF Proxy!Nothing, ProxyFrames, Proxy!FrameKinds
<1>3. \A r \in Proxy!Requests : Append(inbox[r], Proxy!Nothing) \in Seq(ProxyFrames)
  BY <1>2 DEF ProxyTypes
<1>4. ProxyTypes'
  <2>1. inbox' \in [Proxy!Requests -> Seq(ProxyFrames)]
    BY <1>1, <1>3 DEF ProxyTypes
  <2>2. fromWorker' \in [Proxy!Tunnels -> Seq(ProxyFrames)]
    <3>1. <<>> \in Seq(ProxyFrames) BY EmptyIs
    <3>2. fromWorker \in [Proxy!Tunnels -> Seq(ProxyFrames)] BY DEF ProxyTypes
    <3>3. [fromWorker EXCEPT ![t] = <<>>] \in [Proxy!Tunnels -> Seq(ProxyFrames)]
      BY <3>1, <3>2
    <3> QED BY <1>1, <3>3
  <2>3. tunnel' \in 0..MaxTunnels /\ handlers' \subseteq 1..opened /\ table' \subseteq Proxy!Requests
    <3>1. tunnel' \in {0, tunnel} /\ handlers' \subseteq handlers /\ table' = {}
      BY <1>1
    <3>2. tunnel \in 0..MaxTunnels /\ handlers \subseteq 1..opened
      BY DEF ProxyTypes
    <3> QED BY <3>1, <3>2
  <2>4. UNCHANGED <<opened, stage, over, starter, worker, failures, link, toWorker, jobs,
                    proxyMishaps>>
    BY <1>1
  <2>5. opened' \in 0..MaxTunnels /\ link' \in 0..MaxTunnels /\ handlers' \subseteq 1..opened'
    BY <2>3, <2>4 DEF ProxyTypes
  <2>6. /\ stage' \in [Proxy!Requests -> Proxy!Stages]
        /\ over' \in [Proxy!Requests -> 0..MaxTunnels]
        /\ starter' \in Proxy!Requests \cup {Proxy!NoRequest}
        /\ worker' \in {"none", "dialing", "linked"}
        /\ failures' \in 0..MaxFailures /\ proxyMishaps' \in 0..MaxProxyMishaps
    BY <2>4 DEF ProxyTypes
  <2>7. /\ toWorker' \in Seq(Proxy!Requests)
        /\ jobs' \in [Proxy!Requests -> {"none", "answer", "start", "chunk", "end"}]
    BY <2>4 DEF ProxyTypes
  <2> QED BY <2>1, <2>2, <2>3, <2>5, <2>6, <2>7 DEF ProxyTypes
<1>5. WorkerLives' /\ TunnelHandled'
  BY <1>1 DEF WorkerLives, TunnelHandled
<1>6. ScriptsAnswered'
  BY <1>1 DEF ScriptsAnswered, Fits, ProxyTypes
<1>7. SomeoneTells'
  <2> SUFFICES ASSUME NEW r \in Proxy!Requests, stage[r] \in {"reading", "waiting", "streaming"}
               PROVE  Ending(r)'
    BY <1>1 DEF SomeoneTells
  <2>1. CASE r \in table
    <3>1. inbox[r] \in Seq(ProxyFrames) /\ inbox'[r] = Append(inbox[r], Proxy!Nothing)
      BY <2>1, <1>1 DEF ProxyTypes
    <3> QED BY <3>1, <1>2 DEF Ending, Final
  <2>2. CASE r \notin table
    BY <2>2, <1>1 DEF SomeoneTells, Ending, Final
  <2> QED BY <2>1, <2>2
<1>8. ScriptsReadOnce'
  <2> SUFFICES ASSUME NEW r \in Scripts
               PROVE  \A i \in 1..Len(inbox'[r]) : inbox'[r][i].kind \in {"answer", "nothing"}
    BY <1>1 DEF ScriptsReadOnce
  <2>1. r \in Proxy!Requests /\ inbox[r] \in Seq(ProxyFrames) BY DEF Proxy!Requests, ProxyTypes
  <2>2. \A i \in 1..Len(inbox[r]) : inbox[r][i].kind \in {"answer", "nothing"}
    BY DEF ScriptsReadOnce
  <2>3. CASE inbox'[r] = inbox[r] BY <2>2, <2>3
  <2>4. CASE inbox'[r] = Append(inbox[r], Proxy!Nothing)
    BY <2>1, <2>2, <2>4, <1>2
  <2> QED BY <2>1, <2>3, <2>4, <1>1
<1> QED BY <1>4, <1>5, <1>6, <1>7, <1>8

LEMMA ProxyWorker ==
    ASSUME ProxyInv, Proxy!Start \/ Proxy!LoseTunnel \/ Proxy!DialFails PROVE ProxyInv'
<1> USE ProxyAssumption DEF ProxyInv
<1>1. UNCHANGED <<tunnel, handlers, opened, stage, inbox, table, over, starter, fromWorker>>
  BY DEF Proxy!Start, Proxy!LoseTunnel, Proxy!DialFails, Proxy!CountFailure, Proxy!hostVars
<1>2. CASE Proxy!Start
  <2>1. /\ toWorker \in Seq(Proxy!Requests) /\ toWorker # <<>>
        /\ Tail(toWorker) \in Seq(Proxy!Requests) /\ Head(toWorker) \in Proxy!Requests
    BY <1>2 DEF Proxy!Start, ProxyTypes
  <2>2. /\ toWorker' = Tail(toWorker)
        /\ jobs' = [jobs EXCEPT ![Head(toWorker)] =
                        IF Head(toWorker) \in Scripts THEN "answer" ELSE "start"]
        /\ UNCHANGED <<worker, failures, link, proxyMishaps>>
    BY <1>2 DEF Proxy!Start
  <2>3. ProxyTypes'
    BY <2>1, <2>2, <1>1 DEF ProxyTypes
  <2>4. ScriptsAnswered'
    BY <2>1, <2>2, <1>1 DEF ScriptsAnswered, Fits, ProxyTypes
  <2> QED BY <2>2, <2>3, <2>4, <1>1 DEF WorkerLives, TunnelHandled, SomeoneTells, Served, Ending,
             Final, ScriptsReadOnce
<1>3. CASE Proxy!LoseTunnel \/ Proxy!DialFails
  <2>1. /\ worker # "none" /\ proxyMishaps < MaxProxyMishaps
        /\ proxyMishaps' = proxyMishaps + 1
        /\ failures' = failures + 1
        /\ worker' = (IF failures + 1 >= MaxFailures THEN "none" ELSE "dialing")
        /\ link' = 0 /\ toWorker' = <<>> /\ jobs' = [r \in Proxy!Requests |-> "none"]
    BY <1>3 DEF Proxy!LoseTunnel, Proxy!DialFails, Proxy!CountFailure
  <2>2. ProxyTypes' /\ WorkerLives'
    <3>1. [j \in Proxy!Requests |-> "none"]
                \in [Proxy!Requests -> {"none", "answer", "start", "chunk", "end"}]
      OBVIOUS
    <3> QED BY <2>1, <1>1, <3>1 DEF ProxyTypes, WorkerLives
  <2>3. ScriptsAnswered'
    BY <2>1, <1>1 DEF ScriptsAnswered, Fits, Proxy!Requests
  <2> QED BY <2>2, <2>3, <1>1 DEF TunnelHandled, SomeoneTells, Served, Ending,
             Final, ScriptsReadOnce
<1> QED BY <1>2, <1>3

LEMMA ProxyAnswer ==
    ASSUME ProxyInv, NEW r \in Proxy!Requests, Proxy!Answer(r) PROVE ProxyInv'
<1> USE ProxyAssumption DEF ProxyInv
<1>1. PICK kind \in {"answer", "start", "chunk", "end"} :
        /\ fromWorker' = [fromWorker EXCEPT ![link] = Append(@, Proxy!Frame(r, kind))]
        /\ jobs' = [jobs EXCEPT ![r] = CASE kind = "start" -> "chunk"
                                         [] kind = "chunk" -> "end"
                                         [] OTHER -> "none"]
        /\ r \in Scripts => kind = "answer"
  <2>1. PICK kind \in IF jobs[r] = "chunk" THEN {"chunk", "end"}
                   ELSE IF r \in Sockets /\ jobs[r] = "start" THEN {"start", "end"} ELSE {jobs[r]} :
        /\ fromWorker' = [fromWorker EXCEPT ![link] = Append(@, Proxy!Frame(r, kind))]
        /\ jobs' = [jobs EXCEPT ![r] = CASE kind = "start" -> "chunk"
                                         [] kind = "chunk" -> "end"
                                         [] OTHER -> "none"]
    BY DEF Proxy!Answer
  <2>2. jobs[r] \in {"answer", "start", "chunk", "end"} BY DEF Proxy!Answer, ProxyTypes
  <2>3. r \in Scripts => jobs[r] = "answer" BY DEF Proxy!Answer, ScriptsAnswered
  <2>4. kind \in {"answer", "start", "chunk", "end"} /\ (r \in Scripts => kind = "answer")
    BY <2>2, <2>3
  <2> QED BY <2>1, <2>4
<1>2. UNCHANGED <<tunnel, handlers, opened, stage, inbox, table, over, starter, worker, failures, link,
                  toWorker, proxyMishaps>>
  BY DEF Proxy!Answer, Proxy!hostVars
<1>3. Proxy!Frame(r, kind) \in ProxyFrames /\ Fits(Proxy!Frame(r, kind))
  BY <1>1 DEF Proxy!Frame, ProxyFrames, Proxy!FrameKinds, Fits
<1>4. \A t \in Proxy!Tunnels :
        /\ fromWorker'[t] \in Seq(ProxyFrames)
        /\ \A i \in 1..Len(fromWorker'[t]) : Fits(fromWorker'[t][i])
  <2> SUFFICES ASSUME NEW t \in Proxy!Tunnels
               PROVE  /\ fromWorker'[t] \in Seq(ProxyFrames)
                      /\ \A i \in 1..Len(fromWorker'[t]) : Fits(fromWorker'[t][i])
    OBVIOUS
  <2>1. /\ fromWorker[t] \in Seq(ProxyFrames)
        /\ \A i \in 1..Len(fromWorker[t]) : Fits(fromWorker[t][i])
    BY DEF ProxyTypes, ScriptsAnswered
  <2>2. CASE t = link
    <3>1. fromWorker'[t] = Append(fromWorker[t], Proxy!Frame(r, kind))
      BY <2>2, <1>1 DEF ProxyTypes
    <3> QED BY <3>1, <2>1, <1>3
  <2>3. CASE t # link
    BY <2>1, <2>3, <1>1 DEF ProxyTypes
  <2> QED BY <2>2, <2>3
<1>5. /\ jobs' \in [Proxy!Requests -> {"none", "answer", "start", "chunk", "end"}]
      /\ \A q \in Scripts : jobs'[q] \in {"none", "answer"}
  BY <1>1 DEF ProxyTypes, ScriptsAnswered, Proxy!Requests
<1>6. ProxyTypes'
  <2>1. fromWorker' \in [Proxy!Tunnels -> Seq(ProxyFrames)]
    <3>1. DOMAIN fromWorker' = Proxy!Tunnels /\ fromWorker' = [t \in Proxy!Tunnels |-> fromWorker'[t]]
      BY <1>1 DEF ProxyTypes
    <3> QED BY <3>1, <1>4
  <2> QED BY <2>1, <1>2, <1>5 DEF ProxyTypes
<1>7. ScriptsAnswered'
  BY <1>4, <1>5 DEF ScriptsAnswered, Fits
<1> QED BY <1>2, <1>6, <1>7 DEF WorkerLives, TunnelHandled, SomeoneTells, Served, Ending, Final,
           ScriptsReadOnce

LEMMA ProxyStep == ASSUME ProxyInv, Proxy!Next PROVE ProxyInv'
BY ProxyHost, ProxyTake, ProxyLeaves, ProxyAnswer, ProxyRoute, ProxyDisconnect, ProxyAccept, ProxyWorker
   DEF Proxy!Next

LEMMA ProxyRests == ASSUME ProxyInv, UNCHANGED proxyVars PROVE ProxyInv'
BY DEF ProxyInv, proxyVars, ProxyTypes, WorkerLives, ScriptsAnswered, Fits, TunnelHandled, SomeoneTells,
       Served, Ending, Final, ScriptsReadOnce

\* The proxy: no request waits for a tunnel that is gone, whichever tunnels are lost, replaced or
\* noticed late (transport/dashboard/sandbox_proxy.py).
THEOREM RequestsTold == MCSpec => []NoneForgotten
<1>1. MCInit => ProxyInv
  BY ProxyInit DEF MCInit
<1>2. ProxyInv /\ [MCNext]_allVars => ProxyInv'
  <2> SUFFICES ASSUME ProxyInv, [MCNext]_allVars PROVE ProxyInv'
    OBVIOUS
  <2>1. CASE Proxy!Next BY <2>1, ProxyStep
  <2>2. CASE UNCHANGED proxyVars BY <2>2, ProxyRests
  <2> QED BY <2>1, <2>2 DEF MCNext, allVars
<1>3. ProxyInv => NoneForgotten
  BY DEF ProxyInv, SomeoneTells, Ending, Served, NoneForgotten, Proxy!NoneForgotten
<1> QED BY <1>1, <1>2, <1>3, PTL DEF MCSpec, allVars

-----------------------------------------------------------------------------
(* The log of a background shell *)

Shown == [n : Nat, whole : BOOLEAN]
WholeLine(i) == [n |-> i, whole |-> TRUE]

ShellTypes ==
    /\ process \in {"starting", "running", "zombie", "gone"}
    /\ renamed \in BOOLEAN /\ partial \in BOOLEAN /\ child \in {"none", "writes", "gone"}
    /\ lines \in 0..MaxLines /\ reads \in 0..MaxReads
    /\ reading \in [at : {"idle", "total", "page"}, total : Nat, page : Seq(Shown)]
    /\ told \in {"no", "told", "yes"}
    /\ kept \in Seq(Shown)
    /\ partial => lines < MaxLines

\* What the reader has are the first lines, whole; a read under way has counted them, and
\* its page begins behind them and shows what was counted whole.
KeptFirst ==
    /\ Len(kept) <= lines /\ \A i \in 1..Len(kept) : kept[i] = WholeLine(i)
    /\ reading.at # "idle" =>
        /\ process # "starting" /\ told # "yes"
        /\ reading.total \in Len(kept)..lines
    /\ reading.at = "page" =>
        \A i \in 1..Len(reading.page) :
            /\ reading.page[i].n = Len(kept) + i
            /\ Len(kept) + i <= reading.total => reading.page[i].whole = TRUE

\* Nothing is written any more.
Silent == process \in {"zombie", "gone"} /\ child = "none"

\* A reader that was told so counts all lines, and then has them.
ToldLast ==
    /\ told # "no" => process \in {"zombie", "gone"}
    /\ process # "zombie" /\ process # "gone" => child = "none"
    /\ told = "told" /\ reading.at # "idle" /\ Silent => reading.total = lines
    /\ told = "yes" /\ Silent => Len(kept) = lines

ShellInv == ShellTypes /\ KeptFirst /\ ToldLast

LEMMA ShellInit == Shell!Init => ShellInv
<1> SUFFICES ASSUME Shell!Init PROVE ShellInv
  OBVIOUS
<1> USE ShellAssumption DEF Shell!Init, Shell!NoRead
<1>1. <<>> \in Seq(Shown) /\ Len(<<>>) = 0
  OBVIOUS
<1>2. reading \in [at : {"idle", "total", "page"}, total : Nat, page : Seq(Shown)] /\ reading.at = "idle"
  BY <1>1
<1>3. renamed \in BOOLEAN /\ partial \in BOOLEAN /\ ~partial
  OBVIOUS
<1>4. ShellTypes
  BY <1>1, <1>2, <1>3 DEF ShellTypes
<1>5. KeptFirst
  BY <1>1, <1>2 DEF KeptFirst
<1>6. ToldLast
  BY DEF ToldLast
<1> QED BY <1>4, <1>5, <1>6 DEF ShellInv

LEMMA ShellWrites ==
    ASSUME ShellInv, Shell!Start \/ Shell!Write \/ Shell!Exit \/ Shell!Reap \/ Shell!ChildExit
    PROVE  ShellInv'
<1> USE ShellAssumption
<1>1. UNCHANGED <<reading, kept, told, reads>>
  BY DEF Shell!Start, Shell!Write, Shell!Exit, Shell!Reap, Shell!ChildExit
<1>2. /\ lines' \in 0..MaxLines /\ lines' >= lines /\ partial' \in BOOLEAN
      /\ partial' => lines' < MaxLines
      /\ lines' # lines => process = "running" \/ child = "writes"
      /\ lines' # lines => process' = process /\ child' = child
  <2> USE DEF ShellInv, ShellTypes
  <2>1. CASE Shell!Start BY <2>1 DEF Shell!Start
  <2>2. CASE Shell!Write
    <3>1. process = "running" \/ child = "writes"
      BY <2>2 DEF Shell!Write
    <3>2. process' = process /\ child' = child
      BY <2>2 DEF Shell!Write
    <3>3. CASE ~partial /\ partial' = TRUE /\ lines < MaxLines /\ lines' = lines
      BY <3>1, <3>2, <3>3
    <3>4. CASE partial /\ partial' = FALSE /\ lines' = lines + 1
      <4>1. lines < MaxLines /\ lines \in 0..MaxLines
        BY <3>4
      <4>2. lines' \in 0..MaxLines /\ lines' >= lines
        BY <3>4, <4>1
      <4>3. partial' \in BOOLEAN /\ ~partial'
        BY <3>4
      <4> QED BY <3>1, <3>2, <4>2, <4>3
    <3> QED BY <2>2, <3>3, <3>4 DEF Shell!Write
  <2>3. CASE Shell!Exit BY <2>3 DEF Shell!Exit
  <2>4. CASE Shell!Reap BY <2>4 DEF Shell!Reap
  <2>5. CASE Shell!ChildExit BY <2>5 DEF Shell!ChildExit
  <2> QED BY <2>1, <2>2, <2>3, <2>4, <2>5
<1>3. /\ process' \in {"starting", "running", "zombie", "gone"}
      /\ child' \in {"none", "writes", "gone"} /\ renamed' \in BOOLEAN
      /\ process # "starting" => process' # "starting"
      /\ process \in {"zombie", "gone"} => process' \in {"zombie", "gone"}
      /\ process' \in {"starting", "running"} => process \in {"starting", "running"} /\ child' = child
      /\ process \in {"zombie", "gone"} /\ child' = "none" => child = "none"
      /\ process = "running" /\ process' # "running" => lines' = lines
  <2> USE DEF ShellInv, ShellTypes
  <2>1. CASE Shell!Start BY <2>1 DEF Shell!Start
  <2>2. CASE Shell!Write BY <2>2 DEF Shell!Write
  <2>3. CASE Shell!Exit BY <2>3 DEF Shell!Exit
  <2>4. CASE Shell!Reap BY <2>4 DEF Shell!Reap
  <2>5. CASE Shell!ChildExit BY <2>5 DEF Shell!ChildExit, ToldLast
  <2> QED BY <2>1, <2>2, <2>3, <2>4, <2>5
<1>4. ShellTypes'
  BY <1>1, <1>2, <1>3 DEF ShellInv, ShellTypes
<1>5. KeptFirst'
  <2>1. Len(kept) \in Nat /\ lines \in Nat /\ lines' \in Nat /\ reading.total \in Nat
    BY <1>2 DEF ShellInv, ShellTypes
  <2> QED BY <1>1, <1>2, <1>3, <2>1 DEF ShellInv, KeptFirst
<1>6. ToldLast'
  <2>1. told # "no" => process \in {"zombie", "gone"} /\ process' \in {"zombie", "gone"}
    BY <1>3 DEF ShellInv, ToldLast
  <2>2. Silent' /\ process \in {"zombie", "gone"} => Silent /\ lines' = lines
    BY <1>2, <1>3 DEF Silent
  <2>3. process' # "zombie" /\ process' # "gone" => child' = "none"
    BY <1>3 DEF ShellInv, ShellTypes, ToldLast
  <2> QED BY <1>1, <2>1, <2>2, <2>3 DEF ShellInv, ToldLast
<1> QED BY <1>4, <1>5, <1>6 DEF ShellInv

LEMMA ShellReads ==
    ASSUME ShellInv, Shell!ReadTotal \/ Shell!ReadPage PROVE ShellInv'
<1> USE ShellAssumption
<1>0. /\ Len(kept) \in Nat /\ lines \in Nat /\ reading.total \in Nat /\ reading.page \in Seq(Shown)
      /\ Len(kept) <= lines
  BY DEF ShellInv, ShellTypes, KeptFirst
<1>1. CASE Shell!ReadTotal
  <2>1. /\ process # "starting" /\ told # "yes" /\ reads < MaxReads /\ reads' = reads + 1
        /\ reading' = [at |-> "total", total |-> lines, page |-> <<>>]
        /\ UNCHANGED <<process, child, renamed, lines, partial, kept, told>>
    BY <1>1 DEF Shell!ReadTotal, Shell!Total
  <2>2. reading'.at = "total" /\ reading'.total = lines
    BY <2>1
  <2>3. ShellTypes'
    BY <2>1, <1>0 DEF ShellInv, ShellTypes
  <2>4. KeptFirst'
    BY <2>1, <2>2, <1>0 DEF ShellInv, KeptFirst
  <2>5. ToldLast'
    BY <2>1, <2>2 DEF ShellInv, ToldLast, Silent
  <2> QED BY <2>3, <2>4, <2>5 DEF ShellInv
<1>2. CASE Shell!ReadPage
  <2>1. PICK size \in Int :
          /\ reading' = [reading EXCEPT !.at = "page",
                !.page = [i \in 1..size |-> [n |-> Len(kept) + 1 + i - 1,
                                             whole |-> Len(kept) + 1 + i - 1 <= lines]]]
          /\ reading.at = "total"
          /\ UNCHANGED <<process, child, renamed, lines, partial, kept, told, reads>>
    <3>1. PICK ends \in Int : ends = lines + (IF partial THEN 1 ELSE 0)
      BY <1>0
    <3>2. PICK to : to = Shell!Fewer(Len(kept) + 1 + PageSize - 1, ends)
      OBVIOUS
    <3>3. to \in Int /\ to - (Len(kept) + 1) + 1 \in Int
      BY <1>0, <3>1, <3>2 DEF Shell!Fewer
    <3>4. /\ reading' = [reading EXCEPT !.at = "page",
                !.page = [i \in 1..(to - (Len(kept) + 1) + 1) |->
                             [n |-> Len(kept) + 1 + i - 1, whole |-> Len(kept) + 1 + i - 1 <= lines]]]
          /\ reading.at = "total"
          /\ UNCHANGED <<process, child, renamed, lines, partial, kept, told, reads>>
      BY <1>2, <3>1, <3>2 DEF Shell!ReadPage
    <3> QED BY <3>3, <3>4
  <2>2. PICK page : page = [i \in 1..size |-> [n |-> Len(kept) + i, whole |-> Len(kept) + i <= lines]]
    OBVIOUS
  <2>3. \A i \in 1..size : Len(kept) + 1 + i - 1 = Len(kept) + i
    BY <1>0
  <2>4. reading' = [reading EXCEPT !.at = "page", !.page = page]
    BY <2>1, <2>2, <2>3
  <2>5. page \in Seq(Shown)
    <3>1. CASE size < 0
      <4>1. 1..size = 1..0 BY <3>1
      <4> QED BY <1>0, <2>2, <4>1 DEF Shown
    <3>2. CASE ~(size < 0)
      <4>1. size \in Nat
        BY <3>2
      <4>2. \A i \in 1..size : (Len(kept) + i) \in Nat /\ (Len(kept) + i <= lines) \in BOOLEAN
        BY <1>0
      <4>3. \A i \in 1..size : page[i] \in Shown
        BY <2>2, <4>2 DEF Shown
      <4>4. page \in [1..size -> Shown]
        BY <2>2, <4>3
      <4> QED BY <4>1, <4>4
    <3> QED BY <3>1, <3>2
  <2>6. \A i \in 1..Len(page) : /\ page[i].n = Len(kept) + i
                                /\ page[i].whole = (Len(kept) + i <= lines)
    <3>1. DOMAIN page = 1..size /\ DOMAIN page = 1..Len(page)
      <4>1. DOMAIN page = 1..size BY <2>2
      <4>2. DOMAIN page = 1..Len(page) BY <2>5
      <4> QED BY <4>1, <4>2
    <3> QED BY <2>2, <2>3, <3>1
  <2>7. reading'.at = "page" /\ reading'.total = reading.total /\ reading'.page = page
    BY <2>4 DEF ShellInv, ShellTypes
  <2>8. ShellTypes'
    BY <2>1, <2>4, <2>5 DEF ShellInv, ShellTypes
  <2>9. KeptFirst'
    <3>1. \A i \in 1..Len(page) : Len(kept) + i <= reading.total => page[i].whole = TRUE
      <4> SUFFICES ASSUME NEW i \in 1..Len(page), Len(kept) + i <= reading.total
                   PROVE  Len(kept) + i <= lines
        BY <2>6
      <4>1. reading.total <= lines BY <2>1, <1>0 DEF ShellInv, KeptFirst
      <4> QED BY <1>0, <4>1, <2>5
    <3> QED BY <2>1, <2>6, <2>7, <3>1 DEF ShellInv, KeptFirst
  <2>10. ToldLast'
    BY <2>1, <2>7 DEF ShellInv, ToldLast, Silent
  <2> QED BY <2>8, <2>9, <2>10 DEF ShellInv
<1> QED BY <1>1, <1>2

LEMMA ShellAlive == ASSUME ShellInv, Shell!ReadAlive PROVE ShellInv'
<1> USE ShellAssumption
<1>1. /\ Len(kept) \in Nat /\ lines \in Nat /\ reading.total \in Nat /\ reading.page \in Seq(Shown)
      /\ Len(kept) <= reading.total /\ reading.total <= lines /\ kept \in Seq(Shown)
      /\ reading.at = "page" /\ process # "starting" /\ told # "yes"
      /\ Len(reading.page) \in Nat
  BY DEF ShellInv, ShellTypes, KeptFirst, Shell!ReadAlive
<1>2. PICK size \in Nat : size = Shell!Fewer(Len(reading.page), reading.total - Len(kept))
  BY <1>1 DEF Shell!Fewer
<1>3. size <= Len(reading.page) /\ size <= reading.total - Len(kept)
  BY <1>1, <1>2 DEF Shell!Fewer
<1>4. PICK counted : counted = SubSeq(reading.page, 1, size)
  OBVIOUS
<1>5. /\ counted \in Seq(Shown) /\ Len(counted) = size
      /\ \A i \in 1..size : counted[i] = reading.page[i]
  BY <1>1, <1>3, <1>4
<1>6. /\ kept' = kept \o counted
      /\ told' = (IF process = "running" THEN told
                  ELSE IF told = "told" /\ Len(kept') >= reading.total THEN "yes" ELSE "told")
      /\ reading' = Shell!NoRead
      /\ UNCHANGED <<process, child, renamed, lines, partial, reads>>
  BY <1>2, <1>4 DEF Shell!ReadAlive
<1>7. /\ kept' \in Seq(Shown) /\ Len(kept') = Len(kept) + size
      /\ \A i \in 1..Len(kept') : (i \in 1..Len(kept) /\ kept'[i] = kept[i])
                               \/ (i - Len(kept) \in 1..size /\ kept'[i] = counted[i - Len(kept)])
  <2> HIDE DEF Shown
  <2>1. PICK k \in Nat : k = Len(kept)
    BY <1>1
  <2>2. \A i \in 1..(k + size) : (kept \o counted)[i] = IF i <= k THEN kept[i] ELSE counted[i - k]
    <3>1. Len(kept) = k /\ Len(counted) = size /\ kept \in Seq(Shown) /\ counted \in Seq(Shown)
      BY <1>1, <1>5, <2>1
    <3> QED BY <3>1
  <2>3. kept \o counted \in Seq(Shown) /\ Len(kept \o counted) = k + size
    BY <1>1, <1>5, <2>1
  <2>4. \A i \in 1..(k + size) : (i \in 1..k /\ (kept \o counted)[i] = kept[i])
                             \/ (i - k \in 1..size /\ (kept \o counted)[i] = counted[i - k])
    <3> SUFFICES ASSUME NEW i \in 1..(k + size)
                 PROVE  \/ i \in 1..k /\ (kept \o counted)[i] = kept[i]
                        \/ i - k \in 1..size /\ (kept \o counted)[i] = counted[i - k]
      OBVIOUS
    <3>1. CASE i <= k
      <4>1. i \in 1..k BY <3>1
      <4> QED BY <2>2, <3>1, <4>1
    <3>2. CASE ~(i <= k)
      <4>1. i - k \in 1..size BY <3>2
      <4> QED BY <2>2, <3>2, <4>1
    <3> QED BY <3>1, <3>2
  <2> QED BY <1>6, <2>1, <2>3, <2>4
<1>8. \A i \in 1..size : counted[i] = WholeLine(Len(kept) + i)
  <2> SUFFICES ASSUME NEW i \in 1..size PROVE counted[i] = WholeLine(Len(kept) + i)
    OBVIOUS
  <2>1. i \in 1..Len(reading.page) /\ Len(kept) + i <= reading.total
    BY <1>1, <1>3
  <2>2. reading.page[i].n = Len(kept) + i /\ reading.page[i].whole = TRUE
    BY <2>1, <1>1 DEF ShellInv, KeptFirst
  <2>3. reading.page[i] \in Shown
    BY <2>1, <1>1
  <2> QED BY <2>2, <2>3, <1>5 DEF Shown, WholeLine
<1>9. reading'.at = "idle" /\ reading' \in [at : {"idle", "total", "page"}, total : Nat, page : Seq(Shown)]
  BY <1>6 DEF Shell!NoRead
<1>10. ShellTypes'
  BY <1>6, <1>7, <1>9 DEF ShellInv, ShellTypes
<1>11. KeptFirst'
  <2>1. \A i \in 1..Len(kept') : kept'[i] = WholeLine(i)
    <3> SUFFICES ASSUME NEW i \in 1..Len(kept') PROVE kept'[i] = WholeLine(i)
      OBVIOUS
    <3>1. CASE i \in 1..Len(kept) /\ kept'[i] = kept[i]
      BY <3>1 DEF ShellInv, KeptFirst
    <3>2. CASE i - Len(kept) \in 1..size /\ kept'[i] = counted[i - Len(kept)]
      <4>1. Len(kept) + (i - Len(kept)) = i
        BY <1>1, <1>7
      <4> QED BY <3>2, <4>1, <1>8
    <3> QED BY <3>1, <3>2, <1>7
  <2>2. Len(kept') <= lines'
    BY <1>1, <1>3, <1>6, <1>7
  <2> QED BY <2>1, <2>2, <1>9 DEF KeptFirst
<1>12. ToldLast'
  <2>1. told' # "no" => process' \in {"zombie", "gone"}
    BY <1>1, <1>6 DEF ShellInv, ShellTypes, ToldLast
  <2>2. ASSUME told' = "yes", Silent' PROVE Len(kept') = lines'
    <3>1. told = "told" /\ Len(kept') >= reading.total /\ Silent
      BY <2>2, <1>1, <1>6 DEF Silent
    <3>2. reading.total = lines
      BY <3>1, <1>1 DEF ShellInv, ToldLast
    <3>3. Len(kept') = Len(kept) + size /\ lines' = lines
      BY <1>6, <1>7
    <3>4. PICK k \in Nat : k = Len(kept')
      BY <1>1, <3>3
    <3> QED BY <3>1, <3>2, <3>3, <3>4, <1>1, <1>3
  <2> QED BY <2>1, <2>2, <1>6, <1>9 DEF ShellInv, ToldLast
<1> QED BY <1>10, <1>11, <1>12 DEF ShellInv

LEMMA ShellStep == ASSUME ShellInv, Shell!Next PROVE ShellInv'
BY ShellWrites, ShellReads, ShellAlive DEF Shell!Next

LEMMA ShellRests == ASSUME ShellInv, UNCHANGED shellVars PROVE ShellInv'
BY DEF ShellInv, shellVars, ShellTypes, KeptFirst, ToldLast, Silent

\* The reader of a background shell gets every line, once and whole, and all of them once it has
\* read again after it was told that the process is gone (sandbox_read_shell).
THEOREM LogReadWhole == MCSpec => []ShellReadWhole
<1>1. MCInit => ShellInv
  BY ShellInit DEF MCInit
<1>2. ShellInv /\ [MCNext]_allVars => ShellInv'
  <2> SUFFICES ASSUME ShellInv, [MCNext]_allVars PROVE ShellInv'
    OBVIOUS
  <2>1. CASE Shell!Next BY <2>1, ShellStep
  <2>2. CASE UNCHANGED shellVars BY <2>2, ShellRests
  <2> QED BY <2>1, <2>2 DEF MCNext, allVars
<1>3. ShellInv => ShellReadWhole
  <2> SUFFICES ASSUME ShellInv
               PROVE  /\ \A i \in DOMAIN kept : kept[i] = [n |-> i, whole |-> TRUE]
                      /\ told = "yes" /\ child = "none" => Len(kept) = lines
    BY DEF ShellReadWhole, Shell!ShellReadWhole
  <2>1. DOMAIN kept = 1..Len(kept)
    BY DEF ShellInv, ShellTypes
  <2> QED BY <2>1 DEF ShellInv, KeptFirst, ToldLast, Silent, WholeLine
<1> QED BY <1>1, <1>2, <1>3, PTL DEF MCSpec, allVars

-----------------------------------------------------------------------------
(* Cron *)

Unique(S) == \A x, y \in S : x.id = y.id => x = y

\* The tasks of the file, by their ids.
FileSound ==
    /\ Unique(file) /\ \A x \in file : x.id <= scheduled
    /\ torn => damaged

\* A tick under way: it is at a due task of the list it has read, those before it that it
\* has fired have a later next run or none, and the file still has its tasks as they
\* were, unless they were cancelled or a save was cut short.
RunOf(r, x, F) ==
    x.id = r.id /\ (r.due = Scheduler!Never \/ r.due > x.due) /\ <<x.id, x.due>> \in F
TickSound ==
    /\ tick = "sleeping" => list = {} /\ changed = {}
    /\ tick # "sleeping" =>
        /\ now <= clock
        /\ Unique(list) /\ \A x \in list : x.id <= scheduled
        /\ \E x \in list : x.id = at /\ x.due <= now
        /\ Unique(changed) /\ \A r \in changed : r.id < at /\ \E x \in list : RunOf(r, x, fired)
        /\ \A x \in file, y \in list : x.id = y.id => x = y
        /\ ~damaged => Scheduler!Ids(list) \subseteq Scheduler!Ids(file) \cup cancelled

\* The runs delivered are before the next one of their task, until the tick that delivers
\* them has saved that.
RunsPast ==
    /\ \A p \in fired : p[1] <= scheduled
    /\ \A x \in file \cup list : \A p \in fired :
        p[1] = x.id => p[2] < x.due \/ (p[2] = x.due /\ x.id \in Scheduler!Ids(changed))

CronInv == Scheduler!TypeOK /\ FileSound /\ TickSound /\ RunsPast /\ Scheduler!TasksKept

\* The tasks after a save with the runs of a tick.
LEMMA RescheduledIs ==
    ASSUME NEW S \in SUBSET Scheduler!Task, NEW R \in SUBSET [id : Scheduler!TaskIds, due : Scheduler!Times]
    PROVE  /\ Scheduler!Rescheduled(S, R) \in SUBSET Scheduler!Task
           /\ \A x \in Scheduler!Rescheduled(S, R) :
                \/ x \in S /\ x.id \notin Scheduler!Ids(R)
                \/ \E y \in S, r \in R : /\ y.id = r.id /\ r.due # Scheduler!Never
                                         /\ x.id = y.id /\ x.due = r.due /\ x.once = y.once
                                         /\ x.every = y.every
           /\ \A y \in S : y.id \notin Scheduler!Ids(R) => y \in Scheduler!Rescheduled(S, R)
           /\ \A y \in S, r \in R : y.id = r.id /\ r.due # Scheduler!Never
                => y.id \in Scheduler!Ids(Scheduler!Rescheduled(S, R))
<1>1. PICK pairs : pairs = {q \in S \X R : q[1].id = q[2].id /\ q[2].due # Scheduler!Never}
  OBVIOUS
<1>2. \A x : x \in Scheduler!Rescheduled(S, R) <=>
         \/ x \in S /\ x.id \notin Scheduler!Ids(R)
         \/ \E p \in pairs : x = [p[1] EXCEPT !.due = p[2].due]
  BY <1>1 DEF Scheduler!Rescheduled
<1>3. \A p \in pairs : /\ p[1] \in S /\ p[2] \in R /\ p[1].id = p[2].id
                       /\ p[2].due # Scheduler!Never
  BY <1>1
<1>4. \A y \in S, r \in R :
         /\ [y EXCEPT !.due = r.due] \in Scheduler!Task
         /\ [y EXCEPT !.due = r.due].id = y.id /\ [y EXCEPT !.due = r.due].due = r.due
         /\ [y EXCEPT !.due = r.due].once = y.once /\ [y EXCEPT !.due = r.due].every = y.every
  BY DEF Scheduler!Task
<1>5. \A y \in S, r \in R : y.id = r.id /\ r.due # Scheduler!Never => <<y, r>> \in pairs
  BY <1>1
<1>6. \A x \in Scheduler!Rescheduled(S, R) :
                \/ x \in S /\ x.id \notin Scheduler!Ids(R)
                \/ \E y \in S, r \in R : /\ y.id = r.id /\ r.due # Scheduler!Never
                                         /\ x = [y EXCEPT !.due = r.due]
  BY <1>2, <1>3
<1>7. \A y \in S, r \in R : y.id = r.id /\ r.due # Scheduler!Never
                => y.id \in Scheduler!Ids(Scheduler!Rescheduled(S, R))
  <2> SUFFICES ASSUME NEW y \in S, NEW r \in R, y.id = r.id, r.due # Scheduler!Never
               PROVE  y.id \in Scheduler!Ids(Scheduler!Rescheduled(S, R))
    OBVIOUS
  <2>1. PICK z : z = [y EXCEPT !.due = r.due]
    OBVIOUS
  <2>2. z = [<<y, r>>[1] EXCEPT !.due = <<y, r>>[2].due]
    BY <2>1
  <2>3. z \in Scheduler!Rescheduled(S, R)
    BY <1>2, <1>5, <2>2
  <2>4. z.id = y.id
    BY <1>4, <2>1
  <2> QED BY <2>3, <2>4 DEF Scheduler!Ids
<1>8. \A x \in Scheduler!Rescheduled(S, R) : x \in Scheduler!Task
  BY <1>4, <1>6
<1>9. \A x \in Scheduler!Rescheduled(S, R) :
                \/ x \in S /\ x.id \notin Scheduler!Ids(R)
                \/ \E y \in S, r \in R : /\ y.id = r.id /\ r.due # Scheduler!Never
                                         /\ x.id = y.id /\ x.due = r.due /\ x.once = y.once
                                         /\ x.every = y.every
  <2> SUFFICES ASSUME NEW y \in S, NEW r \in R, NEW x, x = [y EXCEPT !.due = r.due]
               PROVE  x.id = y.id /\ x.due = r.due /\ x.once = y.once /\ x.every = y.every
    BY <1>6
  <2> QED BY <1>4
<1> QED BY <1>2, <1>7, <1>8, <1>9

\* A quotient, times the divisor.
LEMMA Quotient ==
    ASSUME NEW a \in Nat, NEW b \in Nat \ {0}
    PROVE  a \div b \in Nat /\ (a \div b) * b <= a
OBVIOUS

\* The next run is after this one, and within the range of the times.
LEMMA NextRunLater ==
    ASSUME SchedulerAssumption, NEW x \in Scheduler!Task, x.due <= clock, clock \in 1..MaxTime,
           x.once \/ x.every # 0
    PROVE  /\ Scheduler!NextRun(x) \in Scheduler!Times
           /\ Scheduler!NextRun(x) = Scheduler!Never \/ Scheduler!NextRun(x) > x.due
<1> USE SchedulerAssumption DEF Scheduler!Times, Scheduler!Never
<1>1. CASE x.once
  BY <1>1 DEF Scheduler!NextRun
<1>2. CASE ~x.once
  <2>1. x.due \in 0..MaxTime /\ x.every \in Nat \ {0} /\ x.every <= MaxTime /\ clock \in Nat
    <3>1. x.due \in 0..(2 * MaxTime) /\ x.every \in Intervals \cup {0} /\ x.every # 0
      BY <1>2 DEF Scheduler!Task
    <3>2. x.every \in 0..MaxTime
      BY <3>1
    <3> QED BY <3>1, <3>2
  <2>2. PICK step \in Nat \ {0} : step = x.every
    BY <2>1
  <2>3. PICK next \in Nat : next = x.due + step
    BY <2>1
  <2>4. CASE next > clock
    <3>1. Scheduler!NextRun(x) = next
      BY <1>2, <2>2, <2>3, <2>4 DEF Scheduler!NextRun
    <3> QED BY <3>1, <2>1, <2>2, <2>3
  <2>5. CASE ~(next > clock)
    <3>0. clock - next \in Nat
      BY <2>1, <2>5
    <3>1. PICK k \in Nat : k = (clock - next) \div step
      BY <3>0, Quotient
    <3>2. k * step <= clock - next
      BY <3>0, <3>1, Quotient
    <3>3. Scheduler!NextRun(x) = next + (k + 1) * step
      BY <1>2, <2>2, <2>3, <2>5, <3>1 DEF Scheduler!NextRun
    <3>4. (k + 1) * step = k * step + step /\ k * step \in Nat
      OBVIOUS
    <3> QED BY <3>2, <3>3, <3>4, <2>1, <2>2, <2>3
  <2> QED BY <2>4, <2>5
<1> QED BY <1>1, <1>2

LEMMA CronInit == Scheduler!Init => CronInv
<1> SUFFICES ASSUME Scheduler!Init PROVE CronInv
  OBVIOUS
<1> USE SchedulerAssumption DEF Scheduler!Init, Scheduler!Idle
<1>1. Scheduler!TypeOK
  <2>1. /\ clock \in 1..MaxTime /\ now \in 0..MaxTime /\ at \in {0} \cup Scheduler!TaskIds
        /\ scheduled \in 0..MaxTasks /\ cronMishaps \in 0..MaxCronMishaps
    OBVIOUS
  <2>2. /\ file \subseteq Scheduler!Task /\ list \subseteq Scheduler!Task
        /\ changed \subseteq [id : Scheduler!TaskIds, due : Scheduler!Times]
        /\ fired \subseteq Scheduler!TaskIds \X Scheduler!Times
        /\ cancelled \subseteq 1..scheduled
    OBVIOUS
  <2>3. torn \in BOOLEAN /\ damaged \in BOOLEAN /\ tick \in {"sleeping", "resolving", "delivering"}
    OBVIOUS
  <2> QED BY <2>1, <2>2, <2>3 DEF Scheduler!TypeOK
<1>2. FileSound /\ TickSound /\ RunsPast /\ Scheduler!TasksKept
  BY DEF FileSound, TickSound, RunsPast, Unique, Scheduler!TasksKept, Scheduler!Ids
<1> QED BY <1>1, <1>2 DEF CronInv

\* What a save may leave: what was to be saved, or after a failure some of it or the
\* file as it was.
Leaves(S) ==
    \/ file' = S /\ torn' = FALSE /\ UNCHANGED <<cronMishaps, damaged>>
    \/ /\ cronMishaps' \in 0..MaxCronMishaps /\ damaged' = TRUE
       /\ file' \subseteq S \/ (file' = file /\ torn' = torn)
       /\ torn' \in BOOLEAN

LEMMA SaveLeaves ==
    ASSUME CronInv, NEW S \in SUBSET Scheduler!Task, Scheduler!Saved(S) \/ Scheduler!SaveFails(S)
    PROVE  Leaves(S)
<1> USE SchedulerAssumption DEF CronInv, Scheduler!TypeOK
<1>1. CASE Scheduler!Saved(S)
  BY <1>1 DEF Scheduler!Saved, Leaves
<1>2. CASE Scheduler!SaveFails(S)
  <2>1. cronMishaps \in 0..MaxCronMishaps /\ torn \in BOOLEAN
    OBVIOUS
  <2>2. cronMishaps' \in 0..MaxCronMishaps /\ damaged' = TRUE
    BY <1>2, <2>1 DEF Scheduler!SaveFails
  <2>3. file' \subseteq S \/ (file' = file /\ torn' = torn)
    BY <1>2 DEF Scheduler!SaveFails
  <2>4. torn' \in BOOLEAN
    BY <1>2, <2>1 DEF Scheduler!SaveFails
  <2> QED BY <2>2, <2>3, <2>4 DEF Leaves
<1> QED BY <1>1, <1>2

\* The tools change the file alone: a step that leaves the tick alone and saves some of
\* the tasks of the file, and perhaps one with an id that was not given out yet.
LEMMA ToolKeeps ==
    ASSUME CronInv, UNCHANGED <<clock, tick, now, list, at, changed, fired>>,
           NEW S \in SUBSET Scheduler!Task, Leaves(S),
           \A x \in S : x \in Scheduler!Loaded \/ x.id = scheduled + 1,
           \A x, y \in S : x.id = scheduled + 1 /\ y.id = scheduled + 1 => x = y,
           \/ /\ scheduled' = scheduled + 1 /\ scheduled < MaxTasks /\ cancelled' = cancelled
              /\ scheduled + 1 \in Scheduler!Ids(S) /\ Scheduler!Loaded \subseteq S
           \/ /\ scheduled' = scheduled
              /\ \E x \in Scheduler!Loaded : cancelled' = cancelled \cup {x.id} /\ S = Scheduler!Loaded \ {x}
    PROVE  CronInv'
<1> USE SchedulerAssumption DEF CronInv
<1>1. /\ scheduled \in Nat /\ scheduled' \in scheduled..MaxTasks /\ damaged \in BOOLEAN
      /\ scheduled' \in {scheduled, scheduled + 1}
      /\ Scheduler!Loaded \subseteq file /\ file \subseteq Scheduler!Task
      /\ \A x \in Scheduler!Task : x.id \in Nat
  BY DEF Scheduler!TypeOK, Scheduler!Loaded, Scheduler!Task, Scheduler!TaskIds
<1>2. \A x \in file : x.id <= scheduled
  BY DEF FileSound
<1>3. file' \subseteq S \/ file' = file
  BY DEF Leaves
<1>4. \A x \in file' : x \in file \/ (x \in S /\ x.id = scheduled + 1 /\ scheduled' = scheduled + 1)
  BY <1>1, <1>2, <1>3
<1>5. Scheduler!TypeOK'
  <2>1. file' \subseteq Scheduler!Task /\ torn' \in BOOLEAN /\ damaged' \in BOOLEAN
        /\ cronMishaps' \in 0..MaxCronMishaps
    BY <1>1, <1>3 DEF Leaves, Scheduler!TypeOK
  <2>2. scheduled' \in 0..MaxTasks /\ cancelled' \subseteq 1..scheduled'
    <3>1. \A x \in Scheduler!Loaded : x.id \in 1..scheduled
      BY <1>1, <1>2 DEF Scheduler!Task, Scheduler!TaskIds
    <3>2. cancelled \subseteq 1..scheduled /\ scheduled \in 0..MaxTasks
      BY DEF Scheduler!TypeOK
    <3>3. \A k \in cancelled' : k \in 1..scheduled
      BY <3>1, <3>2
    <3>4. \A k \in 1..scheduled : k \in 1..scheduled'
      BY <1>1
    <3> QED BY <1>1, <3>3, <3>4
  <2> QED BY <2>1, <2>2 DEF Scheduler!TypeOK
<1>6. FileSound'
  <2>1. Unique(file)'
    <3> SUFFICES ASSUME NEW x \in file', NEW y \in file', x.id = y.id PROVE x = y
      BY DEF Unique
    <3> QED BY <1>1, <1>2, <1>4 DEF FileSound, Unique
  <2>2. \A x \in file' : x.id <= scheduled'
    BY <1>1, <1>2, <1>4
  <2>3. torn' => damaged'
    BY DEF Leaves, FileSound
  <2> QED BY <2>1, <2>2, <2>3 DEF FileSound
<1>7. RunsPast'
  <2>1. \A p \in fired : p[1] <= scheduled /\ p[1] \in Nat
    BY DEF RunsPast, Scheduler!TypeOK, Scheduler!TaskIds
  <2> QED BY <1>1, <1>4, <2>1 DEF RunsPast, Scheduler!Ids
<1>8. ~damaged' => /\ ~damaged /\ ~torn /\ file' = S /\ Scheduler!Loaded = file
  BY <1>1 DEF Leaves, FileSound, Scheduler!Loaded
<1>9. ~damaged' => Scheduler!Ids(file) \subseteq Scheduler!Ids(file') \cup cancelled'
                   /\ cancelled \subseteq cancelled'
  BY <1>8 DEF Scheduler!Ids
<1>10. TickSound'
  <2>1. tick # "sleeping" =>
          /\ \A x \in list : x.id <= scheduled'
          /\ \A x \in file', y \in list : x.id = y.id => x = y
          /\ ~damaged' => Scheduler!Ids(list) \subseteq Scheduler!Ids(file') \cup cancelled'
    <3>1. \A y \in list : y.id \in Nat
      BY <1>1 DEF Scheduler!TypeOK
    <3> QED BY <1>1, <1>4, <1>8, <1>9, <3>1 DEF TickSound
  <2> QED BY <2>1 DEF TickSound, RunOf
<1>11. Scheduler!TasksKept'
  <2> SUFFICES ASSUME ~damaged'
               PROVE  /\ Scheduler!Ids(file') \cap cancelled' = {}
                      /\ \A id \in (1..scheduled') \ (cancelled' \cup Scheduler!Ids(file')) :
                            \E due \in Scheduler!Times : <<id, due>> \in fired
    BY DEF Scheduler!TasksKept
  <2>1. /\ Scheduler!Ids(file) \cap cancelled = {}
        /\ \A id \in (1..scheduled) \ (cancelled \cup Scheduler!Ids(file)) :
              \E due \in Scheduler!Times : <<id, due>> \in fired
    BY <1>8 DEF Scheduler!TasksKept
  <2>2. Scheduler!Ids(file') \cap cancelled' = {}
    <3>1. cancelled \subseteq 1..scheduled BY DEF Scheduler!TypeOK
    <3> QED BY <2>1, <1>1, <1>8, <3>1 DEF Scheduler!Ids, FileSound, Unique
  <2>3. scheduled' = scheduled + 1 => scheduled + 1 \in Scheduler!Ids(file')
    BY <1>1, <1>8
  <2> QED BY <1>1, <1>9, <2>1, <2>2, <2>3
<1> QED BY <1>5, <1>6, <1>7, <1>10, <1>11

\* A set of numbers has a least one.
LEMMA LeastNumber ==
    ASSUME NEW T, T \subseteq Nat, T # {}
    PROVE  \E x \in T : \A y \in T : x <= y
<1> DEFINE I == {1..n : n \in T}
<1>1. I \subseteq FiniteSubsetsOf(Nat)
  <2>1. \A n \in T : IsFiniteSet(1..n)
    BY FS_Interval
  <2> QED BY <2>1 DEF FiniteSubsetsOf
<1>2. I # {}
  OBVIOUS
<1>3. IsWellFoundedOn(StrictSubsetOrdering(Nat), FiniteSubsetsOf(Nat))
  BY FS_StrictSubsetOrderingWellFounded
<1>4. \E s \in I : \A t \in I : ~(<<t, s>> \in StrictSubsetOrdering(Nat))
  BY <1>1, <1>2, <1>3, WFMin
<1>5. PICK x \in T : \A t \in I : ~(<<t, 1..x>> \in StrictSubsetOrdering(Nat))
  BY <1>4
<1>6. ASSUME NEW y \in T, y < x PROVE FALSE
  <2>1. 1..y \subseteq 1..x /\ x \in 1..x /\ x \notin 1..y /\ 1..x \subseteq Nat
    BY <1>6
  <2>2. <<1..y, 1..x>> \in StrictSubsetOrdering(Nat)
    BY <2>1 DEF StrictSubsetOrdering
  <2> QED BY <2>2, <1>5
<1> QED BY <1>6

\* The loop goes on with a task of its rest.
LEMMA FirstOfRest ==
    ASSUME NEW S, S \subseteq Scheduler!Task, S # {}
    PROVE  \E x \in S : x.id = Scheduler!FirstId(S)
<1>1. Scheduler!Ids(S) \subseteq Nat /\ Scheduler!Ids(S) # {}
  BY SchedulerAssumption DEF Scheduler!Ids, Scheduler!Task, Scheduler!TaskIds
<1>2. \E k \in Scheduler!Ids(S) : \A y \in Scheduler!Ids(S) : k <= y
  BY <1>1, LeastNumber
<1>3. \E k \in Scheduler!Ids(S) : \A x \in S : k <= x.id
  BY <1>2 DEF Scheduler!Ids
<1>4. Scheduler!FirstId(S) \in Scheduler!Ids(S)
  BY <1>3 DEF Scheduler!FirstId
<1> QED BY <1>4 DEF Scheduler!Ids

\* A tick that is cut short leaves its runs undelivered.
LEMMA CutShort ==
    ASSUME CronInv, Scheduler!Sleep, Scheduler!Forgotten,
           UNCHANGED <<clock, file, torn, scheduled, cancelled>>, damaged' \in {damaged, TRUE},
           cronMishaps' \in 0..MaxCronMishaps
    PROVE  CronInv'
<1> USE SchedulerAssumption DEF CronInv, Scheduler!Sleep
<1>1. fired' = fired \ Scheduler!OfThisTick /\ fired' \subseteq fired
  BY DEF Scheduler!Forgotten
<1>10. damaged' \in BOOLEAN /\ (damaged => damaged')
  <2>1. damaged \in BOOLEAN BY DEF Scheduler!TypeOK
  <2>2. CASE damaged' = damaged BY <2>1, <2>2
  <2>3. CASE damaged' = TRUE BY <2>3
  <2> QED BY <2>2, <2>3
<1>2. Scheduler!TypeOK'
  BY <1>1, <1>10 DEF Scheduler!TypeOK
<1>3. FileSound' /\ TickSound'
  BY <1>10 DEF FileSound, TickSound
<1>4. \A p \in fired : p = <<p[1], p[2]>> /\ p[1] \in Nat
  BY DEF Scheduler!TypeOK, Scheduler!TaskIds
<1>5. \A x \in list : x.id \in Scheduler!Ids(changed) => <<x.id, x.due>> \in Scheduler!OfThisTick
  BY DEF Scheduler!OfThisTick
<1>6. tick = "sleeping" => list = {} /\ changed = {}
  BY DEF TickSound
<1>7. RunsPast'
  <2> SUFFICES ASSUME NEW x \in file, NEW p \in fired', p[1] = x.id PROVE p[2] < x.due
    BY <1>1 DEF RunsPast, Scheduler!Ids
  <2>1. p[2] < x.due \/ (p[2] = x.due /\ x.id \in Scheduler!Ids(changed))
    BY <1>1 DEF RunsPast
  <2>2. ASSUME p[2] = x.due, x.id \in Scheduler!Ids(changed) PROVE FALSE
    <3>0. PICK r \in changed : r.id = x.id
      BY <2>2 DEF Scheduler!Ids
    <3>1. tick # "sleeping" /\ \E y \in list : y.id = x.id
      BY <1>6, <3>0 DEF TickSound, RunOf
    <3>2. x \in list
      BY <3>1 DEF TickSound
    <3> QED BY <1>1, <1>4, <1>5, <2>2, <3>2
  <2> QED BY <2>1, <2>2
<1>8. Scheduler!TasksKept'
  <2> SUFFICES ASSUME ~damaged, ~damaged', NEW k \in (1..scheduled) \ (cancelled \cup Scheduler!Ids(file))
               PROVE  \E due \in Scheduler!Times : <<k, due>> \in fired'
    BY <1>10 DEF Scheduler!TasksKept, Scheduler!Ids
  <2>1. PICK due \in Scheduler!Times : <<k, due>> \in fired
    BY DEF Scheduler!TasksKept
  <2>2. k \notin Scheduler!Ids(list)
    BY <1>6 DEF TickSound, Scheduler!Ids
  <2>3. <<k, due>> \notin Scheduler!OfThisTick
    BY <2>2 DEF Scheduler!OfThisTick, Scheduler!Ids
  <2> QED BY <1>1, <2>1, <2>3
<1> QED BY <1>2, <1>3, <1>7, <1>8

\* What the tick has, with the task it is at fired or not: the runs R, delivered as F says.
RunsSound(R, F) ==
    /\ R \subseteq [id : Scheduler!TaskIds, due : Scheduler!Times]
    /\ F \subseteq Scheduler!TaskIds \X Scheduler!Times /\ fired \subseteq F
    /\ Unique(R) /\ \A r \in R : r.id <= at /\ \E x \in list : RunOf(r, x, F)
    /\ changed \subseteq R
    /\ \A p \in F : p[1] <= scheduled
    /\ \A x \in file \cup list : \A p \in F :
        p[1] = x.id => p[2] < x.due \/ (p[2] = x.due /\ x.id \in Scheduler!Ids(R))

LEMMA NotFiredSound ==
    ASSUME CronInv, tick # "sleeping"
    PROVE  RunsSound(changed, fired)
<1>1. at \in Nat /\ \A r \in changed : r.id \in Nat
  BY SchedulerAssumption DEF CronInv, Scheduler!TypeOK, Scheduler!TaskIds
<1> QED BY <1>1 DEF CronInv, Scheduler!TypeOK, TickSound, RunsPast, RunsSound

\* The task that a tick is at.
LEMMA CurrentIs ==
    ASSUME CronInv, tick # "sleeping"
    PROVE  /\ Scheduler!Current \in list /\ Scheduler!Current.id = at
           /\ Scheduler!Current.due <= now
           /\ \A x \in list : x.id = at => x = Scheduler!Current
           /\ at \notin Scheduler!Ids(changed)
<1>1. PICK x \in list : x.id = at /\ x.due <= now
  BY DEF CronInv, TickSound
<1>2. Scheduler!Current \in list /\ Scheduler!Current.id = at
  BY <1>1 DEF Scheduler!Current
<1>3. \A y, z \in list : y.id = z.id => y = z
  BY DEF CronInv, TickSound, Unique
<1>4. at \in Nat
  BY SchedulerAssumption DEF CronInv, Scheduler!TypeOK, Scheduler!TaskIds
<1>5. at \notin Scheduler!Ids(changed)
  BY <1>4 DEF CronInv, TickSound, Scheduler!Ids
<1> QED BY <1>1, <1>2, <1>3, <1>5

LEMMA FiredSound ==
    ASSUME CronInv, tick # "sleeping", Scheduler!Current.once \/ Scheduler!Current.every # 0
    PROVE  RunsSound(changed \cup {[id |-> at, due |-> Scheduler!NextRun(Scheduler!Current)]},
                     Scheduler!Fired)
<1>1. PICK cur \in list : /\ cur = Scheduler!Current /\ cur.id = at /\ cur.due <= now
                          /\ \A x \in list : x.id = at => x = cur
                          /\ at \notin Scheduler!Ids(changed)
  BY CurrentIs
<1>2. cur \in Scheduler!Task /\ cur.due <= clock /\ clock \in 1..MaxTime /\ at \in Nat
      /\ at \in Scheduler!TaskIds /\ cur.due \in Scheduler!Times /\ at <= scheduled
  <2>1. cur \in Scheduler!Task /\ now <= clock /\ clock \in 1..MaxTime /\ now \in 0..MaxTime
    BY DEF CronInv, Scheduler!TypeOK, TickSound
  <2>2. at \in Scheduler!TaskIds /\ cur.due \in Scheduler!Times
    BY <1>1, <2>1 DEF Scheduler!Task
  <2>3. at <= scheduled
    BY <1>1 DEF CronInv, TickSound
  <2> QED BY <1>1, <2>1, <2>2, <2>3, SchedulerAssumption DEF Scheduler!TaskIds, Scheduler!Times
<1>3. PICK next : next = Scheduler!NextRun(cur)
  OBVIOUS
<1>4. next \in Scheduler!Times /\ (next = Scheduler!Never \/ next > cur.due)
  BY <1>1, <1>2, <1>3, NextRunLater, SchedulerAssumption
<1>5. PICK run : run = [id |-> at, due |-> next]
  OBVIOUS
<1>19. run.id = at /\ run.due = next
  BY <1>5
<1>6. PICK R : R = changed \cup {run}
  OBVIOUS
<1>7. PICK F : F = fired \cup {<<at, cur.due>>}
  OBVIOUS
<1>8. RunsSound(changed, fired)
  BY NotFiredSound
<1>9. R \subseteq [id : Scheduler!TaskIds, due : Scheduler!Times]
  BY <1>2, <1>4, <1>5, <1>19, <1>6, <1>8 DEF RunsSound
<1>10. F \subseteq Scheduler!TaskIds \X Scheduler!Times /\ fired \subseteq F
  BY <1>2, <1>7, <1>8 DEF RunsSound
<1>11. Unique(R)
  BY <1>1, <1>19, <1>6, <1>8 DEF RunsSound, Unique, Scheduler!Ids
<1>12. \A r \in R : r.id <= at /\ \E x \in list : RunOf(r, x, F)
  <2>1. RunOf(run, cur, F) /\ run.id <= at
    BY <1>1, <1>2, <1>4, <1>19, <1>7 DEF RunOf
  <2> QED BY <2>1, <1>6, <1>8, <1>10 DEF RunsSound, RunOf
<1>13. \A p \in F : p[1] <= scheduled
  BY <1>2, <1>7, <1>8 DEF RunsSound
<1>14. Scheduler!Ids(R) = Scheduler!Ids(changed) \cup {at}
  BY <1>19, <1>6 DEF Scheduler!Ids
<1>15. \A x \in file \cup list : x.id = at => x = cur
  BY <1>1 DEF CronInv, TickSound
<1>16. \A x \in file \cup list : \A p \in F :
        p[1] = x.id => p[2] < x.due \/ (p[2] = x.due /\ x.id \in Scheduler!Ids(R))
  BY <1>1, <1>7, <1>8, <1>14, <1>15 DEF RunsSound
<1>17. RunsSound(R, F)
  BY <1>6, <1>9, <1>10, <1>11, <1>12, <1>13, <1>16 DEF RunsSound
<1>18. Scheduler!Fired = F
  BY <1>1, <1>7 DEF Scheduler!Fired
<1> QED BY <1>1, <1>3, <1>5, <1>6, <1>17, <1>18

\* The save at the end of a tick, whole or cut short.
LEMMA TickSaves ==
    ASSUME CronInv, tick # "sleeping", NEW R, NEW F, RunsSound(R, F), R # {}, Scheduler!Sleep,
           UNCHANGED <<clock, scheduled, cancelled>>,
           \/ fired' = F /\ Scheduler!Saved(Scheduler!Updated(R))
           \/ Scheduler!Forgotten /\ Scheduler!SaveFails(Scheduler!Updated(R))
    PROVE  CronInv'
<1> USE SchedulerAssumption DEF Scheduler!Sleep
<1>1. PICK S : S = Scheduler!Updated(R)
  OBVIOUS
<1>2. /\ Scheduler!Loaded \in SUBSET Scheduler!Task
      /\ R \in SUBSET [id : Scheduler!TaskIds, due : Scheduler!Times]
      /\ Scheduler!Loaded \subseteq file
  BY DEF CronInv, Scheduler!TypeOK, Scheduler!Loaded, RunsSound
<1>3. /\ S \in SUBSET Scheduler!Task
      /\ \A x \in S :
           \/ x \in file /\ x.id \notin Scheduler!Ids(R)
           \/ \E y \in file, r \in R : y.id = r.id /\ r.due # Scheduler!Never
                                       /\ x.id = y.id /\ x.due = r.due /\ x.once = y.once
                                       /\ x.every = y.every
      /\ \A y \in Scheduler!Loaded : y.id \notin Scheduler!Ids(R) => y \in S
      /\ \A y \in Scheduler!Loaded, r \in R : y.id = r.id /\ r.due # Scheduler!Never
                => y.id \in Scheduler!Ids(S)
  <2>1. PICK L : L = Scheduler!Loaded
    OBVIOUS
  <2>2. S = Scheduler!Rescheduled(L, R)
    BY <1>1, <2>1 DEF Scheduler!Updated
  <2>4. L \in SUBSET Scheduler!Task
    BY <1>2, <2>1
  <2>5. /\ Scheduler!Rescheduled(L, R) \in SUBSET Scheduler!Task
        /\ \A x \in Scheduler!Rescheduled(L, R) :
             \/ x \in L /\ x.id \notin Scheduler!Ids(R)
             \/ \E y \in L, r \in R : /\ y.id = r.id /\ r.due # Scheduler!Never
                                      /\ x.id = y.id /\ x.due = r.due /\ x.once = y.once
                                      /\ x.every = y.every
        /\ \A y \in L : y.id \notin Scheduler!Ids(R) => y \in Scheduler!Rescheduled(L, R)
        /\ \A y \in L, r \in R : y.id = r.id /\ r.due # Scheduler!Never
                => y.id \in Scheduler!Ids(Scheduler!Rescheduled(L, R))
    BY <1>2, <2>4, RescheduledIs
  <2>3. /\ S \in SUBSET Scheduler!Task
        /\ \A x \in S :
             \/ x \in L /\ x.id \notin Scheduler!Ids(R)
             \/ \E y \in L, r \in R : /\ y.id = r.id /\ r.due # Scheduler!Never
                                      /\ x.id = y.id /\ x.due = r.due /\ x.once = y.once
                                      /\ x.every = y.every
        /\ \A y \in L : y.id \notin Scheduler!Ids(R) => y \in S
        /\ \A y \in L, r \in R : y.id = r.id /\ r.due # Scheduler!Never
                => y.id \in Scheduler!Ids(S)
    BY <2>2, <2>5
  <2> QED BY <1>2, <2>1, <2>3
<1>4. Leaves(S)
  BY <1>1, <1>3, SaveLeaves
<1>5. /\ fired \subseteq F /\ Scheduler!Ids(changed) \subseteq Scheduler!Ids(R)
      /\ \A p \in F : p = <<p[1], p[2]>> /\ p[1] \in Nat
  BY DEF RunsSound, Scheduler!Ids, Scheduler!TaskIds
<1>6. CASE file' = file /\ torn' = torn /\ Scheduler!Forgotten /\ damaged' = TRUE
  BY <1>4, <1>6, CutShort DEF Leaves, CronInv, Scheduler!TypeOK
<1>7. CASE file' \subseteq S /\ fired' \subseteq F /\ (~damaged' => fired' = F /\ file' = S)
  <2>1. \A x \in file' : /\ x.id <= scheduled
                         /\ \A p \in F : p[1] = x.id => p[2] < x.due
    <3> SUFFICES ASSUME NEW x \in S
                 PROVE  x.id <= scheduled /\ \A p \in F : p[1] = x.id => p[2] < x.due
      BY <1>7
    <3>1. CASE x \in file /\ x.id \notin Scheduler!Ids(R)
      BY <3>1 DEF RunsSound, CronInv, FileSound
    <3>2. ASSUME NEW y \in file, NEW r \in R, y.id = r.id, r.due # Scheduler!Never,
                 x.id = y.id, x.due = r.due
          PROVE  x.id <= scheduled /\ \A p \in F : p[1] = x.id => p[2] < x.due
      <4>1. PICK z \in list : RunOf(r, z, F)
        BY DEF RunsSound
      <4>2. z = y
        BY <3>2, <4>1 DEF CronInv, TickSound, RunOf
      <4>3. x.id <= scheduled
        BY <3>2 DEF CronInv, FileSound
      <4>4. r.due > y.due /\ r.due \in Nat /\ y.due \in Nat
        BY <3>2, <4>1, <4>2 DEF RunOf, RunsSound, CronInv, Scheduler!TypeOK, Scheduler!Times,
           Scheduler!Task
      <4>5. ASSUME NEW p \in F, p[1] = y.id PROVE p[2] <= y.due /\ p[2] \in Nat
        BY <4>4, <4>5 DEF RunsSound, Scheduler!Times
      <4> QED BY <3>2, <4>3, <4>4, <4>5
    <3> QED BY <1>3, <3>1, <3>2
  <2>2. Unique(file')
    <3> SUFFICES ASSUME NEW x \in S, NEW y \in S, x.id = y.id PROVE x = y
      BY <1>7 DEF Unique
    <3>1. \A v, w \in file : v.id = w.id => v = w
      BY DEF CronInv, FileSound, Unique
    <3>2. \A v, w \in R : v.id = w.id => v = w
      BY DEF RunsSound, Unique
    <3>3. \A r \in R : r.id \in Scheduler!Ids(R)
      BY DEF Scheduler!Ids
    <3>4. x \in Scheduler!Task /\ y \in Scheduler!Task
      BY <1>3
    <3>5. x.due = y.due /\ x.once = y.once /\ x.every = y.every
      BY <1>3, <3>1, <3>2, <3>3
    <3> QED BY <3>4, <3>5 DEF Scheduler!Task
  <2>3. Scheduler!TypeOK'
    <3>1. file' \subseteq Scheduler!Task /\ torn' \in BOOLEAN /\ damaged' \in BOOLEAN
          /\ cronMishaps' \in 0..MaxCronMishaps
      BY <1>3, <1>4, <1>7 DEF Leaves, CronInv, Scheduler!TypeOK
    <3>2. fired' \subseteq Scheduler!TaskIds \X Scheduler!Times
      BY <1>7 DEF RunsSound
    <3> QED BY <3>1, <3>2 DEF CronInv, Scheduler!TypeOK
  <2>4. FileSound'
    <3>1. torn' => damaged'
      BY <1>4 DEF Leaves, CronInv, FileSound
    <3> QED BY <2>1, <2>2, <3>1 DEF FileSound
  <2>5. TickSound'
    BY DEF TickSound
  <2>6. RunsPast'
    BY <1>7, <2>1 DEF RunsPast, RunsSound
  <2>7. Scheduler!TasksKept'
    <3> SUFFICES ASSUME ~damaged'
                 PROVE  /\ Scheduler!Ids(file') \cap cancelled = {}
                        /\ \A k \in (1..scheduled) \ (cancelled \cup Scheduler!Ids(file')) :
                              \E due \in Scheduler!Times : <<k, due>> \in fired'
      BY DEF Scheduler!TasksKept
    <3>1. ~damaged /\ file' = S /\ fired' = F /\ Scheduler!Loaded = file
      BY <1>4, <1>7 DEF Leaves, CronInv, FileSound, Scheduler!Loaded
    <3>2. /\ Scheduler!Ids(file) \cap cancelled = {}
          /\ \A k \in (1..scheduled) \ (cancelled \cup Scheduler!Ids(file)) :
                \E due \in Scheduler!Times : <<k, due>> \in fired
      BY <3>1 DEF CronInv, Scheduler!TasksKept
    <3>3. Scheduler!Ids(S) \subseteq Scheduler!Ids(file)
      BY <1>3 DEF Scheduler!Ids
    <3>4. ASSUME NEW k \in Scheduler!Ids(file) \ Scheduler!Ids(S)
          PROVE  \E due \in Scheduler!Times : <<k, due>> \in F
      <4>1. PICK y \in file : y.id = k
        BY DEF Scheduler!Ids
      <4>2. y \notin S
        BY <3>4, <4>1 DEF Scheduler!Ids
      <4>3. PICK r \in R : r.id = k
        BY <1>3, <3>1, <4>1, <4>2 DEF Scheduler!Ids
      <4>4. PICK z \in list : RunOf(r, z, F)
        BY DEF RunsSound
      <4>5. <<k, z.due>> \in F /\ z.due \in Scheduler!Times
        BY <4>3, <4>4 DEF RunOf, CronInv, Scheduler!TypeOK, Scheduler!Task
      <4> QED BY <4>5
    <3> QED BY <1>5, <3>1, <3>2, <3>3, <3>4
  <2> QED BY <2>3, <2>4, <2>5, <2>6, <2>7 DEF CronInv
<1>8. CASE fired' = F /\ Scheduler!Saved(S)
  BY <1>7, <1>8 DEF Scheduler!Saved
<1>9. CASE Scheduler!Forgotten /\ Scheduler!SaveFails(S)
  <2>1. damaged' = TRUE /\ fired' \subseteq F
    BY <1>5, <1>9 DEF Scheduler!Forgotten, Scheduler!SaveFails
  <2>2. file' \subseteq S \/ (file' = file /\ torn' = torn)
    BY <1>9 DEF Scheduler!SaveFails
  <2> QED BY <1>6, <1>7, <1>9, <2>1, <2>2
<1> QED BY <1>1, <1>8, <1>9

LEMMA TickGoesOn ==
    ASSUME CronInv, tick # "sleeping", NEW R, NEW F, RunsSound(R, F), Scheduler!Continue(R, F),
           UNCHANGED <<clock, scheduled, cancelled>>
    PROVE  CronInv'
<1> USE SchedulerAssumption
<1>1. PICK rest : rest = {x \in Scheduler!Due(list, now) : x.id > at}
  OBVIOUS
<1>2. CASE rest # {}
  <2>1. /\ tick' = "resolving" /\ at' = Scheduler!FirstId(rest) /\ changed' = R /\ fired' = F
        /\ UNCHANGED <<now, list, file, torn, cronMishaps, damaged>>
    BY <1>1, <1>2 DEF Scheduler!Continue, Scheduler!fileVars
  <2>2. rest \subseteq Scheduler!Task
    BY <1>1 DEF Scheduler!Due, CronInv, Scheduler!TypeOK
  <2>3. PICK x \in rest : x.id = at'
    BY <1>2, <2>1, <2>2, FirstOfRest
  <2>4. x \in list /\ x.due <= now /\ at' > at /\ at' \in Nat /\ at \in Nat /\ at' \in Scheduler!TaskIds
    BY <1>1, <2>2, <2>3 DEF Scheduler!Due, Scheduler!Task, Scheduler!TaskIds, CronInv, Scheduler!TypeOK
  <2>5. Scheduler!TypeOK'
    BY <2>1, <2>4 DEF CronInv, Scheduler!TypeOK, RunsSound
  <2>6. \A r \in R : r.id \in Nat
    BY DEF RunsSound, Scheduler!TaskIds
  <2>7. FileSound'
    BY <2>1 DEF CronInv, FileSound
  <2>8. TickSound'
    <3>1. /\ now' <= clock' /\ Unique(list') /\ \A y \in list' : y.id <= scheduled'
          /\ \A y \in file', z \in list' : y.id = z.id => y = z
          /\ ~damaged' => Scheduler!Ids(list') \subseteq Scheduler!Ids(file') \cup cancelled'
      BY <2>1 DEF CronInv, TickSound
    <3>2. Unique(changed') /\ \A r \in changed' : r.id < at' /\ \E y \in list' : RunOf(r, y, fired')
      BY <2>1, <2>4, <2>6 DEF RunsSound
    <3>3. \E y \in list' : y.id = at' /\ y.due <= now'
      BY <2>1, <2>3, <2>4
    <3> QED BY <2>1, <3>1, <3>2, <3>3 DEF TickSound
  <2>9. RunsPast'
    BY <2>1 DEF RunsPast, RunsSound
  <2>10. Scheduler!TasksKept'
    BY <2>1 DEF RunsSound, CronInv, Scheduler!TasksKept
  <2> QED BY <2>5, <2>7, <2>8, <2>9, <2>10 DEF CronInv
<1>3. CASE rest = {}
  <2>1. /\ Scheduler!Sleep
        /\ \/ R = {} /\ fired' = F /\ UNCHANGED Scheduler!fileVars
           \/ R # {} /\ fired' = F /\ Scheduler!Saved(Scheduler!Updated(R))
           \/ R # {} /\ Scheduler!Forgotten /\ Scheduler!SaveFails(Scheduler!Updated(R))
    BY <1>1, <1>3 DEF Scheduler!Continue
  <2>2. CASE R = {} /\ fired' = F /\ UNCHANGED Scheduler!fileVars
    <3>1. UNCHANGED <<file, torn, cronMishaps, damaged, clock, scheduled, cancelled>>
      BY <2>2 DEF Scheduler!fileVars
    <3>2. tick' = "sleeping" /\ now' = 0 /\ list' = {} /\ at' = 0 /\ changed' = {}
      BY <2>1 DEF Scheduler!Sleep
    <3>3. Scheduler!TypeOK'
      BY <2>2, <3>1, <3>2 DEF CronInv, Scheduler!TypeOK, RunsSound
    <3>4. FileSound' /\ TickSound'
      BY <3>1, <3>2 DEF CronInv, FileSound, TickSound
    <3>5. RunsPast'
      BY <2>2, <3>1, <3>2 DEF RunsPast, RunsSound
    <3>6. Scheduler!TasksKept'
      BY <2>2, <3>1 DEF RunsSound, CronInv, Scheduler!TasksKept
    <3> QED BY <3>3, <3>4, <3>5, <3>6 DEF CronInv
  <2>3. CASE R # {} /\ (\/ fired' = F /\ Scheduler!Saved(Scheduler!Updated(R))
                        \/ Scheduler!Forgotten /\ Scheduler!SaveFails(Scheduler!Updated(R)))
    BY <2>1, <2>3, TickSaves
  <2> QED BY <2>1, <2>2, <2>3
<1> QED BY <1>2, <1>3

LEMMA TickStep ==
    ASSUME CronInv, Scheduler!Tick PROVE CronInv'
<1> USE SchedulerAssumption
<1>1. CASE Scheduler!TickStarts
  <2>1. /\ tick = "sleeping" /\ tick' = "resolving" /\ now' = clock /\ list' = Scheduler!Loaded
        /\ at' = Scheduler!FirstId(Scheduler!Due(Scheduler!Loaded, clock)) /\ changed' = {}
        /\ UNCHANGED <<clock, file, torn, cronMishaps, damaged, scheduled, cancelled, fired>>
        /\ Scheduler!Due(Scheduler!Loaded, clock) # {}
    BY <1>1 DEF Scheduler!TickStarts, Scheduler!fileVars
  <2>2. /\ Scheduler!Loaded \subseteq file /\ (~damaged => Scheduler!Loaded = file)
        /\ file \subseteq Scheduler!Task /\ clock \in 1..MaxTime
    BY DEF Scheduler!Loaded, CronInv, FileSound, Scheduler!TypeOK
  <2>3. PICK x \in Scheduler!Due(Scheduler!Loaded, clock) : x.id = at'
    <3>1. Scheduler!Due(Scheduler!Loaded, clock) \subseteq Scheduler!Task
      BY <2>2 DEF Scheduler!Due
    <3> QED BY <2>1, <3>1, FirstOfRest
  <2>4. x \in Scheduler!Loaded /\ x.due <= clock /\ at' \in Scheduler!TaskIds
    BY <2>2, <2>3 DEF Scheduler!Due, Scheduler!Task
  <2>5. Scheduler!TypeOK'
    BY <2>1, <2>2, <2>4 DEF CronInv, Scheduler!TypeOK
  <2>6. FileSound'
    BY <2>1 DEF CronInv, FileSound
  <2>7. TickSound'
    <3>1. now' <= clock' /\ Unique(list') /\ (\A y \in list' : y.id <= scheduled')
      BY <2>1, <2>2 DEF CronInv, FileSound, Unique
    <3>2. \A y \in file', z \in list' : y.id = z.id => y = z
      BY <2>1, <2>2 DEF CronInv, FileSound, Unique
    <3>3. ~damaged' => Scheduler!Ids(list') \subseteq Scheduler!Ids(file') \cup cancelled'
      BY <2>1, <2>2
    <3>4. \E y \in list' : y.id = at' /\ y.due <= now'
      BY <2>1, <2>3, <2>4
    <3>5. Unique(changed') /\ \A r \in changed' : r.id < at' /\ \E y \in list' : RunOf(r, y, fired')
      BY <2>1 DEF Unique
    <3> QED BY <2>1, <3>1, <3>2, <3>3, <3>4, <3>5 DEF TickSound
  <2>8. RunsPast'
    <3>1. changed = {} BY <2>1 DEF CronInv, TickSound
    <3> QED BY <2>1, <2>2, <3>1 DEF CronInv, RunsPast
  <2>9. Scheduler!TasksKept'
    BY <2>1 DEF CronInv, Scheduler!TasksKept
  <2> QED BY <2>5, <2>6, <2>7, <2>8, <2>9 DEF CronInv
<1>2. CASE Scheduler!Resolved
  <2>1. /\ tick = "resolving" /\ tick' = "delivering"
        /\ UNCHANGED <<clock, file, torn, cronMishaps, damaged, now, list, at, changed, scheduled,
                       cancelled, fired>>
    BY <1>2 DEF Scheduler!Resolved, Scheduler!fileVars
  <2> QED BY <2>1 DEF CronInv, Scheduler!TypeOK, FileSound, TickSound, RunsPast, Scheduler!TasksKept,
             RunOf
<1>3. CASE Scheduler!NotResolved
  BY <1>3, NotFiredSound, TickGoesOn DEF Scheduler!NotResolved
<1>4. CASE Scheduler!Delivered
  <2>1. tick # "sleeping" /\ (Scheduler!Current.once \/ Scheduler!Current.every # 0)
    BY <1>4 DEF Scheduler!Delivered
  <2>2. PICK R : R = changed \cup {[id |-> at, due |-> Scheduler!NextRun(Scheduler!Current)]}
    OBVIOUS
  <2>3. RunsSound(R, Scheduler!Fired)
    BY <2>1, <2>2, FiredSound
  <2>4. Scheduler!Continue(R, Scheduler!Fired) /\ UNCHANGED <<clock, scheduled, cancelled>>
    BY <1>4, <2>2 DEF Scheduler!Delivered
  <2>5. PICK F : F = Scheduler!Fired
    OBVIOUS
  <2> QED BY <2>1, <2>3, <2>4, <2>5, TickGoesOn
<1>5. CASE Scheduler!DivisionByZero
  <2>1. UNCHANGED <<clock, file, torn, scheduled, cancelled, damaged, cronMishaps>>
    BY <1>5 DEF Scheduler!DivisionByZero, Scheduler!fileVars
  <2>2. cronMishaps \in 0..MaxCronMishaps
    BY DEF CronInv, Scheduler!TypeOK
  <2> QED BY <1>5, <2>1, <2>2, CutShort DEF Scheduler!DivisionByZero
<1> QED BY <1>1, <1>2, <1>3, <1>4, <1>5 DEF Scheduler!Tick

LEMMA ToolStep ==
    ASSUME CronInv, Scheduler!ScheduleTask \/ Scheduler!CancelTask \/ Scheduler!Advance \/ Scheduler!Restart
    PROVE  CronInv'
<1> USE SchedulerAssumption
<1>1. /\ Scheduler!Loaded \subseteq file /\ file \subseteq Scheduler!Task
      /\ scheduled \in Nat
  BY DEF Scheduler!Loaded, CronInv, Scheduler!TypeOK
<1>2. CASE Scheduler!ScheduleTask
  <2>1. /\ scheduled < MaxTasks /\ scheduled' = scheduled + 1
        /\ UNCHANGED <<clock, tick, now, list, at, changed, cancelled, fired>>
    BY <1>2 DEF Scheduler!ScheduleTask, Scheduler!tickVars
  <2>2. PICK due \in 1..MaxTime, once \in BOOLEAN, every \in Intervals \cup {0} :
          LET tasks == Scheduler!Loaded
                \cup {[id |-> scheduled', due |-> due, once |-> once, every |-> every]}
          IN  Scheduler!Saved(tasks) \/ Scheduler!SaveFails(tasks)
    BY <1>2 DEF Scheduler!ScheduleTask
  <2>3. PICK new : new = [id |-> scheduled', due |-> due, once |-> once, every |-> every]
    OBVIOUS
  <2>4. new \in Scheduler!Task /\ new.id = scheduled + 1
    BY <1>1, <2>1, <2>3 DEF Scheduler!Task, Scheduler!TaskIds, Scheduler!Times
  <2>5. PICK S : S = Scheduler!Loaded \cup {new}
    OBVIOUS
  <2>6. S \in SUBSET Scheduler!Task /\ Leaves(S)
    <3>1. S \in SUBSET Scheduler!Task BY <1>1, <2>4, <2>5
    <3>2. Scheduler!Saved(S) \/ Scheduler!SaveFails(S) BY <2>2, <2>3, <2>5
    <3> QED BY <3>1, <3>2, SaveLeaves
  <2>7. \A x \in S : x \in Scheduler!Loaded \/ x.id = scheduled + 1
    BY <2>4, <2>5
  <2>8. \A x, y \in S : x.id = scheduled + 1 /\ y.id = scheduled + 1 => x = y
    BY <1>1, <2>5 DEF CronInv, FileSound
  <2>9. scheduled + 1 \in Scheduler!Ids(S) /\ Scheduler!Loaded \subseteq S
    BY <2>4, <2>5 DEF Scheduler!Ids
  <2> QED BY <2>1, <2>6, <2>7, <2>8, <2>9, ToolKeeps
<1>3. CASE Scheduler!CancelTask
  <2>1. UNCHANGED <<clock, tick, now, list, at, changed, scheduled, fired>>
    BY <1>3 DEF Scheduler!CancelTask, Scheduler!tickVars
  <2>2. PICK x \in Scheduler!Loaded :
          /\ Scheduler!Saved(Scheduler!Loaded \ {x}) \/ Scheduler!SaveFails(Scheduler!Loaded \ {x})
          /\ cancelled' = cancelled \cup {x.id}
    BY <1>3 DEF Scheduler!CancelTask
  <2>3. PICK S : S = Scheduler!Loaded \ {x}
    OBVIOUS
  <2>4. S \in SUBSET Scheduler!Task /\ Leaves(S)
    BY <1>1, <2>2, <2>3, SaveLeaves
  <2>5. \A y \in S : y \in Scheduler!Loaded /\ y.id <= scheduled /\ y.id \in Nat
    BY <1>1, <2>3 DEF CronInv, FileSound, Scheduler!Task, Scheduler!TaskIds
  <2>6. \A y, z \in S : y.id = scheduled + 1 /\ z.id = scheduled + 1 => y = z
    BY <1>1, <2>5
  <2> QED BY <2>1, <2>2, <2>3, <2>4, <2>5, <2>6, ToolKeeps
<1>4. CASE Scheduler!Advance
  <2>1. /\ clock < MaxTime /\ clock' = clock + 1
        /\ UNCHANGED <<file, torn, cronMishaps, damaged, tick, now, list, at, changed, scheduled,
                       cancelled, fired>>
    BY <1>4 DEF Scheduler!Advance, Scheduler!fileVars, Scheduler!tickVars
  <2>2. clock \in 1..MaxTime /\ now \in 0..MaxTime
    BY DEF CronInv, Scheduler!TypeOK
  <2>3. Scheduler!TypeOK'
    BY <2>1, <2>2 DEF CronInv, Scheduler!TypeOK
  <2>4. now <= clock => now' <= clock'
    BY <2>1, <2>2
  <2>5. TickSound'
    BY <2>1, <2>4 DEF CronInv, TickSound, RunOf
  <2> QED BY <2>1, <2>3, <2>5 DEF CronInv, FileSound, RunsPast, Scheduler!TasksKept
<1>5. CASE Scheduler!Restart
  <2>1. /\ Scheduler!Sleep /\ Scheduler!Forgotten
        /\ UNCHANGED <<clock, file, torn, scheduled, cancelled, damaged>>
        /\ cronMishaps < MaxCronMishaps /\ cronMishaps' = cronMishaps + 1
    BY <1>5 DEF Scheduler!Restart
  <2>2. cronMishaps' \in 0..MaxCronMishaps
    BY <2>1 DEF CronInv, Scheduler!TypeOK
  <2> QED BY <2>1, <2>2, CutShort
<1> QED BY <1>2, <1>3, <1>4, <1>5

LEMMA CronRests == ASSUME CronInv, UNCHANGED schedulerVars PROVE CronInv'
BY DEF CronInv, schedulerVars, Scheduler!TypeOK, FileSound, TickSound, RunsPast, Scheduler!TasksKept, RunOf,
       Unique, Scheduler!Ids

\* Cron: a run is delivered again only after a tick that was cut short, and the tick's save and
\* the tools' saves do not undo each other (skills/cron.py).
THEOREM TasksServed == MCSpec => []TasksServedOnce
<1>1. MCInit => CronInv
  BY CronInit DEF MCInit
<1>2. CronInv /\ [MCNext]_allVars => CronInv'
  <2> SUFFICES ASSUME CronInv, [MCNext]_allVars PROVE CronInv'
    OBVIOUS
  <2>1. CASE Scheduler!Next BY <2>1, TickStep, ToolStep DEF Scheduler!Next
  <2>2. CASE UNCHANGED schedulerVars BY <2>2, CronRests
  <2> QED BY <2>1, <2>2 DEF MCNext, allVars
<1>3. CronInv => TasksServedOnce
  <2> SUFFICES ASSUME CronInv, tick = "delivering" PROVE <<at, Scheduler!Current.due>> \notin fired
    BY DEF CronInv, TasksServedOnce, Scheduler!OncePerRun
  <2>1. PICK cur \in list : cur = Scheduler!Current /\ cur.id = at /\ at \notin Scheduler!Ids(changed)
    BY CurrentIs
  <2>2. cur.due \in Nat
    BY SchedulerAssumption DEF CronInv, Scheduler!TypeOK, Scheduler!Task, Scheduler!Times
  <2>3. \A p \in fired : p[1] = cur.id => p[2] < cur.due
    BY <2>1 DEF CronInv, RunsPast
  <2> QED BY <2>1, <2>2, <2>3
<1> QED BY <1>1, <1>2, <1>3, PTL DEF MCSpec, allVars

===============================================================================
