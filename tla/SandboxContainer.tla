-------------------------- MODULE SandboxContainer --------------------------
(***************************************************************************)
(* The container behind the sandbox tools of one agent                     *)
(* (skills/sandbox/__init__.py): _ensure_container brings it in step with  *)
(* the mounts of .config.json, exec runs a command in it.  Tool calls may  *)
(* run side by side (the Claude and Codex backends start them as tasks),   *)
(* each can be cancelled at any await, and a cancelled podman client may   *)
(* have done its work or not.  podman is external.                         *)
(***************************************************************************)
EXTENDS Naturals

CONSTANTS
    Tasks,        \* tool calls that may run at the same time
    Mounts,       \* values of sandbox.ro and sandbox.rw
    Unset,        \* _mounts_hash before the first success
    MaxCommands,  \* bound: calls of exec
    MaxChanges,   \* bound: changes of the configuration
    MaxMishaps    \* bound: failures, stops, timeouts, reboots and restarts

VARIABLES
    config,     \* the mounts .config.json asks for
    cached,     \* _mounts_hash
    lock,       \* _ensure_lock: the call that holds it, if any
    task,       \* each call: its stage, the mounts it read, its command
    box,        \* the container: state, mounts, files left in it, processes
    image,      \* <container>_env: exists, files
    installed,  \* what commands left that ended while nobody replaced the container
    commands, changes, mishaps  \* counts

sandboxCounts == <<commands, changes, mishaps>>
sandboxVars == <<config, cached, lock, task, box, image, installed, sandboxCounts>>

Commands == 1..MaxCommands
Stages == {"idle", "waiting", "inspect", "create", "start", "commit", "remove",
           "recreate", "sync", "exec", "running", "killing"}
Holding == {"inspect", "create", "start", "commit", "remove", "recreate", "sync"}
Idle(m) == [stage |-> "idle", want |-> m, n |-> 0]

TypeOK ==
    /\ config \in Mounts /\ cached \in Mounts \cup {Unset}
    /\ lock \subseteq Tasks
    /\ task \in [Tasks -> [stage : Stages, want : Mounts, n : Commands \cup {0}]]
    /\ box \in [state : {"none", "stopped", "running"}, mounts : Mounts,
                files : SUBSET Commands, procs : SUBSET Commands]
    /\ image \in [exists : BOOLEAN, files : SUBSET Commands]
    /\ installed \subseteq Commands
    /\ commands \in 0..MaxCommands /\ changes \in 0..MaxChanges
    /\ mishaps \in 0..MaxMishaps

Init ==
    /\ config \in Mounts /\ cached = Unset
    /\ lock = {}
    /\ task = [t \in Tasks |-> Idle(config)]
    /\ box = [state |-> "none", mounts |-> config, files |-> {}, procs |-> {}]
    /\ image = [exists |-> FALSE, files |-> {}]
    /\ installed = {}
    /\ commands = 0 /\ changes = 0 /\ mishaps = 0

-----------------------------------------------------------------------------
(* Helpers *)

At(t, stage) == task[t].stage = stage
Go(t, stage) == task' = [task EXCEPT ![t].stage = stage]

\* The end of `async with`.
Release(t) == lock' = lock \ {t}

\* The call is over.
Done(t) == task' = [task EXCEPT ![t] = Idle(task[t].want)] /\ Release(t)

\* Wrong variant: no lock around the checks.
Unguarded == TRUE

\* asyncio.Lock lets in who waits longest; here it may be any of those who wait.
LockFree == lock = {}

Exists == box.state # "none"
Mishap == mishaps < MaxMishaps /\ mishaps' = mishaps + 1 /\ UNCHANGED <<commands, changes>>

\* Wrong variant: a new container always begins from the configured image.
FromBase == {}

\* ... from the committed image, if there is one.
FromImage == IF image.exists THEN image.files ELSE {}

\* What the podman command of a stage does to the container and the image.
Fresh(t) == [state |-> "running", mounts |-> task[t].want, files |-> FromImage, procs |-> {}]
Effect(t) ==
    CASE At(t, "create") \/ At(t, "recreate") -> /\ box' = IF Exists THEN box ELSE Fresh(t)
                                                 /\ image' = image
      [] At(t, "start")  -> box' = [box EXCEPT !.state = "running"] /\ image' = image
      [] At(t, "commit") -> box' = box /\ image' = [exists |-> TRUE, files |-> box.files]
      [] At(t, "remove") -> /\ box' = [box EXCEPT !.state = "none", !.files = {}, !.procs = {}]
                            /\ image' = image
      [] OTHER -> UNCHANGED <<box, image>>

-----------------------------------------------------------------------------
(* _ensure_container *)

\* The volumes and the hash are worked out from the configuration of this
\* moment; when the hash is the cached one nothing is checked.
Call(t) ==
    /\ At(t, "idle") /\ commands < MaxCommands
    /\ commands' = commands + 1
    /\ task' = [task EXCEPT ![t] = [stage |-> IF cached = config THEN "exec" ELSE "waiting",
                                    want |-> config, n |-> commands']]
    /\ UNCHANGED <<config, cached, lock, box, image, installed, changes, mishaps>>

\* Under the lock the hash is looked at again.
Locked(t) ==
    /\ At(t, "waiting") /\ LockFree
    /\ IF cached = task[t].want
       THEN Go(t, "exec") /\ UNCHANGED lock
       ELSE Go(t, "inspect") /\ lock' = lock \cup {t}
    /\ UNCHANGED <<config, cached, box, image, installed, sandboxCounts>>

\* What `podman inspect` says decides; a stopped container is only started.
NextStage(t) ==
    IF ~Exists THEN "create"
    ELSE IF box.state = "stopped" THEN "start"
    ELSE IF box.mounts # task[t].want THEN "commit" ELSE "sync"

Inspect(t) ==
    /\ At(t, "inspect")
    /\ Go(t, NextStage(t))
    /\ cached' = IF NextStage(t) = "sync" THEN task[t].want ELSE cached
    /\ UNCHANGED <<config, lock, box, image, installed, sandboxCounts>>

\* run or start succeeded: the hash is cached, then the RPC address is written.
Brought(t) ==
    /\ \/ At(t, "create") /\ ~Exists
       \/ At(t, "recreate") /\ ~Exists
       \/ At(t, "start") /\ Exists
    /\ Effect(t)
    /\ cached' = task[t].want
    /\ Go(t, "sync")
    /\ UNCHANGED <<config, lock, installed, sandboxCounts>>

\* Wrong variant: the container is removed without a commit.
CommittedNot(t) ==
    /\ At(t, "commit") /\ Exists
    /\ UNCHANGED <<box, image>>
    /\ Go(t, "remove")
    /\ UNCHANGED <<config, cached, lock, installed, sandboxCounts>>

Committed(t) ==
    /\ At(t, "commit") /\ Exists
    /\ Effect(t)
    /\ Go(t, "remove")
    /\ UNCHANGED <<config, cached, lock, installed, sandboxCounts>>

\* rm -f kills whatever runs in the container.
Removed(t) ==
    /\ At(t, "remove")
    /\ Effect(t)
    /\ Go(t, "recreate")
    /\ UNCHANGED <<config, cached, lock, installed, sandboxCounts>>

\* `podman run` finds the name taken, `start` and `commit` no container.
Refused(t) ==
    /\ \/ At(t, "create") /\ Exists
       \/ At(t, "recreate") /\ Exists
       \/ (At(t, "start") \/ At(t, "commit")) /\ ~Exists
    /\ Done(t)
    /\ UNCHANGED <<config, cached, box, image, installed, sandboxCounts>>

\* The address is written, or a warning is logged.
Synced(t) ==
    /\ At(t, "sync")
    /\ Go(t, "exec") /\ Release(t)
    /\ UNCHANGED <<config, cached, box, image, installed, sandboxCounts>>

\* A podman command fails: the tool returns the error.
PodmanFails(t) ==
    /\ task[t].stage \in Holding \ {"remove"}
    /\ Mishap
    /\ Done(t)
    /\ UNCHANGED <<config, cached, box, image, installed>>

\* The call is cancelled while podman runs: it may have done its work.
Cancelled(t) ==
    /\ task[t].stage \in Holding \cup {"waiting", "exec"}
    /\ Mishap
    /\ Done(t)
    /\ \/ UNCHANGED <<box, image>>
       \/ Effect(t)
    /\ UNCHANGED <<config, cached, installed>>

-----------------------------------------------------------------------------
(* exec *)

\* `podman exec` starts the command, or fails with an exit code.
ExecStarts(t) ==
    /\ At(t, "exec")
    /\ IF box.state = "running"
       THEN /\ box' = [box EXCEPT !.procs = @ \cup {task[t].n}]
            /\ Go(t, "running") /\ UNCHANGED lock
       ELSE Done(t) /\ UNCHANGED box
    /\ UNCHANGED <<config, cached, image, installed, sandboxCounts>>

\* The command ends.  What it left while another task was between the commit and
\* the removal is in neither container: it is not counted as installed.
ExecEnds(t) ==
    /\ At(t, "running")
    /\ IF task[t].n \in box.procs
       THEN /\ box' = [box EXCEPT !.procs = @ \ {task[t].n}, !.files = @ \cup {task[t].n}]
            /\ installed' = IF \E u \in Tasks : At(u, "remove") THEN installed
                            ELSE installed \cup {task[t].n}
       ELSE UNCHANGED <<box, installed>>
    /\ Done(t)
    /\ UNCHANGED <<config, cached, image, sandboxCounts>>

\* A timeout or a cancellation: the command inside the container is killed by
\* its marker; when that fails it goes on without anybody waiting for it.
ExecInterrupted(t) ==
    /\ At(t, "running")
    /\ Mishap
    /\ Go(t, "killing")
    /\ UNCHANGED <<config, cached, lock, box, image, installed>>

Killed(t) ==
    /\ At(t, "killing")
    /\ box' = [box EXCEPT !.procs = @ \ {task[t].n}] \/ UNCHANGED box
    /\ Done(t)
    /\ UNCHANGED <<config, cached, image, installed, sandboxCounts>>

-----------------------------------------------------------------------------
(* The surroundings *)

\* /config write sandbox.rw[] ...
ChangeMounts ==
    /\ changes < MaxChanges /\ changes' = changes + 1
    /\ \E m \in Mounts \ {config} : config' = m
    /\ UNCHANGED <<cached, lock, task, box, image, installed, commands, mishaps>>

\* The machine is rebooted, or somebody stops the container.
BoxStops ==
    /\ box.state = "running"
    /\ Mishap
    /\ box' = [box EXCEPT !.state = "stopped", !.procs = {}]
    /\ UNCHANGED <<config, cached, lock, task, image, installed>>

\* The agent's process is restarted: the container lives on.
Restart ==
    /\ Mishap
    /\ cached' = Unset /\ lock' = {}
    /\ task' = [t \in Tasks |-> Idle(config)]
    /\ UNCHANGED <<config, box, image, installed>>

-----------------------------------------------------------------------------

Ensure(t) ==
    \/ Locked(t) \/ Inspect(t) \/ Brought(t) \/ Committed(t) \/ Removed(t) \/ Refused(t)
    \/ Synced(t)

Exec(t) == ExecStarts(t) \/ ExecEnds(t) \/ Killed(t)

Next ==
    \/ \E t \in Tasks :
        \/ Call(t) \/ Ensure(t) \/ Exec(t)
        \/ PodmanFails(t) \/ Cancelled(t) \/ ExecInterrupted(t)
    \/ ChangeMounts \/ BoxStops \/ Restart

Spec == Init /\ [][Next]_sandboxVars

-----------------------------------------------------------------------------
(* Properties *)

\* "parallel tool calls would otherwise do two `run --name X` in a row": podman is
\* not asked to create a container while one of that name exists.
NameFree == \A t \in Tasks : At(t, "create") \/ At(t, "recreate") => ~Exists

\* "files, installed packages and state are kept between calls": what commands
\* left is in the container, or in the image the next one is made from, whatever
\* was replaced, cancelled, failed or restarted.
StateSurvives == installed \subseteq IF Exists THEN box.files ELSE image.files

\* The container's name is free when one is made, and what commands left is kept.
ContainerKept == NameFree /\ StateSurvives

\* The prompt of the skill: a change of the mounts recreates the container.  A
\* command that is running finds the mounts its call read, while they are the
\* configured ones.
MountsCurrent ==
    \A t \in Tasks : At(t, "running") /\ task[t].n \in box.procs /\ task[t].want = config
        => box.mounts = config
=============================================================================
