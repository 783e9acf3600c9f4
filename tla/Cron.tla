-------------------------------- MODULE Cron --------------------------------
(***************************************************************************)
(* The scheduler of skills/cron.py and one CRON*.json: the daemon's tick,  *)
(* which fires what is due and then rewrites the file, and the tools of    *)
(* the agent, which rewrite it while the tick waits for a delivery.        *)
(***************************************************************************)
EXTENDS Integers

CONSTANTS
    Intervals,   \* lengths of `repeat`, at most MaxTime; "0m" is accepted
    MaxTasks,    \* bound: tasks scheduled
    MaxTime,     \* bound: the clock
    MaxMishaps   \* bound: restarts and failed saves

VARIABLES
    clock,
    file,       \* the tasks of CRON*.json, in the order of their ids
    torn,       \* its last line is broken: it loads as empty
    tick,       \* "sleeping", or the await of the tick: "resolving", "delivering"
    now,        \* the tick's `now`
    list,       \* the tasks it has read at its start
    at,         \* the due task it is at
    changed,    \* `changed`: the next run of each task fired, Never if it has none
    scheduled,  \* ids given out so far
    cancelled,  \* ids that cancel_task removed
    fired,      \* the runs (task, due) delivered by ticks that were not cut short
    mishaps,
    damaged     \* a save was cut short

tickVars == <<tick, now, list, at, changed>>
fileVars == <<file, torn, mishaps, damaged>>
cronVars == <<clock, fileVars, tickVars, scheduled, cancelled, fired>>

Never == 0
TaskIds == 1..MaxTasks
Times == 0..(2 * MaxTime)
Task == [id : TaskIds, due : Times, once : BOOLEAN, every : Intervals \cup {0}]

TypeOK ==
    /\ clock \in 1..MaxTime
    /\ file \subseteq Task /\ torn \in BOOLEAN
    /\ tick \in {"sleeping", "resolving", "delivering"}
    /\ now \in 0..MaxTime /\ list \subseteq Task /\ at \in {0} \cup TaskIds
    /\ changed \subseteq [id : TaskIds, due : Times]
    /\ scheduled \in 0..MaxTasks /\ cancelled \subseteq 1..scheduled
    /\ fired \subseteq TaskIds \X Times
    /\ mishaps \in 0..MaxMishaps /\ damaged \in BOOLEAN

Idle == tick = "sleeping" /\ now = 0 /\ list = {} /\ at = 0 /\ changed = {}

Init ==
    /\ clock = 1
    /\ file = {} /\ torn = FALSE
    /\ Idle
    /\ scheduled = 0 /\ cancelled = {}
    /\ fired = {}
    /\ mishaps = 0 /\ damaged = FALSE

-----------------------------------------------------------------------------
(* Helpers *)

\* _load_tasks: one broken line makes the whole file load as empty.
Loaded == IF torn THEN {} ELSE file

Ids(S) == {x.id : x \in S}
Due(S, time) == {x \in S : x.due <= time}
FirstId(S) == CHOOSE id \in Ids(S) : \A x \in S : id <= x.id
Current == CHOOSE x \in list : x.id = at

\* _save_tasks rewrites the file in place and swallows an error: what was to be
\* written may be cut after any line or in it, or the file is not opened at all.
SaveFails(tasks) ==
    /\ mishaps < MaxMishaps /\ mishaps' = mishaps + 1
    /\ damaged' = TRUE
    /\ \/ UNCHANGED <<file, torn>>
       \/ /\ \E n \in {0} \cup TaskIds : file' = {x \in tasks : x.id <= n}
          /\ torn' \in BOOLEAN

Saved(tasks) == file' = tasks /\ torn' = FALSE /\ UNCHANGED <<mishaps, damaged>>

\* Wrong variant: one run too many is skipped.
NextRunSkipsOne(task) ==
    IF task.once THEN Never
    ELSE LET next == task.due + task.every IN
         IF next > clock THEN next
         ELSE next + ((clock - next) \div task.every + 2) * task.every

\* _next_run: the next point of the task's grid that is still to come.
NextRun(task) ==
    IF task.once THEN Never
    ELSE LET next == task.due + task.every IN
         IF next > clock THEN next
         ELSE next + ((clock - next) \div task.every + 1) * task.every

\* The runs the tick has delivered so far; when it is cut short, by a restart, an
\* error of its save or the division by zero, they will be delivered again.
OfThisTick == {<<x.id, x.due>> : x \in {y \in list : y.id \in Ids(changed)}}
Forgotten == fired' = fired \ OfThisTick

Sleep == tick' = "sleeping" /\ now' = 0 /\ list' = {} /\ at' = 0 /\ changed' = {}

Rescheduled(tasks, runs) ==
    {x \in tasks : x.id \notin Ids(runs)}
    \cup {[p[1] EXCEPT !.due = p[2].due] :
            p \in {q \in tasks \X runs : q[1].id = q[2].id /\ q[2].due # Never}}

\* Wrong variant: the tick writes back the list it has read at its start.
UpdatedSnapshot(runs) == Rescheduled(list, runs)

\* The file is read again, so that what the tools did meanwhile is kept.
Updated(runs) == Rescheduled(Loaded, runs)

\* The loop goes on to the next due task of its list, or saves and ends.
Continue(runs, delivered) ==
    LET rest == {x \in Due(list, now) : x.id > at} IN
    IF rest # {}
    THEN /\ tick' = "resolving" /\ at' = FirstId(rest) /\ changed' = runs
         /\ fired' = delivered
         /\ UNCHANGED <<now, list, fileVars>>
    ELSE /\ Sleep
         /\ \/ runs = {} /\ fired' = delivered /\ UNCHANGED fileVars
            \/ runs # {} /\ fired' = delivered /\ Saved(Updated(runs))
            \/ runs # {} /\ Forgotten /\ SaveFails(Updated(runs))

-----------------------------------------------------------------------------
(* The tick *)

TickStarts ==
    /\ tick = "sleeping"
    /\ Due(Loaded, clock) # {}
    /\ tick' = "resolving"
    /\ now' = clock /\ list' = Loaded /\ at' = FirstId(Due(Loaded, clock)) /\ changed' = {}
    /\ UNCHANGED <<clock, fileVars, scheduled, cancelled, fired>>

Resolved ==
    /\ tick = "resolving"
    /\ tick' = "delivering"
    /\ UNCHANGED <<clock, fileVars, now, list, at, changed, scheduled, cancelled, fired>>

\* Agent.get raises: the task waits for the next tick.
NotResolved ==
    /\ tick = "resolving"
    /\ Continue(changed, fired)
    /\ UNCHANGED <<clock, scheduled, cancelled>>

Fired == fired \cup {<<at, Current.due>>}

\* Wrong variant: a task whose delivery raised is tried again.
DeliveredOrRetried ==
    /\ tick = "delivering"
    /\ Current.once \/ Current.every # 0
    /\ \E runs \in {changed, changed \cup {[id |-> at, due |-> NextRun(Current)]}} :
        Continue(runs, Fired)
    /\ UNCHANGED <<clock, scheduled, cancelled>>

\* Wrong variant: what the delivery raises is not caught and ends the tick.
DeliveredOrRaised ==
    /\ tick = "delivering"
    /\ Current.once \/ Current.every # 0
    /\ \/ Continue(changed \cup {[id |-> at, due |-> NextRun(Current)]}, Fired)
       \/ Sleep /\ Forgotten /\ UNCHANGED fileVars
    /\ UNCHANGED <<clock, scheduled, cancelled>>

\* inject_message and process_message are over, successfully or not.
Delivered ==
    /\ tick = "delivering"
    /\ Current.once \/ Current.every # 0
    /\ Continue(changed \cup {[id |-> at, due |-> NextRun(Current)]}, Fired)
    /\ UNCHANGED <<clock, scheduled, cancelled>>

\* A repeat of zero length: the division raises out of the tick, the runs it has
\* delivered are not saved and the rest of its list is not looked at.
DivisionByZero ==
    /\ tick = "delivering"
    /\ ~Current.once /\ Current.every = 0
    /\ Sleep /\ Forgotten
    /\ UNCHANGED <<clock, fileVars, scheduled, cancelled>>

-----------------------------------------------------------------------------
(* The tools of the agent *)

ScheduleTask ==
    /\ scheduled < MaxTasks /\ scheduled' = scheduled + 1
    /\ \E due \in 1..MaxTime, once \in BOOLEAN, every \in Intervals \cup {0} :
        LET tasks == Loaded \cup {[id |-> scheduled', due |-> due, once |-> once, every |-> every]}
        IN  /\ IF once THEN every = 0 ELSE every \in Intervals
            /\ Saved(tasks) \/ SaveFails(tasks)
    /\ UNCHANGED <<clock, tickVars, cancelled, fired>>

CancelTask ==
    /\ \E x \in Loaded :
        /\ Saved(Loaded \ {x}) \/ SaveFails(Loaded \ {x})
        /\ cancelled' = cancelled \cup {x.id}
    /\ UNCHANGED <<clock, tickVars, scheduled, fired>>

-----------------------------------------------------------------------------
(* The surroundings *)

Advance ==
    /\ clock < MaxTime /\ clock' = clock + 1
    /\ UNCHANGED <<fileVars, tickVars, scheduled, cancelled, fired>>

\* The process is killed and started again.  A kill in the middle of a save is a
\* save that fails and then this.
Restart ==
    /\ mishaps < MaxMishaps /\ mishaps' = mishaps + 1
    /\ Sleep /\ Forgotten
    /\ UNCHANGED <<clock, file, torn, damaged, scheduled, cancelled>>

-----------------------------------------------------------------------------

Tick == TickStarts \/ Resolved \/ NotResolved \/ Delivered \/ DivisionByZero

Next == Tick \/ ScheduleTask \/ CancelTask \/ Advance \/ Restart

\* The daemon's loop ticks every 30 seconds, and turns end; an agent that can be
\* got again and again is got some time.
Fairness == WF_cronVars(Tick) /\ SF_cronVars(Resolved)

Spec == Init /\ [][Next]_cronVars /\ Fairness

-----------------------------------------------------------------------------
(* Properties *)

\* A run of a task is delivered once.  It comes again only if the tick that delivered
\* it ended without its save: by a restart, an error of the save, or the division by zero.
OncePerRun == tick = "delivering" => <<at, Current.due>> \notin fired

\* Nothing the tools do during a tick is undone by its save, nor the other way
\* round: a task is in the file unless it was cancelled, or ran and has no next
\* run; a cancelled one does not come back.
TasksKept ==
    ~damaged =>
        /\ Ids(file) \cap cancelled = {}
        /\ \A id \in (1..scheduled) \ (cancelled \cup Ids(file)) :
            \E due \in Times : <<id, due>> \in fired

\* A due task is delivered, cancelled or lost to a failed save, unless a task of
\* zero length keeps cutting the ticks short.
DueIsServed ==
    \A id \in TaskIds :
        (\E x \in Loaded : x.id = id /\ x.due <= clock)
        ~> \/ id \notin Ids(Due(Loaded, clock))
           \/ \E x \in Loaded : ~x.once /\ x.every = 0
=============================================================================
