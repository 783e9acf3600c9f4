---------------------------- MODULE MovieProject -----------------------------
(* The project of the Movie Creator (modes/movie_creator): characters and the    *)
(* generations of their pictures, changed by the page, by the agent's tools      *)
(* after an approval, and by the tasks that wait for a provider.  Every change   *)
(* is followed by a save of the whole project; all of it is one object in the    *)
(* fork of one launch of the mode.  /exit leaves the mode while its tasks run    *)
(* on, a new launch loads the file.  Scenes, shots and folders are kept like     *)
(* characters; the file of a picture is named after the id of its generation.    *)
EXTENDS Integers, Functions

CONSTANTS
    MaxIds,      \* bound: the ids a project gives out
    MaxLaunches  \* bound: how often the mode is launched

VARIABLES
    live,        \* the launch that the page and the agent talk to
    project,     \* the project in the memory of each launch
    disk,        \* project.json
    jobs,        \* the running tasks of each launch, by generation
    edit,        \* the tool that waits for the user's approval
    written,     \* how often the picture of an id was written to assets/
    cut,         \* generations whose task ended, or went on in a launch left behind
    overwritten  \* a launch left behind has saved its own project

vars == <<live, project, disk, jobs, edit, written, cut, overwritten>>

Ids == 1..MaxIds
Launches == 1..MaxLaunches
Empty == [x \in {} |-> 0]
NewProject == [next |-> 1, characters |-> Empty, generations |-> Empty]
NewCharacter == [edited |-> FALSE, primary |-> 0]
NoEdit == [op |-> "none", target |-> 0]

\* One request (gemini), or a request and polls with a deadline (muapi, evolink).
Models == {"request", "polled"}

Put(f, x, value) == [y \in DOMAIN f \cup {x} |-> IF y = x THEN value ELSE f[y]]
Without(f, gone) == Restrict(f, DOMAIN f \ gone)

Here == project[live]
Alive(l, c) == c \in DOMAIN project[l].characters

Save(l, p) == project' = [project EXCEPT ![l] = p] /\ disk' = p

\* The first picture of a character becomes the one it is shown with.
WithPrimary(characters, c, g) ==
    IF c \in DOMAIN characters /\ characters[c].primary = 0
    THEN [characters EXCEPT ![c].primary = g] ELSE characters

Init ==
    /\ live = 1
    /\ project = [l \in Launches |-> NewProject]
    /\ disk = NewProject
    /\ jobs = [l \in Launches |-> Empty]
    /\ edit = NoEdit
    /\ written = [g \in Ids |-> 0]
    /\ cut = {} /\ overwritten = FALSE

-----------------------------------------------------------------------------
(* The page *)

Create ==
    /\ Here.next \in Ids
    /\ Save(live, [Here EXCEPT !.next = @ + 1,
                               !.characters = Put(@, Here.next, NewCharacter)])

Update(c) == Alive(live, c) /\ Save(live, [Here EXCEPT !.characters[c].edited = TRUE])

\* The gallery offers only finished pictures.
SetPrimary(g) ==
    /\ g \in DOMAIN Here.generations /\ Here.generations[g].status = "done"
    /\ Save(live, [Here EXCEPT !.characters[Here.generations[g].owner].primary = g])

DeleteCharacter(c) ==
    /\ Alive(live, c)
    /\ Save(live, [Here EXCEPT !.characters = Without(@, {c}),
            !.generations = Without(@, {g \in DOMAIN @ : @[g].owner = c})])

DeleteGeneration(g) ==
    /\ g \in DOMAIN Here.generations
    /\ Save(live, [Here EXCEPT !.generations = Without(@, {g})])

PageChanges ==
    /\ \/ Create
       \/ \E x \in Ids : Update(x) \/ SetPrimary(x) \/ DeleteCharacter(x) \/ DeleteGeneration(x)
    /\ UNCHANGED <<live, jobs, edit, written, cut, overwritten>>

Upload ==
    /\ Here.next \in Ids
    /\ \E c \in DOMAIN Here.characters :
        Save(live, [Here EXCEPT !.next = @ + 1,
            !.generations = Put(@, Here.next, [owner |-> c, status |-> "done"]),
            !.characters = WithPrimary(@, c, Here.next)])
    /\ written' = [written EXCEPT ![Here.next] = @ + 1]
    /\ UNCHANGED <<live, jobs, edit, cut, overwritten>>

\* Wrong variant: the id is taken, but nothing is saved before the provider is asked.
EnqueueUnsaved(c, model, by) ==
    /\ Here.next \in Ids
    /\ project' = [project EXCEPT ![live].next = @ + 1]
    /\ disk' = disk
    /\ jobs' = [jobs EXCEPT ![live] =
            Put(@, Here.next, [owner |-> c, model |-> model, by |-> by, phase |-> "saved", late |-> FALSE])]

\* The generation belongs to the character object; one deleted meanwhile is not in
\* the project any more, but the provider is asked all the same.
Enqueue(c, model, by) ==
    /\ Here.next \in Ids
    /\ Save(live, [Here EXCEPT !.next = @ + 1,
            !.generations = IF Alive(live, c)
                            THEN Put(@, Here.next, [owner |-> c, status |-> "generating"]) ELSE @])
    /\ jobs' = [jobs EXCEPT ![live] =
            Put(@, Here.next, [owner |-> c, model |-> model, by |-> by, phase |-> "saved", late |-> FALSE])]

Generate ==
    /\ \E c \in DOMAIN Here.characters, model \in Models : Enqueue(c, model, "page")
    /\ UNCHANGED <<live, edit, written, cut, overwritten>>

-----------------------------------------------------------------------------
(* The agent's tools: one at a time, each waits for the user's answer *)

SendApproval ==
    /\ edit = NoEdit
    /\ \E op \in {"create", "update", "generate"}, c \in 0..MaxIds :
        /\ IF op = "create" THEN c = 0 ELSE Alive(live, c)
        /\ edit' = [op |-> op, target |-> c]
    /\ UNCHANGED <<live, project, disk, jobs, written, cut, overwritten>>

ApprovedEdit ==
    \/ edit.op = "create" /\ Create /\ UNCHANGED jobs
    \/ edit.op = "update" /\ Update(edit.target) /\ UNCHANGED jobs
    \/ edit.op = "update" /\ ~Alive(live, edit.target) /\ UNCHANGED <<project, disk, jobs>>

\* generate_portrait looked the character up before it asked.
ApprovedPicture == edit.op = "generate" /\ Enqueue(edit.target, "request", "agent")

Approved ==
    /\ ApprovedEdit \/ ApprovedPicture
    /\ edit' = NoEdit
    /\ UNCHANGED <<live, written, cut, overwritten>>

\* Rejected, or the tool is stopped.
Rejected ==
    /\ edit # NoEdit /\ edit' = NoEdit
    /\ UNCHANGED <<live, project, disk, jobs, written, cut, overwritten>>

-----------------------------------------------------------------------------
(* The tasks *)

Phase(l, g, phase) == g \in DOMAIN jobs[l] /\ jobs[l][g].phase = phase
Enter(l, g, phase) ==
    /\ jobs' = [jobs EXCEPT ![l][g].phase = phase]
    /\ UNCHANGED <<live, project, disk, edit, written, cut, overwritten>>

\* The page has been told of the new generation: its task is created.
Started(l, g) == Phase(l, g, "saved") /\ Enter(l, g, "posting")

\* ... unless the tool that asked for it is stopped while the page is told.
Stopped(g) ==
    /\ Phase(live, g, "saved") /\ jobs[live][g].by = "agent"
    /\ jobs' = [jobs EXCEPT ![live] = Without(@, {g})]
    /\ cut' = cut \cup {g}
    /\ UNCHANGED <<live, project, disk, edit, written, overwritten>>

Posted(l, g) == Phase(l, g, "posting") /\ jobs[l][g].model = "polled" /\ Enter(l, g, "polling")

DeadlinePasses(l, g) ==
    /\ Phase(l, g, "polling") /\ ~jobs[l][g].late
    /\ jobs' = [jobs EXCEPT ![l][g].late = TRUE]
    /\ UNCHANGED <<live, project, disk, edit, written, cut, overwritten>>

PollCompleted(l, g) == Phase(l, g, "polling") /\ Enter(l, g, "fetching")

\* The end of a task: the generation is told, if it is still there, and saved with
\* the whole project of the task's own launch.
End(l, g, status) ==
    LET p == project[l]
        told == IF g \in DOMAIN p.generations
                THEN [p.generations EXCEPT ![g].status = status] ELSE p.generations
        chars == IF status = "done"
                 THEN WithPrimary(p.characters, jobs[l][g].owner, g) ELSE p.characters
    IN  /\ Save(l, [p EXCEPT !.generations = told, !.characters = chars])
        /\ jobs' = [jobs EXCEPT ![l] = Without(@, {g})]
        /\ overwritten' = (overwritten \/ l # live)
        /\ UNCHANGED <<live, edit, cut>>

\* The picture is in the answer to the request, or behind the link of a completed poll.
Answered(l, g) == Phase(l, g, "posting") /\ jobs[l][g].model = "request"
Fetched(l, g) == Phase(l, g, "fetching")

Done(l, g) ==
    /\ Answered(l, g) \/ Fetched(l, g)
    /\ End(l, g, "done")
    /\ written' = [written EXCEPT ![g] = @ + 1]

\* A poll after the deadline has no result.
Timeout(l, g) ==
    /\ Phase(l, g, "polling") /\ jobs[l][g].late
    /\ End(l, g, "failed") /\ UNCHANGED written

\* Wrong variant: the error is logged, the generation keeps its status.
FailedSilently(l, g) ==
    /\ g \in DOMAIN jobs[l] /\ jobs[l][g].phase # "saved"
    /\ jobs' = [jobs EXCEPT ![l] = Without(@, {g})]
    /\ UNCHANGED <<live, project, disk, edit, written, cut, overwritten>>

\* The provider refuses, answers without a picture, or cannot be reached.
Failed(l, g) ==
    /\ g \in DOMAIN jobs[l] /\ jobs[l][g].phase # "saved"
    /\ End(l, g, "failed") /\ UNCHANGED written

Task(l, g) ==
    \/ Started(l, g) \/ Posted(l, g) \/ DeadlinePasses(l, g) \/ PollCompleted(l, g)
    \/ Done(l, g) \/ Timeout(l, g)

-----------------------------------------------------------------------------
(* The mode *)

Load ==
    /\ live < MaxLaunches
    /\ live' = live + 1
    /\ project' = [project EXCEPT ![live + 1] = disk]
    /\ edit' = NoEdit
    /\ cut' = cut \cup UNION {DOMAIN jobs[l] : l \in Launches}
    /\ UNCHANGED <<disk, written, overwritten>>

\* /exit, and another launch: the tasks of the first go on.
Relaunch == Load /\ UNCHANGED jobs

\* The process dies; the file is whole (a death in the middle of the write is left out).
Crash == Load /\ jobs' = [l \in Launches |-> Empty]

Next ==
    \/ PageChanges \/ Upload \/ Generate
    \/ SendApproval \/ Approved \/ Rejected
    \/ \E l \in Launches, g \in Ids : Task(l, g) \/ Failed(l, g)
    \/ \E g \in Ids : Stopped(g)
    \/ Relaunch \/ Crash

Spec == Init /\ [][Next]_vars

-----------------------------------------------------------------------------
(* Properties *)

Statuses == {"generating", "done", "failed"}
IsProject(p) ==
    /\ p.next \in 1..(MaxIds + 1)
    /\ \A c \in DOMAIN p.characters : c < p.next /\ p.characters[c].primary \in 0..MaxIds
    /\ \A g \in DOMAIN p.generations :
        /\ g < p.next /\ p.generations[g].status \in Statuses
        /\ p.generations[g].owner \in DOMAIN p.characters

TypeOK ==
    /\ live \in Launches /\ overwritten \in BOOLEAN
    /\ \A l \in Launches : IsProject(project[l]) /\ DOMAIN jobs[l] \subseteq Ids
    /\ IsProject(disk)
    /\ written \in [Ids -> Nat] /\ cut \subseteq Ids

\* While no launch left behind saves over it, the file is the project in memory:
\* whatever the page, a tool and the tasks change between each other's awaits, a
\* crash loses nothing but the tasks.
SavedIsMemory == ~overwritten => disk = Here

\* A generation that is shown as running has a task that will end it, unless that task
\* was cut off by a crash, a stop or the end of its launch.
GenerationsAccounted ==
    \A g \in DOMAIN Here.generations :
        Here.generations[g].status = "generating" => g \in DOMAIN jobs[live] \cup cut

\* A finished generation, and the one a character is shown with, have their picture,
\* and no two of them, before or after a crash, the same file.
PicturesKept ==
    /\ \A g \in DOMAIN Here.generations : Here.generations[g].status = "done" => written[g] > 0
    /\ \A c \in DOMAIN Here.characters :
        Here.characters[c].primary # 0 => written[Here.characters[c].primary] > 0
    /\ ~overwritten => \A g \in Ids : written[g] <= 1

\* The three together, as the runs check them.
MovieKept == SavedIsMemory /\ GenerationsAccounted /\ PicturesKept
=============================================================================
