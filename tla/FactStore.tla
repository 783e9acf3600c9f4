------------------------------ MODULE FactStore ------------------------------
(***************************************************************************)
(* The retain pipeline of memory/providers/fact/retain.py over the two     *)
(* stores of storage.py: extracted facts are compared with the vectors of  *)
(* LanceDB, stored in SQLite, indexed and linked, then batches of facts    *)
(* are consolidated into observations, by the pipeline or by the command   *)
(* /create_observations.  Every access runs in a thread of the executor,   *)
(* each thread with a SQLite connection of its own.                        *)
(* Links and chunks are kept only as far as their foreign keys go; facts   *)
(* carry no tags (the provider gives none), so a batch is one group.       *)
(***************************************************************************)
EXTENDS Integers, Sequences, FiniteSets, SequencesExt, FiniteSetsExt

CONSTANTS
    FactTexts,     \* what a fact or an observation says; equal texts are similar >= 0.95
    JobOrigins,    \* bound: where the facts of a job come from, of Origins
    Connections,   \* threads of the executor
    BatchSize,     \* CONSOLIDATION_LLM_BATCH_SIZE
    JobSize,       \* bound: facts of one call of retain
    MaxJobs,       \* bound: calls of retain
    MaxCommands,   \* bound: /create_observations
    MaxIds,        \* bound: facts and observations
    MaxMishaps     \* bound: restarts and errors of LanceDB

VARIABLES
    rows,       \* table facts: of each id, the fact or observation
    vectors,    \* the LanceDB table
    issued,     \* ids given out
    queue,      \* tasks of retain that wait for _retain_lock
    job,        \* the one that holds it
    runs,       \* create_observations of the pipeline and of the command
    holder,     \* the connection whose failed write left its transaction open
    passes,     \* times each fact was given to the consolidating model
    raced,      \* the command's run deleted an observation while a job was going on
    jobs, commands, mishaps

storeVars == <<rows, vectors, issued, queue, job, runs, holder, passes, raced, jobs, commands,
               mishaps>>
tables == <<rows, vectors>>
counters == <<jobs, commands, mishaps>>

Ids == 1..MaxIds
None == 0
Origins == {"before", "today", "document"}
Row == [text : FactTexts, origin : Origins, sources : SUBSET Ids, observation : BOOLEAN,
        consolidated : BOOLEAN]
Vector == [id : Ids, text : FactTexts, origin : Origins]
Fact == [id : Ids, text : FactTexts, cause : {None} \cup Ids]
JobSteps == {"dedup", "store", "index", "causal", "temporal", "semantic", "observe"}
RunSteps == {"batch", "ask", "create", "createVector", "update", "updateVector", "delete",
             "deleteVector", "mark"}

NoJob == [at |-> "idle", origin |-> "today", facts |-> {}, found |-> {}, searched |-> FALSE]
NoRun == [at |-> "idle", batch |-> {}, create |-> {}, made |-> None, update |-> None,
          updateOf |-> {}, delete |-> None, text |-> None]

TypeOK ==
    /\ DOMAIN rows \subseteq Ids /\ \A i \in DOMAIN rows : rows[i] \in Row
    /\ vectors \subseteq Vector
    /\ issued \in 0..MaxIds /\ queue \in 0..MaxJobs
    /\ job.at \in {"idle"} \cup JobSteps /\ job.facts \subseteq Fact
    /\ \A w \in DOMAIN runs : runs[w].at \in {"idle"} \cup RunSteps
    /\ DOMAIN runs = {"retain", "command"}
    /\ holder \in {None} \cup Connections
    /\ passes \in [Ids -> Nat] /\ raced \in BOOLEAN
    /\ jobs \in 0..MaxJobs /\ commands \in 0..MaxCommands /\ mishaps \in 0..MaxMishaps

Init ==
    /\ rows = <<>> /\ vectors = {} /\ issued = 0
    /\ queue = 0 /\ job = NoJob
    /\ runs = [w \in {"retain", "command"} |-> NoRun]
    /\ holder = None
    /\ passes = [i \in Ids |-> 0] /\ raced = FALSE
    /\ jobs = 0 /\ commands = 0 /\ mishaps = 0

-----------------------------------------------------------------------------
(* Helpers *)

Facts == {i \in DOMAIN rows : ~rows[i].observation}
Observations == {i \in DOMAIN rows : rows[i].observation}

\* _is_within_time_window, 24 hours: the facts of a document are dated by its upload.
WithinWindow(a, b) == a = b \/ {a, b} = {"today", "document"}

\* _is_dedup, for the vector nearest to the new fact: the same document again, or the
\* same text within the window. Facts of a conversation have a document_id of their own.
IsTwin(origin, vector) ==
    \/ /\ vector.id \in DOMAIN rows /\ ~rows[vector.id].observation
       /\ rows[vector.id].origin = "document" /\ origin = "document"
    \/ WithinWindow(origin, IF vector.id \in DOMAIN rows THEN rows[vector.id].origin
                            ELSE vector.origin)

\* A write goes through unless another connection holds the lock of the database; its
\* commit ends the transaction a failed write left open in the same connection.
CanWrite(c) == holder \in {None, c}

Mishap == mishaps < MaxMishaps /\ mishaps' = mishaps + 1 /\ UNCHANGED <<jobs, commands>>
Latest(origins) == IF "today" \in origins THEN "today"
                   ELSE IF "document" \in origins THEN "document" ELSE "before"

-----------------------------------------------------------------------------
(* retain: one job after the other, under _retain_lock *)

Retain ==
    /\ jobs < MaxJobs
    /\ jobs' = jobs + 1 /\ queue' = queue + 1
    /\ UNCHANGED <<tables, issued, job, runs, holder, passes, raced, commands, mishaps>>

\* extract_facts: a fact may name an earlier one of the job as its cause. Without facts,
\* or when it raises, the lock is released.
Extract ==
    /\ job.at = "idle" /\ queue > 0
    /\ queue' = queue - 1
    /\ raced' = (raced \/ runs["command"].at = "deleteVector")
    /\ \E n \in 0..JobSize, origin \in JobOrigins :
        /\ issued + n <= MaxIds
        /\ issued' = issued + n
        /\ \E text \in [1..n -> FactTexts], cause \in [1..n -> {None} \cup Ids] :
            /\ \A k \in 1..n : cause[k] \in {None} \cup (issued + 1)..(issued + k - 1)
            /\ job' = IF n = 0 THEN NoJob
                      ELSE [NoJob EXCEPT !.at = "dedup", !.origin = origin, !.facts =
                              {[id |-> issued + k, text |-> text[k], cause |-> cause[k]] : k \in 1..n}]
    /\ UNCHANGED <<tables, runs, holder, passes, counters>>

\* Wrong variant: references to a fact that is not stored stay as they are.
NotRemapped(cause, twin) == cause

\* id_remap: a reference to a dropped fact becomes one to its twin in the table.
Remapped(cause, twin) == IF cause \in DOMAIN twin THEN twin[cause] ELSE cause

\* Of the facts with their nearest vectors, those that are dropped, the twin of each in
\* the table, and the facts that are kept.
Dropped(nearest) == {f \in job.facts : \E v \in nearest[f] : IsTwin(job.origin, v)}
TwinOf(nearest) ==
    [i \in {f.id : f \in Dropped(nearest)} |->
        CHOOSE j \in Ids : \E f \in Dropped(nearest), v \in vectors :
            f.id = i /\ v \in nearest[f] /\ v.id = j]
Kept(nearest) ==
    {[f EXCEPT !.cause = Remapped(@, TwinOf(nearest))] : f \in job.facts \ Dropped(nearest)}

\* deduplicate: only the nearest vector of each fact is looked at, and only vectors that
\* were there before the job. When the search fails, the fact is kept.
Dedup ==
    /\ job.at = "dedup"
    /\ \E failed \in BOOLEAN :
        /\ IF failed THEN vectors # {} /\ Mishap ELSE UNCHANGED counters
        /\ \E nearest \in [job.facts -> {{}} \cup {{v} : v \in vectors}] :
            /\ \A f \in job.facts :
                /\ nearest[f] = {} <=> failed \/ ~\E v \in vectors : v.text = f.text
                /\ \A v \in nearest[f] : v.text = f.text
            /\ job' = IF job.facts = Dropped(nearest) THEN NoJob
                      ELSE [job EXCEPT !.at = "store", !.facts = Kept(nearest)]
    /\ UNCHANGED <<tables, issued, queue, runs, holder, passes, raced>>

\* A job that raises: retain's _run reports it and releases the lock.
JobFails == job' = NoJob
JobNext(step) == job' = [job EXCEPT !.at = step, !.found = {}, !.searched = FALSE]

\* store_facts up to its last commit: chunks, facts, entities and their links.
StoreFacts ==
    /\ job.at = "store"
    /\ \E c \in Connections :
        IF CanWrite(c)
          THEN /\ rows' = [i \in DOMAIN rows \cup {f.id : f \in job.facts} |->
                             IF i \in DOMAIN rows THEN rows[i]
                             ELSE [text |-> (CHOOSE f \in job.facts : f.id = i).text,
                                   origin |-> job.origin, sources |-> {},
                                   observation |-> FALSE, consolidated |-> FALSE]]
               /\ holder' = None /\ JobNext("index")
          ELSE JobFails /\ UNCHANGED <<rows, holder>>
    /\ UNCHANGED <<vectors, issued, queue, runs, passes, raced, counters>>

\* Wrong variant: only the first of the facts is indexed.
FirstIndexed ==
    {[id |-> f.id, text |-> f.text, origin |-> job.origin] :
        f \in {g \in job.facts : \A h \in job.facts : g.id <= h.id}}

\* insert_vectors, whose errors are swallowed.
Indexed == {[id |-> f.id, text |-> f.text, origin |-> job.origin] : f \in job.facts}
Index ==
    /\ job.at = "index"
    /\ \/ vectors' = vectors \cup Indexed /\ UNCHANGED counters
       \/ Mishap /\ UNCHANGED vectors
    /\ JobNext("causal")
    /\ UNCHANGED <<rows, issued, queue, runs, holder, passes, raced>>

\* build_temporal_links and build_semantic_links first look for what to link to: the
\* facts of the same time, the vectors that are similar.
SearchLinks ==
    /\ job.at \in {"temporal", "semantic"} /\ ~job.searched
    /\ LET own == {f.id : f \in job.facts}
           near == IF job.at = "semantic" THEN {v.id : v \in vectors}
                   ELSE {i \in DOMAIN rows : WithinWindow(rows[i].origin, job.origin)}
       IN \E found \in SUBSET (near \ own) :
            /\ job.at = "temporal" => found = near \ own
            /\ job' = [job EXCEPT !.found = found, !.searched = TRUE]
    /\ UNCHANGED <<tables, issued, queue, runs, holder, passes, raced, counters>>

\* insert_links: one executemany. A row that is gone fails its foreign key: the job ends
\* and the transaction, begun by the statement, stays open in this connection.
InsertLinks ==
    /\ \/ job.at = "causal"
       \/ job.at \in {"temporal", "semantic"} /\ job.searched
    /\ LET targets == IF job.at = "causal" THEN {f.cause : f \in job.facts} \ {None}
                      ELSE job.found
           after == CASE job.at = "causal" -> "temporal"
                      [] job.at = "temporal" -> "semantic"
                      [] job.at = "semantic" -> "observe"
       IN \/ targets = {} /\ JobNext(after) /\ UNCHANGED holder
          \/ /\ targets # {}
             /\ \E c \in Connections :
                \/ /\ CanWrite(c) /\ targets \subseteq DOMAIN rows
                   /\ JobNext(after) /\ holder' = None
                \/ /\ CanWrite(c) /\ ~(targets \subseteq DOMAIN rows)
                   /\ JobFails /\ holder' = c
                \/ ~CanWrite(c) /\ JobFails /\ UNCHANGED holder
    /\ UNCHANGED <<tables, issued, queue, runs, passes, raced, counters>>

-----------------------------------------------------------------------------
(* create_observations *)

\* Wrong variant: nobody looks at the lock.
LockIgnored == TRUE

\* _observations_lock.locked()
LockFree == \A w \in DOMAIN runs : runs[w].at = "idle"

StartRun(w) == runs' = [runs EXCEPT ![w] = [NoRun EXCEPT !.at = "batch"]]

\* The lock belongs to the module: a run of this or of another directory makes the
\* pipeline skip its consolidation.
Observe ==
    /\ job.at = "observe" /\ runs["retain"].at = "idle"
    /\ \/ LockFree /\ StartRun("retain") /\ UNCHANGED job
       \/ job' = NoJob /\ UNCHANGED runs
    /\ UNCHANGED <<tables, issued, queue, holder, passes, raced, counters>>

\* The command /create_observations.
Command ==
    /\ commands < MaxCommands
    /\ commands' = commands + 1
    /\ runs["command"].at = "idle" /\ LockFree
    /\ StartRun("command")
    /\ UNCHANGED <<tables, issued, queue, job, holder, passes, raced, jobs, mishaps>>

RunNext(w, step) == runs' = [runs EXCEPT ![w].at = step]
\* The one action of the answer is done.
ActionDone(w, step) == runs' = [runs EXCEPT ![w] = [NoRun EXCEPT !.at = step, !.batch = runs[w].batch]]

\* The end of a run, or an error in it, is the end of the job it belongs to.
RunEnds(w) ==
    /\ runs' = [runs EXCEPT ![w] = NoRun]
    /\ job' = IF w = "retain" THEN NoJob ELSE job

\* get_unconsolidated_facts
Batch(w) ==
    /\ runs[w].at = "batch"
    /\ LET left == {i \in Facts : ~rows[i].consolidated} IN
        IF left = {} THEN RunEnds(w)
        ELSE /\ \E batch \in SUBSET left :
                 /\ Cardinality(batch) = Min({BatchSize, Cardinality(left)})
                 /\ runs' = [runs EXCEPT ![w].at = "ask", ![w].batch = batch]
             /\ UNCHANGED job
    /\ UNCHANGED <<tables, issued, queue, holder, passes, raced, counters>>

\* Wrong variant: any id the model writes is taken for a source.
AnySource(sources, batch) == sources

\* valid_fact_ids: only the facts of the batch can be sources.
ValidSources(sources, batch) == sources \cap batch

\* The observations recalled for the facts of the batch go with them to the model. Its
\* answer, which may be empty or unreadable, names ids it was shown or made up; it is
\* kept here as it passes the checks of the loop. Bound: one action per answer.
Ask(w) ==
    /\ runs[w].at = "ask"
    /\ passes' = [i \in Ids |-> passes[i] + (IF i \in runs[w].batch THEN 1 ELSE 0)]
    /\ LET asked == [runs[w] EXCEPT !.at = "create"] IN
        \/ runs' = [runs EXCEPT ![w] = asked]
        \/ \E sources \in SUBSET Ids, text \in FactTexts :
            LET valid == ValidSources(sources, runs[w].batch) IN
            /\ valid # {}
            /\ \/ runs' = [runs EXCEPT ![w] = [asked EXCEPT !.create = valid, !.text = text]]
               \/ \E seen \in Observations :
                    runs' = [runs EXCEPT ![w] = [asked EXCEPT !.update = seen,
                                                  !.updateOf = valid, !.text = text]]
        \/ \E seen \in Observations :
            runs' = [runs EXCEPT ![w] = [asked EXCEPT !.delete = seen]]
    /\ UNCHANGED <<tables, issued, queue, job, holder, raced, counters>>

\* _store_new_observation: the row is committed, then the vector written. The bound on
\* ids is the only reason to leave a creation out.
Create(w) ==
    /\ runs[w].at = "create"
    /\ \/ /\ runs[w].create = {} \/ issued = MaxIds
          /\ RunNext(w, "update")
          /\ UNCHANGED <<rows, issued, job, holder>>
       \/ /\ runs[w].create # {} /\ issued < MaxIds
          /\ \E c \in Connections :
            \/ /\ CanWrite(c) /\ holder' = None
               /\ issued' = issued + 1
               /\ rows' = [i \in DOMAIN rows \cup {issued + 1} |->
                     IF i \in DOMAIN rows THEN rows[i]
                     ELSE [text |-> runs[w].text, sources |-> runs[w].create,
                           origin |-> Latest({rows[k].origin : k \in runs[w].create \cap DOMAIN rows}),
                           observation |-> TRUE, consolidated |-> FALSE]]
               /\ runs' = [runs EXCEPT ![w].at = "createVector", ![w].made = issued + 1]
               /\ UNCHANGED job
            \/ ~CanWrite(c) /\ RunEnds(w) /\ UNCHANGED <<rows, issued, holder>>
    /\ UNCHANGED <<vectors, queue, passes, raced, counters>>

VectorOf(i, text, origin) == [id |-> i, text |-> text, origin |-> origin]

CreateVector(w) ==
    /\ runs[w].at = "createVector"
    /\ \/ /\ vectors' = vectors \cup {VectorOf(runs[w].made, runs[w].text, rows[runs[w].made].origin)}
          /\ UNCHANGED counters
       \/ Mishap /\ UNCHANGED vectors
    /\ ActionDone(w, "mark")
    /\ UNCHANGED <<rows, issued, queue, job, holder, passes, raced>>

\* _update_observation: nothing if the observation is gone; the sources are merged.
Update(w) ==
    /\ runs[w].at = "update"
    /\ LET o == runs[w].update IN
       \/ o \notin Observations /\ RunNext(w, "delete") /\ UNCHANGED <<rows, job, holder>>
       \/ /\ o \in Observations
          /\ \E c \in Connections :
            \/ /\ CanWrite(c) /\ holder' = None
               /\ rows' = [rows EXCEPT ![o].text = runs[w].text,
                             ![o].sources = @ \cup runs[w].updateOf,
                             ![o].origin = Latest({@} \cup {rows[i].origin : i \in
                                                     runs[w].updateOf \cap DOMAIN rows})]
               /\ RunNext(w, "updateVector") /\ UNCHANGED job
            \/ ~CanWrite(c) /\ RunEnds(w) /\ UNCHANGED <<rows, holder>>
    /\ UNCHANGED <<vectors, issued, queue, passes, raced, counters>>

Without(i) == {v \in vectors : v.id # i}

\* Wrong variant: the new vector joins the old one.
VectorAdded(i, text) == vectors \cup {VectorOf(i, text, "today")}

\* The old vector is deleted, the new one written with the present as its time.
VectorReplaced(i, text) == Without(i) \cup {VectorOf(i, text, "today")}

\* An error leaves the old vector or none.
UpdateVector(w) ==
    /\ runs[w].at = "updateVector"
    /\ \/ vectors' = VectorReplaced(runs[w].update, runs[w].text) /\ UNCHANGED counters
       \/ Mishap /\ vectors' \in {vectors, Without(runs[w].update)}
    /\ ActionDone(w, "mark")
    /\ UNCHANGED <<rows, issued, queue, job, holder, passes, raced>>

\* _delete_observation: the row is committed, then the vector deleted.
Delete(w) ==
    /\ runs[w].at = "delete"
    /\ LET o == runs[w].delete IN
       \/ o \notin Observations /\ ActionDone(w, "mark") /\ UNCHANGED <<rows, job, holder, raced>>
       \/ /\ o \in Observations
          /\ \E c \in Connections :
            \/ /\ CanWrite(c) /\ holder' = None
               /\ rows' = [i \in DOMAIN rows \ {o} |-> rows[i]]
               /\ raced' = (raced \/ (w = "command" /\ job.at # "idle"))
               /\ RunNext(w, "deleteVector") /\ UNCHANGED job
            \/ ~CanWrite(c) /\ RunEnds(w) /\ UNCHANGED <<rows, holder, raced>>
    /\ UNCHANGED <<vectors, issued, queue, passes, counters>>

DeleteVector(w) ==
    /\ runs[w].at = "deleteVector"
    /\ \/ vectors' = Without(runs[w].delete) /\ UNCHANGED counters
       \/ Mishap /\ UNCHANGED vectors
    /\ ActionDone(w, "mark")
    /\ UNCHANGED <<rows, issued, queue, job, holder, passes, raced>>

\* mark_consolidated, then the next batch.
Mark(w) ==
    /\ runs[w].at = "mark"
    /\ \E c \in Connections :
        \/ /\ CanWrite(c) /\ holder' = None
           /\ rows' = [i \in DOMAIN rows |->
                         IF i \in runs[w].batch THEN [rows[i] EXCEPT !.consolidated = TRUE]
                         ELSE rows[i]]
           /\ runs' = [runs EXCEPT ![w] = [NoRun EXCEPT !.at = "batch"]]
           /\ UNCHANGED job
        \/ ~CanWrite(c) /\ RunEnds(w) /\ UNCHANGED <<rows, holder>>
    /\ UNCHANGED <<vectors, issued, queue, passes, raced, counters>>

-----------------------------------------------------------------------------

\* A restart: waiting and running tasks are lost, what is committed stays.
Restart ==
    /\ Mishap
    /\ queue' = 0 /\ job' = NoJob /\ holder' = None
    /\ runs' = [w \in DOMAIN runs |-> NoRun]
    /\ UNCHANGED <<tables, issued, passes, raced>>

JobStep == Extract \/ Dedup \/ StoreFacts \/ Index \/ SearchLinks \/ InsertLinks \/ Observe
RunStep(w) ==
    \/ Batch(w) \/ Ask(w) \/ Create(w) \/ CreateVector(w) \/ Update(w) \/ UpdateVector(w)
    \/ Delete(w) \/ DeleteVector(w) \/ Mark(w)

Next ==
    \/ Retain \/ Command \/ Restart
    \/ JobStep
    \/ \E w \in DOMAIN runs : RunStep(w)

Spec == Init /\ [][Next]_storeVars

-----------------------------------------------------------------------------

AtRest == job.at = "idle" /\ LockFree

\* SQLite and LanceDB are written one after the other and never in one transaction: at
\* rest they agree, every row with one vector of its text and no vector without a row,
\* unless LanceDB failed or the program was restarted in between.
StoresAgree ==
    AtRest /\ mishaps = 0 =>
        /\ {v.id : v \in vectors} = DOMAIN rows
        /\ \A i \in DOMAIN rows : {v.text : v \in {u \in vectors : u.id = i}} = {rows[i].text}

\* retain.py:812: the links of a job never miss their foreign key, which would end the
\* job and leave the database locked, unless an observation was deleted under the job or
\* a vector had outlived its row.
ForeignKeysHold == holder # None => raced \/ mishaps > 0

\* A fact is given to the consolidating model once, whoever starts the runs, as long as
\* no run is cut short by a restart or a locked database.
ConsolidatedOnce == mishaps = 0 /\ ~raced => \A i \in Ids : passes[i] <= 1

\* An observation rests on facts that are in the store.
SourcesAreFacts == \A o \in Observations : rows[o].sources # {} /\ rows[o].sources \subseteq Facts
=============================================================================
