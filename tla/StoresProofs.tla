----------------------------- MODULE StoresProofs -----------------------------
(***************************************************************************)
(* What the fact memory holds for every number of jobs, facts, connections *)
(* and consolidations: SQLite and LanceDB agree at rest, links find their  *)
(* facts, no fact is given to the consolidating model twice, and a name    *)
(* stays with its entity, a recall leaves out nothing that its filters and *)
(* limits let through, the chunks of a dialogue hold its words in order,   *)
(* and the values of every part have their types. What StorePartsProofs    *)
(* shows of the sessions of Claude Code and of the chunks holds here too.  *)
(*                                                                         *)
(* The invariant says what each task knows: one consolidation runs at a    *)
(* time, a job's ids are its own until it has written their rows, a row    *)
(* and its vector part only between the two writes of one step, and what   *)
(* was given to the model is marked or will be by the run that gave it.    *)
(* For names: what a name first meant is what the tables still say, and    *)
(* the cache is ahead of nothing. For recall: a ranking names known facts, *)
(* each once, and a semantic one that its budget did not cut names all     *)
(* that are similar. For the extraction: the pieces of a chunk lie one     *)
(* behind another and hold facts of their own statements, in order.        *)
(***************************************************************************)
EXTENDS MCStores, FiniteSetTheorems, SequenceTheorems, TLAPS

allVars == <<part, dialogVars, extractVars, resolverVars, storeVars, recallVars, sessionVars,
             shapesVars>>

-----------------------------------------------------------------------------
(* The two stores of facts *)

Runners == {"retain", "command"}
RunStates == [at : {"idle"} \cup Store!RunSteps, batch : SUBSET Store!Ids, create : SUBSET Store!Ids,
              made : {0} \cup Store!Ids, update : {0} \cup Store!Ids, updateOf : SUBSET Store!Ids,
              delete : {0} \cup Store!Ids, text : {0} \cup FactTexts]
JobStates == [at : {"idle"} \cup Store!JobSteps, origin : Store!Origins, facts : SUBSET Store!Fact,
              found : SUBSET Store!Ids, searched : BOOLEAN]

StoreTypes ==
    /\ DOMAIN rows \subseteq 1..issued /\ \A i \in DOMAIN rows : rows[i] \in Store!Row
    /\ vectors \subseteq Store!Vector /\ \A v \in vectors : v.id <= issued
    /\ issued \in 0..MaxFacts /\ queue \in 0..jobs
    /\ job \in JobStates /\ runs \in [Runners -> RunStates]
    /\ holder \in {0} \cup Connections
    /\ passes \in [Store!Ids -> Nat] /\ raced \in BOOLEAN
    /\ jobs \in 0..MaxJobs /\ commands \in 0..MaxCommands /\ mishaps \in 0..MaxMishaps

\* One run at a time; while the pipeline's runs, its job waits for it.
OneRuns ==
    /\ \A w, u \in Runners : runs[w].at # "idle" /\ runs[u].at # "idle" => w = u
    /\ runs["retain"].at # "idle" => job.at = "observe"

\* What a run works on: facts, and the observation it has just written, or deleted.
RunFits(r) ==
    /\ r.batch \subseteq Store!Facts /\ r.create \subseteq r.batch /\ r.updateOf \subseteq r.batch
    /\ r.create # {} \/ r.update # 0 => r.text \in FactTexts
    /\ r.at \in {"batch", "ask"} => r.create = {} /\ r.updateOf = {} /\ r.update = 0
    /\ r.at = "createVector" => r.made \in Store!Observations /\ rows[r.made].text = r.text
    /\ r.at = "updateVector" => r.update \in Store!Observations /\ rows[r.update].text = r.text
    /\ r.at = "deleteVector" => r.delete \in 1..issued /\ r.delete \notin DOMAIN rows
RunsFit == \A w \in Runners : RunFits(runs[w])

\* Neither a mishap nor the command has been in the way.
Calm == mishaps = 0 /\ ~raced

\* The ids of a job's facts are its own, and become those of its rows.
New == {f.id : f \in job.facts}
JobFits ==
    /\ New \subseteq 1..issued
    /\ \A f, g \in job.facts : f.id = g.id => f = g
    /\ job.at \in {"dedup", "store"} =>
        /\ New \cap DOMAIN rows = {}
        /\ \A w \in Runners : runs[w].at = "deleteVector" => runs[w].delete \notin New
    /\ job.at = "index" => New \subseteq Store!Facts /\ \A f \in job.facts : rows[f.id].text = f.text

\* What a job will link to has its row.
LinksFit ==
    /\ job.at = "dedup" => \A f \in job.facts : f.cause \in {0} \cup New
    /\ Calm /\ job.at = "store" => \A f \in job.facts : f.cause \in {0} \cup New \cup DOMAIN rows
    /\ Calm /\ job.at \in {"index", "causal"} => \A f \in job.facts : f.cause \in {0} \cup DOMAIN rows
    /\ Calm /\ job.at \in {"temporal", "semantic"} => job.found \subseteq DOMAIN rows
    /\ Calm /\ runs["command"].at = "deleteVector" => job.at = "idle"
    /\ Calm => holder = 0

\* A row and its vector part only between the two writes of one step.
Writes(w, step, field, i) == runs[w].at = step /\ runs[w][field] = i
Paired ==
    /\ \A v \in vectors : v.id \notin DOMAIN rows => \E w \in Runners : Writes(w, "deleteVector", "delete", v.id)
    /\ \A v \in vectors : v.id \in DOMAIN rows =>
        v.text = rows[v.id].text \/ \E w \in Runners : Writes(w, "updateVector", "update", v.id)
    /\ \A i \in DOMAIN rows :
        \/ \E v \in vectors : v.id = i
        \/ job.at = "index" /\ i \in New
        \/ \E w \in Runners : Writes(w, "createVector", "made", i)
VectorsPaired == mishaps = 0 => Paired

\* A fact that was given to the model is consolidated, or the run that gave it will mark it.
GivenOnce ==
    Calm => \A i \in Store!Ids :
        /\ passes[i] <= 1
        /\ passes[i] = 1 =>
            \/ i \in Store!Facts /\ rows[i].consolidated
            \/ \E w \in Runners : runs[w].at \notin {"idle", "batch", "ask"} /\ i \in runs[w].batch
        /\ \A w \in Runners : runs[w].at = "ask" /\ i \in runs[w].batch =>
            i \in Store!Facts /\ ~rows[i].consolidated

StoreInv ==
    /\ StoreTypes /\ OneRuns /\ RunsFit /\ JobFits /\ LinksFit /\ VectorsPaired /\ GivenOnce
    /\ Store!SourcesAreFacts

\* The initial state.
LEMMA NoRunIs ==
    /\ Store!NoRun \in RunStates /\ Store!NoRun.at = "idle" /\ Store!NoRun.batch = {}
    /\ Store!NoRun.create = {} /\ Store!NoRun.updateOf = {} /\ Store!NoRun.update = 0
BY DEF Store!NoRun, RunStates, Store!None

LEMMA NoJobIs ==
    Store!NoJob \in JobStates /\ Store!NoJob.at = "idle" /\ Store!NoJob.facts = {}
BY DEF Store!NoJob, JobStates, Store!Origins

LEMMA StoreStart == Store!Init => StoreInv
<1> SUFFICES ASSUME Store!Init PROVE StoreInv
  OBVIOUS
<1> USE StoreAssumption DEF Store!Init, Store!None, Store!Ids, Store!Origins
<1>1. DOMAIN rows = {}
  OBVIOUS
<1>2. runs \in [Runners -> RunStates] /\ \A w \in Runners : runs[w] = Store!NoRun
  <2>1. runs = [w \in Runners |-> Store!NoRun]
    BY DEF Runners
  <2> QED BY <2>1, NoRunIs
<1>3. StoreTypes
  <2>1. job \in JobStates /\ passes \in [Store!Ids -> Nat]
    BY NoJobIs
  <2>2. /\ issued \in 0..MaxFacts /\ queue \in 0..jobs /\ jobs \in 0..MaxJobs
        /\ commands \in 0..MaxCommands /\ mishaps \in 0..MaxMishaps
    OBVIOUS
  <2>3. vectors = {} /\ raced \in BOOLEAN /\ holder \in {0} \cup Connections
    OBVIOUS
  <2> QED BY <1>1, <1>2, <2>1, <2>2, <2>3 DEF StoreTypes
<1>4. OneRuns /\ RunsFit
  BY <1>2, NoRunIs DEF OneRuns, RunsFit, RunFits, Runners
<1>5. JobFits /\ LinksFit
  BY <1>2, NoJobIs, NoRunIs DEF JobFits, LinksFit, New, Runners
<1>6. VectorsPaired
  BY <1>1 DEF VectorsPaired, Paired
<1>7. GivenOnce
  BY <1>2, NoRunIs DEF GivenOnce
<1>8. Store!SourcesAreFacts
  BY <1>1 DEF Store!SourcesAreFacts, Store!Observations
<1> QED BY <1>3, <1>4, <1>5, <1>6, <1>7, <1>8 DEF StoreInv

\* One lemma for each step, of the calls from outside first.
LEMMA RetainStep == ASSUME StoreInv, Store!Retain PROVE StoreInv'
<1> USE StoreAssumption DEF Store!Retain, Store!tables
<1>1. StoreTypes'
  BY DEF StoreInv, StoreTypes
<1>2. OneRuns' /\ RunsFit' /\ JobFits' /\ LinksFit' /\ VectorsPaired' /\ GivenOnce' /\ Store!SourcesAreFacts'
  BY DEF StoreInv, OneRuns, RunsFit, RunFits, JobFits, LinksFit, VectorsPaired, Paired, GivenOnce, Calm, New,
         Writes, Store!SourcesAreFacts, Store!Facts, Store!Observations
<1> QED BY <1>1, <1>2 DEF StoreInv

LEMMA CommandStep == ASSUME StoreInv, Store!Command PROVE StoreInv'
<1> USE StoreAssumption DEF Runners
<1>0. PICK r : r = [Store!NoRun EXCEPT !.at = "batch"]
  OBVIOUS
<1>1. /\ commands' = commands + 1 /\ commands < MaxCommands
      /\ runs' = [runs EXCEPT !["command"] = r]
      /\ \A w \in Runners : runs[w].at = "idle"
      /\ UNCHANGED <<rows, vectors, issued, queue, job, holder, passes, raced, jobs, mishaps>>
  BY <1>0 DEF Store!Command, Store!StartRun, Store!LockFree, Store!tables, StoreInv, StoreTypes
<1>2. /\ r \in RunStates /\ r.at = "batch" /\ r.batch = {} /\ r.create = {} /\ r.updateOf = {} /\ r.update = 0
  BY <1>0 DEF Store!NoRun, RunStates, Store!RunSteps, Store!None
<1>3. /\ runs' \in [Runners -> RunStates] /\ runs'["command"] = r /\ runs'["retain"] = runs["retain"]
  BY <1>1, <1>2 DEF StoreInv, StoreTypes
<1>4. StoreTypes'
  BY <1>1, <1>3 DEF StoreInv, StoreTypes
<1>5. OneRuns' /\ RunsFit'
  BY <1>1, <1>2, <1>3 DEF StoreInv, OneRuns, RunsFit, RunFits, Store!Facts, Store!Observations
<1>6. JobFits' /\ LinksFit'
  BY <1>1, <1>2, <1>3 DEF StoreInv, JobFits, LinksFit, Calm, New, Store!Facts
<1>7. VectorsPaired' /\ GivenOnce'
  BY <1>1, <1>2, <1>3 DEF StoreInv, VectorsPaired, Paired, GivenOnce, Calm, New, Writes, Store!Facts
<1>8. Store!SourcesAreFacts'
  BY <1>1 DEF StoreInv, Store!SourcesAreFacts, Store!Facts, Store!Observations
<1> QED BY <1>4, <1>5, <1>6, <1>7, <1>8 DEF StoreInv

\* A job that is over leaves the rest as it is.
LEMMA JobEnds ==
    ASSUME StoreInv, job' = Store!NoJob, \A w \in Runners : runs'[w].at # "idle" => w = "command",
           job.at # "index",
           runs' \in [Runners -> RunStates],
           \A w \in Runners : runs'[w] = runs[w] \/ (runs'[w] = Store!NoRun /\ (runs[w].at = "batch" \/ ~Calm)),
           UNCHANGED <<rows, vectors, issued, passes, raced, jobs, commands>>,
           mishaps' \in 0..MaxMishaps, mishaps' = 0 => mishaps = 0,
           queue' \in 0..jobs, holder' \in {0} \cup Connections, Calm => holder' = 0,
           \A w \in Runners : runs'[w] # runs[w] => \A i : ~Writes(w, "createVector", "made", i)
                 /\ ~Writes(w, "updateVector", "update", i) /\ ~Writes(w, "deleteVector", "delete", i)
    PROVE  StoreInv'
<1> USE NoJobIs, NoRunIs DEF StoreInv
<1>1. StoreTypes'
  BY DEF StoreTypes
<1>2. OneRuns'
  BY DEF OneRuns, Runners
<1>3. RunsFit'
  BY DEF RunsFit, RunFits, Store!Facts, Store!Observations
<1>4. JobFits'
  BY DEF JobFits, New, Store!Facts
<1>4a. LinksFit'
  <2>1. Calm' => Calm
    BY DEF Calm
  <2> QED BY <2>1 DEF LinksFit
<1>5. VectorsPaired'
  <2> SUFFICES ASSUME mishaps' = 0 PROVE Paired'
    BY DEF VectorsPaired
  <2>1. \A w \in Runners : \A i :
            /\ Writes(w, "createVector", "made", i) => Writes(w, "createVector", "made", i)'
            /\ Writes(w, "updateVector", "update", i) => Writes(w, "updateVector", "update", i)'
            /\ Writes(w, "deleteVector", "delete", i) => Writes(w, "deleteVector", "delete", i)'
    BY DEF Writes
  <2>2. Paired
    BY DEF VectorsPaired
  <2> QED BY <2>1, <2>2 DEF Paired
<1>6. GivenOnce'
  BY DEF GivenOnce, Calm, Store!Facts
<1>7. Store!SourcesAreFacts'
  BY DEF Store!SourcesAreFacts, Store!Facts, Store!Observations
<1> QED BY <1>1, <1>2, <1>3, <1>4, <1>4a, <1>5, <1>6, <1>7

LEMMA RestartStep == ASSUME StoreInv, Store!Restart PROVE StoreInv'
<1> USE StoreAssumption, NoJobIs, NoRunIs DEF StoreInv
<1>1. /\ job' = Store!NoJob /\ holder' = 0 /\ queue' = 0 /\ runs' = [w \in Runners |-> Store!NoRun]
      /\ mishaps < MaxMishaps /\ mishaps' = mishaps + 1
      /\ UNCHANGED <<rows, vectors, issued, passes, raced, jobs, commands>>
  BY DEF Store!Restart, Store!Mishap, Store!None, Store!tables, StoreTypes
<1>2. StoreTypes' /\ ~(mishaps' = 0)
  <2>1. mishaps \in Nat /\ jobs \in Nat
    BY DEF StoreTypes
  <2>2. mishaps' \in 0..MaxMishaps /\ ~(mishaps' = 0) /\ queue' \in 0..jobs'
    BY <1>1, <2>1
  <2>3. runs' \in [Runners -> RunStates]
    BY <1>1
  <2> QED BY <1>1, <2>2, <2>3 DEF StoreTypes
<1>3. OneRuns' /\ RunsFit'
  <2>1. \A w \in Runners : runs'[w] = Store!NoRun
    BY <1>1
  <2>2. "retain" \in Runners
    BY DEF Runners
  <2> QED BY <2>1, <2>2 DEF OneRuns, RunsFit, RunFits
<1>4. JobFits' /\ LinksFit'
  BY <1>1, <1>2 DEF JobFits, LinksFit, New, Calm, Runners, Store!Facts
<1>5. VectorsPaired' /\ GivenOnce'
  BY <1>2 DEF VectorsPaired, GivenOnce, Calm
<1>6. Store!SourcesAreFacts'
  BY <1>1 DEF Store!SourcesAreFacts, Store!Facts, Store!Observations
<1> QED BY <1>2, <1>3, <1>4, <1>5, <1>6

\* A run that goes from one of its states to another is the only one.
LEMMA RunTurns ==
    ASSUME StoreInv, NEW w \in Runners, NEW r \in RunStates, runs' = [runs EXCEPT ![w] = r],
           runs[w].at # "idle"
    PROVE  /\ runs' \in [Runners -> RunStates] /\ runs'[w] = r
           /\ \A u \in Runners : u # w => runs'[u] = runs[u] /\ runs[u].at = "idle"
BY DEF StoreInv, StoreTypes, OneRuns

LEMMA ExtractStep == ASSUME StoreInv, Store!Extract PROVE StoreInv'
<1> USE StoreAssumption DEF StoreInv
<1>1. PICK n \in 0..JobSize, origin \in JobOrigins :
        /\ issued + n <= MaxFacts /\ issued' = issued + n
        /\ \E text \in [1..n -> FactTexts], cause \in [1..n -> {0} \cup Store!Ids] :
            /\ \A k \in 1..n : cause[k] \in {0} \cup (issued + 1)..(issued + k - 1)
            /\ job' = IF n = 0 THEN Store!NoJob
                      ELSE [Store!NoJob EXCEPT !.at = "dedup", !.origin = origin, !.facts =
                              {[id |-> issued + k, text |-> text[k], cause |-> cause[k]] : k \in 1..n}]
  BY DEF Store!Extract, Store!None
<1>2. PICK text \in [1..n -> FactTexts], cause \in [1..n -> {0} \cup Store!Ids] :
        /\ \A k \in 1..n : cause[k] \in {0} \cup (issued + 1)..(issued + k - 1)
        /\ job' = IF n = 0 THEN Store!NoJob
                  ELSE [Store!NoJob EXCEPT !.at = "dedup", !.origin = origin, !.facts =
                          {[id |-> issued + k, text |-> text[k], cause |-> cause[k]] : k \in 1..n}]
  BY <1>1
<1>3. /\ job.at = "idle" /\ queue > 0 /\ queue' = queue - 1
      /\ raced' = (raced \/ runs["command"].at = "deleteVector")
      /\ UNCHANGED <<rows, vectors, runs, holder, passes, jobs, commands, mishaps>>
  BY DEF Store!Extract, Store!tables, Store!counters
<1>4. PICK new : new = {[id |-> issued + k, text |-> text[k], cause |-> cause[k]] : k \in 1..n}
  OBVIOUS
<1>5. n \in Nat /\ issued \in Nat /\ issued' \in 0..MaxFacts /\ 1..issued' \subseteq Store!Ids
  BY <1>1 DEF StoreTypes, Store!Ids
<1>6. /\ new \subseteq Store!Fact
      /\ \A f \in new : f.id > issued /\ f.id <= issued'
      /\ \A f, g \in new : f.id = g.id => f = g
      /\ \A f \in new : f.cause = 0 \/ \E g \in new : g.id = f.cause
  <2>1. \A k \in 1..n : issued + k \in 1..issued' /\ issued + k > issued
    BY <1>1, <1>5
  <2>2. new \subseteq Store!Fact
    BY <1>4, <1>5, <2>1 DEF Store!Fact, Store!None
  <2>3. \A f \in new : f.cause = 0 \/ \E g \in new : g.id = f.cause
    <3> SUFFICES ASSUME NEW f \in new, f.cause # 0 PROVE \E g \in new : g.id = f.cause
      OBVIOUS
    <3>1. PICK k \in 1..n : f = [id |-> issued + k, text |-> text[k], cause |-> cause[k]]
      BY <1>4
    <3>2. cause[k] \in (issued + 1)..(issued + k - 1)
      BY <1>2, <3>1
    <3>3. PICK m \in 1..n : issued + m = cause[k]
      <4>1. k \in Nat /\ k <= n /\ cause[k] - issued \in 1..n
        BY <1>5, <3>2
      <4>2. issued + (cause[k] - issued) = cause[k]
        BY <1>5, <3>2
      <4> QED BY <4>1, <4>2
    <3>4. PICK g : g = [id |-> issued + m, text |-> text[m], cause |-> cause[m]]
      OBVIOUS
    <3> QED BY <1>4, <3>1, <3>3, <3>4
  <2>4. \A f, g \in new : f.id = g.id => f = g
    <3> SUFFICES ASSUME NEW k \in 1..n, NEW m \in 1..n, issued + k = issued + m PROVE k = m
      BY <1>4
    <3> QED BY <1>5
  <2>5. \A f \in new : f.id > issued /\ f.id <= issued'
    <3> SUFFICES ASSUME NEW f \in new PROVE f.id > issued /\ f.id <= issued'
      OBVIOUS
    <3>1. PICK k \in 1..n : f.id = issued + k
      BY <1>4
    <3> QED BY <1>5, <2>1, <3>1
  <2> QED BY <2>2, <2>3, <2>4, <2>5
<1>7. \/ job' = Store!NoJob
      \/ job' = [Store!NoJob EXCEPT !.at = "dedup", !.origin = origin, !.facts = new]
  BY <1>2, <1>4
<1>8. /\ job' \in JobStates /\ job'.at \in {"idle", "dedup"} /\ job'.facts \subseteq new
      /\ job'.facts # {} => job'.facts = new
  BY <1>1, <1>6, <1>7, NoJobIs DEF JobStates, Store!JobSteps
<1>9. StoreTypes'
  <2>1. raced' \in BOOLEAN
    BY <1>3 DEF StoreTypes
  <2>2. queue' \in 0..jobs' /\ \A v \in vectors : v.id <= issued'
    BY <1>1, <1>3, <1>5 DEF StoreTypes, Store!Vector, Store!Ids
  <2>3. DOMAIN rows \subseteq 1..issued'
    BY <1>1, <1>5 DEF StoreTypes
  <2> QED BY <1>3, <1>5, <1>8, <2>1, <2>2, <2>3 DEF StoreTypes
<1>10. OneRuns'
  BY <1>3 DEF OneRuns, Runners
<1>11. RunsFit'
  <2>1. \A i \in 1..issued : i \in 1..issued'
    BY <1>1, <1>5
  <2> QED BY <1>3, <2>1 DEF RunsFit, RunFits, Store!Facts, Store!Observations
<1>12. JobFits'
  <2>1. New' \subseteq 1..issued' /\ \A i \in New' : i > issued
    BY <1>5, <1>6, <1>8 DEF New, JobStates, Store!Fact, Store!Ids
  <2>2. DOMAIN rows \subseteq 1..issued /\ \A w \in Runners : runs[w].at = "deleteVector" => runs[w].delete \in 1..issued
    BY DEF StoreTypes, RunsFit, RunFits
  <2>3. New' \cap DOMAIN rows = {} /\ \A w \in Runners : runs[w].at = "deleteVector" => runs[w].delete \notin New'
    BY <1>5, <2>1, <2>2
  <2> QED BY <1>3, <1>6, <1>8, <2>1, <2>3 DEF JobFits
<1>13. LinksFit'
  <2>1. job'.at = "dedup" => \A f \in job'.facts : f.cause \in {0} \cup New'
    BY <1>6, <1>8 DEF New
  <2>2. Calm' => Calm /\ runs["command"].at # "deleteVector"
    BY <1>3 DEF Calm
  <2>3. Calm' => holder' = 0
    BY <1>3, <2>2 DEF LinksFit
  <2> QED BY <1>3, <1>8, <2>1, <2>2, <2>3 DEF LinksFit
<1>14. VectorsPaired'
  BY <1>3, <1>8 DEF VectorsPaired, Paired, Writes
<1>15. GivenOnce'
  <2>1. Calm' => Calm
    BY <1>3 DEF Calm
  <2> QED BY <1>3, <2>1 DEF GivenOnce, Store!Facts
<1>16. Store!SourcesAreFacts'
  BY <1>3 DEF Store!SourcesAreFacts, Store!Facts, Store!Observations
<1> QED BY <1>9, <1>10, <1>11, <1>12, <1>13, <1>14, <1>15, <1>16

\* A job that goes on without touching the tables.
LEMMA JobGoes ==
    ASSUME StoreInv, job' \in JobStates, job'.facts = job.facts, job.at # "index",
           job'.at \in {"temporal", "semantic", "observe"}, job.at \notin {"idle", "observe"},
           Calm /\ job'.at # "observe" => job'.found \subseteq DOMAIN rows,
           holder' \in {0} \cup Connections, Calm => holder' = 0,
           UNCHANGED <<rows, vectors, issued, queue, runs, passes, raced, jobs, commands, mishaps>>
    PROVE  StoreInv'
<1> USE DEF StoreInv
<1>1. StoreTypes'
  BY DEF StoreTypes
<1>2. OneRuns'
  BY DEF OneRuns
<1>3. RunsFit'
  BY DEF RunsFit, RunFits, Store!Facts, Store!Observations
<1>4. JobFits'
  BY DEF JobFits, New, Store!Facts
<1>5. LinksFit'
  <2>1. Calm' = Calm
    BY DEF Calm
  <2> QED BY <2>1 DEF LinksFit
<1>6. VectorsPaired'
  BY DEF VectorsPaired, Paired, Writes, New
<1>7. GivenOnce'
  BY DEF GivenOnce, Calm, Store!Facts
<1>8. Store!SourcesAreFacts'
  BY DEF Store!SourcesAreFacts, Store!Facts, Store!Observations
<1> QED BY <1>1, <1>2, <1>3, <1>4, <1>5, <1>6, <1>7, <1>8

\* While a job looks for vectors they have their rows, unless something went wrong.
LEMMA VectorsHaveRows ==
    ASSUME StoreInv, Calm, job.at \notin {"idle", "observe"}
    PROVE  \A v \in vectors : v.id \in DOMAIN rows
<1>1. \A w \in Runners : runs[w].at # "deleteVector"
  BY DEF StoreInv, LinksFit, OneRuns, Runners
<1> QED BY <1>1 DEF StoreInv, VectorsPaired, Paired, Writes, Calm

LEMMA SearchStep == ASSUME StoreInv, Store!SearchLinks PROVE StoreInv'
<1> USE DEF StoreInv
<1>1. PICK reached \in SUBSET Store!Ids :
        /\ job' = [job EXCEPT !.found = reached, !.searched = TRUE]
        /\ job.at \in {"temporal", "semantic"}
        /\ Calm => reached \subseteq DOMAIN rows
        /\ UNCHANGED <<rows, vectors, issued, queue, runs, holder, passes, raced, jobs, commands, mishaps>>
  <2>1. PICK reached :
          /\ job' = [job EXCEPT !.found = reached, !.searched = TRUE]
          /\ job.at \in {"temporal", "semantic"}
          /\ \A i \in reached : i \in DOMAIN rows \/ \E v \in vectors : v.id = i
          /\ UNCHANGED <<rows, vectors, issued, queue, runs, holder, passes, raced, jobs, commands, mishaps>>
    <3>1. PICK near :
            /\ near = (IF job.at = "semantic" THEN {v.id : v \in vectors}
                       ELSE {i \in DOMAIN rows : Store!WithinWindow(rows[i].origin, job.origin)})
            /\ \E reached \in SUBSET near : job' = [job EXCEPT !.found = reached, !.searched = TRUE]
      BY DEF Store!SearchLinks
    <3>2. PICK reached \in SUBSET near : job' = [job EXCEPT !.found = reached, !.searched = TRUE]
      BY <3>1
    <3>3. \A i \in reached : i \in DOMAIN rows \/ \E v \in vectors : v.id = i
      BY <3>1, <3>2
    <3> QED BY <3>2, <3>3 DEF Store!SearchLinks, Store!tables, Store!counters
  <2>2. reached \subseteq Store!Ids
    <3>1. DOMAIN rows \subseteq Store!Ids
      BY StoreAssumption DEF StoreTypes, Store!Ids
    <3>2. \A v \in vectors : v.id \in Store!Ids
      BY DEF StoreTypes, Store!Vector
    <3> QED BY <2>1, <3>1, <3>2
  <2> QED BY <2>1, <2>2, VectorsHaveRows
<1>2. /\ job' \in JobStates /\ job'.facts = job.facts /\ job'.at = job.at /\ job'.found = reached
  BY <1>1 DEF StoreTypes, JobStates
<1>3. Calm => holder' = 0
  BY <1>1 DEF LinksFit
<1>4. holder' \in {0} \cup Connections
  BY <1>1 DEF StoreTypes
<1> QED BY <1>1, <1>2, <1>3, <1>4, JobGoes

LEMMA InsertStep == ASSUME StoreInv, Store!InsertLinks PROVE StoreInv'
<1> USE StoreAssumption DEF StoreInv
<1>1. PICK targets :
        /\ targets = (IF job.at = "causal" THEN {f.cause : f \in job.facts} \ {0} ELSE job.found)
        /\ \/ /\ targets = {} /\ holder' = holder
              /\ \E step \in {"temporal", "semantic", "observe"} : Store!JobNext(step)
           \/ \E c \in Connections :
              \/ /\ Store!CanWrite(c) /\ targets \subseteq DOMAIN rows /\ holder' = 0
                 /\ \E step \in {"temporal", "semantic", "observe"} : Store!JobNext(step)
              \/ /\ Store!CanWrite(c) /\ ~(targets \subseteq DOMAIN rows)
                 /\ Store!JobFails /\ holder' = c
              \/ ~Store!CanWrite(c) /\ Store!JobFails /\ holder' = holder
        /\ job.at \in {"causal", "temporal", "semantic"}
        /\ UNCHANGED <<rows, vectors, issued, queue, runs, passes, raced, jobs, commands, mishaps>>
  BY DEF Store!InsertLinks, Store!tables, Store!counters, Store!None
<1>2. Calm => holder = 0 /\ targets \subseteq DOMAIN rows
  BY <1>1 DEF LinksFit
<1>3. holder' \in {0} \cup Connections
  BY <1>1 DEF StoreTypes
<1>4. ASSUME NEW step \in {"temporal", "semantic", "observe"}, Store!JobNext(step), Calm => holder' = 0
      PROVE  StoreInv'
  <2>1. job' \in JobStates /\ job'.facts = job.facts /\ job'.at = step /\ job'.found = {}
    BY <1>4 DEF Store!JobNext, StoreTypes, JobStates, Store!JobSteps
  <2> QED BY <1>1, <1>3, <1>4, <2>1, JobGoes
<1>5. ASSUME Store!JobFails, Calm => holder' = 0 PROVE StoreInv'
  <2>1. \A w \in Runners : runs[w].at # "idle" => w = "command"
    BY <1>1 DEF OneRuns, Runners
  <2> QED BY <1>1, <1>3, <1>5, <2>1, JobEnds DEF Store!JobFails, StoreTypes
<1>6. \A c \in Connections : Calm => Store!CanWrite(c)
  BY <1>2 DEF Store!CanWrite, Store!None
<1> QED BY <1>1, <1>2, <1>4, <1>5, <1>6

LEMMA ObserveStep == ASSUME StoreInv, Store!Observe PROVE StoreInv'
<1> USE DEF StoreInv
<1>1. /\ job.at = "observe" /\ runs["retain"].at = "idle"
      /\ \/ (\A w \in Runners : runs[w].at = "idle") /\ Store!StartRun("retain") /\ job' = job
         \/ job' = Store!NoJob /\ runs' = runs
      /\ UNCHANGED <<rows, vectors, issued, queue, holder, passes, raced, jobs, commands, mishaps>>
  BY DEF Store!Observe, Store!tables, Store!counters, Store!LockFree, StoreTypes
<1>2. CASE job' = Store!NoJob /\ runs' = runs
  <2>1. \A w \in Runners : runs[w].at # "idle" => w = "command"
    BY <1>1 DEF Runners
  <2>2. queue' \in 0..jobs /\ holder' \in {0} \cup Connections /\ (Calm => holder' = 0)
    BY <1>1 DEF StoreTypes, LinksFit
  <2> QED BY <1>1, <1>2, <2>1, <2>2, JobEnds DEF StoreTypes
<1>3. CASE (\A w \in Runners : runs[w].at = "idle") /\ Store!StartRun("retain") /\ job' = job
  <2>0. PICK r : r = [Store!NoRun EXCEPT !.at = "batch"]
    OBVIOUS
  <2>1. r \in RunStates /\ r.at = "batch" /\ r.batch = {} /\ r.create = {} /\ r.updateOf = {} /\ r.update = 0
    BY <2>0 DEF Store!NoRun, RunStates, Store!RunSteps, Store!None
  <2>2. runs' = [runs EXCEPT !["retain"] = r]
    BY <1>3, <2>0 DEF Store!StartRun
  <2>3. runs' \in [Runners -> RunStates] /\ runs'["retain"] = r /\ runs'["command"] = runs["command"]
    BY <2>1, <2>2 DEF StoreTypes, Runners
  <2>4. StoreTypes'
    BY <1>1, <1>3, <2>3 DEF StoreTypes
  <2>5. OneRuns' /\ RunsFit'
    BY <1>1, <1>3, <2>1, <2>3 DEF OneRuns, RunsFit, RunFits, Store!Facts, Store!Observations, Runners
  <2>6. JobFits' /\ LinksFit'
    BY <1>1, <1>3, <2>1, <2>3 DEF JobFits, LinksFit, Calm, New, Runners, Store!Facts
  <2>7. VectorsPaired' /\ GivenOnce'
    BY <1>1, <1>3, <2>1, <2>3 DEF VectorsPaired, Paired, GivenOnce, Calm, New, Writes, Store!Facts, Runners
  <2>8. Store!SourcesAreFacts'
    BY <1>1 DEF Store!SourcesAreFacts, Store!Facts, Store!Observations
  <2> QED BY <2>4, <2>5, <2>6, <2>7, <2>8
<1> QED BY <1>1, <1>2, <1>3

LEMMA DedupStep == ASSUME StoreInv, Store!Dedup PROVE StoreInv'
<1> USE StoreAssumption DEF StoreInv
<1>1. /\ job.at = "dedup" /\ mishaps' \in 0..MaxMishaps /\ (mishaps' = 0 => mishaps = 0)
      /\ UNCHANGED <<rows, vectors, issued, queue, runs, holder, passes, raced, jobs, commands>>
  <2>1. mishaps \in Nat
    BY DEF StoreTypes
  <2> QED BY <2>1 DEF Store!Dedup, Store!Mishap, Store!tables, Store!counters, StoreTypes
<1>2a. PICK nearest \in [job.facts -> {{}} \cup {{v} : v \in vectors}] :
        job' = IF job.facts = Store!Dropped(nearest) THEN Store!NoJob
               ELSE [job EXCEPT !.at = "store", !.facts = Store!Kept(nearest)]
  BY DEF Store!Dedup
<1>2b. PICK dropped : dropped = Store!Dropped(nearest)
  OBVIOUS
<1>2c. PICK twin : twin = Store!TwinOf(nearest)
  OBVIOUS
<1>2d. twin = [i \in {f.id : f \in dropped} |->
                 CHOOSE j \in Store!Ids : \E f \in dropped, v \in vectors :
                     f.id = i /\ v \in nearest[f] /\ v.id = j]
  BY <1>2b, <1>2c DEF Store!TwinOf
<1>2e. /\ Store!Kept(nearest) = {[f EXCEPT !.cause = Store!Remapped(f.cause, twin)] : f \in job.facts \ dropped}
       /\ job' = IF job.facts = dropped THEN Store!NoJob
                 ELSE [job EXCEPT !.at = "store", !.facts = Store!Kept(nearest)]
  BY <1>2a, <1>2b, <1>2c DEF Store!Kept
<1>2. dropped \subseteq job.facts /\ \A f \in dropped : \E v \in nearest[f] : Store!IsTwin(job.origin, v)
  BY <1>2b DEF Store!Dropped
<1>3. \A f \in dropped : \E v \in vectors : v \in nearest[f]
  <2> SUFFICES ASSUME NEW f \in dropped PROVE \E v \in vectors : v \in nearest[f]
    OBVIOUS
  <2>1. PICK v : v \in nearest[f]
    BY <1>2, <1>2a, <1>2d
  <2>2. nearest[f] = {} \/ \E u \in vectors : nearest[f] = {u}
    BY <1>2, <1>2a, <1>2d
  <2> QED BY <2>1, <2>2
<1>4. \A i \in DOMAIN twin : twin[i] \in Store!Ids /\ \E v \in vectors : v.id = twin[i]
  <2> SUFFICES ASSUME NEW i \in DOMAIN twin
               PROVE  twin[i] \in Store!Ids /\ \E v \in vectors : v.id = twin[i]
    OBVIOUS
  <2>1. \E k \in Store!Ids : \E f \in dropped, v \in vectors : f.id = i /\ v \in nearest[f] /\ v.id = k
    <3>1. PICK f \in dropped : f.id = i
      BY <1>2, <1>2a, <1>2d
    <3>2. PICK v \in vectors : v \in nearest[f]
      BY <1>3
    <3>3. v.id \in Store!Ids
      BY DEF StoreTypes, Store!Vector
    <3> QED BY <3>1, <3>2, <3>3
  <2>2. PICK k : k = twin[i] /\ k \in Store!Ids
                 /\ \E f \in dropped, v \in vectors : f.id = i /\ v \in nearest[f] /\ v.id = k
    BY <1>2d, <2>1
  <2> QED BY <2>2
<1>5. CASE job.facts = dropped
  <2>1. job' = Store!NoJob
    BY <1>2e, <1>5
  <2>2. \A w \in Runners : runs[w].at # "idle" => w = "command"
    BY <1>1 DEF OneRuns, Runners
  <2>3. queue' \in 0..jobs /\ holder' \in {0} \cup Connections /\ (Calm => holder' = 0)
    BY <1>1 DEF StoreTypes, LinksFit
  <2> QED BY <1>1, <2>1, <2>2, <2>3, JobEnds DEF StoreTypes
<1>6. CASE job.facts # dropped
  <2>1. PICK kept : kept = {[f EXCEPT !.cause = Store!Remapped(@, twin)] : f \in job.facts \ dropped}
    OBVIOUS
  <2>2. job' = [job EXCEPT !.at = "store", !.facts = kept]
    BY <1>2e, <1>6, <2>1
  <2>3. \A f \in job.facts : f \in Store!Fact
    BY DEF StoreTypes, JobStates
  <2>4. \A g \in kept : \E f \in job.facts \ dropped :
            g = [f EXCEPT !.cause = Store!Remapped(f.cause, twin)] /\ g.id = f.id
            /\ g.cause = Store!Remapped(f.cause, twin) /\ g \in Store!Fact
    <3> SUFFICES ASSUME NEW f \in job.facts \ dropped,
                        NEW g, g = [f EXCEPT !.cause = Store!Remapped(f.cause, twin)]
                 PROVE  g.id = f.id /\ g.cause = Store!Remapped(f.cause, twin) /\ g \in Store!Fact
      BY <2>1
    <3>1. f \in Store!Fact
      BY <2>3
    <3>2. Store!Remapped(f.cause, twin) \in {0} \cup Store!Ids
      BY <3>1, <1>4 DEF Store!Remapped, Store!Fact, Store!None
    <3> QED BY <3>1, <3>2 DEF Store!Fact, Store!None
  <2>5. \A f \in job.facts \ dropped : \E g \in kept : g.id = f.id
    <3> SUFFICES ASSUME NEW f \in job.facts \ dropped PROVE \E g \in kept : g.id = f.id
      OBVIOUS
    <3>1. PICK g : g = [f EXCEPT !.cause = Store!Remapped(f.cause, twin)]
      OBVIOUS
    <3>2. g \in kept /\ g.id = f.id
      BY <2>1, <2>3, <3>1 DEF Store!Fact
    <3> QED BY <3>2
  <2>6. \A f, g \in kept : f.id = g.id => f = g
    BY <2>4 DEF JobFits
  <2>7. job' \in JobStates /\ job'.at = "store" /\ job'.facts = kept
    <3>1. kept \subseteq Store!Fact
      BY <2>4
    <3> QED BY <2>2, <3>1 DEF StoreTypes, JobStates, Store!JobSteps
  <2>8. New' \subseteq New /\ New' = {g.id : g \in kept}
    BY <2>4, <2>7 DEF New
  <2>9. StoreTypes'
    BY <1>1, <2>7 DEF StoreTypes
  <2>10. OneRuns' /\ RunsFit'
    BY <1>1, <2>7 DEF OneRuns, RunsFit, RunFits, Store!Facts, Store!Observations, Runners
  <2>11. JobFits'
    BY <1>1, <2>6, <2>7, <2>8 DEF JobFits
  <2>12. LinksFit'
    <3>1. Calm' => Calm
      BY <1>1 DEF Calm
    <3>2. ASSUME Calm PROVE \A g \in kept : g.cause \in {0} \cup New' \cup DOMAIN rows
      <4> SUFFICES ASSUME NEW g \in kept PROVE g.cause \in {0} \cup New' \cup DOMAIN rows
        OBVIOUS
      <4>1. PICK f \in job.facts \ dropped : g.cause = Store!Remapped(f.cause, twin)
        BY <2>4
      <4>2. CASE f.cause \in DOMAIN twin
        BY <4>1, <4>2, <1>1, <1>4, <3>2, VectorsHaveRows DEF Store!Remapped
      <4>3. CASE f.cause \notin DOMAIN twin
        <5>1. g.cause = f.cause
          BY <4>1, <4>3 DEF Store!Remapped
        <5>2. f.cause \in {0} \cup New
          BY <1>1 DEF LinksFit
        <5>3. CASE f.cause \in New
          <6>1. PICK h \in job.facts : h.id = f.cause
            BY <5>3 DEF New
          <6>2. h \notin dropped
            BY <6>1, <4>3, <1>2, <1>2d
          <6> QED BY <6>1, <6>2, <5>1, <2>5, <2>8
        <5> QED BY <5>1, <5>2, <5>3
      <4> QED BY <4>2, <4>3
    <3>3. Calm => holder' = 0
      BY <1>1 DEF LinksFit
    <3>4. Calm => runs["command"].at # "deleteVector"
      BY <1>1 DEF LinksFit
    <3> QED BY <1>1, <2>7, <3>1, <3>2, <3>3, <3>4 DEF LinksFit
  <2>13. VectorsPaired'
    BY <1>1, <2>7 DEF VectorsPaired, Paired, Writes
  <2>14. GivenOnce'
    BY <1>1 DEF GivenOnce, Calm, Store!Facts
  <2>15. Store!SourcesAreFacts'
    BY <1>1 DEF Store!SourcesAreFacts, Store!Facts, Store!Observations
  <2> QED BY <2>9, <2>10, <2>11, <2>12, <2>13, <2>14, <2>15
<1> QED BY <1>5, <1>6

LEMMA StoreFactsStep == ASSUME StoreInv, Store!StoreFacts PROVE StoreInv'
<1> USE StoreAssumption DEF StoreInv
<1>1. PICK c \in Connections :
        /\ job.at = "store"
        /\ \/ /\ Store!CanWrite(c) /\ holder' = 0 /\ Store!JobNext("index")
              /\ rows' = [i \in DOMAIN rows \cup New |->
                           IF i \in DOMAIN rows THEN rows[i]
                           ELSE [text |-> (CHOOSE f \in job.facts : f.id = i).text,
                                 origin |-> job.origin, sources |-> {},
                                 observation |-> FALSE, consolidated |-> FALSE]]
           \/ ~Store!CanWrite(c) /\ Store!JobFails /\ UNCHANGED <<rows, holder>>
        /\ UNCHANGED <<vectors, issued, queue, runs, passes, raced, jobs, commands, mishaps>>
  BY DEF Store!StoreFacts, Store!counters, Store!None, New
<1>2. CASE Store!JobFails /\ ~Store!CanWrite(c) /\ UNCHANGED <<rows, holder>>
  <2>1. \A w \in Runners : runs[w].at # "idle" => w = "command"
    BY <1>1 DEF OneRuns, Runners
  <2>2. holder' \in {0} \cup Connections /\ queue' \in 0..jobs /\ (Calm => holder' = 0)
    BY <1>1, <1>2 DEF StoreTypes, LinksFit
  <2> QED BY <1>1, <1>2, <2>1, <2>2, JobEnds DEF Store!JobFails, StoreTypes
<1>3. CASE /\ Store!JobNext("index") /\ holder' = 0
           /\ rows' = [i \in DOMAIN rows \cup New |->
                           IF i \in DOMAIN rows THEN rows[i]
                           ELSE [text |-> (CHOOSE f \in job.facts : f.id = i).text,
                                 origin |-> job.origin, sources |-> {},
                                 observation |-> FALSE, consolidated |-> FALSE]]
  <2>1. /\ job' \in JobStates /\ job'.facts = job.facts /\ job'.at = "index" /\ job.at = "store"
    <3>1. job' = [job EXCEPT !.at = "index", !.found = {}, !.searched = FALSE]
      BY <1>3 DEF Store!JobNext
    <3>2. job \in JobStates /\ job.at = "store"
      BY <1>1 DEF StoreTypes
    <3> QED BY <3>1, <3>2 DEF JobStates, Store!JobSteps
  <2>1a. New' = New
    BY <2>1 DEF New
  <2>2. DOMAIN rows' = DOMAIN rows \cup New /\ \A i \in DOMAIN rows : rows'[i] = rows[i]
    BY <1>3
  <2>3. \A f \in job.facts : /\ rows'[f.id].text = f.text /\ rows'[f.id].observation = FALSE
                             /\ rows'[f.id] \in Store!Row
    <3> SUFFICES ASSUME NEW f \in job.facts
                 PROVE  /\ rows'[f.id].text = f.text /\ rows'[f.id].observation = FALSE
                        /\ rows'[f.id] \in Store!Row
      OBVIOUS
    <3>1. f.id \in New /\ f.id \notin DOMAIN rows /\ \A g \in job.facts : g.id = f.id => g = f
      BY <2>1 DEF JobFits, New
    <3>2. (CHOOSE g \in job.facts : g.id = f.id) = f
      BY <3>1
    <3>3. rows'[f.id] = [text |-> f.text, origin |-> job.origin, sources |-> {},
                         observation |-> FALSE, consolidated |-> FALSE]
      BY <1>3, <3>1, <3>2
    <3>4. f \in Store!Fact /\ job.origin \in Store!Origins
      BY DEF StoreTypes, JobStates
    <3> QED BY <3>3, <3>4 DEF Store!Row, Store!Fact
  <2>4. \A i \in New : rows'[i] \in Store!Row /\ rows'[i].observation = FALSE
    BY <2>3 DEF New
  <2>5. Store!Facts' = Store!Facts \cup New /\ Store!Observations' = Store!Observations
    BY <2>1, <2>2, <2>4 DEF Store!Facts, Store!Observations, JobFits
  <2>6. StoreTypes'
    <3>1. DOMAIN rows' \subseteq 1..issued'
      BY <1>1, <2>2 DEF StoreTypes, JobFits
    <3>2. \A i \in DOMAIN rows' : rows'[i] \in Store!Row
      BY <2>2, <2>4 DEF StoreTypes
    <3>3. holder' \in {0} \cup Connections
      BY <1>3
    <3> QED BY <1>1, <2>1, <3>1, <3>2, <3>3 DEF StoreTypes
  <2>7. OneRuns'
    BY <1>1, <2>1 DEF OneRuns, Runners
  <2>8. RunsFit'
    <3>1. \A w \in Runners : RunFits(runs[w])
      BY DEF RunsFit
    <3>2. \A w \in Runners : runs[w].at = "deleteVector" => runs[w].delete \notin DOMAIN rows'
      BY <2>1, <2>2, <3>1 DEF JobFits, RunFits
    <3>3. \A o \in Store!Observations : o \in Store!Observations' /\ rows'[o].text = rows[o].text
      BY <2>2, <2>5 DEF Store!Observations
    <3>4. Store!Facts \subseteq Store!Facts'
      BY <2>5
    <3> QED BY <1>1, <3>1, <3>2, <3>3, <3>4 DEF RunsFit, RunFits
  <2>9. JobFits'
    <3>1. \A f \in job.facts : rows'[f.id].text = f.text
      BY <2>3
    <3> QED BY <1>1, <2>1, <2>1a, <2>5, <3>1 DEF JobFits
  <2>10. LinksFit'
    <3>1. Calm' = Calm
      BY <1>1 DEF Calm
    <3> QED BY <1>1, <1>3, <2>1, <2>1a, <2>2, <3>1 DEF LinksFit
  <2>11. VectorsPaired'
    <3> SUFFICES ASSUME mishaps = 0 PROVE Paired'
      BY <1>1 DEF VectorsPaired
    <3>1. Paired
      BY DEF VectorsPaired
    <3>2. \A v \in vectors : v.id \notin New
      BY <2>1, <3>1 DEF Paired, Writes, JobFits
    <3> QED BY <1>1, <2>1, <2>1a, <2>2, <3>1, <3>2 DEF Paired, Writes
  <2>12. GivenOnce'
    <3>1. \A i \in Store!Facts : i \in Store!Facts' /\ rows'[i] = rows[i]
      BY <2>2, <2>5 DEF Store!Facts
    <3> QED BY <1>1, <3>1 DEF GivenOnce, Calm
  <2>13. Store!SourcesAreFacts'
    <3>1. \A o \in Store!Observations : rows'[o] = rows[o]
      BY <2>2 DEF Store!Observations
    <3> QED BY <2>5, <3>1 DEF Store!SourcesAreFacts
  <2> QED BY <2>6, <2>7, <2>8, <2>9, <2>10, <2>11, <2>12, <2>13
<1> QED BY <1>1, <1>2, <1>3

LEMMA IndexStep == ASSUME StoreInv, Store!Index PROVE StoreInv'
<1> USE StoreAssumption DEF StoreInv
<1>1. /\ job.at = "index" /\ Store!JobNext("causal")
      /\ \/ vectors' = vectors \cup Store!Indexed /\ mishaps' = mishaps
         \/ mishaps < MaxMishaps /\ mishaps' = mishaps + 1 /\ vectors' = vectors
      /\ UNCHANGED <<rows, issued, queue, runs, holder, passes, raced, jobs, commands>>
  BY DEF Store!Index, Store!counters, Store!Mishap
<1>2. /\ job' \in JobStates /\ job'.facts = job.facts /\ job'.at = "causal"
  BY <1>1 DEF Store!JobNext, StoreTypes, JobStates, Store!JobSteps
<1>3. /\ mishaps' \in 0..MaxMishaps
      /\ mishaps' = 0 => mishaps = 0 /\ vectors' = vectors \cup Store!Indexed
  <2>1. mishaps \in Nat
    BY DEF StoreTypes
  <2> QED BY <1>1, <2>1 DEF StoreTypes
<1>4. \A v \in Store!Indexed : /\ v \in Store!Vector /\ v.id \in Store!Facts
                               /\ v.text = rows[v.id].text
  <2> SUFFICES ASSUME NEW f \in job.facts,
                      NEW v, v = [id |-> f.id, text |-> f.text, origin |-> job.origin]
               PROVE  v \in Store!Vector /\ v.id \in Store!Facts /\ v.text = rows[v.id].text
    BY DEF Store!Indexed
  <2>1. f \in Store!Fact /\ job.origin \in Store!Origins
    BY DEF StoreTypes, JobStates
  <2>2. f.id \in Store!Facts /\ rows[f.id].text = f.text
    BY <1>1 DEF JobFits, New
  <2> QED BY <2>1, <2>2 DEF Store!Vector, Store!Fact
<1>5. \A i \in New : \E v \in Store!Indexed : v.id = i
  <2> SUFFICES ASSUME NEW f \in job.facts PROVE \E v \in Store!Indexed : v.id = f.id
    BY DEF New
  <2>1. PICK v : v = [id |-> f.id, text |-> f.text, origin |-> job.origin]
    OBVIOUS
  <2> QED BY <2>1 DEF Store!Indexed
<1>6. StoreTypes'
  <2>1. \A v \in Store!Indexed : v \in Store!Vector /\ v.id <= issued
    BY <1>4 DEF StoreTypes, Store!Facts
  <2> QED BY <1>1, <1>2, <1>3, <2>1 DEF StoreTypes
<1>7. OneRuns' /\ RunsFit'
  BY <1>1, <1>2 DEF OneRuns, RunsFit, RunFits, Store!Facts, Store!Observations, Runners
<1>8. JobFits'
  BY <1>1, <1>2 DEF JobFits, New
<1>9. LinksFit'
  <2>1. Calm' => Calm
    BY <1>1, <1>3 DEF Calm
  <2> QED BY <1>1, <1>2, <2>1 DEF LinksFit
<1>10. VectorsPaired'
  <2> SUFFICES ASSUME mishaps' = 0 PROVE Paired'
    BY DEF VectorsPaired
  <2>1. Paired /\ vectors' = vectors \cup Store!Indexed
    BY <1>3 DEF VectorsPaired
  <2>2. \A v \in Store!Indexed : v.id \in DOMAIN rows /\ v.text = rows[v.id].text
    BY <1>4 DEF Store!Facts
  <2> QED BY <1>1, <1>5, <2>1, <2>2 DEF Paired, Writes
<1>11. GivenOnce'
  <2>1. Calm' => Calm
    BY <1>1, <1>3 DEF Calm
  <2> QED BY <1>1, <2>1 DEF GivenOnce, Store!Facts
<1>12. Store!SourcesAreFacts'
  BY <1>1 DEF Store!SourcesAreFacts, Store!Facts, Store!Observations
<1> QED BY <1>6, <1>7, <1>8, <1>9, <1>10, <1>11, <1>12

\* A run that goes on without touching the tables.
LEMMA RunGoes ==
    ASSUME StoreInv, NEW w \in Runners, NEW r \in RunStates, runs' = [runs EXCEPT ![w] = r],
           runs[w].at \in {"batch", "create", "update", "delete"},
           r.at \in {"ask", "update", "delete", "mark"}, RunFits(r),
           r.at = "ask" <=> runs[w].at = "batch",
           r.at = "ask" => \A i \in r.batch : ~rows[i].consolidated,
           r.at # "ask" => r.batch = runs[w].batch,
           UNCHANGED <<rows, vectors, issued, queue, job, holder, passes, raced, jobs, commands, mishaps>>
    PROVE  StoreInv'
<1> USE DEF StoreInv
<1>1. /\ runs' \in [Runners -> RunStates] /\ runs'[w] = r
      /\ \A u \in Runners : u # w => runs'[u] = runs[u] /\ runs[u].at = "idle"
  BY RunTurns
<1>2. StoreTypes'
  BY <1>1 DEF StoreTypes
<1>3. OneRuns'
  BY <1>1 DEF OneRuns, Runners
<1>4. RunsFit'
  <2>1. \A u \in Runners : RunFits(runs'[u])
    BY <1>1 DEF RunsFit
  <2> QED BY <2>1 DEF RunsFit, RunFits, Store!Facts, Store!Observations
<1>5. JobFits'
  BY <1>1 DEF JobFits, New, Store!Facts
<1>6. LinksFit'
  BY <1>1 DEF LinksFit, Calm, New, Runners
<1>7. VectorsPaired'
  BY <1>1 DEF VectorsPaired, Paired, Writes, New
<1>8. GivenOnce'
  <2> SUFFICES ASSUME Calm, NEW i \in Store!Ids
               PROVE  /\ passes[i] <= 1
                      /\ passes[i] = 1 =>
                          \/ i \in Store!Facts /\ rows[i].consolidated
                          \/ \E u \in Runners : runs'[u].at \notin {"idle", "batch", "ask"} /\ i \in runs'[u].batch
                      /\ \A u \in Runners : runs'[u].at = "ask" /\ i \in runs'[u].batch =>
                          i \in Store!Facts /\ ~rows[i].consolidated
    BY DEF GivenOnce, Calm, Store!Facts
  <2>1. \A u \in Runners : runs'[u].at = "ask" /\ i \in runs'[u].batch =>
                          i \in Store!Facts /\ ~rows[i].consolidated
    BY <1>1 DEF RunFits
  <2>2. \A u \in Runners : runs[u].at \notin {"idle", "batch", "ask"} /\ i \in runs[u].batch =>
            runs'[u].at \notin {"idle", "batch", "ask"} /\ i \in runs'[u].batch
    BY <1>1
  <2> QED BY <2>1, <2>2 DEF GivenOnce
<1>9. Store!SourcesAreFacts'
  BY DEF Store!SourcesAreFacts, Store!Facts, Store!Observations
<1> QED BY <1>2, <1>3, <1>4, <1>5, <1>6, <1>7, <1>8, <1>9

\* A run that ends, or fails, takes the job of the pipeline with it.
LEMMA RunOver ==
    ASSUME StoreInv, NEW w \in Runners, Store!RunEnds(w),
           runs[w].at = "batch" \/ (runs[w].at \in {"create", "update", "delete", "mark"} /\ ~Calm),
           UNCHANGED <<rows, vectors, issued, queue, holder, passes, raced, jobs, commands, mishaps>>
    PROVE  StoreInv'
<1> USE DEF StoreInv
<1>1. runs' = [runs EXCEPT ![w] = Store!NoRun] /\ job' = IF w = "retain" THEN Store!NoJob ELSE job
  BY DEF Store!RunEnds
<1>2. /\ runs' \in [Runners -> RunStates] /\ runs'[w] = Store!NoRun
      /\ \A u \in Runners : u # w => runs'[u] = runs[u] /\ runs[u].at = "idle"
  BY <1>1, NoRunIs, RunTurns
<1>3. CASE w = "retain"
  <2>1. job' = Store!NoJob /\ job.at # "index"
    BY <1>1, <1>3 DEF OneRuns
  <2>2. holder' \in {0} \cup Connections /\ queue' \in 0..jobs /\ (Calm => holder' = 0)
    BY DEF StoreTypes, LinksFit
  <2>3. \A u \in Runners : runs'[u].at # "idle" => u = "command"
    BY <1>2, <1>3, NoRunIs DEF Runners
  <2>4. \A u \in Runners : runs'[u] # runs[u] => \A i : ~Writes(u, "createVector", "made", i)
                 /\ ~Writes(u, "updateVector", "update", i) /\ ~Writes(u, "deleteVector", "delete", i)
    BY <1>2 DEF Writes
  <2> QED BY <1>2, <2>1, <2>2, <2>3, <2>4, JobEnds DEF StoreTypes
<1>4. CASE w # "retain"
  <2>1. job' = job
    BY <1>1, <1>4
  <2>2. StoreTypes'
    BY <1>2, <2>1 DEF StoreTypes
  <2>3. OneRuns'
    BY <1>2, <2>1, NoRunIs DEF OneRuns, Runners
  <2>4. RunsFit'
    BY <1>2, NoRunIs DEF RunsFit, RunFits, Store!Facts, Store!Observations
  <2>5. JobFits'
    BY <1>2, <2>1, NoRunIs DEF JobFits, New, Store!Facts
  <2>6. LinksFit'
    BY <1>2, <2>1, NoRunIs DEF LinksFit, Calm, New, Runners
  <2>7. VectorsPaired'
    <3>1. \A u \in Runners, i \in Store!Ids :
            /\ Writes(u, "createVector", "made", i) => Writes(u, "createVector", "made", i)'
            /\ Writes(u, "updateVector", "update", i) => Writes(u, "updateVector", "update", i)'
            /\ Writes(u, "deleteVector", "delete", i) => Writes(u, "deleteVector", "delete", i)'
      BY <1>2 DEF Writes
    <3>2. /\ \A v \in vectors : v.id \in Store!Ids
          /\ DOMAIN rows \subseteq Store!Ids
      BY StoreAssumption DEF StoreTypes, Store!Vector, Store!Ids
    <3> QED BY <2>1, <3>1, <3>2 DEF VectorsPaired, Paired, New
  <2>8. GivenOnce'
    BY <1>2, NoRunIs DEF GivenOnce, Calm, Store!Facts
  <2>9. Store!SourcesAreFacts'
    BY DEF Store!SourcesAreFacts, Store!Facts, Store!Observations
  <2> QED BY <2>2, <2>3, <2>4, <2>5, <2>6, <2>7, <2>8, <2>9
<1> QED BY <1>3, <1>4

LEMMA BatchStep == ASSUME StoreInv, NEW w \in Runners, Store!Batch(w) PROVE StoreInv'
<1> USE DEF StoreInv
<1>1. /\ runs[w].at = "batch"
      /\ UNCHANGED <<rows, vectors, issued, queue, holder, passes, raced, jobs, commands, mishaps>>
      /\ \/ Store!RunEnds(w)
         \/ /\ \E left \in SUBSET {i \in Store!Facts : ~rows[i].consolidated} :
                 runs' = [runs EXCEPT ![w].at = "ask", ![w].batch = left]
            /\ job' = job
  BY DEF Store!Batch, Store!tables, Store!counters
<1>2. CASE Store!RunEnds(w)
  BY <1>1, <1>2, RunOver
<1>3. ASSUME NEW left \in SUBSET {i \in Store!Facts : ~rows[i].consolidated}, job' = job,
             runs' = [runs EXCEPT ![w].at = "ask", ![w].batch = left]
      PROVE  StoreInv'
  <2>1. PICK r : r = [runs[w] EXCEPT !.at = "ask", !.batch = left]
    OBVIOUS
  <2>2. left \subseteq Store!Ids
    BY StoreAssumption DEF StoreTypes, Store!Facts, Store!Ids
  <2>3. r \in RunStates /\ r.at = "ask" /\ r.batch = left
    BY <2>1, <2>2 DEF StoreTypes, RunStates, Store!RunSteps
  <2>4. runs' = [runs EXCEPT ![w] = r]
    BY <1>3, <2>1 DEF StoreTypes
  <2>5. r.create = {} /\ r.updateOf = {} /\ r.update = 0
    BY <1>1, <2>1 DEF RunsFit, RunFits, StoreTypes, RunStates
  <2>6. RunFits(r)
    BY <2>3, <2>5 DEF RunFits
  <2>7. \A i \in r.batch : ~rows[i].consolidated
    BY <2>3
  <2> QED BY <1>1, <1>3, <2>3, <2>4, <2>6, <2>7, RunGoes
<1> QED BY <1>1, <1>2, <1>3

LEMMA AskStep == ASSUME StoreInv, NEW w \in Runners, Store!Ask(w) PROVE StoreInv'
<1> USE DEF StoreInv
<1>1. /\ runs[w].at = "ask"
      /\ passes' = [i \in Store!Ids |-> passes[i] + (IF i \in runs[w].batch THEN 1 ELSE 0)]
      /\ UNCHANGED <<rows, vectors, issued, queue, job, holder, raced, jobs, commands, mishaps>>
  BY DEF Store!Ask, Store!tables, Store!counters
<1>2. PICK reply : reply = [runs[w] EXCEPT !.at = "create"]
  OBVIOUS
<1>3. /\ reply \in RunStates /\ reply.at = "create" /\ reply.batch = runs[w].batch
      /\ reply.create = {} /\ reply.update = 0 /\ reply.updateOf = {}
      /\ reply.batch \subseteq Store!Facts
  BY <1>1, <1>2 DEF StoreTypes, RunStates, Store!RunSteps, RunsFit, RunFits
<1>4. \E r \in RunStates : /\ runs' = [runs EXCEPT ![w] = r] /\ RunFits(r)
                           /\ r.at = "create" /\ r.batch = runs[w].batch
  <2>1. CASE runs' = [runs EXCEPT ![w] = reply]
    BY <2>1, <1>3 DEF RunFits
  <2>2. ASSUME NEW valid \in SUBSET runs[w].batch, NEW text \in FactTexts,
               runs' = [runs EXCEPT ![w] = [reply EXCEPT !.create = valid, !.text = text]]
        PROVE  \E r \in RunStates : /\ runs' = [runs EXCEPT ![w] = r] /\ RunFits(r)
                                    /\ r.at = "create" /\ r.batch = runs[w].batch
    <3>1. PICK r : r = [reply EXCEPT !.create = valid, !.text = text]
      OBVIOUS
    <3>2. runs[w].batch \subseteq Store!Ids
      BY DEF StoreTypes, RunStates
    <3>3. /\ r \in RunStates /\ r.at = "create" /\ r.batch = runs[w].batch
          /\ r.create = valid /\ r.updateOf = {} /\ r.text = text
      BY <1>3, <3>1, <3>2 DEF RunStates
    <3>4. RunFits(r)
      BY <1>3, <3>3 DEF RunFits
    <3> QED BY <2>2, <3>1, <3>3, <3>4
  <2>3. ASSUME NEW valid \in SUBSET runs[w].batch, NEW text \in FactTexts,
               NEW seen \in Store!Observations,
               runs' = [runs EXCEPT ![w] = [reply EXCEPT !.update = seen, !.updateOf = valid, !.text = text]]
        PROVE  \E r \in RunStates : /\ runs' = [runs EXCEPT ![w] = r] /\ RunFits(r)
                                    /\ r.at = "create" /\ r.batch = runs[w].batch
    <3>1. PICK r : r = [reply EXCEPT !.update = seen, !.updateOf = valid, !.text = text]
      OBVIOUS
    <3>2. runs[w].batch \subseteq Store!Ids /\ seen \in Store!Ids
      BY StoreAssumption DEF StoreTypes, RunStates, Store!Observations, Store!Ids
    <3>3. /\ r \in RunStates /\ r.at = "create" /\ r.batch = runs[w].batch
          /\ r.create = {} /\ r.updateOf = valid /\ r.text = text
      BY <1>3, <3>1, <3>2 DEF RunStates
    <3>4. RunFits(r)
      BY <1>3, <3>3 DEF RunFits
    <3> QED BY <2>3, <3>1, <3>3, <3>4
  <2>4. ASSUME NEW seen \in Store!Observations,
               runs' = [runs EXCEPT ![w] = [reply EXCEPT !.delete = seen]]
        PROVE  \E r \in RunStates : /\ runs' = [runs EXCEPT ![w] = r] /\ RunFits(r)
                                    /\ r.at = "create" /\ r.batch = runs[w].batch
    <3>1. PICK r : r = [reply EXCEPT !.delete = seen]
      OBVIOUS
    <3>2. seen \in Store!Ids
      BY StoreAssumption DEF StoreTypes, Store!Observations, Store!Ids
    <3>3. /\ r \in RunStates /\ r.at = "create" /\ r.batch = runs[w].batch
          /\ r.create = {} /\ r.updateOf = {} /\ r.update = 0
      BY <1>3, <3>1, <3>2 DEF RunStates
    <3>4. RunFits(r)
      BY <1>3, <3>3 DEF RunFits
    <3> QED BY <2>4, <3>1, <3>3, <3>4
  <2>5. \/ runs' = [runs EXCEPT ![w] = reply]
        \/ \E valid \in SUBSET runs[w].batch, text \in FactTexts :
             \/ runs' = [runs EXCEPT ![w] = [reply EXCEPT !.create = valid, !.text = text]]
             \/ \E seen \in Store!Observations :
                  runs' = [runs EXCEPT ![w] = [reply EXCEPT !.update = seen, !.updateOf = valid, !.text = text]]
        \/ \E seen \in Store!Observations :
             runs' = [runs EXCEPT ![w] = [reply EXCEPT !.delete = seen]]
    BY <1>2 DEF Store!Ask, Store!ValidSources
  <2> QED BY <2>1, <2>2, <2>3, <2>4, <2>5
<1>5. PICK r \in RunStates : /\ runs' = [runs EXCEPT ![w] = r] /\ RunFits(r)
                             /\ r.at = "create" /\ r.batch = runs[w].batch
  BY <1>4
<1>6. /\ runs' \in [Runners -> RunStates] /\ runs'[w] = r
      /\ \A u \in Runners : u # w => runs'[u] = runs[u] /\ runs[u].at = "idle"
  BY <1>1, <1>5, RunTurns
<1>7. StoreTypes'
  <2>1. passes' \in [Store!Ids -> Nat]
    BY <1>1 DEF StoreTypes
  <2> QED BY <1>1, <1>6, <2>1 DEF StoreTypes
<1>8. OneRuns'
  BY <1>1, <1>5, <1>6 DEF OneRuns, Runners
<1>9. RunsFit'
  <2>1. \A u \in Runners : RunFits(runs'[u])
    BY <1>5, <1>6 DEF RunsFit
  <2> QED BY <1>1, <2>1 DEF RunsFit, RunFits, Store!Facts, Store!Observations
<1>10. JobFits'
  BY <1>1, <1>5, <1>6 DEF JobFits, New, Store!Facts
<1>11. LinksFit'
  BY <1>1, <1>5, <1>6 DEF LinksFit, Calm, New, Runners
<1>12. VectorsPaired'
  BY <1>1, <1>5, <1>6 DEF VectorsPaired, Paired, Writes, New
<1>13. GivenOnce'
  <2> SUFFICES ASSUME Calm, NEW i \in Store!Ids
               PROVE  /\ passes'[i] <= 1
                      /\ passes'[i] = 1 =>
                          \/ i \in Store!Facts /\ rows[i].consolidated
                          \/ \E u \in Runners : runs'[u].at \notin {"idle", "batch", "ask"} /\ i \in runs'[u].batch
                      /\ \A u \in Runners : runs'[u].at = "ask" /\ i \in runs'[u].batch =>
                          i \in Store!Facts /\ ~rows[i].consolidated
    BY <1>1 DEF GivenOnce, Calm, Store!Facts
  <2>1. \A u \in Runners : runs'[u].at # "ask"
    BY <1>5, <1>6
  <2>2. passes[i] \in Nat
    BY DEF StoreTypes
  <2>3. CASE i \in runs[w].batch
    <3>1. ~rows[i].consolidated /\ passes[i] <= 1
      BY <1>1, <2>3 DEF GivenOnce
    <3>2. \A u \in Runners : runs[u].at \in {"idle", "ask"}
      BY <1>1, <1>6
    <3>3. passes[i] # 1
      BY <3>1, <3>2 DEF GivenOnce
    <3>4. passes'[i] = 1
      BY <1>1, <2>2, <2>3, <3>1, <3>3
    <3> QED BY <1>5, <1>6, <2>1, <2>3, <3>4
  <2>4. CASE i \notin runs[w].batch
    <3>1. passes'[i] = passes[i]
      BY <1>1, <2>2, <2>4
    <3>2. \A u \in Runners : runs[u].at \in {"idle", "ask"}
      BY <1>1, <1>6
    <3> QED BY <2>1, <3>1, <3>2 DEF GivenOnce
  <2> QED BY <2>3, <2>4
<1>14. Store!SourcesAreFacts'
  BY <1>1 DEF Store!SourcesAreFacts, Store!Facts, Store!Observations
<1> QED BY <1>7, <1>8, <1>9, <1>10, <1>11, <1>12, <1>13, <1>14

\* The vector of a row is written, or deleted with it: the run goes on to mark its batch.
LEMMA VectorDone ==
    ASSUME StoreInv, NEW w \in Runners, Store!ActionDone(w, "mark"),
           runs[w].at \in {"createVector", "updateVector", "deleteVector"},
           vectors' \subseteq Store!Vector, \A v \in vectors' : v.id <= issued,
           mishaps' = mishaps \/ (mishaps < MaxMishaps /\ mishaps' = mishaps + 1),
           mishaps' = 0 =>
             /\ \A v \in vectors' : v.id \in DOMAIN rows /\ v.text = rows[v.id].text
             /\ \A i \in DOMAIN rows :
                  \/ \E v \in vectors' : v.id = i
                  \/ job.at = "index" /\ i \in New,
           UNCHANGED <<rows, issued, queue, job, holder, passes, raced, jobs, commands>>
    PROVE  StoreInv'
<1> USE DEF StoreInv
<1>1. PICK r : r = [Store!NoRun EXCEPT !.at = "mark", !.batch = runs[w].batch]
  OBVIOUS
<1>2. runs[w] \in RunStates
  BY DEF StoreTypes
<1>3. /\ r \in RunStates /\ r.at = "mark" /\ r.batch = runs[w].batch
      /\ r.create = {} /\ r.updateOf = {} /\ r.update = 0
  BY <1>1, <1>2 DEF Store!NoRun, RunStates, Store!RunSteps, Store!None
<1>4. runs' = [runs EXCEPT ![w] = r]
  BY <1>1 DEF Store!ActionDone
<1>5. /\ runs' \in [Runners -> RunStates] /\ runs'[w] = r
      /\ \A u \in Runners : u # w => runs'[u] = runs[u] /\ runs[u].at = "idle"
  BY <1>3, <1>4, RunTurns
<1>6. mishaps' \in 0..MaxMishaps /\ (mishaps' = 0 => mishaps = 0)
  <2>1. mishaps \in 0..MaxMishaps /\ MaxMishaps \in Nat
    BY StoreAssumption DEF StoreTypes
  <2> QED BY <2>1
<1>7. StoreTypes'
  BY <1>5, <1>6 DEF StoreTypes
<1>8. OneRuns'
  BY <1>3, <1>5 DEF OneRuns, Runners
<1>9. RunsFit'
  <2>1. RunFits(r)
    BY <1>3 DEF RunsFit, RunFits
  <2>2. \A u \in Runners : RunFits(runs'[u])
    BY <1>5, <2>1 DEF RunsFit
  <2> QED BY <2>2 DEF RunsFit, RunFits, Store!Facts, Store!Observations
<1>10. JobFits'
  BY <1>3, <1>5 DEF JobFits, New, Store!Facts
<1>11. LinksFit'
  <2>1. Calm' => Calm
    BY <1>6 DEF Calm
  <2> QED BY <1>3, <1>5, <2>1 DEF LinksFit, New, Runners
<1>12. VectorsPaired'
  BY DEF VectorsPaired, Paired, New
<1>13. GivenOnce'
  <2>1. Calm' => Calm
    BY <1>6 DEF Calm
  <2> SUFFICES ASSUME Calm, NEW i \in Store!Ids
               PROVE  /\ passes[i] <= 1
                      /\ passes[i] = 1 =>
                          \/ i \in Store!Facts /\ rows[i].consolidated
                          \/ \E u \in Runners : runs'[u].at \notin {"idle", "batch", "ask"} /\ i \in runs'[u].batch
                      /\ \A u \in Runners : runs'[u].at = "ask" /\ i \in runs'[u].batch =>
                          i \in Store!Facts /\ ~rows[i].consolidated
    BY <2>1 DEF GivenOnce, Calm, Store!Facts
  <2>2. \A u \in Runners : runs'[u].at # "ask"
    BY <1>3, <1>5
  <2>3. \A u \in Runners : runs[u].at \notin {"idle", "batch", "ask"} /\ i \in runs[u].batch =>
            runs'[u].at \notin {"idle", "batch", "ask"} /\ i \in runs'[u].batch
    BY <1>3, <1>5
  <2> QED BY <2>2, <2>3 DEF GivenOnce
<1>14. Store!SourcesAreFacts'
  BY DEF Store!SourcesAreFacts, Store!Facts, Store!Observations
<1> QED BY <1>7, <1>8, <1>9, <1>10, <1>11, <1>12, <1>13, <1>14

LEMMA CreateVectorStep == ASSUME StoreInv, NEW w \in Runners, Store!CreateVector(w) PROVE StoreInv'
<1> USE StoreAssumption DEF StoreInv
<1>1. PICK vec : vec = Store!VectorOf(runs[w].made, runs[w].text, rows[runs[w].made].origin)
  OBVIOUS
<1>2. /\ runs[w].at = "createVector" /\ Store!ActionDone(w, "mark")
      /\ UNCHANGED <<rows, issued, queue, job, holder, passes, raced, jobs, commands>>
      /\ \/ vectors' = vectors \cup {vec} /\ mishaps' = mishaps
         \/ vectors' = vectors /\ mishaps < MaxMishaps /\ mishaps' = mishaps + 1
  BY <1>1 DEF Store!CreateVector, Store!counters, Store!Mishap
<1>3. runs[w].made \in DOMAIN rows /\ rows[runs[w].made].text = runs[w].text
  BY <1>2 DEF RunsFit, RunFits, Store!Observations
<1>4. /\ vec \in Store!Vector /\ vec.id = runs[w].made /\ vec.id <= issued
      /\ vec.text = rows[runs[w].made].text
  <2>1. rows[runs[w].made] \in Store!Row /\ runs[w].made \in 1..issued /\ runs[w].made \in Store!Ids
    BY <1>3 DEF StoreTypes, Store!Ids
  <2> QED BY <1>1, <1>3, <2>1 DEF Store!VectorOf, Store!Vector, Store!Row
<1>5. vectors' \subseteq Store!Vector /\ \A v \in vectors' : v.id <= issued
  BY <1>2, <1>4 DEF StoreTypes
<1>6. ASSUME mishaps' = 0
      PROVE  /\ \A v \in vectors' : v.id \in DOMAIN rows /\ v.text = rows[v.id].text
             /\ \A i \in DOMAIN rows :
                  (\E v \in vectors' : v.id = i) \/ (job.at = "index" /\ i \in New)
  <2>1. mishaps = 0 /\ vectors' = vectors \cup {vec}
    BY <1>2, <1>6 DEF StoreTypes
  <2>2. \A u \in Runners : runs[u].at \in {"idle", "createVector"} /\ (u # w => runs[u].at = "idle")
    BY <1>2 DEF OneRuns
  <2>3. Paired
    BY <2>1 DEF VectorsPaired
  <2>4. \A v \in vectors : v.id \in DOMAIN rows /\ v.text = rows[v.id].text
    BY <2>2, <2>3 DEF Paired, Writes
  <2>5. \A i \in DOMAIN rows : (\E v \in vectors : v.id = i) \/ (job.at = "index" /\ i \in New) \/ i = vec.id
    BY <1>4, <2>2, <2>3 DEF Paired, Writes
  <2> QED BY <1>3, <1>4, <2>1, <2>4, <2>5
<1> QED BY <1>2, <1>5, <1>6, VectorDone

LEMMA UpdateVectorStep == ASSUME StoreInv, NEW w \in Runners, Store!UpdateVector(w) PROVE StoreInv'
<1> USE StoreAssumption DEF StoreInv
<1>1. PICK vec : vec = Store!VectorOf(runs[w].update, runs[w].text, "today")
  OBVIOUS
<1>2. /\ runs[w].at = "updateVector" /\ Store!ActionDone(w, "mark")
      /\ UNCHANGED <<rows, issued, queue, job, holder, passes, raced, jobs, commands>>
      /\ \/ vectors' = Store!Without(runs[w].update) \cup {vec} /\ mishaps' = mishaps
         \/ /\ vectors' \in {vectors, Store!Without(runs[w].update)}
            /\ mishaps < MaxMishaps /\ mishaps' = mishaps + 1
  BY <1>1 DEF Store!UpdateVector, Store!VectorReplaced, Store!counters, Store!Mishap
<1>3. runs[w].update \in DOMAIN rows /\ rows[runs[w].update].text = runs[w].text
  BY <1>2 DEF RunsFit, RunFits, Store!Observations
<1>4. /\ vec \in Store!Vector /\ vec.id = runs[w].update /\ vec.id <= issued
      /\ vec.text = rows[runs[w].update].text
  <2>1. rows[runs[w].update] \in Store!Row /\ runs[w].update \in 1..issued /\ runs[w].update \in Store!Ids
    BY <1>3 DEF StoreTypes, Store!Ids
  <2> QED BY <1>1, <1>3, <2>1 DEF Store!VectorOf, Store!Vector, Store!Row, Store!Origins
<1>5. Store!Without(runs[w].update) = {v \in vectors : v.id # runs[w].update}
  BY DEF Store!Without
<1>6. vectors' \subseteq Store!Vector /\ \A v \in vectors' : v.id <= issued
  <2>1. \A v \in vectors' : v \in vectors \/ v = vec
    BY <1>2, <1>5
  <2> QED BY <1>4, <2>1 DEF StoreTypes
<1>7. ASSUME mishaps' = 0
      PROVE  /\ \A v \in vectors' : v.id \in DOMAIN rows /\ v.text = rows[v.id].text
             /\ \A i \in DOMAIN rows :
                  (\E v \in vectors' : v.id = i) \/ (job.at = "index" /\ i \in New)
  <2>1. mishaps = 0 /\ vectors' = {v \in vectors : v.id # runs[w].update} \cup {vec}
    BY <1>2, <1>5, <1>7 DEF StoreTypes
  <2>2. \A u \in Runners : runs[u].at \in {"idle", "updateVector"} /\ (u # w => runs[u].at = "idle")
    BY <1>2 DEF OneRuns
  <2>3. Paired
    BY <2>1 DEF VectorsPaired
  <2>4. \A v \in vectors : v.id \in DOMAIN rows /\ (v.id # runs[w].update => v.text = rows[v.id].text)
    BY <2>2, <2>3 DEF Paired, Writes
  <2>5. \A i \in DOMAIN rows : (\E v \in vectors : v.id = i) \/ (job.at = "index" /\ i \in New)
    BY <2>2, <2>3 DEF Paired, Writes
  <2> QED BY <1>3, <1>4, <2>1, <2>4, <2>5
<1> QED BY <1>2, <1>6, <1>7, VectorDone

LEMMA DeleteVectorStep == ASSUME StoreInv, NEW w \in Runners, Store!DeleteVector(w) PROVE StoreInv'
<1> USE StoreAssumption DEF StoreInv
<1>1. /\ runs[w].at = "deleteVector" /\ Store!ActionDone(w, "mark")
      /\ UNCHANGED <<rows, issued, queue, job, holder, passes, raced, jobs, commands>>
      /\ \/ vectors' = {v \in vectors : v.id # runs[w].delete} /\ mishaps' = mishaps
         \/ vectors' = vectors /\ mishaps < MaxMishaps /\ mishaps' = mishaps + 1
  BY DEF Store!DeleteVector, Store!Without, Store!counters, Store!Mishap
<1>2. vectors' \subseteq Store!Vector /\ \A v \in vectors' : v.id <= issued
  BY <1>1 DEF StoreTypes
<1>3. ASSUME mishaps' = 0
      PROVE  /\ \A v \in vectors' : v.id \in DOMAIN rows /\ v.text = rows[v.id].text
             /\ \A i \in DOMAIN rows :
                  (\E v \in vectors' : v.id = i) \/ (job.at = "index" /\ i \in New)
  <2>1. mishaps = 0 /\ vectors' = {v \in vectors : v.id # runs[w].delete}
    BY <1>1, <1>3 DEF StoreTypes
  <2>2. \A u \in Runners : runs[u].at \in {"idle", "deleteVector"} /\ (u # w => runs[u].at = "idle")
    BY <1>1 DEF OneRuns
  <2>3. Paired
    BY <2>1 DEF VectorsPaired
  <2>4. \A v \in vectors' : v.id \in DOMAIN rows /\ v.text = rows[v.id].text
    BY <2>1, <2>2, <2>3 DEF Paired, Writes
  <2>5. \A i \in DOMAIN rows : (\E v \in vectors : v.id = i) \/ (job.at = "index" /\ i \in New)
    BY <2>2, <2>3 DEF Paired, Writes
  <2>6. runs[w].delete \notin DOMAIN rows
    BY <1>1 DEF RunsFit, RunFits
  <2> QED BY <2>1, <2>4, <2>5, <2>6
<1> QED BY <1>1, <1>2, <1>3, VectorDone

\* Only a lock that something went wrong before has left keeps a run from writing.
LEMMA Locked ==
    ASSUME StoreInv, NEW c \in Connections, ~Store!CanWrite(c)
    PROVE  ~Calm
BY DEF StoreInv, LinksFit, Store!CanWrite, Store!None

LEMMA MarkStep == ASSUME StoreInv, NEW w \in Runners, Store!Mark(w) PROVE StoreInv'
<1> USE StoreAssumption DEF StoreInv
<1>1. PICK r : r = [Store!NoRun EXCEPT !.at = "batch"]
  OBVIOUS
<1>2. PICK c \in Connections :
      /\ runs[w].at = "mark"
      /\ \/ /\ holder' = 0 /\ job' = job /\ runs' = [runs EXCEPT ![w] = r]
            /\ rows' = [i \in DOMAIN rows |->
                         IF i \in runs[w].batch THEN [rows[i] EXCEPT !.consolidated = TRUE]
                         ELSE rows[i]]
         \/ ~Store!CanWrite(c) /\ Store!RunEnds(w) /\ UNCHANGED <<rows, holder>>
      /\ UNCHANGED <<vectors, issued, queue, passes, raced, jobs, commands, mishaps>>
  BY <1>1 DEF Store!Mark, Store!counters, Store!None
<1>3. CASE ~Store!CanWrite(c) /\ Store!RunEnds(w) /\ UNCHANGED <<rows, holder>>
  BY <1>2, <1>3, Locked, RunOver
<1>4. CASE /\ holder' = 0 /\ job' = job /\ runs' = [runs EXCEPT ![w] = r]
           /\ rows' = [i \in DOMAIN rows |->
                         IF i \in runs[w].batch THEN [rows[i] EXCEPT !.consolidated = TRUE]
                         ELSE rows[i]]
  <2>1. /\ r \in RunStates /\ r.at = "batch" /\ r.batch = {}
        /\ r.create = {} /\ r.updateOf = {} /\ r.update = 0
    BY <1>1 DEF Store!NoRun, RunStates, Store!RunSteps, Store!None
  <2>2. /\ runs' \in [Runners -> RunStates] /\ runs'[w] = r
        /\ \A u \in Runners : u # w => runs'[u] = runs[u] /\ runs[u].at = "idle"
    BY <1>2, <1>4, <2>1, RunTurns
  <2>3. /\ DOMAIN rows' = DOMAIN rows
        /\ \A i \in DOMAIN rows : /\ rows'[i] \in Store!Row /\ rows'[i].text = rows[i].text
                                  /\ rows'[i].observation = rows[i].observation
                                  /\ rows'[i].sources = rows[i].sources
                                  /\ rows'[i].consolidated = (rows[i].consolidated \/ i \in runs[w].batch)
    <3>1. \A i \in DOMAIN rows : rows[i] \in Store!Row
      BY DEF StoreTypes
    <3> QED BY <1>4, <3>1 DEF Store!Row
  <2>4. Store!Facts' = Store!Facts /\ Store!Observations' = Store!Observations
    BY <2>3 DEF Store!Facts, Store!Observations
  <2>5. StoreTypes'
    <3>1. holder' \in {0} \cup Connections
      BY <1>4
    <3> QED BY <1>2, <1>4, <2>2, <2>3, <3>1 DEF StoreTypes
  <2>6. OneRuns'
    BY <1>2, <1>4, <2>1, <2>2 DEF OneRuns, Runners
  <2>7. RunsFit'
    <3>1. \A u \in Runners : RunFits(runs'[u])
      BY <2>1, <2>2 DEF RunsFit, RunFits
    <3>2. \A i \in Store!Observations : rows'[i].text = rows[i].text
      BY <2>3 DEF Store!Observations
    <3> QED BY <1>2, <2>3, <2>4, <3>1, <3>2 DEF RunsFit, RunFits
  <2>8. JobFits'
    <3>1. \A u \in Runners : runs'[u].at = "deleteVector" => runs'[u] = runs[u]
      BY <2>1, <2>2
    <3>2. New' = New
      BY <1>4 DEF New
    <3>3. job.at = "index" => \A f \in job.facts : rows'[f.id].text = f.text
      BY <2>3 DEF JobFits, New, Store!Facts
    <3> QED BY <1>2, <1>4, <2>3, <2>4, <3>1, <3>2, <3>3 DEF JobFits
  <2>9. LinksFit'
    <3>1. runs'["command"].at = "deleteVector" => runs["command"].at = "deleteVector"
      BY <2>1, <2>2 DEF Runners
    <3> QED BY <1>2, <1>4, <2>3, <3>1 DEF LinksFit, Calm, New
  <2>10. VectorsPaired'
    <3> SUFFICES ASSUME mishaps = 0 PROVE Paired'
      BY <1>2 DEF VectorsPaired
    <3>1. Paired
      BY DEF VectorsPaired
    <3>2. \A u \in Runners : runs[u].at \in {"idle", "mark"}
      BY <1>2, <2>2
    <3> QED BY <1>2, <1>4, <2>3, <3>1, <3>2 DEF Paired, Writes, New
  <2>11. GivenOnce'
    <3> SUFFICES ASSUME Calm, NEW i \in Store!Ids
                 PROVE  /\ passes[i] <= 1
                        /\ passes[i] = 1 => i \in Store!Facts /\ rows'[i].consolidated
                        /\ \A u \in Runners : runs'[u].at # "ask"
      BY <1>2, <2>4 DEF GivenOnce, Calm
    <3>1. \A u \in Runners : runs'[u].at # "ask"
      BY <2>1, <2>2
    <3>2. runs[w].batch \subseteq Store!Facts
      BY DEF RunsFit, RunFits
    <3>3. passes[i] = 1 => i \in Store!Facts /\ (rows[i].consolidated \/ i \in runs[w].batch)
      BY <1>2, <2>2, <3>2 DEF GivenOnce
    <3>4. i \in Store!Facts => i \in DOMAIN rows
      BY DEF Store!Facts
    <3> QED BY <2>3, <3>1, <3>3, <3>4 DEF GivenOnce
  <2>12. Store!SourcesAreFacts'
    BY <2>3, <2>4 DEF Store!SourcesAreFacts, Store!Observations
  <2> QED BY <2>5, <2>6, <2>7, <2>8, <2>9, <2>10, <2>11, <2>12
<1> QED BY <1>2, <1>3, <1>4

\* What a merged row is dated by.
LEMMA LatestIs == \A origins \in SUBSET Store!Origins : Store!Latest(origins) \in Store!Origins
BY DEF Store!Latest, Store!Origins

LEMMA OriginsOf ==
    ASSUME StoreInv, NEW set \in SUBSET DOMAIN rows
    PROVE  {rows[i].origin : i \in set} \subseteq Store!Origins
BY DEF StoreInv, StoreTypes, Store!Row

LEMMA CreateStep == ASSUME StoreInv, NEW w \in Runners, Store!Create(w) PROVE StoreInv'
<1> USE StoreAssumption DEF StoreInv
<1>1. PICK origin : origin = Store!Latest({rows[k].origin : k \in runs[w].create \cap DOMAIN rows})
  OBVIOUS
<1>2. /\ runs[w].at = "create"
      /\ UNCHANGED <<vectors, queue, passes, raced, jobs, commands, mishaps>>
      /\ \/ runs' = [runs EXCEPT ![w].at = "update"] /\ UNCHANGED <<rows, issued, job, holder>>
         \/ \E c \in Connections :
              ~Store!CanWrite(c) /\ Store!RunEnds(w) /\ UNCHANGED <<rows, issued, holder>>
         \/ /\ runs[w].create # {} /\ issued < MaxFacts /\ issued' = issued + 1
            /\ holder' = 0 /\ job' = job
            /\ rows' = [i \in DOMAIN rows \cup {issued + 1} |->
                 IF i \in DOMAIN rows THEN rows[i]
                 ELSE [text |-> runs[w].text, sources |-> runs[w].create,
                       origin |-> origin, observation |-> TRUE, consolidated |-> FALSE]]
            /\ runs' = [runs EXCEPT ![w].at = "createVector", ![w].made = issued + 1]
  BY <1>1 DEF Store!Create, Store!RunNext, Store!counters, Store!None
<1>3. runs[w] \in RunStates /\ RunFits(runs[w])
  BY DEF StoreTypes, RunsFit
<1>4. CASE runs' = [runs EXCEPT ![w].at = "update"] /\ UNCHANGED <<rows, issued, job, holder>>
  <2>1. PICK r : r = [runs[w] EXCEPT !.at = "update"]
    OBVIOUS
  <2>2. /\ r \in RunStates /\ r.at = "update" /\ r.batch = runs[w].batch
        /\ r.create = runs[w].create /\ r.updateOf = runs[w].updateOf /\ r.update = runs[w].update
        /\ r.text = runs[w].text
    BY <1>3, <2>1 DEF RunStates, Store!RunSteps
  <2>3. runs' = [runs EXCEPT ![w] = r]
    BY <1>4, <2>1 DEF StoreTypes
  <2>4. RunFits(r)
    BY <1>2, <1>3, <2>2 DEF RunFits
  <2>5. /\ runs[w].at \in {"batch", "create", "update", "delete"} /\ ~(runs[w].at = "batch")
        /\ UNCHANGED <<rows, vectors, issued, queue, job, holder, passes, raced, jobs, commands, mishaps>>
    BY <1>2, <1>4
  <2>6. r.at \in {"ask", "update", "delete", "mark"} /\ ~(r.at = "ask")
    BY <2>2
  <2> QED BY <2>2, <2>3, <2>4, <2>5, <2>6, RunGoes
<1>5. ASSUME NEW c \in Connections, ~Store!CanWrite(c), Store!RunEnds(w), UNCHANGED <<rows, issued, holder>>
      PROVE  StoreInv'
  BY <1>2, <1>5, Locked, RunOver
<1>6. CASE /\ runs[w].create # {} /\ issued < MaxFacts /\ issued' = issued + 1
           /\ holder' = 0 /\ job' = job
           /\ rows' = [i \in DOMAIN rows \cup {issued + 1} |->
                 IF i \in DOMAIN rows THEN rows[i]
                 ELSE [text |-> runs[w].text, sources |-> runs[w].create,
                       origin |-> origin, observation |-> TRUE, consolidated |-> FALSE]]
           /\ runs' = [runs EXCEPT ![w].at = "createVector", ![w].made = issued + 1]
  <2>0. /\ issued \in Nat /\ issued + 1 \in 1..MaxFacts /\ issued + 1 \in Store!Ids
        /\ issued + 1 \notin DOMAIN rows /\ issued + 1 \notin New
        /\ DOMAIN rows \subseteq 1..issued /\ \A i \in 1..issued : i \in 1..issued'
    BY <1>6 DEF StoreTypes, JobFits, Store!Ids
  <2>1. PICK r : r = [runs[w] EXCEPT !.at = "createVector", !.made = issued + 1]
    OBVIOUS
  <2>2. /\ r \in RunStates /\ r.at = "createVector" /\ r.batch = runs[w].batch
        /\ r.create = runs[w].create /\ r.updateOf = runs[w].updateOf /\ r.update = runs[w].update
        /\ r.text = runs[w].text /\ r.made = issued + 1
    BY <1>3, <2>0, <2>1 DEF RunStates, Store!RunSteps
  <2>3. runs' = [runs EXCEPT ![w] = r]
    BY <1>6, <2>1 DEF StoreTypes
  <2>4. /\ runs' \in [Runners -> RunStates] /\ runs'[w] = r
        /\ \A u \in Runners : u # w => runs'[u] = runs[u] /\ runs[u].at = "idle"
    BY <1>2, <2>2, <2>3, RunTurns
  <2>5. /\ DOMAIN rows' = DOMAIN rows \cup {issued + 1}
        /\ \A i \in DOMAIN rows : rows'[i] = rows[i]
        /\ rows'[issued + 1] = [text |-> runs[w].text, sources |-> runs[w].create,
                       origin |-> origin, observation |-> TRUE, consolidated |-> FALSE]
    BY <1>6, <2>0
  <2>6. rows'[issued + 1] \in Store!Row
    <3>1. runs[w].text \in FactTexts /\ runs[w].create \subseteq Store!Ids
      BY <1>3, <1>6 DEF RunFits, RunStates
    <3>2. origin \in Store!Origins
      BY <1>1, LatestIs, OriginsOf
    <3> QED BY <2>5, <3>1, <3>2 DEF Store!Row
  <2>7. /\ Store!Facts' = Store!Facts
        /\ Store!Observations' = Store!Observations \cup {issued + 1}
    BY <2>0, <2>5 DEF Store!Facts, Store!Observations
  <2>8. StoreTypes'
    <3>1. DOMAIN rows' \subseteq 1..issued'
      BY <1>6, <2>0, <2>5
    <3>2. \A i \in DOMAIN rows' : rows'[i] \in Store!Row
      BY <2>5, <2>6 DEF StoreTypes
    <3>3. \A v \in vectors : v.id <= issued'
      BY <1>6, <2>0 DEF StoreTypes, Store!Vector, Store!Ids
    <3>4. issued' \in 0..MaxFacts /\ holder' \in {0} \cup Connections
      BY <1>6, <2>0
    <3> QED BY <1>2, <1>6, <2>4, <3>1, <3>2, <3>3, <3>4 DEF StoreTypes
  <2>9. OneRuns'
    BY <1>2, <1>6, <2>2, <2>4 DEF OneRuns, Runners
  <2>10. RunsFit'
    <3>1. \A u \in Runners : RunFits(runs[u])
      BY DEF RunsFit
    <3>2. \A u \in Runners : runs'[u].at \in {"idle", "createVector"} /\ (runs'[u].at = "createVector" => u = w)
      BY <2>2, <2>4
    <3>3. \A u \in Runners : /\ runs'[u].batch = runs[u].batch /\ runs'[u].create = runs[u].create
                             /\ runs'[u].updateOf = runs[u].updateOf /\ runs'[u].text = runs[u].text
                             /\ runs'[u].update = runs[u].update
      BY <2>2, <2>4
    <3>4. rows'[issued + 1].text = runs[w].text /\ issued + 1 \in Store!Observations'
      BY <2>5, <2>7
    <3> QED BY <2>2, <2>4, <2>7, <3>1, <3>2, <3>3, <3>4 DEF RunsFit, RunFits
  <2>11. JobFits'
    <3>1. \A u \in Runners : runs'[u].at # "deleteVector"
      BY <2>2, <2>4
    <3>2. New' = New /\ New \subseteq 1..issued'
      BY <1>6, <2>0 DEF New, JobFits
    <3>3. job.at = "index" => \A f \in job.facts : rows'[f.id].text = f.text
      BY <2>5 DEF JobFits, New, Store!Facts
    <3> QED BY <1>6, <2>0, <2>5, <2>7, <3>1, <3>2, <3>3 DEF JobFits
  <2>12. LinksFit'
    <3>1. runs'["command"].at # "deleteVector"
      BY <2>2, <2>4 DEF Runners
    <3> QED BY <1>2, <1>6, <2>5, <3>1 DEF LinksFit, Calm, New
  <2>13. VectorsPaired'
    <3> SUFFICES ASSUME mishaps = 0 PROVE Paired'
      BY <1>2 DEF VectorsPaired
    <3>1. Paired
      BY DEF VectorsPaired
    <3>2. \A u \in Runners : runs[u].at \in {"idle", "create"}
      BY <1>2, <2>4
    <3>3. \A v \in vectors : v.id \in DOMAIN rows /\ v.text = rows[v.id].text
      BY <3>1, <3>2 DEF Paired, Writes
    <3>4. \A i \in DOMAIN rows : (\E v \in vectors : v.id = i) \/ (job.at = "index" /\ i \in New)
      BY <3>1, <3>2 DEF Paired, Writes
    <3>6. \A i \in DOMAIN rows' :
            \/ \E v \in vectors' : v.id = i
            \/ job'.at = "index" /\ i \in New'
            \/ runs'[w].at = "createVector" /\ runs'[w]["made"] = i
      BY <1>2, <1>6, <2>2, <2>4, <2>5, <3>4 DEF New
    <3>7. \A v \in vectors' : v.id \in DOMAIN rows' /\ v.text = rows'[v.id].text
      BY <1>2, <2>5, <3>3
    <3> QED BY <3>6, <3>7 DEF Paired, Writes
  <2>14. GivenOnce'
    <3>1. \A i \in Store!Facts : rows'[i] = rows[i]
      BY <2>5 DEF Store!Facts
    <3>2. \A u \in Runners : runs'[u].at # "ask"
      BY <2>2, <2>4
    <3>3. \A u \in Runners, i \in Store!Ids : runs[u].at \notin {"idle", "batch", "ask"} /\ i \in runs[u].batch =>
            runs'[u].at \notin {"idle", "batch", "ask"} /\ i \in runs'[u].batch
      BY <2>2, <2>4
    <3> QED BY <1>2, <2>7, <3>1, <3>2, <3>3 DEF GivenOnce, Calm
  <2>15. Store!SourcesAreFacts'
    <3>1. runs[w].create \subseteq Store!Facts
      BY <1>3 DEF RunFits
    <3>2. \A o \in Store!Observations : rows'[o].sources = rows[o].sources
      BY <2>5 DEF Store!Observations
    <3>3. rows'[issued + 1].sources = runs[w].create
      BY <2>5
    <3> QED BY <1>6, <2>7, <3>1, <3>2, <3>3 DEF Store!SourcesAreFacts
  <2> QED BY <2>8, <2>9, <2>10, <2>11, <2>12, <2>13, <2>14, <2>15
<1> QED BY <1>2, <1>4, <1>5, <1>6

LEMMA UpdateStep == ASSUME StoreInv, NEW w \in Runners, Store!Update(w) PROVE StoreInv'
<1> USE StoreAssumption DEF StoreInv
<1>1. PICK o : o = runs[w].update
  OBVIOUS
<1>2. PICK origin : origin = Store!Latest({rows[o].origin} \cup {rows[i].origin : i \in runs[w].updateOf \cap DOMAIN rows})
  OBVIOUS
<1>3. /\ runs[w].at = "update"
      /\ UNCHANGED <<vectors, issued, queue, passes, raced, jobs, commands, mishaps>>
      /\ \/ runs' = [runs EXCEPT ![w].at = "delete"] /\ UNCHANGED <<rows, job, holder>>
         \/ \E c \in Connections :
              ~Store!CanWrite(c) /\ Store!RunEnds(w) /\ UNCHANGED <<rows, holder>>
         \/ /\ o \in Store!Observations /\ holder' = 0 /\ job' = job
            /\ rows' = [rows EXCEPT ![o].text = runs[w].text, ![o].sources = @ \cup runs[w].updateOf,
                                    ![o].origin = Store!Latest({@} \cup {rows[i].origin : i \in
                                                     runs[w].updateOf \cap DOMAIN rows})]
            /\ runs' = [runs EXCEPT ![w].at = "updateVector"]
  BY <1>1 DEF Store!Update, Store!RunNext, Store!counters, Store!None
<1>4. runs[w] \in RunStates /\ RunFits(runs[w])
  BY DEF StoreTypes, RunsFit
<1>5. CASE runs' = [runs EXCEPT ![w].at = "delete"] /\ UNCHANGED <<rows, job, holder>>
  <2>1. PICK r : r = [runs[w] EXCEPT !.at = "delete"]
    OBVIOUS
  <2>2. /\ r \in RunStates /\ r.at = "delete" /\ r.batch = runs[w].batch
        /\ r.create = runs[w].create /\ r.updateOf = runs[w].updateOf /\ r.update = runs[w].update
        /\ r.text = runs[w].text
    BY <1>4, <2>1 DEF RunStates, Store!RunSteps
  <2>3. runs' = [runs EXCEPT ![w] = r]
    BY <1>5, <2>1 DEF StoreTypes
  <2>4. RunFits(r)
    BY <1>4, <2>2 DEF RunFits
  <2>5. /\ runs[w].at \in {"batch", "create", "update", "delete"} /\ ~(runs[w].at = "batch")
        /\ UNCHANGED <<rows, vectors, issued, queue, job, holder, passes, raced, jobs, commands, mishaps>>
    BY <1>3, <1>5
  <2>6. r.at \in {"ask", "update", "delete", "mark"} /\ ~(r.at = "ask")
    BY <2>2
  <2> QED BY <2>2, <2>3, <2>4, <2>5, <2>6, RunGoes
<1>6. ASSUME NEW c \in Connections, ~Store!CanWrite(c), Store!RunEnds(w), UNCHANGED <<rows, holder>>
      PROVE  StoreInv'
  BY <1>3, <1>6, Locked, RunOver
<1>7. CASE /\ o \in Store!Observations /\ holder' = 0 /\ job' = job
           /\ rows' = [rows EXCEPT ![o].text = runs[w].text, ![o].sources = @ \cup runs[w].updateOf,
                                    ![o].origin = Store!Latest({@} \cup {rows[i].origin : i \in
                                                     runs[w].updateOf \cap DOMAIN rows})]
           /\ runs' = [runs EXCEPT ![w].at = "updateVector"]
  <2>0. o \in DOMAIN rows /\ rows[o] \in Store!Row /\ rows[o].observation /\ o # 0
    BY <1>7 DEF Store!Observations, StoreTypes
  <2>1. PICK r : r = [runs[w] EXCEPT !.at = "updateVector"]
    OBVIOUS
  <2>2. /\ r \in RunStates /\ r.at = "updateVector" /\ r.batch = runs[w].batch
        /\ r.create = runs[w].create /\ r.updateOf = runs[w].updateOf /\ r.update = o
        /\ r.text = runs[w].text
    BY <1>1, <1>4, <2>1 DEF RunStates, Store!RunSteps
  <2>3. runs' = [runs EXCEPT ![w] = r]
    BY <1>7, <2>1 DEF StoreTypes
  <2>4. /\ runs' \in [Runners -> RunStates] /\ runs'[w] = r
        /\ \A u \in Runners : u # w => runs'[u] = runs[u] /\ runs[u].at = "idle"
    BY <1>3, <2>2, <2>3, RunTurns
  <2>5. /\ DOMAIN rows' = DOMAIN rows
        /\ \A i \in DOMAIN rows \ {o} : rows'[i] = rows[i]
        /\ rows'[o] = [rows[o] EXCEPT !.text = runs[w].text, !.sources = @ \cup runs[w].updateOf,
                                      !.origin = origin]
    BY <1>2, <1>7, <2>0
  <2>6. /\ rows'[o] \in Store!Row /\ rows'[o].text = runs[w].text /\ rows'[o].observation
        /\ rows'[o].sources = rows[o].sources \cup runs[w].updateOf
    <3>1. runs[w].text \in FactTexts /\ runs[w].updateOf \subseteq Store!Ids
      BY <1>1, <1>4, <2>0 DEF RunFits, RunStates
    <3>2. {rows[o].origin} \cup {rows[i].origin : i \in runs[w].updateOf \cap DOMAIN rows} \subseteq Store!Origins
      BY <2>0, OriginsOf DEF Store!Row
    <3>3. origin \in Store!Origins
      BY <1>2, <3>2, LatestIs
    <3> QED BY <2>0, <2>5, <3>1, <3>3 DEF Store!Row
  <2>7. Store!Facts' = Store!Facts /\ Store!Observations' = Store!Observations
    BY <2>0, <2>5, <2>6 DEF Store!Facts, Store!Observations
  <2>8. StoreTypes'
    <3>1. \A i \in DOMAIN rows' : rows'[i] \in Store!Row
      BY <2>5, <2>6 DEF StoreTypes
    <3>2. holder' \in {0} \cup Connections
      BY <1>7
    <3> QED BY <1>3, <1>7, <2>4, <2>5, <3>1, <3>2 DEF StoreTypes
  <2>9. OneRuns'
    BY <1>3, <1>7, <2>2, <2>4 DEF OneRuns, Runners
  <2>10. RunsFit'
    <3>1. \A u \in Runners : RunFits(runs[u])
      BY DEF RunsFit
    <3>2. \A u \in Runners : runs'[u].at \in {"idle", "updateVector"} /\ (runs'[u].at = "updateVector" => u = w)
      BY <2>2, <2>4
    <3>3. \A u \in Runners : /\ runs'[u].batch = runs[u].batch /\ runs'[u].create = runs[u].create
                             /\ runs'[u].updateOf = runs[u].updateOf /\ runs'[u].text = runs[u].text
                             /\ runs'[u].update = runs[u].update
      BY <1>1, <2>2, <2>4
    <3>4. rows'[o].text = runs[w].text /\ o \in Store!Observations'
      BY <1>7, <2>6, <2>7
    <3> QED BY <2>2, <2>4, <2>7, <3>1, <3>2, <3>3, <3>4 DEF RunsFit, RunFits
  <2>11. JobFits'
    <3>1. \A u \in Runners : runs'[u].at # "deleteVector"
      BY <2>2, <2>4
    <3>2. New' = New
      BY <1>7 DEF New
    <3>3. job.at = "index" => \A f \in job.facts : rows'[f.id].text = f.text
      BY <2>0, <2>5 DEF JobFits, New, Store!Facts
    <3> QED BY <1>3, <1>7, <2>5, <2>7, <3>1, <3>2, <3>3 DEF JobFits
  <2>12. LinksFit'
    <3>1. runs'["command"].at # "deleteVector"
      BY <2>2, <2>4 DEF Runners
    <3> QED BY <1>3, <1>7, <2>5, <3>1 DEF LinksFit, Calm, New
  <2>13. VectorsPaired'
    <3> SUFFICES ASSUME mishaps = 0 PROVE Paired'
      BY <1>3 DEF VectorsPaired
    <3>1. Paired
      BY DEF VectorsPaired
    <3>2. \A u \in Runners : runs[u].at \in {"idle", "update"}
      BY <1>3, <2>4
    <3>3. \A v \in vectors : v.id \in DOMAIN rows /\ v.text = rows[v.id].text
      BY <3>1, <3>2 DEF Paired, Writes
    <3>4. \A i \in DOMAIN rows : (\E v \in vectors : v.id = i) \/ (job.at = "index" /\ i \in New)
      BY <3>1, <3>2 DEF Paired, Writes
    <3>5. \A i \in DOMAIN rows' : \/ \E v \in vectors' : v.id = i
                                  \/ job'.at = "index" /\ i \in New'
      BY <1>3, <1>7, <2>5, <3>4 DEF New
    <3>6. \A v \in vectors' : v.id \in DOMAIN rows' /\
            (v.text = rows'[v.id].text \/ (runs'[w].at = "updateVector" /\ runs'[w]["update"] = v.id))
      BY <1>3, <2>2, <2>4, <2>5, <3>3
    <3> QED BY <3>5, <3>6 DEF Paired, Writes
  <2>14. GivenOnce'
    <3>1. \A i \in Store!Facts : rows'[i] = rows[i]
      BY <2>0, <2>5 DEF Store!Facts
    <3>2. \A u \in Runners : runs'[u].at # "ask"
      BY <2>2, <2>4
    <3>3. \A u \in Runners, i \in Store!Ids : runs[u].at \notin {"idle", "batch", "ask"} /\ i \in runs[u].batch =>
            runs'[u].at \notin {"idle", "batch", "ask"} /\ i \in runs'[u].batch
      BY <2>2, <2>4
    <3> QED BY <1>3, <2>7, <3>1, <3>2, <3>3 DEF GivenOnce, Calm
  <2>15. Store!SourcesAreFacts'
    <3>1. runs[w].updateOf \subseteq Store!Facts
      BY <1>4 DEF RunFits
    <3>2. \A i \in Store!Observations \ {o} : rows'[i].sources = rows[i].sources
      BY <2>5 DEF Store!Observations
    <3> QED BY <1>7, <2>6, <2>7, <3>1, <3>2 DEF Store!SourcesAreFacts
  <2> QED BY <2>8, <2>9, <2>10, <2>11, <2>12, <2>13, <2>14, <2>15
<1> QED BY <1>3, <1>5, <1>6, <1>7

LEMMA DeleteStep == ASSUME StoreInv, NEW w \in Runners, Store!Delete(w) PROVE StoreInv'
<1> USE StoreAssumption DEF StoreInv
<1>1. PICK o : o = runs[w].delete
  OBVIOUS
<1>2. /\ runs[w].at = "delete"
      /\ UNCHANGED <<vectors, issued, queue, passes, jobs, commands, mishaps>>
      /\ \/ Store!ActionDone(w, "mark") /\ UNCHANGED <<rows, job, holder, raced>>
         \/ \E c \in Connections :
              ~Store!CanWrite(c) /\ Store!RunEnds(w) /\ UNCHANGED <<rows, holder, raced>>
         \/ /\ o \in Store!Observations /\ holder' = 0 /\ job' = job
            /\ rows' = [i \in DOMAIN rows \ {o} |-> rows[i]]
            /\ raced' = (raced \/ (w = "command" /\ job.at # "idle"))
            /\ runs' = [runs EXCEPT ![w].at = "deleteVector"]
  BY <1>1 DEF Store!Delete, Store!RunNext, Store!counters, Store!None
<1>3. runs[w] \in RunStates /\ RunFits(runs[w])
  BY DEF StoreTypes, RunsFit
<1>4. CASE Store!ActionDone(w, "mark") /\ UNCHANGED <<rows, job, holder, raced>>
  <2>1. PICK r : r = [Store!NoRun EXCEPT !.at = "mark", !.batch = runs[w].batch]
    OBVIOUS
  <2>2. /\ r \in RunStates /\ r.at = "mark" /\ r.batch = runs[w].batch
        /\ r.create = {} /\ r.updateOf = {} /\ r.update = 0
    BY <1>3, <2>1 DEF Store!NoRun, RunStates, Store!RunSteps, Store!None
  <2>3. runs' = [runs EXCEPT ![w] = r]
    BY <1>4, <2>1 DEF Store!ActionDone
  <2>4. RunFits(r)
    BY <1>3, <2>2 DEF RunFits
  <2>5. /\ runs[w].at \in {"batch", "create", "update", "delete"} /\ ~(runs[w].at = "batch")
        /\ UNCHANGED <<rows, vectors, issued, queue, job, holder, passes, raced, jobs, commands, mishaps>>
    BY <1>2, <1>4
  <2>6. r.at \in {"ask", "update", "delete", "mark"} /\ ~(r.at = "ask")
    BY <2>2
  <2> QED BY <2>2, <2>3, <2>4, <2>5, <2>6, RunGoes
<1>5. ASSUME NEW c \in Connections, ~Store!CanWrite(c), Store!RunEnds(w), UNCHANGED <<rows, holder, raced>>
      PROVE  StoreInv'
  BY <1>2, <1>5, Locked, RunOver
<1>6. CASE /\ o \in Store!Observations /\ holder' = 0 /\ job' = job
           /\ rows' = [i \in DOMAIN rows \ {o} |-> rows[i]]
           /\ raced' = (raced \/ (w = "command" /\ job.at # "idle"))
           /\ runs' = [runs EXCEPT ![w].at = "deleteVector"]
  <2>0. o \in DOMAIN rows /\ rows[o].observation /\ o \in 1..issued
    BY <1>6 DEF Store!Observations, StoreTypes
  <2>1. PICK r : r = [runs[w] EXCEPT !.at = "deleteVector"]
    OBVIOUS
  <2>2. /\ r \in RunStates /\ r.at = "deleteVector" /\ r.batch = runs[w].batch
        /\ r.create = runs[w].create /\ r.updateOf = runs[w].updateOf /\ r.update = runs[w].update
        /\ r.text = runs[w].text /\ r.delete = o
    BY <1>1, <1>3, <2>1 DEF RunStates, Store!RunSteps
  <2>3. runs' = [runs EXCEPT ![w] = r]
    BY <1>6, <2>1 DEF StoreTypes
  <2>4. /\ runs' \in [Runners -> RunStates] /\ runs'[w] = r
        /\ \A u \in Runners : u # w => runs'[u] = runs[u] /\ runs[u].at = "idle"
    BY <1>2, <2>2, <2>3, RunTurns
  <2>5. DOMAIN rows' = DOMAIN rows \ {o} /\ \A i \in DOMAIN rows' : rows'[i] = rows[i]
    BY <1>6
  <2>6. Store!Facts' = Store!Facts /\ Store!Observations' = Store!Observations \ {o}
    BY <2>0, <2>5 DEF Store!Facts, Store!Observations
  <2>7. Calm' => Calm /\ job.at \in {"idle", "observe"} /\ (w = "command" => job.at = "idle")
    BY <1>2, <1>6 DEF Calm, OneRuns, Runners
  <2>8. StoreTypes'
    <3>1. DOMAIN rows' \subseteq 1..issued /\ \A i \in DOMAIN rows' : rows'[i] \in Store!Row
      BY <2>5 DEF StoreTypes
    <3>2. holder' \in {0} \cup Connections /\ raced' \in BOOLEAN
      BY <1>6 DEF StoreTypes
    <3> QED BY <1>2, <1>6, <2>4, <3>1, <3>2 DEF StoreTypes
  <2>9. OneRuns'
    BY <1>2, <1>6, <2>2, <2>4 DEF OneRuns, Runners
  <2>10. RunsFit'
    <3>1. \A u \in Runners : RunFits(runs[u])
      BY DEF RunsFit
    <3>2. \A u \in Runners : runs'[u].at \in {"idle", "deleteVector"} /\ (runs'[u].at = "deleteVector" => u = w)
      BY <2>2, <2>4
    <3>3. \A u \in Runners : /\ runs'[u].batch = runs[u].batch /\ runs'[u].create = runs[u].create
                             /\ runs'[u].updateOf = runs[u].updateOf /\ runs'[u].text = runs[u].text
                             /\ runs'[u].update = runs[u].update
      BY <2>2, <2>4
    <3>4. o \in 1..issued' /\ o \notin DOMAIN rows'
      BY <1>2, <2>0, <2>5
    <3> QED BY <2>2, <2>4, <2>6, <3>1, <3>2, <3>3, <3>4 DEF RunsFit, RunFits
  <2>11. JobFits'
    <3>1. \A u \in Runners : runs'[u].at = "deleteVector" => runs'[u].delete = o
      BY <2>2, <2>4
    <3>2. New' = New
      BY <1>6 DEF New
    <3>3. job.at = "index" => \A f \in job.facts : rows'[f.id].text = f.text
      BY <2>0, <2>5 DEF JobFits, New, Store!Facts
    <3>4. job.at \in {"dedup", "store"} => o \notin New /\ New \cap DOMAIN rows' = {}
      BY <2>0, <2>5 DEF JobFits
    <3>5. issued' = issued /\ job' = job
      BY <1>2, <1>6
    <3> QED BY <2>6, <3>1, <3>2, <3>3, <3>4, <3>5 DEF JobFits
  <2>12. LinksFit'
    <3>1. runs'["command"].at = "deleteVector" => w = "command"
      BY <2>2, <2>4 DEF Runners
    <3>2. New' = New
      BY <1>6 DEF New
    <3> QED BY <1>6, <2>7, <3>1, <3>2 DEF LinksFit
  <2>13. VectorsPaired'
    <3> SUFFICES ASSUME mishaps = 0 PROVE Paired'
      BY <1>2 DEF VectorsPaired
    <3>1. Paired
      BY DEF VectorsPaired
    <3>2. \A u \in Runners : runs[u].at \in {"idle", "delete"}
      BY <1>2, <2>4
    <3>3. \A v \in vectors : v.id \in DOMAIN rows /\ v.text = rows[v.id].text
      BY <3>1, <3>2 DEF Paired, Writes
    <3>4. \A i \in DOMAIN rows : (\E v \in vectors : v.id = i) \/ (job.at = "index" /\ i \in New)
      BY <3>1, <3>2 DEF Paired, Writes
    <3>5. \A i \in DOMAIN rows' : \/ \E v \in vectors' : v.id = i
                                  \/ job'.at = "index" /\ i \in New'
      BY <1>2, <1>6, <2>5, <3>4 DEF New
    <3>6. \A v \in vectors' : \/ v.id \in DOMAIN rows' /\ v.text = rows'[v.id].text
                              \/ v.id \notin DOMAIN rows' /\ runs'[w].at = "deleteVector" /\ runs'[w]["delete"] = v.id
      BY <1>2, <2>2, <2>4, <2>5, <3>3
    <3> QED BY <3>5, <3>6 DEF Paired, Writes
  <2>14. GivenOnce'
    <3>1. \A i \in Store!Facts : rows'[i] = rows[i]
      BY <2>0, <2>5 DEF Store!Facts
    <3>2. \A u \in Runners : runs'[u].at # "ask"
      BY <2>2, <2>4
    <3>3. \A u \in Runners, i \in Store!Ids : runs[u].at \notin {"idle", "batch", "ask"} /\ i \in runs[u].batch =>
            runs'[u].at \notin {"idle", "batch", "ask"} /\ i \in runs'[u].batch
      BY <2>2, <2>4
    <3> QED BY <1>2, <2>6, <2>7, <3>1, <3>2, <3>3 DEF GivenOnce
  <2>15. Store!SourcesAreFacts'
    <3>1. \A i \in Store!Observations' : rows'[i].sources = rows[i].sources
      BY <2>5 DEF Store!Observations
    <3> QED BY <2>6, <3>1 DEF Store!SourcesAreFacts
  <2> QED BY <2>8, <2>9, <2>10, <2>11, <2>12, <2>13, <2>14, <2>15
<1> QED BY <1>2, <1>4, <1>5, <1>6

\* The whole specification: a step of another part leaves the store alone.
LEMMA StoreRests == ASSUME StoreInv, UNCHANGED storeVars PROVE StoreInv'
<1>1. UNCHANGED <<rows, vectors, issued, queue, job, runs, holder, passes, raced, jobs, commands, mishaps>>
  BY DEF storeVars
<1> USE <1>1 DEF StoreInv
<1>2. StoreTypes' /\ OneRuns'
  BY DEF StoreTypes, OneRuns
<1>3. RunsFit' /\ JobFits' /\ LinksFit'
  BY DEF RunsFit, RunFits, JobFits, LinksFit, New, Calm, Store!Facts, Store!Observations
<1>4. VectorsPaired' /\ GivenOnce'
  BY DEF VectorsPaired, Paired, Writes, New, GivenOnce, Calm, Store!Facts
<1>5. Store!SourcesAreFacts'
  BY DEF Store!SourcesAreFacts, Store!Facts, Store!Observations
<1> QED BY <1>2, <1>3, <1>4, <1>5

LEMMA StoreStep == ASSUME StoreInv, [Next]_allVars PROVE StoreInv'
<1>1. CASE UNCHANGED storeVars
  BY <1>1, StoreRests
<1>2. CASE Store!Next
  <2>1. Runners = DOMAIN runs
    BY DEF StoreInv, StoreTypes
  <2>2. CASE Store!JobStep
    BY <2>2, ExtractStep, DedupStep, StoreFactsStep, IndexStep, SearchStep, InsertStep, ObserveStep
       DEF Store!JobStep
  <2>3. ASSUME NEW w \in Runners, Store!RunStep(w) PROVE StoreInv'
    BY <2>3, BatchStep, AskStep, CreateStep, CreateVectorStep, UpdateStep, UpdateVectorStep,
       DeleteStep, DeleteVectorStep, MarkStep DEF Store!RunStep
  <2> QED BY <1>2, <2>1, <2>2, <2>3, RetainStep, CommandStep, RestartStep DEF Store!Next
<1>3. Store!Next \/ UNCHANGED storeVars
  BY DEF Next, allVars
<1> QED BY <1>1, <1>2, <1>3

LEMMA StoreInvariant == Spec => []StoreInv
<1>1. Init => StoreInv
  BY StoreStart DEF Init
<1>2. StoreInv /\ [Next]_allVars => StoreInv'
  BY StoreStep
<1> QED BY <1>1, <1>2, PTL DEF Spec, allVars

\* The fact memory at rest: whatever jobs and consolidations have been through, the rows of
\* SQLite and the vectors of LanceDB are of the same facts, each with one text.
THEOREM StoresPaired == Spec => []StoresAgree
<1>1. StoreInv => StoresAgree
  <2> SUFFICES ASSUME StoreInv, Store!AtRest, mishaps = 0
               PROVE  /\ {v.id : v \in vectors} = DOMAIN rows
                      /\ \A i \in DOMAIN rows : {v.text : v \in {u \in vectors : u.id = i}} = {rows[i].text}
    BY DEF StoresAgree, Store!StoresAgree
  <2>1. Paired /\ job.at = "idle" /\ \A w \in Runners : runs[w].at = "idle"
    BY DEF StoreInv, StoreTypes, VectorsPaired, Store!AtRest, Store!LockFree
  <2>2. /\ \A v \in vectors : v.id \in DOMAIN rows /\ v.text = rows[v.id].text
        /\ \A i \in DOMAIN rows : \E v \in vectors : v.id = i
    BY <2>1 DEF Paired, Writes
  <2>3. {v.id : v \in vectors} = DOMAIN rows
    BY <2>2
  <2>4. ASSUME NEW i \in DOMAIN rows PROVE {v.text : v \in {u \in vectors : u.id = i}} = {rows[i].text}
    <3>1. PICK v \in vectors : v.id = i
      BY <2>2
    <3>2. \A u \in {u \in vectors : u.id = i} : u.text = rows[i].text
      BY <2>2
    <3>3. v \in {u \in vectors : u.id = i}
      BY <3>1
    <3> QED BY <3>2, <3>3
  <2> QED BY <2>3, <2>4
<1> QED BY <1>1, StoreInvariant, PTL

\* The accounting of facts: a link never misses the row it points to, no fact is given to
\* the consolidating model twice, and an observation names facts that exist.
THEOREM FactsOnce == Spec => []FactsAccounted
<1>1. StoreInv => FactsAccounted
  <2> SUFFICES ASSUME StoreInv PROVE FactsAccounted
    OBVIOUS
  <2>1. Store!ForeignKeysHold
    BY DEF StoreInv, StoreTypes, LinksFit, Calm, Store!ForeignKeysHold, Store!None
  <2>2. Store!ConsolidatedOnce
    BY DEF StoreInv, GivenOnce, Calm, Store!ConsolidatedOnce
  <2> QED BY <2>1, <2>2 DEF FactsAccounted, StoreInv
<1> QED BY <1>1, StoreInvariant, PTL

-----------------------------------------------------------------------------
(* The names of entities *)

Places == 0..Len(entities)

\* What the tables say a name means.
TablesSay(n) == IF aliases[n] # 0 THEN aliases[n] ELSE Resolver!Exact(n)

NameTypes ==
    /\ entities \in Seq(MCNames) /\ \A i, j \in DOMAIN entities : entities[i] = entities[j] => i = j
    /\ aliases \in [MCNames -> Places] /\ cache \in [MCNames -> Places]
    /\ meaning \in [MCNames -> Places]
    /\ \A f \in DOMAIN batch : batch[f].left \in Seq(MCNames)

\* The cache is ahead of nothing: it has every alias, and what it has the tables say.
CacheFits ==
    /\ batch # <<>> => \A n \in MCNames : aliases[n] # 0 => cache[n] = aliases[n]
    /\ \A n \in MCNames : cache[n] # 0 => cache[n] = TablesSay(n)

NamesFixed == \A n \in MCNames : meaning[n] # 0 => TablesSay(n) = meaning[n]

NameInv == NameTypes /\ CacheFits /\ NamesFixed

\* An entity is found by its name.
LEMMA ExactIs ==
    ASSUME NameTypes, NEW n
    PROVE  \/ Resolver!Exact(n) = 0 /\ \A i \in 1..Len(entities) : entities[i] # n
           \/ Resolver!Exact(n) \in 1..Len(entities) /\ entities[Resolver!Exact(n)] = n
<1>1. PICK same : same = {i \in 1..Len(entities) : entities[i] = n}
  OBVIOUS
<1>2. Resolver!Exact(n) = IF same # {} THEN Resolver!Min(same) ELSE 0
  BY <1>1 DEF Resolver!Exact, Resolver!SelectInSeq
<1>3. CASE same = {}
  BY <1>1, <1>2, <1>3
<1>4. ASSUME NEW k \in same PROVE Resolver!Exact(n) = k
  <2>1. same = {k} /\ k \in Int
    BY <1>1, <1>4 DEF NameTypes
  <2>2. Resolver!Min(same) = k
    BY <2>1 DEF Resolver!Min
  <2> QED BY <1>2, <2>1, <2>2
<1> QED BY <1>1, <1>3, <1>4

LEMMA NameStart == Resolver!Init => NameInv
<1> SUFFICES ASSUME Resolver!Init PROVE NameInv
  OBVIOUS
<1>1. /\ entities = <<>> /\ batch = <<>>
      /\ aliases = [n \in MCNames |-> 0] /\ cache = aliases /\ meaning = aliases
  BY DEF Resolver!Init, Resolver!NoNames, Resolver!None
<1>2. NameTypes
  BY <1>1 DEF NameTypes, Places
<1> QED BY <1>1, <1>2 DEF NameInv, CacheFits, NamesFixed

\* The tables say the same of a name as long as neither changes.
LEMMA SameTables ==
    ASSUME entities' = entities, aliases' = aliases
    PROVE  \A n : TablesSay(n)' = TablesSay(n)
BY DEF TablesSay, Resolver!Exact, Resolver!SelectInSeq, Resolver!Min

LEMMA NamesStarted == ASSUME NameInv, Resolver!Start PROVE NameInv'
<1> USE DEF NameInv
<1>1. PICK facts \in Resolver!BoundedSeq({names \in Resolver!BoundedSeq(MCNames, 2) :
                                names # <<>> /\ Resolver!IsInjective(names)}, 2) :
        batch' = [f \in DOMAIN facts |-> [names |-> facts[f], left |-> facts[f]]]
  BY DEF Resolver!Start
<1>2. cache' = aliases /\ UNCHANGED <<entities, aliases, meaning>>
  BY DEF Resolver!Start
<1>3. \A f \in DOMAIN facts : facts[f] \in Seq(MCNames)
  <2>1. \A names \in Resolver!BoundedSeq(MCNames, 2) : names \in Seq(MCNames)
    <3> SUFFICES ASSUME NEW k \in 0..2, NEW names \in [1..k -> MCNames] PROVE names \in Seq(MCNames)
      BY DEF Resolver!BoundedSeq, Resolver!SeqOf
    <3> QED OBVIOUS
  <2>2. PICK k \in 0..2 : facts \in [1..k -> {names \in Resolver!BoundedSeq(MCNames, 2) :
                                names # <<>> /\ Resolver!IsInjective(names)}]
    <3> HIDE DEF NameInv
    <3> QED BY <1>1 DEF Resolver!BoundedSeq, Resolver!SeqOf
  <2> QED BY <2>1, <2>2
<1>4. \A f \in DOMAIN batch' : batch'[f].left \in Seq(MCNames)
  BY <1>1, <1>3
<1>5. NameTypes'
  BY <1>2, <1>4 DEF NameTypes, Places
<1>6. CacheFits'
  BY <1>2, SameTables DEF CacheFits, TablesSay
<1>7. NamesFixed'
  BY <1>2, SameTables DEF NamesFixed
<1> QED BY <1>5, <1>6, <1>7

\* The batch is over or lost: the tables stay as they are.
LEMMA NamesLeft == ASSUME NameInv, Resolver!Finish \/ Resolver!Crash PROVE NameInv'
<1> USE DEF NameInv
<1>1. /\ batch' = <<>> /\ cache' = [n \in MCNames |-> 0] /\ UNCHANGED <<entities, aliases, meaning>>
  BY DEF Resolver!Finish, Resolver!Crash, Resolver!NoNames, Resolver!None
<1>2. NameTypes'
  BY <1>1 DEF NameTypes, Places
<1>3. CacheFits' /\ NamesFixed'
  BY <1>1, SameTables DEF CacheFits, NamesFixed
<1> QED BY <1>2, <1>3

\* A name that was resolved to `id` means it from now on, if it meant nothing before.
LEMMA NameResolved ==
    ASSUME NameInv, NEW name \in MCNames, NEW id,
           id \in 1..Len(entities'), meaning' = [meaning EXCEPT ![name] = IF @ = 0 THEN id ELSE @],
           entities' \in Seq(MCNames), Len(entities') >= Len(entities),
           \A i, j \in DOMAIN entities' : entities'[i] = entities'[j] => i = j,
           \A f \in DOMAIN batch' : batch'[f].left \in Seq(MCNames),
           cache' = [cache EXCEPT ![name] = id],
           aliases' = aliases \/ (aliases' = [aliases EXCEPT ![name] = id]),
           \A n \in MCNames \ {name} : TablesSay(n)' = TablesSay(n),
           TablesSay(name)' = id, meaning[name] # 0 => TablesSay(name) = id,
           batch # <<>>, aliases[name] # 0 => aliases[name] = id
    PROVE  NameInv'
<1> USE DEF NameInv
<1>1. NameTypes'
  <2>1. /\ Len(entities) \in Nat /\ Len(entities') \in Nat /\ \A k \in Places : k \in Places' 
        /\ id \in Places'
    BY DEF NameTypes, Places
  <2>2. aliases' \in [MCNames -> Places'] /\ cache' \in [MCNames -> Places']
    BY <2>1 DEF NameTypes
  <2>3. meaning' \in [MCNames -> Places']
    BY <2>1 DEF NameTypes
  <2> QED BY <2>2, <2>3 DEF NameTypes
<1>2. cache'[name] = id /\ \A n \in MCNames \ {name} : cache'[n] = cache[n] /\ aliases'[n] = aliases[n]
  BY DEF NameTypes
<1>3. aliases'[name] # 0 => aliases'[name] = id
  BY DEF NameTypes
<1>4. CacheFits'
  <2>1. \A n \in MCNames : aliases'[n] # 0 => cache'[n] = aliases'[n]
    BY <1>2, <1>3 DEF CacheFits
  <2>2. \A n \in MCNames : cache'[n] # 0 => cache'[n] = TablesSay(n)'
    BY <1>2 DEF CacheFits
  <2> QED BY <2>1, <2>2 DEF CacheFits
<1>5. NamesFixed'
  <2>1. \A n \in MCNames \ {name} : meaning'[n] = meaning[n]
    BY DEF NameTypes
  <2>2. meaning'[name] = id
    BY DEF NameTypes, NamesFixed
  <2> QED BY <2>1, <2>2 DEF NamesFixed
<1> QED BY <1>1, <1>4, <1>5

LEMMA ResolveStep == ASSUME NameInv, Resolver!Resolve PROVE NameInv'
<1> USE DEF NameInv
<1>1. PICK f \in DOMAIN batch :
        \E name, nearby :
          /\ name = Head(batch[f].left) /\ batch[f].left # <<>>
          /\ \/ /\ Resolver!Known(name) # 0
                /\ Resolver!Means(name, Resolver!Known(name))
                /\ cache' = [cache EXCEPT ![name] = Resolver!Known(name)]
                /\ UNCHANGED <<entities, aliases>>
             \/ /\ Resolver!Known(name) = 0 /\ Resolver!Similar(name, nearby) # 0
                /\ Resolver!Means(name, Resolver!Similar(name, nearby))
                /\ Resolver!SaveAlias(name, Resolver!Similar(name, nearby))
                /\ UNCHANGED entities
             \/ /\ Resolver!Known(name) = 0
                /\ Resolver!Means(name, Len(entities) + 1)
                /\ entities' = Append(entities, name)
                /\ cache' = [cache EXCEPT ![name] = Len(entities) + 1]
                /\ UNCHANGED aliases
          /\ batch' = [batch EXCEPT ![f].left = Tail(@)]
  BY DEF Resolver!Resolve, Resolver!None
<1>2. PICK name, nearby :
          /\ name = Head(batch[f].left) /\ batch[f].left # <<>>
          /\ \/ /\ Resolver!Known(name) # 0
                /\ Resolver!Means(name, Resolver!Known(name))
                /\ cache' = [cache EXCEPT ![name] = Resolver!Known(name)]
                /\ UNCHANGED <<entities, aliases>>
             \/ /\ Resolver!Known(name) = 0 /\ Resolver!Similar(name, nearby) # 0
                /\ Resolver!Means(name, Resolver!Similar(name, nearby))
                /\ Resolver!SaveAlias(name, Resolver!Similar(name, nearby))
                /\ UNCHANGED entities
             \/ /\ Resolver!Known(name) = 0
                /\ Resolver!Means(name, Len(entities) + 1)
                /\ entities' = Append(entities, name)
                /\ cache' = [cache EXCEPT ![name] = Len(entities) + 1]
                /\ UNCHANGED aliases
          /\ batch' = [batch EXCEPT ![f].left = Tail(@)]
  BY <1>1
<1>3. /\ name \in MCNames /\ batch # <<>>
      /\ \A g \in DOMAIN batch' : batch'[g].left \in Seq(MCNames)
  <2>1. batch[f].left \in Seq(MCNames)
    BY DEF NameTypes
  <2>2. Head(batch[f].left) \in MCNames /\ Tail(batch[f].left) \in Seq(MCNames)
    BY <1>2, <2>1
  <2>3. \A g \in DOMAIN batch' : g \in DOMAIN batch /\ (batch'[g].left = batch[g].left \/ batch'[g].left = Tail(batch[f].left))
    BY <1>2
  <2> QED BY <1>2, <2>2, <2>3 DEF NameTypes
<1>4. /\ Resolver!Known(name) = IF cache[name] # 0 THEN cache[name] ELSE Resolver!Exact(name)
      /\ cache[name] = 0 => aliases[name] = 0
      /\ aliases[name] # 0 => cache[name] = aliases[name]
      /\ Resolver!Known(name) = TablesSay(name)
  BY <1>3 DEF Resolver!Known, Resolver!None, CacheFits, TablesSay
<1>5.
      \/ Resolver!Exact(name) = 0 /\ \A i \in 1..Len(entities) : entities[i] # name
      \/ Resolver!Exact(name) \in 1..Len(entities) /\ entities[Resolver!Exact(name)] = name
  BY ExactIs
<1>6. CASE /\ Resolver!Known(name) # 0
           /\ Resolver!Means(name, Resolver!Known(name))
           /\ cache' = [cache EXCEPT ![name] = Resolver!Known(name)]
           /\ UNCHANGED <<entities, aliases>>
  <2>1. PICK id : id = Resolver!Known(name)
    OBVIOUS
  <2>2. id \in 1..Len(entities')
    BY <1>3, <1>4, <1>5, <1>6, <2>1 DEF NameTypes, Places
  <2>3. meaning' = [meaning EXCEPT ![name] = IF @ = 0 THEN id ELSE @]
    BY <1>6, <2>1 DEF Resolver!Means, Resolver!None
  <2>4. \A n : TablesSay(n)' = TablesSay(n)
    BY <1>6, SameTables
  <2>5. aliases[name] # 0 => aliases[name] = id
    BY <1>4, <2>1
  <2>6. /\ entities' \in Seq(MCNames) /\ Len(entities') >= Len(entities) /\ aliases' = aliases
        /\ \A i, j \in DOMAIN entities' : entities'[i] = entities'[j] => i = j
        /\ cache' = [cache EXCEPT ![name] = id]
    BY <1>6, <2>1 DEF NameTypes
  <2>7. TablesSay(name)' = id /\ TablesSay(name) = id
    BY <1>4, <2>1, <2>4
  <2> QED BY <1>3, <2>2, <2>3, <2>4, <2>5, <2>6, <2>7, NameResolved
<1>7. CASE /\ Resolver!Known(name) = 0 /\ Resolver!Similar(name, nearby) # 0
           /\ Resolver!Means(name, Resolver!Similar(name, nearby))
           /\ Resolver!SaveAlias(name, Resolver!Similar(name, nearby))
           /\ UNCHANGED entities
  <2>1. PICK id : id = Resolver!Similar(name, nearby)
    OBVIOUS
  <2>2. id \in 1..Len(entities')
    <3>1. PICK alike :
            alike = {k \in DOMAIN entities :
                       /\ \A other \in DOMAIN entities :
                            /\ Resolver!Score(name, other, nearby) <= Resolver!Score(name, k, nearby)
                            /\ other < k => Resolver!Score(name, other, nearby) < Resolver!Score(name, k, nearby)
                       /\ Resolver!Score(name, k, nearby) >= 5 * 82}
      OBVIOUS
    <3>2. id = IF alike = {} THEN 0 ELSE CHOOSE k \in alike : TRUE
      BY <2>1, <3>1 DEF Resolver!Similar, Resolver!None
    <3>3. alike # {}
      BY <1>7, <2>1, <3>2
    <3>4. id \in alike
      BY <3>2, <3>3
    <3>5. id \in DOMAIN entities
      BY <3>1, <3>4
    <3> QED BY <1>7, <3>5 DEF NameTypes
  <2>3. meaning' = [meaning EXCEPT ![name] = IF @ = 0 THEN id ELSE @]
    BY <1>7, <2>1 DEF Resolver!Means, Resolver!None
  <2>4. aliases[name] = 0 /\ TablesSay(name) = 0
    BY <1>3, <1>4, <1>7 DEF NameTypes, Places
  <2>5. /\ aliases' = [aliases EXCEPT ![name] = id] /\ cache' = [cache EXCEPT ![name] = id]
        /\ entities' = entities
    BY <1>3, <1>7, <2>1, <2>4 DEF Resolver!SaveAlias, Resolver!None, NameTypes
  <2>6. \A n : Resolver!Exact(n)' = Resolver!Exact(n)
    BY <2>5 DEF Resolver!Exact, Resolver!SelectInSeq, Resolver!Min
  <2>7. \A n \in MCNames \ {name} : TablesSay(n)' = TablesSay(n)
    BY <2>5, <2>6 DEF TablesSay, NameTypes
  <2>8. TablesSay(name)' = id
    BY <1>3, <1>7, <2>1, <2>5 DEF TablesSay, NameTypes
  <2>9. meaning[name] = 0
    BY <1>3, <2>4 DEF NamesFixed
  <2>10. /\ entities' \in Seq(MCNames) /\ Len(entities') >= Len(entities)
         /\ \A i, j \in DOMAIN entities' : entities'[i] = entities'[j] => i = j
    BY <2>5 DEF NameTypes
  <2> QED BY <1>3, <2>2, <2>3, <2>4, <2>5, <2>7, <2>8, <2>9, <2>10, NameResolved
<1>8. CASE /\ Resolver!Known(name) = 0
           /\ Resolver!Means(name, Len(entities) + 1)
           /\ entities' = Append(entities, name)
           /\ cache' = [cache EXCEPT ![name] = Len(entities) + 1]
           /\ UNCHANGED aliases
  <2>1. PICK id : id = Len(entities) + 1
    OBVIOUS
  <2>2. aliases[name] = 0 /\ TablesSay(name) = 0 /\ Resolver!Exact(name) = 0
    BY <1>3, <1>4, <1>8 DEF NameTypes, Places
  <2>3. /\ Len(entities) \in Nat /\ entities' \in Seq(MCNames) /\ Len(entities') = id /\ id \in 1..Len(entities')
        /\ \A i \in 1..Len(entities) : entities'[i] = entities[i] /\ entities[i] # name
        /\ entities'[id] = name
    BY <1>3, <1>5, <1>8, <2>1, <2>2 DEF NameTypes
  <2>4. meaning' = [meaning EXCEPT ![name] = IF @ = 0 THEN id ELSE @]
    BY <1>8, <2>1 DEF Resolver!Means, Resolver!None
  <2>5. \A i \in 1..Len(entities') : i \in 1..Len(entities) \/ i = id
    BY <2>1, <2>3
  <2>6. \A i, j \in DOMAIN entities' : entities'[i] = entities'[j] => i = j
    BY <2>3, <2>5 DEF NameTypes
  <2>7. \A n :
            \/ Resolver!Exact(n)' = 0 /\ \A i \in 1..Len(entities') : entities'[i] # n
            \/ Resolver!Exact(n)' \in 1..Len(entities') /\ entities'[Resolver!Exact(n)'] = n
    <3> SUFFICES ASSUME NEW n
                 PROVE  \/ Resolver!Exact(n)' = 0 /\ \A i \in 1..Len(entities') : entities'[i] # n
                        \/ Resolver!Exact(n)' \in 1..Len(entities') /\ entities'[Resolver!Exact(n)'] = n
      OBVIOUS
    <3>1. PICK same : same = {i \in 1..Len(entities') : entities'[i] = n}
      OBVIOUS
    <3>2. Resolver!Exact(n)' = IF same # {} THEN Resolver!Min(same) ELSE 0
      BY <3>1 DEF Resolver!Exact, Resolver!SelectInSeq
    <3>3. ASSUME NEW k \in same PROVE Resolver!Exact(n)' = k
      <4>1. same = {k} /\ k \in Int
        BY <2>3, <2>6, <3>1, <3>3
      <4>2. Resolver!Min(same) = k
        BY <4>1 DEF Resolver!Min
      <4> QED BY <3>2, <4>1, <4>2
    <3> QED BY <3>1, <3>2, <3>3
  <2>8. \A n \in MCNames \ {name} : Resolver!Exact(n)' = Resolver!Exact(n)
    <3> SUFFICES ASSUME NEW n \in MCNames \ {name} PROVE Resolver!Exact(n)' = Resolver!Exact(n)
      OBVIOUS
    <3>1. \/ Resolver!Exact(n) = 0 /\ \A i \in 1..Len(entities) : entities[i] # n
          \/ Resolver!Exact(n) \in 1..Len(entities) /\ entities[Resolver!Exact(n)] = n
      BY ExactIs
    <3>2. Resolver!Exact(n)' # id
      BY <2>3, <2>7
    <3>3. CASE Resolver!Exact(n)' = 0
      BY <2>3, <2>5, <2>7, <3>1, <3>3
    <3>4. CASE Resolver!Exact(n)' \in 1..Len(entities)
      BY <2>3, <2>7, <3>1, <3>4 DEF NameTypes
    <3> QED BY <2>5, <2>7, <3>2, <3>3, <3>4
  <2>9. \A n \in MCNames \ {name} : TablesSay(n)' = TablesSay(n)
    BY <1>8, <2>8 DEF TablesSay
  <2>10. TablesSay(name)' = id
    <3>1. Resolver!Exact(name)' = id
      BY <2>3, <2>6, <2>7
    <3> QED BY <1>8, <2>2, <3>1 DEF TablesSay
  <2>11. meaning[name] = 0
    BY <1>3, <2>2 DEF NamesFixed
  <2>12. cache' = [cache EXCEPT ![name] = id] /\ aliases' = aliases /\ Len(entities') >= Len(entities)
    BY <1>8, <2>1, <2>3
  <2> QED BY <1>3, <2>2, <2>3, <2>4, <2>6, <2>9, <2>10, <2>11, <2>12, NameResolved
<1> QED BY <1>2, <1>6, <1>7, <1>8

LEMMA NameStep == ASSUME NameInv, [Next]_allVars PROVE NameInv'
<1>1. CASE Resolver!Next
  BY <1>1, NamesStarted, NamesLeft, ResolveStep DEF Resolver!Next
<1>2. CASE UNCHANGED resolverVars
  <2>1. UNCHANGED <<entities, aliases, batch, cache, meaning>>
    BY <1>2 DEF resolverVars
  <2>2. NameTypes'
    BY <2>1 DEF NameInv, NameTypes, Places
  <2>3. CacheFits' /\ NamesFixed'
    BY <2>1, SameTables DEF NameInv, CacheFits, NamesFixed
  <2> QED BY <2>2, <2>3 DEF NameInv
<1> QED BY <1>1, <1>2 DEF Next, allVars

\* The names of the fact memory: the entity a name was resolved to first is the one its
\* alias or its own name leads to, whatever entities, aliases and company come later and
\* wherever a restart falls.
THEOREM NamesKept == Spec => []NameKeepsEntity
<1>1. Init => NameInv
  BY NameStart DEF Init
<1>2. NameInv /\ [Next]_allVars => NameInv'
  BY NameStep
<1>3. NameInv => NameKeepsEntity
  BY DEF NameInv, NamesFixed, TablesSay, NameKeepsEntity, Resolver!NameKeepsEntity, Resolver!None
<1> QED BY <1>1, <1>2, <1>3, PTL DEF Spec, allVars

-----------------------------------------------------------------------------
(* Recall *)

\* A set of numbers has a least one.
LEMMA LeastNumber ==
    ASSUME NEW T, T \subseteq Nat, T # {}
    PROVE  \E x \in T : \A y \in T : x <= y
<1> DEFINE I == {1..n : n \in T}
<1>1. I \subseteq FiniteSubsetsOf(Nat)
  <2>1. \A n \in T : IsFiniteSet(1..n)
    BY FS_Interval
  <2> QED BY <2>1 DEF FiniteSubsetsOf
<1>2. I # {}
  OBVIOUS
<1>3. IsWellFoundedOn(StrictSubsetOrdering(Nat), FiniteSubsetsOf(Nat))
  BY FS_StrictSubsetOrderingWellFounded
<1>4. \E s \in I : \A t \in I : ~(<<t, s>> \in StrictSubsetOrdering(Nat))
  BY <1>1, <1>2, <1>3, WFMin
<1>5. PICK x \in T : \A t \in I : ~(<<t, 1..x>> \in StrictSubsetOrdering(Nat))
  BY <1>4
<1>6. ASSUME NEW y \in T, y < x PROVE FALSE
  <2>1. 1..y \subseteq 1..x /\ x \in 1..x /\ x \notin 1..y /\ 1..x \subseteq Nat
    BY <1>6
  <2>2. <<1..y, 1..x>> \in StrictSubsetOrdering(Nat)
    BY <2>1 DEF StrictSubsetOrdering
  <2> QED BY <2>2, <1>5
<1> QED BY <1>6

\* The operators of finite sets that the instance brings are the usual ones.
LEMMA RecallSets ==
    /\ \A S : Recall!Cardinality(S) = Cardinality(S)
    /\ \A f : Recall!Range(f) = {f[x] : x \in DOMAIN f}
    /\ \A f : Recall!IsInjective(f) <=> \A x, y \in DOMAIN f : f[x] = f[y] => x = y
BY DEF Recall!Cardinality, Cardinality, Recall!Range, Recall!IsInjective

\* Ids of facts with a number each.
Scores(f) == f \in [DOMAIN f -> Int] /\ DOMAIN f \subseteq Recall!Ids

\* A ranking: ids of facts, none of them twice.
Rankings == {q \in Seq(Recall!Ids) : \A x, y \in DOMAIN q : q[x] = q[y] => x = y}

\* There are finitely many facts.
LEMMA FiniteIds ==
    ASSUME NEW S \in SUBSET Recall!Ids
    PROVE  IsFiniteSet(S) /\ Cardinality(S) \in Nat
<1>1. IsFiniteSet(Recall!Ids)
  <2>1. 1 \in Int /\ RecallFacts \in Int
    BY RecallAssumption
  <2>2. IsFiniteSet(1..RecallFacts)
    BY <2>1, FS_Interval
  <2> QED BY <2>2 DEF Recall!Ids
<1> QED BY <1>1, FS_Subset, FS_CardinalityType

\* The beginning of a sequence.
LEMMA FirstHas ==
    ASSUME NEW X, NEW q \in Seq(X), NEW n \in Nat
    PROVE  /\ Recall!First(q, n) \in Seq(X)
           /\ Len(Recall!First(q, n)) = IF n <= Len(q) THEN n ELSE Len(q)
           /\ \A k \in 1..Len(Recall!First(q, n)) :
                k \in DOMAIN q /\ Recall!First(q, n)[k] = q[k]
<1> DEFINE m == IF n <= Len(q) THEN n ELSE Len(q)
<1>1. m \in 0..Len(q)
  OBVIOUS
<1>2. Recall!First(q, n) = SubSeq(q, 1, m)
  BY DEF Recall!First, Recall!Smaller
<1> HIDE DEF m
<1>3. /\ SubSeq(q, 1, m) \in Seq(X) /\ Len(SubSeq(q, 1, m)) = m
      /\ \A k \in 1..m : k \in DOMAIN q /\ SubSeq(q, 1, m)[k] = q[k]
  BY <1>1
<1> QED BY <1>2, <1>3 DEF m

\* The beginning of a ranking is a ranking, and all of it when it is short.
LEMMA FirstRanks ==
    ASSUME NEW q \in Rankings, NEW n \in Nat
    PROVE  /\ Recall!First(q, n) \in Rankings
           /\ {Recall!First(q, n)[k] : k \in DOMAIN Recall!First(q, n)} \subseteq {q[k] : k \in DOMAIN q}
           /\ Len(q) <= n => Recall!First(q, n) = q
           /\ Len(Recall!First(q, n)) < n => Recall!First(q, n) = q
<1> DEFINE p == Recall!First(q, n)
<1>1. q \in Seq(Recall!Ids) /\ \A x, y \in DOMAIN q : q[x] = q[y] => x = y
  BY DEF Rankings
<1>2. /\ p \in Seq(Recall!Ids) /\ Len(p) = IF n <= Len(q) THEN n ELSE Len(q)
      /\ \A k \in 1..Len(p) : k \in DOMAIN q /\ p[k] = q[k]
  BY <1>1, FirstHas
<1> HIDE DEF p
<1>3. p \in Rankings
  BY <1>1, <1>2 DEF Rankings
<1>4. {p[k] : k \in DOMAIN p} \subseteq {q[k] : k \in DOMAIN q}
  BY <1>2
<1>5. Len(q) <= n \/ Len(p) < n => p = q
  BY <1>1, <1>2
<1> QED BY <1>3, <1>4, <1>5 DEF p

\* Ranked lists what has a score once, the highest first.
LEMMA RankedLists ==
    ASSUME NEW score, score \in [DOMAIN score -> Int], DOMAIN score \subseteq Int,
           IsFiniteSet(DOMAIN score)
    PROVE  /\ Recall!Ranked(score) \in Seq(DOMAIN score)
           /\ Len(Recall!Ranked(score)) = Cardinality(DOMAIN score)
           /\ \A x, y \in DOMAIN Recall!Ranked(score) :
                Recall!Ranked(score)[x] = Recall!Ranked(score)[y] => x = y
           /\ {Recall!Ranked(score)[k] : k \in DOMAIN Recall!Ranked(score)} = DOMAIN score
           /\ \A x, y \in DOMAIN Recall!Ranked(score) :
                x < y => Recall!Ahead(score, Recall!Ranked(score)[x], Recall!Ranked(score)[y])
<1> DEFINE D == DOMAIN score
           Before(i) == {j \in D : Recall!Ahead(score, j, i)}
           N == Cardinality(D)
           T == 1..N
           f == [i \in D |-> Cardinality(Before(i)) + 1]
           q == [n \in T |-> CHOOSE i \in D : Cardinality(Before(i)) = n - 1]
<1>1. IsFiniteSet(D) /\ N \in Nat
  BY FS_CardinalityType
<1>2. \A i \in D : i \in Int /\ score[i] \in Int
  OBVIOUS
<1>3. \A i \in D : /\ Before(i) \in SUBSET D /\ IsFiniteSet(Before(i))
                   /\ Cardinality(Before(i)) \in Nat /\ Cardinality(Before(i)) < N
  <2> TAKE i \in D
  <2>1. Before(i) \in SUBSET D /\ i \notin Before(i)
    BY <1>2 DEF Recall!Ahead
  <2>2. Before(i) # D
    BY <2>1
  <2> HIDE DEF Before
  <2> QED BY <1>1, <2>1, <2>2, FS_Subset, FS_CardinalityType
<1>4. \A i, j \in D : Recall!Ahead(score, i, j) => Cardinality(Before(i)) < Cardinality(Before(j))
  <2> TAKE i, j \in D
  <2> HAVE Recall!Ahead(score, i, j)
  <2>1. i \in Before(j) /\ i \notin Before(i)
    BY <1>2 DEF Recall!Ahead
  <2>2. Before(i) \in SUBSET Before(j)
    <3> SUFFICES ASSUME NEW k \in D, Recall!Ahead(score, k, i) PROVE Recall!Ahead(score, k, j)
      OBVIOUS
    <3> QED BY <1>2 DEF Recall!Ahead
  <2>3. Before(i) # Before(j)
    BY <2>1
  <2> HIDE DEF Before
  <2> QED BY <1>3, <2>2, <2>3, FS_Subset
<1>5. \A i, j \in D : i # j => Recall!Ahead(score, i, j) \/ Recall!Ahead(score, j, i)
  BY <1>2 DEF Recall!Ahead
<1>6. f \in [D -> T]
  <2> HIDE DEF Before, N
  <2>1. \A i \in D : Cardinality(Before(i)) + 1 \in T
    BY <1>1, <1>3
  <2> QED BY <2>1
<1>7. \A i, j \in D : Cardinality(Before(i)) = Cardinality(Before(j)) => i = j
  <2> HIDE DEF Before
  <2> QED BY <1>3, <1>4, <1>5
<1>8. f \in Injection(D, T)
  <2>1. \A i, j \in D : f[i] = f[j] => i = j
    <3> HIDE DEF Before
    <3> QED BY <1>3, <1>7
  <2> QED BY <1>6, <2>1 DEF Injection, IsInjective
<1>9. IsFiniteSet(T) /\ Cardinality(T) = N
  <2>1. 1 \in Int /\ N \in Int
    BY <1>1
  <2>2. IsFiniteSet(T) /\ Cardinality(T) = IF 1 > N THEN 0 ELSE N - 1 + 1
    BY <2>1, FS_Interval
  <2> QED BY <1>1, <2>2
<1>10. f \in Surjection(D, T)
  BY <1>8, <1>9, FS_Injection
<1>11. \A n \in T : \E i \in D : Cardinality(Before(i)) = n - 1
  <2>1. \A i \in D : f[i] = Cardinality(Before(i)) + 1
    OBVIOUS
  <2> HIDE DEF Before, f
  <2>2. \A n \in T : \E i \in D : f[i] = n
    BY <1>10 DEF Surjection
  <2> QED BY <1>1, <1>3, <2>1, <2>2
<1>12. \A n \in T : q[n] \in D /\ Cardinality(Before(q[n])) = n - 1
  <2> HIDE DEF Before
  <2> QED BY <1>11
<1>13. Recall!Ranked(score) = q
  BY DEF Recall!Ranked, Recall!Cardinality, Cardinality
<1>14. q \in Seq(D) /\ Len(q) = N
  <2>1. q \in [1..N -> D]
    BY <1>12
  <2> HIDE DEF q
  <2> QED BY <1>1, <2>1
<1> HIDE DEF q
<1>15. \A x, y \in DOMAIN q : q[x] = q[y] => x = y
  <2> HIDE DEF Before
  <2> QED BY <1>1, <1>12, <1>14
<1>16. {q[k] : k \in DOMAIN q} = D
  <2>1. ASSUME NEW i \in D PROVE \E k \in DOMAIN q : q[k] = i
    <3> HIDE DEF Before
    <3>1. Cardinality(Before(i)) + 1 \in T
      BY <1>1, <1>3
    <3>2. Cardinality(Before(q[Cardinality(Before(i)) + 1])) = Cardinality(Before(i))
      BY <1>3, <1>12, <3>1
    <3>3. q[Cardinality(Before(i)) + 1] = i
      BY <1>7, <1>12, <3>1, <3>2
    <3> QED BY <1>14, <3>1, <3>3
  <2>2. \A k \in DOMAIN q : q[k] \in D
    BY <1>12, <1>14
  <2> HIDE DEF D
  <2> QED BY <2>1, <2>2
<1>17. \A x, y \in DOMAIN q : x < y => Recall!Ahead(score, q[x], q[y])
  <2> TAKE x, y \in DOMAIN q
  <2> HAVE x < y
  <2>1. /\ x \in T /\ y \in T /\ x \in Int /\ y \in Int
    BY <1>1, <1>14
  <2>2. /\ q[x] \in D /\ Cardinality(Before(q[x])) = x - 1
        /\ q[y] \in D /\ Cardinality(Before(q[y])) = y - 1
    BY <1>12, <2>1
  <2>3. q[x] # q[y]
    BY <1>15, <2>1
  <2>4. Recall!Ahead(score, q[y], q[x]) => y - 1 < x - 1
    <3> HIDE DEF Before
    <3> QED BY <1>4, <2>2
  <2> QED BY <1>5, <2>1, <2>2, <2>3, <2>4
<1> QED BY <1>13, <1>14, <1>15, <1>16, <1>17

\* A ranking of facts.
LEMMA RankedHas ==
    ASSUME NEW score, Scores(score)
    PROVE  /\ Recall!Ranked(score) \in Rankings
           /\ Len(Recall!Ranked(score)) = Cardinality(DOMAIN score)
           /\ {Recall!Ranked(score)[k] : k \in DOMAIN Recall!Ranked(score)} = DOMAIN score
<1> DEFINE q == Recall!Ranked(score)
<1>1. /\ score \in [DOMAIN score -> Int] /\ DOMAIN score \subseteq Int /\ IsFiniteSet(DOMAIN score)
      /\ DOMAIN score \subseteq Recall!Ids
  BY FiniteIds DEF Scores, Recall!Ids
<1>2. /\ q \in Seq(DOMAIN score) /\ Len(q) = Cardinality(DOMAIN score)
      /\ \A x, y \in DOMAIN q : q[x] = q[y] => x = y
      /\ {q[k] : k \in DOMAIN q} = DOMAIN score
  BY <1>1, RankedLists
<1> HIDE DEF q
<1>3. q \in Seq(Recall!Ids)
  BY <1>1, <1>2
<1>4. q \in Rankings
  BY <1>2, <1>3 DEF Rankings
<1> QED BY <1>2, <1>4 DEF q

\* What the rows, the links and the queries of the run are made of.
LEMMA SampleIs ==
    ASSUME NEW r \in MCSamples
    PROVE  /\ r.similarity \in Nat /\ r.proximity \in Nat /\ r.observation \in BOOLEAN
           /\ r.entities \subseteq {"e"}
<1>1. \/ r \in {Fact({}, FALSE, 5, TRUE, FALSE, 0, {"e"}), Fact({"t"}, TRUE, 0, FALSE, TRUE, 8, {"e"}),
                Fact({}, FALSE, 0, FALSE, FALSE, 0, {})}
      \/ \E tags, sources : r \in {Observation(tags, 4, sources), Observation(tags, 0, sources)}
  BY DEF MCSamples
<1>2. CASE r = Fact({}, FALSE, 5, TRUE, FALSE, 0, {"e"})
  BY <1>2 DEF Fact
<1>3. CASE r = Fact({"t"}, TRUE, 0, FALSE, TRUE, 8, {"e"})
  BY <1>3 DEF Fact
<1>4. CASE r = Fact({}, FALSE, 0, FALSE, FALSE, 0, {})
  BY <1>4 DEF Fact
<1>5. ASSUME NEW tags, NEW sources, NEW sim \in Nat, r = Observation(tags, sim, sources)
      PROVE  /\ r.similarity \in Nat /\ r.proximity \in Nat /\ r.observation \in BOOLEAN
             /\ r.entities \subseteq {"e"}
  BY <1>5 DEF Observation
<1> QED BY <1>1, <1>2, <1>3, <1>4, <1>5
LEMMA LinkIs ==
    ASSUME NEW l \in MCLinks
    PROVE  l.strength \in 1..10
BY DEF MCLinks, Link
LEMMA QueryIs == \A q \in MCQueries : q.limit \in Nat
BY DEF MCQueries, Query

RecallTypes ==
    /\ DOMAIN samples \subseteq Recall!Ids /\ \A i \in DOMAIN samples : samples[i] \in MCSamples
    /\ links \subseteq MCLinks /\ query \in MCQueries
    /\ search \in Recall!Searches \cup {"filter", "done"}
    /\ found \in [Recall!Searches -> Rankings]
    /\ results \subseteq Recall!Ids

\* The strongest of some links.
LEMMA Strongest ==
    ASSUME NEW L \in SUBSET MCLinks, L # {}
    PROVE  /\ Recall!Max({l.strength : l \in L}) \in 1..10
           /\ \E l \in L : \A k \in L : k.strength <= l.strength
<1> DEFINE S == {l.strength : l \in L}
           T == {10 - l.strength : l \in L}
<1>1. \A l \in L : l.strength \in 1..10
  BY LinkIs
<1>2. T \subseteq Nat /\ T # {}
  BY <1>1
<1>3. PICK t \in T : \A u \in T : t <= u
  BY <1>2, LeastNumber
<1>4. PICK l \in L : t = 10 - l.strength
  BY <1>3
<1>5. \A k \in L : 10 - l.strength <= 10 - k.strength
  BY <1>3, <1>4
<1>6. \A k \in L : k.strength <= l.strength
  BY <1>1, <1>5
<1>7. l.strength \in S /\ \A y \in S : l.strength >= y
  BY <1>1, <1>6
<1>8. Recall!Max(S) \in S
  BY <1>7 DEF Recall!Max
<1>9. S \subseteq 1..10
  BY <1>1
<1> QED BY <1>6, <1>8, <1>9

\* The scores of the queries over links and entities.
LEMMA EntityScored ==
    ASSUME RecallTypes, NEW seeds \in SUBSET DOMAIN samples
    PROVE  Scores(Recall!EntityScores(seeds))
<1> DEFINE Shared(i) == {p \in seeds \X UNION {samples[s].entities : s \in seeds} :
                           /\ p[2] \in samples[p[1]].entities \cap samples[i].entities
                           /\ ~Recall!Frequent(p[2])}
<1>1. \A i \in DOMAIN samples : Cardinality(Shared(i)) \in Nat
  <2> TAKE i \in DOMAIN samples
  <2>1. UNION {samples[s].entities : s \in seeds} \subseteq {"e"}
    BY SampleIs DEF RecallTypes
  <2>2. Shared(i) \in SUBSET (seeds \X {"e"})
    BY <2>1
  <2>3. IsFiniteSet(seeds) /\ IsFiniteSet({"e"})
    BY FiniteIds, FS_Singleton DEF RecallTypes
  <2>4. IsFiniteSet(seeds \X {"e"})
    BY <2>3, FS_Product
  <2> HIDE DEF Shared
  <2> QED BY <2>2, <2>4, FS_Subset, FS_CardinalityType
<1>2. Recall!EntityScores(seeds)
        = [i \in {j \in DOMAIN samples \ seeds : Shared(j) # {}} |-> 10 * Cardinality(Shared(i))]
  BY DEF Recall!EntityScores, Recall!Cardinality, Cardinality
<1> HIDE DEF Shared
<1> QED BY <1>1, <1>2 DEF Scores, RecallTypes

LEMMA CausalScored ==
    ASSUME RecallTypes, NEW seeds \in SUBSET DOMAIN samples
    PROVE  Scores(Recall!CausalScores(seeds))
<1> DEFINE To(i) == {l \in links : /\ l.source \in seeds /\ l.target = i /\ l.kind = "caused_by"
                                   /\ l.strength >= Recall!CausalThreshold}
           D == {j \in DOMAIN samples \ seeds : To(j) # {}}
<1>1. \A i \in D : Recall!Max({l.strength : l \in To(i)}) \in 1..10
  <2> TAKE i \in D
  <2>1. To(i) \in SUBSET MCLinks /\ To(i) # {}
    BY DEF RecallTypes
  <2> HIDE DEF To
  <2> QED BY <2>1, Strongest
<1>2. Recall!CausalScores(seeds) = [i \in D |-> 10 + Recall!Max({l.strength : l \in To(i)})]
  BY DEF Recall!CausalScores
<1>3. D \subseteq Recall!Ids
  BY DEF RecallTypes
<1> HIDE DEF To, D
<1> QED BY <1>1, <1>2, <1>3 DEF Scores

LEMMA FallbackScored ==
    ASSUME RecallTypes, NEW seeds \in SUBSET DOMAIN samples
    PROVE  Scores(Recall!FallbackScores(seeds))
<1> DEFINE With(i) == {l \in links : /\ \/ l.source \in seeds /\ l.target = i
                                        \/ l.target \in seeds /\ l.source = i
                                     /\ l.kind # "caused_by"
                                     /\ l.strength >= Recall!CausalThreshold}
           D == {j \in DOMAIN samples \ seeds : With(j) # {}}
<1>1. \A i \in D : Recall!Max({l.strength : l \in With(i)}) \in 1..10
  <2> TAKE i \in D
  <2>1. With(i) \in SUBSET MCLinks /\ With(i) # {}
    BY DEF RecallTypes
  <2> HIDE DEF With
  <2> QED BY <2>1, Strongest
<1>2. Recall!FallbackScores(seeds)
        = [i \in D |-> Recall!Max({l.strength : l \in With(i)}) \div 2]
  BY DEF Recall!FallbackScores
<1>3. D \subseteq Recall!Ids
  BY DEF RecallTypes
<1> HIDE DEF With, D
<1> QED BY <1>1, <1>2, <1>3 DEF Scores

LEMMA ObservationScored ==
    ASSUME RecallTypes, NEW seeds \in SUBSET DOMAIN samples
    PROVE  Scores(Recall!ObservationScores(seeds))
<1> DEFINE Given == UNION {samples[s].sources : s \in seeds} \cap DOMAIN samples
           Named == {e \in UNION {samples[s].entities : s \in Given} : ~Recall!Frequent(e)}
           Matched(i) == {s \in samples[i].sources \cap DOMAIN samples :
                            samples[s].entities \cap Named # {}}
           D == {j \in DOMAIN samples \ seeds : samples[j].observation /\ Matched(j) # {}}
<1>1. \A i \in D : Cardinality(Matched(i)) \in Nat
  <2> TAKE i \in D
  <2>1. Matched(i) \in SUBSET Recall!Ids
    BY DEF RecallTypes
  <2> HIDE DEF Matched
  <2> QED BY <2>1, FiniteIds
<1>2. Recall!ObservationScores(seeds) = [i \in D |-> 10 * Cardinality(Matched(i))]
  BY DEF Recall!ObservationScores, Recall!Cardinality, Cardinality
<1>3. D \subseteq Recall!Ids
  BY DEF RecallTypes
<1> HIDE DEF Matched, D
<1> QED BY <1>1, <1>2, <1>3 DEF Scores

\* Scores put together are scores.
LEMMA MergedScored ==
    ASSUME NEW f, NEW g, Scores(f), Scores(g)
    PROVE  /\ Scores(Recall!Merged(f, g))
           /\ DOMAIN Recall!Merged(f, g) = DOMAIN f \cup DOMAIN g
BY DEF Scores, Recall!Merged

\* The best ones of some scores.
LEMMA CutScored ==
    ASSUME NEW f, Scores(f), NEW n \in Nat
    PROVE  Scores([i \in Recall!Range(Recall!First(Recall!Ranked(f), n)) |-> f[i]])
<1> DEFINE q == Recall!First(Recall!Ranked(f), n)
<1>1. Recall!Range(q) \subseteq DOMAIN f
  <2>1. Recall!Ranked(f) \in Rankings
        /\ {Recall!Ranked(f)[k] : k \in DOMAIN Recall!Ranked(f)} = DOMAIN f
    BY RankedHas
  <2>2. {q[k] : k \in DOMAIN q} \subseteq DOMAIN f
    BY <2>1, FirstRanks
  <2> HIDE DEF q
  <2> QED BY <2>2, RecallSets
<1> HIDE DEF q
<1>2. Scores([i \in Recall!Range(q) |-> f[i]])
  BY <1>1 DEF Scores
<1> QED BY <1>2 DEF q

LEMMA GraphScored ==
    ASSUME RecallTypes, NEW seeds \in SUBSET DOMAIN samples, NEW n \in Nat
    PROVE  Scores(Recall!GraphScores(seeds, n))
<1> DEFINE Best(f) == [i \in Recall!Range(Recall!First(Recall!Ranked(f), n)) |-> f[i]]
           entity == Best(Recall!EntityScores(seeds))
           causal == Best(Recall!CausalScores(seeds))
           strong == [i \in DOMAIN entity \cup DOMAIN causal |->
                        Recall!Larger(IF i \in DOMAIN entity THEN entity[i] ELSE 0,
                                      IF i \in DOMAIN causal THEN causal[i] ELSE 0)]
<1>1. Scores(entity) /\ Scores(causal)
  BY EntityScored, CausalScored, CutScored
<1>2. Scores(Best(Recall!FallbackScores(seeds))) /\ Scores(Best(Recall!ObservationScores(seeds)))
  BY FallbackScored, ObservationScored, CutScored
<1>3. Recall!GraphScores(seeds, n)
        = Recall!Merged(Recall!Merged(strong, Best(Recall!FallbackScores(seeds))),
                        Best(Recall!ObservationScores(seeds)))
  BY DEF Recall!GraphScores
<1>4. Scores(strong)
  <2> HIDE DEF entity, causal
  <2> QED BY <1>1 DEF Scores, Recall!Larger
<1> HIDE DEF strong, Best
<1> QED BY <1>2, <1>3, <1>4, MergedScored

\* A set of facts in some order.
LEMMA ListedHas ==
    ASSUME NEW S \in SUBSET Recall!Ids
    PROVE  Recall!SetToSeq(S) \in Rankings /\ {Recall!SetToSeq(S)[k] : k \in DOMAIN Recall!SetToSeq(S)} \subseteq S
<1> DEFINE n == Cardinality(S)
           Lists(f) == f \in [1..n -> S] /\ \A x, y \in DOMAIN f : f[x] = f[y] => x = y
           q == CHOOSE f \in [1..n -> S] : \A x, y \in DOMAIN f : f[x] = f[y] => x = y
<1>1. IsFiniteSet(S) /\ n \in Nat
  BY FiniteIds
<1>2. ExistsBijection(1..n, S)
  BY <1>1, FS_CardinalityType
<1>3. \E f : Lists(f)
  BY <1>2 DEF ExistsBijection, Bijection, Injection, IsInjective
<1>4. Lists(q)
  <2> HIDE DEF n
  <2> QED BY <1>3
<1>5. Recall!SetToSeq(S) = q
  BY DEF Recall!SetToSeq, Recall!IsInjective, Recall!Cardinality, Cardinality
<1> HIDE DEF n, q
<1>6. q \in Seq(Recall!Ids) /\ {q[k] : k \in DOMAIN q} \subseteq S
  BY <1>1, <1>4
<1> QED BY <1>4, <1>5, <1>6 DEF Rankings

\* What the spreading over links keeps: scores, of which the frontier has some.
Spreading(b) == /\ Scores(b.score) /\ b.frontier \in SUBSET DOMAIN b.score /\ b.left \in Int

LEMMA PropagatedIs ==
    ASSUME RecallTypes, NEW score, Scores(score), NEW l \in links,
           l.source \in DOMAIN score, l.target \in DOMAIN samples
    PROVE  Recall!Propagated(score, l) \in Int
<1>1. score[l.source] \in Int /\ l.strength \in Int
  BY LinkIs DEF Scores, RecallTypes
<1>2. samples[l.target].proximity \in Int
  BY SampleIs DEF RecallTypes
<1> DEFINE weight == IF l.kind = "caused_by" THEN 2 ELSE 1
<1>3. weight \in Int
  OBVIOUS
<1> HIDE DEF weight
<1>4. \A x, y \in Int : x * y \in Int /\ x \div 100 \in Int
  OBVIOUS
<1>5. (score[l.source] * l.strength * weight * 7) \div 100 \in Int
  BY <1>1, <1>3, <1>4
<1>6. Recall!Propagated(score, l)
        = Recall!Larger(samples[l.target].proximity,
                        (score[l.source] * l.strength * weight * 7) \div 100)
  BY DEF Recall!Propagated, weight
<1> QED BY <1>2, <1>5, <1>6 DEF Recall!Larger

LEMMA SpreadTyped ==
    ASSUME RecallTypes, NEW b, Spreading(b), b.left > 0
    PROVE  Spreading(Recall!SpreadStep(b))
<1> DEFINE From == Recall!SpreadLinks(b.frontier)
           Reaches(l, i) == l.target = i /\ Recall!Propagated(b.score, l) > Recall!SpreadThreshold
           new == {i \in Recall!Ids \ DOMAIN b.score : \E l \in From : Reaches(l, i)}
           best(i) == {l \in From : /\ Reaches(l, i)
                                    /\ \A k \in From : Reaches(k, i) => k.strength <= l.strength}
           scored == [i \in new |-> Recall!Propagated(b.score, CHOOSE l \in best(i) : TRUE)]
           next == Recall!Range(Recall!First(Recall!SetToSeq(new), b.left))
<1>1. Recall!SpreadStep(b) = [score |-> Recall!Merged(b.score, scored), frontier |-> next,
                              left |-> b.left - Recall!Cardinality(next)]
  BY DEF Recall!SpreadStep
<1>2. From \subseteq links /\ \A l \in From : l.source \in b.frontier /\ l.target \in DOMAIN samples
  BY DEF Recall!SpreadLinks
<1>3. \A i \in new : best(i) # {}
  <2> TAKE i \in new
  <2> DEFINE L == {l \in From : Reaches(l, i)}
  <2>1. L \in SUBSET MCLinks /\ L # {}
    BY <1>2 DEF RecallTypes
  <2>2. \E l \in L : \A k \in L : k.strength <= l.strength
    <3> HIDE DEF L
    <3> QED BY <2>1, Strongest
  <2> HIDE DEF Reaches, From
  <2> QED BY <2>2
<1>4. \A i \in new : scored[i] \in Int
  <2> TAKE i \in new
  <2> DEFINE l == CHOOSE k \in best(i) : TRUE
  <2>1. l \in best(i)
    BY <1>3
  <2>2. l \in links /\ l.source \in DOMAIN b.score /\ l.target \in DOMAIN samples
    BY <1>2, <2>1 DEF Spreading
  <2>3. scored[i] = Recall!Propagated(b.score, l)
    OBVIOUS
  <2> HIDE DEF l, scored
  <2> QED BY <2>2, <2>3, PropagatedIs DEF Spreading
<1>5. new \subseteq Recall!Ids
  OBVIOUS
<1> HIDE DEF new
<1>6. DOMAIN scored = new
  OBVIOUS
<1>7. Scores(scored)
  <2>1. scored = [i \in DOMAIN scored |-> scored[i]]
    OBVIOUS
  <2> HIDE DEF scored
  <2> QED BY <1>4, <1>5, <1>6, <2>1 DEF Scores
<1> HIDE DEF scored
<1>8. next \subseteq new
  <2>1. b.left \in Nat
    BY DEF Spreading
  <2>2. Recall!SetToSeq(new) \in Rankings
        /\ {Recall!SetToSeq(new)[k] : k \in DOMAIN Recall!SetToSeq(new)} \subseteq new
    BY <1>5, ListedHas
  <2> QED BY <2>1, <2>2, FirstRanks, RecallSets
<1> HIDE DEF next
<1>9. Recall!Cardinality(next) \in Nat
  <2>1. next \in SUBSET Recall!Ids
    BY <1>5, <1>8
  <2> QED BY <2>1, FiniteIds, RecallSets
<1>10. /\ Scores(Recall!Merged(b.score, scored))
       /\ DOMAIN Recall!Merged(b.score, scored) = DOMAIN b.score \cup new
  BY <1>6, <1>7, MergedScored DEF Spreading
<1> QED BY <1>1, <1>8, <1>9, <1>10 DEF Spreading

LEMMA SpreadScored ==
    ASSUME RecallTypes, NEW entries \in SUBSET DOMAIN samples, NEW budget \in Nat
    PROVE  Scores(Recall!TemporalSpread(entries, budget))
<1> DEFINE start == [score |-> [i \in entries |-> samples[i].proximity], frontier |-> entries,
                     left |-> budget - Cardinality(entries)]
           Go(b) == IF b.frontier = {} \/ b.left <= 0 THEN b ELSE Recall!SpreadStep(b)
           Run(h, m) == h = [n \in 0..m |-> IF n = 0 THEN start ELSE Go(h[n - 1])]
<1>1. Spreading(start)
  <2>1. \A i \in entries : samples[i].proximity \in Int
    BY SampleIs DEF RecallTypes
  <2>2. Cardinality(entries) \in Nat /\ entries \subseteq Recall!Ids
    BY FiniteIds DEF RecallTypes
  <2>3. Scores([i \in entries |-> samples[i].proximity])
    BY <2>1, <2>2 DEF Scores
  <2> QED BY <2>2, <2>3 DEF Spreading
<1>2. \A b : Spreading(b) => Spreading(Go(b))
  <2> TAKE b
  <2> HAVE Spreading(b)
  <2>1. CASE b.frontier = {} \/ b.left <= 0
    BY <2>1
  <2>2. CASE ~(b.frontier = {} \/ b.left <= 0)
    <3>1. b.left > 0
      BY <2>2 DEF Spreading
    <3>2. Spreading(Recall!SpreadStep(b))
      BY <3>1, SpreadTyped
    <3> QED BY <2>2, <3>2
  <2> QED BY <2>1, <2>2
<1>3. Recall!TemporalSpread(entries, budget) = (CHOOSE h : Run(h, RecallFacts))[RecallFacts].score
  BY DEF Recall!TemporalSpread, Recall!Cardinality, Cardinality
<1> HIDE DEF start, Go
<1>4. ASSUME NEW m \in Nat, NEW h, Run(h, m) PROVE \E g : Run(g, m + 1)
  <2> DEFINE g == [n \in 0..(m + 1) |-> IF n = m + 1 THEN Go(h[m]) ELSE h[n]]
  <2>1. \A n \in 0..m : h[n] = IF n = 0 THEN start ELSE Go(h[n - 1])
    BY <1>4
  <2>2. \A n \in 0..(m + 1) : g[n] = IF n = 0 THEN start ELSE Go(g[n - 1])
    BY <2>1
  <2>3. g = [n \in 0..(m + 1) |-> g[n]]
    OBVIOUS
  <2> HIDE DEF g
  <2>4. Run(g, m + 1)
    BY <2>2, <2>3
  <2> QED BY <2>4
<1>5. \A m \in Nat : \E h : Run(h, m)
  <2> DEFINE T == {m \in Nat : ~\E h : Run(h, m)}
  <2>1. SUFFICES ASSUME T # {} PROVE FALSE
    OBVIOUS
  <2>2. PICK m \in T : \A k \in T : m <= k
    BY <2>1, LeastNumber
  <2>3. CASE m = 0
    <3>1. Run([n \in 0..0 |-> start], 0)
      OBVIOUS
    <3> QED BY <2>3, <3>1
  <2>4. CASE m # 0
    <3> HIDE DEF Run
    <3>1. m - 1 \in Nat /\ m - 1 \notin T
      BY <2>2, <2>4
    <3>2. PICK h : Run(h, m - 1)
      BY <3>1
    <3>3. \E g : Run(g, (m - 1) + 1)
      BY <1>4, <3>1, <3>2
    <3> QED BY <3>3, <2>2
  <2> QED BY <2>3, <2>4
<1> DEFINE run == CHOOSE h : Run(h, RecallFacts)
<1>6. Run(run, RecallFacts)
  <2> HIDE DEF Run
  <2> QED BY <1>5, RecallAssumption
<1> HIDE DEF run
<1>7. \A n \in 0..RecallFacts : run[n] = IF n = 0 THEN start ELSE Go(run[n - 1])
  BY <1>6
<1>8. \A n \in 0..RecallFacts : Spreading(run[n])
  <2> DEFINE T == {n \in 0..RecallFacts : ~Spreading(run[n])}
  <2>1. SUFFICES ASSUME T # {} PROVE FALSE
    OBVIOUS
  <2>2. PICK n \in T : \A k \in T : n <= k
    <3>1. T \subseteq Nat
      BY RecallAssumption
    <3> HIDE DEF T
    <3> QED BY <2>1, <3>1, LeastNumber
  <2>3. CASE n = 0
    BY <1>1, <1>7, <2>2, <2>3
  <2>4. CASE n # 0
    <3>1. n - 1 \in 0..RecallFacts /\ n - 1 \notin T
      BY <2>2, <2>4, RecallAssumption
    <3>2. Spreading(run[n - 1])
      BY <3>1
    <3> QED BY <1>2, <1>7, <2>2, <2>4, <3>2
  <2> QED BY <2>3, <2>4
<1>9. Spreading(run[RecallFacts])
  BY <1>8, RecallAssumption
<1> QED BY <1>3, <1>9 DEF Spreading, run

-----------------------------------------------------------------------------

\* The rows that are similar to the query.
Similar == {i \in DOMAIN samples : samples[i].similarity >= Recall!SemanticThreshold}

\* Once it has run, a semantic search that its budget did not cut short names every
\* row that is similar.
AllHeard ==
    search # "semantic" /\ Len(found["semantic"]) < 2 * query.limit
    => Similar \subseteq Recall!Range(found["semantic"])

RecallInv == RecallTypes /\ AllHeard /\ Recall!RecallExact

\* A search that has ended adds its ranking and leaves the others.
LEMMA SearchKept ==
    ASSUME RecallInv, NEW name \in Recall!Searches, NEW ranking \in Rankings,
           NEW after \in Recall!Searches \cup {"filter"},
           Recall!Search(name, ranking, after),
           name = "semantic" =>
               (Len(ranking) < 2 * query.limit => Similar \subseteq Recall!Range(ranking)),
           after # "semantic"
    PROVE  RecallInv'
<1>1. /\ search = name /\ found' = [found EXCEPT ![name] = ranking] /\ search' = after
      /\ samples' = samples /\ links' = links /\ query' = query /\ results' = results
  BY DEF Recall!Search
<1>2. found \in [Recall!Searches -> Rankings]
  BY DEF RecallInv, RecallTypes
<1>3. /\ found' \in [Recall!Searches -> Rankings]
      /\ found'["semantic"] = IF name = "semantic" THEN ranking ELSE found["semantic"]
  BY <1>1, <1>2 DEF Recall!Searches
<1>4. RecallTypes'
  BY <1>1, <1>3 DEF RecallInv, RecallTypes
<1>5. Similar' = Similar
  BY <1>1 DEF Similar
<1>6. AllHeard'
  BY <1>1, <1>3, <1>5, RecallSets DEF RecallInv, AllHeard, Recall!Range
<1>7. after # "done"
  BY DEF Recall!Searches
<1>8. Recall!RecallExact'
  BY <1>1, <1>7 DEF Recall!RecallExact
<1> QED BY <1>4, <1>6, <1>8 DEF RecallInv

LEMMA SemanticExact ==
    ASSUME RecallInv, Recall!Semantic
    PROVE  RecallInv'
<1> DEFINE score == [i \in {j \in DOMAIN samples : samples[j].similarity >= Recall!SemanticThreshold}
                       |-> samples[i].similarity]
           whole == Recall!Ranked(score)
           ranking == Recall!First(whole, 2 * query.limit)
<1>1. Recall!Search("semantic", ranking, "bm25")
  BY DEF Recall!Semantic
<1>2. Scores(score) /\ DOMAIN score = Similar
  <2>1. \A i \in DOMAIN samples : samples[i].similarity \in Int /\ i \in Recall!Ids
    BY SampleIs DEF RecallInv, RecallTypes
  <2> QED BY <2>1 DEF Scores, Similar
<1>3. 2 * query.limit \in Nat
  BY QueryIs DEF RecallInv, RecallTypes
<1> HIDE DEF score
<1>4. whole \in Rankings /\ {whole[k] : k \in DOMAIN whole} = Similar
  BY <1>2, RankedHas
<1> HIDE DEF whole
<1>5. ranking \in Rankings /\ (Len(ranking) < 2 * query.limit => ranking = whole)
  BY <1>3, <1>4, FirstRanks
<1>6. Len(ranking) < 2 * query.limit => Similar \subseteq Recall!Range(ranking)
  BY <1>4, <1>5, RecallSets
<1> HIDE DEF ranking
<1>7. "semantic" \in Recall!Searches /\ "bm25" \in Recall!Searches
  BY DEF Recall!Searches
<1> QED BY <1>1, <1>5, <1>6, <1>7, SearchKept

LEMMA Bm25Exact ==
    ASSUME RecallInv, Recall!Bm25
    PROVE  RecallInv'
<1> DEFINE hits == {i \in DOMAIN samples : samples[i].worded /\ Recall!Passes(samples[i])}
           ranking == Recall!First(Recall!SetToSeq(hits), 2 * query.limit)
<1>1. Recall!Search("bm25", ranking, "graph")
  BY DEF Recall!Bm25
<1>2. hits \in SUBSET Recall!Ids /\ 2 * query.limit \in Nat
  BY QueryIs DEF RecallInv, RecallTypes
<1> HIDE DEF hits
<1>3. ranking \in Rankings
  BY <1>2, ListedHas, FirstRanks
<1> HIDE DEF ranking
<1>4. "bm25" \in Recall!Searches /\ "graph" \in Recall!Searches
  BY DEF Recall!Searches
<1> QED BY <1>1, <1>3, <1>4, SearchKept

LEMMA GraphExact ==
    ASSUME RecallInv, Recall!Graph
    PROVE  RecallInv'
<1> DEFINE seeds == Recall!Range(Recall!First(found["semantic"], query.limit)) \cap DOMAIN samples
           score == Recall!GraphScores(seeds, 2 * query.limit)
           ranking == IF seeds = {} THEN <<>> ELSE Recall!First(Recall!Ranked(score), 2 * query.limit)
<1>1. Recall!Search("graph", ranking, "temporal")
  BY DEF Recall!Graph
<1>2. seeds \in SUBSET DOMAIN samples /\ 2 * query.limit \in Nat /\ RecallTypes
  BY QueryIs DEF RecallInv, RecallTypes
<1> HIDE DEF seeds
<1>3. Scores(score)
  BY <1>2, GraphScored
<1> HIDE DEF score
<1>4. Recall!First(Recall!Ranked(score), 2 * query.limit) \in Rankings
  BY <1>2, <1>3, RankedHas, FirstRanks
<1>5. <<>> \in Rankings
  BY DEF Rankings
<1>6. ranking \in Rankings
  BY <1>4, <1>5
<1> HIDE DEF ranking
<1>7. "graph" \in Recall!Searches /\ "temporal" \in Recall!Searches
  BY DEF Recall!Searches
<1> QED BY <1>1, <1>6, <1>7, SearchKept

LEMMA TemporalExact ==
    ASSUME RecallInv, Recall!Temporal
    PROVE  RecallInv'
<1>1. PICK entries \in SUBSET Recall!TemporalEntries :
        Recall!Search("temporal",
            IF query.timed THEN Recall!Ranked(Recall!TemporalSpread(entries, 2 * query.limit))
            ELSE <<>>, "filter")
  BY DEF Recall!Temporal
<1> DEFINE score == Recall!TemporalSpread(entries, 2 * query.limit)
           ranking == IF query.timed THEN Recall!Ranked(score) ELSE <<>>
<1>2. entries \in SUBSET DOMAIN samples /\ 2 * query.limit \in Nat /\ RecallTypes
  BY <1>1, QueryIs DEF RecallInv, RecallTypes, Recall!TemporalEntries
<1>3. Scores(score)
  BY <1>2, SpreadScored
<1>4. Recall!Search("temporal", ranking, "filter")
  BY <1>1
<1> HIDE DEF score
<1>5. Recall!Ranked(score) \in Rankings
  BY <1>3, RankedHas
<1>6. <<>> \in Rankings
  BY DEF Rankings
<1>7. ranking \in Rankings
  BY <1>5, <1>6
<1> HIDE DEF ranking
<1>8. "temporal" \in Recall!Searches
  BY DEF Recall!Searches
<1> QED BY <1>4, <1>7, <1>8, SearchKept

\* The places of an id in a ranking have a least one.
LEMMA PositionIs ==
    ASSUME NEW q \in Rankings, NEW i \in Recall!Range(q)
    PROVE  Recall!Position(q, i) \in Nat
<1> DEFINE I == {k \in 1..Len(q) : q[k] = i}
<1>1. Recall!Position(q, i) = IF I # {} THEN CHOOSE k \in I : \A m \in I : k <= m ELSE 0
  BY DEF Recall!Position, Recall!SelectInSeq, Recall!Min
<1>2. Len(q) \in Nat
  BY DEF Rankings
<1>3. I \subseteq Nat
  BY <1>2
<1> HIDE DEF I
<1>4. I # {} => \E k \in I : \A m \in I : k <= m
  BY <1>3, LeastNumber
<1>5. I # {} => (CHOOSE k \in I : \A m \in I : k <= m) \in I
  BY <1>4
<1>6. CASE I # {}
  BY <1>1, <1>3, <1>5, <1>6
<1>7. CASE I = {}
  BY <1>1, <1>7
<1> QED BY <1>6, <1>7

\* The fusion gives a number to every id that a search found.
LEMMA FusedScored ==
    ASSUME RecallTypes
    PROVE  /\ Scores(Recall!Fused)
           /\ Recall!Range(found["semantic"]) \subseteq DOMAIN Recall!Fused
<1> DEFINE given(s, i) == IF i \in Recall!Range(found[s])
                          THEN 1000000 \div (60 + Recall!Position(found[s], i)) ELSE 0
           all == UNION {Recall!Range(found[s]) : s \in Recall!Searches}
<1>1. \A s \in Recall!Searches : found[s] \in Rankings
  BY DEF RecallTypes
<1>2. \A s \in Recall!Searches : Recall!Range(found[s]) \subseteq Recall!Ids
  <2> TAKE s \in Recall!Searches
  <2>1. found[s] \in Seq(Recall!Ids)
    BY <1>1 DEF Rankings
  <2>2. {found[s][k] : k \in DOMAIN found[s]} \subseteq Recall!Ids
    BY <2>1
  <2> QED BY <2>2, RecallSets
<1>3. all \subseteq Recall!Ids
  BY <1>2
<1>4. \A s \in Recall!Searches : \A i : given(s, i) \in Int
  <2> TAKE s \in Recall!Searches
  <2> TAKE i
  <2>1. CASE i \in Recall!Range(found[s])
    <3> DEFINE p == Recall!Position(found[s], i)
    <3>1. p \in Nat
      BY <1>1, <2>1, PositionIs
    <3> HIDE DEF p
    <3>2. 1000000 \div (60 + p) \in Int
      BY <3>1
    <3> QED BY <2>1, <3>2 DEF p
  <2>2. CASE i \notin Recall!Range(found[s])
    BY <2>2
  <2> QED BY <2>1, <2>2
<1>5. {"semantic", "bm25", "graph", "temporal"} = Recall!Searches
  BY DEF Recall!Searches
<1>6. Recall!Fused = [i \in all |-> given("semantic", i) + given("bm25", i) + given("graph", i)
                                     + given("temporal", i)]
  BY DEF Recall!Fused
<1>7. \A i : given("semantic", i) + given("bm25", i) + given("graph", i) + given("temporal", i) \in Int
  <2> HIDE DEF given
  <2>1. \A i : /\ given("semantic", i) \in Int /\ given("bm25", i) \in Int
               /\ given("graph", i) \in Int /\ given("temporal", i) \in Int
    BY <1>4, <1>5
  <2> QED BY <2>1
<1>8. Recall!Range(found["semantic"]) \subseteq all
  BY <1>5
<1> HIDE DEF all, given
<1> QED BY <1>3, <1>6, <1>7, <1>8 DEF Scores

LEMMA FilterExact ==
    ASSUME RecallInv, Recall!Filter
    PROVE  RecallInv'
<1> DEFINE merged == Recall!First(Recall!Ranked(Recall!Fused), Candidates)
           rest == Recall!Filtered(merged)
<1>1. PICK kept \in SUBSET rest :
        /\ Cardinality(kept) = Recall!Smaller(Cardinality(rest), Recall!Larger(1, MaxTokens))
        /\ results' = kept
  BY RecallSets DEF Recall!Filter
<1>2. /\ search = "filter" /\ search' = "done" /\ samples' = samples /\ links' = links
      /\ query' = query /\ found' = found
  BY DEF Recall!Filter
<1>3. RecallTypes /\ AllHeard
  BY DEF RecallInv
<1>4. /\ Scores(Recall!Fused) /\ Recall!Range(found["semantic"]) \subseteq DOMAIN Recall!Fused
  BY <1>3, FusedScored
<1>5. /\ Recall!Range(merged) \subseteq DOMAIN Recall!Fused
      /\ Cardinality(DOMAIN Recall!Fused) <= Candidates
         => Recall!Range(merged) = DOMAIN Recall!Fused
  <2> DEFINE whole == Recall!Ranked(Recall!Fused)
  <2>1. /\ whole \in Rankings /\ Len(whole) = Cardinality(DOMAIN Recall!Fused)
        /\ {whole[k] : k \in DOMAIN whole} = DOMAIN Recall!Fused
    BY <1>4, RankedHas
  <2>2. merged = Recall!First(whole, Candidates)
    OBVIOUS
  <2> HIDE DEF whole, merged
  <2>3. /\ {merged[k] : k \in DOMAIN merged} \subseteq {whole[k] : k \in DOMAIN whole}
        /\ Len(whole) <= Candidates => merged = whole
    <3>1. Candidates \in Nat
      BY RecallAssumption
    <3>2. /\ {Recall!First(whole, Candidates)[k] : k \in DOMAIN Recall!First(whole, Candidates)}
                 \subseteq {whole[k] : k \in DOMAIN whole}
          /\ Len(whole) <= Candidates => Recall!First(whole, Candidates) = whole
      BY <2>1, <3>1, FirstRanks
    <3> QED BY <2>2, <3>2
  <2> QED BY <2>1, <2>3, RecallSets
<1>6. rest = {i \in Recall!Range(merged) : i \in DOMAIN samples /\ Recall!Passes(samples[i])}
  BY DEF Recall!Filtered
<1> HIDE DEF merged, rest
<1>7. rest \in SUBSET Recall!Ids /\ kept \in SUBSET Recall!Ids
  BY <1>3, <1>6 DEF RecallTypes
<1>8. Cardinality(kept) < MaxTokens => kept = rest
  <2>1. IsFiniteSet(rest) /\ Cardinality(rest) \in Nat /\ Cardinality(kept) \in Nat
    BY <1>7, FiniteIds
  <2>2. SUFFICES ASSUME Cardinality(kept) < MaxTokens PROVE Cardinality(kept) = Cardinality(rest)
    BY <2>1, FS_Subset
  <2> QED BY <1>1, <2>1, <2>2, RecallAssumption DEF Recall!Smaller, Recall!Larger
<1>9. RecallTypes'
  BY <1>1, <1>2, <1>3, <1>7 DEF RecallTypes
<1>10. \A r : Recall!Passes(r)' <=> Recall!Passes(r)
  BY <1>2 DEF Recall!Passes, Recall!TagsPass
<1>11. Recall!Fused' = Recall!Fused /\ Similar' = Similar
  BY <1>2 DEF Recall!Fused, Similar
<1>12. AllHeard'
  BY <1>2, <1>3, <1>11 DEF AllHeard
<1>13. kept \subseteq {i \in Recall!Ids : i \in DOMAIN samples /\ Recall!Passes(samples[i])}
  BY <1>1, <1>6, <1>7
<1>14. ASSUME Len(found["semantic"]) < 2 * query.limit,
              Cardinality(DOMAIN Recall!Fused) <= Candidates, Cardinality(kept) < MaxTokens
       PROVE  {i \in DOMAIN samples : samples[i].similarity >= Recall!SemanticThreshold
                                      /\ Recall!Passes(samples[i])} \subseteq kept
  <2>1. Similar \subseteq Recall!Range(merged)
    BY <1>2, <1>3, <1>4, <1>5, <1>14 DEF AllHeard
  <2> QED BY <1>6, <1>8, <1>14, <2>1 DEF Similar
<1>15. Recall!RecallExact'
  <2>1. /\ Recall!Cardinality(kept) = Cardinality(kept)
        /\ Recall!Cardinality(DOMAIN Recall!Fused) = Cardinality(DOMAIN Recall!Fused)
    BY RecallSets
  <2>2. Recall!SemanticThreshold' = Recall!SemanticThreshold
    BY DEF Recall!SemanticThreshold
  <2> QED BY <1>1, <1>2, <1>10, <1>11, <1>13, <1>14, <2>1, <2>2 DEF Recall!RecallExact
<1> QED BY <1>9, <1>12, <1>15 DEF RecallInv

LEMMA DeletionExact ==
    ASSUME RecallInv, Recall!DeleteObservation
    PROVE  RecallInv'
<1>1. PICK i \in DOMAIN samples :
        /\ search # "done" /\ samples' = [j \in DOMAIN samples \ {i} |-> samples[j]]
        /\ links' = {l \in links : i \notin {l.source, l.target}}
        /\ query' = query /\ search' = search /\ found' = found /\ results' = results
  BY DEF Recall!DeleteObservation
<1>2. RecallTypes'
  BY <1>1 DEF RecallInv, RecallTypes
<1>3. Similar' \subseteq Similar
  BY <1>1 DEF Similar
<1>4. AllHeard'
  BY <1>1, <1>3 DEF RecallInv, AllHeard, Recall!Range
<1>5. Recall!RecallExact'
  BY <1>1 DEF Recall!RecallExact
<1> QED BY <1>2, <1>4, <1>5 DEF RecallInv

\* Every step of the recall keeps the invariant.
LEMMA RecallStep ==
    ASSUME RecallInv, Recall!Next
    PROVE  RecallInv'
BY SemanticExact, Bm25Exact, GraphExact, TemporalExact, FilterExact, DeletionExact
   DEF Recall!Next

LEMMA RecallRests ==
    ASSUME RecallInv, UNCHANGED recallVars
    PROVE  RecallInv'
<1>1. /\ samples' = samples /\ links' = links /\ query' = query /\ search' = search
      /\ found' = found /\ results' = results
  BY DEF recallVars
<1>2. RecallTypes'
  BY <1>1 DEF RecallInv, RecallTypes
<1>3. AllHeard'
  BY <1>1 DEF RecallInv, AllHeard, Similar, Recall!Range
<1>4. Recall!RecallExact'
  BY <1>1 DEF RecallInv, Recall!RecallExact, Recall!Passes, Recall!TagsPass, Recall!Fused
<1> QED BY <1>2, <1>3, <1>4 DEF RecallInv

LEMMA RecallStarts == Init => RecallInv
<1> SUFFICES ASSUME Init PROVE RecallInv
  OBVIOUS
<1>1. search = "semantic" /\ found = [s \in Recall!Searches |-> <<>>] /\ results = {}
  BY DEF Init, Recall!Init
<1>2. links \subseteq MCLinks
  BY DEF Init, Recall!Init
<1>3. query \in MCQueries
  <2>1. \E q : q \in MCQueries
    BY DEF MCQueries
  <2> QED BY <2>1 DEF Init, Recall!Init
<1>4. DOMAIN samples \subseteq Recall!Ids /\ \A i \in DOMAIN samples : samples[i] \in MCSamples
  BY DEF Init, Recall!Init
<1>5. <<>> \in Rankings /\ search \in Recall!Searches
  BY <1>1 DEF Rankings, Recall!Searches
<1>6. RecallTypes
  BY <1>1, <1>2, <1>3, <1>4, <1>5 DEF RecallTypes
<1>7. AllHeard /\ Recall!RecallExact
  BY <1>1 DEF AllHeard, Recall!RecallExact
<1> QED BY <1>6, <1>7 DEF RecallInv

\* A recall returns nothing that its filters exclude; and when neither the budget of the
\* semantic search, nor the candidates, nor the tokens cut it short, it returns whatever is
\* similar to the query and passes them.
THEOREM RecallsExactly == Spec => []RecallExact
<1>1. RecallInv /\ [Next]_allVars => RecallInv'
  <2> SUFFICES ASSUME RecallInv, [Next]_allVars PROVE RecallInv'
    OBVIOUS
  <2>1. CASE part = "recall" /\ Recall!Next
    BY <2>1, RecallStep
  <2>2. CASE UNCHANGED recallVars
    BY <2>2, RecallRests
  <2>3. (part = "recall" /\ Recall!Next) \/ UNCHANGED recallVars
    BY DEF Next, allVars
  <2> QED BY <2>1, <2>2, <2>3
<1>2. RecallInv => RecallExact
  BY DEF RecallInv, RecallExact
<1> QED BY RecallStarts, <1>1, <1>2, PTL DEF Spec, allVars

-----------------------------------------------------------------------------
(* The types of what is stored *)

\* The rest of the tables of names.
CompanyTypes ==
    /\ company \subseteq {p \in SUBSET DOMAIN entities : Cardinality(p) = 2}
    /\ \A f \in DOMAIN batch : batch[f].names \in Seq(MCNames)
    /\ linked \subseteq (DOMAIN batch) \X DOMAIN entities
    /\ batches \in 0..MaxBatches /\ crashes \in 0..MaxCrashes

\* A similar name is that of an entity.
LEMMA SimilarIs ==
    ASSUME NEW name, NEW nearby, Resolver!Similar(name, nearby) # 0
    PROVE  Resolver!Similar(name, nearby) \in DOMAIN entities
<1>1. PICK alike :
        alike = {k \in DOMAIN entities :
                   /\ \A other \in DOMAIN entities :
                        /\ Resolver!Score(name, other, nearby) <= Resolver!Score(name, k, nearby)
                        /\ other < k => Resolver!Score(name, other, nearby) < Resolver!Score(name, k, nearby)
                   /\ Resolver!Score(name, k, nearby) >= 5 * 82}
  OBVIOUS
<1>2. Resolver!Similar(name, nearby) = IF alike = {} THEN 0 ELSE CHOOSE k \in alike : TRUE
  BY <1>1 DEF Resolver!Similar, Resolver!None
<1>3. Resolver!Similar(name, nearby) \in alike
  <2>1. alike # {}
    BY <1>2
  <2> QED BY <1>2, <2>1
<1> QED BY <1>1, <1>3

\* The names of the facts that a batch is made of.
LEMMA BatchNames ==
    ASSUME NEW facts \in Resolver!BoundedSeq({names \in Resolver!BoundedSeq(MCNames, 2) :
                                names # <<>> /\ Resolver!IsInjective(names)}, 2)
    PROVE  \A f \in DOMAIN facts : facts[f] \in Seq(MCNames)
<1>1. \A names \in Resolver!BoundedSeq(MCNames, 2) : names \in Seq(MCNames)
  <2> SUFFICES ASSUME NEW k \in 0..2, NEW names \in [1..k -> MCNames] PROVE names \in Seq(MCNames)
    BY DEF Resolver!BoundedSeq, Resolver!SeqOf
  <2> QED OBVIOUS
<1>2. PICK k \in 0..2 : facts \in [1..k -> {names \in Resolver!BoundedSeq(MCNames, 2) :
                              names # <<>> /\ Resolver!IsInjective(names)}]
  BY DEF Resolver!BoundedSeq, Resolver!SeqOf
<1> QED BY <1>1, <1>2

LEMMA PairsCount == \A a, b : a # b => Cardinality({a, b}) = 2
<1> SUFFICES ASSUME NEW a, NEW b, a # b PROVE Cardinality({a, b}) = 2
  OBVIOUS
<1>1. IsFiniteSet({a}) /\ Cardinality({a}) = 1
  BY FS_Singleton
<1>2. Cardinality({a} \cup {b}) = 2
  BY <1>1, FS_AddElement
<1>3. {a} \cup {b} = {a, b}
  OBVIOUS
<1> QED BY <1>2, <1>3

LEMMA CompanyStep ==
    ASSUME NameInv, CompanyTypes, Resolver!Next
    PROVE  CompanyTypes'
<1>1. CASE Resolver!Start
  <2>1. PICK facts \in Resolver!BoundedSeq({names \in Resolver!BoundedSeq(MCNames, 2) :
                                  names # <<>> /\ Resolver!IsInjective(names)}, 2) :
          batch' = [f \in DOMAIN facts |-> [names |-> facts[f], left |-> facts[f]]]
    BY <1>1 DEF Resolver!Start
  <2>2. \A f \in DOMAIN facts : facts[f] \in Seq(MCNames)
    BY BatchNames
  <2>3. /\ linked' = {} /\ batches' = batches + 1 /\ batches < MaxBatches
        /\ UNCHANGED <<entities, company, crashes>>
    BY <1>1 DEF Resolver!Start
  <2>4. \A f \in DOMAIN batch' : batch'[f].names \in Seq(MCNames)
    BY <2>1, <2>2
  <2>5. batches' \in 0..MaxBatches
    BY <2>3, FactAssumption DEF CompanyTypes
  <2> QED BY <2>3, <2>4, <2>5 DEF CompanyTypes
<1>2. CASE Resolver!Finish
  <2>1. /\ company' = company \cup
             UNION {{{l[2], k[2]} : k \in {j \in linked : j[1] = l[1] /\ j[2] # l[2]}} : l \in linked}
        /\ batch' = <<>> /\ linked' = {} /\ UNCHANGED <<entities, batches, crashes>>
    BY <1>2 DEF Resolver!Finish
  <2>2. ASSUME NEW l \in linked, NEW k \in linked, k[2] # l[2]
        PROVE  {l[2], k[2]} \in {p \in SUBSET DOMAIN entities : Cardinality(p) = 2}
    <3>1. l[2] \in DOMAIN entities /\ k[2] \in DOMAIN entities
      BY DEF CompanyTypes
    <3>2. Cardinality({l[2], k[2]}) = 2
      BY <2>2, PairsCount
    <3> QED BY <3>1, <3>2
  <2>3. company' \subseteq {p \in SUBSET DOMAIN entities : Cardinality(p) = 2}
    BY <2>1, <2>2 DEF CompanyTypes
  <2> QED BY <2>1, <2>3 DEF CompanyTypes
<1>3. CASE Resolver!Crash
  <2>1. /\ batch' = <<>> /\ linked' = {} /\ UNCHANGED <<entities, company, batches>>
        /\ crashes' = crashes + 1 /\ crashes < MaxCrashes
    BY <1>3 DEF Resolver!Crash
  <2>2. crashes' \in 0..MaxCrashes
    BY <2>1, FactAssumption DEF CompanyTypes
  <2> QED BY <2>1, <2>2 DEF CompanyTypes
<1>4. CASE Resolver!Resolve
  <2>1. PICK f \in DOMAIN batch : \E name, nearby :
          /\ batch[f].left # <<>> /\ name = Head(batch[f].left)
          /\ \/ /\ Resolver!Known(name) # 0 /\ entities' = entities
                /\ linked' = linked \cup {<<f, Resolver!Known(name)>>}
             \/ /\ Resolver!Similar(name, nearby) # 0 /\ entities' = entities
                /\ linked' = linked \cup {<<f, Resolver!Similar(name, nearby)>>}
             \/ /\ entities' = Append(entities, name)
                /\ linked' = linked \cup {<<f, Len(entities) + 1>>}
          /\ batch' = [batch EXCEPT ![f].left = Tail(@)]
    BY <1>4 DEF Resolver!Resolve, Resolver!None
  <2>a. PICK name, nearby :
          /\ batch[f].left # <<>> /\ name = Head(batch[f].left)
          /\ \/ /\ Resolver!Known(name) # 0 /\ entities' = entities
                /\ linked' = linked \cup {<<f, Resolver!Known(name)>>}
             \/ /\ Resolver!Similar(name, nearby) # 0 /\ entities' = entities
                /\ linked' = linked \cup {<<f, Resolver!Similar(name, nearby)>>}
             \/ /\ entities' = Append(entities, name)
                /\ linked' = linked \cup {<<f, Len(entities) + 1>>}
          /\ batch' = [batch EXCEPT ![f].left = Tail(@)]
    BY <2>1
  <2>2. PICK id :
          /\ linked' = linked \cup {<<f, id>>}
          /\ \/ id # 0 /\ id = Resolver!Known(name) /\ entities' = entities
             \/ id # 0 /\ id = Resolver!Similar(name, nearby) /\ entities' = entities
             \/ id = Len(entities) + 1 /\ entities' = Append(entities, name)
    BY <2>a
  <2>3. name \in MCNames /\ entities \in Seq(MCNames)
    <3>1. batch[f].left \in Seq(MCNames) /\ entities \in Seq(MCNames)
      BY DEF NameInv, NameTypes
    <3> QED BY <2>a, <3>1
  <2>4. id = Resolver!Known(name) /\ id # 0 => id \in DOMAIN entities
    <3>1. \/ Resolver!Exact(name) = 0
          \/ Resolver!Exact(name) \in 1..Len(entities)
      BY ExactIs DEF NameInv
    <3>2. cache[name] \in 0..Len(entities)
      BY <2>3 DEF NameInv, NameTypes, Places
    <3> QED BY <2>3, <3>1, <3>2 DEF Resolver!Known, Resolver!None
  <2>5. id \in DOMAIN entities' /\ DOMAIN entities \subseteq DOMAIN entities'
    BY <2>2, <2>3, <2>4, SimilarIs
  <2>6. DOMAIN batch' = DOMAIN batch /\ \A g \in DOMAIN batch' : batch'[g].names = batch[g].names
    BY <2>a
  <2>7. linked' \subseteq (DOMAIN batch') \X DOMAIN entities'
    BY <2>2, <2>5, <2>6 DEF CompanyTypes
  <2>8. UNCHANGED <<company, batches, crashes>>
    BY <1>4 DEF Resolver!Resolve
  <2>9. company \subseteq {p \in SUBSET DOMAIN entities' : Cardinality(p) = 2}
    BY <2>5 DEF CompanyTypes
  <2> QED BY <2>6, <2>7, <2>8, <2>9 DEF CompanyTypes
<1> QED BY <1>1, <1>2, <1>3, <1>4 DEF Resolver!Next

LEMMA NamesHaveType == NameInv /\ CompanyTypes => Resolver!TypeOK
<1> SUFFICES ASSUME NameInv, CompanyTypes PROVE Resolver!TypeOK
  OBVIOUS
<1>1. entities \in Seq(MCNames) /\ \A x, y \in DOMAIN entities : entities[x] = entities[y] => x = y
  BY DEF NameInv, NameTypes
<1>2. {0} \cup DOMAIN entities = Places
  BY <1>1 DEF Places
<1>3. Resolver!IsInjective(entities)
  BY <1>1 DEF Resolver!IsInjective
<1>4. company \subseteq {p \in SUBSET DOMAIN entities : Resolver!Cardinality(p) = 2}
  BY DEF CompanyTypes, Resolver!Cardinality, Cardinality
<1> QED BY <1>1, <1>2, <1>3, <1>4 DEF NameInv, NameTypes, CompanyTypes, Resolver!TypeOK, Resolver!None

LEMMA CompanyStart == Resolver!Init => CompanyTypes
BY FactAssumption DEF Resolver!Init, CompanyTypes

LEMMA CompanyRests == CompanyTypes /\ UNCHANGED resolverVars => CompanyTypes'
BY DEF CompanyTypes, resolverVars

\* What is true of the store.
LEMMA StoreHasType == StoreInv => Store!TypeOK
<1> SUFFICES ASSUME StoreInv PROVE Store!TypeOK
  OBVIOUS
<1>1. StoreTypes
  BY DEF StoreInv
<1>2. issued \in 0..MaxFacts /\ MaxFacts \in Nat /\ jobs \in 0..MaxJobs /\ MaxJobs \in Nat /\ queue \in 0..jobs
  BY <1>1, StoreAssumption DEF StoreTypes
<1>3. DOMAIN rows \subseteq Store!Ids /\ queue \in 0..MaxJobs
  BY <1>1, <1>2 DEF StoreTypes, Store!Ids
<1>4. /\ job.at \in {"idle"} \cup Store!JobSteps /\ job.facts \subseteq Store!Fact
      /\ DOMAIN runs = Runners /\ \A w \in DOMAIN runs : runs[w].at \in {"idle"} \cup Store!RunSteps
  BY <1>1 DEF StoreTypes, JobStates, RunStates
<1> QED BY <1>1, <1>3, <1>4 DEF StoreTypes, Store!TypeOK, Store!None, Runners

LEMMA RecallHasType == RecallInv => Recall!TypeOK
<1> SUFFICES ASSUME RecallInv PROVE Recall!TypeOK
  OBVIOUS
<1>1. RecallTypes
  BY DEF RecallInv
<1>2. ASSUME NEW s \in Recall!Searches
      PROVE  Recall!Range(found[s]) \subseteq Recall!Ids /\ Recall!IsInjective(found[s])
  <2>1. found[s] \in Seq(Recall!Ids) /\ \A x, y \in DOMAIN found[s] : found[s][x] = found[s][y] => x = y
    BY <1>1 DEF RecallTypes, Rankings
  <2>2. {found[s][k] : k \in DOMAIN found[s]} \subseteq Recall!Ids
    BY <2>1
  <2> QED BY <2>1, <2>2, RecallSets
<1> QED BY <1>1, <1>2 DEF RecallTypes, Recall!TypeOK

-----------------------------------------------------------------------------
(* The facts of a chunk *)

\* The places picked out of some, in their order.
LEMMA NthPlaces ==
    ASSUME NEW n \in Int, NEW K \in SUBSET (1..n)
    PROVE  /\ Cardinality(K) \in Nat /\ Extract!Cardinality(K) = Cardinality(K)
           /\ \A x \in 1..Cardinality(K) : Extract!Nth(K, x) \in K
           /\ \A x, y \in 1..Cardinality(K) : x < y => Extract!Nth(K, x) < Extract!Nth(K, y)
<1> DEFINE score == [i \in K |-> 0]
           q == Recall!Ranked(score)
<1>1. IsFiniteSet(K) /\ Cardinality(K) \in Nat /\ K \subseteq Int
  <2>1. 1 \in Int /\ n \in Int
    OBVIOUS
  <2>2. IsFiniteSet(1..n)
    BY <2>1, FS_Interval
  <2>3. IsFiniteSet(K) /\ Cardinality(K) \in Nat
    BY <2>2, FS_Subset, FS_CardinalityType
  <2> QED BY <2>3
<1>2. score \in [DOMAIN score -> Int] /\ DOMAIN score = K
  OBVIOUS
<1>3. \A i, j \in K : Recall!Ahead(score, j, i) <=> j < i
  BY DEF Recall!Ahead
<1>4. \A S : Extract!Cardinality(S) = Cardinality(S) /\ Recall!Cardinality(S) = Cardinality(S)
  BY DEF Extract!Cardinality, Recall!Cardinality, Cardinality
<1>5. \A x \in 1..Cardinality(K) :
        q[x] = CHOOSE i \in K : Cardinality({j \in K : Recall!Ahead(score, j, i)}) = x - 1
  <2> HIDE DEF score
  <2> QED BY <1>2, <1>4 DEF Recall!Ranked
<1>6. \A i \in K : {j \in K : Recall!Ahead(score, j, i)} = {j \in K : j < i}
  <2> HIDE DEF score
  <2> QED BY <1>3
<1>7. \A x : (CHOOSE i \in K : Cardinality({j \in K : Recall!Ahead(score, j, i)}) = x - 1)
           = (CHOOSE i \in K : Cardinality({j \in K : j < i}) = x - 1)
  <2> HIDE DEF score
  <2> QED BY <1>6
<1>8. \A x \in 1..Cardinality(K) : Extract!Nth(K, x) = q[x]
  <2>1. \A x : Extract!Nth(K, x) = CHOOSE i \in K : Cardinality({j \in K : j < i}) = x - 1
    BY <1>4 DEF Extract!Nth
  <2> HIDE DEF q
  <2> QED BY <1>5, <1>7, <2>1
<1> HIDE DEF score
<1>9. /\ q \in Seq(K) /\ Len(q) = Cardinality(K)
      /\ \A x, y \in DOMAIN q : x < y => Recall!Ahead(score, q[x], q[y])
  BY <1>1, <1>2, RankedLists
<1> HIDE DEF q
<1>10. \A x \in 1..Cardinality(K) : x \in DOMAIN q /\ q[x] \in K
  BY <1>9
<1> QED BY <1>1, <1>3, <1>4, <1>8, <1>9, <1>10

\* A piece: its facts are of its own statements, in their order.
PieceFits(p) ==
    /\ p \in Extract!Piece /\ p.from <= p.to
    /\ \A k \in DOMAIN p.facts : p.facts[k].of \in p.from..p.to
    /\ \A j, k \in DOMAIN p.facts : j < k => p.facts[j].of < p.facts[k].of

PiecesFit(q) ==
    /\ q \in Seq(Extract!Piece)
    /\ \A k \in DOMAIN q : PieceFits(q[k])
    /\ \A j, k \in DOMAIN q : j < k => q[j].to < q[k].from

ExtractInv ==
    /\ lengths \in Seq(1..MaxStatements) /\ Len(lengths) \in 1..MaxChunks
    /\ tasks \in [1..Len(lengths) -> [at : {"waiting", "active", "done"}, pieces : Seq(Extract!Piece)]]
    /\ \A c \in 1..Len(lengths) : PiecesFit(tasks[c].pieces)
    /\ outcome \in {"running", "raised", "gathered"}

\* What the model answers, as facts.
LEMMA ParsedFits ==
    ASSUME NEW p, PieceFits(p), NEW entries \in Extract!Entries(p.to - p.from + 1)
    PROVE  /\ Extract!Parsed(p, entries) \in Seq(Extract!Fact)
           /\ \A k \in DOMAIN Extract!Parsed(p, entries) :
                Extract!Parsed(p, entries)[k].of \in p.from..p.to
           /\ \A j, k \in DOMAIN Extract!Parsed(p, entries) :
                j < k => Extract!Parsed(p, entries)[j].of < Extract!Parsed(p, entries)[k].of
<1> DEFINE n == p.to - p.from + 1
           kept == {i \in DOMAIN entries : entries[i].is = "fact"}
           cause(i) == Extract!EarlierCause(entries, i)
           fact(i) == [of |-> p.from + i - 1, cause |-> cause(i),
                       meant |-> IF cause(i) = 0 THEN 0 ELSE p.from + cause(i) - 1]
           facts == [k \in 1..Extract!Cardinality(kept) |-> fact(Extract!Nth(kept, k))]
<1>1. Extract!Parsed(p, entries) = facts
  BY DEF Extract!Parsed
<1>2. /\ p.from \in 1..MaxStatements /\ p.to \in 1..MaxStatements /\ p.from <= p.to
      /\ MaxStatements \in Nat
  BY FactAssumption DEF PieceFits, Extract!Piece
<1>3. n \in Int /\ DOMAIN entries = 1..n /\ \A i \in 1..n : entries[i].cause \in 0..(n - 1)
  BY <1>2 DEF Extract!Entries
<1>4. kept \in SUBSET (1..n)
  BY <1>3
<1>5. \A i \in 1..n : cause(i) \in 0..(n - 1) /\ cause(i) < i
  BY <1>2, <1>3 DEF Extract!EarlierCause
<1>6. \A i \in 1..n : fact(i) \in Extract!Fact /\ fact(i).of \in p.from..p.to
  <2> TAKE i \in 1..n
  <2>1. p.from + i - 1 \in p.from..p.to /\ p.from + i - 1 \in 1..MaxStatements
    BY <1>2
  <2>2. cause(i) \in 0..MaxStatements
    BY <1>2, <1>5
  <2>3. cause(i) # 0 => p.from + cause(i) - 1 \in 1..MaxStatements
    BY <1>2, <1>5
  <2> HIDE DEF cause
  <2> QED BY <2>1, <2>2, <2>3 DEF Extract!Fact
<1> HIDE DEF kept, n
<1>7. /\ Cardinality(kept) \in Nat /\ Extract!Cardinality(kept) = Cardinality(kept)
      /\ \A x \in 1..Cardinality(kept) : Extract!Nth(kept, x) \in kept
      /\ \A x, y \in 1..Cardinality(kept) : x < y => Extract!Nth(kept, x) < Extract!Nth(kept, y)
  BY <1>3, <1>4, NthPlaces
<1>8. \A i : fact(i).of = p.from + i - 1
  OBVIOUS
<1> HIDE DEF fact
<1>9. \A k \in 1..Cardinality(kept) : Extract!Nth(kept, k) \in 1..n
  BY <1>4, <1>7
<1>10. DOMAIN facts = 1..Cardinality(kept) /\ \A k \in DOMAIN facts : facts[k] = fact(Extract!Nth(kept, k))
  BY <1>7
<1>11. facts \in Seq(Extract!Fact)
  BY <1>6, <1>7, <1>9, <1>10
<1> HIDE DEF facts
<1>12. \A k \in DOMAIN facts : facts[k].of \in p.from..p.to
  BY <1>6, <1>9, <1>10
<1>13. \A j, k \in DOMAIN facts : j < k => facts[j].of < facts[k].of
  <2> TAKE j, k \in DOMAIN facts
  <2> HAVE j < k
  <2>1. Extract!Nth(kept, j) < Extract!Nth(kept, k)
    BY <1>7, <1>10
  <2>2. Extract!Nth(kept, j) \in 1..n /\ Extract!Nth(kept, k) \in 1..n
    BY <1>9, <1>10
  <2> QED BY <1>2, <1>3, <1>8, <1>10, <2>1, <2>2
<1> QED BY <1>1, <1>11, <1>12, <1>13

\* A piece that goes on in the place of another.
LEMMA PieceSet ==
    ASSUME ExtractInv, NEW c \in 1..Len(lengths), NEW k \in DOMAIN tasks[c].pieces, NEW p,
           PieceFits(p), p.from = tasks[c].pieces[k].from, p.to = tasks[c].pieces[k].to,
           Extract!SetPiece(c, k, p), UNCHANGED <<lengths, outcome>>
    PROVE  ExtractInv'
<1> DEFINE q == tasks[c].pieces
           r == [q EXCEPT ![k] = p]
<1>1. /\ tasks[c] \in [at : {"waiting", "active", "done"}, pieces : Seq(Extract!Piece)]
      /\ PiecesFit(q)
  BY DEF ExtractInv
<1>2. tasks' = [tasks EXCEPT ![c] = [tasks[c] EXCEPT !.pieces = r]]
  BY DEF Extract!SetPiece, ExtractInv
<1>3. p \in Extract!Piece /\ q \in Seq(Extract!Piece)
  BY <1>1 DEF PieceFits, PiecesFit
<1>4. r \in Seq(Extract!Piece) /\ DOMAIN r = DOMAIN q /\ r[k] = p
      /\ \A j \in DOMAIN q : j # k => r[j] = q[j]
  BY <1>3
<1>5. \A j \in DOMAIN q : r[j].from = q[j].from /\ r[j].to = q[j].to /\ PieceFits(r[j])
  <2>1. \A j \in DOMAIN q : PieceFits(q[j])
    BY <1>1 DEF PiecesFit
  <2> QED BY <1>4, <2>1
<1> HIDE DEF r
<1>6. PiecesFit(r)
  BY <1>1, <1>4, <1>5 DEF PiecesFit
<1>7. [tasks[c] EXCEPT !.pieces = r] \in [at : {"waiting", "active", "done"}, pieces : Seq(Extract!Piece)]
  BY <1>1, <1>4
<1>8. [tasks[c] EXCEPT !.pieces = r].pieces = r
  BY <1>1
<1> DEFINE t == [tasks[c] EXCEPT !.pieces = r]
<1> HIDE DEF t
<1>9. /\ tasks' \in [1..Len(lengths) -> [at : {"waiting", "active", "done"}, pieces : Seq(Extract!Piece)]]
      /\ tasks'[c] = t /\ \A d \in 1..Len(lengths) : d # c => tasks'[d] = tasks[d]
  BY <1>2, <1>7 DEF ExtractInv, t
<1>10. \A d \in 1..Len(lengths) : PiecesFit(tasks'[d].pieces)
  BY <1>6, <1>8, <1>9 DEF ExtractInv, t
<1> QED BY <1>9, <1>10 DEF ExtractInv

\* One sequence after another.
LEMMA TwoSequences ==
    ASSUME NEW S, NEW s \in Seq(S), NEW t \in Seq(S)
    PROVE  /\ s \o t \in Seq(S) /\ Len(s \o t) = Len(s) + Len(t)
           /\ \A i \in 1..(Len(s) + Len(t)) :
                (s \o t)[i] = IF i <= Len(s) THEN s[i] ELSE t[i - Len(s)]
OBVIOUS

\* The halves take the place of a piece.
LEMMA SplitFits ==
    ASSUME NEW q, PiecesFit(q), NEW k \in DOMAIN q, NEW middle \in q[k].from..(q[k].to - 1)
    PROVE  PiecesFit(Extract!Split(q, k, middle))
<1> DEFINE low == Extract!Asked(q[k].from, middle)
           high == Extract!Asked(middle + 1, q[k].to)
           front == SubSeq(q, 1, k - 1)
           back == SubSeq(q, k + 1, Len(q))
           r == front \o <<low, high>> \o back
<1>1. Extract!Split(q, k, middle) = r
  BY DEF Extract!Split
<1>2. /\ q \in Seq(Extract!Piece) /\ Len(q) \in Nat /\ k \in 1..Len(q)
      /\ \A i \in 1..Len(q) : PieceFits(q[i]) /\ q[i] \in Extract!Piece
  BY DEF PiecesFit
<1>3. \A i \in 1..Len(q) : /\ q[i].from \in 1..MaxStatements /\ q[i].to \in 1..MaxStatements
                           /\ q[i].from <= q[i].to
  BY <1>2 DEF PieceFits, Extract!Piece
<1>4. MaxStatements \in Nat /\ Attempts \in Nat \ {0}
  BY FactAssumption
<1>5. middle \in 1..MaxStatements /\ middle + 1 \in 1..MaxStatements
  BY <1>2, <1>3, <1>4
<1>6. low \in Extract!Piece /\ high \in Extract!Piece
  <2>1. <<>> \in Seq(Extract!Fact) /\ 1 \in 1..Attempts
    BY <1>4
  <2> QED BY <1>2, <1>3, <1>5, <2>1 DEF Extract!Asked, Extract!Piece
<1>7. /\ low.from = q[k].from /\ low.to = middle /\ low.facts = <<>>
      /\ high.from = middle + 1 /\ high.to = q[k].to /\ high.facts = <<>>
  BY DEF Extract!Asked
<1>8. PieceFits(low) /\ PieceFits(high)
  <2>1. low.from <= low.to /\ high.from <= high.to
    BY <1>2, <1>3, <1>5, <1>7
  <2> HIDE DEF low, high
  <2> QED BY <1>6, <1>7, <2>1 DEF PieceFits
<1> HIDE DEF low, high
<1>9. /\ front \in Seq(Extract!Piece) /\ Len(front) = k - 1 /\ \A i \in 1..(k - 1) : front[i] = q[i]
      /\ back \in Seq(Extract!Piece) /\ Len(back) = Len(q) - k
      /\ \A i \in 1..(Len(q) - k) : back[i] = q[i + k]
  BY <1>2
<1> HIDE DEF front, back
<1>10. <<low, high>> \in Seq(Extract!Piece) /\ Len(<<low, high>>) = 2
       /\ <<low, high>>[1] = low /\ <<low, high>>[2] = high
  BY <1>6
<1>11. /\ r \in Seq(Extract!Piece) /\ Len(r) = Len(q) + 1
       /\ \A i \in 1..(k - 1) : r[i] = q[i]
       /\ r[k] = low /\ r[k + 1] = high
       /\ \A i \in (k + 2)..Len(r) : r[i] = q[i - 1]
  <2> DEFINE f == front \o <<low, high>>
  <2>1. /\ f \in Seq(Extract!Piece) /\ Len(f) = k + 1 /\ \A i \in 1..(k - 1) : f[i] = q[i]
        /\ f[k] = low /\ f[k + 1] = high
    <3> DEFINE two == <<low, high>>
    <3> HIDE DEF two
    <3>1. two \in Seq(Extract!Piece) /\ Len(two) = 2 /\ two[1] = low /\ two[2] = high
      BY <1>10 DEF two
    <3>2. /\ f \in Seq(Extract!Piece) /\ Len(f) = k + 1
          /\ \A i \in 1..(k + 1) : f[i] = IF i <= k - 1 THEN front[i] ELSE two[i - (k - 1)]
      <4> f = front \o two
        BY DEF two
      <4>1. /\ front \o two \in Seq(Extract!Piece) /\ Len(front \o two) = (k - 1) + 2
            /\ \A i \in 1..((k - 1) + 2) :
                 (front \o two)[i] = IF i <= k - 1 THEN front[i] ELSE two[i - (k - 1)]
        BY <1>9, <3>1, TwoSequences
      <4>2. (k - 1) + 2 = k + 1
        BY <1>2
      <4> HIDE DEF f
      <4> QED BY <4>1, <4>2
    <3> HIDE DEF f
    <3>3. f[k] = two[1] /\ f[k + 1] = two[2]
      <4>1. k \in 1..(k + 1) /\ k + 1 \in 1..(k + 1) /\ ~(k <= k - 1) /\ ~(k + 1 <= k - 1)
            /\ k - (k - 1) = 1 /\ (k + 1) - (k - 1) = 2
        BY <1>2
      <4>2. f[k] = two[k - (k - 1)] /\ f[k + 1] = two[(k + 1) - (k - 1)]
        BY <3>2, <4>1
      <4> QED BY <4>1, <4>2
    <3>4. \A i \in 1..(k - 1) : f[i] = q[i]
      BY <1>2, <1>9, <3>2
    <3> QED BY <3>1, <3>2, <3>3, <3>4
  <2> HIDE DEF f
  <2>2. /\ f \o back \in Seq(Extract!Piece) /\ Len(f \o back) = Len(q) + 1
        /\ \A i \in 1..(k + 1) : (f \o back)[i] = f[i]
        /\ \A i \in (k + 2)..(Len(q) + 1) : (f \o back)[i] = back[i - k - 1]
    <3> DEFINE b == f \o back
    <3>1. /\ b \in Seq(Extract!Piece) /\ Len(b) = Len(q) + 1
          /\ \A i \in 1..(Len(q) + 1) : b[i] = IF i <= k + 1 THEN f[i] ELSE back[i - (k + 1)]
      <4>1. /\ b \in Seq(Extract!Piece) /\ Len(b) = (k + 1) + (Len(q) - k)
            /\ \A i \in 1..((k + 1) + (Len(q) - k)) :
                 b[i] = IF i <= k + 1 THEN f[i] ELSE back[i - (k + 1)]
        <5>1. f \in Seq(Extract!Piece) /\ back \in Seq(Extract!Piece)
              /\ Len(f) = k + 1 /\ Len(back) = Len(q) - k
          BY <1>9, <2>1
        <5>2. /\ f \o back \in Seq(Extract!Piece) /\ Len(f \o back) = Len(f) + Len(back)
              /\ \A i \in 1..(Len(f) + Len(back)) :
                   (f \o back)[i] = IF i <= Len(f) THEN f[i] ELSE back[i - Len(f)]
          BY <5>1, TwoSequences
        <5> QED BY <5>1, <5>2
      <4>2. (k + 1) + (Len(q) - k) = Len(q) + 1
        BY <1>2
      <4> HIDE DEF b
      <4> QED BY <4>1, <4>2
    <3> HIDE DEF b
    <3>2. \A i \in 1..(k + 1) : b[i] = f[i]
      BY <1>2, <3>1
    <3>3. \A i \in (k + 2)..(Len(q) + 1) : b[i] = back[i - k - 1]
      <4> TAKE i \in (k + 2)..(Len(q) + 1)
      <4>1. i \in 1..(Len(q) + 1) /\ ~(i <= k + 1) /\ i - (k + 1) = i - k - 1
        BY <1>2
      <4> QED BY <3>1, <4>1
    <3> QED BY <3>1, <3>2, <3>3 DEF b
  <2>3. r = f \o back
    BY DEF f
  <2> HIDE DEF r
  <2>4. \A i \in (k + 2)..(Len(q) + 1) : i - k - 1 \in 1..(Len(q) - k) /\ (i - k - 1) + k = i - 1
    BY <1>2
  <2>5. \A i \in (k + 2)..(Len(q) + 1) : r[i] = q[i - 1]
    BY <1>9, <2>2, <2>3, <2>4
  <2> QED BY <1>2, <2>1, <2>2, <2>3, <2>5
<1> HIDE DEF r
<1>12. \A i \in DOMAIN r : PieceFits(r[i])
  <2> TAKE i \in DOMAIN r
  <2>1. i \in 1..(k - 1) \/ i = k \/ i = k + 1 \/ (i \in (k + 2)..Len(r) /\ i - 1 \in 1..Len(q))
    BY <1>2, <1>11
  <2> QED BY <1>2, <1>8, <1>11, <2>1
<1>13. \A i, j \in 1..Len(q) : i < j => q[i].to < q[j].from
  BY <1>2 DEF PiecesFit
<1>p. \A i \in DOMAIN r : \/ i \in 1..(k - 1) \/ i = k \/ i = k + 1
                          \/ i \in (k + 2)..Len(r) /\ i - 1 \in (k + 1)..Len(q)
  <2>1. DOMAIN r = 1..(Len(q) + 1) /\ Len(r) = Len(q) + 1
    BY <1>11
  <2> QED BY <1>2, <2>1
<1>14. \A i, j \in DOMAIN r : i < j => r[i].to < r[j].from
  <2> TAKE i, j \in DOMAIN r
  <2> HAVE i < j
  <2>1. \/ i \in 1..(k - 1) /\ r[i].to = q[i].to
        \/ i = k /\ r[i].to = middle
        \/ i = k + 1 /\ r[i].to = q[k].to
        \/ i \in (k + 2)..Len(r) /\ i - 1 \in (k + 1)..Len(q) /\ r[i].to = q[i - 1].to
    BY <1>p, <1>7, <1>11
  <2>2. \/ j \in 1..(k - 1) /\ r[j].from = q[j].from
        \/ j = k /\ r[j].from = q[k].from
        \/ j = k + 1 /\ r[j].from = middle + 1
        \/ j \in (k + 2)..Len(r) /\ j - 1 \in (k + 1)..Len(q) /\ r[j].from = q[j - 1].from
    BY <1>p, <1>7, <1>11
  <2>3. q[k].from <= middle /\ middle < q[k].to /\ q[k].from \in Int /\ q[k].to \in Int /\ middle \in Int
    BY <1>2, <1>3, <1>5
  <2> DEFINE n == Len(q)
             hi == r[i].to
             lo == r[j].from
  <2>4. n \in Nat /\ k \in 1..n /\ i \in Int /\ j \in Int /\ i < j
    BY <1>2, <1>11
  <2>5. \A x, y \in 1..n : x < y => q[x].to < q[y].from
    BY <1>13
  <2>6. \A x \in 1..n : q[x].to \in Int /\ q[x].from \in Int
    BY <1>3
  <2>7. CASE i \in 1..(k - 1) /\ hi = q[i].to
    <3>1. i \in 1..n /\ q[i].to < q[k].from /\ q[i].to \in Int
      BY <2>4, <2>5, <2>6, <2>7
    <3>2. \A m \in (k + 1)..n : q[i].to < q[m].from
      BY <2>4, <2>5, <2>7
    <3>3. CASE j \in 1..(k - 1) /\ lo = q[j].from
      BY <2>4, <2>5, <2>7, <3>3
    <3>4. CASE j = k /\ lo = q[k].from
      BY <2>7, <3>1, <3>4
    <3>5. CASE j = k + 1 /\ lo = middle + 1
      BY <2>3, <2>7, <3>1, <3>5
    <3>6. CASE j - 1 \in (k + 1)..n /\ lo = q[j - 1].from
      BY <2>7, <3>2, <3>6
    <3> QED BY <2>2, <3>3, <3>4, <3>5, <3>6
  <2>8. CASE i = k /\ hi = middle
    <3>1. \A m \in (k + 1)..n : q[k].to < q[m].from /\ q[m].from \in Int
      BY <2>4, <2>5, <2>6
    <3>2. CASE j = k + 1 /\ lo = middle + 1
      BY <2>3, <2>8, <3>2
    <3>3. CASE j - 1 \in (k + 1)..n /\ lo = q[j - 1].from
      BY <2>3, <2>8, <3>1, <3>3
    <3>4. ~(j \in 1..(k - 1)) /\ j # k
      BY <2>4, <2>8
    <3> QED BY <2>2, <3>2, <3>3, <3>4
  <2>9. CASE i = k + 1 /\ hi = q[k].to
    <3>1. \A m \in (k + 1)..n : q[k].to < q[m].from
      BY <2>4, <2>5
    <3>2. ~(j \in 1..(k - 1)) /\ j # k /\ j # k + 1
      BY <2>4, <2>9
    <3> QED BY <2>2, <2>9, <3>1, <3>2
  <2>10. CASE i \in (k + 2)..Len(r) /\ i - 1 \in (k + 1)..Len(q) /\ hi = q[i - 1].to
    <3>1. ~(j \in 1..(k - 1)) /\ j # k /\ j # k + 1 /\ i - 1 < j - 1
      BY <2>4, <2>10
    <3>2. j - 1 \in (k + 1)..n /\ lo = q[j - 1].from
      BY <2>2, <3>1
    <3>3. i - 1 \in 1..n /\ j - 1 \in 1..n
      BY <2>4, <2>10, <3>2
    <3> QED BY <2>5, <2>10, <3>1, <3>2, <3>3
  <2> QED BY <2>1, <2>7, <2>8, <2>9, <2>10
<1> QED BY <1>1, <1>11, <1>12, <1>14 DEF PiecesFit

\* A chunk that goes on with other pieces.
LEMMA ChunkSet ==
    ASSUME ExtractInv, NEW c \in 1..Len(lengths), NEW t,
           t \in [at : {"waiting", "active", "done"}, pieces : Seq(Extract!Piece)],
           PiecesFit(t.pieces), tasks' = [tasks EXCEPT ![c] = t], UNCHANGED <<lengths, outcome>>
    PROVE  ExtractInv'
<1>1. /\ tasks' \in [1..Len(lengths) -> [at : {"waiting", "active", "done"}, pieces : Seq(Extract!Piece)]]
      /\ tasks'[c] = t /\ \A d \in 1..Len(lengths) : d # c => tasks'[d] = tasks[d]
  BY DEF ExtractInv
<1>2. \A d \in 1..Len(lengths) : PiecesFit(tasks'[d].pieces)
  BY <1>1 DEF ExtractInv
<1> QED BY <1>1, <1>2 DEF ExtractInv

LEMMA ExtractHasLengths ==
    ASSUME ExtractInv
    PROVE  \A c \in 1..Len(lengths) : lengths[c] \in 1..MaxStatements
<1> DEFINE S == 1..MaxStatements
<1>1. lengths \in Seq(S)
  BY DEF ExtractInv
<1> HIDE DEF S
<1>2. \A c \in 1..Len(lengths) : lengths[c] \in S
  BY <1>1
<1> QED BY <1>2 DEF S

LEMMA ExtractMoves ==
    ASSUME ExtractInv, Extract!Next
    PROVE  ExtractInv'
<1> DEFINE Task == [at : {"waiting", "active", "done"}, pieces : Seq(Extract!Piece)]
<1>1. \A c \in 1..Len(lengths) : tasks[c] \in Task /\ PiecesFit(tasks[c].pieces)
  BY DEF ExtractInv
<1>2. Extract!Chunks = 1..Len(lengths)
  BY DEF Extract!Chunks
<1>b. MaxStatements \in Nat /\ Attempts \in Nat \ {0}
  BY FactAssumption
<1>3. ASSUME NEW c \in 1..Len(lengths), Extract!Enter(c) PROVE ExtractInv'
  <2> DEFINE p == Extract!Asked(1, lengths[c])
             t == [at |-> "active", pieces |-> <<p>>]
  <2>1. tasks' = [tasks EXCEPT ![c] = t] /\ UNCHANGED <<lengths, outcome>>
    BY <1>3 DEF Extract!Enter
  <2>2. lengths[c] \in 1..MaxStatements
    BY ExtractHasLengths
  <2>3. /\ p \in Extract!Piece /\ p.from = 1 /\ p.to = lengths[c] /\ p.facts = <<>>
    <3>1. <<>> \in Seq(Extract!Fact) /\ 1 \in 1..Attempts /\ 1 \in 1..MaxStatements
      BY <1>b, <2>2
    <3> QED BY <2>2, <3>1 DEF Extract!Asked, Extract!Piece
  <2> HIDE DEF p
  <2>4. PieceFits(p)
    BY <2>2, <2>3 DEF PieceFits
  <2>5. <<p>> \in Seq(Extract!Piece) /\ DOMAIN <<p>> = {1} /\ <<p>>[1] = p
    BY <2>3
  <2>6. PiecesFit(<<p>>)
    BY <2>4, <2>5 DEF PiecesFit
  <2>7. t \in Task /\ t.pieces = <<p>>
    BY <2>5
  <2> HIDE DEF t
  <2> QED BY <2>1, <2>6, <2>7, ChunkSet
<1>4. ASSUME NEW c \in 1..Len(lengths), Extract!Leave(c) PROVE ExtractInv'
  <2> DEFINE t == [tasks[c] EXCEPT !.at = "done"]
  <2>1. tasks' = [tasks EXCEPT ![c] = t] /\ UNCHANGED <<lengths, outcome>>
    BY <1>4 DEF Extract!Leave
  <2>2. t \in Task /\ t.pieces = tasks[c].pieces
    BY <1>1
  <2> HIDE DEF t
  <2> QED BY <1>1, <2>1, <2>2, ChunkSet
<1>5. ASSUME NEW c \in 1..Len(lengths), NEW k \in DOMAIN tasks[c].pieces,
             \/ Extract!AnswerUnreadable(c, k) \/ Extract!AnswerFails(c, k)
             \/ Extract!AnswerReadable(c, k)
      PROVE  ExtractInv'
  <2> DEFINE p == tasks[c].pieces[k]
  <2>1. PieceFits(p)
    BY <1>1 DEF PiecesFit
  <2>2. /\ p.from \in 1..MaxStatements /\ p.to \in 1..MaxStatements /\ p.attempt \in 1..Attempts
        /\ p.asked \in BOOLEAN /\ p.facts \in Seq(Extract!Fact) /\ p \in Extract!Piece
    BY <2>1 DEF PieceFits, Extract!Piece
  <2>3. UNCHANGED <<lengths, outcome>>
    BY <1>5 DEF Extract!AnswerUnreadable, Extract!AnswerFails, Extract!AnswerReadable
  <2>4. p.attempt < Attempts =>
          PieceFits(Extract!Again(p)) /\ Extract!Again(p).from = p.from /\ Extract!Again(p).to = p.to
    <3> SUFFICES ASSUME p.attempt < Attempts
                 PROVE  PieceFits(Extract!Again(p)) /\ Extract!Again(p).from = p.from
                        /\ Extract!Again(p).to = p.to
      OBVIOUS
    <3> DEFINE a == Extract!Again(p)
    <3>1. p.attempt + 1 \in 1..Attempts
      BY <1>b, <2>2
    <3>2. a \in Extract!Piece /\ a.from = p.from /\ a.to = p.to /\ a.facts = p.facts
      BY <2>2, <3>1 DEF Extract!Again, Extract!Piece
    <3> HIDE DEF a
    <3>3. PieceFits(a)
      BY <2>1, <3>2 DEF PieceFits
    <3> QED BY <3>2, <3>3 DEF a
  <2>5. ASSUME NEW facts \in Seq(Extract!Fact),
               \A j \in DOMAIN facts : facts[j].of \in p.from..p.to,
               \A i, j \in DOMAIN facts : i < j => facts[i].of < facts[j].of
        PROVE  /\ PieceFits(Extract!Done(p, facts)) /\ Extract!Done(p, facts).from = p.from
               /\ Extract!Done(p, facts).to = p.to
    <3> DEFINE d == Extract!Done(p, facts)
    <3>1. d \in Extract!Piece /\ d.from = p.from /\ d.to = p.to /\ d.facts = facts
      BY <2>2 DEF Extract!Done, Extract!Piece
    <3> HIDE DEF d
    <3>2. PieceFits(d)
      BY <2>1, <2>5, <3>1 DEF PieceFits
    <3> QED BY <3>1, <3>2 DEF d
  <2>6. /\ PieceFits(Extract!Done(p, <<>>)) /\ Extract!Done(p, <<>>).from = p.from
        /\ Extract!Done(p, <<>>).to = p.to
    <3>1. <<>> \in Seq(Extract!Fact) /\ DOMAIN <<>> = {}
      OBVIOUS
    <3> QED BY <2>5, <3>1
  <2>7. PICK r : /\ Extract!SetPiece(c, k, r)
                 /\ PieceFits(r) /\ r.from = p.from /\ r.to = p.to
    <3> HIDE DEF p
    <3>1. CASE Extract!AnswerUnreadable(c, k)
      <4>1. Extract!SetPiece(c, k, IF p.attempt < Attempts THEN Extract!Again(p) ELSE Extract!Done(p, <<>>))
        BY <3>1 DEF Extract!AnswerUnreadable, p
      <4>2. CASE p.attempt < Attempts
        BY <2>4, <4>1, <4>2
      <4>3. CASE ~(p.attempt < Attempts)
        BY <2>6, <4>1, <4>3
      <4> QED BY <4>2, <4>3
    <3>2. CASE Extract!AnswerFails(c, k)
      <4>1. Extract!SetPiece(c, k, Extract!Done(p, <<>>))
        BY <3>2 DEF Extract!AnswerFails, p
      <4> QED BY <2>6, <4>1
    <3>3. CASE Extract!AnswerReadable(c, k)
      <4>1. PICK entries \in Extract!Entries(p.to - p.from + 1) :
              \/ /\ p.attempt < Attempts /\ Extract!SetPiece(c, k, Extract!Again(p))
              \/ Extract!SetPiece(c, k, Extract!Done(p, Extract!Parsed(p, entries)))
        BY <3>3 DEF Extract!AnswerReadable, p
      <4>2. CASE p.attempt < Attempts /\ Extract!SetPiece(c, k, Extract!Again(p))
        BY <2>4, <4>2
      <4>3. CASE Extract!SetPiece(c, k, Extract!Done(p, Extract!Parsed(p, entries)))
        <5>1. /\ Extract!Parsed(p, entries) \in Seq(Extract!Fact)
              /\ \A j \in DOMAIN Extract!Parsed(p, entries) :
                    Extract!Parsed(p, entries)[j].of \in p.from..p.to
              /\ \A i, j \in DOMAIN Extract!Parsed(p, entries) :
                    i < j => Extract!Parsed(p, entries)[i].of < Extract!Parsed(p, entries)[j].of
          BY <2>1, ParsedFits
        <5> QED BY <2>5, <4>3, <5>1
      <4> QED BY <4>1, <4>2, <4>3
    <3> QED BY <1>5, <3>1, <3>2, <3>3
  <2> QED BY <2>3, <2>7, PieceSet
<1>6. ASSUME NEW c \in 1..Len(lengths), NEW k \in DOMAIN tasks[c].pieces, Extract!AnswerRaises(c, k)
      PROVE  ExtractInv'
  BY <1>6 DEF Extract!AnswerRaises, ExtractInv
<1>7. ASSUME NEW c \in 1..Len(lengths), NEW k \in DOMAIN tasks[c].pieces, Extract!AnswerTooLong(c, k)
      PROVE  ExtractInv'
  <2> DEFINE q == tasks[c].pieces
             p == q[k]
  <2>1. UNCHANGED <<lengths, outcome>> /\ PieceFits(p) /\ PiecesFit(q)
    BY <1>1, <1>7 DEF Extract!AnswerTooLong, PiecesFit
  <2>2. CASE p.from = p.to
    <3>1. Extract!SetPiece(c, k, Extract!Done(p, <<>>))
      BY <1>7, <2>2 DEF Extract!AnswerTooLong
    <3> DEFINE d == Extract!Done(p, <<>>)
    <3>2. d \in Extract!Piece /\ d.from = p.from /\ d.to = p.to /\ d.facts = <<>>
      <4>1. <<>> \in Seq(Extract!Fact) /\ p \in Extract!Piece
        BY <2>1 DEF PieceFits
      <4> QED BY <4>1 DEF Extract!Done, Extract!Piece
    <3> HIDE DEF d
    <3>3. PieceFits(d)
      BY <2>1, <3>2 DEF PieceFits
    <3> QED BY <2>1, <3>1, <3>2, <3>3, PieceSet DEF d
  <2>3. CASE p.from # p.to
    <3>1. PICK middle \in p.from..(p.to - 1) :
            tasks' = [tasks EXCEPT ![c].pieces = Extract!Split(@, k, middle)]
      BY <1>7, <2>3 DEF Extract!AnswerTooLong
    <3> DEFINE s == Extract!Split(q, k, middle)
               t == [tasks[c] EXCEPT !.pieces = s]
    <3>2. PiecesFit(s)
      BY <2>1, SplitFits
    <3>3. tasks' = [tasks EXCEPT ![c] = t]
      BY <3>1
    <3> HIDE DEF s
    <3>4. s \in Seq(Extract!Piece)
      BY <3>2 DEF PiecesFit
    <3>5. t \in Task /\ t.pieces = s
      BY <1>1, <3>4
    <3> HIDE DEF t
    <3> QED BY <2>1, <3>2, <3>3, <3>5, ChunkSet
  <2> QED BY <2>2, <2>3
<1>8. CASE Extract!Gather
  BY <1>8 DEF Extract!Gather, ExtractInv
<1> QED BY <1>2, <1>3, <1>4, <1>5, <1>6, <1>7, <1>8 DEF Extract!Next

LEMMA ExtractStarts == Extract!Init => ExtractInv
<1> SUFFICES ASSUME Extract!Init PROVE ExtractInv
  OBVIOUS
<1>1. PICK n \in 1..MaxChunks : lengths \in [1..n -> 1..MaxStatements]
  BY DEF Extract!Init
<1>2. lengths \in Seq(1..MaxStatements) /\ Len(lengths) = n /\ n \in Nat
  BY <1>1, FactAssumption
<1>3. tasks = [c \in 1..Len(lengths) |-> [at |-> "waiting", pieces |-> <<>>]]
  BY DEF Extract!Init, Extract!Chunks
<1>4. <<>> \in Seq(Extract!Piece) /\ PiecesFit(<<>>)
  BY DEF PiecesFit
<1>5. [at |-> "waiting", pieces |-> <<>>]
        \in [at : {"waiting", "active", "done"}, pieces : Seq(Extract!Piece)]
  BY <1>4
<1>6. tasks \in [1..Len(lengths) -> [at : {"waiting", "active", "done"}, pieces : Seq(Extract!Piece)]]
  BY <1>3, <1>5
<1>7. \A c \in 1..Len(lengths) : PiecesFit(tasks[c].pieces)
  BY <1>3, <1>4
<1> QED BY <1>1, <1>2, <1>6, <1>7 DEF ExtractInv, Extract!Init

LEMMA ExtractRests == ExtractInv /\ UNCHANGED extractVars => ExtractInv'
BY DEF ExtractInv, extractVars

LEMMA ExtractHasType == ExtractInv => Extract!TypeOK
<1> SUFFICES ASSUME ExtractInv PROVE Extract!TypeOK
  OBVIOUS
<1>1. \A c \in 1..Len(lengths) : lengths[c] \in 1..MaxStatements
  BY ExtractHasLengths
<1>2. DOMAIN tasks = 1..Len(lengths)
  BY DEF ExtractInv
<1>3. ASSUME NEW c \in 1..Len(lengths)
      PROVE  /\ tasks[c].at \in {"waiting", "active", "done"}
             /\ \A k \in DOMAIN tasks[c].pieces : tasks[c].pieces[k] \in Extract!Piece
  <2>1. tasks[c] \in [at : {"waiting", "active", "done"}, pieces : Seq(Extract!Piece)]
    BY DEF ExtractInv
  <2>2. tasks[c].pieces \in Seq(Extract!Piece)
    BY <2>1
  <2> QED BY <2>1, <2>2
<1> QED BY <1>1, <1>2, <1>3 DEF ExtractInv, Extract!TypeOK, Extract!Chunks

-----------------------------------------------------------------------------
(* What is shown of the dialogue and of the sessions for themselves *)

Parts == INSTANCE StorePartsProofs
    WITH MaxMishaps <- MaxSessionMishaps, query <- asked, mishaps <- sessionMishaps,
         TurnContents <- MCContents

-----------------------------------------------------------------------------
(* The facts of a chunk, in order *)

\* FlattenSeq is what is shown of it.
LEMMA FlatIs == \A ss : Extract!FlattenSeq(ss) = Parts!Flat(ss)
BY DEF Extract!FlattenSeq, Parts!Flat

InOrder(s) == \A j, k \in DOMAIN s : j < k => s[j].of < s[k].of
UpToPlace(s, n) == \A k \in DOMAIN s : s[k].of <= n
BehindPlace(s, n) == \A k \in DOMAIN s : n < s[k].of

LEMMA InOrderBoth ==
    ASSUME NEW s \in Seq(Extract!Fact), NEW t \in Seq(Extract!Fact), NEW n \in Int, NEW m \in Int,
           InOrder(s), InOrder(t), UpToPlace(s, n), BehindPlace(t, n), UpToPlace(t, m), n <= m
    PROVE  /\ s \o t \in Seq(Extract!Fact) /\ InOrder(s \o t) /\ UpToPlace(s \o t, m)
<1> DEFINE r == s \o t
<1>1. /\ r \in Seq(Extract!Fact) /\ Len(r) = Len(s) + Len(t)
      /\ \A i \in 1..(Len(s) + Len(t)) : r[i] = IF i <= Len(s) THEN s[i] ELSE t[i - Len(s)]
  BY TwoSequences
<1> HIDE DEF r
<1>2. Len(s) \in Nat /\ Len(t) \in Nat /\ DOMAIN s = 1..Len(s) /\ DOMAIN t = 1..Len(t)
      /\ DOMAIN r = 1..Len(r)
  BY <1>1
<1>3. \A i \in DOMAIN r : (i \in DOMAIN s /\ r[i] = s[i])
                         \/ (i > Len(s) /\ i - Len(s) \in DOMAIN t /\ r[i] = t[i - Len(s)])
  <2> TAKE i \in DOMAIN r
  <2>1. CASE i <= Len(s)
    BY <1>1, <1>2, <2>1
  <2>2. CASE ~(i <= Len(s))
    BY <1>1, <1>2, <2>2
  <2> QED BY <2>1, <2>2
<1>4. \A i \in DOMAIN s : s[i].of \in Int
  <2>1. \A f \in Extract!Fact : f.of \in Int
    BY DEF Extract!Fact
  <2>2. \A i \in 1..Len(s) : s[i] \in Extract!Fact
    OBVIOUS
  <2> QED BY <1>2, <2>1, <2>2
<1>5. \A i \in DOMAIN t : t[i].of \in Int
  <2>1. \A f \in Extract!Fact : f.of \in Int
    BY DEF Extract!Fact
  <2>2. \A i \in 1..Len(t) : t[i] \in Extract!Fact
    OBVIOUS
  <2> QED BY <1>2, <2>1, <2>2
<1>6. UpToPlace(r, m)
  <2> SUFFICES ASSUME NEW i \in DOMAIN r PROVE r[i].of <= m
    BY DEF UpToPlace
  <2>1. CASE i \in DOMAIN s /\ r[i] = s[i]
    <3>1. s[i].of <= n /\ s[i].of \in Int
      BY <1>4, <2>1 DEF UpToPlace
    <3> QED BY <2>1, <3>1
  <2>2. CASE i - Len(s) \in DOMAIN t /\ r[i] = t[i - Len(s)]
    BY <2>2 DEF UpToPlace
  <2> QED BY <1>3, <2>1, <2>2
<1>7. InOrder(r)
  <2> SUFFICES ASSUME NEW j \in DOMAIN r, NEW k \in DOMAIN r, j < k PROVE r[j].of < r[k].of
    BY DEF InOrder
  <2>1. CASE j \in DOMAIN s /\ r[j] = s[j] /\ k \in DOMAIN s /\ r[k] = s[k]
    BY <2>1 DEF InOrder
  <2>2. CASE j \in DOMAIN s /\ r[j] = s[j] /\ k - Len(s) \in DOMAIN t /\ r[k] = t[k - Len(s)]
    <3>1. s[j].of <= n /\ s[j].of \in Int /\ n < t[k - Len(s)].of /\ t[k - Len(s)].of \in Int
      BY <1>4, <1>5, <2>2 DEF UpToPlace, BehindPlace
    <3> QED BY <2>2, <3>1
  <2>3. CASE /\ j - Len(s) \in DOMAIN t /\ r[j] = t[j - Len(s)]
             /\ k - Len(s) \in DOMAIN t /\ r[k] = t[k - Len(s)]
    <3>1. j - Len(s) < k - Len(s)
      BY <1>2
    <3> QED BY <2>3, <3>1 DEF InOrder
  <2>4. CASE j > Len(s) /\ k \in DOMAIN s
    BY <1>2, <2>4
  <2> QED BY <1>3, <2>1, <2>2, <2>3, <2>4
<1> QED BY <1>1, <1>6, <1>7 DEF r

\* What the pieces of a chunk hold is in the order of its text.
LEMMA PiecesInOrder ==
    ASSUME NEW q, PiecesFit(q)
    PROVE  InOrder(Extract!FlattenSeq([k \in DOMAIN q |-> q[k].facts]))
<1> DEFINE ss == [k \in DOMAIN q |-> q[k].facts]
           m == Len(q)
<1>1. /\ q \in Seq(Extract!Piece) /\ m \in Nat /\ DOMAIN q = 1..m
      /\ \A k \in 1..m : PieceFits(q[k])
      /\ \A j, k \in 1..m : j < k => q[j].to < q[k].from
  BY DEF PiecesFit
<1>2. \A k \in 1..m : /\ q[k].facts \in Seq(Extract!Fact) /\ q[k].from \in Int /\ q[k].to \in Int
                      /\ q[k].from <= q[k].to
  BY <1>1 DEF PieceFits, Extract!Piece
<1>3. \A k \in 1..m : \A i \in DOMAIN q[k].facts :
        q[k].from <= q[k].facts[i].of /\ q[k].facts[i].of <= q[k].to /\ q[k].facts[i].of \in Int
  <2> TAKE k \in 1..m
  <2> TAKE i \in DOMAIN q[k].facts
  <2>1. q[k].facts[i].of \in q[k].from..q[k].to
    BY <1>1 DEF PieceFits
  <2> QED BY <1>2, <2>1
<1>4. \A k \in 1..m : InOrder(q[k].facts)
  BY <1>1 DEF PieceFits, InOrder
<1>5. ss \in Seq(Seq(Extract!Fact)) /\ Len(ss) = m /\ \A k \in 1..m : ss[k] = q[k].facts
  BY <1>1, <1>2
<1> HIDE DEF ss
<1>6. PICK F : Parts!Runs(ss, F)
  BY <1>5, Parts!RunsExist
<1>7. F[0] = <<>> /\ \A n \in 1..m : F[n] = F[n - 1] \o q[n].facts
  BY <1>5, <1>6 DEF Parts!Runs
<1>8. Parts!Flat(ss) = F[m]
  BY <1>5, <1>6, Parts!FlatRuns
<1> DEFINE top(n) == IF n = 0 THEN 0 ELSE q[n].to
           Good(n) == F[n] \in Seq(Extract!Fact) /\ InOrder(F[n]) /\ UpToPlace(F[n], top(n))
           T == {n \in 0..m : ~Good(n)}
<1>9. Good(0)
  <2>1. <<>> \in Seq(Extract!Fact) /\ DOMAIN <<>> = {}
    OBVIOUS
  <2> QED BY <1>7, <2>1 DEF InOrder, UpToPlace
<1>10. ASSUME NEW n \in 1..m, Good(n - 1) PROVE Good(n)
  <2> DEFINE t == q[n].facts
             b == q[n].from - 1
  <2>1. t \in Seq(Extract!Fact) /\ InOrder(t) /\ UpToPlace(t, q[n].to) /\ b \in Int /\ b <= q[n].to
        /\ q[n].to \in Int
    BY <1>2, <1>3, <1>4 DEF UpToPlace
  <2>2. BehindPlace(t, b)
    <3>1. \A i \in DOMAIN t : q[n].from <= t[i].of /\ t[i].of \in Int /\ q[n].from \in Int
      BY <1>2, <1>3
    <3> QED BY <3>1 DEF BehindPlace
  <2>3. UpToPlace(F[n - 1], b)
    <3>1. CASE n = 1
      <4>1. F[n - 1] = <<>> /\ DOMAIN <<>> = {}
        BY <1>7, <3>1
      <4> QED BY <4>1 DEF UpToPlace
    <3>2. CASE n # 1
      <4>1. n - 1 \in 1..m /\ n - 1 < n /\ n - 1 # 0
        BY <1>1, <3>2
      <4>2. q[n - 1].to < q[n].from /\ q[n - 1].to \in Int /\ q[n].from \in Int
        BY <1>1, <1>2, <4>1
      <4>3. UpToPlace(F[n - 1], q[n - 1].to) /\ F[n - 1] \in Seq(Extract!Fact)
        BY <1>10, <4>1
      <4>4. \A i \in DOMAIN F[n - 1] : F[n - 1][i].of \in Int
        <5>1. \A f \in Extract!Fact : f.of \in Int
          BY DEF Extract!Fact
        <5>2. \A i \in DOMAIN F[n - 1] : F[n - 1][i] \in Extract!Fact
          BY <4>3
        <5> QED BY <5>1, <5>2
      <4> QED BY <4>2, <4>3, <4>4 DEF UpToPlace
    <3> QED BY <3>1, <3>2
  <2>4. F[n] = F[n - 1] \o t
    BY <1>7
  <2> HIDE DEF t, b
  <2>5. F[n - 1] \in Seq(Extract!Fact) /\ InOrder(F[n - 1])
    BY <1>10
  <2>6. F[n] \in Seq(Extract!Fact) /\ InOrder(F[n]) /\ UpToPlace(F[n], q[n].to)
    BY <2>1, <2>2, <2>3, <2>4, <2>5, InOrderBoth
  <2>7. n # 0
    BY <1>1
  <2> QED BY <2>6, <2>7
<1> HIDE DEF Good
<1>11. T = {}
  <2> SUFFICES ASSUME T # {} PROVE FALSE
    OBVIOUS
  <2>1. PICK n \in T : \A j \in T : n <= j
    <3>1. T \subseteq Nat
      OBVIOUS
    <3> HIDE DEF T
    <3> QED BY <3>1, LeastNumber
  <2>2. n # 0
    BY <1>9, <2>1
  <2>3. n \in 1..m /\ n - 1 \in 0..m /\ ~(n <= n - 1)
    BY <1>1, <2>1, <2>2
  <2>4. Good(n - 1)
    BY <2>1, <2>3
  <2> QED BY <1>10, <2>1, <2>3, <2>4
<1>12. Good(m)
  <2>1. m \in 0..m
    BY <1>1
  <2> QED BY <1>11, <2>1
<1>13. InOrder(Parts!Flat(ss))
  BY <1>8, <1>12 DEF Good
<1> QED BY <1>13, FlatIs DEF ss

LEMMA ExtractInOrder == ExtractInv => Extract!FactsInOrder
<1> SUFFICES ASSUME ExtractInv, NEW c \in 1..Len(lengths) PROVE InOrder(Extract!ChunkFacts(c))
  BY DEF Extract!FactsInOrder, Extract!Chunks, InOrder
<1>1. PiecesFit(tasks[c].pieces)
  BY DEF ExtractInv
<1> QED BY <1>1, PiecesInOrder DEF Extract!ChunkFacts

-----------------------------------------------------------------------------
(* The chunks of a dialogue *)

LEMMA ContentsTyped == MCContents \subseteq Seq(Parts!Block)
<1>1. \A n \in Nat : Said(n) \in Parts!Block /\ Attached(n) \in Parts!Block
  BY DEF Said, Attached, Parts!Block
<1>2. /\ Said(0) \in Parts!Block /\ Said(1) \in Parts!Block /\ Said(2) \in Parts!Block
      /\ Said(6) \in Parts!Block /\ Said(9) \in Parts!Block
      /\ Attached(2) \in Parts!Block /\ Attached(9) \in Parts!Block
  BY <1>1
<1> QED BY <1>2 DEF MCContents

LEMMA DialogFitsHere == Dialog!TypeOK => Parts!DialogFits
<1> SUFFICES ASSUME Dialog!TypeOK PROVE Parts!DialogFits
  OBVIOUS
<1>1. Parts!Dialog!TypeOK
  BY DEF Dialog!TypeOK, Parts!Dialog!TypeOK, Dialog!Turn, Parts!Dialog!Turn
<1>2. \A n \in Int : \A K \in SUBSET (1..n) :
        /\ Parts!Dialog!Cardinality(K) \in Nat
        /\ \A x \in 1..Parts!Dialog!Cardinality(K) : Parts!Dialog!Nth(K, x) \in K
  <2> TAKE n \in Int
  <2> TAKE K \in SUBSET (1..n)
  <2>1. Parts!Dialog!Cardinality(K) = Cardinality(K)
    BY DEF Parts!Dialog!Cardinality, Cardinality
  <2>2. \A x : Parts!Dialog!Nth(K, x) = Extract!Nth(K, x)
    BY DEF Parts!Dialog!Nth, Extract!Nth, Parts!Dialog!Cardinality, Extract!Cardinality
  <2> QED BY <2>1, <2>2, NthPlaces
<1> QED BY <1>1, <1>2, ContentsTyped DEF Parts!DialogFits

\* Every word of a conversation is in its chunks, once and in order.
LEMMA DialogIsKept == Dialog!TypeOK => Dialog!DialogKept
<1> SUFFICES ASSUME Dialog!TypeOK PROVE Dialog!DialogKept
  OBVIOUS
<1>1. Parts!Dialog!DialogKept
  BY DialogFitsHere, Parts!DialogIsKept
<1>2. /\ \A ss : Dialog!FlattenSeq(ss) = Parts!Dialog!FlattenSeq(ss)
      /\ \A s : Dialog!ToSet(s) = Parts!Dialog!ToSet(s)
      /\ \A K, n : Dialog!Nth(K, n) = Parts!Dialog!Nth(K, n)
      /\ \A K : Dialog!Cardinality(K) = Parts!Dialog!Cardinality(K)
      /\ \A t, b : Dialog!Words(t, b) = Parts!Dialog!Words(t, b)
      /\ \A t, w : Dialog!Line(t, w) = Parts!Dialog!Line(t, w)
  BY DEF Dialog!FlattenSeq, Parts!Dialog!FlattenSeq, Dialog!ToSet, Parts!Dialog!ToSet,
         Dialog!Nth, Parts!Dialog!Nth, Dialog!Cardinality, Parts!Dialog!Cardinality,
         Dialog!Words, Parts!Dialog!Words, Dialog!Line, Parts!Dialog!Line
<1>3. \A p, d, t : Dialog!OfTurn(p, d, t) = Parts!Dialog!OfTurn(p, d, t)
  BY <1>2 DEF Dialog!OfTurn, Parts!Dialog!OfTurn
<1>4. \A p, d : Dialog!Kept(p, d) = Parts!Dialog!Kept(p, d)
  BY <1>2, <1>3 DEF Dialog!Kept, Parts!Dialog!Kept
<1>5. \A c : Dialog!TextOf(c) = Parts!Dialog!TextOf(c)
  BY <1>2 DEF Dialog!TextOf, Parts!Dialog!TextOf
<1>6. /\ \A c : Dialog!Size(c) = Parts!Dialog!Size(c)
      /\ \A item : Dialog!Said(item) = Parts!Dialog!Said(item)
  BY <1>2, <1>5 DEF Dialog!Size, Parts!Dialog!Size, Dialog!Said, Parts!Dialog!Said
<1>7. \A lines : Dialog!Chunks(lines) = Parts!Dialog!Chunks(lines)
  BY DEF Dialog!Chunks, Parts!Dialog!Chunks, Dialog!Added, Parts!Dialog!Added,
         Dialog!Fitted, Parts!Dialog!Fitted, Dialog!Flushed, Parts!Dialog!Flushed,
         Dialog!Pieces, Parts!Dialog!Pieces, Dialog!Size, Parts!Dialog!Size,
         Dialog!Length, Parts!Dialog!Length, Dialog!TextOf, Parts!Dialog!TextOf,
         Dialog!Line, Parts!Dialog!Line, Dialog!Take, Parts!Dialog!Take,
         Dialog!FlattenSeq, Parts!Dialog!FlattenSeq
<1>8. \A p : Dialog!Items(p) = Parts!Dialog!Items(p)
  BY <1>2, <1>4, <1>7 DEF Dialog!Items, Parts!Dialog!Items
<1> QED BY <1>1, <1>2, <1>4, <1>6, <1>8 DEF Dialog!DialogKept, Parts!Dialog!DialogKept

-----------------------------------------------------------------------------
(* The sessions of Claude Code *)

\* The steps of the sessions here are those that StorePartsProofs is about.
LEMMA SessionSteps == Session!Next => Parts!Next
<1> USE DEF Session!memoryVars, Parts!memoryVars, Session!cliVars, Parts!cliVars,
            Session!flagVars, Parts!flagVars, Session!Mishap, Parts!Mishap,
            Session!LeavesUnread, Parts!LeavesUnread, Session!NothingUnread,
            Parts!NothingUnread, Session!CliGone, Parts!CliGone, Session!LlmEnds,
            Parts!LlmEnds, Session!Elements, Parts!Elements, Session!From, Parts!From
<1>1. Session!Sync => Parts!Sync
  BY DEF Session!Sync, Parts!Sync, Session!NoUuid, Parts!NoUuid, Session!OurUuids,
         Parts!OurUuids, Session!OurSynced, Parts!OurSynced, Session!ClaudeSynced,
         Parts!ClaudeSynced, Session!CanonOrder, Parts!CanonOrder, Session!IsReply,
         Parts!IsReply, Session!Rank, Parts!Rank, Session!Cardinality, Parts!Cardinality,
         Session!Desync, Parts!Desync, Session!FirstMatch, Parts!FirstMatch, Session!Stale,
         Parts!Stale, Session!OurPlaces, Parts!OurPlaces, Session!At, Parts!At
<1>2. Session!Reuse => Parts!Reuse
  BY DEF Session!Reuse, Parts!Reuse
<1>3. Session!Connect => Parts!Connect
  BY DEF Session!Connect, Parts!Connect
<1>4. Session!ConnectFails => Parts!ConnectFails
  BY DEF Session!ConnectFails, Parts!ConnectFails
<1>5. Session!Ask => Parts!Ask
  BY DEF Session!Ask, Parts!Ask, Session!Contents, Parts!Contents, Session!Pending,
         Parts!Pending, Session!Writes, Parts!Writes
<1>6. Session!AskFails => Parts!AskFails
  BY DEF Session!AskFails, Parts!AskFails, Session!Contents, Parts!Contents, Session!Pending,
         Parts!Pending, Session!Writes, Parts!Writes
<1>7. Session!Read => Parts!Read
  BY DEF Session!Read, Parts!Read, Session!Message, Parts!Message, Session!TurnOf,
         Parts!TurnOf, Session!Turn, Parts!Turn, Session!IsCall, Parts!IsCall, Session!IsReply,
         Parts!IsReply, Session!CallOf, Parts!CallOf, Session!IsResult, Parts!IsResult,
         Session!Result, Parts!Result, Session!NoUuid, Parts!NoUuid
<1>8. Session!ReadRaises => Parts!ReadRaises
  BY DEF Session!ReadRaises, Parts!ReadRaises, Session!Message, Parts!Message, Session!TurnOf,
         Parts!TurnOf, Session!Turn, Parts!Turn, Session!IsCall, Parts!IsCall, Session!IsReply,
         Parts!IsReply, Session!CallOf, Parts!CallOf, Session!IsResult, Parts!IsResult,
         Session!Result, Parts!Result, Session!NoUuid, Parts!NoUuid
<1>9. Session!StreamBreaks => Parts!StreamBreaks
  BY DEF Session!StreamBreaks, Parts!StreamBreaks, Session!Message, Parts!Message,
         Session!TurnOf, Parts!TurnOf, Session!Turn, Parts!Turn, Session!IsCall, Parts!IsCall,
         Session!IsReply, Parts!IsReply, Session!CallOf, Parts!CallOf, Session!IsResult,
         Parts!IsResult, Session!Result, Parts!Result, Session!NoUuid, Parts!NoUuid
<1>10. Session!Finish => Parts!Finish
  BY DEF Session!Finish, Parts!Finish, Session!Message, Parts!Message, Session!TurnOf,
         Parts!TurnOf, Session!Turn, Parts!Turn, Session!IsCall, Parts!IsCall, Session!IsReply,
         Parts!IsReply, Session!CallOf, Parts!CallOf, Session!IsResult, Parts!IsResult,
         Session!Result, Parts!Result, Session!NoUuid, Parts!NoUuid
<1>11. Session!Drained => Parts!Drained
  BY DEF Session!Drained, Parts!Drained, Session!ReturnsPartial, Parts!ReturnsPartial,
         Session!Unpaired, Parts!Unpaired, Session!Unanswered, Parts!Unanswered, Session!Rank,
         Parts!Rank, Session!Cardinality, Parts!Cardinality, Session!Turn, Parts!Turn,
         Session!NoUuid, Parts!NoUuid, Session!ResultWaits, Parts!ResultWaits,
         Session!FirstResult, Parts!FirstResult, Session!IsResult, Parts!IsResult
<1>12. Session!DrainTimesOut => Parts!DrainTimesOut
  BY DEF Session!DrainTimesOut, Parts!DrainTimesOut, Session!ReturnsPartial,
         Parts!ReturnsPartial, Session!Unpaired, Parts!Unpaired, Session!Unanswered,
         Parts!Unanswered, Session!Rank, Parts!Rank, Session!Cardinality, Parts!Cardinality,
         Session!Turn, Parts!Turn, Session!NoUuid, Parts!NoUuid, Session!ResultWaits,
         Parts!ResultWaits, Session!FirstResult, Parts!FirstResult, Session!IsResult,
         Parts!IsResult
<1>13. Session!StopEarly => Parts!StopEarly
  BY DEF Session!StopEarly, Parts!StopEarly, Session!Contents, Parts!Contents, Session!Pending,
         Parts!Pending, Session!Writes, Parts!Writes
<1>14. Session!StopConnecting => Parts!StopConnecting
  BY DEF Session!StopConnecting, Parts!StopConnecting, Session!Contents, Parts!Contents,
         Session!Pending, Parts!Pending, Session!Writes, Parts!Writes
<1>15. Session!StopAsking => Parts!StopAsking
  BY DEF Session!StopAsking, Parts!StopAsking, Session!Contents, Parts!Contents,
         Session!Pending, Parts!Pending, Session!Writes, Parts!Writes
<1>16. Session!StopStreaming => Parts!StopStreaming
  BY DEF Session!StopStreaming, Parts!StopStreaming, Session!Contents, Parts!Contents,
         Session!Pending, Parts!Pending, Session!Writes, Parts!Writes
<1>17. Session!CliTakes => Parts!CliTakes
  BY DEF Session!CliTakes, Parts!CliTakes, Session!Writing, Parts!Writing, Session!UserEntry,
         Parts!UserEntry, Session!CallEntry, Parts!CallEntry, Session!ReplyEntry,
         Parts!ReplyEntry, Session!TextEntry, Parts!TextEntry, Session!Result, Parts!Result
<1>18. Session!CliCalls => Parts!CliCalls
  BY DEF Session!CliCalls, Parts!CliCalls, Session!Writing, Parts!Writing, Session!UserEntry,
         Parts!UserEntry, Session!CallEntry, Parts!CallEntry, Session!ReplyEntry,
         Parts!ReplyEntry, Session!TextEntry, Parts!TextEntry, Session!Result, Parts!Result
<1>19. Session!CliReplies => Parts!CliReplies
  BY DEF Session!CliReplies, Parts!CliReplies, Session!Writing, Parts!Writing,
         Session!UserEntry, Parts!UserEntry, Session!CallEntry, Parts!CallEntry,
         Session!ReplyEntry, Parts!ReplyEntry, Session!TextEntry, Parts!TextEntry,
         Session!Result, Parts!Result
<1>20. Session!CliAnswers => Parts!CliAnswers
  BY DEF Session!CliAnswers, Parts!CliAnswers, Session!Writing, Parts!Writing,
         Session!UserEntry, Parts!UserEntry, Session!CallEntry, Parts!CallEntry,
         Session!ReplyEntry, Parts!ReplyEntry, Session!TextEntry, Parts!TextEntry,
         Session!Result, Parts!Result
<1>21. Session!CliFails => Parts!CliFails
  BY DEF Session!CliFails, Parts!CliFails, Session!Writing, Parts!Writing, Session!UserEntry,
         Parts!UserEntry, Session!CallEntry, Parts!CallEntry, Session!ReplyEntry,
         Parts!ReplyEntry, Session!TextEntry, Parts!TextEntry, Session!Result, Parts!Result
<1>22. Session!CliInterrupted => Parts!CliInterrupted
  BY DEF Session!CliInterrupted, Parts!CliInterrupted, Session!Writing, Parts!Writing,
         Session!UserEntry, Parts!UserEntry, Session!CallEntry, Parts!CallEntry,
         Session!ReplyEntry, Parts!ReplyEntry, Session!TextEntry, Parts!TextEntry,
         Session!Result, Parts!Result
<1>23. Session!CliDies => Parts!CliDies
  BY DEF Session!CliDies, Parts!CliDies, Session!Writing, Parts!Writing, Session!UserEntry,
         Parts!UserEntry, Session!CallEntry, Parts!CallEntry, Session!ReplyEntry,
         Parts!ReplyEntry, Session!TextEntry, Parts!TextEntry, Session!Result, Parts!Result
<1>24. Session!SessionLost => Parts!SessionLost
  BY DEF Session!SessionLost, Parts!SessionLost, Session!Writing, Parts!Writing,
         Session!UserEntry, Parts!UserEntry, Session!CallEntry, Parts!CallEntry,
         Session!ReplyEntry, Parts!ReplyEntry, Session!TextEntry, Parts!TextEntry,
         Session!Result, Parts!Result
<1>25. Session!UserTurn => Parts!UserTurn
  BY DEF Session!UserTurn, Parts!UserTurn, Session!Turn, Parts!Turn, Session!NoUuid,
         Parts!NoUuid
<1>26. Session!Restart => Parts!Restart
  BY DEF Session!Restart, Parts!Restart, Session!Turn, Parts!Turn, Session!NoUuid, Parts!NoUuid
<1> QED
  BY <1>1, <1>2, <1>3, <1>4, <1>5, <1>6, <1>7, <1>8, <1>9, <1>10, <1>11, <1>12, <1>13,
     <1>14, <1>15, <1>16, <1>17, <1>18, <1>19, <1>20, <1>21, <1>22, <1>23, <1>24, <1>25, <1>26
  DEF Session!Next, Parts!Next, Session!Llm, Parts!Llm, Session!Stops, Parts!Stops,
      Session!Process, Parts!Process

LEMMA SessionsKeep == Parts!SessionInv /\ [Next]_allVars => Parts!SessionInv'
<1>1. [Next]_allVars => Session!Next \/ UNCHANGED sessionVars
  BY DEF Next, allVars
<1>2. UNCHANGED sessionVars => UNCHANGED Parts!claudeVars
  BY DEF sessionVars, Parts!claudeVars, Parts!memoryVars, Parts!cliVars, Parts!flagVars
<1>3. [Next]_allVars => [Parts!Next]_Parts!claudeVars
  BY <1>1, <1>2, SessionSteps
<1> QED BY <1>3, Parts!SessionStep

\* The sessions of Claude Code: a user turn that something stands behind was in the query
\* of a call, what a call reads belongs to its own query, and every tool call that the
\* memory keeps has one result behind it - however the process, the transport and the
\* stops come in each other's way.
THEOREM SessionAnswers == Spec => []AnswersPaired
<1>1. Init => Parts!SessionInv
  <2>1. Session!Init => Parts!Init
    BY DEF Session!Init, Parts!Init
  <2> QED BY <2>1, SessionAssumption, Parts!SessionStart DEF Init
<1>2. Parts!SessionInv => AnswersPaired
  <2>1. Parts!UserTurnsHeard => Session!UserTurnsHeard
    BY DEF Session!UserTurnsHeard, Parts!UserTurnsHeard
  <2>2. Parts!AnswersOwnQuestion => Session!AnswersOwnQuestion
    BY DEF Session!AnswersOwnQuestion, Parts!AnswersOwnQuestion, Session!Elements, Parts!Elements,
           Session!QueryOf, Parts!QueryOf
  <2>3. Parts!CallsPaired => Session!CallsPaired
    BY DEF Session!CallsPaired, Parts!CallsPaired, Session!Cardinality, Parts!Cardinality
  <2> QED BY <2>1, <2>2, <2>3, Parts!SessionMeans DEF AnswersPaired
<1> QED BY <1>1, <1>2, SessionsKeep, PTL DEF Spec, allVars

-----------------------------------------------------------------------------
(* The histories, and all of the types *)

\* A history grows by a turn.
LEMMA Grows ==
    ASSUME NEW S, NEW s \in Seq(S), NEW e \in S, NEW n \in Nat, Len(s) < n
    PROVE  Append(s, e) \in Seq(S) /\ Len(Append(s, e)) <= n
<1>1. Append(s, e) \in Seq(S) /\ Len(Append(s, e)) = Len(s) + 1
  OBVIOUS
<1> QED BY <1>1

LEMMA DialogTyped ==
    ASSUME Dialog!TypeOK, [Next]_allVars
    PROVE  Dialog!TypeOK'
<1>1. CASE Dialog!AddTurn
  <2>1. PICK t \in Dialog!Turn : dialog' = Append(dialog, t)
    BY <1>1 DEF Dialog!AddTurn
  <2>2. dialog \in Seq(Dialog!Turn) /\ Len(dialog) < MaxDialogTurns /\ MaxDialogTurns \in Nat
    BY <1>1, FactAssumption DEF Dialog!TypeOK, Dialog!AddTurn
  <2>3. dialog' \in Seq(Dialog!Turn) /\ Len(dialog') <= MaxDialogTurns
    BY <2>1, <2>2, Grows
  <2> QED BY <2>3 DEF Dialog!TypeOK
<1>2. CASE UNCHANGED dialogVars
  BY <1>2 DEF Dialog!TypeOK, dialogVars
<1> QED BY <1>1, <1>2 DEF Next, allVars

LEMMA OldTurns ==
    /\ \A r \in {"user", "model"} : Shapes!Said(r) \subseteq Shapes!OldTurn
    /\ Shapes!Calling \subseteq Shapes!OldTurn
    /\ \A n : Shapes!Replying(n) \subseteq Shapes!OldTurn
BY DEF Shapes!Said, Shapes!Calling, Shapes!Replying

LEMMA ShapesTyped ==
    ASSUME Shapes!TypeOK, [Next]_allVars
    PROVE  Shapes!TypeOK'
<1>1. CASE Shapes!AddOld
  <2>1. PICK t \in Shapes!OldTurn : old' = Append(old, t)
    BY <1>1 DEF Shapes!AddOld
  <2>2. old \in Seq(Shapes!OldTurn) /\ Len(old) < MaxOldTurns /\ MaxOldTurns \in Nat
    BY <1>1, FactAssumption DEF Shapes!TypeOK, Shapes!AddOld
  <2>3. old' \in Seq(Shapes!OldTurn) /\ Len(old') <= MaxOldTurns
    BY <2>1, <2>2, Grows
  <2> QED BY <2>3 DEF Shapes!TypeOK
<1>2. CASE UNCHANGED shapesVars
  BY <1>2 DEF Shapes!TypeOK, shapesVars
<1> QED BY <1>1, <1>2 DEF Next, allVars

LEMMA HistoriesStart == Init => Dialog!TypeOK /\ Shapes!TypeOK
<1> SUFFICES ASSUME Init PROVE Dialog!TypeOK /\ Shapes!TypeOK
  OBVIOUS
<1>1. dialog = <<>> /\ old = <<>>
  BY DEF Init, Dialog!Init, Shapes!Init
<1>2. \A S : <<>> \in Seq(S)
  OBVIOUS
<1>3. Len(<<>>) = 0 /\ 0 <= MaxDialogTurns /\ 0 <= MaxOldTurns
  BY FactAssumption
<1> QED BY <1>1, <1>2, <1>3 DEF Dialog!TypeOK, Shapes!TypeOK

\* What is true of the sessions.
SessionTyped == Parts!SessionTypes /\ Parts!FileTypes

LEMMA SessionTypedSteps ==
    ASSUME Parts!SessionInv, SessionTyped, [Next]_allVars
    PROVE  SessionTyped'
<1>1. Session!Next \/ UNCHANGED sessionVars
  BY DEF Next, allVars
<1>2. Parts!SessionTypes'
  BY SessionsKeep DEF Parts!SessionInv
<1>3. CASE Session!Next
  <2>1. Parts!Next
    BY <1>3, SessionSteps
  <2> QED BY <1>2, <2>1, Parts!FilesTyped DEF SessionTyped
<1>4. CASE UNCHANGED sessionVars
  <2>1. UNCHANGED Parts!claudeVars
    BY <1>4 DEF sessionVars, Parts!claudeVars, Parts!memoryVars, Parts!cliVars, Parts!flagVars
  <2> QED BY <1>2, <2>1, Parts!FilesRest DEF SessionTyped
<1> QED BY <1>1, <1>3, <1>4

LEMMA SessionTypedStarts == Init => Parts!SessionInv /\ SessionTyped
<1> SUFFICES ASSUME Init PROVE Parts!SessionInv /\ SessionTyped
  OBVIOUS
<1>1. Parts!Init
  BY DEF Init, Session!Init, Parts!Init
<1>2. Parts!SessionInv
  BY <1>1, SessionAssumption, Parts!SessionStart
<1>3. Parts!FileTypes
  BY <1>1, SessionAssumption, Parts!FilesStart
<1> QED BY <1>2, <1>3 DEF SessionTyped, Parts!SessionInv

LEMMA SessionTypedMeans == SessionTyped => Session!TypeOK
<1> SUFFICES ASSUME SessionTyped PROVE Session!TypeOK
  OBVIOUS
<1>1. Parts!TypeOK
  BY Parts!SessionHasType DEF SessionTyped
<1> QED BY <1>1 DEF Session!TypeOK, Parts!TypeOK, Session!Kinds, Parts!Kinds

LEMMA PartsStep ==
    ASSUME ExtractInv, NameInv, CompanyTypes, RecallInv, [Next]_allVars
    PROVE  ExtractInv' /\ CompanyTypes' /\ RecallInv'
<1>1. Extract!Next \/ UNCHANGED extractVars
  BY DEF Next, allVars
<1>2. Resolver!Next \/ UNCHANGED resolverVars
  BY DEF Next, allVars
<1>3. Recall!Next \/ UNCHANGED recallVars
  BY DEF Next, allVars
<1>4. ExtractInv'
  BY <1>1, ExtractMoves, ExtractRests
<1>5. CompanyTypes'
  BY <1>2, CompanyStep, CompanyRests
<1>6. RecallInv'
  BY <1>3, RecallStep, RecallRests
<1> QED BY <1>4, <1>5, <1>6

\* What holds in every part, whatever it has been through.
PartsInv == /\ Dialog!TypeOK /\ Shapes!TypeOK /\ ExtractInv /\ CompanyTypes /\ RecallInv
            /\ NameInv /\ StoreInv /\ Parts!SessionInv /\ SessionTyped

LEMMA PartsStart == Init => PartsInv
BY HistoriesStart, ExtractStarts, CompanyStart, RecallStarts, NameStart, StoreStart,
   SessionTypedStarts DEF Init, PartsInv

LEMMA PartsKeep == PartsInv /\ [Next]_allVars => PartsInv'
<1> SUFFICES ASSUME PartsInv, [Next]_allVars PROVE PartsInv'
  OBVIOUS
<1> USE DEF PartsInv
<1>1. Dialog!TypeOK' /\ Shapes!TypeOK'
  BY DialogTyped, ShapesTyped
<1>2. ExtractInv' /\ CompanyTypes' /\ RecallInv'
  BY PartsStep
<1>3. NameInv' /\ StoreInv' /\ Parts!SessionInv' /\ SessionTyped'
  BY NameStep, StoreStep, SessionsKeep, SessionTypedSteps
<1> QED BY <1>1, <1>2, <1>3

\* The stores: in every part, whatever it has been through, the values have their types;
\* the pieces of a chunk lie one behind another and hold facts of their own statements
\* only, a company is a pair of entities, a ranking names known facts once, and what
\* the session file holds are the identifiers of messages.
THEOREM StoresTyped == Spec => []TypeOK
<1>1. PartsInv => TypeOK
  BY ExtractHasType, NamesHaveType, StoreHasType, RecallHasType, SessionTypedMeans
  DEF TypeOK, PartsInv
<1> QED BY <1>1, PartsStart, PartsKeep, PTL DEF Spec, allVars

\* From the pending turns to the facts: the chunks of a conversation hold every word of
\* its replies once, in order, each behind the mark of its speaker, within the size
\* unless it is a single piece; and the facts of a chunk come in the order of its text.
THEOREM FactsKeepOrder == Spec => []FactsInOrder
<1>1. PartsInv => FactsInOrder
  BY DialogIsKept, ExtractInOrder DEF FactsInOrder, PartsInv
<1> QED BY <1>1, PartsStart, PartsKeep, PTL DEF Spec, allVars

=============================================================================
