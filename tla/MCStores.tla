------------------------------ MODULE MCStores -------------------------------
(* What outlives a process: the steps that fill and read the fact database,    *)
(* the session file that a turn of Claude is replayed from, and the history as *)
(* it is read from its file and cut to a window.  The initial states choose    *)
(* which of them runs, the others rest in one initial state.                   *)
EXTENDS Integers, Sequences, FiniteSets, TLC

CONSTANTS
    People, MaxDialogTurns,
    Workers, Attempts, MaxChunks, MaxStatements,
    MaxBatches, MaxCrashes,
    FactTexts, JobOrigins, Connections, JobSize, MaxJobs, MaxCommands, MaxFacts, MaxMishaps,
    RecallFacts, Candidates, MaxEntityFrequency, MaxTokens,
    PruneAbove, MaxUsers, MaxSessionMishaps,
    HardLimit, SoftLimit, MinUsers, MaxOldTurns

VARIABLE part
VARIABLES dialog
VARIABLES lengths, tasks, outcome
VARIABLES entities, aliases, company, batch, cache, linked, meaning, batches, crashes
VARIABLES rows, vectors, issued, queue, job, runs, holder, passes, raced, jobs, commands, mishaps
VARIABLES samples, links, query, search, found, results
VARIABLES mem, created, client, session, cli, inbox, stream, phase, turns, asked, heard, pruned,
          alarm, lost, unread, mixed, users, sessionMishaps
VARIABLES old

-----------------------------------------------------------------------------
(* The instances *)

Said(n) == [size |-> n, document |-> FALSE]
Attached(n) == [size |-> n, document |-> TRUE]
MCContents == {<<Said(0)>>, <<Said(2)>>, <<Said(6)>>, <<Said(9)>>, <<Said(2), Attached(2)>>,
               <<Attached(9), Said(1), Said(2)>>}

Dialog == INSTANCE DialogChunks
    WITH ChunkSize <- 6, Mark <- 1, Contents <- MCContents, MaxTurns <- MaxDialogTurns,
         pending <- dialog

Extract == INSTANCE FactExtract

\* What _name_score says of three names; two of them are below the threshold and
\* reach it with the company they are seen in.
MCNames == {"user", "anna", "maria"}
MCSimilarity(a, b) ==
    IF a = b THEN 100 ELSE IF {a, b} = {"anna", "maria"} THEN 44 ELSE 20

Resolver == INSTANCE EntityResolver
    WITH Names <- MCNames, Similarity <- MCSimilarity, Threshold <- 82

Store == INSTANCE FactStore WITH BatchSize <- 1, MaxIds <- MaxFacts

\* Neither a text nor a thread of the executor is special.
Alike == Permutations(FactTexts) \cup Permutations(Connections)

Fact(tags, real, sim, worded, dated, near, ents) ==
    [tags |-> tags, observation |-> FALSE, real |-> real, similarity |-> sim, worded |-> worded,
     dated |-> dated, proximity |-> near, entities |-> ents, sources |-> {}]
Observation(tags, sim, sources) ==
    [tags |-> tags, observation |-> TRUE, real |-> FALSE, similarity |-> sim, worded |-> FALSE,
     dated |-> FALSE, proximity |-> 0, entities |-> {}, sources |-> sources]
MCSamples == {Fact({}, FALSE, 5, TRUE, FALSE, 0, {"e"}), Fact({"t"}, TRUE, 0, FALSE, TRUE, 8, {"e"}),
              Fact({}, FALSE, 0, FALSE, FALSE, 0, {}), Observation({}, 4, {1}),
              Observation({"t"}, 0, {1}), Observation({}, 4, {2})}
Link(source, target, kind, strength) ==
    [source |-> source, target |-> target, kind |-> kind, strength |-> strength]
MCLinks == {Link(2, 1, "caused_by", 10), Link(2, 3, "temporal", 6), Link(1, 3, "semantic", 8)}
Query(tags, match, types, real, timed, limit) ==
    [tags |-> tags, match |-> match, types |-> types, real |-> real, timed |-> timed,
     limit |-> limit]
MCQueries ==
    {Query({"t"}, match, "either", "either", TRUE, 2)
        : match \in {"any", "all", "any_strict", "all_strict"}}
    \cup {Query({}, "any", "either", "either", FALSE, 2), Query({}, "any", "either", "either", TRUE, 1),
          Query({}, "any", "observation", "either", TRUE, 2),
          Query({}, "any", "fact", "yes", TRUE, 2), Query({}, "any", "fact", "no", TRUE, 2)}

Recall == INSTANCE FactRecall
    WITH Samples <- MCSamples, Links <- MCLinks, Size <- RecallFacts, Queries <- MCQueries,
         rows <- samples, step <- search
Session == INSTANCE ClaudeSession
    WITH MaxMishaps <- MaxSessionMishaps, query <- asked, mishaps <- sessionMishaps

Shapes == INSTANCE HistoryShapes

-----------------------------------------------------------------------------

\* The stores: bounds are counts, no connection is the absent one, which is 0.
ASSUME StoreAssumption ==
    /\ MaxFacts \in Nat /\ JobSize \in Nat /\ MaxJobs \in Nat /\ MaxCommands \in Nat
    /\ MaxMishaps \in Nat
    /\ JobOrigins \subseteq Store!Origins /\ 0 \notin Connections

\* Recall: the facts and the limits are counts.
ASSUME RecallAssumption == RecallFacts \in Nat /\ Candidates \in Nat /\ MaxTokens \in Nat

\* The session: its bounds are counts.
ASSUME SessionAssumption == MaxUsers \in Nat /\ MaxSessionMishaps \in Nat /\ PruneAbove \in Nat

\* What the facts are taken from: the bounds are counts, the model is asked at least once.
ASSUME FactAssumption ==
    /\ MaxDialogTurns \in Nat /\ MaxOldTurns \in Nat
    /\ Attempts \in Nat \ {0} /\ MaxStatements \in Nat /\ MaxChunks \in Nat
    /\ MaxBatches \in Nat /\ MaxCrashes \in Nat

dialogVars == <<dialog>>
extractVars == <<lengths, tasks, outcome>>
resolverVars == <<entities, aliases, company, batch, cache, linked, meaning, batches, crashes>>
storeVars == <<rows, vectors, issued, queue, job, runs, holder, passes, raced, jobs, commands,
               mishaps>>
recallVars == <<samples, links, query, search, found, results>>
sessionVars == <<mem, created, client, session, cli, inbox, stream, phase, turns, asked, heard,
                 pruned, alarm, lost, unread, mixed, users, sessionMishaps>>
shapesVars == <<old>>

Init ==
    /\ part \in {"dialog", "extract", "resolver", "store", "recall", "session", "shapes"}
    /\ Dialog!Init /\ Resolver!Init /\ Store!Init /\ Session!Init /\ Shapes!Init
    /\ Extract!Init /\ (part # "extract" => lengths = <<1>>)
    /\ IF part = "recall" THEN Recall!Init
       ELSE /\ samples = <<>> /\ links = {} /\ query = CHOOSE q \in MCQueries : TRUE
            /\ search = "semantic" /\ found = [s \in Recall!Searches |-> <<>>] /\ results = {}

Next ==
    /\ UNCHANGED part
    /\ \/ /\ part = "dialog" /\ Dialog!AddTurn
          /\ UNCHANGED <<extractVars, resolverVars, storeVars, recallVars, sessionVars,
                         shapesVars>>
       \/ /\ part = "extract" /\ Extract!Next
          /\ UNCHANGED <<dialogVars, resolverVars, storeVars, recallVars, sessionVars,
                         shapesVars>>
       \/ /\ part = "resolver" /\ Resolver!Next
          /\ UNCHANGED <<dialogVars, extractVars, storeVars, recallVars, sessionVars,
                         shapesVars>>
       \/ /\ part = "store" /\ Store!Next
          /\ UNCHANGED <<dialogVars, extractVars, resolverVars, recallVars, sessionVars,
                         shapesVars>>
       \/ /\ part = "recall" /\ Recall!Next
          /\ UNCHANGED <<dialogVars, extractVars, resolverVars, storeVars, sessionVars,
                         shapesVars>>
       \/ /\ part = "session" /\ Session!Next
          /\ UNCHANGED <<dialogVars, extractVars, resolverVars, storeVars, recallVars,
                         shapesVars>>
       \/ /\ part = "shapes" /\ Shapes!AddOld
          /\ UNCHANGED <<dialogVars, extractVars, resolverVars, storeVars, recallVars, sessionVars>>

Spec ==
    /\ Init
    /\ [][Next]_<<part, dialogVars, extractVars, resolverVars, storeVars, recallVars,
                  sessionVars, shapesVars>>

-----------------------------------------------------------------------------

\* The values of every part have their types.
TypeOK ==
    /\ Dialog!TypeOK /\ Extract!TypeOK /\ Resolver!TypeOK /\ Store!TypeOK /\ Recall!TypeOK
    /\ Session!TypeOK /\ Shapes!TypeOK

\* From the pending turns to the facts: every reply reaches the extractor whole, in
\* order and with its speaker, and the facts of a chunk come in the order of its text.
FactsInOrder == Dialog!DialogKept /\ Extract!FactsInOrder

\* The resolver: a name means the same entity for ever.
NameKeepsEntity == Resolver!NameKeepsEntity

\* The store: SQLite and LanceDB agree when nothing runs.
StoresAgree == Store!StoresAgree

\* The store: links find their facts, a fact is consolidated once, and observations
\* rest on facts.
FactsAccounted == Store!ForeignKeysHold /\ Store!ConsolidatedOnce /\ Store!SourcesAreFacts

\* Recall: nothing its filters exclude, and all that they and the limits let through.
RecallExact == Recall!RecallExact

\* Two tellings of one history agree: an alarm of the synchronisation means a lost
\* session file, and a history that is converted or cut to a window keeps its order and
\* its replies with their calls.
SessionInStep == Session!AlarmMeansLost /\ Shapes!HistoryShaped

\* The session: every user turn that something stands behind was in the query of a call,
\* an answer belongs to its question, and calls to their results.
AnswersPaired == Session!UserTurnsHeard /\ Session!AnswersOwnQuestion /\ Session!CallsPaired
=============================================================================
