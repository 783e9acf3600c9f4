---------------------------- MODULE EntityResolver ----------------------------
(***************************************************************************)
(* The names of a batch of facts become entities: upsert_entities and      *)
(* update_cooccurrences of memory/providers/fact/storage.py over the       *)
(* EntityResolver of entity_resolver.py, which looks for a name among the  *)
(* aliases, the entities of that name and the entities with a similar name *)
(* or common company, in this order.                                       *)
(* Names are compared as SQLite and the cache compare them, spelling       *)
(* variants being names of their own.                                      *)
(***************************************************************************)
EXTENDS Integers, Sequences, FiniteSets, SequencesExt

CONSTANTS
    Names,
    Similarity(_, _),   \* _name_score of two names, in percent
    Threshold,          \* SIMILARITY_THRESHOLD, in percent
    MaxBatches,         \* bound: calls of upsert_entities
    MaxCrashes          \* bound: restarts

VARIABLES
    entities,   \* table entities: the names in the order of insertion, the id is the place
    aliases,    \* table entity_aliases
    company,    \* table entity_cooccurrences: pairs of entities
    batch,      \* names of each fact of the running upsert_entities, those to resolve yet
    cache,      \* EntityResolver._cache
    linked,     \* table fact_entities, for the facts of the batch: pairs (fact, entity)
    meaning,    \* the entity each name has been resolved to first, 0 for none
    batches, crashes

entityVars == <<entities, aliases, company, batch, cache, linked, meaning, batches, crashes>>

Ids == 1..Cardinality(Names)
None == 0
NoNames == [n \in Names |-> None]
Idle == batch = <<>>

TypeOK ==
    /\ entities \in Seq(Names) /\ IsInjective(entities)
    /\ aliases \in [Names -> {None} \cup DOMAIN entities]
    /\ company \subseteq {p \in SUBSET DOMAIN entities : Cardinality(p) = 2}
    /\ \A f \in DOMAIN batch : batch[f].names \in Seq(Names) /\ batch[f].left \in Seq(Names)
    /\ cache \in [Names -> {None} \cup DOMAIN entities]
    /\ linked \subseteq (DOMAIN batch) \X DOMAIN entities
    /\ meaning \in [Names -> {None} \cup DOMAIN entities]
    /\ batches \in 0..MaxBatches /\ crashes \in 0..MaxCrashes

Init ==
    /\ entities = <<>> /\ aliases = NoNames /\ company = {}
    /\ batch = <<>> /\ cache = NoNames /\ linked = {}
    /\ meaning = NoNames
    /\ batches = 0 /\ crashes = 0

-----------------------------------------------------------------------------
(* resolve *)

\* The entity of that name, if there is one.
Exact(name) == SelectInSeq(entities, LAMBDA n : n = name)

\* What needs no comparison of names: the cache, which starts as the aliases, or the
\* name itself. Nearby names are resolved in this way only.
Known(name) == IF cache[name] # None THEN cache[name] ELSE Exact(name)

\* _load_cooccurrences
Companions(id) == {other \in DOMAIN entities : {id, other} \in company /\ other # id}

\* Half the similarity of the names and three tenths of the share of the nearby
\* entities the candidate is known with; in thousandths.
Score(name, id, nearby) ==
    5 * Similarity(name, entities[id])
      + (IF nearby = {} THEN 0
         ELSE (300 * Cardinality(nearby \cap Companions(id))) \div Cardinality(nearby))

\* The first entity of the highest score, if that reaches the threshold.
Similar(name, nearby) ==
    LET best(id) == \A other \in DOMAIN entities :
                        /\ Score(name, other, nearby) <= Score(name, id, nearby)
                        /\ other < id => Score(name, other, nearby) < Score(name, id, nearby)
        found == {id \in DOMAIN entities : best(id) /\ Score(name, id, nearby) >= 5 * Threshold}
    IN IF found = {} THEN None ELSE CHOOSE id \in found : TRUE

-----------------------------------------------------------------------------
(* The actions *)

Means(name, id) == meaning' = [meaning EXCEPT ![name] = IF @ = None THEN id ELSE @]

\* upsert_entities: a new resolver, whose cache is the table of aliases.
Start ==
    /\ Idle /\ batches < MaxBatches
    /\ \E facts \in BoundedSeq({names \in BoundedSeq(Names, 2) :
                                     names # <<>> /\ IsInjective(names)}, 2) :
        /\ facts # <<>>
        /\ batch' = [f \in DOMAIN facts |-> [names |-> facts[f], left |-> facts[f]]]
    /\ cache' = aliases /\ linked' = {}
    /\ batches' = batches + 1
    /\ UNCHANGED <<entities, aliases, company, meaning, crashes>>

\* Wrong variant: the alias is only kept in the cache.
AliasCached(name, id) ==
    /\ cache' = [cache EXCEPT ![name] = id]
    /\ UNCHANGED aliases

\* _save_alias: committed at once.
SaveAlias(name, id) ==
    /\ aliases' = [aliases EXCEPT ![name] = IF @ = None THEN id ELSE @]
    /\ cache' = [cache EXCEPT ![name] = id]

\* resolve_or_create of the next name of the batch: known, similar to an entity, or the
\* name of a new one.
Resolve ==
    \E f \in DOMAIN batch :
        /\ batch[f].left # <<>> /\ \A g \in 1..(f - 1) : batch[g].left = <<>>
        /\ LET name == Head(batch[f].left)
               nearby == {Known(n) : n \in Range(batch[f].names) \ {name}} \ {None}
               takes(id) ==
                   /\ linked' = linked \cup {<<f, id>>}
                   /\ Means(name, id)
           IN
           \/ /\ Known(name) # None
              /\ takes(Known(name))
              /\ cache' = [cache EXCEPT ![name] = Known(name)]
              /\ UNCHANGED <<entities, aliases>>
           \/ /\ Known(name) = None /\ Similar(name, nearby) # None
              /\ takes(Similar(name, nearby))
              /\ SaveAlias(name, Similar(name, nearby))
              /\ UNCHANGED entities
           \/ /\ Known(name) = None /\ Similar(name, nearby) = None
              /\ takes(Len(entities) + 1)
              /\ entities' = Append(entities, name)
              /\ cache' = [cache EXCEPT ![name] = Len(entities) + 1]
              /\ UNCHANGED aliases
        /\ batch' = [batch EXCEPT ![f].left = Tail(@)]
    /\ UNCHANGED <<company, batches, crashes>>

\* update_cooccurrences: every two entities of one fact have met.
Finish ==
    /\ ~Idle /\ \A f \in DOMAIN batch : batch[f].left = <<>>
    /\ company' = company \cup
        UNION {{{l[2], k[2]} : k \in {j \in linked : j[1] = l[1] /\ j[2] # l[2]}} : l \in linked}
    /\ batch' = <<>> /\ linked' = {} /\ cache' = NoNames
    /\ UNCHANGED <<entities, aliases, meaning, batches, crashes>>

\* A restart: what is committed stays, the company of the batch is never written.
Crash ==
    /\ ~Idle /\ crashes < MaxCrashes
    /\ crashes' = crashes + 1
    /\ batch' = <<>> /\ linked' = {} /\ cache' = NoNames
    /\ UNCHANGED <<entities, aliases, company, meaning, batches>>

Next == Start \/ Resolve \/ Finish \/ Crash

Spec == Init /\ [][Next]_entityVars

-----------------------------------------------------------------------------

\* entity_resolver.py:11: an alias is kept "so that later calls with the same name"
\* find it: a name means the same entity for ever, whatever entities, aliases and
\* company come later and wherever a restart falls.
NameKeepsEntity ==
    \A n \in Names : meaning[n] # None /\ Idle =>
        (IF aliases[n] # None THEN aliases[n] ELSE Exact(n)) = meaning[n]

=============================================================================
