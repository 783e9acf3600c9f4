------------------------------ MODULE FactRecall ------------------------------
(***************************************************************************)
(* recall of memory/providers/fact/recall.py: four searches one after the  *)
(* other in a thread, each with queries of its own, the fusion of their    *)
(* rankings, and the filters, while the consolidation deletes observations.*)
(* Similarities, strengths of links and proximities in time are tenths.    *)
(***************************************************************************)
EXTENDS Integers, Sequences, FiniteSets, SequencesExt, FiniteSetsExt

CONSTANTS
    Samples,        \* bound: the rows of table facts to choose from
    Links,          \* bound: the rows of table fact_links to choose from
    Size,           \* bound: facts in the store
    Queries,        \* bound: the filters of a recall, and TOP_K times the factor of its budget
    Candidates,     \* RERANK_CANDIDATES
    MaxEntityFrequency,  \* MAX_ENTITY_FREQUENCY
    MaxTokens       \* max_tokens, a fact counting for one

VARIABLES
    rows,      \* facts: of each id its filters, what the searches see of it, its sources
    links,     \* fact_links
    query,
    step,      \* "semantic", "bm25", "graph", "temporal", "filter", "done"
    found,     \* the ranking of each search
    results

recallVars == <<rows, links, query, step, found, results>>

SemanticThreshold == 3
CausalThreshold == 3
SpreadThreshold == 2

Ids == 1..Size
Searches == {"semantic", "bm25", "graph", "temporal"}

TypeOK ==
    /\ DOMAIN rows \subseteq Ids /\ links \subseteq Links /\ query \in Queries
    /\ step \in Searches \cup {"filter", "done"}
    /\ \A s \in Searches : Range(found[s]) \subseteq Ids /\ IsInjective(found[s])
    /\ results \subseteq Ids

\* The sources of an observation are facts of the store that are no observations.
Init ==
    /\ rows \in [Ids -> Samples]
    /\ \A i \in Ids : rows[i].observation => rows[i].sources # {}
    /\ \A i \in Ids : \A j \in rows[i].sources : rows[i].observation /\ ~rows[j].observation
    /\ links \in SUBSET Links
    /\ query \in Queries
    /\ step = "semantic"
    /\ found = [s \in Searches |-> <<>>]
    /\ results = {}

-----------------------------------------------------------------------------
(* Rankings and filters *)

Larger(a, b) == IF a >= b THEN a ELSE b
Smaller(a, b) == IF a <= b THEN a ELSE b
First(seq, n) == SubSeq(seq, 1, Smaller(n, Len(seq)))

Ahead(score, i, j) == score[i] > score[j] \/ (score[i] = score[j] /\ i < j)

\* The ids of a score, the highest score first; of equal scores one order is taken.
Ranked(score) ==
    [n \in 1..Cardinality(DOMAIN score) |->
        CHOOSE i \in DOMAIN score : Cardinality({j \in DOMAIN score : Ahead(score, j, i)}) = n - 1]

\* Two sets of scores; where both have one the first counts.
Merged(first, second) ==
    [i \in DOMAIN first \cup DOMAIN second |-> IF i \in DOMAIN first THEN first[i] ELSE second[i]]

\* _tags_where: "any" and "all" let rows without tags through, the strict forms do not.
TagsPass(tags) ==
    LET some == tags \cap query.tags # {}
        all == query.tags \subseteq tags
    IN query.tags = {} \/
       CASE query.match = "all" -> all \/ tags = {}
         [] query.match = "any_strict" -> some
         [] query.match = "all_strict" -> all
         [] OTHER -> some \/ tags = {}

\* _fact_types_where, _is_real_document_where and _tags_where.
Passes(row) ==
    /\ query.types = "observation" => row.observation
    /\ query.types = "fact" => ~row.observation
    /\ query.real # "either" => row.real = (query.real = "yes")
    /\ TagsPass(row.tags)

-----------------------------------------------------------------------------
(* The graph: _graph_link_expansion *)

Frequent(e) == Cardinality({i \in DOMAIN rows : e \in rows[i].entities}) >= MaxEntityFrequency

\* Query 1: the pairs (seed, entity) a fact shares, entities of too many facts left out.
EntityScores(seeds) ==
    LET shared(i) == {p \in seeds \X UNION {rows[s].entities : s \in seeds} :
                        /\ p[2] \in rows[p[1]].entities \cap rows[i].entities
                        /\ ~Frequent(p[2])}
    IN [i \in {j \in DOMAIN rows \ seeds : shared(j) # {}} |-> 10 * Cardinality(shared(i))]

\* Query 2: the causes of the seeds.
CausalScores(seeds) ==
    LET to(i) == {l \in links : /\ l.source \in seeds /\ l.target = i /\ l.kind = "caused_by"
                                /\ l.strength >= CausalThreshold}
    IN [i \in {j \in DOMAIN rows \ seeds : to(j) # {}} |-> 10 + Max({l.strength : l \in to(i)})]

\* Query 3: any other link, in both directions, at half its strength.
FallbackScores(seeds) ==
    LET with(i) == {l \in links : /\ \/ l.source \in seeds /\ l.target = i
                                     \/ l.target \in seeds /\ l.source = i
                                  /\ l.kind # "caused_by" /\ l.strength >= CausalThreshold}
    IN [i \in {j \in DOMAIN rows \ seeds : with(j) # {}} |->
           Max({l.strength : l \in with(i)}) \div 2]

\* _observation_graph_expansion: the observations with sources that share an entity with
\* the sources of the observations among the seeds.
ObservationScores(seeds) ==
    LET sources == UNION {rows[s].sources : s \in seeds} \cap DOMAIN rows
        entities == {e \in UNION {rows[s].entities : s \in sources} : ~Frequent(e)}
        matched(i) == {s \in rows[i].sources \cap DOMAIN rows : rows[s].entities \cap entities # {}}
    IN [i \in {j \in DOMAIN rows \ seeds : rows[j].observation /\ matched(j) # {}} |->
           10 * Cardinality(matched(i))]

\* Each query is cut at the budget; entities and causes count by the larger score, the
\* other two only where nothing stronger was found.
GraphScores(seeds, budget) ==
    LET cut(score) == [i \in Range(First(Ranked(score), budget)) |-> score[i]]
        entity == cut(EntityScores(seeds))
        causal == cut(CausalScores(seeds))
        strong == [i \in DOMAIN entity \cup DOMAIN causal |->
                     Larger(IF i \in DOMAIN entity THEN entity[i] ELSE 0,
                            IF i \in DOMAIN causal THEN causal[i] ELSE 0)]
    IN Merged(Merged(strong, cut(FallbackScores(seeds))), cut(ObservationScores(seeds)))

-----------------------------------------------------------------------------
(* Time: _temporal_search and _temporal_spread *)

\* Rows of the time asked for that pass the filters, by their proximity to its middle.
TemporalEntries == {i \in DOMAIN rows : rows[i].dated /\ Passes(rows[i])}

\* What a neighbour gets over a link: its own proximity or seven tenths of the score of
\* the fact it was reached from, weighted, a cause twice.
Propagated(score, l) ==
    Larger(rows[l.target].proximity,
           (score[l.source] * l.strength * (IF l.kind = "caused_by" THEN 2 ELSE 1) * 7) \div 100)

SpreadLinks(frontier) ==
    {l \in links : /\ l.source \in frontier /\ l.target \in DOMAIN rows \ frontier
                   /\ l.kind \in {"temporal", "caused_by"} /\ l.strength >= 1}

\* One batch of the frontier: the strongest link to a new fact counts; facts beyond the
\* budget are kept, only not spread from. (A batch holds the whole frontier here.)
SpreadStep(state) ==
    LET new == {i \in Ids \ DOMAIN state.score :
                    \E l \in SpreadLinks(state.frontier) :
                        l.target = i /\ Propagated(state.score, l) > SpreadThreshold}
        best(i) == {l \in SpreadLinks(state.frontier) :
                      /\ l.target = i /\ Propagated(state.score, l) > SpreadThreshold
                      /\ \A k \in SpreadLinks(state.frontier) :
                            k.target = i /\ Propagated(state.score, k) > SpreadThreshold
                            => k.strength <= l.strength}
        next == Range(First(SetToSeq(new), state.left))
    IN [score |-> Merged(state.score,
                         [i \in new |-> Propagated(state.score, CHOOSE l \in best(i) : TRUE)]),
        frontier |-> next,
        left |-> state.left - Cardinality(next)]

TemporalSpread(entries, budget) ==
    LET start == [score |-> [i \in entries |-> rows[i].proximity], frontier |-> entries,
                  left |-> budget - Cardinality(entries)]
        spread[n \in 0..Size] ==
            IF n = 0 THEN start
            ELSE LET before == spread[n - 1] IN
                 IF before.frontier = {} \/ before.left <= 0 THEN before ELSE SpreadStep(before)
    IN spread[Size].score

-----------------------------------------------------------------------------
(* The steps of recall *)

Search(name, ranking, after) ==
    /\ step = name
    /\ found' = [found EXCEPT ![name] = ranking]
    /\ step' = after
    /\ UNCHANGED <<rows, links, query, results>>

\* _semantic_search: the nearest vectors, unfiltered.
Semantic ==
    LET score == [i \in {j \in DOMAIN rows : rows[j].similarity >= SemanticThreshold} |->
                    rows[i].similarity]
    IN Search("semantic", First(Ranked(score), 2 * query.limit), "bm25")

\* _bm25_search: rows with words of the query, filtered; one order stands for the rank.
Bm25 ==
    LET hits == {i \in DOMAIN rows : rows[i].worded /\ Passes(rows[i])} IN
    Search("bm25", First(SetToSeq(hits), 2 * query.limit), "graph")

\* _graph_link_expansion from the first semantic hits that are still there.
Graph ==
    LET seeds == Range(First(found["semantic"], query.limit)) \cap DOMAIN rows IN
    Search("graph",
           IF seeds = {} THEN <<>>
           ELSE First(Ranked(GraphScores(seeds, 2 * query.limit)), 2 * query.limit),
           "temporal")

\* Only for a query that names a time: the latest rows, any of them here.
Temporal ==
    \E entries \in SUBSET TemporalEntries :
        /\ Cardinality(entries) = Smaller(query.limit, Cardinality(TemporalEntries))
        /\ Search("temporal",
                  IF query.timed THEN Ranked(TemporalSpread(entries, 2 * query.limit)) ELSE <<>>,
                  "filter")

\* _rrf_merge: each list gives 1 / (60 + rank).
Position(seq, i) == SelectInSeq(seq, LAMBDA x : x = i)
Fused ==
    LET given(s, i) == IF i \in Range(found[s]) THEN 1000000 \div (60 + Position(found[s], i)) ELSE 0
    IN [i \in UNION {Range(found[s]) : s \in Searches} |->
           given("semantic", i) + given("bm25", i) + given("graph", i) + given("temporal", i)]

\* Wrong variant: what the searches found is not filtered again.
NotFiltered(merged) == {i \in Range(merged) : i \in DOMAIN rows}

\* The rows of the candidates that are still there and pass the filters.
Filtered(merged) == {i \in Range(merged) : i \in DOMAIN rows /\ Passes(rows[i])}

\* The fused ranking is cut before the filter; the ranker orders what is left anew, any
\* order being possible, and the token budget keeps a beginning of it, at least one.
Filter ==
    /\ step = "filter"
    /\ LET rest == Filtered(First(Ranked(Fused), Candidates)) IN
        \E kept \in SUBSET rest :
            /\ Cardinality(kept) = Smaller(Cardinality(rest), Larger(1, MaxTokens))
            /\ results' = kept
    /\ step' = "done"
    /\ UNCHANGED <<rows, links, query, found>>

\* _delete_observation of a consolidation in another thread; its links go with it.
DeleteObservation ==
    \E i \in DOMAIN rows :
        /\ rows[i].observation /\ step # "done"
        /\ rows' = [j \in DOMAIN rows \ {i} |-> rows[j]]
        /\ links' = {l \in links : i \notin {l.source, l.target}}
        /\ UNCHANGED <<query, step, found, results>>

Next == Semantic \/ Bm25 \/ Graph \/ Temporal \/ Filter \/ DeleteObservation

Spec == Init /\ [][Next]_recallVars

-----------------------------------------------------------------------------

\* Semantic hits, the graph and what the spreading reaches are searched without the
\* filters of recall, and rows go while it runs. Nothing comes out that the filters
\* exclude; what is similar to the query, passes them and was there from the first search
\* to the last comes out when the budget, the candidates and the tokens suffice.
RecallExact ==
    step = "done" =>
        /\ results \subseteq {i \in Ids : i \in DOMAIN rows /\ Passes(rows[i])}
        /\ /\ Len(found["semantic"]) < 2 * query.limit
           /\ Cardinality(DOMAIN Fused) <= Candidates /\ Cardinality(results) < MaxTokens
           => {i \in DOMAIN rows : rows[i].similarity >= SemanticThreshold /\ Passes(rows[i])}
                  \subseteq results
=============================================================================
