----------------------------- MODULE FactExtract -----------------------------
(***************************************************************************)
(* extract_facts of memory/providers/fact/retain.py: the chunks of a batch *)
(* of dialogue are given to the model in parallel, an answer that cannot   *)
(* be read is asked for again, a chunk whose answer was cut off is halved, *)
(* and the facts found are put together, the causes among them resolved.   *)
(* A chunk is a run of statements; the model answers with one entry per    *)
(* statement, in order.                                                    *)
(***************************************************************************)
EXTENDS Integers, Sequences, FiniteSets, SequencesExt

CONSTANTS
    Workers,        \* FACT_WORKERS
    Attempts,       \* max_retries
    MaxChunks,      \* bound: chunks of the batch
    MaxStatements   \* bound: statements of a chunk

VARIABLES
    lengths,   \* statements of each chunk
    tasks,     \* of each chunk: its place with the semaphore and the pieces it was cut in
    outcome    \* "running", "raised" or "gathered"

extractVars == <<lengths, tasks, outcome>>

Chunks == 1..Len(lengths)
\* A fact: the statement it was taken from, the entry of the answer it names as its
\* cause (target_index + 1, 0 for none), and the statement the model meant by that.
Fact == [of : 1..MaxStatements, cause : 0..MaxStatements, meant : 0..MaxStatements]
Piece == [from : 1..MaxStatements, to : 1..MaxStatements, attempt : 1..Attempts,
          asked : BOOLEAN, facts : Seq(Fact)]

TypeOK ==
    /\ Len(lengths) \in 1..MaxChunks /\ \A c \in Chunks : lengths[c] \in 1..MaxStatements
    /\ DOMAIN tasks = Chunks
    /\ \A c \in Chunks : /\ tasks[c].at \in {"waiting", "active", "done"}
                         /\ \A k \in DOMAIN tasks[c].pieces : tasks[c].pieces[k] \in Piece
    /\ outcome \in {"running", "raised", "gathered"}

Asked(from, to) == [from |-> from, to |-> to, attempt |-> 1, asked |-> TRUE, facts |-> <<>>]

Init ==
    /\ lengths \in UNION {[1..n -> 1..MaxStatements] : n \in 1..MaxChunks}
    /\ tasks = [c \in Chunks |-> [at |-> "waiting", pieces |-> <<>>]]
    /\ outcome = "running"

-----------------------------------------------------------------------------
(* The answer of the model *)

\* An entry of the answer: a fact with the entry it names as its cause, one that says
\* nothing ("what" missing), or one that is no object.
Entries(n) ==
    [1..n -> {[is |-> "fact", cause |-> j] : j \in 0..(n - 1)}
             \cup {[is |-> "blank", cause |-> 0], [is |-> "malformed", cause |-> 0]}]

\* Only the index of an earlier entry is kept.
EarlierCause(entries, i) == IF entries[i].cause < i THEN entries[i].cause ELSE 0

\* The n-th of some places.
Nth(K, n) == CHOOSE k \in K : Cardinality({j \in K : j < k}) = n - 1

\* _parse_facts_from_json: the facts, in the order of the entries they come from.
Parsed(piece, entries) ==
    LET fact(i) == LET j == EarlierCause(entries, i) IN
            [of |-> piece.from + i - 1, cause |-> j,
             meant |-> IF j = 0 THEN 0 ELSE piece.from + j - 1]
        kept == {i \in DOMAIN entries : entries[i].is = "fact"}
    IN [k \in 1..Cardinality(kept) |-> fact(Nth(kept, k))]

Malformed(entries) == \E i \in DOMAIN entries : entries[i].is = "malformed"

-----------------------------------------------------------------------------
(* One chunk *)

SetPiece(c, k, piece) == tasks' = [tasks EXCEPT ![c].pieces[k] = piece]
Running(c, k) ==
    /\ outcome = "running"
    /\ tasks[c].at = "active" /\ k \in DOMAIN tasks[c].pieces /\ tasks[c].pieces[k].asked

\* _limited: the semaphore lets the chunks in in their order.
Enter(c) ==
    /\ outcome = "running"
    /\ tasks[c].at = "waiting" /\ \A d \in 1..(c - 1) : tasks[d].at # "waiting"
    /\ Cardinality({d \in Chunks : tasks[d].at = "active"}) < Workers
    /\ tasks' = [tasks EXCEPT ![c] = [at |-> "active", pieces |-> <<Asked(1, lengths[c])>>]]
    /\ UNCHANGED <<lengths, outcome>>

Done(piece, facts) == [piece EXCEPT !.asked = FALSE, !.facts = facts]
Again(piece) == [piece EXCEPT !.attempt = @ + 1]

\* _extract_from_chunk, an answer without readable {"facts": ...}: asked again while
\* attempts are left.
AnswerUnreadable(c, k) ==
    /\ Running(c, k)
    /\ LET p == tasks[c].pieces[k] IN
        SetPiece(c, k, IF p.attempt < Attempts THEN Again(p) ELSE Done(p, <<>>))
    /\ UNCHANGED <<lengths, outcome>>

\* The call fails, or ends for a reason other than the length: the chunk has no facts.
AnswerFails(c, k) ==
    /\ Running(c, k)
    /\ SetPiece(c, k, Done(tasks[c].pieces[k], <<>>))
    /\ UNCHANGED <<lengths, outcome>>

\* More than a fifth of the entries lost, malformed ones among them: asked again while
\* attempts are left.
AnswerReadable(c, k) ==
    /\ Running(c, k)
    /\ LET p == tasks[c].pieces[k] IN
        \E entries \in Entries(p.to - p.from + 1) :
            LET facts == Parsed(p, entries) IN
            SetPiece(c, k,
                IF /\ Malformed(entries) /\ 5 * Len(facts) < 4 * Len(entries)
                   /\ p.attempt < Attempts
                THEN Again(p) ELSE Done(p, facts))
    /\ UNCHANGED <<lengths, outcome>>

\* A field of the wrong type (a strength that is no number, facts that are no list) is
\* an exception that _extract_from_chunk does not catch: gather raises it, the facts of
\* every chunk are lost.
AnswerRaises(c, k) ==
    /\ Running(c, k)
    /\ outcome' = "raised"
    /\ UNCHANGED <<lengths, tasks>>

\* Wrong variant: the halves are put together as they were created last, the second first.
SplitSwapped(pieces, k, middle) ==
    LET p == pieces[k] IN
    SubSeq(pieces, 1, k - 1) \o <<Asked(middle + 1, p.to), Asked(p.from, middle)>>
        \o SubSeq(pieces, k + 1, Len(pieces))

\* The halves take the place of the piece: sub_results[0] + sub_results[1].
Split(pieces, k, middle) ==
    LET p == pieces[k] IN
    SubSeq(pieces, 1, k - 1) \o <<Asked(p.from, middle), Asked(middle + 1, p.to)>>
        \o SubSeq(pieces, k + 1, Len(pieces))

\* _extract_from_chunk_auto_split: an answer cut off by the limit of the output halves
\* the text at a sentence near its middle; a text that has no halves is skipped.
AnswerTooLong(c, k) ==
    /\ Running(c, k)
    /\ LET p == tasks[c].pieces[k] IN
        IF p.from = p.to
          THEN SetPiece(c, k, Done(p, <<>>))
          ELSE \E middle \in p.from..(p.to - 1) :
                   tasks' = [tasks EXCEPT ![c].pieces = Split(@, k, middle)]
    /\ UNCHANGED <<lengths, outcome>>

\* The chunk leaves the semaphore when all its pieces are answered.
Leave(c) ==
    /\ outcome = "running"
    /\ tasks[c].at = "active"
    /\ \A k \in DOMAIN tasks[c].pieces : ~tasks[c].pieces[k].asked
    /\ tasks' = [tasks EXCEPT ![c].at = "done"]
    /\ UNCHANGED <<lengths, outcome>>

\* asyncio.gather returns the results in the order of the chunks.
Gather ==
    /\ outcome = "running"
    /\ \A c \in Chunks : tasks[c].at = "done"
    /\ outcome' = "gathered"
    /\ UNCHANGED <<lengths, tasks>>

Next ==
    \/ \E c \in Chunks : Enter(c) \/ Leave(c)
    \/ \E c \in Chunks : \E k \in DOMAIN tasks[c].pieces :
        \/ AnswerUnreadable(c, k) \/ AnswerFails(c, k) \/ AnswerReadable(c, k)
        \/ AnswerRaises(c, k) \/ AnswerTooLong(c, k)
    \/ Gather

Spec == Init /\ [][Next]_extractVars

-----------------------------------------------------------------------------
(* The result *)

\* What _extract_from_chunk_auto_split returns for a whole chunk.
ChunkFacts(c) == FlattenSeq([k \in DOMAIN tasks[c].pieces |-> tasks[c].pieces[k].facts])

\* The end of extract_facts: the index names a fact of the whole chunk, if there is one;
\* build_causal_links leaves out a fact that names itself. 0 for no cause.
CausalTarget(facts, n) ==
    LET j == facts[n].cause IN
    IF j \in 1..Len(facts) /\ j # n THEN facts[j].of ELSE 0

\* The facts of a chunk come in the order of its text, however it was halved and
\* whichever half was answered first; extract_facts gives them times in this order.
FactsInOrder ==
    outcome = "gathered" =>
        \A c \in Chunks : LET facts == ChunkFacts(c) IN
            \A m, n \in DOMAIN facts : m < n => facts[m].of < facts[n].of

\* "Резолвим causal: local index -> fact_id внутри этого чанка" (retain.py:648): the
\* cause that is stored is the one the model named.
CausesMeant ==
    outcome = "gathered" =>
        \A c \in Chunks : LET facts == ChunkFacts(c) IN
            \A n \in DOMAIN facts : CausalTarget(facts, n) \in {0, facts[n].meant}

=============================================================================
