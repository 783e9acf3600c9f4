---------------------------- MODULE DialogChunks -----------------------------
(***************************************************************************)
(* What the fact memory is given of a conversation (fact/__init__.py): the *)
(* pending turns of all threads become, thread by thread, one item whose   *)
(* chunks are made of whole replies, and two for every attached document.  *)
(* A word of a text is known by its turn, its block and its place; the     *)
(* splitter of langchain is external and cuts at ChunkSize.                *)
(***************************************************************************)
EXTENDS SequencesExt, Integers, FiniteSets

CONSTANTS
    ChunkSize,  \* CHUNK_SIZE, in words
    Mark,       \* the words of a speaker's mark
    Contents,   \* bound: the contents of a turn, sequences of blocks
    People,     \* bound: the threads of the directory
    MaxTurns    \* bound: turns

VARIABLE pending    \* the turns _consolidate is given

\* A block is a text or a document of so many words, none when it is blank.
Turn == [thread : People, role : {"user", "assistant", "tool"}, blocks : Contents]

TypeOK == pending \in Seq(Turn) /\ Len(pending) <= MaxTurns

Init == pending = <<>>

AddTurn ==
    /\ Len(pending) < MaxTurns
    /\ \E t \in Turn : pending' = Append(pending, t)

Spec == Init /\ [][AddTurn]_pending

-----------------------------------------------------------------------------

Take(s, n) == SubSeq(s, 1, IF n < Len(s) THEN n ELSE Len(s))

\* The words of a block.
Words(t, b) == [k \in 1..pending[t].blocks[b].size |-> <<t, b, k>>]

\* The n-th of some places.
Nth(K, n) == CHOOSE k \in K : Cardinality({j \in K : j < k}) = n - 1

\* The blocks of a turn that are kept, with text and said by one of the two.
OfTurn(p, document, t) ==
    LET blocks == pending[t].blocks
        kept == {b \in DOMAIN blocks : blocks[b].size > 0 /\ blocks[b].document = document}
    IN  IF pending[t].thread # p \/ pending[t].role = "tool" THEN <<>>
        ELSE [n \in 1..Cardinality(kept) |-> <<t, Nth(kept, n)>>]

\* Those of a thread.
Kept(p, document) == FlattenSeq([t \in DOMAIN pending |-> OfTurn(p, document, t)])

\* chunk_text.
Pieces(words) ==
    LET count == (Len(words) + ChunkSize - 1) \div ChunkSize
    IN  [i \in 1..count |-> Take(SubSeq(words, (i - 1) * ChunkSize + 1, Len(words)), ChunkSize)]

\* A line of a chunk: who is marked as its speaker, and its words.
Line(t, words) == [by |-> t, words |-> words]
Length(line) == Mark + Len(line.words)

\* The words of some lines, one line behind another.
TextOf(lines) == FlattenSeq([k \in DOMAIN lines |-> lines[k].words])

\* A chunk is the text of its lines, each marked, with a newline between two.
Size(chunk) == Len(TextOf(chunk)) + (Mark + 1) * Len(chunk) - 1

Flushed(c) == [done |-> IF c.open = <<>> THEN c.done ELSE Append(c.done, c.open), open |-> <<>>]

\* A line that does not fit into the open chunk closes it.
Fitted(c, line) ==
    IF c.open # <<>> /\ Size(c.open) + Length(line) + 1 > ChunkSize THEN Flushed(c) ELSE c

\* Wrong variant: the chunk that is open stays so before a reply that is cut.
AddedOpen(c, line) ==
    IF Length(line) > ChunkSize
    THEN [c EXCEPT !.done = @ \o [i \in DOMAIN Pieces(line.words) |->
                                    <<Line(line.by, Pieces(line.words)[i])>>]]
    ELSE LET f == Fitted(c, line) IN [f EXCEPT !.open = Append(@, line)]

\* A reply longer than a chunk is cut, and each piece gets its speaker's mark.
Added(c, line) ==
    LET f == Fitted(c, line)
        cut == Pieces(line.words)
    IN  IF Length(line) > ChunkSize
        THEN [Flushed(f) EXCEPT !.done = @ \o [i \in DOMAIN cut |-> <<Line(line.by, cut[i])>>]]
        ELSE [f EXCEPT !.open = Append(@, line)]

\* _chunk_dialog.
Chunks(lines) ==
    LET Upto[n \in 0..Len(lines)] ==
            IF n = 0 THEN [done |-> <<>>, open |-> <<>>] ELSE Added(Upto[n - 1], lines[n])
    IN  Flushed(Upto[Len(lines)]).done

\* The items of a thread: the conversation, dated by its first reply, and each
\* document with the note that it was uploaded.
Items(p) ==
    LET said == Kept(p, FALSE)
        documents == Kept(p, TRUE)
        lines == [i \in DOMAIN said |-> Line(said[i][1], Words(said[i][1], said[i][2]))]
    IN  (IF said = <<>> THEN <<>>
         ELSE <<[kind |-> "conversation", date |-> said[1][1], chunks |-> Chunks(lines)]>>)
        \o FlattenSeq([i \in DOMAIN documents |->
             LET t == documents[i][1] IN
             <<[kind |-> "document", date |-> 0, chunks |-> <<<<Line(t, Words(t, documents[i][2]))>>>>],
               [kind |-> "upload", date |-> t, chunks |-> <<>>]>>])

-----------------------------------------------------------------------------

Said(item) == FlattenSeq([i \in DOMAIN item.chunks |-> TextOf(item.chunks[i])])

\* "Each chunk begins with the mark of its speaker": every word of a conversation
\* reaches the extractor once, in the order it was said, behind the mark of the one
\* who said it and not beside another thread's; a chunk of several replies is within
\* the size, and what is longer is a single line without room for its mark.
DialogKept == \A p \in People : \A i \in DOMAIN Items(p) :
    LET item == Items(p)[i] IN
    item.kind = "conversation" =>
        /\ i = 1
        /\ Said(item) = FlattenSeq([k \in DOMAIN Kept(p, FALSE) |->
                            Words(Kept(p, FALSE)[k][1], Kept(p, FALSE)[k][2])])
        /\ \A c \in ToSet(item.chunks) :
            /\ c # <<>>
            /\ \A k \in DOMAIN c : \A w \in ToSet(c[k].words) : w[1] = c[k].by
            /\ Len(c) > 1 => Size(c) <= ChunkSize
            /\ Len(c) = 1 => Len(c[1].words) <= ChunkSize
=============================================================================
