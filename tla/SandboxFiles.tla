----------------------------- MODULE SandboxFiles -----------------------------
(***************************************************************************)
(* The file tools of the sandbox skill (skills/sandbox/__init__.py): edit, *)
(* multi_edit and write change a file of a mount, read, grep and glob show *)
(* them, in pages.  The model that calls them asks for the pages of one    *)
(* query until it is not told that there is more; a change of the files    *)
(* starts a new query.                                                     *)
(*                                                                         *)
(* A text is a sequence of lines and a line one token, so that an edit     *)
(* replaces whole lines; "" stands for the empty old_string.               *)
(***************************************************************************)
EXTENDS Integers, Sequences, FiniteSets, SequencesExt

CONSTANTS
    Walked,    \* the files a scan walks over, in the order of os.walk, as a sequence
    Hidden,    \* those under a directory scans leave out
    ReadOnly,  \* those of a read-only mount
    Tokens,    \* the lines that occur
    Texts,     \* the texts files have at first and calls put into them
    GlobLimit, \* 100 in the code
    MaxText,   \* bound: lines of a text
    MaxCalls   \* bound: changes of files

VARIABLES
    files,   \* the text of each file
    order,   \* the files from the oldest to the newest change
    edit,    \* the last call of multi_edit: its file's text before and after, its edits
    pager,   \* the query whose pages are read
    calls

vars == <<files, order, edit, pager, calls>>

Files == ToSet(Walked)
Modes == {"read", "files_with_matches", "count", "content"}
Edit == [old : Tokens \cup {""}, new : Texts, all : BOOLEAN]
NoEdit == [before |-> <<>>, edits |-> <<>>, after |-> <<>>]
NoQuery == [mode |-> "none", file |-> Walked[1], token |-> "", limit |-> 0, around |-> 0,
            got |-> <<>>, more |-> FALSE, pages |-> 0]

TypeOK ==
    /\ files \in [Files -> Seq(Tokens)]
    /\ ToSet(order) = Files /\ Len(order) = Len(Walked)
    /\ pager.mode \in Modes \cup {"none"} /\ pager.more \in BOOLEAN
    /\ calls \in 0..MaxCalls

Init ==
    /\ files \in [Files -> Texts]
    /\ order \in {Walked, Reverse(Walked)}
    /\ edit = NoEdit /\ pager = NoQuery /\ calls = 0

-----------------------------------------------------------------------------
(* Changes *)

Least(S) == CHOOSE n \in S : \A k \in S : n <= k
Places(text, old) == {i \in DOMAIN text : text[i] = old}

\* str.count: the empty string is found before every line and at the end.
Count(text, old) == IF old = "" THEN Len(text) + 1 ELSE Cardinality(Places(text, old))

\* str.replace.
Replaced(text, e) ==
    CASE e.old = "" ->
            IF e.all THEN e.new \o FlattenSeq([i \in DOMAIN text |-> <<text[i]>> \o e.new])
            ELSE e.new \o text
      [] e.all ->
            FlattenSeq([i \in DOMAIN text |-> IF text[i] = e.old THEN e.new ELSE <<text[i]>>])
      [] OTHER ->
            LET i == Least(Places(text, e.old))
            IN  SubSeq(text, 1, i - 1) \o e.new \o SubSeq(text, i + 1, Len(text))

Applies(text, e) == Count(text, e.old) = 1 \/ (Count(text, e.old) > 1 /\ e.all)

Touched(f) == Append(SelectSeq(order, LAMBDA g : g # f), f)

Change(f, text) ==
    /\ calls < MaxCalls /\ calls' = calls + 1
    /\ Len(text) <= MaxText
    /\ files' = [files EXCEPT ![f] = text]
    /\ order' = Touched(f)
    /\ pager' = NoQuery

Write ==
    \E f \in Files \ ReadOnly, t \in Texts :
        /\ Change(f, t)
        /\ edit' = NoEdit

EditFile ==
    \E f \in Files \ ReadOnly, e \in Edit :
        /\ Applies(files[f], e)
        /\ Change(f, Replaced(files[f], e))
        /\ edit' = NoEdit

\* Wrong variant: every edit is looked up in the text the file had.
EditedBlind(text, edits) ==
    IF \A i \in DOMAIN edits : Applies(text, edits[i])
    THEN FoldLeft(LAMBDA t, e : IF Applies(t, e) THEN Replaced(t, e) ELSE t, text, edits)
    ELSE text

\* multi_edit: each edit applies to what those before it left, or none is written.
Edited(text, edits) ==
    LET Then(t, e) == IF t.ok /\ Applies(t.text, e) THEN [t EXCEPT !.text = Replaced(@, e)]
                      ELSE [t EXCEPT !.ok = FALSE]
        end == FoldLeft(Then, [text |-> text, ok |-> TRUE], edits)
    IN  IF end.ok THEN end.text ELSE text

MultiEdit ==
    \E f \in Files \ ReadOnly, first \in Edit, second \in Edit :
        LET after == Edited(files[f], <<first, second>>) IN
        /\ Change(f, after)
        /\ edit' = [before |-> files[f], edits |-> <<first, second>>, after |-> after]

-----------------------------------------------------------------------------
(* Queries *)

Take(s, n) == SubSeq(s, 1, IF n < Len(s) THEN n ELSE Len(s))
Scanned == SelectSeq(Walked, LAMBDA f : f \notin Hidden)

\* The lines around each match, with those two matches share shown twice.
Shown(text, token, around) ==
    LET Near(i) == SelectSeq([j \in DOMAIN text |-> j], LAMBDA j : j >= i - around /\ j <= i + around)
    IN  FlattenSeq([i \in DOMAIN text |-> IF text[i] = token THEN Near(i) ELSE <<>>])

\* All results of a query, in the order they are paged.
Results(q) ==
    CASE q.mode = "read" -> files[q.file]
      [] q.mode = "files_with_matches" ->
            SelectSeq(order, LAMBDA f : f \notin Hidden /\ Count(files[f], q.token) > 0)
      [] q.mode = "count" ->
            LET hit == SelectSeq(Scanned, LAMBDA f : Count(files[f], q.token) > 0)
            IN  [i \in DOMAIN hit |-> <<hit[i], Count(files[hit[i]], q.token)>>]
      [] q.mode = "content" ->
            FlattenSeq([i \in DOMAIN Scanned |->
                LET n == Shown(files[Scanned[i]], q.token, q.around)
                IN  [k \in DOMAIN n |-> <<Scanned[i], n[k]>>]])

\* Wrong variant: a page that is just full is said to be cut.
CutWhenFull(rest, limit) == limit # 0 /\ Len(rest) >= limit

\* _apply_pagination: a page is said to be cut when results are left behind it.
Cut(rest, limit) == limit # 0 /\ Len(rest) > limit

\* A page and the query after it; a reader of a file sees total_lines instead.
Page(q) ==
    LET rest == SubSeq(Results(q), Len(q.got) + 1, Len(Results(q)))
        page == IF q.limit = 0 THEN rest ELSE Take(rest, q.limit)
    IN  [q EXCEPT !.got = @ \o page, !.more = Cut(rest, q.limit), !.pages = @ + 1]

Ask ==
    /\ pager = NoQuery
    /\ \E mode \in Modes, f \in Files, t \in Tokens, limit \in 0..2, around \in 0..1 :
        /\ mode # "read" => f = Walked[1]
        /\ mode = "read" => t = (CHOOSE x \in Tokens : TRUE) /\ limit # 0
        /\ mode # "content" => around = 0
        /\ pager' = Page([NoQuery EXCEPT !.mode = mode, !.file = f, !.token = t,
                                         !.limit = limit, !.around = around])
    /\ edit' = NoEdit
    /\ UNCHANGED <<files, order, calls>>

AskOn ==
    /\ pager.more /\ pager' = Page(pager)
    /\ UNCHANGED <<files, order, edit, calls>>

\* glob: the oldest files only, said to be truncated when there are more.
Glob ==
    LET found == SelectSeq(order, LAMBDA f : f \notin Hidden)
    IN  [names |-> Take(found, GlobLimit), truncated |-> Cut(found, GlobLimit)]

Next == Write \/ EditFile \/ MultiEdit \/ Ask \/ AskOn

Spec == Init /\ [][Next]_vars

-----------------------------------------------------------------------------

\* multi_edit means what its edits mean one after the other, or nothing at all
\* ("if one does not match, none is applied").
EditsCompose ==
    edit # NoEdit =>
        LET e == edit.edits
            one == Replaced(edit.before, e[1])
        IN  edit.after = IF Applies(edit.before, e[1]) /\ Applies(one, e[2])
                         THEN Replaced(one, e[2]) ELSE edit.before

\* The pages of a query, read until none is said to be cut, are its results: none
\* missing or shown twice, in order, and without an empty page at the end; and what
\* glob leaves out is said to be missing.
PagesComplete ==
    /\ pager # NoQuery =>
        /\ pager.got = SubSeq(Results(pager), 1, Len(pager.got))
        /\ ~pager.more <=> pager.got = Results(pager)
        /\ pager.pages > 1 => Len(pager.got) > (pager.pages - 1) * pager.limit
    /\ Glob.truncated <=> \E f \in Files \ Hidden : f \notin ToSet(Glob.names)

=============================================================================
