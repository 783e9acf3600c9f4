------------------------------- MODULE ShellLog -------------------------------
(***************************************************************************)
(* A command in the background of the sandbox: exec(background=true)       *)
(* starts it with its output in a file, read_shell shows the file from a   *)
(* line on, with the number of its lines and whether the process lives,    *)
(* kill_shell ends it (skills/sandbox/__init__.py).  The three parts of a  *)
(* read are taken one after the other, while the process writes on.        *)
(*                                                                         *)
(* The reader is the model: it goes on behind the lines that were counted. *)
(***************************************************************************)
EXTENDS Integers, Sequences

CONSTANTS
    Limit,    \* lines of a read
    MaxLines, \* bound: lines the process writes
    MaxReads  \* bound: reads

VARIABLES
    process,  \* "starting", "running", "zombie", "gone"
    child,    \* a process it has left: "none", "writes", "gone"
    renamed,  \* the log has the name read_shell looks for
    lines,    \* whole lines in the log
    partial,  \* and the beginning of one more
    reading,  \* what a read in progress has: its stage, the count, the lines
    kept,     \* the lines the reader has, and whether each was whole
    over,     \* it was told that the process is gone and has read once more
    reads

vars == <<process, child, renamed, lines, partial, reading, kept, over, reads>>

NoRead == [at |-> "idle", total |-> 0, page |-> <<>>]

TypeOK ==
    /\ process \in {"starting", "running", "zombie", "gone"}
    /\ {renamed, partial} \subseteq BOOLEAN /\ child \in {"none", "writes", "gone"}
    /\ lines \in 0..MaxLines /\ reads \in 0..MaxReads
    /\ reading.at \in {"idle", "total", "page"}
    /\ over \in {"no", "told", "yes"}

Init ==
    /\ process = "starting" /\ child = "none" /\ renamed = FALSE
    /\ lines = 0 /\ partial = FALSE
    /\ reading = NoRead /\ kept = <<>> /\ over = "no" /\ reads = 0

-----------------------------------------------------------------------------

\* The shell forks the command, which opens its log, and renames the log; when it
\* is faster than the fork there is nothing to rename yet.
Start ==
    /\ process = "starting" /\ process' = "running"
    /\ renamed' \in BOOLEAN
    /\ UNCHANGED <<child, lines, partial, reading, kept, over, reads>>

Write ==
    /\ process = "running" \/ child = "writes"
    /\ \/ ~partial /\ partial' = TRUE /\ lines < MaxLines /\ lines' = lines
       \/ partial /\ partial' = FALSE /\ lines' = lines + 1
    /\ UNCHANGED <<process, child, renamed, reading, kept, over, reads>>

\* It ends, or kill_shell ends it, and may leave a child; a zombie until it is
\* waited for.
Exit ==
    /\ process = "running" /\ process' = "zombie"
    /\ child' \in {"none", "writes"}
    /\ UNCHANGED <<renamed, lines, partial, reading, kept, over, reads>>

Reap ==
    /\ process = "zombie" /\ process' = "gone"
    /\ UNCHANGED <<child, renamed, lines, partial, reading, kept, over, reads>>

ChildExit ==
    /\ child = "writes" /\ child' = "gone"
    /\ UNCHANGED <<process, renamed, lines, partial, reading, kept, over, reads>>

\* Wrong variant: a line that is not ended yet is counted.
TotalWithPartial == lines + (IF partial THEN 1 ELSE 0)

\* wc -l.
Total == lines

\* read_shell: without a log it says so; else it counts the lines, ...
ReadTotal ==
    /\ process # "starting" /\ renamed /\ over # "yes"
    /\ reading.at = "idle" /\ reads < MaxReads
    /\ reads' = reads + 1
    /\ reading' = [at |-> "total", total |-> Total, page |-> <<>>]
    /\ UNCHANGED <<process, child, renamed, lines, partial, kept, over>>

Fewer(m, n) == IF m < n THEN m ELSE n

\* ... prints some of them, the last perhaps not ended, ...
ReadPage ==
    /\ reading.at = "total"
    /\ LET from == Len(kept) + 1
           ends == lines + (IF partial THEN 1 ELSE 0)
           to == Fewer(from + Limit - 1, ends)
       IN  reading' = [reading EXCEPT !.at = "page",
                         !.page = [i \in 1..(to - from + 1) |->
                                      [n |-> from + i - 1, whole |-> from + i - 1 <= lines]]]
    /\ UNCHANGED <<process, child, renamed, lines, partial, kept, over, reads>>

\* ... and looks for the process, a zombie counting as gone.  The reader keeps the
\* lines that were counted.
ReadAlive ==
    /\ reading.at = "page"
    /\ LET counted == SubSeq(reading.page, 1, Fewer(Len(reading.page), reading.total - Len(kept))) IN
        /\ kept' = kept \o counted
        /\ over' = IF process = "running" THEN over
                   ELSE IF over = "told" /\ Len(kept') >= reading.total THEN "yes" ELSE "told"
    /\ reading' = NoRead
    /\ UNCHANGED <<process, child, renamed, lines, partial, reads>>

Next ==
    \/ Start \/ Write \/ Exit \/ Reap \/ ChildExit
    \/ ReadTotal \/ ReadPage \/ ReadAlive

Spec == Init /\ [][Next]_vars

-----------------------------------------------------------------------------

\* A reader that goes on behind the lines counted gets every line whole, once and
\* in order, however its reads fall between the writes; and when it reads once more
\* after it was told that the process is gone, and that has left no other, it has all.
ShellReadWhole ==
    /\ \A i \in DOMAIN kept : kept[i] = [n |-> i, whole |-> TRUE]
    /\ over = "yes" /\ child = "none" => Len(kept) = lines
=============================================================================
