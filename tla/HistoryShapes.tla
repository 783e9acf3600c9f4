---------------------------- MODULE HistoryShapes ----------------------------
(* What becomes of a history between the file and the model: turns of the old    *)
(* Gemini format are converted when the file is read (_migrate_gemini_turns),     *)
(* and the default compressor keeps a window of the newest turns                  *)
(* (WindowCompressor.compress).  Neither may leave a tool's reply without the     *)
(* call it answers: the model's endpoint refuses such a history.                  *)
EXTENDS SequencesExt, Integers

CONSTANTS
    HardLimit, SoftLimit,  \* in tokens
    MinUsers,              \* min_user_turns
    MaxOldTurns            \* bound: the turns of the old file

VARIABLE old    \* the turns of the file

\* A turn of the old format: its texts, its function calls and responses, by count.
OldTurn == [role : {"user", "model"}, texts : 0..1, calls : 0..2, replies : 0..2, size : 1..2]
Said(role) == {t \in OldTurn : t.role = role /\ t.texts = 1 /\ t.calls = 0 /\ t.replies = 0}
Calling == {t \in OldTurn : t.role = "model" /\ t.calls > 0 /\ t.replies = 0}
Replying(n) == {t \in OldTurn : t.role = "user" /\ t.calls = 0 /\ t.replies = n}

TypeOK == old \in Seq(OldTurn) /\ Len(old) <= MaxOldTurns

Init == old = <<>>

\* The file begins where a compressor cut it, with the replies to a lost call perhaps;
\* from there on a call is answered by the turn after it.
AddOld ==
    /\ Len(old) < MaxOldTurns
    /\ \E t \in OldTurn :
        /\ t \in IF old = <<>> THEN Said("user") \cup Replying(2)
                 ELSE IF Last(old).calls > 0 THEN Replying(Last(old).calls)
                 ELSE Said("user") \cup Said("model") \cup Calling
        /\ old' = Append(old, t)

Spec == Init /\ [][AddOld]_old

-----------------------------------------------------------------------------

\* A turn of the new format, with the place of its old turn and the calls it makes or
\* the call it answers; user turns carry their message's id.
New(role, at, ids) == <<[role |-> role, at |-> at, ids |-> ids, size |-> old[at].size]>>
Ids(n) == [i \in 1..n |-> i]

\* Wrong variant: replies whose call was cut away are kept.
ConvertedOrphans(m, at) ==
    LET t == old[at] IN
    IF t.role = "model"
    THEN [turns |-> m.turns \o New("assistant", at, Ids(t.calls)), calls |-> t.calls]
    ELSE [turns |-> m.turns \o FlattenSeq([i \in 1..t.replies |-> New("tool", at, <<i>>)])
                    \o (IF t.texts > 0 THEN New("user", at, <<>>) ELSE <<>>),
          calls |-> IF t.replies > 0 THEN 0 ELSE m.calls]

\* Replies take the ids of the last calls in order; without any they are dropped.
Converted(m, at) ==
    LET t == old[at]
        replies == IF m.calls = 0 THEN <<>>
                   ELSE FlattenSeq([i \in 1..t.replies |-> New("tool", at, <<i>>)])
    IN  IF t.role = "model"
        THEN [turns |-> m.turns \o New("assistant", at, Ids(t.calls)), calls |-> t.calls]
        ELSE [turns |-> m.turns \o replies
                        \o (IF t.texts > 0 THEN New("user", at, <<>>) ELSE <<>>),
              calls |-> IF t.replies > 0 THEN 0 ELSE m.calls]

Migrated ==
    FoldLeft(Converted, [turns |-> <<>>, calls |-> 0], [i \in DOMAIN old |-> i]).turns

\* The newest turns: up to the soft limit, beyond it until enough user turns are seen
\* (the turn that makes them enough is left out), never beyond the hard limit.
Seen(w, turn) ==
    LET tokens == w.tokens + turn.size
        users == w.users + (IF turn.role = "user" THEN 1 ELSE 0)
    IN  IF w.full \/ tokens > HardLimit \/ (tokens > SoftLimit /\ users >= MinUsers)
        THEN [w EXCEPT !.full = TRUE]
        ELSE [kept |-> <<turn>> \o w.kept, tokens |-> tokens, users |-> users, full |-> FALSE]

Window(turns) ==
    FoldLeft(Seen, [kept |-> <<>>, tokens |-> 0, users |-> 0, full |-> FALSE], Reverse(turns)).kept

\* Wrong variant: the window may begin with the replies of a call that is cut off.
CompressedAnywhere(turns) == Window(turns)

Compressed(turns) ==
    LET kept == Window(turns)
        first == SelectInSeq(kept, LAMBDA t : t.role # "tool")
    IN  IF first = 0 THEN <<>> ELSE SubSeq(kept, first, Len(kept))

-----------------------------------------------------------------------------

\* A reply stands behind its call, with nothing but replies to the same turn between.
Paired(turns) ==
    \A i \in DOMAIN turns : turns[i].role = "tool" =>
        \E c \in 1..(i - 1) :
            /\ turns[c].role = "assistant" /\ turns[i].ids[1] \in ToSet(turns[c].ids)
            /\ \A k \in (c + 1)..(i - 1) : turns[k].role = "tool" /\ turns[k].ids # turns[i].ids

\* What was said survives the conversion in its order.
TextsKept ==
    LET spoken == SelectSeq(Migrated, LAMBDA t : t.role # "tool")
    IN  [i \in DOMAIN spoken |-> spoken[i].at]
            = SelectSeq([i \in DOMAIN old |-> i], LAMBDA i : old[i].texts + old[i].calls > 0)

Total(turns) == FoldLeft(LAMBDA n, t : n + t.size, 0, turns)

\* No reply without its call, in the converted history and in the window of it; the
\* window is the newest part, within the hard limit, and all of a history that fits.
HistoryShaped ==
    LET window == Compressed(Migrated) IN
    /\ TextsKept /\ Paired(Migrated)
    /\ Paired(window) /\ IsSuffix(window, Migrated) /\ Total(window) <= HardLimit
    /\ Total(Migrated) <= SoftLimit => window = Migrated
=============================================================================
