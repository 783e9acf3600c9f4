------------------------------- MODULE Checkers -------------------------------
(***************************************************************************)
(* The game of modes/checkers: the board, the moves it offers and makes    *)
(* (game.py), and the loop of the `launch` tool that plays the user's      *)
(* moves, sent by pages over the socket, against the machine's.            *)
(***************************************************************************)
EXTENDS Integers, Sequences, FiniteSets

CONSTANTS
    Size,     \* 8 in the code: rows and columns
    Rows,     \* 3 in the code: rows of men at the start
    MaxPlies, \* bound: moves played
    MaxSent   \* bound: messages of the pages

VARIABLES
    cells,     \* board.cells: 0 empty, 1 and 2 men, 3 and 4 kings of white and black
    stage,     \* the await the tool is at, or "over"
    move,      \* last_user_move, or NoMove
    woken,     \* move_event
    offers,    \* what the page of the user shows as valid moves
    last,      \* the last move made
    plies, sent

vars == <<cells, stage, move, woken, offers, last, plies, sent>>

Side == 0..(Size - 1)
Squares == Side \X Side
NoMove == [from |-> <<0, 0>>, chain |-> <<>>]

Owner(piece) == CASE piece \in {1, 3} -> 1 [] piece \in {2, 4} -> 2 [] OTHER -> 0
King(piece) == piece \in {3, 4}
Count(board, player) == Cardinality({q \in Squares : Owner(board[q]) = player})

TypeOK ==
    /\ cells \in [Squares -> 0..4]
    /\ stage \in {"starting", "waiting", "commenting", "over"}
    /\ move.from \in Squares /\ woken \in BOOLEAN
    /\ plies \in 0..MaxPlies /\ sent \in 0..MaxSent

-----------------------------------------------------------------------------
(* The moves of a board *)

Step(q, d, n) == <<q[1] + n * d[1], q[2] + n * d[2]>>
Diagonals == {-1, 1} \X {-1, 1}
Sign(n) == IF n > 0 THEN 1 ELSE -1

\* The n first squares from q in the direction d are on the board and empty.
Free(board, q, d, n) ==
    \A i \in 1..n : Step(q, d, i) \in Squares /\ board[Step(q, d, i)] = 0

SimpleMoves(board, q) ==
    LET forward == IF board[q] = 1 THEN -1 ELSE 1
    IN  IF King(board[q])
        THEN {<<Step(q, x[1], x[2])>> : x \in
                {y \in Diagonals \X (1..Size) : Free(board, q, y[1], y[2])}}
        ELSE {<<Step(q, d, 1)>> : d \in
                {x \in Diagonals : x[1] = forward /\ Free(board, q, x, 1)}}

\* Wrong variant: a piece lands on what stands behind the captured one.
LandingTaken(board, piece, q, removed) ==
    {x \in Diagonals \X (1..Size) \X (2..Size) :
        LET d == x[1] k == x[2] n == x[3] IN
        /\ Free(board, q, d, k - 1)
        /\ Step(q, d, k) \in Squares \ removed
        /\ Owner(board[Step(q, d, k)]) = 3 - Owner(piece)
        /\ k < n /\ Step(q, d, n) \in Squares
        /\ ~King(piece) => k = 1 /\ n = 2}

\* The captures of a piece at q: a direction, the distance of the captured one and
\* that of the landing.  What the chain has removed stays on the board, where it
\* cannot be captured again; so does the piece itself, on its first square.
Hops(board, piece, q, removed) ==
    {x \in Diagonals \X (1..Size) \X (2..Size) :
        LET d == x[1] k == x[2] n == x[3] IN
        /\ Free(board, q, d, k - 1)
        /\ Step(q, d, k) \in Squares \ removed
        /\ Owner(board[Step(q, d, k)]) = 3 - Owner(piece)
        /\ k < n /\ Free(board, Step(q, d, k), d, n - k)
        /\ ~King(piece) => k = 1 /\ n = 2}

\* Every chain of captures, followed to its end.
Captures(board, piece, q, removed) ==
    LET Chains[p \in Squares, gone \in SUBSET Squares] ==
            UNION {LET to == Step(p, x[1], x[3])
                       further == Chains[to, gone \cup {Step(p, x[1], x[2])}]
                   IN  IF further = {} THEN {<<to>>} ELSE {<<to>> \o c : c \in further} :
                   x \in Hops(board, piece, p, gone)}
    IN  Chains[q, removed]

\* get_all_moves: captures only, when there is one.
Moves(board, player) ==
    LET own == {q \in Squares : Owner(board[q]) = player}
        All(Chains(_)) == UNION {{[from |-> q, chain |-> c] : c \in Chains(q)} : q \in own}
        captures == All(LAMBDA q : Captures(board, board[q], q, {}))
    IN  IF captures # {} THEN captures ELSE All(LAMBDA q : SimpleMoves(board, q))

\* The squares between the ends of a hop.
Between(p, q) ==
    LET d == <<Sign(q[1] - p[1]), Sign(q[2] - p[2])>>
    IN  {s \in Squares : \E n \in 1..Size :
            s = Step(p, d, n) /\ \A i \in 1..n : Step(p, d, i) # q}

\* What make_move finds on the way, hop by hop.
Passed(board, m) ==
    LET at == <<m.from>> \o m.chain
    IN  {s \in UNION {Between(at[i], at[i + 1]) : i \in 1..Len(m.chain)} : board[s] # 0}

Promoted(piece, q) ==
    CASE piece = 1 /\ q[1] = 0 -> 3 [] piece = 2 /\ q[1] = Size - 1 -> 4 [] OTHER -> piece

\* make_move: the way is cleared, the piece moved and perhaps promoted.
After(board, m) ==
    LET end == m.chain[Len(m.chain)]
    IN  [q \in Squares |-> CASE q = end -> Promoted(board[m.from], end)
                             [] q \in Passed(board, m) \cup {m.from} -> 0
                             [] OTHER -> board[q]]

\* ai_move: one of those that capture most.
BestMoves(board) ==
    LET all == Moves(board, 2)
    IN  {m \in all : \A o \in all : Cardinality(Passed(board, o)) <= Cardinality(Passed(board, m))}

-----------------------------------------------------------------------------

Init ==
    /\ cells = [q \in Squares |->
                  IF (q[1] + q[2]) % 2 = 0 THEN 0
                  ELSE IF q[1] < Rows THEN 2 ELSE IF q[1] >= Size - Rows THEN 1 ELSE 0]
    /\ stage = "starting" /\ move = NoMove /\ woken = FALSE
    /\ offers = Moves(cells, 1)
    /\ last = [by |-> 0, move |-> NoMove, took |-> 0, mine |-> 0, theirs |-> 0]
    /\ plies = 0 /\ sent = 0

\* A page sends one of the moves it shows, in any stage: a page that has just
\* connected shows those of the board as it is.
Send ==
    /\ stage # "over" /\ sent < MaxSent
    /\ sent' = sent + 1
    /\ \E m \in offers \cup Moves(cells, 1) : move' = m
    /\ woken' = TRUE
    /\ UNCHANGED <<cells, stage, offers, last, plies>>

Record(before, after, by, m) ==
    [by |-> by, move |-> m, took |-> Cardinality(Passed(before, m)),
     mine |-> Count(before, by) - Count(after, by),
     theirs |-> Count(before, 3 - by) - Count(after, 3 - by)]

\* The move no longer fits the board: the state is sent again.
Refuse ==
    /\ stage = "waiting" /\ woken /\ move \notin Moves(cells, 1)
    /\ offers' = Moves(cells, 1)
    /\ move' = NoMove /\ woken' = FALSE
    /\ UNCHANGED <<cells, stage, last, plies, sent>>

\* Wrong variant: a side that has pieces is taken to have a move.
LosesLast(board, player) == Count(board, player) = 0

Loses(board, player) == Count(board, player) = 0 \/ Moves(board, player) = {}

\* The user's move and, unless it wins, the machine's; then the comment is asked for.
Play ==
    /\ stage = "waiting" /\ woken /\ move \in Moves(cells, 1)
    /\ plies < MaxPlies /\ plies' = plies + 1
    /\ woken' = FALSE
    /\ LET mid == After(cells, move) IN
        IF Loses(mid, 2)
        THEN /\ cells' = mid /\ stage' = "over"
             /\ last' = Record(cells, mid, 1, move)
             /\ offers' = {}
        ELSE \E m \in BestMoves(mid) :
               /\ cells' = After(mid, m)
               /\ last' = Record(mid, cells', 2, m)
               /\ stage' = IF Loses(cells', 1) THEN "over" ELSE "commenting"
               /\ offers' = {}
    /\ UNCHANGED <<move, sent>>

\* wait_for_user_move: the commentator is there, its comment is or has failed.  What
\* was sent meanwhile is dropped.
Wait ==
    /\ stage \in {"starting", "commenting"} /\ stage' = "waiting"
    /\ offers' = Moves(cells, 1)
    /\ move' = NoMove /\ woken' = FALSE
    /\ UNCHANGED <<cells, last, plies, sent>>

Next == Send \/ Refuse \/ Play \/ Wait

Spec == Init /\ [][Next]_vars

-----------------------------------------------------------------------------

\* What make_move takes off the board is what the search of the chain promised:
\* one piece of the opponent for every hop of a capture, none of one's own, and
\* the piece that moves is still there.
CapturesAgree ==
    last.by # 0 =>
        /\ last.mine = 0
        /\ last.theirs = last.took
        /\ last.took \in {0, Len(last.move.chain)}

\* The tool never waits for a move of a player who has none.
CanMove == stage = "waiting" => Moves(cells, 1) # {}
=============================================================================
