------------------------------- MODULE TicTacToe -------------------------------
(***************************************************************************)
(* The game of "ATMEGA 324 Ultimate Tic Tac Toe/main.c": nine boards of     *)
(* nine cells, and a macro board that says for each of them who has won it, *)
(* or whether the next move may be made there.  Two people press buttons;   *)
(* a press on a cell that is not free or not in an active board does        *)
(* nothing.  The search of the disabled computer player is not modelled.    *)
(***************************************************************************)
EXTENDS Integers, Sequences, FiniteSets

CONSTANTS
    Openings,   \* bound: how the games begin, sequences of cells
    MaxFree     \* bound: moves after the opening

O == 1          \* playerId
X == 2          \* enemyId
Active == -1    \* a move may be made in the board
Draw == -2      \* the board is full and nobody has won it

Rows == 0 .. 8
Squares == (0 .. 2) \X (0 .. 2)

VARIABLES
    mBoard,         \* the cells: 0, O or X
    mMacroboard,    \* the boards: 0 undecided, Active, O, X or Draw
    turn,           \* 1: X moves, 0: O moves
    opening,        \* the opening of this game
    moves           \* the cells played

gameVars == <<mBoard, mMacroboard, turn, opening, moves>>

GameInit ==
    /\ mBoard = [c \in Rows \X Rows |-> 0]
    /\ mMacroboard = [b \in Squares |-> Active]
    /\ turn = 1
    /\ opening \in Openings
    /\ moves = <<>>

SquareOf(cell) == <<cell[1] \div 3, cell[2] \div 3>>
Target(cell) == <<cell[1] % 3, cell[2] % 3>>

isInActiveMicroboard(cell) == mMacroboard[SquareOf(cell)] = Active

(* The three by three part of the board at a square. *)
matrix(board, b) == [s \in Squares |-> board[<<3 * b[1] + s[1], 3 * b[2] + s[2]>>]]

(* The rows and columns are tested before the diagonals. *)
Lines == {{<<i, j>> : j \in 0 .. 2} : i \in 0 .. 2}
            \cup {{<<i, j>> : i \in 0 .. 2} : j \in 0 .. 2}
Diagonals == {{<<i, i>> : i \in 0 .. 2}, {<<i, 2 - i>> : i \in 0 .. 2}}

Taken(aux, line, id) == \A s \in line : aux[s] = id

(* Mutated form: the second diagonal is forgotten. *)
checkForVictoryOneDiagonal(aux) ==
    IF \E id \in {O, X}, l \in Lines \cup {{<<i, i>> : i \in 0 .. 2}} : Taken(aux, l, id)
    THEN CHOOSE id \in {O, X} :
            \E l \in Lines \cup {{<<i, i>> : i \in 0 .. 2}} : Taken(aux, l, id)
    ELSE IF \E s \in Squares : aux[s] = 0 THEN 0 ELSE -1

(* checkForVictory on a small board, which holds at most one player's       *)
(* lines: 0 while it is undecided, -1 if it is full.                        *)
checkForVictory(aux) ==
    IF \E id \in {O, X}, l \in Lines \cup Diagonals : Taken(aux, l, id)
    THEN CHOOSE id \in {O, X} : \E l \in Lines \cup Diagonals : Taken(aux, l, id)
    ELSE IF \E s \in Squares : aux[s] = 0 THEN 0 ELSE -1

setWinnerMicroSquare(macro, b, winner) == [macro EXCEPT ![b] = winner]

clearMacroBoardWhenSentToAWonSquare(macro) ==
    [b \in Squares |-> IF macro[b] = 0 THEN Active ELSE macro[b]]

unClearMacroBoardWhenSentToAWonSquare(macro) ==
    [b \in Squares |-> IF macro[b] = Active THEN 0 ELSE macro[b]]

(* What setMove makes of the macro board. *)
setMove(macro, cell) ==
    LET left == [macro EXCEPT ![SquareOf(cell)] = 0]
        to == Target(cell)
    IN  IF left[to] = 0
        THEN [left EXCEPT ![to] = Active]
        ELSE IF left[to] \in {O, X, Draw}
             THEN clearMacroBoardWhenSentToAWonSquare(left)
             ELSE left

(* Mutated form: a move that ends the board it is sent to opens no other.   *)
setMicroWinsOnly(macro, board, b) ==
    LET score_id == checkForVictory(matrix(board, b)) IN
    IF score_id = 0 THEN macro
    ELSE setWinnerMicroSquare(macro, b, IF score_id = -1 THEN Draw ELSE score_id)

(* The board of the last move may be won or full now; if the move was sent  *)
(* to it as well, the opponent may move anywhere.                           *)
setMicroWins(macro, board, b) ==
    LET score_id == checkForVictory(matrix(board, b))
        opened == IF macro[b] = Active
                  THEN clearMacroBoardWhenSentToAWonSquare(macro)
                  ELSE macro
    IN  IF score_id = 0 THEN macro
        ELSE setWinnerMicroSquare(opened, b, IF score_id = -1 THEN Draw ELSE score_id)

(* What a player presses is free but for the opening. *)
Pressed(cell) ==
    /\ Len(moves) < Len(opening) + MaxFree
    /\ Len(moves) < Len(opening) => cell = opening[Len(moves) + 1]

(* make_move on the cell under the cursor. *)
make_move(player, macro, cell) ==
    /\ Pressed(cell)
    /\ mBoard[cell] = 0
    /\ isInActiveMicroboard(cell)
    /\ mBoard' = [mBoard EXCEPT ![cell] = player]
    /\ mMacroboard' = setMicroWins(setMove(macro, cell), mBoard', SquareOf(cell))
    /\ moves' = Append(moves, cell)
    /\ UNCHANGED opening

move_X(cell) ==
    /\ turn = 1
    /\ make_move(X, unClearMacroBoardWhenSentToAWonSquare(mMacroboard), cell)
    /\ turn' = 0

(* O's move leaves the boards active that X has left active. *)
move_O(cell) ==
    /\ turn = 0
    /\ make_move(O, mMacroboard, cell)
    /\ turn' = 1

GameNext == \E cell \in Rows \X Rows : move_X(cell) \/ move_O(cell)

-----------------------------------------------------------------------------
(* Properties. *)

LastMove == moves[Len(moves)]

(* Three squares in a row, said without the order of the code's tests.      *)
Threes ==
    {t \in SUBSET Squares :
        /\ Cardinality(t) = 3
        /\ \/ \A u, v \in t : u[1] = v[1]
           \/ \A u, v \in t : u[2] = v[2]
           \/ \A u \in t : u[1] = u[2]
           \/ \A u \in t : u[1] + u[2] = 2}

Has(player, b) == {s \in Squares : mBoard[<<3 * b[1] + s[1], 3 * b[2] + s[2]>>] = player}
Won(player, b) == \E t \in Threes : t \subseteq Has(player, b)
Undecided == {b \in Squares : ~Won(O, b) /\ ~Won(X, b) /\ Has(0, b) # {}}
ActiveBoards == {b \in Squares : mMacroboard[b] = Active}

(* Where the rules let the next player move. *)
Allowed == IF Target(LastMove) \in Undecided THEN {Target(LastMove)} ELSE Undecided

(* The macro board tells the truth about every small board through any      *)
(* sequence of moves: whether it is decided, by whom, or full.              *)
MacroIsTrue ==
    moves # <<>> => \A b \in Squares :
        /\ mMacroboard[b] \in {0, Active} <=> b \in Undecided
        /\ \A player \in {O, X} : mMacroboard[b] = player <=> Won(player, b)

(* A move sends the opponent to one board, or anywhere if that board is     *)
(* decided, also when it has just been decided by the move itself.  After   *)
(* X's move exactly these boards are active; after O's at least these, as   *)
(* a free move of O leaves its other boards active.                         *)
SentWhereTheRulesSay ==
    moves # <<>> =>
        /\ Allowed \subseteq ActiveBoards
        /\ turn = 0 => ActiveBoards = Allowed
=============================================================================
