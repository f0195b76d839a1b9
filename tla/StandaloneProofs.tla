---------------------------- MODULE StandaloneProofs ---------------------------
(***************************************************************************)
(* Proofs about the programs that share nothing with each other: the game, *)
(* the task clusters and, after them, the kprobe tracer.                    *)
(***************************************************************************)
EXTENDS StandaloneInv, TracerInv, FiniteSetTheorems, SequenceTheorems, TLAPS

-----------------------------------------------------------------------------
(* The small boards. *)

(* Three different things make a set of three.                              *)
LEMMA Triple ==
    ASSUME NEW a, NEW b, NEW c, a # b, a # c, b # c
    PROVE  IsFiniteSet({a, b, c}) /\ Cardinality({a, b, c}) = 3
<1>1. IsFiniteSet({a}) /\ Cardinality({a}) = 1
    BY FS_Singleton
<1>2. IsFiniteSet({a} \cup {b}) /\ Cardinality({a} \cup {b}) = 2
    BY <1>1, FS_AddElement
<1>3. {a} \cup {b} = {a, b}
    OBVIOUS
<1>4. IsFiniteSet({a, b} \cup {c}) /\ Cardinality({a, b} \cup {c}) = 3
    BY <1>2, <1>3, FS_AddElement
<1>5. {a, b} \cup {c} = {a, b, c}
    OBVIOUS
<1> QED BY <1>4, <1>5

(* A set of three within a set of three is all of it.                       *)
LEMMA WithinTriple ==
    ASSUME NEW a, NEW b, NEW c, a # b, a # c, b # c,
           NEW t, t \subseteq {a, b, c}, Cardinality(t) = 3
    PROVE  t = {a, b, c}
<1>1. IsFiniteSet({a, b, c}) /\ Cardinality({a, b, c}) = 3
    BY Triple
<1> QED BY <1>1, FS_Subset

Row(i) == {<<i, 0>>, <<i, 1>>, <<i, 2>>}
Column(j) == {<<0, j>>, <<1, j>>, <<2, j>>}
Down == {<<0, 0>>, <<1, 1>>, <<2, 2>>}
Up == {<<0, 2>>, <<1, 1>>, <<2, 0>>}

(* The lines of the code, written out.                                      *)
LEMMA LinesAre ==
    /\ Lines = {Row(i) : i \in 0 .. 2} \cup {Column(j) : j \in 0 .. 2}
    /\ Diagonals = {Down, Up}
<1>0. 0 .. 2 = {0, 1, 2}
    OBVIOUS
<1>1. \A i : {<<i, j>> : j \in 0 .. 2} = Row(i)
    BY <1>0 DEF Row
<1>2. \A j : {<<i, j>> : i \in 0 .. 2} = Column(j)
    BY <1>0 DEF Column
<1>3. {<<i, i>> : i \in 0 .. 2} = Down
    BY <1>0 DEF Down
<1>4. {<<i, 2 - i>> : i \in 0 .. 2} = Up
    <2>1. 2 - 0 = 2 /\ 2 - 1 = 1 /\ 2 - 2 = 0
        OBVIOUS
    <2> QED BY <1>0, <2>1 DEF Up
<1> QED BY <1>1, <1>2, <1>3, <1>4 DEF Lines, Diagonals

(* Each of the lines has three squares, and no other three are within it.   *)
LEMMA LinesAreThrees ==
    \A l \in {Row(i) : i \in 0 .. 2} \cup {Column(j) : j \in 0 .. 2} \cup {Down, Up} :
        /\ Cardinality(l) = 3
        /\ \A t \in SUBSET l : Cardinality(t) = 3 => t = l
<1>1. ASSUME NEW a, NEW b, NEW c, a # b, a # c, b # c
      PROVE  /\ Cardinality({a, b, c}) = 3
             /\ \A t \in SUBSET {a, b, c} : Cardinality(t) = 3 => t = {a, b, c}
    BY <1>1, Triple, WithinTriple
<1>3. ASSUME NEW i \in 0 .. 2, NEW l, l = Row(i)
      PROVE  /\ Cardinality(l) = 3
             /\ \A t \in SUBSET l : Cardinality(t) = 3 => t = l
    <2>1. PICK p, q, r : p = <<i, 0>> /\ q = <<i, 1>> /\ r = <<i, 2>>
        OBVIOUS
    <2>2. p # q /\ p # r /\ q # r
        BY <2>1
    <2>3. l = {p, q, r}
        BY <1>3, <2>1 DEF Row
    <2>4. /\ Cardinality({p, q, r}) = 3
          /\ \A t \in SUBSET {p, q, r} : Cardinality(t) = 3 => t = {p, q, r}
        BY <2>2, <1>1
    <2> QED BY <2>3, <2>4
<1>4. ASSUME NEW j \in 0 .. 2, NEW l, l = Column(j)
      PROVE  /\ Cardinality(l) = 3
             /\ \A t \in SUBSET l : Cardinality(t) = 3 => t = l
    <2>1. PICK p, q, r : p = <<0, j>> /\ q = <<1, j>> /\ r = <<2, j>>
        OBVIOUS
    <2>2. p # q /\ p # r /\ q # r
        BY <2>1
    <2>3. l = {p, q, r}
        BY <1>4, <2>1 DEF Column
    <2>4. /\ Cardinality({p, q, r}) = 3
          /\ \A t \in SUBSET {p, q, r} : Cardinality(t) = 3 => t = {p, q, r}
        BY <2>2, <1>1
    <2> QED BY <2>3, <2>4
<1>5. ASSUME NEW l, l = Down
      PROVE  /\ Cardinality(l) = 3
             /\ \A t \in SUBSET l : Cardinality(t) = 3 => t = l
    <2>1. PICK p, q, r : p = <<0, 0>> /\ q = <<1, 1>> /\ r = <<2, 2>>
        OBVIOUS
    <2>2. p # q /\ p # r /\ q # r
        BY <2>1
    <2>3. l = {p, q, r}
        BY <1>5, <2>1 DEF Down
    <2>4. /\ Cardinality({p, q, r}) = 3
          /\ \A t \in SUBSET {p, q, r} : Cardinality(t) = 3 => t = {p, q, r}
        BY <2>2, <1>1
    <2> QED BY <2>3, <2>4
<1>6. ASSUME NEW l, l = Up
      PROVE  /\ Cardinality(l) = 3
             /\ \A t \in SUBSET l : Cardinality(t) = 3 => t = l
    <2>1. PICK p, q, r : p = <<0, 2>> /\ q = <<1, 1>> /\ r = <<2, 0>>
        OBVIOUS
    <2>2. p # q /\ p # r /\ q # r
        BY <2>1
    <2>3. l = {p, q, r}
        BY <1>6, <2>1 DEF Up
    <2>4. /\ Cardinality({p, q, r}) = 3
          /\ \A t \in SUBSET {p, q, r} : Cardinality(t) = 3 => t = {p, q, r}
        BY <2>2, <1>1
    <2> QED BY <2>3, <2>4
<1> QED BY <1>3, <1>4, <1>5, <1>6

(* What checkForVictory looks for is three in a row.                        *)
LEMMA ThreesAreLines == Threes = Lines \cup Diagonals
<1>1. ASSUME NEW t \in Threes PROVE t \in Lines \cup Diagonals
    <2>1. t \subseteq Squares /\ Cardinality(t) = 3
        BY <1>1 DEF Threes
    <2>2. \E u : u \in t
        <3>1. Cardinality({}) = 0
            BY FS_EmptySet
        <3> QED BY <2>1, <3>1
    <2>3. PICK v \in t : TRUE
        BY <2>2
    <2>4. v \in Squares
        BY <2>1, <2>3
    <2>5. CASE \A p, q \in t : p[1] = q[1]
        <3>1. t \subseteq Row(v[1])
            BY <2>1, <2>3, <2>4, <2>5 DEF Squares, Row
        <3>2. v[1] \in 0 .. 2 /\ v[2] \in 0 .. 2
            BY <2>4 DEF Squares
        <3>3. t = Row(v[1])
            BY <2>1, <3>1, <3>2, LinesAreThrees
        <3> QED BY <3>2, <3>3, LinesAre
    <2>6. CASE \A p, q \in t : p[2] = q[2]
        <3>1. t \subseteq Column(v[2])
            BY <2>1, <2>3, <2>4, <2>6 DEF Squares, Column
        <3>2. v[1] \in 0 .. 2 /\ v[2] \in 0 .. 2
            BY <2>4 DEF Squares
        <3>3. t = Column(v[2])
            BY <2>1, <3>1, <3>2, LinesAreThrees
        <3> QED BY <3>2, <3>3, LinesAre
    <2>7. CASE \A p \in t : p[1] = p[2]
        <3>1. t \subseteq Down
            BY <2>1, <2>7 DEF Squares, Down
        <3>2. t = Down
            BY <2>1, <3>1, LinesAreThrees
        <3> QED BY <3>2, LinesAre
    <2>8. CASE \A p \in t : p[1] + p[2] = 2
        <3>1. t \subseteq Up
            BY <2>1, <2>8 DEF Squares, Up
        <3>2. t = Up
            BY <2>1, <3>1, LinesAreThrees
        <3> QED BY <3>2, LinesAre
    <2> QED BY <1>1, <2>5, <2>6, <2>7, <2>8 DEF Threes
<1>2. ASSUME NEW i \in 0 .. 2 PROVE Row(i) \in Threes
    <2>1. Row(i) \subseteq Squares /\ \A p, q \in Row(i) : p[1] = q[1]
        BY <1>2 DEF Row, Squares
    <2>2. Cardinality(Row(i)) = 3
        BY LinesAreThrees
    <2> QED BY <2>1, <2>2 DEF Threes
<1>3. ASSUME NEW j \in 0 .. 2 PROVE Column(j) \in Threes
    <2>1. Column(j) \subseteq Squares /\ \A p, q \in Column(j) : p[2] = q[2]
        BY <1>3 DEF Column, Squares
    <2>2. Cardinality(Column(j)) = 3
        BY LinesAreThrees
    <2> QED BY <2>1, <2>2 DEF Threes
<1>4. Down \in Threes
    <2>1. Down \subseteq Squares /\ \A p \in Down : p[1] = p[2]
        BY DEF Down, Squares
    <2>2. Cardinality(Down) = 3
        BY LinesAreThrees
    <2> QED BY <2>1, <2>2 DEF Threes
<1>5. Up \in Threes
    <2>1. Up \subseteq Squares /\ \A p \in Up : p[1] + p[2] = 2
        BY DEF Up, Squares
    <2>2. Cardinality(Up) = 3
        BY LinesAreThrees
    <2> QED BY <2>1, <2>2 DEF Threes
<1> QED BY <1>1, <1>2, <1>3, <1>4, <1>5, LinesAre

(* Won and Has of any nine boards.                                          *)
HasOn(board, player, b) ==
    {s \in Squares : board[<<3 * b[1] + s[1], 3 * b[2] + s[2]>>] = player}
WonOn(board, player, b) == \E t \in Threes : t \subseteq HasOn(board, player, b)

(* A cell has one place in one board.                                       *)
LEMMA Place ==
    ASSUME NEW cell \in Rows \X Rows, NEW b \in Squares, NEW s \in Squares
    PROVE  /\ SquareOf(cell) \in Squares /\ Target(cell) \in Squares
           /\ <<3 * b[1] + s[1], 3 * b[2] + s[2]>> \in Rows \X Rows
           /\ <<3 * b[1] + s[1], 3 * b[2] + s[2]>> = cell
                <=> (b = SquareOf(cell) /\ s = Target(cell))
<1>1. PICK r \in 0 .. 8, c \in 0 .. 8 : cell = <<r, c>>
    BY DEF Rows
<1>2. PICK i \in 0 .. 2, j \in 0 .. 2 : b = <<i, j>>
    BY DEF Squares
<1>3. PICK m \in 0 .. 2, n \in 0 .. 2 : s = <<m, n>>
    BY DEF Squares
<1>4. \A x \in 0 .. 8 : x \div 3 \in 0 .. 2 /\ x % 3 \in 0 .. 2
    OBVIOUS
<1>5. \A x \in 0 .. 8, y \in 0 .. 2, z \in 0 .. 2 :
        /\ 3 * y + z \in 0 .. 8
        /\ 3 * y + z = x <=> (y = x \div 3 /\ z = x % 3)
    OBVIOUS
<1>6. SquareOf(cell) = <<r \div 3, c \div 3>> /\ Target(cell) = <<r % 3, c % 3>>
    BY <1>1 DEF SquareOf, Target
<1>7. SquareOf(cell) \in Squares /\ Target(cell) \in Squares
    BY <1>1, <1>4, <1>6 DEF Squares
<1>8. <<3 * b[1] + s[1], 3 * b[2] + s[2]>> = <<3 * i + m, 3 * j + n>>
    BY <1>2, <1>3
<1>9. <<3 * i + m, 3 * j + n>> \in Rows \X Rows
    BY <1>5, <1>2, <1>3 DEF Rows
<1>10. <<3 * i + m, 3 * j + n>> = cell <=> (3 * i + m = r /\ 3 * j + n = c)
    BY <1>1
<1>11. (b = SquareOf(cell) /\ s = Target(cell))
        <=> (i = r \div 3 /\ j = c \div 3 /\ m = r % 3 /\ n = c % 3)
    BY <1>2, <1>3, <1>6
<1> QED BY <1>1, <1>2, <1>3, <1>5, <1>7, <1>8, <1>9, <1>10, <1>11

(* A line of the code is taken exactly when its player has won.             *)
LEMMA TakenIsWon ==
    ASSUME NEW board, NEW b \in Squares, NEW player
    PROVE  WonOn(board, player, b)
             <=> \E l \in Lines \cup Diagonals : Taken(matrix(board, b), l, player)
<1>1. ASSUME NEW l \in Threes
      PROVE  l \subseteq HasOn(board, player, b) <=> Taken(matrix(board, b), l, player)
    <2>1. l \subseteq Squares
        BY <1>1 DEF Threes
    <2>2. \A s \in Squares :
            matrix(board, b)[s] = board[<<3 * b[1] + s[1], 3 * b[2] + s[2]>>]
        BY DEF matrix
    <2> QED BY <2>1, <2>2 DEF HasOn, Taken
<1> QED BY <1>1, ThreesAreLines DEF WonOn

(* checkForVictory of a board at most one player has won.                   *)
LEMMA Verdict ==
    ASSUME NEW board, NEW b \in Squares, NEW player \in {O, X},
           \A other \in {O, X} : other # player => ~WonOn(board, other, b)
    PROVE  /\ WonOn(board, player, b) => checkForVictory(matrix(board, b)) = player
           /\ (~WonOn(board, player, b) /\ HasOn(board, 0, b) # {})
                => checkForVictory(matrix(board, b)) = 0
           /\ (~WonOn(board, player, b) /\ HasOn(board, 0, b) = {})
                => checkForVictory(matrix(board, b)) = -1
<1> DEFINE aux == matrix(board, b)
           Wins(id) == \E l \in Lines \cup Diagonals : Taken(aux, l, id)
<1>1. \A id : WonOn(board, id, b) <=> Wins(id)
    BY TakenIsWon
<1>2. (\E s \in Squares : aux[s] = 0) <=> HasOn(board, 0, b) # {}
    BY DEF matrix, HasOn
<1>3. checkForVictory(aux) =
        IF \E id \in {O, X} : Wins(id) THEN CHOOSE id \in {O, X} : Wins(id)
        ELSE IF \E s \in Squares : aux[s] = 0 THEN 0 ELSE -1
    <2>1. (\E id \in {O, X}, l \in Lines \cup Diagonals : Taken(aux, l, id))
            <=> \E id \in {O, X} : Wins(id)
        OBVIOUS
    <2> QED BY <2>1 DEF checkForVictory
<1> HIDE DEF aux, Wins
<1>4. CASE WonOn(board, player, b)
    <2>1. Wins(player) /\ \A id \in {O, X} : Wins(id) => id = player
        BY <1>1, <1>4
    <2>2. (CHOOSE id \in {O, X} : Wins(id)) = player
        BY <2>1
    <2> QED BY <1>3, <1>4, <2>1, <2>2 DEF aux
<1>5. CASE ~WonOn(board, player, b)
    <2>1. ~\E id \in {O, X} : Wins(id)
        BY <1>1, <1>5
    <2> QED BY <1>2, <1>3, <1>5, <2>1 DEF aux
<1> QED BY <1>4, <1>5

-----------------------------------------------------------------------------
(* The macro board. *)

(* setMove leaves decided boards alone and opens the one the move is sent   *)
(* to, or all the undecided if that is decided.                             *)
LEMMA SetMoveOpens ==
    ASSUME NEW macro \in [Squares -> Statuses], NEW cell \in Rows \X Rows,
           Open(macro[SquareOf(cell)]), NEW m, m = setMove(macro, cell)
    PROVE  /\ m \in [Squares -> Statuses]
           /\ \A b \in Squares : Open(m[b]) <=> Open(macro[b])
           /\ \A b \in Squares : ~Open(macro[b]) => m[b] = macro[b]
           /\ Open(macro[Target(cell)]) => m[Target(cell)] = Active
           /\ ~Open(macro[Target(cell)]) =>
                \A b \in Squares : Open(macro[b]) => m[b] = Active
           /\ (Open(macro[Target(cell)]) /\ \A b \in Squares : macro[b] # Active) =>
                \A b \in Squares : m[b] = Active => b = Target(cell)
<1>1. PICK b0 \in Squares : b0 = SquareOf(cell)
    BY Place, <<0, 0>> \in Squares DEF Squares
<1>2. PICK to \in Squares : to = Target(cell)
    BY Place, <<0, 0>> \in Squares DEF Squares
<1>3. PICK left : left = [macro EXCEPT ![b0] = 0]
    OBVIOUS
<1>4. /\ left \in [Squares -> Statuses]
      /\ \A b \in Squares : Open(left[b]) <=> Open(macro[b])
      /\ \A b \in Squares : b # b0 => left[b] = macro[b]
      /\ left[b0] = 0
    BY <1>1, <1>3 DEF Open, Statuses
<1>5. m = IF left[to] = 0
          THEN [left EXCEPT ![to] = Active]
          ELSE IF left[to] \in {O, X, Draw}
               THEN clearMacroBoardWhenSentToAWonSquare(left)
               ELSE left
    BY <1>1, <1>2, <1>3 DEF setMove
<1>6. CASE left[to] = 0
    <2>1. m \in [Squares -> Statuses] /\ m[to] = Active
          /\ \A b \in Squares : b # to => m[b] = left[b]
        BY <1>4, <1>5, <1>6 DEF Statuses
    <2> QED BY <1>1, <1>2, <1>4, <1>6, <2>1 DEF Open, Active
<1>7. CASE left[to] \in {O, X, Draw}
    <2>1. m = [b \in Squares |-> IF left[b] = 0 THEN Active ELSE left[b]]
        BY <1>5, <1>7 DEF O, X, Draw, clearMacroBoardWhenSentToAWonSquare
    <2>2. m \in [Squares -> Statuses]
        BY <1>4, <2>1 DEF Statuses
    <2>3. ~Open(macro[to])
        BY <1>4, <1>7 DEF Open, O, X, Draw, Active
    <2> QED BY <1>1, <1>2, <1>4, <2>1, <2>2, <2>3 DEF Open, Active
<1>8. CASE left[to] = Active
    <2>1. m = left
        BY <1>5, <1>8 DEF O, X, Draw, Active
    <2> QED BY <1>1, <1>2, <1>4, <1>8, <2>1 DEF Open, Active
<1> QED BY <1>4, <1>6, <1>7, <1>8 DEF Statuses

(* setMicroWins marks the board of the move once it is decided, and then    *)
(* opens the others if the move was sent there.                             *)
LEMMA SetMicroWinsMarks ==
    ASSUME NEW macro \in [Squares -> Statuses], NEW board, NEW b0 \in Squares, NEW m,
           m = setMicroWins(macro, board, b0),
           NEW score \in {0, -1, O, X}, score = checkForVictory(matrix(board, b0))
    PROVE  /\ m \in [Squares -> Statuses]
           /\ score = 0 => m = macro
           /\ score = -1 => m[b0] = Draw
           /\ score \in {O, X} => m[b0] = score
           /\ \A b \in Squares : b # b0 =>
                /\ Open(m[b]) <=> Open(macro[b])
                /\ ~Open(macro[b]) => m[b] = macro[b]
                /\ macro[b] = Active => m[b] = Active
                /\ (score # 0 /\ macro[b0] = Active /\ Open(macro[b])) => m[b] = Active
                /\ macro[b0] # Active => m[b] = macro[b]
<1>1. PICK opened : opened = IF macro[b0] = Active
                             THEN clearMacroBoardWhenSentToAWonSquare(macro)
                             ELSE macro
    OBVIOUS
<1>2. m = IF score = 0 THEN macro
          ELSE setWinnerMicroSquare(opened, b0, IF score = -1 THEN Draw ELSE score)
    BY <1>1 DEF setMicroWins
<1>3. /\ opened \in [Squares -> Statuses]
      /\ macro[b0] # Active => opened = macro
      /\ macro[b0] = Active =>
            \A b \in Squares : opened[b] = IF macro[b] = 0 THEN Active ELSE macro[b]
    BY <1>1 DEF clearMacroBoardWhenSentToAWonSquare, Statuses
<1>4. CASE score = 0
    BY <1>2, <1>4 DEF O, X
<1>5. CASE score # 0
    <2>1. PICK winner \in {Draw, O, X} : winner = IF score = -1 THEN Draw ELSE score
        BY <1>5 DEF O, X
    <2>2. m = [opened EXCEPT ![b0] = winner]
        BY <1>2, <1>5, <2>1 DEF setWinnerMicroSquare
    <2>3. m \in [Squares -> Statuses] /\ m[b0] = winner
          /\ \A b \in Squares : b # b0 => m[b] = opened[b]
        BY <1>3, <2>1, <2>2 DEF Statuses
    <2>4. \A b \in Squares : b # b0 =>
                /\ Open(m[b]) <=> Open(macro[b])
                /\ ~Open(macro[b]) => m[b] = macro[b]
                /\ macro[b] = Active => m[b] = Active
                /\ (macro[b0] = Active /\ Open(macro[b])) => m[b] = Active
                /\ macro[b0] # Active => m[b] = macro[b]
        BY <1>3, <2>3 DEF Open, Active
    <2> QED BY <1>5, <2>1, <2>3, <2>4 DEF O, X
<1> QED BY <1>4, <1>5

-----------------------------------------------------------------------------
(* A move. *)

(* A move on a free cell changes one small board, where only the player of  *)
(* the move can have won by it.                                             *)
LEMMA MoveOnBoard ==
    ASSUME NEW board, NEW cell \in Rows \X Rows, NEW player \in {O, X}, board[cell] = 0,
           NEW after, after[cell] = player,
           \A c \in Rows \X Rows : c # cell => after[c] = board[c],
           NEW b \in Squares, NEW p \in Cells,
           b # SquareOf(cell) \/ p \notin {0, player}
    PROVE  HasOn(after, p, b) = HasOn(board, p, b)
<1>1. \A s \in Squares : after[<<3 * b[1] + s[1], 3 * b[2] + s[2]>>] = p
                            <=> board[<<3 * b[1] + s[1], 3 * b[2] + s[2]>>] = p
    BY Place
<1> QED BY <1>1 DEF HasOn

(* Won, Undecided and the rest of the present boards and of the next ones.  *)
LEMMA Unprimed ==
    /\ \A p, b : Has(p, b) = HasOn(mBoard, p, b)
    /\ \A p, b : Won(p, b) <=> WonOn(mBoard, p, b)
    /\ Undecided = {b \in Squares : /\ ~WonOn(mBoard, O, b) /\ ~WonOn(mBoard, X, b)
                                    /\ HasOn(mBoard, 0, b) # {}}
    BY DEF Has, Won, Undecided, HasOn, WonOn

LEMMA Primed ==
    /\ \A p, b : Has(p, b)' = HasOn(mBoard', p, b)
    /\ \A p, b : Won(p, b)' <=> WonOn(mBoard', p, b)
    /\ Undecided' = {b \in Squares : /\ ~WonOn(mBoard', O, b) /\ ~WonOn(mBoard', X, b)
                                     /\ HasOn(mBoard', 0, b) # {}}
    BY DEF Has, Won, Undecided, HasOn, WonOn

(* The step of either player, from a macro board where the same boards are  *)
(* decided as in the present one.                                           *)
LEMMA MoveKeeps ==
    ASSUME GameTypeOK, StatusesAreTrue,
           NEW player \in {O, X}, NEW cell \in Rows \X Rows,
           NEW macro \in [Squares -> Statuses],
           \A b \in Squares : /\ Open(macro[b]) <=> Open(mMacroboard[b])
                              /\ ~Open(macro[b]) => macro[b] = mMacroboard[b],
           make_move(player, macro, cell)
    PROVE  /\ mBoard' \in [Rows \X Rows -> Cells]
           /\ mMacroboard' \in [Squares -> Statuses]
           /\ moves' \in Seq(Rows \X Rows) /\ moves' # <<>> /\ LastMove' = cell
           /\ StatusesAreTrue'
           /\ Allowed' \subseteq ActiveBoards'
           /\ (\A b \in Squares : macro[b] # Active) => ActiveBoards' = Allowed'
<1>1. PICK b0 \in Squares : b0 = SquareOf(cell)
    BY Place, <<0, 0>> \in Squares DEF Squares
<1>2. PICK to \in Squares : to = Target(cell)
    BY Place, <<0, 0>> \in Squares DEF Squares
<1>3. /\ mBoard[cell] = 0 /\ mMacroboard[b0] = Active
      /\ mBoard' = [mBoard EXCEPT ![cell] = player]
      /\ mMacroboard' = setMicroWins(setMove(macro, cell), mBoard', b0)
      /\ moves' = Append(moves, cell)
    BY <1>1 DEF make_move, isInActiveMicroboard
<1>4. /\ mBoard' \in [Rows \X Rows -> Cells]
      /\ \A b \in Squares, p \in Cells : b # b0 => HasOn(mBoard', p, b) = HasOn(mBoard, p, b)
      /\ \A p \in {O, X} : p # player => HasOn(mBoard', p, b0) = HasOn(mBoard, p, b0)
    <2>1. mBoard \in [Rows \X Rows -> Cells]
        BY DEF GameTypeOK
    <2>2. PICK after : after = mBoard'
        OBVIOUS
    <2>3. /\ after \in [Rows \X Rows -> Cells]
          /\ after[cell] = player
          /\ \A c \in Rows \X Rows : c # cell => after[c] = mBoard[c]
        BY <1>3, <2>1, <2>2 DEF Cells
    <2>4. mBoard[cell] = 0
        BY <1>3
    <2>5. ASSUME NEW b \in Squares, NEW p \in Cells, b # b0 \/ p \notin {0, player}
          PROVE  HasOn(after, p, b) = HasOn(mBoard, p, b)
        BY <1>1, <2>3, <2>4, <2>5, MoveOnBoard
    <2>6. \A p \in {O, X} : p \in Cells /\ p # 0
        BY DEF O, X, Cells
    <2> QED BY <2>2, <2>3, <2>5, <2>6
<1>5. moves' \in Seq(Rows \X Rows) /\ moves' # <<>> /\ LastMove' = cell
    BY <1>3 DEF GameTypeOK, LastMove
<1>6. PICK m : m = setMove(macro, cell)
    OBVIOUS
<1>7. /\ m \in [Squares -> Statuses]
      /\ \A b \in Squares : Open(m[b]) <=> Open(mMacroboard[b])
      /\ \A b \in Squares : ~Open(mMacroboard[b]) => m[b] = mMacroboard[b]
      /\ Open(mMacroboard[to]) => m[to] = Active
      /\ ~Open(mMacroboard[to]) =>
            \A b \in Squares : Open(mMacroboard[b]) => m[b] = Active
      /\ (Open(mMacroboard[to]) /\ \A b \in Squares : macro[b] # Active) =>
            \A b \in Squares : m[b] = Active => b = to
    <2>1. Open(macro[SquareOf(cell)])
        BY <1>1, <1>3 DEF Open
    <2> QED BY <1>1, <1>2, <1>6, <2>1, SetMoveOpens
<1>8. /\ \A b \in Squares : Open(mMacroboard[b]) <=> b \in Undecided
      /\ \A b \in Squares, p \in {O, X} : mMacroboard[b] = p <=> WonOn(mBoard, p, b)
    BY Unprimed DEF StatusesAreTrue
<1>9. ~WonOn(mBoard, O, b0) /\ ~WonOn(mBoard, X, b0)
    BY <1>3, <1>8 DEF O, X, Active
<1>10. \A p \in {O, X} : p # player => ~WonOn(mBoard', p, b0)
    BY <1>4, <1>9 DEF WonOn
<1>11. PICK score : score = checkForVictory(matrix(mBoard', b0))
    OBVIOUS
<1>12. /\ WonOn(mBoard', player, b0) => score = player
       /\ (~WonOn(mBoard', player, b0) /\ HasOn(mBoard', 0, b0) # {}) => score = 0
       /\ (~WonOn(mBoard', player, b0) /\ HasOn(mBoard', 0, b0) = {}) => score = -1
    BY <1>10, <1>11, Verdict
<1>13. score \in {0, -1, O, X}
    BY <1>12
<1>14. /\ mMacroboard' \in [Squares -> Statuses]
       /\ score = 0 => mMacroboard' = m
       /\ score = -1 => mMacroboard'[b0] = Draw
       /\ score \in {O, X} => mMacroboard'[b0] = score
       /\ \A b \in Squares : b # b0 =>
            /\ Open(mMacroboard'[b]) <=> Open(m[b])
            /\ ~Open(m[b]) => mMacroboard'[b] = m[b]
            /\ m[b] = Active => mMacroboard'[b] = Active
            /\ (score # 0 /\ m[b0] = Active /\ Open(m[b])) => mMacroboard'[b] = Active
            /\ m[b0] # Active => mMacroboard'[b] = m[b]
    <2>1. PICK board : board = mBoard'
        OBVIOUS
    <2>2. PICK next : next = setMicroWins(m, board, b0)
        OBVIOUS
    <2>3. score = checkForVictory(matrix(board, b0))
        BY <1>11, <2>1
    <2>4. /\ next \in [Squares -> Statuses]
          /\ score = 0 => next = m
          /\ score = -1 => next[b0] = Draw
          /\ score \in {O, X} => next[b0] = score
          /\ \A b \in Squares : b # b0 =>
                /\ Open(next[b]) <=> Open(m[b])
                /\ ~Open(m[b]) => next[b] = m[b]
                /\ m[b] = Active => next[b] = Active
                /\ (score # 0 /\ m[b0] = Active /\ Open(m[b])) => next[b] = Active
                /\ m[b0] # Active => next[b] = m[b]
        BY <1>7, <1>13, <2>2, <2>3, SetMicroWinsMarks
    <2>5. next = mMacroboard'
        BY <1>3, <1>6, <2>1, <2>2
    <2> QED BY <2>4, <2>5
<1>15. \A b \in Squares : b # b0 =>
            /\ \A p \in {O, X} : WonOn(mBoard', p, b) <=> WonOn(mBoard, p, b)
            /\ b \in Undecided' <=> b \in Undecided
    BY <1>4, Primed, Unprimed DEF WonOn, Cells
<1>16. b0 \in Undecided' <=> score = 0
    BY <1>10, <1>12, Primed DEF O, X
<1>17. \A b \in Squares : Open(mMacroboard'[b]) <=> b \in Undecided'
    <2>1. Open(m[b0])
        BY <1>3, <1>7 DEF Open
    <2>2. Open(mMacroboard'[b0]) <=> score = 0
        BY <1>13, <1>14, <2>1 DEF Open, O, X, Draw, Active
    <2> QED BY <1>7, <1>8, <1>14, <1>15, <1>16, <2>2
<1>18. \A b \in Squares, p \in {O, X} : mMacroboard'[b] = p <=> WonOn(mBoard', p, b)
    <2>1. ASSUME NEW b \in Squares, NEW p \in {O, X}, b # b0
          PROVE  mMacroboard'[b] = p <=> WonOn(mBoard', p, b)
        <3>1. ~Open(p)
            BY DEF Open, O, X, Active
        <3> QED BY <1>7, <1>8, <1>14, <1>15, <2>1, <3>1
    <2>2. ASSUME NEW p \in {O, X}
          PROVE  mMacroboard'[b0] = p <=> WonOn(mBoard', p, b0)
        <3>1. CASE score = 0
            <4>1. Open(mMacroboard'[b0])
                BY <1>16, <1>17, <3>1
            <4>2. ~WonOn(mBoard', p, b0)
                BY <1>10, <1>12, <3>1 DEF O, X
            <4> QED BY <4>1, <4>2 DEF Open, O, X, Active
        <3>2. CASE score = -1
            <4>1. ~WonOn(mBoard', p, b0)
                BY <1>10, <1>12, <3>2 DEF O, X
            <4> QED BY <1>14, <3>2, <4>1 DEF O, X, Draw
        <3>3. CASE score \in {O, X}
            <4>1. score = player /\ WonOn(mBoard', player, b0)
                BY <1>12, <3>3 DEF O, X
            <4> QED BY <1>10, <1>14, <3>3, <4>1
        <3> QED BY <1>13, <3>1, <3>2, <3>3
    <2> QED BY <2>1, <2>2
<1>19. StatusesAreTrue'
    <2>1. \A b \in Squares :
            /\ Open(mMacroboard'[b]) <=> b \in Undecided'
            /\ \A p \in {O, X} : mMacroboard'[b] = p <=> Won(p, b)'
        BY <1>17, <1>18, Primed
    <2> QED BY <2>1 DEF StatusesAreTrue, Open
<1>20. /\ Allowed' = IF to \in Undecided' THEN {to} ELSE Undecided'
       /\ ActiveBoards' = {b \in Squares : mMacroboard'[b] = Active}
    BY <1>2, <1>5 DEF Allowed, ActiveBoards, Target
<1>21. Undecided' \subseteq Squares
    BY Primed
<1>22. CASE to \in Undecided'
    <2>1. Open(mMacroboard[to])
        BY <1>3, <1>8, <1>15, <1>22 DEF Open
    <2>2. m[to] = Active
        BY <1>7, <2>1
    <2>3. mMacroboard'[to] = Active
        BY <1>14, <1>16, <1>22, <2>2
    <2>4. ASSUME \A b \in Squares : macro[b] # Active, NEW b \in Squares,
                 mMacroboard'[b] = Active
          PROVE  b = to
        <3>1. \A c \in Squares : m[c] = Active => c = to
            BY <1>7, <2>1, <2>4
        <3>2. CASE score = 0
            BY <1>14, <2>4, <3>1, <3>2
        <3>3. CASE score # 0
            <4>1. to # b0
                BY <1>16, <1>22, <3>3
            <4>2. m[b0] # Active
                BY <3>1, <4>1
            <4>3. b # b0
                BY <1>13, <1>14, <2>4, <3>3 DEF O, X, Draw, Active
            <4> QED BY <1>14, <2>4, <3>1, <4>2, <4>3
        <3> QED BY <3>2, <3>3
    <2> QED BY <1>4, <1>5, <1>14, <1>19, <1>20, <1>22, <2>3, <2>4
<1>23. CASE to \notin Undecided'
    <2>1. ASSUME NEW b \in Undecided' PROVE mMacroboard'[b] = Active
        <3>1. b \in Squares /\ Open(mMacroboard[b])
            BY <1>3, <1>8, <1>15, <1>21, <2>1 DEF Open
        <3>2. CASE ~Open(mMacroboard[to])
            <4>1. m[b] = Active
                BY <1>7, <3>1, <3>2
            <4> QED BY <1>14, <1>16, <2>1, <3>1, <4>1
        <3>3. CASE Open(mMacroboard[to])
            <4>1. to = b0 /\ score # 0
                BY <1>8, <1>15, <1>16, <1>23, <3>3
            <4>2. m[b0] = Active /\ b # b0
                BY <1>7, <1>16, <2>1, <3>3, <4>1
            <4> QED BY <1>7, <1>14, <3>1, <4>1, <4>2
        <3> QED BY <3>2, <3>3
    <2>2. ASSUME NEW b \in Squares, mMacroboard'[b] = Active PROVE b \in Undecided'
        BY <1>17, <2>2 DEF Open
    <2> QED BY <1>4, <1>5, <1>14, <1>19, <1>20, <1>21, <1>23, <2>1, <2>2
<1> QED BY <1>22, <1>23

(* The empty boards.                                                        *)
LEMMA GameStarts == GameInit => GameInvariant
<1> SUFFICES ASSUME GameInit PROVE GameInvariant
    OBVIOUS
<1>1. GameTypeOK
    <2>1. <<>> \in Seq(Rows \X Rows)
        OBVIOUS
    <2> QED BY <2>1 DEF GameInit, GameTypeOK, Cells, Statuses
<1>2. ASSUME NEW b \in Squares, NEW s \in Squares
      PROVE  mBoard[<<3 * b[1] + s[1], 3 * b[2] + s[2]>>] = 0
    <2>1. <<0, 0>> \in Rows \X Rows
        BY DEF Rows
    <2> QED BY <2>1, Place DEF GameInit
<1>3. \A b \in Squares, p \in {O, X} : ~Won(p, b)
    <2>1. ASSUME NEW t \in Threes PROVE \E s \in t : s \in Squares
        <3>1. t # {}
            BY FS_EmptySet DEF Threes
        <3> QED BY <3>1 DEF Threes
    <2>2. ASSUME NEW b \in Squares, NEW p \in {O, X}, NEW t \in Threes,
                 t \subseteq Has(p, b)
          PROVE  FALSE
        <3>1. PICK s \in t : s \in Squares
            BY <2>1, <2>2
        <3>2. mBoard[<<3 * b[1] + s[1], 3 * b[2] + s[2]>>] = p
            BY <2>2, <3>1 DEF Has
        <3> QED BY <1>2, <3>1, <3>2 DEF O, X
    <2> QED BY <2>2 DEF Won
<1>4. \A b \in Squares : b \in Undecided
    <2>1. <<0, 0>> \in Squares
        BY DEF Squares
    <2> QED BY <1>2, <1>3, <2>1 DEF Undecided, Has
<1>5. StatusesAreTrue
    BY <1>3, <1>4 DEF GameInit, StatusesAreTrue, Open, O, X, Active
<1> QED BY <1>1, <1>5 DEF GameInvariant, GameInit, SentWhereTheRulesSay

(* X may move in the boards the last move leaves active, and closes the     *)
(* others first.                                                            *)
LEMMA GameMoves == GameInvariant /\ [GameNext]_gameVars => GameInvariant'
<1> SUFFICES ASSUME GameInvariant, [GameNext]_gameVars PROVE GameInvariant'
    OBVIOUS
<1>0. GameTypeOK /\ StatusesAreTrue
    BY DEF GameInvariant
<1>1. ASSUME NEW cell \in Rows \X Rows, move_X(cell) PROVE GameInvariant'
    <2>1. PICK macro : macro = unClearMacroBoardWhenSentToAWonSquare(mMacroboard)
        OBVIOUS
    <2>2. /\ macro \in [Squares -> Statuses]
          /\ \A b \in Squares : /\ Open(macro[b]) <=> Open(mMacroboard[b])
                                /\ ~Open(macro[b]) => macro[b] = mMacroboard[b]
          /\ \A b \in Squares : macro[b] # Active
        BY <1>0, <2>1 DEF unClearMacroBoardWhenSentToAWonSquare, GameTypeOK, Statuses, Open, Active
    <2>3. make_move(X, macro, cell) /\ turn' = 0
        BY <1>1, <2>1 DEF move_X
    <2> QED BY <1>0, <2>2, <2>3, MoveKeeps
            DEF GameInvariant, GameTypeOK, SentWhereTheRulesSay
<1>2. ASSUME NEW cell \in Rows \X Rows, move_O(cell) PROVE GameInvariant'
    <2>1. make_move(O, mMacroboard, cell) /\ turn' = 1
        BY <1>2 DEF move_O
    <2>2. mMacroboard \in [Squares -> Statuses]
        BY <1>0 DEF GameTypeOK
    <2>3. /\ GameTypeOK' /\ StatusesAreTrue'
          /\ Allowed' \subseteq ActiveBoards'
        BY <1>0, <2>1, <2>2, MoveKeeps DEF GameTypeOK
    <2> QED BY <2>1, <2>3 DEF GameInvariant, SentWhereTheRulesSay
<1>3. CASE UNCHANGED gameVars
    <2>1. /\ mBoard' = mBoard /\ mMacroboard' = mMacroboard
          /\ turn' = turn /\ moves' = moves
        BY <1>3 DEF gameVars
    <2>2. Undecided' = Undecided /\ \A p, b : Won(p, b)' <=> Won(p, b)
        BY <2>1, Primed, Unprimed
    <2>3. /\ LastMove' = LastMove
          /\ ActiveBoards' = ActiveBoards
          /\ Allowed' = Allowed
        BY <2>1, <2>2 DEF LastMove, ActiveBoards, Allowed
    <2>4. GameTypeOK'
        BY <1>0, <2>1 DEF GameTypeOK
    <2>5. StatusesAreTrue'
        BY <1>0, <2>1, <2>2 DEF StatusesAreTrue
    <2> QED BY <2>1, <2>3, <2>4, <2>5 DEF GameInvariant, SentWhereTheRulesSay
<1> QED BY <1>1, <1>2, <1>3 DEF GameNext

GameSpec == GameInit /\ [][GameNext]_gameVars

(* However long a game gets and however it opens, the macro board says of   *)
(* every small board whether it is decided and who has won it.              *)
THEOREM MacroIsTrueHolds == GameSpec => []MacroIsTrue
<1>1. GameInvariant => MacroIsTrue
    BY DEF GameInvariant, StatusesAreTrue, MacroIsTrue, Open
<1> QED BY <1>1, GameStarts, GameMoves, PTL DEF GameSpec

(* In every game the boards that are active are those the rules send the    *)
(* next player to, except for those a free move of O leaves.                *)
THEOREM SentWhereTheRulesSayHolds == GameSpec => []SentWhereTheRulesSay
<1>1. GameInvariant => SentWhereTheRulesSay
    BY DEF GameInvariant
<1> QED BY <1>1, GameStarts, GameMoves, PTL DEF GameSpec

-----------------------------------------------------------------------------
(* The task clusters. *)

LEMMA EmptyByLength == ASSUME NEW S, NEW s \in Seq(S), Len(s) = 0 PROVE s = <<>>
    OBVIOUS

(* What an event read at the end of the list changes of the list.           *)
LEMMA OneMore ==
    ASSUME NEW S, NEW events \in Seq(S), NEW x \in S,
           NEW after, after = Append(events, x)
    PROVE  /\ after \in Seq(S)
           /\ Len(events) \in Nat /\ Len(after) = Len(events) + 1
           /\ DOMAIN events = 1 .. Len(events) /\ DOMAIN after = 1 .. Len(events) + 1
           /\ \A e \in DOMAIN events : e \in DOMAIN after /\ after[e] = events[e]
           /\ after[Len(events) + 1] = x
    OBVIOUS

(* A cluster the new event does not belong to remains what it was.          *)
LEMMA NotJoined ==
    ASSUME NEW events \in Seq(Event), NEW x \in Event,
           NEW c, IsRun(events, c),
           x.type # TypeIn(events, c) \/ x.timestamp > c.startTimestamp + window
    PROVE  IsRun(Append(events, x), c) /\ TypeIn(Append(events, x), c) = TypeIn(events, c)
<1>0. PICK after : after = Append(events, x)
    OBVIOUS
<1>1. PICK n \in Nat : n = Len(events)
    OBVIOUS
<1>2. /\ Len(after) = n + 1 /\ DOMAIN events = 1 .. n /\ DOMAIN after = 1 .. n + 1
      /\ \A e \in 1 .. n : after[e] = events[e]
      /\ after[n + 1] = x
    BY <1>0, <1>1, OneMore
<1>3. PICK s : s = c.userEvents
    OBVIOUS
<1>4. /\ s \in Seq(Nat \ {0}) /\ s # <<>> /\ s[1] \in 1 .. n /\ Len(s) \in DOMAIN s
      /\ c.startTimestamp = events[s[1]].timestamp
      /\ {s[i] : i \in DOMAIN s} = RunIn(events, s[1])
    BY <1>2, <1>3 DEF IsRun, Clusters, Members
<1>5. \A i \in DOMAIN s : s[i] \in 1 .. n
    <2>1. RunIn(events, s[1]) \subseteq 1 .. n
        BY <1>1, <1>4 DEF RunIn
    <2> QED BY <1>4, <2>1
<1>6. \A i \in DOMAIN s : after[s[i]] = events[s[i]]
    BY <1>2, <1>5
<1>7. 1 \in DOMAIN s
    BY <1>4
<1>8. RunIn(after, s[1]) = RunIn(events, s[1])
    <2>1. ASSUME NEW d \in s[1] .. n
          PROVE  d \in RunIn(after, s[1]) <=> d \in RunIn(events, s[1])
        BY <1>1, <1>2, <1>4, <2>1 DEF RunIn
    <2>2. n + 1 \notin RunIn(after, s[1])
        <3>1. after[s[1]] = events[s[1]] /\ after[n + 1] = x
            BY <1>2, <1>4
        <3>2. \/ x.type # events[s[1]].type
              \/ x.timestamp > events[s[1]].timestamp + window
            BY <1>3, <1>4 DEF TypeIn
        <3>3. x.timestamp \in Nat /\ events[s[1]].timestamp \in Nat /\ window \in Nat
            <4>1. events[s[1]] \in Event /\ x \in Event
                BY <1>2, <1>4
            <4> QED BY <4>1 DEF Event, window
        <3>4. ~(x.timestamp > events[s[1]].timestamp + window
                    /\ x.timestamp <= events[s[1]].timestamp + window)
            BY <3>3
        <3> QED BY <3>1, <3>2, <3>4 DEF RunIn
    <2>3. \A d \in RunIn(after, s[1]) : d \in s[1] .. n \/ d = n + 1
        BY <1>2, <1>4 DEF RunIn
    <2>4. \A d \in RunIn(events, s[1]) : d \in s[1] .. n
        BY <1>1, <1>4 DEF RunIn
    <2> QED BY <2>1, <2>2, <2>3, <2>4
<1>9. IsRun(after, c)
    <2>1. /\ c \in Clusters /\ s # <<>> /\ s[1] \in 1 .. n + 1
          /\ Members(c) = RunIn(after, s[1])
          /\ \A i, j \in DOMAIN s : i < j => s[i] < s[j]
        BY <1>3, <1>4, <1>8 DEF IsRun
    <2>2. /\ c.startTimestamp = after[s[1]].timestamp
          /\ c.endTimestamp = after[s[Len(s)]].timestamp + 9
        BY <1>3, <1>4, <1>6, <1>7 DEF IsRun
    <2> QED BY <1>2, <1>3, <2>1, <2>2 DEF IsRun
<1> QED BY <1>0, <1>3, <1>6, <1>7, <1>9 DEF TypeIn

(* The event that joins the open cluster of its type.                       *)
LEMMA Joined ==
    ASSUME NEW events \in Seq(Event), NEW x \in Event,
           NEW c, IsRun(events, c), x.type = TypeIn(events, c),
           x.timestamp <= c.startTimestamp + window,
           NEW more \in Clusters, more.userEvents = Append(c.userEvents, Len(events) + 1),
           more.startTimestamp = c.startTimestamp, more.endTimestamp = x.timestamp + 9
    PROVE  /\ IsRun(Append(events, x), more) /\ TypeIn(Append(events, x), more) = x.type
           /\ more.startTimestamp = c.startTimestamp
           /\ more.userEvents[1] = c.userEvents[1]
           /\ Members(more) = Members(c) \cup {Len(events) + 1}
<1>0. PICK after : after = Append(events, x)
    OBVIOUS
<1>1. PICK n \in Nat : n = Len(events)
    OBVIOUS
<1>2. /\ Len(after) = n + 1 /\ DOMAIN events = 1 .. n /\ DOMAIN after = 1 .. n + 1
      /\ \A e \in 1 .. n : after[e] = events[e]
      /\ after[n + 1] = x
    BY <1>0, <1>1, OneMore
<1>3. PICK s, r : s = c.userEvents /\ r = Append(s, n + 1)
    OBVIOUS
<1>4. /\ s \in Seq(Nat \ {0}) /\ s # <<>> /\ s[1] \in 1 .. n
      /\ c.startTimestamp = events[s[1]].timestamp
      /\ {s[i] : i \in DOMAIN s} = RunIn(events, s[1])
      /\ \A i, j \in DOMAIN s : i < j => s[i] < s[j]
      /\ c \in Clusters
    BY <1>2, <1>3 DEF IsRun, Clusters, Members
<1>5. PICK l \in Nat \ {0} : l = Len(s)
    BY <1>4
<1>6. /\ DOMAIN s = 1 .. l /\ DOMAIN r = 1 .. l + 1 /\ Len(r) = l + 1
      /\ \A i \in 1 .. l : r[i] = s[i]
      /\ r[l + 1] = n + 1
      /\ r \in Seq(Nat \ {0})
    BY <1>3, <1>4, <1>5
<1>7. \A i \in 1 .. l : s[i] \in 1 .. n
    <2>1. RunIn(events, s[1]) \subseteq 1 .. n
        BY <1>1, <1>4 DEF RunIn
    <2> QED BY <1>4, <1>6, <2>1
<1>8. /\ more.userEvents = r /\ more.endTimestamp = x.timestamp + 9
      /\ more.startTimestamp = c.startTimestamp /\ more \in Clusters
    BY <1>1, <1>3
<1>9. {r[i] : i \in DOMAIN r} = {s[i] : i \in DOMAIN s} \cup {n + 1}
    <2>1. 1 .. l + 1 = (1 .. l) \cup {l + 1}
        BY <1>5
    <2>2. \A i \in DOMAIN r : r[i] \in {s[k] : k \in DOMAIN s} \cup {n + 1}
        BY <1>6, <2>1
    <2>3. \A k \in DOMAIN s : s[k] \in {r[i] : i \in DOMAIN r}
        BY <1>6, <2>1
    <2>4. n + 1 \in {r[i] : i \in DOMAIN r}
        BY <1>6, <2>1
    <2> QED BY <2>2, <2>3, <2>4
<1>10. r[1] = s[1] /\ r # <<>>
    BY <1>5, <1>6
<1>11. RunIn(after, s[1]) = RunIn(events, s[1]) \cup {n + 1}
    <2>1. ASSUME NEW d \in s[1] .. n
          PROVE  d \in RunIn(after, s[1]) <=> d \in RunIn(events, s[1])
        BY <1>1, <1>2, <1>4, <2>1 DEF RunIn
    <2>2. n + 1 \in RunIn(after, s[1])
        BY <1>2, <1>3, <1>4 DEF RunIn, TypeIn
    <2>3. \A d \in RunIn(after, s[1]) : d \in s[1] .. n \/ d = n + 1
        BY <1>2, <1>4 DEF RunIn
    <2>4. \A d \in RunIn(events, s[1]) : d \in s[1] .. n
        BY <1>1, <1>4 DEF RunIn
    <2> QED BY <2>1, <2>2, <2>3, <2>4
<1>12. Members(more) = RunIn(after, r[1])
    <2>1. Members(more) = {r[i] : i \in DOMAIN r}
        BY <1>8 DEF Members
    <2> QED BY <1>4, <1>9, <1>10, <1>11, <2>1
<1>13. \A i, j \in DOMAIN r : i < j => r[i] < r[j]
    <2>1. ASSUME NEW i \in 1 .. l + 1, NEW j \in 1 .. l + 1, i < j PROVE r[i] < r[j]
        <3>1. i \in 1 .. l /\ r[i] = s[i] /\ s[i] \in 1 .. n
            BY <1>6, <1>7, <2>1
        <3>2. CASE j = l + 1
            BY <1>6, <3>1, <3>2
        <3>3. CASE j # l + 1
            <4>1. j \in 1 .. l /\ r[j] = s[j]
                BY <1>6, <3>3
            <4> QED BY <1>4, <1>6, <2>1, <3>1, <4>1
        <3> QED BY <3>2, <3>3
    <2> QED BY <1>6, <2>1
<1>14. more.startTimestamp = after[r[1]].timestamp
    BY <1>2, <1>4, <1>8, <1>10
<1>15. more.endTimestamp = after[r[Len(r)]].timestamp + 9
    BY <1>2, <1>6, <1>8
<1>16. IsRun(after, more)
    <2>1. r[1] \in DOMAIN after
        BY <1>2, <1>4, <1>10
    <2> QED BY <1>8, <1>10, <1>12, <1>13, <1>14, <1>15, <2>1 DEF IsRun
<1>17. TypeIn(after, more) = x.type
    BY <1>2, <1>3, <1>4, <1>8, <1>10 DEF TypeIn
<1>18. Members(more) = Members(c) \cup {n + 1}
    <2>1. Members(more) = {r[i] : i \in DOMAIN r} /\ Members(c) = {s[i] : i \in DOMAIN s}
        BY <1>3, <1>8 DEF Members
    <2> QED BY <1>9, <2>1
<1> QED BY <1>0, <1>1, <1>3, <1>8, <1>10, <1>16, <1>17, <1>18

(* The event that opens a cluster.                                          *)
LEMMA Opened ==
    ASSUME NEW events \in Seq(Event), NEW x \in Event,
           NEW c, c = Cluster(Len(events) + 1, x.timestamp)
    PROVE  /\ IsRun(Append(events, x), c) /\ TypeIn(Append(events, x), c) = x.type
           /\ c.startTimestamp = x.timestamp
           /\ c.userEvents[1] = Len(events) + 1
           /\ Members(c) = {Len(events) + 1}
<1>0. PICK after : after = Append(events, x)
    OBVIOUS
<1>1. PICK n \in Nat : n = Len(events)
    OBVIOUS
<1>2. /\ Len(after) = n + 1 /\ DOMAIN after = 1 .. n + 1
      /\ after[n + 1] = x
    BY <1>0, <1>1, OneMore
<1>3. /\ c.userEvents = <<n + 1>> /\ c.startTimestamp = x.timestamp
      /\ c.endTimestamp = x.timestamp + 9 /\ c \in Clusters
    <2>1. <<n + 1>> \in Seq(Nat \ {0})
        OBVIOUS
    <2> QED BY <1>1, <2>1 DEF Cluster, Clusters, Event
<1>4. /\ DOMAIN <<n + 1>> = {1} /\ Len(<<n + 1>>) = 1 /\ <<n + 1>>[1] = n + 1
      /\ <<n + 1>> # <<>>
    OBVIOUS
<1>5. Members(c) = {n + 1}
    BY <1>3, <1>4 DEF Members
<1>6. RunIn(after, n + 1) = {n + 1}
    <2>1. (n + 1) .. (n + 1) = {n + 1}
        OBVIOUS
    <2>2. x.timestamp <= x.timestamp + window
        BY DEF Event, window
    <2> QED BY <1>2, <2>1, <2>2 DEF RunIn
<1>7. IsRun(after, c)
    <2>1. PICK s : s = <<n + 1>>
        OBVIOUS
    <2>2. /\ c \in Clusters /\ s # <<>> /\ s[1] \in DOMAIN after
          /\ Members(c) = RunIn(after, s[1])
          /\ \A i, j \in DOMAIN s : i < j => s[i] < s[j]
        <3>1. DOMAIN s = {1} /\ s # <<>> /\ s[1] = n + 1
            BY <1>4, <2>1
        <3>2. \A i, j \in DOMAIN s : ~(i < j)
            BY <3>1
        <3>3. Members(c) = RunIn(after, s[1])
            BY <1>5, <1>6, <3>1
        <3>4. s[1] \in DOMAIN after
            BY <1>2, <3>1
        <3> QED BY <1>3, <3>1, <3>2, <3>3, <3>4
    <2>3. /\ c.startTimestamp = after[s[1]].timestamp
          /\ c.endTimestamp = after[s[Len(s)]].timestamp + 9
        BY <1>2, <1>3, <1>4, <2>1
    <2>4. c.userEvents = s
        BY <1>3, <2>1
    <2> QED BY <2>2, <2>3, <2>4 DEF IsRun
<1> QED BY <1>0, <1>1, <1>2, <1>3, <1>4, <1>5, <1>7 DEF TypeIn

(* Nothing is read yet.                                                     *)
LEMMA ClustersStart == ClustersInit => ClustersInvariant
<1> SUFFICES ASSUME ClustersInit PROVE ClustersInvariant
    OBVIOUS
<1>1. /\ userEvents = <<>> /\ clustersList = <<>> /\ returned = {}
      /\ DOMAIN map = {} /\ DOMAIN <<>> = {}
    BY DEF ClustersInit
<1>2. /\ <<>> \in Seq(Event)
      /\ <<>> \in Seq(Clusters)
    OBVIOUS
<1>3. EventsTypeOK
    BY <1>1, <1>2 DEF EventsTypeOK
<1> QED BY <1>1, <1>3 DEF ClustersInvariant, OpenIsLast, ListedIsOlder, ListedApart, NoneIsLost

(* An event is read: every cluster stays what it was, but for the one the   *)
(* event joins or closes.                                                   *)
LEMMA ReadKeeps ==
    ASSUME ClustersInvariant, NEW type \in Types, NEW gap \in Gaps, cluster(type, Now + gap)
    PROVE  ClustersInvariant'
<1>0. EventsTypeOK /\ OpenIsLast /\ ListedIsOlder /\ ListedApart /\ NoneIsLost
    BY DEF ClustersInvariant
<1>1. PICK t : t = Now + gap
    OBVIOUS
<1>2. PICK events : events = userEvents
    OBVIOUS
<1>3. PICK x : x = [type |-> type, timestamp |-> t]
    OBVIOUS
<1>4. /\ returned = {} /\ returned' = {}
      /\ userEvents' = Append(events, x)
    BY <1>1, <1>2, <1>3 DEF cluster
<1>5. events \in Seq(Event) /\ events = userEvents
    BY <1>0, <1>2 DEF EventsTypeOK
<1>6. PICK n \in Nat : n = Len(events)
    BY <1>5
<1>7. t \in Nat /\ \A e \in 1 .. n : TimeOf(e) \in Nat /\ TimeOf(e) <= t
    <2>1. gap \in Nat
        BY GapsAssumption
    <2>2. \A e \in 1 .. n : TimeOf(e) \in Nat
        <3>1. \A e \in 1 .. n : events[e] \in Event
            BY <1>5, <1>6
        <3> QED BY <1>5, <3>1 DEF TimeOf, Event
    <2>3. CASE n = 0
        <3>1. Now = 0
            BY <1>5, <1>6, <2>3, EmptyByLength DEF Now
        <3> QED BY <1>1, <2>1, <2>3, <3>1
    <2>4. CASE n # 0
        <3>1. Now = TimeOf(n) /\ n \in 1 .. n
            BY <1>5, <1>6, <2>4 DEF Now, TimeOf
        <3>2. \A e \in 1 .. n : TimeOf(e) <= TimeOf(n)
            BY <1>0, <1>5, <1>6, <3>1 DEF EventsTypeOK
        <3>3. t = TimeOf(n) + gap
            BY <1>1, <3>1
        <3> QED BY <2>1, <2>2, <3>1, <3>2, <3>3
    <2> QED BY <2>3, <2>4
<1>8. x \in Event /\ x.type = type /\ x.timestamp = t
    BY <1>3, <1>7 DEF Event
<1>9. PICK after : after = userEvents'
    OBVIOUS
<1>10. /\ after \in Seq(Event) /\ after = Append(events, x)
       /\ DOMAIN events = 1 .. n /\ DOMAIN after = 1 .. n + 1
       /\ \A e \in 1 .. n : after[e] = events[e]
       /\ after[n + 1] = x
    BY <1>4, <1>5, <1>6, <1>8, <1>9, OneMore
<1>11. /\ \A e \in 1 .. n : TimeOf(e)' = TimeOf(e) /\ TypeOf(e)' = TypeOf(e)
       /\ TimeOf(n + 1)' = t /\ TypeOf(n + 1)' = type
    BY <1>5, <1>8, <1>9, <1>10 DEF TimeOf, TypeOf
<1>12. \A d, e \in DOMAIN userEvents' : d <= e => TimeOf(d)' <= TimeOf(e)'
    <2>1. ASSUME NEW d \in 1 .. n + 1, NEW e \in 1 .. n + 1, d <= e
          PROVE  TimeOf(d)' <= TimeOf(e)'
        <3>1. CASE e \in 1 .. n
            <4>1. d \in 1 .. n
                BY <2>1, <3>1
            <4> QED BY <1>0, <1>2, <1>10, <1>11, <2>1, <3>1, <4>1 DEF EventsTypeOK
        <3>2. CASE e = n + 1
            <4>1. d \in 1 .. n \/ d = n + 1
                BY <2>1
            <4> QED BY <1>7, <1>11, <3>2, <4>1
        <3> QED BY <2>1, <3>1, <3>2
    <2> QED BY <1>9, <1>10, <2>1
<1>13. ASSUME NEW k \in DOMAIN map
       PROVE  /\ IsRun(events, map[k]) /\ TypeIn(events, map[k]) = k
              /\ map[k] \in Clusters
              /\ map[k].startTimestamp \in Nat /\ map[k].startTimestamp <= t
              /\ map[k].userEvents[1] \in 1 .. n
              /\ \A d \in 1 .. n : (TypeOf(d) = k /\ d >= map[k].userEvents[1])
                                        => d \in Members(map[k])
    <2>1. /\ IsRun(events, map[k]) /\ TypeIn(events, map[k]) = k
          /\ \A d \in 1 .. n : (TypeOf(d) = k /\ d >= map[k].userEvents[1])
                                        => d \in Members(map[k])
        BY <1>0, <1>5, <1>10 DEF OpenIsLast
    <2>2. /\ map[k] \in Clusters /\ map[k].userEvents[1] \in 1 .. n
          /\ map[k].startTimestamp = TimeOf(map[k].userEvents[1])
        BY <1>5, <1>10, <2>1 DEF IsRun, TimeOf
    <2> QED BY <1>7, <2>1, <2>2
<1>14. ASSUME NEW i \in DOMAIN clustersList
       PROVE  LET c == clustersList[i]
              IN  /\ IsRun(events, c) /\ IsRun(after, c) /\ c \in Clusters
                  /\ TypeIn(after, c) = TypeIn(events, c)
                  /\ TypeIn(events, c) \in DOMAIN map
                  /\ map[TypeIn(events, c)].startTimestamp > c.startTimestamp + window
    <2>1. PICK c : c = clustersList[i]
        OBVIOUS
    <2>2. /\ IsRun(events, c) /\ TypeIn(events, c) \in DOMAIN map
          /\ map[TypeIn(events, c)].startTimestamp > c.startTimestamp + window
        BY <1>0, <1>4, <1>5, <2>1 DEF ListedIsOlder
    <2>3. c \in Clusters /\ c.startTimestamp \in Nat /\ window \in Nat
        BY <2>2 DEF IsRun, Clusters, window
    <2>4. x.timestamp > c.startTimestamp + window
        BY <1>7, <1>8, <1>13, <2>2, <2>3
    <2>5. IsRun(after, c) /\ TypeIn(after, c) = TypeIn(events, c)
        <3>1. IsRun(Append(events, x), c) /\ TypeIn(Append(events, x), c) = TypeIn(events, c)
            BY <1>5, <1>8, <2>2, <2>4, NotJoined
        <3> QED BY <1>10, <3>1
    <2> QED BY <2>1, <2>2, <2>3, <2>5
<1>15. ASSUME NEW k \in DOMAIN map,
              k # type \/ t > map[k].startTimestamp + window
       PROVE  IsRun(after, map[k]) /\ TypeIn(after, map[k]) = k
    <2>1. PICK c : c = map[k]
        OBVIOUS
    <2>2. IsRun(events, c) /\ TypeIn(events, c) = k
        BY <1>13, <2>1
    <2>3. x.type # TypeIn(events, c) \/ x.timestamp > c.startTimestamp + window
        BY <1>8, <1>15, <2>1, <2>2
    <2>4. IsRun(after, c) /\ TypeIn(after, c) = TypeIn(events, c)
        <3>1. IsRun(Append(events, x), c) /\ TypeIn(Append(events, x), c) = TypeIn(events, c)
            BY <1>5, <1>8, <2>2, <2>3, NotJoined
        <3> QED BY <1>10, <3>1
    <2> QED BY <2>1, <2>2, <2>4
<1>16. DOMAIN map \subseteq Types /\ clustersList \in Seq(Clusters)
    BY <1>0 DEF EventsTypeOK
<1>17. CASE type \in DOMAIN map /\ t <= map[type].startTimestamp + window
    <2>1. PICK open : open = map[type]
        OBVIOUS
    <2>2. /\ IsRun(events, open) /\ TypeIn(events, open) = type /\ open \in Clusters
        BY <1>13, <1>17, <2>1
    <2>3. PICK more : more = [open EXCEPT !.endTimestamp = t + 9, !.userEvents = Append(@, n + 1)]
        OBVIOUS
    <2>4. /\ more.userEvents = Append(open.userEvents, n + 1)
          /\ more.startTimestamp = open.startTimestamp
          /\ more.endTimestamp = t + 9
          /\ more \in Clusters
        <3>1. /\ open.userEvents \in Seq(Nat \ {0}) /\ open.startTimestamp \in Nat
              /\ DOMAIN open = {"userEvents", "startTimestamp", "endTimestamp"}
            BY <2>2 DEF Clusters
        <3>2. PICK s \in Seq(Nat \ {0}) : s = Append(open.userEvents, n + 1)
            <4>1. PICK q : q = open.userEvents
                OBVIOUS
            <4>2. q \in Seq(Nat \ {0}) /\ n + 1 \in Nat \ {0}
                BY <3>1, <4>1
            <4>3. Append(q, n + 1) \in Seq(Nat \ {0})
                BY <4>2
            <4> QED BY <4>1, <4>3
        <3>3. more.userEvents = s
            BY <2>3, <3>1, <3>2
        <3>4. more.endTimestamp = t + 9
            BY <2>3, <3>1
        <3>5. more.startTimestamp = open.startTimestamp
            BY <2>3, <3>1
        <3>6. DOMAIN more = DOMAIN open /\ more = [k \in DOMAIN more |-> more[k]]
            BY <2>3
        <3>7. t + 9 \in Nat
            BY <1>7
        <3>8. more \in Clusters
            BY <3>1, <3>2, <3>3, <3>4, <3>5, <3>6, <3>7 DEF Clusters
        <3> QED BY <3>2, <3>3, <3>4, <3>5, <3>8
    <2>5. map' = Put(type, more) /\ clustersList' = clustersList
        <3>1. IF type \in DOMAIN map /\ t <= map[type].startTimestamp + window
              THEN /\ map' = Put(type, [map[type] EXCEPT !.endTimestamp = t + 9,
                                            !.userEvents = Append(@, Len(userEvents) + 1)])
                   /\ UNCHANGED clustersList
              ELSE TRUE
            BY <1>1 DEF cluster
        <3> QED BY <1>2, <1>6, <1>17, <2>1, <2>3, <3>1
    <2>6. /\ DOMAIN map' = DOMAIN map
          /\ map'[type] = more
          /\ \A k \in DOMAIN map : k # type => map'[k] = map[k]
        BY <1>17, <2>5 DEF Put
    <2>7. /\ IsRun(after, more) /\ TypeIn(after, more) = type
          /\ more.startTimestamp = open.startTimestamp
          /\ more.userEvents[1] = open.userEvents[1]
          /\ Members(more) = Members(open) \cup {n + 1}
        <3>1. /\ x.type = TypeIn(events, open)
              /\ x.timestamp <= open.startTimestamp + window
            BY <1>8, <1>17, <2>1, <2>2
        <3>2. /\ more.userEvents = Append(open.userEvents, Len(events) + 1)
              /\ more.endTimestamp = x.timestamp + 9
            BY <1>6, <1>8, <2>4
        <3>3. /\ IsRun(Append(events, x), more) /\ TypeIn(Append(events, x), more) = x.type
              /\ more.startTimestamp = open.startTimestamp
              /\ more.userEvents[1] = open.userEvents[1]
              /\ Members(more) = Members(open) \cup {Len(events) + 1}
            BY <1>5, <1>8, <2>2, <2>4, <3>1, <3>2, Joined
        <3> QED BY <1>6, <1>8, <1>10, <3>3
    <2>8. EventsTypeOK'
        BY <1>4, <1>9, <1>10, <1>12, <1>16, <2>5, <2>6 DEF EventsTypeOK
    <2>9. OpenIsLast'
        <3>1. ASSUME NEW k \in DOMAIN map'
              PROVE  /\ IsRun(after, map'[k]) /\ TypeIn(after, map'[k]) = k
                     /\ \A d \in 1 .. n + 1 :
                            (TypeOf(d)' = k /\ d >= map'[k].userEvents[1])
                                => d \in Members(map'[k])
            <4>1. CASE k = type
                <5>1. /\ IsRun(after, map'[k]) /\ TypeIn(after, map'[k]) = k
                    BY <2>6, <2>7, <4>1
                <5>2. ASSUME NEW d \in 1 .. n + 1, TypeOf(d)' = k,
                             d >= map'[k].userEvents[1]
                      PROVE  d \in Members(map'[k])
                    <6>1. CASE d = n + 1
                        BY <2>6, <2>7, <4>1, <6>1
                    <6>2. CASE d \in 1 .. n
                        <7>1. TypeOf(d) = type /\ d >= map[type].userEvents[1]
                            BY <1>11, <2>1, <2>6, <2>7, <4>1, <5>2, <6>2
                        <7> QED BY <1>13, <1>17, <2>1, <2>6, <2>7, <4>1, <6>2, <7>1
                    <6> QED BY <5>2, <6>1, <6>2
                <5> QED BY <5>1, <5>2
            <4>2. CASE k # type
                <5>1. k \in DOMAIN map /\ map'[k] = map[k]
                    BY <2>6, <3>1, <4>2
                <5>2. \A d \in 1 .. n + 1 : TypeOf(d)' = k => (d \in 1 .. n /\ TypeOf(d) = k)
                    <6>1. \A d \in 1 .. n + 1 : d \in 1 .. n \/ d = n + 1
                        OBVIOUS
                    <6> QED BY <1>11, <4>2, <6>1
                <5> QED BY <1>13, <1>15, <4>2, <5>1, <5>2
            <4> QED BY <4>1, <4>2
        <3> QED BY <1>9, <1>10, <3>1 DEF OpenIsLast
    <2>10. \A k \in DOMAIN map : map'[k].startTimestamp = map[k].startTimestamp
        BY <2>1, <2>6, <2>7
    <2>11. ListedIsOlder'
        BY <1>9, <1>14, <2>5, <2>6, <2>10 DEF ListedIsOlder
    <2>12. ListedApart'
        BY <1>0, <1>5, <1>9, <1>14, <2>5 DEF ListedApart
    <2>13. NoneIsLost'
        <3>1. Listed' = Listed
            BY <2>5 DEF Listed
        <3>2. \A k \in DOMAIN map : Members(map[k]) \subseteq Members(map'[k])
            BY <2>1, <2>6, <2>7
        <3>3. ASSUME NEW e \in 1 .. n
              PROVE  /\ TypeOf(e)' \in DOMAIN map'
                     /\ \/ e \in Members(map'[TypeOf(e)'])
                        \/ \E c \in Listed' : e \in Members(c)
            BY <1>0, <1>5, <1>10, <1>11, <2>6, <3>1, <3>2 DEF NoneIsLost
        <3>4. TypeOf(n + 1)' \in DOMAIN map' /\ n + 1 \in Members(map'[TypeOf(n + 1)'])
            BY <1>11, <1>17, <2>6, <2>7
        <3>5. \A e \in 1 .. n + 1 : e \in 1 .. n \/ e = n + 1
            OBVIOUS
        <3> QED BY <1>4, <1>9, <1>10, <3>3, <3>4, <3>5 DEF NoneIsLost
    <2> QED BY <2>8, <2>9, <2>11, <2>12, <2>13 DEF ClustersInvariant
<1>18. CASE ~(type \in DOMAIN map /\ t <= map[type].startTimestamp + window)
    <2>1. PICK new : new = Cluster(n + 1, t)
        OBVIOUS
    <2>2. /\ map' = Put(type, new)
          /\ clustersList' = IF type \in DOMAIN map
                             THEN Append(clustersList, map[type])
                             ELSE clustersList
        BY <1>1, <1>2, <1>6, <1>18, <2>1 DEF cluster
    <2>3. /\ DOMAIN map' = DOMAIN map \cup {type}
          /\ map'[type] = new
          /\ \A k \in DOMAIN map : k # type => map'[k] = map[k]
        BY <2>2 DEF Put
    <2>4. /\ IsRun(after, new) /\ TypeIn(after, new) = type
          /\ new.startTimestamp = t
          /\ new.userEvents[1] = n + 1
          /\ Members(new) = {n + 1}
        <3>1. new = Cluster(Len(events) + 1, x.timestamp)
            BY <1>6, <1>8, <2>1
        <3>2. /\ IsRun(Append(events, x), new) /\ TypeIn(Append(events, x), new) = x.type
              /\ new.startTimestamp = x.timestamp
              /\ new.userEvents[1] = Len(events) + 1
              /\ Members(new) = {Len(events) + 1}
            BY <1>5, <1>8, <3>1, Opened
        <3> QED BY <1>6, <1>8, <1>10, <3>2
    <2>5. type \in DOMAIN map => t > map[type].startTimestamp + window
        BY <1>7, <1>13, <1>18 DEF window
    <2>6. \A k \in DOMAIN map : /\ IsRun(after, map[k]) /\ TypeIn(after, map[k]) = k
        BY <1>15, <2>5
    <2>7. OpenIsLast'
        <3>1. ASSUME NEW k \in DOMAIN map'
              PROVE  /\ IsRun(after, map'[k]) /\ TypeIn(after, map'[k]) = k
                     /\ \A d \in 1 .. n + 1 :
                            (TypeOf(d)' = k /\ d >= map'[k].userEvents[1])
                                => d \in Members(map'[k])
            <4>1. CASE k = type
                <5>1. \A d \in 1 .. n + 1 : d >= n + 1 => d = n + 1
                    OBVIOUS
                <5> QED BY <2>3, <2>4, <4>1, <5>1
            <4>2. CASE k # type
                <5>1. k \in DOMAIN map /\ map'[k] = map[k]
                    BY <2>3, <3>1, <4>2
                <5>2. \A d \in 1 .. n + 1 : TypeOf(d)' = k => (d \in 1 .. n /\ TypeOf(d) = k)
                    <6>1. \A d \in 1 .. n + 1 : d \in 1 .. n \/ d = n + 1
                        OBVIOUS
                    <6> QED BY <1>11, <4>2, <6>1
                <5> QED BY <1>13, <2>6, <5>1, <5>2
            <4> QED BY <4>1, <4>2
        <3> QED BY <1>9, <1>10, <3>1 DEF OpenIsLast
    <2>8. ASSUME NEW i \in DOMAIN clustersList
          PROVE  /\ TypeIn(after, clustersList[i]) \in DOMAIN map'
                 /\ map'[TypeIn(after, clustersList[i])].startTimestamp
                        > clustersList[i].startTimestamp + window
        <3>1. PICK c, k : c = clustersList[i] /\ k = TypeIn(events, c)
            OBVIOUS
        <3>2. /\ k = TypeIn(after, c) /\ k \in DOMAIN map /\ c \in Clusters
              /\ map[k].startTimestamp > c.startTimestamp + window
            BY <1>14, <3>1
        <3>3. /\ map[k].startTimestamp \in Nat /\ c.startTimestamp \in Nat /\ window \in Nat
              /\ map[k].startTimestamp <= t
            BY <1>13, <3>2 DEF Clusters, window
        <3>4. t > c.startTimestamp + window
            BY <1>7, <3>2, <3>3
        <3>5. map'[k].startTimestamp > c.startTimestamp + window
            BY <2>3, <2>4, <3>2, <3>4
        <3> QED BY <2>3, <3>1, <3>2, <3>5
    <2>9. CASE type \notin DOMAIN map
        <3>1. clustersList' = clustersList
            BY <2>2, <2>9
        <3>2. EventsTypeOK'
            BY <1>4, <1>9, <1>10, <1>12, <1>16, <2>3, <3>1 DEF EventsTypeOK
        <3>3. ListedIsOlder'
            BY <1>9, <1>14, <2>8, <3>1 DEF ListedIsOlder
        <3>4. ListedApart'
            BY <1>0, <1>5, <1>9, <1>14, <3>1 DEF ListedApart
        <3>5. NoneIsLost'
            <4>1. Listed' = Listed
                BY <3>1 DEF Listed
            <4>2. ASSUME NEW e \in 1 .. n
                  PROVE  /\ TypeOf(e)' \in DOMAIN map'
                         /\ \/ e \in Members(map'[TypeOf(e)'])
                            \/ \E c \in Listed' : e \in Members(c)
                BY <1>0, <1>5, <1>10, <1>11, <2>3, <2>9, <4>1 DEF NoneIsLost
            <4>3. TypeOf(n + 1)' \in DOMAIN map' /\ n + 1 \in Members(map'[TypeOf(n + 1)'])
                BY <1>11, <2>3, <2>4
            <4>4. \A e \in 1 .. n + 1 : e \in 1 .. n \/ e = n + 1
                OBVIOUS
            <4> QED BY <1>4, <1>9, <1>10, <4>2, <4>3, <4>4 DEF NoneIsLost
        <3> QED BY <2>7, <3>2, <3>3, <3>4, <3>5 DEF ClustersInvariant
    <2>10. CASE type \in DOMAIN map
        <3>1. PICK old : old = map[type]
            OBVIOUS
        <3>2. /\ IsRun(after, old) /\ TypeIn(after, old) = type /\ old \in Clusters
              /\ old.startTimestamp \in Nat
              /\ t > old.startTimestamp + window
            BY <1>13, <2>5, <2>6, <2>10, <3>1
        <3>3. PICK m \in Nat : m = Len(clustersList)
            BY <1>16
        <3>4. /\ clustersList' \in Seq(Clusters)
              /\ DOMAIN clustersList = 1 .. m /\ DOMAIN clustersList' = 1 .. m + 1
              /\ \A i \in 1 .. m : clustersList'[i] = clustersList[i]
              /\ clustersList'[m + 1] = old
              /\ \A i \in 1 .. m + 1 : i \in 1 .. m \/ i = m + 1
            BY <1>16, <2>2, <2>10, <3>1, <3>2, <3>3
        <3>5. EventsTypeOK'
            BY <1>4, <1>9, <1>10, <1>12, <1>16, <2>3, <3>4 DEF EventsTypeOK
        <3>6. ListedIsOlder'
            <4>1. ASSUME NEW i \in 1 .. m + 1
                  PROVE  /\ IsRun(after, clustersList'[i])
                         /\ TypeIn(after, clustersList'[i]) \in DOMAIN map'
                         /\ map'[TypeIn(after, clustersList'[i])].startTimestamp
                                > clustersList'[i].startTimestamp + window
                <5>1. CASE i \in 1 .. m
                    BY <1>14, <2>8, <3>4, <5>1
                <5>2. CASE i = m + 1
                    BY <2>3, <2>4, <3>2, <3>4, <5>2
                <5> QED BY <3>4, <5>1, <5>2
            <4> QED BY <1>9, <3>4, <4>1 DEF ListedIsOlder
        <3>7. ListedApart'
            <4>1. ASSUME NEW i \in 1 .. m + 1, NEW j \in 1 .. m + 1, i < j,
                         TypeIn(after, clustersList'[i]) = TypeIn(after, clustersList'[j])
                  PROVE  clustersList'[j].startTimestamp
                            > clustersList'[i].startTimestamp + window
                <5>1. i \in 1 .. m /\ clustersList'[i] = clustersList[i]
                    BY <3>4, <4>1
                <5>2. CASE j \in 1 .. m
                    BY <1>0, <1>5, <1>14, <3>4, <4>1, <5>1, <5>2 DEF ListedApart
                <5>3. CASE j = m + 1
                    <6>1. TypeIn(events, clustersList[i]) = type
                        BY <1>14, <3>2, <3>4, <4>1, <5>1, <5>3
                    <6> QED BY <1>14, <3>1, <3>4, <5>1, <5>3, <6>1
                <5> QED BY <3>4, <5>2, <5>3
            <4> QED BY <1>9, <3>4, <4>1 DEF ListedApart
        <3>8. NoneIsLost'
            <4>1. Listed \subseteq Listed' /\ old \in Listed'
                <5>1. m + 1 \in 1 .. m + 1 /\ \A i \in 1 .. m : i \in 1 .. m + 1
                    OBVIOUS
                <5> QED BY <3>4, <5>1 DEF Listed
            <4>2. ASSUME NEW e \in 1 .. n
                  PROVE  /\ TypeOf(e)' \in DOMAIN map'
                         /\ \/ e \in Members(map'[TypeOf(e)'])
                            \/ \E c \in Listed' : e \in Members(c)
                <5>1. /\ TypeOf(e) \in DOMAIN map
                      /\ \/ e \in Members(map[TypeOf(e)])
                         \/ \E c \in Listed : e \in Members(c)
                    BY <1>0, <1>5, <1>10 DEF NoneIsLost
                <5> QED BY <1>11, <2>3, <3>1, <4>1, <5>1
            <4>3. TypeOf(n + 1)' \in DOMAIN map' /\ n + 1 \in Members(map'[TypeOf(n + 1)'])
                BY <1>11, <2>3, <2>4
            <4>4. \A e \in 1 .. n + 1 : e \in 1 .. n \/ e = n + 1
                OBVIOUS
            <4> QED BY <1>4, <1>9, <1>10, <4>2, <4>3, <4>4 DEF NoneIsLost
        <3> QED BY <2>7, <3>5, <3>6, <3>7, <3>8 DEF ClustersInvariant
    <2> QED BY <2>9, <2>10
<1> QED BY <1>17, <1>18

(* The last loop adds an open cluster, or leaves out one of a single event. *)
LEMMA RestKeeps ==
    ASSUME ClustersInvariant, NEW type \in Types, add_rest(type)
    PROVE  ClustersInvariant'
<1>0. EventsTypeOK /\ OpenIsLast /\ ListedIsOlder /\ ListedApart /\ NoneIsLost
    BY DEF ClustersInvariant
<1>1. /\ type \in DOMAIN map /\ type \notin returned
      /\ returned' = returned \cup {type}
      /\ userEvents' = userEvents /\ map' = map
    BY DEF add_rest
<1>2. PICK events : events = userEvents
    OBVIOUS
<1>3. /\ events = userEvents' /\ events = userEvents
      /\ \A e : TypeOf(e)' = TypeOf(e) /\ TimeOf(e)' = TimeOf(e)
    BY <1>1, <1>2 DEF TypeOf, TimeOf
<1>4. PICK last : last = map[type]
    OBVIOUS
<1>5. /\ IsRun(events, last) /\ TypeIn(events, last) = type
      /\ last \in Clusters /\ Len(last.userEvents) \in Nat
    BY <1>0, <1>1, <1>2, <1>4 DEF OpenIsLast, IsRun, Clusters
<1>6. clustersList \in Seq(Clusters) /\ returned' \subseteq DOMAIN map'
    BY <1>0, <1>1 DEF EventsTypeOK
<1>7. OpenIsLast'
    BY <1>0, <1>1, <1>3 DEF OpenIsLast
<1>8. ASSUME NEW i \in DOMAIN clustersList
      PROVE  LET c == clustersList[i]
                 k == TypeIn(events, c)
             IN  /\ IsRun(events, c)
                 /\ k \in DOMAIN map
                 /\ \/ map[k].startTimestamp > c.startTimestamp + window
                    \/ k \in returned /\ c = map[k] /\ Len(c.userEvents) # 1
    BY <1>0, <1>2, <1>8 DEF ListedIsOlder
<1>9. CASE Len(last.userEvents) = 1
    <2>1. clustersList' = clustersList
        BY <1>4, <1>9 DEF add_rest
    <2>2. EventsTypeOK'
        BY <1>0, <1>1, <1>3, <1>6, <2>1 DEF EventsTypeOK
    <2>3. ListedIsOlder'
        BY <1>1, <1>3, <1>8, <2>1 DEF ListedIsOlder
    <2>4. ListedApart'
        BY <1>0, <1>1, <2>1 DEF ListedApart
    <2>5. NoneIsLost'
        <3>1. Listed' = Listed
            BY <2>1 DEF Listed
        <3> QED BY <1>0, <1>1, <1>3, <1>4, <1>9, <3>1 DEF NoneIsLost
    <2> QED BY <1>7, <2>2, <2>3, <2>4, <2>5 DEF ClustersInvariant
<1>10. CASE Len(last.userEvents) # 1
    <2>1. PICK m \in Nat : m = Len(clustersList)
        BY <1>6
    <2>2. /\ clustersList' \in Seq(Clusters)
          /\ DOMAIN clustersList = 1 .. m /\ DOMAIN clustersList' = 1 .. m + 1
          /\ \A i \in 1 .. m : clustersList'[i] = clustersList[i]
          /\ clustersList'[m + 1] = last
          /\ \A i \in 1 .. m + 1 : i \in 1 .. m \/ i = m + 1
        <3>1. clustersList' = Append(clustersList, last)
            BY <1>4, <1>10 DEF add_rest
        <3> QED BY <1>5, <1>6, <2>1, <3>1
    <2>3. EventsTypeOK'
        BY <1>0, <1>1, <1>3, <1>6, <2>2 DEF EventsTypeOK
    <2>4. ListedIsOlder'
        <3>1. ASSUME NEW i \in 1 .. m + 1
              PROVE  LET c == clustersList'[i]
                         k == TypeIn(events, c)
                     IN  /\ IsRun(events, c)
                         /\ k \in DOMAIN map
                         /\ \/ map[k].startTimestamp > c.startTimestamp + window
                            \/ k \in returned' /\ c = map[k] /\ Len(c.userEvents) # 1
            <4>1. CASE i \in 1 .. m
                BY <1>1, <1>8, <2>2, <4>1
            <4>2. CASE i = m + 1
                BY <1>1, <1>4, <1>5, <1>10, <2>2, <4>2
            <4> QED BY <2>2, <4>1, <4>2
        <3> QED BY <1>1, <1>3, <2>2, <3>1 DEF ListedIsOlder
    <2>5. ListedApart'
        <3>1. ASSUME NEW i \in 1 .. m + 1, NEW j \in 1 .. m + 1, i < j,
                     TypeIn(events, clustersList'[i]) = TypeIn(events, clustersList'[j])
              PROVE  clustersList'[j].startTimestamp
                        > clustersList'[i].startTimestamp + window
            <4>1. i \in 1 .. m /\ clustersList'[i] = clustersList[i]
                BY <2>2, <3>1
            <4>2. CASE j \in 1 .. m
                BY <1>0, <1>2, <2>2, <3>1, <4>1, <4>2 DEF ListedApart
            <4>3. CASE j = m + 1
                <5>1. TypeIn(events, clustersList[i]) = type
                    BY <1>5, <2>2, <3>1, <4>1, <4>3
                <5>2. map[type].startTimestamp > clustersList[i].startTimestamp + window
                    BY <1>1, <1>8, <2>2, <4>1, <5>1
                <5> QED BY <1>4, <2>2, <4>1, <4>3, <5>2
            <4> QED BY <2>2, <4>2, <4>3
        <3> QED BY <1>3, <2>2, <3>1 DEF ListedApart
    <2>6. NoneIsLost'
        <3>1. Listed \subseteq Listed' /\ last \in Listed'
            <4>1. m + 1 \in 1 .. m + 1 /\ \A i \in 1 .. m : i \in 1 .. m + 1
                OBVIOUS
            <4> QED BY <2>2, <4>1 DEF Listed
        <3> QED BY <1>0, <1>1, <1>3, <1>4, <3>1 DEF NoneIsLost
    <2> QED BY <1>7, <2>3, <2>4, <2>5, <2>6 DEF ClustersInvariant
<1> QED BY <1>9, <1>10

(* The list of clusters that cluster() returns.                             *)
LEMMA TheClustersAreTheRuns == ClustersInvariant => ClustersAreTheRuns
<1> SUFFICES ASSUME ClustersInvariant, Finished PROVE ClustersAreTheRuns
    BY DEF ClustersAreTheRuns
<1>0. EventsTypeOK /\ OpenIsLast /\ ListedIsOlder /\ ListedApart /\ NoneIsLost
    BY DEF ClustersInvariant
<1>1. PICK n \in Nat : n = Len(userEvents)
    BY <1>0 DEF EventsTypeOK
<1>2. /\ DOMAIN userEvents = 1 .. n /\ returned = DOMAIN map
      /\ \A e \in 1 .. n : userEvents[e] \in Event
    <2>1. userEvents \in Seq(Event)
        BY <1>0 DEF EventsTypeOK
    <2>2. returned = DOMAIN map
        BY DEF Finished
    <2> QED BY <1>1, <2>1, <2>2
<1>3. \A e \in 1 .. n : TimeOf(e) \in Nat
    BY <1>2 DEF TimeOf, Event
<1>4. ASSUME NEW c, IsRun(userEvents, c)
      PROVE  /\ c.userEvents[1] \in 1 .. n
             /\ Members(c) = Run(c.userEvents[1])
             /\ Members(c) \subseteq 1 .. n
             /\ \A d \in Members(c) :
                    /\ TypeOf(d) = TypeIn(userEvents, c)
                    /\ d >= c.userEvents[1]
                    /\ TimeOf(d) <= c.startTimestamp + window
             /\ c.startTimestamp = TimeOf(c.userEvents[1])
             /\ c.userEvents[1] \in Members(c)
    <2>1. /\ c.userEvents[1] \in 1 .. n
          /\ Members(c) = RunIn(userEvents, c.userEvents[1])
          /\ c.startTimestamp = TimeOf(c.userEvents[1])
        BY <1>2, <1>4 DEF IsRun, TimeOf
    <2>2. RunIn(userEvents, c.userEvents[1]) = Run(c.userEvents[1])
        BY DEF RunIn, Run, TypeOf, TimeOf
    <2>3. \A d \in Run(c.userEvents[1]) :
            /\ d \in 1 .. n /\ d >= c.userEvents[1]
            /\ TypeOf(d) = TypeIn(userEvents, c)
            /\ TimeOf(d) <= c.startTimestamp + window
        BY <1>1, <2>1 DEF Run, TypeIn, TypeOf
    <2>4. c.userEvents[1] \in Run(c.userEvents[1])
        <3>1. PICK e \in 1 .. n : e = c.userEvents[1]
            BY <2>1
        <3>2. e \in e .. n /\ TimeOf(e) <= TimeOf(e) + window
            BY <1>3 DEF window
        <3> QED BY <1>1, <3>1, <3>2 DEF Run
    <2> QED BY <2>1, <2>2, <2>3, <2>4
<1>5. ASSUME NEW i \in DOMAIN clustersList
      PROVE  IsRun(userEvents, clustersList[i])
    BY <1>0 DEF ListedIsOlder
<1>6. \A c \in Listed :
        LET first == c.userEvents[1]
            last == c.userEvents[Len(c.userEvents)]
        IN  /\ Members(c) = Run(first)
            /\ \A i, j \in DOMAIN c.userEvents : i < j => c.userEvents[i] < c.userEvents[j]
            /\ c.startTimestamp = TimeOf(first)
            /\ c.endTimestamp = TimeOf(last) + 9
    <2>1. ASSUME NEW c \in Listed
          PROVE  /\ Members(c) = Run(c.userEvents[1])
                 /\ \A i, j \in DOMAIN c.userEvents :
                        i < j => c.userEvents[i] < c.userEvents[j]
                 /\ c.startTimestamp = TimeOf(c.userEvents[1])
                 /\ c.endTimestamp = TimeOf(c.userEvents[Len(c.userEvents)]) + 9
        <3>1. IsRun(userEvents, c)
            BY <1>5 DEF Listed
        <3> QED BY <1>4, <3>1 DEF IsRun, TimeOf
    <2> QED BY <2>1
<1>7. ASSUME NEW i \in DOMAIN clustersList, NEW j \in DOMAIN clustersList, i < j,
             NEW d \in Members(clustersList[i]), d \in Members(clustersList[j])
      PROVE  FALSE
    <2>1. PICK a, b : a = clustersList[i] /\ b = clustersList[j]
        OBVIOUS
    <2>2. IsRun(userEvents, a) /\ IsRun(userEvents, b)
        BY <1>5, <2>1
    <2>3. /\ TypeOf(d) = TypeIn(userEvents, a) /\ TypeOf(d) = TypeIn(userEvents, b)
          /\ d \in 1 .. n
          /\ TimeOf(d) <= a.startTimestamp + window
          /\ d >= b.userEvents[1] /\ b.userEvents[1] \in 1 .. n
          /\ b.startTimestamp = TimeOf(b.userEvents[1])
          /\ a.startTimestamp \in Nat
        BY <1>3, <1>4, <1>7, <2>1, <2>2
    <2>4. b.startTimestamp <= TimeOf(d)
        BY <1>0, <1>2, <2>3 DEF EventsTypeOK
    <2>5. b.startTimestamp > a.startTimestamp + window
        BY <1>0, <1>7, <2>1, <2>3 DEF ListedApart
    <2> QED BY <1>3, <2>3, <2>4, <2>5 DEF window
<1>8. \A i, j \in DOMAIN clustersList :
            i # j => Members(clustersList[i]) \cap Members(clustersList[j]) = {}
    <2>1. \A i, j \in DOMAIN clustersList : i \in Int /\ j \in Int
        BY <1>0 DEF EventsTypeOK
    <2>2. \A i, j \in Int : i # j => i < j \/ j < i
        OBVIOUS
    <2> QED BY <1>7, <2>1, <2>2
<1>9. ASSUME NEW e \in 1 .. n, \A c \in Listed : e \notin Members(c)
      PROVE  ComesAloneLast(e)
    <2>1. PICK type, last : type = TypeOf(e) /\ last = map[type]
        OBVIOUS
    <2>2. /\ type \in DOMAIN map /\ e \in Members(last) /\ Len(last.userEvents) = 1
        BY <1>0, <1>2, <1>9, <2>1 DEF NoneIsLost
    <2>3. IsRun(userEvents, last) /\ TypeIn(userEvents, last) = type
        BY <1>0, <2>1, <2>2 DEF OpenIsLast
    <2>4. Members(last) = {e} /\ last.userEvents[1] = e
        <3>1. DOMAIN last.userEvents = {1}
            <4>1. last.userEvents \in Seq(Nat \ {0})
                BY <2>3 DEF IsRun, Clusters
            <4> QED BY <2>2, <4>1
        <3> QED BY <2>2, <3>1 DEF Members
    <2>5. last.startTimestamp = TimeOf(e)
        BY <1>4, <2>3, <2>4
    <2>6. ASSUME NEW d \in e + 1 .. n, TypeOf(d) = TypeOf(e) PROVE FALSE
        <3>1. d \in 1 .. n /\ d >= e /\ d # e
            BY <2>6
        <3>2. d \in Members(last)
            BY <1>0, <1>2, <2>1, <2>2, <2>4, <2>6, <3>1 DEF OpenIsLast
        <3> QED BY <2>4, <3>1, <3>2
    <2>7. ASSUME NEW d \in 1 .. e - 1, TypeOf(d) = TypeOf(e)
          PROVE  \E c \in Listed : d \in Members(c) /\ TimeOf(e) > c.startTimestamp + window
        <3>1. d \in 1 .. n /\ d # e
            BY <2>7
        <3>2. d \notin Members(last)
            BY <2>4, <3>1
        <3>3. PICK c \in Listed : d \in Members(c)
            BY <1>0, <1>2, <2>1, <2>7, <3>1, <3>2 DEF NoneIsLost
        <3>4. PICK i \in DOMAIN clustersList : c = clustersList[i]
            BY <3>3 DEF Listed
        <3>5. TypeIn(userEvents, c) = type
            BY <1>4, <1>5, <2>1, <2>7, <3>3, <3>4
        <3>6. map[type].startTimestamp > c.startTimestamp + window \/ c = map[type]
            BY <1>0, <3>4, <3>5 DEF ListedIsOlder
        <3>7. c # map[type]
            BY <2>1, <3>2, <3>3
        <3> QED BY <2>1, <2>5, <3>3, <3>6, <3>7
    <2> QED BY <1>1, <2>6, <2>7 DEF ComesAloneLast
<1>10. ASSUME NEW e \in 1 .. n, NEW c \in Listed, e \in Members(c), ComesAloneLast(e)
       PROVE  FALSE
    <2>1. PICK type, first, s : type = TypeOf(e) /\ first = c.userEvents[1] /\ s = c.userEvents
        OBVIOUS
    <2>2. PICK i \in DOMAIN clustersList : c = clustersList[i]
        BY DEF Listed
    <2>3. /\ IsRun(userEvents, c) /\ TypeIn(userEvents, c) = type
          /\ first \in 1 .. n /\ first \in Members(c)
          /\ TypeOf(first) = type /\ e >= first /\ TimeOf(e) <= c.startTimestamp + window
        BY <1>4, <1>5, <1>10, <2>1, <2>2
    <2>4. \A d \in 1 .. n : d > e => TypeOf(d) # type
        BY <1>1, <1>10, <2>1 DEF ComesAloneLast
    <2>5. /\ type \in DOMAIN map
          /\ \/ map[type].startTimestamp > c.startTimestamp + window
             \/ c = map[type] /\ Len(s) # 1
        BY <1>0, <2>1, <2>2, <2>3 DEF ListedIsOlder
    <2>6. CASE map[type].startTimestamp > c.startTimestamp + window
        <3>1. PICK open, m : open = map[type] /\ m = open.userEvents[1]
            OBVIOUS
        <3>2. IsRun(userEvents, open) /\ TypeIn(userEvents, open) = type
            BY <1>0, <2>5, <3>1 DEF OpenIsLast
        <3>3. m \in 1 .. n /\ TypeOf(m) = type /\ open.startTimestamp = TimeOf(m)
            BY <1>4, <3>1, <3>2
        <3>4. TimeOf(m) > TimeOf(e)
            <4>1. c.startTimestamp = TimeOf(first) /\ TimeOf(first) \in Nat /\ window \in Nat
                BY <1>3, <1>4, <2>1, <2>3 DEF window
            <4>2. TimeOf(m) \in Nat /\ TimeOf(e) \in Nat
                BY <1>3, <3>3
            <4> QED BY <2>3, <2>6, <3>1, <3>3, <4>1, <4>2
        <3>5. ~ (m <= e)
            <4>1. m <= e => TimeOf(m) <= TimeOf(e)
                BY <1>0, <1>2, <3>3 DEF EventsTypeOK
            <4>2. TimeOf(m) \in Nat /\ TimeOf(e) \in Nat
                BY <1>3, <3>3
            <4> QED BY <3>4, <4>1, <4>2
        <3> QED BY <2>4, <3>3, <3>5
    <2>7. CASE c = map[type] /\ Len(s) # 1
        <3>1. s \in Seq(Nat \ {0}) /\ s # <<>> /\ \A a, b \in DOMAIN s : a < b => s[a] < s[b]
            BY <2>1, <2>3 DEF IsRun, Clusters
        <3>2. Len(s) \in Nat /\ Len(s) > 1 /\ DOMAIN s = 1 .. Len(s)
            <4>1. Len(s) \in Nat /\ DOMAIN s = 1 .. Len(s)
                BY <3>1
            <4>2. Len(s) # 0
                BY <3>1, EmptyByLength
            <4> QED BY ONLY <2>7, <4>1, <4>2
        <3>3. s[1] < s[2] /\ 2 \in DOMAIN s
            BY <3>1, <3>2
        <3>4. s[2] \in Members(c) /\ s[2] \in 1 .. n /\ TypeOf(s[2]) = type
            <4>1. s[2] \in Members(c)
                BY <2>1, <3>3 DEF Members
            <4> QED BY <1>4, <2>3, <4>1
        <3>5. CASE e = first
            BY <2>1, <2>4, <3>3, <3>4, <3>5
        <3>6. CASE e # first
            <4>1. first \in 1 .. e - 1
                BY <2>3, <3>6
            <4>2. PICK c2 \in Listed : first \in Members(c2) /\ TimeOf(e) > c2.startTimestamp + window
                BY <1>10, <2>1, <2>3, <4>1 DEF ComesAloneLast
            <4>3. PICK j \in DOMAIN clustersList : c2 = clustersList[j]
                BY DEF Listed
            <4>4. i = j
                BY <1>8, <2>2, <2>3, <4>2, <4>3
            <4>5. c2.startTimestamp + window \in Int /\ TimeOf(e) \in Int
                BY <1>3, <1>4, <2>1, <2>2, <2>3, <4>3, <4>4 DEF window
            <4> QED BY <2>2, <2>3, <4>2, <4>3, <4>4, <4>5
        <3> QED BY <3>5, <3>6
    <2> QED BY <2>5, <2>6, <2>7
<1>11. \A e \in DOMAIN userEvents : (\E c \in Listed : e \in Members(c)) <=> ~ ComesAloneLast(e)
    BY <1>2, <1>9, <1>10
<1> QED BY <1>6, <1>8, <1>11 DEF ClustersAreTheRuns

ClustersSpec == ClustersInit /\ [][ClustersNext]_clusterVars

(* Whatever the events of a user and the times between them, the clusters   *)
(* cluster() returns are the runs of events of one type within the window   *)
(* of their first, no event is in two, and only a lone last event of a type *)
(* is in none.                                                              *)
THEOREM ClustersAreTheRunsHolds == ClustersSpec => []ClustersAreTheRuns
<1>1. ClustersInvariant /\ [ClustersNext]_clusterVars => ClustersInvariant'
    <2> SUFFICES ASSUME ClustersInvariant, [ClustersNext]_clusterVars PROVE ClustersInvariant'
        OBVIOUS
    <2>1. CASE ClustersNext
        BY <2>1, ReadKeeps, RestKeeps DEF ClustersNext
    <2>2. CASE UNCHANGED clusterVars
        <3>1. /\ userEvents' = userEvents /\ map' = map
              /\ clustersList' = clustersList /\ returned' = returned
            BY <2>2 DEF clusterVars
        <3> QED BY <3>1 DEF ClustersInvariant, EventsTypeOK, OpenIsLast, ListedIsOlder,
                ListedApart, NoneIsLost, TimeOf, TypeOf, Listed
    <2> QED BY <2>1, <2>2
<1> QED BY <1>1, ClustersStart, TheClustersAreTheRuns, PTL DEF ClustersSpec

-----------------------------------------------------------------------------
(* The kprobe tracer, for every number of processors, processes, addresses *)
(* and calls: its types, the only two ways in which it brings the kernel   *)
(* down, what it leaks, and that the memory counters agree with the        *)
(* recorded memory.                                                        *)

Positive == Nat \ {0}

(* The first node of a list is its newest. *)
LEMMA FirstIsNewest ==
    ASSUME NEW s \in Seq(Positive), Decreasing(s)
    PROVE  /\ First(s) \in {0} \cup Range(s)
           /\ First(s) = 0 <=> s = <<>>
           /\ \A n \in Range(s) : n <= First(s)
<1>1. CASE s = <<>>
    BY <1>1 DEF First, Range
<1>2. CASE s # <<>>
    <2>1. Head(s) = s[1] /\ 1 \in DOMAIN s /\ DOMAIN s = 1 .. Len(s) /\ Len(s) \in Nat
        BY <1>2
    <2>2. First(s) = s[1]
        BY <1>2, <2>1 DEF First
    <2>3. \A i \in DOMAIN s : s[i] \in Positive
        OBVIOUS
    <2>4. \A i \in DOMAIN s : s[i] <= s[1]
        BY <2>1, <2>3 DEF Decreasing, Positive
    <2> QED BY <1>2, <2>1, <2>2, <2>3, <2>4 DEF Range, Positive
<1> QED BY <1>1, <1>2

(* The node after another one is the newest of the older ones. *)
LEMMA AfterIsNext ==
    ASSUME NEW s \in Seq(Positive), Decreasing(s), NEW n \in Nat
    PROVE  /\ After(s, n) \in {0} \cup Range(s)
           /\ After(s, n) = 0 \/ After(s, n) < n
           /\ n \in Range(s) => \A m \in Range(s) : m < n => m <= After(s, n)
           /\ n \notin Range(s) => After(s, n) = 0
<1> DEFINE later == {i \in DOMAIN s : i > 1 /\ s[i - 1] = n}
<1>0. /\ DOMAIN s = 1 .. Len(s) /\ Len(s) \in Nat
      /\ \A i \in DOMAIN s : s[i] \in Positive
    OBVIOUS
<1>1. CASE later = {}
    <2>1. After(s, n) = 0
        BY <1>1 DEF After
    <2>2. \A i, j \in DOMAIN s : s[i] = n => ~(s[j] < n)
        <3> SUFFICES ASSUME NEW i \in DOMAIN s, NEW j \in DOMAIN s, s[i] = n, s[j] < n
                     PROVE  FALSE
            OBVIOUS
        <3>1. i < j
            BY <1>0 DEF Decreasing, Positive
        <3>2. i + 1 \in DOMAIN s /\ i + 1 > 1 /\ s[(i + 1) - 1] = n
            BY <1>0, <3>1
        <3> QED BY <1>1, <3>2
    <2> QED BY <1>0, <2>1, <2>2 DEF Range
<1>2. CASE later # {}
    <2>1. PICK i \in later : After(s, n) = s[i]
        BY <1>2 DEF After
    <2>2. /\ i \in DOMAIN s /\ i - 1 \in DOMAIN s /\ s[i - 1] = n /\ i - 1 < i
          /\ i \in Nat
        BY <1>0, <2>1
    <2>3. s[i] < n
        BY <1>0, <2>2 DEF Decreasing, Positive
    <2>4. \A j \in DOMAIN s : s[j] < n => s[j] <= s[i]
        <3> SUFFICES ASSUME NEW j \in DOMAIN s, s[j] < n PROVE s[j] <= s[i]
            OBVIOUS
        <3>1. ~(j < i - 1) /\ j # i - 1
            BY <1>0, <2>2 DEF Decreasing, Positive
        <3>2. j = i \/ i < j
            BY <1>0, <2>2, <3>1
        <3> QED BY <1>0, <2>2, <3>2 DEF Decreasing, Positive
    <2> QED BY <1>0, <2>1, <2>2, <2>3, <2>4 DEF Range
<1> QED BY <1>1, <1>2

(* Deleting a node leaves the others in their order. *)
LEMMA DeleteOne ==
    ASSUME NEW S \in SUBSET Nat, NEW s \in Seq(S), Decreasing(s), NEW n
    PROVE  /\ list_del(s, n) \in Seq(S) /\ Decreasing(list_del(s, n))
           /\ Range(list_del(s, n)) = Range(s) \ {n}
<1>0. /\ DOMAIN s = 1 .. Len(s) /\ Len(s) \in Nat
      /\ \A i \in DOMAIN s : s[i] \in S /\ s[i] \in Nat
    <2>1. /\ DOMAIN s = 1 .. Len(s) /\ Len(s) \in Nat
          /\ \A i \in DOMAIN s : s[i] \in S
        OBVIOUS
    <2> QED BY <2>1
<1>1. CASE n \notin Range(s)
    BY <1>1 DEF list_del
<1>2. CASE n \in Range(s)
    <2>1. PICK k \in DOMAIN s : s[k] = n /\ list_del(s, n) = RemoveAt(s, k)
        BY <1>2 DEF list_del, Range
    <2> DEFINE t == RemoveAt(s, k)
               a == SubSeq(s, 1, k - 1)
               b == SubSeq(s, k + 1, Len(s))
    <2>2. k \in 1 .. Len(s)
        BY <1>0, <2>1
    <2>3. t = a \o b
        BY DEF RemoveAt
    <2>4. a \in Seq(S) /\ Len(a) = k - 1 /\ \A i \in 1 .. k - 1 : a[i] = s[i]
        BY <2>2
    <2>5. b \in Seq(S) /\ Len(b) = Len(s) - k /\ \A i \in 1 .. Len(s) - k : b[i] = s[i + k]
        BY <2>2
    <2> HIDE DEF t, a, b
    <2>6. /\ t \in Seq(S) /\ Len(t) = Len(s) - 1
          /\ \A i \in 1 .. Len(s) - 1 : t[i] = IF i < k THEN s[i] ELSE s[i + 1]
        <3>0. /\ t \in Seq(S) /\ Len(t) = Len(a) + Len(b)
              /\ \A i \in 1 .. Len(a) + Len(b) : t[i] = IF i <= Len(a) THEN a[i] ELSE b[i - Len(a)]
            BY <2>3, <2>4, <2>5, ConcatProperties
        <3>1. t \in Seq(S) /\ Len(t) = Len(s) - 1
            BY <1>0, <2>2, <2>4, <2>5, <3>0
        <3>2. \A i \in 1 .. Len(s) - 1 : t[i] = IF i < k THEN a[i] ELSE b[i - (k - 1)]
            <4> SUFFICES ASSUME NEW i \in 1 .. Len(s) - 1
                         PROVE  t[i] = IF i < k THEN a[i] ELSE b[i - (k - 1)]
                OBVIOUS
            <4>1. /\ i \in 1 .. Len(a) + Len(b) /\ (i <= Len(a) <=> i < k)
                  /\ i - Len(a) = i - (k - 1)
                BY <1>0, <2>2, <2>4, <2>5
            <4> QED BY <3>0, <4>1
        <3>3. ASSUME NEW i \in 1 .. Len(s) - 1 PROVE t[i] = IF i < k THEN s[i] ELSE s[i + 1]
            <4>1. CASE i < k
                BY <1>0, <2>2, <2>4, <3>2, <4>1
            <4>2. CASE ~(i < k)
                <5>1. i - (k - 1) \in 1 .. Len(s) - k /\ (i - (k - 1)) + k = i + 1
                    BY <1>0, <2>2, <4>2
                <5> QED BY <2>5, <3>2, <4>2, <5>1
            <4> QED BY <4>1, <4>2
        <3> QED BY <3>1, <3>3
    <2>7. DOMAIN t = 1 .. Len(s) - 1
        BY <2>6
    <2> DEFINE at(i) == IF i < k THEN i ELSE i + 1
    <2>m. ASSUME NEW i \in DOMAIN t
          PROVE  at(i) \in DOMAIN s /\ at(i) # k /\ t[i] = s[at(i)]
        BY <1>0, <2>2, <2>6, <2>7
    <2>8. Decreasing(t)
        <3> SUFFICES ASSUME NEW i \in DOMAIN t, NEW j \in DOMAIN t, i < j
                     PROVE  t[i] > t[j]
            BY DEF Decreasing
        <3>1. at(i) < at(j)
            BY <1>0, <2>2, <2>7
        <3> HIDE DEF at
        <3> QED BY <2>m, <3>1 DEF Decreasing
    <2>9. \A i \in DOMAIN t : t[i] \in Range(s) /\ t[i] # n
        <3> HIDE DEF at
        <3>1. \A i, j \in DOMAIN s : i # j => s[i] # s[j]
            BY <1>0 DEF Decreasing
        <3> QED BY <2>1, <2>m, <3>1 DEF Range
    <2>10. \A i \in DOMAIN s : s[i] # n => \E j \in DOMAIN t : t[j] = s[i]
        <3> SUFFICES ASSUME NEW i \in DOMAIN s, s[i] # n
                     PROVE  \E j \in DOMAIN t : t[j] = s[i]
            OBVIOUS
        <3>1. CASE i < k
            BY <1>0, <2>2, <2>6, <2>7, <3>1
        <3>2. CASE i > k
            <4>1. i - 1 \in DOMAIN t /\ ~(i - 1 < k) /\ (i - 1) + 1 = i
                BY <1>0, <2>2, <2>7, <3>2
            <4> QED BY <2>6, <2>7, <4>1
        <3>3. i # k
            BY <2>1
        <3> QED BY <1>0, <2>2, <3>1, <3>2, <3>3
    <2>11. Range(t) = Range(s) \ {n}
        BY <2>9, <2>10 DEF Range
    <2> QED BY <2>1, <2>6, <2>8, <2>11 DEF t
<1> QED BY <1>1, <1>2

(* A newer node goes to the head. *)
LEMMA PrependOne ==
    ASSUME NEW S \in SUBSET Nat, NEW s \in Seq(S), Decreasing(s), NEW n \in Nat,
           \A m \in S : m < n
    PROVE  /\ <<n>> \o s \in Seq(S \cup {n}) /\ Decreasing(<<n>> \o s)
           /\ Range(<<n>> \o s) = Range(s) \cup {n}
<1> DEFINE t == <<n>> \o s
<1>0. /\ DOMAIN s = 1 .. Len(s) /\ Len(s) \in Nat
      /\ \A i \in DOMAIN s : s[i] \in S
    OBVIOUS
<1>1. /\ t \in Seq(S \cup {n}) /\ Len(t) = Len(s) + 1
      /\ t[1] = n /\ \A i \in 2 .. Len(s) + 1 : t[i] = s[i - 1]
    <2>1. s \in Seq(S \cup {n}) /\ <<n>> \in Seq(S \cup {n})
        OBVIOUS
    <2> QED BY <2>1
<1> HIDE DEF t
<1>2. DOMAIN t = 1 .. Len(s) + 1
    BY <1>1
<1>3. Decreasing(t)
    <2> SUFFICES ASSUME NEW i \in DOMAIN t, NEW j \in DOMAIN t, i < j PROVE t[i] > t[j]
        BY DEF Decreasing
    <2>1. j \in 2 .. Len(s) + 1 /\ j - 1 \in DOMAIN s
        BY <1>0, <1>2
    <2>2. CASE i = 1
        BY <1>0, <1>1, <2>1, <2>2
    <2>3. CASE i # 1
        <3>1. i \in 2 .. Len(s) + 1 /\ i - 1 \in DOMAIN s /\ i - 1 < j - 1
            BY <1>0, <1>2, <2>1, <2>3
        <3> QED BY <1>0, <1>1, <2>1, <3>1 DEF Decreasing
    <2> QED BY <2>2, <2>3
<1>4. \A i \in DOMAIN t : t[i] \in Range(s) \cup {n}
    BY <1>0, <1>1, <1>2 DEF Range
<1>5. \A i \in DOMAIN s : i + 1 \in DOMAIN t /\ t[i + 1] = s[i]
    BY <1>0, <1>1, <1>2
<1>6. Range(t) = Range(s) \cup {n}
    BY SMTT(40), <1>0, <1>1, <1>2, <1>4, <1>5 DEF Range
<1> QED BY <1>1, <1>3, <1>6 DEF t
-----------------------------------------------------------------------------
(* Steps of one processor that leave the lists alone. *)

OthersKept(c) ==
    cpu' \in [Cpus -> Tasks] /\ \A d \in Cpus \ {c} : cpu'[d] = cpu[d]

LEMMA TaskSet ==
    ASSUME TypeOK, NEW c \in Cpus, NEW r \in Tasks, cpu' = [cpu EXCEPT ![c] = r]
    PROVE  OthersKept(c) /\ cpu'[c] = r
<1>1. cpu \in [Cpus -> Tasks]
    BY DEF TypeOK
<1> QED BY <1>1 DEF OthersKept

(* A list is made of nodes that were allocated and not freed. *)
LEMMA ListFacts ==
    ASSUME TracerInvariant
    PROVE  /\ proc_data \in Seq(DOMAIN pdl) /\ DOMAIN pdl = 1 .. Len(pdl) /\ Len(pdl) \in Nat
           /\ mem_data \in Seq(DOMAIN mdl) /\ DOMAIN mdl = 1 .. Len(mdl) /\ Len(mdl) \in Nat
           /\ Decreasing(proc_data) /\ Range(proc_data) \subseteq DOMAIN pdl
           /\ Decreasing(mem_data) /\ Range(mem_data) \subseteq DOMAIN mdl
           /\ \A n \in DOMAIN pdl : pdl[n] \in ProcNodes
           /\ \A n \in DOMAIN mdl : mdl[n] \in MemNodes
           /\ \A n \in Nat :
                /\ <<"proc", n>> \in freed <=> n \in DOMAIN pdl /\ n \notin Range(proc_data)
                /\ <<"mem", n>> \in freed <=> n \in DOMAIN mdl /\ n \notin Range(mem_data)
<1>1. /\ proc_data \in Seq(DOMAIN pdl) /\ mem_data \in Seq(DOMAIN mdl)
      /\ pdl \in Seq(ProcNodes) /\ mdl \in Seq(MemNodes)
    BY DEF TracerInvariant, TypeOK, ListTypes
<1>2. /\ DOMAIN pdl = 1 .. Len(pdl) /\ Len(pdl) \in Nat
      /\ DOMAIN mdl = 1 .. Len(mdl) /\ Len(mdl) \in Nat
      /\ \A n \in DOMAIN pdl : pdl[n] \in ProcNodes
      /\ \A n \in DOMAIN mdl : mdl[n] \in MemNodes
    BY <1>1
<1>3. Range(proc_data) \subseteq DOMAIN pdl /\ Range(mem_data) \subseteq DOMAIN mdl
    BY <1>1 DEF Range
<1> QED BY <1>1, <1>2, <1>3 DEF TracerInvariant, InvLists

(* The memory recorded of a process is a finite number of nodes. *)
LEMMA SomeNodes ==
    ASSUME NEW k \in Nat, NEW S \in SUBSET (1 .. k)
    PROVE  IsFiniteSet(S) /\ Cardinality(S) \in Nat
<1>1. IsFiniteSet(1 .. k)
    BY FS_Interval
<1>2. IsFiniteSet(S)
    BY <1>1, FS_Subset
<1> QED BY <1>2, FS_CardinalityType

LEMMA AllocationsAreCounted ==
    ASSUME ListTypes, ListTypes', NEW pid
    PROVE  /\ IsFiniteSet({n \in Range(mem_data) : mdl[n].pid = pid})
           /\ Allocations(pid) \in Nat /\ Allocations(pid)' \in Nat
<1> DEFINE S == {n \in Range(mem_data) : mdl[n].pid = pid}
<1>1. S \subseteq 1 .. Len(mdl) /\ Len(mdl) \in Nat
    BY DEF ListTypes, Range
<1>2. S' \subseteq 1 .. Len(mdl)' /\ Len(mdl)' \in Nat
    BY DEF ListTypes, Range
<1>3. IsFiniteSet(S) /\ Cardinality(S) \in Nat
    <2> HIDE DEF S
    <2> QED BY <1>1, SomeNodes
<1>4. Cardinality(S') \in Nat
    <2> HIDE DEF S
    <2> QED BY <1>2, SomeNodes
<1> QED BY <1>3, <1>4 DEF Allocations

(* What a processor's step has to show so that the others' part of the      *)
(* invariant, which speaks of their own tasks, is kept.                     *)
Disturbs(c) ==
    \/ UNCHANGED <<freed, overlapped>>
    \/ \E list \in {"proc", "mem"}, n \in Nat : Free(c, list, n)
Frame(c) ==
    /\ OthersKept(c) /\ UNCHANGED <<status, registered>>
    /\ lock' \in [Locks -> Cpus \cup {None}]
    /\ \A l \in {"proc_lock", "mem_lock_out"} : lock'[l] = lock[l] \/ lock[l] \in {None, c}
    /\ heap' \subseteq Addresses /\ calls' \in 0 .. MaxCalls
    /\ ListTypes' /\ InvLists' /\ Disturbs(c)
    /\ DOMAIN pdl \subseteq DOMAIN pdl' /\ DOMAIN mdl \subseteq DOMAIN mdl'
    /\ UNCHANGED proc_data \/ \A d \in Cpus \ {c} : cpu[d].target = 0 /\ ~Exiting(d)
    /\ status \in {"exit", "unloaded"} => Early' \subseteq Early
    /\ status \in {"init", "unloaded"} => UNCHANGED proc_data
    /\ OnNodes(c)' /\ TaskOK(c)' /\ LocksOK(c)' /\ ExitOK(c)'
    /\ cpu'[c].pid \in {None, cpu[c].pid} \/ \A d \in Cpus : cpu[d].pid # cpu'[c].pid
    /\ overlapped' \/ WalkOK(c)'
    /\ Exiting(c)' => Exiting(c)

LEMMA FrameStep ==
    ASSUME TracerInvariant, NEW c \in Cpus, Frame(c), InvAccounts', status # "oops"
    PROVE  TracerInvariant'
<1>0. /\ OthersKept(c) /\ UNCHANGED <<status, registered>>
      /\ TypeOK /\ InvLists /\ InvTasks /\ InvLocks /\ InvWalks /\ InvInit /\ InvExit
      /\ \A d \in Cpus \ {c} : cpu'[d] = cpu[d]
    BY DEF Frame, TracerInvariant, OthersKept
<1>p. \A d \in Cpus \ {c} :
        /\ Phase(d)' = Phase(d) /\ Exiting(d)' = Exiting(d)
        /\ HoldsProc(d)' = HoldsProc(d) /\ Purging(d)' = Purging(d)
    BY <1>0 DEF Phase, Nested, Exiting, HoldsProc, Purging
<1>1. TypeOK'
    <2>1. \A d \in Cpus : OnNodes(d)'
        BY <1>0 DEF Frame, TypeOK, OnNodes
    <2>2. cpu' \in [Cpus -> Tasks]
        BY <1>0 DEF OthersKept
    <2> QED BY <1>0, <2>1, <2>2 DEF Frame, TypeOK
<1>3. InvTasks'
    <2>1. \A d \in Cpus \ {c} : TaskOK(d)'
        BY <1>0 DEF InvTasks, TaskOK, Phase, Nested, OnTarget, Removing
    <2>2. \A d, e \in Cpus : cpu'[d].pid = cpu'[e].pid /\ cpu'[d].pid # None => d = e
        BY <1>0 DEF Frame, InvTasks
    <2> QED BY <2>1, <2>2 DEF InvTasks, Frame
<1>4. InvLocks'
    <2>1. None \notin Cpus
        BY TracerAssumption
    <2>2. ASSUME NEW d \in Cpus \ {c} PROVE LocksOK(d)'
        <3>2. LocksOK(d)
            BY <1>0 DEF InvLocks
        <3>3. lock["proc_lock"] = d => lock'["proc_lock"] = d
            BY <2>1, <2>2 DEF Frame, Locks
        <3>4. lock["mem_lock_out"] = d => lock'["mem_lock_out"] = d
            BY <2>1, <2>2 DEF Frame, Locks
        <3>5. cpu[d].target # 0 => UNCHANGED proc_data
            BY <2>2 DEF Frame
        <3> QED BY <1>0, <1>p, <2>2, <3>2, <3>3, <3>4, <3>5 DEF LocksOK
    <2> QED BY <2>2 DEF InvLocks, Frame
<1>5. InvWalks'
    <2> SUFFICES ASSUME ~overlapped', NEW d \in Cpus \ {c} PROVE WalkOK(d)'
        BY DEF InvWalks, Frame
    <2>1. CASE UNCHANGED <<freed, overlapped>>
        BY <1>0, <1>p, <2>1 DEF WalkOK, StandsOK, PurgeOK, InvWalks
    <2>2. CASE \E list \in {"proc", "mem"}, n \in Nat : Free(c, list, n)
        <3>1. PICK list \in {"proc", "mem"}, n \in Nat : Free(c, list, n)
            BY <2>2
        <3>2. /\ ~overlapped /\ ~Walks(d, list)
              /\ freed' = freed \cup {<<list, n>>}
            BY <3>1 DEF Free
        <3>3. WalkOK(d) /\ (Purging(d) => lock["mem_lock_out"] = d)
            BY <1>0, <3>2 DEF InvWalks, InvLocks, LocksOK
        <3>4. CASE list = "proc"
            BY <1>0, <1>p, <3>2, <3>3, <3>4 DEF WalkOK, StandsOK, PurgeOK, Walks
        <3>5. CASE list = "mem"
            BY <1>0, <1>p, <3>2, <3>3, <3>5 DEF WalkOK, StandsOK, PurgeOK, Walks, Purging
        <3> QED BY <3>1, <3>4, <3>5
    <2> QED BY <2>1, <2>2 DEF Frame, Disturbs
<1>6. InvExit'
    <2>1. \A x \in freed : x \in freed'
        BY DEF Frame, Disturbs, Free
    <2>2. ASSUME NEW d \in Cpus \ {c} PROVE ExitOK(d)'
        <3> SUFFICES ASSUME Exiting(d) PROVE ExitOK(d)'
            BY <1>p DEF ExitOK
        <3>1. ExitOK(d) /\ status = "exit"
            BY <1>0 DEF InvExit, ExitOK
        <3>2. Early' \subseteq Early /\ UNCHANGED proc_data
            BY <2>2, <3>1 DEF Frame
        <3> QED BY <1>0, <1>p, <2>1, <2>2, <3>1, <3>2 DEF ExitOK
    <2>3. \A d, e \in Cpus : Exiting(d)' /\ Exiting(e)' => d = e
        BY <1>0, <1>p DEF InvExit, Frame
    <2>4. status' = "unloaded" => proc_data' = <<>> /\ Early' = {} /\ registered' = {}
        BY <1>0 DEF InvExit, Frame
    <2> QED BY <2>2, <2>3, <2>4 DEF InvExit, Frame
<1>7. InvInit'
    BY <1>0 DEF InvInit, Frame
<1> QED BY <1>1, <1>3, <1>4, <1>5, <1>6, <1>7 DEF TracerInvariant, Frame

(* The memory a process is about to record or to count. *)
Due(c, pid) == IF PendingFor(c, pid) THEN 1 ELSE 0
Credit(n) == pdl[n].count["kmalloc_mem"] - pdl[n].count["kfree_mem"]

LEMMA PendingChange ==
    ASSUME TracerInvariant, NEW c \in Cpus, Frame(c), NEW pid \in Pids
    PROVE  Pending(pid)' = (Pending(pid) - Due(c, pid)) + Due(c, pid)'
<1>0. /\ \A d \in Cpus \ {c} : cpu'[d] = cpu[d]
      /\ \A d, e \in Cpus : cpu[d].pid = cpu[e].pid /\ cpu[d].pid # None => d = e
      /\ pid # None
    BY TracerAssumption DEF Frame, OthersKept, TracerInvariant, InvTasks
<1>1. \A d \in Cpus \ {c} : PendingFor(d, pid)' <=> PendingFor(d, pid)
    BY <1>0 DEF PendingFor, PendingIn
<1>2. CASE cpu[c].pid = pid \/ cpu'[c].pid = pid
    <2>1. \A d \in Cpus \ {c} : cpu[d].pid # pid
        BY <1>0, <1>2 DEF Frame
    <2>2. \A d \in Cpus \ {c} : ~PendingFor(d, pid) /\ ~PendingFor(d, pid)'
        BY <1>1, <2>1 DEF PendingFor
    <2>3. Pending(pid) = Due(c, pid) /\ Pending(pid)' = Due(c, pid)'
        BY <2>2 DEF Pending, Due
    <2>4. Due(c, pid) \in {0, 1} /\ Due(c, pid)' \in {0, 1}
        BY DEF Due
    <2> QED BY <2>3, <2>4
<1>3. CASE cpu[c].pid # pid /\ cpu'[c].pid # pid
    <2>1. ~PendingFor(c, pid) /\ ~PendingFor(c, pid)'
        BY <1>3 DEF PendingFor
    <2>2. Pending(pid)' = Pending(pid) /\ Due(c, pid) = 0 /\ Due(c, pid)' = 0
        BY <1>1, <2>1 DEF Pending, Due
    <2> QED BY <2>2 DEF Pending
<1> QED BY <1>2, <1>3

(* What a step has to show of the records it keeps. *)
Recount ==
    /\ Range(proc_data') \subseteq Range(proc_data)
    /\ \A n \in DOMAIN pdl :
        /\ pdl'[n].pid = pdl[n].pid /\ pdl'[n].base = pdl[n].base
        /\ pdl'[n].clean => pdl[n].clean
Balanced(c) ==
    \A n \in Range(proc_data'), pid \in Pids :
      (pdl'[n].clean /\ Kept(n) /\ RecordOK(n) /\ pdl[n].pid = pid) =>
        /\ NotPassed(c, n)'
        /\ Credit(n)' + Allocations(pid) + Due(c, pid)
            = Credit(n) + Allocations(pid)' + Due(c, pid)'

LEMMA AccountsKept ==
    ASSUME TracerInvariant, NEW c \in Cpus, Frame(c), Recount,
           status = "loaded" =>
            /\ Balanced(c)
            /\ cpu[c].target \in {0, cpu'[c].target} \/ cpu[c].target \notin Range(proc_data')
    PROVE  InvAccounts'
<1> SUFFICES ASSUME status = "loaded", NEW n \in Range(proc_data'), Kept(n)'
             PROVE  RecordOK(n)'
    BY DEF InvAccounts, Frame
<1>0. /\ \A d \in Cpus \ {c} : cpu'[d] = cpu[d]
      /\ Range(proc_data') \subseteq Range(proc_data) /\ Balanced(c)
      /\ n \in DOMAIN pdl /\ n # 0 /\ pdl[n] \in ProcNodes
      /\ n \in DOMAIN pdl' /\ pdl'[n] \in ProcNodes
    <2>1. ListTypes /\ ListTypes'
        BY DEF TracerInvariant, TypeOK, Frame
    <2>2. /\ DOMAIN pdl = 1 .. Len(pdl) /\ Len(pdl) \in Nat /\ Range(proc_data) \subseteq DOMAIN pdl
          /\ \A m \in DOMAIN pdl : pdl[m] \in ProcNodes
        BY ListFacts
    <2>3. \A m \in DOMAIN pdl' : pdl'[m] \in ProcNodes
        BY <2>1 DEF ListTypes
    <2> QED BY <2>2, <2>3 DEF Frame, OthersKept, Recount
<1>1. Kept(n) /\ pdl'[n].clean
    <2>1. \A d \in Cpus \ {c} : cpu[d].target # n
        BY <1>0 DEF Kept
    <2>2. cpu[c].target # n
        BY <1>0 DEF Kept
    <2> QED BY <1>0, <2>1, <2>2 DEF Kept, Recount
<1>2. RecordOK(n)
    BY <1>0, <1>1 DEF TracerInvariant, InvAccounts
<1>7. PICK pid \in Pids : pid = pdl[n].pid /\ pid = pdl'[n].pid
    BY <1>0 DEF Recount, ProcNodes
<1>3. /\ NotPassed(c, n)'
      /\ Credit(n)' + Allocations(pid) + Due(c, pid)
            = Credit(n) + Allocations(pid)' + Due(c, pid)'
    BY <1>0, <1>1, <1>2, <1>7 DEF Balanced
<1>4. \A d \in Cpus : NotPassed(d, n)'
    <2>1. \A x \in freed : x \in freed'
        BY DEF Frame, Disturbs, Free
    <2>2. \A d \in Cpus \ {c} : NotPassed(d, n)'
        BY <1>0, <1>2, <2>1 DEF RecordOK, NotPassed, Recount
    <2> QED BY <1>3, <2>2
<1>5. \A m \in Range(proc_data') : pdl'[m].pid = pdl'[n].pid => m = n
    <2>1. \A m \in Range(proc_data') : m \in Range(proc_data) /\ m \in DOMAIN pdl
        BY <1>0, ListFacts
    <2> QED BY <1>0, <1>2, <2>1 DEF RecordOK, Recount
<1>6. Credit(n)' + pdl'[n].base = Allocations(pid)' + Pending(pid)'
    <2>1. Credit(n) \in Int /\ Credit(n)' \in Int /\ pdl[n].base \in Nat
        BY <1>0 DEF ProcNodes, Credit, Counters, Probes
    <2>0. ListTypes /\ ListTypes'
        BY DEF TracerInvariant, TypeOK, Frame
    <2>9. RecordOK(n) /\ pdl'[n].base = pdl[n].base
        BY <1>0, <1>2 DEF Recount
    <2>4. Credit(n) + pdl[n].base = Allocations(pid) + Pending(pid)
        BY <1>7, <2>9 DEF RecordOK, Credit
    <2>2. Allocations(pid) \in Nat /\ Allocations(pid)' \in Nat
        BY <2>0, AllocationsAreCounted
    <2>3. Due(c, pid) \in {0, 1} /\ Due(c, pid)' \in {0, 1} /\ Pending(pid) \in {0, 1}
        BY DEF Due, Pending
    <2>5. Pending(pid)' = (Pending(pid) - Due(c, pid)) + Due(c, pid)'
        BY PendingChange
    <2>6. /\ Credit(n)' + Allocations(pid) + Due(c, pid)
                = Credit(n) + Allocations(pid)' + Due(c, pid)'
        BY <1>3
    <2> QED BY <2>1, <2>2, <2>3, <2>4, <2>5, <2>6, <2>9
<1> QED BY <1>4, <1>5, <1>6, <1>7 DEF RecordOK, Credit

(* A step that leaves the lists alone, but for the counters. *)
Quiet(c) ==
    /\ OthersKept(c)
    /\ UNCHANGED <<status, registered, proc_data, mem_data, mdl, freed, overlapped>>
    /\ pdl' \in Seq(ProcNodes) /\ DOMAIN pdl' = DOMAIN pdl
    /\ lock' \in [Locks -> Cpus \cup {None}]
    /\ \A l \in {"proc_lock", "mem_lock_out"} : lock'[l] = lock[l] \/ lock[l] \in {None, c}
    /\ heap' \subseteq Addresses /\ calls' \in 0 .. MaxCalls
    /\ OnNodes(c)' /\ TaskOK(c)' /\ LocksOK(c)' /\ ExitOK(c)'
    /\ cpu'[c].pid \in {None, cpu[c].pid} \/ \A d \in Cpus : cpu[d].pid # cpu'[c].pid
    /\ overlapped \/ WalkOK(c)'
    /\ Exiting(c)' => Exiting(c)
    /\ cpu[c].target \in {0, cpu'[c].target} \/ cpu[c].target \notin Range(proc_data)
    /\ Recount /\ Balanced(c)

LEMMA QuietStep ==
    ASSUME TracerInvariant, NEW c \in Cpus, Quiet(c), status # "oops"
    PROVE  TracerInvariant'
<1>1. ListTypes' /\ InvLists'
    <2>1. ListTypes /\ InvLists
        BY DEF TracerInvariant, TypeOK
    <2> QED BY <2>1 DEF Quiet, ListTypes, InvLists, Decreasing
<1>2. Early' \subseteq Early
    BY DEF Quiet, Early
<1>3. Frame(c)
    BY <1>1, <1>2 DEF Quiet, Frame, Disturbs
<1>4. InvAccounts'
    BY <1>3, AccountsKept DEF Quiet
<1> QED BY <1>3, <1>4, FrameStep

(* Counters that do not change go with a process that owes nothing new. *)
LEMMA Unrecounted ==
    ASSUME TracerInvariant, NEW c \in Cpus, UNCHANGED <<proc_data, mem_data, pdl, mdl>>,
           \A n \in Range(proc_data) : RecordOK(n) =>
            /\ NotPassed(c, n)'
            /\ PendingFor(c, pdl[n].pid)' <=> PendingFor(c, pdl[n].pid)
    PROVE  Recount /\ Balanced(c)
<1>1. Recount
    BY DEF Recount
<1>2. ASSUME NEW n \in Range(proc_data), NEW pid, RecordOK(n), pdl[n].pid = pid
      PROVE  /\ NotPassed(c, n)'
             /\ Credit(n)' = Credit(n) /\ Allocations(pid)' = Allocations(pid)
             /\ Due(c, pid)' = Due(c, pid)
    BY <1>2 DEF Credit, Allocations, Due, PendingFor
<1> QED BY <1>1, <1>2 DEF Balanced

(* Where walks go. *)
LEMMA ProcWalk ==
    ASSUME TracerInvariant
    PROVE  /\ First(proc_data) \in {0} \cup DOMAIN pdl
           /\ <<"proc", First(proc_data)>> \notin freed
           /\ \A n \in Range(proc_data) : n <= First(proc_data)
           /\ First(proc_data) # 0 => First(proc_data) \in Range(proc_data)
           /\ First(proc_data) = 0 <=> proc_data = <<>>
           /\ \A p \in {0} \cup DOMAIN pdl :
                /\ After(proc_data, p) \in {0} \cup DOMAIN pdl
                /\ <<"proc", After(proc_data, p)>> \notin freed
                /\ <<"proc", p>> \notin freed =>
                    \A n \in Range(proc_data) : n < p => n <= After(proc_data, p)
<1>0. /\ proc_data \in Seq(DOMAIN pdl) /\ DOMAIN pdl = 1 .. Len(pdl) /\ Len(pdl) \in Nat
      /\ Decreasing(proc_data) /\ Range(proc_data) \subseteq DOMAIN pdl
      /\ \A n \in Nat : <<"proc", n>> \in freed <=> n \in DOMAIN pdl /\ n \notin Range(proc_data)
    BY ListFacts
<1>1. proc_data \in Seq(Positive)
    BY <1>0 DEF Positive
<1>2. /\ First(proc_data) \in {0} \cup Range(proc_data)
      /\ First(proc_data) = 0 <=> proc_data = <<>>
      /\ \A n \in Range(proc_data) : n <= First(proc_data)
    BY <1>0, <1>1, FirstIsNewest
<1>3. <<"proc", 0>> \notin freed /\ \A n \in Range(proc_data) : <<"proc", n>> \notin freed
    BY <1>0
<1>4. ASSUME NEW p \in {0} \cup DOMAIN pdl
      PROVE  /\ After(proc_data, p) \in {0} \cup Range(proc_data)
             /\ <<"proc", p>> \notin freed =>
                 \A n \in Range(proc_data) : n < p => n <= After(proc_data, p)
    <2>1. p \in Nat
        BY <1>0
    <2>2. <<"proc", p>> \notin freed => p = 0 \/ p \in Range(proc_data)
        BY <1>0
    <2>3. p = 0 => \A n \in Range(proc_data) : ~(n < p)
        BY <1>0
    <2> QED BY <1>0, <1>1, <2>1, <2>2, <2>3, AfterIsNext
<1> QED BY <1>0, <1>2, <1>3, <1>4

LEMMA MemWalk ==
    ASSUME TracerInvariant
    PROVE  /\ First(mem_data) \in {0} \cup DOMAIN mdl
           /\ <<"mem", First(mem_data)>> \notin freed
           /\ \A n \in Range(mem_data) : n <= First(mem_data)
           /\ \A p \in {0} \cup DOMAIN mdl :
                /\ After(mem_data, p) \in {0} \cup DOMAIN mdl
                /\ After(mem_data, p) = 0 \/ After(mem_data, p) < p
                /\ <<"mem", After(mem_data, p)>> \notin freed
                /\ <<"mem", p>> \notin freed =>
                    \A n \in Range(mem_data) : n < p => n <= After(mem_data, p)
<1>0. /\ mem_data \in Seq(DOMAIN mdl) /\ DOMAIN mdl = 1 .. Len(mdl) /\ Len(mdl) \in Nat
      /\ Decreasing(mem_data) /\ Range(mem_data) \subseteq DOMAIN mdl
      /\ \A n \in Nat : <<"mem", n>> \in freed <=> n \in DOMAIN mdl /\ n \notin Range(mem_data)
    BY ListFacts
<1>1. mem_data \in Seq(Positive)
    BY <1>0 DEF Positive
<1>2. /\ First(mem_data) \in {0} \cup Range(mem_data)
      /\ \A n \in Range(mem_data) : n <= First(mem_data)
    BY <1>0, <1>1, FirstIsNewest
<1>3. <<"mem", 0>> \notin freed /\ \A n \in Range(mem_data) : <<"mem", n>> \notin freed
    BY <1>0
<1>4. ASSUME NEW p \in {0} \cup DOMAIN mdl
      PROVE  /\ After(mem_data, p) \in {0} \cup Range(mem_data)
             /\ After(mem_data, p) = 0 \/ After(mem_data, p) < p
             /\ <<"mem", p>> \notin freed =>
                 \A n \in Range(mem_data) : n < p => n <= After(mem_data, p)
    <2>1. p \in Nat
        BY <1>0
    <2>2. <<"mem", p>> \notin freed => p = 0 \/ p \in Range(mem_data)
        BY <1>0
    <2>3. p = 0 => \A n \in Range(mem_data) : ~(n < p)
        BY <1>0
    <2> QED BY <1>0, <1>1, <2>1, <2>2, <2>3, AfterIsNext
<1> QED BY <1>0, <1>2, <1>3, <1>4

(* A processor that was idle begins a handler, or a walk of the reader. *)
LEMMA IdleFields ==
    ASSUME TracerInvariant, NEW c \in Cpus, cpu[c].pc = "idle"
    PROVE  /\ cpu[c] = Idle /\ ~Exiting(c) /\ ~PendingIn(c)
           /\ \A d \in Cpus : cpu[d] \in Tasks
<1>1. cpu[c] = Idle
    BY DEF TracerInvariant, InvTasks, TaskOK
<1> QED BY <1>1 DEF Exiting, Phase, Nested, PendingIn, Idle, TracerInvariant, TypeOK

LEMMA UncleanList ==
    ASSUME pdl \in Seq(ProcNodes), NEW pid
    PROVE  /\ Unclean(pid) \in Seq(ProcNodes) /\ DOMAIN Unclean(pid) = DOMAIN pdl
           /\ Len(Unclean(pid)) = Len(pdl)
           /\ \A n \in DOMAIN pdl :
                LET m == Unclean(pid)[n] IN
                /\ m.pid = pdl[n].pid /\ m.base = pdl[n].base /\ m.count = pdl[n].count
                /\ m.clean => pdl[n].clean /\ pdl[n].pid # pid
<1>1. DOMAIN pdl = 1 .. Len(pdl) /\ Len(pdl) \in Nat /\ \A n \in DOMAIN pdl : pdl[n] \in ProcNodes
    OBVIOUS
<1>2. DOMAIN Unclean(pid) = DOMAIN pdl
    BY DEF Unclean
<1>3. ASSUME NEW n \in DOMAIN pdl
      PROVE  LET m == Unclean(pid)[n] IN
             /\ m \in ProcNodes
             /\ m.pid = pdl[n].pid /\ m.base = pdl[n].base /\ m.count = pdl[n].count
             /\ m.clean => pdl[n].clean /\ pdl[n].pid # pid
    BY <1>1 DEF Unclean, ProcNodes
<1>4. Unclean(pid) \in Seq(ProcNodes) /\ Len(Unclean(pid)) = Len(pdl)
    <2> DEFINE u == Unclean(pid)
    <2>1. u = [n \in 1 .. Len(pdl) |-> u[n]] /\ \A n \in 1 .. Len(pdl) : u[n] \in ProcNodes
        BY <1>1, <1>3 DEF Unclean
    <2> HIDE DEF u
    <2>2. u \in [1 .. Len(pdl) -> ProcNodes]
        BY <2>1
    <2> QED BY <1>1, <2>2 DEF u
<1> QED BY <1>2, <1>3, <1>4

(* Steps that go on with the removal their processor makes, or are made by  *)
(* a processor that makes none.                                             *)
SamePhase(c) ==
    /\ Phase(c)' = Phase(c) /\ cpu'[c].target = cpu[c].target
    /\ cpu'[c].w = cpu[c].w /\ cpu'[c].x = cpu[c].x
    /\ \A l \in {"proc_lock", "mem_lock_out"} : lock[l] = c => lock'[l] = c
NoRemoval(c) == ~Removing(c) /\ ~Removing(c)' /\ cpu'[c].target = 0

LEMMA PhaseKept ==
    ASSUME TracerInvariant, NEW c \in Cpus, SamePhase(c) \/ NoRemoval(c),
           UNCHANGED <<status, proc_data, mem_data, mdl, freed>>
    PROVE  /\ LocksOK(c)' /\ ExitOK(c)' /\ (Exiting(c)' => Exiting(c))
           /\ overlapped \/ PurgeOK(c)'
           /\ cpu[c].target \in {0, cpu'[c].target} \/ cpu[c].target \notin Range(proc_data)
<1>0. TaskOK(c) /\ LocksOK(c) /\ ExitOK(c) /\ (overlapped \/ PurgeOK(c))
    BY DEF TracerInvariant, InvTasks, InvLocks, InvExit, InvWalks, WalkOK
<1>1. CASE SamePhase(c)
    <2>1. Exiting(c)' = Exiting(c) /\ HoldsProc(c)' = HoldsProc(c) /\ Purging(c)' = Purging(c)
        BY <1>1 DEF SamePhase, Exiting, HoldsProc, Purging
    <2>2. Early' = Early
        BY DEF Early
    <2>3. LocksOK(c)'
        BY <1>0, <1>1, <2>1 DEF SamePhase, LocksOK
    <2>4. ExitOK(c)'
        BY <1>0, <1>1, <2>1, <2>2 DEF SamePhase, ExitOK
    <2> QED BY <1>0, <1>1, <2>1, <2>3, <2>4 DEF SamePhase, PurgeOK
<1>2. CASE NoRemoval(c)
    <2>1. cpu[c].target = 0
        BY <1>0, <1>2 DEF TaskOK, NoRemoval, Removing
    <2>2. LocksOK(c)' /\ ExitOK(c)' /\ ~Exiting(c)' /\ PurgeOK(c)'
        BY <1>2 DEF NoRemoval, Removing, OnTarget, LocksOK, ExitOK, Exiting, PurgeOK,
            HoldsProc, Purging
    <2> QED BY <2>1, <2>2
<1> QED BY <1>1, <1>2

Light(c) ==
    /\ OthersKept(c) /\ UNCHANGED <<status, registered, lists>>
    /\ lock' \in [Locks -> Cpus \cup {None}]
    /\ \A l \in {"proc_lock", "mem_lock_out"} : lock'[l] = lock[l] \/ lock[l] \in {None, c}
    /\ heap' \subseteq Addresses /\ calls' \in 0 .. MaxCalls
    /\ OnNodes(c)' /\ TaskOK(c)'
    /\ SamePhase(c) \/ NoRemoval(c)
    /\ cpu'[c].pid \in {None, cpu[c].pid} \/ \A d \in Cpus : cpu[d].pid # cpu'[c].pid
    /\ overlapped \/ StandsOK(c)'
    /\ \A n \in Range(proc_data) : RecordOK(n) =>
        /\ NotPassed(c, n)'
        /\ PendingFor(c, pdl[n].pid)' <=> PendingFor(c, pdl[n].pid)

LEMMA LightStep ==
    ASSUME TracerInvariant, NEW c \in Cpus, Light(c), status # "oops"
    PROVE  TracerInvariant'
<1>0. UNCHANGED <<status, registered, proc_data, mem_data, pdl, mdl, freed, overlapped>>
    BY DEF Light, lists
<1>1. /\ LocksOK(c)' /\ ExitOK(c)' /\ (Exiting(c)' => Exiting(c))
      /\ overlapped \/ PurgeOK(c)'
      /\ cpu[c].target \in {0, cpu'[c].target} \/ cpu[c].target \notin Range(proc_data)
    BY <1>0, PhaseKept DEF Light
<1>2. Recount /\ Balanced(c)
    BY <1>0, Unrecounted DEF Light
<1>3. pdl' \in Seq(ProcNodes) /\ DOMAIN pdl' = DOMAIN pdl
    BY <1>0 DEF TracerInvariant, TypeOK, ListTypes
<1>4. overlapped \/ WalkOK(c)'
    BY <1>1 DEF Light, WalkOK
<1>5. Quiet(c)
    BY <1>0, <1>1, <1>2, <1>3, <1>4 DEF Light, Quiet
<1> QED BY <1>5, QuietStep

(* The step of a task that is in a probe or in the module.                  *)
LEMMA TaskFacts ==
    ASSUME TracerInvariant, NEW c \in Cpus
    PROVE  /\ TypeOK /\ cpu[c] \in Tasks /\ TaskOK(c) /\ OnNodes(c) /\ LocksOK(c) /\ ExitOK(c)
           /\ overlapped \/ WalkOK(c)
           /\ lock \in [Locks -> Cpus \cup {None}] /\ heap \subseteq Addresses
           /\ calls \in 0 .. MaxCalls /\ MaxCalls \in Nat
           /\ None \notin Cpus \cup Pids \cup Addresses
    BY TracerAssumption DEF TracerInvariant, TypeOK, InvTasks, InvLocks, InvExit, InvWalks

LEMMA OopsStep == ASSUME TracerInvariant, Oops PROVE TracerInvariant'
<1> USE DEF lists
<1>1. UNCHANGED <<registered, lists, lock, cpu, heap, calls>> /\ status' = "oops"
    BY DEF Oops
<1>2. TypeOK'
    BY <1>1 DEF TracerInvariant, TypeOK, ListTypes, OnNodes
<1>3. InvLists' /\ InvLocks'
    BY <1>1 DEF TracerInvariant, InvLists, InvLocks, LocksOK, Decreasing, HoldsProc, Purging,
        Phase, Nested
<1>4. InvTasks' /\ InvWalks'
    BY ZenonT(60), <1>1 DEF TracerInvariant, InvTasks, TaskOK, InvWalks, WalkOK, StandsOK, PurgeOK,
        Phase, Nested, Purging, Removing, OnTarget
<1>5. InvInit' /\ InvExit' /\ InvAccounts'
    BY <1>1 DEF TracerInvariant, InvInit, InvExit, ExitOK, Exiting, Early, Phase, Nested,
        InvAccounts
<1> QED BY <1>2, <1>3, <1>4, <1>5 DEF TracerInvariant

LEMMA OpenStep ==
    ASSUME TracerInvariant, NEW c \in Cpus, tracer_proc_info_open(c)
    PROVE  TracerInvariant'
<1> DEFINE r == [cpu[c] EXCEPT !.pc = "show", !.p = First(proc_data)]
<1>0. /\ cpu[c].pc = "idle" /\ status # "oops"
      /\ UNCHANGED <<status, registered, lists, lock, heap>>
      /\ calls' = calls + 1 /\ calls < MaxCalls
    BY DEF tracer_proc_info_open, At
<1>1. cpu[c] = Idle /\ ~Exiting(c) /\ ~PendingIn(c)
    BY <1>0, IdleFields
<1>2. First(proc_data) \in Nat
    BY ProcWalk DEF TracerInvariant, TypeOK, ListTypes
<1>3. r \in Tasks
    BY ZenonT(60), <1>2, TaskFacts DEF Tasks, Labels
<1>4. OthersKept(c) /\ cpu'[c] = r
    <2>1. cpu' = [cpu EXCEPT ![c] = r]
        BY TaskFacts DEF tracer_proc_info_open, TypeOK
    <2> QED BY <1>3, <2>1, TaskFacts, TaskSet
<1>5. /\ cpu'[c].pc = "show" /\ cpu'[c].p = First(proc_data)
      /\ cpu'[c].pid = None /\ cpu'[c].addr = None /\ cpu'[c].target = 0
      /\ cpu'[c].q = 0 /\ cpu'[c].w = 0 /\ cpu'[c].x = 0
    BY <1>1, <1>3, <1>4, TaskFacts DEF Tasks, Idle
<1> HIDE DEF r
<1>6. Phase(c)' = "show" /\ Phase(c) = "idle"
    BY <1>0, <1>5 DEF Phase, Nested
<1>7. OnNodes(c)' /\ TaskOK(c)' /\ NoRemoval(c)
    BY <1>0, <1>5, <1>6, ProcWalk DEF OnNodes, TaskOK, Nested, OnTarget, Removing, NoRemoval, lists
<1>8. StandsOK(c)' /\ ~PendingIn(c)' /\ \A n : NotPassed(c, n)'
    BY <1>0, <1>5, ProcWalk DEF StandsOK, PendingIn, NotPassed, lists
<1>9. Light(c)
    BY <1>0, <1>1, <1>4, <1>5, <1>7, <1>8, TaskFacts DEF Light, PendingFor
<1> QED BY <1>0, <1>9, LightStep
(* A process begins a handler. *)
LEMMA BeginStep ==
    ASSUME TracerInvariant, NEW c \in Cpus, NEW pid \in Pids, Runs(c, pid), NEW r \in Tasks,
           cpu' = [cpu EXCEPT ![c] = r], UNCHANGED <<status, registered, lists, lock>>,
           heap' \subseteq Addresses,
           r.pid = pid, r.q = 0, r.target = 0, r.w = 0, r.x = 0,
           \/ /\ r.pc = "inc" /\ r.p = First(proc_data) /\ r.todo \in {<<"calls">>, <<"kmalloc">>}
              /\ r.ret = "idle" \/ (r.ret = "kmalloc_ret" /\ r.addr \in Addresses)
           \/ r.pc = "k_lock" /\ r.p = 0 /\ r.ret = "idle"
    PROVE  TracerInvariant'
<1>0. /\ cpu[c].pc = "idle" /\ status # "oops"
      /\ calls' = calls + 1 /\ calls < MaxCalls /\ \A d \in Cpus : cpu[d].pid # pid
    BY DEF Runs, At
<1>1. cpu[c] = Idle /\ ~Exiting(c) /\ ~PendingIn(c)
    BY <1>0, IdleFields
<1>2. OthersKept(c) /\ cpu'[c] = r
    BY TaskFacts, TaskSet
<1>3. Phase(c)' = r.ret /\ Phase(c) = "idle"
    BY <1>0, <1>2 DEF Phase, Nested
<1>4. OnNodes(c)' /\ NoRemoval(c)
    BY <1>2, <1>3, ProcWalk DEF OnNodes, OnTarget, Removing, NoRemoval, lists
<1>5. r.todo \in {<<"calls">>, <<"kmalloc">>} => r.todo \in Todos /\ r.todo # <<"kmalloc_mem">>
    BY DEF Todos
<1>6. TaskOK(c)'
    BY <1>0, <1>2, <1>3, <1>4, <1>5 DEF TaskOK, Nested, OnTarget, Removing, NoRemoval
<1>7. StandsOK(c)' /\ \A n \in Range(proc_data) : NotPassed(c, n)'
    BY <1>2, ProcWalk, ListFacts DEF StandsOK, NotPassed, lists
<1>8. ~PendingIn(c)'
    BY <1>2 DEF PendingIn
<1>9. Light(c)
    BY <1>0, <1>1, <1>2, <1>4, <1>6, <1>7, <1>8, TaskFacts DEF Light, PendingFor
<1> QED BY <1>0, <1>9, LightStep

LEMMA SomeTodos ==
    /\ \A t \in Todos : t \in Seq(Counters) /\ Len(t) \in {1, 2}
    /\ \A t \in Todos : Len(t) > 1 => t = <<"kfree_mem", "kfree">> /\ Tail(t) = <<"kfree">>
<1>1. Tail(<<"kfree_mem", "kfree">>) = <<"kfree">>
    OBVIOUS
<1> QED BY <1>1 DEF Todos, Counters, Probes

LEMMA IncrementTask ==
    ASSUME TracerInvariant, NEW r \in Tasks, NEW todo \in Todos, NEW ret \in Labels
    PROVE  Increment(r, todo, ret) \in Tasks
<1>1. First(proc_data) \in Nat
    BY ProcWalk DEF TracerInvariant, TypeOK, ListTypes
<1>2. todo \in Seq(Counters)
    BY SomeTodos
<1> QED BY <1>1, <1>2 DEF Increment, Tasks, Labels

LEMMA IdleIsTask == Idle \in Tasks
<1>1. <<>> \in Seq(Counters) /\ 0 \in Nat
    OBVIOUS
<1> QED BY <1>1 DEF Idle, Tasks, Labels

LEMMA SchedStep ==
    ASSUME TracerInvariant, NEW c \in Cpus, NEW pid \in Pids, sched_handler_pre(c, pid)
    PROVE  TracerInvariant'
<1> DEFINE i == [Idle EXCEPT !.pid = pid]
           r == Increment(i, <<"calls">>, "idle")
<1>1. i \in Tasks /\ i.pid = pid /\ i.target = 0 /\ i.w = 0 /\ i.x = 0
    BY IdleIsTask DEF Tasks, Idle
<1>2. <<"calls">> \in Todos /\ "idle" \in Labels
    BY DEF Todos, Labels
<1>3. /\ r \in Tasks /\ r.pid = pid /\ r.target = 0 /\ r.w = 0 /\ r.x = 0 /\ r.q = 0
      /\ r.pc = "inc" /\ r.p = First(proc_data) /\ r.todo = <<"calls">> /\ r.ret = "idle"
    <2> HIDE DEF i
    <2>1. r \in Tasks
        BY <1>1, <1>2, IncrementTask
    <2> QED BY <1>1, <2>1 DEF Increment, Tasks
<1>4. cpu' = [cpu EXCEPT ![c] = r]
    BY DEF sched_handler_pre
<1> HIDE DEF r, i
<1> QED BY ZenonT(60), <1>3, <1>4, TaskFacts, BeginStep DEF sched_handler_pre

LEMMA KmallocStep ==
    ASSUME TracerInvariant, NEW c \in Cpus, NEW pid \in Pids, kmalloc_entry_handler(c, pid)
    PROVE  TracerInvariant'
<1>1. PICK a \in Addresses :
        /\ cpu' = [cpu EXCEPT ![c] = Increment([Idle EXCEPT !.pid = pid, !.addr = a],
                                               <<"kmalloc">>, "kmalloc_ret")]
        /\ heap' = heap \cup {a}
    BY DEF kmalloc_entry_handler
<1> DEFINE i == [Idle EXCEPT !.pid = pid, !.addr = a]
           r == Increment(i, <<"kmalloc">>, "kmalloc_ret")
<1>2. i \in Tasks /\ i.pid = pid /\ i.target = 0 /\ i.w = 0 /\ i.x = 0 /\ i.addr = a
    BY IdleIsTask DEF Tasks, Idle
<1>3. <<"kmalloc">> \in Todos /\ "kmalloc_ret" \in Labels
    BY DEF Todos, Labels
<1>4. /\ r \in Tasks /\ r.pid = pid /\ r.target = 0 /\ r.w = 0 /\ r.x = 0 /\ r.q = 0
      /\ r.pc = "inc" /\ r.p = First(proc_data) /\ r.todo = <<"kmalloc">>
      /\ r.ret = "kmalloc_ret" /\ r.addr \in Addresses
    <2> HIDE DEF i
    <2>1. r \in Tasks
        BY <1>2, <1>3, IncrementTask
    <2> QED BY <1>2, <2>1 DEF Increment, Tasks
<1>5. cpu' = [cpu EXCEPT ![c] = r] /\ heap' \subseteq Addresses
    BY <1>1, TaskFacts
<1> HIDE DEF r, i
<1> QED BY <1>4, <1>5, TaskFacts, BeginStep DEF kmalloc_entry_handler

LEMMA KfreeStep ==
    ASSUME TracerInvariant, NEW c \in Cpus, NEW pid \in Pids, kfree_handler_pre(c, pid)
    PROVE  TracerInvariant'
<1>1. PICK a \in heap :
        /\ heap' = heap \ {a}
        /\ cpu' = [cpu EXCEPT ![c] = Kfree([Idle EXCEPT !.pid = pid], a, "idle")]
    BY DEF kfree_handler_pre
<1> DEFINE r == [Idle EXCEPT !.pid = pid, !.pc = "k_lock", !.addr = a, !.ret = "idle"]
<1>2. /\ r \in Tasks /\ r.pid = pid /\ r.target = 0 /\ r.w = 0 /\ r.x = 0 /\ r.q = 0
      /\ r.pc = "k_lock" /\ r.p = 0 /\ r.ret = "idle"
    BY IdleIsTask, TaskFacts DEF Tasks, Idle, Labels
<1>3. cpu' = [cpu EXCEPT ![c] = r] /\ heap' \subseteq Addresses
    BY <1>1, TaskFacts DEF kfree_handler_pre, Kfree, Idle
<1> HIDE DEF r
<1> QED BY <1>2, <1>3, TaskFacts, BeginStep DEF kfree_handler_pre
-----------------------------------------------------------------------------
(* The counting probes. *)

LEMMA IncrementFields ==
    ASSUME NEW r \in Tasks, NEW todo, NEW ret
    PROVE  LET t == Increment(r, todo, ret) IN
           /\ t.pc = "inc" /\ t.p = First(proc_data) /\ t.q = 0 /\ t.todo = todo /\ t.ret = ret
           /\ t.pid = r.pid /\ t.addr = r.addr /\ t.target = r.target /\ t.w = r.w /\ t.x = r.x
    BY DEF Increment, Tasks

LEMMA ResumeFields ==
    ASSUME NEW r \in Tasks, NEW ret \in Labels
    PROVE  LET t == [r EXCEPT !.pc = ret, !.todo = <<>>, !.p = 0] IN
           /\ t \in Tasks /\ t.pc = ret /\ t.p = 0 /\ t.q = r.q
           /\ t.pid = r.pid /\ t.addr = r.addr /\ t.target = r.target /\ t.w = r.w /\ t.x = r.x
<1>1. <<>> \in Seq(Counters) /\ 0 \in Nat
    OBVIOUS
<1> QED BY <1>1 DEF Tasks

(* What follows when a counter has been dealt with.                         *)
LEMMA NextTask ==
    ASSUME TracerInvariant, NEW c \in Cpus, cpu[c].pc = "inc",
           cpu' = [cpu EXCEPT ![c] = NextIncrement(cpu[c])],
           UNCHANGED <<registered, proc_data, mdl, freed, lock>>, DOMAIN pdl' = DOMAIN pdl
    PROVE  /\ OthersKept(c) /\ OnNodes(c)' /\ TaskOK(c)' /\ StandsOK(c)'
           /\ SamePhase(c) \/ NoRemoval(c)
           /\ cpu'[c].pid \in {None, cpu[c].pid}
           /\ PendingIn(c)' <=> cpu[c].todo = <<"kmalloc_mem">>
           /\ PendingIn(c)' => cpu'[c].pid = cpu[c].pid
           /\ \A n \in Range(proc_data) : n <= cpu'[c].p \/ cpu'[c].pc # "inc"
<1> DEFINE r == cpu[c]
<1>0. /\ r \in Tasks /\ TaskOK(c) /\ OnNodes(c) /\ r.pc = "inc" /\ Phase(c) = r.ret
      /\ r.todo \in Todos /\ (r.todo = <<"kmalloc_mem">> <=> r.ret = "save")
      /\ r.ret \in {"idle", "kmalloc_ret", "save", "purge_next", "removed", "destroy_proc"}
    BY TaskFacts DEF TaskOK, Nested, Phase
<1> DEFINE Result ==
        /\ OthersKept(c) /\ OnNodes(c)' /\ TaskOK(c)' /\ StandsOK(c)'
        /\ SamePhase(c) \/ NoRemoval(c)
        /\ cpu'[c].pid \in {None, r.pid}
        /\ PendingIn(c)' <=> r.todo = <<"kmalloc_mem">>
        /\ PendingIn(c)' => cpu'[c].pid = r.pid
        /\ \A n \in Range(proc_data) : n <= cpu'[c].p \/ cpu'[c].pc # "inc"
<1>4. Len(r.todo) \in {1, 2}
    <2> HIDE DEF r
    <2> QED BY <1>0, SomeTodos
<1>1. CASE Len(r.todo) > 1
    <2> DEFINE t == Increment(r, <<"kfree">>, r.ret)
    <2>1. r.todo = <<"kfree_mem", "kfree">> /\ Tail(r.todo) = <<"kfree">>
        <3> HIDE DEF r
        <3> QED BY <1>0, <1>1, SomeTodos
    <2>2. <<"kfree">> \in Todos /\ r.ret \in Labels
        BY <1>0 DEF Todos, Tasks
    <2>3. t \in Tasks
        BY <1>0, <2>2, IncrementTask
    <2>4. OthersKept(c) /\ cpu'[c] = t
        BY <1>1, <2>1, <2>3, TaskFacts, TaskSet DEF NextIncrement
    <2>5. /\ cpu'[c].pc = "inc" /\ cpu'[c].p = First(proc_data) /\ cpu'[c].q = 0
          /\ cpu'[c].todo = <<"kfree">> /\ cpu'[c].ret = r.ret
          /\ cpu'[c].pid = r.pid /\ cpu'[c].addr = r.addr /\ cpu'[c].target = r.target
          /\ cpu'[c].w = r.w /\ cpu'[c].x = r.x
        BY <1>0, <2>4, IncrementFields
    <2> HIDE DEF t
    <2>6. Phase(c)' = r.ret /\ OnNodes(c)' /\ StandsOK(c)' /\ SamePhase(c)
        BY <1>0, <2>5, ProcWalk DEF Phase, Nested, OnNodes, StandsOK, SamePhase
    <2>7. r.ret # "save" /\ <<"kfree">> # <<"kmalloc_mem">>
        BY <1>0, <2>1
    <2>8. TaskOK(c)'
        BY <1>0, <2>2, <2>5, <2>6, <2>7 DEF TaskOK, Nested, Removing, OnTarget
    <2>9. ~PendingIn(c)' /\ r.todo # <<"kmalloc_mem">>
        BY <2>1, <2>5 DEF PendingIn
    <2> QED BY <2>4, <2>5, <2>6, <2>8, <2>9, ProcWalk
<1>2. CASE Len(r.todo) <= 1 /\ r.ret = "idle"
    <2>0. NextIncrement(r) = Idle
        BY <1>2, <1>4 DEF NextIncrement
    <2>1. OthersKept(c) /\ cpu'[c] = Idle
        BY <2>0, IdleIsTask, TaskFacts, TaskSet
    <2>2. Phase(c)' = "idle" /\ cpu'[c].pc = "idle" /\ cpu'[c].target = 0 /\ cpu'[c].pid = None
        BY <2>1 DEF Phase, Nested, Idle
    <2>3. OnNodes(c)' /\ TaskOK(c)' /\ NoRemoval(c) /\ StandsOK(c)' /\ ~PendingIn(c)'
        BY <1>0, <1>2, <2>1, <2>2 DEF OnNodes, TaskOK, Nested, Removing, OnTarget, NoRemoval,
            StandsOK, PendingIn, Idle
    <2>4. r.todo # <<"kmalloc_mem">>
        BY <1>0, <1>2
    <2> QED BY <2>1, <2>2, <2>3, <2>4
<1>3. CASE Len(r.todo) <= 1 /\ r.ret # "idle"
    <2> DEFINE t == [r EXCEPT !.pc = r.ret, !.todo = <<>>, !.p = 0]
    <2>1. t \in Tasks
        BY <1>0, ResumeFields DEF Tasks
    <2>0. NextIncrement(r) = t
        BY <1>3, <1>4 DEF NextIncrement
    <2>2. OthersKept(c) /\ cpu'[c] = t
        BY <2>0, <2>1, TaskFacts, TaskSet
    <2>3. /\ cpu'[c].pc = r.ret /\ cpu'[c].p = 0 /\ cpu'[c].q = r.q
          /\ cpu'[c].pid = r.pid /\ cpu'[c].addr = r.addr /\ cpu'[c].target = r.target
          /\ cpu'[c].w = r.w /\ cpu'[c].x = r.x
        <3>1. r.ret \in Labels
            BY <1>0 DEF Tasks
        <3>2. /\ t.pc = r.ret /\ t.p = 0 /\ t.q = r.q /\ t.pid = r.pid /\ t.addr = r.addr
              /\ t.target = r.target /\ t.w = r.w /\ t.x = r.x
            BY ZenonT(60), <1>0, <3>1, ResumeFields
        <3> HIDE DEF t
        <3> QED BY <2>2, <3>2
    <2> HIDE DEF t
    <2>4. Phase(c)' = r.ret /\ ~Nested(c)'
        BY <1>0, <2>3 DEF Phase, Nested
    <2>5. OnNodes(c)' /\ StandsOK(c)' /\ SamePhase(c)
        BY <1>0, <1>3, <2>3, <2>4 DEF OnNodes, StandsOK, SamePhase
    <2>6. TaskOK(c)'
        BY <1>0, <1>3, <2>3, <2>4 DEF TaskOK, Removing, OnTarget, Nested
    <2>7. (PendingIn(c)' <=> r.todo = <<"kmalloc_mem">>) /\ cpu'[c].pc # "inc"
        BY <1>0, <2>3 DEF PendingIn
    <2> QED BY <2>2, <2>3, <2>5, <2>6, <2>7
<1> QED BY <1>1, <1>2, <1>3, <1>4

(* The walk of a probe goes on: it has not passed the record it looks for.  *)
LEMMA IncrementMiss ==
    ASSUME TracerInvariant, NEW c \in Cpus, At(c, "inc"),
           cpu[c].p # 0, <<"proc", cpu[c].p>> \notin freed, pdl[cpu[c].p].pid # cpu[c].pid,
           cpu' = [cpu EXCEPT ![c].p = After(proc_data, cpu[c].p)],
           UNCHANGED <<status, registered, lists, lock, heap, calls>>
    PROVE  TracerInvariant'
<1> DEFINE r == cpu[c]
           next == After(proc_data, r.p)
           t == [r EXCEPT !.p = next]
<1>0. /\ r \in Tasks /\ TaskOK(c) /\ OnNodes(c) /\ r.pc = "inc" /\ r.p \in DOMAIN pdl
    BY TaskFacts DEF At, OnNodes
<1>1. /\ next \in {0} \cup DOMAIN pdl /\ next \in Nat /\ <<"proc", next>> \notin freed
      /\ \A n \in Range(proc_data) : n < r.p => n <= next
    BY <1>0, ProcWalk, ListFacts
<1>2. t \in Tasks
    BY <1>0, <1>1 DEF Tasks
<1>3. OthersKept(c) /\ cpu'[c] = t
    BY <1>2, TaskFacts, TaskSet
<1>4. /\ cpu'[c].pc = "inc" /\ cpu'[c].p = next /\ cpu'[c].q = r.q
      /\ cpu'[c].pid = r.pid /\ cpu'[c].addr = r.addr /\ cpu'[c].target = r.target
      /\ cpu'[c].w = r.w /\ cpu'[c].x = r.x /\ cpu'[c].todo = r.todo /\ cpu'[c].ret = r.ret
    BY <1>0, <1>3 DEF Tasks
<1> HIDE DEF t, next
<1>5. Phase(c)' = Phase(c) /\ Nested(c)' = Nested(c) /\ PendingIn(c)' = PendingIn(c)
    BY <1>0, <1>4 DEF Phase, Nested, PendingIn
<1>6. OnNodes(c)' /\ TaskOK(c)' /\ StandsOK(c)' /\ SamePhase(c)
    BY <1>0, <1>1, <1>4, <1>5 DEF OnNodes, TaskOK, Removing, OnTarget, StandsOK, SamePhase, lists
<1>7. \A n \in Range(proc_data) : RecordOK(n) => NotPassed(c, n)'
    <2>1. ASSUME NEW n \in Range(proc_data), RecordOK(n), cpu'[c].pid = pdl[n].pid
          PROVE  next >= n
        <3>1. r.p >= n /\ r.p # n /\ n \in Nat /\ r.p \in Nat
            BY <1>0, <1>4, <2>1, ListFacts DEF RecordOK, NotPassed
        <3> QED BY <1>1, <3>1
    <2> QED BY <1>4, <2>1 DEF NotPassed, lists
<1>8. Light(c)
    BY <1>3, <1>4, <1>5, <1>6, <1>7, TaskFacts DEF Light, PendingFor, lists
<1> QED BY <1>8, LightStep DEF At

(* The walk ends without the record: the process has no clean one.          *)
LEMMA IncrementEnd ==
    ASSUME TracerInvariant, NEW c \in Cpus, At(c, "inc"), cpu[c].p = 0,
           cpu' = [cpu EXCEPT ![c] = NextIncrement(cpu[c])],
           UNCHANGED <<status, registered, lists, lock, heap, calls>>
    PROVE  TracerInvariant'
<1>0. UNCHANGED <<registered, proc_data, pdl, mdl, freed, lock>> /\ cpu[c].pc = "inc"
    BY DEF At, lists
<1>1. /\ OthersKept(c) /\ OnNodes(c)' /\ TaskOK(c)' /\ StandsOK(c)'
      /\ SamePhase(c) \/ NoRemoval(c)
      /\ cpu'[c].pid \in {None, cpu[c].pid}
      /\ \A n \in Range(proc_data) : n <= cpu'[c].p \/ cpu'[c].pc # "inc"
    BY <1>0, NextTask
<1>2. ASSUME NEW n \in Range(proc_data), RecordOK(n)
      PROVE  pdl[n].pid # cpu[c].pid /\ pdl[n].pid # None
    <2>0. /\ DOMAIN pdl = 1 .. Len(pdl) /\ Len(pdl) \in Nat /\ n \in DOMAIN pdl
          /\ <<"proc", 0>> \in freed => 0 \in DOMAIN pdl
        <3>1. 0 \in Nat
            OBVIOUS
        <3> QED BY <3>1, ListFacts
    <2>1. /\ <<"proc", 0>> \notin freed /\ ~(0 >= n) /\ pdl[n] \in ProcNodes
        BY <2>0, ListFacts
    <2>2. pdl[n].pid # None
        BY <2>1, TaskFacts DEF ProcNodes
    <2> QED BY <1>0, <1>2, <2>1, <2>2 DEF RecordOK, NotPassed
<1>3. ASSUME NEW n \in Range(proc_data), RecordOK(n)
      PROVE  /\ NotPassed(c, n)'
             /\ PendingFor(c, pdl[n].pid)' <=> PendingFor(c, pdl[n].pid)
    BY <1>0, <1>1, <1>2, <1>3 DEF NotPassed, PendingFor
<1>4. Light(c)
    BY <1>1, <1>3, TaskFacts DEF Light, lists
<1> QED BY <1>4, LightStep DEF At
LEMMA CountOne ==
    ASSUME NEW node \in ProcNodes, NEW k \in Counters
    PROVE  LET n == [node EXCEPT !.count[k] = @ + 1] IN
           /\ n \in ProcNodes /\ n.pid = node.pid /\ n.base = node.base /\ n.clean = node.clean
           /\ n.count[k] = node.count[k] + 1
           /\ \A j \in Counters : j # k => n.count[j] = node.count[j]
<1> DEFINE count == [node.count EXCEPT ![k] = @ + 1]
           n == [node EXCEPT !.count[k] = @ + 1]
<1>1. node.count \in [Counters -> Nat]
    BY DEF ProcNodes
<1>2. count \in [Counters -> Nat] /\ count[k] = node.count[k] + 1
    BY <1>1
<1>3. \A j \in Counters : j # k => count[j] = node.count[j]
    BY <1>1
<1>4. n = [node EXCEPT !.count = count]
    OBVIOUS
<1> HIDE DEF count, n
<1>5. n \in ProcNodes /\ n.pid = node.pid /\ n.base = node.base /\ n.clean = node.clean
      /\ n.count = count
    BY <1>2, <1>4 DEF ProcNodes
<1> QED BY <1>2, <1>3, <1>5 DEF n

(* The probe has found its record and counts: what the process owed the     *)
(* counters before the step and owes them after it makes up for it.         *)
LEMMA IncrementHit ==
    ASSUME TracerInvariant, NEW c \in Cpus, At(c, "inc"),
           cpu[c].p # 0, <<"proc", cpu[c].p>> \notin freed, pdl[cpu[c].p].pid = cpu[c].pid,
           pdl' = [pdl EXCEPT ![cpu[c].p].count[Head(cpu[c].todo)] = @ + 1],
           cpu' = [cpu EXCEPT ![c] = NextIncrement(cpu[c])],
           UNCHANGED <<status, registered, proc_data, mem_data, mdl, freed, overlapped, lock,
                       heap, calls>>
    PROVE  TracerInvariant'
<1> DEFINE r == cpu[c]
           k == Head(r.todo)
<1>0. /\ r \in Tasks /\ TaskOK(c) /\ OnNodes(c) /\ r.pc = "inc" /\ r.p \in DOMAIN pdl
      /\ r.p \in Range(proc_data) /\ r.todo \in Todos
    <2>1. cpu[c] \in Tasks /\ TaskOK(c) /\ OnNodes(c) /\ cpu[c].pc = "inc" /\ cpu[c].p \in DOMAIN pdl
        BY TaskFacts DEF At, OnNodes
    <2> QED BY <2>1, ListFacts DEF TaskOK, Tasks
<1>1. k \in Counters /\ (k = "kmalloc_mem" <=> r.todo = <<"kmalloc_mem">>)
    <2> SUFFICES ASSUME NEW t \in Todos
                 PROVE  Head(t) \in Counters /\ (Head(t) = "kmalloc_mem" <=> t = <<"kmalloc_mem">>)
        BY <1>0
    <2> QED BY DEF Todos, Counters, Probes
<1> DEFINE node == [pdl[r.p] EXCEPT !.count[k] = @ + 1]
<1>2. pdl \in Seq(ProcNodes) /\ pdl[r.p] \in ProcNodes /\ pdl' = [pdl EXCEPT ![r.p] = node]
    BY <1>0, ListFacts DEF TracerInvariant, TypeOK, ListTypes
<1>3. /\ node \in ProcNodes /\ node.pid = pdl[r.p].pid /\ node.base = pdl[r.p].base
      /\ node.clean = pdl[r.p].clean /\ node.count[k] = pdl[r.p].count[k] + 1
      /\ \A j \in Counters : j # k => node.count[j] = pdl[r.p].count[j]
    <2> HIDE DEF k, r
    <2> QED BY ZenonT(60), <1>1, <1>2, CountOne
<1> HIDE DEF node
<1>4. /\ pdl' \in Seq(ProcNodes) /\ DOMAIN pdl' = DOMAIN pdl /\ pdl'[r.p] = node
      /\ \A n \in DOMAIN pdl : n # r.p => pdl'[n] = pdl[n]
    <2>1. DOMAIN pdl = 1 .. Len(pdl) /\ r.p \in DOMAIN pdl
        BY <1>0, ListFacts
    <2> HIDE DEF r
    <2>2. /\ pdl' \in Seq(ProcNodes) /\ DOMAIN pdl' = DOMAIN pdl
          /\ \A n \in 1 .. Len(pdl) : pdl'[n] = IF n = r.p THEN node ELSE pdl[n]
        <3>1. node \in ProcNodes /\ pdl \in Seq(ProcNodes) /\ r.p \in 1 .. Len(pdl)
            BY <1>2, <1>3, <2>1
        <3>2. /\ [pdl EXCEPT ![r.p] = node] \in Seq(ProcNodes)
              /\ \A n \in 1 .. Len(pdl) :
                    [pdl EXCEPT ![r.p] = node][n] = IF n = r.p THEN node ELSE pdl[n]
            BY <3>1, ExceptSeq
        <3> QED BY <1>2, <3>2
    <2> QED BY <2>1, <2>2
<1>5. /\ OthersKept(c) /\ OnNodes(c)' /\ TaskOK(c)' /\ StandsOK(c)'
      /\ SamePhase(c) \/ NoRemoval(c)
      /\ cpu'[c].pid \in {None, r.pid}
      /\ PendingIn(c)' <=> r.todo = <<"kmalloc_mem">>
      /\ PendingIn(c)' => cpu'[c].pid = r.pid
      /\ \A n \in Range(proc_data) : n <= cpu'[c].p \/ cpu'[c].pc # "inc"
    BY <1>0, <1>4, NextTask
<1>6. Recount
    BY <1>3, <1>4 DEF Recount
<1>7. PendingIn(c) <=> k = "kfree_mem"
    BY <1>0 DEF PendingIn
<1>8. Balanced(c)
    <2> SUFFICES ASSUME NEW n \in Range(proc_data), NEW pid \in Pids, RecordOK(n),
                        pdl[n].pid = pid
                 PROVE  /\ NotPassed(c, n)'
                        /\ Credit(n)' + Allocations(pid) + Due(c, pid)
                            = Credit(n) + Allocations(pid)' + Due(c, pid)'
        BY DEF Balanced
    <2>0. n \in DOMAIN pdl /\ pdl[n] \in ProcNodes /\ pid # None
        BY ListFacts, TaskFacts
    <2>1. NotPassed(c, n)'
        BY <1>5 DEF NotPassed
    <2>2. Allocations(pid)' = Allocations(pid) /\ Allocations(pid) \in Nat
        <3>1. ListTypes /\ ListTypes'
            BY <1>4 DEF TracerInvariant, TypeOK, ListTypes
        <3> QED BY <3>1, AllocationsAreCounted DEF Allocations
    <2>3. Credit(n) \in Int
        BY <2>0 DEF Credit, ProcNodes, Counters, Probes
    <2>4. CASE pid = r.pid
        <3>1. n = r.p
            BY <1>0, <2>4 DEF RecordOK
        <3>2. /\ k = "kmalloc_mem" => Credit(n)' = Credit(n) + 1
              /\ k = "kfree_mem" => Credit(n)' = Credit(n) - 1
              /\ k \notin {"kmalloc_mem", "kfree_mem"} => Credit(n)' = Credit(n)
            <4>1. /\ {"kmalloc_mem", "kfree_mem"} \subseteq Counters
                  /\ \A j \in Counters : pdl[n].count[j] \in Nat
                BY <2>0 DEF ProcNodes, Counters
            <4>2. Credit(n)' = node.count["kmalloc_mem"] - node.count["kfree_mem"]
                BY <1>4, <3>1 DEF Credit
            <4>3. Credit(n) = pdl[n].count["kmalloc_mem"] - pdl[n].count["kfree_mem"]
                BY DEF Credit
            <4>4. /\ node.count[k] = pdl[n].count[k] + 1
                  /\ \A j \in Counters : j # k => node.count[j] = pdl[n].count[j]
                BY <1>3, <3>1
            <4> HIDE DEF k
            <4>5. CASE k = "kmalloc_mem"
                BY <4>1, <4>2, <4>3, <4>4, <4>5
            <4>6. CASE k = "kfree_mem"
                BY <4>1, <4>2, <4>3, <4>4, <4>6
            <4> QED BY <4>1, <4>2, <4>3, <4>4, <4>5, <4>6
        <3>3. Due(c, pid) = IF k = "kfree_mem" THEN 1 ELSE 0
            BY <1>7, <2>4 DEF Due, PendingFor
        <3>4. Due(c, pid)' = IF k = "kmalloc_mem" THEN 1 ELSE 0
            BY <1>1, <1>5, <2>4 DEF Due, PendingFor
        <3> QED BY <2>1, <2>2, <2>3, <3>2, <3>3, <3>4
    <2>5. CASE pid # r.pid
        <3>1. n # r.p
            BY <2>5
        <3>2. Credit(n)' = Credit(n)
            BY <1>4, <2>0, <3>1 DEF Credit
        <3>3. Due(c, pid) = 0 /\ Due(c, pid)' = 0
            BY <1>5, <2>0, <2>5 DEF Due, PendingFor
        <3> QED BY <2>1, <2>2, <2>3, <3>2, <3>3
    <2> QED BY <2>4, <2>5
<1>9. /\ LocksOK(c)' /\ ExitOK(c)' /\ (Exiting(c)' => Exiting(c))
      /\ overlapped \/ PurgeOK(c)'
      /\ cpu[c].target \in {0, cpu'[c].target} \/ cpu[c].target \notin Range(proc_data)
    BY <1>5, PhaseKept
<1>10. Quiet(c)
    BY <1>4, <1>5, <1>6, <1>8, <1>9, TaskFacts DEF Quiet, WalkOK
<1> QED BY <1>10, QuietStep DEF At

LEMMA IncrementStep ==
    ASSUME TracerInvariant, NEW c \in Cpus, increment_func_call(c)
    PROVE  TracerInvariant'
<1>1. CASE Oops
    BY <1>1, OopsStep
<1>2. CASE ~Oops
    BY <1>2, IncrementMiss, IncrementHit, IncrementEnd DEF increment_func_call
<1> QED BY <1>1, <1>2

(* The reader walks on, or has shown the last process.                      *)
LEMMA ShowStep ==
    ASSUME TracerInvariant, NEW c \in Cpus, tracer_proc_info(c)
    PROVE  TracerInvariant'
<1> DEFINE p == cpu[c].p
           next == After(proc_data, p)
           t == IF p = 0 THEN Idle ELSE [cpu[c] EXCEPT !.p = next]
<1>1. CASE Oops
    BY <1>1, OopsStep
<1>2. CASE ~Oops
    <2>0. /\ cpu[c] \in Tasks /\ TaskOK(c) /\ OnNodes(c) /\ cpu[c].pc = "show"
          /\ p \in {0} \cup DOMAIN pdl /\ status # "oops"
          /\ UNCHANGED <<status, registered, lists, lock, heap, calls>>
        BY <1>2, TaskFacts DEF tracer_proc_info, At, OnNodes
    <2>1. next \in {0} \cup DOMAIN pdl /\ next \in Nat /\ <<"proc", next>> \notin freed
        <3> HIDE DEF p
        <3>1. next \in {0} \cup DOMAIN pdl /\ <<"proc", next>> \notin freed
            BY <2>0, ProcWalk
        <3> QED BY <3>1, ListFacts
    <2>2. t \in Tasks
        <3>1. [cpu[c] EXCEPT !.p = next] \in Tasks
            BY <2>0, <2>1 DEF Tasks
        <3> QED BY <3>1, IdleIsTask
    <2>3. OthersKept(c) /\ cpu'[c] = t
        <3>1. cpu' = [cpu EXCEPT ![c] = t]
            BY <1>2, TaskFacts DEF tracer_proc_info, Return, TypeOK
        <3> QED BY <2>2, <3>1, TaskFacts, TaskSet
    <2>4. /\ cpu'[c] = Idle \/ (/\ cpu'[c].pc = "show" /\ cpu'[c].p = next /\ cpu'[c].q = cpu[c].q
                                /\ cpu'[c].w = cpu[c].w /\ cpu'[c].x = cpu[c].x)
          /\ cpu'[c].target = 0 /\ cpu'[c].pid \in {None, cpu[c].pid}
          /\ Phase(c)' \in {"idle", "show"} /\ Phase(c) = "show"
        BY <2>0, <2>1, <2>3 DEF Tasks, Idle, Phase, Nested, TaskOK, OnTarget
    <2> HIDE DEF t, next
    <2>5. OnNodes(c)' /\ TaskOK(c)' /\ StandsOK(c)' /\ NoRemoval(c)
        BY <2>0, <2>1, <2>4 DEF OnNodes, TaskOK, Nested, Removing, OnTarget, NoRemoval, StandsOK,
            Idle, lists
    <2>6. ~PendingIn(c) /\ ~PendingIn(c)' /\ \A n : NotPassed(c, n)'
        BY <2>0, <2>4 DEF PendingIn, NotPassed, Idle
    <2>7. Light(c)
        BY <2>0, <2>3, <2>4, <2>5, <2>6, TaskFacts DEF Light, PendingFor
    <2> QED BY <2>0, <2>7, LightStep
<1> QED BY <1>1, <1>2
-----------------------------------------------------------------------------
(* The probes of kmalloc and kfree.                                         *)

LEMMA KmallocRetStep ==
    ASSUME TracerInvariant, NEW c \in Cpus, kmalloc_handler(c)
    PROVE  TracerInvariant'
<1> DEFINE r == cpu[c]
           t == IF Hits("kmalloc") THEN Increment(r, <<"kmalloc_mem">>, "save") ELSE Idle
<1>0. /\ r \in Tasks /\ TaskOK(c) /\ r.pc = "kmalloc_ret" /\ Phase(c) = "kmalloc_ret"
      /\ r.addr \in Addresses /\ r.pid \in Pids /\ r.target = 0 /\ status # "oops"
      /\ UNCHANGED <<status, registered, lists, lock, heap, calls>>
    BY TaskFacts DEF kmalloc_handler, At, TaskOK, Phase, Nested, OnTarget
<1>1. <<"kmalloc_mem">> \in Todos /\ "save" \in Labels
    BY DEF Todos, Labels
<1>2. Increment(r, <<"kmalloc_mem">>, "save") \in Tasks /\ t \in Tasks
    BY <1>0, <1>1, IncrementTask, IdleIsTask
<1>3. OthersKept(c) /\ cpu'[c] = t
    <2>1. cpu' = [cpu EXCEPT ![c] = t]
        BY DEF kmalloc_handler, Return
    <2> QED BY <1>2, <2>1, TaskFacts, TaskSet
<1>4. \/ cpu'[c] = Idle
      \/ /\ cpu'[c].pc = "inc" /\ cpu'[c].p = First(proc_data) /\ cpu'[c].q = 0
         /\ cpu'[c].todo = <<"kmalloc_mem">> /\ cpu'[c].ret = "save"
         /\ cpu'[c].pid = r.pid /\ cpu'[c].addr = r.addr /\ cpu'[c].target = 0
         /\ cpu'[c].w = r.w /\ cpu'[c].x = r.x /\ "kmalloc" \in registered
    BY <1>0, <1>3, IncrementFields DEF Hits
<1> HIDE DEF t
<1>5. CASE cpu'[c] = Idle
    <2>1. Phase(c)' = "idle" /\ cpu'[c].pc = "idle" /\ cpu'[c].target = 0 /\ cpu'[c].pid = None
        BY <1>5 DEF Phase, Nested, Idle
    <2>2. OnNodes(c)' /\ TaskOK(c)' /\ NoRemoval(c) /\ StandsOK(c)' /\ ~PendingIn(c)'
        BY <1>0, <1>5, <2>1 DEF OnNodes, TaskOK, Nested, Removing, OnTarget, NoRemoval,
            StandsOK, PendingIn, Idle
    <2>3. ~PendingIn(c) /\ \A n : NotPassed(c, n)'
        BY <1>0, <2>1 DEF PendingIn, NotPassed
    <2>4. Light(c)
        BY <1>0, <1>3, <2>1, <2>2, <2>3, TaskFacts DEF Light, PendingFor
    <2> QED BY <1>0, <2>4, LightStep
<1>6. CASE cpu'[c] # Idle
    <2>1. Phase(c)' = "save"
        BY <1>4, <1>6 DEF Phase, Nested
    <2>2. OnNodes(c)' /\ NoRemoval(c) /\ StandsOK(c)'
        BY <1>0, <1>4, <1>6, <2>1, TaskFacts, ProcWalk DEF OnNodes, Removing, OnTarget, NoRemoval,
            StandsOK, lists
    <2>3. TaskOK(c)'
        BY <1>0, <1>1, <1>4, <1>6, <2>1 DEF TaskOK, Nested, Removing, OnTarget
    <2>4. ~PendingIn(c) /\ ~PendingIn(c)' /\ \A n \in Range(proc_data) : NotPassed(c, n)'
        BY <1>0, <1>4, <1>6, ProcWalk, ListFacts DEF PendingIn, NotPassed
    <2>5. Light(c)
        BY <1>0, <1>3, <1>4, <1>6, <2>2, <2>3, <2>4, TaskFacts DEF Light, PendingFor
    <2> QED BY <1>0, <2>5, LightStep
<1> QED BY <1>5, <1>6

(* A record whose process could not note its memory is clean no more.       *)
LEMMA SaveFailsStep ==
    ASSUME TracerInvariant, NEW c \in Cpus, save_mem_data_fails(c)
    PROVE  TracerInvariant'
<1>0. /\ cpu[c] \in Tasks /\ TaskOK(c) /\ cpu[c].pc = "save" /\ status # "oops"
      /\ cpu[c].pid \in Pids /\ Phase(c) = "save" /\ pdl' = Unclean(cpu[c].pid)
      /\ UNCHANGED <<status, registered, proc_data, mem_data, mdl, freed, overlapped, lock,
                     heap, calls>>
    BY TaskFacts DEF save_mem_data_fails, At, TaskOK, Phase, Nested
<1>1. OthersKept(c) /\ cpu'[c] = Idle
    BY IdleIsTask, TaskFacts, TaskSet DEF save_mem_data_fails, Return
<1>2. Phase(c)' = "idle" /\ cpu'[c].pc = "idle" /\ cpu'[c].target = 0 /\ cpu'[c].pid = None
    BY <1>1 DEF Phase, Nested, Idle
<1>3. OnNodes(c)' /\ TaskOK(c)' /\ NoRemoval(c) /\ StandsOK(c)' /\ ~PendingIn(c)'
    BY <1>0, <1>1, <1>2 DEF OnNodes, TaskOK, Nested, Removing, OnTarget, NoRemoval,
        StandsOK, PendingIn, Idle
<1>4. /\ pdl' \in Seq(ProcNodes) /\ DOMAIN pdl' = DOMAIN pdl
      /\ \A n \in DOMAIN pdl :
            /\ pdl'[n].pid = pdl[n].pid /\ pdl'[n].base = pdl[n].base
            /\ pdl'[n].count = pdl[n].count
            /\ pdl'[n].clean => pdl[n].clean /\ pdl[n].pid # cpu[c].pid
    <2>1. pdl \in Seq(ProcNodes)
        BY DEF TracerInvariant, TypeOK, ListTypes
    <2> QED BY <1>0, <2>1, UncleanList
<1>5. Recount
    BY <1>0, <1>4 DEF Recount
<1>6. Balanced(c)
    <2> SUFFICES ASSUME NEW n \in Range(proc_data), NEW pid \in Pids, pdl'[n].clean,
                        pdl[n].pid = pid
                 PROVE  /\ NotPassed(c, n)'
                        /\ Credit(n)' + Allocations(pid) + Due(c, pid)
                            = Credit(n) + Allocations(pid)' + Due(c, pid)'
        BY <1>0 DEF Balanced
    <2>1. n \in DOMAIN pdl /\ pid # None
        BY ListFacts, TaskFacts
    <2>2. NotPassed(c, n)'
        BY <1>2 DEF NotPassed
    <2>3. Allocations(pid)' = Allocations(pid) /\ Credit(n)' = Credit(n)
        BY <1>0, <1>4, <2>1 DEF Allocations, Credit
    <2>4. Due(c, pid) = 0 /\ Due(c, pid)' = 0
        BY <1>2, <1>4, <2>1 DEF Due, PendingFor
    <2> QED BY <2>2, <2>3, <2>4
<1>7. /\ LocksOK(c)' /\ ExitOK(c)' /\ (Exiting(c)' => Exiting(c))
      /\ overlapped \/ PurgeOK(c)'
      /\ cpu[c].target \in {0, cpu'[c].target} \/ cpu[c].target \notin Range(proc_data)
    BY <1>0, <1>3, PhaseKept
<1>8. Quiet(c)
    BY <1>0, <1>1, <1>2, <1>3, <1>4, <1>5, <1>6, <1>7, TaskFacts DEF Quiet, WalkOK
<1> QED BY <1>0, <1>8, QuietStep

(* get_mem_data begins its walk under mem_lock.                             *)
LEMMA GetLockStep ==
    ASSUME TracerInvariant, NEW c \in Cpus, get_mem_data_lock(c)
    PROVE  TracerInvariant'
<1> DEFINE r == cpu[c]
           p == First(mem_data)
           q == After(mem_data, p)
           t == [r EXCEPT !.pc = "k_walk", !.p = p, !.q = q]
<1>0. /\ r \in Tasks /\ TaskOK(c) /\ OnNodes(c) /\ r.pc = "k_lock" /\ status # "oops"
      /\ UNCHANGED <<status, registered, lists, heap, calls>>
      /\ lock' = [lock EXCEPT !["mem_lock"] = c]
    BY TaskFacts DEF get_mem_data_lock, At, Take
<1>1. /\ p \in {0} \cup DOMAIN mdl /\ <<"mem", p>> \notin freed /\ p \in Nat
      /\ q \in {0} \cup DOMAIN mdl /\ <<"mem", q>> \notin freed /\ q \in Nat
    <2>1. p \in {0} \cup DOMAIN mdl /\ <<"mem", p>> \notin freed
        BY MemWalk
    <2> HIDE DEF p
    <2>2. q \in {0} \cup DOMAIN mdl /\ <<"mem", q>> \notin freed
        BY <2>1, MemWalk
    <2> HIDE DEF q
    <2> QED BY <2>1, <2>2, ListFacts
<1>2. t \in Tasks
    <2> HIDE DEF p, q
    <2> QED BY <1>0, <1>1 DEF Tasks, Labels
<1>3. OthersKept(c) /\ cpu'[c] = t
    <2>1. cpu' = [cpu EXCEPT ![c] = t]
        BY TaskFacts DEF get_mem_data_lock, TypeOK
    <2> QED BY <1>2, <2>1, TaskFacts, TaskSet
<1> HIDE DEF p, q
<1>4. /\ cpu'[c].pc = "k_walk" /\ cpu'[c].p = p /\ cpu'[c].q = q
      /\ cpu'[c].pid = r.pid /\ cpu'[c].addr = r.addr /\ cpu'[c].target = r.target
      /\ cpu'[c].w = r.w /\ cpu'[c].x = r.x /\ cpu'[c].ret = r.ret
    BY <1>0, <1>3 DEF Tasks
<1> HIDE DEF t
<1>5. Phase(c)' = Phase(c)
    BY <1>0, <1>4 DEF Phase, Nested
<1>6. lock' \in [Locks -> Cpus \cup {None}] /\ \A l \in Locks : l # "mem_lock" => lock'[l] = lock[l]
    BY <1>0, TaskFacts
<1>7. OnNodes(c)' /\ TaskOK(c)' /\ StandsOK(c)' /\ SamePhase(c)
    BY <1>0, <1>1, <1>4, <1>5, <1>6 DEF OnNodes, TaskOK, Nested, Removing, OnTarget, StandsOK,
        SamePhase, lists, Locks
<1>8. ~PendingIn(c) /\ ~PendingIn(c)' /\ \A n : NotPassed(c, n)'
    BY <1>0, <1>4 DEF PendingIn, NotPassed
<1>9. Light(c)
    BY <1>0, <1>3, <1>4, <1>6, <1>7, <1>8, TaskFacts DEF Light, PendingFor, Locks
<1> QED BY <1>0, <1>9, LightStep

(* It goes on to the node it has read before.                               *)
LEMMA GetMiss ==
    ASSUME TracerInvariant, NEW c \in Cpus, At(c, "k_walk"),
           cpu' = [cpu EXCEPT ![c].p = cpu[c].q, ![c].q = After(mem_data, cpu[c].q)],
           UNCHANGED <<status, registered, lists, lock, heap, calls>>
    PROVE  TracerInvariant'
<1>r. PICK r \in Tasks : r = cpu[c]
    BY TaskFacts
<1> DEFINE q == After(mem_data, r.q)
           t == [r EXCEPT !.p = r.q, !.q = q]
<1>0. /\ r \in Tasks /\ TaskOK(c) /\ OnNodes(c) /\ r.pc = "k_walk"
      /\ r.q \in {0} \cup DOMAIN mdl /\ (overlapped \/ <<"mem", r.q>> \notin freed)
    BY <1>r, TaskFacts DEF At, OnNodes, WalkOK, StandsOK
<1>1. q \in {0} \cup DOMAIN mdl /\ <<"mem", q>> \notin freed /\ q \in Nat
    <2>1. q \in {0} \cup DOMAIN mdl /\ <<"mem", q>> \notin freed
        BY <1>0, <1>r, MemWalk
    <2> HIDE DEF q
    <2> QED BY <2>1, ListFacts
<1> HIDE DEF q
<1>2. t \in Tasks
    BY <1>0, <1>r, <1>1 DEF Tasks
<1>3. OthersKept(c) /\ cpu'[c] = t
    <2>1. cpu' = [cpu EXCEPT ![c] = t]
        BY <1>r, TaskFacts DEF TypeOK, q
    <2> QED BY <1>2, <2>1, TaskFacts, TaskSet
<1>4. /\ cpu'[c].pc = "k_walk" /\ cpu'[c].p = r.q /\ cpu'[c].q = q
      /\ cpu'[c].pid = r.pid /\ cpu'[c].addr = r.addr /\ cpu'[c].target = r.target
      /\ cpu'[c].w = r.w /\ cpu'[c].x = r.x /\ cpu'[c].ret = r.ret
    <2>1. r.q \in Nat
        BY <1>0 DEF Tasks
    <2>2. /\ t.pc = r.pc /\ t.p = r.q /\ t.q = q /\ t.ret = r.ret
          /\ t.pid = r.pid /\ t.addr = r.addr /\ t.target = r.target /\ t.w = r.w /\ t.x = r.x
        <3>1. PICK a \in Nat, b \in Nat : a = r.q /\ b = q
            BY <1>1, <2>1
        <3>2. t = [r EXCEPT !.p = a, !.q = b]
            BY <3>1
        <3> HIDE DEF t
        <3>3. /\ t.pc = r.pc /\ t.p = a /\ t.q = b /\ t.ret = r.ret
              /\ t.pid = r.pid /\ t.addr = r.addr /\ t.target = r.target /\ t.w = r.w /\ t.x = r.x
            BY <3>2 DEF Tasks
        <3> QED BY <3>1, <3>3
    <2> HIDE DEF t
    <2> QED BY <1>0, <1>r, <1>3, <2>2
<1> HIDE DEF t
<1>5. Phase(c)' = Phase(c)
    BY <1>0, <1>r, <1>4 DEF Phase, Nested
<1>6. OnNodes(c)' /\ SamePhase(c)
    BY <1>0, <1>r, <1>1, <1>4, <1>5 DEF OnNodes, SamePhase, lists
<1>10. overlapped \/ StandsOK(c)'
    <2>1. freed' = freed /\ cpu'[c].pc \notin {"inc", "show"}
        BY <1>0, <1>4 DEF lists
    <2>2. CASE overlapped
        BY <2>2
    <2>3. CASE ~overlapped
        <3>1. <<"mem", cpu'[c].p>> \notin freed'
            BY <1>0, <1>4, <2>1, <2>3
        <3>2. <<"mem", cpu'[c].q>> \notin freed'
            BY <1>1, <1>4, <2>1
        <3> QED BY <2>1, <3>1, <3>2 DEF StandsOK
    <2> QED BY <2>2, <2>3
<1>9. TaskOK(c)'
    BY <1>0, <1>r, <1>4, <1>5 DEF TaskOK, Nested, Removing, OnTarget
<1>7. ~PendingIn(c) /\ ~PendingIn(c)' /\ \A n : NotPassed(c, n)'
    BY <1>0, <1>r, <1>4 DEF PendingIn, NotPassed
<1>8. Light(c)
    BY <1>0, <1>r, <1>3, <1>4, <1>6, <1>7, <1>9, <1>10, TaskFacts DEF Light, PendingFor
<1> QED BY <1>8, LightStep DEF At

(* No node for the address: the call is counted, the memory is not.         *)
LEMMA GetEnd ==
    ASSUME TracerInvariant, NEW c \in Cpus, At(c, "k_walk"), Drop("mem_lock"),
           cpu' = [cpu EXCEPT ![c] = Increment(cpu[c], <<"kfree">>, cpu[c].ret)],
           UNCHANGED <<status, registered, lists, heap, calls>>
    PROVE  TracerInvariant'
<1> DEFINE r == cpu[c]
           t == Increment(r, <<"kfree">>, r.ret)
<1>0. /\ r \in Tasks /\ TaskOK(c) /\ OnNodes(c) /\ r.pc = "k_walk" /\ r.ret \in Labels
      /\ r.ret \notin {"kmalloc_ret", "save"} /\ lock' = [lock EXCEPT !["mem_lock"] = None]
    BY TaskFacts DEF At, Drop, TaskOK, Tasks
<1>1. <<"kfree">> \in Todos /\ <<"kfree">> # <<"kmalloc_mem">> /\ Head(<<"kfree">>) = "kfree"
    BY DEF Todos
<1>2. t \in Tasks
    BY <1>0, <1>1, IncrementTask
<1>3. OthersKept(c) /\ cpu'[c] = t
    BY <1>2, TaskFacts, TaskSet
<1>4. /\ cpu'[c].pc = "inc" /\ cpu'[c].p = First(proc_data) /\ cpu'[c].q = 0
      /\ cpu'[c].todo = <<"kfree">> /\ cpu'[c].ret = r.ret
      /\ cpu'[c].pid = r.pid /\ cpu'[c].addr = r.addr /\ cpu'[c].target = r.target
      /\ cpu'[c].w = r.w /\ cpu'[c].x = r.x
    BY <1>0, <1>3, IncrementFields
<1> HIDE DEF t
<1>5. Phase(c)' = Phase(c)
    BY <1>0, <1>4 DEF Phase, Nested
<1>6. lock' \in [Locks -> Cpus \cup {None}] /\ \A l \in Locks : l # "mem_lock" => lock'[l] = lock[l]
    BY <1>0, TaskFacts
<1>7. OnNodes(c)' /\ StandsOK(c)' /\ SamePhase(c)
    BY <1>0, <1>4, <1>5, <1>6, ProcWalk DEF OnNodes, StandsOK, SamePhase, lists, Locks
<1>8. TaskOK(c)'
    BY <1>0, <1>1, <1>4, <1>5 DEF TaskOK, Nested, Removing, OnTarget
<1>9. ~PendingIn(c) /\ ~PendingIn(c)' /\ \A n \in Range(proc_data) : NotPassed(c, n)'
    BY <1>0, <1>1, <1>4, ProcWalk, ListFacts DEF PendingIn, NotPassed
<1>10. Light(c)
    BY <1>0, <1>3, <1>4, <1>6, <1>7, <1>8, <1>9, TaskFacts DEF Light, PendingFor, Locks
<1> QED BY <1>10, LightStep DEF At
-----------------------------------------------------------------------------
(* ioctl and the removals, but for the nodes they free.                     *)

(* A step of a removal that leaves the lists alone.                         *)
Removal(c) ==
    /\ OthersKept(c) /\ UNCHANGED <<status, registered, lists>>
    /\ lock' \in [Locks -> Cpus \cup {None}]
    /\ \A l \in {"proc_lock", "mem_lock_out"} : lock'[l] = lock[l] \/ lock[l] \in {None, c}
    /\ heap' \subseteq Addresses /\ calls' \in 0 .. MaxCalls
    /\ OnNodes(c)' /\ TaskOK(c)' /\ LocksOK(c)' /\ ExitOK(c)'
    /\ cpu'[c].pid \in {None, cpu[c].pid} \/ \A d \in Cpus : cpu[d].pid # cpu'[c].pid
    /\ overlapped \/ PurgeOK(c)'
    /\ Exiting(c)' => Exiting(c)
    /\ cpu[c].target \in {0, cpu'[c].target} \/ cpu[c].target \notin Range(proc_data)
    /\ cpu[c].pc \notin {"inc", "save"} /\ cpu'[c].pc \notin {"inc", "save", "show", "k_walk"}

LEMMA RemovalStep ==
    ASSUME TracerInvariant, NEW c \in Cpus, Removal(c), status # "oops"
    PROVE  TracerInvariant'
<1>0. UNCHANGED <<status, registered, proc_data, mem_data, pdl, mdl, freed, overlapped>>
    BY DEF Removal, lists
<1>1. ~PendingIn(c) /\ ~PendingIn(c)' /\ \A n : NotPassed(c, n)'
    BY DEF Removal, PendingIn, NotPassed
<1>2. Recount /\ Balanced(c)
    BY <1>0, <1>1, Unrecounted DEF PendingFor
<1>3. pdl' \in Seq(ProcNodes) /\ DOMAIN pdl' = DOMAIN pdl
    BY <1>0 DEF TracerInvariant, TypeOK, ListTypes
<1>4. overlapped \/ WalkOK(c)'
    BY DEF Removal, WalkOK, StandsOK
<1>5. Quiet(c)
    BY <1>0, <1>2, <1>3, <1>4 DEF Removal, Quiet
<1> QED BY <1>5, QuietStep

LEMMA RemoveStep ==
    ASSUME TracerInvariant, NEW c \in Cpus, NEW caller \in Pids, NEW pid \in Pids,
           remove_process(c, caller, pid)
    PROVE  TracerInvariant'
<1>0. /\ cpu[c].pc = "idle" /\ status # "oops" /\ \A d \in Cpus : cpu[d].pid # caller
      /\ calls' = calls + 1 /\ calls < MaxCalls
      /\ lock["proc_lock"] = None /\ lock' = [lock EXCEPT !["proc_lock"] = c]
      /\ UNCHANGED <<status, registered, lists, heap>>
    BY DEF remove_process, Runs, At, Take
<1>1. PICK i \in DOMAIN proc_data :
        cpu' = [cpu EXCEPT ![c] = [Idle EXCEPT !.pc = "purge_lock", !.pid = caller,
                                               !.target = proc_data[i]]]
    BY DEF remove_process
<1>2. PICK n \in DOMAIN pdl : n = proc_data[i] /\ n \in Range(proc_data) /\ n \in Nat /\ n # 0
    BY ListFacts DEF Range
<1> DEFINE t == [Idle EXCEPT !.pc = "purge_lock", !.pid = caller, !.target = n]
<1>3. /\ t \in Tasks /\ t.pc = "purge_lock" /\ t.pid = caller /\ t.target = n /\ t.addr = None
      /\ t.p = 0 /\ t.q = 0 /\ t.w = 0 /\ t.x = 0
    BY <1>2, IdleIsTask DEF Tasks, Idle, Labels
<1>4. cpu' = [cpu EXCEPT ![c] = t]
    BY <1>1, <1>2
<1> HIDE DEF t
<1>5. OthersKept(c) /\ cpu'[c] = t
    BY <1>3, <1>4, TaskFacts, TaskSet
<1>6. cpu[c] = Idle /\ cpu[c].target = 0 /\ cpu[c].pc = "idle"
    BY <1>0, IdleFields DEF Idle
<1>7. Phase(c)' = "purge_lock" /\ ~Exiting(c)'
    BY <1>2, <1>3, <1>5 DEF Phase, Nested, Exiting
<1>8. lock' \in [Locks -> Cpus \cup {None}] /\ lock'["proc_lock"] = c
      /\ lock'["mem_lock_out"] = lock["mem_lock_out"]
    BY <1>0, TaskFacts DEF Locks
<1>9. OnNodes(c)' /\ TaskOK(c)'
    BY <1>0, <1>2, <1>3, <1>5, <1>7 DEF OnNodes, TaskOK, Nested, Removing, OnTarget, lists
<1>10. LocksOK(c)' /\ ExitOK(c)' /\ PurgeOK(c)'
    BY <1>0, <1>2, <1>3, <1>5, <1>7, <1>8 DEF LocksOK, ExitOK, PurgeOK, HoldsProc, Purging, lists
<1>11. Removal(c)
    BY <1>0, <1>3, <1>5, <1>6, <1>7, <1>8, <1>9, <1>10, TaskFacts DEF Removal
<1> QED BY <1>0, <1>11, RemovalStep

(* The walk of a removal begins, under mem_lock_out.                        *)
LEMMA PurgeLockStep ==
    ASSUME TracerInvariant, NEW c \in Cpus, remove_by_pid_lock(c)
    PROVE  TracerInvariant'
<1>r. PICK r \in Tasks : r = cpu[c]
    BY TaskFacts
<1>0. /\ r.pc = "purge_lock" /\ status # "oops"
      /\ TaskOK(c) /\ OnNodes(c) /\ LocksOK(c) /\ ExitOK(c)
      /\ lock["mem_lock_out"] = None /\ lock' = [lock EXCEPT !["mem_lock_out"] = c]
      /\ UNCHANGED <<status, registered, lists, heap, calls>>
    BY <1>r, TaskFacts DEF remove_by_pid_lock, At, Take, PurgeLock
<1>1. PICK w \in {0} \cup DOMAIN mdl :
        w = First(mem_data) /\ <<"mem", w>> \notin freed /\ \A n \in Range(mem_data) : n <= w
    BY MemWalk
<1>2. PICK x \in {0} \cup DOMAIN mdl :
        /\ x = After(mem_data, w) /\ <<"mem", x>> \notin freed /\ (x = 0 \/ x < w)
        /\ \A n \in Range(mem_data) : n < w => n <= x
    BY <1>1, MemWalk
<1>3. w \in Nat /\ x \in Nat
    BY <1>1, <1>2, ListFacts
<1> DEFINE t == [r EXCEPT !.pc = "purge", !.w = w, !.x = x]
<1>4. /\ t \in Tasks /\ t.pc = "purge" /\ t.w = w /\ t.x = x /\ t.pid = r.pid /\ t.addr = r.addr
      /\ t.p = r.p /\ t.q = r.q /\ t.target = r.target
    BY <1>3 DEF Tasks, Labels
<1>5. cpu' = [cpu EXCEPT ![c] = t]
    BY <1>r, <1>1, <1>2, TaskFacts DEF remove_by_pid_lock, TypeOK
<1> HIDE DEF t
<1>6. OthersKept(c) /\ cpu'[c] = t
    BY <1>4, <1>5, TaskFacts, TaskSet
<1>7. /\ Phase(c)' = "purge" /\ Phase(c) = "purge_lock" /\ (Exiting(c)' <=> Exiting(c))
      /\ Early' = Early /\ Early \subseteq Range(mem_data)
    BY <1>0, <1>r, <1>4, <1>6 DEF Phase, Nested, Exiting, Early, lists
<1>8. lock' \in [Locks -> Cpus \cup {None}] /\ lock'["mem_lock_out"] = c
      /\ lock'["proc_lock"] = lock["proc_lock"]
    BY <1>0, TaskFacts DEF Locks
<1>9. OnNodes(c)' /\ TaskOK(c)'
    BY <1>0, <1>r, <1>1, <1>2, <1>4, <1>6, <1>7
        DEF OnNodes, TaskOK, Nested, Removing, OnTarget, lists
<1>10. LocksOK(c)' /\ PurgeOK(c)'
    BY <1>0, <1>r, <1>1, <1>2, <1>4, <1>6, <1>7, <1>8 DEF LocksOK, PurgeOK, HoldsProc, Purging, lists
<1>11. ExitOK(c)'
    BY <1>0, <1>r, <1>1, <1>2, <1>4, <1>6, <1>7 DEF ExitOK, lists
<1>12. Removal(c)
    BY <1>0, <1>r, <1>4, <1>6, <1>7, <1>8, <1>9, <1>10, <1>11, TaskFacts DEF Removal
<1> QED BY <1>0, <1>12, RemovalStep

(* A node of another process is passed.                                     *)
LEMMA PurgeSkip ==
    ASSUME TracerInvariant, NEW c \in Cpus, At(c, "purge"), cpu[c].target # 0,
           Go(c, "purge_next"), UNCHANGED <<status, registered, lists, lock, heap, calls>>
    PROVE  TracerInvariant'
<1>r. PICK r \in Tasks : r = cpu[c]
    BY TaskFacts
<1>0. /\ r.pc = "purge" /\ TaskOK(c) /\ OnNodes(c) /\ LocksOK(c) /\ (overlapped \/ PurgeOK(c))
    BY <1>r, TaskFacts DEF At, WalkOK
<1> DEFINE t == [r EXCEPT !.pc = "purge_next"]
<1>1. /\ t \in Tasks /\ t.pc = "purge_next" /\ t.w = r.w /\ t.x = r.x /\ t.pid = r.pid
      /\ t.addr = r.addr /\ t.p = r.p /\ t.q = r.q /\ t.target = r.target
    BY DEF Tasks, Labels
<1>2. cpu' = [cpu EXCEPT ![c] = t]
    BY <1>r, TaskFacts DEF Go, TypeOK
<1> HIDE DEF t
<1>3. OthersKept(c) /\ cpu'[c] = t
    BY <1>1, <1>2, TaskFacts, TaskSet
<1>4. Phase(c)' = "purge_next" /\ Phase(c) = "purge" /\ ~Exiting(c)'
    BY <1>0, <1>r, <1>1, <1>3 DEF Phase, Nested, Exiting
<1>5. OnNodes(c)' /\ TaskOK(c)'
    BY <1>0, <1>r, <1>1, <1>3, <1>4 DEF OnNodes, TaskOK, Nested, Removing, OnTarget, lists
<1>6. LocksOK(c)' /\ ExitOK(c)' /\ (overlapped \/ PurgeOK(c)')
    BY <1>0, <1>r, <1>1, <1>3, <1>4 DEF LocksOK, ExitOK, PurgeOK, HoldsProc, Purging, lists
<1>7. Removal(c)
    BY <1>0, <1>r, <1>1, <1>3, <1>4, <1>5, <1>6, TaskFacts DEF Removal
<1> QED BY <1>7, RemovalStep DEF At

(* The walk ends: nothing that was recorded before the exit is left.        *)
LEMMA PurgeEnd ==
    ASSUME TracerInvariant, NEW c \in Cpus, At(c, "purge"), cpu[c].w = 0,
           Drop(PurgeLock), Go(c, IF cpu[c].target = 0 THEN "unregister" ELSE "unlink"),
           UNCHANGED <<status, registered, lists, heap, calls>>
    PROVE  TracerInvariant'
<1>r. PICK r \in Tasks : r = cpu[c]
    BY TaskFacts
<1>0. /\ r.pc = "purge" /\ TaskOK(c) /\ OnNodes(c) /\ LocksOK(c) /\ ExitOK(c)
      /\ lock' = [lock EXCEPT !["mem_lock_out"] = None]
    BY <1>r, TaskFacts DEF At, Drop, PurgeLock
<1> DEFINE next == IF r.target = 0 THEN "unregister" ELSE "unlink"
           t == [r EXCEPT !.pc = next]
<1>1. /\ t \in Tasks /\ t.pc = next /\ t.w = r.w /\ t.x = r.x /\ t.pid = r.pid
      /\ t.addr = r.addr /\ t.p = r.p /\ t.q = r.q /\ t.target = r.target
    BY DEF Tasks, Labels
<1>2. cpu' = [cpu EXCEPT ![c] = t]
    BY <1>r, TaskFacts DEF Go, TypeOK
<1> HIDE DEF t
<1>3. OthersKept(c) /\ cpu'[c] = t
    BY <1>1, <1>2, TaskFacts, TaskSet
<1>4. /\ Phase(c)' = next /\ Phase(c) = "purge" /\ (Exiting(c)' <=> Exiting(c))
      /\ Exiting(c) => r.target = 0
    BY <1>0, <1>r, <1>1, <1>3 DEF Phase, Nested, Exiting
<1>5. OnNodes(c)' /\ TaskOK(c)'
    BY <1>0, <1>r, <1>1, <1>3, <1>4 DEF OnNodes, TaskOK, Nested, Removing, OnTarget, lists
<1>6. /\ lock["mem_lock_out"] = c /\ lock' \in [Locks -> Cpus \cup {None}]
      /\ lock'["proc_lock"] = lock["proc_lock"]
    BY <1>0, <1>4, TaskFacts DEF LocksOK, Purging, Locks
<1>7. LocksOK(c)' /\ PurgeOK(c)'
    BY <1>0, <1>r, <1>1, <1>3, <1>4, <1>6 DEF LocksOK, PurgeOK, HoldsProc, Purging, lists
<1>8. ExitOK(c)'
    <2>1. Exiting(c) => Early = {}
        <3>1. /\ DOMAIN mdl = 1 .. Len(mdl) /\ Len(mdl) \in Nat /\ Early \subseteq DOMAIN mdl
              /\ <<"mem", 0>> \notin freed
            <4>1. 0 \in Nat
                OBVIOUS
            <4>2. DOMAIN mdl = 1 .. Len(mdl) /\ Len(mdl) \in Nat /\ Early \subseteq DOMAIN mdl
                BY ListFacts DEF Early
            <4>3. <<"mem", 0>> \in freed => 0 \in DOMAIN mdl
                BY <4>1, ListFacts
            <4> QED BY <4>2, <4>3
        <3>2. \A n \in Early : ~(n <= 0)
            BY <3>1
        <3> QED BY <1>0, <1>4, <3>1, <3>2 DEF ExitOK
    <2>2. Early' = Early /\ UNCHANGED <<status, proc_data>>
        BY DEF Early, lists
    <2> QED BY <1>0, <1>4, <2>1, <2>2 DEF ExitOK
<1>9. Removal(c)
    BY <1>0, <1>r, <1>1, <1>3, <1>4, <1>5, <1>6, <1>7, <1>8, TaskFacts DEF Removal
<1> QED BY <1>9, RemovalStep DEF At
LEMMA PurgeNextStep ==
    ASSUME TracerInvariant, NEW c \in Cpus, purge_next(c)
    PROVE  TracerInvariant'
<1>1. CASE Oops
    BY <1>1, OopsStep
<1>2. CASE ~Oops
    <2>r. PICK r \in Tasks : r = cpu[c]
        BY TaskFacts
    <2>0. /\ r.pc = "purge_next" /\ status # "oops" /\ <<"mem", r.x>> \notin freed
          /\ TaskOK(c) /\ OnNodes(c) /\ LocksOK(c) /\ ExitOK(c) /\ r.x \in {0} \cup DOMAIN mdl
          /\ UNCHANGED <<status, registered, lists, lock, heap, calls>>
        BY <1>2, <2>r, TaskFacts DEF purge_next, At, OnNodes
    <2>1. PICK x \in {0} \cup DOMAIN mdl :
            /\ x = After(mem_data, r.x) /\ <<"mem", x>> \notin freed /\ (x = 0 \/ x < r.x)
            /\ \A n \in Range(mem_data) : n < r.x => n <= x
        BY <2>0, MemWalk
    <2>2. x \in Nat
        BY <2>1, ListFacts
    <2> DEFINE t == [r EXCEPT !.pc = "purge", !.w = r.x, !.x = x, !.ret = "idle"]
    <2>3. /\ t \in Tasks /\ t.pc = "purge" /\ t.w = r.x /\ t.x = x /\ t.pid = r.pid
          /\ t.addr = r.addr /\ t.p = r.p /\ t.q = r.q /\ t.target = r.target
        BY <2>2 DEF Tasks, Labels
    <2>4. cpu' = [cpu EXCEPT ![c] = t]
        BY <1>2, <2>r, <2>1, TaskFacts DEF purge_next, TypeOK
    <2> HIDE DEF t
    <2>5. OthersKept(c) /\ cpu'[c] = t
        BY <2>3, <2>4, TaskFacts, TaskSet
    <2>6. /\ Phase(c)' = "purge" /\ Phase(c) = "purge_next" /\ (Exiting(c)' <=> Exiting(c))
          /\ Early' = Early /\ Early \subseteq Range(mem_data)
        BY <2>0, <2>r, <2>3, <2>5 DEF Phase, Nested, Exiting, Early, lists
    <2>7. OnNodes(c)' /\ TaskOK(c)'
        BY <2>0, <2>r, <2>1, <2>3, <2>5, <2>6
            DEF OnNodes, TaskOK, Nested, Removing, OnTarget, lists
    <2>8. LocksOK(c)' /\ PurgeOK(c)'
        BY <2>0, <2>r, <2>1, <2>3, <2>5, <2>6 DEF LocksOK, PurgeOK, HoldsProc, Purging, lists
    <2>9. ExitOK(c)'
        BY <2>0, <2>r, <2>1, <2>3, <2>5, <2>6 DEF ExitOK, lists
    <2>10. Removal(c)
        BY <2>0, <2>r, <2>3, <2>5, <2>6, <2>7, <2>8, <2>9, TaskFacts DEF Removal
    <2> QED BY <2>0, <2>10, RemovalStep
<1> QED BY <1>1, <1>2

LEMMA ReturnStep ==
    ASSUME TracerInvariant, NEW c \in Cpus, remove_process_return(c)
    PROVE  TracerInvariant'
<1>0. /\ cpu[c].pc = "removed" /\ status # "oops" /\ TaskOK(c) /\ LocksOK(c)
      /\ lock' = [lock EXCEPT !["proc_lock"] = None]
      /\ UNCHANGED <<status, registered, lists, heap, calls>>
    BY TaskFacts DEF remove_process_return, At, Drop
<1>1. OthersKept(c) /\ cpu'[c] = Idle
    BY IdleIsTask, TaskFacts, TaskSet DEF remove_process_return, Return
<1>2. /\ Phase(c) = "removed" /\ cpu[c].target # 0 /\ cpu[c].target \notin Range(proc_data)
      /\ lock["proc_lock"] = c
    BY <1>0 DEF Phase, Nested, TaskOK, LocksOK, HoldsProc
<1>3. /\ cpu'[c].pc = "idle" /\ cpu'[c].target = 0 /\ cpu'[c].pid = None /\ Phase(c)' = "idle"
      /\ ~Exiting(c)'
    BY <1>1 DEF Idle, Phase, Nested, Exiting
<1>4. /\ lock' \in [Locks -> Cpus \cup {None}] /\ lock'["mem_lock_out"] = lock["mem_lock_out"]
    BY <1>0, TaskFacts DEF Locks
<1>5. OnNodes(c)' /\ TaskOK(c)'
    BY <1>1, <1>3 DEF OnNodes, TaskOK, Nested, Removing, OnTarget, Idle
<1>6. LocksOK(c)' /\ ExitOK(c)' /\ PurgeOK(c)'
    BY <1>3 DEF LocksOK, ExitOK, PurgeOK, HoldsProc, Purging
<1>7. Removal(c)
    BY <1>0, <1>1, <1>2, <1>3, <1>4, <1>5, <1>6, TaskFacts DEF Removal
<1> QED BY <1>0, <1>7, RemovalStep

(* The exit goes on to the memory when no process is left.                  *)
LEMMA DestroyEnd ==
    ASSUME TracerInvariant, NEW c \in Cpus, At(c, "destroy_proc"), First(proc_data) = 0,
           Drop("proc_lock"), Go(c, "purge_lock"), UNCHANGED <<status, registered, lists, heap, calls>>
    PROVE  TracerInvariant'
<1>r. PICK r \in Tasks : r = cpu[c]
    BY TaskFacts
<1>0. /\ r.pc = "destroy_proc" /\ TaskOK(c) /\ OnNodes(c) /\ LocksOK(c) /\ ExitOK(c)
      /\ lock' = [lock EXCEPT !["proc_lock"] = None] /\ proc_data = <<>>
    BY <1>r, TaskFacts, ProcWalk DEF At, Drop
<1> DEFINE t == [r EXCEPT !.pc = "purge_lock"]
<1>1. /\ t \in Tasks /\ t.pc = "purge_lock" /\ t.w = r.w /\ t.x = r.x /\ t.pid = r.pid
      /\ t.addr = r.addr /\ t.p = r.p /\ t.q = r.q /\ t.target = r.target
    BY DEF Tasks, Labels
<1>2. cpu' = [cpu EXCEPT ![c] = t]
    BY <1>r, TaskFacts DEF Go, TypeOK
<1> HIDE DEF t
<1>3. OthersKept(c) /\ cpu'[c] = t
    BY <1>1, <1>2, TaskFacts, TaskSet
<1>4. Phase(c)' = "purge_lock" /\ Phase(c) = "destroy_proc" /\ Exiting(c) /\ r.target = 0
    BY <1>0, <1>r, <1>1, <1>3 DEF Phase, Nested, Exiting, TaskOK, OnTarget
<1>5. OnNodes(c)' /\ TaskOK(c)'
    BY <1>0, <1>r, <1>1, <1>3, <1>4 DEF OnNodes, TaskOK, Nested, Removing, OnTarget, lists
<1>6. /\ lock["proc_lock"] = c /\ lock' \in [Locks -> Cpus \cup {None}]
      /\ lock'["mem_lock_out"] = lock["mem_lock_out"]
    BY <1>0, <1>4, TaskFacts DEF LocksOK, HoldsProc, Locks
<1>7. LocksOK(c)' /\ PurgeOK(c)'
    BY <1>r, <1>1, <1>3, <1>4 DEF LocksOK, PurgeOK, HoldsProc, Purging
<1>8. ExitOK(c)'
    BY <1>0, <1>4 DEF ExitOK, lists
<1>9. Removal(c)
    BY <1>0, <1>r, <1>1, <1>3, <1>4, <1>5, <1>6, <1>7, <1>8, TaskFacts DEF Removal
<1> QED BY <1>9, RemovalStep DEF At
-----------------------------------------------------------------------------
(* Steps that add a node to a list or free one.                             *)

(* The memory of a process when a node goes or comes.                       *)
LEMMA AllocationsLess ==
    ASSUME ListTypes, ListTypes', NEW n \in Range(mem_data), NEW pid,
           mdl' = mdl, Range(mem_data') = Range(mem_data) \ {n}
    PROVE  Allocations(pid) = Allocations(pid)' + IF mdl[n].pid = pid THEN 1 ELSE 0
<1> DEFINE S == {m \in Range(mem_data) : mdl[m].pid = pid}
           T == {m \in Range(mem_data') : mdl'[m].pid = pid}
<1>1. IsFiniteSet(S) /\ Cardinality(S) = Allocations(pid) /\ Cardinality(T) = Allocations(pid)'
      /\ Allocations(pid) \in Nat
    BY AllocationsAreCounted DEF Allocations
<1>2. CASE mdl[n].pid = pid
    <2>1. T = S \ {n} /\ n \in S
        BY <1>2
    <2> HIDE DEF S, T
    <2>2. Cardinality(T) = Cardinality(S) - 1
        BY <1>1, <2>1, FS_RemoveElement
    <2> QED BY <1>1, <1>2, <2>2
<1>3. CASE mdl[n].pid # pid
    <2>1. T = S
        BY <1>3
    <2> HIDE DEF S, T
    <2> QED BY <1>1, <1>3, <2>1
<1> QED BY <1>2, <1>3

LEMMA AllocationsMore ==
    ASSUME ListTypes, ListTypes', NEW n, NEW pid, n \notin Range(mem_data),
           \A m \in Range(mem_data) : mdl'[m] = mdl[m],
           Range(mem_data') = Range(mem_data) \cup {n}
    PROVE  Allocations(pid)' = Allocations(pid) + IF mdl'[n].pid = pid THEN 1 ELSE 0
<1> DEFINE S == {m \in Range(mem_data) : mdl[m].pid = pid}
           T == {m \in Range(mem_data') : mdl'[m].pid = pid}
<1>1. IsFiniteSet(S) /\ Cardinality(S) = Allocations(pid) /\ Cardinality(T) = Allocations(pid)'
      /\ Allocations(pid) \in Nat
    BY AllocationsAreCounted DEF Allocations
<1>2. CASE mdl'[n].pid = pid
    <2>1. T = S \cup {n} /\ n \notin S
        BY <1>2
    <2> HIDE DEF S, T
    <2>2. Cardinality(T) = Cardinality(S) + 1
        BY <1>1, <2>1, FS_AddElement
    <2> QED BY <1>1, <1>2, <2>2
<1>3. CASE mdl'[n].pid # pid
    <2>1. T = S
        BY <1>3
    <2> HIDE DEF S, T
    <2> QED BY <1>1, <1>3, <2>1
<1> QED BY <1>2, <1>3

(* A node of the memory is deleted and freed. *)
LEMMA MemFreed ==
    ASSUME TracerInvariant, NEW c \in Cpus, NEW n \in DOMAIN mdl, <<"mem", n>> \notin freed,
           mem_data' = list_del(mem_data, n), Free(c, "mem", n),
           UNCHANGED <<status, proc_data, pdl, mdl>>
    PROVE  /\ ListTypes' /\ InvLists' /\ Disturbs(c) /\ Early' \subseteq Early \ {n}
           /\ (overlapped => overlapped') /\ n \in Nat
           /\ \A pid : Allocations(pid) = Allocations(pid)' + IF mdl[n].pid = pid THEN 1 ELSE 0
           /\ \A m : <<"mem", m>> \in freed' => m = n \/ <<"mem", m>> \in freed
           /\ \A m : <<"proc", m>> \in freed' => <<"proc", m>> \in freed
<1>0. /\ mem_data \in Seq(DOMAIN mdl) /\ DOMAIN mdl = 1 .. Len(mdl) /\ Len(mdl) \in Nat
      /\ Decreasing(mem_data) /\ Range(mem_data) \subseteq DOMAIN mdl
      /\ \A m \in Nat : <<"mem", m>> \in freed <=> m \in DOMAIN mdl /\ m \notin Range(mem_data)
    BY ListFacts
<1>1. /\ mem_data' \in Seq(DOMAIN mdl) /\ Decreasing(mem_data')
      /\ Range(mem_data') = Range(mem_data) \ {n} /\ n \in Nat /\ n \in Range(mem_data)
    <2>1. DOMAIN mdl \in SUBSET Nat /\ n \in Nat
        BY <1>0
    <2>2. n \in Range(mem_data)
        BY <1>0, <2>1
    <2> QED BY <1>0, <2>1, <2>2, DeleteOne
<1>2. /\ freed' = freed \cup {<<"mem", n>>} /\ overlapped' \in BOOLEAN
      /\ (overlapped => overlapped')
    BY DEF Free, TracerInvariant, TypeOK, ListTypes
<1>3. ListTypes'
    <2>1. ListTypes
        BY DEF TracerInvariant, TypeOK
    <2> QED BY <1>1, <1>2, <2>1 DEF ListTypes
<1>4. InvLists'
    <2>1. InvLists
        BY DEF TracerInvariant
    <2>2. Decreasing(proc_data')
        BY <2>1 DEF InvLists, Decreasing
    <2>3. ASSUME NEW m \in Nat
          PROVE  /\ <<"proc", m>> \in freed' <=> m \in DOMAIN pdl' /\ m \notin Range(proc_data')
                 /\ <<"mem", m>> \in freed' <=> m \in DOMAIN mdl' /\ m \notin Range(mem_data')
        BY <1>1, <1>2, <2>1 DEF InvLists
    <2> QED BY <1>1, <2>2, <2>3 DEF InvLists
<1>5. Early' \subseteq Early \ {n}
    BY <1>1 DEF Early
<1>6. \A pid : Allocations(pid) = Allocations(pid)' + IF mdl[n].pid = pid THEN 1 ELSE 0
    <2>1. ListTypes
        BY DEF TracerInvariant, TypeOK
    <2> QED BY <1>1, <1>3, <2>1, AllocationsLess
<1>7. Disturbs(c)
    BY <1>1 DEF Disturbs
<1> QED BY <1>1, <1>2, <1>3, <1>4, <1>5, <1>6, <1>7

(* A process is deleted and freed. *)
LEMMA ProcFreed ==
    ASSUME TracerInvariant, NEW c \in Cpus, NEW n \in Range(proc_data),
           proc_data' = list_del(proc_data, n), Free(c, "proc", n),
           UNCHANGED <<status, mem_data, pdl, mdl>>
    PROVE  /\ ListTypes' /\ InvLists' /\ Disturbs(c) /\ Early' = Early
           /\ (overlapped => overlapped') /\ Recount
           /\ Range(proc_data') = Range(proc_data) \ {n}
           /\ \A m : <<"mem", m>> \in freed' <=> <<"mem", m>> \in freed
<1>0. /\ proc_data \in Seq(DOMAIN pdl) /\ DOMAIN pdl = 1 .. Len(pdl) /\ Len(pdl) \in Nat
      /\ Decreasing(proc_data) /\ Range(proc_data) \subseteq DOMAIN pdl
    BY ListFacts
<1>1. /\ proc_data' \in Seq(DOMAIN pdl) /\ Decreasing(proc_data')
      /\ Range(proc_data') = Range(proc_data) \ {n} /\ n \in Nat /\ n \in DOMAIN pdl
    <2>1. DOMAIN pdl \in SUBSET Nat
        BY <1>0
    <2> QED BY <1>0, <2>1, DeleteOne
<1>2. /\ freed' = freed \cup {<<"proc", n>>} /\ overlapped' \in BOOLEAN
      /\ (overlapped => overlapped')
    BY DEF Free, TracerInvariant, TypeOK, ListTypes
<1>3. ListTypes'
    <2>1. ListTypes
        BY DEF TracerInvariant, TypeOK
    <2> QED BY <1>1, <1>2, <2>1 DEF ListTypes
<1>4. InvLists'
    <2>1. InvLists
        BY DEF TracerInvariant
    <2>2. Decreasing(mem_data')
        BY <2>1 DEF InvLists, Decreasing
    <2>3. ASSUME NEW m \in Nat
          PROVE  /\ <<"proc", m>> \in freed' <=> m \in DOMAIN pdl' /\ m \notin Range(proc_data')
                 /\ <<"mem", m>> \in freed' <=> m \in DOMAIN mdl' /\ m \notin Range(mem_data')
        BY <1>1, <1>2, <2>1 DEF InvLists
    <2> QED BY <1>1, <2>2, <2>3 DEF InvLists
<1>5. Early' = Early /\ Recount
    BY <1>1 DEF Early, Recount
<1>6. Disturbs(c)
    BY <1>1 DEF Disturbs
<1> QED BY <1>1, <1>2, <1>3, <1>4, <1>5, <1>6

(* A probe finds the node: the memory is taken from the list and owed to    *)
(* the counter.                                                             *)
LEMMA GetFound ==
    ASSUME TracerInvariant, NEW c \in Cpus, At(c, "k_walk"), cpu[c].p # 0,
           <<"mem", cpu[c].p>> \notin freed, Found(c, cpu[c].p),
           mem_data' = list_del(mem_data, cpu[c].p), Free(c, "mem", cpu[c].p), Drop("mem_lock"),
           cpu' = [cpu EXCEPT ![c] = Increment(cpu[c], CountFree, cpu[c].ret)],
           UNCHANGED <<status, registered, proc_data, pdl, mdl, heap, calls>>
    PROVE  TracerInvariant'
<1>r. PICK r \in Tasks : r = cpu[c]
    BY TaskFacts
<1>0. /\ TaskOK(c) /\ OnNodes(c) /\ r.pc = "k_walk" /\ r.ret \in Labels /\ r.p \in DOMAIN mdl
      /\ r.ret \notin {"kmalloc_ret", "save"} /\ lock' = [lock EXCEPT !["mem_lock"] = None]
      /\ mdl[r.p] \in MemNodes /\ mdl[r.p].addr = r.addr /\ mdl[r.p].pid = r.pid
      /\ status # "oops"
    <2>1. r.p \in DOMAIN mdl
        BY <1>r, TaskFacts DEF At, OnNodes
    <2> QED BY <1>r, <2>1, TaskFacts, ListFacts DEF At, Drop, TaskOK, Tasks, Found
<1>1. /\ ListTypes' /\ InvLists' /\ Disturbs(c) /\ Early' \subseteq Early
      /\ \A pid : Allocations(pid) = Allocations(pid)' + IF mdl[r.p].pid = pid THEN 1 ELSE 0
      /\ \A m : <<"proc", m>> \in freed' => <<"proc", m>> \in freed
    BY <1>0, <1>r, MemFreed
<1>2. <<"kfree_mem", "kfree">> \in Todos /\ <<"kfree_mem", "kfree">> # <<"kmalloc_mem">>
      /\ Head(<<"kfree_mem", "kfree">>) = "kfree_mem"
    BY DEF Todos
<1> DEFINE t == Increment(r, <<"kfree_mem", "kfree">>, r.ret)
<1>3. t \in Tasks
    BY <1>0, <1>2, IncrementTask
<1>4. OthersKept(c) /\ cpu'[c] = t
    BY <1>r, <1>3, TaskFacts, TaskSet DEF CountFree
<1>5. /\ cpu'[c].pc = "inc" /\ cpu'[c].p = First(proc_data) /\ cpu'[c].q = 0
      /\ cpu'[c].todo = <<"kfree_mem", "kfree">> /\ cpu'[c].ret = r.ret
      /\ cpu'[c].pid = r.pid /\ cpu'[c].addr = r.addr /\ cpu'[c].target = r.target
      /\ cpu'[c].w = r.w /\ cpu'[c].x = r.x
    BY <1>4, IncrementFields
<1> HIDE DEF t
<1>6. Phase(c)' = Phase(c) /\ Phase(c) = r.ret
    BY <1>0, <1>r, <1>5 DEF Phase, Nested
<1>7. ~Removing(c) /\ ~Removing(c)' /\ cpu'[c].target = 0
    <2>1. r.addr # None
        BY <1>0, TaskFacts DEF MemNodes
    <2> QED BY <1>0, <1>r, <1>5, <1>6, <2>1 DEF TaskOK, Removing, OnTarget
<1>8. lock' \in [Locks -> Cpus \cup {None}] /\ \A l \in Locks : l # "mem_lock" => lock'[l] = lock[l]
    BY <1>0, TaskFacts
<1>9. OnNodes(c)' /\ StandsOK(c)'
    BY <1>0, <1>r, <1>1, <1>5, ProcWalk DEF OnNodes, StandsOK
<1>10. TaskOK(c)'
    BY <1>0, <1>r, <1>2, <1>5, <1>6, <1>7 DEF TaskOK, Nested, Removing, OnTarget
<1>11. LocksOK(c)' /\ ExitOK(c)' /\ ~Exiting(c)' /\ PurgeOK(c)'
    BY <1>7 DEF Removing, OnTarget, LocksOK, ExitOK, Exiting, PurgeOK, HoldsProc, Purging
<1>12. Frame(c)
    BY <1>0, <1>r, <1>1, <1>4, <1>5, <1>8, <1>9, <1>10, <1>11, TaskFacts DEF Frame, WalkOK, Locks
<1>13. Recount
    BY DEF Recount
<1>14. Balanced(c)
    <2> SUFFICES ASSUME NEW n \in Range(proc_data), NEW pid \in Pids
                 PROVE  /\ NotPassed(c, n)'
                        /\ Credit(n)' + Allocations(pid) + Due(c, pid)
                            = Credit(n) + Allocations(pid)' + Due(c, pid)'
        BY DEF Balanced
    <2>1. NotPassed(c, n)'
        BY <1>5, ProcWalk DEF NotPassed
    <2>2. Credit(n)' = Credit(n) /\ Credit(n) \in Int
        BY ListFacts DEF Credit, ProcNodes, Counters, Probes
    <2>3. Due(c, pid) = 0 /\ Due(c, pid)' = IF r.pid = pid THEN 1 ELSE 0
        BY <1>0, <1>r, <1>2, <1>5 DEF Due, PendingFor, PendingIn
    <2>4. Allocations(pid) = Allocations(pid)' + IF r.pid = pid THEN 1 ELSE 0
        BY <1>0, <1>1
    <2>5. Allocations(pid)' \in Nat
        <3>1. ListTypes
            BY DEF TracerInvariant, TypeOK
        <3> QED BY <1>1, <3>1, AllocationsAreCounted
    <2> QED BY <2>1, <2>2, <2>3, <2>4, <2>5
<1>15. cpu[c].target \in {0, cpu'[c].target}
    BY <1>r, <1>5
<1>16. InvAccounts'
    BY <1>12, <1>13, <1>14, <1>15, AccountsKept
<1> QED BY <1>0, <1>12, <1>16, FrameStep
LEMMA GetStep ==
    ASSUME TracerInvariant, NEW c \in Cpus, get_mem_data(c)
    PROVE  TracerInvariant'
<1>0. At(c, "k_walk")
    BY DEF get_mem_data
<1>1. CASE Oops
    BY <1>1, OopsStep
<1>2. CASE ~Oops
    BY <1>0, <1>2, GetFound, GetMiss, GetEnd DEF get_mem_data
<1> QED BY <1>1, <1>2

(* The kfree of a removal: the probe fires, or the removal goes on. *)
LEMMA KfreeTask ==
    ASSUME NEW r \in Tasks, r.addr = None, NEW ret \in {"purge_next", "removed", "destroy_proc"}
    PROVE  /\ Kfree(r, None, ret) \in Tasks
           /\ Kfree(r, None, ret).pid = r.pid /\ Kfree(r, None, ret).addr = None
           /\ Kfree(r, None, ret).p = r.p /\ Kfree(r, None, ret).q = r.q
           /\ Kfree(r, None, ret).target = r.target
           /\ Kfree(r, None, ret).w = r.w /\ Kfree(r, None, ret).x = r.x
           /\ Kfree(r, None, ret).pc = ret
              \/ (Kfree(r, None, ret).pc = "k_lock" /\ Kfree(r, None, ret).ret = ret)
<1>1. CASE Hits("kfree")
    BY <1>1 DEF Kfree, Tasks, Labels
<1>2. CASE ~Hits("kfree")
    BY <1>2 DEF Kfree, Tasks, Labels
<1> QED BY <1>1, <1>2

(* The memory of the process, or of any in the exit, is deleted and freed.  *)
LEMMA PurgeFree ==
    ASSUME TracerInvariant, NEW c \in Cpus, At(c, "purge"), cpu[c].w # 0,
           <<"mem", cpu[c].w>> \notin freed, Purges(c, cpu[c].w),
           mem_data' = list_del(mem_data, cpu[c].w), Free(c, "mem", cpu[c].w),
           cpu' = [cpu EXCEPT ![c] = Kfree(cpu[c], None, "purge_next")],
           UNCHANGED <<status, registered, proc_data, pdl, mdl, lock, heap, calls>>
    PROVE  TracerInvariant'
<1>r. PICK r \in Tasks : r = cpu[c]
    BY TaskFacts
<1>0. /\ r.pc = "purge" /\ TaskOK(c) /\ OnNodes(c) /\ LocksOK(c) /\ ExitOK(c)
      /\ (overlapped \/ PurgeOK(c)) /\ status # "oops" /\ Phase(c) = "purge"
    BY <1>r, TaskFacts DEF At, WalkOK, Phase, Nested
<1>1. PICK w \in DOMAIN mdl : w = r.w /\ <<"mem", w>> \notin freed /\ mdl[w] \in MemNodes
    BY <1>0, <1>r, ListFacts DEF OnNodes
<1>2. /\ ListTypes' /\ InvLists' /\ Disturbs(c) /\ Early' \subseteq Early \ {w}
      /\ (overlapped => overlapped') /\ w \in Nat
      /\ \A pid : Allocations(pid) = Allocations(pid)' + IF mdl[w].pid = pid THEN 1 ELSE 0
      /\ \A m : <<"mem", m>> \in freed' => m = w \/ <<"mem", m>> \in freed
    BY <1>1, <1>r, MemFreed
<1> DEFINE t == Kfree(r, None, "purge_next")
<1>3. /\ t \in Tasks /\ t.pid = r.pid /\ t.addr = None /\ t.p = r.p /\ t.q = r.q
      /\ t.target = r.target /\ t.w = r.w /\ t.x = r.x
      /\ t.pc = "purge_next" \/ (t.pc = "k_lock" /\ t.ret = "purge_next")
    <2>1. r.addr = None
        BY <1>0, <1>r DEF TaskOK, Removing, OnTarget
    <2> QED BY <2>1, KfreeTask
<1> HIDE DEF t
<1>4. OthersKept(c) /\ cpu'[c] = t
    BY <1>r, <1>3, TaskFacts, TaskSet DEF t
<1>5. /\ Phase(c)' = "purge_next" /\ (Exiting(c)' <=> Exiting(c))
      /\ Exiting(c) => r.target = 0
    BY <1>0, <1>r, <1>3, <1>4 DEF Phase, Nested, Exiting
<1>6. OnNodes(c)' /\ TaskOK(c)' /\ StandsOK(c)'
    BY <1>0, <1>r, <1>3, <1>4, <1>5 DEF OnNodes, TaskOK, Nested, Removing, OnTarget, StandsOK
<1>7. LocksOK(c)'
    BY <1>0, <1>r, <1>3, <1>4, <1>5 DEF LocksOK, HoldsProc, Purging
<1>8. overlapped' \/ PurgeOK(c)'
    <2> SUFFICES ASSUME ~overlapped' PROVE PurgeOK(c)'
        OBVIOUS
    <2>1. PurgeOK(c) /\ r.x \in Nat
        BY <1>0, <1>2 DEF Tasks
    <2>2. <<"mem", r.x>> \notin freed /\ (r.x = 0 \/ r.x < w)
        BY <1>0, <1>1, <1>r, <2>1 DEF PurgeOK, Purging
    <2>3. <<"mem", r.x>> \notin freed'
        <3>1. r.x # w
            BY <1>1, <1>2, <1>r, <2>1, <2>2
        <3> QED BY <1>2, <2>2, <3>1
    <2> QED BY <1>3, <1>4, <1>5, <2>3 DEF PurgeOK, Purging
<1>9. ExitOK(c)'
    <2> SUFFICES ASSUME Exiting(c) PROVE ExitOK(c)'
        BY <1>5 DEF ExitOK
    <2>1. /\ status \in {"exit", "oops"} /\ proc_data = <<>>
          /\ \A n \in Early : n <= w /\ (n < w => n <= r.x)
        BY <1>0, <1>1, <1>r DEF ExitOK
    <2>2. \A n \in Early' : n \in Early /\ n # w /\ n \in Nat
        BY <1>2, ListFacts DEF Early
    <2>3. \A n \in Early' : n <= r.x
        BY <1>2, <2>1, <2>2
    <2> QED BY <1>3, <1>4, <1>5, <2>1, <2>3 DEF ExitOK
<1>10. Frame(c)
    BY <1>0, <1>r, <1>2, <1>3, <1>4, <1>5, <1>6, <1>7, <1>8, <1>9, TaskFacts DEF Frame, WalkOK, Locks
<1>11. Recount
    BY DEF Recount
<1>12. status = "loaded" => Balanced(c)
    <2> SUFFICES ASSUME status = "loaded", NEW n \in Range(proc_data), NEW pid \in Pids,
                        Kept(n), RecordOK(n), pdl[n].pid = pid
                 PROVE  /\ NotPassed(c, n)'
                        /\ Credit(n)' + Allocations(pid) + Due(c, pid)
                            = Credit(n) + Allocations(pid)' + Due(c, pid)'
        BY DEF Balanced
    <2>1. NotPassed(c, n)'
        BY <1>3, <1>4 DEF NotPassed
    <2>2. Credit(n)' = Credit(n) /\ Credit(n) \in Int
        BY ListFacts DEF Credit, ProcNodes, Counters, Probes
    <2>3. Due(c, pid) = 0 /\ Due(c, pid)' = 0
        BY <1>0, <1>r, <1>3, <1>4 DEF Due, PendingFor, PendingIn
    <2>4. mdl[w].pid # pid
        <3>1. r.target # 0
            BY <1>0, <1>r DEF ExitOK, Exiting
        <3>2. r.target \in Range(proc_data) /\ r.target # n
            BY <1>0, <1>r, <3>1 DEF LocksOK, Kept
        <3>3. pdl[r.target].pid # pid
            BY <3>2 DEF RecordOK
        <3> QED BY <1>1, <1>r, <3>1, <3>3 DEF Purges
    <2>5. Allocations(pid)' = Allocations(pid) /\ Allocations(pid)' \in Nat
        <3>1. ListTypes
            BY DEF TracerInvariant, TypeOK
        <3>2. Allocations(pid) \in Nat /\ Allocations(pid)' \in Nat
            BY <1>2, <3>1, AllocationsAreCounted
        <3>3. Allocations(pid) = Allocations(pid)' + 0
            BY <1>2, <2>4
        <3> QED BY <3>2, <3>3
    <2> QED BY <2>1, <2>2, <2>3, <2>5
<1>13. cpu[c].target \in {0, cpu'[c].target}
    BY <1>r, <1>3, <1>4
<1>14. InvAccounts'
    BY <1>10, <1>11, <1>12, <1>13, AccountsKept
<1> QED BY <1>0, <1>10, <1>14, FrameStep

LEMMA PurgeStep ==
    ASSUME TracerInvariant, NEW c \in Cpus, remove_by_pid_from_mem_list(c)
    PROVE  TracerInvariant'
<1>0. At(c, "purge")
    BY DEF remove_by_pid_from_mem_list
<1>1. CASE Oops
    BY <1>1, OopsStep
<1>2. CASE ~Oops
    <2>1. ~Purges(c, cpu[c].w) => cpu[c].target # 0
        BY DEF Purges
    <2> QED BY <1>0, <1>2, <2>1, PurgeFree, PurgeSkip, PurgeEnd DEF remove_by_pid_from_mem_list
<1> QED BY <1>1, <1>2
(* The record is deleted and freed under proc_lock. *)
LEMMA UnlinkStep ==
    ASSUME TracerInvariant, NEW c \in Cpus, remove_process_unlink(c)
    PROVE  TracerInvariant'
<1>r. PICK r \in Tasks : r = cpu[c]
    BY TaskFacts
<1>0. /\ r.pc = "unlink" /\ TaskOK(c) /\ OnNodes(c) /\ LocksOK(c) /\ status # "oops"
      /\ Phase(c) = "unlink" /\ r.target # 0 /\ r.target \in Range(proc_data)
      /\ lock["proc_lock"] = c /\ r.addr = None
    <2>1. /\ r.pc = "unlink" /\ TaskOK(c) /\ OnNodes(c) /\ LocksOK(c) /\ status # "oops"
          /\ Phase(c) = "unlink"
        BY <1>r, TaskFacts DEF remove_process_unlink, At, Phase, Nested
    <2> QED BY <1>r, <2>1 DEF TaskOK, LocksOK, HoldsProc, Removing, OnTarget
<1>1. /\ proc_data' = list_del(proc_data, r.target) /\ Free(c, "proc", r.target)
      /\ cpu' = [cpu EXCEPT ![c] = Kfree(r, None, "removed")]
      /\ UNCHANGED <<status, registered, mem_data, pdl, mdl, lock, heap, calls>>
    BY <1>r DEF remove_process_unlink, proc_list_del
<1>2. /\ ListTypes' /\ InvLists' /\ Disturbs(c) /\ Early' = Early
      /\ (overlapped => overlapped') /\ Recount
      /\ Range(proc_data') = Range(proc_data) \ {r.target}
    BY <1>0, <1>1, ProcFreed
<1> DEFINE t == Kfree(r, None, "removed")
<1>3. /\ t \in Tasks /\ t.pid = r.pid /\ t.addr = None /\ t.p = r.p /\ t.q = r.q
      /\ t.target = r.target /\ t.w = r.w /\ t.x = r.x
      /\ t.pc = "removed" \/ (t.pc = "k_lock" /\ t.ret = "removed")
    BY <1>0, KfreeTask
<1> HIDE DEF t
<1>4. OthersKept(c) /\ cpu'[c] = t
    BY <1>1, <1>3, TaskFacts, TaskSet DEF t
<1>5. Phase(c)' = "removed" /\ ~Exiting(c)'
    BY <1>3, <1>4 DEF Phase, Nested, Exiting
<1>6. OnNodes(c)' /\ TaskOK(c)' /\ WalkOK(c)' /\ ExitOK(c)'
    BY <1>0, <1>1, <1>r, <1>3, <1>4, <1>5 DEF OnNodes, TaskOK, Nested, Removing, OnTarget,
        WalkOK, StandsOK, PurgeOK, Purging, ExitOK
<1>7. LocksOK(c)'
    BY <1>0, <1>1, <1>2, <1>3, <1>4, <1>5 DEF LocksOK, HoldsProc, Purging
<1>8. ASSUME NEW d \in Cpus \ {c} PROVE cpu[d].target = 0 /\ ~Exiting(d)
    <2>1. LocksOK(d) /\ ExitOK(d)
        BY TaskFacts
    <2>2. ~HoldsProc(d)
        BY <1>0, <1>8, <2>1 DEF LocksOK
    <2>3. proc_data # <<>>
        BY <1>0 DEF Range
    <2> QED BY <2>1, <2>2, <2>3 DEF HoldsProc, ExitOK
<1>9. status \notin {"init", "unloaded"}
    BY <1>0 DEF TracerInvariant, InvInit, InvExit, Range
<1>10. Frame(c)
    BY <1>0, <1>1, <1>r, <1>2, <1>3, <1>4, <1>5, <1>6, <1>7, <1>8, <1>9, TaskFacts DEF Frame, Locks
<1>11. Balanced(c)
    <2>1. ~PendingIn(c) /\ ~PendingIn(c)' /\ \A n : NotPassed(c, n)'
        BY <1>0, <1>r, <1>3, <1>4 DEF PendingIn, NotPassed
    <2>2. \A n, pid : /\ Due(c, pid)' = Due(c, pid)
                      /\ Credit(n)' = Credit(n) /\ Allocations(pid)' = Allocations(pid)
        BY <1>1, <2>1 DEF Due, PendingFor, Credit, Allocations
    <2> QED BY <2>1, <2>2 DEF Balanced
<1>12. cpu[c].target \in {0, cpu'[c].target}
    BY <1>r, <1>3, <1>4
<1>13. InvAccounts'
    BY <1>2, <1>10, <1>11, <1>12, AccountsKept
<1> QED BY <1>0, <1>10, <1>13, FrameStep

(* The exit frees the records from the head. *)
LEMMA DestroyFree ==
    ASSUME TracerInvariant, NEW c \in Cpus, At(c, "destroy_proc"), NEW n \in Range(proc_data),
           proc_list_del(n), Free(c, "proc", n),
           cpu' = [cpu EXCEPT ![c] = Kfree(cpu[c], None, "destroy_proc")],
           UNCHANGED <<status, registered, mem_data, pdl, mdl, lock, heap, calls>>
    PROVE  TracerInvariant'
<1>r. PICK r \in Tasks : r = cpu[c]
    BY TaskFacts
<1>0. /\ r.pc = "destroy_proc" /\ TaskOK(c) /\ OnNodes(c) /\ LocksOK(c)
      /\ Phase(c) = "destroy_proc" /\ Exiting(c) /\ r.target = 0 /\ status = "exit"
      /\ lock["proc_lock"] = c /\ r.addr = None
    <2>1. /\ r.pc = "destroy_proc" /\ TaskOK(c) /\ OnNodes(c) /\ LocksOK(c) /\ status # "oops"
          /\ Phase(c) = "destroy_proc" /\ Exiting(c) /\ ExitOK(c)
        BY <1>r, TaskFacts DEF At, Phase, Nested, Exiting
    <2> QED BY <1>r, <2>1 DEF TaskOK, LocksOK, ExitOK, HoldsProc, Removing, OnTarget
<1>1. proc_data' = list_del(proc_data, n)
    BY DEF proc_list_del
<1>2. /\ ListTypes' /\ InvLists' /\ Disturbs(c) /\ Early' = Early
      /\ (overlapped => overlapped') /\ Recount
    BY <1>1, ProcFreed
<1> DEFINE t == Kfree(r, None, "destroy_proc")
<1>3. /\ t \in Tasks /\ t.pid = r.pid /\ t.addr = None /\ t.p = r.p /\ t.q = r.q
      /\ t.target = r.target /\ t.w = r.w /\ t.x = r.x
      /\ t.pc = "destroy_proc" \/ (t.pc = "k_lock" /\ t.ret = "destroy_proc")
    BY <1>0, KfreeTask
<1> HIDE DEF t
<1>4. OthersKept(c) /\ cpu'[c] = t
    BY <1>r, <1>3, TaskFacts, TaskSet DEF t
<1>5. Phase(c)' = "destroy_proc"
    BY <1>3, <1>4 DEF Phase, Nested
<1>6. OnNodes(c)' /\ TaskOK(c)' /\ WalkOK(c)' /\ ExitOK(c)'
    BY <1>0, <1>r, <1>3, <1>4, <1>5 DEF OnNodes, TaskOK, Nested, Removing, OnTarget,
        WalkOK, StandsOK, PurgeOK, Purging, ExitOK
<1>7. LocksOK(c)'
    BY <1>0, <1>3, <1>4, <1>5 DEF LocksOK, HoldsProc, Purging
<1>8. ASSUME NEW d \in Cpus \ {c} PROVE cpu[d].target = 0 /\ ~Exiting(d)
    <2>1. LocksOK(d)
        BY TaskFacts
    <2>2. ~HoldsProc(d)
        BY <1>0, <1>8, <2>1 DEF LocksOK
    <2>3. ~Exiting(d)
        BY <1>0, <1>8 DEF TracerInvariant, InvExit
    <2> QED BY <2>2, <2>3 DEF HoldsProc
<1>10. Frame(c)
    BY <1>0, <1>r, <1>2, <1>3, <1>4, <1>5, <1>6, <1>7, <1>8, TaskFacts DEF Frame, Locks
<1>13. InvAccounts'
    BY <1>0, <1>2, <1>10, AccountsKept
<1> QED BY <1>0, <1>10, <1>13, FrameStep

LEMMA DestroyStep ==
    ASSUME TracerInvariant, NEW c \in Cpus, destroy_proc_list(c)
    PROVE  TracerInvariant'
<1>1. CASE First(proc_data) = 0
    BY <1>1, DestroyEnd DEF destroy_proc_list
<1>2. CASE First(proc_data) # 0
    <2>1. First(proc_data) \in Range(proc_data)
        BY <1>2, ProcWalk
    <2> QED BY <1>2, <2>1, DestroyFree DEF destroy_proc_list
<1> QED BY <1>1, <1>2

(* The memory a probe saw allocated is put on the list. *)
LEMMA SaveStep ==
    ASSUME TracerInvariant, NEW c \in Cpus, save_mem_data(c)
    PROVE  TracerInvariant'
<1>r. PICK r \in Tasks : r = cpu[c]
    BY TaskFacts
<1>0. /\ r.pc = "save" /\ TaskOK(c) /\ OnNodes(c) /\ status # "oops" /\ Phase(c) = "save"
      /\ r.addr \in Addresses /\ r.pid \in Pids /\ "kmalloc" \in registered
      /\ UNCHANGED <<status, registered, proc_data, pdl, freed, overlapped, lock, heap, calls>>
    <2>1. /\ r.pc = "save" /\ TaskOK(c) /\ OnNodes(c) /\ status # "oops" /\ Phase(c) = "save"
        BY <1>r, TaskFacts DEF save_mem_data, At, Phase, Nested
    <2> QED BY <1>r, <2>1 DEF TaskOK, save_mem_data
<1> DEFINE n == Len(mdl) + 1
           m == [pid |-> r.pid, addr |-> r.addr, late |-> status = "exit"]
<1>1. /\ mem_data \in Seq(DOMAIN mdl) /\ DOMAIN mdl = 1 .. Len(mdl) /\ Len(mdl) \in Nat
      /\ Decreasing(mem_data) /\ Range(mem_data) \subseteq DOMAIN mdl
      /\ \A k \in Nat : <<"mem", k>> \in freed <=> k \in DOMAIN mdl /\ k \notin Range(mem_data)
    BY ListFacts
<1>2. /\ mdl' \in Seq(MemNodes) /\ Len(mdl') = n /\ mdl'[n] = m /\ DOMAIN mdl' = 1 .. n
      /\ \A k \in DOMAIN mdl : mdl'[k] = mdl[k]
    <2>1. mdl \in Seq(MemNodes) /\ mdl' = Append(mdl, m)
        BY <1>r DEF TracerInvariant, TypeOK, ListTypes, save_mem_data
    <2>2. m \in MemNodes
        BY <1>0 DEF MemNodes
    <2> HIDE DEF m
    <2> QED BY <1>1, <2>1, <2>2
<1>3. /\ mem_data' \in Seq(DOMAIN mdl') /\ Decreasing(mem_data')
      /\ Range(mem_data') = Range(mem_data) \cup {n}
    <2>1. mem_data' = <<n>> \o mem_data
        BY <1>2 DEF save_mem_data
    <2>2. DOMAIN mdl \in SUBSET Nat /\ n \in Nat /\ (\A k \in DOMAIN mdl : k < n)
        BY <1>1
    <2> HIDE DEF n
    <2>3. mem_data' \in Seq(DOMAIN mdl \cup {n})
        BY <1>1, <2>1, <2>2, PrependOne
    <2>4. DOMAIN mdl' = DOMAIN mdl \cup {n}
        BY <1>1, <1>2 DEF n
    <2> QED BY SMTT(40), <1>1, <2>1, <2>2, <2>3, <2>4, PrependOne
<1>4. OthersKept(c) /\ cpu'[c] = Idle
    BY IdleIsTask, TaskFacts, TaskSet DEF save_mem_data, Return
<1>5. Phase(c)' = "idle" /\ cpu'[c].pc = "idle" /\ cpu'[c].target = 0 /\ cpu'[c].pid = None
    BY <1>4 DEF Phase, Nested, Idle
<1>6. ListTypes' /\ InvLists' /\ Disturbs(c)
    <2>1. ListTypes /\ InvLists
        BY DEF TracerInvariant, TypeOK
    <2>2. ListTypes'
        BY <1>0, <1>2, <1>3, <2>1 DEF ListTypes
    <2>3. ASSUME NEW k \in Nat
          PROVE  /\ <<"proc", k>> \in freed' <=> k \in DOMAIN pdl' /\ k \notin Range(proc_data')
                 /\ <<"mem", k>> \in freed' <=> k \in DOMAIN mdl' /\ k \notin Range(mem_data')
        BY <1>0, <1>1, <1>2, <1>3, <2>1 DEF InvLists
    <2>4. Decreasing(proc_data')
        BY <1>0, <2>1 DEF InvLists, Decreasing
    <2> QED BY <1>0, <1>3, <2>2, <2>3, <2>4 DEF InvLists, Disturbs
<1>7. status \in {"exit", "unloaded"} => Early' \subseteq Early
    <2>1. status # "unloaded"
        BY <1>0 DEF TracerInvariant, InvExit
    <2>2. status = "exit" => mdl'[n].late
        <3> SUFFICES ASSUME status = "exit" PROVE mdl'[n].late
            OBVIOUS
        <3>1. m = [pid |-> r.pid, addr |-> r.addr, late |-> TRUE]
            OBVIOUS
        <3> QED BY <1>2, <3>1
    <2> HIDE DEF n
    <2> QED BY <1>1, <1>2, <1>3, <2>1, <2>2 DEF Early
<1>8. ~Removing(c) /\ ~Removing(c)' /\ cpu[c].target = 0
    BY <1>0, <1>5, <1>r DEF TaskOK, Removing, OnTarget
<1>9. /\ OnNodes(c)' /\ TaskOK(c)' /\ WalkOK(c)' /\ LocksOK(c)' /\ ExitOK(c)' /\ ~Exiting(c)'
    BY <1>4, <1>5, <1>8 DEF OnNodes, TaskOK, Nested, Removing, OnTarget,
        WalkOK, StandsOK, PurgeOK, Purging, ExitOK, Exiting, LocksOK, HoldsProc, Idle
<1>10. Frame(c)
    BY <1>0, <1>1, <1>2, <1>4, <1>5, <1>6, <1>7, <1>9, TaskFacts DEF Frame, Locks
<1>11. Recount /\ Balanced(c)
    <2>1. Recount
        BY <1>0 DEF Recount
    <2> SUFFICES ASSUME NEW k \in Range(proc_data), NEW pid \in Pids
                 PROVE  /\ NotPassed(c, k)'
                        /\ Credit(k)' + Allocations(pid) + Due(c, pid)
                            = Credit(k) + Allocations(pid)' + Due(c, pid)'
        BY <1>0, <2>1 DEF Balanced
    <2>2. NotPassed(c, k)' /\ Credit(k)' = Credit(k) /\ Credit(k) \in Int
        BY <1>0, <1>5, ListFacts DEF NotPassed, Credit, ProcNodes, Counters, Probes
    <2>3. Due(c, pid) = (IF r.pid = pid THEN 1 ELSE 0) /\ Due(c, pid)' = 0
        BY <1>0, <1>r, <1>5, TaskFacts DEF Due, PendingFor, PendingIn
    <2>4. Allocations(pid)' = Allocations(pid) + IF r.pid = pid THEN 1 ELSE 0
        <3>1. ListTypes
            BY DEF TracerInvariant, TypeOK
        <3>2. n \notin Range(mem_data) /\ mdl'[n].pid = r.pid
            BY <1>1, <1>2
        <3>3. \A k2 \in Range(mem_data) : mdl'[k2] = mdl[k2]
            BY <1>1, <1>2
        <3> HIDE DEF n
        <3>4. Allocations(pid)' = Allocations(pid) + IF mdl'[n].pid = pid THEN 1 ELSE 0
            BY <1>3, <1>6, <3>1, <3>2, <3>3, AllocationsMore
        <3> QED BY <3>2, <3>4
    <2>5. Allocations(pid) \in Nat
        <3>1. ListTypes
            BY DEF TracerInvariant, TypeOK
        <3> QED BY <1>6, <3>1, AllocationsAreCounted
    <2> QED BY <2>2, <2>3, <2>4, <2>5
<1>12. InvAccounts'
    BY <1>8, <1>10, <1>11, AccountsKept
<1> QED BY <1>0, <1>10, <1>12, FrameStep
(* A record is added.  It is clean when its process has no other and is in  *)
(* no probe; the others of the process are not clean any more.              *)
LEMMA AddStep ==
    ASSUME TracerInvariant, NEW c \in Cpus, NEW pid \in Pids, add_process(c, pid)
    PROVE  TracerInvariant'
<1>n. PICK n \in Nat : n = Len(pdl) + 1
    BY ListFacts
<1>0. /\ cpu[c].pc = "idle" /\ status = "loaded" /\ lock["proc_lock"] = None
      /\ UNCHANGED <<status, registered, mem_data, mdl, freed, overlapped, lock, cpu, heap, calls>>
      /\ proc_data' = <<n>> \o proc_data
    BY <1>n DEF add_process, At
<1>i. cpu[c] = Idle /\ ~Exiting(c)
    BY <1>0, IdleFields
<1>1. PICK rec : /\ pdl' = Append(Unclean(pid), rec)
                 /\ rec \in ProcNodes /\ rec.pid = pid /\ rec.base = Allocations(pid)
                 /\ rec.count["kmalloc_mem"] = 0 /\ rec.count["kfree_mem"] = 0
                 /\ rec.clean => Records(pid) = {} /\ ~Busy(pid)
    <2> DEFINE good == Records(pid) = {} /\ ~Busy(pid)
               rec == [pid |-> pid, count |-> [k \in Counters |-> 0],
                       base |-> Allocations(pid), clean |-> good]
    <2>1. pdl' = Append(Unclean(pid), rec)
        BY DEF add_process
    <2>2. Allocations(pid) \in Nat /\ good \in BOOLEAN
        <3>1. ListTypes
            BY DEF TracerInvariant, TypeOK
        <3>2. {k \in Range(mem_data) : mdl[k].pid = pid} \subseteq 1 .. Len(mdl) /\ Len(mdl) \in Nat
            BY ListFacts
        <3> QED BY <3>2, SomeNodes DEF Allocations
    <2> HIDE DEF good
    <2>3. /\ rec \in ProcNodes /\ rec.pid = pid /\ rec.base = Allocations(pid)
          /\ rec.count["kmalloc_mem"] = 0 /\ rec.count["kfree_mem"] = 0
        BY <2>2 DEF ProcNodes, Counters
    <2>4. rec.clean => good
        <3> SUFFICES ASSUME ~good PROVE ~rec.clean
            OBVIOUS
        <3>1. good = FALSE
            BY <2>2
        <3>2. rec = [pid |-> pid, count |-> [k \in Counters |-> 0],
                     base |-> Allocations(pid), clean |-> FALSE]
            BY <3>1
        <3> HIDE DEF rec
        <3> QED BY <3>2
    <2> HIDE DEF rec
    <2> QED BY <2>1, <2>3, <2>4 DEF good
<1>2. /\ Unclean(pid) \in Seq(ProcNodes) /\ DOMAIN Unclean(pid) = DOMAIN pdl
      /\ Len(Unclean(pid)) = Len(pdl)
      /\ \A k \in DOMAIN pdl :
            /\ Unclean(pid)[k].pid = pdl[k].pid /\ Unclean(pid)[k].base = pdl[k].base
            /\ Unclean(pid)[k].count = pdl[k].count
            /\ Unclean(pid)[k].clean => pdl[k].clean /\ pdl[k].pid # pid
    <2>1. pdl \in Seq(ProcNodes)
        BY DEF TracerInvariant, TypeOK, ListTypes
    <2> QED BY <2>1, UncleanList
<1>3. /\ proc_data \in Seq(DOMAIN pdl) /\ DOMAIN pdl = 1 .. Len(pdl) /\ Len(pdl) \in Nat
      /\ Decreasing(proc_data) /\ Range(proc_data) \subseteq DOMAIN pdl
      /\ \A k \in Nat : <<"proc", k>> \in freed <=> k \in DOMAIN pdl /\ k \notin Range(proc_data)
    BY ListFacts
<1>4. /\ pdl' \in Seq(ProcNodes) /\ Len(pdl') = n /\ pdl'[n] = rec /\ DOMAIN pdl' = 1 .. n
      /\ \A k \in DOMAIN pdl : pdl'[k] = Unclean(pid)[k]
    <2> DEFINE u == Unclean(pid)
    <2>1. u \in Seq(ProcNodes) /\ Len(u) = Len(pdl) /\ pdl' = Append(u, rec)
        BY <1>1, <1>2
    <2> HIDE DEF u
    <2>2. /\ pdl' \in Seq(ProcNodes) /\ Len(pdl') = n /\ pdl'[n] = rec /\ DOMAIN pdl' = 1 .. n
          /\ \A k \in 1 .. Len(u) : pdl'[k] = u[k]
        BY <1>n, <1>1, <1>3, <2>1
    <2> QED BY <1>3, <2>1, <2>2 DEF u
<1>5. /\ proc_data' \in Seq(DOMAIN pdl') /\ Decreasing(proc_data')
      /\ Range(proc_data') = Range(proc_data) \cup {n}
    <2>1. DOMAIN pdl \in SUBSET Nat /\ n \in Nat /\ (\A k \in DOMAIN pdl : k < n)
        BY <1>n, <1>3
    <2>2. DOMAIN pdl' = DOMAIN pdl \cup {n}
        BY <1>n, <1>3, <1>4
    <2>3. proc_data' \in Seq(DOMAIN pdl \cup {n})
        BY <1>0, <1>3, <2>1, PrependOne
    <2>4. Decreasing(proc_data') /\ Range(proc_data') = Range(proc_data) \cup {n}
        <3> DEFINE longer == <<n>> \o proc_data
        <3>1. Decreasing(longer) /\ Range(longer) = Range(proc_data) \cup {n}
            <4>1. Decreasing(proc_data) /\ proc_data \in Seq(DOMAIN pdl)
                BY <1>3
            <4> HIDE DEF longer
            <4> QED BY <2>1, <4>1, PrependOne DEF longer
        <3>2. longer = proc_data'
            BY <1>0
        <3> HIDE DEF longer
        <3> QED BY <3>1, <3>2 DEF Decreasing, Range
    <2> QED BY <2>2, <2>3, <2>4
<1>6. ListTypes' /\ InvLists' /\ Disturbs(c)
    <2>1. ListTypes /\ InvLists
        BY DEF TracerInvariant, TypeOK
    <2>2. ListTypes'
        BY <1>0, <1>4, <1>5, <2>1 DEF ListTypes
    <2>3. ASSUME NEW k \in Nat
          PROVE  /\ <<"proc", k>> \in freed' <=> k \in DOMAIN pdl' /\ k \notin Range(proc_data')
                 /\ <<"mem", k>> \in freed' <=> k \in DOMAIN mdl' /\ k \notin Range(mem_data')
        BY SMTT(40), <1>n, <1>0, <1>3, <1>4, <1>5, <2>1 DEF InvLists
    <2>4. Decreasing(mem_data')
        BY <1>0, <2>1 DEF InvLists, Decreasing
    <2> QED BY <1>0, <1>5, <2>2, <2>3, <2>4 DEF InvLists, Disturbs
<1>7. ASSUME NEW d \in Cpus PROVE cpu[d].target = 0 /\ ~Exiting(d)
    <2>1. LocksOK(d) /\ ExitOK(d) /\ None # d
        BY TaskFacts
    <2> QED BY <1>0, <2>1 DEF LocksOK, HoldsProc, ExitOK
<1>8. OthersKept(c)
    BY <1>0, TaskFacts DEF OthersKept, TypeOK
<1>9. /\ OnNodes(c)' /\ TaskOK(c)' /\ WalkOK(c)' /\ LocksOK(c)' /\ ExitOK(c)' /\ ~Exiting(c)'
    <2>1. Phase(c)' = "idle" /\ cpu'[c] = Idle
        BY <1>0, <1>i DEF Phase, Nested, Idle
    <2> QED BY <2>1 DEF OnNodes, TaskOK, Nested, Removing, OnTarget,
            WalkOK, StandsOK, PurgeOK, Purging, ExitOK, Exiting, LocksOK, HoldsProc, Idle
<1>10. Frame(c)
    BY <1>n, <1>0, <1>3, <1>4, <1>6, <1>7, <1>8, <1>9, TaskFacts DEF Frame, Locks
<1>11. \A p : Pending(p)' = Pending(p) /\ Allocations(p)' = Allocations(p)
    BY <1>0 DEF Pending, PendingFor, PendingIn, Allocations
<1>12. ASSUME Kept(n)' PROVE RecordOK(n)'
    <2>1. Records(pid) = {} /\ ~Busy(pid)
        BY <1>1, <1>4, <1>12 DEF Kept
    <2>2. \A m \in Range(proc_data') : pdl'[m].pid = pdl'[n].pid => m = n
        BY <1>1, <1>2, <1>3, <1>4, <1>5, <2>1 DEF Records
    <2>3. \A d \in Cpus : NotPassed(d, n)'
        BY <1>0, <1>1, <1>4, <2>1 DEF NotPassed, Busy
    <2>4. Pending(pid)' = 0 /\ Allocations(pid)' = rec.base /\ rec.base \in Nat
        BY <1>1, <1>11, <2>1 DEF Pending, PendingFor, Busy, ProcNodes
    <2>5. /\ pdl'[n].pid = pid
          /\ pdl'[n].count["kmalloc_mem"] - pdl'[n].count["kfree_mem"] + pdl'[n].base
                = Allocations(pid)' + Pending(pid)'
        BY <1>1, <1>4, <2>4
    <2> QED BY <2>2, <2>3, <2>5 DEF RecordOK
<1>13. ASSUME NEW k \in Range(proc_data), Kept(k)' PROVE RecordOK(k)'
    <2>1. k \in DOMAIN pdl /\ k # n /\ pdl'[k] = Unclean(pid)[k]
        BY <1>n, <1>3, <1>4
    <2>2. pdl[k].clean /\ pdl[k].pid # pid /\ pdl'[k].pid = pdl[k].pid
          /\ pdl'[k].base = pdl[k].base /\ pdl'[k].count = pdl[k].count
        BY <1>2, <1>13, <2>1 DEF Kept
    <2>3. Kept(k)
        BY <1>0, <1>13, <2>2 DEF Kept
    <2>4. RecordOK(k)
        BY <1>0, <2>3 DEF TracerInvariant, InvAccounts
    <2>5. \A m \in Range(proc_data') : pdl'[m].pid = pdl'[k].pid => m = k
        BY <1>1, <1>2, <1>3, <1>4, <1>5, <2>2, <2>4 DEF RecordOK
    <2>6. \A d \in Cpus : NotPassed(d, k)'
        BY <1>0, <2>2, <2>4 DEF RecordOK, NotPassed
    <2> QED BY <1>11, <2>2, <2>4, <2>5, <2>6 DEF RecordOK
<1>14. InvAccounts'
    BY <1>5, <1>12, <1>13 DEF InvAccounts
<1> QED BY <1>0, <1>10, <1>14, FrameStep
-----------------------------------------------------------------------------
(* Loading and unloading. *)

(* A step that changes what is registered, and no processor. *)
LEMMA StatusStep ==
    ASSUME TracerInvariant, UNCHANGED <<lists, lock, cpu, heap, calls>>,
           status' \in {"init", "failed", "loaded", "stray"},
           registered' \subseteq {"dev", "proc", "kfree", "calls", "kmalloc"},
           registered \subseteq registered', \A c \in Cpus : ~Exiting(c),
           InvInit', status' = "loaded" => proc_data = <<>>
    PROVE  TracerInvariant'
<1>0. /\ UNCHANGED <<proc_data, mem_data, pdl, mdl, freed, overlapped, lock, cpu, heap, calls>>
      /\ TypeOK /\ InvLists /\ InvTasks /\ InvLocks /\ InvWalks
    BY DEF lists, TracerInvariant
<1>1. TypeOK'
    <2>1. registered' \subseteq Range(Registered)
        BY DEF Range, Registered
    <2> QED BY <1>0, <2>1 DEF TypeOK, ListTypes, OnNodes
<1>2. InvLists' /\ InvLocks' /\ InvWalks'
    BY <1>0 DEF InvLists, Decreasing, InvLocks, LocksOK, HoldsProc, Purging, InvWalks, WalkOK,
        StandsOK, PurgeOK, Phase, Nested
<1>3. InvTasks'
    BY <1>0 DEF InvTasks, TaskOK, Phase, Nested, Removing, OnTarget
<1>4. InvExit'
    <2>1. \A c \in Cpus : ~Exiting(c)'
        BY <1>0 DEF Exiting, Phase, Nested
    <2> QED BY <2>1 DEF InvExit, ExitOK
<1>5. InvAccounts'
    BY <1>0 DEF InvAccounts, Range
<1> QED BY <1>1, <1>2, <1>3, <1>4, <1>5 DEF TracerInvariant

LEMMA LoadingOrder ==
    ASSUME NEW S \in Loading
    PROVE  LET next == Registered[Cardinality(S) + 1] IN
           /\ next \in {"dev", "proc", "kfree", "calls", "kmalloc"}
           /\ next # "kmalloc" => S \cup {next} \in Loading
           /\ S \subseteq {"dev", "proc", "kfree", "calls"}
<1>0. IsFiniteSet({}) /\ Cardinality({}) = 0
    BY FS_EmptySet
<1> DEFINE S1 == {"dev"}
           S2 == S1 \cup {"proc"}
           S3 == S2 \cup {"kfree"}
           S4 == S3 \cup {"calls"}
<1>1. IsFiniteSet(S1) /\ Cardinality(S1) = 1
    BY <1>0, FS_Singleton
<1>2. IsFiniteSet(S2) /\ Cardinality(S2) = 2
    <2>1. "proc" \notin S1
        OBVIOUS
    <2> HIDE DEF S1
    <2> QED BY <1>1, <2>1, FS_AddElement
<1>3. IsFiniteSet(S3) /\ Cardinality(S3) = 3
    <2>1. "kfree" \notin S2
        OBVIOUS
    <2> HIDE DEF S2
    <2> QED BY <1>2, <2>1, FS_AddElement
<1>4. IsFiniteSet(S4) /\ Cardinality(S4) = 4
    <2>1. "calls" \notin S3
        OBVIOUS
    <2> HIDE DEF S3
    <2> QED BY <1>3, <2>1, FS_AddElement
<1>5. /\ S1 = {"dev"} /\ S2 = {"dev", "proc"} /\ S3 = {"dev", "proc", "kfree"}
      /\ S4 = {"dev", "proc", "kfree", "calls"}
    OBVIOUS
<1> HIDE DEF S1, S2, S3, S4
<1>6. CASE S = {}
    BY <1>0, <1>6 DEF Registered, Loading
<1>7. CASE S = {"dev"}
    BY <1>1, <1>5, <1>7 DEF Registered, Loading
<1>8. CASE S = {"dev", "proc"}
    BY <1>2, <1>5, <1>8 DEF Registered, Loading
<1>9. CASE S = {"dev", "proc", "kfree"}
    BY <1>3, <1>5, <1>9 DEF Registered, Loading
<1>10. CASE S = {"dev", "proc", "kfree", "calls"}
    BY <1>4, <1>5, <1>10 DEF Registered, Loading
<1> QED BY <1>6, <1>7, <1>8, <1>9, <1>10 DEF Loading

LEMMA InitStep ==
    ASSUME TracerInvariant, tracer_init
    PROVE  TracerInvariant'
<1> DEFINE next == Registered[Cardinality(registered) + 1]
<1>0. /\ status = "init" /\ registered \in Loading /\ proc_data = <<>>
      /\ UNCHANGED <<lists, lock, cpu, heap, calls>> /\ proc_data' = <<>>
    BY DEF tracer_init, TracerInvariant, InvInit, lists
<1>1. /\ next \in {"dev", "proc", "kfree", "calls", "kmalloc"}
      /\ next # "kmalloc" => registered \cup {next} \in Loading
      /\ registered \subseteq {"dev", "proc", "kfree", "calls"}
    BY <1>0, LoadingOrder
<1>2. \A c \in Cpus : ~Exiting(c)
    BY <1>0, TaskFacts DEF ExitOK
<1>3. \/ /\ registered' = registered \cup {next}
         /\ status' = IF next = "kmalloc" THEN "loaded" ELSE "init"
      \/ status' = "failed" /\ UNCHANGED registered
    BY DEF tracer_init
<1> HIDE DEF next
<1> QED BY <1>0, <1>1, <1>2, <1>3, StatusStep DEF InvInit

LEMMA StrayStep ==
    ASSUME TracerInvariant, stray_call
    PROVE  TracerInvariant'
<1>1. \A c \in Cpus : ~Exiting(c)
    BY TaskFacts DEF ExitOK, stray_call
<1>2. registered \subseteq {"dev", "proc", "kfree", "calls", "kmalloc"}
    BY DEF TracerInvariant, TypeOK, Range, Registered
<1> QED BY <1>1, <1>2, StatusStep DEF stray_call, InvInit

(* The exit function begins, when no ioctl is under way. *)
LEMMA ExitStep ==
    ASSUME TracerInvariant, NEW c \in Cpus, NEW pid \in Pids, tracer_exit(c, pid)
    PROVE  TracerInvariant'
<1>0. /\ cpu[c].pc = "idle" /\ status = "loaded" /\ status' = "exit" /\ lock["proc_lock"] = None
      /\ lock' = [lock EXCEPT !["proc_lock"] = c] /\ calls' = calls + 1 /\ calls < MaxCalls
      /\ \A d \in Cpus : cpu[d].pid # pid
      /\ UNCHANGED <<registered, proc_data, mem_data, pdl, mdl, freed, overlapped, heap>>
      /\ TypeOK /\ InvLists /\ InvTasks /\ InvLocks /\ InvWalks
    BY DEF tracer_exit, Runs, At, Take, lists, TracerInvariant
<1> DEFINE t == [Idle EXCEPT !.pc = "destroy_proc", !.pid = pid]
<1>1. /\ t \in Tasks /\ t.pc = "destroy_proc" /\ t.pid = pid /\ t.target = 0 /\ t.addr = None
      /\ t.p = 0 /\ t.q = 0 /\ t.w = 0 /\ t.x = 0
    BY IdleIsTask DEF Tasks, Idle, Labels
<1>2. OthersKept(c) /\ cpu'[c] = t
    <2>1. cpu' = [cpu EXCEPT ![c] = t]
        BY DEF tracer_exit
    <2> QED BY <1>0, <1>1, <2>1, TaskSet
<1> HIDE DEF t
<1>3. \A d \in Cpus \ {c} :
        /\ Phase(d)' = Phase(d) /\ Exiting(d)' = Exiting(d) /\ cpu'[d] = cpu[d]
        /\ HoldsProc(d)' = HoldsProc(d) /\ Purging(d)' = Purging(d)
    BY <1>2 DEF OthersKept, Phase, Nested, Exiting, HoldsProc, Purging
<1>4. Phase(c)' = "destroy_proc" /\ Exiting(c)'
    BY <1>1, <1>2 DEF Phase, Nested, Exiting
<1>5. \A d \in Cpus \ {c} : ~Exiting(d) /\ ~HoldsProc(d)
    BY <1>0, TaskFacts DEF ExitOK, LocksOK
<1>6. /\ lock' \in [Locks -> Cpus \cup {None}] /\ lock'["proc_lock"] = c
      /\ lock'["mem_lock_out"] = lock["mem_lock_out"]
    BY <1>0, TaskFacts DEF Locks
<1>7. TypeOK'
    <2>1. \A d \in Cpus : OnNodes(d)'
        BY <1>0, <1>1, <1>2, <1>3 DEF TypeOK, OnNodes
    <2>2. cpu' \in [Cpus -> Tasks] /\ calls' \in 0 .. MaxCalls
        BY <1>0, <1>2, TaskFacts DEF OthersKept
    <2> QED BY <1>0, <1>6, <2>1, <2>2 DEF TypeOK, ListTypes
<1>8. InvLists'
    BY <1>0 DEF InvLists, Decreasing
<1>9. InvTasks'
    <2>1. \A d \in Cpus \ {c} : TaskOK(d)'
        BY <1>0, <1>3 DEF InvTasks, TaskOK, Phase, Nested, OnTarget, Removing
    <2>2. TaskOK(c)'
        BY <1>1, <1>2, <1>4 DEF TaskOK, Nested, Removing, OnTarget
    <2>3. \A d, e \in Cpus : cpu'[d].pid = cpu'[e].pid /\ cpu'[d].pid # None => d = e
        BY <1>0, <1>1, <1>2, <1>3 DEF InvTasks
    <2> QED BY <2>1, <2>2, <2>3 DEF InvTasks
<1>10. InvLocks'
    <2>1. \A d \in Cpus \ {c} : LocksOK(d)'
        BY <1>0, <1>3, <1>5, <1>6, TaskFacts DEF LocksOK
    <2>2. LocksOK(c)'
        BY <1>1, <1>2, <1>4, <1>6 DEF LocksOK, HoldsProc, Purging
    <2> QED BY <2>1, <2>2 DEF InvLocks
<1>11. InvWalks'
    <2>1. WalkOK(c)'
        BY <1>1, <1>2, <1>4 DEF WalkOK, StandsOK, PurgeOK, Purging
    <2>2. \A d \in Cpus \ {c} : WalkOK(d) => WalkOK(d)'
        BY <1>0, <1>3 DEF WalkOK, StandsOK, PurgeOK
    <2> QED BY <1>0, <2>1, <2>2 DEF InvWalks
<1>12. InvExit'
    <2>1. \A d \in Cpus : ExitOK(d)'
        BY <1>0, <1>3, <1>4, <1>5 DEF ExitOK
    <2> QED BY <1>0, <1>3, <1>5, <2>1 DEF InvExit
<1>13. InvInit' /\ InvAccounts'
    BY <1>0 DEF InvInit, InvAccounts
<1> QED BY <1>7, <1>8, <1>9, <1>10, <1>11, <1>12, <1>13 DEF TracerInvariant

(* A part is unregistered once no handler is under way that could still     *)
(* record memory; then the module is gone, its lists with nothing on them   *)
(* but late memory.                                                         *)
LEMMA UnregisterStep ==
    ASSUME TracerInvariant, NEW c \in Cpus, unregister(c)
    PROVE  TracerInvariant'
<1>0. /\ cpu[c].pc = "unregister" /\ status = "exit" /\ Phase(c) = "unregister"
      /\ proc_data = <<>> /\ Early = {} /\ Exiting(c) /\ \A d \in Cpus \ {c} : ~Exiting(d)
      /\ UNCHANGED <<proc_data, mem_data, pdl, mdl, freed, overlapped, lock, heap, calls>>
      /\ TypeOK /\ InvLists /\ InvTasks /\ InvLocks /\ InvWalks /\ InvExit
    <2>1. Exiting(c) /\ Phase(c) = "unregister" /\ cpu[c].pc = "unregister" /\ status # "oops"
        BY DEF unregister, At, Exiting, Phase, Nested
    <2> QED BY <2>1, TaskFacts DEF unregister, ExitOK, lists, TracerInvariant, InvExit
<1>1. CASE UNCHANGED <<status, cpu>>
    <2>1. PICK name \in registered :
            /\ IF name = "proc" THEN \A d \in Cpus : cpu[d].pc # "show"
               ELSE \A d \in Cpus : ~InHandler(d)
            /\ registered' = registered \ {name}
        BY <1>0, <1>1 DEF unregister, UnregisterAll
    <2>2. \A d \in Cpus : Phase(d)' = Phase(d)
        BY <1>1 DEF Phase, Nested
    <2>3. TypeOK'
        BY <1>0, <1>1, <2>1 DEF TypeOK, ListTypes, OnNodes
    <2>4. InvLists' /\ InvLocks' /\ InvWalks'
        BY <1>0, <1>1, <2>2 DEF InvLists, Decreasing, InvLocks, LocksOK, HoldsProc, Purging,
            InvWalks, WalkOK, StandsOK, PurgeOK
    <2>5. InvTasks'
        <3>1. ASSUME NEW d \in Cpus, Phase(d) = "save" PROVE "kmalloc" \in registered'
            <4>1. "kmalloc" \in registered
                BY <1>0, <3>1 DEF InvTasks, TaskOK
            <4>2. name # "kmalloc"
                BY <2>1, <3>1 DEF InHandler, Phase, Nested
            <4> QED BY <2>1, <4>1, <4>2
        <3> QED BY <1>0, <1>1, <2>2, <3>1 DEF InvTasks, TaskOK, Nested, Removing, OnTarget
    <2>6. InvExit'
        <3>1. \A d \in Cpus : Exiting(d)' = Exiting(d)
            BY <1>1, <2>2 DEF Exiting
        <3>2. \A d \in Cpus : ExitOK(d)'
            BY <1>0, <1>1, <2>2, <3>1 DEF ExitOK, Early
        <3> QED BY <1>0, <1>1, <3>1, <3>2 DEF InvExit
    <2>7. InvInit' /\ InvAccounts'
        BY <1>0, <1>1 DEF InvInit, InvAccounts
    <2> QED BY <2>3, <2>4, <2>5, <2>6, <2>7 DEF TracerInvariant
<1>2. CASE registered = {} /\ status' = "unloaded" /\ Return(c) /\ UNCHANGED registered
    <2>1. OthersKept(c) /\ cpu'[c] = Idle
        BY <1>0, <1>2, IdleIsTask, TaskSet DEF Return
    <2>2. /\ Phase(c)' = "idle" /\ cpu'[c].pc = "idle" /\ cpu'[c].target = 0 /\ cpu'[c].pid = None
          /\ ~Exiting(c)'
        BY <2>1 DEF Phase, Nested, Idle, Exiting
    <2>3. \A d \in Cpus \ {c} :
            /\ Phase(d)' = Phase(d) /\ Exiting(d)' = Exiting(d) /\ cpu'[d] = cpu[d]
            /\ HoldsProc(d)' = HoldsProc(d) /\ Purging(d)' = Purging(d)
        BY <2>1 DEF OthersKept, Phase, Nested, Exiting, HoldsProc, Purging
    <2>4. TypeOK'
        <3>1. \A d \in Cpus : OnNodes(d)'
            BY <1>0, <2>1, <2>3 DEF TypeOK, OnNodes, Idle
        <3>2. cpu' \in [Cpus -> Tasks]
            BY <2>1 DEF OthersKept
        <3> QED BY <1>0, <1>2, <3>1, <3>2 DEF TypeOK, ListTypes
    <2>5. InvLists'
        BY <1>0 DEF InvLists, Decreasing
    <2>6. InvTasks'
        <3>1. \A d \in Cpus \ {c} : TaskOK(d)'
            BY <1>0, <1>2, <2>3 DEF InvTasks, TaskOK, Phase, Nested, OnTarget, Removing
        <3>2. TaskOK(c)'
            BY <2>1, <2>2 DEF TaskOK, Nested, Removing, OnTarget
        <3> QED BY <1>0, <2>2, <2>3, <3>1, <3>2 DEF InvTasks
    <2>7. InvLocks'
        <3>1. \A d \in Cpus \ {c} : LocksOK(d)'
            BY <1>0, <2>3 DEF InvLocks, LocksOK
        <3>2. LocksOK(c)'
            BY <2>2 DEF LocksOK, HoldsProc, Purging
        <3> QED BY <3>1, <3>2 DEF InvLocks
    <2>8. InvWalks'
        <3>1. WalkOK(c)'
            BY <2>2 DEF WalkOK, StandsOK, PurgeOK, Purging
        <3>2. \A d \in Cpus \ {c} : WalkOK(d) => WalkOK(d)'
            BY <1>0, <2>3 DEF WalkOK, StandsOK, PurgeOK
        <3> QED BY <1>0, <3>1, <3>2 DEF InvWalks
    <2>9. InvExit'
        <3>1. \A d \in Cpus : ~Exiting(d)'
            BY <1>0, <2>2, <2>3
        <3>2. Early' = {}
            BY <1>0 DEF Early
        <3> QED BY <1>0, <1>2, <3>1, <3>2 DEF InvExit, ExitOK
    <2>10. InvInit' /\ InvAccounts'
        BY <1>2 DEF InvInit, InvAccounts
    <2> QED BY <2>4, <2>5, <2>6, <2>7, <2>8, <2>9, <2>10 DEF TracerInvariant
<1> QED BY <1>1, <1>2 DEF unregister, UnregisterAll
-----------------------------------------------------------------------------
(* Every step of every processor. *)

LEMMA TracerBegins == ASSUME Init PROVE TracerInvariant
<1>0. /\ status = "init" /\ registered = {}
      /\ proc_data = <<>> /\ mem_data = <<>> /\ pdl = <<>> /\ mdl = <<>> /\ freed = {}
      /\ lock = [l \in Locks |-> None] /\ cpu = [c \in Cpus |-> Idle]
      /\ heap = {} /\ calls = 0 /\ overlapped = FALSE
    BY DEF Init
<1>1. TypeOK
    <2>1. <<>> \in Seq(ProcNodes) /\ <<>> \in Seq(MemNodes) /\ <<>> \in Seq(DOMAIN pdl)
          /\ <<>> \in Seq(DOMAIN mdl)
        OBVIOUS
    <2>2. calls \in 0 .. MaxCalls
        BY <1>0, TracerAssumption
    <2>3. cpu \in [Cpus -> Tasks]
        BY <1>0, IdleIsTask
    <2>4. \A c \in Cpus : OnNodes(c)
        BY <1>0 DEF OnNodes, Idle
    <2> QED BY <1>0, <2>1, <2>2, <2>3, <2>4 DEF TypeOK, ListTypes
<1>2. InvLists
    BY <1>0 DEF InvLists, Decreasing, Range
<1>3. \A c \in Cpus : Phase(c) = "idle" /\ cpu[c] = Idle
    BY <1>0 DEF Phase, Nested, Idle
<1>4. InvTasks
    BY <1>3 DEF InvTasks, TaskOK, Nested, Removing, OnTarget, Idle
<1>5. InvLocks /\ InvWalks /\ InvInit
    BY <1>0, <1>3 DEF InvLocks, LocksOK, HoldsProc, Purging, InvWalks, WalkOK, StandsOK, PurgeOK,
        InvInit, Loading, Idle
<1>6. InvExit /\ InvAccounts
    BY <1>0, <1>3 DEF InvExit, ExitOK, Exiting, InvAccounts
<1> QED BY <1>1, <1>2, <1>4, <1>5, <1>6 DEF TracerInvariant

LEMMA ContinueStep ==
    ASSUME TracerInvariant, NEW c \in Cpus, Continue(c)
    PROVE  TracerInvariant'
<1>1. CASE increment_func_call(c) \/ kmalloc_handler(c) \/ save_mem_data(c)
    BY <1>1, IncrementStep, KmallocRetStep, SaveStep
<1>2. CASE save_mem_data_fails(c) \/ get_mem_data_lock(c) \/ get_mem_data(c)
    BY <1>2, SaveFailsStep, GetLockStep, GetStep
<1>3. CASE tracer_proc_info(c) \/ remove_by_pid_lock(c) \/ remove_by_pid_from_mem_list(c)
    BY <1>3, ShowStep, PurgeLockStep, PurgeStep
<1>4. CASE purge_next(c) \/ remove_process_unlink(c) \/ remove_process_return(c)
    BY <1>4, PurgeNextStep, UnlinkStep, ReturnStep
<1>5. CASE destroy_proc_list(c) \/ unregister(c)
    BY <1>5, DestroyStep, UnregisterStep
<1> QED BY <1>1, <1>2, <1>3, <1>4, <1>5 DEF Continue

LEMMA BeginningStep ==
    ASSUME TracerInvariant, NEW c \in Cpus, Begin(c)
    PROVE  TracerInvariant'
<1>1. CASE tracer_proc_info_open(c)
    BY <1>1, OpenStep
<1>2. ASSUME NEW pid \in Pids,
             sched_handler_pre(c, pid) \/ kmalloc_entry_handler(c, pid)
             \/ kfree_handler_pre(c, pid) \/ add_process(c, pid) \/ tracer_exit(c, pid)
      PROVE  TracerInvariant'
    BY <1>2, SchedStep, KmallocStep, KfreeStep, AddStep, ExitStep
<1>3. ASSUME NEW pid \in Pids, NEW other \in Pids, remove_process(c, other, pid)
      PROVE  TracerInvariant'
    BY <1>3, RemoveStep
<1> QED BY <1>1, <1>2, <1>3 DEF Begin

LEMMA TracerStep ==
    ASSUME TracerInvariant, [Next]_vars
    PROVE  TracerInvariant'
<1>1. CASE Next
    <2>1. CASE tracer_init \/ stray_call
        BY <2>1, InitStep, StrayStep
    <2>2. ASSUME NEW c \in Cpus, Begin(c) \/ Continue(c) PROVE TracerInvariant'
        BY <2>2, BeginningStep, ContinueStep
    <2> QED BY <1>1, <2>1, <2>2 DEF Next
<1>2. CASE UNCHANGED vars
    <2>1. UNCHANGED <<status, registered, proc_data, mem_data, pdl, mdl, freed, overlapped,
                      lock, cpu, heap, calls>>
        BY <1>2 DEF vars, lists
    <2>2. TypeOK' /\ InvLists' /\ InvLocks'
        BY <2>1 DEF TracerInvariant, TypeOK, ListTypes, OnNodes, InvLists, InvLocks, LocksOK,
            Decreasing, HoldsProc, Purging, Phase, Nested
    <2>3. InvTasks' /\ InvWalks'
        BY ZenonT(60), <2>1 DEF TracerInvariant, InvTasks, TaskOK, InvWalks, WalkOK, StandsOK, PurgeOK,
            Phase, Nested, Purging, Removing, OnTarget
    <2>4. InvInit' /\ InvExit'
        BY <2>1 DEF TracerInvariant, InvInit, InvExit, ExitOK, Exiting, Early, Phase, Nested
    <2>5. InvAccounts'
        BY <2>1 DEF TracerInvariant, InvAccounts, Kept, RecordOK, NotPassed, Allocations,
            Pending, PendingFor, PendingIn
    <2> QED BY <2>2, <2>3, <2>4, <2>5 DEF TracerInvariant
<1> QED BY <1>1, <1>2

(* The lists, the locks, the walks, the exit and the accounts are as the    *)
(* invariant says in every state of the module.                             *)
THEOREM TracerInvariantHolds == Spec => []TracerInvariant
<1>1. Init => TracerInvariant
    BY TracerBegins
<1>2. TracerInvariant /\ [Next]_vars => TracerInvariant'
    BY TracerStep
<1> QED BY <1>1, <1>2, PTL DEF Spec

(* Every variable keeps its type: in particular walks and removals stand on *)
(* nodes that were allocated, whatever the probes on other processors do.   *)
THEOREM TypeOKHolds == Spec => []TypeOK
<1>1. TracerInvariant => TypeOK
    BY DEF TracerInvariant
<1> QED BY <1>1, TracerInvariantHolds, PTL

(* tracer_exit and destroy_mem_list leave behind only memory that was       *)
(* recorded after they began.                                               *)
THEOREM LeaksOnlyLateHolds == Spec => []LeaksOnlyLate
<1>1. TracerInvariant => LeaksOnlyLate
    BY DEF TracerInvariant, InvExit, LeaksOnlyLate, Early
<1> QED BY <1>1, TracerInvariantHolds, PTL

(* While the module is loaded the counters of a traced process agree with   *)
(* its recorded memory, for any number of processors in the probes.         *)
THEOREM AccountsBalanceHolds == Spec => []AccountsBalance
<1>1. ASSUME TracerInvariant PROVE AccountsBalance
    <2> SUFFICES ASSUME status = "loaded", NEW n \in Range(proc_data), Settled(n)
                 PROVE  pdl[n].count["kmalloc_mem"] - pdl[n].count["kfree_mem"] + pdl[n].base
                            = Allocations(pdl[n].pid)
        BY DEF AccountsBalance
    <2>1. RecordOK(n)
        BY <1>1 DEF Settled, Kept, TracerInvariant, InvAccounts
    <2>2. Pending(pdl[n].pid) = 0
        BY DEF Settled, Busy, Pending, PendingFor
    <2>3. Allocations(pdl[n].pid) \in Nat
        <3>1. {k \in Range(mem_data) : mdl[k].pid = pdl[n].pid} \subseteq 1 .. Len(mdl)
              /\ Len(mdl) \in Nat
            BY <1>1, ListFacts
        <3> QED BY <3>1, SomeNodes DEF Allocations
    <2> QED BY <2>1, <2>2, <2>3 DEF RecordOK
<1> QED BY <1>1, TracerInvariantHolds, PTL
-----------------------------------------------------------------------------
(* Which steps bring the kernel down. *)

Crash == (status' = "oops" => overlapped) /\ (status' = "stray" => status = "failed")

LEMMA SafeAlone ==
    ASSUME TracerInvariant, NEW c \in Cpus, Continue(c)
    PROVE  Crash
<1>w. overlapped \/ (StandsOK(c) /\ PurgeOK(c))
    BY TaskFacts DEF WalkOK
<1>1. CASE increment_func_call(c)
    BY <1>1, <1>w DEF increment_func_call, At, StandsOK, Crash, Oops
<1>2. CASE get_mem_data(c)
    BY <1>2, <1>w DEF get_mem_data, At, StandsOK, Crash, Oops
<1>3. CASE tracer_proc_info(c)
    BY <1>3, <1>w DEF tracer_proc_info, At, StandsOK, Crash, Oops
<1>4. CASE remove_by_pid_from_mem_list(c)
    BY <1>4, <1>w DEF remove_by_pid_from_mem_list, At, PurgeOK, Purging, Phase, Nested, Crash, Oops
<1>5. CASE purge_next(c)
    BY <1>5, <1>w DEF purge_next, At, PurgeOK, Purging, Phase, Nested, Crash, Oops
<1>6. CASE kmalloc_handler(c) \/ save_mem_data(c) \/ save_mem_data_fails(c)
           \/ get_mem_data_lock(c) \/ remove_by_pid_lock(c) \/ remove_process_unlink(c)
           \/ remove_process_return(c) \/ destroy_proc_list(c)
    <2>1. status' = status /\ status \notin {"oops", "stray"}
        BY <1>6 DEF kmalloc_handler, save_mem_data, save_mem_data_fails, get_mem_data_lock,
            remove_by_pid_lock, remove_process_unlink, remove_process_return,
            destroy_proc_list, At
    <2> QED BY <2>1 DEF Crash
<1>7. CASE unregister(c)
    BY <1>7 DEF unregister, At, Crash
<1> QED BY <1>1, <1>2, <1>3, <1>4, <1>5, <1>6, <1>7 DEF Continue

LEMMA SafeBegins ==
    ASSUME NEW c \in Cpus, Begin(c)
    PROVE  Crash
<1>1. CASE tracer_proc_info_open(c)
    BY <1>1 DEF tracer_proc_info_open, At, Crash
<1>2. ASSUME NEW pid \in Pids, sched_handler_pre(c, pid) \/ kmalloc_entry_handler(c, pid)
                               \/ kfree_handler_pre(c, pid) \/ add_process(c, pid)
      PROVE  Crash
    <2>1. status' = status /\ status \notin {"oops", "stray"}
        BY <1>2 DEF sched_handler_pre, kmalloc_entry_handler, kfree_handler_pre, add_process,
            Runs, At
    <2> QED BY <2>1 DEF Crash
<1>3. ASSUME NEW pid \in Pids, tracer_exit(c, pid) PROVE Crash
    BY <1>3 DEF tracer_exit, Crash
<1>4. ASSUME NEW pid \in Pids, NEW other \in Pids, remove_process(c, other, pid) PROVE Crash
    BY <1>4 DEF remove_process, Runs, At, Crash
<1> QED BY <1>1, <1>2, <1>3, <1>4 DEF Begin

(* A freed node is visited only after somebody freed one during another's   *)
(* walk, and a probe outlives the module only when loading it failed.       *)
THEOREM OnlyRacesCrashHolds == Spec => OnlyRacesCrash
<1>1. ASSUME TracerInvariant, [Next]_vars
      PROVE  [/\ status' = "oops" => overlapped
              /\ status' = "stray" => status = "failed"]_vars
    <2> SUFFICES ASSUME Next PROVE Crash
        BY <1>1 DEF Crash
    <2>1. CASE tracer_init
        BY <2>1 DEF tracer_init, Crash
    <2>2. CASE stray_call
        BY <1>1, <2>2 DEF stray_call, Crash, TracerInvariant, InvExit
    <2>3. ASSUME NEW c \in Cpus, Begin(c) \/ Continue(c) PROVE Crash
        BY <1>1, <2>3, SafeAlone, SafeBegins
    <2> QED BY <2>1, <2>2, <2>3 DEF Next
<1> QED BY <1>1, TracerInvariantHolds, PTL DEF Spec, OnlyRacesCrash

===============================================================================
