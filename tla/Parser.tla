------------------------------- MODULE Parser -------------------------------
(***************************************************************************)
(* The command line of the mini-shell, "Operating Systems/Task1/parser.l"  *)
(* and "parser.y": what the generated parser makes of a line.              *)
(*                                                                         *)
(* A line is [cmds, ops]: simple commands and the operator after each but  *)
(* the last.  A simple command is [verb, red]; red is the sequence of its  *)
(* redirections <<kind, name>> in the order they are typed.  A tree names  *)
(* its commands by their place in the line: <<"none", i>> is command i,    *)
(* <<op, cmd1, cmd2>> an operator.                                         *)
(***************************************************************************)
EXTENDS Integers, Sequences, SequencesExt, FiniteSetsExt

Operators == {"sequential", "parallel", "zero", "nzero", "pipe"}
Kinds == {"<", ">", ">>", "2>", "2>>", "&>"}

(* The declarations %left: a later one binds more tightly.                 *)
Level == [sequential |-> 1, parallel |-> 2, zero |-> 3, nzero |-> 3, pipe |-> 4]
LeftStrictly(op, lookahead) == Level[op] > Level[lookahead]
Left(op, lookahead) == Level[op] >= Level[lookahead]

(* What the grammar accepts as a line.                                     *)
IsCommand(c) == c.red \in Seq(Range(c.red)) /\ \A r \in Range(c.red) : r[1] \in Kinds
IsLine(l) ==
    /\ l.cmds \in Seq(Range(l.cmds)) /\ l.cmds # <<>>
    /\ l.ops \in Seq(Operators) /\ Len(l.ops) = Len(l.cmds) - 1
    /\ \A c \in Range(l.cmds) : IsCommand(c)

-----------------------------------------------------------------------------
(* The stack of the parser: commands, and the operators between them.      *)
new_command(i) == <<"none", i>>
bind_commands(cmd1, cmd2, op) == <<op, cmd1, cmd2>>

Shift(c, l) ==
    LET i == Len(c.shifted) + 1 IN
    [c EXCEPT !.shifted = Append(@, i), !.cmds = Append(@, new_command(i)),
              !.ops = IF i > 1 THEN Append(@, l.ops[i - 1]) ELSE @]
Reduce(c) ==
    LET n == Len(c.cmds) IN
    [c EXCEPT !.cmds = Append(SubSeq(@, 1, n - 2),
                              bind_commands(@[n - 1], @[n], Last(c.ops))),
              !.ops = Front(@)]
yyparse_step(c, l) ==
    LET k == Len(c.shifted) IN
    IF c.ops # <<>> /\ (k = Len(l.cmds) \/ Left(Last(c.ops), l.ops[k])) THEN Reduce(c)
    ELSE Shift(c, l)
Moves(l) == 2 * Len(l.cmds) - 1
yyparse(l) ==
    LET c[k \in 0 .. Moves(l)] ==
            IF k = 0 THEN [shifted |-> <<>>, cmds |-> <<>>, ops |-> <<>>]
            ELSE yyparse_step(c[k - 1], l)
    IN c
parse_line(l) == yyparse(l)[Moves(l)].cmds[1]

-----------------------------------------------------------------------------
(* The words a simple command redirects descriptors 0, 1 and 2 to.  Node w *)
(* is the word of redirection w, next links the nodes of a list, and the   *)
(* node of "&>" is in two lists; append has the descriptors with ">>".     *)
NoWords == [list |-> [k \in 0 .. 2 |-> 0], next |-> <<>>, append |-> {}, ok |-> TRUE]

ListEnds(next) ==
    LET end[n \in DOMAIN next] == IF next[n] = 0 THEN n ELSE end[next[n]] IN end
EndOf(next, lst) == ListEnds(next)[lst]
(* A list that already ends with the node fails the last assert.           *)
add_word_to_list(r, w, k) ==
    IF ~r.ok THEN r
    ELSE IF r.list[k] = 0 THEN [r EXCEPT !.list[k] = w]
    ELSE LET end == EndOf(r.next, r.list[k]) IN
         IF end = w THEN [r EXCEPT !.ok = FALSE] ELSE [r EXCEPT !.next[end] = w]

Descriptor(kind) == CASE kind = "<" -> 0 [] kind \in {">", ">>"} -> 1 [] OTHER -> 2
redirect_step(r, kind) ==
    LET w == Len(r.next) + 1
        n == [r EXCEPT !.next = Append(@, 0)] IN
    IF kind = "&>" THEN add_word_to_list(add_word_to_list(n, w, 1), w, 2)
    ELSE LET k == Descriptor(kind) IN
         add_word_to_list([n EXCEPT !.append = IF kind \in {">>", "2>>"} THEN @ \cup {k} ELSE @],
                          w, k)
redirects(red) ==
    LET r[k \in 0 .. Len(red)] ==
            IF k = 0 THEN NoWords ELSE redirect_step(r[k - 1], red[k][1])
    IN r
redirect(red) == redirects(red)[Len(red)]

-----------------------------------------------------------------------------
(* What parser.h says of a tree: without parentheses, an operator is above *)
(* those that bind more tightly, and of equals the last one is on top.     *)
Loosest(l, a, b) ==
    Max({k \in a .. b - 1 : \A j \in a .. b - 1 : Level[l.ops[k]] <= Level[l.ops[j]]})
Groups(l) ==
    LET tree[s \in (DOMAIN l.cmds) \X (DOMAIN l.cmds)] ==
            IF s[1] >= s[2] THEN <<"none", s[1]>>
            ELSE LET k == Loosest(l, s[1], s[2]) IN
                 <<l.ops[k], tree[<<s[1], k>>], tree[<<k + 1, s[2]>>]>>
    IN tree
Grouped(l) == Groups(l)[<<1, Len(l.cmds)>>]
=============================================================================
