------------------------------ MODULE ShellMC -------------------------------
(* All lines of one or two commands, and lines of three with a pipe beside *)
(* a pipe, a parallel or a conditional operator.                           *)
EXTENDS Shell
Command(v, r) == [verb |-> v, red |-> r]
Plain(vs) == {Command(v, <<>>) : v \in vs}
Verbs == Plain({"exit", "cd", "cd0", "set"} \cup Programs)
Redirected(reds) == {Command(v, r) : v \in {"cat", "cd"}, r \in reds}
Files2 == {<< <<"<", "g">>, <<"&>", "f">> >>, << <<"<", "missing">> >>}
Files1 == Files2 \cup
    {<< <<">", "f">>, <<"2>", "f">> >>, << <<">", "f">>, <<"2>", "g">>, <<">", "g">> >>,
     << <<">>", "f">> >>, << <<"&>", "f">>, <<"&>", "g">> >>,
     << <<"2>", "f">>, <<"&>", "g">> >>, << <<"&>", "f">>, <<">", "g">> >>}
Appending == {Command("cat", << <<">", "f">>, <<"2>>", "g">> >>)}
Few == Plain({"true", "cat", "big"})
Line(n, cs) == {[cmds |-> c, ops |-> o] : c \in [1 .. n -> cs], o \in [1 .. n - 1 -> Operators]}
Few3 == {l \in Line(3, Few) :
            \/ l.ops \in {<<"pipe", "pipe">>, <<"zero", "pipe">>}
            \/ l.ops = <<"pipe", "parallel">> /\ l.cmds[3].verb = "cat"
            \/ l.ops = <<"parallel", "pipe">> /\ l.cmds[1].verb = "true"}
ShortLines == Line(1, Verbs \cup Redirected(Files1) \cup Appending)
              \cup Line(2, Verbs \cup Redirected(Files2)) \cup Few3
=============================================================================
