----------------------------- MODULE ShellWindowsMC ----------------------------
(* All lines of one and two commands, and lines of three that use a file    *)
(* twice beside a parallel operator or a sequence.                          *)
EXTENDS ShellWindows
Simple(v, r) == [verb |-> v, red |-> r]
Plain(vs) == {Simple(v, <<>>) : v \in vs}
With(vs, reds) == {Simple(v, r) : v \in vs, r \in reds}
Out == << <<">", "f">> >>
Reds == {Out, << <<"<", "f">> >>, << <<">>", "f">> >>, << <<"&>", "f">> >>}
OneReds == Reds \cup
    {<< <<"<", "f">>, <<">", "f">> >>, << <<"<", "f">>, <<">", "g">>, <<"2>", "h">> >>,
     << <<"<", "missing">> >>, << <<"&>", "f">>, <<"&>", "g">> >>,
     << <<">", "f">>, <<"2>", "f">> >>,
     << <<">>", "f">>, <<"2>>", "g">> >>, << <<">>", "f">>, <<"2>", "g">>, <<"&>", "f">> >>,
     << <<"2>", "g">>, <<"&>", "f">> >>, << <<"&>", "f">>, <<">", "g">>, <<"2>", "f">> >>}
Line(n, cs) == {[cmds |-> c, ops |-> o] : c \in [1 .. n -> cs], o \in [1 .. n - 1 -> Operators]}
Two == Plain({"exit", "cd", "cd0", "set", "true", "false", "nope"})
       \cup With({"true", "nope", "cd"}, Reds)
Three == Plain({"true"}) \cup With({"true", "nope"}, {Out})
ShortLines ==
    Line(1, Two \cup With({"true", "cd"}, OneReds)) \cup Line(2, Two)
    \cup {l \in Line(2, With({"true"}, OneReds)) : Range(l.ops) = {"parallel"}}
    \cup {l \in Line(3, Three) : "pipe" \notin Range(l.ops) /\ "nzero" \notin Range(l.ops)}
=============================================================================
