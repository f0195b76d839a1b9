------------------------------- MODULE Shell --------------------------------
(***************************************************************************)
(* The mini-shell, "Operating Systems/Task1": main.c reads a line, the     *)
(* parser makes a tree of it, cmd.c walks the tree with fork, pipe, dup2   *)
(* and waitpid.  A process has a stack of calls of parse_command (the      *)
(* innermost first), the value the last one returned, and a table of       *)
(* descriptors; the lowest free descriptor, process and pipe number is the *)
(* next, as in POSIX.  The parent waits for one child at a time; a program *)
(* that reads ends at the end of its input, a program that writes needs a  *)
(* reader.                                                                 *)
(*                                                                         *)
(* Verbs: the builtins exit, cd (with a directory), cd0 (without), set (an *)
(* assignment), and the programs true, false (or a name that is no         *)
(* program), cat (copies its input to its output) and big (writes more     *)
(* than a pipe holds).  Values are 0, 1 (any other status) and SHELL_EXIT. *)
(* Processes, descriptors and memory do not run out.                       *)
(***************************************************************************)
EXTENDS Parser

CONSTANTS
    Lines,          \* bound: the lines the user may type
    None,
    Pids, Slots, Pipes      \* bounds: the numbers in use at one time
shell == 1
SHELL_EXIT == -100
Values == {0, 1, SHELL_EXIT}
Programs == {"true", "false", "cat", "big"}
Endings == {"exit", "end of input", "assert", "DIE"}

ASSUME ShellAssumption ==
    /\ shell \in Pids /\ Pids \subseteq Nat \ {0} /\ Pipes \subseteq Nat
    /\ {0, 1, 2} \subseteq Slots /\ Slots \subseteq Nat
    /\ None \notin Lines /\ \A l \in Lines : IsLine(l)
    /\ None \notin Endings

Tree == [l \in Lines |-> parse_line(l)]
GroupedTree == [l \in Lines |-> Grouped(l)]
Redirects == UNION {{c.red : c \in Range(l.cmds)} : l \in Lines}
Words == [red \in Redirects |-> redirect(red)]
Refused == {l \in Lines : \E c \in Range(l.cmds) : ~Words[c.red].ok}

VARIABLES
    proc,           \* the processes; line is the command line they work on
    over            \* why the shell process ended
vars == <<proc, over>>

Closed == <<"closed", 0>>
Tty == <<"tty", 0>>
Terminal == [s \in Slots |-> IF s \in 0 .. 2 THEN Tty ELSE Closed]
(* The locals of redirections: n the number in fd, saved the static        *)
(* io_fds, word the word each descriptor is to be redirected to next.      *)
NotSaved == -1
NoIo == [n |-> 0, saved |-> [k \in 0 .. 2 |-> NotSaved], word |-> [k \in 0 .. 2 |-> 0]]
Nobody == [st |-> "none", line |-> None, parent |-> 0, fd |-> Terminal, stack |-> <<>>, val |-> 0,
           io |-> NoIo]
Frame(t, pc) == [cmd |-> t, pc |-> pc, pid1 |-> 0, pid2 |-> 0, saved |-> 0]

Init ==
    /\ over = None
    /\ proc = [p \in Pids |-> IF p = shell THEN [Nobody EXCEPT !.st = "run"] ELSE Nobody]

-----------------------------------------------------------------------------
Free(fd) == {s \in Slots : fd[s] = Closed}
Low(fd) == Min(Free(fd))
dup(fd, s) == [fd EXCEPT ![Low(fd)] = fd[s]]
dup2(fd, from, to) == [fd EXCEPT ![to] = fd[from]]
close(fd, s) == [fd EXCEPT ![s] = Closed]

FreePids == {p \in Pids \ {shell} : proc[p].st = "none"}
NewPid == Min(FreePids)
Holders(end) == {p \in Pids : proc[p].st = "run" /\ \E s \in Slots : proc[p].fd[s] = end}
FreePipes == {k \in Pipes : Holders(<<"read", k>>) \cup Holders(<<"write", k>>) = {}}
NewPipe == Min(FreePipes)
(* No call needs more descriptors than two.                                *)
Room(fd) == \A s \in Slots : ~ (Free(fd) \subseteq {s})

Top(p) == Head(proc[p].stack)
At(p, pc) == proc[p].st = "run" /\ proc[p].stack # <<>> /\ Top(p).pc = pc
AtOp(p, pc, op) == At(p, pc) /\ Top(p).cmd[1] = op
Verb(p) == proc[p].line.cmds[Top(p).cmd[2]].verb
Red(p) == proc[p].line.cmds[Top(p).cmd[2]].red

Word(p, k) == proc[p].io.word[k]
Redirecting(p) == \E k \in 0 .. 2 : Word(p, k) # 0

(* Changes of one process record.                                          *)
Goto(r, pc) == [r EXCEPT !.stack[1].pc = pc]
Call(r, pc, t) == [r EXCEPT !.stack = <<Frame(t, "start")>> \o Goto(r, pc).stack]
Return(r, v) == [r EXCEPT !.stack = Tail(@), !.val = v]
Set(p, r) == proc' = [proc EXCEPT ![p] = r] /\ UNCHANGED over

(* fork: the child starts with its parent's descriptors.                   *)
Child(p, t, pc) ==
    [proc[p] EXCEPT !.parent = p, !.stack = <<Frame(t, pc)>>, !.val = 0]
Fork(p, r, child) ==
    /\ FreePids # {}
    /\ proc' = [proc EXCEPT ![p] = r, ![NewPid] = child] /\ UNCHANGED over

(* exit: orphans, and the status nobody waits for, are left to init.       *)
Ended(p, code) ==
    [q \in Pids |->
        IF q = p
        THEN IF proc[p].parent = 0 THEN Nobody
             ELSE [Nobody EXCEPT !.st = "zombie", !.parent = proc[p].parent, !.val = code]
        ELSE IF proc[q].parent = p
        THEN IF proc[q].st = "zombie" THEN Nobody ELSE [proc[q] EXCEPT !.parent = 0]
        ELSE proc[q]]
Exit(p, code, why) ==
    /\ proc' = Ended(p, code)
    /\ over' = IF p = shell THEN why ELSE over
Die(p) == Exit(p, 1, "DIE")

Waited(p, k) == proc[k].st = "zombie" /\ proc[k].parent = p
Reap(p, k, r) == proc' = [proc EXCEPT ![p] = r, ![k] = Nobody] /\ UNCHANGED over

-----------------------------------------------------------------------------
(* Which number fd holds at first is not known; it is read only when       *)
(* io_flags is neither of the two values tested, and no file is opened.    *)
Garbage(red) == IF Words[red].append = {} THEN {0} ELSE Slots
Io(red, garbage) == [NoIo EXCEPT !.n = garbage, !.word = Words[red].list]
RightMode(p, k) == k = 0 \/ Words[Red(p)].append \in {{}, {k}}
Both(p) == Word(p, 1) # 0 /\ Word(p, 2) # 0
           /\ Red(p)[Word(p, 1)][2] = Red(p)[Word(p, 2)][2]
Stream(p) == CHOOSE k \in 0 .. 2 : Word(p, k) # 0 /\ \A j \in 0 .. k - 1 : Word(p, j) = 0

open(r, name) == [r EXCEPT !.io.n = Low(r.fd), !.fd[Low(r.fd)] = <<"file", name>>]
Save(r, k) == IF r.io.saved[k] = NotSaved /\ r.fd[k] # Closed
              THEN [r EXCEPT !.io.saved[k] = Low(r.fd), !.fd = dup(r.fd, k)] ELSE r
Redirect(r, k, next) == [r EXCEPT !.fd = close(dup2(r.fd, r.io.n, k), r.io.n),
                                  !.io.word[k] = next[@]]
redirect_stream(p, k, opens, pc) ==     \* open, dup, dup2 and close
    \E a \in {IF opens THEN open(proc[p], Red(p)[Word(p, k)][2]) ELSE proc[p]} :
        \E r \in {Save(a, k)} :
            IF r.fd[r.io.n] = Closed THEN Die(p)
            ELSE Set(p, Goto(Redirect(r, k, Words[Red(p)].next), pc))

restore_but_close(r, k) ==
    LET s == r.io.saved[k] IN
    IF s = NotSaved THEN r ELSE [r EXCEPT !.fd = dup2(r.fd, s, k)]
restore(r, k) ==
    LET s == r.io.saved[k] IN
    IF s = NotSaved \/ r.fd = <<>> THEN r
    ELSE IF r.fd[s] = Closed THEN [r EXCEPT !.fd = <<>>]    \* DIE
    ELSE [r EXCEPT !.fd = close(dup2(r.fd, s, k), s)]

-----------------------------------------------------------------------------
(* parse_simple.                                                           *)
shell_exit(p) ==
    /\ AtOp(p, "start", "none") /\ Verb(p) = "exit"
    /\ Set(p, Return(proc[p], SHELL_EXIT))

cd(p) ==
    /\ AtOp(p, "start", "none") /\ Verb(p) = "cd"
    /\ \E garbage \in Garbage(Red(p)) :
        Set(p, [Goto(proc[p], "redirect") EXCEPT !.io = Io(Red(p), garbage)])

redirections(p) ==
    \/ /\ At(p, "redirect") /\ Redirecting(p) /\ Room(proc[p].fd)
       /\ LET k == Stream(p) IN
          IF k = 0 /\ Red(p)[Word(p, 0)][2] = "missing" THEN Die(p)
          ELSE redirect_stream(p, k, RightMode(p, k) \/ Both(p),
                               IF k = 1 /\ Both(p) THEN "redirect_err" ELSE "redirect")
    \/ /\ At(p, "redirect_err") /\ Room(proc[p].fd)
       /\ redirect_stream(p, 2, TRUE, "redirect")

shell_cd(p) ==              \* and parse_simple restores the descriptors
    /\ At(p, "redirect") /\ ~Redirecting(p) /\ Verb(p) = "cd"
    /\ \E r0 \in {restore(proc[p], 0)} : \E r1 \in {restore(r0, 1)} : \E r \in {restore(r1, 2)} :
        IF r.fd = <<>> THEN Die(p)
        ELSE \E ret \in {0, 1} : Set(p, Return([r EXCEPT !.io = NoIo], ret))

cd_without_params(p) ==     \* returns ret, which nothing has set
    /\ AtOp(p, "start", "none") /\ Verb(p) = "cd0"
    /\ \E ret \in Values : Set(p, Return(proc[p], ret))

setenv(p) ==
    /\ AtOp(p, "start", "none") /\ Verb(p) = "set"
    /\ Set(p, Return(proc[p], 0))

fork_program(p) ==
    /\ AtOp(p, "start", "none") /\ Verb(p) \in Programs
    /\ \E garbage \in Garbage(Red(p)) :
        Fork(p, [Goto(proc[p], "wait") EXCEPT !.stack[1].pid1 = NewPid],
                [Child(p, Top(p).cmd, "redirect") EXCEPT !.io = Io(Red(p), garbage)])

execvp(p) ==
    /\ At(p, "redirect") /\ ~Redirecting(p) /\ Verb(p) \in Programs
    /\ Set(p, Goto([proc[p] EXCEPT !.io = NoIo], "program"))

(* A program.                                                              *)
Reads(q, k) == At(q, "program") /\ Verb(q) = "cat" /\ proc[q].fd[0] = <<"read", k>>
Unread(end) == end[1] = "write" /\ Holders(<<"read", end[2]>>) = {}
AtEnd(end) == end[1] = "read" => Holders(<<"write", end[2]>>) = {}
program(p) ==
    /\ At(p, "program")
    /\ LET in == proc[p].fd[0]
           out == proc[p].fd[1] IN
       \/ Verb(p) = "true" /\ Exit(p, 0, None)
       \/ Verb(p) = "false" /\ Exit(p, 1, None)
       \/ Verb(p) = "cat" /\ AtEnd(in) /\ Exit(p, 0, None)
       \/ Verb(p) = "big" /\ (out[1] = "write" => \E q \in Pids : Reads(q, out[2]))
          /\ Exit(p, 0, None)
       \/ Verb(p) \in {"cat", "big"} /\ Unread(out) /\ Exit(p, 1, None)

wait_program_pid(p) ==      \* what waitpid returns, not the status
    /\ AtOp(p, "wait", "none") /\ Waited(p, Top(p).pid1)
    /\ Reap(p, Top(p).pid1, Return(proc[p], Top(p).pid1))
wait_program(p) ==
    /\ AtOp(p, "wait", "none") /\ Waited(p, Top(p).pid1)
    /\ Reap(p, Top(p).pid1, Return(proc[p], proc[Top(p).pid1].val))

-----------------------------------------------------------------------------
(* parse_command.                                                          *)
cmd1(p) == Top(p).cmd[2]
cmd2(p) == Top(p).cmd[3]

sequential(p) ==
    \/ AtOp(p, "start", "sequential") /\ Set(p, Call(proc[p], "second", cmd1(p)))
    \/ AtOp(p, "second", "sequential") /\ Set(p, Call(proc[p], "unset", cmd2(p)))
    \/ /\ At(p, "unset")        \* ret has not been assigned
       /\ \E ret \in Values : Set(p, Return(proc[p], ret))

conditional(p) ==
    \/ /\ \E op \in {"zero", "nzero"} : AtOp(p, "start", op)
       /\ Set(p, Call(proc[p], "decide", cmd1(p)))
    \/ /\ At(p, "decide")
       /\ LET wanted == (proc[p].val = 0) <=> (Top(p).cmd[1] = "zero") IN
          IF wanted THEN Set(p, Call(proc[p], "last", cmd2(p)))
          ELSE Set(p, Return(proc[p], proc[p].val))
    \/ At(p, "last") /\ Set(p, Return(proc[p], proc[p].val))

(* The main function of a forked child ends with the exit of its status.   *)
exit_child(p) ==
    /\ p # shell /\ proc[p].st = "run" /\ proc[p].stack = <<>>
    /\ Exit(p, IF proc[p].val \in {0, SHELL_EXIT} THEN 0 ELSE 1, None)

do_in_parallel(p) ==
    \/ /\ AtOp(p, "start", "parallel")
       /\ Fork(p, [Goto(proc[p], "fork2") EXCEPT !.stack[1].pid1 = NewPid],
               Child(p, cmd1(p), "start"))
    \/ /\ At(p, "fork2")
       /\ Fork(p, [Goto(proc[p], "wait1") EXCEPT !.stack[1].pid2 = NewPid],
               Child(p, cmd2(p), "start"))
    \/ /\ At(p, "wait1") /\ Waited(p, Top(p).pid1)
       /\ Reap(p, Top(p).pid1, Goto(proc[p], "wait2"))
    \/ /\ At(p, "wait2") /\ Waited(p, Top(p).pid2)
       /\ Reap(p, Top(p).pid2, Return(proc[p], proc[Top(p).pid2].val))

(* The descriptors of both sides: pipe, then in the child close, dup, dup2 *)
(* and close of the ends, in the parent the same with its own stdout.      *)
piped(fd, k) ==
    LET r == Low(fd)
        w == Min({s \in Slots \ {r} : fd[s] = Closed}) IN
    [fd EXCEPT ![r] = <<"read", k>>, ![w] = <<"write", k>>]
Slot(fd, end) == CHOOSE s \in Slots : fd[s] = end
onto(fd, s, k) == close(dup2(dup(fd, k), s, k), s)
reader_keeps_writer(fd, r, w) == onto(fd, r, 0)
reader_keeps_stdin(fd, r, w) == close(dup(close(fd, w), 0), r)
reader(fd, r, w) == onto(close(fd, w), r, 0)
writer(fd, r, w) == onto(close(fd, r), w, 1)

do_on_pipe(p) ==
    \/ /\ AtOp(p, "start", "pipe") /\ Room(proc[p].fd) /\ FreePipes # {}
       /\ \E fd \in {piped(proc[p].fd, NewPipe)} :
           LET r == Slot(fd, <<"read", NewPipe>>)
               w == Slot(fd, <<"write", NewPipe>>)
               parent == [proc[p] EXCEPT !.fd = writer(fd, r, w), !.stack[1].pid1 = NewPid,
                                         !.stack[1].saved = Low(close(fd, r))] IN
           Fork(p, Call(parent, "restore", cmd1(p)),
                [Child(p, cmd2(p), "start") EXCEPT !.fd = reader(fd, r, w)])
    \/ /\ At(p, "restore")
       /\ LET s == Top(p).saved IN
          Set(p, Goto([proc[p] EXCEPT !.fd = close(dup2(@, s, 1), s)], "reap"))
    \/ /\ At(p, "reap") /\ Waited(p, Top(p).pid1)
       /\ Reap(p, Top(p).pid1, Return(proc[p], proc[Top(p).pid1].val))

-----------------------------------------------------------------------------
(* main: read a line, walk its tree, stop on SHELL_EXIT.                   *)
AtPrompt == over = None /\ proc[shell].line = None
read_line(l) ==
    /\ AtPrompt
    /\ IF l \in Refused
       THEN over' = "assert" /\ UNCHANGED proc
       ELSE /\ proc' = [proc EXCEPT ![shell] = [@ EXCEPT !.line = l,
                                             !.stack = <<Frame(Tree[l], "start")>>]]
            /\ UNCHANGED over
end_of_input ==
    /\ AtPrompt
    /\ Exit(shell, 0, "end of input")
start_shell ==
    /\ over = None /\ proc[shell].line # None /\ proc[shell].stack = <<>>
    /\ IF proc[shell].val = SHELL_EXIT THEN Exit(shell, 0, "exit")
       ELSE Set(shell, [proc[shell] EXCEPT !.line = None, !.val = 0])

parse_simple(p) ==
    \/ shell_exit(p) \/ cd(p) \/ shell_cd(p) \/ redirections(p)
    \/ cd_without_params(p) \/ setenv(p)
    \/ fork_program(p) \/ execvp(p) \/ program(p) \/ wait_program(p)
Step(p) ==
    \/ parse_simple(p)
    \/ sequential(p) \/ conditional(p) \/ do_in_parallel(p) \/ do_on_pipe(p)
    \/ exit_child(p)

Next ==
    \/ \E l \in Lines : read_line(l)
    \/ end_of_input
    \/ start_shell
    \/ \E p \in Pids : Step(p)

(* Every process runs; a user who types input ends it.                     *)
Fairness == WF_vars(start_shell) /\ \A p \in Pids : WF_vars(Step(p))
Spec == Init /\ [][Next]_vars /\ Fairness

-----------------------------------------------------------------------------
LineOrNone == Lines \cup {None}
Ends == {Closed, Tty} \cup ({"read", "write"} \X Pipes)
        \cup {<<"file", r[2]>> : r \in UNION {Range(red) : red \in Redirects}}
TypeOK ==
    /\ over \in {None} \cup Endings
    /\ \A p \in Pids :
        /\ proc[p].st \in {"none", "run", "zombie"} /\ proc[p].parent \in Pids \cup {0}
        /\ proc[p].line \in LineOrNone /\ proc[p].val \in Values
        /\ DOMAIN proc[p].fd = Slots
        /\ Range(proc[p].fd) \subseteq Ends
        /\ \A i \in DOMAIN proc[p].stack :
            /\ proc[p].stack[i].saved \in Slots
            /\ {proc[p].stack[i].pid1, proc[p].stack[i].pid2} \subseteq Pids \cup {0}

(* The tree a line is executed by is the one parser.h promises: an         *)
(* operator binds as its priority says, equals from the left.              *)
Priorities ==
    proc[shell].stack # <<>> =>
        Last(proc[shell].stack).cmd = GroupedTree[proc[shell].line]

(* Two kinds of command go wrong: one that appends one of its outputs and  *)
(* redirects the other too opens no file for one of them, and puts what    *)
(* fd happens to hold in its place; and after "&>", whose node is in both  *)
(* lists, each further redirection of one output is one of the other too.  *)
Skips(red) ==
    \E r, s \in Range(red) : \/ r[1] = ">>" /\ s[1] \in {"2>", "2>>", "&>"}
                             \/ r[1] = "2>>" /\ s[1] \in {">", ">>", "&>"}
Shares(red) ==
    \E i, j \in DOMAIN red : i < j /\ red[i][1] = "&>" /\ red[j][1] # "<"
Regular(red) == ~Skips(red) /\ ~Shares(red)
NoCdSkips == \A l \in Lines : \A c \in Range(l.cmds) : c.verb = "cd" => ~Skips(c.red)

(* When the shell prompts again after any line, its descriptors are the    *)
(* terminal's three and nothing else, and it has waited for all children   *)
(* (unless a cd, which it redirects itself, uses what fd happens to hold). *)
Restored ==
    NoCdSkips /\ AtPrompt =>
        /\ proc[shell].fd = Terminal
        /\ \A p \in Pids : proc[p].parent # shell

(* Each stream of a running program goes where the line says: to the last  *)
(* file it was redirected to, else to the neighbour in the pipeline, else  *)
(* to the terminal; a pipe joins exactly two neighbours.                   *)
Files(red, kinds) == {w \in DOMAIN red : red[w][1] \in kinds}
Goes(p, kinds, piped_to, end) ==
    LET files == Files(Red(p), kinds) IN
    IF files # {} THEN end = <<"file", Red(p)[Max(files)][2]>>
    ELSE IF piped_to THEN end[1] \in {"read", "write"} ELSE end = Tty
RunsRegular(p) == At(p, "program") /\ Regular(Red(p))
Plumbing ==
    NoCdSkips => \A p \in Pids : RunsRegular(p) =>
        LET i == Top(p).cmd[2]
            ops == proc[p].line.ops
            fd == proc[p].fd
            PipeAt(j) == j \in DOMAIN ops /\ ops[j] = "pipe" IN
        /\ Goes(p, {"<"}, PipeAt(i - 1), fd[0])
        /\ Goes(p, {">", ">>", "&>"}, PipeAt(i), fd[1])
        /\ Goes(p, {"2>", "2>>", "&>"}, FALSE, fd[2])
        /\ fd[0][1] # "write" /\ fd[1][1] # "read"
        /\ \A q \in Pids : RunsRegular(q) /\ fd[0][1] = "read"
                /\ proc[q].fd[1] = <<"write", fd[0][2]>> => Top(q).cmd[2] = i - 1

(* Every line comes to an end: no process of it waits for ever for the end *)
(* of a pipe that another one, or itself, holds open.                      *)
Completes == proc[shell].line # None ~> (AtPrompt \/ over # None)
=============================================================================
