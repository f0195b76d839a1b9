----------------------------- MODULE ShellWindows ------------------------------
(***************************************************************************)
(* The Windows port of the mini-shell, "Operating Systems/Task1/WINDOWS":   *)
(* the same parser, but commands run in parallel are walked by threads of   *)
(* the one shell process, files are opened in the shell with Win32 sharing  *)
(* modes and inherited by every program created meanwhile, and a failed     *)
(* call ends the shell with all its threads.  Pipelines are parsed and not  *)
(* run: the call of do_on_pipe is commented out.                            *)
(*                                                                         *)
(* Verbs: exit, cd (with a directory), cd0 (without), set (an assignment),  *)
(* the programs true and false, and nope, which is no program.  Which of    *)
(* its handles a program uses for which stream is left out.                 *)
(***************************************************************************)
EXTENDS Parser

CONSTANTS
    Lines,          \* bound: the lines the user may type
    None,
    Threads         \* bound: the threads at one time
main == 1
SHELL_EXIT == -100
ASSUME WinAssumption ==
    /\ main \in Threads /\ Threads \subseteq Nat \ {0}
    /\ None \notin Lines /\ \A l \in Lines : IsLine(l)
    /\ None # "DIE"
Values == {0, 1, SHELL_EXIT}

Tree == [l \in Lines |-> parse_line(l)]
Redirects == UNION {{c.red : c \in Range(l.cmds)} : l \in Lines}
Words == [red \in Redirects |-> redirect(red)]
Refused == {l \in Lines : \E c \in Range(l.cmds) : ~Words[c.red].ok}

VARIABLES
    line,           \* the line being executed, or None at the prompt
    thread,         \* stack of calls, innermost first, and the value last returned
    files,          \* the open handles: [h, name, access, share, of], of the
                    \* shell (0) or of the program of a command
    running,        \* the commands whose programs run
    over            \* why the shell ended
winVars == <<line, thread, files, running, over>>

NoThread == [st |-> "none", stack |-> <<>>, val |-> 0]
Frame(t) == [cmd |-> t, pc |-> "start", thread_arr |-> <<>>, opened |-> 0,
             word |-> [k \in 0 .. 2 |-> 0]]

WinInit ==
    /\ line = None
    /\ thread = [t \in Threads |-> NoThread]
    /\ files = {} /\ running = {} /\ over = None

-----------------------------------------------------------------------------
Top(t) == Head(thread[t].stack)
At(t, pc) == over = None /\ thread[t].st = "run" /\ thread[t].stack # <<>> /\ Top(t).pc = pc
AtOp(t, pc, op) == At(t, pc) /\ Top(t).cmd[1] = op
Command(t) == Top(t).cmd[2]
Verb(t) == line.cmds[Command(t)].verb
Red(t) == line.cmds[Command(t)].red
Word(t, k) == Top(t).word[k]
Name(t, k) == Red(t)[Word(t, k)][2]

Goto(r, pc) == [r EXCEPT !.stack[1].pc = pc]
Call(r, pc, c) == [r EXCEPT !.stack = <<Frame(c)>> \o Goto(r, pc).stack]
Return(r, v) == [r EXCEPT !.stack = Tail(@), !.val = v]
Set(t, r) == thread' = [thread EXCEPT ![t] = r]
Keep == UNCHANGED <<line, files, running, over>>

DIE == over' = "DIE" /\ UNCHANGED <<line, thread, files, running>>

-----------------------------------------------------------------------------
(* CreateFile fails on a file that is open, in the shell or in a program,   *)
(* unless each of the two allows the other's access.                        *)
Refuses(name, access, share) ==
    \E f \in files : f.name = name /\ (access # f.share \/ f.access # share)
Missing(name, access) == access = "read" /\ name = "missing"

(* A new handle, all of them inheritable, and the next pass of the loop.    *)
MyCreateFile(t, k, access, share, popped, pc) ==
    IF Missing(Name(t, k), access) \/ Refuses(Name(t, k), access, share)
    THEN DIE
    ELSE /\ files' = files \cup
                {[h |-> <<Command(t), Top(t).opened + 1>>, name |-> Name(t, k),
                  access |-> access, share |-> share, of |-> 0]}
         /\ Set(t, [Goto(thread[t], pc) EXCEPT
                        !.stack[1].opened = @ + 1,
                        !.stack[1].word = [j \in 0 .. 2 |->
                            IF j \in popped THEN Words[Red(t)].next[@[j]] ELSE @[j]]])
         /\ UNCHANGED <<line, running, over>>

Both(t) == Word(t, 1) # 0 /\ Word(t, 2) # 0 /\ Name(t, 1) = Name(t, 2)
AppendsOut(t) == Words[Red(t)].append = {1}

redirections(t) ==
    \/ /\ At(t, "redirect")
       /\ \/ Word(t, 0) # 0 /\ MyCreateFile(t, 0, "read", "read", {0}, "redirect")
          \/ /\ Word(t, 0) = 0 /\ Both(t)
             /\ MyCreateFile(t, 1, "write", "write", {}, "redirect_err")
          \/ /\ Word(t, 0) = 0 /\ ~Both(t) /\ Word(t, 1) # 0
             /\ MyCreateFile(t, 1, "write", IF AppendsOut(t) THEN "write" ELSE "read",
                             {1}, "redirect")
          \/ /\ Word(t, 0) = 0 /\ Word(t, 1) = 0 /\ Word(t, 2) # 0
             /\ MyCreateFile(t, 2, "write", "write", {2}, "redirect")
    \/ /\ At(t, "redirect_err")
       /\ MyCreateFile(t, 2, "write", "write", {1, 2}, "redirect")
Redirected(t) == At(t, "redirect") /\ \A k \in 0 .. 2 : Word(t, k) = 0

-----------------------------------------------------------------------------
(* parse_simple.                                                            *)
shell_exit(t) ==
    /\ AtOp(t, "start", "none") /\ Verb(t) = "exit"
    /\ Set(t, Return(thread[t], SHELL_EXIT)) /\ Keep

SetEnvironmentVariable(t) ==
    /\ AtOp(t, "start", "none") /\ Verb(t) = "set"
    /\ Set(t, Return(thread[t], 0)) /\ Keep

cd_without_params(t) ==     \* returns dwRet, which nothing has set
    /\ AtOp(t, "start", "none") /\ Verb(t) = "cd0"
    /\ \E dwRet \in Values : Set(t, Return(thread[t], dwRet))
    /\ Keep

redirect_first(t) ==
    /\ AtOp(t, "start", "none") /\ Verb(t) \in {"cd", "true", "false", "nope"}
    /\ Set(t, [Goto(thread[t], "redirect") EXCEPT !.stack[1].word = Words[Red(t)].list])
    /\ Keep

shell_cd(t) ==
    /\ Redirected(t) /\ Verb(t) = "cd"
    /\ \E dwRet \in {0, 1} : Set(t, [Goto(thread[t], "close") EXCEPT !.val = dwRet])
    /\ Keep

(* The program inherits every handle the shell has at that moment.  What    *)
(* GetExitCodeProcess leaves in dwRet when there is no program is not known. *)
CreateProcess(t) ==
    /\ Redirected(t) /\ Verb(t) # "cd"
    /\ IF Verb(t) = "nope"
       THEN /\ \E dwRet \in Values : Set(t, [Goto(thread[t], "close") EXCEPT !.val = dwRet])
            /\ UNCHANGED <<files, running>>
       ELSE /\ running' = running \cup {Command(t)}
            /\ files' = files \cup {[f EXCEPT !.of = Command(t)] : f \in {g \in files : g.of = 0}}
            /\ Set(t, Goto(thread[t], "wait"))
    /\ UNCHANGED <<line, over>>

program(i) ==
    /\ over = None /\ i \in running
    /\ running' = running \ {i}
    /\ files' = {f \in files : f.of # i}
    /\ UNCHANGED <<line, thread, over>>

WaitForSingleObject(t) ==
    /\ At(t, "wait") /\ Top(t).cmd[1] = "none" /\ Command(t) \notin running
    /\ Set(t, [Goto(thread[t], "close") EXCEPT !.val = IF Verb(t) = "true" THEN 0 ELSE 1])
    /\ Keep

(* Mutated form: a command that could not be started leaves its files open. *)
CloseHandleUnlessFailed(t) ==
    /\ At(t, "close")
    /\ LET mine == {f \in files : f.of = 0 /\ f.h[1] = Command(t)} IN
       IF mine = {} \/ Verb(t) = "nope"
       THEN Set(t, Return(thread[t], thread[t].val)) /\ UNCHANGED files
       ELSE /\ files' = files \ {CHOOSE f \in mine : \A g \in mine : f.h[2] <= g.h[2]}
            /\ UNCHANGED thread
    /\ UNCHANGED <<line, running, over>>

(* The loop over handles, and the return of dwRet.                          *)
CloseHandle(t) ==
    /\ At(t, "close")
    /\ LET mine == {f \in files : f.of = 0 /\ f.h[1] = Command(t)} IN
       IF mine = {}
       THEN Set(t, Return(thread[t], thread[t].val)) /\ UNCHANGED files
       ELSE /\ files' = files \ {CHOOSE f \in mine : \A g \in mine : f.h[2] <= g.h[2]}
            /\ UNCHANGED thread
    /\ UNCHANGED <<line, running, over>>

-----------------------------------------------------------------------------
(* parse_command.                                                           *)
cmd1(t) == Top(t).cmd[2]
cmd2(t) == Top(t).cmd[3]

FreeThreads == {k \in Threads \ {main} : thread[k].st = "none"}
do_in_parallel(t) ==
    \/ /\ \/ AtOp(t, "start", "parallel") \/ At(t, "second thread")
       /\ FreeThreads # {}
       /\ \E new \in {Min(FreeThreads)} :
            LET first == Top(t).pc = "start"
                c == IF first THEN cmd1(t) ELSE cmd2(t) IN
            thread' = [thread EXCEPT
                ![t] = [Goto(thread[t], IF first THEN "second thread" ELSE "wait") EXCEPT
                            !.stack[1].thread_arr = Append(@, new)],
                ![new] = [NoThread EXCEPT !.st = "run", !.stack = <<Frame(c)>>]]
    \/ /\ AtOp(t, "wait", "parallel")       \* WaitForMultipleObjects
       /\ \A k \in Range(Top(t).thread_arr) : thread[k].st = "ended"
       /\ thread' = [k \in Threads |->
                IF k = t THEN Return(thread[t], thread[Top(t).thread_arr[2]].val)
                ELSE IF k \in Range(Top(t).thread_arr) THEN NoThread
                ELSE thread[k]]

thread_func(t) ==
    /\ over = None /\ t # main /\ thread[t].st = "run" /\ thread[t].stack = <<>>
    /\ Set(t, [thread[t] EXCEPT !.st = "ended"])

conditional(t) ==
    \/ /\ \E op \in {"zero", "nzero"} : AtOp(t, "start", op)
       /\ Set(t, Call(thread[t], "decide", cmd1(t)))
    \/ /\ At(t, "decide")
       /\ IF (thread[t].val = 0) <=> (Top(t).cmd[1] = "zero")
          THEN Set(t, Call(thread[t], "last", cmd2(t)))
          ELSE Set(t, Return(thread[t], thread[t].val))
    \/ At(t, "last") /\ Set(t, Return(thread[t], thread[t].val))

(* Both leave ret unset.                                                    *)
sequential(t) ==
    \/ AtOp(t, "start", "sequential") /\ Set(t, Call(thread[t], "second", cmd1(t)))
    \/ AtOp(t, "second", "sequential") /\ Set(t, Call(thread[t], "unset", cmd2(t)))
    \/ At(t, "unset") /\ \E ret \in Values : Set(t, Return(thread[t], ret))
pipe(t) ==
    /\ AtOp(t, "start", "pipe")
    /\ \E ret \in Values : Set(t, Return(thread[t], ret))

-----------------------------------------------------------------------------
AtPrompt == over = None /\ line = None
read_line(l) ==
    /\ AtPrompt
    /\ IF l \in Refused
       THEN over' = "assert" /\ UNCHANGED <<line, thread>>
       ELSE /\ line' = l
            /\ Set(main, [NoThread EXCEPT !.st = "run", !.stack = <<Frame(Tree[l])>>])
            /\ UNCHANGED over
    /\ UNCHANGED <<files, running>>
end_of_input ==
    /\ AtPrompt /\ over' = "end of input"
    /\ UNCHANGED <<line, thread, files, running>>
start_shell ==
    /\ over = None /\ line # None /\ thread[main].stack = <<>>
    /\ line' = None
    /\ thread' = [thread EXCEPT ![main] = NoThread]
    /\ over' = IF thread[main].val = SHELL_EXIT THEN "exit" ELSE over
    /\ UNCHANGED <<files, running>>

parse_simple(t) ==
    \/ shell_exit(t) \/ SetEnvironmentVariable(t) \/ cd_without_params(t)
    \/ redirect_first(t) \/ redirections(t) \/ shell_cd(t)
    \/ CreateProcess(t) \/ WaitForSingleObject(t) \/ CloseHandle(t)
parse_command(t) ==
    /\ do_in_parallel(t) \/ thread_func(t) \/ conditional(t) \/ sequential(t) \/ pipe(t)
    /\ Keep

WinNext ==
    \/ \E l \in Lines : read_line(l)
    \/ end_of_input
    \/ start_shell
    \/ \E t \in Threads : parse_simple(t) \/ parse_command(t)
    \/ \E i \in running : program(i)

WinSpec == WinInit /\ [][WinNext]_winVars

-----------------------------------------------------------------------------
(* Property. *)

(* How a command's files are opened, by the text of the line.  Of a command *)
(* that appends to its output, and not to its errors too, the output can be *)
(* shared with other writers; when "&>" comes after another redirection of  *)
(* the errors, its file is opened for the output first, and alone.          *)
AppendsOutOnly(red) ==
    \E r \in Range(red) : r[1] = ">>" /\ \A s \in Range(red) : s[1] # "2>>"
Tangled(red) ==
    /\ ~AppendsOutOnly(red)
    /\ \E a, b \in DOMAIN red : a < b /\ red[a][1] \in {"2>", "2>>"} /\ red[b][1] = "&>"
Access(r) == IF r[1] = "<" THEN "read" ELSE "write"
Share(red, r) ==
    IF r[1] = "<" \/ (r[1] \in {">", ">>"} /\ ~AppendsOutOnly(red)) THEN "read" ELSE "write"
Clash(red1, r, red2, s) ==
    r[2] = s[2] /\ (Access(r) # Share(red2, s) \/ Access(s) # Share(red1, r))

(* What goes wrong within a command, whatever else runs.                    *)
Misses(red) == \E r \in Range(red) : r[1] = "<" /\ r[2] = "missing"
ClashesItself(red) ==
    Tangled(red) \/ \E a, b \in DOMAIN red : a # b /\ Clash(red, red[a], red, red[b])

(* The commands i .. j belong to one list between two ";".                  *)
Joined(i, j) == \A k \in i .. j - 1 : line.ops[k] # "sequential"
Parallel(i, j) ==
    \E k \in DOMAIN line.ops :
        /\ line.ops[k] = "parallel"
        /\ Joined(Min({i, k}), Max({j, k + 1}))
RedOf(i) == line.cmds[i].red
ClashInParallel(i, j) ==
    /\ i < j /\ Parallel(i, j)
    /\ \E r \in Range(RedOf(i)), s \in Range(RedOf(j)) : Clash(RedOf(i), r, RedOf(j), s)

(* The files of a line are closed when the shell prompts again, whatever    *)
(* failed and however threads and programs interleaved; and opening a file  *)
(* ends the shell only if it is missing, if one command clashes with        *)
(* itself, or if two commands clash that are in one list with a parallel    *)
(* operator.  Two commands clash there even when one runs after the other:  *)
(* a program started in parallel may have inherited the first one's file.   *)
FilesClosed ==
    /\ line = None => files = {}
    /\ over = "DIE" =>
        \/ \E i \in DOMAIN line.cmds : Misses(RedOf(i)) \/ ClashesItself(RedOf(i))
        \/ \E i, j \in DOMAIN line.cmds : ClashInParallel(i, j)
=============================================================================
