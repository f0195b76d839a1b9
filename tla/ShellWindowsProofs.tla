--------------------------- MODULE ShellWindowsProofs ---------------------------
(***************************************************************************)
(* Proofs about the Windows port of the mini-shell: however its threads and *)
(* the programs they start interleave, the files of a line are closed when  *)
(* the shell prompts again, and no open fails but for what the line says.   *)
(***************************************************************************)
EXTENDS ShellWindows, ParserProofs

-----------------------------------------------------------------------------
(* The calls of a thread, innermost first. *)

FrameOf(cmd, pc, arr, opened, word) ==
    [cmd |-> cmd, pc |-> pc, thread_arr |-> arr, opened |-> opened, word |-> word]
ThreadOf(st, stack, val) == [st |-> st, stack |-> stack, val |-> val]
Sequence(s) == s \in Seq(Range(s))

Pcs == [none |-> {"start", "redirect", "redirect_err", "wait", "close"},
        parallel |-> {"start", "second thread", "wait"},
        zero |-> {"start", "decide", "last"}, nzero |-> {"start", "decide", "last"},
        sequential |-> {"start", "second", "unset"}, pipe |-> {"start"}]
Calling == {"second", "unset", "decide", "last"}
Forked(f) == f.cmd[1] = "parallel" /\ f.pc \in {"second thread", "wait"}

IsFrame(l, f) ==
    /\ f = FrameOf(f.cmd, f.pc, f.thread_arr, f.opened, f.word)
    /\ IsTree(l, f.cmd) /\ f.pc \in Pcs[f.cmd[1]]
    /\ f.thread_arr \in Seq(Threads \ {main})
    /\ ~ Forked(f) => f.thread_arr = <<>>

(* The commands of the line that a call has still to begin; a simple one is *)
(* counted until its call returns.                                          *)
Pend(l, f) ==
    IF f.cmd[1] = "none" \/ f.pc = "start" THEN Span(l, f.cmd)
    ELSE IF f.pc \in {"second thread", "second", "decide"} THEN Span(l, f.cmd[3])
    ELSE {}

IsStack(l, s) ==
    /\ \A n \in DOMAIN s : IsFrame(l, s[n])
    /\ \A n \in DOMAIN s : n > 1 => s[n].pc \in Calling
    /\ \A n, m \in DOMAIN s : n < m => /\ Span(l, s[n].cmd) \subseteq Span(l, s[m].cmd)
                                       /\ Span(l, s[n].cmd) \cap Pend(l, s[m]) = {}
Own(l, s) == UNION {Pend(l, s[n]) : n \in DOMAIN s}

IsThread(l, r) ==
    /\ r = ThreadOf(r.st, r.stack, r.val)
    /\ r.st \in {"none", "run", "ended"}
    /\ Sequence(r.stack) /\ IsStack(l, r.stack)
    /\ r.st # "run" => r.stack = <<>>

Size(l, t) == Hi(l, t) - Lo(l, t)
Under(l, s, f) == \A n \in DOMAIN s : Size(l, s[n].cmd) < Size(l, f.cmd)
Within(l, s, f) == \A n \in DOMAIN s : Span(l, s[n].cmd) \subseteq Span(l, f.cmd)

(* Every thread but the first is awaited by one that is in a larger part of *)
(* the line; the parts that two threads have still to begin are apart; and  *)
(* all is within the parallel command that the first thread executes.       *)
Held(l, th, k) ==
    \E t \in Threads : /\ th[t].stack # <<>> /\ k \in Range(th[t].stack[1].thread_arr)
                       /\ Under(l, th[k].stack, th[t].stack[1])
Inside(l, th, k) ==
    /\ th[main].stack # <<>> /\ Forked(th[main].stack[1])
    /\ Within(l, th[k].stack, th[main].stack[1])
ThreadsInv(l, th) ==
    /\ th = [t \in Threads |-> th[t]] /\ \A t \in Threads : IsThread(l, th[t])
    /\ th[main].st = "run"
    /\ \A k \in Threads \ {main} : th[k].st # "none" => Held(l, th, k) /\ Inside(l, th, k)
    /\ \A t, u \in Threads : t # u => Own(l, th[t].stack) \cap Own(l, th[u].stack) = {}

-----------------------------------------------------------------------------
(* The files and the programs. *)

InSimple(r, i) == r.stack # <<>> /\ r.stack[1].cmd[1] = "none" /\ r.stack[1].cmd[2] = i
Busy(r, i) == InSimple(r, i) /\ r.stack[1].pc # "start"
Waits(r, i) == InSimple(r, i) /\ r.stack[1].pc = "wait"

(* What the first thread executes: a simple command, or a parallel one.     *)
Now(l, s) ==
    IF s # <<>> /\ (s[1].cmd[1] = "none" \/ Forked(s[1])) THEN Span(l, s[1].cmd) ELSE {}

IsFile(f) == f = [h |-> f.h, name |-> f.name, access |-> f.access, share |-> f.share, of |-> f.of]
FilesInv(l, th, fs, progs) ==
    /\ \A f \in fs :
        /\ IsFile(f)
        /\ f.of = 0 => \E t \in Threads : Busy(th[t], f.h[1])
        /\ f.of # 0 => f.of \in progs
        /\ f.h[1] \in Now(l, th[main].stack)
        /\ \A t \in Threads : f.h[1] \in Own(l, th[t].stack) => Busy(th[t], f.h[1])
    /\ \A i \in progs : \E t \in Threads : Waits(th[t], i)

-----------------------------------------------------------------------------
(* The words a command has still to redirect to, and what is open. *)

Redirecting(f) == f.cmd[1] = "none" /\ f.pc \in {"redirect", "redirect_err"}
IsFirstBoth(red, b) == b \in DOMAIN red /\ red[b][1] = "&>" /\ \A a \in 1 .. b - 1 : red[a][1] # "&>"
(* From the first "&>" on the two lists are one.                            *)
InStep(red, w) ==
    \A b \in DOMAIN red : IsFirstBoth(red, b) =>
        w[1] = w[2] \/ (w[1] \in 1 .. b - 1 /\ w[2] = b)
WordsOf(red, f) ==
    /\ f.word = [k \in 0 .. 2 |-> f.word[k]]
    /\ \A k \in 0 .. 2 : f.word[k] = 0 \/ f.word[k] \in Linked(red, k, Len(red))
    /\ f.pc = "redirect_err" =>
        f.word[1] # 0 /\ f.word[2] # 0 /\ red[f.word[1]][2] = red[f.word[2]][2]
    /\ ~ ClashesItself(red) /\ ~ AppendsOutOnly(red) => InStep(red, f.word)

(* A file is that of a node, opened no more strictly than the text says.    *)
OpenOf(red, a, name, access, share) ==
    /\ a \in DOMAIN red /\ name = red[a][2] /\ access = Access(red[a])
    /\ access = "read" => share = "read"
    /\ share = "read" => Share(red, red[a]) = "read"
    /\ share \in {"read", "write"}
(* A node that shares with readers only is opened once.                     *)
Passed(red, a, share, f) ==
    (red[a][1] \in {">", ">>"} /\ ~ AppendsOutOnly(red)) =>
        \/ f.word[1] = 0 \/ a < f.word[1]
        \/ f.pc = "redirect_err" /\ a = f.word[1] /\ share = "write"
NodeOf(red, a, o, th) ==
    /\ OpenOf(red, a, o.name, o.access, o.share)
    /\ \A t \in Threads : (InSimple(th[t], o.h[1]) /\ Redirecting(th[t].stack[1]))
                            => Passed(red, a, o.share, th[t].stack[1])
NodesInv(l, th, fs) ==
    /\ \A t \in Threads : (th[t].stack # <<>> /\ Redirecting(th[t].stack[1])) =>
            WordsOf(l.cmds[th[t].stack[1].cmd[2]].red, th[t].stack[1])
    /\ \A f \in fs : LET red == l.cmds[f.h[1]].red IN
            ~ ClashesItself(red) => \E a \in DOMAIN red : NodeOf(red, a, f, th)

-----------------------------------------------------------------------------
Excused ==
    \/ \E i \in DOMAIN line.cmds : Misses(RedOf(i)) \/ ClashesItself(RedOf(i))
    \/ \E i, j \in DOMAIN line.cmds : ClashInParallel(i, j)
Prompting ==
    /\ files = {} /\ running = {}
    /\ thread = [t \in Threads |-> thread[t]]
    /\ \A t \in Threads : thread[t].st = "none" /\ thread[t].stack = <<>>
                          /\ thread[t] = [st |-> "none", stack |-> <<>>, val |-> thread[t].val]
Executing ==
    /\ line \in Lines \ Refused
    /\ ThreadsInv(line, thread) /\ FilesInv(line, thread, files, running)
    /\ NodesInv(line, thread, files)
WinInv ==
    /\ (line = None /\ Prompting) \/ Executing
    /\ over = "DIE" => line # None /\ Excused
-----------------------------------------------------------------------------
(* The records of the model, and what the operations on them make of them.  *)
OnTop(s, f) == [s EXCEPT ![1] = f]
(* A thread whose innermost call is f.                                      *)
Calls(r, f) ==
    /\ r = ThreadOf(r.st, r.stack, r.val) /\ Sequence(r.stack) /\ r.stack # <<>>
    /\ f = r.stack[1] /\ f = FrameOf(f.cmd, f.pc, f.thread_arr, f.opened, f.word)

LEMMA FieldsOf ==
    /\ \A cmd, pc, arr, opened, word :
        LET f == FrameOf(cmd, pc, arr, opened, word) IN
        f.cmd = cmd /\ f.pc = pc /\ f.thread_arr = arr /\ f.opened = opened /\ f.word = word
    /\ \A st, stack, val :
        LET r == ThreadOf(st, stack, val) IN r.st = st /\ r.stack = stack /\ r.val = val
BY DEF FrameOf, ThreadOf

LEMMA GoesTo ==
    ASSUME NEW r, NEW f, Calls(r, f), NEW pc
    PROVE  Goto(r, pc) = ThreadOf(r.st, OnTop(r.stack, FrameOf(f.cmd, pc, f.thread_arr, f.opened, f.word)), r.val)
<1>1. 1 \in DOMAIN r.stack
    BY DEF Calls, Sequence
<1>2. PICK r2 : r2 = Goto(r, pc)
    OBVIOUS
<1>3. PICK st, stack, v0 : r = ThreadOf(st, stack, v0)
    BY DEF Calls
<1>4. PICK s2 : s2 = r2.stack
    OBVIOUS
<1>5. PICK f2 : f2 = s2[1]
    OBVIOUS
<1>6. PICK f3 : f3 = FrameOf(f.cmd, pc, f.thread_arr, f.opened, f.word)
    OBVIOUS
<1>7. f2 = f3
    BY <1>1, <1>2, <1>4, <1>5, <1>6 DEF Calls, Sequence, FrameOf, ThreadOf, Goto
<1>8. s2 = OnTop(r.stack, f3)
    BY <1>1, <1>2, <1>3, <1>4, <1>5, <1>7 DEF ThreadOf, OnTop, Goto
<1>9. r2 = ThreadOf(st, s2, v0)
    BY <1>2, <1>3, <1>4 DEF ThreadOf, Goto
<1>10. r.st = st /\ r.val = v0
    BY <1>3, FieldsOf
<1> QED BY <1>2, <1>6, <1>8, <1>9, <1>10

LEMMA GoesWith ==
    ASSUME NEW r, NEW f, Calls(r, f), NEW pc, NEW v
    PROVE  [Goto(r, pc) EXCEPT !.val = v] = ThreadOf(r.st, OnTop(r.stack, FrameOf(f.cmd, pc, f.thread_arr, f.opened, f.word)), v)
<1>1. 1 \in DOMAIN r.stack
    BY DEF Calls, Sequence
<1>2. PICK r2 : r2 = [Goto(r, pc) EXCEPT !.val = v]
    OBVIOUS
<1>3. PICK st, stack, v0 : r = ThreadOf(st, stack, v0)
    BY DEF Calls
<1>4. PICK s2 : s2 = r2.stack
    OBVIOUS
<1>5. PICK f2 : f2 = s2[1]
    OBVIOUS
<1>6. PICK f3 : f3 = FrameOf(f.cmd, pc, f.thread_arr, f.opened, f.word)
    OBVIOUS
<1>7. f2 = f3
    BY <1>1, <1>2, <1>4, <1>5, <1>6 DEF Calls, Sequence, FrameOf, ThreadOf, Goto
<1>8. s2 = OnTop(r.stack, f3)
    BY <1>1, <1>2, <1>3, <1>4, <1>5, <1>7 DEF ThreadOf, OnTop, Goto
<1>9. r2 = ThreadOf(st, s2, v)
    BY <1>2, <1>3, <1>4 DEF ThreadOf, Goto
<1>10. r.st = st /\ r.val = v0
    BY <1>3, FieldsOf
<1> QED BY <1>2, <1>6, <1>8, <1>9, <1>10

LEMMA Starts ==
    ASSUME NEW r, NEW f, Calls(r, f), NEW pc, NEW w
    PROVE  [Goto(r, pc) EXCEPT !.stack[1].word = w] = ThreadOf(r.st, OnTop(r.stack, FrameOf(f.cmd, pc, f.thread_arr, f.opened, w)), r.val)
<1>1. 1 \in DOMAIN r.stack
    BY DEF Calls, Sequence
<1>2. PICK r2 : r2 = [Goto(r, pc) EXCEPT !.stack[1].word = w]
    OBVIOUS
<1>3. PICK st, stack, v0 : r = ThreadOf(st, stack, v0)
    BY DEF Calls
<1>4. PICK s2 : s2 = r2.stack
    OBVIOUS
<1>5. PICK f2 : f2 = s2[1]
    OBVIOUS
<1>6. PICK f3 : f3 = FrameOf(f.cmd, pc, f.thread_arr, f.opened, w)
    OBVIOUS
<1>7. f2 = f3
    BY <1>1, <1>2, <1>4, <1>5, <1>6 DEF Calls, Sequence, FrameOf, ThreadOf, Goto
<1>8. s2 = OnTop(r.stack, f3)
    BY <1>1, <1>2, <1>3, <1>4, <1>5, <1>7 DEF ThreadOf, OnTop, Goto
<1>9. r2 = ThreadOf(st, s2, v0)
    BY <1>2, <1>3, <1>4 DEF ThreadOf, Goto
<1>10. r.st = st /\ r.val = v0
    BY <1>3, FieldsOf
<1> QED BY <1>2, <1>6, <1>8, <1>9, <1>10

Popped(w, next, popped) == [j \in 0 .. 2 |-> IF j \in popped THEN next[w[j]] ELSE w[j]]
Opened(r, pc, next, popped) ==
    [Goto(r, pc) EXCEPT
        !.stack[1].opened = @ + 1,
        !.stack[1].word = [j \in 0 .. 2 |-> IF j \in popped THEN next[@[j]] ELSE @[j]]]
LEMMA Opens ==
    ASSUME NEW r, NEW f, Calls(r, f), NEW pc, NEW next, NEW popped
    PROVE  Opened(r, pc, next, popped) = ThreadOf(r.st, OnTop(r.stack, FrameOf(f.cmd, pc, f.thread_arr, f.opened + 1, Popped(f.word, next, popped))), r.val)
<1>1. 1 \in DOMAIN r.stack
    BY DEF Calls, Sequence
<1>0. PICK r2 : r2 = Opened(r, pc, next, popped)
    OBVIOUS
<1>2. r2 = [Goto(r, pc) EXCEPT
                !.stack[1].opened = @ + 1,
                !.stack[1].word = [j \in 0 .. 2 |-> IF j \in popped THEN next[@[j]] ELSE @[j]]]
    BY <1>0 DEF Opened
<1>3. PICK st, stack, v0 : r = ThreadOf(st, stack, v0)
    BY DEF Calls
<1>4. PICK s2 : s2 = r2.stack
    OBVIOUS
<1>5. PICK f2 : f2 = s2[1]
    OBVIOUS
<1>6. PICK f3 : f3 = FrameOf(f.cmd, pc, f.thread_arr, f.opened + 1, Popped(f.word, next, popped))
    OBVIOUS
<1>7. f2 = f3
    BY <1>1, <1>2, <1>4, <1>5, <1>6, Zenon DEF Calls, Sequence, FrameOf, ThreadOf, Goto, Popped
<1>8. s2 = OnTop(r.stack, f3)
    <2>10. PICK g1, g : /\ g1 = Goto(r, pc)
                       /\ g = FrameOf(f.cmd, pc, f.thread_arr, f.opened, f.word)
        OBVIOUS
    <2>11. g1 = ThreadOf(st, OnTop(stack, g), v0) /\ stack = r.stack
        <3>1. g1 = ThreadOf(r.st, OnTop(r.stack, g), r.val)
            BY <2>10, GoesTo
        <3> QED BY <1>3, <3>1, FieldsOf
    <2>1. PICK r1, s1, f1, w : /\ r1 = [g1 EXCEPT !.stack[1].opened = @ + 1]
                               /\ s1 = r1.stack /\ f1 = s1[1] /\ w = Popped(f.word, next, popped)
        OBVIOUS
    <2>2. s1 = OnTop(stack, f1)
        BY <1>1, <2>11, <2>1 DEF ThreadOf, OnTop
    <2>3. f1.word = f.word
        BY <1>1, <2>10, <2>11, <2>1 DEF ThreadOf, FrameOf, OnTop
    <2>4. r2 = [r1 EXCEPT !.stack[1].word = [j \in 0 .. 2 |-> IF j \in popped THEN next[@[j]] ELSE @[j]]]
        BY <1>2, <2>10, <2>1, Zenon
    <2>12. r1.stack[1].word = f.word
        BY <2>1, <2>3
    <2>5. r2 = [r1 EXCEPT !.stack[1].word = w]
        BY ONLY <2>1, <2>4, <2>12 DEF Popped
    <2>6. r1 = ThreadOf(st, s1, v0)
        BY <2>11, <2>1 DEF ThreadOf
    <2>7. s2 = [s1 EXCEPT ![1].word = w]
        BY <1>4, <2>5, <2>6 DEF ThreadOf
    <2>8. s2 = OnTop(s1, f2)
        BY <1>1, <1>5, <2>2, <2>7 DEF OnTop
    <2> QED BY ONLY <1>1, <1>7, <2>2, <2>8, <2>11 DEF OnTop
<1>9. r2 = ThreadOf(st, s2, v0)
    BY <1>2, <1>3, <1>4 DEF ThreadOf, Goto, Popped
<1>10. r.st = st /\ r.val = v0
    BY <1>3, FieldsOf
<1> QED BY <1>0, <1>6, <1>8, <1>9, <1>10

LEMMA Forks ==
    ASSUME NEW r, NEW f, Calls(r, f), NEW pc, NEW k
    PROVE  [Goto(r, pc) EXCEPT !.stack[1].thread_arr = Append(@, k)] = ThreadOf(r.st, OnTop(r.stack, FrameOf(f.cmd, pc, Append(f.thread_arr, k), f.opened, f.word)), r.val)
<1>1. 1 \in DOMAIN r.stack
    BY DEF Calls, Sequence
<1>2. PICK r2 : r2 = [Goto(r, pc) EXCEPT !.stack[1].thread_arr = Append(@, k)]
    OBVIOUS
<1>3. PICK st, stack, v0 : r = ThreadOf(st, stack, v0)
    BY DEF Calls
<1>4. PICK s2 : s2 = r2.stack
    OBVIOUS
<1>5. PICK f2 : f2 = s2[1]
    OBVIOUS
<1>6. PICK f3 : f3 = FrameOf(f.cmd, pc, Append(f.thread_arr, k), f.opened, f.word)
    OBVIOUS
<1>7. f2 = f3
    BY <1>1, <1>2, <1>4, <1>5, <1>6 DEF Calls, Sequence, FrameOf, ThreadOf, Goto
<1>8. s2 = OnTop(r.stack, f3)
    BY <1>1, <1>2, <1>3, <1>4, <1>5, <1>7 DEF ThreadOf, OnTop, Goto
<1>9. r2 = ThreadOf(st, s2, v0)
    BY <1>2, <1>3, <1>4 DEF ThreadOf, Goto
<1>10. r.st = st /\ r.val = v0
    BY <1>3, FieldsOf
<1> QED BY <1>2, <1>6, <1>8, <1>9, <1>10

LEMMA CallsNext ==
    ASSUME NEW r, NEW f, Calls(r, f), NEW pc, NEW c
    PROVE  Call(r, pc, c) =
            ThreadOf(r.st, <<Frame(c)>> \o OnTop(r.stack, FrameOf(f.cmd, pc, f.thread_arr, f.opened, f.word)),
                     r.val)
<1>1. PICK r1 : r1 = Goto(r, pc)
    OBVIOUS
<1>2. r1.stack = OnTop(r.stack, FrameOf(f.cmd, pc, f.thread_arr, f.opened, f.word))
    BY <1>1, GoesTo, FieldsOf
<1>3. PICK s2 : s2 = <<Frame(c)>> \o r1.stack
    OBVIOUS
<1>4. PICK r2 : r2 = Call(r, pc, c)
    OBVIOUS
<1>5. r2 = [r EXCEPT !.stack = s2]
    BY <1>1, <1>3, <1>4 DEF Call
<1>6. PICK st, stack, v0 : r = ThreadOf(st, stack, v0)
    BY DEF Calls
<1>7. r2 = ThreadOf(r.st, s2, r.val)
    BY <1>5, <1>6 DEF ThreadOf
<1> QED BY <1>2, <1>3, <1>4, <1>7

LEMMA Returns ==
    ASSUME NEW r, r = ThreadOf(r.st, r.stack, r.val), NEW v
    PROVE  Return(r, v) = ThreadOf(r.st, Tail(r.stack), v)
<1>1. PICK r2 : r2 = Return(r, v)
    OBVIOUS
<1>2. PICK st, stack, v0 : r = ThreadOf(st, stack, v0)
    OBVIOUS
<1>3. r2 = ThreadOf(r.st, Tail(r.stack), v)
    BY <1>1, <1>2 DEF ThreadOf, Return
<1> QED BY <1>1, <1>3

-----------------------------------------------------------------------------
(* Parts of the tree, and stacks of calls. *)

LEMMA TwoParts ==
    ASSUME NEW l, IsLine(l), NEW t, IsTree(l, t), t[1] # "none"
    PROVE  /\ IsTree(l, t[2]) /\ IsTree(l, t[3])
           /\ Span(l, t) = Span(l, t[2]) \cup Span(l, t[3])
           /\ Span(l, t[2]) \cap Span(l, t[3]) = {}
           /\ Size(l, t[2]) < Size(l, t) /\ Size(l, t[3]) < Size(l, t)
<1>1. IsTree(l, t[2]) /\ IsTree(l, t[3])
    BY TreeFacts
<1>2. PICK a, b, k, m : a = Lo(l, t) /\ b = Hi(l, t) /\ k = Hi(l, t[2]) /\ m = Lo(l, t[3])
    OBVIOUS
<1>3. a \in Nat /\ b \in Nat /\ k \in Nat /\ m \in Nat /\ a <= k /\ m <= b
    BY <1>1, <1>2, TreeFacts
<1>4. k + 1 = m /\ Lo(l, t[2]) = a /\ Hi(l, t[3]) = b
    BY <1>2, TreeFacts
<1>5. (a .. b) = (a .. k) \cup (m .. b) /\ (a .. k) \cap (m .. b) = {}
    BY <1>3, <1>4
<1>6. k - a < b - a /\ b - m < b - a
    BY <1>3, <1>4
<1> QED BY <1>1, <1>2, <1>4, <1>5, <1>6 DEF Span, Size

LEMMA SpanFacts ==
    ASSUME NEW l, IsLine(l), NEW t, IsTree(l, t)
    PROVE  /\ Size(l, t) \in Nat
           /\ t[1] = "none" => Span(l, t) = {t[2]}
           /\ \A i \in Span(l, t) : i \in 1 .. Len(l.cmds)
           /\ \A u : IsTree(l, u) /\ Span(l, u) \subseteq Span(l, t) => Size(l, u) <= Size(l, t)
<1>1. /\ Lo(l, t) \in 1 .. Len(l.cmds) /\ Hi(l, t) \in 1 .. Len(l.cmds) /\ Len(l.cmds) \in Nat
      /\ Lo(l, t) \in Nat /\ Hi(l, t) \in Nat /\ Lo(l, t) <= Hi(l, t)
      /\ t[1] = "none" => Lo(l, t) = t[2] /\ Hi(l, t) = t[2]
    BY TreeFacts, LineFacts
<1>2. ASSUME NEW u, IsTree(l, u), Span(l, u) \subseteq Span(l, t) PROVE Size(l, u) <= Size(l, t)
    <2>1. Lo(l, u) \in Nat /\ Hi(l, u) \in Nat /\ Lo(l, u) <= Hi(l, u)
        BY <1>2, TreeFacts
    <2>2. Lo(l, u) \in Span(l, t) /\ Hi(l, u) \in Span(l, t)
        BY <1>2, <2>1 DEF Span
    <2> QED BY <1>1, <2>1, <2>2 DEF Span, Size
<1>3. Size(l, t) \in Nat
    BY <1>1 DEF Size
<1>4. t[1] = "none" => Span(l, t) = {t[2]}
    <2>1. \A a \in Nat : (a .. a) = {a}
        OBVIOUS
    <2> QED BY <1>1, <2>1 DEF Span
<1>5. \A i \in Span(l, t) : i \in 1 .. Len(l.cmds)
    BY <1>1 DEF Span
<1> QED BY <1>2, <1>3, <1>4, <1>5

LEMMA SequenceIs ==
    ASSUME NEW S, NEW s \in Seq(S)
    PROVE  Sequence(s) /\ Len(s) \in Nat /\ DOMAIN s = 1 .. Len(s) /\ (s = <<>> <=> Len(s) = 0)
BY DEF Sequence, Range

LEMMA StackTop ==
    ASSUME NEW s, Sequence(s), s # <<>>, NEW f
    PROVE  /\ Sequence(OnTop(s, f)) /\ OnTop(s, f) # <<>> /\ OnTop(s, f)[1] = f
           /\ 1 \in DOMAIN s /\ DOMAIN OnTop(s, f) = DOMAIN s
           /\ \A n \in DOMAIN s : n # 1 => OnTop(s, f)[n] = s[n]
<1>1. PICK S : S = Range(s) \cup {f}
    OBVIOUS
<1>2. s \in Seq(S)
    BY <1>1 DEF Sequence
<1>3. f \in S /\ Len(s) \in Nat /\ Len(s) > 0
    BY <1>1, <1>2
<1>4. OnTop(s, f) \in Seq(S) /\ Len(OnTop(s, f)) = Len(s) /\ OnTop(s, f)[1] = f
    BY <1>2, <1>3 DEF OnTop
<1>5. DOMAIN s = 1 .. Len(s) /\ DOMAIN OnTop(s, f) = 1 .. Len(s)
    BY <1>2, <1>4
<1>6. \A n \in DOMAIN s : n # 1 => OnTop(s, f)[n] = s[n]
    BY DEF OnTop
<1>7. Sequence(OnTop(s, f)) /\ OnTop(s, f) # <<>>
    BY <1>3, <1>4, SequenceIs
<1> QED BY <1>3, <1>4, <1>5, <1>6, <1>7

LEMMA StackPush ==
    ASSUME NEW s, Sequence(s), NEW f
    PROVE  LET s2 == <<f>> \o s IN
           /\ Sequence(s2) /\ s2 # <<>> /\ s2[1] = f /\ Len(s) \in Nat
           /\ DOMAIN s = 1 .. Len(s) /\ DOMAIN s2 = 1 .. Len(s) + 1
           /\ \A n \in 2 .. Len(s) + 1 : s2[n] = s[n - 1]
<1>1. PICK S, s2 : S = Range(s) \cup {f} /\ s2 = <<f>> \o s
    OBVIOUS
<1>2. s \in Seq(S) /\ f \in S
    BY <1>1 DEF Sequence
<1>3. <<f>> \in Seq(S) /\ Len(<<f>>) = 1 /\ <<f>>[1] = f
    BY <1>2
<1>4. s2 \in Seq(S) /\ Len(s2) = Len(s) + 1 /\ s2[1] = f
    BY <1>1, <1>2, <1>3
<1>5. \A n \in 2 .. Len(s) + 1 : s2[n] = s[n - 1]
    BY <1>1, <1>2, <1>3
<1>6. Sequence(s2) /\ s2 # <<>> /\ Len(s) \in Nat /\ DOMAIN s = 1 .. Len(s) /\ DOMAIN s2 = 1 .. Len(s) + 1
    <2>1. Len(s) \in Nat
        BY <1>2
    <2> QED BY <1>2, <1>4, <2>1, SequenceIs
<1> QED BY <1>1, <1>4, <1>5, <1>6

LEMMA StackPop ==
    ASSUME NEW s, Sequence(s), s # <<>>
    PROVE  LET s2 == Tail(s) IN
           /\ Sequence(s2) /\ Len(s) \in Nat \ {0} /\ Len(s2) = Len(s) - 1
           /\ DOMAIN s = 1 .. Len(s) /\ DOMAIN s2 = 1 .. Len(s) - 1
           /\ \A n \in 1 .. Len(s) - 1 : s2[n] = s[n + 1]
<1>1. PICK S, s2 : S = Range(s) /\ s2 = Tail(s)
    OBVIOUS
<1>2. s \in Seq(S) /\ Len(s) \in Nat \ {0} /\ DOMAIN s = 1 .. Len(s)
    BY <1>1 DEF Sequence
<1>3. s2 \in Seq(S) /\ Len(s2) = Len(s) - 1 /\ \A n \in 1 .. Len(s) - 1 : s2[n] = s[n + 1]
    BY <1>1, <1>2
<1>4. Sequence(s2) /\ DOMAIN s2 = 1 .. Len(s) - 1
    BY <1>2, <1>3, SequenceIs
<1> QED BY <1>1, <1>2, <1>3, <1>4

(* The same calls, of which the innermost has gone on.                      *)
LEMMA StackAdvances ==
    ASSUME NEW l, NEW s, Sequence(s), s # <<>>, IsStack(l, s),
           NEW g, IsFrame(l, g), g.cmd = s[1].cmd, Pend(l, g) \subseteq Pend(l, s[1]),
           NEW s2, s2 = OnTop(s, g)
    PROVE  /\ IsStack(l, s2) /\ Own(l, s2) \subseteq Own(l, s)
           /\ \A n \in DOMAIN s2 : n \in DOMAIN s /\ s2[n].cmd = s[n].cmd
<1>1. /\ DOMAIN s2 = DOMAIN s /\ s2[1] = g /\ 1 \in DOMAIN s
      /\ \A n \in DOMAIN s : n # 1 => s2[n] = s[n]
    BY StackTop
<1>0. \A n \in DOMAIN s : n \in Nat /\ n >= 1
    BY DEF Sequence
<1>2. \A n \in DOMAIN s2 : s2[n].cmd = s[n].cmd
    BY <1>1
<1>3. \A n \in DOMAIN s2 : IsFrame(l, s2[n])
    BY <1>1 DEF IsStack
<1>4. \A n \in DOMAIN s2 : n > 1 => s2[n].pc \in Calling
    BY <1>1 DEF IsStack
<1>5. ASSUME NEW n \in DOMAIN s2, NEW m \in DOMAIN s2, n < m
      PROVE  /\ Span(l, s2[n].cmd) \subseteq Span(l, s2[m].cmd)
             /\ Span(l, s2[n].cmd) \cap Pend(l, s2[m]) = {}
    <2>1. s2[m] = s[m]
        BY <1>0, <1>1, <1>5
    <2>2. /\ Span(l, s[n].cmd) \subseteq Span(l, s[m].cmd)
          /\ Span(l, s[n].cmd) \cap Pend(l, s[m]) = {}
        BY <1>1, <1>5 DEF IsStack
    <2> QED BY <1>2, <2>1, <2>2
<1>6. \A n \in DOMAIN s2 : Pend(l, s2[n]) \subseteq Pend(l, s[n])
    BY <1>1
<1>7. Own(l, s2) \subseteq Own(l, s)
    BY <1>1, <1>6 DEF Own
<1> QED BY <1>1, <1>2, <1>3, <1>4, <1>5, <1>7 DEF IsStack

Returned(l, s, s2) ==
    /\ IsStack(l, s2) /\ Own(l, s2) \subseteq Own(l, s)
    /\ Own(l, s2) \cap Span(l, s[1].cmd) = {}
    /\ \A n \in DOMAIN s2 : \E m \in DOMAIN s : s2[n] = s[m]
    /\ s2 # <<>> => s2[1].pc \in Calling

LEMMA StackReturns ==
    ASSUME NEW l, NEW s, Sequence(s), s # <<>>, IsStack(l, s), NEW s2, s2 = Tail(s)
    PROVE  Returned(l, s, s2)
<1>1. /\ Sequence(s2) /\ Len(s) \in Nat \ {0} /\ DOMAIN s = 1 .. Len(s)
      /\ DOMAIN s2 = 1 .. Len(s) - 1 /\ Len(s2) = Len(s) - 1
      /\ \A n \in 1 .. Len(s) - 1 : s2[n] = s[n + 1]
    BY StackPop
<1>2. \A n \in DOMAIN s2 : /\ n + 1 \in DOMAIN s /\ s2[n] = s[n + 1] /\ n + 1 > 1
                           /\ n \in Nat
    BY <1>1
<1>3. \A n \in DOMAIN s2 : IsFrame(l, s2[n]) /\ s2[n].pc \in Calling
    BY <1>2 DEF IsStack
<1>4. ASSUME NEW n \in DOMAIN s2, NEW m \in DOMAIN s2, n < m
      PROVE  /\ Span(l, s2[n].cmd) \subseteq Span(l, s2[m].cmd)
             /\ Span(l, s2[n].cmd) \cap Pend(l, s2[m]) = {}
    <2>1. PICK a, b : a = n + 1 /\ b = m + 1
        OBVIOUS
    <2>2. a \in DOMAIN s /\ b \in DOMAIN s /\ a < b /\ s2[n] = s[a] /\ s2[m] = s[b]
        BY <1>2, <1>4, <2>1
    <2> QED BY <2>2 DEF IsStack
<1>5. IsStack(l, s2)
    BY <1>3, <1>4 DEF IsStack
<1>6. \A n \in DOMAIN s2 : \E m \in DOMAIN s : s2[n] = s[m] /\ m > 1
    BY <1>2
<1>7. Own(l, s2) \subseteq Own(l, s)
    BY <1>6 DEF Own
<1>8. Own(l, s2) \cap Span(l, s[1].cmd) = {}
    <2>1. 1 \in DOMAIN s
        BY <1>1
    <2>2. \A m \in DOMAIN s : m > 1 => Span(l, s[1].cmd) \cap Pend(l, s[m]) = {}
        BY <2>1 DEF IsStack
    <2> QED BY <1>6, <2>2 DEF Own
<1>9. s2 # <<>> => s2[1].pc \in Calling
    <2>1. s2 # <<>> => 1 \in DOMAIN s2
        BY <1>1 DEF Sequence
    <2> QED BY <1>3, <2>1
<1> QED BY <1>5, <1>6, <1>7, <1>8, <1>9 DEF Returned

CanCall(l, s, f) ==
    /\ Sequence(s) /\ s # <<>> /\ IsStack(l, s) /\ s[1].pc \in Calling
    /\ IsFrame(l, f) /\ Span(l, f.cmd) \subseteq Span(l, s[1].cmd)
    /\ Span(l, f.cmd) \cap Pend(l, s[1]) = {}
Called(l, s, f, s2) ==
    /\ IsStack(l, s2) /\ Own(l, s2) \subseteq Own(l, s) \cup Pend(l, f)
    /\ \A n \in DOMAIN s2 : \E m \in DOMAIN s :
            IsFrame(l, s2[n]) /\ IsFrame(l, s[m]) /\ Span(l, s2[n].cmd) \subseteq Span(l, s[m].cmd)

LEMMA StackCalls ==
    ASSUME NEW l, NEW s, NEW f, CanCall(l, s, f), NEW s2, s2 = <<f>> \o s
    PROVE  Called(l, s, f, s2)
<1> USE DEF CanCall
<1>1. /\ s2[1] = f /\ Len(s) \in Nat /\ DOMAIN s = 1 .. Len(s) /\ DOMAIN s2 = 1 .. Len(s) + 1
      /\ \A n \in 2 .. Len(s) + 1 : s2[n] = s[n - 1]
    BY StackPush
<1>2. \A n \in DOMAIN s2 : /\ n \in Nat /\ n >= 1
                           /\ n = 1 \/ (n - 1 \in DOMAIN s /\ s2[n] = s[n - 1])
    BY <1>1
<1>3. 1 \in DOMAIN s
    BY <1>1 DEF Sequence
<1>4. \A m \in DOMAIN s : m \in Nat /\ m >= 1
    BY <1>1
<1>5. \A n \in DOMAIN s2 : IsFrame(l, s2[n])
    BY <1>1, <1>2 DEF IsStack
<1>6. ASSUME NEW n \in DOMAIN s2, n > 1 PROVE s2[n].pc \in Calling
    <2>1. PICK m : m = n - 1
        OBVIOUS
    <2>2. m \in DOMAIN s /\ s2[n] = s[m]
        BY <1>2, <1>6, <2>1
    <2>3. m = 1 \/ m > 1
        BY <1>4, <2>2
    <2> QED BY <2>2, <2>3 DEF IsStack
<1>7. ASSUME NEW n \in DOMAIN s2, NEW m \in DOMAIN s2, n < m
      PROVE  /\ Span(l, s2[n].cmd) \subseteq Span(l, s2[m].cmd)
             /\ Span(l, s2[n].cmd) \cap Pend(l, s2[m]) = {}
    <2>1. PICK a, b : a = n - 1 /\ b = m - 1
        OBVIOUS
    <2>2. b \in DOMAIN s /\ s2[m] = s[b]
        BY <1>2, <1>7, <2>1
    <2>3. CASE n = 1
        <3>1. b = 1 \/ 1 < b
            BY <1>4, <2>2
        <3>2. 1 < b => /\ Span(l, s[1].cmd) \subseteq Span(l, s[b].cmd)
                       /\ Span(l, s[1].cmd) \cap Pend(l, s[b]) = {}
            BY <1>3, <2>2 DEF IsStack
        <3>3. s2[n] = f
            BY <1>1, <2>3
        <3> QED BY <2>2, <3>1, <3>2, <3>3
    <2>4. CASE n # 1
        <3>1. a \in DOMAIN s /\ s2[n] = s[a] /\ a < b
            BY <1>2, <1>7, <2>1, <2>4
        <3> QED BY <2>2, <3>1 DEF IsStack
    <2> QED BY <2>3, <2>4
<1>8. Own(l, s2) \subseteq Own(l, s) \cup Pend(l, f)
    BY <1>1, <1>2 DEF Own
<1>9. ASSUME NEW n \in DOMAIN s2
      PROVE  \E m \in DOMAIN s :
                IsFrame(l, s2[n]) /\ IsFrame(l, s[m]) /\ Span(l, s2[n].cmd) \subseteq Span(l, s[m].cmd)
    <2>1. \A m \in DOMAIN s : IsFrame(l, s[m])
        BY DEF IsStack
    <2>2. CASE n = 1
        BY <1>1, <1>3, <2>1, <2>2
    <2>3. CASE n # 1
        BY <1>2, <2>1, <2>3
    <2> QED BY <2>2, <2>3
<1> QED BY <1>5, <1>6, <1>7, <1>8, <1>9 DEF IsStack, Called

-----------------------------------------------------------------------------
(* What a step of one thread leaves to the others. *)

Below(l, s2, s) ==
    \A n \in DOMAIN s2 : \E m \in DOMAIN s :
        /\ IsTree(l, s2[n].cmd) /\ IsTree(l, s[m].cmd)
        /\ Span(l, s2[n].cmd) \subseteq Span(l, s[m].cmd)

LEMMA BelowKeeps ==
    ASSUME NEW l, IsLine(l), NEW s2, NEW s, Below(l, s2, s), NEW f, IsTree(l, f.cmd)
    PROVE  /\ Under(l, s, f) => Under(l, s2, f)
           /\ Within(l, s, f) => Within(l, s2, f)
<1>1. ASSUME Under(l, s, f), NEW n \in DOMAIN s2 PROVE Size(l, s2[n].cmd) < Size(l, f.cmd)
    <2>1. PICK m \in DOMAIN s : /\ IsTree(l, s2[n].cmd) /\ IsTree(l, s[m].cmd)
                                /\ Span(l, s2[n].cmd) \subseteq Span(l, s[m].cmd)
        BY DEF Below
    <2>2. Size(l, s2[n].cmd) <= Size(l, s[m].cmd)
        BY <2>1, SpanFacts
    <2>3. Size(l, s[m].cmd) < Size(l, f.cmd)
        BY <1>1 DEF Under
    <2>4. Size(l, s2[n].cmd) \in Nat /\ Size(l, s[m].cmd) \in Nat /\ Size(l, f.cmd) \in Nat
        BY <2>1, SpanFacts
    <2> QED BY <2>2, <2>3, <2>4
<1>2. ASSUME Within(l, s, f) PROVE Within(l, s2, f)
    BY <1>2 DEF Within, Below
<1> QED BY <1>1, <1>2 DEF Under

LEMMA FramesOf ==
    ASSUME NEW l, NEW th, ThreadsInv(l, th), NEW t \in Threads
    PROVE  /\ IsThread(l, th[t]) /\ Sequence(th[t].stack) /\ IsStack(l, th[t].stack)
           /\ th[t] = ThreadOf(th[t].st, th[t].stack, th[t].val)
           /\ \A n \in DOMAIN th[t].stack : IsFrame(l, th[t].stack[n]) /\ IsTree(l, th[t].stack[n].cmd)
           /\ th[t].stack # <<>> =>
                /\ th[t].st = "run" /\ 1 \in DOMAIN th[t].stack
                /\ IsFrame(l, th[t].stack[1]) /\ IsTree(l, th[t].stack[1].cmd)
                /\ Calls(th[t], th[t].stack[1])
<1>1. /\ IsThread(l, th[t]) /\ Sequence(th[t].stack) /\ IsStack(l, th[t].stack)
      /\ th[t] = ThreadOf(th[t].st, th[t].stack, th[t].val)
      /\ th[t].st # "run" => th[t].stack = <<>>
    BY DEF ThreadsInv, IsThread
<1>2. \A n \in DOMAIN th[t].stack : IsFrame(l, th[t].stack[n]) /\ IsTree(l, th[t].stack[n].cmd)
    BY <1>1 DEF IsStack, IsFrame
<1>3. ASSUME th[t].stack # <<>> PROVE 1 \in DOMAIN th[t].stack
    BY <1>1, <1>3 DEF Sequence
<1>4. ASSUME th[t].stack # <<>> PROVE Calls(th[t], th[t].stack[1])
    <2>1. IsFrame(l, th[t].stack[1])
        BY <1>2, <1>3, <1>4
    <2> QED BY <1>1, <1>4, <2>1 DEF Calls, IsFrame
<1> QED BY <1>1, <1>2, <1>3, <1>4

(* A thread that waits for no other one makes a step.                       *)
OneMoves(l, th, t, r2) ==
    /\ t \in Threads /\ (th[t].stack = <<>> \/ ~ Forked(th[t].stack[1]))
    /\ IsThread(l, r2) /\ th[t].st = "run" /\ r2.st # "none" /\ (t = main => r2.st = "run")
    /\ Own(l, r2.stack) \subseteq Own(l, th[t].stack) /\ Below(l, r2.stack, th[t].stack)

LEMMA OneKeepsThreads ==
    ASSUME NEW l, IsLine(l), NEW th, ThreadsInv(l, th), NEW t, NEW r2, OneMoves(l, th, t, r2),
           NEW th2, th2 = [th EXCEPT ![t] = r2]
    PROVE  ThreadsInv(l, th2)
<1>1. t \in Threads /\ main \in Threads
    BY WinAssumption DEF OneMoves
<1>2. /\ th2 = [u \in Threads |-> th2[u]] /\ th2[t] = r2
      /\ \A u \in Threads : u # t => th2[u] = th[u]
    BY <1>1 DEF ThreadsInv
<1>3. \A u \in Threads : IsThread(l, th2[u])
    BY <1>2 DEF ThreadsInv, OneMoves
<1>4. th2[main].st = "run"
    BY <1>1, <1>2 DEF ThreadsInv, OneMoves
<1>5. \A u \in Threads : Own(l, th2[u].stack) \subseteq Own(l, th[u].stack)
    BY <1>2 DEF OneMoves
<1>6. \A u, v \in Threads : u # v => Own(l, th2[u].stack) \cap Own(l, th2[v].stack) = {}
    <2>1. \A u, v \in Threads : u # v => Own(l, th[u].stack) \cap Own(l, th[v].stack) = {}
        BY DEF ThreadsInv
    <2> QED BY <1>5, <2>1
<1>7. \A u \in Threads : Below(l, th2[u].stack, th[u].stack)
    <2>1. ASSUME NEW u \in Threads, u # t PROVE Below(l, th2[u].stack, th[u].stack)
        <3>1. \A n \in DOMAIN th[u].stack : IsTree(l, th[u].stack[n].cmd)
            BY FramesOf
        <3> QED BY <1>2, <2>1, <3>1 DEF Below
    <2> QED BY <1>2, <2>1 DEF OneMoves
<1>8. ASSUME NEW k \in Threads \ {main}, th2[k].st # "none" PROVE Held(l, th2, k) /\ Inside(l, th2, k)
    <2>1. Held(l, th, k) /\ Inside(l, th, k)
        <3>1. th[k].st # "none"
            BY <1>2, <1>8 DEF OneMoves
        <3> QED BY <3>1 DEF ThreadsInv
    <2>2. PICK u \in Threads : /\ th[u].stack # <<>> /\ k \in Range(th[u].stack[1].thread_arr)
                               /\ Under(l, th[k].stack, th[u].stack[1])
        BY <2>1 DEF Held
    <2>3. u # t
        <3>1. SUFFICES ASSUME u = t PROVE FALSE
            OBVIOUS
        <3>2. th[t].stack[1].thread_arr = <<>>
            <4>1. IsFrame(l, th[t].stack[1]) /\ ~ Forked(th[t].stack[1])
                BY <2>2, <3>1, FramesOf DEF OneMoves
            <4> QED BY <4>1 DEF IsFrame
        <3>3. k \in Range(<<>>)
            BY <2>2, <3>1, <3>2
        <3> QED BY <3>3 DEF Range
    <2>4. th2[u] = th[u]
        BY <1>2, <2>3
    <2>5. Under(l, th2[k].stack, th[u].stack[1])
        <3>1. IsTree(l, th[u].stack[1].cmd)
            BY <2>2, FramesOf
        <3> QED BY <1>7, <2>2, <3>1, BelowKeeps
    <2>6. Held(l, th2, k)
        BY <2>2, <2>4, <2>5 DEF Held
    <2>7. t # main
        <3>1. SUFFICES ASSUME t = main PROVE FALSE
            OBVIOUS
        <3> QED BY <2>1, <3>1 DEF Inside, OneMoves
    <2>8. th2[main] = th[main]
        BY <1>1, <1>2, <2>7
    <2>9. Within(l, th2[k].stack, th[main].stack[1])
        <3>1. IsTree(l, th[main].stack[1].cmd)
            BY <1>1, <2>1, FramesOf DEF Inside
        <3> QED BY <1>7, <2>1, <3>1, BelowKeeps DEF Inside
    <2> QED BY <2>1, <2>6, <2>8, <2>9 DEF Inside
<1> QED BY <1>2, <1>3, <1>4, <1>6, <1>8 DEF ThreadsInv

LEMMA FrameIs ==
    ASSUME NEW l, IsLine(l), NEW c, IsTree(l, c), NEW f, f = Frame(c)
    PROVE  IsFrame(l, f) /\ f.cmd = c /\ f.pc = "start" /\ Pend(l, f) = Span(l, c)
<1>1. /\ f.cmd = c /\ f.pc = "start" /\ f.thread_arr = <<>>
      /\ f = FrameOf(f.cmd, f.pc, f.thread_arr, f.opened, f.word)
    BY DEF Frame, FrameOf
<1>2. c[1] \in Operators \cup {"none"}
    BY TreeFacts
<1>3. ASSUME NEW op \in Operators \cup {"none"} PROVE "start" \in Pcs[op]
    <2>1. op = "none" => "start" \in Pcs[op]
        BY DEF Pcs
    <2>2. op = "parallel" => "start" \in Pcs[op]
        BY DEF Pcs
    <2>3. op = "zero" => "start" \in Pcs[op]
        BY DEF Pcs
    <2>4. op = "nzero" => "start" \in Pcs[op]
        BY DEF Pcs
    <2>5. op = "sequential" => "start" \in Pcs[op]
        BY DEF Pcs
    <2>6. op = "pipe" => "start" \in Pcs[op]
        BY DEF Pcs
    <2> QED BY <1>3, <2>1, <2>2, <2>3, <2>4, <2>5, <2>6 DEF Operators
<1>4. <<>> \in Seq(Threads \ {main})
    OBVIOUS
<1> QED BY <1>1, <1>2, <1>3, <1>4 DEF IsFrame, Pend

(* A thread with one call.                                                  *)
LEMMA NewThread ==
    ASSUME NEW l, IsLine(l), NEW c, IsTree(l, c), NEW v, NEW r, r = ThreadOf("run", <<Frame(c)>>, v)
    PROVE  /\ IsThread(l, r) /\ Own(l, r.stack) = Span(l, c) /\ r.st = "run"
           /\ r.stack # <<>> /\ DOMAIN r.stack = {1} /\ r.stack[1] = Frame(c) /\ r.stack[1].cmd = c
<1>1. PICK f, s : f = Frame(c) /\ s = <<f>>
    OBVIOUS
<1>2. IsFrame(l, f) /\ f.cmd = c /\ f.pc = "start" /\ Pend(l, f) = Span(l, c)
    BY <1>1, FrameIs
<1>3. s # <<>> /\ DOMAIN s = {1} /\ s[1] = f /\ Sequence(s)
    BY <1>1 DEF Sequence, Range
<1>4. IsStack(l, s)
    BY <1>2, <1>3 DEF IsStack
<1>5. Own(l, s) = Span(l, c)
    BY <1>2, <1>3 DEF Own
<1>6. r.stack = s /\ r.st = "run" /\ r = ThreadOf(r.st, r.stack, r.val)
    BY <1>1, FieldsOf
<1> QED BY <1>1, <1>2, <1>3, <1>4, <1>5, <1>6 DEF IsThread

(* A parallel command begins its first command, or its second one, in a new *)
(* thread.                                                                  *)
Forking(l, f, g, c) ==
    /\ IsFrame(l, f) /\ f.cmd[1] = "parallel" /\ IsFrame(l, g) /\ g.cmd = f.cmd
    /\ \/ f.pc = "start" /\ g.pc = "second thread" /\ c = f.cmd[2]
       \/ f.pc = "second thread" /\ g.pc = "wait" /\ c = f.cmd[3]

LEMMA ForkingFacts ==
    ASSUME NEW l, IsLine(l), NEW f, NEW g, NEW c, Forking(l, f, g, c)
    PROVE  /\ IsTree(l, c) /\ Span(l, c) \subseteq Pend(l, f) /\ Span(l, c) \subseteq Span(l, f.cmd)
           /\ Pend(l, g) \subseteq Pend(l, f) /\ Span(l, c) \cap Pend(l, g) = {}
           /\ Size(l, c) < Size(l, f.cmd) /\ Forked(g)
<1>1. PICK t : t = f.cmd
    OBVIOUS
<1>2. IsTree(l, t) /\ t[1] = "parallel" /\ t[1] # "none" /\ g.cmd = t
    BY <1>1, Zenon DEF Forking, IsFrame
<1>3. /\ IsTree(l, t[2]) /\ IsTree(l, t[3])
      /\ Span(l, t) = Span(l, t[2]) \cup Span(l, t[3])
      /\ Span(l, t[2]) \cap Span(l, t[3]) = {}
      /\ Size(l, t[2]) < Size(l, t) /\ Size(l, t[3]) < Size(l, t)
    BY <1>2, TwoParts
<1>4. CASE f.pc = "start" /\ g.pc = "second thread" /\ c = f.cmd[2]
    <2>1. Pend(l, f) = Span(l, t) /\ Pend(l, g) = Span(l, t[3])
        BY <1>1, <1>2, <1>4, Zenon DEF Pend
    <2> QED BY <1>1, <1>2, <1>3, <1>4, <2>1, Zenon DEF Forked
<1>5. CASE f.pc = "second thread" /\ g.pc = "wait" /\ c = f.cmd[3]
    <2>1. Pend(l, f) = Span(l, t[3]) /\ Pend(l, g) = {}
        BY <1>1, <1>2, <1>5, Zenon DEF Pend
    <2> QED BY <1>1, <1>2, <1>3, <1>5, <2>1, Zenon DEF Forked
<1> QED BY <1>4, <1>5, Zenon DEF Forking

ForkMoves(l, th, t, g, c, new, v, th2) ==
    /\ t \in Threads /\ new \in Threads \ {main} /\ th[new].st = "none"
    /\ th[t].stack # <<>> /\ Forking(l, th[t].stack[1], g, c)
    /\ g.thread_arr = Append(th[t].stack[1].thread_arr, new)
    /\ th2 = [th EXCEPT ![t] = ThreadOf("run", OnTop(th[t].stack, g), v),
                        ![new] = ThreadOf("run", <<Frame(c)>>, 0)]

ForkMade(l, th, t, g, c, new, v, th2) ==
    /\ new # t /\ main \in Threads /\ th2 = [u \in Threads |-> th2[u]]
    /\ th2[t] = ThreadOf("run", OnTop(th[t].stack, g), v)
    /\ th2[t].stack = OnTop(th[t].stack, g) /\ th2[t].st = "run" /\ th2[t].stack # <<>>
    /\ th2[t].stack[1] = g
    /\ th2[new] = ThreadOf("run", <<Frame(c)>>, 0) /\ th2[new].stack = <<Frame(c)>>
    /\ th[new].stack = <<>>
    /\ \A u \in Threads \ {t, new} : th2[u] = th[u]

LEMMA ForkFacts ==
    ASSUME NEW l, IsLine(l), NEW th, ThreadsInv(l, th), NEW t, NEW g, NEW c, NEW new, NEW v, NEW th2,
           ForkMoves(l, th, t, g, c, new, v, th2)
    PROVE  ForkMade(l, th, t, g, c, new, v, th2)
<1>1. t \in Threads /\ new \in Threads /\ main \in Threads
    BY WinAssumption DEF ForkMoves
<1>2. th[t].st = "run" /\ Sequence(th[t].stack)
    BY <1>1, FramesOf DEF ForkMoves
<1>3. new # t
    BY <1>2 DEF ForkMoves
<1>4. th = [u \in Threads |-> th[u]]
    BY DEF ThreadsInv
<1>5. /\ th2[t] = ThreadOf("run", OnTop(th[t].stack, g), v)
      /\ th2[new] = ThreadOf("run", <<Frame(c)>>, 0)
      /\ \A u \in Threads \ {t, new} : th2[u] = th[u]
      /\ th2 = [u \in Threads |-> th2[u]]
    BY <1>1, <1>3, <1>4 DEF ForkMoves
<1>6. th[new].stack = <<>>
    BY <1>1, FramesOf DEF ForkMoves
<1>7. th2[t].stack[1] = g /\ th2[t].stack # <<>> /\ th2[t].stack = OnTop(th[t].stack, g) /\ th2[t].st = "run"
    BY <1>2, <1>5, FieldsOf, StackTop DEF ForkMoves
<1>8. th2[new].stack = <<Frame(c)>>
    BY <1>5, FieldsOf
<1> QED BY <1>1, <1>3, <1>5, <1>6, <1>7, <1>8 DEF ForkMade

LEMMA ForkKeepsThreads ==
    ASSUME NEW l, IsLine(l), NEW th, ThreadsInv(l, th), NEW t, NEW g, NEW c, NEW new, NEW v, NEW th2,
           ForkMoves(l, th, t, g, c, new, v, th2)
    PROVE  ThreadsInv(l, th2)
<1>0. ForkMade(l, th, t, g, c, new, v, th2)
    BY ONLY IsLine(l), ThreadsInv(l, th), ForkMoves(l, th, t, g, c, new, v, th2), ForkFacts
<1>1. t \in Threads /\ new \in Threads \ {main} /\ main \in Threads /\ new # t
    BY <1>0 DEF ForkMoves, ForkMade
<1>2. PICK s, f, s2 : s = th[t].stack /\ f = s[1] /\ s2 = OnTop(s, g)
    OBVIOUS
<1>3. /\ th2 = [u \in Threads |-> th2[u]] /\ th2[t] = ThreadOf("run", s2, v)
      /\ th2[t].stack = s2 /\ th2[t].st = "run" /\ s2 # <<>> /\ s2[1] = g
      /\ th2[new] = ThreadOf("run", <<Frame(c)>>, 0) /\ th2[new].stack = <<Frame(c)>>
      /\ th[new].stack = <<>>
      /\ \A u \in Threads \ {t, new} : th2[u] = th[u]
    BY ONLY <1>0, <1>2 DEF ForkMade
<1>4. /\ IsTree(l, c) /\ Span(l, c) \subseteq Pend(l, f) /\ Span(l, c) \subseteq Span(l, f.cmd)
      /\ Pend(l, g) \subseteq Pend(l, f) /\ Span(l, c) \cap Pend(l, g) = {}
      /\ Size(l, c) < Size(l, f.cmd) /\ Forked(g) /\ g.cmd = f.cmd /\ IsFrame(l, g)
      /\ f.cmd[1] = "parallel" /\ (f.pc = "start" \/ f.pc = "second thread")
    <2>1. Forking(l, f, g, c)
        BY <1>2 DEF ForkMoves
    <2>2. /\ IsTree(l, c) /\ Span(l, c) \subseteq Pend(l, f) /\ Span(l, c) \subseteq Span(l, f.cmd)
          /\ Pend(l, g) \subseteq Pend(l, f) /\ Span(l, c) \cap Pend(l, g) = {}
          /\ Size(l, c) < Size(l, f.cmd) /\ Forked(g)
        BY ONLY IsLine(l), <2>1, ForkingFacts
    <2> QED BY <2>1, <2>2, Zenon DEF Forking
<1>5. Sequence(s) /\ IsStack(l, s) /\ s # <<>> /\ 1 \in DOMAIN s /\ th[t].st = "run"
    BY <1>1, <1>2, FramesOf DEF ForkMoves
<1>6. /\ IsStack(l, s2) /\ Own(l, s2) \subseteq Own(l, s)
      /\ \A n \in DOMAIN s2 : n \in DOMAIN s /\ s2[n].cmd = s[n].cmd
    <2>1. g.cmd = s[1].cmd /\ Pend(l, g) \subseteq Pend(l, s[1]) /\ s2 = OnTop(s, g)
        BY <1>2, <1>4, Zenon
    <2>2. IsFrame(l, g)
        BY <1>4, Zenon
    <2>3. Sequence(s) /\ IsStack(l, s) /\ s # <<>>
        BY <1>5
    <2> QED BY ONLY <2>1, <2>2, <2>3, StackAdvances
<1>7. Sequence(s2) /\ DOMAIN s2 = DOMAIN s /\ \A n \in DOMAIN s : n # 1 => s2[n] = s[n]
    BY <1>2, <1>5, StackTop
<1>8. /\ IsThread(l, th2[new]) /\ Own(l, th2[new].stack) = Span(l, c) /\ th2[new].st = "run"
      /\ DOMAIN th2[new].stack = {1} /\ th2[new].stack[1].cmd = c
    <2>1. PICK r : r = th2[new]
        OBVIOUS
    <2>2. IsTree(l, c) /\ r = ThreadOf("run", <<Frame(c)>>, 0)
        BY ONLY <1>3, <1>4, <2>1, Zenon
    <2>3. /\ IsThread(l, r) /\ Own(l, r.stack) = Span(l, c) /\ r.st = "run"
          /\ DOMAIN r.stack = {1} /\ r.stack[1].cmd = c
        BY ONLY IsLine(l), <2>2, NewThread
    <2> QED BY ONLY <2>1, <2>3
<1>9. IsThread(l, th2[t])
    <2>1. PICK r : r = th2[t]
        OBVIOUS
    <2>2. r = ThreadOf(r.st, r.stack, r.val) /\ r.st = "run" /\ r.stack = s2
        BY <1>3, <2>1, FieldsOf
    <2> QED BY <1>6, <1>7, <2>1, <2>2 DEF IsThread
<1>10. \A u \in Threads : IsThread(l, th2[u])
    BY <1>3, <1>8, <1>9 DEF ThreadsInv
<1>11. th2[main].st = "run"
    BY <1>1, <1>3 DEF ThreadsInv
<1>12. Span(l, c) \subseteq Own(l, s)
    BY <1>2, <1>4, <1>5, Zenon DEF Own
<1>13. Span(l, c) \cap Own(l, s2) = {}
    <2>1. ASSUME NEW m \in DOMAIN s2 PROVE Span(l, c) \cap Pend(l, s2[m]) = {}
        <3>1. CASE m = 1
            BY <1>3, <1>4, <3>1, Zenon
        <3>2. CASE m # 1
            <4>1. 1 < m /\ m \in DOMAIN s /\ s2[m] = s[m]
                <5>1. m \in DOMAIN s
                    BY <1>7
                <5>2. m \in Nat /\ m >= 1
                    BY <1>5, <5>1 DEF Sequence
                <5> QED BY <1>7, <3>2, <5>1, <5>2
            <4>2. Span(l, s[1].cmd) \cap Pend(l, s[m]) = {}
                BY <1>5, <4>1 DEF IsStack
            <4> QED BY <1>2, <1>4, <4>1, <4>2, Zenon
        <3> QED BY <3>1, <3>2
    <2> QED BY <2>1 DEF Own
<1>14. ASSUME NEW u \in Threads, NEW w \in Threads, u # w
       PROVE  Own(l, th2[u].stack) \cap Own(l, th2[w].stack) = {}
    <2>1. \A i, j \in Threads : i # j => Own(l, th[i].stack) \cap Own(l, th[j].stack) = {}
        BY DEF ThreadsInv
    <2>2. \A i \in Threads \ {new} : Own(l, th2[i].stack) \subseteq Own(l, th[i].stack)
        BY <1>2, <1>3, <1>6
    <2>3. Own(l, th2[new].stack) \subseteq Own(l, th[t].stack)
        BY <1>2, <1>8, <1>12
    <2>4. \A i \in Threads \ {new} : Own(l, th2[i].stack) \cap Own(l, th2[new].stack) = {}
        BY <1>1, <1>3, <1>8, <1>13, <2>1, <2>2, <2>3
    <2> QED BY <1>14, <2>1, <2>2, <2>4
<1>15. ASSUME NEW k \in Threads \ {main}, th2[k].st # "none" PROVE Held(l, th2, k) /\ Inside(l, th2, k)
    <2>1. CASE k = new
        <3>1. k \in Range(g.thread_arr)
            <4>1. g.thread_arr = Append(f.thread_arr, new) /\ f.thread_arr \in Seq(Threads \ {main})
                BY <1>2, Zenon DEF ForkMoves, Forking, IsFrame
            <4>2. Len(f.thread_arr) + 1 \in DOMAIN g.thread_arr /\ g.thread_arr[Len(f.thread_arr) + 1] = new
                BY <1>1, <4>1
            <4> QED BY <2>1, <4>2 DEF Range
        <3>2. Under(l, th2[k].stack, g)
            BY <1>4, <1>8, <2>1, Zenon DEF Under
        <3>3. Held(l, th2, k)
            BY <1>1, <1>3, <3>1, <3>2 DEF Held
        <3>4. CASE t = main
            <4>1. th2[main].stack # <<>> /\ th2[main].stack[1] = g
                BY <1>3, <3>4
            <4>2. Within(l, th2[k].stack, g)
                BY <1>4, <1>8, <2>1, Zenon DEF Within
            <4> QED BY <1>4, <3>3, <4>1, <4>2, Zenon DEF Inside
        <3>5. CASE t # main
            <4>1. Inside(l, th, t) /\ th2[main] = th[main]
                <5>1. th[t].st # "none"
                    BY <1>5
                <5> QED BY <1>1, <1>3, <3>5, <5>1 DEF ThreadsInv
            <4>2. Span(l, f.cmd) \subseteq Span(l, th[main].stack[1].cmd)
                BY <1>2, <1>5, <4>1 DEF Inside, Within
            <4>3. Within(l, th2[k].stack, th[main].stack[1])
                BY <1>4, <1>8, <2>1, <4>2, Zenon DEF Within
            <4> QED BY <3>3, <4>1, <4>3 DEF Inside
        <3> QED BY <3>3, <3>4, <3>5
    <2>2. CASE k # new
        <3>1. th[k].st # "none"
            BY <1>3, <1>5, <1>15, <2>2
        <3>2. Held(l, th, k) /\ Inside(l, th, k)
            BY <3>1 DEF ThreadsInv
        <3>3. /\ \A x : Under(l, th[k].stack, x) => Under(l, th2[k].stack, x)
              /\ \A x : Within(l, th[k].stack, x) => Within(l, th2[k].stack, x)
            BY <1>2, <1>3, <1>6, <2>2 DEF Under, Within
        <3>4. PICK u \in Threads : /\ th[u].stack # <<>> /\ k \in Range(th[u].stack[1].thread_arr)
                                   /\ Under(l, th[k].stack, th[u].stack[1])
            BY <3>2 DEF Held
        <3>5. Held(l, th2, k)
            <4>1. CASE u = t
                <5>1. k \in Range(g.thread_arr)
                    <6>1. g.thread_arr = Append(f.thread_arr, new) /\ f.thread_arr \in Seq(Threads \ {main})
                        BY <1>2, Zenon DEF ForkMoves, Forking, IsFrame
                    <6>2. PICK i \in DOMAIN f.thread_arr : f.thread_arr[i] = k
                        BY <1>2, <3>4, <4>1 DEF Range
                    <6>3. i \in DOMAIN g.thread_arr /\ g.thread_arr[i] = k
                        BY <1>1, <6>1, <6>2
                    <6> QED BY <6>3 DEF Range
                <5>2. Under(l, th2[k].stack, g)
                    <6>1. Under(l, th2[k].stack, f)
                        BY <1>2, <3>3, <3>4, <4>1
                    <6> QED BY <1>4, <6>1, Zenon DEF Under
                <5> QED BY <1>1, <1>3, <5>1, <5>2 DEF Held
            <4>2. CASE u # t
                <5>1. u # new
                    BY <1>3, <3>4
                <5>2. th2[u] = th[u]
                    BY <1>3, <4>2, <5>1
                <5> QED BY <3>3, <3>4, <5>2 DEF Held
            <4> QED BY <4>1, <4>2
        <3>6. Inside(l, th2, k)
            <4>1. CASE t = main
                <5>1. th[main].stack[1] = f
                    BY <1>2, <4>1
                <5>2. Within(l, th2[k].stack, f)
                    BY <3>2, <3>3, <5>1 DEF Inside
                <5>3. Within(l, th2[k].stack, g)
                    BY <1>4, <5>2, Zenon DEF Within
                <5> QED BY <1>3, <1>4, <4>1, <5>3, Zenon DEF Inside
            <4>2. CASE t # main
                <5>1. th2[main] = th[main]
                    BY <1>1, <1>3, <4>2
                <5> QED BY <3>2, <3>3, <5>1 DEF Inside
            <4> QED BY <4>1, <4>2
        <3> QED BY <3>5, <3>6
    <2> QED BY <2>1, <2>2
<1> QED BY <1>3, <1>10, <1>11, <1>14, <1>15 DEF ThreadsInv

-----------------------------------------------------------------------------
(* The end of a parallel command: its thread takes back the two it awaits.  *)

(* The largest command in which another thread is would be awaited by the   *)
(* first thread: there is no other one when that awaits none that is in one.*)
AwaitsNone(th) ==
    th[main].stack # <<>> => \A k \in Range(th[main].stack[1].thread_arr) : th[k].stack = <<>>

LEMMA NoOthers ==
    ASSUME NEW l, IsLine(l), NEW th, ThreadsInv(l, th), AwaitsNone(th)
    PROVE  \A k \in Threads \ {main} :
               /\ th[k].stack = <<>>
               /\ th[k].st # "none" => /\ th[main].stack # <<>>
                                       /\ k \in Range(th[main].stack[1].thread_arr)
<1> DEFINE S == {Size(l, th[k].stack[1].cmd) : k \in {u \in Threads \ {main} : th[u].stack # <<>>}}
<1>0. main \in Threads
    BY WinAssumption
<1>1. ASSUME NEW k \in Threads, th[k].stack # <<>>
      PROVE  Size(l, th[k].stack[1].cmd) \in 0 .. Len(l.cmds)
    <2>1. PICK c : c = th[k].stack[1].cmd
        OBVIOUS
    <2>2. IsTree(l, c)
        BY <1>1, <2>1, FramesOf
    <2>3. Lo(l, c) \in 1 .. Len(l.cmds) /\ Hi(l, c) \in 1 .. Len(l.cmds) /\ Lo(l, c) <= Hi(l, c) /\ Len(l.cmds) \in Nat
        BY <2>2, TreeFacts, LineFacts
    <2> QED BY <2>1, <2>3 DEF Size
<1>2. S = {}
    <2>1. SUFFICES ASSUME S # {} PROVE FALSE
        OBVIOUS
    <2>2. Len(l.cmds) \in Nat
        BY LineFacts
    <2>3. S \in SUBSET (0 .. Len(l.cmds))
        BY <1>1
    <2>4. PICK m \in S : \A x \in S : x <= m
        <3> HIDE DEF S
        <3> QED BY <2>1, <2>2, <2>3, GreatestNatural
    <2>5. PICK k \in Threads \ {main} : th[k].stack # <<>> /\ m = Size(l, th[k].stack[1].cmd)
        OBVIOUS
    <2>6. th[k].st # "none" /\ 1 \in DOMAIN th[k].stack
        BY <2>5, FramesOf
    <2>7. PICK t \in Threads : /\ th[t].stack # <<>> /\ k \in Range(th[t].stack[1].thread_arr)
                               /\ Under(l, th[k].stack, th[t].stack[1])
        BY <2>6 DEF ThreadsInv, Held
    <2>8. m < Size(l, th[t].stack[1].cmd)
        BY <2>5, <2>6, <2>7 DEF Under
    <2>9. t # main
        BY <2>5, <2>7 DEF AwaitsNone
    <2>10. Size(l, th[t].stack[1].cmd) \in S
        BY <2>7, <2>9
    <2>11. Size(l, th[t].stack[1].cmd) <= m /\ m \in Nat
        BY <2>3, <2>4, <2>10
    <2>12. Size(l, th[t].stack[1].cmd) \in Nat
        BY <2>3, <2>10
    <2> QED BY <2>8, <2>11, <2>12
<1>3. \A k \in Threads \ {main} : th[k].stack = <<>>
    BY <1>2
<1>4. ASSUME NEW k \in Threads \ {main}, th[k].st # "none"
      PROVE  th[main].stack # <<>> /\ k \in Range(th[main].stack[1].thread_arr)
    <2>1. PICK t \in Threads : th[t].stack # <<>> /\ k \in Range(th[t].stack[1].thread_arr)
        BY <1>4 DEF ThreadsInv, Held
    <2>2. t = main
        BY <1>3, <2>1
    <2> QED BY <2>1, <2>2
<1> QED BY <1>3, <1>4

ReapMoves(l, th, t, v, th2) ==
    /\ t \in Threads /\ th[t].stack # <<>> /\ Forked(th[t].stack[1])
    /\ \A k \in Range(th[t].stack[1].thread_arr) : th[k].st = "ended"
    /\ th2 = [k \in Threads |->
                IF k = t THEN ThreadOf("run", Tail(th[t].stack), v)
                ELSE IF k \in Range(th[t].stack[1].thread_arr) THEN NoThread ELSE th[k]]
ReapMade(l, th, t, v, th2) ==
    /\ th2 = [k \in Threads |-> th2[k]]
    /\ th2[t] = ThreadOf("run", Tail(th[t].stack), v) /\ th2[t].st = "run"
    /\ th2[t].stack = Tail(th[t].stack)
    /\ main \notin Range(th[t].stack[1].thread_arr) /\ t \notin Range(th[t].stack[1].thread_arr)
    /\ \A k \in Range(th[t].stack[1].thread_arr) : k \in Threads /\ th2[k] = NoThread /\ th[k].stack = <<>>
    /\ \A k \in Threads \ {t} : k \notin Range(th[t].stack[1].thread_arr) => th2[k] = th[k]
    /\ \A k \in Threads \ {t} : th2[k] = th[k] \/ (th2[k] = NoThread /\ th[k].stack = <<>>)
    /\ NoThread.st = "none" /\ NoThread.stack = <<>>

LEMMA ReapFacts ==
    ASSUME NEW l, IsLine(l), NEW th, ThreadsInv(l, th), NEW t, NEW v, NEW th2, ReapMoves(l, th, t, v, th2)
    PROVE  ReapMade(l, th, t, v, th2)
<1>1. PICK A : A = Range(th[t].stack[1].thread_arr)
    OBVIOUS
<1>2. t \in Threads /\ th[t].st = "run"
    BY FramesOf DEF ReapMoves
<1>3. A \subseteq Threads \ {main}
    <2>1. IsFrame(l, th[t].stack[1])
        BY <1>2, FramesOf DEF ReapMoves
    <2> QED BY <1>1, <2>1 DEF IsFrame, Range
<1>4. \A k \in A : th[k].st = "ended" /\ k \in Threads
    BY <1>1, <1>3 DEF ReapMoves
<1>5. t \notin A
    BY <1>2, <1>4
<1>6. \A k \in A : th[k].stack = <<>>
    BY <1>4, FramesOf
<1>7. th2 = [k \in Threads |-> IF k = t THEN ThreadOf("run", Tail(th[t].stack), v)
                               ELSE IF k \in A THEN NoThread ELSE th[k]]
    BY <1>1 DEF ReapMoves
<1>8. th2[t] = ThreadOf("run", Tail(th[t].stack), v) /\ th2 = [k \in Threads |-> th2[k]]
    BY <1>2, <1>7
<1>9. th2[t].st = "run" /\ th2[t].stack = Tail(th[t].stack)
    BY <1>8, FieldsOf
<1>10. \A k \in A : th2[k] = NoThread
    BY <1>4, <1>5, <1>7
<1>11. \A k \in Threads \ {t} : k \notin A => th2[k] = th[k]
    BY <1>7
<1>12. NoThread.st = "none" /\ NoThread.stack = <<>>
    BY DEF NoThread
<1>13. \A k \in Threads \ {t} : th2[k] = th[k] \/ (th2[k] = NoThread /\ th[k].stack = <<>>)
    BY <1>6, <1>10, <1>11
<1> QED BY <1>1, <1>3, <1>4, <1>5, <1>6, <1>8, <1>9, <1>10, <1>11, <1>12, <1>13 DEF ReapMade

LEMMA NoThreadIs ==
    ASSUME NEW l
    PROVE  IsThread(l, NoThread) /\ Own(l, <<>>) = {} /\ Sequence(<<>>)
<1>1. NoThread = ThreadOf(NoThread.st, NoThread.stack, NoThread.val) /\ NoThread.st = "none" /\ NoThread.stack = <<>>
    BY DEF NoThread, ThreadOf
<1>2. DOMAIN <<>> = {}
    OBVIOUS
<1>3. Sequence(<<>>)
    BY DEF Sequence
<1>4. IsStack(l, <<>>) /\ Own(l, <<>>) = {}
    BY <1>2 DEF IsStack, Own
<1> QED BY <1>1, <1>3, <1>4 DEF IsThread

LEMMA ReapKeepsThreads ==
    ASSUME NEW l, IsLine(l), NEW th, ThreadsInv(l, th), NEW t, NEW v, NEW th2, ReapMoves(l, th, t, v, th2)
    PROVE  ThreadsInv(l, th2)
<1>0. main \in Threads /\ t \in Threads /\ th[t].stack # <<>> /\ th[main].st = "run"
    BY WinAssumption DEF ReapMoves, ThreadsInv
<1>1. PICK s, A, s2 : s = th[t].stack /\ A = Range(th[t].stack[1].thread_arr) /\ s2 = Tail(s)
    OBVIOUS
<1>2. /\ th2 = [k \in Threads |-> th2[k]] /\ th2[t] = ThreadOf("run", s2, v) /\ th2[t].st = "run"
      /\ th2[t].stack = s2 /\ main \notin A /\ t \notin A
      /\ \A k \in A : k \in Threads /\ th2[k] = NoThread /\ th[k].stack = <<>>
      /\ \A k \in Threads \ {t} : k \notin A => th2[k] = th[k]
      /\ \A k \in Threads \ {t} : th2[k] = th[k] \/ (th2[k] = NoThread /\ th[k].stack = <<>>)
      /\ NoThread.st = "none" /\ NoThread.stack = <<>>
    <2>1. ReapMade(l, th, t, v, th2)
        BY ReapFacts
    <2> QED BY ONLY <1>1, <2>1 DEF ReapMade
<1>3. /\ Sequence(s) /\ IsStack(l, s) /\ s # <<>> /\ 1 \in DOMAIN s
      /\ \A n \in DOMAIN s : IsTree(l, s[n].cmd)
    BY <1>0, <1>1, FramesOf
<1>4. /\ IsStack(l, s2) /\ Own(l, s2) \subseteq Own(l, s)
      /\ \A n \in DOMAIN s2 : \E m \in DOMAIN s : s2[n] = s[m]
    <2>1. Sequence(s) /\ IsStack(l, s) /\ s # <<>> /\ s2 = Tail(s)
        BY <1>1, <1>3
    <2>2. Returned(l, s, s2)
        BY ONLY <2>1, StackReturns
    <2> QED BY ONLY <2>2 DEF Returned
<1>5. Sequence(s2)
    BY <1>1, <1>3, StackPop
<1>6. Below(l, s2, s)
    BY <1>3, <1>4 DEF Below
<1>7. \A k \in Threads : IsThread(l, th2[k])
    <2>1. IsThread(l, th2[t])
        <3>1. PICK r : r = th2[t]
            OBVIOUS
        <3>2. r = ThreadOf(r.st, r.stack, r.val) /\ r.st = "run" /\ r.stack = s2
            BY <1>2, <3>1, FieldsOf
        <3> QED BY <1>4, <1>5, <3>1, <3>2 DEF IsThread
    <2> QED BY <1>2, <2>1, NoThreadIs DEF ThreadsInv
<1>8. th2[main].st = "run"
    BY <1>0, <1>2
<1>9. \A k \in Threads : Own(l, th2[k].stack) \subseteq Own(l, th[k].stack)
    BY <1>1, <1>2, <1>4, NoThreadIs
<1>10. \A k, u \in Threads : k # u => Own(l, th2[k].stack) \cap Own(l, th2[u].stack) = {}
    <2>1. \A k, u \in Threads : k # u => Own(l, th[k].stack) \cap Own(l, th[u].stack) = {}
        BY DEF ThreadsInv
    <2> QED BY <1>9, <2>1
<1>11. ASSUME NEW k \in Threads \ {main}, th2[k].st # "none" PROVE Held(l, th2, k) /\ Inside(l, th2, k)
    <2>1. k \notin A /\ th[k].st # "none"
        <3>1. k \notin A
            BY <1>2, <1>11
        <3>2. k = t => th[k].st # "none"
            BY <1>0, FramesOf
        <3> QED BY <1>2, <1>11, <3>1, <3>2
    <2>2. Held(l, th, k) /\ Inside(l, th, k)
        BY <2>1 DEF ThreadsInv
    <2>3. Below(l, th2[k].stack, th[k].stack)
        <3>1. CASE k = t
            BY <1>1, <1>2, <1>6, <3>1
        <3>2. CASE k # t
            <4>1. \A n \in DOMAIN th[k].stack : IsTree(l, th[k].stack[n].cmd)
                BY FramesOf
            <4> QED BY <1>2, <2>1, <3>2, <4>1 DEF Below
        <3> QED BY <3>1, <3>2
    <2>4. PICK u \in Threads : /\ th[u].stack # <<>> /\ k \in Range(th[u].stack[1].thread_arr)
                               /\ Under(l, th[k].stack, th[u].stack[1])
        BY <2>2 DEF Held
    <2>5. u # t
        BY <1>1, <2>1, <2>4
    <2>6. th2[u] = th[u]
        BY <1>2, <2>4, <2>5
    <2>7. IsTree(l, th[u].stack[1].cmd)
        BY <2>4, FramesOf
    <2>8. Held(l, th2, k)
        <3>1. Under(l, th2[k].stack, th[u].stack[1])
            BY <2>3, <2>4, <2>7, BelowKeeps
        <3> QED BY <2>4, <2>6, <3>1 DEF Held
    <2>9. t # main
        <3>1. SUFFICES ASSUME t = main PROVE FALSE
            OBVIOUS
        <3>2. AwaitsNone(th)
            BY <1>1, <1>2, <3>1 DEF AwaitsNone
        <3> QED BY <1>1, <2>1, <3>1, <3>2, NoOthers
    <2>10. th2[main] = th[main]
        BY <1>0, <1>2, <2>9
    <2>11. Inside(l, th2, k)
        <3>1. IsTree(l, th[main].stack[1].cmd)
            BY <1>0, <2>2, FramesOf DEF Inside
        <3> QED BY <2>2, <2>3, <2>10, <3>1, BelowKeeps DEF Inside
    <2> QED BY <2>8, <2>11
<1> QED BY <1>2, <1>7, <1>8, <1>10, <1>11 DEF ThreadsInv

-----------------------------------------------------------------------------
(* Steps that open and close nothing.                                       *)

NotIn(r) == r.stack = <<>> \/ r.stack[1].cmd[1] # "none"
(* The return from a simple command that has no file open.                  *)
Ends(l, r, r2, fs) ==
    /\ r.stack # <<>> /\ r.stack[1].pc # "wait"
    /\ r.stack[1].cmd[2] \notin Own(l, r2.stack)
    /\ \A f \in fs : f.of = 0 => f.h[1] # r.stack[1].cmd[2]
Quiet(l, th, t, th2, fs) ==
    /\ t \in Threads
    /\ \A u \in Threads \ {t} :
            th2[u] = th[u] \/ (/\ NotIn(th[t]) /\ th[u].stack = <<>>
                               /\ Own(l, th2[u].stack) \subseteq Own(l, th[t].stack))
    /\ Own(l, th2[t].stack) \subseteq Own(l, th[t].stack)
    /\ NotIn(th[t]) \/ Ends(l, th[t], th2[t], fs)
    /\ t = main => fs = {} \/ Now(l, th2[main].stack) = Now(l, th[main].stack)

LEMMA QuietFiles ==
    ASSUME NEW l, NEW th, NEW t, NEW th2, NEW fs, NEW progs,
           FilesInv(l, th, fs, progs), Quiet(l, th, t, th2, fs)
    PROVE  FilesInv(l, th2, fs, progs)
<1>0. main \in Threads /\ t \in Threads
    BY WinAssumption DEF Quiet
<1>1. \A u \in Threads : \A i : InSimple(th[u], i) => th[u].stack # <<>> /\ ~ NotIn(th[u])
    BY DEF InSimple, NotIn
<1>2. \A u \in Threads \ {t} : th[u].stack # <<>> => th2[u] = th[u]
    BY DEF Quiet
<1>3. \A i : InSimple(th[t], i) => Ends(l, th[t], th2[t], fs) /\ th[t].stack[1].cmd[2] = i
    BY <1>0, <1>1 DEF Quiet, InSimple
<1>4. ASSUME NEW f \in fs PROVE /\ IsFile(f)
                                /\ f.of = 0 => \E u \in Threads : Busy(th2[u], f.h[1])
                                /\ f.of # 0 => f.of \in progs
                                /\ f.h[1] \in Now(l, th2[main].stack)
                                /\ \A u \in Threads : f.h[1] \in Own(l, th2[u].stack) => Busy(th2[u], f.h[1])
    <2>1. /\ IsFile(f) /\ (f.of # 0 => f.of \in progs) /\ f.h[1] \in Now(l, th[main].stack)
          /\ \A u \in Threads : f.h[1] \in Own(l, th[u].stack) => Busy(th[u], f.h[1])
        BY DEF FilesInv
    <2>2. ASSUME f.of = 0 PROVE \E u \in Threads : Busy(th2[u], f.h[1])
        <3>1. PICK u \in Threads : Busy(th[u], f.h[1])
            BY <2>2 DEF FilesInv
        <3>2. u # t
            BY <1>3, <2>2, <3>1 DEF Busy, Ends
        <3>3. th2[u] = th[u]
            BY <1>1, <1>2, <3>1, <3>2 DEF Busy
        <3> QED BY <3>1, <3>3
    <2>3. f.h[1] \in Now(l, th2[main].stack)
        <3>1. CASE t = main
            BY <2>1, <3>1 DEF Quiet
        <3>2. CASE t # main
            <4>1. th[main].stack # <<>>
                BY <2>1 DEF Now
            <4> QED BY <1>0, <1>2, <2>1, <3>2, <4>1
        <3> QED BY <3>1, <3>2
    <2>4. ASSUME NEW u \in Threads, f.h[1] \in Own(l, th2[u].stack) PROVE Busy(th2[u], f.h[1])
        <3>1. f.h[1] \in Own(l, th[t].stack) => /\ InSimple(th[t], f.h[1]) /\ ~ NotIn(th[t])
                                                /\ f.h[1] \notin Own(l, th2[t].stack)
            BY <1>0, <1>1, <1>3, <2>1 DEF Busy, Ends
        <3>2. CASE u = t
            BY <2>4, <3>1, <3>2 DEF Quiet
        <3>3. CASE u # t
            BY <2>1, <2>4, <3>1, <3>3 DEF Quiet
        <3> QED BY <3>2, <3>3
    <2> QED BY <2>1, <2>2, <2>3, <2>4
<1>5. ASSUME NEW i \in progs PROVE \E u \in Threads : Waits(th2[u], i)
    <2>1. PICK u \in Threads : Waits(th[u], i)
        BY DEF FilesInv
    <2>2. u # t
        BY <1>3, <2>1 DEF Waits, Ends
    <2>3. th2[u] = th[u]
        BY <1>1, <1>2, <2>1, <2>2 DEF Waits
    <2> QED BY <2>1, <2>3
<1> QED BY <1>4, <1>5 DEF FilesInv

(* Nodes of open files: the calls that redirect are the same ones.          *)
Redirects1(th, th2) ==
    \A u \in Threads : (th2[u].stack # <<>> /\ Redirecting(th2[u].stack[1])) => th2[u] = th[u]
SameOpen(f2, f) == f2.h = f.h /\ f2.name = f.name /\ f2.access = f.access /\ f2.share = f.share
NoNewOpen(fs2, fs) == \A f2 \in fs2 : \E f \in fs : SameOpen(f2, f)

LEMMA NodesKept ==
    ASSUME NEW l, NEW th, NEW th2, NEW fs, NEW fs2,
           NodesInv(l, th, fs), Redirects1(th, th2), NoNewOpen(fs2, fs)
    PROVE  NodesInv(l, th2, fs2)
<1>1. ASSUME NEW u \in Threads, th2[u].stack # <<>>, Redirecting(th2[u].stack[1])
      PROVE  WordsOf(l.cmds[th2[u].stack[1].cmd[2]].red, th2[u].stack[1])
    <2>1. th2[u] = th[u]
        BY <1>1 DEF Redirects1
    <2> QED BY <1>1, <2>1 DEF NodesInv
<1>2. ASSUME NEW f2 \in fs2, NEW red, red = l.cmds[f2.h[1]].red, ~ ClashesItself(red)
      PROVE  \E a \in DOMAIN red : NodeOf(red, a, f2, th2)
    <2>1. PICK f \in fs : SameOpen(f2, f)
        BY DEF NoNewOpen
    <2>2. PICK a \in DOMAIN red : NodeOf(red, a, f, th)
        BY <1>2, <2>1 DEF NodesInv, SameOpen
    <2>3. ASSUME NEW u \in Threads, InSimple(th2[u], f2.h[1]), Redirecting(th2[u].stack[1])
          PROVE  Passed(red, a, f2.share, th2[u].stack[1])
        <3>1. th2[u] = th[u]
            BY <2>3 DEF Redirects1, InSimple
        <3> QED BY <2>1, <2>2, <2>3, <3>1 DEF NodeOf, SameOpen
    <2> QED BY <2>1, <2>2, <2>3 DEF NodeOf, SameOpen
<1> QED BY <1>1, <1>2 DEF NodesInv

ExecInv(l, th, fs, progs) ==
    ThreadsInv(l, th) /\ FilesInv(l, th, fs, progs) /\ NodesInv(l, th, fs)

LEMMA QuietKeeps ==
    ASSUME NEW l, NEW th, NEW t, NEW th2, NEW fs, NEW progs, ExecInv(l, th, fs, progs),
           ThreadsInv(l, th2), Quiet(l, th, t, th2, fs), Redirects1(th, th2)
    PROVE  ExecInv(l, th2, fs, progs)
<1>1. FilesInv(l, th2, fs, progs)
    BY QuietFiles DEF ExecInv
<1>2. NoNewOpen(fs, fs)
    BY DEF NoNewOpen, SameOpen
<1>3. NodesInv(l, th2, fs)
    BY <1>2, NodesKept DEF ExecInv
<1> QED BY <1>1, <1>3 DEF ExecInv

(* Where the first thread executes nothing that opens files there are none. *)
LEMMA NothingOpen ==
    ASSUME NEW l, NEW th, NEW fs, NEW progs, FilesInv(l, th, fs, progs), Now(l, th[main].stack) = {}
    PROVE  fs = {}
BY DEF FilesInv

TopIs(l, s, f) ==
    /\ f = s[1] /\ IsFrame(l, f) /\ IsTree(l, f.cmd) /\ Pend(l, f) \subseteq Own(l, s)
    /\ f.cmd[1] = "none" => Span(l, f.cmd) = {f.cmd[2]} /\ Pend(l, f) = {f.cmd[2]}

LEMMA OwnTop ==
    ASSUME NEW l, IsLine(l), NEW th, ThreadsInv(l, th), NEW t \in Threads, th[t].stack # <<>>
    PROVE  TopIs(l, th[t].stack, th[t].stack[1])
<1>0. PICK f : f = th[t].stack[1]
    OBVIOUS
<1>1. IsFrame(l, f) /\ IsTree(l, f.cmd) /\ 1 \in DOMAIN th[t].stack
    BY <1>0, FramesOf
<1>2. f.cmd[1] = "none" => Span(l, f.cmd) = {f.cmd[2]}
    BY <1>1, SpanFacts
<1>3. Pend(l, f) \subseteq Own(l, th[t].stack)
    BY <1>0, <1>1 DEF Own
<1>4. f.cmd[1] = "none" => Pend(l, f) = {f.cmd[2]}
    BY <1>2 DEF Pend
<1> QED BY <1>0, <1>1, <1>2, <1>3, <1>4 DEF TopIs

ReturnMoves(l, th, t, v, fs, th2) ==
    /\ t \in Threads /\ th[t].stack # <<>> /\ ~ Forked(th[t].stack[1])
    /\ th[t].stack[1].cmd[1] = "none" =>
        \/ th[t].stack[1].pc = "start"
        \/ /\ th[t].stack[1].pc = "close"
           /\ \A f \in fs : f.of = 0 => f.h[1] # th[t].stack[1].cmd[2]
    /\ th2 = [th EXCEPT ![t] = ThreadOf(th[t].st, Tail(th[t].stack), v)]

LEMMA ReturnKeeps ==
    ASSUME NEW l, IsLine(l), NEW th, NEW t, NEW v, NEW th2, NEW fs, NEW progs,
           ExecInv(l, th, fs, progs), ReturnMoves(l, th, t, v, fs, th2)
    PROVE  ExecInv(l, th2, fs, progs)
<1>0. t \in Threads /\ main \in Threads /\ ThreadsInv(l, th) /\ FilesInv(l, th, fs, progs) /\ th[t].stack # <<>>
    BY WinAssumption DEF ReturnMoves, ExecInv
<1>1. PICK s, f, s2, r2 : /\ s = th[t].stack /\ f = s[1] /\ s2 = Tail(s)
                          /\ r2 = ThreadOf(th[t].st, s2, v)
    OBVIOUS
<1>2. /\ Sequence(s) /\ IsStack(l, s) /\ s # <<>> /\ th[t].st = "run"
      /\ \A n \in DOMAIN s : IsTree(l, s[n].cmd)
    BY <1>0, <1>1, FramesOf
<1>3. Returned(l, s, s2) /\ Sequence(s2)
    BY <1>1, <1>2, StackReturns, StackPop
<1>4. r2.st = "run" /\ r2.stack = s2 /\ r2 = ThreadOf(r2.st, r2.stack, r2.val)
    BY <1>1, <1>2, FieldsOf
<1>5. IsThread(l, r2)
    BY <1>3, <1>4 DEF IsThread, Returned
<1>6. th2 = [th EXCEPT ![t] = r2]
    BY <1>1 DEF ReturnMoves
<1>7. OneMoves(l, th, t, r2)
    <2>1. Below(l, s2, s)
        BY <1>2, <1>3 DEF Below, Returned
    <2> QED BY <1>0, <1>1, <1>2, <1>3, <1>4, <1>5, <2>1 DEF OneMoves, ReturnMoves, Returned
<1>8. ThreadsInv(l, th2)
    BY <1>0, <1>6, <1>7, OneKeepsThreads
<1>9. th2[t] = r2 /\ \A u \in Threads \ {t} : th2[u] = th[u]
    BY <1>0, <1>6 DEF ThreadsInv
<1>10. Redirects1(th, th2)
    <2>1. s2 # <<>> => ~ Redirecting(s2[1])
        BY <1>3 DEF Returned, Redirecting, Calling
    <2> QED BY <1>4, <1>9, <2>1 DEF Redirects1
<1>11. /\ IsTree(l, f.cmd) /\ Pend(l, f) \subseteq Own(l, s)
       /\ f.cmd[1] = "none" => Span(l, f.cmd) = {f.cmd[2]} /\ Pend(l, f) = {f.cmd[2]}
    <2>1. TopIs(l, th[t].stack, th[t].stack[1])
        BY ONLY IsLine(l), <1>0, OwnTop
    <2> QED BY <1>1, <2>1 DEF TopIs
<1>12. ~ Forked(f)
    BY <1>1 DEF ReturnMoves
<1>13. CASE f.cmd[1] # "none"
    <2>1. NotIn(th[t])
        BY <1>1, <1>13 DEF NotIn
    <2>2. t = main => Now(l, th[main].stack) = {}
        BY <1>1, <1>12, <1>13 DEF Now
    <2>3. t = main => fs = {}
        BY <1>0, <2>2, NothingOpen
    <2>4. Quiet(l, th, t, th2, fs)
        BY <1>0, <1>1, <1>3, <1>4, <1>9, <2>1, <2>3 DEF Quiet, Returned
    <2> QED BY <1>8, <1>10, <2>4, QuietKeeps
<1>14. CASE f.cmd[1] = "none"
    <2>1. PICK i : i = f.cmd[2]
        OBVIOUS
    <2>2. i \in Own(l, s) /\ i \notin Own(l, s2)
        BY <1>1, <1>3, <1>11, <1>14, <2>1 DEF Returned
    <2>3. f.pc = "start" => \A x \in fs : x.h[1] # i
        <3>1. SUFFICES ASSUME f.pc = "start", NEW x \in fs, x.h[1] = i PROVE FALSE
            OBVIOUS
        <3>2. Busy(th[t], i)
            BY <1>0, <1>1, <2>2, <3>1 DEF FilesInv
        <3> QED BY <1>1, <3>1, <3>2 DEF Busy
    <2>4. f.pc = "start" \/ (f.pc = "close" /\ \A x \in fs : x.of = 0 => x.h[1] # i)
        BY <1>1, <1>14, <2>1 DEF ReturnMoves
    <2>5. Ends(l, th[t], th2[t], fs)
        BY <1>1, <1>2, <1>4, <1>9, <2>1, <2>2, <2>3, <2>4 DEF Ends
    <2>6. ASSUME t = main PROVE fs = {}
        <3>1. SUFFICES ASSUME NEW x \in fs PROVE FALSE
            OBVIOUS
        <3>2. x.h[1] = i
            BY <1>0, <1>1, <1>11, <1>14, <2>1, <2>6 DEF FilesInv, Now
        <3>3. f.pc = "close" /\ x.of # 0
            BY <2>3, <2>4, <3>2
        <3>4. PICK u \in Threads : Waits(th[u], x.of)
            BY <1>0, <3>3 DEF FilesInv
        <3>5. u # main
            BY <1>1, <2>6, <3>3, <3>4 DEF Waits
        <3>6. th[u].st # "none"
            BY <1>0, <3>4, FramesOf DEF Waits, InSimple
        <3>7. Forked(f)
            BY <1>0, <1>1, <2>6, <3>5, <3>6 DEF ThreadsInv, Inside
        <3> QED BY <1>12, <3>7
    <2>7. Quiet(l, th, t, th2, fs)
        BY <1>0, <1>1, <1>3, <1>4, <1>9, <2>5, <2>6 DEF Quiet, Returned
    <2> QED BY <1>8, <1>10, <2>7, QuietKeeps
<1> QED BY <1>13, <1>14

(* A command of two parts begins one of them in its own thread.             *)
Entering(l, f, g, c) ==
    /\ IsFrame(l, f) /\ IsFrame(l, g) /\ g.cmd = f.cmd
    /\ \/ /\ f.cmd[1] \in {"zero", "nzero"}
          /\ \/ f.pc = "start" /\ g.pc = "decide" /\ c = f.cmd[2]
             \/ f.pc = "decide" /\ g.pc = "last" /\ c = f.cmd[3]
       \/ /\ f.cmd[1] = "sequential"
          /\ \/ f.pc = "start" /\ g.pc = "second" /\ c = f.cmd[2]
             \/ f.pc = "second" /\ g.pc = "unset" /\ c = f.cmd[3]
Entered(l, f, g, c) ==
    /\ IsTree(l, c) /\ Span(l, c) \subseteq Pend(l, f) /\ Span(l, c) \subseteq Span(l, f.cmd)
    /\ Pend(l, g) \subseteq Pend(l, f) /\ Span(l, c) \cap Pend(l, g) = {}
    /\ f.cmd[1] # "none" /\ ~ Forked(f) /\ g.pc \in Calling /\ g.cmd = f.cmd /\ IsFrame(l, g)

LEMMA EnteringFacts ==
    ASSUME NEW l, IsLine(l), NEW f, NEW g, NEW c, Entering(l, f, g, c)
    PROVE  Entered(l, f, g, c)
<1>1. PICK t : t = f.cmd
    OBVIOUS
<1>2. IsTree(l, t) /\ t[1] \notin {"none", "parallel"} /\ g.cmd = t
    BY <1>1 DEF Entering, IsFrame
<1>3. /\ IsTree(l, t[2]) /\ IsTree(l, t[3])
      /\ Span(l, t) = Span(l, t[2]) \cup Span(l, t[3])
      /\ Span(l, t[2]) \cap Span(l, t[3]) = {}
    BY <1>2, TwoParts
<1>4. g.pc \in Calling /\ ~ Forked(f) /\ IsFrame(l, g)
    BY <1>1, <1>2, Zenon DEF Entering, Calling, Forked
<1>5. CASE f.pc = "start" /\ g.pc \in {"decide", "second"} /\ c = f.cmd[2]
    <2>1. Pend(l, f) = Span(l, t) /\ Pend(l, g) = Span(l, t[3])
        BY <1>1, <1>2, <1>5, Zenon DEF Pend
    <2> QED BY <1>1, <1>2, <1>3, <1>4, <1>5, <2>1 DEF Entered
<1>6. CASE f.pc \in {"decide", "second"} /\ g.pc \in {"last", "unset"} /\ c = f.cmd[3]
    <2>1. Pend(l, f) = Span(l, t[3]) /\ Pend(l, g) = {}
        BY <1>1, <1>2, <1>6, Zenon DEF Pend
    <2> QED BY <1>1, <1>2, <1>3, <1>4, <1>6, <2>1 DEF Entered
<1> QED BY <1>5, <1>6 DEF Entering

CallMoves(l, th, t, g, c, th2) ==
    /\ t \in Threads /\ th[t].stack # <<>> /\ Entering(l, th[t].stack[1], g, c)
    /\ th2 = [th EXCEPT ![t] = ThreadOf(th[t].st, <<Frame(c)>> \o OnTop(th[t].stack, g), th[t].val)]

LEMMA CallKeeps ==
    ASSUME NEW l, IsLine(l), NEW th, NEW t, NEW g, NEW c, NEW th2, NEW fs, NEW progs,
           ExecInv(l, th, fs, progs), CallMoves(l, th, t, g, c, th2)
    PROVE  ExecInv(l, th2, fs, progs)
<1>0. t \in Threads /\ main \in Threads /\ ThreadsInv(l, th) /\ FilesInv(l, th, fs, progs) /\ th[t].stack # <<>>
    BY WinAssumption DEF CallMoves, ExecInv
<1>1. PICK s, f, s2, h, s3, r2 : /\ s = th[t].stack /\ f = s[1] /\ s2 = OnTop(s, g) /\ h = Frame(c)
                                 /\ s3 = <<h>> \o s2 /\ r2 = ThreadOf(th[t].st, s3, th[t].val)
    OBVIOUS
<1>2. /\ Sequence(s) /\ IsStack(l, s) /\ s # <<>> /\ th[t].st = "run"
      /\ \A n \in DOMAIN s : IsTree(l, s[n].cmd)
    BY <1>0, <1>1, FramesOf
<1>3. Entered(l, f, g, c)
    <2>1. Entering(l, f, g, c)
        BY <1>1 DEF CallMoves
    <2> QED BY ONLY IsLine(l), <2>1, EnteringFacts
<1>4. /\ IsStack(l, s2) /\ Own(l, s2) \subseteq Own(l, s)
      /\ \A n \in DOMAIN s2 : n \in DOMAIN s /\ s2[n].cmd = s[n].cmd
    <2>1. IsFrame(l, g) /\ g.cmd = s[1].cmd /\ Pend(l, g) \subseteq Pend(l, s[1]) /\ s2 = OnTop(s, g)
        BY <1>1, <1>3 DEF Entered
    <2>2. Sequence(s) /\ IsStack(l, s) /\ s # <<>>
        BY <1>2
    <2>3. IsFrame(l, g)
        BY <2>1
    <2> QED BY ONLY <2>1, <2>2, <2>3, StackAdvances
<1>5. Sequence(s2) /\ s2 # <<>> /\ s2[1] = g
    BY <1>1, <1>2, StackTop
<1>6. IsFrame(l, h) /\ h.cmd = c /\ h.pc = "start" /\ Pend(l, h) = Span(l, c)
    <2>1. IsTree(l, c)
        BY <1>3 DEF Entered
    <2> QED BY <1>1, <2>1, FrameIs
<1>7. Called(l, s2, h, s3)
    <2>1. CanCall(l, s2, h)
        BY <1>1, <1>3, <1>4, <1>5, <1>6 DEF Entered, CanCall
    <2> QED BY ONLY <1>1, <2>1, StackCalls
<1>8. Own(l, s3) \subseteq Own(l, s)
    <2>1. TopIs(l, s, f)
        <3>1. TopIs(l, th[t].stack, th[t].stack[1])
            BY ONLY IsLine(l), <1>0, OwnTop
        <3> QED BY <1>1, <3>1
    <2> QED BY <1>3, <1>4, <1>6, <1>7, <2>1 DEF TopIs, Entered, Called
<1>9. Below(l, s3, s)
    <2>1. ASSUME NEW n \in DOMAIN s3
          PROVE  \E m \in DOMAIN s : /\ IsTree(l, s3[n].cmd) /\ IsTree(l, s[m].cmd)
                                     /\ Span(l, s3[n].cmd) \subseteq Span(l, s[m].cmd)
        <3>1. PICK m \in DOMAIN s2 : /\ IsFrame(l, s3[n]) /\ IsFrame(l, s2[m])
                                     /\ Span(l, s3[n].cmd) \subseteq Span(l, s2[m].cmd)
            BY <1>7 DEF Called
        <3>2. m \in DOMAIN s /\ s2[m].cmd = s[m].cmd
            BY <1>4, <3>1
        <3>3. IsTree(l, s3[n].cmd) /\ IsTree(l, s[m].cmd)
            BY <3>1, <3>2 DEF IsFrame
        <3> QED BY <3>1, <3>2, <3>3
    <2> QED BY <2>1 DEF Below
<1>10. Sequence(s3) /\ s3 # <<>> /\ s3[1] = h
    BY <1>1, <1>5, StackPush
<1>11. r2.st = "run" /\ r2.stack = s3 /\ r2 = ThreadOf(r2.st, r2.stack, r2.val)
    <2>1. PICK st, v : st = th[t].st /\ v = th[t].val
        OBVIOUS
    <2>2. r2 = ThreadOf(st, s3, v) /\ st = "run"
        BY <1>1, <1>2, <2>1
    <2>3. r2.st = st /\ r2.stack = s3 /\ r2.val = v
        BY ONLY <2>2, FieldsOf
    <2> QED BY ONLY <2>2, <2>3
<1>12. IsThread(l, r2)
    BY <1>7, <1>10, <1>11 DEF IsThread, Called
<1>13. th2 = [th EXCEPT ![t] = r2]
    BY <1>1 DEF CallMoves
<1>14. OneMoves(l, th, t, r2)
    BY <1>0, <1>1, <1>2, <1>3, <1>8, <1>9, <1>11, <1>12 DEF OneMoves, Entered
<1>15. ThreadsInv(l, th2)
    BY <1>0, <1>13, <1>14, OneKeepsThreads
<1>16. th2[t] = r2 /\ \A u \in Threads \ {t} : th2[u] = th[u]
    BY <1>0, <1>13 DEF ThreadsInv
<1>17. Redirects1(th, th2)
    BY <1>6, <1>10, <1>11, <1>16 DEF Redirects1, Redirecting
<1>18. NotIn(th[t])
    BY <1>1, <1>3 DEF NotIn, Entered
<1>19. t = main => fs = {}
    <2>1. t = main => Now(l, th[main].stack) = {}
        BY <1>1, <1>3 DEF Now, Entered
    <2> QED BY <1>0, <2>1, NothingOpen
<1>20. Quiet(l, th, t, th2, fs)
    BY <1>0, <1>1, <1>8, <1>11, <1>16, <1>18, <1>19 DEF Quiet
<1> QED BY <1>15, <1>17, <1>20, QuietKeeps

LEMMA ForkKeeps ==
    ASSUME NEW l, IsLine(l), NEW th, NEW t, NEW g, NEW c, NEW new, NEW v, NEW th2, NEW fs, NEW progs,
           ExecInv(l, th, fs, progs), ForkMoves(l, th, t, g, c, new, v, th2)
    PROVE  ExecInv(l, th2, fs, progs)
<1>0. ThreadsInv(l, th) /\ FilesInv(l, th, fs, progs)
    BY DEF ExecInv
<1>1. ThreadsInv(l, th2)
    BY ONLY IsLine(l), <1>0, ForkMoves(l, th, t, g, c, new, v, th2), ForkKeepsThreads
<1>2. ForkMade(l, th, t, g, c, new, v, th2)
    BY ONLY IsLine(l), <1>0, ForkMoves(l, th, t, g, c, new, v, th2), ForkFacts
<1>3. t \in Threads /\ th[t].stack # <<>> /\ new \in Threads
    BY DEF ForkMoves
<1>4. PICK s, f : s = th[t].stack /\ f = s[1]
    OBVIOUS
<1>5. /\ IsTree(l, c) /\ Span(l, c) \subseteq Pend(l, f)
      /\ Pend(l, g) \subseteq Pend(l, f) /\ Forked(g)
    <2>1. Forking(l, f, g, c)
        BY <1>4 DEF ForkMoves
    <2>2. /\ IsTree(l, c) /\ Span(l, c) \subseteq Pend(l, f) /\ Span(l, c) \subseteq Span(l, f.cmd)
          /\ Pend(l, g) \subseteq Pend(l, f) /\ Span(l, c) \cap Pend(l, g) = {}
          /\ Size(l, c) < Size(l, f.cmd) /\ Forked(g)
        BY ONLY IsLine(l), <2>1, ForkingFacts
    <2> QED BY <2>2
<1>6. TopIs(l, s, f)
    <2>1. TopIs(l, th[t].stack, th[t].stack[1])
        BY ONLY IsLine(l), <1>0, <1>3, OwnTop
    <2> QED BY <1>4, <2>1
<1>7. f.cmd[1] = "parallel" /\ g.cmd = f.cmd /\ IsFrame(l, g)
    BY <1>4, Zenon DEF ForkMoves, Forking
<1>8. Own(l, th2[t].stack) \subseteq Own(l, th[t].stack)
    <2>1. PICK s2 : s2 = OnTop(s, g)
        OBVIOUS
    <2>2. Sequence(s) /\ IsStack(l, s) /\ s # <<>>
        BY <1>0, <1>3, <1>4, FramesOf
    <2>3. g.cmd = s[1].cmd /\ Pend(l, g) \subseteq Pend(l, s[1]) /\ IsFrame(l, g)
        BY <1>4, <1>5, <1>7
    <2>4. IsStack(l, s2) /\ Own(l, s2) \subseteq Own(l, s)
        <3>1. s2 = OnTop(s, g)
            BY <2>1
        <3> QED BY ONLY <2>2, <2>3, <3>1, StackAdvances
    <2> QED BY <1>2, <1>4, <2>1, <2>4 DEF ForkMade
<1>9. Own(l, th2[new].stack) \subseteq Own(l, th[t].stack)
    <2>1. PICK r : r = th2[new]
        OBVIOUS
    <2>2. IsTree(l, c) /\ r = ThreadOf("run", <<Frame(c)>>, 0)
        BY <1>2, <1>5, <2>1 DEF ForkMade
    <2>3. /\ IsThread(l, r) /\ Own(l, r.stack) = Span(l, c) /\ r.st = "run"
          /\ DOMAIN r.stack = {1} /\ r.stack[1].cmd = c
        BY ONLY IsLine(l), <2>2, NewThread
    <2> QED BY <1>4, <1>5, <1>6, <2>1, <2>3 DEF TopIs
<1>10. NotIn(th[t])
    BY <1>4, <1>7 DEF NotIn
<1>11. t = main => fs = {} \/ Now(l, th2[main].stack) = Now(l, th[main].stack)
    <2>1. SUFFICES ASSUME t = main PROVE fs = {} \/ Now(l, th2[main].stack) = Now(l, th[main].stack)
        OBVIOUS
    <2>2. CASE Forked(f)
        <3>1. Now(l, th[main].stack) = Span(l, f.cmd)
            BY <1>3, <1>4, <2>1, <2>2 DEF Now
        <3>2. th2[main].stack # <<>> /\ th2[main].stack[1] = g
            BY <1>2, <2>1 DEF ForkMade
        <3>3. Now(l, th2[main].stack) = Span(l, f.cmd)
            BY <1>5, <1>7, <3>2 DEF Now
        <3> QED BY <3>1, <3>3
    <2>3. CASE ~ Forked(f)
        <3>1. Now(l, th[main].stack) = {}
            BY <1>4, <1>7, <2>1, <2>3 DEF Now
        <3> QED BY <1>0, <3>1, NothingOpen
    <2> QED BY <2>2, <2>3
<1>12. \A u \in Threads \ {t} : th2[u] = th[u] \/ (u = new /\ th[u].stack = <<>>)
    BY <1>2 DEF ForkMade
<1>13. Quiet(l, th, t, th2, fs)
    BY <1>3, <1>8, <1>9, <1>10, <1>11, <1>12 DEF Quiet
<1>14. Redirects1(th, th2)
    <2>1. th2[t].stack[1] = g /\ ~ Redirecting(g)
        BY <1>2, <1>5, Zenon DEF ForkMade, Redirecting, Forked
    <2>2. ~ Redirecting(th2[new].stack[1])
        <3>1. th2[new].stack[1] = Frame(c)
            <4>1. PICK h, s2 : h = Frame(c) /\ s2 = th2[new].stack
                OBVIOUS
            <4>2. s2 = <<h>>
                BY <1>2, <4>1 DEF ForkMade
            <4> QED BY <4>1, <4>2
        <3>2. Frame(c).pc = "start"
            BY DEF Frame
        <3> QED BY <3>1, <3>2 DEF Redirecting
    <2> QED BY <1>12, <2>1, <2>2 DEF Redirects1
<1> QED BY <1>1, <1>13, <1>14, QuietKeeps

LEMMA ReapKeeps ==
    ASSUME NEW l, IsLine(l), NEW th, NEW t, NEW v, NEW th2, NEW fs, NEW progs,
           ExecInv(l, th, fs, progs), ReapMoves(l, th, t, v, th2)
    PROVE  ExecInv(l, th2, fs, progs)
<1>0. ThreadsInv(l, th) /\ FilesInv(l, th, fs, progs)
    BY DEF ExecInv
<1>1. ThreadsInv(l, th2)
    BY ONLY IsLine(l), <1>0, ReapMoves(l, th, t, v, th2), ReapKeepsThreads
<1>2. ReapMade(l, th, t, v, th2)
    BY ONLY IsLine(l), <1>0, ReapMoves(l, th, t, v, th2), ReapFacts
<1>3. t \in Threads /\ th[t].stack # <<>> /\ Forked(th[t].stack[1]) /\ main \in Threads
    BY WinAssumption DEF ReapMoves
<1>4. PICK s, s2 : s = th[t].stack /\ s2 = Tail(s)
    OBVIOUS
<1>5. Returned(l, s, s2) /\ Sequence(s2)
    <2>1. Sequence(s) /\ IsStack(l, s) /\ s # <<>>
        BY <1>0, <1>3, <1>4, FramesOf
    <2> QED BY <1>4, <2>1, StackReturns, StackPop
<1>6. NotIn(th[t])
    BY <1>3, Zenon DEF NotIn, Forked
<1>7. ASSUME t = main PROVE fs = {}
    <2>1. AwaitsNone(th)
        BY <1>2, <1>7 DEF AwaitsNone, ReapMade
    <2>2. \A k \in Threads \ {main} : th[k].stack = <<>>
        BY <1>0, <2>1, NoOthers
    <2>3. \A k \in Threads : \A i : ~ InSimple(th[k], i)
        BY <1>3, <1>6, <1>7, <2>2 DEF InSimple, NotIn
    <2>4. \A f \in fs : f.of = 0 => FALSE
        BY <1>0, <2>3 DEF FilesInv, Busy
    <2>5. progs = {}
        BY <1>0, <2>3 DEF FilesInv, Waits
    <2> QED BY <1>0, <2>4, <2>5 DEF FilesInv
<1>8. Quiet(l, th, t, th2, fs)
    <2>1. ASSUME NEW u \in Threads \ {t}
          PROVE th2[u] = th[u] \/ (/\ NotIn(th[t]) /\ th[u].stack = <<>>
                                   /\ Own(l, th2[u].stack) \subseteq Own(l, th[t].stack))
        <3>1. th2[u] = th[u] \/ (th2[u] = NoThread /\ th[u].stack = <<>>)
            BY <1>2 DEF ReapMade
        <3>2. Own(l, NoThread.stack) = {}
            BY <1>2, NoThreadIs DEF ReapMade
        <3> QED BY <1>6, <3>1, <3>2
    <2>2. Own(l, th2[t].stack) \subseteq Own(l, th[t].stack)
        BY <1>2, <1>4, <1>5 DEF ReapMade, Returned
    <2> QED BY <1>3, <1>6, <1>7, <2>1, <2>2 DEF Quiet
<1>9. Redirects1(th, th2)
    <2>1. th2[t].stack = s2
        BY <1>2, <1>4 DEF ReapMade
    <2>2. s2 # <<>> => ~ Redirecting(s2[1])
        BY <1>5 DEF Returned, Redirecting, Calling
    <2>3. \A u \in Threads \ {t} : th2[u] = th[u] \/ th2[u].stack = <<>>
        BY <1>2 DEF ReapMade
    <2> QED BY <2>1, <2>2, <2>3 DEF Redirects1
<1> QED BY <1>1, <1>8, <1>9, QuietKeeps

(* A thread ends.                                                           *)
EndMoves(th, t, th2) ==
    /\ t \in Threads /\ t # main /\ th[t].st = "run" /\ th[t].stack = <<>>
    /\ th2 = [th EXCEPT ![t] = ThreadOf("ended", <<>>, th[t].val)]

LEMMA EndKeeps ==
    ASSUME NEW l, IsLine(l), NEW th, NEW t, NEW th2, NEW fs, NEW progs,
           ExecInv(l, th, fs, progs), EndMoves(th, t, th2)
    PROVE  ExecInv(l, th2, fs, progs)
<1>0. ThreadsInv(l, th) /\ FilesInv(l, th, fs, progs) /\ t \in Threads
    BY DEF ExecInv, EndMoves
<1>1. PICK r2 : r2 = ThreadOf("ended", <<>>, th[t].val)
    OBVIOUS
<1>2. r2.st = "ended" /\ r2.stack = <<>> /\ r2 = ThreadOf(r2.st, r2.stack, r2.val)
    BY <1>1, FieldsOf
<1>3. IsThread(l, r2)
    <2>1. IsThread(l, NoThread) /\ NoThread.stack = <<>>
        BY NoThreadIs DEF NoThread
    <2> QED BY <1>2, <2>1 DEF IsThread
<1>4. OneMoves(l, th, t, r2)
    <2>1. Below(l, <<>>, th[t].stack)
        BY DEF Below
    <2> QED BY <1>2, <1>3, <2>1 DEF OneMoves, EndMoves
<1>5. th2 = [th EXCEPT ![t] = r2]
    BY <1>1 DEF EndMoves
<1>6. ThreadsInv(l, th2)
    BY <1>0, <1>4, <1>5, OneKeepsThreads
<1>7. th2[t] = r2 /\ \A u \in Threads \ {t} : th2[u] = th[u]
    BY <1>0, <1>5 DEF ThreadsInv
<1>8. Redirects1(th, th2)
    BY <1>2, <1>7 DEF Redirects1
<1>9. Quiet(l, th, t, th2, fs)
    BY <1>0, <1>2, <1>7 DEF Quiet, NotIn, EndMoves
<1> QED BY <1>6, <1>8, <1>9, QuietKeeps

-----------------------------------------------------------------------------
(* Steps of a simple command. *)

SimpleMoves(l, th, t, g, v, th2) ==
    /\ t \in Threads /\ th[t].stack # <<>> /\ th[t].stack[1].cmd[1] = "none"
    /\ IsFrame(l, g) /\ g.cmd = th[t].stack[1].cmd /\ g.pc # "start"
    /\ th2 = [th EXCEPT ![t] = ThreadOf(th[t].st, OnTop(th[t].stack, g), v)]
SimpleMade(l, th, t, g, th2) ==
    /\ ThreadsInv(l, th2) /\ th2[t].stack # <<>> /\ th2[t].stack[1] = g
    /\ \A u \in Threads \ {t} : th2[u] = th[u]
    /\ \A u \in Threads : Own(l, th2[u].stack) \subseteq Own(l, th[u].stack)
    /\ Now(l, th2[main].stack) = Now(l, th[main].stack)

LEMMA SimpleFacts ==
    ASSUME NEW l, IsLine(l), NEW th, ThreadsInv(l, th), NEW t, NEW g, NEW v, NEW th2,
           SimpleMoves(l, th, t, g, v, th2)
    PROVE  SimpleMade(l, th, t, g, th2)
<1>0. t \in Threads /\ main \in Threads /\ th[t].stack # <<>>
    BY WinAssumption DEF SimpleMoves
<1>1. PICK s, f, s2, r2 : /\ s = th[t].stack /\ f = s[1] /\ s2 = OnTop(s, g)
                          /\ r2 = ThreadOf(th[t].st, s2, v)
    OBVIOUS
<1>2. /\ Sequence(s) /\ IsStack(l, s) /\ s # <<>> /\ th[t].st = "run" /\ IsFrame(l, f)
      /\ \A n \in DOMAIN s : IsTree(l, s[n].cmd)
    BY <1>0, <1>1, FramesOf
<1>3. f.cmd[1] = "none" /\ IsFrame(l, g) /\ g.cmd = f.cmd /\ g.pc # "start"
    BY <1>1 DEF SimpleMoves
<1>4. Pend(l, g) = Pend(l, f)
    BY <1>3 DEF Pend
<1>5. /\ IsStack(l, s2) /\ Own(l, s2) \subseteq Own(l, s)
      /\ \A n \in DOMAIN s2 : n \in DOMAIN s /\ s2[n].cmd = s[n].cmd
    <2>1. g.cmd = s[1].cmd /\ Pend(l, g) \subseteq Pend(l, s[1]) /\ s2 = OnTop(s, g)
        BY <1>1, <1>3, <1>4
    <2>2. Sequence(s) /\ IsStack(l, s) /\ s # <<>>
        BY <1>2
    <2>3. IsFrame(l, g)
        BY <1>3
    <2> QED BY ONLY <2>1, <2>2, <2>3, StackAdvances
<1>6. Sequence(s2) /\ s2 # <<>> /\ s2[1] = g
    BY <1>1, <1>2, StackTop
<1>7. r2.st = "run" /\ r2.stack = s2 /\ r2 = ThreadOf(r2.st, r2.stack, r2.val)
    <2>1. PICK st : st = th[t].st
        OBVIOUS
    <2>2. r2 = ThreadOf(st, s2, v) /\ st = "run"
        BY <1>1, <1>2, <2>1
    <2>3. r2.st = st /\ r2.stack = s2 /\ r2.val = v
        BY ONLY <2>2, FieldsOf
    <2> QED BY ONLY <2>2, <2>3
<1>8. IsThread(l, r2)
    BY <1>5, <1>6, <1>7 DEF IsThread
<1>9. Below(l, s2, s)
    BY <1>2, <1>5 DEF Below
<1>10. OneMoves(l, th, t, r2)
    BY <1>0, <1>1, <1>2, <1>3, <1>5, <1>7, <1>8, <1>9 DEF OneMoves, Forked
<1>11. th2 = [th EXCEPT ![t] = r2]
    BY <1>1 DEF SimpleMoves
<1>12. ThreadsInv(l, th2)
    BY <1>10, <1>11, OneKeepsThreads
<1>13. th2[t] = r2 /\ \A u \in Threads \ {t} : th2[u] = th[u]
    BY <1>0, <1>11 DEF ThreadsInv
<1>14. \A u \in Threads : Own(l, th2[u].stack) \subseteq Own(l, th[u].stack)
    BY <1>1, <1>5, <1>7, <1>13
<1>15. Now(l, th2[main].stack) = Now(l, th[main].stack)
    <2>1. CASE t = main
        <3>1. Now(l, s) = Span(l, f.cmd) /\ Now(l, s2) = Span(l, f.cmd)
            BY <1>1, <1>2, <1>3, <1>6 DEF Now
        <3> QED BY <1>1, <1>7, <1>13, <2>1, <3>1
    <2>2. CASE t # main
        BY <1>0, <1>13, <2>2
    <2> QED BY <2>1, <2>2
<1> QED BY <1>6, <1>7, <1>12, <1>13, <1>14, <1>15 DEF SimpleMade

(* The command of a thread is its own, and within what the first executes.  *)
LEMMA OneCommand ==
    ASSUME NEW l, IsLine(l), NEW th, ThreadsInv(l, th), NEW t \in Threads, NEW i, InSimple(th[t], i)
    PROVE  /\ i \in Own(l, th[t].stack) /\ i \in Now(l, th[main].stack) /\ i \in DOMAIN l.cmds
           /\ \A u \in Threads : i \in Own(l, th[u].stack) => u = t
           /\ \A u \in Threads : InSimple(th[u], i) => u = t
           /\ t # main => Forked(th[main].stack[1]) /\ th[main].stack # <<>>
<1>0. main \in Threads
    BY WinAssumption
<1>1. ASSUME NEW u \in Threads, InSimple(th[u], i)
      PROVE  /\ i \in Own(l, th[u].stack) /\ Span(l, th[u].stack[1].cmd) = {i} /\ 1 \in DOMAIN th[u].stack
             /\ i \in 1 .. Len(l.cmds)
    <2>1. th[u].stack # <<>> /\ th[u].stack[1].cmd[1] = "none" /\ th[u].stack[1].cmd[2] = i
        BY <1>1 DEF InSimple
    <2>2. TopIs(l, th[u].stack, th[u].stack[1])
        BY ONLY IsLine(l), ThreadsInv(l, th), u \in Threads, <2>1, OwnTop
    <2>3. Span(l, th[u].stack[1].cmd) = {i} /\ i \in Own(l, th[u].stack)
        BY <2>1, <2>2 DEF TopIs
    <2>4. i \in 1 .. Len(l.cmds)
        BY <2>2, <2>3, SpanFacts DEF TopIs
    <2> QED BY <2>1, <2>3, <2>4, FramesOf
<1>2. i \in Own(l, th[t].stack) /\ Span(l, th[t].stack[1].cmd) = {i} /\ 1 \in DOMAIN th[t].stack
    BY <1>1
<1>3. \A u \in Threads : i \in Own(l, th[u].stack) => u = t
    BY <1>2 DEF ThreadsInv
<1>4. \A u \in Threads : InSimple(th[u], i) => u = t
    BY <1>1, <1>3
<1>5. ASSUME t # main
      PROVE  Forked(th[main].stack[1]) /\ th[main].stack # <<>> /\ i \in Now(l, th[main].stack)
    <2>1. th[t].st # "none"
        BY FramesOf DEF InSimple
    <2>2. Inside(l, th, t)
        BY <1>5, <2>1 DEF ThreadsInv
    <2>3. Span(l, th[t].stack[1].cmd) \subseteq Span(l, th[main].stack[1].cmd)
        BY <1>2, <2>2 DEF Inside, Within
    <2> QED BY <1>2, <2>2, <2>3 DEF Inside, Now
<1>6. t = main => i \in Now(l, th[main].stack)
    BY <1>2 DEF Now, InSimple
<1>7. i \in DOMAIN l.cmds
    BY <1>1, LineFacts
<1> QED BY <1>2, <1>3, <1>4, <1>5, <1>6, <1>7

(* The files and the programs after a step of command i, now at pc.         *)
FilesGrow(i, pc, pc2, fs, progs, fs2, progs2) ==
    /\ \A f2 \in fs2 :
        \/ f2 \in fs
        \/ IsFile(f2) /\ f2.of = 0 /\ f2.h[1] = i
        \/ IsFile(f2) /\ f2.of = i /\ f2.of \in progs2 /\ i # 0 /\ \E f \in fs : f2.h = f.h
    /\ progs \subseteq progs2 /\ \A j \in progs2 : j \in progs \/ (j = i /\ pc2 = "wait")
    /\ pc = "wait" => i \notin progs

LEMMA SimpleFiles ==
    ASSUME NEW l, IsLine(l), NEW th, ThreadsInv(l, th), NEW t, NEW g, NEW v, NEW th2,
           SimpleMoves(l, th, t, g, v, th2), NEW fs, NEW progs, FilesInv(l, th, fs, progs),
           NEW fs2, NEW progs2, FilesGrow(th[t].stack[1].cmd[2], th[t].stack[1].pc, g.pc, fs, progs, fs2, progs2)
    PROVE  FilesInv(l, th2, fs2, progs2)
<1>0. t \in Threads
    BY DEF SimpleMoves
<1>1. SimpleMade(l, th, t, g, th2)
    BY ONLY IsLine(l), ThreadsInv(l, th), SimpleMoves(l, th, t, g, v, th2), SimpleFacts
<1>2. PICK i : i = th[t].stack[1].cmd[2]
    BY SMTT(30)
<1>3. InSimple(th[t], i) /\ InSimple(th2[t], i) /\ Busy(th2[t], i) /\ (g.pc = "wait" => Waits(th2[t], i))
    BY <1>1, <1>2 DEF SimpleMoves, SimpleMade, InSimple, Busy, Waits
<1>4. /\ i \in Now(l, th[main].stack)
      /\ \A u \in Threads : i \in Own(l, th[u].stack) => u = t
    BY <1>0, <1>3, OneCommand
<1>5. \A u \in Threads \ {t} : th2[u] = th[u]
    BY <1>1 DEF SimpleMade
<1>6. \A j : InSimple(th[t], j) => j = i
    BY <1>2 DEF InSimple
<1>7. \A u \in Threads : \A j : Busy(th[u], j) => Busy(th2[u], j)
    BY <1>3, <1>5, <1>6 DEF Busy
<1>8. \A u \in Threads : Own(l, th2[u].stack) \subseteq Own(l, th[u].stack)
    BY <1>1 DEF SimpleMade
<1>9. Now(l, th2[main].stack) = Now(l, th[main].stack)
    BY <1>1 DEF SimpleMade
<1>10. FilesGrow(i, th[t].stack[1].pc, g.pc, fs, progs, fs2, progs2)
    BY <1>2
<1>11. ASSUME NEW f \in fs2
       PROVE  /\ IsFile(f)
              /\ f.of = 0 => \E u \in Threads : Busy(th2[u], f.h[1])
              /\ f.of # 0 => f.of \in progs2
              /\ f.h[1] \in Now(l, th2[main].stack)
              /\ \A u \in Threads : f.h[1] \in Own(l, th2[u].stack) => Busy(th2[u], f.h[1])
    <2>1. CASE f \in fs
        BY <1>7, <1>8, <1>9, <1>10, <2>1 DEF FilesInv, FilesGrow
    <2>2. CASE IsFile(f) /\ f.of = 0 /\ f.h[1] = i
        BY <1>0, <1>3, <1>4, <1>8, <1>9, <2>2
    <2>3. CASE IsFile(f) /\ f.of = i /\ f.of \in progs2 /\ i # 0 /\ \E o \in fs : f.h = o.h
        <3>1. PICK o \in fs : f.h = o.h
            BY <2>3
        <3> QED BY <1>7, <1>8, <1>9, <2>3, <3>1 DEF FilesInv
    <2> QED BY <1>10, <2>1, <2>2, <2>3 DEF FilesGrow
<1>12. ASSUME NEW j \in progs2 PROVE \E u \in Threads : Waits(th2[u], j)
    <2>1. CASE j \in progs
        <3>1. PICK u \in Threads : Waits(th[u], j)
            BY <2>1 DEF FilesInv
        <3>2. u # t
            <4>1. SUFFICES ASSUME u = t PROVE FALSE
                OBVIOUS
            <4>2. j = i /\ th[t].stack[1].pc = "wait"
                BY <1>6, <3>1, <4>1 DEF Waits
            <4> QED BY <1>10, <2>1, <4>2 DEF FilesGrow
        <3> QED BY <1>5, <3>1, <3>2
    <2>2. CASE j = i /\ g.pc = "wait"
        BY <1>0, <1>3, <2>2
    <2> QED BY <1>10, <2>1, <2>2 DEF FilesGrow
<1> QED BY <1>11, <1>12 DEF FilesInv

(* Files that are closed.                                                   *)
LEMMA FewerFiles ==
    ASSUME NEW l, NEW th, NEW fs, NEW progs, ExecInv(l, th, fs, progs),
           NEW fs2, NEW progs2, fs2 \subseteq fs, progs2 \subseteq progs,
           \A f \in fs2 : f.of # 0 => f.of \in progs2
    PROVE  ExecInv(l, th, fs2, progs2)
<1>1. FilesInv(l, th, fs2, progs2)
    BY DEF ExecInv, FilesInv
<1>2. Redirects1(th, th) /\ NoNewOpen(fs2, fs)
    BY DEF Redirects1, NoNewOpen, SameOpen
<1>3. NodesInv(l, th, fs2)
    BY <1>2, NodesKept DEF ExecInv
<1> QED BY <1>1, <1>3 DEF ExecInv

(* A step of a simple command that opens no file of its own.                *)
LEMMA SimpleKeeps ==
    ASSUME NEW l, IsLine(l), NEW th, NEW t, NEW g, NEW v, NEW th2, NEW fs, NEW progs, NEW fs2, NEW progs2,
           ExecInv(l, th, fs, progs), SimpleMoves(l, th, t, g, v, th2), ~ Redirecting(g),
           FilesGrow(th[t].stack[1].cmd[2], th[t].stack[1].pc, g.pc, fs, progs, fs2, progs2),
           NoNewOpen(fs2, fs)
    PROVE  ExecInv(l, th2, fs2, progs2)
<1>0. ThreadsInv(l, th) /\ FilesInv(l, th, fs, progs) /\ NodesInv(l, th, fs)
    BY DEF ExecInv
<1>1. SimpleMade(l, th, t, g, th2)
    BY ONLY IsLine(l), <1>0, SimpleMoves(l, th, t, g, v, th2), SimpleFacts
<1>2. FilesInv(l, th2, fs2, progs2)
    BY <1>0, SimpleFiles
<1>3. Redirects1(th, th2)
    BY <1>1 DEF Redirects1, SimpleMade
<1>4. NodesInv(l, th2, fs2)
    BY <1>0, <1>3, NodesKept
<1> QED BY <1>1, <1>2, <1>4 DEF ExecInv, SimpleMade

-----------------------------------------------------------------------------
(* The words of a command, as it opens its files. *)

RedWords(red, W) ==
    /\ Len(red) \in Nat /\ DOMAIN red = 1 .. Len(red) /\ W.ok
    /\ WordsInv(red, Len(red), W) /\ \A a \in DOMAIN red : red[a][1] \in Kinds
Plain(red) == ~ ClashesItself(red) /\ ~ AppendsOutOnly(red)
Follows(red, k, w, x) ==
    \/ x = 0 /\ \A v \in Linked(red, k, Len(red)) : v <= w
    \/ /\ x # 0 /\ x \in Linked(red, k, Len(red)) /\ x > w
       /\ \A v \in Linked(red, k, Len(red)) : v <= w \/ x <= v

LEMMA LinkedIn ==
    ASSUME NEW red, NEW W, RedWords(red, W), NEW k, NEW a \in Linked(red, k, Len(red))
    PROVE  /\ a \in DOMAIN red /\ a \in Nat /\ a # 0 /\ a <= Len(red)
           /\ k = 0 => red[a][1] = "<"
           /\ k # 0 => red[a][1] # "<"
BY DEF RedWords, Linked, LinkedTo, KindsOf

LEMMA NextWord ==
    ASSUME NEW red, NEW W, RedWords(red, W), NEW k \in 0 .. 2, NEW w \in Linked(red, k, Len(red))
    PROVE  Follows(red, k, w, W.next[w])
<1>1. Chain(Linked(red, k, Len(red)), W.list[k], W.next) /\ Forward(W.next, Len(red))
    BY DEF RedWords, WordsInv
<1>2. w \in 1 .. Len(red)
    BY LinkedIn DEF RedWords
<1>3. W.next[w] = 0 \/ W.next[w] > w
    BY <1>1, <1>2 DEF Forward
<1>4. IF W.next[w] = 0 THEN \A v \in Linked(red, k, Len(red)) : v <= w
      ELSE W.next[w] \in Linked(red, k, Len(red)) /\ \A v \in Linked(red, k, Len(red)) : v <= w \/ W.next[w] <= v
    BY <1>1 DEF Chain
<1> QED BY <1>3, <1>4 DEF Follows

LEMMA FirstBoth ==
    ASSUME NEW red, Len(red) \in Nat, DOMAIN red = 1 .. Len(red), NEW b \in DOMAIN red, red[b][1] = "&>"
    PROVE  \E c \in DOMAIN red : IsFirstBoth(red, c) /\ c <= b
<1> DEFINE S == {c \in DOMAIN red : red[c][1] = "&>"}
<1>1. S \in SUBSET Nat /\ b \in S /\ S # {}
    OBVIOUS
<1>2. PICK c \in S : \A d \in S : c <= d
    <2> HIDE DEF S
    <2> QED BY <1>1, LeastNatural
<1>3. c \in DOMAIN red /\ red[c][1] = "&>" /\ c <= b
    BY <1>1, <1>2
<1>4. ASSUME NEW a \in 1 .. c - 1 PROVE red[a][1] # "&>"
    <2>1. a \in DOMAIN red /\ ~ (c <= a)
        BY <1>3
    <2> QED BY <1>2, <2>1
<1> QED BY <1>3, <1>4 DEF IsFirstBoth

LEMMA KindsBefore ==
    ASSUME NEW red, NEW W, RedWords(red, W), NEW k \in {1, 2}, NEW a \in Linked(red, k, Len(red)),
           \A i \in 1 .. a - 1 : red[i][1] # "&>"
    PROVE  red[a][1] \in KindsOf(k)
BY DEF Linked, LinkedTo, HasBoth

WordCases(red, w) ==
    \/ w[1] = w[2]
    \/ \E b \in DOMAIN red : /\ IsFirstBoth(red, b) /\ w[2] = b /\ w[1] \in 1 .. b - 1
                             /\ red[w[1]][1] \in {">", ">>"}
    \/ /\ \A a \in DOMAIN red : red[a][1] # "&>"
       /\ w[1] # 0 => red[w[1]][1] \in {">", ">>"}
       /\ w[2] # 0 => red[w[2]][1] \in {"2>", "2>>"}

LEMMA WordCasesHold ==
    ASSUME NEW red, NEW W, RedWords(red, W), NEW f, WordsOf(red, f), Plain(red)
    PROVE  WordCases(red, f.word)
<1>1. PICK w : w = f.word
    OBVIOUS
<1>2. /\ w[1] = 0 \/ w[1] \in Linked(red, 1, Len(red))
      /\ w[2] = 0 \/ w[2] \in Linked(red, 2, Len(red))
    BY <1>1 DEF WordsOf
<1>3. CASE \E b \in DOMAIN red : red[b][1] = "&>"
    <2>1. PICK b \in DOMAIN red : IsFirstBoth(red, b)
        BY <1>3, FirstBoth DEF RedWords
    <2>2. w[1] = w[2] \/ (w[1] \in 1 .. b - 1 /\ w[2] = b)
        BY <1>1, <2>1 DEF WordsOf, Plain, InStep
    <2>3. ASSUME w[1] \in 1 .. b - 1, w[2] = b PROVE red[w[1]][1] \in {">", ">>"}
        <3>1. b \in Nat /\ w[1] \in Nat /\ w[1] # 0 /\ w[1] < b
            BY <2>3 DEF RedWords
        <3>2. \A i \in 1 .. w[1] - 1 : i \in 1 .. b - 1
            BY <3>1
        <3>3. red[w[1]][1] \in KindsOf(1)
            BY <1>2, <2>1, <3>1, <3>2, KindsBefore DEF IsFirstBoth
        <3>4. red[w[1]][1] # "&>"
            BY <2>1, <2>3 DEF IsFirstBoth
        <3> QED BY <3>3, <3>4 DEF KindsOf
    <2> QED BY <1>1, <2>1, <2>2, <2>3 DEF WordCases
<1>4. CASE \A b \in DOMAIN red : red[b][1] # "&>"
    <2>1. ASSUME NEW k \in {1, 2}, w[k] # 0, w[k] \in Linked(red, k, Len(red))
          PROVE  red[w[k]][1] \in KindsOf(k) \ {"&>"}
        <3>1. w[k] \in DOMAIN red
            BY <2>1, LinkedIn
        <3>2. \A i \in 1 .. w[k] - 1 : i \in DOMAIN red
            BY <3>1 DEF RedWords
        <3> QED BY <1>4, <2>1, <3>1, <3>2, KindsBefore
    <2>2. w[1] # 0 => red[w[1]][1] \in {">", ">>"}
        BY <1>2, <2>1 DEF KindsOf
    <2>3. w[2] # 0 => red[w[2]][1] \in {"2>", "2>>"}
        BY <1>2, <2>1 DEF KindsOf
    <2> QED BY <1>1, <1>4, <2>2, <2>3 DEF WordCases
<1> QED BY <1>3, <1>4

LEMMA AppendsIs ==
    ASSUME NEW red, NEW W, RedWords(red, W)
    PROVE  W.append = {1} <=> AppendsOutOnly(red)
<1>1. W.append \in SUBSET {1, 2}
    BY DEF RedWords, WordsInv, WordLists
<1>2. 1 \in W.append <=> \E w \in 1 .. Len(red) : red[w][1] = ">>"
    BY DEF RedWords, WordsInv, Appends
<1>3. 2 \in W.append <=> \E w \in 1 .. Len(red) : red[w][1] = "2>>"
    BY DEF RedWords, WordsInv, Appends
<1>4. \A kind : (\E w \in 1 .. Len(red) : red[w][1] = kind) <=> \E r \in Range(red) : r[1] = kind
    BY DEF RedWords, Range
<1>5. W.append = {1} <=> 1 \in W.append /\ 2 \notin W.append
    BY <1>1
<1>6. AppendsOutOnly(red) <=> /\ \E r \in Range(red) : r[1] = ">>"
                              /\ ~ \E r \in Range(red) : r[1] = "2>>"
    BY DEF AppendsOutOnly
<1> QED BY <1>2, <1>3, <1>4, <1>5, <1>6

(* The words that the parser made.                                          *)
LEMMA FirstWords ==
    ASSUME NEW red, NEW W, RedWords(red, W), NEW f, f.word = W.list, f.pc = "redirect"
    PROVE  WordsOf(red, f)
<1>1. PICK w : w = W.list
    OBVIOUS
<1>2. /\ w = [k \in 0 .. 2 |-> w[k]]
      /\ \A k \in 0 .. 2 : Chain(Linked(red, k, Len(red)), w[k], W.next)
    BY <1>1 DEF RedWords, WordsInv, WordLists
<1>3. \A k \in 0 .. 2 : w[k] = 0 \/ w[k] \in Linked(red, k, Len(red))
    BY <1>2 DEF Chain
<1>4. ASSUME Plain(red), NEW b \in DOMAIN red, IsFirstBoth(red, b)
      PROVE  w[1] = w[2] \/ (w[1] \in 1 .. b - 1 /\ w[2] = b)
    <2>1. b \in Linked(red, 1, Len(red)) /\ b \in Linked(red, 2, Len(red))
        BY <1>4 DEF IsFirstBoth, RedWords, Linked, LinkedTo, KindsOf
    <2>2. \A k \in {1, 2} : w[k] # 0 /\ w[k] \in Linked(red, k, Len(red)) /\ w[k] <= b
        BY <1>2, <2>1 DEF Chain
    <2>3. w[1] \in DOMAIN red /\ w[2] \in DOMAIN red /\ w[1] <= b /\ w[2] <= b
        BY <2>2, LinkedIn
    <2>4. w[2] = b
        <3>1. SUFFICES ASSUME w[2] < b PROVE FALSE
            BY <2>3 DEF RedWords
        <3>2. \A i \in 1 .. w[2] - 1 : i \in 1 .. b - 1
            BY <2>3, <3>1 DEF RedWords
        <3>3. red[w[2]][1] \in KindsOf(2)
            BY <1>4, <2>2, <3>2, KindsBefore DEF IsFirstBoth
        <3>4. w[2] \in 1 .. b - 1
            BY <2>3, <3>1 DEF RedWords
        <3>5. red[w[2]][1] # "&>" /\ red[b][1] = "&>"
            BY <1>4, <3>4 DEF IsFirstBoth
        <3>6. red[w[2]][1] \in {"2>", "2>>"}
            BY <3>3, <3>5 DEF KindsOf
        <3> QED BY <1>4, <2>3, <3>1, <3>5, <3>6 DEF Plain, ClashesItself, Tangled
    <2>5. w[1] = b \/ w[1] \in 1 .. b - 1
        BY <2>3 DEF RedWords
    <2> QED BY <2>4, <2>5
<1>5. Plain(red) => InStep(red, w)
    BY <1>4 DEF InStep
<1> QED BY <1>1, <1>2, <1>3, <1>5 DEF WordsOf, Plain

(* One pass of the loop: the node a, how its file is opened, and the words  *)
(* and the place in the code after it.                                      *)
SameName(red, w) == w[1] # 0 /\ w[2] # 0 /\ red[w[1]][2] = red[w[2]][2]
WordStep(red, W, w, pc, a, access, share, w2, pc2) ==
    \/ /\ pc = "redirect" /\ w[0] # 0 /\ a = w[0] /\ access = "read" /\ share = "read"
       /\ w2 = Popped(w, W.next, {0}) /\ pc2 = "redirect"
    \/ /\ pc = "redirect" /\ SameName(red, w) /\ a = w[1] /\ access = "write" /\ share = "write"
       /\ w2 = Popped(w, W.next, {}) /\ pc2 = "redirect_err"
    \/ /\ pc = "redirect" /\ ~ SameName(red, w) /\ w[1] # 0 /\ a = w[1] /\ access = "write"
       /\ share = IF AppendsOutOnly(red) THEN "write" ELSE "read"
       /\ w2 = Popped(w, W.next, {1}) /\ pc2 = "redirect"
    \/ /\ pc = "redirect" /\ w[1] = 0 /\ w[2] # 0 /\ a = w[2] /\ access = "write" /\ share = "write"
       /\ w2 = Popped(w, W.next, {2}) /\ pc2 = "redirect"
    \/ /\ pc = "redirect_err" /\ a = w[2] /\ access = "write" /\ share = "write"
       /\ w2 = Popped(w, W.next, {1, 2}) /\ pc2 = "redirect"

(* The node is one of the command's, and each word stays or is the next one.*)
Node1(red, w, a, access, w2) ==
    /\ a \in DOMAIN red /\ access = Access(red[a])
    /\ w2 = [k \in 0 .. 2 |-> w2[k]]
    /\ \A k \in 0 .. 2 : w2[k] = w[k] \/ (/\ w[k] # 0 /\ w[k] \in Linked(red, k, Len(red))
                                          /\ Follows(red, k, w[k], w2[k]))

LEMMA StepNode ==
    ASSUME NEW red, NEW W, RedWords(red, W), NEW f, WordsOf(red, f), NEW a, NEW access, NEW share,
           NEW w2, NEW pc2, WordStep(red, W, f.word, f.pc, a, access, share, w2, pc2)
    PROVE  Node1(red, f.word, a, access, w2)
<1>1. PICK w, pc, next : w = f.word /\ pc = f.pc /\ next = W.next
    OBVIOUS
<1>2. /\ w = [k \in 0 .. 2 |-> w[k]]
      /\ \A k \in 0 .. 2 : w[k] = 0 \/ w[k] \in Linked(red, k, Len(red))
      /\ pc = "redirect_err" => SameName(red, w)
    BY <1>1 DEF WordsOf, SameName
<1>3. WordStep(red, W, w, pc, a, access, share, w2, pc2)
    BY <1>1
<1>4. \A k \in 0 .. 2 : w[k] # 0 => /\ w[k] \in Linked(red, k, Len(red))
                                    /\ Follows(red, k, w[k], next[w[k]])
    BY <1>1, <1>2, NextWord
<1>5. \A k \in 0 .. 2 : w[k] # 0 => /\ w[k] \in DOMAIN red
                                    /\ k = 0 => red[w[k]][1] = "<"
                                    /\ k # 0 => red[w[k]][1] # "<"
    BY <1>4, LinkedIn
<1>6. \A P : Popped(w, next, P) = [k \in 0 .. 2 |-> IF k \in P THEN next[w[k]] ELSE w[k]]
    BY DEF Popped
<1>7. ASSUME NEW P, w2 = Popped(w, next, P), \A k \in P \cap (0 .. 2) : w[k] # 0
      PROVE  /\ w2 = [k \in 0 .. 2 |-> w2[k]]
             /\ \A k \in 0 .. 2 : w2[k] = w[k] \/ (/\ w[k] # 0 /\ w[k] \in Linked(red, k, Len(red))
                                                   /\ Follows(red, k, w[k], w2[k]))
    <2>1. w2 = [k \in 0 .. 2 |-> IF k \in P THEN next[w[k]] ELSE w[k]]
        BY <1>6, <1>7
    <2>2. \A k \in 0 .. 2 : w2[k] = IF k \in P THEN next[w[k]] ELSE w[k]
        BY <2>1
    <2>3. w2 = [k \in 0 .. 2 |-> w2[k]]
        BY <2>1
    <2> QED BY <1>4, <1>7, <2>2, <2>3
<1>8. a \in DOMAIN red /\ access = Access(red[a])
    BY <1>2, <1>3, <1>5 DEF WordStep, Access, SameName
<1>9. \E P : w2 = Popped(w, next, P) /\ \A k \in P \cap (0 .. 2) : w[k] # 0
    <2>1. \/ w[0] # 0 /\ w2 = Popped(w, next, {0})
          \/ w2 = Popped(w, next, {})
          \/ w[1] # 0 /\ w2 = Popped(w, next, {1})
          \/ w[2] # 0 /\ w2 = Popped(w, next, {2})
          \/ w[1] # 0 /\ w[2] # 0 /\ w2 = Popped(w, next, {1, 2})
        BY <1>1, <1>2, <1>3 DEF WordStep, SameName
    <2>2. PICK P : /\ w2 = Popped(w, next, P)
                   /\ P \subseteq {0, 1, 2} /\ \A k \in {0, 1, 2} : k \in P => w[k] # 0
        <3>1. CASE w[0] # 0 /\ w2 = Popped(w, next, {0})
            BY <3>1
        <3>2. CASE w2 = Popped(w, next, {})
            BY <3>2
        <3>3. CASE w[1] # 0 /\ w2 = Popped(w, next, {1})
            BY <3>3
        <3>4. CASE w[2] # 0 /\ w2 = Popped(w, next, {2})
            BY <3>4
        <3>5. CASE w[1] # 0 /\ w[2] # 0 /\ w2 = Popped(w, next, {1, 2})
            BY <3>5
        <3> QED BY <2>1, <3>1, <3>2, <3>3, <3>4, <3>5
    <2> QED BY <2>2
<1> QED BY <1>1, <1>7, <1>8, <1>9 DEF Node1

LEMMA StepInStep ==
    ASSUME NEW red, NEW W, RedWords(red, W), NEW f, WordsOf(red, f), NEW a, NEW access, NEW share,
           NEW w2, NEW pc2, WordStep(red, W, f.word, f.pc, a, access, share, w2, pc2), Plain(red)
    PROVE  InStep(red, w2)
<1>1. PICK w, pc, next : w = f.word /\ pc = f.pc /\ next = W.next
    OBVIOUS
<1>2. /\ \A k \in 0 .. 2 : w[k] = 0 \/ w[k] \in Linked(red, k, Len(red))
      /\ pc = "redirect_err" => SameName(red, w)
      /\ InStep(red, w)
    BY <1>1 DEF WordsOf, SameName, Plain
<1>3. SUFFICES ASSUME NEW b \in DOMAIN red, IsFirstBoth(red, b)
               PROVE  w2[1] = w2[2] \/ (w2[1] \in 1 .. b - 1 /\ w2[2] = b)
    BY DEF InStep
<1>4. w[1] = w[2] \/ (w[1] \in 1 .. b - 1 /\ w[2] = b)
    BY <1>2, <1>3 DEF InStep
<1>5. b \in Nat /\ b # 0 /\ b \in Linked(red, 1, Len(red))
    BY <1>3 DEF IsFirstBoth, RedWords, Linked, LinkedTo, KindsOf
<1>6. WordStep(red, W, w, pc, a, access, share, w2, pc2)
    BY <1>1
<1>7. CASE w2[1] = w[1] /\ w2[2] = w[2]
    BY <1>4, <1>7
<1>8. CASE w2[1] = next[w[1]] /\ w2[2] = w[2] /\ ~ SameName(red, w) /\ w[1] # 0
    <2>1. w[1] # w[2]
        BY <1>8 DEF SameName
    <2>2. w[1] \in 1 .. b - 1 /\ w[2] = b
        BY <1>4, <2>1
    <2>3. Follows(red, 1, w[1], w2[1])
        BY <1>1, <1>2, <1>8, NextWord
    <2>4. w2[1] # 0 /\ w2[1] \in Linked(red, 1, Len(red)) /\ w2[1] <= b
        BY <1>5, <2>2, <2>3 DEF Follows
    <2>5. w2[1] \in Nat
        BY <2>4, LinkedIn
    <2> QED BY <1>5, <1>8, <2>2, <2>4, <2>5
<1>9. CASE w[1] = 0 /\ w[2] # 0
    BY <1>4, <1>5, <1>9
<1>10. CASE w2[1] = next[w[1]] /\ w2[2] = next[w[2]] /\ SameName(red, w)
    <2>1. CASE w[1] = w[2]
        BY <1>10, <2>1
    <2>2. CASE w[1] # w[2]
        <3>1. w[1] \in 1 .. b - 1 /\ w[2] = b
            BY <1>4, <2>2
        <3>2. w[1] \in DOMAIN red /\ w[1] # b /\ red[w[1]][2] = red[b][2]
            BY <1>2, <1>10, <3>1, LinkedIn DEF SameName
        <3>3. red[w[1]][1] \in KindsOf(1)
            <4>1. \A i \in 1 .. w[1] - 1 : i \in 1 .. b - 1
                BY <1>5, <3>1
            <4> QED BY <1>2, <1>3, <3>1, <4>1, KindsBefore DEF IsFirstBoth
        <3>4. red[w[1]][1] # "&>" /\ red[b][1] = "&>"
            BY <1>3, <3>1 DEF IsFirstBoth
        <3>5. red[w[1]][1] \in {">", ">>"} /\ red[w[1]][1] # "<"
            BY <3>3, <3>4 DEF KindsOf
        <3>6. Access(red[b]) = "write" /\ Share(red, red[w[1]]) = "read"
            BY <3>4, <3>5 DEF Access, Share, Plain
        <3>7. Clash(red, red[w[1]], red, red[b])
            BY <3>2, <3>6 DEF Clash
        <3> QED BY <3>2, <3>7 DEF Plain, ClashesItself
    <2> QED BY <2>1, <2>2
<1>11. \A P : Popped(w, next, P)[1] = (IF 1 \in P THEN next[w[1]] ELSE w[1])
              /\ Popped(w, next, P)[2] = (IF 2 \in P THEN next[w[2]] ELSE w[2])
    BY DEF Popped
<1>12. \/ w2[1] = w[1] /\ w2[2] = w[2]
       \/ w2[1] = next[w[1]] /\ w2[2] = w[2] /\ ~ SameName(red, w) /\ w[1] # 0
       \/ w[1] = 0 /\ w[2] # 0
       \/ w2[1] = next[w[1]] /\ w2[2] = next[w[2]] /\ SameName(red, w)
    BY <1>1, <1>2, <1>6, <1>11 DEF WordStep
<1> QED BY <1>7, <1>8, <1>9, <1>10, <1>12

LEMMA StepWords ==
    ASSUME NEW red, NEW W, RedWords(red, W), NEW f, WordsOf(red, f), NEW a, NEW access, NEW share,
           NEW g, WordStep(red, W, f.word, f.pc, a, access, share, g.word, g.pc)
    PROVE  WordsOf(red, g)
<1>1. Node1(red, f.word, a, access, g.word)
    BY StepNode
<1>2. \A k \in 0 .. 2 : f.word[k] = 0 \/ f.word[k] \in Linked(red, k, Len(red))
    BY DEF WordsOf
<1>3. \A k \in 0 .. 2 : g.word[k] = 0 \/ g.word[k] \in Linked(red, k, Len(red))
    BY <1>1, <1>2 DEF Node1, Follows
<1>4. g.pc = "redirect_err" => SameName(red, g.word)
    <2>1. \A w : Popped(w, W.next, {})[1] = w[1] /\ Popped(w, W.next, {})[2] = w[2]
        BY DEF Popped
    <2>2. g.pc = "redirect_err" => SameName(red, f.word) /\ g.word = Popped(f.word, W.next, {})
        BY DEF WordStep
    <2> QED BY <2>1, <2>2 DEF SameName
<1>5. Plain(red) => InStep(red, g.word)
    BY StepInStep
<1> QED BY <1>1, <1>3, <1>4, <1>5 DEF WordsOf, Node1, SameName, Plain

(* The file is opened as the text says, and not in the way of itself.       *)
StepOpen(red, f, a, access, share, g) ==
    /\ OpenOf(red, a, red[a][2], access, share) /\ Passed(red, a, share, g)
    /\ \A b \in DOMAIN red : \A sh : Passed(red, b, sh, f) => Passed(red, b, sh, g)
    /\ \A sh : (OpenOf(red, a, red[a][2], access, sh) /\ Passed(red, a, sh, f)) => access = sh /\ access = share
Alone(red, a) == red[a][1] \in {">", ">>"} /\ ~ AppendsOutOnly(red)

LEMMA StepOpens ==
    ASSUME NEW red, NEW W, RedWords(red, W), NEW f, WordsOf(red, f), NEW a, NEW access, NEW share,
           NEW g, WordStep(red, W, f.word, f.pc, a, access, share, g.word, g.pc), ~ ClashesItself(red)
    PROVE  StepOpen(red, f, a, access, share, g)
<1>0. Node1(red, f.word, a, access, g.word)
    BY StepNode
<1>1. PICK w, pc, next, v, pc2 : w = f.word /\ pc = f.pc /\ next = W.next /\ v = g.word /\ pc2 = g.pc
    OBVIOUS
<1>2. /\ \A k \in 0 .. 2 : w[k] = 0 \/ (w[k] \in Linked(red, k, Len(red)) /\ w[k] \in DOMAIN red /\ w[k] \in Nat)
      /\ pc = "redirect_err" => SameName(red, w)
    BY <1>1, LinkedIn DEF WordsOf, SameName
<1>3. a \in DOMAIN red /\ access = Access(red[a])
    BY <1>0 DEF Node1
<1>4. WordStep(red, W, w, pc, a, access, share, v, pc2)
    BY <1>1
<1>5. v[1] = w[1] \/ (w[1] # 0 /\ (v[1] = 0 \/ v[1] > w[1]))
    BY <1>0, <1>1 DEF Node1, Follows
<1>6. v[1] = 0 \/ (v[1] \in Linked(red, 1, Len(red)) /\ v[1] \in Nat)
    <2>1. WordsOf(red, g)
        BY StepWords
    <2> QED BY <1>1, <2>1, LinkedIn DEF WordsOf
<1>7. ~ AppendsOutOnly(red) => WordCases(red, w)
    BY <1>1, WordCasesHold DEF Plain
<1>8. \A P : Popped(w, next, P)[1] = IF 1 \in P THEN next[w[1]] ELSE w[1]
    BY DEF Popped
<1>9. SameName(red, w) => w[1] # 0 /\ w[2] # 0
    BY DEF SameName
<1>10. ASSUME Alone(red, a)
       PROVE  \/ pc = "redirect" /\ a = w[1] /\ v[1] = w[1] /\ pc2 = "redirect_err" /\ share = "write"
              \/ pc = "redirect" /\ a = w[1] /\ v[1] # w[1]
              \/ pc = "redirect_err" /\ a = w[1] /\ v[1] # w[1] /\ share = "write"
    <2>1. WordCases(red, w)
        BY <1>7, <1>10 DEF Alone
    <2>2. red[a][1] # "<" /\ red[a][1] # "&>" /\ red[a][1] \notin {"2>", "2>>"}
        BY <1>10 DEF Alone
    <2>3. w[1] # 0 => Follows(red, 1, w[1], next[w[1]])
        BY <1>1, <1>2, NextWord
    <2>4. w[1] # 0 => next[w[1]] # w[1]
        BY <1>2, <2>3 DEF Follows
    <2>5. \A b \in DOMAIN red : IsFirstBoth(red, b) => red[b][1] = "&>"
        BY DEF IsFirstBoth
    <2>6. a = w[2] /\ a # 0 => w[1] = w[2]
        BY <2>1, <2>2, <2>5 DEF WordCases
    <2>7. a = w[0] => red[a][1] = "<" \/ a = 0
        BY <1>2, LinkedIn
    <2>8. a # 0
        BY <1>3 DEF RedWords
    <2> QED BY <1>1, <1>2, <1>4, <1>8, <1>9, <2>2, <2>4, <2>6, <2>7, <2>8 DEF WordStep
<1>11. share = "read" => access = "read" \/ Alone(red, a)
    <2>1. SUFFICES ASSUME share = "read", access # "read" PROVE Alone(red, a)
        OBVIOUS
    <2>2. ~ AppendsOutOnly(red) /\ ~ SameName(red, w) /\ w[1] # 0 /\ a = w[1]
        BY <1>4, <2>1 DEF WordStep
    <2>3. WordCases(red, w)
        BY <1>7, <2>2
    <2>4. w[1] # w[2]
        BY <2>2 DEF SameName
    <2> QED BY <1>2, <2>2, <2>3, <2>4 DEF WordCases, Alone
<1>12. /\ access \in {"read", "write"} /\ share \in {"read", "write"} /\ (access = "read" => share = "read")
    BY <1>4 DEF WordStep
<1>13. access = "read" <=> red[a][1] = "<"
    BY <1>3 DEF Access
<1>14. Share(red, red[a]) = "read" <=> (access = "read" \/ Alone(red, a))
    BY <1>13 DEF Share, Alone
<1>15. OpenOf(red, a, red[a][2], access, share)
    BY <1>3, <1>11, <1>12, <1>14 DEF OpenOf
<1>16. Passed(red, a, share, g)
    <2>1. SUFFICES ASSUME Alone(red, a)
                   PROVE  v[1] = 0 \/ a < v[1] \/ (pc2 = "redirect_err" /\ a = v[1] /\ share = "write")
        BY <1>1 DEF Passed, Alone
    <2> QED BY <1>5, <1>10, <2>1
<1>17. ASSUME NEW b \in DOMAIN red, NEW sh, Passed(red, b, sh, f) PROVE Passed(red, b, sh, g)
    <2>1. SUFFICES ASSUME Alone(red, b)
                   PROVE  v[1] = 0 \/ b < v[1] \/ (pc2 = "redirect_err" /\ b = v[1] /\ sh = "write")
        BY <1>1 DEF Passed, Alone
    <2>2. w[1] = 0 \/ b < w[1] \/ (pc = "redirect_err" /\ b = w[1] /\ sh = "write")
        BY <1>1, <1>17, <2>1 DEF Passed, Alone
    <2>3. b \in Nat /\ (w[1] = 0 \/ w[1] \in Nat)
        BY <1>2 DEF RedWords
    <2>4. CASE w[1] = 0 \/ b < w[1]
        BY <1>5, <1>6, <2>3, <2>4
    <2>5. CASE pc = "redirect_err" /\ b = w[1] /\ sh = "write" /\ w[1] # 0
        <3>1. v[1] = next[w[1]]
            BY <1>1, <1>4, <1>8, <2>5 DEF WordStep
        <3>2. Follows(red, 1, w[1], next[w[1]])
            BY <1>1, <1>2, <2>5, NextWord
        <3> QED BY <2>5, <3>1, <3>2 DEF Follows
    <2> QED BY <2>2, <2>4, <2>5
<1>18. ASSUME NEW sh, OpenOf(red, a, red[a][2], access, sh), Passed(red, a, sh, f)
       PROVE  access = sh /\ access = share
    <2>1. sh \in {"read", "write"} /\ (access = "read" => sh = "read") /\ (sh = "read" => Share(red, red[a]) = "read")
        BY <1>18 DEF OpenOf
    <2>2. CASE access = "read"
        BY <1>12, <2>1, <2>2
    <2>3. CASE access = "write" /\ ~ Alone(red, a)
        BY <1>11, <1>12, <1>14, <2>1, <2>3
    <2>4. CASE access = "write" /\ Alone(red, a)
        <3>1. a \in Nat /\ a # 0
            BY <1>3 DEF RedWords
        <3>2. w[1] = 0 \/ a < w[1] \/ (pc = "redirect_err" /\ a = w[1] /\ sh = "write")
            BY <1>1, <1>18, <2>4 DEF Passed, Alone
        <3>3. pc = "redirect_err" /\ sh = "write" /\ share = "write"
            BY <1>10, <2>4, <3>1, <3>2
        <3> QED BY <2>4, <3>3
    <2> QED BY <1>12, <2>2, <2>3, <2>4
<1> QED BY <1>15, <1>16, <1>17, <1>18 DEF StepOpen

-----------------------------------------------------------------------------
(* What the line says of opens that fail.                                   *)

JoinedIn(l, i, j) == \A k \in i .. j - 1 : l.ops[k] # "sequential"
ParallelIn(l, i, j) ==
    \E k \in DOMAIN l.ops :
        /\ l.ops[k] = "parallel"
        /\ JoinedIn(l, Min({i, k}), Max({j, k + 1}))
ClashIn(l, i, j) ==
    /\ i < j /\ ParallelIn(l, i, j)
    /\ \E r \in Range(l.cmds[i].red), s \in Range(l.cmds[j].red) :
            Clash(l.cmds[i].red, r, l.cmds[j].red, s)
ExcusedIn(l) ==
    \/ \E i \in DOMAIN l.cmds : Misses(l.cmds[i].red) \/ ClashesItself(l.cmds[i].red)
    \/ \E i, j \in DOMAIN l.cmds : ClashIn(l, i, j)

LEMMA LeastOfTwo ==
    ASSUME NEW i \in Nat, NEW k \in Nat
    PROVE  Min({i, k}) \in {i, k} /\ Min({i, k}) <= i /\ Min({i, k}) <= k
<1>1. PICK S : S = {i, k}
    OBVIOUS
<1>2. \E x \in S : \A y \in S : x <= y
    BY <1>1
<1>3. Min(S) \in S /\ \A y \in S : Min(S) <= y
    BY <1>2 DEF Min
<1> QED BY <1>1, <1>3

LEMMA GreatestOfTwo ==
    ASSUME NEW i \in Nat, NEW k \in Nat
    PROVE  Max({i, k}) \in {i, k} /\ Max({i, k}) >= i /\ Max({i, k}) >= k
<1>1. PICK S : S = {i, k}
    OBVIOUS
<1>2. \E x \in S : \A y \in S : x >= y
    BY <1>1
<1>3. Max(S) \in S /\ \A y \in S : Max(S) >= y
    BY <1>2 DEF Max
<1> QED BY <1>1, <1>3

LEMMA InOneList ==
    ASSUME NEW l, IsLine(l), NEW t, IsTree(l, t), t[1] = "parallel",
           NEW i \in Span(l, t), NEW j \in Span(l, t), i < j
    PROVE  ParallelIn(l, i, j)
<1>1. PICK a, b, k : a = Lo(l, t) /\ b = Hi(l, t) /\ k = Hi(l, t[2])
    OBVIOUS
<1>2. /\ a \in 1 .. Len(l.cmds) /\ b \in 1 .. Len(l.cmds) /\ a <= b /\ Len(l.cmds) \in Nat
      /\ IsTree(l, t[2]) /\ Lo(l, t[2]) = a /\ IsTree(l, t[3]) /\ Hi(l, t[3]) = b
      /\ k + 1 = Lo(l, t[3]) /\ l.ops[k] = "parallel"
    BY <1>1, TreeFacts, LineFacts
<1>3. /\ k \in Nat /\ a <= k /\ k + 1 <= b
    BY <1>1, <1>2, TreeFacts
<1>4. k \in DOMAIN l.ops
    <2>1. l.ops \in Seq(Operators) /\ Len(l.ops) = Len(l.cmds) - 1
        BY DEF IsLine
    <2>2. DOMAIN l.ops = 1 .. Len(l.cmds) - 1
        BY <2>1
    <2>3. k >= 1 /\ k <= Len(l.cmds) - 1
        BY <1>2, <1>3
    <2> QED BY <1>2, <1>3, <2>2, <2>3
<1>5. PICK m, n : m = Min({i, k}) /\ n = Max({j, k + 1})
    OBVIOUS
<1>6. i \in a .. b /\ j \in a .. b
    BY <1>1 DEF Span
<1>7. i \in Nat /\ j \in Nat /\ k + 1 \in Nat
    BY <1>2, <1>3, <1>6
<1>8. m \in {i, k} /\ n \in {j, k + 1}
    BY <1>5, <1>7, <1>3, LeastOfTwo, GreatestOfTwo
<1>9. a <= m /\ n <= b /\ m \in Nat /\ n \in Nat
    BY <1>2, <1>3, <1>6, <1>7, <1>8
<1>10. ASSUME NEW p \in m .. n - 1 PROVE l.ops[p] # "sequential"
    <2>1. p \in a .. b - 1
        BY <1>2, <1>9
    <2> QED BY <1>1, <2>1, NoSequenceInParallel
<1> QED BY <1>2, <1>4, <1>5, <1>10 DEF ParallelIn, JoinedIn

(* Two files of one name refuse each other only when the text clashes.      *)
LEMMA TwoOpens ==
    ASSUME NEW red1, NEW a, NEW name, NEW access1, NEW share1, OpenOf(red1, a, name, access1, share1),
           NEW red2, NEW b, NEW access2, NEW share2, OpenOf(red2, b, name, access2, share2),
           ~ Clash(red1, red1[a], red2, red2[b])
    PROVE  access2 = share1 /\ access1 = share2
<1>1. /\ access1 = Access(red1[a]) /\ access2 = Access(red2[b]) /\ red1[a][2] = red2[b][2]
      /\ access1 = "read" => share1 = "read"
      /\ share1 = "read" => Share(red1, red1[a]) = "read"
      /\ share1 \in {"read", "write"}
      /\ access2 = "read" => share2 = "read"
      /\ share2 = "read" => Share(red2, red2[b]) = "read"
      /\ share2 \in {"read", "write"}
    BY DEF OpenOf
<1>2. access1 \in {"read", "write"} /\ access2 \in {"read", "write"}
    BY <1>1 DEF Access
<1>3. access1 = Share(red2, red2[b]) /\ access2 = Share(red1, red1[a])
    BY <1>1 DEF Clash
<1> QED BY <1>1, <1>2, <1>3

LEMMA ClashBothWays ==
    ASSUME NEW red1, NEW r, NEW red2, NEW s
    PROVE  Clash(red1, r, red2, s) <=> Clash(red2, s, red1, r)
BY DEF Clash

(* A call that redirects opens the file of a node.                          *)
Opening(l, th, t, W, a, access, share, w2, pc2) ==
    /\ t \in Threads /\ th[t].stack # <<>> /\ Redirecting(th[t].stack[1])
    /\ RedWords(l.cmds[th[t].stack[1].cmd[2]].red, W)
    /\ WordStep(l.cmds[th[t].stack[1].cmd[2]].red, W, th[t].stack[1].word, th[t].stack[1].pc,
                a, access, share, w2, pc2)
Fails(red, a, access, share, fs) ==
    \/ access = "read" /\ red[a][2] = "missing"
    \/ \E f \in fs : f.name = red[a][2] /\ (access # f.share \/ f.access # share)

LEMMA OpenFails ==
    ASSUME NEW l, IsLine(l), NEW th, NEW fs, NEW progs, ExecInv(l, th, fs, progs),
           NEW t, NEW W, NEW a, NEW access, NEW share, NEW w2, NEW pc2,
           Opening(l, th, t, W, a, access, share, w2, pc2),
           Fails(l.cmds[th[t].stack[1].cmd[2]].red, a, access, share, fs)
    PROVE  ExcusedIn(l)
<1>0. ThreadsInv(l, th) /\ FilesInv(l, th, fs, progs) /\ NodesInv(l, th, fs) /\ t \in Threads
    BY Zenon DEF ExecInv, Opening
<1>1. PICK f, i, red : f = th[t].stack[1] /\ i = f.cmd[2] /\ red = l.cmds[i].red
    OBVIOUS
<1>2. SUFFICES ASSUME ~ ExcusedIn(l) PROVE FALSE
    OBVIOUS
<1>3. /\ RedWords(red, W) /\ WordStep(red, W, f.word, f.pc, a, access, share, w2, pc2)
      /\ Redirecting(f) /\ Fails(red, a, access, share, fs)
    BY <1>1, Zenon DEF Opening
<1>4. InSimple(th[t], i)
    BY <1>1, Zenon DEF Opening, Redirecting, InSimple
<1>5. /\ i \in Own(l, th[t].stack) /\ i \in Now(l, th[main].stack) /\ i \in DOMAIN l.cmds
      /\ t # main => Forked(th[main].stack[1]) /\ th[main].stack # <<>>
    BY <1>0, <1>4, OneCommand
<1>6. \A j \in DOMAIN l.cmds : ~ Misses(l.cmds[j].red) /\ ~ ClashesItself(l.cmds[j].red)
    BY <1>2 DEF ExcusedIn
<1>7. ~ Misses(red) /\ ~ ClashesItself(red)
    BY <1>1, <1>5, <1>6, Zenon
<1>8. WordsOf(red, f)
    BY <1>0, <1>1, <1>3, Zenon DEF NodesInv, Opening
<1>9. PICK g : g = [word |-> w2, pc |-> pc2]
    OBVIOUS
<1>10. g.word = w2 /\ g.pc = pc2
    BY <1>9
<1>11. StepOpen(red, f, a, access, share, g)
    <2>1. WordStep(red, W, f.word, f.pc, a, access, share, g.word, g.pc)
        BY <1>3, <1>10
    <2>2. RedWords(red, W)
        BY <1>3
    <2> QED BY ONLY <1>7, <1>8, <2>1, <2>2, StepOpens
<1>12. a \in DOMAIN red /\ access = Access(red[a])
    BY <1>11 DEF StepOpen, OpenOf
<1>13. CASE access = "read" /\ red[a][2] = "missing"
    <2>1. red[a][1] = "<"
        BY <1>12, <1>13 DEF Access
    <2>2. red[a] \in Range(red)
        BY <1>12 DEF Range
    <2> QED BY <1>7, <1>13, <2>1, <2>2 DEF Misses
<1>14. ASSUME NEW x \in fs, x.name = red[a][2], access # x.share \/ x.access # share PROVE FALSE
    <2>1. PICK j, redj : j = x.h[1] /\ redj = l.cmds[j].red
        OBVIOUS
    <2>2. j \in Now(l, th[main].stack)
        BY <1>0, <2>1 DEF FilesInv
    <2>3. j \in DOMAIN l.cmds
        <3>1. th[main].stack # <<>> /\ j \in Span(l, th[main].stack[1].cmd)
            BY <2>2, SMTT(30) DEF Now
        <3>2. IsTree(l, th[main].stack[1].cmd)
            BY <1>0, <3>1, FramesOf, WinAssumption
        <3>3. j \in 1 .. Len(l.cmds)
            BY <3>1, <3>2, SpanFacts
        <3> QED BY <3>3, LineFacts
    <2>4. ~ ClashesItself(redj)
        BY <1>6, <2>1, <2>3
    <2>5. PICK b \in DOMAIN redj : NodeOf(redj, b, x, th)
        BY <1>0, <2>1, <2>4, Zenon DEF NodesInv
    <2>6. OpenOf(redj, b, red[a][2], x.access, x.share)
        BY <1>14, <2>5 DEF NodeOf
    <2>7. OpenOf(red, a, red[a][2], access, share)
        BY <1>11 DEF StepOpen
    <2>8. Clash(redj, redj[b], red, red[a]) \/ (j = i /\ b = a)
        <3>1. SUFFICES ASSUME ~ Clash(redj, redj[b], red, red[a]) PROVE FALSE
            OBVIOUS
        <3>2. access = x.share /\ x.access = share
            BY ONLY <2>6, <2>7, <3>1, TwoOpens
        <3> QED BY <1>14, <3>2
    <2>9. CASE j = i /\ b = a
        <3>1. redj = red
            BY <1>1, <2>1, <2>9, Zenon
        <3>2. Passed(red, a, x.share, f)
            BY <1>0, <1>1, <1>3, <1>4, <2>1, <2>5, <2>9, <3>1, Zenon DEF NodeOf
        <3>3. x.access = access
            BY <1>12, <2>6, <2>9, <3>1 DEF OpenOf
        <3>4. OpenOf(red, a, red[a][2], access, x.share)
            BY <2>6, <2>9, <3>1, <3>3
        <3>5. access = x.share /\ access = share
            BY <1>11, <3>2, <3>4 DEF StepOpen
        <3> QED BY <1>14, <3>3, <3>5
    <2>10. CASE j = i /\ b # a
        <3>1. redj = red
            BY <1>1, <2>1, <2>10, Zenon
        <3>2. Clash(red, red[b], red, red[a])
            BY <2>8, <2>10, <3>1
        <3> QED BY <1>7, <1>12, <2>5, <2>10, <3>1, <3>2 DEF ClashesItself
    <2>11. CASE j # i
        <3>1. t # main
            <4>1. SUFFICES ASSUME t = main PROVE FALSE
                OBVIOUS
            <4>2. Now(l, th[main].stack) = Span(l, f.cmd) /\ f.cmd[1] = "none"
                BY <1>1, <1>4, <4>1, Zenon DEF Now, InSimple
            <4>3. IsTree(l, f.cmd)
                BY <1>0, <1>1, <1>4, FramesOf, Zenon DEF InSimple
            <4> QED BY <1>1, <2>2, <2>11, <4>2, <4>3, SpanFacts, Zenon
        <3>2. PICK T : T = th[main].stack[1].cmd
            OBVIOUS
        <3>3. T[1] = "parallel" /\ IsTree(l, T) /\ i \in Span(l, T) /\ j \in Span(l, T)
            <4>1. Forked(th[main].stack[1]) /\ th[main].stack # <<>>
                BY <1>5, <3>1, SMTT(30)
            <4>2. IsTree(l, T)
                BY <1>0, <3>2, <4>1, FramesOf, WinAssumption
            <4>3. Now(l, th[main].stack) = Span(l, T)
                BY <3>2, <4>1 DEF Now
            <4> QED BY <1>5, <2>2, <3>2, <4>1, <4>2, <4>3, Zenon DEF Forked
        <3>4. i \in Nat /\ j \in Nat
            BY <1>5, <2>3, LineFacts
        <3>5. red[a] \in Range(red) /\ redj[b] \in Range(redj)
            BY <1>12, <2>5 DEF Range
        <3>6. Clash(redj, redj[b], red, red[a]) /\ Clash(red, red[a], redj, redj[b])
            BY <2>8, <2>11, ClashBothWays
        <3>7. CASE i < j
            <4>1. ParallelIn(l, i, j)
                BY <3>3, <3>7, InOneList
            <4>2. ClashIn(l, i, j)
                BY <1>1, <2>1, <3>5, <3>6, <3>7, <4>1, Zenon DEF ClashIn
            <4> QED BY <1>2, <1>5, <2>3, <4>2 DEF ExcusedIn
        <3>8. CASE j < i
            <4>1. ParallelIn(l, j, i)
                BY <3>3, <3>8, InOneList
            <4>2. ClashIn(l, j, i)
                BY <1>1, <2>1, <3>5, <3>6, <3>8, <4>1, Zenon DEF ClashIn
            <4> QED BY <1>2, <1>5, <2>3, <4>2 DEF ExcusedIn
        <3> QED BY <2>11, <3>4, <3>7, <3>8
    <2> QED BY <2>9, <2>10, <2>11
<1> QED BY <1>3, <1>13, <1>14, Zenon DEF Fails

-----------------------------------------------------------------------------
(* The steps of redirections.                                               *)

LEMMA FirstKeeps ==
    ASSUME NEW l, IsLine(l), NEW th, NEW t, NEW g, NEW v, NEW th2, NEW fs, NEW progs, NEW W,
           ExecInv(l, th, fs, progs), SimpleMoves(l, th, t, g, v, th2),
           th[t].stack[1].pc = "start", g.pc = "redirect", g.word = W.list,
           RedWords(l.cmds[th[t].stack[1].cmd[2]].red, W)
    PROVE  ExecInv(l, th2, fs, progs)
<1>0. ThreadsInv(l, th) /\ FilesInv(l, th, fs, progs) /\ NodesInv(l, th, fs) /\ t \in Threads
    BY DEF ExecInv, SimpleMoves
<1>1. SimpleMade(l, th, t, g, th2)
    BY ONLY IsLine(l), <1>0, SimpleMoves(l, th, t, g, v, th2), SimpleFacts
<1>2. PICK f, i : f = th[t].stack[1] /\ i = f.cmd[2]
    BY SMTT(30)
<1>3. FilesInv(l, th2, fs, progs)
    <2>1. FilesGrow(th[t].stack[1].cmd[2], th[t].stack[1].pc, g.pc, fs, progs, fs, progs)
        BY Zenon DEF FilesGrow
    <2> QED BY <1>0, <2>1, SimpleFiles
<1>4. /\ th2[t].stack[1] = g /\ g.cmd = f.cmd /\ f.pc = "start"
      /\ \A u \in Threads \ {t} : th2[u] = th[u]
    BY <1>1, <1>2, Zenon DEF SimpleMade, SimpleMoves
<1>5. InSimple(th[t], i)
    BY <1>2 DEF SimpleMoves, InSimple
<1>6. \A x \in fs : x.h[1] # i
    <2>1. i \in Own(l, th[t].stack)
        BY <1>0, <1>5, OneCommand
    <2>2. ~ Busy(th[t], i)
        BY <1>2, <1>4 DEF Busy
    <2> QED BY <1>0, <2>1, <2>2 DEF FilesInv
<1>7. WordsOf(l.cmds[i].red, g)
    <2>1. PICK red : red = l.cmds[i].red
        OBVIOUS
    <2>2. RedWords(red, W)
        BY <1>2, <2>1, Zenon
    <2> QED BY <2>1, <2>2, FirstWords
<1>8. ASSUME NEW u \in Threads, th2[u].stack # <<>>, Redirecting(th2[u].stack[1])
      PROVE  WordsOf(l.cmds[th2[u].stack[1].cmd[2]].red, th2[u].stack[1])
    <2>1. CASE u = t
        BY <1>2, <1>4, <1>7, <2>1, Zenon
    <2>2. CASE u # t
        BY <1>0, <1>4, <1>8, <2>2, Zenon DEF NodesInv
    <2> QED BY <2>1, <2>2, Zenon
<1>9. ASSUME NEW x \in fs, NEW red, red = l.cmds[x.h[1]].red, ~ ClashesItself(red)
      PROVE  \E a \in DOMAIN red : NodeOf(red, a, x, th2)
    <2>1. PICK a \in DOMAIN red : NodeOf(red, a, x, th)
        BY <1>0, <1>9, Zenon DEF NodesInv
    <2>2. ASSUME NEW u \in Threads, InSimple(th2[u], x.h[1]), Redirecting(th2[u].stack[1])
          PROVE  Passed(red, a, x.share, th2[u].stack[1])
        <3>1. u # t
            BY <1>2, <1>4, <1>6, <2>2, Zenon DEF InSimple
        <3> QED BY <1>4, <2>1, <2>2, <3>1 DEF NodeOf
    <2> QED BY <2>1, <2>2 DEF NodeOf
<1>10. NodesInv(l, th2, fs)
    BY <1>8, <1>9, Zenon DEF NodesInv
<1> QED BY <1>1, <1>3, <1>10, SMTT(30) DEF ExecInv, SimpleMade

(* A file is opened.                                                        *)
OpensFile(l, th, t, W, a, access, share, g, v, th2, fs, fs2) ==
    /\ Opening(l, th, t, W, a, access, share, g.word, g.pc)
    /\ SimpleMoves(l, th, t, g, v, th2)
    /\ \E o : /\ fs2 = fs \cup {o} /\ IsFile(o) /\ o.of = 0 /\ o.h[1] = g.cmd[2]
              /\ o.name = l.cmds[g.cmd[2]].red[a][2] /\ o.access = access /\ o.share = share

LEMMA OpenKeeps ==
    ASSUME NEW l, IsLine(l), NEW th, NEW fs, NEW progs, ExecInv(l, th, fs, progs),
           NEW t, NEW W, NEW a, NEW access, NEW share, NEW g, NEW v, NEW th2, NEW fs2,
           OpensFile(l, th, t, W, a, access, share, g, v, th2, fs, fs2)
    PROVE  ExecInv(l, th2, fs2, progs)
<1>0. /\ ThreadsInv(l, th) /\ FilesInv(l, th, fs, progs) /\ NodesInv(l, th, fs) /\ t \in Threads
      /\ SimpleMoves(l, th, t, g, v, th2)
    BY Zenon DEF ExecInv, OpensFile, Opening
<1>1. SimpleMade(l, th, t, g, th2)
    BY ONLY IsLine(l), <1>0, SimpleFacts
<1>2. PICK f, i, red : f = th[t].stack[1] /\ i = f.cmd[2] /\ red = l.cmds[i].red
    OBVIOUS
<1>3. /\ th2[t].stack[1] = g /\ g.cmd = f.cmd
      /\ \A u \in Threads \ {t} : th2[u] = th[u]
    BY <1>0, <1>1, <1>2 DEF SimpleMade, SimpleMoves
<1>4. PICK o : /\ fs2 = fs \cup {o} /\ IsFile(o) /\ o.of = 0 /\ o.h[1] = i
               /\ o.name = red[a][2] /\ o.access = access /\ o.share = share
    BY <1>2, <1>3, Zenon DEF OpensFile
<1>5. /\ RedWords(red, W) /\ WordStep(red, W, f.word, f.pc, a, access, share, g.word, g.pc)
      /\ Redirecting(f) /\ th[t].stack # <<>>
    BY <1>2, Zenon DEF OpensFile, Opening
<1>6. InSimple(th[t], i)
    BY <1>2, <1>5, Zenon DEF Redirecting, InSimple
<1>7. FilesInv(l, th2, fs2, progs)
    <2>1. f.pc # "wait"
        BY <1>5 DEF Redirecting
    <2>2. FilesGrow(i, f.pc, g.pc, fs, progs, fs2, progs)
        BY <1>4, <2>1 DEF FilesGrow
    <2>3. FilesGrow(th[t].stack[1].cmd[2], th[t].stack[1].pc, g.pc, fs, progs, fs2, progs)
        BY <1>2, <2>2
    <2> QED BY <1>0, <2>3, SimpleFiles
<1>8. WordsOf(red, f)
    BY <1>0, <1>2, <1>5, Zenon DEF NodesInv
<1>9. WordsOf(red, g)
    BY <1>5, <1>8, StepWords
<1>10. ~ ClashesItself(red) => StepOpen(red, f, a, access, share, g)
    BY <1>5, <1>8, StepOpens
<1>11. \A u \in Threads : InSimple(th[u], i) => u = t
    BY <1>0, <1>6, OneCommand
<1>12. ASSUME NEW u \in Threads, th2[u].stack # <<>>, Redirecting(th2[u].stack[1])
       PROVE  WordsOf(l.cmds[th2[u].stack[1].cmd[2]].red, th2[u].stack[1])
    <2>1. CASE u = t
        BY <1>2, <1>3, <1>9, <2>1, Zenon
    <2>2. CASE u # t
        BY <1>0, <1>3, <1>12, <2>2 DEF NodesInv
    <2> QED BY <2>1, <2>2
<1>13. ASSUME NEW x \in fs2, NEW redx, redx = l.cmds[x.h[1]].red, ~ ClashesItself(redx)
       PROVE  \E b \in DOMAIN redx : NodeOf(redx, b, x, th2)
    <2>1. CASE x = o
        <3>1. redx = red
            BY <1>2, <1>4, <1>13, <2>1
        <3>2. StepOpen(red, f, a, access, share, g)
            BY <1>10, <1>13, <3>1
        <3>3. a \in DOMAIN red /\ OpenOf(red, a, x.name, x.access, x.share)
            BY <1>4, <2>1, <3>2 DEF StepOpen, OpenOf
        <3>4. ASSUME NEW u \in Threads, InSimple(th2[u], x.h[1]), Redirecting(th2[u].stack[1])
              PROVE  Passed(red, a, x.share, th2[u].stack[1])
            <4>1. u = t
                BY <1>3, <1>4, <1>11, <2>1, <3>4
            <4> QED BY <1>3, <1>4, <2>1, <3>2, <4>1 DEF StepOpen
        <3> QED BY <3>1, <3>3, <3>4 DEF NodeOf
    <2>2. CASE x \in fs
        <3>1. PICK b \in DOMAIN redx : NodeOf(redx, b, x, th)
            BY <1>0, <1>13, <2>2 DEF NodesInv
        <3>2. ASSUME NEW u \in Threads, InSimple(th2[u], x.h[1]), Redirecting(th2[u].stack[1])
              PROVE  Passed(redx, b, x.share, th2[u].stack[1])
            <4>1. CASE u = t
                <5>1. x.h[1] = i
                    BY <1>2, <1>3, <3>2, <4>1 DEF InSimple
                <5>2. redx = red
                    BY <1>2, <1>13, <5>1
                <5>3. Passed(red, b, x.share, f)
                    BY <1>0, <1>2, <1>5, <1>6, <3>1, <5>1, <5>2, Zenon DEF NodeOf
                <5>4. StepOpen(red, f, a, access, share, g)
                    BY <1>10, <1>13, <5>2
                <5> QED BY <1>3, <3>1, <4>1, <5>2, <5>3, <5>4 DEF StepOpen
            <4>2. CASE u # t
                BY <1>3, <3>1, <3>2, <4>2 DEF NodeOf
            <4> QED BY <4>1, <4>2
        <3> QED BY <3>1, <3>2 DEF NodeOf
    <2> QED BY <1>4, <2>1, <2>2
<1>14. NodesInv(l, th2, fs2)
    BY <1>12, <1>13 DEF NodesInv
<1> QED BY <1>1, <1>7, <1>14 DEF ExecInv, SimpleMade

-----------------------------------------------------------------------------
(* The actions of the threads make these moves. *)

LEMMA PcKinds ==
    ASSUME NEW l, IsLine(l), NEW f, IsFrame(l, f)
    PROVE  /\ f.pc \in {"redirect", "redirect_err", "close"} => f.cmd[1] = "none"
           /\ f.pc \in {"decide", "last"} => f.cmd[1] \in {"zero", "nzero"}
           /\ f.pc \in {"second", "unset"} => f.cmd[1] = "sequential"
           /\ f.pc = "second thread" => f.cmd[1] = "parallel"
<1>1. PICK op : op = f.cmd[1]
    OBVIOUS
<1>2. op \in Operators \cup {"none"} /\ f.pc \in Pcs[op]
    BY <1>1, TreeFacts DEF IsFrame
<1>3. CASE op = "none"
    <2>1. Pcs[op] = {"start", "redirect", "redirect_err", "wait", "close"}
        BY <1>3 DEF Pcs
    <2> QED BY <1>1, <1>2, <1>3, <2>1, Zenon
<1>4. CASE op = "parallel"
    <2>1. Pcs[op] = {"start", "second thread", "wait"}
        BY <1>4 DEF Pcs
    <2> QED BY <1>1, <1>2, <1>4, <2>1, Zenon
<1>5. CASE op = "zero"
    <2>1. Pcs[op] = {"start", "decide", "last"}
        BY <1>5 DEF Pcs
    <2> QED BY <1>1, <1>2, <1>5, <2>1, Zenon
<1>6. CASE op = "nzero"
    <2>1. Pcs[op] = {"start", "decide", "last"}
        BY <1>6 DEF Pcs
    <2> QED BY <1>1, <1>2, <1>6, <2>1, Zenon
<1>7. CASE op = "sequential"
    <2>1. Pcs[op] = {"start", "second", "unset"}
        BY <1>7 DEF Pcs
    <2> QED BY <1>1, <1>2, <1>7, <2>1, Zenon
<1>8. CASE op = "pipe"
    <2>1. Pcs[op] = {"start"}
        BY <1>8 DEF Pcs
    <2> QED BY <1>1, <1>2, <1>8, <2>1, Zenon
<1> QED BY <1>2, <1>3, <1>4, <1>5, <1>6, <1>7, <1>8, Zenon DEF Operators

(* The places of the code that an operator has.                             *)
LEMMA PlacesOf ==
    ASSUME NEW op
    PROVE  /\ op = "none" => \A pc \in {"redirect", "redirect_err", "wait", "close"} : pc \in Pcs[op]
           /\ op \in {"zero", "nzero"} => "decide" \in Pcs[op] /\ "last" \in Pcs[op]
           /\ op = "sequential" => "second" \in Pcs[op] /\ "unset" \in Pcs[op]
           /\ op = "parallel" => "second thread" \in Pcs[op] /\ "wait" \in Pcs[op]
<1>1. op = "none" => Pcs[op] = {"start", "redirect", "redirect_err", "wait", "close"}
    BY DEF Pcs
<1>2. op = "zero" => Pcs[op] = {"start", "decide", "last"}
    BY DEF Pcs
<1>3. op = "nzero" => Pcs[op] = {"start", "decide", "last"}
    BY DEF Pcs
<1>4. op = "sequential" => Pcs[op] = {"start", "second", "unset"}
    BY DEF Pcs
<1>5. op = "parallel" => Pcs[op] = {"start", "second thread", "wait"}
    BY DEF Pcs
<1> QED BY <1>1, <1>2, <1>3, <1>4, <1>5, Zenon

NextIs(l, f, pc, opened, word, g) ==
    /\ g = FrameOf(f.cmd, pc, f.thread_arr, opened, word)
    /\ IsFrame(l, g) /\ g.cmd = f.cmd /\ g.pc = pc /\ g.word = word
LEMMA NextFrame ==
    ASSUME NEW l, NEW f, IsFrame(l, f), ~ Forked(f), NEW pc, pc \in Pcs[f.cmd[1]],
           NEW opened, NEW word, NEW g, g = FrameOf(f.cmd, pc, f.thread_arr, opened, word)
    PROVE  NextIs(l, f, pc, opened, word, g)
<1>1. /\ g.cmd = f.cmd /\ g.pc = pc /\ g.thread_arr = f.thread_arr /\ g.opened = opened /\ g.word = word
    BY FieldsOf
<1>2. g = FrameOf(g.cmd, g.pc, g.thread_arr, g.opened, g.word)
    BY <1>1
<1>3. IsTree(l, f.cmd) /\ f.thread_arr = <<>> /\ f.thread_arr \in Seq(Threads \ {main})
    BY DEF IsFrame
<1> QED BY <1>1, <1>2, <1>3 DEF IsFrame, NextIs

(* Thread t is in the call f.                                               *)
In(l, th, t, f) ==
    /\ t \in Threads /\ th[t].stack # <<>> /\ f = th[t].stack[1] /\ f = Head(th[t].stack)
    /\ Calls(th[t], f) /\ IsFrame(l, f)

LEMMA InIs ==
    ASSUME NEW l, NEW th, ThreadsInv(l, th), NEW t \in Threads, th[t].stack # <<>>
    PROVE  In(l, th, t, th[t].stack[1])
<1>1. Calls(th[t], th[t].stack[1]) /\ IsFrame(l, th[t].stack[1]) /\ Sequence(th[t].stack)
    BY FramesOf
<1>2. PICK s : s = th[t].stack
    OBVIOUS
<1>3. Head(s) = s[1]
    BY <1>1, <1>2 DEF Sequence
<1> QED BY <1>1, <1>2, <1>3 DEF In

LEMMA ReturnStep ==
    ASSUME NEW l, IsLine(l), NEW th, NEW fs, NEW progs, ExecInv(l, th, fs, progs),
           NEW t, NEW f, In(l, th, t, f), ~ Forked(f), NEW v,
           f.cmd[1] = "none" =>
              f.pc = "start" \/ (f.pc = "close" /\ \A x \in fs : x.of = 0 => x.h[1] # f.cmd[2]),
           NEW th2, th2 = [th EXCEPT ![t] = Return(th[t], v)]
    PROVE  ExecInv(l, th2, fs, progs)
<1>1. PICK r : r = th[t]
    OBVIOUS
<1>2. r = ThreadOf(r.st, r.stack, r.val)
    BY <1>1 DEF In, Calls
<1>3. Return(r, v) = ThreadOf(r.st, Tail(r.stack), v)
    BY ONLY <1>2, Returns
<1>4. th2 = [th EXCEPT ![t] = ThreadOf(th[t].st, Tail(th[t].stack), v)]
    BY <1>1, <1>3
<1>5. ReturnMoves(l, th, t, v, fs, th2)
    BY <1>4 DEF ReturnMoves, In
<1> QED BY ONLY IsLine(l), ExecInv(l, th, fs, progs), <1>5, ReturnKeeps

LEMMA CallStep ==
    ASSUME NEW l, IsLine(l), NEW th, NEW fs, NEW progs, ExecInv(l, th, fs, progs),
           NEW t, NEW f, In(l, th, t, f), NEW pc, NEW c,
           \/ /\ f.cmd[1] \in {"zero", "nzero"}
              /\ (f.pc = "start" /\ pc = "decide" /\ c = f.cmd[2]) \/ (f.pc = "decide" /\ pc = "last" /\ c = f.cmd[3])
           \/ /\ f.cmd[1] = "sequential"
              /\ (f.pc = "start" /\ pc = "second" /\ c = f.cmd[2]) \/ (f.pc = "second" /\ pc = "unset" /\ c = f.cmd[3]),
           NEW th2, th2 = [th EXCEPT ![t] = Call(th[t], pc, c)]
    PROVE  ExecInv(l, th2, fs, progs)
<1>1. PICK r, g : r = th[t] /\ g = FrameOf(f.cmd, pc, f.thread_arr, f.opened, f.word)
    OBVIOUS
<1>2. Calls(r, f) /\ IsFrame(l, f)
    BY <1>1 DEF In
<1>3. Call(r, pc, c) = ThreadOf(r.st, <<Frame(c)>> \o OnTop(r.stack, g), r.val)
    BY ONLY <1>1, <1>2, CallsNext
<1>4. NextIs(l, f, pc, f.opened, f.word, g)
    <2>1. ~ Forked(f)
        BY Zenon DEF Forked
    <2>2. pc \in Pcs[f.cmd[1]]
        BY PlacesOf, Zenon
    <2> QED BY ONLY <1>1, <1>2, <2>1, <2>2, NextFrame
<1>5. Entering(l, f, g, c)
    BY <1>2, <1>4 DEF Entering, NextIs
<1>6. th2 = [th EXCEPT ![t] = ThreadOf(th[t].st, <<Frame(c)>> \o OnTop(th[t].stack, g), th[t].val)]
    BY <1>1, <1>3
<1>7. CallMoves(l, th, t, g, c, th2)
    BY <1>5, <1>6, Zenon DEF CallMoves, In
<1> QED BY ONLY IsLine(l), ExecInv(l, th, fs, progs), <1>7, CallKeeps

(* A new place in the code of a simple command.                             *)
LEMMA SimpleStep ==
    ASSUME NEW l, IsLine(l), NEW th, NEW t, NEW f, In(l, th, t, f), f.cmd[1] = "none",
           NEW pc, pc \in {"redirect", "redirect_err", "wait", "close"}, NEW opened, NEW word, NEW g,
           g = FrameOf(f.cmd, pc, f.thread_arr, opened, word), NEW v, NEW th2,
           th2 = [th EXCEPT ![t] = ThreadOf(th[t].st, OnTop(th[t].stack, g), v)]
    PROVE  SimpleMoves(l, th, t, g, v, th2) /\ NextIs(l, f, pc, opened, word, g)
<1>1. NextIs(l, f, pc, opened, word, g)
    <2>1. ~ Forked(f) /\ IsFrame(l, f)
        BY Zenon DEF Forked, In
    <2>2. pc \in Pcs[f.cmd[1]]
        BY PlacesOf, Zenon
    <2>3. g = FrameOf(f.cmd, pc, f.thread_arr, opened, word)
        OBVIOUS
    <2> QED BY ONLY <2>1, <2>2, <2>3, NextFrame
<1>2. g.pc # "start"
    BY <1>1 DEF NextIs
<1> QED BY <1>1, <1>2, Zenon DEF SimpleMoves, NextIs, In

-----------------------------------------------------------------------------
(* Lines the parser accepts. *)

LEMMA LineWords ==
    ASSUME NEW l \in Lines, l \notin Refused, NEW i \in DOMAIN l.cmds
    PROVE  RedWords(l.cmds[i].red, Words[l.cmds[i].red])
<1>1. PICK c, red : c = l.cmds[i] /\ red = c.red
    OBVIOUS
<1>2. c \in Range(l.cmds)
    BY <1>1 DEF Range
<1>3. red \in Redirects
    BY <1>1, <1>2 DEF Redirects
<1>4. Words[red] = redirect(red) /\ Words[red].ok
    BY <1>1, <1>2, <1>3 DEF Words, Refused
<1>5. red \in Seq(Range(red)) /\ \A r \in Range(red) : r[1] \in Kinds
    BY <1>1, <1>2, WinAssumption DEF IsLine, IsCommand
<1>6. WordsInv(red, Len(red), redirect(red))
    BY ONLY <1>5, RedirectIs
<1>7. Len(red) \in Nat /\ DOMAIN red = 1 .. Len(red) /\ \A a \in DOMAIN red : red[a][1] \in Kinds
    <2>1. Len(red) \in Nat /\ DOMAIN red = 1 .. Len(red)
        BY <1>5
    <2> QED BY <1>5, <2>1 DEF Range
<1> QED BY <1>1, <1>4, <1>6, <1>7 DEF RedWords

LEMMA LineTree ==
    ASSUME NEW l \in Lines
    PROVE  IsLine(l) /\ IsTree(l, Tree[l])
<1>1. IsLine(l)
    BY WinAssumption
<1>2. Tree[l] = Grouped(l)
    BY <1>1, ParserFollowsPriorities DEF Tree
<1> QED BY <1>1, <1>2, WholeTree

(* What the guard of an action of a thread says.                            *)
Busily == over = None /\ Executing /\ IsLine(line) /\ ExecInv(line, thread, files, running)
Moved == ExecInv(line, thread', files', running') /\ UNCHANGED <<line, over>>

LEMMA Guarded ==
    ASSUME Busily, NEW t \in Threads, NEW pc, At(t, pc)
    PROVE  In(line, thread, t, Top(t)) /\ Top(t).pc = pc
<1>1. ThreadsInv(line, thread) /\ thread[t].stack # <<>> /\ Top(t).pc = pc
    BY DEF At, Busily, ExecInv
<1>2. In(line, thread, t, thread[t].stack[1])
    BY <1>1, InIs
<1>3. thread[t].stack[1] = Top(t)
    BY <1>2 DEF In, Top
<1> QED BY <1>1, <1>2, <1>3

(* A call returns.                                                          *)
LEMMA Returning ==
    ASSUME Busily, NEW t \in Threads, NEW pc, At(t, pc), NEW v, Set(t, Return(thread[t], v)), Keep,
           ~ Forked(Top(t)),
           Top(t).cmd[1] = "none" =>
              pc = "start" \/ (pc = "close" /\ \A x \in files : x.of = 0 => x.h[1] # Top(t).cmd[2])
    PROVE  Moved
<1>1. PICK l, th, fs, progs, f, th2 : /\ l = line /\ th = thread /\ fs = files /\ progs = running /\ f = Top(t)
                                      /\ th2 = thread'
    OBVIOUS
<1>2. In(l, th, t, f) /\ f.pc = pc
    BY <1>1, Guarded
<1>3. IsLine(l) /\ ExecInv(l, th, fs, progs)
    BY <1>1 DEF Busily
<1>4. ~ Forked(f)
    BY <1>1
<1>5. f.cmd[1] = "none" =>
        f.pc = "start" \/ (f.pc = "close" /\ \A x \in fs : x.of = 0 => x.h[1] # f.cmd[2])
    BY <1>1, <1>2
<1>6. th2 = [th EXCEPT ![t] = Return(th[t], v)]
    BY <1>1 DEF Set
<1>7. ExecInv(l, th2, fs, progs)
    BY ONLY <1>2, <1>3, <1>4, <1>5, <1>6, ReturnStep
<1> QED BY <1>1, <1>7 DEF Keep, Moved

LEMMA Entering1 ==
    ASSUME Busily, NEW t \in Threads, NEW pc, At(t, pc), NEW pc2, NEW c, Set(t, Call(thread[t], pc2, c)), Keep,
           \/ /\ Top(t).cmd[1] \in {"zero", "nzero"}
              /\ (pc = "start" /\ pc2 = "decide" /\ c = Top(t).cmd[2]) \/ (pc = "decide" /\ pc2 = "last" /\ c = Top(t).cmd[3])
           \/ /\ Top(t).cmd[1] = "sequential"
              /\ (pc = "start" /\ pc2 = "second" /\ c = Top(t).cmd[2]) \/ (pc = "second" /\ pc2 = "unset" /\ c = Top(t).cmd[3])
    PROVE  Moved
<1>1. PICK l, th, fs, progs, f, th2 : /\ l = line /\ th = thread /\ fs = files /\ progs = running /\ f = Top(t)
                                      /\ th2 = thread'
    OBVIOUS
<1>2. In(l, th, t, f) /\ f.pc = pc
    BY <1>1, Guarded
<1>3. IsLine(l) /\ ExecInv(l, th, fs, progs)
    BY <1>1 DEF Busily
<1>4. \/ /\ f.cmd[1] \in {"zero", "nzero"}
         /\ (f.pc = "start" /\ pc2 = "decide" /\ c = f.cmd[2]) \/ (f.pc = "decide" /\ pc2 = "last" /\ c = f.cmd[3])
      \/ /\ f.cmd[1] = "sequential"
         /\ (f.pc = "start" /\ pc2 = "second" /\ c = f.cmd[2]) \/ (f.pc = "second" /\ pc2 = "unset" /\ c = f.cmd[3])
    BY <1>1, <1>2
<1>5. th2 = [th EXCEPT ![t] = Call(th[t], pc2, c)]
    BY <1>1 DEF Set
<1>6. ExecInv(l, th2, fs, progs)
    BY ONLY <1>2, <1>3, <1>4, <1>5, CallStep
<1> QED BY <1>1, <1>6 DEF Keep, Moved

(* The commands of two parts, and the pipe.                                 *)
LEMMA ConditionalMoves ==
    ASSUME Busily, NEW t \in Threads, conditional(t), Keep
    PROVE  Moved
<1>1. ASSUME NEW op \in {"zero", "nzero"}, AtOp(t, "start", op), Set(t, Call(thread[t], "decide", cmd1(t)))
      PROVE  Moved
    <2>1. At(t, "start") /\ Top(t).cmd[1] \in {"zero", "nzero"}
        BY <1>1 DEF AtOp
    <2> QED BY <1>1, <2>1, Entering1 DEF cmd1
<1>2. ASSUME At(t, "decide") PROVE Top(t).cmd[1] \in {"zero", "nzero"}
    <2>1. IsFrame(line, Top(t)) /\ Top(t).pc = "decide" /\ IsLine(line)
        BY <1>2, Guarded DEF In, Busily
    <2> QED BY <2>1, PcKinds, Zenon
<1>3. ASSUME At(t, "decide"), Set(t, Call(thread[t], "last", cmd2(t))) PROVE Moved
    BY <1>2, <1>3, Entering1 DEF cmd2
<1>4. ASSUME NEW pc \in {"decide", "last"}, At(t, pc), Set(t, Return(thread[t], thread[t].val)) PROVE Moved
    <2>1. IsFrame(line, Top(t)) /\ Top(t).pc = pc /\ IsLine(line)
        BY <1>4, Guarded DEF In, Busily
    <2>2. Top(t).cmd[1] \in {"zero", "nzero"}
        BY <2>1, PcKinds, Zenon
    <2>3. ~ Forked(Top(t)) /\ Top(t).cmd[1] # "none"
        BY <2>2, Zenon DEF Forked
    <2> QED BY <1>4, <2>3, Returning
<1> QED BY <1>1, <1>3, <1>4 DEF conditional

LEMMA SequentialMoves ==
    ASSUME Busily, NEW t \in Threads, sequential(t), Keep
    PROVE  Moved
<1>1. ASSUME AtOp(t, "start", "sequential"), Set(t, Call(thread[t], "second", cmd1(t))) PROVE Moved
    <2>1. At(t, "start") /\ Top(t).cmd[1] = "sequential"
        BY <1>1 DEF AtOp
    <2> QED BY <1>1, <2>1, Entering1 DEF cmd1
<1>2. ASSUME AtOp(t, "second", "sequential"), Set(t, Call(thread[t], "unset", cmd2(t))) PROVE Moved
    <2>1. At(t, "second") /\ Top(t).cmd[1] = "sequential"
        BY <1>2 DEF AtOp
    <2> QED BY <1>2, <2>1, Entering1 DEF cmd2
<1>3. ASSUME At(t, "unset"), NEW ret, Set(t, Return(thread[t], ret)) PROVE Moved
    <2>1. IsFrame(line, Top(t)) /\ Top(t).pc = "unset" /\ IsLine(line)
        BY <1>3, Guarded DEF In, Busily
    <2>2. Top(t).cmd[1] = "sequential"
        BY <2>1, PcKinds, Zenon
    <2>3. ~ Forked(Top(t)) /\ Top(t).cmd[1] # "none"
        BY <2>2 DEF Forked
    <2> QED BY <1>3, <2>3, Returning
<1> QED BY <1>1, <1>2, <1>3 DEF sequential

LEMMA PipeMoves ==
    ASSUME Busily, NEW t \in Threads, pipe(t), Keep
    PROVE  Moved
<1>1. PICK ret : Set(t, Return(thread[t], ret))
    BY DEF pipe
<1>2. At(t, "start") /\ Top(t).cmd[1] = "pipe"
    BY DEF pipe, AtOp
<1>3. ~ Forked(Top(t)) /\ Top(t).cmd[1] # "none"
    BY <1>2 DEF Forked
<1> QED BY <1>1, <1>2, <1>3, Returning

LEMMA ThreadEnds ==
    ASSUME Busily, NEW t \in Threads, thread_func(t), Keep
    PROVE  Moved
<1>1. PICK l, th, fs, progs, th2 : l = line /\ th = thread /\ fs = files /\ progs = running /\ th2 = thread'
    OBVIOUS
<1>2. PICK r : r = th[t]
    OBVIOUS
<1>3. t # main /\ r.st = "run" /\ r.stack = <<>> /\ th2 = [th EXCEPT ![t] = [r EXCEPT !.st = "ended"]]
    BY <1>1, <1>2 DEF thread_func, Set
<1>4. IsLine(l) /\ ExecInv(l, th, fs, progs)
    BY <1>1 DEF Busily
<1>5. r = ThreadOf(r.st, r.stack, r.val)
    BY <1>2, <1>4, FramesOf DEF ExecInv
<1>6. [r EXCEPT !.st = "ended"] = ThreadOf("ended", <<>>, r.val)
    BY <1>3, <1>5 DEF ThreadOf
<1>7. EndMoves(th, t, th2)
    BY <1>2, <1>3, <1>6 DEF EndMoves
<1>8. ExecInv(l, th2, fs, progs)
    BY ONLY <1>4, <1>7, EndKeeps
<1> QED BY <1>1, <1>8 DEF Keep, Moved

-----------------------------------------------------------------------------
(* A parallel command begins a thread, or takes back the two it awaits.     *)

LEMMA ForkStep ==
    ASSUME NEW l, IsLine(l), NEW th, NEW fs, NEW progs, ExecInv(l, th, fs, progs),
           NEW t, NEW f, In(l, th, t, f), f.cmd[1] = "parallel", NEW pc, NEW c,
           (f.pc = "start" /\ pc = "second thread" /\ c = f.cmd[2]) \/ (f.pc = "second thread" /\ pc = "wait" /\ c = f.cmd[3]),
           NEW new \in Threads \ {main}, th[new].st = "none", NEW th2,
           th2 = [th EXCEPT
                    ![t] = [Goto(th[t], pc) EXCEPT !.stack[1].thread_arr = Append(@, new)],
                    ![new] = [NoThread EXCEPT !.st = "run", !.stack = <<Frame(c)>>]]
    PROVE  ExecInv(l, th2, fs, progs)
<1>1. PICK r, g, arr, r0, s0 :
        /\ r = th[t] /\ arr = Append(f.thread_arr, new) /\ s0 = <<Frame(c)>>
        /\ g = FrameOf(f.cmd, pc, arr, f.opened, f.word)
        /\ r0 = [NoThread EXCEPT !.st = "run", !.stack = <<Frame(c)>>]
    BY Zenon
<1>2. Calls(r, f) /\ IsFrame(l, f) /\ t \in Threads /\ r.st = "run"
    <2>1. ThreadsInv(l, th) /\ th[t].stack # <<>> /\ t \in Threads
        BY Zenon DEF In, ExecInv
    <2> QED BY <1>1, <2>1, FramesOf, Zenon DEF In
<1>3. [Goto(r, pc) EXCEPT !.stack[1].thread_arr = Append(@, new)] = ThreadOf(r.st, OnTop(r.stack, g), r.val)
    <2>1. g = FrameOf(f.cmd, pc, Append(f.thread_arr, new), f.opened, f.word)
        BY <1>1, Zenon
    <2> QED BY ONLY <1>2, <2>1, Forks
<1>4. r0 = ThreadOf("run", <<Frame(c)>>, 0)
    <2>1. r0 = [NoThread EXCEPT !.st = "run", !.stack = s0]
        BY <1>1, Zenon
    <2>2. r0 = ThreadOf("run", s0, 0)
        BY ONLY <2>1 DEF NoThread, ThreadOf
    <2> QED BY <1>1, <2>2, Zenon
<1>5. /\ g.cmd = f.cmd /\ g.pc = pc /\ g.thread_arr = arr
      /\ g = FrameOf(g.cmd, g.pc, g.thread_arr, g.opened, g.word)
    <2>1. g = FrameOf(f.cmd, pc, arr, f.opened, f.word)
        BY <1>1, Zenon
    <2>2. /\ g.cmd = f.cmd /\ g.pc = pc /\ g.thread_arr = arr
          /\ g.opened = f.opened /\ g.word = f.word
        BY ONLY <2>1, FieldsOf
    <2> QED BY <2>1, <2>2, Zenon
<1>6. IsFrame(l, g)
    <2>1. pc \in Pcs[f.cmd[1]]
        BY PlacesOf, Zenon
    <2>2. f.thread_arr \in Seq(Threads \ {main})
        BY <1>2, Zenon DEF IsFrame
    <2>3. arr \in Seq(Threads \ {main})
        <3>1. PICK S, a0 : S = Threads \ {main} /\ a0 = f.thread_arr
            BY Zenon
        <3>2. a0 \in Seq(S) /\ new \in S /\ arr = Append(a0, new)
            BY <1>1, <2>2, <3>1, Zenon
        <3>3. arr \in Seq(S)
            BY ONLY <3>2
        <3> QED BY <3>1, <3>3, Zenon
    <2>4. Forked(g)
        BY <1>5, Zenon DEF Forked
    <2> QED BY <1>2, <1>5, <2>1, <2>3, <2>4, Zenon DEF IsFrame
<1>7. Forking(l, f, g, c)
    BY <1>2, <1>5, <1>6, Zenon DEF Forking
<1>8. new # t
    <2>1. r.st = "run" /\ "run" # "none"
        BY <1>2, Zenon
    <2> QED BY <1>1, <2>1, Zenon
<1>9. th2 = [th EXCEPT ![t] = ThreadOf("run", OnTop(th[t].stack, g), r.val),
                       ![new] = ThreadOf("run", <<Frame(c)>>, 0)]
    <2>1. PICK g1, r2 : g1 = Goto(r, pc) /\ r2 = [g1 EXCEPT !.stack[1].thread_arr = Append(@, new)]
        BY Zenon
    <2>2. th2 = [th EXCEPT ![t] = r2, ![new] = r0]
        <3>1. g1 = Goto(th[t], pc)
            BY <1>1, <2>1, Zenon
        <3>3. th2 = [th EXCEPT
                    ![t] = [g1 EXCEPT !.stack[1].thread_arr = Append(@, new)],
                    ![new] = r0]
            BY <1>1, <3>1, Zenon
        <3> QED BY ONLY <2>1, <3>3
    <2>3. r2 = ThreadOf("run", OnTop(th[t].stack, g), r.val)
        BY <1>1, <1>2, <1>3, <2>1, Zenon
    <2> QED BY <1>4, <2>2, <2>3, Zenon
<1>10. ForkMoves(l, th, t, g, c, new, r.val, th2)
    BY <1>1, <1>2, <1>5, <1>7, <1>9, Zenon DEF ForkMoves, In
<1> QED BY ONLY IsLine(l), ExecInv(l, th, fs, progs), <1>10, ForkKeeps

LEMMA ReapStep ==
    ASSUME NEW l, IsLine(l), NEW th, NEW fs, NEW progs, ExecInv(l, th, fs, progs),
           NEW t, NEW f, In(l, th, t, f), f.cmd[1] = "parallel", f.pc = "wait",
           \A k \in Range(f.thread_arr) : th[k].st = "ended", NEW v, NEW th2,
           th2 = [k \in Threads |->
                    IF k = t THEN Return(th[t], v)
                    ELSE IF k \in Range(f.thread_arr) THEN NoThread ELSE th[k]]
    PROVE  ExecInv(l, th2, fs, progs)
<1>1. PICK r : r = th[t]
    OBVIOUS
<1>2. Calls(r, f) /\ t \in Threads /\ r.st = "run" /\ f = th[t].stack[1]
    <2>1. ThreadsInv(l, th) /\ th[t].stack # <<>> /\ t \in Threads
        BY DEF In, ExecInv
    <2> QED BY <1>1, <2>1, FramesOf DEF In
<1>3. r = ThreadOf(r.st, r.stack, r.val)
    BY <1>2 DEF Calls
<1>4. Return(r, v) = ThreadOf(r.st, Tail(r.stack), v)
    BY ONLY <1>3, Returns
<1>5. Return(th[t], v) = ThreadOf("run", Tail(th[t].stack), v)
    BY <1>1, <1>2, <1>4
<1>6. Forked(f)
    BY DEF Forked
<1>7. ReapMoves(l, th, t, v, th2)
    BY <1>2, <1>5, <1>6 DEF ReapMoves, In
<1> QED BY ONLY IsLine(l), ExecInv(l, th, fs, progs), <1>7, ReapKeeps

LEMMA ParallelMoves ==
    ASSUME Busily, NEW t \in Threads, do_in_parallel(t), Keep
    PROVE  Moved
<1>1. PICK l, th, fs, progs, th2, f : /\ l = line /\ th = thread /\ fs = files /\ progs = running
                                      /\ th2 = thread' /\ f = Top(t)
    OBVIOUS
<1>2. IsLine(l) /\ ExecInv(l, th, fs, progs)
    BY <1>1 DEF Busily
<1>3. SUFFICES ExecInv(l, th2, fs, progs)
    BY <1>1 DEF Keep, Moved
<1>4. CASE /\ \/ AtOp(t, "start", "parallel") \/ At(t, "second thread")
           /\ FreeThreads # {}
           /\ \E new \in {Min(FreeThreads)} :
                LET first == Top(t).pc = "start"
                    c == IF first THEN cmd1(t) ELSE cmd2(t) IN
                thread' = [thread EXCEPT
                    ![t] = [Goto(thread[t], IF first THEN "second thread" ELSE "wait") EXCEPT
                                !.stack[1].thread_arr = Append(@, new)],
                    ![new] = [NoThread EXCEPT !.st = "run", !.stack = <<Frame(c)>>]]
    <2>1. In(l, th, t, f) /\ f.cmd[1] = "parallel" /\ f.pc \in {"start", "second thread"}
        <3>1. CASE AtOp(t, "start", "parallel")
            <4>1. At(t, "start") /\ f.cmd[1] = "parallel"
                BY <1>1, <3>1 DEF AtOp
            <4> QED BY <1>1, <4>1, Guarded, Zenon
        <3>2. CASE At(t, "second thread")
            <4>1. In(l, th, t, f) /\ f.pc = "second thread"
                BY <1>1, <3>2, Guarded, Zenon
            <4> QED BY <1>2, <4>1, PcKinds, Zenon DEF In
        <3> QED BY <1>4, <3>1, <3>2, Zenon
    <2>2. PICK new : new = Min(FreeThreads)
        OBVIOUS
    <2>3. new \in Threads \ {main} /\ th[new].st = "none"
        <3>1. FreeThreads \in SUBSET Nat /\ FreeThreads # {}
            BY <1>4, WinAssumption, Zenon DEF FreeThreads
        <3>2. \E m \in FreeThreads : \A k \in FreeThreads : m <= k
            BY <3>1, LeastNatural
        <3>3. Min(FreeThreads) \in FreeThreads
            BY <3>2 DEF Min
        <3> QED BY <1>1, <2>2, <3>3 DEF FreeThreads
    <2>4. PICK pc, c : /\ pc = IF f.pc = "start" THEN "second thread" ELSE "wait"
                       /\ c = IF f.pc = "start" THEN f.cmd[2] ELSE f.cmd[3]
        BY Zenon
    <2>5. th2 = [th EXCEPT
                    ![t] = [Goto(th[t], pc) EXCEPT !.stack[1].thread_arr = Append(@, new)],
                    ![new] = [NoThread EXCEPT !.st = "run", !.stack = <<Frame(c)>>]]
        BY <1>1, <1>4, <2>2, <2>4, Zenon DEF cmd1, cmd2
    <2>6. (f.pc = "start" /\ pc = "second thread" /\ c = f.cmd[2]) \/ (f.pc = "second thread" /\ pc = "wait" /\ c = f.cmd[3])
        BY <2>1, <2>4, Zenon
    <2>7. f.cmd[1] = "parallel" /\ In(l, th, t, f)
        BY <2>1, Zenon
    <2> QED BY ONLY <1>2, <2>3, <2>5, <2>6, <2>7, ForkStep, Zenon
<1>5. CASE /\ AtOp(t, "wait", "parallel")
           /\ \A k \in Range(Top(t).thread_arr) : thread[k].st = "ended"
           /\ thread' = [k \in Threads |->
                    IF k = t THEN Return(thread[t], thread[Top(t).thread_arr[2]].val)
                    ELSE IF k \in Range(Top(t).thread_arr) THEN NoThread
                    ELSE thread[k]]
    <2>1. In(l, th, t, f) /\ f.cmd[1] = "parallel" /\ f.pc = "wait"
        <3>1. At(t, "wait") /\ f.cmd[1] = "parallel"
            BY <1>1, <1>5 DEF AtOp
        <3> QED BY <1>1, <3>1, Guarded
    <2>2. PICK v : v = th[f.thread_arr[2]].val
        OBVIOUS
    <2>3. \A k \in Range(f.thread_arr) : th[k].st = "ended"
        BY <1>1, <1>5
    <2>4. th2 = [k \in Threads |->
                    IF k = t THEN Return(th[t], v)
                    ELSE IF k \in Range(f.thread_arr) THEN NoThread ELSE th[k]]
        BY <1>1, <1>5, <2>2
    <2> QED BY ONLY <1>2, <2>1, <2>3, <2>4, ReapStep
<1> QED BY <1>4, <1>5, Zenon DEF do_in_parallel

-----------------------------------------------------------------------------
(* The steps of a simple command. *)

LEMMA FirstStep ==
    ASSUME NEW l \in Lines, l \notin Refused, NEW th, NEW fs, NEW progs, ExecInv(l, th, fs, progs),
           NEW t, NEW f, In(l, th, t, f), f.cmd[1] = "none", f.pc = "start", NEW th2,
           th2 = [th EXCEPT ![t] = [Goto(th[t], "redirect") EXCEPT
                                        !.stack[1].word = Words[l.cmds[f.cmd[2]].red].list]]
    PROVE  ExecInv(l, th2, fs, progs)
<1>1. PICK r, i, W, g : /\ r = th[t] /\ i = f.cmd[2] /\ W = Words[l.cmds[i].red]
                        /\ g = FrameOf(f.cmd, "redirect", f.thread_arr, f.opened, W.list)
    OBVIOUS
<1>2. IsLine(l)
    BY WinAssumption
<1>3. Calls(r, f) /\ f = th[t].stack[1] /\ t \in Threads
    BY <1>1, Zenon DEF In
<1>4. [Goto(r, "redirect") EXCEPT !.stack[1].word = W.list] = ThreadOf(r.st, OnTop(r.stack, g), r.val)
    <2>1. PICK w, pc : w = W.list /\ pc = "redirect"
        OBVIOUS
    <2>2. g = FrameOf(f.cmd, pc, f.thread_arr, f.opened, w)
        BY <1>1, <2>1, Zenon
    <2>3. [Goto(r, pc) EXCEPT !.stack[1].word = w] = ThreadOf(r.st, OnTop(r.stack, g), r.val)
        BY ONLY <1>3, <2>2, Starts
    <2> QED BY <2>1, <2>3
<1>5. th2 = [th EXCEPT ![t] = ThreadOf(th[t].st, OnTop(th[t].stack, g), r.val)]
    BY <1>1, <1>4, Zenon
<1>6. SimpleMoves(l, th, t, g, r.val, th2) /\ NextIs(l, f, "redirect", f.opened, W.list, g)
    <2>1. f.cmd[1] = "none" /\ In(l, th, t, f) /\ "redirect" \in {"redirect", "redirect_err", "wait", "close"}
        OBVIOUS
    <2>2. g = FrameOf(f.cmd, "redirect", f.thread_arr, f.opened, W.list)
        BY <1>1
    <2> QED BY ONLY <1>2, <1>5, <2>1, <2>2, SimpleStep
<1>7. RedWords(l.cmds[i].red, W)
    <2>1. ThreadsInv(l, th) /\ InSimple(th[t], i)
        BY <1>1, <1>3, Zenon DEF ExecInv, InSimple, In
    <2>2. i \in DOMAIN l.cmds
        BY <1>2, <1>3, <2>1, OneCommand, Zenon
    <2> QED BY <1>1, <2>2, LineWords, Zenon
<1>8. RedWords(l.cmds[th[t].stack[1].cmd[2]].red, W) /\ th[t].stack[1].pc = "start"
    BY <1>1, <1>3, <1>7, Zenon
<1>9. g.pc = "redirect" /\ g.word = W.list
    BY <1>6 DEF NextIs
<1> QED BY ONLY <1>2, ExecInv(l, th, fs, progs), <1>6, <1>8, <1>9, FirstKeeps, Zenon

LEMMA OpenStep ==
    ASSUME NEW l, IsLine(l), NEW th, NEW fs, NEW progs, ExecInv(l, th, fs, progs),
           NEW t, NEW f, In(l, th, t, f), Redirecting(f), NEW red, red = l.cmds[f.cmd[2]].red,
           NEW W, RedWords(red, W), NEW a, NEW access, NEW share, NEW popped, NEW pc,
           WordStep(red, W, f.word, f.pc, a, access, share, Popped(f.word, W.next, popped), pc),
           NEW th2, NEW next, next = W.next,
           th2 = [th EXCEPT ![t] = Opened(th[t], pc, next, popped)],
           NEW fs2, fs2 = fs \cup {[h |-> <<f.cmd[2], f.opened + 1>>, name |-> red[a][2],
                                    access |-> access, share |-> share, of |-> 0]}
    PROVE  ExecInv(l, th2, fs2, progs)
<1>1. PICK r, w2, g : /\ r = th[t] /\ w2 = Popped(f.word, next, popped)
                      /\ g = FrameOf(f.cmd, pc, f.thread_arr, f.opened + 1, w2)
    OBVIOUS
<1>2. Calls(r, f) /\ f = th[t].stack[1] /\ t \in Threads /\ th[t].stack # <<>> /\ f.cmd[1] = "none"
    BY <1>1, Zenon DEF In, Redirecting
<1>3. PICK r2 : r2 = Opened(r, pc, next, popped)
    OBVIOUS
<1>4. r2 = ThreadOf(r.st, OnTop(r.stack, g), r.val)
    <2>1. g = FrameOf(f.cmd, pc, f.thread_arr, f.opened + 1, Popped(f.word, next, popped))
        BY <1>1, SMTT(30)
    <2> QED BY ONLY <1>2, <1>3, <2>1, Opens
<1>5. th2 = [th EXCEPT ![t] = ThreadOf(th[t].st, OnTop(th[t].stack, g), r.val)]
    <2>1. th2 = [th EXCEPT ![t] = r2]
        BY <1>1, <1>3
    <2> QED BY <1>1, <1>4, <2>1
<1>6. pc \in {"redirect", "redirect_err"}
    BY DEF WordStep
<1>7. SimpleMoves(l, th, t, g, r.val, th2) /\ NextIs(l, f, pc, f.opened + 1, w2, g)
    <2>1. In(l, th, t, f) /\ pc \in {"redirect", "redirect_err", "wait", "close"}
        BY <1>6
    <2>2. g = FrameOf(f.cmd, pc, f.thread_arr, f.opened + 1, w2) /\ f.cmd[1] = "none"
        BY <1>1, <1>2, Zenon
    <2> QED BY ONLY IsLine(l), <1>5, <2>1, <2>2, SimpleStep
<1>8. g.word = w2 /\ g.pc = pc /\ g.cmd = f.cmd
    BY <1>7 DEF NextIs
<1>9. WordStep(red, W, f.word, f.pc, a, access, share, g.word, g.pc)
    BY <1>1, <1>8
<1>10. Opening(l, th, t, W, a, access, share, g.word, g.pc)
    BY <1>2, <1>9, Zenon DEF Opening
<1>11. PICK o : o = [h |-> <<f.cmd[2], f.opened + 1>>, name |-> red[a][2],
                     access |-> access, share |-> share, of |-> 0]
    OBVIOUS
<1>12. /\ IsFile(o) /\ o.of = 0 /\ o.h[1] = f.cmd[2] /\ o.name = red[a][2]
       /\ o.access = access /\ o.share = share
    <2>1. PICK h, name : h = <<f.cmd[2], f.opened + 1>> /\ name = red[a][2]
        OBVIOUS
    <2>2. o = [h |-> h, name |-> name, access |-> access, share |-> share, of |-> 0]
        BY <1>11, <2>1
    <2>3. /\ o.h = h /\ o.name = name /\ o.access = access /\ o.share = share /\ o.of = 0
          /\ o = [h |-> o.h, name |-> o.name, access |-> o.access, share |-> o.share, of |-> o.of]
        BY ONLY <2>2
    <2>4. IsFile(o)
        BY ONLY <2>3 DEF IsFile
    <2>5. h[1] = f.cmd[2]
        BY <2>1
    <2> QED BY <2>1, <2>3, <2>4, <2>5
<1>13. OpensFile(l, th, t, W, a, access, share, g, r.val, th2, fs, fs2)
    <2>1. fs2 = fs \cup {o}
        BY <1>11
    <2>2. /\ IsFile(o) /\ o.of = 0 /\ o.h[1] = g.cmd[2]
          /\ o.name = l.cmds[g.cmd[2]].red[a][2] /\ o.access = access /\ o.share = share
        BY <1>8, <1>12
    <2> QED BY <1>7, <1>10, <2>1, <2>2, Zenon DEF OpensFile
<1> QED BY ONLY IsLine(l), ExecInv(l, th, fs, progs), <1>13, OpenKeeps

(* To the wait for a program, or to the loop that closes the files.         *)
LEMMA GoStep ==
    ASSUME NEW l, IsLine(l), NEW th, NEW fs, NEW progs, ExecInv(l, th, fs, progs),
           NEW t, NEW f, In(l, th, t, f), f.cmd[1] = "none", NEW pc \in {"wait", "close"}, NEW v,
           NEW th2, \/ th2 = [th EXCEPT ![t] = [Goto(th[t], pc) EXCEPT !.val = v]]
                    \/ th2 = [th EXCEPT ![t] = Goto(th[t], pc)],
           NEW fs2, NEW progs2, FilesGrow(f.cmd[2], f.pc, pc, fs, progs, fs2, progs2), NoNewOpen(fs2, fs)
    PROVE  ExecInv(l, th2, fs2, progs2)
<1>1. PICK r, g : r = th[t] /\ g = FrameOf(f.cmd, pc, f.thread_arr, f.opened, f.word)
    OBVIOUS
<1>2. Calls(r, f) /\ f = th[t].stack[1] /\ t \in Threads
    BY <1>1 DEF In
<1>3. [Goto(r, pc) EXCEPT !.val = v] = ThreadOf(r.st, OnTop(r.stack, g), v)
    BY ONLY <1>1, <1>2, GoesWith
<1>4. Goto(r, pc) = ThreadOf(r.st, OnTop(r.stack, g), r.val)
    BY ONLY <1>1, <1>2, GoesTo
<1>5. PICK v2 : th2 = [th EXCEPT ![t] = ThreadOf(th[t].st, OnTop(th[t].stack, g), v2)]
    <2>1. CASE th2 = [th EXCEPT ![t] = [Goto(th[t], pc) EXCEPT !.val = v]]
        BY <1>1, <1>3, <2>1
    <2>2. CASE th2 = [th EXCEPT ![t] = Goto(th[t], pc)]
        BY <1>1, <1>4, <2>2
    <2> QED BY <2>1, <2>2
<1>6. SimpleMoves(l, th, t, g, v2, th2) /\ NextIs(l, f, pc, f.opened, f.word, g)
    <2>1. In(l, th, t, f) /\ pc \in {"redirect", "redirect_err", "wait", "close"} /\ f.cmd[1] = "none"
        OBVIOUS
    <2>2. g = FrameOf(f.cmd, pc, f.thread_arr, f.opened, f.word)
        BY <1>1
    <2> QED BY ONLY IsLine(l), <1>5, <2>1, <2>2, SimpleStep
<1>7. ~ Redirecting(g) /\ g.pc = pc
    BY <1>6 DEF NextIs, Redirecting
<1>8. FilesGrow(th[t].stack[1].cmd[2], th[t].stack[1].pc, g.pc, fs, progs, fs2, progs2)
    BY <1>2, <1>7
<1>9. ~ Redirecting(g)
    BY <1>7
<1>10. SimpleMoves(l, th, t, g, v2, th2)
    BY <1>6
<1> QED BY ONLY IsLine(l), ExecInv(l, th, fs, progs), NoNewOpen(fs2, fs), <1>8, <1>9, <1>10, SimpleKeeps

LEMMA ExcusedIs == ExcusedIn(line) => Excused
BY DEF Excused, ExcusedIn, ClashInParallel, ClashIn, Parallel, ParallelIn, Joined, JoinedIn, RedOf

(* The command a thread is in, with the words of its redirections.          *)
LEMMA InCommand ==
    ASSUME Busily, NEW t \in Threads, NEW pc, At(t, pc), Top(t).cmd[1] = "none"
    PROVE  /\ In(line, thread, t, Top(t)) /\ Top(t).pc = pc /\ Command(t) \in DOMAIN line.cmds
           /\ Command(t) # 0 /\ RedWords(Red(t), Words[Red(t)])
<1>1. In(line, thread, t, Top(t)) /\ Top(t).pc = pc
    BY Guarded
<1>2. PICK i : i = Command(t)
    OBVIOUS
<1>3. InSimple(thread[t], i)
    BY <1>1, <1>2 DEF In, InSimple, Command
<1>4. IsLine(line) /\ ThreadsInv(line, thread) /\ line \in Lines /\ line \notin Refused
    BY DEF Busily, ExecInv, Executing
<1>5. i \in DOMAIN line.cmds
    BY <1>3, <1>4, OneCommand
<1>6. i # 0
    <2>1. PICK c : c = Top(t).cmd
        OBVIOUS
    <2>2. IsTree(line, c) /\ c[1] = "none" /\ c[2] = i
        BY <1>1, <1>2, <2>1 DEF In, IsFrame, Command
    <2>3. i \in Span(line, c) /\ \A j \in Span(line, c) : j \in 1 .. Len(line.cmds)
        BY <1>4, <2>2, SpanFacts
    <2>4. i \in 1 .. Len(line.cmds) /\ Len(line.cmds) \in Nat
        BY <1>4, <2>3, LineFacts
    <2> QED BY <2>4
<1>7. RedWords(line.cmds[i].red, Words[line.cmds[i].red])
    BY <1>4, <1>5, LineWords
<1> QED BY <1>1, <1>2, <1>5, <1>6, <1>7 DEF Red

LEMMA MyCreateMoves ==
    ASSUME Busily, NEW t \in Threads, NEW pc0 \in {"redirect", "redirect_err"}, At(t, pc0),
           NEW k, NEW access, NEW share, NEW popped, NEW pc,
           WordStep(Red(t), Words[Red(t)], Top(t).word, pc0, Word(t, k), access, share,
                    Popped(Top(t).word, Words[Red(t)].next, popped), pc),
           MyCreateFile(t, k, access, share, popped, pc)
    PROVE  Moved \/ (DIE /\ Excused)
<1>1. PICK l, th, fs, progs, f, th2, fs2, red, W, a, next :
        /\ l = line /\ th = thread /\ fs = files /\ progs = running /\ f = Top(t) /\ th2 = thread' /\ fs2 = files'
        /\ red = Red(t) /\ W = Words[Red(t)] /\ a = Word(t, k) /\ next = Words[Red(t)].next
    OBVIOUS
<1>2. IsLine(l) /\ ExecInv(l, th, fs, progs)
    BY <1>1 DEF Busily
<1>3. Top(t).cmd[1] = "none"
    <2>1. IsFrame(line, Top(t)) /\ Top(t).pc = pc0 /\ IsLine(line)
        BY Guarded DEF In, Busily
    <2> QED BY <2>1, PcKinds, Zenon
<1>4. /\ In(l, th, t, f) /\ f.pc = pc0 /\ RedWords(red, W) /\ Redirecting(f)
      /\ red = l.cmds[f.cmd[2]].red /\ next = W.next
    <2>1. In(line, thread, t, Top(t)) /\ Top(t).pc = pc0 /\ RedWords(Red(t), Words[Red(t)])
        BY <1>3, InCommand
    <2>2. red = l.cmds[f.cmd[2]].red /\ next = W.next
        BY <1>1, Zenon DEF Red, Command
    <2> QED BY <1>1, <1>3, <2>1, <2>2, Zenon DEF Redirecting
<1>5. WordStep(red, W, f.word, f.pc, a, access, share, Popped(f.word, W.next, popped), pc)
    BY <1>1, <1>4, Zenon
<1>6. Name(t, k) = red[a][2]
    BY <1>1 DEF Name
<1>7. CASE Missing(Name(t, k), access) \/ Refuses(Name(t, k), access, share)
    <2>1. DIE
        BY <1>7, Zenon DEF MyCreateFile
    <2>2. Fails(red, a, access, share, fs)
        BY <1>1, <1>6, <1>7 DEF Missing, Refuses, Fails
    <2>3. PICK w2 : w2 = Popped(f.word, W.next, popped)
        OBVIOUS
    <2>4. Opening(l, th, t, W, a, access, share, w2, pc)
        <3>1. f = th[t].stack[1] /\ t \in Threads /\ th[t].stack # <<>>
            BY <1>4, Zenon DEF In
        <3> QED BY <1>4, <1>5, <2>3, <3>1, Zenon DEF Opening
    <2>5. Fails(l.cmds[th[t].stack[1].cmd[2]].red, a, access, share, fs)
        BY <1>4, <2>2, Zenon DEF In
    <2>6. ExcusedIn(l)
        BY ONLY <1>2, <2>4, <2>5, OpenFails, Zenon
    <2> QED BY <1>1, <2>1, <2>6, ExcusedIs
<1>8. CASE ~ (Missing(Name(t, k), access) \/ Refuses(Name(t, k), access, share))
    <2>1. /\ files' = files \cup
                {[h |-> <<Command(t), Top(t).opened + 1>>, name |-> Name(t, k),
                  access |-> access, share |-> share, of |-> 0]}
          /\ Set(t, [Goto(thread[t], pc) EXCEPT
                        !.stack[1].opened = @ + 1,
                        !.stack[1].word = [j \in 0 .. 2 |->
                            IF j \in popped THEN Words[Red(t)].next[@[j]] ELSE @[j]]])
          /\ UNCHANGED <<line, running, over>>
        BY <1>8, Zenon DEF MyCreateFile
    <2>2. th2 = [th EXCEPT ![t] = Opened(th[t], pc, next, popped)]
        BY <1>1, <2>1, Zenon DEF Set, Opened
    <2>3. fs2 = fs \cup {[h |-> <<f.cmd[2], f.opened + 1>>, name |-> red[a][2],
                          access |-> access, share |-> share, of |-> 0]}
        BY <1>1, <1>6, <2>1, Zenon DEF Command
    <2>4. ExecInv(l, th2, fs2, progs)
        BY ONLY <1>2, <1>4, <1>5, <2>2, <2>3, OpenStep, Zenon
    <2> QED BY <1>1, <2>1, <2>4, Zenon DEF Moved
<1> QED BY <1>7, <1>8

LEMMA RedirectionMoves ==
    ASSUME Busily, NEW t \in Threads, redirections(t)
    PROVE  Moved \/ (DIE /\ Excused)
<1>1. PICK red, W, w : red = Red(t) /\ W = Words[Red(t)] /\ w = Top(t).word
    OBVIOUS
<1>2. Word(t, 0) = w[0] /\ Word(t, 1) = w[1] /\ Word(t, 2) = w[2]
    BY <1>1 DEF Word
<1>3. Both(t) <=> SameName(red, w)
    BY <1>1, <1>2 DEF Both, SameName, Name
<1>4. ASSUME NEW pc0 \in {"redirect", "redirect_err"}, At(t, pc0)
      PROVE  AppendsOut(t) <=> AppendsOutOnly(red)
    <2>1. IsFrame(line, Top(t)) /\ Top(t).pc = pc0 /\ IsLine(line)
        BY <1>4, Guarded DEF In, Busily
    <2>2. Top(t).cmd[1] = "none"
        BY <1>4, <2>1, PcKinds, Zenon
    <2>3. RedWords(red, W)
        BY <1>1, <1>4, <2>2, InCommand
    <2> QED BY <1>1, <2>3, AppendsIs DEF AppendsOut
<1>5. ASSUME At(t, "redirect"), Word(t, 0) # 0, MyCreateFile(t, 0, "read", "read", {0}, "redirect")
      PROVE  Moved \/ (DIE /\ Excused)
    <2>1. WordStep(red, W, w, "redirect", Word(t, 0), "read", "read", Popped(w, W.next, {0}), "redirect")
        BY <1>2, <1>5 DEF WordStep
    <2> QED BY <1>1, <1>5, <2>1, MyCreateMoves
<1>6. ASSUME At(t, "redirect"), Both(t), MyCreateFile(t, 1, "write", "write", {}, "redirect_err")
      PROVE  Moved \/ (DIE /\ Excused)
    <2>1. WordStep(red, W, w, "redirect", Word(t, 1), "write", "write", Popped(w, W.next, {}), "redirect_err")
        BY <1>2, <1>3, <1>6 DEF WordStep
    <2> QED BY <1>1, <1>6, <2>1, MyCreateMoves
<1>7. ASSUME At(t, "redirect"), ~ Both(t), Word(t, 1) # 0,
             MyCreateFile(t, 1, "write", IF AppendsOut(t) THEN "write" ELSE "read", {1}, "redirect")
      PROVE  Moved \/ (DIE /\ Excused)
    <2>1. PICK share : share = IF AppendsOut(t) THEN "write" ELSE "read"
        OBVIOUS
    <2>2. share = IF AppendsOutOnly(red) THEN "write" ELSE "read"
        BY <1>4, <1>7, <2>1
    <2>3. WordStep(red, W, w, "redirect", Word(t, 1), "write", share, Popped(w, W.next, {1}), "redirect")
        BY <1>2, <1>3, <1>7, <2>2 DEF WordStep
    <2>4. MyCreateFile(t, 1, "write", share, {1}, "redirect")
        BY <1>7, <2>1
    <2> QED BY <1>1, <1>7, <2>3, <2>4, MyCreateMoves
<1>8. ASSUME At(t, "redirect"), Word(t, 1) = 0, Word(t, 2) # 0,
             MyCreateFile(t, 2, "write", "write", {2}, "redirect")
      PROVE  Moved \/ (DIE /\ Excused)
    <2>1. WordStep(red, W, w, "redirect", Word(t, 2), "write", "write", Popped(w, W.next, {2}), "redirect")
        BY <1>2, <1>8 DEF WordStep
    <2> QED BY <1>1, <1>8, <2>1, MyCreateMoves
<1>9. ASSUME At(t, "redirect_err"), MyCreateFile(t, 2, "write", "write", {1, 2}, "redirect")
      PROVE  Moved \/ (DIE /\ Excused)
    <2>1. WordStep(red, W, w, "redirect_err", Word(t, 2), "write", "write", Popped(w, W.next, {1, 2}), "redirect")
        BY <1>2 DEF WordStep
    <2> QED BY <1>1, <1>9, <2>1, MyCreateMoves
<1> QED BY <1>5, <1>6, <1>7, <1>8, <1>9 DEF redirections

(* The other steps of a simple command.                                     *)
LEMMA BuiltinMoves ==
    ASSUME Busily, NEW t \in Threads,
           shell_exit(t) \/ SetEnvironmentVariable(t) \/ cd_without_params(t)
    PROVE  Moved
<1>1. PICK v : Set(t, Return(thread[t], v)) /\ Keep /\ AtOp(t, "start", "none")
    BY DEF shell_exit, SetEnvironmentVariable, cd_without_params
<1>2. At(t, "start") /\ Top(t).cmd[1] = "none"
    BY <1>1 DEF AtOp
<1>3. ~ Forked(Top(t))
    BY <1>2 DEF Forked
<1> QED BY <1>1, <1>2, <1>3, Returning

LEMMA FirstMoves ==
    ASSUME Busily, NEW t \in Threads, redirect_first(t)
    PROVE  Moved
<1>1. PICK l, th, fs, progs, f, th2 : /\ l = line /\ th = thread /\ fs = files /\ progs = running
                                      /\ f = Top(t) /\ th2 = thread'
    OBVIOUS
<1>2. At(t, "start") /\ Top(t).cmd[1] = "none"
    BY DEF redirect_first, AtOp
<1>3. In(l, th, t, f) /\ f.pc = "start" /\ f.cmd[1] = "none"
    BY <1>1, <1>2, Guarded
<1>4. ExecInv(l, th, fs, progs) /\ l \in Lines /\ l \notin Refused
    BY <1>1 DEF Busily, Executing
<1>5. th2 = [th EXCEPT ![t] = [Goto(th[t], "redirect") EXCEPT
                                  !.stack[1].word = Words[l.cmds[f.cmd[2]].red].list]]
    BY <1>1 DEF redirect_first, Set, Red, Command
<1>6. ExecInv(l, th2, fs, progs)
    BY ONLY <1>3, <1>4, <1>5, FirstStep
<1> QED BY <1>1, <1>6 DEF redirect_first, Keep, Moved

LEMMA SameFiles ==
    ASSUME NEW i, NEW pc, NEW pc2, NEW fs, NEW progs, pc = "wait" => i \notin progs
    PROVE  FilesGrow(i, pc, pc2, fs, progs, fs, progs) /\ NoNewOpen(fs, fs)
BY DEF FilesGrow, NoNewOpen, SameOpen

LEMMA CdMoves ==
    ASSUME Busily, NEW t \in Threads, shell_cd(t) \/ WaitForSingleObject(t)
    PROVE  Moved
<1>1. PICK l, th, fs, progs, f, th2 : /\ l = line /\ th = thread /\ fs = files /\ progs = running
                                      /\ f = Top(t) /\ th2 = thread'
    OBVIOUS
<1>2. PICK v : Set(t, [Goto(thread[t], "close") EXCEPT !.val = v]) /\ Keep
    BY DEF shell_cd, WaitForSingleObject
<1>3. In(l, th, t, f) /\ f.cmd[1] = "none" /\ (f.pc = "wait" => f.cmd[2] \notin progs)
    <2>1. CASE shell_cd(t)
        <3>1. At(t, "redirect")
            BY <2>1 DEF shell_cd, Redirected
        <3>2. In(line, thread, t, f) /\ f.pc = "redirect" /\ IsLine(line)
            BY <1>1, <3>1, Guarded DEF Busily
        <3>3. f.cmd[1] = "none"
            BY <3>2, PcKinds, Zenon DEF In
        <3> QED BY <1>1, <3>2, <3>3
    <2>2. CASE WaitForSingleObject(t)
        <3>1. At(t, "wait") /\ Top(t).cmd[1] = "none" /\ Command(t) \notin running
            BY <2>2 DEF WaitForSingleObject
        <3>2. In(line, thread, t, f)
            BY <1>1, <3>1, Guarded
        <3> QED BY <1>1, <3>1, <3>2 DEF Command
    <2> QED BY <2>1, <2>2
<1>4. IsLine(l) /\ ExecInv(l, th, fs, progs)
    BY <1>1 DEF Busily
<1>5. th2 = [th EXCEPT ![t] = [Goto(th[t], "close") EXCEPT !.val = v]]
    BY <1>1, <1>2 DEF Set
<1>6. FilesGrow(f.cmd[2], f.pc, "close", fs, progs, fs, progs) /\ NoNewOpen(fs, fs)
    BY <1>3, SameFiles
<1>7. f.cmd[1] = "none" /\ "close" \in {"wait", "close"} /\ In(l, th, t, f)
    BY <1>3
<1>8. ExecInv(l, th2, fs, progs)
    BY ONLY <1>4, <1>5, <1>6, <1>7, GoStep
<1> QED BY <1>1, <1>2, <1>8 DEF Keep, Moved

LEMMA Inherited ==
    ASSUME NEW fs, \A f \in fs : IsFile(f), NEW i, NEW progs, i # 0, NEW fs2, NEW progs2,
           progs2 = progs \cup {i}, NEW pc, pc # "wait",
           fs2 = fs \cup {[f EXCEPT !.of = i] : f \in {g \in fs : g.of = 0}}
    PROVE  FilesGrow(i, pc, "wait", fs, progs, fs2, progs2) /\ NoNewOpen(fs2, fs)
<1>1. ASSUME NEW f \in fs, NEW f2, f2 = [f EXCEPT !.of = i]
      PROVE  IsFile(f2) /\ f2.of = i /\ SameOpen(f2, f)
    <2>1. PICK h, name, access, share, of :
            /\ f = [h |-> h, name |-> name, access |-> access, share |-> share, of |-> of]
            /\ h = f.h /\ name = f.name /\ access = f.access /\ share = f.share
        BY DEF IsFile
    <2>2. f2 = [h |-> h, name |-> name, access |-> access, share |-> share, of |-> i]
        BY ONLY <1>1, <2>1
    <2>3. /\ f2.h = h /\ f2.name = name /\ f2.access = access /\ f2.share = share /\ f2.of = i
          /\ f2 = [h |-> f2.h, name |-> f2.name, access |-> f2.access, share |-> f2.share, of |-> f2.of]
        BY ONLY <2>2
    <2> QED BY <2>1, <2>3 DEF IsFile, SameOpen
<1>2. ASSUME NEW f2 \in fs2
      PROVE  \/ f2 \in fs
             \/ IsFile(f2) /\ f2.of = i /\ f2.of \in progs2 /\ \E f \in fs : SameOpen(f2, f)
    <2>1. CASE f2 \in fs
        BY <2>1
    <2>2. CASE f2 \notin fs
        <3>1. PICK f \in fs : f2 = [f EXCEPT !.of = i]
            BY <2>2
        <3> QED BY <1>1, <3>1
    <2> QED BY <2>1, <2>2
<1>3. \A j \in progs2 : j \in progs \/ j = i
    OBVIOUS
<1>4. progs \subseteq progs2
    OBVIOUS
<1>5. NoNewOpen(fs2, fs)
    BY <1>2 DEF NoNewOpen, SameOpen
<1> QED BY <1>2, <1>3, <1>4, <1>5 DEF FilesGrow, SameOpen

LEMMA ProgramMoves ==
    ASSUME Busily, NEW t \in Threads, CreateProcess(t)
    PROVE  Moved
<1>1. PICK l, th, fs, progs, f, th2, fs2, progs2 :
        /\ l = line /\ th = thread /\ fs = files /\ progs = running /\ f = Top(t)
        /\ th2 = thread' /\ fs2 = files' /\ progs2 = running'
    OBVIOUS
<1>2. At(t, "redirect") /\ UNCHANGED <<line, over>>
    BY DEF CreateProcess, Redirected
<1>3. IsLine(l) /\ ExecInv(l, th, fs, progs)
    BY <1>1 DEF Busily
<1>4. In(l, th, t, f) /\ f.pc = "redirect" /\ f.cmd[1] = "none" /\ f.cmd[2] = Command(t) /\ f.cmd[2] # 0
    <2>1. In(line, thread, t, f) /\ f.pc = "redirect"
        BY <1>1, <1>2, Guarded
    <2>2. f.cmd[1] = "none"
        BY <1>1, <1>3, <2>1, PcKinds, Zenon DEF In
    <2>3. Command(t) # 0
        BY <1>1, <1>2, <2>2, InCommand
    <2> QED BY <1>1, <2>1, <2>2, <2>3 DEF Command
<1>5. SUFFICES ExecInv(l, th2, fs2, progs2)
    BY <1>1, <1>2 DEF Moved
<1>6. f.cmd[1] = "none" /\ In(l, th, t, f)
    BY <1>4
<1>7. CASE Verb(t) = "nope"
    <2>1. PICK v : th2 = [th EXCEPT ![t] = [Goto(th[t], "close") EXCEPT !.val = v]]
        BY <1>1, <1>7 DEF CreateProcess, Set
    <2>2. fs2 = fs /\ progs2 = progs
        BY <1>1, <1>7 DEF CreateProcess
    <2>3. FilesGrow(f.cmd[2], f.pc, "close", fs, progs, fs, progs) /\ NoNewOpen(fs, fs)
        BY <1>4, SameFiles
    <2>4. "close" \in {"wait", "close"}
        OBVIOUS
    <2>5. ExecInv(l, th2, fs, progs)
        BY ONLY <1>3, <1>6, <2>1, <2>3, <2>4, GoStep
    <2> QED BY <2>2, <2>5
<1>8. CASE Verb(t) # "nope"
    <2>1. th2 = [th EXCEPT ![t] = Goto(th[t], "wait")]
        BY <1>1, <1>8 DEF CreateProcess, Set
    <2>2. PICK i : i = f.cmd[2]
        OBVIOUS
    <2>3. /\ progs2 = progs \cup {i} /\ i # 0
          /\ fs2 = fs \cup {[x EXCEPT !.of = i] : x \in {g \in fs : g.of = 0}}
        BY <1>1, <1>4, <1>8, <2>2 DEF CreateProcess
    <2>4. \A x \in fs : IsFile(x)
        BY <1>3 DEF ExecInv, FilesInv
    <2>5. f.pc # "wait"
        BY <1>4
    <2>6. FilesGrow(i, f.pc, "wait", fs, progs, fs2, progs2) /\ NoNewOpen(fs2, fs)
        BY ONLY <2>3, <2>4, <2>5, Inherited
    <2>7. FilesGrow(f.cmd[2], f.pc, "wait", fs, progs, fs2, progs2) /\ "wait" \in {"wait", "close"}
        BY <2>2, <2>6
    <2> QED BY ONLY <1>3, <1>6, <2>1, <2>6, <2>7, GoStep
<1> QED BY <1>7, <1>8

LEMMA CloseMoves ==
    ASSUME Busily, NEW t \in Threads, CloseHandle(t)
    PROVE  Moved
<1>1. PICK l, th, fs, progs, fs2 : l = line /\ th = thread /\ fs = files /\ progs = running /\ fs2 = files'
    OBVIOUS
<1>2. PICK mine : mine = {f \in files : f.of = 0 /\ f.h[1] = Command(t)}
    OBVIOUS
<1>3. At(t, "close") /\ UNCHANGED <<line, running, over>>
    BY DEF CloseHandle
<1>4. CASE mine = {}
    <2>1. Set(t, Return(thread[t], thread[t].val)) /\ UNCHANGED files
        BY <1>2, <1>4 DEF CloseHandle
    <2>2. \A x \in files : x.of = 0 => x.h[1] # Top(t).cmd[2]
        BY <1>2, <1>4 DEF Command
    <2>3. ~ Forked(Top(t))
        <3>1. Top(t).pc = "close"
            BY <1>3 DEF At
        <3> QED BY <3>1 DEF Forked
    <2> QED BY <1>3, <2>1, <2>2, <2>3, Returning DEF Keep
<1>5. CASE mine # {}
    <2>1. fs2 \subseteq fs /\ UNCHANGED thread
        BY <1>1, <1>2, <1>5 DEF CloseHandle
    <2>2. IsLine(l) /\ ExecInv(l, th, fs, progs)
        BY <1>1 DEF Busily
    <2>3. \A f \in fs2 : f.of # 0 => f.of \in progs
        BY <2>1, <2>2 DEF ExecInv, FilesInv
    <2>4. progs \subseteq progs /\ fs2 \subseteq fs
        BY <2>1
    <2>5. ExecInv(l, th, fs2, progs)
        BY ONLY <2>2, <2>3, <2>4, FewerFiles
    <2> QED BY <1>1, <1>3, <2>1, <2>5 DEF Moved
<1> QED BY <1>4, <1>5

LEMMA ProgramEnds ==
    ASSUME Busily, NEW i, program(i)
    PROVE  Moved
<1>1. PICK l, th, fs, progs, fs2, progs2 : /\ l = line /\ th = thread /\ fs = files /\ progs = running
                                           /\ fs2 = files' /\ progs2 = running'
    OBVIOUS
<1>2. progs2 = progs \ {i} /\ fs2 = {f \in fs : f.of # i}
    BY <1>1 DEF program
<1>3. ExecInv(l, th, fs, progs)
    BY <1>1 DEF Busily
<1>4. \A f \in fs2 : f.of # 0 => f.of \in progs2
    BY <1>2, <1>3 DEF ExecInv, FilesInv
<1>5. fs2 \subseteq fs /\ progs2 \subseteq progs
    BY <1>2
<1>6. ExecInv(l, th, fs2, progs2)
    BY ONLY <1>3, <1>4, <1>5, FewerFiles
<1> QED BY <1>1, <1>6 DEF program, Moved

-----------------------------------------------------------------------------
(* From one prompt to the next. *)

LEMMA LineStarts ==
    ASSUME NEW l, IsLine(l), NEW c, IsTree(l, c), NEW th,
           th = [t \in Threads |-> th[t]],
           \A t \in Threads : th[t].st = "none" /\ th[t].stack = <<>> /\ IsThread(l, th[t]),
           NEW r, r = ThreadOf("run", <<Frame(c)>>, 0), NEW th2, th2 = [th EXCEPT ![main] = r]
    PROVE  ExecInv(l, th2, {}, {})
<1>1. main \in Threads
    BY WinAssumption
<1>2. /\ th2 = [t \in Threads |-> th2[t]] /\ th2[main] = r
      /\ \A t \in Threads : t # main => th2[t] = th[t]
    BY <1>1
<1>3. IsThread(l, r) /\ r.st = "run" /\ r.stack # <<>> /\ r.stack[1] = Frame(c)
    BY NewThread
<1>4. Own(l, <<>>) = {}
    BY NoThreadIs
<1>5. \A t \in Threads : IsThread(l, th2[t])
    BY <1>2, <1>3
<1>6. \A k \in Threads \ {main} : th2[k].st = "none" /\ th2[k].stack = <<>>
    BY <1>2
<1>7. \A t, u \in Threads : t # u => Own(l, th2[t].stack) \cap Own(l, th2[u].stack) = {}
    BY <1>4, <1>6
<1>8. ThreadsInv(l, th2)
    BY <1>2, <1>3, <1>5, <1>6, <1>7 DEF ThreadsInv
<1>9. ASSUME NEW t \in Threads, th2[t].stack # <<>> PROVE ~ Redirecting(th2[t].stack[1])
    <2>1. t = main
        BY <1>6, <1>9
    <2>2. th2[t].stack[1] = Frame(c)
        BY <1>2, <1>3, <2>1
    <2>3. Frame(c).pc = "start"
        BY FrameIs
    <2> QED BY <2>2, <2>3 DEF Redirecting
<1>10. FilesInv(l, th2, {}, {}) /\ NodesInv(l, th2, {})
    BY <1>9 DEF FilesInv, NodesInv
<1> QED BY <1>8, <1>10 DEF ExecInv

(* When the first thread has nothing left to do, no other one has, and all  *)
(* files are closed.                                                        *)
LEMMA LineEnds ==
    ASSUME NEW l, IsLine(l), NEW th, NEW fs, NEW progs, ExecInv(l, th, fs, progs), th[main].stack = <<>>
    PROVE  /\ fs = {} /\ progs = {} /\ th = [t \in Threads |-> th[t]]
           /\ \A t \in Threads \ {main} : /\ th[t].st = "none" /\ th[t].stack = <<>>
                                          /\ th[t] = ThreadOf(th[t].st, th[t].stack, th[t].val)
<1>1. ThreadsInv(l, th) /\ FilesInv(l, th, fs, progs)
    BY DEF ExecInv
<1>2. AwaitsNone(th)
    BY DEF AwaitsNone
<1>3. \A k \in Threads \ {main} : th[k].stack = <<>> /\ th[k].st = "none"
    BY <1>1, <1>2, NoOthers
<1>4. Now(l, th[main].stack) = {}
    BY DEF Now
<1>5. fs = {}
    BY <1>1, <1>4, NothingOpen
<1>6. ASSUME NEW i \in progs PROVE FALSE
    <2>1. PICK t \in Threads : Waits(th[t], i)
        BY <1>1 DEF FilesInv
    <2>2. th[t].stack # <<>>
        BY <2>1 DEF Waits, InSimple
    <2> QED BY <1>3, <2>2
<1>7. \A t \in Threads : th[t] = ThreadOf(th[t].st, th[t].stack, th[t].val)
    BY <1>1, FramesOf
<1>8. th = [t \in Threads |-> th[t]]
    BY <1>1 DEF ThreadsInv
<1> QED BY <1>3, <1>5, <1>6, <1>7, <1>8

(* At the prompt. *)
Rests(r) == r = ThreadOf(r.st, r.stack, r.val) /\ r.st = "none" /\ r.stack = <<>>

LEMMA RestsIs ==
    /\ \A r : Rests(r) <=> (/\ r.st = "none" /\ r.stack = <<>>
                            /\ r = [st |-> "none", stack |-> <<>>, val |-> r.val])
    /\ \A l, r : Rests(r) => IsThread(l, r)
    /\ Rests(NoThread)
<1>1. ASSUME NEW r
      PROVE  Rests(r) <=> (/\ r.st = "none" /\ r.stack = <<>>
                           /\ r = [st |-> "none", stack |-> <<>>, val |-> r.val])
    BY DEF Rests, ThreadOf
<1>2. ASSUME NEW l, NEW r, Rests(r) PROVE IsThread(l, r)
    <2>1. Sequence(<<>>) /\ DOMAIN <<>> = {}
        BY NoThreadIs
    <2>2. IsStack(l, <<>>)
        BY <2>1 DEF IsStack
    <2> QED BY <1>2, <2>1, <2>2 DEF Rests, IsThread
<1>3. Rests(NoThread)
    BY DEF Rests, NoThread, ThreadOf
<1> QED BY <1>1, <1>2, <1>3

LEMMA PromptingIs ==
    Prompting <=> /\ files = {} /\ running = {} /\ thread = [t \in Threads |-> thread[t]]
                  /\ \A t \in Threads : Rests(thread[t])
<1>1. \A r : Rests(r) <=> (/\ r.st = "none" /\ r.stack = <<>>
                           /\ r = [st |-> "none", stack |-> <<>>, val |-> r.val])
    BY RestsIs
<1> QED BY <1>1 DEF Prompting

LEMMA LinesAreLines == None \notin Lines /\ None # "DIE" /\ \A l \in Lines : IsLine(l)
BY WinAssumption

LEMMA InitGood == WinInit => WinInv
<1>1. SUFFICES ASSUME WinInit PROVE WinInv
    OBVIOUS
<1>2. thread = [t \in Threads |-> thread[t]] /\ \A t \in Threads : thread[t] = NoThread
    BY <1>1 DEF WinInit
<1>3. \A t \in Threads : Rests(thread[t])
    BY <1>2, RestsIs
<1>4. line = None /\ files = {} /\ running = {} /\ over = None
    BY <1>1 DEF WinInit
<1>5. Prompting
    BY <1>2, <1>3, <1>4, PromptingIs
<1> QED BY <1>4, <1>5, LinesAreLines DEF WinInv

(* A line is read, or is not.                                               *)
LEMMA PromptActions ==
    ASSUME line = None, Prompting, over = None,
           (\E l \in Lines : read_line(l)) \/ end_of_input
    PROVE  WinInv'
<1>1. PICK th, th2 : th = thread /\ th2 = thread'
    OBVIOUS
<1>2. th = [t \in Threads |-> th[t]] /\ (\A t \in Threads : Rests(th[t])) /\ files = {} /\ running = {}
    BY <1>1, PromptingIs
<1>3. ASSUME UNCHANGED <<line, thread, files, running>>, over' # "DIE" PROVE WinInv'
    <2>1. line' = None /\ Prompting'
        BY <1>3 DEF Prompting
    <2> QED BY <1>3, <2>1 DEF WinInv
<1>4. CASE end_of_input
    BY <1>3, <1>4, Zenon DEF end_of_input
<1>5. ASSUME NEW l \in Lines, read_line(l), l \in Refused PROVE WinInv'
    BY <1>3, <1>5, Zenon DEF read_line
<1>6. ASSUME NEW l \in Lines, read_line(l), l \notin Refused PROVE WinInv'
    <2>1. PICK c, r : c = Tree[l] /\ r = ThreadOf("run", <<Frame(c)>>, 0)
        OBVIOUS
    <2>2. IsLine(l) /\ IsTree(l, c)
        BY <2>1, LineTree
    <2>3. th2 = [th EXCEPT ![main] = r]
        <3>1. PICK s, r0 : s = <<Frame(c)>> /\ r0 = [NoThread EXCEPT !.st = "run", !.stack = s]
            BY Zenon
        <3>2. r0 = ThreadOf("run", s, 0)
            BY ONLY <3>1 DEF NoThread, ThreadOf
        <3>3. th2 = [th EXCEPT ![main] = [NoThread EXCEPT !.st = "run", !.stack = <<Frame(c)>>]]
            BY <1>1, <1>6, <2>1, Zenon DEF read_line, Set
        <3>4. th2 = [th EXCEPT ![main] = r0]
            BY ONLY <3>1, <3>3
        <3> QED BY <2>1, <3>1, <3>2, <3>4
    <2>4. \A t \in Threads : th[t].st = "none" /\ th[t].stack = <<>> /\ IsThread(l, th[t])
        BY <1>2, RestsIs DEF Rests
    <2>5. r = ThreadOf("run", <<Frame(c)>>, 0) /\ th = [t \in Threads |-> th[t]]
        BY <1>2, <2>1
    <2>6. ExecInv(l, th2, {}, {})
        BY ONLY <2>2, <2>3, <2>4, <2>5, LineStarts
    <2>7. line' = l /\ thread' = th2 /\ files' = {} /\ running' = {} /\ over' = None
        BY <1>1, <1>2, <1>6, Zenon DEF read_line
    <2>8. Executing'
        BY <1>6, <2>6, <2>7 DEF Executing, ExecInv
    <2> QED BY <2>7, <2>8, LinesAreLines DEF WinInv
<1> QED BY <1>4, <1>5, <1>6

(* The line is done.                                                        *)
LEMMA LineDone ==
    ASSUME Busily, start_shell
    PROVE  WinInv'
<1>1. PICK l, th, fs, progs, th2 : l = line /\ th = thread /\ fs = files /\ progs = running /\ th2 = thread'
    OBVIOUS
<1>2. IsLine(l) /\ ExecInv(l, th, fs, progs) /\ th[main].stack = <<>>
    BY <1>1 DEF Busily, start_shell
<1>3. /\ fs = {} /\ progs = {} /\ th = [t \in Threads |-> th[t]]
      /\ \A t \in Threads \ {main} : /\ th[t].st = "none" /\ th[t].stack = <<>>
                                     /\ th[t] = ThreadOf(th[t].st, th[t].stack, th[t].val)
    BY ONLY <1>2, LineEnds
<1>4. /\ line' = None /\ th2 = [th EXCEPT ![main] = NoThread] /\ files' = {} /\ running' = {}
      /\ over' \in {None, "exit"}
    BY <1>1, <1>3 DEF start_shell, Busily
<1>5. th2 = [t \in Threads |-> th2[t]] /\ \A t \in Threads : Rests(th2[t])
    <2>1. main \in Threads
        BY WinAssumption
    <2> QED BY <1>3, <1>4, <2>1, RestsIs DEF Rests
<1>6. Prompting'
    <2>1. \A r : Rests(r) <=> (/\ r.st = "none" /\ r.stack = <<>>
                               /\ r = [st |-> "none", stack |-> <<>>, val |-> r.val])
        BY RestsIs
    <2> QED BY <1>1, <1>4, <1>5, <2>1 DEF Prompting
<1> QED BY <1>4, <1>6, LinesAreLines DEF WinInv

LEMMA ThreadMoves ==
    ASSUME Busily, NEW t \in Threads, parse_simple(t) \/ parse_command(t)
    PROVE  Moved \/ (DIE /\ Excused)
<1>1. CASE shell_exit(t) \/ SetEnvironmentVariable(t) \/ cd_without_params(t)
    BY <1>1, BuiltinMoves
<1>2. CASE redirect_first(t)
    BY <1>2, FirstMoves
<1>3. CASE redirections(t)
    BY <1>3, RedirectionMoves
<1>4. CASE shell_cd(t) \/ WaitForSingleObject(t)
    BY <1>4, CdMoves
<1>5. CASE CreateProcess(t)
    BY <1>5, ProgramMoves
<1>6. CASE CloseHandle(t)
    BY <1>6, CloseMoves
<1>7. CASE parse_command(t)
    <2>1. Keep /\ (do_in_parallel(t) \/ thread_func(t) \/ conditional(t) \/ sequential(t) \/ pipe(t))
        BY <1>7 DEF parse_command
    <2> QED BY <2>1, ParallelMoves, ThreadEnds, ConditionalMoves, SequentialMoves, PipeMoves
<1> QED BY <1>1, <1>2, <1>3, <1>4, <1>5, <1>6, <1>7 DEF parse_simple

(* Nothing happens once the shell is over, and at the prompt no thread runs.*)
LEMMA StepsOf ==
    ASSUME NEW t \in Threads, parse_simple(t) \/ parse_command(t)
    PROVE  over = None /\ thread[t].st = "run"
<1>1. \A pc : At(t, pc) => over = None /\ thread[t].st = "run"
    BY DEF At
<1>2. \A pc, op : AtOp(t, pc, op) => over = None /\ thread[t].st = "run"
    BY <1>1 DEF AtOp
<1>3. Redirected(t) => over = None /\ thread[t].st = "run"
    BY <1>1 DEF Redirected
<1>4. CASE parse_simple(t)
    BY <1>1, <1>2, <1>3, <1>4 DEF parse_simple, shell_exit, SetEnvironmentVariable, cd_without_params,
        redirect_first, redirections, shell_cd, CreateProcess, WaitForSingleObject, CloseHandle
<1>5. CASE parse_command(t)
    BY <1>1, <1>2, <1>5, Zenon DEF parse_command, do_in_parallel, thread_func, conditional, sequential, pipe
<1> QED BY <1>4, <1>5

LEMMA NextGood == WinInv /\ [WinNext]_winVars => WinInv'
<1>1. SUFFICES ASSUME WinInv, [WinNext]_winVars PROVE WinInv'
    OBVIOUS
<1>2. CASE UNCHANGED winVars
    BY <1>1, <1>2 DEF WinInv, winVars, Prompting, Executing, Excused, ClashInParallel, Parallel, Joined, RedOf
<1>3. ASSUME WinNext PROVE over = None
    BY <1>3, StepsOf, Zenon DEF WinNext, read_line, AtPrompt, end_of_input, start_shell, program
<1>4. CASE WinNext /\ line = None /\ Prompting
    <2>1. over = None /\ running = {} /\ \A t \in Threads : thread[t].st # "run"
        BY <1>3, <1>4 DEF Prompting
    <2>2. (\E l \in Lines : read_line(l)) \/ end_of_input
        BY <1>4, <2>1, StepsOf DEF WinNext, start_shell
    <2> QED BY <1>4, <2>1, <2>2, PromptActions
<1>5. CASE WinNext /\ Executing
    <2>1. Busily /\ line # None
        BY <1>3, <1>5, LinesAreLines DEF Busily, Executing, ExecInv
    <2>2. ASSUME Moved PROVE WinInv'
        <3>1. line' = line /\ over' = None
            BY <2>1, <2>2 DEF Moved, Busily
        <3>2. PICK th2, fs2, progs2 : th2 = thread' /\ fs2 = files' /\ progs2 = running'
            OBVIOUS
        <3>3. ExecInv(line, th2, fs2, progs2)
            BY <2>2, <3>2 DEF Moved
        <3>4. Executing'
            BY <1>5, <3>1, <3>2, <3>3 DEF Executing, ExecInv
        <3> QED BY <3>1, <3>4, LinesAreLines DEF WinInv
    <2>3. ASSUME DIE, Excused PROVE WinInv'
        <3>1. line' = line /\ thread' = thread /\ files' = files /\ running' = running
            BY <2>3 DEF DIE
        <3>2. Executing'
            BY <1>5, <3>1 DEF Executing
        <3>3. Excused'
            BY <2>3, <3>1 DEF Excused, ClashInParallel, Parallel, Joined, RedOf
        <3> QED BY <2>1, <3>1, <3>2, <3>3 DEF WinInv
    <2>4. CASE start_shell
        BY <2>1, <2>4, LineDone
    <2>5. ASSUME NEW t \in Threads, parse_simple(t) \/ parse_command(t) PROVE WinInv'
        BY <2>1, <2>2, <2>3, <2>5, ThreadMoves
    <2>6. ASSUME NEW i, program(i) PROVE WinInv'
        BY <2>1, <2>2, <2>6, ProgramEnds
    <2> QED BY <1>5, <2>1, <2>4, <2>5, <2>6, Zenon DEF WinNext, read_line, end_of_input, AtPrompt
<1> QED BY <1>1, <1>2, <1>4, <1>5 DEF WinInv

LEMMA InvIsEnough == WinInv => FilesClosed
<1>1. SUFFICES ASSUME WinInv PROVE FilesClosed
    OBVIOUS
<1>2. line = None => files = {}
    BY <1>1, LinesAreLines DEF WinInv, Prompting, Executing
<1>3. over = "DIE" => Excused
    BY <1>1 DEF WinInv
<1> QED BY <1>2, <1>3 DEF FilesClosed, Excused

(* However the threads of a line and the programs they start interleave, and *)
(* whatever fails, the shell prompts again with all the line's files closed; *)
(* and a file that cannot be opened ends the shell only for what the line    *)
(* itself says: a missing file, a command that clashes with itself, or two   *)
(* that clash and are in one list with a parallel operator.                  *)
THEOREM FilesAreClosed == WinSpec => []FilesClosed
<1>1. WinInit => WinInv
    BY InitGood
<1>2. WinInv /\ [WinNext]_winVars => WinInv'
    BY NextGood
<1>3. WinInv => FilesClosed
    BY InvIsEnough
<1> QED BY <1>1, <1>2, <1>3, PTL DEF WinSpec

=============================================================================
