------------------------------ MODULE ShellProofs ------------------------------
(***************************************************************************)
(* Proofs about the mini-shell: the tree a line is executed by is the one   *)
(* its priorities define, the descriptors of every process are the ones     *)
(* the line asks for, and the shell is as it was when it prompts again.     *)
(***************************************************************************)
EXTENDS Shell, ParserProofs

-----------------------------------------------------------------------------
(* The records of the model, and what the operations on them make of them.  *)
FrameOf(cmd, pc, pid1, pid2, saved) ==
    [cmd |-> cmd, pc |-> pc, pid1 |-> pid1, pid2 |-> pid2, saved |-> saved]
Running(line, parent, fd, stack, val, io) ==
    [st |-> "run", line |-> line, parent |-> parent, fd |-> fd, stack |-> stack,
     val |-> val, io |-> io]
IoOf(n, saved, word) == [n |-> n, saved |-> saved, word |-> word]
IsFrame(f) == f = FrameOf(f.cmd, f.pc, f.pid1, f.pid2, f.saved)
IsRunning(r) == r = Running(r.line, r.parent, r.fd, r.stack, r.val, r.io)
OnTop(s, f) == [s EXCEPT ![1] = f]
Started1(r, pc, k) == [Goto(r, pc) EXCEPT !.stack[1].pid1 = k]
Started2(r, pc, k) == [Goto(r, pc) EXCEPT !.stack[1].pid2 = k]
Piping(r, fd, k, s) == [r EXCEPT !.fd = fd, !.stack[1].pid1 = k, !.stack[1].saved = s]
(* A process that runs a command: its innermost call is f.                  *)
Runs(r, f) == IsRunning(r) /\ r.stack \in Seq(Range(r.stack)) /\ r.stack # <<>>
              /\ f = r.stack[1] /\ IsFrame(f)

LEMMA FieldsOf ==
    /\ \A cmd, pc, pid1, pid2, saved :
        LET f == FrameOf(cmd, pc, pid1, pid2, saved) IN
        /\ f.cmd = cmd /\ f.pc = pc /\ f.pid1 = pid1 /\ f.pid2 = pid2 /\ f.saved = saved
        /\ IsFrame(f)
    /\ \A line, parent, fd, stack, val, io :
        LET r == Running(line, parent, fd, stack, val, io) IN
        /\ r.st = "run" /\ r.line = line /\ r.parent = parent /\ r.fd = fd /\ r.stack = stack
        /\ r.val = val /\ r.io = io /\ IsRunning(r)
    /\ \A n, saved, word :
        LET io == IoOf(n, saved, word) IN io.n = n /\ io.saved = saved /\ io.word = word
BY DEF FrameOf, Running, IoOf, IsFrame, IsRunning

LEMMA GoesTo ==
    ASSUME NEW r, NEW f, Runs(r, f), NEW pc
    PROVE  Goto(r, pc) =
                Running(r.line, r.parent, r.fd, OnTop(r.stack, FrameOf(f.cmd, pc, f.pid1, f.pid2, f.saved)),
                        r.val, r.io)
<1>1. 1 \in DOMAIN r.stack
    BY DEF Runs
<1>2. PICK r2 : r2 = Goto(r, pc)
    OBVIOUS
<1>0. PICK line, parent, fd0, stack, val, io : r = Running(line, parent, fd0, stack, val, io)
    BY DEF Runs, IsRunning
<1>3. PICK s2 : s2 = r2.stack
    OBVIOUS
<1>4. PICK f2 : f2 = s2[1]
    OBVIOUS
<1>5. PICK f3 : f3 = FrameOf(f.cmd, pc, f.pid1, f.pid2, f.saved)
    OBVIOUS
<1>6. f2 = f3
    BY <1>1, <1>2, <1>3, <1>4, <1>5 DEF Runs, IsFrame, FrameOf, IsRunning, Running, Goto
<1>7. s2 = OnTop(r.stack, f3)
    BY <1>1, <1>2, <1>3, <1>4, <1>6 DEF Runs, IsRunning, Running, OnTop, Goto
<1>8. r2 = Running(line, parent, fd0, s2, val, io)
    BY <1>0, <1>2, <1>3 DEF Running, Goto
<1>9. /\ r.line = line /\ r.parent = parent /\ r.fd = fd0 /\ r.val = val /\ r.io = io
    BY <1>0, FieldsOf
<1> QED BY <1>2, <1>5, <1>7, <1>8, <1>9

LEMMA Starts1 ==
    ASSUME NEW r, NEW f, Runs(r, f), NEW pc, NEW k
    PROVE  Started1(r, pc, k) =
                Running(r.line, r.parent, r.fd, OnTop(r.stack, FrameOf(f.cmd, pc, k, f.pid2, f.saved)),
                        r.val, r.io)
<1>1. 1 \in DOMAIN r.stack
    BY DEF Runs
<1>2. PICK r2 : r2 = Started1(r, pc, k)
    OBVIOUS
<1>0. PICK line, parent, fd0, stack, val, io : r = Running(line, parent, fd0, stack, val, io)
    BY DEF Runs, IsRunning
<1>3. PICK s2 : s2 = r2.stack
    OBVIOUS
<1>4. PICK f2 : f2 = s2[1]
    OBVIOUS
<1>5. PICK f3 : f3 = FrameOf(f.cmd, pc, k, f.pid2, f.saved)
    OBVIOUS
<1>6. f2 = f3
    BY <1>1, <1>2, <1>3, <1>4, <1>5 DEF Runs, IsFrame, FrameOf, IsRunning, Running, Goto, Started1
<1>7. s2 = OnTop(r.stack, f3)
    BY <1>1, <1>2, <1>3, <1>4, <1>6 DEF Runs, IsRunning, Running, OnTop, Goto, Started1
<1>8. r2 = Running(line, parent, fd0, s2, val, io)
    BY <1>0, <1>2, <1>3 DEF Running, Goto, Started1
<1>9. /\ r.line = line /\ r.parent = parent /\ r.fd = fd0 /\ r.val = val /\ r.io = io
    BY <1>0, FieldsOf
<1> QED BY <1>2, <1>5, <1>7, <1>8, <1>9

LEMMA Starts2 ==
    ASSUME NEW r, NEW f, Runs(r, f), NEW pc, NEW k
    PROVE  Started2(r, pc, k) =
                Running(r.line, r.parent, r.fd, OnTop(r.stack, FrameOf(f.cmd, pc, f.pid1, k, f.saved)),
                        r.val, r.io)
<1>1. 1 \in DOMAIN r.stack
    BY DEF Runs
<1>2. PICK r2 : r2 = Started2(r, pc, k)
    OBVIOUS
<1>0. PICK line, parent, fd0, stack, val, io : r = Running(line, parent, fd0, stack, val, io)
    BY DEF Runs, IsRunning
<1>3. PICK s2 : s2 = r2.stack
    OBVIOUS
<1>4. PICK f2 : f2 = s2[1]
    OBVIOUS
<1>5. PICK f3 : f3 = FrameOf(f.cmd, pc, f.pid1, k, f.saved)
    OBVIOUS
<1>6. f2 = f3
    BY <1>1, <1>2, <1>3, <1>4, <1>5 DEF Runs, IsFrame, FrameOf, IsRunning, Running, Goto, Started2
<1>7. s2 = OnTop(r.stack, f3)
    BY <1>1, <1>2, <1>3, <1>4, <1>6 DEF Runs, IsRunning, Running, OnTop, Goto, Started2
<1>8. r2 = Running(line, parent, fd0, s2, val, io)
    BY <1>0, <1>2, <1>3 DEF Running, Goto, Started2
<1>9. /\ r.line = line /\ r.parent = parent /\ r.fd = fd0 /\ r.val = val /\ r.io = io
    BY <1>0, FieldsOf
<1> QED BY <1>2, <1>5, <1>7, <1>8, <1>9

LEMMA Pipes1 ==
    ASSUME NEW r, NEW f, Runs(r, f), NEW fd, NEW k, NEW s
    PROVE  Piping(r, fd, k, s) =
                Running(r.line, r.parent, fd, OnTop(r.stack, FrameOf(f.cmd, f.pc, k, f.pid2, s)),
                        r.val, r.io)
<1>1. 1 \in DOMAIN r.stack
    BY DEF Runs
<1>2. PICK r2 : r2 = Piping(r, fd, k, s)
    OBVIOUS
<1>0. PICK line, parent, fd0, stack, val, io : r = Running(line, parent, fd0, stack, val, io)
    BY DEF Runs, IsRunning
<1>3. PICK s2 : s2 = r2.stack
    OBVIOUS
<1>4. PICK f2 : f2 = s2[1]
    OBVIOUS
<1>5. PICK f3 : f3 = FrameOf(f.cmd, f.pc, k, f.pid2, s)
    OBVIOUS
<1>6. f2 = f3
    BY <1>1, <1>2, <1>3, <1>4, <1>5 DEF Runs, IsFrame, FrameOf, IsRunning, Running, Piping
<1>7. s2 = OnTop(r.stack, f3)
    BY <1>1, <1>2, <1>3, <1>4, <1>6 DEF Runs, IsRunning, Running, OnTop, Piping
<1>8. r2 = Running(line, parent, fd, s2, val, io)
    BY <1>0, <1>2, <1>3 DEF Running, Piping
<1>9. /\ r.line = line /\ r.parent = parent /\ r.fd = fd0 /\ r.val = val /\ r.io = io
    BY <1>0, FieldsOf
<1> QED BY <1>2, <1>5, <1>7, <1>8, <1>9

LEMMA Calls ==
    ASSUME NEW r, NEW f, Runs(r, f), NEW pc, NEW t
    PROVE  Call(r, pc, t) =
                Running(r.line, r.parent, r.fd,
                        <<FrameOf(t, "start", 0, 0, 0)>>
                            \o OnTop(r.stack, FrameOf(f.cmd, pc, f.pid1, f.pid2, f.saved)),
                        r.val, r.io)
<1>1. PICK r1 : r1 = Goto(r, pc)
    OBVIOUS
<1>2. r1.stack = OnTop(r.stack, FrameOf(f.cmd, pc, f.pid1, f.pid2, f.saved))
    BY <1>1, GoesTo, FieldsOf
<1>3. PICK r2 : r2 = Call(r, pc, t)
    OBVIOUS
<1>4. PICK s2 : s2 = <<Frame(t, "start")>> \o r1.stack
    OBVIOUS
<1>5. r2 = [r EXCEPT !.stack = s2]
    BY <1>1, <1>3, <1>4 DEF Call
<1>0. PICK line, parent, fd0, stack, val, io : r = Running(line, parent, fd0, stack, val, io)
    BY DEF Runs, IsRunning
<1>6. r2 = Running(r.line, r.parent, r.fd, s2, r.val, r.io)
    BY <1>0, <1>5 DEF Running
<1> QED BY <1>2, <1>3, <1>4, <1>6 DEF Frame, FrameOf

LEMMA CallsPiped ==
    ASSUME NEW r, NEW f, Runs(r, f), NEW t, NEW fd, NEW k, NEW s
    PROVE  Call(Piping(r, fd, k, s), "restore", t) =
                Running(r.line, r.parent, fd,
                        <<FrameOf(t, "start", 0, 0, 0)>>
                            \o OnTop(r.stack, FrameOf(f.cmd, "restore", k, f.pid2, s)),
                        r.val, r.io)
<1>1. PICK r1 : r1 = Piping(r, fd, k, s)
    OBVIOUS
<1>2. PICK f1 : f1 = FrameOf(f.cmd, f.pc, k, f.pid2, s)
    OBVIOUS
<1>3. r1 = Running(r.line, r.parent, fd, OnTop(r.stack, f1), r.val, r.io)
    <2>1. Piping(r, fd, k, s) =
                Running(r.line, r.parent, fd, OnTop(r.stack, FrameOf(f.cmd, f.pc, k, f.pid2, s)),
                        r.val, r.io)
        BY Pipes1
    <2> QED BY ONLY <1>1, <1>2, <2>1
<1>4. Runs(r1, f1) /\ r1.stack = OnTop(r.stack, f1)
    <2>1. r1.stack = OnTop(r.stack, f1) /\ IsRunning(r1) /\ IsFrame(f1)
        BY <1>2, <1>3, FieldsOf
    <2>2. PICK n : n = Len(r.stack)
        OBVIOUS
    <2>3. r1.stack \in Seq(Range(r1.stack)) /\ r1.stack # <<>> /\ r1.stack[1] = f1
        <3>1. r.stack \in Seq(Range(r.stack)) /\ r.stack # <<>> /\ Len(r.stack) \in Nat
            BY DEF Runs
        <3>2. r1.stack \in Seq({f1} \cup Range(r.stack)) /\ r1.stack # <<>> /\ r1.stack[1] = f1
            BY <2>1, <3>1 DEF OnTop
        <3> QED BY <3>2 DEF Range
    <2> QED BY <2>1, <2>3 DEF Runs
<1>5. /\ r1.line = r.line /\ r1.parent = r.parent /\ r1.fd = fd /\ r1.val = r.val /\ r1.io = r.io
      /\ f1.cmd = f.cmd /\ f1.pid1 = k /\ f1.pid2 = f.pid2 /\ f1.saved = s
    BY <1>2, <1>3, FieldsOf
<1>6. \A g : OnTop(OnTop(r.stack, f1), g) = OnTop(r.stack, g)
    BY DEF OnTop, Runs
<1>7. Call(r1, "restore", t) =
        Running(r1.line, r1.parent, r1.fd,
                <<FrameOf(t, "start", 0, 0, 0)>>
                    \o OnTop(r1.stack, FrameOf(f1.cmd, "restore", f1.pid1, f1.pid2, f1.saved)),
                r1.val, r1.io)
    BY ONLY <1>4, Calls
<1> QED BY <1>1, <1>4, <1>5, <1>6, <1>7

LEMMA Returns ==
    ASSUME NEW r, IsRunning(r), NEW v
    PROVE  Return(r, v) = Running(r.line, r.parent, r.fd, Tail(r.stack), v, r.io)
<1>1. PICK r2 : r2 = Return(r, v)
    OBVIOUS
<1>0. PICK line, parent, fd0, stack, val, io : r = Running(line, parent, fd0, stack, val, io)
    BY DEF IsRunning
<1>2. r2 = Running(r.line, r.parent, r.fd, Tail(r.stack), v, r.io)
    BY <1>0, <1>1 DEF Running, Return
<1> QED BY <1>1, <1>2

(* Stacks of calls, as sequences over a set of calls.                       *)
LEMMA StackTop ==
    ASSUME NEW S, NEW s \in Seq(S), s # <<>>, NEW f \in S
    PROVE  /\ OnTop(s, f) \in Seq(S) /\ Len(OnTop(s, f)) = Len(s) /\ OnTop(s, f)[1] = f
           /\ \A i \in 2 .. Len(s) : OnTop(s, f)[i] = s[i]
           /\ OnTop(s, f) # <<>>
BY DEF OnTop

LEMMA StackPush ==
    ASSUME NEW S, NEW s \in Seq(S), NEW f \in S
    PROVE  /\ <<f>> \o s \in Seq(S) /\ Len(<<f>> \o s) = Len(s) + 1 /\ (<<f>> \o s)[1] = f
           /\ \A i \in 2 .. Len(s) + 1 : (<<f>> \o s)[i] = s[i - 1]
           /\ <<f>> \o s # <<>>
<1>1. <<f>> \in Seq(S) /\ Len(<<f>>) = 1
    OBVIOUS
<1> QED BY <1>1

LEMMA StackPop ==
    ASSUME NEW S, NEW s \in Seq(S), s # <<>>
    PROVE  /\ Tail(s) \in Seq(S) /\ Len(Tail(s)) = Len(s) - 1 /\ Len(s) \in Nat \ {0}
           /\ \A i \in 1 .. Len(s) - 1 : Tail(s)[i] = s[i + 1]
           /\ s[1] \in S /\ Head(s) = s[1]
OBVIOUS

-----------------------------------------------------------------------------
(* Descriptors. *)
Tables == [Slots -> Ends]

LEMMA EndsFacts ==
    /\ Closed \in Ends /\ Tty \in Ends /\ Closed # Tty
    /\ \A k \in Pipes : <<"read", k>> \in Ends /\ <<"write", k>> \in Ends
    /\ \A k : <<"read", k>> \notin {Closed, Tty} /\ <<"write", k>> \notin {Closed, Tty}
    /\ \A n : <<"file", n>> \notin {Closed, Tty}
    /\ \A k, j : <<"read", k>> # <<"write", j>> /\ (<<"read", k>> = <<"read", j>> => k = j)
                 /\ (<<"write", k>> = <<"write", j>> => k = j)
    /\ \A k, n : <<"read", k>> # <<"file", n>> /\ <<"write", k>> # <<"file", n>>
    /\ Terminal \in Tables
BY DEF Ends, Closed, Tty, Terminal, Tables

LEMMA LowIs ==
    ASSUME NEW fd, Free(fd) # {}
    PROVE  /\ Low(fd) \in Slots /\ fd[Low(fd)] = Closed
           /\ \A s \in Slots : fd[s] = Closed => Low(fd) <= s
<1>1. Free(fd) \in SUBSET Nat
    BY ShellAssumption DEF Free
<1>2. \E m \in Free(fd) : \A k \in Free(fd) : m <= k
    BY <1>1, LeastNatural
<1>3. Low(fd) \in Free(fd) /\ \A k \in Free(fd) : Low(fd) <= k
    BY <1>2 DEF Low, Min
<1> QED BY <1>3 DEF Free

LEMMA RoomIs ==
    ASSUME NEW fd, Room(fd)
    PROVE  Free(fd) # {} /\ \A s : Free(fd) \ {s} # {}
<1>1. 0 \in Slots /\ Free(fd) \in SUBSET Slots
    BY ShellAssumption DEF Free
<1>2. Free(fd) # {}
    BY <1>1 DEF Room
<1>3. ASSUME NEW s, Free(fd) \ {s} = {} PROVE FALSE
    <2>1. s \in Slots
        BY <1>1, <1>2, <1>3
    <2> QED BY <1>3, <2>1 DEF Room
<1> QED BY <1>2, <1>3

LEMMA DescriptorCalls ==
    ASSUME NEW fd \in Tables
    PROVE  /\ \A s \in Slots : close(fd, s) \in Tables
           /\ \A s \in Slots : \A t \in Slots : dup2(fd, s, t) \in Tables
           /\ Free(fd) # {} => \A s \in Slots : dup(fd, s) \in Tables
           /\ \A s \in Slots : Free(close(fd, s)) # {}
<1>1. Closed \in Ends
    BY EndsFacts
<1>2. \A s \in Slots : close(fd, s) \in Tables /\ close(fd, s)[s] = Closed
    BY <1>1 DEF close, Tables
<1>3. \A s \in Slots : Free(close(fd, s)) # {}
    BY <1>2 DEF Free
<1>4. Free(fd) # {} => \A s \in Slots : dup(fd, s) \in Tables
    BY LowIs DEF dup, Tables
<1>5. \A s \in Slots : \A t \in Slots : dup2(fd, s, t) \in Tables
    BY DEF dup2, Tables
<1> QED BY <1>2, <1>3, <1>4, <1>5

LEMMA PipedIs ==
    ASSUME NEW fd \in Tables, Room(fd), NEW k \in Pipes
    PROVE  /\ Low(fd) \in Slots /\ fd[Low(fd)] = Closed
           /\ \A s \in Slots : fd[s] = Closed => Low(fd) <= s
           /\ \E w \in Slots \ {Low(fd)} :
                /\ fd[w] = Closed /\ \A s \in Slots \ {Low(fd)} : fd[s] = Closed => w <= s
                /\ piped(fd, k) = [fd EXCEPT ![Low(fd)] = <<"read", k>>, ![w] = <<"write", k>>]
<1>1. /\ Low(fd) \in Slots /\ fd[Low(fd)] = Closed
      /\ \A s \in Slots : fd[s] = Closed => Low(fd) <= s
    BY RoomIs, LowIs
<1>2. PICK r : r = Low(fd)
    OBVIOUS
<1>3. PICK S : S = {s \in Slots \ {r} : fd[s] = Closed}
    OBVIOUS
<1>4. S # {} /\ S \in SUBSET Nat
    <2>1. Free(fd) \ {r} # {}
        BY RoomIs
    <2> QED BY <1>3, <2>1, ShellAssumption DEF Free
<1>5. \E m \in S : \A j \in S : m <= j
    BY <1>4, LeastNatural
<1>6. Min(S) \in S /\ \A j \in S : Min(S) <= j
    BY <1>5 DEF Min
<1>7. piped(fd, k) = [fd EXCEPT ![r] = <<"read", k>>, ![Min(S)] = <<"write", k>>]
    BY <1>2, <1>3 DEF piped
<1> QED BY <1>1, <1>2, <1>3, <1>6, <1>7

LEMMA PipeTypes ==
    ASSUME NEW fd \in Tables, Room(fd), NEW k \in Pipes,
           NEW fd1, fd1 = piped(fd, k), NEW r, r = Slot(fd1, <<"read", k>>),
           NEW w, w = Slot(fd1, <<"write", k>>)
    PROVE  /\ r \in Slots /\ w \in Slots /\ Low(close(fd1, r)) \in Slots
           /\ writer(fd1, r, w) \in Tables /\ reader(fd1, r, w) \in Tables
<1>1. PICK r0 \in Slots, w0 \in Slots : r0 # w0 /\
            fd1 = [fd EXCEPT ![r0] = <<"read", k>>, ![w0] = <<"write", k>>]
    BY PipedIs
<1>2. fd1 \in Tables /\ fd1[r0] = <<"read", k>> /\ fd1[w0] = <<"write", k>>
    BY <1>1, EndsFacts DEF Tables
<1>3. r \in Slots /\ w \in Slots
    <2>1. \E s \in Slots : fd1[s] = <<"read", k>>
        BY <1>2
    <2>2. \E s \in Slots : fd1[s] = <<"write", k>>
        BY <1>2
    <2> QED BY <2>1, <2>2 DEF Slot
<1>4. 0 \in Slots /\ 1 \in Slots
    BY ShellAssumption
<1>5. PICK c1 : c1 = close(fd1, r)
    OBVIOUS
<1>6. c1 \in Tables /\ Free(c1) # {}
    BY <1>2, <1>3, <1>5, DescriptorCalls
<1>7. PICK c2 : c2 = close(fd1, w)
    OBVIOUS
<1>8. c2 \in Tables /\ Free(c2) # {}
    BY <1>2, <1>3, <1>7, DescriptorCalls
<1>9. \A c \in Tables : \A s \in Slots : \A j \in Slots : Free(c) # {} => onto(c, s, j) \in Tables
    <2>1. ASSUME NEW c \in Tables, NEW s \in Slots, NEW j \in Slots, Free(c) # {}
          PROVE  onto(c, s, j) \in Tables
        <3>1. PICK d : d = dup(c, j)
            OBVIOUS
        <3>2. d \in Tables
            BY <2>1, <3>1, DescriptorCalls
        <3>3. PICK e : e = dup2(d, s, j)
            OBVIOUS
        <3>4. e \in Tables
            BY <3>2, <3>3, DescriptorCalls
        <3>5. close(e, s) \in Tables
            BY <3>4, DescriptorCalls
        <3> QED BY <3>1, <3>3, <3>5 DEF onto
    <2> QED BY <2>1
<1>10. writer(fd1, r, w) \in Tables
    BY <1>3, <1>4, <1>5, <1>6, <1>9 DEF writer
<1>11. reader(fd1, r, w) \in Tables
    BY <1>3, <1>4, <1>7, <1>8, <1>9 DEF reader
<1>12. Low(c1) \in Slots
    BY <1>6, LowIs
<1> QED BY <1>3, <1>5, <1>10, <1>11, <1>12

(* What both sides of a pipe make of their descriptors, and what its end    *)
(* puts back.                                                               *)
Unpiped(fd, s) == close(dup2(fd, s, 1), s)

Fresh(fd, kk) == \A s \in Slots : fd[s] # <<"read", kk>> /\ fd[s] # <<"write", kk>>
PipeDone(fd, k, fd1, r, w) ==
    /\ \A s \in Slots : writer(fd1, r, w)[s] =
            IF s = 1 THEN <<"write", k>> ELSE IF s = r THEN fd[1] ELSE fd[s]
    /\ \A s \in Slots : reader(fd1, r, w)[s] =
            IF s = 0 THEN <<"read", k>> ELSE IF s = w THEN fd[0] ELSE fd[s]
    /\ Low(close(fd1, r)) = r /\ Unpiped(writer(fd1, r, w), r) = fd
    /\ r \in Slots \ (0 .. 2) /\ w \in Slots \ (0 .. 2)
LEMMA PipeEnds ==
    ASSUME NEW fd \in Tables, Room(fd), NEW k \in Pipes,
           Fresh(fd, k), fd[0] # Closed, fd[1] # Closed, fd[2] # Closed,
           NEW fd1, fd1 = piped(fd, k), NEW r, r = Slot(fd1, <<"read", k>>),
           NEW w, w = Slot(fd1, <<"write", k>>)
    PROVE  PipeDone(fd, k, fd1, r, w)
<1> USE DEF PipeDone, Fresh
<1>1. PICK r0 \in Slots, w0 \in Slots :
            /\ r0 # w0
            /\ fd1 = [fd EXCEPT ![r0] = <<"read", k>>, ![w0] = <<"write", k>>]
            /\ fd[r0] = Closed /\ fd[w0] = Closed
            /\ \A s \in Slots : fd[s] = Closed => r0 <= s
            /\ \A s \in Slots \ {r0} : fd[s] = Closed => w0 <= s
    BY PipedIs
<1>2. fd1 \in Tables
    BY <1>1, EndsFacts DEF Tables
<1>3. \A s \in Slots : fd1[s] = IF s = w0 THEN <<"write", k>> ELSE IF s = r0 THEN <<"read", k>> ELSE fd[s]
    BY <1>1 DEF Tables
<1>4. r = r0
    <2>1. \A s \in Slots : fd1[s] = <<"read", k>> <=> s = r0
        BY <1>1, <1>3, EndsFacts
    <2> QED BY <1>1, <2>1 DEF Slot
<1>5. w = w0
    <2>1. \A s \in Slots : fd1[s] = <<"write", k>> <=> s = w0
        BY <1>1, <1>3, EndsFacts
    <2> QED BY <1>1, <2>1 DEF Slot
<1>6. /\ 0 \in Slots /\ 1 \in Slots /\ 2 \in Slots /\ Slots \subseteq Nat
      /\ \A s \in 0 .. 2 : s = 0 \/ s = 1 \/ s = 2
    BY ShellAssumption
<1>7. /\ r \in Slots \ (0 .. 2) /\ w \in Slots \ (0 .. 2) /\ r # w
      /\ r # 0 /\ r # 1 /\ w # 0 /\ w # 1
    BY <1>1, <1>4, <1>5, <1>6
<1>8. PICK c1 : c1 = close(fd1, r)
    OBVIOUS
<1>9. /\ c1 \in Tables /\ Free(c1) # {}
      /\ \A s \in Slots : c1[s] = IF s = w THEN <<"write", k>> ELSE fd[s]
    <2>1. c1 \in Tables /\ Free(c1) # {}
        BY <1>2, <1>7, <1>8, DescriptorCalls
    <2>2. \A s \in Slots : c1[s] = IF s = r THEN Closed ELSE fd1[s]
        BY <1>2, <1>8 DEF close, Tables
    <2> QED BY <1>1, <1>3, <1>4, <1>5, <2>1, <2>2
<1>10. Low(c1) = r
    <2>1. /\ Low(c1) \in Slots /\ c1[Low(c1)] = Closed
          /\ \A s \in Slots : c1[s] = Closed => Low(c1) <= s
        BY <1>9, LowIs
    <2>2. c1[r] = Closed
        BY <1>1, <1>4, <1>7, <1>9
    <2>3. Low(c1) # w /\ fd[Low(c1)] = Closed
        BY <1>9, <2>1, EndsFacts
    <2>4. r <= Low(c1) /\ Low(c1) <= r
        BY <1>1, <1>4, <2>1, <2>2, <2>3
    <2>5. Low(c1) \in Nat /\ r \in Nat
        BY <1>6, <1>7, <2>1
    <2> QED BY ONLY <2>4, <2>5
<1>11. PICK c2 : c2 = close(fd1, w)
    OBVIOUS
<1>12. /\ c2 \in Tables /\ Free(c2) # {}
       /\ \A s \in Slots : c2[s] = IF s = r THEN <<"read", k>> ELSE fd[s]
    <2>1. c2 \in Tables /\ Free(c2) # {}
        BY <1>2, <1>7, <1>11, DescriptorCalls
    <2>2. \A s \in Slots : c2[s] = IF s = w THEN Closed ELSE fd1[s]
        BY <1>2, <1>11 DEF close, Tables
    <2> QED BY <1>1, <1>3, <1>4, <1>5, <2>1, <2>2
<1>13. Low(c2) = w
    <2>1. /\ Low(c2) \in Slots /\ c2[Low(c2)] = Closed
          /\ \A s \in Slots : c2[s] = Closed => Low(c2) <= s
        BY <1>12, LowIs
    <2>2. c2[w] = Closed
        BY <1>1, <1>5, <1>7, <1>12
    <2>3. Low(c2) # r /\ fd[Low(c2)] = Closed
        BY <1>12, <2>1, EndsFacts
    <2>4. w <= Low(c2) /\ Low(c2) <= w
        BY <1>1, <1>4, <1>5, <2>1, <2>2, <2>3
    <2>5. Low(c2) \in Nat /\ w \in Nat
        BY <1>6, <1>7, <2>1
    <2> QED BY ONLY <2>4, <2>5
<1>14. \A s \in Slots : writer(fd1, r, w)[s] =
            IF s = 1 THEN <<"write", k>> ELSE IF s = r THEN fd[1] ELSE fd[s]
    <2>1. PICK d : d = [c1 EXCEPT ![r] = c1[1]]
        OBVIOUS
    <2>2. d = dup(c1, 1)
        BY <1>10, <2>1 DEF dup
    <2>3. PICK e : e = [d EXCEPT ![1] = d[w]]
        OBVIOUS
    <2>4. writer(fd1, r, w) = [e EXCEPT ![w] = Closed]
        BY <1>8, <2>2, <2>3 DEF writer, onto, dup2, close
    <2>5. \A s \in Slots : d[s] = IF s = r THEN fd[1] ELSE c1[s]
        BY <1>6, <1>7, <1>9, <2>1 DEF Tables
    <2>6. d \in [Slots -> Ends] /\ e \in [Slots -> Ends]
        BY <1>6, <1>7, <1>9, <2>1, <2>3 DEF Tables
    <2>7. \A s \in Slots : e[s] = IF s = 1 THEN <<"write", k>> ELSE d[s]
        BY <1>6, <1>7, <1>9, <2>3, <2>5, <2>6
    <2>8. \A s \in Slots : writer(fd1, r, w)[s] = IF s = w THEN Closed ELSE e[s]
        BY ONLY <2>4, <2>6
    <2> QED BY ONLY <1>1, <1>5, <1>7, <1>9, <2>5, <2>7, <2>8
<1>15. \A s \in Slots : reader(fd1, r, w)[s] =
            IF s = 0 THEN <<"read", k>> ELSE IF s = w THEN fd[0] ELSE fd[s]
    <2>1. PICK d : d = [c2 EXCEPT ![w] = c2[0]]
        OBVIOUS
    <2>2. d = dup(c2, 0)
        BY <1>13, <2>1 DEF dup
    <2>3. PICK e : e = [d EXCEPT ![0] = d[r]]
        OBVIOUS
    <2>4. reader(fd1, r, w) = [e EXCEPT ![r] = Closed]
        BY <1>11, <2>2, <2>3 DEF reader, onto, dup2, close
    <2>5. \A s \in Slots : d[s] = IF s = w THEN fd[0] ELSE c2[s]
        BY <1>6, <1>7, <1>12, <2>1 DEF Tables
    <2>6. d \in [Slots -> Ends] /\ e \in [Slots -> Ends]
        BY <1>6, <1>7, <1>12, <2>1, <2>3 DEF Tables
    <2>7. \A s \in Slots : e[s] = IF s = 0 THEN <<"read", k>> ELSE d[s]
        BY <1>6, <1>7, <1>12, <2>3, <2>5, <2>6
    <2>8. \A s \in Slots : reader(fd1, r, w)[s] = IF s = r THEN Closed ELSE e[s]
        BY ONLY <2>4, <2>6
    <2> QED BY ONLY <1>1, <1>4, <1>7, <1>12, <2>5, <2>7, <2>8
<1>16. Unpiped(writer(fd1, r, w), r) = fd
    <2>1. PICK v : v = writer(fd1, r, w)
        OBVIOUS
    <2>2. v \in [Slots -> Ends]
        BY <2>1, PipeTypes DEF Tables
    <2>3. PICK u : u = Unpiped(v, r)
        OBVIOUS
    <2>4. u = [[v EXCEPT ![1] = v[r]] EXCEPT ![r] = Closed]
        BY <2>3 DEF Unpiped, dup2, close
    <2>5. \A s \in Slots : v[s] = IF s = 1 THEN <<"write", k>> ELSE IF s = r THEN fd[1] ELSE fd[s]
        BY <1>14, <2>1
    <2>6. \A s \in Slots : u[s] = fd[s]
        BY <1>1, <1>4, <1>6, <1>7, <2>2, <2>4, <2>5
    <2>7. u = fd
        BY <2>2, <2>4, <2>6 DEF Tables
    <2> QED BY <2>1, <2>3, <2>7
<1> QED BY <1>7, <1>8, <1>10, <1>14, <1>15, <1>16

-----------------------------------------------------------------------------
(* A running process is sound: its calls are those of parts of its line, the *)
(* callers wait where they call, and the locals of the redirections are only *)
(* in use while a command redirects.                                         *)
Calling == {"second", "unset", "decide", "last", "restore"}
Redirections == {"redirect", "redirect_err"}
Pcs(op) ==
    IF op = "none" THEN {"start", "wait", "program"} \cup Redirections
    ELSE IF op = "sequential" THEN {"start", "second", "unset"}
    ELSE IF op = "parallel" THEN {"start", "fork2", "wait1", "wait2"}
    ELSE IF op = "pipe" THEN {"start", "restore", "reap"}
    ELSE {"start", "decide", "last"}
AllPcs == UNION {Pcs(op) : op \in Operators \cup {"none"}}
(* The children a call has started and not yet waited for.                  *)
Pending(f) ==
    (IF f.pc \in {"wait", "fork2", "wait1", "restore", "reap"} THEN {f.pid1} ELSE {})
    \cup (IF f.pc \in {"wait1", "wait2"} THEN {f.pid2} ELSE {})
Frames(l) ==
    {f \in [cmd : Trees(l), pc : AllPcs, pid1 : Pids \cup {0}, pid2 : Pids \cup {0}, saved : Slots] :
        /\ f.pc \in Pcs(f.cmd[1]) /\ \E a, b \in Nat : IsPart(l, f.cmd, a, b)
        /\ 0 \notin Pending(f)}
Awaits(r, q) == \E i \in 1 .. Len(r.stack) : q \in Pending(r.stack[i])

Ios == [n : Slots, saved : [0 .. 2 -> Slots \cup {NotSaved}], word : [0 .. 2 -> Nat]]
Simple(r) == r.line.cmds[r.stack[1].cmd[2]]
IoOK(r) ==
    IF r.stack # <<>> /\ r.stack[1].pc \in Redirections
    THEN /\ r.io \in Ios /\ \A k \in 0 .. 2 : r.io.word[k] <= Len(Simple(r).red)
         /\ r.stack[1].pc = "redirect_err" => r.io.word[2] # 0
         /\ Simple(r).verb \in Programs \cup {"cd"}
         /\ Simple(r).verb \in Programs => Len(r.stack) = 1
    ELSE /\ r.io = NoIo
         /\ r.stack # <<>> /\ r.stack[1].pc = "program" =>
                Len(r.stack) = 1 /\ Simple(r).verb \in Programs
Sound(r) ==
    /\ IsRunning(r) /\ r.parent \in Pids \cup {0}
    /\ r.line \in (Lines \ Refused) \cup {None} /\ (r.stack # <<>> => r.line # None)
    /\ r.val \in Values /\ r.fd \in Tables
    /\ r.stack \in Seq(Frames(r.line))
    /\ \A i \in 2 .. Len(r.stack) : r.stack[i].pc \in Calling
    /\ IoOK(r)

LEMMA FrameIs ==
    ASSUME NEW l, NEW f \in Frames(l)
    PROVE  /\ IsFrame(f) /\ f.pid1 \in Pids \cup {0} /\ f.pid2 \in Pids \cup {0} /\ f.saved \in Slots
           /\ f.pc \in Pcs(f.cmd[1]) /\ \E a, b \in Nat : IsPart(l, f.cmd, a, b)
           /\ 0 \notin Pending(f)
BY DEF Frames, IsFrame, FrameOf

LEMMA FrameMade ==
    ASSUME NEW l, IsLine(l), NEW t, NEW a, NEW b, IsPart(l, t, a, b), NEW pc, pc \in Pcs(t[1]),
           NEW pid1 \in Pids \cup {0}, NEW pid2 \in Pids \cup {0}, NEW saved \in Slots,
           0 \notin Pending(FrameOf(t, pc, pid1, pid2, saved))
    PROVE  FrameOf(t, pc, pid1, pid2, saved) \in Frames(l)
<1>1. t \in Trees(l) /\ a \in Nat /\ b \in Nat /\ t[1] \in Operators \cup {"none"}
    BY Parts
<1>2. pc \in AllPcs
    BY <1>1 DEF AllPcs
<1>3. PICK f : f = FrameOf(t, pc, pid1, pid2, saved)
    OBVIOUS
<1>4. f \in [cmd : Trees(l), pc : AllPcs, pid1 : Pids \cup {0}, pid2 : Pids \cup {0}, saved : Slots]
    BY <1>1, <1>2, <1>3 DEF FrameOf
<1>5. f.cmd = t /\ f.pc = pc
    BY <1>3, FieldsOf
<1> QED BY <1>1, <1>3, <1>4, <1>5 DEF Frames

LEMMA LinesAre ==
    /\ \A l \in Lines : IsLine(l) /\ l # None
    /\ 0 \in Slots /\ 1 \in Slots /\ 2 \in Slots /\ 0 \in Values /\ 1 \in Values
    /\ \A s \in 0 .. 2 : s \in Slots
    /\ SHELL_EXIT \in Values /\ 0 \notin Pids /\ shell \in Pids
BY ShellAssumption DEF Values

(* The innermost call of a process.                                         *)
LEMMA TopIs ==
    ASSUME NEW r, Sound(r), r.stack # <<>>, NEW f, f = r.stack[1]
    PROVE  /\ Runs(r, f) /\ f \in Frames(r.line) /\ r.line \in Lines \ Refused /\ IsLine(r.line)
           /\ Head(r.stack) = f /\ Len(r.stack) \in Nat \ {0}
           /\ f.pc \notin Redirections => r.io = NoIo
<1>1. r.line \in Lines \ Refused /\ IsLine(r.line)
    BY LinesAre DEF Sound
<1>2. r.stack \in Seq(Frames(r.line)) /\ f \in Frames(r.line)
    BY StackPop DEF Sound
<1>3. r.stack \in Seq(Range(r.stack)) /\ Head(r.stack) = f /\ Len(r.stack) \in Nat \ {0}
    BY <1>2 DEF Range
<1>4. IsFrame(f)
    BY <1>2, FrameIs
<1> QED BY <1>1, <1>2, <1>3, <1>4 DEF Sound, Runs, IoOK

(* A process that does not redirect and is no program, anew.                *)
Quiet(pc) == pc \notin Redirections \cup {"program"}
LEMMA SoundMade ==
    ASSUME NEW line \in Lines \ Refused, NEW parent \in Pids \cup {0}, NEW fd \in Tables,
           NEW stack \in Seq(Frames(line)), NEW val \in Values,
           \A i \in 2 .. Len(stack) : stack[i].pc \in Calling,
           stack # <<>> => Quiet(stack[1].pc)
    PROVE  Sound(Running(line, parent, fd, stack, val, NoIo))
<1>1. PICK r : r = Running(line, parent, fd, stack, val, NoIo)
    OBVIOUS
<1>2. /\ IsRunning(r) /\ r.line = line /\ r.parent = parent /\ r.fd = fd /\ r.stack = stack
      /\ r.val = val /\ r.io = NoIo
    BY <1>1, FieldsOf
<1>3. IoOK(r)
    BY <1>2 DEF IoOK, Quiet
<1> QED BY <1>1, <1>2, <1>3, LinesAre DEF Sound

MovesTo(r, f, f2, fd, io, r2) ==
    /\ Sound(r) /\ r.stack # <<>> /\ f = r.stack[1] /\ f2 \in Frames(r.line) /\ fd \in Tables
    /\ r2 = Running(r.line, r.parent, fd, OnTop(r.stack, f2), r.val, io) /\ IoOK(r2)
LEMMA Moved ==
    ASSUME NEW r, NEW f, NEW f2, NEW fd, NEW io, NEW r2, MovesTo(r, f, f2, fd, io, r2)
    PROVE  /\ Sound(r2) /\ r2.parent = r.parent
           /\ \A q : Awaits(r, q) /\ q \notin Pending(f) => Awaits(r2, q)
           /\ \A q \in Pending(f2) : Awaits(r2, q)
<1> USE DEF MovesTo
<1>1. /\ r2.stack = OnTop(r.stack, f2) /\ r2.parent = r.parent /\ r2.line = r.line /\ r2.val = r.val
      /\ r2.fd = fd /\ IsRunning(r2)
      /\ r.line \in Lines \ Refused /\ r.parent \in Pids \cup {0} /\ r.val \in Values
      /\ r.stack \in Seq(Frames(r.line)) /\ Len(r.stack) \in Nat \ {0}
    BY TopIs, FieldsOf DEF Sound
<1>2. /\ r2.stack \in Seq(Frames(r.line)) /\ Len(r2.stack) = Len(r.stack) /\ r2.stack[1] = f2
      /\ \A i \in 2 .. Len(r.stack) : r2.stack[i] = r.stack[i]
    <2>1. PICK S, s, s2 : S = Frames(r.line) /\ s = r.stack /\ s2 = OnTop(s, f2)
        OBVIOUS
    <2>2. s \in Seq(S) /\ s # <<>> /\ f2 \in S
        BY <1>1, <2>1
    <2>3. /\ s2 \in Seq(S) /\ Len(s2) = Len(s) /\ s2[1] = f2
          /\ \A i \in 2 .. Len(s) : s2[i] = s[i]
        BY ONLY <2>1, <2>2 DEF OnTop
    <2> QED BY ONLY <1>1, <2>1, <2>3
<1>3. Sound(r2)
    <2>1. \A i \in 2 .. Len(r2.stack) : r2.stack[i].pc \in Calling
        BY <1>2 DEF Sound
    <2>2. r2.line # None
        BY <1>1, LinesAre
    <2> QED BY <1>1, <1>2, <2>1, <2>2 DEF Sound
<1>4. ASSUME NEW q, Awaits(r, q), q \notin Pending(f) PROVE Awaits(r2, q)
    <2>1. PICK i \in 1 .. Len(r.stack) : q \in Pending(r.stack[i])
        BY <1>4 DEF Awaits
    <2>2. i # 1
        BY <1>4, <2>1
    <2>3. i \in 2 .. Len(r.stack)
        BY <1>1, <2>1, <2>2
    <2> QED BY <1>2, <2>1, <2>3 DEF Awaits
<1>5. \A q \in Pending(f2) : Awaits(r2, q)
    <2>1. 1 \in 1 .. Len(r2.stack)
        BY <1>1, <1>2
    <2> QED BY <1>2, <2>1 DEF Awaits
<1> QED BY <1>1, <1>3, <1>4, <1>5

LEMMA Advanced ==
    ASSUME NEW r, Sound(r), r.stack # <<>>, NEW f, f = r.stack[1],
           NEW f2 \in Frames(r.line), Quiet(f2.pc), NEW fd \in Tables,
           NEW r2, r2 = Running(r.line, r.parent, fd, OnTop(r.stack, f2), r.val, NoIo)
    PROVE  /\ Sound(r2) /\ r2.parent = r.parent
           /\ \A q : Awaits(r, q) /\ q \notin Pending(f) => Awaits(r2, q)
           /\ \A q \in Pending(f2) : Awaits(r2, q)
<1>1. /\ r2.stack = OnTop(r.stack, f2) /\ r2.io = NoIo
      /\ r.stack \in Seq(Frames(r.line)) /\ Len(r.stack) \in Nat \ {0}
    BY TopIs, FieldsOf DEF Sound
<1>2. r2.stack[1] = f2
    BY ONLY <1>1 DEF OnTop
<1>3. IoOK(r2)
    BY <1>1, <1>2 DEF IoOK, Quiet
<1>4. MovesTo(r, f, f2, fd, NoIo, r2)
    BY <1>3 DEF MovesTo
<1> QED BY ONLY <1>4, Moved

LEMMA Called ==
    ASSUME NEW r, Sound(r), r.stack # <<>>, NEW f, f = r.stack[1],
           NEW f2 \in Frames(r.line), f2.pc \in Calling, NEW g \in Frames(r.line), Quiet(g.pc),
           NEW fd \in Tables,
           NEW r2, r2 = Running(r.line, r.parent, fd, <<g>> \o OnTop(r.stack, f2), r.val, NoIo)
    PROVE  /\ Sound(r2) /\ r2.parent = r.parent
           /\ \A q : Awaits(r, q) /\ q \notin Pending(f) => Awaits(r2, q)
           /\ \A q \in Pending(f2) : Awaits(r2, q)
<1>1. PICK s2, s3 : s2 = OnTop(r.stack, f2) /\ s3 = <<g>> \o s2
    OBVIOUS
<1>2. /\ r2.stack = s3 /\ r2 = Running(r.line, r.parent, fd, s3, r.val, NoIo) /\ r2.parent = r.parent
      /\ r.line \in Lines \ Refused /\ r.parent \in Pids \cup {0} /\ r.val \in Values
      /\ r.stack \in Seq(Frames(r.line)) /\ Len(r.stack) \in Nat \ {0}
    <2>1. r2 = Running(r.line, r.parent, fd, s3, r.val, NoIo)
        BY <1>1
    <2>2. r2.stack = s3 /\ r2.parent = r.parent
        BY ONLY <2>1, FieldsOf
    <2> QED BY <2>1, <2>2, TopIs DEF Sound
<1>3. /\ s2 \in Seq(Frames(r.line)) /\ Len(s2) = Len(r.stack) /\ s2[1] = f2
      /\ \A i \in 2 .. Len(r.stack) : s2[i] = r.stack[i]
    <2>1. PICK S, s : S = Frames(r.line) /\ s = r.stack
        OBVIOUS
    <2>2. s \in Seq(S) /\ s # <<>> /\ f2 \in S /\ s2 = OnTop(s, f2)
        BY <1>1, <1>2, <2>1
    <2>3. /\ s2 \in Seq(S) /\ Len(s2) = Len(s) /\ s2[1] = f2
          /\ \A i \in 2 .. Len(s) : s2[i] = s[i]
        BY ONLY <2>2 DEF OnTop
    <2> QED BY ONLY <2>1, <2>3
<1>4. /\ r2.stack \in Seq(Frames(r.line)) /\ Len(r2.stack) = Len(r.stack) + 1 /\ r2.stack[1] = g
      /\ \A i \in 2 .. Len(r.stack) + 1 : r2.stack[i] = s2[i - 1]
    <2>1. PICK S : S = Frames(r.line)
        OBVIOUS
    <2>2. s2 \in Seq(S) /\ g \in S /\ s3 = <<g>> \o s2
        BY <1>1, <1>3, <2>1
    <2>3. /\ s3 \in Seq(S) /\ Len(s3) = Len(s2) + 1 /\ s3[1] = g
          /\ \A i \in 2 .. Len(s2) + 1 : s3[i] = s2[i - 1]
        BY ONLY <2>2, StackPush
    <2> QED BY ONLY <1>2, <1>3, <2>1, <2>3
<1>5. Sound(r2)
    <2>1. ASSUME NEW i \in 2 .. Len(r2.stack) PROVE r2.stack[i].pc \in Calling
        <3>1. r2.stack[i] = s2[i - 1] /\ (i = 2 \/ i - 1 \in 2 .. Len(r.stack))
            BY ONLY <1>2, <1>4, i \in 2 .. Len(r2.stack)
        <3>2. i = 2 => s2[i - 1] = f2
            BY <1>3
        <3> QED BY <1>3, <3>1, <3>2 DEF Sound
    <2>2. s3 \in Seq(Frames(r.line)) /\ (s3 # <<>> => Quiet(s3[1].pc))
          /\ \A i \in 2 .. Len(s3) : s3[i].pc \in Calling
        BY <1>2, <1>4, <2>1
    <2> QED BY ONLY fd \in Tables, <1>2, <2>2, SoundMade
<1>6. ASSUME NEW q, Awaits(r, q), q \notin Pending(f) PROVE Awaits(r2, q)
    <2>1. PICK i \in 1 .. Len(r.stack) : q \in Pending(r.stack[i])
        BY <1>6 DEF Awaits
    <2>2. i # 1
        BY <1>6, <2>1
    <2>3. i \in 2 .. Len(r.stack) /\ i + 1 \in 2 .. Len(r.stack) + 1 /\ i + 1 \in 1 .. Len(r2.stack)
          /\ (i + 1) - 1 = i
        BY <1>2, <1>4, <2>1, <2>2
    <2>4. r2.stack[i + 1] = r.stack[i]
        BY <1>3, <1>4, <2>3
    <2> QED BY <2>1, <2>3, <2>4 DEF Awaits
<1>7. \A q \in Pending(f2) : Awaits(r2, q)
    <2>1. 2 \in 1 .. Len(r2.stack) /\ r2.stack[2] = f2
        <3>1. 2 \in 2 .. Len(r.stack) + 1 /\ 2 - 1 = 1
            BY <1>2
        <3> QED BY <1>2, <1>3, <1>4, <3>1
    <2> QED BY <2>1 DEF Awaits
<1> QED BY <1>2, <1>5, <1>6, <1>7

LEMMA Popped ==
    ASSUME NEW r, Sound(r), r.stack # <<>>, NEW f, f = r.stack[1],
           NEW fd \in Tables, NEW v \in Values,
           NEW r2, r2 = Running(r.line, r.parent, fd, Tail(r.stack), v, NoIo)
    PROVE  /\ Sound(r2) /\ r2.parent = r.parent
           /\ \A q : Awaits(r, q) /\ q \notin Pending(f) => Awaits(r2, q)
<1>1. /\ r2.stack = Tail(r.stack) /\ r2.parent = r.parent
      /\ r.line \in Lines \ Refused /\ r.parent \in Pids \cup {0}
      /\ r.stack \in Seq(Frames(r.line)) /\ Len(r.stack) \in Nat \ {0}
    BY TopIs, FieldsOf DEF Sound
<1>2. /\ r2.stack \in Seq(Frames(r.line)) /\ Len(r2.stack) = Len(r.stack) - 1
      /\ \A i \in 1 .. Len(r.stack) - 1 : r2.stack[i] = r.stack[i + 1]
    <2>1. PICK S, s, s2 : S = Frames(r.line) /\ s = r.stack /\ s2 = Tail(s)
        OBVIOUS
    <2>2. s \in Seq(S) /\ s # <<>>
        BY <1>1, <2>1
    <2>3. /\ s2 \in Seq(S) /\ Len(s2) = Len(s) - 1
          /\ \A i \in 1 .. Len(s) - 1 : s2[i] = s[i + 1]
        BY ONLY <2>1, <2>2, StackPop
    <2> QED BY ONLY <1>1, <2>1, <2>3
<1>3. Sound(r2)
    <2>1. ASSUME NEW i \in 1 .. Len(r2.stack) PROVE r2.stack[i].pc \in Calling
        <3>1. i + 1 \in 2 .. Len(r.stack) /\ r2.stack[i] = r.stack[i + 1]
            BY <1>1, <1>2
        <3> QED BY <3>1 DEF Sound
    <2>2. \A i \in 2 .. Len(r2.stack) : r2.stack[i].pc \in Calling
        BY <1>1, <1>2, <2>1
    <2>3. r2.stack # <<>> => Quiet(r2.stack[1].pc)
        <3>1. r2.stack # <<>> => 1 \in 1 .. Len(r2.stack)
            BY <1>2
        <3>2. \A pc \in Calling : Quiet(pc)
            BY DEF Calling, Quiet, Redirections
        <3> QED BY <2>1, <3>1, <3>2
    <2> QED BY <1>1, <1>2, <2>2, <2>3, SoundMade
<1>4. ASSUME NEW q, Awaits(r, q), q \notin Pending(f) PROVE Awaits(r2, q)
    <2>1. PICK i \in 1 .. Len(r.stack) : q \in Pending(r.stack[i])
        BY <1>4 DEF Awaits
    <2>2. i # 1
        BY <1>4, <2>1
    <2>3. i - 1 \in 1 .. Len(r.stack) - 1 /\ (i - 1) + 1 = i /\ i - 1 \in 1 .. Len(r2.stack)
        BY <1>1, <1>2, <2>1, <2>2
    <2> QED BY <1>2, <2>1, <2>3 DEF Awaits
<1> QED BY <1>1, <1>3, <1>4

-----------------------------------------------------------------------------
(* What the parser makes of the redirections of a command of a line.        *)
LEMMA WordsAre ==
    ASSUME NEW l \in Lines \ Refused, NEW i \in 1 .. Len(l.cmds), NEW red, red = l.cmds[i].red
    PROVE  /\ red \in Redirects /\ Words[red].ok /\ WordsInv(red, Len(red), Words[red])
           /\ Len(red) \in Nat /\ DOMAIN red = 1 .. Len(red)
           /\ \A w \in 1 .. Len(red) : red[w][1] \in Kinds /\ <<"file", red[w][2]>> \in Ends
           /\ l.cmds[i] \in Range(l.cmds)
<1>1. IsLine(l) /\ DOMAIN l.cmds = 1 .. Len(l.cmds)
    BY LinesAre, LineFacts
<1>2. PICK c : c = l.cmds[i]
    OBVIOUS
<1>3. c \in Range(l.cmds) /\ IsCommand(c) /\ red = c.red
    BY <1>1, <1>2 DEF IsLine, Range
<1>4. red \in Seq(Range(red)) /\ \A r \in Range(red) : r[1] \in Kinds
    BY <1>3 DEF IsCommand
<1>5. red \in Redirects
    BY <1>3 DEF Redirects
<1>6. Words[red] = redirect(red)
    BY <1>5 DEF Words
<1>7. WordsInv(red, Len(red), Words[red])
    BY <1>4, <1>6, RedirectIs
<1>8. Words[red].ok
    <2>1. Words[red].ok \in BOOLEAN
        BY <1>7 DEF WordsInv, WordLists
    <2> QED BY <1>3, <2>1 DEF Refused
<1>9. Len(red) \in Nat /\ DOMAIN red = 1 .. Len(red)
    BY <1>4
<1>10. \A w \in 1 .. Len(red) : red[w] \in Range(red)
    BY <1>9 DEF Range
<1>11. \A w \in 1 .. Len(red) : red[w][1] \in Kinds /\ <<"file", red[w][2]>> \in Ends
    BY <1>4, <1>5, <1>10 DEF Ends
<1> QED BY <1>2, <1>3, <1>5, <1>7, <1>8, <1>9, <1>11

(* The words a stream has still to be redirected to, one after the other.   *)
LEMMA NextWord ==
    ASSUME NEW red, NEW r, Len(red) \in Nat, WordsInv(red, Len(red), r), NEW w \in 1 .. Len(red)
    PROVE  r.next[w] \in Nat /\ r.next[w] <= Len(red)
<1>1. r.next \in Seq(Nat) /\ Len(r.next) = Len(red)
    BY DEF WordsInv, WordLists, Forward
<1>2. r.next[w] = 0 \/ (r.next[w] > w /\ r.next[w] <= Len(red))
    BY DEF WordsInv, Forward
<1> QED BY <1>1, <1>2

LEMMA FirstWords ==
    ASSUME NEW red, NEW r, Len(red) \in Nat, WordsInv(red, Len(red), r), NEW n \in Slots
    PROVE  /\ IoOf(n, NoIo.saved, r.list) \in Ios
           /\ \A k \in 0 .. 2 : r.list[k] <= Len(red)
<1>1. r.list \in [0 .. 2 -> 0 .. Len(red)]
    BY DEF WordsInv, WordLists
<1>2. NoIo.saved \in [0 .. 2 -> Slots \cup {NotSaved}] /\ r.list \in [0 .. 2 -> Nat]
    BY <1>1 DEF NoIo
<1> QED BY <1>1, <1>2 DEF Ios, IoOf

-----------------------------------------------------------------------------
(* One word of a redirection. *)

LEMMA IosIs ==
    ASSUME NEW io \in Ios
    PROVE  /\ io = IoOf(io.n, io.saved, io.word) /\ io.n \in Slots
           /\ io.saved \in [0 .. 2 -> Slots \cup {NotSaved}] /\ io.word \in [0 .. 2 -> Nat]
BY DEF Ios, IoOf

LEMMA Opens ==
    ASSUME NEW r, IsRunning(r), r.io \in Ios, NEW name, NEW a, a = open(r, name)
    PROVE  a = Running(r.line, r.parent, [r.fd EXCEPT ![Low(r.fd)] = <<"file", name>>], r.stack, r.val,
                       IoOf(Low(r.fd), r.io.saved, r.io.word))
<1>0. PICK line, parent, fd0, stack, val, io : r = Running(line, parent, fd0, stack, val, io)
    BY DEF IsRunning
<1>1. PICK n, saved, word : io = IoOf(n, saved, word)
    BY <1>0, IosIs, FieldsOf
<1>2. PICK low, file : low = Low(fd0) /\ file = <<"file", name>>
    OBVIOUS
<1>3. PICK io2 : io2 = a.io
    OBVIOUS
<1>4. r.fd = fd0 /\ r.io = io
    BY <1>0, FieldsOf
<1>5. a = [r EXCEPT !.io.n = low, !.fd[low] = file]
    BY <1>2, <1>4 DEF open
<1>6. io2 = IoOf(low, saved, word)
    BY <1>0, <1>1, <1>3, <1>5 DEF Running, IoOf
<1>7. a = Running(line, parent, [fd0 EXCEPT ![low] = file], stack, val, io2)
    BY <1>0, <1>3, <1>5 DEF Running
<1>8. /\ r.line = line /\ r.parent = parent /\ r.stack = stack /\ r.val = val
      /\ r.io.saved = saved /\ r.io.word = word
    BY <1>0, <1>1, <1>4, FieldsOf
<1> QED BY <1>2, <1>4, <1>6, <1>7, <1>8

LEMMA Saves ==
    ASSUME NEW r, IsRunning(r), r.io \in Ios, NEW k, NEW a, a = Save(r, k)
    PROVE  IF r.io.saved[k] = NotSaved /\ r.fd[k] # Closed
           THEN a = Running(r.line, r.parent, dup(r.fd, k), r.stack, r.val,
                            IoOf(r.io.n, [r.io.saved EXCEPT ![k] = Low(r.fd)], r.io.word))
           ELSE a = r
<1>0. PICK line, parent, fd0, stack, val, io : r = Running(line, parent, fd0, stack, val, io)
    BY DEF IsRunning
<1>1. PICK n, saved, word : io = IoOf(n, saved, word)
    BY <1>0, IosIs, FieldsOf
<1>2. PICK low, fd2 : low = Low(fd0) /\ fd2 = dup(fd0, k)
    OBVIOUS
<1>3. PICK io2 : io2 = a.io
    OBVIOUS
<1>4. /\ r.fd = fd0 /\ r.io = io /\ r.line = line /\ r.parent = parent /\ r.stack = stack
      /\ r.val = val /\ r.io.n = n /\ r.io.saved = saved /\ r.io.word = word
    BY <1>0, <1>1, FieldsOf
<1>5. CASE r.io.saved[k] = NotSaved /\ r.fd[k] # Closed
    <2>1. a = [r EXCEPT !.io.saved[k] = low, !.fd = fd2]
        BY <1>2, <1>4, <1>5 DEF Save
    <2>2. io2 = IoOf(n, [saved EXCEPT ![k] = low], word)
        BY <1>0, <1>1, <1>3, <2>1 DEF Running, IoOf
    <2>3. a = Running(line, parent, fd2, stack, val, io2)
        BY <1>0, <1>3, <2>1 DEF Running
    <2> QED BY <1>2, <1>4, <1>5, <2>2, <2>3
<1>6. CASE ~ (r.io.saved[k] = NotSaved /\ r.fd[k] # Closed)
    BY <1>6 DEF Save
<1> QED BY <1>5, <1>6

LEMMA RedirectsOne ==
    ASSUME NEW r, IsRunning(r), r.io \in Ios, NEW k, NEW next, NEW a, a = Redirect(r, k, next)
    PROVE  a = Running(r.line, r.parent, close(dup2(r.fd, r.io.n, k), r.io.n), r.stack, r.val,
                       IoOf(r.io.n, r.io.saved, [r.io.word EXCEPT ![k] = next[@]]))
<1>0. PICK line, parent, fd0, stack, val, io : r = Running(line, parent, fd0, stack, val, io)
    BY DEF IsRunning
<1>1. PICK n, saved, word : io = IoOf(n, saved, word)
    BY <1>0, IosIs, FieldsOf
<1>2. PICK fd2 : fd2 = close(dup2(r.fd, r.io.n, k), r.io.n)
    OBVIOUS
<1>3. PICK io2 : io2 = a.io
    OBVIOUS
<1>4. /\ r.fd = fd0 /\ r.io = io /\ r.line = line /\ r.parent = parent /\ r.stack = stack
      /\ r.val = val /\ r.io.n = n /\ r.io.saved = saved /\ r.io.word = word
    BY <1>0, <1>1, FieldsOf
<1>5. a = [r EXCEPT !.fd = fd2, !.io.word[k] = next[@]]
    BY <1>2 DEF Redirect
<1>6. io2 = IoOf(n, saved, [word EXCEPT ![k] = next[@]])
    BY <1>0, <1>1, <1>3, <1>5 DEF Running, IoOf
<1>7. a = Running(line, parent, fd2, stack, val, io2)
    BY <1>0, <1>3, <1>5 DEF Running
<1> QED BY <1>2, <1>4, <1>6, <1>7

LEMMA StreamTypes ==
    ASSUME NEW r, IsRunning(r), r.io \in Ios, r.fd \in Tables, Room(r.fd), NEW k \in 0 .. 2,
           NEW name, <<"file", name>> \in Ends, NEW next, next[r.io.word[k]] \in Nat,
           NEW a, a = r \/ a = open(r, name), NEW b, b = Save(a, k), NEW c, c = Redirect(b, k, next)
    PROVE  /\ c = Running(r.line, r.parent, c.fd, r.stack, r.val, c.io)
           /\ c.fd \in Tables /\ c.io \in Ios
           /\ c.io.word = [r.io.word EXCEPT ![k] = next[r.io.word[k]]]
<1>1. /\ r.io.n \in Slots /\ r.io.saved \in [0 .. 2 -> Slots \cup {NotSaved}]
      /\ r.io.word \in [0 .. 2 -> Nat] /\ k \in Slots
    BY IosIs, LinesAre
<1>2. /\ IsRunning(a) /\ a.line = r.line /\ a.parent = r.parent /\ a.stack = r.stack /\ a.val = r.val
      /\ a.io \in Ios /\ a.io.saved = r.io.saved /\ a.io.word = r.io.word
      /\ a.fd \in Tables /\ Free(a.fd) # {}
    <2>1. Free(r.fd) # {} /\ \A s : Free(r.fd) \ {s} # {}
        BY RoomIs
    <2>2. CASE a = r
        BY <2>1, <2>2
    <2>3. CASE a = open(r, name)
        <3>1. PICK low, fd2, io2 : /\ low = Low(r.fd) /\ fd2 = [r.fd EXCEPT ![low] = <<"file", name>>]
                                   /\ io2 = IoOf(low, r.io.saved, r.io.word)
            OBVIOUS
        <3>2. a = Running(r.line, r.parent, fd2, r.stack, r.val, io2)
            BY <2>3, <3>1, Opens
        <3>3. low \in Slots
            BY <2>1, <3>1, LowIs
        <3>4. fd2 \in Tables
            BY <3>1 DEF Tables
        <3>5. io2 \in Ios /\ io2.saved = r.io.saved /\ io2.word = r.io.word
            BY <1>1, <3>1, <3>3 DEF Ios, IoOf
        <3>6. Free(fd2) # {}
            <4>1. PICK s \in Free(r.fd) \ {low} : TRUE
                BY <2>1
            <4>2. s \in Slots /\ fd2[s] = Closed
                BY <3>1, <3>3, <4>1 DEF Free, Tables
            <4> QED BY <4>2 DEF Free
        <3> QED BY <3>2, <3>4, <3>5, <3>6, FieldsOf
    <2> QED BY <2>2, <2>3
<1>3. /\ IsRunning(b) /\ b.line = r.line /\ b.parent = r.parent /\ b.stack = r.stack /\ b.val = r.val
      /\ b.io \in Ios /\ b.io.word = r.io.word /\ b.fd \in Tables
    <2>1. CASE a.io.saved[k] = NotSaved /\ a.fd[k] # Closed
        <3>1. PICK fd2, io2 : /\ fd2 = dup(a.fd, k)
                              /\ io2 = IoOf(a.io.n, [a.io.saved EXCEPT ![k] = Low(a.fd)], a.io.word)
            OBVIOUS
        <3>2. b = Running(a.line, a.parent, fd2, a.stack, a.val, io2)
            <4>1. /\ IsRunning(a) /\ a.io \in Ios /\ b = Save(a, k)
                  /\ a.io.saved[k] = NotSaved /\ a.fd[k] # Closed
                BY <1>2, <2>1
            <4>2. b = Running(a.line, a.parent, dup(a.fd, k), a.stack, a.val,
                              IoOf(a.io.n, [a.io.saved EXCEPT ![k] = Low(a.fd)], a.io.word))
                BY ONLY <4>1, Saves
            <4> QED BY ONLY <3>1, <4>2
        <3>3. fd2 \in Tables /\ Low(a.fd) \in Slots
            BY <1>1, <1>2, <3>1, DescriptorCalls, LowIs
        <3>4. io2 \in Ios /\ io2.word = a.io.word
            <4>1. a.io.n \in Slots
                BY <1>2, IosIs
            <4>2. [a.io.saved EXCEPT ![k] = Low(a.fd)] \in [0 .. 2 -> Slots \cup {NotSaved}]
                BY <1>1, <1>2, <3>3
            <4> QED BY <1>1, <1>2, <3>1, <4>1, <4>2 DEF Ios, IoOf
        <3> QED BY <1>2, <3>2, <3>3, <3>4, FieldsOf
    <2>2. CASE ~ (a.io.saved[k] = NotSaved /\ a.fd[k] # Closed)
        <3>1. b = a
            BY <1>2, <2>2, Saves
        <3> QED BY <1>2, <3>1
    <2> QED BY <2>1, <2>2
<1>4. PICK fd2, io2 : /\ fd2 = close(dup2(b.fd, b.io.n, k), b.io.n)
                      /\ io2 = IoOf(b.io.n, b.io.saved, [b.io.word EXCEPT ![k] = next[@]])
    OBVIOUS
<1>5. c = Running(b.line, b.parent, fd2, b.stack, b.val, io2)
    BY <1>3, <1>4, RedirectsOne
<1>6. b.io.n \in Slots /\ b.io.saved \in [0 .. 2 -> Slots \cup {NotSaved}]
    BY <1>3, IosIs
<1>7. fd2 \in Tables
    <2>1. PICK d : d = dup2(b.fd, b.io.n, k)
        OBVIOUS
    <2>2. d \in Tables
        BY <1>1, <1>3, <1>6, <2>1, DescriptorCalls
    <2> QED BY <1>4, <1>6, <2>1, <2>2, DescriptorCalls
<1>8. /\ io2.word = [r.io.word EXCEPT ![k] = next[r.io.word[k]]]
      /\ io2 \in Ios
    <2>1. PICK w2 : w2 = [r.io.word EXCEPT ![k] = next[r.io.word[k]]]
        OBVIOUS
    <2>2. io2 = IoOf(b.io.n, b.io.saved, w2)
        BY <1>3, <1>4, <2>1
    <2>3. w2 \in [0 .. 2 -> Nat]
        BY <1>1, <2>1
    <2> QED BY <1>6, <2>1, <2>2, <2>3 DEF Ios, IoOf
<1> QED BY <1>3, <1>5, <1>7, <1>8, FieldsOf

(* With a file opened for an open descriptor: the file takes its place, and *)
(* the first time a copy of it is kept.                                     *)
StreamDone(r, k, file, c) ==
    IF r.io.saved[k] # NotSaved
    THEN /\ c.io.saved = r.io.saved
         /\ \A t \in Slots : c.fd[t] = IF t = k THEN file ELSE r.fd[t]
    ELSE \E s \in Slots :
         /\ r.fd[s] = Closed /\ c.io.saved = [r.io.saved EXCEPT ![k] = s]
         /\ \A t \in Slots : c.fd[t] = IF t = k THEN file ELSE IF t = s THEN r.fd[k] ELSE r.fd[t]
LEMMA StreamEffect ==
    ASSUME NEW r, IsRunning(r), r.io \in Ios, r.fd \in Tables, Room(r.fd), NEW k \in 0 .. 2,
           NEW name, NEW file, file = <<"file", name>>, file \in Ends, NEW next,
           r.fd[k] # Closed,
           NEW a, a = open(r, name), NEW b, b = Save(a, k), NEW c, c = Redirect(b, k, next)
    PROVE  StreamDone(r, k, file, c)
<1> USE DEF StreamDone
<1>1. /\ r.io.n \in Slots /\ r.io.saved \in [0 .. 2 -> Slots \cup {NotSaved}]
      /\ r.io.word \in [0 .. 2 -> Nat] /\ k \in Slots
    BY IosIs, LinesAre
<1>2. Free(r.fd) # {} /\ \A s : Free(r.fd) \ {s} # {}
    BY RoomIs
<1>3. PICK n, fd1, io1 : /\ n = Low(r.fd) /\ fd1 = [r.fd EXCEPT ![n] = file]
                         /\ io1 = IoOf(n, r.io.saved, r.io.word)
    OBVIOUS
<1>4. a = Running(r.line, r.parent, fd1, r.stack, r.val, io1)
    BY <1>3, Opens
<1>5. n \in Slots /\ r.fd[n] = Closed /\ n # k
    BY <1>2, <1>3, LowIs
<1>6. /\ fd1 \in Tables /\ fd1[k] = r.fd[k] /\ fd1[n] = file
      /\ \A t \in Slots : fd1[t] = IF t = n THEN file ELSE r.fd[t]
    BY <1>1, <1>3, <1>5 DEF Tables
<1>7. IsRunning(a) /\ a.fd = fd1 /\ a.io = io1
    BY <1>4, FieldsOf
<1>8. io1 \in Ios /\ io1.n = n /\ io1.saved = r.io.saved /\ io1.word = r.io.word
    BY <1>1, <1>3, <1>5 DEF Ios, IoOf
<1>9. CASE r.io.saved[k] # NotSaved
    <2>1. b = a
        BY <1>7, <1>8, <1>9, Saves
    <2>2. PICK fd2, io2 : /\ fd2 = close(dup2(fd1, n, k), n)
                          /\ io2 = IoOf(n, r.io.saved, [r.io.word EXCEPT ![k] = next[@]])
        OBVIOUS
    <2>3. c = Running(a.line, a.parent, fd2, a.stack, a.val, io2)
        <3>1. IsRunning(a) /\ a.io \in Ios /\ c = Redirect(a, k, next)
            BY <1>7, <1>8, <2>1
        <3>2. c = Running(a.line, a.parent, close(dup2(a.fd, a.io.n, k), a.io.n), a.stack, a.val,
                          IoOf(a.io.n, a.io.saved, [a.io.word EXCEPT ![k] = next[@]]))
            BY ONLY <3>1, RedirectsOne
        <3> QED BY ONLY <1>7, <1>8, <2>2, <3>2
    <2>4. c.fd = fd2 /\ c.io.saved = r.io.saved
        BY <2>2, <2>3, FieldsOf
    <2>5. \A t \in Slots : fd2[t] = IF t = n THEN Closed ELSE IF t = k THEN file ELSE fd1[t]
        BY <1>1, <1>5, <1>6, <2>2 DEF close, dup2, Tables
    <2>6. \A t \in Slots : c.fd[t] = IF t = k THEN file ELSE r.fd[t]
        BY <1>5, <1>6, <2>4, <2>5
    <2> QED BY <1>9, <2>4, <2>6
<1>10. CASE r.io.saved[k] = NotSaved
    <2>1. PICK s, fd2, io2 : /\ s = Low(fd1) /\ fd2 = dup(fd1, k)
                             /\ io2 = IoOf(n, [r.io.saved EXCEPT ![k] = s], r.io.word)
        OBVIOUS
    <2>2. b = Running(a.line, a.parent, fd2, a.stack, a.val, io2)
        <3>1. IsRunning(a) /\ a.io \in Ios /\ b = Save(a, k)
            BY <1>7, <1>8
        <3>2. a.io.saved[k] = NotSaved /\ a.fd[k] # Closed
            BY <1>6, <1>7, <1>8, <1>10
        <3>3. b = Running(a.line, a.parent, dup(a.fd, k), a.stack, a.val,
                          IoOf(a.io.n, [a.io.saved EXCEPT ![k] = Low(a.fd)], a.io.word))
            BY ONLY <3>1, <3>2, Saves
        <3> QED BY ONLY <1>7, <1>8, <2>1, <3>3
    <2>3. Free(fd1) # {}
        <3>1. PICK t \in Free(r.fd) \ {n} : TRUE
            BY <1>2
        <3>2. t \in Slots /\ fd1[t] = Closed
            BY <1>6, <3>1 DEF Free
        <3> QED BY <3>2 DEF Free
    <2>4. s \in Slots /\ fd1[s] = Closed
        BY <2>1, <2>3, LowIs
    <2>5. file # Closed
        BY EndsFacts
    <2>6. s # n /\ s # k /\ r.fd[s] = Closed
        BY <1>6, <2>4, <2>5
    <2>7. fd2 \in Tables /\ \A t \in Slots : fd2[t] = IF t = s THEN r.fd[k] ELSE fd1[t]
        <3>1. fd2 = [fd1 EXCEPT ![s] = fd1[k]]
            BY <2>1 DEF dup
        <3> QED BY <1>1, <1>6, <2>4, <3>1 DEF Tables
    <2>8. io2 \in Ios /\ io2.n = n /\ io2.saved = [r.io.saved EXCEPT ![k] = s]
        <3>1. PICK s2 : s2 = [r.io.saved EXCEPT ![k] = s]
            OBVIOUS
        <3>2. s2 \in [0 .. 2 -> Slots \cup {NotSaved}]
            BY <1>1, <2>4, <3>1
        <3> QED BY <1>1, <1>5, <2>1, <3>1, <3>2 DEF Ios, IoOf
    <2>9. IsRunning(b) /\ b.fd = fd2 /\ b.io = io2
        BY <2>2, FieldsOf
    <2>10. PICK fd3, io3 : /\ fd3 = close(dup2(fd2, n, k), n)
                           /\ io3 = IoOf(n, io2.saved, [io2.word EXCEPT ![k] = next[@]])
        OBVIOUS
    <2>11. c = Running(b.line, b.parent, fd3, b.stack, b.val, io3)
        <3>1. IsRunning(b) /\ b.io \in Ios /\ c = Redirect(b, k, next)
            BY <2>8, <2>9
        <3>2. c = Running(b.line, b.parent, close(dup2(b.fd, b.io.n, k), b.io.n), b.stack, b.val,
                          IoOf(b.io.n, b.io.saved, [b.io.word EXCEPT ![k] = next[@]]))
            BY ONLY <3>1, RedirectsOne
        <3> QED BY ONLY <2>8, <2>9, <2>10, <3>2
    <2>12. c.fd = fd3 /\ c.io.saved = [r.io.saved EXCEPT ![k] = s]
        BY <2>8, <2>10, <2>11, FieldsOf
    <2>13. \A t \in Slots : fd3[t] = IF t = n THEN Closed ELSE IF t = k THEN fd2[n] ELSE fd2[t]
        BY <1>1, <1>5, <2>7, <2>10 DEF close, dup2, Tables
    <2>14. \A t \in Slots : c.fd[t] = IF t = k THEN file ELSE IF t = s THEN r.fd[k] ELSE r.fd[t]
        BY <1>5, <1>6, <2>6, <2>7, <2>12, <2>13
    <2> QED BY <1>10, <2>4, <2>6, <2>12, <2>14
<1> QED BY <1>9, <1>10

-----------------------------------------------------------------------------
(* The plumbing of a line.  pos says which operator of its line a pipe was   *)
(* made for.  The base of a process is its table as its cd command would     *)
(* leave it, and T[i] is the table when the calls above call i of its stack  *)
(* have returned: call i, of the interval a .. b, has the descriptors of     *)
(* that interval, and when the shell has returned from all it has its own.   *)
Base(r) ==
    [s \in Slots |->
        IF s \in 0 .. 2 /\ r.io.saved[s] # NotSaved THEN r.fd[r.io.saved[s]]
        ELSE IF \E k \in 0 .. 2 : r.io.saved[k] = s THEN Closed
        ELSE r.fd[s]]

JoinedTo(end, side, j, pos) == \E k \in Pipes : end = <<side, k>> /\ pos[k] = j
WiredIn(l, a, end, pos) == IF PipeAt(l, a - 1) THEN JoinedTo(end, "read", a - 1, pos) ELSE end = Tty
WiredOut(l, b, end, pos) == IF PipeAt(l, b) THEN JoinedTo(end, "write", b, pos) ELSE end = Tty
Wired(l, a, b, fd, pos) == WiredIn(l, a, fd[0], pos) /\ WiredOut(l, b, fd[1], pos) /\ fd[2] = Tty

Unwinds(p, r, T, pos) ==
    /\ T[0] = Base(r)
    /\ \A i \in 1 .. Len(r.stack) :
        /\ T[i] = IF r.stack[i].pc = "restore" THEN Unpiped(T[i - 1], r.stack[i].saved) ELSE T[i - 1]
        /\ \E a, b \in Nat : IsPart(r.line, r.stack[i].cmd, a, b) /\ Wired(r.line, a, b, T[i], pos)
    /\ p = shell => T[Len(r.stack)] = Terminal

(* A program, or a process about to become one: each stream is a file, or    *)
(* has still to become one, or is that of the command.                       *)
Launched(r) ==
    /\ r.stack # <<>> /\ r.stack[1].pc \in Redirections \cup {"program"}
    /\ Simple(r).verb \in Programs
WiredAt(l, i, k, end, pos) ==
    IF k = 0 THEN WiredIn(l, i, end, pos) ELSE IF k = 1 THEN WiredOut(l, i, end, pos) ELSE end = Tty
Streams(r, pos) ==
    LET red == Simple(r).red IN
    \A k \in 0 .. 2 :
        /\ r.fd[k] # Closed
        /\ r.io.word[k] = 0 \/ r.io.word[k] \in NodesOf(red, k, Len(red))
        /\ r.io.word[k] = 0 =>
            IF NodesOf(red, k, Len(red)) = {} THEN WiredAt(r.line, r.stack[1].cmd[2], k, r.fd[k], pos)
            ELSE \E w \in NodesOf(red, k, Len(red)) :
                    /\ \A v \in NodesOf(red, k, Len(red)) : v <= w
                    /\ r.fd[k] = <<"file", red[w][2]>>

(* The copies a cd command keeps of the descriptors it redirects.           *)
Cding(r) == r.stack # <<>> /\ r.stack[1].pc \in Redirections /\ Simple(r).verb = "cd"
SavedOK(r) ==
    /\ \A k \in {1, 2} : k \in Words[Simple(r).red].append =>
            Words[Simple(r).red].append = {k} /\ r.io.word[3 - k] = 0
    /\ \A k \in 0 .. 2 :
        /\ r.fd[k] # Closed
        /\ r.io.saved[k] # NotSaved =>
            /\ r.io.saved[k] \notin 0 .. 2 /\ r.fd[r.io.saved[k]] # Closed
            /\ \A j \in 0 .. 2 : r.io.saved[j] = r.io.saved[k] => j = k

Plumbed(p, r, pos) ==
    IF Launched(r) THEN Regular(Simple(r).red) => Streams(r, pos)
    ELSE /\ Cding(r) => SavedOK(r)
         /\ \E T \in [0 .. Len(r.stack) -> Tables] : Unwinds(p, r, T, pos)

LEMMA BaseIs ==
    ASSUME NEW r, r.io = NoIo, r.fd \in Tables
    PROVE  Base(r) = r.fd
<1>1. /\ \A s \in 0 .. 2 : r.io.saved[s] = NotSaved
      /\ NotSaved \notin Slots
    BY ShellAssumption DEF NoIo, NotSaved
<1>2. PICK u : u = Base(r)
    OBVIOUS
<1>3. \A s \in Slots : u[s] = r.fd[s]
    BY <1>1, <1>2 DEF Base
<1>4. u = [s \in Slots |-> u[s]]
    BY <1>2 DEF Base
<1>5. r.fd = [s \in Slots |-> r.fd[s]]
    BY DEF Tables
<1> QED BY <1>2, <1>3, <1>4, <1>5

LEMMA QuietIs ==
    ASSUME NEW r, r.stack # <<>> => Quiet(r.stack[1].pc)
    PROVE  ~ Launched(r) /\ ~ Cding(r)
BY DEF Quiet, Launched, Cding

(* The descriptors of the innermost call.                                   *)
LEMMA TopWired ==
    ASSUME NEW p, NEW r, Sound(r), r.stack # <<>>, NEW f, f = r.stack[1], Quiet(f.pc),
           f.pc # "restore", NEW pos, Plumbed(p, r, pos)
    PROVE  \E a, b \in Nat : IsPart(r.line, f.cmd, a, b) /\ Wired(r.line, a, b, r.fd, pos)
<1>1. ~ Launched(r)
    BY QuietIs
<1>2. PICK T \in [0 .. Len(r.stack) -> Tables] : Unwinds(p, r, T, pos)
    BY <1>1 DEF Plumbed
<1>3. 1 \in 1 .. Len(r.stack)
    BY TopIs
<1>4. T[0] = r.fd
    <2>1. r.io = NoIo /\ r.fd \in Tables
        BY TopIs DEF Quiet, Sound
    <2> QED BY <1>2, <2>1, BaseIs DEF Unwinds
<1>5. T[1] = T[0]
    BY <1>2, <1>3 DEF Unwinds
<1> QED BY <1>2, <1>3, <1>4, <1>5 DEF Unwinds

LEMMA PartWired ==
    ASSUME NEW l, IsLine(l), NEW t, NEW a, NEW b, IsPart(l, t, a, b), NEW fd, NEW pos,
           Wired(l, a, b, fd, pos), t[1] \notin {"none", "pipe"}
    PROVE  /\ \E k \in Nat : IsPart(l, t[2], a, k) /\ Wired(l, a, k, fd, pos)
           /\ \E k \in Nat : IsPart(l, t[3], k, b) /\ Wired(l, k, b, fd, pos)
<1>1. PICK k \in Nat : IsPart(l, t[2], a, k) /\ IsPart(l, t[3], k + 1, b) /\ l.ops[k] = t[1]
    BY Parts
<1>2. ~ PipeAt(l, a - 1) /\ ~ PipeAt(l, b) /\ ~ PipeAt(l, k)
    BY <1>1, Parts DEF PipeAt
<1>3. (k + 1) - 1 = k /\ k + 1 \in Nat
    OBVIOUS
<1>4. Wired(l, a, k, fd, pos) /\ Wired(l, k + 1, b, fd, pos)
    BY <1>2, <1>3 DEF Wired, WiredIn, WiredOut
<1> QED BY <1>1, <1>3, <1>4

LEMMA WiredOpen ==
    ASSUME NEW l, NEW a, NEW b, NEW fd, NEW pos, Wired(l, a, b, fd, pos)
    PROVE  \A k \in 0 .. 2 : fd[k] # Closed
<1>1. fd[0] # Closed /\ fd[1] # Closed /\ fd[2] # Closed
    BY EndsFacts DEF Wired, WiredIn, WiredOut, JoinedTo
<1>2. \A k \in 0 .. 2 : k = 0 \/ k = 1 \/ k = 2
    OBVIOUS
<1> QED BY <1>1, <1>2

(* The same calls, after a step of the innermost one.                       *)
LEMMA MovedPlumbed ==
    ASSUME NEW p, NEW r, Sound(r), r.stack # <<>>, NEW f, f = r.stack[1], f.pc # "restore", ~ Launched(r),
           NEW f2 \in Frames(r.line), f2.pc # "restore", f2.cmd = f.cmd,
           NEW pos, Plumbed(p, r, pos), NEW fd, NEW io,
           NEW r2, r2 = Running(r.line, r.parent, fd, OnTop(r.stack, f2), r.val, io),
           ~ Launched(r2), Cding(r2) => SavedOK(r2), Base(r2) = Base(r)
    PROVE  Plumbed(p, r2, pos)
<1>1. /\ r2.stack = OnTop(r.stack, f2) /\ r2.line = r.line
      /\ r.stack \in Seq(Frames(r.line)) /\ Len(r.stack) \in Nat \ {0}
    BY TopIs, FieldsOf DEF Sound
<1>2. /\ Len(r2.stack) = Len(r.stack) /\ r2.stack[1] = f2 /\ r2.stack # <<>>
      /\ \A i \in 2 .. Len(r.stack) : r2.stack[i] = r.stack[i]
    BY ONLY <1>1 DEF OnTop
<1>3. PICK T \in [0 .. Len(r.stack) -> Tables] : Unwinds(p, r, T, pos)
    BY DEF Plumbed
<1>4. ASSUME NEW i \in 1 .. Len(r2.stack)
      PROVE  /\ T[i] = IF r2.stack[i].pc = "restore" THEN Unpiped(T[i - 1], r2.stack[i].saved)
                       ELSE T[i - 1]
             /\ \E a, b \in Nat : IsPart(r2.line, r2.stack[i].cmd, a, b) /\ Wired(r2.line, a, b, T[i], pos)
    <2>1. i \in 1 .. Len(r.stack)
        BY <1>2
    <2>2. CASE i = 1
        BY <1>1, <1>2, <1>3, <2>1, <2>2 DEF Unwinds
    <2>3. CASE i # 1
        <3>1. r2.stack[i] = r.stack[i]
            BY <1>1, <1>2, <2>1, <2>3
        <3> QED BY <1>1, <1>3, <2>1, <3>1 DEF Unwinds
    <2> QED BY <2>2, <2>3
<1>5. Unwinds(p, r2, T, pos)
    BY <1>2, <1>3, <1>4 DEF Unwinds
<1> QED BY <1>2, <1>5 DEF Plumbed

LEMMA AdvancedPlumbed ==
    ASSUME NEW p, NEW r, Sound(r), r.stack # <<>>, NEW f, f = r.stack[1], Quiet(f.pc), f.pc # "restore",
           NEW f2 \in Frames(r.line), Quiet(f2.pc), f2.pc # "restore", f2.cmd = f.cmd,
           NEW pos, Plumbed(p, r, pos),
           NEW r2, r2 = Running(r.line, r.parent, r.fd, OnTop(r.stack, f2), r.val, NoIo)
    PROVE  Plumbed(p, r2, pos)
<1>1. /\ r2.stack = OnTop(r.stack, f2) /\ r2.fd = r.fd /\ r2.io = NoIo
      /\ r.stack \in Seq(Frames(r.line)) /\ Len(r.stack) \in Nat \ {0} /\ r.io = NoIo /\ r.fd \in Tables
    BY TopIs, FieldsOf DEF Sound, Quiet
<1>2. r2.stack[1] = f2
    BY ONLY <1>1 DEF OnTop
<1>3. ~ Launched(r) /\ ~ Launched(r2) /\ ~ Cding(r2)
    BY <1>2, QuietIs
<1>4. Base(r2) = Base(r)
    BY <1>1, BaseIs
<1> QED BY <1>3, <1>4, MovedPlumbed

(* The innermost call calls another.                                        *)
LEMMA CalledPlumbed ==
    ASSUME NEW p, NEW r, Sound(r), r.stack # <<>>, NEW f, f = r.stack[1], Quiet(f.pc), f.pc # "restore",
           NEW f2 \in Frames(r.line), f2.pc # "restore", f2.cmd = f.cmd,
           NEW g \in Frames(r.line), Quiet(g.pc), g.pc # "restore",
           NEW pos, Plumbed(p, r, pos),
           \E a, b \in Nat : IsPart(r.line, g.cmd, a, b) /\ Wired(r.line, a, b, r.fd, pos),
           NEW r2, r2 = Running(r.line, r.parent, r.fd, <<g>> \o OnTop(r.stack, f2), r.val, NoIo)
    PROVE  Plumbed(p, r2, pos)
<1>1. PICK s2, s3 : s2 = OnTop(r.stack, f2) /\ s3 = <<g>> \o s2
    OBVIOUS
<1>2. /\ r2.stack = s3 /\ r2.line = r.line /\ r2.fd = r.fd /\ r2.io = NoIo
    <2>1. r2 = Running(r.line, r.parent, r.fd, s3, r.val, NoIo)
        BY <1>1
    <2> QED BY ONLY <2>1, FieldsOf
<1>3. /\ r.stack \in Seq(Frames(r.line)) /\ Len(r.stack) \in Nat \ {0} /\ r.io = NoIo /\ r.fd \in Tables
    BY TopIs DEF Sound, Quiet
<1>4. /\ s2 \in Seq(Frames(r.line)) /\ Len(s2) = Len(r.stack) /\ s2[1] = f2
      /\ \A i \in 2 .. Len(r.stack) : s2[i] = r.stack[i]
    BY <1>1, <1>3 DEF OnTop
<1>5. /\ Len(s3) = Len(r.stack) + 1 /\ s3[1] = g /\ s3 # <<>>
      /\ \A i \in 2 .. Len(r.stack) + 1 : s3[i] = s2[i - 1]
    <2>1. PICK S : S = Frames(r.line)
        OBVIOUS
    <2>2. s2 \in Seq(S) /\ g \in S /\ s3 = <<g>> \o s2
        BY <1>1, <1>4, <2>1
    <2>3. /\ Len(s3) = Len(s2) + 1 /\ s3[1] = g /\ s3 # <<>>
          /\ \A i \in 2 .. Len(s2) + 1 : s3[i] = s2[i - 1]
        BY ONLY <2>2, StackPush
    <2> QED BY ONLY <1>4, <2>3
<1>6. ~ Launched(r) /\ ~ Launched(r2) /\ ~ Cding(r2)
    BY <1>2, <1>5, QuietIs
<1>7. PICK T \in [0 .. Len(r.stack) -> Tables] : Unwinds(p, r, T, pos)
    BY <1>6 DEF Plumbed
<1>8. Base(r2) = r.fd /\ T[0] = r.fd
    BY <1>2, <1>3, <1>7, BaseIs DEF Unwinds
<1>9. PICK n \in Nat \ {0} : n = Len(r.stack)
    BY <1>3
<1>10. PICK U : U = [i \in 0 .. n + 1 |-> IF i = 0 THEN T[0] ELSE T[i - 1]]
    OBVIOUS
<1>11. /\ U \in [0 .. n + 1 -> Tables] /\ U[0] = T[0] /\ U[1] = T[0] /\ U[n + 1] = T[n]
       /\ \A i \in 1 .. n + 1 : U[i] = T[i - 1]
    <2>1. \A i \in 1 .. n + 1 : i - 1 \in 0 .. n /\ i \in 0 .. n + 1 /\ i # 0
        OBVIOUS
    <2>2. \A i \in 1 .. n + 1 : U[i] = T[i - 1]
        BY <1>10, <2>1
    <2>3. 1 \in 1 .. n + 1 /\ n + 1 \in 1 .. n + 1 /\ 0 \in 0 .. n /\ 0 \in 0 .. n + 1 /\ 1 - 1 = 0 /\ (n + 1) - 1 = n
        OBVIOUS
    <2>4. U[0] = T[0]
        BY <1>10, <2>3
    <2>5. \A i \in 0 .. n + 1 : i = 0 \/ i \in 1 .. n + 1
        OBVIOUS
    <2>6. U \in [0 .. n + 1 -> Tables]
        BY <1>7, <1>9, <1>10, <2>1, <2>3, <2>5
    <2>7. U[1] = T[0] /\ U[n + 1] = T[n]
        BY <2>2, <2>3
    <2> QED BY <2>2, <2>4, <2>6, <2>7
<1>12. ASSUME NEW i \in 1 .. n + 1
       PROVE  /\ U[i] = IF s3[i].pc = "restore" THEN Unpiped(U[i - 1], s3[i].saved) ELSE U[i - 1]
              /\ \E a, b \in Nat : IsPart(r.line, s3[i].cmd, a, b) /\ Wired(r.line, a, b, U[i], pos)
    <2>1. CASE i = 1
        <3>1. U[i] = T[0] /\ U[i - 1] = T[0] /\ s3[i] = g
            BY <1>5, <1>11, <2>1
        <3> QED BY <1>8, <3>1
    <2>2. CASE i # 1
        <3>1. PICK j : j = i - 1
            OBVIOUS
        <3>2. j \in 1 .. n /\ i \in 2 .. n + 1 /\ j \in 1 .. n + 1
            BY <2>2, <3>1
        <3>3. U[i] = T[j] /\ U[i - 1] = T[j - 1] /\ s3[i] = s2[j]
            BY <1>5, <1>9, <1>11, <3>1, <3>2
        <3>4. s2[j].pc = "restore" <=> r.stack[j].pc = "restore"
            <4>1. j = 1 \/ j \in 2 .. n
                BY <3>2
            <4> QED BY <1>4, <1>9, <4>1
        <3>5. s2[j].cmd = r.stack[j].cmd /\ (j # 1 => s2[j] = r.stack[j])
            <4>1. j = 1 \/ j \in 2 .. n
                BY <3>2
            <4> QED BY <1>4, <1>9, <4>1
        <3>6. T[j] = IF s2[j].pc = "restore" THEN Unpiped(T[j - 1], s2[j].saved) ELSE T[j - 1]
            <4>1. T[j] = IF r.stack[j].pc = "restore" THEN Unpiped(T[j - 1], r.stack[j].saved) ELSE T[j - 1]
                BY <1>7, <1>9, <3>2 DEF Unwinds
            <4>2. j = 1 => s2[j].pc # "restore"
                BY <1>4
            <4> QED BY <3>4, <3>5, <4>1, <4>2
        <3>7. \E a, b \in Nat : IsPart(r.line, s2[j].cmd, a, b) /\ Wired(r.line, a, b, T[j], pos)
            BY <1>7, <1>9, <3>2, <3>5 DEF Unwinds
        <3> QED BY ONLY <3>3, <3>6, <3>7
    <2> QED BY <2>1, <2>2
<1>13. p = shell => U[n + 1] = Terminal
    BY <1>7, <1>9, <1>11 DEF Unwinds
<1>14. Len(r2.stack) = n + 1
    BY <1>2, <1>5, <1>9
<1>15. Unwinds(p, r2, U, pos)
    <2>1. U[0] = Base(r2)
        BY <1>8, <1>11
    <2> QED BY ONLY <1>2, <1>12, <1>13, <1>14, <2>1 DEF Unwinds
<1> QED BY <1>6, <1>11, <1>14, <1>15 DEF Plumbed

(* The innermost call returns.                                              *)
LEMMA PoppedPlumbed ==
    ASSUME NEW p, NEW r, Sound(r), r.stack # <<>>, NEW f, f = r.stack[1], f.pc # "restore",
           ~ Launched(r), NEW pos, Plumbed(p, r, pos), NEW v, NEW fd \in Tables, fd = Base(r),
           NEW r2, r2 = Running(r.line, r.parent, fd, Tail(r.stack), v, NoIo)
    PROVE  Plumbed(p, r2, pos)
<1>1. PICK n \in Nat \ {0} : n = Len(r.stack)
    BY TopIs
<1>2. PICK s2 : s2 = Tail(r.stack)
    OBVIOUS
<1>3. /\ r2.stack = s2 /\ r2.line = r.line /\ r2.fd = fd /\ r2.io = NoIo
    <2>1. r2 = Running(r.line, r.parent, fd, s2, v, NoIo)
        BY <1>2
    <2> QED BY ONLY <2>1, FieldsOf
<1>4. /\ Len(s2) = n - 1 /\ \A i \in 1 .. n - 1 : s2[i] = r.stack[i + 1]
    BY <1>1, <1>2 DEF Sound
<1>5. s2 # <<>> => Quiet(s2[1].pc)
    <2>1. s2 # <<>> => 1 \in 1 .. n - 1 /\ 2 \in 2 .. Len(r.stack) /\ s2[1] = r.stack[2]
        <3>1. s2 # <<>> => Len(s2) # 0
            BY <1>2 DEF Sound
        <3> QED BY <1>1, <1>4, <3>1
    <2>2. \A pc \in Calling : Quiet(pc)
        BY DEF Calling, Quiet, Redirections
    <2> QED BY <2>1, <2>2 DEF Sound
<1>6. ~ Launched(r2) /\ ~ Cding(r2)
    BY <1>3, <1>5, QuietIs
<1>7. PICK T \in [0 .. Len(r.stack) -> Tables] : Unwinds(p, r, T, pos)
    BY DEF Plumbed
<1>8. T[1] = T[0] /\ T[0] = fd /\ Base(r2) = fd
    <2>1. 1 \in 1 .. Len(r.stack)
        BY <1>1
    <2> QED BY <1>3, <1>7, <2>1, BaseIs DEF Unwinds
<1>9. PICK U : U = [i \in 0 .. n - 1 |-> T[i + 1]]
    OBVIOUS
<1>10. /\ U \in [0 .. n - 1 -> Tables] /\ \A i \in 0 .. n - 1 : U[i] = T[i + 1]
    <2>1. \A i \in 0 .. n - 1 : i + 1 \in 0 .. n
        OBVIOUS
    <2> QED BY <1>1, <1>7, <1>9, <2>1
<1>11. ASSUME NEW i \in 1 .. n - 1
       PROVE  /\ U[i] = IF s2[i].pc = "restore" THEN Unpiped(U[i - 1], s2[i].saved) ELSE U[i - 1]
              /\ \E a, b \in Nat : IsPart(r.line, s2[i].cmd, a, b) /\ Wired(r.line, a, b, U[i], pos)
    <2>1. PICK j : j = i + 1
        OBVIOUS
    <2>2. j \in 1 .. n /\ j - 1 = i /\ i \in 0 .. n - 1 /\ i - 1 \in 0 .. n - 1 /\ (i - 1) + 1 = i
        BY <2>1
    <2>3. U[i] = T[j] /\ U[i - 1] = T[j - 1] /\ s2[i] = r.stack[j]
        BY <1>4, <1>10, <2>1, <2>2
    <2>4. /\ T[j] = IF r.stack[j].pc = "restore" THEN Unpiped(T[j - 1], r.stack[j].saved) ELSE T[j - 1]
          /\ \E a, b \in Nat : IsPart(r.line, r.stack[j].cmd, a, b) /\ Wired(r.line, a, b, T[j], pos)
        BY <1>1, <1>7, <2>2 DEF Unwinds
    <2> QED BY ONLY <2>3, <2>4
<1>12. p = shell => U[n - 1] = Terminal
    <2>1. n - 1 \in 0 .. n - 1 /\ (n - 1) + 1 = n
        OBVIOUS
    <2> QED BY <1>1, <1>7, <1>10, <2>1 DEF Unwinds
<1>13. U[0] = Base(r2)
    <2>1. 0 \in 0 .. n - 1 /\ 0 + 1 = 1
        OBVIOUS
    <2> QED BY <1>8, <1>10, <2>1
<1>14. Unwinds(p, r2, U, pos)
    BY ONLY <1>3, <1>4, <1>11, <1>12, <1>13 DEF Unwinds
<1>15. U \in [0 .. Len(r2.stack) -> Tables]
    BY <1>3, <1>4, <1>10
<1> QED BY <1>6, <1>14, <1>15 DEF Plumbed

(* The left side of a pipe has returned: its standard output comes back.    *)
LEMMA RestoredPlumbed ==
    ASSUME NEW p, NEW r, Sound(r), r.stack # <<>>, NEW f, f = r.stack[1], f.pc = "restore",
           NEW f2 \in Frames(r.line), Quiet(f2.pc), f2.pc # "restore", f2.cmd = f.cmd,
           NEW pos, Plumbed(p, r, pos), NEW fd \in Tables, fd = Unpiped(r.fd, f.saved),
           NEW r2, r2 = Running(r.line, r.parent, fd, OnTop(r.stack, f2), r.val, NoIo)
    PROVE  Plumbed(p, r2, pos)
<1>1. Quiet(f.pc)
    BY DEF Quiet, Redirections
<1>2. /\ r2.stack = OnTop(r.stack, f2) /\ r2.line = r.line /\ r2.fd = fd /\ r2.io = NoIo
      /\ r.stack \in Seq(Frames(r.line)) /\ Len(r.stack) \in Nat \ {0} /\ r.io = NoIo /\ r.fd \in Tables
    BY <1>1, TopIs, FieldsOf DEF Sound, Quiet
<1>3. /\ Len(r2.stack) = Len(r.stack) /\ r2.stack[1] = f2 /\ r2.stack # <<>>
      /\ \A i \in 2 .. Len(r.stack) : r2.stack[i] = r.stack[i]
    BY ONLY <1>2 DEF OnTop
<1>4. ~ Launched(r) /\ ~ Launched(r2) /\ ~ Cding(r2)
    BY <1>1, <1>3, QuietIs
<1>5. PICK T \in [0 .. Len(r.stack) -> Tables] : Unwinds(p, r, T, pos)
    BY <1>4 DEF Plumbed
<1>6. T[0] = r.fd /\ Base(r2) = fd
    BY <1>2, <1>5, BaseIs DEF Unwinds
<1>7. 1 \in 1 .. Len(r.stack) /\ 1 - 1 = 0
    BY <1>2
<1>8. T[1] = fd
    BY <1>5, <1>6, <1>7 DEF Unwinds
<1>9. PICK U : U = [T EXCEPT ![0] = fd]
    OBVIOUS
<1>10. /\ U \in [0 .. Len(r.stack) -> Tables] /\ U[0] = fd
       /\ \A i \in 1 .. Len(r.stack) : U[i] = T[i]
    BY <1>5, <1>9
<1>11. ASSUME NEW i \in 1 .. Len(r2.stack)
       PROVE  /\ U[i] = IF r2.stack[i].pc = "restore" THEN Unpiped(U[i - 1], r2.stack[i].saved)
                        ELSE U[i - 1]
              /\ \E a, b \in Nat : IsPart(r2.line, r2.stack[i].cmd, a, b) /\ Wired(r2.line, a, b, U[i], pos)
    <2>1. i \in 1 .. Len(r.stack)
        BY <1>3
    <2>2. CASE i = 1
        <3>1. U[i] = fd /\ U[i - 1] = fd /\ r2.stack[i] = f2 /\ f2.cmd = f.cmd
            BY <1>3, <1>7, <1>8, <1>10, <2>2
        <3>2. \E a, b \in Nat : IsPart(r.line, f.cmd, a, b) /\ Wired(r.line, a, b, T[1], pos)
            BY <1>5, <1>7 DEF Unwinds
        <3> QED BY <1>2, <1>8, <3>1, <3>2
    <2>3. CASE i # 1
        <3>1. r2.stack[i] = r.stack[i] /\ U[i] = T[i] /\ U[i - 1] = T[i - 1]
            <4>1. i \in 2 .. Len(r.stack) /\ i - 1 \in 1 .. Len(r.stack)
                BY <1>2, <2>1, <2>3
            <4> QED BY <1>3, <1>10, <4>1
        <3> QED BY <1>2, <1>5, <2>1, <3>1 DEF Unwinds
    <2> QED BY <2>2, <2>3
<1>12. U[Len(r.stack)] = T[Len(r.stack)]
    BY <1>2, <1>10
<1>13. Unwinds(p, r2, U, pos)
    BY <1>3, <1>5, <1>6, <1>10, <1>11, <1>12, Zenon DEF Unwinds
<1> QED BY <1>3, <1>4, <1>10, <1>13 DEF Plumbed

(* A process with one call, or with none.                                   *)
LEMMA StartPlumbed ==
    ASSUME NEW p, NEW line, NEW parent, NEW fd \in Tables, NEW g, Quiet(g.pc), g.pc # "restore",
           NEW val, NEW pos, p = shell => fd = Terminal,
           \E a, b \in Nat : IsPart(line, g.cmd, a, b) /\ Wired(line, a, b, fd, pos),
           NEW r2, r2 = Running(line, parent, fd, <<g>>, val, NoIo)
    PROVE  Plumbed(p, r2, pos)
<1>1. PICK s : s = <<g>>
    OBVIOUS
<1>2. /\ r2.stack = s /\ r2.line = line /\ r2.fd = fd /\ r2.io = NoIo
    <2>1. r2 = Running(line, parent, fd, s, val, NoIo)
        BY <1>1
    <2> QED BY ONLY <2>1, FieldsOf
<1>3. Len(s) = 1 /\ s[1] = g /\ s # <<>>
    BY <1>1
<1>4. ~ Launched(r2) /\ ~ Cding(r2)
    BY <1>2, <1>3, QuietIs
<1>5. PICK T : T = [i \in 0 .. 1 |-> fd]
    OBVIOUS
<1>6. T \in [0 .. 1 -> Tables] /\ T[0] = fd /\ T[1] = fd
    BY <1>5
<1>7. Base(r2) = fd
    BY <1>2, BaseIs
<1>8. \A i \in 1 .. 1 : i = 1 /\ i - 1 = 0
    OBVIOUS
<1>9. Unwinds(p, r2, T, pos)
    BY <1>2, <1>3, <1>6, <1>7, <1>8 DEF Unwinds
<1> QED BY <1>2, <1>3, <1>4, <1>6, <1>9 DEF Plumbed

LEMMA IdlePlumbed ==
    ASSUME NEW p, NEW r2, r2.fd \in Tables, r2.stack = <<>>, r2.io = NoIo, NEW pos
    PROVE  Plumbed(p, r2, pos) <=> (p = shell => r2.fd = Terminal)
<1>1. ~ Launched(r2) /\ ~ Cding(r2)
    BY QuietIs
<1>2. Base(r2) = r2.fd
    BY BaseIs
<1>3. Len(r2.stack) = 0
    OBVIOUS
<1>4. ASSUME Plumbed(p, r2, pos), p = shell PROVE r2.fd = Terminal
    <2>1. PICK T \in [0 .. Len(r2.stack) -> Tables] : Unwinds(p, r2, T, pos)
        BY <1>1, <1>4 DEF Plumbed
    <2> QED BY <1>2, <1>3, <1>4, <2>1 DEF Unwinds
<1>5. ASSUME p = shell => r2.fd = Terminal PROVE Plumbed(p, r2, pos)
    <2>1. PICK T : T = [i \in 0 .. 0 |-> r2.fd]
        OBVIOUS
    <2>2. T \in [0 .. 0 -> Tables] /\ T[0] = r2.fd
        BY <2>1
    <2>3. \A i \in 1 .. 0 : FALSE
        OBVIOUS
    <2>4. Unwinds(p, r2, T, pos)
        BY <1>2, <1>3, <1>5, <2>2, <2>3 DEF Unwinds
    <2> QED BY <1>1, <1>3, <2>2, <2>4 DEF Plumbed
<1> QED BY <1>4, <1>5

-----------------------------------------------------------------------------
(* The redirections of a simple command. *)

(* The simple command on top, and its redirections.                         *)
LEMMA SimpleIs ==
    ASSUME NEW r, Sound(r), r.stack # <<>>, NEW f, f = r.stack[1], f.cmd[1] = "none",
           NEW red, red = Simple(r).red
    PROVE  /\ f.cmd[2] \in 1 .. Len(r.line.cmds) /\ r.line \in Lines \ Refused /\ IsLine(r.line)
           /\ IsPart(r.line, f.cmd, f.cmd[2], f.cmd[2])
           /\ red = r.line.cmds[f.cmd[2]].red /\ red \in Redirects
           /\ WordsInv(red, Len(red), Words[red]) /\ Words[red].ok
           /\ Len(red) \in Nat /\ DOMAIN red = 1 .. Len(red)
           /\ \A w \in 1 .. Len(red) : red[w][1] \in Kinds /\ <<"file", red[w][2]>> \in Ends
           /\ Simple(r) \in Range(r.line.cmds)
<1>1. f \in Frames(r.line) /\ r.line \in Lines \ Refused /\ IsLine(r.line)
    BY TopIs
<1>2. PICK a \in Nat, b \in Nat : IsPart(r.line, f.cmd, a, b)
    BY <1>1, FrameIs
<1>3. a = b /\ f.cmd[2] = a /\ a \in 1 .. Len(r.line.cmds)
    BY <1>1, <1>2, Parts
<1>4. Simple(r) = r.line.cmds[a] /\ red = r.line.cmds[a].red
    BY <1>3 DEF Simple
<1>5. /\ red \in Redirects /\ Words[red].ok /\ WordsInv(red, Len(red), Words[red])
      /\ Len(red) \in Nat /\ DOMAIN red = 1 .. Len(red)
      /\ \A w \in 1 .. Len(red) : red[w][1] \in Kinds /\ <<"file", red[w][2]>> \in Ends
      /\ r.line.cmds[a] \in Range(r.line.cmds)
    BY <1>1, <1>3, <1>4, WordsAre
<1> QED BY <1>1, <1>2, <1>3, <1>4, <1>5

LEMMA PcIs ==
    ASSUME NEW r, Sound(r), r.stack # <<>>, NEW f, f = r.stack[1],
           f.pc \in Redirections \cup {"program", "wait"}
    PROVE  f.cmd[1] = "none"
<1>1. f.pc \in Pcs(f.cmd[1])
    BY TopIs, FrameIs
<1> QED BY <1>1 DEF Pcs, Redirections

(* Only one output is redirected by a command that appends and does not     *)
(* skip.                                                                    *)
RightModeOf(r, k) == k = 0 \/ Words[Simple(r).red].append \in {{}, {k}}

LEMMA RightModeOfCd ==
    ASSUME NEW r, Sound(r), r.stack # <<>>, r.stack[1].cmd[1] = "none", SavedOK(r),
           NEW k \in 0 .. 2, r.io.word[k] # 0
    PROVE  RightModeOf(r, k)
<1>1. PICK red : red = Simple(r).red
    OBVIOUS
<1>2. Words[red].append \in SUBSET {1, 2}
    BY <1>1, SimpleIs DEF WordsInv, WordLists
<1>3. SUFFICES ASSUME k # 0, Words[red].append # {} PROVE Words[red].append = {k}
    BY <1>1 DEF RightModeOf
<1>4. PICK j \in {1, 2} : j \in Words[red].append
    BY <1>2, <1>3
<1>5. Words[red].append = {j} /\ r.io.word[3 - j] = 0
    BY <1>1, <1>4 DEF SavedOK
<1>6. k \in {1, 2} /\ k # 3 - j
    BY <1>3, <1>5
<1>7. k = j
    BY <1>6
<1> QED BY <1>5, <1>7

LEMMA RightModeOfProgram ==
    ASSUME NEW r, Sound(r), r.stack # <<>>, r.stack[1].cmd[1] = "none", NEW red, red = Simple(r).red,
           ~ Skips(red), NEW k \in 0 .. 2, r.io.word[k] \in NodesOf(red, k, Len(red))
    PROVE  RightModeOf(r, k)
<1>1. /\ WordsInv(red, Len(red), Words[red]) /\ DOMAIN red = 1 .. Len(red)
    BY SimpleIs
<1>2. Words[red].append \in SUBSET {1, 2}
    BY <1>1 DEF WordsInv, WordLists
<1>3. SUFFICES ASSUME NEW j \in {1, 2}, j \in Words[red].append, k # 0, k # j PROVE FALSE
    BY <1>2 DEF RightModeOf
<1>4. PICK w \in 1 .. Len(red) : Appends(j, red[w][1])
    BY <1>1, <1>3 DEF WordsInv
<1>5. PICK v \in 1 .. Len(red) : red[v][1] \in KindsOf(k)
    BY DEF NodesOf
<1>6. red[w] \in Range(red) /\ red[v] \in Range(red)
    BY <1>1 DEF Range
<1>7. (j = 1 /\ k = 2) \/ (j = 2 /\ k = 1)
    BY <1>3
<1>8. CASE j = 1 /\ k = 2
    <2>1. red[w][1] = ">>" /\ red[v][1] \in {"2>", "2>>", "&>"}
        BY <1>4, <1>5, <1>8 DEF Appends, KindsOf
    <2> QED BY <1>6, <2>1 DEF Skips
<1>9. CASE j = 2 /\ k = 1
    <2>1. red[w][1] = "2>>" /\ red[v][1] \in {">", ">>", "&>"}
        BY <1>4, <1>5, <1>9 DEF Appends, KindsOf
    <2> QED BY <1>6, <2>1 DEF Skips
<1> QED BY <1>7, <1>8, <1>9

(* What a regular command has still to do.                                  *)
LEMMA WordsOfRegular ==
    ASSUME NEW r, Sound(r), r.stack # <<>>, r.stack[1].cmd[1] = "none", NEW red, red = Simple(r).red,
           NEW k \in 0 .. 2
    PROVE  LET N == NodesOf(red, k, Len(red))  words == Words[red] IN
           /\ words.list[k] = 0 <=> N = {}
           /\ ~ Shares(red) => /\ words.list[k] # 0 => words.list[k] \in N
                               /\ \A w \in N : IF words.next[w] = 0 THEN \A v \in N : v <= w
                                               ELSE words.next[w] \in N
<1>1. /\ WordsInv(red, Len(red), Words[red]) /\ DOMAIN red = 1 .. Len(red) /\ Words[red].ok
    BY SimpleIs
<1>2. ~ Shares(red) => ~ SharesBy(red, Len(red))
    BY <1>1 DEF Shares, SharesBy
<1>3. Chain(Linked(red, k, Len(red)), Words[red].list[k], Words[red].next)
    BY <1>1 DEF WordsInv
<1>4. /\ Linked(red, k, Len(red)) = {} <=> NodesOf(red, k, Len(red)) = {}
      /\ ~ Shares(red) => Linked(red, k, Len(red)) = NodesOf(red, k, Len(red))
    <2>1. Len(red) \in Nat
        BY <1>1 DEF WordsInv, WordLists, Forward
    <2> QED BY <1>2, <2>1, LinkedNodes
<1>5. Words[red].list[k] = 0 <=> NodesOf(red, k, Len(red)) = {}
    BY <1>3, <1>4 DEF Chain
<1>6. ASSUME ~ Shares(red)
      PROVE  LET N == NodesOf(red, k, Len(red))  words == Words[red] IN
             /\ words.list[k] # 0 => words.list[k] \in N
             /\ \A w \in N : IF words.next[w] = 0 THEN \A v \in N : v <= w
                             ELSE words.next[w] \in N
    BY <1>3, <1>4, <1>6 DEF Chain
<1> QED BY <1>5, <1>6

(* Of the lists at the start, when the command does not skip.               *)
LEMMA AppendsOfCd ==
    ASSUME NEW r, Sound(r), r.stack # <<>>, r.stack[1].cmd[1] = "none", NEW red, red = Simple(r).red,
           ~ Skips(red), NEW k \in {1, 2}, k \in Words[red].append
    PROVE  Words[red].append = {k} /\ Words[red].list[3 - k] = 0
<1>1. /\ WordsInv(red, Len(red), Words[red]) /\ DOMAIN red = 1 .. Len(red) /\ Words[red].ok
    BY SimpleIs
<1>2. Words[red].append \in SUBSET {1, 2}
    BY <1>1 DEF WordsInv, WordLists
<1>3. PICK w \in 1 .. Len(red) : Appends(k, red[w][1])
    BY <1>1 DEF WordsInv
<1>4. PICK j \in {1, 2} : j = 3 - k
    OBVIOUS
<1>5. \A v \in 1 .. Len(red) : red[v] \in Range(red)
    BY <1>1 DEF Range
<1>6. (k = 1 /\ j = 2) \/ (k = 2 /\ j = 1)
    BY <1>4
<1>7. ASSUME NEW v \in 1 .. Len(red), red[v][1] \in KindsOf(j) PROVE FALSE
    <2>1. CASE k = 1 /\ j = 2
        <3>1. red[w][1] = ">>" /\ red[v][1] \in {"2>", "2>>", "&>"}
            BY <1>3, <1>7, <2>1 DEF Appends, KindsOf
        <3> QED BY <1>5, <3>1 DEF Skips
    <2>2. CASE k = 2 /\ j = 1
        <3>1. red[w][1] = "2>>" /\ red[v][1] \in {">", ">>", "&>"}
            BY <1>3, <1>7, <2>2 DEF Appends, KindsOf
        <3> QED BY <1>5, <3>1 DEF Skips
    <2> QED BY <1>6, <2>1, <2>2
<1>8. Words[red].list[j] = 0
    <2>1. NodesOf(red, j, Len(red)) = {}
        BY <1>7 DEF NodesOf
    <2>2. j \in 0 .. 2
        BY <1>6
    <2>3. Words[red].list[j] = 0 <=> NodesOf(red, j, Len(red)) = {}
        BY <2>2, WordsOfRegular
    <2> QED BY <2>1, <2>3
<1>9. j \notin Words[red].append
    <2>1. \A v \in 1 .. Len(red) : Appends(j, red[v][1]) => red[v][1] \in KindsOf(j)
        BY DEF Appends, KindsOf
    <2> QED BY <1>1, <1>7, <2>1 DEF WordsInv
<1>10. \A x : x \in {1, 2} <=> x = j \/ x = k
    BY <1>6
<1> QED BY <1>2, <1>4, <1>8, <1>9, <1>10

-----------------------------------------------------------------------------
(* The steps of one process.  Steps(p, r, r2): the step keeps what holds of  *)
(* the process, and the children it waits for except those of the innermost  *)
(* call.                                                                     *)
Root(r) == r.stack[Len(r.stack)].cmd
SameRoot(r, r2) == r2.stack # <<>> => r2.line = r.line /\ Root(r2) = Root(r)
Advances(r, r2) ==
    /\ Sound(r2) /\ r2.parent = r.parent /\ SameRoot(r, r2) /\ (Launched(r2) => Launched(r))
    /\ \A q : Awaits(r, q) /\ q \notin Pending(r.stack[1]) => Awaits(r2, q)
Steps(p, r, r2) ==
    /\ Advances(r, r2)
    /\ \A pos : NoCdSkips /\ Plumbed(p, r, pos) => Plumbed(p, r2, pos)

LEMMA Roots ==
    ASSUME NEW r, Sound(r), r.stack # <<>>, NEW r2, r2.line = r.line
    PROVE  /\ \A f2 : f2.cmd = r.stack[1].cmd /\ r2.stack = OnTop(r.stack, f2) => SameRoot(r, r2)
           /\ \A f2, g : f2.cmd = r.stack[1].cmd /\ r2.stack = <<g>> \o OnTop(r.stack, f2) => SameRoot(r, r2)
           /\ r2.stack = Tail(r.stack) => SameRoot(r, r2)
<1>1. PICK s : s = r.stack
    OBVIOUS
<1>2. PICK n \in Nat \ {0} : n = Len(s)
    BY <1>1, TopIs
<1>3. s \in Seq(Range(s)) /\ s # <<>>
    BY <1>1, TopIs DEF Runs
<1>4. \A f2 : Len(OnTop(s, f2)) = n /\ OnTop(s, f2)[1] = f2
              /\ \A i \in 2 .. n : OnTop(s, f2)[i] = s[i]
    BY <1>2, <1>3 DEF OnTop
<1>5. \A f2 : f2.cmd = s[1].cmd => OnTop(s, f2)[n].cmd = s[n].cmd
    <2>1. n = 1 \/ n \in 2 .. n
        BY <1>2
    <2> QED BY <1>4, <2>1
<1>6. \A f2, g : Len(<<g>> \o OnTop(s, f2)) = n + 1 /\ (<<g>> \o OnTop(s, f2))[n + 1] = OnTop(s, f2)[n]
    <2>1. SUFFICES ASSUME NEW f2, NEW g
                   PROVE  Len(<<g>> \o OnTop(s, f2)) = n + 1 /\ (<<g>> \o OnTop(s, f2))[n + 1] = OnTop(s, f2)[n]
        OBVIOUS
    <2>2. PICK S, s2, s3 : S = Range(s) \cup {f2, g} /\ s2 = OnTop(s, f2) /\ s3 = <<g>> \o s2
        OBVIOUS
    <2>3. s2 \in Seq(S) /\ g \in S
        BY <1>2, <1>3, <2>2 DEF OnTop
    <2>4. Len(s3) = Len(s2) + 1 /\ \A i \in 2 .. Len(s2) + 1 : s3[i] = s2[i - 1]
        BY ONLY <2>2, <2>3, StackPush
    <2>5. Len(s2) = n /\ n + 1 \in 2 .. n + 1 /\ (n + 1) - 1 = n
        BY <1>2, <1>4, <2>2
    <2> QED BY <2>2, <2>4, <2>5
<1>7. Tail(s) # <<>> => Len(Tail(s)) = n - 1 /\ Tail(s)[n - 1] = s[n]
    BY <1>2, <1>3
<1>8. ASSUME NEW f2, f2.cmd = s[1].cmd, r2.stack = OnTop(s, f2) PROVE SameRoot(r, r2)
    <2>1. Len(r2.stack) = n /\ r2.stack[n].cmd = s[n].cmd
        BY <1>4, <1>5, <1>8
    <2> QED BY <1>1, <1>2, <2>1 DEF SameRoot, Root
<1>9. ASSUME NEW f2, NEW g, f2.cmd = s[1].cmd, r2.stack = <<g>> \o OnTop(s, f2) PROVE SameRoot(r, r2)
    <2>1. Len(r2.stack) = n + 1 /\ r2.stack[n + 1].cmd = s[n].cmd
        BY <1>5, <1>6, <1>9
    <2> QED BY <1>1, <1>2, <2>1 DEF SameRoot, Root
<1>10. ASSUME r2.stack = Tail(s) PROVE SameRoot(r, r2)
    BY <1>1, <1>2, <1>7, <1>10 DEF SameRoot, Root
<1> QED BY <1>1, <1>8, <1>9, <1>10

LEMMA ReturnSteps ==
    ASSUME NEW p, NEW r, Sound(r), r.stack # <<>>, NEW f, f = r.stack[1], Quiet(f.pc), f.pc # "restore",
           NEW v \in Values
    PROVE  Steps(p, r, Return(r, v))
<1>1. IsRunning(r) /\ r.io = NoIo /\ r.fd \in Tables /\ ~ Launched(r)
    BY TopIs, QuietIs DEF Sound, Quiet
<1>2. PICK r2 : r2 = Return(r, v)
    OBVIOUS
<1>3. r2 = Running(r.line, r.parent, r.fd, Tail(r.stack), v, NoIo)
    BY <1>1, <1>2, Returns
<1>4. r2.line = r.line /\ r2.stack = Tail(r.stack)
    BY <1>3, FieldsOf
<1>5. SameRoot(r, r2)
    BY <1>4, Roots
<1>6. /\ Sound(r2) /\ r2.parent = r.parent
      /\ \A q : Awaits(r, q) /\ q \notin Pending(f) => Awaits(r2, q)
    BY <1>1, <1>3, Popped
<1>7. ASSUME NEW pos, Plumbed(p, r, pos) PROVE Plumbed(p, r2, pos)
    <2>1. r.fd = Base(r)
        BY <1>1, BaseIs
    <2> QED BY <1>1, <1>3, <1>7, <2>1, PoppedPlumbed
<1>8. ~ Launched(r2)
    <2>1. r2.stack # <<>> => r2.stack[1] = r.stack[2] /\ 2 \in 2 .. Len(r.stack)
        <3>1. PICK S, s : S = Frames(r.line) /\ s = r.stack
            OBVIOUS
        <3>2. s \in Seq(S) /\ s # <<>>
            BY <3>1 DEF Sound
        <3>3. Tail(s) # <<>> => Tail(s)[1] = s[2] /\ 2 \in 2 .. Len(s)
            BY ONLY <3>2
        <3> QED BY <1>4, <3>1, <3>3
    <2>2. \A pc \in Calling : Quiet(pc)
        BY DEF Calling, Quiet, Redirections
    <2> QED BY <2>1, <2>2, QuietIs DEF Sound
<1> QED BY <1>2, <1>5, <1>6, <1>7, <1>8 DEF Steps, Advances

(* The innermost call goes on: f becomes f2. *)
AdvancesTo(r, f, f2, r2) ==
    /\ Sound(r) /\ r.stack # <<>> /\ f = r.stack[1] /\ Quiet(f.pc) /\ f.pc # "restore"
    /\ f2 \in Frames(r.line) /\ Quiet(f2.pc) /\ f2.pc # "restore" /\ f2.cmd = f.cmd
    /\ r2 = Running(r.line, r.parent, r.fd, OnTop(r.stack, f2), r.val, NoIo)
LEMMA AdvanceSteps ==
    ASSUME NEW p, NEW r, NEW f, NEW f2, NEW r2, AdvancesTo(r, f, f2, r2)
    PROVE  Steps(p, r, r2) /\ \A q \in Pending(f2) : Awaits(r2, q)
<1> USE DEF AdvancesTo
<1>1. r2.line = r.line /\ r2.stack = OnTop(r.stack, f2)
    BY FieldsOf
<1>2. SameRoot(r, r2)
    BY <1>1, Roots
<1>3. r.fd \in Tables
    BY DEF Sound
<1>4. /\ Sound(r2) /\ r2.parent = r.parent
      /\ \A q : Awaits(r, q) /\ q \notin Pending(f) => Awaits(r2, q)
      /\ \A q \in Pending(f2) : Awaits(r2, q)
    BY <1>3, Advanced
<1>5. ASSUME NEW pos, Plumbed(p, r, pos) PROVE Plumbed(p, r2, pos)
    BY <1>5, AdvancedPlumbed
<1>6. ~ Launched(r2)
    <2>1. r2.stack[1] = f2
        BY <1>1, TopIs DEF OnTop, Runs
    <2> QED BY <2>1, QuietIs
<1> QED BY <1>2, <1>4, <1>5, <1>6 DEF Steps, Advances

(* The frames of a call that is at another place. *)
IsAt(r, f, pc, pid1, pid2, saved, f2) ==
    /\ Sound(r) /\ r.stack # <<>> /\ f = r.stack[1] /\ pc \in Pcs(f.cmd[1])
    /\ pid1 \in Pids \cup {0} /\ pid2 \in Pids \cup {0} /\ saved \in Slots
    /\ f2 = FrameOf(f.cmd, pc, pid1, pid2, saved) /\ 0 \notin Pending(f2)
LEMMA FrameAt ==
    ASSUME NEW r, NEW f, NEW pc, NEW pid1, NEW pid2, NEW saved, NEW f2,
           IsAt(r, f, pc, pid1, pid2, saved, f2)
    PROVE  /\ f2 \in Frames(r.line)
           /\ f2.cmd = f.cmd /\ f2.pc = pc /\ f2.pid1 = pid1 /\ f2.pid2 = pid2 /\ f2.saved = saved
<1> USE DEF IsAt
<1>1. IsLine(r.line) /\ f \in Frames(r.line)
    BY TopIs
<1>2. PICK a \in Nat, b \in Nat : IsPart(r.line, f.cmd, a, b)
    BY <1>1, FrameIs
<1> QED BY <1>1, <1>2, FrameMade, FieldsOf

LEMMA GotoSteps ==
    ASSUME NEW p, NEW r, Sound(r), r.stack # <<>>, NEW f, f = r.stack[1], f.pc = "wait1"
    PROVE  Steps(p, r, Goto(r, "wait2")) /\ Awaits(Goto(r, "wait2"), f.pid2)
<1>1. Runs(r, f) /\ r.io = NoIo /\ f \in Frames(r.line) /\ Quiet(f.pc) /\ f.pc # "restore"
    BY TopIs DEF Quiet, Redirections
<1>2. PICK r2, f2, pc :
            /\ pc = "wait2" /\ r2 = Goto(r, pc) /\ f2 = FrameOf(f.cmd, pc, f.pid1, f.pid2, f.saved)
    OBVIOUS
<1>3. r2 = Running(r.line, r.parent, r.fd, OnTop(r.stack, f2), r.val, NoIo)
    BY <1>1, <1>2, GoesTo
<1>4. /\ f.pid1 \in Pids \cup {0} /\ f.pid2 \in Pids \cup {0} /\ f.saved \in Slots
      /\ pc \in Pcs(f.cmd[1]) /\ 0 \notin Pending(f)
    <2>1. f.pc \in Pcs(f.cmd[1])
        BY <1>1, FrameIs
    <2>2. pc \in Pcs(f.cmd[1])
        BY <1>2, <2>1 DEF Pcs, Redirections
    <2> QED BY <1>1, <2>2, FrameIs
<1>5. f2 \in Frames(r.line) /\ f2.cmd = f.cmd /\ f2.pc = pc /\ f2.pid2 = f.pid2
    <2>1. f2.pc = pc /\ f2.pid2 = f.pid2
        BY <1>2, FieldsOf
    <2>2. 0 \notin Pending(f2)
        BY <1>2, <1>4, <2>1 DEF Pending
    <2>3. IsAt(r, f, pc, f.pid1, f.pid2, f.saved, f2)
        BY <1>2, <1>4, <2>2 DEF IsAt
    <2> QED BY <2>3, FrameAt
<1>6. AdvancesTo(r, f, f2, r2)
    <2>1. Quiet(f2.pc) /\ f2.pc # "restore"
        BY <1>2, <1>5 DEF Quiet, Redirections
    <2> QED BY <1>1, <1>3, <1>5, <2>1 DEF AdvancesTo
<1>7. Steps(p, r, r2) /\ \A q \in Pending(f2) : Awaits(r2, q)
    BY <1>6, AdvanceSteps
<1>8. f.pid2 \in Pending(f2)
    BY <1>2, <1>5 DEF Pending
<1> QED BY <1>2, <1>7, <1>8

LEMMA StartedSteps ==
    ASSUME NEW p, NEW r, Sound(r), r.stack # <<>>, NEW f, f = r.stack[1], f.pc \in {"start", "fork2"},
           NEW k \in Pids
    PROVE  /\ f.pc = "start" /\ f.cmd[1] = "none" =>
                Steps(p, r, Started1(r, "wait", k)) /\ Awaits(Started1(r, "wait", k), k)
           /\ f.pc = "start" /\ f.cmd[1] = "parallel" =>
                Steps(p, r, Started1(r, "fork2", k)) /\ Awaits(Started1(r, "fork2", k), k)
           /\ f.pc = "fork2" =>
                /\ Steps(p, r, Started2(r, "wait1", k))
                /\ Awaits(Started2(r, "wait1", k), k) /\ Awaits(Started2(r, "wait1", k), f.pid1)
<1>1. Runs(r, f) /\ r.io = NoIo /\ f \in Frames(r.line) /\ Quiet(f.pc) /\ f.pc # "restore"
    BY TopIs DEF Quiet, Redirections
<1>2. f.pid1 \in Pids \cup {0} /\ f.pid2 \in Pids \cup {0} /\ f.saved \in Slots /\ f.pc \in Pcs(f.cmd[1])
    BY <1>1, FrameIs
<1>3. \A pc \in {"wait", "fork2", "wait1"} : Quiet(pc) /\ pc # "restore"
    BY DEF Quiet, Redirections
<1>4. ASSUME NEW pc \in {"wait", "fork2"}, pc \in Pcs(f.cmd[1])
      PROVE  Steps(p, r, Started1(r, pc, k)) /\ Awaits(Started1(r, pc, k), k)
    <2>1. PICK r2, f2 : r2 = Started1(r, pc, k) /\ f2 = FrameOf(f.cmd, pc, k, f.pid2, f.saved)
        OBVIOUS
    <2>2. r2 = Running(r.line, r.parent, r.fd, OnTop(r.stack, f2), r.val, NoIo)
        BY <1>1, <2>1, Starts1
    <2>3. f2 \in Frames(r.line) /\ f2.cmd = f.cmd /\ f2.pc = pc /\ f2.pid1 = k
        <3>1. k \in Pids \cup {0}
            OBVIOUS
        <3>2. f2.pc = pc /\ f2.pid1 = k
            BY <2>1, FieldsOf
        <3>3. 0 \notin Pending(f2)
            BY <1>4, <3>2, LinesAre DEF Pending
        <3>4. IsAt(r, f, pc, k, f.pid2, f.saved, f2)
            BY <1>2, <1>4, <2>1, <3>1, <3>3 DEF IsAt
        <3> QED BY <3>4, FrameAt
    <2>4. AdvancesTo(r, f, f2, r2)
        BY <1>1, <1>3, <2>2, <2>3 DEF AdvancesTo
    <2>5. Steps(p, r, r2) /\ \A q \in Pending(f2) : Awaits(r2, q)
        BY <2>4, AdvanceSteps
    <2>6. k \in Pending(f2)
        BY <1>4, <2>3 DEF Pending
    <2> QED BY <2>1, <2>5, <2>6
<1>5. ASSUME f.pc = "fork2"
      PROVE  /\ Steps(p, r, Started2(r, "wait1", k))
             /\ Awaits(Started2(r, "wait1", k), k) /\ Awaits(Started2(r, "wait1", k), f.pid1)
    <2>0. PICK pc : pc = "wait1"
        OBVIOUS
    <2>1. PICK r2, f2 : r2 = Started2(r, pc, k) /\ f2 = FrameOf(f.cmd, pc, f.pid1, k, f.saved)
        OBVIOUS
    <2>2. r2 = Running(r.line, r.parent, r.fd, OnTop(r.stack, f2), r.val, NoIo)
        BY <1>1, <2>1, Starts2
    <2>3. "wait1" \in Pcs(f.cmd[1])
        BY <1>2, <1>5 DEF Pcs, Redirections
    <2>4. f2 \in Frames(r.line) /\ f2.cmd = f.cmd /\ f2.pc = pc /\ f2.pid1 = f.pid1 /\ f2.pid2 = k
        <3>1. k \in Pids \cup {0}
            OBVIOUS
        <3>2. f2.pc = pc /\ f2.pid1 = f.pid1 /\ f2.pid2 = k
            BY <2>1, FieldsOf
        <3>3. 0 \notin Pending(f2)
            <4>1. 0 \notin Pending(f) /\ f.pid1 \in Pending(f)
                BY <1>1, <1>5, FrameIs DEF Pending
            <4> QED BY <3>2, <4>1, LinesAre DEF Pending
        <3>4. IsAt(r, f, pc, f.pid1, k, f.saved, f2)
            BY <1>2, <2>0, <2>1, <2>3, <3>1, <3>3 DEF IsAt
        <3> QED BY <3>4, FrameAt
    <2>5. AdvancesTo(r, f, f2, r2)
        BY <1>1, <1>3, <2>0, <2>2, <2>4 DEF AdvancesTo
    <2>6. Steps(p, r, r2) /\ \A q \in Pending(f2) : Awaits(r2, q)
        BY <2>5, AdvanceSteps
    <2>7. k \in Pending(f2) /\ f.pid1 \in Pending(f2)
        BY <2>0, <2>4 DEF Pending
    <2> QED BY <2>0, <2>1, <2>6, <2>7
<1>6. f.cmd[1] = "none" => "wait" \in Pcs(f.cmd[1])
    BY DEF Pcs
<1>7. f.cmd[1] = "parallel" => "fork2" \in Pcs(f.cmd[1])
    BY DEF Pcs
<1> QED BY <1>4, <1>5, <1>6, <1>7

LEMMA CallSteps ==
    ASSUME NEW p, NEW r, Sound(r), r.stack # <<>>, NEW f, f = r.stack[1], Quiet(f.pc), f.pc # "restore",
           f.cmd[1] \in {"sequential", "zero", "nzero"},
           NEW pc \in Pcs(f.cmd[1]), pc \in Calling, pc # "restore", NEW t \in {f.cmd[2], f.cmd[3]}
    PROVE  Steps(p, r, Call(r, pc, t))
<1>1. Runs(r, f) /\ r.io = NoIo /\ f \in Frames(r.line) /\ IsLine(r.line) /\ r.fd \in Tables
    BY TopIs DEF Quiet, Sound
<1>2. PICK r2, f2, g : /\ r2 = Call(r, pc, t) /\ f2 = FrameOf(f.cmd, pc, f.pid1, f.pid2, f.saved)
                       /\ g = FrameOf(t, "start", 0, 0, 0)
    OBVIOUS
<1>3. r2 = Running(r.line, r.parent, r.fd, <<g>> \o OnTop(r.stack, f2), r.val, NoIo)
    BY <1>1, <1>2, Calls
<1>4. f.pid1 \in Pids \cup {0} /\ f.pid2 \in Pids \cup {0} /\ f.saved \in Slots
    BY <1>1, FrameIs
<1>5. f2 \in Frames(r.line) /\ f2.cmd = f.cmd /\ f2.pc = pc
    <2>1. f2.pc = pc
        BY <1>2, FieldsOf
    <2>2. 0 \notin Pending(f2)
        BY <2>1 DEF Pending, Calling
    <2>3. IsAt(r, f, pc, f.pid1, f.pid2, f.saved, f2)
        BY <1>2, <1>4, <2>2 DEF IsAt
    <2> QED BY <2>3, FrameAt
<1>6. PICK a \in Nat, b \in Nat : IsPart(r.line, t, a, b)
    <2>1. PICK a \in Nat, b \in Nat : IsPart(r.line, f.cmd, a, b)
        BY <1>1, FrameIs
    <2>2. \E k \in Nat : IsPart(r.line, f.cmd[2], a, k) /\ IsPart(r.line, f.cmd[3], k + 1, b)
        BY <1>1, <2>1, Parts
    <2> QED BY <2>1, <2>2
<1>7. g \in Frames(r.line) /\ g.cmd = t /\ g.pc = "start"
    <2>1. PICK pc0, n0 : pc0 = "start" /\ n0 = 0
        OBVIOUS
    <2>2. pc0 \in Pcs(t[1])
        BY <2>1 DEF Pcs
    <2>3. n0 \in Pids \cup {0} /\ n0 \in Slots
        BY <2>1, LinesAre
    <2>4. g = FrameOf(t, pc0, n0, n0, n0)
        BY <1>2, <2>1
    <2>5. g.cmd = t /\ g.pc = pc0
        BY ONLY <2>4, FieldsOf
    <2>6. 0 \notin Pending(FrameOf(t, pc0, n0, n0, n0))
        BY <2>1, <2>4, <2>5 DEF Pending
    <2>7. g \in Frames(r.line)
        BY ONLY <1>1, <1>6, <2>2, <2>3, <2>4, <2>6, FrameMade
    <2> QED BY <2>1, <2>5, <2>7
<1>8. Quiet(g.pc) /\ g.pc # "restore"
    BY <1>7 DEF Quiet, Redirections
<1>9. /\ Sound(r2) /\ r2.parent = r.parent
      /\ \A q : Awaits(r, q) /\ q \notin Pending(f) => Awaits(r2, q)
    BY <1>1, <1>3, <1>5, <1>7, <1>8, Called
<1>10. SameRoot(r, r2)
    <2>1. PICK s3 : s3 = <<g>> \o OnTop(r.stack, f2)
        OBVIOUS
    <2>2. r2 = Running(r.line, r.parent, r.fd, s3, r.val, NoIo)
        BY <1>3, <2>1
    <2>3. r2.line = r.line /\ r2.stack = s3
        BY ONLY <2>2, FieldsOf
    <2> QED BY <1>5, <2>1, <2>3, Roots
<1>11. ASSUME NEW pos, Plumbed(p, r, pos) PROVE Plumbed(p, r2, pos)
    <2>1. PICK c \in Nat, d \in Nat : IsPart(r.line, f.cmd, c, d) /\ Wired(r.line, c, d, r.fd, pos)
        BY <1>11, TopWired
    <2>2. f.cmd[1] \notin {"none", "pipe"}
        OBVIOUS
    <2>3. \E e, h \in Nat : IsPart(r.line, t, e, h) /\ Wired(r.line, e, h, r.fd, pos)
        BY <1>1, <2>1, <2>2, PartWired
    <2> QED BY <1>3, <1>5, <1>7, <1>8, <1>11, <2>3, CalledPlumbed
<1>12. ~ Launched(r2)
    <2>1. PICK s2, s3, S : s2 = OnTop(r.stack, f2) /\ s3 = <<g>> \o s2 /\ S = Frames(r.line)
        OBVIOUS
    <2>2. r2 = Running(r.line, r.parent, r.fd, s3, r.val, NoIo)
        BY <1>3, <2>1
    <2>3. r2.stack = s3
        BY ONLY <2>2, FieldsOf
    <2>4. s2 \in Seq(S) /\ g \in S
        BY <1>5, <1>7, <2>1 DEF OnTop, Sound
    <2>5. s3[1] = g
        BY ONLY <2>1, <2>4, StackPush
    <2> QED BY <1>8, <2>3, <2>5, QuietIs
<1> QED BY <1>2, <1>9, <1>10, <1>11, <1>12 DEF Steps, Advances

LEMMA RestoreSteps ==
    ASSUME NEW p, NEW r, Sound(r), r.stack # <<>>, NEW f, f = r.stack[1], f.pc = "restore",
           NEW r2, r2 = Goto([r EXCEPT !.fd = close(dup2(@, f.saved, 1), f.saved)], "reap")
    PROVE  Steps(p, r, r2) /\ Awaits(r2, f.pid1)
<1>1. Quiet(f.pc)
    BY DEF Quiet, Redirections
<1>2. Runs(r, f) /\ r.io = NoIo /\ f \in Frames(r.line) /\ IsLine(r.line) /\ r.fd \in Tables
    BY <1>1, TopIs DEF Quiet, Sound
<1>3. f.pid1 \in Pids \cup {0} /\ f.pid2 \in Pids \cup {0} /\ f.saved \in Slots /\ f.pc \in Pcs(f.cmd[1])
    BY <1>2, FrameIs
<1>4. PICK fd : fd = Unpiped(r.fd, f.saved)
    OBVIOUS
<1>5. fd \in Tables
    <2>1. PICK d : d = dup2(r.fd, f.saved, 1)
        OBVIOUS
    <2>2. d \in Tables
        BY <1>2, <1>3, <2>1, DescriptorCalls, LinesAre
    <2> QED BY <1>3, <1>4, <2>1, <2>2, DescriptorCalls DEF Unpiped
<1>6. PICK r1, pc : r1 = [r EXCEPT !.fd = fd] /\ pc = "reap"
    OBVIOUS
<1>7. r1 = Running(r.line, r.parent, fd, r.stack, r.val, r.io)
    BY <1>2, <1>6 DEF Runs, IsRunning, Running
<1>8. /\ r1.line = r.line /\ r1.parent = r.parent /\ r1.fd = fd /\ r1.stack = r.stack
      /\ r1.val = r.val /\ r1.io = NoIo /\ Runs(r1, f)
    BY <1>2, <1>7, FieldsOf DEF Runs
<1>9. r2 = Goto(r1, pc)
    BY <1>4, <1>6 DEF Unpiped
<1>10. PICK f2 : f2 = FrameOf(f.cmd, pc, f.pid1, f.pid2, f.saved)
    OBVIOUS
<1>11. r2 = Running(r.line, r.parent, fd, OnTop(r.stack, f2), r.val, NoIo)
    <2>1. Goto(r1, pc) = Running(r1.line, r1.parent, r1.fd,
                OnTop(r1.stack, FrameOf(f.cmd, pc, f.pid1, f.pid2, f.saved)), r1.val, r1.io)
        BY <1>8, GoesTo
    <2> QED BY ONLY <1>8, <1>9, <1>10, <2>1
<1>12. f2 \in Frames(r.line) /\ f2.cmd = f.cmd /\ f2.pc = "reap" /\ f2.pid1 = f.pid1
    <2>1. pc \in Pcs(f.cmd[1])
        BY <1>3, <1>6 DEF Pcs, Redirections
    <2>2. f2.pc = pc /\ f2.pid1 = f.pid1
        BY <1>10, FieldsOf
    <2>3. 0 \notin Pending(f2)
        <3>1. 0 \notin Pending(f) /\ f.pid1 \in Pending(f)
            BY <1>2, FrameIs DEF Pending
        <3> QED BY <1>6, <2>2, <3>1 DEF Pending
    <2>4. IsAt(r, f, pc, f.pid1, f.pid2, f.saved, f2)
        BY <1>3, <1>10, <2>1, <2>3 DEF IsAt
    <2> QED BY <1>6, <2>4, FrameAt
<1>13. Quiet(f2.pc) /\ f2.pc # "restore" /\ f.pid1 \in Pending(f2)
    BY <1>12 DEF Quiet, Redirections, Pending
<1>14. /\ Sound(r2) /\ r2.parent = r.parent
       /\ \A q : Awaits(r, q) /\ q \notin Pending(f) => Awaits(r2, q)
       /\ \A q \in Pending(f2) : Awaits(r2, q)
    BY <1>5, <1>11, <1>12, <1>13, Advanced
<1>15. SameRoot(r, r2)
    BY <1>11, <1>12, FieldsOf, Roots
<1>16. ASSUME NEW pos, Plumbed(p, r, pos) PROVE Plumbed(p, r2, pos)
    BY <1>4, <1>5, <1>11, <1>12, <1>13, <1>16, RestoredPlumbed
<1>17. ~ Launched(r2)
    <2>1. r2.stack = OnTop(r.stack, f2)
        BY ONLY <1>11, FieldsOf
    <2>2. r2.stack[1] = f2
        BY <1>2, <2>1 DEF OnTop, Runs
    <2> QED BY <1>13, <2>2, QuietIs
<1> QED BY <1>13, <1>14, <1>15, <1>16, <1>17 DEF Steps, Advances

-----------------------------------------------------------------------------
(* The steps of the redirections.                                           *)
LEMMA BaseUnsaved ==
    ASSUME NEW r, \A s \in 0 .. 2 : r.io.saved[s] = NotSaved, r.fd \in Tables
    PROVE  Base(r) = r.fd
<1>1. NotSaved \notin Slots
    BY ShellAssumption DEF NotSaved
<1>2. PICK u : u = Base(r)
    OBVIOUS
<1>3. \A s \in Slots : u[s] = r.fd[s]
    BY <1>1, <1>2 DEF Base
<1>4. u = [s \in Slots |-> u[s]]
    BY <1>2 DEF Base
<1>5. r.fd = [s \in Slots |-> r.fd[s]]
    BY DEF Tables
<1> QED BY <1>2, <1>3, <1>4, <1>5

LEMMA CdSteps ==
    ASSUME NEW p, NEW r, Sound(r), r.stack # <<>>, NEW f, f = r.stack[1],
           f.pc = "start", f.cmd[1] = "none", Simple(r).verb = "cd",
           NEW garbage \in Slots, NEW red, red = Simple(r).red,
           NEW r2, r2 = [Goto(r, "redirect") EXCEPT !.io = Io(red, garbage)]
    PROVE  Steps(p, r, r2)
<1>1. Runs(r, f) /\ r.io = NoIo /\ f \in Frames(r.line) /\ Quiet(f.pc) /\ f.pc # "restore"
      /\ r.stack \in Seq(Range(r.stack)) /\ r.fd \in Tables
    BY TopIs DEF Quiet, Redirections, Runs, Sound
<1>2. /\ WordsInv(red, Len(red), Words[red]) /\ Len(red) \in Nat
      /\ IsPart(r.line, f.cmd, f.cmd[2], f.cmd[2]) /\ f.cmd[2] \in 1 .. Len(r.line.cmds)
      /\ Simple(r) \in Range(r.line.cmds) /\ r.line \in Lines
    BY SimpleIs
<1>3. PICK pc, io : pc = "redirect" /\ io = IoOf(garbage, NoIo.saved, Words[red].list)
    OBVIOUS
<1>4. Io(red, garbage) = io
    BY <1>3 DEF Io, NoIo, IoOf
<1>5. io \in Ios /\ io.saved = NoIo.saved /\ io.word = Words[red].list
      /\ \A k \in 0 .. 2 : io.word[k] <= Len(red)
    BY <1>2, <1>3, FirstWords, FieldsOf
<1>6. f.pid1 \in Pids \cup {0} /\ f.pid2 \in Pids \cup {0} /\ f.saved \in Slots
    BY <1>1, FrameIs
<1>7. PICK f2 : f2 = FrameOf(f.cmd, pc, f.pid1, f.pid2, f.saved)
    OBVIOUS
<1>8. f2 \in Frames(r.line) /\ f2.cmd = f.cmd /\ f2.pc = pc
    <2>1. pc \in Pcs(f.cmd[1])
        BY <1>3 DEF Pcs, Redirections
    <2>2. IsAt(r, f, pc, f.pid1, f.pid2, f.saved, f2)
        <3>1. f2.pc = pc
            BY <1>7, FieldsOf
        <3>2. 0 \notin Pending(f2)
            BY <1>3, <3>1 DEF Pending
        <3> QED BY <1>6, <1>7, <2>1, <3>2 DEF IsAt
    <2> QED BY <2>2, FrameAt
<1>9. r2 = Running(r.line, r.parent, r.fd, OnTop(r.stack, f2), r.val, io)
    <2>1. PICK r1 : r1 = Goto(r, pc)
        OBVIOUS
    <2>2. r1 = Running(r.line, r.parent, r.fd, OnTop(r.stack, f2), r.val, r.io)
        BY <1>1, <1>7, <2>1, GoesTo
    <2>3. r2 = [r1 EXCEPT !.io = io]
        BY <1>3, <1>4, <2>1
    <2>4. PICK line, parent, fd, stack, val, io1 :
            /\ r1 = Running(line, parent, fd, stack, val, io1) /\ line = r.line /\ parent = r.parent
            /\ fd = r.fd /\ stack = OnTop(r.stack, f2) /\ val = r.val
        BY <2>2
    <2> QED BY ONLY <2>3, <2>4 DEF Running
<1>10. r2.stack = OnTop(r.stack, f2) /\ r2.line = r.line /\ r2.io = io /\ r2.fd = r.fd
    BY ONLY <1>9, FieldsOf
<1>11. r2.stack[1] = f2 /\ r2.stack # <<>>
    BY <1>1, <1>10 DEF OnTop
<1>12. Simple(r2) = Simple(r)
    BY <1>8, <1>10, <1>11 DEF Simple
<1>13. "cd" \notin Programs
    BY DEF Programs
<1>14. IoOK(r2)
    BY <1>3, <1>5, <1>8, <1>10, <1>11, <1>12, <1>13 DEF IoOK, Redirections
<1>15. /\ Sound(r2) /\ r2.parent = r.parent
       /\ \A q : Awaits(r, q) /\ q \notin Pending(f) => Awaits(r2, q)
    <2>1. MovesTo(r, f, f2, r.fd, io, r2)
        BY <1>1, <1>8, <1>9, <1>14 DEF MovesTo
    <2> QED BY ONLY <2>1, Moved
<1>16. SameRoot(r, r2)
    BY <1>8, <1>10, Roots
<1>17. ~ Launched(r) /\ ~ Launched(r2)
    BY <1>1, <1>12, <1>13, QuietIs DEF Launched
<1>18. Base(r2) = Base(r)
    <2>1. \A s \in 0 .. 2 : r2.io.saved[s] = NotSaved
        BY <1>5, <1>10 DEF NoIo
    <2>2. Base(r2) = r2.fd
        BY <1>1, <1>10, <2>1, BaseUnsaved
    <2>3. Base(r) = r.fd
        BY <1>1, BaseIs
    <2> QED BY <1>10, <2>2, <2>3
<1>19. ASSUME NEW pos, NoCdSkips, Plumbed(p, r, pos) PROVE Plumbed(p, r2, pos)
    <2>1. ~ Skips(red)
        BY <1>2, <1>19 DEF NoCdSkips
    <2>2. \A k \in 0 .. 2 : r.fd[k] # Closed
        <3>1. PICK a \in Nat, b \in Nat : IsPart(r.line, f.cmd, a, b) /\ Wired(r.line, a, b, r.fd, pos)
            BY <1>1, <1>19, TopWired
        <3> QED BY <3>1, WiredOpen
    <2>3. \A k \in {1, 2} : k \in Words[red].append => Words[red].append = {k} /\ io.word[3 - k] = 0
        <3>1. ASSUME NEW k \in {1, 2}, k \in Words[red].append
              PROVE  Words[red].append = {k} /\ io.word[3 - k] = 0
            <4>1. Words[red].append = {k} /\ Words[red].list[3 - k] = 0
                BY <2>1, <3>1, AppendsOfCd
            <4> QED BY <1>5, <4>1
        <3> QED BY <3>1
    <2>4. SavedOK(r2)
        <3>1. \A s \in 0 .. 2 : r2.io.saved[s] = NotSaved
            BY <1>5, <1>10 DEF NoIo
        <3> QED BY <1>10, <1>12, <2>2, <2>3, <3>1 DEF SavedOK
    <2>5. f2.pc # "restore"
        BY <1>3, <1>8
    <2>6. Plumbed(p, r, pos) /\ f.pc # "restore"
        BY <1>1, <1>19
    <2> QED BY ONLY Sound(r), r.stack # <<>>, f = r.stack[1], <1>8, <1>9, <1>17, <1>18, <2>4, <2>5, <2>6,
                    MovedPlumbed
<1> QED BY <1>15, <1>16, <1>17, <1>19 DEF Steps, Advances

(* One word of a list.                                                      *)
RedirectsOnce(r, f, k, name, opens, pc, a, b, c, r2) ==
    /\ Sound(r) /\ r.stack # <<>> /\ f = r.stack[1] /\ f.pc \in Redirections
    /\ k \in 0 .. 2 /\ r.io.word[k] # 0 /\ Room(r.fd)
    /\ name = Simple(r).red[r.io.word[k]][2] /\ (RightModeOf(r, k) => opens)
    /\ a = (IF opens THEN open(r, name) ELSE r) /\ b = Save(a, k)
    /\ c = Redirect(b, k, Words[Simple(r).red].next)
    /\ pc \in Redirections /\ (pc = "redirect_err" => k = 1 /\ r.io.word[2] # 0) /\ r2 = Goto(c, pc)

RedirectedTo(r, f, k, pc, c, r2) ==
    /\ c.fd \in Tables /\ c.io \in Ios
    /\ c.io.word = [r.io.word EXCEPT ![k] = Words[Simple(r).red].next[r.io.word[k]]]
    /\ Sound(r2) /\ r2.parent = r.parent /\ r2.line = r.line /\ r2.fd = c.fd /\ r2.io = c.io
    /\ \E f2 \in Frames(r.line) :
        /\ f2.cmd = f.cmd /\ f2.pc = pc /\ r2.stack = OnTop(r.stack, f2)
        /\ r2 = Running(r.line, r.parent, c.fd, OnTop(r.stack, f2), r.val, c.io)
        /\ r2.stack[1] = f2 /\ r2.stack # <<>>
    /\ \A q : Awaits(r, q) /\ q \notin Pending(f) => Awaits(r2, q)

LEMMA RedirectForm ==
    ASSUME NEW r, NEW f, NEW k, NEW name, NEW opens, NEW pc, NEW a, NEW b, NEW c, NEW r2,
           RedirectsOnce(r, f, k, name, opens, pc, a, b, c, r2)
    PROVE  RedirectedTo(r, f, k, pc, c, r2)
<1> USE DEF RedirectedTo
<1>0. /\ Sound(r) /\ r.stack # <<>> /\ f = r.stack[1] /\ f.pc \in Redirections
      /\ k \in 0 .. 2 /\ r.io.word[k] # 0 /\ Room(r.fd)
      /\ name = Simple(r).red[r.io.word[k]][2]
      /\ (a = r \/ a = open(r, name)) /\ b = Save(a, k)
      /\ c = Redirect(b, k, Words[Simple(r).red].next)
      /\ pc \in Redirections /\ (pc = "redirect_err" => k = 1 /\ r.io.word[2] # 0) /\ r2 = Goto(c, pc)
    BY Zenon DEF RedirectsOnce
<1>1. /\ Runs(r, f) /\ f \in Frames(r.line) /\ IsRunning(r) /\ r.fd \in Tables
      /\ r.stack \in Seq(Range(r.stack)) /\ IoOK(r)
    BY <1>0, TopIs DEF Runs, Sound
<1>2. PICK red : red = Simple(r).red
    OBVIOUS
<1>3. f.cmd[1] = "none"
    BY <1>0, PcIs
<1>4. /\ WordsInv(red, Len(red), Words[red]) /\ Len(red) \in Nat
      /\ \A w \in 1 .. Len(red) : <<"file", red[w][2]>> \in Ends
    BY <1>0, <1>2, <1>3, SimpleIs
<1>5. /\ r.io \in Ios /\ \A j \in 0 .. 2 : r.io.word[j] <= Len(red) /\ r.io.word[j] \in Nat
      /\ Simple(r).verb \in Programs \cup {"cd"}
      /\ Simple(r).verb \in Programs => Len(r.stack) = 1
    BY <1>0, <1>1, <1>2, IosIs DEF IoOK
<1>6. PICK w \in 1 .. Len(red) : w = r.io.word[k]
    <2>1. r.io.word[k] <= Len(red) /\ r.io.word[k] \in Nat /\ r.io.word[k] # 0
        BY <1>0, <1>5
    <2> QED BY <1>4, <2>1
<1>7. PICK next : next = Words[red].next
    OBVIOUS
<1>8. next[w] \in Nat /\ next[w] <= Len(red) /\ <<"file", name>> \in Ends
    BY <1>0, <1>2, <1>4, <1>6, <1>7, NextWord
<1>9. /\ c = Running(r.line, r.parent, c.fd, r.stack, r.val, c.io)
      /\ c.fd \in Tables /\ c.io \in Ios
      /\ c.io.word = [r.io.word EXCEPT ![k] = next[r.io.word[k]]]
    <2>1. /\ a = r \/ a = open(r, name)
          /\ b = Save(a, k) /\ k \in 0 .. 2 /\ Room(r.fd)
        BY <1>0, SMTT(30)
    <2>2. next[r.io.word[k]] \in Nat /\ c = Redirect(b, k, next)
        BY <1>0, <1>2, <1>6, <1>7, <1>8
    <2>3. IsRunning(r) /\ r.io \in Ios /\ r.fd \in Tables /\ <<"file", name>> \in Ends
        BY <1>1, <1>5, <1>8
    <2> QED BY ONLY <2>1, <2>2, <2>3, StreamTypes
<1>10. PICK f2 : f2 = FrameOf(f.cmd, pc, f.pid1, f.pid2, f.saved)
    OBVIOUS
<1>11. f.pid1 \in Pids \cup {0} /\ f.pid2 \in Pids \cup {0} /\ f.saved \in Slots
    BY <1>1, FrameIs
<1>12. f2 \in Frames(r.line) /\ f2.cmd = f.cmd /\ f2.pc = pc
    <2>1. pc \in Pcs(f.cmd[1])
        BY <1>0, <1>3 DEF Pcs
    <2>2. IsAt(r, f, pc, f.pid1, f.pid2, f.saved, f2)
        <3>1. f2.pc = pc
            BY <1>10, FieldsOf
        <3>2. 0 \notin Pending(f2)
            BY <1>0, <3>1, SMTT(30) DEF Pending, Redirections
        <3> QED BY <1>0, <1>10, <1>11, <2>1, <3>2 DEF IsAt
    <2> QED BY <2>2, FrameAt
<1>13. r2 = Running(r.line, r.parent, c.fd, OnTop(r.stack, f2), r.val, c.io)
    <2>1. /\ IsRunning(c) /\ c.line = r.line /\ c.parent = r.parent /\ c.stack = r.stack /\ c.val = r.val
        BY ONLY <1>9, FieldsOf
    <2>2. Runs(c, f)
        BY <1>1, <2>1 DEF Runs
    <2>3. Goto(c, pc) = Running(c.line, c.parent, c.fd,
                OnTop(c.stack, FrameOf(f.cmd, pc, f.pid1, f.pid2, f.saved)), c.val, c.io)
        BY ONLY <2>2, GoesTo
    <2> QED BY <1>0, <1>10, <2>1, <2>3
<1>14. /\ r2.stack = OnTop(r.stack, f2) /\ r2.line = r.line /\ r2.io = c.io /\ r2.fd = c.fd
       /\ r2.parent = r.parent
    BY ONLY <1>13, FieldsOf
<1>15. r2.stack[1] = f2 /\ r2.stack # <<>> /\ Len(r2.stack) = Len(r.stack)
    <2>1. r.stack \in Seq(Range(r.stack)) /\ r.stack # <<>>
        BY <1>0, <1>1
    <2> QED BY ONLY <1>14, <2>1 DEF OnTop
<1>16. Simple(r2) = Simple(r)
    BY <1>0, <1>12, <1>14, <1>15, Zenon DEF Simple
<1>17. IoOK(r2)
    <2>1. \A j \in 0 .. 2 : c.io.word[j] <= Len(red)
        BY <1>0, <1>5, <1>6, <1>7, <1>8, <1>9, IosIs, SMTT(30)
    <2>2. pc = "redirect_err" => c.io.word[2] # 0
        BY <1>0, <1>5, <1>9, IosIs
    <2> QED BY <1>0, <1>2, <1>5, <1>9, <1>12, <1>14, <1>15, <1>16, <2>1, <2>2, Zenon DEF IoOK
<1>18. /\ Sound(r2)
       /\ \A q : Awaits(r, q) /\ q \notin Pending(f) => Awaits(r2, q)
    <2>1. MovesTo(r, f, f2, c.fd, c.io, r2)
        BY <1>0, <1>9, <1>12, <1>13, <1>17, Zenon DEF MovesTo
    <2> QED BY ONLY <2>1, Moved
<1> QED BY <1>2, <1>7, <1>9, <1>12, <1>13, <1>14, <1>15, <1>18

(* A program's stream that is redirected goes to the file it names.         *)
LEMMA RedirectStreams ==
    ASSUME NEW r, NEW f, NEW k, NEW name, NEW opens, NEW pc, NEW a, NEW b, NEW c, NEW r2,
           RedirectsOnce(r, f, k, name, opens, pc, a, b, c, r2),
           NEW pos, Streams(r, pos), Regular(Simple(r).red)
    PROVE  Streams(r2, pos)
<1>1. PICK red : red = Simple(r).red
    OBVIOUS
<1>2. /\ Sound(r) /\ r.stack # <<>> /\ f = r.stack[1] /\ f.pc \in Redirections
      /\ k \in 0 .. 2 /\ r.io.word[k] # 0 /\ Room(r.fd) /\ f.cmd[1] = "none"
      /\ IsRunning(r) /\ r.fd \in Tables /\ IoOK(r)
    BY PcIs, Zenon DEF RedirectsOnce, Sound
<1>0. RedirectsOnce(r, f, k, name, opens, pc, a, b, c, r2)
    OBVIOUS
<1>3. PICK f2 \in Frames(r.line) : f2.cmd = f.cmd /\ r2.stack[1] = f2
    <2>1. RedirectedTo(r, f, k, pc, c, r2)
        BY ONLY <1>0, RedirectForm, SMTT(30)
    <2> QED BY <2>1 DEF RedirectedTo
<1>4. /\ r2.line = r.line /\ r2.fd = c.fd /\ r2.io = c.io
      /\ c.io.word = [r.io.word EXCEPT ![k] = Words[red].next[r.io.word[k]]]
    <2>1. RedirectedTo(r, f, k, pc, c, r2)
        BY ONLY <1>0, RedirectForm, SMTT(30)
    <2> QED BY <1>1, <2>1 DEF RedirectedTo
<1>5. Simple(r2) = Simple(r) /\ r2.stack[1].cmd = r.stack[1].cmd
    BY <1>2, <1>3, <1>4 DEF Simple
<1>6. r.io \in Ios /\ \A j \in 0 .. 2 : j \in Slots
    BY <1>2, LinesAre DEF IoOK
<1>7. PICK w : w = r.io.word[k]
    OBVIOUS
<1>8. w \in NodesOf(red, k, Len(red)) /\ \A j \in 0 .. 2 : r.fd[j] # Closed
    BY <1>1, <1>2, <1>7 DEF Streams
<1>9. PICK file : file = <<"file", name>>
    OBVIOUS
<1>10. name = red[w][2] /\ file \in Ends /\ file # Closed
    <2>1. w \in 1 .. Len(red)
        BY <1>8, SMTT(30) DEF NodesOf
    <2>2. name = red[w][2]
        BY <1>1, <1>7 DEF RedirectsOnce
    <2> QED BY <1>1, <1>2, <1>9, <2>1, <2>2, SimpleIs, EndsFacts
<1>11. opens
    <2>1. RightModeOf(r, k)
        BY <1>1, <1>2, <1>7, <1>8, RightModeOfProgram DEF Regular
    <2> QED BY <2>1, Zenon DEF RedirectsOnce
<1>12. /\ c.fd[k] = file
       /\ \A j \in 0 .. 2 : j # k => c.fd[j] = r.fd[j]
    <2>1. PICK next : next = Words[red].next
        OBVIOUS
    <2>2. a = open(r, name) /\ b = Save(a, k) /\ c = Redirect(b, k, next)
        BY <1>1, <1>11, <2>1, Zenon DEF RedirectsOnce
    <2>3. IF r.io.saved[k] # NotSaved
          THEN /\ c.io.saved = r.io.saved
               /\ \A t \in Slots : c.fd[t] = IF t = k THEN file ELSE r.fd[t]
          ELSE \E s \in Slots :
                /\ r.fd[s] = Closed /\ c.io.saved = [r.io.saved EXCEPT ![k] = s]
                /\ \A t \in Slots : c.fd[t] = IF t = k THEN file ELSE IF t = s THEN r.fd[k] ELSE r.fd[t]
        <3>1. /\ IsRunning(r) /\ r.io \in Ios /\ r.fd \in Tables /\ Room(r.fd) /\ k \in 0 .. 2
              /\ file \in Ends /\ r.fd[k] # Closed
            BY <1>2, <1>6, <1>8, <1>10
        <3>2. StreamDone(r, k, file, c)
            BY ONLY <1>9, <2>2, <3>1, StreamEffect
        <3> QED BY <3>2 DEF StreamDone
    <2> QED BY <1>2, <1>6, <1>8, <2>3
<1>13. /\ \A v \in NodesOf(red, k, Len(red)) :
            IF Words[red].next[v] = 0 THEN \A u \in NodesOf(red, k, Len(red)) : u <= v
            ELSE Words[red].next[v] \in NodesOf(red, k, Len(red))
    BY <1>1, <1>2, WordsOfRegular DEF Regular
<1>14. ASSUME NEW j \in 0 .. 2
       PROVE  /\ r2.fd[j] # Closed
              /\ r2.io.word[j] = 0 \/ r2.io.word[j] \in NodesOf(red, j, Len(red))
              /\ r2.io.word[j] = 0 =>
                 IF NodesOf(red, j, Len(red)) = {} THEN WiredAt(r2.line, r2.stack[1].cmd[2], j, r2.fd[j], pos)
                 ELSE \E v \in NodesOf(red, j, Len(red)) :
                        /\ \A u \in NodesOf(red, j, Len(red)) : u <= v
                        /\ r2.fd[j] = <<"file", red[v][2]>>
    <2>1. CASE j = k
        <3>1. r2.io.word[j] = Words[red].next[w] /\ r2.fd[j] = <<"file", red[w][2]>> /\ r2.fd[j] # Closed
            BY <1>2, <1>4, <1>6, <1>7, <1>9, <1>10, <1>12, <2>1, IosIs
        <3> QED BY <1>8, <1>13, <2>1, <3>1
    <2>2. CASE j # k
        <3>1. r2.io.word[j] = r.io.word[j] /\ r2.fd[j] = r.fd[j]
            BY <1>2, <1>4, <1>6, <1>12, <2>2, IosIs
        <3> QED BY <1>1, <1>4, <1>5, <3>1 DEF Streams
    <2> QED BY <2>1, <2>2
<1> QED BY <1>1, <1>5, <1>14 DEF Streams

-----------------------------------------------------------------------------
(* What a cd command will restore stays the same.                           *)
LEMMA RedirectBase ==
    ASSUME NEW r, NEW f, NEW k, NEW name, NEW opens, NEW pc, NEW a, NEW b, NEW c, NEW r2,
           RedirectsOnce(r, f, k, name, opens, pc, a, b, c, r2), SavedOK(r)
    PROVE  SavedOK(r2) /\ Base(r2) = Base(r)
<1>0. RedirectsOnce(r, f, k, name, opens, pc, a, b, c, r2)
    OBVIOUS
<1>1. PICK red : red = Simple(r).red
    BY SMTT(30)
<1>2. /\ Sound(r) /\ r.stack # <<>> /\ f = r.stack[1] /\ f.pc \in Redirections
      /\ k \in 0 .. 2 /\ r.io.word[k] # 0 /\ Room(r.fd) /\ f.cmd[1] = "none"
      /\ IsRunning(r) /\ r.fd \in Tables /\ IoOK(r)
    BY PcIs DEF RedirectsOnce, Sound
<1>3. PICK f2 \in Frames(r.line) : f2.cmd = f.cmd /\ r2.stack[1] = f2
    <2>1. RedirectedTo(r, f, k, pc, c, r2)
        BY ONLY <1>0, RedirectForm, SMTT(30)
    <2> QED BY <2>1 DEF RedirectedTo
<1>4. /\ r2.line = r.line /\ r2.fd = c.fd /\ r2.io = c.io
      /\ c.io.word = [r.io.word EXCEPT ![k] = Words[red].next[r.io.word[k]]]
    <2>1. RedirectedTo(r, f, k, pc, c, r2)
        BY ONLY <1>0, RedirectForm, SMTT(30)
    <2> QED BY <1>1, <2>1 DEF RedirectedTo
<1>5. Simple(r2) = Simple(r)
    BY <1>2, <1>3, <1>4 DEF Simple
<1>6. /\ r.io \in Ios /\ \A j \in 0 .. 2 : j \in Slots
      /\ r.io.saved \in [0 .. 2 -> Slots \cup {NotSaved}] /\ NotSaved \notin Slots
      /\ r.io.word \in [0 .. 2 -> Nat]
    <2>1. r.io \in Ios
        BY <1>2 DEF IoOK
    <2>2. NotSaved \notin Slots
        BY ShellAssumption DEF NotSaved
    <2> QED BY <2>1, <2>2, IosIs, LinesAre
<1>7. /\ \A j \in {1, 2} : j \in Words[red].append => Words[red].append = {j} /\ r.io.word[3 - j] = 0
      /\ \A j \in 0 .. 2 :
            /\ r.fd[j] # Closed
            /\ r.io.saved[j] # NotSaved =>
                /\ r.io.saved[j] \notin 0 .. 2 /\ r.fd[r.io.saved[j]] # Closed
                /\ \A i \in 0 .. 2 : r.io.saved[i] = r.io.saved[j] => i = j
    BY <1>1 DEF SavedOK
<1>8. RightModeOf(r, k) /\ opens
    <2>1. RightModeOf(r, k)
        BY <1>2, RightModeOfCd
    <2> QED BY <2>1, Zenon DEF RedirectsOnce
<1>9. PICK file : file = <<"file", name>>
    OBVIOUS
<1>10. file \in Ends /\ file # Closed
    <2>1. r.io.word[k] \in 1 .. Len(red)
        <3>1. r.io.word[k] <= Len(red) /\ r.io.word[k] \in Nat
            BY <1>1, <1>2, <1>6 DEF IoOK
        <3>2. Len(red) \in Nat
            BY <1>1, <1>2, SimpleIs, SMTT(30)
        <3> QED BY <1>2, <3>1, <3>2
    <2>2. name = red[r.io.word[k]][2]
        BY <1>1 DEF RedirectsOnce
    <2> QED BY <1>1, <1>2, <1>9, <2>1, <2>2, SimpleIs, EndsFacts
<1>11. StreamDone(r, k, file, c)
    <2>1. PICK next : next = Words[red].next
        BY SMTT(30)
    <2>2. a = open(r, name) /\ b = Save(a, k) /\ c = Redirect(b, k, next)
        BY <1>1, <1>8, <2>1 DEF RedirectsOnce
    <2>3. /\ IsRunning(r) /\ r.io \in Ios /\ r.fd \in Tables /\ Room(r.fd) /\ k \in 0 .. 2
          /\ file \in Ends /\ r.fd[k] # Closed
        BY <1>2, <1>6, <1>7, <1>10
    <2> QED BY ONLY <1>9, <2>2, <2>3, StreamEffect
<1>12. PICK sv, sv2, fd, fd2 : sv = r.io.saved /\ sv2 = c.io.saved /\ fd = r.fd /\ fd2 = c.fd
    OBVIOUS
<1>13. /\ sv \in [0 .. 2 -> Slots \cup {NotSaved}] /\ NotSaved \notin Slots
       /\ k \in 0 .. 2 /\ \A j \in 0 .. 2 : j \in Slots
       /\ \A j \in 0 .. 2 :
            /\ fd[j] # Closed
            /\ sv[j] # NotSaved =>
                /\ sv[j] \notin 0 .. 2 /\ fd[sv[j]] # Closed
                /\ \A i \in 0 .. 2 : sv[i] = sv[j] => i = j
       /\ file # Closed
       /\ IF sv[k] # NotSaved
          THEN sv2 = sv /\ \A t \in Slots : fd2[t] = IF t = k THEN file ELSE fd[t]
          ELSE \E s \in Slots :
                /\ fd[s] = Closed /\ sv2 = [sv EXCEPT ![k] = s]
                /\ \A t \in Slots : fd2[t] = IF t = k THEN file ELSE IF t = s THEN fd[k] ELSE fd[t]
    BY <1>2, <1>6, <1>7, <1>10, <1>11, <1>12 DEF StreamDone
<1>14. /\ \A j \in 0 .. 2 :
            /\ fd2[j] # Closed
            /\ sv2[j] # NotSaved =>
                /\ sv2[j] \notin 0 .. 2 /\ fd2[sv2[j]] # Closed
                /\ \A i \in 0 .. 2 : sv2[i] = sv2[j] => i = j
       /\ \A t \in Slots :
            (IF t \in 0 .. 2 /\ sv2[t] # NotSaved THEN fd2[sv2[t]]
             ELSE IF \E j \in 0 .. 2 : sv2[j] = t THEN Closed ELSE fd2[t])
            = (IF t \in 0 .. 2 /\ sv[t] # NotSaved THEN fd[sv[t]]
               ELSE IF \E j \in 0 .. 2 : sv[j] = t THEN Closed ELSE fd[t])
    <2>1. CASE sv[k] # NotSaved
        <3>1. sv2 = sv /\ \A t \in Slots : fd2[t] = IF t = k THEN file ELSE fd[t]
            BY ONLY <1>13, <2>1
        <3>2. \A j \in 0 .. 2 : sv[j] # NotSaved => sv[j] \in Slots /\ sv[j] # k
            BY ONLY <1>13
        <3>3. \A j \in 0 .. 2 : sv[j] # NotSaved => fd2[sv[j]] = fd[sv[j]]
            BY ONLY <3>1, <3>2
        <3>4. \A j \in 0 .. 2 : fd2[j] # Closed
            BY ONLY <1>13, <3>1
        <3>5. \A t \in Slots : t \notin 0 .. 2 => fd2[t] = fd[t]
            BY ONLY <1>13, <3>1
        <3>6. \A t \in Slots : t \in 0 .. 2 /\ sv[t] = NotSaved => fd2[t] = fd[t]
            BY ONLY <1>13, <2>1, <3>1
        <3> QED BY ONLY <1>13, <3>1, <3>3, <3>4, <3>5, <3>6
    <2>2. CASE sv[k] = NotSaved
        <3>1. PICK s \in Slots :
                /\ fd[s] = Closed /\ sv2 = [sv EXCEPT ![k] = s]
                /\ \A t \in Slots : fd2[t] = IF t = k THEN file ELSE IF t = s THEN fd[k] ELSE fd[t]
            BY ONLY <1>13, <2>2
        <3>2. s \notin 0 .. 2 /\ s # NotSaved /\ \A j \in 0 .. 2 : sv[j] # s
            BY ONLY <1>13, <3>1
        <3>3. \A j \in 0 .. 2 : sv2[j] = IF j = k THEN s ELSE sv[j]
            BY ONLY <1>13, <3>1
        <3>4. fd2[s] = fd[k] /\ fd2[s] # Closed
            BY ONLY <1>13, <3>1, <3>2
        <3>5. \A j \in 0 .. 2 : sv[j] # NotSaved => fd2[sv[j]] = fd[sv[j]]
            BY ONLY <1>13, <3>1, <3>2
        <3>6. \A j \in 0 .. 2 : fd2[j] # Closed
            BY ONLY <1>13, <3>1, <3>2
        <3>7. \A j \in 0 .. 2 : sv2[j] # NotSaved =>
                /\ sv2[j] \notin 0 .. 2 /\ fd2[sv2[j]] # Closed
                /\ \A i \in 0 .. 2 : sv2[i] = sv2[j] => i = j
            BY ONLY <1>13, <3>2, <3>3, <3>4, <3>5
        <3>8. ASSUME NEW t \in Slots
              PROVE  (IF t \in 0 .. 2 /\ sv2[t] # NotSaved THEN fd2[sv2[t]]
                      ELSE IF \E j \in 0 .. 2 : sv2[j] = t THEN Closed ELSE fd2[t])
                     = (IF t \in 0 .. 2 /\ sv[t] # NotSaved THEN fd[sv[t]]
                        ELSE IF \E j \in 0 .. 2 : sv[j] = t THEN Closed ELSE fd[t])
            <4>1. \A j \in 0 .. 2 : sv[j] # t \/ t \notin 0 .. 2
                BY ONLY <1>13, t \in Slots
            <4>2. CASE t \in 0 .. 2
                <5>1. \A j \in 0 .. 2 : sv2[j] # t /\ sv[j] # t
                    BY ONLY <3>2, <3>3, <4>1, <4>2
                <5>2. t # k => sv2[t] = sv[t] /\ fd2[t] = fd[t]
                    BY ONLY <3>1, <3>2, <3>3, <4>2, t \in Slots
                <5>3. t = k => sv2[t] = s /\ fd2[s] = fd[t] /\ s # NotSaved
                    BY ONLY <3>2, <3>3, <3>4, <4>2
                <5> QED BY ONLY <2>2, <3>5, <4>2, <5>1, <5>2, <5>3
            <4>3. CASE t \notin 0 .. 2
                <5>1. CASE t = s
                    <6>1. \E j \in 0 .. 2 : sv2[j] = t
                        BY ONLY <1>13, <3>3, <5>1
                    <6>2. ~ \E j \in 0 .. 2 : sv[j] = t
                        BY ONLY <3>2, <5>1
                    <6> QED BY ONLY <3>1, <4>3, <5>1, <6>1, <6>2
                <5>2. CASE t # s
                    <6>1. (\E j \in 0 .. 2 : sv2[j] = t) <=> \E j \in 0 .. 2 : sv[j] = t
                        <7>1. sv[k] # t
                            BY ONLY <1>13, <2>2, t \in Slots
                        <7> QED BY ONLY <3>3, <5>2, <7>1
                    <6>2. fd2[t] = fd[t]
                        BY ONLY <1>13, <3>1, <4>3, <5>2, t \in Slots
                    <6> QED BY ONLY <4>3, <6>1, <6>2
                <5> QED BY <5>1, <5>2
            <4> QED BY <4>2, <4>3
        <3> QED BY ONLY <3>6, <3>7, <3>8
    <2> QED BY <2>1, <2>2
<1>15. Base(r2) = Base(r)
    BY ONLY <1>4, <1>12, <1>14 DEF Base
<1>16. \A j \in {1, 2} : j \in Words[red].append => Words[red].append = {j} /\ r2.io.word[3 - j] = 0
    <2>1. ASSUME NEW j \in {1, 2}, j \in Words[red].append PROVE r2.io.word[3 - j] = 0
        <3>1. PICK i : i = 3 - j
            OBVIOUS
        <3>2. i \in 0 .. 2 /\ r.io.word[i] = 0
            BY <1>7, <2>1, <3>1
        <3>3. i # k
            BY <1>2, <3>2
        <3> QED BY <1>4, <1>6, <3>1, <3>2, <3>3
    <2> QED BY <1>7, <2>1
<1>17. SavedOK(r2)
    <2>1. \A j \in {1, 2} : j \in Words[Simple(r2).red].append =>
                Words[Simple(r2).red].append = {j} /\ r2.io.word[3 - j] = 0
        BY ONLY <1>1, <1>5, <1>16
    <2>2. r2.fd = fd2 /\ r2.io.saved = sv2
        BY ONLY <1>4, <1>12
    <2>3. \A j \in 0 .. 2 :
            /\ r2.fd[j] # Closed
            /\ r2.io.saved[j] # NotSaved =>
                /\ r2.io.saved[j] \notin 0 .. 2 /\ r2.fd[r2.io.saved[j]] # Closed
                /\ \A i \in 0 .. 2 : r2.io.saved[i] = r2.io.saved[j] => i = j
        BY ONLY <1>14, <2>2
    <2> QED BY ONLY <2>1, <2>3 DEF SavedOK
<1> QED BY <1>15, <1>17

LEMMA RedirectSteps ==
    ASSUME NEW p, NEW r, NEW f, NEW k, NEW name, NEW opens, NEW pc, NEW a, NEW b, NEW c, NEW r2,
           RedirectsOnce(r, f, k, name, opens, pc, a, b, c, r2)
    PROVE  Steps(p, r, r2)
<1>0. RedirectsOnce(r, f, k, name, opens, pc, a, b, c, r2)
    BY SMTT(30)
<1>1. RedirectedTo(r, f, k, pc, c, r2)
    BY ONLY <1>0, RedirectForm, SMTT(30)
<1>2. /\ Sound(r) /\ r.stack # <<>> /\ f = r.stack[1] /\ f.pc \in Redirections /\ pc \in Redirections
    BY DEF RedirectsOnce
<1>3. /\ Sound(r2) /\ r2.parent = r.parent /\ r2.line = r.line
      /\ \A q : Awaits(r, q) /\ q \notin Pending(f) => Awaits(r2, q)
    BY <1>1 DEF RedirectedTo
<1>4. PICK f2 \in Frames(r.line) :
            /\ f2.cmd = f.cmd /\ f2.pc = pc /\ r2.stack = OnTop(r.stack, f2)
            /\ r2 = Running(r.line, r.parent, c.fd, OnTop(r.stack, f2), r.val, c.io)
            /\ r2.stack[1] = f2 /\ r2.stack # <<>>
    BY <1>1 DEF RedirectedTo
<1>5. SameRoot(r, r2)
    BY <1>2, <1>3, <1>4, Roots
<1>6. Simple(r2) = Simple(r)
    BY <1>2, <1>3, <1>4 DEF Simple
<1>7. ASSUME NEW pos, Plumbed(p, r, pos) PROVE Plumbed(p, r2, pos)
    <2>1. CASE Launched(r)
        <3>1. Launched(r2)
            BY <1>2, <1>4, <1>6, <2>1 DEF Launched
        <3>2. Regular(Simple(r).red) => Streams(r2, pos)
            <4>1. ASSUME Regular(Simple(r).red) PROVE Streams(r2, pos)
                <5>1. Streams(r, pos)
                    BY <1>7, <2>1, <4>1 DEF Plumbed
                <5> QED BY ONLY <1>0, <4>1, <5>1, RedirectStreams
            <4> QED BY <4>1
        <3> QED BY <1>6, <3>1, <3>2 DEF Plumbed
    <2>2. CASE ~ Launched(r)
        <3>1. Simple(r).verb \notin Programs /\ Simple(r).verb = "cd" /\ ~ Launched(r2)
            BY <1>2, <1>4, <1>6, <2>2 DEF Launched, Sound, IoOK
        <3>2. SavedOK(r)
            BY <1>2, <1>7, <2>2, <3>1 DEF Plumbed, Cding
        <3>3. SavedOK(r2) /\ Base(r2) = Base(r)
            BY ONLY <1>0, <3>2, RedirectBase
        <3>4. f.pc # "restore" /\ f2.pc # "restore"
            BY <1>2, <1>4 DEF Redirections
        <3> QED BY ONLY <1>2, <1>4, <1>7, <2>2, <3>1, <3>3, <3>4, MovedPlumbed
    <2> QED BY <2>1, <2>2
<1>8. Launched(r2) => Launched(r)
    BY <1>2, <1>6 DEF Launched
<1> QED BY <1>2, <1>3, <1>5, <1>7, <1>8 DEF Steps, Advances

-----------------------------------------------------------------------------
(* The end of a cd command: the descriptors are put back.                   *)
LEMMA RestoreOne ==
    ASSUME NEW r, IsRunning(r), r.io \in Ios, r.fd \in Tables \cup {<<>>}, NEW k \in 0 .. 2,
           NEW a, a = restore(r, k)
    PROVE  /\ a = Running(r.line, r.parent, a.fd, r.stack, r.val, r.io)
           /\ a.fd \in Tables \cup {<<>>}
           /\ r.fd = <<>> => a.fd = <<>>
           /\ r.io.saved[k] = NotSaved => a.fd = r.fd
           /\ r.io.saved[k] # NotSaved /\ r.fd # <<>> /\ r.fd[r.io.saved[k]] # Closed =>
                \A t \in Slots : a.fd[t] = IF t = r.io.saved[k] THEN Closed
                                           ELSE IF t = k THEN r.fd[r.io.saved[k]] ELSE r.fd[t]
<1>0. PICK line, parent, fd0, stack, val, io : r = Running(line, parent, fd0, stack, val, io)
    BY DEF IsRunning
<1>1. /\ r.line = line /\ r.parent = parent /\ r.fd = fd0 /\ r.stack = stack /\ r.val = val /\ r.io = io
    BY <1>0, FieldsOf
<1>2. PICK s : s = r.io.saved[k]
    OBVIOUS
<1>3. s \in Slots \cup {NotSaved} /\ k \in Slots
    BY <1>2, IosIs, LinesAre
<1>4. \A fd2 : [r EXCEPT !.fd = fd2] = Running(line, parent, fd2, stack, val, io)
    BY <1>0 DEF Running
<1>5. CASE s = NotSaved \/ r.fd = <<>>
    <2>1. a = r
        BY <1>2, <1>5 DEF restore
    <2> QED BY <1>0, <1>1, <1>2, <1>5, <2>1
<1>6. CASE s # NotSaved /\ r.fd # <<>> /\ r.fd[s] = Closed
    <2>1. a = [r EXCEPT !.fd = <<>>]
        BY <1>2, <1>6 DEF restore
    <2>2. a = Running(line, parent, <<>>, stack, val, io)
        BY <1>4, <2>1
    <2>3. a.fd = <<>>
        BY <2>2, FieldsOf
    <2> QED BY <1>1, <1>2, <1>6, <2>2, <2>3
<1>7. CASE s # NotSaved /\ r.fd # <<>> /\ r.fd[s] # Closed
    <2>1. PICK fd2 : fd2 = close(dup2(r.fd, s, k), s)
        OBVIOUS
    <2>2. a = [r EXCEPT !.fd = fd2]
        BY <1>2, <1>7, <2>1 DEF restore
    <2>3. a = Running(line, parent, fd2, stack, val, io)
        BY <1>4, <2>2
    <2>4. a.fd = fd2
        BY ONLY <2>3, FieldsOf
    <2>5. s \in Slots /\ r.fd \in Tables
        BY <1>3, <1>7
    <2>6. PICK d : d = dup2(r.fd, s, k)
        OBVIOUS
    <2>7. d \in Tables
        BY <1>3, <2>5, <2>6, DescriptorCalls
    <2>8. fd2 \in Tables
        BY <2>1, <2>5, <2>6, <2>7, DescriptorCalls
    <2>9. \A t \in Slots : fd2[t] = IF t = s THEN Closed ELSE IF t = k THEN r.fd[s] ELSE r.fd[t]
        BY <1>3, <2>1, <2>5 DEF close, dup2, Tables
    <2> QED BY <1>1, <1>2, <1>7, <2>3, <2>4, <2>8, <2>9
<1> QED BY <1>5, <1>6, <1>7

RestoredTo(r, a) == a = restore(restore(restore(r, 0), 1), 2)
LEMMA RestoreAll ==
    ASSUME NEW r, IsRunning(r), r.io \in Ios, r.fd \in Tables, NEW a, RestoredTo(r, a), a.fd # <<>>
    PROVE  /\ a = Running(r.line, r.parent, a.fd, r.stack, r.val, r.io)
           /\ a.fd \in Tables
           /\ SavedOK(r) => a.fd = Base(r)
<1>1. PICK r0 : r0 = restore(r, 0)
    OBVIOUS
<1>2. PICK r1 : r1 = restore(r0, 1)
    OBVIOUS
<1>3. a = restore(r1, 2)
    BY <1>1, <1>2 DEF RestoredTo
<1>4. PICK zero, one, two : zero = 0 /\ one = 1 /\ two = 2
    OBVIOUS
<1>5. zero \in 0 .. 2 /\ one \in 0 .. 2 /\ two \in 0 .. 2
    BY <1>4
<1>6. PICK sv, fd : sv = r.io.saved /\ fd = r.fd
    OBVIOUS
<1>7. /\ r0 = Running(r.line, r.parent, r0.fd, r.stack, r.val, r.io)
      /\ r0.fd \in Tables \cup {<<>>}
      /\ sv[zero] = NotSaved => r0.fd = fd
      /\ sv[zero] # NotSaved /\ fd # <<>> /\ fd[sv[zero]] # Closed =>
                \A t \in Slots : r0.fd[t] = IF t = sv[zero] THEN Closed
                                            ELSE IF t = zero THEN fd[sv[zero]] ELSE fd[t]
    <2>1. IsRunning(r) /\ r.io \in Ios /\ r.fd \in Tables \cup {<<>>} /\ r0 = restore(r, zero)
        BY <1>1, <1>4
    <2> QED BY ONLY <1>5, <1>6, <2>1, RestoreOne
<1>8. /\ IsRunning(r0) /\ r0.io = r.io /\ r0.stack = r.stack /\ r0.line = r.line /\ r0.parent = r.parent
      /\ r0.val = r.val
    BY ONLY <1>7, FieldsOf
<1>9. /\ r1 = Running(r.line, r.parent, r1.fd, r.stack, r.val, r.io)
      /\ r1.fd \in Tables \cup {<<>>} /\ (r0.fd = <<>> => r1.fd = <<>>)
      /\ sv[one] = NotSaved => r1.fd = r0.fd
      /\ sv[one] # NotSaved /\ r0.fd # <<>> /\ r0.fd[sv[one]] # Closed =>
                \A t \in Slots : r1.fd[t] = IF t = sv[one] THEN Closed
                                            ELSE IF t = one THEN r0.fd[sv[one]] ELSE r0.fd[t]
    <2>1. IsRunning(r0) /\ r0.io \in Ios /\ r0.fd \in Tables \cup {<<>>} /\ r1 = restore(r0, one)
        BY <1>2, <1>4, <1>7, <1>8
    <2>2. /\ r1 = Running(r0.line, r0.parent, r1.fd, r0.stack, r0.val, r0.io)
          /\ r1.fd \in Tables \cup {<<>>} /\ (r0.fd = <<>> => r1.fd = <<>>)
          /\ r0.io.saved[one] = NotSaved => r1.fd = r0.fd
          /\ r0.io.saved[one] # NotSaved /\ r0.fd # <<>> /\ r0.fd[r0.io.saved[one]] # Closed =>
                \A t \in Slots : r1.fd[t] = IF t = r0.io.saved[one] THEN Closed
                                            ELSE IF t = one THEN r0.fd[r0.io.saved[one]] ELSE r0.fd[t]
        BY ONLY <1>5, <2>1, RestoreOne
    <2> QED BY ONLY <1>6, <1>8, <2>2
<1>10. /\ IsRunning(r1) /\ r1.io = r.io /\ r1.stack = r.stack /\ r1.line = r.line /\ r1.parent = r.parent
       /\ r1.val = r.val
    BY ONLY <1>9, FieldsOf
<1>11. /\ a = Running(r.line, r.parent, a.fd, r.stack, r.val, r.io)
       /\ a.fd \in Tables \cup {<<>>} /\ (r1.fd = <<>> => a.fd = <<>>)
       /\ sv[two] = NotSaved => a.fd = r1.fd
       /\ sv[two] # NotSaved /\ r1.fd # <<>> /\ r1.fd[sv[two]] # Closed =>
                \A t \in Slots : a.fd[t] = IF t = sv[two] THEN Closed
                                           ELSE IF t = two THEN r1.fd[sv[two]] ELSE r1.fd[t]
    <2>1. IsRunning(r1) /\ r1.io \in Ios /\ r1.fd \in Tables \cup {<<>>} /\ a = restore(r1, two)
        BY <1>3, <1>4, <1>9, <1>10
    <2>2. /\ a = Running(r1.line, r1.parent, a.fd, r1.stack, r1.val, r1.io)
          /\ a.fd \in Tables \cup {<<>>} /\ (r1.fd = <<>> => a.fd = <<>>)
          /\ r1.io.saved[two] = NotSaved => a.fd = r1.fd
          /\ r1.io.saved[two] # NotSaved /\ r1.fd # <<>> /\ r1.fd[r1.io.saved[two]] # Closed =>
                \A t \in Slots : a.fd[t] = IF t = r1.io.saved[two] THEN Closed
                                           ELSE IF t = two THEN r1.fd[r1.io.saved[two]] ELSE r1.fd[t]
        BY ONLY <1>5, <2>1, RestoreOne
    <2> QED BY ONLY <1>6, <1>10, <2>2
<1>12. a.fd \in Tables /\ r1.fd \in Tables /\ r0.fd \in Tables /\ fd \in Tables
       /\ a.fd # <<>> /\ r1.fd # <<>> /\ r0.fd # <<>>
    BY <1>6, <1>7, <1>9, <1>11
<1>13. fd # <<>>
    <2>1. 0 \in DOMAIN fd
        BY <1>12, ShellAssumption DEF Tables
    <2> QED BY <2>1
<1>14. ASSUME SavedOK(r) PROVE a.fd = Base(r)
    <2>1. /\ \A j \in 0 .. 2 :
                /\ fd[j] # Closed
                /\ sv[j] # NotSaved =>
                    /\ sv[j] \notin 0 .. 2 /\ fd[sv[j]] # Closed
                    /\ \A i \in 0 .. 2 : sv[i] = sv[j] => i = j
          /\ sv \in [0 .. 2 -> Slots \cup {NotSaved}] /\ \A j \in 0 .. 2 : j \in Slots
        BY <1>6, <1>14, IosIs, LinesAre DEF SavedOK
    <2>2. \A t \in Slots :
            r0.fd[t] = IF sv[zero] # NotSaved /\ t = sv[zero] THEN Closed
                       ELSE IF sv[zero] # NotSaved /\ t = zero THEN fd[sv[zero]] ELSE fd[t]
        BY ONLY <1>5, <1>7, <1>13, <2>1
    <2>3. zero # one /\ zero # two /\ one # two
        BY <1>4
    <2>4. sv[one] # NotSaved => sv[one] \in Slots /\ r0.fd[sv[one]] = fd[sv[one]] /\ fd[sv[one]] # Closed
        BY ONLY <1>5, <2>1, <2>2, <2>3
    <2>5. \A t \in Slots :
            r1.fd[t] = IF sv[one] # NotSaved /\ t = sv[one] THEN Closed
                       ELSE IF sv[one] # NotSaved /\ t = one THEN fd[sv[one]] ELSE r0.fd[t]
        BY ONLY <1>9, <1>12, <2>4
    <2>6. sv[two] # NotSaved => sv[two] \in Slots /\ r1.fd[sv[two]] = fd[sv[two]] /\ fd[sv[two]] # Closed
        BY ONLY <1>5, <2>1, <2>2, <2>3, <2>5
    <2>7. \A t \in Slots :
            a.fd[t] = IF sv[two] # NotSaved /\ t = sv[two] THEN Closed
                      ELSE IF sv[two] # NotSaved /\ t = two THEN fd[sv[two]] ELSE r1.fd[t]
        BY ONLY <1>11, <1>12, <2>6
    <2>8. \A j : j \in 0 .. 2 <=> j = zero \/ j = one \/ j = two
        BY <1>4
    <2>9. \A t \in Slots : t # NotSaved
        BY ShellAssumption DEF NotSaved
    <2>10. ASSUME NEW t \in Slots
           PROVE  a.fd[t] = IF t \in 0 .. 2 /\ sv[t] # NotSaved THEN fd[sv[t]]
                            ELSE IF \E k \in 0 .. 2 : sv[k] = t THEN Closed ELSE fd[t]
        <3>1. CASE t \in 0 .. 2
            <4>1. \A k \in 0 .. 2 : sv[k] # t
                BY ONLY <2>1, <2>9, <3>1, t \in Slots
            <4> QED BY ONLY <2>2, <2>3, <2>5, <2>7, <2>8, <3>1, <4>1, t \in Slots
        <3>2. CASE t \notin 0 .. 2
            <4>1. (\E k \in 0 .. 2 : sv[k] = t) <=> sv[zero] = t \/ sv[one] = t \/ sv[two] = t
                BY ONLY <2>8
            <4> QED BY ONLY <2>2, <2>3, <2>5, <2>7, <2>8, <2>9, <3>2, <4>1, t \in Slots
        <3> QED BY <3>1, <3>2
    <2>11. PICK u : u = Base(r)
        OBVIOUS
    <2>12. \A t \in Slots : u[t] = a.fd[t]
        BY <1>6, <2>10, <2>11 DEF Base
    <2>13. u = [s \in Slots |-> u[s]]
        BY <2>11 DEF Base
    <2>14. a.fd = [s \in Slots |-> a.fd[s]]
        BY <1>12 DEF Tables
    <2> QED BY <2>11, <2>12, <2>13, <2>14
<1> QED BY <1>11, <1>12, <1>14

LEMMA CdReturns ==
    ASSUME NEW p, NEW r, Sound(r), r.stack # <<>>, NEW f, f = r.stack[1], f.pc = "redirect",
           Simple(r).verb = "cd", NEW a, RestoredTo(r, a), a.fd # <<>>, NEW v \in {0, 1},
           NEW r2, r2 = Return([a EXCEPT !.io = NoIo], v)
    PROVE  Steps(p, r, r2)
<1>1. IsRunning(r) /\ r.io \in Ios /\ r.fd \in Tables /\ f.pc \in Redirections
    BY DEF Sound, IoOK, Redirections
<1>2. /\ a = Running(r.line, r.parent, a.fd, r.stack, r.val, r.io)
      /\ a.fd \in Tables /\ (SavedOK(r) => a.fd = Base(r))
    BY ONLY <1>1, RestoredTo(r, a), a.fd # <<>>, RestoreAll
<1>3. PICK fd : fd = a.fd
    OBVIOUS
<1>4. r2 = Running(r.line, r.parent, fd, Tail(r.stack), v, NoIo)
    <2>1. PICK b : b = [a EXCEPT !.io = NoIo]
        OBVIOUS
    <2>2. PICK line, parent, fd1, stack, val, io :
            /\ a = Running(line, parent, fd1, stack, val, io) /\ line = r.line /\ parent = r.parent
            /\ fd1 = fd /\ stack = r.stack /\ val = r.val
        BY <1>2, <1>3
    <2>3. b = Running(line, parent, fd1, stack, val, NoIo)
        BY ONLY <2>1, <2>2 DEF Running
    <2>4. IsRunning(b) /\ b.line = r.line /\ b.parent = r.parent /\ b.fd = fd /\ b.stack = r.stack /\ b.io = NoIo
        BY ONLY <2>2, <2>3, FieldsOf
    <2>5. Return(b, v) = Running(b.line, b.parent, b.fd, Tail(b.stack), v, b.io)
        BY ONLY <2>4, Returns
    <2> QED BY <2>1, <2>4, <2>5
<1>5. v \in Values
    BY LinesAre
<1>6. /\ Sound(r2) /\ r2.parent = r.parent
      /\ \A q : Awaits(r, q) /\ q \notin Pending(f) => Awaits(r2, q)
    <2>1. fd \in Tables
        BY <1>2, <1>3
    <2> QED BY ONLY Sound(r), r.stack # <<>>, f = r.stack[1], <1>4, <1>5, <2>1, Popped
<1>7. r2.line = r.line /\ r2.stack = Tail(r.stack)
    BY ONLY <1>4, FieldsOf
<1>8. SameRoot(r, r2)
    BY <1>7, Roots
<1>9. ~ Launched(r) /\ Cding(r) /\ f.pc # "restore"
    BY <1>1 DEF Launched, Cding, Programs
<1>10. ASSUME NEW pos, Plumbed(p, r, pos) PROVE Plumbed(p, r2, pos)
    <2>1. SavedOK(r)
        BY <1>9, <1>10 DEF Plumbed
    <2>2. fd \in Tables /\ fd = Base(r)
        BY <1>2, <1>3, <2>1
    <2> QED BY ONLY Sound(r), r.stack # <<>>, f = r.stack[1], <1>4, <1>9, <1>10, <2>2, PoppedPlumbed
<1>11. ~ Launched(r2)
    <2>1. r2.stack # <<>> => r2.stack[1] = r.stack[2] /\ 2 \in 2 .. Len(r.stack)
        <3>1. PICK S, s : S = Frames(r.line) /\ s = r.stack
            OBVIOUS
        <3>2. s \in Seq(S) /\ s # <<>>
            BY <3>1 DEF Sound
        <3>3. Tail(s) # <<>> => Tail(s)[1] = s[2] /\ 2 \in 2 .. Len(s)
            BY ONLY <3>2
        <3> QED BY <1>7, <3>1, <3>3
    <2>2. \A pc \in Calling : Quiet(pc)
        BY DEF Calling, Quiet, Redirections
    <2> QED BY <2>1, <2>2, QuietIs DEF Sound
<1> QED BY <1>6, <1>8, <1>10, <1>11 DEF Steps, Advances

(* execvp. *)
LEMMA ExecSteps ==
    ASSUME NEW p, NEW r, Sound(r), r.stack # <<>>, NEW f, f = r.stack[1], f.pc = "redirect",
           Simple(r).verb \in Programs, \A k \in 0 .. 2 : r.io.word[k] = 0,
           NEW r2, r2 = Goto([r EXCEPT !.io = NoIo], "program")
    PROVE  Steps(p, r, r2)
<1>1. /\ Runs(r, f) /\ f \in Frames(r.line) /\ IsRunning(r) /\ r.fd \in Tables /\ f.cmd[1] = "none"
      /\ f.pc \in Redirections /\ Len(r.stack) = 1 /\ r.stack \in Seq(Range(r.stack))
    BY TopIs, PcIs DEF Runs, Sound, IoOK, Redirections
<1>2. PICK pc : pc = "program"
    OBVIOUS
<1>3. PICK f2 : f2 = FrameOf(f.cmd, pc, f.pid1, f.pid2, f.saved)
    OBVIOUS
<1>4. f.pid1 \in Pids \cup {0} /\ f.pid2 \in Pids \cup {0} /\ f.saved \in Slots
    BY <1>1, FrameIs
<1>5. f2 \in Frames(r.line) /\ f2.cmd = f.cmd /\ f2.pc = pc
    <2>1. pc \in Pcs(f.cmd[1])
        BY <1>1, <1>2 DEF Pcs
    <2>2. IsAt(r, f, pc, f.pid1, f.pid2, f.saved, f2)
        <3>1. f2.pc = pc
            BY <1>3, FieldsOf
        <3>2. 0 \notin Pending(f2)
            BY <1>2, <3>1 DEF Pending
        <3> QED BY <1>3, <1>4, <2>1, <3>2 DEF IsAt
    <2> QED BY <2>2, FrameAt
<1>6. r2 = Running(r.line, r.parent, r.fd, OnTop(r.stack, f2), r.val, NoIo)
    <2>1. PICK b : b = [r EXCEPT !.io = NoIo]
        OBVIOUS
    <2>2. PICK line, parent, fd1, stack, val, io : r = Running(line, parent, fd1, stack, val, io)
        BY <1>1 DEF IsRunning
    <2>3. b = Running(line, parent, fd1, stack, val, NoIo)
        BY ONLY <2>1, <2>2 DEF Running
    <2>4. IsRunning(b) /\ b.line = r.line /\ b.parent = r.parent /\ b.fd = r.fd /\ b.stack = r.stack /\ b.io = NoIo
          /\ b.val = r.val
        BY ONLY <2>2, <2>3, FieldsOf
    <2>5. Runs(b, f)
        BY <1>1, <2>4 DEF Runs
    <2>6. Goto(b, pc) = Running(b.line, b.parent, b.fd,
            OnTop(b.stack, FrameOf(f.cmd, pc, f.pid1, f.pid2, f.saved)), b.val, b.io)
        BY ONLY <2>5, GoesTo
    <2> QED BY <1>2, <1>3, <2>1, <2>4, <2>6
<1>7. r2.stack = OnTop(r.stack, f2) /\ r2.line = r.line /\ r2.io = NoIo /\ r2.fd = r.fd
    BY ONLY <1>6, FieldsOf
<1>8. r2.stack[1] = f2 /\ r2.stack # <<>> /\ Len(r2.stack) = 1
    <2>1. r.stack \in Seq(Range(r.stack)) /\ r.stack # <<>> /\ Len(r.stack) = 1
        BY <1>1
    <2> QED BY ONLY <1>7, <2>1 DEF OnTop
<1>9. Simple(r2) = Simple(r) /\ r2.stack[1].cmd = r.stack[1].cmd
    BY <1>5, <1>7, <1>8 DEF Simple
<1>10. IoOK(r2)
    <2>1. pc \notin Redirections
        BY <1>2 DEF Redirections
    <2> QED BY <1>5, <1>7, <1>8, <1>9, <2>1 DEF IoOK
<1>11. /\ Sound(r2) /\ r2.parent = r.parent
       /\ \A q : Awaits(r, q) /\ q \notin Pending(f) => Awaits(r2, q)
    <2>1. MovesTo(r, f, f2, r.fd, NoIo, r2)
        BY <1>1, <1>5, <1>6, <1>10 DEF MovesTo
    <2> QED BY ONLY <2>1, Moved
<1>12. SameRoot(r, r2)
    BY <1>5, <1>7, Roots
<1>13. Launched(r) /\ Launched(r2)
    BY <1>1, <1>2, <1>5, <1>8, <1>9 DEF Launched
<1>14. ASSUME NEW pos, Plumbed(p, r, pos) PROVE Plumbed(p, r2, pos)
    <2>1. \A k \in 0 .. 2 : r2.io.word[k] = 0
        BY <1>7 DEF NoIo
    <2>2. Streams(r, pos) => Streams(r2, pos)
        <3>1. ASSUME Streams(r, pos), NEW k \in 0 .. 2
              PROVE  LET red == Simple(r2).red IN
                     /\ r2.fd[k] # Closed
                     /\ IF NodesOf(red, k, Len(red)) = {}
                        THEN WiredAt(r2.line, r2.stack[1].cmd[2], k, r2.fd[k], pos)
                        ELSE \E w \in NodesOf(red, k, Len(red)) :
                                /\ \A v \in NodesOf(red, k, Len(red)) : v <= w
                                /\ r2.fd[k] = <<"file", red[w][2]>>
            <4>1. r.io.word[k] = 0
                OBVIOUS
            <4> QED BY <1>7, <1>9, <3>1, <4>1 DEF Streams
        <3> QED BY <2>1, <3>1 DEF Streams
    <2> QED BY <1>9, <1>13, <1>14, <2>2 DEF Plumbed
<1> QED BY <1>11, <1>12, <1>13, <1>14 DEF Steps, Advances

-----------------------------------------------------------------------------
(* The processes a command forks.  Born(p, r, c): a child of p, whose record *)
(* is r, is sound and has the descriptors its command needs.                 *)
ChildOf(r, p, t, pc) == [r EXCEPT !.parent = p, !.stack = <<Frame(t, pc)>>, !.val = 0]
Born(p, r, c) ==
    /\ Sound(c) /\ c.parent = p
    /\ \A pos, q : NoCdSkips /\ q # shell /\ Plumbed(p, r, pos) => Plumbed(q, c, pos)

LEMMA ChildForm ==
    ASSUME NEW r, IsRunning(r), NEW p, NEW t, NEW pc, NEW c, c = ChildOf(r, p, t, pc)
    PROVE  c = Running(r.line, p, r.fd, <<FrameOf(t, pc, 0, 0, 0)>>, 0, r.io)
<1>1. PICK line, parent, fd, stack, val, io : r = Running(line, parent, fd, stack, val, io)
    BY DEF IsRunning
<1>2. r.line = line /\ r.fd = fd /\ r.io = io
    BY <1>1, FieldsOf
<1>3. PICK g, s, v : g = FrameOf(t, pc, 0, 0, 0) /\ s = <<g>> /\ v = 0
    OBVIOUS
<1>4. g = Frame(t, pc)
    BY <1>3 DEF Frame, FrameOf
<1>5. c = [r EXCEPT !.parent = p, !.stack = s, !.val = v]
    BY <1>3, <1>4 DEF ChildOf
<1>6. c = Running(line, p, fd, s, v, io)
    BY ONLY <1>1, <1>5 DEF Running
<1> QED BY <1>2, <1>3, <1>6

(* A frame for a call of a part of a line, at its start or elsewhere.       *)
NewFrame(l, t, pc, g) ==
    /\ IsLine(l) /\ \E a, b \in Nat : IsPart(l, t, a, b)
    /\ pc \in Pcs(t[1]) /\ pc \in {"start", "redirect"} /\ g = FrameOf(t, pc, 0, 0, 0)
LEMMA FrameStarts ==
    ASSUME NEW l, NEW t, NEW pc, NEW g, NewFrame(l, t, pc, g)
    PROVE  /\ g \in Frames(l) /\ g.cmd = t /\ g.pc = pc
           /\ <<g>> \in Seq(Frames(l)) /\ Len(<<g>>) = 1 /\ <<g>>[1] = g
<1>1. PICK a, b \in Nat : IsPart(l, t, a, b)
    BY DEF NewFrame
<1>2. PICK n0 : n0 = 0
    OBVIOUS
<1>3. n0 \in Pids \cup {0} /\ n0 \in Slots
    BY <1>2, LinesAre
<1>4. IsLine(l) /\ pc \in Pcs(t[1]) /\ g = FrameOf(t, pc, n0, n0, n0) /\ pc \in {"start", "redirect"}
    BY <1>2 DEF NewFrame
<1>6. g.cmd = t /\ g.pc = pc
    BY ONLY <1>4, FieldsOf
<1>7. 0 \notin Pending(FrameOf(t, pc, n0, n0, n0))
    BY <1>4, <1>6 DEF Pending
<1>5. g \in Frames(l)
    BY ONLY <1>1, <1>3, <1>4, <1>7, FrameMade
<1> QED BY <1>5, <1>6

LEMMA ParallelBorn ==
    ASSUME NEW p \in Pids, NEW r, Sound(r), r.stack # <<>>, NEW f, f = r.stack[1],
           f.cmd[1] = "parallel", f.pc \in {"start", "fork2"}, NEW t \in {f.cmd[2], f.cmd[3]},
           NEW c, c = ChildOf(r, p, t, "start")
    PROVE  Born(p, r, c)
<1>1. /\ IsRunning(r) /\ r.io = NoIo /\ f \in Frames(r.line) /\ IsLine(r.line) /\ r.fd \in Tables
      /\ r.line \in Lines \ Refused /\ Quiet(f.pc) /\ f.pc # "restore"
    BY TopIs DEF Quiet, Sound, Redirections
<1>2. PICK pc : pc = "start"
    OBVIOUS
<1>3. PICK g : g = FrameOf(t, pc, 0, 0, 0)
    OBVIOUS
<1>4. PICK s : s = <<g>>
    OBVIOUS
<1>5. c = Running(r.line, p, r.fd, s, 0, NoIo)
    BY <1>1, <1>2, <1>3, <1>4, ChildForm
<1>6. \E a, b \in Nat : IsPart(r.line, t, a, b)
    <2>1. PICK a \in Nat, b \in Nat : IsPart(r.line, f.cmd, a, b)
        BY <1>1, FrameIs
    <2>2. PICK k \in Nat : IsPart(r.line, f.cmd[2], a, k) /\ IsPart(r.line, f.cmd[3], k + 1, b)
        BY <1>1, <2>1, Parts
    <2>3. k + 1 \in Nat
        OBVIOUS
    <2>4. t = f.cmd[2] \/ t = f.cmd[3]
        OBVIOUS
    <2> QED BY <2>1, <2>2, <2>3, <2>4
<1>7. g \in Frames(r.line) /\ g.cmd = t /\ g.pc = "start" /\ s \in Seq(Frames(r.line)) /\ Len(s) = 1
      /\ s[1] = g
    <2>1. pc \in Pcs(t[1])
        BY <1>2 DEF Pcs
    <2>2. NewFrame(r.line, t, pc, g)
        BY <1>1, <1>2, <1>3, <1>6, <2>1 DEF NewFrame
    <2> QED BY <1>2, <1>4, <2>2, FrameStarts
<1>8. Quiet(g.pc) /\ g.pc # "restore"
    BY <1>7 DEF Quiet, Redirections
<1>9. PICK v, pa : v = 0 /\ pa = p
    OBVIOUS
<1>10. Sound(c)
    <2>1. v \in Values /\ pa \in Pids \cup {0}
        BY <1>9, LinesAre
    <2>2. \A i \in 2 .. Len(s) : s[i].pc \in Calling
        BY <1>7
    <2>3. s # <<>> => Quiet(s[1].pc)
        BY <1>7, <1>8
    <2>4. c = Running(r.line, pa, r.fd, s, v, NoIo)
        BY <1>5, <1>9
    <2> QED BY ONLY <1>1, <1>7, <2>1, <2>2, <2>3, <2>4, SoundMade
<1>11. c.parent = p
    BY ONLY <1>5, FieldsOf
<1>12. ASSUME NEW pos, NEW q, q # shell, Plumbed(p, r, pos) PROVE Plumbed(q, c, pos)
    <2>1. PICK a \in Nat, b \in Nat : IsPart(r.line, f.cmd, a, b) /\ Wired(r.line, a, b, r.fd, pos)
        BY <1>1, <1>12, TopWired
    <2>2. f.cmd[1] \notin {"none", "pipe"}
        OBVIOUS
    <2>3. \E d, e \in Nat : IsPart(r.line, g.cmd, d, e) /\ Wired(r.line, d, e, r.fd, pos)
        BY <1>1, <1>7, <2>1, <2>2, PartWired
    <2>4. c = Running(r.line, p, r.fd, <<g>>, v, NoIo)
        BY <1>4, <1>5, <1>9
    <2> QED BY ONLY <1>1, <1>8, <1>12, <2>3, <2>4, StartPlumbed
<1> QED BY <1>10, <1>11, <1>12 DEF Born

LEMMA ProgramBorn ==
    ASSUME NEW p \in Pids, NEW r, Sound(r), r.stack # <<>>, NEW f, f = r.stack[1],
           f.cmd[1] = "none", f.pc = "start", Simple(r).verb \in Programs,
           NEW red, red = Simple(r).red, NEW garbage \in Slots,
           NEW c, c = [ChildOf(r, p, f.cmd, "redirect") EXCEPT !.io = Io(red, garbage)]
    PROVE  Born(p, r, c)
<1>1. /\ IsRunning(r) /\ r.io = NoIo /\ f \in Frames(r.line) /\ IsLine(r.line) /\ r.fd \in Tables
      /\ r.line \in Lines \ Refused /\ Quiet(f.pc) /\ f.pc # "restore"
    BY TopIs DEF Quiet, Sound, Redirections
<1>2. /\ WordsInv(red, Len(red), Words[red]) /\ Len(red) \in Nat
      /\ IsPart(r.line, f.cmd, f.cmd[2], f.cmd[2]) /\ f.cmd[2] \in 1 .. Len(r.line.cmds)
    BY SimpleIs
<1>3. PICK pc, g, s, io :
        /\ pc = "redirect" /\ g = FrameOf(f.cmd, pc, 0, 0, 0) /\ s = <<g>>
        /\ io = IoOf(garbage, NoIo.saved, Words[red].list)
    OBVIOUS
<1>4. c = Running(r.line, p, r.fd, s, 0, io)
    <2>1. PICK b : b = ChildOf(r, p, f.cmd, pc)
        OBVIOUS
    <2>2. b = Running(r.line, p, r.fd, s, 0, r.io)
        BY <1>1, <1>3, <2>1, ChildForm
    <2>3. Io(red, garbage) = io
        <3>1. PICK list, i1, i2 : /\ list = Words[red].list /\ i1 = Io(red, garbage)
                                  /\ i2 = IoOf(garbage, NoIo.saved, list)
            OBVIOUS
        <3>2. PICK n0, sv, w0 : NoIo = IoOf(n0, sv, w0)
            BY DEF NoIo, IoOf
        <3>3. NoIo.saved = sv
            BY ONLY <3>2, FieldsOf
        <3>4. i1 = [NoIo EXCEPT !.n = garbage, !.word = list]
            BY <3>1 DEF Io
        <3>5. i1 = i2
            BY ONLY <3>1, <3>2, <3>3, <3>4 DEF IoOf
        <3> QED BY <1>3, <3>1, <3>5
    <2>4. c = [b EXCEPT !.io = io]
        BY <1>3, <2>1, <2>3
    <2>5. PICK line, pa, fd, val, io1 :
            /\ b = Running(line, pa, fd, s, val, io1) /\ line = r.line /\ pa = p /\ fd = r.fd /\ val = 0
        BY <2>2
    <2>6. c = Running(line, pa, fd, s, val, io)
        BY ONLY <2>4, <2>5 DEF Running
    <2> QED BY <2>5, <2>6
<1>5. /\ IsRunning(c) /\ c.line = r.line /\ c.parent = p /\ c.fd = r.fd /\ c.stack = s /\ c.val = 0
      /\ c.io = io
    BY ONLY <1>4, FieldsOf
<1>6. g \in Frames(r.line) /\ g.cmd = f.cmd /\ g.pc = pc /\ s \in Seq(Frames(r.line)) /\ Len(s) = 1
      /\ s[1] = g
    <2>1. pc \in Pcs(f.cmd[1])
        BY <1>3 DEF Pcs, Redirections
    <2>2. \E a, b \in Nat : IsPart(r.line, f.cmd, a, b)
        BY <1>1, FrameIs
    <2>3. NewFrame(r.line, f.cmd, pc, g)
        BY <1>1, <1>3, <2>1, <2>2 DEF NewFrame
    <2> QED BY <1>3, <2>3, FrameStarts
<1>7. Simple(c) = Simple(r) /\ c.stack # <<>> /\ c.stack[1].pc \in Redirections /\ c.stack[1].cmd = f.cmd
    <2>0. s # <<>> /\ s[1] = g /\ g.pc = "redirect"
        BY ONLY <1>3, <1>6
    <2>1. c.stack # <<>> /\ c.stack[1] = g /\ g.pc = "redirect"
        BY ONLY <1>5, <2>0
    <2>2. c.stack[1].cmd = r.stack[1].cmd
        BY <1>6, <2>1
    <2> QED BY <1>5, <2>1, <2>2, Zenon DEF Simple, Redirections
<1>8. io \in Ios /\ io.word = Words[red].list /\ \A k \in 0 .. 2 : io.word[k] <= Len(red)
    BY <1>2, <1>3, FirstWords, FieldsOf, SMTT(30)
<1>9. Sound(c)
    <2>1. IoOK(c)
        <3>1. pc # "redirect_err"
            BY <1>3
        <3> QED BY <1>5, <1>6, <1>7, <1>8, <3>1 DEF IoOK
    <2>2. 0 \in Values /\ r.line # None
        BY <1>1, LinesAre
    <2>3. \A i \in 2 .. Len(s) : s[i].pc \in Calling
        BY <1>6
    <2>4. c.stack \in Seq(Frames(c.line)) /\ \A i \in 2 .. Len(c.stack) : c.stack[i].pc \in Calling
        BY <1>5, <1>6, <2>3
    <2>5. c.val \in Values /\ c.line \in (Lines \ Refused) \cup {None} /\ c.line # None
          /\ c.fd \in Tables /\ c.parent \in Pids \cup {0}
        BY <1>1, <1>5, <2>2
    <2> QED BY <1>5, <2>1, <2>4, <2>5 DEF Sound
<1>10. Launched(c)
    BY <1>7 DEF Launched
<1>11. ASSUME NEW pos, NEW q, Plumbed(p, r, pos), Regular(red) PROVE Streams(c, pos)
    <2>1. PICK a \in Nat, b \in Nat : IsPart(r.line, f.cmd, a, b) /\ Wired(r.line, a, b, r.fd, pos)
        BY <1>1, <1>11, TopWired
    <2>2. a = f.cmd[2] /\ b = f.cmd[2]
        BY <1>1, <2>1, Parts
    <2>3. \A k \in 0 .. 2 : r.fd[k] # Closed
        BY <2>1, WiredOpen
    <2>4. \A k \in 0 .. 2 : WiredAt(r.line, f.cmd[2], k, r.fd[k], pos)
        <3>1. \A k \in 0 .. 2 : k = 0 \/ k = 1 \/ k = 2
            OBVIOUS
        <3> QED BY <2>1, <2>2, <3>1 DEF Wired, WiredAt
    <2>5. \A k \in 0 .. 2 : /\ io.word[k] = 0 <=> NodesOf(red, k, Len(red)) = {}
                            /\ io.word[k] # 0 => io.word[k] \in NodesOf(red, k, Len(red))
        <3>1. ASSUME NEW k \in 0 .. 2
              PROVE  /\ Words[red].list[k] = 0 <=> NodesOf(red, k, Len(red)) = {}
                     /\ Words[red].list[k] # 0 => Words[red].list[k] \in NodesOf(red, k, Len(red))
            BY <1>11, <3>1, WordsOfRegular DEF Regular
        <3> QED BY <1>8, <3>1
    <2> QED BY <1>5, <1>7, <2>3, <2>4, <2>5, Zenon DEF Streams
<1>12. ASSUME NEW pos, NEW q, Plumbed(p, r, pos) PROVE Plumbed(q, c, pos)
    BY <1>7, <1>10, <1>11, <1>12 DEF Plumbed
<1> QED BY <1>5, <1>9, <1>12 DEF Born

-----------------------------------------------------------------------------
(* A new pipe.                                                              *)
Other(pos, pos2, kk) == \A k \in Pipes : k # kk => pos2[k] = pos[k]

LEMMA JoinKept ==
    ASSUME NEW l, NEW a, NEW b, NEW fd, NEW pos, NEW pos2, NEW kk, Fresh(fd, kk), Other(pos, pos2, kk)
    PROVE  /\ WiredIn(l, a, fd[0], pos) => WiredIn(l, a, fd[0], pos2)
           /\ WiredOut(l, b, fd[1], pos) => WiredOut(l, b, fd[1], pos2)
           /\ Wired(l, a, b, fd, pos) => Wired(l, a, b, fd, pos2)
<1>1. /\ 0 \in Slots /\ 1 \in Slots
    BY ShellAssumption
<1>2. \A j : JoinedTo(fd[0], "read", j, pos) => JoinedTo(fd[0], "read", j, pos2)
    <2>1. \A k : fd[0] = <<"read", k>> => k # kk
        BY <1>1 DEF Fresh
    <2> QED BY <2>1 DEF JoinedTo, Other
<1>3. \A j : JoinedTo(fd[1], "write", j, pos) => JoinedTo(fd[1], "write", j, pos2)
    <2>1. \A k : fd[1] = <<"write", k>> => k # kk
        BY <1>1 DEF Fresh
    <2> QED BY <2>1 DEF JoinedTo, Other
<1> QED BY <1>2, <1>3 DEF WiredIn, WiredOut, Wired

LEMMA BaseFresh ==
    ASSUME NEW r, Sound(r), NEW kk, Fresh(r.fd, kk)
    PROVE  Fresh(Base(r), kk)
<1>1. \A s \in 0 .. 2 : r.io.saved[s] \in Slots \cup {NotSaved}
    <2>1. CASE r.io \in Ios
        BY <2>1, IosIs
    <2>2. CASE r.io = NoIo
        BY <2>2 DEF NoIo
    <2> QED BY <2>1, <2>2 DEF Sound, IoOK
<1>2. PICK u : u = Base(r)
    OBVIOUS
<1>3. Closed # <<"read", kk>> /\ Closed # <<"write", kk>>
    BY EndsFacts
<1>4. ASSUME NEW s \in Slots PROVE u[s] # <<"read", kk>> /\ u[s] # <<"write", kk>>
    <2>1. u[s] = IF s \in 0 .. 2 /\ r.io.saved[s] # NotSaved THEN r.fd[r.io.saved[s]]
                 ELSE IF \E k \in 0 .. 2 : r.io.saved[k] = s THEN Closed ELSE r.fd[s]
        BY <1>2 DEF Base
    <2> QED BY <1>1, <1>3, <2>1 DEF Fresh
<1> QED BY <1>2, <1>4 DEF Fresh

LEMMA UnwindsFresh ==
    ASSUME NEW p, NEW r, Sound(r), NEW T \in [0 .. Len(r.stack) -> Tables], NEW pos,
           Unwinds(p, r, T, pos), NEW kk, Fresh(r.fd, kk)
    PROVE  \A i \in 0 .. Len(r.stack) : Fresh(T[i], kk)
<1>1. PICK n \in Nat : n = Len(r.stack)
    BY DEF Sound
<1>2. PICK bad : bad = {i \in 0 .. n : ~ Fresh(T[i], kk)}
    OBVIOUS
<1>3. SUFFICES ASSUME bad # {} PROVE FALSE
    BY <1>1, <1>2
<1>4. bad \in SUBSET Nat
    BY <1>2
<1>5. PICK m \in bad : \A k \in bad : m <= k
    BY <1>3, <1>4, LeastNatural
<1>6. m # 0
    <2>1. T[0] = Base(r)
        BY DEF Unwinds
    <2>2. Fresh(T[0], kk)
        BY <2>1, BaseFresh
    <2> QED BY <1>2, <1>5, <2>2
<1>7. m \in 1 .. n /\ m - 1 \in 0 .. n /\ ~ (m <= m - 1)
    BY <1>2, <1>5, <1>6
<1>8. Fresh(T[m - 1], kk)
    BY <1>2, <1>5, <1>7
<1>9. PICK s : s = r.stack[m].saved
    OBVIOUS
<1>10. s \in Slots
    <2>1. r.stack[m] \in Frames(r.line)
        BY <1>1, <1>7 DEF Sound
    <2> QED BY <1>9, <2>1, FrameIs
<1>11. Fresh(T[m], kk)
    <2>1. T[m] = IF r.stack[m].pc = "restore" THEN Unpiped(T[m - 1], s) ELSE T[m - 1]
        BY <1>1, <1>7, <1>9 DEF Unwinds
    <2>2. PICK u : u = Unpiped(T[m - 1], s)
        OBVIOUS
    <2>3. T[m - 1] \in Tables /\ 1 \in Slots
        BY <1>1, <1>7, ShellAssumption
    <2>4. \A t \in Slots : u[t] = Closed \/ u[t] = T[m - 1][s] \/ u[t] = T[m - 1][t]
        BY <1>10, <2>2, <2>3 DEF Unpiped, close, dup2, Tables
    <2>5. Closed # <<"read", kk>> /\ Closed # <<"write", kk>>
        BY EndsFacts
    <2>6. Fresh(u, kk)
        BY <1>8, <1>10, <2>4, <2>5 DEF Fresh
    <2> QED BY <1>8, <2>1, <2>2, <2>6
<1> QED BY <1>2, <1>5, <1>11

UnwindsBoth(p, r, T, pos, pos2, kk) ==
    /\ Sound(r) /\ T \in [0 .. Len(r.stack) -> Tables] /\ Unwinds(p, r, T, pos)
    /\ Fresh(r.fd, kk) /\ Other(pos, pos2, kk)
LEMMA UnwindsKept ==
    ASSUME NEW p, NEW r, NEW T, NEW pos, NEW pos2, NEW kk, UnwindsBoth(p, r, T, pos, pos2, kk)
    PROVE  Unwinds(p, r, T, pos2)
<1> USE DEF UnwindsBoth
<1>1. \A i \in 0 .. Len(r.stack) : Fresh(T[i], kk)
    BY UnwindsFresh
<1>2. ASSUME NEW i \in 1 .. Len(r.stack)
      PROVE  \E a, b \in Nat : IsPart(r.line, r.stack[i].cmd, a, b) /\ Wired(r.line, a, b, T[i], pos2)
    <2>1. PICK a \in Nat, b \in Nat : IsPart(r.line, r.stack[i].cmd, a, b) /\ Wired(r.line, a, b, T[i], pos)
        BY DEF Unwinds
    <2>2. i \in 0 .. Len(r.stack)
        OBVIOUS
    <2>3. Fresh(T[i], kk) /\ Other(pos, pos2, kk)
        BY <1>1, <2>2
    <2>4. Wired(r.line, a, b, T[i], pos2)
        BY ONLY <2>1, <2>3, JoinKept
    <2> QED BY <2>1, <2>4
<1> QED BY <1>2 DEF Unwinds

(* Processes that do not hold the new pipe.                                 *)
LEMMA OthersPlumbed ==
    ASSUME NEW q, NEW r, Sound(r), NEW kk, Fresh(r.fd, kk), NEW pos, NEW pos2, Other(pos, pos2, kk),
           Plumbed(q, r, pos)
    PROVE  Plumbed(q, r, pos2)
<1>1. CASE Launched(r)
    <2>1. \A k \in 0 .. 2 : WiredAt(r.line, r.stack[1].cmd[2], k, r.fd[k], pos)
                => WiredAt(r.line, r.stack[1].cmd[2], k, r.fd[k], pos2)
        <3>1. \A k \in 0 .. 2 : k = 0 \/ k = 1 \/ k = 2
            OBVIOUS
        <3> QED BY <3>1, JoinKept DEF WiredAt
    <2>2. Streams(r, pos) => Streams(r, pos2)
        BY <2>1 DEF Streams
    <2> QED BY <1>1, <2>2 DEF Plumbed
<1>2. CASE ~ Launched(r)
    <2>1. PICK T \in [0 .. Len(r.stack) -> Tables] : Unwinds(q, r, T, pos)
        BY <1>2 DEF Plumbed
    <2>2. UnwindsBoth(q, r, T, pos, pos2, kk)
        BY <2>1 DEF UnwindsBoth
    <2>3. Unwinds(q, r, T, pos2)
        BY ONLY <2>2, UnwindsKept
    <2> QED BY <1>2, <2>3 DEF Plumbed
<1> QED BY <1>1, <1>2

(* Both sides of a pipe.  kk is new, n is the reader's process.             *)
PipesTo(p, r, f, kk, n, fd1, in, out, r2, c) ==
    /\ Sound(r) /\ r.stack # <<>> /\ f = r.stack[1] /\ f.cmd[1] = "pipe" /\ f.pc = "start"
    /\ p \in Pids /\ n \in Pids /\ kk \in Pipes /\ Room(r.fd) /\ fd1 = piped(r.fd, kk)
    /\ in = Slot(fd1, <<"read", kk>>) /\ out = Slot(fd1, <<"write", kk>>)
    /\ r2 = Call(Piping(r, writer(fd1, in, out), n, Low(close(fd1, in))), "restore", f.cmd[2])
    /\ c = [ChildOf(r, p, f.cmd[3], "start") EXCEPT !.fd = reader(fd1, in, out)]

PipeForms(p, r, f, n, wfd, rfd, s, f2, g, h, r2, c) ==
    /\ r2 = Running(r.line, r.parent, wfd, <<g>> \o OnTop(r.stack, f2), r.val, NoIo)
    /\ c = Running(r.line, p, rfd, <<h>>, 0, NoIo)
    /\ wfd \in Tables /\ rfd \in Tables
    /\ f2 \in Frames(r.line) /\ f2.cmd = f.cmd /\ f2.pc = "restore" /\ f2.pid1 = n /\ f2.saved = s
    /\ g \in Frames(r.line) /\ g.cmd = f.cmd[2] /\ g.pc = "start" /\ Quiet(g.pc)
    /\ h \in Frames(r.line) /\ h.cmd = f.cmd[3] /\ h.pc = "start" /\ Quiet(h.pc)
    /\ <<h>> \in Seq(Frames(r.line)) /\ Len(<<h>>) = 1 /\ <<h>>[1] = h

LEMMA PipeForm ==
    ASSUME NEW p, NEW r, NEW f, NEW kk, NEW n, NEW fd1, NEW in, NEW out, NEW r2, NEW c,
           PipesTo(p, r, f, kk, n, fd1, in, out, r2, c)
    PROVE  \E f2, g, h : PipeForms(p, r, f, n, writer(fd1, in, out), reader(fd1, in, out),
                                   Low(close(fd1, in)), f2, g, h, r2, c)
<1>0. /\ Sound(r) /\ r.stack # <<>> /\ f = r.stack[1] /\ f.cmd[1] = "pipe" /\ f.pc = "start"
      /\ p \in Pids /\ n \in Pids /\ kk \in Pipes /\ Room(r.fd) /\ fd1 = piped(r.fd, kk)
      /\ in = Slot(fd1, <<"read", kk>>) /\ out = Slot(fd1, <<"write", kk>>)
    BY DEF PipesTo
<1>1. PICK wfd, rfd, s : wfd = writer(fd1, in, out) /\ rfd = reader(fd1, in, out) /\ s = Low(close(fd1, in))
    OBVIOUS
<1>2. /\ Runs(r, f) /\ IsRunning(r) /\ r.io = NoIo /\ f \in Frames(r.line) /\ IsLine(r.line)
      /\ r.fd \in Tables
    BY <1>0, TopIs DEF Sound, Redirections
<1>3. wfd \in Tables /\ rfd \in Tables /\ s \in Slots
    BY <1>0, <1>1, <1>2, PipeTypes
<1>4. PICK pcr, pcs : pcr = "restore" /\ pcs = "start"
    OBVIOUS
<1>5. PICK f2 : f2 = FrameOf(f.cmd, pcr, n, f.pid2, s)
    OBVIOUS
<1>6. f2 \in Frames(r.line) /\ f2.cmd = f.cmd /\ f2.pc = pcr /\ f2.pid1 = n /\ f2.saved = s
    <2>1. pcr \in Pcs(f.cmd[1])
        BY <1>0, <1>4 DEF Pcs, Redirections
    <2>2. f.pid2 \in Pids \cup {0} /\ n \in Pids \cup {0}
        BY <1>0, <1>2, FrameIs
    <2>3. IsAt(r, f, pcr, n, f.pid2, s, f2)
        <3>1. f2.pc = pcr /\ f2.pid1 = n
            BY <1>5, FieldsOf
        <3>2. 0 \notin Pending(f2)
            BY <1>0, <1>4, <3>1, LinesAre DEF Pending
        <3> QED BY <1>0, <1>3, <1>5, <2>1, <2>2, <3>2 DEF IsAt
    <2> QED BY ONLY <2>3, FrameAt
<1>7. PICK g, h : g = FrameOf(f.cmd[2], pcs, 0, 0, 0) /\ h = FrameOf(f.cmd[3], pcs, 0, 0, 0)
    OBVIOUS
<1>8. PICK a \in Nat, b \in Nat, k \in Nat : IsPart(r.line, f.cmd[2], a, k) /\ IsPart(r.line, f.cmd[3], k + 1, b)
    <2>1. PICK a \in Nat, b \in Nat : IsPart(r.line, f.cmd, a, b)
        BY <1>2, FrameIs
    <2>2. \E k \in Nat : IsPart(r.line, f.cmd[2], a, k) /\ IsPart(r.line, f.cmd[3], k + 1, b)
        BY <1>0, <1>2, <2>1, Parts
    <2> QED BY <2>2
<1>9. g \in Frames(r.line) /\ g.cmd = f.cmd[2] /\ g.pc = pcs
    <2>1. pcs \in Pcs(f.cmd[2][1])
        BY <1>4 DEF Pcs
    <2>2. NewFrame(r.line, f.cmd[2], pcs, g)
        BY <1>2, <1>4, <1>7, <1>8, <2>1 DEF NewFrame
    <2> QED BY ONLY <2>2, FrameStarts
<1>10. h \in Frames(r.line) /\ h.cmd = f.cmd[3] /\ h.pc = pcs
       /\ <<h>> \in Seq(Frames(r.line)) /\ Len(<<h>>) = 1 /\ <<h>>[1] = h
    <2>1. pcs \in Pcs(f.cmd[3][1])
        BY <1>4 DEF Pcs
    <2>2. k + 1 \in Nat
        OBVIOUS
    <2>3. NewFrame(r.line, f.cmd[3], pcs, h)
        BY <1>2, <1>4, <1>7, <1>8, <2>1, <2>2 DEF NewFrame
    <2> QED BY ONLY <2>3, FrameStarts
<1>11. Quiet(pcs)
    BY <1>4 DEF Quiet, Redirections
<1>12. r2 = Running(r.line, r.parent, wfd, <<g>> \o OnTop(r.stack, f2), r.val, NoIo)
    <2>1. r2 = Call(Piping(r, wfd, n, s), "restore", f.cmd[2])
        BY <1>1 DEF PipesTo
    <2>2. Call(Piping(r, wfd, n, s), "restore", f.cmd[2]) =
            Running(r.line, r.parent, wfd,
                    <<FrameOf(f.cmd[2], "start", 0, 0, 0)>>
                        \o OnTop(r.stack, FrameOf(f.cmd, "restore", n, f.pid2, s)), r.val, r.io)
        BY <1>2, CallsPiped
    <2> QED BY ONLY <1>2, <1>4, <1>5, <1>7, <2>1, <2>2
<1>13. c = Running(r.line, p, rfd, <<h>>, 0, NoIo)
    <2>1. PICK t, b0, s1 : t = f.cmd[3] /\ b0 = ChildOf(r, p, t, pcs) /\ s1 = <<h>>
        OBVIOUS
    <2>2. b0 = Running(r.line, p, r.fd, s1, 0, NoIo)
        BY <1>2, <1>7, <2>1, ChildForm
    <2>3. c = [b0 EXCEPT !.fd = rfd]
        BY <1>1, <1>4, <2>1 DEF PipesTo
    <2>4. PICK line, pa, fd, val, io1 :
            /\ b0 = Running(line, pa, fd, s1, val, io1) /\ line = r.line /\ pa = p /\ io1 = NoIo /\ val = 0
        BY <2>2
    <2>5. c = Running(line, pa, rfd, s1, val, io1)
        BY ONLY <2>3, <2>4 DEF Running
    <2> QED BY <2>1, <2>4, <2>5
<1>14. PipeForms(p, r, f, n, wfd, rfd, s, f2, g, h, r2, c)
    BY <1>3, <1>4, <1>6, <1>9, <1>10, <1>11, <1>12, <1>13 DEF PipeForms
<1> QED BY <1>1, <1>14

LEMMA PipeSound ==
    ASSUME NEW p, NEW r, NEW f, NEW kk, NEW n, NEW fd1, NEW in, NEW out, NEW r2, NEW c,
           PipesTo(p, r, f, kk, n, fd1, in, out, r2, c)
    PROVE  Advances(r, r2) /\ Sound(c) /\ c.parent = p /\ Awaits(r2, n) /\ Pending(f) = {}
<1>0. /\ Sound(r) /\ r.stack # <<>> /\ f = r.stack[1] /\ f.cmd[1] = "pipe" /\ f.pc = "start"
      /\ p \in Pids /\ n \in Pids
    BY DEF PipesTo
<1>1. PICK wfd, rfd, s : wfd = writer(fd1, in, out) /\ rfd = reader(fd1, in, out) /\ s = Low(close(fd1, in))
    OBVIOUS
<1>2. PICK f2, g, h : PipeForms(p, r, f, n, wfd, rfd, s, f2, g, h, r2, c)
    BY <1>1, PipeForm
<1>3. /\ r2 = Running(r.line, r.parent, wfd, <<g>> \o OnTop(r.stack, f2), r.val, NoIo)
      /\ c = Running(r.line, p, rfd, <<h>>, 0, NoIo)
      /\ wfd \in Tables /\ rfd \in Tables
      /\ f2 \in Frames(r.line) /\ f2.cmd = f.cmd /\ f2.pc = "restore" /\ f2.pid1 = n
      /\ g \in Frames(r.line) /\ Quiet(g.pc) /\ h \in Frames(r.line) /\ Quiet(h.pc)
      /\ <<h>> \in Seq(Frames(r.line)) /\ Len(<<h>>) = 1 /\ <<h>>[1] = h
    BY <1>2 DEF PipeForms
<1>4. f2.pc \in Calling /\ n \in Pending(f2) /\ Pending(f) = {}
    BY <1>0, <1>3 DEF Calling, Pending
<1>5. /\ Sound(r2) /\ r2.parent = r.parent
      /\ \A q : Awaits(r, q) /\ q \notin Pending(f) => Awaits(r2, q)
      /\ \A q \in Pending(f2) : Awaits(r2, q)
    BY ONLY <1>0, <1>3, <1>4, Called
<1>6. SameRoot(r, r2)
    <2>1. PICK s3 : s3 = <<g>> \o OnTop(r.stack, f2)
        OBVIOUS
    <2>2. r2 = Running(r.line, r.parent, wfd, s3, r.val, NoIo)
        BY <1>3, <2>1
    <2>3. r2.line = r.line /\ r2.stack = s3
        BY ONLY <2>2, FieldsOf
    <2> QED BY <1>0, <1>3, <2>1, <2>3, Roots
<1>7. Sound(c) /\ c.parent = p
    <2>1. PICK s1, v, pa : s1 = <<h>> /\ v = 0 /\ pa = p
        OBVIOUS
    <2>2. /\ s1 \in Seq(Frames(r.line)) /\ Len(s1) = 1 /\ s1[1] = h
          /\ c = Running(r.line, pa, rfd, s1, v, NoIo)
        BY <1>3, <2>1
    <2>3. v \in Values /\ pa \in Pids \cup {0}
        BY <1>0, <2>1, LinesAre
    <2>4. \A i \in 2 .. Len(s1) : s1[i].pc \in Calling
        BY <2>2
    <2>5. s1 # <<>> => Quiet(s1[1].pc)
        BY <1>3, <2>2
    <2>6. r.line \in Lines \ Refused
        BY <1>0, TopIs
    <2>7. Sound(c)
        BY ONLY <1>3, <2>2, <2>3, <2>4, <2>5, <2>6, SoundMade
    <2>8. c.parent = pa
        BY ONLY <2>2, FieldsOf
    <2> QED BY <2>1, <2>7, <2>8
<1>8. ~ Launched(r2)
    <2>1. PICK s2, s3, S : s2 = OnTop(r.stack, f2) /\ s3 = <<g>> \o s2 /\ S = Frames(r.line)
        OBVIOUS
    <2>2. r2 = Running(r.line, r.parent, wfd, s3, r.val, NoIo)
        BY <1>3, <2>1
    <2>3. r2.stack = s3
        BY ONLY <2>2, FieldsOf
    <2>4. s2 \in Seq(S) /\ g \in S
        BY <1>0, <1>3, <2>1 DEF OnTop, Sound
    <2>5. s3[1] = g
        BY ONLY <2>1, <2>4, StackPush
    <2> QED BY <1>3, <2>3, <2>5, QuietIs
<1> QED BY <1>0, <1>4, <1>5, <1>6, <1>7, <1>8 DEF Advances


(* The plumbing of both sides, once the pipe is known to be of operator j.   *)
LEMMA PipePlumbed ==
    ASSUME NEW p, NEW r, NEW f, NEW kk, NEW n, NEW fd1, NEW in, NEW out, NEW r2, NEW c,
           PipesTo(p, r, f, kk, n, fd1, in, out, r2, c),
           NEW pos, Plumbed(p, r, pos), Fresh(r.fd, kk)
    PROVE  \E j \in Nat : \A pos2 : Other(pos, pos2, kk) /\ pos2[kk] = j =>
                Plumbed(p, r2, pos2) /\ \A q : q # shell => Plumbed(q, c, pos2)
<1>0. /\ Sound(r) /\ r.stack # <<>> /\ f = r.stack[1] /\ f.cmd[1] = "pipe" /\ f.pc = "start"
      /\ p \in Pids /\ n \in Pids /\ kk \in Pipes /\ Room(r.fd) /\ fd1 = piped(r.fd, kk)
      /\ in = Slot(fd1, <<"read", kk>>) /\ out = Slot(fd1, <<"write", kk>>)
    BY DEF PipesTo
<1>1. PICK wfd, rfd, s : wfd = writer(fd1, in, out) /\ rfd = reader(fd1, in, out) /\ s = Low(close(fd1, in))
    OBVIOUS
<1>2. PICK f2, g, h : PipeForms(p, r, f, n, wfd, rfd, s, f2, g, h, r2, c)
    BY <1>1, PipeForm
<1>3. /\ r2 = Running(r.line, r.parent, wfd, <<g>> \o OnTop(r.stack, f2), r.val, NoIo)
      /\ c = Running(r.line, p, rfd, <<h>>, 0, NoIo)
      /\ wfd \in Tables /\ rfd \in Tables
      /\ f2 \in Frames(r.line) /\ f2.cmd = f.cmd /\ f2.pc = "restore" /\ f2.saved = s
      /\ g \in Frames(r.line) /\ g.cmd = f.cmd[2] /\ g.pc = "start" /\ Quiet(g.pc)
      /\ h \in Frames(r.line) /\ h.cmd = f.cmd[3] /\ h.pc = "start" /\ Quiet(h.pc)
    BY <1>2 DEF PipeForms
<1>4. /\ IsLine(r.line) /\ r.io = NoIo /\ r.fd \in Tables /\ Quiet(f.pc) /\ f.pc # "restore"
      /\ r.stack \in Seq(Frames(r.line)) /\ ~ Launched(r)
    BY <1>0, TopIs, QuietIs DEF Sound, Quiet, Redirections
<1>5. PICK a \in Nat, b \in Nat : IsPart(r.line, f.cmd, a, b) /\ Wired(r.line, a, b, r.fd, pos)
    BY <1>0, <1>4, TopWired
<1>6. PICK j \in Nat : /\ IsPart(r.line, f.cmd[2], a, j) /\ IsPart(r.line, f.cmd[3], j + 1, b)
                       /\ j \in 1 .. Len(r.line.cmds) - 1 /\ r.line.ops[j] = "pipe"
    <2>1. f.cmd[1] # "none"
        BY <1>0
    <2> QED BY <1>0, <1>4, <1>5, <2>1, Parts
<1>7. PipeAt(r.line, j) /\ j + 1 \in Nat /\ (j + 1) - 1 = j
    BY <1>6 DEF PipeAt
<1>8. /\ \A t \in Slots : wfd[t] = IF t = 1 THEN <<"write", kk>> ELSE IF t = in THEN r.fd[1] ELSE r.fd[t]
      /\ \A t \in Slots : rfd[t] = IF t = 0 THEN <<"read", kk>> ELSE IF t = out THEN r.fd[0] ELSE r.fd[t]
      /\ s = in /\ Unpiped(wfd, s) = r.fd
      /\ in \in Slots \ (0 .. 2) /\ out \in Slots \ (0 .. 2)
    <2>1. r.fd[0] # Closed /\ r.fd[1] # Closed /\ r.fd[2] # Closed
        <3>1. \A k \in 0 .. 2 : r.fd[k] # Closed
            BY <1>5, WiredOpen
        <3> QED BY <3>1
    <2>2. Fresh(r.fd, kk)
        OBVIOUS
    <2>3. PipeDone(r.fd, kk, fd1, in, out)
        BY ONLY <1>0, <1>4, <2>1, <2>2, PipeEnds
    <2> QED BY ONLY <1>1, <2>3 DEF PipeDone
<1>9. /\ wfd[0] = r.fd[0] /\ wfd[1] = <<"write", kk>> /\ wfd[2] = r.fd[2]
      /\ rfd[0] = <<"read", kk>> /\ rfd[1] = r.fd[1] /\ rfd[2] = r.fd[2]
    <2>1. 0 \in Slots /\ 1 \in Slots /\ 2 \in Slots /\ in # 0 /\ in # 2 /\ out # 1 /\ out # 2
        BY <1>8, ShellAssumption
    <2> QED BY <1>8, <2>1
<1>10. SUFFICES ASSUME NEW pos2, Other(pos, pos2, kk), pos2[kk] = j
                PROVE  Plumbed(p, r2, pos2) /\ \A q : q # shell => Plumbed(q, c, pos2)
    OBVIOUS
<1>11. Wired(r.line, a, b, r.fd, pos2)
    <2>1. Fresh(r.fd, kk) /\ Other(pos, pos2, kk)
        BY <1>10
    <2> QED BY ONLY <1>5, <2>1, JoinKept
<1>12. Wired(r.line, a, j, wfd, pos2) /\ Wired(r.line, j + 1, b, rfd, pos2)
    <2>1. JoinedTo(wfd[1], "write", j, pos2) /\ JoinedTo(rfd[0], "read", j, pos2)
        BY <1>0, <1>9, <1>10 DEF JoinedTo
    <2> QED BY <1>7, <1>9, <1>11, <2>1 DEF Wired, WiredIn, WiredOut
<1>13. \A q : q # shell => Plumbed(q, c, pos2)
    <2>1. SUFFICES ASSUME NEW q, q # shell PROVE Plumbed(q, c, pos2)
        OBVIOUS
    <2>2. \E d, e \in Nat : IsPart(r.line, h.cmd, d, e) /\ Wired(r.line, d, e, rfd, pos2)
        BY <1>3, <1>6, <1>7, <1>12
    <2>3. PICK v : v = 0
        OBVIOUS
    <2>4. h.pc # "restore" /\ c = Running(r.line, p, rfd, <<h>>, v, NoIo)
        BY <1>3, <2>3
    <2> QED BY ONLY <1>3, <2>1, <2>2, <2>4, StartPlumbed
<1>14. PICK T \in [0 .. Len(r.stack) -> Tables] : Unwinds(p, r, T, pos)
    BY <1>4 DEF Plumbed
<1>15. Unwinds(p, r, T, pos2)
    <2>1. UnwindsBoth(p, r, T, pos, pos2, kk)
        BY <1>0, <1>10, <1>14 DEF UnwindsBoth
    <2> QED BY ONLY <2>1, UnwindsKept
<1>16. PICK m \in Nat \ {0} : m = Len(r.stack)
    BY <1>0, TopIs
<1>17. PICK s2, s3 : s2 = OnTop(r.stack, f2) /\ s3 = <<g>> \o s2
    OBVIOUS
<1>18. /\ r2.stack = s3 /\ r2.line = r.line /\ r2.fd = wfd /\ r2.io = NoIo
    <2>1. r2 = Running(r.line, r.parent, wfd, s3, r.val, NoIo)
        BY <1>3, <1>17
    <2> QED BY ONLY <2>1, FieldsOf
<1>19. /\ s2 \in Seq(Frames(r.line)) /\ Len(s2) = m /\ s2[1] = f2
       /\ \A i \in 2 .. m : s2[i] = r.stack[i]
    <2>1. PICK S : S = Frames(r.line)
        OBVIOUS
    <2>2. r.stack \in Seq(S) /\ r.stack # <<>> /\ f2 \in S
        BY <1>0, <1>3, <1>4, <2>1
    <2> QED BY ONLY <1>16, <1>17, <2>1, <2>2 DEF OnTop
<1>20. /\ Len(s3) = m + 1 /\ s3[1] = g /\ s3 # <<>> /\ s3[2] = f2
       /\ \A i \in 3 .. m + 1 : s3[i] = r.stack[i - 1]
    <2>1. PICK S : S = Frames(r.line)
        OBVIOUS
    <2>2. s2 \in Seq(S) /\ g \in S /\ s3 = <<g>> \o s2
        BY <1>3, <1>17, <1>19, <2>1
    <2>3. /\ Len(s3) = Len(s2) + 1 /\ s3[1] = g /\ s3 # <<>>
          /\ \A i \in 2 .. Len(s2) + 1 : s3[i] = s2[i - 1]
        BY ONLY <2>2, StackPush
    <2>4. 2 \in 2 .. m + 1 /\ 2 - 1 = 1
        OBVIOUS
    <2>5. \A i \in 3 .. m + 1 : i \in 2 .. m + 1 /\ i - 1 \in 2 .. m
        OBVIOUS
    <2> QED BY ONLY <1>19, <2>3, <2>4, <2>5
<1>21. ~ Launched(r2) /\ ~ Cding(r2)
    BY <1>3, <1>18, <1>20, QuietIs
<1>22. Base(r2) = wfd /\ T[0] = r.fd /\ T[1] = r.fd
    <2>1. Base(r2) = wfd
        BY <1>3, <1>18, BaseIs
    <2>2. T[0] = r.fd
        BY <1>4, <1>15, BaseIs DEF Unwinds
    <2>3. 1 \in 1 .. Len(r.stack) /\ 1 - 1 = 0
        BY <1>16
    <2>4. T[1] = T[0]
        BY <1>0, <1>4, <1>15, <2>3 DEF Unwinds
    <2> QED BY <2>1, <2>2, <2>4
<1>23. PICK U : U = [i \in 0 .. m + 1 |-> IF i \in {0, 1} THEN wfd ELSE T[i - 1]]
    OBVIOUS
<1>24. /\ U \in [0 .. m + 1 -> Tables] /\ U[0] = wfd /\ U[1] = wfd
       /\ \A i \in 2 .. m + 1 : U[i] = T[i - 1]
    <2>1. \A i \in 2 .. m + 1 : i - 1 \in 0 .. m /\ i \in 0 .. m + 1 /\ i \notin {0, 1}
        OBVIOUS
    <2>2. \A i \in 0 .. m + 1 : i \in {0, 1} \/ i \in 2 .. m + 1
        OBVIOUS
    <2>3. \A i \in 2 .. m + 1 : U[i] = T[i - 1]
        BY <1>23, <2>1
    <2>4. 0 \in 0 .. m + 1 /\ 1 \in 0 .. m + 1
        OBVIOUS
    <2>5. U[0] = wfd /\ U[1] = wfd
        BY <1>23, <2>4
    <2>6. \A i \in 0 .. m + 1 : U[i] \in Tables
        BY <1>3, <1>16, <2>1, <2>2, <2>3, <2>5
    <2> QED BY <1>23, <2>3, <2>5, <2>6
<1>25. ASSUME NEW i \in 1 .. m + 1
       PROVE  /\ U[i] = IF s3[i].pc = "restore" THEN Unpiped(U[i - 1], s3[i].saved) ELSE U[i - 1]
              /\ \E d, e \in Nat : IsPart(r.line, s3[i].cmd, d, e) /\ Wired(r.line, d, e, U[i], pos2)
    <2>1. CASE i = 1
        <3>1. U[i] = wfd /\ U[i - 1] = wfd /\ s3[i] = g
            BY <1>20, <1>24, <2>1
        <3>2. g.pc # "restore"
            BY <1>3
        <3>3. \E d, e \in Nat : IsPart(r.line, g.cmd, d, e) /\ Wired(r.line, d, e, wfd, pos2)
            BY <1>3, <1>6, <1>12
        <3> QED BY ONLY <3>1, <3>2, <3>3
    <2>2. CASE i = 2
        <3>1. 2 \in 2 .. m + 1 /\ i - 1 = 1
            BY <2>2
        <3>2. U[i] = r.fd /\ U[i - 1] = wfd /\ s3[i] = f2
            BY <1>20, <1>22, <1>24, <2>2, <3>1
        <3>3. \E d, e \in Nat : IsPart(r.line, f2.cmd, d, e) /\ Wired(r.line, d, e, r.fd, pos2)
            BY <1>3, <1>5, <1>11
        <3> QED BY ONLY <1>3, <1>8, <3>2, <3>3
    <2>3. CASE i # 1 /\ i # 2
        <3>1. PICK k : k = i - 1
            OBVIOUS
        <3>2. i \in 3 .. m + 1 /\ i \in 2 .. m + 1 /\ i - 1 \in 2 .. m + 1 /\ k \in 1 .. m /\ (i - 1) - 1 = k - 1
            BY <2>3, <3>1
        <3>3. U[i] = T[k] /\ U[i - 1] = T[k - 1] /\ s3[i] = r.stack[k]
            BY <1>20, <1>24, <3>1, <3>2
        <3>4. /\ T[k] = IF r.stack[k].pc = "restore" THEN Unpiped(T[k - 1], r.stack[k].saved) ELSE T[k - 1]
              /\ \E d, e \in Nat : IsPart(r.line, r.stack[k].cmd, d, e) /\ Wired(r.line, d, e, T[k], pos2)
            BY <1>15, <1>16, <3>2 DEF Unwinds
        <3> QED BY ONLY <3>3, <3>4
    <2> QED BY <2>1, <2>2, <2>3
<1>26. p = shell => U[m + 1] = Terminal
    <2>1. m + 1 \in 2 .. m + 1 /\ (m + 1) - 1 = m
        OBVIOUS
    <2> QED BY <1>15, <1>16, <1>24, <2>1 DEF Unwinds
<1>27. Len(r2.stack) = m + 1 /\ U[0] = Base(r2)
    BY <1>18, <1>20, <1>22, <1>24
<1>28. Unwinds(p, r2, U, pos2)
    BY ONLY <1>18, <1>25, <1>26, <1>27 DEF Unwinds
<1>29. Plumbed(p, r2, pos2)
    BY <1>21, <1>24, <1>27, <1>28 DEF Plumbed
<1> QED BY <1>13, <1>29

-----------------------------------------------------------------------------
(* The processes.  A process that is not running is a number that is free or *)
(* the status of a child; a child's parent awaits it.  The shell itself      *)
(* becomes no program, and the tree it walks is that of its line.            *)
ZombieOf(q, v) == [Nobody EXCEPT !.st = "zombie", !.parent = q, !.val = v]
Dead(r) == r = Nobody \/ \E q \in Pids, v \in Values : r = ZombieOf(q, v)
RootOK(r) == r.stack # <<>> => Root(r) = GroupedTree[r.line]
TypesOf(pr, ov) ==
    /\ pr = [p \in Pids |-> pr[p]]
    /\ ov \in {None} \cup Endings
    /\ ov \in {None, "assert"} => Sound(pr[shell])
    /\ pr[shell].parent = 0 /\ ~ Launched(pr[shell]) /\ RootOK(pr[shell])
    /\ \A p \in Pids : Sound(pr[p]) \/ Dead(pr[p])
    /\ \A p \in Pids : pr[p].parent # 0 =>
            pr[p].parent # p /\ Sound(pr[pr[p].parent]) /\ Awaits(pr[pr[p].parent], p)

(* The plumbing of all processes, for some assignment of the pipes to the    *)
(* operators of the line.                                                    *)
WiresOf(pr) ==
    \E pos \in [Pipes -> Nat] : \A p \in Pids : Sound(pr[p]) => Plumbed(p, pr[p], pos)
Good(pr, ov) == TypesOf(pr, ov) /\ (NoCdSkips => WiresOf(pr))

LEMMA DeadIs ==
    /\ Dead(Nobody)
    /\ \A r : Dead(r) => /\ r.st \in {"none", "zombie"} /\ r.parent \in Pids \cup {0}
                         /\ r.line = None /\ r.val \in Values /\ r.fd = Terminal /\ r.stack = <<>>
                         /\ (r.st = "none" => r = Nobody) /\ (r.st = "zombie" => r.parent # 0)
                         /\ ~ Sound(r)
    /\ \A r : Sound(r) => r.st = "run" /\ r.parent \in Pids \cup {0}
    /\ Nobody.parent = 0 /\ Nobody.st = "none" /\ Nobody.stack = <<>>
    /\ \A q, v : LET z == ZombieOf(q, v) IN z.st = "zombie" /\ z.parent = q /\ z.val = v /\ z.stack = <<>>
<1>1. /\ Nobody.st = "none" /\ Nobody.parent = 0 /\ Nobody.line = None /\ Nobody.val = 0
      /\ Nobody.fd = Terminal /\ Nobody.stack = <<>>
    BY DEF Nobody
<1>2. \A q, v : /\ ZombieOf(q, v).st = "zombie" /\ ZombieOf(q, v).parent = q /\ ZombieOf(q, v).val = v
                /\ ZombieOf(q, v).line = None /\ ZombieOf(q, v).fd = Terminal
                /\ ZombieOf(q, v).stack = <<>>
    BY DEF Nobody, ZombieOf
<1>3. \A r : Sound(r) => r.st = "run" /\ r.parent \in Pids \cup {0}
    <2>1. SUFFICES ASSUME NEW r, Sound(r) PROVE r.st = "run" /\ r.parent \in Pids \cup {0}
        OBVIOUS
    <2>2. r = Running(r.line, r.parent, r.fd, r.stack, r.val, r.io)
        BY <2>1 DEF Sound, IsRunning
    <2>3. r.st = "run"
        BY ONLY <2>2, FieldsOf
    <2> QED BY <2>1, <2>3 DEF Sound
<1>4. ASSUME NEW r, Dead(r)
      PROVE  /\ r.st \in {"none", "zombie"} /\ r.parent \in Pids \cup {0}
             /\ r.line = None /\ r.val \in Values /\ r.fd = Terminal /\ r.stack = <<>>
             /\ (r.st = "none" => r = Nobody) /\ (r.st = "zombie" => r.parent # 0)
             /\ ~ Sound(r)
    <2>1. CASE r = Nobody
        BY <1>1, <1>3, <2>1, LinesAre
    <2>2. CASE r # Nobody
        <3>1. PICK q \in Pids, v \in Values : r = ZombieOf(q, v)
            BY <1>4, <2>2 DEF Dead
        <3>2. r.st = "zombie" /\ r.parent = q /\ r.val = v /\ r.line = None /\ r.fd = Terminal
              /\ r.stack = <<>>
            BY <1>2, <3>1
        <3>3. q # 0
            BY LinesAre
        <3> QED BY <1>3, <3>2, <3>3
    <2> QED BY <2>1, <2>2
<1> QED BY <1>1, <1>2, <1>3, <1>4 DEF Dead

(* One process makes a step, and children of it come or go.                 *)
Changes(pr, p, k, pr2) ==
    /\ p \in Pids /\ Sound(pr[p]) /\ pr[p].stack # <<>> /\ Advances(pr[p], pr2[p])
    /\ pr2 = [q \in Pids |-> pr2[q]]
    /\ \A q \in Pids : q # p /\ q # k => pr2[q] = pr[q]
    /\ \A q \in Pending(pr[p].stack[1]) : q # k => Awaits(pr2[p], q)
    /\ k \in Pids /\ k # p => k # shell /\ ~ Sound(pr[k])
    /\ k \in Pids /\ k # p => \/ pr2[k] = Nobody
                              \/ Sound(pr2[k]) /\ pr2[k].parent = p /\ Awaits(pr2[p], k)
LEMMA TypesKept ==
    ASSUME NEW pr, NEW ov, TypesOf(pr, ov), NEW p, NEW k, NEW pr2, Changes(pr, p, k, pr2), k # p
    PROVE  TypesOf(pr2, ov)
<1>1. /\ p \in Pids /\ Sound(pr[p]) /\ pr[p].stack # <<>> /\ Advances(pr[p], pr2[p])
      /\ pr2 = [q \in Pids |-> pr2[q]]
      /\ \A q \in Pids : q # p /\ q # k => pr2[q] = pr[q]
      /\ \A q \in Pending(pr[p].stack[1]) : q # k => Awaits(pr2[p], q)
      /\ k \in Pids => k # shell /\ ~ Sound(pr[k])
      /\ k \in Pids => \/ pr2[k] = Nobody
                       \/ Sound(pr2[k]) /\ pr2[k].parent = p /\ Awaits(pr2[p], k)
    BY DEF Changes
<1>2. /\ Sound(pr2[p]) /\ pr2[p].parent = pr[p].parent /\ SameRoot(pr[p], pr2[p])
      /\ Launched(pr2[p]) => Launched(pr[p])
      /\ \A q : Awaits(pr[p], q) /\ q \notin Pending(pr[p].stack[1]) => Awaits(pr2[p], q)
    BY <1>1 DEF Advances
<1>3. \A q \in Pids : Sound(pr2[q]) \/ Dead(pr2[q])
    BY <1>1, <1>2, DeadIs DEF TypesOf
<1>4. \A q \in Pids : Sound(pr[q]) => Sound(pr2[q])
    BY <1>1, <1>2
<1>5. shell \in Pids /\ shell # k
    BY <1>1, LinesAre
<1>6. /\ ov \in {None, "assert"} => Sound(pr2[shell])
      /\ pr2[shell].parent = 0 /\ ~ Launched(pr2[shell]) /\ RootOK(pr2[shell])
    <2>1. CASE p = shell
        BY <1>1, <1>2, <2>1 DEF TypesOf, RootOK, SameRoot
    <2>2. CASE p # shell
        BY <1>1, <1>5, <2>2 DEF TypesOf
    <2> QED BY <2>1, <2>2
<1>7. ASSUME NEW q \in Pids, pr2[q].parent # 0
      PROVE  pr2[q].parent # q /\ Sound(pr2[pr2[q].parent]) /\ Awaits(pr2[pr2[q].parent], q)
    <2>1. CASE q = k
        <3>1. pr2[q].parent = p /\ Awaits(pr2[p], k)
            BY <1>1, <1>7, <2>1, DeadIs
        <3> QED BY <1>2, <2>1, <3>1
    <2>2. CASE q # k
        <3>1. PICK a : a = pr[q].parent
            OBVIOUS
        <3>2. pr2[q].parent = a /\ a # 0
            BY <1>1, <1>2, <1>7, <2>2, <3>1
        <3>3. a \in Pids /\ a # q /\ Sound(pr[a]) /\ Awaits(pr[a], q)
            <4>1. a \in Pids \cup {0}
                BY <3>1, DeadIs DEF TypesOf
            <4> QED BY <3>1, <3>2, <4>1 DEF TypesOf
        <3>4. a # k
            BY <1>1, <3>3
        <3>5. Awaits(pr2[a], q)
            <4>1. CASE a = p
                BY <1>1, <1>2, <2>2, <3>3, <4>1
            <4>2. CASE a # p
                BY <1>1, <3>3, <3>4, <4>2
            <4> QED BY <4>1, <4>2
        <3> QED BY <1>4, <3>2, <3>3, <3>5
    <2> QED BY <2>1, <2>2
<1> QED BY <1>1, <1>3, <1>6, <1>7 DEF TypesOf

LEMMA WiresKept ==
    ASSUME NEW pr, NEW p, NEW k, NEW pr2, Changes(pr, p, k, pr2), k # p, WiresOf(pr), NoCdSkips,
           Steps(p, pr[p], pr2[p]), k \in Pids => pr2[k] = Nobody \/ Born(p, pr[p], pr2[k])
    PROVE  WiresOf(pr2)
<1>1. PICK pos \in [Pipes -> Nat] : \A q \in Pids : Sound(pr[q]) => Plumbed(q, pr[q], pos)
    BY DEF WiresOf
<1>2. ASSUME NEW q \in Pids, Sound(pr2[q]) PROVE Plumbed(q, pr2[q], pos)
    <2>1. p \in Pids /\ Plumbed(p, pr[p], pos)
        BY <1>1 DEF Changes
    <2>2. CASE q = p
        BY <2>1, <2>2 DEF Steps
    <2>3. CASE q # p /\ q # k
        BY <1>1, <1>2, <2>3 DEF Changes
    <2>4. CASE q = k
        <3>1. Born(p, pr[p], pr2[k])
            BY <1>2, <2>4, DeadIs
        <3>2. k # shell
            BY <1>2, <2>4 DEF Changes
        <3> QED BY <2>1, <2>4, <3>1, <3>2 DEF Born
    <2> QED BY <2>2, <2>3, <2>4
<1> QED BY <1>1, <1>2 DEF WiresOf

(* The three ways: by itself, with a new child, and with one less.          *)
LEMMA SetKeeps ==
    ASSUME NEW pr, NEW ov, Good(pr, ov), NEW p \in Pids, Sound(pr[p]), pr[p].stack # <<>>, NEW r2,
           Steps(p, pr[p], r2), \A q \in Pending(pr[p].stack[1]) : Awaits(r2, q),
           NEW pr2, pr2 = [pr EXCEPT ![p] = r2]
    PROVE  Good(pr2, ov)
<1>1. pr = [q \in Pids |-> pr[q]]
    BY DEF Good, TypesOf
<1>2. /\ pr2 = [q \in Pids |-> pr2[q]] /\ pr2[p] = r2
      /\ \A q \in Pids : q # p => pr2[q] = pr[q]
    BY <1>1
<1>3. PICK k : k \notin Pids
    BY LinesAre
<1>4. Changes(pr, p, k, pr2) /\ k # p
    BY <1>2, <1>3 DEF Changes, Steps
<1>5. TypesOf(pr2, ov)
    BY <1>4, TypesKept DEF Good
<1>6. ASSUME NoCdSkips PROVE WiresOf(pr2)
    BY <1>2, <1>3, <1>4, <1>6, WiresKept DEF Good
<1> QED BY <1>5, <1>6 DEF Good

LEMMA ForkKeeps ==
    ASSUME NEW pr, NEW ov, Good(pr, ov), NEW p \in Pids, Sound(pr[p]), pr[p].stack # <<>>, NEW r2,
           Steps(p, pr[p], r2), \A q \in Pending(pr[p].stack[1]) : Awaits(r2, q),
           NEW k \in Pids \ {shell}, pr[k].st = "none", Awaits(r2, k), NEW c, Born(p, pr[p], c),
           NEW pr2, pr2 = [pr EXCEPT ![p] = r2, ![k] = c]
    PROVE  Good(pr2, ov)
<1>1. pr = [q \in Pids |-> pr[q]]
    BY DEF Good, TypesOf
<1>2. k # p /\ ~ Sound(pr[k])
    BY DeadIs
<1>3. /\ pr2 = [q \in Pids |-> pr2[q]] /\ pr2[p] = r2 /\ pr2[k] = c
      /\ \A q \in Pids : q # p /\ q # k => pr2[q] = pr[q]
    BY <1>1, <1>2
<1>4. Sound(c) /\ c.parent = p
    BY DEF Born
<1>5. Changes(pr, p, k, pr2)
    BY <1>2, <1>3, <1>4 DEF Changes, Steps
<1>6. TypesOf(pr2, ov)
    BY <1>2, <1>5, TypesKept DEF Good
<1>7. ASSUME NoCdSkips PROVE WiresOf(pr2)
    <2>1. WiresOf(pr) /\ Steps(p, pr[p], pr2[p]) /\ k # p
        BY <1>2, <1>3, <1>7 DEF Good
    <2>2. k \in Pids => pr2[k] = Nobody \/ Born(p, pr[p], pr2[k])
        BY <1>3
    <2> QED BY ONLY <1>5, <1>7, <2>1, <2>2, WiresKept
<1> QED BY <1>6, <1>7 DEF Good

LEMMA ReapKeeps ==
    ASSUME NEW pr, NEW ov, Good(pr, ov), NEW p \in Pids, Sound(pr[p]), pr[p].stack # <<>>, NEW r2,
           Steps(p, pr[p], r2), NEW k, pr[k].st = "zombie", pr[k].parent = p,
           \A q \in Pending(pr[p].stack[1]) : q # k => Awaits(r2, q), k \in Pids,
           NEW pr2, pr2 = [pr EXCEPT ![p] = r2, ![k] = Nobody]
    PROVE  Good(pr2, ov)
<1>1. pr = [q \in Pids |-> pr[q]]
    BY DEF Good, TypesOf
<1>2. k # p /\ ~ Sound(pr[k])
    BY DeadIs
<1>3. /\ pr2 = [q \in Pids |-> pr2[q]] /\ pr2[p] = r2 /\ pr2[k] = Nobody
      /\ \A q \in Pids : q # p /\ q # k => pr2[q] = pr[q]
    BY <1>1, <1>2
<1>4. k # shell
    <2>1. p # 0
        BY LinesAre
    <2> QED BY <2>1 DEF Good, TypesOf
<1>5. Changes(pr, p, k, pr2)
    BY <1>2, <1>3, <1>4 DEF Changes, Steps
<1>6. TypesOf(pr2, ov)
    BY <1>2, <1>5, TypesKept DEF Good
<1>7. ASSUME NoCdSkips PROVE WiresOf(pr2)
    <2>1. WiresOf(pr) /\ Steps(p, pr[p], pr2[p]) /\ k # p
        BY <1>2, <1>3, <1>7 DEF Good
    <2>2. k \in Pids => pr2[k] = Nobody \/ Born(p, pr[p], pr2[k])
        BY <1>3
    <2> QED BY ONLY <1>5, <1>7, <2>1, <2>2, WiresKept
<1> QED BY <1>6, <1>7 DEF Good

LEMMA PipeKeeps ==
    ASSUME NEW pr, NEW ov, Good(pr, ov), NEW p, NEW f, NEW kk, NEW k, NEW fd1, NEW in, NEW out, NEW r2, NEW c,
           PipesTo(p, pr[p], f, kk, k, fd1, in, out, r2, c), k # shell, pr[k].st = "none",
           \A q \in Pids : Sound(pr[q]) => Fresh(pr[q].fd, kk),
           NEW pr2, pr2 = [pr EXCEPT ![p] = r2, ![k] = c]
    PROVE  Good(pr2, ov)
<1>1. pr = [q \in Pids |-> pr[q]]
    BY SMTT(30) DEF Good, TypesOf
<1>2. /\ p \in Pids /\ k \in Pids /\ Sound(pr[p]) /\ pr[p].stack # <<>> /\ f = pr[p].stack[1]
      /\ kk \in Pipes
    BY DEF PipesTo
<1>3. k # p /\ ~ Sound(pr[k])
    BY <1>2, DeadIs
<1>4. /\ pr2 = [q \in Pids |-> pr2[q]] /\ pr2[p] = r2 /\ pr2[k] = c
      /\ \A q \in Pids : q # p /\ q # k => pr2[q] = pr[q]
    BY <1>1, <1>2, <1>3
<1>5. Advances(pr[p], r2) /\ Sound(c) /\ c.parent = p /\ Awaits(r2, k) /\ Pending(f) = {}
    BY PipeSound
<1>6. Changes(pr, p, k, pr2)
    BY <1>2, <1>3, <1>4, <1>5 DEF Changes
<1>7. TypesOf(pr2, ov)
    BY <1>3, <1>6, TypesKept DEF Good
<1>8. ASSUME NoCdSkips PROVE WiresOf(pr2)
    <2>1. PICK pos \in [Pipes -> Nat] : \A q \in Pids : Sound(pr[q]) => Plumbed(q, pr[q], pos)
        BY <1>8 DEF Good, WiresOf
    <2>2. PICK j \in Nat : \A pos2 : Other(pos, pos2, kk) /\ pos2[kk] = j =>
                Plumbed(p, r2, pos2) /\ \A q : q # shell => Plumbed(q, c, pos2)
        <3>1. Plumbed(p, pr[p], pos) /\ Fresh(pr[p].fd, kk)
            BY <1>2, <2>1
        <3> QED BY <3>1, PipePlumbed
    <2>3. PICK pos2 : pos2 = [pos EXCEPT ![kk] = j]
        OBVIOUS
    <2>4. pos2 \in [Pipes -> Nat] /\ Other(pos, pos2, kk) /\ pos2[kk] = j
        BY <1>2, <2>3 DEF Other
    <2>5. ASSUME NEW q \in Pids, Sound(pr2[q]) PROVE Plumbed(q, pr2[q], pos2)
        <3>1. CASE q = p
            BY <1>4, <2>2, <2>4, <3>1
        <3>2. CASE q = k
            BY <1>4, <2>2, <2>4, <3>2
        <3>3. CASE q # p /\ q # k
            <4>1. pr2[q] = pr[q] /\ Sound(pr[q]) /\ Fresh(pr[q].fd, kk) /\ Plumbed(q, pr[q], pos)
                BY <1>4, <2>1, <2>5, <3>3
            <4>2. Plumbed(q, pr[q], pos2)
                BY <2>4, <4>1, OthersPlumbed
            <4> QED BY <4>1, <4>2
        <3> QED BY <3>1, <3>2, <3>3
    <2> QED BY <2>4, <2>5 DEF WiresOf
<1> QED BY <1>7, <1>8 DEF Good

-----------------------------------------------------------------------------
(* A process ends.                                                          *)
EndedOf(pr, p, code) ==
    [q \in Pids |->
        IF q = p
        THEN IF pr[p].parent = 0 THEN Nobody ELSE ZombieOf(pr[p].parent, code)
        ELSE IF pr[q].parent = p
        THEN IF pr[q].st = "zombie" THEN Nobody ELSE [pr[q] EXCEPT !.parent = 0]
        ELSE pr[q]]

Orphaned(r, r2) ==
    /\ Sound(r2) /\ r2.st = "run" /\ r2.parent = 0 /\ r2.stack = r.stack /\ r2.line = r.line
    /\ r2.fd = r.fd /\ r2.io = r.io
    /\ \A q : Awaits(r, q) => Awaits(r2, q)
    /\ \A p, pos : Plumbed(p, r, pos) => Plumbed(p, r2, pos)
LEMMA Orphans ==
    ASSUME NEW r, Sound(r), NEW r2, r2 = [r EXCEPT !.parent = 0]
    PROVE  Orphaned(r, r2)
<1>1. PICK line, parent, fd, stack, val, io : r = Running(line, parent, fd, stack, val, io)
    BY DEF Sound, IsRunning
<1>2. PICK n0 : n0 = 0
    OBVIOUS
<1>3. r2 = Running(line, n0, fd, stack, val, io)
    BY <1>1, <1>2 DEF Running
<1>4. /\ r2.st = "run" /\ r2.parent = 0 /\ r2.line = r.line /\ r2.fd = r.fd /\ r2.stack = r.stack
      /\ r2.val = r.val /\ r2.io = r.io /\ IsRunning(r2)
    BY ONLY <1>1, <1>2, <1>3, FieldsOf
<1>5. Simple(r2) = Simple(r)
    BY <1>4 DEF Simple
<1>6. IoOK(r2)
    BY <1>4, <1>5 DEF Sound, IoOK
<1>7. Sound(r2)
    BY <1>4, <1>6 DEF Sound
<1>8. \A q : Awaits(r, q) => Awaits(r2, q)
    BY <1>4 DEF Awaits
<1>9. ASSUME NEW p, NEW pos, Plumbed(p, r, pos) PROVE Plumbed(p, r2, pos)
    <2>1. /\ Launched(r2) <=> Launched(r)
          /\ Cding(r2) <=> Cding(r)
        BY <1>4, <1>5 DEF Launched, Cding
    <2>2. Base(r2) = Base(r)
        BY <1>4 DEF Base
    <2>3. Streams(r, pos) => Streams(r2, pos)
        BY <1>4, <1>5 DEF Streams
    <2>4. SavedOK(r) => SavedOK(r2)
        BY <1>4, <1>5 DEF SavedOK
    <2>5. \A T : Unwinds(p, r, T, pos) => Unwinds(p, r2, T, pos)
        BY <1>4, <2>2 DEF Unwinds
    <2> QED BY <1>4, <1>5, <1>9, <2>1, <2>3, <2>4, <2>5 DEF Plumbed
<1> QED BY <1>4, <1>7, <1>8, <1>9 DEF Orphaned

LEMMA EndKeeps ==
    ASSUME NEW pr, NEW ov, Good(pr, ov), NEW p \in Pids, Sound(pr[p]), NEW code \in Values,
           NEW pr2, pr2 = EndedOf(pr, p, code), NEW ov2,
           p = shell => ov2 \in {"exit", "end of input", "DIE"}, p # shell => ov2 = ov
    PROVE  Good(pr2, ov2)
<1>1. TypesOf(pr, ov)
    BY DEF Good
<1>2. /\ pr2 = [q \in Pids |-> pr2[q]]
      /\ pr2[p] = IF pr[p].parent = 0 THEN Nobody ELSE ZombieOf(pr[p].parent, code)
      /\ \A q \in Pids : q # p =>
            pr2[q] = IF pr[q].parent = p
                     THEN IF pr[q].st = "zombie" THEN Nobody ELSE [pr[q] EXCEPT !.parent = 0]
                     ELSE pr[q]
    BY DEF EndedOf
<1>3. ASSUME NEW q \in Pids, q # p
      PROVE  \/ pr2[q] = pr[q] /\ pr[q].parent # p
             \/ pr2[q] = Nobody /\ ~ Sound(pr[q])
             \/ Sound(pr[q]) /\ Orphaned(pr[q], pr2[q])
    <2>1. CASE pr[q].parent # p
        BY <1>2, <1>3, <2>1
    <2>2. CASE pr[q].parent = p /\ Sound(pr[q])
        <3>1. pr[q].st # "zombie"
            BY <2>2, DeadIs
        <3>2. pr2[q] = [pr[q] EXCEPT !.parent = 0]
            BY <1>2, <1>3, <2>2, <3>1
        <3> QED BY <2>2, <3>2, Orphans
    <2>3. CASE pr[q].parent = p /\ ~ Sound(pr[q])
        <3>1. p # 0
            BY LinesAre
        <3>2. Dead(pr[q]) /\ pr[q] # Nobody
            BY <1>1, <2>3, <3>1, DeadIs DEF TypesOf
        <3>3. pr[q].st = "zombie"
            BY <3>2, DeadIs
        <3> QED BY <1>2, <1>3, <2>3, <3>3
    <2> QED BY <2>1, <2>2, <2>3
<1>4. /\ ~ Sound(pr2[p]) /\ Dead(pr2[p]) /\ pr2[p].parent = pr[p].parent /\ pr2[p].stack = <<>>
    <2>1. pr[p].parent \in Pids \cup {0}
        BY DeadIs
    <2>2. Dead(pr2[p]) /\ pr2[p].parent = pr[p].parent
        <3>1. CASE pr[p].parent = 0
            BY <1>2, <3>1, DeadIs
        <3>2. CASE pr[p].parent # 0
            <4>1. pr2[p] = ZombieOf(pr[p].parent, code)
                BY <1>2, <3>2
            <4>2. pr2[p].parent = pr[p].parent
                <5>1. PICK a : a = pr[p].parent
                    OBVIOUS
                <5>2. ZombieOf(a, code).parent = a
                    BY DEF ZombieOf, Nobody
                <5> QED BY ONLY <4>1, <5>1, <5>2
            <4> QED BY <2>1, <3>2, <4>1, <4>2 DEF Dead
        <3> QED BY <3>1, <3>2
    <2> QED BY <2>2, DeadIs
<1>5. \A q \in Pids : q # p /\ Sound(pr[q]) => Sound(pr2[q]) /\ \A n : Awaits(pr[q], n) => Awaits(pr2[q], n)
    BY <1>3 DEF Orphaned
<1>6. \A q \in Pids : Sound(pr2[q]) \/ Dead(pr2[q])
    BY <1>1, <1>3, <1>4, DeadIs DEF TypesOf, Orphaned
<1>7. shell \in Pids /\ pr[shell].parent = 0 /\ p # 0
    BY <1>1, LinesAre DEF TypesOf
<1>8. p # shell => pr2[shell] = pr[shell]
    BY <1>2, <1>7
<1>9. /\ pr2[shell].parent = 0 /\ ~ Launched(pr2[shell]) /\ RootOK(pr2[shell])
      /\ ov2 \in {None, "assert"} => Sound(pr2[shell])
    <2>1. CASE p = shell
        <3>1. ~ Launched(pr2[p]) /\ RootOK(pr2[p])
            BY <1>4 DEF Launched, RootOK
        <3>2. ov2 \notin {None, "assert"}
            <4>1. {"exit", "end of input", "DIE"} \subseteq Endings
                BY DEF Endings
            <4> QED BY <2>1, <4>1, ShellAssumption
        <3> QED BY <1>4, <1>7, <2>1, <3>1, <3>2
    <2>2. CASE p # shell
        BY <1>1, <1>8, <2>2 DEF TypesOf
    <2> QED BY <2>1, <2>2
<1>10. ASSUME NEW q \in Pids, pr2[q].parent # 0
       PROVE  pr2[q].parent # q /\ Sound(pr2[pr2[q].parent]) /\ Awaits(pr2[pr2[q].parent], q)
    <2>1. PICK a : a = pr[q].parent
        OBVIOUS
    <2>2. pr2[q].parent = a /\ a # p
        <3>1. CASE q = p
            <4>1. pr2[q].parent = a
                BY <1>4, <2>1, <3>1
            <4> QED BY <1>1, <1>10, <2>1, <3>1, <4>1 DEF TypesOf
        <3>2. CASE q # p
            BY <1>3, <1>10, <2>1, <3>2, DeadIs DEF Orphaned
        <3> QED BY <3>1, <3>2
    <2>3. a \in Pids \cup {0}
        BY <1>1, <2>1, DeadIs DEF TypesOf
    <2>4. a \in Pids /\ a # q /\ Sound(pr[a]) /\ Awaits(pr[a], q)
        BY <1>1, <1>10, <2>1, <2>2, <2>3 DEF TypesOf
    <2> QED BY <1>5, <2>2, <2>4
<1>11. ov2 \in {None} \cup Endings
    BY <1>1 DEF TypesOf, Endings
<1>12. TypesOf(pr2, ov2)
    BY <1>2, <1>6, <1>9, <1>10, <1>11 DEF TypesOf
<1>13. ASSUME NoCdSkips PROVE WiresOf(pr2)
    <2>1. PICK pos \in [Pipes -> Nat] : \A q \in Pids : Sound(pr[q]) => Plumbed(q, pr[q], pos)
        BY <1>13 DEF Good, WiresOf
    <2>2. ASSUME NEW q \in Pids, Sound(pr2[q]) PROVE Plumbed(q, pr2[q], pos)
        <3>1. q # p /\ pr2[q] # Nobody
            BY <1>4, <2>2, DeadIs
        <3> QED BY <1>3, <2>1, <2>2, <3>1 DEF Orphaned
    <2> QED BY <2>1, <2>2 DEF WiresOf
<1> QED BY <1>12, <1>13 DEF Good

-----------------------------------------------------------------------------
(* The actions, by what they do to the processes.                           *)
LEMMA AtIs ==
    ASSUME Good(proc, over), NEW p \in Pids, NEW pc, At(p, pc), NEW r, r = proc[p], NEW f, f = r.stack[1]
    PROVE  /\ Sound(r) /\ r.stack # <<>> /\ Top(p) = f /\ f.pc = pc
           /\ Verb(p) = Simple(r).verb /\ Red(p) = Simple(r).red
           /\ f \in Frames(r.line) /\ f.pc \in Pcs(f.cmd[1]) /\ Pending(f) \subseteq Pids
           /\ f.cmd[1] \in Operators \cup {"none"}
<1>1. Sound(r) /\ r.stack # <<>>
    BY DeadIs DEF Good, TypesOf, At
<1>2. Top(p) = f /\ f \in Frames(r.line) /\ IsLine(r.line)
    BY <1>1, TopIs DEF Top
<1>3. /\ f.pc \in Pcs(f.cmd[1]) /\ 0 \notin Pending(f)
      /\ f.pid1 \in Pids \cup {0} /\ f.pid2 \in Pids \cup {0}
    BY <1>2, FrameIs
<1>4. Pending(f) \subseteq Pids
    BY <1>3 DEF Pending
<1>5. f.cmd[1] \in Operators \cup {"none"}
    <2>1. PICK a \in Nat, b \in Nat : IsPart(r.line, f.cmd, a, b)
        BY <1>2, FrameIs
    <2> QED BY <1>2, <2>1, Parts
<1>6. Verb(p) = Simple(r).verb /\ Red(p) = Simple(r).red
    BY <1>2 DEF Verb, Red, Simple
<1> QED BY <1>1, <1>2, <1>3, <1>4, <1>5, <1>6 DEF At

LEMMA PendingIs ==
    ASSUME NEW f
    PROVE  /\ f.pc \notin {"wait", "fork2", "wait1", "restore", "reap", "wait2"} => Pending(f) = {}
           /\ f.pc \in {"wait", "fork2", "restore", "reap"} => Pending(f) = {f.pid1}
           /\ f.pc = "wait1" => Pending(f) = {f.pid1, f.pid2}
           /\ f.pc = "wait2" => Pending(f) = {f.pid2}
BY DEF Pending

LEMMA NewOnes ==
    /\ FreePids # {} => NewPid \in Pids \ {shell} /\ proc[NewPid].st = "none"
    /\ FreePipes # {} => /\ NewPipe \in Pipes
                         /\ \A q \in Pids : Sound(proc[q]) => Fresh(proc[q].fd, NewPipe)
<1>1. \A S \in SUBSET Nat : S # {} => Min(S) \in S
    <2>1. ASSUME NEW S \in SUBSET Nat, S # {} PROVE Min(S) \in S
        <3>1. \E m \in S : \A j \in S : m <= j
            BY <2>1, LeastNatural
        <3> QED BY <3>1 DEF Min
    <2> QED BY <2>1
<1>2. FreePids \in SUBSET Nat /\ FreePipes \in SUBSET Nat
    BY ShellAssumption DEF FreePids, FreePipes
<1>3. ASSUME FreePids # {} PROVE NewPid \in Pids \ {shell} /\ proc[NewPid].st = "none"
    <2>1. NewPid \in FreePids
        BY <1>1, <1>2, <1>3 DEF NewPid
    <2> QED BY <2>1 DEF FreePids
<1>4. ASSUME FreePipes # {}
      PROVE  /\ NewPipe \in Pipes
             /\ \A q \in Pids : Sound(proc[q]) => Fresh(proc[q].fd, NewPipe)
    <2>1. PICK k : k = NewPipe
        OBVIOUS
    <2>2. k \in FreePipes
        BY <1>1, <1>2, <1>4, <2>1 DEF NewPipe
    <2>3. Holders(<<"read", k>>) = {} /\ Holders(<<"write", k>>) = {} /\ k \in Pipes
        BY <2>2 DEF FreePipes
    <2>4. ASSUME NEW q \in Pids, Sound(proc[q]) PROVE Fresh(proc[q].fd, k)
        <3>1. proc[q].st = "run"
            BY <2>4, DeadIs
        <3> QED BY <2>3, <3>1 DEF Holders, Fresh
    <2> QED BY <2>1, <2>3, <2>4
<1> QED BY <1>3, <1>4

Does(p, r, f) == Good(proc, over) /\ p \in Pids /\ r = proc[p] /\ Sound(r) /\ r.stack # <<>> /\ f = r.stack[1]
LEMMA Sets ==
    ASSUME NEW p, NEW r, NEW f, Does(p, r, f), NEW r2, Set(p, r2), Steps(p, r, r2),
           \A q \in Pending(f) : Awaits(r2, q)
    PROVE  Good(proc', over')
<1>1. PICK pr, ov, pr2 : pr = proc /\ ov = over /\ pr2 = proc'
    OBVIOUS
<1>2. /\ Good(pr, ov) /\ p \in Pids /\ Sound(pr[p]) /\ pr[p].stack # <<>>
      /\ Steps(p, pr[p], r2) /\ \A q \in Pending(pr[p].stack[1]) : Awaits(r2, q)
      /\ pr2 = [pr EXCEPT ![p] = r2] /\ over' = ov
    BY <1>1 DEF Does, Set
<1>3. Good(pr2, ov)
    BY ONLY <1>2, SetKeeps
<1> QED BY <1>1, <1>2, <1>3

LEMMA Forks ==
    ASSUME NEW p, NEW r, NEW f, Does(p, r, f), NEW r2, NEW c, Fork(p, r2, c), Steps(p, r, r2),
           \A q \in Pending(f) : Awaits(r2, q), Awaits(r2, NewPid), Born(p, r, c)
    PROVE  Good(proc', over')
<1>1. PICK pr, ov, pr2, k : pr = proc /\ ov = over /\ pr2 = proc' /\ k = NewPid
    OBVIOUS
<1>2. /\ Good(pr, ov) /\ p \in Pids /\ Sound(pr[p]) /\ pr[p].stack # <<>>
      /\ Steps(p, pr[p], r2) /\ \A q \in Pending(pr[p].stack[1]) : Awaits(r2, q)
      /\ pr2 = [pr EXCEPT ![p] = r2, ![k] = c] /\ over' = ov /\ Awaits(r2, k) /\ Born(p, pr[p], c)
    BY <1>1 DEF Does, Fork
<1>3. k \in Pids \ {shell} /\ pr[k].st = "none"
    BY <1>1, NewOnes DEF Fork
<1>4. Good(pr2, ov)
    BY ONLY <1>2, <1>3, ForkKeeps
<1> QED BY <1>1, <1>2, <1>4

LEMMA Reaps ==
    ASSUME NEW p, NEW r, NEW f, Does(p, r, f), NEW k \in Pids, Waited(p, k), NEW r2, Reap(p, k, r2),
           Steps(p, r, r2), \A q \in Pending(f) : q # k => Awaits(r2, q)
    PROVE  Good(proc', over')
<1>1. PICK pr, ov, pr2 : pr = proc /\ ov = over /\ pr2 = proc'
    OBVIOUS
<1>2. /\ Good(pr, ov) /\ p \in Pids /\ Sound(pr[p]) /\ pr[p].stack # <<>>
      /\ Steps(p, pr[p], r2) /\ \A q \in Pending(pr[p].stack[1]) : q # k => Awaits(r2, q)
      /\ pr2 = [pr EXCEPT ![p] = r2, ![k] = Nobody] /\ over' = ov
      /\ k \in Pids /\ pr[k].st = "zombie" /\ pr[k].parent = p
    BY <1>1 DEF Does, Reap, Waited
<1>3. Good(pr2, ov)
    BY ONLY <1>2, ReapKeeps
<1> QED BY <1>1, <1>2, <1>3

LEMMA Exits ==
    ASSUME Good(proc, over), NEW p \in Pids, Sound(proc[p]), NEW code \in Values, NEW why,
           Exit(p, code, why), p = shell => why \in {"exit", "end of input", "DIE"}
    PROVE  Good(proc', over')
<1>1. PICK pr, ov, pr2, ov2 : pr = proc /\ ov = over /\ pr2 = proc' /\ ov2 = over'
    OBVIOUS
<1>2. pr2 = EndedOf(pr, p, code)
    BY <1>1 DEF Exit, Ended, EndedOf, ZombieOf
<1>3. /\ p = shell => ov2 \in {"exit", "end of input", "DIE"}
      /\ p # shell => ov2 = ov
    BY <1>1 DEF Exit
<1>4. Good(pr, ov) /\ p \in Pids /\ Sound(pr[p]) /\ code \in Values
    BY <1>1
<1>5. Good(pr2, ov2)
    BY ONLY <1>2, <1>3, <1>4, EndKeeps
<1> QED BY <1>1, <1>5

LEMMA ZombieVal ==
    ASSUME Good(proc, over), NEW p, NEW k \in Pids, Waited(p, k)
    PROVE  proc[k].val \in Values
BY DeadIs DEF Good, TypesOf, Waited

(* The prompt: the shell has no call and takes a new record. *)
LEMMA PromptKeeps ==
    ASSUME NEW pr, NEW ov, Good(pr, ov), Sound(pr[shell]), pr[shell].stack = <<>>, NEW r2, Sound(r2), r2.parent = 0,
           ~ Launched(r2), RootOK(r2),
           \A pos : NoCdSkips /\ Plumbed(shell, pr[shell], pos) => Plumbed(shell, r2, pos),
           NEW pr2, pr2 = [pr EXCEPT ![shell] = r2]
    PROVE  Good(pr2, ov)
<1>1. TypesOf(pr, ov)
    BY DEF Good
<1>2. shell \in Pids
    BY LinesAre
<1>3. /\ pr2 = [q \in Pids |-> pr2[q]] /\ pr2[shell] = r2
      /\ \A q \in Pids : q # shell => pr2[q] = pr[q]
    BY <1>1, <1>2 DEF TypesOf
<1>4. \A q : ~ Awaits(pr[shell], q)
    BY DEF Awaits
<1>5. \A q \in Pids : pr2[q].parent = pr[q].parent /\ pr[q].parent # shell
    <2>1. shell # 0
        BY LinesAre
    <2> QED BY <1>1, <1>3, <1>4, <2>1 DEF TypesOf
<1>6. \A q \in Pids : pr2[q].parent # 0 =>
            pr2[q].parent # q /\ Sound(pr2[pr2[q].parent]) /\ Awaits(pr2[pr2[q].parent], q)
    <2>1. SUFFICES ASSUME NEW q \in Pids, NEW a, a = pr[q].parent, a # 0
                   PROVE  a # q /\ Sound(pr2[a]) /\ Awaits(pr2[a], q)
        BY <1>5
    <2>2. a \in Pids /\ a # q /\ Sound(pr[a]) /\ Awaits(pr[a], q)
        <3>1. a \in Pids \cup {0}
            BY <1>1, <2>1, DeadIs DEF TypesOf
        <3> QED BY <1>1, <2>1, <3>1 DEF TypesOf
    <2> QED BY <1>3, <1>5, <2>1, <2>2
<1>7. TypesOf(pr2, ov)
    <2>1. \A q \in Pids : Sound(pr2[q]) \/ Dead(pr2[q])
        BY <1>1, <1>3 DEF TypesOf
    <2> QED BY <1>1, <1>3, <1>6, <2>1 DEF TypesOf
<1>8. ASSUME NoCdSkips PROVE WiresOf(pr2)
    <2>1. PICK pos \in [Pipes -> Nat] : \A q \in Pids : Sound(pr[q]) => Plumbed(q, pr[q], pos)
        BY <1>8 DEF Good, WiresOf
    <2>2. \A q \in Pids : Sound(pr2[q]) => Plumbed(q, pr2[q], pos)
        BY <1>2, <1>3, <1>8, <2>1
    <2> QED BY <2>2 DEF WiresOf
<1> QED BY <1>7, <1>8 DEF Good


LEMMA ReadLineKeeps ==
    ASSUME Good(proc, over), NEW l \in Lines, read_line(l)
    PROVE  Good(proc', over')
<1>1. PICK r : r = proc[shell]
    OBVIOUS
<1>2. over = None /\ r.line = None
    BY <1>1 DEF read_line, AtPrompt
<1>3. Sound(r) /\ r.parent = 0
    BY <1>1, <1>2 DEF Good, TypesOf
<1>4. r.stack = <<>>
    BY <1>2, <1>3 DEF Sound
<1>5. CASE l \in Refused
    <2>1. proc' = proc /\ over' = "assert"
        BY <1>5 DEF read_line
    <2>2. TypesOf(proc, "assert")
        <3>1. "assert" \in {None} \cup Endings
            BY DEF Endings
        <3> QED BY <1>1, <1>3, <3>1 DEF Good, TypesOf
    <2> QED BY <2>1, <2>2 DEF Good
<1>6. CASE l \notin Refused
    <2>1. PICK g, s : g = FrameOf(Tree[l], "start", 0, 0, 0) /\ s = <<g>>
        OBVIOUS
    <2>2. g = Frame(Tree[l], "start")
        BY <2>1 DEF Frame, FrameOf
    <2>3. PICK r2 : r2 = [r EXCEPT !.line = l, !.stack = s]
        OBVIOUS
    <2>4. proc' = [proc EXCEPT ![shell] = r2] /\ over' = over
        BY <1>1, <1>6, <2>1, <2>2, <2>3 DEF read_line
    <2>5. /\ IsRunning(r) /\ r.io = NoIo /\ r.fd \in Tables /\ r.val \in Values
        BY <1>3, <1>4 DEF Sound, IoOK
    <2>6. r2 = Running(l, r.parent, r.fd, s, r.val, NoIo)
        <3>1. PICK line, parent, fd, stack, val, io : r = Running(line, parent, fd, stack, val, io)
            BY <2>5 DEF IsRunning
        <3>2. r2 = Running(l, parent, fd, s, val, io)
            BY ONLY <2>3, <3>1 DEF Running
        <3>3. r.parent = parent /\ r.fd = fd /\ r.val = val /\ r.io = io
            BY ONLY <3>1, FieldsOf
        <3> QED BY ONLY <2>5, <3>2, <3>3
    <2>7. r2.parent = r.parent /\ r2.line = l /\ r2.stack = s
        BY ONLY <2>6, FieldsOf
    <2>8. IsLine(l) /\ l \in Lines \ Refused
        BY <1>6, LinesAre
    <2>9. Tree[l] = Grouped(l) /\ GroupedTree[l] = Grouped(l)
        BY <2>8, ParserFollowsPriorities DEF Tree, GroupedTree
    <2>10. IsPart(l, Tree[l], 1, Len(l.cmds)) /\ ~ PipeAt(l, 0) /\ ~ PipeAt(l, Len(l.cmds))
           /\ Len(l.cmds) \in Nat
        BY <2>8, <2>9, WholeLine, LineFacts
    <2>11. g \in Frames(l) /\ g.cmd = Tree[l] /\ g.pc = "start" /\ s \in Seq(Frames(l)) /\ Len(s) = 1 /\ s[1] = g
        <3>1. PICK pc, t : pc = "start" /\ t = Tree[l]
            OBVIOUS
        <3>2. pc \in Pcs(t[1])
            BY <3>1 DEF Pcs
        <3>3. NewFrame(l, t, pc, g)
            BY <2>1, <2>8, <2>10, <3>1, <3>2 DEF NewFrame
        <3> QED BY <2>1, <3>1, <3>3, FrameStarts
    <2>12. Quiet(g.pc) /\ g.pc # "restore" /\ s # <<>>
        BY <2>1, <2>11 DEF Quiet, Redirections
    <2>13. Sound(r2)
        <3>1. \A i \in 2 .. Len(s) : s[i].pc \in Calling
            BY <2>11
        <3>2. s # <<>> => Quiet(s[1].pc)
            BY <2>11, <2>12
        <3>3. r.parent \in Pids \cup {0}
            BY <1>3
        <3> QED BY ONLY <2>5, <2>6, <2>8, <2>11, <3>1, <3>2, <3>3, SoundMade
    <2>14. ~ Launched(r2)
        BY <2>7, <2>11, <2>12, QuietIs
    <2>15. RootOK(r2)
        BY <2>7, <2>9, <2>11 DEF RootOK, Root
    <2>16. ASSUME NEW pos, Plumbed(shell, r, pos) PROVE Plumbed(shell, r2, pos)
        <3>1. r.fd = Terminal
            BY <1>4, <2>5, <2>16, IdlePlumbed
        <3>2. Terminal[0] = Tty /\ Terminal[1] = Tty /\ Terminal[2] = Tty
            BY LinesAre DEF Terminal
        <3>3. PICK a, b : a = 1 /\ b = Len(l.cmds)
            OBVIOUS
        <3>4. a \in Nat /\ b \in Nat /\ IsPart(l, g.cmd, a, b) /\ ~ PipeAt(l, a - 1) /\ ~ PipeAt(l, b)
            BY <2>10, <2>11, <3>3
        <3>5. Wired(l, a, b, r.fd, pos)
            BY ONLY <3>1, <3>2, <3>4 DEF Wired, WiredIn, WiredOut
        <3>6. \E c, d \in Nat : IsPart(l, g.cmd, c, d) /\ Wired(l, c, d, r.fd, pos)
            BY ONLY <3>4, <3>5
        <3>7. r2 = Running(l, r.parent, r.fd, <<g>>, r.val, NoIo)
            BY <2>1, <2>6
        <3> QED BY ONLY <2>5, <2>12, <3>1, <3>6, <3>7, StartPlumbed
    <2>17. PICK pr, ov, pr2 : pr = proc /\ ov = over /\ pr2 = proc'
        OBVIOUS
    <2>18. /\ Good(pr, ov) /\ Sound(pr[shell]) /\ pr[shell].stack = <<>> /\ r2.parent = 0
           /\ \A pos : NoCdSkips /\ Plumbed(shell, pr[shell], pos) => Plumbed(shell, r2, pos)
           /\ pr2 = [pr EXCEPT ![shell] = r2]
        BY <1>1, <1>3, <1>4, <2>4, <2>7, <2>16, <2>17
    <2>19. Good(pr2, ov)
        BY ONLY <2>13, <2>14, <2>15, <2>18, PromptKeeps
    <2> QED BY <2>4, <2>17, <2>19
<1> QED BY <1>5, <1>6

LEMMA StartShellKeeps ==
    ASSUME Good(proc, over), start_shell
    PROVE  Good(proc', over')
<1>1. PICK r : r = proc[shell]
    OBVIOUS
<1>2. over = None /\ r.line # None /\ r.stack = <<>>
    BY <1>1 DEF start_shell
<1>3. Sound(r) /\ r.parent = 0 /\ shell \in Pids
    BY <1>1, <1>2, LinesAre DEF Good, TypesOf
<1>4. CASE r.val = SHELL_EXIT
    <2>1. PICK code, why : code = 0 /\ why = "exit"
        OBVIOUS
    <2>2. Exit(shell, code, why) /\ code \in Values
        BY <1>1, <1>4, <2>1, LinesAre DEF start_shell
    <2> QED BY <1>1, <1>3, <2>1, <2>2, Exits
<1>5. CASE r.val # SHELL_EXIT
    <2>1. PICK r2, n0 : n0 = 0 /\ r2 = [r EXCEPT !.line = None, !.val = n0]
        OBVIOUS
    <2>2. proc' = [proc EXCEPT ![shell] = r2] /\ over' = over
        BY <1>1, <1>5, <2>1 DEF start_shell, Set
    <2>3. /\ IsRunning(r) /\ r.io = NoIo /\ r.fd \in Tables
        BY <1>2, <1>3 DEF Sound, IoOK
    <2>4. r2 = Running(None, r.parent, r.fd, <<>>, n0, NoIo)
        <3>1. PICK line, parent, fd, stack, val, io : r = Running(line, parent, fd, stack, val, io)
            BY <2>3 DEF IsRunning
        <3>2. r2 = Running(None, parent, fd, stack, n0, io)
            BY ONLY <2>1, <3>1 DEF Running
        <3>3. r.parent = parent /\ r.fd = fd /\ r.stack = stack /\ r.io = io
            BY ONLY <3>1, FieldsOf
        <3> QED BY ONLY <1>2, <2>3, <3>2, <3>3
    <2>5. /\ IsRunning(r2) /\ r2.line = None /\ r2.parent = r.parent /\ r2.fd = r.fd /\ r2.stack = <<>>
          /\ r2.val = n0 /\ r2.io = NoIo
        BY ONLY <2>4, FieldsOf
    <2>6. Sound(r2)
        <3>1. IoOK(r2)
            BY <2>5 DEF IoOK
        <3>2. r2.stack \in Seq(Frames(r2.line)) /\ \A i \in 2 .. Len(r2.stack) : r2.stack[i].pc \in Calling
            BY <2>5
        <3> QED BY <1>3, <2>1, <2>3, <2>5, <3>1, <3>2, LinesAre DEF Sound
    <2>7. ~ Launched(r2) /\ RootOK(r2)
        BY <2>5 DEF Launched, RootOK
    <2>8. \A pos : Plumbed(shell, r, pos) => Plumbed(shell, r2, pos)
        <3>1. ASSUME NEW pos, Plumbed(shell, r, pos) PROVE Plumbed(shell, r2, pos)
            <4>1. r.fd = Terminal
                BY <1>2, <2>3, <3>1, IdlePlumbed
            <4> QED BY <2>3, <2>5, <4>1, IdlePlumbed
        <3> QED BY <3>1
    <2>9. PICK pr, ov, pr2 : pr = proc /\ ov = over /\ pr2 = proc'
        OBVIOUS
    <2>10. /\ Good(pr, ov) /\ Sound(pr[shell]) /\ pr[shell].stack = <<>> /\ r2.parent = 0
           /\ \A pos : NoCdSkips /\ Plumbed(shell, pr[shell], pos) => Plumbed(shell, r2, pos)
           /\ pr2 = [pr EXCEPT ![shell] = r2]
        BY <1>1, <1>2, <1>3, <2>2, <2>5, <2>8, <2>9
    <2>11. Good(pr2, ov)
        BY ONLY <2>6, <2>7, <2>10, PromptKeeps
    <2> QED BY <2>2, <2>9, <2>11
<1> QED BY <1>4, <1>5

LEMMA EndOfInputKeeps ==
    ASSUME Good(proc, over), end_of_input
    PROVE  Good(proc', over')
<1>1. Sound(proc[shell]) /\ shell \in Pids
    BY LinesAre DEF Good, TypesOf, end_of_input, AtPrompt
<1>2. PICK code, why : code = 0 /\ why = "end of input"
    OBVIOUS
<1>3. Exit(shell, code, why) /\ code \in Values
    BY <1>2, LinesAre DEF end_of_input
<1> QED BY <1>1, <1>2, <1>3, Exits

-----------------------------------------------------------------------------
LEMMA ReturnKeeps ==
    ASSUME NEW p, NEW r, NEW f, Does(p, r, f), Quiet(f.pc), f.pc # "restore", Pending(f) = {},
           NEW v \in Values, Set(p, Return(r, v))
    PROVE  Good(proc', over')
<1>1. PICK r2 : r2 = Return(r, v)
    OBVIOUS
<1>2. Steps(p, r, r2)
    BY <1>1, ReturnSteps DEF Does
<1> QED BY <1>1, <1>2, Sets

LEMMA ReapReturnKeeps ==
    ASSUME NEW p, NEW r, NEW f, Does(p, r, f), Quiet(f.pc), f.pc # "restore", NEW k \in Pids, Waited(p, k),
           Pending(f) = {k}, Reap(p, k, Return(r, proc[k].val))
    PROVE  Good(proc', over')
<1>1. PICK v, r2 : v = proc[k].val /\ r2 = Return(r, v)
    OBVIOUS
<1>2. v \in Values
    BY <1>1, ZombieVal DEF Does
<1>3. Steps(p, r, r2)
    BY <1>1, <1>2, ReturnSteps DEF Does
<1>4. Reap(p, k, r2)
    BY <1>1
<1> QED BY <1>3, <1>4, Reaps

LEMMA CallKeeps ==
    ASSUME NEW p, NEW r, NEW f, Does(p, r, f), Quiet(f.pc), f.pc # "restore", Pending(f) = {},
           f.cmd[1] \in {"sequential", "zero", "nzero"}, NEW pc \in Pcs(f.cmd[1]), pc \in Calling, pc # "restore",
           NEW t \in {f.cmd[2], f.cmd[3]}, Set(p, Call(r, pc, t))
    PROVE  Good(proc', over')
<1>1. PICK r2 : r2 = Call(r, pc, t)
    OBVIOUS
<1>2. Steps(p, r, r2)
    BY <1>1, CallSteps DEF Does
<1> QED BY <1>1, <1>2, Sets

LEMMA BuiltinsKeep ==
    ASSUME Good(proc, over), NEW p \in Pids, shell_exit(p) \/ cd_without_params(p) \/ setenv(p)
    PROVE  Good(proc', over')
<1>1. PICK r : r = proc[p]
    OBVIOUS
<1>2. PICK f, pc : f = r.stack[1] /\ pc = "start"
    OBVIOUS
<1>3. At(p, pc)
    BY <1>2 DEF shell_exit, cd_without_params, setenv, AtOp
<1>4. Does(p, r, f) /\ f.pc = "start"
    BY <1>1, <1>2, <1>3, AtIs DEF Does
<1>5. Quiet(f.pc) /\ f.pc # "restore" /\ Pending(f) = {}
    BY <1>4, PendingIs DEF Quiet, Redirections
<1>6. \E v \in Values : Set(p, Return(r, v))
    BY <1>1, LinesAre DEF shell_exit, cd_without_params, setenv
<1> QED BY <1>4, <1>5, <1>6, ReturnKeeps

LEMMA SequentialKeeps ==
    ASSUME Good(proc, over), NEW p \in Pids, sequential(p)
    PROVE  Good(proc', over')
<1>1. PICK r : r = proc[p]
    OBVIOUS
<1>2. PICK f : f = r.stack[1]
    OBVIOUS
<1>3. \A pc : At(p, pc) => Does(p, r, f) /\ Top(p) = f /\ f.pc = pc /\ f.pc \in Pcs(f.cmd[1])
    BY <1>1, <1>2, AtIs DEF Does
<1>4. ASSUME NEW pc, pc \in {"start", "second"}, AtOp(p, pc, "sequential"), NEW pc2 \in {"second", "unset"},
             NEW t \in {f.cmd[2], f.cmd[3]}, Set(p, Call(r, pc2, t))
      PROVE  Good(proc', over')
    <2>1. Does(p, r, f) /\ Top(p) = f /\ f.pc = pc /\ f.cmd[1] = "sequential"
        BY <1>3, <1>4 DEF AtOp
    <2>2. Quiet(f.pc) /\ f.pc # "restore" /\ Pending(f) = {}
        BY <1>4, <2>1, PendingIs DEF Quiet, Redirections
    <2>3. pc2 \in Pcs(f.cmd[1]) /\ pc2 \in Calling /\ pc2 # "restore"
        BY <1>4, <2>1 DEF Pcs, Calling
    <2> QED BY <1>4, <2>1, <2>2, <2>3, CallKeeps
<1>5. CASE AtOp(p, "start", "sequential") /\ Set(p, Call(proc[p], "second", cmd1(p)))
    <2>1. cmd1(p) = f.cmd[2]
        BY <1>3, <1>5 DEF AtOp, cmd1
    <2> QED BY <1>1, <1>4, <1>5, <2>1
<1>6. CASE AtOp(p, "second", "sequential") /\ Set(p, Call(proc[p], "unset", cmd2(p)))
    <2>1. cmd2(p) = f.cmd[3]
        BY <1>3, <1>6 DEF AtOp, cmd2
    <2> QED BY <1>1, <1>4, <1>6, <2>1
<1>7. CASE At(p, "unset") /\ \E ret \in Values : Set(p, Return(proc[p], ret))
    <2>1. Does(p, r, f) /\ f.pc = "unset"
        BY <1>3, <1>7
    <2>2. Quiet(f.pc) /\ f.pc # "restore" /\ Pending(f) = {}
        BY <2>1, PendingIs DEF Quiet, Redirections
    <2> QED BY <1>1, <1>7, <2>1, <2>2, ReturnKeeps
<1> QED BY <1>5, <1>6, <1>7 DEF sequential

LEMMA ConditionalKeeps ==
    ASSUME Good(proc, over), NEW p \in Pids, conditional(p)
    PROVE  Good(proc', over')
<1>1. PICK r : r = proc[p]
    OBVIOUS
<1>2. PICK f : f = r.stack[1]
    OBVIOUS
<1>3. \A pc : At(p, pc) => /\ Does(p, r, f) /\ Top(p) = f /\ f.pc = pc /\ f.pc \in Pcs(f.cmd[1])
                           /\ f.cmd[1] \in Operators \cup {"none"} /\ r.val \in Values
    BY <1>1, <1>2, AtIs DEF Does, Sound
<1>4. ASSUME Does(p, r, f), f.pc \in {"start", "decide"}, f.cmd[1] \in {"zero", "nzero"},
             NEW pc2 \in {"decide", "last"}, NEW t \in {f.cmd[2], f.cmd[3]}, Set(p, Call(r, pc2, t))
      PROVE  Good(proc', over')
    <2>2. Quiet(f.pc) /\ f.pc # "restore" /\ Pending(f) = {}
        BY <1>4, PendingIs DEF Quiet, Redirections
    <2>3. pc2 \in Pcs(f.cmd[1]) /\ pc2 \in Calling /\ pc2 # "restore"
        BY <1>4 DEF Pcs, Calling
    <2> QED BY <1>4, <2>2, <2>3, CallKeeps
<1>5. ASSUME Does(p, r, f), f.pc \in {"decide", "last"}, r.val \in Values, Set(p, Return(r, r.val))
      PROVE  Good(proc', over')
    <2>1. Quiet(f.pc) /\ f.pc # "restore" /\ Pending(f) = {}
        BY <1>5, PendingIs DEF Quiet, Redirections
    <2> QED BY <1>5, <2>1, ReturnKeeps
<1>6. CASE /\ \E op \in {"zero", "nzero"} : AtOp(p, "start", op)
           /\ Set(p, Call(proc[p], "decide", cmd1(p)))
    <2>1. Does(p, r, f) /\ f.pc = "start" /\ f.cmd[1] \in {"zero", "nzero"} /\ cmd1(p) = f.cmd[2]
        BY <1>3, <1>6 DEF AtOp, cmd1
    <2> QED BY <1>1, <1>4, <1>6, <2>1
<1>7. CASE /\ At(p, "decide")
           /\ LET wanted == (proc[p].val = 0) <=> (Top(p).cmd[1] = "zero") IN
              IF wanted THEN Set(p, Call(proc[p], "last", cmd2(p)))
              ELSE Set(p, Return(proc[p], proc[p].val))
    <2>1. /\ Does(p, r, f) /\ f.pc = "decide" /\ r.val \in Values /\ cmd2(p) = f.cmd[3]
          /\ f.pc \in Pcs(f.cmd[1]) /\ f.cmd[1] \in Operators \cup {"none"}
        BY <1>3, <1>7 DEF cmd2
    <2>2. f.cmd[1] \in {"zero", "nzero"}
        BY <2>1 DEF Pcs, Operators, Redirections
    <2>3. Set(p, Call(r, "last", f.cmd[3])) \/ Set(p, Return(r, r.val))
        BY <1>1, <1>7, <2>1
    <2>4. CASE Set(p, Call(r, "last", f.cmd[3]))
        BY <1>4, <2>1, <2>2, <2>4
    <2>5. CASE Set(p, Return(r, r.val))
        BY <1>5, <2>1, <2>5
    <2> QED BY <2>3, <2>4, <2>5
<1>8. CASE At(p, "last") /\ Set(p, Return(proc[p], proc[p].val))
    <2>1. Does(p, r, f) /\ f.pc = "last" /\ r.val \in Values
        BY <1>3, <1>8
    <2> QED BY <1>1, <1>5, <1>8, <2>1
<1> QED BY <1>6, <1>7, <1>8 DEF conditional


LEMMA ForkProgramKeeps ==
    ASSUME Good(proc, over), NEW p \in Pids, fork_program(p)
    PROVE  Good(proc', over')
<1>1. PICK r : r = proc[p]
    OBVIOUS
<1>2. PICK f, pc, k : f = r.stack[1] /\ pc = "start" /\ k = NewPid
    OBVIOUS
<1>3. At(p, pc) /\ Top(p).cmd[1] = "none" /\ Verb(p) \in Programs
    BY <1>2 DEF fork_program, AtOp
<1>4. /\ Does(p, r, f) /\ f.pc = "start" /\ f.cmd[1] = "none" /\ Simple(r).verb \in Programs
      /\ Top(p) = f /\ Red(p) = Simple(r).red
    BY <1>1, <1>2, <1>3, AtIs DEF Does
<1>5. Pending(f) = {}
    BY <1>4, PendingIs
<1>6. PICK garbage \in Garbage(Red(p)) :
        Fork(p, [Goto(proc[p], "wait") EXCEPT !.stack[1].pid1 = NewPid],
                [Child(p, Top(p).cmd, "redirect") EXCEPT !.io = Io(Red(p), garbage)])
    BY DEF fork_program
<1>7. garbage \in Slots
    BY <1>6, LinesAre DEF Garbage
<1>8. PICK r2, c, red : /\ r2 = Started1(r, "wait", k) /\ red = Simple(r).red
                        /\ c = [ChildOf(r, p, f.cmd, "redirect") EXCEPT !.io = Io(red, garbage)]
    OBVIOUS
<1>9. Fork(p, r2, c)
    BY <1>1, <1>2, <1>4, <1>6, <1>8 DEF Started1, Child, ChildOf
<1>10. k \in Pids
    BY <1>2, <1>9, NewOnes DEF Fork
<1>11. Sound(r) /\ r.stack # <<>> /\ f = r.stack[1] /\ p \in Pids
    BY <1>4 DEF Does
<1>12. Steps(p, r, r2) /\ Awaits(r2, k)
    BY ONLY <1>4, <1>8, <1>10, <1>11, StartedSteps
<1>13. Born(p, r, c)
    BY ONLY <1>4, <1>7, <1>8, <1>11, ProgramBorn
<1> QED BY <1>2, <1>4, <1>5, <1>9, <1>12, <1>13, Forks

LEMMA ParallelKeeps ==
    ASSUME Good(proc, over), NEW p \in Pids, do_in_parallel(p)
    PROVE  Good(proc', over')
<1>1. PICK r : r = proc[p]
    OBVIOUS
<1>2. PICK f, k : f = r.stack[1] /\ k = NewPid
    OBVIOUS
<1>3. \A pc : At(p, pc) => /\ Does(p, r, f) /\ Top(p) = f /\ f.pc = pc /\ f.pc \in Pcs(f.cmd[1])
                           /\ f.cmd[1] \in Operators \cup {"none"} /\ Pending(f) \subseteq Pids
                           /\ Sound(r) /\ r.stack # <<>>
    BY <1>1, <1>2, AtIs DEF Does
<1>4. ASSUME NEW r2, NEW c, Fork(p, r2, c), Does(p, r, f), f.pc \in {"start", "fork2"}, f.cmd[1] = "parallel",
             f.pc = "start" => r2 = Started1(r, "fork2", k), f.pc = "fork2" => r2 = Started2(r, "wait1", k),
             NEW t \in {f.cmd[2], f.cmd[3]}, c = ChildOf(r, p, t, "start")
      PROVE  Good(proc', over')
    <2>1. k \in Pids
        BY <1>2, <1>4, NewOnes DEF Fork
    <2>2. Sound(r) /\ r.stack # <<>> /\ f = r.stack[1]
        BY <1>4 DEF Does
    <2>3. Born(p, r, c)
        BY ONLY <1>4, <2>2, p \in Pids, ParallelBorn
    <2>4. /\ Steps(p, r, r2) /\ Awaits(r2, k)
          /\ f.pc = "fork2" => Awaits(r2, f.pid1)
        BY ONLY <1>4, <2>1, <2>2, StartedSteps
    <2>5. \A q \in Pending(f) : Awaits(r2, q)
        BY <1>4, <2>4, PendingIs
    <2> QED BY <1>2, <1>4, <2>3, <2>4, <2>5, Forks
<1>5. CASE /\ AtOp(p, "start", "parallel")
           /\ Fork(p, [Goto(proc[p], "fork2") EXCEPT !.stack[1].pid1 = NewPid],
                   Child(p, cmd1(p), "start"))
    <2>1. Does(p, r, f) /\ Top(p) = f /\ f.pc = "start" /\ f.cmd[1] = "parallel"
        BY <1>3, <1>5 DEF AtOp
    <2>2. PICK r2, c : r2 = Started1(r, "fork2", k) /\ c = ChildOf(r, p, f.cmd[2], "start")
        OBVIOUS
    <2>3. Fork(p, r2, c)
        BY <1>1, <1>2, <1>5, <2>1, <2>2 DEF Started1, Child, ChildOf, cmd1
    <2> QED BY <1>4, <2>1, <2>2, <2>3
<1>6. CASE /\ At(p, "fork2")
           /\ Fork(p, [Goto(proc[p], "wait1") EXCEPT !.stack[1].pid2 = NewPid],
                   Child(p, cmd2(p), "start"))
    <2>1. /\ Does(p, r, f) /\ Top(p) = f /\ f.pc = "fork2" /\ f.pc \in Pcs(f.cmd[1])
          /\ f.cmd[1] \in Operators \cup {"none"}
        BY <1>3, <1>6
    <2>2. f.cmd[1] = "parallel"
        BY <2>1 DEF Pcs, Operators, Redirections
    <2>3. PICK r2, c : r2 = Started2(r, "wait1", k) /\ c = ChildOf(r, p, f.cmd[3], "start")
        OBVIOUS
    <2>4. Fork(p, r2, c)
        BY <1>1, <1>2, <1>6, <2>1, <2>3 DEF Started2, Child, ChildOf, cmd2
    <2> QED BY <1>4, <2>1, <2>2, <2>3, <2>4
<1>7. CASE /\ At(p, "wait1") /\ Waited(p, Top(p).pid1)
           /\ Reap(p, Top(p).pid1, Goto(proc[p], "wait2"))
    <2>1. /\ Does(p, r, f) /\ Top(p) = f /\ f.pc = "wait1" /\ Pending(f) \subseteq Pids
          /\ Sound(r) /\ r.stack # <<>> /\ f = r.stack[1]
        BY <1>2, <1>3, <1>7
    <2>2. Pending(f) = {f.pid1, f.pid2} /\ f.pid1 \in Pids
        BY <2>1, PendingIs
    <2>3. PICK r2, q : r2 = Goto(r, "wait2") /\ q = f.pid1
        OBVIOUS
    <2>4. Steps(p, r, r2) /\ Awaits(r2, f.pid2)
        BY ONLY <2>1, <2>3, GotoSteps
    <2>5. Waited(p, q) /\ Reap(p, q, r2) /\ q \in Pids
        BY <1>1, <1>7, <2>1, <2>2, <2>3
    <2>6. \A j \in Pending(f) : j # q => Awaits(r2, j)
        BY <2>2, <2>3, <2>4
    <2> QED BY <2>1, <2>4, <2>5, <2>6, Reaps
<1>8. CASE /\ At(p, "wait2") /\ Waited(p, Top(p).pid2)
           /\ Reap(p, Top(p).pid2, Return(proc[p], proc[Top(p).pid2].val))
    <2>1. Does(p, r, f) /\ Top(p) = f /\ f.pc = "wait2" /\ Pending(f) \subseteq Pids
        BY <1>3, <1>8
    <2>2. Pending(f) = {f.pid2} /\ f.pid2 \in Pids /\ Quiet(f.pc) /\ f.pc # "restore"
        BY <2>1, PendingIs DEF Quiet, Redirections
    <2> QED BY <1>1, <1>8, <2>1, <2>2, ReapReturnKeeps
<1> QED BY <1>5, <1>6, <1>7, <1>8 DEF do_in_parallel

LEMMA WaitProgramKeeps ==
    ASSUME Good(proc, over), NEW p \in Pids, wait_program(p)
    PROVE  Good(proc', over')
<1>1. PICK r : r = proc[p]
    OBVIOUS
<1>2. PICK f, pc : f = r.stack[1] /\ pc = "wait"
    OBVIOUS
<1>3. At(p, pc)
    BY <1>2 DEF wait_program, AtOp
<1>4. Does(p, r, f) /\ Top(p) = f /\ f.pc = "wait" /\ Pending(f) \subseteq Pids
    BY <1>1, <1>2, <1>3, AtIs DEF Does
<1>5. Pending(f) = {f.pid1} /\ f.pid1 \in Pids /\ Quiet(f.pc) /\ f.pc # "restore"
    BY <1>4, PendingIs DEF Quiet, Redirections
<1>6. Waited(p, f.pid1) /\ Reap(p, f.pid1, Return(r, proc[f.pid1].val))
    BY <1>1, <1>4 DEF wait_program
<1> QED BY <1>4, <1>5, <1>6, ReapReturnKeeps

LEMMA PipeActionKeeps ==
    ASSUME Good(proc, over), NEW p \in Pids, do_on_pipe(p)
    PROVE  Good(proc', over')
<1>1. PICK r : r = proc[p]
    OBVIOUS
<1>2. PICK f, k, kk : f = r.stack[1] /\ k = NewPid /\ kk = NewPipe
    OBVIOUS
<1>3. \A pc : At(p, pc) => /\ Does(p, r, f) /\ Top(p) = f /\ f.pc = pc /\ Pending(f) \subseteq Pids
                           /\ Sound(r) /\ r.stack # <<>>
    BY <1>1, <1>2, AtIs DEF Does
<1>4. CASE /\ AtOp(p, "start", "pipe") /\ Room(proc[p].fd) /\ FreePipes # {}
           /\ \E fd \in {piped(proc[p].fd, NewPipe)} :
               LET rr == Slot(fd, <<"read", NewPipe>>)
                   w == Slot(fd, <<"write", NewPipe>>)
                   parent == [proc[p] EXCEPT !.fd = writer(fd, rr, w), !.stack[1].pid1 = NewPid,
                                             !.stack[1].saved = Low(close(fd, rr))] IN
               Fork(p, Call(parent, "restore", cmd1(p)),
                    [Child(p, cmd2(p), "start") EXCEPT !.fd = reader(fd, rr, w)])
    <2>1. Does(p, r, f) /\ Top(p) = f /\ f.pc = "start" /\ f.cmd[1] = "pipe" /\ Sound(r) /\ r.stack # <<>>
        BY <1>3, <1>4 DEF AtOp
    <2>2. PICK fd1, in, out : /\ fd1 = piped(r.fd, kk) /\ in = Slot(fd1, <<"read", kk>>)
                              /\ out = Slot(fd1, <<"write", kk>>)
        OBVIOUS
    <2>3. PICK r2, c : /\ r2 = Call(Piping(r, writer(fd1, in, out), k, Low(close(fd1, in))), "restore", f.cmd[2])
                       /\ c = [ChildOf(r, p, f.cmd[3], "start") EXCEPT !.fd = reader(fd1, in, out)]
        OBVIOUS
    <2>4. Fork(p, r2, c)
        BY <1>1, <1>2, <1>4, <2>1, <2>2, <2>3 DEF Piping, Child, ChildOf, cmd1, cmd2
    <2>5. k \in Pids /\ k # shell /\ proc[k].st = "none"
        BY <1>2, <2>4, NewOnes DEF Fork
    <2>6. kk \in Pipes /\ \A q \in Pids : Sound(proc[q]) => Fresh(proc[q].fd, kk)
        BY <1>2, <1>4, NewOnes
    <2>7. Room(r.fd)
        BY <1>1, <1>4
    <2>8. PipesTo(p, r, f, kk, k, fd1, in, out, r2, c)
        BY <1>2, <2>1, <2>2, <2>3, <2>5, <2>6, <2>7 DEF PipesTo
    <2>9. PICK pr, ov, pr2 : pr = proc /\ ov = over /\ pr2 = proc'
        OBVIOUS
    <2>10. /\ Good(pr, ov) /\ PipesTo(p, pr[p], f, kk, k, fd1, in, out, r2, c) /\ k # shell
           /\ pr[k].st = "none" /\ \A q \in Pids : Sound(pr[q]) => Fresh(pr[q].fd, kk)
           /\ pr2 = [pr EXCEPT ![p] = r2, ![k] = c] /\ over' = ov
        BY <1>1, <1>2, <2>4, <2>5, <2>6, <2>8, <2>9 DEF Fork
    <2>11. Good(pr2, ov)
        BY ONLY <2>10, PipeKeeps
    <2> QED BY <2>9, <2>10, <2>11
<1>5. CASE /\ At(p, "restore")
           /\ LET s == Top(p).saved IN
              Set(p, Goto([proc[p] EXCEPT !.fd = close(dup2(@, s, 1), s)], "reap"))
    <2>1. Does(p, r, f) /\ Top(p) = f /\ f.pc = "restore" /\ Sound(r) /\ r.stack # <<>> /\ f = r.stack[1]
        BY <1>2, <1>3, <1>5
    <2>2. PICK r2 : r2 = Goto([r EXCEPT !.fd = close(dup2(@, f.saved, 1), f.saved)], "reap")
        OBVIOUS
    <2>3. Set(p, r2)
        BY <1>1, <1>5, <2>1, <2>2
    <2>4. Steps(p, r, r2) /\ Awaits(r2, f.pid1)
        BY ONLY <2>1, <2>2, RestoreSteps
    <2>5. \A q \in Pending(f) : Awaits(r2, q)
        BY <2>1, <2>4, PendingIs
    <2> QED BY <2>1, <2>3, <2>4, <2>5, Sets
<1>6. CASE /\ At(p, "reap") /\ Waited(p, Top(p).pid1)
           /\ Reap(p, Top(p).pid1, Return(proc[p], proc[Top(p).pid1].val))
    <2>1. Does(p, r, f) /\ Top(p) = f /\ f.pc = "reap" /\ Pending(f) \subseteq Pids
        BY <1>3, <1>6
    <2>2. Pending(f) = {f.pid1} /\ f.pid1 \in Pids /\ Quiet(f.pc) /\ f.pc # "restore"
        BY <2>1, PendingIs DEF Quiet, Redirections
    <2> QED BY <1>1, <1>6, <2>1, <2>2, ReapReturnKeeps
<1> QED BY <1>4, <1>5, <1>6 DEF do_on_pipe


LEMMA CdKeeps ==
    ASSUME Good(proc, over), NEW p \in Pids, cd(p)
    PROVE  Good(proc', over')
<1>1. PICK r : r = proc[p]
    OBVIOUS
<1>2. PICK f, pc : f = r.stack[1] /\ pc = "start"
    OBVIOUS
<1>3. At(p, pc) /\ Top(p).cmd[1] = "none" /\ Verb(p) = "cd"
    BY <1>2 DEF cd, AtOp
<1>4. /\ Does(p, r, f) /\ f.pc = "start" /\ f.cmd[1] = "none" /\ Simple(r).verb = "cd"
      /\ Red(p) = Simple(r).red /\ Sound(r) /\ r.stack # <<>> /\ f = r.stack[1]
    BY <1>1, <1>2, <1>3, AtIs DEF Does
<1>5. Pending(f) = {}
    BY <1>4, PendingIs
<1>6. PICK garbage \in Garbage(Red(p)) : Set(p, [Goto(proc[p], "redirect") EXCEPT !.io = Io(Red(p), garbage)])
    BY DEF cd
<1>7. garbage \in Slots
    BY <1>6, LinesAre DEF Garbage
<1>8. PICK red : red = Simple(r).red
    OBVIOUS
<1>9. PICK r2 : r2 = [Goto(r, "redirect") EXCEPT !.io = Io(red, garbage)]
    OBVIOUS
<1>10. Set(p, r2)
    BY <1>1, <1>4, <1>6, <1>8, <1>9
<1>11. Steps(p, r, r2)
    BY ONLY <1>4, <1>7, <1>8, <1>9, CdSteps
<1> QED BY <1>4, <1>5, <1>10, <1>11, Sets

LEMMA DieKeeps ==
    ASSUME Good(proc, over), NEW p \in Pids, Sound(proc[p]), Die(p)
    PROVE  Good(proc', over')
<1>1. PICK code, why : code = 1 /\ why = "DIE"
    OBVIOUS
<1>2. Exit(p, code, why) /\ code \in Values
    BY <1>1, LinesAre DEF Die
<1> QED BY <1>1, <1>2, Exits

LEMMA RedirectStreamKeeps ==
    ASSUME NEW p \in Pids, NEW r, NEW f, Does(p, r, f), f.pc \in Redirections, NEW k \in 0 .. 2,
           Red(p) = Simple(r).red, r.io.word[k] # 0, Room(r.fd), NEW opens, RightModeOf(r, k) => opens,
           NEW pc \in Redirections, pc = "redirect_err" => k = 1 /\ r.io.word[2] # 0,
           redirect_stream(p, k, opens, pc)
    PROVE  Good(proc', over')
<1>1. r = proc[p] /\ Sound(r) /\ r.stack # <<>> /\ f = r.stack[1] /\ Good(proc, over)
    BY DEF Does
<1>2. PICK name : name = Simple(r).red[r.io.word[k]][2]
    OBVIOUS
<1>3. PICK a : a = (IF opens THEN open(r, name) ELSE r)
    OBVIOUS
<1>4. PICK b : b = Save(a, k)
    OBVIOUS
<1>5. PICK c : c = Redirect(b, k, Words[Simple(r).red].next)
    OBVIOUS
<1>6. PICK r2 : r2 = Goto(c, pc)
    OBVIOUS
<1>7. Die(p) \/ Set(p, r2)
    BY <1>1, <1>2, <1>3, <1>4, <1>5, <1>6, Zenon DEF redirect_stream, Word
<1>8. CASE Die(p)
    BY <1>1, <1>8, DieKeeps
<1>9. CASE Set(p, r2)
    <2>1. RedirectsOnce(r, f, k, name, opens, pc, a, b, c, r2)
        BY <1>1, <1>2, <1>3, <1>4, <1>5, <1>6, Zenon DEF RedirectsOnce
    <2>2. Steps(p, r, r2)
        BY ONLY <2>1, RedirectSteps
    <2>3. Pending(f) = {}
        BY PendingIs DEF Redirections
    <2> QED BY <1>9, <2>2, <2>3, Sets
<1> QED BY <1>7, <1>8, <1>9

LEMMA StreamIs ==
    ASSUME NEW p, Redirecting(p)
    PROVE  Stream(p) \in 0 .. 2 /\ Word(p, Stream(p)) # 0
<1> DEFINE S == {k \in 0 .. 2 : Word(p, k) # 0}
<1>1. S \in SUBSET Nat /\ S # {}
    BY DEF Redirecting
<1> HIDE DEF S
<1>2. PICK k \in S : \A j \in S : k <= j
    BY <1>1, LeastNatural
<1>3. k \in 0 .. 2 /\ Word(p, k) # 0 /\ \A j \in 0 .. k - 1 : Word(p, j) = 0
    BY <1>2 DEF S
<1> QED BY <1>3 DEF Stream

LEMMA RedirectionsKeep ==
    ASSUME Good(proc, over), NEW p \in Pids, redirections(p)
    PROVE  Good(proc', over')
<1>1. PICK r : r = proc[p]
    OBVIOUS
<1>2. PICK f : f = r.stack[1]
    OBVIOUS
<1>3. \A pc : At(p, pc) => /\ Does(p, r, f) /\ Top(p) = f /\ f.pc = pc /\ Red(p) = Simple(r).red
                           /\ Sound(r) /\ r.stack # <<>> /\ f = r.stack[1]
    BY <1>1, <1>2, AtIs DEF Does
<1>4. CASE /\ At(p, "redirect") /\ Redirecting(p) /\ Room(proc[p].fd)
           /\ LET k == Stream(p) IN
              IF k = 0 /\ Red(p)[Word(p, 0)][2] = "missing" THEN Die(p)
              ELSE redirect_stream(p, k, RightMode(p, k) \/ Both(p),
                                   IF k = 1 /\ Both(p) THEN "redirect_err" ELSE "redirect")
    <2>1. Does(p, r, f) /\ f.pc \in Redirections /\ Red(p) = Simple(r).red /\ Sound(r) /\ Room(r.fd)
        BY <1>1, <1>3, <1>4 DEF Redirections
    <2>2. PICK k \in 0 .. 2 : k = Stream(p) /\ r.io.word[k] # 0
        BY <1>1, <1>4, StreamIs DEF Word
    <2>3. PICK opens, pc : /\ opens = (RightMode(p, k) \/ Both(p))
                           /\ pc = IF k = 1 /\ Both(p) THEN "redirect_err" ELSE "redirect"
        OBVIOUS
    <2>4. CASE Die(p)
        BY <1>1, <2>1, <2>4, DieKeeps
    <2>5. CASE redirect_stream(p, k, opens, pc)
        <3>1. RightModeOf(r, k) => opens
            BY <2>1, <2>3 DEF RightMode, RightModeOf
        <3>2. pc \in Redirections /\ (pc = "redirect_err" => k = 1 /\ r.io.word[2] # 0)
            BY <1>1, <2>3 DEF Redirections, Both, Word
        <3> QED BY <2>1, <2>2, <2>5, <3>1, <3>2, RedirectStreamKeeps
    <2>6. Die(p) \/ redirect_stream(p, k, opens, pc)
        BY <1>4, <2>2, <2>3
    <2> QED BY <2>4, <2>5, <2>6
<1>5. CASE /\ At(p, "redirect_err") /\ Room(proc[p].fd)
           /\ redirect_stream(p, 2, TRUE, "redirect")
    <2>1. /\ Does(p, r, f) /\ f.pc = "redirect_err" /\ f.pc \in Redirections /\ Red(p) = Simple(r).red
          /\ Sound(r) /\ Room(r.fd) /\ r.stack # <<>> /\ f = r.stack[1]
        BY <1>1, <1>3, <1>5 DEF Redirections
    <2>2. r.io.word[2] # 0
        BY <2>1 DEF Sound, IoOK
    <2>3. PICK k, opens, pc : k = 2 /\ opens = TRUE /\ pc = "redirect"
        OBVIOUS
    <2>4. redirect_stream(p, k, opens, pc)
        BY ONLY <1>5, <2>3, Zenon
    <2>5. k \in 0 .. 2 /\ r.io.word[k] # 0 /\ pc \in Redirections /\ pc # "redirect_err"
        BY <2>2, <2>3 DEF Redirections
    <2>6. RightModeOf(r, k) => opens
        BY ONLY <2>3
    <2> QED BY <2>1, <2>4, <2>5, <2>6, RedirectStreamKeeps
<1> QED BY <1>4, <1>5 DEF redirections

LEMMA NotRedirecting ==
    ASSUME NEW p, ~ Redirecting(p), NEW r, r = proc[p]
    PROVE  \A k \in 0 .. 2 : r.io.word[k] = 0
BY DEF Redirecting, Word

LEMMA ShellCdKeeps ==
    ASSUME Good(proc, over), NEW p \in Pids, shell_cd(p)
    PROVE  Good(proc', over')
<1>1. PICK r : r = proc[p]
    OBVIOUS
<1>2. PICK f, pc : f = r.stack[1] /\ pc = "redirect"
    OBVIOUS
<1>3. At(p, pc) /\ Verb(p) = "cd"
    BY <1>2 DEF shell_cd
<1>4. /\ Does(p, r, f) /\ f.pc = "redirect" /\ Simple(r).verb = "cd" /\ Sound(r) /\ r.stack # <<>>
      /\ f = r.stack[1]
    BY <1>1, <1>2, <1>3, AtIs DEF Does
<1>5. Pending(f) = {}
    BY <1>4, PendingIs
<1>6. PICK a : RestoredTo(r, a)
    BY DEF RestoredTo
<1>7. IF a.fd = <<>> THEN Die(p)
      ELSE \E ret \in {0, 1} : Set(p, Return([a EXCEPT !.io = NoIo], ret))
    BY <1>1, <1>6 DEF shell_cd, RestoredTo
<1>8. CASE a.fd = <<>>
    BY <1>1, <1>4, <1>7, <1>8, DieKeeps
<1>9. CASE a.fd # <<>>
    <2>1. PICK v \in {0, 1} : Set(p, Return([a EXCEPT !.io = NoIo], v))
        BY <1>7, <1>9
    <2>2. PICK r2 : r2 = Return([a EXCEPT !.io = NoIo], v)
        OBVIOUS
    <2>3. Steps(p, r, r2)
        BY ONLY <1>4, <1>6, <1>9, <2>1, <2>2, CdReturns
    <2> QED BY <1>4, <1>5, <2>1, <2>2, <2>3, Sets
<1> QED BY <1>8, <1>9

LEMMA ExecKeeps ==
    ASSUME Good(proc, over), NEW p \in Pids, execvp(p)
    PROVE  Good(proc', over')
<1>1. PICK r : r = proc[p]
    OBVIOUS
<1>2. PICK f, pc : f = r.stack[1] /\ pc = "redirect"
    OBVIOUS
<1>3. At(p, pc) /\ Verb(p) \in Programs /\ ~ Redirecting(p)
    BY <1>2 DEF execvp
<1>4. /\ Does(p, r, f) /\ f.pc = "redirect" /\ Simple(r).verb \in Programs /\ Sound(r) /\ r.stack # <<>>
      /\ f = r.stack[1]
    BY <1>1, <1>2, <1>3, AtIs DEF Does
<1>5. Pending(f) = {}
    BY <1>4, PendingIs
<1>6. \A k \in 0 .. 2 : r.io.word[k] = 0
    BY <1>1, <1>3, NotRedirecting
<1>7. PICK r2 : r2 = Goto([r EXCEPT !.io = NoIo], "program")
    OBVIOUS
<1>8. Set(p, r2)
    BY <1>1, <1>7 DEF execvp
<1>9. Steps(p, r, r2)
    BY ONLY <1>4, <1>6, <1>7, ExecSteps
<1> QED BY <1>4, <1>5, <1>8, <1>9, Sets

LEMMA ProgramKeeps ==
    ASSUME Good(proc, over), NEW p \in Pids, program(p)
    PROVE  Good(proc', over')
<1>1. PICK r : r = proc[p]
    OBVIOUS
<1>2. PICK f, pc : f = r.stack[1] /\ pc = "program"
    OBVIOUS
<1>3. At(p, pc)
    BY <1>2 DEF program
<1>4. f.pc = "program" /\ Sound(r) /\ r.stack # <<>> /\ f = r.stack[1]
    BY <1>1, <1>2, <1>3, AtIs DEF Does
<1>5. Launched(r)
    BY <1>4 DEF Sound, IoOK, Launched, Redirections
<1>6. p # shell
    BY <1>1, <1>5 DEF Good, TypesOf
<1>7. \E code \in {0, 1} : Exit(p, code, None)
    BY DEF program
<1> QED BY <1>1, <1>4, <1>6, <1>7, LinesAre, Exits

LEMMA ExitChildKeeps ==
    ASSUME Good(proc, over), NEW p \in Pids, exit_child(p)
    PROVE  Good(proc', over')
<1>1. p # shell /\ Sound(proc[p])
    BY DeadIs DEF exit_child, Good, TypesOf
<1>2. \E code \in {0, 1} : Exit(p, code, None)
    BY DEF exit_child
<1> QED BY <1>1, <1>2, LinesAre, Exits

LEMMA StepKeeps ==
    ASSUME Good(proc, over), NEW p \in Pids, Step(p)
    PROVE  Good(proc', over')
BY BuiltinsKeep, CdKeeps, ShellCdKeeps, RedirectionsKeep, ForkProgramKeeps, ExecKeeps, ProgramKeeps,
   WaitProgramKeeps, SequentialKeeps, ConditionalKeeps, ParallelKeeps, PipeActionKeeps, ExitChildKeeps
   DEF Step, parse_simple

-----------------------------------------------------------------------------
(* The inductive invariant. *)
IInv == Good(proc, over)

LEMMA InitGood ==
    ASSUME Init
    PROVE  IInv
<1>1. PICK r : r = [Nobody EXCEPT !.st = "run"]
    OBVIOUS
<1>2. PICK pr, ov : pr = proc /\ ov = over
    OBVIOUS
<1>3. pr = [p \in Pids |-> IF p = shell THEN r ELSE Nobody] /\ ov = None
    BY <1>1, <1>2 DEF Init
<1>4. r = Running(None, 0, Terminal, <<>>, 0, NoIo)
    BY <1>1 DEF Nobody, Running
<1>5. /\ IsRunning(r) /\ r.line = None /\ r.parent = 0 /\ r.fd = Terminal /\ r.stack = <<>>
      /\ r.val = 0 /\ r.io = NoIo
    BY ONLY <1>4, FieldsOf
<1>6. Sound(r)
    <2>1. IoOK(r)
        BY <1>5 DEF IoOK
    <2>2. r.stack \in Seq(Frames(r.line)) /\ \A i \in 2 .. Len(r.stack) : r.stack[i].pc \in Calling
        BY <1>5
    <2> QED BY <1>5, <2>1, <2>2, LinesAre, EndsFacts DEF Sound, Tables
<1>7. ~ Launched(r) /\ RootOK(r)
    BY <1>5 DEF Launched, RootOK
<1>8. shell \in Pids /\ Dead(Nobody) /\ Nobody.parent = 0 /\ ~ Sound(Nobody)
    BY LinesAre, DeadIs
<1>9. pr[shell] = r /\ \A p \in Pids : p # shell => pr[p] = Nobody
    BY <1>3, <1>8
<1>10. TypesOf(pr, ov)
    <2>1. pr = [p \in Pids |-> pr[p]]
        BY <1>3
    <2> QED BY <1>3, <1>5, <1>6, <1>7, <1>8, <1>9, <2>1 DEF TypesOf
<1>11. WiresOf(pr)
    <2>1. PICK pos : pos = [k \in Pipes |-> 0]
        OBVIOUS
    <2>2. pos \in [Pipes -> Nat]
        BY <2>1
    <2>3. ASSUME NEW p \in Pids, Sound(pr[p]) PROVE Plumbed(p, pr[p], pos)
        <3>1. pr[p] = r
            BY <1>8, <1>9, <2>3
        <3> QED BY <1>5, <3>1, EndsFacts, IdlePlumbed
    <2> QED BY <2>2, <2>3 DEF WiresOf
<1> QED BY <1>2, <1>10, <1>11 DEF IInv, Good

LEMMA NextGood ==
    ASSUME IInv, [Next]_vars
    PROVE  IInv'
<1>1. CASE Next
    <2>1. Good(proc, over)
        BY DEF IInv
    <2>2. ASSUME NEW l \in Lines, read_line(l) PROVE Good(proc', over')
        BY <2>1, <2>2, ReadLineKeeps
    <2>3. ASSUME end_of_input PROVE Good(proc', over')
        BY <2>1, <2>3, EndOfInputKeeps
    <2>4. ASSUME start_shell PROVE Good(proc', over')
        BY <2>1, <2>4, StartShellKeeps
    <2>5. ASSUME NEW p \in Pids, Step(p) PROVE Good(proc', over')
        BY <2>1, <2>5, StepKeeps
    <2>6. Good(proc', over')
        BY <1>1, <2>2, <2>3, <2>4, <2>5 DEF Next
    <2>7. IInv' <=> Good(proc', over')
        BY DEF IInv
    <2> QED BY <2>6, <2>7
<1>2. CASE UNCHANGED vars
    <2>1. proc' = proc /\ over' = over
        BY <1>2 DEF vars
    <2>2. IInv' <=> Good(proc', over')
        BY DEF IInv
    <2>3. Good(proc, over)
        BY DEF IInv
    <2> QED BY <2>1, <2>2, <2>3
<1> QED BY <1>1, <1>2

LEMMA AlwaysGood == Spec => []IInv
<1>1. Init => IInv
    BY InitGood
<1>2. IInv /\ [Next]_vars => IInv'
    BY NextGood
<1> QED BY <1>1, <1>2, PTL DEF Spec

LEMMA TypesGood ==
    ASSUME IInv
    PROVE  TypeOK
<1>1. TypesOf(proc, over)
    BY DEF IInv, Good
<1>2. ASSUME NEW p \in Pids
      PROVE  /\ proc[p].st \in {"none", "run", "zombie"} /\ proc[p].parent \in Pids \cup {0}
             /\ proc[p].line \in LineOrNone /\ proc[p].val \in Values
             /\ DOMAIN proc[p].fd = Slots
             /\ Range(proc[p].fd) \subseteq Ends
             /\ \A i \in DOMAIN proc[p].stack :
                 /\ proc[p].stack[i].saved \in Slots
                 /\ {proc[p].stack[i].pid1, proc[p].stack[i].pid2} \subseteq Pids \cup {0}
    <2>1. PICK r : r = proc[p]
        OBVIOUS
    <2>2. CASE Dead(r)
        <3>1. /\ r.st \in {"none", "zombie"} /\ r.parent \in Pids \cup {0}
              /\ r.line = None /\ r.val \in Values /\ r.fd = Terminal /\ r.stack = <<>>
            BY <2>2, DeadIs
        <3>2. r.fd \in Tables
            BY <3>1, EndsFacts
        <3>3. DOMAIN r.fd = Slots /\ Range(r.fd) \subseteq Ends
            BY <3>2 DEF Tables, Range
        <3>4. DOMAIN r.stack = {}
            BY <3>1
        <3> QED BY <2>1, <3>1, <3>3, <3>4 DEF LineOrNone
    <2>3. CASE Sound(r)
        <3>1. /\ r.st = "run" /\ r.parent \in Pids \cup {0} /\ r.line \in Lines \cup {None} /\ r.val \in Values
              /\ r.fd \in Tables /\ r.stack \in Seq(Frames(r.line))
            BY <2>3, DeadIs DEF Sound
        <3>2. DOMAIN r.fd = Slots /\ Range(r.fd) \subseteq Ends
            BY <3>1 DEF Tables, Range
        <3>3. \A i \in DOMAIN r.stack : r.stack[i] \in Frames(r.line)
            BY <3>1
        <3>4. ASSUME NEW i \in DOMAIN r.stack
              PROVE  r.stack[i].saved \in Slots /\ {r.stack[i].pid1, r.stack[i].pid2} \subseteq Pids \cup {0}
            BY <3>3, FrameIs
        <3> QED BY <2>1, <3>1, <3>2, <3>4 DEF LineOrNone
    <2> QED BY <1>1, <2>1, <2>2, <2>3 DEF TypesOf
<1> QED BY <1>1, <1>2 DEF TypesOf, TypeOK

(* The records stay in their types: processes name processes, descriptors   *)
(* name what they can lead to, and the call stacks what they saved.         *)
THEOREM TypeCorrect == Spec => []TypeOK
<1>1. IInv => TypeOK
    BY TypesGood
<1> QED BY <1>1, AlwaysGood, PTL

LEMMA PrioritiesGood ==
    ASSUME IInv
    PROVE  Priorities
<1>1. RootOK(proc[shell])
    BY DEF IInv, Good, TypesOf
<1> QED BY <1>1 DEF Priorities, RootOK, Root, Last

(* Whatever the shell is doing for a line, the outermost call of            *)
(* parse_command is on the tree that the priorities of parser.h define.     *)
THEOREM PrioritiesHold == Spec => []Priorities
<1>1. IInv => Priorities
    BY PrioritiesGood
<1> QED BY <1>1, AlwaysGood, PTL

LEMMA RestoredGood ==
    ASSUME IInv
    PROVE  Restored
<1>1. SUFFICES ASSUME NoCdSkips, AtPrompt
               PROVE  proc[shell].fd = Terminal /\ \A p \in Pids : proc[p].parent # shell
    BY DEF Restored
<1>2. PICK r : r = proc[shell]
    OBVIOUS
<1>3. TypesOf(proc, over) /\ WiresOf(proc)
    BY <1>1 DEF IInv, Good
<1>4. shell \in Pids /\ shell # 0
    BY LinesAre
<1>5. Sound(r) /\ r.line = None
    BY <1>1, <1>2, <1>3 DEF AtPrompt, TypesOf
<1>6. r.stack = <<>> /\ r.fd \in Tables
    BY <1>5 DEF Sound
<1>7. r.io = NoIo
    BY <1>5, <1>6 DEF Sound, IoOK
<1>8. PICK pos \in [Pipes -> Nat] : Plumbed(shell, r, pos)
    BY <1>2, <1>3, <1>4, <1>5 DEF WiresOf
<1>9. r.fd = Terminal
    BY <1>6, <1>7, <1>8, IdlePlumbed
<1>10. \A q : ~ Awaits(r, q)
    BY <1>6 DEF Awaits
<1>11. \A p \in Pids : proc[p].parent # shell
    BY <1>2, <1>3, <1>4, <1>10 DEF TypesOf
<1> QED BY <1>2, <1>9, <1>11

(* When the shell prompts, every redirection and pipe of the line before it *)
(* has been undone in the shell itself and no child is left behind.         *)
THEOREM PromptIsClean == Spec => []Restored
<1>1. IInv => Restored
    BY RestoredGood
<1> QED BY <1>1, AlwaysGood, PTL

-----------------------------------------------------------------------------
(* A program whose redirections are done: a stream with words goes to the   *)
(* last, one without to the neighbour, or to the terminal.                  *)
ProgramAt(p, r, f, red, pos) ==
    /\ Sound(r) /\ r.stack # <<>> /\ f = r.stack[1] /\ f.pc = "program" /\ red = Simple(r).red
    /\ Streams(r, pos)
LEMMA StreamGoes ==
    ASSUME NEW p, NEW r, NEW f, NEW red, NEW pos, ProgramAt(p, r, f, red, pos), NEW k \in 0 .. 2,
           NEW files, files = Files(red, KindsOf(k))
    PROVE  IF files # {} THEN r.fd[k] = <<"file", red[Max(files)][2]>>
           ELSE WiredAt(r.line, f.cmd[2], k, r.fd[k], pos)
<1>1. /\ Sound(r) /\ r.stack # <<>> /\ f = r.stack[1] /\ f.pc = "program" /\ red = Simple(r).red
      /\ Streams(r, pos)
    BY DEF ProgramAt
<1>2. f.cmd[1] = "none" /\ r.io = NoIo
    BY <1>1, PcIs, TopIs DEF Redirections
<1>3. Len(red) \in Nat /\ DOMAIN red = 1 .. Len(red)
    BY <1>1, <1>2, SimpleIs
<1>4. files = NodesOf(red, k, Len(red)) /\ files \in SUBSET Nat
    BY <1>3 DEF Files, NodesOf
<1>5. r.io.word[k] = 0
    BY <1>2 DEF NoIo
<1>6. CASE files = {}
    BY <1>1, <1>4, <1>5, <1>6 DEF Streams
<1>7. CASE files # {}
    <2>1. PICK w \in files : (\A v \in files : v <= w) /\ r.fd[k] = <<"file", red[w][2]>>
        BY <1>1, <1>4, <1>5, <1>7 DEF Streams
    <2>2. \E m \in files : \A v \in files : m >= v
        BY <1>4, <2>1
    <2>3. Max(files) \in files /\ \A v \in files : Max(files) >= v
        BY <2>2 DEF Max
    <2>4. Max(files) = w
        BY <1>4, <2>1, <2>3
    <2> QED BY <1>7, <2>1, <2>4
<1> QED BY <1>6, <1>7

LEMMA ProgramsAre ==
    ASSUME NoCdSkips, WiresOf(proc), TypesOf(proc, over)
    PROVE  \E pos : \A p \in Pids : RunsRegular(p) =>
                \E f : ProgramAt(p, proc[p], f, Red(p), pos) /\ f.cmd[1] = "none" /\ Top(p) = f
<1>1. PICK pos \in [Pipes -> Nat] : \A p \in Pids : Sound(proc[p]) => Plumbed(p, proc[p], pos)
    BY DEF WiresOf
<1>2. ASSUME NEW p \in Pids, RunsRegular(p)
      PROVE  \E f : ProgramAt(p, proc[p], f, Red(p), pos) /\ f.cmd[1] = "none" /\ Top(p) = f
    <2>1. PICK r : r = proc[p]
        OBVIOUS
    <2>2. PICK f, pc : f = r.stack[1] /\ pc = "program"
        OBVIOUS
    <2>3. At(p, pc) /\ Regular(Red(p)) /\ Good(proc, over)
        BY <1>2, <2>2 DEF RunsRegular, Good
    <2>4. /\ Sound(r) /\ r.stack # <<>> /\ Top(p) = f /\ f.pc = "program" /\ Red(p) = Simple(r).red
        BY <2>1, <2>2, <2>3, AtIs
    <2>5. Launched(r)
        BY <2>2, <2>4 DEF Sound, IoOK, Launched, Redirections
    <2>6. Streams(r, pos)
        BY <1>1, <2>1, <2>3, <2>4, <2>5 DEF Plumbed
    <2>7. f.cmd[1] = "none"
        BY <2>2, <2>4, PcIs
    <2> QED BY <2>1, <2>2, <2>4, <2>6, <2>7 DEF ProgramAt
<1> QED BY <1>2

LEMMA StreamSides ==
    ASSUME NEW l, NEW i, NEW end, NEW pos
    PROVE  /\ WiredAt(l, i, 0, end, pos) =>
                IF PipeAt(l, i - 1) THEN \E k \in Pipes : end = <<"read", k>> /\ pos[k] = i - 1 ELSE end = Tty
           /\ WiredAt(l, i, 1, end, pos) =>
                IF PipeAt(l, i) THEN \E k \in Pipes : end = <<"write", k>> /\ pos[k] = i ELSE end = Tty
           /\ WiredAt(l, i, 2, end, pos) => end = Tty
BY DEF WiredAt, WiredIn, WiredOut, JoinedTo

PipeOf(l, j) == j \in DOMAIN l.ops /\ l.ops[j] = "pipe"
StreamsGo(p, r, l, i) ==
    /\ Goes(p, {"<"}, PipeOf(l, i - 1), r.fd[0])
    /\ Goes(p, {">", ">>", "&>"}, PipeOf(l, i), r.fd[1])
    /\ Goes(p, {"2>", "2>>", "&>"}, FALSE, r.fd[2])
    /\ r.fd[0][1] # "write" /\ r.fd[1][1] # "read"
JoinsAt(r, i, pos) ==
    /\ \A k : r.fd[0] = <<"read", k>> => pos[k] = i - 1
    /\ \A k : r.fd[1] = <<"write", k>> => pos[k] = i
    /\ r.fd[0][1] = "read" => \E k : r.fd[0] = <<"read", k>>
LEMMA ProgramGoes ==
    ASSUME NEW p, NEW r, NEW f, NEW red, NEW pos, ProgramAt(p, r, f, red, pos), red = Red(p), f.cmd[1] = "none",
           NEW i, i = f.cmd[2], NEW l, l = r.line
    PROVE  StreamsGo(p, r, l, i) /\ JoinsAt(r, i, pos)
<1>1. Sound(r) /\ r.stack # <<>> /\ f = r.stack[1]
    BY DEF ProgramAt
<1>2. IsLine(l) /\ i \in 1 .. Len(l.cmds) /\ i \in Nat
    <2>1. IsLine(l) /\ i \in 1 .. Len(l.cmds)
        BY <1>1, SimpleIs
    <2>2. Len(l.cmds) \in Nat
        BY <2>1 DEF IsLine
    <2> QED BY <2>1, <2>2
<1>3. \A j : PipeOf(l, j) <=> PipeAt(l, j)
    BY <1>2 DEF IsLine, PipeOf, PipeAt
<1>4. PICK e0, e1, e2 : e0 = r.fd[0] /\ e1 = r.fd[1] /\ e2 = r.fd[2]
    OBVIOUS
<1>5. PICK F0, F1, F2 : /\ F0 = Files(red, {"<"}) /\ F1 = Files(red, {">", ">>", "&>"})
                        /\ F2 = Files(red, {"2>", "2>>", "&>"})
    OBVIOUS
<1>6. PICK k0, k1, k2 : k0 = 0 /\ k1 = 1 /\ k2 = 2
    OBVIOUS
<1>7. /\ k0 \in 0 .. 2 /\ k1 \in 0 .. 2 /\ k2 \in 0 .. 2
      /\ F0 = Files(red, KindsOf(k0)) /\ F1 = Files(red, KindsOf(k1)) /\ F2 = Files(red, KindsOf(k2))
    BY <1>5, <1>6 DEF KindsOf
<1>8. IF F0 # {} THEN e0 = <<"file", red[Max(F0)][2]>> ELSE WiredAt(l, i, 0, e0, pos)
    BY <1>4, <1>6, <1>7, StreamGoes
<1>9. IF F1 # {} THEN e1 = <<"file", red[Max(F1)][2]>> ELSE WiredAt(l, i, 1, e1, pos)
    BY <1>4, <1>6, <1>7, StreamGoes
<1>10. IF F2 # {} THEN e2 = <<"file", red[Max(F2)][2]>> ELSE WiredAt(l, i, 2, e2, pos)
    BY <1>4, <1>6, <1>7, StreamGoes
<1>11. /\ F0 = {} /\ PipeAt(l, i - 1) => \E k \in Pipes : e0 = <<"read", k>> /\ pos[k] = i - 1
       /\ F0 = {} /\ ~ PipeAt(l, i - 1) => e0 = Tty
       /\ F1 = {} /\ PipeAt(l, i) => \E k \in Pipes : e1 = <<"write", k>> /\ pos[k] = i
       /\ F1 = {} /\ ~ PipeAt(l, i) => e1 = Tty
       /\ F2 = {} => e2 = Tty
    BY <1>8, <1>9, <1>10, StreamSides
<1>12. Goes(p, {"<"}, PipeOf(l, i - 1), e0)
    BY <1>3, <1>5, <1>8, <1>11 DEF Goes
<1>13. Goes(p, {">", ">>", "&>"}, PipeOf(l, i), e1)
    BY <1>3, <1>5, <1>9, <1>11 DEF Goes
<1>14. Goes(p, {"2>", "2>>", "&>"}, FALSE, e2)
    BY <1>5, <1>10, <1>11 DEF Goes
<1>15. /\ e0[1] # "write" /\ (e0[1] = "read" => \E k : e0 = <<"read", k>>)
       /\ \A k : e0 = <<"read", k>> => pos[k] = i - 1
    BY <1>8, <1>11 DEF Tty
<1>16. e1[1] # "read" /\ \A k : e1 = <<"write", k>> => pos[k] = i
    BY <1>9, <1>11 DEF Tty
<1>17. StreamsGo(p, r, l, i)
    BY <1>4, <1>12, <1>13, <1>14, <1>15, <1>16 DEF StreamsGo
<1>18. JoinsAt(r, i, pos)
    BY <1>4, <1>15, <1>16 DEF JoinsAt
<1> QED BY <1>17, <1>18

JoinsOnce(r, i) ==
    \A q \in Pids : RunsRegular(q) /\ r.fd[0][1] = "read"
            /\ proc[q].fd[1] = <<"write", r.fd[0][2]>> => Top(q).cmd[2] = i - 1
LEMMA PlumbingIs ==
    ASSUME NoCdSkips => \A p \in Pids : RunsRegular(p) =>
                /\ StreamsGo(p, proc[p], proc[p].line, Top(p).cmd[2])
                /\ JoinsOnce(proc[p], Top(p).cmd[2])
    PROVE  Plumbing
BY DEF Plumbing, StreamsGo, JoinsOnce, PipeOf

LEMMA PlumbingGood ==
    ASSUME IInv
    PROVE  Plumbing
<1>1. SUFFICES ASSUME NoCdSkips, NEW p \in Pids, RunsRegular(p)
               PROVE  /\ StreamsGo(p, proc[p], proc[p].line, Top(p).cmd[2])
                      /\ JoinsOnce(proc[p], Top(p).cmd[2])
    BY PlumbingIs
<1>2. WiresOf(proc) /\ TypesOf(proc, over)
    BY <1>1 DEF IInv, Good
<1>3. PICK pos : \A q \in Pids : RunsRegular(q) =>
                \E g : ProgramAt(q, proc[q], g, Red(q), pos) /\ g.cmd[1] = "none" /\ Top(q) = g
    BY <1>1, <1>2, ProgramsAre
<1>4. ASSUME NEW q \in Pids, RunsRegular(q), NEW r, r = proc[q], NEW i, i = Top(q).cmd[2]
      PROVE  StreamsGo(q, r, r.line, i) /\ JoinsAt(r, i, pos)
    <2>1. PICK f : ProgramAt(q, r, f, Red(q), pos) /\ f.cmd[1] = "none" /\ Top(q) = f
        BY <1>3, <1>4
    <2>2. PICK red : red = Red(q)
        OBVIOUS
    <2>3. PICK l : l = r.line
        OBVIOUS
    <2>4. ProgramAt(q, r, f, red, pos) /\ f.cmd[1] = "none" /\ i = f.cmd[2]
        BY <1>4, <2>1, <2>2
    <2>5. StreamsGo(q, r, l, i) /\ JoinsAt(r, i, pos)
        BY ONLY <2>2, <2>3, <2>4, ProgramGoes
    <2> QED BY <2>3, <2>5
<1>5. PICK r, i, l : r = proc[p] /\ i = Top(p).cmd[2] /\ l = proc[p].line
    OBVIOUS
<1>6. StreamsGo(p, r, l, i) /\ JoinsAt(r, i, pos)
    BY <1>1, <1>4, <1>5
<1>7. ASSUME NEW q \in Pids, RunsRegular(q), r.fd[0][1] = "read", proc[q].fd[1] = <<"write", r.fd[0][2]>>
      PROVE  Top(q).cmd[2] = i - 1
    <2>1. PICK k : r.fd[0] = <<"read", k>>
        BY <1>6, <1>7 DEF JoinsAt
    <2>2. pos[k] = i - 1 /\ proc[q].fd[1] = <<"write", k>>
        BY <1>6, <1>7, <2>1 DEF JoinsAt
    <2>3. PICK j, r2 : j = Top(q).cmd[2] /\ r2 = proc[q]
        OBVIOUS
    <2>4. JoinsAt(r2, j, pos)
        BY <1>4, <1>7, <2>3
    <2>5. pos[k] = j
        BY <2>2, <2>3, <2>4 DEF JoinsAt
    <2> QED BY <2>2, <2>3, <2>5
<1>8. JoinsOnce(r, i)
    BY <1>7 DEF JoinsOnce
<1> QED BY <1>5, <1>6, <1>8

(* Every program a line starts reads and writes what the line says, and a    *)
(* pipe joins the programs on both sides of one "|" and nobody else,         *)
(* whatever other commands of the line run at the time.                      *)
THEOREM StreamsAreRight == Spec => []Plumbing
<1>1. IInv => Plumbing
    BY PlumbingGood
<1> QED BY <1>1, AlwaysGood, PTL
=============================================================================
