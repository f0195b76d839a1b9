--------------------------- MODULE ChatServerProofs ---------------------------
(***************************************************************************)
(* Proofs about the file-sharing server, for every number of clients,      *)
(* users and commands: its types, that a visited descriptor has something  *)
(* to read, and that a list answers the request it was made for.           *)
(***************************************************************************)
EXTENDS ChatServerInv, TLAPS, FiniteSetTheorems, WellFoundedInduction

(* A non-empty set of naturals has a least element, which Min chooses. *)
LEMMA MinLeast ==
    ASSUME NEW S \in SUBSET Nat, S # {}
    PROVE  Min(S) \in S /\ \A x \in S : Min(S) <= x
<1> DEFINE R == {ss \in Nat \X Nat : ss[1] < ss[2]}
<1>1. IsWellFoundedOn(R, Nat)
    BY NatLessThanWellFounded DEF OpToRel
<1>2. \E x \in S : \A y \in S : ~ (<<y, x>> \in R)
    <2> HIDE DEF R
    <2> QED BY <1>1, WFMin
<1>3. \E x \in S : \A y \in S : x =< y
    <2>1. PICK x \in S : \A y \in S : ~ (<<y, x>> \in R)
        BY <1>2
    <2>2. \A y \in S : x \in Nat /\ y \in Nat /\ ~(y < x)
        BY <2>1
    <2> QED BY <2>2
<1> QED BY <1>3 DEF Min

(* What is left of a client's commands after a segment of k. *)
LEMMA SegmentRest ==
    ASSUME NEW S, NEW s \in Seq(S), NEW k \in 1 .. Len(s)
    PROVE  LET rest == SubSeq(s, k + 1, Len(s)) IN
           /\ rest \in Seq(S)
           /\ Len(rest) = Len(s) - k
           /\ \A i \in 1 .. Len(rest) : rest[i] = s[i + k]
OBVIOUS

(* The words that commands begin with tell them apart. *)
LEMMA CommandWords ==
    ASSUME NEW cmd \in Commands
    PROVE  /\ cmd[1] = "getuserlist" => cmd = Cmd("getuserlist")
           /\ cmd[1] = "getfilelist" => \E n \in Names : cmd = GetFiles(n)
BY DEF Commands, Login, GetFiles, Cmd

(* A recv of the server takes at least one command from the client's stream *)
(* and obeys the first; it takes only that one unless a command is lost.    *)
LEMMA ReceiveEffect ==
    ASSUME TypeOK, NEW c \in Clients, NEW cmd, Receive(c, cmd)
    PROVE  /\ Visits(fdOf[c]) /\ tmp_fds' = tmp_fds \ {fdOf[c]}
           /\ inbox[c] # <<>> /\ inbox' \in [Clients -> Seq(Commands)]
           /\ \A d \in Clients : d # c => inbox'[d] = inbox[d]
           /\ dropped' \in BOOLEAN /\ (dropped => dropped')
           /\ backlog' = backlog /\ UNCHANGED clientVars
           /\ ~dropped' =>
                /\ cmd = inbox[c][1]
                /\ Len(inbox'[c]) = Len(inbox[c]) - 1
                /\ \A i \in 1 .. Len(inbox'[c]) : inbox'[c][i] = inbox[c][i + 1]
<1>0. inbox \in [Clients -> Seq(Commands)] /\ dropped \in BOOLEAN
    BY DEF TypeOK, StreamTypes, HistoryTypes
<1>1. PICK k \in 1 .. Len(inbox[c]) :
        /\ cmd = Segment(c, k)
        /\ inbox' = [inbox EXCEPT ![c] = SubSeq(inbox[c], k + 1, Len(inbox[c]))]
        /\ dropped' = (dropped \/ k > 1)
    BY <1>0 DEF Receive
<1>2. /\ inbox[c] \in Seq(Commands) /\ k \in Nat /\ k >= 1 /\ inbox[c] # <<>>
      /\ SubSeq(inbox[c], k + 1, Len(inbox[c])) \in Seq(Commands)
    BY <1>0, <1>1, SegmentRest
<1>3. /\ Visits(fdOf[c]) /\ tmp_fds' = tmp_fds \ {fdOf[c]}
      /\ backlog' = backlog /\ UNCHANGED clientVars
    BY DEF Receive, Visited, Visits
<1>4. ~dropped' => k = 1
    <2>1. CASE k > 1
        BY <1>1, <2>1, Zenon
    <2>2. CASE ~(k > 1)
        BY <1>2, <2>2
    <2> QED BY <2>1, <2>2
<1>5. dropped' \in BOOLEAN /\ (dropped => dropped')
    BY <1>0, <1>1, Zenon
<1>6. ~dropped' =>
        /\ cmd = inbox[c][1]
        /\ Len(inbox'[c]) = Len(inbox[c]) - 1
        /\ \A i \in 1 .. Len(inbox'[c]) : inbox'[c][i] = inbox[c][i + 1]
    <2> SUFFICES ASSUME ~dropped'
                 PROVE  /\ cmd = inbox[c][1]
                        /\ Len(inbox'[c]) = Len(inbox[c]) - 1
                        /\ \A i \in 1 .. Len(inbox'[c]) : inbox'[c][i] = inbox[c][i + 1]
        OBVIOUS
    <2>1. k = 1 /\ cmd = inbox[c][1]
        BY <1>1, <1>4 DEF Segment
    <2>2. inbox'[c] = SubSeq(inbox[c], k + 1, Len(inbox[c]))
        BY <1>0, <1>1
    <2> QED BY <1>1, <1>2, <2>1, <2>2, SegmentRest
<1> QED BY <1>0, <1>1, <1>2, <1>3, <1>5, <1>6

(* open and accept answer the lowest descriptor that is free. *)
LEMMA LowestFreeIsFree ==
    ASSUME TypeOK, IsFiniteSet(leaked)
    PROVE  /\ LowestFree \in Nat /\ LowestFree >= FirstFree
           /\ LowestFree \notin leaked
           /\ \A c \in Clients : LowestFree # fdOf[c]
<1> DEFINE used == leaked \cup {fdOf[c] : c \in Clients}
           top  == FirstFree + Cardinality(Clients) + Cardinality(leaked)
<1>1. /\ Cardinality(Clients) \in Nat /\ Cardinality(leaked) \in Nat
      /\ IsFiniteSet(Clients)
    BY ChatAssumption, FS_CardinalityType
<1>2. IsFiniteSet({fdOf[c] : c \in Clients}) /\ Cardinality({fdOf[c] : c \in Clients}) <= Cardinality(Clients)
    <2>1. fdOf \in Surjection(Clients, {fdOf[c] : c \in Clients})
        BY DEF Surjection, TypeOK, ServerTypes
    <2> QED BY <1>1, <2>1, FS_Surjection
<1>3. IsFiniteSet(used) /\ Cardinality(used) <= Cardinality(leaked) + Cardinality(Clients)
    <2>1. Cardinality(used) = Cardinality(leaked) + Cardinality({fdOf[c] : c \in Clients})
                                - Cardinality(leaked \cap {fdOf[c] : c \in Clients})
        BY <1>2, FS_Union
    <2>2. Cardinality(leaked \cap {fdOf[c] : c \in Clients}) \in Nat
        BY FS_Intersection, FS_CardinalityType
    <2>3. Cardinality({fdOf[c] : c \in Clients}) \in Nat
        BY <1>2, FS_CardinalityType
    <2> QED BY <1>1, <1>2, <2>1, <2>2, <2>3, FS_Union
<1>4. Cardinality(FirstFree .. top) = Cardinality(Clients) + Cardinality(leaked) + 1
    BY <1>1, FS_Interval DEF FirstFree
<1>5. (FirstFree .. top) \ used # {}
    <2> SUFFICES ASSUME (FirstFree .. top) \ used = {} PROVE FALSE
        OBVIOUS
    <2>1. (FirstFree .. top) \in SUBSET used
        OBVIOUS
    <2>2. Cardinality(FirstFree .. top) <= Cardinality(used)
        <3> HIDE DEF used, top
        <3> QED BY <2>1, <1>3, FS_Subset
    <2>3. Cardinality(used) \in Nat
        BY <1>3, FS_CardinalityType
    <2> QED BY <1>1, <1>3, <1>4, <2>2, <2>3
<1>6. (FirstFree .. top) \ used \in SUBSET Nat
    BY <1>1 DEF FirstFree
<1>7. Min((FirstFree .. top) \ used) \in (FirstFree .. top) \ used
    <2> HIDE DEF used, top
    <2> QED BY <1>5, <1>6, MinLeast
<1>8. LowestFree \in (FirstFree .. top) \ used
    BY <1>7 DEF LowestFree
<1> QED BY <1>1, <1>8 DEF FirstFree

-----------------------------------------------------------------------------
(* The types. *)

(* What a recv changes keeps its type. *)
LEMMA ReceiveTypes ==
    ASSUME TypeOK, NEW c \in Clients, NEW cmd, Receive(c, cmd)
    PROVE  /\ ClientTypes'
           /\ backlog' \in Seq(Clients) /\ tmp_fds' \subseteq Nat
           /\ inbox' \in [Clients -> Seq(Commands)]
           /\ dropped' \in BOOLEAN /\ failed' \in [Clients -> Nat]
<1>1. ClientTypes'
    BY ReceiveEffect DEF TypeOK, ClientTypes, clientVars
<1>2. backlog' \in Seq(Clients) /\ tmp_fds' \subseteq Nat
    BY ReceiveEffect DEF TypeOK, ServerTypes
<1>3. failed' \in [Clients -> Nat]
    BY DEF Receive, TypeOK, HistoryTypes
<1>4. inbox' \in [Clients -> Seq(Commands)] /\ dropped' \in BOOLEAN
    BY ReceiveEffect
<1> QED BY <1>1, <1>2, <1>3, <1>4

(* Appending a reply keeps the type of the connections. *)
LEMMA SendType ==
    ASSUME TypeOK, NEW c \in Clients, NEW kind \in Replies,
           NEW content \in Names \cup {None}, Send(c, kind, content)
    PROVE  outbox' \in [Clients -> Seq(Messages)]
<1>1. <<kind, content>> \in Messages
    BY DEF Messages
<1>2. outbox \in [Clients -> Seq(Messages)]
    BY DEF TypeOK, StreamTypes
<1>3. outbox' = [outbox EXCEPT ![c] = Append(outbox[c], <<kind, content>>)]
    BY <1>2 DEF Send
<1>4. Append(outbox[c], <<kind, content>>) \in Seq(Messages)
    BY <1>1, <1>2
<1> QED BY <1>2, <1>3, <1>4

(* So does taking one, which is a reply and what it carries. *)
LEMMA TakeType ==
    ASSUME TypeOK, NEW c \in Clients, outbox[c] # <<>>
    PROVE  /\ Head(outbox[c])[1] \in Replies
           /\ [outbox EXCEPT ![c] = Tail(@)] \in [Clients -> Seq(Messages)]
<1>1. outbox \in [Clients -> Seq(Messages)]
    BY DEF TypeOK, StreamTypes
<1>2. outbox[c] \in Seq(Messages)
    BY <1>1
<1>3. Head(outbox[c]) \in Messages /\ Tail(outbox[c]) \in Seq(Messages)
    BY <1>2
<1> QED BY <1>1, <1>3 DEF Messages

(* And so does what a client sends. *)
LEMMA ClientSendType ==
    ASSUME TypeOK, NEW c \in Clients, NEW cmd \in Commands, ClientSend(c, cmd)
    PROVE  inbox' \in [Clients -> Seq(Commands)]
<1>1. inbox \in [Clients -> Seq(Commands)]
    BY DEF TypeOK, StreamTypes
<1>2. Append(inbox[c], cmd) \in Seq(Commands)
    BY <1>1
<1> QED BY <1>1, <1>2 DEF ClientSend

(* The counters of wrong logins stay below three. *)
LEMMA ResetType ==
    ASSUME TypeOK, NEW fd \in Nat
    PROVE  /\ Slot(fd) \in 0 .. N - 1
           /\ Reset(fd) => client_attempts' \in [0 .. N - 1 -> 0 .. 2]
<1>1. fd % N \in 0 .. N - 1
    <2>1. N \in Nat /\ N > 0
        BY ChatAssumption
    <2> QED BY <2>1
<1>2. client_attempts \in [0 .. N - 1 -> 0 .. 2]
    BY DEF TypeOK, GlobalTypes
<1>3. ASSUME Reset(fd) PROVE client_attempts' \in [0 .. N - 1 -> 0 .. 2]
    <2>1. client_attempts' = [client_attempts EXCEPT ![Slot(fd)] = 0]
        BY <1>3 DEF Reset
    <2>2. 0 \in 0 .. 2
        OBVIOUS
    <2> QED BY <1>2, <2>1, <2>2
<1> QED BY <1>1, <1>3 DEF Slot

(* The commands that the programs and the server name. *)
LEMMA NamedCommands ==
    /\ Login("right") \in Commands /\ Login("wrong") \in Commands
    /\ \A op \in {"logout", "getuserlist", "quit", "other", "users", "files"} :
        Cmd(op) \in Commands
    /\ \A n \in Names : GetFiles(n) \in Commands
BY DEF Commands

(* Closing a descriptor keeps the types of the descriptors. *)
LEMMA CloseType ==
    ASSUME TypeOK, NEW c \in Clients, CloseFd(c) \/ UNCHANGED fdOf
    PROVE  fdOf' \in [Clients -> Nat]
<1>1. fdOf \in [Clients -> Nat] /\ 0 \in Nat
    BY DEF TypeOK, ServerTypes
<1>2. CASE CloseFd(c)
    BY <1>1, <1>2 DEF CloseFd
<1>3. CASE UNCHANGED fdOf
    BY <1>1, <1>3
<1> QED BY <1>2, <1>3

LEMMA TypeStep == LoopInv /\ [Next]_vars => TypeOK'
<1> SUFFICES ASSUME LoopInv, [Next]_vars PROVE TypeOK'
    OBVIOUS
<1> USE DEF server, globals, clientVars, history
<1>0. /\ TypeOK /\ IsFiniteSet(leaked)
      /\ \A c \in Clients : fdOf[c] \in Nat
      /\ LowestFree \in Nat /\ sockfd \in Nat
    BY LowestFreeIsFree DEF LoopInv, InvFds, TypeOK, ServerTypes, sockfd
<1>t. ServerTypes /\ GlobalTypes /\ StreamTypes /\ ClientTypes /\ HistoryTypes
    BY <1>0 DEF TypeOK
<1>1. CASE select
    <2>1. ReadyFds \subseteq Nat
        BY <1>0 DEF ReadyFds
    <2>2. ServerTypes'
        BY <1>t, <1>1, <2>1 DEF select, ServerTypes
    <2> QED BY <1>t, <1>1, <2>2 DEF select, TypeOK, GlobalTypes, StreamTypes, ClientTypes, HistoryTypes
<1>2. CASE accept
    <2>1. backlog # <<>> /\ Head(backlog) \in Clients /\ Tail(backlog) \in Seq(Clients)
        <3>1. sockfd \in tmp_fds
            BY <1>t, <1>2, MinLeast DEF accept, Visits, ServerTypes
        <3>2. backlog # <<>>
            BY <1>0, <3>1 DEF LoopInv, ReadyStaysReady, InvFds, sockfd, FirstFree, Readable
        <3>3. backlog \in Seq(Clients)
            BY <1>t DEF ServerTypes
        <3> QED BY <3>2, <3>3
    <2>2. ServerTypes'
        BY <1>0, <1>t, <1>2, <2>1 DEF accept, Visited, ServerTypes
    <2>3. GlobalTypes'
        BY <1>0, <1>t, <1>2, ResetType DEF accept, GlobalTypes
    <2>4. HistoryTypes'
        BY <1>t, <1>2, <2>1 DEF accept, HistoryTypes
    <2> QED BY <1>t, <1>2, <2>2, <2>3, <2>4 DEF accept, TypeOK, StreamTypes, ClientTypes
<1>3. ASSUME NEW c \in Clients, hang_up(c) PROVE TypeOK'
    <2>0. fdOf' \in [Clients -> Nat]
        BY <1>0, <1>3, CloseType DEF hang_up
    <2>1. ServerTypes'
        BY <1>t, <1>3, <2>0 DEF hang_up, Visited, ServerTypes
    <2> QED BY <1>t, <1>3, <2>1 DEF hang_up, TypeOK, GlobalTypes, StreamTypes, ClientTypes, HistoryTypes
<1>4. ASSUME NEW c \in Clients, login(c) PROVE TypeOK'
    <2> DEFINE attempts == client_attempts[Slot(fdOf[c])] + 1
    <2>1. PICK cmd : Receive(c, cmd)
        BY <1>4 DEF login
    <2>a. fdOf' \in [Clients -> Nat]
        BY <1>0, <1>4, CloseType DEF login
    <2>b. UNCHANGED <<status, leaked>>
        BY <1>4 DEF login
    <2>2. ServerTypes'
        BY <1>0, <1>t, <2>1, <2>a, <2>b, ReceiveTypes DEF ServerTypes
    <2>3. GlobalTypes'
        <3>0. Slot(fdOf[c]) \in 0 .. N - 1 /\ client_attempts[Slot(fdOf[c])] \in 0 .. 2
            BY <1>0, <1>t, ResetType DEF GlobalTypes
        <3>1. attempts \in 1 .. 3
            BY <3>0
        <3>2. CASE UNCHANGED client_attempts
            BY <1>t, <1>4, <3>2 DEF login, GlobalTypes
        <3>3. CASE Reset(fdOf[c])
            BY <1>0, <1>t, <1>4, <3>3, ResetType DEF login, GlobalTypes
        <3>4. CASE /\ ~BruteForce(attempts)
                   /\ client_attempts' = [client_attempts EXCEPT ![Slot(fdOf[c])] = attempts]
            <4>1. attempts \in 0 .. 2 /\ client_attempts \in [0 .. N - 1 -> 0 .. 2]
                BY <1>t, <3>1, <3>4 DEF BruteForce, GlobalTypes
            <4>2. client_attempts' \in [0 .. N - 1 -> 0 .. 2]
                BY <3>4, <4>1
            <4>3. UNCHANGED <<list, flist, eroare>>
                BY <1>4 DEF login
            <4> QED BY <1>t, <4>2, <4>3 DEF GlobalTypes
        <3> QED BY <1>4, <3>2, <3>3, <3>4 DEF login
    <2>4. StreamTypes'
        BY <1>0, <1>t, <1>4, <2>1, ReceiveTypes, SendType DEF login, StreamTypes, Replies
    <2>5. HistoryTypes'
        BY <1>0, <1>t, <1>4, <2>1, ReceiveTypes DEF login, HistoryTypes
    <2> QED BY <1>0, <2>1, <2>2, <2>3, <2>4, <2>5, ReceiveTypes DEF TypeOK
<1>5. ASSUME NEW c \in Clients, logout(c) PROVE TypeOK'
    <2>1. Receive(c, Cmd("logout"))
        BY <1>5 DEF logout
    <2>2. ServerTypes'
        BY <1>0, <1>t, <1>5, <2>1, ReceiveTypes DEF logout, ServerTypes
    <2>3. GlobalTypes'
        BY <1>0, <1>t, <1>5, ResetType DEF logout, GlobalTypes
    <2>4. StreamTypes'
        BY <1>0, <1>t, <1>5, <2>1, ReceiveTypes, SendType DEF logout, StreamTypes, Replies
    <2>5. HistoryTypes'
        BY <1>0, <1>t, <1>5, <2>1, ReceiveTypes, NamedCommands DEF logout, HistoryTypes
    <2> QED BY <1>0, <2>1, <2>2, <2>3, <2>4, <2>5, ReceiveTypes DEF TypeOK
<1>6. ASSUME NEW c \in Clients, getuserlist(c) PROVE TypeOK'
    <2>1. Receive(c, Cmd("getuserlist"))
        BY <1>6 DEF getuserlist
    <2>2. ServerTypes'
        BY <1>0, <1>t, <1>6, <2>1, ReceiveTypes DEF getuserlist, ServerTypes
    <2>3. GlobalTypes'
        BY <1>0, <1>t, <1>6, ResetType DEF getuserlist, GlobalTypes
    <2>4. StreamTypes'
        BY <1>0, <1>t, <1>6, <2>1, ReceiveTypes, SendType DEF getuserlist, StreamTypes, Replies
    <2>5. HistoryTypes'
        BY <1>0, <1>t, <1>6, <2>1, ReceiveTypes, NamedCommands DEF getuserlist, Begin, HistoryTypes
    <2> QED BY <1>0, <2>1, <2>2, <2>3, <2>4, <2>5, ReceiveTypes DEF TypeOK
<1>7. ASSUME NEW c \in Clients, getfilelist(c) PROVE TypeOK'
    <2>1. PICK cmd : Receive(c, cmd)
        BY <1>7 DEF getfilelist
    <2>2. ServerTypes'
        BY <1>0, <1>t, <1>7, <2>1, ReceiveTypes DEF getfilelist, ServerTypes
    <2>3. GlobalTypes'
        BY <1>0, <1>t, <1>7, ResetType DEF getfilelist, GlobalTypes
    <2>4. StreamTypes'
        BY <1>0, <1>t, <1>7, <2>1, ReceiveTypes, SendType DEF getfilelist, Refuse, StreamTypes, Replies
    <2>5. HistoryTypes'
        BY <1>0, <1>t, <1>7, <2>1, ReceiveTypes, NamedCommands DEF getfilelist, Begin, HistoryTypes
    <2> QED BY <1>0, <2>1, <2>2, <2>3, <2>4, <2>5, ReceiveTypes DEF TypeOK
<1>8. ASSUME NEW c \in Clients, users(c) PROVE TypeOK'
    <2>1. Receive(c, Cmd("users"))
        BY <1>8 DEF users
    <2>2. ServerTypes'
        BY <1>0, <1>t, <1>8, <2>1, ReceiveTypes DEF users, ServerTypes
    <2>3. GlobalTypes'
        BY <1>0, <1>t, <1>8, ResetType DEF users, GlobalTypes
    <2>4. StreamTypes'
        BY <1>0, <1>t, <1>8, <2>1, ReceiveTypes, SendType DEF users, StreamTypes, Replies
    <2>5. HistoryTypes'
        BY <1>0, <1>t, <1>8, <2>1, ReceiveTypes, NamedCommands DEF users, Finish, HistoryTypes
    <2> QED BY <1>0, <2>1, <2>2, <2>3, <2>4, <2>5, ReceiveTypes DEF TypeOK
<1>9. ASSUME NEW c \in Clients, files(c) PROVE TypeOK'
    <2>1. Receive(c, Cmd("files"))
        BY <1>9 DEF files
    <2>2. ServerTypes'
        BY <1>0, <1>t, <1>9, <2>1, ReceiveTypes DEF files, ServerTypes
    <2>3. GlobalTypes'
        BY <1>0, <1>t, <1>9, ResetType DEF files, ForgetFiles, GlobalTypes
    <2>a. outbox' \in [Clients -> Seq(Messages)]
        <3>1. CASE Refuse(c)
            BY <1>0, <3>1, SendType DEF Refuse, Replies
        <3>2. CASE Send(c, "list", flist)
            BY <1>0, <1>t, <3>2, SendType DEF GlobalTypes, Replies
        <3>3. CASE UNCHANGED outbox
            BY <1>t, <3>3 DEF StreamTypes
        <3> QED BY <1>9, <3>1, <3>2, <3>3 DEF files
    <2>4. StreamTypes'
        BY <1>0, <2>1, <2>a, ReceiveTypes DEF StreamTypes
    <2>5. HistoryTypes'
        BY <1>0, <1>t, <1>9, <2>1, ReceiveTypes, NamedCommands DEF files, Finish, HistoryTypes
    <2> QED BY <1>0, <2>1, <2>2, <2>3, <2>4, <2>5, ReceiveTypes DEF TypeOK
<1>10. ASSUME NEW c \in Clients, quit(c) PROVE TypeOK'
    <2>1. Receive(c, Cmd("quit"))
        BY <1>10 DEF quit
    <2>2. ServerTypes'
        BY <1>0, <1>t, <1>10, <2>1, ReceiveTypes DEF quit, CloseFd, ServerTypes
    <2>3. GlobalTypes'
        BY <1>0, <1>t, <1>10, ResetType DEF quit, GlobalTypes
    <2>4. StreamTypes'
        BY <1>0, <1>t, <1>10, <2>1, ReceiveTypes, SendType DEF quit, StreamTypes, Replies
    <2>5. HistoryTypes'
        BY <1>0, <1>t, <1>10, <2>1, ReceiveTypes, NamedCommands DEF quit, HistoryTypes
    <2> QED BY <1>0, <2>1, <2>2, <2>3, <2>4, <2>5, ReceiveTypes DEF TypeOK
<1>11. ASSUME NEW c \in Clients, other(c) PROVE TypeOK'
    <2>1. Receive(c, Cmd("other"))
        BY <1>11 DEF other
    <2>2. ServerTypes'
        BY <1>0, <1>t, <1>11, <2>1, ReceiveTypes DEF other, ServerTypes
    <2>3. GlobalTypes'
        BY <1>0, <1>t, <1>11, ResetType DEF other, GlobalTypes
    <2>4. StreamTypes'
        BY <1>0, <1>t, <1>11, <2>1, ReceiveTypes, SendType DEF other, StreamTypes, Replies
    <2>5. HistoryTypes'
        BY <1>0, <1>t, <1>11, <2>1, ReceiveTypes, NamedCommands DEF other, HistoryTypes
    <2> QED BY <1>0, <2>1, <2>2, <2>3, <2>4, <2>5, ReceiveTypes DEF TypeOK
<1>12. ASSUME NEW c \in Clients, connect(c) PROVE TypeOK'
    <2>1. ServerTypes' /\ StreamTypes'
        BY <1>t, <1>12 DEF connect, ServerTypes, StreamTypes
    <2>2. ClientTypes'
        BY <1>t, <1>12 DEF connect, ClearLocals, ClientTypes
    <2> QED BY <1>t, <1>12, <2>1, <2>2 DEF connect, TypeOK, GlobalTypes, HistoryTypes
<1>13. ASSUME NEW c \in Clients, receive_size(c) PROVE TypeOK'
    <2>1. StreamTypes'
        BY <1>0, <1>t, <1>13, ClientSendType, TakeType, NamedCommands DEF receive_size, StreamTypes
    <2>2. ClientTypes'
        BY <1>0, <1>t, <1>13, TakeType DEF receive_size, ClientTypes
    <2> QED BY <1>t, <1>13, <2>1, <2>2 DEF receive_size, TypeOK, ServerTypes, GlobalTypes, HistoryTypes
<1>14. ASSUME NEW c \in Clients, receive_reply(c) PROVE TypeOK'
    <2>1. StreamTypes'
        BY <1>0, <1>t, <1>14, TakeType DEF receive_reply, StreamTypes
    <2>2. ClientTypes'
        BY <1>0, <1>t, <1>14, TakeType DEF receive_reply, ClientTypes
    <2> QED BY <1>t, <1>14, <2>1, <2>2 DEF receive_reply, TypeOK, ServerTypes, GlobalTypes, HistoryTypes
<1>15. ASSUME NEW c \in Clients, kill(c) PROVE TypeOK'
    <2>1. ClientTypes'
        BY <1>t, <1>15 DEF kill, ClearLocals, ClientTypes
    <2> QED BY <1>t, <1>15, <2>1 DEF kill, TypeOK, ServerTypes, GlobalTypes, StreamTypes, HistoryTypes
<1>16. ASSUME NEW c \in Clients, NEW cmd \in Typed[c], type_refused(c, cmd) \/ type_sent(c, cmd)
       PROVE  TypeOK'
    <2>1. cmd \in Commands /\ cmd[1] \in Words
        BY TypedAssumption DEF Words
    <2>2. TypeLine(c, cmd)
        BY <1>16 DEF type_refused, type_sent
    <2>3. /\ typed' \in 0 .. MaxTyped
          /\ command' \in [Clients -> Words \cup {None}]
          /\ buffer' \in [Clients -> Replies \cup {None}]
        BY <1>t, <2>1, <2>2, ChatAssumption DEF TypeLine, ClientTypes
    <2>4. ClientTypes'
        BY <1>t, <1>16, <2>3 DEF type_refused, type_sent, ClientTypes
    <2>5. StreamTypes'
        BY <1>0, <1>t, <1>16, <2>1, <2>2, ClientSendType DEF type_refused, type_sent, TypeLine, StreamTypes
    <2> QED BY <1>t, <2>2, <2>4, <2>5 DEF TypeLine, TypeOK, ServerTypes, GlobalTypes, HistoryTypes
<1>17. CASE UNCHANGED vars
    BY <1>t, <1>17 DEF vars, TypeOK, ServerTypes, GlobalTypes, StreamTypes, ClientTypes, HistoryTypes
<1> QED BY <1>1, <1>2, <1>3, <1>4, <1>5, <1>6, <1>7, <1>8, <1>9, <1>10, <1>11, <1>12,
           <1>13, <1>14, <1>15, <1>16, <1>17 DEF Next, ServerStep, ClientStep

-----------------------------------------------------------------------------
(* The loop over the ready descriptors. *)

(* The descriptor the loop visits, when it is not the listening one, is     *)
(* open and has something to read.                                          *)
LEMMA VisitedIsReady ==
    ASSUME LoopInv, NEW c \in Clients, Visits(fdOf[c])
    PROVE  fdOf[c] \in tmp_fds /\ fdOf[c] # 0 /\ fdOf[c] # sockfd /\ Readable(c)
<1>1. fdOf[c] \in tmp_fds
    BY MinLeast DEF Visits, LoopInv, TypeOK, ServerTypes
<1>2. sockfd # 0 /\ fdOf[c] # sockfd
    <2>1. fdOf[c] \in Nat /\ (fdOf[c] # 0 => fdOf[c] >= FirstFree)
        BY DEF LoopInv, InvFds, TypeOK, ServerTypes
    <2> QED BY <2>1 DEF sockfd, FirstFree
<1>3. PICK d \in Clients : fdOf[d] = fdOf[c] /\ Readable(d)
    BY <1>1, <1>2 DEF LoopInv, ReadyStaysReady
<1>4. fdOf[c] # 0 /\ c = d
    BY <1>3 DEF LoopInv, ReadyStaysReady, Readable
<1> QED BY <1>1, <1>2, <1>3, <1>4

(* accept finds a connection. *)
LEMMA AcceptHasOne == LoopInv /\ Visits(sockfd) => backlog # <<>>
<1> SUFFICES ASSUME LoopInv, Visits(sockfd) PROVE backlog # <<>>
    OBVIOUS
<1>0. /\ TypeOK /\ ReadyStaysReady /\ InvFds
      /\ fdOf \in [Clients -> Nat] /\ tmp_fds \in SUBSET Nat
    BY DEF LoopInv, TypeOK, ServerTypes
<1>1. sockfd \in tmp_fds
    BY <1>0, MinLeast DEF Visits
<1> QED BY <1>0, <1>1 DEF ReadyStaysReady, InvFds, sockfd, FirstFree, Readable

(* Serving a client touches no other client's connection. *)
LEMMA ServingKeeps ==
    ASSUME LoopInv, NEW c \in Clients, Visits(fdOf[c]),
           tmp_fds' = tmp_fds \ {fdOf[c]}, backlog' = backlog, pc' = pc,
           \A d \in Clients : d # c => inbox'[d] = inbox[d],
           CloseFd(c) \/ UNCHANGED fdOf,
           leaked' = leaked \cup {LowestFree} \/ UNCHANGED leaked
    PROVE  ReadyStaysReady' /\ InvFds'
<1>0. /\ TypeOK /\ IsFiniteSet(leaked) /\ fdOf \in [Clients -> Nat]
      /\ backlog \in Seq(Clients)
    BY DEF LoopInv, InvFds, TypeOK, ServerTypes
<1>1. \A d \in Clients : fdOf'[d] = fdOf[d] \/ (d = c /\ fdOf'[d] = 0)
    <2>1. CASE CloseFd(c)
        BY <1>0, <2>1 DEF CloseFd
    <2> QED BY <2>1
<1>2. \A d \in Clients : d # c => fdOf'[d] = fdOf[d]
    BY <1>1
<1>3. IsFiniteSet(leaked') /\ \A fd \in leaked' : fd \in leaked \/ fd = LowestFree
    BY <1>0, FS_AddElement
<1>4. \A d \in Clients : fdOf[d] # LowestFree
    BY <1>0, LowestFreeIsFree
<1>5. \A d, e \in Clients :
        fdOf'[d] # 0 => fdOf'[d] \notin leaked' /\ (d # e => fdOf'[d] # fdOf'[e])
    BY <1>1, <1>3, <1>4 DEF LoopInv, ReadyStaysReady
<1>6. ASSUME NEW fd \in tmp_fds'
      PROVE  \/ fd = sockfd /\ backlog' # <<>>
             \/ \E d \in Clients : fdOf'[d] = fd /\ Readable(d)'
    <2>1. CASE fd = sockfd /\ backlog # <<>>
        BY <2>1
    <2>2. CASE \E d \in Clients : fdOf[d] = fd /\ Readable(d)
        <3>1. PICK d \in Clients : fdOf[d] = fd /\ Readable(d)
            BY <2>2
        <3>2. d # c
            BY <1>6, <3>1
        <3> QED BY <1>2, <3>1, <3>2 DEF Readable, Ended
    <2> QED BY <1>6, <2>1, <2>2 DEF LoopInv, ReadyStaysReady
<1>7. InvFds'
    <2>1. \A d \in Clients : fdOf'[d] # 0 => fdOf'[d] >= FirstFree
        BY <1>1 DEF LoopInv, InvFds
    <2>2. \A i, j \in DOMAIN backlog :
            fdOf'[backlog[i]] = 0 /\ (backlog[i] = backlog[j] => i = j)
        BY <1>0, <1>1 DEF LoopInv, InvFds
    <2> QED BY <1>3, <2>1, <2>2 DEF InvFds
<1> QED BY <1>5, <1>6, <1>7 DEF ReadyStaysReady

(* A client's step takes nothing from what the server will find to read. *)
LEMMA ClientKeeps ==
    ASSUME LoopInv, UNCHANGED <<fdOf, tmp_fds, leaked>>,
           backlog' = backlog \/ \E c \in Clients :
                backlog' = Append(backlog, c) /\ fdOf[c] = 0
                /\ \A i \in DOMAIN backlog : backlog[i] # c,
           \A d \in Clients : Readable(d) => Readable(d)'
    PROVE  ReadyStaysReady' /\ InvFds'
<1>0. backlog \in Seq(Clients)
    BY DEF LoopInv, TypeOK, ServerTypes
<1>1. backlog # <<>> => backlog' # <<>>
    BY <1>0
<1>2. ReadyStaysReady'
    BY <1>1 DEF LoopInv, ReadyStaysReady
<1>3. \A i, j \in DOMAIN backlog' :
        fdOf[backlog'[i]] = 0 /\ (backlog'[i] = backlog'[j] => i = j)
    <2>1. CASE backlog' = backlog
        BY <2>1 DEF LoopInv, InvFds
    <2>2. CASE backlog' # backlog
        <3>1. PICK c \in Clients : /\ backlog' = Append(backlog, c) /\ fdOf[c] = 0
                                   /\ \A i \in DOMAIN backlog : backlog[i] # c
            BY <2>2
        <3>2. \A i \in DOMAIN backlog' :
                \/ i \in DOMAIN backlog /\ backlog'[i] = backlog[i]
                \/ i = Len(backlog) + 1 /\ backlog'[i] = c
            BY <1>0, <3>1
        <3> QED BY <3>1, <3>2 DEF LoopInv, InvFds
    <2> QED BY <2>1, <2>2
<1> QED BY <1>2, <1>3 DEF LoopInv, InvFds

LEMMA LoopStep == LoopInv /\ [Next]_vars => LoopInv'
<1> SUFFICES ASSUME LoopInv, [Next]_vars PROVE ReadyStaysReady' /\ InvFds'
    BY TypeStep DEF LoopInv
<1> USE DEF server, globals, clientVars, history
<1>0. /\ TypeOK /\ ReadyStaysReady /\ InvFds
      /\ fdOf \in [Clients -> Nat] /\ backlog \in Seq(Clients)
      /\ inbox \in [Clients -> Seq(Commands)]
    BY DEF LoopInv, TypeOK, ServerTypes, StreamTypes
<1>1. CASE select
    <2>1. \A fd \in ReadyFds : \/ fd = sockfd /\ backlog # <<>>
                               \/ \E c \in Clients : fdOf[c] = fd /\ Readable(c)
        BY DEF ReadyFds
    <2>2. tmp_fds' = ReadyFds /\ UNCHANGED <<fdOf, leaked, backlog, inbox, pc>>
        BY <1>1 DEF select
    <2>3. ReadyStaysReady'
        BY <1>0, <2>1, <2>2 DEF ReadyStaysReady, Readable, Ended
    <2> QED BY <1>0, <2>2, <2>3 DEF InvFds
<1>2. CASE accept
    <2>1. tmp_fds' = tmp_fds \ {sockfd} /\ UNCHANGED <<leaked, inbox, pc>>
        BY <1>2 DEF accept, Visits, Visited
    <2>3. backlog # <<>>
        BY <1>2, AcceptHasOne DEF accept
    <2> DEFINE new == Head(backlog)
    <2>4. /\ new \in Clients /\ backlog' = Tail(backlog)
          /\ new = backlog[1] /\ 1 \in DOMAIN backlog
        BY <1>0, <1>2, <2>3 DEF accept
    <2>5. \A i \in DOMAIN backlog' : /\ i + 1 \in DOMAIN backlog
                                     /\ backlog'[i] = backlog[i + 1] /\ i + 1 # 1
        BY <1>0, <2>3, <2>4
    <2>6. fdOf[new] = 0 /\ \A i \in DOMAIN backlog' : backlog'[i] # new
        BY <1>0, <2>4, <2>5 DEF InvFds
    <2> HIDE DEF new
    <2>7. fdOf' = [fdOf EXCEPT ![new] = LowestFree]
        BY <1>2 DEF accept, new
    <2>8. /\ LowestFree \in Nat /\ LowestFree >= FirstFree /\ LowestFree \notin leaked
          /\ \A c \in Clients : LowestFree # fdOf[c]
        BY <1>0, LowestFreeIsFree DEF InvFds
    <2>9. /\ fdOf'[new] = LowestFree
          /\ \A c \in Clients : c # new => fdOf'[c] = fdOf[c]
        BY <1>0, <2>4, <2>7
    <2>10. ReadyStaysReady'
        <3>1. \A c, d \in Clients :
            fdOf'[c] # 0 => fdOf'[c] \notin leaked' /\ (c # d => fdOf'[c] # fdOf'[d])
            BY <1>0, <2>1, <2>8, <2>9 DEF ReadyStaysReady
        <3>2. ASSUME NEW fd \in tmp_fds'
              PROVE  \E c \in Clients : fdOf'[c] = fd /\ Readable(c)'
            <4>1. PICK c \in Clients : fdOf[c] = fd /\ Readable(c)
                BY <1>0, <2>1, <3>2 DEF ReadyStaysReady
            <4>2. c # new
                BY <2>6, <4>1 DEF Readable
            <4> QED BY <2>1, <2>9, <4>1, <4>2 DEF Readable, Ended
        <3> QED BY <3>1, <3>2 DEF ReadyStaysReady
    <2>11. InvFds'
        <3>1. \A c \in Clients : fdOf'[c] # 0 => fdOf'[c] >= FirstFree
            BY <1>0, <2>8, <2>9 DEF InvFds
        <3>2. \A i \in DOMAIN backlog' : backlog'[i] \in Clients /\ fdOf'[backlog'[i]] = 0
            BY <1>0, <2>5, <2>6, <2>9 DEF InvFds
        <3>3. \A i, j \in DOMAIN backlog' : i \in Nat /\ j \in Nat /\ (backlog'[i] = backlog'[j] => i = j)
            <4>1. DOMAIN backlog' \subseteq Nat
                BY <1>0, <2>3, <2>4
            <4> QED BY <1>0, <2>5, <4>1 DEF InvFds
        <3> QED BY <1>0, <2>1, <3>1, <3>2, <3>3 DEF InvFds
    <2> QED BY <2>10, <2>11
<1>3. ASSUME NEW c \in Clients, hang_up(c) PROVE ReadyStaysReady' /\ InvFds'
    <2>1. /\ Visits(fdOf[c]) /\ tmp_fds' = tmp_fds \ {fdOf[c]}
          /\ CloseFd(c) \/ UNCHANGED fdOf
          /\ UNCHANGED <<backlog, leaked, inbox, pc>>
        BY <1>3 DEF hang_up, Visits, Visited
    <2> QED BY <2>1, ServingKeeps
<1>4. ASSUME NEW c \in Clients, NEW cmd, Receive(c, cmd), CloseFd(c) \/ UNCHANGED fdOf,
             leaked' = leaked \cup {LowestFree} \/ UNCHANGED leaked
      PROVE  ReadyStaysReady' /\ InvFds'
    <2>1. /\ Visits(fdOf[c]) /\ tmp_fds' = tmp_fds \ {fdOf[c]}
          /\ backlog' = backlog /\ pc' = pc
          /\ \A d \in Clients : d # c => inbox'[d] = inbox[d]
        BY <1>0, <1>4, ReceiveEffect
    <2> QED BY <1>4, <2>1, ServingKeeps
<1>5. ASSUME NEW c \in Clients,
             \/ login(c) \/ logout(c) \/ getuserlist(c) \/ getfilelist(c)
             \/ users(c) \/ files(c) \/ quit(c) \/ other(c)
      PROVE  ReadyStaysReady' /\ InvFds'
    <2>1. /\ \E cmd : Receive(c, cmd)
          /\ CloseFd(c) \/ UNCHANGED fdOf
          /\ leaked' = leaked \cup {LowestFree} \/ UNCHANGED leaked
        <3>1. CASE login(c)
            BY <3>1 DEF login
        <3>2. CASE logout(c)
            BY <3>2 DEF logout
        <3>3. CASE getuserlist(c)
            BY <3>3 DEF getuserlist
        <3>4. CASE getfilelist(c)
            BY <3>4 DEF getfilelist
        <3>5. CASE users(c)
            BY <3>5 DEF users
        <3>6. CASE files(c)
            BY <3>6 DEF files
        <3>7. CASE quit(c)
            BY <3>7 DEF quit
        <3>8. CASE other(c)
            BY <3>8 DEF other
        <3> QED BY <1>5, <3>1, <3>2, <3>3, <3>4, <3>5, <3>6, <3>7, <3>8
    <2> QED BY <1>4, <2>1
<1>s. ASSUME NEW c \in Clients, NEW cmd \in Commands, ClientSend(c, cmd)
      PROVE  \A d \in Clients : inbox[d] # <<>> => inbox'[d] # <<>>
    <2>1. \A d \in Clients : inbox'[d] = inbox[d] \/ inbox'[d] = Append(inbox[d], cmd)
        BY <1>0, <1>s DEF ClientSend
    <2> QED BY <1>0, <2>1
<1>6. ASSUME NEW c \in Clients, connect(c) PROVE ReadyStaysReady' /\ InvFds'
    <2>1. /\ UNCHANGED <<fdOf, tmp_fds, leaked>>
          /\ backlog' = Append(backlog, c) /\ fdOf[c] = 0
          /\ \A i \in DOMAIN backlog : backlog[i] # c
        BY <1>6 DEF connect, Connected
    <2>2. \A d \in Clients : d # c => inbox'[d] = inbox[d] /\ pc'[d] = pc[d]
        BY <1>0, <1>6 DEF connect, TypeOK, ClientTypes
    <2>3. \A d \in Clients : Readable(d) => Readable(d)'
        BY <2>1, <2>2 DEF Readable, Ended
    <2> QED BY <2>1, <2>3, ClientKeeps
<1>7. ASSUME NEW c \in Clients, receive_size(c) PROVE ReadyStaysReady' /\ InvFds'
    <2>1. UNCHANGED <<fdOf, tmp_fds, leaked, backlog>>
        BY <1>7 DEF receive_size
    <2>2. \A d \in Clients : inbox[d] # <<>> => inbox'[d] # <<>>
        BY <1>s, <1>7, NamedCommands DEF receive_size
    <2>3. \A d \in Clients : Ended(d) => Ended(d)'
        BY <1>0, <1>7 DEF receive_size, Ended, TypeOK, ClientTypes
    <2> QED BY <2>1, <2>2, <2>3, ClientKeeps DEF Readable
<1>8. ASSUME NEW c \in Clients, receive_reply(c) PROVE ReadyStaysReady' /\ InvFds'
    <2>1. UNCHANGED <<fdOf, tmp_fds, leaked, backlog, inbox>>
        BY <1>8 DEF receive_reply
    <2>2. \A d \in Clients : Ended(d) => Ended(d)'
        BY <1>0, <1>8 DEF receive_reply, Ended, TypeOK, ClientTypes
    <2> QED BY <2>1, <2>2, ClientKeeps DEF Readable
<1>9. ASSUME NEW c \in Clients, kill(c) PROVE ReadyStaysReady' /\ InvFds'
    <2>1. UNCHANGED <<fdOf, tmp_fds, leaked, backlog, inbox>>
        BY <1>9 DEF kill
    <2>2. \A d \in Clients : Ended(d) => Ended(d)'
        BY <1>0, <1>9 DEF kill, Ended, TypeOK, ClientTypes
    <2> QED BY <2>1, <2>2, ClientKeeps DEF Readable
<1>10. ASSUME NEW c \in Clients, NEW cmd \in Typed[c], type_refused(c, cmd) \/ type_sent(c, cmd)
       PROVE  ReadyStaysReady' /\ InvFds'
    <2>0. cmd \in Commands
        BY TypedAssumption
    <2>1. UNCHANGED <<fdOf, tmp_fds, leaked, backlog>> /\ pc[c] = "select"
        BY <1>10 DEF type_refused, type_sent, TypeLine
    <2>2. \A d \in Clients : inbox[d] # <<>> => inbox'[d] # <<>>
        BY <1>s, <1>10, <2>0 DEF type_refused, type_sent
    <2>3. \A d \in Clients : Ended(d) => Ended(d)'
        BY <1>0, <1>10, <2>1 DEF type_refused, type_sent, Ended, TypeOK, ClientTypes
    <2> QED BY <2>1, <2>2, <2>3, ClientKeeps DEF Readable
<1>11. CASE UNCHANGED vars
    BY <1>0, <1>11 DEF vars, ReadyStaysReady, InvFds, Readable, Ended
<1> QED BY <1>1, <1>2, <1>3, <1>5, <1>6, <1>7, <1>8, <1>9, <1>10, <1>11
        DEF Next, ServerStep, ClientStep

LEMMA LoopInit == Init => LoopInv
<1> SUFFICES ASSUME Init PROVE LoopInv
    OBVIOUS
<1>1. 0 \in 0 .. 2 /\ 0 \in 0 .. MaxTyped
    BY ChatAssumption
<1>2. ServerTypes
    BY DEF Init, ServerTypes
<1>3. GlobalTypes
    BY <1>1 DEF Init, GlobalTypes
<1>4. StreamTypes
    BY DEF Init, StreamTypes
<1>5. ClientTypes
    BY <1>1 DEF Init, ClientTypes
<1>6. HistoryTypes
    BY DEF Init, HistoryTypes
<1>7. ReadyStaysReady /\ InvFds
    BY FS_EmptySet DEF Init, ReadyStaysReady, InvFds
<1> QED BY <1>2, <1>3, <1>4, <1>5, <1>6, <1>7 DEF LoopInv, TypeOK

(* Every value and the loop: for every client and every segment, each       *)
(* descriptor the loop still has to visit is open, has one owner and has    *)
(* something to read.                                                       *)
THEOREM LoopInvariant == Spec => []LoopInv
BY LoopInit, LoopStep, PTL DEF Spec

(* The state of the server and of the clients keeps its types; no counter   *)
(* of wrong logins reaches three.                                           *)
THEOREM TypeOKHolds == Spec => []TypeOK
<1>1. LoopInv => TypeOK
    BY DEF LoopInv
<1> QED BY <1>1, LoopInvariant, PTL

(* No recv and no accept of the loop blocks the server.                     *)
THEOREM ReadyStaysReadyHolds == Spec => []ReadyStaysReady
<1>1. LoopInv => ReadyStaysReady
    BY DEF LoopInv
<1> QED BY <1>1, LoopInvariant, PTL

-----------------------------------------------------------------------------
(* The requests of two steps. *)

LEMMA Distinct ==
    /\ Cmd("getuserlist") # NoExchange
    /\ \A n \in Names : GetFiles(n) # NoExchange /\ GetFiles(n) # Cmd("getuserlist")
    /\ \A n, m \in Names : GetFiles(n) = GetFiles(m) => n = m
BY DEF GetFiles, Cmd, NoExchange, None

(* Only the two first requests are followed by a second one. *)
LEMMA NoFollower ==
    /\ \A x : ~Follows(x, Login("right")) /\ ~Follows(x, Login("wrong"))
    /\ \A x : \A op \in {"logout", "quit", "other", "users", "files"} : ~Follows(x, Cmd(op))
BY DEF Follows, Login, GetFiles, Cmd

(* What a second request follows is what the client asked for. *)
LEMMA WhatIsFollowed ==
    ASSUME NEW first
    PROVE  /\ Follows(Cmd("users"), first) => first = Cmd("getuserlist")
           /\ Follows(Cmd("files"), first) => \E n \in Names : first = GetFiles(n)
BY DEF Follows, Cmd

LEMMA HistoryGrows ==
    ASSUME TypeOK, [Next]_vars
    PROVE  (mixed => mixed') /\ (dropped => dropped')
<1> USE DEF server, globals, clientVars, history
<1>1. CASE select \/ accept
    BY <1>1 DEF select, accept
<1>2. ASSUME NEW c \in Clients,
             \/ login(c) \/ logout(c) \/ getuserlist(c) \/ getfilelist(c)
             \/ users(c) \/ files(c) \/ quit(c) \/ other(c)
      PROVE  /\ \E cmd : Receive(c, cmd)
             /\ UNCHANGED mixed \/ \E cmd : Begin(c, cmd)
    <2>1. CASE login(c)
        BY <2>1 DEF login
    <2>2. CASE logout(c)
        BY <2>2 DEF logout
    <2>3. CASE getuserlist(c)
        BY <2>3 DEF getuserlist
    <2>4. CASE getfilelist(c)
        BY <2>4 DEF getfilelist
    <2>5. CASE users(c)
        BY <2>5 DEF users, Finish
    <2>6. CASE files(c)
        BY <2>6 DEF files, Finish
    <2>7. CASE quit(c)
        BY <2>7 DEF quit
    <2>8. CASE other(c)
        BY <2>8 DEF other
    <2> QED BY <1>2, <2>1, <2>2, <2>3, <2>4, <2>5, <2>6, <2>7, <2>8
<1>3. ASSUME NEW c \in Clients, NEW cmd, Receive(c, cmd) PROVE dropped => dropped'
    BY <1>3, ReceiveEffect
<1>4. ASSUME NEW c \in Clients, NEW cmd, Begin(c, cmd) PROVE mixed => mixed'
    BY <1>4 DEF Begin
<1>5. ASSUME NEW c \in Clients, hang_up(c) PROVE UNCHANGED history
    BY <1>5 DEF hang_up
<1>6. ASSUME NEW c \in Clients, ClientStep(c) PROVE UNCHANGED history
    BY <1>6 DEF ClientStep, connect, receive_size, receive_reply, kill, type_refused,
                type_sent, TypeLine
<1>7. CASE UNCHANGED vars
    BY <1>7 DEF vars
<1> QED BY <1>1, <1>2, <1>3, <1>4, <1>5, <1>6, <1>7 DEF Next, ServerStep

(* Once a command is obeyed, what is still to come follows what has begun.  *)
LEMMA StreamServed ==
    ASSUME TypeOK, InvStream, InvWaiting, NEW c \in Clients, NEW cmd,
           Receive(c, cmd), ~dropped', CloseFd(c) \/ UNCHANGED fdOf,
           \A d \in Clients : d # c => exchange'[d] = exchange[d],
           \A x : Follows(x, cmd) => exchange'[c] = cmd
    PROVE  InvStream' /\ InvWaiting'
<1>0. inbox \in [Clients -> Seq(Commands)] /\ fdOf \in [Clients -> Nat]
    BY DEF TypeOK, ServerTypes, StreamTypes
<1>1. /\ inbox[c] # <<>> /\ inbox' \in [Clients -> Seq(Commands)]
      /\ \A d \in Clients : d # c => inbox'[d] = inbox[d]
      /\ backlog' = backlog /\ pc' = pc /\ command' = command
      /\ cmd = inbox[c][1]
      /\ Len(inbox'[c]) = Len(inbox[c]) - 1
      /\ \A i \in 1 .. Len(inbox'[c]) : inbox'[c][i] = inbox[c][i + 1]
      /\ status = "up"
    BY ReceiveEffect DEF clientVars, Visits
<1>2. Len(inbox[c]) \in Nat /\ Len(inbox[c]) > 0
    BY <1>0, <1>1
<1>3. \A d \in Clients : Connected(d)' => Connected(d)
    <2>1. \A d \in Clients : fdOf'[d] # 0 => fdOf[d] # 0
        <3>1. CASE CloseFd(c)
            BY <1>0, <3>1 DEF CloseFd
        <3> QED BY <3>1
    <2> QED BY <1>1, <2>1 DEF Connected
<1>4. ASSUME NEW i \in 1 .. Len(inbox'[c]) + 1, NEW x, Follows(x, Before(c, i + 1))
      PROVE  Follows(x, Before(c, i)')
    <2>1. CASE i = 1
        BY <1>1, <1>4, <2>1 DEF Before
    <2>2. CASE i > 1
        <3>1. i - 1 \in 1 .. Len(inbox'[c]) /\ i \in Nat
            BY <1>1, <1>2, <2>2
        <3>2. Before(c, i)' = Before(c, i + 1)
            BY <1>1, <2>2, <3>1 DEF Before
        <3> QED BY <1>4, <3>2
    <2> QED BY <1>1, <1>2, <2>1, <2>2
<1>5. InvStream'
    <2> SUFFICES ASSUME NEW d \in Clients, NEW i \in 1 .. Len(inbox'[d]),
                        inbox'[d][i] \in {Cmd("users"), Cmd("files")}
                 PROVE  Follows(inbox'[d][i], Before(d, i)')
        BY DEF InvStream
    <2>1. CASE d = c
        <3>1. inbox'[c][i] = inbox[c][i + 1] /\ i + 1 \in 1 .. Len(inbox[c])
            BY <1>1, <1>2, <2>1
        <3>2. Follows(inbox[c][i + 1], Before(c, i + 1))
            BY <2>1, <3>1 DEF InvStream
        <3> QED BY <1>1, <1>2, <1>4, <2>1, <3>1, <3>2
    <2>2. CASE d # c
        BY <1>1, <2>2 DEF InvStream, Before
    <2> QED BY <2>1, <2>2
<1>6. InvWaiting'
    <2> SUFFICES ASSUME NEW d \in Clients, pc'[d] = "size", Connected(d)'
                 PROVE  Follows(Cmd(IF command'[d] = "getuserlist" THEN "users" ELSE "files"),
                                Before(d, Len(inbox[d]) + 1)')
        BY DEF InvWaiting
    <2>1. Follows(Cmd(IF command[d] = "getuserlist" THEN "users" ELSE "files"),
                  Before(d, Len(inbox[d]) + 1))
        BY <1>1, <1>3 DEF InvWaiting
    <2>2. CASE d = c
        BY <1>1, <1>2, <1>4, <2>1, <2>2
    <2>3. CASE d # c
        BY <1>1, <2>1, <2>3 DEF Before
    <2> QED BY <2>2, <2>3
<1> QED BY <1>5, <1>6

(* A step that leaves the server's requests alone and opens no connection   *)
(* keeps the streams, if what it adds to them is in order.                  *)
LEMMA StreamKept ==
    ASSUME InvStream, InvWaiting, UNCHANGED <<exchange, inbox, command>>,
           \A d \in Clients : Connected(d)' => Connected(d),
           \A d \in Clients : pc'[d] = "size" => pc[d] = "size"
    PROVE  InvStream' /\ InvWaiting'
<1>1. InvStream'
    BY DEF InvStream, Before
<1>2. InvWaiting'
    BY DEF InvWaiting, Before
<1> QED BY <1>1, <1>2

(* Answered and InvSingle speak of the server's requests and lists only.    *)
LEMMA RequestsKept ==
    ASSUME InvSingle, Answered, UNCHANGED <<exchange, list, flist, eroare>>,
           status' # "no list", status' = "up" => status = "up"
    PROVE  InvSingle' /\ Answered'
BY DEF InvSingle, Answered

LEMMA RequestStep ==
    ASSUME UsersAskInOrder, LoopInv, Served, [Next]_vars, ~mixed', ~dropped'
    PROVE  Served'
<1> USE DEF server, globals, clientVars, history
<1>0. /\ TypeOK /\ InvStream /\ InvWaiting /\ InvSingle /\ Answered
      /\ fdOf \in [Clients -> Nat] /\ backlog \in Seq(Clients)
      /\ inbox \in [Clients -> Seq(Commands)]
      /\ exchange \in [Clients -> {NoExchange} \cup Commands]
      /\ status # "no list"
    BY DEF LoopInv, TypeOK, ServerTypes, StreamTypes, HistoryTypes, Served, Answered
<1>1. CASE select
    <2>1. UNCHANGED <<status, backlog, fdOf, globals, inbox, clientVars, history>>
        BY <1>1 DEF select
    <2>2. InvStream' /\ InvWaiting'
        BY <1>0, <2>1, StreamKept DEF Connected
    <2> QED BY <1>0, <2>1, <2>2, RequestsKept DEF Served
<1>2. CASE accept
    <2>1. /\ UNCHANGED <<status, list, flist, eroare, inbox, clientVars, exchange>>
          /\ backlog' = Tail(backlog)
          /\ fdOf' = [fdOf EXCEPT ![Head(backlog)] = LowestFree]
        BY <1>2 DEF accept
    <2>2. backlog # <<>>
        BY <1>2, AcceptHasOne DEF accept
    <2>3. \A d \in Clients : Connected(d)' => Connected(d)
        <3>1. /\ 1 \in DOMAIN backlog /\ Head(backlog) = backlog[1]
              /\ \A i \in DOMAIN Tail(backlog) :
                    i + 1 \in DOMAIN backlog /\ Tail(backlog)[i] = backlog[i + 1]
            <4>1. backlog \in Seq(Clients)
                BY <1>0
            <4> QED BY <2>2, <4>1
        <3>2. \A d \in Clients : fdOf'[d] # 0 => fdOf[d] # 0 \/ d = backlog[1]
            BY <1>0, <2>1, <3>1
        <3> QED BY <2>1, <3>1, <3>2 DEF Connected
    <2>4. InvStream' /\ InvWaiting'
        BY <1>0, <2>1, <2>3, StreamKept
    <2> QED BY <1>0, <2>1, <2>4, RequestsKept DEF Served
<1>3. ASSUME NEW c \in Clients, hang_up(c) PROVE Served'
    <2>1. /\ UNCHANGED <<backlog, list, flist, eroare, inbox, clientVars, exchange>>
          /\ status' = status \/ status' = "reset"
          /\ CloseFd(c) \/ UNCHANGED fdOf
        BY <1>3 DEF hang_up
    <2>2. \A d \in Clients : fdOf'[d] # 0 => fdOf[d] # 0
        <3>1. CASE CloseFd(c)
            BY <1>0, <3>1 DEF CloseFd
        <3> QED BY <2>1, <3>1
    <2>3. \A d \in Clients : Connected(d)' => Connected(d)
        BY <2>1, <2>2 DEF Connected
    <2>4. InvStream' /\ InvWaiting'
        BY <1>0, <2>1, <2>3, StreamKept
    <2> QED BY <1>0, <2>1, <2>4, RequestsKept DEF Served
<1>4. ASSUME NEW c \in Clients,
             login(c) \/ logout(c) \/ quit(c) \/ other(c)
      PROVE  Served'
    <2>1. /\ \E cmd : Receive(c, cmd) /\ \A x : ~Follows(x, cmd)
          /\ CloseFd(c) \/ UNCHANGED fdOf
          /\ UNCHANGED <<status, list, flist, eroare, exchange>>
        <3>1. CASE login(c)
            BY <3>1, NoFollower DEF login
        <3>2. CASE logout(c)
            BY <3>2, NoFollower DEF logout
        <3>3. CASE quit(c)
            BY <3>3, NoFollower DEF quit
        <3>4. CASE other(c)
            BY <3>4, NoFollower DEF other
        <3> QED BY <1>4, <3>1, <3>2, <3>3, <3>4
    <2>2. InvStream' /\ InvWaiting'
        BY <1>0, <2>1, StreamServed
    <2> QED BY <1>0, <2>1, <2>2, RequestsKept DEF Served
<1>b. ASSUME NEW c \in Clients, NEW cmd \in Commands, Begin(c, cmd)
      PROVE  /\ exchange'[c] = cmd
             /\ \A d \in Clients : d # c => exchange'[d] = exchange[d]
             /\ \A d \in Clients : exchange[d] = NoExchange
             /\ ~eroare
    <2>1. \A d \in Clients : exchange[d] = NoExchange
        BY <1>b DEF Begin
    <2>2. ~eroare
        BY <1>0, <2>1, Distinct DEF InvSingle
    <2> QED BY <1>0, <1>b, <2>1, <2>2 DEF Begin
<1>f. ASSUME NEW c \in Clients, Finish(c)
      PROVE  /\ exchange'[c] = NoExchange
             /\ \A d \in Clients : d # c => exchange'[d] = exchange[d]
    BY <1>0, <1>f DEF Finish
<1>5. ASSUME NEW c \in Clients, getuserlist(c) PROVE Served'
    <2>1. /\ Receive(c, Cmd("getuserlist")) /\ Begin(c, Cmd("getuserlist")) /\ list' = TRUE
          /\ UNCHANGED <<status, fdOf, flist, eroare>>
        BY <1>5 DEF getuserlist
    <2>2. /\ exchange'[c] = Cmd("getuserlist") /\ ~eroare
          /\ \A d \in Clients : d # c => exchange'[d] = NoExchange /\ exchange'[d] = exchange[d]
        BY <1>b, <2>1, NamedCommands
    <2>3. InvStream' /\ InvWaiting'
        BY <1>0, <2>1, <2>2, StreamServed
    <2>4. InvSingle'
        BY <2>1, <2>2 DEF InvSingle
    <2>5. Answered'
        BY <1>0, <2>1, <2>2, Distinct DEF Answered
    <2> QED BY <2>3, <2>4, <2>5 DEF Served
<1>6. ASSUME NEW c \in Clients, getfilelist(c) PROVE Served'
    <2>1. PICK n \in Names :
            /\ Receive(c, GetFiles(n)) /\ Begin(c, GetFiles(n)) /\ UNCHANGED fdOf
            /\ \/ n \in Known /\ flist' = n /\ UNCHANGED <<status, eroare>>
               \/ n \in Known /\ status' = "no directory" /\ UNCHANGED eroare
               \/ n \notin Known /\ eroare' = TRUE /\ UNCHANGED status
        BY <1>6 DEF getfilelist
    <2>2. /\ exchange'[c] = GetFiles(n) /\ ~eroare
          /\ \A d \in Clients : d # c => exchange'[d] = NoExchange /\ exchange'[d] = exchange[d]
        BY <1>b, <2>1, NamedCommands
    <2>3. InvStream' /\ InvWaiting'
        BY <1>0, <2>1, <2>2, StreamServed
    <2>4. InvSingle'
        <3>1. eroare' => n \in Names \ Known
            <4>1. CASE UNCHANGED eroare
                BY <2>2, <4>1
            <4>2. CASE n \notin Known
                BY <4>2
            <4> QED BY <2>1, <4>1, <4>2
        <3>2. \A d, e \in Clients :
                exchange'[d] # NoExchange /\ exchange'[e] # NoExchange => d = e
            BY <2>2
        <3> QED BY <2>2, <3>1, <3>2 DEF InvSingle
    <2>5. Answered'
        <3>1. status' # "no list"
            BY <1>0, <2>1
        <3>2. \A d \in Clients : exchange'[d] # Cmd("getuserlist")
            BY <2>2, Distinct
        <3>3. ASSUME NEW d \in Clients, NEW m \in Names, exchange'[d] = GetFiles(m), status' = "up"
              PROVE  IF m \in Known THEN flist' = m /\ ~eroare' ELSE eroare'
            <4>1. m = n
                BY <2>2, <3>3, Distinct
            <4> QED BY <2>1, <2>2, <3>3, <4>1
        <3> QED BY <3>1, <3>2, <3>3 DEF Answered
    <2> QED BY <2>3, <2>4, <2>5 DEF Served
<1>7. ASSUME NEW c \in Clients, NEW op \in {"users", "files"}, Receive(c, Cmd(op))
      PROVE  Follows(Cmd(op), exchange[c]) /\ status = "up"
    <2>1. inbox[c] # <<>> /\ Cmd(op) = inbox[c][1] /\ Visits(fdOf[c])
        BY <1>0, <1>7, ReceiveEffect
    <2>2. 1 \in 1 .. Len(inbox[c])
        <3>1. inbox[c] \in Seq(Commands)
            BY <1>0
        <3> QED BY <2>1, <3>1
    <2> QED BY <1>0, <2>1, <2>2 DEF InvStream, Before, Visits
<1>8. ASSUME NEW c \in Clients, users(c) PROVE Served'
    <2>1. /\ Receive(c, Cmd("users")) /\ Finish(c) /\ list' = FALSE
          /\ \/ list /\ UNCHANGED status
             \/ ~list /\ status' = "no list"
          /\ UNCHANGED <<fdOf, flist, eroare>>
        BY <1>8 DEF users
    <2>2. exchange[c] = Cmd("getuserlist") /\ status = "up"
        BY <1>7, <2>1, WhatIsFollowed
    <2>3. exchange'[c] = NoExchange /\ \A d \in Clients : d # c => exchange'[d] = NoExchange
        BY <1>0, <1>f, <2>1, <2>2, Distinct DEF InvSingle
    <2>4. list /\ UNCHANGED status /\ ~eroare
        <3>1. list /\ UNCHANGED status
            BY <1>0, <2>1, <2>2 DEF Answered
        <3>2. ~eroare
            BY <1>0, <2>2, Distinct DEF InvSingle
        <3> QED BY <3>1, <3>2
    <2>5. InvStream' /\ InvWaiting'
        <3>1. \A d \in Clients : d # c => exchange'[d] = exchange[d]
            BY <1>f, <2>1
        <3> QED BY <1>0, <2>1, <3>1, StreamServed, NoFollower
    <2>6. InvSingle'
        BY <2>1, <2>3, <2>4 DEF InvSingle
    <2>7. Answered'
        BY <2>2, <2>3, <2>4, Distinct DEF Answered
    <2> QED BY <2>5, <2>6, <2>7 DEF Served
<1>9. ASSUME NEW c \in Clients, files(c) PROVE Served'
    <2>1. /\ Receive(c, Cmd("files")) /\ Finish(c) /\ eroare' = FALSE
          /\ \/ UNCHANGED status
             \/ ~eroare /\ flist = None /\ status' = "no list"
          /\ UNCHANGED <<fdOf, list>>
        BY <1>9 DEF files, ForgetFiles
    <2>2. PICK n \in Names : exchange[c] = GetFiles(n)
        BY <1>7, <2>1, WhatIsFollowed
    <2>3. exchange'[c] = NoExchange /\ \A d \in Clients : d # c => exchange'[d] = NoExchange
        BY <1>0, <1>f, <2>1, <2>2, Distinct DEF InvSingle
    <2>4. UNCHANGED status
        <3>1. n # None /\ status = "up"
            BY <1>7, <2>1, ChatAssumption
        <3> QED BY <1>0, <2>1, <2>2, <3>1 DEF Answered
    <2>5. InvStream' /\ InvWaiting'
        <3>1. \A d \in Clients : d # c => exchange'[d] = exchange[d]
            BY <1>f, <2>1
        <3> QED BY <1>0, <2>1, <3>1, StreamServed, NoFollower
    <2>6. InvSingle'
        BY <2>1, <2>3 DEF InvSingle
    <2>7. Answered'
        BY <1>0, <2>3, <2>4, Distinct DEF Answered
    <2> QED BY <2>5, <2>6, <2>7 DEF Served
<1>10. ASSUME NEW c \in Clients, connect(c) PROVE Served'
    <2>1. /\ UNCHANGED <<status, fdOf, globals, exchange>>
          /\ \A d \in Clients : d # c => /\ inbox'[d] = inbox[d] /\ pc'[d] = pc[d]
                                         /\ command'[d] = command[d]
          /\ inbox'[c] = <<>> /\ pc'[c] = "select"
          /\ backlog' = Append(backlog, c)
        BY <1>0, <1>10 DEF connect, ClearLocals, TypeOK, ClientTypes
    <2>2. \A d \in Clients : d # c => (Connected(d)' => Connected(d))
        <3>1. \A i \in DOMAIN Append(backlog, c) :
                \/ i \in DOMAIN backlog /\ Append(backlog, c)[i] = backlog[i]
                \/ Append(backlog, c)[i] = c
            <4>1. backlog \in Seq(Clients)
                BY <1>0
            <4> QED BY <4>1
        <3> QED BY <2>1, <3>1 DEF Connected
    <2>3. InvStream'
        <3> SUFFICES ASSUME NEW d \in Clients, NEW i \in 1 .. Len(inbox'[d]),
                            inbox'[d][i] \in {Cmd("users"), Cmd("files")}
                     PROVE  Follows(inbox'[d][i], Before(d, i)')
            BY DEF InvStream
        <3>1. d # c
            BY <2>1
        <3> QED BY <1>0, <2>1, <3>1 DEF InvStream, Before
    <2>4. InvWaiting'
        BY <1>0, <2>1, <2>2 DEF InvWaiting, Before
    <2> QED BY <1>0, <2>1, <2>3, <2>4, RequestsKept DEF Served
<1>s. ASSUME NEW c \in Clients, NEW cmd \in Commands, ClientSend(c, cmd), UNCHANGED server,
             UNCHANGED exchange,
             Connected(c) /\ cmd \in {Cmd("users"), Cmd("files")} =>
                Follows(cmd, Before(c, Len(inbox[c]) + 1))
      PROVE  /\ InvStream'
             /\ \A d \in Clients : d # c => inbox'[d] = inbox[d]
             /\ \A d \in Clients : Connected(d)' = Connected(d)
             /\ Connected(c) => Before(c, Len(inbox[c]) + 1)' = cmd
    <2>1. \A d \in Clients : Connected(d)' = Connected(d)
        BY <1>s DEF Connected
    <2>2. \A d \in Clients : d # c => inbox'[d] = inbox[d]
        BY <1>0, <1>s DEF ClientSend
    <2>3. CASE ~Connected(c)
        <3>1. inbox' = inbox
            BY <1>s, <2>3 DEF ClientSend
        <3> QED BY <1>0, <1>s, <2>1, <2>3, <3>1 DEF InvStream, Before
    <2>4. CASE Connected(c)
        <3>1. inbox'[c] = Append(inbox[c], cmd)
            BY <1>0, <1>s, <2>4 DEF ClientSend
        <3>2. /\ Len(inbox[c]) \in Nat /\ Len(inbox'[c]) = Len(inbox[c]) + 1
              /\ inbox'[c][Len(inbox[c]) + 1] = cmd
              /\ \A i \in 1 .. Len(inbox[c]) : inbox'[c][i] = inbox[c][i]
            <4>1. inbox[c] \in Seq(Commands)
                BY <1>0
            <4> QED BY <3>1, <4>1
        <3>3. \A i \in 1 .. Len(inbox[c]) + 1 : Before(c, i)' = Before(c, i)
            BY <1>s, <3>2 DEF Before
        <3>4. Before(c, Len(inbox[c]) + 1)' = cmd
            BY <3>2 DEF Before
        <3>5. InvStream'
            <4> SUFFICES ASSUME NEW d \in Clients, NEW i \in 1 .. Len(inbox'[d]),
                                inbox'[d][i] \in {Cmd("users"), Cmd("files")}
                         PROVE  Follows(inbox'[d][i], Before(d, i)')
                BY DEF InvStream
            <4>1. CASE d # c
                BY <1>0, <1>s, <2>2, <4>1 DEF InvStream, Before
            <4>2. CASE d = c /\ i \in 1 .. Len(inbox[c])
                BY <1>0, <3>2, <3>3, <4>2 DEF InvStream
            <4>3. CASE d = c /\ i = Len(inbox[c]) + 1
                BY <1>s, <2>4, <3>2, <3>3, <4>3
            <4> QED BY <3>2, <4>1, <4>2, <4>3
        <3> QED BY <2>1, <2>2, <3>4, <3>5
    <2> QED BY <2>3, <2>4
<1>11. ASSUME NEW c \in Clients, receive_size(c) PROVE Served'
    <2> DEFINE second == Cmd(IF command[c] = "getuserlist" THEN "users" ELSE "files")
    <2>1. /\ UNCHANGED <<server, globals, command, exchange>> /\ ClientSend(c, second)
          /\ pc[c] = "size" /\ pc' = [pc EXCEPT ![c] = "select"]
        BY <1>11 DEF receive_size
    <2>2. second \in Commands
        BY NamedCommands
    <2>3. Connected(c) => Follows(second, Before(c, Len(inbox[c]) + 1))
        BY <1>0, <2>1 DEF InvWaiting
    <2>4. \A d \in Clients : pc'[d] = "size" => pc[d] = "size" /\ d # c
        BY <1>0, <2>1 DEF TypeOK, ClientTypes
    <2> HIDE DEF second
    <2>5. /\ InvStream'
          /\ \A d \in Clients : d # c => inbox'[d] = inbox[d]
          /\ \A d \in Clients : Connected(d)' = Connected(d)
        BY <1>s, <2>1, <2>2, <2>3
    <2>6. InvWaiting'
        BY <1>0, <2>1, <2>4, <2>5 DEF InvWaiting, Before
    <2> QED BY <1>0, <2>1, <2>5, <2>6, RequestsKept DEF Served
<1>12. ASSUME NEW c \in Clients, receive_reply(c) PROVE Served'
    <2>1. UNCHANGED <<server, globals, inbox, command, exchange>>
        BY <1>12 DEF receive_reply
    <2>2. \A d \in Clients : pc'[d] = "size" => pc[d] = "size"
        BY <1>0, <1>12 DEF receive_reply, TypeOK, ClientTypes
    <2>3. InvStream' /\ InvWaiting'
        BY <1>0, <2>1, <2>2, StreamKept DEF Connected
    <2> QED BY <1>0, <2>1, <2>3, RequestsKept DEF Served
<1>13. ASSUME NEW c \in Clients, kill(c) PROVE Served'
    <2>1. /\ UNCHANGED <<server, globals, inbox, exchange>>
          /\ \A d \in Clients : d # c => pc'[d] = pc[d] /\ command'[d] = command[d]
          /\ pc'[c] = "ended"
        BY <1>0, <1>13 DEF kill, ClearLocals, TypeOK, ClientTypes
    <2>2. InvStream'
        BY <1>0, <2>1 DEF InvStream, Before
    <2>3. InvWaiting'
        BY <1>0, <2>1 DEF InvWaiting, Before, Connected
    <2> QED BY <1>0, <2>1, <2>2, <2>3, RequestsKept DEF Served
<1>14. ASSUME NEW c \in Clients, NEW cmd \in Typed[c], type_refused(c, cmd) PROVE Served'
    <2>1. /\ UNCHANGED <<server, globals, inbox, pc, exchange>> /\ pc[c] = "select"
          /\ \A d \in Clients : d # c => command'[d] = command[d]
        BY <1>0, <1>14 DEF type_refused, TypeLine, TypeOK, ClientTypes
    <2>2. InvStream'
        BY <1>0, <2>1 DEF InvStream, Before
    <2>3. InvWaiting'
        BY <1>0, <2>1 DEF InvWaiting, Before, Connected
    <2> QED BY <1>0, <2>1, <2>2, <2>3, RequestsKept DEF Served
<1>15. ASSUME NEW c \in Clients, NEW cmd \in Typed[c], type_sent(c, cmd) PROVE Served'
    <2>0. cmd \in Commands /\ cmd \notin {Cmd("users"), Cmd("files")}
        BY TypedAssumption DEF UsersAskInOrder
    <2>1. /\ UNCHANGED <<server, globals, exchange>> /\ ClientSend(c, cmd)
          /\ \A d \in Clients : d # c => pc'[d] = pc[d] /\ command'[d] = command[d]
          /\ pc'[c] = "size" => /\ cmd[1] \in {"getuserlist", "getfilelist"}
                                /\ command'[c] = cmd[1]
        BY <1>0, <1>15 DEF type_sent, TypeLine, TypeOK, ClientTypes
    <2>2. /\ InvStream'
          /\ \A d \in Clients : d # c => inbox'[d] = inbox[d]
          /\ \A d \in Clients : Connected(d)' = Connected(d)
          /\ Connected(c) => Before(c, Len(inbox[c]) + 1)' = cmd
        BY <1>s, <2>0, <2>1
    <2>3. pc'[c] = "size" =>
            Follows(Cmd(IF command'[c] = "getuserlist" THEN "users" ELSE "files"), cmd)
        BY <2>0, <2>1, CommandWords DEF Follows
    <2>4. InvWaiting'
        BY <1>0, <2>1, <2>2, <2>3 DEF InvWaiting, Before
    <2> QED BY <1>0, <2>1, <2>2, <2>4, RequestsKept DEF Served
<1>16. CASE UNCHANGED vars
    <2>1. InvStream' /\ InvWaiting'
        BY <1>0, <1>16, StreamKept DEF vars, Connected
    <2> QED BY <1>0, <1>16, <2>1, RequestsKept DEF vars, Served
<1> QED BY <1>1, <1>2, <1>3, <1>4, <1>5, <1>6, <1>8, <1>9, <1>10, <1>11, <1>12, <1>13,
           <1>14, <1>15, <1>16 DEF Next, ServerStep, ClientStep

(* For every number of clients, users and commands: the list a client is    *)
(* about to be sent is there and is the one it asked for, as long as nobody *)
(* types the second request himself, no two requests overlap and no command *)
(* is lost.                                                                 *)
THEOREM AnswersTheRequestHolds ==
    ASSUME UsersAskInOrder
    PROVE  Spec => []AnswersTheRequest
<1>1. Init => RequestInv
    BY Distinct DEF Init, RequestInv, Served, InvStream, InvWaiting, InvSingle, Answered
<1>2. LoopInv /\ RequestInv /\ [Next]_vars => RequestInv'
    <2> SUFFICES ASSUME LoopInv, RequestInv, [Next]_vars, ~mixed', ~dropped'
                 PROVE  Served'
        BY DEF RequestInv
    <2>1. ~mixed /\ ~dropped
        BY HistoryGrows DEF LoopInv
    <2> QED BY <2>1, RequestStep DEF RequestInv
<1>3. RequestInv => AnswersTheRequest
    BY DEF RequestInv, Served, AnswersTheRequest
<1> QED BY <1>1, <1>2, <1>3, LoopInvariant, PTL DEF Spec
=============================================================================
