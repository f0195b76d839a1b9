----------------------------- MODULE ChatServer -----------------------------
(***************************************************************************)
(* The file-sharing server "TCP chat/selectserver.c" and its clients,      *)
(* "TCP chat/client.c".  The server is one thread around select; a client  *)
(* reads commands from its user and replies from its socket.  A list of    *)
(* users or files is asked for in two requests: the size first, then, once *)
(* the size has come, the list itself.  Between the two the server keeps   *)
(* the list in a global.                                                   *)
(*                                                                         *)
(* A command or a reply is a member of a small set.  recv of the server    *)
(* may find several commands in one segment and then obeys only the first; *)
(* a reply is read by one recv of the client.                              *)
(***************************************************************************)
EXTENDS Integers, Sequences, FiniteSets, FiniteSetsExt, Functions

CONSTANTS
    Clients,    \* seats: a seat is taken by one client process after another
    N,          \* number of configured users, the length of client_attempts
    Names,      \* what users type after getfilelist
    Known,      \* the names strncmp finds among the users ...
    Dirs,       \* ... and those that are directories
    Typed,      \* the commands the user at each seat types
    MaxTyped    \* bound: commands typed in all

sockfd == 3             \* the listening socket; 4 and 5 are the two files
FirstFree == 6
None == "none"

ASSUME ChatAssumption ==
    /\ IsFiniteSet(Clients)
    /\ N \in Nat \ {0} /\ MaxTyped \in Nat
    /\ Known \subseteq Names /\ Dirs \subseteq Names /\ None \notin Names

Login(password) == <<"login", password>>
GetFiles(n) == <<"getfilelist", n>>
Cmd(op) == <<op, None>>
NoExchange == Cmd(None)
Commands == {Login("right"), Login("wrong")} \cup {GetFiles(n) : n \in Names}
    \cup {Cmd(op) : op \in {"logout", "getuserlist", "quit", "other",
                            "users", "files"}}
Words == {cmd[1] : cmd \in Commands}
ASSUME TypedAssumption == Typed \in [Clients -> SUBSET Commands]

Replies == {"AUTHENTICATED", "-3", "-8", "-11", "size", "list", "error"}

VARIABLES
    status,     \* of the server: up, or what ended it
    backlog,    \* connections not accepted yet
    fdOf,       \* the server's descriptor of a client's connection, or 0
    tmp_fds,    \* the ready descriptors this turn has still to visit
    leaked,     \* descriptors of directories, which are never closed
    client_attempts, list, flist, eroare,
    inbox,      \* per client, commands on their way to the server
    outbox,     \* per client, replies on their way back: kind and content
    pc,         \* a client: off, at its select, blocked in recv for the
                \* size of a list, or ended
    authenticated, command,
    buffer,     \* first word of the client's buffer
    typed,      \* number of commands typed so far
    exchange,   \* history: the two-step request the server has begun
    mixed,      \* history: two such requests have overlapped
    dropped,    \* history: a command was lost in another one's segment
    failed      \* history: wrong logins on the connection since a
                \* command other than login

server == <<status, backlog, fdOf, tmp_fds, leaked>>
globals == <<client_attempts, list, flist, eroare>>
clientVars == <<pc, authenticated, command, buffer, typed>>
history == <<exchange, mixed, dropped, failed>>
vars == <<server, globals, inbox, outbox, clientVars, history>>

Messages == Replies \X (Names \cup {None})

ServerTypes ==
    /\ status \in {"up", "no list", "no directory", "reset"}
    /\ backlog \in Seq(Clients)
    /\ fdOf \in [Clients -> Nat]
    /\ tmp_fds \subseteq Nat /\ leaked \subseteq Nat
GlobalTypes ==
    /\ client_attempts \in [0 .. N - 1 -> 0 .. 2]
    /\ list \in BOOLEAN /\ flist \in Names \cup {None} /\ eroare \in BOOLEAN
StreamTypes ==
    /\ inbox \in [Clients -> Seq(Commands)]
    /\ outbox \in [Clients -> Seq(Messages)]
ClientTypes ==
    /\ pc \in [Clients -> {"off", "select", "size", "ended"}]
    /\ authenticated \in [Clients -> BOOLEAN]
    /\ command \in [Clients -> Words \cup {None}]
    /\ buffer \in [Clients -> Replies \cup {None}]
    /\ typed \in 0 .. MaxTyped
HistoryTypes ==
    /\ exchange \in [Clients -> {NoExchange} \cup Commands]
    /\ mixed \in BOOLEAN /\ dropped \in BOOLEAN
    /\ failed \in [Clients -> Nat]
TypeOK == ServerTypes /\ GlobalTypes /\ StreamTypes /\ ClientTypes /\ HistoryTypes

Init ==
    /\ status = "up" /\ backlog = <<>> /\ fdOf = [c \in Clients |-> 0]
    /\ tmp_fds = {} /\ leaked = {}
    /\ client_attempts = [s \in 0 .. N - 1 |-> 0]
    /\ list = FALSE /\ flist = None /\ eroare = FALSE
    /\ inbox = [c \in Clients |-> <<>>] /\ outbox = [c \in Clients |-> <<>>]
    /\ pc = [c \in Clients |-> "off"]
    /\ authenticated = [c \in Clients |-> FALSE]
    /\ command = [c \in Clients |-> None] /\ buffer = [c \in Clients |-> None]
    /\ typed = 0
    /\ exchange = [c \in Clients |-> NoExchange] /\ mixed = FALSE /\ dropped = FALSE
    /\ failed = [c \in Clients |-> 0]

-----------------------------------------------------------------------------
(* The server. *)

Ended(c) == pc[c] = "ended"
Readable(c) == fdOf[c] # 0 /\ (inbox[c] # <<>> \/ Ended(c))
AllFds == {fdOf[c] : c \in {d \in Clients : fdOf[d] # 0}}
          \cup IF backlog # <<>> THEN {sockfd} ELSE {}
ReadyFds == {fdOf[c] : c \in {d \in Clients : Readable(d)}}
            \cup IF backlog # <<>> THEN {sockfd} ELSE {}

select ==
    /\ status = "up" /\ tmp_fds = {} /\ ReadyFds # {}
    /\ tmp_fds' = ReadyFds
    /\ UNCHANGED <<status, backlog, fdOf, leaked, globals, inbox, outbox,
                   clientVars, history>>

(* The loop over the descriptors visits the ready ones in order. *)
Visits(fd) == status = "up" /\ tmp_fds # {} /\ fd = Min(tmp_fds)
Visited == tmp_fds' = tmp_fds \ {Min(tmp_fds)}

LowestFree == Min((FirstFree .. FirstFree + Cardinality(Clients)
                                + Cardinality(leaked))
                  \ (leaked \cup {fdOf[c] : c \in Clients}))

Slot(fd) == fd % N
Reset(fd) == client_attempts' = [client_attempts EXCEPT ![Slot(fd)] = 0]

accept ==
    /\ Visits(sockfd) /\ Visited
    /\ fdOf' = [fdOf EXCEPT ![Head(backlog)] = LowestFree]
    /\ backlog' = Tail(backlog)
    /\ Reset(sockfd)
    /\ failed' = [failed EXCEPT ![Head(backlog)] = 0]
    /\ UNCHANGED <<status, leaked, list, flist, eroare, inbox, outbox,
                   clientVars, exchange, mixed, dropped>>

(* close and FD_CLR, when the connection is closed by the server: what the *)
(* client still sends is dropped. *)
ForgetFd(c) == UNCHANGED fdOf
CloseFd(c) == fdOf' = [fdOf EXCEPT ![c] = 0]

(* The client has gone.  Had it replies it never read, the connection is   *)
(* reset, recv fails and the server exits; else it closes its end. *)
hang_up(c) ==
    /\ Visits(fdOf[c]) /\ Visited
    /\ inbox[c] = <<>> /\ Ended(c)
    /\ IF outbox[c] = <<>>
       THEN CloseFd(c) /\ UNCHANGED status
       ELSE status' = "reset" /\ UNCHANGED fdOf
    /\ UNCHANGED <<backlog, leaked, globals, inbox, outbox, clientVars, history>>

(* recv reads k commands.  A typed command ends in a new line, and the     *)
(* first word is the command; "users" and "files" do not, and run into     *)
(* what follows. *)
Segment(c, k) ==
    IF k > 1 /\ inbox[c][1][1] \in {"users", "files"}
    THEN Cmd("other") ELSE inbox[c][1]

Receive(c, cmd) ==
    /\ Visits(fdOf[c]) /\ Visited
    /\ \E k \in 1 .. Len(inbox[c]) :
        /\ cmd = Segment(c, k)
        /\ inbox' = [inbox EXCEPT ![c] = SubSeq(@, k + 1, Len(@))]
        /\ dropped' = (dropped \/ k > 1)
    /\ failed' = [failed EXCEPT ![c] = CASE cmd = Login("wrong") -> @ + 1
                                              [] cmd = Login("right") -> @
                                              [] OTHER -> 0]
    /\ UNCHANGED <<backlog, clientVars>>

Send(c, kind, content) ==
    outbox' = [outbox EXCEPT ![c] = Append(@, <<kind, content>>)]

BruteForceLate(attempts) == attempts > 3
BruteForce(attempts) == attempts = 3

login(c) ==
    \/ /\ Receive(c, Login("right"))
       /\ Send(c, "AUTHENTICATED", None)
       /\ UNCHANGED <<status, fdOf, leaked, globals, exchange, mixed>>
    \/ LET attempts == client_attempts[Slot(fdOf[c])] + 1 IN
       /\ Receive(c, Login("wrong"))
       /\ \/ /\ BruteForce(attempts)
             /\ Reset(fdOf[c])
             /\ Send(c, "-8", None) /\ CloseFd(c)
          \/ /\ ~BruteForce(attempts)
             /\ client_attempts' =
                    [client_attempts EXCEPT ![Slot(fdOf[c])] = attempts]
             /\ Send(c, "-3", None)
             /\ UNCHANGED fdOf
       /\ UNCHANGED <<status, leaked, list, flist, eroare, exchange, mixed>>

logout(c) ==
    /\ Receive(c, Cmd("logout"))
    /\ Reset(fdOf[c])
    /\ UNCHANGED <<status, fdOf, leaked, list, flist, eroare, outbox, exchange,
                   mixed>>

Begin(c, request) ==
    /\ exchange' = [exchange EXCEPT ![c] = request]
    /\ mixed' = (mixed \/ \E d \in Clients : exchange[d] # NoExchange)
Finish(c) == exchange' = [exchange EXCEPT ![c] = NoExchange] /\ UNCHANGED mixed

getuserlist(c) ==
    /\ Receive(c, Cmd("getuserlist"))
    /\ Reset(fdOf[c])
    /\ list' = TRUE
    /\ Send(c, "size", None)
    /\ Begin(c, Cmd("getuserlist"))
    /\ UNCHANGED <<status, fdOf, leaked, flist, eroare>>

RefuseSilently(c) == UNCHANGED outbox
Refuse(c) == Send(c, "-11", None)

getfilelist(c) ==
    \E n \in Names :
        /\ Receive(c, GetFiles(n))
        /\ Reset(fdOf[c])
        /\ Begin(c, GetFiles(n))
        /\ \/ /\ n \in Known \cap Dirs
              /\ flist' = n
              /\ leaked' = leaked \cup {LowestFree}
              /\ Send(c, "size", None)
              /\ UNCHANGED <<status, eroare>>
           \/ /\ n \in Known \ Dirs
              /\ status' = "no directory"
              /\ UNCHANGED <<flist, leaked, outbox, eroare>>
           \/ /\ n \notin Known
              /\ eroare' = TRUE
              /\ Refuse(c)
              /\ UNCHANGED <<status, flist, leaked>>
        /\ UNCHANGED <<fdOf, list>>

(* strlen of a list that is not there ends the process. *)
users(c) ==
    /\ Receive(c, Cmd("users"))
    /\ IF list
       THEN Send(c, "list", None) /\ UNCHANGED status
       ELSE status' = "no list" /\ UNCHANGED outbox
    /\ list' = FALSE
    /\ Finish(c)
    /\ UNCHANGED <<fdOf, leaked, client_attempts, flist, eroare>>

ForgetFilesOnly == flist' = None /\ UNCHANGED eroare
ForgetFiles == flist' = None /\ eroare' = FALSE

files(c) ==
    /\ Receive(c, Cmd("files"))
    /\ \/ eroare /\ Refuse(c) /\ UNCHANGED status
       \/ ~eroare /\ flist # None /\ Send(c, "list", flist) /\ UNCHANGED status
       \/ ~eroare /\ flist = None /\ status' = "no list" /\ UNCHANGED outbox
    /\ ForgetFiles
    /\ Finish(c)
    /\ UNCHANGED <<fdOf, leaked, client_attempts, list>>

quit(c) ==
    /\ Receive(c, Cmd("quit"))
    /\ Reset(fdOf[c])
    /\ CloseFd(c)
    /\ UNCHANGED <<status, leaked, list, flist, eroare, outbox, exchange, mixed>>

other(c) ==
    /\ Receive(c, Cmd("other"))
    /\ Reset(fdOf[c])
    /\ Send(c, "error", None)
    /\ UNCHANGED <<status, fdOf, leaked, list, flist, eroare, exchange, mixed>>

ServerStep ==
    \/ select
    \/ accept
    \/ \E c \in Clients :
        \/ hang_up(c) \/ login(c) \/ logout(c) \/ getuserlist(c)
        \/ getfilelist(c) \/ users(c) \/ files(c) \/ quit(c) \/ other(c)

-----------------------------------------------------------------------------
(* The clients. *)

Connected(c) == status = "up" /\ (fdOf[c] # 0 \/ \E i \in DOMAIN backlog : backlog[i] = c)

ClearLocals(c) ==
    /\ authenticated' = [authenticated EXCEPT ![c] = FALSE]
    /\ command' = [command EXCEPT ![c] = None]
    /\ buffer' = [buffer EXCEPT ![c] = None]

(* A new process takes a seat whose last connection is closed. *)
connect(c) ==
    /\ pc[c] \in {"off", "ended"} /\ status = "up" /\ ~Connected(c)
    /\ typed < MaxTyped
    /\ backlog' = Append(backlog, c)
    /\ pc' = [pc EXCEPT ![c] = "select"]
    /\ ClearLocals(c)
    /\ inbox' = [inbox EXCEPT ![c] = <<>>]
    /\ outbox' = [outbox EXCEPT ![c] = <<>>]
    /\ UNCHANGED <<status, fdOf, tmp_fds, leaked, globals, typed, history>>

(* What is sent on a closed connection is dropped. *)
ClientSend(c, cmd) ==
    inbox' = IF Connected(c) THEN [inbox EXCEPT ![c] = Append(@, cmd)] ELSE inbox

TypeLine(c, cmd) ==
    /\ pc[c] = "select" /\ typed < MaxTyped /\ status = "up"
    /\ typed' = typed + 1
    /\ command' = [command EXCEPT ![c] = IF cmd[1] = "quit" THEN None ELSE cmd[1]]
    /\ buffer' = [buffer EXCEPT ![c] = None]
    /\ UNCHANGED <<server, globals, outbox, history>>

(* Refused without a word to the server: "-2" and "-1". *)
type_refused(c, cmd) ==
    /\ TypeLine(c, cmd)
    /\ \/ cmd[1] = "login" /\ authenticated[c]
       \/ cmd[1] \in {"logout", "getuserlist"} /\ ~authenticated[c]
    /\ UNCHANGED <<inbox, pc, authenticated>>

type_sent(c, cmd) ==
    /\ TypeLine(c, cmd)
    /\ cmd[1] = "login" => ~authenticated[c]
    /\ cmd[1] \in {"logout", "getuserlist"} => authenticated[c]
    /\ ClientSend(c, cmd)
    /\ pc' = [pc EXCEPT ![c] =
                CASE cmd[1] = "quit" -> "ended"
                  [] cmd[1] \in {"getuserlist", "getfilelist"} -> "size"
                  [] OTHER -> "select"]
    /\ authenticated' =
        [authenticated EXCEPT ![c] = @ /\ cmd[1] \notin {"logout", "quit"}]

(* The blocking recv after getuserlist or getfilelist, and the second      *)
(* request.  Whatever reply comes first is taken for the size; on a closed *)
(* connection recv returns at once and leaves the buffer. *)
receive_size(c) ==
    /\ pc[c] = "size"
    /\ \/ /\ outbox[c] # <<>>
          /\ buffer' = [buffer EXCEPT ![c] = Head(outbox[c])[1]]
          /\ outbox' = [outbox EXCEPT ![c] = Tail(@)]
       \/ outbox[c] = <<>> /\ ~Connected(c) /\ UNCHANGED <<buffer, outbox>>
    /\ ClientSend(c, Cmd(IF command[c] = "getuserlist" THEN "users" ELSE "files"))
    /\ pc' = [pc EXCEPT ![c] = "select"]
    /\ UNCHANGED <<server, globals, authenticated, command, typed, history>>

(* A reply is read into buffer unless the last command asked for a list;   *)
(* the word that decides is the one in buffer all the same. *)
receive_reply(c) ==
    LET asked == command[c] \in {"getuserlist", "getfilelist"}
        word == IF asked THEN buffer[c] ELSE Head(outbox[c])[1] IN
    /\ pc[c] = "select" /\ outbox[c] # <<>>
    /\ outbox' = [outbox EXCEPT ![c] = Tail(@)]
    /\ buffer' = [buffer EXCEPT ![c] = word]
    /\ authenticated' = [authenticated EXCEPT ![c] = @ \/ word = "AUTHENTICATED"]
    /\ pc' = [pc EXCEPT ![c] = IF word = "-8" /\ ~asked THEN "ended" ELSE @]
    /\ UNCHANGED <<server, globals, inbox, command, typed, history>>

(* The user interrupts a client that waits in the middle of a request. *)
kill(c) ==
    /\ pc[c] = "size"
    /\ pc' = [pc EXCEPT ![c] = "ended"]
    /\ ClearLocals(c)
    /\ UNCHANGED <<server, globals, inbox, outbox, typed, history>>

ClientStep(c) ==
    \/ connect(c) \/ receive_size(c) \/ receive_reply(c) \/ kill(c)
    \/ \E cmd \in Typed[c] : type_refused(c, cmd) \/ type_sent(c, cmd)

Next == ServerStep \/ \E c \in Clients : ClientStep(c)

Spec == Init /\ [][Next]_vars

(* The server is a runnable process, and so is a client with something to  *)
(* read from its socket.  Nothing makes a user type. *)
FairSpec ==
    /\ Spec
    /\ WF_vars(ServerStep)
    /\ \A c \in Clients : WF_vars(receive_size(c) \/ receive_reply(c))

-----------------------------------------------------------------------------
(* Properties. *)

(* A recv or accept of the loop never blocks the server: each descriptor   *)
(* still to be visited is open, belongs to one client (never to one that   *)
(* was accepted meanwhile, nor to a directory), and has something to read. *)
(* selectserver.c:108-143. *)
ReadyStaysReady ==
    /\ \A c, d \in Clients :
        fdOf[c] # 0 => fdOf[c] \notin leaked /\ (c # d => fdOf[c] # fdOf[d])
    /\ \A fd \in tmp_fds :
        \/ fd = sockfd /\ backlog # <<>>
        \/ \E c \in Clients : fdOf[c] = fd /\ Readable(c)

(* The list a client is about to be sent is the one it asked for, and it   *)
(* is there, as long as no two requests of two steps have overlapped (be   *)
(* it because a client was interrupted in the middle) and no command was   *)
(* lost in the segment of another.  selectserver.c:225-463. *)
Answered ==
    /\ status # "no list"
    /\ \A c \in Clients :
        /\ exchange[c] = Cmd("getuserlist") => list
        /\ \A n \in Names : exchange[c] = GetFiles(n) /\ status = "up" =>
            IF n \in Known THEN flist = n /\ ~eroare ELSE eroare
AnswersTheRequest == mixed \/ dropped \/ Answered

(* A client is told that it tries passwords by force only after three      *)
(* wrong ones of its own.  selectserver.c:87-89, 190-192; does    *)
(* not hold, because clients share counters.  *)
OwnAttempts ==
    \A c \in Clients :
        fdOf[c] = 0 /\ <<"-8", None>> \in Range(outbox[c]) => failed[c] = 3

(* A client that waits for the size of a list gets an answer or learns     *)
(* that the server has gone, unless its request was lost in the segment of *)
(* another.  client.c:157-165, 198-206. *)
SizeAnswered ==
    \A c \in Clients : pc[c] = "size" ~> pc[c] # "size" \/ dropped

(* The descriptor of a client that has ended is closed, or the server is   *)
(* down.  selectserver.c:134-143, 464-470. *)
Released ==
    \A c \in Clients :
        Ended(c) /\ fdOf[c] # 0 ~> fdOf[c] = 0 \/ status # "up"
=============================================================================
