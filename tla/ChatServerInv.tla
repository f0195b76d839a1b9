---------------------------- MODULE ChatServerInv ----------------------------
(***************************************************************************)
(* The inductive invariants behind the safety properties of ChatServer.    *)
(***************************************************************************)
EXTENDS ChatServer

(* Descriptors are handed out above the files', and a connection that waits *)
(* to be accepted has none yet and waits only once.                         *)
InvFds ==
    /\ IsFiniteSet(leaked)
    /\ \A c \in Clients : fdOf[c] # 0 => fdOf[c] >= FirstFree
    /\ \A i, j \in DOMAIN backlog :
        fdOf[backlog[i]] = 0 /\ (backlog[i] = backlog[j] => i = j)

LoopInv == TypeOK /\ ReadyStaysReady /\ InvFds

(* The second request of the two steps, and the first one it belongs to. *)
Follows(second, first) ==
    \/ second = Cmd("users") /\ first = Cmd("getuserlist")
    \/ second = Cmd("files") /\ \E n \in Names : first = GetFiles(n)

(* What the server has begun for a client, and then what is on its way. *)
Before(c, i) == IF i = 1 THEN exchange[c] ELSE inbox[c][i - 1]

(* A client sends the second request right after the first one. *)
InvStream ==
    \A c \in Clients : \A i \in 1 .. Len(inbox[c]) :
        inbox[c][i] \in {Cmd("users"), Cmd("files")} => Follows(inbox[c][i], Before(c, i))

(* A client in recv for a size has sent nothing after the first request. *)
InvWaiting ==
    \A c \in Clients : pc[c] = "size" /\ Connected(c) =>
        Follows(Cmd(IF command[c] = "getuserlist" THEN "users" ELSE "files"),
                Before(c, Len(inbox[c]) + 1))

(* Requests of two steps that do not overlap are made one at a time, and    *)
(* the error flag belongs to the one that is being made.                    *)
InvSingle ==
    /\ \A c, d \in Clients :
        exchange[c] # NoExchange /\ exchange[d] # NoExchange => c = d
    /\ eroare => \E c \in Clients, n \in Names \ Known : exchange[c] = GetFiles(n)

Served == InvStream /\ InvWaiting /\ InvSingle /\ Answered
RequestInv == mixed \/ dropped \/ Served

(* Nobody types the second requests: the clients' programs send them. *)
UsersAskInOrder ==
    \A c \in Clients : Typed[c] \cap {Cmd("users"), Cmd("files")} = {}
=============================================================================
