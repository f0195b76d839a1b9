---------------------------- MODULE ChatServerMC ----------------------------
(***************************************************************************)
(* An instance of ChatServer for TLC: a user with a directory, one without *)
(* and a name that is nobody's.                                            *)
(***************************************************************************)
EXTENDS ChatServerInv, TLC

CONSTANTS c1, c2

(* One user types everything; the other one signs in and asks for files. *)
TypedAll ==
    c1 :> {Login("right"), Login("wrong"), Cmd("logout"), Cmd("getuserlist"),
           GetFiles("ana"), GetFiles("dan"), GetFiles("nobody"), Cmd("quit"),
           Cmd("other")}
    @@ c2 :> {Login("wrong"), GetFiles("ana")}
=============================================================================
