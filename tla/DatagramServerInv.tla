--------------------------- MODULE DatagramServerInv ---------------------------
(***************************************************************************)
(* What the two safety properties of the datagram server rest on: where a   *)
(* conversation stands, by what is on its way in the two directions and     *)
(* what the search of the number knows of it.                               *)
(***************************************************************************)
EXTENDS DatagramServer

(* The words of the texts, and what is sent in either direction.            *)
Words == {"text", "word", "Hello", "YEY", "OK", "random", "smaller", "bigger",
          "success", "exit"}
Answer == ({"word"} \X Words) \cup ({"number"} \X Int)
              \cup ({"control"} \X {"ACK", "NACK", "garbage"})
Replies(m) == CASE m = "none" -> {} [] m = "parity" -> {"ACK", "NACK"} [] OTHER -> {"ACK"}
Message(m) ==
    [text : Texts \cup Replies(m), letter : Letters \cup {Plain}, flip : 0 .. NoFlip]
Guessing == {"game", "smaller", "bigger"}
Locals == [low : Int, high : Int, mid : Int, t : Answer]

(* What may be expected while a text is discussed.                          *)
Expectable(text) ==
    CASE text = "hello" -> {<<"Hello">>, <<>>}
      [] text = "second" -> {<<"YEY", "OK">>, <<"OK">>, <<>>}
      [] text \in Guessing -> {<<"number">>}
      [] text = "bye" -> {<<"exit">>, <<>>}
      [] OTHER -> {<<>>}

Clients ==
    [pc : {"say", "ack", "listen", "pass", "fail"}, saying : Texts,
     expect : Seq(Words \cup {"number"}), tries : 0 .. MaxTries, flips : Nat, backflips : Nat]

DatagramTypeOK ==
    /\ mode \in {"none", "ack", "parity", "hamming"}
    /\ number \in Int
    /\ client \in Clients
    /\ client.pc \in {"ack", "listen"} => client.expect \in Expectable(client.saying)
    /\ toServer \in Seq(Message(mode))
    /\ toClient \in Seq(Answer)
    /\ locals \in Locals

(* The number is chosen before the game; the tries are counted in it.       *)
Chosen ==
    /\ client.saying \in Guessing \cup {"success", "bye"} => number \in 0 .. High - 1
    /\ client.saying \notin Guessing \cup {"success", "bye"} => client.tries = 0

(* The interval of the search before the server narrows it, and after.      *)
ToNarrow ==
    /\ client.saying = "game" => client.tries = 0
    /\ client.saying = "smaller" =>
        /\ locals.low <= number /\ number < locals.mid
        /\ locals.mid - locals.low <= Reach[MaxTries - client.tries]
    /\ client.saying = "bigger" =>
        /\ locals.mid < number /\ number <= locals.high
        /\ locals.high - locals.mid <= Reach[MaxTries - client.tries]
Narrow ==
    client.saying \in Guessing =>
        /\ locals.low <= number /\ number <= locals.high
        /\ locals.mid = Half(locals.low + locals.high)
        /\ locals.high - locals.low + 1 <= Reach[MaxTries - client.tries]

(* What the server answers nothing to; a text may come after.               *)
Silent(m) == IF mode = "none" THEN m.text \in {"yey", "first", "success"} ELSE m.text = "ACK"
Quiet == \A k \in DOMAIN toServer : Silent(toServer[k])
Asked(text) ==
    /\ toServer # <<>> /\ toServer[Len(toServer)].text = text
    /\ \A k \in 1 .. Len(toServer) - 1 : Silent(toServer[k])

Told ==
    [k \in DOMAIN client.expect |->
        IF client.expect[k] = "number" THEN Guessed(locals.mid) ELSE Word(client.expect[k])]
LastTold == client.expect # <<>> => locals.t = Told[Len(client.expect)]

Saying == client.pc = "say" /\ Quiet /\ toClient = <<>> /\ ToNarrow
HasAsked ==
    /\ client.pc = IF mode = "none" THEN "listen" ELSE "ack"
    /\ client.expect = Expects(client.saying) /\ (mode = "none" => client.expect # <<>>)
    /\ Asked(client.saying) /\ toClient = <<>> /\ ToNarrow
Acknowledged ==
    /\ client.pc = "ack" /\ mode # "none" /\ client.expect = Expects(client.saying)
    /\ Quiet /\ toClient = <<Control("ACK")>> \o Told /\ LastTold /\ Narrow
Refused ==
    /\ client.pc = "ack" /\ mode = "parity"
    /\ Quiet /\ toClient = <<Control("NACK")>> /\ ToNarrow
Listening ==
    /\ client.pc = "listen" /\ client.expect \in Expectable(client.saying)
    /\ Quiet /\ toClient = Told /\ LastTold /\ Narrow
AskedAgain ==
    /\ client.pc = "listen" /\ mode = "parity"
    /\ client.expect \in Expectable(client.saying) /\ Len(client.expect) = 1
    /\ Asked("NACK") /\ toClient = <<>> /\ LastTold /\ Narrow

(* The first of two answers was refused: the client hears only the second.  *)
Astray ==
    /\ mode = "parity" /\ client.saying = "second" /\ client.backflips > 0
    /\ client.pc \in {"listen", "fail"} /\ client.expect = <<"YEY", "OK">>
    /\ \A k \in DOMAIN toServer : toServer[k].text \in {"ACK", "NACK"}
    /\ \A k \in DOMAIN toClient : toClient[k] = Word("OK")
    /\ locals.t = Word("OK")

Conversation ==
    \/ lost \/ client.pc = "pass" \/ Astray
    \/ /\ Chosen
       /\ Saying \/ HasAsked \/ Acknowledged \/ Refused \/ Listening \/ AskedAgain

DatagramInvariant == DatagramTypeOK /\ ~misread /\ Conversation
=============================================================================
