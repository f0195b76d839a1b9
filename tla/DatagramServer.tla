--------------------------- MODULE DatagramServer ---------------------------
(***************************************************************************)
(* "TCP server/server.c": a server that talks to one client through the    *)
(* link emulator.  It sends back the words that follow "word" in a text    *)
(* and guesses a number by binary search.  It runs in one of four modes:   *)
(* plain, with acknowledgements, with a parity bit, with a Hamming code.   *)
(* It counts the datagrams it receives and stops after COUNT.              *)
(*                                                                         *)
(* A text is the sequence of its tokens, and one byte of it stands for all *)
(* of its bytes where they are coded and may be damaged on the way.  The   *)
(* client and the link are external: the client sends a text until it is   *)
(* acknowledged, and answers each number it is sent.                       *)
(*                                                                         *)
(* low, high, mid and t are locals that nothing initialises in a call that *)
(* reads them: they hold what the last call left there or something else.  *)
(***************************************************************************)
EXTENDS Integers, Sequences, FiniteSets, SequencesExt

CONSTANTS
    Modes,          \* of "none", "ack", "parity", "hamming"
    High,           \* the number is in [0, High)
    MaxTries,       \* guesses the client allows
    COUNT,          \* datagrams the server receives before it ends
    Letters,        \* bytes that stand for the first text
    MaxFlips,       \* bound: datagrams damaged on the way to the server
    MaxBackFlips    \* bound: answers the client refuses

Bit == 0 .. 1
Byte == [0 .. 7 -> Bit]         \* from the most significant bit
ByteOf(n) == [k \in 0 .. 7 |-> (n \div <<128, 64, 32, 16, 8, 4, 2, 1>>[k + 1]) % 2]
NoFlip == 16
Plain == 65         \* the byte that stands for every other text

ASSUME DatagramAssumption ==
    /\ Modes \subseteq {"none", "ack", "parity", "hamming"}
    /\ {High, MaxTries, COUNT, MaxFlips, MaxBackFlips} \subseteq Nat /\ High > 0
    /\ Letters \subseteq 0 .. 255

(* The numbers among which some guesses find one by halving; the client     *)
(* allows as many as the closed interval [0, High] needs.                   *)
Reach[n \in 0 .. MaxTries] == IF n = 0 THEN 0 ELSE 2 * Reach[n - 1] + 1
ASSUME EnoughGuesses == High + 1 <= Reach[MaxTries]

VARIABLES
    mode,
    number,         \* what the client has chosen, once it has said "second"
    client,         \* [pc, saying, expect, tries, flips, backflips]
    toServer, toClient,
    i,              \* datagrams received
    locals,         \* low, high, mid and t, in the frame of the test functions
    lost,           \* history: a local was read that no longer held its value
    misread         \* history: the server took a text for another one
vars == <<mode, number, client, toServer, toClient, i, locals, lost, misread>>

-----------------------------------------------------------------------------
(* Bits. *)
Xor(b, D) == (LET ones == {k \in D : b[k] = 1} IN Cardinality(ones)) % 2
Flip(b, p) == IF p \in DOMAIN b THEN [b EXCEPT ![p] = 1 - @] ELSE b
parity(b) == Xor(b, 0 .. 7)

(* D1 .. D8 are the bits of the byte; the code has four unused bits first. *)
P1(b) == Xor(b, {0, 1, 3, 4, 6})
P2(b) == Xor(b, {0, 2, 3, 5, 6})
P4(b) == Xor(b, {1, 2, 3, 7})
P8(b) == Xor(b, {4, 5, 6, 7})
coded_byte(b) ==
    [k \in 0 .. 15 |->
        CASE k < 4 -> 0
          [] k = 4 -> P1(b)
          [] k = 5 -> P2(b)
          [] k = 6 -> b[0]
          [] k = 7 -> P4(b)
          [] k \in 8 .. 10 -> b[k - 7]
          [] k = 11 -> P8(b)
          [] k > 11 -> b[k - 8]]
data_bits(e) ==
    [k \in 0 .. 7 |-> IF k = 0 THEN e[6] ELSE IF k < 4 THEN e[k + 7] ELSE e[k + 8]]
WrongPlace(sum) == sum + 4
Place(sum) == IF sum + 3 < 8 THEN sum + 3 ELSE 8 + ((sum + 3) % 8)
decoded_byte(e) ==
    LET b == data_bits(e)
        sum == (IF P1(b) # e[4] THEN 1 ELSE 0) + (IF P2(b) # e[5] THEN 2 ELSE 0)
             + (IF P4(b) # e[7] THEN 4 ELSE 0) + (IF P8(b) # e[11] THEN 8 ELSE 0) IN
    data_bits(IF sum = 0 THEN e ELSE Flip(e, Place(sum)))

(* What the server makes of a byte of which the link has damaged bit p. *)
coded == [n \in Letters \cup {Plain} |-> coded_byte(ByteOf(n))]
Decodes == [n \in Letters \cup {Plain} |-> [p \in 0 .. NoFlip |->
                decoded_byte(Flip(coded[n], p)) = ByteOf(n)]]

-----------------------------------------------------------------------------
(* The client's texts: their tokens, and what it expects back. *)
Tokens ==
    [hello   |-> <<"text", "word", "Hello", "text">>,
     yey     |-> <<"text">>,
     first   |-> <<"text">>,
     second  |-> <<"text", "word", "YEY", "text", "word", "OK", "text">>,
     game    |-> <<"text", "random", "text">>,
     smaller |-> <<"smaller">>, bigger |-> <<"bigger">>, success |-> <<"success">>,
     bye     |-> <<"text", "word", "exit">>]
Texts == DOMAIN Tokens
Expects(text) ==
    CASE text = "hello" -> <<"Hello">>
      [] text = "second" -> <<"YEY", "OK">>
      [] text \in {"game", "smaller", "bigger"} -> <<"number">>
      [] text = "bye" -> <<"exit">>
      [] OTHER -> <<>>
Following ==
    [hello |-> "yey", yey |-> "first", first |-> "second", second |-> "game",
     success |-> "bye"]
Word(w) == <<"word", w>>
Guessed(n) == <<"number", n>>
Control(c) == <<"control", c>>
Garbage == Control("garbage")

Init ==
    /\ mode \in Modes /\ number = -1
    /\ client = [pc |-> "say", saying |-> "hello", expect |-> <<>>, tries |-> 0,
                 flips |-> 0, backflips |-> 0]
    /\ toServer = <<>> /\ toClient = <<>>
    /\ i = 0
    /\ locals = [low |-> 0, high |-> 0, mid |-> 0, t |-> Garbage]
    /\ lost = FALSE /\ misread = FALSE

-----------------------------------------------------------------------------
(* The client, and the link which may damage one bit of what it sends. *)
Letter(text) == IF text = "yey" /\ mode \in {"parity", "hamming"} THEN Letters ELSE {Plain}
Flips(text) ==
    IF mode \notin {"parity", "hamming"} \/ client.flips = MaxFlips THEN {NoFlip}
    ELSE IF text = "yey" THEN 0 .. NoFlip ELSE {9, NoFlip}

say ==
    /\ client.pc = "say"
    /\ \E flip \in Flips(client.saying), letter \in Letter(client.saying) :
        /\ toServer' = Append(toServer, [text |-> client.saying, letter |-> letter,
                                         flip |-> flip])
        /\ client' = [client EXCEPT
                        !.pc = IF mode = "none" THEN "listen" ELSE "ack",
                        !.expect = Expects(client.saying),
                        !.flips = IF flip = NoFlip THEN @ ELSE @ + 1]
    /\ UNCHANGED <<mode, number, toClient, i, locals, lost, misread>>

(* Only with parity does it look at what it takes for an acknowledgement. *)
hear_ack ==
    /\ client.pc = "ack" /\ toClient # <<>>
    /\ client' = [client EXCEPT
                    !.pc = IF mode = "parity" /\ Head(toClient) # Control("ACK")
                           THEN "say" ELSE "listen"]
    /\ toClient' = Tail(toClient)
    /\ UNCHANGED <<mode, number, toServer, i, locals, lost, misread>>

Reply(text) == [text |-> text, letter |-> Plain, flip |-> NoFlip]
Answered(answer) ==
    IF Head(client.expect) = "number"
    THEN IF answer[1] # "number" THEN [client EXCEPT !.pc = "fail"]
         ELSE [client EXCEPT
                !.pc = "say", !.tries = @ + 1, !.expect = <<>>,
                !.saying = CASE answer[2] = number -> "success"
                             [] answer[2] < number -> "bigger"
                             [] answer[2] > number -> "smaller"]
    ELSE IF answer # Word(Head(client.expect)) THEN [client EXCEPT !.pc = "fail"]
    ELSE [client EXCEPT !.expect = Tail(@)]

(* An answer is acknowledged; with parity, one with a wrong bit is refused, *)
(* and what was never written has any parity. *)
hear ==
    /\ client.pc = "listen" /\ client.expect # <<>> /\ toClient # <<>>
    /\ ~(client.expect = <<"number">> /\ client.tries = MaxTries)
    /\ toClient' = Tail(toClient)
    /\ \/ /\ client' = Answered(Head(toClient))
          /\ toServer' = IF mode = "none" THEN toServer
                         ELSE Append(toServer, Reply("ACK"))
       \/ /\ mode = "parity"
          /\ client.backflips < MaxBackFlips
          /\ client' = [client EXCEPT !.backflips = @ + 1]
          /\ toServer' = Append(toServer, Reply("NACK"))
    /\ UNCHANGED <<mode, number, i, locals, lost, misread>>

go_on ==
    /\ client.pc = "listen"
    /\ \/ /\ client.expect = <<>>
          /\ client' = IF client.saying = "bye" THEN [client EXCEPT !.pc = "pass"]
                       ELSE [client EXCEPT !.pc = "say",
                                           !.saying = Following[client.saying]]
       \/ /\ client.expect = <<"number">> /\ client.tries = MaxTries
          /\ client' = [client EXCEPT !.pc = "fail"]
    /\ number' \in IF client.saying = "second" THEN 0 .. High - 1 ELSE {number}
    /\ UNCHANGED <<mode, toServer, toClient, i, locals, lost, misread>>

-----------------------------------------------------------------------------
(* The functions test_0, test_parity and test_hamming walk over the tokens. *)
(* i counts the tokens "word"; j is i just after one of them, and never    *)
(* again before the next. *)
TokenUncounted(s, token) ==
    IF token = "word" THEN [s EXCEPT !.j = s.i]
    ELSE IF s.j + 1 = s.i THEN [s EXCEPT !.j = @ + 1, !.a = Append(@, Word(token))]
    ELSE [s EXCEPT !.j = @ + 1]
Token(s, token) ==
    IF token = "word" THEN [s EXCEPT !.j = s.i, !.i = @ + 1]
    ELSE IF s.j + 1 = s.i THEN [s EXCEPT !.j = @ + 1, !.a = Append(@, Word(token))]
    ELSE [s EXCEPT !.j = @ + 1]
Walk(tokens) ==
    LET walk[n \in 0 .. Len(tokens)] ==
            IF n = 0 THEN [i |-> 0, j |-> 0, a |-> <<>>]
            ELSE Token(walk[n - 1], tokens[n]) IN
    walk[Len(tokens)].a
a == [text \in Texts |-> Walk(Tokens[text])]

(* Meanwhile they guess, once: at "random", or when the text is the one    *)
(* token "smaller" or "bigger". *)
Half(n) == IF n < 0 THEN -((-n) \div 2) ELSE n \div 2      \* C division
Guess(l) == [l EXCEPT !.mid = Half(l.low + l.high)]
Interval(l) == Guess([l EXCEPT !.low = 0, !.high = High])
Smaller(l) == Guess([l EXCEPT !.high = l.mid - 1])
BiggerKeepsMid(l) == Guess([l EXCEPT !.low = l.mid])
Bigger(l) == Guess([l EXCEPT !.low = l.mid + 1])

Narrowed(text, l) ==
    CASE text = "game" -> Interval(l)
      [] text = "smaller" -> Smaller(l)
      [] text = "bigger" -> Bigger(l)
      [] OTHER -> l
Guesses(text, l) ==
    IF text \in {"game", "smaller", "bigger"} THEN <<Guessed(Narrowed(text, l).mid)>>
    ELSE <<>>
test(text, l) == Guesses(text, l) \o a[text]

(* The frame of the last call, or what other calls left in its place. *)
Zeros == [low |-> 0, high |-> 0, mid |-> 0, t |-> Garbage]
Frame == IF mode = "hamming" THEN {locals, Zeros} ELSE {locals}

Answers(before, text) ==
    \E l \in Frame :
        /\ toClient' = toClient \o before \o test(text, l)
        /\ locals' = [Narrowed(text, l) EXCEPT
                        !.t = IF test(text, l) = <<>> THEN @ ELSE Last(test(text, l))]
        /\ lost' = (lost \/ (l # locals /\ text \in {"smaller", "bigger"}))
Send(answer) == toClient' = toClient \o answer /\ UNCHANGED <<locals, lost>>

Serve ==
    /\ toServer # <<>> /\ i < COUNT
    /\ i' = i + 1
    /\ toServer' = Tail(toServer)
    /\ UNCHANGED <<mode, number, client>>
Received == Head(toServer)

main_none ==
    /\ Serve /\ mode = "none"
    /\ Answers(<<>>, Received.text)
    /\ UNCHANGED misread

main_ack ==
    /\ Serve /\ mode = "ack"
    /\ IF Received.text = "ACK" THEN Send(<<>>)
       ELSE Answers(<<Control("ACK")>>, Received.text)
    /\ UNCHANGED misread

(* The parity character of the text, then the text; the damaged bit is in  *)
(* one or the other.  A NACK has the last answer, if t still holds it,     *)
(* sent again. *)
InputBit(m, b) == (parity(b) + (IF m.flip = 7 THEN 1 ELSE 0)) % 2
main_parity ==
    LET m == Received
        sent == ByteOf(m.letter)
        b == Flip(sent, m.flip - 8) IN
    /\ Serve /\ mode = "parity"
    /\ \/ /\ m.text \in Texts /\ InputBit(m, sent) # parity(b)
          /\ Send(<<Control("NACK")>>)
          /\ UNCHANGED misread
       \/ /\ m.text \in Texts /\ InputBit(m, sent) = parity(b)
          /\ Answers(<<Control("ACK")>>, m.text)
          /\ misread' = (misread \/ b # sent)
       \/ /\ m.text = "ACK" /\ Send(<<>>)
          /\ UNCHANGED misread
       \/ /\ m.text = "NACK"
          /\ \E t \in {locals.t, Garbage} :
                /\ toClient' = Append(toClient, t)
                /\ lost' = (lost \/ t = Garbage)
          /\ UNCHANGED <<locals, misread>>

main_hamming ==
    LET m == Received IN
    /\ Serve /\ mode = "hamming"
    /\ \/ /\ m.text = "ACK" /\ Send(<<>>)
          /\ UNCHANGED misread
       \/ /\ m.text \in Texts
          /\ Answers(<<Control("ACK")>>, m.text)
          /\ misread' = (misread \/ ~Decodes[m.letter][m.flip])

-----------------------------------------------------------------------------
Server == main_none \/ main_ack \/ main_parity \/ main_hamming
Client == say \/ hear_ack \/ hear \/ go_on
Next == Client \/ Server
Spec == Init /\ [][Next]_vars /\ WF_vars(Client) /\ WF_vars(Server)

-----------------------------------------------------------------------------
(* Whatever bit of a text the link damages, the server never takes the     *)
(* text for another one: the parity refuses it, the code corrects it. *)
Understood == ~misread

(* The client's game is won within the guesses it allows, and its words    *)
(* come back, unless a local was read that no longer held its value, or    *)
(* the first of two answers was refused: the server repeats the second. *)
GameWon ==
    client.pc = "fail" => lost \/ (client.saying = "second" /\ client.backflips > 0)

(* The conversation comes to its end, within the datagrams the server      *)
(* counts: no side waits for ever for what the other will not send. *)
Finishes == <>(client.pc \in {"pass", "fail"} \/ lost)
=============================================================================
