------------------------------ MODULE LossyFifo ------------------------------
(***************************************************************************)
(* What one direction of the link emulator promises: an ordered channel    *)
(* that may lose or damage a datagram but never reorders, duplicates or    *)
(* invents one.  Datagrams are numbered in the order in which they are     *)
(* sent.                                                                   *)
(***************************************************************************)
EXTENDS Naturals, Sequences, SequencesExt

VARIABLES
    sent,       \* number of datagrams sent
    channel,    \* datagrams on their way, the oldest first
    delivered   \* datagrams that have come out, in order

vars == <<sent, channel, delivered>>

Datagram == [id : Nat, damaged : BOOLEAN]

Init ==
    /\ sent = 0
    /\ channel = <<>>
    /\ delivered = <<>>

Send ==
    /\ sent' = sent + 1
    /\ channel' = Append(channel, [id |-> sent', damaged |-> FALSE])
    /\ UNCHANGED delivered

(* A datagram is damaged on its way. *)
Damage ==
    /\ \E i \in DOMAIN channel :
         channel' = [channel EXCEPT ![i] = [id |-> @.id, damaged |-> TRUE]]
    /\ UNCHANGED <<sent, delivered>>

Lose ==
    /\ \E i \in DOMAIN channel : channel' = RemoveAt(channel, i)
    /\ UNCHANGED <<sent, delivered>>

Deliver ==
    /\ channel # <<>>
    /\ delivered' = Append(delivered, Head(channel))
    /\ channel' = Tail(channel)
    /\ UNCHANGED sent

Next == Send \/ Damage \/ Lose \/ Deliver

Spec == Init /\ [][Next]_vars

(* What has been delivered and what is on its way is in the order of        *)
(* sending, none twice and none that was not sent.                          *)
InOrder ==
    LET all == delivered \o channel IN
    /\ \A i \in DOMAIN all : all[i].id \in 1 .. sent
    /\ \A i, j \in DOMAIN all : i < j => all[i].id < all[j].id
=============================================================================
