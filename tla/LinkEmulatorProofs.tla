-------------------------- MODULE LinkEmulatorProofs --------------------------
(***************************************************************************)
(* The invariant of the link emulator is inductive, and what each direction *)
(* of it does with the datagrams implements LossyFifo.                      *)
(***************************************************************************)
EXTENDS LinkEmulator, SequenceTheorems, TLAPS

(* Elements of sequences, as the steps below use them. *)
LEMMA SeqFacts ==
    ASSUME NEW S, NEW s \in Seq(S)
    PROVE  /\ Len(s) \in Nat
           /\ s # <<>> <=> Len(s) > 0
           /\ s # <<>> => /\ Head(s) \in S /\ Head(s) = s[1]
                          /\ Tail(s) \in Seq(S) /\ Len(Tail(s)) = Len(s) - 1
                          /\ \A i \in 1 .. Len(s) - 1 : Tail(s)[i] = s[i + 1]
           /\ \A i \in 1 .. Len(s) : s[i] \in S
           /\ DOMAIN s = 1 .. Len(s)
BY EmptySeq, LenProperties, HeadTailProperties, ElementOfSeq

Flight == [m : Datagram, finish_time : Nat]

(* The datagram at the head of the wire. *)
LEMMA HeadOfWire ==
    ASSUME NEW s \in Seq(Flight), s # <<>>
    PROVE  /\ Head(s) = s[1]
           /\ Head(s).m \in Datagram
           /\ Head(s).finish_time \in Nat
<1>1. Head(s) \in Flight /\ Head(s) = s[1]
  BY SeqFacts
<1> QED BY <1>1 DEF Flight

LEMMA TypeStep ==
    ASSUME LinkInv, Next
    PROVE  TypeOK'
<1>0. TypeOK /\ InvHeld /\ StuffStays
  BY DEF LinkInv
<1>1. CASE Tick
  BY <1>0, <1>1 DEF TypeOK, InvHeld, Tick, LatestTimer, linkVars, schedVars,
        fwVars, revVars
<1>2. CASE read_error
  BY <1>0, <1>2 DEF TypeOK, InvHeld, read_error, linkVars, schedVars, fwVars,
        revVars
<1>3. CASE link_scheduler_top
  BY <1>0, <1>3 DEF TypeOK, InvHeld, link_scheduler_top, At, linkVars, fwVars,
        revVars
<1>4. CASE link_scheduler_send
  <2>1. /\ Head(in_flight) \in [m : Datagram, finish_time : Nat]
        /\ Tail(in_flight) \in Seq([m : Datagram, finish_time : Nat])
    BY <1>0, <1>4, SeqFacts DEF TypeOK, link_scheduler_send, Due
  <2>2. in_flight' = Tail(in_flight)
    BY <1>4 DEF link_scheduler_send, dequeue
  <2>3. delivered2' \in Seq(Datagram)
    BY <1>0, <1>4, <2>1, AppendProperties DEF TypeOK, link_scheduler_send, send_message2
  <2> QED BY <1>0, <1>4, <2>1, <2>2, <2>3
        DEF TypeOK, link_scheduler_send, At, linkVars, fwVars, revVars
<1>5. CASE link_scheduler_peek
  BY <1>0, <1>5 DEF TypeOK, InvHeld, link_scheduler_peek, At, Due, NotEmpty,
        linkVars, fwVars, revVars
<1>6. CASE link_scheduler_put
  <2>1. /\ crt_time + serialization_delay \in Nat
        /\ crt_time + serialization_delay + delay \in Nat
    BY <1>0, LinkAssumption DEF TypeOK
  <2>2. WireFree => /\ Head(buffer) \in Datagram
                    /\ Tail(buffer) \in Seq(Datagram)
    BY <1>0, <1>6, SeqFacts DEF TypeOK, link_scheduler_put
  <2>3. /\ idle_time' \in Nat
        /\ buffer' \in Seq(Datagram)
    BY <1>0, <1>6, <2>1, <2>2 DEF TypeOK, link_scheduler_put, dequeue
  <2>4. in_flight' \in Seq([m : Datagram, finish_time : Nat])
    <3>1. CASE WireFree
      <4> DEFINE new == [m |-> Head(buffer),
                         finish_time |-> crt_time + serialization_delay + delay]
      <4>1. new \in [m : Datagram, finish_time : Nat]
        BY <2>1, <2>2, <3>1
      <4>2. in_flight' = Append(in_flight, new)
        BY <1>6, <3>1 DEF link_scheduler_put, enqueue
      <4>3. in_flight \in Seq([m : Datagram, finish_time : Nat])
        BY <1>0 DEF TypeOK
      <4> HIDE DEF new
      <4> QED BY <4>1, <4>2, <4>3, AppendProperties
    <3>2. CASE ~WireFree
      BY <1>0, <1>6, <3>2 DEF TypeOK, link_scheduler_put
    <3> QED BY <3>1, <3>2
  <2>5. \A i, d \in Int : WaitTime(i, d) \in Nat
    BY DEF WaitTime
  <2>6. wake' \in Nat
    <3> DEFINE idle == idle_time' - crt_time
               due  == IF in_flight' = <<>> THEN 0
                       ELSE Head(in_flight').finish_time - crt_time
    <3>1. idle \in Int
      BY <1>0, <2>3 DEF TypeOK
    <3>2. due \in Int
      <4>1. in_flight' # <<>> => Head(in_flight').finish_time \in Nat
        BY <2>4, HeadOfWire DEF Flight
      <4> QED BY <1>0, <4>1 DEF TypeOK
    <3>3. wake' = clock + WaitTime(idle, due) \/ wake' = wake
      BY <1>6 DEF link_scheduler_put
    <3> HIDE DEF idle, due
    <3>4. WaitTime(idle, due) \in Nat
      BY <2>5, <3>1, <3>2
    <3> QED BY <1>0, <3>3, <3>4 DEF TypeOK
  <2> QED BY <1>0, <1>6, <2>3, <2>4, <2>6
        DEF TypeOK, link_scheduler_put, At, linkVars, fwVars, revVars
<1>7. CASE link_scheduler_wake
  BY <1>0, <1>7 DEF TypeOK, InvHeld, link_scheduler_wake, At, linkVars,
        fwVars, revVars
<1>8. CASE link_scheduler_idle
  BY <1>0, <1>8 DEF TypeOK, InvHeld, link_scheduler_idle, At, linkVars,
        fwVars, revVars
<1>9. CASE link_scheduler_resume
  BY <1>0, <1>9 DEF TypeOK, InvHeld, link_scheduler_resume, linkVars, fwVars,
        revVars
<1>10. CASE receive_message1_first
  BY <1>0, <1>10 DEF TypeOK, InvHeld, receive_message1_first, FwAt, schedVars,
        fwVars, revVars
<1>11. CASE receive_message1
  BY <1>0, <1>11 DEF TypeOK, InvHeld, Datagram, receive_message1, FwAt,
        linkVars, schedVars, revVars
<1>12. CASE run_forwarding_check
  BY <1>0, <1>12 DEF TypeOK, InvHeld, run_forwarding_check, FwAt, Full,
        linkVars, schedVars, revVars
<1>13. CASE run_forwarding_drop
  BY <1>0, <1>13 DEF TypeOK, InvHeld, run_forwarding_drop, FwAt, linkVars,
        schedVars, revVars
<1>14. CASE run_forwarding_enqueue
  BY <1>0, <1>14 DEF TypeOK, InvHeld, Datagram, run_forwarding_enqueue, FwAt,
        Chance, enqueue, pthread_cond_signal, linkVars, revVars
<1>15. CASE receive_message2_first
  BY <1>0, <1>15 DEF TypeOK, InvHeld, receive_message2_first, schedVars,
        fwVars, revVars
<1>16. CASE receive_message2
  BY <1>0, <1>16 DEF TypeOK, InvHeld, Datagram, receive_message2, linkVars,
        schedVars, fwVars
<1>17. CASE send_message1
  BY <1>0, <1>17 DEF TypeOK, InvHeld, send_message1, linkVars, schedVars,
        fwVars
<1> QED
  BY <1>1, <1>2, <1>3, <1>4, <1>5, <1>6, <1>7, <1>8, <1>9, <1>10, <1>11, <1>12, <1>13, <1>14, <1>15, <1>16, <1>17
     DEF Next, SchedulerStep, ForwardingStep

LEMMA LocalsStep ==
    ASSUME LinkInv, Next
    PROVE  InvHeld' /\ InvQueue' /\ StuffStays' /\ InvIdle' /\ NoSleepOnWork'
<1>0. /\ TypeOK
      /\ InvHeld /\ InvQueue /\ StuffStays /\ InvIdle /\ NoSleepOnWork
  BY DEF LinkInv
<1>1. CASE Tick
  BY <1>0, <1>1 DEF TypeOK, InvHeld, InvQueue, BufferBounded, StuffStays,
        InvIdle, NoSleepOnWork, Tick, LatestTimer, linkVars, schedVars,
        fwVars, revVars
<1>2. CASE read_error
  BY <1>0, <1>2 DEF TypeOK, InvHeld, InvQueue, BufferBounded, StuffStays,
        InvIdle, NoSleepOnWork, read_error, linkVars, schedVars, fwVars,
        revVars
<1>3. CASE link_scheduler_top
  BY <1>0, <1>3 DEF TypeOK, InvHeld, InvQueue, BufferBounded, StuffStays,
        InvIdle, NoSleepOnWork, link_scheduler_top, At, linkVars, fwVars,
        revVars
<1>4. CASE link_scheduler_send
  BY <1>0, <1>4 DEF TypeOK, InvHeld, InvQueue, BufferBounded, StuffStays,
        InvIdle, NoSleepOnWork, link_scheduler_send, At, Due, send_message2,
        dequeue, linkVars, fwVars, revVars
<1>5. CASE link_scheduler_peek
  <2>1. stuff' => buffer # <<>>
    BY <1>0, <1>5, SeqFacts DEF TypeOK, link_scheduler_peek, NotEmpty
  <2>2. in_flight # <<>> => crt_time < in_flight[1].finish_time
    <3>1. in_flight # <<>> => /\ Head(in_flight) = in_flight[1]
                              /\ Head(in_flight).finish_time \in Nat
      BY <1>0, HeadOfWire DEF TypeOK, Flight
    <3> QED BY <1>0, <1>5, <3>1 DEF TypeOK, link_scheduler_peek, Due
  <2> QED BY <1>0, <1>5, <2>1, <2>2
        DEF InvHeld, InvQueue, BufferBounded, StuffStays, InvIdle,
        NoSleepOnWork, link_scheduler_peek, At, linkVars, fwVars, revVars
<1>6. CASE link_scheduler_put
  <2>1. /\ Len(buffer) \in Nat
        /\ WireFree => buffer' = Tail(buffer) /\ Len(buffer') = Len(buffer) - 1
        /\ ~WireFree => buffer' = buffer
    BY <1>0, <1>6, SeqFacts DEF TypeOK, link_scheduler_put, dequeue
  <2>2. InvQueue'
    BY <1>0, <1>6, <2>1, LinkAssumption
       DEF InvQueue, BufferBounded, link_scheduler_put, fwVars
  <2>3. sched_pc' \in {"usleep", "idle"}
    BY <1>6 DEF link_scheduler_put
  <2>4. sched_pc' = "idle" => in_flight' = <<>>
    <3> DEFINE new == [m |-> Head(buffer),
                       finish_time |-> crt_time + serialization_delay + delay]
    <3> SUFFICES ASSUME in_flight' # <<>>
                 PROVE  \/ idle_time' - crt_time > 0
                        \/ Head(in_flight').finish_time - crt_time > 0
      BY <1>6 DEF link_scheduler_put
    <3>1. CASE in_flight # <<>>
      <4>1. /\ Head(in_flight) = in_flight[1]
            /\ Head(in_flight).finish_time \in Nat
        BY <1>0, <3>1, HeadOfWire DEF TypeOK, Flight
      <4>2. Head(in_flight') = Head(in_flight)
        BY <1>0, <1>6, <3>1, HeadTailAppend DEF TypeOK, link_scheduler_put, enqueue
      <4>3. crt_time < in_flight[1].finish_time
        BY <1>0, <1>6, <3>1 DEF InvIdle, link_scheduler_put, At
      <4> QED BY <1>0, <4>1, <4>2, <4>3 DEF TypeOK
    <3>2. CASE in_flight = <<>>
      <4>1. /\ WireFree
            /\ in_flight' = Append(in_flight, new)
        BY <1>6, <3>2 DEF link_scheduler_put, enqueue
      <4>2. Head(in_flight') = new
        BY <1>0, <3>2, <4>1, HeadTailAppend DEF TypeOK
      <4> QED BY <1>0, <4>2, LinkAssumption DEF TypeOK
    <3> QED BY <3>1, <3>2
  <2> QED BY <1>0, <1>6, <2>2, <2>3, <2>4
        DEF InvHeld, StuffStays, InvIdle, NoSleepOnWork, link_scheduler_put,
        fwVars, revVars
<1>7. CASE link_scheduler_wake
  BY <1>0, <1>7 DEF TypeOK, InvHeld, InvQueue, BufferBounded, StuffStays,
        InvIdle, NoSleepOnWork, link_scheduler_wake, At, linkVars, fwVars,
        revVars
<1>8. CASE link_scheduler_idle
  BY <1>0, <1>8 DEF TypeOK, InvHeld, InvQueue, BufferBounded, StuffStays,
        InvIdle, NoSleepOnWork, link_scheduler_idle, At, linkVars, fwVars,
        revVars
<1>9. CASE link_scheduler_resume
  BY <1>0, <1>9 DEF TypeOK, InvHeld, InvQueue, BufferBounded, StuffStays,
        InvIdle, NoSleepOnWork, link_scheduler_resume, linkVars, fwVars,
        revVars
<1>10. CASE receive_message1_first
  BY <1>0, <1>10 DEF TypeOK, InvHeld, InvQueue, BufferBounded, StuffStays,
        InvIdle, NoSleepOnWork, receive_message1_first, FwAt, schedVars,
        fwVars, revVars
<1>11. CASE receive_message1
  BY <1>0, <1>11 DEF TypeOK, InvHeld, InvQueue, BufferBounded, StuffStays,
        InvIdle, NoSleepOnWork, receive_message1, FwAt, linkVars, schedVars,
        revVars
<1>12. CASE run_forwarding_check
  <2>1. overflow' \in BOOLEAN /\ (~overflow' => Len(buffer) < BUFFER_SIZE)
    <3>1. overflow' = (Len(buffer) >= BUFFER_SIZE)
      BY <1>12 DEF run_forwarding_check, Full
    <3>2. Len(buffer) \in Nat /\ BUFFER_SIZE \in Nat
      BY <1>0, SeqFacts, LinkAssumption DEF TypeOK
    <3>3. CASE Len(buffer) >= BUFFER_SIZE
      BY <3>1, <3>3
    <3>4. CASE ~(Len(buffer) >= BUFFER_SIZE)
      BY <3>1, <3>2, <3>4
    <3> QED BY <3>3, <3>4
  <2>2. fw_m' = fw_m /\ received1' = received1
    BY <1>12 DEF run_forwarding_check
  <2>3. fw_pc = "check" /\ fw_pc' = "decide" /\ buffer' = buffer
    BY <1>12 DEF run_forwarding_check, FwAt
  <2>4. InvHeld'
    BY <1>0, <1>12, <2>2, <2>3 DEF InvHeld, run_forwarding_check, revVars
  <2>5. InvQueue'
    BY <1>0, <2>1, <2>3 DEF InvQueue, BufferBounded
  <2> QED BY <1>0, <1>12, <2>4, <2>5
        DEF StuffStays, InvIdle, NoSleepOnWork, run_forwarding_check, schedVars
<1>13. CASE run_forwarding_drop
  BY <1>0, <1>13 DEF TypeOK, InvHeld, InvQueue, BufferBounded, StuffStays,
        InvIdle, NoSleepOnWork, run_forwarding_drop, FwAt, linkVars,
        schedVars, revVars
<1>14. CASE run_forwarding_enqueue
  <2>1. PICK hit \in Chance(corrupt) :
          buffer' = Append(buffer, [id |-> fw_m[1].id, damaged |-> hit])
    BY <1>14 DEF run_forwarding_enqueue, enqueue
  <2>2. [id |-> fw_m[1].id, damaged |-> hit] \in Datagram
    BY <1>0, <1>14 DEF InvHeld, TypeOK, Datagram, Chance, run_forwarding_enqueue, FwAt
  <2>3. buffer' # <<>> /\ Len(buffer') = Len(buffer) + 1
    <3> DEFINE new == [id |-> fw_m[1].id, damaged |-> hit]
    <3>1. buffer \in Seq(Datagram) /\ new \in Datagram
      BY <1>0, <2>2 DEF TypeOK
    <3> HIDE DEF new
    <3>2. Len(Append(buffer, new)) = Len(buffer) + 1 /\ Append(buffer, new) # <<>>
      BY <3>1, AppendProperties
    <3> QED BY <2>1, <3>2 DEF new
  <2>4. Len(buffer) \in Nat /\ Len(buffer) < BUFFER_SIZE
    BY <1>0, <1>14, SeqFacts DEF TypeOK, InvQueue, run_forwarding_enqueue, FwAt
  <2>5. InvQueue'
    BY <1>14, <2>3, <2>4, LinkAssumption DEF InvQueue, BufferBounded, run_forwarding_enqueue
  <2>6. InvHeld'
    BY <1>0, <1>14 DEF InvHeld, run_forwarding_enqueue, revVars
  <2>7. StuffStays'
    BY <2>3 DEF StuffStays
  <2>8. InvIdle' /\ NoSleepOnWork'
    BY <1>0, <1>14 DEF InvIdle, NoSleepOnWork, run_forwarding_enqueue, pthread_cond_signal
  <2> QED BY <2>5, <2>6, <2>7, <2>8
<1>15. CASE receive_message2_first
  BY <1>0, <1>15 DEF TypeOK, InvHeld, InvQueue, BufferBounded, StuffStays,
        InvIdle, NoSleepOnWork, receive_message2_first, schedVars, fwVars,
        revVars
<1>16. CASE receive_message2
  BY <1>0, <1>16 DEF TypeOK, InvHeld, InvQueue, BufferBounded, StuffStays,
        InvIdle, NoSleepOnWork, receive_message2, linkVars, schedVars, fwVars
<1>17. CASE send_message1
  BY <1>0, <1>17 DEF TypeOK, InvHeld, InvQueue, BufferBounded, StuffStays,
        InvIdle, NoSleepOnWork, send_message1, linkVars, schedVars, fwVars
<1> QED
  BY <1>1, <1>2, <1>3, <1>4, <1>5, <1>6, <1>7, <1>8, <1>9, <1>10, <1>11, <1>12, <1>13, <1>14, <1>15, <1>16, <1>17
     DEF Next, SchedulerStep, ForwardingStep

(* One more datagram takes one more serialisation delay. *)
LEMMA OneMore ==
    ASSUME NEW k \in Nat, NEW d \in Nat
    PROVE  k * d \in Nat /\ (k + 1) * d = k * d + d
OBVIOUS

(* The bounds of the wire, spelt out for the steps below. *)
LEMMA WireBounds ==
    ASSUME LinkInv
    PROVE  /\ delivered2 # <<>> =>
                clock >= Len(delivered2) * serialization_delay + delay
           /\ \A i \in DOMAIN in_flight :
                in_flight[i].finish_time >=
                    (Len(delivered2) + i) * serialization_delay + delay
BY DEF LinkInv, Bandwidth

(* Steps that leave the wire alone. *)
LEMMA WireUnchanged ==
    ASSUME LinkInv, clock' \in Nat, clock' >= clock,
           crt_time' \in {crt_time, clock},
           UNCHANGED <<idle_time, in_flight, delivered2>>
    PROVE  InvWire' /\ Bandwidth'
<1>1. TypeOK /\ InvWire
  BY DEF LinkInv
<1>2. InvWire'
  BY <1>1 DEF TypeOK, InvWire
<1>3. Len(delivered2) * serialization_delay + delay \in Nat
  <2>1. Len(delivered2) \in Nat
    BY <1>1, SeqFacts DEF TypeOK
  <2>2. Len(delivered2) * serialization_delay \in Nat
    BY <2>1, OneMore, LinkAssumption
  <2> QED BY <2>2, LinkAssumption
<1>4. delivered2 # <<>> =>
          clock' >= Len(delivered2) * serialization_delay + delay
  <2>1. clock \in Nat
    BY <1>1 DEF TypeOK
  <2> HIDE DEF LinkInv
  <2> QED BY <1>3, <2>1, WireBounds
<1> QED BY <1>2, <1>4, WireBounds DEF Bandwidth

(* The scheduler sends the datagram at the head of the wire. *)
LEMMA WireSend ==
    ASSUME LinkInv, TypeOK', link_scheduler_send
    PROVE  InvWire' /\ Bandwidth'
<1> DEFINE s == serialization_delay
           D == Len(delivered2)
           L == Len(in_flight)
           finish == in_flight[1].finish_time
<1>1. TypeOK /\ InvWire
  BY DEF LinkInv
<1>2. /\ in_flight # <<>> /\ crt_time >= finish
      /\ in_flight' = Tail(in_flight)
      /\ delivered2' \in {delivered2, Append(delivered2, Head(in_flight).m)}
      /\ UNCHANGED <<clock, crt_time, idle_time>>
  BY <1>1, HeadOfWire
     DEF TypeOK, Flight, link_scheduler_send, Due, send_message2, dequeue, schedVars
<1>3. in_flight \in Seq(Flight) /\ in_flight' \in Seq(Flight)
  BY <1>1 DEF TypeOK, Flight
<1>4. /\ s \in Nat /\ D \in Nat /\ L \in Nat \ {0}
      /\ clock \in Nat /\ crt_time \in Nat /\ idle_time \in Nat /\ delay \in Nat
      /\ finish \in Nat
  <2>1. L \in Nat /\ L > 0
    BY <1>2, <1>3, SeqFacts
  <2>2. finish \in Nat
    BY <1>2, <1>3, HeadOfWire
  <2>3. D \in Nat
    BY <1>1, SeqFacts DEF TypeOK
  <2>4. /\ s \in Nat /\ delay \in Nat
        /\ clock \in Nat /\ crt_time \in Nat /\ idle_time \in Nat
    BY <1>1, LinkAssumption DEF TypeOK
  <2> HIDE DEF L, finish, D, s
  <2> QED BY <2>1, <2>2, <2>3, <2>4
<1>5. /\ DOMAIN in_flight = 1 .. L
      /\ DOMAIN in_flight' = 1 .. L - 1 /\ Len(in_flight') = L - 1
      /\ \A i \in 1 .. L - 1 : in_flight'[i] = in_flight[i + 1]
  BY <1>2, <1>3, SeqFacts
<1>6. PICK more \in {0, 1} : Len(delivered2') = D + more
  <2>1. Head(in_flight).m \in Datagram /\ delivered2 \in Seq(Datagram)
    BY <1>1, <1>2, <1>3, HeadOfWire DEF TypeOK
  <2>2. Len(Append(delivered2, Head(in_flight).m)) = D + 1
    BY <2>1, AppendProperties
  <2>3. CASE delivered2' = delivered2
    BY <1>4, <2>3
  <2>4. CASE delivered2' = Append(delivered2, Head(in_flight).m)
    BY <2>2, <2>4
  <2> QED BY <1>2, <2>3, <2>4
<1>7. /\ finish >= (D + 1) * s + delay
      /\ idle_time >= (D + L) * s
      /\ crt_time <= clock
      /\ \A i \in 1 .. L : in_flight[i].finish_time >= (D + i) * s + delay
      /\ \A i \in 1 .. L : in_flight[i].finish_time \in Nat
  <2>1. \A i \in 1 .. L : in_flight[i].finish_time >= (D + i) * s + delay
    BY <1>5, WireBounds
  <2>2. \A i \in 1 .. L : in_flight[i].finish_time \in Nat
    <3>1. \A i \in 1 .. L : in_flight[i] \in Flight
      BY <1>3, SeqFacts
    <3> QED BY <3>1 DEF Flight
  <2> QED BY <1>1, <1>4, <2>1, <2>2 DEF InvWire
<1>8. (D + 1) * s = D * s + s /\ D * s \in Nat /\ (D + 1) * s \in Nat
  BY <1>4, OneMore
<1> HIDE DEF s, D, L, finish
<1>9. clock >= Len(delivered2') * s + delay
  <2>1. clock >= (D + 1) * s + delay
    BY <1>2, <1>4, <1>7, <1>8
  <2>2. CASE more = 0
    BY <1>4, <1>6, <1>8, <2>1, <2>2
  <2>3. CASE more = 1
    BY <1>6, <2>1, <2>3
  <2> QED BY <2>2, <2>3
<1>10. \A i \in 1 .. L - 1 :
          in_flight'[i].finish_time >= (Len(delivered2') + i) * s + delay
  <2> TAKE i \in 1 .. L - 1
  <2>1. i + 1 \in 1 .. L /\ i \in Nat /\ D + i \in Nat
    BY <1>4
  <2>2. in_flight'[i].finish_time >= (D + (i + 1)) * s + delay
    BY <1>5, <1>7, <2>1
  <2>3. (D + i + 1) * s = (D + i) * s + s /\ (D + i) * s \in Nat
    BY <1>4, <2>1, OneMore
  <2>4. in_flight'[i].finish_time \in Nat
    BY <1>5, <1>7, <2>1
  <2>5. D + (i + 1) = D + i + 1
    BY <1>4, <2>1
  <2>6. CASE more = 0
    BY <1>4, <1>6, <2>2, <2>3, <2>4, <2>5, <2>6
  <2>7. CASE more = 1
    <3>1. Len(delivered2') + i = D + (i + 1)
      BY <1>4, <1>6, <2>1, <2>7
    <3> QED BY <2>2, <3>1
  <2> QED BY <2>6, <2>7
<1>11. idle_time >= (Len(delivered2') + Len(in_flight')) * s
  <2>1. D + L - 1 \in Nat /\ D + L = (D + L - 1) + 1
    BY <1>4
  <2>2. (D + L) * s = (D + L - 1) * s + s /\ (D + L - 1) * s \in Nat
    BY <1>4, <2>1, OneMore
  <2>3. CASE more = 0
    <3> DEFINE x == (D + L - 1) * s
    <3>1. Len(delivered2') + Len(in_flight') = D + L - 1
      BY <1>4, <1>5, <1>6, <2>3
    <3>2. idle_time >= x + s /\ x \in Nat
      BY <1>7, <2>2
    <3>3. idle_time >= x
      <4> HIDE DEF x
      <4> QED BY <1>4, <3>2
    <3> QED BY <3>1, <3>3
  <2>4. CASE more = 1
    <3>1. Len(delivered2') + Len(in_flight') = D + L
      BY <1>4, <1>5, <1>6, <2>4
    <3> QED BY <1>7, <3>1
  <2> QED BY <2>3, <2>4
<1> QED BY <1>2, <1>5, <1>7, <1>9, <1>10, <1>11 DEF InvWire, Bandwidth, s

(* The scheduler puts a datagram on the free wire. *)
LEMMA WirePut ==
    ASSUME LinkInv, TypeOK', link_scheduler_put, WireFree
    PROVE  InvWire' /\ Bandwidth'
<1> DEFINE s == serialization_delay
           D == Len(delivered2)
           L == Len(in_flight)
           new == [m |-> Head(buffer), finish_time |-> crt_time + s + delay]
<1>1. TypeOK /\ InvWire
  BY DEF LinkInv
<1>2. /\ in_flight' = Append(in_flight, new)
      /\ idle_time' = crt_time + s
      /\ crt_time >= idle_time
      /\ buffer # <<>>
      /\ UNCHANGED <<clock, crt_time, delivered2>>
  BY DEF link_scheduler_put, WireFree, enqueue
<1>3. in_flight \in Seq(Flight) /\ in_flight' \in Seq(Flight)
  BY <1>1 DEF TypeOK, Flight
<1>4. /\ s \in Nat /\ D \in Nat /\ L \in Nat
      /\ clock \in Nat /\ crt_time \in Nat /\ idle_time \in Nat /\ delay \in Nat
  BY <1>1, <1>3, SeqFacts, LinkAssumption DEF TypeOK
<1>5. new \in Flight
  <2>1. Head(buffer) \in Datagram
    BY <1>1, <1>2, SeqFacts DEF TypeOK
  <2> QED BY <1>4, <2>1 DEF Flight
<1>6. new.finish_time = crt_time + s + delay
  OBVIOUS
<1> HIDE DEF new
<1>7. /\ DOMAIN in_flight = 1 .. L
      /\ DOMAIN in_flight' = 1 .. L + 1 /\ Len(in_flight') = L + 1
      /\ \A i \in 1 .. L : in_flight'[i] = in_flight[i]
      /\ in_flight'[L + 1] = new
  BY <1>2, <1>3, <1>5, SeqFacts, AppendProperties
<1>8. /\ idle_time >= (D + L) * s
      /\ crt_time <= clock
      /\ \A i \in 1 .. L : in_flight[i].finish_time >= (D + i) * s + delay
      /\ delivered2 # <<>> => clock >= D * s + delay
  BY <1>1, <1>7, WireBounds DEF InvWire
<1> HIDE DEF s, D, L
<1>9. (D + (L + 1)) * s = (D + L) * s + s /\ (D + L) * s \in Nat
  <2>1. D + L \in Nat /\ D + (L + 1) = D + L + 1
    BY <1>4
  <2> QED BY <1>4, <2>1, OneMore
<1>10. idle_time' >= (D + Len(in_flight')) * s
  BY <1>2, <1>4, <1>7, <1>8, <1>9
<1>11. \A i \in 1 .. L + 1 :
          in_flight'[i].finish_time >= (D + i) * s + delay
  <2> TAKE i \in 1 .. L + 1
  <2>1. CASE i \in 1 .. L
    BY <1>7, <1>8, <2>1
  <2>2. CASE i = L + 1
    <3>1. in_flight'[i].finish_time = crt_time + s + delay
      BY <1>6, <1>7, <2>2
    <3> QED BY <1>2, <1>4, <1>8, <1>9, <2>2, <3>1
  <2> QED BY <1>4, <2>1, <2>2
<1> QED BY <1>2, <1>7, <1>8, <1>10, <1>11 DEF InvWire, Bandwidth, s, D

LEMMA WireStep ==
    ASSUME LinkInv, TypeOK', Next
    PROVE  InvWire' /\ Bandwidth'
<1>1. CASE link_scheduler_send
  BY <1>1, WireSend
<1>2. CASE link_scheduler_put /\ WireFree
  BY <1>2, WirePut
<1>3. CASE ~link_scheduler_send /\ ~(link_scheduler_put /\ WireFree)
  <2>1. clock \in Nat /\ clock' \in Nat
    BY DEF LinkInv, TypeOK
  <2>2. /\ clock' >= clock /\ crt_time' \in {crt_time, clock}
        /\ UNCHANGED <<idle_time, in_flight, delivered2>>
    BY <1>3, <2>1
       DEF Next, SchedulerStep, ForwardingStep, Tick, read_error,
           link_scheduler_top, link_scheduler_peek, link_scheduler_put,
           link_scheduler_wake, link_scheduler_idle, link_scheduler_resume,
           receive_message1_first, receive_message1, run_forwarding_check,
           run_forwarding_drop, run_forwarding_enqueue, receive_message2_first,
           receive_message2, send_message1, schedVars
  <2> QED BY <2>1, <2>2, WireUnchanged
<1> QED BY <1>1, <1>2, <1>3

LEMMA LinkInit == Init => LinkInv
<1> SUFFICES ASSUME Init PROVE LinkInv
  OBVIOUS
<1> USE LinkAssumption DEF Init
<1>1. TypeOK
  <2>1. /\ buffer \in Seq(Datagram)
        /\ fw_m \in Seq(Datagram) /\ rev_m \in Seq(Datagram)
        /\ delivered1 \in Seq(Datagram) /\ delivered2 \in Seq(Datagram)
        /\ in_flight \in Seq([m : Datagram, finish_time : Nat])
    BY EmptySeq
  <2> QED BY <2>1 DEF TypeOK
<1>2. InvHeld /\ InvQueue /\ StuffStays /\ InvIdle /\ NoSleepOnWork
  BY EmptySeq DEF InvHeld, InvQueue, BufferBounded, StuffStays, InvIdle, NoSleepOnWork
<1>3. InvWire /\ Bandwidth
  BY EmptySeq DEF InvWire, Bandwidth
<1> QED BY <1>1, <1>2, <1>3 DEF LinkInv

LEMMA LinkStep == LinkInv /\ [Next]_vars => LinkInv'
<1>1. LinkInv /\ Next => LinkInv'
  BY TypeStep, LocalsStep, WireStep DEF LinkInv
<1>2. LinkInv /\ UNCHANGED vars => LinkInv'
  BY DEF LinkInv, TypeOK, InvHeld, InvQueue, BufferBounded, StuffStays, InvIdle,
         NoSleepOnWork, InvWire, Bandwidth, vars, linkVars, schedVars, fwVars,
         revVars
<1> QED BY <1>1, <1>2

(* LinkInv is an inductive invariant of the link emulator. *)
THEOREM LinkInvariance == Spec => []LinkInv
BY LinkInit, LinkStep, PTL DEF Spec

(* Every variable of the link emulator keeps its type. *)
THEOREM TypeCorrect == Spec => []TypeOK
<1>1. LinkInv => TypeOK
  BY DEF LinkInv
<1> QED BY <1>1, LinkInvariance, PTL

(* run_forwarding never overfills the queue, whatever its capacity. *)
THEOREM BufferBoundedHolds == Spec => []BufferBounded
<1>1. LinkInv => BufferBounded
  BY DEF LinkInv, InvQueue
<1> QED BY <1>1, LinkInvariance, PTL

(* The wire respects its bandwidth for all delays and any number of         *)
(* datagrams.                                                               *)
THEOREM BandwidthHolds == Spec => []Bandwidth
<1>1. LinkInv => Bandwidth
  BY DEF LinkInv
<1> QED BY <1>1, LinkInvariance, PTL

(* assert(mif->m) in link_scheduler holds: the datagram it saw is there. *)
THEOREM StuffStaysHolds == Spec => []StuffStays
<1>1. LinkInv => StuffStays
  BY DEF LinkInv
<1> QED BY <1>1, LinkInvariance, PTL

(* No signal to link_scheduler is lost between its look and its wait. *)
THEOREM NoSleepOnWorkHolds == Spec => []NoSleepOnWork
<1>1. LinkInv => NoSleepOnWork
  BY DEF LinkInv
<1> QED BY <1>1, LinkInvariance, PTL

-----------------------------------------------------------------------------
(* The refinement: whatever the three threads do, what is between recvfrom   *)
(* on one socket and sendto on the other behaves as one ordered, lossy       *)
(* channel.                                                                  *)

-----------------------------------------------------------------------------
(* Sequences. *)

LEMMA RemoveFirst ==
    ASSUME NEW S, NEW s \in Seq(S), s # <<>>
    PROVE  SubSeq(s, 1, 1 - 1) \o SubSeq(s, 1 + 1, Len(s)) = Tail(s)
<1>1. SubSeq(s, 1, 0) = <<>>
  BY SubSeqEmpty
<1>2. SubSeq(s, 2, Len(s)) = Tail(s) /\ Tail(s) \in Seq(S)
  BY TailIsSubSeq, HeadTailProperties
<1>3. <<>> \o Tail(s) = Tail(s)
  BY <1>2, ConcatEmptySeq
<1> QED BY <1>1, <1>2, <1>3

LEMMA AppendElements ==
    ASSUME NEW S, NEW s \in Seq(S), NEW e \in S
    PROVE  /\ Len(s) \in Nat
           /\ Append(s, e) \in Seq(S)
           /\ Append(s, e) # <<>>
           /\ Len(Append(s, e)) = Len(s) + 1
           /\ DOMAIN Append(s, e) = 1 .. Len(s) + 1
           /\ \A i \in 1 .. Len(s) : Append(s, e)[i] = s[i]
           /\ Append(s, e)[Len(s) + 1] = e
BY AppendProperties, LenProperties

LEMMA RemoveLast ==
    ASSUME NEW S, NEW s \in Seq(S), NEW e \in S, NEW t, t = Append(s, e)
    PROVE  SubSeq(t, 1, Len(t) - 1) \o SubSeq(t, Len(t) + 1, Len(t)) = s
<1> DEFINE before == SubSeq(t, 1, Len(s))
<1>1. /\ Len(s) \in Nat /\ Len(t) = Len(s) + 1
      /\ \A i \in 1 .. Len(s) : t[i] = s[i]
  BY AppendElements
<1>2. \A i \in 1 .. Len(s) : t[i] \in S
  BY <1>1, ElementOfSeq
<1>3. /\ before \in Seq(S)
      /\ Len(before) = Len(s)
      /\ \A i \in 1 .. Len(s) : before[i] = t[i]
  BY <1>1, <1>2, SubSeqProperties, Z3
<1>4. before = s
  BY <1>1, <1>3, SeqEqual
<1>5. SubSeq(t, Len(t) + 1, Len(t)) = <<>>
  BY <1>1, SubSeqEmpty
<1>6. Len(t) - 1 = Len(s)
  BY <1>1
<1>7. s \o <<>> = s
  BY ConcatEmptySeq
<1> QED BY <1>4, <1>5, <1>6, <1>7

LEMMA ChangeLast ==
    ASSUME NEW S, NEW s \in Seq(S), NEW d \in S, NEW e \in S, NEW n,
           n = Len(s) + 1
    PROVE  Append(s, e) = [Append(s, d) EXCEPT ![n] = e]
<1> DEFINE t == Append(s, d)
           u == Append(s, e)
<1>1. /\ Len(s) \in Nat
      /\ t \in Seq(S) /\ DOMAIN t = 1 .. n
      /\ \A i \in 1 .. Len(s) : t[i] = s[i]
  BY AppendElements
<1>2. /\ u \in Seq(S) /\ DOMAIN u = 1 .. n
      /\ \A i \in 1 .. Len(s) : u[i] = s[i]
      /\ u[n] = e
  BY AppendElements
<1>3. u = [i \in DOMAIN u |-> u[i]]
  <2>1. u \in [1 .. Len(u) -> S]
    BY <1>2, LenProperties
  <2> HIDE DEF u
  <2> QED BY <2>1
<1> HIDE DEF t, u
<1>4. \A i \in 1 .. n : u[i] = IF i = n THEN e ELSE t[i]
  BY <1>1, <1>2
<1>5. u = [i \in DOMAIN t |-> IF i = n THEN e ELSE t[i]]
  BY <1>1, <1>2, <1>3, <1>4
<1>6. u = [t EXCEPT ![n] = e]
  BY <1>5
<1> QED BY <1>6 DEF t, u

LEMMA TailOfConcat ==
    ASSUME NEW S, NEW s \in Seq(S), NEW t \in Seq(S), s # <<>>
    PROVE  /\ s \o t \in Seq(S) /\ s \o t # <<>>
           /\ Head(s \o t) = Head(s)
           /\ Tail(s \o t) = Tail(s) \o t
<1>1. /\ Len(s) \in Nat \ {0} /\ Len(t) \in Nat
      /\ Tail(s) \in Seq(S) /\ Len(Tail(s)) = Len(s) - 1
      /\ Head(s) = s[1]
      /\ \A i \in 1 .. Len(s) - 1 : Tail(s)[i] = s[i + 1]
  BY SeqFacts
<1>2. /\ s \o t \in Seq(S) /\ Len(s \o t) = Len(s) + Len(t)
      /\ \A i \in 1 .. Len(s) + Len(t) :
           (s \o t)[i] = IF i <= Len(s) THEN s[i] ELSE t[i - Len(s)]
  BY ConcatProperties
<1>3. s \o t # <<>>
  BY <1>1, <1>2, SeqFacts
<1>4. /\ Tail(s \o t) \in Seq(S) /\ Len(Tail(s \o t)) = Len(s) + Len(t) - 1
      /\ Head(s \o t) = (s \o t)[1]
      /\ \A i \in 1 .. Len(s) + Len(t) - 1 : Tail(s \o t)[i] = (s \o t)[i + 1]
  BY <1>2, <1>3, SeqFacts
<1>5. /\ Tail(s) \o t \in Seq(S) /\ Len(Tail(s) \o t) = Len(s) - 1 + Len(t)
      /\ \A i \in 1 .. Len(s) - 1 + Len(t) :
           (Tail(s) \o t)[i] =
             IF i <= Len(s) - 1 THEN Tail(s)[i] ELSE t[i - (Len(s) - 1)]
  BY <1>1, ConcatProperties
<1>6. \A i \in 1 .. Len(s) + Len(t) - 1 : Tail(s \o t)[i] = (Tail(s) \o t)[i]
  <2> TAKE i \in 1 .. Len(s) + Len(t) - 1
  <2>1. i + 1 \in 1 .. Len(s) + Len(t) /\ i \in 1 .. Len(s) - 1 + Len(t)
    BY <1>1
  <2>2. CASE i <= Len(s) - 1
    BY <1>1, <1>2, <1>4, <1>5, <2>1, <2>2
  <2>3. CASE i > Len(s) - 1
    <3>1. i + 1 - Len(s) = i - (Len(s) - 1)
      BY <1>1
    <3>2. (s \o t)[i + 1] = t[i + 1 - Len(s)]
      BY <1>1, <1>2, <2>1, <2>3
    <3>3. (Tail(s) \o t)[i] = t[i - (Len(s) - 1)]
      BY <1>1, <1>5, <2>1, <2>3
    <3> QED BY <1>4, <3>1, <3>2, <3>3
  <2> QED BY <1>1, <2>2, <2>3
<1>7. Tail(s \o t) = Tail(s) \o t
  <2>1. Len(Tail(s \o t)) = Len(Tail(s) \o t)
    BY <1>1, <1>4, <1>5
  <2> QED BY <1>4, <1>5, <1>6, <2>1, SeqEqual
<1> QED BY <1>1, <1>2, <1>3, <1>4, <1>7

(* An element handed over at the border of two sequences. *)
LEMMA HandOver ==
    ASSUME NEW S, NEW s \in Seq(S), NEW t \in Seq(S), t # <<>>
    PROVE  Append(s, Head(t)) \o Tail(t) = s \o t
<1>1. Head(t) \in S /\ Tail(t) \in Seq(S) /\ <<Head(t)>> \in Seq(S)
  BY HeadTailProperties
<1>2. Append(s, Head(t)) = s \o <<Head(t)>>
  BY <1>1, AppendIsConcat
<1>3. <<Head(t)>> \o Tail(t) = t
  <2>1. /\ Len(t) \in Nat \ {0} /\ Head(t) = t[1]
        /\ Len(Tail(t)) = Len(t) - 1
        /\ \A i \in 1 .. Len(t) - 1 : Tail(t)[i] = t[i + 1]
    BY SeqFacts
  <2>2. /\ <<Head(t)>> \o Tail(t) \in Seq(S)
        /\ Len(<<Head(t)>> \o Tail(t)) = 1 + Len(Tail(t))
        /\ \A i \in 1 .. 1 + Len(Tail(t)) :
             (<<Head(t)>> \o Tail(t))[i] =
               IF i <= 1 THEN <<Head(t)>>[i] ELSE Tail(t)[i - 1]
    BY <1>1, ConcatProperties
  <2>3. \A i \in 1 .. Len(t) : (<<Head(t)>> \o Tail(t))[i] = t[i]
    BY <2>1, <2>2
  <2> QED BY <2>1, <2>2, <2>3, SeqEqual
<1> QED BY <1>1, <1>2, <1>3, ConcatAssociative

LEMMA ConcatAppend ==
    ASSUME NEW S, NEW s \in Seq(S), NEW t \in Seq(S), NEW e \in S
    PROVE  s \o Append(t, e) = Append(s \o t, e)
<1>1. <<e>> \in Seq(S) /\ s \o t \in Seq(S)
  BY ConcatProperties
<1>2. Append(t, e) = t \o <<e>> /\ Append(s \o t, e) = (s \o t) \o <<e>>
  BY <1>1, AppendIsConcat
<1> QED BY <1>1, <1>2, ConcatAssociative

-----------------------------------------------------------------------------
(* The datagrams of a wire. *)
Messages(f) == [i \in DOMAIN f |-> f[i].m]

LEMMA MessagesOfWire ==
    ASSUME NEW f \in Seq(Flight)
    PROVE  /\ Messages(f) \in Seq(Datagram)
           /\ Len(Messages(f)) = Len(f)
           /\ \A i \in 1 .. Len(f) : Messages(f)[i] = f[i].m
           /\ f = <<>> => Messages(f) = <<>>
<1>1. /\ Len(f) \in Nat /\ DOMAIN f = 1 .. Len(f)
      /\ \A i \in 1 .. Len(f) : f[i].m \in Datagram
  <2>1. \A i \in 1 .. Len(f) : f[i] \in Flight
    BY SeqFacts
  <2> QED BY <2>1, SeqFacts DEF Flight
<1>2. Messages(f) \in [1 .. Len(f) -> Datagram]
  BY <1>1 DEF Messages
<1>3. Messages(f) \in Seq(Datagram) /\ Len(Messages(f)) = Len(f)
  BY <1>1, <1>2
<1>4. \A i \in 1 .. Len(f) : Messages(f)[i] = f[i].m
  BY <1>1 DEF Messages
<1> QED BY <1>3, <1>4, SeqFacts

LEMMA MessagesOfTail ==
    ASSUME NEW f \in Seq(Flight), f # <<>>
    PROVE  /\ Messages(f) # <<>>
           /\ Head(Messages(f)) = Head(f).m
           /\ Messages(Tail(f)) = Tail(Messages(f))
<1>1. /\ Len(f) \in Nat \ {0}
      /\ Tail(f) \in Seq(Flight) /\ Len(Tail(f)) = Len(f) - 1
      /\ Head(f) = f[1]
      /\ \A i \in 1 .. Len(f) - 1 : Tail(f)[i] = f[i + 1]
  BY SeqFacts
<1>2. /\ Messages(f) \in Seq(Datagram) /\ Len(Messages(f)) = Len(f)
      /\ \A i \in 1 .. Len(f) : Messages(f)[i] = f[i].m
  BY MessagesOfWire
<1>3. Messages(f) # <<>>
  BY <1>1, <1>2, SeqFacts
<1>4. /\ Tail(Messages(f)) \in Seq(Datagram)
      /\ Len(Tail(Messages(f))) = Len(f) - 1
      /\ Head(Messages(f)) = Messages(f)[1]
      /\ \A i \in 1 .. Len(f) - 1 : Tail(Messages(f))[i] = Messages(f)[i + 1]
  BY <1>2, <1>3, SeqFacts
<1>5. /\ Messages(Tail(f)) \in Seq(Datagram)
      /\ Len(Messages(Tail(f))) = Len(f) - 1
      /\ \A i \in 1 .. Len(f) - 1 : Messages(Tail(f))[i] = Tail(f)[i].m
  BY <1>1, MessagesOfWire
<1>6. \A i \in 1 .. Len(f) - 1 : Messages(Tail(f))[i] = Tail(Messages(f))[i]
  BY <1>1, <1>2, <1>4, <1>5
<1>7. Messages(Tail(f)) = Tail(Messages(f))
  BY <1>4, <1>5, <1>6, SeqEqual
<1> QED BY <1>1, <1>2, <1>3, <1>4, <1>7

LEMMA MessagesOfAppend ==
    ASSUME NEW f \in Seq(Flight), NEW r \in Flight
    PROVE  Messages(Append(f, r)) = Append(Messages(f), r.m)
<1>1. r.m \in Datagram
  BY DEF Flight
<1>2. /\ Len(f) \in Nat
      /\ Append(f, r) \in Seq(Flight) /\ Len(Append(f, r)) = Len(f) + 1
      /\ \A i \in 1 .. Len(f) : Append(f, r)[i] = f[i]
      /\ Append(f, r)[Len(f) + 1] = r
  BY AppendElements
<1>3. /\ Messages(f) \in Seq(Datagram) /\ Len(Messages(f)) = Len(f)
      /\ \A i \in 1 .. Len(f) : Messages(f)[i] = f[i].m
  BY MessagesOfWire
<1>4. /\ Append(Messages(f), r.m) \in Seq(Datagram)
      /\ Len(Append(Messages(f), r.m)) = Len(f) + 1
      /\ \A i \in 1 .. Len(f) : Append(Messages(f), r.m)[i] = Messages(f)[i]
      /\ Append(Messages(f), r.m)[Len(f) + 1] = r.m
  BY <1>1, <1>3, AppendElements
<1>5. /\ Messages(Append(f, r)) \in Seq(Datagram)
      /\ Len(Messages(Append(f, r))) = Len(f) + 1
      /\ \A i \in 1 .. Len(f) + 1 :
           Messages(Append(f, r))[i] = Append(f, r)[i].m
  BY <1>2, MessagesOfWire
<1>6. \A i \in 1 .. Len(f) + 1 :
        Messages(Append(f, r))[i] = Append(Messages(f), r.m)[i]
  BY <1>2, <1>3, <1>4, <1>5
<1> QED BY <1>4, <1>5, <1>6, SeqEqual

(* The channel of the refinement in the terms of these lemmas. *)
LEMMA ChannelParts ==
    ASSUME TypeOK
    PROVE  /\ OnTheWay = (Messages(in_flight) \o buffer) \o fw_m
           /\ in_flight \in Seq(Flight)
           /\ Messages(in_flight) \in Seq(Datagram)
           /\ Messages(in_flight) \o buffer \in Seq(Datagram)
           /\ buffer \in Seq(Datagram) /\ fw_m \in Seq(Datagram)
           /\ OnTheWay \in Seq(Datagram)
<1>1. /\ in_flight \in Seq(Flight)
      /\ buffer \in Seq(Datagram) /\ fw_m \in Seq(Datagram)
  BY DEF TypeOK, Flight
<1>2. OnTheWay = (Messages(in_flight) \o buffer) \o fw_m
  BY DEF OnTheWay, OnTheWire, Messages
<1>3. Messages(in_flight) \in Seq(Datagram)
  BY <1>1, MessagesOfWire
<1> QED BY <1>1, <1>2, <1>3, ConcatProperties

LEMMA ChannelPartsNext ==
    ASSUME TypeOK'
    PROVE  OnTheWay' = (Messages(in_flight') \o buffer') \o fw_m'
BY DEF OnTheWay, OnTheWire, Messages

(* An undelivered datagram at the head or the tail of the channel is a      *)
(* loss of LossyFifo.                                                       *)
LEMMA LoseFirst ==
    ASSUME TypeOK, OnTheWay # <<>>, OnTheWay' = Tail(OnTheWay),
           UNCHANGED <<received1, delivered2>>
    PROVE  Forward!Next
<1>1. OnTheWay \in Seq(Datagram)
  BY ChannelParts
<1>2. 1 \in DOMAIN OnTheWay
  BY <1>1, SeqFacts
<1>3. OnTheWay' = Forward!RemoveAt(OnTheWay, 1)
  BY <1>1, RemoveFirst DEF Forward!RemoveAt
<1> QED BY <1>2, <1>3 DEF Forward!Next, Forward!Lose

LEMMA LoseLast ==
    ASSUME TypeOK, NEW s \in Seq(Datagram), NEW d \in Datagram,
           OnTheWay = Append(s, d), OnTheWay' = s,
           UNCHANGED <<received1, delivered2>>
    PROVE  Forward!Next
<1>1. Len(OnTheWay) \in DOMAIN OnTheWay
  BY AppendElements
<1>2. OnTheWay' = Forward!RemoveAt(OnTheWay, Len(OnTheWay))
  BY RemoveLast DEF Forward!RemoveAt
<1> QED BY <1>1, <1>2 DEF Forward!Next, Forward!Lose

LEMMA SendRefines ==
    ASSUME LinkInv, TypeOK', link_scheduler_send
    PROVE  Forward!Next
<1>1. TypeOK
  BY DEF LinkInv
<1>2. /\ in_flight # <<>>
      /\ in_flight' = Tail(in_flight)
      /\ delivered2' \in {delivered2, Append(delivered2, Head(in_flight).m)}
      /\ UNCHANGED <<buffer, fw_m, received1>>
  BY DEF link_scheduler_send, Due, send_message2, dequeue, fwVars
<1>3. /\ Messages(in_flight) # <<>>
      /\ Head(Messages(in_flight)) = Head(in_flight).m
      /\ Messages(in_flight') = Tail(Messages(in_flight))
  BY <1>1, <1>2, ChannelParts, MessagesOfTail
<1> DEFINE front == Messages(in_flight) \o buffer
<1>4. /\ front \in Seq(Datagram) /\ front # <<>>
      /\ Head(front) = Head(in_flight).m
      /\ Messages(in_flight') \o buffer' = Tail(front)
  <2> DEFINE w == Messages(in_flight)
  <2>1. w \in Seq(Datagram) /\ buffer \in Seq(Datagram)
    BY <1>1, ChannelParts
  <2>2. /\ w # <<>> /\ Head(w) = Head(in_flight).m
        /\ Messages(in_flight') \o buffer' = Tail(w) \o buffer
    BY <1>2, <1>3
  <2> HIDE DEF w
  <2>3. /\ w \o buffer \in Seq(Datagram) /\ w \o buffer # <<>>
        /\ Head(w \o buffer) = Head(w)
        /\ Tail(w \o buffer) = Tail(w) \o buffer
    BY <2>1, <2>2, TailOfConcat
  <2> QED BY <2>2, <2>3 DEF w
<1>5. OnTheWay = front \o fw_m /\ OnTheWay' = Tail(front) \o fw_m
  BY <1>1, <1>2, <1>4, ChannelParts, ChannelPartsNext
<1>6. fw_m \in Seq(Datagram)
  BY <1>1, ChannelParts
<1> HIDE DEF front
<1>7. /\ OnTheWay # <<>> /\ Head(OnTheWay) = Head(in_flight).m
      /\ OnTheWay' = Tail(OnTheWay)
  BY <1>4, <1>5, <1>6, TailOfConcat
<1>8. CASE delivered2' = delivered2
  BY <1>1, <1>2, <1>7, <1>8, LoseFirst
<1>9. CASE delivered2' = Append(delivered2, Head(in_flight).m)
  BY <1>2, <1>7, <1>9 DEF Forward!Next, Forward!Deliver
<1> QED BY <1>2, <1>8, <1>9

LEMMA PutRefines ==
    ASSUME LinkInv, TypeOK', link_scheduler_put
    PROVE  UNCHANGED Forward!vars
<1>1. TypeOK
  BY DEF LinkInv
<1>2. UNCHANGED <<fw_m, received1, delivered2>>
  BY DEF link_scheduler_put, fwVars
<1>3. CASE ~WireFree
  <2>1. UNCHANGED <<in_flight, buffer>>
    BY <1>3 DEF link_scheduler_put
  <2> QED BY <1>2, <2>1 DEF Forward!vars, OnTheWay, OnTheWire
<1>4. CASE WireFree
  <2> DEFINE new == [m |-> Head(buffer),
                     finish_time |-> crt_time + serialization_delay + delay]
  <2>1. /\ buffer # <<>> /\ buffer' = Tail(buffer)
        /\ in_flight' = Append(in_flight, new)
    BY <1>4 DEF link_scheduler_put, enqueue, dequeue
  <2>2. new \in Flight
    <3>1. Head(buffer) \in Datagram
      BY <1>1, <2>1, SeqFacts DEF TypeOK
    <3>2. crt_time + serialization_delay + delay \in Nat
      BY <1>1, LinkAssumption DEF TypeOK
    <3> QED BY <3>1, <3>2 DEF Flight
  <2>3. new.m = Head(buffer)
    OBVIOUS
  <2> HIDE DEF new
  <2>4. Messages(in_flight') = Append(Messages(in_flight), Head(buffer))
    BY <1>1, <2>1, <2>2, <2>3, ChannelParts, MessagesOfAppend
  <2>5. Messages(in_flight') \o buffer' = Messages(in_flight) \o buffer
    BY <1>1, <2>1, <2>4, ChannelParts, HandOver
  <2>6. OnTheWay' = OnTheWay
    BY <1>1, <1>2, <2>5, ChannelParts, ChannelPartsNext
  <2> QED BY <1>2, <2>6 DEF Forward!vars
<1> QED BY <1>3, <1>4

LEMMA ReceiveRefines ==
    ASSUME LinkInv, TypeOK', receive_message1
    PROVE  Forward!Next
<1>1. TypeOK /\ InvHeld
  BY DEF LinkInv
<1> DEFINE d == [id |-> received1', damaged |-> FALSE]
           front == Messages(in_flight) \o buffer
<1>2. /\ fw_m = <<>> /\ fw_m' = <<d>>
      /\ received1' = received1 + 1
      /\ UNCHANGED <<in_flight, buffer, delivered2>>
  BY <1>1 DEF InvHeld, receive_message1, FwAt, schedVars
<1>3. d \in Datagram
  BY DEF Datagram, TypeOK
<1>4. front \in Seq(Datagram) /\ OnTheWay = front \o <<>> /\ OnTheWay' = front \o <<d>>
  BY <1>1, <1>2, ChannelParts, ChannelPartsNext
<1> HIDE DEF d, front
<1>5. OnTheWay' = Append(OnTheWay, d)
  BY <1>3, <1>4, ConcatEmptySeq, AppendIsConcat
<1> QED BY <1>2, <1>5 DEF Forward!Next, Forward!Send, d

LEMMA DropRefines ==
    ASSUME LinkInv, TypeOK', run_forwarding_drop
    PROVE  Forward!Next
<1>1. TypeOK /\ InvHeld
  BY DEF LinkInv
<1> DEFINE d == [id |-> received1, damaged |-> FALSE]
           front == Messages(in_flight) \o buffer
<1>2. /\ fw_m = <<d>> /\ fw_m' = <<>>
      /\ UNCHANGED <<in_flight, buffer, received1, delivered2>>
  BY <1>1 DEF InvHeld, run_forwarding_drop, FwAt, schedVars
<1>3. d \in Datagram
  BY <1>1 DEF Datagram, TypeOK
<1>4. front \in Seq(Datagram) /\ OnTheWay = front \o <<d>> /\ OnTheWay' = front \o <<>>
  BY <1>1, <1>2, ChannelParts, ChannelPartsNext
<1> HIDE DEF d, front
<1>5. OnTheWay = Append(front, d) /\ OnTheWay' = front
  BY <1>3, <1>4, ConcatEmptySeq, AppendIsConcat
<1> QED BY <1>1, <1>2, <1>3, <1>4, <1>5, LoseLast

LEMMA EnqueueRefines ==
    ASSUME LinkInv, TypeOK', run_forwarding_enqueue
    PROVE  Forward!Next \/ UNCHANGED Forward!vars
<1>1. TypeOK /\ InvHeld
  BY DEF LinkInv
<1> DEFINE d == [id |-> received1, damaged |-> FALSE]
           front == Messages(in_flight) \o buffer
<1>2. PICK hit \in BOOLEAN :
         buffer' = Append(buffer, [id |-> fw_m[1].id, damaged |-> hit])
  BY DEF run_forwarding_enqueue, enqueue, Chance
<1> DEFINE e == [id |-> received1, damaged |-> hit]
<1>3. /\ fw_m = <<d>> /\ fw_m' = <<>>
      /\ buffer' = Append(buffer, e)
      /\ UNCHANGED <<in_flight, received1, delivered2>>
  BY <1>1, <1>2 DEF InvHeld, run_forwarding_enqueue, FwAt
<1>4. d \in Datagram /\ e \in Datagram
  BY <1>1 DEF Datagram, TypeOK
<1>5. /\ hit => e = [id |-> d.id, damaged |-> TRUE]
      /\ ~hit => e = d
  OBVIOUS
<1>6. /\ front \in Seq(Datagram) /\ OnTheWay = front \o <<d>>
      /\ OnTheWay' = (Messages(in_flight) \o Append(buffer, e)) \o <<>>
  BY <1>1, <1>3, ChannelParts, ChannelPartsNext
<1> HIDE DEF d, e
<1>7. Messages(in_flight) \o Append(buffer, e) = Append(front, e)
  BY <1>1, <1>4, ChannelParts, ConcatAppend
<1> HIDE DEF front
<1>8. Append(front, e) \in Seq(Datagram)
  BY <1>4, <1>6, AppendElements
<1>9. OnTheWay = Append(front, d) /\ OnTheWay' = Append(front, e)
  BY <1>4, <1>6, <1>7, <1>8, ConcatEmptySeq, AppendIsConcat
<1>10. CASE hit
  <2>1. /\ Len(front) + 1 \in DOMAIN OnTheWay
        /\ OnTheWay[Len(front) + 1] = d
    BY <1>4, <1>6, <1>9, AppendElements
  <2>2. OnTheWay' = [OnTheWay EXCEPT ![Len(front) + 1] = e]
    <3> DEFINE n == Len(front) + 1
    <3>1. n = Len(front) + 1
      OBVIOUS
    <3> HIDE DEF n
    <3>2. Append(front, e) = [Append(front, d) EXCEPT ![n] = e]
      BY <1>4, <1>6, <3>1, ChangeLast
    <3> QED BY <1>9, <3>1, <3>2
  <2>3. Forward!Damage
    BY <1>3, <1>5, <1>10, <2>1, <2>2 DEF Forward!Damage
  <2> QED BY <2>3 DEF Forward!Next
<1>11. CASE ~hit
  BY <1>3, <1>5, <1>9, <1>11 DEF Forward!vars
<1> QED BY <1>10, <1>11

(* Every step of the emulator is a step of LossyFifo or leaves it alone. *)
LEMMA ForwardStep ==
    ASSUME LinkInv, TypeOK', Next
    PROVE  Forward!Next \/ UNCHANGED Forward!vars
<1>1. CASE \/ link_scheduler_send \/ link_scheduler_put \/ receive_message1
           \/ run_forwarding_drop \/ run_forwarding_enqueue
  BY <1>1, SendRefines, PutRefines, ReceiveRefines, DropRefines, EnqueueRefines
<1>2. CASE ~(\/ link_scheduler_send \/ link_scheduler_put \/ receive_message1
             \/ run_forwarding_drop \/ run_forwarding_enqueue)
  <2>1. UNCHANGED <<in_flight, buffer, fw_m, received1, delivered2>>
    BY <1>2 DEF Next, SchedulerStep, ForwardingStep, Tick, read_error,
           link_scheduler_top, link_scheduler_peek, link_scheduler_wake,
           link_scheduler_idle, link_scheduler_resume, receive_message1_first,
           run_forwarding_check, receive_message2_first, receive_message2,
           send_message1, schedVars, fwVars
  <2> QED BY <2>1 DEF Forward!vars, OnTheWay, OnTheWire
<1> QED BY <1>1, <1>2

-----------------------------------------------------------------------------
(* The forwarding direction is one ordered, lossy channel for every         *)
(* capacity, delay, loss rate and number of datagrams.                      *)
THEOREM ForwardRefines == Spec => Forward!Spec
<1>1. Init => Forward!Init
  <2> SUFFICES ASSUME Init PROVE Forward!Init
    OBVIOUS
  <2>1. TypeOK
    BY LinkInit DEF LinkInv
  <2>2. Messages(in_flight) = <<>>
    BY <2>1, ChannelParts, MessagesOfWire DEF Init
  <2>3. OnTheWay = (<<>> \o <<>>) \o <<>>
    BY <2>1, <2>2, ChannelParts DEF Init
  <2>4. OnTheWay = <<>>
    BY <2>3, EmptySeq, ConcatEmptySeq
  <2> QED BY <2>4 DEF Init, Forward!Init
<1>2. LinkInv /\ LinkInv' /\ [Next]_vars => [Forward!Next]_(Forward!vars)
  <2>1. ASSUME LinkInv, LinkInv', UNCHANGED vars PROVE UNCHANGED Forward!vars
    BY <2>1 DEF vars, schedVars, fwVars, Forward!vars, OnTheWay, OnTheWire
  <2>2. LinkInv' => TypeOK'
    BY DEF LinkInv
  <2> QED BY <2>1, <2>2, ForwardStep
<1> QED BY <1>1, <1>2, LinkInvariance, PTL DEF Spec, Forward!Spec

(* That channel is what the property says. *)
THEOREM ForwardChannelHolds == Spec => ForwardChannel
BY ForwardRefines DEF ForwardChannel

-----------------------------------------------------------------------------
(* The channel keeps the order of sending. *)

ChannelTypeOK ==
    /\ received1 \in Nat
    /\ OnTheWay \in Seq(Forward!Datagram)
    /\ delivered2 \in Seq(Forward!Datagram)

ChannelInv == ChannelTypeOK /\ Forward!InOrder

(* The numbers of a sequence of datagrams are among the first n and grow. *)
Ordered(s, n) ==
    /\ \A i \in 1 .. Len(s) : s[i].id \in 1 .. n
    /\ \A i, j \in 1 .. Len(s) : i < j => s[i].id < s[j].id

(* The invariant speaks of one sequence: the domain of a concatenation is   *)
(* an interval.                                                             *)
LEMMA DomainOfConcat ==
    ASSUME NEW s \in Seq(Forward!Datagram), NEW t \in Seq(Forward!Datagram)
    PROVE  /\ s \o t \in Seq(Forward!Datagram)
           /\ Len(s \o t) \in Nat
           /\ DOMAIN (s \o t) = 1 .. Len(s \o t)
BY ConcatProperties, LenProperties

LEMMA InOrderIsOrdered ==
    ASSUME ChannelTypeOK
    PROVE  Forward!InOrder <=> Ordered(delivered2 \o OnTheWay, received1)
BY DomainOfConcat DEF Forward!InOrder, Ordered, ChannelTypeOK

LEMMA InOrderIsOrderedNext ==
    ASSUME ChannelTypeOK'
    PROVE  Forward!InOrder' <=> Ordered((delivered2 \o OnTheWay)', received1')
BY DomainOfConcat DEF Forward!InOrder, Ordered, ChannelTypeOK

(* A sequence with one place left out is made of the elements before and    *)
(* after it.                                                                *)
LEMMA RemoveAtElements ==
    ASSUME NEW S, NEW s \in Seq(S), NEW k \in 1 .. Len(s)
    PROVE  /\ Forward!RemoveAt(s, k) \in Seq(S)
           /\ Len(Forward!RemoveAt(s, k)) = Len(s) - 1
           /\ \A i \in 1 .. Len(s) - 1 :
                Forward!RemoveAt(s, k)[i] = IF i < k THEN s[i] ELSE s[i + 1]
<1> DEFINE before == SubSeq(s, 1, k - 1)
           after  == SubSeq(s, k + 1, Len(s))
<1>0. Len(s) \in Nat /\ \A i \in 1 .. Len(s) : s[i] \in S
  BY LenProperties, ElementOfSeq
<1>1. /\ before \in Seq(S)
      /\ Len(before) = k - 1
      /\ \A i \in 1 .. k - 1 : before[i] = s[i]
  <2>1. \A i \in 1 .. k - 1 : s[i] \in S
    BY <1>0
  <2> QED BY <1>0, <2>1, SubSeqProperties, Z3
<1>2. /\ after \in Seq(S)
      /\ Len(after) = Len(s) - k
      /\ \A i \in 1 .. Len(s) - k : after[i] = s[k + i]
  <2>1. \A i \in k + 1 .. Len(s) : s[i] \in S
    BY <1>0
  <2> QED BY <1>0, <2>1, SubSeqProperties, Z3
<1>3. Forward!RemoveAt(s, k) = before \o after
  BY DEF Forward!RemoveAt
<1> HIDE DEF before, after
<1>4. /\ before \o after \in Seq(S)
      /\ Len(before \o after) = Len(before) + Len(after)
      /\ \A i \in 1 .. Len(before) + Len(after) : (before \o after)[i] =
             IF i <= Len(before) THEN before[i] ELSE after[i - Len(before)]
  BY <1>1, <1>2, ConcatProperties
<1>5. PICK r : r = before \o after
  OBVIOUS
<1>6. /\ r \in Seq(S) /\ Len(r) = Len(s) - 1
      /\ \A i \in 1 .. Len(s) - 1 :
            r[i] = IF i <= k - 1 THEN before[i] ELSE after[i - (k - 1)]
  BY ONLY <1>0, <1>1, <1>2, <1>4, <1>5, k \in 1 .. Len(s)
<1>7. ASSUME NEW i \in 1 .. Len(s) - 1 PROVE r[i] = IF i < k THEN s[i] ELSE s[i + 1]
  <2>1. CASE i < k
    <3>1. i <= k - 1 /\ i \in 1 .. k - 1
      BY ONLY <1>0, <2>1, i \in 1 .. Len(s) - 1, k \in 1 .. Len(s)
    <3> QED BY <1>1, <1>6, <2>1, <3>1
  <2>2. CASE ~ (i < k)
    <3>1. ~ (i <= k - 1) /\ i - (k - 1) \in 1 .. Len(s) - k /\ k + (i - (k - 1)) = i + 1
      BY ONLY <1>0, <2>2, i \in 1 .. Len(s) - 1, k \in 1 .. Len(s)
    <3>2. r[i] = after[i - (k - 1)]
      BY <1>6, <3>1
    <3>3. after[i - (k - 1)] = s[k + (i - (k - 1))]
      BY <1>2, <3>1
    <3> QED BY <2>2, <3>1, <3>2, <3>3
  <2> QED BY <2>1, <2>2
<1> QED BY <1>3, <1>5, <1>6, <1>7

(* An ordered sequence stays ordered when the element at k is left out. *)
LEMMA OrderedWithGap ==
    ASSUME NEW s, NEW u, NEW n,
           Len(s) \in Nat, NEW k \in 1 .. Len(s),
           Len(u) = Len(s) - 1,
           \A j \in 1 .. Len(u) : u[j] = IF j < k THEN s[j] ELSE s[j + 1],
           Ordered(s, n)
    PROVE  Ordered(u, n)
<1> DEFINE at(j) == IF j < k THEN j ELSE j + 1
<1>1. ASSUME NEW j \in 1 .. Len(u)
      PROVE  at(j) \in 1 .. Len(s) /\ u[j] = s[at(j)]
  OBVIOUS
<1>2. ASSUME NEW i \in 1 .. Len(u), NEW j \in 1 .. Len(u), i < j
      PROVE  at(i) < at(j)
  BY <1>2
<1> HIDE DEF at
<1>3. ASSUME NEW j \in 1 .. Len(u)
      PROVE  u[j].id \in 1 .. n
  BY <1>1 DEF Ordered
<1>4. ASSUME NEW i \in 1 .. Len(u), NEW j \in 1 .. Len(u), i < j
      PROVE  u[i].id < u[j].id
  BY <1>1, <1>2, <1>4 DEF Ordered
<1> QED BY <1>3, <1>4 DEF Ordered

(* A new datagram has a number of its own. *)
LEMMA SendKeepsOrder ==
    ASSUME ChannelInv, Forward!Send
    PROVE  ChannelInv'
<1> DEFINE new == [id |-> received1 + 1, damaged |-> FALSE]
           all == delivered2 \o OnTheWay
<1>1. /\ received1' = received1 + 1
      /\ received1' \in Nat
      /\ new \in Forward!Datagram
      /\ new.id = received1 + 1
      /\ OnTheWay' = Append(OnTheWay, new)
      /\ delivered2' = delivered2
  BY DEF ChannelInv, ChannelTypeOK, Forward!Send, Forward!Datagram
<1>2. Ordered(all, received1)
  BY InOrderIsOrdered DEF ChannelInv
<1> HIDE DEF new
<1>3. ChannelTypeOK'
  BY <1>1, AppendProperties DEF ChannelInv, ChannelTypeOK
<1>4. /\ all \in Seq(Forward!Datagram)
      /\ Len(all) \in Nat
  BY ConcatProperties, LenProperties DEF ChannelInv, ChannelTypeOK
<1>5. delivered2' \o OnTheWay' = Append(all, new)
  <2>1. Append(OnTheWay, new) = OnTheWay \o <<new>>
    BY <1>1, AppendIsConcat DEF ChannelInv, ChannelTypeOK
  <2>2. Append(all, new) = all \o <<new>>
    BY <1>1, <1>4, AppendIsConcat
  <2>3. <<new>> \in Seq(Forward!Datagram)
    BY <1>1
  <2> QED
    BY <1>1, <2>1, <2>2, <2>3, ConcatAssociative DEF ChannelInv, ChannelTypeOK
<1> HIDE DEF all
<1>6. /\ Len(Append(all, new)) = Len(all) + 1
      /\ \A i \in 1 .. Len(all) : Append(all, new)[i] = all[i]
      /\ Append(all, new)[Len(all) + 1] = new
  BY <1>1, <1>4, AppendProperties
<1>7. Ordered(Append(all, new), received1 + 1)
  <2>1. PICK n, m, e : n = Len(all) /\ m = received1 /\ e = Append(all, new)
    OBVIOUS
  <2>2. n \in Nat /\ m \in Nat
    BY <1>4, <2>1 DEF ChannelInv, ChannelTypeOK
  <2>3. /\ \A i \in 1 .. n : all[i].id \in 1 .. m
        /\ \A i, j \in 1 .. n : i < j => all[i].id < all[j].id
    BY <1>2, <2>1 DEF Ordered
  <2>4. Len(e) = n + 1 /\ e[n + 1].id = m + 1 /\ \A i \in 1 .. n : e[i] = all[i]
    BY <1>1, <1>6, <2>1
  <2>5. \A i \in 1 .. n + 1 : i \in 1 .. n \/ i = n + 1
    BY <2>2
  <2>6. ASSUME NEW i \in 1 .. n + 1 PROVE e[i].id \in 1 .. m + 1
    BY ONLY <2>2, <2>3, <2>4, <2>5, i \in 1 .. n + 1
  <2>7. ASSUME NEW i \in 1 .. n + 1, NEW j \in 1 .. n + 1, i < j PROVE e[i].id < e[j].id
    <3>1. i \in 1 .. n /\ e[i].id \in 1 .. m
      <4>1. i \in 1 .. n
        BY ONLY <2>2, <2>7, i \in 1 .. n + 1, j \in 1 .. n + 1
      <4> QED BY <2>3, <2>4, <4>1
    <3>2. CASE j = n + 1
      BY ONLY <2>2, <2>4, <3>1, <3>2
    <3>3. CASE j \in 1 .. n
      BY ONLY <2>3, <2>4, <2>7, <3>1, <3>3
    <3> QED BY <2>5, <3>2, <3>3
  <2> QED BY <2>1, <2>4, <2>6, <2>7 DEF Ordered
<1> QED
  BY <1>1, <1>3, <1>5, <1>7, InOrderIsOrderedNext DEF ChannelInv

LEMMA DamageKeepsOrder ==
    ASSUME ChannelInv, Forward!Damage
    PROVE  ChannelInv'
<1>1. PICK i \in DOMAIN OnTheWay :
        OnTheWay' = [OnTheWay EXCEPT ![i] = [id |-> @.id, damaged |-> TRUE]]
  BY DEF Forward!Damage
<1>2. received1' = received1 /\ delivered2' = delivered2
  BY DEF Forward!Damage
<1>3. /\ i \in 1 .. Len(OnTheWay)
      /\ Len(OnTheWay) \in Nat
      /\ OnTheWay[i] \in Forward!Datagram
      /\ [id |-> OnTheWay[i].id, damaged |-> TRUE] \in Forward!Datagram
  <2>1. i \in 1 .. Len(OnTheWay) /\ Len(OnTheWay) \in Nat
    BY <1>1, LenProperties DEF ChannelInv, ChannelTypeOK
  <2>2. OnTheWay[i] \in Forward!Datagram
    BY <2>1, ElementOfSeq DEF ChannelInv, ChannelTypeOK
  <2> QED BY <2>1, <2>2 DEF Forward!Datagram
<1>4. /\ OnTheWay' \in Seq(Forward!Datagram)
      /\ Len(OnTheWay') = Len(OnTheWay)
      /\ \A j \in 1 .. Len(OnTheWay) : OnTheWay'[j].id = OnTheWay[j].id
  BY <1>1, <1>3, ExceptSeq DEF ChannelInv, ChannelTypeOK
<1>5. ChannelTypeOK'
  BY <1>2, <1>4 DEF ChannelInv, ChannelTypeOK
<1>6. /\ Len(delivered2' \o OnTheWay') = Len(delivered2 \o OnTheWay)
      /\ \A j \in 1 .. Len(delivered2 \o OnTheWay) :
            (delivered2' \o OnTheWay')[j].id = (delivered2 \o OnTheWay)[j].id
  <2>1. /\ Len(delivered2) \in Nat
        /\ Len(delivered2 \o OnTheWay) = Len(delivered2) + Len(OnTheWay)
        /\ \A j \in 1 .. Len(delivered2) + Len(OnTheWay) : (delivered2 \o OnTheWay)[j] =
              IF j <= Len(delivered2) THEN delivered2[j] ELSE OnTheWay[j - Len(delivered2)]
    BY ConcatProperties, LenProperties DEF ChannelInv, ChannelTypeOK
  <2>2. /\ Len(delivered2 \o OnTheWay') = Len(delivered2) + Len(OnTheWay')
        /\ \A j \in 1 .. Len(delivered2) + Len(OnTheWay') : (delivered2 \o OnTheWay')[j] =
              IF j <= Len(delivered2) THEN delivered2[j] ELSE OnTheWay'[j - Len(delivered2)]
    <3>1. delivered2 \in Seq(Forward!Datagram) /\ OnTheWay' \in Seq(Forward!Datagram)
      BY <1>4 DEF ChannelInv, ChannelTypeOK
    <3> QED BY <3>1, ConcatProperties
  <2>3. ASSUME NEW j \in 1 .. Len(delivered2) + Len(OnTheWay)
        PROVE  (delivered2 \o OnTheWay')[j].id = (delivered2 \o OnTheWay)[j].id
    <3>1. CASE j <= Len(delivered2)
      BY <1>3, <1>4, <2>1, <2>2, <3>1
    <3>2. CASE ~(j <= Len(delivered2))
      <4>1. j - Len(delivered2) \in 1 .. Len(OnTheWay)
        BY <1>3, <2>1, <3>2
      <4> QED BY <1>3, <1>4, <2>1, <2>2, <3>2, <4>1
    <3> QED BY <3>1, <3>2
  <2> QED BY <1>2, <1>4, <2>1, <2>2, <2>3
<1>7. Ordered(delivered2 \o OnTheWay, received1)
  BY InOrderIsOrdered DEF ChannelInv
<1>8. Ordered(delivered2' \o OnTheWay', received1')
  BY <1>2, <1>6, <1>7 DEF Ordered
<1> QED BY <1>5, <1>8, InOrderIsOrderedNext DEF ChannelInv

(* What is lost leaves a gap in the order, no more. *)
LEMMA LoseKeepsOrder ==
    ASSUME ChannelInv, Forward!Lose
    PROVE  ChannelInv'
<1>1. PICK i \in DOMAIN OnTheWay : OnTheWay' = Forward!RemoveAt(OnTheWay, i)
  BY DEF Forward!Lose
<1>2. received1' = received1 /\ delivered2' = delivered2
  BY DEF Forward!Lose
<1> DEFINE d == Len(delivered2)
           c == Len(OnTheWay)
<1>3. /\ i \in 1 .. c
      /\ c \in Nat
      /\ d \in Nat
  BY <1>1, LenProperties DEF ChannelInv, ChannelTypeOK
<1>4. /\ OnTheWay' \in Seq(Forward!Datagram)
      /\ Len(OnTheWay') = c - 1
      /\ \A j \in 1 .. c - 1 :
            OnTheWay'[j] = IF j < i THEN OnTheWay[j] ELSE OnTheWay[j + 1]
  BY <1>1, <1>3, RemoveAtElements DEF ChannelInv, ChannelTypeOK
<1>5. ChannelTypeOK'
  BY <1>2, <1>4 DEF ChannelInv, ChannelTypeOK
<1>6. /\ Len(delivered2 \o OnTheWay) = d + c
      /\ \A j \in 1 .. d + c : (delivered2 \o OnTheWay)[j] =
            IF j <= d THEN delivered2[j] ELSE OnTheWay[j - d]
  BY ConcatProperties DEF ChannelInv, ChannelTypeOK
<1>7. /\ Len(delivered2 \o OnTheWay') = d + (c - 1)
      /\ \A j \in 1 .. d + (c - 1) : (delivered2 \o OnTheWay')[j] =
            IF j <= d THEN delivered2[j] ELSE OnTheWay'[j - d]
  <2>1. delivered2 \in Seq(Forward!Datagram) /\ OnTheWay' \in Seq(Forward!Datagram)
    BY <1>4 DEF ChannelInv, ChannelTypeOK
  <2>2. /\ Len(delivered2 \o OnTheWay') = Len(delivered2) + Len(OnTheWay')
        /\ \A j \in 1 .. Len(delivered2) + Len(OnTheWay') : (delivered2 \o OnTheWay')[j] =
             IF j <= Len(delivered2) THEN delivered2[j] ELSE OnTheWay'[j - Len(delivered2)]
    BY <2>1, ConcatProperties
  <2> QED BY <1>4, <2>2
<1> HIDE DEF d, c
<1> DEFINE old == delivered2 \o OnTheWay
           new == delivered2 \o OnTheWay'
           k   == d + i
<1>8. /\ k \in 1 .. Len(old)
      /\ Len(old) \in Nat
      /\ Len(new) = Len(old) - 1
  BY <1>3, <1>6, <1>7
<1>9. ASSUME NEW j \in 1 .. Len(new)
      PROVE  new[j] = IF j < k THEN old[j] ELSE old[j + 1]
  <2>0. j \in 1 .. d + (c - 1)
    BY <1>7
  <2>1. CASE j <= d
    <3>1. j < k /\ j \in 1 .. d + c
      BY ONLY <1>3, <2>0, <2>1 DEF k
    <3>2. new[j] = delivered2[j]
      BY <1>7, <2>0, <2>1
    <3>3. old[j] = delivered2[j]
      BY <1>6, <2>1, <3>1
    <3> QED BY <3>1, <3>2, <3>3
  <2>2. CASE ~(j <= d)
    <3>1. j - d \in 1 .. c - 1
      BY <1>3, <2>0, <2>2
    <3>2. new[j] = IF j - d < i THEN OnTheWay[j - d] ELSE OnTheWay[j - d + 1]
      BY <1>4, <1>7, <2>0, <2>2, <3>1
    <3>3. old[j] = OnTheWay[j - d] /\ old[j + 1] = OnTheWay[(j - d) + 1]
      <4>1. /\ j \in 1 .. d + c /\ j + 1 \in 1 .. d + c
            /\ ~(j + 1 <= d)
        BY <1>3, <2>0, <2>2
      <4>2. old[j + 1] = OnTheWay[(j - d) + 1]
        <5>1. (j + 1) - d = (j - d) + 1
          BY <1>3, <4>1
        <5>2. old[j + 1] = OnTheWay[(j + 1) - d]
          BY <1>6, <4>1
        <5> QED BY <5>1, <5>2
      <4>3. old[j] = OnTheWay[j - d]
        BY <1>6, <2>2, <4>1
      <4> QED BY <4>2, <4>3
    <3> QED BY <1>3, <2>0, <3>1, <3>2, <3>3
  <2> QED BY <2>1, <2>2
<1>10. Ordered(old, received1)
  BY InOrderIsOrdered DEF ChannelInv
<1> HIDE DEF old, new, k
<1>11. Ordered(new, received1)
  BY <1>8, <1>9, <1>10, OrderedWithGap
<1> USE DEF old, new
<1> QED BY <1>2, <1>5, <1>11, InOrderIsOrderedNext DEF ChannelInv

LEMMA DeliverKeepsOrder ==
    ASSUME ChannelInv, Forward!Deliver
    PROVE  ChannelInv'
<1>1. /\ OnTheWay # <<>>
      /\ delivered2' = Append(delivered2, Head(OnTheWay))
      /\ OnTheWay' = Tail(OnTheWay)
      /\ received1' = received1
  BY DEF Forward!Deliver
<1>2. /\ Head(OnTheWay) \in Forward!Datagram
      /\ Tail(OnTheWay) \in Seq(Forward!Datagram)
  BY <1>1, HeadTailProperties DEF ChannelInv, ChannelTypeOK
<1>3. ChannelTypeOK'
  BY <1>1, <1>2, AppendProperties DEF ChannelInv, ChannelTypeOK
<1>4. delivered2' \o OnTheWay' = delivered2 \o OnTheWay
  <2>1. Append(delivered2, Head(OnTheWay)) = delivered2 \o <<Head(OnTheWay)>>
    BY <1>2, AppendIsConcat DEF ChannelInv, ChannelTypeOK
  <2>2. <<Head(OnTheWay)>> \o Tail(OnTheWay) = OnTheWay
    <3>1. /\ <<Head(OnTheWay)>> \in Seq(Forward!Datagram)
          /\ Len(OnTheWay) \in Nat \ {0}
          /\ Head(OnTheWay) = OnTheWay[1]
      BY <1>1, <1>2, EmptySeq DEF ChannelInv, ChannelTypeOK
    <3>2. /\ Len(Tail(OnTheWay)) = Len(OnTheWay) - 1
          /\ \A i \in 1 .. Len(Tail(OnTheWay)) : Tail(OnTheWay)[i] = OnTheWay[i + 1]
      BY <1>1, HeadTailProperties DEF ChannelInv, ChannelTypeOK
    <3>3. /\ <<Head(OnTheWay)>> \o Tail(OnTheWay) \in Seq(Forward!Datagram)
          /\ Len(<<Head(OnTheWay)>> \o Tail(OnTheWay)) = 1 + Len(Tail(OnTheWay))
          /\ \A i \in 1 .. 1 + Len(Tail(OnTheWay)) :
               (<<Head(OnTheWay)>> \o Tail(OnTheWay))[i] =
                 IF i <= 1 THEN <<Head(OnTheWay)>>[i] ELSE Tail(OnTheWay)[i - 1]
      BY <1>2, <3>1, ConcatProperties
    <3>4. \A i \in 1 .. Len(OnTheWay) :
            (<<Head(OnTheWay)>> \o Tail(OnTheWay))[i] = OnTheWay[i]
      BY <3>1, <3>2, <3>3
    <3> QED BY <3>1, <3>2, <3>3, <3>4, SeqEqual DEF ChannelInv, ChannelTypeOK
  <2>3. <<Head(OnTheWay)>> \in Seq(Forward!Datagram)
    BY <1>2
  <2> QED BY <1>1, <1>2, <2>1, <2>2, <2>3, ConcatAssociative DEF ChannelInv, ChannelTypeOK
<1> QED
  BY <1>1, <1>3, <1>4, InOrderIsOrdered, InOrderIsOrderedNext DEF ChannelInv

(* However many datagrams are sent, damaged, lost and delivered, in every   *)
(* order of these steps, they come out in the order of sending and none     *)
(* comes out twice.                                                         *)
THEOREM ChannelKeepsOrder == Forward!Spec => []Forward!InOrder
<1>1. Forward!Init => ChannelInv
  <2> SUFFICES ASSUME Forward!Init PROVE ChannelInv
    OBVIOUS
  <2>1. ChannelTypeOK
    BY EmptySeq DEF Forward!Init, ChannelTypeOK
  <2>2. delivered2 \o OnTheWay = <<>>
    BY DEF Forward!Init
  <2> QED BY <2>1, <2>2 DEF ChannelInv, Forward!InOrder
<1>2. ChannelInv /\ [Forward!Next]_(Forward!vars) => ChannelInv'
  <2>1. ASSUME ChannelInv, UNCHANGED Forward!vars PROVE ChannelInv'
    BY <2>1 DEF ChannelInv, ChannelTypeOK, Forward!InOrder, Forward!vars
  <2> QED BY <2>1, SendKeepsOrder, DamageKeepsOrder, LoseKeepsOrder, DeliverKeepsOrder DEF Forward!Next
<1>3. ChannelInv => Forward!InOrder
  BY DEF ChannelInv
<1> QED BY <1>1, <1>2, <1>3, PTL DEF Forward!Spec

(* Peer 2 therefore sees the datagrams in the order of sending, none twice. *)
THEOREM ForwardInOrderHolds == Spec => []ForwardInOrder
<1>1. Forward!InOrder => ForwardInOrder
  BY DEF ForwardInOrder
<1> QED BY <1>1, ForwardRefines, ChannelKeepsOrder, PTL

-----------------------------------------------------------------------------
(* The other direction holds one datagram at most. *)

LEMMA ReverseReceive ==
    ASSUME LinkInv, receive_message2
    PROVE  Reverse!Next
<1>1. /\ rev_m = <<>> /\ rev_m' = <<[id |-> received2', damaged |-> FALSE]>>
      /\ received2' = received2 + 1 /\ delivered1' = delivered1
  BY DEF receive_message2
<1>2. rev_m' = Append(rev_m, [id |-> received2', damaged |-> FALSE])
  BY <1>1
<1> QED BY <1>1, <1>2 DEF Reverse!Next, Reverse!Send

LEMMA ReverseSend ==
    ASSUME LinkInv, send_message1
    PROVE  Reverse!Next
<1> DEFINE d == [id |-> received2, damaged |-> FALSE]
<1>1. /\ rev_m = <<d>> /\ rev_m' = <<>> /\ received2' = received2
      /\ delivered1' \in {delivered1, delivered1 \o rev_m}
  BY DEF LinkInv, InvHeld, send_message1
<1>2. delivered1 \in Seq(Datagram) /\ d \in Datagram
  BY DEF LinkInv, TypeOK, Datagram
<1> HIDE DEF d
<1>3. rev_m \in Seq(Datagram) /\ rev_m # <<>> /\ Head(rev_m) = d /\ Tail(rev_m) = <<>>
  BY <1>1, <1>2
<1>4. CASE delivered1' = delivered1
  <2>1. 1 \in DOMAIN rev_m
    BY <1>1
  <2>2. rev_m' = Reverse!RemoveAt(rev_m, 1)
    BY <1>1, <1>3, RemoveFirst DEF Reverse!RemoveAt
  <2> QED BY <1>1, <1>4, <2>1, <2>2 DEF Reverse!Next, Reverse!Lose
<1>5. CASE delivered1' = delivered1 \o rev_m
  <2>1. delivered1' = Append(delivered1, Head(rev_m))
    BY <1>1, <1>2, <1>3, <1>5, AppendIsConcat
  <2> QED BY <1>1, <1>3, <2>1 DEF Reverse!Next, Reverse!Deliver
<1> QED BY <1>1, <1>4, <1>5

(* Whichever peer speaks first, the reverse direction is such a channel.    *)
THEOREM ReverseChannelHolds == Spec => ReverseChannel
<1>1. Init => Reverse!Init
  BY DEF Init, Reverse!Init
<1>2. LinkInv /\ [Next]_vars => [Reverse!Next]_(Reverse!vars)
  <2>1. ASSUME LinkInv, Next, ~receive_message2, ~send_message1
        PROVE  UNCHANGED Reverse!vars
    BY <2>1 DEF Next, SchedulerStep, ForwardingStep, Tick, read_error,
           link_scheduler_top, link_scheduler_send, link_scheduler_peek,
           link_scheduler_put, link_scheduler_wake, link_scheduler_idle,
           link_scheduler_resume, receive_message1_first, receive_message1,
           run_forwarding_check, run_forwarding_drop, run_forwarding_enqueue,
           receive_message2_first, revVars, Reverse!vars
  <2>2. ASSUME UNCHANGED vars PROVE UNCHANGED Reverse!vars
    BY <2>2 DEF vars, revVars, Reverse!vars
  <2> QED BY <2>1, <2>2, ReverseReceive, ReverseSend
<1> QED BY <1>1, <1>2, LinkInvariance, PTL DEF Spec, ReverseChannel, Reverse!Spec
=============================================================================
