---------------------------- MODULE LinkEmulator ----------------------------
(***************************************************************************)
(* The link emulator, "TCP server/link_emulator/link.c" and "queue.c".     *)
(* Peer 1 talks to socket s1, peer 2 to s2.  Datagrams of peer 1 are lost, *)
(* damaged or queued by the forwarding thread (run_forwarding), moved from *)
(* the queue to a simulated wire by the scheduler thread (link_scheduler)  *)
(* and sent to peer 2 when their time has come.  Datagrams of peer 2 go    *)
(* to peer 1 at once (run_reverse_forwarding).                             *)
(*                                                                         *)
(* A section under buffer_lock is one step.  The clock advances between    *)
(* steps, so a thread may act on a reading of it that is out of date.      *)
(***************************************************************************)
EXTENDS Integers, Sequences

CONSTANTS
    BUFFER_SIZE,            \* capacity of the queue
    serialization_delay,    \* time a datagram occupies the wire
    delay,                  \* propagation time
    loss, corrupt,          \* percentages
    MaxForward, MaxReverse, \* bounds: datagrams read in each direction
    MaxLag                  \* bound: time that passes beyond the last timer

ASSUME LinkAssumption ==
    /\ BUFFER_SIZE \in Nat
    /\ serialization_delay \in Nat /\ delay \in Nat
    /\ serialization_delay + delay > 0
    /\ loss \in 0 .. 100 /\ corrupt \in 0 .. 100
    /\ MaxForward \in Nat /\ MaxReverse \in Nat /\ MaxLag \in Nat

VARIABLES
    clock,          \* what gettimeofday returns
    status,         \* of the process: running, aborted by assert, or exited
    link_up1,       \* peer 1 has been heard of: remote_addr1 is set
    link_up2,       \* peer 2 has been heard of: remote_addr2 is set
    buffer,         \* the queue between the forwarding thread and the scheduler
    sched_pc,       \* link_scheduler
    crt_time, idle_time, stuff, in_flight,
    wake,           \* when its usleep ends, 0 outside it
    fw_pc,          \* run_forwarding
    fw_m,           \* its m: a sequence of at most one datagram
    overflow,
    rev_m,          \* m of run_reverse_forwarding
    received1,      \* number of datagrams peer 1 had forwarded or dropped
    received2,      \* the same for peer 2
    delivered1,     \* what has been sent to peer 1 ...
    delivered2      \* ... and to peer 2, in order

schedVars == <<sched_pc, crt_time, idle_time, stuff, in_flight, wake>>
fwVars    == <<fw_pc, fw_m, overflow, received1>>
revVars   == <<rev_m, received2, delivered1>>
linkVars  == <<link_up1, link_up2>>
vars == <<clock, status, linkVars, buffer, schedVars, fwVars, revVars, delivered2>>

Init ==
    /\ clock = 0
    /\ status = "running"
    /\ link_up1 = FALSE /\ link_up2 = FALSE
    /\ buffer = <<>>
    /\ sched_pc = "top"
    /\ crt_time = 0 /\ idle_time = 0 /\ wake = 0
    /\ stuff = FALSE
    /\ in_flight = <<>>
    /\ fw_pc = "recv"
    /\ fw_m = <<>>
    /\ overflow = FALSE
    /\ rev_m = <<>>
    /\ received1 = 0 /\ received2 = 0
    /\ delivered1 = <<>> /\ delivered2 = <<>>

-----------------------------------------------------------------------------
(* queue.c: a sequence whose head is the list's "last" cell. *)

enqueue(q, m) == Append(q, m)

(* Mutated form: the cell is not unlinked. *)
keep(q) == q

dequeue(q) == Tail(q)

(* Time is only observed through timers: it passes while one is pending and *)
(* MaxLag beyond, which is how late a thread may act.                       *)
LatestTimer ==
    LET finish == IF in_flight = <<>> THEN 0
                  ELSE in_flight[Len(in_flight)].finish_time
        later(a, b) == IF a > b THEN a ELSE b
    IN  later(later(finish, idle_time), wake)

Tick ==
    /\ status = "running"
    /\ clock < LatestTimer + MaxLag
    /\ clock' = clock + 1
    /\ UNCHANGED <<status, linkVars, buffer, schedVars, fwVars, revVars, delivered2>>

(* recvfrom fails in one of the two receiving threads. *)
read_error ==
    /\ status = "running"
    /\ fw_pc = "recv" \/ rev_m = <<>>
    /\ status' = "exited"
    /\ UNCHANGED <<clock, linkVars, buffer, schedVars, fwVars, revVars, delivered2>>

-----------------------------------------------------------------------------
(* link_scheduler. *)

At(label) == status = "running" /\ sched_pc = label

link_scheduler_top ==
    /\ At("top")
    /\ crt_time' = clock
    /\ sched_pc' = "wire"
    /\ UNCHANGED <<clock, status, linkVars, buffer, idle_time, stuff, in_flight,
                   wake, fwVars, revVars, delivered2>>

Due == in_flight # <<>> /\ crt_time >= Head(in_flight).finish_time

(* sendto fails while the address of peer 2 is not known: the datagram is   *)
(* freed all the same.                                                      *)
send_message2(m) ==
    delivered2' = IF link_up2 THEN Append(delivered2, m) ELSE delivered2

link_scheduler_send ==
    /\ At("wire")
    /\ Due
    /\ send_message2(Head(in_flight).m)
    /\ in_flight' = dequeue(in_flight)
    /\ UNCHANGED <<clock, status, linkVars, buffer, sched_pc, crt_time,
                   idle_time, stuff, wake, fwVars, revVars>>

NotEmpty == Len(buffer) > 0

link_scheduler_peek ==
    /\ At("wire")
    /\ ~Due
    /\ stuff' = NotEmpty
    /\ sched_pc' = "put"
    /\ UNCHANGED <<clock, status, linkVars, buffer, crt_time, idle_time,
                   in_flight, wake, fwVars, revVars, delivered2>>

(* Mutated form: the wire is never busy. *)
WireAlwaysFree == stuff

WireFree == stuff /\ crt_time >= idle_time

(* The sleep when the wire is busy for "idle" and the oldest datagram on it *)
(* is due in "due"; 0 if it is due before the wire is free.                 *)
WaitTime(idle, due) ==
    LET w == IF idle > 0 THEN idle ELSE 0 IN
    IF due > 0 /\ due < w THEN due ELSE w

(* Put the oldest datagram of the queue on the wire if the wire is free,    *)
(* then sleep or go on to wait for the queue to fill.                       *)
link_scheduler_put ==
    /\ At("put")
    /\ WireFree => buffer # <<>>
    /\ IF WireFree
       THEN /\ idle_time' = crt_time + serialization_delay
            /\ in_flight' = enqueue(in_flight,
                 [m |-> Head(buffer),
                  finish_time |-> crt_time + serialization_delay + delay])
            /\ buffer' = dequeue(buffer)
       ELSE UNCHANGED <<idle_time, in_flight, buffer>>
    /\ LET idle == idle_time' - crt_time
           due  == IF in_flight' = <<>> THEN 0
                   ELSE Head(in_flight').finish_time - crt_time
       IN  IF idle > 0 \/ due > 0
           THEN sched_pc' = "usleep" /\ wake' = clock + WaitTime(idle, due)
           ELSE sched_pc' = "idle" /\ UNCHANGED wake
    /\ UNCHANGED <<clock, status, linkVars, crt_time, stuff, fwVars, revVars,
                   delivered2>>

link_scheduler_wake ==
    /\ At("usleep")
    /\ clock >= wake
    /\ sched_pc' = "top"
    /\ wake' = 0
    /\ UNCHANGED <<clock, status, linkVars, buffer, crt_time, idle_time, stuff,
                   in_flight, fwVars, revVars, delivered2>>

(* Mutated form: there is no assertion. *)
link_scheduler_idle_unchecked ==
    /\ At("idle")
    /\ sched_pc' = "cond_wait"
    /\ UNCHANGED <<clock, status, linkVars, buffer, crt_time, idle_time, stuff,
                   in_flight, wake, fwVars, revVars, delivered2>>

(* assert(!buffer->size), then pthread_cond_wait. *)
link_scheduler_idle ==
    /\ At("idle")
    /\ IF buffer = <<>>
       THEN sched_pc' = "cond_wait" /\ UNCHANGED status
       ELSE status' = "aborted" /\ UNCHANGED sched_pc
    /\ UNCHANGED <<clock, linkVars, buffer, crt_time, idle_time, stuff,
                   in_flight, wake, fwVars, revVars, delivered2>>

(* pthread_cond_wait returns, signalled or not. *)
link_scheduler_resume ==
    /\ sched_pc \in {"signalled", "cond_wait"}
    /\ status = "running"
    /\ sched_pc' = "top"
    /\ UNCHANGED <<clock, status, linkVars, buffer, crt_time, idle_time, stuff,
                   in_flight, wake, fwVars, revVars, delivered2>>

-----------------------------------------------------------------------------
(* run_forwarding. *)

FwAt(label) == status = "running" /\ fw_pc = label

(* The first datagram only tells the address of peer 1. *)
receive_message1_first ==
    /\ FwAt("recv")
    /\ ~link_up1
    /\ link_up1' = TRUE
    /\ UNCHANGED <<clock, status, link_up2, buffer, schedVars, fwVars, revVars,
                   delivered2>>

receive_message1 ==
    /\ FwAt("recv")
    /\ link_up1
    /\ received1 < MaxForward
    /\ received1' = received1 + 1
    /\ fw_m' = <<[id |-> received1', damaged |-> FALSE]>>
    /\ fw_pc' = "check"
    /\ UNCHANGED <<clock, status, linkVars, buffer, schedVars, overflow, revVars,
                   delivered2>>

(* Mutated form: one datagram too many. *)
Overfull == Len(buffer) > BUFFER_SIZE

Full == Len(buffer) >= BUFFER_SIZE

run_forwarding_check ==
    /\ FwAt("check")
    /\ overflow' = Full
    /\ fw_pc' = "decide"
    /\ UNCHANGED <<clock, status, linkVars, buffer, schedVars, fw_m, received1,
                   revVars, delivered2>>

run_forwarding_drop ==
    /\ FwAt("decide")
    /\ overflow \/ loss > 0
    /\ fw_m' = <<>>
    /\ fw_pc' = "recv"
    /\ UNCHANGED <<clock, status, linkVars, buffer, schedVars, overflow,
                   received1, revVars, delivered2>>

(* Mutated form: the scheduler is not told. *)
no_signal == UNCHANGED sched_pc

pthread_cond_signal ==
    sched_pc' = IF sched_pc = "cond_wait" THEN "signalled" ELSE sched_pc

(* rand() % 100 < percent *)
Chance(percent) ==
    {hit \in BOOLEAN : IF hit THEN percent > 0 ELSE percent < 100}

run_forwarding_enqueue ==
    /\ FwAt("decide")
    /\ ~overflow /\ loss < 100
    /\ \E hit \in Chance(corrupt) :
         buffer' = enqueue(buffer, [id |-> fw_m[1].id, damaged |-> hit])
    /\ pthread_cond_signal
    /\ fw_m' = <<>>
    /\ fw_pc' = "recv"
    /\ UNCHANGED <<clock, status, linkVars, crt_time, idle_time, stuff,
                   in_flight, wake, overflow, received1, revVars,
                   delivered2>>

-----------------------------------------------------------------------------
(* run_reverse_forwarding, in the process's main thread. *)

receive_message2_first ==
    /\ status = "running"
    /\ ~link_up2
    /\ link_up2' = TRUE
    /\ UNCHANGED <<clock, status, link_up1, buffer, schedVars, fwVars, revVars,
                   delivered2>>

receive_message2 ==
    /\ status = "running"
    /\ link_up2
    /\ rev_m = <<>>
    /\ received2 < MaxReverse
    /\ received2' = received2 + 1
    /\ rev_m' = <<[id |-> received2', damaged |-> FALSE]>>
    /\ UNCHANGED <<clock, status, linkVars, buffer, schedVars, fwVars,
                   delivered1, delivered2>>

(* Sent to peer 1, or lost if its address is not known. *)
send_message1 ==
    /\ status = "running"
    /\ rev_m # <<>>
    /\ delivered1' = IF link_up1 THEN delivered1 \o rev_m ELSE delivered1
    /\ rev_m' = <<>>
    /\ UNCHANGED <<clock, status, linkVars, buffer, schedVars, fwVars,
                   received2, delivered2>>

-----------------------------------------------------------------------------
SchedulerStep ==
    \/ link_scheduler_top \/ link_scheduler_send \/ link_scheduler_peek
    \/ link_scheduler_put \/ link_scheduler_wake \/ link_scheduler_idle

ForwardingStep ==
    run_forwarding_check \/ run_forwarding_drop \/ run_forwarding_enqueue

Next ==
    \/ Tick \/ read_error
    \/ SchedulerStep \/ link_scheduler_resume
    \/ receive_message1_first \/ receive_message1 \/ ForwardingStep
    \/ receive_message2_first \/ receive_message2 \/ send_message1

Spec == Init /\ [][Next]_vars

(* The kernel runs the threads, a signalled thread returns from its wait,   *)
(* and time passes.  Nothing makes a peer send or a wait return unprompted. *)
Fairness ==
    /\ WF_vars(Tick)
    /\ WF_vars(SchedulerStep)
    /\ WF_vars(sched_pc = "signalled" /\ link_scheduler_resume)
    /\ WF_vars(ForwardingStep)
    /\ WF_vars(send_message1)

FairSpec == Spec /\ Fairness

-----------------------------------------------------------------------------
(* Properties. *)

Datagram == [id : Nat, damaged : BOOLEAN]

(* Every variable keeps its type. *)
TypeOK ==
    /\ clock \in Nat /\ crt_time \in Nat /\ idle_time \in Nat /\ wake \in Nat
    /\ status \in {"running", "aborted", "exited"}
    /\ link_up1 \in BOOLEAN /\ link_up2 \in BOOLEAN
    /\ stuff \in BOOLEAN /\ overflow \in BOOLEAN
    /\ sched_pc \in {"top", "wire", "put", "usleep", "idle", "cond_wait", "signalled"}
    /\ fw_pc \in {"recv", "check", "decide"}
    /\ buffer \in Seq(Datagram)
    /\ in_flight \in Seq([m : Datagram, finish_time : Nat])
    /\ fw_m \in Seq(Datagram) /\ rev_m \in Seq(Datagram)
    /\ received1 \in Nat /\ received2 \in Nat
    /\ delivered1 \in Seq(Datagram) /\ delivered2 \in Seq(Datagram)

(* The datagrams between recvfrom on s1 and sendto on s2, the oldest first. *)
OnTheWire == [i \in DOMAIN in_flight |-> in_flight[i].m]
OnTheWay == OnTheWire \o buffer \o fw_m

Forward == INSTANCE LossyFifo
    WITH sent <- received1, channel <- OnTheWay, delivered <- delivered2

Reverse == INSTANCE LossyFifo
    WITH sent <- received2, channel <- rev_m, delivered <- delivered1

(* Three threads, a queue and a wire make one ordered, lossy channel: no    *)
(* hand-over between the threads loses, repeats or reorders a datagram      *)
(* other than by a drop, a flipped bit or a failed send.                    *)
ForwardChannel == Forward!Spec

(* The other direction is such a channel too, whichever peer speaks first. *)
ReverseChannel == Reverse!Spec

(* Peer 2 sees the datagrams of peer 1 in order and none twice. *)
ForwardInOrder == Forward!InOrder

(* The queue stays within its capacity although run_forwarding checks and   *)
(* enqueues in two sections: nobody else fills the queue in between.        *)
BufferBounded == Len(buffer) <= BUFFER_SIZE

(* The wire respects its bandwidth however late the scheduler runs: k       *)
(* datagrams take k serialisation delays, and the last of them the          *)
(* propagation delay on top.                                                *)
Bandwidth ==
    LET ThroughBy(k, t) == t >= k * serialization_delay + delay IN
    /\ delivered2 # <<>> => ThroughBy(Len(delivered2), clock)
    /\ \A i \in DOMAIN in_flight :
         ThroughBy(Len(delivered2) + i, in_flight[i].finish_time)

(* assert(mif->m): the datagram seen under the lock is still in the queue   *)
(* when it is taken.                                                        *)
StuffStays == sched_pc = "put" /\ stuff => buffer # <<>>

(* The scheduler does not sleep on its condition variable while a datagram  *)
(* is queued or on the wire: no signal is lost between its look at the      *)
(* queue and its wait.                                                      *)
NoSleepOnWork == sched_pc = "cond_wait" => buffer = <<>> /\ in_flight = <<>>

InTransit(n) == \E i \in DOMAIN OnTheWay : OnTheWay[i].id = n

(* Every datagram read from peer 1 is sent or dropped in the end. *)
NothingStuck ==
    \A n \in 1 .. MaxForward :
        InTransit(n) ~> (~InTransit(n) \/ status # "running")

(* The inductive invariant: what the threads' locals say of the shared      *)
(* state.                                                                   *)
InvHeld ==
    /\ fw_m = IF fw_pc = "recv" THEN <<>>
              ELSE <<[id |-> received1, damaged |-> FALSE]>>
    /\ rev_m \in {<<>>, <<[id |-> received2, damaged |-> FALSE]>>}

(* The answer of the locked check is still right when it is used. *)
InvQueue ==
    /\ BufferBounded
    /\ fw_pc = "decide" /\ ~overflow => Len(buffer) < BUFFER_SIZE

(* The scheduler goes on to wait only when the wire is empty. *)
InvIdle ==
    /\ sched_pc = "put" /\ in_flight # <<>> => crt_time < in_flight[1].finish_time
    /\ sched_pc \in {"idle", "cond_wait", "signalled"} => in_flight = <<>>

(* The wire is reserved for everything that has been put on it. *)
InvWire ==
    /\ crt_time <= clock
    /\ idle_time >= (Len(delivered2) + Len(in_flight)) * serialization_delay

LinkInv ==
    /\ TypeOK
    /\ InvHeld
    /\ InvQueue
    /\ StuffStays
    /\ InvIdle
    /\ NoSleepOnWork
    /\ InvWire
    /\ Bandwidth

(* The assertion of link_scheduler before its wait holds. *)
NeverAborts == status # "aborted"
=============================================================================
