---------------------------- MODULE SoSchedulerInv ----------------------------
(***************************************************************************)
(* The inductive invariant behind the safety properties of SoScheduler.    *)
(* It holds for programs whose main forks one thread, is out of so_fork    *)
(* before that thread forks, does not see its own pthread_create fail, and *)
(* gives so_init at least one device.                                      *)
(***************************************************************************)
EXTENDS SoScheduler

SingleRoot ==
    /\ MainReturnsFirst
    /\ RootForks <= 1
    /\ Main \notin ForkErrors
    /\ 0 \notin IoCounts

(* Labels at which a thread waits to be scheduled, or is about to. *)
BlockedLabels == {"ready", "first", "sched_wait", "cmp_wait", "wait_sem"}

(* Nobody but r has been forked. *)
RootOnly(r) == \A u \in Threads : u # r => pc[u] = "unborn"

Listed == {threads[i] : i \in DOMAIN threads}

(* A list of the table holds threads of its priority, none twice. *)
SoundTable(table, prio) ==
    \A q \in Prios : \A i \in DOMAIN table[q] :
        /\ prio[table[q][i]] = q
        /\ \A j \in DOMAIN table[q] : table[q][i] = table[q][j] => i = j

InvTable ==
    /\ SoundTable(tp, priority)
    /\ \A t \in Queued(tp) :
         /\ pc[t] \in BlockedLabels \cup {"claim", "popfirst"}
         /\ pc[t] # "popfirst" => current_thread # t

(* Whoever can be scheduled is in the table or current. *)
InvComplete ==
    \A t \in Threads :
        /\ pc[t] \in BlockedLabels \ {"wait_sem"} /\ current_thread # t => t \in Queued(tp)
        /\ pc[t] = "wait_sem" /\ io_device[t] = NoIo /\ current_thread # t => t \in Queued(tp)

(* A semaphore is 1 between the post and the wait, else 0. *)
InvSemaphore ==
    \A t \in Threads : semaphore[t] =
        IF current_thread = t /\ pc[t] \in BlockedLabels THEN 1 ELSE 0

(* io_device is a device exactly while a thread waits for it. *)
InvDevice ==
    \A t \in Threads :
        /\ pc[t] = "wait_get" => io_device[t] # NoIo
        /\ io_device[t] # NoIo => /\ pc[t] \in {"wait_get", "wait_sem"}
                                  /\ io_device[t] < io_dev
        /\ pc[t] = "wait_sem" /\ (current_thread = t \/ t \in Queued(tp)) => io_device[t] = NoIo
        /\ pc[t] = "signal" => io[t] # NoIo

(* A blocked thread waits on its own semaphore. *)
InvPrev ==
    \A t \in Threads : pc[t] \in {"cmp_wait", "wait_get", "wait_sem"} => prev[t] = t

(* Without a current thread only the root can be in the table; it is alone  *)
(* while it takes the processor.                                            *)
InvRoot ==
    /\ current_thread = NULL => \A t \in Queued(tp) : RootOnly(t)
    /\ \A t \in Threads :
         /\ pc[t] = "claim" => current_thread = NULL
         /\ pc[t] \in {"claim", "popfirst"} => t \in Queued(tp) /\ RootOnly(t)
         /\ pc[t] = "cmp_locked" => Queued(tp) # {}

(* A parent waits for its child to enter the table. *)
InvFork ==
    /\ \A a \in Actors : pc[a] \in ForkLabels => child[a] # NULL
    /\ \A t \in Threads : pc[t] \in {"start", "ready"} =>
         /\ args_sem[t] = 0
         /\ \E a \in Actors : child[a] = t /\ pc[a] = "fork_wait"

(* Main is alone with the root inside so_fork, so it never gets to           *)
(* compare_priorities; outside a session no thread exists; so_end has        *)
(* joined the threads before p.                                              *)
InvMain ==
    /\ pc[Main] \in {"user", "fork_wait", "fork_chk", "chk", "chk_locked",
                     "fork_destroy", "join"}
    /\ pc[Main] \in {"chk", "chk_locked"} => child[Main] # NULL
    /\ pc[Main] \in {"user", "join"} => child[Main] = NULL
    /\ child[Main] # NULL => RootOnly(child[Main]) /\ nr_threads = 1
    /\ ~initOnce \/ rootForks = 0 =>
         /\ \A t \in Threads : pc[t] = "unborn"
         /\ current_thread = NULL
         /\ child[Main] = NULL
    /\ rootForks = 0 /\ initOnce => nr_threads = 0
    /\ initOnce => io_dev # 0
    /\ pc[Main] = "join" => \A i \in DOMAIN threads : i < p[Main] => pc[threads[i]] = "done"

InvList ==
    \A t \in Threads : pc[t] \notin {"unborn", "start"} <=> t \in Listed

(* The current thread is alive and has entered the table; no thread joins.   *)
InvCurrent ==
    \A t \in Threads :
        /\ pc[t] # "join"
        /\ current_thread = t =>
             pc[t] \notin {"unborn", "start", "claim", "exit", "done"}

IndInv ==
    /\ TypeOK
    /\ MutualExclusion
    /\ InvTable
    /\ InvComplete
    /\ InvSemaphore
    /\ InvDevice
    /\ InvPrev
    /\ InvRoot
    /\ InvFork
    /\ InvMain
    /\ InvList
    /\ InvCurrent

-----------------------------------------------------------------------------
(* What HighestPriorityRuns needs besides IndInv.                           *)

(* No thread of the table has a greater priority than t. *)
Topmost(t) == \A u \in Queued(tp) : priority[u] <= priority[t]

(* A thread that has been chosen from the table and has not reached its     *)
(* handler yet, or one marked RUNNING that is back in it from the library.  *)
MustBeTopmost(t) ==
    \/ current_thread = t /\ pc[t] \in BlockedLabels \cup {"go"}
    \/ pc[t] \in {"user", "fork_destroy"} /\ th_state[t] = "RUNNING"

InvTopmost == \A t \in Threads : MustBeTopmost(t) => Topmost(t)

(* nr_threads counts at least the threads that exist, so check_scheduler    *)
(* does not take a thread that has a rival for the first one.               *)
InvCount ==
    \A t, u \in Threads : t # u /\ pc[t] # "unborn" =>
        /\ nr_threads >= 1
        /\ pc[u] # "unborn" => nr_threads >= 2

(* A thread that waits to be scheduled for the first time is marked READY,  *)
(* and a handler's child is still such a thread when so_fork tests it.      *)
InvReady ==
    \A t \in Threads :
        /\ pc[t] \in {"first", "sched_wait"} => th_state[t] = "READY"
        /\ pc[t] = "fork_wait" => pc[child[t]] \in {"start", "ready", "first", "sched_wait"}
        /\ pc[t] = "fork_chk" => pc[child[t]] \in {"first", "sched_wait"}

PriorityInv == InvTopmost /\ InvCount /\ InvReady
=============================================================================
