----------------------------- MODULE SoScheduler -----------------------------
(***************************************************************************)
(* The user-level thread scheduler of "Operating Systems/Task2/             *)
(* so_scheduler.c".  Every simulated thread is a POSIX thread that blocks   *)
(* on a semaphore of its own unless it is the current thread; the thread    *)
(* that calls the library picks its successor from the priority table.     *)
(* The process's main thread calls so_init, so_fork and so_end, the forked  *)
(* threads' handlers call so_fork, so_exec, so_wait and so_signal.          *)
(*                                                                         *)
(* pc[a] says where an actor is in the code.  A section under the mutex is  *)
(* one step; a read of shared state outside the mutex is a step of its own. *)
(***************************************************************************)
EXTENDS PriorityTable

CONSTANTS
    Threads,            \* identities of the thread_t structures
    Main,               \* the process's main thread
    SO_MAX_NUM_EVENTS,  \* so_scheduler.h: the largest number of devices
    UINT_MAX,           \* the largest unsigned int
    Quanta,             \* arguments of so_init: time quanta ...
    IoCounts,           \* ... and numbers of devices
    ForkPrios,          \* priorities given to so_fork, valid or not
    IoIds,              \* devices given to so_wait and so_signal
    MaxForks,           \* bound: calls of pthread_create in a session
    MaxSessions,        \* bound: successful calls of so_init
    RootForks,          \* successful so_fork calls of main in a session
    MainReturnsFirst,   \* main is out of so_fork before a thread calls so_fork
    ForkErrors          \* actors whose call of pthread_create may fail

Actors == Threads \cup {Main}

Uint == 0 .. UINT_MAX

NoIo == UINT_MAX    \* io_device = -1 in an unsigned int

ASSUME ActorsAssumption ==
    /\ Main \notin Threads
    /\ NULL \notin Actors

ASSUME UintAssumption ==
    /\ UINT_MAX \in Nat \ {0}
    /\ SO_MAX_PRIO < UINT_MAX
    /\ Quanta \subseteq Uint
    /\ IoCounts \subseteq Uint
    /\ ForkPrios \subseteq Uint
    /\ IoIds \subseteq Uint

ASSUME BoundsAssumption ==
    /\ MaxForks \in Nat
    /\ MaxSessions \in Nat
    /\ RootForks \in Nat
    /\ MainReturnsFirst \in BOOLEAN
    /\ ForkErrors \subseteq Actors
    /\ SO_MAX_NUM_EVENTS \in Nat

VARIABLES
    initOnce,             \* the scheduler is initialised
    io_dev,               \* number of devices
    initial_max_quantum,  \* time quantum
    nr_threads,           \* calls of pthread_create, never decremented
    current_thread,       \* the scheduled thread or NULL
    tp,                   \* the priority table
    threads,              \* list of all threads, in order of insertion
    priority,             \* thread_t.priority
    quantum_left,         \* thread_t.quantum_left
    io_device,            \* thread_t.io_device
    th_state,             \* thread_t.th_state
    semaphore,            \* value of *thread_t.semaphore
    args_sem,             \* value of *thread_args.semaphore, by thread forked
    pc,                   \* where an actor is
    child,                \* so_fork's local: the thread being forked, or NULL
    prev,                 \* prev_curr_thread, aux_curr_thread
    expired,              \* the argument of compare_priorities
    io,                   \* the argument of so_signal
    p,                    \* the walk of the list in so_signal and so_end
    rootForks,            \* forks main has made in this session
    sessions              \* successful calls of so_init

confVars   == <<initOnce, io_dev, initial_max_quantum, rootForks, sessions>>
threadVars == <<priority, quantum_left, io_device, th_state>>
semVars    == <<semaphore, args_sem>>
localVars  == <<child, prev, expired, io, p>>
schedVars  == <<current_thread, tp, threads, nr_threads>>
vars == <<confVars, schedVars, threadVars, semVars, localVars, pc>>

States == {"NEW", "READY", "RUNNING", "WAITING", "TERMINATED"}

(* Labels inside so_fork, up to its return. *)
ForkLabels == {"fork_wait", "fork_chk", "fork_destroy"}

(* Labels of check_scheduler and compare_priorities, up to the semaphore. *)
CheckLabels == {"chk", "chk_locked", "cmp", "cmp_locked"}

Labels == ForkLabels \cup CheckLabels \cup
    {"unborn", "start", "ready", "first", "claim", "popfirst", "sched_wait",
     "go", "user", "cmp_wait", "wait_get", "wait_sem", "signal", "exit",
     "done", "join"}

Goto(a, label) == pc' = [pc EXCEPT ![a] = label]

(* check_scheduler and compare_priorities return to the handler or, when    *)
(* so_fork called them, to the end of so_fork.                              *)
Return(a) == Goto(a, IF child[a] = NULL THEN "user" ELSE "fork_destroy")

(* Mutated form: the field is signed. *)
IntDec(n) == n - 1

(* An unsigned decrement wraps around. *)
UintDec(n) == IF n = 0 THEN UINT_MAX ELSE n - 1

sem_post(t) == semaphore' = [semaphore EXCEPT ![t] = @ + 1]

(* Mutated form: the wait does not consume the post. *)
event_wait(t) ==
    /\ semaphore[t] > 0
    /\ UNCHANGED semaphore

sem_wait(t) ==
    /\ semaphore[t] > 0
    /\ semaphore' = [semaphore EXCEPT ![t] = @ - 1]

Init ==
    /\ initOnce = FALSE
    /\ io_dev = 0
    /\ initial_max_quantum = 0
    /\ nr_threads = 0
    /\ current_thread = NULL
    /\ tp = priority_table_create
    /\ threads = <<>>
    /\ priority = [t \in Threads |-> 0]
    /\ quantum_left = [t \in Threads |-> 0]
    /\ io_device = [t \in Threads |-> NoIo]
    /\ th_state = [t \in Threads |-> "NEW"]
    /\ semaphore = [t \in Threads |-> 0]
    /\ args_sem = [t \in Threads |-> 0]
    /\ pc = [a \in Actors |-> IF a = Main THEN "user" ELSE "unborn"]
    /\ child = [a \in Actors |-> NULL]
    /\ prev = [a \in Actors |-> NULL]
    /\ expired = [a \in Actors |-> FALSE]
    /\ io = [a \in Actors |-> 0]
    /\ p = [a \in Actors |-> 1]
    /\ rootForks = 0
    /\ sessions = 0

-----------------------------------------------------------------------------
(* so_init.  A call that is rejected, here and below, changes nothing: it   *)
(* is a stuttering step.  So is a so_init whose allocation fails.           *)

so_init_rejects(time_quantum, devs) ==
    devs > SO_MAX_NUM_EVENTS \/ time_quantum = 0 \/ initOnce

so_init(time_quantum, devs) ==
    /\ pc[Main] = "user"
    /\ ~so_init_rejects(time_quantum, devs)
    /\ sessions < MaxSessions
    /\ tp' = priority_table_create
    /\ io_dev' = devs
    /\ initial_max_quantum' = time_quantum
    /\ current_thread' = NULL
    /\ initOnce' = TRUE
    /\ nr_threads' = 0
    /\ threads' = <<>>
    /\ sessions' = sessions + 1
    /\ rootForks' = 0
    /\ UNCHANGED <<threadVars, semVars, localVars, pc>>

-----------------------------------------------------------------------------
(* Mutated form: the chosen thread is not woken. *)
get_thread_without_post ==
    LET th == get_head(tp) IN
    /\ current_thread' = th
    /\ tp' = IF th = NULL THEN tp ELSE priority_table_remove(tp, priority[th])
    /\ UNCHANGED semaphore

(* Mutated form: the test of the head is inverted. *)
get_thread_never ==
    /\ current_thread' = NULL
    /\ UNCHANGED <<tp, semaphore>>

(* get_thread_from_queue: the whole body is under the mutex. *)
get_thread_from_queue ==
    LET th == get_head(tp) IN
    IF th = NULL
    THEN /\ current_thread' = NULL
         /\ UNCHANGED <<tp, semaphore>>
    ELSE /\ tp' = priority_table_remove(tp, priority[th])
         /\ current_thread' = th
         /\ sem_post(th)

-----------------------------------------------------------------------------
(* so_fork, in the calling actor a. *)

so_fork_rejects(prio) == prio > SO_MAX_PRIO

(* Who calls so_fork: main, RootForks times a session, and the handlers.    *)
(* With MainReturnsFirst no handler forks while main is inside so_fork.     *)
MayFork(a) ==
    /\ initOnce
    /\ pc[a] = "user"
    /\ IF a = Main
       THEN rootForks < RootForks
       ELSE MainReturnsFirst => child[Main] = NULL

(* pthread_create fails: the thread is counted all the same. *)
so_fork_error(a, prio) ==
    /\ MayFork(a)
    /\ a \in ForkErrors
    /\ ~so_fork_rejects(prio)
    /\ nr_threads < MaxForks
    /\ nr_threads' = nr_threads + 1
    /\ UNCHANGED <<confVars, current_thread, tp, threads, threadVars, semVars,
                   localVars, pc>>

so_fork(a, t, prio) ==
    /\ MayFork(a)
    /\ ~so_fork_rejects(prio)
    /\ nr_threads < MaxForks
    /\ pc[t] = "unborn"
    /\ priority' = [priority EXCEPT ![t] = prio]
    /\ quantum_left' = [quantum_left EXCEPT ![t] = initial_max_quantum]
    /\ io_device' = [io_device EXCEPT ![t] = NoIo]
    /\ th_state' = [th_state EXCEPT ![t] = "NEW"]
    /\ args_sem' = [args_sem EXCEPT ![t] = 0]
    /\ nr_threads' = nr_threads + 1
    /\ child' = [child EXCEPT ![a] = t]
    /\ pc' = [pc EXCEPT ![a] = "fork_wait", ![t] = "start"]
    /\ rootForks' = IF a = Main THEN rootForks + 1 ELSE rootForks
    /\ UNCHANGED <<initOnce, io_dev, initial_max_quantum, sessions,
                   current_thread, tp, threads, semaphore, prev, expired, io, p>>

(* Mutated form: the parent does not wait for the new thread. *)
so_fork_no_wait(a) ==
    /\ pc[a] = "fork_wait"
    /\ Goto(a, "fork_chk")
    /\ UNCHANGED <<confVars, schedVars, threadVars, semVars, localVars>>

(* The parent waits until the new thread has entered the table. *)
so_fork_wait(a) ==
    /\ pc[a] = "fork_wait"
    /\ args_sem[child[a]] > 0
    /\ args_sem' = [args_sem EXCEPT ![child[a]] = @ - 1]
    /\ Goto(a, "fork_chk")
    /\ UNCHANGED <<confVars, schedVars, threadVars, semaphore, localVars>>

(* The state of the new thread is read outside the mutex. *)
so_fork_check(a) ==
    /\ pc[a] = "fork_chk"
    /\ Goto(a, IF th_state[child[a]] = "READY" THEN "chk" ELSE "fork_destroy")
    /\ UNCHANGED <<confVars, schedVars, threadVars, semVars, localVars>>

so_fork_return(a) ==
    /\ pc[a] = "fork_destroy"
    /\ child' = [child EXCEPT ![a] = NULL]
    /\ Goto(a, "user")
    /\ UNCHANGED <<confVars, schedVars, threadVars, semVars, prev, expired, io, p>>

-----------------------------------------------------------------------------
(* check_scheduler and compare_priorities, in the calling actor a. *)

(* so_exec only calls check_scheduler. *)
so_exec(t) ==
    /\ pc[t] = "user"
    /\ Goto(t, "chk")
    /\ UNCHANGED <<confVars, schedVars, threadVars, semVars, localVars>>

(* First test of check_scheduler, outside the mutex. *)
check_scheduler(a) ==
    /\ pc[a] = "chk"
    /\ IF current_thread = NULL THEN Return(a) ELSE Goto(a, "chk_locked")
    /\ UNCHANGED <<confVars, schedVars, threadVars, semVars, localVars>>

(* "it's not the first thread" *)
NotFirstThread == get_head(tp) # NULL /\ nr_threads > 1

check_scheduler_locked(a) ==
    /\ pc[a] = "chk_locked"
    /\ NotFirstThread => current_thread # NULL
    /\ IF NotFirstThread
       THEN LET left == UintDec(quantum_left[current_thread]) IN
            /\ quantum_left' = [quantum_left EXCEPT ![current_thread] = left]
            /\ expired' = [expired EXCEPT ![a] = (left = 0)]
            /\ Goto(a, "cmp")
       ELSE /\ Return(a)
            /\ UNCHANGED <<quantum_left, expired>>
    /\ UNCHANGED <<confVars, schedVars, priority, io_device, th_state, semVars,
                   child, prev, io, p>>

(* Mutated form: only the current thread is tested. *)
compare_priorities_unchecked(a) ==
    /\ pc[a] = "cmp"
    /\ IF current_thread = NULL THEN Return(a) ELSE Goto(a, "cmp_locked")
    /\ UNCHANGED <<confVars, schedVars, threadVars, semVars, localVars>>

(* First test of compare_priorities, outside the mutex. *)
compare_priorities(a) ==
    /\ pc[a] = "cmp"
    /\ IF get_head(tp) = NULL \/ current_thread = NULL
       THEN Return(a)
       ELSE Goto(a, "cmp_locked")
    /\ UNCHANGED <<confVars, schedVars, threadVars, semVars, localVars>>

(* Mutated form: an expired quantum makes no difference. *)
PreemptsIfGreater(th, cur, exp) ==
    priority[th] > priority[cur] /\ th_state[cur] = "RUNNING"

(* Whether the head of the table takes the processor from the current thread. *)
Preempts(th, cur, exp) ==
    /\ \/ priority[th] > priority[cur] /\ ~exp
       \/ priority[th] >= priority[cur] /\ exp
    /\ th_state[cur] = "RUNNING"

compare_priorities_locked(a) ==
    /\ pc[a] = "cmp_locked"
    /\ current_thread # NULL
    /\ get_head(tp) # NULL
    /\ LET th  == get_head(tp)
           cur == current_thread
       IN  IF Preempts(th, cur, expired[a])
           THEN /\ quantum_left' =
                      [quantum_left EXCEPT ![cur] = initial_max_quantum]
                /\ current_thread' = th
                /\ tp' = priority_table_insert(
                             priority_table_remove(tp, priority[th]),
                             cur, priority[cur])
                /\ sem_post(th)
                /\ prev' = [prev EXCEPT ![a] = cur]
                /\ Goto(a, "cmp_wait")
           ELSE /\ Return(a)
                /\ UNCHANGED <<quantum_left, current_thread, tp, semaphore, prev>>
    /\ UNCHANGED <<confVars, threads, nr_threads, priority, io_device, th_state,
                   args_sem, child, expired, io, p>>

(* Mutated form: the preempted thread goes on. *)
compare_priorities_no_wait(a) ==
    /\ pc[a] = "cmp_wait"
    /\ Return(a)
    /\ UNCHANGED <<confVars, schedVars, threadVars, semVars, localVars>>

(* The actor waits on the semaphore of the thread that was preempted. *)
compare_priorities_wait(a) ==
    /\ pc[a] = "cmp_wait"
    /\ sem_wait(prev[a])
    /\ Return(a)
    /\ UNCHANGED <<confVars, schedVars, threadVars, args_sem, localVars>>

-----------------------------------------------------------------------------
(* th_handler, in the new thread t. *)

th_handler_start(t) ==
    /\ pc[t] = "start"
    /\ semaphore' = [semaphore EXCEPT ![t] = 0]
    /\ tp' = priority_table_insert(tp, t, priority[t])
    /\ threads' = Append(threads, t)
    /\ Goto(t, "ready")
    /\ UNCHANGED <<confVars, current_thread, nr_threads, threadVars, args_sem,
                   localVars>>

th_handler_ready(t) ==
    /\ pc[t] = "ready"
    /\ th_state' = [th_state EXCEPT ![t] = "READY"]
    /\ args_sem' = [args_sem EXCEPT ![t] = @ + 1]
    /\ Goto(t, "first")
    /\ UNCHANGED <<confVars, schedVars, priority, quantum_left, io_device,
                   semaphore, localVars>>

(* Mutated form: every new thread takes the processor. *)
th_handler_all_first(t) ==
    /\ pc[t] = "first"
    /\ Goto(t, "claim")
    /\ UNCHANGED <<confVars, schedVars, threadVars, semVars, localVars>>

(* "if the first thread": test, assignment and removal, all outside the     *)
(* mutex.                                                                   *)
th_handler_first(t) ==
    /\ pc[t] = "first"
    /\ Goto(t, IF current_thread = NULL THEN "claim" ELSE "sched_wait")
    /\ UNCHANGED <<confVars, schedVars, threadVars, semVars, localVars>>

th_handler_claim(t) ==
    /\ pc[t] = "claim"
    /\ current_thread' = t
    /\ Goto(t, "popfirst")
    /\ UNCHANGED <<confVars, tp, threads, nr_threads, threadVars, semVars,
                   localVars>>

th_handler_pop(t) ==
    /\ pc[t] = "popfirst"
    /\ get_head(tp) # NULL
    /\ tp' = priority_table_remove(tp, priority[get_head(tp)])
    /\ Goto(t, "go")
    /\ UNCHANGED <<confVars, current_thread, threads, nr_threads, threadVars,
                   semVars, localVars>>

th_handler_wait(t) ==
    /\ pc[t] = "sched_wait"
    /\ sem_wait(t)
    /\ Goto(t, "go")
    /\ UNCHANGED <<confVars, schedVars, threadVars, args_sem, localVars>>

th_handler_run(t) ==
    /\ pc[t] = "go"
    /\ th_state' = [th_state EXCEPT ![t] = "RUNNING"]
    /\ Goto(t, "user")
    /\ UNCHANGED <<confVars, schedVars, priority, quantum_left, io_device,
                   semVars, localVars>>

(* The user's handler returns: the next thread is scheduled. *)
th_handler_return(t) ==
    /\ pc[t] = "user"
    /\ get_thread_from_queue
    /\ Goto(t, "exit")
    /\ UNCHANGED <<confVars, threads, nr_threads, threadVars, args_sem, localVars>>

th_handler_exit(t) ==
    /\ pc[t] = "exit"
    /\ th_state' = [th_state EXCEPT ![t] = "TERMINATED"]
    /\ Goto(t, "done")
    /\ UNCHANGED <<confVars, schedVars, priority, quantum_left, io_device,
                   semVars, localVars>>

-----------------------------------------------------------------------------
(* so_wait and so_signal, in the calling thread t. *)

(* io > io_dev - 1, in unsigned arithmetic. *)
NoSuchDevice(dev) == dev > UintDec(io_dev)

so_wait(t, dev) ==
    /\ pc[t] = "user"
    /\ ~NoSuchDevice(dev)
    /\ current_thread # NULL
    /\ io_device' = [io_device EXCEPT ![current_thread] = dev]
    /\ quantum_left' = [quantum_left EXCEPT ![current_thread] = initial_max_quantum]
    /\ th_state' = [th_state EXCEPT ![current_thread] = "WAITING"]
    /\ prev' = [prev EXCEPT ![t] = current_thread]
    /\ Goto(t, "wait_get")
    /\ UNCHANGED <<confVars, schedVars, priority, semVars, child, expired, io, p>>

so_wait_schedule(t) ==
    /\ pc[t] = "wait_get"
    /\ get_thread_from_queue
    /\ Goto(t, "wait_sem")
    /\ UNCHANGED <<confVars, threads, nr_threads, threadVars, args_sem, localVars>>

so_wait_block(t) ==
    /\ pc[t] = "wait_sem"
    /\ sem_wait(prev[t])
    /\ Goto(t, "user")
    /\ UNCHANGED <<confVars, schedVars, threadVars, args_sem, localVars>>

so_signal(t, dev) ==
    /\ pc[t] = "user"
    /\ ~NoSuchDevice(dev)
    /\ io' = [io EXCEPT ![t] = dev]
    /\ p' = [p EXCEPT ![t] = 1]
    /\ Goto(t, "signal")
    /\ UNCHANGED <<confVars, schedVars, threadVars, semVars, child, prev, expired>>

(* A thread of the list that waits for the device is woken. *)
WaitsFor(th, dev) == io_device[th] = dev /\ th_state[th] = "WAITING"

(* One turn of the loop over the list. *)
so_signal_walk(t) ==
    /\ pc[t] = "signal"
    /\ p[t] <= Len(threads)
    /\ LET th == threads[p[t]] IN
       IF WaitsFor(th, io[t])
       THEN /\ io_device' = [io_device EXCEPT ![th] = NoIo]
            /\ tp' = priority_table_insert(tp, th, priority[th])
       ELSE UNCHANGED <<io_device, tp>>
    /\ p' = [p EXCEPT ![t] = @ + 1]
    /\ UNCHANGED <<confVars, current_thread, threads, nr_threads, priority,
                   quantum_left, th_state, semVars, child, prev, expired, io, pc>>

so_signal_schedule(t) ==
    /\ pc[t] = "signal"
    /\ p[t] > Len(threads)
    /\ current_thread # NULL
    /\ expired' = [expired EXCEPT ![t] = ~(quantum_left[current_thread] > 0)]
    /\ p' = [p EXCEPT ![t] = 1]
    /\ Goto(t, "cmp")
    /\ UNCHANGED <<confVars, schedVars, threadVars, semVars, child, prev, io>>

-----------------------------------------------------------------------------
(* so_end, in main: join the threads in list order, then free everything.   *)

so_end(a) ==
    /\ a = Main
    /\ pc[a] = "user"
    /\ initOnce
    /\ p' = [p EXCEPT ![a] = 1]
    /\ Goto(a, "join")
    /\ UNCHANGED <<confVars, schedVars, threadVars, semVars, child, prev,
                   expired, io>>

so_end_join(a) ==
    /\ pc[a] = "join"
    /\ p[a] <= Len(threads)
    /\ pc[threads[p[a]]] = "done"
    /\ th_state' = [th_state EXCEPT ![threads[p[a]]] = "TERMINATED"]
    /\ p' = [p EXCEPT ![a] = @ + 1]
    /\ UNCHANGED <<confVars, schedVars, priority, quantum_left, io_device,
                   semVars, child, prev, expired, io, pc>>

(* t_list_destroy frees the thread_t of every listed thread, so its         *)
(* identity may be used again.                                              *)
so_end_free(a) ==
    /\ pc[a] = "join"
    /\ p[a] > Len(threads)
    /\ initOnce' = FALSE
    /\ current_thread' = NULL
    /\ initial_max_quantum' = 0
    /\ nr_threads' = 0
    /\ tp' = DistrugeTP
    /\ threads' = <<>>
    /\ p' = [p EXCEPT ![a] = 1]
    /\ pc' = [b \in Actors |->
                IF b = Main THEN "user"
                ELSE IF \E i \in DOMAIN threads : threads[i] = b THEN "unborn"
                ELSE pc[b]]
    /\ UNCHANGED <<io_dev, rootForks, sessions, threadVars, semVars, child,
                   prev, expired, io>>

-----------------------------------------------------------------------------
(* The steps of the library once it has been called; the calls themselves   *)
(* are the choice of the user's program.                                    *)

LibraryStep(a) ==
    \/ so_fork_wait(a) \/ so_fork_check(a) \/ so_fork_return(a)
    \/ check_scheduler(a) \/ check_scheduler_locked(a)
    \/ compare_priorities(a) \/ compare_priorities_locked(a)
    \/ compare_priorities_wait(a)
    \/ so_end_join(a) \/ so_end_free(a)

ThreadStep(t) ==
    \/ th_handler_start(t) \/ th_handler_ready(t) \/ th_handler_first(t)
    \/ th_handler_claim(t) \/ th_handler_pop(t) \/ th_handler_wait(t)
    \/ th_handler_run(t) \/ th_handler_exit(t)
    \/ so_wait_schedule(t) \/ so_wait_block(t)
    \/ so_signal_walk(t) \/ so_signal_schedule(t)

MainCall ==
    \/ \E q \in Quanta, n \in IoCounts : so_init(q, n)
    \/ so_end(Main)

ForkCall(a) ==
    \E prio \in ForkPrios :
        \/ so_fork_error(a, prio)
        \/ \E t \in Threads : so_fork(a, t, prio)

HandlerCall(t) ==
    \/ so_exec(t)
    \/ \E dev \in IoIds : so_wait(t, dev) \/ so_signal(t, dev)

Next ==
    \/ MainCall
    \/ \E a \in Actors : ForkCall(a) \/ LibraryStep(a)
    \/ \E t \in Threads :
         ThreadStep(t) \/ HandlerCall(t) \/ th_handler_return(t)

Spec == Init /\ [][Next]_vars

(* The kernel runs every runnable POSIX thread. *)
Fairness ==
    /\ \A a \in Actors : WF_vars(LibraryStep(a))
    /\ \A t \in Threads : WF_vars(ThreadStep(t))

FairSpec == Spec /\ Fairness

(* What a program may promise the library besides: that a handler which     *)
(* keeps getting the processor returns, or that it calls so_exec.           *)
HandlersReturn == \A t \in Threads : SF_vars(th_handler_return(t))
HandlersExec   == \A t \in Threads : SF_vars(so_exec(t))

-----------------------------------------------------------------------------
(* Properties. *)

Positions == Nat \ {0}

(* Every variable keeps its type; the unsigned fields stay in range. *)
TypeOK ==
    /\ initOnce \in BOOLEAN
    /\ io_dev \in Uint
    /\ initial_max_quantum \in Uint
    /\ nr_threads \in Nat
    /\ current_thread \in Threads \cup {NULL}
    /\ tp \in [Prios -> Seq(Threads)]
    /\ threads \in Seq(Threads)
    /\ priority \in [Threads -> Prios]
    /\ quantum_left \in [Threads -> Uint]
    /\ io_device \in [Threads -> Uint]
    /\ th_state \in [Threads -> States]
    /\ semaphore \in [Threads -> Nat]
    /\ args_sem \in [Threads -> Nat]
    /\ pc \in [Actors -> Labels]
    /\ child \in [Actors -> Threads \cup {NULL}]
    /\ prev \in [Actors -> Threads \cup {NULL}]
    /\ expired \in [Actors -> BOOLEAN]
    /\ io \in [Actors -> Uint]
    /\ p \in [Actors -> Positions]
    /\ rootForks \in Nat
    /\ sessions \in Nat

(* Labels at which a thread has the processor: its handler runs, or library *)
(* code that its handler called and that does not block on its semaphore.   *)
RunningLabels == ForkLabels \cup CheckLabels \cup
                    {"popfirst", "go", "user", "wait_get", "signal"}

(* Only the current thread runs: at most one handler has the processor, and *)
(* it is the one the scheduler believes is running.                         *)
MutualExclusion == \A t \in Threads : pc[t] \in RunningLabels => current_thread = t

(* A semaphore is posted at most once before it is waited for, and only for *)
(* the thread just made current.  (The Windows port creates it with a       *)
(* maximum of 1 and returns with the mutex held if a post fails.)           *)
NoStrayWakeup ==
    \A t \in Threads : semaphore[t] > 0 =>
        /\ semaphore[t] = 1
        /\ current_thread = t
        /\ pc[t] \notin RunningLabels

(* A thread blocked in so_wait that no so_signal has reached yet. *)
IoBlocked(t) == pc[t] = "wait_sem" /\ io_device[t] # NoIo

(* The cells of the table that hold a thread. *)
Cells(t) == UNION {{<<q, i>> : i \in {j \in DOMAIN tp[q] : tp[q][j] = t}} : q \in Prios}

(* From its insertion to its exit a thread is in exactly one place: it is   *)
(* current, or in one cell of the list of its priority, or blocked on a     *)
(* device.  No hand-over by so_fork, so_exec, so_wait, so_signal or a       *)
(* return loses a thread or queues it twice.                                *)
InOnePlace(t) ==
    \/ current_thread = t /\ Cells(t) = {} /\ ~IoBlocked(t)
    \/ /\ current_thread # t /\ ~IoBlocked(t)
       /\ \E i \in DOMAIN tp[priority[t]] : Cells(t) = {<<priority[t], i>>}
    \/ current_thread # t /\ Cells(t) = {} /\ IoBlocked(t)

NoThreadLost ==
    \A t \in Threads :
        pc[t] \notin {"unborn", "start", "popfirst", "exit", "done"} => InOnePlace(t)

(* Where the code dereferences current_thread or the head of the table      *)
(* after an unlocked test, neither has become NULL in between.              *)
NoNullDereference ==
    \A a \in Actors :
        /\ pc[a] \in {"cmp_locked", "signal"} => current_thread # NULL
        /\ pc[a] = "chk_locked" /\ NotFirstThread => current_thread # NULL
        /\ pc[a] \in {"cmp_locked", "popfirst"} => get_head(tp) # NULL

(* While a handler runs in a thread whose state is RUNNING, no thread of    *)
(* greater priority is in the table.                                        *)
HighestPriorityRuns ==
    \A t \in Threads : pc[t] = "user" /\ th_state[t] = "RUNNING" =>
        \A u \in Queued(tp) : priority[u] <= priority[t]

(* When so_end has joined the last thread of the list no other thread is    *)
(* alive and the table is empty, so nothing it frees is still used and      *)
(* DistrugeTP and t_list_destroy do not both free a thread_t.               *)
EndFreesUnused ==
    pc[Main] = "join" /\ p[Main] > Len(threads) =>
        /\ \A t \in Threads : pc[t] \in {"unborn", "done"}
        /\ IsEmptyTable(tp)

(* A thread stops being current only by its own step into a wait on its     *)
(* semaphore or by its handler's return: nobody takes the processor from a  *)
(* thread that goes on running.                                             *)
HandsOver ==
    [][\A t \in Threads : current_thread = t /\ current_thread' # t =>
          \/ pc[t] # pc'[t] /\ pc'[t] \in {"cmp_wait", "wait_sem", "exit"}
          \/ pc[Main] = "join"]_vars

(* Every thread in the table runs again if handlers return. *)
QueuedThreadRuns ==
    HandlersReturn => \A t \in Threads : t \in Queued(tp) ~> pc[t] = "user"

(* A thread that the quantum does not take the processor from for t: it has *)
(* a greater priority, or is back from so_wait and still marked WAITING.    *)
Privileged(u, t) ==
    pc[u] = "user" /\ (priority[u] > priority[t] \/ th_state[u] = "WAITING")

(* Handlers that never return but call so_exec share the processor with     *)
(* their equals: the expiry of the quantum alone brings every queued thread *)
(* to run unless a privileged one does.                                     *)
EqualsShare ==
    HandlersExec =>
        \A t \in Threads : t \in Queued(tp) ~>
            (pc[t] = "user" \/ \E u \in Threads : Privileged(u, t))

(* Every thread that is left waits for a device and nobody can signal it. *)
Stuck ==
    /\ current_thread = NULL
    /\ \A t \in Threads : pc[t] \in {"unborn", "done"} \/ IoBlocked(t)

(* so_end returns if handlers do, unless all threads that are left wait for *)
(* a device.                                                                *)
EndReturns == HandlersReturn => (pc[Main] = "join" ~> (pc[Main] # "join" \/ Stuck))

(* A thread waits only for one of the devices given to so_init, provided    *)
(* there is at least one.                                                   *)
DeviceExists ==
    \A t \in Threads : IoBlocked(t) => io_device[t] < io_dev
=============================================================================
