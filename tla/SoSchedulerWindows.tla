-------------------------- MODULE SoSchedulerWindows --------------------------
(***************************************************************************)
(* The Win32 port of the scheduler, "Operating Systems/Task2/WINDOWS/       *)
(* so_scheduler.c".  It is the text of SoScheduler but for two things.      *)
(* A semaphore has a maximum: ReleaseSemaphore fails at the maximum and on  *)
(* a closed handle.  And the code that finds it failing returns at once,    *)
(* inside the section under the mutex: the thread goes on as its owner and  *)
(* stops every other thread that wants it, until it ends and Windows        *)
(* abandons the mutex.                                                      *)
(***************************************************************************)
EXTENDS SoSchedulerInv

VARIABLE owner      \* the actor that has left a section without ReleaseMutex

winVars == <<vars, owner>>

WinInit == Init /\ owner = NULL

(* CreateSemaphore(NULL, 0, 1, NULL) *)
MaxCount == 1

ReleaseFails(t) == semaphore[t] = MaxCount \/ pc[t] = "done"

(* WaitForSingleObject(mutex): the owner may take it again. *)
Takes(a) == owner \in {NULL, a}

win_so_init(q, n) == so_init(q, n) /\ owner' = NULL

(* The head is current and out of the table; it may not have been woken. *)
win_get_thread_from_queue(a) ==
    LET th == get_head(tp) IN
    /\ Takes(a)
    /\ IF th # NULL /\ ReleaseFails(th)
       THEN /\ tp' = priority_table_remove(tp, priority[th])
            /\ current_thread' = th
            /\ owner' = a
            /\ UNCHANGED semaphore
       ELSE get_thread_from_queue /\ UNCHANGED owner

win_check_scheduler_locked(a) ==
    Takes(a) /\ check_scheduler_locked(a) /\ UNCHANGED owner

(* The tests of current_thread and of the head, outside the mutex. *)
win_unlocked_tests(a) ==
    /\ check_scheduler(a) \/ compare_priorities(a)
    /\ UNCHANGED owner

(* If the post fails, the preempted thread does not wait. *)
win_compare_priorities_locked(a) ==
    LET th == get_head(tp)
        cur == current_thread
    IN
    /\ pc[a] = "cmp_locked"
    /\ Takes(a)
    /\ IF /\ cur # NULL /\ th # NULL
          /\ Preempts(th, cur, expired[a])
          /\ ReleaseFails(th)
       THEN /\ quantum_left' = [quantum_left EXCEPT ![cur] = initial_max_quantum]
            /\ current_thread' = th
            /\ tp' = priority_table_insert(priority_table_remove(tp, priority[th]),
                                           cur, priority[cur])
            /\ owner' = a
            /\ Return(a)
            /\ UNCHANGED <<confVars, threads, nr_threads, priority, io_device,
                           th_state, semVars, localVars>>
       ELSE compare_priorities_locked(a) /\ UNCHANGED owner

win_compare_priorities_wait(a) == compare_priorities_wait(a) /\ UNCHANGED owner

(* Mutated form: the semaphore is created with its maximum as initial count. *)
win_th_handler_start_open(t) ==
    /\ Takes(t)
    /\ pc[t] = "start"
    /\ semaphore' = [semaphore EXCEPT ![t] = MaxCount]
    /\ tp' = priority_table_insert(tp, t, priority[t])
    /\ threads' = Append(threads, t)
    /\ Goto(t, "ready")
    /\ UNCHANGED <<confVars, current_thread, nr_threads, threadVars, args_sem,
                   localVars, owner>>

win_th_handler_start(t) == Takes(t) /\ th_handler_start(t) /\ UNCHANGED owner

(* A failing release of the parent's semaphore ends the thread. *)
win_th_handler_ready(t) ==
    IF pc[t] = "ready" /\ args_sem[t] = MaxCount
    THEN /\ th_state' = [th_state EXCEPT ![t] = "READY"]
         /\ Goto(t, "done")
         /\ UNCHANGED <<confVars, schedVars, priority, quantum_left, io_device,
                        semVars, localVars, owner>>
    ELSE th_handler_ready(t) /\ UNCHANGED owner

win_th_handler_scheduled(t) ==
    /\ \/ th_handler_first(t) \/ th_handler_claim(t) \/ th_handler_pop(t)
       \/ th_handler_wait(t) \/ th_handler_run(t)
    /\ UNCHANGED owner

win_th_handler_return(t) ==
    /\ pc[t] = "user"
    /\ win_get_thread_from_queue(t)
    /\ Goto(t, "exit")
    /\ UNCHANGED <<confVars, threads, nr_threads, threadVars, args_sem, localVars>>

(* The mutex of a thread that ends is abandoned: the next wait gets it. *)
win_th_handler_exit(t) ==
    th_handler_exit(t) /\ owner' = IF owner = t THEN NULL ELSE owner

win_so_fork(a) == ForkCall(a) /\ UNCHANGED owner

win_so_fork_rest(a) ==
    /\ so_fork_wait(a) \/ so_fork_check(a) \/ so_fork_return(a)
    /\ UNCHANGED owner

win_so_wait(t) == (\E dev \in IoIds : so_wait(t, dev)) /\ UNCHANGED owner

win_so_wait_schedule(t) ==
    /\ pc[t] = "wait_get"
    /\ win_get_thread_from_queue(t)
    /\ Goto(t, "wait_sem")
    /\ UNCHANGED <<confVars, threads, nr_threads, threadVars, args_sem, localVars>>

win_so_wait_block(t) == so_wait_block(t) /\ UNCHANGED owner

win_so_signal(t) == (\E dev \in IoIds : so_signal(t, dev)) /\ UNCHANGED owner

win_so_signal_rest(t) ==
    (so_signal_walk(t) \/ so_signal_schedule(t)) /\ UNCHANGED owner

win_so_exec(t) == so_exec(t) /\ UNCHANGED owner

win_so_end(a) ==
    (so_end(a) \/ so_end_join(a) \/ so_end_free(a)) /\ UNCHANGED owner

-----------------------------------------------------------------------------
WinLibraryStep(a) ==
    \/ win_so_fork_rest(a) \/ win_unlocked_tests(a)
    \/ win_check_scheduler_locked(a) \/ win_compare_priorities_locked(a)
    \/ win_compare_priorities_wait(a)

WinThreadStep(t) ==
    \/ win_th_handler_start(t) \/ win_th_handler_ready(t)
    \/ win_th_handler_scheduled(t) \/ win_th_handler_exit(t)
    \/ win_so_wait_schedule(t) \/ win_so_wait_block(t) \/ win_so_signal_rest(t)

WinJoin == (so_end_join(Main) \/ so_end_free(Main)) /\ UNCHANGED owner

WinNext ==
    \/ \E q \in Quanta, n \in IoCounts : win_so_init(q, n)
    \/ win_so_end(Main)
    \/ \E a \in Actors : win_so_fork(a) \/ WinLibraryStep(a)
    \/ \E t \in Threads :
        \/ WinThreadStep(t) \/ win_th_handler_return(t)
        \/ win_so_exec(t) \/ win_so_wait(t) \/ win_so_signal(t)

WinSpec == WinInit /\ [][WinNext]_winVars

(* Windows runs every thread that is ready. *)
WinFairness ==
    /\ \A a \in Actors : WF_winVars(WinLibraryStep(a))
    /\ \A t \in Threads : WF_winVars(WinThreadStep(t))
    /\ WF_winVars(WinJoin)

WinFairSpec == WinSpec /\ WinFairness

-----------------------------------------------------------------------------
(* The port does what the library does and nothing else: no release ever    *)
(* fails, so no thread goes on without having been woken or while it keeps  *)
(* the mutex.                                                               *)
Library == Spec
=============================================================================
