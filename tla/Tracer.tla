------------------------------- MODULE Tracer -------------------------------
(***************************************************************************)
(* The kernel module "Operating Systems/Task3/tracer.c".  It keeps a list  *)
(* of traced processes with counters and a list of the memory they have    *)
(* allocated.  ioctl adds and removes processes; probes on kmalloc, kfree  *)
(* and five other functions count calls, on whatever processor makes them; *)
(* /proc/tracer shows the counters.  Probes and the /proc reader walk the  *)
(* list of processes without its lock, and the kfree probe also fires      *)
(* inside the module's own calls of kfree.                                 *)
(*                                                                         *)
(* A list is the sequence of its nodes from the head; list_add, list_del   *)
(* and the visit of a node are one step each.  The probes of schedule, up, *)
(* down_interruptible and the mutex calls differ by their counter only and *)
(* are one here.  Every allocation has size 1.                             *)
(***************************************************************************)
EXTENDS Integers, Sequences, FiniteSets, SequencesExt

CONSTANTS
    Cpus, Pids, Addresses, None,
    MaxProc, MaxMem,    \* bounds: nodes ever put in each list
    MaxCalls            \* bound: calls of probed functions and reads of /proc

Probes == {"kfree", "calls", "kmalloc"}
Counters == Probes \cup {"kmalloc_mem", "kfree_mem"}
Registered == <<"dev", "proc", "kfree", "calls", "kmalloc">>
Locks == {"proc_lock", "mem_lock", "mem_lock_out"}

ASSUME TracerAssumption ==
    /\ None \notin Cpus \cup Pids \cup Addresses
    /\ {MaxProc, MaxMem, MaxCalls} \subseteq Nat

VARIABLES
    status,         \* of the module, or how it brought the kernel down
    registered,
    proc_data, mem_data,        \* the lists
    pdl, mdl,       \* the nodes ever allocated; counters and history of one
    freed,          \* nodes given back, <<list, node>>
    lock,           \* who holds each spinlock
    cpu,            \* what each processor executes
    heap,           \* which addresses are allocated
    calls,
    overlapped      \* history: a node was freed during another's walk

lists == <<proc_data, mem_data, pdl, mdl, freed, overlapped>>
vars == <<status, registered, lists, lock, cpu, heap, calls>>

Idle == [pc |-> "idle", pid |-> None, addr |-> None,
         p |-> 0, q |-> 0,          \* the walk of a probe or of the reader
         target |-> 0, w |-> 0, x |-> 0,    \* the removal around it
         todo |-> <<>>, ret |-> "idle"]

Labels == {"idle", "inc", "show", "k_lock", "k_walk", "kmalloc_ret", "save", "purge_lock",
           "purge", "purge_next", "unlink", "removed", "destroy_proc", "unregister"}
ProcNodes == [pid : Pids, count : [Counters -> Nat], base : Nat, clean : BOOLEAN]
MemNodes == [pid : Pids, addr : Addresses, late : BOOLEAN]
Tasks == [pc : Labels, pid : Pids \cup {None}, addr : Addresses \cup {None},
          p : Nat, q : Nat, target : Nat, w : Nat, x : Nat,
          todo : Seq(Counters), ret : Labels]

ListTypes ==
    /\ proc_data \in Seq(DOMAIN pdl) /\ mem_data \in Seq(DOMAIN mdl)
    /\ pdl \in Seq(ProcNodes) /\ mdl \in Seq(MemNodes)
    /\ freed \subseteq {"proc", "mem"} \X Nat
    /\ overlapped \in BOOLEAN

(* Walks of the processes and removals stand on nodes of their list. *)
OnNodes(c) ==
    /\ cpu[c].p \in {0} \cup IF cpu[c].pc = "k_walk" THEN DOMAIN mdl ELSE DOMAIN pdl
    /\ {cpu[c].q, cpu[c].w, cpu[c].x} \subseteq {0} \cup DOMAIN mdl
    /\ cpu[c].target \in {0} \cup DOMAIN pdl
TypeOK ==
    /\ status \in {"init", "failed", "loaded", "exit", "unloaded", "oops", "stray"}
    /\ registered \subseteq Range(Registered)
    /\ ListTypes
    /\ lock \in [Locks -> Cpus \cup {None}]
    /\ cpu \in [Cpus -> Tasks] /\ \A c \in Cpus : OnNodes(c)
    /\ heap \subseteq Addresses
    /\ calls \in 0 .. MaxCalls

Init ==
    /\ status = "init" /\ registered = {}
    /\ proc_data = <<>> /\ mem_data = <<>> /\ pdl = <<>> /\ mdl = <<>> /\ freed = {}
    /\ lock = [l \in Locks |-> None]
    /\ cpu = [c \in Cpus |-> Idle]
    /\ heap = {} /\ calls = 0 /\ overlapped = FALSE

-----------------------------------------------------------------------------
First(list) == IF list = <<>> THEN 0 ELSE Head(list)
After(list, n) ==
    LET later == {i \in DOMAIN list : i > 1 /\ list[i - 1] = n} IN
    IF later = {} THEN 0 ELSE list[CHOOSE i \in later : TRUE]
list_del(list, n) ==
    IF n \in Range(list) THEN RemoveAt(list, CHOOSE i \in DOMAIN list : list[i] = n)
    ELSE list

At(c, pc) == cpu[c].pc = pc /\ status \notin {"oops", "stray"}
Go(c, pc) == cpu' = [cpu EXCEPT ![c].pc = pc]
Return(c) == cpu' = [cpu EXCEPT ![c] = Idle]
Take(l, c) == lock[l] = None /\ lock' = [lock EXCEPT ![l] = c]
Drop(l) == lock' = [lock EXCEPT ![l] = None]
Oops == status' = "oops" /\ UNCHANGED <<registered, lists, lock, cpu, heap, calls>>

(* A processor is in a handler, preemption off: unregistering waits. *)
InHandler(c) == cpu[c].pc \in {"inc", "k_lock", "k_walk", "save"}

Walks(d, list) ==
    IF list = "proc" THEN cpu[d].pc \in {"inc", "show"}
    ELSE lock["mem_lock_out"] = d \/ cpu[d].pc = "k_walk"

Free(c, list, n) ==
    /\ freed' = freed \cup {<<list, n>>}
    /\ overlapped' = (overlapped \/ \E d \in Cpus \ {c} : Walks(d, list))

(* increment_func_call, once for each counter of todo, then on to ret. *)
ResumeIncrement(r, todo, ret) ==
    [r EXCEPT !.pc = "inc", !.todo = todo, !.ret = ret, !.q = 0]
Increment(r, todo, ret) ==
    [r EXCEPT !.pc = "inc", !.todo = todo, !.ret = ret, !.p = First(proc_data), !.q = 0]
NextIncrement(r) ==
    IF Len(r.todo) > 1 THEN Increment(r, Tail(r.todo), r.ret)
    ELSE IF r.ret = "idle" THEN Idle
    ELSE [r EXCEPT !.pc = r.ret, !.todo = <<>>, !.p = 0]

increment_func_call(c) ==
    LET r == cpu[c] IN
    /\ At(c, "inc")
    /\ \/ /\ <<"proc", r.p>> \in freed
          /\ Oops
       \/ /\ r.p # 0 /\ <<"proc", r.p>> \notin freed /\ pdl[r.p].pid # r.pid
          /\ cpu' = [cpu EXCEPT ![c].p = After(proc_data, r.p)]
          /\ UNCHANGED <<status, registered, lists, lock, heap, calls>>
       \/ /\ r.p # 0 /\ <<"proc", r.p>> \notin freed /\ pdl[r.p].pid = r.pid
          /\ pdl' = [pdl EXCEPT ![r.p].count[Head(r.todo)] = @ + 1]
          /\ cpu' = [cpu EXCEPT ![c] = NextIncrement(r)]
          /\ UNCHANGED <<status, registered, proc_data, mem_data, mdl, freed,
                         overlapped, lock, heap, calls>>
       \/ /\ r.p = 0
          /\ cpu' = [cpu EXCEPT ![c] = NextIncrement(r)]
          /\ UNCHANGED <<status, registered, lists, lock, heap, calls>>

-----------------------------------------------------------------------------
Allocations(pid) == Cardinality({n \in Range(mem_data) : mdl[n].pid = pid})
Busy(pid) == \E d \in Cpus : cpu[d].pid = pid
Records(pid) == {n \in Range(proc_data) : pdl[n].pid = pid}
Unclean(pid) == [n \in DOMAIN pdl |->
    IF pdl[n].pid = pid THEN [pdl[n] EXCEPT !.clean = FALSE] ELSE pdl[n]]

(* Processes call probed functions, ioctl, and read /proc/tracer. *)

Runs(c, pid) ==
    /\ At(c, "idle") /\ calls < MaxCalls
    /\ \A d \in Cpus : cpu[d].pid # pid
    /\ calls' = calls + 1

(* A probe of a module that is no longer there. *)
stray_call ==
    /\ status \in {"failed", "unloaded"} /\ registered # {}
    /\ status' = "stray"
    /\ UNCHANGED <<registered, lists, lock, cpu, heap, calls>>

Hits(probe) == probe \in registered /\ status \in {"init", "loaded", "exit"}

sched_handler_pre(c, pid) ==
    /\ Runs(c, pid) /\ Hits("calls")
    /\ cpu' = [cpu EXCEPT ![c] = Increment([Idle EXCEPT !.pid = pid], <<"calls">>, "idle")]
    /\ UNCHANGED <<status, registered, lists, lock, heap>>

(* An address that is being freed is not handed out yet. *)
kmalloc_entry_handler(c, pid) ==
    /\ Runs(c, pid) /\ Hits("kmalloc") /\ Len(mdl) + Cardinality(Cpus) <= MaxMem
    /\ \E a \in Addresses \ heap :
        /\ \A d \in Cpus : cpu[d].addr # a
        /\ cpu' = [cpu EXCEPT ![c] =
                     Increment([Idle EXCEPT !.pid = pid, !.addr = a], <<"kmalloc">>,
                               "kmalloc_ret")]
        /\ heap' = heap \cup {a}
    /\ UNCHANGED <<status, registered, lists, lock>>

kmalloc_handler(c) ==
    /\ At(c, "kmalloc_ret")
    /\ \/ Hits("kmalloc") /\ cpu' = [cpu EXCEPT ![c] =
                                       Increment(cpu[c], <<"kmalloc_mem">>, "save")]
       \/ ~Hits("kmalloc") /\ Return(c)
    /\ UNCHANGED <<status, registered, lists, lock, heap, calls>>

(* kmalloc with GFP_ATOMIC may find no memory for the node: the allocation *)
(* was counted and is forgotten. *)
save_mem_data(c) ==
    /\ At(c, "save") /\ lock["mem_lock"] = None
    /\ mdl' = Append(mdl, [pid |-> cpu[c].pid, addr |-> cpu[c].addr,
                           late |-> status = "exit"])
    /\ mem_data' = <<Len(mdl')>> \o mem_data
    /\ Return(c)
    /\ UNCHANGED <<status, registered, proc_data, pdl, freed, overlapped, lock, heap,
                   calls>>

save_mem_data_fails(c) ==
    /\ At(c, "save")
    /\ pdl' = Unclean(cpu[c].pid)
    /\ Return(c)
    /\ UNCHANGED <<status, registered, proc_data, mem_data, mdl, freed, overlapped,
                   lock, heap, calls>>

(* kfree of an address by any process, and what follows in the same task. *)
Kfree(r, a, ret) ==
    IF Hits("kfree") THEN [r EXCEPT !.pc = "k_lock", !.addr = a, !.ret = ret]
    ELSE [r EXCEPT !.pc = ret]

kfree_handler_pre(c, pid) ==
    /\ Runs(c, pid) /\ Hits("kfree")
    /\ \E a \in heap :
        /\ \A d \in Cpus : cpu[d].addr # a
        /\ heap' = heap \ {a}
        /\ cpu' = [cpu EXCEPT ![c] = Kfree([Idle EXCEPT !.pid = pid], a, "idle")]
    /\ UNCHANGED <<status, registered, lists, lock>>

(* get_mem_data: a walk under mem_lock that has read the next node before  *)
(* it looks at this one.  Its own kfree does not hit the probe again. *)
get_mem_data_lock(c) ==
    /\ At(c, "k_lock") /\ Take("mem_lock", c)
    /\ LET p == First(mem_data) IN
       cpu' = [cpu EXCEPT ![c].pc = "k_walk", ![c].p = p, ![c].q = After(mem_data, p)]
    /\ UNCHANGED <<status, registered, lists, heap, calls>>

Found(c, n) == mdl[n].addr = cpu[c].addr /\ mdl[n].pid = cpu[c].pid
CountFreeOnce == <<"kfree">>
CountFree == <<"kfree_mem", "kfree">>

get_mem_data(c) ==
    LET r == cpu[c] IN
    /\ At(c, "k_walk")
    /\ \/ <<"mem", r.p>> \in freed /\ Oops
       \/ /\ r.p # 0 /\ <<"mem", r.p>> \notin freed /\ Found(c, r.p)
          /\ mem_data' = list_del(mem_data, r.p)
          /\ Free(c, "mem", r.p)
          /\ Drop("mem_lock")
          /\ cpu' = [cpu EXCEPT ![c] = Increment(r, CountFree, r.ret)]
          /\ UNCHANGED <<status, registered, proc_data, pdl, mdl, heap, calls>>
       \/ /\ r.p # 0 /\ <<"mem", r.p>> \notin freed /\ ~Found(c, r.p)
          /\ cpu' = [cpu EXCEPT ![c].p = r.q, ![c].q = After(mem_data, r.q)]
          /\ UNCHANGED <<status, registered, lists, lock, heap, calls>>
       \/ /\ r.p = 0
          /\ Drop("mem_lock")
          /\ cpu' = [cpu EXCEPT ![c] = Increment(r, <<"kfree">>, r.ret)]
          /\ UNCHANGED <<status, registered, lists, heap, calls>>

tracer_proc_info_open(c) ==
    /\ At(c, "idle") /\ calls < MaxCalls /\ calls' = calls + 1
    /\ "proc" \in registered /\ status \in {"init", "loaded", "exit"}
    /\ cpu' = [cpu EXCEPT ![c].pc = "show", ![c].p = First(proc_data)]
    /\ UNCHANGED <<status, registered, lists, lock, heap>>

tracer_proc_info(c) ==
    LET p == cpu[c].p IN
    /\ At(c, "show")
    /\ \/ <<"proc", p>> \in freed /\ Oops
       \/ /\ <<"proc", p>> \notin freed
          /\ IF p = 0 THEN Return(c)
             ELSE cpu' = [cpu EXCEPT ![c].p = After(proc_data, p)]
          /\ UNCHANGED <<status, registered, lists, lock, heap, calls>>

-----------------------------------------------------------------------------
(* ioctl. *)

add_process(c, pid) ==
    /\ At(c, "idle") /\ status = "loaded" /\ Len(pdl) < MaxProc
    /\ lock["proc_lock"] = None
    /\ LET n == Len(pdl) + 1
           alone == Records(pid) = {} IN
       /\ pdl' = Append(Unclean(pid), [pid |-> pid, count |-> [k \in Counters |-> 0],
                     base |-> Allocations(pid), clean |-> alone /\ ~Busy(pid)])
       /\ proc_data' = <<n>> \o proc_data
    /\ UNCHANGED <<status, registered, mem_data, mdl, freed, overlapped, lock, cpu,
                   heap, calls>>

(* remove_process: the first node of the process, if there is one, under   *)
(* proc_lock; its memory nodes under mem_lock_out. *)
remove_process(c, caller, pid) ==
    /\ Runs(c, caller) /\ status = "loaded"
    /\ Take("proc_lock", c)
    /\ \E i \in DOMAIN proc_data :
        /\ pdl[proc_data[i]].pid = pid
        /\ \A j \in 1 .. i - 1 : pdl[proc_data[j]].pid # pid
        /\ cpu' = [cpu EXCEPT ![c] = [Idle EXCEPT !.pc = "purge_lock", !.pid = caller,
                                                  !.target = proc_data[i]]]
    /\ UNCHANGED <<status, registered, lists, heap>>

InnerLock == "mem_lock"
PurgeLock == "mem_lock_out"

remove_by_pid_lock(c) ==
    /\ At(c, "purge_lock") /\ Take(PurgeLock, c)
    /\ LET w == First(mem_data) IN
       cpu' = [cpu EXCEPT ![c].pc = "purge", ![c].w = w, ![c].x = After(mem_data, w)]
    /\ UNCHANGED <<status, registered, lists, heap, calls>>

(* remove_by_pid_from_mem_list and destroy_mem_list visit a node; the node *)
(* after it has already been read. *)
PurgesOwn(c, n) ==
    mdl[n].pid = IF cpu[c].target = 0 THEN cpu[c].pid ELSE pdl[cpu[c].target].pid
Purges(c, n) == IF cpu[c].target = 0 THEN TRUE ELSE mdl[n].pid = pdl[cpu[c].target].pid
remove_by_pid_from_mem_list(c) ==
    LET r == cpu[c] IN
    /\ At(c, "purge")
    /\ \/ <<"mem", r.w>> \in freed /\ Oops
       \/ /\ r.w # 0 /\ <<"mem", r.w>> \notin freed /\ Purges(c, r.w)
          /\ mem_data' = list_del(mem_data, r.w)
          /\ Free(c, "mem", r.w)
          /\ cpu' = [cpu EXCEPT ![c] = Kfree(r, None, "purge_next")]
          /\ UNCHANGED <<status, registered, proc_data, pdl, mdl, lock, heap, calls>>
       \/ /\ r.w # 0 /\ <<"mem", r.w>> \notin freed /\ ~Purges(c, r.w)
          /\ Go(c, "purge_next")
          /\ UNCHANGED <<status, registered, lists, lock, heap, calls>>
       \/ /\ r.w = 0
          /\ Drop(PurgeLock)
          /\ Go(c, IF r.target = 0 THEN "unregister" ELSE "unlink")
          /\ UNCHANGED <<status, registered, lists, heap, calls>>

purge_next(c) ==
    LET x == cpu[c].x IN
    /\ At(c, "purge_next")
    /\ \/ <<"mem", x>> \in freed /\ Oops
       \/ /\ <<"mem", x>> \notin freed
          /\ cpu' = [cpu EXCEPT ![c].pc = "purge", ![c].w = x,
                                ![c].x = After(mem_data, x), ![c].ret = "idle"]
          /\ UNCHANGED <<status, registered, lists, lock, heap, calls>>

proc_list_keep(n) == UNCHANGED proc_data
proc_list_del(n) == proc_data' = list_del(proc_data, n)

remove_process_unlink(c) ==
    LET r == cpu[c] IN
    /\ At(c, "unlink")
    /\ proc_list_del(r.target)
    /\ Free(c, "proc", r.target)
    /\ cpu' = [cpu EXCEPT ![c] = Kfree(r, None, "removed")]
    /\ UNCHANGED <<status, registered, mem_data, pdl, mdl, lock, heap, calls>>

remove_process_return(c) ==
    /\ At(c, "removed")
    /\ Drop("proc_lock") /\ Return(c)
    /\ UNCHANGED <<status, registered, lists, heap, calls>>

-----------------------------------------------------------------------------
(* Loading and unloading. *)

tracer_init ==
    /\ status = "init"
    /\ LET next == Registered[Cardinality(registered) + 1] IN
       \/ /\ registered' = registered \cup {next}
          /\ status' = IF next = "kmalloc" THEN "loaded" ELSE "init"
       \/ status' = "failed" /\ UNCHANGED registered
    /\ UNCHANGED <<lists, lock, cpu, heap, calls>>

(* The kernel unloads a module nobody has open: no ioctl is under way. *)
tracer_exit(c, pid) ==
    /\ Runs(c, pid) /\ status = "loaded"
    /\ Take("proc_lock", c)
    /\ status' = "exit"
    /\ cpu' = [cpu EXCEPT ![c] = [Idle EXCEPT !.pc = "destroy_proc", !.pid = pid]]
    /\ UNCHANGED <<registered, lists, heap>>

destroy_proc_list(c) ==
    LET n == First(proc_data) IN
    /\ At(c, "destroy_proc")
    /\ \/ /\ n # 0
          /\ proc_list_del(n)
          /\ Free(c, "proc", n)
          /\ cpu' = [cpu EXCEPT ![c] = Kfree(cpu[c], None, "destroy_proc")]
          /\ UNCHANGED <<status, registered, mem_data, pdl, mdl, lock, heap, calls>>
       \/ /\ n = 0
          /\ Drop("proc_lock")
          /\ Go(c, "purge_lock")
          /\ UNCHANGED <<status, registered, lists, heap, calls>>

(* Each unregistration waits for the handlers, or readers, under way. *)
UnregisterAll == registered

unregister(c) ==
    /\ At(c, "unregister")
    /\ \/ \E name \in UnregisterAll :
            /\ \A i \in DOMAIN Registered : Registered[i] \in UnregisterAll =>
                    i >= CHOOSE j \in DOMAIN Registered : Registered[j] = name
            /\ IF name = "proc" THEN \A d \in Cpus : cpu[d].pc # "show"
               ELSE \A d \in Cpus : ~InHandler(d)
            /\ registered' = registered \ {name}
            /\ UNCHANGED <<status, cpu>>
       \/ /\ UnregisterAll = {}
          /\ status' = "unloaded" /\ Return(c)
          /\ UNCHANGED registered
    /\ UNCHANGED <<lists, lock, heap, calls>>

-----------------------------------------------------------------------------
Continue(c) ==
    \/ increment_func_call(c) \/ kmalloc_handler(c) \/ save_mem_data(c)
    \/ save_mem_data_fails(c) \/ get_mem_data_lock(c) \/ get_mem_data(c)
    \/ tracer_proc_info(c)
    \/ remove_by_pid_lock(c) \/ remove_by_pid_from_mem_list(c) \/ purge_next(c)
    \/ remove_process_unlink(c) \/ remove_process_return(c)
    \/ destroy_proc_list(c) \/ unregister(c)

Begin(c) ==
    \/ tracer_proc_info_open(c)
    \/ \E pid \in Pids :
        \/ sched_handler_pre(c, pid) \/ kmalloc_entry_handler(c, pid)
        \/ kfree_handler_pre(c, pid) \/ add_process(c, pid) \/ tracer_exit(c, pid)
        \/ \E other \in Pids : remove_process(c, other, pid)

Next == tracer_init \/ stray_call \/ \E c \in Cpus : Begin(c) \/ Continue(c)

Spec == Init /\ [][Next]_vars

(* A processor goes on with what it executes. *)
FairSpec == Spec /\ \A c \in Cpus : WF_vars(Continue(c))

-----------------------------------------------------------------------------
(* The kernel comes to grief in two ways only: a node was given back while *)
(* another processor was walking its list, the probes and the reader hold  *)
(* no lock the removal takes; or the module failed to load after it had    *)
(* registered something.  One processor alone, the safe walks, the nested  *)
(* probes and the order of the exit never do it. *)
OnlyRacesCrash ==
    [][/\ status' = "oops" => overlapped
       /\ status' = "stray" => status = "failed"]_vars

(* The exit function empties the lists before it unregisters the probes,   *)
(* so nodes may be left when the module is gone; they are all nodes that   *)
(* the probes recorded after it had begun. *)
LeaksOnlyLate ==
    status = "unloaded" =>
        proc_data = <<>> /\ \A n \in Range(mem_data) : mdl[n].late

(* The memory counters of a traced process that is in no probe differ by   *)
(* the memory it has recorded since it was added: through the two locks,   *)
(* the interleaved removals of others and the frees by other processes. *)
Settled(n) ==
    /\ pdl[n].clean /\ ~Busy(pdl[n].pid)
    /\ \A d \in Cpus : cpu[d].target # n
AccountsBalance ==
    status = "loaded" =>
        \A n \in Range(proc_data) : Settled(n) =>
            pdl[n].count["kmalloc_mem"] - pdl[n].count["kfree_mem"] + pdl[n].base
                = Allocations(pdl[n].pid)

(* No processor spins for ever: the kfree probe may fire under mem_lock_out *)
(* and takes mem_lock, which is another lock, and unregistering waits only *)
(* for handlers that need nothing the exit function holds. *)
EveryCallReturns ==
    \A c \in Cpus :
        cpu[c].pc # "idle" ~> (cpu[c].pc = "idle" \/ status \in {"oops", "stray"})
=============================================================================
