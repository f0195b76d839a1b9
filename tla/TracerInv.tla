------------------------------ MODULE TracerInv ------------------------------
(***************************************************************************)
(* The inductive invariants behind the safety properties of Tracer.        *)
(***************************************************************************)
EXTENDS Tracer

(* What a processor does apart from the probe it may be in. *)
Nested(c) == cpu[c].pc \in {"inc", "k_lock", "k_walk"}
Phase(c) == IF Nested(c) THEN cpu[c].ret ELSE cpu[c].pc

Purging(c) == Phase(c) \in {"purge", "purge_next"}
OnTarget(c) == Phase(c) \in {"purge_lock", "purge", "purge_next", "unlink", "removed"}
Removing(c) == OnTarget(c) \/ Phase(c) \in {"destroy_proc", "unregister"}
Exiting(c) ==
    \/ Phase(c) \in {"destroy_proc", "unregister"}
    \/ Phase(c) \in {"purge_lock", "purge", "purge_next"} /\ cpu[c].target = 0
HoldsProc(c) == Phase(c) = "destroy_proc" \/ cpu[c].target # 0

Decreasing(list) == \A i, j \in DOMAIN list : i < j => list[i] > list[j]

(* New nodes go to the head, and a node is on its list until it is freed. *)
InvLists ==
    /\ Decreasing(proc_data) /\ Decreasing(mem_data)
    /\ \A n \in Nat :
        /\ <<"proc", n>> \in freed <=> n \in DOMAIN pdl /\ n \notin Range(proc_data)
        /\ <<"mem", n>> \in freed <=> n \in DOMAIN mdl /\ n \notin Range(mem_data)

(* What a processor executes, and what that says of its other fields. *)
Todos == {<<"calls">>, <<"kmalloc">>, <<"kmalloc_mem">>, <<"kfree">>, <<"kfree_mem", "kfree">>}
TaskOK(c) ==
    /\ cpu[c].pc = "idle" => cpu[c] = Idle
    /\ cpu[c].pc = "inc" =>
        cpu[c].todo \in Todos /\ (cpu[c].todo = <<"kmalloc_mem">> <=> cpu[c].ret = "save")
    /\ Nested(c) => cpu[c].ret \in {"idle", "kmalloc_ret", "save", "purge_next",
                                    "removed", "destroy_proc"}
    /\ cpu[c].pc \in {"k_lock", "k_walk"} => cpu[c].ret \notin {"kmalloc_ret", "save"}
    /\ Phase(c) \in {"kmalloc_ret", "save"} => cpu[c].addr \in Addresses /\ cpu[c].pid \in Pids
    /\ Phase(c) = "save" => "kmalloc" \in registered
    /\ Removing(c) => cpu[c].addr = None
    /\ cpu[c].target # 0 => OnTarget(c)
    /\ Phase(c) \in {"unlink", "removed"} => cpu[c].target # 0
InvTasks ==
    /\ \A c \in Cpus : TaskOK(c)
    /\ \A c, d \in Cpus : cpu[c].pid = cpu[d].pid /\ cpu[c].pid # None => c = d

LocksOK(c) ==
    /\ HoldsProc(c) => lock["proc_lock"] = c
    /\ Purging(c) => lock["mem_lock_out"] = c
    /\ cpu[c].target # 0 =>
        (cpu[c].target \in Range(proc_data) <=> Phase(c) # "removed")
InvLocks == \A c \in Cpus : LocksOK(c)

(* A walk that nobody has disturbed stands on nodes that are still there. *)
StandsOK(c) ==
    /\ cpu[c].pc \in {"inc", "show"} => <<"proc", cpu[c].p>> \notin freed
    /\ cpu[c].pc = "k_walk" =>
        <<"mem", cpu[c].p>> \notin freed /\ <<"mem", cpu[c].q>> \notin freed
PurgeOK(c) ==
    /\ Phase(c) = "purge" => <<"mem", cpu[c].w>> \notin freed
    /\ Phase(c) = "purge" => cpu[c].x = 0 \/ cpu[c].x < cpu[c].w
    /\ Purging(c) => <<"mem", cpu[c].x>> \notin freed
WalkOK(c) == StandsOK(c) /\ PurgeOK(c)
InvWalks == overlapped \/ \A c \in Cpus : WalkOK(c)

(* Memory recorded before the exit began is still ahead of its walk. *)
Early == {n \in Range(mem_data) : ~mdl[n].late}
ExitOK(c) == Exiting(c) =>
    /\ status \in {"exit", "oops"}
    /\ Phase(c) # "destroy_proc" => proc_data = <<>>
    /\ Phase(c) = "purge" /\ <<"mem", cpu[c].w>> \notin freed =>
        \A n \in Early : n <= cpu[c].w /\ (n < cpu[c].w => n <= cpu[c].x)
    /\ Phase(c) = "purge_next" /\ <<"mem", cpu[c].x>> \notin freed =>
        \A n \in Early : n <= cpu[c].x
    /\ Phase(c) = "unregister" => Early = {}
InvExit ==
    /\ \A c \in Cpus : ExitOK(c)
    /\ \A c, d \in Cpus : Exiting(c) /\ Exiting(d) => c = d
    /\ status = "unloaded" => proc_data = <<>> /\ Early = {} /\ registered = {}

(* The parts are registered in their order, and processes added after.      *)
Loading == {{}, {"dev"}, {"dev", "proc"}, {"dev", "proc", "kfree"},
            {"dev", "proc", "kfree", "calls"}}
InvInit == status = "init" => registered \in Loading /\ proc_data = <<>>

(* A clean record is the only one of its process; a walk that counts for   *)
(* the process has not passed it; and its counters differ from the memory  *)
(* recorded by what the process is about to record or to count.            *)
PendingIn(c) ==
    cpu[c].pc = "save" \/ (cpu[c].pc = "inc" /\ Head(cpu[c].todo) = "kfree_mem")
PendingFor(c, pid) == cpu[c].pid = pid /\ PendingIn(c)
Pending(pid) == IF \E c \in Cpus : PendingFor(c, pid) THEN 1 ELSE 0
Kept(n) == pdl[n].clean /\ \A c \in Cpus : cpu[c].target # n
NotPassed(c, n) == cpu[c].pc = "inc" /\ cpu[c].pid = pdl[n].pid =>
    <<"proc", cpu[c].p>> \in freed \/ cpu[c].p >= n
RecordOK(n) ==
    /\ \A m \in Range(proc_data) : pdl[m].pid = pdl[n].pid => m = n
    /\ \A c \in Cpus : NotPassed(c, n)
    /\ pdl[n].count["kmalloc_mem"] - pdl[n].count["kfree_mem"] + pdl[n].base
        = Allocations(pdl[n].pid) + Pending(pdl[n].pid)
InvAccounts ==
    status = "loaded" => \A n \in Range(proc_data) : Kept(n) => RecordOK(n)

TracerInvariant ==
    TypeOK /\ InvLists /\ InvTasks /\ InvLocks /\ InvWalks /\ InvInit /\ InvExit /\ InvAccounts
=============================================================================
