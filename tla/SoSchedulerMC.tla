---------------------------- MODULE SoSchedulerMC ----------------------------
(***************************************************************************)
(* Instances of SoScheduler for TLC.                                       *)
(***************************************************************************)
EXTENDS SoSchedulerInv, TLC

CONSTANTS t1, t2, t3

(* The threads are interchangeable. *)
ThreadSymmetry == Permutations(Threads)
=============================================================================
