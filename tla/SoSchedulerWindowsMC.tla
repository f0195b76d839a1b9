------------------------- MODULE SoSchedulerWindowsMC -------------------------
(***************************************************************************)
(* Instances of SoSchedulerWindows for TLC.                                *)
(***************************************************************************)
EXTENDS SoSchedulerWindows

CONSTANTS t1, t2
=============================================================================
