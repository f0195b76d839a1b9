---------------------------- MODULE PriorityTable ----------------------------
(***************************************************************************)
(* The ready queue of the thread scheduler, "Operating Systems/Task2/      *)
(* priority_table.c": a vector of linked lists indexed by priority.  A     *)
(* list is a sequence whose first element is the list's first cell.  The   *)
(* operators are pure: they take a table and return its next value, or the *)
(* answer to the question asked of it.                                     *)
(***************************************************************************)
EXTENDS Naturals, Sequences

CONSTANTS SO_MAX_PRIO,   \* so_scheduler.h: the largest priority of a thread
          NULL           \* the null pointer

ASSUME MaxPrioAssumption == SO_MAX_PRIO \in Nat

Prios == 0 .. SO_MAX_PRIO

(* A table created with size SO_MAX_PRIO + 1: calloc leaves every list NULL. *)
priority_table_create == [p \in Prios |-> <<>>]

(* Mutated form: the new cell replaces the list instead of ending it. *)
insert_unlinked(table, info, prio) ==
    IF prio > SO_MAX_PRIO THEN table ELSE [table EXCEPT ![prio] = <<info>>]

(* Link a new cell at the end of the list of its priority. *)
priority_table_insert(table, info, prio) ==
    IF prio > SO_MAX_PRIO THEN table ELSE [table EXCEPT ![prio] = Append(@, info)]

(* Unlink the first cell of the list of a priority, if there is one. *)
priority_table_remove(table, prio) ==
    IF table[prio] = <<>> THEN table ELSE [table EXCEPT ![prio] = Tail(@)]

(* Mutated form: the scan goes upwards. *)
IsTailPrio(table, p) ==
    /\ table[p] # <<>>
    /\ \A q \in Prios : q < p => table[q] = <<>>

(* The index at which the downward scan of get_head stops. *)
IsHeadPrio(table, p) ==
    /\ table[p] # <<>>
    /\ \A q \in Prios : q > p => table[q] = <<>>

IsEmptyTable(table) == \A p \in Prios : table[p] = <<>>

HeadPrio(table) == CHOOSE p \in Prios : IsHeadPrio(table, p)

(* The first element of the non-empty list of the largest priority. *)
get_head(table) ==
    IF IsEmptyTable(table) THEN NULL ELSE Head(table[HeadPrio(table)])

(* Every list is destroyed.  A destroyed table and an empty one are not     *)
(* told apart: nobody uses the table between so_end and the next so_init.   *)
DistrugeTP == priority_table_create

(* The elements a table holds. *)
Queued(table) == UNION {{table[p][i] : i \in DOMAIN table[p]} : p \in Prios}
=============================================================================
