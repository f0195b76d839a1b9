-------------------------- MODULE SoSchedulerProofs --------------------------
(***************************************************************************)
(* Proofs that the scheduler keeps its types and, for programs whose main  *)
(* forks a single root thread, its safety properties; and, at the end,     *)
(* that its Win32 port implements it.                                      *)
(***************************************************************************)
EXTENDS SoSchedulerWindows, TLAPS, WellFoundedInduction

Tables == [Prios -> Seq(Threads)]

(* A set of naturals below a bound has a greatest element. *)
LEMMA MaxExists ==
    ASSUME NEW n \in Nat, NEW S \in SUBSET (0 .. n), S # {}
    PROVE  \E m \in S : \A k \in S : k <= m
<1> DEFINE R == {ss \in Nat \X Nat : ss[1] < ss[2]}
<1> DEFINE T == {n - k : k \in S}
<1>1. IsWellFoundedOn(R, Nat)
    BY NatLessThanWellFounded DEF OpToRel
<1>2. T \subseteq Nat /\ T # {}
    <2>1. \A k \in S : k \in Nat /\ k <= n
        OBVIOUS
    <2>2. \A k \in S : n - k \in Nat
        BY <2>1
    <2> QED BY <2>2
<1>3. \E x \in T : \A y \in T : ~ (<<y, x>> \in R)
    <2> HIDE DEF R, T
    <2> QED BY <1>1, <1>2, WFMin
<1>4. PICK x \in T : \A y \in T : ~ (<<y, x>> \in R)
    BY <1>3
<1>5. PICK m \in S : x = n - m
    OBVIOUS
<1>6. ASSUME NEW k \in S PROVE k <= m
    <2>1. n - k \in T /\ n - k \in Nat /\ n - m \in Nat
        OBVIOUS
    <2>2. ~(n - k < n - m)
        BY <2>1, <1>4, <1>5
    <2> QED BY <2>2
<1> QED BY <1>6

(* get_head answers NULL exactly for an empty table; otherwise it answers   *)
(* the first element of the list of the largest priority in use.            *)
LEMMA GetHead ==
    ASSUME NEW tb \in Tables
    PROVE  /\ get_head(tb) \in Threads \cup {NULL}
           /\ get_head(tb) = NULL <=> IsEmptyTable(tb)
           /\ get_head(tb) # NULL =>
                \E q \in Prios : /\ IsHeadPrio(tb, q)
                                 /\ get_head(tb) = Head(tb[q])
<1>1. CASE IsEmptyTable(tb)
    BY <1>1 DEF get_head
<1>2. CASE ~IsEmptyTable(tb)
    <2> DEFINE S == {q \in Prios : tb[q] # <<>>}
    <2>1. S \in SUBSET (0 .. SO_MAX_PRIO) /\ S # {} /\ SO_MAX_PRIO \in Nat
        BY <1>2, MaxPrioAssumption DEF IsEmptyTable, Prios
    <2>2. PICK m \in S : \A k \in S : k <= m
        <3> HIDE DEF S
        <3> QED BY <2>1, MaxExists
    <2>3. \E q \in Prios : IsHeadPrio(tb, q)
        BY <2>2, MaxPrioAssumption DEF IsHeadPrio, Prios
    <2>4. HeadPrio(tb) \in Prios /\ IsHeadPrio(tb, HeadPrio(tb))
        BY <2>3 DEF HeadPrio
    <2>5. get_head(tb) = Head(tb[HeadPrio(tb)])
        BY <1>2 DEF get_head
    <2>6. tb[HeadPrio(tb)] \in Seq(Threads) /\ tb[HeadPrio(tb)] # <<>>
        BY <2>4 DEF IsHeadPrio, Tables
    <2>7. get_head(tb) \in Threads
        BY <2>5, <2>6
    <2> QED BY <2>4, <2>5, <2>7, <1>2, ActorsAssumption DEF Actors
<1> QED BY <1>1, <1>2

(* A thread is queued when some list of the table holds it. *)
LEMMA QueuedMember ==
    ASSUME NEW tb \in Tables, NEW t
    PROVE  t \in Queued(tb) <=> \E q \in Prios : \E i \in DOMAIN tb[q] : t = tb[q][i]
BY DEF Queued

(* Only threads are queued. *)
LEMMA QueuedThreads ==
    ASSUME NEW tb \in Tables
    PROVE  Queued(tb) \subseteq Threads
<1> SUFFICES ASSUME NEW t \in Queued(tb) PROVE t \in Threads
    OBVIOUS
<1>1. PICK q \in Prios : \E i \in DOMAIN tb[q] : t = tb[q][i]
    BY QueuedMember
<1>2. PICK i \in DOMAIN tb[q] : t = tb[q][i]
    BY <1>1
<1>3. tb[q] \in Seq(Threads)
    BY DEF Tables
<1> QED BY <1>2, <1>3

(* A created table is empty. *)
LEMMA CreatedTable ==
    ASSUME NEW prio
    PROVE  /\ priority_table_create \in Tables
           /\ Queued(priority_table_create) = {}
           /\ SoundTable(priority_table_create, prio)
<1>1. priority_table_create \in Tables
    BY DEF priority_table_create, Tables
<1>2. \A q \in Prios : DOMAIN priority_table_create[q] = {}
    BY DEF priority_table_create
<1>3. Queued(priority_table_create) = {}
    BY <1>2 DEF Queued
<1> QED BY <1>1, <1>2, <1>3 DEF SoundTable

(* Inserting a thread that is not in the table adds it to the table. *)
LEMMA InsertThread ==
    ASSUME NEW tb \in Tables, NEW t \in Threads, NEW q \in Prios
    PROVE  LET tb2 == priority_table_insert(tb, t, q) IN
           /\ tb2 \in Tables
           /\ Queued(tb2) = Queued(tb) \cup {t}
           /\ \A prio : prio[t] = q /\ SoundTable(tb, prio) /\ t \notin Queued(tb)
                 => SoundTable(tb2, prio)
<1> DEFINE tb2 == priority_table_insert(tb, t, q)
<1>1. tb2 = [tb EXCEPT ![q] = Append(tb[q], t)]
    BY MaxPrioAssumption DEF priority_table_insert, Prios, Tables
<1>2. tb2 \in Tables
    BY <1>1 DEF Tables
<1>3. /\ \A r \in Prios : r # q => tb2[r] = tb[r]
      /\ tb2[q] = Append(tb[q], t)
      /\ tb[q] \in Seq(Threads)
    BY <1>1 DEF Tables
<1>4. /\ Len(tb[q]) \in Nat
      /\ DOMAIN tb[q] = 1 .. Len(tb[q])
      /\ DOMAIN tb2[q] = 1 .. Len(tb[q]) + 1
      /\ \A i \in DOMAIN tb[q] : tb2[q][i] = tb[q][i]
      /\ tb2[q][Len(tb[q]) + 1] = t
    BY <1>3
<1>5. \A x : x \in Queued(tb2) <=> x \in Queued(tb) \cup {t}
    <2> HIDE DEF tb2
    <2>1. ASSUME NEW x \in Queued(tb) PROVE x \in Queued(tb2)
        <3>1. PICK r \in Prios : \E i \in DOMAIN tb[r] : x = tb[r][i]
            BY QueuedMember
        <3>2. PICK i \in DOMAIN tb[r] : x = tb[r][i]
            BY <3>1
        <3>3. i \in DOMAIN tb2[r] /\ x = tb2[r][i]
            BY <3>2, <1>3, <1>4
        <3> QED BY <3>3, <1>2, QueuedMember
    <2>2. t \in Queued(tb2)
        <3>1. Len(tb[q]) + 1 \in DOMAIN tb2[q]
            BY <1>4
        <3> QED BY <3>1, <1>4, <1>2, QueuedMember
    <2>3. ASSUME NEW x \in Queued(tb2), x # t PROVE x \in Queued(tb)
        <3>1. PICK r \in Prios : \E i \in DOMAIN tb2[r] : x = tb2[r][i]
            BY <1>2, QueuedMember
        <3>2. PICK i \in DOMAIN tb2[r] : x = tb2[r][i]
            BY <3>1
        <3>3. i \in DOMAIN tb[r] /\ x = tb[r][i]
            BY <3>2, <2>3, <1>3, <1>4
        <3> QED BY <3>3, QueuedMember
    <2> QED BY <2>1, <2>2, <2>3
<1>6. ASSUME NEW prio, prio[t] = q, SoundTable(tb, prio), t \notin Queued(tb)
      PROVE  SoundTable(tb2, prio)
    <2> HIDE DEF tb2
    <2>1. ASSUME NEW r \in Prios, NEW i \in DOMAIN tb2[r], NEW j \in DOMAIN tb2[r],
                 tb2[r][i] = tb2[r][j]
          PROVE  prio[tb2[r][i]] = r /\ i = j
        <3>1. CASE r # q
            BY <3>1, <2>1, <1>3, <1>6 DEF SoundTable
        <3>2. CASE r = q
            <4>1. \A k \in DOMAIN tb[q] : tb[q][k] # t
                BY <1>6, QueuedMember
            <4>2. CASE i \in DOMAIN tb[q] /\ j \in DOMAIN tb[q]
                BY <4>2, <3>2, <2>1, <1>4, <1>6 DEF SoundTable
            <4>3. CASE i \notin DOMAIN tb[q] \/ j \notin DOMAIN tb[q]
                BY <4>1, <4>3, <3>2, <2>1, <1>4, <1>6
            <4> QED BY <4>2, <4>3
        <3> QED BY <3>1, <3>2
    <2> QED BY <2>1 DEF SoundTable
<1> QED BY <1>2, <1>5, <1>6

(* Removing at the priority of the head removes the head and nothing else. *)
LEMMA RemoveHead ==
    ASSUME NEW tb \in Tables, NEW prio, SoundTable(tb, prio), get_head(tb) # NULL
    PROVE  LET th  == get_head(tb)
               tb2 == priority_table_remove(tb, prio[th])
           IN  /\ th \in Queued(tb) /\ th \in Threads
               /\ tb2 \in Tables
               /\ Queued(tb2) = Queued(tb) \ {th}
               /\ SoundTable(tb2, prio)
<1> DEFINE th  == get_head(tb)
           tb2 == priority_table_remove(tb, prio[th])
<1>1. PICK q \in Prios : IsHeadPrio(tb, q) /\ th = Head(tb[q])
    BY GetHead
<1>2. tb[q] \in Seq(Threads) /\ tb[q] # <<>>
    BY <1>1 DEF IsHeadPrio, Tables
<1>3. /\ Len(tb[q]) \in Nat \ {0}
      /\ DOMAIN tb[q] = 1 .. Len(tb[q])
      /\ th = tb[q][1]
    BY <1>1, <1>2
<1>4. th \in Queued(tb) /\ th \in Threads
    <2>1. 1 \in DOMAIN tb[q]
        BY <1>3
    <2> QED BY <2>1, <1>2, <1>3, QueuedMember
<1>5. prio[th] = q
    BY <1>3 DEF SoundTable
<1>6. tb2 = [tb EXCEPT ![q] = Tail(tb[q])]
    BY <1>2, <1>5 DEF priority_table_remove, Tables
<1>7. tb2 \in Tables
    BY <1>6, <1>2 DEF Tables
<1>8. /\ \A r \in Prios : r # q => tb2[r] = tb[r]
      /\ tb2[q] = Tail(tb[q])
    BY <1>6 DEF Tables
<1>9. /\ DOMAIN tb2[q] = 1 .. Len(tb[q]) - 1
      /\ \A i \in DOMAIN tb2[q] : i + 1 \in DOMAIN tb[q] /\ tb2[q][i] = tb[q][i + 1]
    BY <1>8, <1>2, <1>3
<1>10. \A x : x \in Queued(tb2) <=> x \in Queued(tb) \ {th}
    <2> HIDE DEF tb2, th
    <2>1. ASSUME NEW x \in Queued(tb2) PROVE x \in Queued(tb) /\ x # th
        <3>1. PICK r \in Prios : \E i \in DOMAIN tb2[r] : x = tb2[r][i]
            BY <1>7, QueuedMember
        <3>2. PICK i \in DOMAIN tb2[r] : x = tb2[r][i]
            BY <3>1
        <3>3. CASE r # q
            <4>1. i \in DOMAIN tb[r] /\ x = tb[r][i]
                BY <3>2, <3>3, <1>8
            <4>2. prio[x] = r
                BY <4>1 DEF SoundTable
            <4> QED BY <4>1, <4>2, <3>3, <1>5, QueuedMember
        <3>4. CASE r = q
            <4>1. i + 1 \in DOMAIN tb[q] /\ x = tb[q][i + 1] /\ i + 1 # 1
                BY <3>2, <3>4, <1>9
            <4>2. x # th
                BY <4>1, <1>3 DEF SoundTable
            <4> QED BY <4>1, <4>2, QueuedMember
        <3> QED BY <3>3, <3>4
    <2>2. ASSUME NEW x \in Queued(tb), x # th PROVE x \in Queued(tb2)
        <3>1. PICK r \in Prios : \E i \in DOMAIN tb[r] : x = tb[r][i]
            BY QueuedMember
        <3>2. PICK i \in DOMAIN tb[r] : x = tb[r][i]
            BY <3>1
        <3>3. CASE r # q
            BY <3>2, <3>3, <1>7, <1>8, QueuedMember
        <3>4. CASE r = q
            <4>1. i # 1 /\ i \in 1 .. Len(tb[q])
                BY <3>2, <3>4, <2>2, <1>3
            <4>2. i - 1 \in DOMAIN tb2[q] /\ i = (i - 1) + 1
                BY <4>1, <1>3, <1>9
            <4>3. tb2[q][i - 1] = x
                BY <4>2, <3>2, <3>4, <1>9
            <4> QED BY <4>2, <4>3, <1>7, QueuedMember
        <3> QED BY <3>3, <3>4
    <2> QED BY <2>1, <2>2
<1>11. SoundTable(tb2, prio)
    <2> HIDE DEF tb2, th
    <2>1. ASSUME NEW r \in Prios, NEW i \in DOMAIN tb2[r], NEW j \in DOMAIN tb2[r],
                 tb2[r][i] = tb2[r][j]
          PROVE  prio[tb2[r][i]] = r /\ i = j
        <3>1. CASE r # q
            BY <3>1, <2>1, <1>8 DEF SoundTable
        <3>2. CASE r = q
            <4>1. /\ i + 1 \in DOMAIN tb[q] /\ tb2[q][i] = tb[q][i + 1]
                  /\ j + 1 \in DOMAIN tb[q] /\ tb2[q][j] = tb[q][j + 1]
                BY <3>2, <2>1, <1>9
            <4>2. tb[q][i + 1] = tb[q][j + 1]
                BY <4>1, <3>2, <2>1
            <4>3. prio[tb[q][i + 1]] = q /\ i + 1 = j + 1
                BY <4>1, <4>2 DEF SoundTable
            <4>4. i \in Nat /\ j \in Nat
                BY <3>2, <1>9, <1>3
            <4> QED BY <4>1, <4>3, <4>4, <3>2
        <3> QED BY <3>1, <3>2
    <2> QED BY <2>1 DEF SoundTable
<1> QED BY <1>4, <1>7, <1>10, <1>11

-----------------------------------------------------------------------------
(* Types. *)

(* A jump to a label keeps the type of pc. *)
LEMMA GotoType ==
    ASSUME NEW a \in Actors, NEW l \in Labels, TypeOK, Goto(a, l)
    PROVE  pc' \in [Actors -> Labels]
BY DEF TypeOK, Goto

(* Return moves to a label. *)
LEMMA ReturnType ==
    ASSUME NEW a \in Actors, TypeOK, Return(a)
    PROVE  pc' \in [Actors -> Labels]
<1>1. {"user", "fork_destroy"} \subseteq Labels
    BY DEF Labels, ForkLabels
<1> QED BY <1>1, GotoType DEF Return

(* Removing a cell keeps the type of the table. *)
LEMMA RemoveType ==
    ASSUME NEW tb \in Tables, NEW q \in Prios
    PROVE  priority_table_remove(tb, q) \in Tables
BY DEF priority_table_remove, Tables

(* What get_thread_from_queue does, by cases. *)
LEMMA GetThread ==
    ASSUME get_thread_from_queue
    PROVE  \/ /\ get_head(tp) = NULL /\ current_thread' = NULL
              /\ tp' = tp /\ semaphore' = semaphore
           \/ /\ get_head(tp) # NULL /\ current_thread' = get_head(tp)
              /\ tp' = priority_table_remove(tp, priority[get_head(tp)])
              /\ semaphore' = [semaphore EXCEPT ![get_head(tp)] = @ + 1]
BY DEF get_thread_from_queue, sem_post

(* get_thread_from_queue keeps the types of what it assigns. *)
LEMMA GetThreadType ==
    ASSUME TypeOK, get_thread_from_queue
    PROVE  /\ current_thread' \in Threads \cup {NULL}
           /\ tp' \in Tables
           /\ semaphore' \in [Threads -> Nat]
<1>1. tp \in Tables /\ semaphore \in [Threads -> Nat] /\ priority \in [Threads -> Prios]
    BY DEF TypeOK, Tables
<1>2. get_head(tp) \in Threads \cup {NULL}
    BY <1>1, GetHead
<1>3. CASE get_head(tp) = NULL
    BY <1>1, <1>3, GetThread
<1>4. CASE get_head(tp) # NULL
    <2>1. priority[get_head(tp)] \in Prios /\ get_head(tp) \in Threads
        BY <1>1, <1>2, <1>4
    <2>2. priority_table_remove(tp, priority[get_head(tp)]) \in Tables
        BY <1>1, <2>1, RemoveType
    <2> QED BY <1>1, <1>4, <2>1, <2>2, GetThread
<1> QED BY <1>3, <1>4

(* The sets of labels the actions move to. *)
LEMMA LabelTypes ==
    /\ ForkLabels \subseteq Labels /\ CheckLabels \subseteq Labels
    /\ {"user", "cmp_wait", "join"} \subseteq Labels
BY DEF Labels

(* A positive semaphore can be decremented. *)
LEMMA DecrementType ==
    ASSUME NEW f \in [Threads -> Nat], NEW x, f[x] > 0
    PROVE  [f EXCEPT ![x] = @ - 1] \in [Threads -> Nat]
<1>1. CASE x \in Threads
    <2>1. f[x] \in Nat /\ f[x] - 1 \in Nat
        BY <1>1
    <2> QED BY <2>1
<1>2. CASE x \notin Threads
    <2>1. [f EXCEPT ![x] = @ - 1] = f
        BY <1>2
    <2> QED BY <2>1
<1> QED BY <1>1, <1>2

(* Every step keeps the types. *)
LEMMA TypeStep == TypeOK /\ [Next]_vars => TypeOK'
<1> SUFFICES ASSUME TypeOK, [Next]_vars PROVE TypeOK'
    OBVIOUS
<1> USE MaxPrioAssumption, UintAssumption, BoundsAssumption, ActorsAssumption
<1>0. /\ tp \in Tables /\ threads \in Seq(Threads)
      /\ Main \in Actors /\ Threads \subseteq Actors
      /\ NoIo \in Uint /\ 1 \in Positions
      /\ \A n \in Positions : n \in Nat /\ n > 0 /\ n + 1 \in Positions
    BY DEF TypeOK, Tables, Actors, NoIo, Uint, Positions
<1>1. ASSUME NEW q \in Quanta, NEW n \in IoCounts, so_init(q, n) PROVE TypeOK'
    <2>1. priority_table_create \in Tables
        BY CreatedTable
    <2> QED BY <1>1, <2>1 DEF so_init, TypeOK, threadVars, semVars, localVars, Tables
<1>2. CASE so_end(Main)
    BY <1>0, <1>2, GotoType, LabelTypes DEF so_end, TypeOK, confVars, schedVars, threadVars, semVars
<1>3. ASSUME NEW a \in Actors, NEW prio \in ForkPrios, so_fork_error(a, prio) PROVE TypeOK'
    BY <1>3 DEF so_fork_error, TypeOK, confVars, threadVars, semVars, localVars
<1>4. ASSUME NEW a \in Actors, NEW prio \in ForkPrios, NEW t \in Threads, so_fork(a, t, prio)
      PROVE  TypeOK'
    <2>1. prio \in Prios
        BY <1>4 DEF so_fork, so_fork_rejects, Prios, Uint
    <2>2. pc' \in [Actors -> Labels]
        BY <1>4 DEF so_fork, TypeOK, Labels, ForkLabels
    <2>3. /\ priority' \in [Threads -> Prios] /\ quantum_left' \in [Threads -> Uint]
          /\ io_device' \in [Threads -> Uint] /\ th_state' \in [Threads -> States]
        BY <1>0, <1>4, <2>1 DEF so_fork, TypeOK, States
    <2>4. /\ args_sem' \in [Threads -> Nat] /\ nr_threads' \in Nat /\ rootForks' \in Nat
          /\ child' \in [Actors -> Threads \cup {NULL}]
        BY <1>4 DEF so_fork, TypeOK
    <2> QED BY <1>4, <2>2, <2>3, <2>4 DEF so_fork, TypeOK
<1>5. ASSUME NEW a \in Actors, LibraryStep(a) PROVE TypeOK'
    <2>1. CASE so_fork_wait(a)
        <3>1. args_sem' \in [Threads -> Nat]
            BY <2>1, DecrementType DEF so_fork_wait, TypeOK
        <3> QED BY <2>1, <3>1, GotoType, LabelTypes DEF so_fork_wait, ForkLabels, TypeOK, confVars, schedVars, threadVars, localVars
    <2>2. CASE so_fork_check(a)
        <3>1. (IF th_state[child[a]] = "READY" THEN "chk" ELSE "fork_destroy") \in Labels
            BY DEF Labels, ForkLabels, CheckLabels
        <3> QED BY <2>2, <3>1, GotoType DEF so_fork_check, TypeOK, confVars, schedVars, threadVars, semVars, localVars
    <2>3. CASE so_fork_return(a)
        BY <2>3, GotoType, LabelTypes DEF so_fork_return, TypeOK, confVars, schedVars, threadVars, semVars
    <2>4. CASE check_scheduler(a)
        <3>1. pc' \in [Actors -> Labels]
            BY <2>4, GotoType, ReturnType, LabelTypes DEF check_scheduler, CheckLabels
        <3> QED BY <2>4, <3>1 DEF check_scheduler, TypeOK, confVars, schedVars, threadVars, semVars, localVars
    <2>5. CASE check_scheduler_locked(a)
        <3>1. pc' \in [Actors -> Labels]
            BY <2>5, GotoType, ReturnType, LabelTypes DEF check_scheduler_locked, CheckLabels
        <3>2. \A n \in Uint : UintDec(n) \in Uint
            BY DEF UintDec, Uint
        <3>3. quantum_left' \in [Threads -> Uint] /\ expired' \in [Actors -> BOOLEAN]
            <4>1. CASE NotFirstThread
                <5>1. current_thread \in Threads
                    BY <2>5, <4>1 DEF check_scheduler_locked, TypeOK
                <5> DEFINE left == UintDec(quantum_left[current_thread])
                <5>2. /\ quantum_left' = [quantum_left EXCEPT ![current_thread] = left]
                      /\ expired' = [expired EXCEPT ![a] = (left = 0)]
                    BY <2>5, <4>1 DEF check_scheduler_locked
                <5>3. left \in Uint /\ (left = 0) \in BOOLEAN
                    BY <3>2, <5>1 DEF TypeOK
                <5>4. quantum_left' \in [Threads -> Uint]
                    BY <5>2, <5>3 DEF TypeOK
                <5>5. expired' \in [Actors -> BOOLEAN]
                    BY <5>2, <5>3 DEF TypeOK
                <5> QED BY <5>4, <5>5
            <4>2. CASE ~NotFirstThread
                BY <2>5, <4>2 DEF check_scheduler_locked, TypeOK
            <4> QED BY <4>1, <4>2
        <3> QED BY <2>5, <3>1, <3>3 DEF check_scheduler_locked, TypeOK, confVars, schedVars, semVars
    <2>6. CASE compare_priorities(a)
        <3>1. pc' \in [Actors -> Labels]
            BY <2>6, GotoType, ReturnType, LabelTypes DEF compare_priorities, CheckLabels
        <3> QED BY <2>6, <3>1 DEF compare_priorities, TypeOK, confVars, schedVars, threadVars, semVars, localVars
    <2>7. CASE compare_priorities_locked(a)
        <3>1. pc' \in [Actors -> Labels]
            BY <2>7, GotoType, ReturnType, LabelTypes DEF compare_priorities_locked
        <3>2. get_head(tp) \in Threads /\ current_thread \in Threads
            BY <1>0, <2>7, GetHead DEF compare_priorities_locked, TypeOK
        <3>3. priority[get_head(tp)] \in Prios /\ priority[current_thread] \in Prios
            BY <3>2 DEF TypeOK
        <3>4. priority_table_insert(priority_table_remove(tp, priority[get_head(tp)]),
                                    current_thread, priority[current_thread]) \in Tables
            BY <1>0, <3>2, <3>3, RemoveType, InsertThread
        <3>5. CASE Preempts(get_head(tp), current_thread, expired[a])
            <4> DEFINE th == get_head(tp)
            <4>0. /\ semaphore' = [semaphore EXCEPT ![th] = @ + 1]
                  /\ quantum_left' = [quantum_left EXCEPT ![current_thread] = initial_max_quantum]
                  /\ prev' = [prev EXCEPT ![a] = current_thread]
                  /\ tp' = priority_table_insert(priority_table_remove(tp, priority[th]),
                                             current_thread, priority[current_thread])
                  /\ current_thread' = th
                BY <2>7, <3>5 DEF compare_priorities_locked, sem_post
            <4> HIDE DEF th
            <4>1. semaphore' \in [Threads -> Nat] /\ tp' \in Tables
                BY <3>2, <3>4, <4>0 DEF TypeOK, th
            <4>2. quantum_left' \in [Threads -> Uint] /\ prev' \in [Actors -> Threads \cup {NULL}]
                BY <3>2, <4>0 DEF TypeOK
            <4>3. current_thread' \in Threads
                BY <3>2, <4>0 DEF th
            <4> QED BY <2>7, <3>1, <4>1, <4>2, <4>3 DEF compare_priorities_locked, TypeOK, Tables, confVars
        <3>6. CASE ~Preempts(get_head(tp), current_thread, expired[a])
            BY <2>7, <3>1, <3>6 DEF compare_priorities_locked, TypeOK, confVars
        <3> QED BY <3>5, <3>6
    <2>8. CASE compare_priorities_wait(a)
        <3>1. semaphore' \in [Threads -> Nat]
            BY <2>8, DecrementType DEF compare_priorities_wait, sem_wait, TypeOK
        <3> QED BY <2>8, <3>1, ReturnType DEF compare_priorities_wait, TypeOK, confVars, schedVars, threadVars, localVars
    <2>9. CASE so_end_join(a)
        BY <1>0, <2>9 DEF so_end_join, TypeOK, States, confVars, schedVars, semVars
    <2>10. CASE so_end_free(a)
        <3>1. DistrugeTP \in Tables
            BY CreatedTable DEF DistrugeTP
        <3>2. pc' \in [Actors -> Labels]
            BY <2>10 DEF so_end_free, TypeOK, Labels
        <3>3. 0 \in Uint /\ FALSE \in BOOLEAN /\ <<>> \in Seq(Threads)
            BY DEF Uint
        <3> QED BY <1>0, <2>10, <3>1, <3>2, <3>3 DEF so_end_free, TypeOK, Tables, threadVars, semVars
    <2> QED BY <1>5, <2>1, <2>2, <2>3, <2>4, <2>5, <2>6, <2>7, <2>8, <2>9, <2>10 DEF LibraryStep
<1>6. ASSUME NEW t \in Threads, ThreadStep(t) PROVE TypeOK'
    <2> DEFINE L == {"ready", "first", "claim", "popfirst", "sched_wait", "go", "user",
                     "exit", "done", "wait_get", "wait_sem", "signal", "cmp"}
    <2>0. L \subseteq Labels /\ t \in Actors
        BY <1>0 DEF Labels, CheckLabels
    <2>1. CASE th_handler_start(t)
        <3>1. priority_table_insert(tp, t, priority[t]) \in Tables
            BY <1>0, InsertThread DEF TypeOK
        <3>2. pc' \in [Actors -> Labels]
            BY <2>0, <2>1, GotoType DEF th_handler_start
        <3> QED BY <2>1, <3>1, <3>2 DEF th_handler_start, TypeOK, Tables, confVars, threadVars, localVars
    <2>2. CASE th_handler_ready(t)
        <3>1. pc' \in [Actors -> Labels]
            BY <2>0, <2>2, GotoType DEF th_handler_ready
        <3>2. args_sem' \in [Threads -> Nat] /\ th_state' \in [Threads -> States]
            BY <2>2 DEF th_handler_ready, TypeOK, States
        <3> QED BY <2>2, <3>1, <3>2 DEF th_handler_ready, TypeOK, confVars, schedVars, localVars
    <2>3. CASE th_handler_first(t)
        <3>1. pc' \in [Actors -> Labels]
            BY <2>0, <2>3, GotoType DEF th_handler_first
        <3> QED BY <2>3, <3>1 DEF th_handler_first, TypeOK, confVars, schedVars, threadVars, semVars, localVars
    <2>4. CASE th_handler_claim(t)
        <3>1. pc' \in [Actors -> Labels]
            BY <2>0, <2>4, GotoType DEF th_handler_claim
        <3> QED BY <2>4, <3>1 DEF th_handler_claim, TypeOK, confVars, threadVars, semVars, localVars
    <2>5. CASE th_handler_pop(t)
        <3>1. pc' \in [Actors -> Labels]
            BY <2>0, <2>5, GotoType DEF th_handler_pop
        <3>2. priority[get_head(tp)] \in Prios
            BY <1>0, <2>5, GetHead DEF th_handler_pop, TypeOK
        <3>3. tp' \in Tables
            BY <1>0, <2>5, <3>2, RemoveType DEF th_handler_pop
        <3> QED BY <2>5, <3>1, <3>3 DEF th_handler_pop, TypeOK, Tables, confVars, threadVars, semVars, localVars
    <2>6. CASE th_handler_wait(t)
        <3>1. pc' \in [Actors -> Labels]
            BY <2>0, <2>6, GotoType DEF th_handler_wait
        <3> QED BY <2>6, <3>1 DEF th_handler_wait, sem_wait, TypeOK, confVars, schedVars, threadVars, localVars
    <2>7. CASE th_handler_run(t)
        BY <2>0, <2>7, GotoType DEF th_handler_run, TypeOK, States, confVars, schedVars, semVars, localVars
    <2>8. CASE th_handler_exit(t)
        BY <2>0, <2>8, GotoType DEF th_handler_exit, TypeOK, States, confVars, schedVars, semVars, localVars
    <2>9. CASE so_wait_schedule(t)
        <3>1. pc' \in [Actors -> Labels]
            BY <2>0, <2>9, GotoType DEF so_wait_schedule
        <3>2. /\ current_thread' \in Threads \cup {NULL} /\ tp' \in Tables
              /\ semaphore' \in [Threads -> Nat]
            BY <2>9, GetThreadType DEF so_wait_schedule
        <3> QED BY <2>9, <3>1, <3>2 DEF so_wait_schedule, TypeOK, Tables, confVars, threadVars, localVars
    <2>10. CASE so_wait_block(t)
        <3>1. pc' \in [Actors -> Labels]
            BY <2>0, <2>10, GotoType DEF so_wait_block
        <3>2. semaphore' \in [Threads -> Nat]
            BY <2>10, DecrementType DEF so_wait_block, sem_wait, TypeOK
        <3> QED BY <2>10, <3>1, <3>2 DEF so_wait_block, TypeOK, confVars, schedVars, threadVars, localVars
    <2>11. CASE so_signal_walk(t)
        <3>1. threads[p[t]] \in Threads
            BY <1>0, <2>0, <2>11 DEF so_signal_walk, TypeOK
        <3>2. priority_table_insert(tp, threads[p[t]], priority[threads[p[t]]]) \in Tables
            BY <1>0, <3>1, InsertThread DEF TypeOK
        <3>5. tp' \in Tables /\ io_device' \in [Threads -> Uint]
            <4>1. CASE WaitsFor(threads[p[t]], io[t])
                <5>1. /\ io_device' = [io_device EXCEPT ![threads[p[t]]] = NoIo]
                      /\ tp' = priority_table_insert(tp, threads[p[t]], priority[threads[p[t]]])
                    BY <2>11, <4>1 DEF so_signal_walk
                <5>2. tp' \in Tables
                    BY <3>2, <5>1
                <5> QED BY <1>0, <3>1, <5>1, <5>2 DEF TypeOK
            <4>2. CASE ~WaitsFor(threads[p[t]], io[t])
                BY <1>0, <2>11, <4>2 DEF so_signal_walk, TypeOK
            <4> QED BY <4>1, <4>2
        <3>6. p' \in [Actors -> Positions]
            BY <1>0, <2>0, <2>11 DEF so_signal_walk, TypeOK
        <3> QED BY <2>11, <3>5, <3>6 DEF so_signal_walk, TypeOK, Tables, confVars, semVars
    <2>12. CASE so_signal_schedule(t)
        <3>1. pc' \in [Actors -> Labels]
            BY <2>0, <2>12, GotoType DEF so_signal_schedule
        <3> QED BY <1>0, <2>12, <3>1 DEF so_signal_schedule, TypeOK, confVars, schedVars, threadVars, semVars
    <2> QED BY <1>6, <2>1, <2>2, <2>3, <2>4, <2>5, <2>6, <2>7, <2>8, <2>9, <2>10, <2>11, <2>12 DEF ThreadStep
<1>7. ASSUME NEW t \in Threads, HandlerCall(t) PROVE TypeOK'
    <2>0. t \in Actors /\ {"chk", "wait_get", "signal"} \subseteq Labels
        BY <1>0 DEF Labels, CheckLabels
    <2>1. CASE so_exec(t)
        BY <2>0, <2>1, GotoType DEF so_exec, TypeOK, confVars, schedVars, threadVars, semVars, localVars
    <2>2. ASSUME NEW dev \in IoIds, so_wait(t, dev) PROVE TypeOK'
        <3>1. pc' \in [Actors -> Labels]
            BY <2>0, <2>2, GotoType DEF so_wait
        <3> QED BY <2>2, <3>1 DEF so_wait, TypeOK, States, confVars, schedVars, semVars
    <2>3. ASSUME NEW dev \in IoIds, so_signal(t, dev) PROVE TypeOK'
        <3>1. pc' \in [Actors -> Labels]
            BY <2>0, <2>3, GotoType DEF so_signal
        <3> QED BY <1>0, <2>3, <3>1 DEF so_signal, TypeOK, confVars, schedVars, threadVars, semVars
    <2> QED BY <1>7, <2>1, <2>2, <2>3 DEF HandlerCall
<1>8. ASSUME NEW t \in Threads, th_handler_return(t) PROVE TypeOK'
    <2>0. t \in Actors /\ "exit" \in Labels
        BY <1>0 DEF Labels
    <2>1. pc' \in [Actors -> Labels]
        BY <2>0, <1>8, GotoType DEF th_handler_return
    <2>2. /\ current_thread' \in Threads \cup {NULL} /\ tp' \in Tables
          /\ semaphore' \in [Threads -> Nat]
        BY <1>8, GetThreadType DEF th_handler_return
    <2> QED BY <1>8, <2>1, <2>2 DEF th_handler_return, TypeOK, Tables, confVars, threadVars, localVars
<1>9. CASE UNCHANGED vars
    BY <1>9 DEF vars, TypeOK, confVars, schedVars, threadVars, semVars, localVars
<1> QED BY <1>1, <1>2, <1>3, <1>4, <1>5, <1>6, <1>7, <1>8, <1>9 DEF Next, MainCall, ForkCall

(* The initial state has the types. *)
LEMMA TypeInit == Init => TypeOK
<1> SUFFICES ASSUME Init PROVE TypeOK
    OBVIOUS
<1>1. priority_table_create \in Tables
    BY CreatedTable
<1>2. pc \in [Actors -> Labels]
    BY DEF Init, Labels
<1>3. NoIo \in Uint /\ 0 \in Uint /\ 0 \in Prios /\ 1 \in Positions
    BY UintAssumption, MaxPrioAssumption DEF NoIo, Uint, Prios, Positions
<1>4. initOnce \in BOOLEAN /\ expired \in [Actors -> BOOLEAN]
    BY DEF Init
<1>5. threads \in Seq(Threads) /\ tp \in [Prios -> Seq(Threads)]
    BY <1>1 DEF Init, Tables
<1>6. /\ priority \in [Threads -> Prios] /\ quantum_left \in [Threads -> Uint]
      /\ io_device \in [Threads -> Uint] /\ th_state \in [Threads -> States]
      /\ semaphore \in [Threads -> Nat] /\ args_sem \in [Threads -> Nat]
    BY <1>3 DEF Init, States
<1>7. /\ child \in [Actors -> Threads \cup {NULL}] /\ prev \in [Actors -> Threads \cup {NULL}]
      /\ io \in [Actors -> Uint] /\ p \in [Actors -> Positions]
    BY <1>3 DEF Init
<1> QED BY <1>2, <1>3, <1>4, <1>5, <1>6, <1>7 DEF Init, TypeOK

(* The scheduler's variables keep their types for every number of threads,  *)
(* of priorities and of devices, and every width of the unsigned fields.    *)
THEOREM TypeCorrect == Spec => []TypeOK
<1>1. TypeOK /\ [Next]_vars => TypeOK'
    BY TypeStep
<1> QED BY TypeInit, <1>1, PTL DEF Spec

(***************************************************************************)
(* IndInv is an inductive invariant of the scheduler for programs with a   *)
(* single root thread, and implies its safety properties.                  *)
(***************************************************************************)

(* Labels between which a running thread moves without a change of place.   *)
FreeLabels == RunningLabels \ {"popfirst", "wait_get", "fork_wait"}

(* A running thread that moves inside the library, or back to its handler,  *)
(* and changes at most its own locals, quantum and state.                   *)
LEMMA RunningMove ==
    ASSUME IndInv, TypeOK',
           NEW t \in Threads, NEW l \in FreeLabels,
           pc[t] \in FreeLabels,
           pc' = [pc EXCEPT ![t] = l],
           UNCHANGED <<current_thread, tp, threads, nr_threads, initOnce, io_dev, rootForks,
                       priority, io_device, semaphore, args_sem, prev>>,
           child' = child \/ child' = [child EXCEPT ![t] = NULL],
           \A a \in Actors : a # t => io'[a] = io[a],
           p'[Main] = p[Main],
           l = "cmp_locked" => Queued(tp) # {},
           l \in ForkLabels => child'[t] # NULL,
           l = "signal" => io'[t] # NoIo
    PROVE  IndInv'
<1> USE DEF FreeLabels, RunningLabels, ForkLabels, CheckLabels, BlockedLabels
<1>0. /\ pc \in [Actors -> Labels] /\ child \in [Actors -> Threads \cup {NULL}]
      /\ Main \in Actors /\ Threads \subseteq Actors /\ Main \notin Threads /\ Main # t
      /\ child'[Main] = child[Main]
      /\ \A a \in Actors : a # t => pc'[a] = pc[a] /\ child'[a] = child[a]
      /\ pc'[t] = l
    BY ActorsAssumption DEF IndInv, TypeOK, Actors
<1>1. MutualExclusion'
    BY <1>0 DEF IndInv, MutualExclusion
<1>2. InvTable'
    BY <1>0 DEF IndInv, InvTable
<1>3. InvComplete'
    BY <1>0 DEF IndInv, InvComplete
<1>4. InvSemaphore'
    BY <1>0 DEF IndInv, InvSemaphore
<1>5. InvDevice'
    BY <1>0 DEF IndInv, InvDevice
<1>6. InvPrev'
    BY <1>0 DEF IndInv, InvPrev
<1>7. InvRoot'
    BY <1>0 DEF IndInv, InvRoot, RootOnly
<1>8. InvFork'
    BY <1>0 DEF IndInv, InvFork
<1>9. InvMain'
    BY <1>0 DEF IndInv, InvMain, RootOnly
<1>10. InvList'
    BY <1>0 DEF IndInv, InvList, Listed
<1>11. InvCurrent'
    BY <1>0 DEF IndInv, InvCurrent
<1> QED BY <1>1, <1>2, <1>3, <1>4, <1>5, <1>6, <1>7, <1>8, <1>9, <1>10, <1>11 DEF IndInv

(* A thread whose semaphore has been posted resumes: it is the current one. *)
LEMMA Resume ==
    ASSUME IndInv, TypeOK',
           NEW t \in Threads, NEW l \in {"go", "user", "fork_destroy"},
           pc[t] \in {"sched_wait", "cmp_wait", "wait_sem"},
           semaphore[t] > 0,
           semaphore' = [semaphore EXCEPT ![t] = @ - 1],
           pc' = [pc EXCEPT ![t] = l],
           l = "fork_destroy" => child[t] # NULL,
           UNCHANGED <<confVars, schedVars, threadVars, args_sem, localVars>>
    PROVE  IndInv'
<1> USE DEF FreeLabels, RunningLabels, ForkLabels, CheckLabels, BlockedLabels
<1> USE DEF confVars, schedVars, threadVars, localVars
<1>0. /\ pc \in [Actors -> Labels] /\ child \in [Actors -> Threads \cup {NULL}]
      /\ semaphore \in [Threads -> Nat]
      /\ Main \in Actors /\ Threads \subseteq Actors /\ Main \notin Threads /\ Main # t
      /\ \A a \in Actors : a # t => pc'[a] = pc[a]
      /\ pc'[t] = l
      /\ semaphore[t] = 1 /\ current_thread = t
      /\ semaphore'[t] = 0 /\ \A u \in Threads : u # t => semaphore'[u] = semaphore[u]
    BY ActorsAssumption DEF IndInv, TypeOK, Actors, InvSemaphore
<1>1. MutualExclusion'
    BY <1>0 DEF IndInv, MutualExclusion
<1>2. InvTable'
    BY <1>0 DEF IndInv, InvTable
<1>3. InvComplete'
    BY <1>0 DEF IndInv, InvComplete
<1>4. InvSemaphore'
    BY <1>0 DEF IndInv, InvSemaphore
<1>5. InvDevice'
    BY <1>0 DEF IndInv, InvDevice
<1>6. InvPrev'
    BY <1>0 DEF IndInv, InvPrev
<1>7. InvRoot'
    BY <1>0 DEF IndInv, InvRoot, RootOnly
<1>8. InvFork'
    BY <1>0 DEF IndInv, InvFork
<1>9. InvMain'
    BY <1>0 DEF IndInv, InvMain, RootOnly
<1>10. InvList'
    BY <1>0 DEF IndInv, InvList, Listed
<1>11. InvCurrent'
    BY <1>0 DEF IndInv, InvCurrent
<1> QED BY <1>1, <1>2, <1>3, <1>4, <1>5, <1>6, <1>7, <1>8, <1>9, <1>10, <1>11 DEF IndInv

(* While another thread runs, a queued thread is blocked on its semaphore.   *)
LEMMA RunningAndQueued ==
    ASSUME IndInv, NEW t \in Threads, pc[t] \in RunningLabels \ {"popfirst"}
    PROVE  \A u \in Queued(tp) : u \in Threads /\ pc[u] \in BlockedLabels /\ u # t
<1>1. \A u \in Queued(tp) : u \in Threads
    BY QueuedThreads DEF IndInv, TypeOK, Tables
<1>2. \A u \in Queued(tp) : u # t
    BY DEF IndInv, InvTable, BlockedLabels, RunningLabels, ForkLabels, CheckLabels
<1>3. \A u \in Queued(tp) : pc[u] \notin {"claim", "popfirst"}
    BY <1>1, <1>2 DEF IndInv, InvRoot, RootOnly, RunningLabels, ForkLabels, CheckLabels
<1> QED BY <1>1, <1>2, <1>3 DEF IndInv, InvTable

(* What get_thread_from_queue does to the table of a sound state. *)
LEMMA GetThreadEffect ==
    ASSUME IndInv, get_thread_from_queue
    PROVE  \/ /\ Queued(tp) = {} /\ current_thread' = NULL
              /\ tp' = tp /\ semaphore' = semaphore
           \/ \E th \in Queued(tp) \cap Threads :
                 /\ current_thread' = th
                 /\ Queued(tp') = Queued(tp) \ {th} /\ SoundTable(tp', priority)
                 /\ semaphore' = [semaphore EXCEPT ![th] = @ + 1]
<1>1. tp \in Tables /\ SoundTable(tp, priority)
    BY DEF IndInv, TypeOK, Tables, InvTable
<1>2. CASE get_head(tp) = NULL
    <2>1. IsEmptyTable(tp)
        BY <1>1, <1>2, GetHead
    <2>2. Queued(tp) = {}
        BY <2>1 DEF IsEmptyTable, Queued
    <2> QED BY <1>2, <2>2, GetThread
<1>3. CASE get_head(tp) # NULL
    BY <1>1, <1>3, GetThread, RemoveHead
<1> QED BY <1>2, <1>3

(* The running thread gives the processor away: its handler has returned or *)
(* it waits for a device.                                                   *)
LEMMA Release ==
    ASSUME IndInv, TypeOK',
           NEW t \in Threads,
           \/ pc[t] = "user" /\ pc' = [pc EXCEPT ![t] = "exit"]
           \/ pc[t] = "wait_get" /\ pc' = [pc EXCEPT ![t] = "wait_sem"],
           get_thread_from_queue,
           UNCHANGED <<confVars, threads, nr_threads, threadVars, args_sem, localVars>>
    PROVE  IndInv'
<1> USE DEF FreeLabels, RunningLabels, ForkLabels, CheckLabels, BlockedLabels
<1> USE DEF confVars, threadVars, localVars
<1>t. /\ pc \in [Actors -> Labels] /\ semaphore \in [Threads -> Nat]
      /\ Main \in Actors /\ Threads \subseteq Actors /\ Main \notin Threads /\ Main # t
      /\ NULL \notin Threads
    BY ActorsAssumption DEF IndInv, TypeOK, Actors
<1>p. /\ \A a \in Actors : a # t => pc'[a] = pc[a]
      /\ pc'[Main] = pc[Main]
      /\ pc[t] \in {"user", "wait_get"} /\ pc'[t] \in {"exit", "wait_sem"}
      /\ pc[t] = "wait_get" <=> pc'[t] = "wait_sem"
    <2>1. CASE pc[t] = "user" /\ pc' = [pc EXCEPT ![t] = "exit"]
        BY <1>t, <2>1
    <2>2. CASE pc[t] = "wait_get" /\ pc' = [pc EXCEPT ![t] = "wait_sem"]
        BY <1>t, <2>2
    <2> QED BY <2>1, <2>2
<1>r. /\ current_thread = t
      /\ \A u \in Threads : u # t => pc[u] \notin RunningLabels
    BY <1>p DEF IndInv, MutualExclusion
<1>0. /\ pc \in [Actors -> Labels] /\ semaphore \in [Threads -> Nat]
      /\ Main \in Actors /\ Threads \subseteq Actors /\ Main \notin Threads /\ Main # t
      /\ NULL \notin Threads
      /\ \A a \in Actors : a # t => pc'[a] = pc[a]
      /\ pc'[Main] = pc[Main]
      /\ pc[t] \in {"user", "wait_get"} /\ pc'[t] \in {"exit", "wait_sem"}
      /\ pc[t] = "wait_get" <=> pc'[t] = "wait_sem"
      /\ current_thread = t
      /\ \A u \in Threads : u # t => pc[u] \notin RunningLabels
    BY <1>t, <1>p, <1>r
<1>q. \A u \in Queued(tp) : u \in Threads /\ pc[u] \in BlockedLabels /\ u # t
    BY <1>0, RunningAndQueued
<1>m. InvMain'
    <2>1. initOnce /\ rootForks # 0
        BY <1>0 DEF IndInv, InvMain
    <2>2. (child[Main] # NULL => RootOnly(child[Main]))'
        BY <1>0 DEF IndInv, InvMain, RootOnly
    <2>3. pc'[Main] = "join" =>
            \A i \in DOMAIN threads' : i < p'[Main] => pc'[threads'[i]] = "done"
        <3>1. \A i \in DOMAIN threads : threads[i] \in Threads
            BY DEF IndInv, TypeOK
        <3> QED BY <1>0, <3>1 DEF IndInv, InvMain
    <2>4. /\ pc'[Main] = pc[Main] /\ child' = child /\ nr_threads' = nr_threads
          /\ initOnce' /\ rootForks' # 0 /\ io_dev' = io_dev
        BY <1>0, <2>1
    <2> QED BY <2>1, <2>2, <2>3, <2>4 DEF IndInv, InvMain
<1>a. CASE Queued(tp) = {} /\ current_thread' = NULL /\ tp' = tp /\ semaphore' = semaphore
    <2>1. MutualExclusion'
        BY <1>0, <1>q, <1>a DEF IndInv, MutualExclusion
    <2>2. InvTable'
        BY <1>0, <1>q, <1>a DEF IndInv, InvTable
    <2>3. InvComplete'
        BY <1>0, <1>q, <1>a DEF IndInv, InvComplete, InvDevice
    <2>4. InvSemaphore'
        BY <1>0, <1>q, <1>a DEF IndInv, InvSemaphore
    <2>5. InvDevice'
        BY <1>0, <1>q, <1>a DEF IndInv, InvDevice
    <2>6. InvPrev'
        BY <1>0, <1>q, <1>a DEF IndInv, InvPrev
    <2>7. InvRoot'
        BY <1>0, <1>q, <1>a DEF IndInv, InvRoot, RootOnly
    <2>8. InvFork'
        BY <1>0, <1>q, <1>a DEF IndInv, InvFork
    <2>9. InvMain'
        BY <1>m
    <2>10. InvList'
        BY <1>0, <1>q, <1>a DEF IndInv, InvList, Listed
    <2>11. InvCurrent'
        BY <1>0, <1>q, <1>a DEF IndInv, InvCurrent
    <2> QED BY <2>1, <2>2, <2>3, <2>4, <2>5, <2>6, <2>7, <2>8, <2>9, <2>10, <2>11 DEF IndInv
<1>b. ASSUME NEW th \in Queued(tp) \cap Threads,
             current_thread' = th,
             Queued(tp') = Queued(tp) \ {th}, SoundTable(tp', priority),
             semaphore' = [semaphore EXCEPT ![th] = @ + 1]
      PROVE  IndInv'
    <2>0. /\ th # t /\ th # NULL /\ pc[th] \in BlockedLabels
          /\ semaphore[th] = 0 /\ semaphore[t] = 0
          /\ semaphore'[th] = 1 /\ \A u \in Threads : u # th => semaphore'[u] = semaphore[u]
          /\ pc[th] = "wait_sem" => io_device[th] = NoIo
        BY <1>0, <1>q, <1>b DEF IndInv, InvSemaphore, InvDevice
    <2>1. MutualExclusion'
        BY <1>0, <1>q, <1>b, <2>0 DEF IndInv, MutualExclusion
    <2>2. InvTable'
        BY <1>0, <1>q, <1>b, <2>0 DEF IndInv, InvTable
    <2>3. InvComplete'
        BY <1>0, <1>q, <1>b, <2>0 DEF IndInv, InvComplete, InvDevice
    <2>4. InvSemaphore'
        BY <1>0, <1>q, <1>b, <2>0 DEF IndInv, InvSemaphore
    <2>5. InvDevice'
        BY <1>0, <1>q, <1>b, <2>0 DEF IndInv, InvDevice
    <2>6. InvPrev'
        BY <1>0, <1>q, <1>b, <2>0 DEF IndInv, InvPrev
    <2>7. InvRoot'
        BY <1>0, <1>q, <1>b, <2>0 DEF IndInv, InvRoot, RootOnly
    <2>8. InvFork'
        BY <1>0, <1>q, <1>b, <2>0 DEF IndInv, InvFork
    <2>9. InvMain'
        BY <1>m
    <2>10. InvList'
        BY <1>0, <1>q, <1>b, <2>0 DEF IndInv, InvList, Listed
    <2>11. InvCurrent'
        BY <1>0, <1>q, <1>b, <2>0 DEF IndInv, InvCurrent
    <2> QED BY <2>1, <2>2, <2>3, <2>4, <2>5, <2>6, <2>7, <2>8, <2>9, <2>10, <2>11 DEF IndInv
<1> QED BY <1>a, <1>b, GetThreadEffect

(* so_init: no thread exists. *)
LEMMA StepInit ==
    ASSUME IndInv, TypeOK', NEW q \in Quanta, NEW n \in IoCounts, so_init(q, n), SingleRoot
    PROVE  IndInv'
<1> USE DEF FreeLabels, RunningLabels, ForkLabels, CheckLabels, BlockedLabels
<1> USE DEF confVars, schedVars, threadVars, semVars, localVars
<1>0. /\ pc \in [Actors -> Labels] /\ child \in [Actors -> Threads \cup {NULL}]
      /\ p \in [Actors -> Positions] /\ args_sem \in [Threads -> Nat]
      /\ semaphore \in [Threads -> Nat] /\ priority \in [Threads -> Prios]
      /\ tp \in Tables /\ threads \in Seq(Threads)
      /\ Main \in Actors /\ Threads \subseteq Actors /\ Main \notin Threads /\ NULL \notin Actors
    BY ActorsAssumption DEF IndInv, TypeOK, Actors, Tables
<1>a. /\ Queued(tp') = {} /\ SoundTable(tp', priority')
      /\ threads' = <<>> /\ Listed' = {} /\ current_thread' = NULL
      /\ n # 0
    BY CreatedTable DEF so_init, SingleRoot, Listed, so_init_rejects
<1>b. /\ \A t \in Threads : pc[t] = "unborn" /\ pc'[t] = "unborn"
      /\ child' = child /\ pc' = pc /\ io_device' = io_device /\ io' = io /\ prev' = prev
      /\ io_dev' = n /\ nr_threads' = 0 /\ initOnce' /\ rootForks' = 0
      /\ semaphore' = semaphore /\ args_sem' = args_sem /\ p' = p
      /\ pc[Main] = "user" /\ child[Main] = NULL /\ current_thread = NULL
    BY DEF so_init, so_init_rejects, IndInv, InvMain
<1>1. MutualExclusion'
    BY <1>0, <1>a, <1>b DEF IndInv, MutualExclusion
<1>2. InvTable'
    BY <1>0, <1>a, <1>b DEF IndInv, InvTable
<1>3. InvComplete'
    BY <1>0, <1>a, <1>b DEF IndInv, InvComplete
<1>4. InvSemaphore'
    BY <1>0, <1>a, <1>b DEF IndInv, InvSemaphore
<1>5. InvDevice'
    BY <1>0, <1>a, <1>b DEF IndInv, InvDevice
<1>6. InvPrev'
    BY <1>0, <1>a, <1>b DEF IndInv, InvPrev
<1>7. InvRoot'
    BY <1>0, <1>a, <1>b DEF IndInv, InvRoot, RootOnly
<1>8. InvFork'
    BY <1>0, <1>a, <1>b DEF IndInv, InvFork
<1>9. InvMain'
    BY <1>0, <1>a, <1>b DEF IndInv, InvMain, RootOnly
<1>10. InvList'
    BY <1>0, <1>a, <1>b DEF IndInv, InvList, Listed
<1>11. InvCurrent'
    BY <1>0, <1>a, <1>b DEF IndInv, InvCurrent
<1> QED BY <1>1, <1>2, <1>3, <1>4, <1>5, <1>6, <1>7, <1>8, <1>9, <1>10, <1>11 DEF IndInv

(* so_end starts to join. *)
LEMMA StepEnd ==
    ASSUME IndInv, TypeOK', so_end(Main)
    PROVE  IndInv'
<1> USE DEF FreeLabels, RunningLabels, ForkLabels, CheckLabels, BlockedLabels
<1> USE DEF confVars, schedVars, threadVars, semVars, localVars
<1>0. /\ pc \in [Actors -> Labels] /\ child \in [Actors -> Threads \cup {NULL}]
      /\ p \in [Actors -> Positions] /\ args_sem \in [Threads -> Nat]
      /\ semaphore \in [Threads -> Nat] /\ priority \in [Threads -> Prios]
      /\ tp \in Tables /\ threads \in Seq(Threads)
      /\ Main \in Actors /\ Threads \subseteq Actors /\ Main \notin Threads /\ NULL \notin Actors
    BY ActorsAssumption DEF IndInv, TypeOK, Actors, Tables
<1>a. /\ pc' = [pc EXCEPT ![Main] = "join"] /\ pc[Main] = "user" /\ initOnce
      /\ p'[Main] = 1 /\ \A t \in Threads : pc'[t] = pc[t]
      /\ pc'[Main] = "join"
      /\ \A i \in DOMAIN threads : ~(i < 1)
    BY <1>0 DEF so_end, Goto
<1>b. UNCHANGED <<confVars, schedVars, threadVars, semVars, child, prev, expired, io>>
    BY DEF so_end
<1>1. MutualExclusion'
    BY <1>0, <1>a, <1>b DEF IndInv, MutualExclusion
<1>2. InvTable'
    BY <1>0, <1>a, <1>b DEF IndInv, InvTable
<1>3. InvComplete'
    BY <1>0, <1>a, <1>b DEF IndInv, InvComplete
<1>4. InvSemaphore'
    BY <1>0, <1>a, <1>b DEF IndInv, InvSemaphore
<1>5. InvDevice'
    BY <1>0, <1>a, <1>b DEF IndInv, InvDevice
<1>6. InvPrev'
    BY <1>0, <1>a, <1>b DEF IndInv, InvPrev
<1>7. InvRoot'
    BY <1>0, <1>a, <1>b DEF IndInv, InvRoot, RootOnly
<1>8. InvFork'
    BY <1>0, <1>a, <1>b DEF IndInv, InvFork
<1>9. InvMain'
    BY <1>0, <1>a, <1>b DEF IndInv, InvMain, RootOnly
<1>10. InvList'
    BY <1>0, <1>a, <1>b DEF IndInv, InvList, Listed
<1>11. InvCurrent'
    BY <1>0, <1>a, <1>b DEF IndInv, InvCurrent
<1> QED BY <1>1, <1>2, <1>3, <1>4, <1>5, <1>6, <1>7, <1>8, <1>9, <1>10, <1>11 DEF IndInv

(* A handler's pthread_create fails. *)
LEMMA StepForkError ==
    ASSUME IndInv, TypeOK', NEW a \in Actors, NEW prio \in ForkPrios, so_fork_error(a, prio), SingleRoot
    PROVE  IndInv'
<1> USE DEF FreeLabels, RunningLabels, ForkLabels, CheckLabels, BlockedLabels
<1> USE DEF confVars, schedVars, threadVars, semVars, localVars
<1>0. /\ pc \in [Actors -> Labels] /\ child \in [Actors -> Threads \cup {NULL}]
      /\ p \in [Actors -> Positions] /\ args_sem \in [Threads -> Nat]
      /\ semaphore \in [Threads -> Nat] /\ priority \in [Threads -> Prios]
      /\ tp \in Tables /\ threads \in Seq(Threads)
      /\ Main \in Actors /\ Threads \subseteq Actors /\ Main \notin Threads /\ NULL \notin Actors
    BY ActorsAssumption DEF IndInv, TypeOK, Actors, Tables
<1>a. /\ a \in Threads /\ pc[a] = "user" /\ child[Main] = NULL
    BY <1>0 DEF so_fork_error, SingleRoot, MayFork, Actors
<1>b. UNCHANGED <<confVars, current_thread, tp, threads, threadVars, semVars, localVars, pc>>
    BY DEF so_fork_error
<1>1. MutualExclusion'
    BY <1>0, <1>a, <1>b DEF IndInv, MutualExclusion
<1>2. InvTable'
    BY <1>0, <1>a, <1>b DEF IndInv, InvTable
<1>3. InvComplete'
    BY <1>0, <1>a, <1>b DEF IndInv, InvComplete
<1>4. InvSemaphore'
    BY <1>0, <1>a, <1>b DEF IndInv, InvSemaphore
<1>5. InvDevice'
    BY <1>0, <1>a, <1>b DEF IndInv, InvDevice
<1>6. InvPrev'
    BY <1>0, <1>a, <1>b DEF IndInv, InvPrev
<1>7. InvRoot'
    BY <1>0, <1>a, <1>b DEF IndInv, InvRoot, RootOnly
<1>8. InvFork'
    BY <1>0, <1>a, <1>b DEF IndInv, InvFork
<1>9. InvMain'
    BY <1>0, <1>a, <1>b DEF IndInv, InvMain, RootOnly
<1>10. InvList'
    BY <1>0, <1>a, <1>b DEF IndInv, InvList, Listed
<1>11. InvCurrent'
    BY <1>0, <1>a, <1>b DEF IndInv, InvCurrent
<1> QED BY <1>1, <1>2, <1>3, <1>4, <1>5, <1>6, <1>7, <1>8, <1>9, <1>10, <1>11 DEF IndInv

(* A sound table stays sound when the priority of other threads changes. *)
LEMMA SoundChange ==
    ASSUME NEW tb \in Tables, NEW prio1, NEW prio2, SoundTable(tb, prio1),
           \A x \in Queued(tb) : prio2[x] = prio1[x]
    PROVE  SoundTable(tb, prio2)
<1>1. \A q \in Prios : \A i \in DOMAIN tb[q] : tb[q][i] \in Queued(tb)
    BY QueuedMember
<1> QED BY <1>1 DEF SoundTable

(* main forks the root thread. *)
LEMMA StepForkMain ==
    ASSUME IndInv, TypeOK', NEW t \in Threads, NEW prio \in ForkPrios, so_fork(Main, t, prio), SingleRoot
    PROVE  IndInv'
<1> USE DEF FreeLabels, RunningLabels, ForkLabels, CheckLabels, BlockedLabels
<1> USE DEF confVars, schedVars, threadVars, semVars, localVars
<1>0. /\ pc \in [Actors -> Labels] /\ child \in [Actors -> Threads \cup {NULL}]
      /\ p \in [Actors -> Positions] /\ args_sem \in [Threads -> Nat]
      /\ semaphore \in [Threads -> Nat] /\ priority \in [Threads -> Prios]
      /\ tp \in Tables /\ threads \in Seq(Threads)
      /\ Main \in Actors /\ Threads \subseteq Actors /\ Main \notin Threads /\ NULL \notin Actors
    BY ActorsAssumption DEF IndInv, TypeOK, Actors, Tables
<1>a. /\ initOnce /\ rootForks = 0 /\ pc[Main] = "user"
      /\ \A u \in Threads : pc[u] = "unborn"
      /\ current_thread = NULL /\ nr_threads = 0 /\ child[Main] = NULL
      /\ Queued(tp) = {}
    <2>1. initOnce /\ rootForks = 0 /\ pc[Main] = "user"
        BY BoundsAssumption DEF so_fork, MayFork, SingleRoot, IndInv, TypeOK
    <2>2. \A u \in Threads : pc[u] = "unborn"
        BY <2>1 DEF IndInv, InvMain
    <2>3. Queued(tp) = {}
        BY <1>0, <2>2, QueuedThreads DEF IndInv, InvTable
    <2> QED BY <2>1, <2>2, <2>3 DEF IndInv, InvMain
<1>b. /\ pc' = [pc EXCEPT ![Main] = "fork_wait", ![t] = "start"]
      /\ pc'[Main] = "fork_wait" /\ pc'[t] = "start"
      /\ \A u \in Threads : u # t => pc'[u] = "unborn"
      /\ child' = [child EXCEPT ![Main] = t] /\ child'[Main] = t
      /\ \A a \in Actors : a # Main => child'[a] = child[a]
      /\ nr_threads' = 1 /\ rootForks' = 1 /\ args_sem'[t] = 0
      /\ io_device'[t] = NoIo /\ \A u \in Threads : u # t => io_device'[u] = io_device[u]
      /\ UNCHANGED <<initOnce, io_dev, current_thread, tp, threads, semaphore, prev, io, p>>
    BY <1>0, <1>a DEF so_fork, IndInv, TypeOK
<1>c. SoundTable(tp', priority')
    BY <1>0, <1>a, <1>b, SoundChange DEF IndInv, InvTable
<1>d. \A u \in Threads : io_device'[u] = NoIo /\ pc'[u] \in {"start", "unborn"}
    <2>1. \A u \in Threads : io_device[u] = NoIo
        BY <1>a DEF IndInv, InvDevice
    <2> QED BY <1>b, <2>1
<1>1. MutualExclusion'
    BY <1>0, <1>a, <1>b, <1>c DEF IndInv, MutualExclusion
<1>2. InvTable'
    BY <1>0, <1>a, <1>b, <1>c DEF IndInv, InvTable
<1>3. InvComplete'
    BY <1>0, <1>a, <1>b, <1>c DEF IndInv, InvComplete
<1>4. InvSemaphore'
    BY <1>0, <1>a, <1>b, <1>c DEF IndInv, InvSemaphore
<1>5. InvDevice'
    BY <1>d DEF InvDevice
<1>6. InvPrev'
    BY <1>0, <1>a, <1>b, <1>c DEF IndInv, InvPrev
<1>7. InvRoot'
    BY <1>0, <1>a, <1>b, <1>c DEF IndInv, InvRoot, RootOnly
<1>8. InvFork'
    BY <1>0, <1>a, <1>b, <1>c DEF IndInv, InvFork
<1>9. InvMain'
    BY <1>0, <1>a, <1>b, <1>c DEF IndInv, InvMain, RootOnly
<1>10. InvList'
    BY <1>0, <1>a, <1>b, <1>c DEF IndInv, InvList, Listed
<1>11. InvCurrent'
    BY <1>0, <1>a, <1>b, <1>c DEF IndInv, InvCurrent
<1> QED BY <1>1, <1>2, <1>3, <1>4, <1>5, <1>6, <1>7, <1>8, <1>9, <1>10, <1>11 DEF IndInv

(* A handler forks a thread. *)
LEMMA StepFork ==
    ASSUME IndInv, TypeOK', NEW a \in Threads, NEW t \in Threads, NEW prio \in ForkPrios, so_fork(a, t, prio), SingleRoot
    PROVE  IndInv'
<1> USE DEF FreeLabels, RunningLabels, ForkLabels, CheckLabels, BlockedLabels
<1> USE DEF confVars, schedVars, threadVars, semVars, localVars
<1>0. /\ pc \in [Actors -> Labels] /\ child \in [Actors -> Threads \cup {NULL}]
      /\ p \in [Actors -> Positions] /\ args_sem \in [Threads -> Nat]
      /\ semaphore \in [Threads -> Nat] /\ priority \in [Threads -> Prios]
      /\ tp \in Tables /\ threads \in Seq(Threads)
      /\ Main \in Actors /\ Threads \subseteq Actors /\ Main \notin Threads /\ NULL \notin Actors
    BY ActorsAssumption DEF IndInv, TypeOK, Actors, Tables
<1>a. /\ initOnce /\ pc[a] = "user" /\ child[Main] = NULL /\ pc[t] = "unborn" /\ a # t
      /\ t \notin Queued(tp) /\ rootForks # 0 /\ current_thread = a
    BY <1>0 DEF so_fork, MayFork, SingleRoot, IndInv, InvTable, InvMain, MutualExclusion
<1>b. /\ pc' = [pc EXCEPT ![a] = "fork_wait", ![t] = "start"]
      /\ pc'[Main] = pc[Main] /\ pc'[a] = "fork_wait" /\ pc'[t] = "start"
      /\ \A u \in Threads : u # t /\ u # a => pc'[u] = pc[u]
      /\ child' = [child EXCEPT ![a] = t] /\ child'[Main] = NULL /\ child'[a] = t
      /\ \A b \in Actors : b # a => child'[b] = child[b]
      /\ rootForks' = rootForks /\ args_sem'[t] = 0
      /\ \A u \in Threads : u # t => args_sem'[u] = args_sem[u]
      /\ io_device'[t] = NoIo /\ \A u \in Threads : u # t => io_device'[u] = io_device[u]
      /\ \A u \in Threads : u # t => priority'[u] = priority[u]
      /\ UNCHANGED <<initOnce, io_dev, current_thread, tp, threads, semaphore, prev, io, p>>
    BY <1>0, <1>a DEF so_fork, IndInv, TypeOK
<1>c. SoundTable(tp', priority')
    BY <1>0, <1>a, <1>b, SoundChange, QueuedThreads DEF IndInv, InvTable
<1>d. /\ \A u \in Queued(tp) : u \in Threads /\ pc[u] \in BlockedLabels /\ u # a /\ u # t
      /\ \A u \in Threads : pc[u] \notin {"claim", "popfirst"}
    BY <1>0, <1>a, RunningAndQueued DEF IndInv, InvRoot, RootOnly
<1>1. MutualExclusion'
    BY <1>0, <1>a, <1>b, <1>c DEF IndInv, MutualExclusion
<1>2. InvTable'
    BY <1>0, <1>a, <1>b, <1>c, <1>d DEF IndInv, InvTable
<1>3. InvComplete'
    BY <1>0, <1>a, <1>b, <1>c DEF IndInv, InvComplete
<1>4. InvSemaphore'
    BY <1>0, <1>a, <1>b, <1>c DEF IndInv, InvSemaphore
<1>5. InvDevice'
    BY <1>0, <1>a, <1>b, <1>c DEF IndInv, InvDevice
<1>6. InvPrev'
    BY <1>0, <1>a, <1>b, <1>c DEF IndInv, InvPrev
<1>7. InvRoot'
    BY <1>0, <1>a, <1>b, <1>c, <1>d DEF IndInv, InvRoot, RootOnly
<1>8. InvFork'
    <2>1. \A u \in Threads : u # t /\ pc'[u] \in {"start", "ready"} =>
            /\ pc[u] \in {"start", "ready"} /\ args_sem'[u] = 0
            /\ \E b \in Actors : child[b] = u /\ pc[b] = "fork_wait"
        BY <1>0, <1>a, <1>b DEF IndInv, InvFork
    <2>2. \A b \in Actors : pc[b] = "fork_wait" => b # a /\ b # t /\ pc'[b] = "fork_wait" /\ child'[b] = child[b]
        BY <1>0, <1>a, <1>b
    <2>3. \A u \in Threads : u # t /\ pc'[u] \in {"start", "ready"} =>
            \E b \in Actors : child'[b] = u /\ pc'[b] = "fork_wait"
        BY <2>1, <2>2
    <2>4. \A b \in Actors : pc'[b] \in ForkLabels => child'[b] # NULL
        BY <1>0, <1>a, <1>b DEF IndInv, InvFork
    <2>5. args_sem'[t] = 0 /\ \E b \in Actors : child'[b] = t /\ pc'[b] = "fork_wait"
        BY <1>0, <1>b
    <2>6. \A u \in Threads : pc'[u] \in {"start", "ready"} =>
            /\ args_sem'[u] = 0
            /\ \E b \in Actors : child'[b] = u /\ pc'[b] = "fork_wait"
        BY <2>1, <2>3, <2>5
    <2> QED BY <2>4, <2>6 DEF InvFork
<1>9. InvMain'
    BY <1>0, <1>a, <1>b, <1>c DEF IndInv, InvMain, RootOnly
<1>10. InvList'
    BY <1>0, <1>a, <1>b, <1>c DEF IndInv, InvList, Listed
<1>11. InvCurrent'
    BY <1>0, <1>a, <1>b, <1>c DEF IndInv, InvCurrent
<1> QED BY <1>1, <1>2, <1>3, <1>4, <1>5, <1>6, <1>7, <1>8, <1>9, <1>10, <1>11 DEF IndInv

(* The parent of a thread that has entered the table goes on. *)
LEMMA StepForkWait ==
    ASSUME IndInv, TypeOK', NEW a \in Actors, so_fork_wait(a)
    PROVE  IndInv'
<1> USE DEF FreeLabels, RunningLabels, ForkLabels, CheckLabels, BlockedLabels
<1> USE DEF confVars, schedVars, threadVars, semVars, localVars
<1>0. /\ pc \in [Actors -> Labels] /\ child \in [Actors -> Threads \cup {NULL}]
      /\ p \in [Actors -> Positions] /\ args_sem \in [Threads -> Nat]
      /\ semaphore \in [Threads -> Nat] /\ priority \in [Threads -> Prios]
      /\ tp \in Tables /\ threads \in Seq(Threads)
      /\ Main \in Actors /\ Threads \subseteq Actors /\ Main \notin Threads /\ NULL \notin Actors
    BY ActorsAssumption DEF IndInv, TypeOK, Actors, Tables
<1>a. /\ pc[a] = "fork_wait" /\ child[a] \in Threads /\ args_sem[child[a]] > 0
      /\ pc[child[a]] \notin {"start", "ready"}
      /\ a = Main \/ a \in Threads
    BY <1>0 DEF so_fork_wait, IndInv, InvFork, Actors
<1>b. /\ pc' = [pc EXCEPT ![a] = "fork_chk"] /\ pc'[a] = "fork_chk"
      /\ \A b \in Actors : b # a => pc'[b] = pc[b]
      /\ \A u \in Threads : u # child[a] => args_sem'[u] = args_sem[u]
      /\ UNCHANGED <<confVars, schedVars, threadVars, semaphore, localVars>>
    BY <1>0, <1>a DEF so_fork_wait, Goto
<1>1. MutualExclusion'
    BY <1>0, <1>a, <1>b DEF IndInv, MutualExclusion
<1>2. InvTable'
    BY <1>0, <1>a, <1>b DEF IndInv, InvTable
<1>3. InvComplete'
    BY <1>0, <1>a, <1>b DEF IndInv, InvComplete
<1>4. InvSemaphore'
    BY <1>0, <1>a, <1>b DEF IndInv, InvSemaphore
<1>5. InvDevice'
    BY <1>0, <1>a, <1>b DEF IndInv, InvDevice
<1>6. InvPrev'
    BY <1>0, <1>a, <1>b DEF IndInv, InvPrev
<1>7. InvRoot'
    BY <1>0, <1>a, <1>b DEF IndInv, InvRoot, RootOnly
<1>8. InvFork'
    BY <1>0, <1>a, <1>b DEF IndInv, InvFork
<1>9. InvMain'
    BY <1>0, <1>a, <1>b DEF IndInv, InvMain, RootOnly
<1>10. InvList'
    BY <1>0, <1>a, <1>b DEF IndInv, InvList, Listed
<1>11. InvCurrent'
    BY <1>0, <1>a, <1>b DEF IndInv, InvCurrent
<1> QED BY <1>1, <1>2, <1>3, <1>4, <1>5, <1>6, <1>7, <1>8, <1>9, <1>10, <1>11 DEF IndInv

(* Main moves inside so_fork; no other thread than the root exists. *)
LEMMA MainMove ==
    ASSUME IndInv, TypeOK', NEW l \in {"chk", "chk_locked", "fork_destroy", "user"},
           pc[Main] \in {"fork_chk", "chk", "chk_locked", "fork_destroy"},
           pc' = [pc EXCEPT ![Main] = l],
           UNCHANGED <<confVars, schedVars, threadVars, semVars, prev, expired, io, p>>,
           child' = IF l = "user" THEN [child EXCEPT ![Main] = NULL] ELSE child
    PROVE  IndInv'
<1> USE DEF FreeLabels, RunningLabels, ForkLabels, CheckLabels, BlockedLabels
<1> USE DEF confVars, schedVars, threadVars, semVars, localVars
<1>0. /\ pc \in [Actors -> Labels] /\ child \in [Actors -> Threads \cup {NULL}]
      /\ p \in [Actors -> Positions] /\ args_sem \in [Threads -> Nat]
      /\ semaphore \in [Threads -> Nat] /\ priority \in [Threads -> Prios]
      /\ tp \in Tables /\ threads \in Seq(Threads)
      /\ Main \in Actors /\ Threads \subseteq Actors /\ Main \notin Threads /\ NULL \notin Actors
    BY ActorsAssumption DEF IndInv, TypeOK, Actors, Tables
<1>a. child[Main] # NULL /\ initOnce /\ rootForks # 0
    BY <1>0 DEF IndInv, InvFork, InvMain
<1>b. /\ pc'[Main] = l /\ \A a \in Actors : a # Main => pc'[a] = pc[a] /\ child'[a] = child[a]
      /\ \A u \in Threads : pc'[u] = pc[u]
      /\ l = "user" => child'[Main] = NULL
    BY <1>0
<1>1. MutualExclusion'
    BY <1>0, <1>a, <1>b DEF IndInv, MutualExclusion
<1>2. InvTable'
    BY <1>0, <1>a, <1>b DEF IndInv, InvTable
<1>3. InvComplete'
    BY <1>0, <1>a, <1>b DEF IndInv, InvComplete
<1>4. InvSemaphore'
    BY <1>0, <1>a, <1>b DEF IndInv, InvSemaphore
<1>5. InvDevice'
    BY <1>0, <1>a, <1>b DEF IndInv, InvDevice
<1>6. InvPrev'
    BY <1>0, <1>a, <1>b DEF IndInv, InvPrev
<1>7. InvRoot'
    BY <1>0, <1>a, <1>b DEF IndInv, InvRoot, RootOnly
<1>8. InvFork'
    BY <1>0, <1>a, <1>b DEF IndInv, InvFork
<1>9. InvMain'
    BY <1>0, <1>a, <1>b DEF IndInv, InvMain, RootOnly
<1>10. InvList'
    BY <1>0, <1>a, <1>b DEF IndInv, InvList, Listed
<1>11. InvCurrent'
    BY <1>0, <1>a, <1>b DEF IndInv, InvCurrent
<1> QED BY <1>1, <1>2, <1>3, <1>4, <1>5, <1>6, <1>7, <1>8, <1>9, <1>10, <1>11 DEF IndInv

(* The head of the table preempts the thread that calls. *)
LEMMA StepCompareLocked ==
    ASSUME IndInv, TypeOK', NEW t \in Threads, compare_priorities_locked(t),
           Preempts(get_head(tp), current_thread, expired[t])
    PROVE  IndInv'
<1> USE DEF FreeLabels, RunningLabels, ForkLabels, CheckLabels, BlockedLabels
<1> USE DEF confVars, schedVars, threadVars, semVars, localVars
<1>0. /\ pc \in [Actors -> Labels] /\ child \in [Actors -> Threads \cup {NULL}]
      /\ p \in [Actors -> Positions] /\ args_sem \in [Threads -> Nat]
      /\ semaphore \in [Threads -> Nat] /\ priority \in [Threads -> Prios]
      /\ tp \in Tables /\ threads \in Seq(Threads)
      /\ Main \in Actors /\ Threads \subseteq Actors /\ Main \notin Threads /\ NULL \notin Actors
    BY ActorsAssumption DEF IndInv, TypeOK, Actors, Tables
<1>a. /\ pc[t] = "cmp_locked" /\ current_thread = t /\ get_head(tp) # NULL
      /\ \A u \in Queued(tp) : u \in Threads /\ pc[u] \in BlockedLabels /\ u # t
      /\ \A u \in Threads : pc[u] \notin {"claim", "popfirst"}
    BY <1>0, RunningAndQueued DEF compare_priorities_locked, IndInv, MutualExclusion, InvRoot, RootOnly
<1> DEFINE th == get_head(tp)
           tb == priority_table_remove(tp, priority[th])
<1>b. /\ pc' = [pc EXCEPT ![t] = "cmp_wait"] /\ current_thread' = th
      /\ tp' = priority_table_insert(tb, t, priority[t])
      /\ semaphore' = [semaphore EXCEPT ![th] = @ + 1]
      /\ prev' = [prev EXCEPT ![t] = t]
      /\ UNCHANGED <<confVars, threads, nr_threads, priority, io_device, th_state,
                     args_sem, child, expired, io, p>>
    BY <1>a DEF compare_priorities_locked, Goto, sem_post
<1>c. SoundTable(tp, priority)
    BY DEF IndInv, InvTable
<1>d. /\ th \in Queued(tp) /\ th \in Threads /\ th # t /\ pc[th] \in BlockedLabels
      /\ tb \in Tables /\ Queued(tb) = Queued(tp) \ {th} /\ SoundTable(tb, priority)
    BY <1>0, <1>a, <1>c, RemoveHead
<1> HIDE DEF th, tb
<1>e. /\ Queued(tp') = (Queued(tp) \ {th}) \cup {t}
      /\ SoundTable(tp', priority')
    <2>1. t \notin Queued(tb) /\ priority[t] \in Prios /\ priority' = priority
        BY <1>0, <1>a, <1>b, <1>d
    <2> QED BY <2>1, <1>b, <1>d, InsertThread
<1>f. /\ pc'[t] = "cmp_wait" /\ \A a \in Actors : a # t => pc'[a] = pc[a]
      /\ pc'[Main] = pc[Main] /\ pc'[th] = pc[th]
      /\ prev'[t] = t /\ \A a \in Actors : a # t => prev'[a] = prev[a]
      /\ prev \in [Actors -> Threads \cup {NULL}]
    BY <1>0, <1>a, <1>b, <1>d DEF IndInv, TypeOK
<1>g. /\ semaphore[th] = 0 /\ semaphore[t] = 0
      /\ pc[th] = "wait_sem" => io_device[th] = NoIo
    BY <1>0, <1>a, <1>d DEF IndInv, InvSemaphore, InvDevice
<1>h. semaphore'[th] = 1 /\ \A u \in Threads : u # th => semaphore'[u] = semaphore[u]
    BY <1>0, <1>b, <1>d, <1>g
<1>1. MutualExclusion'
    BY <1>0, <1>a, <1>b, <1>d, <1>e, <1>f, <1>g, <1>h DEF IndInv, MutualExclusion
<1>2. InvTable'
    BY <1>0, <1>a, <1>b, <1>d, <1>e, <1>f, <1>g, <1>h DEF IndInv, InvTable
<1>3. InvComplete'
    BY <1>0, <1>a, <1>b, <1>d, <1>e, <1>f, <1>g, <1>h DEF IndInv, InvComplete
<1>4. InvSemaphore'
    BY <1>0, <1>a, <1>b, <1>d, <1>e, <1>f, <1>g, <1>h DEF IndInv, InvSemaphore
<1>5. InvDevice'
    BY <1>0, <1>a, <1>b, <1>d, <1>e, <1>f, <1>g, <1>h DEF IndInv, InvDevice
<1>6. InvPrev'
    BY <1>0, <1>a, <1>b, <1>d, <1>e, <1>f, <1>g, <1>h DEF IndInv, InvPrev
<1>7. InvRoot'
    BY <1>0, <1>a, <1>b, <1>d, <1>e, <1>f, <1>g, <1>h DEF IndInv, InvRoot, RootOnly
<1>8. InvFork'
    BY <1>0, <1>a, <1>b, <1>d, <1>e, <1>f, <1>g, <1>h DEF IndInv, InvFork
<1>9. InvMain'
    BY <1>0, <1>a, <1>b, <1>d, <1>e, <1>f, <1>g, <1>h DEF IndInv, InvMain, RootOnly
<1>10. InvList'
    BY <1>0, <1>a, <1>b, <1>d, <1>e, <1>f, <1>g, <1>h DEF IndInv, InvList, Listed
<1>11. InvCurrent'
    BY <1>0, <1>a, <1>b, <1>d, <1>e, <1>f, <1>g, <1>h DEF IndInv, InvCurrent
<1> QED BY <1>1, <1>2, <1>3, <1>4, <1>5, <1>6, <1>7, <1>8, <1>9, <1>10, <1>11 DEF IndInv

(* so_end joins a thread. *)
LEMMA StepJoin ==
    ASSUME IndInv, TypeOK', so_end_join(Main)
    PROVE  IndInv'
<1> USE DEF FreeLabels, RunningLabels, ForkLabels, CheckLabels, BlockedLabels
<1> USE DEF confVars, schedVars, threadVars, semVars, localVars
<1>0. /\ pc \in [Actors -> Labels] /\ child \in [Actors -> Threads \cup {NULL}]
      /\ p \in [Actors -> Positions] /\ args_sem \in [Threads -> Nat]
      /\ semaphore \in [Threads -> Nat] /\ priority \in [Threads -> Prios]
      /\ tp \in Tables /\ threads \in Seq(Threads)
      /\ Main \in Actors /\ Threads \subseteq Actors /\ Main \notin Threads /\ NULL \notin Actors
    BY ActorsAssumption DEF IndInv, TypeOK, Actors, Tables
<1>a. /\ pc[Main] = "join" /\ pc[threads[p[Main]]] = "done" /\ p[Main] \in Nat
      /\ p'[Main] = p[Main] + 1
      /\ \A i \in DOMAIN threads : i \in Nat
    BY <1>0 DEF so_end_join, Positions
<1>b. UNCHANGED <<confVars, schedVars, priority, quantum_left, io_device,
                   semVars, child, prev, expired, io, pc>>
    BY DEF so_end_join
<1>c. \A i \in DOMAIN threads : i < p'[Main] => pc[threads[i]] = "done"
    BY <1>a DEF IndInv, InvMain
<1>1. MutualExclusion'
    BY <1>0, <1>a, <1>b DEF IndInv, MutualExclusion
<1>2. InvTable'
    BY <1>0, <1>a, <1>b DEF IndInv, InvTable
<1>3. InvComplete'
    BY <1>0, <1>a, <1>b DEF IndInv, InvComplete
<1>4. InvSemaphore'
    BY <1>0, <1>a, <1>b DEF IndInv, InvSemaphore
<1>5. InvDevice'
    BY <1>0, <1>a, <1>b DEF IndInv, InvDevice
<1>6. InvPrev'
    BY <1>0, <1>a, <1>b DEF IndInv, InvPrev
<1>7. InvRoot'
    BY <1>0, <1>a, <1>b DEF IndInv, InvRoot, RootOnly
<1>8. InvFork'
    BY <1>0, <1>a, <1>b DEF IndInv, InvFork
<1>9. InvMain'
    BY <1>0, <1>a, <1>b, <1>c DEF IndInv, InvMain, RootOnly
<1>10. InvList'
    BY <1>0, <1>a, <1>b DEF IndInv, InvList, Listed
<1>11. InvCurrent'
    BY <1>0, <1>a, <1>b DEF IndInv, InvCurrent
<1> QED BY <1>1, <1>2, <1>3, <1>4, <1>5, <1>6, <1>7, <1>8, <1>9, <1>10, <1>11 DEF IndInv

(* When the last thread of the list has been joined, no thread is left.      *)
LEMMA JoinedAll ==
    ASSUME IndInv, pc[Main] = "join", p[Main] > Len(threads)
    PROVE  /\ \A t \in Threads : pc[t] \in {"unborn", "done"}
           /\ \A t \in Threads : pc[t] = "done" => t \in Listed
           /\ Queued(tp) = {}
<1>0. /\ threads \in Seq(Threads) /\ p[Main] \in Nat /\ tp \in Tables
      /\ Main \in Actors /\ Threads \subseteq Actors /\ Main \notin Threads
      /\ child \in [Actors -> Threads \cup {NULL}] /\ NULL \notin Threads
    BY ActorsAssumption DEF IndInv, TypeOK, Positions, Actors, Tables
<1>1. \A t \in Listed : pc[t] = "done"
    BY <1>0 DEF IndInv, InvMain, Listed
<1>2. \A t \in Threads : pc[t] \in {"unborn", "start", "done"}
    BY <1>1 DEF IndInv, InvList
<1>3. \A t \in Threads : pc[t] # "start"
    <2> SUFFICES ASSUME NEW t \in Threads, pc[t] = "start" PROVE FALSE
        OBVIOUS
    <2>1. PICK a \in Actors : child[a] = t /\ pc[a] = "fork_wait"
        BY DEF IndInv, InvFork
    <2>2. a \in Threads
        BY <2>1 DEF Actors
    <2> QED BY <1>2, <2>1, <2>2
<1>4. Queued(tp) = {}
    BY <1>0, <1>2, QueuedThreads DEF IndInv, InvTable, BlockedLabels
<1>5. \A t \in Threads : pc[t] = "done" => t \in Listed
    BY DEF IndInv, InvList
<1> QED BY <1>2, <1>3, <1>4, <1>5

(* so_end frees the threads. *)
LEMMA StepFree ==
    ASSUME IndInv, TypeOK', so_end_free(Main)
    PROVE  IndInv'
<1> USE DEF FreeLabels, RunningLabels, ForkLabels, CheckLabels, BlockedLabels
<1> USE DEF confVars, schedVars, threadVars, semVars, localVars
<1>0. /\ pc \in [Actors -> Labels] /\ child \in [Actors -> Threads \cup {NULL}]
      /\ p \in [Actors -> Positions] /\ args_sem \in [Threads -> Nat]
      /\ semaphore \in [Threads -> Nat] /\ priority \in [Threads -> Prios]
      /\ tp \in Tables /\ threads \in Seq(Threads)
      /\ Main \in Actors /\ Threads \subseteq Actors /\ Main \notin Threads /\ NULL \notin Actors
    BY ActorsAssumption DEF IndInv, TypeOK, Actors, Tables
<1>a. /\ pc[Main] = "join" /\ initOnce' = FALSE /\ current_thread' = NULL /\ threads' = <<>>
      /\ pc' = [b \in Actors |->
                IF b = Main THEN "user"
                ELSE IF \E i \in DOMAIN threads : threads[i] = b THEN "unborn"
                ELSE pc[b]]
      /\ tp' = DistrugeTP /\ p[Main] > Len(threads)
      /\ UNCHANGED <<io_dev, rootForks, sessions, threadVars, semVars, child, prev, expired, io>>
    BY DEF so_end_free
<1>b. /\ \A t \in Threads : pc'[t] = "unborn" /\ pc[t] \in {"unborn", "done"}
      /\ pc'[Main] = "user" /\ child[Main] = NULL
    <2>1. \A t \in Threads : pc[t] = "done" => \E i \in DOMAIN threads : threads[i] = t
        BY <1>a, JoinedAll DEF Listed
    <2>2. \A t \in Threads : pc[t] \in {"unborn", "done"}
        BY <1>a, JoinedAll
    <2>3. child[Main] = NULL
        BY <1>a DEF IndInv, InvMain
    <2> QED BY <1>0, <1>a, <2>1, <2>2, <2>3
<1>c. Queued(tp') = {} /\ SoundTable(tp', priority') /\ Listed' = {} /\ p'[Main] = 1
    BY <1>0, <1>a, CreatedTable DEF DistrugeTP, Listed, so_end_free
<1>1. MutualExclusion'
    BY <1>0, <1>a, <1>b, <1>c DEF IndInv, MutualExclusion
<1>2. InvTable'
    BY <1>0, <1>a, <1>b, <1>c DEF IndInv, InvTable
<1>3. InvComplete'
    BY <1>0, <1>a, <1>b, <1>c DEF IndInv, InvComplete
<1>4. InvSemaphore'
    BY <1>0, <1>a, <1>b, <1>c DEF IndInv, InvSemaphore
<1>5. InvDevice'
    BY <1>0, <1>a, <1>b, <1>c DEF IndInv, InvDevice
<1>6. InvPrev'
    BY <1>0, <1>a, <1>b, <1>c DEF IndInv, InvPrev
<1>7. InvRoot'
    BY <1>0, <1>a, <1>b, <1>c DEF IndInv, InvRoot, RootOnly
<1>8. InvFork'
    BY <1>0, <1>a, <1>b, <1>c DEF IndInv, InvFork
<1>9. InvMain'
    BY <1>0, <1>a, <1>b, <1>c DEF IndInv, InvMain, RootOnly
<1>10. InvList'
    BY <1>0, <1>a, <1>b, <1>c DEF IndInv, InvList, Listed
<1>11. InvCurrent'
    BY <1>0, <1>a, <1>b, <1>c DEF IndInv, InvCurrent
<1> QED BY <1>1, <1>2, <1>3, <1>4, <1>5, <1>6, <1>7, <1>8, <1>9, <1>10, <1>11 DEF IndInv

(* A new thread enters the table; its parent is the current thread, or main. *)
LEMMA StepStart ==
    ASSUME IndInv, TypeOK', NEW t \in Threads, th_handler_start(t)
    PROVE  IndInv'
<1> USE DEF FreeLabels, RunningLabels, ForkLabels, CheckLabels, BlockedLabels
<1> USE DEF confVars, schedVars, threadVars, semVars, localVars
<1>0. /\ pc \in [Actors -> Labels] /\ child \in [Actors -> Threads \cup {NULL}]
      /\ p \in [Actors -> Positions] /\ args_sem \in [Threads -> Nat]
      /\ semaphore \in [Threads -> Nat] /\ priority \in [Threads -> Prios]
      /\ tp \in Tables /\ threads \in Seq(Threads)
      /\ Main \in Actors /\ Threads \subseteq Actors /\ Main \notin Threads /\ NULL \notin Actors
    BY ActorsAssumption DEF IndInv, TypeOK, Actors, Tables
<1>a. /\ pc[t] = "start" /\ pc' = [pc EXCEPT ![t] = "ready"]
      /\ pc'[t] = "ready" /\ \A a \in Actors : a # t => pc'[a] = pc[a]
      /\ pc'[Main] = pc[Main]
      /\ semaphore' = [semaphore EXCEPT ![t] = 0] /\ semaphore'[t] = 0
      /\ \A u \in Threads : u # t => semaphore'[u] = semaphore[u]
      /\ tp' = priority_table_insert(tp, t, priority[t]) /\ threads' = Append(threads, t)
    BY <1>0 DEF th_handler_start, Goto
<1>b. UNCHANGED <<confVars, current_thread, nr_threads, threadVars, args_sem, localVars>>
    BY DEF th_handler_start
<1>c. /\ t \notin Queued(tp) /\ Queued(tp) \subseteq Threads
      /\ Queued(tp') = Queued(tp) \cup {t} /\ SoundTable(tp', priority')
    <2>1. t \notin Queued(tp) /\ SoundTable(tp, priority)
        BY <1>a DEF IndInv, InvTable
    <2> QED BY <1>0, <1>a, <1>b, <2>1, InsertThread, QueuedThreads
<1>d. /\ current_thread # t
      /\ current_thread = NULL => RootOnly(t) /\ Queued(tp) = {}
      /\ \A u \in Threads : pc[u] \in {"claim", "popfirst"} => u = t
    <2>1. PICK a \in Actors : child[a] = t /\ pc[a] = "fork_wait"
        BY <1>a DEF IndInv, InvFork
    <2>2. CASE a = Main
        <3>1. RootOnly(t)
            BY <1>0, <2>1, <2>2 DEF IndInv, InvMain
        <3>2. current_thread # t
            BY <1>a DEF IndInv, InvCurrent
        <3>3. Queued(tp) = {}
            <4> SUFFICES ASSUME NEW u \in Queued(tp) PROVE FALSE
                OBVIOUS
            <4>1. u \in Threads /\ u # t /\ pc[u] = "unborn"
                BY <1>c, <3>1 DEF RootOnly
            <4> QED BY <4>1 DEF IndInv, InvTable
        <3> QED BY <3>1, <3>2, <3>3 DEF RootOnly
    <2>3. CASE a # Main
        <3>1. a \in Threads /\ current_thread = a
            BY <2>1, <2>3 DEF Actors, IndInv, MutualExclusion
        <3> QED BY <1>0, <1>a, <2>1, <3>1 DEF IndInv, InvRoot, RootOnly
    <2> QED BY <2>2, <2>3
<1>e. Listed' = Listed \cup {t}
    <2>1. /\ Len(threads) \in Nat /\ DOMAIN threads = 1 .. Len(threads)
          /\ DOMAIN threads' = 1 .. Len(threads) + 1
          /\ \A i \in DOMAIN threads : threads'[i] = threads[i]
          /\ threads'[Len(threads) + 1] = t
        BY <1>0, <1>a
    <2>2. Len(threads) + 1 \in DOMAIN threads'
        BY <2>1
    <2> QED BY <2>1, <2>2 DEF Listed
<1>f. pc'[Main] = "join" => \A i \in DOMAIN threads' : i < p'[Main] => pc'[threads'[i]] = "done"
    <2> SUFFICES ASSUME pc[Main] = "join", NEW i \in DOMAIN threads', i < p[Main]
                 PROVE  pc'[threads'[i]] = "done"
        BY <1>a, <1>b
    <2>1. \E u \in Threads : pc[u] \notin {"unborn", "done"}
        BY <1>a
    <2>2. p[Main] <= Len(threads)
        BY <1>0, <2>1, JoinedAll DEF Positions
    <2>3. i \in DOMAIN threads /\ threads'[i] = threads[i] /\ threads[i] \in Threads
        <3>1. /\ Len(threads) \in Nat /\ DOMAIN threads = 1 .. Len(threads)
              /\ DOMAIN threads' = 1 .. Len(threads) + 1
              /\ \A j \in DOMAIN threads : threads'[j] = threads[j] /\ threads[j] \in Threads
            BY <1>0, <1>a
        <3>2. p[Main] \in Nat
            BY <1>0 DEF Positions
        <3> QED BY <2>2, <3>1, <3>2
    <2>4. pc[threads[i]] = "done"
        BY <2>3 DEF IndInv, InvMain
    <2> QED BY <1>0, <1>a, <2>3, <2>4
<1>1. MutualExclusion'
    BY <1>0, <1>a, <1>b, <1>c, <1>d DEF IndInv, MutualExclusion
<1>2. InvTable'
    BY <1>0, <1>a, <1>b, <1>c, <1>d DEF IndInv, InvTable
<1>3. InvComplete'
    BY <1>0, <1>a, <1>b, <1>c, <1>d DEF IndInv, InvComplete
<1>4. InvSemaphore'
    BY <1>0, <1>a, <1>b, <1>c, <1>d DEF IndInv, InvSemaphore
<1>5. InvDevice'
    BY <1>0, <1>a, <1>b, <1>c, <1>d DEF IndInv, InvDevice
<1>6. InvPrev'
    BY <1>0, <1>a, <1>b, <1>c, <1>d DEF IndInv, InvPrev
<1>7. InvRoot'
    BY <1>0, <1>a, <1>b, <1>c, <1>d DEF IndInv, InvRoot, RootOnly
<1>8. InvFork'
    BY <1>0, <1>a, <1>b, <1>c, <1>d DEF IndInv, InvFork
<1>9. InvMain'
    BY <1>0, <1>a, <1>b, <1>c, <1>d, <1>f DEF IndInv, InvMain, RootOnly
<1>10. InvList'
    BY <1>0, <1>a, <1>b, <1>e DEF IndInv, InvList, Listed
<1>11. InvCurrent'
    BY <1>0, <1>a, <1>b, <1>e DEF IndInv, InvCurrent
<1> QED BY <1>1, <1>2, <1>3, <1>4, <1>5, <1>6, <1>7, <1>8, <1>9, <1>10, <1>11 DEF IndInv

(* The new thread tells its parent that it is in the table. *)
LEMMA StepReady ==
    ASSUME IndInv, TypeOK', NEW t \in Threads, th_handler_ready(t)
    PROVE  IndInv'
<1> USE DEF FreeLabels, RunningLabels, ForkLabels, CheckLabels, BlockedLabels
<1> USE DEF confVars, schedVars, threadVars, semVars, localVars
<1>0. /\ pc \in [Actors -> Labels] /\ child \in [Actors -> Threads \cup {NULL}]
      /\ p \in [Actors -> Positions] /\ args_sem \in [Threads -> Nat]
      /\ semaphore \in [Threads -> Nat] /\ priority \in [Threads -> Prios]
      /\ tp \in Tables /\ threads \in Seq(Threads)
      /\ Main \in Actors /\ Threads \subseteq Actors /\ Main \notin Threads /\ NULL \notin Actors
    BY ActorsAssumption DEF IndInv, TypeOK, Actors, Tables
<1>a. /\ pc[t] = "ready" /\ pc' = [pc EXCEPT ![t] = "first"]
      /\ pc'[t] = "first" /\ \A a \in Actors : a # t => pc'[a] = pc[a]
      /\ pc'[Main] = pc[Main]
      /\ \A u \in Threads : u # t => args_sem'[u] = args_sem[u]
    BY <1>0 DEF th_handler_ready, Goto
<1>b. UNCHANGED <<confVars, schedVars, priority, quantum_left, io_device, semaphore, localVars>>
    BY DEF th_handler_ready
<1>1. MutualExclusion'
    BY <1>0, <1>a, <1>b DEF IndInv, MutualExclusion
<1>2. InvTable'
    BY <1>0, <1>a, <1>b DEF IndInv, InvTable
<1>3. InvComplete'
    BY <1>0, <1>a, <1>b DEF IndInv, InvComplete
<1>4. InvSemaphore'
    BY <1>0, <1>a, <1>b DEF IndInv, InvSemaphore
<1>5. InvDevice'
    BY <1>0, <1>a, <1>b DEF IndInv, InvDevice
<1>6. InvPrev'
    BY <1>0, <1>a, <1>b DEF IndInv, InvPrev
<1>7. InvRoot'
    BY <1>0, <1>a, <1>b DEF IndInv, InvRoot, RootOnly
<1>8. InvFork'
    BY <1>0, <1>a, <1>b DEF IndInv, InvFork
<1>9. InvMain'
    BY <1>0, <1>a, <1>b DEF IndInv, InvMain, RootOnly
<1>10. InvList'
    BY <1>0, <1>a, <1>b DEF IndInv, InvList, Listed
<1>11. InvCurrent'
    BY <1>0, <1>a, <1>b DEF IndInv, InvCurrent
<1> QED BY <1>1, <1>2, <1>3, <1>4, <1>5, <1>6, <1>7, <1>8, <1>9, <1>10, <1>11 DEF IndInv

(* The new thread finds out whether it is the first one. *)
LEMMA StepFirst ==
    ASSUME IndInv, TypeOK', NEW t \in Threads, th_handler_first(t)
    PROVE  IndInv'
<1> USE DEF FreeLabels, RunningLabels, ForkLabels, CheckLabels, BlockedLabels
<1> USE DEF confVars, schedVars, threadVars, semVars, localVars
<1>0. /\ pc \in [Actors -> Labels] /\ child \in [Actors -> Threads \cup {NULL}]
      /\ p \in [Actors -> Positions] /\ args_sem \in [Threads -> Nat]
      /\ semaphore \in [Threads -> Nat] /\ priority \in [Threads -> Prios]
      /\ tp \in Tables /\ threads \in Seq(Threads)
      /\ Main \in Actors /\ Threads \subseteq Actors /\ Main \notin Threads /\ NULL \notin Actors
    BY ActorsAssumption DEF IndInv, TypeOK, Actors, Tables
<1>a. /\ pc[t] = "first"
      /\ pc' = [pc EXCEPT ![t] = IF current_thread = NULL THEN "claim" ELSE "sched_wait"]
      /\ pc'[t] = IF current_thread = NULL THEN "claim" ELSE "sched_wait"
      /\ \A a \in Actors : a # t => pc'[a] = pc[a]
      /\ pc'[Main] = pc[Main]
    BY <1>0 DEF th_handler_first, Goto
<1>b. UNCHANGED <<confVars, schedVars, threadVars, semVars, localVars>>
    BY DEF th_handler_first
<1>c. current_thread = NULL => t \in Queued(tp) /\ RootOnly(t)
    BY <1>0, <1>a DEF IndInv, InvComplete, InvRoot
<1>1. MutualExclusion'
    BY <1>0, <1>a, <1>b, <1>c DEF IndInv, MutualExclusion
<1>2. InvTable'
    BY <1>0, <1>a, <1>b, <1>c DEF IndInv, InvTable
<1>3. InvComplete'
    BY <1>0, <1>a, <1>b, <1>c DEF IndInv, InvComplete
<1>4. InvSemaphore'
    BY <1>0, <1>a, <1>b, <1>c DEF IndInv, InvSemaphore
<1>5. InvDevice'
    BY <1>0, <1>a, <1>b, <1>c DEF IndInv, InvDevice
<1>6. InvPrev'
    BY <1>0, <1>a, <1>b, <1>c DEF IndInv, InvPrev
<1>7. InvRoot'
    BY <1>0, <1>a, <1>b, <1>c DEF IndInv, InvRoot, RootOnly
<1>8. InvFork'
    BY <1>0, <1>a, <1>b, <1>c DEF IndInv, InvFork
<1>9. InvMain'
    BY <1>0, <1>a, <1>b, <1>c DEF IndInv, InvMain, RootOnly
<1>10. InvList'
    BY <1>0, <1>a, <1>b, <1>c DEF IndInv, InvList, Listed
<1>11. InvCurrent'
    BY <1>0, <1>a, <1>b, <1>c DEF IndInv, InvCurrent
<1> QED BY <1>1, <1>2, <1>3, <1>4, <1>5, <1>6, <1>7, <1>8, <1>9, <1>10, <1>11 DEF IndInv

(* The first thread makes itself current. *)
LEMMA StepClaim ==
    ASSUME IndInv, TypeOK', NEW t \in Threads, th_handler_claim(t)
    PROVE  IndInv'
<1> USE DEF FreeLabels, RunningLabels, ForkLabels, CheckLabels, BlockedLabels
<1> USE DEF confVars, schedVars, threadVars, semVars, localVars
<1>0. /\ pc \in [Actors -> Labels] /\ child \in [Actors -> Threads \cup {NULL}]
      /\ p \in [Actors -> Positions] /\ args_sem \in [Threads -> Nat]
      /\ semaphore \in [Threads -> Nat] /\ priority \in [Threads -> Prios]
      /\ tp \in Tables /\ threads \in Seq(Threads)
      /\ Main \in Actors /\ Threads \subseteq Actors /\ Main \notin Threads /\ NULL \notin Actors
    BY ActorsAssumption DEF IndInv, TypeOK, Actors, Tables
<1>a. /\ pc[t] = "claim" /\ pc' = [pc EXCEPT ![t] = "popfirst"] /\ current_thread' = t
      /\ pc'[t] = "popfirst" /\ \A a \in Actors : a # t => pc'[a] = pc[a]
      /\ pc'[Main] = pc[Main]
    BY <1>0 DEF th_handler_claim, Goto
<1>b. UNCHANGED <<confVars, tp, threads, nr_threads, threadVars, semVars, localVars>>
    BY DEF th_handler_claim
<1>c. /\ t \in Queued(tp) /\ RootOnly(t) /\ current_thread = NULL
      /\ \A u \in Threads : u # t => pc[u] = "unborn"
      /\ \A u \in Queued(tp) : u = t
    <2>1. t \in Queued(tp) /\ RootOnly(t) /\ current_thread = NULL
        BY <1>a DEF IndInv, InvRoot
    <2>2. \A u \in Queued(tp) : u \in Threads /\ pc[u] # "unborn"
        BY <1>0, QueuedThreads DEF IndInv, InvTable
    <2> QED BY <2>1, <2>2 DEF RootOnly
<1>1. MutualExclusion'
    BY <1>0, <1>a, <1>b, <1>c DEF IndInv, MutualExclusion
<1>2. InvTable'
    BY <1>0, <1>a, <1>b, <1>c DEF IndInv, InvTable
<1>3. InvComplete'
    BY <1>0, <1>a, <1>b, <1>c DEF IndInv, InvComplete
<1>4. InvSemaphore'
    BY <1>0, <1>a, <1>b, <1>c DEF IndInv, InvSemaphore
<1>5. InvDevice'
    BY <1>0, <1>a, <1>b, <1>c DEF IndInv, InvDevice
<1>6. InvPrev'
    BY <1>0, <1>a, <1>b, <1>c DEF IndInv, InvPrev
<1>7. InvRoot'
    BY <1>0, <1>a, <1>b, <1>c DEF IndInv, InvRoot, RootOnly
<1>8. InvFork'
    BY <1>0, <1>a, <1>b, <1>c DEF IndInv, InvFork
<1>9. InvMain'
    BY <1>0, <1>a, <1>b, <1>c DEF IndInv, InvMain, RootOnly
<1>10. InvList'
    BY <1>0, <1>a, <1>b, <1>c DEF IndInv, InvList, Listed
<1>11. InvCurrent'
    BY <1>0, <1>a, <1>b, <1>c DEF IndInv, InvCurrent
<1> QED BY <1>1, <1>2, <1>3, <1>4, <1>5, <1>6, <1>7, <1>8, <1>9, <1>10, <1>11 DEF IndInv

(* The first thread takes itself out of the table. *)
LEMMA StepPop ==
    ASSUME IndInv, TypeOK', NEW t \in Threads, th_handler_pop(t)
    PROVE  IndInv'
<1> USE DEF FreeLabels, RunningLabels, ForkLabels, CheckLabels, BlockedLabels
<1> USE DEF confVars, schedVars, threadVars, semVars, localVars
<1>0. /\ pc \in [Actors -> Labels] /\ child \in [Actors -> Threads \cup {NULL}]
      /\ p \in [Actors -> Positions] /\ args_sem \in [Threads -> Nat]
      /\ semaphore \in [Threads -> Nat] /\ priority \in [Threads -> Prios]
      /\ tp \in Tables /\ threads \in Seq(Threads)
      /\ Main \in Actors /\ Threads \subseteq Actors /\ Main \notin Threads /\ NULL \notin Actors
    BY ActorsAssumption DEF IndInv, TypeOK, Actors, Tables
<1>a. /\ pc[t] = "popfirst" /\ pc' = [pc EXCEPT ![t] = "go"] /\ get_head(tp) # NULL
      /\ pc'[t] = "go" /\ \A a \in Actors : a # t => pc'[a] = pc[a]
      /\ pc'[Main] = pc[Main]
      /\ tp' = priority_table_remove(tp, priority[get_head(tp)])
    BY <1>0 DEF th_handler_pop, Goto
<1>b. UNCHANGED <<confVars, current_thread, threads, nr_threads, threadVars, semVars, localVars>>
    BY DEF th_handler_pop
<1>c. /\ current_thread = t
      /\ \A u \in Threads : u # t => pc[u] = "unborn"
      /\ \A u \in Queued(tp) : u = t
    <2>1. RootOnly(t) /\ current_thread = t
        BY <1>a DEF IndInv, InvRoot, MutualExclusion, RunningLabels
    <2>2. \A u \in Queued(tp) : u \in Threads /\ pc[u] # "unborn"
        BY <1>0, QueuedThreads DEF IndInv, InvTable
    <2> QED BY <2>1, <2>2 DEF RootOnly
<1>d. Queued(tp') = {} /\ SoundTable(tp', priority')
    <2>1. SoundTable(tp, priority)
        BY DEF IndInv, InvTable
    <2>2. /\ get_head(tp) \in Queued(tp) /\ SoundTable(tp', priority)
          /\ Queued(tp') = Queued(tp) \ {get_head(tp)}
        BY <1>0, <1>a, <2>1, RemoveHead
    <2> QED BY <1>b, <1>c, <2>2
<1>1. MutualExclusion'
    BY <1>0, <1>a, <1>b, <1>c, <1>d DEF IndInv, MutualExclusion
<1>2. InvTable'
    BY <1>0, <1>a, <1>b, <1>c, <1>d DEF IndInv, InvTable
<1>3. InvComplete'
    BY <1>0, <1>a, <1>b, <1>c, <1>d DEF IndInv, InvComplete
<1>4. InvSemaphore'
    BY <1>0, <1>a, <1>b, <1>c, <1>d DEF IndInv, InvSemaphore
<1>5. InvDevice'
    BY <1>0, <1>a, <1>b, <1>c, <1>d DEF IndInv, InvDevice
<1>6. InvPrev'
    BY <1>0, <1>a, <1>b, <1>c, <1>d DEF IndInv, InvPrev
<1>7. InvRoot'
    BY <1>0, <1>a, <1>b, <1>c, <1>d DEF IndInv, InvRoot, RootOnly
<1>8. InvFork'
    BY <1>0, <1>a, <1>b, <1>c, <1>d DEF IndInv, InvFork
<1>9. InvMain'
    BY <1>0, <1>a, <1>b, <1>c, <1>d DEF IndInv, InvMain, RootOnly
<1>10. InvList'
    BY <1>0, <1>a, <1>b, <1>c, <1>d DEF IndInv, InvList, Listed
<1>11. InvCurrent'
    BY <1>0, <1>a, <1>b, <1>c, <1>d DEF IndInv, InvCurrent
<1> QED BY <1>1, <1>2, <1>3, <1>4, <1>5, <1>6, <1>7, <1>8, <1>9, <1>10, <1>11 DEF IndInv

(* A thread terminates. *)
LEMMA StepExit ==
    ASSUME IndInv, TypeOK', NEW t \in Threads, th_handler_exit(t)
    PROVE  IndInv'
<1> USE DEF FreeLabels, RunningLabels, ForkLabels, CheckLabels, BlockedLabels
<1> USE DEF confVars, schedVars, threadVars, semVars, localVars
<1>0. /\ pc \in [Actors -> Labels] /\ child \in [Actors -> Threads \cup {NULL}]
      /\ p \in [Actors -> Positions] /\ args_sem \in [Threads -> Nat]
      /\ semaphore \in [Threads -> Nat] /\ priority \in [Threads -> Prios]
      /\ tp \in Tables /\ threads \in Seq(Threads)
      /\ Main \in Actors /\ Threads \subseteq Actors /\ Main \notin Threads /\ NULL \notin Actors
    BY ActorsAssumption DEF IndInv, TypeOK, Actors, Tables
<1>a. /\ pc[t] = "exit" /\ pc' = [pc EXCEPT ![t] = "done"]
      /\ pc'[t] = "done" /\ \A a \in Actors : a # t => pc'[a] = pc[a]
      /\ pc'[Main] = pc[Main]
    BY <1>0 DEF th_handler_exit, Goto
<1>b. UNCHANGED <<confVars, schedVars, priority, quantum_left, io_device, semVars, localVars>>
    BY DEF th_handler_exit
<1>c. pc[Main] = "join" => \A i \in DOMAIN threads : i < p[Main] => pc'[threads[i]] = "done"
    <2>1. \A i \in DOMAIN threads : threads[i] \in Threads
        BY <1>0
    <2> QED BY <1>0, <1>a, <2>1 DEF IndInv, InvMain
<1>1. MutualExclusion'
    BY <1>0, <1>a, <1>b DEF IndInv, MutualExclusion
<1>2. InvTable'
    BY <1>0, <1>a, <1>b DEF IndInv, InvTable
<1>3. InvComplete'
    BY <1>0, <1>a, <1>b DEF IndInv, InvComplete
<1>4. InvSemaphore'
    BY <1>0, <1>a, <1>b DEF IndInv, InvSemaphore
<1>5. InvDevice'
    BY <1>0, <1>a, <1>b DEF IndInv, InvDevice
<1>6. InvPrev'
    BY <1>0, <1>a, <1>b DEF IndInv, InvPrev
<1>7. InvRoot'
    BY <1>0, <1>a, <1>b DEF IndInv, InvRoot, RootOnly
<1>8. InvFork'
    BY <1>0, <1>a, <1>b DEF IndInv, InvFork
<1>9. InvMain'
    BY <1>0, <1>a, <1>b, <1>c DEF IndInv, InvMain, RootOnly
<1>10. InvList'
    BY <1>0, <1>a, <1>b DEF IndInv, InvList, Listed
<1>11. InvCurrent'
    BY <1>0, <1>a, <1>b DEF IndInv, InvCurrent
<1> QED BY <1>1, <1>2, <1>3, <1>4, <1>5, <1>6, <1>7, <1>8, <1>9, <1>10, <1>11 DEF IndInv

(* The running thread is about to wait for a device. *)
LEMMA StepWait ==
    ASSUME IndInv, TypeOK', NEW t \in Threads, NEW dev \in IoIds, so_wait(t, dev)
    PROVE  IndInv'
<1> USE DEF FreeLabels, RunningLabels, ForkLabels, CheckLabels, BlockedLabels
<1> USE DEF confVars, schedVars, threadVars, semVars, localVars
<1>0. /\ pc \in [Actors -> Labels] /\ child \in [Actors -> Threads \cup {NULL}]
      /\ p \in [Actors -> Positions] /\ args_sem \in [Threads -> Nat]
      /\ semaphore \in [Threads -> Nat] /\ priority \in [Threads -> Prios]
      /\ tp \in Tables /\ threads \in Seq(Threads)
      /\ Main \in Actors /\ Threads \subseteq Actors /\ Main \notin Threads /\ NULL \notin Actors
    BY ActorsAssumption DEF IndInv, TypeOK, Actors, Tables
<1>a. /\ pc[t] = "user" /\ current_thread = t /\ pc' = [pc EXCEPT ![t] = "wait_get"]
      /\ pc'[t] = "wait_get" /\ \A a \in Actors : a # t => pc'[a] = pc[a]
      /\ pc'[Main] = pc[Main]
      /\ io_device' = [io_device EXCEPT ![t] = dev] /\ io_device'[t] = dev
      /\ \A u \in Threads : u # t => io_device'[u] = io_device[u]
      /\ prev' = [prev EXCEPT ![t] = t] /\ prev'[t] = t
      /\ \A a \in Actors : a # t => prev'[a] = prev[a]
    <2>1. pc[t] = "user" /\ current_thread = t
        BY DEF so_wait, IndInv, MutualExclusion, RunningLabels
    <2> QED BY <1>0, <2>1 DEF so_wait, Goto, IndInv, TypeOK
<1>b. UNCHANGED <<confVars, schedVars, priority, semVars, child, expired, io, p>>
    BY DEF so_wait
<1>c. dev # NoIo /\ dev < io_dev
    <2>1. io_dev # 0 /\ io_dev \in Uint /\ dev \in Uint /\ ~(dev > io_dev - 1)
        BY <1>0, <1>a, UintAssumption DEF so_wait, NoSuchDevice, UintDec, IndInv, InvMain, TypeOK
    <2> QED BY <2>1, UintAssumption DEF Uint, NoIo
<1>d. \A u \in Queued(tp) : u \in Threads /\ pc[u] \in BlockedLabels /\ u # t
    BY <1>a, RunningAndQueued
<1>1. MutualExclusion'
    BY <1>0, <1>a, <1>b, <1>c, <1>d DEF IndInv, MutualExclusion
<1>2. InvTable'
    BY <1>0, <1>a, <1>b, <1>c, <1>d DEF IndInv, InvTable
<1>3. InvComplete'
    BY <1>0, <1>a, <1>b, <1>c, <1>d DEF IndInv, InvComplete
<1>4. InvSemaphore'
    BY <1>0, <1>a, <1>b, <1>c, <1>d DEF IndInv, InvSemaphore
<1>5. InvDevice'
    BY <1>0, <1>a, <1>b, <1>c, <1>d DEF IndInv, InvDevice
<1>6. InvPrev'
    BY <1>0, <1>a, <1>b, <1>c, <1>d DEF IndInv, InvPrev
<1>7. InvRoot'
    BY <1>0, <1>a, <1>b, <1>c, <1>d DEF IndInv, InvRoot, RootOnly
<1>8. InvFork'
    BY <1>0, <1>a, <1>b, <1>c, <1>d DEF IndInv, InvFork
<1>9. InvMain'
    BY <1>0, <1>a, <1>b, <1>c, <1>d DEF IndInv, InvMain, RootOnly
<1>10. InvList'
    BY <1>0, <1>a, <1>b, <1>c, <1>d DEF IndInv, InvList, Listed
<1>11. InvCurrent'
    BY <1>0, <1>a, <1>b, <1>c, <1>d DEF IndInv, InvCurrent
<1> QED BY <1>1, <1>2, <1>3, <1>4, <1>5, <1>6, <1>7, <1>8, <1>9, <1>10, <1>11 DEF IndInv

(* so_signal passes over a thread of the list. *)
LEMMA StepSignalWalk ==
    ASSUME IndInv, TypeOK', NEW t \in Threads, so_signal_walk(t)
    PROVE  IndInv'
<1> USE DEF FreeLabels, RunningLabels, ForkLabels, CheckLabels, BlockedLabels
<1> USE DEF confVars, schedVars, threadVars, semVars, localVars
<1>0. /\ pc \in [Actors -> Labels] /\ child \in [Actors -> Threads \cup {NULL}]
      /\ p \in [Actors -> Positions] /\ args_sem \in [Threads -> Nat]
      /\ semaphore \in [Threads -> Nat] /\ priority \in [Threads -> Prios]
      /\ tp \in Tables /\ threads \in Seq(Threads)
      /\ Main \in Actors /\ Threads \subseteq Actors /\ Main \notin Threads /\ NULL \notin Actors
    BY ActorsAssumption DEF IndInv, TypeOK, Actors, Tables
<1> DEFINE th == threads[p[t]]
<1>a. /\ pc[t] = "signal" /\ current_thread = t /\ th \in Threads /\ pc' = pc
      /\ p' = [p EXCEPT ![t] = @ + 1] /\ p'[Main] = p[Main]
    BY <1>0 DEF so_signal_walk, IndInv, MutualExclusion, Positions
<1>b. UNCHANGED <<confVars, current_thread, threads, nr_threads, priority,
                   quantum_left, th_state, semVars, child, prev, expired, io, pc>>
    BY DEF so_signal_walk
<1> HIDE DEF th
<1>c. CASE WaitsFor(th, io[t])
    <2>a. /\ io_device' = [io_device EXCEPT ![th] = NoIo]
          /\ tp' = priority_table_insert(tp, th, priority[th])
        BY <1>c DEF so_signal_walk, th
    <2>b. /\ io_device'[th] = NoIo /\ \A u \in Threads : u # th => io_device'[u] = io_device[u]
          /\ io_device[th] # NoIo /\ io_device[th] < io_dev
        BY <1>a, <1>c, <2>a DEF WaitsFor, IndInv, TypeOK, InvDevice
    <2>c. pc[th] = "wait_sem" /\ th # t /\ th \notin Queued(tp)
        BY <1>a, <2>b DEF IndInv, InvDevice, MutualExclusion
    <2>d. Queued(tp') = Queued(tp) \cup {th} /\ SoundTable(tp', priority')
        <3>1. SoundTable(tp, priority)
            BY DEF IndInv, InvTable
        <3> QED BY <1>0, <1>a, <1>b, <2>a, <2>c, <3>1, InsertThread
    <2>e. \A u \in Queued(tp) : u \in Threads /\ pc[u] \in BlockedLabels /\ u # t
        BY <1>a, RunningAndQueued
    <2>1. MutualExclusion'
        BY <1>0, <1>a, <1>b, <2>b, <2>c, <2>d, <2>e DEF IndInv, MutualExclusion
    <2>2. InvTable'
        BY <1>0, <1>a, <1>b, <2>b, <2>c, <2>d, <2>e DEF IndInv, InvTable
    <2>3. InvComplete'
        BY <1>0, <1>a, <1>b, <2>b, <2>c, <2>d, <2>e DEF IndInv, InvComplete
    <2>4. InvSemaphore'
        BY <1>0, <1>a, <1>b, <2>b, <2>c, <2>d, <2>e DEF IndInv, InvSemaphore
    <2>5. InvDevice'
        BY <1>0, <1>a, <1>b, <2>b, <2>c, <2>d, <2>e DEF IndInv, InvDevice
    <2>6. InvPrev'
        BY <1>0, <1>a, <1>b, <2>b, <2>c, <2>d, <2>e DEF IndInv, InvPrev
    <2>7. InvRoot'
        BY <1>0, <1>a, <1>b, <2>b, <2>c, <2>d, <2>e DEF IndInv, InvRoot, RootOnly
    <2>8. InvFork'
        BY <1>0, <1>a, <1>b, <2>b, <2>c, <2>d, <2>e DEF IndInv, InvFork
    <2>9. InvMain'
        BY <1>0, <1>a, <1>b, <2>b, <2>c, <2>d, <2>e DEF IndInv, InvMain, RootOnly
    <2>10. InvList'
        BY <1>0, <1>a, <1>b, <2>b, <2>c, <2>d, <2>e DEF IndInv, InvList, Listed
    <2>11. InvCurrent'
        BY <1>0, <1>a, <1>b, <2>b, <2>c, <2>d, <2>e DEF IndInv, InvCurrent
    <2> QED BY <2>1, <2>2, <2>3, <2>4, <2>5, <2>6, <2>7, <2>8, <2>9, <2>10, <2>11 DEF IndInv
<1>d. CASE ~WaitsFor(th, io[t])
    <2>a. io_device' = io_device /\ tp' = tp
        BY <1>d DEF so_signal_walk, th
    <2>1. MutualExclusion'
        BY <1>0, <1>a, <1>b, <2>a DEF IndInv, MutualExclusion
    <2>2. InvTable'
        BY <1>0, <1>a, <1>b, <2>a DEF IndInv, InvTable
    <2>3. InvComplete'
        BY <1>0, <1>a, <1>b, <2>a DEF IndInv, InvComplete
    <2>4. InvSemaphore'
        BY <1>0, <1>a, <1>b, <2>a DEF IndInv, InvSemaphore
    <2>5. InvDevice'
        BY <1>0, <1>a, <1>b, <2>a DEF IndInv, InvDevice
    <2>6. InvPrev'
        BY <1>0, <1>a, <1>b, <2>a DEF IndInv, InvPrev
    <2>7. InvRoot'
        BY <1>0, <1>a, <1>b, <2>a DEF IndInv, InvRoot, RootOnly
    <2>8. InvFork'
        BY <1>0, <1>a, <1>b, <2>a DEF IndInv, InvFork
    <2>9. InvMain'
        BY <1>0, <1>a, <1>b, <2>a DEF IndInv, InvMain, RootOnly
    <2>10. InvList'
        BY <1>0, <1>a, <1>b, <2>a DEF IndInv, InvList, Listed
    <2>11. InvCurrent'
        BY <1>0, <1>a, <1>b, <2>a DEF IndInv, InvCurrent
    <2> QED BY <2>1, <2>2, <2>3, <2>4, <2>5, <2>6, <2>7, <2>8, <2>9, <2>10, <2>11 DEF IndInv
<1> QED BY <1>c, <1>d

(* The actions by which a running thread moves without a change of place. *)
FreeStep(t) ==
    \/ so_fork_check(t) \/ so_fork_return(t)
    \/ check_scheduler(t) \/ check_scheduler_locked(t) \/ compare_priorities(t)
    \/ so_exec(t) \/ th_handler_run(t) \/ so_signal_schedule(t)
    \/ \E dev \in IoIds : so_signal(t, dev)
    \/ compare_priorities_locked(t) /\ ~Preempts(get_head(tp), current_thread, expired[t])

(* A running thread moves inside the library or calls it.                  *)
LEMMA StepFreeMove ==
    ASSUME IndInv, TypeOK', NEW t \in Threads, FreeStep(t)
    PROVE  IndInv'
<1> USE DEF confVars, schedVars, threadVars, semVars, localVars
<1>0. /\ pc \in [Actors -> Labels] /\ child \in [Actors -> Threads \cup {NULL}]
      /\ tp \in Tables /\ Main \in Actors /\ t \in Actors /\ Main # t
    BY ActorsAssumption DEF IndInv, TypeOK, Actors, Tables
<1> DEFINE Kept == UNCHANGED <<current_thread, tp, threads, nr_threads, initOnce, io_dev,
                               rootForks, priority, io_device, semaphore, args_sem, prev>>
           MovesTo(l) ==
             /\ pc[t] \in FreeLabels /\ l \in FreeLabels
             /\ pc' = [pc EXCEPT ![t] = l]
             /\ child' = child \/ child' = [child EXCEPT ![t] = NULL]
             /\ \A a \in Actors : a # t => io'[a] = io[a]
             /\ p'[Main] = p[Main]
             /\ l = "cmp_locked" => Queued(tp) # {}
             /\ l \in ForkLabels => child'[t] # NULL
             /\ l = "signal" => io'[t] # NoIo
<1>1. Kept
    BY DEF FreeStep, so_fork_check, so_fork_return, check_scheduler, check_scheduler_locked,
           compare_priorities, so_exec, th_handler_run, so_signal_schedule, so_signal,
           compare_priorities_locked
<1>r. ASSUME Return(t), pc[t] \in FreeLabels, UNCHANGED <<child, io, p>>
      PROVE  \E l \in {"user", "fork_destroy"} : MovesTo(l)
    <2>1. CASE child[t] = NULL
        <3>1. MovesTo("user")
            BY <1>0, <1>r, <2>1 DEF Return, Goto, FreeLabels, RunningLabels, ForkLabels
        <3> QED BY <3>1
    <2>2. CASE child[t] # NULL
        <3>1. MovesTo("fork_destroy")
            BY <1>0, <1>r, <2>2 DEF Return, Goto, FreeLabels, RunningLabels, ForkLabels
        <3> QED BY <3>1
    <2> QED BY <2>1, <2>2
<1>2. \E l \in FreeLabels : MovesTo(l)
    <2> USE DEF FreeLabels, RunningLabels, ForkLabels, CheckLabels, Goto
    <2>1. CASE so_fork_check(t)
        <3>1. child[t] # NULL
            BY <1>0, <2>1 DEF so_fork_check, IndInv, InvFork
        <3>2. MovesTo("chk") \/ MovesTo("fork_destroy")
            BY <2>1, <3>1 DEF so_fork_check
        <3> QED BY <3>2
    <2>2. CASE so_fork_return(t)
        <3>1. MovesTo("user")
            BY <1>0, <2>2 DEF so_fork_return
        <3> QED BY <3>1
    <2>3. CASE check_scheduler(t)
        <3>1. CASE current_thread = NULL
            BY <1>r, <2>3, <3>1 DEF check_scheduler
        <3>2. CASE current_thread # NULL
            <4>1. MovesTo("chk_locked")
                BY <2>3, <3>2 DEF check_scheduler
            <4> QED BY <4>1
        <3> QED BY <3>1, <3>2
    <2>4. CASE check_scheduler_locked(t)
        <3>1. CASE NotFirstThread
            <4>1. MovesTo("cmp")
                BY <2>4, <3>1 DEF check_scheduler_locked
            <4> QED BY <4>1
        <3>2. CASE ~NotFirstThread
            BY <1>r, <2>4, <3>2 DEF check_scheduler_locked
        <3> QED BY <3>1, <3>2
    <2>5. CASE compare_priorities(t)
        <3>1. CASE get_head(tp) = NULL \/ current_thread = NULL
            BY <1>r, <2>5, <3>1 DEF compare_priorities
        <3>2. CASE get_head(tp) # NULL /\ current_thread # NULL
            <4>1. PICK q \in Prios : tp[q] # <<>>
                BY <1>0, <3>2, GetHead DEF IsEmptyTable
            <4>2. tp[q][1] \in Queued(tp)
                BY <1>0, <4>1, QueuedMember DEF Tables
            <4>3. MovesTo("cmp_locked")
                BY <2>5, <3>2, <4>2 DEF compare_priorities
            <4> QED BY <4>3
        <3> QED BY <3>1, <3>2
    <2>6. CASE so_exec(t)
        <3>1. MovesTo("chk")
            BY <2>6 DEF so_exec
        <3> QED BY <3>1
    <2>7. CASE th_handler_run(t)
        <3>1. MovesTo("user")
            BY <2>7 DEF th_handler_run
        <3> QED BY <3>1
    <2>8. CASE so_signal_schedule(t)
        <3>1. MovesTo("cmp")
            BY <1>0, <2>8 DEF so_signal_schedule, IndInv, TypeOK
        <3> QED BY <3>1
    <2>9. ASSUME NEW dev \in IoIds, so_signal(t, dev)
          PROVE  \E l \in FreeLabels : MovesTo(l)
        <3>1. initOnce /\ io_dev # 0
            BY <1>0, <2>9 DEF so_signal, IndInv, InvMain
        <3>2. io_dev \in Uint /\ dev \in Uint /\ ~(dev > io_dev - 1)
            BY <2>9, <3>1, UintAssumption DEF so_signal, NoSuchDevice, UintDec, IndInv, TypeOK
        <3>3. dev # NoIo
            BY <3>2, UintAssumption DEF Uint, NoIo
        <3>4. io' = [io EXCEPT ![t] = dev] /\ p' = [p EXCEPT ![t] = 1]
              /\ io \in [Actors -> Uint] /\ p \in [Actors -> Positions]
            BY <2>9 DEF so_signal, IndInv, TypeOK
        <3>5. MovesTo("signal")
            BY <1>0, <2>9, <3>3, <3>4 DEF so_signal
        <3> QED BY <3>5
    <2>10. CASE /\ compare_priorities_locked(t)
                /\ ~Preempts(get_head(tp), current_thread, expired[t])
        BY <1>r, <2>10 DEF compare_priorities_locked
    <2> QED BY <2>1, <2>2, <2>3, <2>4, <2>5, <2>6, <2>7, <2>8, <2>9, <2>10 DEF FreeStep
<1>3. PICK l \in FreeLabels : MovesTo(l)
    BY <1>2
<1> HIDE DEF confVars, schedVars, threadVars, semVars, localVars
<1> QED BY <1>1, <1>3, RunningMove

(* Main moves inside so_fork: nr_threads is 1, so it leaves check_scheduler. *)
LEMMA StepMainMove ==
    ASSUME IndInv, TypeOK',
           \/ so_fork_check(Main) \/ so_fork_return(Main)
           \/ check_scheduler(Main) \/ check_scheduler_locked(Main)
    PROVE  IndInv'
<1> USE DEF ForkLabels, Goto
<1>0. /\ Main \in Actors /\ child \in [Actors -> Threads \cup {NULL}] /\ nr_threads \in Nat
    BY DEF Actors, IndInv, TypeOK
<1> DEFINE MovesTo(l) ==
             /\ pc' = [pc EXCEPT ![Main] = l]
             /\ child' = IF l = "user" THEN [child EXCEPT ![Main] = NULL] ELSE child
<1>1. /\ pc[Main] \in {"fork_chk", "chk", "chk_locked", "fork_destroy"}
      /\ child[Main] # NULL /\ nr_threads = 1
    <2>1. pc[Main] \in {"fork_chk", "chk", "chk_locked", "fork_destroy"}
        BY DEF so_fork_check, so_fork_return, check_scheduler, check_scheduler_locked
    <2> QED BY <1>0, <2>1 DEF IndInv, InvFork, InvMain
<1>2. ~NotFirstThread
    BY <1>1 DEF NotFirstThread
<1>3. UNCHANGED <<confVars, schedVars, threadVars, semVars, prev, io, p>>
    BY <1>2 DEF so_fork_check, so_fork_return, check_scheduler, check_scheduler_locked,
                localVars, threadVars
<1>4. UNCHANGED expired
    BY <1>2 DEF so_fork_check, so_fork_return, check_scheduler, check_scheduler_locked, localVars
<1>5. \E l \in {"chk", "chk_locked", "fork_destroy", "user"} : MovesTo(l)
    <2>1. CASE so_fork_check(Main)
        <3>1. MovesTo("chk") \/ MovesTo("fork_destroy")
            BY <2>1 DEF so_fork_check, localVars
        <3> QED BY <3>1
    <2>2. CASE so_fork_return(Main)
        <3>1. MovesTo("user")
            BY <2>2 DEF so_fork_return
        <3> QED BY <3>1
    <2>3. CASE check_scheduler(Main)
        <3>1. MovesTo("chk_locked") \/ MovesTo("fork_destroy")
            BY <1>1, <2>3 DEF check_scheduler, Return, localVars
        <3> QED BY <3>1
    <2>4. CASE check_scheduler_locked(Main)
        <3>1. MovesTo("fork_destroy")
            BY <1>1, <1>2, <2>4 DEF check_scheduler_locked, Return
        <3> QED BY <3>1
    <2> QED BY <2>1, <2>2, <2>3, <2>4
<1>6. PICK l \in {"chk", "chk_locked", "fork_destroy", "user"} : MovesTo(l)
    BY <1>5
<1> QED BY <1>1, <1>3, <1>4, <1>6, MainMove

(* A thread passes sem_wait, on its own semaphore. *)
LEMMA StepResume ==
    ASSUME IndInv, TypeOK', NEW t \in Threads,
           th_handler_wait(t) \/ compare_priorities_wait(t) \/ so_wait_block(t)
    PROVE  IndInv'
<1> USE DEF sem_wait, Goto
<1>1. CASE th_handler_wait(t)
    BY <1>1, Resume DEF th_handler_wait
<1>2. CASE compare_priorities_wait(t)
    <2>1. prev[t] = t
        BY <1>2 DEF compare_priorities_wait, IndInv, InvPrev
    <2>2. CASE child[t] = NULL
        BY <1>2, <2>1, <2>2, Resume DEF compare_priorities_wait, Return
    <2>3. CASE child[t] # NULL
        BY <1>2, <2>1, <2>3, Resume DEF compare_priorities_wait, Return
    <2> QED BY <2>2, <2>3
<1>3. CASE so_wait_block(t)
    <2>1. prev[t] = t
        BY <1>3 DEF so_wait_block, IndInv, InvPrev
    <2> QED BY <1>3, <2>1, Resume DEF so_wait_block
<1> QED BY <1>1, <1>2, <1>3

(* A thread calls get_thread_from_queue. *)
LEMMA StepRelease ==
    ASSUME IndInv, TypeOK', NEW t \in Threads,
           th_handler_return(t) \/ so_wait_schedule(t)
    PROVE  IndInv'
<1>1. CASE th_handler_return(t)
    <2>1. /\ pc[t] = "user" /\ get_thread_from_queue /\ pc' = [pc EXCEPT ![t] = "exit"]
          /\ UNCHANGED <<confVars, threads, nr_threads, threadVars, args_sem, localVars>>
        BY <1>1 DEF th_handler_return, Goto
    <2> QED BY <2>1, Release
<1>2. CASE so_wait_schedule(t)
    BY <1>2, Release DEF so_wait_schedule, Goto
<1> QED BY <1>1, <1>2

(* At first no thread exists. *)
LEMMA IndInit == SingleRoot /\ Init => IndInv
<1> SUFFICES ASSUME SingleRoot, Init PROVE IndInv
    OBVIOUS
<1> USE DEF RunningLabels, ForkLabels, CheckLabels, BlockedLabels
<1>0. /\ Main \in Actors /\ Threads \subseteq Actors /\ Main \notin Threads /\ NULL \notin Actors
    BY ActorsAssumption DEF Actors
<1>1. TypeOK
    BY TypeInit
<1>2. /\ \A t \in Threads : pc[t] = "unborn" /\ io_device[t] = NoIo /\ semaphore[t] = 0
      /\ pc[Main] = "user" /\ \A a \in Actors : child[a] = NULL
      /\ current_thread = NULL /\ threads = <<>> /\ ~initOnce
      /\ pc \in [Actors -> Labels] /\ rootForks = 0
    BY <1>0, <1>1 DEF Init, TypeOK
<1>3. tp = priority_table_create /\ Queued(tp) = {} /\ SoundTable(tp, priority)
    BY <1>0, CreatedTable DEF Init
<1>4. MutualExclusion
    BY <1>2 DEF MutualExclusion
<1>5. InvTable
    BY <1>3 DEF InvTable
<1>6. InvComplete
    BY <1>2 DEF InvComplete
<1>7. InvSemaphore
    BY <1>2 DEF InvSemaphore
<1>8. InvDevice
    BY <1>2 DEF InvDevice
<1>9. InvPrev
    BY <1>2 DEF InvPrev
<1>10. InvRoot
    BY <1>2, <1>3 DEF InvRoot
<1>11. InvFork
    BY <1>0, <1>2 DEF InvFork, Actors
<1>12. InvMain
    BY <1>0, <1>2 DEF InvMain
<1>13. InvList
    BY <1>2 DEF InvList, Listed
<1>14. InvCurrent
    BY <1>0, <1>2 DEF InvCurrent
<1> QED BY <1>1, <1>4, <1>5, <1>6, <1>7, <1>8, <1>9, <1>10, <1>11, <1>12, <1>13, <1>14 DEF IndInv

(* Every step of the scheduler preserves the invariant. *)
LEMMA IndStep == SingleRoot /\ IndInv /\ [Next]_vars => IndInv'
<1> SUFFICES ASSUME SingleRoot, IndInv, [Next]_vars PROVE IndInv'
    OBVIOUS
<1>0. TypeOK'
    BY TypeStep DEF IndInv
<1>m. /\ pc[Main] \in {"user", "fork_wait", "fork_chk", "chk", "chk_locked", "fork_destroy", "join"}
      /\ \A t \in Threads : pc[t] # "join"
    BY DEF IndInv, InvMain, InvCurrent
<1>1. CASE MainCall
    BY <1>0, <1>1, StepInit, StepEnd DEF MainCall
<1>2. ASSUME NEW a \in Actors, ForkCall(a) PROVE IndInv'
    <2>1. ASSUME NEW prio \in ForkPrios, so_fork_error(a, prio) PROVE IndInv'
        BY <1>0, <2>1, StepForkError
    <2>2. ASSUME NEW prio \in ForkPrios, NEW t \in Threads, so_fork(a, t, prio) PROVE IndInv'
        <3>1. CASE a = Main
            BY <1>0, <2>2, <3>1, StepForkMain
        <3>2. CASE a \in Threads
            BY <1>0, <2>2, <3>2, StepFork
        <3> QED BY <3>1, <3>2 DEF Actors
    <2> QED BY <1>2, <2>1, <2>2 DEF ForkCall
<1>3. ASSUME LibraryStep(Main) PROVE IndInv'
    <2>1. CASE so_fork_wait(Main)
        BY <1>0, <2>1, StepForkWait DEF Actors
    <2>2. CASE so_fork_check(Main) \/ so_fork_return(Main)
               \/ check_scheduler(Main) \/ check_scheduler_locked(Main)
        BY <1>0, <2>2, StepMainMove
    <2>3. CASE compare_priorities(Main) \/ compare_priorities_locked(Main)
               \/ compare_priorities_wait(Main)
        BY <1>m, <2>3 DEF compare_priorities, compare_priorities_locked, compare_priorities_wait
    <2>4. CASE so_end_join(Main)
        BY <1>0, <2>4, StepJoin
    <2>5. CASE so_end_free(Main)
        BY <1>0, <2>5, StepFree
    <2> QED BY <1>3, <2>1, <2>2, <2>3, <2>4, <2>5 DEF LibraryStep
<1>4. ASSUME NEW t \in Threads, LibraryStep(t) PROVE IndInv'
    <2>1. CASE so_fork_wait(t)
        BY <1>0, <2>1, StepForkWait DEF Actors
    <2>2. CASE so_fork_check(t) \/ so_fork_return(t)
               \/ check_scheduler(t) \/ check_scheduler_locked(t) \/ compare_priorities(t)
        BY <1>0, <2>2, StepFreeMove DEF FreeStep
    <2>3. CASE compare_priorities_locked(t)
        BY <1>0, <2>3, StepFreeMove, StepCompareLocked DEF FreeStep
    <2>4. CASE compare_priorities_wait(t)
        BY <1>0, <2>4, StepResume
    <2>5. CASE so_end_join(t) \/ so_end_free(t)
        BY <1>m, <2>5 DEF so_end_join, so_end_free
    <2> QED BY <1>4, <2>1, <2>2, <2>3, <2>4, <2>5 DEF LibraryStep
<1>5. ASSUME NEW t \in Threads, ThreadStep(t) PROVE IndInv'
    <2>1. CASE th_handler_start(t) \/ th_handler_ready(t) \/ th_handler_first(t)
               \/ th_handler_claim(t) \/ th_handler_pop(t) \/ th_handler_exit(t)
        BY <1>0, <2>1, StepStart, StepReady, StepFirst, StepClaim, StepPop, StepExit
    <2>2. CASE th_handler_wait(t) \/ so_wait_block(t)
        BY <1>0, <2>2, StepResume
    <2>3. CASE th_handler_run(t) \/ so_signal_schedule(t)
        BY <1>0, <2>3, StepFreeMove DEF FreeStep
    <2>4. CASE so_wait_schedule(t)
        BY <1>0, <2>4, StepRelease
    <2>5. CASE so_signal_walk(t)
        BY <1>0, <2>5, StepSignalWalk
    <2> QED BY <1>5, <2>1, <2>2, <2>3, <2>4, <2>5 DEF ThreadStep
<1>6. ASSUME NEW t \in Threads, HandlerCall(t) PROVE IndInv'
    BY <1>0, <1>6, StepFreeMove, StepWait DEF HandlerCall, FreeStep
<1>7. ASSUME NEW t \in Threads, th_handler_return(t) PROVE IndInv'
    BY <1>0, <1>7, StepRelease
<1>8. CASE UNCHANGED vars
    BY <1>8 DEF IndInv, TypeOK, MutualExclusion, InvTable, InvComplete, InvSemaphore, InvDevice,
                InvPrev, InvRoot, RootOnly, InvFork, InvMain, InvList, Listed, InvCurrent, vars, confVars, schedVars,
                threadVars, semVars, localVars
<1> QED BY <1>1, <1>2, <1>3, <1>4, <1>5, <1>6, <1>7, <1>8 DEF Next, Actors

(* A thread's cells in a sound table: one if it is queued, else none. *)
LEMMA CellsOf ==
    ASSUME IndInv, NEW t \in Threads
    PROVE  /\ t \notin Queued(tp) => Cells(t) = {}
           /\ t \in Queued(tp) =>
                \E i \in DOMAIN tp[priority[t]] : Cells(t) = {<<priority[t], i>>}
<1>0. tp \in Tables /\ priority \in [Threads -> Prios] /\ SoundTable(tp, priority)
    BY DEF IndInv, TypeOK, Tables, InvTable
<1>1. \A q \in Prios : \A i \in DOMAIN tp[q] : tp[q][i] = t => t \in Queued(tp)
    BY DEF Queued
<1>2. ASSUME t \notin Queued(tp) PROVE Cells(t) = {}
    BY <1>1, <1>2 DEF Cells
<1>3. ASSUME t \in Queued(tp)
      PROVE  \E i \in DOMAIN tp[priority[t]] : Cells(t) = {<<priority[t], i>>}
    <2>1. PICK q \in Prios : \E i \in DOMAIN tp[q] : t = tp[q][i]
        BY <1>0, <1>3, QueuedMember
    <2>2. PICK i \in DOMAIN tp[q] : t = tp[q][i]
        BY <2>1
    <2>3. q = priority[t]
        BY <1>0, <2>2 DEF SoundTable
    <2>4. \A r \in Prios : \A j \in DOMAIN tp[r] : tp[r][j] = t => r = q /\ j = i
        BY <1>0, <2>2, <2>3 DEF SoundTable
    <2>5. Cells(t) = {<<q, i>>}
        <3>1. {j \in DOMAIN tp[q] : tp[q][j] = t} = {i}
            BY <2>2, <2>4
        <3>2. \A r \in Prios : r # q => {j \in DOMAIN tp[r] : tp[r][j] = t} = {}
            BY <2>4
        <3> QED BY <3>1, <3>2 DEF Cells
    <2> QED BY <2>2, <2>3, <2>5
<1> QED BY <1>2, <1>3

(* The safety properties follow from the invariant. *)
LEMMA Wakeups == IndInv => NoStrayWakeup
<1> SUFFICES ASSUME IndInv, NEW t \in Threads, semaphore[t] > 0
             PROVE  semaphore[t] = 1 /\ current_thread = t /\ pc[t] \notin RunningLabels
    BY DEF NoStrayWakeup
<1>1. current_thread = t /\ pc[t] \in BlockedLabels /\ semaphore[t] = 1
    BY DEF IndInv, InvSemaphore
<1> QED BY <1>1 DEF BlockedLabels, RunningLabels, ForkLabels, CheckLabels

(* InvTable, InvComplete and InvDevice place every live thread. *)
LEMMA Places == IndInv => NoThreadLost
<1> SUFFICES ASSUME IndInv, NEW t \in Threads,
                    pc[t] \notin {"unborn", "start", "popfirst", "exit", "done"}
             PROVE  InOnePlace(t)
    BY DEF NoThreadLost
<1>1. CASE current_thread = t
    <2>1. t \notin Queued(tp)
        BY <1>1 DEF IndInv, InvTable
    <2>2. ~IoBlocked(t)
        BY <1>1 DEF IoBlocked, IndInv, InvDevice
    <2> QED BY <1>1, <2>1, <2>2, CellsOf DEF InOnePlace
<1>2. CASE current_thread # t /\ IoBlocked(t)
    <2>1. t \notin Queued(tp)
        BY <1>2 DEF IoBlocked, IndInv, InvDevice
    <2> QED BY <1>2, <2>1, CellsOf DEF InOnePlace
<1>3. CASE current_thread # t /\ ~IoBlocked(t)
    <2>1. pc[t] \in Labels /\ pc[t] # "join" /\ pc[t] \notin RunningLabels
        BY <1>3 DEF IndInv, TypeOK, InvCurrent, MutualExclusion, Actors
    <2>2. pc[t] \in BlockedLabels \cup {"claim"}
        BY <2>1 DEF Labels, BlockedLabels, RunningLabels, ForkLabels, CheckLabels
    <2>3. t \in Queued(tp)
        BY <1>3, <2>2 DEF IoBlocked, BlockedLabels, IndInv, InvComplete, InvRoot
    <2> QED BY <1>3, <2>3, CellsOf DEF InOnePlace
<1> QED BY <1>1, <1>2, <1>3

(* A thread past an unlocked test is current, and the table it saw is not    *)
(* empty: only the current thread takes a thread out of it.                 *)
LEMMA Dereferences == IndInv => NoNullDereference
<1> SUFFICES ASSUME IndInv, NEW a \in Actors
             PROVE  /\ pc[a] \in {"cmp_locked", "signal"} => current_thread # NULL
                    /\ pc[a] = "chk_locked" /\ NotFirstThread => current_thread # NULL
                    /\ pc[a] \in {"cmp_locked", "popfirst"} => get_head(tp) # NULL
    BY DEF NoNullDereference
<1>1. CASE a = Main
    BY <1>1 DEF IndInv, InvMain, NotFirstThread
<1>2. CASE a \in Threads
    <2>1. pc[a] \in {"cmp_locked", "signal", "chk_locked"} => current_thread = a /\ a # NULL
        BY <1>2, ActorsAssumption DEF IndInv, MutualExclusion, RunningLabels, CheckLabels, Actors
    <2>2. pc[a] \in {"cmp_locked", "popfirst"} => Queued(tp) # {}
        BY <1>2 DEF IndInv, InvRoot
    <2>3. Queued(tp) # {} => ~IsEmptyTable(tp)
        BY DEF Queued, IsEmptyTable
    <2>4. get_head(tp) = NULL <=> IsEmptyTable(tp)
        BY GetHead DEF IndInv, TypeOK, Tables
    <2> QED BY <2>1, <2>2, <2>3, <2>4
<1> QED BY <1>1, <1>2 DEF Actors

(* All are joined when so_end frees. *)
LEMMA Ends == IndInv => EndFreesUnused
<1> SUFFICES ASSUME IndInv, pc[Main] = "join", p[Main] > Len(threads)
             PROVE  (\A t \in Threads : pc[t] \in {"unborn", "done"}) /\ IsEmptyTable(tp)
    BY DEF EndFreesUnused
<1>1. \A t \in Threads : pc[t] \in {"unborn", "done"}
    BY JoinedAll
<1>2. Queued(tp) = {}
    BY JoinedAll
<1>3. IsEmptyTable(tp)
    <2> SUFFICES ASSUME NEW q \in Prios PROVE tp[q] = <<>>
        BY DEF IsEmptyTable
    <2>1. tp[q] \in Seq(Threads)
        BY DEF IndInv, TypeOK
    <2>2. \A i \in DOMAIN tp[q] : tp[q][i] \in Queued(tp)
        BY DEF Queued
    <2>3. CASE tp[q] # <<>>
        <3>1. 1 \in DOMAIN tp[q]
            BY <2>1, <2>3
        <3> QED BY <1>2, <2>2, <3>1
    <2> QED BY <2>3
<1> QED BY <1>1, <1>3

(* io_device is NoIo or a device. *)
LEMMA Devices == IndInv => DeviceExists
BY DEF IndInv, InvDevice, DeviceExists, IoBlocked

(* Only a single root makes the assumption on the program hold throughout. *)
LEMMA Invariance == ASSUME SingleRoot PROVE Spec => []IndInv
<1>1. Init => IndInv
    BY IndInit
<1>2. IndInv /\ [Next]_vars => IndInv'
    BY IndStep
<1> QED BY <1>1, <1>2, PTL DEF Spec

(* At most one handler runs and it is the current thread's, for every       *)
(* number of threads, priorities and devices.                               *)
THEOREM MutualExclusionHolds == ASSUME SingleRoot PROVE Spec => []MutualExclusion
<1>1. IndInv => MutualExclusion
    BY DEF IndInv
<1> QED BY <1>1, Invariance, PTL

(* A semaphore is posted once, for the thread just made current, and the    *)
(* post is consumed before the next one.                                    *)
THEOREM NoStrayWakeupHolds == ASSUME SingleRoot PROVE Spec => []NoStrayWakeup
BY Wakeups, Invariance, PTL

(* A live thread is current, or queued once, or blocked on a device: no     *)
(* hand-over loses or duplicates one.                                       *)
THEOREM NoThreadLostHolds == ASSUME SingleRoot PROVE Spec => []NoThreadLost
BY Places, Invariance, PTL

(* What check_scheduler and compare_priorities find outside the mutex still *)
(* holds where they dereference it.                                         *)
THEOREM NoNullDereferenceHolds == ASSUME SingleRoot PROVE Spec => []NoNullDereference
BY Dereferences, Invariance, PTL

(* so_end frees the threads when all have terminated and the table is empty. *)
THEOREM EndFreesUnusedHolds == ASSUME SingleRoot PROVE Spec => []EndFreesUnused
BY Ends, Invariance, PTL

(* With at least one device, so_wait never blocks a thread on a device that *)
(* does not exist.                                                          *)
THEOREM DeviceExistsHolds == ASSUME SingleRoot PROVE Spec => []DeviceExists
BY Devices, Invariance, PTL

(* Which steps take the processor from the current thread. *)
HandsOverStep ==
    \A t \in Threads : current_thread = t /\ current_thread' # t =>
        \/ pc[t] # pc'[t] /\ pc'[t] \in {"cmp_wait", "wait_sem", "exit"}
        \/ pc[Main] = "join"

(* The steps that change current_thread, one by one. *)
LEMMA HandOver == SingleRoot /\ IndInv /\ [Next]_vars => HandsOverStep
<1> SUFFICES ASSUME SingleRoot, IndInv, [Next]_vars,
                    NEW t \in Threads, current_thread = t, current_thread' # t
             PROVE  \/ pc[t] # pc'[t] /\ pc'[t] \in {"cmp_wait", "wait_sem", "exit"}
                    \/ pc[Main] = "join"
    BY DEF HandsOverStep
<1> DEFINE Goal == \/ pc[t] # pc'[t] /\ pc'[t] \in {"cmp_wait", "wait_sem", "exit"}
                   \/ pc[Main] = "join"
<1>0. /\ pc \in [Actors -> Labels] /\ Main \in Actors /\ Threads \subseteq Actors
      /\ t # NULL
    BY ActorsAssumption DEF IndInv, TypeOK, Actors
<1>r. \A u \in Threads : pc[u] \in RunningLabels => u = t
    BY DEF IndInv, MutualExclusion
<1>1. ASSUME MainCall PROVE Goal
    <2>1. CASE so_end(Main)
        BY <2>1 DEF so_end, schedVars
    <2>2. ASSUME NEW q \in Quanta, NEW n \in IoCounts, so_init(q, n) PROVE Goal
        <3>1. ~initOnce
            BY <2>2 DEF so_init, so_init_rejects
        <3> QED BY <1>0, <3>1 DEF IndInv, InvMain
    <2> QED BY <1>1, <2>1, <2>2 DEF MainCall
<1>2. ASSUME NEW a \in Actors, ForkCall(a) PROVE Goal
    BY <1>2 DEF ForkCall, so_fork_error, so_fork
<1>3. ASSUME NEW a \in Actors, LibraryStep(a) PROVE Goal
    <2>1. CASE compare_priorities_locked(a)
        <3>1. pc[a] = "cmp_locked"
            BY <2>1 DEF compare_priorities_locked
        <3>2. a = t
            BY <1>r, <3>1 DEF Actors, IndInv, InvMain, RunningLabels, CheckLabels
        <3>3. Preempts(get_head(tp), current_thread, expired[a])
            BY <2>1 DEF compare_priorities_locked
        <3> QED BY <1>0, <2>1, <3>1, <3>2, <3>3 DEF compare_priorities_locked, Goto
    <2>2. CASE so_end_join(a) \/ so_end_free(a)
        <3>1. a = Main
            BY <2>2 DEF so_end_join, so_end_free, Actors, IndInv, InvCurrent
        <3> QED BY <2>2, <3>1 DEF so_end_join, so_end_free
    <2>3. CASE \/ so_fork_wait(a) \/ so_fork_check(a) \/ so_fork_return(a)
               \/ check_scheduler(a) \/ check_scheduler_locked(a)
               \/ compare_priorities(a) \/ compare_priorities_wait(a)
        BY <2>3 DEF so_fork_wait, so_fork_check, so_fork_return, check_scheduler,
                    check_scheduler_locked, compare_priorities, compare_priorities_wait, schedVars
    <2> QED BY <1>3, <2>1, <2>2, <2>3 DEF LibraryStep
<1>4. ASSUME NEW u \in Threads, ThreadStep(u) PROVE Goal
    <2>1. CASE th_handler_claim(u)
        BY <1>0, <2>1 DEF th_handler_claim, IndInv, InvRoot
    <2>2. CASE so_wait_schedule(u)
        <3>1. u = t
            BY <1>r, <2>2 DEF so_wait_schedule, RunningLabels
        <3> QED BY <1>0, <2>2, <3>1 DEF so_wait_schedule, Goto
    <2>3. CASE \/ th_handler_start(u) \/ th_handler_ready(u) \/ th_handler_first(u)
               \/ th_handler_pop(u) \/ th_handler_wait(u) \/ th_handler_run(u)
               \/ th_handler_exit(u) \/ so_wait_block(u)
               \/ so_signal_walk(u) \/ so_signal_schedule(u)
        BY <2>3 DEF th_handler_start, th_handler_ready, th_handler_first, th_handler_pop,
                    th_handler_wait, th_handler_run, th_handler_exit, so_wait_block,
                    so_signal_walk, so_signal_schedule, schedVars
    <2> QED BY <1>4, <2>1, <2>2, <2>3 DEF ThreadStep
<1>5. ASSUME NEW u \in Threads, HandlerCall(u) PROVE Goal
    BY <1>5 DEF HandlerCall, so_exec, so_wait, so_signal, schedVars
<1>6. ASSUME NEW u \in Threads, th_handler_return(u) PROVE Goal
    <2>1. u = t
        BY <1>r, <1>6 DEF th_handler_return, RunningLabels
    <2> QED BY <1>0, <1>6, <2>1 DEF th_handler_return, Goto
<1>7. CASE UNCHANGED vars
    BY <1>7 DEF vars, schedVars
<1> QED BY <1>1, <1>2, <1>3, <1>4, <1>5, <1>6, <1>7 DEF Next

(* Nobody takes the processor from a thread that goes on running.           *)
THEOREM HandsOverHolds == ASSUME SingleRoot PROVE Spec => HandsOver
<1>1. IndInv /\ [Next]_vars => [HandsOverStep]_vars
    BY HandOver
<1>2. HandsOver <=> [][HandsOverStep]_vars
    BY PTL DEF HandsOver, HandsOverStep
<1> QED BY <1>1, <1>2, Invariance, PTL DEF Spec

(***************************************************************************)
(* While a handler marked RUNNING runs, no thread of the table has a       *)
(* greater priority: PriorityInv, with IndInv, is inductive.               *)
(***************************************************************************)

(* get_head answers a thread of the greatest priority in the table. *)
LEMMA HeadGreatest ==
    ASSUME NEW tb \in Tables, NEW prio \in [Threads -> Prios],
           SoundTable(tb, prio), get_head(tb) # NULL
    PROVE  \A u \in Queued(tb) : prio[u] <= prio[get_head(tb)]
<1>1. PICK q \in Prios : IsHeadPrio(tb, q) /\ get_head(tb) = Head(tb[q])
    BY GetHead
<1>2. tb[q] \in Seq(Threads) /\ tb[q] # <<>>
    BY <1>1 DEF IsHeadPrio, Tables
<1>3. 1 \in DOMAIN tb[q] /\ get_head(tb) = tb[q][1]
    BY <1>1, <1>2
<1>4. prio[get_head(tb)] = q
    BY <1>3 DEF SoundTable
<1>5. ASSUME NEW u \in Queued(tb) PROVE prio[u] <= q
    <2>1. PICK r \in Prios : \E i \in DOMAIN tb[r] : u = tb[r][i]
        BY QueuedMember
    <2>2. PICK i \in DOMAIN tb[r] : u = tb[r][i]
        BY <2>1
    <2>3. prio[u] = r /\ tb[r] # <<>>
        BY <2>2 DEF SoundTable
    <2> QED BY <1>1, <2>3, MaxPrioAssumption DEF IsHeadPrio, Prios
<1> QED BY <1>4, <1>5

(* Steps that leave the existing threads and their number alone. *)
LEMMA CountStep == SingleRoot /\ IndInv /\ InvCount /\ [Next]_vars => InvCount'
<1> SUFFICES ASSUME SingleRoot, IndInv, InvCount, [Next]_vars PROVE InvCount'
    OBVIOUS
<1> DEFINE Kept == nr_threads' = nr_threads /\ \A t \in Threads : pc'[t] # "unborn" => pc[t] # "unborn"
<1>0. /\ pc \in [Actors -> Labels] /\ Main \in Actors /\ Threads \subseteq Actors
      /\ Main \notin Threads /\ nr_threads \in Nat
    BY ActorsAssumption DEF IndInv, TypeOK, Actors
<1>k. ASSUME Kept PROVE InvCount'
    BY <1>k DEF InvCount
<1>1. ASSUME MainCall PROVE InvCount'
    <2>1. ASSUME NEW q \in Quanta, NEW n \in IoCounts, so_init(q, n) PROVE InvCount'
        <3>1. \A t \in Threads : pc'[t] = "unborn"
            BY <2>1 DEF so_init, so_init_rejects, IndInv, InvMain
        <3> QED BY <3>1 DEF InvCount
    <2>2. CASE so_end(Main)
        BY <1>0, <1>k, <2>2 DEF so_end, Goto, schedVars
    <2> QED BY <1>1, <2>1, <2>2 DEF MainCall
<1>2. ASSUME NEW a \in Actors, ForkCall(a) PROVE InvCount'
    <2>1. ASSUME NEW prio \in ForkPrios, so_fork_error(a, prio) PROVE InvCount'
        BY <1>0, <2>1 DEF so_fork_error, InvCount
    <2>2. ASSUME NEW prio \in ForkPrios, NEW t \in Threads, so_fork(a, t, prio) PROVE InvCount'
        <3>1. /\ nr_threads' = nr_threads + 1
              /\ \A u \in Threads : u # t /\ pc'[u] # "unborn" => pc[u] # "unborn"
            BY <1>0, <2>2 DEF so_fork, MayFork
        <3>2. \A u \in Threads : u # t /\ pc[u] # "unborn" => nr_threads >= 1
            BY <2>2 DEF InvCount
        <3> QED BY <1>0, <3>1, <3>2 DEF InvCount
    <2> QED BY <1>2, <2>1, <2>2 DEF ForkCall
<1>3. ASSUME NEW a \in Actors, LibraryStep(a) PROVE InvCount'
    <2>1. CASE \/ so_fork_wait(a) \/ so_fork_check(a) \/ so_fork_return(a)
               \/ check_scheduler(a) \/ check_scheduler_locked(a)
               \/ compare_priorities(a) \/ compare_priorities_wait(a)
               \/ compare_priorities_locked(a) \/ so_end_join(a)
        <3>1. /\ nr_threads' = nr_threads
              /\ pc[a] # "unborn"
              /\ pc' = pc \/ \E l \in Labels : pc' = [pc EXCEPT ![a] = l]
            BY <2>1 DEF so_fork_wait, so_fork_check, so_fork_return, check_scheduler,
                    check_scheduler_locked, compare_priorities, compare_priorities_wait,
                    compare_priorities_locked, so_end_join, schedVars, Goto, Return,
                    Labels, ForkLabels, CheckLabels
        <3> QED BY <1>0, <1>k, <3>1
    <2>2. CASE so_end_free(a)
        <3>1. a = Main
            BY <2>2 DEF so_end_free, Actors, IndInv, InvCurrent
        <3>2. \A t \in Threads : pc'[t] = "unborn"
            BY <1>0, <2>2, <3>1, JoinedAll DEF so_end_free, Listed
        <3> QED BY <3>2 DEF InvCount
    <2> QED BY <1>3, <2>1, <2>2 DEF LibraryStep
<1>4. ASSUME NEW t \in Threads, ThreadStep(t) PROVE InvCount'
    <2>1. /\ nr_threads' = nr_threads
          /\ pc[t] # "unborn"
          /\ pc' = pc \/ \E l \in Labels : pc' = [pc EXCEPT ![t] = l]
        BY <1>4 DEF ThreadStep, th_handler_start, th_handler_ready, th_handler_first,
                th_handler_claim, th_handler_pop, th_handler_wait, th_handler_run,
                th_handler_exit, so_wait_schedule, so_wait_block, so_signal_walk,
                so_signal_schedule, schedVars, Goto, Labels, ForkLabels, CheckLabels
    <2> QED BY <1>0, <1>k, <2>1
<1>5. ASSUME NEW t \in Threads, HandlerCall(t) \/ th_handler_return(t) PROVE InvCount'
    <2>1. /\ nr_threads' = nr_threads
          /\ pc[t] # "unborn"
          /\ \E l \in Labels : pc' = [pc EXCEPT ![t] = l]
        BY <1>5 DEF HandlerCall, so_exec, so_wait, so_signal, th_handler_return, schedVars, Goto,
                Labels, ForkLabels, CheckLabels
    <2> QED BY <1>0, <1>k, <2>1
<1>6. CASE UNCHANGED vars
    BY <1>6, <1>k DEF vars, schedVars
<1> QED BY <1>1, <1>2, <1>3, <1>4, <1>5, <1>6 DEF Next

(* A child is marked READY before its parent is woken, and cannot get the   *)
(* processor while the parent is inside so_fork.                            *)
LEMMA ReadyStep == SingleRoot /\ IndInv /\ InvReady /\ [Next]_vars => InvReady'
<1> SUFFICES ASSUME SingleRoot, IndInv, InvReady, [Next]_vars, NEW t \in Threads
             PROVE  /\ pc'[t] \in {"first", "sched_wait"} => th_state'[t] = "READY"
                    /\ pc'[t] = "fork_wait" =>
                         pc'[child'[t]] \in {"start", "ready", "first", "sched_wait"}
                    /\ pc'[t] = "fork_chk" => pc'[child'[t]] \in {"first", "sched_wait"}
    BY DEF InvReady
<1> DEFINE Goal == /\ pc'[t] \in {"first", "sched_wait"} => th_state'[t] = "READY"
                   /\ pc'[t] = "fork_wait" =>
                        pc'[child'[t]] \in {"start", "ready", "first", "sched_wait"}
                   /\ pc'[t] = "fork_chk" => pc'[child'[t]] \in {"first", "sched_wait"}
<1>0. /\ pc \in [Actors -> Labels] /\ Main \in Actors /\ Threads \subseteq Actors
      /\ Main \notin Threads /\ th_state \in [Threads -> States]
      /\ child \in [Actors -> Threads \cup {NULL}]
      /\ \A u \in Threads : u # NULL
    BY ActorsAssumption DEF IndInv, TypeOK, Actors
<1>c. /\ \A u \in Threads : pc[u] \in ForkLabels \cup {"user"} => current_thread = u
      /\ \A u \in Threads : pc[u] \in {"fork_wait", "fork_chk"} => child[u] \in Threads
      /\ \A u \in Threads : pc[u] \in {"first", "sched_wait"} => th_state[u] = "READY"
      /\ \A u \in Threads : pc[u] = "fork_wait" =>
            pc[child[u]] \in {"start", "ready", "first", "sched_wait"}
      /\ \A u \in Threads : pc[u] = "fork_chk" => pc[child[u]] \in {"first", "sched_wait"}
    BY <1>0 DEF IndInv, MutualExclusion, RunningLabels, InvFork, ForkLabels, InvReady
<1>n. ASSUME NEW a \in Actors,
             \A b \in Actors : b # a => pc'[b] = pc[b] /\ child'[b] = child[b],
             pc'[a] \notin {"first", "sched_wait", "fork_wait", "fork_chk"},
             pc[a] \notin {"start", "ready", "first", "sched_wait"},
             \A u \in Threads : u # a /\ pc[u] \in {"first", "sched_wait"} =>
                th_state'[u] = th_state[u]
      PROVE  Goal
    BY <1>0, <1>c, <1>n
<1>1. ASSUME MainCall PROVE Goal
    <2>1. ASSUME NEW q \in Quanta, NEW n \in IoCounts, so_init(q, n) PROVE Goal
        BY <1>c, <2>1 DEF so_init, threadVars, localVars
    <2>2. CASE so_end(Main)
        BY <1>0, <1>c, <1>n, <2>2 DEF so_end, Goto, threadVars
    <2> QED BY <1>1, <2>1, <2>2 DEF MainCall
<1>2. ASSUME NEW a \in Actors, ForkCall(a) PROVE Goal
    <2>1. ASSUME NEW prio \in ForkPrios, so_fork_error(a, prio) PROVE Goal
        BY <1>c, <2>1 DEF so_fork_error, threadVars, localVars
    <2>2. ASSUME NEW prio \in ForkPrios, NEW u \in Threads, so_fork(a, u, prio) PROVE Goal
        BY <1>0, <1>c, <2>2 DEF so_fork, MayFork
    <2> QED BY <1>2, <2>1, <2>2 DEF ForkCall
<1>3. ASSUME NEW a \in Actors, LibraryStep(a) PROVE Goal
    <2>1. CASE so_fork_wait(a)
        <3>1. child[a] \in Threads /\ pc[child[a]] \notin {"start", "ready"}
            BY <1>0, <2>1 DEF so_fork_wait, IndInv, InvFork, ForkLabels
        <3>2. pc' = [pc EXCEPT ![a] = "fork_chk"] /\ pc[a] = "fork_wait"
              /\ child' = child /\ th_state' = th_state
            BY <2>1 DEF so_fork_wait, Goto, threadVars, localVars
        <3> QED BY <1>0, <1>c, <3>1, <3>2
    <2>2. CASE so_fork_check(a)
        <3>1. PICK l \in {"chk", "fork_destroy"} : pc' = [pc EXCEPT ![a] = l]
            BY <2>2 DEF so_fork_check, Goto
        <3>2. pc[a] = "fork_chk" /\ child' = child /\ th_state' = th_state
            BY <2>2 DEF so_fork_check, threadVars, localVars
        <3> QED BY <1>0, <1>n, <3>1, <3>2
    <2>3. CASE so_fork_return(a)
        BY <1>0, <1>n, <2>3 DEF so_fork_return, Goto, threadVars
    <2>4. CASE \/ check_scheduler(a) \/ check_scheduler_locked(a)
               \/ compare_priorities(a) \/ compare_priorities_wait(a)
               \/ compare_priorities_locked(a)
        <3>1. PICK l \in {"user", "fork_destroy", "chk_locked", "cmp", "cmp_locked", "cmp_wait"} :
                /\ pc[a] \in CheckLabels \cup {"cmp_wait"}
                /\ child' = child /\ th_state' = th_state
                /\ pc' = [pc EXCEPT ![a] = l]
            BY <2>4 DEF check_scheduler, check_scheduler_locked, compare_priorities,
                compare_priorities_wait, compare_priorities_locked, Goto, Return, CheckLabels,
                threadVars, localVars
        <3> QED BY <1>0, <1>n, <3>1 DEF CheckLabels
    <2>5. CASE so_end_join(a)
        <3>1. /\ pc' = pc /\ child' = child
              /\ \A u \in Threads : pc[u] # "done" => th_state'[u] = th_state[u]
            BY <1>0, <2>5 DEF so_end_join
        <3> QED BY <1>c, <3>1
    <2>6. CASE so_end_free(a)
        <3>1. a = Main
            BY <2>6 DEF so_end_free, Actors, IndInv, InvCurrent
        <3>2. \A u \in Threads : pc'[u] = "unborn"
            BY <1>0, <2>6, <3>1, JoinedAll DEF so_end_free, Listed
        <3> QED BY <3>2
    <2> QED BY <1>3, <2>1, <2>2, <2>3, <2>4, <2>5, <2>6 DEF LibraryStep
<1>4. ASSUME NEW u \in Threads, ThreadStep(u) PROVE Goal
    <2>1. CASE th_handler_start(u)
        BY <1>0, <1>c, <2>1 DEF th_handler_start, Goto, threadVars, localVars
    <2>2. CASE th_handler_ready(u)
        BY <1>0, <1>c, <2>2 DEF th_handler_ready, Goto, localVars
    <2>3. CASE th_handler_first(u)
        <3>1. /\ pc[u] = "first" /\ child' = child /\ th_state' = th_state
              /\ pc' = [pc EXCEPT ![u] = IF current_thread = NULL THEN "claim" ELSE "sched_wait"]
            BY <2>3 DEF th_handler_first, Goto, threadVars, localVars
        <3>2. pc[t] \in {"fork_wait", "fork_chk"} => current_thread # NULL
            BY <1>0, <1>c DEF ForkLabels
        <3> QED BY <1>0, <1>c, <3>1, <3>2
    <2>4. CASE th_handler_wait(u)
        <3>1. /\ pc[u] = "sched_wait" /\ child' = child /\ th_state' = th_state
              /\ pc' = [pc EXCEPT ![u] = "go"] /\ semaphore[u] > 0
            BY <2>4 DEF th_handler_wait, Goto, sem_wait, threadVars, localVars
        <3>2. current_thread = u
            BY <3>1 DEF IndInv, InvSemaphore
        <3>3. pc[t] \notin {"fork_wait", "fork_chk"}
            BY <1>c, <3>1, <3>2 DEF ForkLabels
        <3> QED BY <1>0, <1>c, <3>1, <3>3
    <2>5. CASE \/ th_handler_claim(u) \/ th_handler_pop(u)
               \/ so_wait_schedule(u) \/ so_wait_block(u) \/ so_signal_schedule(u)
        <3>1. PICK l \in {"popfirst", "go", "wait_sem", "user", "cmp"} :
                /\ pc[u] \in {"claim", "popfirst", "wait_get", "wait_sem", "signal"}
                /\ child' = child /\ th_state' = th_state
                /\ pc' = [pc EXCEPT ![u] = l]
            BY <2>5 DEF th_handler_claim, th_handler_pop, so_wait_schedule, so_wait_block,
                so_signal_schedule, Goto, threadVars, localVars
        <3> QED BY <1>0, <1>n, <3>1 DEF CheckLabels
    <2>6. CASE th_handler_run(u) \/ th_handler_exit(u)
        <3>1. PICK l \in {"user", "done"} :
                /\ pc[u] \in {"go", "exit"} /\ child' = child
                /\ pc' = [pc EXCEPT ![u] = l]
                /\ \A v \in Threads : v # u => th_state'[v] = th_state[v]
            BY <1>0, <2>6 DEF th_handler_run, th_handler_exit, Goto, localVars
        <3> QED BY <1>0, <1>n, <3>1 DEF CheckLabels
    <2>7. CASE so_signal_walk(u)
        BY <1>c, <2>7 DEF so_signal_walk
    <2> QED BY <1>4, <2>1, <2>2, <2>3, <2>4, <2>5, <2>6, <2>7 DEF ThreadStep
<1>5. ASSUME NEW u \in Threads, HandlerCall(u) \/ th_handler_return(u) PROVE Goal
    <2>1. PICK l \in {"chk", "wait_get", "signal", "exit"} :
            /\ pc[u] = "user" /\ child' = child
            /\ pc' = [pc EXCEPT ![u] = l]
            /\ \A v \in Threads : v # current_thread => th_state'[v] = th_state[v]
        BY <1>0, <1>5 DEF HandlerCall, so_exec, so_wait, so_signal, th_handler_return, Goto,
            threadVars, localVars
    <2>2. current_thread = u
        BY <1>c, <2>1
    <2> QED BY <1>0, <1>n, <2>1, <2>2
<1>6. CASE UNCHANGED vars
    BY <1>6, <1>c DEF vars, threadVars, localVars
<1> QED BY <1>1, <1>2, <1>3, <1>4, <1>5, <1>6 DEF Next

(* The thread chosen from the table is topmost in what is left of it, also  *)
(* when a thread that is not greater takes its place.                       *)
LEMMA ChosenTopmost ==
    ASSUME IndInv, NEW th \in Threads, th = get_head(tp), priority' = priority,
           \A u \in Queued(tp') : u \in Queued(tp) \/ priority[u] <= priority[th]
    PROVE  Topmost(th)'
<1>1. tp \in Tables /\ priority \in [Threads -> Prios] /\ SoundTable(tp, priority)
    BY DEF IndInv, TypeOK, Tables, InvTable
<1>2. th # NULL
    BY ActorsAssumption DEF Actors
<1>3. \A u \in Queued(tp) : priority[u] <= priority[th]
    BY <1>1, <1>2, HeadGreatest
<1> QED BY <1>3 DEF Topmost

(* Whoever becomes or stays the running thread has no greater one queued.   *)
LEMMA TopmostStep ==
    SingleRoot /\ IndInv /\ PriorityInv /\ IndInv' /\ [Next]_vars => InvTopmost'
<1> SUFFICES ASSUME SingleRoot, IndInv, PriorityInv, IndInv', [Next]_vars,
                    NEW t \in Threads, MustBeTopmost(t)'
             PROVE  Topmost(t)'
    BY DEF InvTopmost
<1> USE DEF BlockedLabels
<1>0. /\ pc \in [Actors -> Labels] /\ Main \in Actors /\ Threads \subseteq Actors
      /\ Main \notin Threads /\ th_state \in [Threads -> States]
      /\ child \in [Actors -> Threads \cup {NULL}]
      /\ \A u \in Threads : u # NULL
      /\ tp \in Tables /\ priority \in [Threads -> Prios]
      /\ current_thread \in Threads \cup {NULL}
    BY ActorsAssumption DEF IndInv, TypeOK, Actors, Tables
<1>r. /\ \A u \in Threads : pc[u] \in RunningLabels => current_thread = u
      /\ \A u \in Threads : pc'[u] \in RunningLabels => current_thread' = u
      /\ \A u \in Threads : MustBeTopmost(u) => Topmost(u)
    BY DEF IndInv, MutualExclusion, PriorityInv, InvTopmost
<1>m. /\ pc'[t] \in BlockedLabels \cup {"go", "user", "fork_destroy"}
      /\ current_thread' = t
      /\ pc'[t] \in {"user", "fork_destroy"} => th_state'[t] = "RUNNING"
    BY <1>r DEF MustBeTopmost, RunningLabels, ForkLabels
\* t was topmost before, and the table has not grown.
<1>k. ASSUME MustBeTopmost(t), Queued(tp') \subseteq Queued(tp), priority' = priority
      PROVE  Topmost(t)'
    BY <1>r, <1>k DEF Topmost
<1>e. ASSUME Queued(tp') = {} PROVE Topmost(t)'
    BY <1>e DEF Topmost
\* A step of another actor that leaves t and the table alone.
<1>o. ASSUME pc'[t] = pc[t], th_state'[t] = th_state[t], current_thread' = current_thread,
             tp' = tp, priority' = priority
      PROVE  Topmost(t)'
    BY <1>o, <1>k, <1>m DEF MustBeTopmost
<1>1. ASSUME MainCall PROVE Topmost(t)'
    <2>1. ASSUME NEW q \in Quanta, NEW n \in IoCounts, so_init(q, n) PROVE FALSE
        BY <1>0, <1>m, <2>1 DEF so_init
    <2>2. CASE so_end(Main)
        BY <1>0, <1>o, <2>2 DEF so_end, Goto, threadVars, schedVars
    <2> QED BY <1>1, <2>1, <2>2 DEF MainCall
<1>2. ASSUME NEW a \in Actors, ForkCall(a) PROVE Topmost(t)'
    <2>1. ASSUME NEW prio \in ForkPrios, so_fork_error(a, prio) PROVE Topmost(t)'
        BY <1>o, <2>1 DEF so_fork_error, threadVars
    <2>2. ASSUME NEW prio \in ForkPrios, NEW u \in Threads, so_fork(a, u, prio) PROVE FALSE
        <3>1. CASE a = Main
            <4>1. rootForks = 0 /\ current_thread' = current_thread
                BY <2>2, <3>1, BoundsAssumption DEF so_fork, MayFork, SingleRoot, IndInv, TypeOK
            <4> QED BY <1>0, <1>m, <4>1 DEF IndInv, InvMain
        <3>2. CASE a \in Threads
            <4>1. pc[a] = "user" /\ current_thread' = current_thread /\ pc'[a] = "fork_wait"
                BY <1>0, <2>2, <3>2 DEF so_fork, MayFork
            <4> QED BY <1>m, <1>r, <3>2, <4>1 DEF RunningLabels
        <3> QED BY <3>1, <3>2 DEF Actors
    <2> QED BY <1>2, <2>1, <2>2 DEF ForkCall
<1>3. ASSUME NEW a \in Actors, LibraryStep(a) PROVE Topmost(t)'
    <2>1. CASE so_fork_wait(a)
        BY <1>0, <1>m, <1>o, <2>1 DEF so_fork_wait, Goto, threadVars, schedVars
    <2>2. CASE so_fork_check(a)
        <3>1. a \in Threads => pc'[a] = "chk"
            BY <1>0, <2>2 DEF so_fork_check, Goto, PriorityInv, InvReady, IndInv, InvFork, ForkLabels
        <3> QED BY <1>0, <1>m, <1>o, <2>2, <3>1 DEF so_fork_check, Goto, threadVars, schedVars
    <2>3. CASE so_fork_return(a)
        <3>1. a = t => pc[t] = "fork_destroy"
            BY <2>3 DEF so_fork_return
        <3>2. /\ \A u \in Actors : u # a => pc'[u] = pc[u]
              /\ UNCHANGED <<tp, priority, th_state, current_thread>>
              /\ pc'[a] = "user"
            BY <1>0, <2>3 DEF so_fork_return, Goto, threadVars, schedVars
        <3> QED BY <1>0, <1>k, <1>m, <3>1, <3>2 DEF MustBeTopmost
    <2>4. CASE check_scheduler(a)
        <3>1. a \in Threads => pc'[a] = "chk_locked"
            BY <1>0, <1>r, <2>4 DEF check_scheduler, Goto, RunningLabels, CheckLabels
        <3> QED BY <1>0, <1>m, <1>o, <2>4, <3>1 DEF check_scheduler, Goto, Return, threadVars, schedVars
    <2>5. CASE check_scheduler_locked(a)
        <3>1. /\ \A u \in Actors : u # a => pc'[u] = pc[u]
              /\ UNCHANGED <<tp, priority, th_state, current_thread>>
              /\ pc[a] = "chk_locked"
              /\ NotFirstThread => pc'[a] = "cmp"
            BY <1>0, <2>5 DEF check_scheduler_locked, Goto, Return, threadVars, schedVars
        <3>2. CASE a = t
            <4>1. ~NotFirstThread
                BY <1>m, <3>1, <3>2
            <4>2. CASE get_head(tp) = NULL
                <5>1. IsEmptyTable(tp)
                    BY <1>0, <4>2, GetHead
                <5>2. Queued(tp) = {}
                    BY <5>1 DEF IsEmptyTable, Queued
                <5> QED BY <1>e, <3>1, <5>2
            <4>3. CASE nr_threads <= 1
                <5>1. \A u \in Queued(tp) : u \in Threads /\ u # t /\ pc[u] # "unborn"
                    BY <3>1, <3>2, RunningAndQueued DEF RunningLabels, CheckLabels
                <5>2. Queued(tp) = {}
                    BY <3>1, <3>2, <4>3, <5>1 DEF PriorityInv, InvCount, IndInv, TypeOK
                <5> QED BY <1>e, <3>1, <5>2
            <4> QED BY <4>1, <4>2, <4>3 DEF NotFirstThread, IndInv, TypeOK
        <3> QED BY <1>0, <1>o, <3>1, <3>2
    <2>6. CASE compare_priorities(a)
        <3>1. /\ \A u \in Actors : u # a => pc'[u] = pc[u]
              /\ UNCHANGED <<tp, priority, th_state, current_thread>>
              /\ pc[a] = "cmp"
              /\ get_head(tp) # NULL /\ current_thread # NULL => pc'[a] = "cmp_locked"
            BY <1>0, <2>6 DEF compare_priorities, Goto, Return, threadVars, schedVars
        <3>2. CASE a = t
            <4>1. get_head(tp) = NULL
                BY <1>0, <1>m, <1>r, <3>1, <3>2 DEF RunningLabels, CheckLabels
            <4>2. IsEmptyTable(tp)
                BY <1>0, <4>1, GetHead
            <4>3. Queued(tp) = {}
                BY <4>2 DEF IsEmptyTable, Queued
            <4> QED BY <1>e, <3>1, <4>3
        <3> QED BY <1>0, <1>o, <3>1, <3>2
    <2>7. CASE compare_priorities_locked(a)
        <3> DEFINE th == get_head(tp)
        <3>1. a \in Threads /\ current_thread = a /\ th # NULL
            BY <1>r, <2>7 DEF compare_priorities_locked, Actors, IndInv, InvMain, RunningLabels, CheckLabels
        <3>2. tp \in Tables /\ SoundTable(tp, priority) /\ th \in Threads
            BY <1>0, <3>1, RemoveHead DEF IndInv, InvTable
        <3>3. CASE Preempts(th, a, expired[a])
            <4> DEFINE tb == priority_table_remove(tp, priority[th])
            <4>1. /\ current_thread' = th /\ priority' = priority
                  /\ tp' = priority_table_insert(tb, a, priority[a])
                BY <2>7, <3>1, <3>3 DEF compare_priorities_locked
            <4>2. tb \in Tables /\ Queued(tb) = Queued(tp) \ {th}
                BY <1>0, <3>1, <3>2, RemoveHead
            <4>3. Queued(tp') = Queued(tb) \cup {a}
                <5> HIDE DEF tb
                <5> QED BY <1>0, <3>1, <4>1, <4>2, InsertThread
            <4>4. priority[a] <= priority[th]
                BY <1>0, <3>1, <3>2, <3>3, MaxPrioAssumption DEF Preempts, Prios
            <4>5. t = th /\ t = get_head(tp)
                BY <1>m, <4>1
            <4>6. \A u \in Queued(tp') : u \in Queued(tp) \/ priority[u] <= priority[t]
                BY <4>2, <4>3, <4>4, <4>5
            <4> HIDE DEF th
            <4> QED BY <4>1, <4>5, <4>6, ChosenTopmost
        <3>4. CASE ~Preempts(th, a, expired[a])
            <4>1. UNCHANGED <<current_thread, tp, priority, th_state>>
                BY <2>7, <3>1, <3>4 DEF compare_priorities_locked
            <4>2. t = a /\ pc[a] = "cmp_locked"
                BY <1>m, <2>7, <3>1, <4>1 DEF compare_priorities_locked
            <4>3. pc'[a] \in {"user", "fork_destroy"}
                BY <1>0, <2>7, <3>1, <3>4 DEF compare_priorities_locked, Return, Goto
            <4>4. th_state[a] = "RUNNING"
                BY <1>m, <4>1, <4>2, <4>3
            <4>5. expired[a] \in BOOLEAN
                BY <1>0, <3>1 DEF IndInv, TypeOK
            <4>6. priority[th] <= priority[a]
                BY <1>0, <3>1, <3>2, <3>4, <4>4, <4>5, MaxPrioAssumption DEF Preempts, Prios
            <4>7. \A u \in Queued(tp) : u \in Threads /\ priority[u] <= priority[th]
                BY <1>0, <3>1, <3>2, HeadGreatest, QueuedThreads
            <4>8. \A u \in Queued(tp) : priority[u] <= priority[a]
                <5> HIDE DEF th
                <5> QED BY <1>0, <3>1, <3>2, <4>6, <4>7, MaxPrioAssumption DEF Prios
            <4> QED BY <4>1, <4>2, <4>8 DEF Topmost
        <3> QED BY <3>3, <3>4
    <2>8. CASE compare_priorities_wait(a)
        <3>1. /\ \A u \in Actors : u # a => pc'[u] = pc[u]
              /\ UNCHANGED <<tp, priority, th_state, current_thread>>
              /\ pc[a] = "cmp_wait"
            BY <1>0, <2>8 DEF compare_priorities_wait, Goto, Return, threadVars, schedVars
        <3> QED BY <1>0, <1>o, <1>k, <1>m, <3>1 DEF MustBeTopmost
    <2>9. CASE so_end_join(a)
        <3>1. /\ pc' = pc /\ UNCHANGED <<tp, priority, current_thread>>
              /\ \A u \in Threads : pc[u] # "done" => th_state'[u] = th_state[u]
            BY <1>0, <2>9 DEF so_end_join, schedVars
        <3> QED BY <1>m, <1>o, <3>1
    <2>10. CASE so_end_free(a)
        BY <1>0, <1>m, <2>10 DEF so_end_free
    <2> QED BY <1>3, <2>1, <2>2, <2>3, <2>4, <2>5, <2>6, <2>7, <2>8, <2>9, <2>10 DEF LibraryStep
<1>g. ASSUME NEW u \in Threads, get_thread_from_queue,
             UNCHANGED <<priority, th_state>>, pc'[u] \in {"exit", "wait_sem"},
             pc[u] \in RunningLabels \ {"popfirst"}
      PROVE  Topmost(t)'
    <2>1. get_head(tp) # NULL
        BY <1>0, <1>m, <1>g DEF get_thread_from_queue
    <2>2. tp \in Tables /\ SoundTable(tp, priority)
        BY <1>0 DEF IndInv, InvTable
    <2>3. /\ t = get_head(tp) /\ tp' = priority_table_remove(tp, priority[t])
        BY <1>m, <1>g, <2>1 DEF get_thread_from_queue
    <2>4. Queued(tp') = Queued(tp) \ {t}
        BY <2>1, <2>2, <2>3, RemoveHead
    <2>5. \A v \in Queued(tp') : v \in Queued(tp) \/ priority[v] <= priority[t]
        BY <2>4
    <2> QED BY <1>g, <2>3, <2>5, ChosenTopmost
<1>i. ASSUME NEW b \in Threads, pc[b] \in {"fork_wait", "signal"}, pc'[b] = pc[b],
             current_thread' = current_thread
      PROVE  FALSE
    BY <1>0, <1>m, <1>r, <1>i DEF RunningLabels, ForkLabels
<1>4. ASSUME NEW u \in Threads, ThreadStep(u) PROVE Topmost(t)'
    <2>1. CASE th_handler_start(u)
        <3>1. /\ pc[u] = "start" /\ current_thread' = current_thread
              /\ \A b \in Actors : b # u => pc'[b] = pc[b]
            BY <1>0, <2>1 DEF th_handler_start, Goto
        <3>2. PICK b \in Actors : child[b] = u /\ pc[b] = "fork_wait"
            BY <3>1 DEF IndInv, InvFork
        <3>3. CASE b = Main
            <4>1. t = u
                BY <1>0, <1>m, <3>1, <3>2, <3>3 DEF IndInv, InvMain, RootOnly, InvCurrent
            <4> QED BY <1>m, <3>1, <4>1 DEF IndInv, InvCurrent
        <3>4. CASE b \in Threads
            BY <1>0, <1>i, <3>1, <3>2, <3>4
        <3> QED BY <3>3, <3>4 DEF Actors
    <2>2. CASE th_handler_ready(u)
        <3>1. /\ \A v \in Actors : v # u => pc'[v] = pc[v]
              /\ \A v \in Threads : v # u => th_state'[v] = th_state[v]
              /\ UNCHANGED <<tp, priority, current_thread>>
              /\ pc[u] = "ready" /\ pc'[u] = "first"
            BY <1>0, <2>2 DEF th_handler_ready, Goto, schedVars
        <3> QED BY <1>0, <1>o, <1>k, <1>m, <3>1 DEF MustBeTopmost
    <2>3. CASE th_handler_first(u) \/ th_handler_wait(u)
        <3>1. /\ \A v \in Actors : v # u => pc'[v] = pc[v]
              /\ UNCHANGED <<tp, priority, current_thread, th_state>>
              /\ pc[u] \in {"first", "sched_wait"}
            BY <1>0, <2>3 DEF th_handler_first, th_handler_wait, Goto, schedVars, threadVars
        <3> QED BY <1>0, <1>o, <1>k, <1>m, <3>1 DEF MustBeTopmost
    <2>4. CASE th_handler_claim(u)
        BY <1>0, <1>m, <2>4 DEF th_handler_claim, Goto
    <2>5. CASE th_handler_pop(u)
        <3>1. /\ pc[u] = "popfirst" /\ get_head(tp) # NULL /\ priority' = priority
              /\ tp' = priority_table_remove(tp, priority[get_head(tp)])
            BY <2>5 DEF th_handler_pop, threadVars
        <3>2. /\ get_head(tp) \in Queued(tp) /\ Queued(tp') = Queued(tp) \ {get_head(tp)}
            BY <1>0, <3>1, RemoveHead DEF IndInv, InvTable
        <3>3. \A v \in Queued(tp) : v = u
            BY <1>0, <3>1, QueuedThreads DEF IndInv, InvTable, InvRoot, RootOnly
        <3> QED BY <1>e, <3>2, <3>3
    <2>6. CASE th_handler_run(u)
        <3>1. /\ \A v \in Actors : v # u => pc'[v] = pc[v]
              /\ \A v \in Threads : v # u => th_state'[v] = th_state[v]
              /\ UNCHANGED <<tp, priority, current_thread>>
              /\ pc[u] = "go"
            BY <1>0, <2>6 DEF th_handler_run, Goto, schedVars
        <3> QED BY <1>0, <1>o, <1>k, <1>m, <3>1 DEF MustBeTopmost
    <2>7. CASE th_handler_exit(u)
        <3>1. /\ \A v \in Actors : v # u => pc'[v] = pc[v]
              /\ \A v \in Threads : v # u => th_state'[v] = th_state[v]
              /\ UNCHANGED <<tp, priority, current_thread>>
              /\ pc'[u] = "done"
            BY <1>0, <2>7 DEF th_handler_exit, Goto, schedVars
        <3> QED BY <1>0, <1>o, <1>m, <3>1
    <2>8. CASE so_wait_schedule(u)
        BY <1>0, <1>g, <2>8 DEF so_wait_schedule, Goto, threadVars, RunningLabels
    <2>9. CASE so_wait_block(u)
        <3>1. /\ \A v \in Actors : v # u => pc'[v] = pc[v]
              /\ UNCHANGED <<tp, priority, current_thread, th_state>>
              /\ pc[u] = "wait_sem"
            BY <1>0, <2>9 DEF so_wait_block, Goto, schedVars, threadVars
        <3> QED BY <1>0, <1>o, <1>k, <1>m, <3>1 DEF MustBeTopmost
    <2>10. CASE so_signal_walk(u)
        BY <1>i, <2>10 DEF so_signal_walk
    <2>11. CASE so_signal_schedule(u)
        BY <1>0, <1>o, <1>m, <2>11 DEF so_signal_schedule, Goto, schedVars, threadVars
    <2> QED BY <1>4, <2>1, <2>2, <2>3, <2>4, <2>5, <2>6, <2>7, <2>8, <2>9, <2>10, <2>11 DEF ThreadStep
<1>5. ASSUME NEW u \in Threads, HandlerCall(u) PROVE Topmost(t)'
    <2>1. /\ pc[u] = "user" /\ pc'[u] \in {"chk", "wait_get", "signal"}
          /\ \A v \in Actors : v # u => pc'[v] = pc[v]
          /\ \A v \in Threads : v # current_thread => th_state'[v] = th_state[v]
          /\ UNCHANGED <<tp, priority, current_thread>>
        BY <1>0, <1>5 DEF HandlerCall, so_exec, so_wait, so_signal, Goto, schedVars, threadVars
    <2> QED BY <1>0, <1>m, <1>r, <2>1 DEF RunningLabels
<1>6. ASSUME NEW u \in Threads, th_handler_return(u) PROVE Topmost(t)'
    BY <1>0, <1>g, <1>6 DEF th_handler_return, Goto, threadVars, RunningLabels
<1>7. CASE UNCHANGED vars
    BY <1>7, <1>o DEF vars, schedVars, threadVars
<1> QED BY <1>1, <1>2, <1>3, <1>4, <1>5, <1>6, <1>7 DEF Next

(* No thread exists, so the invariant holds at the start. *)
LEMMA PriorityInit == Init => PriorityInv
<1> SUFFICES ASSUME Init PROVE PriorityInv
    OBVIOUS
<1>1. \A t \in Threads : pc[t] = "unborn" /\ current_thread # t
    BY ActorsAssumption DEF Init, Actors
<1> QED BY <1>1 DEF PriorityInv, InvTopmost, MustBeTopmost, BlockedLabels, InvCount, InvReady

(* While a handler marked RUNNING runs, no thread of greater priority is in *)
(* the table, for every number of threads, priorities and quanta.           *)
THEOREM HighestPriorityRunsHolds == ASSUME SingleRoot PROVE Spec => []HighestPriorityRuns
<1>1. Init => IndInv /\ PriorityInv
    BY IndInit, PriorityInit
<1>2. IndInv /\ PriorityInv /\ [Next]_vars => (IndInv /\ PriorityInv)'
    BY IndStep, CountStep, ReadyStep, TopmostStep DEF PriorityInv
<1>3. PriorityInv => HighestPriorityRuns
    BY DEF PriorityInv, InvTopmost, MustBeTopmost, Topmost, HighestPriorityRuns
<1> QED BY <1>1, <1>2, <1>3, PTL DEF Spec

-----------------------------------------------------------------------------
(* The Win32 port implements the library.  The argument is the invariant   *)
(* of SoSchedulerInv: a thread in the table has a semaphore at 0 and has   *)
(* not ended, so no release of the port fails, so every step of the port   *)
(* is a step of the library, which keeps the invariant.                    *)

(* The head of the table can be released.                                   *)
LEMMA HeadReleased ==
    IndInv => (get_head(tp) # NULL => ~ReleaseFails(get_head(tp)))
<1> SUFFICES ASSUME IndInv, get_head(tp) # NULL PROVE ~ReleaseFails(get_head(tp))
    OBVIOUS
<1> DEFINE th == get_head(tp)
<1>0. tp \in Tables
    BY DEF IndInv, TypeOK, Tables
<1>1. th \in Queued(tp) /\ th \in Threads
    <2>1. PICK q \in Prios : tp[q] # <<>> /\ th = Head(tp[q])
        BY <1>0, GetHead DEF IsHeadPrio
    <2>2. 1 \in DOMAIN tp[q] /\ th = tp[q][1]
        BY <1>0, <2>1 DEF Tables
    <2> QED BY <1>0, <2>2, QueuedMember, QueuedThreads
<1>2. pc[th] \in BlockedLabels \cup {"claim", "popfirst"}
    BY <1>1 DEF IndInv, InvTable
<1>3. current_thread = th => pc[th] = "popfirst"
    BY <1>1 DEF IndInv, InvTable
<1>4. semaphore[th] = 0
    BY <1>1, <1>3 DEF IndInv, InvSemaphore, BlockedLabels
<1> QED BY <1>2, <1>4 DEF ReleaseFails, MaxCount, BlockedLabels

(* The parent of a thread that becomes ready has not been woken yet.        *)
LEMMA ParentReleased ==
    ASSUME IndInv, NEW t \in Threads, pc[t] = "ready" PROVE args_sem[t] # MaxCount
BY DEF IndInv, InvFork, MaxCount

(* A step of the port from a state of the invariant is one of the library.  *)
LEMMA PortStep == IndInv /\ [WinNext]_winVars => [Next]_vars
<1> SUFFICES ASSUME IndInv, [WinNext]_winVars PROVE [Next]_vars
    OBVIOUS
<1>0. Main \in Actors /\ Threads \subseteq Actors
    BY DEF Actors
<1>1. ASSUME NEW q \in Quanta, NEW n \in IoCounts, win_so_init(q, n) PROVE Next
    BY <1>1 DEF win_so_init, Next, MainCall
<1>2. ASSUME win_so_end(Main) PROVE Next
    BY <1>0, <1>2 DEF win_so_end, Next, MainCall, LibraryStep
<1>3. ASSUME NEW a \in Actors, win_so_fork(a) PROVE Next
    BY <1>3 DEF win_so_fork, Next
<1>4. ASSUME NEW a \in Actors, WinLibraryStep(a) PROVE Next
    <2>1. CASE win_compare_priorities_locked(a)
        <3>1. compare_priorities_locked(a)
            BY <2>1, HeadReleased DEF win_compare_priorities_locked
        <3> QED BY <3>1 DEF Next, LibraryStep
    <2>2. CASE \/ win_so_fork_rest(a) \/ win_unlocked_tests(a)
               \/ win_check_scheduler_locked(a) \/ win_compare_priorities_wait(a)
        BY <2>2 DEF win_so_fork_rest, win_unlocked_tests, win_check_scheduler_locked,
                    win_compare_priorities_wait, Next, LibraryStep
    <2> QED BY <1>4, <2>1, <2>2 DEF WinLibraryStep
<1>5. ASSUME NEW t \in Threads, win_get_thread_from_queue(t) PROVE get_thread_from_queue
    BY <1>5, HeadReleased DEF win_get_thread_from_queue
<1>6. ASSUME NEW t \in Threads, WinThreadStep(t) PROVE Next
    <2>1. CASE win_th_handler_ready(t)
        <3>1. th_handler_ready(t)
            BY <2>1, ParentReleased DEF win_th_handler_ready
        <3> QED BY <3>1 DEF Next, ThreadStep
    <2>2. CASE win_so_wait_schedule(t)
        <3>1. so_wait_schedule(t)
            BY <1>5, <2>2 DEF win_so_wait_schedule, so_wait_schedule
        <3> QED BY <3>1 DEF Next, ThreadStep
    <2>3. CASE \/ win_th_handler_start(t) \/ win_th_handler_scheduled(t)
               \/ win_th_handler_exit(t) \/ win_so_wait_block(t) \/ win_so_signal_rest(t)
        BY <2>3 DEF win_th_handler_start, win_th_handler_scheduled, win_th_handler_exit,
                    win_so_wait_block, win_so_signal_rest, Next, ThreadStep
    <2> QED BY <1>6, <2>1, <2>2, <2>3 DEF WinThreadStep
<1>7. ASSUME NEW t \in Threads, win_th_handler_return(t) PROVE Next
    <2>1. th_handler_return(t)
        BY <1>5, <1>7 DEF win_th_handler_return, th_handler_return
    <2> QED BY <2>1 DEF Next
<1>8. ASSUME NEW t \in Threads, win_so_exec(t) \/ win_so_wait(t) \/ win_so_signal(t)
      PROVE  Next
    BY <1>8 DEF win_so_exec, win_so_wait, win_so_signal, Next, HandlerCall
<1>9. CASE UNCHANGED winVars
    BY <1>9 DEF winVars
<1> QED BY <1>1, <1>2, <1>3, <1>4, <1>6, <1>7, <1>8, <1>9 DEF WinNext

(* For every number of threads, priorities and devices, a program with a    *)
(* single root thread sees on Windows what it may see on Linux: no          *)
(* ReleaseSemaphore fails, and no section is left with the mutex held.      *)
THEOREM PortImplements == ASSUME SingleRoot PROVE WinSpec => Library
<1>1. WinInit => Init /\ IndInv
    BY IndInit DEF WinInit
<1>2. IndInv /\ [WinNext]_winVars => [Next]_vars /\ IndInv'
    BY PortStep, IndStep
<1> QED BY <1>1, <1>2, PTL DEF WinSpec, Spec, Library

(* The mutex is never left behind. *)
MutexReleased == owner = NULL

(* On Windows, with a single root thread, no thread goes on as the owner of *)
(* the mutex.                                                               *)
THEOREM MutexReleasedHolds == ASSUME SingleRoot PROVE WinSpec => []MutexReleased
<1>1. WinInit => IndInv /\ MutexReleased
    BY IndInit DEF WinInit, MutexReleased
<1>2. IndInv /\ [WinNext]_winVars => IndInv'
    BY PortStep, IndStep
<1>3. IndInv /\ MutexReleased /\ [WinNext]_winVars => MutexReleased'
    <2> SUFFICES ASSUME IndInv, owner = NULL, [WinNext]_winVars PROVE owner' = NULL
        BY DEF MutexReleased
    <2>1. ASSUME NEW a \in Actors, WinLibraryStep(a) PROVE owner' = NULL
        BY <2>1, HeadReleased DEF WinLibraryStep, win_so_fork_rest, win_unlocked_tests,
            win_check_scheduler_locked, win_compare_priorities_locked,
            win_compare_priorities_wait
    <2>2. ASSUME NEW t \in Threads, win_get_thread_from_queue(t) PROVE owner' = NULL
        BY <2>2, HeadReleased DEF win_get_thread_from_queue
    <2>3. ASSUME NEW t \in Threads, WinThreadStep(t) PROVE owner' = NULL
        BY <2>2, <2>3 DEF WinThreadStep, win_th_handler_start, win_th_handler_ready,
            win_th_handler_scheduled, win_th_handler_exit, win_so_wait_schedule,
            win_so_wait_block, win_so_signal_rest
    <2>4. ASSUME NEW t \in Threads, win_th_handler_return(t) PROVE owner' = NULL
        BY <2>2, <2>4 DEF win_th_handler_return
    <2> QED BY <2>1, <2>3, <2>4 DEF WinNext, winVars, win_so_init, win_so_end, win_so_fork,
            win_so_exec, win_so_wait, win_so_signal
<1> QED BY <1>1, <1>2, <1>3, PTL DEF WinSpec

==============================================================================
