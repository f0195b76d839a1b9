# Verification of "Programming-tasks"

The repository is a collection of independent C, Java and Python programs. This
directory holds TLA+ models of those whose correctness is a matter of state and
interleaving, the TLC configurations that check them, and proofs for TLAPS.
`PROJECT.json` is the index: which definition models which lines, what each run
checks, which hazard each property is for, and one seeded bug per property.

Each module translates the source file it names; an action has the name of the
function or of the step of it that it stands for. Sections 1 and 2 are the
overview; sections 3 to 9 take the programs one by one.

## 1. Inventory

The programs do not call one another, except that the datagram server runs over
the link emulator and each pair of ports shares its Linux original's parser or
tables.

| Component | Sources | Modules | Status |
|---|---|---|---|
| Thread scheduler | `Operating Systems/Task2/*.c` | `PriorityTable`, `SoScheduler`, `SoSchedulerInv` | modelled, proved |
| Thread scheduler, Windows port | `Operating Systems/Task2/WINDOWS/*.c` | `SoSchedulerWindows` | modelled, refinement proved |
| Link emulator | `TCP server/link_emulator/{link,queue}.c` | `LossyFifo`, `LinkEmulator` | modelled, proved |
| Datagram file server | `TCP server/server.c` | `DatagramServer`, `DatagramServerInv` | modelled, proved |
| Chat and file-sharing server and client | `TCP chat/*.c` | `ChatServer`, `ChatServerInv` | modelled, proved |
| Mini-shell | `Operating Systems/Task1/{cmd,main,utils-lin}.c` | `Shell` | modelled, proved |
| Mini-shell, Windows port | `Operating Systems/Task1/WINDOWS/*.c` | `ShellWindows` | modelled, proved |
| Command-line parser of the shell | `Operating Systems/Task1/parser.{l,y}` and the C files generated from them | `Parser` | partly, proved |
| Kprobe tracer | `Operating Systems/Task3/tracer.c` | `Tracer`, `TracerInv` | modelled, proved |
| Spelling trie | `Trie/src` | `Trie` | modelled |
| Task clusters | `Task Clusters/src` | `ClusterManager`, `StandaloneInv` | partly, proved |
| Ultimate tic-tac-toe | `ATMEGA 324 Ultimate Tic Tac Toe/main.c` | `TicTacToe`, `StandaloneInv` | partly, proved |
| Turing machine, algorithm exercises, client library of the link, trie test harness, Swing viewer, display drivers | | | not modelled, see section 10 |

For each: state, operations, what is hard about it, and what makes it correct.

**Thread scheduler.** Simulated threads are POSIX threads of which one, the
current thread, runs. State: the global scheduler (priority table, current
thread, list of threads, quantum, device count) and, per thread, priority,
remaining quantum, state, device and a semaphore. Operations: `so_init`,
`so_fork`, `so_exec`, `so_wait`, `so_signal`, `so_end`. The threads share
everything; a mutex guards most writes but several decisions are taken on reads
made outside it. Correct when exactly the current thread runs, no thread is
lost or woken twice, the order of priorities and the round robin are respected,
and `so_end` returns and frees nothing that is used.

The Windows port is the same algorithm over semaphores that have a maximum and
a mutex with an owner: a release that fails leaves the section without
unlocking. It is correct when that never happens, that is when it behaves as
the library does.

**Link emulator.** Two peers exchange UDP datagrams through a process with
three threads: one receives the sender's datagrams and loses, corrupts or
queues them; one moves them from the queue to a simulated wire with a
serialisation delay and a propagation delay and sends them out; one forwards
answers the other way at once. The queue is shared under a lock and a
condition variable. Correct when what is delivered is an ordered selection of
what was accepted, the queue stays within its bound, the spacing on the wire
respects the bandwidth, and no datagram waits while the scheduler sleeps.

**Datagram file server.** A loop over a fixed number of datagrams that answers
each by mode: plain, acknowledged, parity-checked with retry after a NACK, or
Hamming-coded with correction of one bit. The text commands include a guessing
game by binary search, whose bounds are locals of the function that answers.
Correct when no damaged text is taken for another one, the game is won, and the
conversation ends before the count of datagrams does.

**Chat and file-sharing server.** One thread, one `select` loop; every client
has a socket, a login state and an attempt counter, but the counters are
indexed modulo the number of users and the lists that two-step requests build
are global. The client waits in `select` for its user and the server, and
blocks in `recv` in the middle of a two-step request. Correct when the loop
never blocks, one client's session does not depend on another's, and no client
waits for ever.

**Mini-shell.** Walks a tree of commands with sequence, conditionals, parallel
and pipe, by `fork`, `pipe`, `dup2` and `waitpid`. State: per process the stack
of calls, the descriptors and the children. Correct when the tree is the one
the priorities define, every stream of a program goes where the line says, the
line ends, and the shell has its own descriptors back and no child left. The
Windows port walks parallel commands with threads of one process, so the files
one command opens are inherited by the programs of another.

**Kprobe tracer.** A kernel module: a list of traced processes changed by
`ioctl`, walked by probe handlers on other processors and by a `/proc` reader,
freed on exit, and a list of memory records under two different locks. Correct
when no walk meets a freed node, no probe outlives the module, no processor
spins for ever and the counters agree with the records.

**Trie, clusters, tic-tac-toe.** Sequential programs: correct when what they
keep incrementally through any sequence of operations agrees with a definition
over the whole history.

## 2. Runs

Questions about one component that hold of the same instance share a run, so
that all of them can be repeated in well under half an hour.

| Run | Instance | Properties |
|---|---|---|
| `sched_safety` | 3 threads, 2 priorities and a refused one, quanta 1 and 2, a device and a refused one, forks that fail in handlers | `TypeOK`, `MutualExclusion`, `NoStrayWakeup`, `NoThreadLost`, `NoNullDereference`, `HighestPriorityRuns`, `EndFreesUnused`, `HandsOver` |
| `sched_liveness` | the Windows port, 2 threads, 2 sessions, quanta 1 and 2 | `Library` (refinement), `QueuedThreadRuns`, `EqualsShare`, `EndReturns` |
| `sched_stale_main` | 2 threads, without `MainReturnsFirst` | finding 1: violates `MutualExclusion` |
| `link_all` | 3 datagrams forward, 1 back, a queue of 1, serialisation 2, delay 1 | `BufferBounded`, `Bandwidth`, `NoSleepOnWork`, `ForwardChannel` (refinement), `NothingStuck` |
| `link_assert` | 3 forward, one more tick of lateness | finding 2: violates `NeverAborts` |
| `chat` | 2 seats, 3 typed commands | `TypeOK`, `ReadyStaysReady`, `AnswersTheRequest`, `SizeAnswered`, `Released` |
| `chat_attempts` | the same, 4 typed commands | finding 3: violates `OwnAttempts` |
| `datagram` | all four modes, every byte, 2 damaged texts, 2 refused answers | `Understood`, `GameWon`, `Finishes` |
| `shell` | all lines of 1 and 2 commands, pipelines of 3 | `TypeOK`, `Priorities`, `Restored`, `Plumbing`, `Completes` |
| `shell_windows` | all lines of 1 and 2 commands, lines of 3 that use one file twice | `FilesClosed` |
| `tracer` | 2 processors, 2 processes, 3 calls | `TypeOK`, `LeaksOnlyLate`, `AccountsBalance`, `OnlyRacesCrash`, `EveryCallReturns` |
| `standalone` | 5 openings and 3 moves; 4 operations on each trie; lists of 4 events | `MacroIsTrue`, `SentWhereTheRulesSay`, `ListsTheBag`, `ClustersAreTheRuns` |

Deadlock is checked in none of them, because every program may really stop: the
user stops typing, main never calls `so_end`, a peer is silent, the shell or the
module is gone, a game is over. What must nevertheless go on is a liveness
property of the run.

### Findings

1. `sched_stale_main`: main's `so_fork` may be delayed between its semaphore and
   the check of the child's state until the child has run and forked; main then
   preempts a thread that goes on running (`so_scheduler.c:299`).
2. `link_assert`: `link_scheduler` looks at the queue under the lock, decides
   without it, and asserts under it again that the queue is still empty
   (`link.c:272`). A datagram enqueued in between aborts the process.
3. `chat_attempts`: attempts are counted per descriptor modulo the number of
   users, where the comment speaks of a counter for each client
   (`selectserver.c:87`, `:198`). A descriptor shifted by a directory that is
   never closed lands in another client's slot, and one wrong password closes
   the connection.

The invariants the proofs rest on can be checked on the same instances: the MC
modules extend them, so it is enough to name `IndInv` and `PriorityInv` in
`SoSchedulerSafety.cfg`, `LinkInv` in `LinkEmulatorAll.cfg`, `LoopInv` and
`RequestInv` in `ChatServer.cfg`, `DatagramInvariant` in `DatagramServer.cfg`,
`GameInvariant` and `ClustersInvariant` in `Standalone.cfg`, or
`TracerInvariant` in `Tracer.cfg` with the module `TracerInv` and a finite range
for `Nat`. They hold. They are not runs of their own, because the theorems say more.

Other oddities met while modelling are listed with each program under
"Observed"; the models contain them as the code has them.

## 3. The thread scheduler and its Windows port

### Modules

* `PriorityTable`: `priority_table.c` and the lists of `t_list.c` as pure
  operators on a function from priorities to sequences.
* `SoScheduler`: `so_scheduler.c`; constants, variables, one action per step,
  the specifications and all properties.
* `SoSchedulerInv`: the inductive invariant and the assumption `SingleRoot`.
* `SoSchedulerWindows`: `WINDOWS/so_scheduler.c`, each function as that of the
  library with the failing release and the mutex it leaves behind.
* `SoSchedulerMC`, `SoSchedulerWindowsMC`: model values and symmetry for TLC.
* `SoSchedulerProofs`: theorems about both.

### State and atomicity

The variables have the names of the globals and of the fields of `thread_t`.
`pc[a]` is the place of an actor (a forked thread or main) in the code,
`child`, `prev`, `expired`, `io`, `p` are locals of its calls. `semaphore[t]`
is the thread's semaphore and `args_sem[t]` the one `so_fork` waits on.

A section under the mutex is one step, since every other writer of what it
touches either holds the mutex or is modelled at the granularity of one access.
A read or write outside the mutex is a step of its own:

* `so_fork` reads the child's state unlocked (`so_fork_check`);
* `check_scheduler` tests `current_thread` unlocked (`check_scheduler`), then
  decrements the quantum under the mutex (`check_scheduler_locked`);
* `compare_priorities` tests head and current thread unlocked, decides and
  swaps under the mutex (`compare_priorities_locked`), and waits on the
  preempted thread's semaphore after unlocking (`compare_priorities_wait`);
* `th_handler` tests, assigns and removes in three unlocked steps
  (`th_handler_first`, `_claim`, `_pop`);
* `so_wait` marks the thread, schedules (`so_wait_schedule`), then waits
  (`so_wait_block`); one turn of the loop of `so_signal` is a step, as is one
  `pthread_join` of `so_end`.

A call that returns an error without changing anything is a stuttering step,
and so is a `so_init` whose allocation fails. `pthread_create` may fail in the
actors of `ForkErrors`. Main is not one of them: after a failed call of main the
count of threads is one too high, the test `nr_threads > 1`
(`so_scheduler.c:164`) takes the first thread for a later one, and main
looks at the head of the table while that thread removes it. With main in
`ForkErrors` TLC finds `NoNullDereference` violated. `th_handler` sets its fields and semaphore before it
takes the mutex, on a structure nobody else can see yet: that is in
`th_handler_start`. A dereference that would be of NULL is a guard of its
step, and `NoNullDereference` says that the guard never fails.

The program that uses the library is the environment: main forks `RootForks`
threads a session, handlers call anything. `MainReturnsFirst` restricts it to
programs in which no handler forks while main is still inside `so_fork`.

### The Windows port

The text of the port differs from the library's in the calls. A semaphore is
created with a maximum of 1, so `ReleaseSemaphore` fails on one that is already
posted, and on the closed handle of a thread that has ended; the code that finds
it failing returns at once, before `ReleaseMutex`. `owner` is the actor that has
left a section that way. `Takes` lets the owner take the mutex again, as Win32
does, and everybody else wait; the mutex of a thread that ends is abandoned and
free again. Each `win_` action is the library's action conjoined with
`UNCHANGED owner`, or, where a release may fail, the two outcomes.

`Library` is the specification of the library, checked as a property of the
port and proved: the failing branches are never reached, so the port has the
library's behaviours and nothing else. That is why the liveness of the library
is checked on the port: it is the same run.

### Bounds

Three threads are the fewest with a running, a queued and a blocked one at
once, so that `so_signal` can insert behind a queued thread and preemption can
choose; two priorities give a greater, an equal and a smaller one; a quantum of
2 lets a thread survive one `so_exec`. Two sessions let a second `so_init` find
what the first left. `UINT_MAX = 3` is the width at which the decrement wraps.
Threads are interchangeable, so the safety run uses symmetry; the run with
liveness does not.

### Fairness

`WinFairSpec` makes the steps of a library call, of a thread and of main's joins
weakly fair and nothing else: each is a runnable thread, and the system runs
it. What a program must contribute is a hypothesis of the property that needs
it. `HandlersReturn` (strong fairness of `th_handler_return`) says that a
handler that gets the processor again and again returns at last; without it a
thread that loops in `so_fork` would starve the others by the program's choice.
`HandlersExec` says the same of `so_exec`: `EqualsShare` needs no handler to
return, because the expiry of the quantum alone must bring every queued thread
to run, unless the processor is held by a thread of greater priority or one
that is still marked WAITING. A handler may wait for a device for ever, so
`EndReturns` allows exactly that outcome (`Stuck`).

### Observed

Two threads forked by main can both pass the unlocked test
`current_thread == NULL` (`so_scheduler.c:216`). A failed `pthread_create` is
counted (`:282`), so the next first thread is not recognised. The quantum of a
thread that is not preempted when it expires wraps around (`:165`). A thread
back from `so_wait` keeps the state WAITING and is never preempted again
(`:330`). With no devices, `io_dev - 1` wraps and no device number is refused
(`:317`). The first two and the last are why `SingleRoot` is assumed below.

### Proofs

`TypeCorrect` holds of every program and all constants. The other theorems
assume `SingleRoot`: main forks one thread, returns first, does not see its own
`pthread_create` fail, and gives at least one device; finding 1 and the
observations above show that each part is needed. Under it `IndInv` is inductive
(`IndInit`, `IndStep`, `Invariance`) and the theorems follow for any number of
threads, priorities, devices and quanta:

* `MutualExclusionHolds`, `NoStrayWakeupHolds`, `NoThreadLostHolds`,
  `NoNullDereferenceHolds`, `EndFreesUnusedHolds`, `DeviceExistsHolds` from
  `IndInv` alone; `HandsOverHolds` from `IndInv` at the two ends of a step.
* `PortImplements`: in a state of `IndInv` a thread in the table has its
  semaphore at 0 and has not ended (`HeadReleased`), and the parent of a thread
  that becomes ready has not been woken (`ParentReleased`), so no release fails,
  so every step of the port is a step of the library (`PortStep`), which keeps
  `IndInv`. `MutexReleasedHolds`: no thread goes on as owner of the mutex.

Mutual exclusion is not inductive. That nobody else passes the semaphore needs
`InvSemaphore` (a semaphore is 1 exactly between the hand-over and the wait),
which needs `InvPrev` (a thread waits on its own semaphore). That the thread
handed over to is blocked needs `InvTable` (the table holds blocked threads
only, once, at their priority). `so_signal`'s insertion keeps that because of
`InvDevice` (a thread with a device waits and is not in the table). That the
first thread does not race needs `InvRoot`, `InvFork` and `InvMain` (the root
is alone until main is out of `so_fork`). `InvComplete` and `InvList` are for
`NoThreadLost` and `EndFreesUnused`, and `InvCurrent` says that the current
thread is alive, which the joins of `so_end` and the reuse of identities need.

* `HighestPriorityRunsHolds` from `IndInv` and `PriorityInv`, a second layer over
  it. The property speaks of handlers only, where a decision has just been
  taken; `InvTopmost` extends it to a thread that is current but has not yet got
  its post, and to the way back from `so_fork`. It needs `InvReady` (a child
  that its parent tests has not run, so its mark is still READY) and `InvCount`
  (`nr_threads` never lets `check_scheduler` take one of two threads for the
  only one).

Model-checked only: the liveness properties.

### Not modelled

Failures of `malloc`, `sem_init`, `CreateSemaphore` and `CreateMutex`; the life
of `th_args`, whose semaphore `so_fork` destroys possibly after the child has
freed it (`so_scheduler.c:302`); statistics and messages.

## 4. The link emulator

### Modules

* `LossyFifo`: what a direction promises. Datagrams are numbered in the order
  of sending; a step sends, damages, loses or delivers one. `InOrder` is what a
  peer relies on, and `ChannelKeepsOrder` proves that the channel has it.
* `LinkEmulator`: `link.c` and `queue.c`; the three threads and the clock, all
  properties, the refinement mapping and the inductive invariant `LinkInv`.
* `LinkEmulatorProofs`: theorems.

### State and atomicity

`buffer`, `link_up1`, `link_up2` are the globals; `crt_time`, `idle_time`,
`stuff` and `in_flight` are locals of `link_scheduler`, `overflow` and `fw_m`
of `run_forwarding`, `rev_m` of `run_reverse_forwarding`. A queue is a
sequence whose head is the list's `last` cell; a datagram is its number and
whether a bit was flipped. `received1`, `received2`, `delivered1`
and `delivered2` record what passed the sockets.

| Step | Code |
|---|---|
| `link_scheduler_top` | reads the clock into `crt_time`, line 187 |
| `link_scheduler_send` | one turn of the loop that sends what is due, 194-217 |
| `link_scheduler_peek` | the locked look at the queue, 219-221 |
| `link_scheduler_put` | takes the datagram and reserves the wire, then chooses the sleep, 227-269 |
| `link_scheduler_wake` | returns from `usleep` |
| `link_scheduler_idle` | asserts and waits on the condition variable, 271-276 |
| `link_scheduler_resume` | returns from that wait, signalled or not |
| `receive_message1_first`, `receive_message1` | the datagram that only tells the peer's address, and the others |
| `run_forwarding_check` | the locked size test, 296-298 |
| `run_forwarding_drop`, `run_forwarding_enqueue` | what follows from it and from the dice |
| `receive_message2_first`, `receive_message2`, `send_message1` | the other direction |
| `read_error` | a failing `recvfrom` ends the process |

A section under `buffer_lock` is one step with the private computation next to
it. Between two steps other threads run and the clock advances (`Tick`), so
`crt_time` may be out of date whenever it is used: that is the interesting part
of this program. `sendto` fails while the address of the peer is unknown, and
the datagram is freed all the same. A NULL from `dequeue` that
`assert(mif->m)` would meet is a guard of `link_scheduler_put`, and
`StuffStays` says that the guard never fails.

### The refinement

`Forward` maps the abstract channel to `OnTheWire \o buffer \o fw_m`: the
datagrams on the wire, then those queued, then the one in the hands of the
forwarding thread. `link_scheduler_put` and an undamaged
`run_forwarding_enqueue` stutter; a damaging one is `Damage`, a drop is `Lose`
of the youngest, a failed send `Lose` of the oldest, a send `Deliver`.
`Reverse` maps it to `rev_m`.

### Bounds

Two datagrams and a queue of one are enough for an overflow and for two
hand-overs at once; the third finds the wire busy, because the scheduler wakes
for the first before the second has left the wire free. `loss` and `corrupt`
between 0 and 100 allow both outcomes of each throw. Time passes only while a
timer is pending and `MaxLag` beyond the last one: in `link_all` a thread may
be late by as much as a later timer allows, in `link_assert` by one tick more.
`MaxForward`, `MaxReverse` and `MaxLag` bound the exploration only: the
theorems hold for all of them.

### Fairness

The scheduler, the forwarding thread's steps after `recvfrom` and
`send_message1` are weakly fair (runnable threads), and so are `Tick` and the
return of a *signalled* wait. Nothing makes a peer send, and a wait that is not
signalled may last for ever: with `pthread_cond_signal` dropped, `NothingStuck`
fails.

### Observed

The wire is reserved from the reading of the clock at the top of the loop
(`link.c:243`), so a datagram that arrived after it may leave before the
configured delay has passed since its arrival; `Bandwidth` still holds. The
serialisation delay `2 * 11200 / value` of the command line makes the speed half
of what `main` prints. While the wire is free and a datagram is in its propagation delay,
`wait_time` stays 0 and the scheduler goes round its loop without sleeping.

### Proofs

`LinkInv` is inductive (`LinkInit`, `LinkStep`, `LinkInvariance`), for every
capacity, delay, rate and number of datagrams.

* `BufferBoundedHolds`: `InvQueue` says that the answer "not full" stays right
  between the two locked sections, because only this thread enqueues.
* `StuffStaysHolds` (with `LinkInvariance`) is inductive by itself: only the scheduler dequeues.
* `NoSleepOnWorkHolds` needs `InvIdle`: a scheduler that decides to wait has an
  empty wire; an enqueue during the wait signals it.
* `BandwidthHolds` needs `InvWire`: the time until which the wire is reserved
  covers everything that was put on it, and `crt_time` never runs ahead.
* `ForwardChannelHolds`: each step is a step of `LossyFifo` or a stutter under
  the mapping (`SendRefines` to `EnqueueRefines`, `ForwardStep`), from lemmas
  on `Head`, `Tail`, `\o` and `Append`; it needs `InvHeld`, which says what
  `fw_m` holds.
* `ForwardInOrderHolds`: that refinement and `ChannelKeepsOrder`, the theorem about
  the abstract channel, instantiated under the mapping.
* `ReverseChannelHolds`: the same for the one datagram of `rev_m`.

Model-checked only: `NothingStuck` (liveness).

### Not modelled

The command line, the creation of sockets and threads, `lib.c`, and the
contents of datagrams beyond a flipped bit.

## 5. The chat and file-sharing programs

`ChatServer` models `selectserver.c` and `client.c` together, since half of the
protocol is in each; `ChatServerMC` gives the users of the instance.

`backlog`, `fdOf`, `tmp_fds` and `leaked` are the server's descriptors:
connections not accepted, the socket of each client, the ready set still to be
visited, and the directories that `getfilelist` opens and never closes.
`client_attempts`, `list`, `flist` and `eroare` are the globals every client
shares. `inbox` and `outbox` are the two directions of each connection. A seat
(`Clients`) is taken by one client process after another; `pc` says where the
process is, `authenticated`, `command` and `buffer` are its locals, of which
`buffer` keeps what the last `recv` left there.

| Action | Code |
|---|---|
| `select`, `accept`, `hang_up` | the top of the loop, a new connection, `recv` of 0 or an error; `selectserver.c:100-143` |
| `login` ... `other` | one command each, with its effect on the counters and globals |
| `users`, `files` | the second half of the two-step requests |
| `type_refused`, `type_sent` | the client's branch on its standard input |
| `receive_size` | the blocking `recv` and the second request, `client.c:157-165`, `198-206` |
| `receive_reply` | the branch on the socket |
| `connect`, `kill` | a process starts, or is interrupted in the middle of a request |

The loop visits the ready descriptors one at a time, in order; clients act
between two visits, so the ready set is old when it is used. `recv` of the
server takes any number of waiting commands and obeys the first (`Segment`);
what it loses that way is recorded in `dropped`. `exchange`, `mixed`, `dropped`
and `failed` are history variables, for properties only. A reply fits one
`recv` of the client and users type commands of the documented set or a wrong
word; a client is interrupted only while it is blocked, which is the case that
matters.

* `ReadyStaysReady`: no visit blocks the only thread of the server.
* `AnswersTheRequest`: the list a client is about to be sent is the one it asked
  for, unless two-step requests overlapped or a command was lost. The two
  exceptions are real: they are what the shared globals and the missing framing
  do, and the history variables say exactly when.
* `SizeAnswered`, `Released`: no client waits for a size for ever, and a client
  that has ended is closed.

Fairness: the server and a client with something to read are runnable
processes. Nothing makes a user type. Bounds: two seats are enough for two
clients to share a global and, with `N = 2` counters, a slot; a third
connection appears when a seat is taken again. Three commands in all let one
client start a request, another overlap it, and a third command fall between.

Observed: the flag `eroare` of one client's `getfilelist` is read by whichever
client asks for files next (`selectserver.c:450`); `strlen` of a list that is
not there ends the server, as does a user without a directory; after
`getuserlist` the client's reply branch looks at an old `buffer`; accepting a
connection resets the counter of the listening socket's slot (`:127`).

### Proofs

`ChatServerInv` holds two inductive invariants, `ChatServerProofs` the theorems,
for any number of clients, users, counters and typed commands.

* `TypeOKHolds`, `ReadyStaysReadyHolds` from `LoopInv`. That a ready descriptor
  stays ready needs `InvFds`: a new connection is counted once in the
  backlog and gets a descriptor that no file and no client has, so one visit
  cannot take away what another was ready for.
* `AnswersTheRequestHolds` from `RequestInv`, which says nothing once requests
  have overlapped or a command was lost, and otherwise that the stream of each
  client is in the order its program sends it: a second request stands right
  behind its first one (`InvStream`), a client that waits for a size has sent
  nothing since (`InvWaiting`), and one exchange is open at a time, which owns
  the lists and `eroare` (`InvSingle`). It assumes `UsersAskInOrder`: nobody types
  `users` or `files`, which `client.c` sends by itself.

Model-checked only: `SizeAnswered` and `Released` (liveness).

## 6. The datagram server

`DatagramServer` is `server.c` against the client that its Makefile links from
`client.o`; the client is external and is modelled from the texts the server
answers and the order in which it must answer them. A text is its sequence of tokens,
and one byte of it stands for all where bits are coded. `main_none`,
`main_ack`, `main_parity` and `main_hamming` are one turn of the four loops;
`Token` and `Walk` are the search for `word`, `Interval`, `Smaller` and
`Bigger` the binary search, `parity`, `coded_byte` and `decoded_byte` the codes.
`toServer` and `toClient` are the link, which keeps the order and flips at most
one bit of a text.

The locals `low`, `high`, `mid` and `t` are not initialised in the call that
reads them (`server.c:328`): they are what the last call left in the frame. The
model lets the bounds survive, except in Hamming mode, where the calls that decode
and encode run in between and they may also be lost; after a NACK, `t` may hold the
last answer or anything. `lost` records that such a value was read.

* `Understood`: for all 256 bytes and each damaged bit, the parity refuses or
  the code corrects: the server never takes a text for another one.
* `GameWon`: the client fails only if a local was lost, or if it refused the
  first of two answers: `t` repeats the second one.
* `Finishes`: the conversation ends before the server has counted `COUNT`
  datagrams, with every repetition counted.

Bounds: numbers below 14 in 4 guesses stand for numbers below 1000 in 10: in
both the interval is just narrow enough for the search. Two flips and two
refusals let a repetition be damaged again. Fairness: `Client` and `Server` are
each a process that is run. Not modelled: a lost datagram, which blocks the
server in `recv` for ever (`server.c:545`), as it has no timeout.

### Proofs

`DatagramServerProofs` proves `UnderstoodHolds` and `GameWonHolds` for any set of
letters and modes and any counts of datagrams, damage and refusals, from
`DatagramInvariant` (in `DatagramServerInv`).

* The lemma `HammingCorrects`: for each byte and each damaged bit `decoded_byte`
  finds the byte again. A byte is a function from its 8 bits, so the argument is
  by the place of the bit: which of the sums of the code it disturbs, and that
  `Place` is then that bit. `ParityRefuses`: one damaged bit changes the parity.
* The game is won because of the interval the server keeps in the locals, which
  the property does not mention. It depends on how far the conversation is.
  Between two of the client's texts it is in one of six phases, which say what
  is on the way in each direction: `Saying`, `HasAsked`, `Acknowledged`,
  `Refused`, `Listening`, `AskedAgain`. In those where the server has not yet
  obeyed the last text, `ToNarrow` says where the number is relative to the
  old bounds; in the others `Narrow` says it of the new ones. Both bound the
  interval by `Reach`, the numbers that the guesses left can tell apart, so a
  client that is out of guesses has been told its number. `Astray` is the
  phase after the first of two answers was refused.
* `LastTold`: `t` holds the last answer, so that a repetition after a NACK is
  what the client expects.

The assumption `EnoughGuesses` says that halving a closed interval of `High + 1`
numbers takes at most `MaxTries` guesses; 1000 and 10 satisfy it.

Model-checked only: `Finishes` (liveness).

## 7. The mini-shell and its Windows port

`Parser` is the grammar of `parser.y`: the shift-reduce loop with the
priorities of its `%left` declarations, and the lists of words that
redirections build; the actions are mapped to `parser.tab.c`, which the program
is built from. `Shell` is `cmd.c` and `main.c`; `ShellWindows` the port;
`ShellMC` and `ShellWindowsMC` name the lines.

**Shell.** A process has a stack of calls of `parse_command`, a table of
descriptors and the value the last call returned. Each system call that another
process can see, or that can wait, is a step: `fork_program`, `execvp`,
`wait_program`, `do_in_parallel`, `do_on_pipe` in its steps, `redirections` one
file at a time. Descriptors, processes and pipes get the lowest free number, as
in POSIX, because the code depends on it (`close`, then `dup`). Two values that
nothing has set are nondeterministic: what a sequence returns (`cmd.c:553`) and
what `cd` without a directory does; so is the number in `fd` when neither flag
test holds. `open` of a missing file, `dup2` of a closed descriptor and the
parser's last `assert` end the process that does it.

* `Priorities`: the tree is that of a definition which splits a line at its
  loosest operator, written without the parser's stack.
* `Plumbing`: every stream of a running program goes where the line says, and
  neighbours of a pipe meet in one pipe.
* `Restored`: at the prompt the shell has its terminal back, no other
  descriptor, and no child left.
* `Completes`: no line waits for ever for the end of a pipe.

Two kinds of redirection do not mean what they say (see "Observed"), so
`Plumbing` speaks of the programs without one (`Regular`): one that appends one
output and redirects the other too (`Skips`), and one after `&>` (`Shares`). A
`cd` of the first kind goes wrong in the shell itself: `fd` may be one of the
shell's own descriptors, and the shell is not restored. `NoCdSkips` excludes
such lines from `Restored` and `Plumbing`, and only them.

Bounds: all lines of one and two commands over eight verbs and the
redirections, and the pipelines of three beside another operator, where the
nesting of saved descriptors matters. `Pids`, `Slots` and `Pipes` are large
enough for these lines; a call that finds none free waits here, so a table that
is too small shows as a violation of `Completes`.
Fairness: every process and the shell's own loop run; a user need not type.
Names are matched exactly where the code compares prefixes with `strncmp`; a
syntax error prompts again and changes nothing, so such lines are left out.

Observed: with both `>>` and `2>>` a second redirection is lost (`cmd.c:172`; the port
truncates instead); a failed redirection of `cd` ends the shell (`:82`); `&>`
puts one node in two lists, so what is redirected after it is redirected for
both outputs, and a second `&>` fails the parser's `assert` (`parser.y:373`).

**ShellWindows.** Commands in parallel are walked by threads of the one shell
process. `files` are the open handles with their access and sharing modes, of
the shell or of the program that inherited them: every handle is inheritable
and `CreateProcess` passes on all that are open. The sharing rule is Win32's
and external. `DIE` ends the shell with all its threads. Values that nothing
has set are free: what `cd` without a directory, a sequence and a pipeline
return, and the exit code of a program that could not be started. `do_on_pipe` is never
called, because its call is commented out, and is left out; so is which handle
serves which stream of a program.

`FilesClosed`: at the prompt no file is open, whatever failed and however
threads and programs interleaved; and opening a file ends the shell only if it
is missing, if one command clashes with itself, or if two clash that stand in
one list with a parallel operator. They clash there even when one runs after
the other: a program started in parallel has inherited the first one's file.
What a command clashes with is said from the text of the line: `Share` is how
it opens the file of a redirection. Observed: `2> x &> f` clashes with itself
(`Tangled`), because the loop sees the two outputs go to different files and
opens `f` for the first alone; and a file is opened for others to write when a
command appends its output, but not when it appends its errors too.
Bounds: lines of one and two commands, of two parallel ones with several
redirections each, and lines of three that use one file twice; five threads,
the most such a line has at a time.

### Proofs

`ParserProofs` proves `ParserFollowsPriorities`: for lines of any length the
shifts and reductions build the tree of the priorities. The invariant of the
loop is that the commands on the stack are finished parts of the line, that the
operators on it bind more and more tightly, and that each part is the tree of
its own interval; a reduction joins the last two because the operator between
them is the loosest of the joint interval. Its lemmas about the lists of words
(`WordsInv`) are an induction over the redirections.

`ShellProofs` proves the four invariants of `Shell` for any set of lines of any
length and any `Pids`, `Slots` and `Pipes`. The inductive invariant is
`IInv`, of two parts.

* `TypesOf`: every process is well formed (`Sound`). The calls on its stack are
  on parts of the tree, each on an operand of the one below it, and a child that
  a frame waits for has this process as its parent, and no other child is left.
* `WiresOf`: there is a place in the line for every pipe, such that in each
  process the descriptors are those of its part of the line (`Plumbed`). A stack
  is read from the outside in: each frame that runs the left side of a pipe has
  put the pipe's end in place of an output it saved (`Unwinds`), so the table
  that is left when all of them return is the one the process started with.
  Between two opens of a redirection the table is the wired one but for
  the streams already moved, and the saved copies are where `io` says (`SavedOK`).
  A place of a pipe is forgotten when no descriptor leads to it any more.

`Restored` is then the case of the empty stack and `Plumbing` that of a program.
`WiresOf` is assumed only where no `cd` skips (`NoCdSkips`), `TypesOf` always.

`ShellWindowsProofs` proves `FilesClosed` (`FilesAreClosed`) for any set of
lines of any length and any set of threads. The inductive invariant is `WinInv`:
either the shell prompts, with no file, no program and no thread but its own
(`Prompting`), or it executes a line (`Executing`), of which three things hold.

* `ThreadsInv`: each thread is awaited by one whose call is on a larger part of
  the line (`Held`), and the parts that two threads have still to begin are apart.
  So no command is executed twice, and when the first thread's call is over no
  other thread is left: the largest one left would be awaited by nobody.
* `FilesInv`: an open file is held by a thread in its command or by a program
  that a thread waits for, so none is open when the threads are gone; and its
  command is part of what the first thread executes (`Now`), a simple command or
  a parallel one. Two commands with open files are then in one list with a
  parallel operator, and their clash is one of `ClashInParallel`.
* `NodesInv`: every file that a command has open was opened for a redirection
  that the loop has passed, with the access and sharing it gives (`NodeOf`). A
  clash inside one command is then one that `ClashesItself` reads from the text.

Model-checked only: `Completes` (liveness).

## 8. The kprobe tracer

`Tracer` is `tracer.c`. `proc_data` and `mem_data` are the two lists, `pdl` and
`mdl` every node ever put in them, `freed` those given back: a walk that meets
one is `status = "oops"`. Each processor (`cpu`) executes one call at a time,
one visited node a step; `lock` are the three spinlocks. The five probes that
only count are one here. `kfree` inside the module fires the `kfree` probe on
the same processor, so the removals continue after a nested handler
(`Kfree`, `ret`).

* `OnlyRacesCrash`: the module brings the kernel down in two ways only: a node
  freed while another processor walks its list, because the walks take no lock
  or another one (`tracer.c:122`, `:166`), or a failed initialisation that left
  a probe registered (`:471`). Everything else, the safe walks, the nested probes
  and the order of the exit, never does. The property states both, as the code
  has them.
* `LeaksOnlyLate`: what is left when the module is gone was recorded after the
  exit function had begun (`:628`).
* `AccountsBalance`: the memory counters of a process in no probe differ by the
  memory it has recorded since it was added.
* `EveryCallReturns`: no processor spins for ever; with one lock for both sides
  it would (`:241`).

Fairness: a processor goes on with the call it executes (`Continue`); nothing
makes a process call again. Bounds: two processors for every race of a walk
and a removal; two processes for the removal that must leave the other's
records; three calls, which are an allocation, the call that frees, and the one
that walks. Left out: interrupts that free memory while a spinlock is held on
the same processor, `kmalloc` of size 0 or returning NULL, and `maxactive`.

### Proofs

`StandaloneProofs` has them. `TracerInvariant` (in `TracerInv`) is inductive for any number of processors,
processes and addresses and any bound on calls and records; `TypeOKHolds`, `LeaksOnlyLateHolds`,
`AccountsBalanceHolds` and `OnlyRacesCrashHolds` follow from it.

* `OnlyRacesCrash` needs `InvWalks`: as long as no walk and no removal have
  overlapped, every node a walk stands on is still on its list. For the nested
  `kfree` probe that is true only because the removal keeps the lock
  (`InvLocks`) and has already stepped to the next node (`PurgeOK`).
* `LeaksOnlyLate` needs `InvExit`: memory recorded before the exit began is
  still ahead of the walk that frees, and only one processor exits.
* `AccountsBalance` needs `RecordOK`: the counters differ from the recorded memory
  by exactly what a process in a probe has still to count or to record
  (`Pending`), and a probe that counts has not passed the record (`NotPassed`).

Model-checked only: `EveryCallReturns` (liveness).

## 9. The programs that run alone

`StandaloneMC` puts the three in one state space; `program` says which one the
behaviour is of.

**`TicTacToe`.** `mBoard`, `mMacroboard` and `turn` have their names; `move_X`
and `move_O` are a press of a button with the whole of `make_move`, which calls
`setMove` and `setMicroWins`. `MacroIsTrue` says that the macro board, kept
incrementally, is right about every small board; `SentWhereTheRulesSay` that
the boards where the next move is allowed are those of the rules: exactly after
X's move, at least after O's. The openings lead to a board decided by the move
that sends there, a line of each kind, and a full board; three free moves follow. Not
modelled: the search of the computer player, commented out in `main`, and the
display. Observed: O's move does not take back the boards a free move left
active, so X is not confined; `checkMacroVictory` returns a `bool`, so X's
victory and a tie look like O's; the game goes on after a victory; `unMove` is
not the inverse of a move.

**`Trie`.** `add`, `remove`, `count` and `getSortedElements` for both
`TrieElement`s. A word is a sequence of codes, and `encode`, the lower case and
the characters dropped by `Trie2` are what they do. `ListsTheBag` compares
counts and listings with the history `log`. Observed: the empty key of `Trie2`
is the root; removing one of several words with one key may keep the string of
the one that was removed, which the property allows; characters outside the alphabet have no index.

**`ClusterManager`.** `cluster` is a turn of the loop over the events,
`add_rest` one of the loop over `map.values()`, in any order. Times between events
are 0, 1, 10 (the window) and 11. `ClustersAreTheRuns` states what is returned:
each cluster is a run of events of one type, two have no event in common, and
the events in none are exactly those of `ComesAloneLast`, both ways. Its two
mutants are a window that moves with each event, and a last loop without the
test of the size.

That test departs from its comment. `ClusterManager.java:108-111` adds the
remaining clusters "cu conditia sa aiba cel putin un eveniment" (provided they
have at least one event), which all of them have; `:113` drops those of exactly
one. The property states the code: it fails of the mutated form `add_restAll`,
which does what the comment says. The test is made only of clusters still open
at the end, so a lone event that another of its type follows is a cluster. Not
modelled: the parsing of logs and the counts in `Task.java`.

### Proofs

`StandaloneInv` holds the invariants, `StandaloneProofs` the theorems.

* `MacroIsTrueHolds`, `SentWhereTheRulesSayHolds`: for games of any length from
  any opening. `GameInvariant` strengthens `MacroIsTrue` to the status of every
  board, decided or not: a move looks only at the lines through its own cell,
  which is enough only because the others were counted before.
* `ClustersAreTheRunsHolds`: for any types, gaps and number of events. The result is built
  from `map`, so `ClustersInvariant` says what is in it: the open cluster of a
  type has all its events from its first on (`OpenIsLast`), a listed one is a
  window older or the open one with several events (`ListedIsOlder`), two listed
  ones of a type are a window apart (`ListedApart`) and each event is in the
  open one or a listed one (`NoneIsLost`). With them, an event that comes alone
  as the last of its type is in no listed cluster, and any other is in one.

Model-checked only: `ListsTheBag`. The trie is a recursive function over words
and what it lists an induction over them.

## 10. What is proved, and what is not modelled

| Component | Proved for all constants | Model-checked only |
|---|---|---|
| Scheduler and port | all safety properties, `HandsOver`, `Library` | `QueuedThreadRuns`, `EqualsShare`, `EndReturns` |
| Link emulator | all safety properties, `ForwardChannel`, order | `NothingStuck` |
| Chat | all safety properties | `SizeAnswered`, `Released` |
| Datagram server | all safety properties | `Finishes` |
| Tracer | all safety properties | `EveryCallReturns` |
| Game, clusters | all | |
| Trie | | `ListsTheBag` |
| Shell and parser | all safety properties | `Completes` |
| Shell, Windows port | `FilesClosed` | |

The assumptions are those on the constants in the modules (`EnoughGuesses` is the
only one with content) and the hypotheses `SingleRoot` of section 3 and
`UsersAskInOrder` of section 5. Liveness is out of the prover's reach. Of the safety properties only `ListsTheBag` is not proved.

Not modelled:

* Client library of the link, trie test harness, Swing viewer, display drivers:
  pure input and output.
* Turing machine: a sequential interpreter of a table it is given, without an
  invariant of its own.
* Algorithm exercises: three functions without state between calls; no document
  of the repository states what they should compute.
* The tables of the generated parser (`parser.tab.c`, `parser.yy.c`): modelled
  through the grammar they are generated from. Its loop and the actions copied
  into it are modelled where the program runs them, in `parser.tab.c`.
  `WINDOWS/parser.tab.c` holds the same grammar, generated again.

Left in the plan: `ListsTheBag`; the measures of
`Task.java`; a datagram server over `LinkEmulator` with loss.

TLC checks the instances above and no larger ones. TLAPS does not prove
liveness under fairness or anything about ENABLED, cannot use the induction
theorems that take an operator, and loses its SMT backend in a module that
reaches a RECURSIVE operator; such things are left to TLC. No module here
declares one.
