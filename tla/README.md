# A verification of the operating-systems labs

TLA+ modules that model the concurrent and stateful programs of this
repository, TLC configurations that check them on small instances, and
theorems about all of them that TLAPS checks for all sizes. Paths are relative to
`src/`.

1. [The system](#1-the-system)
2. [The plan](#2-the-plan)
3. [The modules](#3-the-modules)
4. [The runs and their bounds](#4-the-runs-and-their-bounds)
5. [Fairness](#5-fairness)
6. [What is proved](#6-what-is-proved)
7. [Where the code and its comments part](#7-where-the-code-and-its-comments-part)
8. [What is not modelled](#8-what-is-not-modelled)

## 1. The system

The repository is a set of programs, one per lab. They share no code, but they
share mechanisms: POSIX threads with one mutex and condition variables, child
processes and signals, sockets, FIFOs and shared memory.

| Component | State | Operations | What is hard |
|---|---|---|---|
| Reader-writer lock, `pthreads-sync-code/rwlock` | `readers`, `writers_waiting`, `writer_active`, two condition variables | `ReaderLock`, `ReaderUnlock`, `WriterLock`, `WriterUnlock`, in two versions that differ in one loop condition and in who is woken | whom an unlock wakes; that a woken thread competes with new ones; that no wakeup is lost; starvation |
| Master-worker pool, `pthreads-sync-code/master-worker/master-worker.c` | `item_to_produce`, `buffer`, `curr_buf_size`, two condition variables | masters produce, workers consume, `main` joins | `item_to_produce` is tested before a wait and used after it; the end of production is announced to nobody; the buffer is a stack |
| Zemaphore, `pthreads-sync-code/zemaphore` | a counter, a mutex, a condition variable | `zem_init`, `zem_down`, `zem_up`; test programs `test-toggle.c`, `test-zem.c` | `zem_down` waits under an `if`: threads that barge in, wakeups without a signal, negative counts |
| Sleeping barber, `pthreads-sync-code/own-sync-problem/barber-cv.c` | `waiting_customers`, `chairs`, two condition variables | `barber`, `customer` | a counter raised by one thread and lowered by another; a wait without a loop |
| Taking turns, `pthreads-sync-code/warmup_ex/ex3.c`, `ex4.c` | `turn`, a mutex, a condition variable | threads print in the order of their indices, once or in `N` rounds | every thread wakes for every turn; `main` resets the counter without the mutex |
| Allocators, `malloc-code/alloc.h`, `ealloc.h` | a table of free chunks, a table of block sizes, the pages | `init_alloc`, `alloc`, `dealloc`, `cleanup` | two tables that must describe the same blocks after any sequence of calls; pointers that are no blocks; the last place where a block fits |
| Key-value store, `kv-server/kv-server.c` | `store`, `kv_count`, malloced values | create, read, update, delete | delete moves the last pair into the hole |
| Key-value server and clients, `kv-server/kv-server.c`, `kv-client.c` | the connection served, the backlog, messages under way | accept, read and write loops; connect, command, disconnect, exit | several clients connected while one is served; killed clients; one `read` taken for one command |
| Echo servers and client, `kv-server/simple-server.c`, `epoll-server.c`, `simple-client.c` | the backlog, the accepted connections, the kernel's list of events to report, the batch under way, lines and answers in the sockets | connect, send, read; accept, read and write, for one connection or, with epoll, for all | an edge-triggered event is reported once, and one `accept` follows it however many connections came; an end of file is answered like a line; clients that leave at any moment |
| Shell, `shell-code/my_shell.c` | `fg_pid`, `parallel_pids`, `background_pids`, `stop_execution`, the children | foreground, `&`, `&&`, `&&&`, `\|`, `exit`, the SIGINT handler | SIGINT between any two steps; forks that fail; pids kept after they were reaped |
| Shared-memory producer and consumer, `ipc-code/shm-posix-*.c` | slots, a FIFO of offsets | produce, consume | two processes on one memory without a lock; both killed and restarted; FIFOs, and offsets in them, left over |
| Samples and exercises | next to none | | see [section 8](#8-what-is-not-modelled) |

The components interact only inside a lab: threads through the mutex and its
condition variables, servers and clients through TCP, the shell
and its children through fork, signals and wait, producer and consumer through
the slots and the FIFO.

What makes each of them correct:

* *rwlock*: the counters say what the threads do; a writer is alone inside;
  nobody sleeps whom nobody will wake; writers go first where that is promised;
  every call returns.
* *master-worker*: an item is in one slot or consumed, and consumed once; no
  worker leaves while there is work; overproduction is bounded; everything asked
  for is consumed and every thread returns.
* *zemaphore*: nobody sleeps on a free unit; the test programs print what their
  texts say, and return.
* *taking turns*: the lines come in the order of the indices in every round, no
  thread of a round is left when the turn is reset, and all return.
* *barber*: chairs and haircuts are counted exactly, up to one chair for each wait
  that returns without a signal; the barber does not sleep
  while somebody waits; every customer's thread ends.
* *allocators*: blocks never overlap, nothing is lost, nothing is refused and no
  page is mapped while there is room.
* *key-value service*: it is a map, and one command is executed at a time; keys
  are unique and every string has one owner; answers go to those who asked;
  nobody is forgotten in the backlog.
* *echo servers*: no event is lost, a line on an accepted connection is answered
  once and to its sender, and the server ends for the reasons in its code only.
* *shell*: each line's processes are reaped before the prompt, background
  processes are left alone until `exit`, SIGINT ends what it is meant to end,
  and the prompt comes back.
* *producer and consumer*: messages arrive once and in order, over any number of
  restarts, and what a crash can spoil is bounded.

## 2. The plan

The order follows how much can go wrong that a test would not show: the
threads' programs first, then the data structures with long histories, then
the programs of several processes.

| Stage | Modules | State |
|---|---|---|
| 1. Threads | `Pthread`; `RWLock` with the abstract `ReadersWriters`; `MasterWorker` with the abstract `WorkPool`; `Zemaphore` and `ThreadPrograms`; `Barber` | modelled, checked and proved |
| 2. Data structures | `Allocators` with the abstract `Heap`; `KVStore` with the abstract `KVMap` | modelled, checked and proved |
| 3. Processes | `KVServer` (composes `KVStore` with clients and connections); `EchoServer`; `Shell`; `SharedSlots` with the abstract `BoundedChannel` | modelled, checked and proved, crashes of either side included |

"Proved" means every safety and action property and every refinement that a run
shows; liveness is only checked ([section 6](#6-what-is-proved)).
Every module is written to be proved about: sizes are
constants with named assumptions, there is one action per operation, and no
operator is declared RECURSIVE.

## 3. The modules

**How threads are modelled.** All shared variables of the thread programs are
read and written with the program's only mutex held. What a thread does from
getting the mutex (`pthread_mutex_lock`, or the return of `pthread_cond_wait`)
to giving it up (`pthread_mutex_unlock`, or the next `pthread_cond_wait`) is
therefore one step. A function, `pc` or `at`, says where each thread is
between two such steps; the name of a condition variable is the place of
the threads asleep on it. A woken thread has the place `Woken`: it competes for
the mutex with all others, and what it waited for may have gone when it gets
it. `Pthread` has the operators for signal, broadcast and wakeups without a
signal, which POSIX allows. It is external: modelled from how the code calls it.

**Faulty variants.** Some definitions have a second one beside them, marked
`\* faulty`: the same operation with a plausible mistake (a missing signal, an
off-by-one, a forgotten reset). Nothing uses it. Put in the place of the right
one, it makes TLC report a violation of the property that is there to catch the
mistake; `PROJECT.json` says which, under `mutants`.

| Module | Code | State and actions |
|---|---|---|
| `Pthread` | (external) | `Signal`, `Broadcast`, `SpuriousWakeup`, each the set or value of the places afterwards |
| `ReadersWriters` | what a reader-writer lock promises | `reading`, `writing`: the threads inside |
| `RWLock` | `rwlock.h`, `rwlock-reader-pref.cpp`, `rwlock-writer-pref.cpp`, the threads of both tests | the three counters and `pc`; the variable `preference`, which no step changes, says which file is linked; `ReaderLock`, `ReaderUnlock`, `WriterLock`, `WriterUnlock` are one turn of the function each, from the call or from a wakeup to the next wait or return |
| `WorkPool` | what a pool of work promises | `made`, `pool`, `taken` |
| `MasterWorker` | `master-worker.c` | `item_to_produce`, `buffer`, `consumed` (the items that were printed) and `pc`; `Produce` and `Consume` are a turn of the threads' loops, `MasterExit` and `WorkerExit` their breaks |
| `Zemaphore` | `zemaphore.c` | `count`, `at`; `zem_init`, `zem_down`, `zem_up` for the modules that extend it |
| `ThreadPrograms` | `test-toggle.c`, `test-zem.c`; `ex3.c`, `ex4.c` | a thread is the sequence of calls it has still to make; `program` says which program runs: one of the four, or any small program of `zem_down` and `zem_up` calls. In `ex3.c` and `ex4.c` `main` sets `turn`, creates its threads and joins them (`SetTurn`, `Create`, `Join`); `TakeTurn` is a turn of `routine` from its start or a wakeup to the wait or the end |
| `Barber` | `barber-cv.c` | `waiting_customers`, `haircuts`, `pc` |
| `Heap` | what an allocator promises | `blocks`: those in use |
| `Allocators` | `alloc.h`, `ealloc.h` | `header` says which one is included; both tables, the pages, what is mapped, and what `alloc` returned. The two headers share their text for finding, taking and freeing chunks; they differ in when pages are mapped, unmapped and forgotten |
| `KVMap` | what the key-value service promises | `dict`, and the last `answer` |
| `KVStore` | the four operations of `kv-server.c` | `store`, an array of keys and pointers, and `heap`, the strings at the pointers. Each operation is an action that says with which response it ends; the response to a read is `Value: ` and the value (`ValueLine`) |
| `KVServer` | `main` of `kv-server.c`, and `kv-client.c` | `backlog`, `newsockfd`, the messages on each connection, each client's `sockfd` and the command it waits for. A client may be killed at any moment |
| `EchoServer` | `simple-server.c`, `epoll-server.c`, `simple-client.c` | `server` says which server runs; `backlog`, `accepted`, `ready` (the kernel's list), `events` (the batch), `newsockfd`, the lines and answers in each socket, what each client does. A client may end at any moment |
| `Shell` | `my_shell.c` | the shell's four variables, where it is in a line (`pc`, `line`, `todo`, `pid`, `awaited`), and its children with their state and process group. `SIGINT` may happen at every point |
| `BoundedChannel` | what producer and consumer promise | `queue`, `sent`, `received`, and `intact`: FALSE while a crash has left the promise void |
| `SharedSlots` | `shm-posix-producer.c`, `shm-posix-consumer.c` | the slots, every FIFO ever made, the one its name leads to, and both programs, which may be run several times; both are killed anywhere, and the producer is also ended by SIGPIPE. A producer opens the FIFO (`OpenFifo`) and then sets the slots to FREE one by one (`ResetSlot`), while the consumer reads on |
| `MC*` | | the instances for TLC, with the sets and functions a `.cfg` cannot write |
| `RWLockProofs`, `MasterWorkerProofs`, `ThreadProgramsProofs`, `ServiceProofs`, `AllocatorsProofs`, `KVServerProofs`, `ShellProofs`, `SharedSlotsProofs` | | theorems, see section 6. `ServiceProofs` has those of `Barber` and of `EchoServer`; it extends both, so the specification of `Barber` has names of its own (`BarberInit`, `BarberNext`, ...) |

Five specifications are shown to implement an abstract one through a refinement
mapping: `RWLock` (`RefinesReadersWriters`), `MasterWorker` (`RefinesWorkPool`),
`Allocators` (`RefinesHeap`), `KVServer` (`RefinesKVMap`) and `SharedSlots`
(`RefinesBoundedChannel`). In `RefinesKVMap` the answer is mapped to the reply
that its client has not read yet, so the property says that each command takes
effect when it is answered, and with the answer that the map gives at that
moment. In `RefinesBoundedChannel` the queue is mapped to the *contents* of the
slots whose offsets are in transit: a slot that is written too early would
change a message on its way. `intact` is mapped to `~confused`: a producer that
sets slots to FREE while offsets of a killed one are on their way spoils those
messages, and what arrives is not what was sent until all of them have been read.

**The kernel under the echo servers.** Every descriptor of `epoll-server.c` is
edge-triggered. `ready` is the list the kernel keeps: something that happens to a
descriptor puts it there (`Edge`), unless it is there already, and `epoll_wait`
takes up to `MAX_EVENTS` from its head, leaving out those with nothing to report
(`Pollable`). Taking one off is final: that a second connection waits, or a line
is unread, does not bring it back. The server's end of a connection is `open`; when the
client has gone it has heard a FIN (`closed`), or a RST if an answer was unread
(`aborted`); after the server has written to a closed one a RST is on its way
(`answered`), and then it has come (`dead`).

**Data that is abstracted.** Items, keys, values and messages are numbers or
model values. A command of the key-value protocol is a record: which operation,
key and value it is, or that it is none of them; the exact text of the six error
messages for malformed and unknown commands is one. Its other responses are
their texts; in front of a value is `Value: `, so that no value reads like an
error. No value is cut off: every buffer is longer than the longest line that
`kv-client` reads. A line of the shell is its
kind and how many commands it has. Sleeps are any delay. What the lines of the echo
service say is left out. The timestamps that
`test-reader-pref.cpp` and `test-writer-pref.cpp` collect are replaced by
properties of the states.

## 4. The runs and their bounds

A run is a module and a `.cfg`. Those that pass:

| Run | Configuration | What it shows | Bounds, and why they are enough |
|---|---|---|---|
| `rw` | `MCRWLock.cfg` | both locks: `LockInv` (types, exact counters, exclusion), no lost wakeup, refinement; a call hangs only behind others that come for ever; with writer preference, `WriterPreference`, and readers do not starve writers | both values of `preference`; three readers and two writers that call again for ever (`Reenter`): a reader inside, one asleep and one to come, with a writer inside and another asleep. Spurious wakeups |
| `mw` | `MCMasterWorker.cfg` | `PoolInv` (types, conservation), workers leave last, bounded overproduction, no lost wakeup, refinement, everything is consumed | more masters than slots (so that masters sleep, and overproduce by the full bound), more items than slots, two workers, spurious wakeups |
| `zem` | `MCThreadPrograms.cfg` | `ZemInv` (nobody sleeps on a free unit), turns, reports, and that the four programs return | `test-toggle.c` with three threads and rounds, `test-zem.c` with one thread more than it has, `ex3.c` with three threads, `ex4.c` with three rounds of three, so that `turn` is reset twice under threads that have waited; every program of three threads with up to three calls each: enough for a count of -2 and for a signal to meet a newcomer and two sleepers. Spurious wakeups |
| `barber` | `MCBarber.cfg` | `BarberInv` (chairs and haircuts are counted exactly, up to the waits that return without a signal; the barber is awake while somebody waits), everybody joined | five customers and three chairs, the sizes of `barber-cv.c`: some have to leave. Spurious wakeups |
| `alloc` | `MCAllocators.cfg` | `AllocInv` (the tables agree, blocks and pages are disjoint), `RoomIsUsed` (no needless refusal or page), refinement | pages of three chunks, so that a hole between two blocks can be made and merged; two pages; every size and every pointer; an address right behind the region that `alloc.h` uses without a page |
| `kv` | `MCKVServer.cfg` | `StoreInv` (unique keys, owned strings), one command at a time, isolated sessions, refinement, answers, nobody forgotten | two clients and connections, three keys for two places: the store is full, and delete has to move a pair. One of the two values is the text of an error |
| `echo` | `MCEchoServer.cfg` | `EchoInv` (one line or answer on its way for each waiting client), `EdgesKept` (no event is lost, and how many connections are stranded), the server ends only for a client that left, lines are answered, a departure ends the server | both servers; three clients and a backlog of two, so that one has to wait and two can come under one event; four descriptors and two events to a batch, so that events are left for the next `epoll_wait` |
| `shell` | `MCShell.cfg` | `ShellInv` (one foreground command at a time; only background processes outlive their line), background processes are left alone until `exit`, SIGINT ends the line, the prompt comes back | lines of up to two commands, four processes in all, one background slot: a serial line after a parallel one, a background process beside each, a slot too few |
| `ipc` | `MCSharedSlots.cfg` | `SlotsInv` (slots are lost only to killed consumers), refinement (order, at most once), nothing stays in transit | two slots, two runs of the producer with four turns each, three of the consumer, all killed anywhere: slots run out, leak, are set to FREE again one at a time, and offsets of a killed producer meet the next one |

and those that TLC must find violated (section 7): `mw_hang`, `zem_barging`,
`shell_stale`.

`CHECK_DEADLOCK FALSE` is set where the program may stop, and the `.cfg` says
why. `alloc`, `kv` and `rw` check for deadlock: their callers go on for ever.

`Shell` keeps the number of children below `MAX_NUM_TOKENS`, the size of the
array `parallel_pids`: the array is never emptied, and what a write past its
end does is up to the build. `SharedSlots` runs one producer and one consumer
at a time.

**History variables.** `unsignalled` in `ThreadPrograms` becomes TRUE
when a wait returns without a signal. Those programs wait without a loop, and
some of their properties hold only as long as that has not happened; the
properties say so, and the others are checked with such wakeups (`ex3.c` and
`ex4.c` wait in a loop and need no excuse). `unsignalled` in `Barber` counts
the customers to whom that has happened: so many chairs may be counted that are
empty, and no more (`ChairsExact`). `haircuts` is how often the barber has cut hair. `struck` in `Shell`
remembers that a SIGINT has hit all commands of the line. `coalesced` in
`EchoServer` counts the connections that came under another one's event. `sent`
and `received` in `SharedSlots` are the messages' history, and `confused` says
that a killed producer's offsets are among those on their way.

## 5. Fairness

* *Threads* (`RWLock`, `MasterWorker`, `ThreadPrograms`, `Barber`): weak fairness of each
  thread's steps: a thread that is not asleep gets the mutex in the end. For a
  thread that competes for a mutex, weak fairness is enough, because its step
  (to get the mutex and run to the next wait or unlock) stays enabled until it
  is taken. In `RWLock` it covers threads inside a call only: nobody has to call
  the lock.
* *Wakeups without a signal* are never fair: no property rests on one.
* *`KVServer`*: the server's loop and a client's `read` go on. Nothing is
  assumed of the person who types commands, and clients need not be killed. So
  `NobodyForgotten` excuses a server that is kept by a client who never leaves.
* *`EchoServer`*: the server's loop goes on, a client that waits reads its answer,
  and a RST that is on its way arrives. Nobody has to connect, type or leave.
* *`Shell`*: the shell runs on and each child gets to its `execvp`. Programs
  need not end: `PromptReturns` excuses a line with a program of its own
  that runs or is stopped, `InterruptEndsTheLine` does not.
* *`SharedSlots`*: a program that was started runs on; nobody has to start one,
  and neither program has to be killed.

## 6. What is proved

TLC checks the instances above. TLAPS checks the following for all values of the
constants, with and without callers that come back and spurious wakeups, for
both preferences of the lock and both allocators (`preference` and `header`
are variables that the initial states leave open). The constants' named
assumptions are all that is assumed:

| Assumption | Says |
|---|---|
| `RWLockAssumption`, `MasterWorkerAssumption`, `BarberAssumption` | finite sets of threads, disjoint where they have different roles; natural numbers of items, slots and chairs |
| `EchoServerAssumption` | finitely many clients, at least one (`newsockfd` has some value before the first `accept`), and the listening socket is none of them; a backlog and a batch have room for one |
| `ThreadProgramsAssumption` | `test-toggle.c` has at least one thread and a zemaphore of its own for each; natural numbers of everything else |
| `AllocatorsAssumption` | a page is a whole, positive number of chunks; there is at least one page; `mmap` returns no address below `PAGESIZE` |
| `KVStoreAssumption`, `KVServerAssumption` | finitely many pointers, at least `MAX_PAIRS`; `None` is no connection, command or value |
| `ShellAssumption` | natural bounds; a line may have two commands, as a pipe does |
| `SharedSlotsAssumption` | at least one slot; natural numbers of messages and runs |

| Theorem | Module | Says |
|---|---|---|
| `TypeCorrect`, `CountersAreExact`, `LockExcludes`, `WakeupsAreNotLost` | `RWLockProofs` | `TypeOK`, `CountersExact`, `MutualExclusion`, `NoLostWakeup` are invariants of `RWLock` |
| `LockInvariant` | `RWLockProofs` | the first three together: `LockInv`, as the run checks it |
| `WritersGoFirst` | `RWLockProofs` | `WriterPreference`: with writer preference no reader enters while a writer waits |
| `LockImplementsReadersWriters` | `RWLockProofs` | `RWLock` implements `ReadersWriters` |
| `TypeCorrect`, `ItemsAreConserved`, `WorkersLeaveNothing`, `WakeupsAreNotLost`, `ExcessIsBounded` | `MasterWorkerProofs` | `TypeOK`, `Conservation`, `WorkersLeaveLast`, `NoLostWakeup`, `OverproductionBound` are invariants of `MasterWorker` |
| `PoolInvariant` | `MasterWorkerProofs` | the first two together: `PoolInv`, as the run checks it |
| `ProgramImplementsWorkPool` | `MasterWorkerProofs` | `MasterWorker` implements `WorkPool` |
| `ProgramsInvariant` | `ThreadProgramsProofs` | the inductive invariant of `ThreadPrograms` |
| `NobodySleepsOnAUnit` | `ThreadProgramsProofs` | `ZemInv`: nobody sleeps on a free unit, whatever program uses the zemaphores |
| `LinesComeInTurn` | `ThreadProgramsProofs` | `PrintsInTurn`: `test-toggle.c`, `ex3.c` and `ex4.c` print in turn |
| `MainReportsTheTruth` | `ThreadProgramsProofs` | `ReportsAreTrue`: what `main` of `test-zem.c` reports has happened |
| `BarberInvariant` | `ServiceProofs` | `BarberInv`: chairs and haircuts are counted exactly, up to the waits that return without a signal, and the barber is awake while somebody waits |
| `AllocatorsAreSound` | `AllocatorsProofs` | `AllocInv`: the two tables agree, blocks and pages are disjoint |
| `RoomIsAlwaysUsed` | `AllocatorsProofs` | `RoomIsUsed`: no needless refusal, no needless page |
| `AllocatorsImplementHeap` | `AllocatorsProofs` | `Allocators` implements `Heap` |
| `StoreIsSound`, `CommandsDoNotMix` | `KVServerProofs` | `StoreInv` and `OneCommandAtATime` are invariants of `KVServer` |
| `SessionsAreIsolated` | `KVServerProofs` | `SessionIsolated`: what a client was told stays true while it is connected |
| `ServerImplementsMap` | `KVServerProofs` | `KVServer` implements `KVMap` |
| `ShellInvariant`, `BackgroundIsUndisturbed`, `ExitLeavesNobody` | `ShellProofs` | `ShellInv`, `BackgroundUndisturbed` and `ExitTerminatesBackground` hold of `Shell` |
| `EchoAlways` | `ServiceProofs` | `EchoInv`: one line or one answer is on its way for each client that waits, and for no other |
| `EdgesAlwaysKept` | `ServiceProofs` | `EdgesKept`: no event of the edge-triggered loop is lost, and so many connections wait for another one's event |
| `OnlyDepartureEndsServer` | `ServiceProofs` | `ExitsOnlyOnDeparture`: no error exit is taken while every accepted connection stands |
| `SleepsOnlyWhenIdle` | `ServiceProofs` | when `epoll_wait` has nothing to report, everything the server was told of has been read and answered |
| `SlotsAreAccountedFor` | `SharedSlotsProofs` | `SlotsInv`: one slot is lost at most for each consumer that was ended |
| `ProgramsImplementChannel` | `SharedSlotsProofs` | `SharedSlots` implements `BoundedChannel` |

*The argument for the lock.* The inductive invariant is
`TypeOK /\ CountersExact /\ Exclusive /\ NoLostWakeup`. Mutual exclusion is not
inductive: that a reader may enter when `writer_active` is 0 says something
about threads only if the counters count threads. `CountersExact` says so with
cardinalities, and `Exclusive` says of the counters what mutual exclusion says
of the threads. Each action has a lemma: it preserves the invariant and does to
the sets of threads inside what an abstract step does (`StepEffect`), from which
the refinement follows. The lemmas rest on two about the operators of `Pthread`
(`SignalWakes`, `BroadcastWakes`: what is woken, and that somebody is) and on
one about how a cardinality changes when one thread moves.

*The argument for the pool.* `OverproductionBound` is not inductive either: a
master asleep in `not_full` has passed the test of `item_to_produce` and will
produce whatever it is by then. `ExcessReserved` strengthens it: once enough has
been made, each such *committed* master has one item of the excess reserved,
and not all masters are committed. The invariant is `TypeOK`, `Conservation`,
`WorkersLeaveLast`, `ExcessReserved` and `NoLostWakeup` together; each step
preserves it and is a step of `WorkPool` or leaves the pool unchanged.

*The argument for the zemaphores and the turns.* `ZemInvariant` (types, who may
sleep where, `UnitsAreOwed`) is inductive for every program: `zem_up` owes the unit
it adds to the thread it wakes, and whoever takes a unit lowers the count, while
only a woken thread lowers what is owed, and by one.
Each of the four programs then has an invariant of its own, which places every thread in
its text (`Suffix`: its calls are the last ones of the text). In
`test-toggle.c` one unit goes round: `TokenAt(h, r, p)` says that it is thread
`h`'s, that `h` has made `r` rounds and `p` calls of the next one, and that the
threads before `h` are one round ahead. In `test-zem.c` the count of `parent` is the
number of printers that have ended less the number `main` has waited for
(`ReportInv`). In `ex3.c` and `ex4.c` `RoundAt(r, q)` says which call of which
round `main` makes next, that the threads it has created in this round are
those before `q`, and that of these the ones up to `turn` have printed and ended.
The first two need that no wait has returned without a signal, as the properties do.

*The argument for the barber.* `BarberInv` is inductive as it stands. What a
step does to the two sets of customers that the counters count, those in a chair
and those called, follows from which one customer it moves. A wait that returns
without a signal moves its customer from the one set to the other, so haircuts
and chairs counted together remain the size of both sets (`HaircutsExact`), and
the count of chairs is one too high until the barber calls somebody when nobody
sits.

*The argument for the allocators.* `TablesInv` says of every page in use that
its two tables are sound together (a chunk is taken exactly when a block covers
it, blocks end within the page and follow each other) or that it is blank and
has no page behind it, and that pages beyond those in use are as `init_alloc`
left them. `alloc` and `dealloc` are about one page's tables, so two lemmas
about one page (`TakePageOK`, `FreePageOK`) carry the invariant, the room test
and, with the blocks of all pages laid end to end, the refinement.

*The argument for the key-value service.* `ServerInv` joins what holds of the
store (`StoreOK`) and of the connections: a connection that a client uses is in
the backlog or served, and holds what the client's state says (`Exchange`:
nothing, its command, or the response to it); one that nobody uses holds at most
a last command, which is what a killed client leaves (`LeftBehind`). Only with
both is one `read` one command, and each command takes effect where the
refinement says. `SessionInv` adds that what a client knows, or will know when it
reads its answer, is true of the map: nobody else is served meanwhile.

*The argument for the shell.* `ShellInv` needs to know where every process is
written down. `JobsInv` says that each unreaped process of a line is among those
the function at work will wait for (`Known`), which kinds of processes the lists
hold, that `fg_pid` is set exactly while a foreground command is waited for, and
that each background process is listed once until the list is full.

*The argument for producer and consumer.* `ChannelInv` says who holds which FIFO
(a FIFO with offsets in it is held by somebody, and the producer's is the one the
name leads to), that slots are set up before anything is sent, which messages
have been sent so far, and that lost slots are counted by the consumers that
ended. While `confused` is FALSE, `Orderly` adds that the offsets in transit are
distinct, that their slots hold messages that were sent, and that the slots both
programs work on are not among them. A producer that sets a slot to FREE leaves
`confused` FALSE only if nothing is on its way. Distinct offsets are at most as many as
there are slots, which gives the channel's capacity; that nobody writes to a slot
in transit gives its order.

*The argument for the echo servers.* `EdgesKept` is not inductive, because an event
is acted on after others of its batch. `EchoIInv` adds `Served`: what
`epoll_wait` has reported of a connection still holds when its turn comes,
since only that turn reads the connection, and no connection is twice on the lists
(`Lists`). That makes every read of a batch one that returns something, which
`ExitsOnlyOnDeparture` needs, and together with `OneLineAtATime` one line. On lists
without repetition the count in `EdgesKept` is membership (`Reported`). The loop
filters the kernel's list; `Kept` gives the result by the places of its elements
and not by recursion, so that lemma `KeptOfList` can say what stays on the
list without an induction: the rank among those places is a bijection onto an
interval. TLC checks, in every run of `MCEchoServer`, that `Kept` is `SelectSeq`
on all lists of up to four elements (`KeptIsSelectSeq`); for longer ones that is
the definition's reading. `SleepsOnlyWhenIdle` follows from the invariant alone:
it is what remains of `ClientsAnswered` without fairness.

Only model-checked, not proved, is liveness: it needs fairness and `ENABLED`, which
the prover does not handle. These properties are `EveryCallReturns` and
`WritersProgress` (`rw`), `AllItemsConsumed` (`mw`), `AllThreadsReturn` (`zem`),
`AllCustomersJoined` (`barber`), `CommandsAnswered` and `NobodyForgotten` (`kv`),
`ClientsAnswered` and `DepartureEndsService` (`echo`), `InterruptEndsTheLine` and
`PromptReturns` (`shell`), and `EverythingArrives` (`ipc`).

## 7. Where the code and its comments part

* `mw_hang`: a worker that sleeps on `not_empty` when production ends is never
  woken, because only a master that produces signals it. With one master and two
  workers the program may hang in `main`'s joins
  (`master-worker.c:57`, `:65`, `:112`).
* `zem_barging`: `zem_down` tests the counter with an `if`. A thread that calls
  it between the signal and the woken thread's turn takes the unit, and the woken
  thread takes another that is not there: two threads have printed where
  `test-zem.c:44` says one has.
* `shell_stale`: `parallel_pid_count` is never reset, so `handle_sigint` sends
  SIGINT to processes of lines that are over, although its comment says "Stop
  all running parallel processes" (`my_shell.c:61`).

Other surprises, which no document contradicts and the properties therefore
describe: masters produce more than `total_items` items (`OverproductionBound`
says by how many at most); `cleanup` in `alloc.h` leaves the tables, so `alloc`
goes on giving out addresses with no page behind them; the consumer killed with
a slot in hand costs the producer that slot (`SlotsLostToKillsOnly`, a part of `SlotsInv`); after
readers were woken by the reader-preferring lock's `WriterUnlock`, a writer may
still get the mutex before them; an empty line crashes the shell
(`ReadEmptyLine`). Of the lock's calls, one hangs only while others go on calling
for ever (`EveryCallReturns`): with reader preference a writer behind readers, with
writer preference a reader behind writers, and any sleeper behind
newcomers who get the mutex first. A
producer killed with offsets unread in a consumer's FIFO confuses the next one:
the slots they point to are set to FREE and written again, so messages
arrive empty, twice or out of order until the FIFO has run empty once
(`RefinesBoundedChannel`). In `epoll-server.c` two connections under one event
leave the second in the backlog until somebody else connects (`EdgesKept`). Both echo
servers end when any client whose connection was accepted leaves
(`DepartureEndsService`): an end of file is answered like a line. `simple-server.c` then leaves its loop;
`epoll-server.c` is woken by the RST that comes back, its `read` returns 0 once
more, and the `write` after it fails. A client at the end of its
input sends nothing and waits for an answer all the same (`SendNothing`).

## 8. What is not modelled

* `intro-code`, `intro-debug-code`, `malloc-code/warmup-exercise`: loads and
  planted mistakes for use with tools; no state.
* `pthreads-sync-code/warmup_ex/ex1.c`, `ex2.c`: threads that add to a counter
  under a mutex, or print a line; none waits for another.
* `master-worker-skeleton.c` and the `-orig` files: the hand-outs that the
  modelled programs replace.
* `ipc-code/socket-*.c`, `pipe.c`: one message in one direction; no state that
  outlives it.
* Parsing, formatting and printing; the contents of memory blocks; failing
  `malloc`, `socket`, `bind` and the like, after which the programs exit.
* In `Shell`: pids that the system gives to a second process, children that
  ignore signals, and `cd`, which touches no process.
* In `SharedSlots`: two producers, or two consumers, at the same time.
* In `EchoServer`: lines that arrive in pieces or are longer than the buffer, and
  a server that is started again.
