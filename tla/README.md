# Verification of c-bash-stuff

TLA+ models of the C programs of this repository, the TLC runs that check them
on small instances, and TLAPS proofs of what matters most for every size.  The
repository is the work of an operating-systems course: some ten independent
programs.  Modelled are those with a state worth the name: *practica3*, a
client-server program of threads; *schedsim*, a parallel simulator of a
scheduler; two file systems; and the LED games.  What is left are teaching
examples and sequential copies.

Contents: [inventory](#inventory), [practica3](#practica3-and-its-modules),
[schedsim](#schedsim-and-its-modules), [file systems](#the-file-systems),
[LEDs](#the-led-games), [runs](#the-runs),
[what the runs found](#what-the-code-does-not-do), [fairness](#fairness),
[proofs](#proofs), [what is not modelled](#not-modelled), [plan](#plan).

## Inventory

Under `Assignments`, unless another directory is named.

| Component | State it keeps | Operations | What is hard | Correct when |
|---|---|---|---|---|
| practica3 (`Other/L10_P10_Pr3`), `cbuffer.c` | vector of pointers, head, size | create, insert, remove, head | wrap-around, a full buffer | it is a FIFO queue that drops its oldest item |
| `sem.c` | counter, mutex, condition variable | new, wait, signal, free | lost and spurious wake-ups; freed right after a wait | it is a binary semaphore and nobody touches it when a wait has returned |
| `mailbox.c` | circular buffer, two semaphores, mutex, `wait_send` | new, post, fetch, free | signals sent early, semaphores left up, producers that block | it is a bounded FIFO channel |
| `clients.c` | table of threads, `n_clients` | `create_client`, the client thread | created by two threads without a lock | the table lists the clients; each message is answered once and freed after |
| `server.c`, `message.c` | `serv_up`, the messages | the server thread, `shutdown_server`, new and free message | shutdown against the loop of the server | every message is answered, the shutdown ends |
| `main.c` | the phase of the program | commands, wait for clients, shutdown | threads created while main waits | nothing is freed that somebody uses |
| `signal_handler.c` | `_pause`, `finish_thread`, mutex, condition variable | pause, resume, finish, handler of USR1 | a handler that runs on the thread it resumes | the thread is never asleep when resumed; the finish ends it |
| schedsim (`p3/P3Extra_DQ/schedsim_RR_DQ`), `sched.c` | run queues, event lists, tasks, `cpus_completed` | events, tick, load balancing, context switch, barriers | locks of two run queues, unlocked reads, agreement on the last step | tasks are conserved and their times add up, CPUs stop together, no deadlock |
| `slist.c`, `list_sol.c` | doubly linked lists and their sizes | insert, sorted insert, remove, sort, move, replace | four links per operation, empty lists, ties | lists are sequences |
| `barrier.c` | the barrier | wait | - | all CPUs meet (the build takes the wrapper of `pthread_barrier`; a barrier of its own is a stub) |
| `sched_rr_dq.c` | - | - | a stub for the student | - |
| miFS (`p2/CodigoP2/FUSE_miFS`) | super block, bitmap, directory, i-nodes, and their copies on disk | mkfs, mknod, open, write, truncate | sizes against blocks, failures half way | blocks are owned once, counters agree with the bitmap, a write writes what it says |
| MiSistemaDeFicheros (`Other/p2 MiSistemaDeFicheros`) | the same structures | mkfs, import, export, rm, ls, exit | indices of entries and of i-nodes, errors after the first update | an entry leads to its own i-node, an export gives back the import |
| LED games (`Other/FicherosP4`), `leds_user.c`, `chardev_leds.c` | `intHilo`, the LEDs, the games | counters, simon, two blinking modes with a thread each | a number shared without a lock, threads nobody joins | a mode ends when and only when the user asks |
| `chardev.c` (`p4/FicherosP4/chardev`) | open flag, shared pointer | open, release, read, write | test and increment without a lock | one opener at a time |
| mitar (three versions of `rut_mitar.c`) | an archive file | create, extract | header offsets, number of bytes copied | extract gives back what create took |
| thread exercises (`src/Exercises`, `src/Shared`) | a sum, a shared buffer | partial sums, locks | lost updates | the sum is right |
| process and file examples (`src/C Files`, `src/Shared`, `EjemplosGuion`) | none | fork, exec, copy | - | - |

The programs do not talk to each other; inside practica3 and schedsim the parts
do, and there the modules are composed.  `Shared/Tests`, `Shared/Practica 1`,
`3` and `4` hold copies of the same exercises.  Every component is in
`PROJECT.json`, with the hazards at the lines where they bite.

## practica3 and its modules

Clients post messages into a mailbox and each waits, on a semaphore inside its
message, for the answer.  One server fetches the messages, writes the answers
and signals the semaphores.  Clients are created by main, as commands are read,
and by the handler of SIGUSR1, which runs on a thread of its own.  At the end
main waits for the clients, shuts the server down with a message of type NONE,
finishes the handler thread and frees the mailbox.

```
   main --create_client--> clients --mbox_post--> Mailbox --mbox_fetch--> server
     ^                        ^  \__ sys_sem_wait(op_completed) <- sys_sem_signal __/
     |                        |
     +-- finish --> signal handler (SIGUSR1 -> create_client)
```

The program is modelled in layers.  The abstract module of a layer is what the
layer above it uses, and what the layer itself is shown to implement.

| Module | Models | Abstract module it implements |
|---|---|---|
| `CBuffer` | `cbuffer.c` | `DropOldest`, a FIFO queue that drops its oldest item |
| `Sem` | `sem.c`, with the mutex and the condition variable explicit | `BinarySem` |
| `Mailbox` | `mailbox.c`, over `DropOldest` and two `BinarySem` | `BoundedChannel` |
| `SignalHandler` | `signal_handler.c` | - |
| `Practica3` | `clients.c`, `server.c`, `message.c`, `main.c`, over a bounded channel and a binary semaphore in each message | - |

* **CBuffer.** `data`, `head` and `size` are the fields of the struct, `out` the
  result of the last `head_cbuffer_t`.  A slot is `Junk` until it is written,
  since the vector comes from `malloc`.  The refinement maps the vector to the
  sequence `Contents`.
* **Sem.** One action per call of the library or access to the counter; the pc
  values `w_...` are in `sys_sem_wait`, `s_...` in `sys_sem_signal`.
  `pthread_cond_wait` is `WaitSleep` and `WaitRelock`; between them a broadcast or
  `SpuriousWakeup` takes the thread out of `sleepers`.  The refinement maps the
  threads inside a wait to `waiting` and nothing else: the decrement is the
  instant at which a wait passes, and the assignment that of a signal.
* **Mailbox.** A step runs up to the next call that may block or release of the
  mutex; the code in between holds the mutex.  A message is known by its
  producer.  The decrement of `wait_send` belongs to `Relock`, which is where the
  code has taken the mutex again.  `WaitsForAnswer` tells whether producers are
  the clients of the program, which wait for each answer, or arbitrary ones.
* **SignalHandler.** The handler of USR1 runs on the thread it interrupts, so
  that the thread does nothing while `handler # "out"`.  Pending signals are one
  bit, as in the system; USR1 is masked while its handler runs.  Either `sigaction`
  may fail: the thread then returns at once, the second time with the handler of
  USR1 in place.
* **Practica3.** `n_clients++` is a load and a store (`LoadCount`, `StoreCount`),
  because main and the handler run `create_client` without a lock.  `Fail` is
  both the full table and a `pthread_create` that fails; main then exits, the
  handler goes on.  `new_message` may fail for lack of memory.  The call
  of the handler thread to `create_client` and its end are here, its pauses in
  `SignalHandler`.  The join of the extra entry of the table (`JoinZero`) has no
  defined behaviour: it fails, as with glibc it usually does, or the process
  crashes.  A client that posts into the freed mailbox finds NULL pointers and
  crashes the process.

## schedsim and its modules

```
  sched_cpu, one thread per CPU:
    events -> first pick -> [ tick -> events -> load balance -> schedule
                              -> barrier -> count -> barrier ] until the end
  shared: run queues (a lock each), cpus_completed (between the barriers)
```

| Module | Models | Abstract module it implements |
|---|---|---|
| `Sched` | `sched.c` | - (its theorems and invariants say what it promises) |
| `SList` | `slist.c`, `list_sol.c` | `SeqStore`, sequences without a common element |

* **Sched.** The pc of a thread is the function `sched_cpu` is about to call:
  `wake` is `process_sched_events`, `tick` `scheduler_tick`, `balance` to `give`
  are in `load_balance`, `schedule` is `schedule`, `sync` to `counted_in` are in
  `synchronize_cpus`.  What is done under the lock of one run queue is one action.
  The balancer is split at every unlocked read of another `nr_runnable`
  (`ReadLoad`), at every lock of `double_lock_rq` (`DoubleLock`, `LockRemote`,
  `LockThis`) and between `steal_task` and `enqueue_task` (`Steal`, `Give`), since
  the count of cpus and the other balancers look at what is in between.  The
  scheduling class in the tree is a stub, so the class is whatever it may be: any
  queued task is picked or stolen, and a tick may ask for a reschedule at any
  time.  The barrier is `sys_barrier_wait`, which is `pthread_barrier_wait` in the
  build (`-DPOSIX_BARRIER`).  `early` is a history variable, read by no action: how many ticks too many
  a task was charged at the first pick of a CPU.  `Phases` allows phases of any
  length, and a CPU phase of none runs for ever, as in the code
  (`runnable_ticks_left` passes zero).  The instance of the run has no such phase.
  The input has lines that fit (`PhasesFit`): the vector of a task has room for
  `MAX_EXEC_PHASES` of them, and the code does not test it.
* **SList.** `heap` holds the two links of every node, `size` the field of `slist_t`.
  Every operation is the assignments it makes to the links, composed as in the
  code (`SortedInsert` walks the list and calls `InsertBefore`).  The callers keep
  what the assertions of `list_sol.c` ask.

Neither module uses the other: `Sched` needs of a list of events only that it is
sorted with ties in order of insertion, `InsertEvent`, and of a run queue that it
is a set; the first is `OrderIsKept` of `SList`, the second its `Refines`.

## The file systems

| Module | Models | Abstract module it implements |
|---|---|---|
| `ImportFS` | `util.c`, `common.c`, `MiSistemaDeFicheros.c` | `FileStore`, names with the file imported under each |
| `MiFS` | `fuseLib.c`, `myFS.c` | `ByteStore`, names with a sequence of bytes each |

Both have the same structures: a directory of entries, a table of i-nodes, a map
of bits and a super block with a count of free blocks, in memory and on disk.
One command or call is one action: the shell of the first reads a command at a
time, and FUSE runs the second with `-s`, one thread.  `disk` is the copy of the
structures and grows stale wherever the code forgets to write one.  The bytes of
files are in `data`, block by block, with `Junk` where nobody has written.

* **ImportFS.**  `Import` is a whole `myImport`, `ImportWithoutNode` the import
  that fails after it has written the directory.  An entry keeps the number of
  the entry and not of the node, as the code does (`util.c:158`).  Following an
  entry to a node that is not there ends the program (`Crash`).
* **MiFS.**  A resize (`Resize`) has several outcomes: it succeeds, it finds no
  room, or it fails in the middle of writing data.  A growth or a cut that fails
  half way returns `-EIO` and leaves the number of blocks, the count of free ones
  and the map changed, and the size not; the program goes on, and so does the
  model: the next call on the file may find that a longer file needs fewer blocks
  than it has (a negative `newBloques`), and a file may own blocks that the map
  has given to another.  `status` is `lost`, and the model stops, only where the
  code follows an index that nobody wrote or runs past the end of an array
  (`RunsOff` for the scan of the map).  `faults` is the history of what the promise
  excludes: writes that failed (`grow`, `shrink`, `data`), a file with more blocks
  than a node has room for (`large`), a write across blocks that does not start at a
  border (`across`), and a write that cuts off the end of a longer file (`cut`).
  Files cannot be read through this file system, so the abstract file is what the
  blocks would give.  `ByteStore` promises that a write sets its own bytes, keeps all
  others, and makes the file longer only if it must.

## The LED games

`Leds` models `leds_user.c` and the `device_write` of `chardev_leds.c`.  The main
thread is `pc`; each second thread is an element of `Hilo`.  `intHilo` is read
and written by both without a lock, one access per action; the test for an old 0
and its removal are two (`ResetTest`, `Reset`).  A thread that cannot be created is
reported and no more: the main thread blinks all the same (`Enter`, `failed`).  `Lit` is what the
driver makes of a message, and `Write` also allows the write that the keyboard
does not take.  `shown`, `session`, `asked` and `failed` are
history.

## Mistakes that the properties catch

Some modules define operators that no action uses, such as `DoubleLockHolding` in
`Sched`; the header of the module names them.  They are plausible mistakes in
the operation defined after them, and `PROJECT.json` says which property each of
them breaks when it takes the place of that operation: this is how we know that
the properties depend on the code.

## The runs

Each run has a `.cfg` of its own name.  TLC finishes each in a minute or two at
the most.

| Run | Bounds | What it shows |
|---|---|---|
| `CBuffer` | 3 slots, 3 items | The buffer is `DropOldest` (`IsFifo`).  Three slots let the head be at the start, in the middle and at the end, whether full or not. |
| `Sem` | 3 threads | Binary semaphore (`IsBinarySem`); no lost wake-up, as safety (`NoLostWakeup`) and as liveness (`SignalIsConsumed`); when a wait returns nobody is inside a signal (`WaitReturnsAfterSignal`), which is why a client may free its message.  Three threads: a signaller and two waiters that compete. |
| `MailboxFull` | 3 producers, 2 slots | Producers block.  The mailbox is still a channel that loses, repeats and reorders nothing (`IsChannel`), `wait_send` is the number of blocked producers, the server never sleeps beside a message, and a message is fetched unless a producer has blocked (`QueuedIsFetched`).  Three producers are the fewest of which two can be blocked with a message queued. |
| `SignalHandler` | 2 signals | The thread never sleeps once resumed (`SleeperIsPaused`), no client is created after `finish_signal_handler` (`NoClientAfterFinish`), and finish and handler end but for the races named below (`FinishEndsUnless`, `HandlerEndsUnless`).  Two signals: one in its handler, another one pending. |
| `Practica3` | 4 commands, table of 3 (2 clients), 2 messages each, 3 slots, no signal | The whole life of the program: types and room in the mailbox (`Bounded`), what is there when it is freed (`CleanShutdown`), the table (`TableIsExact`), and that each client is answered (`ClientIsAnswered`).  Two clients have their messages in flight together, the third command meets a full table, and a second message of a client reuses the memory of its first. |
| `Practica3Signals` | 2 commands, 1 signal, 1 message | With a USR1 at any time, the shutdown included: the life of the messages (`MessagesSafe`) does not depend on the races on the table. |
| `Practica3Shutdown` | no signal | Violation of `ShutdownEnds`. |
| `Sched` | 3 CPUs, 4 tasks, 4 steps, period 1, 5 trials | No task is lost, doubled or miscounted (`Consistent`), no event or date is left behind (`NothingOverdue`), `real_time` adds up (`TimesAddUp`), the threads stop together (`AllStopTogether`) and not before the work is done (`EndsDone`), a migration helps (`MigrationHelps`), no deadlock (`Terminates`).  Three CPUs are the fewest with two balancers on one remote queue; two tasks start on CPU 0 so that one can be moved, one has an IO phase and wakes again, one arrives late.  Five trials are those of the code. |
| `SList` | 4 elements, two of them equal, 1 list of `slist.c`, 2 of `list_sol.c` | Links and sizes agree (`WellFormed`), the lists are sequences (`Refines`), orders and ties are kept (`OrderIsKept`).  Four elements: the least number for which an insertion or a removal in the middle has neighbours that are not heads, and both lists of a move can be longer than one. |
| `ImportFS` | 3 entries, 2 nodes, 3 data blocks of 2 bytes, files of 3, 2, 0 and 5 bytes, 4 names | The tables agree (`Accounts`), an entry leads to its node (`EntryOwnsItsNode`), the shell dies of ghosts only (`CrashOnlyOnGhost`), an export gives back the import (`Refines`).  More entries than nodes, as in the code (100 and 45); a disk that is full before the tables are, and one name and one file too long. |
| `MiFS` | the same tables, offsets 0, 1 and 3, writes of 1 and 3 bytes, one failure | The tables agree in memory and on disk after every call (`Structures`), the free count never promises what is not there, also in the calls after a growth that failed (`FreeCountIsSafe`), the program is lost only after a fault (`LostOnlyAfterFault`), a file is what was written (`Refines`).  `OneOwner` and `DiskIsCurrent` are asked until a change of size has failed half way.  With blocks of two bytes, these writes start and end anywhere in a block and cross up to two borders.  The `VIEW` leaves out the bytes of the blocks after a fault: nothing is said of them then, and no step depends on them. |
| `Leds` | 2 reading threads, 2 sessions, the numbers 0 to 5 and 8, rounds of 1 and 2 LEDs | Simon asks for what he has shown (`SimonIsFair`), a mode ends only when asked (`EndsOnlyIfAsked`), who is left to read, also where the thread for it could not be created (`NobodyLeftBehind`), a user who asks is heard (`BlinkingEnds`).  Two sessions: one with the thread of the other still alive.  8 is a number that no menu and no message knows. |

Some properties are conjunctions of parts with a name and a comment each, such
as `Consistent`; a run reports the whole, and the comments say what a part is
for.  The parts of the small modules that TLAPS proves and that nothing else
needs, such as their type invariants, are not repeated as properties of a run.

Bounds that are guards of the actions which would otherwise go on for ever:
`MaxCommands`, `MaxSignals`, `MaxMessages`, `MaxLeds`, `MaxSessions`.  In `MiFS`
one write to the disk fails at the most (`Finish`); the calls after it are all there.  `MaxSteps` and `MaxTrials` are not bounds of the model
but parameters of the program.  No other counter is cut.

Deadlock is checked in `CBuffer`, `Sem` and `MailboxFull`.  The other programs
really stop: they end, crash, or one of the blockings below happens.  For the
simulation, where only the end may stop it, `Terminates` says so.

## What the code does not do

Found while modelling.  Where a doc or comment of the repository says otherwise
and a run refutes it, it is a violation run; the others are in the models, and
the properties name them as exceptions.

practica3:

* `server.c:24`: `serv_up` is cleared before the NONE message is posted, so that
  the server may go down without answering it.  If instead the server starts
  late, it sets `serv_up` again (`server.c:90`) and never goes down.  Run
  `Practica3Shutdown`.
* `mailbox.c:135`: `mbox_fetch` signals until `wait_send` is zero, with the mutex
  that a woken producer needs to decrement it.  Once a producer has blocked, the
  server is in that loop for ever: theorem `LoopIsForever`, and the exception of
  `QueuedIsFetched`.  It takes more clients than slots: the default size,
  `MAX_CLIENTS`, avoids it, `-n 1` with two clients does not.
* `signal_handler.c:26`: `my_pause` sets `_pause` outside the lock, after the test
  of `finish_thread`.  If main finishes the thread in between, its resume is
  undone and main waits for ever (the exception of `FinishEndsUnless`).
* `signal_handler.c:36`: the handler of USR1 takes the mutex of `my_pause`, which
  runs on the same thread.  If the signal arrives while it holds the mutex, the
  thread waits for itself (the exception of `HandlerEndsUnless`).
* `main.c:20`: a client created by a USR1 after `n_clients` was read is not
  waited for.  Two creators may both pass the test of `create_client`
  (`clients.c:115`); the loop of `wait_for_clients` joins one entry too many
  (`main.c:23`); a USR1 between `signal_handler.c:84` and `90` kills the program.

schedsim:

* A CPU may push a task to another one before the thread of that one has made its
  first pick, since no barrier holds them back.  The task then waits and runs in
  the same step, and its times are off by a tick (`early` in `TimesAddUp`).
* A line of more than `MAX_EXEC_PHASES` = 10 phases, or of ten and a blank at its
  end, is written past the vector of the task (`sched.c:126`, `sched.h:9`, `29`).  The
  inputs of `Sched` are the others (`PhasesFit`).
* A CPU phase of length zero is charged below zero and never ends
  (`sched.c:444`).
* A task whose IO phase has length zero is to be awoken in the step in which it
  goes to sleep (`sched.c:465`).  `process_sched_events` finds it at once, before
  `schedule` has replaced it: it is queued while it still is the current task, and
  may be chosen, or stolen, a second time.  `OnePlace` does not hold of such an
  input, and the theorems about tasks exclude it (`IoTakesTime`).

File systems:

* `common.c:162`: "NO hay nodos-i libres. Esto no debería ocurrir."  It does:
  there are 100 entries and 45 nodes, and `numNodosLibres`, which would refuse
  the import, is never decremented.  The directory keeps a ghost entry, and the
  next `ls` follows a null pointer (`CrashOnlyOnGhost`).
* An empty file is imported by writing a block of the stack to wherever an index
  that nobody set leads, which may be the super block.  An export does not
  truncate a file that exists.
* `fuseLib.c:316`: `my_write` resizes the file to offset plus size, not "si hace
  falta" but always, so that a write into a longer file cuts off the rest.  It is
  no part of the promise: the fault `cut`, a named exception of `Refines`.
* `fuseLib.c:344`: a write that starts inside a block and goes on in the next one
  starts there at the same position of the block, and leaves a hole (`Across`).
* Nothing tests the number of blocks of a file against the entries of
  `idxBloques` (`fuseLib.c:60`): the fault `large`.
* A failure in the middle of a resize leaves `numBloques` and the free count
  changed and the size not (`fuseLib.c:76`, `97`).  A later growth to a smaller size
  has a negative `newBloques` (`fuseLib.c:55`), raises the free count and scans past
  the end of the map (`fuseLib.c:67`): there the program is lost.  As long as it is
  not, the count is safe after a failed growth (`FreeCountIsSafe`); after a failed
  cut it is not, since the file keeps indices of blocks that are free.

LED games:

* `leds_user.c:375`: in party mode the thread reads one number.  If it is not 0,
  nobody can end the party any more (`Hopeless`).  A 0 typed before the main
  thread has removed the old one is lost too, and a thread of the second session
  that sees the 0 of the first one ends at once.
* `leds_user.c:317`, `344`: where the thread cannot be created the mode says so and
  blinks, and nothing that is typed ends it (`failed` in `HopelessOnlyIf`).
* Seen and not modelled: option 1, "aumentar frecuencia", makes the delay longer;
  option 2 takes 15000 from a delay of 14999, which party mode can leave
  (`leds_user.c:384`); `leds_user.c:310` says that the difficulty only changes the
  frequency, while `numeroLeds` is 3 or 5 by it; `chardev_leds.c:24`, as it is in
  the tree, declares a structure without a name and does not compile.

## Fairness

Threads are scheduled by the system: a thread that can go on inside a call does
so (weak fairness of its steps).  Nobody has to start a call, give a command,
send a signal or type `quit`, so that no fairness is on `PostCall`, `Call`, `Quit`,
`SendUSR1` or `FinishSet`.

* `Mailbox` (`FairSpec`): each producer inside a call, and the server, which
  fetches for ever (`server.c:97`).
* `SignalHandler`: a pending signal is delivered, and `FinishLock` has strong
  fairness: spurious wake-ups may make the thread take and release the lock again
  and again, and a mutex does not keep main out for ever while that happens.
* `Practica3` puts no fairness on `FinishHandler`, since `finish_signal_handler`
  may not return, and none of its liveness properties needs it.  Its liveness
  uses the mailbox as a channel whose post and fetch return, which is true as
  long as nobody blocks (`Bounded`, and the theorem `FewClientsNeverBlock`).
* `Sched`: weak fairness of each thread.  A thread that waits for a lock is
  enabled whenever the lock is free; that no lock is taken again and again
  beside it follows from the barrier, so that strong fairness is not needed.
* `Leds`: weak fairness of both threads, and strong fairness of typing 0: a user
  asked again and again in a mode that only 0 ends, types it at some time.

## Proofs

The theorems hold for every value of the constants that satisfies the assumption
named in the module: any capacity and set of items, threads or producers, any
number of commands and signals, CPUs and tasks, lists and elements, entries,
nodes and blocks, any files and bytes.  All are checked by `tlapm` to the last
leaf.  The assumptions are what the programs guarantee.  `MiFSAssumption` is
what `myMkfs` tests of the size of a disk (`myFS.c:27`); `PhasesFit` is about the input
of `Sched`, and no proof needs it; `NothingAssumption` says
that a null pointer and an unwritten byte are none of the values they stand
beside; `SListAssumption` has finitely many elements, which only bounds the loop
over a list, and keys that are numbers.  A few theorems have a hypothesis more,
which is about the input or the configuration:

* `IoTakesTime`, for what is said of the tasks of `Sched`: no IO phase has length
  zero.  CPU phases may.
* `NoSignals` (`MaxSignals = 0`), for the table of clients and the shutdown of
  `Practica3`.  With signals they do not hold, as said above.
* `Capacity >= MAX_CLIENTS - 1`, for the room in the mailbox: a slot for each client
  the table can hold.  The defaults are 128 and 20 (`mailbox.h:4`, `clients.h:7`).

| Module | Theorem | Says |
|---|---|---|
| `PartsProofs` | `BufferTypeCorrect`, `BufferRefinement` | `BufferTypeOK`; the buffer implements `DropOldest` |
| | `SemTypeCorrect`, `NoWakeupIsLost`, `SafeToFree`, `SemRefinement` | `TypeOK` and `LockInv` of `Sem`; `NoLostWakeup`; `WaitReturnsAfterSignal`; the semaphore implements `BinarySem` |
| | `HandlerTypeCorrect`, `ResumeWakes`, `NoLateClient` | `HandlerTypeOK` and `HandlerLockInv`; `SleeperIsPaused`; `NoClientAfterFinish` |
| `MailboxProofs` | `TypeCorrect`, `WaitSendIsExact`, `NoWakeupIsLost`, `RoomIsThere`, `Refinement` | the safety of `MailboxFull`, for any finite set of producers, and that an insertion finds room |
| | `FewClientsNeverBlock` | `NobodyBlocks`, when there are no more clients than slots and each waits for its answer |
| | `LoopIsForever` | no step of the program leaves the loop of `mbox_fetch` once a producer is blocked |
| `Practica3Proofs` | `MessagesAreLive`, `OneAnswer`, `AnswerIsThere`, `MessagesAreSafe` | the three parts of `MessagesSafe`, and the whole, with any number of signals |
| | `NobodyLeavesTheTable`, `TypeCorrect` | no write leaves the table of clients, and `TypeOK`, with any number of signals |
| | `TableMatches`, `ShutdownIsClean`, `NothingOutgrows` | `TableIsExact`, `CleanShutdown`, `Bounded`, without signals |
| `SchedProofs` | `StopTogether`, `LocksAreHeld`, `Improvement`, `DatesAreAhead` | `AllStopTogether`; `LockInv`; `MigrationHelps`; `DateAhead` with two CPUs or more |
| | `Consistency`, `WakeUpsInTime`, `EndsWhenDone`, `TimesAreRight` | `Consistent`, `NothingOverdue`, `EndsDone`, `TimesAddUp`, if IO takes time |
| | `NewTasksResult` | what `sched_start` puts on the list of events of a CPU |
| `SListProofs` | `ListsAreWellFormed`, `SListRefinement`, `ListOrder` | `WellFormed`; the links implement `SeqStore`; `OrderIsKept` |
| | `SortSorts` | what `sort_slist` makes of a list of any length |
| `ImportFSProofs` | `NumbersAgree`, `OnlyGhostsCrash`, `EnoughNodes` | `EntryOwnsItsNode`; `CrashOnlyOnGhost`; no crash with as many nodes as entries |
| | `AccountsAgree`, `FirstFitResult` | `Accounts`; the blocks an import takes are distinct, free, and on the disk |
| | `Refinement` | the commands implement `FileStore`: an export is what was imported |
| `MiFSProofs` | `StructuresHold`, `CountIsSafe`, `LostOnlyByFault` | `Structures`; `FreeCountIsSafe`; `LostOnlyAfterFault` |
| | `FSInvariant`, `FirstFitResult`, `ResizeEnds` | the inductive invariant; what the scan of the map finds; what a successful resize leaves |
| | `CountedIsSafe`, `ResizeLoosely` | why the count of free blocks is safe in the tables that a failed growth leaves, and that every end of every resize keeps them such |
| | `MiFSRefinement` | the calls implement `ByteStore` |
| `LedsProofs` | `OnlyTheUserEnds`, `FirstIsSafe`, `SimonCanBeWon` | `EndsOnlyIfAsked`; `NobodyLeftBehind`; `SimonIsFair` |

How they go:

`PartsProofs` holds the proofs of `CBuffer`, `Sem` and `SignalHandler`, three small
modules that share no state; the names of two of them carry a prefix, `Buffer` and
`Handler`, so that one module can extend all three.

* *CBuffer.*  The type invariant is inductive.  The refinement rests on
  arithmetic modulo the capacity: the slot of an item of `Contents` is a one-to-one
  function of its position, so that a write reaches one position only, and a
  wrapped head shifts the others by one.
* *Sem.*  `LockInv` makes the accesses exclusive.  `NoLostWakeup` is inductive
  with it: a thread queues itself only with the counter at zero and the mutex held, and
  whoever raises the counter keeps the mutex until its broadcast.
* *Mailbox.*  `LockInv` again; that a producer about to insert has seen room and
  keeps the mutex gives `RoomAtInsert`, which makes the drop of
  `DropOldest` impossible and `AfterInsert` an `Append`.  `WaitSendCounts` follows the cardinality of `Blocked`
  one element at a time.  For `FewClientsNeverBlock` the queue holds each
  client once, and never the one that is about to post, so that it is shorter
  than the capacity.
* *SignalHandler.*  The two invariants are inductive together, with the fact that
  main joins only a thread that has left its loop, and that on such a thread no
  handler starts.
* *Practica3.*  The invariant is about ownership.  A message that is in the
  mailbox or with the server is there once, its maker is waiting, and its
  `op_completed` is zero; `op_completed` is one only while the maker waits and the
  answer is written; the maker holds the message allocated from `new_message` to
  `free_message`.  `NoUseAfterFree` alone is not inductive: it is the waiting of
  the maker that forbids the free.  Nothing in it mentions the table or `serv_up`,
  which is why the races on them do no harm to messages.
  `RaceInv` is what the table keeps in spite of its races: there are only two
  creators, the test of `create_client` stops one short of the end, and a creator
  that is past the test leaves room for the other, because a count that was
  loaded and not yet stored is never two behind.  So `n_clients` and every write
  stay in the table.  `QuietInv` is the rest, without signals: client k is the
  k-th created and stands in the k-th entry (`InOrder`), `wait_for_clients` has
  waited for the first `i` (`Joining`), and the server is down before anything it
  needs is taken away (`TakenDown`).  It also shows that the loop of
  `wait_for_clients` always ends at the extra entry of `main.c:23`, and never at its
  test.  For the room in the mailbox, the messages in it are of distinct clients
  (`Once`), which all wait, and the client about to post is not among them.
* *Sched.*  Two invariants.  `RoundInv`: all threads are in the same round of the
  loop, at most a barrier apart, and `completed` changes only between the two
  barriers, so all of them make the test of the loop with the same `step` and the
  same count; the actions that do nothing to the round are one lemma
  (`Inside`).  `BalanceInv`: a balancer holds exactly the locks its place calls for,
  the other queue is not its own (the loads differ by more than one), and from
  the retest to the end of the move the counts of both queues change by its own
  hand only; each step is shown to respect the others (`Respects`).  The greatest
  and the least load exist by well-founded induction on the numbers.  `DateInv`
  follows from `RoundInv`, since the date grows by at least one in every balancing.
  `TaskInv` gives every task the one place of its state: an event on one list, one
  queue or one hand, or the current task of one CPU.  Its parts speak of one task
  (`TaskOK`) or one CPU (`CpuOK`), so that a step is proved on the task and the CPU
  it changes and the rest is left as it was (`Stays`).  It needs `BalanceInv`, for
  what a balancer takes from a queue stays under its lock, and it carries that
  the events of a list are ahead of its clock, which is where a sleep of no time
  breaks it.  `LoadInv` then makes `nr_runnable` the cardinality of what it counts:
  a load of two has a task besides the current one, which is why `steal_task`
  finds one.  `CountInv` does the same for `cpus_completed`: it is the number of
  CPUs between the barriers that have counted themselves, and when it is full
  no CPU has anything left, the hands of the balancers included.  `TimeInv` has the
  time of a task equal the clock of its CPU since the arrival, a sleeping task
  charged ahead, and a running one up to its last tick.
* *SList.*  `Shape(h, f)` says what a heap `h` is: there are sequences `f`, one for
  each list, that share no element; the links of a list lead through its sequence
  and back to the head, in both directions (`Ring`); an element of no sequence
  has no links.  The positions of a ring count its head as the one before the
  first and behind the last, so that an insertion or a removal at either end is
  none of a special case, empty lists included.  An operation is then shown to
  link one element in between two neighbours (`Spliced`) or to take it out
  (`Unspliced`), whatever it writes in which order, and these two change one
  sequence and nothing else (`SpliceBecomes`, `UnspliceBecomes`);
  `list_sol_link_replace` is one after the other, and `list_sol_move_tail` joins two
  rings (`MoveShape`).  That a loop over a list comes to its elements in order is an
  induction over its passes (`Walk`); so every search ends, and `sort_slist`, whose
  invariant after `i` passes is `Pass`: the first `i` elements are where they belong,
  the list still has all its elements, equal ones are in the order they had, and
  `cur` is the next one to place.  `SInv` is `Shape` with the sequences that the
  links themselves lead through, with their lengths in `size`; each operation makes
  one step of `SeqStore` of them (`NextEnds`), which is the refinement.  `WellFormed` by
  itself is not inductive: two rings could share an element.
* *MiFS.*  `FSInv` has a part for the directory with its two counters (`DirInv`) and
  one for the nodes, the map and the count (`Sound`): no block is in two files,
  the marked blocks are the reserved ones and those of the files, all on the
  disk, and the count is the one of the map.  `Sound` is asked only
  while no change of size has failed half way, since a file may share blocks with
  another after it.  What is left then are two weaker parts.  `Enough`, in every state: a node has at least the blocks that its size
  needs, which is why a growth that asks for more adds to its index, and one
  that asks for fewer only happens after a fault.  `Counted`, as long as the
  program runs and no cut has failed: the free count and the numbers of blocks of
  all nodes (`Slots`) add up to the disk, and every marked block is reserved or
  stands in such a slot.  The slots of one block may be several, or hold nothing,
  so that the marked blocks are at most as many as the slots: the count is at most
  the number of free bits (`CountedIsSafe`).  A failed growth has lowered the count
  and raised `numBloques` by the same, whatever it has marked, and a cut gives back
  one of the count for each slot (`ResizeLoosely`).  A resize is proved by the
  ways it can end (`ResizeEnds`): the scan of the map finds as many free blocks of
  the disk as the count promised, although it tests no bound
  (`FirstFitResult`), so a growth gives the file fresh blocks; a cut returns
  those behind the new end; and the node counts the blocks that its size needs.
  `FaultInv` relates the faults to the status.  The refinement adds
  `BytesInv`: without a fault a file has no byte that nobody wrote.  A growth clears
  the tail of the last block and every fresh one, and a write that starts at the
  border of a block, or ends in the one it starts in, puts each byte where the
  file has it (`PlaceIsRight`, by division); the others are the fault `across`.  As no
  two files share a block, a call changes the bytes of one file only
  (`OnlyOne`), and that one as `ByteStore` says.
* *ImportFS.*  `EntryInv`: an entry is in use exactly when the node of its number
  is.  The first free entry is then the number of the first free node, as long as
  there is one; if there is none, the entry is past all the nodes.  `numFiles` is
  the cardinality of the entries in use, so that the loop that looks for a free
  entry finds one.  `BlockInv` adds that every block has one owner and that the map
  and its count agree with the owners; it has to say that a free node owns
  nothing, and that the count of the map is what `myQuota` counts, for then the loop of
  `reservaBloquesNodosI` stays on the disk although the map has more bits
  (`FirstFitResult`, by induction over the number of blocks).  `ContentInv` adds that
  a name has one entry and that a file has as many blocks as its size needs.  The
  refinement maps a name to the bytes of its blocks, one after the other: an
  import writes only fresh blocks, so that no other name changes, and reading byte
  k of the file goes to the block and the place that `escribeDatos` wrote it to.  The
  one exception, the block written for an empty file, is one of `FileStore` as well.
* *Leds.*  `HiloInv`: after the reset `intHilo` is zero only if the user has typed
  it since, and in the first session one thread at the most is alive.
  `EndsOnlyIfAsked` holds in any session, because only a thread that reads can
  write a zero.  `SimonInv` is about the index that five loops share: each leaves
  it where the next one starts, and what a round has shown is the beginning of
  what it asks.

The loops of the programs are recursive functions: the events that `sched_start`
makes (`NewTasks`), the blocks a scan of a map finds (`FirstFit`, in both file
systems), the elements a loop over a list comes to (`From`) and the passes of
`sort_slist` (`Sorted`).  What they are is proved by induction on a set of numbers
(`NatSet`), from the existence of the function.

Only model-checked: liveness under fairness (`SignalIsConsumed`,
`QueuedIsFetched`, `FinishEndsUnless`, `HandlerEndsUnless`, `ClientIsAnswered`,
`Terminates`, `BlinkingEnds`), which this prover cannot treat.  Every safety
property, action property and refinement that a run checks is also a theorem.

## Not modelled

Left out of the modelled programs:

* The text and the type of a message: no step depends on them, except that a
  NONE message has no content to write.
* Options, prompts, logging, statistics, and the commands that print or set a
  default; the parser of the shell, `parse.c`; `main.c` of schedsim, which reads
  options and starts the threads.
* A failed allocation, except that of a message, and except as a cause of `Fail`.
* SIGINT, whose handler prints; the signals that stay masked.
* The order in which mutexes and semaphores wake threads: any order is allowed.
* Weak memory: the shared variables accessed without a lock (`n_clients`,
  `serv_up`, `_pause`, `finish_thread`, `nr_runnable`, `intHilo`) are read and written
  one at a time.
* Times and owners of files; a crash of either file system between two writes:
  both format the disk at every start and read nothing back.
* Errors of writing the structures to the disk, whose result the code ignores.
* The delays of the LED games, and the open flag of their driver, which the
  program does not share with anybody.

Left out altogether:

* `sched_rr_dq.c`, and the part of `barrier.c` that is not built: empty functions for
  the student.  `Sched` takes any choice of a class.
* `signal_handler_opcional.c`, a variant with `sigwait` that is not built.
* `chardev.c`: the driver of the kernel documentation, unchanged by the assignment.
* The mitar archivers: sequential copies between files, where the data is all
  there is; two of the three do not compile.
* The exercises and the process and file examples: a few dozen lines each without
  a state to speak of, which show one race (a sum without a lock) or none.

## Plan

Done, in this order: practica3, schedsim with its lists, both file systems, the
LED games; theorems for every safety property, action property and refinement of
these.  What would come next:

1. A scheduling class for `Sched`, should the stubs be filled in, with the order of
   round robin as a property, and `Sched` over the lists of `SList` in the place of
   sets: `SListRefinement` and `ListOrder` say that they behave as `Sched` takes them to.
2. The archivers, `Mitar`, over files of bounded length.
3. Liveness, with a prover for it: for `Terminates` the invariants of `SchedProofs`
   leave a measure to be found, the ticks left of all tasks.
