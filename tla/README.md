# A verification project for cs213

The repository holds the assignments of a course on computer systems. Four of
them are programs with behaviour worth a model: a user-level thread package in
C (`src/a9/uthread.c`) with the tests that run on it, a computation driven by
timer signals (`src/a7/async.c`), disk reads in Java threads
(`src/a8/FunWithThreads.java`), and the processor and memory of a simulated
machine (`src/CPU.java`, `src/MainMemory.java`) with the assembly programs that
run on it (`src/a4`, `src/a5`, `src/a6`). This directory holds TLA+ modules of
these programs, TLC configurations that check them on small instances, and
TLAPS proofs for every size of the spinlocks, the queues and the monitors of the
thread package, of its core (on one processor for any client, on any number of
processors for clients that run their threads to completion), of the
reader/writer test, of the computation with signals, of the disk reads, and of
the machine's memory.

Run TLC as `tlc -config MCUthread_one.cfg MCUthread` and the proofs as
`tlapm UthreadProofs.tla`. `PROJECT.json` lists the runs, the theorems and, for
every definition, the lines it was translated from.

## 1. The system

### Thread package (`src/a9/uthread.c`)

| part | state | operations |
|---|---|---|
| threads (84-94, 262-334) | TCB: `state`, `joiner`, `join_spinlock`, `next`, stack | `uthread_create`, `_yield`, `_join`, `_detach` |
| scheduler (148-248, 340-453) | `ready_queue`, the processors' current threads, one `pthread_base` thread per processor | `uthread_init`, `_switch`, `_stop`, `_start` |
| queues (89-141) | `head`, `tail`, the `next` fields of the TCBs | `initqueue`, `enqueue`, `dequeue` |
| spinlocks (49-78) | one word | `spinlock_create`, `_lock`, `_unlock` |
| monitors (561-635) | `holder`, a spinlock, a queue of waiters | `uthread_monitor_create`, `_enter`, `_exit`; `_enter_read_only` has no body |
| condition variables, semaphores | — | empty bodies and bare declarations |

Processors are pthreads. They share the ready queue and all TCBs, and call
each other only through them: a thread that stops takes the head of the ready
queue, spins while that thread is still `TS_RUNNING` elsewhere, and switches to
its stack; the code behind the switch then *reaps* the thread it came from if
that one was dying (it starts its joiner, or frees its memory if it was
detached). Hard here: what is read before a switch and used after it, the order
of `start` and of setting `TS_DEAD`, join racing with death, detach racing with
both, and processors that wait for each other. It is correct if a thread never
runs on two processors, is reaped once, is not used after it was freed, no
joiner is lost, and every ready thread gets its turn.

Its clients: `src/a8/ping_pong.c` (main creates, joins; workers return or
yield), `src/a9/reader_writer_test.c` (two counters behind a monitor),
`src/a9/bounded_buffer.c` (a ring of 16 slots, on one processor).

### Asynchronous computation (`src/a7/async.c`)

`main` puts four computations into a ring (`doAsync`), a `SIGALRM` handler
takes the next one and completes it, `main` spins on a flag before it uses a
result. Hard: the signal may come between any two stores of `main`, also in the
middle of `doAsync`. Correct if a result is there when its flag says so, the
computations complete once and in order, and the answer is
`(1+2) - (3+4) + 7 = 3` whenever it is printed.

### Disk reads (`src/a8/FunWithThreads.java`)

`sequential`, `threaded` and `executor` read a simulated disk; all count the
reads in an unsynchronised `count++`. Correct if every result ends in the place
of its request and `main` gets all of them.

### The SM213 machine (`src/MainMemory.java`, `src/CPU.java`) and its programs

A byte-addressed memory with big-endian words, a processor of eight registers
with `fetch` and `execute`, and assembly programs written to do what a C
function does. Hard: signs and widths of ints and bytes, addresses at the end
of memory or near the largest int, calls by convention (return address in r6,
arguments and saved registers on a stack in r5), calls through tables and
objects.

### The rest

Section 7 lists what is not modelled, and why.

## 2. The modules

| module | models | level of detail |
|---|---|---|
| `Uthread` (`MCUthread`) | threads and scheduler | one access to shared memory per action |
| `UthreadProofs` | theorems about it for any number of processors, and on one processor for any client | |
| `Spinlock` | spinlocks, implementing `Mutex` | test, exchange, store |
| `ThreadQueue`, `ThreadQueueProofs` | the queues under their spinlocks, extends `Spinlock`, implements `FifoQueues`; theorems about both | one store per action |
| `Monitor`, `MonitorProofs` | monitors, implementing `Mutex` | one access to shared memory per action |
| `UthreadMonitor`, `UthreadMonitorProofs` | the monitor on the scheduler, extends `Uthread`, implements `Monitor` | one access to shared memory per action |
| `ReaderWriter`, `ReaderWriterProofs` | `reader_writer_test.c`, extends `Monitor` | one load or store per action |
| `BoundedBuffer` | `bounded_buffer.c` on its one processor | one call per action |
| `Async`, `AsyncProofs` | `async.c` | one store, loop test or call per action |
| `FunWithThreads`, `FunWithThreadsProofs` | `FunWithThreads.java` | one load, store or library call per action |
| `MainMemory` | `MainMemory.java` | pure operators |
| `CPU`, extends `MainMemory` | `CPU.java` | one stage per action |
| `SM213`, `SM213Proofs`, extends `CPU` | eighteen assembly programs and their C | one stage per action |

`Mutex` and `FifoQueues` are the abstract specifications: a lock is who is
inside, never two; a queue is a sequence. They are reached in steps: `Spinlock`
and `Monitor` implement `Mutex`, `ThreadQueue` implements `FifoQueues` with the
spinlocks it extends, `UthreadMonitor` implements `Monitor`. A definition that follows a comment
"Bug:" is a faulty variant of the one after it; no specification uses it.

### Uthread

A thread *is* its TCB. `cur[p]` is the thread processor `p` runs; `pc`, `from`,
`to`, `stopping`, `cont` and `target` are the program counter and the locals of
`uthread_switch`, `uthread_stop` and `uthread_join` on each thread's own stack,
hence functions of the thread, not of the processor: the code behind a switch
goes on with the locals of the thread that was switched *to*, apart from
`from`, which travels in registers. `state`, `joiner` and `joinLock` are the
fields of the TCB; `freed` is the memory given back. `readyQueue` is a
sequence, changed in one step, because the code only touches it under its own
spinlock (that spinlock and those pointers are `Spinlock` and `ThreadQueue`).

| code | actions |
|---|---|
| `uthread_init` 219-248, `pthread_base` 199-213 | `Init`, `SpawnPthread`, `InitDone`, and `Yield` of the threads named after their processors |
| `uthread_create` 474, `uthread_new_thread`, `uthread_alloc` | `Create` |
| `uthread_yield` 503-506, `uthread_stop` 437-441 | `Yield`, `CallStop`, `Stop` |
| `uthread_switch` 340-409 | `SwitchSelf`, `Switch` with its spin `MayDispatch` |
| `uthread_switch` 411-431 | `FromDying`/`FromLive`, `ReapLock`, `ReapFree`, `ReapStart`, `ReapEnqueue`, `ReapNoJoiner`, `ReapDead`, `ReapUnlock`, `Resume`, `Return` |
| `uthread_join` 508-523 | `Join`, `HasJoiner`, `JoinLock`, `JoinWait`, `JoinUnlock`, `JoinDead`, `Joined` |
| `uthread_detach` 530-539 | `Detach`, `DetachLock`, `DetachSet`, `DetachUnlock`, `DetachFree` |

What was abstracted: return values, start arguments, the assembly that saves
registers, and the two sides of `if (state == ...) state = ...` in
`uthread_start`, one step for the read and the write. A freed TCB is not handed
out again, so that a later access to it is recognised. The constants
`Yielders`, `Loopers`, `Joiners`, `Detachers` and `Rejoin` say which threads of
the client call what, which makes one module serve several clients. A spinlock
that a freed TCB was left holding stays held.

### Monitor, UthreadMonitor and ReaderWriter

`Monitor` has the spinlock, the holder, the queue of waiters and the program
counter of every thread in `uthread_monitor_enter` and `_exit`. The ready queue
is reduced to what a monitor sees of it: `started` is the set of threads for
which `uthread_start` was called and that have not come back from
`uthread_stop`. A start that comes before its stop is kept.

That this reduction is right is what `UthreadMonitor` shows. It adds the
monitor to `Uthread`: `QueuedUnlock` goes into the stopping code of `Uthread`
(`CallStop`), `ExitStart` and `ExitEnqueue` are the two halves of
`uthread_start`, and a thread runs only while a processor has it. In the race
that the comment at line 447 has in mind, a waiter is started before it has
stopped: it is then on the ready queue while it still runs, blocks, is taken from
the queue and comes back. Under the refinement mapping a thread is in `Stop` of
`Monitor` from the stop until the switch back, and it is started while it is on
the ready queue, being switched to, or on a processor again.

`ReaderWriter` adds the loads and stores of `read` and `write` and the loop of
`drive_test`, for all three types of the test: 0 calls `read` and `write` bare,
1 in a monitor, 2 lets readers call `uthread_monitor_enter_read_only` (613-615),
which is empty. A reader of type 2 therefore leaves a monitor it never entered,
and fails `assert (monitor->holder == uthread_self ())` at line 629 (`Abort`),
unless another thread fails it first.

### Spinlock and ThreadQueue

`Spinlock` keeps apart the test loop of lines 62-64 and the exchange of 66-68:
several clients may see the lock free, and the value the exchange brings back
decides. `ThreadQueue` has one such lock per queue and, under it, the `head`,
`tail` and `next` pointers as the code does, one store per step; several queues
share the `next` fields, and `dequeue` does not reset them (136). It is the
ready queue (155-171) and, with the same code, every monitor's queue of waiters.
A client that calls `enqueue` has the thread in its hands, as its callers do. The
history variable `content` maps the module to `FifoQueues`.

### BoundedBuffer

With `NUM_PROCESSORS` 1 and no yield in `producer` and `consumer` a thread runs
to its end before the next one starts, so a call is one action. Queue, head,
tail and the two full and empty tests are the code's; `accepted` and `consumed`
remember what went in and came out.

### Async

`main` is the sequence of its stores, spins and calls; the service routine runs
between any two of them, to its end, on the same thread, and is modelled in its
own steps (test, copy, compute, unlock). An entry of the ring without handler
or buffer is a null call, the state "crashed".

### FunWithThreads

An int is a pair of halves, as `run` prints it and `read` builds it; `count++`
is a load and a store. The pool is a queue of submitted requests and a limit.
Two reads that overlap can get the same number, and after 32 768 reads `>> 16`
prints it negative; neither has a run here, as neither loses a result.

### MainMemory, CPU and SM213

Memory is the function from the addresses written so far to their bytes; others
read as 0. Java's int is `Add`, which wraps without leaving the range TLC can
compute in. `AddressFault` is the bounds check of `get` and `set` and what Java
does behind it. Each `case` of `execute` is an action; `Using`, `Assign` and
`Access` put the exceptions in the order in which the Java expressions are
evaluated, so a bad source register is found before a bad address and that
before a bad target register. `Shift` shifts the register's *number*, as lines
229-235 do, by the distance modulo 32. Six bytes are fetched whatever the
instruction (58), so an instruction in the last bytes of memory cannot be
fetched. `insOpImm` is signed: it comes from a class outside the repository, and
backward branches and lines 229-230 need it so.

`SM213` holds the texts, as the machine code their `.s` files assemble to, and
the C they implement: what it leaves in its variables (`Results`) and which
calls it makes with which arguments (`CallsInC`). Data words of a file are
inputs: `Init` starts with the file's values and with others. The history
`calls` records every jump to a routine with the words its caller pushed.
`SB-switch.c` says the same in three ways; the text is compared with all of
them. `SA-dynamic-call.s` calls methods through objects laid out in its data.
`Strays` are single instructions behind a load of an extreme value; they reach
the exceptions.

## 3. The runs

Twelve runs; each property is stated in a comment next to its definition.

| run | instance | what it shows |
|---|---|---|
| `thread_package_1` | 1 processor, main and 2 workers; all may yield once, join, detach, also the same thread twice | nothing is used after it is freed, no joiner is lost or replaced, the ready queue is never empty when a thread stops, no deadlock |
| `thread_package_2` | 2 processors, 2 workers that run to completion; main joins, main and a worker detach, main yields for ever at its end | one processor per thread, reaped once, no cycle of spins; join returns, ready threads run, detached threads are freed |
| `spin_cycle_3` | 3 processors, one worker | **violation** of `NoSpinCycle` |
| `use_after_free_2` | 2 processors, a worker that is joined | **violation** of `NoUseAfterFree` |
| `stale_reap_2` | 2 processors, workers that yield once | **violation** of `ReapedOnce` |
| `thread_queues` | 2 processors, 2 threads, 2 queues | a lock lets in one and always somebody; the pointers are lists whenever no lock is held; locks and pointers together implement FIFO queues |
| `monitor_on_threads` | 2 processors, 2 workers that enter twice, main yields for ever at its end | the composition implements `Monitor`, a thread runs on one processor although it may be queued while it runs, every enter returns |
| `reader_writer` | 1 reader, 2 writers, 2 rounds each, types 0 to 2 | the monitor's assertion, its wakeups and its mutual exclusion; the test's own checks; the test ends, type 2 with the failed assertion |
| `async` | the program, ring of 4 | results and flags, order, the ring never full, and that only a signal inside `doAsync` can hurt |
| `fun_with_threads` | 4 reads; in sequence, threads, pools of 1 to 3 | results in place, order on one worker, termination |
| `buffer_empty` | the constants of the program, 2 pairs | **violation** of `EmptyMeansEmpty` |
| `sm213` | 18 programs with about 400 choices of data, 102 stray instructions, 16 KB | the C's results, no stray stores, the C's calls with their arguments, every program halts |

### Bounds

*Two workers*: a thread can die, be joined, be detached and be the joiner, and
two of them can do so at once; a third adds no new pair of actors.
*Processors*: with two, every access can fall between two others; the cycle of
spins needs a third, as the `pthread_base` threads provide the second yielding
thread. `MaxYields` 1: a thread comes back once after another processor saw it
leave. *Monitor*: two rounds per thread, so a woken thread meets one that enters
for the second time. *Two queues, two threads*: a thread leaves one queue for
the other and meets the other thread in front of or behind it there, which is
all that the shared `next` field can do; the proof covers the rest.
*MaxEntries 2 in `UthreadMonitor`*: one worker waits while the other is inside, is
started before or after it blocked, and meets the other on its second way in.
*Ring of 4 in `Async`*: at most two computations are outstanding (`NeverFull`
itself), so 1000 slots and 4 behave alike. *MaxCalls 8* cuts the history one call
after the longest program, which makes seven. *Half* is the 2^16 of the
code's shifts.
*ByteCapacity* 16 384: the highest address a program uses is 0x3013.
*Data*: the file's own values, boundary values, and every branch of the C.

### Fairness

*Uthread*: weak fairness of every processor. A pthread keeps executing; its
thread changes only by its own switch. Ready threads are served first in, first
out, so nothing stronger is needed. *Monitor, ReaderWriter*: weak fairness of
every thread, which is what `Uthread` provides (`ReadyRuns`), and strong
fairness of taking the spinlock: the lock is held for a few instructions, and a
processor does not lose the exchange each time; the assertion of a type 2 reader
needs the same. With two processors and the bounded entries of
`monitor_on_threads` weak fairness is enough: the other processor can take the
lock away only finitely often. The locks of `ThreadQueue` assume weak fairness only
and promise only that *somebody* gets in. *Async*: the timer
fires again and again, `main` runs between signals. *ThreadQueue*: weak fairness
of every client that is spinning or inside; nobody has to call. *UthreadMonitor*:
weak fairness of every processor, nothing else. *FunWithThreads*: the Java
scheduler lets every thread go on. *SM213*: the machine runs until it stops.

Deadlock is checked in `thread_package_1`, `thread_queues` and `sm213`. The other programs end; for `thread_package_2` the same is said by
`NoSpinCycle` and the liveness properties.

## 4. What disagrees with its documentation

* **Two processors spin on each other** (`spin_cycle_3`). `uthread_yield` puts
  its thread on the ready queue before it stops. Two threads that yield at the
  same time can each be taken by the processor of the other; both processors
  then wait for a thread that is `RUNNING` only because its processor waits
  (line 347). With two processors the order of the queue prevents it
  (`TwoProcessorsDoNotSpinForEver`); with three it happens.
* **The joiner frees what the reaper still uses** (`use_after_free_2`). Line 417
  starts the joiner, lines 418-419 then write to the dead thread, which the
  joiner may have freed on another processor.
* **Two processors reap one thread** (`stale_reap_2`). Line 411 reads the state
  of the thread that was left, when it may have run and died elsewhere.
* **A full ring looks empty** (`buffer_empty`). `enqueue` moves the tail twice.

Seen while modelling, without a violation run: the empty read-only entry
(above; `TestEnds` says that type 2 always aborts); a signal
between lines 65 and 66 of `async.c` finds an entry without a handler
(`CrashNeedsRace` shows it is the only way to fail); the repeated and negative
numbers of `FunWithThreads`; `MainMemory.java` 98 and 119, where
`address + length` wraps and Java's own exception appears instead of the
`InvalidAddressException` of lines 113-114 (theorem `NoAccessOutside` says for
which addresses); its self-test expects 349 of bytes 13, 5, 1, 0 (161), which
`bytesToInteger` does not yield; `S6-if`, `A5-a` and `q4` compare by
subtracting, which is wrong when the difference is no int, so they are run only
where it is (`DifferenceFits`).

## 5. What is proved

For every value of the constants; the assumptions are the modules' `ASSUME`s.

* **Uthread on any number of processors** (`UthreadProofs`), for any workers:
  `TypeCorrect`, `MutualExclusionOfStacks`, `QueueHandsOutOnce`, `OneReaper`,
  `StopAssertion`, `JoinGetsResult`, `JoinersAreStarted`, `DetachedFreedLast`,
  `JoinerStays`, `NoThreadIsLost`, and `TwoProcessorsDoNotSpinForEver` for two
  processors. All under `RunToCompletion`: main joins, workers neither yield
  nor join, nothing is joined or detached twice. The assumption is needed:
  without it `stale_reap_2` breaks `ReapedOnce`, and a thread reaped twice starts
  its joiner twice.
  The first invariant is `TypeOK /\ QueueInv /\ (Exited \/ Inv)`. None of the
  properties is inductive alone. `QueueInv` puts a pending thread in one place,
  the queue or one processor's `to_thread`. `PendingInv` says a pending thread
  that still runs is about to leave its stack, so `Switch` cannot put it on two
  processors; that in turn needs a joining main not to be started early
  (`JoinInv`: while a worker has yet to start main, main waits for it, which
  needs `ClaimInv`, one claimant per worker) and workers to stop only in order
  to die (`DyingInv`). `FromInv` ties a dead worker to the one thread switched
  to from it, which gives `OneReaper`. `StopAssertion` counts: by `IdleInv`
  every processor's base thread is pending or runs outside the stopping code;
  if the queue were empty, all the base threads would have to sit on or be held
  by fewer processors than there are of them.
  The second one, `LifeInv`, is about joining and freeing and is inductive only
  together with the first: `LockInv` (who holds the `join_spinlock` of a thread,
  so that the joiner that finds it not DEAD sets `joiner` before the reaper
  reads it), `DeadInv`, `ResultInv` (a waiting main has a
  target that will start it, or has been started by one that has ended),
  `FreedInv` (a freed thread is nobody's target and not pending; only a reaper
  behind the start of a joiner can still have it in hand, which is the case of
  `use_after_free_2`).
  `NoThreadIsLost` is the safety half of what `ReadyRuns` and `JoinReturns` say
  about liveness: until the process exits, a thread that has been created and has not
  returned runs, is in the ready queue or is what a processor switches to, and a
  `main` that does none of these waits for a worker that does, or that is being
  reaped and will start it. Its invariant `PlaceInv` follows each thread from its
  creation: `BornInv` (only a worker that has been created is claimed), `WorkInv` (one
  that has been created and has not returned is pending or runs), `ReapInv` (a dying worker has a thread
  behind it that reaps it) and `MainInv`.
  `TwoProcessorsDoNotSpinForEver` adds `OrderInv`, about the order of the queue: two
  threads that stop together are queued in that order, so each can be handed
  the other only if nobody else is in the queue; then both are base threads, and
  nobody would be left to run or start `main`, which `PlaceInv` excludes.
  `spin_cycle_3` shows why the hypothesis is needed.
* **Uthread on one processor** (second part of `UthreadProofs`), for any workers and *any*
  client: workers may yield, join and detach, and threads may be joined and
  detached several times. `OneTypeCorrect`, `OneQueuedOnce`, `OneStopAssertion`,
  `OneNothingUsedAfterFree`, `OneJoinGetsResult`, `OneJoinersAreStarted`,
  `OneJoinerStays`: what `thread_package_1` checks for two workers. The
  invariant `OneInv` rests on one observation: only `uthread_switch` changes the
  running thread, so every other thread is behind a switch or gone
  (`OthersInv`), and the sequences between two switches are never interrupted.
  `MeInv` and `LeavingInv` describe the thread that runs, `RunnableInv` makes
  the pending threads exactly those whose state lets them run (apart from the
  joiner between `ReapStart` and `ReapEnqueue`), `EndInv` says that a dead
  thread is freed or in the hands of the thread behind it, and `AimInv`,
  `CallInv`, `WaitInv` tie a call of join or detach to the fields of its target:
  a joiner is `BLOCKED` exactly until its target has started it.
* **Spinlock** (in `ThreadQueueProofs`): `LockWordCorrect` (the word is set exactly while one client is
  in), and `MutualExclusion`: it implements `Mutex`. The property is inductive
  with its types: an exchange that finds the word clear finds nobody in.
* **ThreadQueue**: `ListsStayLinked`, and `Implementation`: spinlocks and
  pointers together are a set of FIFO queues, whose content is the history; by
  `ListsStayLinked` the pointers spell out that history whenever no lock is held.
  `LocksOfQueues` carries the lock's theorem over, as every step of the queues is
  a step of the locks or a stutter. The invariant says, for each queue, which shape its pointers have
  at each statement of the client inside (before the link, with a tail that is
  one behind, without a head, with a head that has moved on), and that every
  thread is in one place: in one queue, in a client's hands, or the argument of
  one call. That `dequeue` leaves `next` dangling is harmless because `enqueue`
  overwrites the field before it links the thread.
* **Monitor**: `HolderAssertion`, `WakeupsArrive`, `Implementation`. The
  invariant has three parts: who holds the spinlock (`LockInv`), where a thread
  that sleeps is to be found (`SleepInv`), and that a free monitor with waiters
  has a thread on its way to it (`AwakeInv`).
* **UthreadMonitor** (`UthreadMonitorProofs`), for any number of processors, of
  threads and of entries: `MonitorImplementation`, the monitor on the thread
  package implements `Monitor`, that is, a thread that was put on the ready queue
  comes back from its `uthread_stop` once and nothing else lets it go on;
  with it `MonitorOneProcessorPerThread`, `MonitorQueuedOnce` and
  `MonitorStopAssertion`, for threads that block and are started while they may
  still be on the way off their processor, and `MonitorOnThreads`, the results
  about `Monitor` carried over. The hypothesis `MonitorClient` says that nobody
  joins or detaches and that `main` does not return while the monitor is in use:
  workers that block and also are joined by others run into `stale_reap_2` and
  `use_after_free_2` with more than one processor. The invariant `ThreadsInv` is the
  scheduler's share: besides the types and who is where (`QueueInv`, `CpuInv`,
  `BootInv`, `IdleInv`), `ComesBackInv` (a pending thread that a processor still
  runs is about to leave its stack, so `Switch` cannot put it on two),
  `CallerInv` (only the dying do not come back) and `CameFromInv` (who is reaped is
  dead). It is not inductive by itself, nor is `Monitor`'s: that the thread an
  exit puts on the ready queue is not there yet is `SleepInv` of `MonitorProofs`
  seen through the mapping, and that each step maps to one of `Monitor` or to none
  needs `ThreadsInv`. `MonitorInvariance` proves the conjunction.
* **ReaderWriter**: `TestKeepsHolder`, for all types; `NobodySeesThemApart` and
  `NoWriteIsLost` for type 1, for any threads, writers and rounds. The steps of
  the test keep the monitor's invariant (`MonitorKept`); with it only the holder is
  between two stores, so what it has loaded stays true (`CounterInv`, `PlaceInv`).
  `CountInv` says that `c0` is the number of pairs of a writer and a round whose
  store has happened, a set that each store makes one larger and that is
  everything when all have finished.
* **Async** (`AsyncProofs`), for a ring of any length with more slots than there are
  tasks, and a signal between any two steps: `FlagMeansResultTheorem`,
  `CompletedInOrderTheorem`, `NeverFullTheorem`, `CrashNeedsRaceTheorem`. The
  invariant relates the ring to the place where `main` is: `RingInv` (the head has
  advanced once for each `doAsync` begun, the tail once for each handler
  completed, and the slots between them hold exactly the tasks in between, apart
  from the stores that the current `doAsync` has yet to make), `OrderInv` (the
  completed tasks are the first ones of the program's order), `FlagInv` (a flag
  that is back belongs to a completed task), `ArgumentsInv` (a task that has been
  submitted computes with the numbers the program means it to have, the third
  with the results of the first two), and `RaceInv` (an empty slot
  is met only behind a signal inside `doAsync`).
* **FunWithThreads** (`FunWithThreadsProofs`): `OneAtATimeInOrderTheorem` for any
  number of reads, `ResultsInPlaceTheorem` for up to 32 768 of them (the
  hypothesis `ReadCount <= Half \div 2`: beyond it `>> 16` makes the number of the
  request negative) and pools of any size. `PoolInv` puts each request
  in one place (not yet submitted, queued, taken by a thread, finished),
  `CollectedInv` says what each thread has stored where, and `CountInv` bounds
  `count` and what was loaded of it by the reads begun; `OrderInv` says that a disk
  that serves one at a time has counted the requests before it.
* **MainMemory** (first part of `SM213Proofs`): `IntegerRoundTrip`, a word is read as
  it was written; `NoAccessOutside`, the bounds check lets through exactly the accesses
  inside the array (it says as well for which addresses the wrong exception
  comes); `WordsAreKept`, a load reads what the last store to its bytes wrote.
* **CPU** (same module), for any program and any capacity: `MachineStaysInRange`, no
  byte outside the array, every register and `pc` an int, so that `Add` is never
  applied to what Java could not hold; and `InstructionsHaveOneEffect`. Both rest
  on the lemma `ExecuteEnds`: each case of `execute` ends in one register, one word
  within the array, a jump, nothing, or an exception.
* **SM213** (`SM213Proofs`): `S6-if.s`, instruction by instruction. `S6LeavesTheGreater`
  and `S6WritesItsResult` say of it what `ResultAsInC` and `OnlyItsOwnMemory` say, for
  any two ints `a` and `b` whose difference is an int (`DifferenceFits`, the condition
  under which comparing by subtraction is right: `SubtractFits`), whatever else is in
  memory, in any array that reaches beyond `max` (`\h3004 <= ByteCapacity`).
  `S6Inv` says at each address of the text what the registers hold when the
  instruction there runs (`S6At`), that the instruction fetched is the one of the text
  (`Decoded`), and that memory is as it was loaded until the store (`S6Runs`).
  `FetchDecodes` and `Runs` carry over from instruction to instruction. `S6IsRun`
  shows that the runs of `Spec` that load `S6-if` start this way.
  `A5-c.s`, `main` with a call, a stack and a `switch` through a jump table, is done
  the same way: `A5CallsFoo` (`CallsAsInC`: one
  call of `foo`, with the three words at `\h200` on the stack), `A5LeavesTheResult`
  (`ResultAsInC`) and `A5WritesItsOwn` (`OnlyItsOwnMemory`: neither the text nor the jump
  table changes), for any three ints, in any array that reaches beyond the
  stack (`\h1028 <= ByteCapacity`). Only where the first int is 14 or 16 must the
  difference of the other two be an int, because `foo` compares them by subtracting.
  The two tests before the jump compute `arg0 - 10` and `arg0 - 18`, which wrap for
  ints close to the smallest; `TableIndex` shows that they let 10 to 18 through all the
  same and nothing else, so the jump never reads beyond its nine words. `A5At` says
  what the registers and the pushed words are at each of the 66 instructions,
  `A5Memory` that nothing but those words and `result` differs from what was loaded;
  one lemma for each block of the text (`MainStep`, `FooStep`, `SumStep`, `FirstStep`,
  `SecondStep`, `EqualStep`, `EndStep`, `ReturnStep`) leads from one place to the next.
  `A5IsRun` shows that the runs of `Spec` that load `A5-c` start this way.

Only model-checked: everything about liveness (fairness and ENABLED are beyond
the proof system); `NoSpinCycle` for clients other than `RunToCompletion`; the
properties of `Uthread` on several processors with
workers that yield, or join one another, where `stale_reap_2` and
`use_after_free_2` say what goes wrong; the walk along the pointers (`Chain`), a
recursion over the length of a queue; what the assembly programs of `SM213` other
than `S6-if` and `A5-c` compute, for the data that its run gives them, and the calls
they make. Most of them run in a loop over an array, whose sum or count is defined
by recursion over its length.

## 6. Plan

Built, in this order: `Uthread`, `Spinlock`, `ThreadQueue` on top of it,
`Monitor`, `UthreadMonitor`, `ReaderWriter`, `Async`, `FunWithThreads`,
`BoundedBuffer`, `MainMemory`, `CPU`, `SM213`, and the proofs.

Next: more programs of `SM213` for all ints, as `S6-if` and `A5-c`: `SB-switch`, whose
jump goes through a table as well, then the unrolled loops, whose sums have a
fixed number of terms.

## 7. Not modelled

* *Condition variables and semaphores* (`uthread.c` 637 and below, `uthread.h`):
  bodies that only say TODO, or declarations without a definition.
  `bounded_buffer.c` creates two condition variables and uses neither.
* *`bounded_buffer.c` with another `NUM_PROCESSORS`*: the ring would be used
  without any lock; nothing in the file says what it would then promise.
* *`src/a3/dangling-pointers.c`*: fixed sequences of pushes and pops that read
  and write freed memory on purpose. Each is a single path without inputs, and
  what it prints is not defined by C.
* *`cpy.s`, `cpy_attack.s`, `attack.s`* in `src/a5`: an exercise about a copy that
  overruns its buffer on purpose; there is no promise that it keeps.
* *The simulator* (`*.jar`): compiled classes without source. What `MainMemory`
  and `CPU` call of it is modelled from its use there.
* *Output, `Args`, the self-test of `MainMemory.main`, build files*: straight-line
  code about wording and parsing. What `FunWithThreads` prints is its results,
  which `ResultsInPlace` checks.
