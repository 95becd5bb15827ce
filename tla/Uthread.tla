------------------------------ MODULE Uthread ------------------------------
(***************************************************************************)
(* The user-level thread package of a9/uthread.c: thread control blocks,   *)
(* the ready queue, context switching between the processors (pthreads),   *)
(* and the operations create, yield, join and detach.                      *)
(*                                                                         *)
(* A thread is its TCB.  A processor p runs the code of the thread cur[p]; *)
(* every other thread keeps its program counter and locals on its own      *)
(* stack, so pc, from, to, ... are indexed by thread, never by processor.  *)
(* One action is one access to memory that two processors share.  The      *)
(* ready queue is read and written under ready_queue_spinlock only and its *)
(* operations are single steps on a sequence.                              *)
(***************************************************************************)
EXTENDS Naturals, Sequences, FiniteSets

CONSTANTS
  Procs,      \* the processors: the initial pthread and those uthread_init adds
  BootProc,   \* the processor that main() starts on
  Base,       \* base_thread, the TCB of main()
  Workers,    \* the TCBs user code can obtain from uthread_create
  NoThread,   \* the null pointer
  Detached,   \* the (uthread_t*) -1 that uthread_detach stores in joiner
  Yielders,   \* the threads whose code calls uthread_yield ...
  MaxYields,  \* ... and how often each of them does so at most
  Loopers,    \* the threads that end in a loop of uthread_yield, as
              \* pthread_base does, and never return
  Joiners,    \* the threads whose code calls uthread_join
  Detachers,  \* the threads whose code calls uthread_detach
  Rejoin      \* whether a thread is joined or detached more than once

(***************************************************************************)
(* uthread_init gives every processor one thread that runs pthread_base,   *)
(* an endless loop of yields.  That thread is named after its processor.   *)
(***************************************************************************)
Threads == {Base} \cup Procs \cup Workers

ASSUME ThreadsAssumption ==
  /\ BootProc \in Procs
  /\ IsFiniteSet(Procs)
  /\ Base \notin Procs \cup Workers
  /\ Procs \cap Workers = {}
  /\ NoThread \notin Threads
  /\ Detached \notin Threads \cup {NoThread}

ASSUME ClientAssumption ==
  /\ Yielders \subseteq {Base} \cup Workers
  /\ Loopers \subseteq {Base} \cup Workers
  /\ Joiners \subseteq {Base} \cup Workers
  /\ Detachers \subseteq {Base} \cup Workers
  /\ MaxYields \in Nat
  /\ Rejoin \in BOOLEAN

VARIABLES
  state,       \* TCB field state (TS_xxx); "UNBORN": no such TCB yet
  joiner,      \* TCB field joiner
  joinLock,    \* TCB field join_spinlock: TRUE while held
  freed,       \* the TCBs given back to free()
  readyQueue,  \* ready_queue, head first
  cur,         \* the thread each processor runs
  pc,          \* where a thread is, or where it goes on when it is switched to
  from,        \* from_thread in uthread_switch, once the switch is done
  to,          \* to_thread in uthread_stop and uthread_switch
  stopping,    \* stopping_thread_state, the argument of uthread_stop
  cont,        \* where uthread_stop returns to
  target,      \* the argument of uthread_join and uthread_detach
  yields,      \* how often a thread has called uthread_yield
  claimed      \* the threads that have been passed to join or detach

tcbVars    == <<state, joiner, joinLock, freed>>
stackVars  == <<pc, from, to, stopping, cont, target>>
clientVars == <<yields, claimed>>
vars == <<tcbVars, readyQueue, cur, stackVars, clientVars>>

States == {"UNBORN", "NASCENT", "RUNNING", "RUNABLE", "BLOCKED", "DYING", "DEAD"}

ReapPC   == {"reap", "reapLocked", "reapEnqueue", "reapDead", "reapUnlock"}
JoinPC   == {"join", "joinLocked", "joinUnlock", "joined"}
DetachPC == {"detach", "detachLocked", "detachUnlock"}
PC == {"init", "user", "stop", "switch", "switched", "resume", "gone"}
        \cup ReapPC \cup JoinPC \cup DetachPC

Running == {cur[p] : p \in Procs}
Ready == {readyQueue[i] : i \in DOMAIN readyQueue}
At(t, label) == t \in Running /\ pc[t] = label
Goto(t, label) == pc' = [pc EXCEPT ![t] = label]

-----------------------------------------------------------------------------
(* uthread_init: the base thread runs, the first pthread_base thread is in *)
(* the ready queue, the other processors are still to be started.          *)

(* A definition that follows a "Bug:" comment is a faulty variant of the   *)
(* one behind it and not part of the specification.                        *)

(* Bug: no pthread_base thread for the first processor. *)
BootQueueEmpty == <<>>

BootQueue == <<BootProc>>

Init ==
  /\ state = [t \in Threads |-> IF t = Base THEN "RUNNING"
                                ELSE IF t = BootProc THEN "NASCENT" ELSE "UNBORN"]
  /\ joiner = [t \in Threads |-> NoThread]
  /\ joinLock = [t \in Threads |-> FALSE]
  /\ freed = {}
  /\ readyQueue = BootQueue
  /\ cur = [p \in Procs |-> IF p = BootProc THEN Base ELSE NoThread]
  /\ pc = [t \in Threads |-> IF t = Base THEN "init" ELSE "switched"]
  /\ from = [t \in Threads |-> NoThread]
  /\ to = [t \in Threads |-> NoThread]
  /\ stopping = [t \in Threads |-> "RUNABLE"]
  /\ cont = [t \in Threads |-> "user"]
  /\ target = [t \in Threads |-> NoThread]
  /\ yields = [t \in Threads |-> 0]
  /\ claimed = {}

(* The loop of uthread_init: one more pthread, running its own TCB. *)
SpawnPthread(p) ==
  /\ At(Base, "init")
  /\ state[p] = "UNBORN"
  /\ state' = [state EXCEPT ![p] = "RUNNING"]
  /\ cur' = [cur EXCEPT ![p] = p]
  /\ Goto(p, "user")
  /\ UNCHANGED <<joiner, joinLock, freed, readyQueue, from, to, stopping, cont,
                 target, clientVars>>

InitDone ==
  /\ At(Base, "init")
  /\ \A p \in Procs : state[p] # "UNBORN"
  /\ Goto(Base, "user")
  /\ UNCHANGED <<tcbVars, readyQueue, cur, from, to, stopping, cont, target,
                 clientVars>>

-----------------------------------------------------------------------------
(* uthread_create: a NASCENT thread at the tail of the ready queue.  Its   *)
(* stack is laid out so that it starts behind the switch.                  *)

Create(t, w) ==
  /\ At(t, "user")
  /\ t \notin Procs
  /\ state[w] = "UNBORN"
  /\ state' = [state EXCEPT ![w] = "NASCENT"]
  /\ readyQueue' = Append(readyQueue, w)
  /\ UNCHANGED <<joiner, joinLock, freed, cur, stackVars, clientVars>>

-----------------------------------------------------------------------------
(* uthread_stop and uthread_switch. *)

(* Call uthread_stop (st) and go on at label when it returns. *)
CallStop(t, st, label) ==
  /\ Goto(t, "stop")
  /\ stopping' = [stopping EXCEPT ![t] = st]
  /\ cont' = [cont EXCEPT ![t] = label]

(* uthread_yield: onto the ready queue while still RUNNING, then stop. *)
Yield(t) ==
  /\ At(t, "user")
  /\ \/ t \in Procs \cup Loopers /\ UNCHANGED yields
     \/ /\ t \in Yielders /\ yields[t] < MaxYields
        /\ yields' = [yields EXCEPT ![t] = @ + 1]
  /\ readyQueue' = Append(readyQueue, t)
  /\ CallStop(t, "RUNABLE", "user")
  /\ UNCHANGED <<tcbVars, cur, from, to, target, claimed>>

(* Bug: the dying thread skips TS_DYING. *)
ReturnDead(t) ==
  /\ At(t, "user") /\ t \in Workers \ Loopers
  /\ CallStop(t, "DEAD", "gone")
  /\ UNCHANGED <<tcbVars, readyQueue, cur, from, to, target, clientVars>>

(* start_proc returns: uthread_switch stops the thread for good. *)
Return(t) ==
  /\ At(t, "user")
  /\ t \in Workers \ Loopers
  /\ CallStop(t, "DYING", "gone")
  /\ UNCHANGED <<tcbVars, readyQueue, cur, from, to, target, clientVars>>

(* Bug: the thread that is switched to stays on the ready queue. *)
StopKeepsHead(t) ==
  /\ At(t, "stop")
  /\ readyQueue # <<>>
  /\ to' = [to EXCEPT ![t] = Head(readyQueue)]
  /\ Goto(t, "switch")
  /\ UNCHANGED <<tcbVars, readyQueue, cur, from, stopping, cont, target, clientVars>>

(* Bug: the ready queue is a stack. *)
StopTakesLast(t) ==
  /\ At(t, "stop")
  /\ readyQueue # <<>>
  /\ to' = [to EXCEPT ![t] = readyQueue[Len(readyQueue)]]
  /\ readyQueue' = SubSeq(readyQueue, 1, Len(readyQueue) - 1)
  /\ Goto(t, "switch")
  /\ UNCHANGED <<tcbVars, cur, from, stopping, cont, target, clientVars>>

(* uthread_stop takes the next thread; its assertion is StopFindsThread. *)
Stop(t) ==
  /\ At(t, "stop")
  /\ readyQueue # <<>>
  /\ to' = [to EXCEPT ![t] = Head(readyQueue)]
  /\ readyQueue' = Tail(readyQueue)
  /\ Goto(t, "switch")
  /\ UNCHANGED <<tcbVars, cur, from, stopping, cont, target, clientVars>>

(* from_thread == to_thread: uthread_switch returns at once. *)
SwitchSelf(t) ==
  /\ At(t, "switch")
  /\ to[t] = t
  /\ to' = [to EXCEPT ![t] = NoThread]
  /\ Goto(t, cont[t])
  /\ UNCHANGED <<tcbVars, readyQueue, cur, from, stopping, cont, target,
                 clientVars>>

(* Bug: no spin before the switch. *)
MayDispatchRunning(u) == TRUE

(* The spin of uthread_switch lets a thread through that has left its      *)
(* processor.                                                              *)
MayDispatch(u) == state[u] # "RUNNING"

(* The switch proper: the registers of t are on its stack before its state *)
(* changes, and p does not touch that stack afterwards.                    *)
Switch(p) ==
  LET t == cur[p]
      u == to[t] IN
  /\ t # NoThread
  /\ pc[t] = "switch"
  /\ u # t
  /\ MayDispatch(u)
  /\ state' = [state EXCEPT ![t] = stopping[t]]
  /\ cur' = [cur EXCEPT ![p] = u]
  /\ from' = [from EXCEPT ![u] = t]
  /\ to' = [to EXCEPT ![t] = NoThread]
  /\ Goto(t, IF stopping[t] = "DYING" THEN "gone" ELSE "switched")
  /\ UNCHANGED <<joiner, joinLock, freed, readyQueue, stopping, cont, target,
                 clientVars>>

(* Bug: any thread that was left is reaped. *)
FromAny(t) ==
  /\ At(t, "switched")
  /\ Goto(t, "reap")
  /\ UNCHANGED <<tcbVars, readyQueue, cur, from, to, stopping, cont, target,
                 clientVars>>

(* Behind the switch t looks, once more, at the state of the thread that   *)
(* its processor came from: it has to be reaped ...                        *)
FromDying(t) ==
  /\ At(t, "switched")
  /\ state[from[t]] = "DYING"
  /\ Goto(t, "reap")
  /\ UNCHANGED <<tcbVars, readyQueue, cur, from, to, stopping, cont, target,
                 clientVars>>

(* ... or it goes on elsewhere.                                            *)
FromLive(t) ==
  /\ At(t, "switched")
  /\ state[from[t]] # "DYING"
  /\ from' = [from EXCEPT ![t] = NoThread]
  /\ Goto(t, "resume")
  /\ UNCHANGED <<tcbVars, readyQueue, cur, to, stopping, cont, target, clientVars>>

ReapLock(t) ==
  /\ At(t, "reap")
  /\ ~joinLock[from[t]]
  /\ joinLock' = [joinLock EXCEPT ![from[t]] = TRUE]
  /\ Goto(t, "reapLocked")
  /\ UNCHANGED <<state, joiner, freed, readyQueue, cur, from, to, stopping, cont,
                 target, clientVars>>

(* Bug: the detached thread is freed and then marked DEAD. *)
ReapFreeFallsThrough(t) ==
  /\ At(t, "reapLocked")
  /\ joiner[from[t]] = Detached
  /\ freed' = freed \cup {from[t]}
  /\ Goto(t, "reapDead")
  /\ UNCHANGED <<state, joiner, joinLock, readyQueue, cur, from, to, stopping, cont,
                 target, clientVars>>

(* Bug: the detached thread is only marked DEAD. *)
ReapFreeLeaks(t) ==
  /\ At(t, "reapLocked")
  /\ joiner[from[t]] = Detached
  /\ Goto(t, "reapDead")
  /\ UNCHANGED <<tcbVars, readyQueue, cur, from, to, stopping, cont, target,
                 clientVars>>

(* A detached thread is freed, with its join_spinlock still held. *)
ReapFree(t) ==
  /\ At(t, "reapLocked")
  /\ joiner[from[t]] = Detached
  /\ freed' = freed \cup {from[t]}
  /\ from' = [from EXCEPT ![t] = NoThread]
  /\ Goto(t, "resume")
  /\ UNCHANGED <<state, joiner, joinLock, readyQueue, cur, to, stopping, cont,
                 target, clientVars>>

(* uthread_start of the joiner: the assignment to its state, if it has     *)
(* left its processor, ...                                                 *)
ReapStart(t) ==
  LET x == joiner[from[t]] IN
  /\ At(t, "reapLocked")
  /\ x \in Threads
  /\ state' = [state EXCEPT ![x] = IF @ = "RUNNING" THEN @ ELSE "RUNABLE"]
  /\ Goto(t, "reapEnqueue")
  /\ UNCHANGED <<joiner, joinLock, freed, readyQueue, cur, from, to, stopping,
                 cont, target, clientVars>>

(* Bug: the joiner is not put on the ready queue. *)
ReapEnqueueForgets(t) ==
  /\ At(t, "reapEnqueue")
  /\ Goto(t, "reapDead")
  /\ UNCHANGED <<tcbVars, readyQueue, cur, from, to, stopping, cont, target,
                 clientVars>>

(* ... and the enqueue.                                                    *)
ReapEnqueue(t) ==
  /\ At(t, "reapEnqueue")
  /\ readyQueue' = Append(readyQueue, joiner[from[t]])
  /\ Goto(t, "reapDead")
  /\ UNCHANGED <<tcbVars, cur, from, to, stopping, cont, target, clientVars>>

ReapNoJoiner(t) ==
  /\ At(t, "reapLocked")
  /\ joiner[from[t]] = NoThread
  /\ Goto(t, "reapDead")
  /\ UNCHANGED <<tcbVars, readyQueue, cur, from, to, stopping, cont, target,
                 clientVars>>

ReapDead(t) ==
  /\ At(t, "reapDead")
  /\ state' = [state EXCEPT ![from[t]] = "DEAD"]
  /\ Goto(t, "reapUnlock")
  /\ UNCHANGED <<joiner, joinLock, freed, readyQueue, cur, from, to, stopping,
                 cont, target, clientVars>>

ReapUnlock(t) ==
  /\ At(t, "reapUnlock")
  /\ joinLock' = [joinLock EXCEPT ![from[t]] = FALSE]
  /\ from' = [from EXCEPT ![t] = NoThread]
  /\ Goto(t, "resume")
  /\ UNCHANGED <<state, joiner, freed, readyQueue, cur, to, stopping, cont,
                 target, clientVars>>

(* A NASCENT thread enters start_proc, any other returns to its caller.    *)
Resume(t) ==
  /\ At(t, "resume")
  /\ state' = [state EXCEPT ![t] = "RUNNING"]
  /\ Goto(t, IF state[t] = "NASCENT" THEN "user" ELSE cont[t])
  /\ UNCHANGED <<joiner, joinLock, freed, readyQueue, cur, from, to, stopping,
                 cont, target, clientVars>>

-----------------------------------------------------------------------------
(* uthread_join and uthread_detach.  A caller passes a thread that has     *)
(* been created and is not known to be freed and, unless Rejoin, that      *)
(* nobody passed to either of them before.                                 *)

Claim(t, w) ==
  /\ At(t, "user")
  /\ w # t
  /\ state[w] # "UNBORN"
  /\ w \notin freed
  /\ Rejoin \/ w \notin claimed
  /\ claimed' = claimed \cup {w}
  /\ UNCHANGED <<tcbVars, readyQueue, cur, from, to, stopping, cont, yields>>

(* Both begin with a check of joiner, before they take join_spinlock, and  *)
(* do nothing to a thread that has one.                                    *)
Join(t, w) ==
  /\ t \in Joiners
  /\ Claim(t, w)
  /\ joiner[w] = NoThread
  /\ target' = [target EXCEPT ![t] = w]
  /\ Goto(t, "join")

(* Bug: no check for a joiner. *)
DetachAnyway(t, w) ==
  /\ t \in Detachers
  /\ Claim(t, w)
  /\ target' = [target EXCEPT ![t] = w]
  /\ Goto(t, "detach")

Detach(t, w) ==
  /\ t \in Detachers
  /\ Claim(t, w)
  /\ joiner[w] = NoThread
  /\ target' = [target EXCEPT ![t] = w]
  /\ Goto(t, "detach")

HasJoiner(t, w) ==
  /\ t \in Joiners \cup Detachers
  /\ Claim(t, w)
  /\ joiner[w] # NoThread
  /\ UNCHANGED <<pc, target>>

(* Bug: join_spinlock is not waited for. *)
LockTargetNoWait(t, here, next) ==
  /\ At(t, here)
  /\ joinLock' = [joinLock EXCEPT ![target[t]] = TRUE]
  /\ Goto(t, next)
  /\ UNCHANGED <<state, joiner, freed, readyQueue, cur, from, to, stopping, cont,
                 target, clientVars>>

(* spinlock_lock(&thread->join_spinlock) *)
LockTarget(t, here, next) ==
  /\ At(t, here)
  /\ ~joinLock[target[t]]
  /\ joinLock' = [joinLock EXCEPT ![target[t]] = TRUE]
  /\ Goto(t, next)
  /\ UNCHANGED <<state, joiner, freed, readyQueue, cur, from, to, stopping, cont,
                 target, clientVars>>

(* Under the lock, a thread that is not DEAD gets its joiner: the caller   *)
(* of uthread_join, or the mark that uthread_detach leaves.                *)
SetJoiner(t, here, j, next) ==
  /\ At(t, here)
  /\ state[target[t]] # "DEAD"
  /\ joiner' = [joiner EXCEPT ![target[t]] = j]
  /\ Goto(t, next)
  /\ UNCHANGED <<state, joinLock, freed, readyQueue, cur, from, to, stopping,
                 cont, target, clientVars>>

JoinLock(t) == LockTarget(t, "join", "joinLocked")
JoinWait(t) == SetJoiner(t, "joinLocked", t, "joinUnlock")

(* A DEAD thread is freed at once, again without an unlock.                *)
JoinDead(t) ==
  /\ At(t, "joinLocked")
  /\ state[target[t]] = "DEAD"
  /\ Goto(t, "joined")
  /\ UNCHANGED <<tcbVars, readyQueue, cur, from, to, stopping, cont, target,
                 clientVars>>

(* Bug: the caller does not block. *)
JoinUnlockNoStop(t) ==
  /\ At(t, "joinUnlock")
  /\ joinLock' = [joinLock EXCEPT ![target[t]] = FALSE]
  /\ Goto(t, "joined")
  /\ UNCHANGED <<state, joiner, freed, readyQueue, cur, from, to, stopping, cont,
                 target, clientVars>>

JoinUnlock(t) ==
  /\ At(t, "joinUnlock")
  /\ joinLock' = [joinLock EXCEPT ![target[t]] = FALSE]
  /\ CallStop(t, "BLOCKED", "joined")
  /\ UNCHANGED <<state, joiner, freed, readyQueue, cur, from, to, target,
                 clientVars>>

(* return_val is read and the TCB freed. *)
Joined(t) ==
  /\ At(t, "joined")
  /\ freed' = freed \cup {target[t]}
  /\ target' = [target EXCEPT ![t] = NoThread]
  /\ Goto(t, "user")
  /\ UNCHANGED <<state, joiner, joinLock, readyQueue, cur, from, to, stopping,
                 cont, clientVars>>

DetachLock(t) == LockTarget(t, "detach", "detachLocked")
DetachSet(t) == SetJoiner(t, "detachLocked", Detached, "detachUnlock")

DetachUnlock(t) ==
  /\ At(t, "detachUnlock")
  /\ joinLock' = [joinLock EXCEPT ![target[t]] = FALSE]
  /\ target' = [target EXCEPT ![t] = NoThread]
  /\ Goto(t, "user")
  /\ UNCHANGED <<state, joiner, freed, readyQueue, cur, from, to, stopping, cont,
                 clientVars>>

DetachFree(t) ==
  /\ At(t, "detachLocked")
  /\ state[target[t]] = "DEAD"
  /\ freed' = freed \cup {target[t]}
  /\ target' = [target EXCEPT ![t] = NoThread]
  /\ Goto(t, "user")
  /\ UNCHANGED <<state, joiner, joinLock, readyQueue, cur, from, to, stopping,
                 cont, clientVars>>

-----------------------------------------------------------------------------
(* main() returns: the process exits, whatever its threads are doing.      *)
MainReturn ==
  /\ At(Base, "user")
  /\ Base \notin Loopers
  /\ cur' = [p \in Procs |-> NoThread]
  /\ UNCHANGED <<tcbVars, readyQueue, stackVars, clientVars>>

Exited == \A p \in Procs : cur[p] = NoThread
AfterExit == Exited /\ UNCHANGED vars

(* What thread t does on its own; the switch belongs to the processor.     *)
Reap(t) == \/ ReapLock(t) \/ ReapFree(t) \/ ReapStart(t) \/ ReapEnqueue(t)
           \/ ReapNoJoiner(t) \/ ReapDead(t) \/ ReapUnlock(t)

Package(t) ==
  \/ Stop(t) \/ SwitchSelf(t)
  \/ FromDying(t) \/ FromLive(t) \/ Reap(t) \/ Resume(t)
  \/ JoinLock(t) \/ JoinWait(t) \/ JoinDead(t) \/ JoinUnlock(t) \/ Joined(t)
  \/ DetachLock(t) \/ DetachSet(t) \/ DetachUnlock(t) \/ DetachFree(t)

Client(t) ==
  \/ Yield(t) \/ Return(t)
  \/ \E w \in Workers : Create(t, w) \/ Join(t, w) \/ Detach(t, w)
                      \/ HasJoiner(t, w)

Boot == InitDone \/ \E p \in Procs : SpawnPthread(p)

Next ==
  \/ Boot \/ MainReturn \/ AfterExit
  \/ \E t \in Threads : Package(t) \/ Client(t)
  \/ \E p \in Procs : Switch(p)

(* Every processor keeps executing the thread it runs.                     *)
Run(p) ==
  \/ Switch(p)
  \/ \E t \in Threads : cur[p] = t /\ (Package(t) \/ Client(t))
  \/ cur[p] = Base /\ (Boot \/ MainReturn)

Spec == Init /\ [][Next]_vars
FairSpec == Spec /\ \A p \in Procs : WF_vars(Run(p))
-----------------------------------------------------------------------------
Switching(t) == At(t, "switch")

(* Every variable keeps its type: states and program counters come from    *)
(* the finite sets of the code, pointers are threads or one of the two     *)
(* special values.                                                         *)
TypeOK ==
  /\ state \in [Threads -> States]
  /\ joiner \in [Threads -> Threads \cup {NoThread, Detached}]
  /\ joinLock \in [Threads -> BOOLEAN]
  /\ freed \subseteq Threads
  /\ readyQueue \in Seq(Threads)
  /\ cur \in [Procs -> Threads \cup {NoThread}]
  /\ pc \in [Threads -> PC]
  /\ from \in [Threads -> Threads \cup {NoThread}]
  /\ to \in [Threads -> Threads \cup {NoThread}]
  /\ stopping \in [Threads -> {"RUNABLE", "BLOCKED", "DYING"}]
  /\ cont \in [Threads -> {"user", "joined", "gone"}]
  /\ target \in [Threads -> Threads \cup {NoThread}]
  /\ yields \in [Threads -> Nat]
  /\ claimed \subseteq Threads

(* No two processors run the same thread: the spin of uthread_switch and   *)
(* the ready queue keep a yielding thread, which is queued while it still  *)
(* runs, from being resumed before it has left its stack.                  *)
OneProcessorPerThread ==
  \A p, q \in Procs : cur[p] = cur[q] /\ cur[p] # NoThread => p = q

(* A thread is handed out once: it is not in the ready queue twice, not    *)
(* queued while a processor switches to it, and no two processors switch   *)
(* to it.                                                                  *)
QueuedOnce ==
  /\ \A i, j \in DOMAIN readyQueue : readyQueue[i] = readyQueue[j] => i = j
  /\ \A t \in Threads : Switching(t) => to[t] \notin Ready
  /\ \A t, u \in Threads : Switching(t) /\ Switching(u) /\ to[t] = to[u] => t = u

(* The assertion of uthread_stop: a thread that stops finds another one to *)
(* switch to, because every processor has its pthread_base thread.         *)
StopFindsThread == \A t \in Threads : At(t, "stop") => readyQueue # <<>>

(* A thread that dies is reaped once: its joiner is started, or its memory *)
(* freed, by one processor only.                                           *)
ReapedOnce ==
  /\ \A t, u \in Threads : /\ t \in Running /\ pc[t] \in ReapPC
                           /\ u \in Running /\ pc[u] \in ReapPC
                           /\ from[t] = from[u]
                           => t = u
  /\ \A t \in Threads : At(t, "reapLocked") => state[from[t]] = "DYING"

(* The TCBs that the next step of t reads or writes. *)
Touches(t) ==
  CASE pc[t] = "switch" -> {t, to[t]}
    [] pc[t] \in {"switched"} \cup ReapPC -> {t, from[t]}
    [] pc[t] \in JoinPC \cup DetachPC -> {t, target[t]}
    [] OTHER -> {t}

(* The freed TCBs that are still in use: by the next step of a running     *)
(* thread, or through the links of the ready queue.                        *)
UsedAfterFree ==
  freed \cap (Ready \cup UNION {Touches(t) : t \in Running \ {NoThread}})

(* No TCB is used after uthread_free: not by the thread that reaps it, not *)
(* by a joiner or detacher.  Line 420 of uthread.c states the half that    *)
(* concerns the reaper.                                                    *)
NoUseAfterFree == UsedAfterFree = {}

(* Nor, with more processors, a TCB that was detached or found DEAD: only  *)
(* a joiner that the reaper has started can free it too early.             *)
DetachedNotUsedAfterFree == \A w \in UsedAfterFree : joiner[w] \in Threads

(* Line 346 of uthread.c: a processor that finds to_thread RUNNING spins   *)
(* until it has blocked.  So no set of processors may spin on each other:  *)
(* one of them waits for a thread that gets on.                            *)
SpinsOn(p, S) ==
  /\ cur[p] # NoThread
  /\ Switching(cur[p])
  /\ to[cur[p]] # cur[p]
  /\ ~MayDispatch(to[cur[p]])
  /\ to[cur[p]] \in {cur[q] : q \in S}

NoSpinCycle ==
  \A S \in SUBSET Procs : S # {} => \E p \in S : ~SpinsOn(p, S)

(* uthread_join reads the return value and frees the TCB only when the     *)
(* joined thread has returned, and only once.                              *)
JoinSeesResult ==
  \A t \in Threads : At(t, "joined") =>
    state[target[t]] \in {"DYING", "DEAD"} /\ target[t] \notin freed

(* No joiner is lost between its check of the state and the switch that    *)
(* blocks it: it is still to be started by the thread it waits for, or on  *)
(* its way through the ready queue.                                        *)
NoLostJoin ==
  \A t \in Threads :
    cont[t] = "joined" /\ pc[t] \in {"stop", "switch", "switched"} =>
      \/ joiner[target[t]] = t /\ state[target[t]] # "DEAD"
      \/ t \in Ready
      \/ \E u \in Threads : Switching(u) /\ to[u] = t
      \/ At(t, "switched")

(* A thread that has a joiner keeps it, whoever calls uthread_join or      *)
(* uthread_detach later.                                                   *)
JoinerKept ==
  [][\A w \in Threads : joiner[w] # NoThread => joiner'[w] = joiner[w]]_vars

(* Liveness, unless the process exits first.  uthread_join returns if the  *)
(* joined thread does; ...                                                 *)
JoinReturns ==
  \A t \in Joiners :
    (pc[t] = "join" /\ target[t] \notin Loopers) ~> (pc[t] = "user" \/ Exited)

(* ... a thread in the ready queue gets to run its own code; ...           *)
ReadyRuns ==
  \A t \in Threads : (t \in Ready) ~> (At(t, "user") \/ At(t, "joined") \/ Exited)

(* ... the memory of a detached thread that returns is given back.         *)
DetachedIsFreed ==
  \A w \in Workers \ Loopers : (joiner[w] = Detached) ~> (w \in freed \/ Exited)
=============================================================================
