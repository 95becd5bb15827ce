------------------------------ MODULE Monitor ------------------------------
(***************************************************************************)
(* uthread_monitor_enter and uthread_monitor_exit of a9/uthread.c, for one *)
(* monitor.  Its fields are read and written under its spinlock.           *)
(*                                                                         *)
(* The thread package is reduced to what uthread_stop(TS_BLOCKED) and      *)
(* uthread_start promise: a thread that stops goes on once it has been     *)
(* started, also if it was started before it got to stop.  Module Uthread  *)
(* has the details.                                                        *)
(***************************************************************************)
EXTENDS Naturals, Sequences

CONSTANTS
  Clients,    \* the threads that use the monitor
  Nobody,     \* the null pointer
  MaxEntries  \* how often each thread enters; when all have, nothing is left to do

ASSUME ClientsAssumption == Nobody \notin Clients /\ MaxEntries \in Nat

VARIABLES
  holder,   \* field holder
  lock,     \* field spinlock: TRUE while held
  waiters,  \* field waiter_queue, head first
  started,  \* the threads that uthread_start was called for and that have
            \* not come back from uthread_stop
  pc,       \* where each thread is
  waiter,   \* local waiter_thread of uthread_monitor_exit
  entries   \* how often each thread has called uthread_monitor_enter

vars == <<holder, lock, waiters, started, pc, waiter, entries>>

Locked == {"check", "queued", "taken", "release", "released"}
Labels == {"out", "enter", "stop", "in", "exit", "start"} \cup Locked

Goto(t, label) == pc' = [pc EXCEPT ![t] = label]

(* uthread_monitor_create *)
Init ==
  /\ holder = Nobody
  /\ lock = FALSE
  /\ waiters = <<>>
  /\ started = {}
  /\ pc = [t \in Clients |-> "out"]
  /\ waiter = [t \in Clients |-> Nobody]
  /\ entries = [t \in Clients |-> 0]

Enter(t) ==
  /\ pc[t] = "out"
  /\ entries[t] < MaxEntries
  /\ entries' = [entries EXCEPT ![t] = @ + 1]
  /\ Goto(t, "enter")
  /\ UNCHANGED <<holder, lock, waiters, started, waiter>>

(* spinlock_lock(&monitor->spinlock), at the start and after each wait. *)
EnterLock(t) ==
  /\ pc[t] = "enter"
  /\ ~lock
  /\ lock' = TRUE
  /\ Goto(t, "check")
  /\ UNCHANGED <<holder, waiters, started, waiter, entries>>

(* Bug: the holder is not looked at again after the wait. *)
EnterTakeAnyway(t) ==
  /\ pc[t] = "check"
  /\ holder = Nobody \/ entries[t] > 1
  /\ holder' = t
  /\ Goto(t, "taken")
  /\ UNCHANGED <<lock, waiters, started, waiter, entries>>

EnterTake(t) ==
  /\ pc[t] = "check"
  /\ holder = Nobody
  /\ holder' = t
  /\ Goto(t, "taken")
  /\ UNCHANGED <<lock, waiters, started, waiter, entries>>

EnterUnlock(t) ==
  /\ pc[t] = "taken"
  /\ lock' = FALSE
  /\ Goto(t, "in")
  /\ UNCHANGED <<holder, waiters, started, waiter, entries>>

(* The body of the while: into the queue, unlock, stop. *)
EnterQueue(t) ==
  /\ pc[t] = "check"
  /\ holder # Nobody
  /\ waiters' = Append(waiters, t)
  /\ Goto(t, "queued")
  /\ UNCHANGED <<holder, lock, started, waiter, entries>>

QueuedUnlock(t) ==
  /\ pc[t] = "queued"
  /\ lock' = FALSE
  /\ Goto(t, "stop")
  /\ UNCHANGED <<holder, waiters, started, waiter, entries>>

(* uthread_stop(TS_BLOCKED) returns. *)
Stop(t) ==
  /\ pc[t] = "stop"
  /\ t \in started
  /\ started' = started \ {t}
  /\ Goto(t, "enter")
  /\ UNCHANGED <<holder, lock, waiters, waiter, entries>>

Exit(t) ==
  /\ pc[t] = "in"
  /\ Goto(t, "exit")
  /\ UNCHANGED <<holder, lock, waiters, started, waiter, entries>>

ExitLock(t) ==
  /\ pc[t] = "exit"
  /\ ~lock
  /\ lock' = TRUE
  /\ Goto(t, "release")
  /\ UNCHANGED <<holder, waiters, started, waiter, entries>>

(* Bug: the waiter is looked at but stays in the queue. *)
ExitReleaseKeeps(t) ==
  /\ pc[t] = "release"
  /\ holder' = Nobody
  /\ waiter' = [waiter EXCEPT ![t] = IF waiters = <<>> THEN Nobody ELSE Head(waiters)]
  /\ Goto(t, "released")
  /\ UNCHANGED <<lock, waiters, started, entries>>

(* The assertion on the holder is HolderIsInside; then no holder and, if   *)
(* there is one, the first waiter off the queue.                           *)
ExitRelease(t) ==
  /\ pc[t] = "release"
  /\ holder' = Nobody
  /\ IF waiters = <<>>
       THEN UNCHANGED <<waiters, waiter>>
       ELSE /\ waiters' = Tail(waiters)
            /\ waiter' = [waiter EXCEPT ![t] = Head(waiters)]
  /\ Goto(t, "released")
  /\ UNCHANGED <<lock, started, entries>>

ExitUnlock(t) ==
  /\ pc[t] = "released"
  /\ lock' = FALSE
  /\ Goto(t, IF waiter[t] = Nobody THEN "out" ELSE "start")
  /\ UNCHANGED <<holder, waiters, started, waiter, entries>>

(* Bug: the waiter is taken off the queue and forgotten. *)
ExitStartForgets(t) ==
  /\ pc[t] = "start"
  /\ waiter' = [waiter EXCEPT ![t] = Nobody]
  /\ Goto(t, "out")
  /\ UNCHANGED <<holder, lock, waiters, started, entries>>

(* uthread_start(waiter_thread) *)
ExitStart(t) ==
  /\ pc[t] = "start"
  /\ started' = started \cup {waiter[t]}
  /\ waiter' = [waiter EXCEPT ![t] = Nobody]
  /\ Goto(t, "out")
  /\ UNCHANGED <<holder, lock, waiters, entries>>

Inside(t) ==
  \/ EnterLock(t) \/ EnterTake(t) \/ EnterUnlock(t) \/ EnterQueue(t)
  \/ QueuedUnlock(t) \/ Stop(t)
  \/ Exit(t) \/ ExitLock(t) \/ ExitRelease(t) \/ ExitUnlock(t) \/ ExitStart(t)

Next == \E t \in Clients : Enter(t) \/ Inside(t)

(* A thread that is in the monitor leaves it, one that can go on does, and *)
(* the spinlock is held for a few instructions only.  SF: a thread does    *)
(* not lose the exchange on the spinlock for ever.                         *)
Spec == Init /\ [][Next]_vars
FairSpec == Spec /\ \A t \in Clients :
              WF_vars(Inside(t)) /\ SF_vars(EnterLock(t)) /\ SF_vars(ExitLock(t))

-----------------------------------------------------------------------------
Waiting == {waiters[i] : i \in DOMAIN waiters}
Critical == {"taken", "in", "exit", "release"}

TypeOK ==
  /\ holder \in Clients \cup {Nobody}
  /\ lock \in BOOLEAN
  /\ waiters \in Seq(Clients)
  /\ started \subseteq Clients
  /\ pc \in [Clients -> Labels]
  /\ waiter \in [Clients -> Clients \cup {Nobody}]
  /\ entries \in [Clients -> Nat]

(* The assertion of uthread_monitor_exit: the thread that is inside the    *)
(* monitor, and it alone, is the holder.                                   *)
HolderIsInside == \A t \in Clients : pc[t] \in Critical <=> holder = t

(* The monitor is a mutual exclusion lock for the code between enter and   *)
(* exit, whoever barges in before a thread that was just started.          *)
Abstract == INSTANCE Mutex WITH inside <- {holder} \ {Nobody}
ImplementsMutex == Abstract!Spec

(* No lost wakeup: a blocked thread is in the queue exactly once, or it is *)
(* about to be started; and while the monitor is free and threads are in   *)
(* the queue, another one is awake that will hold it and wake the next.    *)
Awake(t) ==
  \/ pc[t] \in {"enter", "check", "start"}
  \/ pc[t] = "released" /\ waiter[t] # Nobody
  \/ pc[t] = "stop" /\ t \in started

NoLostWakeup ==
  /\ \A t \in Clients : pc[t] \in {"queued", "stop"} =>
       t \in Waiting \cup started \cup {waiter[u] : u \in Clients}
  /\ \A i, j \in DOMAIN waiters : waiters[i] = waiters[j] => i = j
  /\ holder = Nobody /\ waiters # <<>> => \E t \in Clients : Awake(t)

(* Every call of uthread_monitor_enter returns, as long as the others call *)
(* it finitely often.                                                      *)
EnterReturns == \A t \in Clients : (pc[t] = "enter") ~> (pc[t] = "in")
=============================================================================
