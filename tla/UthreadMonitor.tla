--------------------------- MODULE UthreadMonitor ---------------------------
(***************************************************************************)
(* The monitor of a9/uthread.c on the thread package: a thread that finds  *)
(* it held stops with uthread_stop(TS_BLOCKED), uthread_start puts it on   *)
(* the ready queue again, and the processors switch between all threads.   *)
(* Module Monitor, which reduces all this to a set of started threads, is  *)
(* what this module is shown to implement.                                 *)
(***************************************************************************)
EXTENDS Uthread

CONSTANT MaxEntries  \* how often each worker enters the monitor at most

ASSUME EntriesAssumption == MaxEntries \in Nat

VARIABLES
  holder, monLock, waiters,  \* fields holder, spinlock and waiter_queue
  waiter,                    \* local waiter_thread of uthread_monitor_exit
  entries                    \* how often each worker has entered

monitorVars == <<holder, monLock, waiters, waiter, entries>>
allVars == <<vars, monitorVars>>

(* uthread_monitor_create, before the workers are created. *)
MonitorInit ==
  /\ holder = NoThread
  /\ monLock = FALSE
  /\ waiters = <<>>
  /\ waiter = [w \in Workers |-> NoThread]
  /\ entries = [w \in Workers |-> 0]

(* A step of t between two labels that stays on its processor.             *)
Moves(t, here, there) ==
  /\ At(t, here)
  /\ Goto(t, there)
  /\ UNCHANGED <<joiner, joinLock, freed, cur, from, to, target, clientVars>>

Keeps == UNCHANGED <<state, readyQueue, stopping, cont>>

Enter(t) ==
  /\ Moves(t, "user", "enter") /\ Keeps
  /\ entries[t] < MaxEntries
  /\ entries' = [entries EXCEPT ![t] = @ + 1]
  /\ UNCHANGED <<holder, monLock, waiters, waiter>>

SpinLock(t, here, there) ==
  /\ Moves(t, here, there) /\ Keeps
  /\ ~monLock
  /\ monLock' = TRUE
  /\ UNCHANGED <<holder, waiters, waiter, entries>>

EnterTake(t) ==
  /\ Moves(t, "check", "taken") /\ Keeps
  /\ holder = NoThread
  /\ holder' = t
  /\ UNCHANGED <<monLock, waiters, waiter, entries>>

EnterUnlock(t) ==
  /\ Moves(t, "taken", "in") /\ Keeps
  /\ monLock' = FALSE
  /\ UNCHANGED <<holder, waiters, waiter, entries>>

EnterQueue(t) ==
  /\ Moves(t, "check", "queued") /\ Keeps
  /\ holder # NoThread
  /\ waiters' = Append(waiters, t)
  /\ UNCHANGED <<holder, monLock, waiter, entries>>

(* Bug: the thread gives up its processor as uthread_yield does. *)
QueuedYields(t) ==
  /\ At(t, "queued")
  /\ monLock' = FALSE
  /\ readyQueue' = Append(readyQueue, t)
  /\ CallStop(t, "RUNABLE", "enter")
  /\ UNCHANGED <<tcbVars, cur, from, to, target, clientVars>>
  /\ UNCHANGED <<holder, waiters, waiter, entries>>

(* spinlock_unlock, then uthread_stop, which goes on with the spinlock.    *)
QueuedUnlock(t) ==
  /\ At(t, "queued")
  /\ monLock' = FALSE
  /\ CallStop(t, "BLOCKED", "enter")
  /\ UNCHANGED <<tcbVars, readyQueue, cur, from, to, target, clientVars>>
  /\ UNCHANGED <<holder, waiters, waiter, entries>>

Exit(t) == Moves(t, "in", "exit") /\ Keeps /\ UNCHANGED monitorVars

ExitRelease(t) ==
  /\ Moves(t, "release", "released") /\ Keeps
  /\ holder' = NoThread
  /\ IF waiters = <<>>
       THEN UNCHANGED <<waiters, waiter>>
       ELSE /\ waiters' = Tail(waiters)
            /\ waiter' = [waiter EXCEPT ![t] = Head(waiters)]
  /\ UNCHANGED <<monLock, entries>>

ExitUnlock(t) ==
  /\ Moves(t, "released", IF waiter[t] = NoThread THEN "user" ELSE "start") /\ Keeps
  /\ monLock' = FALSE
  /\ UNCHANGED <<holder, waiters, waiter, entries>>

(* uthread_start(waiter_thread): its state, and, in the race that the code *)
(* has a comment about, the waiter may not have stopped yet; ...           *)
ExitStart(t) ==
  /\ Moves(t, "start", "startEnqueue")
  /\ state' = [state EXCEPT ![waiter[t]] = IF @ = "RUNNING" THEN @ ELSE "RUNABLE"]
  /\ UNCHANGED <<readyQueue, stopping, cont, monitorVars>>

(* Bug: only a thread that has stopped is put on the ready queue. *)
ExitEnqueueStopped(t) ==
  /\ Moves(t, "startEnqueue", "user")
  /\ readyQueue' = IF state[waiter[t]] = "RUNNING" THEN readyQueue
                   ELSE Append(readyQueue, waiter[t])
  /\ waiter' = [waiter EXCEPT ![t] = NoThread]
  /\ UNCHANGED <<state, stopping, cont, holder, monLock, waiters, entries>>

(* ... and the ready queue.                                                *)
ExitEnqueue(t) ==
  /\ Moves(t, "startEnqueue", "user")
  /\ readyQueue' = Append(readyQueue, waiter[t])
  /\ waiter' = [waiter EXCEPT ![t] = NoThread]
  /\ UNCHANGED <<state, stopping, cont, holder, monLock, waiters, entries>>

Visit(t) ==
  \/ Enter(t) \/ SpinLock(t, "enter", "check")
  \/ EnterTake(t) \/ EnterUnlock(t) \/ EnterQueue(t) \/ QueuedUnlock(t)
  \/ Exit(t) \/ SpinLock(t, "exit", "release")
  \/ ExitRelease(t) \/ ExitUnlock(t) \/ ExitStart(t) \/ ExitEnqueue(t)

MonitorNext ==
  \/ Next /\ UNCHANGED monitorVars
  \/ \E t \in Workers : Visit(t)

RunMonitor(p) ==
  \/ Run(p) /\ UNCHANGED monitorVars
  \/ \E t \in Workers : cur[p] = t /\ Visit(t)

(* Every processor keeps executing the thread it runs. *)
MonitorSpec == Init /\ MonitorInit /\ [][MonitorNext]_allVars
                 /\ \A p \in Procs : WF_allVars(RunMonitor(p))

-----------------------------------------------------------------------------
(* A thread that has to wait is in uthread_stop until it runs again. *)
MonitorPC(t) ==
  CASE pc[t] \in {"enter", "check", "taken", "queued", "in", "exit", "release", "released", "start"}
         -> pc[t]
    [] pc[t] = "startEnqueue" -> "start"
    [] pc[t] \in {"stop", "switch", "switched", "resume"} \cup ReapPC /\ cont[t] = "enter" -> "stop"
    [] OTHER -> "out"

(* Started is who waits but is on the ready queue, or being switched to,   *)
(* or on a processor again and on its way back from the switch.            *)
Started(t) ==
  /\ MonitorPC(t) = "stop"
  /\ \/ t \in Ready
     \/ \E u \in Threads : Switching(u) /\ to[u] = t
     \/ t \in Running /\ pc[t] \in {"switched", "resume"} \cup ReapPC

(* The scheduler keeps what Monitor assumes of it: a thread that was       *)
(* started, before or after it blocked, comes back from uthread_stop, once *)
(* for each start, and no other thread does.                               *)
Mon == INSTANCE Monitor WITH
         Clients <- Workers, Nobody <- NoThread, lock <- monLock,
         started <- {w \in Workers : Started(w)},
         pc <- [w \in Workers |-> MonitorPC(w)]
ImplementsMonitor == Mon!Spec

(* Every call of uthread_monitor_enter returns on processors that only     *)
(* keep running what they have.                                            *)
EveryEnterReturns == Mon!EnterReturns
=============================================================================
