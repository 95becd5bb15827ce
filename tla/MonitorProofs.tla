---------------------------- MODULE MonitorProofs ----------------------------
(* Monitor for any set of clients. *)
EXTENDS Monitor, SequenceTheorems, TLAPS

(* The threads that an exiting thread has taken off the queue. *)
Picked == {waiter[t] : t \in Clients} \ {Nobody}
Asleep == {"queued", "stop"}

(* The spinlock serialises the short critical sections.                    *)
LockInv ==
  /\ \A t, u \in Clients : pc[t] \in Locked /\ pc[u] \in Locked => t = u
  /\ \A t \in Clients : pc[t] \in Locked => lock

(* A sleeping thread is in the queue, picked or started, one of the three, *)
(* and has stopped, or will, before anybody looks for it.                  *)
SleepInv ==
  /\ \A i, j \in DOMAIN waiters : waiters[i] = waiters[j] => i = j
  /\ \A t, u \in Clients : waiter[t] = waiter[u] /\ waiter[t] # Nobody => t = u
  /\ \A t \in Clients : waiter[t] # Nobody => pc[t] \in {"released", "start"}
  /\ \A t \in Clients : pc[t] = "start" => waiter[t] # Nobody
  /\ Waiting \cap Picked = {} /\ Waiting \cap started = {} /\ Picked \cap started = {}
  /\ \A t \in Clients : pc[t] \in Asleep <=> t \in Waiting \cup Picked \cup started
  /\ \A t \in Clients : pc[t] = "queued" => t \in Waiting

(* While nobody holds the monitor and threads wait, one is awake.          *)
AwakeInv == holder = Nobody /\ waiters # <<>> => \E t \in Clients : Awake(t)

Inv == HolderIsInside /\ LockInv /\ SleepInv /\ AwakeInv
IInv == TypeOK /\ Inv

USE DEF Goto, Labels, Locked, Critical, Asleep

LEMMA SetTypes ==
  ASSUME TypeOK
  PROVE  /\ Waiting \subseteq Clients /\ Picked \subseteq Clients /\ Nobody \notin Clients
  BY ClientsAssumption, ElementOfSeq DEF TypeOK, Waiting, Picked

(* The queue as a set, before and after enqueue and dequeue.               *)
LEMMA WaitingAppend ==
  ASSUME TypeOK, NEW x \in Clients \ Waiting, waiters' = Append(waiters, x), SleepInv
  PROVE  /\ Waiting' = Waiting \cup {x}
         /\ waiters' \in Seq(Clients)
         /\ \A i, j \in DOMAIN waiters' : waiters'[i] = waiters'[j] => i = j
<1>1. /\ Len(waiters) \in Nat /\ DOMAIN waiters = 1..Len(waiters)
      /\ waiters' \in Seq(Clients)
      /\ DOMAIN waiters' = 1..(Len(waiters) + 1)
      /\ \A i \in 1..Len(waiters) : waiters'[i] = waiters[i]
      /\ waiters'[Len(waiters) + 1] = x
  BY AppendProperties, LenProperties DEF TypeOK
<1>2. \A i \in 1..Len(waiters) : waiters[i] # x
  BY <1>1 DEF Waiting
<1>3. \A i, j \in DOMAIN waiters' : waiters'[i] = waiters'[j] => i = j
  BY <1>1, <1>2 DEF SleepInv
<1>4. Waiting' \subseteq Waiting \cup {x}
  BY <1>1 DEF Waiting
<1>5. Waiting \cup {x} \subseteq Waiting'
  BY <1>1 DEF Waiting
<1>6. QED
  BY <1>1, <1>3, <1>4, <1>5

LEMMA WaitingTail ==
  ASSUME TypeOK, waiters # <<>>, waiters' = Tail(waiters), SleepInv
  PROVE  /\ Head(waiters) \in Waiting
         /\ Waiting' = Waiting \ {Head(waiters)}
         /\ waiters' \in Seq(Clients)
         /\ \A i, j \in DOMAIN waiters' : waiters'[i] = waiters'[j] => i = j
<1>1. /\ Head(waiters) = waiters[1] /\ Len(waiters) \in Nat \ {0}
      /\ DOMAIN waiters = 1..Len(waiters)
      /\ waiters' \in Seq(Clients)
      /\ DOMAIN waiters' = 1..(Len(waiters) - 1)
      /\ \A i \in 1..(Len(waiters) - 1) : waiters'[i] = waiters[i+1]
  BY HeadTailProperties, LenProperties, EmptySeq DEF TypeOK
<1>2. Head(waiters) \in Waiting
  BY <1>1 DEF Waiting
<1>3. \A i, j \in DOMAIN waiters' : waiters'[i] = waiters'[j] => i = j
  BY <1>1 DEF SleepInv
<1>4. Waiting' \subseteq Waiting \ {Head(waiters)}
  BY <1>1 DEF Waiting, SleepInv
<1>5. ASSUME NEW x \in Waiting, x # Head(waiters) PROVE x \in Waiting'
  <2>1. PICK i \in 1..Len(waiters) : x = waiters[i]
    BY <1>1, <1>5 DEF Waiting
  <2>2. i - 1 \in 1..(Len(waiters) - 1) /\ x = waiters'[i - 1]
    BY <1>1, <1>5, <2>1
  <2>3. QED
    BY <1>1, <2>2 DEF Waiting
<1>6. QED
  BY <1>1, <1>2, <1>3, <1>4, <1>5

-----------------------------------------------------------------------------
LEMMA InitInv == Init => IInv
<1> SUFFICES ASSUME Init PROVE IInv
  OBVIOUS
<1>1. Waiting = {} /\ Picked = {}
  BY DEF Init, Waiting, Picked
<1>2. TypeOK /\ HolderIsInside /\ LockInv /\ AwakeInv
  BY ClientsAssumption, EmptySeq DEF Init, TypeOK, HolderIsInside, LockInv, AwakeInv
<1>3. SleepInv
  BY <1>1, EmptySeq DEF Init, SleepInv
<1>4. QED
  BY <1>2, <1>3 DEF IInv, Inv

(* The steps that leave the queue and the sleepers alone. *)
Local(t) == Enter(t) \/ EnterLock(t) \/ EnterTake(t) \/ EnterUnlock(t) \/ Exit(t) \/ ExitLock(t)

LEMMA LocalInv ==
  ASSUME IInv, NEW t \in Clients, Local(t)
  PROVE  IInv'
<1> USE DEF Local, Enter, EnterLock, EnterTake, EnterUnlock, Exit, ExitLock
<1>1. Waiting' = Waiting /\ Picked' = Picked
  BY DEF Waiting, Picked
<1>2. TypeOK'
  <2>1. CASE Enter(t)
    <3>1. entries[t] + 1 \in Nat
      BY DEF IInv, TypeOK
    <3>2. entries' \in [Clients -> Nat]
      BY <2>1, <3>1 DEF IInv, TypeOK
    <3>3. QED
      BY <2>1, <3>2 DEF IInv, TypeOK
  <2>2. CASE ~Enter(t)
    BY <2>2 DEF IInv, TypeOK
  <2>3. QED
    BY <2>1, <2>2
<1>3. HolderIsInside'
  BY ClientsAssumption DEF IInv, Inv, TypeOK, HolderIsInside
<1>4. LockInv'
  BY DEF IInv, Inv, TypeOK, LockInv
<1>5. SleepInv'
  <2>1. UNCHANGED <<waiters, waiter, started>>
    OBVIOUS
  <2>2. \A u \in Clients : /\ pc'[u] \in Asleep <=> pc[u] \in Asleep
                           /\ pc'[u] = "queued" <=> pc[u] = "queued"
                           /\ pc'[u] = "start" <=> pc[u] = "start"
                           /\ pc'[u] \in {"released", "start"} <=> pc[u] \in {"released", "start"}
    BY DEF IInv, TypeOK
  <2>3. QED
    BY <1>1, <2>1, <2>2 DEF IInv, Inv, SleepInv
<1>6. AwakeInv'
  BY <1>1, ClientsAssumption DEF IInv, Inv, TypeOK, AwakeInv, Awake
<1>7. QED
  BY <1>2, <1>3, <1>4, <1>5, <1>6 DEF IInv, Inv

LEMMA EnterQueueInv ==
  ASSUME IInv, NEW t \in Clients, EnterQueue(t)
  PROVE  IInv'
<1>1. t \notin Waiting /\ t \notin started /\ t \notin Picked
  BY DEF EnterQueue, IInv, Inv, SleepInv
<1>2. /\ Waiting' = Waiting \cup {t} /\ waiters' \in Seq(Clients)
      /\ \A i, j \in DOMAIN waiters' : waiters'[i] = waiters'[j] => i = j
  BY <1>1, WaitingAppend DEF EnterQueue, IInv, Inv
<1>3. Picked' = Picked
  BY DEF EnterQueue, Picked
<1>4. TypeOK'
  BY <1>2 DEF EnterQueue, IInv, TypeOK
<1>5. HolderIsInside' /\ LockInv' /\ AwakeInv'
  BY DEF EnterQueue, IInv, Inv, TypeOK, HolderIsInside, LockInv, AwakeInv
<1>6. SleepInv'
  BY <1>1, <1>2, <1>3 DEF EnterQueue, IInv, Inv, TypeOK, SleepInv
<1>7. QED
  BY <1>4, <1>5, <1>6 DEF IInv, Inv

LEMMA QueuedUnlockInv ==
  ASSUME IInv, NEW t \in Clients, QueuedUnlock(t)
  PROVE  IInv'
<1>1. Waiting' = Waiting /\ Picked' = Picked
  BY DEF QueuedUnlock, Waiting, Picked
<1>2. TypeOK' /\ HolderIsInside' /\ LockInv'
  BY DEF QueuedUnlock, IInv, Inv, TypeOK, HolderIsInside, LockInv
<1>3. SleepInv'
  BY <1>1 DEF QueuedUnlock, IInv, Inv, TypeOK, SleepInv
<1>4. AwakeInv'
  BY DEF QueuedUnlock, IInv, Inv, TypeOK, AwakeInv, Awake
<1>5. QED
  BY <1>2, <1>3, <1>4 DEF IInv, Inv

LEMMA StopInv ==
  ASSUME IInv, NEW t \in Clients, Stop(t)
  PROVE  IInv'
<1>1. Waiting' = Waiting /\ Picked' = Picked /\ started' = started \ {t}
      /\ t \notin Waiting /\ t \notin Picked
  BY DEF Stop, Waiting, Picked, IInv, Inv, SleepInv
<1>2. TypeOK' /\ HolderIsInside' /\ LockInv'
  BY DEF Stop, IInv, Inv, TypeOK, HolderIsInside, LockInv
<1>3. SleepInv'
  BY <1>1 DEF Stop, IInv, Inv, TypeOK, SleepInv
<1>4. AwakeInv'
  BY DEF Stop, IInv, Inv, TypeOK, AwakeInv, Awake
<1>5. QED
  BY <1>2, <1>3, <1>4 DEF IInv, Inv

LEMMA ExitReleaseInv ==
  ASSUME IInv, NEW t \in Clients, ExitRelease(t)
  PROVE  IInv'
<1>1. /\ pc[t] = "release" /\ pc' = [pc EXCEPT ![t] = "released"] /\ waiter[t] = Nobody
      /\ holder = t /\ holder' = Nobody
      /\ UNCHANGED <<lock, started, entries>>
  BY DEF ExitRelease, IInv, Inv, SleepInv, HolderIsInside
<1>2. HolderIsInside' /\ LockInv'
  BY <1>1, ClientsAssumption DEF IInv, Inv, TypeOK, HolderIsInside, LockInv
<1>3. CASE waiters = <<>>
  <2>1. UNCHANGED <<waiters, waiter>> /\ Waiting' = Waiting /\ Picked' = Picked
    BY <1>3 DEF ExitRelease, Waiting, Picked
  <2>2. TypeOK' /\ AwakeInv'
    BY <1>1, <1>3, <2>1 DEF IInv, Inv, TypeOK, AwakeInv
  <2>3. SleepInv'
    BY <1>1, <2>1 DEF IInv, Inv, TypeOK, SleepInv
  <2>4. QED
    BY <1>2, <2>2, <2>3 DEF IInv, Inv
<1>4. CASE waiters # <<>>
  <2> DEFINE h == Head(waiters)
  <2>1. waiters' = Tail(waiters) /\ waiter' = [waiter EXCEPT ![t] = h]
    BY <1>4 DEF ExitRelease
  <2>2. /\ h \in Waiting /\ Waiting' = Waiting \ {h} /\ waiters' \in Seq(Clients)
        /\ \A i, j \in DOMAIN waiters' : waiters'[i] = waiters'[j] => i = j
    BY <1>4, <2>1, WaitingTail DEF IInv, Inv
  <2>3. h \in Clients /\ h # Nobody
    BY <2>2, SetTypes DEF IInv
  <2>4. Picked' = Picked \cup {h}
    BY <1>1, <2>1, <2>3 DEF IInv, TypeOK, Picked
  <2> HIDE DEF h
  <2>5. TypeOK'
    BY <1>1, <2>1, <2>2, <2>3 DEF IInv, TypeOK
  <2>6. AwakeInv'
    BY <1>1, <2>1, <2>3 DEF IInv, TypeOK, AwakeInv, Awake
  <2>7. h \notin Picked /\ h \notin started /\ \A u \in Clients : waiter[u] # h
    BY <2>2, <2>3 DEF IInv, Inv, SleepInv, Picked
  <2>8. pc[h] # "queued"
    BY <1>1, <2>3 DEF IInv, Inv, LockInv
  <2>9. SleepInv'
    BY <1>1, <2>1, <2>2, <2>3, <2>4, <2>7, <2>8 DEF IInv, Inv, TypeOK, SleepInv
  <2>10. QED
    BY <1>2, <2>5, <2>6, <2>9 DEF IInv, Inv
<1>5. QED
  BY <1>3, <1>4

LEMMA ExitUnlockInv ==
  ASSUME IInv, NEW t \in Clients, ExitUnlock(t)
  PROVE  IInv'
<1>1. Waiting' = Waiting /\ Picked' = Picked
  BY DEF ExitUnlock, Waiting, Picked
<1>2. TypeOK' /\ HolderIsInside' /\ LockInv'
  BY DEF ExitUnlock, IInv, Inv, TypeOK, HolderIsInside, LockInv
<1>3. SleepInv'
  BY <1>1 DEF ExitUnlock, IInv, Inv, TypeOK, SleepInv
<1>4. AwakeInv'
  BY DEF ExitUnlock, IInv, Inv, TypeOK, AwakeInv, Awake
<1>5. QED
  BY <1>2, <1>3, <1>4 DEF IInv, Inv

LEMMA ExitStartInv ==
  ASSUME IInv, NEW t \in Clients, ExitStart(t)
  PROVE  IInv'
<1> DEFINE w == waiter[t]
<1>1. /\ pc[t] = "start" /\ w # Nobody /\ w \in Clients /\ w \in Picked
      /\ pc[w] = "stop" /\ w # t
  BY DEF ExitStart, IInv, Inv, TypeOK, SleepInv, Picked
<1>2. Waiting' = Waiting /\ Picked' = Picked \ {w} /\ started' = started \cup {w}
  BY <1>1 DEF ExitStart, IInv, Inv, TypeOK, SleepInv, Waiting, Picked
<1>3. TypeOK' /\ HolderIsInside' /\ LockInv'
  BY <1>1 DEF ExitStart, IInv, Inv, TypeOK, HolderIsInside, LockInv
<1>4. AwakeInv'
  BY <1>1 DEF ExitStart, IInv, Inv, TypeOK, AwakeInv, Awake
<1>5. SleepInv'
  BY <1>1, <1>2 DEF ExitStart, IInv, Inv, TypeOK, SleepInv
<1>6. QED
  BY <1>3, <1>4, <1>5 DEF IInv, Inv

LEMMA NextInv ==
  ASSUME IInv, [Next]_vars
  PROVE  IInv'
<1>1. CASE UNCHANGED vars
  <2>1. Waiting' = Waiting /\ Picked' = Picked
    BY <1>1 DEF vars, Waiting, Picked
  <2>2. TypeOK' /\ HolderIsInside' /\ LockInv'
    BY <1>1 DEF vars, IInv, Inv, TypeOK, HolderIsInside, LockInv
  <2>3. SleepInv'
    BY <1>1, <2>1 DEF vars, IInv, Inv, SleepInv
  <2>4. AwakeInv'
    BY <1>1 DEF vars, IInv, Inv, AwakeInv, Awake
  <2>5. QED
    BY <2>2, <2>3, <2>4 DEF IInv, Inv
<1>2. ASSUME NEW t \in Clients, Enter(t) \/ Inside(t) PROVE IInv'
  <2>1. CASE Local(t)
    BY <2>1, LocalInv
  <2>2. CASE ~Local(t)
    BY <1>2, <2>2, EnterQueueInv, QueuedUnlockInv, StopInv, ExitReleaseInv,
       ExitUnlockInv, ExitStartInv DEF Inside, Local
  <2>3. QED
    BY <2>1, <2>2
<1>3. QED
  BY <1>1, <1>2 DEF Next

THEOREM Invariance == Spec => []IInv
BY InitInv, NextInv, PTL DEF Spec

(* The assertion of uthread_monitor_exit holds for every number of threads. *)
THEOREM HolderAssertion == Spec => []HolderIsInside
<1>1. IInv => HolderIsInside
  BY DEF IInv, Inv
<1>2. QED
  BY <1>1, Invariance, PTL

(* No wakeup is lost, for every number of threads.                         *)
THEOREM WakeupsArrive == Spec => []NoLostWakeup
<1>1. IInv => NoLostWakeup
  BY DEF IInv, Inv, SleepInv, AwakeInv, NoLostWakeup, Picked
<1>2. QED
  BY <1>1, Invariance, PTL

(* Enter and exit implement the abstract lock.                             *)
THEOREM Implementation == Spec => ImplementsMutex
<1>1. Init => Abstract!Init
  BY DEF Init, Abstract!Init
<1>2. ASSUME IInv, [Next]_vars PROVE [Abstract!Next]_({holder} \ {Nobody})
  <2>1. ASSUME NEW t \in Clients, EnterTake(t) PROVE Abstract!Acquire(t)
    BY <2>1, ClientsAssumption DEF EnterTake, Abstract!Acquire
  <2>2. ASSUME NEW t \in Clients, ExitRelease(t) PROVE Abstract!Release(t)
    <3>1. holder = t
      BY <1>2, <2>2 DEF IInv, Inv, HolderIsInside, Critical, ExitRelease
    <3>2. QED
      BY <2>2, <3>1, ClientsAssumption DEF ExitRelease, Abstract!Release
  <2>3. CASE holder' = holder
    BY <2>3
  <2>4. QED
    BY <1>2, <2>1, <2>2, <2>3
    DEF Next, Inside, vars, Enter, EnterLock, EnterUnlock, EnterQueue, QueuedUnlock, Stop, Exit,
        ExitLock, ExitUnlock, ExitStart, Abstract!Next
<1>3. QED
  BY <1>1, <1>2, Invariance, PTL DEF Spec, ImplementsMutex, Abstract!Spec
=============================================================================
