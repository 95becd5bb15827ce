--------------------------- MODULE UthreadProofs ---------------------------
(***************************************************************************)
(* What holds of Uthread for any number of processors and threads when     *)
(* the client runs its workers to completion: only main() joins, workers   *)
(* neither yield nor join, and no thread is joined or detached twice.      *)
(* a8/ping_pong.c is such a client.                                        *)
(*                                                                         *)
(* The second part, from OneProcessor on, is about one processor, any      *)
(* number of threads and any client, as a9/bounded_buffer.c needs it.      *)
(***************************************************************************)
EXTENDS Uthread, SequenceTheorems, FiniteSetTheorems, TLAPS

RunToCompletion ==
  /\ (Yielders \cup Loopers) \cap Workers = {}
  /\ Joiners \subseteq {Base}
  /\ ~Rejoin

(* The threads that processors have taken off the ready queue. *)
Held == {to[t] : t \in Threads} \ {NoThread}
Pending == Ready \cup Held

Ended == {"DYING", "DEAD"}
Arriving == {"switched", "resume"} \cup ReapPC

(* A thread is in one place of the ready queue or in one local to_thread.  *)
QueueInv ==
  /\ \A i, j \in DOMAIN readyQueue : readyQueue[i] = readyQueue[j] => i = j
  /\ Ready \cap Held = {}
  /\ \A t, u \in Threads : to[t] = to[u] /\ to[t] # NoThread => t = u
  /\ \A t \in Threads : pc[t] = "switch" <=> to[t] # NoThread

(* Only a thread that runs is anywhere else than behind a switch, and one  *)
(* that executes its own code is marked RUNNING.                           *)
CpuInv ==
  /\ OneProcessorPerThread
  /\ \A t \in Running \ {NoThread} :
       /\ state[t] \notin Ended \cup {"UNBORN"}
       /\ pc[t] \notin Arriving => state[t] = "RUNNING"
  /\ \A t \in Threads \ Running : pc[t] \in {"switched", "gone"}

(* A pending thread still runs only if it is about to leave its stack.     *)
PendingInv ==
  \A t \in Pending :
    /\ state[t] \notin Ended \cup {"UNBORN"}
    /\ t \in Running => t \notin Workers /\ pc[t] \in {"joinUnlock", "stop", "switch"}

(* Workers stop once, to die; nobody else dies.                            *)
DyingInv ==
  \A t \in Threads :
    /\ pc[t] = "gone" <=> state[t] \in Ended
    /\ pc[t] = "gone" => t \in Workers
    /\ pc[t] \in {"stop", "switch"} => (stopping[t] = "DYING" <=> t \in Workers)
    /\ t \notin Workers => cont[t] # "gone"
    /\ t \in Workers /\ cont[t] # "user" => pc[t] \in {"stop", "switch", "gone"}

(* A worker is reaped by the one thread that was switched to when it died. *)
FromInv ==
  /\ \A t \in Threads : t \in Running /\ pc[t] \in {"switched"} \cup ReapPC => from[t] # NoThread
  /\ \A t \in Threads : from[t] \in Workers => pc[from[t]] = "gone"
  /\ \A t, u \in Threads : from[t] \in Workers /\ from[t] = from[u] => t = u
  /\ \A t \in Threads : pc[t] \in ReapPC => from[t] \in Workers
  /\ \A t \in Threads : pc[t] \in ReapPC \ {"reapUnlock"} => state[from[t]] = "DYING"

(* A thread is joined or detached by one caller.                           *)
ClaimInv ==
  /\ \A t \in Threads : target[t] # NoThread => target[t] \in claimed \cap Workers
  /\ \A t, u \in Threads : target[t] = target[u] /\ target[t] # NoThread => t = u
  /\ \A t \in Threads : pc[t] \in JoinPC \cup DetachPC => target[t] # NoThread
  /\ \A t \in Threads : pc[t] \in {"join", "joinLocked", "detach", "detachLocked"}
                          => joiner[target[t]] = NoThread
  /\ \A t \in Threads : joiner[t] # NoThread => t \in claimed
  /\ \A t \in Threads : cont[t] = "joined" /\ pc[t] \in {"stop", "switch"} \cup Arriving
                          => target[t] # NoThread
  /\ \A t \in Threads : pc[t] \in JoinPC \/ cont[t] = "joined" => t = Base

(* w is joined and has yet to start its joiner. *)
WillStart(w) ==
  /\ joiner[w] = Base
  /\ state[w] # "DEAD"
  /\ \A t \in Threads : ~(pc[t] = "reapDead" /\ from[t] = w)

(* While a worker will start main(), main() waits for it and nobody else   *)
(* has started it.                                                         *)
JoinInv ==
  /\ \A w \in Threads : joiner[w] \in Threads => joiner[w] = Base
  /\ \A t \in Threads : pc[t] = "reapEnqueue" => joiner[from[t]] = Base
  /\ \A w \in Threads : WillStart(w) =>
       /\ target[Base] = w
       /\ Base \notin Pending
       /\ \/ pc[Base] \in {"joinUnlock", "stop", "switch"}
          \/ pc[Base] = "switched" /\ Base \notin Running

(* A processor that uthread_init has not started runs nothing.             *)
BootInv ==
  /\ \A t \in Threads : pc[t] = "init" => t = Base
  /\ state[Base] # "UNBORN"
  /\ \A p \in Procs : state[p] = "UNBORN" <=> cur[p] = NoThread

(* Every pthread_base thread is waiting for a processor or runs on one     *)
(* and has not yet put itself on the queue to stop.                        *)
IdleInv ==
  \A i \in Procs : \/ state[i] = "UNBORN"
                   \/ i \in Pending
                   \/ i \in Running /\ pc[i] \notin {"stop", "switch"}

Inv == /\ QueueInv /\ CpuInv /\ PendingInv /\ DyingInv /\ FromInv
       /\ ClaimInv /\ JoinInv /\ BootInv /\ IdleInv

(* After the exit of the process nothing moves any more. *)
IInv == TypeOK /\ QueueInv /\ (Exited \/ Inv)
-----------------------------------------------------------------------------
(* How the operations on the queue and on the processors change the sets   *)
(* that the invariant speaks about.                                        *)

USE DEF At, Goto, CallStop, tcbVars, stackVars, clientVars

LEMMA ReadyAppend ==
  ASSUME readyQueue \in Seq(Threads), NEW x \in Threads \ Ready, QueueInv,
         readyQueue' = Append(readyQueue, x)
  PROVE  /\ Ready' = Ready \cup {x}
         /\ (\A i, j \in DOMAIN readyQueue : readyQueue[i] = readyQueue[j] => i = j)'
  BY AppendProperties DEF Ready, QueueInv

LEMMA ReadyAppended ==
  ASSUME readyQueue \in Seq(Threads), NEW x \in Threads,
         readyQueue' = Append(readyQueue, x)
  PROVE  Ready' = Ready \cup {x}
BY AppendProperties DEF Ready

LEMMA ReadyTail ==
  ASSUME readyQueue \in Seq(Threads), readyQueue # <<>>, QueueInv,
         readyQueue' = Tail(readyQueue)
  PROVE  /\ Head(readyQueue) \in Ready
         /\ Ready' = Ready \ {Head(readyQueue)}
         /\ (\A i, j \in DOMAIN readyQueue : readyQueue[i] = readyQueue[j] => i = j)'
<1>1. /\ Head(readyQueue) = readyQueue[1] /\ Len(readyQueue) \in Nat \ {0}
      /\ DOMAIN readyQueue = 1..Len(readyQueue)
      /\ DOMAIN Tail(readyQueue) = 1..(Len(readyQueue) - 1)
      /\ \A i \in 1..(Len(readyQueue) - 1) : Tail(readyQueue)[i] = readyQueue[i+1]
  BY HeadTailProperties, LenProperties, EmptySeq
<1>2. Head(readyQueue) \in Ready
  BY <1>1 DEF Ready
<1>3. \A i, j \in DOMAIN readyQueue' : readyQueue'[i] = readyQueue'[j] => i = j
  BY <1>1 DEF QueueInv
<1>4. Ready' \subseteq Ready \ {Head(readyQueue)}
  BY <1>1 DEF Ready, QueueInv
<1>5. ASSUME NEW x \in Ready, x # Head(readyQueue) PROVE x \in Ready'
  <2>1. PICK i \in 1..Len(readyQueue) : x = readyQueue[i]
    BY <1>1, <1>5 DEF Ready
  <2>2. i - 1 \in 1..(Len(readyQueue) - 1) /\ x = Tail(readyQueue)[i - 1]
    BY <1>1, <1>5, <2>1
  <2>3. QED
    BY <1>1, <2>2 DEF Ready
<1>6. QED
  BY <1>2, <1>3, <1>4, <1>5

LEMMA SetTypes ==
  ASSUME TypeOK
  PROVE  /\ Running \subseteq Threads \cup {NoThread}
         /\ Ready \subseteq Threads
         /\ Held \subseteq Threads
         /\ NoThread \notin Threads
         /\ \A t \in Threads : to[t] # NoThread => to[t] \in Held
  BY ThreadsAssumption DEF TypeOK, Running, Ready, Held

LEMMA StopInv ==
  ASSUME RunToCompletion, TypeOK, Inv, NEW t \in Threads, Stop(t)
  PROVE  TypeOK' /\ Inv'
<1> DEFINE h == Head(readyQueue)
<1>1. /\ h \in Ready /\ Ready' = Ready \ {h} /\ h \in Threads
      /\ (\A i, j \in DOMAIN readyQueue : readyQueue[i] = readyQueue[j] => i = j)'
  BY ReadyTail, SetTypes DEF TypeOK, Inv, Stop
<1>2. Running' = Running
  BY DEF Stop, Running
<1>3. Held' = Held \cup {h} /\ to[t] = NoThread
  BY <1>1, ThreadsAssumption DEF Stop, Held, TypeOK, At, Inv, QueueInv
<1>4. Pending' = Pending
  BY <1>1, <1>3 DEF Pending
<1>5. TypeOK'
  BY <1>1, HeadTailProperties DEF TypeOK, Stop, PC, Goto
<1> HIDE DEF h
<1>6. QueueInv'
  <2>1. Ready' \cap Held' = {}
    BY <1>1, <1>3 DEF Inv, QueueInv
  <2>2. \A u \in Threads : to'[u] = IF u = t THEN h ELSE to[u]
    BY DEF Stop, TypeOK, h
  <2>3. \A u \in Threads : to[u] # h
    BY <1>1, SetTypes DEF Inv, QueueInv
  <2>4. h # NoThread
    BY <1>1, ThreadsAssumption
  <2>5. \A u \in Threads : pc'[u] = IF u = t THEN "switch" ELSE pc[u]
    BY DEF Stop, TypeOK
  <2>6. QED
    BY <1>1, <2>1, <2>2, <2>3, <2>4, <2>5 DEF Inv, QueueInv
<1>7. CpuInv' 
  BY <1>1, <1>2, <1>3 DEF Stop, TypeOK, Inv, CpuInv, Arriving, ReapPC,
     OneProcessorPerThread
<1>8. PendingInv'
  BY <1>1, <1>2, <1>4 DEF Stop, TypeOK, Inv, PendingInv
<1>9. DyingInv'
  BY <1>1, <1>2, <1>4 DEF Stop, TypeOK, Inv, DyingInv
<1>10. FromInv'
  BY <1>2 DEF Stop, TypeOK, Inv, FromInv, ReapPC
<1>11. ClaimInv'
  BY <1>2 DEF Stop, TypeOK, Inv, ClaimInv, JoinPC, DetachPC, Arriving, ReapPC
<1>12. JoinInv'
  BY <1>2, <1>4 DEF Stop, TypeOK, Inv, JoinInv, WillStart
<1>13. BootInv'
  BY <1>2 DEF Stop, TypeOK, Inv, BootInv
<1>14. IdleInv'
  BY <1>2, <1>4 DEF Stop, TypeOK, Inv, IdleInv
<1>15. QED
  BY <1>5, <1>6, <1>7, <1>8, <1>9, <1>10, <1>11, <1>12, <1>13, <1>14 DEF Inv

-----------------------------------------------------------------------------
(* The actions that leave the ready queue and the processors as they are:  *)
(* one lemma each, one step for each part of the invariant.                *)

LEMMA FromDyingInv ==
  ASSUME RunToCompletion, TypeOK, Inv, NEW t \in Threads, FromDying(t)
  PROVE  TypeOK' /\ Inv'
<1>1. Running' = Running /\ Ready' = Ready /\ Held' = Held /\ Pending' = Pending
  BY DEF FromDying, Running, Ready, Held, Pending
<1>2. TypeOK'
  BY <1>1, SetTypes, ThreadsAssumption DEF FromDying, Inv, TypeOK, FromInv,
     ClaimInv, PC, ReapPC, JoinPC, DetachPC, States, Arriving, Threads
<1>3. QueueInv'
  BY <1>1, SetTypes DEF FromDying, TypeOK, Inv, QueueInv
<1>4. CpuInv'
  BY <1>1, ThreadsAssumption DEF FromDying, TypeOK, Inv, CpuInv, FromInv, Arriving,
     ReapPC, OneProcessorPerThread, DyingInv, Ended
<1>5. PendingInv'
  BY <1>1, SetTypes DEF FromDying, TypeOK, Inv, PendingInv, FromInv, Ended, ReapPC,
     DyingInv
<1>6. DyingInv'
  BY <1>1 DEF FromDying, TypeOK, Inv, DyingInv, FromInv, CpuInv, Ended, ReapPC,
     JoinInv, Arriving
<1>7. FromInv'
  BY <1>1, ThreadsAssumption DEF FromDying, TypeOK, Inv, FromInv, ReapPC, DyingInv,
     CpuInv, Ended, Arriving, Threads
<1>8. ClaimInv'
  BY <1>1, ThreadsAssumption DEF FromDying, TypeOK, Inv, ClaimInv, JoinPC, DetachPC,
     Arriving, ReapPC, RunToCompletion
<1>9. JoinInv'
  BY <1>1, ThreadsAssumption DEF FromDying, TypeOK, Inv, JoinInv, WillStart,
     FromInv, ClaimInv, ReapPC, JoinPC, DetachPC, Threads
<1>10. BootInv'
  BY <1>1, ThreadsAssumption DEF FromDying, TypeOK, Inv, BootInv, Threads
<1>11. IdleInv'
  BY <1>1, ThreadsAssumption DEF FromDying, TypeOK, Inv, IdleInv, Threads
<1>12. QED
  BY <1>2, <1>3, <1>4, <1>5, <1>6, <1>7, <1>8, <1>9, <1>10, <1>11 DEF Inv

LEMMA FromLiveInv ==
  ASSUME RunToCompletion, TypeOK, Inv, NEW t \in Threads, FromLive(t)
  PROVE  TypeOK' /\ Inv'
<1>1. Running' = Running /\ Ready' = Ready /\ Held' = Held /\ Pending' = Pending
  BY DEF FromLive, Running, Ready, Held, Pending
<1>2. TypeOK'
  BY <1>1, SetTypes, ThreadsAssumption DEF FromLive, Inv, TypeOK, FromInv, ClaimInv,
     PC, ReapPC, JoinPC, DetachPC, States, Arriving, Threads
<1>3. QueueInv'
  BY <1>1, SetTypes DEF FromLive, TypeOK, Inv, QueueInv
<1>4. CpuInv'
  BY <1>1, ThreadsAssumption DEF FromLive, TypeOK, Inv, CpuInv, FromInv, Arriving,
     ReapPC, OneProcessorPerThread, DyingInv, Ended
<1>5. PendingInv'
  BY <1>1, SetTypes DEF FromLive, TypeOK, Inv, PendingInv, FromInv, Ended, ReapPC,
     DyingInv
<1>6. DyingInv'
  BY <1>1 DEF FromLive, TypeOK, Inv, DyingInv, FromInv, CpuInv, Ended, ReapPC,
     JoinInv, Arriving
<1>7. FromInv'
  BY <1>1, ThreadsAssumption DEF FromLive, TypeOK, Inv, FromInv, ReapPC, DyingInv,
     CpuInv, Ended, Arriving, Threads
<1>8. ClaimInv'
  BY <1>1, ThreadsAssumption DEF FromLive, TypeOK, Inv, ClaimInv, JoinPC, DetachPC,
     Arriving, ReapPC, RunToCompletion
<1>9. JoinInv'
  BY <1>1, ThreadsAssumption DEF FromLive, TypeOK, Inv, JoinInv, WillStart, FromInv,
     ClaimInv, ReapPC, JoinPC, DetachPC, Threads
<1>10. BootInv'
  BY <1>1, ThreadsAssumption DEF FromLive, TypeOK, Inv, BootInv, Threads
<1>11. IdleInv'
  BY <1>1, ThreadsAssumption DEF FromLive, TypeOK, Inv, IdleInv, Threads
<1>12. QED
  BY <1>2, <1>3, <1>4, <1>5, <1>6, <1>7, <1>8, <1>9, <1>10, <1>11 DEF Inv

LEMMA ReapLockInv ==
  ASSUME RunToCompletion, TypeOK, Inv, NEW t \in Threads, ReapLock(t)
  PROVE  TypeOK' /\ Inv'
<1>1. Running' = Running /\ Ready' = Ready /\ Held' = Held /\ Pending' = Pending
  BY DEF ReapLock, Running, Ready, Held, Pending
<1>2. TypeOK'
  BY <1>1, SetTypes, ThreadsAssumption DEF ReapLock, Inv, TypeOK, FromInv, ClaimInv,
     PC, ReapPC, JoinPC, DetachPC, States, Arriving, Threads
<1>3. QueueInv'
  BY <1>1, SetTypes DEF ReapLock, TypeOK, Inv, QueueInv
<1>4. CpuInv'
  BY <1>1, ThreadsAssumption DEF ReapLock, TypeOK, Inv, CpuInv, FromInv, Arriving,
     ReapPC, OneProcessorPerThread, DyingInv, Ended
<1>5. PendingInv'
  BY <1>1, SetTypes DEF ReapLock, TypeOK, Inv, PendingInv, FromInv, Ended, ReapPC,
     DyingInv
<1>6. DyingInv'
  BY <1>1 DEF ReapLock, TypeOK, Inv, DyingInv, FromInv, CpuInv, Ended, ReapPC,
     JoinInv, Arriving
<1>7. FromInv'
  BY <1>1, ThreadsAssumption DEF ReapLock, TypeOK, Inv, FromInv, ReapPC, DyingInv,
     CpuInv, Ended, Arriving, Threads
<1>8. ClaimInv'
  BY <1>1, ThreadsAssumption DEF ReapLock, TypeOK, Inv, ClaimInv, JoinPC, DetachPC,
     Arriving, ReapPC, RunToCompletion
<1>9. JoinInv'
  BY <1>1, ThreadsAssumption DEF ReapLock, TypeOK, Inv, JoinInv, WillStart, FromInv,
     ClaimInv, ReapPC, JoinPC, DetachPC, Threads
<1>10. BootInv'
  BY <1>1, ThreadsAssumption DEF ReapLock, TypeOK, Inv, BootInv, Threads
<1>11. IdleInv'
  BY <1>1, ThreadsAssumption DEF ReapLock, TypeOK, Inv, IdleInv, Threads
<1>12. QED
  BY <1>2, <1>3, <1>4, <1>5, <1>6, <1>7, <1>8, <1>9, <1>10, <1>11 DEF Inv

LEMMA ReapFreeInv ==
  ASSUME RunToCompletion, TypeOK, Inv, NEW t \in Threads, ReapFree(t)
  PROVE  TypeOK' /\ Inv'
<1>1. Running' = Running /\ Ready' = Ready /\ Held' = Held /\ Pending' = Pending
  BY DEF ReapFree, Running, Ready, Held, Pending
<1>2. TypeOK'
  BY <1>1, SetTypes, ThreadsAssumption DEF ReapFree, Inv, TypeOK, FromInv, ClaimInv,
     PC, ReapPC, JoinPC, DetachPC, States, Arriving, Threads
<1>3. QueueInv'
  BY <1>1, SetTypes DEF ReapFree, TypeOK, Inv, QueueInv
<1>4. CpuInv'
  BY <1>1, ThreadsAssumption DEF ReapFree, TypeOK, Inv, CpuInv, FromInv, Arriving,
     ReapPC, OneProcessorPerThread, DyingInv, Ended
<1>5. PendingInv'
  BY <1>1, SetTypes DEF ReapFree, TypeOK, Inv, PendingInv, FromInv, Ended, ReapPC,
     DyingInv
<1>6. DyingInv'
  BY <1>1 DEF ReapFree, TypeOK, Inv, DyingInv, FromInv, CpuInv, Ended, ReapPC,
     JoinInv, Arriving
<1>7. FromInv'
  BY <1>1, ThreadsAssumption DEF ReapFree, TypeOK, Inv, FromInv, ReapPC, DyingInv,
     CpuInv, Ended, Arriving, Threads
<1>8. ClaimInv'
  BY <1>1, ThreadsAssumption DEF ReapFree, TypeOK, Inv, ClaimInv, JoinPC, DetachPC,
     Arriving, ReapPC, RunToCompletion
<1>9. JoinInv'
  BY <1>1, ThreadsAssumption DEF ReapFree, TypeOK, Inv, JoinInv, WillStart, FromInv,
     ClaimInv, ReapPC, JoinPC, DetachPC, Threads
<1>10. BootInv'
  BY <1>1, ThreadsAssumption DEF ReapFree, TypeOK, Inv, BootInv, Threads
<1>11. IdleInv'
  BY <1>1, ThreadsAssumption DEF ReapFree, TypeOK, Inv, IdleInv, Threads
<1>12. QED
  BY <1>2, <1>3, <1>4, <1>5, <1>6, <1>7, <1>8, <1>9, <1>10, <1>11 DEF Inv

LEMMA ReapStartInv ==
  ASSUME RunToCompletion, TypeOK, Inv, NEW t \in Threads, ReapStart(t)
  PROVE  TypeOK' /\ Inv'
<1>1. Running' = Running /\ Ready' = Ready /\ Held' = Held /\ Pending' = Pending
  BY DEF ReapStart, Running, Ready, Held, Pending
<1>0. /\ joiner[from[t]] = Base /\ Base \in Threads \ (Workers \cup Procs)
      /\ state' = [state EXCEPT ![Base] = IF @ = "RUNNING" THEN @ ELSE "RUNABLE"]
      /\ state[Base] \notin Ended
  BY ThreadsAssumption DEF ReapStart, TypeOK, Inv, JoinInv, FromInv, DyingInv,
     ReapPC, Threads
<1>2. TypeOK'
  BY <1>1, SetTypes, ThreadsAssumption DEF ReapStart, Inv, TypeOK, FromInv,
     ClaimInv, PC, ReapPC, JoinPC, DetachPC, States, Arriving, Threads
<1>3. QueueInv'
  BY <1>1, SetTypes DEF ReapStart, TypeOK, Inv, QueueInv
<1>4. CpuInv'
  BY <1>1, ThreadsAssumption DEF ReapStart, TypeOK, Inv, CpuInv, JoinInv, DyingInv,
     FromInv, Arriving, ReapPC, OneProcessorPerThread, Ended, Threads
<1>5. PendingInv'
  BY <1>1, SetTypes DEF ReapStart, TypeOK, Inv, PendingInv, JoinInv, DyingInv, Ended
<1>6. DyingInv'
  BY <1>1, <1>0 DEF TypeOK, Inv, ReapStart, DyingInv, Ended
<1>7. FromInv'
  BY <1>1, ThreadsAssumption DEF ReapStart, TypeOK, Inv, FromInv, ReapPC, DyingInv,
     JoinInv, Ended, Threads
<1>8. ClaimInv'
  BY <1>1, ThreadsAssumption DEF ReapStart, TypeOK, Inv, ClaimInv, JoinPC, DetachPC,
     Arriving, ReapPC, RunToCompletion
<1>9. JoinInv'
  BY <1>1, <1>0 DEF TypeOK, Inv, ReapStart, JoinInv, WillStart, Ended
<1>10. BootInv'
  BY <1>1, <1>0 DEF TypeOK, Inv, ReapStart, BootInv, Threads
<1>11. IdleInv'
  BY <1>1, <1>0 DEF TypeOK, Inv, ReapStart, IdleInv, Threads
<1>12. QED
  BY <1>2, <1>3, <1>4, <1>5, <1>6, <1>7, <1>8, <1>9, <1>10, <1>11 DEF Inv

LEMMA ReapNoJoinerInv ==
  ASSUME RunToCompletion, TypeOK, Inv, NEW t \in Threads, ReapNoJoiner(t)
  PROVE  TypeOK' /\ Inv'
<1>1. Running' = Running /\ Ready' = Ready /\ Held' = Held /\ Pending' = Pending
  BY DEF ReapNoJoiner, Running, Ready, Held, Pending
<1>2. TypeOK'
  BY <1>1, SetTypes, ThreadsAssumption DEF ReapNoJoiner, Inv, TypeOK, FromInv,
     ClaimInv, PC, ReapPC, JoinPC, DetachPC, States, Arriving, Threads
<1>3. QueueInv'
  BY <1>1, SetTypes DEF ReapNoJoiner, TypeOK, Inv, QueueInv
<1>4. CpuInv'
  BY <1>1, ThreadsAssumption DEF ReapNoJoiner, TypeOK, Inv, CpuInv, FromInv,
     Arriving, ReapPC, OneProcessorPerThread, DyingInv, Ended
<1>5. PendingInv'
  BY <1>1, SetTypes DEF ReapNoJoiner, TypeOK, Inv, PendingInv, FromInv, Ended,
     ReapPC, DyingInv
<1>6. DyingInv'
  BY <1>1 DEF ReapNoJoiner, TypeOK, Inv, DyingInv, FromInv, CpuInv, Ended, ReapPC,
     JoinInv, Arriving
<1>7. FromInv'
  BY <1>1, ThreadsAssumption DEF ReapNoJoiner, TypeOK, Inv, FromInv, ReapPC,
     DyingInv, CpuInv, Ended, Arriving, Threads
<1>8. ClaimInv'
  BY <1>1, ThreadsAssumption DEF ReapNoJoiner, TypeOK, Inv, ClaimInv, JoinPC,
     DetachPC, Arriving, ReapPC, RunToCompletion
<1>9. JoinInv'
  BY <1>1, ThreadsAssumption DEF ReapNoJoiner, TypeOK, Inv, JoinInv, WillStart,
     FromInv, ClaimInv, ReapPC, JoinPC, DetachPC, Threads
<1>10. BootInv'
  BY <1>1, ThreadsAssumption DEF ReapNoJoiner, TypeOK, Inv, BootInv, Threads
<1>11. IdleInv'
  BY <1>1, ThreadsAssumption DEF ReapNoJoiner, TypeOK, Inv, IdleInv, Threads
<1>12. QED
  BY <1>2, <1>3, <1>4, <1>5, <1>6, <1>7, <1>8, <1>9, <1>10, <1>11 DEF Inv

LEMMA ReapDeadInv ==
  ASSUME RunToCompletion, TypeOK, Inv, NEW t \in Threads, ReapDead(t)
  PROVE  TypeOK' /\ Inv'
<1>1. Running' = Running /\ Ready' = Ready /\ Held' = Held /\ Pending' = Pending
  BY DEF ReapDead, Running, Ready, Held, Pending
<1>2. TypeOK'
  BY <1>1, SetTypes, ThreadsAssumption DEF ReapDead, Inv, TypeOK, FromInv, ClaimInv,
     PC, ReapPC, JoinPC, DetachPC, States, Arriving, Threads
<1>3. QueueInv'
  BY <1>1, SetTypes DEF ReapDead, TypeOK, Inv, QueueInv
<1>4. CpuInv'
  BY <1>1, ThreadsAssumption DEF ReapDead, TypeOK, Inv, CpuInv, FromInv, Arriving,
     ReapPC, OneProcessorPerThread, DyingInv, Ended
<1>5. PendingInv'
  BY <1>1, SetTypes DEF ReapDead, TypeOK, Inv, PendingInv, FromInv, Ended, ReapPC,
     DyingInv
<1>6. DyingInv'
  BY <1>1 DEF ReapDead, TypeOK, Inv, DyingInv, FromInv, CpuInv, Ended, ReapPC,
     JoinInv, Arriving
<1>7. FromInv'
  BY <1>1, ThreadsAssumption DEF ReapDead, TypeOK, Inv, FromInv, ReapPC, DyingInv,
     CpuInv, Ended, Arriving, Threads
<1>8. ClaimInv'
  BY <1>1, ThreadsAssumption DEF ReapDead, TypeOK, Inv, ClaimInv, JoinPC, DetachPC,
     Arriving, ReapPC, RunToCompletion
<1>9. JoinInv'
  BY <1>1, ThreadsAssumption DEF ReapDead, TypeOK, Inv, JoinInv, WillStart, FromInv,
     ClaimInv, ReapPC, JoinPC, DetachPC, Threads
<1>10. BootInv'
  BY <1>1, ThreadsAssumption DEF ReapDead, TypeOK, Inv, BootInv, FromInv, ReapPC,
     Threads
<1>11. IdleInv'
  BY <1>1, ThreadsAssumption DEF ReapDead, TypeOK, Inv, IdleInv, FromInv, ReapPC,
     Threads
<1>12. QED
  BY <1>2, <1>3, <1>4, <1>5, <1>6, <1>7, <1>8, <1>9, <1>10, <1>11 DEF Inv

LEMMA ReapUnlockInv ==
  ASSUME RunToCompletion, TypeOK, Inv, NEW t \in Threads, ReapUnlock(t)
  PROVE  TypeOK' /\ Inv'
<1>1. Running' = Running /\ Ready' = Ready /\ Held' = Held /\ Pending' = Pending
  BY DEF ReapUnlock, Running, Ready, Held, Pending
<1>2. TypeOK'
  BY <1>1, SetTypes, ThreadsAssumption DEF ReapUnlock, Inv, TypeOK, FromInv,
     ClaimInv, PC, ReapPC, JoinPC, DetachPC, States, Arriving, Threads
<1>3. QueueInv'
  BY <1>1, SetTypes DEF ReapUnlock, TypeOK, Inv, QueueInv
<1>4. CpuInv'
  BY <1>1, ThreadsAssumption DEF ReapUnlock, TypeOK, Inv, CpuInv, FromInv, Arriving,
     ReapPC, OneProcessorPerThread, DyingInv, Ended
<1>5. PendingInv'
  BY <1>1, SetTypes DEF ReapUnlock, TypeOK, Inv, PendingInv, FromInv, Ended, ReapPC,
     DyingInv
<1>6. DyingInv'
  BY <1>1 DEF ReapUnlock, TypeOK, Inv, DyingInv, FromInv, CpuInv, Ended, ReapPC,
     JoinInv, Arriving
<1>7. FromInv'
  BY <1>1, ThreadsAssumption DEF ReapUnlock, TypeOK, Inv, FromInv, ReapPC, DyingInv,
     CpuInv, Ended, Arriving, Threads
<1>8. ClaimInv'
  BY <1>1, ThreadsAssumption DEF ReapUnlock, TypeOK, Inv, ClaimInv, JoinPC,
     DetachPC, Arriving, ReapPC, RunToCompletion
<1>9. JoinInv'
  BY <1>1, ThreadsAssumption DEF ReapUnlock, TypeOK, Inv, JoinInv, WillStart,
     FromInv, ClaimInv, ReapPC, JoinPC, DetachPC, Threads
<1>10. BootInv'
  BY <1>1, ThreadsAssumption DEF ReapUnlock, TypeOK, Inv, BootInv, Threads
<1>11. IdleInv'
  BY <1>1, ThreadsAssumption DEF ReapUnlock, TypeOK, Inv, IdleInv, Threads
<1>12. QED
  BY <1>2, <1>3, <1>4, <1>5, <1>6, <1>7, <1>8, <1>9, <1>10, <1>11 DEF Inv

LEMMA ResumeInv ==
  ASSUME RunToCompletion, TypeOK, Inv, NEW t \in Threads, Resume(t)
  PROVE  TypeOK' /\ Inv'
<1>1. Running' = Running /\ Ready' = Ready /\ Held' = Held /\ Pending' = Pending
  BY DEF Resume, Running, Ready, Held, Pending
<1>0. /\ pc'[t] \in {"user", cont[t]} /\ cont[t] # "gone"
      /\ \A u \in Threads \ {t} : pc'[u] = pc[u]
      /\ \A u \in Threads \ {t} : state'[u] = state[u]
      /\ state[t] \notin Ended
  BY ThreadsAssumption DEF Resume, TypeOK, Inv, CpuInv, DyingInv, Ended
<1>2. TypeOK'
  BY <1>1, SetTypes, ThreadsAssumption DEF Resume, Inv, TypeOK, FromInv, ClaimInv,
     PC, ReapPC, JoinPC, DetachPC, States, Arriving, Threads
<1>3. QueueInv'
  BY <1>1, SetTypes DEF Resume, TypeOK, Inv, QueueInv
<1>4. CpuInv'
  BY <1>1, ThreadsAssumption DEF Resume, TypeOK, Inv, CpuInv, FromInv, Arriving,
     ReapPC, OneProcessorPerThread, DyingInv, Ended
<1>5. PendingInv'
  BY <1>1, SetTypes DEF Resume, TypeOK, Inv, PendingInv, FromInv, Ended, ReapPC,
     DyingInv
<1>6. DyingInv'
  BY <1>1 DEF Resume, TypeOK, Inv, DyingInv, CpuInv, Ended
<1>7. FromInv'
  BY <1>1, ThreadsAssumption DEF Resume, TypeOK, Inv, FromInv, ReapPC, DyingInv,
     CpuInv, Ended, Arriving, Threads
<1>8. ClaimInv'
  BY <1>1, <1>0 DEF Resume, TypeOK, Inv, ClaimInv, DyingInv, JoinPC, DetachPC,
     Arriving, ReapPC
<1>9. JoinInv'
  BY <1>1, <1>0 DEF Resume, TypeOK, Inv, JoinInv, WillStart, Ended
<1>10. BootInv'
  BY <1>1, ThreadsAssumption DEF Resume, TypeOK, Inv, BootInv, CpuInv, ClaimInv,
     JoinPC, DyingInv, Threads
<1>11. IdleInv'
  BY <1>1, ThreadsAssumption DEF Resume, TypeOK, Inv, IdleInv, DyingInv, Threads
<1>12. QED
  BY <1>2, <1>3, <1>4, <1>5, <1>6, <1>7, <1>8, <1>9, <1>10, <1>11 DEF Inv

LEMMA JoinLockInv ==
  ASSUME RunToCompletion, TypeOK, Inv, NEW t \in Threads, JoinLock(t)
  PROVE  TypeOK' /\ Inv'
<1>1. Running' = Running /\ Ready' = Ready /\ Held' = Held /\ Pending' = Pending
  BY DEF JoinLock, LockTarget, Running, Ready, Held, Pending
<1>2. TypeOK'
  BY <1>1, SetTypes, ThreadsAssumption DEF JoinLock, LockTarget, Inv, TypeOK,
     FromInv, ClaimInv, PC, ReapPC, JoinPC, DetachPC, States, Arriving, Threads
<1>3. QueueInv'
  BY <1>1, SetTypes DEF JoinLock, LockTarget, TypeOK, Inv, QueueInv
<1>4. CpuInv'
  BY <1>1, ThreadsAssumption DEF JoinLock, LockTarget, TypeOK, Inv, CpuInv, FromInv,
     Arriving, ReapPC, OneProcessorPerThread, DyingInv, Ended
<1>5. PendingInv'
  BY <1>1, SetTypes DEF JoinLock, LockTarget, TypeOK, Inv, PendingInv, FromInv,
     Ended, ReapPC, DyingInv
<1>6. DyingInv'
  BY <1>1 DEF JoinLock, LockTarget, TypeOK, Inv, DyingInv, FromInv, CpuInv, Ended,
     ReapPC, JoinInv, Arriving
<1>7. FromInv'
  BY <1>1, ThreadsAssumption DEF JoinLock, LockTarget, TypeOK, Inv, FromInv, ReapPC,
     DyingInv, CpuInv, Ended, Arriving, Threads
<1>8. ClaimInv'
  BY <1>1, ThreadsAssumption DEF JoinLock, LockTarget, TypeOK, Inv, ClaimInv,
     JoinPC, DetachPC, Arriving, ReapPC, RunToCompletion
<1>9. JoinInv'
  BY <1>1, ThreadsAssumption DEF JoinLock, LockTarget, TypeOK, Inv, JoinInv,
     WillStart, FromInv, ClaimInv, ReapPC, JoinPC, DetachPC, Threads
<1>10. BootInv'
  BY <1>1, ThreadsAssumption DEF JoinLock, LockTarget, TypeOK, Inv, BootInv, Threads
<1>11. IdleInv'
  BY <1>1, ThreadsAssumption DEF JoinLock, LockTarget, TypeOK, Inv, IdleInv, Threads
<1>12. QED
  BY <1>2, <1>3, <1>4, <1>5, <1>6, <1>7, <1>8, <1>9, <1>10, <1>11 DEF Inv

LEMMA JoinWaitInv ==
  ASSUME RunToCompletion, TypeOK, Inv, NEW t \in Threads, JoinWait(t)
  PROVE  TypeOK' /\ Inv'
<1>1. Running' = Running /\ Ready' = Ready /\ Held' = Held /\ Pending' = Pending
  BY DEF JoinWait, SetJoiner, Running, Ready, Held, Pending
<1>2. TypeOK'
  BY <1>1, SetTypes, ThreadsAssumption DEF JoinWait, SetJoiner, Inv, TypeOK,
     FromInv, ClaimInv, PC, ReapPC, JoinPC, DetachPC, States, Arriving, Threads
<1>3. QueueInv'
  BY <1>1, SetTypes DEF JoinWait, SetJoiner, TypeOK, Inv, QueueInv
<1>4. CpuInv'
  BY <1>1, ThreadsAssumption DEF JoinWait, SetJoiner, TypeOK, Inv, CpuInv, FromInv,
     Arriving, ReapPC, OneProcessorPerThread, DyingInv, Ended
<1>5. PendingInv'
  BY <1>1, SetTypes DEF JoinWait, SetJoiner, TypeOK, Inv, PendingInv, FromInv,
     Ended, ReapPC, DyingInv
<1>6. DyingInv'
  BY <1>1 DEF JoinWait, SetJoiner, TypeOK, Inv, DyingInv, FromInv, CpuInv, Ended,
     ReapPC, JoinInv, Arriving
<1>7. FromInv'
  BY <1>1, ThreadsAssumption DEF JoinWait, SetJoiner, TypeOK, Inv, FromInv, ReapPC,
     DyingInv, CpuInv, Ended, Arriving, Threads
<1>8. ClaimInv'
  BY <1>1, ThreadsAssumption DEF JoinWait, SetJoiner, TypeOK, Inv, ClaimInv, JoinPC,
     DetachPC, Arriving, ReapPC, RunToCompletion
<1>9. JoinInv'
  BY <1>1, SetTypes, ThreadsAssumption DEF JoinWait, SetJoiner, TypeOK, Inv,
     JoinInv, WillStart, PendingInv, ClaimInv, JoinPC, Threads, FromInv, ReapPC
<1>10. BootInv'
  BY <1>1, ThreadsAssumption DEF JoinWait, SetJoiner, TypeOK, Inv, BootInv, Threads
<1>11. IdleInv'
  BY <1>1, ThreadsAssumption DEF JoinWait, SetJoiner, TypeOK, Inv, IdleInv, Threads
<1>12. QED
  BY <1>2, <1>3, <1>4, <1>5, <1>6, <1>7, <1>8, <1>9, <1>10, <1>11 DEF Inv

LEMMA JoinDeadInv ==
  ASSUME RunToCompletion, TypeOK, Inv, NEW t \in Threads, JoinDead(t)
  PROVE  TypeOK' /\ Inv'
<1>1. Running' = Running /\ Ready' = Ready /\ Held' = Held /\ Pending' = Pending
  BY DEF JoinDead, Running, Ready, Held, Pending
<1>2. TypeOK'
  BY <1>1, SetTypes, ThreadsAssumption DEF JoinDead, Inv, TypeOK, FromInv, ClaimInv,
     PC, ReapPC, JoinPC, DetachPC, States, Arriving, Threads
<1>3. QueueInv'
  BY <1>1, SetTypes DEF JoinDead, TypeOK, Inv, QueueInv
<1>4. CpuInv'
  BY <1>1, ThreadsAssumption DEF JoinDead, TypeOK, Inv, CpuInv, FromInv, Arriving,
     ReapPC, OneProcessorPerThread, DyingInv, Ended
<1>5. PendingInv'
  BY <1>1, SetTypes DEF JoinDead, TypeOK, Inv, PendingInv, FromInv, Ended, ReapPC,
     DyingInv
<1>6. DyingInv'
  BY <1>1 DEF JoinDead, TypeOK, Inv, DyingInv, FromInv, CpuInv, Ended, ReapPC,
     JoinInv, Arriving
<1>7. FromInv'
  BY <1>1, ThreadsAssumption DEF JoinDead, TypeOK, Inv, FromInv, ReapPC, DyingInv,
     CpuInv, Ended, Arriving, Threads
<1>8. ClaimInv'
  BY <1>1, ThreadsAssumption DEF JoinDead, TypeOK, Inv, ClaimInv, JoinPC, DetachPC,
     Arriving, ReapPC, RunToCompletion
<1>9. JoinInv'
  BY <1>1, ThreadsAssumption DEF JoinDead, TypeOK, Inv, JoinInv, WillStart, FromInv,
     ClaimInv, ReapPC, JoinPC, DetachPC, Threads
<1>10. BootInv'
  BY <1>1, ThreadsAssumption DEF JoinDead, TypeOK, Inv, BootInv, Threads
<1>11. IdleInv'
  BY <1>1, ThreadsAssumption DEF JoinDead, TypeOK, Inv, IdleInv, Threads
<1>12. QED
  BY <1>2, <1>3, <1>4, <1>5, <1>6, <1>7, <1>8, <1>9, <1>10, <1>11 DEF Inv

LEMMA JoinUnlockInv ==
  ASSUME RunToCompletion, TypeOK, Inv, NEW t \in Threads, JoinUnlock(t)
  PROVE  TypeOK' /\ Inv'
<1>1. Running' = Running /\ Ready' = Ready /\ Held' = Held /\ Pending' = Pending
  BY DEF JoinUnlock, Running, Ready, Held, Pending
<1>2. TypeOK'
  BY <1>1, SetTypes, ThreadsAssumption DEF JoinUnlock, Inv, TypeOK, FromInv,
     ClaimInv, PC, ReapPC, JoinPC, DetachPC, States, Arriving, Threads
<1>3. QueueInv'
  BY <1>1, SetTypes DEF JoinUnlock, TypeOK, Inv, QueueInv
<1>4. CpuInv'
  BY <1>1, ThreadsAssumption DEF JoinUnlock, TypeOK, Inv, CpuInv, FromInv, Arriving,
     ReapPC, OneProcessorPerThread, DyingInv, Ended
<1>5. PendingInv'
  BY <1>1, SetTypes DEF JoinUnlock, TypeOK, Inv, PendingInv, FromInv, Ended, ReapPC,
     DyingInv
<1>6. DyingInv'
  BY <1>1, ThreadsAssumption DEF JoinUnlock, TypeOK, Inv, DyingInv, ClaimInv,
     JoinPC, Threads
<1>7. FromInv'
  BY <1>1, ThreadsAssumption DEF JoinUnlock, TypeOK, Inv, FromInv, ReapPC, DyingInv,
     CpuInv, Ended, Arriving, Threads
<1>8. ClaimInv'
  BY <1>1, ThreadsAssumption DEF JoinUnlock, TypeOK, Inv, ClaimInv, JoinPC,
     DetachPC, Arriving, ReapPC, RunToCompletion
<1>9. JoinInv'
  BY <1>1, ThreadsAssumption DEF JoinUnlock, TypeOK, Inv, JoinInv, WillStart,
     FromInv, ClaimInv, ReapPC, JoinPC, DetachPC, Threads
<1>10. BootInv'
  BY <1>1, ThreadsAssumption DEF JoinUnlock, TypeOK, Inv, BootInv, Threads
<1>11. IdleInv'
  BY <1>1, ThreadsAssumption DEF JoinUnlock, TypeOK, Inv, IdleInv, ClaimInv, JoinPC,
     Threads
<1>12. QED
  BY <1>2, <1>3, <1>4, <1>5, <1>6, <1>7, <1>8, <1>9, <1>10, <1>11 DEF Inv

LEMMA JoinedInv ==
  ASSUME RunToCompletion, TypeOK, Inv, NEW t \in Threads, Joined(t)
  PROVE  TypeOK' /\ Inv'
<1>1. Running' = Running /\ Ready' = Ready /\ Held' = Held /\ Pending' = Pending
  BY DEF Joined, Running, Ready, Held, Pending
<1>2. TypeOK'
  BY <1>1, SetTypes, ThreadsAssumption DEF Joined, Inv, TypeOK, FromInv, ClaimInv,
     PC, ReapPC, JoinPC, DetachPC, States, Arriving, Threads
<1>3. QueueInv'
  BY <1>1, SetTypes DEF Joined, TypeOK, Inv, QueueInv
<1>4. CpuInv'
  BY <1>1, ThreadsAssumption DEF Joined, TypeOK, Inv, CpuInv, FromInv, Arriving,
     ReapPC, OneProcessorPerThread, DyingInv, Ended
<1>5. PendingInv'
  BY <1>1, SetTypes DEF Joined, TypeOK, Inv, PendingInv, FromInv, Ended, ReapPC,
     DyingInv
<1>6. DyingInv'
  BY <1>1 DEF Joined, TypeOK, Inv, DyingInv, FromInv, CpuInv, Ended, ReapPC,
     JoinInv, Arriving
<1>7. FromInv'
  BY <1>1, ThreadsAssumption DEF Joined, TypeOK, Inv, FromInv, ReapPC, DyingInv,
     CpuInv, Ended, Arriving, Threads
<1>8. ClaimInv'
  BY <1>1, ThreadsAssumption DEF Joined, TypeOK, Inv, ClaimInv, JoinPC, DetachPC,
     Arriving, ReapPC, RunToCompletion
<1>9. JoinInv'
  BY <1>1, ThreadsAssumption DEF Joined, TypeOK, Inv, JoinInv, WillStart, FromInv,
     ClaimInv, ReapPC, JoinPC, DetachPC, Threads
<1>10. BootInv'
  BY <1>1, ThreadsAssumption DEF Joined, TypeOK, Inv, BootInv, Threads
<1>11. IdleInv'
  BY <1>1, ThreadsAssumption DEF Joined, TypeOK, Inv, IdleInv, Threads
<1>12. QED
  BY <1>2, <1>3, <1>4, <1>5, <1>6, <1>7, <1>8, <1>9, <1>10, <1>11 DEF Inv

LEMMA DetachLockInv ==
  ASSUME RunToCompletion, TypeOK, Inv, NEW t \in Threads, DetachLock(t)
  PROVE  TypeOK' /\ Inv'
<1>1. Running' = Running /\ Ready' = Ready /\ Held' = Held /\ Pending' = Pending
  BY DEF DetachLock, LockTarget, Running, Ready, Held, Pending
<1>2. TypeOK'
  BY <1>1, SetTypes, ThreadsAssumption DEF DetachLock, LockTarget, Inv, TypeOK,
     FromInv, ClaimInv, PC, ReapPC, JoinPC, DetachPC, States, Arriving, Threads
<1>3. QueueInv'
  BY <1>1, SetTypes DEF DetachLock, LockTarget, TypeOK, Inv, QueueInv
<1>4. CpuInv'
  BY <1>1, ThreadsAssumption DEF DetachLock, LockTarget, TypeOK, Inv, CpuInv,
     FromInv, Arriving, ReapPC, OneProcessorPerThread, DyingInv, Ended
<1>5. PendingInv'
  BY <1>1, SetTypes DEF DetachLock, LockTarget, TypeOK, Inv, PendingInv, FromInv,
     Ended, ReapPC, DyingInv
<1>6. DyingInv'
  BY <1>1 DEF DetachLock, LockTarget, TypeOK, Inv, DyingInv, FromInv, CpuInv, Ended,
     ReapPC, JoinInv, Arriving
<1>7. FromInv'
  BY <1>1, ThreadsAssumption DEF DetachLock, LockTarget, TypeOK, Inv, FromInv,
     ReapPC, DyingInv, CpuInv, Ended, Arriving, Threads
<1>8. ClaimInv'
  BY <1>1, ThreadsAssumption DEF DetachLock, LockTarget, TypeOK, Inv, ClaimInv,
     JoinPC, DetachPC, Arriving, ReapPC, RunToCompletion
<1>9. JoinInv'
  BY <1>1, ThreadsAssumption DEF DetachLock, LockTarget, TypeOK, Inv, JoinInv,
     WillStart, FromInv, ClaimInv, ReapPC, JoinPC, DetachPC, Threads
<1>10. BootInv'
  BY <1>1, ThreadsAssumption DEF DetachLock, LockTarget, TypeOK, Inv, BootInv,
     Threads
<1>11. IdleInv'
  BY <1>1, ThreadsAssumption DEF DetachLock, LockTarget, TypeOK, Inv, IdleInv,
     Threads
<1>12. QED
  BY <1>2, <1>3, <1>4, <1>5, <1>6, <1>7, <1>8, <1>9, <1>10, <1>11 DEF Inv

LEMMA DetachSetInv ==
  ASSUME RunToCompletion, TypeOK, Inv, NEW t \in Threads, DetachSet(t)
  PROVE  TypeOK' /\ Inv'
<1>1. Running' = Running /\ Ready' = Ready /\ Held' = Held /\ Pending' = Pending
  BY DEF DetachSet, SetJoiner, Running, Ready, Held, Pending
<1>2. TypeOK'
  BY <1>1, SetTypes, ThreadsAssumption DEF DetachSet, SetJoiner, Inv, TypeOK,
     FromInv, ClaimInv, PC, ReapPC, JoinPC, DetachPC, States, Arriving, Threads
<1>3. QueueInv'
  BY <1>1, SetTypes DEF DetachSet, SetJoiner, TypeOK, Inv, QueueInv
<1>4. CpuInv'
  BY <1>1, ThreadsAssumption DEF DetachSet, SetJoiner, TypeOK, Inv, CpuInv, FromInv,
     Arriving, ReapPC, OneProcessorPerThread, DyingInv, Ended
<1>5. PendingInv'
  BY <1>1, SetTypes DEF DetachSet, SetJoiner, TypeOK, Inv, PendingInv, FromInv,
     Ended, ReapPC, DyingInv
<1>6. DyingInv'
  BY <1>1 DEF DetachSet, SetJoiner, TypeOK, Inv, DyingInv, FromInv, CpuInv, Ended,
     ReapPC, JoinInv, Arriving
<1>7. FromInv'
  BY <1>1, ThreadsAssumption DEF DetachSet, SetJoiner, TypeOK, Inv, FromInv, ReapPC,
     DyingInv, CpuInv, Ended, Arriving, Threads
<1>8. ClaimInv'
  BY <1>1, ThreadsAssumption DEF DetachSet, SetJoiner, TypeOK, Inv, ClaimInv,
     JoinPC, DetachPC, Arriving, ReapPC, RunToCompletion
<1>9. JoinInv'
  BY <1>1, ThreadsAssumption DEF DetachSet, SetJoiner, TypeOK, Inv, JoinInv,
     WillStart, FromInv, ClaimInv, ReapPC, JoinPC, DetachPC, Threads
<1>10. BootInv'
  BY <1>1, ThreadsAssumption DEF DetachSet, SetJoiner, TypeOK, Inv, BootInv, Threads
<1>11. IdleInv'
  BY <1>1, ThreadsAssumption DEF DetachSet, SetJoiner, TypeOK, Inv, IdleInv, Threads
<1>12. QED
  BY <1>2, <1>3, <1>4, <1>5, <1>6, <1>7, <1>8, <1>9, <1>10, <1>11 DEF Inv

LEMMA DetachUnlockInv ==
  ASSUME RunToCompletion, TypeOK, Inv, NEW t \in Threads, DetachUnlock(t)
  PROVE  TypeOK' /\ Inv'
<1>1. Running' = Running /\ Ready' = Ready /\ Held' = Held /\ Pending' = Pending
  BY DEF DetachUnlock, Running, Ready, Held, Pending
<1>2. TypeOK'
  BY <1>1, SetTypes, ThreadsAssumption DEF DetachUnlock, Inv, TypeOK, FromInv,
     ClaimInv, PC, ReapPC, JoinPC, DetachPC, States, Arriving, Threads
<1>3. QueueInv'
  BY <1>1, SetTypes DEF DetachUnlock, TypeOK, Inv, QueueInv
<1>4. CpuInv'
  BY <1>1, ThreadsAssumption DEF DetachUnlock, TypeOK, Inv, CpuInv, FromInv,
     Arriving, ReapPC, OneProcessorPerThread, DyingInv, Ended
<1>5. PendingInv'
  BY <1>1, SetTypes DEF DetachUnlock, TypeOK, Inv, PendingInv, FromInv, Ended,
     ReapPC, DyingInv
<1>6. DyingInv'
  BY <1>1 DEF DetachUnlock, TypeOK, Inv, DyingInv, FromInv, CpuInv, Ended, ReapPC,
     JoinInv, Arriving
<1>7. FromInv'
  BY <1>1, ThreadsAssumption DEF DetachUnlock, TypeOK, Inv, FromInv, ReapPC,
     DyingInv, CpuInv, Ended, Arriving, Threads
<1>8. ClaimInv'
  BY <1>1, ThreadsAssumption DEF DetachUnlock, TypeOK, Inv, ClaimInv, JoinPC,
     DetachPC, Arriving, ReapPC, RunToCompletion
<1>9. JoinInv'
  BY <1>1, ThreadsAssumption DEF DetachUnlock, TypeOK, Inv, JoinInv, WillStart,
     FromInv, ClaimInv, ReapPC, JoinPC, DetachPC, Threads
<1>10. BootInv'
  BY <1>1, ThreadsAssumption DEF DetachUnlock, TypeOK, Inv, BootInv, Threads
<1>11. IdleInv'
  BY <1>1, ThreadsAssumption DEF DetachUnlock, TypeOK, Inv, IdleInv, Threads
<1>12. QED
  BY <1>2, <1>3, <1>4, <1>5, <1>6, <1>7, <1>8, <1>9, <1>10, <1>11 DEF Inv

LEMMA DetachFreeInv ==
  ASSUME RunToCompletion, TypeOK, Inv, NEW t \in Threads, DetachFree(t)
  PROVE  TypeOK' /\ Inv'
<1>1. Running' = Running /\ Ready' = Ready /\ Held' = Held /\ Pending' = Pending
  BY DEF DetachFree, Running, Ready, Held, Pending
<1>2. TypeOK'
  BY <1>1, SetTypes, ThreadsAssumption DEF DetachFree, Inv, TypeOK, FromInv,
     ClaimInv, PC, ReapPC, JoinPC, DetachPC, States, Arriving, Threads
<1>3. QueueInv'
  BY <1>1, SetTypes DEF DetachFree, TypeOK, Inv, QueueInv
<1>4. CpuInv'
  BY <1>1, ThreadsAssumption DEF DetachFree, TypeOK, Inv, CpuInv, FromInv, Arriving,
     ReapPC, OneProcessorPerThread, DyingInv, Ended
<1>5. PendingInv'
  BY <1>1, SetTypes DEF DetachFree, TypeOK, Inv, PendingInv, FromInv, Ended, ReapPC,
     DyingInv
<1>6. DyingInv'
  BY <1>1 DEF DetachFree, TypeOK, Inv, DyingInv, FromInv, CpuInv, Ended, ReapPC,
     JoinInv, Arriving
<1>7. FromInv'
  BY <1>1, ThreadsAssumption DEF DetachFree, TypeOK, Inv, FromInv, ReapPC, DyingInv,
     CpuInv, Ended, Arriving, Threads
<1>8. ClaimInv'
  BY <1>1, ThreadsAssumption DEF DetachFree, TypeOK, Inv, ClaimInv, JoinPC,
     DetachPC, Arriving, ReapPC, RunToCompletion
<1>9. JoinInv'
  BY <1>1, ThreadsAssumption DEF DetachFree, TypeOK, Inv, JoinInv, WillStart,
     FromInv, ClaimInv, ReapPC, JoinPC, DetachPC, Threads
<1>10. BootInv'
  BY <1>1, ThreadsAssumption DEF DetachFree, TypeOK, Inv, BootInv, Threads
<1>11. IdleInv'
  BY <1>1, ThreadsAssumption DEF DetachFree, TypeOK, Inv, IdleInv, Threads
<1>12. QED
  BY <1>2, <1>3, <1>4, <1>5, <1>6, <1>7, <1>8, <1>9, <1>10, <1>11 DEF Inv

LEMMA ReturnInv ==
  ASSUME RunToCompletion, TypeOK, Inv, NEW t \in Threads, Return(t)
  PROVE  TypeOK' /\ Inv'
<1>1. Running' = Running /\ Ready' = Ready /\ Held' = Held /\ Pending' = Pending
  BY DEF Return, Running, Ready, Held, Pending
<1>2. TypeOK'
  BY <1>1, SetTypes, ThreadsAssumption DEF Return, Inv, TypeOK, FromInv, ClaimInv,
     PC, ReapPC, JoinPC, DetachPC, States, Arriving, Threads
<1>3. QueueInv'
  BY <1>1, SetTypes DEF Return, TypeOK, Inv, QueueInv
<1>4. CpuInv'
  BY <1>1, ThreadsAssumption DEF Return, TypeOK, Inv, CpuInv, FromInv, Arriving,
     ReapPC, OneProcessorPerThread, DyingInv, Ended
<1>5. PendingInv'
  BY <1>1, SetTypes DEF Return, TypeOK, Inv, PendingInv, FromInv, Ended, ReapPC,
     DyingInv
<1>6. DyingInv'
  BY <1>1 DEF Return, TypeOK, Inv, DyingInv, FromInv, CpuInv, Ended, ReapPC,
     JoinInv, Arriving
<1>7. FromInv'
  BY <1>1, ThreadsAssumption DEF Return, TypeOK, Inv, FromInv, ReapPC, DyingInv,
     CpuInv, Ended, Arriving, Threads
<1>8. ClaimInv'
  BY <1>1, ThreadsAssumption DEF Return, TypeOK, Inv, ClaimInv, JoinPC, DetachPC,
     Arriving, ReapPC, RunToCompletion
<1>9. JoinInv'
  BY <1>1, ThreadsAssumption DEF Return, TypeOK, Inv, JoinInv, WillStart, FromInv,
     ClaimInv, ReapPC, JoinPC, DetachPC, Threads
<1>10. BootInv'
  BY <1>1, ThreadsAssumption DEF Return, TypeOK, Inv, BootInv, Threads
<1>11. IdleInv'
  BY <1>1, ThreadsAssumption DEF Return, TypeOK, Inv, IdleInv, Threads
<1>12. QED
  BY <1>2, <1>3, <1>4, <1>5, <1>6, <1>7, <1>8, <1>9, <1>10, <1>11 DEF Inv

LEMMA JoinCallInv ==
  ASSUME RunToCompletion, TypeOK, Inv, NEW t \in Threads, NEW w \in Workers, Join(t, w)
  PROVE  TypeOK' /\ Inv'
<1>1. Running' = Running /\ Ready' = Ready /\ Held' = Held /\ Pending' = Pending
  BY DEF Join, Claim, Running, Ready, Held, Pending
<1>0. /\ pc' = [pc EXCEPT ![t] = "join"] /\ target' = [target EXCEPT ![t] = w]
      /\ w \notin claimed /\ claimed' = claimed \cup {w} /\ joiner' = joiner
      /\ cont' = cont /\ joiner[w] = NoThread /\ w # NoThread /\ t = Base
  BY ThreadsAssumption DEF Join, Claim, RunToCompletion, Threads
<1>2. TypeOK'
  BY <1>1, SetTypes, ThreadsAssumption DEF Join, Claim, Inv, TypeOK, FromInv,
     ClaimInv, PC, ReapPC, JoinPC, DetachPC, States, Arriving, Threads
<1>3. QueueInv'
  BY <1>1, SetTypes DEF Join, Claim, TypeOK, Inv, QueueInv
<1>4. CpuInv'
  BY <1>1, ThreadsAssumption DEF Join, Claim, TypeOK, Inv, CpuInv, FromInv,
     Arriving, ReapPC, OneProcessorPerThread, DyingInv, Ended
<1>5. PendingInv'
  BY <1>1, SetTypes DEF Join, Claim, TypeOK, Inv, PendingInv, FromInv, Ended,
     ReapPC, DyingInv
<1>6. DyingInv'
  BY <1>1 DEF Join, Claim, TypeOK, Inv, DyingInv, FromInv, CpuInv, Ended, ReapPC,
     JoinInv, Arriving
<1>7. FromInv'
  BY <1>1, ThreadsAssumption DEF Join, Claim, TypeOK, Inv, FromInv, ReapPC,
     DyingInv, CpuInv, Ended, Arriving, Threads
<1>8. ClaimInv'
  BY <1>1, <1>0 DEF TypeOK, Inv, ClaimInv, JoinPC, DetachPC, Arriving, ReapPC
<1>9. JoinInv'
  BY <1>1, ThreadsAssumption DEF Join, Claim, TypeOK, Inv, JoinInv, WillStart,
     FromInv, ClaimInv, ReapPC, JoinPC, DetachPC, Threads
<1>10. BootInv'
  BY <1>1, ThreadsAssumption DEF Join, Claim, TypeOK, Inv, BootInv, Threads
<1>11. IdleInv'
  BY <1>1, ThreadsAssumption DEF Join, Claim, TypeOK, Inv, IdleInv, Threads
<1>12. QED
  BY <1>2, <1>3, <1>4, <1>5, <1>6, <1>7, <1>8, <1>9, <1>10, <1>11 DEF Inv

LEMMA DetachInv ==
  ASSUME RunToCompletion, TypeOK, Inv, NEW t \in Threads, NEW w \in Workers, Detach(t, w)
  PROVE  TypeOK' /\ Inv'
<1>1. Running' = Running /\ Ready' = Ready /\ Held' = Held /\ Pending' = Pending
  BY DEF Detach, Claim, Running, Ready, Held, Pending
<1>0. /\ pc' = [pc EXCEPT ![t] = "detach"] /\ target' = [target EXCEPT ![t] = w]
      /\ w \notin claimed /\ claimed' = claimed \cup {w} /\ joiner' = joiner
      /\ cont' = cont /\ joiner[w] = NoThread /\ w # NoThread
  BY ThreadsAssumption DEF Detach, Claim, RunToCompletion, Threads
<1>2. TypeOK'
  BY <1>1, SetTypes, ThreadsAssumption DEF Detach, Claim, Inv, TypeOK, FromInv,
     ClaimInv, PC, ReapPC, JoinPC, DetachPC, States, Arriving, Threads
<1>3. QueueInv'
  BY <1>1, SetTypes DEF Detach, Claim, TypeOK, Inv, QueueInv
<1>4. CpuInv'
  BY <1>1, ThreadsAssumption DEF Detach, Claim, TypeOK, Inv, CpuInv, FromInv,
     Arriving, ReapPC, OneProcessorPerThread, DyingInv, Ended
<1>5. PendingInv'
  BY <1>1, SetTypes DEF Detach, Claim, TypeOK, Inv, PendingInv, FromInv, Ended,
     ReapPC, DyingInv
<1>6. DyingInv'
  BY <1>1 DEF Detach, Claim, TypeOK, Inv, DyingInv, FromInv, CpuInv, Ended, ReapPC,
     JoinInv, Arriving
<1>7. FromInv'
  BY <1>1, ThreadsAssumption DEF Detach, Claim, TypeOK, Inv, FromInv, ReapPC,
     DyingInv, CpuInv, Ended, Arriving, Threads
<1>8. ClaimInv'
  BY <1>1, <1>0 DEF TypeOK, Inv, ClaimInv, JoinPC, DetachPC, Arriving, ReapPC
<1>9. JoinInv'
  BY <1>1, ThreadsAssumption DEF Detach, Claim, TypeOK, Inv, JoinInv, WillStart,
     FromInv, ClaimInv, ReapPC, JoinPC, DetachPC, Threads
<1>10. BootInv'
  BY <1>1, ThreadsAssumption DEF Detach, Claim, TypeOK, Inv, BootInv, Threads
<1>11. IdleInv'
  BY <1>1, ThreadsAssumption DEF Detach, Claim, TypeOK, Inv, IdleInv, Threads
<1>12. QED
  BY <1>2, <1>3, <1>4, <1>5, <1>6, <1>7, <1>8, <1>9, <1>10, <1>11 DEF Inv

LEMMA HasJoinerInv ==
  ASSUME RunToCompletion, TypeOK, Inv, NEW t \in Threads, NEW w \in Workers, HasJoiner(t, w)
  PROVE  TypeOK' /\ Inv'
<1>1. Running' = Running /\ Ready' = Ready /\ Held' = Held /\ Pending' = Pending
  BY DEF HasJoiner, Claim, Running, Ready, Held, Pending
<1>2. TypeOK'
  BY <1>1, SetTypes, ThreadsAssumption DEF HasJoiner, Claim, Inv, TypeOK, FromInv,
     ClaimInv, PC, ReapPC, JoinPC, DetachPC, States, Arriving, Threads
<1>3. QueueInv'
  BY <1>1, SetTypes DEF HasJoiner, Claim, TypeOK, Inv, QueueInv
<1>4. CpuInv'
  BY <1>1, ThreadsAssumption DEF HasJoiner, Claim, TypeOK, Inv, CpuInv, FromInv,
     Arriving, ReapPC, OneProcessorPerThread, DyingInv, Ended
<1>5. PendingInv'
  BY <1>1, SetTypes DEF HasJoiner, Claim, TypeOK, Inv, PendingInv, FromInv, Ended,
     ReapPC, DyingInv
<1>6. DyingInv'
  BY <1>1 DEF HasJoiner, Claim, TypeOK, Inv, DyingInv, FromInv, CpuInv, Ended,
     ReapPC, JoinInv, Arriving
<1>7. FromInv'
  BY <1>1, ThreadsAssumption DEF HasJoiner, Claim, TypeOK, Inv, FromInv, ReapPC,
     DyingInv, CpuInv, Ended, Arriving, Threads
<1>8. ClaimInv'
  BY <1>1, ThreadsAssumption DEF HasJoiner, Claim, TypeOK, Inv, ClaimInv, JoinPC,
     DetachPC, Arriving, ReapPC, RunToCompletion
<1>9. JoinInv'
  BY <1>1, ThreadsAssumption DEF HasJoiner, Claim, TypeOK, Inv, JoinInv, WillStart,
     FromInv, ClaimInv, ReapPC, JoinPC, DetachPC, Threads
<1>10. BootInv'
  BY <1>1, ThreadsAssumption DEF HasJoiner, Claim, TypeOK, Inv, BootInv, Threads
<1>11. IdleInv'
  BY <1>1, ThreadsAssumption DEF HasJoiner, Claim, TypeOK, Inv, IdleInv, Threads
<1>12. QED
  BY <1>2, <1>3, <1>4, <1>5, <1>6, <1>7, <1>8, <1>9, <1>10, <1>11 DEF Inv

-----------------------------------------------------------------------------
(* The actions that change the ready queue or the processors. *)

LEMMA SwitchSelfInv ==
  ASSUME RunToCompletion, TypeOK, Inv, NEW t \in Threads, SwitchSelf(t)
  PROVE  TypeOK' /\ Inv'
<1>1. Running' = Running /\ Ready' = Ready
  BY DEF SwitchSelf, Running, Ready
<1>2. /\ t \notin Workers /\ t \in Running /\ t \in Held /\ t \notin Ready
      /\ Held' = Held \ {t}
  BY SetTypes, ThreadsAssumption DEF SwitchSelf, TypeOK, Inv, QueueInv, PendingInv,
     Held, Pending
<1>3. Pending' = Pending \ {t}
  BY <1>1, <1>2 DEF Pending
<1>4. /\ pc' = [pc EXCEPT ![t] = cont[t]] /\ cont[t] \in {"user", "joined"}
      /\ to' = [to EXCEPT ![t] = NoThread] /\ pc[t] = "switch"
      /\ UNCHANGED <<state, joiner, cur, from, stopping, cont, target, claimed>>
  BY <1>2 DEF SwitchSelf, TypeOK, Inv, DyingInv
<1>5. TypeOK'
  BY <1>4, ThreadsAssumption DEF TypeOK, SwitchSelf, PC, JoinPC
<1>6. QueueInv'
  <2>1. \A v \in Threads : to'[v] = IF v = t THEN NoThread ELSE to[v]
    BY <1>4 DEF TypeOK
  <2>2. \A v \in Threads : pc'[v] = "switch" <=> pc[v] = "switch" /\ v # t
    BY <1>4 DEF TypeOK
  <2>3. QED
    BY <1>1, <1>2, <2>1, <2>2 DEF Inv, QueueInv, SwitchSelf
<1>7. CpuInv'
  BY <1>1, <1>2, <1>4 DEF TypeOK, Inv, CpuInv, OneProcessorPerThread, Arriving,
     ReapPC
<1>8. PendingInv'
  BY <1>1, <1>3, <1>4, SetTypes DEF TypeOK, Inv, PendingInv, Pending
<1>9. DyingInv'
  BY <1>2, <1>4 DEF TypeOK, Inv, DyingInv
<1>10. FromInv'
  BY <1>1, <1>4 DEF TypeOK, Inv, FromInv, ReapPC
<1>11. ClaimInv'
  BY <1>4 DEF TypeOK, Inv, ClaimInv, JoinPC, DetachPC, Arriving, ReapPC
<1>12. JoinInv'
  BY <1>1, <1>2, <1>3, <1>4, ThreadsAssumption DEF TypeOK, Inv, JoinInv, WillStart,
     Pending, Threads
<1>13. BootInv'
  BY <1>4 DEF TypeOK, Inv, BootInv
<1>14. IdleInv'
  BY <1>1, <1>2, <1>3, <1>4 DEF TypeOK, Inv, IdleInv, Threads
<1>15. QED
  BY <1>5, <1>6, <1>7, <1>8, <1>9, <1>10, <1>11, <1>12, <1>13, <1>14 DEF Inv

LEMMA YieldInv ==
  ASSUME RunToCompletion, TypeOK, Inv, NEW t \in Threads, Yield(t)
  PROVE  TypeOK' /\ Inv'
<1>1. Running' = Running /\ Held' = Held
  BY DEF Yield, Running, Held
<1>2. /\ t \in Running /\ pc[t] = "user" /\ t \notin Pending /\ t \notin Workers
      /\ state[t] = "RUNNING"
  BY ThreadsAssumption DEF Yield, RunToCompletion, TypeOK, Inv, PendingInv, CpuInv,
     Arriving, ReapPC, Threads
<1>3. /\ Ready' = Ready \cup {t} /\ Pending' = Pending \cup {t}
      /\ (\A i, j \in DOMAIN readyQueue : readyQueue[i] = readyQueue[j] => i = j)'
  BY <1>1, <1>2, ReadyAppend DEF Yield, TypeOK, Inv, Pending
<1>4. /\ pc' = [pc EXCEPT ![t] = "stop"] /\ stopping' = [stopping EXCEPT ![t] = "RUNABLE"]
      /\ cont' = [cont EXCEPT ![t] = "user"]
      /\ UNCHANGED <<state, joiner, cur, from, to, target, claimed>>
  BY DEF Yield
<1>5. TypeOK'
  <2>1. yields' \in [Threads -> Nat]
    <3>1. yields \in [Threads -> Nat] /\ t \in Threads
      BY DEF TypeOK
    <3>2. yields' = yields \/ yields' = [yields EXCEPT ![t] = @ + 1]
      BY DEF Yield
    <3>3. QED
      BY <3>1, <3>2
  <2>2. readyQueue' \in Seq(Threads)
    BY AppendProperties DEF TypeOK, Yield
  <2>3. QED
    BY <1>4, <2>1, <2>2 DEF TypeOK, Yield, PC
<1>6. QueueInv'
  BY <1>1, <1>2, <1>3, <1>4 DEF TypeOK, Inv, QueueInv, Pending
<1>7. CpuInv'
  BY <1>1, <1>2, <1>4 DEF TypeOK, Inv, CpuInv, OneProcessorPerThread, Arriving,
     ReapPC
<1>8. PendingInv'
  BY <1>1, <1>2, <1>3, <1>4, SetTypes DEF TypeOK, Inv, PendingInv, Pending, Ended
<1>9. DyingInv'
  BY <1>2, <1>4 DEF TypeOK, Inv, DyingInv
<1>10. FromInv'
  BY <1>1, <1>2, <1>4 DEF TypeOK, Inv, FromInv, ReapPC
<1>11. ClaimInv'
  BY <1>4 DEF TypeOK, Inv, ClaimInv, JoinPC, DetachPC, Arriving, ReapPC
<1>12. JoinInv'
  BY <1>1, <1>2, <1>3, <1>4, ThreadsAssumption DEF TypeOK, Inv, JoinInv, WillStart,
     Threads
<1>13. BootInv'
  BY <1>4 DEF TypeOK, Inv, BootInv
<1>14. IdleInv'
  BY <1>1, <1>2, <1>3, <1>4 DEF TypeOK, Inv, IdleInv, Threads
<1>15. QED
  BY <1>5, <1>6, <1>7, <1>8, <1>9, <1>10, <1>11, <1>12, <1>13, <1>14 DEF Inv

LEMMA CreateInv ==
  ASSUME RunToCompletion, TypeOK, Inv, NEW t \in Threads, NEW w \in Workers, Create(t, w)
  PROVE  TypeOK' /\ Inv'
<1>1. Running' = Running /\ Held' = Held
  BY DEF Create, Running, Held
<1>2. /\ w \in Threads /\ w \notin Pending /\ w \notin Running /\ pc[w] = "switched"
      /\ w \notin Procs \cup {Base}
  BY ThreadsAssumption DEF Create, TypeOK, Inv, PendingInv, CpuInv, DyingInv,
     Threads, Ended
<1>3. /\ Ready' = Ready \cup {w} /\ Pending' = Pending \cup {w}
      /\ (\A i, j \in DOMAIN readyQueue : readyQueue[i] = readyQueue[j] => i = j)'
  BY <1>1, <1>2, ReadyAppend DEF Create, TypeOK, Inv, Pending
<1>4. /\ state' = [state EXCEPT ![w] = "NASCENT"] /\ state[w] = "UNBORN"
      /\ UNCHANGED <<pc, stopping, cont, joiner, cur, from, to, target, claimed>>
  BY DEF Create
<1>5. TypeOK'
  BY <1>2, <1>4, AppendProperties DEF TypeOK, Create, States
<1>6. QueueInv'
  BY <1>1, <1>2, <1>3, <1>4 DEF TypeOK, Inv, QueueInv, Pending
<1>7. CpuInv'
  BY <1>1, <1>2, <1>4 DEF TypeOK, Inv, CpuInv, OneProcessorPerThread, Arriving,
     ReapPC
<1>8. PendingInv'
  BY <1>1, <1>2, <1>3, <1>4, SetTypes DEF TypeOK, Inv, PendingInv, Pending, Ended
<1>9. DyingInv'
  BY <1>2, <1>4 DEF TypeOK, Inv, DyingInv, Ended
<1>10. FromInv'
  BY <1>1, <1>4 DEF TypeOK, Inv, FromInv, ReapPC, Threads
<1>11. ClaimInv'
  BY <1>4 DEF TypeOK, Inv, ClaimInv, JoinPC, DetachPC, Arriving, ReapPC
<1>12. JoinInv'
  BY <1>1, <1>2, <1>3, <1>4, ThreadsAssumption DEF TypeOK, Inv, JoinInv, WillStart,
     Threads
<1>13. BootInv'
  BY <1>2, <1>4 DEF TypeOK, Inv, BootInv, Threads
<1>14. IdleInv'
  BY <1>1, <1>2, <1>3, <1>4 DEF TypeOK, Inv, IdleInv, Threads
<1>15. QED
  BY <1>5, <1>6, <1>7, <1>8, <1>9, <1>10, <1>11, <1>12, <1>13, <1>14 DEF Inv

LEMMA ReapEnqueueInv ==
  ASSUME RunToCompletion, TypeOK, Inv, NEW t \in Threads, ReapEnqueue(t)
  PROVE  TypeOK' /\ Inv'
<1>1. Running' = Running /\ Held' = Held
  BY DEF ReapEnqueue, Running, Held
<1>2. /\ t \in Running /\ pc[t] = "reapEnqueue" /\ from[t] \in Workers
      /\ state[from[t]] = "DYING" /\ joiner[from[t]] = Base
  BY DEF ReapEnqueue, TypeOK, Inv, FromInv, JoinInv, ReapPC
<1>a. \A u \in Threads : from[u] = from[t] => u = t
  BY <1>2 DEF Inv, FromInv
<1>b. WillStart(from[t])
  BY <1>2, <1>a DEF WillStart
<1>c. /\ target[Base] = from[t] /\ Base \notin Pending /\ Base \in Threads
      /\ \/ pc[Base] \in {"joinUnlock", "stop", "switch"}
         \/ pc[Base] = "switched" /\ Base \notin Running
      /\ Base \notin Workers
  BY <1>2, <1>b, ThreadsAssumption DEF Inv, JoinInv, Threads
<1>d. state[Base] \notin Ended \cup {"UNBORN"}
  BY <1>c, <1>2, ThreadsAssumption DEF Inv, CpuInv, DyingInv, BootInv, TypeOK,
     Ended, Threads
<1>3. /\ Ready' = Ready \cup {Base} /\ Pending' = Pending \cup {Base}
      /\ (\A i, j \in DOMAIN readyQueue : readyQueue[i] = readyQueue[j] => i = j)'
  BY <1>1, <1>2, <1>c, ReadyAppend DEF ReapEnqueue, TypeOK, Inv, Pending
<1>4. /\ pc' = [pc EXCEPT ![t] = "reapDead"] /\ t # Base
      /\ UNCHANGED <<state, stopping, cont, joiner, cur, from, to, target, claimed>>
  BY <1>2, <1>c DEF ReapEnqueue
<1>5. TypeOK'
  BY <1>2, <1>c, <1>4, AppendProperties DEF TypeOK, ReapEnqueue, PC, ReapPC
<1>6. QueueInv'
  BY <1>1, <1>2, <1>c, <1>3, <1>4 DEF TypeOK, Inv, QueueInv, Pending
<1>7. CpuInv'
  BY <1>1, <1>2, <1>4 DEF TypeOK, Inv, CpuInv, OneProcessorPerThread, Arriving,
     ReapPC
<1>8. PendingInv'
  BY <1>1, <1>2, <1>c, <1>d, <1>3, <1>4, SetTypes DEF TypeOK, Inv, PendingInv,
     Pending
<1>9. DyingInv'
  BY <1>2, <1>4 DEF TypeOK, Inv, DyingInv
<1>10. FromInv'
  BY <1>1, <1>2, <1>4 DEF TypeOK, Inv, FromInv, ReapPC
<1>11. ClaimInv'
  BY <1>2, <1>4 DEF TypeOK, Inv, ClaimInv, JoinPC, DetachPC, Arriving, ReapPC
<1>12. JoinInv'
  BY <1>1, <1>2, <1>a, <1>b, <1>c, <1>3, <1>4 DEF TypeOK, Inv, JoinInv, WillStart
<1>13. BootInv'
  BY <1>2, <1>4 DEF TypeOK, Inv, BootInv
<1>14. IdleInv'
  BY <1>1, <1>2, <1>3, <1>4 DEF TypeOK, Inv, IdleInv, Threads
<1>15. QED
  BY <1>5, <1>6, <1>7, <1>8, <1>9, <1>10, <1>11, <1>12, <1>13, <1>14 DEF Inv

LEMMA SwitchInv ==
  ASSUME RunToCompletion, TypeOK, Inv, NEW p \in Procs, Switch(p)
  PROVE  TypeOK' /\ Inv'
<1> DEFINE t == cur[p]
           u == to[t]
<1>1. /\ t \in Threads /\ t \in Running /\ u \in Held /\ u \in Threads /\ u # t
      /\ pc[t] = "switch" /\ state[t] = "RUNNING" /\ u \notin Ready
  <2>1. t \in Threads /\ t \in Running /\ pc[t] = "switch" /\ u # t
    BY SetTypes DEF Switch, Running, TypeOK
  <2>2. u \in Held /\ u \in Threads /\ u \notin Ready
    BY <2>1, SetTypes DEF Inv, QueueInv
  <2>3. state[t] = "RUNNING"
    BY <2>1, SetTypes DEF Inv, CpuInv, Arriving, ReapPC
  <2>4. QED
    BY <2>1, <2>2, <2>3
<1>2. u \notin Running
  BY <1>1, SetTypes DEF Switch, MayDispatch, Inv, PendingInv, CpuInv, Pending,
     Arriving, ReapPC
<1>3. /\ Ready' = Ready /\ Held' = Held \ {u} /\ Pending' = Pending \ {u}
      /\ NoThread \notin Pending /\ u \in Pending
  BY <1>1, SetTypes, ThreadsAssumption DEF Switch, TypeOK, Inv, QueueInv, Ready,
     Held, Pending
<1>4. /\ state' = [state EXCEPT ![t] = stopping[t]] /\ cur' = [cur EXCEPT ![p] = u]
      /\ from' = [from EXCEPT ![u] = t] /\ to' = [to EXCEPT ![t] = NoThread]
      /\ pc' = [pc EXCEPT ![t] = IF stopping[t] = "DYING" THEN "gone" ELSE "switched"]
      /\ UNCHANGED <<joiner, stopping, cont, target, claimed>>
  BY DEF Switch
<1>a. /\ state[u] \notin Ended \cup {"UNBORN"} /\ pc[u] = "switched"
      /\ stopping[t] = "DYING" <=> t \in Workers
      /\ stopping[t] \in {"RUNABLE", "BLOCKED", "DYING"}
  BY <1>1, <1>2, <1>3 DEF TypeOK, Inv, PendingInv, CpuInv, DyingInv
<1>b. \A x \in Threads : x \in Running' <=> (x \in Running /\ x # t) \/ x = u
  BY <1>1, <1>2, <1>4, ThreadsAssumption DEF TypeOK, Inv, CpuInv,
     OneProcessorPerThread, Running
<1> HIDE DEF u, t
<1>5. TypeOK'
  BY <1>1, <1>4, <1>a, ThreadsAssumption DEF TypeOK, Switch, PC, States
<1>6. QueueInv'
  <2>1. \A v \in Threads : to'[v] = IF v = t THEN NoThread ELSE to[v]
    BY <1>1, <1>4 DEF TypeOK
  <2>2. \A v \in Threads : pc'[v] = "switch" <=> pc[v] = "switch" /\ v # t
    BY <1>1, <1>4 DEF TypeOK
  <2>3. readyQueue' = readyQueue
    BY DEF Switch
  <2>4. QED
    BY <1>3, <2>1, <2>2, <2>3 DEF Inv, QueueInv
<1>7. CpuInv'
  BY <1>1, <1>2, <1>4, <1>a, <1>b, ThreadsAssumption DEF TypeOK, Inv, CpuInv,
     OneProcessorPerThread, Arriving, ReapPC, Running
<1>8. PendingInv'
  BY <1>1, <1>3, <1>4, <1>a, <1>b, SetTypes DEF TypeOK, Inv, PendingInv, Pending,
     Ended
<1>9. DyingInv'
  BY <1>1, <1>4, <1>a DEF TypeOK, Inv, DyingInv, Ended
<1>10. FromInv'
  BY <1>1, <1>4, <1>a, <1>b, ThreadsAssumption DEF TypeOK, Inv, FromInv, DyingInv,
     ReapPC, Ended
<1>11. ClaimInv'
  BY <1>1, <1>4, <1>a DEF TypeOK, Inv, ClaimInv, JoinPC, DetachPC, Arriving, ReapPC
<1>12. JoinInv'
  <2>2. \A x \in Threads \ {u} : from'[x] = from[x]
    BY <1>1, <1>4 DEF TypeOK
  <2>3. \A x \in Threads : pc'[x] \in ReapPC => from'[x] = from[x] /\ pc'[x] = pc[x]
    BY <1>1, <1>4, <1>a, <2>2 DEF TypeOK, ReapPC
  <2>4. ASSUME NEW w \in Threads, WillStart(w)' PROVE WillStart(w)
    <3>1. state[w] # "DEAD"
      BY <1>1, <1>4, <2>4 DEF TypeOK, WillStart
    <3>2. ASSUME NEW x \in Threads, pc[x] = "reapDead", from[x] = w PROVE FALSE
      BY <1>1, <1>4, <1>a, <2>2, <2>4, <3>2 DEF TypeOK, WillStart
    <3>3. QED
      BY <1>4, <2>4, <3>1, <3>2 DEF WillStart
  <2>5. ASSUME NEW w \in Threads, WillStart(w)'
        PROVE  /\ target'[Base] = w /\ Base \notin Pending'
               /\ \/ pc'[Base] \in {"joinUnlock", "stop", "switch"}
                  \/ pc'[Base] = "switched" /\ Base \notin Running'
    <3>1. /\ target[Base] = w /\ Base \notin Pending /\ Base # u /\ Base \in Threads
          /\ \/ pc[Base] \in {"joinUnlock", "stop", "switch"}
             \/ pc[Base] = "switched" /\ Base \notin Running
      BY <1>3, <2>4, <2>5 DEF Inv, JoinInv, Threads
    <3>2. Base = t => pc'[Base] = "switched"
      BY <1>1, <1>4, <1>a, <3>1, ThreadsAssumption DEF TypeOK
    <3>3. Base # t => pc'[Base] = pc[Base]
      BY <1>1, <1>4, <3>1 DEF TypeOK
    <3>4. QED
      BY <1>3, <1>4, <1>b, <3>1, <3>2, <3>3
  <2>6. QED
    BY <1>4, <2>3, <2>5 DEF Inv, JoinInv, ReapPC
<1>13. BootInv'
  BY <1>1, <1>4, <1>a, ThreadsAssumption DEF TypeOK, Inv, BootInv, Threads, t
<1>14. IdleInv'
  BY <1>1, <1>3, <1>4, <1>a, <1>b, ThreadsAssumption DEF TypeOK, Inv, IdleInv,
     Threads
<1>15. QED
  BY <1>5, <1>6, <1>7, <1>8, <1>9, <1>10, <1>11, <1>12, <1>13, <1>14 DEF Inv

LEMMA SpawnPthreadInv ==
  ASSUME RunToCompletion, TypeOK, Inv, NEW p \in Procs, SpawnPthread(p)
  PROVE  TypeOK' /\ Inv'
<1>1. /\ state[p] = "UNBORN" /\ cur[p] = NoThread /\ p \in Threads /\ p \notin Workers
      /\ p \notin Running /\ p \notin Pending /\ pc[p] = "switched" /\ p # Base
  BY ThreadsAssumption DEF SpawnPthread, TypeOK, Inv, BootInv, CpuInv, PendingInv,
     DyingInv, Threads, Ended
<1>2. \A x \in Threads : x \in Running' <=> x \in Running \/ x = p
  BY <1>1, ThreadsAssumption DEF SpawnPthread, TypeOK, Running
<1>3. /\ Ready' = Ready /\ Held' = Held /\ Pending' = Pending
  BY DEF SpawnPthread, Ready, Held, Pending
<1>4. /\ state' = [state EXCEPT ![p] = "RUNNING"] /\ cur' = [cur EXCEPT ![p] = p]
      /\ pc' = [pc EXCEPT ![p] = "user"]
      /\ UNCHANGED <<readyQueue, joiner, from, to, stopping, cont, target, claimed>>
  BY DEF SpawnPthread
<1>5. TypeOK'
  BY <1>1, <1>4, ThreadsAssumption DEF TypeOK, SpawnPthread, PC, States
<1>6. QueueInv'
  BY <1>1, <1>3, <1>4 DEF TypeOK, Inv, QueueInv
<1>7. CpuInv'
  BY <1>1, <1>2, <1>4, ThreadsAssumption DEF TypeOK, Inv, CpuInv,
     OneProcessorPerThread, Arriving, ReapPC, Running, Ended
<1>8. PendingInv'
  BY <1>1, <1>2, <1>3, <1>4, SetTypes DEF TypeOK, Inv, PendingInv, Pending
<1>9. DyingInv'
  BY <1>1, <1>4 DEF TypeOK, Inv, DyingInv, Ended
<1>10. FromInv'
  BY <1>1, <1>2, <1>4, ThreadsAssumption DEF TypeOK, Inv, FromInv, ReapPC, Threads
<1>11. ClaimInv'
  BY <1>1, <1>4 DEF TypeOK, Inv, ClaimInv, JoinPC, DetachPC, Arriving, ReapPC
<1>12. JoinInv'
  BY <1>1, <1>2, <1>3, <1>4, ThreadsAssumption DEF TypeOK, Inv, JoinInv, WillStart,
     Threads
<1>13. BootInv'
  BY <1>1, <1>4, ThreadsAssumption DEF TypeOK, Inv, BootInv, Threads
<1>14. IdleInv'
  BY <1>1, <1>2, <1>3, <1>4 DEF TypeOK, Inv, IdleInv, Threads
<1>15. QED
  BY <1>5, <1>6, <1>7, <1>8, <1>9, <1>10, <1>11, <1>12, <1>13, <1>14 DEF Inv

-----------------------------------------------------------------------------
LEMMA InitInv == Init => IInv
<1> SUFFICES ASSUME Init PROVE IInv
  OBVIOUS
<1>1. /\ readyQueue = <<BootProc>> /\ BootProc \in Threads /\ Base \in Threads /\ BootProc # Base
      /\ BootProc \notin Workers /\ Base \notin Workers /\ Base \notin Procs /\ BootProc \in Procs
      /\ NoThread \notin Threads /\ NoThread \notin Workers
  BY ThreadsAssumption DEF Init, BootQueue, Threads
<1>2. Held = {}
  BY DEF Init, Held
<1>3. Ready = {BootProc} /\ Pending = {BootProc}
  BY <1>1, <1>2 DEF Ready, Pending
<1>4. \A x \in Threads : x \in Running <=> x = Base
  BY <1>1 DEF Init, Running
<1>5. TypeOK
  BY <1>1 DEF Init, TypeOK, States, PC, ReapPC, JoinPC, DetachPC
<1>6. QueueInv
  BY <1>1, <1>2 DEF Init, QueueInv
<1>7. CpuInv
  BY <1>1, <1>4, SetTypes, <1>5 DEF Init, CpuInv, OneProcessorPerThread, Arriving,
     ReapPC, Ended
<1>8. PendingInv /\ DyingInv
  BY <1>1, <1>3, <1>4 DEF Init, PendingInv, DyingInv, Ended
<1>9. FromInv
  BY <1>1, <1>4 DEF Init, FromInv, ReapPC
<1>10. ClaimInv
  BY <1>1 DEF Init, ClaimInv, JoinPC, DetachPC
<1>11. JoinInv
  BY <1>1 DEF Init, JoinInv, WillStart
<1>12. BootInv /\ IdleInv
  BY <1>1, <1>3 DEF Init, BootInv, IdleInv, Threads
<1>13. QED
  BY <1>5, <1>6, <1>7, <1>8, <1>9, <1>10, <1>11, <1>12 DEF IInv, Inv

LEMMA InitDoneInv ==
  ASSUME TypeOK, Inv, InitDone
  PROVE  TypeOK' /\ Inv'
<1>1. /\ Running' = Running /\ Ready' = Ready /\ Held' = Held /\ Pending' = Pending
      /\ pc' = [pc EXCEPT ![Base] = "user"] /\ pc[Base] = "init" /\ Base \in Running /\ Base \in Threads
      /\ UNCHANGED <<readyQueue, state, joiner, cur, from, to, stopping, cont, target, claimed>>
  BY DEF InitDone, Running, Ready, Held, Pending, Threads
<1>2. TypeOK'
  BY <1>1 DEF InitDone, TypeOK, PC
<1>3. QueueInv' /\ BootInv' /\ IdleInv'
  BY <1>1 DEF TypeOK, Inv, QueueInv, BootInv, IdleInv
<1>4. CpuInv' /\ PendingInv' /\ DyingInv'
  BY <1>1, SetTypes DEF TypeOK, Inv, CpuInv, PendingInv, DyingInv,
     OneProcessorPerThread, Arriving, ReapPC
<1>5. FromInv' /\ ClaimInv'
  BY <1>1 DEF TypeOK, Inv, FromInv, ClaimInv, ReapPC, JoinPC, DetachPC, Arriving
<1>6. JoinInv'
  BY <1>1 DEF TypeOK, Inv, JoinInv, WillStart
<1>7. QED
  BY <1>2, <1>3, <1>4, <1>5, <1>6 DEF Inv

LEMMA ExitedStays ==
  ASSUME Exited, Next
  PROVE  UNCHANGED vars
<1>1. \A t \in Threads : t \notin Running
  BY ThreadsAssumption DEF Exited, Running
<1>2. \A t \in Threads : ~Package(t)
  BY <1>1 DEF Package, Reap, Stop, SwitchSelf, FromDying, FromLive, ReapLock,
     ReapFree, ReapStart, ReapEnqueue, ReapNoJoiner, ReapDead, ReapUnlock, Resume,
     JoinLock, JoinWait, JoinDead, JoinUnlock, Joined, DetachLock, DetachSet,
     DetachUnlock, DetachFree, LockTarget, SetJoiner
<1>3. \A t \in Threads : ~Client(t)
  BY <1>1 DEF Client, Yield, Return, Create, Join, Detach, HasJoiner, Claim
<1>4. ~Boot /\ ~MainReturn /\ \A p \in Procs : ~Switch(p)
  BY <1>1 DEF Boot, InitDone, SpawnPthread, MainReturn, Switch, Exited, Threads
<1>5. QED
  BY <1>2, <1>3, <1>4 DEF Next, AfterExit

LEMMA NextInv ==
  ASSUME RunToCompletion, IInv, [Next]_vars
  PROVE  IInv'
<1>1. CASE UNCHANGED vars
  <2>1. /\ Running' = Running /\ Ready' = Ready /\ Held' = Held /\ Pending' = Pending
    BY <1>1 DEF vars, Running, Ready, Held, Pending
  <2>2. TypeOK' /\ QueueInv'
    BY <1>1, <2>1 DEF vars, IInv, TypeOK, QueueInv
  <2>3. CASE Exited
    BY <1>1, <2>2, <2>3 DEF vars, Exited, IInv
  <2>4. CASE Inv
    <3>1. CpuInv' /\ PendingInv' /\ DyingInv' /\ FromInv'
      BY <1>1, <2>1, <2>4 DEF vars, Inv, CpuInv, PendingInv, DyingInv, FromInv,
         OneProcessorPerThread
    <3>2. ClaimInv' /\ JoinInv' /\ BootInv' /\ IdleInv'
      BY <1>1, <2>1, <2>4 DEF vars, Inv, ClaimInv, JoinInv, WillStart, BootInv,
         IdleInv
    <3>3. QED
      BY <2>2, <3>1, <3>2 DEF IInv, Inv
  <2>5. QED
    BY <2>3, <2>4 DEF IInv
<1>2. CASE Exited /\ Next
  BY <1>1, <1>2, ExitedStays
<1>3. CASE Inv /\ MainReturn
  <2>1. TypeOK'
    BY <1>3 DEF MainReturn, IInv, TypeOK
  <2>2. QueueInv'
    BY <1>3 DEF MainReturn, IInv, QueueInv, Ready, Held
  <2>3. Exited'
    BY <1>3 DEF MainReturn, Exited
  <2>4. QED
    BY <2>1, <2>2, <2>3 DEF IInv
<1>4. CASE Inv /\ \E t \in Threads : Package(t)
  <2>1. PICK t \in Threads : Package(t)
    BY <1>4
  <2>2. Reap(t) => IInv'
    BY <1>4, ReapLockInv, ReapFreeInv, ReapStartInv, ReapEnqueueInv,
       ReapNoJoinerInv, ReapDeadInv,
       ReapUnlockInv DEF Reap, IInv, Inv
  <2>3. QED
    BY <1>4, <2>1, <2>2, StopInv, SwitchSelfInv, FromDyingInv, FromLiveInv,
       ResumeInv, JoinLockInv, JoinWaitInv, JoinDeadInv, JoinUnlockInv, JoinedInv,
       DetachLockInv, DetachSetInv, DetachUnlockInv, DetachFreeInv DEF Package,
       IInv, Inv
<1>5. CASE Inv /\ \E t \in Threads : Client(t)
  BY <1>5, YieldInv, ReturnInv, CreateInv, JoinCallInv, DetachInv, HasJoinerInv DEF
     Client, IInv, Inv
<1>6. CASE Inv /\ \E p \in Procs : Switch(p)
  BY <1>6, SwitchInv DEF IInv, Inv
<1>7. CASE Inv /\ Boot
  BY <1>7, InitDoneInv, SpawnPthreadInv DEF Boot, IInv, Inv
<1>8. CASE Inv /\ AfterExit
  BY <1>1, <1>8 DEF AfterExit
<1>9. QED
  BY <1>1, <1>2, <1>3, <1>4, <1>5, <1>6, <1>7, <1>8 DEF IInv, Next

(* The invariant itself: under RunToCompletion every reachable state       *)
(* satisfies it.                                                           *)
THEOREM Invariance ==
  ASSUME RunToCompletion
  PROVE  Spec => []IInv
BY InitInv, NextInv, PTL DEF Spec

(* Every variable of the thread package keeps its type; in particular a    *)
(* thread that reaps or joins has a thread to reap or to join.             *)
THEOREM TypeCorrect ==
  ASSUME RunToCompletion
  PROVE  Spec => []TypeOK
<1>1. IInv => TypeOK
  BY DEF IInv
<1>2. QED
  BY <1>1, Invariance, PTL

(* No two processors ever run the same thread, although a thread is in the *)
(* ready queue before it has left its processor.                           *)
THEOREM MutualExclusionOfStacks ==
  ASSUME RunToCompletion
  PROVE  Spec => []OneProcessorPerThread
<1>1. IInv => OneProcessorPerThread
  BY DEF IInv, Inv, CpuInv, Exited, OneProcessorPerThread
<1>2. QED
  BY <1>1, Invariance, PTL

(* No thread is handed out by the ready queue to two processors.           *)
THEOREM QueueHandsOutOnce ==
  ASSUME RunToCompletion
  PROVE  Spec => []QueuedOnce
<1>1. IInv => QueuedOnce
  <2> SUFFICES ASSUME IInv PROVE QueuedOnce
    OBVIOUS
  <2>1. \A t \in Threads : Switching(t) => to[t] # NoThread
    BY DEF IInv, QueueInv, Switching, At
  <2>2. \A t \in Threads : Switching(t) => to[t] \in Held
    BY <2>1 DEF Held
  <2>3. QED
    BY <2>1, <2>2 DEF IInv, QueueInv, QueuedOnce
<1>2. QED
  BY <1>1, Invariance, PTL

(* A thread that died is reaped by one processor.                          *)
THEOREM OneReaper ==
  ASSUME RunToCompletion
  PROVE  Spec => []ReapedOnce
<1>1. IInv => ReapedOnce
  <2> SUFFICES ASSUME IInv PROVE ReapedOnce
    OBVIOUS
  <2>1. CASE Exited
    BY <2>1, ThreadsAssumption DEF Exited, ReapedOnce, Running
  <2>2. CASE Inv
    BY <2>2 DEF Inv, FromInv, ReapedOnce, ReapPC
  <2>3. QED
    BY <2>1, <2>2 DEF IInv
<1>2. QED
  BY <1>1, Invariance, PTL

(* There are as many pthread_base threads as processors, a processor that  *)
(* has nothing to switch to holds none of them, and no other holds two.    *)
LEMMA IdleThreadIsReady ==
  ASSUME cur \in [Procs -> Threads \cup {NoThread}], QueueInv, CpuInv, BootInv, IdleInv,
         NEW t \in Threads, At(t, "stop"), readyQueue = <<>>
  PROVE  FALSE
<1>1. PICK q \in Procs : cur[q] = t
  BY DEF Running
<1>2. NoThread \notin Threads
  BY ThreadsAssumption
<1>3. Ready = {}
  BY DEF Ready
<1> DEFINE Holds(i, p) ==
             \/ p = i /\ cur[p] = NoThread
             \/ cur[p] = i /\ pc[i] \notin {"stop", "switch"}
             \/ cur[p] \in Threads /\ pc[cur[p]] = "switch" /\ to[cur[p]] = i
<1>4. \A i \in Procs : \E p \in Procs : Holds(i, p)
  <2> SUFFICES ASSUME NEW i \in Procs PROVE \E p \in Procs : Holds(i, p)
    OBVIOUS
  <2>1. CASE state[i] = "UNBORN"
    BY <1>2, <2>1 DEF BootInv
  <2>2. CASE i \in Running /\ pc[i] \notin {"stop", "switch"}
    BY <2>2 DEF Running
  <2>3. CASE i \in Held
    <3>1. PICK u \in Threads : to[u] = i /\ to[u] # NoThread
      BY <2>3 DEF Held
    <3>2. pc[u] = "switch" /\ u \in Running
      BY <1>2, <3>1 DEF QueueInv, CpuInv
    <3>3. QED
      BY <3>1, <3>2 DEF Running
  <2>4. QED
    BY <1>2, <1>3, <2>1, <2>2, <2>3 DEF IdleInv, Pending
<1>5. \A i \in Procs : ~Holds(i, q)
  BY <1>1, <1>2
<1>6. \A i, j, p \in Procs : Holds(i, p) /\ Holds(j, p) => i = j
  BY <1>2, ThreadsAssumption DEF Threads
<1> HIDE DEF Holds
<1> DEFINE f == [i \in Procs |-> CHOOSE p \in Procs : Holds(i, p)]
<1>7. \A i \in Procs : f[i] \in Procs \ {q} /\ Holds(i, f[i])
  BY <1>4, <1>5
<1>8. f \in [Procs -> Procs \ {q}] /\ \A i, j \in Procs : f[i] = f[j] => i = j
  BY <1>6, <1>7
<1>9. /\ IsFiniteSet(Procs) /\ IsFiniteSet(Procs \ {q})
      /\ Cardinality(Procs \ {q}) = Cardinality(Procs) - 1
      /\ Cardinality(Procs) \in Nat
  BY <1>1, ThreadsAssumption, FS_RemoveElement, FS_CardinalityType
<1>10. Cardinality(Procs \ {q}) < Cardinality(Procs)
  BY <1>9
<1> HIDE DEF f
<1>11. \E i, j \in Procs : i # j /\ f[i] = f[j]
  BY <1>8, <1>9, <1>10, FS_PigeonHole
<1>12. QED
  BY <1>8, <1>11

(* The assertion of uthread_stop never fails. *)
THEOREM StopAssertion ==
  ASSUME RunToCompletion
  PROVE  Spec => []StopFindsThread
<1>1. IInv => StopFindsThread
  <2> SUFFICES ASSUME IInv, NEW t \in Threads, At(t, "stop"), readyQueue = <<>> PROVE FALSE
    BY DEF StopFindsThread
  <2>1. Inv /\ TypeOK
    BY ThreadsAssumption DEF IInv, Exited, Running
  <2>2. QED
    BY <2>1, IdleThreadIsReady DEF Inv, TypeOK
<1>2. QED
  BY <1>1, Invariance, PTL
-----------------------------------------------------------------------------
(* Joining and the life of a TCB: what main() finds when it comes back     *)
(* from uthread_join, and who may still use a thread that has been freed.  *)

(* The callers of join and detach, and the reapers, that hold the          *)
(* join_spinlock of the thread they work on.                               *)
CallerLocked == {"joinLocked", "joinUnlock", "detachLocked", "detachUnlock"}
ReaperLocked == ReapPC \ {"reap"}

(* A target is set from the call of join or detach to its end; main() was  *)
(* not created, so that it resumes where it stopped.                       *)
Waits(t) == cont[t] = "joined" /\ pc[t] \in {"stop", "switch"} \cup Arriving

TargetInv ==
  /\ state[Base] # "NASCENT"
  /\ \A t \in Threads : target[t] # NoThread => pc[t] \in JoinPC \cup DetachPC \/ Waits(t)

(* A caller and a reaper are not both under the lock of one thread.        *)
LockInv ==
  /\ \A t \in Threads : pc[t] \in CallerLocked => joinLock[target[t]]
  /\ \A t \in Threads : pc[t] \in ReaperLocked => joinLock[from[t]]
  /\ \A t, u \in Threads : pc[t] \in CallerLocked /\ pc[u] \in ReaperLocked
                             => target[t] # from[u]

(* The reaper of a thread that is DEAD has only the unlock left to do.     *)
DeadInv ==
  \A t \in Threads : from[t] \in Workers /\ state[from[t]] = "DEAD" => pc[t] = "reapUnlock"

(* What main() finds when it comes back from its stop in join: it was its  *)
(* target's joiner and was started, or the target was DEAD when it called. *)
ResultInv ==
  /\ pc[Base] = "joinUnlock" \/ Waits(Base) => joiner[target[Base]] = Base
  /\ pc[Base] = "joined" => /\ state[target[Base]] \in Ended
                            /\ \/ joiner[target[Base]] = Base
                               \/ \A t \in Threads : from[t] # target[Base]
  /\ pc[Base] = "joinUnlock" => WillStart(target[Base])
  /\ cont[Base] = "joined" /\ pc[Base] \in {"stop", "switch", "switched"} =>
       \/ WillStart(target[Base])
       \/ Base \in Pending
       \/ Base \in Running /\ pc[Base] = "switched"

(* A freed thread has ended, nobody works for it, and only a joiner that   *)
(* it started can have freed it before its reaper was done.                *)
FreedInv ==
  \A w \in freed :
    /\ w \in claimed /\ state[w] \in Ended
    /\ \A t \in Threads : target[t] # w
    /\ joiner[w] \in Threads \/ \A t \in Threads : from[t] # w

LifeInv == TargetInv /\ LockInv /\ DeadInv /\ ResultInv /\ FreedInv

LEMMA LifeFacts ==
  ASSUME RunToCompletion, TypeOK, Inv
  PROVE  /\ Base \in Threads /\ Base \notin Workers /\ NoThread \notin Threads
         /\ Detached \notin Threads /\ Detached # NoThread
         /\ \A t \in Threads : target[t] # NoThread => target[t] \in Workers /\ target[t] \in Threads
         /\ \A t \in Threads : pc[t] \in JoinPC \cup DetachPC \/ Waits(t)
                               => target[t] \in Workers /\ target[t] \in Threads
         /\ \A t \in Threads : pc[t] \in ReapPC => from[t] \in Workers /\ from[t] \in Threads
         /\ Workers \subseteq Threads
BY ThreadsAssumption DEF Threads, TypeOK, Inv, ClaimInv, FromInv, Waits

LEMMA FromDyingLife ==
  ASSUME RunToCompletion, TypeOK, Inv, LifeInv, NEW t \in Threads, FromDying(t)
  PROVE  LifeInv'
<1>1. Running' = Running /\ Pending' = Pending
  BY DEF FromDying, Running, Ready, Held, Pending
<1>2. TargetInv'
  BY LifeFacts DEF FromDying, TypeOK, Inv, ClaimInv, LifeInv, TargetInv, Waits,
     JoinPC, DetachPC, Arriving, ReapPC
<1>3. LockInv'
  BY LifeFacts DEF FromDying, TypeOK, Inv, FromInv, ClaimInv, LifeInv, LockInv,
     CallerLocked, ReaperLocked, ReapPC, JoinPC, DetachPC
<1>4. DeadInv'
  BY LifeFacts DEF FromDying, TypeOK, Inv, FromInv, CpuInv, LifeInv, DeadInv,
     ReapPC, Ended
<1>5. ResultInv'
  BY <1>1, LifeFacts DEF FromDying, TypeOK, Inv, FromInv, ClaimInv, CpuInv, JoinInv,
     WillStart, LifeInv, ResultInv, Waits, Arriving, ReapPC, JoinPC, Ended
<1>6. FreedInv'
  BY LifeFacts DEF FromDying, TypeOK, Inv, FromInv, ClaimInv, CpuInv, LifeInv,
     FreedInv, LockInv, Ended, ReapPC, JoinPC, DetachPC, CallerLocked, ReaperLocked
<1>7. QED
  BY <1>2, <1>3, <1>4, <1>5, <1>6 DEF LifeInv

LEMMA FromLiveLife ==
  ASSUME RunToCompletion, TypeOK, Inv, LifeInv, NEW t \in Threads, FromLive(t)
  PROVE  LifeInv'
<1>1. Running' = Running /\ Pending' = Pending
  BY DEF FromLive, Running, Ready, Held, Pending
<1>2. TargetInv'
  BY LifeFacts DEF FromLive, TypeOK, Inv, ClaimInv, LifeInv, TargetInv, Waits,
     JoinPC, DetachPC, Arriving, ReapPC
<1>3. LockInv'
  BY LifeFacts DEF FromLive, TypeOK, Inv, FromInv, ClaimInv, LifeInv, LockInv,
     CallerLocked, ReaperLocked, ReapPC, JoinPC, DetachPC
<1>4. DeadInv'
  BY LifeFacts DEF FromLive, TypeOK, Inv, FromInv, CpuInv, LifeInv, DeadInv, ReapPC,
     Ended
<1>5. ResultInv'
  <2>1. \A u \in Threads : from'[u] = IF u = t THEN NoThread ELSE from[u]
    BY DEF FromLive, TypeOK
  <2>2. UNCHANGED <<joiner, target, cont, state, Pending, Running>>
    BY <1>1 DEF FromLive
  <2>3. \A u \in Threads : pc'[u] = IF u = t THEN "resume" ELSE pc[u]
    BY DEF FromLive, TypeOK
  <2>4. WillStart(target[Base]) => WillStart(target[Base])'
    BY <2>1, <2>2, <2>3, LifeFacts DEF WillStart
  <2>5. pc[Base] = "joined" => target[Base] # NoThread
    BY LifeFacts DEF JoinPC
  <2>6. QED
    BY <2>1, <2>2, <2>3, <2>4, <2>5, LifeFacts DEF FromLive, LifeInv, ResultInv,
       Waits, Arriving, ReapPC
<1>6. FreedInv'
  <2>1. \A u \in Threads : from'[u] = IF u = t THEN NoThread ELSE from[u]
    BY DEF FromLive, TypeOK
  <2>2. freed \subseteq Threads /\ NoThread \notin Threads
    BY LifeFacts DEF TypeOK
  <2>3. QED
    BY <2>1, <2>2 DEF FromLive, LifeInv, FreedInv
<1>7. QED
  BY <1>2, <1>3, <1>4, <1>5, <1>6 DEF LifeInv

LEMMA ReapLockLife ==
  ASSUME RunToCompletion, TypeOK, Inv, LifeInv, NEW t \in Threads, ReapLock(t)
  PROVE  LifeInv'
<1>1. Running' = Running /\ Pending' = Pending
  BY DEF ReapLock, Running, Ready, Held, Pending
<1>2. TargetInv'
  BY LifeFacts DEF ReapLock, TypeOK, Inv, ClaimInv, LifeInv, TargetInv, Waits,
     JoinPC, DetachPC, Arriving, ReapPC
<1>3. LockInv'
  BY LifeFacts DEF ReapLock, TypeOK, Inv, FromInv, ClaimInv, LifeInv, LockInv,
     CallerLocked, ReaperLocked, ReapPC, JoinPC, DetachPC
<1>4. DeadInv'
  BY LifeFacts DEF ReapLock, TypeOK, Inv, FromInv, CpuInv, LifeInv, DeadInv, ReapPC,
     Ended
<1>5. ResultInv'
  BY <1>1, LifeFacts DEF ReapLock, TypeOK, Inv, FromInv, ClaimInv, CpuInv, JoinInv,
     WillStart, LifeInv, ResultInv, Waits, Arriving, ReapPC, JoinPC, Ended
<1>6. FreedInv'
  BY LifeFacts DEF ReapLock, TypeOK, Inv, FromInv, ClaimInv, CpuInv, LifeInv,
     FreedInv, LockInv, Ended, ReapPC, JoinPC, DetachPC, CallerLocked, ReaperLocked
<1>7. QED
  BY <1>2, <1>3, <1>4, <1>5, <1>6 DEF LifeInv

LEMMA ReapFreeLife ==
  ASSUME RunToCompletion, TypeOK, Inv, LifeInv, NEW t \in Threads, ReapFree(t)
  PROVE  LifeInv'
<1>1. Running' = Running /\ Pending' = Pending
  BY DEF ReapFree, Running, Ready, Held, Pending
<1>2. TargetInv'
  BY LifeFacts DEF ReapFree, TypeOK, Inv, ClaimInv, LifeInv, TargetInv, Waits,
     JoinPC, DetachPC, Arriving, ReapPC
<1>3. LockInv'
  BY LifeFacts DEF ReapFree, TypeOK, Inv, FromInv, ClaimInv, LifeInv, LockInv,
     CallerLocked, ReaperLocked, ReapPC, JoinPC, DetachPC
<1>4. DeadInv'
  BY LifeFacts DEF ReapFree, TypeOK, Inv, FromInv, CpuInv, LifeInv, DeadInv, ReapPC,
     Ended
<1>5. ResultInv'
  BY <1>1, LifeFacts DEF ReapFree, TypeOK, Inv, FromInv, ClaimInv, CpuInv, JoinInv,
     WillStart, LifeInv, ResultInv, Waits, Arriving, ReapPC, JoinPC, Ended
<1>6. FreedInv'
  <2> DEFINE w == from[t]
  <2>1. \A u \in Threads : from'[u] = IF u = t THEN NoThread ELSE from[u]
    BY DEF ReapFree, TypeOK
  <2>2. freed' = freed \cup {w} /\ freed \subseteq Threads /\ NoThread \notin Threads
        /\ w \in Threads /\ state[w] = "DYING" /\ joiner[w] = Detached
        /\ UNCHANGED <<claimed, state, target, joiner>>
    BY LifeFacts DEF ReapFree, TypeOK, Inv, FromInv, ReapPC
  <2>3. w \in claimed
    BY <2>2, LifeFacts DEF Inv, ClaimInv
  <2>4. ASSUME NEW u \in Threads, target[u] = w PROVE FALSE
    <3>1. pc[u] \in JoinPC \cup DetachPC \/ Waits(u)
      BY <2>2, <2>4 DEF LifeInv, TargetInv
    <3>2. pc[u] \notin CallerLocked
      BY <2>4 DEF ReapFree, LifeInv, LockInv, ReaperLocked, ReapPC
    <3>3. pc[u] \notin {"join", "detach"}
      BY <2>2, <2>4, LifeFacts DEF Inv, ClaimInv
    <3>4. ~Waits(u) /\ pc[u] # "joined"
      BY <2>2, <2>4, LifeFacts DEF Inv, ClaimInv, LifeInv, ResultInv, Waits, JoinPC
    <3>5. QED
      BY <3>1, <3>2, <3>3, <3>4 DEF CallerLocked, JoinPC, DetachPC
  <2>5. \A u \in Threads \ {t} : from[u] # w
    BY <2>2, LifeFacts DEF ReapFree, Inv, FromInv, ReapPC
  <2> HIDE DEF w
  <2>6. QED
    BY <2>1, <2>2, <2>3, <2>4, <2>5 DEF LifeInv, FreedInv, Ended
<1>7. QED
  BY <1>2, <1>3, <1>4, <1>5, <1>6 DEF LifeInv

LEMMA ReapStartLife ==
  ASSUME RunToCompletion, TypeOK, Inv, LifeInv, NEW t \in Threads, ReapStart(t)
  PROVE  LifeInv'
<1>1. Running' = Running /\ Pending' = Pending
  BY DEF ReapStart, Running, Ready, Held, Pending
<1>2. TargetInv'
  BY LifeFacts DEF ReapStart, TypeOK, Inv, ClaimInv, LifeInv, TargetInv, Waits,
     JoinPC, DetachPC, Arriving, ReapPC
<1>3. LockInv'
  BY LifeFacts DEF ReapStart, TypeOK, Inv, FromInv, ClaimInv, LifeInv, LockInv,
     CallerLocked, ReaperLocked, ReapPC, JoinPC, DetachPC
<1>4. DeadInv'
  BY LifeFacts DEF ReapStart, TypeOK, Inv, FromInv, CpuInv, LifeInv, DeadInv,
     ReapPC, Ended
<1>5. ResultInv'
  BY <1>1, LifeFacts DEF ReapStart, TypeOK, Inv, FromInv, ClaimInv, CpuInv, JoinInv,
     WillStart, LifeInv, ResultInv, Waits, Arriving, ReapPC, JoinPC, Ended
<1>6. FreedInv'
  <2>1. joiner[from[t]] = Base
    BY LifeFacts DEF ReapStart, TypeOK, Inv, JoinInv, ReapPC
  <2>2. \A u \in Threads \ {Base} : state'[u] = state[u]
    BY <2>1 DEF ReapStart, TypeOK
  <2>3. Base \notin freed
    BY LifeFacts, ThreadsAssumption DEF LifeInv, FreedInv, Inv, DyingInv, Ended,
       TypeOK
  <2>4. QED
    BY <2>2, <2>3 DEF ReapStart, TypeOK, LifeInv, FreedInv
<1>7. QED
  BY <1>2, <1>3, <1>4, <1>5, <1>6 DEF LifeInv

LEMMA ReapNoJoinerLife ==
  ASSUME RunToCompletion, TypeOK, Inv, LifeInv, NEW t \in Threads, ReapNoJoiner(t)
  PROVE  LifeInv'
<1>1. Running' = Running /\ Pending' = Pending
  BY DEF ReapNoJoiner, Running, Ready, Held, Pending
<1>2. TargetInv'
  BY LifeFacts DEF ReapNoJoiner, TypeOK, Inv, ClaimInv, LifeInv, TargetInv, Waits,
     JoinPC, DetachPC, Arriving, ReapPC
<1>3. LockInv'
  BY LifeFacts DEF ReapNoJoiner, TypeOK, Inv, FromInv, ClaimInv, LifeInv, LockInv,
     CallerLocked, ReaperLocked, ReapPC, JoinPC, DetachPC
<1>4. DeadInv'
  BY LifeFacts DEF ReapNoJoiner, TypeOK, Inv, FromInv, CpuInv, LifeInv, DeadInv,
     ReapPC, Ended
<1>5. ResultInv'
  BY <1>1, LifeFacts DEF ReapNoJoiner, TypeOK, Inv, FromInv, ClaimInv, CpuInv,
     JoinInv, WillStart, LifeInv, ResultInv, Waits, Arriving, ReapPC, JoinPC, Ended
<1>6. FreedInv'
  BY LifeFacts DEF ReapNoJoiner, TypeOK, Inv, FromInv, ClaimInv, CpuInv, LifeInv,
     FreedInv, LockInv, Ended, ReapPC, JoinPC, DetachPC, CallerLocked, ReaperLocked
<1>7. QED
  BY <1>2, <1>3, <1>4, <1>5, <1>6 DEF LifeInv

LEMMA ReapDeadLife ==
  ASSUME RunToCompletion, TypeOK, Inv, LifeInv, NEW t \in Threads, ReapDead(t)
  PROVE  LifeInv'
<1>1. Running' = Running /\ Pending' = Pending
  BY DEF ReapDead, Running, Ready, Held, Pending
<1>2. TargetInv'
  BY LifeFacts DEF ReapDead, TypeOK, Inv, ClaimInv, LifeInv, TargetInv, Waits,
     JoinPC, DetachPC, Arriving, ReapPC
<1>3. LockInv'
  BY LifeFacts DEF ReapDead, TypeOK, Inv, FromInv, ClaimInv, LifeInv, LockInv,
     CallerLocked, ReaperLocked, ReapPC, JoinPC, DetachPC
<1>4. DeadInv'
  BY LifeFacts DEF ReapDead, TypeOK, Inv, FromInv, CpuInv, LifeInv, DeadInv, ReapPC,
     Ended
<1>5. ResultInv'
  BY <1>1, LifeFacts DEF ReapDead, TypeOK, Inv, FromInv, ClaimInv, CpuInv, JoinInv,
     WillStart, LifeInv, ResultInv, Waits, Arriving, ReapPC, JoinPC, Ended
<1>6. FreedInv'
  BY LifeFacts DEF ReapDead, TypeOK, Inv, FromInv, ClaimInv, CpuInv, LifeInv,
     FreedInv, LockInv, Ended, ReapPC, JoinPC, DetachPC, CallerLocked, ReaperLocked
<1>7. QED
  BY <1>2, <1>3, <1>4, <1>5, <1>6 DEF LifeInv

LEMMA ReapUnlockLife ==
  ASSUME RunToCompletion, TypeOK, Inv, Inv', LifeInv, NEW t \in Threads, ReapUnlock(t)
  PROVE  LifeInv'
<1>1. Running' = Running /\ Pending' = Pending
  BY DEF ReapUnlock, Running, Ready, Held, Pending
<1>2. TargetInv'
  BY LifeFacts DEF ReapUnlock, TypeOK, Inv, ClaimInv, LifeInv, TargetInv, Waits,
     JoinPC, DetachPC, Arriving, ReapPC
<1>3. LockInv'
  BY LifeFacts DEF ReapUnlock, TypeOK, Inv, FromInv, ClaimInv, LifeInv, LockInv,
     CallerLocked, ReaperLocked, ReapPC, JoinPC, DetachPC
<1>4. DeadInv'
  BY LifeFacts DEF ReapUnlock, TypeOK, Inv, FromInv, CpuInv, LifeInv, DeadInv,
     ReapPC, Ended
<1>5. ResultInv'
  BY <1>1, LifeFacts DEF ReapUnlock, TypeOK, Inv, FromInv, ClaimInv, CpuInv,
     JoinInv, WillStart, LifeInv, ResultInv, Waits, Arriving, ReapPC, JoinPC, Ended
<1>6. FreedInv'
  <2>1. \A u \in Threads : from'[u] = IF u = t THEN NoThread ELSE from[u]
    BY DEF ReapUnlock, TypeOK
  <2>2. freed \subseteq Threads /\ NoThread \notin Threads
    BY LifeFacts DEF TypeOK
  <2>3. QED
    BY <2>1, <2>2 DEF ReapUnlock, LifeInv, FreedInv
<1>7. QED
  BY <1>2, <1>3, <1>4, <1>5, <1>6 DEF LifeInv

LEMMA ResumeLife ==
  ASSUME RunToCompletion, TypeOK, Inv, Inv', LifeInv, NEW t \in Threads, Resume(t)
  PROVE  LifeInv'
<1>1. Running' = Running /\ Pending' = Pending
  BY DEF Resume, Running, Ready, Held, Pending
<1>2. TargetInv'
  BY LifeFacts DEF Resume, TypeOK, Inv, ClaimInv, LifeInv, TargetInv, Waits, JoinPC,
     DetachPC, Arriving, ReapPC
<1>3. LockInv'
  BY LifeFacts DEF Resume, TypeOK, Inv, FromInv, ClaimInv, LifeInv, LockInv,
     CallerLocked, ReaperLocked, ReapPC, JoinPC, DetachPC
<1>4. DeadInv'
  BY LifeFacts DEF Resume, TypeOK, Inv, FromInv, CpuInv, LifeInv, DeadInv, ReapPC,
     Ended
<1>5. ResultInv'
  BY <1>1, LifeFacts DEF Resume, TypeOK, Inv, FromInv, ClaimInv, CpuInv, JoinInv,
     WillStart, LifeInv, ResultInv, Waits, Arriving, ReapPC, JoinPC, Ended
<1>6. FreedInv'
  BY LifeFacts DEF Resume, TypeOK, Inv, FromInv, ClaimInv, CpuInv, LifeInv,
     FreedInv, LockInv, Ended, ReapPC, JoinPC, DetachPC, CallerLocked, ReaperLocked
<1>7. QED
  BY <1>2, <1>3, <1>4, <1>5, <1>6 DEF LifeInv

LEMMA JoinLockLife ==
  ASSUME RunToCompletion, TypeOK, Inv, LifeInv, NEW t \in Threads, JoinLock(t)
  PROVE  LifeInv'
<1>1. Running' = Running /\ Pending' = Pending
  BY DEF JoinLock, LockTarget, Running, Ready, Held, Pending
<1>2. TargetInv'
  BY LifeFacts DEF JoinLock, LockTarget, TypeOK, Inv, ClaimInv, LifeInv, TargetInv,
     Waits, JoinPC, DetachPC, Arriving, ReapPC
<1>3. LockInv'
  BY LifeFacts DEF JoinLock, LockTarget, TypeOK, Inv, FromInv, ClaimInv, LifeInv,
     LockInv, CallerLocked, ReaperLocked, ReapPC, JoinPC, DetachPC
<1>4. DeadInv'
  BY LifeFacts DEF JoinLock, LockTarget, TypeOK, Inv, FromInv, CpuInv, LifeInv,
     DeadInv, ReapPC, Ended
<1>5. ResultInv'
  BY <1>1, LifeFacts DEF JoinLock, LockTarget, TypeOK, Inv, FromInv, ClaimInv,
     CpuInv, JoinInv, WillStart, LifeInv, ResultInv, Waits, Arriving, ReapPC,
     JoinPC, Ended
<1>6. FreedInv'
  BY LifeFacts DEF JoinLock, LockTarget, TypeOK, Inv, FromInv, ClaimInv, CpuInv,
     LifeInv, FreedInv, LockInv, Ended, ReapPC, JoinPC, DetachPC, CallerLocked,
     ReaperLocked
<1>7. QED
  BY <1>2, <1>3, <1>4, <1>5, <1>6 DEF LifeInv

LEMMA JoinWaitLife ==
  ASSUME RunToCompletion, TypeOK, Inv, LifeInv, NEW t \in Threads, JoinWait(t)
  PROVE  LifeInv'
<1>1. Running' = Running /\ Pending' = Pending
  BY DEF JoinWait, SetJoiner, Running, Ready, Held, Pending
<1>2. TargetInv'
  BY LifeFacts DEF JoinWait, SetJoiner, TypeOK, Inv, ClaimInv, LifeInv, TargetInv,
     Waits, JoinPC, DetachPC, Arriving, ReapPC
<1>3. LockInv'
  BY LifeFacts DEF JoinWait, SetJoiner, TypeOK, Inv, FromInv, ClaimInv, LifeInv,
     LockInv, CallerLocked, ReaperLocked, ReapPC, JoinPC, DetachPC
<1>4. DeadInv'
  BY LifeFacts DEF JoinWait, SetJoiner, TypeOK, Inv, FromInv, CpuInv, LifeInv,
     DeadInv, ReapPC, Ended
<1>5. ResultInv'
  <2> DEFINE w == target[Base]
  <2>1. t = Base /\ pc[Base] = "joinLocked" /\ w \in Threads /\ state[w] # "DEAD"
    BY LifeFacts DEF JoinWait, SetJoiner, Inv, ClaimInv, JoinPC
  <2>2. /\ joiner' = [joiner EXCEPT ![w] = Base] /\ pc' = [pc EXCEPT ![Base] = "joinUnlock"]
        /\ UNCHANGED <<target, cont, state, from>>
    BY <2>1 DEF JoinWait, SetJoiner
  <2>3. pc'[Base] = "joinUnlock" /\ joiner'[w] = Base /\ target'[Base] = w
    BY <2>1, <2>2 DEF TypeOK
  <2>4. \A u \in Threads : ~(pc'[u] = "reapDead" /\ from'[u] = w)
    BY <2>1, <2>2 DEF TypeOK, LifeInv, LockInv, CallerLocked, ReaperLocked, ReapPC
  <2> HIDE DEF w
  <2>5. QED
    BY <2>1, <2>2, <2>3, <2>4 DEF ResultInv, WillStart, Waits, Arriving, ReapPC
<1>6. FreedInv'
  BY LifeFacts DEF JoinWait, SetJoiner, TypeOK, Inv, FromInv, ClaimInv, CpuInv,
     LifeInv, FreedInv, LockInv, Ended, ReapPC, JoinPC, DetachPC, CallerLocked,
     ReaperLocked
<1>7. QED
  BY <1>2, <1>3, <1>4, <1>5, <1>6 DEF LifeInv

LEMMA JoinDeadLife ==
  ASSUME RunToCompletion, TypeOK, Inv, LifeInv, NEW t \in Threads, JoinDead(t)
  PROVE  LifeInv'
<1>1. Running' = Running /\ Pending' = Pending
  BY DEF JoinDead, Running, Ready, Held, Pending
<1>2. TargetInv'
  BY LifeFacts DEF JoinDead, TypeOK, Inv, ClaimInv, LifeInv, TargetInv, Waits,
     JoinPC, DetachPC, Arriving, ReapPC
<1>3. LockInv'
  BY LifeFacts DEF JoinDead, TypeOK, Inv, FromInv, ClaimInv, LifeInv, LockInv,
     CallerLocked, ReaperLocked, ReapPC, JoinPC, DetachPC
<1>4. DeadInv'
  BY LifeFacts DEF JoinDead, TypeOK, Inv, FromInv, CpuInv, LifeInv, DeadInv, ReapPC,
     Ended
<1>5. ResultInv'
  <2>1. t = Base /\ state[target[t]] = "DEAD"
    BY LifeFacts DEF JoinDead, Inv, ClaimInv, JoinPC
  <2>2. UNCHANGED <<joiner, target, cont, state, from, Pending, Running>>
    BY <1>1 DEF JoinDead
  <2>3. pc'[Base] = "joined"
    BY <2>1, LifeFacts DEF JoinDead, TypeOK
  <2>4. ASSUME NEW u \in Threads, from[u] = target[Base] PROVE FALSE
    <3>1. pc[u] = "reapUnlock"
      BY <2>1, <2>4, LifeFacts DEF LifeInv, DeadInv, JoinDead, JoinPC
    <3>2. QED
      BY <2>1, <2>4, <3>1 DEF JoinDead, LifeInv, LockInv, CallerLocked,
         ReaperLocked, ReapPC
  <2>5. QED
    BY <2>1, <2>2, <2>3, <2>4 DEF ResultInv, Waits, Arriving, ReapPC, Ended
<1>6. FreedInv'
  BY LifeFacts DEF JoinDead, TypeOK, Inv, FromInv, ClaimInv, CpuInv, LifeInv,
     FreedInv, LockInv, Ended, ReapPC, JoinPC, DetachPC, CallerLocked, ReaperLocked
<1>7. QED
  BY <1>2, <1>3, <1>4, <1>5, <1>6 DEF LifeInv

LEMMA JoinUnlockLife ==
  ASSUME RunToCompletion, TypeOK, Inv, LifeInv, NEW t \in Threads, JoinUnlock(t)
  PROVE  LifeInv'
<1>1. Running' = Running /\ Pending' = Pending
  BY DEF JoinUnlock, Running, Ready, Held, Pending
<1>2. TargetInv'
  BY LifeFacts DEF JoinUnlock, TypeOK, Inv, ClaimInv, LifeInv, TargetInv, Waits,
     JoinPC, DetachPC, Arriving, ReapPC
<1>3. LockInv'
  BY LifeFacts DEF JoinUnlock, TypeOK, Inv, FromInv, ClaimInv, LifeInv, LockInv,
     CallerLocked, ReaperLocked, ReapPC, JoinPC, DetachPC
<1>4. DeadInv'
  BY LifeFacts DEF JoinUnlock, TypeOK, Inv, FromInv, CpuInv, LifeInv, DeadInv,
     ReapPC, Ended
<1>5. ResultInv'
  <2> DEFINE w == target[Base]
  <2>1. t = Base /\ pc[Base] = "joinUnlock" /\ Base \in Threads
    BY LifeFacts DEF JoinUnlock, Inv, ClaimInv, JoinPC
  <2>2. UNCHANGED <<joiner, target, state, from>> /\ pc' = [pc EXCEPT ![Base] = "stop"]
    BY <2>1 DEF JoinUnlock
  <2>3. joiner[w] = Base /\ WillStart(w)
    BY <2>1 DEF LifeInv, ResultInv
  <2>4. WillStart(target[Base])'
    BY <2>1, <2>2, <2>3 DEF TypeOK, WillStart
  <2>5. joiner'[target'[Base]] = Base /\ pc'[Base] = "stop"
    BY <2>1, <2>2, <2>3 DEF TypeOK
  <2> HIDE DEF w
  <2>6. QED
    BY <2>4, <2>5 DEF ResultInv, Waits, Arriving, ReapPC
<1>6. FreedInv'
  BY LifeFacts DEF JoinUnlock, TypeOK, Inv, FromInv, ClaimInv, CpuInv, LifeInv,
     FreedInv, LockInv, Ended, ReapPC, JoinPC, DetachPC, CallerLocked, ReaperLocked
<1>7. QED
  BY <1>2, <1>3, <1>4, <1>5, <1>6 DEF LifeInv

LEMMA JoinedLife ==
  ASSUME RunToCompletion, TypeOK, Inv, LifeInv, NEW t \in Threads, Joined(t)
  PROVE  LifeInv'
<1>1. Running' = Running /\ Pending' = Pending
  BY DEF Joined, Running, Ready, Held, Pending
<1>2. TargetInv'
  BY LifeFacts DEF Joined, TypeOK, Inv, ClaimInv, LifeInv, TargetInv, Waits, JoinPC,
     DetachPC, Arriving, ReapPC
<1>3. LockInv'
  BY LifeFacts DEF Joined, TypeOK, Inv, FromInv, ClaimInv, LifeInv, LockInv,
     CallerLocked, ReaperLocked, ReapPC, JoinPC, DetachPC
<1>4. DeadInv'
  BY LifeFacts DEF Joined, TypeOK, Inv, FromInv, CpuInv, LifeInv, DeadInv, ReapPC,
     Ended
<1>5. ResultInv'
  BY <1>1, LifeFacts DEF Joined, TypeOK, Inv, FromInv, ClaimInv, CpuInv, JoinInv,
     WillStart, LifeInv, ResultInv, Waits, Arriving, ReapPC, JoinPC, Ended
<1>6. FreedInv'
  <2> DEFINE w == target[t]
  <2>1. t = Base /\ w \in Threads /\ w \in claimed /\ state[w] \in Ended
        /\ (joiner[w] = Base \/ \A u \in Threads : from[u] # w)
    BY LifeFacts DEF Joined, Inv, ClaimInv, JoinPC, LifeInv, ResultInv
  <2>2. \A u \in Threads : target'[u] = IF u = t THEN NoThread ELSE target[u]
    BY DEF Joined, TypeOK
  <2>3. \A u \in Threads \ {t} : target[u] # w
    BY <2>1, LifeFacts DEF Inv, ClaimInv
  <2>4. freed' = freed \cup {w} /\ UNCHANGED <<claimed, state, from, joiner>>
    BY DEF Joined
  <2>5. freed \subseteq Threads /\ NoThread \notin Threads /\ Base \in Threads
    BY LifeFacts DEF TypeOK
  <2> HIDE DEF w
  <2>6. QED
    BY <2>1, <2>2, <2>3, <2>4, <2>5 DEF LifeInv, FreedInv
<1>7. QED
  BY <1>2, <1>3, <1>4, <1>5, <1>6 DEF LifeInv

LEMMA DetachLockLife ==
  ASSUME RunToCompletion, TypeOK, Inv, LifeInv, NEW t \in Threads, DetachLock(t)
  PROVE  LifeInv'
<1>1. Running' = Running /\ Pending' = Pending
  BY DEF DetachLock, LockTarget, Running, Ready, Held, Pending
<1>2. TargetInv'
  BY LifeFacts DEF DetachLock, LockTarget, TypeOK, Inv, ClaimInv, LifeInv,
     TargetInv, Waits, JoinPC, DetachPC, Arriving, ReapPC
<1>3. LockInv'
  BY LifeFacts DEF DetachLock, LockTarget, TypeOK, Inv, FromInv, ClaimInv, LifeInv,
     LockInv, CallerLocked, ReaperLocked, ReapPC, JoinPC, DetachPC
<1>4. DeadInv'
  BY LifeFacts DEF DetachLock, LockTarget, TypeOK, Inv, FromInv, CpuInv, LifeInv,
     DeadInv, ReapPC, Ended
<1>5. ResultInv'
  BY <1>1, LifeFacts DEF DetachLock, LockTarget, TypeOK, Inv, FromInv, ClaimInv,
     CpuInv, JoinInv, WillStart, LifeInv, ResultInv, Waits, Arriving, ReapPC,
     JoinPC, Ended
<1>6. FreedInv'
  BY LifeFacts DEF DetachLock, LockTarget, TypeOK, Inv, FromInv, ClaimInv, CpuInv,
     LifeInv, FreedInv, LockInv, Ended, ReapPC, JoinPC, DetachPC, CallerLocked,
     ReaperLocked
<1>7. QED
  BY <1>2, <1>3, <1>4, <1>5, <1>6 DEF LifeInv

LEMMA DetachSetLife ==
  ASSUME RunToCompletion, TypeOK, Inv, LifeInv, NEW t \in Threads, DetachSet(t)
  PROVE  LifeInv'
<1>1. Running' = Running /\ Pending' = Pending
  BY DEF DetachSet, SetJoiner, Running, Ready, Held, Pending
<1>2. TargetInv'
  BY LifeFacts DEF DetachSet, SetJoiner, TypeOK, Inv, ClaimInv, LifeInv, TargetInv,
     Waits, JoinPC, DetachPC, Arriving, ReapPC
<1>3. LockInv'
  BY LifeFacts DEF DetachSet, SetJoiner, TypeOK, Inv, FromInv, ClaimInv, LifeInv,
     LockInv, CallerLocked, ReaperLocked, ReapPC, JoinPC, DetachPC
<1>4. DeadInv'
  BY LifeFacts DEF DetachSet, SetJoiner, TypeOK, Inv, FromInv, CpuInv, LifeInv,
     DeadInv, ReapPC, Ended
<1>5. ResultInv'
  BY <1>1, LifeFacts DEF DetachSet, SetJoiner, TypeOK, Inv, FromInv, ClaimInv,
     CpuInv, JoinInv, WillStart, LifeInv, ResultInv, Waits, Arriving, ReapPC,
     JoinPC, Ended
<1>6. FreedInv'
  BY LifeFacts DEF DetachSet, SetJoiner, TypeOK, Inv, FromInv, ClaimInv, CpuInv,
     LifeInv, FreedInv, LockInv, Ended, ReapPC, JoinPC, DetachPC, CallerLocked,
     ReaperLocked
<1>7. QED
  BY <1>2, <1>3, <1>4, <1>5, <1>6 DEF LifeInv

LEMMA DetachUnlockLife ==
  ASSUME RunToCompletion, TypeOK, Inv, LifeInv, NEW t \in Threads, DetachUnlock(t)
  PROVE  LifeInv'
<1>1. Running' = Running /\ Pending' = Pending
  BY DEF DetachUnlock, Running, Ready, Held, Pending
<1>2. TargetInv'
  BY LifeFacts DEF DetachUnlock, TypeOK, Inv, ClaimInv, LifeInv, TargetInv, Waits,
     JoinPC, DetachPC, Arriving, ReapPC
<1>3. LockInv'
  BY LifeFacts DEF DetachUnlock, TypeOK, Inv, FromInv, ClaimInv, LifeInv, LockInv,
     CallerLocked, ReaperLocked, ReapPC, JoinPC, DetachPC
<1>4. DeadInv'
  BY LifeFacts DEF DetachUnlock, TypeOK, Inv, FromInv, CpuInv, LifeInv, DeadInv,
     ReapPC, Ended
<1>5. ResultInv'
  BY <1>1, LifeFacts DEF DetachUnlock, TypeOK, Inv, FromInv, ClaimInv, CpuInv,
     JoinInv, WillStart, LifeInv, ResultInv, Waits, Arriving, ReapPC, JoinPC, Ended
<1>6. FreedInv'
  <2>1. \A u \in Threads : target'[u] = IF u = t THEN NoThread ELSE target[u]
    BY DEF DetachUnlock, TypeOK
  <2>2. freed \subseteq Threads /\ NoThread \notin Threads
    BY LifeFacts DEF TypeOK
  <2>3. QED
    BY <2>1, <2>2 DEF DetachUnlock, LifeInv, FreedInv
<1>7. QED
  BY <1>2, <1>3, <1>4, <1>5, <1>6 DEF LifeInv

LEMMA DetachFreeLife ==
  ASSUME RunToCompletion, TypeOK, Inv, LifeInv, NEW t \in Threads, DetachFree(t)
  PROVE  LifeInv'
<1>1. Running' = Running /\ Pending' = Pending
  BY DEF DetachFree, Running, Ready, Held, Pending
<1>2. TargetInv'
  BY LifeFacts DEF DetachFree, TypeOK, Inv, ClaimInv, LifeInv, TargetInv, Waits,
     JoinPC, DetachPC, Arriving, ReapPC
<1>3. LockInv'
  BY LifeFacts DEF DetachFree, TypeOK, Inv, FromInv, ClaimInv, LifeInv, LockInv,
     CallerLocked, ReaperLocked, ReapPC, JoinPC, DetachPC
<1>4. DeadInv'
  BY LifeFacts DEF DetachFree, TypeOK, Inv, FromInv, CpuInv, LifeInv, DeadInv,
     ReapPC, Ended
<1>5. ResultInv'
  BY <1>1, LifeFacts DEF DetachFree, TypeOK, Inv, FromInv, ClaimInv, CpuInv,
     JoinInv, WillStart, LifeInv, ResultInv, Waits, Arriving, ReapPC, JoinPC, Ended
<1>6. FreedInv'
  <2> DEFINE w == target[t]
  <2>1. w \in Workers /\ w \in Threads /\ w \in claimed /\ state[w] = "DEAD"
    BY LifeFacts DEF DetachFree, Inv, ClaimInv, DetachPC
  <2>2. \A u \in Threads : target'[u] = IF u = t THEN NoThread ELSE target[u]
    BY DEF DetachFree, TypeOK
  <2>3. \A u \in Threads \ {t} : target[u] # w
    BY <2>1, LifeFacts DEF Inv, ClaimInv
  <2>4. freed' = freed \cup {w} /\ UNCHANGED <<claimed, state, from, joiner>>
    BY DEF DetachFree
  <2>5. freed \subseteq Threads /\ NoThread \notin Threads
    BY LifeFacts DEF TypeOK
  <2>6. ASSUME NEW u \in Threads, from[u] = w PROVE FALSE
    <3>1. pc[u] = "reapUnlock"
      BY <2>1, <2>6 DEF LifeInv, DeadInv
    <3>2. QED
      BY <2>6, <3>1 DEF DetachFree, LifeInv, LockInv, CallerLocked, ReaperLocked,
         ReapPC
  <2> HIDE DEF w
  <2>7. QED
    BY <2>1, <2>2, <2>3, <2>4, <2>5, <2>6 DEF LifeInv, FreedInv, Ended
<1>7. QED
  BY <1>2, <1>3, <1>4, <1>5, <1>6 DEF LifeInv

LEMMA ReturnLife ==
  ASSUME RunToCompletion, TypeOK, Inv, LifeInv, NEW t \in Threads, Return(t)
  PROVE  LifeInv'
<1>1. Running' = Running /\ Pending' = Pending
  BY DEF Return, Running, Ready, Held, Pending
<1>2. TargetInv'
  BY LifeFacts DEF Return, TypeOK, Inv, ClaimInv, LifeInv, TargetInv, Waits, JoinPC,
     DetachPC, Arriving, ReapPC
<1>3. LockInv'
  BY LifeFacts DEF Return, TypeOK, Inv, FromInv, ClaimInv, LifeInv, LockInv,
     CallerLocked, ReaperLocked, ReapPC, JoinPC, DetachPC
<1>4. DeadInv'
  BY LifeFacts DEF Return, TypeOK, Inv, FromInv, CpuInv, LifeInv, DeadInv, ReapPC,
     Ended
<1>5. ResultInv'
  BY <1>1, LifeFacts DEF Return, TypeOK, Inv, FromInv, ClaimInv, CpuInv, JoinInv,
     WillStart, LifeInv, ResultInv, Waits, Arriving, ReapPC, JoinPC, Ended
<1>6. FreedInv'
  BY LifeFacts DEF Return, TypeOK, Inv, FromInv, ClaimInv, CpuInv, LifeInv,
     FreedInv, LockInv, Ended, ReapPC, JoinPC, DetachPC, CallerLocked, ReaperLocked
<1>7. QED
  BY <1>2, <1>3, <1>4, <1>5, <1>6 DEF LifeInv
LEMMA JoinCallLife ==
  ASSUME RunToCompletion, TypeOK, Inv, LifeInv, NEW t \in Threads, NEW w \in Workers, Join(t, w)
  PROVE  LifeInv'
<1>1. Running' = Running /\ Pending' = Pending
  BY DEF Join, Claim, Running, Ready, Held, Pending
<1>2. TargetInv'
  BY LifeFacts DEF Join, Claim, TypeOK, Inv, ClaimInv, LifeInv, TargetInv, Waits,
     JoinPC, DetachPC, Arriving, ReapPC
<1>3. LockInv'
  BY LifeFacts DEF Join, Claim, TypeOK, Inv, FromInv, ClaimInv, LifeInv, LockInv,
     CallerLocked, ReaperLocked, ReapPC, JoinPC, DetachPC
<1>4. DeadInv'
  BY LifeFacts DEF Join, Claim, TypeOK, Inv, FromInv, CpuInv, LifeInv, DeadInv,
     ReapPC, Ended
<1>5. ResultInv'
  BY <1>1, LifeFacts DEF Join, Claim, TypeOK, Inv, FromInv, ClaimInv, CpuInv,
     JoinInv, WillStart, LifeInv, ResultInv, Waits, Arriving, ReapPC, JoinPC, Ended
<1>6. FreedInv'
  BY LifeFacts DEF Join, Claim, TypeOK, Inv, FromInv, ClaimInv, CpuInv, LifeInv,
     FreedInv, LockInv, Ended, ReapPC, JoinPC, DetachPC, CallerLocked, ReaperLocked
<1>7. QED
  BY <1>2, <1>3, <1>4, <1>5, <1>6 DEF LifeInv

LEMMA DetachLife ==
  ASSUME RunToCompletion, TypeOK, Inv, LifeInv, NEW t \in Threads, NEW w \in Workers, Detach(t, w)
  PROVE  LifeInv'
<1>1. Running' = Running /\ Pending' = Pending
  BY DEF Detach, Claim, Running, Ready, Held, Pending
<1>2. TargetInv'
  BY LifeFacts DEF Detach, Claim, TypeOK, Inv, ClaimInv, LifeInv, TargetInv, Waits,
     JoinPC, DetachPC, Arriving, ReapPC
<1>3. LockInv'
  BY LifeFacts DEF Detach, Claim, TypeOK, Inv, FromInv, ClaimInv, LifeInv, LockInv,
     CallerLocked, ReaperLocked, ReapPC, JoinPC, DetachPC
<1>4. DeadInv'
  BY LifeFacts DEF Detach, Claim, TypeOK, Inv, FromInv, CpuInv, LifeInv, DeadInv,
     ReapPC, Ended
<1>5. ResultInv'
  BY <1>1, LifeFacts DEF Detach, Claim, TypeOK, Inv, FromInv, ClaimInv, CpuInv,
     JoinInv, WillStart, LifeInv, ResultInv, Waits, Arriving, ReapPC, JoinPC, Ended
<1>6. FreedInv'
  BY LifeFacts DEF Detach, Claim, TypeOK, Inv, FromInv, ClaimInv, CpuInv, LifeInv,
     FreedInv, LockInv, Ended, ReapPC, JoinPC, DetachPC, CallerLocked, ReaperLocked
<1>7. QED
  BY <1>2, <1>3, <1>4, <1>5, <1>6 DEF LifeInv

LEMMA HasJoinerLife ==
  ASSUME RunToCompletion, TypeOK, Inv, LifeInv, NEW t \in Threads, NEW w \in Workers, HasJoiner(t, w)
  PROVE  LifeInv'
<1>1. Running' = Running /\ Pending' = Pending
  BY DEF HasJoiner, Claim, Running, Ready, Held, Pending
<1>2. TargetInv'
  BY LifeFacts DEF HasJoiner, Claim, TypeOK, Inv, ClaimInv, LifeInv, TargetInv,
     Waits, JoinPC, DetachPC, Arriving, ReapPC
<1>3. LockInv'
  BY LifeFacts DEF HasJoiner, Claim, TypeOK, Inv, FromInv, ClaimInv, LifeInv,
     LockInv, CallerLocked, ReaperLocked, ReapPC, JoinPC, DetachPC
<1>4. DeadInv'
  BY LifeFacts DEF HasJoiner, Claim, TypeOK, Inv, FromInv, CpuInv, LifeInv, DeadInv,
     ReapPC, Ended
<1>5. ResultInv'
  BY <1>1, LifeFacts DEF HasJoiner, Claim, TypeOK, Inv, FromInv, ClaimInv, CpuInv,
     JoinInv, WillStart, LifeInv, ResultInv, Waits, Arriving, ReapPC, JoinPC, Ended
<1>6. FreedInv'
  BY LifeFacts DEF HasJoiner, Claim, TypeOK, Inv, FromInv, ClaimInv, CpuInv,
     LifeInv, FreedInv, LockInv, Ended, ReapPC, JoinPC, DetachPC, CallerLocked,
     ReaperLocked
<1>7. QED
  BY <1>2, <1>3, <1>4, <1>5, <1>6 DEF LifeInv

LEMMA YieldLife ==
  ASSUME RunToCompletion, TypeOK, Inv, LifeInv, NEW t \in Threads, Yield(t)
  PROVE  LifeInv'
<1>1. Running' = Running
  BY DEF Yield, Running, Ready, Held, Pending
<1>2. TargetInv'
  BY LifeFacts DEF Yield, TypeOK, Inv, ClaimInv, LifeInv, TargetInv, Waits, JoinPC,
     DetachPC, Arriving, ReapPC
<1>3. LockInv'
  BY LifeFacts DEF Yield, TypeOK, Inv, FromInv, ClaimInv, LifeInv, LockInv,
     CallerLocked, ReaperLocked, ReapPC, JoinPC, DetachPC
<1>4. DeadInv'
  BY LifeFacts DEF Yield, TypeOK, Inv, FromInv, CpuInv, LifeInv, DeadInv, ReapPC,
     Ended
<1>5. ResultInv'
  <2>1. pc[t] = "user" /\ t \in Running /\ UNCHANGED <<joiner, target, state, from, cur>>
    BY DEF Yield
  <2>2. pc' = [pc EXCEPT ![t] = "stop"] /\ cont' = [cont EXCEPT ![t] = "user"]
    BY DEF Yield
  <2>3. Held' = Held /\ Ready \subseteq Ready'
    BY ReadyAppended DEF Yield, TypeOK, Held
  <2>4. WillStart(target[Base])' <=> WillStart(target[Base])
    BY <2>1, <2>2 DEF TypeOK, WillStart
  <2>5. QED
    BY <1>1, <2>1, <2>2, <2>3, <2>4, LifeFacts DEF TypeOK, LifeInv, ResultInv,
       Pending, Waits, Arriving, ReapPC, JoinPC
<1>6. FreedInv'
  BY LifeFacts DEF Yield, TypeOK, Inv, FromInv, ClaimInv, CpuInv, LifeInv, FreedInv,
     LockInv, Ended, ReapPC, JoinPC, DetachPC, CallerLocked, ReaperLocked
<1>7. QED
  BY <1>2, <1>3, <1>4, <1>5, <1>6 DEF LifeInv

LEMMA CreateLife ==
  ASSUME RunToCompletion, TypeOK, Inv, LifeInv, NEW t \in Threads, NEW w \in Workers, Create(t, w)
  PROVE  LifeInv'
<1>1. Running' = Running
  BY DEF Create, Running, Ready, Held, Pending
<1>2. TargetInv'
  BY LifeFacts DEF Create, TypeOK, Inv, ClaimInv, LifeInv, TargetInv, Waits, JoinPC,
     DetachPC, Arriving, ReapPC
<1>3. LockInv'
  BY LifeFacts DEF Create, TypeOK, Inv, FromInv, ClaimInv, LifeInv, LockInv,
     CallerLocked, ReaperLocked, ReapPC, JoinPC, DetachPC
<1>4. DeadInv'
  BY LifeFacts DEF Create, TypeOK, Inv, FromInv, CpuInv, LifeInv, DeadInv, ReapPC,
     Ended
<1>5. ResultInv'
  <2>1. UNCHANGED <<pc, cont, joiner, target, from, cur>>
    BY DEF Create
  <2>2. state[w] = "UNBORN" /\ \A u \in Threads \ {w} : state'[u] = state[u]
    BY DEF Create, TypeOK
  <2>3. Held' = Held /\ Ready \subseteq Ready'
    BY ReadyAppended, LifeFacts DEF Create, TypeOK, Held
  <2>4. WillStart(target[Base]) => WillStart(target[Base])'
    BY <2>1, LifeFacts DEF Create, TypeOK, WillStart
  <2>5. pc[Base] = "joined" => target[Base] \in Threads \ {w}
    BY <2>2, LifeFacts DEF LifeInv, ResultInv, JoinPC, Ended
  <2>6. QED
    BY <1>1, <2>1, <2>2, <2>3, <2>4, <2>5 DEF LifeInv, ResultInv, Pending, Waits
<1>6. FreedInv'
  BY LifeFacts DEF Create, TypeOK, Inv, FromInv, ClaimInv, CpuInv, LifeInv,
     FreedInv, LockInv, Ended, ReapPC, JoinPC, DetachPC, CallerLocked, ReaperLocked
<1>7. QED
  BY <1>2, <1>3, <1>4, <1>5, <1>6 DEF LifeInv

LEMMA StopLife ==
  ASSUME RunToCompletion, TypeOK, Inv, LifeInv, NEW t \in Threads, Stop(t)
  PROVE  LifeInv'
<1>1. Running' = Running
  BY DEF Stop, Running, Ready, Held, Pending
<1>2. TargetInv'
  BY LifeFacts DEF Stop, TypeOK, Inv, ClaimInv, LifeInv, TargetInv, Waits, JoinPC,
     DetachPC, Arriving, ReapPC
<1>3. LockInv'
  BY LifeFacts DEF Stop, TypeOK, Inv, FromInv, ClaimInv, LifeInv, LockInv,
     CallerLocked, ReaperLocked, ReapPC, JoinPC, DetachPC
<1>4. DeadInv'
  BY LifeFacts DEF Stop, TypeOK, Inv, FromInv, CpuInv, LifeInv, DeadInv, ReapPC,
     Ended
<1>5. ResultInv'
  <2>1. /\ pc[t] = "stop" /\ pc' = [pc EXCEPT ![t] = "switch"]
        /\ UNCHANGED <<cont, joiner, target, state, from>>
    BY DEF Stop
  <2>2. Pending \subseteq Pending'
    <3>1. Head(readyQueue) \in Ready /\ Ready' = Ready \ {Head(readyQueue)}
      BY ReadyTail DEF Stop, TypeOK, Inv
    <3>2. Head(readyQueue) \in Held'
      BY <3>1, SetTypes DEF Stop, TypeOK, Held
    <3>3. to[t] = NoThread
      BY <2>1 DEF Inv, QueueInv
    <3>4. Held \subseteq Held'
      BY <3>3 DEF Stop, TypeOK, Held
    <3>5. QED
      BY <3>1, <3>2, <3>4 DEF Pending
  <2>3. WillStart(target[Base])' <=> WillStart(target[Base])
    BY <2>1 DEF TypeOK, WillStart
  <2>4. QED
    BY <1>1, <2>1, <2>2, <2>3, LifeFacts DEF TypeOK, LifeInv, ResultInv, Waits,
       Arriving, ReapPC, JoinPC
<1>6. FreedInv'
  BY LifeFacts DEF Stop, TypeOK, Inv, FromInv, ClaimInv, CpuInv, LifeInv, FreedInv,
     LockInv, Ended, ReapPC, JoinPC, DetachPC, CallerLocked, ReaperLocked
<1>7. QED
  BY <1>2, <1>3, <1>4, <1>5, <1>6 DEF LifeInv

LEMMA SwitchSelfLife ==
  ASSUME RunToCompletion, TypeOK, Inv, Inv', LifeInv, NEW t \in Threads, SwitchSelf(t)
  PROVE  LifeInv'
<1>1. Running' = Running
  BY DEF SwitchSelf, Running, Ready, Held, Pending
<1>2. TargetInv'
  BY LifeFacts DEF SwitchSelf, TypeOK, Inv, ClaimInv, LifeInv, TargetInv, Waits,
     JoinPC, DetachPC, Arriving, ReapPC
<1>3. LockInv'
  <2>1. cont[t] \in {"user", "joined"}
    BY DEF SwitchSelf, TypeOK, Inv, DyingInv, PendingInv, Pending, Held
  <2>2. QED
    BY <2>1, LifeFacts DEF SwitchSelf, TypeOK, LifeInv, LockInv, CallerLocked,
       ReaperLocked, ReapPC, JoinPC, DetachPC
<1>4. DeadInv'
  BY LifeFacts DEF SwitchSelf, TypeOK, Inv, FromInv, CpuInv, LifeInv, DeadInv,
     ReapPC, Ended
<1>5. ResultInv'
  <2>1. /\ pc[t] = "switch" /\ pc' = [pc EXCEPT ![t] = cont[t]]
        /\ UNCHANGED <<cont, joiner, target, state, from>>
    BY DEF SwitchSelf
  <2>2. t \in Pending /\ Pending \ {t} \subseteq Pending' /\ cont[t] # "gone"
    <3>1. t \in Held /\ \A u \in Threads \ {t} : to'[u] = to[u]
      BY LifeFacts DEF SwitchSelf, TypeOK, Held
    <3>2. Held \ {t} \subseteq Held' /\ Ready' = Ready
      BY <3>1 DEF SwitchSelf, Held, Ready
    <3>3. t \notin Workers
      BY <3>1 DEF SwitchSelf, Inv, PendingInv, Pending
    <3>4. QED
      BY <3>1, <3>2, <3>3 DEF Pending, Inv, DyingInv
  <2>3. WillStart(target[Base])' <=> WillStart(target[Base])
    <3>1. \A u \in Threads : pc'[u] = "reapDead" <=> pc[u] = "reapDead"
      BY <2>1, <2>2 DEF TypeOK
    <3>2. QED
      BY <2>1, <3>1 DEF WillStart
  <2>4. CASE t # Base
    BY <1>1, <2>1, <2>2, <2>3, <2>4, LifeFacts DEF TypeOK, LifeInv, ResultInv,
       Waits, Arriving, ReapPC, JoinPC
  <2>5. CASE t = Base /\ cont[t] = "user"
    BY <2>1, <2>5, LifeFacts DEF TypeOK, ResultInv, Waits
  <2>6. CASE t = Base /\ cont[t] = "joined"
    <3>1. joiner[target[Base]] = Base /\ target[Base] \in Workers /\ target[Base] \in Threads
      BY <2>1, <2>6, LifeFacts DEF LifeInv, ResultInv, Waits
    <3>2. ~WillStart(target[Base])
      BY <2>2, <2>6, <3>1 DEF Inv, JoinInv
    <3>3. state[target[Base]] \in Ended
      BY <3>1, <3>2, LifeFacts DEF WillStart, Inv, FromInv, DyingInv, ReapPC, Ended
    <3>4. pc'[Base] = "joined"
      BY <2>1, <2>6, LifeFacts DEF TypeOK
    <3>5. QED
      BY <2>1, <3>1, <3>3, <3>4 DEF ResultInv, Waits, Arriving, ReapPC
  <2>7. QED
    BY <2>2, <2>4, <2>5, <2>6 DEF TypeOK
<1>6. FreedInv'
  BY LifeFacts DEF SwitchSelf, TypeOK, Inv, FromInv, ClaimInv, CpuInv, LifeInv,
     FreedInv, LockInv, Ended, ReapPC, JoinPC, DetachPC, CallerLocked, ReaperLocked
<1>7. QED
  BY <1>2, <1>3, <1>4, <1>5, <1>6 DEF LifeInv

LEMMA ReapEnqueueLife ==
  ASSUME RunToCompletion, TypeOK, Inv, LifeInv, NEW t \in Threads, ReapEnqueue(t)
  PROVE  LifeInv'
<1>1. Running' = Running
  BY DEF ReapEnqueue, Running, Ready, Held, Pending
<1>2. TargetInv'
  BY LifeFacts DEF ReapEnqueue, TypeOK, Inv, ClaimInv, LifeInv, TargetInv, Waits,
     JoinPC, DetachPC, Arriving, ReapPC
<1>3. LockInv'
  BY LifeFacts DEF ReapEnqueue, TypeOK, Inv, FromInv, ClaimInv, LifeInv, LockInv,
     CallerLocked, ReaperLocked, ReapPC, JoinPC, DetachPC
<1>4. DeadInv'
  BY LifeFacts DEF ReapEnqueue, TypeOK, Inv, FromInv, CpuInv, LifeInv, DeadInv,
     ReapPC, Ended
<1>5. ResultInv'
  <2>1. pc[t] = "reapEnqueue" /\ t \in Running /\ joiner[from[t]] = Base
    BY DEF ReapEnqueue, Inv, JoinInv
  <2>a. readyQueue' = Append(readyQueue, Base) /\ Held' = Held
    BY <2>1 DEF ReapEnqueue, Held
  <2>2. Ready' = Ready \cup {Base}
    BY <2>a, ReadyAppended, LifeFacts DEF TypeOK
  <2>3. /\ pc' = [pc EXCEPT ![t] = "reapDead"]
        /\ UNCHANGED <<cont, joiner, target, state, from>>
    BY DEF ReapEnqueue
  <2>4. Pending' = Pending \cup {Base}
    BY <2>a, <2>2 DEF Pending
  <2>5. t # Base \/ (pc'[Base] = "reapDead" /\ pc[Base] = "reapEnqueue")
    BY <2>1, <2>3, LifeFacts DEF TypeOK
  <2>6. pc[Base] # "joinUnlock"
    BY <2>1, LifeFacts DEF ReapEnqueue, LifeInv, LockInv, CallerLocked,
       ReaperLocked, ReapPC, ResultInv, WillStart, Inv, JoinInv, FromInv
  <2>7. QED
    BY <1>1, <2>1, <2>3, <2>4, <2>5, <2>6, LifeFacts DEF TypeOK, LifeInv, ResultInv,
       Waits, Arriving, ReapPC, JoinPC
<1>6. FreedInv'
  BY LifeFacts DEF ReapEnqueue, TypeOK, Inv, FromInv, ClaimInv, CpuInv, LifeInv,
     FreedInv, LockInv, Ended, ReapPC, JoinPC, DetachPC, CallerLocked, ReaperLocked
<1>7. QED
  BY <1>2, <1>3, <1>4, <1>5, <1>6 DEF LifeInv

LEMMA InitDoneLife ==
  ASSUME TypeOK, LifeInv, InitDone
  PROVE  LifeInv'
<1>1. /\ Running' = Running /\ Pending' = Pending /\ Base \in Threads
      /\ pc[Base] = "init" /\ pc' = [pc EXCEPT ![Base] = "user"]
      /\ UNCHANGED <<state, joiner, joinLock, freed, from, cont, target, claimed>>
  BY DEF InitDone, Running, Ready, Held, Pending, Threads
<1>2. TargetInv' /\ LockInv' /\ DeadInv'
  BY <1>1 DEF TypeOK, LifeInv, TargetInv, LockInv, DeadInv, Waits, CallerLocked,
     ReaperLocked, JoinPC, DetachPC, Arriving, ReapPC
<1>3. ResultInv' /\ FreedInv'
  BY <1>1 DEF TypeOK, LifeInv, ResultInv, FreedInv, WillStart, Waits, Arriving,
     ReapPC
<1>4. QED
  BY <1>2, <1>3 DEF LifeInv

LEMMA SpawnPthreadLife ==
  ASSUME TypeOK, Inv, LifeInv, NEW p \in Procs, SpawnPthread(p)
  PROVE  LifeInv'
<1>1. /\ p \in Threads /\ p # Base /\ p \notin Workers /\ Base \in Threads
      /\ Detached \notin Threads /\ NoThread \notin Threads
  BY ThreadsAssumption DEF Threads
<1>2. /\ pc[Base] = "init" /\ state[p] = "UNBORN" /\ pc' = [pc EXCEPT ![p] = "user"]
      /\ state' = [state EXCEPT ![p] = "RUNNING"] /\ cur[p] = NoThread
      /\ cur' = [cur EXCEPT ![p] = p] /\ Pending' = Pending
      /\ UNCHANGED <<joiner, joinLock, freed, from, cont, target, claimed>>
  BY DEF SpawnPthread, Ready, Held, Pending, Inv, BootInv
<1>3. pc[p] = "switched"
  BY <1>1, <1>2 DEF TypeOK, Inv, CpuInv, BootInv, DyingInv, Ended, Running
<1>4. target[p] = NoThread
  BY <1>1, <1>3 DEF Inv, ClaimInv, LifeInv, TargetInv, Waits, JoinPC, DetachPC
<1>5. TargetInv'
  BY <1>1, <1>2, <1>4 DEF TypeOK, LifeInv, TargetInv, Waits
<1>6. LockInv'
  BY <1>1, <1>2 DEF TypeOK, LifeInv, LockInv, CallerLocked, ReaperLocked, ReapPC
<1>7. DeadInv'
  BY <1>1, <1>2, <1>3 DEF TypeOK, LifeInv, DeadInv
<1>8. ResultInv'
  BY <1>1, <1>2 DEF TypeOK, ResultInv, Waits, Arriving, ReapPC
<1>9. FreedInv'
  BY <1>1, <1>2 DEF TypeOK, LifeInv, FreedInv, Ended
<1>10. QED
  BY <1>5, <1>6, <1>7, <1>8, <1>9 DEF LifeInv

LEMMA SwitchLife ==
  ASSUME RunToCompletion, TypeOK, Inv, LifeInv, NEW p \in Procs, Switch(p)
  PROVE  LifeInv'
<1> DEFINE t == cur[p]
           u == to[t]
<1>1. /\ t \in Threads /\ t \in Running /\ u \in Held /\ u \in Threads /\ u # t
      /\ pc[t] = "switch"
  BY SetTypes DEF Switch, Running, TypeOK, Inv, QueueInv
<1>a. state[t] = "RUNNING"
  BY <1>1, SetTypes DEF Inv, CpuInv, Arriving, ReapPC
<1>2. /\ stopping[t] = "DYING" <=> t \in Workers
      /\ stopping[t] \in {"RUNABLE", "BLOCKED", "DYING"}
  BY <1>1 DEF TypeOK, Inv, DyingInv
<1>b. u \in Pending /\ u \notin Running
  BY <1>1, SetTypes DEF Switch, MayDispatch, Inv, PendingInv, CpuInv, Pending,
     Arriving, ReapPC
<1>3. pc[u] = "switched" /\ state[u] \notin Ended
  BY <1>1, <1>b DEF Inv, PendingInv, CpuInv, DyingInv
<1>4. /\ state' = [state EXCEPT ![t] = stopping[t]] /\ cur' = [cur EXCEPT ![p] = u]
      /\ from' = [from EXCEPT ![u] = t] /\ to' = [to EXCEPT ![t] = NoThread]
      /\ pc' = [pc EXCEPT ![t] = IF stopping[t] = "DYING" THEN "gone" ELSE "switched"]
      /\ UNCHANGED <<joiner, joinLock, freed, readyQueue, cont, target, claimed>>
  BY DEF Switch
<1>5. Pending \ {u} \subseteq Pending' /\ u \in Running'
  BY <1>1, <1>4 DEF TypeOK, Pending, Held, Ready, Running
<1> HIDE DEF t, u
<1>6. TargetInv'
  BY <1>1, <1>2, <1>4, LifeFacts DEF TypeOK, Inv, ClaimInv, LifeInv, TargetInv,
     Waits, JoinPC, DetachPC, Arriving, ReapPC
<1>7. LockInv'
  BY <1>1, <1>3, <1>4 DEF TypeOK, LifeInv, LockInv, CallerLocked, ReaperLocked,
     ReapPC
<1>8. DeadInv'
  BY <1>1, <1>2, <1>3, <1>4 DEF TypeOK, LifeInv, DeadInv
<1>9. ResultInv'
  <2>1. /\ \A x \in Threads : pc'[x] = IF x # t THEN pc[x]
                                       ELSE IF stopping[t] = "DYING" THEN "gone" ELSE "switched"
        /\ \A x \in Threads : from'[x] = IF x = u THEN t ELSE from[x]
        /\ \A x \in Threads \ {t} : state'[x] = state[x]
        /\ state'[t] = stopping[t]
    BY <1>1, <1>4 DEF TypeOK
  <2>2. pc[Base] = "joined" => target[Base] \in Threads \ {t}
    BY <1>a, LifeFacts DEF LifeInv, ResultInv, JoinPC, Ended
  <2>3. WillStart(target[Base]) => WillStart(target[Base])'
    BY <1>1, <1>2, <1>3, <1>4, <2>1 DEF TypeOK, WillStart
  <2>4. Base = t => pc'[Base] = "switched" /\ Base # u
    BY <1>1, <1>2, <2>1, LifeFacts
  <2>5. pc'[Base] = "joinUnlock" \/ Waits(Base)' => joiner'[target'[Base]] = Base
    BY <1>1, <1>4, <2>1, <2>4, LifeFacts DEF LifeInv, ResultInv, Waits
  <2>6. pc'[Base] = "joined" => /\ state'[target'[Base]] \in Ended
                                /\ \/ joiner'[target'[Base]] = Base
                                   \/ \A x \in Threads : from'[x] # target'[Base]
    BY <1>4, <2>1, <2>2, <2>4, LifeFacts DEF LifeInv, ResultInv
  <2>7. pc'[Base] = "joinUnlock" => WillStart(target[Base])'
    BY <2>1, <2>3, <2>4, LifeFacts DEF LifeInv, ResultInv
  <2>8. ASSUME cont'[Base] = "joined", pc'[Base] \in {"stop", "switch", "switched"}
        PROVE  \/ WillStart(target[Base])'
               \/ Base \in Pending'
               \/ Base \in Running' /\ pc'[Base] = "switched"
    <3>1. CASE Base = u
      BY <1>1, <1>3, <1>5, <2>1, <3>1
    <3>2. CASE Base # u
      <4>1. Base \in Pending \/ WillStart(target[Base]) \/ (Base \in Running /\ pc[Base] = "switched")
        BY <1>1, <1>4, <2>1, <2>8, LifeFacts DEF LifeInv, ResultInv
      <4>2. Base \in Running /\ pc[Base] = "switched" => Base \in Running' /\ pc'[Base] = "switched"
        BY <1>1, <1>4, <2>1, LifeFacts DEF TypeOK, Running, t
      <4>3. QED
        BY <1>5, <2>3, <3>2, <4>1, <4>2
    <3>3. QED
      BY <3>1, <3>2
  <2>9. QED
    BY <2>5, <2>6, <2>7, <2>8 DEF ResultInv
<1>10. FreedInv'
  BY <1>1, <1>a, <1>2, <1>4 DEF TypeOK, LifeInv, FreedInv, Ended
<1>11. QED
  BY <1>6, <1>7, <1>8, <1>9, <1>10 DEF LifeInv

-----------------------------------------------------------------------------
(* The results about joining, from both invariants.                        *)

(* What holds of a joined or freed thread, in every state, ended or not. *)
Lifetime == JoinSeesResult /\ NoLostJoin /\ DetachedNotUsedAfterFree

LEMMA LifetimeHolds ==
  ASSUME RunToCompletion, TypeOK, Inv, LifeInv
  PROVE  Lifetime
<1>1. JoinSeesResult
  <2> SUFFICES ASSUME NEW t \in Threads, At(t, "joined")
               PROVE  state[target[t]] \in Ended /\ target[t] \notin freed
    BY DEF JoinSeesResult, Ended
  <2>1. t = Base /\ target[t] \in Threads
    BY LifeFacts DEF Inv, ClaimInv, JoinPC
  <2>2. QED
    BY <2>1 DEF LifeInv, ResultInv, FreedInv
<1>2. NoLostJoin
  <2> SUFFICES ASSUME NEW t \in Threads, cont[t] = "joined", pc[t] \in {"stop", "switch", "switched"}
               PROVE  \/ joiner[target[t]] = t /\ state[target[t]] # "DEAD"
                      \/ t \in Ready
                      \/ \E u \in Threads : Switching(u) /\ to[u] = t
                      \/ At(t, "switched")
    BY DEF NoLostJoin
  <2>1. t = Base
    BY DEF Inv, ClaimInv
  <2>2. t \in Held => \E u \in Threads : Switching(u) /\ to[u] = t
    BY LifeFacts DEF Held, Switching, Inv, QueueInv, CpuInv
  <2>3. QED
    BY <2>1, <2>2 DEF LifeInv, ResultInv, WillStart, Pending
<1>3. DetachedNotUsedAfterFree
  <2> SUFFICES ASSUME NEW w \in UsedAfterFree PROVE joiner[w] \in Threads
    BY DEF DetachedNotUsedAfterFree
  <2>1. w \in freed /\ state[w] \in Ended /\ w \in Threads
    BY DEF UsedAfterFree, LifeInv, FreedInv, TypeOK
  <2>2. w \notin Ready
    BY <2>1 DEF Inv, PendingInv, Pending
  <2>3. PICK t \in Running \ {NoThread} : w \in Touches(t)
    BY <2>2 DEF UsedAfterFree
  <2>4. t \in Threads /\ w # t
    BY <2>1, <2>3, SetTypes DEF Inv, CpuInv
  <2>5. pc[t] = "switch" => to[t] # w
    BY <2>1, <2>4, SetTypes DEF Inv, PendingInv, Pending, Held
  <2>6. target[t] # w
    BY <2>1, <2>4 DEF LifeInv, FreedInv
  <2>7. from[t] = w
    BY <2>3, <2>4, <2>5, <2>6 DEF Touches, ReapPC, JoinPC, DetachPC
  <2>8. QED
    BY <2>1, <2>4, <2>7 DEF LifeInv, FreedInv
<1>4. QED
  BY <1>1, <1>2, <1>3 DEF Lifetime

(* The process that has exited keeps its memory as it was. *)
LifeIInv == IInv /\ Lifetime /\ (Exited \/ LifeInv)

LEMMA ReturnLeavesAll ==
  ASSUME Inv, TypeOK, LifeInv, Lifetime, MainReturn
  PROVE  Lifetime'
<1>1. /\ pc[Base] = "user" /\ NoThread \notin Threads /\ \A p \in Procs : cur'[p] = NoThread
      /\ UNCHANGED <<state, joiner, freed, readyQueue, pc, from, to, cont, target>>
  BY ThreadsAssumption DEF MainReturn
<1>2. Running' \subseteq {NoThread} /\ Ready' = Ready
  BY <1>1 DEF Running, Ready
<1>3. JoinSeesResult'
  BY <1>1, <1>2 DEF JoinSeesResult
<1>4. NoLostJoin'
  BY <1>1 DEF NoLostJoin, Inv, ClaimInv
<1>5. UsedAfterFree' \subseteq freed \cap Ready
  BY <1>1, <1>2 DEF UsedAfterFree
<1>6. freed \cap Ready = {}
  BY DEF LifeInv, FreedInv, Inv, PendingInv, Pending, TypeOK
<1>7. QED
  BY <1>3, <1>4, <1>5, <1>6 DEF Lifetime, DetachedNotUsedAfterFree

LEMMA LifeKept ==
  ASSUME RunToCompletion, TypeOK, Inv, LifeInv, Next, ~MainReturn, ~Exited
  PROVE  TypeOK' /\ Inv' /\ LifeInv'
<1>2. CASE \E t \in Threads : Package(t)
  <2>1. PICK t \in Threads : Package(t)
    BY <1>2
  <2>2. Reap(t) => TypeOK' /\ Inv' /\ LifeInv'
    BY ReapLockInv, ReapFreeInv, ReapStartInv, ReapEnqueueInv, ReapNoJoinerInv,
       ReapDeadInv, ReapUnlockInv, ReapLockLife, ReapFreeLife, ReapStartLife,
       ReapEnqueueLife, ReapNoJoinerLife, ReapDeadLife, ReapUnlockLife DEF Reap
  <2>3. QED
    BY <2>1, <2>2, StopInv, SwitchSelfInv, FromDyingInv, FromLiveInv, ResumeInv,
       JoinLockInv, JoinWaitInv, JoinDeadInv, JoinUnlockInv, JoinedInv,
       DetachLockInv, DetachSetInv, DetachUnlockInv, DetachFreeInv, StopLife,
       SwitchSelfLife, FromDyingLife, FromLiveLife, ResumeLife, JoinLockLife,
       JoinWaitLife, JoinDeadLife, JoinUnlockLife, JoinedLife, DetachLockLife,
       DetachSetLife, DetachUnlockLife, DetachFreeLife DEF Package
<1>3. CASE \E t \in Threads : Client(t)
  BY <1>3, YieldInv, ReturnInv, CreateInv, JoinCallInv, DetachInv, HasJoinerInv,
     YieldLife, ReturnLife, CreateLife, JoinCallLife, DetachLife, HasJoinerLife DEF
     Client
<1>4. CASE \E p \in Procs : Switch(p)
  BY <1>4, SwitchInv, SwitchLife
<1>5. CASE Boot
  BY <1>5, InitDoneInv, SpawnPthreadInv, InitDoneLife, SpawnPthreadLife DEF Boot
<1>6. QED
  BY <1>2, <1>3, <1>4, <1>5 DEF Next, AfterExit

LEMMA UnchangedLife ==
  ASSUME UNCHANGED vars
  PROVE  /\ Lifetime => Lifetime'
         /\ Exited => Exited'
         /\ LifeInv => LifeInv'
<1>1. Running' = Running /\ Ready' = Ready /\ Held' = Held /\ Pending' = Pending
  BY DEF vars, Running, Ready, Held, Pending
<1>2. UsedAfterFree' = UsedAfterFree
  BY <1>1 DEF vars, UsedAfterFree, Touches
<1>3. Lifetime => Lifetime'
  BY <1>1, <1>2 DEF vars, Lifetime, JoinSeesResult, NoLostJoin, Switching,
     DetachedNotUsedAfterFree
<1>4. Exited => Exited'
  BY DEF vars, Exited
<1>5. TargetInv /\ LockInv /\ DeadInv /\ FreedInv => (TargetInv /\ LockInv /\ DeadInv /\ FreedInv)'
  BY DEF vars, TargetInv, LockInv, DeadInv, FreedInv, Waits
<1>6. ResultInv => ResultInv'
  BY <1>1 DEF vars, ResultInv, WillStart, Waits
<1>7. QED
  BY <1>3, <1>4, <1>5, <1>6 DEF LifeInv

LEMMA NextLife ==
  ASSUME RunToCompletion, LifeIInv, [Next]_vars
  PROVE  LifeIInv'
<1>1. IInv'
  BY NextInv DEF LifeIInv
<1>2. CASE UNCHANGED vars
  BY <1>1, <1>2, UnchangedLife DEF LifeIInv
<1>3. CASE Next /\ Exited
  BY <1>1, <1>3, ExitedStays, UnchangedLife DEF LifeIInv
<1>4. CASE MainReturn /\ ~Exited
  <2>1. Lifetime'
    BY <1>4, ReturnLeavesAll DEF LifeIInv, IInv
  <2>2. Exited'
    BY <1>4 DEF MainReturn, Exited
  <2>3. QED
    BY <1>1, <2>1, <2>2 DEF LifeIInv
<1>5. CASE Next /\ ~MainReturn /\ ~Exited
  <2>1. TypeOK' /\ Inv' /\ LifeInv'
    BY <1>5, LifeKept DEF LifeIInv, IInv
  <2>2. (TypeOK /\ Inv /\ LifeInv => Lifetime)'
    BY LifetimeHolds, PTL
  <2>3. QED
    BY <1>1, <2>1, <2>2 DEF LifeIInv
<1>6. QED
  BY <1>2, <1>3, <1>4, <1>5

LEMMA InitLife ==
  ASSUME RunToCompletion, Init
  PROVE  LifeIInv
<1>1. IInv
  BY InitInv
<1>2. ~Exited
  BY ThreadsAssumption DEF Init, Exited, Threads
<1>3. TargetInv /\ LockInv /\ DeadInv /\ FreedInv
  BY ThreadsAssumption DEF Init, TargetInv, LockInv, DeadInv, FreedInv, Threads,
     CallerLocked, ReaperLocked, ReapPC
<1>4. ResultInv
  BY ThreadsAssumption DEF Init, ResultInv, Waits, Threads
<1>5. QED
  BY <1>1, <1>2, <1>3, <1>4, LifetimeHolds DEF IInv, LifeInv, LifeIInv

LEMMA LifeInvariance ==
  ASSUME RunToCompletion
  PROVE  Spec => []LifeIInv
BY InitLife, NextLife, PTL DEF Spec

(* A join returns what the joined thread left: main() reads the result and *)
(* frees the thread only when that has ended, and once.                    *)
THEOREM JoinGetsResult ==
  ASSUME RunToCompletion
  PROVE  Spec => []JoinSeesResult
<1>1. LifeIInv => JoinSeesResult
  BY DEF LifeIInv, Lifetime
<1>2. QED
  BY <1>1, LifeInvariance, PTL

(* The joiner that blocks is never forgotten: from the unlock before its   *)
(* stop to the switch back, its target has yet to start it or it is on its *)
(* way through the ready queue.                                            *)
THEOREM JoinersAreStarted ==
  ASSUME RunToCompletion
  PROVE  Spec => []NoLostJoin
<1>1. LifeIInv => NoLostJoin
  BY DEF LifeIInv, Lifetime
<1>2. QED
  BY <1>1, LifeInvariance, PTL

(* A thread that is detached, or was DEAD when it was joined or detached,  *)
(* is freed by the last one that uses it, on any number of processors.     *)
THEOREM DetachedFreedLast ==
  ASSUME RunToCompletion
  PROVE  Spec => []DetachedNotUsedAfterFree
<1>1. LifeIInv => DetachedNotUsedAfterFree
  BY DEF LifeIInv, Lifetime
<1>2. QED
  BY <1>1, LifeInvariance, PTL

(* Two actions write the field joiner. *)
LEMMA WhoSetsJoiner ==
  ASSUME Next
  PROVE  joiner' = joiner \/ \E t \in Threads : JoinWait(t) \/ DetachSet(t)
<1>1. \A t \in Threads : Package(t) => joiner' = joiner \/ JoinWait(t) \/ DetachSet(t)
  BY DEF Package, Reap, Stop, SwitchSelf, FromDying, FromLive, ReapLock, ReapFree,
     ReapStart, ReapEnqueue, ReapNoJoiner, ReapDead, ReapUnlock, Resume, JoinLock,
     JoinDead, JoinUnlock, Joined, DetachLock, DetachUnlock, DetachFree, LockTarget
<1>2. \A t \in Threads : Client(t) => joiner' = joiner
  BY DEF Client, Yield, Return, Create, Join, Detach, HasJoiner, Claim
<1>3. Boot \/ MainReturn \/ (\E p \in Procs : Switch(p)) => joiner' = joiner
  BY DEF Boot, InitDone, SpawnPthread, MainReturn, Switch
<1>4. QED
  BY <1>1, <1>2, <1>3 DEF Next, AfterExit, vars

(* A joiner is set once: the check of joiner before the lock is enough, as *)
(* no other call can come between for the same thread.                     *)
THEOREM JoinerStays ==
  ASSUME RunToCompletion
  PROVE  Spec => JoinerKept
<1>1. IInv /\ [Next]_vars => [\A w \in Threads : joiner[w] # NoThread => joiner'[w] = joiner[w]]_vars
  <2> SUFFICES ASSUME IInv, Next, NEW w \in Threads, joiner[w] # NoThread
               PROVE  joiner'[w] = joiner[w]
    BY DEF vars
  <2>1. CASE Exited
    BY <2>1, ExitedStays DEF vars
  <2>2. CASE joiner' = joiner
    BY <2>2
  <2>3. ASSUME Inv, TypeOK, NEW t \in Threads, JoinWait(t) \/ DetachSet(t)
        PROVE  joiner'[w] = joiner[w]
    <3>1. pc[t] \in {"joinLocked", "detachLocked"} /\ joiner[target[t]] = NoThread
      BY <2>3 DEF JoinWait, DetachSet, SetJoiner, Inv, ClaimInv
    <3>2. target[t] # w
      BY <3>1
    <3>3. QED
      BY <2>3, <3>2 DEF JoinWait, DetachSet, SetJoiner, TypeOK
  <2>4. QED
    BY <2>1, <2>2, <2>3, WhoSetsJoiner DEF IInv
<1>2. QED
  BY <1>1, Invariance, PTL DEF Spec, JoinerKept
-----------------------------------------------------------------------------
(* Where everybody is, on any number of processors.                        *)

(* The thread that will reap w. *)
Reaps(t, w) ==
  t \in Running /\ from[t] = w /\ pc[t] \in {"switched"} \cup (ReapPC \ {"reapUnlock"})

(* A worker that has been created is pending or runs until it dies; then   *)
(* somebody is about to reap it, unless it was detached and freed; and     *)
(* main() is pending, runs, or waits in join.                              *)
BornInv == \A w \in Workers \cap claimed : state[w] # "UNBORN"
WorkInv == \A w \in Workers : state[w] \in {"UNBORN"} \cup Ended \/ w \in Pending \cup Running
ReapInv == \A w \in Workers : state[w] = "DYING" /\ joiner[w] # Detached
                               => \E t \in Threads : Reaps(t, w)
MainInv == \/ Base \in Running /\ pc[Base] \notin {"stop", "switch"}
           \/ Base \in Pending
           \/ cont[Base] = "joined"
PlaceInv == BornInv /\ WorkInv /\ ReapInv /\ MainInv

LEMMA ReapKept ==
  ASSUME ReapInv,
         \A w \in Workers : state'[w] = "DYING" /\ joiner'[w] # Detached =>
           /\ state[w] = "DYING" /\ joiner[w] # Detached
           /\ \A t \in Threads : Reaps(t, w) => Reaps(t, w)'
  PROVE  ReapInv'
BY DEF ReapInv

LEMMA FromDyingPlace ==
  ASSUME RunToCompletion, TypeOK, Inv, PlaceInv, NEW t \in Threads, FromDying(t)
  PROVE  PlaceInv'
<1>1. Running' = Running /\ Pending' = Pending
  BY DEF FromDying, Running, Pending, Ready, Held
<1>2. BornInv'
  BY LifeFacts DEF FromDying, TypeOK, Inv, CpuInv, FromInv, PlaceInv, BornInv,
     ReapPC
<1>3. WorkInv'
  BY <1>1, LifeFacts DEF FromDying, TypeOK, Inv, CpuInv, FromInv, DyingInv,
     JoinInv, PlaceInv, WorkInv, Ended, ReapPC
<1>4. ReapInv'
  <2>1. ASSUME NEW x \in Workers, state'[x] = "DYING", joiner'[x] # Detached
        PROVE  state[x] = "DYING" /\ joiner[x] # Detached
    BY <2>1, LifeFacts DEF FromDying, TypeOK, Inv, CpuInv, FromInv, ClaimInv,
       DyingInv, Ended, ReapPC, JoinPC, DetachPC
  <2>2. ASSUME NEW x \in Workers, state'[x] = "DYING", joiner'[x] # Detached,
               NEW y \in Threads, Reaps(y, x)
        PROVE  Reaps(y, x)'
    BY <1>1, <2>1, <2>2, LifeFacts DEF FromDying, TypeOK, Reaps, Inv, CpuInv,
       FromInv, ClaimInv, DyingInv, Ended, ReapPC, JoinPC, DetachPC
  <2>3. QED
    BY <2>1, <2>2, ReapKept DEF PlaceInv
<1>5. MainInv'
  BY <1>1, LifeFacts DEF FromDying, TypeOK, Inv, ClaimInv, PlaceInv, MainInv,
     ReapPC, JoinPC
<1>6. QED
  BY <1>2, <1>3, <1>4, <1>5 DEF PlaceInv

LEMMA FromLivePlace ==
  ASSUME RunToCompletion, TypeOK, Inv, PlaceInv, NEW t \in Threads, FromLive(t)
  PROVE  PlaceInv'
<1>1. Running' = Running /\ Pending' = Pending
  BY DEF FromLive, Running, Pending, Ready, Held
<1>2. BornInv'
  BY LifeFacts DEF FromLive, TypeOK, Inv, CpuInv, FromInv, PlaceInv, BornInv,
     ReapPC
<1>3. WorkInv'
  BY <1>1, LifeFacts DEF FromLive, TypeOK, Inv, CpuInv, FromInv, DyingInv,
     JoinInv, PlaceInv, WorkInv, Ended, ReapPC
<1>4. ReapInv'
  <2>1. ASSUME NEW x \in Workers, state'[x] = "DYING", joiner'[x] # Detached
        PROVE  state[x] = "DYING" /\ joiner[x] # Detached
    BY <2>1, LifeFacts DEF FromLive, TypeOK, Inv, CpuInv, FromInv, ClaimInv,
       DyingInv, Ended, ReapPC, JoinPC, DetachPC
  <2>2. ASSUME NEW x \in Workers, state'[x] = "DYING", joiner'[x] # Detached,
               NEW y \in Threads, Reaps(y, x)
        PROVE  Reaps(y, x)'
    BY <1>1, <2>1, <2>2, LifeFacts DEF FromLive, TypeOK, Reaps, Inv, CpuInv,
       FromInv, ClaimInv, DyingInv, Ended, ReapPC, JoinPC, DetachPC
  <2>3. QED
    BY <2>1, <2>2, ReapKept DEF PlaceInv
<1>5. MainInv'
  BY <1>1, LifeFacts DEF FromLive, TypeOK, Inv, ClaimInv, PlaceInv, MainInv,
     ReapPC, JoinPC
<1>6. QED
  BY <1>2, <1>3, <1>4, <1>5 DEF PlaceInv

LEMMA ReapLockPlace ==
  ASSUME RunToCompletion, TypeOK, Inv, PlaceInv, NEW t \in Threads, ReapLock(t)
  PROVE  PlaceInv'
<1>1. Running' = Running /\ Pending' = Pending
  BY DEF ReapLock, Running, Pending, Ready, Held
<1>2. BornInv'
  BY LifeFacts DEF ReapLock, TypeOK, Inv, CpuInv, FromInv, PlaceInv, BornInv,
     ReapPC
<1>3. WorkInv'
  BY <1>1, LifeFacts DEF ReapLock, TypeOK, Inv, CpuInv, FromInv, DyingInv,
     JoinInv, PlaceInv, WorkInv, Ended, ReapPC
<1>4. ReapInv'
  <2>1. ASSUME NEW x \in Workers, state'[x] = "DYING", joiner'[x] # Detached
        PROVE  state[x] = "DYING" /\ joiner[x] # Detached
    BY <2>1, LifeFacts DEF ReapLock, TypeOK, Inv, CpuInv, FromInv, ClaimInv,
       DyingInv, Ended, ReapPC, JoinPC, DetachPC
  <2>2. ASSUME NEW x \in Workers, state'[x] = "DYING", joiner'[x] # Detached,
               NEW y \in Threads, Reaps(y, x)
        PROVE  Reaps(y, x)'
    BY <1>1, <2>1, <2>2, LifeFacts DEF ReapLock, TypeOK, Reaps, Inv, CpuInv,
       FromInv, ClaimInv, DyingInv, Ended, ReapPC, JoinPC, DetachPC
  <2>3. QED
    BY <2>1, <2>2, ReapKept DEF PlaceInv
<1>5. MainInv'
  BY <1>1, LifeFacts DEF ReapLock, TypeOK, Inv, ClaimInv, PlaceInv, MainInv,
     ReapPC, JoinPC
<1>6. QED
  BY <1>2, <1>3, <1>4, <1>5 DEF PlaceInv

LEMMA ReapFreePlace ==
  ASSUME RunToCompletion, TypeOK, Inv, PlaceInv, NEW t \in Threads, ReapFree(t)
  PROVE  PlaceInv'
<1>1. Running' = Running /\ Pending' = Pending
  BY DEF ReapFree, Running, Pending, Ready, Held
<1>2. BornInv'
  BY LifeFacts DEF ReapFree, TypeOK, Inv, CpuInv, FromInv, PlaceInv, BornInv,
     ReapPC
<1>3. WorkInv'
  BY <1>1, LifeFacts DEF ReapFree, TypeOK, Inv, CpuInv, FromInv, DyingInv,
     JoinInv, PlaceInv, WorkInv, Ended, ReapPC
<1>4. ReapInv'
  <2>1. ASSUME NEW x \in Workers, state'[x] = "DYING", joiner'[x] # Detached
        PROVE  state[x] = "DYING" /\ joiner[x] # Detached
    BY <2>1, LifeFacts DEF ReapFree, TypeOK, Inv, CpuInv, FromInv, ClaimInv,
       DyingInv, Ended, ReapPC, JoinPC, DetachPC
  <2>2. ASSUME NEW x \in Workers, state'[x] = "DYING", joiner'[x] # Detached,
               NEW y \in Threads, Reaps(y, x)
        PROVE  Reaps(y, x)'
    BY <1>1, <2>1, <2>2, LifeFacts DEF ReapFree, TypeOK, Reaps, Inv, CpuInv,
       FromInv, ClaimInv, DyingInv, Ended, ReapPC, JoinPC, DetachPC
  <2>3. QED
    BY <2>1, <2>2, ReapKept DEF PlaceInv
<1>5. MainInv'
  BY <1>1, LifeFacts DEF ReapFree, TypeOK, Inv, ClaimInv, PlaceInv, MainInv,
     ReapPC, JoinPC
<1>6. QED
  BY <1>2, <1>3, <1>4, <1>5 DEF PlaceInv

LEMMA ReapStartPlace ==
  ASSUME RunToCompletion, TypeOK, Inv, PlaceInv, NEW t \in Threads, ReapStart(t)
  PROVE  PlaceInv'
<1>1. Running' = Running /\ Pending' = Pending
  BY DEF ReapStart, Running, Pending, Ready, Held
<1>2. BornInv'
  BY LifeFacts DEF ReapStart, TypeOK, Inv, CpuInv, FromInv, PlaceInv, BornInv,
     ReapPC
<1>3. WorkInv'
  BY <1>1, LifeFacts DEF ReapStart, TypeOK, Inv, CpuInv, FromInv, DyingInv,
     JoinInv, PlaceInv, WorkInv, Ended, ReapPC
<1>4. ReapInv'
  <2>1. ASSUME NEW x \in Workers, state'[x] = "DYING", joiner'[x] # Detached
        PROVE  state[x] = "DYING" /\ joiner[x] # Detached
    BY <2>1, LifeFacts DEF ReapStart, TypeOK, Inv, CpuInv, FromInv, ClaimInv,
       DyingInv, Ended, ReapPC, JoinPC, DetachPC
  <2>2. ASSUME NEW x \in Workers, state'[x] = "DYING", joiner'[x] # Detached,
               NEW y \in Threads, Reaps(y, x)
        PROVE  Reaps(y, x)'
    BY <1>1, <2>1, <2>2, LifeFacts DEF ReapStart, TypeOK, Reaps, Inv, CpuInv,
       FromInv, ClaimInv, DyingInv, Ended, ReapPC, JoinPC, DetachPC
  <2>3. QED
    BY <2>1, <2>2, ReapKept DEF PlaceInv
<1>5. MainInv'
  BY <1>1, LifeFacts DEF ReapStart, TypeOK, Inv, ClaimInv, PlaceInv, MainInv,
     ReapPC, JoinPC
<1>6. QED
  BY <1>2, <1>3, <1>4, <1>5 DEF PlaceInv

LEMMA ReapNoJoinerPlace ==
  ASSUME RunToCompletion, TypeOK, Inv, PlaceInv, NEW t \in Threads, ReapNoJoiner(t)
  PROVE  PlaceInv'
<1>1. Running' = Running /\ Pending' = Pending
  BY DEF ReapNoJoiner, Running, Pending, Ready, Held
<1>2. BornInv'
  BY LifeFacts DEF ReapNoJoiner, TypeOK, Inv, CpuInv, FromInv, PlaceInv,
     BornInv, ReapPC
<1>3. WorkInv'
  BY <1>1, LifeFacts DEF ReapNoJoiner, TypeOK, Inv, CpuInv, FromInv, DyingInv,
     JoinInv, PlaceInv, WorkInv, Ended, ReapPC
<1>4. ReapInv'
  <2>1. ASSUME NEW x \in Workers, state'[x] = "DYING", joiner'[x] # Detached
        PROVE  state[x] = "DYING" /\ joiner[x] # Detached
    BY <2>1, LifeFacts DEF ReapNoJoiner, TypeOK, Inv, CpuInv, FromInv,
       ClaimInv, DyingInv, Ended, ReapPC, JoinPC, DetachPC
  <2>2. ASSUME NEW x \in Workers, state'[x] = "DYING", joiner'[x] # Detached,
               NEW y \in Threads, Reaps(y, x)
        PROVE  Reaps(y, x)'
    BY <1>1, <2>1, <2>2, LifeFacts DEF ReapNoJoiner, TypeOK, Reaps, Inv,
       CpuInv, FromInv, ClaimInv, DyingInv, Ended, ReapPC, JoinPC, DetachPC
  <2>3. QED
    BY <2>1, <2>2, ReapKept DEF PlaceInv
<1>5. MainInv'
  BY <1>1, LifeFacts DEF ReapNoJoiner, TypeOK, Inv, ClaimInv, PlaceInv,
     MainInv, ReapPC, JoinPC
<1>6. QED
  BY <1>2, <1>3, <1>4, <1>5 DEF PlaceInv

LEMMA ReapDeadPlace ==
  ASSUME RunToCompletion, TypeOK, Inv, PlaceInv, NEW t \in Threads, ReapDead(t)
  PROVE  PlaceInv'
<1>1. Running' = Running /\ Pending' = Pending
  BY DEF ReapDead, Running, Pending, Ready, Held
<1>2. BornInv'
  BY LifeFacts DEF ReapDead, TypeOK, Inv, CpuInv, FromInv, PlaceInv, BornInv,
     ReapPC
<1>3. WorkInv'
  BY <1>1, LifeFacts DEF ReapDead, TypeOK, Inv, CpuInv, FromInv, DyingInv,
     JoinInv, PlaceInv, WorkInv, Ended, ReapPC
<1>4. ReapInv'
  <2>1. ASSUME NEW x \in Workers, state'[x] = "DYING", joiner'[x] # Detached
        PROVE  state[x] = "DYING" /\ joiner[x] # Detached
    BY <2>1, LifeFacts DEF ReapDead, TypeOK, Inv, CpuInv, FromInv, ClaimInv,
       DyingInv, Ended, ReapPC, JoinPC, DetachPC
  <2>2. ASSUME NEW x \in Workers, state'[x] = "DYING", joiner'[x] # Detached,
               NEW y \in Threads, Reaps(y, x)
        PROVE  Reaps(y, x)'
    BY <1>1, <2>1, <2>2, LifeFacts DEF ReapDead, TypeOK, Reaps, Inv, CpuInv,
       FromInv, ClaimInv, DyingInv, Ended, ReapPC, JoinPC, DetachPC
  <2>3. QED
    BY <2>1, <2>2, ReapKept DEF PlaceInv
<1>5. MainInv'
  BY <1>1, LifeFacts DEF ReapDead, TypeOK, Inv, ClaimInv, PlaceInv, MainInv,
     ReapPC, JoinPC
<1>6. QED
  BY <1>2, <1>3, <1>4, <1>5 DEF PlaceInv

LEMMA ReapUnlockPlace ==
  ASSUME RunToCompletion, TypeOK, Inv, PlaceInv, NEW t \in Threads, ReapUnlock(t)
  PROVE  PlaceInv'
<1>1. Running' = Running /\ Pending' = Pending
  BY DEF ReapUnlock, Running, Pending, Ready, Held
<1>2. BornInv'
  BY LifeFacts DEF ReapUnlock, TypeOK, Inv, CpuInv, FromInv, PlaceInv,
     BornInv, ReapPC
<1>3. WorkInv'
  BY <1>1, LifeFacts DEF ReapUnlock, TypeOK, Inv, CpuInv, FromInv, DyingInv,
     JoinInv, PlaceInv, WorkInv, Ended, ReapPC
<1>4. ReapInv'
  <2>1. ASSUME NEW x \in Workers, state'[x] = "DYING", joiner'[x] # Detached
        PROVE  state[x] = "DYING" /\ joiner[x] # Detached
    BY <2>1, LifeFacts DEF ReapUnlock, TypeOK, Inv, CpuInv, FromInv, ClaimInv,
       DyingInv, Ended, ReapPC, JoinPC, DetachPC
  <2>2. ASSUME NEW x \in Workers, state'[x] = "DYING", joiner'[x] # Detached,
               NEW y \in Threads, Reaps(y, x)
        PROVE  Reaps(y, x)'
    BY <1>1, <2>1, <2>2, LifeFacts DEF ReapUnlock, TypeOK, Reaps, Inv, CpuInv,
       FromInv, ClaimInv, DyingInv, Ended, ReapPC, JoinPC, DetachPC
  <2>3. QED
    BY <2>1, <2>2, ReapKept DEF PlaceInv
<1>5. MainInv'
  BY <1>1, LifeFacts DEF ReapUnlock, TypeOK, Inv, ClaimInv, PlaceInv, MainInv,
     ReapPC, JoinPC
<1>6. QED
  BY <1>2, <1>3, <1>4, <1>5 DEF PlaceInv

LEMMA ResumePlace ==
  ASSUME RunToCompletion, TypeOK, Inv, PlaceInv, NEW t \in Threads, Resume(t)
  PROVE  PlaceInv'
<1>1. Running' = Running /\ Pending' = Pending
  BY DEF Resume, Running, Pending, Ready, Held
<1>2. BornInv'
  BY LifeFacts DEF Resume, TypeOK, Inv, CpuInv, FromInv, PlaceInv, BornInv,
     ReapPC
<1>3. WorkInv'
  BY <1>1, LifeFacts DEF Resume, TypeOK, Inv, CpuInv, FromInv, DyingInv,
     JoinInv, PlaceInv, WorkInv, Ended, ReapPC
<1>4. ReapInv'
  <2>1. ASSUME NEW x \in Workers, state'[x] = "DYING", joiner'[x] # Detached
        PROVE  state[x] = "DYING" /\ joiner[x] # Detached
    BY <2>1, LifeFacts DEF Resume, TypeOK, Inv, CpuInv, FromInv, ClaimInv,
       DyingInv, Ended, ReapPC, JoinPC, DetachPC
  <2>2. ASSUME NEW x \in Workers, state'[x] = "DYING", joiner'[x] # Detached,
               NEW y \in Threads, Reaps(y, x)
        PROVE  Reaps(y, x)'
    BY <1>1, <2>1, <2>2, LifeFacts DEF Resume, TypeOK, Reaps, Inv, CpuInv,
       FromInv, ClaimInv, DyingInv, Ended, ReapPC, JoinPC, DetachPC
  <2>3. QED
    BY <2>1, <2>2, ReapKept DEF PlaceInv
<1>5. MainInv'
  BY <1>1, LifeFacts DEF Resume, TypeOK, Inv, ClaimInv, PlaceInv, MainInv,
     ReapPC, JoinPC
<1>6. QED
  BY <1>2, <1>3, <1>4, <1>5 DEF PlaceInv

LEMMA JoinLockPlace ==
  ASSUME RunToCompletion, TypeOK, Inv, PlaceInv, NEW t \in Threads, JoinLock(t)
  PROVE  PlaceInv'
<1>1. Running' = Running /\ Pending' = Pending
  BY DEF JoinLock, LockTarget, Running, Pending, Ready, Held
<1>2. BornInv'
  BY LifeFacts DEF JoinLock, LockTarget, TypeOK, Inv, CpuInv, FromInv,
     PlaceInv, BornInv, ReapPC
<1>3. WorkInv'
  BY <1>1, LifeFacts DEF JoinLock, LockTarget, TypeOK, Inv, CpuInv, FromInv,
     DyingInv, JoinInv, PlaceInv, WorkInv, Ended, ReapPC
<1>4. ReapInv'
  <2>1. ASSUME NEW x \in Workers, state'[x] = "DYING", joiner'[x] # Detached
        PROVE  state[x] = "DYING" /\ joiner[x] # Detached
    BY <2>1, LifeFacts DEF JoinLock, LockTarget, TypeOK, Inv, CpuInv, FromInv,
       ClaimInv, DyingInv, Ended, ReapPC, JoinPC, DetachPC
  <2>2. ASSUME NEW x \in Workers, state'[x] = "DYING", joiner'[x] # Detached,
               NEW y \in Threads, Reaps(y, x)
        PROVE  Reaps(y, x)'
    BY <1>1, <2>1, <2>2, LifeFacts DEF JoinLock, LockTarget, TypeOK, Reaps,
       Inv, CpuInv, FromInv, ClaimInv, DyingInv, Ended, ReapPC, JoinPC,
       DetachPC
  <2>3. QED
    BY <2>1, <2>2, ReapKept DEF PlaceInv
<1>5. MainInv'
  BY <1>1, LifeFacts DEF JoinLock, LockTarget, TypeOK, Inv, ClaimInv,
     PlaceInv, MainInv, ReapPC, JoinPC
<1>6. QED
  BY <1>2, <1>3, <1>4, <1>5 DEF PlaceInv

LEMMA JoinWaitPlace ==
  ASSUME RunToCompletion, TypeOK, Inv, PlaceInv, NEW t \in Threads, JoinWait(t)
  PROVE  PlaceInv'
<1>1. Running' = Running /\ Pending' = Pending
  BY DEF JoinWait, SetJoiner, Running, Pending, Ready, Held
<1>2. BornInv'
  BY LifeFacts DEF JoinWait, SetJoiner, TypeOK, Inv, CpuInv, FromInv,
     PlaceInv, BornInv, ReapPC
<1>3. WorkInv'
  BY <1>1, LifeFacts DEF JoinWait, SetJoiner, TypeOK, Inv, CpuInv, FromInv,
     DyingInv, JoinInv, PlaceInv, WorkInv, Ended, ReapPC
<1>4. ReapInv'
  <2>1. ASSUME NEW x \in Workers, state'[x] = "DYING", joiner'[x] # Detached
        PROVE  state[x] = "DYING" /\ joiner[x] # Detached
    BY <2>1, LifeFacts DEF JoinWait, SetJoiner, TypeOK, Inv, CpuInv, FromInv,
       ClaimInv, DyingInv, Ended, ReapPC, JoinPC, DetachPC
  <2>2. ASSUME NEW x \in Workers, state'[x] = "DYING", joiner'[x] # Detached,
               NEW y \in Threads, Reaps(y, x)
        PROVE  Reaps(y, x)'
    BY <1>1, <2>1, <2>2, LifeFacts DEF JoinWait, SetJoiner, TypeOK, Reaps,
       Inv, CpuInv, FromInv, ClaimInv, DyingInv, Ended, ReapPC, JoinPC,
       DetachPC
  <2>3. QED
    BY <2>1, <2>2, ReapKept DEF PlaceInv
<1>5. MainInv'
  BY <1>1, LifeFacts DEF JoinWait, SetJoiner, TypeOK, Inv, ClaimInv, PlaceInv,
     MainInv, ReapPC, JoinPC
<1>6. QED
  BY <1>2, <1>3, <1>4, <1>5 DEF PlaceInv

LEMMA JoinDeadPlace ==
  ASSUME RunToCompletion, TypeOK, Inv, PlaceInv, NEW t \in Threads, JoinDead(t)
  PROVE  PlaceInv'
<1>1. Running' = Running /\ Pending' = Pending
  BY DEF JoinDead, Running, Pending, Ready, Held
<1>2. BornInv'
  BY LifeFacts DEF JoinDead, TypeOK, Inv, CpuInv, FromInv, PlaceInv, BornInv,
     ReapPC
<1>3. WorkInv'
  BY <1>1, LifeFacts DEF JoinDead, TypeOK, Inv, CpuInv, FromInv, DyingInv,
     JoinInv, PlaceInv, WorkInv, Ended, ReapPC
<1>4. ReapInv'
  <2>1. ASSUME NEW x \in Workers, state'[x] = "DYING", joiner'[x] # Detached
        PROVE  state[x] = "DYING" /\ joiner[x] # Detached
    BY <2>1, LifeFacts DEF JoinDead, TypeOK, Inv, CpuInv, FromInv, ClaimInv,
       DyingInv, Ended, ReapPC, JoinPC, DetachPC
  <2>2. ASSUME NEW x \in Workers, state'[x] = "DYING", joiner'[x] # Detached,
               NEW y \in Threads, Reaps(y, x)
        PROVE  Reaps(y, x)'
    BY <1>1, <2>1, <2>2, LifeFacts DEF JoinDead, TypeOK, Reaps, Inv, CpuInv,
       FromInv, ClaimInv, DyingInv, Ended, ReapPC, JoinPC, DetachPC
  <2>3. QED
    BY <2>1, <2>2, ReapKept DEF PlaceInv
<1>5. MainInv'
  BY <1>1, LifeFacts DEF JoinDead, TypeOK, Inv, ClaimInv, PlaceInv, MainInv,
     ReapPC, JoinPC
<1>6. QED
  BY <1>2, <1>3, <1>4, <1>5 DEF PlaceInv

LEMMA JoinUnlockPlace ==
  ASSUME RunToCompletion, TypeOK, Inv, PlaceInv, NEW t \in Threads, JoinUnlock(t)
  PROVE  PlaceInv'
<1>1. Running' = Running /\ Pending' = Pending
  BY DEF JoinUnlock, Running, Pending, Ready, Held
<1>2. BornInv'
  BY LifeFacts DEF JoinUnlock, TypeOK, Inv, CpuInv, FromInv, PlaceInv,
     BornInv, ReapPC
<1>3. WorkInv'
  BY <1>1, LifeFacts DEF JoinUnlock, TypeOK, Inv, CpuInv, FromInv, DyingInv,
     JoinInv, PlaceInv, WorkInv, Ended, ReapPC
<1>4. ReapInv'
  <2>1. ASSUME NEW x \in Workers, state'[x] = "DYING", joiner'[x] # Detached
        PROVE  state[x] = "DYING" /\ joiner[x] # Detached
    BY <2>1, LifeFacts DEF JoinUnlock, TypeOK, Inv, CpuInv, FromInv, ClaimInv,
       DyingInv, Ended, ReapPC, JoinPC, DetachPC
  <2>2. ASSUME NEW x \in Workers, state'[x] = "DYING", joiner'[x] # Detached,
               NEW y \in Threads, Reaps(y, x)
        PROVE  Reaps(y, x)'
    BY <1>1, <2>1, <2>2, LifeFacts DEF JoinUnlock, TypeOK, Reaps, Inv, CpuInv,
       FromInv, ClaimInv, DyingInv, Ended, ReapPC, JoinPC, DetachPC
  <2>3. QED
    BY <2>1, <2>2, ReapKept DEF PlaceInv
<1>5. MainInv'
  BY <1>1, LifeFacts DEF JoinUnlock, TypeOK, Inv, ClaimInv, PlaceInv, MainInv,
     ReapPC, JoinPC
<1>6. QED
  BY <1>2, <1>3, <1>4, <1>5 DEF PlaceInv

LEMMA JoinedPlace ==
  ASSUME RunToCompletion, TypeOK, Inv, PlaceInv, NEW t \in Threads, Joined(t)
  PROVE  PlaceInv'
<1>1. Running' = Running /\ Pending' = Pending
  BY DEF Joined, Running, Pending, Ready, Held
<1>2. BornInv'
  BY LifeFacts DEF Joined, TypeOK, Inv, CpuInv, FromInv, PlaceInv, BornInv,
     ReapPC
<1>3. WorkInv'
  BY <1>1, LifeFacts DEF Joined, TypeOK, Inv, CpuInv, FromInv, DyingInv,
     JoinInv, PlaceInv, WorkInv, Ended, ReapPC
<1>4. ReapInv'
  <2>1. ASSUME NEW x \in Workers, state'[x] = "DYING", joiner'[x] # Detached
        PROVE  state[x] = "DYING" /\ joiner[x] # Detached
    BY <2>1, LifeFacts DEF Joined, TypeOK, Inv, CpuInv, FromInv, ClaimInv,
       DyingInv, Ended, ReapPC, JoinPC, DetachPC
  <2>2. ASSUME NEW x \in Workers, state'[x] = "DYING", joiner'[x] # Detached,
               NEW y \in Threads, Reaps(y, x)
        PROVE  Reaps(y, x)'
    BY <1>1, <2>1, <2>2, LifeFacts DEF Joined, TypeOK, Reaps, Inv, CpuInv,
       FromInv, ClaimInv, DyingInv, Ended, ReapPC, JoinPC, DetachPC
  <2>3. QED
    BY <2>1, <2>2, ReapKept DEF PlaceInv
<1>5. MainInv'
  BY <1>1, LifeFacts DEF Joined, TypeOK, Inv, ClaimInv, PlaceInv, MainInv,
     ReapPC, JoinPC
<1>6. QED
  BY <1>2, <1>3, <1>4, <1>5 DEF PlaceInv

LEMMA DetachLockPlace ==
  ASSUME RunToCompletion, TypeOK, Inv, PlaceInv, NEW t \in Threads, DetachLock(t)
  PROVE  PlaceInv'
<1>1. Running' = Running /\ Pending' = Pending
  BY DEF DetachLock, LockTarget, Running, Pending, Ready, Held
<1>2. BornInv'
  BY LifeFacts DEF DetachLock, LockTarget, TypeOK, Inv, CpuInv, FromInv,
     PlaceInv, BornInv, ReapPC
<1>3. WorkInv'
  BY <1>1, LifeFacts DEF DetachLock, LockTarget, TypeOK, Inv, CpuInv, FromInv,
     DyingInv, JoinInv, PlaceInv, WorkInv, Ended, ReapPC
<1>4. ReapInv'
  <2>1. ASSUME NEW x \in Workers, state'[x] = "DYING", joiner'[x] # Detached
        PROVE  state[x] = "DYING" /\ joiner[x] # Detached
    BY <2>1, LifeFacts DEF DetachLock, LockTarget, TypeOK, Inv, CpuInv,
       FromInv, ClaimInv, DyingInv, Ended, ReapPC, JoinPC, DetachPC
  <2>2. ASSUME NEW x \in Workers, state'[x] = "DYING", joiner'[x] # Detached,
               NEW y \in Threads, Reaps(y, x)
        PROVE  Reaps(y, x)'
    BY <1>1, <2>1, <2>2, LifeFacts DEF DetachLock, LockTarget, TypeOK, Reaps,
       Inv, CpuInv, FromInv, ClaimInv, DyingInv, Ended, ReapPC, JoinPC,
       DetachPC
  <2>3. QED
    BY <2>1, <2>2, ReapKept DEF PlaceInv
<1>5. MainInv'
  BY <1>1, LifeFacts DEF DetachLock, LockTarget, TypeOK, Inv, ClaimInv,
     PlaceInv, MainInv, ReapPC, JoinPC
<1>6. QED
  BY <1>2, <1>3, <1>4, <1>5 DEF PlaceInv

LEMMA DetachSetPlace ==
  ASSUME RunToCompletion, TypeOK, Inv, PlaceInv, NEW t \in Threads, DetachSet(t)
  PROVE  PlaceInv'
<1>1. Running' = Running /\ Pending' = Pending
  BY DEF DetachSet, SetJoiner, Running, Pending, Ready, Held
<1>2. BornInv'
  BY LifeFacts DEF DetachSet, SetJoiner, TypeOK, Inv, CpuInv, FromInv,
     PlaceInv, BornInv, ReapPC
<1>3. WorkInv'
  BY <1>1, LifeFacts DEF DetachSet, SetJoiner, TypeOK, Inv, CpuInv, FromInv,
     DyingInv, JoinInv, PlaceInv, WorkInv, Ended, ReapPC
<1>4. ReapInv'
  <2>1. ASSUME NEW x \in Workers, state'[x] = "DYING", joiner'[x] # Detached
        PROVE  state[x] = "DYING" /\ joiner[x] # Detached
    BY <2>1, LifeFacts DEF DetachSet, SetJoiner, TypeOK, Inv, CpuInv, FromInv,
       ClaimInv, DyingInv, Ended, ReapPC, JoinPC, DetachPC
  <2>2. ASSUME NEW x \in Workers, state'[x] = "DYING", joiner'[x] # Detached,
               NEW y \in Threads, Reaps(y, x)
        PROVE  Reaps(y, x)'
    BY <1>1, <2>1, <2>2, LifeFacts DEF DetachSet, SetJoiner, TypeOK, Reaps,
       Inv, CpuInv, FromInv, ClaimInv, DyingInv, Ended, ReapPC, JoinPC,
       DetachPC
  <2>3. QED
    BY <2>1, <2>2, ReapKept DEF PlaceInv
<1>5. MainInv'
  BY <1>1, LifeFacts DEF DetachSet, SetJoiner, TypeOK, Inv, ClaimInv,
     PlaceInv, MainInv, ReapPC, JoinPC
<1>6. QED
  BY <1>2, <1>3, <1>4, <1>5 DEF PlaceInv

LEMMA DetachUnlockPlace ==
  ASSUME RunToCompletion, TypeOK, Inv, PlaceInv, NEW t \in Threads, DetachUnlock(t)
  PROVE  PlaceInv'
<1>1. Running' = Running /\ Pending' = Pending
  BY DEF DetachUnlock, Running, Pending, Ready, Held
<1>2. BornInv'
  BY LifeFacts DEF DetachUnlock, TypeOK, Inv, CpuInv, FromInv, PlaceInv,
     BornInv, ReapPC
<1>3. WorkInv'
  BY <1>1, LifeFacts DEF DetachUnlock, TypeOK, Inv, CpuInv, FromInv, DyingInv,
     JoinInv, PlaceInv, WorkInv, Ended, ReapPC
<1>4. ReapInv'
  <2>1. ASSUME NEW x \in Workers, state'[x] = "DYING", joiner'[x] # Detached
        PROVE  state[x] = "DYING" /\ joiner[x] # Detached
    BY <2>1, LifeFacts DEF DetachUnlock, TypeOK, Inv, CpuInv, FromInv,
       ClaimInv, DyingInv, Ended, ReapPC, JoinPC, DetachPC
  <2>2. ASSUME NEW x \in Workers, state'[x] = "DYING", joiner'[x] # Detached,
               NEW y \in Threads, Reaps(y, x)
        PROVE  Reaps(y, x)'
    BY <1>1, <2>1, <2>2, LifeFacts DEF DetachUnlock, TypeOK, Reaps, Inv,
       CpuInv, FromInv, ClaimInv, DyingInv, Ended, ReapPC, JoinPC, DetachPC
  <2>3. QED
    BY <2>1, <2>2, ReapKept DEF PlaceInv
<1>5. MainInv'
  BY <1>1, LifeFacts DEF DetachUnlock, TypeOK, Inv, ClaimInv, PlaceInv,
     MainInv, ReapPC, JoinPC
<1>6. QED
  BY <1>2, <1>3, <1>4, <1>5 DEF PlaceInv

LEMMA DetachFreePlace ==
  ASSUME RunToCompletion, TypeOK, Inv, PlaceInv, NEW t \in Threads, DetachFree(t)
  PROVE  PlaceInv'
<1>1. Running' = Running /\ Pending' = Pending
  BY DEF DetachFree, Running, Pending, Ready, Held
<1>2. BornInv'
  BY LifeFacts DEF DetachFree, TypeOK, Inv, CpuInv, FromInv, PlaceInv,
     BornInv, ReapPC
<1>3. WorkInv'
  BY <1>1, LifeFacts DEF DetachFree, TypeOK, Inv, CpuInv, FromInv, DyingInv,
     JoinInv, PlaceInv, WorkInv, Ended, ReapPC
<1>4. ReapInv'
  <2>1. ASSUME NEW x \in Workers, state'[x] = "DYING", joiner'[x] # Detached
        PROVE  state[x] = "DYING" /\ joiner[x] # Detached
    BY <2>1, LifeFacts DEF DetachFree, TypeOK, Inv, CpuInv, FromInv, ClaimInv,
       DyingInv, Ended, ReapPC, JoinPC, DetachPC
  <2>2. ASSUME NEW x \in Workers, state'[x] = "DYING", joiner'[x] # Detached,
               NEW y \in Threads, Reaps(y, x)
        PROVE  Reaps(y, x)'
    BY <1>1, <2>1, <2>2, LifeFacts DEF DetachFree, TypeOK, Reaps, Inv, CpuInv,
       FromInv, ClaimInv, DyingInv, Ended, ReapPC, JoinPC, DetachPC
  <2>3. QED
    BY <2>1, <2>2, ReapKept DEF PlaceInv
<1>5. MainInv'
  BY <1>1, LifeFacts DEF DetachFree, TypeOK, Inv, ClaimInv, PlaceInv, MainInv,
     ReapPC, JoinPC
<1>6. QED
  BY <1>2, <1>3, <1>4, <1>5 DEF PlaceInv

LEMMA ReturnPlace ==
  ASSUME RunToCompletion, TypeOK, Inv, PlaceInv, NEW t \in Threads, Return(t)
  PROVE  PlaceInv'
<1>1. Running' = Running /\ Pending' = Pending
  BY DEF Return, Running, Pending, Ready, Held
<1>2. BornInv'
  BY LifeFacts DEF Return, TypeOK, Inv, CpuInv, FromInv, PlaceInv, BornInv,
     ReapPC
<1>3. WorkInv'
  BY <1>1, LifeFacts DEF Return, TypeOK, Inv, CpuInv, FromInv, DyingInv,
     JoinInv, PlaceInv, WorkInv, Ended, ReapPC
<1>4. ReapInv'
  <2>1. ASSUME NEW x \in Workers, state'[x] = "DYING", joiner'[x] # Detached
        PROVE  state[x] = "DYING" /\ joiner[x] # Detached
    BY <2>1, LifeFacts DEF Return, TypeOK, Inv, CpuInv, FromInv, ClaimInv,
       DyingInv, Ended, ReapPC, JoinPC, DetachPC
  <2>2. ASSUME NEW x \in Workers, state'[x] = "DYING", joiner'[x] # Detached,
               NEW y \in Threads, Reaps(y, x)
        PROVE  Reaps(y, x)'
    BY <1>1, <2>1, <2>2, LifeFacts DEF Return, TypeOK, Reaps, Inv, CpuInv,
       FromInv, ClaimInv, DyingInv, Ended, ReapPC, JoinPC, DetachPC
  <2>3. QED
    BY <2>1, <2>2, ReapKept DEF PlaceInv
<1>5. MainInv'
  BY <1>1, LifeFacts DEF Return, TypeOK, Inv, ClaimInv, PlaceInv, MainInv,
     ReapPC, JoinPC
<1>6. QED
  BY <1>2, <1>3, <1>4, <1>5 DEF PlaceInv

LEMMA JoinPlace ==
  ASSUME RunToCompletion, TypeOK, Inv, PlaceInv, NEW t \in Threads, NEW w \in Workers, Join(t, w)
  PROVE  PlaceInv'
<1>1. Running' = Running /\ Pending' = Pending
  BY DEF Join, Claim, Running, Pending, Ready, Held
<1>2. BornInv'
  BY LifeFacts DEF Join, Claim, TypeOK, Inv, CpuInv, FromInv, PlaceInv,
     BornInv, ReapPC
<1>3. WorkInv'
  BY <1>1, LifeFacts DEF Join, Claim, TypeOK, Inv, CpuInv, FromInv, DyingInv,
     JoinInv, PlaceInv, WorkInv, Ended, ReapPC
<1>4. ReapInv'
  <2>1. ASSUME NEW x \in Workers, state'[x] = "DYING", joiner'[x] # Detached
        PROVE  state[x] = "DYING" /\ joiner[x] # Detached
    BY <2>1, LifeFacts DEF Join, Claim, TypeOK, Inv, CpuInv, FromInv,
       ClaimInv, DyingInv, Ended, ReapPC, JoinPC, DetachPC
  <2>2. ASSUME NEW x \in Workers, state'[x] = "DYING", joiner'[x] # Detached,
               NEW y \in Threads, Reaps(y, x)
        PROVE  Reaps(y, x)'
    BY <1>1, <2>1, <2>2, LifeFacts DEF Join, Claim, TypeOK, Reaps, Inv,
       CpuInv, FromInv, ClaimInv, DyingInv, Ended, ReapPC, JoinPC, DetachPC
  <2>3. QED
    BY <2>1, <2>2, ReapKept DEF PlaceInv
<1>5. MainInv'
  BY <1>1, LifeFacts DEF Join, Claim, TypeOK, Inv, ClaimInv, PlaceInv,
     MainInv, ReapPC, JoinPC
<1>6. QED
  BY <1>2, <1>3, <1>4, <1>5 DEF PlaceInv

LEMMA DetachPlace ==
  ASSUME RunToCompletion, TypeOK, Inv, PlaceInv, NEW t \in Threads, NEW w \in Workers, Detach(t, w)
  PROVE  PlaceInv'
<1>1. Running' = Running /\ Pending' = Pending
  BY DEF Detach, Claim, Running, Pending, Ready, Held
<1>2. BornInv'
  BY LifeFacts DEF Detach, Claim, TypeOK, Inv, CpuInv, FromInv, PlaceInv,
     BornInv, ReapPC
<1>3. WorkInv'
  BY <1>1, LifeFacts DEF Detach, Claim, TypeOK, Inv, CpuInv, FromInv,
     DyingInv, JoinInv, PlaceInv, WorkInv, Ended, ReapPC
<1>4. ReapInv'
  <2>1. ASSUME NEW x \in Workers, state'[x] = "DYING", joiner'[x] # Detached
        PROVE  state[x] = "DYING" /\ joiner[x] # Detached
    BY <2>1, LifeFacts DEF Detach, Claim, TypeOK, Inv, CpuInv, FromInv,
       ClaimInv, DyingInv, Ended, ReapPC, JoinPC, DetachPC
  <2>2. ASSUME NEW x \in Workers, state'[x] = "DYING", joiner'[x] # Detached,
               NEW y \in Threads, Reaps(y, x)
        PROVE  Reaps(y, x)'
    BY <1>1, <2>1, <2>2, LifeFacts DEF Detach, Claim, TypeOK, Reaps, Inv,
       CpuInv, FromInv, ClaimInv, DyingInv, Ended, ReapPC, JoinPC, DetachPC
  <2>3. QED
    BY <2>1, <2>2, ReapKept DEF PlaceInv
<1>5. MainInv'
  BY <1>1, LifeFacts DEF Detach, Claim, TypeOK, Inv, ClaimInv, PlaceInv,
     MainInv, ReapPC, JoinPC
<1>6. QED
  BY <1>2, <1>3, <1>4, <1>5 DEF PlaceInv

LEMMA HasJoinerPlace ==
  ASSUME RunToCompletion, TypeOK, Inv, PlaceInv, NEW t \in Threads, NEW w \in Workers, HasJoiner(t, w)
  PROVE  PlaceInv'
<1>1. Running' = Running /\ Pending' = Pending
  BY DEF HasJoiner, Claim, Running, Pending, Ready, Held
<1>2. BornInv'
  BY LifeFacts DEF HasJoiner, Claim, TypeOK, Inv, CpuInv, FromInv, PlaceInv,
     BornInv, ReapPC
<1>3. WorkInv'
  BY <1>1, LifeFacts DEF HasJoiner, Claim, TypeOK, Inv, CpuInv, FromInv,
     DyingInv, JoinInv, PlaceInv, WorkInv, Ended, ReapPC
<1>4. ReapInv'
  <2>1. ASSUME NEW x \in Workers, state'[x] = "DYING", joiner'[x] # Detached
        PROVE  state[x] = "DYING" /\ joiner[x] # Detached
    BY <2>1, LifeFacts DEF HasJoiner, Claim, TypeOK, Inv, CpuInv, FromInv,
       ClaimInv, DyingInv, Ended, ReapPC, JoinPC, DetachPC
  <2>2. ASSUME NEW x \in Workers, state'[x] = "DYING", joiner'[x] # Detached,
               NEW y \in Threads, Reaps(y, x)
        PROVE  Reaps(y, x)'
    BY <1>1, <2>1, <2>2, LifeFacts DEF HasJoiner, Claim, TypeOK, Reaps, Inv,
       CpuInv, FromInv, ClaimInv, DyingInv, Ended, ReapPC, JoinPC, DetachPC
  <2>3. QED
    BY <2>1, <2>2, ReapKept DEF PlaceInv
<1>5. MainInv'
  BY <1>1, LifeFacts DEF HasJoiner, Claim, TypeOK, Inv, ClaimInv, PlaceInv,
     MainInv, ReapPC, JoinPC
<1>6. QED
  BY <1>2, <1>3, <1>4, <1>5 DEF PlaceInv

(* The actions that move threads in the queue or between processors. *)

LEMMA StopPlace ==
  ASSUME RunToCompletion, TypeOK, Inv, PlaceInv, NEW t \in Threads, Stop(t)
  PROVE  PlaceInv'
<1> DEFINE h == Head(readyQueue)
<1>1. h \in Ready /\ Ready' = Ready \ {h} /\ h \in Threads
  BY ReadyTail, SetTypes DEF TypeOK, Inv, Stop
<1>2. Running' = Running
  BY DEF Stop, Running
<1>3. Held' = Held \cup {h}
  BY <1>1, ThreadsAssumption DEF Stop, Held, TypeOK, Inv, QueueInv
<1>4. Pending' = Pending
  BY <1>1, <1>3 DEF Pending
<1>5. BornInv' /\ WorkInv'
  BY <1>2, <1>4 DEF Stop, PlaceInv, BornInv, WorkInv
<1>6. ReapInv'
  BY <1>2, ReapKept DEF Stop, TypeOK, PlaceInv, Reaps, ReapPC
<1>7. MainInv'
  BY <1>2, <1>4, LifeFacts DEF Stop, TypeOK, PlaceInv, MainInv
<1>8. QED
  BY <1>5, <1>6, <1>7 DEF PlaceInv

LEMMA SwitchSelfPlace ==
  ASSUME RunToCompletion, TypeOK, Inv, PlaceInv, NEW t \in Threads, SwitchSelf(t)
  PROVE  PlaceInv'
<1>1. Running' = Running /\ t \in Running
  BY DEF SwitchSelf, Running
<1>2. Pending \ {t} \subseteq Pending' /\ t \notin Workers
  <2>1. t \in Held /\ \A x \in Threads \ {t} : to'[x] = to[x]
    BY ThreadsAssumption DEF SwitchSelf, TypeOK, Held, Threads
  <2>2. Held \ {t} \subseteq Held' /\ Ready' = Ready
    BY <2>1 DEF SwitchSelf, Held, Ready
  <2>3. QED
    BY <1>1, <2>1, <2>2 DEF Pending, Inv, PendingInv
<1>3. BornInv' /\ WorkInv'
  BY <1>1, <1>2 DEF SwitchSelf, PlaceInv, BornInv, WorkInv
<1>4. pc'[t] = cont[t] /\ cont[t] \notin {"stop", "switch"} /\ \A x \in Threads \ {t} : pc'[x] = pc[x]
  BY DEF SwitchSelf, TypeOK
<1>5. ReapInv'
  <2>1. \A x \in Threads, w \in Workers : Reaps(x, w) => Reaps(x, w)'
    BY <1>1, <1>4 DEF SwitchSelf, Reaps, ReapPC
  <2>2. QED
    BY <2>1, ReapKept DEF SwitchSelf, PlaceInv
<1>6. MainInv'
  BY <1>1, <1>2, <1>4, LifeFacts DEF SwitchSelf, PlaceInv, MainInv
<1>7. QED
  BY <1>3, <1>5, <1>6 DEF PlaceInv

LEMMA YieldPlace ==
  ASSUME RunToCompletion, TypeOK, Inv, PlaceInv, NEW t \in Threads, Yield(t)
  PROVE  PlaceInv'
<1>1. Running' = Running /\ Held' = Held
  BY DEF Yield, Running, Held
<1>2. Pending' = Pending \cup {t}
  BY <1>1, ReadyAppended DEF Yield, TypeOK, Pending
<1>3. BornInv' /\ WorkInv'
  BY <1>1, <1>2 DEF Yield, PlaceInv, BornInv, WorkInv
<1>4. ReapInv'
  BY <1>1, ReapKept DEF Yield, TypeOK, PlaceInv, Reaps, ReapPC
<1>5. MainInv'
  BY <1>1, <1>2, LifeFacts DEF Yield, TypeOK, PlaceInv, MainInv
<1>6. QED
  BY <1>3, <1>4, <1>5 DEF PlaceInv

LEMMA CreatePlace ==
  ASSUME RunToCompletion, TypeOK, Inv, PlaceInv, NEW t \in Threads, NEW w \in Workers, Create(t, w)
  PROVE  PlaceInv'
<1>1. Running' = Running /\ Held' = Held /\ w \in Threads
  BY DEF Create, Running, Held, Threads
<1>2. Pending' = Pending \cup {w}
  BY <1>1, ReadyAppended DEF Create, TypeOK, Pending
<1>3. BornInv' /\ WorkInv'
  BY <1>1, <1>2 DEF Create, TypeOK, PlaceInv, BornInv, WorkInv, Ended
<1>4. ReapInv'
  <2>1. \A x \in Workers : state'[x] = "DYING" => state[x] = "DYING"
    BY <1>1 DEF Create, TypeOK
  <2>2. QED
    BY <1>1, <2>1, ReapKept DEF Create, PlaceInv, Reaps
<1>5. MainInv'
  BY <1>1, <1>2 DEF Create, PlaceInv, MainInv
<1>6. QED
  BY <1>3, <1>4, <1>5 DEF PlaceInv

LEMMA ReapEnqueuePlace ==
  ASSUME RunToCompletion, TypeOK, Inv, PlaceInv, NEW t \in Threads, ReapEnqueue(t)
  PROVE  PlaceInv'
<1>1. Running' = Running /\ Held' = Held
  BY DEF ReapEnqueue, Running, Held
<1>2. Pending \subseteq Pending'
  <2>1. joiner[from[t]] \in Threads
    BY ThreadsAssumption DEF ReapEnqueue, Inv, JoinInv, Threads
  <2>2. QED
    BY <1>1, <2>1, ReadyAppended DEF ReapEnqueue, TypeOK, Pending
<1>3. BornInv' /\ WorkInv'
  BY <1>1, <1>2 DEF ReapEnqueue, PlaceInv, BornInv, WorkInv
<1>4. ReapInv'
  BY <1>1, ReapKept DEF ReapEnqueue, TypeOK, PlaceInv, Reaps, ReapPC
<1>5. MainInv'
  BY <1>1, <1>2, LifeFacts DEF ReapEnqueue, TypeOK, PlaceInv, MainInv
<1>6. QED
  BY <1>3, <1>4, <1>5 DEF PlaceInv

LEMMA SwitchPlace ==
  ASSUME RunToCompletion, TypeOK, Inv, PlaceInv, NEW p \in Procs, Switch(p)
  PROVE  PlaceInv'
<1> DEFINE t == cur[p]
           u == to[t]
<1>1. /\ t \in Threads /\ t \in Running /\ u \in Held /\ u \in Threads /\ u # t
      /\ pc[t] = "switch" /\ u \in Pending
  BY SetTypes DEF Switch, Running, TypeOK, Inv, QueueInv, Pending
<1>2. /\ stopping[t] = "DYING" <=> t \in Workers
      /\ u \notin Running
  BY <1>1, SetTypes DEF TypeOK, Inv, DyingInv, Switch, MayDispatch, PendingInv,
     CpuInv, Pending, Arriving, ReapPC
<1>3. pc[u] = "switched" /\ state[u] \notin Ended
  BY <1>1, <1>2 DEF Inv, PendingInv, CpuInv, DyingInv
<1>4. /\ state' = [state EXCEPT ![t] = stopping[t]] /\ cur' = [cur EXCEPT ![p] = u]
      /\ from' = [from EXCEPT ![u] = t] /\ to' = [to EXCEPT ![t] = NoThread]
      /\ pc' = [pc EXCEPT ![t] = IF stopping[t] = "DYING" THEN "gone" ELSE "switched"]
      /\ UNCHANGED <<joiner, readyQueue, cont, claimed>>
  BY DEF Switch
<1>5. Pending \ {u} \subseteq Pending' /\ u \in Running'
  BY <1>1, <1>4 DEF TypeOK, Pending, Held, Ready, Running
<1>6. Running \ {t} \subseteq Running'
  BY <1>4 DEF TypeOK, Running
<1> HIDE DEF t, u
<1>7. /\ \A x \in Threads : pc'[x] = IF x # t THEN pc[x]
                                     ELSE IF stopping[t] = "DYING" THEN "gone" ELSE "switched"
      /\ \A x \in Threads : from'[x] = IF x = u THEN t ELSE from[x]
      /\ \A x \in Threads : state'[x] = IF x = t THEN stopping[t] ELSE state[x]
  BY <1>1, <1>4 DEF TypeOK
<1>8. stopping[t] # "UNBORN" /\ Workers \subseteq Threads
  BY <1>1 DEF TypeOK, Threads
<1>9. BornInv'
  BY <1>4, <1>7, <1>8 DEF PlaceInv, BornInv
<1>10. WorkInv'
  BY <1>2, <1>5, <1>6, <1>7, <1>8 DEF PlaceInv, WorkInv, Ended
<1>11. ReapInv'
  <2> SUFFICES ASSUME NEW w \in Workers, state'[w] = "DYING", joiner[w] # Detached
               PROVE  \E x \in Threads : Reaps(x, w)'
    BY <1>4 DEF ReapInv
  <2>1. CASE w = t
    BY <1>1, <1>3, <1>5, <1>7, <2>1 DEF Reaps
  <2>2. CASE w # t
    <3>1. PICK x \in Threads : Reaps(x, w)
      BY <1>7, <1>8, <2>2 DEF PlaceInv, ReapInv
    <3>2. x # t /\ x # u
      BY <1>1, <1>2, <3>1 DEF Reaps, ReapPC
    <3>3. QED
      BY <1>6, <1>7, <3>1, <3>2 DEF Reaps
  <2>3. QED
    BY <2>1, <2>2
<1>12. MainInv'
  <2>1. CASE Base = u
    BY <1>1, <1>3, <1>5, <1>7, <2>1 DEF MainInv
  <2>2. CASE Base # u
    BY <1>1, <1>4, <1>5, <1>6, <1>7, <2>2, LifeFacts DEF PlaceInv, MainInv
  <2>3. QED
    BY <2>1, <2>2
<1>13. QED
  BY <1>9, <1>10, <1>11, <1>12 DEF PlaceInv

LEMMA BootPlace ==
  ASSUME RunToCompletion, TypeOK, Inv, PlaceInv, Boot
  PROVE  PlaceInv'
<1>1. CASE InitDone
  <2>1. Running' = Running /\ Pending' = Pending
    BY <1>1 DEF InitDone, Running, Pending, Ready, Held
  <2>2. BornInv' /\ WorkInv'
    BY <1>1, <2>1 DEF InitDone, PlaceInv, BornInv, WorkInv
  <2>3. ReapInv'
    BY <1>1, <2>1, ReapKept, LifeFacts DEF InitDone, TypeOK, PlaceInv, Reaps, ReapPC
  <2>4. MainInv'
    BY <1>1, <2>1, LifeFacts DEF InitDone, TypeOK, PlaceInv, MainInv
  <2>5. QED
    BY <2>2, <2>3, <2>4 DEF PlaceInv
<1>2. ASSUME NEW p \in Procs, SpawnPthread(p) PROVE PlaceInv'
  <2>1. p \in Threads /\ p \notin Workers /\ p # Base /\ p \notin Running /\ cur[p] = NoThread
    BY <1>2, ThreadsAssumption DEF SpawnPthread, TypeOK, Inv, BootInv, CpuInv,
       Threads
  <2>2. /\ Pending' = Pending /\ \A x \in Threads : x \in Running => x \in Running'
    BY <1>2, <2>1, ThreadsAssumption DEF SpawnPthread, TypeOK, Running, Pending,
       Ready, Held
  <2>3. \A x \in Threads \ {p} : state'[x] = state[x] /\ pc'[x] = pc[x]
    BY <1>2, <2>1 DEF SpawnPthread, TypeOK
  <2>4. \A w \in Workers : w \in Threads \ {p}
    BY <2>1 DEF Threads
  <2>5. BornInv' /\ WorkInv'
    BY <1>2, <2>2, <2>3, <2>4 DEF SpawnPthread, PlaceInv, BornInv, WorkInv
  <2>6. ReapInv'
    <3>1. \A x \in Threads, w \in Workers : Reaps(x, w) => Reaps(x, w)'
      BY <1>2, <2>1, <2>2, <2>3 DEF SpawnPthread, Reaps
    <3>2. QED
      BY <1>2, <2>3, <2>4, <3>1, ReapKept DEF SpawnPthread, PlaceInv
  <2>7. MainInv'
    BY <1>2, <2>1, <2>2, <2>3, LifeFacts DEF SpawnPthread, PlaceInv, MainInv
  <2>8. QED
    BY <2>5, <2>6, <2>7 DEF PlaceInv
<1>3. QED
  BY <1>1, <1>2 DEF Boot

LEMMA PlaceKept ==
  ASSUME RunToCompletion, TypeOK, Inv, PlaceInv, Next, ~MainReturn, ~Exited
  PROVE  PlaceInv'
<1>1. CASE \E t \in Threads : Package(t)
  <2>1. PICK t \in Threads : Package(t)
    BY <1>1
  <2>2. Reap(t) => PlaceInv'
    BY ReapLockPlace, ReapFreePlace, ReapStartPlace, ReapEnqueuePlace,
       ReapNoJoinerPlace, ReapDeadPlace, ReapUnlockPlace DEF Reap
  <2>3. QED
    BY <2>1, <2>2, StopPlace, SwitchSelfPlace, FromDyingPlace, FromLivePlace,
       ResumePlace, JoinLockPlace, JoinWaitPlace, JoinDeadPlace, JoinUnlockPlace,
       JoinedPlace, DetachLockPlace, DetachSetPlace, DetachUnlockPlace,
       DetachFreePlace DEF Package
<1>2. CASE \E t \in Threads : Client(t)
  BY <1>2, YieldPlace, ReturnPlace, CreatePlace, JoinPlace, DetachPlace,
     HasJoinerPlace DEF Client
<1>3. CASE \E p \in Procs : Switch(p)
  BY <1>3, SwitchPlace
<1>4. CASE Boot
  BY <1>4, BootPlace
<1>5. QED
  BY <1>1, <1>2, <1>3, <1>4 DEF Next, AfterExit

PlaceIInv == LifeIInv /\ (Exited \/ PlaceInv)

LEMMA InitPlace ==
  ASSUME RunToCompletion, Init
  PROVE  PlaceIInv
<1>1. LifeIInv
  BY InitLife
<1>2. Base \in Threads /\ Base \in Running /\ Workers \subseteq Threads /\ Base \notin Workers
  BY ThreadsAssumption DEF Init, Running, Threads
<1>3. BornInv /\ WorkInv /\ ReapInv
  BY <1>2, ThreadsAssumption DEF Init, BornInv, WorkInv, ReapInv
<1>4. MainInv
  BY <1>2 DEF Init, MainInv
<1>5. QED
  BY <1>1, <1>3, <1>4 DEF PlaceIInv, PlaceInv

LEMMA NextPlace ==
  ASSUME RunToCompletion, PlaceIInv, [Next]_vars
  PROVE  PlaceIInv'
<1>1. LifeIInv'
  BY NextLife DEF PlaceIInv
<1>2. ASSUME UNCHANGED vars PROVE PlaceIInv'
  <2>1. Running' = Running /\ Pending' = Pending
    BY <1>2 DEF vars, Running, Ready, Held, Pending
  <2>2. (Exited => Exited') /\ (PlaceInv => PlaceInv')
    BY <1>2, <2>1 DEF vars, Exited, PlaceInv, BornInv, WorkInv, ReapInv, MainInv,
       Reaps
  <2>3. QED
    BY <1>1, <2>2 DEF PlaceIInv
<1>3. CASE Next /\ Exited
  BY <1>2, <1>3, ExitedStays
<1>4. CASE MainReturn /\ ~Exited
  BY <1>1, <1>4 DEF MainReturn, Exited, PlaceIInv
<1>5. CASE Next /\ ~MainReturn /\ ~Exited
  BY <1>1, <1>5, PlaceKept DEF PlaceIInv, LifeIInv, IInv
<1>6. QED
  BY <1>2, <1>3, <1>4, <1>5

LEMMA PlaceInvariance ==
  ASSUME RunToCompletion
  PROVE  Spec => []PlaceIInv
BY InitPlace, NextPlace, PTL DEF Spec

(* Who can still get on: the thread runs, or waits in the ready queue or   *)
(* at a processor that is about to switch to it.                           *)
GetsOn(t) == \/ t \in Running
             \/ t \in Ready
             \/ \E u \in Threads : Switching(u) /\ to[u] = t

NobodyLost ==
  /\ \A i \in Procs : state[i] = "UNBORN" \/ GetsOn(i)
  /\ \A w \in Workers : state[w] \in {"UNBORN", "DYING", "DEAD"} \/ GetsOn(w)
  /\ GetsOn(Base) \/ /\ joiner[target[Base]] = Base
                     /\ GetsOn(target[Base]) \/ \E t \in Threads : Reaps(t, target[Base])

(* No thread gets lost, on any number of processors, while the process     *)
(* lives: each one that has been created and has not returned runs or is   *)
(* on its way through the ready queue, and when main() does neither, the   *)
(* worker that it joins does, or is being reaped and will start it.        *)
THEOREM NoThreadIsLost ==
  ASSUME RunToCompletion
  PROVE  Spec => [](Exited \/ NobodyLost)
<1>1. ASSUME TypeOK, Inv, LifeInv, PlaceInv PROVE NobodyLost
  <2>1. \A t \in Threads : t \in Pending => GetsOn(t)
    BY <1>1, LifeFacts DEF GetsOn, Pending, Held, Switching, Inv, QueueInv, CpuInv
  <2>2. \A i \in Procs : state[i] = "UNBORN" \/ GetsOn(i)
    BY <1>1, <2>1 DEF GetsOn, Inv, IdleInv, Threads
  <2>3. \A w \in Workers : state[w] \in {"UNBORN", "DYING", "DEAD"} \/ GetsOn(w)
    BY <1>1, <2>1 DEF GetsOn, PlaceInv, WorkInv, Ended, Threads
  <2>4. ASSUME ~GetsOn(Base)
        PROVE  /\ joiner[target[Base]] = Base
               /\ GetsOn(target[Base]) \/ \E t \in Threads : Reaps(t, target[Base])
    <3> DEFINE w == target[Base]
    <3>1. Base \notin Running /\ Base \notin Pending
      BY <1>1, <2>1, <2>4, LifeFacts DEF GetsOn
    <3>2. cont[Base] = "joined" /\ pc[Base] = "switched"
      BY <1>1, <3>1, LifeFacts DEF PlaceInv, MainInv, Inv, CpuInv, DyingInv
    <3>3. w \in Workers /\ w \in claimed
      BY <1>1, <3>2, LifeFacts DEF Waits, Arriving, Inv, ClaimInv
    <3>4. joiner[w] = Base /\ state[w] # "DEAD"
      BY <1>1, <3>1, <3>2 DEF LifeInv, ResultInv, WillStart
    <3>5. state[w] = "DYING" \/ GetsOn(w)
      BY <1>1, <2>3, <3>3, <3>4 DEF PlaceInv, BornInv
    <3>6. QED
      BY <1>1, <3>3, <3>4, <3>5, LifeFacts DEF PlaceInv, ReapInv
  <2>5. QED
    BY <2>2, <2>3, <2>4 DEF NobodyLost
<1>2. PlaceIInv => Exited \/ NobodyLost
  BY <1>1 DEF PlaceIInv, LifeIInv, IInv
<1>3. QED
  BY <1>2, PlaceInvariance, PTL

-----------------------------------------------------------------------------
(* The spin of uthread_switch with at most two processors: neither can     *)
(* wait for the other.  The two threads they run are queued in the order   *)
(* in which they came to stop, so that the last of them is the tail; had   *)
(* each been handed the other, the queue would be empty, both would be     *)
(* pthread_base threads, and nobody would be left to start main().         *)

TwoProcessors == \E q \in Procs : Procs = {BootProc, q}

(* Both about to stop and first in the queue: they are all of it.  One has *)
(* taken the other and is next itself: it is the last.  Each has taken the *)
(* other: nobody else is queued.                                           *)
OrderInv ==
  \A t, u \in Threads : t # u =>
    /\ At(t, "stop") /\ At(u, "stop") /\ readyQueue # <<>> /\ Head(readyQueue) = t
         /\ Tail(readyQueue) # <<>> /\ Head(Tail(readyQueue)) = u
         => Tail(Tail(readyQueue)) = <<>>
    /\ At(t, "stop") /\ At(u, "switch") /\ to[u] = t /\ readyQueue # <<>> /\ Head(readyQueue) = u
         => Tail(readyQueue) = <<>>
    /\ At(t, "switch") /\ At(u, "switch") /\ to[u] = t /\ to[t] = u => readyQueue = <<>>

LEMMA OrderAlone ==
  ASSUME TwoProcessors, NEW a \in Threads, a \in Running', pc'[a] \notin {"stop", "switch"}
  PROVE  OrderInv'
<1>1. \A x, y \in Running' : x = y \/ x = a \/ y = a
  BY DEF TwoProcessors, Running
<1>2. QED
  BY <1>1 DEF OrderInv

LEMMA OrderStays ==
  ASSUME TwoProcessors, TypeOK, NEW t \in Threads,
         \/ SwitchSelf(t) \/ FromDying(t) \/ FromLive(t) \/ Reap(t) \/ Resume(t)
         \/ JoinLock(t) \/ JoinWait(t) \/ JoinDead(t) \/ Joined(t)
         \/ DetachLock(t) \/ DetachSet(t) \/ DetachUnlock(t) \/ DetachFree(t)
         \/ \E w \in Workers : Create(t, w) \/ Join(t, w) \/ Detach(t, w) \/ HasJoiner(t, w)
  PROVE  OrderInv'
<1>1. cur' = cur /\ t \in Running
  BY DEF SwitchSelf, FromDying, FromLive, Reap, ReapLock, ReapFree, ReapStart,
     ReapEnqueue, ReapNoJoiner, ReapDead, ReapUnlock, Resume, JoinLock, JoinWait,
     JoinDead, Joined, DetachLock, DetachSet, DetachUnlock, DetachFree, LockTarget,
     SetJoiner, Create, Join, Detach, HasJoiner, Claim
<1>2. cont[t] \notin {"stop", "switch"}
  BY DEF TypeOK
<1>3. pc'[t] \notin {"stop", "switch"}
  <2>1. CASE Reap(t)
    BY <2>1 DEF TypeOK, Reap, ReapLock, ReapFree, ReapStart, ReapEnqueue,
       ReapNoJoiner, ReapDead, ReapUnlock
  <2>2. CASE SwitchSelf(t) \/ FromDying(t) \/ FromLive(t) \/ Resume(t)
    BY <1>2, <2>2 DEF TypeOK, SwitchSelf, FromDying, FromLive, Resume
  <2>3. CASE \/ JoinLock(t) \/ JoinWait(t) \/ JoinDead(t) \/ Joined(t)
             \/ DetachLock(t) \/ DetachSet(t) \/ DetachUnlock(t) \/ DetachFree(t)
    BY <2>3 DEF TypeOK, JoinLock, JoinWait, JoinDead, Joined, DetachLock, DetachSet,
       DetachUnlock, DetachFree, LockTarget, SetJoiner
  <2>4. CASE \E w \in Workers : Create(t, w) \/ Join(t, w) \/ Detach(t, w) \/ HasJoiner(t, w)
    BY <2>4 DEF TypeOK, Create, Join, Detach, HasJoiner, Claim
  <2>5. QED
    BY <2>1, <2>2, <2>3, <2>4
<1>4. t \in Running'
  BY <1>1 DEF Running
<1>5. QED
  BY <1>3, <1>4, OrderAlone

LEMMA OrderSwitch ==
  ASSUME TwoProcessors, TypeOK, Inv, NEW p \in Procs, Switch(p)
  PROVE  OrderInv'
<1> DEFINE t == cur[p]
           u == to[t]
<1>1. t \in Threads /\ t \in Running /\ pc[t] = "switch" /\ u # t
  BY DEF Switch, TypeOK, Running
<1>2. u \in Held /\ u \in Threads
  BY <1>1, SetTypes DEF Inv, QueueInv
<1>3. u \notin Running
  BY <1>1, <1>2, SetTypes DEF Switch, MayDispatch, Inv, PendingInv, CpuInv, Pending,
     Arriving, ReapPC
<1>4. pc[u] = "switched" \/ pc[u] = "gone"
  BY <1>2, <1>3 DEF Inv, CpuInv
<1>5. pc'[u] = pc[u]
  BY <1>1, <1>2 DEF Switch, TypeOK
<1>6. u \in Running'
  BY <1>1 DEF Switch, TypeOK, Running
<1>7. QED
  BY <1>2, <1>4, <1>5, <1>6, OrderAlone

LEMMA OrderBoot ==
  ASSUME TwoProcessors, TypeOK, Boot
  PROVE  OrderInv'
<1>1. CASE InitDone
  BY <1>1, OrderAlone, ThreadsAssumption DEF InitDone, TypeOK, Running, Threads
<1>2. CASE \E p \in Procs : SpawnPthread(p)
  BY <1>2, OrderAlone, ThreadsAssumption DEF SpawnPthread, TypeOK, Running, Threads
<1>3. QED
  BY <1>1, <1>2 DEF Boot

(* A thread that stops to die or to block is not in the queue. *)
LEMMA OrderUnqueued ==
  ASSUME TwoProcessors, TypeOK, OrderInv, NEW t \in Threads, t \in Running, t \notin Pending,
         pc[t] \notin {"stop", "switch"}, pc' = [pc EXCEPT ![t] = "stop"],
         UNCHANGED <<cur, readyQueue, to>>
  PROVE  OrderInv'
<1>1. Running' = Running /\ \A x, y \in Running : x = y \/ x = t \/ y = t
  BY DEF TwoProcessors, Running
<1>2. \A x \in Threads : to[x] # t
  BY ThreadsAssumption DEF Pending, Held
<1>3. /\ readyQueue # <<>> => Head(readyQueue) # t
      /\ readyQueue # <<>> /\ Tail(readyQueue) # <<>> => Head(Tail(readyQueue)) # t
  <2>1. \A i \in DOMAIN readyQueue : readyQueue[i] # t
    BY DEF Pending, Ready
  <2>2. QED
    BY <2>1, HeadTailProperties, LenProperties, EmptySeq DEF TypeOK
<1>4. \A x \in Threads : pc'[x] = IF x = t THEN "stop" ELSE pc[x]
  BY DEF TypeOK
<1>5. QED
  BY <1>1, <1>2, <1>3, <1>4 DEF OrderInv

LEMMA OrderReturn ==
  ASSUME TwoProcessors, TypeOK, Inv, OrderInv, NEW t \in Threads, Return(t)
  PROVE  OrderInv'
<1>1. t \in Running /\ t \in Workers
  BY DEF Return
<1>2. t \notin Pending
  BY <1>1 DEF Inv, PendingInv
<1>3. QED
  BY <1>1, <1>2, OrderUnqueued DEF Return

LEMMA OrderJoinUnlock ==
  ASSUME TwoProcessors, TypeOK, Inv, LifeInv, OrderInv, NEW t \in Threads, JoinUnlock(t)
  PROVE  OrderInv'
<1>1. t \in Running /\ t = Base /\ pc[t] = "joinUnlock"
  BY DEF JoinUnlock, Inv, ClaimInv, JoinPC
<1>2. target[t] \in Threads /\ WillStart(target[t])
  BY <1>1, ThreadsAssumption DEF LifeInv, ResultInv, Inv, ClaimInv, TypeOK, JoinPC
<1>3. t \notin Pending
  BY <1>1, <1>2 DEF Inv, JoinInv
<1>4. QED
  BY <1>1, <1>3, OrderUnqueued DEF JoinUnlock

(* What stands only at the end of a queue, the two at its head apart.      *)
LEMMA LastOfTwo ==
  ASSUME NEW S, NEW q \in Seq(S), q # <<>>, NEW x \in S,
         \A i \in 1..Len(q) : q[i] = x => i = Len(q)
  PROVE  /\ Head(q) = x => Tail(q) = <<>>
         /\ Tail(q) # <<>> /\ Head(Tail(q)) = x => Tail(Tail(q)) = <<>>
<1> DEFINE n == Len(q)
           s == Tail(q)
           r == Tail(s)
<1>1. n \in Nat \ {0} /\ Head(q) = q[1]
  BY EmptySeq
<1>2. s \in Seq(S) /\ Len(s) = n - 1 /\ \A i \in 1..Len(s) : s[i] = q[i+1]
  BY HeadTailProperties
<1>3. \A i \in 1..n : q[i] = x => i = n
  OBVIOUS
<1>4. \A z \in Seq(S) : z # <<>> => Len(z) \in Nat \ {0}
  BY EmptySeq
<1>5. s # <<>> => Len(s) \in Nat \ {0} /\ r \in Seq(S) /\ Len(r) = Len(s) - 1 /\ Head(s) = s[1]
  <2> HIDE DEF s
  <2>1. ASSUME s # <<>> PROVE Len(s) \in Nat \ {0}
    BY <1>2, <1>4, <2>1
  <2>2. ASSUME s # <<>> PROVE Head(s) = s[1]
    BY <1>2, <2>1, <2>2
  <2>3. ASSUME s # <<>> PROVE r \in Seq(S) /\ Len(r) = Len(s) - 1
    BY <1>2, <2>3, HeadTailProperties
  <2>4. QED
    BY <2>1, <2>2, <2>3
<1> HIDE DEF n, s, r
<1>6. ASSUME Head(q) = x PROVE s = <<>>
  <2>1. n = 1
    BY <1>1, <1>3, <1>6
  <2>2. QED
    BY <1>2, <1>4, <2>1
<1>7. ASSUME s # <<>>, Head(s) = x PROVE r = <<>>
  <2>1. s[1] = q[1+1] /\ 1 + 1 \in 1..n
    BY <1>1, <1>2, <1>5, <1>7
  <2>2. n = 2
    BY <1>1, <1>3, <1>5, <1>7, <2>1
  <2>3. QED
    BY <1>2, <1>4, <1>5, <1>7, <2>2
<1>8. QED
  BY <1>6, <1>7 DEF s, r

(* A thread that yields is the tail. *)
LEMMA OrderYield ==
  ASSUME TwoProcessors, TypeOK, Inv, OrderInv, NEW t \in Threads, Yield(t)
  PROVE  OrderInv'
<1>1. Running' = Running /\ t \in Running /\ \A x, y \in Running : x = y \/ x = t \/ y = t
  BY DEF Yield, TwoProcessors, Running
<1>2. t \notin Pending
  BY <1>1 DEF Yield, Inv, PendingInv
<1>3. \A x \in Threads : to'[x] # t
  BY <1>2, ThreadsAssumption DEF Yield, Pending, Held
<1>4. \A x \in Threads : pc'[x] = IF x = t THEN "stop" ELSE pc[x]
  BY DEF Yield, TypeOK
<1>5. \A i \in 1..Len(readyQueue) : readyQueue[i] # t
  BY <1>2 DEF Pending, Ready, TypeOK
<1> DEFINE q == Append(readyQueue, t)
<1>6. /\ q \in Seq(Threads) /\ q # <<>> /\ Len(q) = Len(readyQueue) + 1 /\ Len(readyQueue) \in Nat
      /\ \A i \in 1..Len(readyQueue) : q[i] = readyQueue[i]
  <2>1. readyQueue \in Seq(Threads) /\ Len(readyQueue) \in Nat
    BY LenProperties DEF TypeOK
  <2>2. QED
    BY <2>1, AppendProperties
<1> HIDE DEF q
<1>7. /\ Head(q) = t => Tail(q) = <<>>
      /\ Tail(q) # <<>> /\ Head(Tail(q)) = t => Tail(Tail(q)) = <<>>
  <2>1. \A i \in 1..Len(q) : q[i] = t => i = Len(q)
    BY <1>5, <1>6
  <2>2. QED
    BY <1>6, <2>1, LastOfTwo
<1>8. readyQueue' = q
  BY DEF Yield, q
<1>9. QED
  BY <1>1, <1>3, <1>4, <1>7, <1>8 DEF OrderInv

LEMMA OrderStop ==
  ASSUME TwoProcessors, TypeOK, OrderInv, NEW t \in Threads, Stop(t)
  PROVE  OrderInv'
<1>1. Running' = Running /\ t \in Running /\ \A x, y \in Running : x = y \/ x = t \/ y = t
  BY DEF Stop, TwoProcessors, Running
<1>2. \A x \in Threads : pc'[x] = IF x = t THEN "switch" ELSE pc[x]
  BY DEF Stop, TypeOK
<1>3. \A x \in Threads : to'[x] = IF x = t THEN Head(readyQueue) ELSE to[x]
  BY DEF Stop, TypeOK
<1>4. readyQueue # <<>> /\ readyQueue' = Tail(readyQueue) /\ pc[t] = "stop"
  BY DEF Stop
<1>5. QED
  BY <1>1, <1>2, <1>3, <1>4 DEF OrderInv

(* Two threads do not wait for each other: the queue would be empty and    *)
(* main() blocked; but the worker that it joins is pending, runs or is     *)
(* being reaped, and none of the two does that.                            *)
LEMMA NoMutualSpin ==
  ASSUME RunToCompletion, TwoProcessors, TypeOK, Inv, LifeInv, OrderInv, PlaceInv,
         NEW t \in Threads, NEW u \in Threads, t # u,
         At(t, "switch"), At(u, "switch"), to[u] = t, to[t] = u
  PROVE  FALSE
<1>1. Ready = {}
  BY DEF OrderInv, Ready
<1>2. PICK a \in Procs, b \in Procs : cur[a] = t /\ cur[b] = u /\ a # b
  BY DEF Running
<1>3. Procs = {a, b}
  BY <1>2 DEF TwoProcessors
<1>4. Running = {t, u}
  BY <1>2, <1>3 DEF Running
<1>5. Pending = {t, u}
  <2>1. \A x \in Threads : to[x] # NoThread => x \in {t, u}
    BY <1>4 DEF Inv, QueueInv, CpuInv
  <2>2. QED
    BY <1>1, <2>1, SetTypes DEF Pending, Held
<1>6. t \notin Workers /\ u \notin Workers
  BY <1>4, <1>5 DEF Inv, PendingInv
<1>7. a \in {t, u} /\ b \in {t, u}
  BY <1>2, <1>4, <1>5, SetTypes DEF Inv, BootInv, IdleInv
<1>8. Base \notin Pending /\ Base \notin Running
  BY <1>2, <1>3, <1>4, <1>5, <1>7, ThreadsAssumption
<1>9. cont[Base] = "joined" /\ pc[Base] = "switched"
  BY <1>8, LifeFacts DEF PlaceInv, MainInv, Inv, CpuInv, DyingInv
<1> DEFINE w == target[Base]
<1>10. w \in Workers /\ w \in Threads /\ w \in claimed
  BY <1>9, LifeFacts DEF Waits, Arriving, Inv, ClaimInv
<1>11. WillStart(w)
  BY <1>8, <1>9 DEF LifeInv, ResultInv
<1>12. state[w] = "DYING" /\ joiner[w] # Detached
  BY <1>4, <1>5, <1>6, <1>10, <1>11, LifeFacts DEF WillStart, PlaceInv, BornInv,
     WorkInv, Ended
<1>13. PICK x \in Threads : Reaps(x, w)
  BY <1>10, <1>12 DEF PlaceInv, ReapInv
<1>14. QED
  BY <1>4, <1>13 DEF Reaps, ReapPC

LEMMA NoSpinCycleHolds ==
  ASSUME RunToCompletion, TwoProcessors, TypeOK, Inv, LifeInv, OrderInv, PlaceInv
  PROVE  NoSpinCycle
<1> SUFFICES ASSUME NEW S \in SUBSET Procs, NEW p \in S, \A q \in S : SpinsOn(q, S)
             PROVE  FALSE
  BY DEF NoSpinCycle
<1>1. PICK q \in S : to[cur[p]] = cur[q]
  BY DEF SpinsOn
<1>2. PICK r \in S : to[cur[q]] = cur[r]
  BY DEF SpinsOn
<1>3. cur[p] # cur[q] /\ cur[q] # cur[r]
  BY <1>1, <1>2 DEF SpinsOn
<1>4. cur[r] = cur[p]
  BY <1>3 DEF TwoProcessors
<1>5. /\ cur[p] \in Threads /\ cur[q] \in Threads
      /\ At(cur[p], "switch") /\ At(cur[q], "switch")
  BY DEF SpinsOn, Switching, TypeOK
<1>6. QED
  BY <1>1, <1>2, <1>3, <1>4, <1>5, NoMutualSpin

LEMMA OrderKept ==
  ASSUME RunToCompletion, TwoProcessors, TypeOK, Inv, LifeInv, OrderInv,
         Next, ~MainReturn, ~Exited
  PROVE  OrderInv'
<1>1. CASE \E t \in Threads : Package(t)
  BY <1>1, OrderStays, OrderStop, OrderJoinUnlock DEF Package
<1>2. CASE \E t \in Threads : Client(t)
  BY <1>2, OrderStays, OrderYield, OrderReturn DEF Client
<1>3. CASE \E p \in Procs : Switch(p)
  BY <1>3, OrderSwitch
<1>4. CASE Boot
  BY <1>4, OrderBoot
<1>5. QED
  BY <1>1, <1>2, <1>3, <1>4 DEF Next, AfterExit

SpinIInv == PlaceIInv /\ (Exited \/ OrderInv)

LEMMA InitSpin ==
  ASSUME RunToCompletion, TwoProcessors, Init
  PROVE  SpinIInv
<1>1. OrderInv
  BY ThreadsAssumption DEF Init, OrderInv
<1>2. QED
  BY <1>1, InitPlace DEF SpinIInv

LEMMA NextSpin ==
  ASSUME RunToCompletion, TwoProcessors, SpinIInv, [Next]_vars
  PROVE  SpinIInv'
<1>1. PlaceIInv'
  BY NextPlace DEF SpinIInv
<1>2. ASSUME UNCHANGED vars PROVE SpinIInv'
  <2>1. Running' = Running
    BY <1>2 DEF vars, Running
  <2>2. (Exited => Exited') /\ (OrderInv => OrderInv')
    BY <1>2, <2>1 DEF vars, Exited, OrderInv
  <2>3. QED
    BY <1>1, <2>2 DEF SpinIInv
<1>3. CASE Next /\ Exited
  BY <1>2, <1>3, ExitedStays
<1>4. CASE MainReturn /\ ~Exited
  BY <1>1, <1>4 DEF MainReturn, Exited, SpinIInv
<1>5. CASE Next /\ ~MainReturn /\ ~Exited
  BY <1>1, <1>5, OrderKept DEF SpinIInv, PlaceIInv, LifeIInv, IInv
<1>6. QED
  BY <1>2, <1>3, <1>4, <1>5

(* Where there are no more than two processors they never spin on each     *)
(* other in uthread_switch, whatever the number of workers; of three, two  *)
(* may.                                                                    *)
THEOREM TwoProcessorsDoNotSpinForEver ==
  ASSUME RunToCompletion, TwoProcessors
  PROVE  Spec => []NoSpinCycle
<1>1. SpinIInv => NoSpinCycle
  <2>1. Exited => NoSpinCycle
    BY DEF Exited, NoSpinCycle, SpinsOn
  <2>2. QED
    BY <2>1, NoSpinCycleHolds DEF SpinIInv, PlaceIInv, LifeIInv, IInv
<1>2. QED
  BY <1>1, InitSpin, NextSpin, PTL DEF Spec
-----------------------------------------------------------------------------
(***************************************************************************)
(* One processor, any client: workers may yield, join and detach, and a    *)
(* thread may be passed to join and detach by several others.              *)
(*                                                                         *)
(* The processor runs one thread, and threads change places only in        *)
(* uthread_switch.  Every other thread is therefore behind a switch, and   *)
(* what it waits for can be read off its TCB.                              *)
(***************************************************************************)
OneProcessor == Procs = {BootProc}

(* The thread that the one processor runs. *)
Me == cur[BootProc]
Leaving == {"stop", "switch"}

(* Every other thread is behind a switch, or gone.                         *)
OthersInv ==
  \A t \in Threads \ {Me} :
    /\ pc[t] = IF state[t] \in Ended THEN "gone" ELSE "switched"
    /\ from[t] = NoThread
    /\ state[t] # "RUNNING"

(* The thread that runs could run when it was switched to, and is RUNNING  *)
(* when it has arrived.                                                    *)
MeInv ==
  /\ Me \in Threads
  /\ pc[Me] # "gone"
  /\ pc[Me] \in Arriving => state[Me] \in {"NASCENT", "RUNABLE"}
  /\ pc[Me] \notin Arriving => state[Me] = "RUNNING"
  /\ from[Me] # NoThread <=> pc[Me] \in {"switched"} \cup ReapPC
  /\ from[Me] # Me
  /\ pc[Me] \in ReapPC \ {"reapUnlock"} => state[from[Me]] = "DYING"
  /\ pc[Me] = "reapUnlock" => state[from[Me]] = "DEAD"
  /\ pc[Me] = "reapEnqueue" => joiner[from[Me]] \in Threads

(* What a thread that leaves is going to be depends on its caller.         *)
LeavingInv ==
  pc[Me] \in Leaving => /\ cont[Me] = "user" => stopping[Me] = "RUNABLE"
                        /\ cont[Me] = "joined" => stopping[Me] = "BLOCKED"
                        /\ cont[Me] = "gone" => stopping[Me] = "DYING"

(* The pending threads are those that can run, once they are started.      *)
RunnableInv ==
  /\ \A t \in Threads \ {Me} :
       t \in Pending <=> /\ state[t] \in {"NASCENT", "RUNABLE"}
                         /\ ~(pc[Me] = "reapEnqueue" /\ joiner[from[Me]] = t)
  /\ Me \in Pending <=> pc[Me] \in Leaving /\ cont[Me] = "user"

(* Who dies is a worker, and is freed or reaped by the next thread.        *)
EndInv ==
  /\ \A t \in Threads \ Workers : state[t] \notin Ended \cup {"UNBORN"} /\ cont[t] # "gone"
  /\ \A t \in Threads : cont[t] = "gone" => pc[t] \in Leaving \cup {"gone"}
  /\ \A t \in Threads : state[t] = "DYING" => t \in freed \/ from[Me] = t
  /\ \A t \in Threads : state[t] \in {"UNBORN", "NASCENT"} => cont[t] = "user"
  /\ \A t \in Procs : cont[t] = "user" /\ pc[t] \notin JoinPC
  /\ \A w \in freed : state[w] \in Ended /\ from[Me] # w

(* A target is a thread that is there, and somebody else.                  *)
AimInv ==
  \A t \in Threads :
    /\ target[t] # NoThread <=> pc[t] \in JoinPC \cup DetachPC \/ Waits(t)
    /\ target[t] # NoThread => /\ target[t] \in Workers \ freed
                               /\ state[target[t]] # "UNBORN"
                               /\ target[t] # t

(* How far a call has come shows in the field joiner of its target.        *)
CallInv ==
  \A t \in Threads :
    /\ pc[t] = "joinUnlock" \/ Waits(t) => joiner[target[t]] = t
    /\ pc[t] \in {"join", "joinLocked", "detach", "detachLocked"} => joiner[target[t]] = NoThread
    /\ pc[t] = "detachUnlock" => joiner[target[t]] = Detached
    /\ pc[t] = "joined" => /\ state[target[t]] = "DEAD"
                           /\ joiner[target[t]] \in {NoThread, t}

(* Me has started the joiner of w, or found that it has none.              *)
HasStarted(w) == pc[Me] \in {"reapEnqueue", "reapDead"} /\ from[Me] = w

(* A joiner waits for its thread, and is BLOCKED until it is started.      *)
WaitInv ==
  /\ \A w \in Threads \ freed :
       joiner[w] \in Threads => /\ target[joiner[w]] = w
                                /\ pc[joiner[w]] \in {"joinUnlock", "joined"} \/ Waits(joiner[w])
  /\ \A w \in Threads : state[w] = "UNBORN" => joiner[w] = NoThread
  /\ \A t \in Threads \ {Me} :
       Waits(t) => \/ state[t] = "BLOCKED" /\ state[target[t]] # "DEAD" /\ ~HasStarted(target[t])
                   \/ state[t] = "RUNABLE" /\ (state[target[t]] = "DEAD" \/ HasStarted(target[t]))
  /\ \A t \in Threads \ {Me} : state[t] = "BLOCKED" => Waits(t)
  /\ Waits(Me) /\ pc[Me] \in Arriving => state[target[Me]] = "DEAD"
  /\ Waits(Me) /\ pc[Me] \in Leaving => state[target[Me]] \notin Ended
  /\ pc[Me] = "joinUnlock" => state[target[Me]] \notin Ended

OneInv == /\ QueueInv /\ OthersInv /\ MeInv /\ LeavingInv /\ RunnableInv /\ EndInv
          /\ AimInv /\ CallInv /\ WaitInv

-----------------------------------------------------------------------------
(* The actions that leave the set of pending threads as it is.             *)

LEMMA OneFacts ==
  ASSUME OneProcessor, TypeOK, OneInv
  PROVE  /\ Me \in Threads /\ \A t \in Threads : t \in Running <=> t = Me
         /\ Base \in Threads /\ Base \notin Workers /\ Base \notin Procs
         /\ BootProc \in Threads /\ BootProc \notin Workers
         /\ NoThread \notin Threads /\ Detached \notin Threads /\ Detached # NoThread
         /\ Workers \subseteq Threads
         /\ pc[Me] \in {"switched"} \cup ReapPC => from[Me] \in Threads \ {Me}
         /\ \A t \in Threads : pc[t] \in JoinPC \cup DetachPC \/ Waits(t)
                               => target[t] \in Workers /\ target[t] \in Threads
<1>1. \A t \in Threads : t \in Running <=> t = Me
  BY DEF OneProcessor, Running, Me
<1>2. QED
  BY <1>1, ThreadsAssumption DEF Threads, TypeOK, OneInv, MeInv, AimInv

(* A thread that does not run and has a target waits for it. *)
LEMMA Waiters ==
  ASSUME OneProcessor, TypeOK, OneInv, NEW t \in Threads \ {Me}, target[t] # NoThread
  PROVE  Waits(t) /\ joiner[target[t]] = t
BY DEF OneInv, OthersInv, AimInv, CallInv, JoinPC, DetachPC

LEMMA FromDyingOne ==
  ASSUME OneProcessor, TypeOK, OneInv, NEW t \in Threads, FromDying(t)
  PROVE  TypeOK' /\ OneInv'
<1>1. t = Me /\ Me' = Me /\ pc[t] = "switched"
  BY OneFacts DEF FromDying, Me
<1>2. Ready' = Ready /\ Held' = Held /\ Pending' = Pending
  BY DEF FromDying, Ready, Held, Pending
<1>3. TypeOK'
  BY DEF FromDying, TypeOK, PC, ReapPC
<1>4. QueueInv'
  BY <1>2 DEF FromDying, OneInv, QueueInv
<1>5. OthersInv'
  BY <1>1 DEF FromDying, OneInv, OthersInv
<1>6. MeInv'
  BY <1>1 DEF FromDying, OneInv, MeInv, Arriving, ReapPC
<1>7. LeavingInv'
  BY <1>1 DEF FromDying, LeavingInv, Leaving
<1>8. RunnableInv'
  BY <1>1, <1>2 DEF FromDying, OneInv, RunnableInv, Leaving
<1>9. EndInv'
  BY <1>1 DEF FromDying, OneInv, EndInv, Leaving, JoinPC
<1>10. AimInv'
  BY DEF FromDying, OneInv, AimInv, Waits, JoinPC, DetachPC, Arriving, ReapPC
<1>11. CallInv'
  BY DEF FromDying, OneInv, CallInv, Waits, Arriving
<1>12. WaitInv'
  BY <1>1 DEF FromDying, OneInv, WaitInv, HasStarted, Waits, Leaving, Arriving, ReapPC
<1>13. QED
  BY <1>3, <1>4, <1>5, <1>6, <1>7, <1>8, <1>9, <1>10, <1>11, <1>12 DEF OneInv

LEMMA FromLiveOne ==
  ASSUME OneProcessor, TypeOK, OneInv, NEW t \in Threads, FromLive(t)
  PROVE  TypeOK' /\ OneInv'
<1>1. t = Me /\ Me' = Me /\ pc[t] = "switched"
  BY OneFacts DEF FromLive, Me
<1>2. Ready' = Ready /\ Held' = Held /\ Pending' = Pending
  BY DEF FromLive, Ready, Held, Pending
<1>3. TypeOK'
  BY DEF FromLive, TypeOK, PC
<1>4. QueueInv'
  BY <1>2 DEF FromLive, OneInv, QueueInv
<1>5. OthersInv'
  BY <1>1 DEF FromLive, OneInv, OthersInv
<1>6. MeInv'
  BY <1>1, OneFacts DEF FromLive, TypeOK, OneInv, MeInv, Arriving, ReapPC
<1>7. LeavingInv'
  BY <1>1 DEF FromLive, LeavingInv, Leaving
<1>8. RunnableInv'
  BY <1>1, <1>2 DEF FromLive, OneInv, RunnableInv, Leaving
<1>9. EndInv'
  BY <1>1, OneFacts DEF FromLive, TypeOK, OneInv, EndInv, Leaving, JoinPC
<1>10. AimInv'
  BY DEF FromLive, OneInv, AimInv, Waits, JoinPC, DetachPC, Arriving
<1>11. CallInv'
  BY DEF FromLive, OneInv, CallInv, Waits, Arriving
<1>12. WaitInv'
  BY <1>1 DEF FromLive, OneInv, WaitInv, HasStarted, Waits, Leaving, Arriving
<1>13. QED
  BY <1>3, <1>4, <1>5, <1>6, <1>7, <1>8, <1>9, <1>10, <1>11, <1>12 DEF OneInv

LEMMA ReapLockOne ==
  ASSUME OneProcessor, TypeOK, OneInv, NEW t \in Threads, ReapLock(t)
  PROVE  TypeOK' /\ OneInv'
<1>1. t = Me /\ Me' = Me /\ pc[t] = "reap"
  BY OneFacts DEF ReapLock, Me
<1>2. Ready' = Ready /\ Held' = Held /\ Pending' = Pending
  BY DEF ReapLock, Ready, Held, Pending
<1>3. TypeOK'
  BY OneFacts DEF ReapLock, TypeOK, PC, ReapPC
<1>4. QueueInv'
  BY <1>2 DEF ReapLock, OneInv, QueueInv
<1>5. OthersInv'
  BY <1>1 DEF ReapLock, OneInv, OthersInv
<1>6. MeInv'
  BY <1>1 DEF ReapLock, OneInv, MeInv, Arriving, ReapPC
<1>7. LeavingInv'
  BY <1>1 DEF ReapLock, LeavingInv, Leaving
<1>8. RunnableInv'
  BY <1>1, <1>2 DEF ReapLock, OneInv, RunnableInv, Leaving
<1>9. EndInv'
  BY <1>1 DEF ReapLock, OneInv, EndInv, Leaving, JoinPC
<1>10. AimInv'
  BY DEF ReapLock, OneInv, AimInv, Waits, JoinPC, DetachPC, Arriving, ReapPC
<1>11. CallInv'
  BY DEF ReapLock, OneInv, CallInv, Waits, Arriving, ReapPC
<1>12. WaitInv'
  BY <1>1 DEF ReapLock, OneInv, WaitInv, HasStarted, Waits, Leaving, Arriving, ReapPC
<1>13. QED
  BY <1>3, <1>4, <1>5, <1>6, <1>7, <1>8, <1>9, <1>10, <1>11, <1>12 DEF OneInv

LEMMA ReapFreeOne ==
  ASSUME OneProcessor, TypeOK, OneInv, NEW t \in Threads, ReapFree(t)
  PROVE  TypeOK' /\ OneInv'
<1>1. t = Me /\ Me' = Me /\ pc[t] = "reapLocked"
  BY OneFacts DEF ReapFree, Me
<1>2. Ready' = Ready /\ Held' = Held /\ Pending' = Pending
  BY DEF ReapFree, Ready, Held, Pending
<1>a. /\ from[t] \in Threads /\ state[from[t]] = "DYING" /\ joiner[from[t]] = Detached
      /\ from' = [from EXCEPT ![t] = NoThread] /\ freed' = freed \cup {from[t]}
      /\ pc' = [pc EXCEPT ![t] = "resume"]
      /\ UNCHANGED <<state, cont, target, joiner>>
  BY OneFacts DEF ReapFree, OneInv, MeInv, ReapPC
<1>b. \A u \in Threads : target[u] # NoThread => Waits(u) /\ target[u] # from[t]
  <2>1. \A u \in Threads : target[u] # NoThread => Waits(u)
    BY <1>1, Waiters DEF OneInv, AimInv, JoinPC, DetachPC
  <2>2. QED
    BY <1>a, <2>1, OneFacts DEF OneInv, CallInv
<1>3. TypeOK'
  BY OneFacts DEF ReapFree, TypeOK, PC, ReapPC
<1>4. QueueInv'
  BY <1>2 DEF ReapFree, OneInv, QueueInv
<1>5. OthersInv'
  BY <1>1 DEF ReapFree, OneInv, OthersInv
<1>6. MeInv'
  BY <1>1, OneFacts DEF ReapFree, TypeOK, OneInv, MeInv, Arriving, ReapPC
<1>7. LeavingInv'
  BY <1>1 DEF ReapFree, LeavingInv, Leaving
<1>8. RunnableInv'
  BY <1>1, <1>2 DEF ReapFree, OneInv, RunnableInv, Leaving
<1>9. EndInv'
  <2>1. from'[Me'] = NoThread
    BY <1>1, <1>a DEF TypeOK
  <2>3. freed' \subseteq Threads
    BY <1>a DEF TypeOK
  <2>5. \A w \in freed' : state'[w] \in Ended
    BY <1>a DEF OneInv, EndInv, Ended
  <2>6. QED
    BY <1>1, <1>a, <2>1, <2>3, <2>5, OneFacts DEF OneInv, EndInv, Leaving, JoinPC
<1>10. AimInv'
  BY <1>1, <1>a, <1>b DEF OneInv, AimInv, Waits, JoinPC, DetachPC, Arriving, ReapPC
<1>11. CallInv'
  BY DEF ReapFree, OneInv, CallInv, Waits, Arriving, ReapPC
<1>12. WaitInv'
  BY <1>1 DEF ReapFree, OneInv, WaitInv, HasStarted, Waits, Leaving, Arriving, ReapPC
<1>13. QED
  BY <1>3, <1>4, <1>5, <1>6, <1>7, <1>8, <1>9, <1>10, <1>11, <1>12 DEF OneInv

LEMMA ReapStartOne ==
  ASSUME OneProcessor, TypeOK, OneInv, NEW t \in Threads, ReapStart(t)
  PROVE  TypeOK' /\ OneInv'
<1>1. t = Me /\ Me' = Me /\ pc[t] = "reapLocked"
  BY OneFacts DEF ReapStart, Me
<1>2. Ready' = Ready /\ Held' = Held /\ Pending' = Pending
  BY DEF ReapStart, Ready, Held, Pending
<1> DEFINE x == joiner[from[t]]
<1>a. /\ from[t] \in Threads /\ state[from[t]] = "DYING" /\ from[t] \notin freed
      /\ x \in Threads /\ target[x] = from[t]
  BY OneFacts DEF ReapStart, OneInv, MeInv, EndInv, WaitInv, ReapPC
<1>b. x # Me
  BY <1>1, <1>a DEF OneInv, WaitInv, Arriving, ReapPC
<1>c. Waits(x) /\ state[x] = "BLOCKED" /\ pc[x] = "switched" /\ x \notin Pending
  <2>1. Waits(x)
    BY <1>a, <1>b, Waiters, OneFacts
  <2>2. state[x] = "BLOCKED"
    BY <1>1, <1>a, <1>b, <2>1 DEF OneInv, WaitInv, HasStarted
  <2>3. QED
    BY <1>a, <1>b, <2>1, <2>2 DEF OneInv, OthersInv, RunnableInv, Ended
<1>d. /\ state' = [state EXCEPT ![x] = "RUNABLE"] /\ pc' = [pc EXCEPT ![t] = "reapEnqueue"]
      /\ UNCHANGED <<joiner, freed, from, to, stopping, cont, target>>
  BY <1>c DEF ReapStart
<1> HIDE DEF x
<1>3. TypeOK'
  BY DEF ReapStart, TypeOK, PC, ReapPC, States
<1>4. QueueInv'
  BY <1>2 DEF ReapStart, OneInv, QueueInv
<1>5. OthersInv'
  BY <1>1, <1>c, <1>d DEF OneInv, OthersInv, Ended
<1>6. MeInv'
  BY <1>1, <1>a, <1>c, <1>d DEF OneInv, MeInv, Arriving, ReapPC, x
<1>7. LeavingInv'
  BY <1>1 DEF ReapStart, LeavingInv, Leaving
<1>8. RunnableInv'
  BY <1>1, <1>2, <1>c, <1>d DEF TypeOK, OneInv, RunnableInv, Leaving, x
<1>9. EndInv'
  BY <1>1, <1>c, <1>d DEF OneInv, EndInv, Leaving, Ended, JoinPC
<1>10. AimInv'
  BY DEF ReapStart, OneInv, AimInv, Waits, JoinPC, DetachPC, Arriving, ReapPC
<1>11. CallInv'
  BY <1>1, <1>c, <1>d DEF OneInv, CallInv, Waits, Arriving, ReapPC
<1>12. WaitInv'
  BY <1>1, <1>a, <1>c, <1>d DEF TypeOK, OneInv, WaitInv, HasStarted, CallInv, Waits,
     Leaving, Arriving, ReapPC
<1>13. QED
  BY <1>3, <1>4, <1>5, <1>6, <1>7, <1>8, <1>9, <1>10, <1>11, <1>12 DEF OneInv

LEMMA ReapNoJoinerOne ==
  ASSUME OneProcessor, TypeOK, OneInv, NEW t \in Threads, ReapNoJoiner(t)
  PROVE  TypeOK' /\ OneInv'
<1>1. t = Me /\ Me' = Me /\ pc[t] = "reapLocked"
  BY OneFacts DEF ReapNoJoiner, Me
<1>2. Ready' = Ready /\ Held' = Held /\ Pending' = Pending
  BY DEF ReapNoJoiner, Ready, Held, Pending
<1>3. TypeOK'
  BY DEF ReapNoJoiner, TypeOK, PC, ReapPC
<1>4. QueueInv'
  BY <1>2 DEF ReapNoJoiner, OneInv, QueueInv
<1>5. OthersInv'
  BY <1>1 DEF ReapNoJoiner, OneInv, OthersInv
<1>6. MeInv'
  BY <1>1 DEF ReapNoJoiner, OneInv, MeInv, Arriving, ReapPC
<1>7. LeavingInv'
  BY <1>1 DEF ReapNoJoiner, LeavingInv, Leaving
<1>8. RunnableInv'
  BY <1>1, <1>2 DEF ReapNoJoiner, OneInv, RunnableInv, Leaving
<1>9. EndInv'
  BY <1>1 DEF ReapNoJoiner, OneInv, EndInv, Leaving, JoinPC
<1>10. AimInv'
  BY DEF ReapNoJoiner, OneInv, AimInv, Waits, JoinPC, DetachPC, Arriving, ReapPC
<1>11. CallInv'
  BY DEF ReapNoJoiner, OneInv, CallInv, Waits, Arriving, ReapPC
<1>12. WaitInv'
  BY <1>1, OneFacts DEF ReapNoJoiner, OneInv, WaitInv, HasStarted, CallInv, Waits,
     Leaving, Arriving, ReapPC
<1>13. QED
  BY <1>3, <1>4, <1>5, <1>6, <1>7, <1>8, <1>9, <1>10, <1>11, <1>12 DEF OneInv

LEMMA ReapDeadOne ==
  ASSUME OneProcessor, TypeOK, OneInv, NEW t \in Threads, ReapDead(t)
  PROVE  TypeOK' /\ OneInv'
<1>1. t = Me /\ Me' = Me /\ pc[t] = "reapDead"
  BY OneFacts DEF ReapDead, Me
<1>2. Ready' = Ready /\ Held' = Held /\ Pending' = Pending
  BY DEF ReapDead, Ready, Held, Pending
<1>a. /\ from[t] \in Threads /\ from[t] # t /\ state[from[t]] = "DYING"
      /\ state' = [state EXCEPT ![from[t]] = "DEAD"] /\ pc' = [pc EXCEPT ![t] = "reapUnlock"]
      /\ UNCHANGED <<joiner, freed, from, cont, target>>
  BY OneFacts DEF ReapDead, OneInv, MeInv, ReapPC
<1>3. TypeOK'
  BY <1>1, OneFacts DEF ReapDead, TypeOK, PC, ReapPC, States
<1>4. QueueInv'
  BY <1>2 DEF ReapDead, OneInv, QueueInv
<1>5. OthersInv'
  BY <1>1, OneFacts DEF ReapDead, OneInv, MeInv, OthersInv, Ended
<1>6. MeInv'
  BY <1>1 DEF ReapDead, TypeOK, OneInv, MeInv, Arriving, ReapPC
<1>7. LeavingInv'
  BY <1>1 DEF ReapDead, LeavingInv, Leaving
<1>8. RunnableInv'
  BY <1>1, <1>2, <1>a DEF OneInv, RunnableInv, Leaving
<1>9. EndInv'
  BY <1>1, OneFacts DEF ReapDead, OneInv, EndInv, MeInv, Leaving, Ended, JoinPC
<1>10. AimInv'
  BY DEF ReapDead, OneInv, AimInv, Waits, JoinPC, DetachPC, Arriving, ReapPC
<1>11. CallInv'
  BY DEF ReapDead, OneInv, CallInv, Waits, Arriving, ReapPC
<1>12. WaitInv'
  BY <1>1 DEF ReapDead, TypeOK, OneInv, WaitInv, HasStarted, MeInv, Waits, Leaving,
     Arriving, ReapPC
<1>13. QED
  BY <1>3, <1>4, <1>5, <1>6, <1>7, <1>8, <1>9, <1>10, <1>11, <1>12 DEF OneInv

LEMMA ReapUnlockOne ==
  ASSUME OneProcessor, TypeOK, OneInv, NEW t \in Threads, ReapUnlock(t)
  PROVE  TypeOK' /\ OneInv'
<1>1. t = Me /\ Me' = Me /\ pc[t] = "reapUnlock"
  BY OneFacts DEF ReapUnlock, Me
<1>2. Ready' = Ready /\ Held' = Held /\ Pending' = Pending
  BY DEF ReapUnlock, Ready, Held, Pending
<1>3. TypeOK'
  BY OneFacts DEF ReapUnlock, TypeOK, PC, ReapPC
<1>4. QueueInv'
  BY <1>2 DEF ReapUnlock, OneInv, QueueInv
<1>5. OthersInv'
  BY <1>1 DEF ReapUnlock, OneInv, OthersInv
<1>6. MeInv'
  BY <1>1, OneFacts DEF ReapUnlock, TypeOK, OneInv, MeInv, Arriving, ReapPC
<1>7. LeavingInv'
  BY <1>1 DEF ReapUnlock, LeavingInv, Leaving
<1>8. RunnableInv'
  BY <1>1, <1>2 DEF ReapUnlock, OneInv, RunnableInv, Leaving
<1>9. EndInv'
  BY <1>1, OneFacts DEF ReapUnlock, TypeOK, OneInv, EndInv, MeInv, Leaving, JoinPC
<1>10. AimInv'
  BY DEF ReapUnlock, OneInv, AimInv, Waits, JoinPC, DetachPC, Arriving, ReapPC
<1>11. CallInv'
  BY DEF ReapUnlock, OneInv, CallInv, Waits, Arriving, ReapPC
<1>12. WaitInv'
  BY <1>1 DEF ReapUnlock, OneInv, WaitInv, HasStarted, Waits, Leaving, Arriving, ReapPC
<1>13. QED
  BY <1>3, <1>4, <1>5, <1>6, <1>7, <1>8, <1>9, <1>10, <1>11, <1>12 DEF OneInv

LEMMA ResumeOne ==
  ASSUME OneProcessor, TypeOK, OneInv, NEW t \in Threads, Resume(t)
  PROVE  TypeOK' /\ OneInv'
<1>1. t = Me /\ Me' = Me /\ pc[t] = "resume"
  BY OneFacts DEF Resume, Me
<1>2. Ready' = Ready /\ Held' = Held /\ Pending' = Pending
  BY DEF Resume, Ready, Held, Pending
<1>a. cont[t] \in {"user", "joined"} /\ (state[t] = "NASCENT" => cont[t] = "user")
  BY <1>1 DEF TypeOK, OneInv, EndInv, Leaving
<1>b. /\ pc' = [pc EXCEPT ![t] = cont[t]] /\ state' = [state EXCEPT ![t] = "RUNNING"]
      /\ state[t] \in {"NASCENT", "RUNABLE"}
      /\ UNCHANGED <<joiner, freed, readyQueue, from, to, stopping, cont, target>>
  BY <1>1, <1>a DEF Resume, OneInv, MeInv, Arriving
<1>3. TypeOK'
  BY DEF Resume, TypeOK, PC, JoinPC, States
<1>4. QueueInv'
  BY <1>1, <1>2, <1>a, <1>b DEF OneInv, QueueInv
<1>5. OthersInv'
  BY <1>1 DEF Resume, OneInv, OthersInv
<1>6. MeInv'
  BY <1>1, <1>a, <1>b DEF TypeOK, OneInv, MeInv, Arriving, ReapPC
<1>7. LeavingInv'
  BY <1>1 DEF Resume, LeavingInv, Leaving
<1>8. RunnableInv'
  BY <1>1, <1>2, <1>a, <1>b, OneFacts DEF TypeOK, OneInv, RunnableInv, Leaving
<1>9. EndInv'
  BY <1>1, <1>b DEF OneInv, EndInv, Ended, JoinPC
<1>10. AimInv'
  BY <1>1, <1>a, <1>b DEF OneInv, AimInv, Waits, JoinPC, DetachPC, Arriving
<1>11. CallInv'
  BY <1>1, <1>a, <1>b DEF OneInv, CallInv, WaitInv, Waits, Arriving
<1>12. WaitInv'
  BY <1>1, <1>a, <1>b DEF OneInv, WaitInv, HasStarted, Waits, Arriving, ReapPC
<1>13. QED
  BY <1>3, <1>4, <1>5, <1>6, <1>7, <1>8, <1>9, <1>10, <1>11, <1>12 DEF OneInv

LEMMA JoinLockOne ==
  ASSUME OneProcessor, TypeOK, OneInv, NEW t \in Threads, JoinLock(t)
  PROVE  TypeOK' /\ OneInv'
<1>1. t = Me /\ Me' = Me /\ pc[t] = "join"
  BY OneFacts DEF JoinLock, LockTarget, Me
<1>2. Ready' = Ready /\ Held' = Held /\ Pending' = Pending
  BY DEF JoinLock, LockTarget, Ready, Held, Pending
<1>3. TypeOK'
  BY OneFacts DEF JoinLock, LockTarget, TypeOK, PC, JoinPC
<1>4. QueueInv'
  BY <1>2 DEF JoinLock, LockTarget, OneInv, QueueInv
<1>5. OthersInv'
  BY <1>1 DEF JoinLock, LockTarget, OneInv, OthersInv
<1>6. MeInv'
  BY <1>1 DEF JoinLock, LockTarget, OneInv, MeInv, Arriving, ReapPC
<1>7. LeavingInv'
  BY <1>1 DEF JoinLock, LockTarget, LeavingInv, Leaving
<1>8. RunnableInv'
  BY <1>1, <1>2 DEF JoinLock, LockTarget, OneInv, RunnableInv, Leaving
<1>9. EndInv'
  BY <1>1 DEF JoinLock, LockTarget, OneInv, EndInv, Leaving, JoinPC
<1>10. AimInv'
  BY DEF JoinLock, LockTarget, OneInv, AimInv, Waits, JoinPC
<1>11. CallInv'
  BY DEF JoinLock, LockTarget, OneInv, CallInv, Waits, Arriving, ReapPC
<1>12. WaitInv'
  BY <1>1 DEF JoinLock, LockTarget, OneInv, WaitInv, HasStarted, Waits, Arriving,
     ReapPC
<1>13. QED
  BY <1>3, <1>4, <1>5, <1>6, <1>7, <1>8, <1>9, <1>10, <1>11, <1>12 DEF OneInv

LEMMA JoinWaitOne ==
  ASSUME OneProcessor, TypeOK, OneInv, NEW t \in Threads, JoinWait(t)
  PROVE  TypeOK' /\ OneInv'
<1>1. t = Me /\ Me' = Me /\ pc[t] = "joinLocked"
  BY OneFacts DEF JoinWait, SetJoiner, Me
<1>2. Ready' = Ready /\ Held' = Held /\ Pending' = Pending
  BY DEF JoinWait, SetJoiner, Ready, Held, Pending
<1>a. /\ target[t] \in Threads /\ target[t] \in Workers \ freed /\ target[t] # t
      /\ joiner[target[t]] = NoThread /\ state[target[t]] \notin {"DEAD", "UNBORN"}
      /\ joiner' = [joiner EXCEPT ![target[t]] = t] /\ pc' = [pc EXCEPT ![t] = "joinUnlock"]
      /\ UNCHANGED <<state, freed, from, cont, target>>
  BY OneFacts DEF JoinWait, SetJoiner, OneInv, CallInv, AimInv, JoinPC
<1>b. \A u \in Threads \ {t} : target[u] # NoThread => target[u] # target[t]
  BY <1>a, Waiters, OneFacts
<1>c. state[target[t]] # "DYING"
  BY <1>1, <1>a, OneFacts DEF OneInv, EndInv, MeInv, ReapPC
<1>3. TypeOK'
  BY OneFacts DEF JoinWait, SetJoiner, TypeOK, PC, JoinPC
<1>4. QueueInv'
  BY <1>2 DEF JoinWait, SetJoiner, OneInv, QueueInv
<1>5. OthersInv'
  BY <1>1 DEF JoinWait, SetJoiner, OneInv, OthersInv
<1>6. MeInv'
  BY <1>1 DEF JoinWait, SetJoiner, OneInv, MeInv, Arriving, ReapPC
<1>7. LeavingInv'
  BY <1>1 DEF JoinWait, SetJoiner, LeavingInv, Leaving
<1>8. RunnableInv'
  BY <1>1, <1>2 DEF JoinWait, SetJoiner, OneInv, RunnableInv, Leaving
<1>9. EndInv'
  BY <1>1 DEF JoinWait, SetJoiner, OneInv, EndInv, Leaving, JoinPC
<1>10. AimInv'
  BY DEF JoinWait, SetJoiner, OneInv, AimInv, Waits, JoinPC
<1>11. CallInv'
  BY <1>a, <1>b, OneFacts DEF TypeOK, OneInv, CallInv, Waits
<1>12. WaitInv'
  BY <1>1, <1>a, <1>c DEF TypeOK, OneInv, WaitInv, HasStarted, Waits, Arriving, ReapPC,
     Ended
<1>13. QED
  BY <1>3, <1>4, <1>5, <1>6, <1>7, <1>8, <1>9, <1>10, <1>11, <1>12 DEF OneInv

LEMMA JoinDeadOne ==
  ASSUME OneProcessor, TypeOK, OneInv, NEW t \in Threads, JoinDead(t)
  PROVE  TypeOK' /\ OneInv'
<1>1. t = Me /\ Me' = Me /\ pc[t] = "joinLocked"
  BY OneFacts DEF JoinDead, Me
<1>2. Ready' = Ready /\ Held' = Held /\ Pending' = Pending
  BY DEF JoinDead, Ready, Held, Pending
<1>3. TypeOK'
  BY DEF JoinDead, TypeOK, PC, JoinPC
<1>4. QueueInv'
  BY <1>2 DEF JoinDead, OneInv, QueueInv
<1>5. OthersInv'
  BY <1>1 DEF JoinDead, OneInv, OthersInv
<1>6. MeInv'
  BY <1>1 DEF JoinDead, OneInv, MeInv, Arriving, ReapPC
<1>7. LeavingInv'
  BY <1>1 DEF JoinDead, LeavingInv, Leaving
<1>8. RunnableInv'
  BY <1>1, <1>2 DEF JoinDead, OneInv, RunnableInv, Leaving
<1>9. EndInv'
  BY <1>1 DEF JoinDead, OneInv, EndInv, Leaving, JoinPC
<1>10. AimInv'
  BY DEF JoinDead, OneInv, AimInv, Waits, JoinPC
<1>11. CallInv'
  BY DEF JoinDead, OneInv, CallInv, Waits, Arriving, ReapPC
<1>12. WaitInv'
  BY <1>1 DEF JoinDead, OneInv, WaitInv, HasStarted, Waits, Arriving, ReapPC
<1>13. QED
  BY <1>3, <1>4, <1>5, <1>6, <1>7, <1>8, <1>9, <1>10, <1>11, <1>12 DEF OneInv

LEMMA JoinUnlockOne ==
  ASSUME OneProcessor, TypeOK, OneInv, NEW t \in Threads, JoinUnlock(t)
  PROVE  TypeOK' /\ OneInv'
<1>1. t = Me /\ Me' = Me /\ pc[t] = "joinUnlock"
  BY OneFacts DEF JoinUnlock, Me
<1>2. Ready' = Ready /\ Held' = Held /\ Pending' = Pending
  BY DEF JoinUnlock, Ready, Held, Pending
<1>3. TypeOK'
  BY OneFacts DEF JoinUnlock, TypeOK, PC, JoinPC
<1>4. QueueInv'
  BY <1>2 DEF JoinUnlock, OneInv, QueueInv
<1>5. OthersInv'
  BY <1>1 DEF JoinUnlock, OneInv, OthersInv
<1>6. MeInv'
  BY <1>1 DEF JoinUnlock, OneInv, MeInv, Arriving, ReapPC
<1>7. LeavingInv'
  BY <1>1 DEF JoinUnlock, TypeOK, LeavingInv
<1>8. RunnableInv'
  BY <1>1, <1>2 DEF JoinUnlock, TypeOK, OneInv, RunnableInv, Leaving
<1>9. EndInv'
  <2>1. t \notin Procs /\ state[t] = "RUNNING" /\ pc[t] = "joinUnlock"
    BY <1>1 DEF OneInv, MeInv, EndInv, Arriving, ReapPC, JoinPC
  <2>2. \A u \in Threads : /\ pc'[u] = IF u = t THEN "stop" ELSE pc[u]
                           /\ cont'[u] = IF u = t THEN "joined" ELSE cont[u]
    BY DEF JoinUnlock, TypeOK
  <2>3. UNCHANGED <<state, freed, from>>
    BY DEF JoinUnlock
  <2>4. QED
    BY <1>1, <2>1, <2>2, <2>3 DEF OneInv, EndInv, Threads
<1>10. AimInv'
  BY DEF JoinUnlock, TypeOK, OneInv, AimInv, Waits, JoinPC
<1>11. CallInv'
  BY DEF JoinUnlock, OneInv, CallInv, Waits
<1>12. WaitInv'
  BY <1>1 DEF JoinUnlock, TypeOK, OneInv, WaitInv, HasStarted, Waits, Arriving, ReapPC
<1>13. QED
  BY <1>3, <1>4, <1>5, <1>6, <1>7, <1>8, <1>9, <1>10, <1>11, <1>12 DEF OneInv

LEMMA JoinedOne ==
  ASSUME OneProcessor, TypeOK, OneInv, NEW t \in Threads, Joined(t)
  PROVE  TypeOK' /\ OneInv'
<1>1. t = Me /\ Me' = Me /\ pc[t] = "joined"
  BY OneFacts DEF Joined, Me
<1>2. Ready' = Ready /\ Held' = Held /\ Pending' = Pending
  BY DEF Joined, Ready, Held, Pending
<1>a. /\ target[t] \in Threads /\ target[t] \in Workers \ freed /\ state[target[t]] = "DEAD"
      /\ joiner[target[t]] \in {NoThread, t} /\ from[t] = NoThread
      /\ freed' = freed \cup {target[t]} /\ pc' = [pc EXCEPT ![t] = "user"]
      /\ target' = [target EXCEPT ![t] = NoThread]
      /\ UNCHANGED <<state, from, cont, joiner>>
  BY OneFacts DEF Joined, OneInv, CallInv, AimInv, MeInv, JoinPC, ReapPC
<1>b. \A u \in Threads \ {t} : target[u] # NoThread => target[u] # target[t]
  BY <1>1, <1>a, Waiters, OneFacts
<1>3. TypeOK'
  BY OneFacts DEF Joined, TypeOK, PC, JoinPC
<1>4. QueueInv'
  BY <1>2 DEF Joined, OneInv, QueueInv
<1>5. OthersInv'
  BY <1>1 DEF Joined, OneInv, OthersInv
<1>6. MeInv'
  BY <1>1 DEF Joined, OneInv, MeInv, Arriving, ReapPC
<1>7. LeavingInv'
  BY <1>1 DEF Joined, LeavingInv, Leaving
<1>8. RunnableInv'
  BY <1>1, <1>2 DEF Joined, OneInv, RunnableInv, Leaving
<1>9. EndInv'
  BY <1>1, <1>a, OneFacts DEF OneInv, EndInv, Leaving, Ended, JoinPC
<1>10. AimInv'
  BY <1>a, <1>b DEF TypeOK, OneInv, AimInv, Waits, JoinPC, DetachPC, Arriving,
     ReapPC
<1>11. CallInv'
  BY DEF Joined, TypeOK, OneInv, CallInv, Waits, Arriving, ReapPC
<1>12. WaitInv'
  BY <1>1 DEF Joined, OneInv, WaitInv, HasStarted, Waits, Arriving, ReapPC
<1>13. QED
  BY <1>3, <1>4, <1>5, <1>6, <1>7, <1>8, <1>9, <1>10, <1>11, <1>12 DEF OneInv

LEMMA DetachLockOne ==
  ASSUME OneProcessor, TypeOK, OneInv, NEW t \in Threads, DetachLock(t)
  PROVE  TypeOK' /\ OneInv'
<1>1. t = Me /\ Me' = Me /\ pc[t] = "detach"
  BY OneFacts DEF DetachLock, LockTarget, Me
<1>2. Ready' = Ready /\ Held' = Held /\ Pending' = Pending
  BY DEF DetachLock, LockTarget, Ready, Held, Pending
<1>3. TypeOK'
  BY OneFacts DEF DetachLock, LockTarget, TypeOK, PC, DetachPC
<1>4. QueueInv'
  BY <1>2 DEF DetachLock, LockTarget, OneInv, QueueInv
<1>5. OthersInv'
  BY <1>1 DEF DetachLock, LockTarget, OneInv, OthersInv
<1>6. MeInv'
  BY <1>1 DEF DetachLock, LockTarget, OneInv, MeInv, Arriving, ReapPC
<1>7. LeavingInv'
  BY <1>1 DEF DetachLock, LockTarget, LeavingInv, Leaving
<1>8. RunnableInv'
  BY <1>1, <1>2 DEF DetachLock, LockTarget, OneInv, RunnableInv, Leaving
<1>9. EndInv'
  BY <1>1 DEF DetachLock, LockTarget, OneInv, EndInv, Leaving, JoinPC
<1>10. AimInv'
  BY DEF DetachLock, LockTarget, OneInv, AimInv, Waits, DetachPC
<1>11. CallInv'
  BY DEF DetachLock, LockTarget, OneInv, CallInv, Waits, Arriving, ReapPC
<1>12. WaitInv'
  BY <1>1 DEF DetachLock, LockTarget, OneInv, WaitInv, HasStarted, Waits, Arriving,
     ReapPC
<1>13. QED
  BY <1>3, <1>4, <1>5, <1>6, <1>7, <1>8, <1>9, <1>10, <1>11, <1>12 DEF OneInv

LEMMA DetachSetOne ==
  ASSUME OneProcessor, TypeOK, OneInv, NEW t \in Threads, DetachSet(t)
  PROVE  TypeOK' /\ OneInv'
<1>1. t = Me /\ Me' = Me /\ pc[t] = "detachLocked"
  BY OneFacts DEF DetachSet, SetJoiner, Me
<1>2. Ready' = Ready /\ Held' = Held /\ Pending' = Pending
  BY DEF DetachSet, SetJoiner, Ready, Held, Pending
<1>a. /\ target[t] \in Threads /\ target[t] \in Workers \ freed /\ target[t] # t
      /\ joiner[target[t]] = NoThread /\ state[target[t]] \notin {"DEAD", "UNBORN"}
      /\ joiner' = [joiner EXCEPT ![target[t]] = Detached] /\ pc' = [pc EXCEPT ![t] = "detachUnlock"]
      /\ UNCHANGED <<state, freed, from, cont, target>>
  BY OneFacts DEF DetachSet, SetJoiner, OneInv, CallInv, AimInv, DetachPC
<1>b. \A u \in Threads \ {t} : target[u] # NoThread => target[u] # target[t]
  BY <1>a, Waiters, OneFacts
<1>3. TypeOK'
  BY OneFacts DEF DetachSet, SetJoiner, TypeOK, PC, DetachPC
<1>4. QueueInv'
  BY <1>2 DEF DetachSet, SetJoiner, OneInv, QueueInv
<1>5. OthersInv'
  BY <1>1 DEF DetachSet, SetJoiner, OneInv, OthersInv
<1>6. MeInv'
  BY <1>1 DEF DetachSet, SetJoiner, OneInv, MeInv, Arriving, ReapPC
<1>7. LeavingInv'
  BY <1>1 DEF DetachSet, SetJoiner, LeavingInv, Leaving
<1>8. RunnableInv'
  BY <1>1, <1>2 DEF DetachSet, SetJoiner, OneInv, RunnableInv, Leaving
<1>9. EndInv'
  BY <1>1 DEF DetachSet, SetJoiner, OneInv, EndInv, Leaving, JoinPC
<1>10. AimInv'
  BY DEF DetachSet, SetJoiner, OneInv, AimInv, Waits, DetachPC
<1>11. CallInv'
  BY <1>a, <1>b, OneFacts DEF TypeOK, OneInv, CallInv, Waits, Arriving, ReapPC
<1>12. WaitInv'
  BY <1>1, <1>a, OneFacts DEF OneInv, WaitInv, HasStarted, Waits, Arriving, ReapPC
<1>13. QED
  BY <1>3, <1>4, <1>5, <1>6, <1>7, <1>8, <1>9, <1>10, <1>11, <1>12 DEF OneInv

LEMMA DetachUnlockOne ==
  ASSUME OneProcessor, TypeOK, OneInv, NEW t \in Threads, DetachUnlock(t)
  PROVE  TypeOK' /\ OneInv'
<1>1. t = Me /\ Me' = Me /\ pc[t] = "detachUnlock"
  BY OneFacts DEF DetachUnlock, Me
<1>2. Ready' = Ready /\ Held' = Held /\ Pending' = Pending
  BY DEF DetachUnlock, Ready, Held, Pending
<1>3. TypeOK'
  BY OneFacts DEF DetachUnlock, TypeOK, PC, DetachPC
<1>4. QueueInv'
  BY <1>2 DEF DetachUnlock, OneInv, QueueInv
<1>5. OthersInv'
  BY <1>1 DEF DetachUnlock, OneInv, OthersInv
<1>6. MeInv'
  BY <1>1 DEF DetachUnlock, OneInv, MeInv, Arriving, ReapPC
<1>7. LeavingInv'
  BY <1>1 DEF DetachUnlock, LeavingInv, Leaving
<1>8. RunnableInv'
  BY <1>1, <1>2 DEF DetachUnlock, OneInv, RunnableInv, Leaving
<1>9. EndInv'
  BY <1>1 DEF DetachUnlock, OneInv, EndInv, Leaving, JoinPC
<1>10. AimInv'
  BY DEF DetachUnlock, TypeOK, OneInv, AimInv, Waits, JoinPC, DetachPC, Arriving,
     ReapPC
<1>11. CallInv'
  BY DEF DetachUnlock, TypeOK, OneInv, CallInv, Waits, Arriving, ReapPC
<1>12. WaitInv'
  BY <1>1 DEF DetachUnlock, OneInv, WaitInv, HasStarted, Waits, Arriving, ReapPC
<1>13. QED
  BY <1>3, <1>4, <1>5, <1>6, <1>7, <1>8, <1>9, <1>10, <1>11, <1>12 DEF OneInv

LEMMA DetachFreeOne ==
  ASSUME OneProcessor, TypeOK, OneInv, NEW t \in Threads, DetachFree(t)
  PROVE  TypeOK' /\ OneInv'
<1>1. t = Me /\ Me' = Me /\ pc[t] = "detachLocked"
  BY OneFacts DEF DetachFree, Me
<1>2. Ready' = Ready /\ Held' = Held /\ Pending' = Pending
  BY DEF DetachFree, Ready, Held, Pending
<1>a. /\ target[t] \in Threads /\ target[t] \in Workers \ freed /\ state[target[t]] = "DEAD"
      /\ joiner[target[t]] \in {NoThread, t} /\ from[t] = NoThread
      /\ freed' = freed \cup {target[t]} /\ pc' = [pc EXCEPT ![t] = "user"]
      /\ target' = [target EXCEPT ![t] = NoThread]
      /\ UNCHANGED <<state, from, cont, joiner>>
  BY OneFacts DEF DetachFree, OneInv, CallInv, AimInv, MeInv, DetachPC, ReapPC
<1>b. \A u \in Threads \ {t} : target[u] # NoThread => target[u] # target[t]
  BY <1>1, <1>a, Waiters, OneFacts
<1>3. TypeOK'
  BY OneFacts DEF DetachFree, TypeOK, PC, DetachPC
<1>4. QueueInv'
  BY <1>2 DEF DetachFree, OneInv, QueueInv
<1>5. OthersInv'
  BY <1>1 DEF DetachFree, OneInv, OthersInv
<1>6. MeInv'
  BY <1>1 DEF DetachFree, OneInv, MeInv, Arriving, ReapPC
<1>7. LeavingInv'
  BY <1>1 DEF DetachFree, LeavingInv, Leaving
<1>8. RunnableInv'
  BY <1>1, <1>2 DEF DetachFree, OneInv, RunnableInv, Leaving
<1>9. EndInv'
  BY <1>1, <1>a, OneFacts DEF OneInv, EndInv, Leaving, Ended, JoinPC
<1>10. AimInv'
  BY <1>a, <1>b DEF TypeOK, OneInv, AimInv, Waits, JoinPC, DetachPC, Arriving,
     ReapPC
<1>11. CallInv'
  BY DEF DetachFree, TypeOK, OneInv, CallInv, Waits, Arriving, ReapPC
<1>12. WaitInv'
  BY <1>1 DEF DetachFree, OneInv, WaitInv, HasStarted, Waits, Arriving, ReapPC
<1>13. QED
  BY <1>3, <1>4, <1>5, <1>6, <1>7, <1>8, <1>9, <1>10, <1>11, <1>12 DEF OneInv

LEMMA ReturnOne ==
  ASSUME OneProcessor, TypeOK, OneInv, NEW t \in Threads, Return(t)
  PROVE  TypeOK' /\ OneInv'
<1>1. t = Me /\ Me' = Me /\ pc[t] = "user"
  BY OneFacts DEF Return, Me
<1>2. Ready' = Ready /\ Held' = Held /\ Pending' = Pending
  BY DEF Return, Ready, Held, Pending
<1>3. TypeOK'
  BY DEF Return, TypeOK, PC
<1>4. QueueInv'
  BY <1>2 DEF Return, OneInv, QueueInv
<1>5. OthersInv'
  BY <1>1 DEF Return, OneInv, OthersInv
<1>6. MeInv'
  BY <1>1 DEF Return, OneInv, MeInv, Arriving, ReapPC
<1>7. LeavingInv'
  BY <1>1 DEF Return, TypeOK, LeavingInv
<1>8. RunnableInv'
  BY <1>1, <1>2 DEF Return, TypeOK, OneInv, RunnableInv, Leaving
<1>9. EndInv'
  <2>1. t \notin Procs /\ state[t] = "RUNNING" /\ pc[t] = "user" /\ t \in Workers
    BY OneFacts, ThreadsAssumption DEF Return, OneInv, MeInv, Arriving, ReapPC
  <2>2. \A u \in Threads : /\ pc'[u] = IF u = t THEN "stop" ELSE pc[u]
                           /\ cont'[u] = IF u = t THEN "gone" ELSE cont[u]
    BY DEF Return, TypeOK
  <2>3. UNCHANGED <<state, freed, from>>
    BY DEF Return
  <2>4. QED
    BY <1>1, <2>1, <2>2, <2>3 DEF OneInv, EndInv, Leaving, Threads
<1>10. AimInv'
  BY DEF Return, TypeOK, OneInv, AimInv, Waits, JoinPC, DetachPC, Arriving, ReapPC
<1>11. CallInv'
  BY DEF Return, TypeOK, OneInv, CallInv, Waits
<1>12. WaitInv'
  BY <1>1 DEF Return, TypeOK, OneInv, WaitInv, HasStarted, Waits, Arriving, ReapPC
<1>13. QED
  BY <1>3, <1>4, <1>5, <1>6, <1>7, <1>8, <1>9, <1>10, <1>11, <1>12 DEF OneInv

LEMMA JoinOne ==
  ASSUME OneProcessor, TypeOK, OneInv, NEW t \in Threads, NEW w \in Workers, Join(t, w)
  PROVE  TypeOK' /\ OneInv'
<1>1. t = Me /\ Me' = Me /\ pc[t] = "user"
  BY OneFacts DEF Join, Claim, Me
<1>2. Ready' = Ready /\ Held' = Held /\ Pending' = Pending
  BY DEF Join, Claim, Ready, Held, Pending
<1>3. TypeOK'
  BY OneFacts DEF Join, Claim, TypeOK, PC, JoinPC
<1>4. QueueInv'
  BY <1>2 DEF Join, Claim, OneInv, QueueInv
<1>5. OthersInv'
  BY <1>1 DEF Join, Claim, OneInv, OthersInv
<1>6. MeInv'
  BY <1>1 DEF Join, Claim, OneInv, MeInv, Arriving, ReapPC
<1>7. LeavingInv'
  BY <1>1 DEF Join, LeavingInv, Leaving
<1>8. RunnableInv'
  BY <1>1, <1>2 DEF Join, Claim, OneInv, RunnableInv, Leaving
<1>9. EndInv'
  BY <1>1, ThreadsAssumption, ClientAssumption DEF Join, Claim, OneInv, EndInv,
     Leaving
<1>10. AimInv'
  BY OneFacts DEF Join, Claim, TypeOK, OneInv, AimInv, Waits, JoinPC
<1>11. CallInv'
  BY DEF Join, Claim, TypeOK, OneInv, CallInv, Waits, Arriving, ReapPC
<1>12. WaitInv'
  BY <1>1 DEF Join, Claim, OneInv, WaitInv, HasStarted, Waits, Arriving, ReapPC
<1>13. QED
  BY <1>3, <1>4, <1>5, <1>6, <1>7, <1>8, <1>9, <1>10, <1>11, <1>12 DEF OneInv

LEMMA DetachOne ==
  ASSUME OneProcessor, TypeOK, OneInv, NEW t \in Threads, NEW w \in Workers, Detach(t, w)
  PROVE  TypeOK' /\ OneInv'
<1>1. t = Me /\ Me' = Me /\ pc[t] = "user"
  BY OneFacts DEF Detach, Claim, Me
<1>2. Ready' = Ready /\ Held' = Held /\ Pending' = Pending
  BY DEF Detach, Claim, Ready, Held, Pending
<1>3. TypeOK'
  BY OneFacts DEF Detach, Claim, TypeOK, PC, DetachPC
<1>4. QueueInv'
  BY <1>2 DEF Detach, Claim, OneInv, QueueInv
<1>5. OthersInv'
  BY <1>1 DEF Detach, Claim, OneInv, OthersInv
<1>6. MeInv'
  BY <1>1 DEF Detach, Claim, OneInv, MeInv, Arriving, ReapPC
<1>7. LeavingInv'
  BY <1>1 DEF Detach, LeavingInv, Leaving
<1>8. RunnableInv'
  BY <1>1, <1>2 DEF Detach, Claim, OneInv, RunnableInv, Leaving
<1>9. EndInv'
  BY <1>1 DEF Detach, Claim, OneInv, EndInv, Leaving, JoinPC
<1>10. AimInv'
  BY OneFacts DEF Detach, Claim, TypeOK, OneInv, AimInv, Waits, DetachPC
<1>11. CallInv'
  BY DEF Detach, Claim, TypeOK, OneInv, CallInv, Waits, Arriving, ReapPC
<1>12. WaitInv'
  BY <1>1 DEF Detach, Claim, OneInv, WaitInv, HasStarted, Waits, Arriving, ReapPC
<1>13. QED
  BY <1>3, <1>4, <1>5, <1>6, <1>7, <1>8, <1>9, <1>10, <1>11, <1>12 DEF OneInv

LEMMA HasJoinerOne ==
  ASSUME OneProcessor, TypeOK, OneInv, NEW t \in Threads, NEW w \in Workers, HasJoiner(t, w)
  PROVE  TypeOK' /\ OneInv'
<1>1. t = Me /\ Me' = Me /\ pc[t] = "user"
  BY OneFacts DEF HasJoiner, Claim, Me
<1>2. Ready' = Ready /\ Held' = Held /\ Pending' = Pending
  BY DEF HasJoiner, Claim, Ready, Held, Pending
<1>3. TypeOK'
  BY OneFacts DEF HasJoiner, Claim, TypeOK
<1>4. QueueInv'
  BY <1>2 DEF HasJoiner, Claim, OneInv, QueueInv
<1>5. OthersInv'
  BY <1>1 DEF HasJoiner, Claim, OneInv, OthersInv
<1>6. MeInv'
  BY <1>1 DEF HasJoiner, Claim, OneInv, MeInv
<1>7. LeavingInv'
  BY <1>1 DEF HasJoiner, LeavingInv, Leaving
<1>8. RunnableInv'
  BY <1>1, <1>2 DEF HasJoiner, Claim, OneInv, RunnableInv
<1>9. EndInv'
  BY <1>1 DEF HasJoiner, Claim, OneInv, EndInv
<1>10. AimInv'
  BY DEF HasJoiner, Claim, OneInv, AimInv, Waits
<1>11. CallInv'
  BY DEF HasJoiner, Claim, OneInv, CallInv, Waits
<1>12. WaitInv'
  BY <1>1 DEF HasJoiner, Claim, OneInv, WaitInv, HasStarted, Waits
<1>13. QED
  BY <1>3, <1>4, <1>5, <1>6, <1>7, <1>8, <1>9, <1>10, <1>11, <1>12 DEF OneInv

-----------------------------------------------------------------------------
(* The actions that change the set of pending threads.                     *)

LEMMA YieldOne ==
  ASSUME OneProcessor, TypeOK, OneInv, NEW t \in Threads, Yield(t)
  PROVE  TypeOK' /\ OneInv'
<1>1. t = Me /\ Me' = Me /\ pc[t] = "user" /\ Held' = Held
  BY OneFacts DEF Yield, Me, Held
<1>2. t \notin Pending /\ readyQueue' = Append(readyQueue, t)
  BY <1>1 DEF Yield, OneInv, RunnableInv, Leaving
<1>3. /\ Ready' = Ready \cup {t} /\ Pending' = Pending \cup {t}
      /\ (\A i, j \in DOMAIN readyQueue : readyQueue[i] = readyQueue[j] => i = j)'
  BY <1>1, <1>2, ReadyAppend DEF TypeOK, OneInv, Pending
<1>4. /\ pc' = [pc EXCEPT ![t] = "stop"] /\ cont' = [cont EXCEPT ![t] = "user"]
      /\ stopping' = [stopping EXCEPT ![t] = "RUNABLE"]
      /\ UNCHANGED <<state, joiner, freed, from, to, target>>
  BY DEF Yield
<1>5. TypeOK'
  <2>1. yields \in [Threads -> Nat] /\ (yields' = yields \/ yields' = [yields EXCEPT ![t] = @ + 1])
    BY DEF TypeOK, Yield
  <2>2. yields' \in [Threads -> Nat]
    BY <2>1
  <2>3. readyQueue' \in Seq(Threads)
    BY <1>2 DEF TypeOK
  <2>4. QED
    BY <1>4, <2>2, <2>3 DEF Yield, TypeOK, PC
<1>6. QueueInv'
  BY <1>1, <1>2, <1>3, <1>4 DEF OneInv, QueueInv, Pending
<1>7. OthersInv' /\ MeInv' /\ LeavingInv'
  BY <1>1, <1>4 DEF TypeOK, OneInv, OthersInv, MeInv, LeavingInv, Arriving, ReapPC
<1>8. RunnableInv'
  BY <1>1, <1>3, <1>4 DEF TypeOK, OneInv, RunnableInv, Leaving
<1>9. EndInv'
  BY <1>1, <1>4 DEF OneInv, EndInv, Leaving, JoinPC
<1>10. AimInv' /\ CallInv'
  BY <1>1, <1>4 DEF TypeOK, OneInv, AimInv, CallInv, Waits, JoinPC, DetachPC,
     Arriving, ReapPC
<1>11. WaitInv'
  BY <1>1, <1>4 DEF TypeOK, OneInv, WaitInv, HasStarted, Waits, Arriving, ReapPC
<1>12. QED
  BY <1>5, <1>6, <1>7, <1>8, <1>9, <1>10, <1>11 DEF OneInv

LEMMA CreateOne ==
  ASSUME OneProcessor, TypeOK, OneInv, NEW t \in Threads, NEW w \in Workers, Create(t, w)
  PROVE  TypeOK' /\ OneInv'
<1>1. /\ t = Me /\ Me' = Me /\ pc[t] = "user" /\ Held' = Held /\ state[w] = "UNBORN"
      /\ w \in Threads
  BY OneFacts DEF Create, Me, Held
<1>2. w # Me /\ w \notin Pending /\ readyQueue' = Append(readyQueue, w) /\ w # Base
  BY OneFacts DEF Create, OneInv, RunnableInv, MeInv
<1>3. /\ Ready' = Ready \cup {w} /\ Pending' = Pending \cup {w}
      /\ (\A i, j \in DOMAIN readyQueue : readyQueue[i] = readyQueue[j] => i = j)'
  BY <1>1, <1>2, ReadyAppend DEF TypeOK, OneInv, Pending
<1>4. /\ state' = [state EXCEPT ![w] = "NASCENT"]
      /\ UNCHANGED <<pc, joiner, freed, from, to, target, cont, stopping>>
  BY DEF Create
<1>5. TypeOK'
  BY <1>1 DEF Create, TypeOK, States
<1>6. QueueInv'
  BY <1>1, <1>2, <1>3, <1>4 DEF OneInv, QueueInv, Pending
<1>7. OthersInv' /\ LeavingInv'
  BY <1>1, <1>4 DEF OneInv, OthersInv, LeavingInv, Ended
<1>8. MeInv'
  BY <1>1, <1>4 DEF OneInv, MeInv
<1>9. RunnableInv'
  BY <1>1, <1>2, <1>3, <1>4 DEF TypeOK, OneInv, RunnableInv
<1>10. EndInv'
  BY <1>1, <1>4 DEF OneInv, EndInv, Ended
<1>11. AimInv' /\ CallInv'
  BY <1>1, <1>4 DEF OneInv, AimInv, CallInv, Waits
<1>12. WaitInv'
  BY <1>1, <1>4 DEF OneInv, WaitInv, HasStarted, Waits
<1>13. QED
  BY <1>5, <1>6, <1>7, <1>8, <1>9, <1>10, <1>11, <1>12 DEF OneInv

(* The joiner that is started was not on the ready queue. *)
LEMMA ReapEnqueueOne ==
  ASSUME OneProcessor, TypeOK, OneInv, NEW t \in Threads, ReapEnqueue(t)
  PROVE  TypeOK' /\ OneInv'
<1> DEFINE x == joiner[from[t]]
<1>1. t = Me /\ Me' = Me /\ pc[t] = "reapEnqueue" /\ Held' = Held
  BY OneFacts DEF ReapEnqueue, Me, Held
<1>2. /\ from[t] \in Threads /\ state[from[t]] = "DYING" /\ from[t] \notin freed
      /\ x \in Threads /\ target[x] = from[t] /\ readyQueue' = Append(readyQueue, x)
  BY OneFacts DEF ReapEnqueue, OneInv, MeInv, EndInv, WaitInv, ReapPC
<1>3. x # Me
  BY <1>1, <1>2 DEF OneInv, WaitInv, Arriving, ReapPC
<1>4. Waits(x) /\ state[x] = "RUNABLE" /\ x \notin Pending
  <2>1. Waits(x)
    BY <1>2, <1>3, Waiters, OneFacts
  <2>2. QED
    BY <1>1, <1>2, <1>3, <2>1 DEF OneInv, WaitInv, RunnableInv, HasStarted
<1> HIDE DEF x
<1>5. /\ Ready' = Ready \cup {x} /\ Pending' = Pending \cup {x}
      /\ (\A i, j \in DOMAIN readyQueue : readyQueue[i] = readyQueue[j] => i = j)'
  BY <1>1, <1>2, <1>4, ReadyAppend DEF TypeOK, OneInv, Pending
<1>6. /\ pc' = [pc EXCEPT ![t] = "reapDead"]
      /\ UNCHANGED <<state, joiner, freed, from, to, stopping, cont, target>>
  BY DEF ReapEnqueue
<1>7. TypeOK'
  BY <1>2 DEF ReapEnqueue, TypeOK, PC, ReapPC
<1>8. QueueInv'
  BY <1>1, <1>4, <1>5, <1>6 DEF OneInv, QueueInv, Pending
<1>9. OthersInv' /\ MeInv' /\ LeavingInv'
  BY <1>1, <1>6 DEF OneInv, OthersInv, MeInv, LeavingInv, Leaving, Arriving, ReapPC
<1>10. RunnableInv'
  BY <1>1, <1>3, <1>4, <1>5, <1>6 DEF TypeOK, OneInv, RunnableInv, Leaving, x
<1>11. EndInv' /\ AimInv' /\ CallInv'
  BY <1>1, <1>6 DEF OneInv, EndInv, AimInv, CallInv, Waits, Leaving, JoinPC,
     DetachPC, Arriving, ReapPC
<1>12. WaitInv'
  BY <1>1, <1>6 DEF OneInv, WaitInv, HasStarted, Waits, Leaving, Arriving, ReapPC
<1>13. QED
  BY <1>7, <1>8, <1>9, <1>10, <1>11, <1>12 DEF OneInv

LEMMA StopOne ==
  ASSUME OneProcessor, TypeOK, OneInv, NEW t \in Threads, Stop(t)
  PROVE  TypeOK' /\ OneInv'
<1> DEFINE h == Head(readyQueue)
<1>1. t = Me /\ Me' = Me /\ pc[t] = "stop"
  BY OneFacts DEF Stop, Me
<1>2. /\ h \in Ready /\ h \in Threads /\ Ready' = Ready \ {h}
      /\ (\A i, j \in DOMAIN readyQueue : readyQueue[i] = readyQueue[j] => i = j)'
  BY ReadyTail DEF Stop, TypeOK, OneInv
<1>3. TypeOK'
  BY DEF Stop, TypeOK, PC
<1>4. /\ pc' = [pc EXCEPT ![t] = "switch"] /\ to' = [to EXCEPT ![t] = h] /\ to[t] = NoThread
      /\ UNCHANGED <<state, joiner, freed, from, stopping, cont, target>>
  BY DEF Stop, OneInv, QueueInv
<1> HIDE DEF h
<1>5. Held' = Held \cup {h} /\ Pending' = Pending
  <2>1. Held' = Held \cup {h}
    BY <1>2, <1>4, OneFacts DEF Held, TypeOK
  <2>2. QED
    BY <1>2, <2>1 DEF Pending
<1>6. QueueInv'
  <2>1. \A u \in Threads : to'[u] = IF u = t THEN h ELSE to[u]
    BY <1>4 DEF TypeOK
  <2>2. \A u \in Threads : pc'[u] = IF u = t THEN "switch" ELSE pc[u]
    BY <1>4 DEF TypeOK
  <2>3. h # NoThread /\ \A u \in Threads : to[u] # h
    BY <1>2, SetTypes DEF OneInv, QueueInv
  <2>4. Ready' \cap Held' = {}
    BY <1>2, <1>5 DEF OneInv, QueueInv
  <2>5. QED
    BY <1>2, <2>1, <2>2, <2>3, <2>4 DEF OneInv, QueueInv
<1>7. OthersInv' /\ MeInv' /\ LeavingInv'
  BY <1>1, <1>4 DEF OneInv, OthersInv, MeInv, LeavingInv, Leaving, Arriving, ReapPC
<1>8. RunnableInv'
  BY <1>1, <1>4, <1>5 DEF OneInv, RunnableInv, Leaving
<1>9. EndInv' /\ AimInv' /\ CallInv'
  BY <1>1, <1>4 DEF OneInv, EndInv, AimInv, CallInv, Waits, Leaving, JoinPC,
     DetachPC
<1>10. WaitInv'
  BY <1>1, <1>4 DEF OneInv, WaitInv, HasStarted, Waits, Leaving, Arriving, ReapPC
<1>11. QED
  BY <1>3, <1>6, <1>7, <1>8, <1>9, <1>10 DEF OneInv

(* Only a thread that yields finds itself, so it was not to block or die. *)
LEMMA SwitchSelfOne ==
  ASSUME OneProcessor, TypeOK, OneInv, NEW t \in Threads, SwitchSelf(t)
  PROVE  TypeOK' /\ OneInv'
<1>1. t = Me /\ Me' = Me /\ pc[t] = "switch" /\ to[t] = t /\ Ready' = Ready
  BY OneFacts DEF SwitchSelf, Me, Ready
<1>2. t \in Held /\ cont[t] = "user"
  BY <1>1, OneFacts DEF Held, Pending, OneInv, RunnableInv
<1>3. /\ pc' = [pc EXCEPT ![t] = "user"] /\ to' = [to EXCEPT ![t] = NoThread]
      /\ UNCHANGED <<state, joiner, freed, from, stopping, cont, target>>
  BY <1>2 DEF SwitchSelf
<1>4. t \notin Ready /\ Held' = Held \ {t} /\ Pending' = Pending \ {t}
  <2>1. t \notin Ready
    BY <1>2 DEF OneInv, QueueInv
  <2>2. \A u \in Threads \ {t} : to[u] # t
    BY <1>1 DEF OneInv, QueueInv
  <2>3. Held' = Held \ {t}
    BY <1>1, <1>3, <2>2 DEF Held, TypeOK
  <2>4. QED
    BY <1>1, <2>1, <2>3 DEF Pending
<1>5. TypeOK'
  BY <1>3 DEF SwitchSelf, TypeOK, PC
<1>6. QueueInv'
  <2>1. \A u \in Threads : to'[u] = IF u = t THEN NoThread ELSE to[u]
    BY <1>3 DEF TypeOK
  <2>2. \A u \in Threads : pc'[u] = "switch" <=> pc[u] = "switch" /\ u # t
    BY <1>3 DEF TypeOK
  <2>3. QED
    BY <1>1, <1>4, <2>1, <2>2 DEF OneInv, QueueInv, SwitchSelf
<1>7. OthersInv' /\ MeInv' /\ LeavingInv'
  BY <1>1, <1>3 DEF OneInv, OthersInv, MeInv, LeavingInv, Leaving, Arriving, ReapPC
<1>8. RunnableInv'
  BY <1>1, <1>3, <1>4 DEF TypeOK, OneInv, RunnableInv, Leaving
<1>9. EndInv' /\ AimInv' /\ CallInv'
  BY <1>1, <1>2, <1>3 DEF OneInv, EndInv, AimInv, CallInv, Waits, JoinPC, DetachPC
<1>10. WaitInv'
  BY <1>1, <1>2, <1>3 DEF OneInv, WaitInv, HasStarted, Waits
<1>11. QED
  BY <1>5, <1>6, <1>7, <1>8, <1>9, <1>10 DEF OneInv

(* The thread that is switched to is the one the processor had taken off  *)
(* the ready queue, so it could run, and was behind a switch.             *)
LEMMA SwitchOne ==
  ASSUME OneProcessor, TypeOK, OneInv, Switch(BootProc)
  PROVE  TypeOK' /\ OneInv'
<1> DEFINE t == Me
           u == to[t]
<1>1. /\ t \in Threads /\ pc[t] = "switch" /\ u \in Threads /\ u # t /\ u \in Held
      /\ Me' = u /\ Ready' = Ready /\ OneProcessor'
  BY SetTypes DEF Switch, Me, Ready, TypeOK, OneInv, QueueInv, OneProcessor
<1>2. /\ state[u] \in {"NASCENT", "RUNABLE"} /\ pc[u] = "switched" /\ from[u] = NoThread
      /\ u \notin Ready
  BY <1>1 DEF OneInv, RunnableInv, OthersInv, QueueInv, Pending, Ended
<1>3. /\ from[t] = NoThread /\ state[t] = "RUNNING" /\ cont[t] \in {"user", "joined", "gone"}
      /\ cont[t] = "user" <=> stopping[t] = "RUNABLE"
      /\ cont[t] = "joined" <=> stopping[t] = "BLOCKED"
      /\ cont[t] = "gone" <=> stopping[t] = "DYING"
  BY <1>1 DEF TypeOK, OneInv, MeInv, LeavingInv, Leaving, Arriving, ReapPC
<1> DEFINE there == IF stopping[t] = "DYING" THEN "gone" ELSE "switched"
<1>4. /\ state' = [state EXCEPT ![t] = stopping[t]] /\ from' = [from EXCEPT ![u] = t]
      /\ to' = [to EXCEPT ![t] = NoThread] /\ pc' = [pc EXCEPT ![t] = there]
      /\ UNCHANGED <<joiner, freed, readyQueue, stopping, cont, target, joinLock, clientVars>>
      /\ cur' = [cur EXCEPT ![BootProc] = u]
  BY DEF Switch, Me
<1>5. TypeOK'
  BY <1>1, <1>4 DEF TypeOK, States, PC
<1> HIDE DEF t, u
<1>6. /\ \A v \in Threads : state'[v] = IF v = t THEN stopping[t] ELSE state[v]
      /\ \A v \in Threads : from'[v] = IF v = u THEN t ELSE from[v]
      /\ \A v \in Threads : to'[v] = IF v = t THEN NoThread ELSE to[v]
      /\ \A v \in Threads : pc'[v] = IF v = t THEN there ELSE pc[v]
      /\ stopping[t] \in {"RUNABLE", "BLOCKED", "DYING"}
      /\ stopping[t] = "DYING" => there = "gone"
      /\ stopping[t] # "DYING" => there = "switched"
  BY <1>1, <1>4 DEF TypeOK
<1> HIDE DEF there
<1>7. Held' = Held \ {u} /\ Pending' = Pending \ {u}
  <2>1. to[t] = u /\ \A v \in Threads \ {t} : to[v] # u
    BY <1>1 DEF OneInv, QueueInv, u
  <2>2. Held' = Held \ {u}
    BY <1>6, <2>1 DEF Held
  <2>3. QED
    BY <1>1, <1>2, <2>2 DEF Pending
<1>8. t = Me
  BY DEF t
<1>9. QueueInv'
  BY <1>1, <1>4, <1>6, <1>7 DEF OneInv, QueueInv
<1>10. OthersInv'
  BY <1>1, <1>3, <1>6 DEF OneInv, OthersInv, Ended
<1>11. MeInv'
  BY <1>1, <1>2, <1>6, OneFacts DEF MeInv, Arriving, ReapPC
<1>12. LeavingInv'
  BY <1>1, <1>2, <1>6 DEF LeavingInv, Leaving
<1>13. RunnableInv'
  BY <1>1, <1>2, <1>3, <1>6, <1>7, <1>8 DEF OneInv, RunnableInv, Leaving
<1>14. EndInv'
  BY <1>1, <1>3, <1>4, <1>6, <1>8, OneFacts DEF OneInv, EndInv, Ended, JoinPC
<1>15. \A v \in Threads : /\ Waits(v)' <=> Waits(v)
                          /\ target'[v] = target[v] /\ v # t => pc'[v] = pc[v]
  BY <1>1, <1>3, <1>4, <1>6 DEF Waits, Arriving
<1>16. AimInv'
  BY <1>1, <1>4, <1>6, <1>15 DEF OneInv, AimInv, JoinPC, DetachPC
<1>17. CallInv'
  BY <1>3, <1>4, <1>6, <1>15 DEF OneInv, CallInv
<1>18. WaitInv'
  <2>1. \A w \in Threads \ freed : joiner[w] \in Threads =>
          target[joiner[w]] = w /\ (pc'[joiner[w]] \in {"joinUnlock", "joined"} \/ Waits(joiner[w]))
    BY <1>1, <1>6 DEF OneInv, WaitInv
  <2>2. \A w \in Threads : ~HasStarted(w)' /\ ~HasStarted(w)
    BY <1>1, <1>2, <1>6, <1>8 DEF HasStarted
  <2>3. Waits(t) => /\ state'[t] = "BLOCKED" /\ target[t] \in Threads \ {t}
                    /\ state'[target[t]] # "DEAD"
    BY <1>1, <1>3, <1>6, OneFacts DEF OneInv, WaitInv, AimInv, Waits, Leaving, Ended
  <2>4. ASSUME NEW v \in Threads \ {t}, Waits(v)
        PROVE  /\ target[v] \in Threads
               /\ \/ state'[v] = "BLOCKED" /\ state'[target[v]] # "DEAD"
                  \/ state'[v] = "RUNABLE" /\ state'[target[v]] = "DEAD"
    BY <1>3, <1>6, <1>8, <2>2, <2>4, OneFacts DEF OneInv, WaitInv
  <2>5. ASSUME NEW v \in Threads, state'[v] = "BLOCKED"
        PROVE  Waits(v)
    BY <1>1, <1>3, <1>6, <1>8, <2>5 DEF OneInv, WaitInv, Waits
  <2>6. \A w \in Threads : state'[w] = "UNBORN" => joiner[w] = NoThread
    BY <1>6 DEF OneInv, WaitInv
  <2>7. QED
    BY <1>1, <1>2, <1>4, <1>15, <2>1, <2>2, <2>3, <2>4, <2>5, <2>6 DEF WaitInv,
       Leaving
<1>19. QED
  BY <1>5, <1>9, <1>10, <1>11, <1>12, <1>13, <1>14, <1>16, <1>17, <1>18 DEF OneInv

-----------------------------------------------------------------------------
(* The start and the end of the process, and whatever happens between.     *)

LEMMA InitDoneOne ==
  ASSUME OneProcessor, TypeOK, OneInv, InitDone
  PROVE  TypeOK' /\ OneInv'
<1>1. /\ Me = Base /\ Me' = Me /\ pc[Me] = "init" /\ pc' = [pc EXCEPT ![Me] = "user"]
      /\ Ready' = Ready /\ Held' = Held /\ Pending' = Pending
      /\ UNCHANGED <<state, joiner, freed, readyQueue, from, to, stopping, cont, target>>
  BY OneFacts DEF InitDone, Me, Ready, Held, Pending
<1>2. TypeOK'
  BY <1>1 DEF InitDone, TypeOK, PC
<1>3. QueueInv' /\ OthersInv' /\ MeInv' /\ LeavingInv'
  BY <1>1 DEF OneInv, QueueInv, OthersInv, MeInv, LeavingInv, Leaving, Arriving,
     ReapPC
<1>4. RunnableInv' /\ EndInv'
  BY <1>1, OneFacts DEF OneInv, RunnableInv, EndInv, Leaving
<1>5. AimInv' /\ CallInv'
  BY <1>1 DEF OneInv, AimInv, CallInv, Waits, JoinPC, DetachPC, Arriving, ReapPC
<1>6. WaitInv'
  BY <1>1 DEF OneInv, WaitInv, HasStarted, Waits, Arriving, ReapPC
<1>7. QED
  BY <1>2, <1>3, <1>4, <1>5, <1>6 DEF OneInv

LEMMA InitOne ==
  ASSUME OneProcessor, Init
  PROVE  TypeOK /\ OneInv
<1>1. /\ Me = Base /\ Base \in Threads /\ BootProc \in Threads /\ BootProc # Base
      /\ BootProc \notin Workers /\ Base \notin Workers /\ NoThread \notin Threads
      /\ Detached \notin Threads /\ Threads = {Base, BootProc} \cup Workers
  BY ThreadsAssumption DEF Init, Me, Threads, OneProcessor
<1>2. Ready = {BootProc} /\ Held = {} /\ Pending = {BootProc}
  BY DEF Init, BootQueue, Ready, Held, Pending
<1>3. TypeOK /\ QueueInv
  BY InitInv DEF IInv
<1>4. OthersInv /\ MeInv /\ LeavingInv
  BY <1>1 DEF Init, OthersInv, MeInv, LeavingInv, Ended, Arriving, ReapPC
<1>5. RunnableInv
  BY <1>1, <1>2 DEF Init, RunnableInv, Leaving
<1>6. EndInv
  BY <1>1 DEF Init, EndInv, OneProcessor, JoinPC, Ended
<1>7. AimInv /\ CallInv /\ WaitInv
  BY <1>1 DEF Init, AimInv, CallInv, WaitInv, Waits, JoinPC, DetachPC
<1>8. QED
  BY <1>3, <1>4, <1>5, <1>6, <1>7 DEF OneInv

(* Every step but the exit of the process keeps the invariant; the first   *)
(* pthread_base thread is there from the start, so none is spawned.        *)
LEMMA OneKept ==
  ASSUME OneProcessor, TypeOK, OneInv, Next, ~MainReturn, ~Exited
  PROVE  TypeOK' /\ OneInv'
<1>1. CASE \E t \in Threads : Package(t)
  <2>1. PICK t \in Threads : Package(t)
    BY <1>1
  <2>2. CASE Reap(t)
    BY <2>2, ReapLockOne, ReapFreeOne, ReapStartOne, ReapEnqueueOne,
       ReapNoJoinerOne, ReapDeadOne, ReapUnlockOne DEF Reap
  <2>3. CASE Stop(t) \/ SwitchSelf(t) \/ FromDying(t) \/ FromLive(t) \/ Resume(t)
    BY <2>3, StopOne, SwitchSelfOne, FromDyingOne, FromLiveOne, ResumeOne
  <2>4. CASE JoinLock(t) \/ JoinWait(t) \/ JoinDead(t) \/ JoinUnlock(t) \/ Joined(t)
    BY <2>4, JoinLockOne, JoinWaitOne, JoinDeadOne, JoinUnlockOne, JoinedOne
  <2>5. CASE DetachLock(t) \/ DetachSet(t) \/ DetachUnlock(t) \/ DetachFree(t)
    BY <2>5, DetachLockOne, DetachSetOne, DetachUnlockOne, DetachFreeOne
  <2>6. QED
    BY <2>1, <2>2, <2>3, <2>4, <2>5 DEF Package
<1>2. CASE \E t \in Threads : Client(t)
  BY <1>2, YieldOne, ReturnOne, CreateOne, JoinOne, DetachOne, HasJoinerOne DEF
     Client
<1>3. CASE \E p \in Procs : Switch(p)
  BY <1>3, SwitchOne DEF OneProcessor
<1>4. CASE Boot
  <2>1. \A p \in Procs : ~SpawnPthread(p)
    BY OneFacts DEF SpawnPthread, OneProcessor, OneInv, EndInv
  <2>2. QED
    BY <1>4, <2>1, InitDoneOne DEF Boot
<1>5. QED
  BY <1>1, <1>2, <1>3, <1>4 DEF Next, AfterExit

-----------------------------------------------------------------------------
(* What the invariant means for the properties of the package.             *)

OneProps == /\ QueuedOnce /\ StopFindsThread /\ ReapedOnce
            /\ NoUseAfterFree /\ JoinSeesResult /\ NoLostJoin

LEMMA OnePropsHold ==
  ASSUME OneProcessor, TypeOK, OneInv
  PROVE  OneProps
<1>1. /\ \A t \in Threads : t \in Running <=> t = Me
      /\ Me \in Threads /\ NoThread \notin Threads /\ Running \ {NoThread} = {Me}
  BY OneFacts DEF OneProcessor, Running
<1>2. \A t \in Threads : Switching(t) <=> t = Me /\ to[t] # NoThread
  BY <1>1 DEF Switching, OneInv, QueueInv
<1>3. QueuedOnce
  <2>1. \A t \in Threads : Switching(t) => to[t] \in Held
    BY <1>2 DEF Held
  <2>2. QED
    BY <1>2, <2>1 DEF QueuedOnce, OneInv, QueueInv
<1>4. StopFindsThread
  <2> SUFFICES ASSUME pc[Me] = "stop"
               PROVE  BootProc \in Ready
    BY <1>1 DEF StopFindsThread, Ready
  <2>1. Held = {}
    BY DEF Held, OneInv, QueueInv, OthersInv
  <2>2. /\ BootProc \in Threads /\ cont[BootProc] = "user"
        /\ state[BootProc] \notin Ended \cup {"UNBORN"}
    BY OneFacts DEF OneProcessor, OneInv, EndInv
  <2>3. BootProc = Me => BootProc \in Pending
    BY <2>2 DEF OneInv, RunnableInv, Leaving
  <2>4. BootProc # Me => state[BootProc] \in {"NASCENT", "RUNABLE"}
    BY <2>2 DEF OneInv, OthersInv, WaitInv, Waits, TypeOK, States, Ended
  <2>5. BootProc \in Pending
    BY <2>2, <2>3, <2>4 DEF OneInv, RunnableInv
  <2>6. QED
    BY <2>1, <2>5 DEF Pending
<1>5. ReapedOnce
  BY <1>1 DEF ReapedOnce, OneInv, MeInv, ReapPC
<1>6. NoUseAfterFree
  <2> SUFFICES ASSUME NEW w \in freed, w \in Ready \cup Touches(Me)
               PROVE  FALSE
    BY <1>1 DEF NoUseAfterFree, UsedAfterFree
  <2>1. w \in Threads /\ state[w] \in Ended /\ from[Me] # w /\ w # Me
    BY DEF TypeOK, OneInv, EndInv, MeInv, Ended
  <2>2. w \notin Pending
    BY <2>1 DEF OneInv, RunnableInv, Ended
  <2>3. to[Me] # w
    BY <1>1, <2>1, <2>2 DEF Pending, Held
  <2>4. target[Me] # w
    BY <1>1, <2>1 DEF OneInv, AimInv
  <2>5. QED
    BY <2>1, <2>2, <2>3, <2>4 DEF Touches, Pending
<1>7. JoinSeesResult
  BY DEF JoinSeesResult, OneInv, CallInv, AimInv, JoinPC
<1>8. NoLostJoin
  <2> SUFFICES ASSUME NEW t \in Threads, cont[t] = "joined", pc[t] \in Leaving \cup {"switched"},
                      ~At(t, "switched")
               PROVE  \/ joiner[target[t]] = t /\ state[target[t]] # "DEAD"
                      \/ t \in Ready
                      \/ \E u \in Threads : Switching(u) /\ to[u] = t
    BY DEF NoLostJoin, Leaving
  <2>1. /\ Waits(t) /\ joiner[target[t]] = t /\ target[t] \in Threads \ freed
        /\ t = Me => pc[t] \in Leaving
    BY OneFacts DEF Waits, Leaving, Arriving, OneInv, CallInv, AimInv
  <2>2. CASE t = Me
    BY <2>1, <2>2 DEF OneInv, WaitInv, Ended
  <2>3. CASE t # Me /\ state[target[t]] = "DEAD"
    <3>1. state[t] = "RUNABLE" /\ ~(pc[Me] = "reapEnqueue" /\ joiner[from[Me]] = t)
      BY <2>1, <2>3, OneFacts DEF OneInv, WaitInv, MeInv, EndInv, ReapPC
    <3>2. t \in Pending
      BY <2>3, <3>1 DEF OneInv, RunnableInv
    <3>3. t \in Held => \E u \in Threads : to[u] = t /\ to[u] # NoThread
      BY DEF Held
    <3>4. QED
      BY <1>2, <3>2, <3>3 DEF Pending, OneInv, QueueInv, OthersInv
  <2>4. QED
    BY <2>1, <2>2, <2>3
<1>9. QED
  BY <1>3, <1>4, <1>5, <1>6, <1>7, <1>8 DEF OneProps

(* main() can only return when it runs: nobody is then between two steps   *)
(* of the package.                                                         *)
LEMMA MainReturnOne ==
  ASSUME OneProcessor, TypeOK, OneInv, OneProps, MainReturn
  PROVE  TypeOK' /\ OneProps' /\ Exited'
<1>1. /\ Me = Base /\ pc[Me] = "user" /\ NoThread \notin Threads
      /\ cur' = [p \in Procs |-> NoThread]
      /\ UNCHANGED <<state, joiner, freed, readyQueue, pc, from, to, cont, target>>
  BY OneFacts DEF MainReturn
<1>2. Running' \subseteq {NoThread} /\ Ready' = Ready /\ Exited'
  BY <1>1 DEF Running, Ready, Exited
<1>3. TypeOK'
  BY DEF MainReturn, TypeOK
<1>4. \A t \in Threads : t \notin Running'
  BY <1>1, <1>2
<1>5. QueuedOnce' /\ StopFindsThread' /\ ReapedOnce' /\ JoinSeesResult'
  BY <1>1, <1>4 DEF OneProps, QueuedOnce, StopFindsThread, ReapedOnce,
     JoinSeesResult, Switching
<1>6. NoUseAfterFree'
  BY <1>1, <1>2 DEF OneProps, NoUseAfterFree, UsedAfterFree
<1>7. NoLostJoin'
  <2>1. \A t \in Threads : ~Switching(t) /\ ~At(t, "switched")
    BY <1>1, OneFacts DEF Switching
  <2>2. QED
    BY <1>1, <1>2, <2>1 DEF OneProps, NoLostJoin
<1>8. QED
  BY <1>2, <1>3, <1>5, <1>6, <1>7 DEF OneProps

OneIInv == TypeOK /\ OneProps /\ (Exited \/ OneInv)

LEMMA UnchangedOne ==
  ASSUME UNCHANGED vars
  PROVE  /\ TypeOK => TypeOK'
         /\ OneProps => OneProps'
         /\ Exited => Exited'
         /\ OneInv => OneInv'
<1>1. Running' = Running /\ Ready' = Ready /\ Held' = Held /\ Pending' = Pending /\ Me' = Me
  BY DEF vars, Running, Ready, Held, Pending, Me
<1>2. TypeOK => TypeOK'
  BY DEF vars, TypeOK
<1>3. UsedAfterFree' = UsedAfterFree
  BY <1>1 DEF vars, UsedAfterFree, Touches
<1>4. OneProps => OneProps'
  BY <1>1, <1>3 DEF vars, OneProps, QueuedOnce, StopFindsThread, ReapedOnce,
     NoUseAfterFree, JoinSeesResult, NoLostJoin, Switching
<1>5. Exited => Exited'
  BY DEF vars, Exited
<1>6. QueueInv /\ OthersInv /\ MeInv => (QueueInv /\ OthersInv /\ MeInv)'
  BY <1>1 DEF vars, QueueInv, OthersInv, MeInv
<1>7. LeavingInv /\ RunnableInv /\ EndInv => (LeavingInv /\ RunnableInv /\ EndInv)'
  BY <1>1 DEF vars, LeavingInv, RunnableInv, EndInv
<1>8. AimInv /\ CallInv /\ WaitInv => (AimInv /\ CallInv /\ WaitInv)'
  BY <1>1 DEF vars, AimInv, CallInv, WaitInv, Waits, HasStarted
<1>9. QED
  BY <1>2, <1>4, <1>5, <1>6, <1>7, <1>8 DEF OneInv

LEMMA NextOne ==
  ASSUME OneProcessor, OneIInv, [Next]_vars
  PROVE  OneIInv'
<1>1. CASE UNCHANGED vars
  BY <1>1, UnchangedOne DEF OneIInv
<1>2. CASE Next /\ Exited
  BY <1>2, ExitedStays, UnchangedOne DEF OneIInv
<1>3. CASE MainReturn /\ ~Exited
  BY <1>3, MainReturnOne DEF OneIInv
<1>4. CASE Next /\ ~MainReturn /\ ~Exited
  <2>1. TypeOK' /\ OneInv'
    BY <1>4, OneKept DEF OneIInv
  <2>2. (OneProcessor /\ TypeOK /\ OneInv => OneProps)'
    BY OnePropsHold, PTL
  <2>3. QED
    BY <2>1, <2>2 DEF OneIInv
<1>5. QED
  BY <1>1, <1>2, <1>3, <1>4

LEMMA OneInvariance ==
  ASSUME OneProcessor
  PROVE  Spec => []OneIInv
<1>1. Init => OneIInv
  BY InitOne, OnePropsHold DEF OneIInv
<1>2. QED
  BY <1>1, NextOne, PTL DEF Spec

-----------------------------------------------------------------------------
(* On one processor the variables keep their types whatever the client     *)
(* does: no join, detach or yield gets a pointer that is not a thread.     *)
THEOREM OneTypeCorrect ==
  ASSUME OneProcessor
  PROVE  Spec => []TypeOK
<1>1. OneIInv => TypeOK
  BY DEF OneIInv
<1>2. QED
  BY <1>1, OneInvariance, PTL

(* On one processor the ready queue never holds a thread twice, whoever    *)
(* yields, is created or is started by the thread that it joined.          *)
THEOREM OneQueuedOnce ==
  ASSUME OneProcessor
  PROVE  Spec => []QueuedOnce
<1>1. OneIInv => QueuedOnce
  BY DEF OneIInv, OneProps
<1>2. QED
  BY <1>1, OneInvariance, PTL

(* On one processor the assertion of uthread_stop never fails: the         *)
(* pthread_base thread is on the ready queue when another thread stops.    *)
THEOREM OneStopAssertion ==
  ASSUME OneProcessor
  PROVE  Spec => []StopFindsThread
<1>1. OneIInv => StopFindsThread
  BY DEF OneIInv, OneProps
<1>2. QED
  BY <1>1, OneInvariance, PTL

(* On one processor no TCB is used after it was freed, even if threads are *)
(* joined and detached by several callers: the reaper is past its last     *)
(* access when a joiner that it started gets to run.                       *)
THEOREM OneNothingUsedAfterFree ==
  ASSUME OneProcessor
  PROVE  Spec => []NoUseAfterFree
<1>1. OneIInv => NoUseAfterFree
  BY DEF OneIInv, OneProps
<1>2. QED
  BY <1>1, OneInvariance, PTL

(* On one processor every join, by whatever thread, reads the result of a  *)
(* thread that has ended and that nobody has freed.                        *)
THEOREM OneJoinGetsResult ==
  ASSUME OneProcessor
  PROVE  Spec => []JoinSeesResult
<1>1. OneIInv => JoinSeesResult
  BY DEF OneIInv, OneProps
<1>2. QED
  BY <1>1, OneInvariance, PTL

(* On one processor no joiner is forgotten, also when joiners wait for     *)
(* joiners.                                                                *)
THEOREM OneJoinersAreStarted ==
  ASSUME OneProcessor
  PROVE  Spec => []NoLostJoin
<1>1. OneIInv => NoLostJoin
  BY DEF OneIInv, OneProps
<1>2. QED
  BY <1>1, OneInvariance, PTL

(* On one processor a second uthread_join or uthread_detach never replaces *)
(* the joiner of a thread: nothing runs between the check of joiner and    *)
(* its assignment under the lock.                                          *)
THEOREM OneJoinerStays ==
  ASSUME OneProcessor
  PROVE  Spec => JoinerKept
<1>1. OneIInv /\ [Next]_vars => [\A w \in Threads : joiner[w] # NoThread => joiner'[w] = joiner[w]]_vars
  <2> SUFFICES ASSUME OneIInv, Next, NEW w \in Threads, joiner[w] # NoThread
               PROVE  joiner'[w] = joiner[w]
    OBVIOUS
  <2>1. CASE Exited
    BY <2>1, ExitedStays DEF vars
  <2>2. CASE joiner' = joiner
    BY <2>2
  <2>3. ASSUME OneInv, TypeOK, NEW t \in Threads, JoinWait(t) \/ DetachSet(t)
        PROVE  joiner'[w] = joiner[w]
    <3>1. pc[t] \in {"joinLocked", "detachLocked"} /\ joiner[target[t]] = NoThread
      BY <2>3 DEF JoinWait, DetachSet, SetJoiner, OneInv, CallInv
    <3>2. target[t] # w
      BY <3>1
    <3>3. QED
      BY <2>3, <3>2 DEF JoinWait, DetachSet, SetJoiner, TypeOK
  <2>4. QED
    BY <2>1, <2>2, <2>3, WhoSetsJoiner DEF OneIInv
<1>2. QED
  BY <1>1, OneInvariance, PTL DEF Spec, JoinerKept
=============================================================================
