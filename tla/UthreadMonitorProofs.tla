------------------------ MODULE UthreadMonitorProofs ------------------------
(***************************************************************************)
(* The monitor on the thread package implements Monitor, for any number of *)
(* processors and threads.  Nobody joins or detaches, and main() does not  *)
(* return while the monitor is in use.                                     *)
(***************************************************************************)
EXTENDS UthreadMonitor, UthreadProofs

MonitorClient == Joiners = {} /\ Detachers = {} /\ Base \in Loopers

(* Monitor and its proofs, under the refinement mapping.                   *)
MP == INSTANCE MonitorProofs WITH
         Clients <- Workers, Nobody <- NoThread, lock <- monLock,
         started <- {w \in Workers : Started(w)},
         pc <- [w \in Workers |-> MonitorPC(w)]

VisitPC == {"enter", "check", "taken", "queued", "in", "exit", "release", "released",
            "start", "startEnqueue"}
ThreadPC == {"init", "user", "gone"} \cup Leaving \cup (Arriving \ {"reapEnqueue"})

ThreadsTypeOK ==
  /\ state \in [Threads -> States]
  /\ joiner = [t \in Threads |-> NoThread]
  /\ joinLock \in [Threads -> BOOLEAN]
  /\ readyQueue \in Seq(Threads)
  /\ cur \in [Procs -> Threads \cup {NoThread}]
  /\ pc \in [Threads -> ThreadPC \cup VisitPC]
  /\ from \in [Threads -> Threads \cup {NoThread}]
  /\ to \in [Threads -> Threads \cup {NoThread}]
  /\ stopping \in [Threads -> {"RUNABLE", "BLOCKED", "DYING"}]
  /\ cont \in [Threads -> {"user", "enter", "gone"}]

(* A pending thread can run; if a processor still runs it, it is about to  *)
(* leave its stack, and not for good.                                      *)
ComesBackInv ==
  \A t \in Pending :
    /\ state[t] \notin Ended \cup {"UNBORN"}
    /\ t \in Running => pc[t] \in Leaving /\ cont[t] # "gone"

(* A thread goes where its caller sent it: the dying are gone, a thread    *)
(* that is switched to comes back, and a new one has no caller.            *)
CallerInv ==
  /\ \A t \in Threads : pc[t] = "gone" <=> state[t] \in Ended
  /\ \A t \in Threads : pc[t] \in Leaving => (cont[t] = "gone" <=> stopping[t] = "DYING")
  /\ \A t \in Threads : pc[t] \in Arriving => cont[t] # "gone"
  /\ \A t \in Threads : state[t] \in {"UNBORN", "NASCENT"} => cont[t] = "user"

(* Who arrives knows the thread it came from, and reaps the dead only.     *)
CameFromInv ==
  /\ \A t \in Running \ {NoThread} : pc[t] = "switched" => from[t] # NoThread
  /\ \A t \in Threads : pc[t] \in ReapPC => from[t] # NoThread /\ state[from[t]] \in Ended

ThreadsInv ==
  /\ ThreadsTypeOK /\ QueueInv /\ CpuInv /\ BootInv /\ IdleInv
  /\ ComesBackInv /\ CallerInv /\ CameFromInv
-----------------------------------------------------------------------------
USE DEF At, Goto, CallStop, tcbVars, stackVars, clientVars, Leaving, VisitPC,
        ThreadPC, Arriving, ReapPC, Ended

LEMMA ThreadsTypes ==
  ASSUME ThreadsTypeOK
  PROVE  /\ Running \subseteq Threads \cup {NoThread}
         /\ Ready \subseteq Threads
         /\ Held \subseteq Threads
         /\ Pending \subseteq Threads
         /\ NoThread \notin Threads
         /\ Workers \subseteq Threads
         /\ \A t \in Threads : to[t] # NoThread => to[t] \in Held
  BY ThreadsAssumption DEF ThreadsTypeOK, Running, Ready, Held, Pending, Threads

(* Started, read off the sets that the invariant speaks about.             *)
LEMMA StartedIs ==
  ASSUME ThreadsInv, NEW w \in Workers
  PROVE  Started(w) <=> /\ MonitorPC(w) = "stop"
                        /\ w \in Pending \/ (w \in Running /\ pc[w] \in Arriving)
<1>1. w # NoThread
  BY ThreadsTypes DEF ThreadsInv
<1>2. w \in Held <=> \E u \in Threads : Switching(u) /\ to[u] = w
  <2>1. \A u \in Threads : Switching(u) <=> to[u] # NoThread
    BY DEF ThreadsInv, QueueInv, CpuInv, Switching
  <2>2. QED
    BY <1>1, <2>1 DEF Held
<1>3. QED
  BY <1>2 DEF Started, Pending

LEMMA StartedAfter ==
  ASSUME ThreadsInv', NEW w \in Workers
  PROVE  (Started(w) <=> /\ MonitorPC(w) = "stop"
                         /\ w \in Pending \/ (w \in Running /\ pc[w] \in Arriving))'
BY StartedIs, PTL

(* The monitor sees nothing of the step. *)
SameView == \A w \in Workers : MonitorPC(w)' = MonitorPC(w) /\ (Started(w)' <=> Started(w))

LEMMA SameViewIf ==
  ASSUME ThreadsInv, ThreadsInv',
         \A w \in Workers :
           /\ MonitorPC(w)' = MonitorPC(w)
           /\ MonitorPC(w) = "stop" =>
                (w \in Pending \/ (w \in Running /\ pc[w] \in Arriving))'
                  <=> (w \in Pending \/ (w \in Running /\ pc[w] \in Arriving))
  PROVE  SameView
<1>1. ASSUME NEW w \in Workers PROVE Started(w)' <=> Started(w)
  BY StartedIs, StartedAfter
<1>2. QED
  BY <1>1 DEF SameView

-----------------------------------------------------------------------------
(* The steps of a thread that runs and neither stops nor arrives. *)
Quiet(t, l) ==
  /\ t \in Running
  /\ pc[t] \in {"init", "user"} \cup VisitPC
  /\ l \in {"user"} \cup VisitPC
  /\ pc' = [pc EXCEPT ![t] = l]
  /\ UNCHANGED <<state, joiner, joinLock, readyQueue, cur, from, to, stopping, cont>>

LEMMA QuietInv ==
  ASSUME ThreadsInv, NEW t \in Threads, NEW l, Quiet(t, l)
  PROVE  ThreadsInv' /\ Pending' = Pending /\ Running' = Running
<1>1. Running' = Running /\ Ready' = Ready /\ Held' = Held /\ Pending' = Pending
  BY DEF Quiet, Running, Ready, Held, Pending
<1>2. ThreadsTypeOK'
  BY DEF Quiet, ThreadsInv, ThreadsTypeOK
<1>3. QueueInv'
  BY <1>1 DEF Quiet, ThreadsInv, ThreadsTypeOK, QueueInv
<1>4. CpuInv'
  BY <1>1 DEF Quiet, ThreadsInv, ThreadsTypeOK, CpuInv, OneProcessorPerThread
<1>5. BootInv'
  BY DEF Quiet, ThreadsInv, ThreadsTypeOK, BootInv
<1>6. ComesBackInv' /\ IdleInv'
  BY <1>1 DEF Quiet, ThreadsInv, ThreadsTypeOK, ComesBackInv, IdleInv, Threads
<1>7. CallerInv'
  BY DEF Quiet, ThreadsInv, ThreadsTypeOK, CallerInv
<1>8. CameFromInv'
  BY <1>1 DEF Quiet, ThreadsInv, ThreadsTypeOK, CameFromInv
<1>9. QED
  BY <1>1, <1>2, <1>3, <1>4, <1>5, <1>6, <1>7, <1>8 DEF ThreadsInv

LEMMA MonitorStop ==
  ASSUME ThreadsInv, NEW t \in Threads, Stop(t)
  PROVE  ThreadsInv' /\ SameView
<1> DEFINE h == Head(readyQueue)
<1>1. /\ h \in Ready /\ Ready' = Ready \ {h} /\ h \in Threads
      /\ (\A i, j \in DOMAIN readyQueue : readyQueue[i] = readyQueue[j] => i = j)'
  BY ReadyTail, ThreadsTypes DEF ThreadsTypeOK, ThreadsInv, Stop
<1>2. Running' = Running
  BY DEF Stop, Running
<1>3. Held' = Held \cup {h} /\ to[t] = NoThread
  BY <1>1, ThreadsAssumption DEF Stop, Held, ThreadsTypeOK, ThreadsInv, QueueInv
<1>4. Pending' = Pending
  BY <1>1, <1>3 DEF Pending
<1>5. ThreadsTypeOK'
  BY <1>1, HeadTailProperties DEF ThreadsInv, ThreadsTypeOK, Stop
<1> HIDE DEF h
<1>6. QueueInv'
  <2>1. Ready' \cap Held' = {}
    BY <1>1, <1>3 DEF ThreadsInv, QueueInv
  <2>2. \A u \in Threads : to'[u] = IF u = t THEN h ELSE to[u]
    BY DEF Stop, ThreadsInv, ThreadsTypeOK, h
  <2>3. \A u \in Threads : to[u] # h
    BY <1>1, ThreadsTypes DEF ThreadsInv, QueueInv
  <2>4. h # NoThread
    BY <1>1, ThreadsAssumption
  <2>5. \A u \in Threads : pc'[u] = IF u = t THEN "switch" ELSE pc[u]
    BY DEF Stop, ThreadsInv, ThreadsTypeOK
  <2>6. QED
    BY <1>1, <2>1, <2>2, <2>3, <2>4, <2>5 DEF ThreadsInv, QueueInv
<1>7. CpuInv'
  BY <1>2 DEF Stop, ThreadsInv, ThreadsTypeOK, CpuInv, OneProcessorPerThread
<1>8. BootInv' /\ CallerInv'
  BY DEF Stop, ThreadsInv, ThreadsTypeOK, BootInv, CallerInv
<1>9. ComesBackInv' /\ IdleInv' /\ CameFromInv'
  BY <1>2, <1>4 DEF Stop, ThreadsInv, ThreadsTypeOK, ComesBackInv, IdleInv,
     CameFromInv, Threads
<1>10. ThreadsInv'
  BY <1>5, <1>6, <1>7, <1>8, <1>9 DEF ThreadsInv
<1>11. \A w \in Workers : MonitorPC(w)' = MonitorPC(w)
  BY ThreadsTypes DEF Stop, ThreadsInv, ThreadsTypeOK, MonitorPC
<1>12. \A w \in Workers : (w \in Running /\ pc[w] \in Arriving)'
                          <=> (w \in Running /\ pc[w] \in Arriving)
  BY <1>2, ThreadsTypes DEF Stop, ThreadsInv, ThreadsTypeOK
<1>13. QED
  BY <1>4, <1>10, <1>11, <1>12, SameViewIf

(* The steps behind the switch, up to the one that makes t RUNNING.        *)
LEMMA MonitorArrives ==
  ASSUME ThreadsInv, NEW t \in Threads,
         FromDying(t) \/ FromLive(t) \/ ReapLock(t) \/ ReapNoJoiner(t) \/ ReapUnlock(t)
  PROVE  ThreadsInv' /\ SameView
<1>1. Running' = Running /\ Ready' = Ready /\ Held' = Held /\ Pending' = Pending
  BY DEF FromDying, FromLive, ReapLock, ReapNoJoiner, ReapUnlock, Running, Ready,
     Held, Pending
<1>2. PICK l \in {"reap", "reapLocked", "reapDead", "resume"} :
        /\ t \in Running /\ pc[t] \in {"switched"} \cup ReapPC
        /\ pc' = [pc EXCEPT ![t] = l]
        /\ \/ from' = from
           \/ l = "resume" /\ from' = [from EXCEPT ![t] = NoThread]
        /\ l # "resume" /\ pc[t] = "switched" => state[from[t]] = "DYING"
        /\ UNCHANGED <<state, joiner, readyQueue, cur, to, stopping, cont>>
  <2>1. CASE FromDying(t)
    BY <2>1 DEF FromDying
  <2>2. CASE FromLive(t)
    BY <2>2 DEF FromLive
  <2>3. CASE ReapLock(t)
    BY <2>3 DEF ReapLock
  <2>4. CASE ReapNoJoiner(t)
    BY <2>4 DEF ReapNoJoiner
  <2>5. CASE ReapUnlock(t)
    BY <2>5 DEF ReapUnlock
  <2>6. QED
    BY <2>1, <2>2, <2>3, <2>4, <2>5
<1>3. joinLock' \in [Threads -> BOOLEAN]
  BY DEF FromDying, FromLive, ReapLock, ReapNoJoiner, ReapUnlock, ThreadsInv,
     ThreadsTypeOK
<1>4. ThreadsTypeOK'
  BY <1>2, <1>3 DEF ThreadsInv, ThreadsTypeOK
<1>5. QueueInv'
  BY <1>1, <1>2 DEF ThreadsInv, ThreadsTypeOK, QueueInv
<1>6. CpuInv'
  BY <1>1, <1>2 DEF ThreadsInv, ThreadsTypeOK, CpuInv, OneProcessorPerThread
<1>7. BootInv' /\ CallerInv'
  BY <1>2 DEF ThreadsInv, ThreadsTypeOK, BootInv, CallerInv
<1>8. ComesBackInv' /\ IdleInv'
  BY <1>1, <1>2 DEF ThreadsInv, ThreadsTypeOK, ComesBackInv, IdleInv, Threads
<1>9. CameFromInv'
  BY <1>1, <1>2, ThreadsTypes DEF ThreadsInv, ThreadsTypeOK, CameFromInv
<1>10. ThreadsInv'
  BY <1>4, <1>5, <1>6, <1>7, <1>8, <1>9 DEF ThreadsInv
<1>11. \A w \in Workers : MonitorPC(w)' = MonitorPC(w)
  BY <1>2, ThreadsTypes DEF ThreadsInv, ThreadsTypeOK, MonitorPC
<1>12. \A w \in Workers : (w \in Running /\ pc[w] \in Arriving)'
                          <=> (w \in Running /\ pc[w] \in Arriving)
  BY <1>1, <1>2, ThreadsTypes DEF ThreadsInv, ThreadsTypeOK
<1>13. QED
  BY <1>1, <1>10, <1>11, <1>12, SameViewIf

(* A dead thread may be reaped twice: it stays dead.                       *)
LEMMA MonitorReapDead ==
  ASSUME ThreadsInv, NEW t \in Threads, ReapDead(t)
  PROVE  ThreadsInv' /\ SameView
<1>1. Running' = Running /\ Ready' = Ready /\ Held' = Held /\ Pending' = Pending
  BY DEF ReapDead, Running, Ready, Held, Pending
<1>2. from[t] \in Threads /\ state[from[t]] \in Ended
  BY DEF ReapDead, ThreadsInv, ThreadsTypeOK, CameFromInv
<1>3. \A u \in Threads : /\ state'[u] \in Ended <=> state[u] \in Ended
                         /\ state[u] \notin Ended => state'[u] = state[u]
  BY <1>2 DEF ReapDead, ThreadsInv, ThreadsTypeOK
<1>4. ThreadsTypeOK'
  BY <1>2 DEF ReapDead, ThreadsInv, ThreadsTypeOK, States
<1>5. QueueInv'
  BY <1>1 DEF ReapDead, ThreadsInv, ThreadsTypeOK, QueueInv
<1>6. CpuInv'
  BY <1>1, <1>3, ThreadsTypes DEF ReapDead, ThreadsInv, ThreadsTypeOK, CpuInv,
     OneProcessorPerThread
<1>7. BootInv'
  BY <1>3, ThreadsAssumption DEF ReapDead, ThreadsInv, ThreadsTypeOK, BootInv,
     Threads
<1>8. ComesBackInv' /\ IdleInv'
  BY <1>1, <1>3, ThreadsTypes DEF ReapDead, ThreadsInv, ThreadsTypeOK, ComesBackInv,
     IdleInv, Threads
<1>9. CallerInv'
  BY <1>3 DEF ReapDead, ThreadsInv, ThreadsTypeOK, CallerInv
<1>10. CameFromInv'
  BY <1>1, <1>2, <1>3, ThreadsTypes DEF ReapDead, ThreadsInv, ThreadsTypeOK,
     CameFromInv
<1>11. ThreadsInv'
  BY <1>4, <1>5, <1>6, <1>7, <1>8, <1>9, <1>10 DEF ThreadsInv
<1>12. \A w \in Workers : MonitorPC(w)' = MonitorPC(w)
  BY ThreadsTypes DEF ReapDead, ThreadsInv, ThreadsTypeOK, MonitorPC
<1>13. \A w \in Workers : (w \in Running /\ pc[w] \in Arriving)'
                          <=> (w \in Running /\ pc[w] \in Arriving)
  BY <1>1, ThreadsTypes DEF ReapDead, ThreadsInv, ThreadsTypeOK
<1>14. QED
  BY <1>1, <1>11, <1>12, <1>13, SameViewIf

LEMMA MonitorSwitch ==
  ASSUME ThreadsInv, NEW p \in Procs, Switch(p)
  PROVE  ThreadsInv' /\ SameView
<1> DEFINE t == cur[p]
           u == to[t]
           l == IF stopping[t] = "DYING" THEN "gone" ELSE "switched"
<1>1. /\ t \in Threads /\ t \in Running /\ pc[t] = "switch" /\ u # t
      /\ MayDispatch(u)
      /\ state' = [state EXCEPT ![t] = stopping[t]]
      /\ cur' = [cur EXCEPT ![p] = u]
      /\ from' = [from EXCEPT ![u] = t]
      /\ to' = [to EXCEPT ![t] = NoThread]
      /\ pc' = [pc EXCEPT ![t] = l]
      /\ UNCHANGED <<joiner, joinLock, readyQueue, stopping, cont>>
  BY DEF Switch, Running, ThreadsInv, ThreadsTypeOK
<1>2. u \in Threads /\ u \in Held /\ u \in Pending
  BY <1>1, ThreadsTypes DEF ThreadsInv, ThreadsTypeOK, QueueInv, Pending
<1>3. u \notin Running /\ pc[u] = "switched" /\ state[u] \notin Ended \cup {"UNBORN", "RUNNING"}
  BY <1>1, <1>2, ThreadsTypes DEF ThreadsInv, ComesBackInv, CpuInv, CallerInv,
     MayDispatch
<1>4. stopping[t] \in {"RUNABLE", "BLOCKED", "DYING"} /\ (cont[t] = "gone" <=> stopping[t] = "DYING")
  BY <1>1 DEF ThreadsInv, ThreadsTypeOK, CallerInv
<1> HIDE DEF t, u
<1>5. Running' = (Running \ {t}) \cup {u}
  BY <1>1, <1>2, ThreadsAssumption DEF t, ThreadsInv, ThreadsTypeOK, CpuInv,
     OneProcessorPerThread, Running
<1>6. Ready' = Ready /\ Held' = Held \ {u}
  BY <1>1, <1>2, ThreadsTypes DEF u, ThreadsInv, ThreadsTypeOK, QueueInv, Ready,
     Held
<1>7. Pending' = Pending \ {u}
  BY <1>2, <1>6 DEF ThreadsInv, QueueInv, Pending
<1>8. ThreadsTypeOK'
  BY <1>1, <1>2, <1>4 DEF ThreadsInv, ThreadsTypeOK, States
<1>9. QueueInv'
  BY <1>1, <1>6 DEF ThreadsInv, ThreadsTypeOK, QueueInv
<1>10. CpuInv'
  <2>1. OneProcessorPerThread'
    BY <1>1, <1>3 DEF ThreadsInv, ThreadsTypeOK, CpuInv, OneProcessorPerThread,
       Running
  <2>2. QED
    BY <1>1, <1>3, <1>4, <1>5, <2>1, ThreadsTypes DEF ThreadsInv, ThreadsTypeOK,
       CpuInv
<1>11. BootInv'
  BY <1>1, <1>2, <1>3, <1>4, ThreadsAssumption DEF t, ThreadsInv, ThreadsTypeOK,
     BootInv, CpuInv, Threads, Running
<1>12. ComesBackInv'
  <2>1. t \in Pending => cont[t] # "gone"
    BY <1>1 DEF ThreadsInv, ComesBackInv
  <2>2. QED
    BY <1>1, <1>3, <1>4, <1>5, <1>7, <2>1, ThreadsTypes DEF ThreadsInv,
       ThreadsTypeOK, ComesBackInv
<1>13. CallerInv' /\ IdleInv'
  <2>1. CallerInv'
    BY <1>1, <1>3, <1>4 DEF ThreadsInv, ThreadsTypeOK, CallerInv, CpuInv
  <2>2. IdleInv'
    <3>1. t \in Procs => t \in Pending'
      BY <1>1, <1>7, ThreadsTypes DEF ThreadsInv, CpuInv, IdleInv
    <3>2. u \in Running' /\ pc'[u] = "switched"
      BY <1>1, <1>2, <1>3, <1>5 DEF ThreadsInv, ThreadsTypeOK
    <3>3. \A i \in Procs \ {t, u} :
            /\ state'[i] = state[i] /\ pc'[i] = pc[i]
            /\ i \in Pending' <=> i \in Pending
            /\ i \in Running' <=> i \in Running
      BY <1>1, <1>5, <1>7 DEF ThreadsInv, ThreadsTypeOK, Threads
    <3>4. QED
      BY <3>1, <3>2, <3>3 DEF ThreadsInv, IdleInv
  <2>3. QED
    BY <2>1, <2>2
<1>14. CameFromInv'
  BY <1>1, <1>2, <1>3, <1>4, <1>5, ThreadsTypes DEF ThreadsInv, ThreadsTypeOK,
     CameFromInv, CpuInv
<1>15. ThreadsInv'
  BY <1>8, <1>9, <1>10, <1>11, <1>12, <1>13, <1>14 DEF ThreadsInv
<1>16. \A w \in Workers : MonitorPC(w)' = MonitorPC(w)
  BY <1>1, <1>4, ThreadsTypes DEF ThreadsInv, ThreadsTypeOK, MonitorPC
<1>17. \A w \in Workers : (w \in Pending \/ (w \in Running /\ pc[w] \in Arriving))'
                        <=> (w \in Pending \/ (w \in Running /\ pc[w] \in Arriving))
  BY <1>1, <1>2, <1>3, <1>5, <1>7, ThreadsTypes DEF ThreadsInv, ThreadsTypeOK
<1>18. QED
  BY <1>15, <1>16, <1>17, SameViewIf

(* A step that returns from uthread_stop, in the monitor or elsewhere.     *)
ComesBack(t) ==
  /\ t \in Workers
  /\ MonitorPC(t) = "stop" /\ Started(t)
  /\ MonitorPC(t)' = "enter"
  /\ \A w \in Workers \ {t} : MonitorPC(w)' = MonitorPC(w)
  /\ \A w \in Workers : Started(w)' <=> Started(w) /\ w # t

LEMMA MonitorSwitchSelf ==
  ASSUME ThreadsInv, NEW t \in Threads, SwitchSelf(t)
  PROVE  ThreadsInv' /\ (SameView \/ (t \in Workers /\ ComesBack(t)))
<1>1. /\ t \in Running /\ pc[t] = "switch" /\ to[t] = t
      /\ to' = [to EXCEPT ![t] = NoThread]
      /\ pc' = [pc EXCEPT ![t] = cont[t]]
      /\ UNCHANGED <<state, joiner, joinLock, readyQueue, cur, from, stopping, cont>>
  BY DEF SwitchSelf
<1>2. Running' = Running /\ Ready' = Ready /\ Held' = Held \ {t}
  BY <1>1, ThreadsTypes DEF ThreadsInv, ThreadsTypeOK, QueueInv, Ready, Held,
     Running
<1>3. t \in Pending /\ Pending' = Pending \ {t}
  BY <1>1, <1>2, ThreadsTypes DEF ThreadsInv, QueueInv, Pending
<1>4. cont[t] \in {"user", "enter"}
  BY <1>1, <1>3 DEF ThreadsInv, ThreadsTypeOK, ComesBackInv
<1>5. ThreadsTypeOK'
  BY <1>1, <1>4 DEF ThreadsInv, ThreadsTypeOK
<1>6. QueueInv'
  BY <1>1, <1>2, <1>4, ThreadsTypes DEF ThreadsInv, ThreadsTypeOK, QueueInv
<1>7. CpuInv'
  BY <1>1, <1>2, <1>4 DEF ThreadsInv, ThreadsTypeOK, CpuInv, OneProcessorPerThread
<1>8. BootInv' /\ CallerInv'
  BY <1>1, <1>4 DEF ThreadsInv, ThreadsTypeOK, BootInv, CallerInv
<1>9. ComesBackInv' /\ IdleInv' /\ CameFromInv'
  BY <1>1, <1>2, <1>3, <1>4 DEF ThreadsInv, ThreadsTypeOK, ComesBackInv, IdleInv,
     CameFromInv, Threads
<1>10. ThreadsInv'
  BY <1>5, <1>6, <1>7, <1>8, <1>9 DEF ThreadsInv
<1>11. \A w \in Workers : w # t => MonitorPC(w)' = MonitorPC(w)
  BY <1>1, ThreadsTypes DEF ThreadsInv, ThreadsTypeOK, MonitorPC
<1>12. MonitorPC(t) = (IF cont[t] = "enter" THEN "stop" ELSE "out")
  BY <1>1 DEF MonitorPC
<1>13. MonitorPC(t)' = (IF cont[t] = "enter" THEN "enter" ELSE "out")
  BY <1>1, <1>4 DEF ThreadsInv, ThreadsTypeOK, MonitorPC
<1>14. \A w \in Workers : w # t => (Started(w)' <=> Started(w))
  <2>1. \A w \in Workers : w # t =>
          ((w \in Pending \/ (w \in Running /\ pc[w] \in Arriving))'
             <=> (w \in Pending \/ (w \in Running /\ pc[w] \in Arriving)))
    BY <1>1, <1>2, <1>3, ThreadsTypes DEF ThreadsInv, ThreadsTypeOK
  <2>2. QED
    BY <1>10, <1>11, <2>1, StartedIs, StartedAfter
<1>15. t \in Workers => /\ Started(t) <=> cont[t] = "enter"
                        /\ ~Started(t)'
  BY <1>3, <1>10, <1>12, <1>13, StartedIs, StartedAfter
<1>16. QED
  BY <1>4, <1>10, <1>11, <1>12, <1>13, <1>14, <1>15 DEF ComesBack, SameView

LEMMA MonitorResume ==
  ASSUME ThreadsInv, NEW t \in Threads, Resume(t)
  PROVE  ThreadsInv' /\ (SameView \/ (t \in Workers /\ ComesBack(t)))
<1> DEFINE l == IF state[t] = "NASCENT" THEN "user" ELSE cont[t]
<1>1. /\ t \in Running /\ pc[t] = "resume"
      /\ state' = [state EXCEPT ![t] = "RUNNING"]
      /\ pc' = [pc EXCEPT ![t] = l]
      /\ UNCHANGED <<joiner, joinLock, readyQueue, cur, from, to, stopping, cont>>
  BY DEF Resume
<1>2. Running' = Running /\ Ready' = Ready /\ Held' = Held /\ Pending' = Pending
  BY <1>1 DEF Running, Ready, Held, Pending
<1>3. /\ cont[t] \in {"user", "enter"} /\ l = cont[t] /\ t \notin Pending
      /\ state[t] \notin Ended \cup {"UNBORN"}
  BY <1>1, ThreadsTypes DEF ThreadsInv, ThreadsTypeOK, CallerInv, ComesBackInv,
     CpuInv
<1> HIDE DEF l
<1>4. ThreadsTypeOK'
  BY <1>1, <1>3 DEF ThreadsInv, ThreadsTypeOK, States
<1>5. QueueInv'
  BY <1>1, <1>2, <1>3 DEF ThreadsInv, ThreadsTypeOK, QueueInv
<1>6. CpuInv'
  BY <1>1, <1>2, <1>3 DEF ThreadsInv, ThreadsTypeOK, CpuInv, OneProcessorPerThread
<1>7. BootInv'
  BY <1>1, <1>3, ThreadsAssumption DEF ThreadsInv, ThreadsTypeOK, BootInv, Threads
<1>8. CallerInv'
  BY <1>1, <1>3 DEF ThreadsInv, ThreadsTypeOK, CallerInv
<1>9. ComesBackInv' /\ IdleInv'
  BY <1>1, <1>2, <1>3, ThreadsTypes DEF ThreadsInv, ThreadsTypeOK, ComesBackInv,
     IdleInv, Threads
<1>10. CameFromInv'
  BY <1>1, <1>2, <1>3 DEF ThreadsInv, ThreadsTypeOK, CameFromInv
<1>11. ThreadsInv'
  BY <1>4, <1>5, <1>6, <1>7, <1>8, <1>9, <1>10 DEF ThreadsInv
<1>12. \A w \in Workers : w # t => MonitorPC(w)' = MonitorPC(w)
  BY <1>1, ThreadsTypes DEF ThreadsInv, ThreadsTypeOK, MonitorPC
<1>13. MonitorPC(t) = (IF cont[t] = "enter" THEN "stop" ELSE "out")
  BY <1>1 DEF MonitorPC
<1>14. MonitorPC(t)' = (IF cont[t] = "enter" THEN "enter" ELSE "out")
  BY <1>1, <1>3 DEF ThreadsInv, ThreadsTypeOK, MonitorPC
<1>15. \A w \in Workers : w # t => (Started(w)' <=> Started(w))
  BY <1>1, <1>2, <1>11, <1>12, StartedIs, StartedAfter, ThreadsTypes DEF ThreadsInv,
     ThreadsTypeOK
<1>16. t \in Workers => /\ Started(t) <=> cont[t] = "enter"
                        /\ ~Started(t)'
  <2>1. t \in Workers => (Started(t) <=> cont[t] = "enter")
    BY <1>1, <1>13, StartedIs
  <2>2. t \notin Pending' /\ pc'[t] \notin Arriving
    BY <1>1, <1>2, <1>3 DEF ThreadsInv, ThreadsTypeOK
  <2>3. QED
    BY <1>11, <2>1, <2>2, StartedAfter
<1>17. QED
  BY <1>3, <1>11, <1>12, <1>13, <1>14, <1>15, <1>16 DEF ComesBack, SameView

-----------------------------------------------------------------------------
(* The calls of uthread_stop.  A thread that stops is pending if it has    *)
(* put itself on the ready queue before.                                   *)
Stops(t, st, label) ==
  /\ t \in Running
  /\ pc[t] \in {"user"} \cup VisitPC
  /\ CallStop(t, st, label)
  /\ st \in {"RUNABLE", "BLOCKED", "DYING"} /\ label \in {"user", "enter", "gone"}
  /\ label = "gone" <=> st = "DYING"
  /\ \/ UNCHANGED readyQueue /\ t \notin Procs
     \/ readyQueue' = Append(readyQueue, t) /\ st = "RUNABLE"
  /\ UNCHANGED <<state, joiner, joinLock, cur, from, to>>

LEMMA StopsInv ==
  ASSUME ThreadsInv, NEW t \in Threads, NEW st, NEW label, Stops(t, st, label)
  PROVE  /\ ThreadsInv'
         /\ Running' = Running
         /\ \/ Pending' = Pending /\ t \notin Procs
            \/ Pending' = Pending \cup {t} /\ label # "gone"
         /\ UNCHANGED readyQueue => t \notin Pending'
<1>1. t \notin Pending
  BY DEF Stops, ThreadsInv, ComesBackInv
<1>2. Running' = Running /\ Held' = Held
  BY DEF Stops, Running, Held
<1>3. /\ readyQueue' \in Seq(Threads)
      /\ \/ Ready' = Ready /\ t \notin Procs
         \/ Ready' = Ready \cup {t} /\ label # "gone"
      /\ (\A i, j \in DOMAIN readyQueue : readyQueue[i] = readyQueue[j] => i = j)'
  <2>1. CASE UNCHANGED readyQueue /\ t \notin Procs
    BY <2>1 DEF Ready, ThreadsInv, ThreadsTypeOK, QueueInv
  <2>2. CASE readyQueue' = Append(readyQueue, t) /\ st = "RUNABLE"
    BY <1>1, <2>2, ReadyAppend, AppendProperties DEF Pending, Stops, ThreadsInv,
       ThreadsTypeOK
  <2>3. QED
    BY <2>1, <2>2 DEF Stops
<1>4. \/ Pending' = Pending /\ t \notin Procs
      \/ Pending' = Pending \cup {t} /\ label # "gone"
  BY <1>2, <1>3 DEF Pending
<1>5. ThreadsTypeOK'
  BY <1>3 DEF Stops, ThreadsInv, ThreadsTypeOK
<1>6. QueueInv'
  BY <1>1, <1>2, <1>3 DEF Stops, ThreadsInv, ThreadsTypeOK, QueueInv, Pending
<1>7. CpuInv'
  BY <1>2 DEF Stops, ThreadsInv, ThreadsTypeOK, CpuInv, OneProcessorPerThread
<1>8. BootInv' /\ IdleInv'
  BY <1>2, <1>4 DEF Stops, ThreadsInv, ThreadsTypeOK, BootInv, IdleInv
<1>9. ComesBackInv'
  BY <1>1, <1>2, <1>4, ThreadsTypes DEF Stops, ThreadsInv, ThreadsTypeOK,
     ComesBackInv, CpuInv
<1>10. CallerInv'
  BY ThreadsTypes DEF Stops, ThreadsInv, ThreadsTypeOK, CallerInv, CpuInv
<1>11. CameFromInv'
  BY <1>2 DEF Stops, ThreadsInv, ThreadsTypeOK, CameFromInv
<1>12. UNCHANGED readyQueue => t \notin Pending'
  BY <1>1, <1>2 DEF Pending, Ready
<1>13. QED
  BY <1>2, <1>4, <1>5, <1>6, <1>7, <1>8, <1>9, <1>10, <1>11, <1>12 DEF ThreadsInv

LEMMA MonitorYield ==
  ASSUME ThreadsInv, NEW t \in Threads, Yield(t) \/ Return(t)
  PROVE  ThreadsInv' /\ SameView
<1>1. PICK label \in {"user", "gone"} :
        Stops(t, IF label = "gone" THEN "DYING" ELSE "RUNABLE", label)
  <2>1. CASE Yield(t)
    BY <2>1 DEF Yield, Stops
  <2>2. CASE Return(t)
    BY <2>2, ThreadsAssumption DEF Return, Stops
  <2>3. QED
    BY <2>1, <2>2
<1>2. /\ ThreadsInv' /\ Running' = Running
      /\ Pending' = Pending \/ Pending' = Pending \cup {t}
  BY <1>1, StopsInv
<1>3. \A w \in Workers : w # t => MonitorPC(w)' = MonitorPC(w)
  BY <1>1, ThreadsTypes DEF Stops, ThreadsInv, ThreadsTypeOK, MonitorPC
<1>4. pc[t] = "user" /\ pc'[t] = "stop" /\ cont'[t] = label
  BY <1>1 DEF Yield, Return, Stops, ThreadsInv, ThreadsTypeOK
<1>5. MonitorPC(t) = "out" /\ MonitorPC(t)' = "out"
  BY <1>4 DEF MonitorPC
<1>6. \A w \in Workers : w # t => ((w \in Running /\ pc[w] \in Arriving)'
                                   <=> (w \in Running /\ pc[w] \in Arriving))
  BY <1>1, <1>2, ThreadsTypes DEF Stops, ThreadsInv, ThreadsTypeOK
<1>7. QED
  BY <1>2, <1>3, <1>5, <1>6, SameViewIf

LEMMA MonitorCreate ==
  ASSUME ThreadsInv, NEW t \in Threads, NEW w \in Workers, Create(t, w)
  PROVE  ThreadsInv' /\ SameView
<1>1. /\ state[w] = "UNBORN"
      /\ state' = [state EXCEPT ![w] = "NASCENT"]
      /\ readyQueue' = Append(readyQueue, w)
      /\ UNCHANGED <<joiner, joinLock, cur, pc, from, to, stopping, cont>>
  BY DEF Create
<1>2. /\ w \in Threads /\ w \notin Pending /\ w \notin Running /\ w \notin Procs /\ w # Base
      /\ pc[w] = "switched" /\ cont[w] = "user"
  BY <1>1, ThreadsAssumption, ThreadsTypes DEF ThreadsInv, ComesBackInv, CpuInv,
     CallerInv
<1>3. Running' = Running /\ Held' = Held
  BY <1>1 DEF Running, Held
<1>4. /\ Ready' = Ready \cup {w} /\ readyQueue' \in Seq(Threads)
      /\ (\A i, j \in DOMAIN readyQueue : readyQueue[i] = readyQueue[j] => i = j)'
  BY <1>1, <1>2, ReadyAppend, AppendProperties DEF Pending, ThreadsInv,
     ThreadsTypeOK
<1>5. Pending' = Pending \cup {w}
  BY <1>3, <1>4 DEF Pending
<1>6. ThreadsTypeOK'
  BY <1>1, <1>4 DEF ThreadsInv, ThreadsTypeOK, States
<1>7. QueueInv'
  BY <1>1, <1>2, <1>3, <1>4 DEF ThreadsInv, ThreadsTypeOK, QueueInv, Pending
<1>8. CpuInv'
  BY <1>1, <1>2, <1>3, ThreadsTypes DEF ThreadsInv, ThreadsTypeOK, CpuInv,
     OneProcessorPerThread
<1>9. BootInv'
  BY <1>1, <1>2, ThreadsTypes DEF ThreadsInv, ThreadsTypeOK, BootInv
<1>10. ComesBackInv' /\ IdleInv'
  BY <1>1, <1>2, <1>3, <1>5, ThreadsTypes DEF ThreadsInv, ThreadsTypeOK,
     ComesBackInv, IdleInv, Threads
<1>11. CallerInv'
  BY <1>1, <1>2 DEF ThreadsInv, ThreadsTypeOK, CallerInv
<1>12. CameFromInv'
  BY <1>1, <1>3 DEF ThreadsInv, ThreadsTypeOK, CameFromInv
<1>13. ThreadsInv'
  BY <1>6, <1>7, <1>8, <1>9, <1>10, <1>11, <1>12 DEF ThreadsInv
<1>14. \A x \in Workers : MonitorPC(x)' = MonitorPC(x)
  BY <1>1 DEF MonitorPC
<1>15. MonitorPC(w) = "out"
  BY <1>2 DEF MonitorPC
<1>16. QED
  BY <1>1, <1>3, <1>5, <1>13, <1>14, <1>15, SameViewIf

LEMMA MonitorBoot ==
  ASSUME ThreadsInv, Boot
  PROVE  ThreadsInv' /\ SameView
<1>1. CASE InitDone
  <2>1. Quiet(Base, "user") /\ Base \in Threads
    BY <1>1 DEF InitDone, Quiet, Threads
  <2>2. ThreadsInv' /\ Pending' = Pending /\ Running' = Running
    BY <2>1, QuietInv
  <2>3. Base \notin Workers
    BY ThreadsAssumption
  <2>4. \A w \in Workers : MonitorPC(w)' = MonitorPC(w) /\ pc'[w] = pc[w]
    BY <2>1, <2>3, ThreadsTypes DEF Quiet, ThreadsInv, ThreadsTypeOK, MonitorPC
  <2>5. QED
    BY <2>2, <2>4, SameViewIf
<1>2. ASSUME NEW p \in Procs, SpawnPthread(p) PROVE ThreadsInv' /\ SameView
  <2>1. /\ pc[Base] = "init" /\ state[p] = "UNBORN"
        /\ state' = [state EXCEPT ![p] = "RUNNING"]
        /\ cur' = [cur EXCEPT ![p] = p]
        /\ pc' = [pc EXCEPT ![p] = "user"]
        /\ UNCHANGED <<joiner, joinLock, readyQueue, from, to, stopping, cont>>
    BY <1>2 DEF SpawnPthread
  <2>2. /\ p \in Threads /\ p \notin Workers /\ p # Base /\ p # NoThread
        /\ p \notin Pending /\ p \notin Running /\ cur[p] = NoThread
        /\ pc[p] = "switched" /\ cont[p] = "user"
    BY <2>1, ThreadsAssumption, ThreadsTypes
    DEF ThreadsInv, ComesBackInv, CpuInv, CallerInv, BootInv, Threads
  <2>3. Ready' = Ready /\ Held' = Held /\ Pending' = Pending
    BY <2>1 DEF Ready, Held, Pending
  <2>4. \A x \in Threads : x \in Running' <=> x \in Running \/ x = p
    BY <2>1, <2>2, ThreadsTypes DEF ThreadsInv, ThreadsTypeOK, Running
  <2>5. ThreadsTypeOK'
    BY <2>1, <2>2 DEF ThreadsInv, ThreadsTypeOK, States
  <2>6. QueueInv'
    BY <2>1, <2>2, <2>3 DEF ThreadsInv, ThreadsTypeOK, QueueInv
  <2>7. CpuInv'
    <3>1. OneProcessorPerThread'
      BY <2>1, <2>2 DEF ThreadsInv, ThreadsTypeOK, CpuInv, OneProcessorPerThread,
         Running
    <3>2. Running' \ {NoThread} \subseteq Threads
      BY <2>5 DEF ThreadsTypeOK, Running
    <3>3. QED
      BY <2>1, <2>2, <2>4, <3>1, <3>2 DEF ThreadsInv, ThreadsTypeOK, CpuInv
  <2>8. BootInv'
    BY <2>1, <2>2, ThreadsAssumption DEF ThreadsInv, ThreadsTypeOK, BootInv, Threads
  <2>9. ComesBackInv' /\ IdleInv'
    BY <2>1, <2>2, <2>3, <2>4, ThreadsTypes DEF ThreadsInv, ThreadsTypeOK,
       ComesBackInv, IdleInv, Threads
  <2>10. CallerInv'
    BY <2>1, <2>2 DEF ThreadsInv, ThreadsTypeOK, CallerInv
  <2>11. CameFromInv'
    <3>1. Running' \ {NoThread} \subseteq Threads
      BY <2>5 DEF ThreadsTypeOK, Running
    <3>2. QED
      BY <2>1, <2>2, <2>4, <3>1 DEF ThreadsInv, ThreadsTypeOK, CameFromInv
  <2>12. ThreadsInv'
    BY <2>5, <2>6, <2>7, <2>8, <2>9, <2>10, <2>11 DEF ThreadsInv
  <2>13. \A w \in Workers : /\ MonitorPC(w)' = MonitorPC(w) /\ pc'[w] = pc[w]
                            /\ w \in Running' <=> w \in Running
    BY <2>1, <2>2, <2>4, ThreadsTypes DEF ThreadsInv, ThreadsTypeOK, MonitorPC
  <2>14. QED
    BY <2>3, <2>12, <2>13, SameViewIf
<1>3. QED
  BY <1>1, <1>2 DEF Boot

LEMMA MonitorThreadsStart == Init => ThreadsInv
<1> SUFFICES ASSUME Init PROVE ThreadsInv
  OBVIOUS
<1>1. /\ readyQueue = <<BootProc>> /\ BootProc \in Threads /\ Base \in Threads
      /\ Base # BootProc /\ NoThread \notin Threads
      /\ DOMAIN readyQueue = 1..1 /\ readyQueue[1] = BootProc
  BY ThreadsAssumption DEF Init, BootQueue, Threads
<1>2. Ready = {BootProc} /\ Held = {} /\ Pending = {BootProc} /\ readyQueue \in Seq(Threads)
  BY <1>1 DEF Init, Ready, Held, Pending
<1>3. \A t \in Running \ {NoThread} : t = Base
  BY DEF Init, Running
<1>4. ThreadsTypeOK
  BY <1>1, <1>2 DEF Init, ThreadsTypeOK, States
<1>5. QueueInv
  BY <1>1, <1>2 DEF Init, QueueInv
<1>6. CpuInv
  BY <1>1, <1>3, ThreadsAssumption DEF Init, CpuInv, OneProcessorPerThread, Running
<1>7. BootInv /\ CallerInv /\ IdleInv
  BY <1>1, <1>2, ThreadsAssumption DEF Init, BootInv, CallerInv, IdleInv, Threads
<1>8. ComesBackInv /\ CameFromInv
  BY <1>1, <1>2, <1>3 DEF Init, ComesBackInv, CameFromInv
<1>9. QED
  BY <1>4, <1>5, <1>6, <1>7, <1>8 DEF ThreadsInv

-----------------------------------------------------------------------------
(* The steps of a thread in the monitor. *)

MPC == [w \in Workers |-> MonitorPC(w)]
MStarted == {w \in Workers : Started(w)}

LabelOf(l) == IF l = "user" THEN "out" ELSE IF l = "startEnqueue" THEN "start" ELSE l

LEMMA QuietView ==
  ASSUME ThreadsInv, NEW t \in Workers, NEW l, Quiet(t, l), pc[t] # "init"
  PROVE  /\ ThreadsInv'
         /\ MPC[t] = LabelOf(pc[t])
         /\ MPC' = [MPC EXCEPT ![t] = LabelOf(l)]
         /\ MStarted' = MStarted
<1>1. t \in Threads
  BY ThreadsTypes DEF ThreadsInv
<1>2. ThreadsInv' /\ Pending' = Pending /\ Running' = Running
  BY <1>1, QuietInv
<1>3. pc' = [pc EXCEPT ![t] = l] /\ pc \in [Threads -> ThreadPC \cup VisitPC] /\ cont' = cont
  BY DEF Quiet, ThreadsInv, ThreadsTypeOK
<1>4. MonitorPC(t) = LabelOf(pc[t])
  BY DEF Quiet, MonitorPC, LabelOf
<1>5. MonitorPC(t)' = LabelOf(l)
  BY <1>1, <1>3 DEF Quiet, MonitorPC, LabelOf
<1>6. \A w \in Workers : w # t => MonitorPC(w)' = MonitorPC(w) /\ pc'[w] = pc[w]
  BY <1>1, <1>2, <1>3, ThreadsTypes DEF ThreadsInv, MonitorPC
<1>7. MonitorPC(t) # "stop" /\ MonitorPC(t)' # "stop"
  BY <1>4, <1>5 DEF Quiet, LabelOf
<1>8. \A w \in Workers : Started(w)' <=> Started(w)
  BY <1>2, <1>6, <1>7, StartedIs, StartedAfter
<1>9. QED
  BY <1>2, <1>4, <1>5, <1>6, <1>8 DEF MPC, MStarted

(* The steps that the scheduler does not notice.                           *)
LEMMA VisitQuiet ==
  ASSUME ThreadsInv, NEW t \in Workers,
         \/ Enter(t) \/ SpinLock(t, "enter", "check") \/ EnterTake(t) \/ EnterUnlock(t)
         \/ EnterQueue(t) \/ Exit(t) \/ SpinLock(t, "exit", "release")
         \/ ExitRelease(t) \/ ExitUnlock(t)
  PROVE  ThreadsInv' /\ Mon!Next
<1> USE DEF Moves, Keeps, LabelOf, VisitPC
<1>1. CASE Enter(t)
  <2>1. Quiet(t, "enter") /\ pc[t] = "user"
    BY <1>1 DEF Enter, Quiet
  <2>2. Mon!Enter(t)
    BY <1>1, <2>1, QuietView DEF Enter, Mon!Enter, Mon!Goto, MPC, MStarted
  <2>3. QED
    BY <2>1, <2>2, QuietView DEF Mon!Next
<1>2. CASE SpinLock(t, "enter", "check")
  <2>1. Quiet(t, "check") /\ pc[t] = "enter"
    BY <1>2 DEF SpinLock, Quiet
  <2>2. Mon!EnterLock(t)
    BY <1>2, <2>1, QuietView DEF SpinLock, Mon!EnterLock, Mon!Goto, MPC, MStarted
  <2>3. QED
    BY <2>1, <2>2, QuietView DEF Mon!Next, Mon!Inside
<1>3. CASE EnterTake(t)
  <2>1. Quiet(t, "taken") /\ pc[t] = "check"
    BY <1>3 DEF EnterTake, Quiet
  <2>2. Mon!EnterTake(t)
    BY <1>3, <2>1, QuietView DEF EnterTake, Mon!EnterTake, Mon!Goto, MPC, MStarted
  <2>3. QED
    BY <2>1, <2>2, QuietView DEF Mon!Next, Mon!Inside
<1>4. CASE EnterUnlock(t)
  <2>1. Quiet(t, "in") /\ pc[t] = "taken"
    BY <1>4 DEF EnterUnlock, Quiet
  <2>2. Mon!EnterUnlock(t)
    BY <1>4, <2>1, QuietView DEF EnterUnlock, Mon!EnterUnlock, Mon!Goto, MPC,
       MStarted
  <2>3. QED
    BY <2>1, <2>2, QuietView DEF Mon!Next, Mon!Inside
<1>5. CASE EnterQueue(t)
  <2>1. Quiet(t, "queued") /\ pc[t] = "check"
    BY <1>5 DEF EnterQueue, Quiet
  <2>2. Mon!EnterQueue(t)
    BY <1>5, <2>1, QuietView DEF EnterQueue, Mon!EnterQueue, Mon!Goto, MPC, MStarted
  <2>3. QED
    BY <2>1, <2>2, QuietView DEF Mon!Next, Mon!Inside
<1>6. CASE Exit(t)
  <2>1. Quiet(t, "exit") /\ pc[t] = "in"
    BY <1>6 DEF Exit, Quiet
  <2>2. Mon!Exit(t)
    BY <1>6, <2>1, QuietView DEF Exit, monitorVars, Mon!Exit, Mon!Goto, MPC,
       MStarted
  <2>3. QED
    BY <2>1, <2>2, QuietView DEF Mon!Next, Mon!Inside
<1>7. CASE SpinLock(t, "exit", "release")
  <2>1. Quiet(t, "release") /\ pc[t] = "exit"
    BY <1>7 DEF SpinLock, Quiet
  <2>2. Mon!ExitLock(t)
    BY <1>7, <2>1, QuietView DEF SpinLock, Mon!ExitLock, Mon!Goto, MPC, MStarted
  <2>3. QED
    BY <2>1, <2>2, QuietView DEF Mon!Next, Mon!Inside
<1>8. CASE ExitRelease(t)
  <2>1. Quiet(t, "released") /\ pc[t] = "release"
    BY <1>8 DEF ExitRelease, Quiet
  <2>2. Mon!ExitRelease(t)
    BY <1>8, <2>1, QuietView DEF ExitRelease, Mon!ExitRelease, Mon!Goto, MPC,
       MStarted
  <2>3. QED
    BY <2>1, <2>2, QuietView DEF Mon!Next, Mon!Inside
<1>9. CASE ExitUnlock(t)
  <2> DEFINE l == IF waiter[t] = NoThread THEN "user" ELSE "start"
  <2>1. Quiet(t, l) /\ pc[t] = "released"
    BY <1>9 DEF ExitUnlock, Quiet
  <2>2. Mon!ExitUnlock(t)
    BY <1>9, <2>1, QuietView DEF ExitUnlock, Mon!ExitUnlock, Mon!Goto, MPC, MStarted
  <2>3. QED
    BY <2>1, <2>2, QuietView DEF Mon!Next, Mon!Inside
<1>10. QED
  BY <1>1, <1>2, <1>3, <1>4, <1>5, <1>6, <1>7, <1>8, <1>9

LEMMA VisitStops ==
  ASSUME ThreadsInv, NEW t \in Workers, QueuedUnlock(t)
  PROVE  ThreadsInv' /\ Mon!Next
<1>1. Stops(t, "BLOCKED", "enter") /\ pc[t] = "queued" /\ UNCHANGED readyQueue /\ t \in Threads
  BY ThreadsTypes, ThreadsAssumption DEF QueuedUnlock, Stops, ThreadsInv
<1>2. ThreadsInv' /\ Running' = Running /\ Ready' = Ready /\ Held' = Held /\ t \notin Pending'
  BY <1>1, StopsInv DEF Stops, Ready, Held
<1>3. Pending' = Pending
  BY <1>2 DEF Pending
<1>4. MonitorPC(t) = "queued" /\ MonitorPC(t)' = "stop"
  BY <1>1 DEF Stops, MonitorPC, ThreadsInv, ThreadsTypeOK
<1>5. \A w \in Workers : w # t => MonitorPC(w)' = MonitorPC(w) /\ pc'[w] = pc[w]
  BY <1>1, ThreadsTypes DEF Stops, MonitorPC, ThreadsInv, ThreadsTypeOK
<1>6. ~Started(t) /\ ~Started(t)'
  <2>1. pc'[t] = "stop"
    BY <1>1 DEF Stops, ThreadsInv, ThreadsTypeOK
  <2>2. QED
    BY <1>2, <1>4, <2>1, StartedIs, StartedAfter
<1>7. \A w \in Workers : w # t => (Started(w)' <=> Started(w))
  BY <1>2, <1>3, <1>5, StartedIs, StartedAfter
<1>8. MPC[t] = "queued" /\ MPC' = [MPC EXCEPT ![t] = "stop"] /\ MStarted' = MStarted
  BY <1>4, <1>5, <1>6, <1>7 DEF MPC, MStarted
<1>9. Mon!QueuedUnlock(t)
  BY <1>8 DEF QueuedUnlock, Mon!QueuedUnlock, Mon!Goto, MPC, MStarted
<1>10. QED
  BY <1>2, <1>9 DEF Mon!Next, Mon!Inside

(* Who is to be started has stopped, or will, and is not started yet.      *)
LEMMA WaiterSleeps ==
  ASSUME ThreadsInv, MP!IInv, NEW t \in Workers, MonitorPC(t) = "start"
  PROVE  /\ waiter[t] \in Workers /\ waiter[t] # t
         /\ waiter \in [Workers -> Workers \cup {NoThread}]
         /\ MonitorPC(waiter[t]) = "stop" /\ ~Started(waiter[t])
<1>1. /\ waiter \in [Workers -> Workers \cup {NoThread}]
      /\ waiter[t] # NoThread
  BY DEF MP!IInv, MP!Inv, MP!TypeOK, MP!SleepInv
<1>2. waiter[t] \in MP!Picked
  BY <1>1 DEF MP!Picked
<1>3. MonitorPC(waiter[t]) \in {"queued", "stop"} /\ MonitorPC(waiter[t]) # "queued" /\ ~Started(waiter[t])
  BY <1>1, <1>2 DEF MP!IInv, MP!Inv, MP!SleepInv, MP!Asleep
<1>4. QED
  BY <1>1, <1>3

(* Where a thread is that sleeps and was not started. *)
LEMMA SleeperIs ==
  ASSUME ThreadsInv, NEW x \in Workers, MonitorPC(x) = "stop", ~Started(x)
  PROVE  /\ x \in Threads /\ x \notin Pending /\ cont[x] = "enter"
         /\ state[x] \notin Ended \cup {"UNBORN", "NASCENT"}
         /\ x \in Running => pc[x] \in Leaving /\ state[x] = "RUNNING"
         /\ pc[x] \in Leaving \cup Arriving
<1>1. x \in Threads /\ x # NoThread
  BY ThreadsTypes DEF ThreadsInv
<1>2. cont[x] = "enter" /\ pc[x] \in Leaving \cup Arriving
  BY <1>1 DEF MonitorPC, ThreadsInv, ThreadsTypeOK
<1>3. x \notin Pending /\ (x \in Running => pc[x] \notin Arriving)
  BY StartedIs
<1>4. state[x] \notin Ended \cup {"UNBORN", "NASCENT"}
  BY <1>1, <1>2 DEF ThreadsInv, CallerInv
<1>5. x \in Running => state[x] = "RUNNING"
  BY <1>1, <1>3 DEF ThreadsInv, CpuInv
<1>6. QED
  BY <1>1, <1>2, <1>3, <1>4, <1>5

(* The two halves of uthread_start: the monitor sees the second.           *)
LEMMA VisitStart ==
  ASSUME ThreadsInv, MP!IInv, NEW t \in Workers, ExitStart(t)
  PROVE  ThreadsInv' /\ SameView
<1> DEFINE x == waiter[t]
<1>1. /\ t \in Threads /\ t \in Running /\ pc[t] = "start"
      /\ pc' = [pc EXCEPT ![t] = "startEnqueue"]
      /\ state' = [state EXCEPT ![x] = IF @ = "RUNNING" THEN @ ELSE "RUNABLE"]
      /\ UNCHANGED <<joiner, joinLock, readyQueue, cur, from, to, stopping, cont>>
  BY ThreadsTypes DEF ExitStart, Moves, ThreadsInv
<1>2. MonitorPC(t) = "start"
  BY <1>1 DEF MonitorPC
<1>3. x \in Workers /\ x # t /\ MonitorPC(x) = "stop" /\ ~Started(x)
  BY <1>2, WaiterSleeps
<1>4. /\ x \in Threads /\ x \notin Pending /\ cont[x] = "enter"
      /\ state[x] \notin Ended \cup {"UNBORN", "NASCENT"}
      /\ x \in Running => state[x] = "RUNNING"
  BY <1>3, SleeperIs
<1> HIDE DEF x
<1>5. \A u \in Threads : /\ u # x \/ u \in Running => state'[u] = state[u]
                         /\ state'[u] \in Ended <=> state[u] \in Ended
                         /\ state'[u] = "UNBORN" <=> state[u] = "UNBORN"
                         /\ state'[u] = "NASCENT" <=> state[u] = "NASCENT"
  BY <1>1, <1>4 DEF ThreadsInv, ThreadsTypeOK
<1>6. Running' = Running /\ Ready' = Ready /\ Held' = Held /\ Pending' = Pending
  BY <1>1 DEF Running, Ready, Held, Pending
<1>7. ThreadsTypeOK'
  BY <1>1 DEF ThreadsInv, ThreadsTypeOK, States
<1>8. QueueInv'
  BY <1>1, <1>6 DEF ThreadsInv, ThreadsTypeOK, QueueInv
<1>9. CpuInv'
  BY <1>1, <1>5, <1>6, ThreadsTypes DEF ThreadsInv, ThreadsTypeOK, CpuInv,
     OneProcessorPerThread
<1>10. BootInv'
  BY <1>1, <1>5, ThreadsAssumption DEF ThreadsInv, ThreadsTypeOK, BootInv, Threads
<1>11. ComesBackInv' /\ IdleInv'
  BY <1>1, <1>5, <1>6, ThreadsTypes DEF ThreadsInv, ThreadsTypeOK, ComesBackInv,
     IdleInv, Threads
<1>12. CallerInv'
  BY <1>1, <1>5 DEF ThreadsInv, ThreadsTypeOK, CallerInv
<1>13. CameFromInv'
  BY <1>1, <1>5, <1>6 DEF ThreadsInv, ThreadsTypeOK, CameFromInv
<1>14. ThreadsInv'
  BY <1>7, <1>8, <1>9, <1>10, <1>11, <1>12, <1>13 DEF ThreadsInv
<1>15. \A w \in Workers : MonitorPC(w)' = MonitorPC(w)
  BY <1>1, ThreadsTypes DEF ThreadsInv, ThreadsTypeOK, MonitorPC
<1>16. \A w \in Workers : (w \in Running /\ pc[w] \in Arriving)'
                          <=> (w \in Running /\ pc[w] \in Arriving)
  BY <1>1, <1>6, ThreadsTypes DEF ThreadsInv, ThreadsTypeOK
<1>17. QED
  BY <1>6, <1>14, <1>15, <1>16, SameViewIf

LEMMA VisitEnqueue ==
  ASSUME ThreadsInv, MP!IInv, NEW t \in Workers, ExitEnqueue(t)
  PROVE  ThreadsInv' /\ Mon!Next
<1> DEFINE x == waiter[t]
<1>1. /\ t \in Threads /\ t \in Running /\ pc[t] = "startEnqueue"
      /\ pc' = [pc EXCEPT ![t] = "user"]
      /\ readyQueue' = Append(readyQueue, x)
      /\ waiter' = [waiter EXCEPT ![t] = NoThread]
      /\ UNCHANGED <<state, joiner, joinLock, cur, from, to, stopping, cont>>
      /\ UNCHANGED <<holder, monLock, waiters, entries>>
  BY ThreadsTypes DEF ExitEnqueue, Moves, ThreadsInv
<1>2. MonitorPC(t) = "start"
  BY <1>1 DEF MonitorPC
<1>3. x \in Workers /\ x # t /\ MonitorPC(x) = "stop" /\ ~Started(x)
  BY <1>2, WaiterSleeps
<1>4. /\ x \in Threads /\ x \notin Pending /\ cont[x] = "enter"
      /\ state[x] \notin Ended \cup {"UNBORN"}
      /\ x \in Running => pc[x] \in Leaving
  BY <1>3, SleeperIs
<1> HIDE DEF x
<1>5. Running' = Running /\ Held' = Held
  BY <1>1 DEF Running, Held
<1>6. /\ Ready' = Ready \cup {x} /\ readyQueue' \in Seq(Threads)
      /\ (\A i, j \in DOMAIN readyQueue : readyQueue[i] = readyQueue[j] => i = j)'
  BY <1>1, <1>4, ReadyAppend, AppendProperties DEF Pending, ThreadsInv,
     ThreadsTypeOK
<1>7. Pending' = Pending \cup {x}
  BY <1>5, <1>6 DEF Pending
<1>8. ThreadsTypeOK'
  BY <1>1, <1>6 DEF ThreadsInv, ThreadsTypeOK
<1>9. QueueInv'
  BY <1>1, <1>4, <1>5, <1>6 DEF ThreadsInv, ThreadsTypeOK, QueueInv, Pending
<1>10. CpuInv'
  BY <1>1, <1>5, ThreadsTypes DEF ThreadsInv, ThreadsTypeOK, CpuInv,
     OneProcessorPerThread
<1>11. BootInv' /\ CallerInv'
  BY <1>1 DEF ThreadsInv, ThreadsTypeOK, BootInv, CallerInv
<1>12. ComesBackInv' /\ IdleInv'
  BY <1>1, <1>3, <1>4, <1>5, <1>7, ThreadsTypes DEF ThreadsInv, ThreadsTypeOK,
     ComesBackInv, IdleInv, Threads
<1>13. CameFromInv'
  BY <1>1, <1>5 DEF ThreadsInv, ThreadsTypeOK, CameFromInv
<1>14. ThreadsInv'
  BY <1>8, <1>9, <1>10, <1>11, <1>12, <1>13 DEF ThreadsInv
<1>15. /\ MonitorPC(t)' = "out"
       /\ \A w \in Workers : w # t => MonitorPC(w)' = MonitorPC(w) /\ pc'[w] = pc[w]
  BY <1>1, ThreadsTypes DEF ThreadsInv, ThreadsTypeOK, MonitorPC
<1>16. \A w \in Workers : Started(w)' <=> Started(w) \/ w = x
  BY <1>2, <1>3, <1>5, <1>7, <1>14, <1>15, StartedIs, StartedAfter
<1>17. /\ MPC[t] = "start" /\ MPC' = [MPC EXCEPT ![t] = "out"]
       /\ MStarted' = MStarted \cup {x}
  BY <1>2, <1>3, <1>15, <1>16 DEF MPC, MStarted
<1>18. Mon!ExitStart(t)
  BY <1>1, <1>17 DEF x, Mon!ExitStart, Mon!Goto, MPC, MStarted
<1>19. QED
  BY <1>14, <1>18 DEF Mon!Next, Mon!Inside

-----------------------------------------------------------------------------
LEMMA SameViewStutters ==
  ASSUME SameView, UNCHANGED <<holder, monLock, waiters, waiter, entries>>
  PROVE  UNCHANGED Mon!vars
<1>1. MPC' = MPC /\ MStarted' = MStarted
  BY DEF SameView, MPC, MStarted
<1>2. QED
  BY <1>1 DEF Mon!vars, MPC, MStarted

LEMMA ComesBackIsStop ==
  ASSUME NEW t \in Workers, ComesBack(t), UNCHANGED monitorVars
  PROVE  Mon!Next
<1>1. /\ MPC[t] = "stop" /\ t \in MStarted
      /\ MPC' = [MPC EXCEPT ![t] = "enter"] /\ MStarted' = MStarted \ {t}
  BY DEF ComesBack, MPC, MStarted
<1>2. Mon!Stop(t)
  BY <1>1 DEF monitorVars, Mon!Stop, Mon!Goto, MPC, MStarted
<1>3. QED
  BY <1>2 DEF Mon!Next, Mon!Inside

LEMMA PackageStep ==
  ASSUME MonitorClient, ThreadsInv, Next, UNCHANGED monitorVars
  PROVE  ThreadsInv' /\ [Mon!Next]_Mon!vars
<1>1. ASSUME ThreadsInv', SameView PROVE ThreadsInv' /\ [Mon!Next]_Mon!vars
  BY <1>1, SameViewStutters DEF monitorVars
<1>2. CASE Boot
  BY <1>1, <1>2, MonitorBoot
<1>3. CASE MainReturn
  BY <1>3 DEF MainReturn, MonitorClient
<1>4. CASE AfterExit
  <2>1. UNCHANGED vars
    BY <1>4 DEF AfterExit
  <2>2. ThreadsInv'
    <3>1. Running' = Running /\ Ready' = Ready /\ Held' = Held /\ Pending' = Pending
      BY <2>1 DEF vars, Running, Ready, Held, Pending
    <3>2. ThreadsTypeOK' /\ QueueInv' /\ BootInv' /\ CallerInv'
      BY <2>1, <3>1 DEF vars, ThreadsInv, ThreadsTypeOK, QueueInv, BootInv,
         CallerInv
    <3>3. CpuInv' /\ ComesBackInv' /\ IdleInv' /\ CameFromInv'
      BY <2>1, <3>1 DEF vars, ThreadsInv, CpuInv, OneProcessorPerThread,
         ComesBackInv, IdleInv, CameFromInv, Threads
    <3>4. QED
      BY <3>2, <3>3 DEF ThreadsInv
  <2>3. SameView
    BY <2>1 DEF vars, SameView, MonitorPC, Started, Switching, Running, Ready
  <2>4. QED
    BY <1>1, <2>2, <2>3
<1>5. ASSUME NEW t \in Threads, Package(t) PROVE ThreadsInv' /\ [Mon!Next]_Mon!vars
  <2>1. CASE Stop(t)
    BY <1>1, <2>1, MonitorStop
  <2>2. CASE SwitchSelf(t)
    BY <1>1, <2>2, MonitorSwitchSelf, ComesBackIsStop
  <2>3. CASE Resume(t)
    BY <1>1, <2>3, MonitorResume, ComesBackIsStop
  <2>4. CASE FromDying(t) \/ FromLive(t) \/ ReapLock(t) \/ ReapNoJoiner(t) \/ ReapUnlock(t)
    BY <1>1, <2>4, MonitorArrives
  <2>5. CASE ReapDead(t)
    BY <1>1, <2>5, MonitorReapDead
  <2>6. ~(ReapFree(t) \/ ReapStart(t) \/ ReapEnqueue(t))
    <3>1. pc[t] \in ReapPC => joiner[from[t]] = NoThread
      BY DEF ThreadsInv, ThreadsTypeOK, CameFromInv
    <3>2. QED
      BY <3>1, ThreadsAssumption DEF ReapFree, ReapStart, ReapEnqueue, ThreadsInv,
         ThreadsTypeOK
  <2>7. ~(JoinLock(t) \/ JoinWait(t) \/ JoinDead(t) \/ JoinUnlock(t) \/ Joined(t)
          \/ DetachLock(t) \/ DetachSet(t) \/ DetachUnlock(t) \/ DetachFree(t))
    BY DEF ThreadsInv, ThreadsTypeOK, JoinLock, JoinWait, JoinDead, JoinUnlock,
       Joined, DetachLock, DetachSet, DetachUnlock, DetachFree, LockTarget,
       SetJoiner
  <2>8. QED
    BY <1>5, <2>1, <2>2, <2>3, <2>4, <2>5, <2>6, <2>7 DEF Package, Reap
<1>6. ASSUME NEW t \in Threads, Client(t) PROVE ThreadsInv' /\ [Mon!Next]_Mon!vars
  <2>1. ~\E w \in Workers : Join(t, w) \/ Detach(t, w) \/ HasJoiner(t, w)
    BY DEF MonitorClient, Join, Detach, HasJoiner
  <2>2. QED
    BY <1>1, <1>6, <2>1, MonitorYield, MonitorCreate DEF Client
<1>7. ASSUME NEW p \in Procs, Switch(p) PROVE ThreadsInv' /\ [Mon!Next]_Mon!vars
  BY <1>1, <1>7, MonitorSwitch
<1>8. QED
  BY <1>2, <1>3, <1>4, <1>5, <1>6, <1>7 DEF Next

LEMMA MonitorStep ==
  ASSUME MonitorClient, ThreadsInv, MP!IInv, [MonitorNext]_allVars
  PROVE  ThreadsInv' /\ [Mon!Next]_Mon!vars
<1>1. CASE Next /\ UNCHANGED monitorVars
  BY <1>1, PackageStep
<1>2. ASSUME NEW t \in Workers, Visit(t) PROVE ThreadsInv' /\ [Mon!Next]_Mon!vars
  <2>1. CASE QueuedUnlock(t)
    BY <2>1, VisitStops
  <2>2. CASE ExitStart(t)
    BY <2>2, VisitStart, SameViewStutters DEF ExitStart, monitorVars
  <2>3. CASE ExitEnqueue(t)
    BY <2>3, VisitEnqueue
  <2>4. QED
    BY <1>2, <2>1, <2>2, <2>3, VisitQuiet DEF Visit
<1>3. CASE UNCHANGED allVars
  <2>1. Running' = Running /\ Ready' = Ready /\ Held' = Held /\ Pending' = Pending
    BY <1>3 DEF allVars, vars, Running, Ready, Held, Pending
  <2>2. ThreadsTypeOK' /\ QueueInv' /\ BootInv' /\ CallerInv'
    BY <1>3, <2>1 DEF allVars, vars, ThreadsInv, ThreadsTypeOK, QueueInv, BootInv,
       CallerInv
  <2>3. CpuInv' /\ ComesBackInv' /\ IdleInv' /\ CameFromInv'
    BY <1>3, <2>1 DEF allVars, vars, ThreadsInv, CpuInv, OneProcessorPerThread,
       ComesBackInv, IdleInv, CameFromInv, Threads
  <2>4. SameView
    BY <1>3 DEF allVars, vars, SameView, MonitorPC, Started, Switching, Running,
       Ready
  <2>5. QED
    BY <1>3, <2>2, <2>3, <2>4, SameViewStutters DEF allVars, monitorVars, ThreadsInv
<1>4. QED
  BY <1>1, <1>2, <1>3 DEF MonitorNext

(* The monitor starts as Monitor says, and Monitor's assumption holds.     *)
LEMMA MonitorStarts == Init /\ MonitorInit => ThreadsInv /\ Mon!Init
<1> SUFFICES ASSUME Init, MonitorInit PROVE ThreadsInv /\ Mon!Init
  OBVIOUS
<1>1. ThreadsInv
  BY MonitorThreadsStart
<1>2. \A w \in Workers : pc[w] = "switched" /\ cont[w] = "user"
  BY ThreadsAssumption DEF Init, Threads
<1>3. \A w \in Workers : MonitorPC(w) = "out" /\ ~Started(w)
  BY <1>2 DEF MonitorPC, Started
<1>4. QED
  BY <1>1, <1>3 DEF MonitorInit, Mon!Init

LEMMA MonitorAssumption == MP!ClientsAssumption
BY ThreadsAssumption, EntriesAssumption DEF MP!ClientsAssumption, Threads

LEMMA SameMonitor == /\ Mon!Init <=> MP!Init
                     /\ [Mon!Next]_Mon!vars <=> [MP!Next]_MP!vars
<1>1. Mon!Next <=> MP!Next
  BY DEF Mon!Next, MP!Next, Mon!Enter, MP!Enter, Mon!Inside, MP!Inside,
     Mon!EnterLock, MP!EnterLock, Mon!EnterTake, MP!EnterTake, Mon!EnterUnlock,
     MP!EnterUnlock, Mon!EnterQueue, MP!EnterQueue, Mon!QueuedUnlock,
     MP!QueuedUnlock, Mon!Stop, MP!Stop, Mon!Exit, MP!Exit, Mon!ExitLock,
     MP!ExitLock, Mon!ExitRelease, MP!ExitRelease, Mon!ExitUnlock, MP!ExitUnlock,
     Mon!ExitStart, MP!ExitStart, Mon!Goto, MP!Goto
<1>2. UNCHANGED Mon!vars <=> UNCHANGED MP!vars
  BY DEF Mon!vars, MP!vars
<1>3. Mon!Init <=> MP!Init
  BY DEF Mon!Init, MP!Init
<1>4. QED
  BY <1>1, <1>2, <1>3

(* The invariant of the threads and that of Monitor, seen through the      *)
(* mapping, need each other.                                               *)
THEOREM MonitorInvariance ==
  ASSUME MonitorClient
  PROVE  MonitorSpec => [](ThreadsInv /\ MP!IInv)
<1>1. Init /\ MonitorInit => ThreadsInv /\ MP!IInv
  BY MonitorStarts, SameMonitor, MonitorAssumption, MP!InitInv
<1>2. ThreadsInv /\ MP!IInv /\ [MonitorNext]_allVars => (ThreadsInv /\ MP!IInv)'
  <2> SUFFICES ASSUME ThreadsInv, MP!IInv, [MonitorNext]_allVars
               PROVE  ThreadsInv' /\ MP!IInv'
    OBVIOUS
  <2>1. ThreadsInv' /\ [Mon!Next]_Mon!vars
    BY MonitorStep
  <2>2. [MP!Next]_MP!vars
    BY <2>1, SameMonitor
  <2>3. QED
    BY <2>1, <2>2, MonitorAssumption, MP!NextInv
<1>3. QED
  BY <1>1, <1>2, PTL DEF MonitorSpec

(* No two processors run the same thread, whoever is woken by a monitor.   *)
THEOREM MonitorOneProcessorPerThread ==
  ASSUME MonitorClient
  PROVE  MonitorSpec => []OneProcessorPerThread
<1>1. ThreadsInv => OneProcessorPerThread
  BY DEF ThreadsInv, CpuInv
<1>2. QED
  BY <1>1, MonitorInvariance, PTL

(* A thread that is woken is put on the ready queue once, even if it has   *)
(* not left its processor yet.                                             *)
THEOREM MonitorQueuedOnce ==
  ASSUME MonitorClient
  PROVE  MonitorSpec => []QueuedOnce
<1>1. ThreadsInv => QueuedOnce
  <2> SUFFICES ASSUME ThreadsInv PROVE QueuedOnce
    OBVIOUS
  <2>1. \A t \in Threads : Switching(t) => to[t] # NoThread /\ to[t] \in Held
    BY DEF ThreadsInv, QueueInv, Switching, Held
  <2>2. QED
    BY <2>1 DEF ThreadsInv, QueueInv, QueuedOnce
<1>2. QED
  BY <1>1, MonitorInvariance, PTL

(* The assertion of uthread_stop holds although the workers block: the     *)
(* pthread_base threads never do.                                          *)
THEOREM MonitorStopAssertion ==
  ASSUME MonitorClient
  PROVE  MonitorSpec => []StopFindsThread
<1>1. ThreadsInv => StopFindsThread
  BY IdleThreadIsReady DEF ThreadsInv, ThreadsTypeOK, StopFindsThread
<1>2. QED
  BY <1>1, MonitorInvariance, PTL

(* The monitor on the thread package implements Monitor: a thread that was *)
(* started comes back from uthread_stop, once for each start.              *)
THEOREM MonitorImplementation ==
  ASSUME MonitorClient
  PROVE  MonitorSpec => ImplementsMonitor
<1>1. Init /\ MonitorInit => Mon!Init
  BY MonitorStarts
<1>2. ThreadsInv /\ MP!IInv /\ [MonitorNext]_allVars => [Mon!Next]_Mon!vars
  BY MonitorStep
<1>3. QED
  BY <1>1, <1>2, MonitorInvariance, PTL DEF MonitorSpec, ImplementsMonitor, Mon!Spec

(* So its assertion holds and no wakeup is lost, however the processors    *)
(* switch between the threads.                                             *)
THEOREM MonitorOnThreads ==
  ASSUME MonitorClient
  PROVE  MonitorSpec => [](Mon!HolderIsInside /\ Mon!NoLostWakeup)
<1>1. MP!IInv => Mon!HolderIsInside /\ Mon!NoLostWakeup
  <2> SUFFICES ASSUME MP!IInv PROVE Mon!HolderIsInside /\ Mon!NoLostWakeup
    OBVIOUS
  <2>1. Mon!HolderIsInside
    BY DEF MP!IInv, MP!Inv, MP!HolderIsInside, Mon!HolderIsInside, MP!Critical,
       Mon!Critical
  <2>2. Mon!NoLostWakeup
    BY DEF MP!IInv, MP!Inv, MP!SleepInv, MP!AwakeInv, MP!Awake, Mon!Awake,
       MP!Waiting, Mon!Waiting, MP!Picked, MP!Asleep, Mon!NoLostWakeup
  <2>3. QED
    BY <2>1, <2>2
<1>2. QED
  BY <1>1, MonitorInvariance, PTL
=============================================================================
