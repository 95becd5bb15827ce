------------------------- MODULE ReaderWriterProofs -------------------------
(***************************************************************************)
(* The reader/writer test for any threads, any of them writers, and any    *)
(* number of rounds: from the monitor's invariant to the counters.         *)
(***************************************************************************)
EXTENDS ReaderWriter, MonitorProofs, FiniteSetTheorems

(* Where a thread of the test with the monitor holds it, and where it has  *)
(* written c0 and not yet c1.                                              *)
Writing == {"store c0", "load c1", "store c1", "recheck"}
Holding == Writing \cup {"compare", "leave"}
Apart == {"load c1", "store c1"}

TestTypeOK ==
  /\ c0 \in Nat /\ c1 \in Nat /\ error \in BOOLEAN /\ type \in 0..2
  /\ at \in [Clients -> {"loop", "load c0"} \cup Holding]
  /\ reg \in [Clients -> Nat]

(* The rounds of t that have stored c0, and all of them of all writers.    *)
Round(t) == IF at[t] \in {"load c0", "store c0"} THEN entries[t] - 1 ELSE entries[t]
Written == {w \in Writers \X (1..Count) : w[2] <= Round(w[1])}

(* Only the holder of the monitor works on the counters, what it has       *)
(* loaded stays true meanwhile, and c0 counts the rounds that stored it.   *)
PlaceInv == \A t \in Clients :
  /\ at[t] \in Holding => pc[t] = "in"
  /\ at[t] \in Writing => t \in Writers
  /\ at[t] \in {"load c0", "store c0"} => entries[t] > 0
  /\ entries[t] <= Count

CounterInv ==
  /\ \A t \in Clients : at[t] \in Apart => c0 = c1 + 1
  /\ (\A t \in Clients : at[t] \notin Apart) => c0 = c1
  /\ \A t \in Clients : at[t] \in {"store c0", "compare"} => reg[t] = c0
  /\ \A t \in Clients : at[t] = "store c1" => reg[t] = c1
  /\ ~error

CountInv == c0 = Cardinality(Written)

TestInv == IInv /\ TestTypeOK /\ (type = 1 => PlaceInv /\ CounterInv /\ CountInv)

USE DEF Writing, Holding, Apart, Count, Goto

-----------------------------------------------------------------------------
(* No two threads hold the monitor. *)
LEMMA OneInside ==
  ASSUME IInv, NEW t \in Clients, NEW u \in Clients, pc[t] = "in", pc[u] = "in"
  PROVE  t = u
BY DEF IInv, Inv, HolderIsInside, Critical

LEMMA WrittenFinite == IsFiniteSet(Written) /\ IsFiniteSet(Writers \X (1..Count))
<1>1. Count \in Nat /\ IsFiniteSet(1..Count) /\ IsFiniteSet(Writers)
  BY ClientsAssumption, WritersAssumption, FS_Interval
<1>2. IsFiniteSet(Writers \X (1..Count))
  BY <1>1, FS_Product
<1>3. Written \subseteq Writers \X (1..Count)
  BY DEF Written
<1>4. QED
  BY <1>2, <1>3, FS_Subset

LEMMA TestInitInv == TestInit => TestInv
<1> SUFFICES ASSUME TestInit PROVE TestInv
  OBVIOUS
<1>1. IInv
  BY InitInv DEF TestInit
<1>2. \A t \in Clients : at[t] = "loop" /\ entries[t] = 0
  BY DEF TestInit, Init
<1>3. TestTypeOK
  BY DEF TestInit, TestTypeOK
<1>4. PlaceInv /\ CounterInv
  BY <1>2, ClientsAssumption DEF TestInit, PlaceInv, CounterInv
<1>5. Written = {}
  <2>1. \A t \in Writers : Round(t) = 0
    BY WritersAssumption DEF TestInit, Init, Round
  <2>2. QED
    BY <2>1 DEF Written
<1>6. QED
  BY <1>1, <1>3, <1>4, <1>5, FS_EmptySet DEF TestInv, CountInv, TestInit

(* The steps of the test are steps of the monitor, or leave it alone but   *)
(* for the round's number.                                                 *)
LEMMA MonitorKept ==
  ASSUME IInv, NEW t \in Clients, Step(t)
  PROVE  IInv'
<1>1. CASE UNCHANGED vars
  BY <1>1, NextInv
<1>2. CASE Enter(t) \/ Inside(t)
  BY <1>2, NextInv DEF Next
<1>3. CASE /\ entries[t] < Count
           /\ entries' = [entries EXCEPT ![t] = @ + 1]
           /\ UNCHANGED <<holder, lock, waiters, started, pc, waiter>>
  <2>1. Waiting' = Waiting /\ Picked' = Picked
    BY <1>3 DEF Waiting, Picked
  <2>2. entries[t] + 1 \in Nat
    BY DEF IInv, TypeOK
  <2>3. TypeOK'
    BY <1>3, <2>2 DEF IInv, TypeOK
  <2>4. HolderIsInside' /\ LockInv' /\ AwakeInv'
    BY <1>3 DEF IInv, Inv, HolderIsInside, LockInv, AwakeInv, Awake
  <2>5. SleepInv'
    BY <1>3, <2>1 DEF IInv, Inv, SleepInv
  <2>6. QED
    BY <2>3, <2>4, <2>5 DEF IInv, Inv
<1>4. QED
  BY <1>1, <1>2, <1>3 DEF Step, Abort, InMonitor, Begin, ReadC0, WriteLoadC0,
     WriteStoreC0, WriteLoadC1, WriteStoreC1, WriteRecheck, Compare, Leave, Body,
     Inside

LEMMA TypesKept ==
  ASSUME TestInv, NEW t \in Clients, Step(t)
  PROVE  TestTypeOK'
<1>1. c0 \in Nat /\ c1 \in Nat /\ reg[t] \in Nat /\ error \in BOOLEAN
  BY DEF TestInv, TestTypeOK
<1>2. c0' \in Nat /\ c1' \in Nat /\ type' = type
  <2>1. c0' \in {c0, reg[t] + 1} /\ c1' \in {c1, reg[t] + 1} /\ type' = type
    BY DEF Step, Abort, InMonitor, Begin, ReadC0, WriteLoadC0, WriteStoreC0,
       WriteLoadC1, WriteStoreC1, WriteRecheck, Compare, Leave, testVars
  <2>2. QED
    BY <1>1, <2>1
<1>3. reg' = reg \/ \E n \in Nat : reg' = [reg EXCEPT ![t] = n]
  BY <1>1 DEF Step, Abort, InMonitor, Begin, ReadC0, WriteLoadC0, WriteStoreC0,
     WriteLoadC1, WriteStoreC1, WriteRecheck, Compare, Leave, testVars
<1>4. at' = at \/ \E p \in {"loop", "load c0"} \cup Holding : at' = [at EXCEPT ![t] = p]
  BY DEF Step, Abort, InMonitor, Begin, ReadC0, WriteLoadC0, WriteStoreC0,
     WriteLoadC1, WriteStoreC1, WriteRecheck, Compare, Leave, testVars, To
<1>5. error' = error \/ error' = (error \/ reg[t] # c1)
  BY DEF Step, Abort, InMonitor, Begin, ReadC0, WriteLoadC0, WriteStoreC0,
     WriteLoadC1, WriteStoreC1, WriteRecheck, Compare, Leave, testVars
<1>6. error' \in BOOLEAN
  BY <1>1, <1>5
<1>7. QED
  BY <1>2, <1>3, <1>4, <1>6 DEF TestInv, TestTypeOK

-----------------------------------------------------------------------------
(* From here on the test with the monitor, step by step. *)
Sync == TestInv /\ type = 1
Good == PlaceInv /\ CounterInv /\ CountInv

LEMMA SyncFacts ==
  ASSUME Sync
  PROVE  /\ IInv /\ TestTypeOK /\ PlaceInv /\ CounterInv /\ CountInv
         /\ \A t \in Clients : InsideMonitor(t)
         /\ entries \in [Clients -> Nat]
         /\ \A t, u \in Clients : at[t] \in Holding /\ at[u] \in Holding => t = u
<1>1. IInv /\ TestTypeOK /\ PlaceInv /\ CounterInv /\ CountInv
  BY DEF Sync, TestInv
<1>2. \A t \in Clients : InsideMonitor(t)
  BY DEF Sync, InsideMonitor
<1>3. entries \in [Clients -> Nat]
  BY <1>1 DEF IInv, TypeOK
<1>4. QED
  BY <1>1, <1>2, <1>3, OneInside DEF PlaceInv

LEMMA SameCount ==
  ASSUME CountInv, c0' = c0, \A u \in Writers : Round(u)' = Round(u)
  PROVE  CountInv'
BY DEF CountInv, Written

LEMMA PackageStep ==
  ASSUME Sync, NEW t \in Clients, Abort(t) \/ InMonitor(t)
  PROVE  Good'
<1>1. /\ UNCHANGED <<c0, c1, at, reg, error, entries>>
      /\ \A u \in Clients : pc[u] = "in" => pc'[u] = "in"
  BY SyncFacts DEF Abort, InMonitor, testVars, vars, EnterLock, EnterTake,
     EnterUnlock, EnterQueue, QueuedUnlock, Stop, ExitLock, ExitRelease, ExitUnlock,
     ExitStart, IInv, TypeOK
<1>2. PlaceInv' /\ CounterInv'
  BY <1>1, SyncFacts DEF PlaceInv, CounterInv
<1>3. CountInv'
  BY <1>1, SyncFacts, SameCount DEF Round
<1>4. QED
  BY <1>2, <1>3 DEF Good

LEMMA BeginStep ==
  ASSUME Sync, NEW t \in Clients, Begin(t)
  PROVE  Good'
<1>1. /\ at[t] = "loop" /\ at' = [at EXCEPT ![t] = "load c0"]
      /\ entries[t] < Count /\ entries' = [entries EXCEPT ![t] = @ + 1]
      /\ \A u \in Clients : pc[u] = "in" => pc'[u] = "in"
      /\ UNCHANGED <<c0, c1, reg, error>>
  BY SyncFacts DEF Begin, Enter, To, IInv, TypeOK
<1>2. /\ \A u \in Clients \ {t} : at'[u] = at[u] /\ entries'[u] = entries[u]
      /\ at'[t] = "load c0" /\ entries'[t] = entries[t] + 1
      /\ \A u \in Clients : entries[u] \in Nat
      /\ MaxEntries \in Nat
  BY <1>1, SyncFacts, ClientsAssumption DEF TestTypeOK
<1>3. entries[t] \in Nat /\ entries[t] + 1 <= MaxEntries /\ entries[t] + 1 > 0
  <2>1. entries[t] \in Nat /\ MaxEntries \in Nat /\ entries[t] < MaxEntries
    BY <1>1, <1>2
  <2>2. QED
    BY <2>1
<1>4. PlaceInv'
  <2>1. PlaceInv
    BY SyncFacts
  <2>2. ASSUME NEW u \in Clients, u # t
        PROVE  /\ at'[u] \in Holding => pc'[u] = "in"
               /\ at'[u] \in Writing => u \in Writers
               /\ at'[u] \in {"load c0", "store c0"} => entries'[u] > 0
               /\ entries'[u] <= Count
    BY <1>1, <1>2, <2>1, <2>2 DEF PlaceInv
  <2>3. entries'[t] > 0 /\ entries'[t] <= Count
    BY <1>2, <1>3
  <2>4. QED
    BY <1>2, <2>2, <2>3 DEF PlaceInv
<1>5. CounterInv'
  BY <1>1, <1>2, SyncFacts DEF CounterInv
<1>6. \A u \in Writers : Round(u)' = Round(u)
  <2>1. Round(t)' = Round(t)
    <3>1. at[t] = "loop" /\ at'[t] = "load c0"
      BY <1>1, <1>2
    <3>2. entries'[t] = entries[t] + 1
      BY <1>2
    <3>3. entries'[t] - 1 = entries[t]
      BY <1>3, <3>2
    <3>4. QED
      BY <3>1, <3>3 DEF Round
  <2>2. ASSUME NEW u \in Clients, u # t PROVE Round(u)' = Round(u)
    BY <1>2, <2>2 DEF Round
  <2>3. QED
    BY <2>1, <2>2, WritersAssumption
<1>7. QED
  BY <1>1, <1>4, <1>5, <1>6, SyncFacts, SameCount DEF Good

(* The steps of read and write that change neither counter. *)
LoadStep(t) == ReadC0(t) \/ WriteLoadC0(t) \/ WriteLoadC1(t) \/ WriteRecheck(t) \/ Compare(t)

LEMMA LoadSteps ==
  ASSUME Sync, NEW t \in Clients, LoadStep(t)
  PROVE  Good'
<1>1. /\ pc[t] = "in" /\ UNCHANGED <<pc, entries, c0, c1>>
      /\ at \in [Clients -> {"loop", "load c0"} \cup Holding]
  BY SyncFacts DEF LoadStep, ReadC0, WriteLoadC0, WriteLoadC1, WriteRecheck,
     Compare, Body, vars, TestTypeOK
<1>2. \A u \in Clients : u # t => at[u] \notin Holding
  BY <1>1, SyncFacts, OneInside DEF PlaceInv
<1>3. PlaceInv'
  BY <1>1, SyncFacts DEF LoadStep, ReadC0, WriteLoadC0, WriteLoadC1, WriteRecheck,
     Compare, To, Body, PlaceInv
<1>4. CounterInv'
  <2>1. /\ \A u \in Clients \ {t} : at'[u] = at[u] /\ reg'[u] = reg[u]
        /\ at[t] \in Apart <=> at'[t] \in Apart
    BY <1>1, SyncFacts DEF LoadStep, ReadC0, WriteLoadC0, WriteLoadC1, WriteRecheck,
       Compare, To, Body, TestTypeOK
  <2>2. /\ at'[t] \in {"store c0", "compare"} => reg'[t] = c0
        /\ at'[t] = "store c1" => reg'[t] = c1
    BY <1>1, SyncFacts DEF LoadStep, ReadC0, WriteLoadC0, WriteLoadC1, WriteRecheck,
       Compare, To, TestTypeOK
  <2>3. ~error'
    <3>1. CASE Compare(t)
      <4>1. reg[t] = c0 /\ at[t] = "compare"
        BY <3>1, SyncFacts DEF Compare, Body, CounterInv
      <4>2. c0 = c1
        BY <1>2, <4>1, SyncFacts DEF CounterInv
      <4>3. ~error /\ error' = (error \/ reg[t] # c1)
        BY <3>1, SyncFacts DEF Compare, CounterInv
      <4>4. QED
        BY <4>1, <4>2, <4>3
    <3>2. CASE ~Compare(t)
      BY <3>2, SyncFacts DEF LoadStep, ReadC0, WriteLoadC0, WriteLoadC1,
         WriteRecheck, CounterInv
    <3>3. QED
      BY <3>1, <3>2
  <2>4. QED
    BY <1>1, <2>1, <2>2, <2>3, SyncFacts DEF CounterInv
<1>5. \A u \in Writers : Round(u)' = Round(u)
  BY <1>1, SyncFacts, WritersAssumption DEF LoadStep, ReadC0, WriteLoadC0,
     WriteLoadC1, WriteRecheck, Compare, To, Body, Round
<1>6. QED
  BY <1>1, <1>3, <1>4, <1>5, SyncFacts, SameCount DEF Good

LEMMA StoreC0Step ==
  ASSUME Sync, NEW t \in Clients, WriteStoreC0(t)
  PROVE  Good'
<1>1. /\ at[t] = "store c0" /\ pc[t] = "in" /\ c0' = reg[t] + 1
      /\ at' = [at EXCEPT ![t] = "load c1"] /\ UNCHANGED <<pc, entries, c1, reg, error>>
  BY SyncFacts DEF WriteStoreC0, Body, To, vars
<1>2. /\ reg[t] = c0 /\ c0 \in Nat /\ t \in Writers /\ entries[t] \in 1..Count
      /\ \A u \in Clients : u # t => at[u] \notin Holding
      /\ at'[t] = "load c1" /\ \A u \in Clients \ {t} : at'[u] = at[u]
  <2>1. t \in Writers /\ entries[t] > 0 /\ entries[t] <= Count
    BY <1>1, SyncFacts DEF PlaceInv
  <2>2. entries[t] \in Nat /\ MaxEntries \in Nat
    BY SyncFacts, ClientsAssumption
  <2>3. \A u \in Clients : u # t => at[u] \notin Holding
    BY <1>1, SyncFacts, OneInside DEF PlaceInv
  <2>4. entries[t] \in 1..Count
    BY <2>1, <2>2
  <2>5. reg[t] = c0 /\ c0 \in Nat
    BY <1>1, SyncFacts DEF CounterInv, TestTypeOK
  <2>6. at'[t] = "load c1" /\ \A u \in Clients \ {t} : at'[u] = at[u]
    BY <1>1, SyncFacts DEF TestTypeOK
  <2>7. QED
    BY <2>1, <2>3, <2>4, <2>5, <2>6
<1>3. c0 = c1
  BY <1>1, <1>2, SyncFacts DEF CounterInv
<1>4. PlaceInv'
  BY <1>1, <1>2, SyncFacts DEF PlaceInv
<1>5. CounterInv'
  BY <1>1, <1>2, <1>3, SyncFacts DEF CounterInv
<1>6. CountInv'
  <2> DEFINE w == <<t, entries[t]>>
  <2>1. Round(t) = entries[t] - 1 /\ Round(t)' = entries[t]
    BY <1>1, <1>2 DEF Round
  <2>2. \A u \in Writers \ {t} : Round(u)' = Round(u)
    BY <1>1, <1>2, WritersAssumption DEF Round
  <2>3. w \in Writers \X (1..Count) /\ w \notin Written
    <3>1. t \in Writers /\ entries[t] \in 1..Count /\ Count \in Nat
      BY <1>2, ClientsAssumption
    <3>2. ~(entries[t] <= entries[t] - 1)
      BY <3>1
    <3>3. QED
      BY <2>1, <3>1, <3>2 DEF Written
  <2>4. ASSUME NEW x \in Writers \X (1..Count)
        PROVE  x \in Written' <=> x \in Written \/ x = w
    <3>1. CASE x[1] = t
      <4>1. x[2] \in Int /\ entries[t] \in Int /\ x = <<x[1], x[2]>>
        <5>1. entries[t] \in 1..Count /\ x \in Writers \X (1..Count)
          BY <1>2
        <5>2. QED
          BY <5>1, ClientsAssumption
      <4>2. x[2] <= entries[t] <=> x[2] <= entries[t] - 1 \/ x[2] = entries[t]
        BY <4>1
      <4>3. x \in Written' <=> x[2] <= entries[t]
        BY <2>1, <3>1 DEF Written
      <4>4. x \in Written <=> x[2] <= entries[t] - 1
        BY <2>1, <3>1 DEF Written
      <4>5. x = w <=> x[2] = entries[t]
        BY <3>1, <4>1
      <4>6. QED
        BY <4>2, <4>3, <4>4, <4>5
    <3>2. CASE x[1] # t
      BY <2>2, <3>2 DEF Written
    <3>3. QED
      BY <3>1, <3>2
  <2>5. Written' = Written \cup {w}
    BY <2>3, <2>4 DEF Written
  <2>6. Cardinality(Written') = Cardinality(Written) + 1
    BY <2>3, <2>5, WrittenFinite, FS_AddElement
  <2>7. QED
    BY <1>1, <1>2, <2>6, SyncFacts DEF CountInv
<1>7. QED
  BY <1>4, <1>5, <1>6 DEF Good

LEMMA StoreC1Step ==
  ASSUME Sync, NEW t \in Clients, WriteStoreC1(t)
  PROVE  Good'
<1>1. /\ at[t] = "store c1" /\ pc[t] = "in" /\ c1' = reg[t] + 1
      /\ at' = [at EXCEPT ![t] = "recheck"] /\ UNCHANGED <<pc, entries, c0, reg, error>>
  BY SyncFacts DEF WriteStoreC1, Body, To, vars
<1>2. /\ \A u \in Clients : u # t => at[u] \notin Holding
      /\ at'[t] = "recheck" /\ \A u \in Clients \ {t} : at'[u] = at[u]
  BY <1>1, SyncFacts, OneInside DEF PlaceInv, TestTypeOK
<1>3. c1' = c0
  BY <1>1, SyncFacts DEF CounterInv
<1>4. PlaceInv'
  BY <1>1, <1>2, SyncFacts DEF PlaceInv
<1>5. CounterInv'
  BY <1>1, <1>2, <1>3, SyncFacts DEF CounterInv
<1>6. \A u \in Writers : Round(u)' = Round(u)
  BY <1>1, <1>2, WritersAssumption DEF Round
<1>7. QED
  BY <1>1, <1>4, <1>5, <1>6, SyncFacts, SameCount DEF Good

LEMMA LeaveStep ==
  ASSUME Sync, NEW t \in Clients, Leave(t)
  PROVE  Good'
<1>1. /\ at[t] = "leave" /\ pc[t] = "in" /\ pc' = [pc EXCEPT ![t] = "exit"]
      /\ at' = [at EXCEPT ![t] = "loop"] /\ UNCHANGED <<entries, c0, c1, reg, error>>
  <2>1. type = 1
    BY DEF Sync
  <2>2. Exit(t) /\ at[t] = "leave"
    BY <2>1 DEF Leave
  <2>3. To(t, "loop") /\ UNCHANGED <<c0, c1, reg, error>>
    BY DEF Leave
  <2>4. QED
    BY <2>2, <2>3 DEF Exit, To
<1>2. /\ \A u \in Clients : u # t => at[u] \notin Holding
      /\ at'[t] = "loop" /\ \A u \in Clients \ {t} : at'[u] = at[u] /\ pc'[u] = pc[u]
  BY <1>1, SyncFacts, OneInside DEF PlaceInv, TestTypeOK, IInv, TypeOK
<1>3. PlaceInv' /\ CounterInv'
  BY <1>1, <1>2, SyncFacts DEF PlaceInv, CounterInv
<1>4. \A u \in Writers : Round(u)' = Round(u)
  BY <1>1, <1>2, WritersAssumption DEF Round
<1>5. QED
  BY <1>1, <1>3, <1>4, SyncFacts, SameCount DEF Good

-----------------------------------------------------------------------------
LEMMA StepInv ==
  ASSUME TestInv, NEW t \in Clients, Step(t)
  PROVE  TestInv'
<1>1. IInv' /\ TestTypeOK'
  BY MonitorKept, TypesKept DEF TestInv
<1>2. type' = type
  BY DEF Step, Abort, InMonitor, testVars
<1>3. CASE type = 1
  <2>1. Good'
    BY <1>3, PackageStep, BeginStep, LoadSteps, StoreC0Step, StoreC1Step, LeaveStep
    DEF Sync, Step, LoadStep
  <2>2. QED
    BY <1>1, <2>1 DEF TestInv, Good
<1>4. CASE type # 1
  BY <1>1, <1>2, <1>4 DEF TestInv
<1>5. QED
  BY <1>3, <1>4

LEMMA StutterInv ==
  ASSUME TestInv, UNCHANGED <<vars, testVars>>
  PROVE  TestInv'
<1>1. IInv'
  BY NextInv DEF TestInv
<1>2. UNCHANGED <<holder, lock, waiters, started, pc, waiter, entries>> /\ UNCHANGED testVars
  BY DEF vars
<1>3. type' = type /\ TestTypeOK' /\ (PlaceInv => PlaceInv') /\ (CounterInv => CounterInv')
  <2>1. type' = type /\ TestTypeOK'
    BY <1>2 DEF TestInv, testVars, TestTypeOK
  <2>2. PlaceInv => PlaceInv'
    BY <1>2 DEF testVars, PlaceInv
  <2>3. CounterInv => CounterInv'
    <3>1. c0' = c0 /\ c1' = c1 /\ at' = at /\ reg' = reg /\ error' = error
      BY <1>2 DEF testVars
    <3>2. QED
      BY <3>1 DEF CounterInv
  <2>4. QED
    BY <2>1, <2>2, <2>3
<1>4. CountInv' <=> CountInv
  BY <1>2 DEF testVars, CountInv, Written, Round
<1>5. QED
  BY <1>1, <1>3, <1>4 DEF TestInv

THEOREM TestInvariance == TestSpec => []TestInv
<1>1. TestInv /\ [TestNext]_<<vars, testVars>> => TestInv'
  BY StepInv, StutterInv DEF TestNext
<1>2. QED
  BY <1>1, TestInitInv, PTL DEF TestSpec

(* With the monitor, whatever the interleaving, no reader and no writer    *)
(* ever finds the two counters different (read and write).                 *)
THEOREM NobodySeesThemApart == TestSpec => []CountersAgree
<1>1. TestInv => CountersAgree
  BY DEF TestInv, CounterInv, CountersAgree
<1>2. QED
  BY <1>1, TestInvariance, PTL

(* And when all threads have finished the counters count the rounds of all *)
(* writers: the check at the end of do_test.                               *)
THEOREM NoWriteIsLost == TestSpec => []EveryWriteCounts
<1>1. ASSUME TestInv, type = 1, Finished
      PROVE  c0 = c1 /\ c0 = Cardinality(Writers) * Count
  <2>1. \A t \in Clients : at[t] = "loop" /\ entries[t] = Count
    BY <1>1 DEF Finished
  <2>2. c0 = c1
    BY <1>1, <2>1 DEF TestInv, CounterInv
  <2>3. \A t \in Writers : Round(t) = Count
    BY <2>1, WritersAssumption DEF Round
  <2>4. Written = Writers \X (1..Count)
    BY <2>3, ClientsAssumption DEF Written
  <2>5. IsFiniteSet(1..Count) /\ Cardinality(1..Count) = Count
    BY ClientsAssumption, FS_Interval
  <2>6. Cardinality(Writers \X (1..Count)) = Cardinality(Writers) * Cardinality(1..Count)
    BY <2>5, WritersAssumption, FS_Product
  <2>7. c0 = Cardinality(Written)
    BY <1>1 DEF TestInv, CountInv
  <2>8. QED
    BY <2>2, <2>4, <2>5, <2>6, <2>7
<1>2. TestInv => EveryWriteCounts
  BY <1>1 DEF EveryWriteCounts
<1>3. QED
  BY <1>2, TestInvariance, PTL

(* The assertion on the holder keeps holding in the test, with and without *)
(* the threads that go around the monitor.                                 *)
THEOREM TestKeepsHolder == TestSpec => []HolderIsInside
<1>1. TestInv => HolderIsInside
  BY DEF TestInv, IInv, Inv
<1>2. QED
  BY <1>1, TestInvariance, PTL
=============================================================================
