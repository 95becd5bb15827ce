---------------------------- MODULE AsyncProofs ----------------------------
(***************************************************************************)
(* The program of async.c on a ring of any length that has a slot for each *)
(* of its four tasks.                                                      *)
(***************************************************************************)
EXTENDS Async, SequenceTheorems, TLAPS

(* The tasks in the order in which main queues them, their functions, and  *)
(* the instructions of Main that lock, queue and wait for each of them.    *)
Tasks == 1..4
Order == <<"t1", "t2", "t3", "t4">>
Functions == <<"add", "add", "sub", "add">>
LockAt == <<3, 6, 17, 24>>
HeadAt == <<7, 10, 18, 25>>
SpinAt == <<13, 15, 21, 28>>

(* How many tasks main has moved the head for, the handlers have completed, *)
(* and the service routine has taken from the ring.                        *)
Queued == IF pc <= 7 THEN 0 ELSE IF pc <= 10 THEN 1 ELSE IF pc <= 18 THEN 2
          ELSE IF pc <= 25 THEN 3 ELSE 4
Complete == Len(completed)
Taken == IF isr \in {"copy", "result", "crashed"} THEN Complete + 1 ELSE Complete

(* The slot of a task, and whether its handler has returned. *)
Slot(k) == IF k = Slots THEN 0 ELSE k
Returned(k) == k < Complete \/ (k = Complete /\ isr # "unlock")

Entry == [handler : {NULL, "add", "sub"}, buf : Triples \cup {NULL}]
Triple == [arg0 : Int, arg1 : Int, result : Int, locked : BOOLEAN]

TypeInv ==
  /\ comp \in [0..Slots-1 -> Entry]
  /\ triple \in [Triples -> Triple]
  /\ pc \in 1..30
  /\ isr \in {"idle", "check", "copy", "result", "unlock", "crashed"}
  /\ c \in Entry
  /\ completed \in Seq(Triples)
  /\ raced \in BOOLEAN

(* The ring holds the tasks that are queued and not taken, and the entry   *)
(* of a task is what main has stored of it so far.                         *)
RingInv ==
  /\ compHead = Slot(Queued) /\ compTail = Slot(Taken)
  /\ Taken <= Queued
  /\ \A k \in Tasks :
       /\ comp[Slot(k)].handler = IF pc > HeadAt[k] + 1 THEN Functions[k] ELSE NULL
       /\ comp[Slot(k)].buf = IF pc > HeadAt[k] + 2 THEN Order[k] ELSE NULL

(* Tasks complete in order; the service routine is with the one it took.   *)
OrderInv ==
  /\ \A k \in 1..Complete : completed[k] = Order[k]
  /\ isr = "result" => c = [handler |-> Functions[Complete + 1], buf |-> Order[Complete + 1]]
  /\ isr = "unlock" => Complete > 0 /\ c.buf = Order[Complete]

(* A triple is locked from the instruction that does it to the end of its  *)
(* handler, and has its result from then on; main passes no loop earlier.  *)
FlagInv ==
  \A k \in Tasks :
    /\ triple[Order[k]].locked <=> pc > LockAt[k] /\ ~Returned(k)
    /\ k <= Complete => triple[Order[k]].result = Value[Order[k]]
    /\ pc > SpinAt[k] => Returned(k)

ArgumentsInv ==
  /\ pc > 1 => triple["t1"].arg0 = 1
  /\ pc > 2 => triple["t1"].arg1 = 2
  /\ pc > 4 => triple["t2"].arg0 = 3
  /\ pc > 5 => triple["t2"].arg1 = 4
  /\ pc > 14 => triple["t3"].arg0 = Value["t1"]
  /\ pc > 16 => triple["t3"].arg1 = Value["t2"]
  /\ pc > 22 => triple["t4"].arg0 = Value["t3"]
  /\ pc > 23 => triple["t4"].arg1 = 7

(* A signal that finds main in doAsync counts as a race until the service  *)
(* routine has returned, and only such a one fails.                        *)
RaceInv == (isr # "idle" /\ InDoAsync) \/ isr = "crashed" => raced

Inv == TypeInv /\ RingInv /\ OrderInv /\ FlagInv /\ ArgumentsInv /\ RaceInv

-----------------------------------------------------------------------------
LEMMA TaskFacts ==
  /\ Order[1] = "t1" /\ Order[2] = "t2" /\ Order[3] = "t3" /\ Order[4] = "t4"
  /\ Functions[1] = "add" /\ Functions[2] = "add" /\ Functions[3] = "sub" /\ Functions[4] = "add"
  /\ LockAt[1] = 3 /\ LockAt[2] = 6 /\ LockAt[3] = 17 /\ LockAt[4] = 24
  /\ HeadAt[1] = 7 /\ HeadAt[2] = 10 /\ HeadAt[3] = 18 /\ HeadAt[4] = 25
  /\ SpinAt[1] = 13 /\ SpinAt[2] = 15 /\ SpinAt[3] = 21 /\ SpinAt[4] = 28
  /\ Value["t1"] = 3 /\ Value["t2"] = 7 /\ Value["t3"] = -4 /\ Value["t4"] = 3
BY DEF Order, Functions, LockAt, HeadAt, SpinAt, Value

LEMMA MainFacts ==
  /\ Len(Main) = 29
  /\ \A i \in 1..29 :
       /\ Main[i].op = "set" <=> i \in {1, 2, 4, 5, 23}
       /\ Main[i].op = "get" <=> i \in {14, 16, 22}
       /\ Main[i].op = "lock" <=> i \in {3, 6, 17, 24}
       /\ Main[i].op = "spin" <=> i \in {13, 15, 21, 28}
       /\ Main[i].op = "head" <=> i \in {7, 10, 18, 25}
       /\ Main[i].op = "handler" <=> i \in {8, 11, 19, 26}
       /\ Main[i].op = "buf" <=> i \in {9, 12, 20, 27}
       /\ Main[i].op = "report" <=> i = 29
BY DEF Main, Set, Get, Spin, Lock, MoveHead, Handle, Buf, Done

LEMMA AfterSlot ==
  ASSUME NEW k \in 0..3
  PROVE  After(Slot(k)) = Slot(k + 1)
BY SlotsAssumption DEF After, Slot

LEMMA Slots4 ==
  /\ \A k \in 0..4 : Slot(k) \in 0..Slots-1
  /\ \A k, j \in Tasks : Slot(k) = Slot(j) => k = j
  /\ \A k, j \in 0..3 : Slot(k) = Slot(j) => k = j
BY SlotsAssumption DEF Slot, Tasks

LEMMA InitInv == Init => Inv
<1> SUFFICES ASSUME Init PROVE Inv
  OBVIOUS
<1>1. Complete = 0 /\ Taken = 0 /\ Queued = 0 /\ pc = 1 /\ isr = "idle" /\ Len(Main) = 29
  BY MainFacts DEF Init, Complete, Taken, Queued
<1>2. TypeInv
  <2>1. completed \in Seq(Triples)
    BY EmptySeq DEF Init
  <2>2. comp \in [0..Slots-1 -> Entry] /\ c \in Entry
    BY DEF Init, Entry
  <2>3. triple \in [Triples -> Triple]
    BY DEF Init, Triple, Unset
  <2>4. raced \in BOOLEAN
    BY DEF Init
  <2>5. QED
    BY <1>1, <2>1, <2>2, <2>3, <2>4 DEF TypeInv
<1>3. RingInv
  BY <1>1, TaskFacts, Slots4, SlotsAssumption DEF Init, RingInv, Tasks, Slot
<1>4. OrderInv /\ ArgumentsInv
  BY <1>1 DEF Init, OrderInv, ArgumentsInv
<1>5. FlagInv
  <2>1. \A k \in Tasks : ~triple[Order[k]].locked
    BY TaskFacts DEF Init, Tasks, Triples
  <2>2. QED
    BY <1>1, <2>1, TaskFacts DEF FlagInv, Tasks
<1>6. RaceInv
  BY <1>1, MainFacts DEF RaceInv
<1>7. QED
  BY <1>2, <1>3, <1>4, <1>5, <1>6 DEF Inv

(* What every instruction of main leaves alone. *)
LEMMA ExecuteFacts ==
  ASSUME Inv, NEW op, Execute(op)
  PROVE  /\ isr = "idle" /\ pc \in 1..29 /\ Main[pc].op = op /\ pc' = pc + 1
         /\ UNCHANGED <<compTail, isr, c, completed, raced>>
         /\ Complete' = Complete /\ Taken' = Taken /\ Complete \in Nat /\ Taken = Complete
         /\ \A k \in Tasks : Returned(k) <=> k <= Complete
         /\ \A k \in Tasks : Returned(k)' <=> k <= Complete
         /\ OrderInv' /\ RaceInv'
<1>1. /\ isr = "idle" /\ pc \in 1..29 /\ Main[pc].op = op /\ pc' = pc + 1
      /\ UNCHANGED <<compTail, isr, c, completed, raced>>
  BY MainFacts DEF Execute, Inv, TypeInv, Running
<1>2. Complete' = Complete /\ Complete \in Nat
  BY <1>1, LenProperties DEF Complete, Inv, TypeInv
<1>3. Taken' = Taken /\ Taken = Complete
  BY <1>1, <1>2 DEF Taken
<1>4. \A k \in Tasks : Returned(k) <=> k <= Complete
  BY <1>1, <1>2 DEF Returned, Tasks
<1>5. \A k \in Tasks : Returned(k)' <=> k <= Complete
  BY <1>1, <1>2 DEF Returned, Tasks
<1>6. OrderInv'
  BY <1>1, <1>2 DEF Inv, OrderInv
<1>7. RaceInv'
  BY <1>1 DEF RaceInv
<1>8. QED
  BY <1>1, <1>2, <1>3, <1>4, <1>5, <1>6, <1>7

LEMMA RingKept ==
  ASSUME Inv, NEW op \in {"set", "get", "lock", "spin", "report"}, Execute(op),
         UNCHANGED <<comp, compHead>>
  PROVE  RingInv' /\ comp' \in [0..Slots-1 -> Entry]
<1>1. pc \in 1..29 \ {7, 8, 9, 10, 11, 12, 18, 19, 20, 25, 26, 27} /\ pc' = pc + 1
  BY ExecuteFacts, MainFacts
<1>2. Queued' = Queued
  BY <1>1 DEF Queued
<1>3. \A k \in Tasks : /\ pc > HeadAt[k] + 1 <=> pc' > HeadAt[k] + 1
                       /\ pc > HeadAt[k] + 2 <=> pc' > HeadAt[k] + 2
  BY <1>1, TaskFacts DEF Tasks
<1>4. compTail' = compTail /\ Taken' = Taken
  BY ExecuteFacts
<1>5. RingInv
  BY DEF Inv
<1>6. compHead' = Slot(Queued)' /\ compTail' = Slot(Taken)' /\ Taken' <= Queued'
  BY <1>2, <1>4, <1>5 DEF RingInv, Slot
<1>7. ASSUME NEW k \in Tasks
      PROVE  /\ comp'[Slot(k)].handler = IF pc' > HeadAt[k] + 1 THEN Functions[k] ELSE NULL
             /\ comp'[Slot(k)].buf = IF pc' > HeadAt[k] + 2 THEN Order[k] ELSE NULL
  <2>1. comp' = comp
    OBVIOUS
  <2>2. /\ comp[Slot(k)].handler = IF pc > HeadAt[k] + 1 THEN Functions[k] ELSE NULL
        /\ comp[Slot(k)].buf = IF pc > HeadAt[k] + 2 THEN Order[k] ELSE NULL
    BY <1>5 DEF RingInv
  <2>3. QED
    BY <2>1, <2>2, <1>1, TaskFacts DEF Tasks
<1>8. RingInv'
  BY <1>6, <1>7 DEF RingInv, Slot
<1>9. QED
  BY <1>8 DEF Inv, TypeInv

LEMMA SetInv ==
  ASSUME Inv, Execute("set"), UNCHANGED <<comp, compHead>>,
         triple' = [triple EXCEPT ![Main[pc].to][Main[pc].field] = Main[pc].value]
  PROVE  Inv'
<1>1. pc \in {1, 2, 4, 5, 23} /\ pc' = pc + 1
  BY ExecuteFacts, MainFacts
<1>2. Main[pc].to \in Triples /\ Main[pc].field \in {"arg0", "arg1"} /\ Main[pc].value \in Int
  BY <1>1 DEF Main, Set, Triples
<1>3. PICK t \in Triples, f \in {"arg0", "arg1"}, v \in Int :
        /\ t = Main[pc].to /\ f = Main[pc].field /\ v = Main[pc].value
        /\ triple' = [triple EXCEPT ![t][f] = v]
  BY <1>2
<1>0. triple \in [Triples -> Triple]
  BY DEF Inv, TypeInv
<1>4. /\ pc = 1 => t = "t1" /\ f = "arg0" /\ v = 1
      /\ pc = 2 => t = "t1" /\ f = "arg1" /\ v = 2
      /\ pc = 4 => t = "t2" /\ f = "arg0" /\ v = 3
      /\ pc = 5 => t = "t2" /\ f = "arg1" /\ v = 4
      /\ pc = 23 => t = "t4" /\ f = "arg1" /\ v = 7
  BY <1>3 DEF Main, Set
<1>5. TypeInv'
  <2>1. triple' \in [Triples -> Triple]
    BY <1>0, <1>3 DEF Triple
  <2>2. comp' \in [0..Slots-1 -> Entry]
    BY RingKept
  <2>3. pc' \in 1..30 /\ UNCHANGED <<isr, c, completed, raced>>
    BY <1>1, ExecuteFacts
  <2>4. QED
    BY <2>1, <2>2, <2>3 DEF Inv, TypeInv
<1>6. FlagInv'
  <2>1. \A k \in Tasks : Order[k] \in Triples
    BY TaskFacts DEF Tasks, Triples
  <2>2. \A k \in Tasks : triple'[Order[k]].locked = triple[Order[k]].locked
                        /\ triple'[Order[k]].result = triple[Order[k]].result
    BY <1>0, <1>3, <2>1 DEF Triple
  <2>3. \A k \in Tasks : (pc > LockAt[k] <=> pc' > LockAt[k]) /\ (pc > SpinAt[k] <=> pc' > SpinAt[k])
    BY <1>1, TaskFacts DEF Tasks
  <2>4. QED
    BY <2>2, <2>3, ExecuteFacts DEF Inv, FlagInv
<1>7. ArgumentsInv'
  <2>1. /\ \A u \in Triples : triple'[u].arg0 = IF u = t /\ f = "arg0" THEN v ELSE triple[u].arg0
        /\ \A u \in Triples : triple'[u].arg1 = IF u = t /\ f = "arg1" THEN v ELSE triple[u].arg1
    BY <1>0, <1>3 DEF Triple
  <2>2. ArgumentsInv
    BY DEF Inv
  <2>3. CASE pc = 1
    BY <1>1, <1>4, <2>1, <2>2, <2>3 DEF ArgumentsInv, Triples
  <2>4. CASE pc = 2
    BY <1>1, <1>4, <2>1, <2>2, <2>4 DEF ArgumentsInv, Triples
  <2>5. CASE pc = 4
    BY <1>1, <1>4, <2>1, <2>2, <2>5 DEF ArgumentsInv, Triples
  <2>6. CASE pc = 5
    BY <1>1, <1>4, <2>1, <2>2, <2>6 DEF ArgumentsInv, Triples
  <2>7. CASE pc = 23
    BY <1>1, <1>4, <2>1, <2>2, <2>7 DEF ArgumentsInv, Triples
  <2>8. QED
    BY <1>1, <2>3, <2>4, <2>5, <2>6, <2>7
<1>8. QED
  BY <1>5, <1>6, <1>7, RingKept, ExecuteFacts DEF Inv

LEMMA GetInv ==
  ASSUME Inv, Execute("get"), UNCHANGED <<comp, compHead>>,
         triple' = [triple EXCEPT ![Main[pc].to][Main[pc].field] = triple[Main[pc].of].result]
  PROVE  Inv'
<1>0. triple \in [Triples -> Triple]
  BY DEF Inv, TypeInv
<1>1. pc \in {14, 16, 22} /\ pc' = pc + 1
  BY ExecuteFacts, MainFacts
<1>2. /\ pc = 14 => Main[pc].to = "t3" /\ Main[pc].field = "arg0" /\ Main[pc].of = "t1"
      /\ pc = 16 => Main[pc].to = "t3" /\ Main[pc].field = "arg1" /\ Main[pc].of = "t2"
      /\ pc = 22 => Main[pc].to = "t4" /\ Main[pc].field = "arg0" /\ Main[pc].of = "t3"
  BY DEF Main, Get
<1>3. \A k \in Tasks : pc > SpinAt[k] => triple[Order[k]].result = Value[Order[k]]
  BY ExecuteFacts DEF Inv, FlagInv
<1>4. /\ pc = 14 => triple["t1"].result = Value["t1"]
      /\ pc = 16 => triple["t2"].result = Value["t2"]
      /\ pc = 22 => triple["t3"].result = Value["t3"]
  <2>1. 1 \in Tasks /\ 2 \in Tasks /\ 3 \in Tasks
    BY DEF Tasks
  <2>2. /\ pc > 13 => triple["t1"].result = Value["t1"]
        /\ pc > 15 => triple["t2"].result = Value["t2"]
        /\ pc > 21 => triple["t3"].result = Value["t3"]
    BY <1>3, <2>1, TaskFacts
  <2>3. QED
    BY <2>2
<1>5. PICK t \in Triples, f \in {"arg0", "arg1"}, v \in Int :
        /\ t = Main[pc].to /\ f = Main[pc].field /\ v = triple[Main[pc].of].result
        /\ triple' = [triple EXCEPT ![t][f] = v]
  <2>1. Main[pc].to \in Triples /\ Main[pc].field \in {"arg0", "arg1"} /\ Main[pc].of \in Triples
    BY <1>1, <1>2 DEF Triples
  <2>2. triple[Main[pc].of].result \in Int
    BY <1>0, <2>1 DEF Triple
  <2>3. QED
    BY <2>1, <2>2
<1>6. /\ pc = 14 => t = "t3" /\ f = "arg0" /\ v = Value["t1"]
      /\ pc = 16 => t = "t3" /\ f = "arg1" /\ v = Value["t2"]
      /\ pc = 22 => t = "t4" /\ f = "arg0" /\ v = Value["t3"]
  BY <1>2, <1>4, <1>5
<1>7. TypeInv'
  <2>1. triple' \in [Triples -> Triple]
    BY <1>0, <1>5 DEF Triple
  <2>2. comp' \in [0..Slots-1 -> Entry]
    BY RingKept
  <2>3. pc' \in 1..30 /\ UNCHANGED <<isr, c, completed, raced>>
    BY <1>1, ExecuteFacts
  <2>4. QED
    BY <2>1, <2>2, <2>3 DEF Inv, TypeInv
<1>8. FlagInv'
  <2>1. \A k \in Tasks : Order[k] \in Triples
    BY TaskFacts DEF Tasks, Triples
  <2>2. \A k \in Tasks : triple'[Order[k]].locked = triple[Order[k]].locked
                        /\ triple'[Order[k]].result = triple[Order[k]].result
    BY <1>0, <1>5, <2>1 DEF Triple
  <2>3. \A k \in Tasks : (pc > LockAt[k] <=> pc' > LockAt[k]) /\ (pc > SpinAt[k] <=> pc' > SpinAt[k])
    BY <1>1, TaskFacts DEF Tasks
  <2>4. QED
    BY <2>2, <2>3, ExecuteFacts DEF Inv, FlagInv
<1>9. ArgumentsInv'
  <2>1. /\ \A u \in Triples : triple'[u].arg0 = IF u = t /\ f = "arg0" THEN v ELSE triple[u].arg0
        /\ \A u \in Triples : triple'[u].arg1 = IF u = t /\ f = "arg1" THEN v ELSE triple[u].arg1
    BY <1>0, <1>5 DEF Triple
  <2>2. ArgumentsInv
    BY DEF Inv
  <2>3. CASE pc = 14
    BY <1>1, <1>6, <2>1, <2>2, <2>3 DEF ArgumentsInv, Triples
  <2>4. CASE pc = 16
    BY <1>1, <1>6, <2>1, <2>2, <2>4 DEF ArgumentsInv, Triples
  <2>5. CASE pc = 22
    BY <1>1, <1>6, <2>1, <2>2, <2>5 DEF ArgumentsInv, Triples
  <2>6. QED
    BY <1>1, <2>3, <2>4, <2>5
<1>10. QED
  BY <1>7, <1>8, <1>9, RingKept, ExecuteFacts DEF Inv

LEMMA LockInv ==
  ASSUME Inv, Execute("lock"), UNCHANGED <<comp, compHead>>,
         triple' = [triple EXCEPT ![Main[pc].to].locked = TRUE]
  PROVE  Inv'
<1>0. triple \in [Triples -> Triple]
  BY DEF Inv, TypeInv
<1>1. pc \in {3, 6, 17, 24} /\ pc' = pc + 1
  BY ExecuteFacts, MainFacts
<1>2. PICK j \in Tasks : pc = LockAt[j] /\ Main[pc].to = Order[j]
  <2>1. /\ pc = 3 => Main[pc].to = "t1"
        /\ pc = 6 => Main[pc].to = "t2"
        /\ pc = 17 => Main[pc].to = "t3"
        /\ pc = 24 => Main[pc].to = "t4"
    BY DEF Main, Lock
  <2>2. 1 \in Tasks /\ 2 \in Tasks /\ 3 \in Tasks /\ 4 \in Tasks
    BY DEF Tasks
  <2>3. QED
    BY <1>1, <2>1, <2>2, TaskFacts
<1>3. Order[j] \in Triples
  BY TaskFacts DEF Tasks, Triples
<1>4. /\ triple' \in [Triples -> Triple]
      /\ \A u \in Triples : /\ triple'[u].arg0 = triple[u].arg0
                            /\ triple'[u].arg1 = triple[u].arg1
                            /\ triple'[u].result = triple[u].result
                            /\ u # Order[j] => triple'[u].locked = triple[u].locked
      /\ triple'[Order[j]].locked
  BY <1>0, <1>2, <1>3 DEF Triple
<1>5. TypeInv'
  <2>1. comp' \in [0..Slots-1 -> Entry]
    BY RingKept
  <2>2. pc' \in 1..30 /\ UNCHANGED <<isr, c, completed, raced>>
    BY <1>1, ExecuteFacts
  <2>3. QED
    BY <1>4, <2>1, <2>2 DEF Inv, TypeInv
<1>6. FlagInv'
  <2>1. ~Returned(j)
    <3>1. Complete <= Queued /\ (Returned(j) <=> j <= Complete) /\ Complete \in Nat
      BY ExecuteFacts DEF Inv, RingInv
    <3>2. Queued < j
      BY <1>1, <1>2, TaskFacts DEF Queued, Tasks
    <3>3. QED
      BY <3>1, <3>2 DEF Tasks, Queued
  <2>2. FlagInv
    BY DEF Inv
  <2>3. ASSUME NEW k \in Tasks
        PROVE  /\ triple'[Order[k]].locked <=> pc' > LockAt[k] /\ ~Returned(k)
               /\ triple'[Order[k]].result = triple[Order[k]].result
               /\ pc' > SpinAt[k] => Returned(k)
    <3>1. Order[k] \in Triples /\ (k # j => Order[k] # Order[j])
      BY TaskFacts DEF Tasks, Triples
    <3>2. (pc > SpinAt[k] <=> pc' > SpinAt[k]) /\ (k # j => (pc > LockAt[k] <=> pc' > LockAt[k]))
          /\ pc' > LockAt[j]
      BY <1>1, <1>2, TaskFacts DEF Tasks
    <3>3. CASE k = j
      BY <1>4, <2>1, <2>2, <3>1, <3>2, <3>3, Zenon DEF FlagInv
    <3>4. CASE k # j
      BY <1>4, <2>2, <3>1, <3>2, <3>4, Zenon DEF FlagInv
    <3>5. QED
      BY <3>3, <3>4
  <2>4. QED
    BY <2>2, <2>3, ExecuteFacts DEF FlagInv
<1>7. ArgumentsInv'
  BY <1>1, <1>4 DEF Inv, ArgumentsInv, Triples
<1>8. QED
  BY <1>5, <1>6, <1>7, RingKept, ExecuteFacts DEF Inv

LEMMA SpinInv ==
  ASSUME Inv, Execute("spin"), ~triple[Main[pc].on].locked,
         comp' = comp, compHead' = compHead, triple' = triple
  PROVE  Inv'
<1>1. pc \in {13, 15, 21, 28} /\ pc' = pc + 1
  BY ExecuteFacts, MainFacts
<1>2. PICK j \in Tasks : pc = SpinAt[j] /\ Main[pc].on = Order[j]
  <2>1. /\ pc = 13 => Main[pc].on = "t1"
        /\ pc = 15 => Main[pc].on = "t2"
        /\ pc = 21 => Main[pc].on = "t3"
        /\ pc = 28 => Main[pc].on = "t4"
    BY DEF Main, Spin
  <2>2. 1 \in Tasks /\ 2 \in Tasks /\ 3 \in Tasks /\ 4 \in Tasks
    BY DEF Tasks
  <2>3. QED
    BY <1>1, <2>1, <2>2, TaskFacts
<1>3. TypeInv'
  <2>1. pc' \in 1..30 /\ UNCHANGED <<isr, c, completed, raced>>
    BY <1>1, ExecuteFacts
  <2>2. QED
    BY <2>1 DEF Inv, TypeInv
<1>4. FlagInv'
  <2>1. FlagInv
    BY DEF Inv
  <2>2. pc > LockAt[j]
    BY <1>1, <1>2, TaskFacts DEF Tasks
  <2>3. Returned(j)
    BY <1>2, <2>1, <2>2 DEF FlagInv
  <2>4. ASSUME NEW k \in Tasks
        PROVE  /\ triple[Order[k]].locked <=> pc' > LockAt[k] /\ ~Returned(k)
               /\ pc' > SpinAt[k] => Returned(k)
    <3>1. /\ pc > LockAt[k] <=> pc' > LockAt[k]
          /\ k # j => (pc > SpinAt[k] <=> pc' > SpinAt[k])
      BY <1>1, <1>2, TaskFacts DEF Tasks
    <3>2. CASE k = j
      BY <2>1, <2>3, <3>1, <3>2 DEF FlagInv
    <3>3. CASE k # j
      BY <2>1, <3>1, <3>3 DEF FlagInv
    <3>4. QED
      BY <3>2, <3>3
  <2>5. QED
    BY <2>1, <2>4, ExecuteFacts DEF FlagInv
<1>5. ArgumentsInv'
  BY <1>1 DEF Inv, ArgumentsInv
<1>6. QED
  BY <1>3, <1>4, <1>5, RingKept, ExecuteFacts DEF Inv

LEMMA ReportInv ==
  ASSUME Inv, Report
  PROVE  Inv'
<1>1. Execute("report") /\ comp' = comp /\ compHead' = compHead /\ triple' = triple
  BY DEF Report
<1>2. pc = 29 /\ pc' = 30
  BY <1>1, ExecuteFacts, MainFacts
<1>3. TypeInv'
  <2>1. pc' \in 1..30 /\ UNCHANGED <<isr, c, completed, raced>>
    BY <1>1, <1>2, ExecuteFacts
  <2>2. QED
    BY <1>1, <2>1 DEF Inv, TypeInv
<1>4. FlagInv'
  <2>1. \A k \in Tasks : (pc > LockAt[k] <=> pc' > LockAt[k]) /\ (pc > SpinAt[k] <=> pc' > SpinAt[k])
    BY <1>2, TaskFacts DEF Tasks
  <2>2. QED
    BY <1>1, <2>1, ExecuteFacts DEF Inv, FlagInv
<1>5. ArgumentsInv'
  BY <1>1, <1>2 DEF Inv, ArgumentsInv
<1>6. QED
  BY <1>1, <1>3, <1>4, <1>5, RingKept, ExecuteFacts DEF Inv

(* Moving the head and filling an entry leave the triples alone. *)
LEMMA DoAsyncKeeps ==
  ASSUME Inv, NEW op \in {"head", "handler", "buf"}, Execute(op), triple' = triple
  PROVE  FlagInv' /\ ArgumentsInv'
<1>1. pc \in {7, 8, 9, 10, 11, 12, 18, 19, 20, 25, 26, 27} /\ pc' = pc + 1
  BY ExecuteFacts, MainFacts
<1>2. FlagInv'
  <2>1. \A k \in Tasks : (pc > LockAt[k] <=> pc' > LockAt[k]) /\ (pc > SpinAt[k] <=> pc' > SpinAt[k])
    BY <1>1, TaskFacts DEF Tasks
  <2>2. QED
    BY <2>1, ExecuteFacts DEF Inv, FlagInv
<1>3. ArgumentsInv'
  BY <1>1 DEF Inv, ArgumentsInv
<1>4. QED
  BY <1>2, <1>3

LEMMA HeadInv ==
  ASSUME Inv, DoAsyncHead
  PROVE  Inv'
<1>1. Execute("head") /\ comp' = comp /\ compHead' = After(compHead) /\ triple' = triple
  BY DEF DoAsyncHead
<1>2. pc \in {7, 10, 18, 25} /\ pc' = pc + 1
  BY <1>1, ExecuteFacts, MainFacts
<1>3. Queued \in 0..3 /\ Queued' = Queued + 1
  BY <1>2 DEF Queued
<1>4. RingInv
  BY DEF Inv
<1>5. TypeInv'
  <2>1. pc' \in 1..30 /\ UNCHANGED <<isr, c, completed, raced>>
    BY <1>1, <1>2, ExecuteFacts
  <2>2. QED
    BY <1>1, <2>1 DEF Inv, TypeInv
<1>6. RingInv'
  <2>1. compTail' = compTail /\ Taken' = Taken /\ Taken \in Nat
    BY <1>1, ExecuteFacts
  <2>2. compHead' = Slot(Queued + 1)
    BY <1>1, <1>3, <1>4, AfterSlot DEF RingInv
  <2>3. compHead' = Slot(Queued)' /\ compTail' = Slot(Taken)' /\ Taken' <= Queued'
    BY <1>3, <1>4, <2>1, <2>2 DEF RingInv, Slot
  <2>4. ASSUME NEW k \in Tasks
        PROVE  /\ comp'[Slot(k)].handler = IF pc' > HeadAt[k] + 1 THEN Functions[k] ELSE NULL
               /\ comp'[Slot(k)].buf = IF pc' > HeadAt[k] + 2 THEN Order[k] ELSE NULL
    <3>1. /\ comp[Slot(k)].handler = IF pc > HeadAt[k] + 1 THEN Functions[k] ELSE NULL
          /\ comp[Slot(k)].buf = IF pc > HeadAt[k] + 2 THEN Order[k] ELSE NULL
      BY <1>4 DEF RingInv
    <3>2. QED
      BY <1>1, <1>2, <3>1, TaskFacts DEF Tasks
  <2>5. QED
    BY <2>3, <2>4 DEF RingInv, Slot
<1>7. QED
  BY <1>1, <1>5, <1>6, DoAsyncKeeps, ExecuteFacts DEF Inv

LEMMA FillInv ==
  ASSUME Inv, DoAsyncFill
  PROVE  Inv'
<1>1. PICK field \in {"handler", "buf"} :
        Execute(field) /\ comp' = [comp EXCEPT ![compHead][field] = Main[pc].value]
  BY DEF DoAsyncFill
<1>2. compHead' = compHead /\ triple' = triple
  BY DEF DoAsyncFill
<1>3. /\ pc' = pc + 1
      /\ field = "handler" => pc \in {8, 11, 19, 26}
      /\ field = "buf" => pc \in {9, 12, 20, 27}
  BY <1>1, ExecuteFacts, MainFacts
<1>4. PICK j \in Tasks : /\ field = "handler" => pc = HeadAt[j] + 1 /\ Main[pc].value = Functions[j]
                         /\ field = "buf" => pc = HeadAt[j] + 2 /\ Main[pc].value = Order[j]
  <2>1. /\ pc \in {8, 11, 26} => Main[pc].value = "add"
        /\ pc = 19 => Main[pc].value = "sub"
        /\ pc = 9 => Main[pc].value = "t1"
        /\ pc = 12 => Main[pc].value = "t2"
        /\ pc = 20 => Main[pc].value = "t3"
        /\ pc = 27 => Main[pc].value = "t4"
    BY DEF Main, Handle, Buf
  <2>2. 1 \in Tasks /\ 2 \in Tasks /\ 3 \in Tasks /\ 4 \in Tasks
    BY DEF Tasks
  <2>3. QED
    BY <1>3, <2>1, <2>2, TaskFacts
<1>5. Queued = j /\ Queued' = j
  BY <1>3, <1>4, TaskFacts DEF Queued, Tasks
<1>6. RingInv /\ comp \in [0..Slots-1 -> Entry]
  BY DEF Inv, TypeInv
<1>7. compHead = Slot(j) /\ Slot(j) \in 0..Slots-1
  BY <1>5, <1>6, Slots4 DEF RingInv, Tasks
<1>8. /\ comp' \in [0..Slots-1 -> Entry]
      /\ \A s \in 0..Slots-1 : s # Slot(j) => comp'[s] = comp[s]
      /\ field = "handler" => comp'[Slot(j)].handler = Functions[j] /\ comp'[Slot(j)].buf = comp[Slot(j)].buf
      /\ field = "buf" => comp'[Slot(j)].handler = comp[Slot(j)].handler /\ comp'[Slot(j)].buf = Order[j]
  <2>1. Functions[j] \in {NULL, "add", "sub"} /\ Order[j] \in Triples \cup {NULL}
    BY TaskFacts DEF Tasks, Triples
  <2>2. CASE field = "handler"
    BY <1>1, <1>4, <1>6, <1>7, <2>1, <2>2 DEF Entry
  <2>3. CASE field = "buf"
    BY <1>1, <1>4, <1>6, <1>7, <2>1, <2>3 DEF Entry
  <2>4. QED
    BY <2>2, <2>3
<1>9. TypeInv'
  <2>1. pc' \in 1..30 /\ UNCHANGED <<isr, c, completed, raced>>
    BY <1>1, <1>3, ExecuteFacts
  <2>2. QED
    BY <1>2, <1>8, <2>1 DEF Inv, TypeInv
<1>10. RingInv'
  <2>1. compTail' = compTail /\ Taken' = Taken
    BY <1>1, ExecuteFacts
  <2>2. compHead' = Slot(Queued)' /\ compTail' = Slot(Taken)' /\ Taken' <= Queued'
    BY <1>2, <1>5, <1>6, <2>1 DEF RingInv, Slot
  <2>3. ASSUME NEW k \in Tasks
        PROVE  /\ comp'[Slot(k)].handler = IF pc' > HeadAt[k] + 1 THEN Functions[k] ELSE NULL
               /\ comp'[Slot(k)].buf = IF pc' > HeadAt[k] + 2 THEN Order[k] ELSE NULL
    <3>1. /\ comp[Slot(k)].handler = IF pc > HeadAt[k] + 1 THEN Functions[k] ELSE NULL
          /\ comp[Slot(k)].buf = IF pc > HeadAt[k] + 2 THEN Order[k] ELSE NULL
      BY <1>6 DEF RingInv
    <3>2. CASE k = j
      <4>1. CASE field = "handler"
        BY <1>3, <1>4, <1>8, <3>1, <3>2, <4>1, TaskFacts DEF Tasks
      <4>2. CASE field = "buf"
        BY <1>3, <1>4, <1>8, <3>1, <3>2, <4>2, TaskFacts DEF Tasks
      <4>3. QED
        BY <4>1, <4>2
    <3>3. CASE k # j
      <4>1. comp'[Slot(k)] = comp[Slot(k)]
        BY <1>8, <3>3, Slots4 DEF Tasks
      <4>2. /\ pc > HeadAt[k] + 1 <=> pc' > HeadAt[k] + 1
            /\ pc > HeadAt[k] + 2 <=> pc' > HeadAt[k] + 2
        BY <1>3, <1>4, <3>3, TaskFacts DEF Tasks
      <4>3. QED
        BY <1>3, <3>1, <4>1, <4>2, TaskFacts DEF Tasks
    <3>4. QED
      BY <3>2, <3>3
  <2>4. QED
    BY <2>2, <2>3 DEF RingInv, Slot
<1>11. QED
  BY <1>1, <1>2, <1>9, <1>10, DoAsyncKeeps, ExecuteFacts DEF Inv

LEMMA InterruptInv ==
  ASSUME Inv, Interrupt
  PROVE  Inv'
<1>1. /\ isr = "idle" /\ isr' = "check" /\ raced' = (raced \/ InDoAsync)
      /\ UNCHANGED <<comp, compHead, compTail, triple, pc, c, completed>>
  BY DEF Interrupt, ring
<1>2. Complete' = Complete /\ Taken' = Taken /\ Queued' = Queued
  BY <1>1 DEF Complete, Taken, Queued
<1>3. \A k \in Tasks : Returned(k)' <=> Returned(k)
  BY <1>1, <1>2 DEF Returned
<1>4. TypeInv'
  <2>1. raced' \in BOOLEAN
    BY <1>1
  <2>2. QED
    BY <1>1, <2>1 DEF Inv, TypeInv
<1>5. RingInv'
  BY <1>1, <1>2 DEF Inv, RingInv, Slot
<1>6. OrderInv' /\ ArgumentsInv'
  BY <1>1, <1>2 DEF Inv, OrderInv, ArgumentsInv
<1>7. FlagInv'
  BY <1>1, <1>2, <1>3 DEF Inv, FlagInv
<1>8. RaceInv'
  BY <1>1 DEF RaceInv, InDoAsync, Running
<1>9. QED
  BY <1>4, <1>5, <1>6, <1>7, <1>8 DEF Inv

LEMMA CheckInv ==
  ASSUME Inv, Check
  PROVE  Inv'
<1>1. /\ isr = "check"
      /\ UNCHANGED <<comp, compHead, triple, pc, c, completed, raced>>
  BY DEF Check
<1>2. \/ compHead # compTail /\ compTail' = After(compTail) /\ isr' = "copy"
      \/ compTail' = compTail /\ isr' = "idle"
  BY DEF Check
<1>3. RingInv /\ Complete \in Nat /\ Taken = Complete
  BY <1>1, LenProperties DEF Inv, TypeInv, Complete, Taken
<1>4. Complete' = Complete /\ Queued' = Queued /\ Queued \in 0..4
  BY <1>1 DEF Complete, Queued
<1>5. \A k \in Tasks : Returned(k)' <=> Returned(k)
  BY <1>1, <1>2, <1>4 DEF Returned
<1>6. TypeInv'
  BY <1>1, <1>2 DEF Inv, TypeInv
<1>7. RingInv'
  <2>1. compTail' = Slot(Taken') /\ Taken' <= Queued
    <3>1. CASE compHead # compTail /\ compTail' = After(compTail) /\ isr' = "copy"
      <4>1. Taken' = Taken + 1
        BY <1>3, <1>4, <3>1 DEF Taken
      <4>2. Taken # Queued
        BY <1>3, <3>1 DEF RingInv
      <4>3. Taken \in 0..3 /\ Taken + 1 <= Queued
        BY <1>3, <1>4, <4>2 DEF RingInv
      <4>4. QED
        BY <1>3, <3>1, <4>1, <4>3, AfterSlot DEF RingInv
    <3>2. CASE compTail' = compTail /\ isr' = "idle"
      <4>1. Taken' = Taken
        BY <1>3, <1>4, <3>2 DEF Taken
      <4>2. QED
        BY <1>3, <3>2, <4>1 DEF RingInv
    <3>3. QED
      BY <1>2, <3>1, <3>2
  <2>2. QED
    BY <1>1, <1>3, <1>4, <2>1 DEF RingInv, Slot
<1>8. OrderInv' /\ ArgumentsInv'
  BY <1>1, <1>2, <1>4 DEF Inv, OrderInv, ArgumentsInv
<1>9. FlagInv'
  BY <1>1, <1>4, <1>5 DEF Inv, FlagInv
<1>10. RaceInv'
  BY <1>1, <1>2 DEF Inv, RaceInv, InDoAsync, Running
<1>11. QED
  BY <1>6, <1>7, <1>8, <1>9, <1>10 DEF Inv

LEMMA CopyInv ==
  ASSUME Inv, Copy
  PROVE  Inv'
<1>1. /\ isr = "copy" /\ c' = comp[compTail]
      /\ isr' = IF NULL \in {c'.handler, c'.buf} THEN "crashed" ELSE "result"
      /\ UNCHANGED <<comp, compHead, compTail, triple, pc, completed, raced>>
  BY DEF Copy, ring
<1>2. isr' \in {"crashed", "result"}
  BY <1>1
<1>3. RingInv /\ Complete \in Nat /\ Taken = Complete + 1
  BY <1>1, LenProperties DEF Inv, TypeInv, Complete, Taken
<1>4. Complete' = Complete /\ Queued' = Queued /\ Queued \in 0..4 /\ Taken' = Taken
  BY <1>1, <1>2, <1>3 DEF Complete, Queued, Taken
<1>5. \A k \in Tasks : Returned(k)' <=> Returned(k)
  BY <1>1, <1>2, <1>4 DEF Returned
<1>6. PICK k \in Tasks : k = Complete + 1 /\ compTail = Slot(k) /\ k <= Queued
  BY <1>3, <1>4 DEF RingInv, Tasks
<1>7. /\ c'.handler = IF pc > HeadAt[k] + 1 THEN Functions[k] ELSE NULL
      /\ c'.buf = IF pc > HeadAt[k] + 2 THEN Order[k] ELSE NULL
  BY <1>1, <1>3, <1>6 DEF RingInv
<1>8. c \in Entry /\ c' \in Entry
  BY <1>1, <1>6, Slots4 DEF Inv, TypeInv, Tasks
<1>9. TypeInv'
  BY <1>1, <1>2, <1>8 DEF Inv, TypeInv
<1>10. RingInv'
  BY <1>1, <1>3, <1>4 DEF RingInv, Slot
<1>11. OrderInv'
  <2>1. \A i \in 1..Complete : completed[i] = Order[i]
    BY DEF Inv, OrderInv
  <2>2. isr' = "result" => c' = [handler |-> Functions[k], buf |-> Order[k]]
    <3>1. SUFFICES ASSUME isr' = "result"
                   PROVE  c'.handler = Functions[k] /\ c'.buf = Order[k]
      BY <1>8 DEF Entry
    <3>2. c'.handler # NULL /\ c'.buf # NULL
      BY <1>1, <3>1
    <3>3. QED
      BY <1>7, <3>2
  <2>3. isr' # "unlock"
    BY <1>2
  <2>4. QED
    BY <1>1, <1>4, <1>6, <2>1, <2>2, <2>3 DEF OrderInv
<1>12. ArgumentsInv'
  BY <1>1 DEF Inv, ArgumentsInv
<1>13. FlagInv'
  BY <1>1, <1>4, <1>5 DEF Inv, FlagInv
<1>14. RaceInv'
  <2>1. CASE isr' = "crashed"
    <3>1. Functions[k] # NULL /\ Order[k] # NULL
      BY TaskFacts DEF Tasks, NULL
    <3>2. NULL \in {c'.handler, c'.buf}
      BY <1>1, <2>1
    <3>3. pc \in 1..30 /\ HeadAt[k] \in Nat
      BY TaskFacts DEF Tasks, Inv, TypeInv
    <3>4. pc <= HeadAt[k] + 2
      <4>1. ASSUME pc > HeadAt[k] + 2 PROVE FALSE
        <5>1. pc > HeadAt[k] + 1
          BY <3>3, <4>1
        <5>2. QED
          BY <1>7, <3>1, <3>2, <4>1, <5>1
      <4>2. QED
        BY <3>3, <4>1
    <3>5. pc \in {8, 9, 11, 12, 19, 20, 26, 27}
      BY <1>6, <3>3, <3>4, TaskFacts DEF Tasks, Queued
    <3>6. InDoAsync
      BY <3>5, MainFacts DEF InDoAsync, Running
    <3>7. raced
      BY <1>1, <3>6 DEF Inv, RaceInv
    <3>8. QED
      BY <1>1, <3>7 DEF RaceInv
  <2>2. CASE isr' = "result"
    BY <1>1, <2>2 DEF Inv, RaceInv, InDoAsync, Running
  <2>3. QED
    BY <1>2, <2>1, <2>2
<1>15. QED
  BY <1>9, <1>10, <1>11, <1>12, <1>13, <1>14 DEF Inv

(* The handler has its task's arguments, as main has queued it. *)
LEMMA ResultFacts ==
  ASSUME Inv, isr = "result", Handler
  PROVE  \E k \in Tasks :
           /\ k = Complete + 1 /\ k <= Queued /\ Order[k] \in Triples
           /\ isr' = "unlock" /\ completed' = Append(completed, Order[k])
           /\ triple' = [triple EXCEPT ![Order[k]].result = Value[Order[k]]]
<1>1. /\ isr' = "unlock" /\ completed' = Append(completed, c.buf)
      /\ triple' = [triple EXCEPT ![c.buf].result = Compute(c.handler, triple[c.buf])]
  BY DEF Handler
<1>2. Complete \in Nat /\ Complete + 1 <= Queued /\ Queued \in 0..4
  BY LenProperties DEF Inv, TypeInv, RingInv, Complete, Taken, Queued
<1>3. PICK k \in Tasks : k = Complete + 1
  BY <1>2 DEF Tasks
<1>4. c.handler = Functions[k] /\ c.buf = Order[k] /\ Order[k] \in Triples
  BY <1>3, TaskFacts DEF Inv, OrderInv, Tasks, Triples
<1>5. pc \in 1..30 /\ pc > HeadAt[k]
  BY <1>2, <1>3, TaskFacts DEF Inv, TypeInv, Queued, Tasks
<1>6. Compute(Functions[k], triple[Order[k]]) = Value[Order[k]]
  <2>1. ArgumentsInv
    BY DEF Inv
  <2>2. CASE k = 1
    BY <1>5, <2>1, <2>2, TaskFacts DEF ArgumentsInv, Compute
  <2>3. CASE k = 2
    BY <1>5, <2>1, <2>3, TaskFacts DEF ArgumentsInv, Compute
  <2>4. CASE k = 3
    BY <1>5, <2>1, <2>4, TaskFacts DEF ArgumentsInv, Compute
  <2>5. CASE k = 4
    BY <1>5, <2>1, <2>5, TaskFacts DEF ArgumentsInv, Compute
  <2>6. QED
    BY <2>2, <2>3, <2>4, <2>5 DEF Tasks
<1>7. QED
  BY <1>1, <1>2, <1>3, <1>4, <1>6

LEMMA ResultInv ==
  ASSUME Inv, isr = "result", Handler
  PROVE  Inv'
<1>0. triple \in [Triples -> Triple] /\ completed \in Seq(Triples)
  BY DEF Inv, TypeInv
<1>1. PICK k \in Tasks :
        /\ k = Complete + 1 /\ k <= Queued /\ Order[k] \in Triples
        /\ isr' = "unlock" /\ completed' = Append(completed, Order[k])
        /\ triple' = [triple EXCEPT ![Order[k]].result = Value[Order[k]]]
  BY ResultFacts
<1>2. UNCHANGED <<comp, compHead, compTail, pc, c, raced>>
  BY DEF Handler, ring
<1>3. Complete \in Nat /\ Taken = k
  BY <1>0, <1>1, LenProperties DEF Complete, Taken
<1>4. /\ completed' \in Seq(Triples) /\ Complete' = k
      /\ completed'[k] = Order[k] /\ \A i \in 1..Complete : completed'[i] = completed[i]
  BY <1>0, <1>1, <1>3, AppendProperties DEF Complete
<1>5. Taken' = Taken /\ Queued' = Queued
  BY <1>1, <1>2, <1>3, <1>4 DEF Taken, Queued
<1>6. \A j \in Tasks : Returned(j)' <=> Returned(j)
  BY <1>1, <1>3, <1>4 DEF Returned, Tasks
<1>7. /\ triple' \in [Triples -> Triple]
      /\ \A u \in Triples : /\ triple'[u].arg0 = triple[u].arg0
                            /\ triple'[u].arg1 = triple[u].arg1
                            /\ triple'[u].locked = triple[u].locked
                            /\ u # Order[k] => triple'[u].result = triple[u].result
      /\ triple'[Order[k]].result = Value[Order[k]]
  <2>1. Value[Order[k]] \in Int
    BY TaskFacts DEF Tasks
  <2>2. QED
    BY <1>0, <1>1, <2>1 DEF Triple
<1>8. TypeInv'
  BY <1>1, <1>2, <1>4, <1>7 DEF Inv, TypeInv
<1>9. RingInv'
  BY <1>2, <1>5 DEF Inv, RingInv, Slot
<1>10. OrderInv'
  <2>1. \A i \in 1..k : completed'[i] = Order[i]
    <3>1. \A i \in 1..Complete : completed[i] = Order[i]
      BY DEF Inv, OrderInv
    <3>2. \A i \in 1..k : i \in 1..Complete \/ i = k
      BY <1>1, <1>3 DEF Tasks
    <3>3. QED
      BY <1>4, <3>1, <3>2
  <2>2. c'.buf = Order[k] /\ k > 0
    BY <1>1, <1>2, <1>3 DEF Inv, OrderInv
  <2>3. isr' = "unlock"
    BY <1>1
  <2>4. QED
    BY <1>4, <2>1, <2>2, <2>3 DEF OrderInv
<1>11. FlagInv'
  <2>1. FlagInv
    BY DEF Inv
  <2>2. ASSUME NEW j \in Tasks
        PROVE  /\ triple'[Order[j]].locked <=> pc > LockAt[j] /\ ~Returned(j)
               /\ j <= k => triple'[Order[j]].result = Value[Order[j]]
               /\ pc > SpinAt[j] => Returned(j)
    <3>1. Order[j] \in Triples /\ (j # k => Order[j] # Order[k])
      BY TaskFacts DEF Tasks, Triples
    <3>2. CASE j = k
      BY <1>7, <2>1, <3>1, <3>2 DEF FlagInv
    <3>3. CASE j # k
      <4>1. j <= k => j <= Complete
        BY <1>1, <1>3, <3>3 DEF Tasks
      <4>2. QED
        BY <1>7, <2>1, <3>1, <3>3, <4>1 DEF FlagInv
    <3>4. QED
      BY <3>2, <3>3
  <2>3. QED
    BY <1>2, <1>4, <1>6, <2>2 DEF FlagInv
<1>12. ArgumentsInv'
  BY <1>2, <1>7 DEF Inv, ArgumentsInv, Triples
<1>13. RaceInv'
  BY <1>1, <1>2 DEF Inv, RaceInv, InDoAsync, Running
<1>14. QED
  BY <1>8, <1>9, <1>10, <1>11, <1>12, <1>13 DEF Inv

LEMMA UnlockInv ==
  ASSUME Inv, isr = "unlock", Handler
  PROVE  Inv'
<1>0. triple \in [Triples -> Triple] /\ completed \in Seq(Triples)
  BY DEF Inv, TypeInv
<1>1. /\ isr' = "idle" /\ triple' = [triple EXCEPT ![c.buf].locked = FALSE]
      /\ UNCHANGED <<comp, compHead, compTail, pc, c, completed, raced>>
  BY DEF Handler, ring
<1>2. Complete \in 1..4 /\ Taken = Complete
  <2>1. Complete \in Nat /\ Taken = Complete
    BY <1>0, LenProperties DEF Complete, Taken
  <2>2. Taken <= Queued /\ Complete > 0
    BY DEF Inv, RingInv, OrderInv
  <2>3. Queued <= 4
    BY DEF Queued
  <2>4. QED
    BY <2>1, <2>2, <2>3 DEF Queued
<1>3. PICK k \in Tasks : k = Complete
  BY <1>2 DEF Tasks
<1>4. c.buf = Order[k] /\ Order[k] \in Triples
  BY <1>3, TaskFacts DEF Inv, OrderInv, Tasks, Triples
<1>5. Complete' = Complete /\ Taken' = Taken /\ Queued' = Queued
  BY <1>1, <1>2 DEF Complete, Taken, Queued
<1>6. \A j \in Tasks : (Returned(j)' <=> j <= k) /\ (Returned(j) <=> j < k)
  BY <1>1, <1>3, <1>5 DEF Returned, Tasks
<1>7. /\ triple' \in [Triples -> Triple]
      /\ \A u \in Triples : /\ triple'[u].arg0 = triple[u].arg0
                            /\ triple'[u].arg1 = triple[u].arg1
                            /\ triple'[u].result = triple[u].result
                            /\ u # Order[k] => triple'[u].locked = triple[u].locked
      /\ ~triple'[Order[k]].locked
  BY <1>0, <1>1, <1>4 DEF Triple
<1>8. TypeInv'
  BY <1>1, <1>7 DEF Inv, TypeInv
<1>9. RingInv'
  BY <1>1, <1>5 DEF Inv, RingInv, Slot
<1>10. OrderInv'
  BY <1>1, <1>5 DEF Inv, OrderInv
<1>11. FlagInv'
  <2>1. FlagInv
    BY DEF Inv
  <2>2. ASSUME NEW j \in Tasks
        PROVE  /\ triple'[Order[j]].locked <=> pc > LockAt[j] /\ ~Returned(j)'
               /\ j <= Complete => triple'[Order[j]].result = Value[Order[j]]
               /\ pc > SpinAt[j] => Returned(j)'
    <3>1. Order[j] \in Triples /\ (j # k => Order[j] # Order[k])
      BY TaskFacts DEF Tasks, Triples
    <3>2. CASE j = k
      BY <1>6, <1>7, <2>1, <3>1, <3>2 DEF FlagInv, Tasks
    <3>3. CASE j # k
      <4>1. Returned(j)' <=> Returned(j)
        BY <1>6, <3>3 DEF Tasks
      <4>2. QED
        BY <1>7, <2>1, <3>1, <3>3, <4>1 DEF FlagInv
    <3>4. QED
      BY <3>2, <3>3
  <2>3. QED
    BY <1>1, <1>5, <2>2 DEF FlagInv
<1>12. ArgumentsInv'
  BY <1>1, <1>7 DEF Inv, ArgumentsInv, Triples
<1>13. RaceInv'
  BY <1>1 DEF RaceInv
<1>14. QED
  BY <1>8, <1>9, <1>10, <1>11, <1>12, <1>13 DEF Inv

LEMMA NextInv == Inv /\ [Next]_vars => Inv'
<1> SUFFICES ASSUME Inv, [Next]_vars PROVE Inv'
  OBVIOUS
<1>1. ASSUME Assign PROVE Inv'
  <2>1. UNCHANGED <<comp, compHead>>
    BY <1>1 DEF Assign
  <2>2. CASE /\ Execute("set")
             /\ triple' = [triple EXCEPT ![Main[pc].to][Main[pc].field] = Main[pc].value]
    BY <2>1, <2>2, SetInv
  <2>3. CASE /\ Execute("get")
             /\ triple' = [triple EXCEPT ![Main[pc].to][Main[pc].field] = triple[Main[pc].of].result]
    BY <2>1, <2>3, GetInv
  <2>4. CASE Execute("lock") /\ triple' = [triple EXCEPT ![Main[pc].to].locked = TRUE]
    BY <2>1, <2>4, LockInv
  <2>5. QED
    BY <1>1, <2>2, <2>3, <2>4 DEF Assign
<1>2. ASSUME SpinEnds PROVE Inv'
  BY <1>2, SpinInv DEF SpinEnds
<1>3. ASSUME MainStep PROVE Inv'
  BY <1>1, <1>2, <1>3, HeadInv, FillInv, ReportInv DEF MainStep
<1>4. ASSUME Handler PROVE Inv'
  BY <1>4, ResultInv, UnlockInv DEF Handler
<1>5. ASSUME UNCHANGED vars PROVE Inv'
  <2>1. UNCHANGED <<comp, compHead, compTail, triple, pc, isr, c, completed, raced>>
    BY <1>5 DEF vars, ring
  <2>2. Complete' = Complete /\ Taken' = Taken /\ Queued' = Queued
    BY <2>1 DEF Complete, Taken, Queued
  <2>3. \A k \in Tasks : Returned(k)' <=> Returned(k)
    BY <2>1, <2>2 DEF Returned
  <2>4. TypeInv' /\ ArgumentsInv'
    BY <2>1 DEF Inv, TypeInv, ArgumentsInv
  <2>5. RingInv'
    BY <2>1, <2>2 DEF Inv, RingInv, Slot
  <2>6. OrderInv'
    BY <2>1, <2>2 DEF Inv, OrderInv
  <2>7. FlagInv'
    BY <2>1, <2>2, <2>3 DEF Inv, FlagInv
  <2>8. RaceInv'
    BY <2>1 DEF Inv, RaceInv, InDoAsync, Running
  <2>9. QED
    BY <2>4, <2>5, <2>6, <2>7, <2>8 DEF Inv
<1>6. QED
  BY <1>3, <1>4, <1>5, InterruptInv, CheckInv, CopyInv DEF Next, ISRStep

-----------------------------------------------------------------------------
(* What the six parts of Inv say is so throughout: of the ring, of the     *)
(* service routine, of the triples and of the signals in doAsync.          *)
THEOREM InvTheorem == Spec => []Inv
<1>1. Init => Inv
  BY InitInv
<1>2. Inv /\ [Next]_vars => Inv'
  BY NextInv
<1>3. QED
  BY <1>1, <1>2, PTL DEF Spec

(* When a flag that main has locked is back, the triple has the result it  *)
(* should have, wherever in main the signals have fallen.                  *)
THEOREM FlagMeansResultTheorem == Spec => []FlagMeansResult
<1>1. Inv => FlagMeansResult
  <2> SUFFICES ASSUME Inv, NEW t \in Triples, HasBeenLocked(t), ~triple[t].locked
               PROVE  triple[t].result = Value[t]
    BY DEF FlagMeansResult
  <2>1. PICK k \in Tasks : Order[k] = t
    <3>1. 1 \in Tasks /\ 2 \in Tasks /\ 3 \in Tasks /\ 4 \in Tasks
      BY DEF Tasks
    <3>2. QED
      BY <3>1, TaskFacts DEF Triples
  <2>2. PICK i \in 1..pc-1 : Main[i] = Lock(t)
    BY DEF HasBeenLocked
  <2>3. pc \in 1..30 /\ i \in 1..29
    BY <2>2 DEF Inv, TypeInv
  <2>4. i \in {3, 6, 17, 24}
    BY <2>2, <2>3, MainFacts DEF Lock
  <2>5. i = LockAt[k]
    <3>1. /\ i = 3 => Main[i].to = "t1"
          /\ i = 6 => Main[i].to = "t2"
          /\ i = 17 => Main[i].to = "t3"
          /\ i = 24 => Main[i].to = "t4"
      BY DEF Main, Lock
    <3>2. Main[i].to = Order[k]
      BY <2>1, <2>2 DEF Lock
    <3>3. QED
      BY <2>4, <3>1, <3>2, TaskFacts DEF Tasks
  <2>6. Returned(k)
    BY <2>1, <2>2, <2>3, <2>5 DEF Inv, FlagInv
  <2>7. k <= Complete
    BY <2>6, LenProperties DEF Returned, Tasks, Inv, TypeInv, Complete
  <2>8. QED
    BY <2>1, <2>7 DEF Inv, FlagInv
<1>2. QED
  BY <1>1, InvTheorem, PTL

(* The handlers complete the tasks in the order of doAsync, each once. *)
THEOREM CompletedInOrderTheorem == Spec => []CompletedInOrder
<1>1. Inv => CompletedInOrder
  <2> SUFFICES ASSUME Inv PROVE CompletedInOrder
    OBVIOUS
  <2>1. completed \in Seq(Triples) /\ \A k \in 1..Complete : completed[k] = Order[k]
    BY DEF Inv, TypeInv, OrderInv
  <2>2. Complete \in 0..4
    <3>1. Complete \in Nat
      BY <2>1, LenProperties DEF Complete
    <3>2. Complete <= Taken /\ Taken <= Queued /\ Queued <= 4
      BY <3>1 DEF Inv, RingInv, Taken, Queued
    <3>3. Taken \in Nat /\ Queued \in Nat
      BY <3>1 DEF Taken, Queued
    <3>4. QED
      BY <3>1, <3>2, <3>3
  <2>3. completed = SubSeq(Order, 1, Complete)
    <3>1. Order \in Seq(Triples) /\ Len(Order) = 4
      BY DEF Order, Triples
    <3>2. /\ SubSeq(Order, 1, Complete) \in Seq(Triples)
          /\ Len(SubSeq(Order, 1, Complete)) = Complete
          /\ \A k \in 1..Complete : SubSeq(Order, 1, Complete)[k] = Order[k]
      <4>1. \A k \in 1..Complete : Order[k] \in Triples
        BY <2>2, TaskFacts DEF Triples
      <4>2. /\ SubSeq(Order, 1, Complete) \in Seq(Triples)
            /\ Len(SubSeq(Order, 1, Complete)) = IF 1 <= Complete THEN Complete - 1 + 1 ELSE 0
            /\ \A k \in 1..Complete-1+1 : SubSeq(Order, 1, Complete)[k] = Order[1+k-1]
        BY <2>2, <4>1, SubSeqProperties
      <4>3. QED
        BY <2>2, <4>1, <4>2
    <3>3. QED
      BY <2>1, <3>2, SeqEqual DEF Complete
  <2>4. QED
    BY <2>2, <2>3 DEF CompletedInOrder, Order
<1>2. QED
  BY <1>1, InvTheorem, PTL

(* The service routine finds an entry with no task only if a signal has    *)
(* come in the middle of doAsync.                                          *)
THEOREM CrashNeedsRaceTheorem == Spec => []CrashNeedsRace
<1>1. Inv => CrashNeedsRace
  BY DEF Inv, RaceInv, CrashNeedsRace, Crashed
<1>2. QED
  BY <1>1, InvTheorem, PTL

(* The head never catches up with the tail.  A ring of four slots needs    *)
(* what main waits for: the third task has returned before the fourth      *)
(* moves the head.                                                         *)
THEOREM NeverFullTheorem == Spec => NeverFull
<1>1. Inv /\ [Next]_vars => [compHead' # compHead => compHead' # compTail]_vars
  <2> SUFFICES ASSUME Inv, Next, compHead' # compHead
               PROVE  compHead' # compTail
    OBVIOUS
  <2>1. DoAsyncHead
    BY DEF Next, MainStep, ISRStep, Interrupt, Check, Copy, Handler, Assign,
       SpinEnds, DoAsyncFill, Report, ring
  <2>2. pc \in {7, 10, 18, 25} /\ Taken \in Nat
    BY <2>1, ExecuteFacts, MainFacts DEF DoAsyncHead
  <2>3. Queued \in 0..3 /\ Taken <= Queued /\ compTail = Slot(Taken) /\ compHead = Slot(Queued)
    BY <2>2 DEF Queued, Inv, RingInv
  <2>4. compHead' = Slot(Queued + 1)
    BY <2>1, <2>3, AfterSlot DEF DoAsyncHead
  <2>5. Queued = 3 => Taken = 3
    <3>1. 3 \in Tasks
      BY DEF Tasks
    <3>2. Queued = 3 => Returned(3)
      BY <2>2, <3>1, TaskFacts DEF Inv, FlagInv, Queued
    <3>3. Returned(3) => 3 <= Taken
      BY <2>1, <3>1, ExecuteFacts DEF DoAsyncHead
    <3>4. QED
      BY <2>2, <2>3, <3>2, <3>3
  <2>6. Slot(Queued + 1) # Slot(Taken)
    BY <2>2, <2>3, <2>5, SlotsAssumption DEF Slot
  <2>7. QED
    BY <2>3, <2>4, <2>6
<1>2. QED
  BY <1>1, InvTheorem, PTL DEF Spec, NeverFull
============================================================================
