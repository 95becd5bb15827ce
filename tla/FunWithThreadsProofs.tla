------------------------ MODULE FunWithThreadsProofs ------------------------
(***************************************************************************)
(* FunWithThreads.java for any number of reads and any sizes of pool.      *)
(***************************************************************************)
EXTENDS FunWithThreads, SequenceTheorems, FiniteSetTheorems, TLAPS

Phases == {"new", "submitted", "reading", "loaded", "done"}
Done == {r \in Requests : phase[r] = "done"}

(* The requests that have been handed out, with those of the pool: main    *)
(* submits them in order, so the pool's are the last ones.                 *)
Submitted == IF pc = "start" THEN i ELSE ReadCount

(* One read at a time: main's own, or a pool of one thread.                *)
OneAtATime == mode = "sequential" \/ (mode = "executor" /\ threadCount = 1)

(* In that case the requests before count are done and the next one may be *)
(* with a reader.                                                          *)
Taken == IF Busy = {} THEN count ELSE count + 1

TypeInv ==
  /\ mode \in {"sequential", "threads", "executor"}
  /\ threadCount \in ThreadCounts
  /\ pc \in IF mode = "sequential" THEN {"read", "done"} ELSE {"start", "join", "done"}
  /\ i \in 0..ReadCount
  /\ phase \in [Requests -> Phases]
  /\ pool \in Seq(Requests)
  /\ reg \in [Requests -> Nat]
  /\ DOMAIN result = Requests /\ DOMAIN val = Requests
  /\ count \in Nat

(* The pool's queue ends with what was submitted last, and all of it is    *)
(* still to be read; what main has not come to is untouched.               *)
PoolInv ==
  /\ pc = "start" => \A r \in Requests : r >= i => phase[r] = "new"
  /\ mode # "executor" => pool = <<>>
  /\ Len(pool) <= Submitted
  /\ \A k \in 1..Len(pool) : /\ pool[k] = Submitted - Len(pool) + k - 1
                             /\ phase[pool[k]] = "submitted"

(* What main has collected is the result of a read that is done.           *)
CollectedInv ==
  /\ pc = "done" => i = ReadCount
  /\ \A r \in Requests :
       /\ phase[r] = "done" => result[r] = Encode(reg[r], r)
       /\ pc # "start" /\ r < i => phase[r] = "done" /\ val[r] = result[r]

(* Every number that a read has seen counts reads done before it stored.   *)
CountInv ==
  /\ count <= Cardinality(Done)
  /\ \A r \in Requests : /\ phase[r] = "loaded" => reg[r] <= Cardinality(Done)
                         /\ phase[r] = "done" => reg[r] \in Requests

OrderInv == OneAtATime =>
  /\ \A r \in Requests :
       /\ phase[r] = "done" <=> r < count
       /\ r \in Busy => r = count
       /\ phase[r] \in {"loaded", "done"} => reg[r] = r
  /\ count <= ReadCount
  /\ mode = "executor" => Submitted - Len(pool) = Taken

Inv == TypeInv /\ PoolInv /\ CollectedInv /\ CountInv /\ OrderInv

-----------------------------------------------------------------------------
LEMMA RequestFacts ==
  /\ ReadCount \in Nat /\ Requests \subseteq Nat /\ IsFiniteSet(Requests)
  /\ Cardinality(Requests) = ReadCount
  /\ \A r \in Nat : r \in Requests <=> r < ReadCount
<1>1. ReadCount \in Nat
  BY FunAssumption
<1>2. IsFiniteSet(0..ReadCount-1) /\ Cardinality(0..ReadCount-1) = ReadCount
  BY <1>1, FS_Interval
<1>3. QED
  BY <1>1, <1>2 DEF Requests

LEMMA DoneFacts ==
  /\ IsFiniteSet(Done) /\ Cardinality(Done) \in Nat
  /\ \A r \in Requests : phase[r] # "done" => Cardinality(Done) < ReadCount
<1>1. IsFiniteSet(Requests) /\ Cardinality(Requests) = ReadCount
  BY RequestFacts
<1>2. Done \subseteq Requests
  BY DEF Done
<1>3. IsFiniteSet(Done) /\ Cardinality(Done) \in Nat
  BY <1>1, <1>2, FS_Subset, FS_CardinalityType
<1>4. ASSUME NEW r \in Requests, phase[r] # "done"
      PROVE  Cardinality(Done) < ReadCount
  <2>1. Done \subseteq Requests \ {r}
    BY <1>4 DEF Done
  <2>2. IsFiniteSet(Requests \ {r}) /\ Cardinality(Requests \ {r}) = ReadCount - 1
    BY <1>1, FS_RemoveElement
  <2>3. Cardinality(Done) <= ReadCount - 1
    BY <2>1, <2>2, FS_Subset
  <2>4. QED
    BY <1>3, <2>3, RequestFacts
<1>5. QED
  BY <1>3, <1>4

LEMMA BecomesFacts ==
  ASSUME TypeInv, NEW r \in Requests, NEW p \in Phases, Becomes(r, p)
  PROVE  /\ phase' \in [Requests -> Phases]
         /\ phase'[r] = p
         /\ \A q \in Requests : q # r => phase'[q] = phase[q]
BY DEF TypeInv, Becomes

LEMMA DoneKept ==
  ASSUME TypeInv, NEW r \in Requests, NEW p \in Phases, Becomes(r, p),
         phase[r] # "done", p # "done"
  PROVE  Done' = Done
BY BecomesFacts DEF Done

LEMMA InitInv == Init => Inv
<1> SUFFICES ASSUME Init PROVE Inv
  OBVIOUS
<1>1. TypeInv
  BY RequestFacts, EmptySeq DEF Init, TypeInv, Phases
<1>2. pool = <<>> /\ Len(pool) = 0 /\ Submitted \in Nat /\ i = 0 /\ count = 0
  BY RequestFacts DEF Init, Submitted
<1>3. pc \in {"read", "start"} /\ \A r \in Requests : phase[r] = "new"
  BY DEF Init
<1>4. PoolInv
  BY <1>2, <1>3 DEF PoolInv
<1>5. CollectedInv
  BY <1>2, <1>3, RequestFacts DEF CollectedInv
<1>6. CountInv
  BY <1>2, <1>3, DoneFacts DEF CountInv
<1>7. Busy = {}
  BY <1>3 DEF Busy
<1>8. OrderInv
  <2>1. mode = "executor" => pc = "start"
    BY DEF Init
  <2>2. mode = "executor" => Submitted = 0
    BY <1>2, <2>1 DEF Submitted
  <2>3. \A r \in Requests : phase[r] = "new" /\ r \notin Busy /\ ~(r < count)
    BY <1>2, <1>3, <1>7, RequestFacts
  <2>4. QED
    BY <1>2, <1>7, <2>2, <2>3, RequestFacts DEF OrderInv, Taken
<1>9. QED
  BY <1>1, <1>4, <1>5, <1>6, <1>8 DEF Inv

(* A request goes on, other than to its end: what is collected, and what   *)
(* the numbers count, stays.                                               *)
LEMMA StartedKeeps ==
  ASSUME Inv, NEW r \in Requests, NEW p \in {"submitted", "reading"}, Becomes(r, p),
         phase[r] # "done", pc' = pc, pc = "start" \/ i' = i,
         UNCHANGED <<reg, result, val, count>>
  PROVE  CollectedInv' /\ CountInv'
<1>1. TypeInv /\ p \in Phases
  BY DEF Inv, Phases
<1>2. phase'[r] = p /\ \A q \in Requests : q # r => phase'[q] = phase[q]
  BY <1>1, BecomesFacts
<1>3. CollectedInv'
  <2>1. pc' = "done" => i' = ReadCount
    BY DEF Inv, CollectedInv
  <2>2. ASSUME NEW q \in Requests
        PROVE  /\ phase'[q] = "done" => result'[q] = Encode(reg[q], q)
               /\ pc' # "start" /\ q < i' => phase'[q] = "done" /\ val'[q] = result'[q]
    BY <1>2 DEF Inv, CollectedInv
  <2>3. QED
    BY <2>1, <2>2 DEF CollectedInv
<1>4. CountInv'
  <2>1. Done' = Done
    BY <1>1, DoneKept
  <2>2. QED
    BY <1>2, <2>1 DEF Inv, CountInv
<1>5. QED
  BY <1>3, <1>4

LEMMA CallReadInv ==
  ASSUME Inv, CallRead
  PROVE  Inv'
<1>1. /\ pc = "read" /\ i < ReadCount /\ phase[i] = "new" /\ Becomes(i, "reading")
      /\ UNCHANGED <<mode, threadCount, pc, i, pool, reg, result, val, count>>
  BY DEF CallRead, args
<1>2. TypeInv /\ mode = "sequential"
  BY <1>1 DEF Inv, TypeInv
<1>3. i \in Requests /\ ReadCount \in Nat
  BY <1>1, <1>2, RequestFacts DEF TypeInv
<1>4. /\ phase' \in [Requests -> Phases] /\ phase'[i] = "reading"
      /\ \A q \in Requests : q # i => phase'[q] = phase[q]
  BY <1>1, <1>2, <1>3, BecomesFacts DEF Phases
<1>5. TypeInv'
  BY <1>1, <1>2, <1>4 DEF TypeInv
<1>6. CollectedInv' /\ CountInv'
  BY <1>1, <1>3, StartedKeeps
<1>7. PoolInv'
  <2>1. pool = <<>> /\ Len(pool) = 0 /\ Submitted' = Submitted
    BY <1>1, <1>2 DEF Inv, PoolInv, Submitted
  <2>2. QED
    BY <1>1, <1>2, <2>1 DEF Inv, PoolInv
<1>8. OrderInv'
  <2>1. OrderInv /\ OneAtATime
    BY <1>2 DEF Inv, OneAtATime
  <2>2. i = count
    <3>1. ~(i < count)
      BY <1>1, <1>3, <2>1 DEF OrderInv
    <3>2. count \in Nat /\ count <= ReadCount /\ i \in Nat
      BY <1>2, <2>1 DEF TypeInv, OrderInv
    <3>3. ASSUME count < i PROVE FALSE
      <4>1. count \in Requests
        BY <1>1, <1>3, <3>2, <3>3, RequestFacts
      <4>2. phase[count] = "done"
        BY <1>1, <3>3, <4>1 DEF Inv, CollectedInv
      <4>3. QED
        BY <2>1, <3>2, <4>1, <4>2 DEF OrderInv
    <3>4. QED
      BY <3>1, <3>2, <3>3
  <2>3. ASSUME NEW r \in Requests
        PROVE  /\ phase'[r] = "done" <=> r < count
               /\ phase'[r] \in {"reading", "loaded"} => r = count
               /\ phase'[r] \in {"loaded", "done"} => reg[r] = r
    <3>1. CASE r = i
      <4>1. ~(r < count)
        BY <1>3, <2>2, <3>1, RequestFacts
      <4>2. QED
        BY <1>4, <2>2, <3>1, <4>1
    <3>2. CASE r # i
      BY <1>4, <2>1, <3>2 DEF OrderInv, Busy
    <3>3. QED
      BY <3>1, <3>2
  <2>4. mode' # "executor"
    BY <1>1, <1>2
  <2>5. QED
    BY <1>1, <2>1, <2>3, <2>4 DEF OrderInv, Busy
<1>9. QED
  BY <1>5, <1>6, <1>7, <1>8 DEF Inv

LEMMA StartThreadInv ==
  ASSUME Inv, StartThread
  PROVE  Inv'
<1>1. /\ pc = "start" /\ i < ReadCount /\ mode = "threads" /\ Becomes(i, "reading") /\ i' = i + 1
      /\ UNCHANGED <<mode, threadCount, pc, pool, reg, result, val, count>>
  BY DEF StartThread, args
<1>2. TypeInv
  BY DEF Inv
<1>3. i \in Requests /\ ReadCount \in Nat /\ i \in Nat
  BY <1>1, <1>2, RequestFacts DEF TypeInv
<1>4. /\ phase' \in [Requests -> Phases] /\ phase'[i] = "reading"
      /\ \A q \in Requests : q # i => phase'[q] = phase[q]
  BY <1>1, <1>2, <1>3, BecomesFacts DEF Phases
<1>5. TypeInv'
  BY <1>1, <1>2, <1>3, <1>4 DEF TypeInv
<1>6. \A r \in Requests : r >= i => phase[r] = "new"
  BY <1>1 DEF Inv, PoolInv
<1>7. CollectedInv' /\ CountInv'
  <2>1. phase[i] # "done"
    BY <1>3, <1>6
  <2>2. QED
    BY <1>1, <1>3, <2>1, StartedKeeps
<1>8. PoolInv'
  <2>1. pool = <<>> /\ Len(pool) = 0
    BY <1>1 DEF Inv, PoolInv
  <2>2. Submitted' = i + 1
    BY <1>1 DEF Submitted
  <2>3. \A r \in Requests : r >= i' => phase'[r] = "new"
    BY <1>1, <1>3, <1>4, <1>6, RequestFacts
  <2>4. QED
    BY <1>1, <1>3, <2>1, <2>2, <2>3 DEF PoolInv
<1>9. OrderInv'
  BY <1>1 DEF OrderInv, OneAtATime
<1>10. QED
  BY <1>5, <1>7, <1>8, <1>9 DEF Inv

LEMMA SubmitInv ==
  ASSUME Inv, Submit
  PROVE  Inv'
<1>1. /\ pc = "start" /\ i < ReadCount /\ mode = "executor" /\ Becomes(i, "submitted")
      /\ pool' = Append(pool, i) /\ i' = i + 1
      /\ UNCHANGED <<mode, threadCount, pc, reg, result, val, count>>
  BY DEF Submit, args
<1>2. TypeInv
  BY DEF Inv
<1>3. i \in Requests /\ ReadCount \in Nat /\ i \in Nat
  BY <1>1, <1>2, RequestFacts DEF TypeInv
<1>4. /\ phase' \in [Requests -> Phases] /\ phase'[i] = "submitted"
      /\ \A q \in Requests : q # i => phase'[q] = phase[q]
  BY <1>1, <1>2, <1>3, BecomesFacts DEF Phases
<1>5. /\ pool \in Seq(Requests) /\ pool' \in Seq(Requests)
      /\ Len(pool) \in Nat /\ Len(pool') = Len(pool) + 1 /\ pool'[Len(pool) + 1] = i
      /\ \A k \in 1..Len(pool) : pool'[k] = pool[k] /\ pool[k] \in Requests
  BY <1>1, <1>2, <1>3, AppendProperties, LenProperties, ElementOfSeq DEF TypeInv
<1>6. TypeInv'
  BY <1>1, <1>2, <1>3, <1>4, <1>5 DEF TypeInv
<1>7. \A r \in Requests : r >= i => phase[r] = "new"
  BY <1>1 DEF Inv, PoolInv
<1>8. CollectedInv' /\ CountInv'
  <2>1. phase[i] # "done"
    BY <1>3, <1>7
  <2>2. QED
    BY <1>1, <1>3, <2>1, StartedKeeps
<1>9. Submitted = i /\ Submitted' = i + 1
  BY <1>1 DEF Submitted
<1>10. PoolInv'
  <2>1. \A r \in Requests : r >= i' => phase'[r] = "new"
    BY <1>1, <1>3, <1>4, <1>7, RequestFacts
  <2>2. ASSUME NEW k \in 1..Len(pool')
        PROVE  pool'[k] = Submitted' - Len(pool') + k - 1 /\ phase'[pool'[k]] = "submitted"
    <3>1. CASE k = Len(pool) + 1
      BY <1>3, <1>4, <1>5, <1>9, <3>1
    <3>2. CASE k \in 1..Len(pool)
      <4>1. pool[k] = i - Len(pool) + k - 1 /\ phase[pool[k]] = "submitted"
        BY <1>9, <3>2 DEF Inv, PoolInv
      <4>2. pool[k] # i
        BY <1>3, <1>5, <3>2, <4>1
      <4>3. QED
        BY <1>3, <1>4, <1>5, <1>9, <3>2, <4>1, <4>2
    <3>3. QED
      BY <1>5, <3>1, <3>2
  <2>3. Len(pool') <= Submitted'
    BY <1>3, <1>5, <1>9 DEF Inv, PoolInv
  <2>4. QED
    BY <1>1, <2>1, <2>2, <2>3 DEF PoolInv
<1>11. OrderInv'
  <2> SUFFICES ASSUME OneAtATime' PROVE OrderInv'
    BY DEF OrderInv
  <2>1. OneAtATime /\ OrderInv
    BY <1>1 DEF OneAtATime, Inv
  <2>2. phase[i] = "new"
    BY <1>3, <1>7
  <2>3. Busy' = Busy
    BY <1>4, <2>2 DEF Busy
  <2>4. Taken' = Taken /\ Submitted' - Len(pool') = Submitted - Len(pool)
    BY <1>1, <1>3, <1>5, <1>9, <2>3 DEF Taken
  <2>5. \A r \in Requests : /\ phase'[r] = "done" <=> phase[r] = "done"
                            /\ phase'[r] \in {"loaded", "done"} <=> phase[r] \in {"loaded", "done"}
    BY <1>4, <2>2
  <2>6. count <= ReadCount /\ UNCHANGED <<count, reg>>
    BY <1>1, <2>1 DEF OrderInv
  <2>7. \A r \in Requests : /\ phase'[r] = "done" <=> r < count
                            /\ r \in Busy' => r = count
                            /\ phase'[r] \in {"loaded", "done"} => reg[r] = r
    BY <2>1, <2>3, <2>5 DEF OrderInv
  <2>8. Submitted' - Len(pool') = Taken'
    BY <1>1, <2>1, <2>4 DEF OrderInv
  <2>9. QED
    <3>1. count' <= ReadCount /\ (mode' = "executor" => Submitted' - Len(pool') = Taken')
      BY <2>6, <2>8
    <3>2. \A r \in Requests : /\ phase'[r] = "done" <=> r < count'
                              /\ r \in Busy' => r = count'
                              /\ phase'[r] \in {"loaded", "done"} => reg'[r] = r
      BY <2>6, <2>7
    <3>3. QED
      BY <3>1, <3>2 DEF OrderInv
<1>12. QED
  BY <1>6, <1>8, <1>10, <1>11 DEF Inv

LEMMA WorkerTakesInv ==
  ASSUME Inv, WorkerTakes
  PROVE  Inv'
<1>1. /\ pool # <<>> /\ Cardinality(Busy) < threadCount /\ Becomes(Head(pool), "reading")
      /\ pool' = Tail(pool)
      /\ UNCHANGED <<mode, threadCount, pc, i, reg, result, val, count>>
  BY DEF WorkerTakes, args
<1>2. TypeInv /\ PoolInv
  BY DEF Inv
<1>3. /\ pool \in Seq(Requests) /\ Len(pool) \in Nat /\ Len(pool) > 0
      /\ Head(pool) = pool[1] /\ pool[1] \in Requests
  BY <1>1, <1>2, EmptySeq, LenProperties, HeadTailProperties, ElementOfSeq DEF
     TypeInv
<1>4. /\ pool' \in Seq(Requests) /\ Len(pool') = Len(pool) - 1
      /\ \A k \in 1..Len(pool') : pool'[k] = pool[k + 1]
  BY <1>1, <1>3, HeadTailProperties
<1>5. mode = "executor" /\ pc \in {"start", "join", "done"}
  BY <1>1, <1>2 DEF PoolInv, TypeInv
<1>6. Submitted \in Nat /\ Submitted' = Submitted /\ ReadCount \in Nat
  BY <1>1, <1>2, RequestFacts DEF Submitted, TypeInv
<1>7. pool[1] = Submitted - Len(pool) /\ phase[pool[1]] = "submitted"
  BY <1>2, <1>3, <1>6 DEF PoolInv
<1>8. /\ phase' \in [Requests -> Phases] /\ phase'[pool[1]] = "reading"
      /\ \A q \in Requests : q # pool[1] => phase'[q] = phase[q]
  BY <1>1, <1>2, <1>3, BecomesFacts DEF Phases
<1>9. TypeInv'
  BY <1>1, <1>2, <1>4, <1>8 DEF TypeInv
<1>10. CollectedInv' /\ CountInv'
  BY <1>1, <1>3, <1>7, StartedKeeps
<1>11. PoolInv'
  <2>1. pc = "start" => \A r \in Requests : r >= i => phase'[r] = "new"
    BY <1>2, <1>7, <1>8 DEF PoolInv
  <2>2. ASSUME NEW k \in 1..Len(pool')
        PROVE  pool'[k] = Submitted - Len(pool') + k - 1 /\ phase'[pool'[k]] = "submitted"
    <3>1. k + 1 \in 1..Len(pool) /\ k \in Nat
      BY <1>3, <1>4
    <3>2. pool[k + 1] = Submitted - Len(pool) + (k + 1) - 1 /\ phase[pool[k + 1]] = "submitted"
      BY <1>2, <3>1 DEF PoolInv
    <3>3. pool[k + 1] \in Requests /\ pool[k + 1] # pool[1]
      BY <1>3, <1>4, <1>6, <1>7, <3>1, <3>2, ElementOfSeq
    <3>4. QED
      BY <1>3, <1>4, <1>6, <1>8, <3>1, <3>2, <3>3
  <2>3. Len(pool') <= Submitted
    BY <1>2, <1>3, <1>4, <1>6 DEF PoolInv
  <2>4. QED
    BY <1>1, <1>5, <1>6, <2>1, <2>2, <2>3 DEF PoolInv
<1>12. OrderInv'
  <2> SUFFICES ASSUME OneAtATime' PROVE OrderInv'
    BY DEF OrderInv
  <2>1. OneAtATime /\ OrderInv /\ threadCount = 1
    BY <1>1, <1>5 DEF OneAtATime, Inv
  <2>2. Busy = {}
    <3>1. IsFiniteSet(Busy)
      BY RequestFacts, FS_Subset DEF Busy
    <3>2. Cardinality(Busy) = 0
      BY <1>1, <2>1, <3>1, FS_CardinalityType
    <3>3. QED
      BY <3>1, <3>2, FS_EmptySet
  <2>3. pool[1] = count /\ count \in Nat
    BY <1>2, <1>5, <1>7, <2>1, <2>2 DEF OrderInv, Taken, TypeInv
  <2>4. Busy' = {pool[1]}
    BY <1>3, <1>8, <2>2 DEF Busy
  <2>5. Submitted' - Len(pool') = Taken'
    BY <1>1, <1>3, <1>4, <1>6, <1>7, <2>3, <2>4 DEF Taken
  <2>6. \A r \in Requests : /\ phase'[r] = "done" <=> phase[r] = "done"
                            /\ phase'[r] \in {"loaded", "done"} <=> phase[r] \in {"loaded", "done"}
    BY <1>7, <1>8
  <2>7. \A r \in Requests : r \in Busy' => r = count
    BY <2>3, <2>4
  <2>8. count <= ReadCount /\ UNCHANGED <<count, reg>>
    BY <1>1, <2>1 DEF OrderInv
  <2>9. \A r \in Requests : /\ phase'[r] = "done" <=> r < count
                            /\ phase'[r] \in {"loaded", "done"} => reg[r] = r
    BY <2>1, <2>6 DEF OrderInv
  <2>10. QED
    <3>1. count' <= ReadCount /\ (mode' = "executor" => Submitted' - Len(pool') = Taken')
      BY <2>5, <2>8
    <3>2. \A r \in Requests : /\ phase'[r] = "done" <=> r < count'
                              /\ r \in Busy' => r = count'
                              /\ phase'[r] \in {"loaded", "done"} => reg'[r] = r
      BY <2>7, <2>8, <2>9
    <3>3. QED
      BY <3>1, <3>2 DEF OrderInv
<1>13. QED
  BY <1>9, <1>10, <1>11, <1>12 DEF Inv

LEMMA AllStartedInv ==
  ASSUME Inv, AllStarted
  PROVE  Inv'
<1>1. /\ pc = "start" /\ i = ReadCount /\ pc' = "join" /\ i' = 0
      /\ UNCHANGED <<mode, threadCount, phase, pool, reg, result, val, count>>
  BY DEF AllStarted, args
<1>2. ReadCount \in Nat /\ Submitted = ReadCount /\ Submitted' = ReadCount
  BY <1>1, RequestFacts DEF Submitted
<1>3. TypeInv'
  BY <1>1, <1>2 DEF Inv, TypeInv
<1>4. PoolInv'
  BY <1>1, <1>2 DEF Inv, PoolInv
<1>5. CollectedInv'
  <2>1. \A r \in Requests : ~(r < 0)
    BY RequestFacts
  <2>2. QED
    BY <1>1, <2>1 DEF Inv, CollectedInv
<1>6. CountInv'
  BY <1>1 DEF Inv, CountInv, Done
<1>7. OrderInv'
  BY <1>1, <1>2 DEF Inv, OrderInv, OneAtATime, Busy, Taken
<1>8. QED
  BY <1>3, <1>4, <1>5, <1>6, <1>7 DEF Inv

LEMMA CollectInv ==
  ASSUME Inv, Collect
  PROVE  Inv'
<1>1. /\ pc \in {"read", "join"} /\ i < ReadCount /\ phase[i] = "done"
      /\ val' = [val EXCEPT ![i] = result[i]] /\ i' = i + 1
      /\ UNCHANGED <<mode, threadCount, pc, phase, pool, reg, result, count>>
  BY DEF Collect, args
<1>2. i \in Requests /\ i \in Nat /\ ReadCount \in Nat
  BY <1>1, RequestFacts DEF Inv, TypeInv
<1>3. TypeInv'
  BY <1>1, <1>2 DEF Inv, TypeInv
<1>4. Submitted' = Submitted
  BY <1>1 DEF Submitted
<1>5. PoolInv'
  BY <1>1, <1>4 DEF Inv, PoolInv
<1>6. CollectedInv'
  <2>1. ASSUME NEW r \in Requests, r < i'
        PROVE  phase'[r] = "done" /\ val'[r] = result'[r]
    <3>1. DOMAIN val = Requests
      BY DEF Inv, TypeInv
    <3>2. CASE r = i
      BY <1>1, <1>2, <3>1, <3>2
    <3>3. CASE r # i
      <4>1. r < i /\ pc # "start"
        BY <1>1, <1>2, <2>1, <3>3, RequestFacts
      <4>2. phase[r] = "done" /\ val[r] = result[r]
        BY <4>1 DEF Inv, CollectedInv
      <4>3. QED
        BY <1>1, <3>1, <3>3, <4>2
    <3>4. QED
      BY <3>2, <3>3
  <2>2. pc' # "done"
    BY <1>1
  <2>3. \A r \in Requests : phase'[r] = "done" => result'[r] = Encode(reg'[r], r)
    BY <1>1 DEF Inv, CollectedInv
  <2>4. QED
    BY <2>1, <2>2, <2>3 DEF CollectedInv
<1>7. CountInv'
  BY <1>1 DEF Inv, CountInv, Done
<1>8. OrderInv'
  BY <1>1, <1>4 DEF Inv, OrderInv, OneAtATime, Busy, Taken
<1>9. QED
  BY <1>3, <1>5, <1>6, <1>7, <1>8 DEF Inv

LEMMA ReturnInv ==
  ASSUME Inv, Return
  PROVE  Inv'
<1>1. /\ pc \in {"read", "join"} /\ i = ReadCount /\ pc' = "done"
      /\ UNCHANGED <<mode, threadCount, i, phase, pool, reg, result, val, count>>
  BY DEF Return, args
<1>2. TypeInv'
  BY <1>1 DEF Inv, TypeInv
<1>3. Submitted' = Submitted
  BY <1>1 DEF Submitted
<1>4. PoolInv'
  BY <1>1, <1>3 DEF Inv, PoolInv
<1>5. CollectedInv'
  BY <1>1 DEF Inv, CollectedInv
<1>6. CountInv'
  BY <1>1 DEF Inv, CountInv, Done
<1>7. OrderInv'
  BY <1>1, <1>3 DEF Inv, OrderInv, OneAtATime, Busy, Taken
<1>8. QED
  BY <1>2, <1>4, <1>5, <1>6, <1>7 DEF Inv

LEMMA LoadCountInv ==
  ASSUME Inv, NEW r \in Requests, LoadCount(r)
  PROVE  Inv'
<1>1. /\ phase[r] = "reading" /\ reg' = [reg EXCEPT ![r] = count] /\ Becomes(r, "loaded")
      /\ UNCHANGED <<mode, threadCount, pc, i, pool, result, val, count>>
  BY DEF LoadCount, args
<1>2. TypeInv
  BY DEF Inv
<1>3. /\ phase' \in [Requests -> Phases] /\ phase'[r] = "loaded"
      /\ \A q \in Requests : q # r => phase'[q] = phase[q]
  BY <1>1, <1>2, BecomesFacts DEF Phases
<1>4. reg' \in [Requests -> Nat] /\ reg'[r] = count /\ \A q \in Requests : q # r => reg'[q] = reg[q]
  BY <1>1, <1>2 DEF TypeInv
<1>5. TypeInv'
  BY <1>1, <1>2, <1>3, <1>4 DEF TypeInv
<1>6. Submitted' = Submitted
  BY <1>1 DEF Submitted
<1>7. PoolInv'
  <2>1. pc = "start" => \A q \in Requests : q >= i => phase'[q] = "new"
    BY <1>1, <1>3 DEF Inv, PoolInv
  <2>2. ASSUME NEW k \in 1..Len(pool)
        PROVE  pool[k] = Submitted - Len(pool) + k - 1 /\ phase'[pool[k]] = "submitted"
    <3>1. pool[k] = Submitted - Len(pool) + k - 1 /\ phase[pool[k]] = "submitted"
      BY DEF Inv, PoolInv
    <3>2. pool[k] \in Requests /\ pool[k] # r
      BY <1>1, <1>2, <3>1, ElementOfSeq DEF TypeInv
    <3>3. QED
      BY <1>3, <3>1, <3>2
  <2>3. QED
    BY <1>1, <1>6, <2>1, <2>2 DEF Inv, PoolInv
<1>8. CollectedInv'
  <2>1. ASSUME NEW q \in Requests
        PROVE  /\ phase'[q] = "done" => result[q] = Encode(reg'[q], q)
               /\ pc # "start" /\ q < i => phase'[q] = "done" /\ val[q] = result[q]
    <3>1. CASE q = r
      BY <1>1, <1>3, <3>1 DEF Inv, CollectedInv
    <3>2. CASE q # r
      BY <1>3, <1>4, <3>2 DEF Inv, CollectedInv
    <3>3. QED
      BY <3>1, <3>2
  <2>2. QED
    BY <1>1, <2>1 DEF Inv, CollectedInv
<1>9. CountInv'
  <2>1. Done' = Done
    BY <1>1, <1>2, DoneKept DEF Phases
  <2>2. CountInv
    BY DEF Inv
  <2>3. ASSUME NEW q \in Requests
        PROVE  /\ phase'[q] = "loaded" => reg'[q] <= Cardinality(Done)
               /\ phase'[q] = "done" => reg'[q] \in Requests
    <3>1. CASE q = r
      BY <1>3, <1>4, <2>2, <3>1 DEF CountInv
    <3>2. CASE q # r
      BY <1>3, <1>4, <2>2, <3>2 DEF CountInv
    <3>3. QED
      BY <3>1, <3>2
  <2>4. QED
    BY <1>1, <2>1, <2>2, <2>3 DEF CountInv
<1>10. OrderInv'
  <2> SUFFICES ASSUME OneAtATime' PROVE OrderInv'
    BY DEF OrderInv
  <2>1. OneAtATime /\ OrderInv
    BY <1>1 DEF OneAtATime, Inv
  <2>2. Busy' = Busy /\ r \in Busy
    BY <1>1, <1>3 DEF Busy
  <2>3. Taken' = Taken /\ r = count
    BY <1>1, <2>1, <2>2 DEF Taken, OrderInv
  <2>4. \A q \in Requests : /\ phase'[q] = "done" <=> phase[q] = "done"
                            /\ phase'[q] \in {"loaded", "done"} => reg'[q] = q
    BY <1>1, <1>3, <1>4, <2>1, <2>3 DEF OrderInv
  <2>5. QED
    BY <1>1, <1>6, <2>1, <2>2, <2>3, <2>4 DEF OrderInv
<1>11. QED
  BY <1>5, <1>7, <1>8, <1>9, <1>10 DEF Inv

LEMMA StoreCountInv ==
  ASSUME Inv, NEW r \in Requests, StoreCount(r)
  PROVE  Inv'
<1>1. /\ phase[r] = "loaded" /\ count' = reg[r] + 1 /\ Becomes(r, "done")
      /\ result' = [result EXCEPT ![r] = Encode(reg[r], r)]
      /\ UNCHANGED <<mode, threadCount, pc, i, pool, reg, val>>
  BY DEF StoreCount, args
<1>2. TypeInv /\ CountInv
  BY DEF Inv
<1>3. /\ phase' \in [Requests -> Phases] /\ phase'[r] = "done"
      /\ \A q \in Requests : q # r => phase'[q] = phase[q]
  BY <1>1, <1>2, BecomesFacts DEF Phases
<1>4. /\ DOMAIN result' = Requests /\ result'[r] = Encode(reg[r], r)
      /\ \A q \in Requests : q # r => result'[q] = result[q]
  BY <1>1, <1>2 DEF TypeInv
<1>5. TypeInv'
  BY <1>1, <1>2, <1>3, <1>4 DEF TypeInv
<1>6. Submitted' = Submitted
  BY <1>1 DEF Submitted
<1>7. PoolInv'
  <2>1. pc = "start" => \A q \in Requests : q >= i => phase'[q] = "new"
    BY <1>1, <1>3 DEF Inv, PoolInv
  <2>2. ASSUME NEW k \in 1..Len(pool)
        PROVE  pool[k] = Submitted - Len(pool) + k - 1 /\ phase'[pool[k]] = "submitted"
    <3>1. pool[k] = Submitted - Len(pool) + k - 1 /\ phase[pool[k]] = "submitted"
      BY DEF Inv, PoolInv
    <3>2. pool[k] \in Requests /\ pool[k] # r
      BY <1>1, <1>2, <3>1, ElementOfSeq DEF TypeInv
    <3>3. QED
      BY <1>3, <3>1, <3>2
  <2>3. QED
    BY <1>1, <1>6, <2>1, <2>2 DEF Inv, PoolInv
<1>8. CollectedInv'
  <2>1. ASSUME NEW q \in Requests
        PROVE  /\ phase'[q] = "done" => result'[q] = Encode(reg[q], q)
               /\ pc # "start" /\ q < i => phase'[q] = "done" /\ val[q] = result'[q]
    <3>1. CASE q = r
      BY <1>1, <1>3, <1>4, <3>1 DEF Inv, CollectedInv
    <3>2. CASE q # r
      BY <1>3, <1>4, <3>2 DEF Inv, CollectedInv
    <3>3. QED
      BY <3>1, <3>2
  <2>2. QED
    BY <1>1, <2>1 DEF Inv, CollectedInv
<1>9. CountInv'
  <2>1. Done' = Done \cup {r} /\ r \notin Done
    BY <1>1, <1>3 DEF Done
  <2>2. Cardinality(Done') = Cardinality(Done) + 1 /\ Cardinality(Done) < ReadCount
        /\ Cardinality(Done) \in Nat
    BY <1>1, <2>1, DoneFacts, FS_AddElement
  <2>3. reg[r] \in Nat /\ reg[r] <= Cardinality(Done)
    BY <1>1, <1>2 DEF TypeInv, CountInv
  <2>4. reg[r] \in Requests
    BY <2>2, <2>3, RequestFacts
  <2>5. ASSUME NEW q \in Requests
        PROVE  /\ phase'[q] = "loaded" => reg[q] <= Cardinality(Done')
               /\ phase'[q] = "done" => reg[q] \in Requests
    <3>1. CASE q = r
      BY <1>3, <2>4, <3>1
    <3>2. CASE q # r
      <4>1. reg[q] \in Nat
        BY <1>2 DEF TypeInv
      <4>2. QED
        BY <1>2, <1>3, <2>2, <3>2, <4>1 DEF CountInv
    <3>3. QED
      BY <3>1, <3>2
  <2>6. count' <= Cardinality(Done')
    BY <1>1, <2>2, <2>3
  <2>7. QED
    BY <1>1, <2>5, <2>6 DEF CountInv
<1>10. OrderInv'
  <2> SUFFICES ASSUME OneAtATime' PROVE OrderInv'
    BY DEF OrderInv
  <2>1. OneAtATime /\ OrderInv
    BY <1>1 DEF OneAtATime, Inv
  <2>2. r = count /\ reg[r] = r /\ r \in Busy /\ \A q \in Busy : q = r
    BY <1>1, <2>1 DEF OrderInv, Busy
  <2>3. Busy' = {}
    BY <1>3, <2>2 DEF Busy
  <2>4. count' = count + 1 /\ count' <= ReadCount /\ Taken' = Taken
    BY <1>1, <2>2, <2>3, RequestFacts DEF Taken
  <2>5. \A q \in Requests : /\ phase'[q] = "done" <=> q < count'
                            /\ phase'[q] \in {"loaded", "done"} => reg[q] = q
    <3>1. ASSUME NEW q \in Requests
          PROVE  /\ phase'[q] = "done" <=> q < count'
                 /\ phase'[q] \in {"loaded", "done"} => reg[q] = q
      <4>1. CASE q = r
        BY <1>3, <2>2, <2>4, <4>1, RequestFacts
      <4>2. CASE q # r
        <5>1. q < count' <=> q < count
          BY <2>2, <2>4, <4>2, RequestFacts
        <5>2. QED
          BY <1>3, <2>1, <4>2, <5>1 DEF OrderInv
      <4>3. QED
        BY <4>1, <4>2
    <3>2. QED
      BY <3>1
  <2>6. QED
    BY <1>1, <1>6, <2>1, <2>3, <2>4, <2>5 DEF OrderInv
<1>11. QED
  BY <1>5, <1>7, <1>8, <1>9, <1>10 DEF Inv

LEMMA NextInv == Inv /\ [Next]_vars => Inv'
<1> SUFFICES ASSUME Inv, [Next]_vars PROVE Inv'
  OBVIOUS
<1>1. ASSUME UNCHANGED vars PROVE Inv'
  <2>1. UNCHANGED <<mode, threadCount, pc, i, phase, pool, reg, result, val, count>>
    BY <1>1 DEF vars, args
  <2>2. Submitted' = Submitted /\ Done' = Done /\ Busy' = Busy /\ Taken' = Taken
    BY <2>1 DEF Submitted, Done, Busy, Taken
  <2>3. TypeInv' /\ PoolInv'
    BY <2>1, <2>2 DEF Inv, TypeInv, PoolInv
  <2>4. CollectedInv' /\ CountInv'
    BY <2>1, <2>2 DEF Inv, CollectedInv, CountInv
  <2>5. OrderInv'
    BY <2>1, <2>2 DEF Inv, OrderInv, OneAtATime
  <2>6. QED
    BY <2>3, <2>4, <2>5 DEF Inv
<1>2. ASSUME Main PROVE Inv'
  BY <1>2, CallReadInv, StartThreadInv, SubmitInv, AllStartedInv, CollectInv,
     ReturnInv DEF Main
<1>3. ASSUME NEW r \in Requests, Reader(r) PROVE Inv'
  BY <1>3, LoadCountInv, StoreCountInv DEF Reader
<1>4. QED
  BY <1>1, <1>2, <1>3, WorkerTakesInv DEF Next

-----------------------------------------------------------------------------
(* What the five parts of Inv say is so throughout.                        *)
THEOREM InvTheorem == Spec => []Inv
<1>1. Init => Inv
  BY InitInv
<1>2. Inv /\ [Next]_vars => Inv'
  BY NextInv
<1>3. QED
  BY <1>1, <1>2, PTL DEF Spec

(* As long as a number takes half an int with its sign, every result is    *)
(* printed with its own request and with a number of the disk.             *)
THEOREM ResultsInPlaceTheorem ==
  ASSUME ReadCount <= Half \div 2
  PROVE  Spec => []ResultsInPlace
<1>1. Inv => ResultsInPlace
  <2> SUFFICES ASSUME Inv, Finished, NEW r \in Requests
               PROVE  PrintedRequest(val[r]) = r /\ PrintedNumber(val[r]) \in Requests
    BY DEF ResultsInPlace
  <2>1. val[r] = Encode(reg[r], r) /\ reg[r] \in Requests
    <3>1. pc # "start" /\ r < i
      BY RequestFacts DEF Finished, Inv, CollectedInv
    <3>2. phase[r] = "done" /\ val[r] = result[r]
      BY <3>1 DEF Inv, CollectedInv
    <3>3. QED
      BY <3>2 DEF Inv, CollectedInv, CountInv
  <2>2. Half \in Nat \ {0} /\ Half \div 2 \in Nat /\ Half \div 2 <= Half
    BY FunAssumption
  <2>3. r \in Nat /\ reg[r] \in Nat /\ r < Half \div 2 /\ reg[r] < Half \div 2
    <3>1. r \in Nat /\ reg[r] \in Nat /\ r < ReadCount /\ reg[r] < ReadCount /\ ReadCount \in Nat
      BY <2>1, RequestFacts
    <3>2. \A n, m, h \in Nat : n < m /\ m <= h => n < h
      OBVIOUS
    <3>3. QED
      BY <2>2, <3>1, <3>2
  <2>4. r \div Half = 0 /\ r % Half = r /\ reg[r] % Half = reg[r]
    BY <2>2, <2>3
  <2>5. Encode(reg[r], r) = Halves(reg[r], r)
    BY <2>2, <2>4 DEF Encode
  <2>6. val[r].high = reg[r] /\ val[r].low = r
    BY <2>1, <2>5 DEF Halves
  <2>7. ~(val[r].high >= Half \div 2)
    BY <2>2, <2>3, <2>6
  <2>8. QED
    BY <2>1, <2>6, <2>7 DEF PrintedRequest, PrintedNumber
<1>2. QED
  BY <1>1, InvTheorem, PTL

(* When main reads, or one thread of a pool, the disk serves the requests  *)
(* in their order: each has its own number.                                *)
THEOREM OneAtATimeInOrderTheorem == Spec => []OneAtATimeInOrder
<1>1. Inv => OneAtATimeInOrder
  <2> SUFFICES ASSUME Inv, Finished, OneAtATime, NEW r \in Requests
               PROVE  val[r] = Encode(r, r)
    BY DEF OneAtATimeInOrder, OneAtATime
  <2>1. pc # "start" /\ r < i
    BY RequestFacts DEF Finished, Inv, CollectedInv
  <2>2. phase[r] = "done" /\ val[r] = result[r]
    BY <2>1 DEF Inv, CollectedInv
  <2>3. result[r] = Encode(reg[r], r) /\ reg[r] = r
    BY <2>2 DEF Inv, CollectedInv, OrderInv
  <2>4. QED
    BY <2>2, <2>3
<1>2. QED
  BY <1>1, InvTheorem, PTL
=============================================================================
