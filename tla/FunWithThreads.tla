--------------------------- MODULE FunWithThreads ---------------------------
(***************************************************************************)
(* a8/FunWithThreads.java: ReadCount reads of a simulated disk, one after  *)
(* the other, in a thread each, or by a pool of threads; main collects the *)
(* results in order.  A request is identified with its Thread or Future.   *)
(*                                                                         *)
(* Nobody interrupts a thread here, so join and get do not throw.          *)
(***************************************************************************)
EXTENDS Integers, Sequences, FiniteSets

CONSTANTS
  ReadCount,    \* -count n
  ThreadCounts, \* the numbers of threads that -executor n may ask for
  Half          \* what half an int can hold: 2^16 values

ASSUME FunAssumption ==
  /\ ReadCount \in Nat
  /\ ThreadCounts \subseteq Nat \ {0}
  /\ Half \in Nat \ {0}

Requests == 0..ReadCount-1

VARIABLES
  mode,     \* "sequential", "threads" or "executor": the command line
  threadCount,
  pc, i,    \* main: its loop, and the loop's index
  phase,    \* what has happened to each request
  pool,     \* the executor's queue of submitted requests
  reg,      \* count as the thread of a request has read it
  result,   \* what read has returned for a request
  val,      \* field val, collected by main
  count     \* Disk.count

args == <<mode, threadCount>>
vars == <<args, pc, i, phase, pool, reg, result, val, count>>

(* An int as its two halves. *)
Halves(high, low) == [high |-> high, low |-> low]
Zero == Halves(0, 0)

BitOr[a \in Nat] == [b \in Nat |->
  IF a = 0
    THEN b
    ELSE 2 * BitOr[a \div 2][b \div 2] + (IF a % 2 = 1 \/ b % 2 = 1 THEN 1 ELSE 0)]

(* number << 16 | req: what is in the high half of req falls on number. *)
Encode(number, req) ==
  LET high == (req \div Half) % Half
  IN  Halves(IF high = 0 THEN number % Half ELSE BitOr[number % Half][high], req % Half)

(* run prints v >> 16, which keeps the sign, and v & 0xffff. *)
PrintedNumber(v) == IF v.high >= Half \div 2 THEN v.high - Half ELSE v.high
PrintedRequest(v) == v.low

Init ==
  /\ mode \in {"sequential", "threads", "executor"}
  /\ threadCount \in ThreadCounts
  /\ pc = IF mode = "sequential" THEN "read" ELSE "start"
  /\ i = 0
  /\ phase = [r \in Requests |-> "new"]
  /\ pool = <<>>
  /\ reg = [r \in Requests |-> 0]
  /\ result = [r \in Requests |-> Zero]
  /\ val = [r \in Requests |-> Zero]
  /\ count = 0

Becomes(r, p) == phase' = [phase EXCEPT ![r] = p]

(* sequential: main itself calls read, and keeps what it returns. *)
CallRead ==
  /\ pc = "read" /\ i < ReadCount
  /\ phase[i] = "new"
  /\ Becomes(i, "reading")
  /\ UNCHANGED <<args, pc, i, pool, reg, result, val, count>>

(* threaded: a new thread for request i is started. *)
StartThread ==
  /\ pc = "start" /\ i < ReadCount
  /\ mode = "threads"
  /\ Becomes(i, "reading")
  /\ i' = i + 1
  /\ UNCHANGED <<args, pc, pool, reg, result, val, count>>

(* executor: request i goes to the pool's queue. *)
Submit ==
  /\ pc = "start" /\ i < ReadCount
  /\ mode = "executor"
  /\ Becomes(i, "submitted")
  /\ pool' = Append(pool, i)
  /\ i' = i + 1
  /\ UNCHANGED <<args, pc, reg, result, val, count>>

AllStarted ==
  /\ pc = "start" /\ i = ReadCount
  /\ pc' = "join" /\ i' = 0
  /\ UNCHANGED <<args, phase, pool, reg, result, val, count>>

(* Bug: the result is collected without waiting for the thread. *)
CollectAtOnce ==
  /\ pc \in {"read", "join"} /\ i < ReadCount
  /\ pc = "read" => phase[i] = "done"
  /\ val' = [val EXCEPT ![i] = result[i]]
  /\ i' = i + 1
  /\ UNCHANGED <<args, pc, phase, pool, reg, result, count>>

(* join or get returns, and the result goes to its place. *)
Collect ==
  /\ pc \in {"read", "join"} /\ i < ReadCount
  /\ phase[i] = "done"
  /\ val' = [val EXCEPT ![i] = result[i]]
  /\ i' = i + 1
  /\ UNCHANGED <<args, pc, phase, pool, reg, result, count>>

Return ==
  /\ pc \in {"read", "join"} /\ i = ReadCount
  /\ pc' = "done"
  /\ UNCHANGED <<args, i, phase, pool, reg, result, val, count>>

Busy == {r \in Requests : phase[r] \in {"reading", "loaded"}}

(* Bug: the pool is not limited. *)
WorkerTakesAnyway ==
  /\ pool # <<>>
  /\ Becomes(Head(pool), "reading")
  /\ pool' = Tail(pool)
  /\ UNCHANGED <<args, pc, i, reg, result, val, count>>

(* Bug: off by one, with a pool of one thread nothing runs. *)
WorkerTakesLess ==
  /\ pool # <<>>
  /\ Cardinality(Busy) + 1 < threadCount
  /\ Becomes(Head(pool), "reading")
  /\ pool' = Tail(pool)
  /\ UNCHANGED <<args, pc, i, reg, result, val, count>>

(* newFixedThreadPool: a free one of threadCount threads takes the first   *)
(* request of the queue.                                                   *)
WorkerTakes ==
  /\ pool # <<>>
  /\ Cardinality(Busy) < threadCount
  /\ Becomes(Head(pool), "reading")
  /\ pool' = Tail(pool)
  /\ UNCHANGED <<args, pc, i, reg, result, val, count>>

(* Disk.read after its sleep: count++ is a load and a store. *)
LoadCount(r) ==
  /\ phase[r] = "reading"
  /\ reg' = [reg EXCEPT ![r] = count]
  /\ Becomes(r, "loaded")
  /\ UNCHANGED <<args, pc, i, pool, result, val, count>>

StoreCount(r) ==
  /\ phase[r] = "loaded"
  /\ count' = reg[r] + 1
  /\ result' = [result EXCEPT ![r] = Encode(reg[r], r)]
  /\ Becomes(r, "done")
  /\ UNCHANGED <<args, pc, i, pool, reg, val>>

Main == CallRead \/ StartThread \/ Submit \/ AllStarted \/ Collect \/ Return
Reader(r) == LoadCount(r) \/ StoreCount(r)
Next == Main \/ WorkerTakes \/ \E r \in Requests : Reader(r)

(* The Java scheduler lets every thread go on. *)
Spec == Init /\ [][Next]_vars
FairSpec == Spec /\ WF_vars(Main) /\ WF_vars(WorkerTakes) /\ \A r \in Requests : WF_vars(Reader(r))

-----------------------------------------------------------------------------
Finished == pc = "done"

(* Every result is in the place of its request, whatever order the reads   *)
(* were done in, and what is printed of it is the request and a number of  *)
(* the disk: races on count may repeat numbers, never pass ReadCount.      *)
ResultsInPlace == Finished =>
  \A r \in Requests : /\ PrintedRequest(val[r]) = r
                      /\ PrintedNumber(val[r]) \in Requests

(* One read at a time: the disk processes the requests in their order.     *)
OneAtATimeInOrder ==
  Finished /\ (mode = "sequential" \/ (mode = "executor" /\ threadCount = 1)) =>
    \A r \in Requests : val[r] = Encode(r, r)

(* main gets all its results and returns. *)
Finishes == <>Finished
=============================================================================
