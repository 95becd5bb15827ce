--------------------------- MODULE BoundedBuffer ---------------------------
(***************************************************************************)
(* a9/bounded_buffer.c as it is built: producers and consumers on one ring *)
(* and one processor, NUM_PROCESSORS being 1.  The threads take neither    *)
(* the monitor nor the condition variables of initqueue, and they never    *)
(* yield, so a thread runs to its end before the next one of the FIFO      *)
(* ready queue starts (module Uthread) and a call is one step.             *)
(***************************************************************************)
EXTENDS Integers, Sequences, SequencesExt

CONSTANTS
  QUEUE_SIZE,        \* slots of the ring
  NUM_ITERATIONS,    \* calls of each thread
  NUM_THREAD_PAIRS

VARIABLES
  queue,       \* the value in each slot: the number of the call of enqueue that
               \* brought it, in the order of time; 0 in a slot never written
  queue_head, queue_tail,
  running,     \* how many threads have been started; main creates a producer
               \* and a consumer in turn
  i,           \* the loop index of the thread that runs
  calls,       \* calls of enqueue so far
  accepted,    \* history: the calls that did not find the queue full
  consumed,    \* history: the values that dequeue returned, in order
  empty        \* history: the last dequeue found the queue empty

vars == <<queue, queue_head, queue_tail, running, i, calls, accepted, consumed, empty>>

Ring == 0..QUEUE_SIZE-1
After(slot) == (slot + 1) % QUEUE_SIZE
IsProducer == running % 2 = 1

Init ==
  /\ queue = [slot \in Ring |-> 0]
  /\ queue_head = 0 /\ queue_tail = 0
  /\ running = 1 /\ i = 0
  /\ calls = 0
  /\ accepted = {} /\ consumed = <<>> /\ empty = FALSE

Full == After(queue_tail) = queue_head
Empty == queue_head = queue_tail

(* enqueue moves the tail before the store, and once more after it.        *)
Enqueue ==
  /\ IsProducer /\ i < NUM_ITERATIONS
  /\ i' = i + 1
  /\ calls' = calls + 1
  /\ IF Full
       THEN UNCHANGED <<queue, queue_tail, accepted>>
       ELSE /\ queue' = [queue EXCEPT ![After(queue_tail)] = calls']
            /\ queue_tail' = After(After(queue_tail))
            /\ accepted' = accepted \cup {calls'}
  /\ UNCHANGED <<queue_head, running, consumed, empty>>

(* The value at the head, or -1, which only empty records.                 *)
Dequeue ==
  /\ ~IsProducer /\ i < NUM_ITERATIONS
  /\ i' = i + 1
  /\ empty' = Empty
  /\ IF Empty
       THEN UNCHANGED <<queue_head, consumed>>
       ELSE /\ consumed' = Append(consumed, queue[queue_head])
            /\ queue_head' = After(queue_head)
  /\ UNCHANGED <<queue, queue_tail, running, calls, accepted>>

(* The thread is done and the next one of the ready queue runs. *)
NextThread ==
  /\ i = NUM_ITERATIONS
  /\ running < 2 * NUM_THREAD_PAIRS
  /\ running' = running + 1
  /\ i' = 0
  /\ UNCHANGED <<queue, queue_head, queue_tail, calls, accepted, consumed, empty>>

Next == Enqueue \/ Dequeue \/ NextThread
Spec == Init /\ [][Next]_vars

-----------------------------------------------------------------------------
(* "the queue is empty; nothing to return;" (bounded_buffer.c:77): when    *)
(* dequeue finds the queue empty, every value that enqueue took has been   *)
(* consumed.                                                               *)
EmptyMeansEmpty == empty => accepted \subseteq ToSet(consumed)
=============================================================================
