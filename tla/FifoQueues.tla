----------------------------- MODULE FifoQueues -----------------------------
(***************************************************************************)
(* What the queues of a9/uthread.c promise their callers: first in, first  *)
(* out, for threads that are in one queue at a time.                       *)
(***************************************************************************)
EXTENDS Sequences

CONSTANTS Threads, Queues, Null

VARIABLES
  content,   \* what is in each queue, head first
  returned   \* what the last dequeue returned

Init == content = [q \in Queues |-> <<>>] /\ returned = Null

Queued(t) == \E q \in Queues : \E i \in DOMAIN content[q] : content[q][i] = t

Enqueue(q, t) ==
  /\ ~Queued(t)
  /\ content' = [content EXCEPT ![q] = Append(@, t)]
  /\ UNCHANGED returned

Dequeue(q) ==
  IF content[q] = <<>>
    THEN returned' = Null /\ UNCHANGED content
    ELSE /\ returned' = Head(content[q])
         /\ content' = [content EXCEPT ![q] = Tail(@)]

Next == \E q \in Queues : Dequeue(q) \/ \E t \in Threads : Enqueue(q, t)

Spec == Init /\ [][Next]_<<content, returned>>
=============================================================================
