---------------------------- MODULE ThreadQueue ----------------------------
(***************************************************************************)
(* The linked queues of a9/uthread.c, the ready queue and the waiter queue *)
(* of each monitor, every one under its own spinlock, one store at a time. *)
(* A thread has one field next for all the queues, which dequeue leaves as *)
(* it is.                                                                  *)
(*                                                                         *)
(* A client is a processor.  It enqueues threads that are in its hands,    *)
(* the one it runs or one that it dequeued or created, and no thread is in *)
(* two hands; that callers keep to this is shown in Uthread and Monitor    *)
(* (QueuedOnce, NoLostWakeup).                                             *)
(***************************************************************************)
EXTENDS Spinlock, Integers, Sequences, FiniteSets

CONSTANTS Threads, Null

ASSUME QueueAssumption == Null \notin Threads \cup Clients

(* Queue q is used under lock q. *)
Queues == Locks

VARIABLES
  head, tail,  \* of each queue
  next,        \* field next of each thread
  at,          \* the next statement of each client in enqueue or dequeue
  thread,      \* the argument of its enqueue, the local thread of its dequeue
  owner,       \* the client that has a thread in its hands, or Null
  content,     \* history: the threads in each queue, in the order they came
  returned     \* history: what the last dequeue returned

pointers == <<head, tail, next>>
history == <<content, returned>>
queueVars == <<pointers, at, thread, owner, history>>

Link == Threads \cup {Null}

(* initqueue.  The next of a thread that was never queued may be anything. *)
QueueInit ==
  /\ Init
  /\ head = [q \in Queues |-> Null]
  /\ tail = [q \in Queues |-> Null]
  /\ next \in [Threads -> Link]
  /\ at = [c \in Clients |-> "idle"]
  /\ thread = [c \in Clients |-> Null]
  /\ owner \in [Threads -> Clients]
  /\ content = [q \in Queues |-> <<>>]
  /\ returned = Null

Begins(c, q, here, t) ==
  /\ at[c] = "idle"
  /\ Call(c, q)
  /\ at' = [at EXCEPT ![c] = here]
  /\ thread' = [thread EXCEPT ![c] = t]
  /\ UNCHANGED <<pointers, history>>

(* ready_queue_enqueue(t), or enqueue under a monitor's spinlock. *)
Enqueue(c, q, t) ==
  /\ owner[t] = c
  /\ Begins(c, q, "store next", t)
  /\ owner' = [owner EXCEPT ![t] = Null]

Dequeue(c, q) == Begins(c, q, "take", Null) /\ UNCHANGED owner

(* A statement of c with the lock of q held. *)
Statement(c, q, here, there) ==
  /\ at[c] = here /\ pc[q][c] = "in"
  /\ at' = [at EXCEPT ![c] = there]
  /\ UNCHANGED <<vars, owner, history>>

(* Bug: the thread keeps the next of the queue it was in before. *)
KeepNext(c, q) ==
  /\ Statement(c, q, "store next", "link")
  /\ UNCHANGED <<pointers, thread>>

StoreNext(c, q) ==
  /\ Statement(c, q, "store next", "link")
  /\ next' = [next EXCEPT ![thread[c]] = Null]
  /\ UNCHANGED <<head, tail, thread>>

LinkTail(c, q) ==
  /\ Statement(c, q, "link", "store tail")
  /\ next' = [t \in Threads |-> IF t = tail[q] THEN thread[c] ELSE next[t]]
  /\ UNCHANGED <<head, tail, thread>>

StoreTail(c, q) ==
  /\ Statement(c, q, "store tail", "store head")
  /\ tail' = [tail EXCEPT ![q] = thread[c]]
  /\ UNCHANGED <<head, next, thread>>

StoreHead(c, q) ==
  /\ Statement(c, q, "store head", "enqueued")
  /\ head' = [head EXCEPT ![q] = IF @ = Null THEN tail[q] ELSE @]
  /\ UNCHANGED <<tail, next, thread>>

Take(c, q) ==
  /\ Statement(c, q, "take", IF head[q] = Null THEN "dequeued" ELSE "advance")
  /\ thread' = [thread EXCEPT ![c] = head[q]]
  /\ UNCHANGED pointers

Advance(c, q) ==
  /\ Statement(c, q, "advance", "clear")
  /\ head' = [head EXCEPT ![q] = next[thread[c]]]
  /\ UNCHANGED <<tail, next, thread>>

(* Bug: the tail is left behind when the queue becomes empty. *)
KeepTail(c, q) == Statement(c, q, "clear", "dequeued") /\ UNCHANGED <<pointers, thread>>

ClearTail(c, q) ==
  /\ Statement(c, q, "clear", "dequeued")
  /\ tail' = [tail EXCEPT ![q] = IF head[q] = Null THEN Null ELSE @]
  /\ UNCHANGED <<head, next, thread>>

(* spinlock_unlock at the end of either; a thread that was dequeued is in  *)
(* the hands of c.                                                         *)
Returns(c, q) ==
  /\ Unlock(c, q)
  /\ at' = [at EXCEPT ![c] = "idle"]
  /\ UNCHANGED <<pointers, thread>>

Enqueued(c, q) ==
  /\ at[c] = "enqueued"
  /\ Returns(c, q)
  /\ content' = [content EXCEPT ![q] = Append(@, thread[c])]
  /\ UNCHANGED <<owner, returned>>

Dequeued(c, q) ==
  /\ at[c] = "dequeued"
  /\ Returns(c, q)
  /\ returned' = thread[c]
  /\ IF thread[c] = Null
       THEN UNCHANGED <<owner, content>>
       ELSE /\ content' = [content EXCEPT ![q] = Tail(@)]
            /\ owner' = [owner EXCEPT ![thread[c]] = c]

Statements(c, q) ==
  \/ StoreNext(c, q) \/ LinkTail(c, q) \/ StoreTail(c, q) \/ StoreHead(c, q)
  \/ Take(c, q) \/ Advance(c, q) \/ ClearTail(c, q)
  \/ Enqueued(c, q) \/ Dequeued(c, q)

Step(c, q) == Statements(c, q) \/ (Spins(c, q) /\ UNCHANGED queueVars)

QueueNext == \E c \in Clients, q \in Queues :
  Dequeue(c, q) \/ (\E t \in Threads : Enqueue(c, q, t)) \/ Step(c, q)

(* A client that is inside goes on, one that spins keeps spinning; nobody  *)
(* has to call.                                                            *)
QueueSpec == QueueInit /\ [][QueueNext]_<<vars, queueVars>>
FairSpec == QueueSpec /\ \A c \in Clients, q \in Queues : WF_<<vars, queueVars>>(Step(c, q))

-----------------------------------------------------------------------------
(* The threads that are found from the head of a queue, at most as many as *)
(* there are.                                                              *)
Chain(q) ==
  LET from[n \in 0..Cardinality(Threads), t \in Link] ==
        IF n = 0 \/ t = Null THEN <<>> ELSE <<t>> \o from[n - 1, next[t]]
  IN  from[Cardinality(Threads), head[q]]

(* The pointers of a queue are a list of the threads of s, in their order  *)
(* and ended by Null, with the tail at its end.                            *)
First(s) == IF s = <<>> THEN Null ELSE s[1]
Final(s) == IF s = <<>> THEN Null ELSE s[Len(s)]
Chained(f, s) == \A i \in 1..Len(s) : f[s[i]] = IF i = Len(s) THEN Null ELSE s[i + 1]
Linked(q, s) == head[q] = First(s) /\ tail[q] = Final(s) /\ Chained(next, s)

(* While nobody holds its lock, a queue is linked and holds the threads    *)
(* that came and have not gone.                                            *)
ListsAreLinked == \A q \in Queues : lock[q] = 0 => Linked(q, content[q])

(* Spinlocks and pointers together implement first in, first out queues,   *)
(* although the queues share the field next and dequeue does not clear it: *)
(* who unlocks a queue leaves the list that its call promises.             *)
Fifo == INSTANCE FifoQueues WITH
          content <- [q \in Queues |-> IF lock[q] = 0 THEN Chain(q) ELSE content[q]]
ImplementsFifo == Fifo!Spec
=============================================================================
