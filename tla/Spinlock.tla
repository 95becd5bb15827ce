------------------------------ MODULE Spinlock ------------------------------
(***************************************************************************)
(* The spinlocks of a9/uthread.c: a test loop that only reads, then one    *)
(* atomic exchange.  A client is a thread on a processor of its own; it    *)
(* locks and unlocks the same locks again and again.                       *)
(***************************************************************************)
CONSTANTS Clients, Locks

VARIABLES
  lock,  \* the word of each lock: 0 or 1
  pc     \* for each lock, where each client is with it

vars == <<lock, pc>>

Labels == {"out", "test", "xchg", "in"}

(* spinlock_create *)
Init ==
  /\ lock = [l \in Locks |-> 0]
  /\ pc = [l \in Locks |-> [c \in Clients |-> "out"]]

Goto(c, l, label) == pc' = [pc EXCEPT ![l][c] = label]

Call(c, l) == pc[l][c] = "out" /\ Goto(c, l, "test") /\ UNCHANGED lock

(* The loop that only reads the lock word. *)
Test(c, l) == pc[l][c] = "test" /\ lock[l] = 0 /\ Goto(c, l, "xchg") /\ UNCHANGED lock

(* Bug: an exchange that ignores what it got back. *)
XchgUnchecked(c, l) ==
  pc[l][c] = "xchg" /\ lock' = [lock EXCEPT ![l] = 1] /\ Goto(c, l, "in")

(* Bug: already_held is never assigned, nor the lock word. *)
XchgLost(c, l) == pc[l][c] = "xchg" /\ Goto(c, l, "test") /\ UNCHANGED lock

(* The lock is set whether or not it was held; already_held is what it was *)
(* before.                                                                 *)
Xchg(c, l) ==
  /\ pc[l][c] = "xchg"
  /\ lock' = [lock EXCEPT ![l] = 1]
  /\ Goto(c, l, IF lock[l] = 1 THEN "test" ELSE "in")

Unlock(c, l) == pc[l][c] = "in" /\ lock' = [lock EXCEPT ![l] = 0] /\ Goto(c, l, "out")

Spins(c, l) == Test(c, l) \/ Xchg(c, l)
Next == \E c \in Clients, l \in Locks : Call(c, l) \/ Spins(c, l) \/ Unlock(c, l)

Spec == Init /\ [][Next]_vars

-----------------------------------------------------------------------------
TypeOK == lock \in [Locks -> {0, 1}] /\ pc \in [Locks -> [Clients -> Labels]]

(* Each spinlock implements a mutual exclusion lock: the client that is in *)
(* owns it, and only after its unlock does another one get in.             *)
holders(l) == {c \in Clients : pc[l][c] = "in"}
Abstract(l) == INSTANCE Mutex WITH inside <- holders(l)
ImplementsMutex ==
  /\ \A l \in Locks : Abstract(l)!Init
  /\ [][\A l \in Locks : [Abstract(l)!Next]_(holders(l))]_vars

(* Exactly while a lock word is set somebody is in, and never two.  A lost *)
(* exchange would leave the word set with nobody to clear it.              *)
LockWord ==
  \A l \in Locks :
    /\ \A c, d \in Clients : pc[l][c] = "in" /\ pc[l][d] = "in" => c = d
    /\ lock[l] = 1 <=> \E c \in Clients : pc[l][c] = "in"

(* As long as clients spin, clients get in: a lock is free of deadlock,    *)
(* though not of starvation.                                               *)
SomebodyGetsIn ==
  \A l \in Locks :
    (\E c \in Clients : pc[l][c] \in {"test", "xchg"}) ~> (\E c \in Clients : pc[l][c] = "in")
=============================================================================
