------------------------------- MODULE Mutex -------------------------------
(***************************************************************************)
(* What spinlock_lock/unlock and uthread_monitor_enter/exit promise: one   *)
(* client inside at a time, and only that client gives the lock back.      *)
(***************************************************************************)
CONSTANT Clients

VARIABLE inside  \* the set of clients that own the lock

Init == inside = {}

Acquire(c) == inside = {} /\ inside' = {c}
Release(c) == inside = {c} /\ inside' = {}

Next == \E c \in Clients : Acquire(c) \/ Release(c)

Spec == Init /\ [][Next]_inside
=============================================================================
