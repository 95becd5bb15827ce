---------------------------- MODULE ReaderWriter ----------------------------
(***************************************************************************)
(* The test a9/reader_writer_test.c on top of module Monitor: reader       *)
(* threads compare two counters that writer threads keep equal, without    *)
(* synchronisation (type 0), in a monitor (type 1) or with the read-only   *)
(* entry for the readers (type 2), which has no body.                      *)
(*                                                                         *)
(* A load or a store of c0 or c1 is one step.  do_some_work, which touches *)
(* no shared data, is not there.  The threads are taken as created and not *)
(* limited to NUM_PROCESSORS at a time: more interleavings, never fewer.   *)
(***************************************************************************)
EXTENDS Monitor, FiniteSets

CONSTANT Writers  \* the clients of the monitor that write; the others read

ASSUME WritersAssumption == Writers \subseteq Clients /\ IsFiniteSet(Writers)

(* The command line's count: each iteration enters the monitor once, so    *)
(* entries is drive_test's i.                                              *)
Count == MaxEntries

VARIABLES
  c0, c1,     \* the two counters
  at,         \* where each thread is in drive_test, read and write
  reg,        \* the value a thread loaded and has not used yet
  error,      \* "reader error" or "writer error" has been printed
  type,       \* the type of the test, of the command line
  aborted     \* the assertion of uthread_monitor_exit has failed

testVars == <<c0, c1, at, reg, error, type, aborted>>

TestInit ==
  /\ Init
  /\ c0 = 0 /\ c1 = 0
  /\ at = [t \in Clients |-> "loop"]
  /\ reg = [t \in Clients |-> 0]
  /\ error = FALSE
  /\ type \in 0..2
  /\ aborted = FALSE

(* read_mon and write_mon; the others do not call uthread_monitor_enter or *)
(* call uthread_monitor_enter_read_only, which returns at once.            *)
InsideMonitor(t) == type = 1 \/ (type = 2 /\ t \in Writers)

To(t, place) == at' = [at EXCEPT ![t] = place]

(* drive_test calls read_proc or write_proc. *)
Begin(t) ==
  /\ at[t] = "loop" /\ pc[t] = "out"
  /\ To(t, "load c0")
  /\ IF InsideMonitor(t)
       THEN Enter(t)
       ELSE /\ entries[t] < Count
            /\ entries' = [entries EXCEPT ![t] = @ + 1]
            /\ UNCHANGED <<holder, lock, waiters, started, pc, waiter>>
  /\ UNCHANGED <<c0, c1, reg, error>>

Body(t, place) == at[t] = place /\ (InsideMonitor(t) => pc[t] = "in") /\ UNCHANGED vars

(* read: the first operand of the comparison, then the second. *)
ReadC0(t) ==
  /\ t \notin Writers
  /\ Body(t, "load c0")
  /\ reg' = [reg EXCEPT ![t] = c0]
  /\ To(t, "compare")
  /\ UNCHANGED <<c0, c1, error>>

(* write: c0 = c0 + 1 and c1 = c1 + 1, a load and a store each. *)
WriteLoadC0(t) ==
  /\ t \in Writers
  /\ Body(t, "load c0")
  /\ reg' = [reg EXCEPT ![t] = c0]
  /\ To(t, "store c0")
  /\ UNCHANGED <<c0, c1, error>>

WriteStoreC0(t) ==
  /\ Body(t, "store c0")
  /\ c0' = reg[t] + 1
  /\ To(t, "load c1")
  /\ UNCHANGED <<c1, reg, error>>

WriteLoadC1(t) ==
  /\ Body(t, "load c1")
  /\ reg' = [reg EXCEPT ![t] = c1]
  /\ To(t, "store c1")
  /\ UNCHANGED <<c0, c1, error>>

(* Bug: the load of c1 is used as it is. *)
WriteStoreC1Stale(t) ==
  /\ Body(t, "store c1")
  /\ c1' = reg[t]
  /\ To(t, "recheck")
  /\ UNCHANGED <<c0, reg, error>>

WriteStoreC1(t) ==
  /\ Body(t, "store c1")
  /\ c1' = reg[t] + 1
  /\ To(t, "recheck")
  /\ UNCHANGED <<c0, reg, error>>

WriteRecheck(t) ==
  /\ Body(t, "recheck")
  /\ reg' = [reg EXCEPT ![t] = c0]
  /\ To(t, "compare")
  /\ UNCHANGED <<c0, c1, error>>

Compare(t) ==
  /\ Body(t, "compare")
  /\ error' = (error \/ reg[t] # c1)
  /\ To(t, "leave")
  /\ UNCHANGED <<c0, c1, reg>>

Leave(t) ==
  /\ at[t] = "leave"
  /\ \/ InsideMonitor(t) /\ Exit(t)
     \/ type = 0 /\ UNCHANGED vars
  /\ To(t, "loop")
  /\ UNCHANGED <<c0, c1, reg, error>>

(* The assertion of uthread_monitor_exit, with the spinlock held: whoever  *)
(* calls it and is not the holder, a read-only reader among others, ends   *)
(* the program.                                                            *)
Abort(t) ==
  /\ \/ pc[t] = "release"
     \/ type = 2 /\ t \notin Writers /\ at[t] = "leave" /\ ~lock
  /\ holder # t
  /\ aborted' = TRUE
  /\ UNCHANGED <<vars, c0, c1, at, reg, error, type>>

(* The rest of uthread_monitor_enter and uthread_monitor_exit. *)
InMonitor(t) ==
  /\ pc[t] = "release" => holder = t
  /\ \/ EnterLock(t) \/ EnterTake(t) \/ EnterUnlock(t) \/ EnterQueue(t)
     \/ QueuedUnlock(t) \/ Stop(t)
     \/ ExitLock(t) \/ ExitRelease(t) \/ ExitUnlock(t) \/ ExitStart(t)
  /\ UNCHANGED testVars

Step(t) ==
  /\ ~aborted
  /\ \/ Abort(t) \/ InMonitor(t)
     \/ /\ \/ Begin(t) \/ ReadC0(t) \/ WriteLoadC0(t) \/ WriteStoreC0(t) \/ WriteLoadC1(t)
           \/ WriteStoreC1(t) \/ WriteRecheck(t) \/ Compare(t) \/ Leave(t)
        /\ UNCHANGED <<type, aborted>>

TestNext == \E t \in Clients : Step(t)

(* Fairness as in Monitor. *)
TestSpec == TestInit /\ [][TestNext]_<<vars, testVars>>
FairTest == TestSpec /\ \A t \in Clients :
  /\ WF_<<vars, testVars>>(Step(t))
  /\ SF_<<vars, testVars>>(~aborted /\ (EnterLock(t) \/ ExitLock(t)) /\ UNCHANGED testVars)
  /\ SF_<<vars, testVars>>(~aborted /\ Abort(t))

-----------------------------------------------------------------------------
Finished == \A t \in Clients : at[t] = "loop" /\ pc[t] = "out" /\ entries[t] = Count

(* With a monitor around read and write nobody ever sees the two counters  *)
(* apart, and in the end they count every write: the checks of read, write *)
(* and do_test.  Without one neither holds.                                *)
CountersAgree == type = 1 => ~error
EveryWriteCounts == type = 1 /\ Finished => c0 = c1 /\ c0 = Cardinality(Writers) * Count

(* do_test returns, with and without the monitor: no assertion fails and   *)
(* every thread gets through its iterations.  With the read-only entry it  *)
(* never does: a reader leaves a monitor that it has not entered.          *)
TestEnds == <>(IF type = 2 THEN aborted ELSE Finished)
=============================================================================
