------------------------------- MODULE Async -------------------------------
(***************************************************************************)
(* a7/async.c: main puts computations in a ring, a timer signal completes  *)
(* the next one, main spins on a flag for every result it needs.           *)
(*                                                                         *)
(* The signal handler runs on main's thread, between any two of its        *)
(* stores, and main goes on when it has returned; SIGALRM is blocked       *)
(* meanwhile.  The loops read the flag from memory each time round, as the *)
(* compiler makes them without optimisation.                               *)
(***************************************************************************)
EXTENDS Integers, Sequences

CONSTANT Slots  \* length of comp: 1000 in the code

(* One slot for each of the four tasks: no entry is written twice. *)
ASSUME SlotsAssumption == Slots \in Nat /\ Slots > 3

Triples == {"t1", "t2", "t3", "t4"}
NULL == "null"
Unset == 99  \* what an uninitialised field happens to hold

VARIABLES
  comp, compHead, compTail,  \* the ring of [handler, buf], its head and tail
  triple,    \* t1 .. t4: arg0, arg1, result, and spin_lock as locked
  pc,        \* the instruction of Main that is next
  isr,       \* where interruptServiceRoutine is
  c,         \* its local copy of an entry
  completed, \* the triples that the handlers have completed, in order
  global_result,
  raced      \* history: a signal has arrived in the middle of doAsync

ring == <<comp, compHead, compTail>>
vars == <<ring, triple, pc, isr, c, completed, global_result, raced>>

(* main, one store, loop or call after the other.                          *)
Set(t, arg, n) == [op |-> "set", to |-> t, field |-> arg, value |-> n]
Get(t, arg, u) == [op |-> "get", to |-> t, field |-> arg, of |-> u]
Spin(t) == [op |-> "spin", on |-> t]
Lock(t) == [op |-> "lock", to |-> t]
MoveHead == [op |-> "head"]
Handle(f) == [op |-> "handler", value |-> f]
Buf(t) == [op |-> "buf", value |-> t]
Done(t) == [op |-> "report", of |-> t]

Main ==
  << Set("t1", "arg0", 1), Set("t1", "arg1", 2), Lock("t1"),
     Set("t2", "arg0", 3), Set("t2", "arg1", 4), Lock("t2"),
     MoveHead, Handle("add"), Buf("t1"),
     MoveHead, Handle("add"), Buf("t2"),
     Spin("t1"), Get("t3", "arg0", "t1"), Spin("t2"), Get("t3", "arg1", "t2"), Lock("t3"),
     MoveHead, Handle("sub"), Buf("t3"),
     Spin("t3"), Get("t4", "arg0", "t3"), Set("t4", "arg1", 7), Lock("t4"),
     MoveHead, Handle("add"), Buf("t4"),
     Spin("t4"), Done("t4") >>

Running == pc <= Len(Main)
Crashed == isr = "crashed"

Init ==
  /\ comp = [s \in 0..Slots-1 |-> [handler |-> NULL, buf |-> NULL]]
  /\ compHead = 0 /\ compTail = 0
  /\ triple = [t \in Triples |->
                 [arg0 |-> Unset, arg1 |-> Unset, result |-> Unset, locked |-> FALSE]]
  /\ pc = 1
  /\ isr = "idle"
  /\ c = [handler |-> NULL, buf |-> NULL]
  /\ completed = <<>>
  /\ global_result = 0
  /\ raced = FALSE

After(slot) == (slot + 1) % Slots

(* main takes a step while no handler runs. *)
Execute(op) ==
  /\ isr = "idle"
  /\ Running /\ Main[pc].op = op
  /\ pc' = pc + 1
  /\ UNCHANGED <<compTail, isr, c, completed, raced>>

Assign ==
  LET m == Main[pc] IN
  /\ \/ Execute("set") /\ triple' = [triple EXCEPT ![m.to][m.field] = m.value]
     \/ Execute("get") /\ triple' = [triple EXCEPT ![m.to][m.field] = triple[m.of].result]
     \/ Execute("lock") /\ triple' = [triple EXCEPT ![m.to].locked = TRUE]
  /\ UNCHANGED <<comp, compHead, global_result>>

(* Bug: main does not wait for the flag. *)
SpinAtMostOnce == Execute("spin") /\ UNCHANGED <<comp, compHead, triple, global_result>>

(* A loop ends when the flag is UNLOCKED. *)
SpinEnds ==
  /\ Execute("spin")
  /\ ~triple[Main[pc].on].locked
  /\ UNCHANGED <<comp, compHead, triple, global_result>>

(* doAsync: the head moves first, the entry is filled field by field. *)
DoAsyncHead ==
  /\ Execute("head")
  /\ compHead' = After(compHead)
  /\ UNCHANGED <<comp, triple, global_result>>

DoAsyncFill ==
  /\ \E field \in {"handler", "buf"} :
       Execute(field) /\ comp' = [comp EXCEPT ![compHead][field] = Main[pc].value]
  /\ UNCHANGED <<compHead, triple, global_result>>

Report ==
  /\ Execute("report")
  /\ global_result' = triple[Main[pc].of].result
  /\ UNCHANGED <<comp, compHead, triple>>

MainStep == Assign \/ SpinEnds \/ DoAsyncHead \/ DoAsyncFill \/ Report

InDoAsync == Running /\ Main[pc].op \in {"handler", "buf"}

(* SIGALRM: interruptServiceRoutine is called, wherever main is. *)
Interrupt ==
  /\ isr = "idle" /\ Running
  /\ isr' = "check"
  /\ raced' = (raced \/ InDoAsync)
  /\ UNCHANGED <<ring, triple, pc, c, completed, global_result>>

(* With an entry in the ring: move the tail, copy the entry, call its      *)
(* handler.                                                                *)
Check ==
  /\ isr = "check"
  /\ IF compHead # compTail
       THEN compTail' = After(compTail) /\ isr' = "copy"
       ELSE UNCHANGED compTail /\ isr' = "idle"
  /\ UNCHANGED <<comp, compHead, triple, pc, c, completed, global_result, raced>>

(* Bug: the entry is copied before the tail moves. *)
CopyPrevious ==
  /\ isr = "copy"
  /\ c' = comp[(compTail + Slots - 1) % Slots]
  /\ isr' = IF NULL \in {c'.handler, c'.buf} THEN "crashed" ELSE "result"
  /\ UNCHANGED <<ring, triple, pc, completed, global_result, raced>>

(* Bug: the entry at the other end of the ring. *)
CopyNewest ==
  /\ isr = "copy"
  /\ c' = comp[compHead]
  /\ isr' = IF NULL \in {c'.handler, c'.buf} THEN "crashed" ELSE "result"
  /\ UNCHANGED <<ring, triple, pc, completed, global_result, raced>>

Copy ==
  /\ isr = "copy"
  /\ c' = comp[compTail]
  /\ isr' = IF NULL \in {c'.handler, c'.buf} THEN "crashed" ELSE "result"
  /\ UNCHANGED <<ring, triple, pc, completed, global_result, raced>>

Compute(f, x) == IF f = "add" THEN x.arg0 + x.arg1 ELSE x.arg0 - x.arg1

(* Bug: add and sub give the flag back before the result is there. *)
HandlerUnlocksFirst ==
  /\ isr \in {"result", "unlock"}
  /\ isr' = IF isr = "result" THEN "unlock" ELSE "idle"
  /\ triple' = IF isr = "result"
                 THEN [triple EXCEPT ![c.buf].locked = FALSE]
                 ELSE [triple EXCEPT ![c.buf].result = Compute(c.handler, triple[c.buf])]
  /\ completed' = IF isr = "result" THEN Append(completed, c.buf) ELSE completed
  /\ UNCHANGED <<ring, pc, c, global_result, raced>>

(* add and sub: the result, then the flag. *)
Handler ==
  /\ isr \in {"result", "unlock"}
  /\ isr' = IF isr = "result" THEN "unlock" ELSE "idle"
  /\ triple' = IF isr = "result"
                 THEN [triple EXCEPT ![c.buf].result = Compute(c.handler, triple[c.buf])]
                 ELSE [triple EXCEPT ![c.buf].locked = FALSE]
  /\ completed' = IF isr = "result" THEN Append(completed, c.buf) ELSE completed
  /\ UNCHANGED <<ring, pc, c, global_result, raced>>

ISRStep == Check \/ Copy \/ Handler
Next == MainStep \/ Interrupt \/ ISRStep

(* ualarm repeats the signal; the handler returns; SF: main gets on between *)
(* two signals, a second apart, when its loop can end.                      *)
Spec == Init /\ [][Next]_vars
FairSpec == Spec /\ SF_vars(MainStep) /\ WF_vars(Interrupt) /\ WF_vars(ISRStep)

-----------------------------------------------------------------------------
(* What the four triples stand for.                                        *)
Value == [t1 |-> 1 + 2, t2 |-> 3 + 4, t3 |-> (1 + 2) - (3 + 4), t4 |-> ((1 + 2) - (3 + 4)) + 7]

HasBeenLocked(t) == \E i \in 1..pc-1 : Main[i] = Lock(t)

(* The protocol of struct Triple: once the flag is back, the result is     *)
(* there, and it is the right one, wherever the signals fall.              *)
FlagMeansResult ==
  \A t \in Triples : HasBeenLocked(t) /\ ~triple[t].locked => triple[t].result = Value[t]

(* The ring has no check for being full and does not need one: main waits  *)
(* so often that the head never catches up with the tail, even in a ring   *)
(* with one slot for each task.                                            *)
NeverFull == [][compHead' # compHead => compHead' # compTail]_vars

(* Tasks complete in the order of doAsync, none of them twice.             *)
CompletedInOrder == \E n \in 0..4 : completed = SubSeq(<<"t1", "t2", "t3", "t4">>, 1, n)

(* Only a signal in the middle of doAsync can hurt: otherwise the handler  *)
(* finds a task in every entry, and main gets to its end.                  *)
CrashNeedsRace == Crashed => raced
Finishes == <>(~Running \/ raced)
=============================================================================
