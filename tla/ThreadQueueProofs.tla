------------------------- MODULE ThreadQueueProofs -------------------------
(* Spinlock for any set of clients and of locks, and ThreadQueue for any   *)
(* set of clients, of threads and of queues.                               *)
EXTENDS ThreadQueue, SequenceTheorems, TLAPS

-----------------------------------------------------------------------------
(* The spinlocks. *)

(* The type invariant and LockWord together are inductive.                 *)
SpinInv == TypeOK /\ LockWord

LEMMA SpinInit == Init => SpinInv
BY DEF Init, SpinInv, TypeOK, LockWord, Labels

(* An action on one lock: what it means for LockWord is decided there.     *)
LEMMA ActionInv ==
  ASSUME SpinInv, NEW c \in Clients, NEW l \in Locks,
         Call(c, l) \/ Spins(c, l) \/ Unlock(c, l)
  PROVE  SpinInv'
<1> USE DEF SpinInv, TypeOK, LockWord, Labels, Goto
<1>1. CASE Call(c, l)
  BY <1>1 DEF Call
<1>2. CASE Test(c, l)
  BY <1>2 DEF Test
<1>3. CASE Xchg(c, l)
  BY <1>3 DEF Xchg
<1>4. CASE Unlock(c, l)
  BY <1>4 DEF Unlock
<1>5. QED
  BY <1>1, <1>2, <1>3, <1>4 DEF Spins

LEMMA SpinNext ==
  ASSUME SpinInv, [Next]_vars
  PROVE  SpinInv'
<1>1. CASE UNCHANGED vars
  BY <1>1 DEF vars, SpinInv, TypeOK, LockWord
<1>2. QED
  BY <1>1, ActionInv DEF Next

(* At most one client is past spinlock_lock, and the lock word says whether *)
(* one is.                                                                 *)
THEOREM LockWordCorrect == Spec => []LockWord
<1>1. SpinInv => LockWord
  BY DEF SpinInv
<1>2. QED
  BY <1>1, SpinInit, SpinNext, PTL DEF Spec

(* One step on lock l acquires it, releases it or leaves it alone.         *)
LEMMA StepImplements ==
  ASSUME SpinInv, [Next]_vars, NEW l \in Locks
  PROVE  [Abstract(l)!Next]_(holders(l))
<1> USE DEF SpinInv, TypeOK, LockWord, Goto, holders
<1>1. ASSUME NEW c \in Clients, NEW k \in Locks, Call(c, k) \/ Test(c, k)
      PROVE  holders(l)' = holders(l)
  BY <1>1 DEF Call, Test
<1>2. ASSUME NEW c \in Clients, NEW k \in Locks, k # l, Xchg(c, k) \/ Unlock(c, k)
      PROVE  holders(l)' = holders(l)
  BY <1>2 DEF Xchg, Unlock
<1>3. ASSUME NEW c \in Clients, Xchg(c, l) PROVE [Abstract(l)!Next]_(holders(l))
  <2>1. CASE lock[l] = 1
    <3>1. holders(l)' = holders(l)
      BY <1>3, <2>1 DEF Xchg
    <3>2. QED
      BY <3>1
  <2>2. CASE lock[l] = 0
    <3>1. holders(l) = {} /\ holders(l)' = {c}
      BY <1>3, <2>2 DEF Xchg
    <3>2. QED
      BY <3>1 DEF Abstract!Next, Abstract!Acquire
  <2>3. QED
    BY <2>1, <2>2
<1>4. ASSUME NEW c \in Clients, Unlock(c, l) PROVE [Abstract(l)!Next]_(holders(l))
  <2>1. holders(l) = {c} /\ holders(l)' = {}
    BY <1>4 DEF Unlock
  <2>2. QED
    BY <2>1 DEF Abstract!Next, Abstract!Release
<1>5. CASE UNCHANGED vars
  BY <1>5 DEF vars
<1>6. QED
  BY <1>1, <1>2, <1>3, <1>4, <1>5 DEF Next, Spins

(* spinlock_lock and spinlock_unlock implement the abstract lock: every    *)
(* step acquires it, releases it or leaves it alone.                       *)
THEOREM MutualExclusion == Spec => ImplementsMutex
<1>1. Init => \A l \in Locks : Abstract(l)!Init
  BY DEF Init, holders, Abstract!Init
<1>2. ASSUME SpinInv, [Next]_vars
      PROVE  [\A l \in Locks : [Abstract(l)!Next]_(holders(l))]_vars
  BY <1>2, StepImplements
<1>3. QED
  BY <1>1, <1>2, SpinInit, SpinNext, PTL DEF Spec, ImplementsMutex

-----------------------------------------------------------------------------
(* The queues under their locks. *)

Entering == {"store next", "link", "store tail", "store head", "enqueued"}
Leaving == {"take", "advance", "clear", "dequeued"}

QueueTypeOK ==
  /\ head \in [Queues -> Link] /\ tail \in [Queues -> Link]
  /\ next \in [Threads -> Link]
  /\ at \in [Clients -> {"idle"} \cup Entering \cup Leaving]
  /\ thread \in [Clients -> Link]
  /\ owner \in [Threads -> Clients \cup {Null}]
  /\ content \in [Queues -> Seq(Threads)]
  /\ returned \in Link

(* A client is in one call at a time and spins only at the start of it.    *)
OneCall ==
  /\ \A c \in Clients, q \in Queues : pc[q][c] # "out" => at[c] # "idle"
  /\ \A c \in Clients, q, r \in Queues : pc[q][c] # "out" /\ pc[r][c] # "out" => q = r
  /\ \A c \in Clients, q \in Queues :
       pc[q][c] \in {"test", "xchg"} => at[c] \in {"store next", "take"}

(* A thread has one place: in the hands of a client, in a call of enqueue, *)
(* or in one queue at one position.  So its field next is not shared.      *)
OnePlace ==
  /\ \A q, r \in Queues : \A i \in 1..Len(content[q]), j \in 1..Len(content[r]) :
       content[q][i] = content[r][j] => q = r /\ i = j
  /\ \A c \in Clients : at[c] \in Entering => thread[c] \in Threads /\ owner[thread[c]] = Null
  /\ \A c, d \in Clients :
       at[c] \in Entering /\ at[d] \in Entering /\ thread[c] = thread[d] => c = d
  /\ \A q \in Queues : \A i \in 1..Len(content[q]) :
       /\ owner[content[q][i]] = Null
       /\ \A c \in Clients : at[c] \in Entering => content[q][i] # thread[c]

(* What the pointers of q are before each statement of the client c that   *)
(* has the lock of q.                                                      *)
Shape(c, q) ==
  LET s == content[q]
      t == thread[c]
  IN  /\ at[c] \in {"store next", "link", "take", "advance"} => Linked(q, s)
      /\ at[c] = "link" => next[t] = Null
      /\ at[c] = "store tail" => head[q] = First(s) /\ tail[q] = Final(s) /\ Chained(next, Append(s, t))
      /\ at[c] = "store head" => head[q] = First(s) /\ tail[q] = t /\ Chained(next, Append(s, t))
      /\ at[c] = "enqueued" => Linked(q, Append(s, t))
      /\ at[c] \in {"advance", "clear"} => s # <<>> /\ t = s[1]
      /\ at[c] = "clear" => head[q] = First(Tail(s)) /\ tail[q] = Final(s) /\ Chained(next, s)
      /\ at[c] = "dequeued" => IF s = <<>> THEN t = Null /\ Linked(q, s)
                                           ELSE t = s[1] /\ Linked(q, Tail(s))

Shapes ==
  \A q \in Queues :
    /\ lock[q] = 0 => Linked(q, content[q])
    /\ \A c \in Clients : pc[q][c] = "in" => Shape(c, q)

IInv == SpinInv /\ QueueTypeOK /\ OneCall /\ OnePlace /\ Shapes

USE DEF Link, Queues

-----------------------------------------------------------------------------
(* Sequences, position by position. *)
LEMMA Places ==
  ASSUME NEW s \in Seq(Threads)
  PROVE  /\ Len(s) \in Nat /\ DOMAIN s = 1..Len(s)
         /\ \A i \in 1..Len(s) : s[i] \in Threads
         /\ s = <<>> <=> Len(s) = 0
BY LenProperties, ElementOfSeq, EmptySeq

LEMMA Ends ==
  ASSUME NEW s \in Seq(Threads)
  PROVE  /\ s = <<>> => First(s) = Null /\ Final(s) = Null
         /\ s # <<>> => /\ 1 \in 1..Len(s) /\ First(s) = s[1] /\ First(s) \in Threads
                        /\ Len(s) \in 1..Len(s) /\ Final(s) = s[Len(s)] /\ Final(s) \in Threads
<1>1. CASE s = <<>>
  BY <1>1 DEF First, Final
<1>2. CASE s # <<>>
  <2>1. 1 \in 1..Len(s) /\ Len(s) \in 1..Len(s)
    BY <1>2, Places
  <2>2. QED
    BY <1>2, <2>1, Places DEF First, Final
<1>3. QED
  BY <1>1, <1>2

LEMMA AppendPlaces ==
  ASSUME NEW s \in Seq(Threads), NEW t \in Threads
  PROVE  /\ Append(s, t) \in Seq(Threads) /\ Append(s, t) # <<>>
         /\ Len(s) \in Nat /\ Len(Append(s, t)) = Len(s) + 1
         /\ \A i \in 1..Len(s) : Append(s, t)[i] = s[i]
         /\ Append(s, t)[Len(s) + 1] = t
         /\ First(Append(s, t)) = IF s = <<>> THEN t ELSE First(s)
         /\ Final(Append(s, t)) = t
<1>1. /\ Append(s, t) \in Seq(Threads) /\ Append(s, t) # <<>>
      /\ Len(s) \in Nat /\ Len(Append(s, t)) = Len(s) + 1
      /\ \A i \in 1..Len(s) : Append(s, t)[i] = s[i]
      /\ Append(s, t)[Len(s) + 1] = t
  BY AppendProperties, LenProperties
<1>2. First(Append(s, t)) = IF s = <<>> THEN t ELSE First(s)
  BY <1>1, Places DEF First
<1>3. QED
  BY <1>1, <1>2 DEF Final

LEMMA TailPlaces ==
  ASSUME NEW s \in Seq(Threads), s # <<>>
  PROVE  /\ Tail(s) \in Seq(Threads) /\ Len(s) \in Nat \ {0}
         /\ Len(Tail(s)) = Len(s) - 1
         /\ \A i \in 1..Len(s)-1 : Tail(s)[i] = s[i + 1]
         /\ Head(s) = s[1]
         /\ Tail(s) = <<>> <=> Len(s) = 1
         /\ First(Tail(s)) = IF Len(s) = 1 THEN Null ELSE s[2]
         /\ Final(Tail(s)) = IF Len(s) = 1 THEN Null ELSE Final(s)
<1>1. Len(s) \in Nat \ {0} /\ Head(s) = s[1]
  BY LenProperties, EmptySeq
<1>2. /\ Tail(s) \in Seq(Threads) /\ Len(Tail(s)) = Len(s) - 1
      /\ \A i \in 1..Len(s)-1 : Tail(s)[i] = s[i + 1]
  BY HeadTailProperties
<1>3. Tail(s) = <<>> <=> Len(s) = 1
  <2>1. Tail(s) = <<>> <=> Len(Tail(s)) = 0
    BY <1>2, EmptySeq
  <2>2. QED
    BY <1>1, <1>2, <2>1
<1>4. Len(s) # 1 => 1 \in 1..Len(s)-1 /\ Len(s) - 1 \in 1..Len(s)-1
  <2>1. \A n \in Nat \ {0} : n # 1 => 1 \in 1..n-1 /\ n - 1 \in 1..n-1
    OBVIOUS
  <2>2. QED
    BY <1>1, <2>1
<1>5. /\ First(Tail(s)) = IF Len(s) = 1 THEN Null ELSE s[2]
      /\ Final(Tail(s)) = IF Len(s) = 1 THEN Null ELSE Final(s)
  BY <1>1, <1>2, <1>3, <1>4 DEF First, Final
<1>6. QED
  BY <1>1, <1>2, <1>3, <1>5

(* The first of a chain that is not empty has the first of the rest as its *)
(* next, and the rest is a chain.                                          *)
LEMMA ChainTail ==
  ASSUME NEW s \in Seq(Threads), s # <<>>, NEW f, Chained(f, s)
  PROVE  f[s[1]] = First(Tail(s)) /\ Chained(f, Tail(s))
<1>1. f[s[1]] = First(Tail(s))
  BY TailPlaces DEF Chained
<1>2. ASSUME NEW i \in 1..Len(Tail(s))
      PROVE  f[Tail(s)[i]] = IF i = Len(Tail(s)) THEN Null ELSE Tail(s)[i + 1]
  <2>1. i \in 1..Len(s)-1 /\ i + 1 \in 1..Len(s) /\ i \in Nat
    BY <1>2, TailPlaces
  <2>2. f[s[i + 1]] = IF i + 1 = Len(s) THEN Null ELSE s[(i + 1) + 1]
    BY <2>1 DEF Chained
  <2>3. i # Len(Tail(s)) => i + 1 \in 1..Len(s)-1
    BY <2>1, TailPlaces
  <2>4. QED
    BY <2>1, <2>2, <2>3, TailPlaces
<1>3. QED
  BY <1>1, <1>2 DEF Chained

(* A store to the next of t and a store to the next of the last thread put *)
(* t at the end of a chain.                                                *)
LEMMA ChainAppend ==
  ASSUME NEW s \in Seq(Threads), NEW t \in Threads, NEW f, NEW g,
         Chained(f, s), f[t] = Null,
         \A i \in 1..Len(s) : s[i] # t,
         \A i, j \in 1..Len(s) : s[i] = s[j] => i = j,
         \A u \in Threads : g[u] = IF u = Final(s) THEN t ELSE f[u]
  PROVE  Chained(g, Append(s, t))
<1>1. CASE s = <<>>
  <2>1. Len(s) = 0 /\ t # Final(s)
    BY <1>1, Places, QueueAssumption DEF Final
  <2>2. QED
    BY <2>1, AppendPlaces DEF Chained
<1>2. CASE s # <<>>
  <2>1. Final(s) = s[Len(s)] /\ Len(s) \in 1..Len(s) /\ t # Final(s)
    BY <1>2, Places DEF Final
  <2>2. ASSUME NEW i \in 1..Len(s), i # Len(s) PROVE g[s[i]] = s[i + 1]
    BY <2>1, <2>2, Places DEF Chained
  <2>3. g[s[Len(s)]] = t /\ g[t] = Null
    BY <2>1, Places
  <2>4. ASSUME NEW i \in 1..Len(s) + 1
        PROVE  g[Append(s, t)[i]] = IF i = Len(s) + 1 THEN Null ELSE Append(s, t)[i + 1]
    <3>1. CASE i = Len(s) + 1
      BY <2>3, <3>1, AppendPlaces
    <3>2. CASE i = Len(s)
      BY <2>1, <2>3, <3>2, AppendPlaces
    <3>3. CASE i \in 1..Len(s) /\ i # Len(s)
      <4>1. i + 1 \in 1..Len(s) /\ i # Len(s) + 1
        BY <3>3, Places
      <4>2. QED
        BY <2>2, <3>3, <4>1, AppendPlaces
    <3>4. QED
      BY <3>1, <3>2, <3>3, Places
  <2>5. QED
    BY <2>4, AppendPlaces DEF Chained
<1>3. QED
  BY <1>1, <1>2

LEMMA ChainKept ==
  ASSUME NEW s \in Seq(Threads), NEW f, NEW g, Chained(f, s),
         \A i \in 1..Len(s) : g[s[i]] = f[s[i]]
  PROVE  Chained(g, s)
BY DEF Chained

-----------------------------------------------------------------------------
(* A statement of the client inside q touches only what belongs to q: the  *)
(* threads in it and the one that is being put there.                      *)
LEMMA Frame ==
  ASSUME IInv, NEW c \in Clients, NEW q \in Queues, pc[q][c] = "in",
         UNCHANGED <<lock, pc, owner, content>>,
         \A r \in Queues : r # q => head'[r] = head[r] /\ tail'[r] = tail[r],
         \A d \in Clients : d # c => at'[d] = at[d] /\ thread'[d] = thread[d],
         \A u \in Threads : \/ next'[u] = next[u]
                            \/ \E i \in 1..Len(content[q]) : content[q][i] = u
                            \/ at[c] \in Entering /\ u = thread[c],
         Shape(c, q)'
  PROVE  Shapes'
<1>1. lock'[q] = 1 /\ \A d \in Clients : pc'[q][d] = "in" => d = c
  BY DEF IInv, SpinInv, TypeOK, LockWord
<1>2. ASSUME NEW r \in Queues, r # q
      PROVE  /\ lock'[r] = 0 => Linked(r, content[r])'
             /\ \A d \in Clients : pc'[r][d] = "in" => Shape(d, r)'
  <2> DEFINE s == content[r]
  <2>1. s \in Seq(Threads) /\ content'[r] = s
    BY DEF IInv, QueueTypeOK
  <2>2. head'[r] = head[r] /\ tail'[r] = tail[r]
    BY <1>2
  <2>3. \A i \in 1..Len(s) : next'[s[i]] = next[s[i]]
    <3> TAKE i \in 1..Len(s)
    <3>1. s[i] \in Threads
      BY <2>1, Places
    <3>2. \A j \in 1..Len(content[q]) : content[q][j] # s[i]
      BY <1>2 DEF IInv, OnePlace
    <3>3. ~ (at[c] \in Entering /\ s[i] = thread[c])
      BY DEF IInv, OnePlace
    <3>4. QED
      BY <3>1, <3>2, <3>3
  <2>4. \A d \in Clients : pc[r][d] = "in" => d # c /\ at'[d] = at[d] /\ thread'[d] = thread[d]
    BY <1>2 DEF IInv, OneCall
  <2>5. Chained(next, s) => Chained(next', s)
    BY <2>1, <2>3, ChainKept
  <2>6. lock'[r] = 0 => Linked(r, content[r])'
    BY <2>1, <2>2, <2>5 DEF IInv, Shapes, Linked
  <2>7. ASSUME NEW d \in Clients, pc[r][d] = "in" PROVE Shape(d, r)'
    <3> DEFINE t == thread[d]
    <3>1. Shape(d, r) /\ at'[d] = at[d] /\ thread'[d] = t
      BY <2>4, <2>7 DEF IInv, Shapes
    <3>2. at[d] \in Entering => t \in Threads /\ next'[t] = next[t]
      BY <1>2, <2>4, <2>7 DEF IInv, OnePlace
    <3>3. at[d] \in Entering /\ Chained(next, Append(s, t)) => Chained(next', Append(s, t))
      <4>1. SUFFICES ASSUME at[d] \in Entering, Chained(next, Append(s, t))
                     PROVE  Chained(next', Append(s, t))
        OBVIOUS
      <4>2. \A i \in 1..Len(Append(s, t)) : next'[Append(s, t)[i]] = next[Append(s, t)[i]]
        BY <2>1, <2>3, <3>2, <4>1, AppendPlaces
      <4>3. QED
        BY <2>1, <3>2, <4>1, <4>2, AppendPlaces, ChainKept
    <3>4. s # <<>> /\ Chained(next, Tail(s)) => Chained(next', Tail(s))
      <4>1. SUFFICES ASSUME s # <<>>, Chained(next, Tail(s)) PROVE Chained(next', Tail(s))
        OBVIOUS
      <4>2. \A i \in 1..Len(Tail(s)) : next'[Tail(s)[i]] = next[Tail(s)[i]]
        <5>1. \A i \in 1..Len(Tail(s)) : i \in 1..Len(s)-1 /\ i + 1 \in 1..Len(s)
          BY <2>1, <4>1, TailPlaces
        <5>2. QED
          BY <2>1, <2>3, <4>1, <5>1, TailPlaces
      <4>3. QED
        BY <2>1, <4>1, <4>2, TailPlaces, ChainKept
    <3>5. at[d] \in {"store next", "link", "store tail", "store head", "enqueued"} <=> at[d] \in Entering
      BY DEF Entering
    <3>6. QED
      BY <2>1, <2>2, <2>5, <3>1, <3>2, <3>3, <3>4, <3>5 DEF Shape, Linked
  <2>8. QED
    BY <2>6, <2>7
<1>3. QED
  BY <1>1, <1>2 DEF Shapes

(* A statement with the lock leaves everything but the pointers and the    *)
(* locals of c alone.                                                      *)
LEMMA StatementInv ==
  ASSUME IInv, NEW c \in Clients, NEW q \in Queues,
         UNCHANGED <<vars, owner, history>>, pc[q][c] = "in",
         \A r \in Queues : r # q => head'[r] = head[r] /\ tail'[r] = tail[r],
         \A d \in Clients : d # c => at'[d] = at[d] /\ thread'[d] = thread[d],
         \A u \in Threads : \/ next'[u] = next[u]
                            \/ \E i \in 1..Len(content[q]) : content[q][i] = u
                            \/ at[c] \in Entering /\ u = thread[c],
         QueueTypeOK', at'[c] # "idle",
         at'[c] \in Entering => at[c] \in Entering /\ thread'[c] = thread[c],
         Shape(c, q)'
  PROVE  IInv'
<1>1. SpinInv'
  BY DEF vars, IInv, SpinInv, TypeOK, LockWord
<1>2. OneCall'
  <2>1. OneCall /\ pc' = pc
    BY DEF vars, IInv
  <2>2. \A r \in Queues : pc[r][c] \notin {"test", "xchg"}
    BY <2>1 DEF OneCall
  <2>3. ASSUME NEW d \in Clients, NEW r \in Queues
        PROVE  /\ pc[r][d] # "out" => at'[d] # "idle"
               /\ pc[r][d] \in {"test", "xchg"} => at'[d] \in {"store next", "take"}
    <3>1. CASE d = c
      BY <2>2, <3>1
    <3>2. CASE d # c
      BY <2>1, <3>2 DEF OneCall
    <3>3. QED
      BY <3>1, <3>2
  <2>4. QED
    BY <2>1, <2>3 DEF OneCall
<1>3. OnePlace'
  BY DEF history, IInv, OnePlace
<1>4. Shapes'
  BY Frame DEF vars, history
<1>5. QED
  BY <1>1, <1>2, <1>3, <1>4 DEF IInv

(* What holds before a statement of c in q. *)
LEMMA Before ==
  ASSUME IInv, NEW c \in Clients, NEW q \in Queues, pc[q][c] = "in"
  PROVE  /\ Shape(c, q) /\ content[q] \in Seq(Threads) /\ QueueTypeOK
         /\ at[c] \in Entering => thread[c] \in Threads
         /\ at[c] \in Entering => \A i \in 1..Len(content[q]) : content[q][i] # thread[c]
         /\ \A i, j \in 1..Len(content[q]) : content[q][i] = content[q][j] => i = j
BY DEF IInv, Shapes, QueueTypeOK, OnePlace

LEMMA StoreNextInv ==
  ASSUME IInv, NEW c \in Clients, NEW q \in Queues, StoreNext(c, q)
  PROVE  IInv'
<1> DEFINE s == content[q]
<1> DEFINE t == thread[c]
<1> USE DEF StoreNext, Statement
<1>1. at[c] \in Entering /\ t \in Threads /\ s \in Seq(Threads) /\ Shape(c, q) /\ QueueTypeOK
  BY Before DEF Entering
<1>2. QueueTypeOK' /\ at'[c] = "link" /\ thread'[c] = t /\ next'[t] = Null
  BY <1>1 DEF QueueTypeOK, Entering, history
<1>3. \A i \in 1..Len(s) : next'[s[i]] = next[s[i]]
  <2>1. \A i \in 1..Len(s) : s[i] \in Threads /\ s[i] # t
    BY <1>1, Places, Before
  <2>2. QED
    BY <1>1, <2>1 DEF QueueTypeOK
<1>4. Linked(q, s)'
  BY <1>1, <1>3, ChainKept DEF Shape, Linked, history
<1>5. Shape(c, q)'
  BY <1>2, <1>4 DEF Shape
<1>6. /\ \A d \in Clients : d # c => at'[d] = at[d] /\ thread'[d] = thread[d]
      /\ \A u \in Threads : u # t => next'[u] = next[u]
  BY <1>1 DEF QueueTypeOK
<1>7. QED
  BY <1>1, <1>2, <1>5, <1>6, StatementInv

LEMMA LinkTailInv ==
  ASSUME IInv, NEW c \in Clients, NEW q \in Queues, LinkTail(c, q)
  PROVE  IInv'
<1> DEFINE s == content[q]
<1> DEFINE t == thread[c]
<1> USE DEF LinkTail, Statement
<1>1. at[c] \in Entering /\ t \in Threads /\ s \in Seq(Threads) /\ Shape(c, q) /\ QueueTypeOK
  BY Before DEF Entering
<1>2. QueueTypeOK' /\ at'[c] = "store tail" /\ thread'[c] = t
  BY <1>1 DEF QueueTypeOK, Entering, history
<1>3. tail[q] = Final(s) /\ head[q] = First(s) /\ Chained(next, s) /\ next[t] = Null
  BY <1>1 DEF Shape, Linked
<1>4. \A u \in Threads : next'[u] = IF u = Final(s) THEN t ELSE next[u]
  BY <1>3
<1>5. /\ \A i \in 1..Len(s) : s[i] # t
      /\ \A i, j \in 1..Len(s) : s[i] = s[j] => i = j
  BY <1>1, Before
<1>6. Chained(next', Append(s, t))
  BY <1>1, <1>3, <1>4, <1>5, ChainAppend
<1>7. Shape(c, q)'
  BY <1>2, <1>3, <1>6 DEF Shape, history
<1>8. \A u \in Threads : next'[u] = next[u] \/ \E i \in 1..Len(s) : s[i] = u
  <2>1. Final(s) \in Threads => \E i \in 1..Len(s) : s[i] = Final(s)
    BY <1>1, Ends, QueueAssumption
  <2>2. QED
    BY <1>4, <2>1
<1>9. \A d \in Clients : d # c => at'[d] = at[d] /\ thread'[d] = thread[d]
  BY <1>1 DEF QueueTypeOK
<1>10. QED
  BY <1>1, <1>2, <1>7, <1>8, <1>9, StatementInv

LEMMA StoreTailInv ==
  ASSUME IInv, NEW c \in Clients, NEW q \in Queues, StoreTail(c, q)
  PROVE  IInv'
<1> USE DEF StoreTail, Statement
<1>1. at[c] \in Entering /\ thread[c] \in Threads /\ Shape(c, q) /\ QueueTypeOK
  BY Before DEF Entering
<1>2. QueueTypeOK' /\ at'[c] = "store head" /\ thread'[c] = thread[c] /\ tail'[q] = thread[c]
  BY <1>1 DEF QueueTypeOK, Entering, history
<1>3. Shape(c, q)'
  BY <1>1, <1>2 DEF Shape, history
<1>4. /\ \A d \in Clients : d # c => at'[d] = at[d] /\ thread'[d] = thread[d]
      /\ \A r \in Queues : r # q => tail'[r] = tail[r]
  BY <1>1 DEF QueueTypeOK
<1>5. QED
  BY <1>1, <1>2, <1>3, <1>4, StatementInv

LEMMA StoreHeadInv ==
  ASSUME IInv, NEW c \in Clients, NEW q \in Queues, StoreHead(c, q)
  PROVE  IInv'
<1> DEFINE s == content[q]
<1> DEFINE t == thread[c]
<1> USE DEF StoreHead, Statement
<1>1. at[c] \in Entering /\ t \in Threads /\ s \in Seq(Threads) /\ Shape(c, q) /\ QueueTypeOK
  BY Before DEF Entering
<1>2. QueueTypeOK' /\ at'[c] = "enqueued" /\ thread'[c] = t
  BY <1>1 DEF QueueTypeOK, Entering, history
<1>3. head[q] = First(s) /\ tail[q] = t /\ Chained(next, Append(s, t))
  BY <1>1 DEF Shape
<1>4. head'[q] = IF head[q] = Null THEN t ELSE head[q]
  BY <1>1, <1>3 DEF QueueTypeOK
<1>5. First(s) = Null <=> s = <<>>
  BY <1>1, Ends, QueueAssumption
<1>6. Linked(q, Append(s, t))'
  BY <1>1, <1>2, <1>3, <1>4, <1>5, AppendPlaces DEF Linked, history
<1>7. Shape(c, q)'
  BY <1>2, <1>6 DEF Shape
<1>8. /\ \A d \in Clients : d # c => at'[d] = at[d] /\ thread'[d] = thread[d]
      /\ \A r \in Queues : r # q => head'[r] = head[r]
  BY <1>1 DEF QueueTypeOK
<1>9. QED
  BY <1>1, <1>2, <1>7, <1>8, StatementInv

LEMMA TakeInv ==
  ASSUME IInv, NEW c \in Clients, NEW q \in Queues, Take(c, q)
  PROVE  IInv'
<1> DEFINE s == content[q]
<1> USE DEF Take, Statement
<1>1. at[c] \notin Entering /\ s \in Seq(Threads) /\ Shape(c, q) /\ QueueTypeOK
  BY Before DEF Entering
<1>2. /\ QueueTypeOK' /\ at'[c] \notin Entering /\ at'[c] # "idle" /\ thread'[c] = head[q]
      /\ at'[c] = IF head[q] = Null THEN "dequeued" ELSE "advance"
  BY <1>1 DEF QueueTypeOK, Entering, Leaving, history, pointers
<1>3. Linked(q, s) /\ head[q] = First(s)
  BY <1>1 DEF Shape, Linked
<1>4. Linked(q, s)'
  BY <1>1, <1>3 DEF Linked, history, pointers
<1>5. Shape(c, q)'
  <2>1. CASE s = <<>>
    <3>1. at'[c] = "dequeued" /\ thread'[c] = Null /\ content'[q] = <<>>
      BY <1>1, <1>2, <1>3, <2>1, Ends DEF history
    <3>2. QED
      BY <1>4, <2>1, <3>1 DEF Shape
  <2>2. CASE s # <<>>
    <3>1. at'[c] = "advance" /\ thread'[c] = s[1] /\ content'[q] = s
      BY <1>1, <1>2, <1>3, <2>2, Ends, QueueAssumption DEF history
    <3>2. QED
      BY <1>4, <2>2, <3>1 DEF Shape
  <2>3. QED
    BY <2>1, <2>2
<1>6. \A d \in Clients : d # c => at'[d] = at[d] /\ thread'[d] = thread[d]
  BY <1>1 DEF QueueTypeOK
<1>7. QED
  BY <1>1, <1>2, <1>5, <1>6, StatementInv DEF pointers

LEMMA AdvanceInv ==
  ASSUME IInv, NEW c \in Clients, NEW q \in Queues, Advance(c, q)
  PROVE  IInv'
<1> DEFINE s == content[q]
<1> USE DEF Advance, Statement
<1>1. at[c] \notin Entering /\ s \in Seq(Threads) /\ Shape(c, q) /\ QueueTypeOK
  BY Before DEF Entering
<1>2. s # <<>> /\ thread[c] = s[1] /\ s[1] \in Threads /\ Linked(q, s) /\ Chained(next, s)
  BY <1>1, Ends DEF Shape, Linked
<1>3. /\ QueueTypeOK' /\ at'[c] = "clear" /\ at'[c] \notin Entering /\ thread'[c] = thread[c]
      /\ head'[q] = next[s[1]]
  BY <1>1, <1>2 DEF QueueTypeOK, Entering, Leaving, history
<1>4. next[s[1]] = First(Tail(s))
  BY <1>1, <1>2, ChainTail
<1>5. Shape(c, q)'
  BY <1>2, <1>3, <1>4 DEF Shape, Linked, history
<1>6. /\ \A d \in Clients : d # c => at'[d] = at[d] /\ thread'[d] = thread[d]
      /\ \A r \in Queues : r # q => head'[r] = head[r]
  BY <1>1 DEF QueueTypeOK
<1>7. QED
  BY <1>1, <1>3, <1>5, <1>6, StatementInv

LEMMA ClearTailInv ==
  ASSUME IInv, NEW c \in Clients, NEW q \in Queues, ClearTail(c, q)
  PROVE  IInv'
<1> DEFINE s == content[q]
<1> USE DEF ClearTail, Statement
<1>1. at[c] \notin Entering /\ s \in Seq(Threads) /\ Shape(c, q) /\ QueueTypeOK
  BY Before DEF Entering
<1>2. /\ s # <<>> /\ thread[c] = s[1] /\ head[q] = First(Tail(s))
      /\ tail[q] = Final(s) /\ Chained(next, s)
  BY <1>1 DEF Shape
<1>3. /\ QueueTypeOK' /\ at'[c] = "dequeued" /\ at'[c] \notin Entering /\ thread'[c] = thread[c]
      /\ tail'[q] = IF head[q] = Null THEN Null ELSE tail[q]
  BY <1>1 DEF QueueTypeOK, Entering, Leaving, history
<1>4. Chained(next, Tail(s)) /\ Tail(s) \in Seq(Threads)
  BY <1>1, <1>2, ChainTail, TailPlaces
<1>5. First(Tail(s)) = Null <=> Tail(s) = <<>>
  BY <1>4, Ends, QueueAssumption
<1>6. Final(Tail(s)) = IF Tail(s) = <<>> THEN Null ELSE Final(s)
  BY <1>1, <1>2, TailPlaces
<1>7. Linked(q, Tail(s))'
  BY <1>2, <1>3, <1>4, <1>5, <1>6 DEF Linked, history
<1>8. Shape(c, q)'
  BY <1>2, <1>3, <1>7 DEF Shape, history
<1>9. /\ \A d \in Clients : d # c => at'[d] = at[d] /\ thread'[d] = thread[d]
      /\ \A r \in Queues : r # q => tail'[r] = tail[r]
  BY <1>1 DEF QueueTypeOK
<1>10. QED
  BY <1>1, <1>3, <1>8, <1>9, StatementInv

-----------------------------------------------------------------------------
(* A call begins: c was in no call, so nothing is said of it but where the *)
(* thread is that it enqueues.                                             *)
LEMMA BeginsInv ==
  ASSUME IInv, NEW c \in Clients, NEW q \in Queues, NEW here \in {"store next", "take"},
         NEW t \in Link, Begins(c, q, here, t), QueueTypeOK', OnePlace'
  PROVE  IInv'
<1>1. SpinInv'
  BY ActionInv DEF Begins, IInv
<1>2. OneCall /\ \A r \in Queues : pc[r][c] = "out"
  BY DEF Begins, IInv, OneCall
<1>3. /\ \A d \in Clients : d # c => at'[d] = at[d] /\ thread'[d] = thread[d]
      /\ at'[c] = here
      /\ \A d \in Clients, r \in Queues : pc'[r][d] = IF d = c /\ r = q THEN "test" ELSE pc[r][d]
  BY DEF Begins, IInv, QueueTypeOK, SpinInv, TypeOK, Call, Goto
<1>4. OneCall'
  <2>1. ASSUME NEW d \in Clients, d # c, NEW r \in Queues, NEW r2 \in Queues
        PROVE  /\ pc'[r][d] # "out" => at'[d] # "idle"
               /\ pc'[r][d] # "out" /\ pc'[r2][d] # "out" => r = r2
               /\ pc'[r][d] \in {"test", "xchg"} => at'[d] \in {"store next", "take"}
    <3>1. at'[d] = at[d] /\ pc'[r][d] = pc[r][d] /\ pc'[r2][d] = pc[r2][d]
      BY <1>3, <2>1
    <3>2. QED
      BY <1>2, <3>1 DEF OneCall
  <2>2. ASSUME NEW r \in Queues, NEW r2 \in Queues
        PROVE  /\ pc'[r][c] # "out" => at'[c] # "idle"
               /\ pc'[r][c] # "out" /\ pc'[r2][c] # "out" => r = r2
               /\ pc'[r][c] \in {"test", "xchg"} => at'[c] \in {"store next", "take"}
    BY <1>2, <1>3
  <2>3. QED
    BY <2>1, <2>2 DEF OneCall
<1>5. Shapes'
  <2>1. ASSUME NEW r \in Queues, lock'[r] = 0 PROVE Linked(r, content[r])'
    BY <2>1 DEF Begins, IInv, Shapes, Call, Linked, history, pointers
  <2>2. ASSUME NEW r \in Queues, NEW d \in Clients, pc'[r][d] = "in" PROVE Shape(d, r)'
    <3>1. d # c /\ pc[r][d] = "in"
      BY <1>2, <1>3, <2>2
    <3>2. Shape(d, r) /\ at'[d] = at[d] /\ thread'[d] = thread[d]
      BY <1>3, <3>1 DEF IInv, Shapes
    <3>3. QED
      BY <3>2 DEF Begins, Shape, Linked, history, pointers
  <2>3. QED
    BY <2>1, <2>2 DEF Shapes
<1>6. QED
  BY <1>1, <1>4, <1>5 DEF IInv

LEMMA EnqueueInv ==
  ASSUME IInv, NEW c \in Clients, NEW q \in Queues, NEW t \in Threads, Enqueue(c, q, t)
  PROVE  IInv'
<1>1. QueueTypeOK /\ OnePlace /\ at[c] \notin Entering /\ owner[t] # Null
  BY QueueAssumption DEF Enqueue, Begins, IInv, Entering
<1>2. QueueTypeOK'
  BY <1>1 DEF Enqueue, Begins, QueueTypeOK, Entering, history, pointers
<1>3. /\ content' = content /\ owner'[t] = Null /\ thread'[c] = t
      /\ \A u \in Threads : owner[u] = Null => owner'[u] = Null
      /\ \A d \in Clients : d # c => at'[d] = at[d] /\ thread'[d] = thread[d]
  BY <1>1 DEF Enqueue, Begins, QueueTypeOK, history
<1>4. OnePlace'
  <2>1. \A q1 \in Queues : \A i \in 1..Len(content[q1]) :
          content[q1][i] \in Threads /\ content[q1][i] # t
    <3> TAKE q1 \in Queues
    <3> TAKE i \in 1..Len(content[q1])
    <3>1. content[q1][i] \in Threads
      BY <1>1, Places DEF QueueTypeOK
    <3>2. owner[content[q1][i]] = Null
      BY <1>1 DEF OnePlace
    <3>3. QED
      BY <1>1, <3>1, <3>2
  <2>2. \A d \in Clients : d # c /\ at[d] \in Entering => thread[d] # t
    BY <1>1 DEF OnePlace
  <2>3. ASSUME NEW d \in Clients, at'[d] \in Entering
        PROVE  /\ thread'[d] \in Threads /\ owner'[thread'[d]] = Null
               /\ d # c => thread'[d] # t
               /\ \A q1 \in Queues : \A i \in 1..Len(content[q1]) : content[q1][i] # thread'[d]
    <3>1. CASE d = c
      BY <1>3, <2>1, <3>1
    <3>2. CASE d # c
      <4>1. thread'[d] = thread[d] /\ at[d] \in Entering
        BY <1>3, <2>3, <3>2
      <4>2. thread[d] \in Threads /\ owner[thread[d]] = Null /\ thread[d] # t
        BY <1>1, <2>2, <3>2, <4>1 DEF OnePlace
      <4>3. \A q1 \in Queues : \A i \in 1..Len(content[q1]) : content[q1][i] # thread[d]
        BY <1>1, <4>1 DEF OnePlace
      <4>4. QED
        BY <1>3, <4>1, <4>2, <4>3
    <3>3. QED
      BY <3>1, <3>2
  <2>4. ASSUME NEW d \in Clients, NEW e \in Clients, at'[d] \in Entering, at'[e] \in Entering,
               thread'[d] = thread'[e]
        PROVE  d = e
    <3>1. CASE d # c /\ e # c
      <4>1. at[d] \in Entering /\ at[e] \in Entering /\ thread[d] = thread[e]
        BY <1>3, <2>4, <3>1
      <4>2. QED
        BY <1>1, <4>1 DEF OnePlace
    <3>2. QED
      BY <1>3, <2>3, <2>4, <3>1
  <2>5. \A q1 \in Queues : \A i \in 1..Len(content[q1]) : owner'[content[q1][i]] = Null
    BY <1>1, <1>3, <2>1 DEF OnePlace
  <2>6. \A q1, q2 \in Queues : \A i \in 1..Len(content[q1]), j \in 1..Len(content[q2]) :
          content[q1][i] = content[q2][j] => q1 = q2 /\ i = j
    BY <1>1 DEF OnePlace
  <2>7. content' = content
    BY <1>3
  <2>8. QED
    BY <2>3, <2>4, <2>5, <2>6, <2>7 DEF OnePlace
<1>5. QED
  BY <1>2, <1>4, BeginsInv DEF Enqueue

LEMMA DequeueInv ==
  ASSUME IInv, NEW c \in Clients, NEW q \in Queues, Dequeue(c, q)
  PROVE  IInv'
<1> USE DEF Dequeue
<1>1. QueueTypeOK'
  BY DEF Begins, IInv, QueueTypeOK, Entering, Leaving, history, pointers
<1>2. /\ content' = content /\ owner' = owner /\ at'[c] \notin Entering
      /\ \A d \in Clients : d # c => at'[d] = at[d] /\ thread'[d] = thread[d]
  BY DEF Begins, IInv, QueueTypeOK, history, Entering
<1>3. OnePlace'
  BY <1>2 DEF IInv, OnePlace
<1>4. QED
  BY <1>1, <1>3, BeginsInv

(* Who gets the lock finds the queue linked. *)
LEMMA SpinsInv ==
  ASSUME IInv, NEW c \in Clients, NEW q \in Queues, Spins(c, q), UNCHANGED queueVars
  PROVE  IInv'
<1>1. SpinInv'
  BY ActionInv DEF IInv
<1>2. /\ UNCHANGED <<head, tail, next, at, thread, owner, content, returned>>
      /\ pc[q][c] \in {"test", "xchg"}
      /\ \A d \in Clients, r \in Queues : d # c \/ r # q => pc'[r][d] = pc[r][d]
      /\ \A r \in Queues : lock'[r] = 0 => lock[r] = 0
      /\ pc'[q][c] = "in" => lock[q] = 0
      /\ pc'[q][c] # "out"
  BY DEF queueVars, pointers, history, Spins, Test, Xchg, Goto, IInv, SpinInv,
     TypeOK
<1>3. QueueTypeOK' /\ OnePlace'
  BY <1>2 DEF IInv, QueueTypeOK, OnePlace
<1>4. at[c] \in {"store next", "take"}
  BY <1>2 DEF IInv, OneCall
<1>5. \A d \in Clients, r \in Queues : pc'[r][d] # "out" <=> pc[r][d] # "out"
  BY <1>2
<1>6. OneCall'
  <2>1. OneCall /\ at' = at
    BY <1>2 DEF IInv
  <2>2. \A d \in Clients, r \in Queues :
          pc'[r][d] \in {"test", "xchg"} => at'[d] \in {"store next", "take"}
    BY <1>2, <1>4, <2>1 DEF OneCall
  <2>3. QED
    BY <1>5, <2>1, <2>2 DEF OneCall
<1>7. Shapes'
  <2>1. ASSUME NEW r \in Queues, lock'[r] = 0 PROVE Linked(r, content[r])'
    BY <1>2, <2>1 DEF IInv, Shapes, Linked
  <2>2. ASSUME NEW r \in Queues, NEW d \in Clients, pc'[r][d] = "in" PROVE Shape(d, r)'
    <3>1. CASE pc[r][d] = "in"
      <4>1. Shape(d, r)
        BY <3>1 DEF IInv, Shapes
      <4>2. QED
        BY <1>2, <4>1 DEF Shape, Linked
    <3>2. CASE pc[r][d] # "in"
      <4>1. r = q /\ d = c
        BY <1>2, <2>2, <3>2
      <4>2. Linked(q, content[q])
        BY <1>2, <2>2, <4>1 DEF IInv, Shapes
      <4>3. QED
        BY <1>2, <1>4, <4>1, <4>2 DEF Shape, Linked
    <3>3. QED
      BY <3>1, <3>2
  <2>3. QED
    BY <2>1, <2>2 DEF Shapes
<1>8. QED
  BY <1>1, <1>3, <1>6, <1>7 DEF IInv

-----------------------------------------------------------------------------
(* A call returns: the queue is linked again when its lock is given up.    *)
LEMMA ReturnsInv ==
  ASSUME IInv, NEW c \in Clients, NEW q \in Queues, Returns(c, q), QueueTypeOK', OnePlace',
         \A r \in Queues : r # q => content'[r] = content[r],
         Linked(q, content'[q])
  PROVE  IInv'
<1>1. SpinInv'
  BY ActionInv DEF Returns, IInv
<1>2. /\ OneCall /\ pc[q][c] = "in" /\ UNCHANGED <<head, tail, next, thread>>
      /\ \A d \in Clients : d # c => at'[d] = at[d]
      /\ pc'[q][c] = "out"
      /\ \A d \in Clients, r \in Queues : d # c \/ r # q => pc'[r][d] = pc[r][d]
      /\ \A r \in Queues : r # q => lock'[r] = lock[r]
  BY DEF Returns, pointers, Unlock, Goto, IInv, QueueTypeOK, SpinInv, TypeOK
<1>3. \A r \in Queues : pc'[r][c] = "out"
  <2>1. \A r \in Queues : r # q => pc[r][c] = "out"
    BY <1>2 DEF OneCall
  <2>2. QED
    BY <1>2, <2>1
<1>4. OneCall'
  <2>1. ASSUME NEW d \in Clients, NEW r \in Queues, pc'[r][d] # "out"
        PROVE  d # c /\ at'[d] = at[d] /\ pc'[r][d] = pc[r][d] /\ pc[r][d] # "out"
    BY <1>2, <1>3, <2>1
  <2>2. ASSUME NEW d \in Clients, NEW r \in Queues
        PROVE  /\ pc'[r][d] # "out" => at'[d] # "idle"
               /\ pc'[r][d] \in {"test", "xchg"} => at'[d] \in {"store next", "take"}
    <3>1. CASE pc'[r][d] = "out"
      BY <3>1
    <3>2. CASE pc'[r][d] # "out"
      <4>1. OneCall /\ at'[d] = at[d] /\ pc'[r][d] = pc[r][d] /\ pc[r][d] # "out"
        BY <1>2, <2>1, <3>2
      <4>2. QED
        BY <4>1 DEF OneCall
    <3>3. QED
      BY <3>1, <3>2
  <2>3. ASSUME NEW d \in Clients, NEW q1 \in Queues, NEW q2 \in Queues,
               pc'[q1][d] # "out", pc'[q2][d] # "out"
        PROVE  q1 = q2
    <3>1. OneCall /\ pc[q1][d] # "out" /\ pc[q2][d] # "out"
      BY <1>2, <2>1, <2>3
    <3>2. QED
      BY <3>1 DEF OneCall
  <2>4. QED
    BY <2>2, <2>3 DEF OneCall
<1>5. Shapes'
  <2>1. ASSUME NEW r \in Queues, lock'[r] = 0 PROVE Linked(r, content[r])'
    <3>1. CASE r = q
      BY <1>2, <3>1 DEF Linked
    <3>2. CASE r # q
      BY <1>2, <2>1, <3>2 DEF IInv, Shapes, Linked
    <3>3. QED
      BY <3>1, <3>2
  <2>2. ASSUME NEW r \in Queues, NEW d \in Clients, pc'[r][d] = "in" PROVE Shape(d, r)'
    <3>1. d # c /\ pc[r][d] = "in"
      BY <1>2, <1>3, <2>2
    <3>2. r # q
      BY <1>2, <3>1 DEF IInv, SpinInv, LockWord
    <3>3. Shape(d, r) /\ at'[d] = at[d] /\ content'[r] = content[r]
      BY <1>2, <3>1, <3>2 DEF IInv, Shapes
    <3>4. QED
      BY <1>2, <3>3 DEF Shape, Linked
  <2>3. QED
    BY <2>1, <2>2 DEF Shapes
<1>6. QED
  BY <1>1, <1>4, <1>5 DEF IInv

LEMMA EnqueuedInv ==
  ASSUME IInv, NEW c \in Clients, NEW q \in Queues, Enqueued(c, q)
  PROVE  /\ IInv'
         /\ thread[c] \in Threads
         /\ \A r \in Queues : \A i \in 1..Len(content[r]) : content[r][i] # thread[c]
<1> DEFINE s == content[q]
<1> DEFINE t == thread[c]
<1>1. /\ pc[q][c] = "in" /\ at[c] = "enqueued" /\ at[c] \in Entering
      /\ Returns(c, q) /\ QueueTypeOK /\ OnePlace /\ owner' = owner /\ thread' = thread
  BY DEF Enqueued, Returns, Unlock, Entering, IInv
<1>2. s \in Seq(Threads) /\ t \in Threads /\ Shape(c, q)
  BY <1>1, Before
<1>3. /\ content' = [content EXCEPT ![q] = Append(s, t)] /\ content'[q] = Append(s, t)
      /\ \A r \in Queues : r # q => content'[r] = content[r]
      /\ at'[c] = "idle" /\ \A d \in Clients : d # c => at'[d] = at[d]
  BY <1>1 DEF Enqueued, Returns, QueueTypeOK
<1>4. QueueTypeOK'
  BY <1>1, <1>2, <1>3, AppendPlaces DEF Enqueued, Returns, QueueTypeOK, pointers
<1>5. \A r \in Queues : \A i \in 1..Len(content[r]) : content[r][i] # t
  BY <1>1 DEF OnePlace
<1>6. OnePlace'
  <2>1. ASSUME NEW r \in Queues, NEW i \in 1..Len(content'[r])
        PROVE  \/ r = q /\ i = Len(s) + 1 /\ content'[r][i] = t
               \/ i \in 1..Len(content[r]) /\ content'[r][i] = content[r][i]
    <3>1. CASE r = q
      <4>1. Len(content'[r]) = Len(s) + 1 /\ Len(s) \in Nat
        BY <1>2, <1>3, <3>1, AppendPlaces
      <4>2. CASE i = Len(s) + 1
        BY <1>2, <1>3, <3>1, <4>2, AppendPlaces
      <4>3. CASE i # Len(s) + 1
        <5>1. i \in 1..Len(s)
          BY <4>1, <4>3
        <5>2. QED
          BY <1>2, <1>3, <3>1, <5>1, AppendPlaces
      <4>4. QED
        BY <4>2, <4>3
    <3>2. CASE r # q
      BY <1>3, <3>2
    <3>3. QED
      BY <3>1, <3>2
  <2>2. ASSUME NEW r1 \in Queues, NEW r2 \in Queues,
               NEW i \in 1..Len(content'[r1]), NEW j \in 1..Len(content'[r2]),
               content'[r1][i] = content'[r2][j]
        PROVE  r1 = r2 /\ i = j
    <3>1. \/ r1 = q /\ i = Len(s) + 1 /\ content'[r1][i] = t
          \/ i \in 1..Len(content[r1]) /\ content'[r1][i] = content[r1][i]
      BY <2>1
    <3>2. \/ r2 = q /\ j = Len(s) + 1 /\ content'[r2][j] = t
          \/ j \in 1..Len(content[r2]) /\ content'[r2][j] = content[r2][j]
      BY <2>1
    <3>3. QED
      BY <1>1, <1>5, <2>2, <3>1, <3>2 DEF OnePlace
  <2>3. \A d \in Clients : at'[d] \in Entering => d # c /\ at[d] \in Entering
    BY <1>3 DEF Entering
  <2>4. ASSUME NEW r \in Queues, NEW i \in 1..Len(content'[r])
        PROVE  /\ owner'[content'[r][i]] = Null
               /\ \A d \in Clients : at'[d] \in Entering => content'[r][i] # thread'[d]
    <3>1. CASE content'[r][i] = t
      BY <1>1, <2>3, <3>1 DEF OnePlace
    <3>2. CASE i \in 1..Len(content[r]) /\ content'[r][i] = content[r][i]
      BY <1>1, <2>3, <3>2 DEF OnePlace
    <3>3. QED
      BY <2>1, <3>1, <3>2
  <2>5. \A d \in Clients : at'[d] \in Entering => thread'[d] \in Threads /\ owner'[thread'[d]] = Null
    BY <1>1, <2>3 DEF OnePlace
  <2>6. \A d, e \in Clients :
          at'[d] \in Entering /\ at'[e] \in Entering /\ thread'[d] = thread'[e] => d = e
    BY <1>1, <2>3 DEF OnePlace
  <2>7. QED
    BY <2>2, <2>4, <2>5, <2>6 DEF OnePlace
<1>7. Linked(q, content'[q])
  BY <1>1, <1>2, <1>3 DEF Shape
<1>8. QED
  BY <1>1, <1>2, <1>3, <1>4, <1>5, <1>6, <1>7, ReturnsInv

LEMMA DequeuedInv ==
  ASSUME IInv, NEW c \in Clients, NEW q \in Queues, Dequeued(c, q)
  PROVE  /\ IInv'
         /\ thread[c] = IF content[q] = <<>> THEN Null ELSE Head(content[q])
         /\ content[q] # <<>> => thread[c] # Null
<1> DEFINE s == content[q]
<1> DEFINE t == thread[c]
<1>1. /\ pc[q][c] = "in" /\ at[c] = "dequeued" /\ at[c] \notin Entering
      /\ Returns(c, q) /\ QueueTypeOK /\ OnePlace /\ thread' = thread /\ returned' = t
      /\ UNCHANGED <<head, tail, next>>
  BY DEF Dequeued, Returns, Unlock, Entering, IInv, pointers
<1>2. s \in Seq(Threads) /\ Shape(c, q)
  BY <1>1, Before
<1>3. at'[c] = "idle" /\ \A d \in Clients : d # c => at'[d] = at[d]
  BY <1>1 DEF Returns, QueueTypeOK
<1>4. \A d \in Clients : at'[d] \in Entering => at[d] \in Entering
  BY <1>3 DEF Entering
<1>5. CASE s = <<>>
  <2>1. t = Null /\ Linked(q, s)
    BY <1>1, <1>2, <1>5 DEF Shape
  <2>2. owner' = owner /\ content' = content
    BY <2>1 DEF Dequeued
  <2>3. QueueTypeOK'
    BY <1>1, <2>2 DEF Returns, QueueTypeOK
  <2>4. OnePlace'
    BY <1>1, <1>4, <2>2 DEF OnePlace
  <2>5. IInv'
    BY <1>1, <2>1, <2>2, <2>3, <2>4, ReturnsInv
  <2>6. QED
    BY <1>5, <2>1, <2>5
<1>6. CASE s # <<>>
  <2>1. /\ t = s[1] /\ t = Head(s) /\ t \in Threads /\ t # Null /\ Linked(q, Tail(s))
        /\ 1 \in 1..Len(s)
    BY <1>1, <1>2, <1>6, Ends, TailPlaces, QueueAssumption DEF Shape
  <2>2. /\ content' = [content EXCEPT ![q] = Tail(s)] /\ owner' = [owner EXCEPT ![t] = c]
        /\ content'[q] = Tail(s) /\ \A r \in Queues : r # q => content'[r] = content[r]
        /\ \A u \in Threads : u # t => owner'[u] = owner[u]
    BY <1>1, <2>1 DEF Dequeued, QueueTypeOK
  <2>3. QueueTypeOK'
    BY <1>1, <1>2, <1>6, <2>1, <2>2, TailPlaces DEF Returns, QueueTypeOK
  <2>4. ASSUME NEW r \in Queues, NEW i \in 1..Len(content'[r])
        PROVE  \E k \in 1..Len(content[r]) :
                 /\ content'[r][i] = content[r][k]
                 /\ k = IF r = q THEN i + 1 ELSE i
                 /\ content[r][k] # t /\ i \in Nat
    <3>1. CASE r = q
      <4>1. Len(content'[r]) = Len(s) - 1 /\ Len(s) \in Nat
        BY <1>2, <1>6, <2>2, <3>1, TailPlaces
      <4>2. i \in 1..Len(s)-1 /\ i + 1 \in 1..Len(s) /\ i \in Nat /\ i + 1 # 1
        BY <4>1
      <4>3. content'[r][i] = s[i + 1]
        <5>1. content'[r] = Tail(s)
          BY <2>2, <3>1
        <5>2. QED
          BY <1>2, <1>6, <4>2, <5>1, TailPlaces
      <4>4. s[i + 1] # t
        BY <1>1, <2>1, <4>2 DEF OnePlace
      <4>5. QED
        BY <3>1, <4>2, <4>3, <4>4
    <3>2. CASE r # q
      <4>1. content'[r] = content[r] /\ Len(content[r]) \in Nat
        BY <1>1, <2>2, <3>2, Places DEF QueueTypeOK
      <4>2. content[r][i] # t
        BY <1>1, <2>1, <3>2, <4>1 DEF OnePlace
      <4>3. QED
        BY <3>2, <4>1, <4>2
    <3>3. QED
      BY <3>1, <3>2
  <2>5. OnePlace'
    <3>1. ASSUME NEW r1 \in Queues, NEW r2 \in Queues,
                 NEW i \in 1..Len(content'[r1]), NEW j \in 1..Len(content'[r2]),
                 content'[r1][i] = content'[r2][j]
          PROVE  r1 = r2 /\ i = j
      <4>1. PICK k \in 1..Len(content[r1]) :
              content'[r1][i] = content[r1][k] /\ k = (IF r1 = q THEN i + 1 ELSE i) /\ i \in Nat
        BY <2>4
      <4>2. PICK l \in 1..Len(content[r2]) :
              content'[r2][j] = content[r2][l] /\ l = (IF r2 = q THEN j + 1 ELSE j) /\ j \in Nat
        BY <2>4
      <4>3. r1 = r2 /\ k = l
        <5>1. content[r1][k] = content[r2][l]
          BY <3>1, <4>1, <4>2
        <5>2. QED
          BY <1>1, <5>1 DEF OnePlace
      <4>4. QED
        BY <4>1, <4>2, <4>3
    <3>2. ASSUME NEW d \in Clients, at'[d] \in Entering
          PROVE  /\ at[d] \in Entering /\ thread'[d] = thread[d] /\ thread[d] # t
                 /\ thread[d] \in Threads /\ owner'[thread[d]] = Null
      <4>1. at[d] \in Entering /\ thread'[d] = thread[d]
        BY <1>1, <1>4, <3>2
      <4>2. thread[d] \in Threads /\ owner[thread[d]] = Null /\ thread[d] # t
        BY <1>1, <2>1, <4>1 DEF OnePlace
      <4>3. QED
        BY <2>2, <4>1, <4>2
    <3>3. ASSUME NEW r \in Queues, NEW i \in 1..Len(content'[r])
          PROVE  /\ owner'[content'[r][i]] = Null
                 /\ \A d \in Clients : at'[d] \in Entering => content'[r][i] # thread'[d]
      <4>1. PICK k \in 1..Len(content[r]) :
              content'[r][i] = content[r][k] /\ content[r][k] # t
        BY <2>4
      <4>2. content[r][k] \in Threads /\ owner[content[r][k]] = Null
        BY <1>1, Places DEF OnePlace, QueueTypeOK
      <4>3. \A d \in Clients : at[d] \in Entering => content[r][k] # thread[d]
        BY <1>1 DEF OnePlace
      <4>4. QED
        BY <2>2, <3>2, <4>1, <4>2, <4>3
    <3>4. \A d, e \in Clients :
            at'[d] \in Entering /\ at'[e] \in Entering /\ thread'[d] = thread'[e] => d = e
      BY <1>1, <3>2 DEF OnePlace
    <3>5. QED
      BY <3>1, <3>2, <3>3, <3>4 DEF OnePlace
  <2>6. IInv'
    BY <1>1, <2>1, <2>2, <2>3, <2>5, ReturnsInv
  <2>7. QED
    BY <1>6, <2>1, <2>6
<1>7. QED
  BY <1>5, <1>6

-----------------------------------------------------------------------------
LEMMA InitInv == QueueInit => IInv
<1> SUFFICES ASSUME QueueInit PROVE IInv
  OBVIOUS
<1>1. \A q \in Queues : content[q] = <<>> /\ Len(content[q]) = 0
  BY EmptySeq DEF QueueInit
<1>2. SpinInv
  BY SpinInit DEF QueueInit
<1>3. QueueTypeOK
  BY EmptySeq DEF QueueInit, QueueTypeOK
<1>4. OneCall
  BY DEF QueueInit, Init, OneCall
<1>5. OnePlace
  BY <1>1 DEF QueueInit, OnePlace, Entering
<1>6. Shapes
  BY <1>1 DEF QueueInit, Init, Shapes, Linked, First, Final, Chained
<1>7. QED
  BY <1>2, <1>3, <1>4, <1>5, <1>6 DEF IInv

LEMMA NextInv == IInv /\ [QueueNext]_<<vars, queueVars>> => IInv'
<1> SUFFICES ASSUME IInv, [QueueNext]_<<vars, queueVars>> PROVE IInv'
  OBVIOUS
<1>1. CASE UNCHANGED <<vars, queueVars>>
  <2>1. UNCHANGED <<lock, pc, head, tail, next, at, thread, owner, content, returned>>
    BY <1>1 DEF vars, queueVars, pointers, history
  <2>2. SpinInv' /\ QueueTypeOK'
    BY <2>1 DEF IInv, SpinInv, TypeOK, LockWord, QueueTypeOK
  <2>3. OneCall' /\ OnePlace'
    <3>1. OneCall /\ OnePlace
      BY DEF IInv
    <3>2. OneCall'
      BY <2>1, <3>1, Zenon DEF OneCall
    <3>3. OnePlace'
      BY <2>1, <3>1 DEF OnePlace
    <3>4. QED
      BY <3>2, <3>3
  <2>4. Shapes'
    <3>1. ASSUME NEW q \in Queues, NEW c \in Clients
          PROVE  /\ Linked(q, content[q]) => Linked(q, content[q])'
                 /\ Shape(c, q) => Shape(c, q)'
      BY <2>1 DEF Shape, Linked
    <3>2. QED
      BY <2>1, <3>1 DEF IInv, Shapes, Linked
  <2>5. QED
    BY <2>2, <2>3, <2>4 DEF IInv
<1>2. ASSUME NEW c \in Clients, NEW q \in Queues, Statements(c, q) PROVE IInv'
  BY <1>2, StoreNextInv, LinkTailInv, StoreTailInv, StoreHeadInv, TakeInv,
     AdvanceInv, ClearTailInv, EnqueuedInv, DequeuedInv DEF Statements
<1>3. QED
  BY <1>1, <1>2, EnqueueInv, DequeueInv, SpinsInv DEF QueueNext, Step

LEMMA Invariance == QueueSpec => []IInv
BY InitInv, NextInv, PTL DEF QueueSpec

(* However calls interleave, statement by statement, a queue whose lock is *)
(* free is a linked list of the threads that came and have not gone, in    *)
(* their order.                                                            *)
THEOREM ListsStayLinked == QueueSpec => []ListsAreLinked
<1>1. IInv => ListsAreLinked
  BY DEF IInv, Shapes, ListsAreLinked
<1>2. QED
  BY <1>1, Invariance, PTL

(* Dequeue returns the thread that has been in the queue for longest, or   *)
(* null if there is none: first in, first out with the history as content, *)
(* where a call takes effect with its unlock.                              *)
History == INSTANCE FifoQueues

THEOREM Implementation == QueueSpec => History!Spec
<1>1. QueueInit => History!Init
  BY DEF QueueInit, History!Init
<1>2. IInv /\ [QueueNext]_<<vars, queueVars>> => [History!Next]_<<content, returned>>
  <2> SUFFICES ASSUME IInv, [QueueNext]_<<vars, queueVars>>
               PROVE  [History!Next]_<<content, returned>>
    OBVIOUS
  <2>1. ASSUME NEW c \in Clients, NEW q \in Queues, Enqueued(c, q) PROVE History!Next
    <3>1. content[q] \in Seq(Threads) /\ \A r \in Queues : content[r] \in Seq(Threads)
      BY DEF IInv, QueueTypeOK
    <3>2. thread[c] \in Threads /\ ~History!Queued(thread[c])
      BY <2>1, <3>1, EnqueuedInv, Places DEF History!Queued
    <3>3. History!Enqueue(q, thread[c])
      BY <2>1, <3>2 DEF Enqueued, History!Enqueue
    <3>4. QED
      BY <3>2, <3>3 DEF History!Next
  <2>2. ASSUME NEW c \in Clients, NEW q \in Queues, Dequeued(c, q) PROVE History!Dequeue(q)
    BY <2>2, DequeuedInv DEF Dequeued, History!Dequeue
  <2>3. ASSUME NEW c \in Clients, NEW q \in Queues,
               \/ Dequeue(c, q) \/ \E t \in Threads : Enqueue(c, q, t)
               \/ Spins(c, q) /\ UNCHANGED queueVars
        PROVE  UNCHANGED <<content, returned>>
    BY <2>3 DEF Dequeue, Enqueue, Begins, queueVars, history
  <2>4. ASSUME NEW c \in Clients, NEW q \in Queues, Statements(c, q)
        PROVE  Enqueued(c, q) \/ Dequeued(c, q) \/ UNCHANGED <<content, returned>>
    BY <2>4 DEF Statements, Statement, StoreNext, LinkTail, StoreTail, StoreHead,
       Take, Advance, ClearTail, history
  <2>5. CASE UNCHANGED <<vars, queueVars>>
    BY <2>5 DEF queueVars, history
  <2>6. QED
    BY <2>1, <2>2, <2>3, <2>4, <2>5 DEF QueueNext, Step, History!Next
<1>3. QED
  BY <1>1, <1>2, InitInv, NextInv, PTL DEF QueueSpec, History!Spec

(* The calls use each lock as Spinlock says, so the lock of every queue is *)
(* a mutual exclusion lock here too.                                       *)
THEOREM LocksOfQueues == QueueSpec => Spec /\ []LockWord /\ ImplementsMutex
<1>1. QueueInit => Init
  BY DEF QueueInit
<1>2. [QueueNext]_<<vars, queueVars>> => [Next]_vars
  <2> SUFFICES ASSUME [QueueNext]_<<vars, queueVars>> PROVE [Next]_vars
    OBVIOUS
  <2>1. ASSUME NEW c \in Clients, NEW q \in Queues, Statements(c, q)
        PROVE  Unlock(c, q) \/ UNCHANGED vars
    BY <2>1 DEF Statements, Statement, StoreNext, LinkTail, StoreTail, StoreHead,
       Take, Advance, ClearTail, Enqueued, Dequeued, Returns
  <2>2. ASSUME NEW c \in Clients, NEW q \in Queues,
               Dequeue(c, q) \/ \E t \in Threads : Enqueue(c, q, t)
        PROVE  Call(c, q)
    BY <2>2 DEF Dequeue, Enqueue, Begins
  <2>3. QED
    BY <2>1, <2>2 DEF QueueNext, Step, Next
<1>3. QED
  BY <1>1, <1>2, LockWordCorrect, MutualExclusion, PTL DEF QueueSpec, Spec
=============================================================================
