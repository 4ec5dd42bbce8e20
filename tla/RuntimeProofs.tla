----------------------------- MODULE RuntimeProofs -----------------------------
(***************************************************************************)
(* Proofs about the runtime, for every set of threads, every set of values *)
(* and every requested capacity, zero and negative ones included: first    *)
(* about the channel, FuseChan, whoever calls it; then about the program   *)
(* of RtSession, for any number of producers and consumers and any quota,  *)
(* where what was shown of the channel is used: the program of main is one *)
(* of its users.                                                           *)
(***************************************************************************)
EXTENDS RtSession, FiniteSetTheorems, SequenceTheorems, TLAPS

-----------------------------------------------------------------------------
(* Arithmetic of the ring *)

\* fuse_rt_chan_new never makes a ring without slots.
LEMMA CapPositive == Cap \in Nat \ {0}
BY RequestedAssumption DEF Cap

\* An index advanced modulo the capacity is a slot again.
LEMMA ModRange ==
  ASSUME NEW c \in Nat \ {0}, NEW a \in Int
  PROVE  a % c \in 0 .. c - 1
BY SMT

\* Below the capacity the modulo does nothing ...
LEMMA ModSmall ==
  ASSUME NEW c \in Nat \ {0}, NEW a \in 0 .. c - 1
  PROVE  a % c = a
BY SMT

\* ... and an index at most once past the end wraps by one capacity.
LEMMA ModWrap ==
  ASSUME NEW c \in Nat \ {0}, NEW a \in c .. 2 * c - 1
  PROVE  a % c = a - c
BY SMT

-----------------------------------------------------------------------------
(* Type correctness *)

\* One step of the channel preserves the type invariant.
LEMMA TypeStep == TypeOK /\ [Next]_vars => TypeOK'
<1> SUFFICES ASSUME TypeOK, [Next]_vars PROVE TypeOK'
  OBVIOUS
<1> USE CapPositive
<1>1. CASE New
  BY <1>1 DEF TypeOK, New, ring, calls
<1>2. CASE AbortOnNull
  BY <1>2 DEF TypeOK, AbortOnNull, ring, calls
<1>3. CASE Free
  BY <1>3 DEF TypeOK, Free, ring, calls
<1>4. ASSUME NEW t \in Threads, NEW o \in Ops, NEW v \in Values, Call(t, o, v)
      PROVE  TypeOK'
  BY <1>4 DEF TypeOK, Call, ring, Codes
<1>5. ASSUME NEW t \in Threads, Lock(t)
      PROVE  TypeOK'
  BY <1>5 DEF TypeOK, Lock, ring, calls
<1>6. ASSUME NEW t \in Threads, SpuriousWake(t)
      PROVE  TypeOK'
  BY <1>6 DEF TypeOK, SpuriousWake, ring, calls
<1>7. ASSUME NEW t \in Threads, WaitNotFull(t) \/ WaitNotEmpty(t)
      PROVE  TypeOK'
  BY <1>7 DEF TypeOK, WaitNotFull, WaitNotEmpty, ring, calls
<1>8. ASSUME NEW t \in Threads, NEW code \in Codes, ReturnOnly(t, code)
      PROVE  TypeOK'
  BY <1>8 DEF TypeOK, ReturnOnly, Return, ring
<1>9. ASSUME NEW t \in Threads, count # Cap, PutAndSignal(t)
      PROVE  TypeOK'
  <2>1. tail' \in 0 .. Cap - 1
    BY <1>9, ModRange DEF TypeOK, PutAndSignal, chan_enqueue
  <2>2. waitEmpty' \subseteq Threads
    BY <1>9 DEF TypeOK, PutAndSignal, Signal
  <2>3. QED
    BY <1>9, <2>1, <2>2 DEF TypeOK, PutAndSignal, chan_enqueue, Return, Codes
<1>10. ASSUME NEW t \in Threads, count # 0, TakeAndSignal(t)
       PROVE  TypeOK'
  <2>1. head' \in 0 .. Cap - 1
    BY <1>10, ModRange DEF TypeOK, TakeAndSignal, chan_dequeue
  <2>2. waitFull' \subseteq Threads
    BY <1>10 DEF TypeOK, TakeAndSignal, Signal
  <2>3. QED
    BY <1>10, <2>1, <2>2 DEF TypeOK, TakeAndSignal, chan_dequeue, Return, Codes
<1>11. ASSUME NEW t \in Threads, Close(t)
       PROVE  TypeOK'
  BY <1>11 DEF TypeOK, Close, Return, ring, Codes
<1>12. ASSUME NEW t \in Threads, Body(t)
       PROVE  TypeOK'
  <2>1. CASE Send(t)
    BY <2>1, <1>7, <1>8, <1>9 DEF Send, Codes
  <2>2. CASE Recv(t)
    BY <2>2, <1>7, <1>8, <1>10 DEF Recv, Codes
  <2>3. CASE TrySend(t)
    BY <2>3, <1>8, <1>9 DEF TrySend, Codes
  <2>4. CASE TryRecv(t)
    <3>1. CASE count > 0 /\ TakeAndSignal(t)
      <4>1. count # 0
        BY <3>1 DEF TypeOK
      <4> QED
        BY <3>1, <4>1, <1>10
    <3> QED
      BY <2>4, <3>1, <1>8 DEF TryRecv, Codes
  <2> QED
    BY <2>1, <2>2, <2>3, <2>4, <1>11, <1>12 DEF Body
<1>13. CASE UNCHANGED vars
  BY <1>13 DEF TypeOK, vars, ring, calls
<1> QED
  BY <1>1, <1>2, <1>3, <1>4, <1>5, <1>6, <1>12, <1>13 DEF Next

LEMMA InitTypes == Init => TypeOK
<1> SUFFICES ASSUME Init PROVE TypeOK
  OBVIOUS
<1>1. buf \in [0 .. Cap - 1 -> Values \cup {Zero}]
  BY DEF Init
<1>2. head \in 0 .. Cap - 1 /\ tail \in 0 .. Cap - 1 /\ count \in 0 .. Cap
  BY CapPositive DEF Init
<1> QED
  BY <1>1, <1>2 DEF Init, TypeOK, Codes

\* The fields of fuse_chan keep their types for ever: the memcpy in
\* chan_enqueue and chan_dequeue never leaves the buffer.
THEOREM TypeCorrect == Spec => []TypeOK
BY InitTypes, TypeStep, PTL DEF Spec

-----------------------------------------------------------------------------
(* The ring *)

\* The slots of the buffered elements and the next free slot are all
\* different: an enqueue overwrites nothing that is still to be received.
LEMMA SlotsDistinct ==
  ASSUME NEW c \in Nat \ {0}, NEW h \in 0 .. c - 1,
         NEW i \in 0 .. c - 1, NEW j \in 0 .. c - 1, i # j
  PROVE  (h + i) % c # (h + j) % c
<1>1. ASSUME NEW k \in 0 .. c - 1
      PROVE  (h + k) % c = IF h + k < c THEN h + k ELSE h + k - c
  <2>1. CASE h + k < c
    BY <2>1, ModSmall
  <2>2. CASE ~(h + k < c)
    <3>1. h + k \in c .. 2 * c - 1
      BY <2>2
    <3> QED
      BY <2>2, <3>1, ModWrap
  <2> QED
    BY <2>1, <2>2
<1>2. (h + i) % c = IF h + i < c THEN h + i ELSE h + i - c
  BY <1>1
<1>3. (h + j) % c = IF h + j < c THEN h + j ELSE h + j - c
  BY <1>1
<1> QED
  BY <1>2, <1>3

\* Advancing an index twice modulo the capacity is advancing it by the sum.
LEMMA AdvanceAdds ==
  ASSUME NEW c \in Nat \ {0}, NEW h \in 0 .. c - 1, NEW n \in 0 .. c - 1
  PROVE  /\ (((h + n) % c) + 1) % c = (h + n + 1) % c
         /\ (((h + 1) % c) + n) % c = (h + n + 1) % c
<1>1. ASSUME NEW a \in 0 .. 2 * c - 1
      PROVE  a % c = IF a < c THEN a ELSE a - c
  <2>1. CASE a < c
    BY <2>1, ModSmall
  <2>2. CASE ~(a < c)
    <3>1. a \in c .. 2 * c - 1
      BY <2>2
    <3> QED
      BY <2>2, <3>1, ModWrap
  <2> QED
    BY <2>1, <2>2
<1>3. PICK p \in 0 .. c - 1 : p = (h + n) % c
  BY ModRange
<1>4. PICK q \in 0 .. c - 1 : q = (h + 1) % c
  BY ModRange
<1>5. p = IF h + n < c THEN h + n ELSE h + n - c
  BY <1>1, <1>3
<1>6. q = IF h + 1 < c THEN h + 1 ELSE h + 1 - c
  <2>1. h + 1 \in 0 .. 2 * c - 1
    OBVIOUS
  <2> QED
    BY <1>1, <1>4, <2>1
<1>7. (p + 1) % c = IF p + 1 < c THEN p + 1 ELSE p + 1 - c
  <2>1. p + 1 \in 0 .. 2 * c - 1
    OBVIOUS
  <2> QED
    BY <1>1, <2>1
<1>8. (q + n) % c = IF q + n < c THEN q + n ELSE q + n - c
  BY <1>1
<1>9. (h + n + 1) % c = IF h + n + 1 < c THEN h + n + 1 ELSE h + n + 1 - c
  <2>1. h + n + 1 \in 0 .. 2 * c - 1
    OBVIOUS
  <2> QED
    BY <1>1, <2>1
<1> QED
  BY <1>3, <1>4, <1>5, <1>6, <1>7, <1>8, <1>9

-----------------------------------------------------------------------------
(* The kinds of step.  Five operations share four ways of leaving a critical *)
(* section; each invariant below is proved once per way.                     *)

Quiet == UNCHANGED <<ring, closed, owner, waitFull, waitEmpty, calls>>

SleepFull(t) ==
  owner = t /\ op[t] = "send" /\ count = Cap /\ ~closed /\ WaitNotFull(t)

SleepEmpty(t) ==
  owner = t /\ op[t] = "recv" /\ count = 0 /\ ~closed /\ WaitNotEmpty(t)

GiveUp(t) ==
  /\ owner = t
  /\ \/ closed /\ op[t] \in SendOps /\ ReturnOnly(t, "CLOSED")
     \/ closed /\ op[t] \in RecvOps /\ count = 0 /\ ReturnOnly(t, "CLOSED")
     \/ ~closed /\ op[t] = "try_send" /\ count = Cap /\ ReturnOnly(t, "WOULD_BLOCK")
     \/ ~closed /\ op[t] = "try_recv" /\ count = 0 /\ ReturnOnly(t, "WOULD_BLOCK")

Deposit(t) ==
  owner = t /\ op[t] \in SendOps /\ ~closed /\ count < Cap /\ PutAndSignal(t)

Withdraw(t) ==
  owner = t /\ op[t] \in RecvOps /\ count > 0 /\ TakeAndSignal(t)

Leaves(t) ==
  \/ SleepFull(t)
  \/ SleepEmpty(t)
  \/ GiveUp(t)
  \/ Deposit(t)
  \/ Withdraw(t)
  \/ Close(t)

StepOf(t) ==
  \/ \E o \in Ops, v \in Values : Call(t, o, v)
  \/ Lock(t)
  \/ SpuriousWake(t)
  \/ Leaves(t)

\* Every critical section ends in one of these ways.
LEMMA BodyKinds ==
  ASSUME TypeOK, NEW t \in Threads, Body(t)
  PROVE  Leaves(t)
<1> USE DEF Holds, SendOps, RecvOps
<1>1. count \in 0 .. Cap /\ Cap \in Nat
  BY CapPositive DEF TypeOK
<1>2. CASE Send(t)
  BY <1>1, <1>2 DEF Send, Leaves, SleepFull, GiveUp, Deposit
<1>3. CASE Recv(t)
  BY <1>1, <1>3 DEF Recv, Leaves, SleepEmpty, GiveUp, Withdraw
<1>4. CASE TrySend(t)
  BY <1>1, <1>4 DEF TrySend, Leaves, GiveUp, Deposit
<1>5. CASE TryRecv(t)
  BY <1>1, <1>5 DEF TryRecv, Leaves, GiveUp, Withdraw
<1> QED
  BY <1>2, <1>3, <1>4, <1>5 DEF Body, Leaves

\* Every step of the specification is of one of these kinds.
LEMMA StepKinds ==
  ASSUME TypeOK, [Next]_vars
  PROVE  Quiet \/ \E t \in Threads : StepOf(t)
<1>1. CASE UNCHANGED vars
  BY <1>1 DEF Quiet, vars
<1>2. CASE New \/ AbortOnNull \/ Free
  BY <1>2 DEF Quiet, New, AbortOnNull, Free
<1> QED
  BY <1>1, <1>2, BodyKinds DEF Next, StepOf

-----------------------------------------------------------------------------
(* Head, tail and count agree *)

\* The three fields of the ring never drift apart.
THEOREM RingStaysConsistent == Spec => []RingConsistent
<1>1. Init => RingConsistent
  BY CapPositive, ModSmall DEF Init, RingConsistent
<1>2. TypeOK /\ RingConsistent /\ [Next]_vars => RingConsistent'
  <2> SUFFICES ASSUME TypeOK, RingConsistent, [Next]_vars
               PROVE  RingConsistent'
    OBVIOUS
  <2>1. CASE UNCHANGED ring
    BY <2>1 DEF RingConsistent, ring
  <2>2. ASSUME NEW t \in Threads, Deposit(t)
        PROVE  RingConsistent'
    <3>1. /\ head' = head
          /\ tail' = (tail + 1) % Cap
          /\ count' = count + 1
          /\ count \in 0 .. Cap - 1
      BY <2>2, CapPositive DEF Deposit, PutAndSignal, chan_enqueue, TypeOK
    <3>2. (((head + count) % Cap) + 1) % Cap = (head + count + 1) % Cap
      BY <3>1, CapPositive, AdvanceAdds DEF TypeOK
    <3>3. head + (count + 1) = head + count + 1
      BY <3>1 DEF TypeOK
    <3> QED
      BY <3>1, <3>2, <3>3 DEF RingConsistent
  <2>3. ASSUME NEW t \in Threads, Withdraw(t)
        PROVE  RingConsistent'
    <3>1. /\ tail' = tail
          /\ head' = (head + 1) % Cap
          /\ count' = count - 1
          /\ count - 1 \in 0 .. Cap - 1
      BY <2>3, CapPositive DEF Withdraw, TakeAndSignal, chan_dequeue, TypeOK
    <3>2. (((head + 1) % Cap) + (count - 1)) % Cap = (head + (count - 1) + 1) % Cap
      BY <3>1, CapPositive, AdvanceAdds DEF TypeOK
    <3>3. head + (count - 1) + 1 = head + count
      BY <3>1 DEF TypeOK
    <3> QED
      BY <3>1, <3>2, <3>3 DEF RingConsistent
  <2>4. ASSUME NEW t \in Threads, StepOf(t), ~Deposit(t), ~Withdraw(t)
        PROVE  UNCHANGED ring
    BY <2>4 DEF StepOf, Leaves, Call, Lock, SpuriousWake, SleepFull, WaitNotFull,
                SleepEmpty, WaitNotEmpty, GiveUp, ReturnOnly, Close
  <2> QED
    BY <2>1, <2>2, <2>3, <2>4, StepKinds DEF Quiet
<1>3. QED
  BY <1>1, <1>2, TypeCorrect, PTL DEF Spec

-----------------------------------------------------------------------------
(* Sleepers *)

\* Sleepers are blocked in the call that put them to sleep, do not own the
\* mutex, and none is left on a closed channel.
LEMMA WaitersStep ==
  TypeOK /\ ClosedReleasesWaiters /\ [Next]_vars => ClosedReleasesWaiters'
<1> SUFFICES ASSUME TypeOK, ClosedReleasesWaiters, [Next]_vars
             PROVE  ClosedReleasesWaiters'
  OBVIOUS
<1> USE DEF ClosedReleasesWaiters, TypeOK
<1>1. CASE Quiet
  BY <1>1 DEF Quiet, calls
<1>2. ASSUME NEW t \in Threads, StepOf(t)
      PROVE  ClosedReleasesWaiters'
  <2>1. ASSUME NEW o \in Ops, NEW v \in Values, Call(t, o, v)
        PROVE  ClosedReleasesWaiters'
    BY <2>1 DEF Call
  <2>2. CASE Lock(t)
    BY <2>2 DEF Lock, calls
  <2>3. CASE SpuriousWake(t)
    BY <2>3 DEF SpuriousWake, calls
  <2>4. CASE SleepFull(t)
    BY <2>4, ThreadsAssumption DEF SleepFull, WaitNotFull, calls
  <2>5. CASE SleepEmpty(t)
    BY <2>5, ThreadsAssumption DEF SleepEmpty, WaitNotEmpty, calls
  <2>6. CASE GiveUp(t)
    BY <2>6, ThreadsAssumption DEF GiveUp, ReturnOnly, Return
  <2>7. CASE Deposit(t)
    BY <2>7, ThreadsAssumption DEF Deposit, PutAndSignal, Return, Signal
  <2>8. CASE Withdraw(t)
    BY <2>8, ThreadsAssumption DEF Withdraw, TakeAndSignal, Return, Signal
  <2>9. CASE Close(t)
    BY <2>9 DEF Close
  <2> QED
    BY <1>2, <2>1, <2>2, <2>3, <2>4, <2>5, <2>6, <2>7, <2>8, <2>9 DEF StepOf, Leaves
<1> QED
  BY <1>1, <1>2, StepKinds

\* fuse_rt_chan_close leaves nobody asleep, and nobody falls asleep later.
THEOREM CloseReleasesEveryone == Spec => []ClosedReleasesWaiters
<1>1. Init => ClosedReleasesWaiters
  BY DEF Init, ClosedReleasesWaiters
<1>2. QED
  BY <1>1, WaitersStep, TypeCorrect, PTL DEF Spec

-----------------------------------------------------------------------------
(* No wake-up is lost *)

\* A set of awake threads that gains members gets no smaller, and one that
\* gains a newcomer gets larger.
LEMMA CardinalityGrows ==
  ASSUME NEW S, NEW T, IsFiniteSet(T), S \subseteq T
  PROVE  /\ Cardinality(S) \in Nat /\ Cardinality(T) \in Nat
         /\ Cardinality(S) <= Cardinality(T)
         /\ \A x \in T \ S : Cardinality(S) + 1 <= Cardinality(T)
<1>1. IsFiniteSet(S) /\ Cardinality(S) \in Nat /\ Cardinality(T) \in Nat
  BY FS_Subset, FS_CardinalityType
<1>2. Cardinality(S) <= Cardinality(T)
  BY FS_Subset
<1>3. ASSUME NEW x \in T \ S
      PROVE  Cardinality(S) + 1 <= Cardinality(T)
  <2>1. S \cup {x} \subseteq T
    BY <1>3
  <2>2. Cardinality(S \cup {x}) <= Cardinality(T)
    BY <2>1, FS_Subset
  <2>3. Cardinality(S \cup {x}) = Cardinality(S) + 1
    BY <1>1, <1>3, FS_AddElement
  <2> QED
    BY <2>2, <2>3
<1> QED
  BY <1>1, <1>2, <1>3

\* Losing one member costs at most one.
LEMMA CardinalityShrinks ==
  ASSUME NEW S, NEW T, NEW x, IsFiniteSet(S), S \ {x} \subseteq T, IsFiniteSet(T)
  PROVE  Cardinality(S) - 1 <= Cardinality(T)
<1>1. IsFiniteSet(S \ {x})
      /\ Cardinality(S \ {x}) = IF x \in S THEN Cardinality(S) - 1 ELSE Cardinality(S)
  BY FS_RemoveElement
<1>2. Cardinality(S \ {x}) <= Cardinality(T)
  BY CardinalityGrows
<1>3. Cardinality(S) \in Nat /\ Cardinality(T) \in Nat
  BY FS_CardinalityType
<1> QED
  BY <1>1, <1>2, <1>3

\* One step of any thread keeps an awake receiver per buffered element and an
\* awake sender per free slot for as long as somebody sleeps.
LEMMA WakeupStep ==
  /\ TypeOK /\ ClosedReleasesWaiters /\ NoLostWakeup /\ [Next]_vars
  => NoLostWakeup'
<1> SUFFICES ASSUME TypeOK, ClosedReleasesWaiters, NoLostWakeup, [Next]_vars
             PROVE  NoLostWakeup'
  OBVIOUS
<1> DEFINE R == AwakeReceivers
           S == AwakeSenders
<1> USE CapPositive
<1>0. TypeOK'
  BY TypeStep
<1>a. /\ IsFiniteSet(R) /\ IsFiniteSet(R') /\ IsFiniteSet(S) /\ IsFiniteSet(S')
      /\ Cardinality(R) \in Nat /\ Cardinality(R') \in Nat
      /\ Cardinality(S) \in Nat /\ Cardinality(S') \in Nat
  <2>1. R \subseteq Threads /\ S \subseteq Threads
    BY DEF AwakeReceivers, AwakeSenders
  <2>2. R' \subseteq Threads /\ S' \subseteq Threads
    BY DEF AwakeReceivers, AwakeSenders
  <2> QED
    BY <2>1, <2>2, ThreadsAssumption, FS_Subset, FS_CardinalityType
<1>b. ASSUME count' = count, R \subseteq R', S \subseteq S',
             waitEmpty' \subseteq waitEmpty, waitFull' \subseteq waitFull
      PROVE  NoLostWakeup'
  <2>1. Cardinality(R) <= Cardinality(R') /\ Cardinality(S) <= Cardinality(S')
    BY <1>a, <1>b, CardinalityGrows
  <2> HIDE DEF R, S
  <2> QED
    <3>1. waitEmpty' # {} => count' <= Cardinality(R')
      BY <1>a, <1>b, <2>1 DEF NoLostWakeup, R, TypeOK
    <3>2. waitFull' # {} => Cap - count' <= Cardinality(S')
      BY <1>a, <1>b, <2>1 DEF NoLostWakeup, S, TypeOK
    <3> QED
      BY <3>1, <3>2 DEF NoLostWakeup, R, S
<1>1. CASE Quiet
  <2>1. R' = R /\ S' = S
    BY <1>1 DEF Quiet, calls, AwakeReceivers, AwakeSenders
  <2> QED
    BY <1>1, <2>1, <1>b DEF Quiet, ring
<1>2. ASSUME NEW t \in Threads, StepOf(t)
      PROVE  NoLostWakeup'
  <2>1. ASSUME NEW o \in Ops, NEW v \in Values, Call(t, o, v)
        PROVE  NoLostWakeup'
    <3>1. R \subseteq R' /\ S \subseteq S'
      BY <2>1 DEF Call, AwakeReceivers, AwakeSenders, TypeOK
    <3> QED
      BY <2>1, <3>1, <1>b DEF Call, ring
  <2>2. CASE Lock(t)
    <3>1. R' = R /\ S' = S
      BY <2>2 DEF Lock, calls, AwakeReceivers, AwakeSenders
    <3> QED
      BY <2>2, <3>1, <1>b DEF Lock, ring
  <2>3. CASE SpuriousWake(t)
    <3>1. R \subseteq R' /\ S \subseteq S'
      BY <2>3 DEF SpuriousWake, calls, AwakeReceivers, AwakeSenders
    <3> QED
      BY <2>3, <3>1, <1>b DEF SpuriousWake, ring
  <2>4. CASE SleepFull(t)
    <3>1. /\ count' = count /\ count = Cap /\ waitEmpty' = waitEmpty
      BY <2>4 DEF SleepFull, WaitNotFull, ring
    <3>2. R' = R
      BY <2>4 DEF SleepFull, WaitNotFull, calls, AwakeReceivers
    <3> QED
      BY <3>1, <3>2, <1>a DEF NoLostWakeup
  <2>5. CASE SleepEmpty(t)
    <3>1. /\ count' = count /\ count = 0 /\ waitFull' = waitFull
      BY <2>5 DEF SleepEmpty, WaitNotEmpty, ring
    <3>2. S' = S
      BY <2>5 DEF SleepEmpty, WaitNotEmpty, calls, AwakeSenders
    <3> QED
      BY <3>1, <3>2, <1>a DEF NoLostWakeup
  <2>6. CASE GiveUp(t)
    <3>1. CASE closed
      <4>1. waitEmpty' = {} /\ waitFull' = {}
        BY <2>6, <3>1 DEF GiveUp, ReturnOnly, ClosedReleasesWaiters
      <4> QED
        BY <4>1 DEF NoLostWakeup
    <3>2. CASE ~closed
      <4>1. op[t] \notin {"send", "recv"} /\ \E code \in Codes : ReturnOnly(t, code)
        BY <2>6, <3>2 DEF GiveUp, Codes
      <4>2. R \subseteq R' /\ S \subseteq S'
        BY <4>1 DEF ReturnOnly, Return, AwakeReceivers, AwakeSenders, TypeOK
      <4> QED
        BY <4>1, <4>2, <1>b DEF ReturnOnly, ring
    <3> QED
      BY <3>1, <3>2
  <2>7. CASE Deposit(t)
    <3>1. /\ count' = count + 1 /\ waitFull' = waitFull
          /\ waitEmpty' \in Signal(waitEmpty)
          /\ op' = [op EXCEPT ![t] = "idle"]
          /\ op[t] \in SendOps
      BY <2>7 DEF Deposit, PutAndSignal, chan_enqueue, Return
    <3>2. waitEmpty' # {} => count' <= Cardinality(R')
      <4> SUFFICES ASSUME waitEmpty' # {} PROVE count' <= Cardinality(R')
        OBVIOUS
      <4>1. PICK w \in waitEmpty : waitEmpty' = waitEmpty \ {w}
        BY <3>1 DEF Signal
      <4>2. w \in Threads /\ op[w] = "recv" /\ w # t
        BY <3>1, <4>1 DEF ClosedReleasesWaiters, TypeOK, SendOps
      <4>3. R \subseteq R' /\ w \in R' \ R
        BY <3>1, <4>1, <4>2 DEF AwakeReceivers, TypeOK, SendOps
      <4>4. Cardinality(R) + 1 <= Cardinality(R')
        BY <4>3, <1>a, CardinalityGrows
      <4>5. count <= Cardinality(R)
        BY <4>1 DEF NoLostWakeup
      <4> QED
        BY <3>1, <4>4, <4>5, <1>a DEF TypeOK
    <3>3. waitFull' # {} => Cap - count' <= Cardinality(S')
      <4>1. S \ {t} \subseteq S'
        BY <3>1 DEF AwakeSenders, TypeOK
      <4>2. Cardinality(S) - 1 <= Cardinality(S')
        BY <4>1, <1>a, CardinalityShrinks
      <4>3. waitFull # {} => Cap - count <= Cardinality(S)
        BY DEF NoLostWakeup
      <4> QED
        BY <3>1, <4>2, <4>3, <1>a DEF TypeOK
    <3> QED
      BY <3>2, <3>3 DEF NoLostWakeup
  <2>8. CASE Withdraw(t)
    <3>1. /\ count' = count - 1 /\ waitEmpty' = waitEmpty
          /\ waitFull' \in Signal(waitFull)
          /\ op' = [op EXCEPT ![t] = "idle"]
          /\ op[t] \in RecvOps
      BY <2>8 DEF Withdraw, TakeAndSignal, chan_dequeue, Return
    <3>2. waitFull' # {} => Cap - count' <= Cardinality(S')
      <4> SUFFICES ASSUME waitFull' # {} PROVE Cap - count' <= Cardinality(S')
        OBVIOUS
      <4>1. PICK w \in waitFull : waitFull' = waitFull \ {w}
        BY <3>1 DEF Signal
      <4>2. w \in Threads /\ op[w] = "send" /\ w # t
        BY <3>1, <4>1 DEF ClosedReleasesWaiters, TypeOK, RecvOps
      <4>3. S \subseteq S' /\ w \in S' \ S
        BY <3>1, <4>1, <4>2 DEF AwakeSenders, TypeOK, RecvOps
      <4>4. Cardinality(S) + 1 <= Cardinality(S')
        BY <4>3, <1>a, CardinalityGrows
      <4>5. Cap - count <= Cardinality(S)
        BY <4>1 DEF NoLostWakeup
      <4> QED
        BY <3>1, <4>4, <4>5, <1>a DEF TypeOK
    <3>3. waitEmpty' # {} => count' <= Cardinality(R')
      <4>1. R \ {t} \subseteq R'
        BY <3>1 DEF AwakeReceivers, TypeOK
      <4>2. Cardinality(R) - 1 <= Cardinality(R')
        BY <4>1, <1>a, CardinalityShrinks
      <4>3. waitEmpty # {} => count <= Cardinality(R)
        BY DEF NoLostWakeup
      <4> QED
        BY <3>1, <4>2, <4>3, <1>a DEF TypeOK
    <3> QED
      BY <3>2, <3>3 DEF NoLostWakeup
  <2>9. CASE Close(t)
    BY <2>9 DEF Close, NoLostWakeup
  <2> QED
    BY <1>2, <2>1, <2>2, <2>3, <2>4, <2>5, <2>6, <2>7, <2>8, <2>9 DEF StepOf, Leaves
<1> QED
  BY <1>1, <1>2, StepKinds

\* chan.c signals one thread per element, never broadcasts on send and recv,
\* and still never leaves a thread asleep that nobody is about to wake.
THEOREM WakeupsAreNeverLost == Spec => []NoLostWakeup
<1>1. Init => NoLostWakeup
  BY DEF Init, NoLostWakeup
<1>2. QED
  BY <1>1, WakeupStep, TypeCorrect, CloseReleasesEveryone, PTL DEF Spec

-----------------------------------------------------------------------------
(* The ring implements the queue *)

\* The refinement mapping yields a sequence of count elements.
LEMMA ContentsIsSeq ==
  ASSUME TypeOK
  PROVE  /\ Contents \in Seq(Values \cup {Zero})
         /\ Len(Contents) = count
         /\ \A i \in 1 .. count : Contents[i] = buf[(head + i - 1) % Cap]
         /\ Contents = <<>> <=> count = 0
<1>1. count \in Nat /\ Cap \in Nat \ {0}
  BY CapPositive DEF TypeOK
<1>2. ASSUME NEW i \in 1 .. count
      PROVE  buf[(head + i - 1) % Cap] \in Values \cup {Zero}
  <2>1. (head + i - 1) % Cap \in 0 .. Cap - 1
    BY <1>1, ModRange DEF TypeOK
  <2> QED
    BY <2>1 DEF TypeOK
<1>3. Contents \in Seq(Values \cup {Zero}) /\ Len(Contents) = count
  BY <1>1, <1>2 DEF Contents
<1>4. Contents = <<>> <=> count = 0
  BY <1>3
<1> QED
  BY <1>3, <1>4 DEF Contents

\* Append and Tail of a sequence, slot by slot.
LEMMA SequenceSlots ==
  ASSUME NEW S, NEW s \in Seq(S)
  PROVE  /\ \A v \in S :
              Append(s, v) = [i \in 1 .. Len(s) + 1 |-> IF i <= Len(s) THEN s[i] ELSE v]
         /\ s # <<>> =>
              Tail(s) = [i \in 1 .. Len(s) - 1 |-> s[i + 1]] /\ Head(s) = s[1]
<1>1. ASSUME NEW v \in S
      PROVE  Append(s, v) = [i \in 1 .. Len(s) + 1 |-> IF i <= Len(s) THEN s[i] ELSE v]
  <2> DEFINE f == [i \in 1 .. Len(s) + 1 |-> IF i <= Len(s) THEN s[i] ELSE v]
  <2>1. Len(s) \in Nat /\ \A i \in 1 .. Len(s) : s[i] \in S
    BY LenProperties
  <2>2. f \in Seq(S) /\ Len(f) = Len(s) + 1
    BY <2>1
  <2>3. /\ Append(s, v) \in Seq(S) /\ Len(Append(s, v)) = Len(s) + 1
        /\ \A i \in 1 .. Len(s) : Append(s, v)[i] = s[i]
        /\ Append(s, v)[Len(s) + 1] = v
    BY AppendProperties
  <2>4. ASSUME NEW i \in 1 .. Len(s) + 1
        PROVE  Append(s, v)[i] = f[i]
    BY <2>1, <2>3
  <2> HIDE DEF f
  <2>5. Append(s, v) = f
    BY <2>2, <2>3, <2>4, SeqEqual
  <2> QED
    BY <2>5 DEF f
<1>2. ASSUME s # <<>>
      PROVE  Tail(s) = [i \in 1 .. Len(s) - 1 |-> s[i + 1]] /\ Head(s) = s[1]
  <2> DEFINE f == [i \in 1 .. Len(s) - 1 |-> s[i + 1]]
  <2>1. Len(s) \in Nat \ {0} /\ \A i \in 1 .. Len(s) : s[i] \in S
    BY <1>2, LenProperties
  <2>2. f \in Seq(S) /\ Len(f) = Len(s) - 1
    BY <2>1
  <2>3. /\ Tail(s) \in Seq(S) /\ Len(Tail(s)) = Len(s) - 1
        /\ \A i \in 1 .. Len(Tail(s)) : Tail(s)[i] = s[i + 1]
    BY <1>2, HeadTailProperties
  <2>4. ASSUME NEW i \in 1 .. Len(s) - 1
        PROVE  Tail(s)[i] = f[i]
    BY <2>1, <2>3
  <2> HIDE DEF f
  <2>5. Tail(s) = f
    BY <2>2, <2>3, <2>4, SeqEqual
  <2>6. Head(s) = s[1]
    BY <1>2
  <2> QED
    BY <2>5, <2>6 DEF f
<1> QED
  BY <1>1, <1>2

\* chan_enqueue appends to the queue ...
LEMMA EnqueueAppends ==
  ASSUME TypeOK, TypeOK', RingConsistent, NEW v \in Values \cup {Zero},
         count < Cap, chan_enqueue(v)
  PROVE  Contents' = Append(Contents, v)
<1>1. /\ head' = head /\ count' = count + 1 /\ count \in 0 .. Cap - 1
      /\ Cap \in Nat \ {0} /\ head \in 0 .. Cap - 1
      /\ tail = (head + count) % Cap /\ tail \in 0 .. Cap - 1
      /\ buf' = [buf EXCEPT ![tail] = v]
  BY CapPositive DEF TypeOK, chan_enqueue, RingConsistent
<1>2. ASSUME NEW i \in 1 .. count
      PROVE  buf'[(head + i - 1) % Cap] = buf[(head + i - 1) % Cap]
  <2>1. i - 1 \in 0 .. Cap - 1 /\ i - 1 # count /\ head + (i - 1) = head + i - 1
    BY <1>1
  <2>2. (head + (i - 1)) % Cap # (head + count) % Cap
    BY <1>1, <2>1, SlotsDistinct
  <2>3. (head + i - 1) % Cap \in 0 .. Cap - 1
    BY <1>1, ModRange
  <2> QED
    BY <1>1, <2>1, <2>2, <2>3 DEF TypeOK
<1>3. buf'[(head + (count + 1) - 1) % Cap] = v
  <2>1. head + (count + 1) - 1 = head + count
    BY <1>1
  <2> QED
    BY <1>1, <2>1 DEF TypeOK
<1>4. Contents' = [i \in 1 .. count + 1 |-> buf'[(head + i - 1) % Cap]]
  BY <1>1 DEF Contents
<1>5. ASSUME NEW i \in 1 .. count + 1
      PROVE  buf'[(head + i - 1) % Cap] = IF i <= count THEN Contents[i] ELSE v
  <2>1. CASE i <= count
    <3>1. i \in 1 .. count
      BY <1>1, <2>1
    <3> QED
      BY <1>2, <2>1, <3>1, ContentsIsSeq
  <2>2. CASE ~(i <= count)
    <3>1. i = count + 1
      BY <1>1, <2>2
    <3> QED
      BY <1>3, <2>2, <3>1
  <2> QED
    BY <2>1, <2>2
<1>6. Append(Contents, v) = [i \in 1 .. count + 1 |-> IF i <= count THEN Contents[i] ELSE v]
  BY ContentsIsSeq, SequenceSlots
<1> QED
  BY <1>4, <1>5, <1>6

\* ... and chan_dequeue takes its oldest element.
LEMMA DequeueTakesHead ==
  ASSUME TypeOK, TypeOK', NEW t \in Threads, count > 0, chan_dequeue(t)
  PROVE  /\ Contents # <<>>
         /\ Contents' = Tail(Contents)
         /\ out' = [out EXCEPT ![t] = Head(Contents)]
<1>1. /\ head' = (head + 1) % Cap /\ count' = count - 1 /\ count \in 1 .. Cap
      /\ Cap \in Nat \ {0} /\ head \in 0 .. Cap - 1
      /\ buf' = buf
      /\ out' = [out EXCEPT ![t] = buf[head]]
  BY CapPositive DEF TypeOK, chan_dequeue
<1>2. ASSUME NEW i \in 1 .. count - 1
      PROVE  (head' + i - 1) % Cap = (head + (i + 1) - 1) % Cap
  <2>1. i - 1 \in 0 .. Cap - 1
    BY <1>1
  <2>2. (((head + 1) % Cap) + (i - 1)) % Cap = (head + (i - 1) + 1) % Cap
    BY <1>1, <2>1, AdvanceAdds
  <2>3. head + (i - 1) + 1 = head + (i + 1) - 1
    BY <1>1
  <2>4. ((head + 1) % Cap) + (i - 1) = head' + i - 1
    BY <1>1, ModRange
  <2> QED
    BY <2>2, <2>3, <2>4
<1>3. Contents' = [i \in 1 .. count - 1 |-> buf[(head' + i - 1) % Cap]]
  BY <1>1 DEF Contents
<1>4. ASSUME NEW i \in 1 .. count - 1
      PROVE  buf[(head' + i - 1) % Cap] = Contents[i + 1]
  <2>1. i + 1 \in 1 .. count
    BY <1>1
  <2> QED
    BY <1>2, <2>1, ContentsIsSeq
<1>a. Contents # <<>>
  BY <1>1, ContentsIsSeq
<1>5. Tail(Contents) = [i \in 1 .. count - 1 |-> Contents[i + 1]]
  BY <1>a, ContentsIsSeq, SequenceSlots
<1>6. Contents # <<>> /\ Head(Contents) = buf[head]
  <2>1. Contents[1] = buf[(head + 1 - 1) % Cap] /\ head + 1 - 1 = head
    BY <1>1, ContentsIsSeq
  <2>3. Head(Contents) = Contents[1]
    BY <1>a, ContentsIsSeq, SequenceSlots
  <2>2. head % Cap = head
    BY <1>1, ModSmall
  <2> QED
    BY <1>a, <2>1, <2>2, <2>3
<1> QED
  BY <1>1, <1>3, <1>4, <1>5, <1>6

\* Every step of the ring is a step of the abstract channel or changes
\* nothing the abstract channel can see.
LEMMA StepRefines ==
  TypeOK /\ TypeOK' /\ RingConsistent /\ [Next]_vars => [Abstract!Next]_(Abstract!vars)
<1> SUFFICES ASSUME TypeOK, TypeOK', RingConsistent, [Next]_vars
             PROVE  [Abstract!Next]_(Abstract!vars)
  OBVIOUS
<1>a. ASSUME UNCHANGED ring
      PROVE  Contents' = Contents
  BY <1>a DEF ring, Contents
<1>1. CASE Quiet
  BY <1>1, <1>a DEF Quiet, calls, Abstract!vars
<1>2. ASSUME NEW t \in Threads, StepOf(t)
      PROVE  Abstract!Next \/ UNCHANGED Abstract!vars
  <2>1. ASSUME NEW o \in Ops, NEW v \in Values, Call(t, o, v)
        PROVE  Abstract!Next
    <3>1. Abstract!Invoke(t, o, v)
      BY <2>1, <1>a DEF Call, Abstract!Invoke
    <3>2. o \in Abstract!Ops
      BY DEF Ops, SendOps, RecvOps, Abstract!Ops, Abstract!SendOps, Abstract!RecvOps
    <3> QED
      BY <3>1, <3>2 DEF Abstract!Next
  <2>2. CASE Lock(t) \/ SpuriousWake(t) \/ SleepFull(t) \/ SleepEmpty(t)
    BY <2>2, <1>a DEF Lock, SpuriousWake, SleepFull, WaitNotFull, SleepEmpty,
                     WaitNotEmpty, calls, Abstract!vars
  <2>3. CASE GiveUp(t)
    <3>1. Contents' = Contents
      BY <2>3, <1>a DEF GiveUp, ReturnOnly
    <3>2. (Contents = <<>> <=> count = 0) /\ Len(Contents) = count
      BY ContentsIsSeq
    <3>3. Abstract!Refuse(t) \/ Abstract!WouldBlock(t)
      BY <2>3, <3>1, <3>2
         DEF GiveUp, ReturnOnly, Return, Abstract!Refuse, Abstract!WouldBlock,
             Abstract!Respond, SendOps, RecvOps, Abstract!SendOps, Abstract!RecvOps
    <3> QED
      BY <3>3 DEF Abstract!Next
  <2>4. CASE Deposit(t)
    <3>1. Contents' = Append(Contents, arg[t])
      BY <2>4, EnqueueAppends DEF Deposit, PutAndSignal, TypeOK
    <3>2. Len(Contents) < Cap
      BY <2>4, ContentsIsSeq DEF Deposit
    <3>3. Abstract!Put(t)
      BY <2>4, <3>1, <3>2
         DEF Deposit, PutAndSignal, Return, Abstract!Put, Abstract!Respond,
             SendOps, Abstract!SendOps
    <3> QED
      BY <3>3 DEF Abstract!Next
  <2>5. CASE Withdraw(t)
    <3>1. /\ Contents # <<>>
          /\ Contents' = Tail(Contents)
          /\ out' = [out EXCEPT ![t] = Head(Contents)]
      BY <2>5, DequeueTakesHead DEF Withdraw, TakeAndSignal
    <3>2. Abstract!Take(t)
      BY <2>5, <3>1
         DEF Withdraw, TakeAndSignal, Return, Abstract!Take, Abstract!Respond,
             RecvOps, Abstract!RecvOps
    <3> QED
      BY <3>2 DEF Abstract!Next
  <2>6. CASE Close(t)
    <3>1. Abstract!Close(t)
      BY <2>6, <1>a DEF Close, Holds, Return, Abstract!Close, Abstract!Respond
    <3> QED
      BY <3>1 DEF Abstract!Next
  <2> QED
    BY <1>2, <2>1, <2>2, <2>3, <2>4, <2>5, <2>6 DEF StepOf, Leaves
<1> QED
  BY <1>1, <1>2, StepKinds

\* chan.c implements the atomic bounded FIFO channel of fuse_rt.h, for any
\* number of threads and any capacity.
THEOREM ChannelRefinement == Spec => ImplementsBoundedChannel
<1>1. Init => Abstract!Init
  <2> SUFFICES ASSUME Init PROVE Abstract!Init
    OBVIOUS
  <2>1. Contents = <<>>
    BY DEF Init, Contents
  <2> QED
    BY <2>1 DEF Init, Abstract!Init
<1>2. QED
  BY <1>1, StepRefines, TypeCorrect, RingStaysConsistent, PTL
     DEF Spec, ImplementsBoundedChannel, Abstract!Spec

-----------------------------------------------------------------------------
(* Sums over threads *)

LEMMA CountedIsFinite ==
  ASSUME NEW ts, IsFiniteSet(ts), NEW n, \A t \in ts : n[t] \in Nat
  PROVE  IsFiniteSet(Counted(n, ts)) /\ Sum(n, ts) \in Nat
<1> DEFINE part == [t \in ts |-> {t} \X (1 .. n[t])]
           parts == {part[t] : t \in ts}
<1>1. IsFiniteSet(parts)
  <2>1. part \in Surjection(ts, parts)
    BY DEF Surjection
  <2> QED
    BY <2>1, FS_Surjection
<1>2. \A p \in parts : IsFiniteSet(p)
  <2> SUFFICES ASSUME NEW t \in ts PROVE IsFiniteSet({t} \X (1 .. n[t]))
    OBVIOUS
  <2>1. IsFiniteSet({t})
    BY FS_Singleton
  <2>2. n[t] \in Int /\ 1 \in Int
    OBVIOUS
  <2>3. IsFiniteSet(1 .. n[t])
    BY <2>2, FS_Interval
  <2> QED
    BY <2>1, <2>3, FS_Product
<1>3. IsFiniteSet(UNION parts)
  <2> HIDE DEF parts
  <2> QED
    BY <1>1, <1>2, FS_UNION
<1>4. UNION parts = Counted(n, ts)
  BY DEF Counted
<1> QED
  BY <1>3, <1>4, FS_CardinalityType DEF Sum

\* Counting one more call of one thread adds one to the sum.
LEMMA SumGrows ==
  ASSUME NEW ts, IsFiniteSet(ts), NEW n, NEW m, NEW u \in ts,
         \A t \in ts : n[t] \in Nat,
         \A t \in ts \ {u} : m[t] = n[t], m[u] = n[u] + 1
  PROVE  Sum(m, ts) = Sum(n, ts) + 1
<1>1. IsFiniteSet(Counted(n, ts))
  BY CountedIsFinite
<1>2. <<u, n[u] + 1>> \notin Counted(n, ts)
  BY DEF Counted
<1>3. Counted(m, ts) = Counted(n, ts) \cup {<<u, n[u] + 1>>}
  <2>1. 1 .. m[u] = (1 .. n[u]) \cup {n[u] + 1}
    OBVIOUS
  <2>2. \A t \in ts \ {u} : 1 .. m[t] = 1 .. n[t]
    OBVIOUS
  <2> QED
    BY <2>1, <2>2 DEF Counted
<1> QED
  BY <1>1, <1>2, <1>3, FS_AddElement DEF Sum

\* The sum only depends on the counts of the threads summed over.
LEMMA SumSame ==
  ASSUME NEW ts, NEW n, NEW m, \A t \in ts : m[t] = n[t]
  PROVE  Sum(m, ts) = Sum(n, ts)
BY DEF Sum, Counted

\* If every thread has counted q calls, there are q for each.
LEMMA SumOfQuotas ==
  ASSUME NEW ts, IsFiniteSet(ts), NEW q \in Nat, NEW n, \A t \in ts : n[t] = q
  PROVE  Sum(n, ts) = q * Cardinality(ts)
<1>1. Counted(n, ts) = ts \X (1 .. q)
  BY DEF Counted
<1>2. IsFiniteSet(1 .. q) /\ Cardinality(1 .. q) = q
  BY FS_Interval
<1>3. Cardinality(ts \X (1 .. q)) = Cardinality(ts) * q
  BY <1>2, FS_Product
<1> QED
  BY <1>1, <1>3, FS_CardinalityType DEF Sum

-----------------------------------------------------------------------------
(* The inductive invariant *)

SType ==
  /\ at \in {"new", "spawn", "closing", "done", "aborted"}
  /\ handle \in [Workers -> {"none", "running", "exited", "joined"}]
  /\ left \in [Workers -> Nat] /\ tally \in [Workers -> Nat]
  /\ result \in [Workers -> Nat] /\ joined \in [Workers -> Nat]

\* How far main is says what the channel is like.
Stages ==
  /\ life = "null" <=> at = "new"
  /\ life = "freed" <=> at = "done"
  /\ life = "aborted" <=> at = "aborted"
  /\ op[Main] \in {"idle", "close"}
  /\ op[Main] = "close" \/ closed => at \in {"closing", "done"}
  /\ at \in {"closing", "done"} => AllJoined(Producers)
  /\ at = "done" => AllJoined(Workers) /\ op[Main] = "idle"

\* Only running workers are inside the channel, each in its own kind of call.
Insiders ==
  /\ \A t \in Producers : op[t] \in {"idle", "send"}
  /\ \A t \in Consumers : op[t] \in {"idle", "recv"}
  /\ \A t \in Workers : handle[t] # "running" => op[t] = "idle"
  /\ \A t \in Threads : op[t] # "idle" => rc[t] = "none"
  /\ owner # NoThread => op[owner] # "idle"

Ended(t) == handle[t] \in {"exited", "joined"}

\* A producer has made, is making or has still to make each call of its quota;
\* none is refused.  A consumer that was refused has seen the drained channel.
Accounts ==
  /\ \A t \in Producers :
       /\ rc[t] # "CLOSED" /\ (Ended(t) => left[t] = 0)
       /\ Total(t) + left[t] + (IF op[t] = "idle" THEN 0 ELSE 1) = Quota
  /\ \A t \in Consumers :
       /\ Ended(t) => rc[t] = "CLOSED"
       /\ rc[t] = "CLOSED" => closed /\ count = 0
  /\ \A t \in Workers :
       /\ Ended(t) => result[t] = Total(t)
       /\ handle[t] = "joined" => joined[t] = Total(t)

\* What was sent and not yet received is in the ring.
Totals == [t \in Workers |-> Total(t)]
Conservation == Sum(Totals, Producers) = Sum(Totals, Consumers) + count

SInv ==
  TypeOK /\ ClosedReleasesWaiters /\ SType /\ Stages /\ Insiders /\ Accounts /\ Conservation

LEMMA WorkersFinite ==
  /\ IsFiniteSet(Producers) /\ IsFiniteSet(Consumers)
  /\ Workers \subseteq Threads /\ Main \in Threads /\ Main \notin Workers
  /\ Producers \cap Consumers = {}
BY ThreadsAssumption, ProgramAssumption, FS_Subset DEF Workers

LEMMA TotalsType == SInv => Totals \in [Workers -> Nat]
BY WorkersFinite DEF SInv, SType, Totals, Total

-----------------------------------------------------------------------------
(* The program is a user of the channel *)

\* Every step of the program is a step of FuseChan or none of its business:
\* in particular fuse_rt_chan_free is called when nobody is inside.
LEMMA ProgramStepIsChannelStep == SInv /\ [SNext]_svars => [Next]_vars
<1> SUFFICES ASSUME SInv, [SNext]_svars PROVE [Next]_vars
  OBVIOUS
<1> USE WorkersFinite
<1>1. CASE MainNew
  BY <1>1 DEF MainNew, Next
<1>2. CASE MainSpawn
  <2>1. PICK t \in Workers : Spawn(t)
    BY <1>2 DEF MainSpawn
  <2>2. CASE at' = "aborted" /\ life' = "aborted"
    <3>1. life = "live" /\ op[Main] = "idle"
      BY <2>1 DEF Spawn, SInv, Stages, TypeOK
    <3> QED
      BY <2>1, <2>2, <3>1 DEF Spawn, Next, AbortOnNull
  <2> QED
    BY <2>1, <2>2 DEF Spawn, vars
<1>3. CASE MainJoinProducers \/ MainJoinConsumers
  BY <1>3 DEF MainJoinProducers, MainJoinConsumers, Join
<1>4. CASE MainClose
  BY <1>4 DEF MainClose, Next, Ops
<1>5. CASE MainFree
  <2>1. life = "live"
    BY <1>5 DEF MainFree, SInv, Stages, TypeOK
  <2>2. \A t \in Threads : op[t] = "idle"
    BY <1>5, ProgramAssumption DEF MainFree, AllJoined, SInv, Insiders, Workers
  <2> QED
    BY <1>5, <2>1, <2>2 DEF MainFree, Next, Free
<1>6. ASSUME NEW t \in Threads, InChannel(t) \/ Disturb(t) PROVE Next
  BY <1>6 DEF InChannel, Disturb, Next
<1>7. ASSUME NEW t \in Workers, WorkerStep(t) PROVE [Next]_vars
  BY <1>7 DEF WorkerStep, Produce, Consume, NextCall, Finish, Next, Ops, SendOps, RecvOps
<1>8. CASE UNCHANGED svars
  BY <1>8 DEF svars
<1> QED
  BY <1>1, <1>2, <1>3, <1>4, <1>5, <1>6, <1>7, <1>8 DEF SNext, MainStep

-----------------------------------------------------------------------------
(* The steps of main and of the workers outside the channel *)

\* If the accounts and the ring's count stay, so does their balance.
LEMMA BalanceKept ==
  ASSUME Conservation, \A t \in Workers : Total(t)' = Total(t), count' = count
  PROVE  Conservation'
<1>1. Totals' = Totals
  BY DEF Totals
<1> QED
  BY <1>1 DEF Conservation, Sum, Counted

\* The parts that FuseChan's own invariants do not cover.
Rest == SType /\ Stages /\ Insiders /\ Accounts /\ Conservation

LEMMA MainNewStep == SInv /\ MainNew => Rest'
<1> SUFFICES ASSUME SInv, MainNew PROVE Rest'
  OBVIOUS
<1> USE WorkersFinite DEF SInv, MainNew, New, calls
<1>1. SType' /\ Stages' /\ Insiders'
  BY DEF SType, Stages, Insiders, AllJoined
<1>2. Accounts'
  BY DEF Accounts, Ended, Total, ring
<1>3. Conservation'
  BY BalanceKept DEF Total, ring
<1> QED
  BY <1>1, <1>2, <1>3 DEF Rest

LEMMA SpawnStep == SInv /\ MainSpawn => Rest'
<1> SUFFICES ASSUME SInv, NEW t \in Workers, Spawn(t) PROVE Rest'
  BY DEF MainSpawn
<1> USE WorkersFinite DEF SInv, Spawn, calls
<1>0. op[Main] = "idle" /\ life = "live" /\ ~closed
  BY DEF Stages, TypeOK
<1>1. SType'
  BY DEF SType
<1>2. Stages'
  BY <1>0 DEF Stages, AllJoined
<1>3. Insiders'
  BY DEF Insiders, SType
<1>4. Accounts'
  <2>1. \A u \in Workers : (Ended(u)' <=> Ended(u)) /\ (handle'[u] = "joined" <=> handle[u] = "joined")
    BY DEF Ended, SType
  <2>2. \A u \in Workers : Total(u)' = Total(u)
    BY DEF Total
  <2>3. UNCHANGED <<rc, op, left, closed, count, result, joined>>
    BY DEF ring
  <2> QED
    BY <2>1, <2>2, <2>3 DEF Accounts, Workers
<1>5. Conservation'
  BY BalanceKept DEF Total, ring
<1> QED
  BY <1>1, <1>2, <1>3, <1>4, <1>5 DEF Rest

\* fuse_rt_thread_join, of a producer or of a consumer.
LEMMA JoinStep ==
  ASSUME SInv, NEW t \in Workers, Join(t)
  PROVE  Rest'
<1> USE WorkersFinite DEF SInv, Join
<1>0. UNCHANGED <<life, count, closed, owner, op, rc, at, left, tally, result>>
  BY DEF vars, ring, calls
<1>a. \A u \in Workers : Total(u)' = Total(u)
  BY <1>0 DEF Total
<1>b. \A u \in Workers : handle'[u] = IF u = t THEN "joined" ELSE handle[u]
  BY DEF SType
<1>c. joined'[t] = Total(t) /\ \A u \in Workers : u # t => joined'[u] = joined[u]
  BY DEF SType, Accounts, Ended
<1>1. SType'
  BY <1>0, <1>b DEF SType
<1>2. Stages'
  BY <1>0, <1>b DEF Stages, AllJoined, Workers
<1>3. Insiders'
  BY <1>0, <1>b DEF Insiders
<1>4. Accounts'
  <2>1. \A u \in Workers : Ended(u)' <=> Ended(u)
    BY <1>b DEF Ended
  <2>2. \A u \in Producers : (rc[u] # "CLOSED" /\ (Ended(u) => left[u] = 0)
          /\ Total(u) + left[u] + (IF op[u] = "idle" THEN 0 ELSE 1) = Quota)'
    BY <1>0, <1>a, <2>1 DEF Accounts, Workers
  <2>3. \A u \in Consumers : ((Ended(u) => rc[u] = "CLOSED") /\ (rc[u] = "CLOSED" => closed /\ count = 0))'
    BY <1>0, <1>a, <2>1 DEF Accounts, Workers
  <2>4. \A u \in Workers : ((Ended(u) => result[u] = Total(u)) /\ (handle[u] = "joined" => joined[u] = Total(u)))'
    BY <1>0, <1>a, <1>b, <1>c, <2>1 DEF Accounts
  <2> QED
    BY <2>2, <2>3, <2>4 DEF Accounts
<1>5. Conservation'
  BY <1>0, <1>a, BalanceKept
<1> QED
  BY <1>1, <1>2, <1>3, <1>4, <1>5 DEF Rest

LEMMA MainCloseStep == SInv /\ MainClose => Rest'
<1> SUFFICES ASSUME SInv, MainClose PROVE Rest'
  OBVIOUS
<1> USE WorkersFinite DEF SInv, MainClose
<1>0. /\ UNCHANGED <<life, count, closed, owner, handle, left, tally, result, joined>>
      /\ op' = [op EXCEPT ![Main] = "close"] /\ rc' = [rc EXCEPT ![Main] = "none"]
      /\ op[Main] = "idle" /\ life = "live" /\ at = "spawn" /\ at' = "closing" /\ AllJoined(Producers)
  BY DEF Call, ring
<1>a. \A u \in Workers : op'[u] = op[u] /\ rc'[u] = rc[u] /\ Total(u)' = Total(u)
  BY <1>0 DEF Total, TypeOK
<1>1. SType'
  BY <1>0 DEF SType
<1>2. Stages'
  BY <1>0 DEF Stages, AllJoined, TypeOK
<1>3. Insiders'
  BY <1>0 DEF Insiders, TypeOK, Workers
<1>4. Accounts'
  BY <1>0, <1>a DEF Accounts, Ended, Workers
<1>5. Conservation'
  BY <1>0, <1>a, BalanceKept
<1> QED
  BY <1>1, <1>2, <1>3, <1>4, <1>5 DEF Rest

LEMMA MainFreeStep == SInv /\ MainFree => Rest'
<1> SUFFICES ASSUME SInv, MainFree PROVE Rest'
  OBVIOUS
<1> USE WorkersFinite DEF SInv, MainFree, calls
<1>1. SType' /\ Insiders'
  BY DEF SType, Insiders
<1>2. Stages'
  BY DEF Stages, AllJoined, Workers
<1>3. Accounts'
  BY DEF Accounts, Ended, Total, ring
<1>4. Conservation'
  BY BalanceKept DEF Total, ring
<1> QED
  BY <1>1, <1>2, <1>3, <1>4 DEF Rest

\* A worker's entry returns.
LEMMA FinishStep ==
  ASSUME SInv, NEW t \in Workers, Running(t), Finish(t, Total(t)),
         t \in Producers => left[t] = 0, t \in Consumers => rc[t] = "CLOSED"
  PROVE  Rest'
<1> USE WorkersFinite DEF SInv, Finish
<1>0. UNCHANGED <<life, count, closed, owner, op, rc, at, left, tally, joined>>
  BY DEF vars, ring, calls
<1>a. \A u \in Workers : Total(u)' = Total(u) /\ Total(u) \in Nat
  BY <1>0 DEF Total, SType
<1>b. \A u \in Workers : handle'[u] = IF u = t THEN "exited" ELSE handle[u]
  BY DEF SType
<1>c. result'[t] = Total(t) /\ \A u \in Workers : u # t => result'[u] = result[u]
  BY DEF SType
<1>d. handle[t] = "running" /\ op[t] = "idle"
  BY DEF Running
<1>1. SType'
  BY <1>0, <1>a, <1>b DEF SType
<1>2. Stages'
  BY <1>0, <1>b, <1>d DEF Stages, AllJoined, Workers
<1>3. Insiders'
  BY <1>0, <1>b, <1>d DEF Insiders
<1>4. Accounts'
  <2>1. \A u \in Workers : Ended(u)' <=> Ended(u) \/ u = t
    BY <1>b DEF Ended
  <2>2. \A u \in Producers : (rc[u] # "CLOSED" /\ (Ended(u) => left[u] = 0)
          /\ Total(u) + left[u] + (IF op[u] = "idle" THEN 0 ELSE 1) = Quota)'
    BY <1>0, <1>a, <2>1 DEF Accounts, Workers
  <2>3. \A u \in Consumers : ((Ended(u) => rc[u] = "CLOSED") /\ (rc[u] = "CLOSED" => closed /\ count = 0))'
    BY <1>0, <1>a, <2>1 DEF Accounts, Workers
  <2>4. \A u \in Workers : ((Ended(u) => result[u] = Total(u)) /\ (handle[u] = "joined" => joined[u] = Total(u)))'
    BY <1>0, <1>a, <1>b, <1>c, <2>1 DEF Accounts
  <2> QED
    BY <2>2, <2>3, <2>4 DEF Accounts
<1>5. Conservation'
  BY <1>0, <1>a, BalanceKept
<1> QED
  BY <1>1, <1>2, <1>3, <1>4, <1>5 DEF Rest

\* A worker makes its next call.
LEMMA NextCallStep ==
  ASSUME SInv, NEW t \in Workers, NEW o, NEW v, Running(t), NextCall(t, o, v), rc[t] # "CLOSED",
         \/ t \in Producers /\ o = "send" /\ left[t] > 0 /\ left' = [left EXCEPT ![t] = @ - 1]
         \/ t \in Consumers /\ o = "recv" /\ left' = left
  PROVE  Rest'
<1> USE WorkersFinite DEF SInv, NextCall
<1>0. /\ UNCHANGED <<life, count, closed, owner, at, handle, result, joined>>
      /\ op' = [op EXCEPT ![t] = o] /\ rc' = [rc EXCEPT ![t] = "none"]
      /\ tally' = [tally EXCEPT ![t] = Total(t)]
      /\ handle[t] = "running" /\ op[t] = "idle"
  BY DEF Call, ring, Running
<1>a. \A u \in Workers : Total(u)' = Total(u) /\ Total(u) \in Nat
  BY <1>0 DEF Total, SType, TypeOK
<1>b. \A u \in Threads : /\ op'[u] = IF u = t THEN o ELSE op[u]
                         /\ rc'[u] = IF u = t THEN "none" ELSE rc[u]
  BY <1>0 DEF TypeOK
<1>c. \A u \in Workers : left'[u] = IF u = t /\ t \in Producers THEN left[u] - 1 ELSE left[u]
  BY DEF SType
<1>1. SType'
  BY <1>0, <1>a, <1>c DEF SType
<1>2. Stages'
  BY <1>0, <1>b DEF Stages, AllJoined
<1>3. Insiders'
  <2>1. owner' # NoThread => op'[owner'] # "idle"
    BY <1>0, <1>b DEF Insiders, TypeOK
  <2> QED
    BY <1>0, <1>b, <2>1 DEF Insiders, Workers
<1>4. Accounts'
  <2>1. \A u \in Workers : Ended(u)' <=> Ended(u)
    BY <1>0 DEF Ended
  <2>2. ASSUME NEW u \in Producers
        PROVE  (rc[u] # "CLOSED" /\ (Ended(u) => left[u] = 0)
                /\ Total(u) + left[u] + (IF op[u] = "idle" THEN 0 ELSE 1) = Quota)'
    <3>1. u \in Workers /\ u \in Threads
      BY DEF Workers
    <3>2. CASE u = t
      <4>1. Total(u) + left[u] + 0 = Quota /\ left[u] \in Nat /\ Total(u) \in Nat
        BY <1>0, <1>a, <3>1, <3>2 DEF Accounts, SType
      <4>2. ~Ended(u) /\ o # "idle"
        BY <1>0, <3>2 DEF Ended
      <4> QED
        BY <1>a, <1>b, <1>c, <2>1, <3>1, <3>2, <4>1, <4>2
    <3>3. CASE u # t
      BY <1>a, <1>b, <1>c, <2>1, <3>1, <3>3 DEF Accounts
    <3> QED
      BY <3>2, <3>3
  <2>3. \A u \in Consumers : ((Ended(u) => rc[u] = "CLOSED") /\ (rc[u] = "CLOSED" => closed /\ count = 0))'
    BY <1>0, <1>b, <2>1 DEF Accounts, Workers, Ended
  <2>4. \A u \in Workers : ((Ended(u) => result[u] = Total(u)) /\ (handle[u] = "joined" => joined[u] = Total(u)))'
    BY <1>0, <1>a, <2>1 DEF Accounts
  <2> QED
    BY <2>2, <2>3, <2>4 DEF Accounts
<1>5. Conservation'
  BY <1>0, <1>a, BalanceKept
<1> QED
  BY <1>1, <1>2, <1>3, <1>4, <1>5 DEF Rest

-----------------------------------------------------------------------------
(* The steps inside the channel *)

\* Who can be inside, and in which call.  A producer is never inside a closed
\* channel: main closes it after joining the producers.
LEMMA WhoIsInside ==
  ASSUME SInv, NEW t \in Threads, op[t] # "idle"
  PROVE  \/ t \in Producers /\ op[t] = "send" /\ handle[t] = "running" /\ ~closed
         \/ t \in Consumers /\ op[t] = "recv" /\ handle[t] = "running"
         \/ t = Main /\ op[t] = "close" /\ at = "closing"
<1>1. CASE t \in Producers
  <2>1. op[t] = "send" /\ handle[t] = "running"
    BY <1>1 DEF SInv, Insiders, Workers
  <2>2. ~closed
    BY <1>1, <2>1 DEF SInv, Stages, AllJoined
  <2> QED
    BY <1>1, <2>1, <2>2
<1>2. CASE t \in Consumers
  BY <1>2 DEF SInv, Insiders, Workers
<1>3. CASE t = Main
  BY <1>3 DEF SInv, Stages
<1> QED
  BY <1>1, <1>2, <1>3, ProgramAssumption

\* Lock, wait and wake: no call begins or ends.
LEMMA NoCallStep ==
  ASSUME SInv, UNCHANGED <<life, count, closed, op, rc, at, handle, left, tally, result, joined>>,
         owner' # NoThread => op[owner'] # "idle"
  PROVE  Rest'
<1> USE DEF SInv
<1>1. SType' /\ Stages' /\ Insiders'
  BY DEF SType, Stages, AllJoined, Insiders
<1>a. \A u \in Workers : (Total(u)' = Total(u)) /\ (Ended(u)' <=> Ended(u))
  BY DEF Total, Ended
<1>2. Accounts'
  BY <1>a DEF Accounts, Workers
<1>3. Conservation'
  BY <1>a, BalanceKept
<1> QED
  BY <1>1, <1>2, <1>3 DEF Rest

\* A call of t returns with code; the ring then holds n elements.
Ends(t, code) ==
  /\ UNCHANGED <<life, at, handle, left, tally, result, joined>>
  /\ op' = [op EXCEPT ![t] = "idle"] /\ rc' = [rc EXCEPT ![t] = code] /\ owner' = NoThread

\* What holds of the others when one call returns.
LEMMA EndsKeeps ==
  ASSUME SInv, NEW t \in Threads, NEW code, Ends(t, code)
  PROVE  /\ SType' /\ Insiders'
         /\ \A u \in Threads : op'[u] = (IF u = t THEN "idle" ELSE op[u])
                            /\ rc'[u] = (IF u = t THEN code ELSE rc[u])
         /\ \A u \in Workers : u # t => Total(u)' = Total(u)
         /\ \A u \in Workers : Ended(u)' <=> Ended(u)
         /\ \A u \in Workers : Total(u) \in Nat
<1> USE WorkersFinite DEF SInv, Ends
<1>1. \A u \in Threads : op'[u] = (IF u = t THEN "idle" ELSE op[u])
                      /\ rc'[u] = (IF u = t THEN code ELSE rc[u])
  BY DEF TypeOK
<1>2. SType'
  BY DEF SType
<1>3. Insiders'
  BY <1>1 DEF Insiders, Workers
<1>4. \A u \in Workers : u # t => Total(u)' = Total(u)
  BY <1>1 DEF Total
<1>5. \A u \in Workers : Ended(u)' <=> Ended(u)
  BY DEF Ended
<1>6. \A u \in Workers : Total(u) \in Nat
  BY DEF Total, SType
<1> QED
  BY <1>1, <1>2, <1>3, <1>4, <1>5, <1>6

\* A producer's element is in the ring.
LEMMA DepositStep ==
  ASSUME SInv, NEW t \in Threads, Deposit(t), UNCHANGED prog
  PROVE  Rest'
<1> USE WorkersFinite DEF SInv
<1>1. Ends(t, "OK") /\ count' = count + 1 /\ closed' = closed /\ ~closed /\ op[t] \in SendOps
  BY DEF Deposit, PutAndSignal, Return, chan_enqueue, Ends, prog
<1>2. t \in Producers /\ t \in Workers /\ op[t] = "send" /\ handle[t] = "running" /\ rc[t] = "none"
  BY <1>1, WhoIsInside DEF SendOps, Insiders, Workers
<1>3. /\ SType' /\ Insiders'
      /\ \A u \in Threads : op'[u] = (IF u = t THEN "idle" ELSE op[u])
                         /\ rc'[u] = (IF u = t THEN "OK" ELSE rc[u])
      /\ \A u \in Workers : u # t => Total(u)' = Total(u)
      /\ \A u \in Workers : Ended(u)' <=> Ended(u)
      /\ \A u \in Workers : Total(u) \in Nat
  BY <1>1, EndsKeeps
<1>4. Total(t)' = Total(t) + 1
  BY <1>1, <1>2, <1>3 DEF Total, Ends, SType
<1>5. Stages'
  BY <1>1, <1>2, <1>3 DEF Stages, AllJoined, Ends
<1>6. Accounts'
  <2>1. ASSUME NEW u \in Producers
        PROVE  (rc[u] # "CLOSED" /\ (Ended(u) => left[u] = 0)
                /\ Total(u) + left[u] + (IF op[u] = "idle" THEN 0 ELSE 1) = Quota)'
    <3>1. u \in Workers /\ u \in Threads /\ left' = left
      BY <1>1 DEF Workers, Ends
    <3>2. CASE u = t
      <4>1. Total(u) + left[u] + 1 = Quota /\ left[u] \in Nat /\ Total(u) \in Nat /\ ~Ended(u)
        BY <1>2, <1>3, <3>1, <3>2 DEF Accounts, SType, Ended
      <4> QED
        BY <1>3, <1>4, <3>1, <3>2, <4>1
    <3>3. CASE u # t
      BY <1>3, <3>1, <3>3 DEF Accounts
    <3> QED
      BY <3>2, <3>3
  <2>2. \A u \in Consumers : ((Ended(u) => rc[u] = "CLOSED") /\ (rc[u] = "CLOSED" => closed /\ count = 0))'
    BY <1>1, <1>2, <1>3 DEF Accounts, Workers
  <2>3. \A u \in Workers : ((Ended(u) => result[u] = Total(u)) /\ (handle[u] = "joined" => joined[u] = Total(u)))'
    BY <1>1, <1>2, <1>3 DEF Accounts, Ended, Ends
  <2> QED
    BY <2>1, <2>2, <2>3 DEF Accounts
<1>7. Conservation'
  <2>1. PICK n, m : n = Totals /\ m = Totals'
    OBVIOUS
  <2>2. n \in [Workers -> Nat] /\ m[t] = n[t] + 1 /\ \A u \in Workers \ {t} : m[u] = n[u]
    BY <1>2, <1>3, <1>4, <2>1 DEF Totals
  <2>3. Sum(m, Producers) = Sum(n, Producers) + 1
    <3>1. (\A u \in Producers : n[u] \in Nat) /\ (\A u \in Producers \ {t} : m[u] = n[u])
      BY <2>2 DEF Workers
    <3> QED
      BY <1>2, <2>2, <3>1, SumGrows
  <2>4. Sum(m, Consumers) = Sum(n, Consumers)
    <3>1. \A u \in Consumers : m[u] = n[u]
      BY <1>2, <2>2 DEF Workers
    <3> QED
      BY <3>1, SumSame
  <2>5. Sum(n, Producers) = Sum(n, Consumers) + count
    BY <2>1 DEF Conservation
  <2>6. Sum(n, Consumers) \in Nat /\ count \in Nat
    <3>1. \A u \in Consumers : n[u] \in Nat
      BY <2>2 DEF Workers
    <3>2. Sum(n, Consumers) \in Nat
      BY <3>1, CountedIsFinite
    <3> QED
      BY <3>2, CapPositive DEF TypeOK
  <2>7. Sum(m, Producers) = Sum(m, Consumers) + count'
    BY <1>1, <2>3, <2>4, <2>5, <2>6
  <2> QED
    BY <2>1, <2>7 DEF Conservation, Sum, Counted
<1> QED
  BY <1>3, <1>5, <1>6, <1>7 DEF Rest

\* A consumer has taken an element out of the ring.
LEMMA WithdrawStep ==
  ASSUME SInv, NEW t \in Threads, Withdraw(t), UNCHANGED prog
  PROVE  Rest'
<1> USE WorkersFinite DEF SInv
<1>1. Ends(t, "OK") /\ count' = count - 1 /\ closed' = closed /\ count > 0 /\ op[t] \in RecvOps
  BY DEF Withdraw, TakeAndSignal, Return, chan_dequeue, Ends, prog
<1>2. t \in Consumers /\ t \in Workers /\ op[t] = "recv" /\ handle[t] = "running" /\ rc[t] = "none"
  BY <1>1, WhoIsInside DEF RecvOps, Insiders, Workers
<1>3. /\ SType' /\ Insiders'
      /\ \A u \in Threads : op'[u] = (IF u = t THEN "idle" ELSE op[u])
                         /\ rc'[u] = (IF u = t THEN "OK" ELSE rc[u])
      /\ \A u \in Workers : u # t => Total(u)' = Total(u)
      /\ \A u \in Workers : Ended(u)' <=> Ended(u)
      /\ \A u \in Workers : Total(u) \in Nat
  BY <1>1, EndsKeeps
<1>4. Total(t)' = Total(t) + 1
  BY <1>1, <1>2, <1>3 DEF Total, Ends, SType
<1>5. Stages'
  BY <1>1, <1>2, <1>3 DEF Stages, AllJoined, Ends
<1>a. count \in Nat
  BY CapPositive DEF TypeOK
<1>6. Accounts'
  <2>1. \A u \in Producers : (rc[u] # "CLOSED" /\ (Ended(u) => left[u] = 0)
          /\ Total(u) + left[u] + (IF op[u] = "idle" THEN 0 ELSE 1) = Quota)'
    BY <1>1, <1>2, <1>3 DEF Accounts, Workers, Ends
  <2>2. \A u \in Consumers : ((Ended(u) => rc[u] = "CLOSED") /\ (rc[u] = "CLOSED" => closed /\ count = 0))'
    <3>1. \A u \in Consumers : rc[u] # "CLOSED"
      BY <1>1, <1>a DEF Accounts
    <3>2. \A u \in Consumers : ~Ended(u) /\ u \in Workers /\ u \in Threads
      BY <3>1 DEF Accounts, Workers
    <3> QED
      BY <1>3, <3>1, <3>2
  <2>3. \A u \in Workers : ((Ended(u) => result[u] = Total(u)) /\ (handle[u] = "joined" => joined[u] = Total(u)))'
    BY <1>1, <1>2, <1>3 DEF Accounts, Ended, Ends
  <2> QED
    BY <2>1, <2>2, <2>3 DEF Accounts
<1>7. Conservation'
  <2>1. PICK n, m : n = Totals /\ m = Totals'
    OBVIOUS
  <2>2. n \in [Workers -> Nat] /\ m[t] = n[t] + 1 /\ \A u \in Workers \ {t} : m[u] = n[u]
    BY <1>2, <1>3, <1>4, <2>1 DEF Totals
  <2>3. Sum(m, Consumers) = Sum(n, Consumers) + 1
    <3>1. (\A u \in Consumers : n[u] \in Nat) /\ (\A u \in Consumers \ {t} : m[u] = n[u])
      BY <2>2 DEF Workers
    <3> QED
      BY <1>2, <2>2, <3>1, SumGrows
  <2>4. Sum(m, Producers) = Sum(n, Producers)
    <3>1. \A u \in Producers : m[u] = n[u]
      BY <1>2, <2>2 DEF Workers
    <3> QED
      BY <3>1, SumSame
  <2>5. Sum(n, Producers) = Sum(n, Consumers) + count
    BY <2>1 DEF Conservation
  <2>6. Sum(n, Consumers) \in Nat
    <3>1. \A u \in Consumers : n[u] \in Nat
      BY <2>2 DEF Workers
    <3> QED
      BY <3>1, CountedIsFinite
  <2>7. Sum(m, Producers) = Sum(m, Consumers) + count'
    BY <1>1, <1>a, <2>3, <2>4, <2>5, <2>6
  <2> QED
    BY <2>1, <2>7 DEF Conservation, Sum, Counted
<1> QED
  BY <1>3, <1>5, <1>6, <1>7 DEF Rest

\* A consumer is refused: the closed channel is drained.
LEMMA RefusedStep ==
  ASSUME SInv, NEW t \in Threads, GiveUp(t), UNCHANGED prog
  PROVE  Rest'
<1> USE WorkersFinite DEF SInv
<1>1. op[t] # "idle"
  BY DEF GiveUp, SendOps, RecvOps
<1>2. t \in Consumers /\ t \in Workers /\ op[t] = "recv" /\ handle[t] = "running" /\ rc[t] = "none"
      /\ closed /\ count = 0 /\ ReturnOnly(t, "CLOSED")
  BY <1>1, WhoIsInside DEF GiveUp, SendOps, RecvOps, Insiders, Workers
<1>3. Ends(t, "CLOSED") /\ count' = count /\ closed' = closed
  BY <1>2 DEF ReturnOnly, Return, ring, Ends, prog
<1>4. /\ SType' /\ Insiders'
      /\ \A u \in Threads : op'[u] = (IF u = t THEN "idle" ELSE op[u])
                         /\ rc'[u] = (IF u = t THEN "CLOSED" ELSE rc[u])
      /\ \A u \in Workers : u # t => Total(u)' = Total(u)
      /\ \A u \in Workers : Ended(u)' <=> Ended(u)
      /\ \A u \in Workers : Total(u) \in Nat
  BY <1>3, EndsKeeps
<1>5. \A u \in Workers : Total(u)' = Total(u)
  BY <1>2, <1>3, <1>4 DEF Total, Ends
<1>6. Stages'
  BY <1>2, <1>3, <1>4 DEF Stages, AllJoined, Ends
<1>7. Accounts'
  <2>1. \A u \in Producers : (rc[u] # "CLOSED" /\ (Ended(u) => left[u] = 0)
          /\ Total(u) + left[u] + (IF op[u] = "idle" THEN 0 ELSE 1) = Quota)'
    BY <1>2, <1>3, <1>4, <1>5 DEF Accounts, Workers, Ends
  <2>2. \A u \in Consumers : ((Ended(u) => rc[u] = "CLOSED") /\ (rc[u] = "CLOSED" => closed /\ count = 0))'
    BY <1>2, <1>3, <1>4 DEF Accounts, Workers
  <2>3. \A u \in Workers : ((Ended(u) => result[u] = Total(u)) /\ (handle[u] = "joined" => joined[u] = Total(u)))'
    BY <1>3, <1>4, <1>5 DEF Accounts, Ends
  <2> QED
    BY <2>1, <2>2, <2>3 DEF Accounts
<1>8. Conservation'
  BY <1>3, <1>5, BalanceKept
<1> QED
  BY <1>4, <1>6, <1>7, <1>8 DEF Rest

\* Main's close returns.
LEMMA CloseStep ==
  ASSUME SInv, NEW t \in Threads, Close(t), UNCHANGED prog
  PROVE  Rest'
<1> USE WorkersFinite DEF SInv
<1>1. Ends(t, "OK") /\ count' = count /\ closed' = TRUE /\ op[t] = "close"
  BY DEF Close, Holds, Return, ring, Ends, prog
<1>2. t = Main /\ at = "closing"
  BY <1>1, WhoIsInside
<1>3. /\ SType' /\ Insiders'
      /\ \A u \in Threads : op'[u] = (IF u = t THEN "idle" ELSE op[u])
                         /\ rc'[u] = (IF u = t THEN "OK" ELSE rc[u])
      /\ \A u \in Workers : u # t => Total(u)' = Total(u)
      /\ \A u \in Workers : Ended(u)' <=> Ended(u)
  BY <1>1, EndsKeeps
<1>4. \A u \in Workers : Total(u)' = Total(u) /\ op'[u] = op[u] /\ rc'[u] = rc[u]
  BY <1>2, <1>3
<1>5. Stages'
  BY <1>1, <1>2, <1>3 DEF Stages, AllJoined, Ends
<1>6. Accounts'
  BY <1>1, <1>3, <1>4 DEF Accounts, Workers, Ends
<1>7. Conservation'
  BY <1>1, <1>4, BalanceKept
<1> QED
  BY <1>3, <1>5, <1>6, <1>7 DEF Rest

\* The channel's own steps.
LEMMA InChannelStep ==
  ASSUME SInv, NEW t \in Threads, InChannel(t) \/ Disturb(t)
  PROVE  Rest'
<1> USE WorkersFinite DEF SInv
<1>1. CASE Lock(t) /\ UNCHANGED prog
  BY <1>1, NoCallStep DEF Lock, calls, ring, prog
<1>2. CASE Disturb(t)
  BY <1>2, NoCallStep DEF Disturb, SpuriousWake, calls, ring, Insiders
<1>3. CASE Body(t) /\ UNCHANGED prog
  <2>1. Leaves(t)
    BY <1>3, BodyKinds
  <2>2. CASE SleepFull(t) \/ SleepEmpty(t)
    BY <1>3, <2>2, NoCallStep DEF SleepFull, SleepEmpty, WaitNotFull, WaitNotEmpty, calls, ring, prog
  <2> QED
    BY <1>3, <2>1, <2>2, DepositStep, WithdrawStep, RefusedStep, CloseStep DEF Leaves
<1> QED
  BY <1>1, <1>2, <1>3 DEF InChannel

-----------------------------------------------------------------------------
(* The theorems *)

LEMMA SessionStep == SInv /\ [SNext]_svars => SInv'
<1> SUFFICES ASSUME SInv, [SNext]_svars PROVE SInv'
  OBVIOUS
<1>1. TypeOK' /\ ClosedReleasesWaiters'
  <2>1. [Next]_vars
    BY ProgramStepIsChannelStep
  <2> QED
    BY <2>1, TypeStep, WaitersStep DEF SInv
<1>2. Rest'
  <2>1. CASE MainJoinProducers \/ MainJoinConsumers
    BY <2>1, JoinStep DEF MainJoinProducers, MainJoinConsumers, Workers
  <2>2. ASSUME NEW t \in Workers, WorkerStep(t) PROVE Rest'
    <3>1. CASE t \in Producers /\ Produce(t)
      <4>1. Running(t) /\ rc[t] # "CLOSED" /\ t \notin Consumers
        BY <3>1, WorkersFinite DEF Produce, SInv, Accounts
      <4> QED
        BY <3>1, <4>1, FinishStep, NextCallStep DEF Produce
    <3>2. CASE t \in Consumers /\ Consume(t)
      <4>1. Running(t) /\ t \notin Producers
        BY <3>2, WorkersFinite DEF Consume
      <4> QED
        BY <3>2, <4>1, FinishStep, NextCallStep DEF Consume
    <3> QED
      BY <2>2, <3>1, <3>2 DEF WorkerStep
  <2>3. CASE UNCHANGED svars
    BY <2>3, NoCallStep DEF svars, vars, ring, calls, prog, SInv, Insiders
  <2> QED
    BY <2>1, <2>2, <2>3, MainNewStep, SpawnStep, MainCloseStep, MainFreeStep, InChannelStep
       DEF SNext, MainStep
<1> QED
  BY <1>1, <1>2 DEF SInv, Rest

\* The invariant of the whole program.
THEOREM SessionInvariant == SSpec => []SInv
<1>1. SInit => SInv
  <2> SUFFICES ASSUME SInit PROVE SInv
    OBVIOUS
  <2> USE WorkersFinite, ProgramAssumption DEF SInit, Init
  <2>1. TypeOK /\ ClosedReleasesWaiters
    BY InitTypes DEF ClosedReleasesWaiters
  <2>2. SType /\ Stages /\ Insiders
    BY DEF SType, Stages, Insiders
  <2>3. \A t \in Workers : Total(t) = 0
    BY DEF Total
  <2>4. Accounts
    BY <2>3 DEF Accounts, Ended, Workers
  <2>5. Conservation
    <3>1. PICK n : n = Totals
      OBVIOUS
    <3>2. (\A t \in Producers : n[t] = 0) /\ (\A t \in Consumers : n[t] = 0)
      BY <2>3, <3>1 DEF Totals, Workers
    <3>3. Sum(n, Producers) = 0 * Cardinality(Producers) /\ Sum(n, Consumers) = 0 * Cardinality(Consumers)
      BY <3>2, SumOfQuotas
    <3>4. Cardinality(Producers) \in Nat /\ Cardinality(Consumers) \in Nat
      BY FS_CardinalityType
    <3> QED
      BY <3>1, <3>3, <3>4 DEF Conservation
  <2> QED
    BY <2>1, <2>2, <2>4, <2>5 DEF SInv
<1> QED
  BY <1>1, SessionStep, PTL DEF SSpec

\* The program never breaks the rules of the channel: whatever was shown above
\* of a channel in the hands of any user holds of it in this program.
THEOREM SessionRefinesChannel == SSpec => Spec
<1>1. SInit => Init
  BY DEF SInit
<1> QED
  BY <1>1, SessionInvariant, ProgramStepIsChannelStep, PTL DEF SSpec, Spec

\* When fuse_rt_chan_free runs, the joins have emptied the channel of threads.
THEOREM FreeIsSafe == SSpec => []FreedIsQuiescent
<1>1. SInv => FreedIsQuiescent
  <2> SUFFICES ASSUME SInv, life = "freed" PROVE FreedIsQuiescent
    BY DEF FreedIsQuiescent
  <2>1. at = "done" /\ AllJoined(Workers) /\ op[Main] = "idle"
    BY DEF SInv, Stages
  <2>2. \A t \in Threads : op[t] = "idle"
    BY <2>1, ProgramAssumption DEF SInv, Insiders, AllJoined, Workers
  <2>3. owner = NoThread /\ waitFull = {} /\ waitEmpty = {}
    BY <2>2 DEF SInv, Insiders, TypeOK, ClosedReleasesWaiters
  <2> QED
    BY <2>1, <2>2, <2>3 DEF FreedIsQuiescent
<1> QED
  BY <1>1, SessionInvariant, PTL

\* Every element is received exactly once, and the joins report it.
THEOREM DeliveredOnce == SSpec => []EveryElementDeliveredOnce
<1>1. SInv => EveryElementDeliveredOnce
  <2> SUFFICES ASSUME SInv, at = "done" PROVE EveryElementDeliveredOnce
    BY DEF EveryElementDeliveredOnce
  <2> USE WorkersFinite, ProgramAssumption DEF SInv
  <2>1. AllJoined(Workers)
    BY DEF Stages
  <2>2. \A t \in Workers : handle[t] = "joined" /\ Ended(t) /\ op[t] = "idle" /\ joined[t] = Total(t)
    BY <2>1 DEF AllJoined, Ended, Insiders, Accounts
  <2>3. \A t \in Producers : joined[t] = Quota
    <3>1. \A t \in Producers : t \in Workers /\ left[t] = 0 /\ Total(t) \in Nat
      BY <2>2 DEF Accounts, Workers, Total, SType
    <3> QED
      BY <2>2, <3>1 DEF Accounts
  <2>4. SumJoined(Producers) = Quota * Cardinality(Producers)
    BY <2>3, SumOfQuotas DEF SumJoined
  <2>5. count = 0
    BY <2>2 DEF Accounts, Workers
  <2>6. SumJoined(Producers) = Sum(Totals, Producers) /\ SumJoined(Consumers) = Sum(Totals, Consumers)
    <3>1. PICK n, j : n = Totals /\ j = joined
      OBVIOUS
    <3>2. (\A t \in Producers : j[t] = n[t]) /\ (\A t \in Consumers : j[t] = n[t])
      BY <2>2, <3>1 DEF Totals, Workers
    <3>3. Sum(j, Producers) = Sum(n, Producers) /\ Sum(j, Consumers) = Sum(n, Consumers)
      BY <3>2, SumSame
    <3> QED
      BY <3>1, <3>3 DEF SumJoined
  <2>7. Sum(Totals, Consumers) \in Nat
    <3>1. PICK n : n = Totals
      OBVIOUS
    <3>2. \A t \in Consumers : n[t] \in Nat
      BY <3>1, TotalsType DEF Workers
    <3>3. Sum(n, Consumers) \in Nat
      BY <3>2, CountedIsFinite
    <3> QED
      BY <3>1, <3>3
  <2>8. SumJoined(Consumers) = SumJoined(Producers)
    BY <2>5, <2>6, <2>7 DEF Conservation
  <2> QED
    BY <2>4, <2>5, <2>8 DEF EveryElementDeliveredOnce
<1> QED
  BY <1>1, SessionInvariant, PTL
================================================================================
