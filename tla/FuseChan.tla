------------------------------- MODULE FuseChan -------------------------------
(***************************************************************************)
(* runtime/src/chan.c: the bounded channel of the Fuse runtime.  A ring    *)
(* buffer guarded by one mutex, with the condition variables not_full and  *)
(* not_empty.  Every critical section of the code is one action: while a   *)
(* thread owns the mutex no other thread reads or writes the ring, so the  *)
(* finer steps cannot be told apart.  What can be told apart, and is       *)
(* modelled step by step, is everything between critical sections: the     *)
(* call, the race for the mutex, falling asleep (which releases the mutex  *)
(* atomically), being signalled and having to win the mutex again, and     *)
(* waking for no reason.                                                   *)
(***************************************************************************)
EXTENDS Integers, Sequences, FiniteSets

CONSTANTS Threads,    \* threads that share the channel
          Values,     \* elements they send
          Zero,       \* the contents of calloc'ed memory; never sent
          NoThread,   \* the mutex is free
          Requested   \* the capacity argument of fuse_rt_chan_new

ASSUME RequestedAssumption == Requested \in Int
ASSUME ThreadsAssumption   == IsFiniteSet(Threads) /\ NoThread \notin Threads
ASSUME ZeroAssumption      == Zero \notin Values

VARIABLES life,       \* "null" | "live" | "freed" | "aborted"
          buf,        \* c->buf, a slot per index 0 .. Cap - 1
          head,       \* c->head, the next slot to receive from
          tail,       \* c->tail, the next slot to send into
          count,      \* c->count
          closed,     \* c->closed
          owner,      \* the thread that holds c->m, or NoThread
          waitFull,   \* threads asleep on c->not_full
          waitEmpty,  \* threads asleep on c->not_empty
          op,         \* op[t]: the call t is in, or "idle"
          arg,        \* arg[t]: *value of t's send
          rc,         \* rc[t]: what t's last call returned
          out         \* out[t]: *out of t's receive

ring  == <<buf, head, tail, count>>
calls == <<op, arg, rc, out>>
vars  == <<life, ring, closed, owner, waitFull, waitEmpty, calls>>

SendOps == {"send", "try_send"}
RecvOps == {"recv", "try_recv"}
Ops     == SendOps \cup RecvOps \cup {"close"}
Codes   == {"none", "OK", "CLOSED", "WOULD_BLOCK"}

\* fuse_rt_chan_new: "Capacity 0 is the rendezvous shape; we represent it as 1".
Cap == IF Requested <= 0 THEN 1 ELSE Requested

Init ==
  /\ life = "null"
  /\ buf = [i \in 0 .. Cap - 1 |-> Zero]
  /\ head = 0 /\ tail = 0 /\ count = 0
  /\ closed = FALSE
  /\ owner = NoThread
  /\ waitFull = {} /\ waitEmpty = {}
  /\ op  = [t \in Threads |-> "idle"]
  /\ arg = [t \in Threads |-> Zero]
  /\ rc  = [t \in Threads |-> "none"]
  /\ out = [t \in Threads |-> Zero]

-----------------------------------------------------------------------------
(* Life cycle *)

\* fuse_rt_chan_new.  A failed allocation returns NULL and leaves everything
\* as it was, so the caller may simply try again.
New ==
  /\ life = "null"
  /\ life' = "live"
  /\ UNCHANGED <<ring, closed, owner, waitFull, waitEmpty, calls>>

\* The checks at the head of every send and receive: a null channel, value or
\* out pointer aborts the process before the mutex is touched.
AbortOnNull ==
  /\ life \in {"null", "live"}
  /\ \E t \in Threads : op[t] = "idle"
  /\ life' = "aborted"
  /\ UNCHANGED <<ring, closed, owner, waitFull, waitEmpty, calls>>

\* fuse_rt_chan_free takes no lock.  fuse_rt.h makes the caller responsible
\* for calling it when no thread is inside the channel.
Free ==
  /\ life = "live"
  /\ \A t \in Threads : op[t] = "idle"
  /\ life' = "freed"
  /\ UNCHANGED <<ring, closed, owner, waitFull, waitEmpty, calls>>

-----------------------------------------------------------------------------
(* Calling, locking, waiting *)

Call(t, o, v) ==
  /\ life = "live"
  /\ op[t] = "idle"
  /\ op'  = [op  EXCEPT ![t] = o]
  /\ arg' = [arg EXCEPT ![t] = v]
  /\ rc'  = [rc  EXCEPT ![t] = "none"]
  /\ out' = [out EXCEPT ![t] = Zero]
  /\ UNCHANGED <<life, ring, closed, owner, waitFull, waitEmpty>>

\* chan_lock, and the re-acquisition inside chan_wait_* after a wake-up.
Lock(t) ==
  /\ life = "live"
  /\ op[t] # "idle"
  /\ t \notin waitFull \cup waitEmpty
  /\ owner = NoThread
  /\ owner' = t
  /\ UNCHANGED <<life, ring, closed, waitFull, waitEmpty, calls>>

Holds(t, o) == life = "live" /\ owner = t /\ op[t] = o

\* chan_wait_not_full and chan_wait_not_empty: release the mutex and sleep.
WaitNotFull(t) ==
  /\ waitFull' = waitFull \cup {t}
  /\ owner' = NoThread
  /\ UNCHANGED <<life, ring, closed, waitEmpty, calls>>

WaitNotEmpty(t) ==
  /\ waitEmpty' = waitEmpty \cup {t}
  /\ owner' = NoThread
  /\ UNCHANGED <<life, ring, closed, waitFull, calls>>

\* What one signal can leave of the set of sleepers: any one of them wakes.
Signal(sleepers) ==
  IF sleepers = {} THEN {{}} ELSE {sleepers \ {t} : t \in sleepers}

\* A condition variable may wake a sleeper nobody signalled.
SpuriousWake(t) ==
  /\ life = "live"
  /\ t \in waitFull \cup waitEmpty
  /\ waitFull'  = waitFull \ {t}
  /\ waitEmpty' = waitEmpty \ {t}
  /\ UNCHANGED <<life, ring, closed, owner, calls>>

\* chan_unlock and return code.
Return(t, code) ==
  /\ op' = [op EXCEPT ![t] = "idle"]
  /\ rc' = [rc EXCEPT ![t] = code]
  /\ owner' = NoThread
  /\ UNCHANGED <<life, arg>>

ReturnOnly(t, code) ==
  /\ Return(t, code)
  /\ UNCHANGED <<ring, closed, waitFull, waitEmpty, out>>

-----------------------------------------------------------------------------
(* The critical sections *)

\* Mutation of chan_enqueue: tail is advanced before the copy.
chan_enqueue_late_copy(v) ==
  /\ tail' = (tail + 1) % Cap
  /\ buf' = [buf EXCEPT ![tail'] = v]
  /\ count' = count + 1
  /\ UNCHANGED head

chan_enqueue(v) ==
  /\ buf' = [buf EXCEPT ![tail] = v]
  /\ tail' = (tail + 1) % Cap
  /\ count' = count + 1
  /\ UNCHANGED head

\* Mutation of chan_dequeue: head is not advanced.
chan_dequeue_keeps_head(t) ==
  /\ out' = [out EXCEPT ![t] = buf[head]]
  /\ count' = count - 1
  /\ UNCHANGED <<buf, head, tail>>

chan_dequeue(t) ==
  /\ out' = [out EXCEPT ![t] = buf[head]]
  /\ head' = (head + 1) % Cap
  /\ count' = count - 1
  /\ UNCHANGED <<buf, tail>>

\* Mutation of PutAndSignal: the signal is forgotten.
PutWithoutSignal(t) ==
  /\ chan_enqueue(arg[t])
  /\ Return(t, "OK")
  /\ UNCHANGED <<closed, waitFull, waitEmpty, out>>

\* Enqueue, signal not_empty, unlock: the success path of both sends.
PutAndSignal(t) ==
  /\ chan_enqueue(arg[t])
  /\ waitEmpty' \in Signal(waitEmpty)
  /\ Return(t, "OK")
  /\ UNCHANGED <<closed, waitFull, out>>

\* Dequeue, signal not_full, unlock: the success path of both receives.
TakeAndSignal(t) ==
  /\ chan_dequeue(t)
  /\ waitFull' \in Signal(waitFull)
  /\ Return(t, "OK")
  /\ UNCHANGED <<closed, waitEmpty>>

\* Mutation of Send: the capacity check is off by one.
SendPastCapacity(t) ==
  /\ Holds(t, "send")
  /\ \/ count > Cap /\ ~closed /\ WaitNotFull(t)
     \/ closed /\ ReturnOnly(t, "CLOSED")
     \/ count <= Cap /\ ~closed /\ PutAndSignal(t)

Send(t) ==
  /\ Holds(t, "send")
  /\ \/ count = Cap /\ ~closed /\ WaitNotFull(t)
     \/ closed /\ ReturnOnly(t, "CLOSED")
     \/ count # Cap /\ ~closed /\ PutAndSignal(t)

\* Mutation of Recv: a closed channel is not drained.
RecvRefusesWhenClosed(t) ==
  /\ Holds(t, "recv")
  /\ \/ count = 0 /\ ~closed /\ WaitNotEmpty(t)
     \/ closed /\ ReturnOnly(t, "CLOSED")
     \/ count # 0 /\ ~closed /\ TakeAndSignal(t)

Recv(t) ==
  /\ Holds(t, "recv")
  /\ \/ count = 0 /\ ~closed /\ WaitNotEmpty(t)
     \/ count = 0 /\ closed /\ ReturnOnly(t, "CLOSED")
     \/ count # 0 /\ TakeAndSignal(t)

TrySend(t) ==
  /\ Holds(t, "try_send")
  /\ \/ closed /\ ReturnOnly(t, "CLOSED")
     \/ ~closed /\ count = Cap /\ ReturnOnly(t, "WOULD_BLOCK")
     \/ ~closed /\ count # Cap /\ PutAndSignal(t)

TryRecv(t) ==
  /\ Holds(t, "try_recv")
  /\ \/ count > 0 /\ TakeAndSignal(t)
     \/ ~(count > 0) /\ closed /\ ReturnOnly(t, "CLOSED")
     \/ ~(count > 0) /\ ~closed /\ ReturnOnly(t, "WOULD_BLOCK")

\* Mutation of Close: only one sleeping receiver is woken.
CloseSignalsOne(t) ==
  /\ Holds(t, "close")
  /\ closed' = TRUE
  /\ waitFull' = {}
  /\ waitEmpty' \in Signal(waitEmpty)
  /\ Return(t, "OK")
  /\ UNCHANGED <<ring, out>>

\* fuse_rt_chan_close broadcasts on both condition variables.
Close(t) ==
  /\ Holds(t, "close")
  /\ closed' = TRUE
  /\ waitFull' = {}
  /\ waitEmpty' = {}
  /\ Return(t, "OK")
  /\ UNCHANGED <<ring, out>>

Body(t) == Send(t) \/ Recv(t) \/ TrySend(t) \/ TryRecv(t) \/ Close(t)

Next ==
  \/ New \/ AbortOnNull \/ Free
  \/ \E t \in Threads :
       \/ \E o \in Ops, v \in Values : Call(t, o, v)
       \/ Lock(t)
       \/ SpuriousWake(t)
       \/ Body(t)

Spec == Init /\ [][Next]_vars

-----------------------------------------------------------------------------
(* Properties *)

\* Every variable stays in its type; in particular head, tail and count stay
\* in the bounds the memcpy of chan_enqueue and chan_dequeue relies on.
TypeOK ==
  /\ life \in {"null", "live", "freed", "aborted"}
  /\ buf \in [0 .. Cap - 1 -> Values \cup {Zero}]
  /\ head \in 0 .. Cap - 1
  /\ tail \in 0 .. Cap - 1
  /\ count \in 0 .. Cap
  /\ closed \in BOOLEAN
  /\ owner \in Threads \cup {NoThread}
  /\ waitFull \subseteq Threads
  /\ waitEmpty \subseteq Threads
  /\ op \in [Threads -> Ops \cup {"idle"}]
  /\ arg \in [Threads -> Values \cup {Zero}]
  /\ rc \in [Threads -> Codes]
  /\ out \in [Threads -> Values \cup {Zero}]

\* tail is always count slots past head: the three fields the code updates
\* separately in chan_enqueue and chan_dequeue never drift apart.
RingConsistent == tail = (head + count) % Cap

\* Threads in a blocking call that are not asleep: they will look at the
\* channel again.
AwakeReceivers == {t \in Threads : op[t] = "recv" /\ t \notin waitEmpty}
AwakeSenders   == {t \in Threads : op[t] = "send" /\ t \notin waitFull}

\* No wake-up is lost although send and recv signal one thread each and the
\* signalled thread has to win the mutex again: while a receiver sleeps there
\* is an awake receiver for every buffered element, and while a sender sleeps
\* an awake sender for every free slot.
NoLostWakeup ==
  /\ waitEmpty # {} => count <= Cardinality(AwakeReceivers)
  /\ waitFull  # {} => Cap - count <= Cardinality(AwakeSenders)

\* fuse_rt_chan_close wakes "every blocked sender and receiver", and nobody
\* falls asleep on a closed channel.  Sleepers are always in the blocking call
\* that put them to sleep and never own the mutex.
ClosedReleasesWaiters ==
  /\ closed => waitFull = {} /\ waitEmpty = {}
  /\ \A t \in waitFull  : op[t] = "send" /\ owner # t
  /\ \A t \in waitEmpty : op[t] = "recv" /\ owner # t

\* The contents of the ring, oldest element first.
Contents == [i \in 1 .. count |-> buf[(head + i - 1) % Cap]]

Abstract == INSTANCE BoundedChannel WITH
  Capacity <- Cap, queue <- Contents

\* The ring, its mutex and its two condition variables implement the atomic
\* FIFO channel: elements leave in the order they entered, each exactly once,
\* and each return code is justified at an instant inside the call.
ImplementsBoundedChannel == Abstract!Spec
=============================================================================
