---------------------------- MODULE BoundedChannel ----------------------------
(***************************************************************************)
(* What a Fuse channel promises its users (runtime/include/fuse_rt.h): a   *)
(* FIFO queue of at most Capacity elements on which every operation takes  *)
(* effect at one instant between its call and its return.  No locks, no    *)
(* condition variables, no ring: FuseChan is shown to implement this.      *)
(***************************************************************************)
EXTENDS Naturals, Sequences

CONSTANTS Threads,    \* callers of the channel
          Values,     \* elements that can be sent
          Zero,       \* contents of a caller's untouched output slot
          Capacity    \* effective capacity, at least 1

VARIABLES queue,      \* elements sent and not yet received, oldest first
          closed,     \* has close taken effect?
          op,         \* op[t]: the call t is in, or "idle"
          arg,        \* arg[t]: the value t is sending
          rc,         \* rc[t]: return code of t's last finished call
          out         \* out[t]: what t's last receive stored

vars == <<queue, closed, op, arg, rc, out>>

SendOps == {"send", "try_send"}
RecvOps == {"recv", "try_recv"}
TryOps  == {"try_send", "try_recv"}
Ops     == SendOps \cup RecvOps \cup {"close"}
Codes   == {"none", "OK", "CLOSED", "WOULD_BLOCK"}

Init ==
  /\ queue = <<>>
  /\ closed = FALSE
  /\ op  = [t \in Threads |-> "idle"]
  /\ arg = [t \in Threads |-> Zero]
  /\ rc  = [t \in Threads |-> "none"]
  /\ out = [t \in Threads |-> Zero]

\* Thread t calls o; v matters to the sends only.
Invoke(t, o, v) ==
  /\ op[t] = "idle"
  /\ op'  = [op  EXCEPT ![t] = o]
  /\ arg' = [arg EXCEPT ![t] = v]
  /\ rc'  = [rc  EXCEPT ![t] = "none"]
  /\ out' = [out EXCEPT ![t] = Zero]
  /\ UNCHANGED <<queue, closed>>

Respond(t, code) ==
  /\ op' = [op EXCEPT ![t] = "idle"]
  /\ rc' = [rc EXCEPT ![t] = code]
  /\ UNCHANGED arg

\* A send succeeds only on an open channel that has room.
Put(t) ==
  /\ op[t] \in SendOps
  /\ ~closed
  /\ Len(queue) < Capacity
  /\ queue' = Append(queue, arg[t])
  /\ Respond(t, "OK")
  /\ UNCHANGED <<closed, out>>

\* A receive takes the oldest element, whether or not the channel is closed.
Take(t) ==
  /\ op[t] \in RecvOps
  /\ queue # <<>>
  /\ out' = [out EXCEPT ![t] = Head(queue)]
  /\ queue' = Tail(queue)
  /\ Respond(t, "OK")
  /\ UNCHANGED closed

\* CLOSED: to a sender as soon as the channel is closed, to a receiver only
\* once it is drained.
Refuse(t) ==
  /\ closed
  /\ \/ op[t] \in SendOps
     \/ op[t] \in RecvOps /\ queue = <<>>
  /\ Respond(t, "CLOSED")
  /\ UNCHANGED <<queue, closed, out>>

\* WOULD_BLOCK: to the try_ forms only, exactly when send or recv would wait.
WouldBlock(t) ==
  /\ ~closed
  /\ \/ op[t] = "try_send" /\ Len(queue) = Capacity
     \/ op[t] = "try_recv" /\ queue = <<>>
  /\ Respond(t, "WOULD_BLOCK")
  /\ UNCHANGED <<queue, closed, out>>

Close(t) ==
  /\ op[t] = "close"
  /\ closed' = TRUE
  /\ Respond(t, "OK")
  /\ UNCHANGED <<queue, out>>

Next ==
  \E t \in Threads :
    \/ \E o \in Ops, v \in Values : Invoke(t, o, v)
    \/ Put(t) \/ Take(t) \/ Refuse(t) \/ WouldBlock(t) \/ Close(t)

Spec == Init /\ [][Next]_vars
=============================================================================
