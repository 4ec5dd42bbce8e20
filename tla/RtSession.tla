------------------------------- MODULE RtSession -------------------------------
(***************************************************************************)
(* runtime/src/thread.c and runtime/src/chan.c together, in the life of a  *)
(* program that spawns workers around one channel.  The program is not in  *)
(* the repository: main creates the channel, spawns producers and          *)
(* consumers, joins the producers, closes the channel, joins the consumers *)
(* and frees the channel, where the channel test of                        *)
(* runtime/tests/c/test_sync.c has one producer, which closes the channel  *)
(* itself, and receives in main.  The steps inside the channel are those   *)
(* of FuseChan, unchanged; this module adds the thread handles and         *)
(* replaces FuseChan's assumption that nobody is inside the channel when   *)
(* it is freed by the joins that are meant to establish it.                *)
(***************************************************************************)
EXTENDS FuseChan

CONSTANTS Main, Producers, Consumers,   \* the threads of the program
          Quota,                        \* sends per producer
          MaxSpurious                   \* bound on spurious wake-ups

ASSUME ProgramAssumption ==
  /\ Threads = {Main} \cup Producers \cup Consumers
  /\ Main \notin Producers \cup Consumers
  /\ Producers \cap Consumers = {}
  /\ Consumers # {}
  /\ Quota \in Nat /\ MaxSpurious \in Nat

VARIABLES at,         \* where main is in its program
          handle,     \* handle[t]: the state of worker t's fuse_thread
          left,       \* left[t]: sends producer t has still to make
          tally,      \* tally[t]: successful calls worker t has counted
          result,     \* result[t]: t->result
          joined,     \* joined[t]: what fuse_rt_thread_join returned for t
          spurious    \* spurious wake-ups so far

prog  == <<at, handle, left, tally, result, joined, spurious>>
svars == <<vars, prog>>

Workers == Producers \cup Consumers

SInit ==
  /\ Init
  /\ at = "new"
  /\ handle = [t \in Workers |-> "none"]
  /\ left   = [t \in Workers |-> Quota]
  /\ tally  = [t \in Workers |-> 0]
  /\ result = [t \in Workers |-> 0]
  /\ joined = [t \in Workers |-> 0]
  /\ spurious = 0

-----------------------------------------------------------------------------
(* thread.c *)

\* fuse_rt_thread_spawn: a thread that runs thread_trampoline, or NULL when
\* calloc or pthread_create fails.  A program that checks for NULL stops there;
\* one that does not is aborted by fuse_rt_thread_join.
Spawn(t) ==
  /\ at = "spawn"
  /\ handle[t] = "none"
  /\ \/ handle' = [handle EXCEPT ![t] = "running"] /\ UNCHANGED <<at, life>>
     \/ at' = "aborted" /\ life' = "aborted" /\ UNCHANGED handle
  /\ UNCHANGED <<ring, closed, owner, waitFull, waitEmpty, calls>>
  /\ UNCHANGED <<left, tally, result, joined, spurious>>

\* The tail of thread_trampoline: the entry's value is stored in the handle
\* before the thread ends.
Finish(t, total) ==
  /\ result' = [result EXCEPT ![t] = total]
  /\ handle' = [handle EXCEPT ![t] = "exited"]
  /\ UNCHANGED <<vars, at, left, tally, joined, spurious>>

\* Mutation of Join: the result is read without waiting for the thread.
JoinWithoutWait(t) ==
  /\ handle[t] \in {"running", "exited"}
  /\ joined' = [joined EXCEPT ![t] = result[t]]
  /\ handle' = [handle EXCEPT ![t] = "joined"]
  /\ UNCHANGED <<vars, at, left, tally, result, spurious>>

\* fuse_rt_thread_join: wait for the thread, read its result, free the handle.
Join(t) ==
  /\ handle[t] = "exited"
  /\ joined' = [joined EXCEPT ![t] = result[t]]
  /\ handle' = [handle EXCEPT ![t] = "joined"]
  /\ UNCHANGED <<vars, at, left, tally, result, spurious>>

-----------------------------------------------------------------------------
(* The workers' entry functions *)

Running(t) == life = "live" /\ handle[t] = "running" /\ op[t] = "idle"

\* Calls that succeeded, the one just finished included.
Total(t) == tally[t] + IF rc[t] = "OK" THEN 1 ELSE 0

NextCall(t, o, v) ==
  /\ Call(t, o, v)
  /\ tally' = [tally EXCEPT ![t] = Total(t)]
  /\ UNCHANGED <<at, handle, result, joined, spurious>>

Produce(t) ==
  /\ Running(t)
  /\ \/ /\ left[t] > 0 /\ rc[t] # "CLOSED"
        /\ \E v \in Values : NextCall(t, "send", v)
        /\ left' = [left EXCEPT ![t] = @ - 1]
     \/ /\ left[t] = 0 \/ rc[t] = "CLOSED"
        /\ Finish(t, Total(t))

\* A consumer receives until the channel is drained and closed.
Consume(t) ==
  /\ Running(t)
  /\ \/ /\ rc[t] # "CLOSED"
        /\ \E v \in Values : NextCall(t, "recv", v)
        /\ UNCHANGED left
     \/ rc[t] = "CLOSED" /\ Finish(t, Total(t))

-----------------------------------------------------------------------------
(* Main *)

AllJoined(ts) == \A t \in ts : handle[t] = "joined"

MainNew ==
  /\ at = "new"
  /\ New
  /\ at' = "spawn"
  /\ UNCHANGED <<handle, left, tally, result, joined, spurious>>

MainSpawn == \E t \in Workers : Spawn(t)

MainJoinProducers ==
  /\ at = "spawn"
  /\ \A t \in Workers : handle[t] # "none"
  /\ \E t \in Producers : Join(t)

MainClose ==
  /\ at = "spawn"
  /\ AllJoined(Producers)
  /\ \A t \in Workers : handle[t] # "none"
  /\ \E v \in Values : Call(Main, "close", v)
  /\ at' = "closing"
  /\ UNCHANGED <<handle, left, tally, result, joined, spurious>>

MainJoinConsumers ==
  /\ at = "closing" /\ op[Main] = "idle"
  /\ \E t \in Consumers : Join(t)

\* fuse_rt_chan_free does not look whether anybody is inside the channel.
MainFree ==
  /\ at = "closing" /\ op[Main] = "idle"
  /\ AllJoined(Workers)
  /\ life' = "freed"
  /\ at' = "done"
  /\ UNCHANGED <<ring, closed, owner, waitFull, waitEmpty, calls>>
  /\ UNCHANGED <<handle, left, tally, result, joined, spurious>>

-----------------------------------------------------------------------------
(* The steps inside the channel are FuseChan's. *)

InChannel(t) == (Lock(t) \/ Body(t)) /\ UNCHANGED prog

Disturb(t) ==
  /\ spurious < MaxSpurious
  /\ SpuriousWake(t)
  /\ spurious' = spurious + 1
  /\ UNCHANGED <<at, handle, left, tally, result, joined>>

MainStep ==
  MainNew \/ MainSpawn \/ MainJoinProducers \/ MainClose \/ MainJoinConsumers \/ MainFree

WorkerStep(t) == (t \in Producers /\ Produce(t)) \/ (t \in Consumers /\ Consume(t))

SNext ==
  \/ MainStep
  \/ \E t \in Threads : InChannel(t) \/ Disturb(t)
  \/ \E t \in Workers : WorkerStep(t)

\* The operating system runs every runnable thread eventually.  The program
\* makes finitely many calls, so a thread that wants the mutex cannot be
\* overtaken for ever and weak fairness is enough.
Fairness ==
  /\ WF_svars(MainStep)
  /\ \A t \in Threads : WF_svars(InChannel(t))
  /\ \A t \in Workers : WF_svars(WorkerStep(t))

SSpec == SInit /\ [][SNext]_svars /\ Fairness

-----------------------------------------------------------------------------
(* Properties *)

\* The join order of main is what makes the unlocked fuse_rt_chan_free safe:
\* when the channel is freed nobody is inside it, asleep on it or holding its
\* mutex, and no worker is left that could call it again.
FreedIsQuiescent ==
  life = "freed" =>
    /\ \A t \in Threads : op[t] = "idle"
    /\ owner = NoThread /\ waitFull = {} /\ waitEmpty = {}
    /\ AllJoined(Workers)

\* The sum of n over ts: the calls the threads of ts have counted, each call
\* numbered within its thread, and how many they are.
Counted(n, ts) == UNION {{t} \X (1 .. n[t]) : t \in ts}
Sum(n, ts) == Cardinality(Counted(n, ts))
SumJoined(ts) == Sum(joined, ts)

\* Nothing is lost or duplicated between the producers and the consumers, and
\* fuse_rt_thread_join hands back what the entries returned: at the end the
\* results collected by join add up to every element exactly once.
EveryElementDeliveredOnce ==
  at = "done" =>
    /\ SumJoined(Producers) = Quota * Cardinality(Producers)
    /\ SumJoined(Consumers) = SumJoined(Producers)
    /\ count = 0

\* Unless a spawn failed, main gets through its joins: no worker sleeps for
\* ever, although each send and recv wakes a single thread.
ProgramEnds == <>(at \in {"done", "aborted"})
=============================================================================
