------------------------------ MODULE EventQueueSpec ------------------------------
(***************************************************************************)
(* What include/picofuse/sys/event.h promises of an event queue: a bounded *)
(* first-in first-out sequence that any thread may use, each call taking   *)
(* effect at one instant.  EventQueue, the ring buffer with its lock and   *)
(* its condition variable, is shown to implement this module; RunLoop      *)
(* takes its queues to behave like this.                                   *)
(***************************************************************************)
EXTENDS Naturals, Sequences

CONSTANTS
    Threads,    \* the threads that call the queue
    Events,     \* the payloads, sys_event_t other than NULL
    NoEvent,    \* NULL: "an empty queue, timeout, or shutdown"
    Capacity    \* the capacity given to sys_event_queue_init

VARIABLES
    pending,    \* the queued events, oldest first
    closed,     \* sys_event_queue_shutdown has taken effect
    reply       \* reply[t]: the answer to thread t's last call, once it has one

vars == <<pending, closed, reply>>

-----------------------------------------------------------------------------
\* Appending when there is room, else dropping the oldest entry first.
Overwriting(q, e) == Append(IF Len(q) < Capacity THEN q ELSE Tail(q), e)

HasRoom(q) == Len(q) < Capacity

-----------------------------------------------------------------------------

\* One answer to a call.
Answer(t, call, value) ==
    /\ reply[t].call = "none"
    /\ reply' = [reply EXCEPT ![t] = [call |-> call, value |-> value]]

NoReply == [call |-> "none", value |-> FALSE]

Init ==
    /\ pending = <<>>
    /\ closed = FALSE
    /\ reply = [t \in Threads |-> NoReply]

\* A thread makes a call; its answer is still to come.
Begin(t) ==
    /\ reply' = [reply EXCEPT ![t] = NoReply]
    /\ UNCHANGED <<pending, closed>>

\* "Push an event, overwriting the oldest entry if the queue is full."
Push(t) ==
    /\ ~closed
    /\ \E e \in Events : pending' = Overwriting(pending, e)
    /\ Answer(t, "push", TRUE)
    /\ UNCHANGED closed

RefusePush(t) ==
    /\ closed
    /\ Answer(t, "push", FALSE)
    /\ UNCHANGED <<pending, closed>>

\* "Try to push an event without overwriting."
TryPush(t) ==
    /\ ~closed
    /\ HasRoom(pending)
    /\ \E e \in Events : pending' = Append(pending, e)
    /\ Answer(t, "try_push", TRUE)
    /\ UNCHANGED closed

RefuseTryPush(t) ==
    /\ closed \/ ~HasRoom(pending)
    /\ Answer(t, "try_push", FALSE)
    /\ UNCHANGED <<pending, closed>>

\* Every kind of pop hands out the oldest event and removes it.
Pop(t) ==
    /\ pending # <<>>
    /\ \E call \in {"pop", "try_pop", "timed_pop"} : Answer(t, call, Head(pending))
    /\ pending' = Tail(pending)
    /\ UNCHANGED closed

\* The blocking pop answers NULL only "if the queue is shut down and drained".
PopDrained(t) ==
    /\ pending = <<>>
    /\ closed
    /\ Answer(t, "pop", NoEvent)
    /\ UNCHANGED <<pending, closed>>

\* try_pop answers NULL "if empty".
TryPopEmpty(t) ==
    /\ pending = <<>>
    /\ Answer(t, "try_pop", NoEvent)
    /\ UNCHANGED <<pending, closed>>

\* timed_pop answers NULL "on timeout, invalid queue, or shutdown".
TimedPopNothing(t) ==
    /\ Answer(t, "timed_pop", NoEvent)
    /\ UNCHANGED <<pending, closed>>

\* "Peek at the next queued event without removing it."
Peek(t) ==
    /\ Answer(t, "peek", IF pending = <<>> THEN NoEvent ELSE Head(pending))
    /\ UNCHANGED <<pending, closed>>

\* "Report whether a queue is empty": a snapshot.
Empty(t) ==
    /\ Answer(t, "empty", pending = <<>>)
    /\ UNCHANGED <<pending, closed>>

\* "Prevent future pushes and wake blocked consumers."
Shutdown(t) ==
    /\ closed' = TRUE
    /\ Answer(t, "shutdown", TRUE)
    /\ UNCHANGED pending

Next ==
    \E t \in Threads :
        \/ Begin(t)
        \/ Push(t) \/ RefusePush(t) \/ TryPush(t) \/ RefuseTryPush(t)
        \/ Pop(t) \/ PopDrained(t) \/ TryPopEmpty(t) \/ TimedPopNothing(t)
        \/ Peek(t) \/ Empty(t) \/ Shutdown(t)

Spec == Init /\ [][Next]_vars
=============================================================================
