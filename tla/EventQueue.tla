-------------------------------- MODULE EventQueue --------------------------------
(***************************************************************************)
(* The event queue of src/picofuse/sys/event: a ring buffer, the lock that *)
(* guards its fields, and the condition variable its consumers sleep on.   *)
(* Each call is a sequence of steps, so calls of different threads         *)
(* interleave wherever the code lets them.                                 *)
(*                                                                         *)
(* Two builds differ in the lock only.  On a host the fields are guarded   *)
(* by queue->mutex, which the condition variable releases too; on Pico     *)
(* (PoolLock) by the critical section all pooled primitives share, so that *)
(* an interrupt handler may push, and queue->mutex serves the condition    *)
(* variable alone.                                                         *)
(***************************************************************************)
EXTENDS Naturals, Sequences

CONSTANTS
    Threads, Events, NoEvent, Capacity,     \* as in EventQueueSpec
    NoThread,                               \* the owner of a free lock
    PoolLock,                               \* TRUE in a Pico build
    Calls                                   \* the calls the threads make

ASSUME CapacityAssumption == Capacity \in Nat \ {0}
ASSUME NoEventAssumption == NoEvent \notin Events /\ NoEvent \notin BOOLEAN
ASSUME NoThreadAssumption == NoThread \notin Threads
ASSUME PoolLockAssumption == PoolLock \in BOOLEAN

AllCalls == {"push", "try_push", "pop", "try_pop", "timed_pop", "peek", "empty", "shutdown"}
ASSUME CallsAssumption == Calls \subseteq AllCalls

\* event.h: where pushes are safe in interrupts, the lock a caller takes to
\* peek "does not exclude a concurrent push/pop", so nothing is promised there.
ASSUME PeekAssumption == PoolLock => "peek" \notin Calls

VARIABLES
    items, head, tail, count, shutdown,     \* struct sys_event_queue_t
    mutex,      \* the owner of queue->mutex
    pool,       \* the owner of the shared critical section
    pc, op, arg,    \* where each thread is, in which call, with which event
    exit,       \* where a thread goes on after releasing the ring
    expired,    \* a timed_pop's deadline has passed
    reply       \* the last answer each thread got

ring == <<items, head, tail, count, shutdown>>
locks == <<mutex, pool>>
vars == <<ring, locks, pc, op, arg, exit, expired, reply>>

Index == 0 .. Capacity - 1
Pushes == {"push", "try_push"}
Pops == {"pop", "try_pop", "timed_pop"}

\* The program counters at which a thread owns the lock of the ring's fields,
\* and those at which it owns queue->mutex for another reason.
RingPcs == {"test", "act", "leave"}
WaitPcs == {"again", "wait", "waiting", "relock", "unwait"}
HandPcs == {"peek", "unpeek", "wait", "unwait"}
MutexPcs == IF PoolLock THEN HandPcs ELSE HandPcs \cup RingPcs
PoolPcs == IF PoolLock THEN RingPcs ELSE {}
Pcs == {"idle", "enter", "broadcast", "again", "waiting", "relock"} \cup RingPcs \cup HandPcs

NoReply == [call |-> "none", value |-> FALSE]

Init ==
    /\ items = [i \in Index |-> NoEvent]
    /\ head = 0 /\ tail = 0 /\ count = 0
    /\ shutdown = FALSE
    /\ mutex = NoThread /\ pool = NoThread
    /\ pc = [t \in Threads |-> "idle"]
    /\ op = [t \in Threads |-> "none"]
    /\ arg = [t \in Threads |-> NoEvent]
    /\ exit = [t \in Threads |-> "idle"]
    /\ expired = [t \in Threads |-> FALSE]
    /\ reply = [t \in Threads |-> NoReply]

-----------------------------------------------------------------------------

Goto(t, place) == pc' = [pc EXCEPT ![t] = place]
Answer(t, value) == reply' = [reply EXCEPT ![t] = [call |-> op[t], value |-> value]]
Then(t, place) == exit' = [exit EXCEPT ![t] = place]

AcquireMutex(t) == mutex = NoThread /\ mutex' = t /\ UNCHANGED pool
ReleaseMutex == mutex' = NoThread /\ UNCHANGED pool

\* _sys_event_queue_lock and _sys_event_queue_unlock.
AcquireRing(t) ==
    IF PoolLock THEN pool = NoThread /\ pool' = t /\ UNCHANGED mutex
                ELSE AcquireMutex(t)
ReleaseRing ==
    IF PoolLock THEN pool' = NoThread /\ UNCHANGED mutex ELSE ReleaseMutex

\* Mutant: the index does not wrap.
NextIndexStraight(i) == i + 1

\* _sys_event_queue_next_index
NextIndex(i) == IF i + 1 = Capacity THEN 0 ELSE i + 1

-----------------------------------------------------------------------------
(* Every call: begin, own the ring's fields, and give them up again. *)

Call(t) ==
    /\ pc[t] = "idle"
    /\ \E o \in Calls, e \in Events \cup {NoEvent} :
         /\ o \in Pushes <=> e # NoEvent
         /\ op' = [op EXCEPT ![t] = o]
         /\ arg' = [arg EXCEPT ![t] = e]
    /\ reply' = [reply EXCEPT ![t] = NoReply]
    /\ expired' = [expired EXCEPT ![t] = FALSE]
    /\ Then(t, "idle") /\ Goto(t, "enter")
    /\ UNCHANGED <<ring, locks>>

\* Mutant: the lock is not taken.
EnterUnlocked(t) ==
    /\ pc[t] = "enter"
    /\ op[t] # "peek"
    /\ Goto(t, "test")
    /\ UNCHANGED <<ring, locks, op, arg, exit, expired, reply>>

Enter(t) ==
    /\ pc[t] = "enter"
    /\ op[t] # "peek"
    /\ AcquireRing(t)
    /\ Goto(t, "test")
    /\ UNCHANGED <<ring, op, arg, exit, expired, reply>>

Leave(t) ==
    /\ pc[t] = "leave"
    /\ ReleaseRing
    /\ Goto(t, exit[t])
    /\ UNCHANGED <<ring, op, arg, exit, expired, reply>>

\* sys_cond_broadcast(queue->not_empty), after the ring has been released.
Broadcast(t) ==
    /\ pc[t] = "broadcast"
    /\ pc' = [u \in Threads |-> IF u = t THEN "idle"
                                ELSE IF pc[u] = "waiting" THEN "relock" ELSE pc[u]]
    /\ UNCHANGED <<ring, locks, op, arg, exit, expired, reply>>

-----------------------------------------------------------------------------
(* The bodies: what each call does while it owns the ring's fields. *)

\* A push that is refused goes straight back to its caller.
RefusesPush(t) ==
    \/ op[t] = "push" /\ shutdown
    \/ op[t] = "try_push" /\ (shutdown \/ count = Capacity)

PushTest(t) ==
    /\ pc[t] = "test"
    /\ op[t] \in Pushes
    /\ IF RefusesPush(t)
         THEN Answer(t, FALSE) /\ Then(t, "idle") /\ Goto(t, "leave")
         ELSE Goto(t, "act") /\ UNCHANGED <<exit, reply>>
    /\ UNCHANGED <<ring, locks, op, arg, expired>>

\* Mutant: the overwritten event is not dropped.
PushActKeeping(t) ==
    /\ pc[t] = "act"
    /\ op[t] = "push"
    /\ items' = [items EXCEPT ![head] = arg[t]]
    /\ head' = NextIndex(head)
    /\ count' = IF count = Capacity THEN count ELSE count + 1
    /\ Answer(t, TRUE) /\ Then(t, "broadcast") /\ Goto(t, "leave")
    /\ UNCHANGED <<tail, shutdown, locks, op, arg, expired>>

PushAct(t) ==
    /\ pc[t] = "act"
    /\ op[t] = "push"
    /\ items' = [items EXCEPT ![head] = arg[t]]
    /\ head' = NextIndex(head)
    /\ IF count = Capacity
         THEN tail' = NextIndex(head) /\ UNCHANGED count
         ELSE count' = count + 1 /\ UNCHANGED tail
    /\ Answer(t, TRUE) /\ Then(t, "broadcast") /\ Goto(t, "leave")
    /\ UNCHANGED <<shutdown, locks, op, arg, expired>>

TryPushAct(t) ==
    /\ pc[t] = "act"
    /\ op[t] = "try_push"
    /\ items' = [items EXCEPT ![head] = arg[t]]
    /\ head' = NextIndex(head)
    /\ count' = count + 1
    /\ Answer(t, TRUE) /\ Then(t, "broadcast") /\ Goto(t, "leave")
    /\ UNCHANGED <<tail, shutdown, locks, op, arg, expired>>

\* Mutant: pop gives up on an empty queue that is not shut down.
PopTestImpatient(t) ==
    /\ pc[t] = "test"
    /\ op[t] \in Pops
    /\ IF count > 0
         THEN Goto(t, "act") /\ UNCHANGED <<exit, reply>>
         ELSE Answer(t, NoEvent) /\ Then(t, "idle") /\ Goto(t, "leave")
    /\ UNCHANGED <<ring, locks, op, arg, expired>>

\* Mutant: a consumer does not look at the shutdown.
PopTestDeaf(t) ==
    /\ pc[t] = "test"
    /\ op[t] \in Pops
    /\ IF count > 0
         THEN Goto(t, "act") /\ UNCHANGED exit
         ELSE Then(t, "again") /\ Goto(t, "leave")
    /\ UNCHANGED <<ring, locks, op, arg, expired, reply>>

\* An empty queue ends try_pop, and the others too once it is shut down.
PopTest(t) ==
    /\ pc[t] = "test"
    /\ op[t] \in Pops
    /\ \/ /\ count > 0
          /\ Goto(t, "act")
          /\ UNCHANGED <<exit, reply>>
       \/ /\ count = 0
          /\ shutdown \/ op[t] = "try_pop"
          /\ Answer(t, NoEvent) /\ Then(t, "idle") /\ Goto(t, "leave")
       \/ /\ count = 0
          /\ ~shutdown /\ op[t] # "try_pop"
          /\ Then(t, "again") /\ Goto(t, "leave")
          /\ UNCHANGED reply
    /\ UNCHANGED <<ring, locks, op, arg, expired>>

\* _sys_event_queue_pop_locked
PopAct(t) ==
    /\ pc[t] = "act"
    /\ op[t] \in Pops
    /\ Answer(t, items[tail])
    /\ items' = [items EXCEPT ![tail] = NoEvent]
    /\ tail' = NextIndex(tail)
    /\ count' = count - 1
    /\ Then(t, "idle") /\ Goto(t, "leave")
    /\ UNCHANGED <<head, shutdown, locks, op, arg, expired>>

EmptyTest(t) ==
    /\ pc[t] = "test"
    /\ op[t] = "empty"
    /\ Answer(t, count = 0) /\ Then(t, "idle") /\ Goto(t, "leave")
    /\ UNCHANGED <<ring, locks, op, arg, expired>>

ShutdownAct(t) ==
    /\ pc[t] = "test"
    /\ op[t] = "shutdown"
    /\ shutdown' = TRUE
    /\ Answer(t, TRUE) /\ Then(t, "broadcast") /\ Goto(t, "leave")
    /\ UNCHANGED <<items, head, tail, count, locks, op, arg, expired>>

-----------------------------------------------------------------------------
(* Waiting.  The ring is released between the test that found it empty and *)
(* the wait, so a push may broadcast in between and its wake-up be missed. *)

\* timed_pop past its deadline.
GiveUp(t) ==
    /\ pc[t] = "again"
    /\ op[t] = "timed_pop" /\ expired[t]
    /\ Answer(t, NoEvent)
    /\ Goto(t, "idle")
    /\ UNCHANGED <<ring, locks, op, arg, exit, expired>>

LockToWait(t) ==
    /\ pc[t] = "again"
    /\ op[t] = "timed_pop" => ~expired[t]
    /\ AcquireMutex(t)
    /\ Goto(t, "wait")
    /\ UNCHANGED <<ring, op, arg, exit, expired, reply>>

\* sys_cond_timedwait: join the waiters and release the mutex in one step.
Wait(t) ==
    /\ pc[t] = "wait"
    /\ ReleaseMutex
    /\ Goto(t, "waiting")
    /\ UNCHANGED <<ring, op, arg, exit, expired, reply>>

\* Mutant: pop waits without a timeout.
TimeOutOfTimedPop(t) ==
    /\ pc[t] = "waiting"
    /\ op[t] = "timed_pop" /\ expired[t]
    /\ Goto(t, "relock")
    /\ UNCHANGED <<ring, locks, op, arg, exit, expired, reply>>

\* pop sleeps _SYS_EVENT_QUEUE_POP_POLL_MS at most, timed_pop what remains of
\* its timeout.
TimeOut(t) ==
    /\ pc[t] = "waiting"
    /\ op[t] = "timed_pop" => expired[t]
    /\ Goto(t, "relock")
    /\ UNCHANGED <<ring, locks, op, arg, exit, expired, reply>>

Relock(t) ==
    /\ pc[t] = "relock"
    /\ AcquireMutex(t)
    /\ Goto(t, "unwait")
    /\ UNCHANGED <<ring, op, arg, exit, expired, reply>>

Unwait(t) ==
    /\ pc[t] = "unwait"
    /\ ReleaseMutex
    /\ Goto(t, "enter")
    /\ UNCHANGED <<ring, op, arg, exit, expired, reply>>

\* Time passes.
Expire(t) ==
    /\ pc[t] # "idle"
    /\ op[t] = "timed_pop" /\ ~expired[t]
    /\ expired' = [expired EXCEPT ![t] = TRUE]
    /\ UNCHANGED <<ring, locks, pc, op, arg, exit, reply>>

-----------------------------------------------------------------------------
(* Inspection: sys_event_queue_lock, sys_event_queue_peek and              *)
(* sys_event_queue_unlock, in this order.                                  *)

LockToPeek(t) ==
    /\ pc[t] = "enter"
    /\ op[t] = "peek"
    /\ AcquireMutex(t)
    /\ Goto(t, "peek")
    /\ UNCHANGED <<ring, op, arg, exit, expired, reply>>

Peek(t) ==
    /\ pc[t] = "peek"
    /\ Answer(t, IF count = 0 THEN NoEvent ELSE items[tail])
    /\ Goto(t, "unpeek")
    /\ UNCHANGED <<ring, locks, op, arg, exit, expired>>

UnlockPeek(t) ==
    /\ pc[t] = "unpeek"
    /\ ReleaseMutex
    /\ Goto(t, "idle")
    /\ UNCHANGED <<ring, op, arg, exit, expired, reply>>

-----------------------------------------------------------------------------

\* The steps that wait for a lock, and the others of a call under way.
Locking(t) == Enter(t) \/ LockToWait(t) \/ Relock(t) \/ LockToPeek(t)
Working(t) ==
    \/ Leave(t) \/ Broadcast(t)
    \/ PushTest(t) \/ PushAct(t) \/ TryPushAct(t)
    \/ PopTest(t) \/ PopAct(t) \/ EmptyTest(t) \/ ShutdownAct(t)
    \/ GiveUp(t) \/ Wait(t) \/ TimeOut(t) \/ Unwait(t)
    \/ Peek(t) \/ UnlockPeek(t)

Next == \E t \in Threads : Call(t) \/ Locking(t) \/ Working(t) \/ Expire(t)

Spec == Init /\ [][Next]_vars

\* A thread inside a call keeps running, time passes, and the locks do not
\* starve a thread that keeps asking.  No thread has to make a call.
Fairness ==
    \A t \in Threads :
        /\ WF_vars(Expire(t))
        /\ SF_vars(Locking(t) \/ Working(t))

FairSpec == Spec /\ Fairness

-----------------------------------------------------------------------------
(* Properties. *)

TypeOK ==
    /\ items \in [Index -> Events \cup {NoEvent}]
    /\ head \in Index /\ tail \in Index /\ count \in 0 .. Capacity
    /\ shutdown \in BOOLEAN
    /\ mutex \in Threads \cup {NoThread} /\ pool \in Threads \cup {NoThread}
    /\ pc \in [Threads -> Pcs]
    /\ op \in [Threads -> AllCalls \cup {"none"}]
    /\ arg \in [Threads -> Events \cup {NoEvent}]
    /\ exit \in [Threads -> {"idle", "broadcast", "again"}]
    /\ expired \in [Threads -> BOOLEAN]
    /\ reply \in [Threads -> [call : AllCalls \cup {"none"},
                              value : Events \cup {NoEvent} \cup BOOLEAN]]

\* The slot k places after slot i, and after the tail.
Place(i, k) == IF i + k < Capacity THEN i + k ELSE i + k - Capacity
Slot(k) == Place(tail, k)

\* A thread owns a lock exactly at the program counters between taking and
\* releasing it, so the ring's fields and the inspection exclude each other.
LockInv ==
    \A t \in Threads : /\ mutex = t <=> pc[t] \in MutexPcs
                       /\ pool = t <=> pc[t] \in PoolPcs

\* The ring's three cursors agree, although an overwriting push moves the tail
\* by assigning it the new head and a pop moves it by itself: the head is count
\* places after the tail, the slots between hold events, all others are NULL.
RingInv ==
    /\ head = Slot(count)
    /\ \A k \in Index : items[Slot(k)] # NoEvent <=> k < count

\* What a test found while its thread owned the ring still holds when the
\* thread acts on it: a try_push never writes over an event, a pop never reads
\* an empty slot, and no event enters a queue that is shut down.
ActInv ==
    \A t \in Threads : pc[t] = "act" =>
        \/ op[t] = "push" /\ ~shutdown
        \/ op[t] = "try_push" /\ ~shutdown /\ count < Capacity
        \/ op[t] \in Pops /\ count > 0

\* Where a call still owes its answer.
Unanswered(t) ==
    \/ pc[t] \in WaitPcs \cup {"enter", "test", "act", "peek"}
    \/ pc[t] = "leave" /\ exit[t] = "again"

\* A call is answered once, whichever way it takes, and only a consumer waits.
CallInv ==
    \A t \in Threads :
        /\ pc[t] # "idle" => op[t] # "none"
        /\ op[t] \in Pushes => arg[t] \in Events
        /\ pc[t] \in WaitPcs \/ (pc[t] = "leave" /\ exit[t] = "again")
             => op[t] \in {"pop", "timed_pop"}
        /\ pc[t] \in {"peek", "unpeek"} => op[t] = "peek"
        /\ Unanswered(t) => reply[t] = NoReply

\* The abstract queue this ring stands for: the events from tail on.
Contents == [k \in 1 .. count |-> items[Slot(k - 1)]]
Queue == INSTANCE EventQueueSpec WITH pending <- Contents, closed <- shutdown

\* Every call takes effect at one instant, as event.h says it does: first in
\* first out, nothing lost but by an overwriting push, nothing delivered
\* twice, NULL from pop only if shut down and drained.
Implements == Queue!Spec

InPop(t) == pc[t] # "idle" /\ op[t] \in {"pop", "timed_pop"}

\* A consumer asleep in pop() is not stranded by a wake-up it missed: while
\* there is an event in the queue, the consumer gets through.
NotStranded ==
    \A t \in Threads : InPop(t) /\ count > 0 ~> pc[t] = "idle" \/ count = 0

\* "Prevent future pushes and wake blocked consumers": after a shutdown every
\* consumer returns.
ShutdownReleases ==
    \A t \in Threads : InPop(t) /\ shutdown ~> pc[t] = "idle"
=============================================================================
