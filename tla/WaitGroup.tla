-------------------------------- MODULE WaitGroup --------------------------------
(***************************************************************************)
(* Wait groups: src/picofuse/sys/pthread/waitgroup.c, where waiters sleep  *)
(* on a condition variable and look at the counter again when woken, and   *)
(* src/picofuse/sys/pico/waitgroup.c (permits), where they take a permit   *)
(* of a semaphore and do not look again.                                   *)
(*                                                                         *)
(* The owner adds to the counter before it starts as many workers; each    *)
(* worker calls sys_waitgroup_done once; any thread waits, the owner among *)
(* them; the owner may start another round, or deinitialise the group.     *)
(* What a call does under the group's mutex is one step.                   *)
(***************************************************************************)
EXTENDS Integers, FiniteSets

CONSTANTS
    Threads, Owner, \* the threads that wait; the one that adds and deinitialises
    Builds,         \* a subset of {"pthread", "pico"}
    Settled,        \* the owner adds only when nobody is in a wait
    IntMax, Deltas, \* INT_MAX; what is added at a time
    Groups          \* how many groups use the pool slot, one after another

VARIABLES
    permits,    \* TRUE in a Pico build
    counter, waiters, init, \* the fields of sys_waitgroup_t
    sem,        \* permits of wg->sem
    working,    \* calls of sys_waitgroup_done the workers have still to make
    pc,         \* where each thread is
    sawZero,    \* the counter was 0 at some time in the thread's wait
    group, mine \* the group in the slot; the group each thread waits for

fields == <<counter, waiters, init, sem>>
owners == <<group, mine, permits>>
vars == <<fields, working, pc, sawZero, owners>>

Init ==
    /\ \E build \in Builds : permits = (build = "pico")
    /\ counter = 0 /\ waiters = 0 /\ init = TRUE /\ sem = 0
    /\ working = 0
    /\ pc = [t \in Threads |-> "idle"]
    /\ sawZero = [t \in Threads |-> TRUE]
    /\ group = 1 /\ mine = [t \in Threads |-> 1]

Goto(t, place) == pc' = [pc EXCEPT ![t] = place]

\* In a wait, from its first step to its last.
Inside == {t \in Threads : pc[t] \in {"blocked", "woken"}}

\* Wake everyone who waits: a permit for each, or a broadcast; the waits under
\* way have seen the counter at 0.
WakeAll ==
    /\ IF permits
         THEN sem' = sem + waiters /\ UNCHANGED pc
         ELSE /\ pc' = [t \in Threads |-> IF pc[t] = "blocked" THEN "woken" ELSE pc[t]]
              /\ UNCHANGED sem
    /\ sawZero' = [t \in Threads |-> TRUE]

-----------------------------------------------------------------------------

\* Mutant: the overflow is not looked at.
AddUnbounded ==
    /\ pc[Owner] = "idle" /\ init
    /\ Settled => Inside = {}
    /\ \E d \in Deltas : counter' = counter + d /\ working' = working + d
    /\ UNCHANGED <<waiters, init, sem, pc, sawZero, owners>>

\* sys_waitgroup_add by the owner, and the start of as many workers.
Add ==
    /\ pc[Owner] = "idle" /\ init
    /\ Settled => Inside = {}
    /\ \E d \in Deltas :
         IF counter > IntMax - d
           THEN UNCHANGED <<counter, working>>
           ELSE counter' = counter + d /\ working' = working + d
    /\ UNCHANGED <<waiters, init, sem, pc, sawZero, owners>>

\* Mutants: the waiters are woken when one worker is left, too; never at all.
DoneWakingEarly ==
    /\ working > 0
    /\ working' = working - 1
    /\ counter' = counter - 1
    /\ IF counter <= 2 THEN WakeAll ELSE UNCHANGED <<sem, pc, sawZero>>
    /\ UNCHANGED <<waiters, init, owners>>
DoneQuietly ==
    /\ working > 0
    /\ working' = working - 1
    /\ counter' = counter - 1
    /\ UNCHANGED <<waiters, init, sem, pc, sawZero, owners>>

\* sys_waitgroup_done
Done ==
    /\ working > 0
    /\ working' = working - 1
    /\ IF init /\ counter > 0
         THEN /\ counter' = counter - 1
              /\ IF counter = 1 THEN WakeAll ELSE UNCHANGED <<sem, pc, sawZero>>
         ELSE UNCHANGED <<counter, sem, pc, sawZero>>
    /\ UNCHANGED <<waiters, init, owners>>

\* sys_waitgroup_wait: its first section, which returns at once in a pthread
\* build if the counter is 0.
Wait(t) ==
    /\ pc[t] = "idle"
    /\ init /\ pc[Owner] # "drain"
    /\ sawZero' = [sawZero EXCEPT ![t] = counter = 0]
    /\ mine' = [mine EXCEPT ![t] = group]
    /\ IF counter > 0 \/ permits
         THEN /\ waiters' = waiters + 1
              /\ Goto(t, IF counter > 0 THEN "blocked" ELSE "woken")
         ELSE UNCHANGED <<waiters, pc>>
    /\ UNCHANGED <<counter, init, sem, working, group, permits>>

\* sem_acquire_blocking
Acquire(t) ==
    /\ permits
    /\ pc[t] = "blocked"
    /\ sem > 0
    /\ sem' = sem - 1
    /\ Goto(t, "woken")
    /\ UNCHANGED <<counter, waiters, init, working, sawZero, owners>>

\* The last section of a wait, or another turn of its loop.
Return(t) ==
    /\ pc[t] = "woken"
    /\ IF permits \/ counter = 0
         THEN waiters' = waiters - 1 /\ Goto(t, "idle")
         ELSE Goto(t, "blocked") /\ UNCHANGED waiters
    /\ UNCHANGED <<counter, init, sem, working, sawZero, owners>>

-----------------------------------------------------------------------------
(* sys_waitgroup_deinit and sys_waitgroup_init. *)

\* Force the counter to 0 and wake the waiters; workers that have not called
\* sys_waitgroup_done by now never do.
Deinit ==
    /\ pc[Owner] = "idle"
    /\ init
    /\ counter' = 0 /\ working' = 0
    /\ sawZero' = [t \in Threads |-> TRUE]
    /\ IF permits
         THEN sem' = sem + waiters /\ Goto(Owner, "drain")
         ELSE /\ pc' = [t \in Threads |-> IF t = Owner THEN "drain"
                          ELSE IF pc[t] = "blocked" THEN "woken" ELSE pc[t]]
              /\ UNCHANGED sem
    /\ UNCHANGED <<waiters, init, owners>>

\* Mutant: a Pico build does not wait for the last waiter to leave.
ResetAtOnce ==
    /\ pc[Owner] = "drain"
    /\ counter' = 0 /\ waiters' = 0 /\ init' = FALSE
    /\ sem' = 0
    /\ Goto(Owner, "idle")
    /\ UNCHANGED <<working, sawZero, owners>>

\* A Pico build waits for the last waiter to leave.
Reset ==
    /\ pc[Owner] = "drain"
    /\ permits => waiters = 0
    /\ counter' = 0 /\ waiters' = 0 /\ init' = FALSE
    /\ sem' = 0
    /\ Goto(Owner, "idle")
    /\ UNCHANGED <<working, sawZero, owners>>

\* The pool hands the slot out again.
Reinit ==
    /\ ~init
    /\ group < Groups
    /\ counter' = 0 /\ waiters' = 0 /\ init' = TRUE
    /\ sem' = 0
    /\ group' = group + 1
    /\ UNCHANGED <<working, pc, sawZero, mine, permits>>

-----------------------------------------------------------------------------

\* Every group is gone and every wait has returned.
Finished == ~init /\ group = Groups /\ Inside = {} /\ UNCHANGED vars

Next ==
    \/ Add \/ Done \/ Deinit \/ Reset \/ Reinit \/ Finished
    \/ \E t \in Threads : Wait(t) \/ Acquire(t) \/ Return(t)

Spec == Init /\ [][Next]_vars

\* Workers finish, and a thread that can go on does.
Fairness ==
    /\ WF_vars(Done) /\ WF_vars(Reset)
    /\ \A t \in Threads : WF_vars(Acquire(t) \/ Return(t))

FairSpec == Spec /\ Fairness

-----------------------------------------------------------------------------
(* Properties. *)

TypeOK ==
    /\ counter \in 0 .. IntMax /\ init \in BOOLEAN
    /\ waiters \in Int /\ (permits => waiters >= 0)
    /\ sem \in Nat /\ working \in 0 .. IntMax
    /\ pc \in [Threads -> {"idle", "blocked", "woken", "drain"}]
    /\ sawZero \in [Threads -> BOOLEAN]
    /\ permits \in BOOLEAN /\ group \in 1 .. Groups /\ mine \in [Threads -> 1 .. Groups]

\* "Blocks until the wait group counter reaches 0, then returns": a wait that
\* is about to return has seen the counter at 0.
ReturnsAtZero ==
    \A t \in Threads : pc[t] = "woken" /\ permits => sawZero[t]

\* A thread asleep in a wait waits for the group that is in the slot, not for
\* an earlier one that has been deinitialised.
StragglersLeave ==
    \A t \in Threads : pc[t] = "blocked" => init /\ mine[t] = group

Engaged(t) == pc[t] # "idle"

\* "All of them are released once the counter reaches 0", and also by
\* sys_waitgroup_deinit.
AllReleased == \A t \in Threads : Engaged(t) ~> ~Engaged(t)
-----------------------------------------------------------------------------
(* The inductive invariant. *)

Blocked == {t \in Threads : pc[t] = "blocked"}

\* The counter counts the workers; it is 0 once there is no group, or the
\* owner, which alone deinitialises it, is doing so.
CounterInv ==
    /\ counter = working
    /\ \A t \in Threads : pc[t] = "drain" => t = Owner /\ init
    /\ ~init \/ pc[Owner] = "drain" => counter = 0

\* Whoever is in a wait is blocked while workers are left, and when none is
\* left has seen it; in a pthread build it has been woken by then.
WaitsInv ==
    /\ counter > 0 => Inside = Blocked
    /\ counter = 0 => \A t \in Inside : sawZero[t]
    /\ counter = 0 /\ ~permits => Blocked = {}

\* A Pico build counts who is in a wait, and has a permit for each that is
\* blocked from the moment the counter reaches 0 and not before.
PermitsInv ==
    permits =>
        /\ waiters = Cardinality(Inside)
        /\ ~init => Inside = {}
        /\ pc[Owner] # "drain" => sem = IF counter > 0 THEN 0 ELSE Cardinality(Blocked)

IInv == TypeOK /\ CounterInv /\ WaitsInv /\ PermitsInv /\ ReturnsAtZero /\ StragglersLeave
=============================================================================
