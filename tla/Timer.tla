----------------------------------- MODULE Timer -----------------------------------
(***************************************************************************)
(* The timers of src/picofuse/sys/linux/timer.c and                        *)
(* src/picofuse/sys/pico/timer.c: a pool of slots under one lock, a kernel *)
(* timer or an alarm for every timer that is started, and the contexts in  *)
(* which callbacks run - a notification thread for every expiry on Linux,  *)
(* the interrupt of an alarm on Pico.                                      *)
(*                                                                         *)
(* Every slot holds one timer after another; <<s, g>> is the g-th timer of *)
(* slot s.  A periodic timer is deinitialised by the thread that made it,  *)
(* a one-shot timer by its own callback, as timer.h describes.             *)
(***************************************************************************)
EXTENDS Naturals

CONSTANTS
    Users,      \* threads that make timers
    Contexts,   \* notification threads, or cores that take an alarm interrupt
    Slots,      \* of _sys_timer_pool
    MaxTimers,  \* bound: timers a slot holds, one after another
    Builds,     \* a subset of {"linux", "pico"}
    Prompt      \* an alarm interrupt is in its first section before its slot holds
                \* another timer, deinitialised and initialised by the other core

Threads == Users \cup Contexts

VARIABLES
    build,                          \* which of the two this is
    init, running, active, owner,   \* fields of sys_timer_t; owner is callback_thread
    oneShot,                        \* the callback deinitialises its timer
    made,                           \* the timers each slot has held so far
    armed,                          \* the timers the kernel, or an alarm pool, will expire
    pc, slot,                       \* where each thread is, with which slot
    timer,                          \* which timer of the slot: a user's own; the one that
                                    \* expired; from "callback" on the one called back
    inside, doomed,                 \* in_callback and timer_id of sys_timer_deinit
    retired                         \* the timers whose sys_timer_deinit has returned to a user

pool == <<init, running, active, owner, oneShot, made>>
vars == <<build, pool, armed, pc, slot, timer, inside, doomed, retired>>

Pico == build = "pico"

\* In the callback, deinitialising a timer from it among others.
Deiniting == {"stop", "delete", "wait", "finish"}
CallbackPcs == {"callback", "leave"} \cup Deiniting

Init ==
    /\ build \in Builds
    /\ init = [s \in Slots |-> FALSE]
    /\ running = [s \in Slots |-> FALSE]
    /\ active = [s \in Slots |-> FALSE]
    /\ owner \in [Slots -> Contexts]
    /\ oneShot = [s \in Slots |-> FALSE]
    /\ made = [s \in Slots |-> 0]
    /\ armed = {}
    /\ pc = [t \in Threads |-> "idle"]
    /\ slot \in [Threads -> Slots]
    /\ timer = [t \in Threads |-> 0]
    /\ inside = [t \in Threads |-> FALSE]
    /\ doomed = [t \in Threads |-> FALSE]
    /\ retired = {}

Goto(t, place) == pc' = [pc EXCEPT ![t] = place]

-----------------------------------------------------------------------------
(* sys_timer_init and sys_timer_start. *)

\* Mutant: a slot is taken whose last callback is still running.
FreeIfUninitialised(s) == ~init[s]

Free(s) == ~init[s] /\ ~active[s]

InitTimer(u) ==
    /\ pc[u] = "idle"
    /\ \E s \in Slots, once \in BOOLEAN :
         /\ Free(s)
         /\ made[s] < MaxTimers
         /\ Pico /\ Prompt => \A n \in Contexts : pc[n] = "enter" => slot[n] # s
         /\ init' = [init EXCEPT ![s] = TRUE]
         /\ running' = [running EXCEPT ![s] = FALSE]
         /\ active' = [active EXCEPT ![s] = FALSE]
         /\ oneShot' = [oneShot EXCEPT ![s] = once]
         /\ made' = [made EXCEPT ![s] = @ + 1]
         /\ slot' = [slot EXCEPT ![u] = s]
         /\ timer' = [timer EXCEPT ![u] = made[s] + 1]
    /\ Goto(u, "made")
    /\ UNCHANGED <<build, owner, armed, inside, doomed, retired>>

\* On Linux one section under the lock, on Pico the alarm is added after it.  A
\* start that fails there leaves the timer as it was made, which is no step.
Start(u) ==
    /\ pc[u] = "made"
    /\ running' = [running EXCEPT ![slot[u]] = TRUE]
    /\ IF Pico
         THEN Goto(u, "arm") /\ UNCHANGED armed
         ELSE /\ armed' = armed \cup {<<slot[u], timer[u]>>}
              /\ Goto(u, IF oneShot[slot[u]] THEN "idle" ELSE "started")
    /\ UNCHANGED <<build, init, active, owner, oneShot, made, slot, timer, inside, doomed, retired>>

\* alarm_pool_add_repeating_timer_ms, which may find no room for the alarm.
Arm(u) ==
    /\ pc[u] = "arm"
    /\ \/ /\ armed' = armed \cup {<<slot[u], timer[u]>>}
          /\ Goto(u, IF oneShot[slot[u]] THEN "idle" ELSE "started")
          /\ UNCHANGED running
       \/ /\ running' = [running EXCEPT ![slot[u]] = FALSE]
          /\ Goto(u, "made")
          /\ UNCHANGED armed
    /\ UNCHANGED <<build, init, active, owner, oneShot, made, slot, timer, inside, doomed, retired>>

-----------------------------------------------------------------------------
(* sys_timer_deinit *)

\* Mutant: a callback does not know itself.
BeginDeinitBlind(t) ==
    /\ \/ t \in Users /\ pc[t] \in {"made", "started"}
       \/ t \in Contexts /\ pc[t] = "callback" /\ oneShot[slot[t]]
    /\ inside' = [inside EXCEPT ![t] = FALSE]
    /\ Goto(t, "stop")
    /\ UNCHANGED <<build, pool, armed, slot, timer, doomed, retired>>

\* By a user, who may not even have started the timer, or by the callback.
BeginDeinit(t) ==
    /\ \/ t \in Users /\ pc[t] \in {"made", "started"}
       \/ t \in Contexts /\ pc[t] = "callback" /\ oneShot[slot[t]]
    /\ inside' = [inside EXCEPT ![t] = active[slot[t]] /\ owner[slot[t]] = t]
    /\ Goto(t, "stop")
    /\ UNCHANGED <<build, pool, armed, slot, timer, doomed, retired>>

\* Mutant: the timer is marked as stopped before its id is looked up.
StopFirst(t) ==
    /\ pc[t] = "stop"
    /\ running' = [running EXCEPT ![slot[t]] = FALSE]
    /\ doomed' = [doomed EXCEPT ![t] = FALSE]
    /\ init' = [init EXCEPT ![slot[t]] = Pico]
    /\ Goto(t, "delete")
    /\ UNCHANGED <<build, active, owner, oneShot, made, armed, slot, timer, inside, retired>>

\* No callback begins from here on.  Linux gives the slot back at once.
Stop(t) ==
    /\ pc[t] = "stop"
    /\ doomed' = [doomed EXCEPT ![t] = running[slot[t]]]
    /\ running' = [running EXCEPT ![slot[t]] = FALSE]
    /\ init' = [init EXCEPT ![slot[t]] = Pico]
    /\ Goto(t, "delete")
    /\ UNCHANGED <<build, active, owner, oneShot, made, armed, slot, timer, inside, retired>>

\* timer_delete, cancel_repeating_timer
Delete(t) ==
    /\ pc[t] = "delete"
    /\ armed' = IF doomed[t] THEN armed \ {<<slot[t], timer[t]>>} ELSE armed
    /\ Goto(t, "wait")
    /\ UNCHANGED <<build, pool, slot, timer, inside, doomed, retired>>

\* Mutant: nobody waits for a callback that is still running.
WaitNot(t) ==
    /\ pc[t] = "wait"
    /\ Goto(t, "finish")
    /\ UNCHANGED <<build, pool, armed, slot, timer, inside, doomed, retired>>

\* _sys_timer_wait_for_callback, unless this is the callback.
Wait(t) ==
    /\ pc[t] = "wait"
    /\ inside[t] \/ ~active[slot[t]]
    /\ Goto(t, "finish")
    /\ UNCHANGED <<build, pool, armed, slot, timer, inside, doomed, retired>>

\* Pico gives the slot back only now.
Finish(t) ==
    /\ pc[t] = "finish"
    /\ IF Pico
         THEN /\ init' = [init EXCEPT ![slot[t]] = FALSE]
              /\ active' = [active EXCEPT ![slot[t]] = @ /\ inside[t]]
         ELSE UNCHANGED <<init, active>>
    /\ Goto(t, IF t \in Users THEN "idle" ELSE "leave")
    /\ retired' = IF t \in Users THEN retired \cup {<<slot[t], timer[t]>>} ELSE retired
    /\ UNCHANGED <<build, running, owner, oneShot, made, armed, slot, timer, inside, doomed>>

-----------------------------------------------------------------------------
(* Expiry, and _sys_timer_callback. *)

\* A thread for every expiry, which may be slow to start; an alarm has but one
\* interrupt at a time.
Expire(n) ==
    /\ pc[n] = "idle"
    /\ \E x \in armed :
         /\ Pico => \A m \in Contexts : pc[m] = "idle" \/ <<slot[m], timer[m]>> # x
         /\ slot' = [slot EXCEPT ![n] = x[1]]
         /\ timer' = [timer EXCEPT ![n] = x[2]]
    /\ Goto(n, "enter")
    /\ UNCHANGED <<build, pool, armed, inside, doomed, retired>>

\* The section that admits a callback or not.  It looks at the slot, so the
\* callback is that of the timer the slot holds now.
Enter(n) ==
    /\ pc[n] = "enter"
    /\ running[slot[n]] /\ (Pico \/ init[slot[n]]) /\ ~active[slot[n]]
    /\ active' = [active EXCEPT ![slot[n]] = TRUE]
    /\ owner' = [owner EXCEPT ![slot[n]] = n]
    /\ timer' = [timer EXCEPT ![n] = made[slot[n]]]
    /\ Goto(n, "callback")
    /\ UNCHANGED <<build, init, running, oneShot, made, armed, slot, inside, doomed, retired>>

\* On Pico the interrupt reschedules its alarm if the slot is running.
Reschedule(n) ==
    armed' = IF Pico /\ ~running[slot[n]] THEN armed \ {<<slot[n], timer[n]>>} ELSE armed

EnterNot(n) ==
    /\ pc[n] = "enter"
    /\ ~running[slot[n]] \/ ~(Pico \/ init[slot[n]]) \/ active[slot[n]]
    /\ Reschedule(n)
    /\ Goto(n, "idle")
    /\ UNCHANGED <<build, pool, slot, timer, inside, doomed, retired>>

\* The callback of a periodic timer ends.
Return(n) ==
    /\ n \in Contexts
    /\ pc[n] = "callback"
    /\ ~oneShot[slot[n]]
    /\ Goto(n, "leave")
    /\ UNCHANGED <<build, pool, armed, slot, timer, inside, doomed, retired>>

Leave(n) ==
    /\ pc[n] = "leave"
    /\ active' = [active EXCEPT ![slot[n]] = FALSE]
    /\ Reschedule(n)
    /\ Goto(n, "idle")
    /\ UNCHANGED <<build, init, running, owner, oneShot, made, slot, timer, inside, doomed, retired>>

-----------------------------------------------------------------------------

\* The steps of a call or a callback under way.
Working(t) ==
    \/ Stop(t) \/ Delete(t) \/ Wait(t) \/ Finish(t)
    \/ Enter(t) \/ EnterNot(t) \/ Return(t) \/ Leave(t)
    \/ t \in Contexts /\ BeginDeinit(t)

\* Every timer has been made and is gone.
Over == (\A t \in Threads : pc[t] = "idle") /\ armed = {} /\ UNCHANGED vars

Next ==
    \/ \E u \in Users : InitTimer(u) \/ Start(u) \/ Arm(u) \/ BeginDeinit(u)
    \/ \E n \in Contexts : Expire(n)
    \/ \E t \in Threads : Working(t)
    \/ Over

Spec == Init /\ [][Next]_vars

\* Calls and callbacks go on, and a thread that looks every millisecond whether
\* a callback is running finds it not running in the end.
FairSpec == Spec /\ \A t \in Threads : SF_vars(Working(t))

-----------------------------------------------------------------------------
(* Properties. *)

TypeOK ==
    /\ build \in {"linux", "pico"}
    /\ init \in [Slots -> BOOLEAN] /\ running \in [Slots -> BOOLEAN]
    /\ active \in [Slots -> BOOLEAN] /\ owner \in [Slots -> Contexts]
    /\ oneShot \in [Slots -> BOOLEAN] /\ made \in [Slots -> 0 .. MaxTimers]
    /\ armed \subseteq Slots \X (1 .. MaxTimers)
    /\ pc \in [Threads -> {"idle", "made", "arm", "started", "enter"} \cup CallbackPcs]
    /\ slot \in [Threads -> Slots] /\ timer \in [Threads -> 0 .. MaxTimers]
    /\ inside \in [Threads -> BOOLEAN] /\ doomed \in [Threads -> BOOLEAN]
    /\ retired \subseteq Slots \X (1 .. MaxTimers)

Calling(n, s) == n \in Contexts /\ pc[n] \in CallbackPcs /\ slot[n] = s

\* "Serialize per timer": callbacks of a slot never overlap, although expiries
\* do, and callback_active and callback_thread say which one is running.
Serialised ==
    \A n \in Contexts, s \in Slots : Calling(n, s) <=> active[s] /\ owner[s] = n

\* "If a callback is currently executing on another thread or core, this call
\* waits for it to finish before returning": once it has returned, no callback
\* of the timer runs, not even for an expiry that was already on its way.
QuietAfterDeinit ==
    \A n \in Contexts : pc[n] \in CallbackPcs => <<slot[n], timer[n]>> \notin retired

\* No kernel timer or alarm outlives its slot: what is armed is the running
\* timer of its slot, or its deinitialisation is about to delete it.
NoStrayAlarm ==
    \A x \in armed :
        \/ x[2] = made[x[1]] /\ running[x[1]]
        \/ \E t \in Threads : pc[t] = "delete" /\ doomed[t] /\ <<slot[t], timer[t]>> = x

InDeinit(t) == pc[t] \in Deiniting

\* Deinitialisation ends: from the callback, which must not wait for itself,
\* and from a user, though the slot's next timer may be calling back meanwhile.
DeinitReturns == \A t \in Threads : InDeinit(t) ~> ~InDeinit(t)
-----------------------------------------------------------------------------
(* The inductive invariant. *)

\* The timer of its slot is t's to deinitialise: the user's that made it, then
\* whoever is deinitialising it, on Linux only until the slot is given back.
Holds(t) ==
    \/ t \in Users /\ pc[t] \in {"made", "arm", "started"}
    \/ pc[t] = "stop"
    \/ Pico /\ pc[t] \in Deiniting

\* One thread has a slot's timer in hand, and it is the latest of the slot.
HeldByOne ==
    /\ \A t \in Threads : Holds(t) => init[slot[t]] /\ timer[t] = made[slot[t]]
    /\ \A t, u \in Threads : Holds(t) /\ Holds(u) /\ slot[t] = slot[u] => t = u

\* Nothing expires on a slot before its timer is armed; a one-shot timer that
\* its user still holds has not been started, and calls nobody back.
UsersInv ==
    \A u \in Users :
        /\ pc[u] \notin {"enter", "callback", "leave"} /\ ~inside[u]
        /\ pc[u] = "made" => ~running[slot[u]]
        /\ pc[u] = "arm" => Pico /\ running[slot[u]]
        /\ pc[u] = "started" => ~oneShot[slot[u]]
        /\ Holds(u) /\ oneShot[slot[u]] =>
             /\ \A n \in Contexts : ~Calling(n, slot[u])
             /\ pc[u] = "arm" \/ ~running[slot[u]]
        /\ Pico /\ pc[u] \in {"made", "arm"} =>
             /\ \A x \in armed : x[1] # slot[u]
             /\ \A n \in Contexts : pc[n] = "enter" => slot[n] # slot[u]

\* A callback is of the latest timer of its slot; one that may deinitialise
\* its timer finds it there, and knows itself when it does.
ContextsInv ==
    \A n \in Contexts :
        /\ pc[n] \in {"idle", "enter"} \cup CallbackPcs
        /\ pc[n] \in CallbackPcs => timer[n] = made[slot[n]]
        /\ pc[n] \in Deiniting => inside[n]
        /\ pc[n] = "callback" /\ oneShot[slot[n]] => init[slot[n]]

\* What has been stopped stays so: on Pico because the slot is still held, on
\* Linux because the slot's next timer is another one.
StoppedInv ==
    /\ \A t \in Threads : pc[t] \in Deiniting \ {"stop"} =>
         IF Pico THEN ~running[slot[t]]
         ELSE timer[t] < made[slot[t]] \/ (timer[t] = made[slot[t]] /\ ~init[slot[t]])
    /\ \A u \in Users : pc[u] = "finish" =>
         /\ Pico => ~active[slot[u]]
         /\ \A n \in Contexts : pc[n] \in CallbackPcs => <<slot[n], timer[n]>> # <<slot[u], timer[u]>>
    /\ \A x \in retired : x[2] < made[x[1]] \/ (x[2] = made[x[1]] /\ ~init[x[1]])

\* Only a timer that is initialised runs, and a timer has a number.
NumbersInv ==
    /\ \A s \in Slots : (running[s] => init[s]) /\ (init[s] => made[s] > 0)
    /\ \A t \in Threads : pc[t] # "idle" => timer[t] > 0

IInv ==
    /\ TypeOK /\ NumbersInv /\ HeldByOne /\ UsersInv /\ ContextsInv /\ StoppedInv
    /\ Serialised /\ QuietAfterDeinit /\ NoStrayAlarm
=============================================================================
