---------------------------------- MODULE HidTimer ----------------------------------
(***************************************************************************)
(* The pools of src/picofuse/hid and the devices that need them most: the  *)
(* timers of src/picofuse/hid/timer.c.  A registration takes a timer and a *)
(* device slot; every time the timer fires its callback takes an event     *)
(* slot, names the device in it and pushes it; a worker handles the event  *)
(* and gives it back.  A one-shot device is given back with its event, a   *)
(* repeating one by whoever registered it.                                 *)
(*                                                                         *)
(* The timers are taken as Timer shows them to be: callbacks of one do not *)
(* overlap, a slot is not handed out while one runs, and sys_timer_deinit  *)
(* waits for one but from within it.  The queue is taken as EventQueueSpec *)
(* describes it.                                                           *)
(***************************************************************************)
EXTENDS Naturals, Sequences, FiniteSets, FiniteSetTheorems, SequenceTheorems, TLAPS

CONSTANTS
    Workers,        \* threads that register, deregister, and handle events
    Timers,         \* the slots of sys_timer_t, whose callbacks act too
    Devices, Events,    \* the slots of hid_t's pools
    None,           \* NULL
    Capacity,       \* of the event queue
    Locked,         \* FALSE in a host build, where _HID_LOCK() is empty
    Fresh           \* no device is registered while another is deregistered, or while
                    \* a pending event names one that has been

Threads == Workers \cup Timers

ASSUME HidAssumption ==
    /\ Workers \cap Timers = {} /\ None \notin Threads \cup Devices \cup Events
    /\ Capacity \in Nat /\ Locked \in BOOLEAN /\ Fresh \in BOOLEAN

VARIABLES
    devices,    \* hid_t.devices
    events,     \* hid_t.events
    queue,      \* the event queue
    lock,       \* who scans a pool, under _HID_LOCK(); None in a host build
    running,    \* a timer slot is "free", "made" or "armed"
    pc,         \* where each thread is; a timer is "idle" when not calling back
    timer, device, event,   \* what each thread has in hand
    once,       \* the callback is that of a one-shot device
    owned,      \* the repeating devices a worker may deregister
    stale       \* the events whose device has been given back before them

pools == <<devices, events>>
hand == <<timer, device, event, once>>
vars == <<pools, queue, lock, running, pc, hand, owned, stale>>

FreeDevice == [used |-> FALSE, timer |-> None, repeating |-> FALSE, remove |-> FALSE]
FreeEvent == [used |-> FALSE, device |-> None]

Init ==
    /\ devices = [d \in Devices |-> FreeDevice]
    /\ events = [e \in Events |-> FreeEvent]
    /\ queue = <<>> /\ lock = None
    /\ running = [t \in Timers |-> "free"]
    /\ pc = [p \in Threads |-> "idle"]
    /\ timer = [p \in Threads |-> IF p \in Timers THEN p ELSE None]
    /\ device = [p \in Threads |-> None]
    /\ event = [p \in Threads |-> None]
    /\ once = [p \in Threads |-> FALSE]
    /\ owned = [w \in Workers |-> {}]
    /\ stale = {}

Goto(p, place) == pc' = [pc EXCEPT ![p] = place]

\* _HID_LOCK() for more than one step, and for one.
Lock(p) == lock = None /\ lock' = IF Locked THEN p ELSE None
Unlocked == lock = None

\* The context of device d says t.
Has(d, t) == devices[d].used /\ devices[d].timer = t

RegisterPcs == {"retainDevice", "takeDevice", "fill", "start"}
DeregisterPcs == {"deregister", "stop", "wait", "releaseDevice"}

-----------------------------------------------------------------------------
(* hid_register_timer. *)

\* sys_timer_init: a slot that is free and not calling back.
InitTimer(w) ==
    /\ pc[w] = "idle"
    /\ Fresh => stale = {} /\ \A v \in Workers : pc[v] \in DeregisterPcs => event[v] # None
    /\ \E t \in Timers, repeating \in BOOLEAN :
         /\ running[t] = "free" /\ pc[t] = "idle"
         /\ running' = [running EXCEPT ![t] = "made"]
         /\ timer' = [timer EXCEPT ![w] = t]
         /\ once' = [once EXCEPT ![w] = ~repeating]
    /\ Goto(w, "retainDevice")
    /\ UNCHANGED <<pools, queue, lock, device, event, owned, stale>>

\* _hid_device_retain: the scan, and the assignment to what it found.
RetainDevice(w) ==
    /\ pc[w] = "retainDevice"
    /\ Lock(w)
    /\ \E d \in Devices : ~devices[d].used /\ device' = [device EXCEPT ![w] = d]
    /\ Goto(w, "takeDevice")
    /\ UNCHANGED <<pools, queue, running, timer, event, once, owned, stale>>

TakeDevice(w) ==
    /\ pc[w] = "takeDevice"
    /\ devices' = [devices EXCEPT ![device[w]] = [FreeDevice EXCEPT !.used = TRUE]]
    /\ lock' = None
    /\ Goto(w, "fill")
    /\ UNCHANGED <<events, queue, running, hand, owned, stale>>

\* The pool is exhausted: the timer is given back.
RetainNoDevice(w) ==
    /\ pc[w] = "retainDevice"
    /\ Unlocked
    /\ \A d \in Devices : devices[d].used
    /\ running' = [running EXCEPT ![timer[w]] = "free"]
    /\ timer' = [timer EXCEPT ![w] = None]
    /\ Goto(w, "idle")
    /\ UNCHANGED <<pools, queue, lock, device, event, once, owned, stale>>

Fill(w) ==
    /\ pc[w] = "fill"
    /\ Unlocked
    /\ devices' = [devices EXCEPT ![device[w]] =
         [@ EXCEPT !.timer = timer[w], !.repeating = ~once[w], !.remove = FALSE]]
    /\ Goto(w, "start")
    /\ UNCHANGED <<events, queue, lock, running, hand, owned, stale>>

\* sys_timer_start, or hid_deregister if it fails.
Started(w) ==
    /\ pc[w] = "start"
    /\ running' = [running EXCEPT ![timer[w]] = "armed"]
    /\ owned' = [owned EXCEPT ![w] = IF once[w] THEN @ ELSE @ \cup {device[w]}]
    /\ timer' = [timer EXCEPT ![w] = None]
    /\ device' = [device EXCEPT ![w] = None]
    /\ Goto(w, "idle")
    /\ UNCHANGED <<pools, queue, lock, event, once, stale>>

StartFails(w) ==
    /\ pc[w] = "start"
    /\ Goto(w, "deregister")
    /\ UNCHANGED <<pools, queue, lock, running, hand, owned, stale>>

Start(w) == Started(w) \/ StartFails(w)

-----------------------------------------------------------------------------
(* hid_deregister, by its owner or from one of the places below. *)

\* A device is deregistered by the one that registered it.
BeginDeregister(w) ==
    /\ pc[w] = "idle"
    /\ Fresh => \A v \in Workers : pc[v] \notin RegisterPcs
    /\ \E d \in owned[w] :
         /\ device' = [device EXCEPT ![w] = d]
         /\ owned' = [owned EXCEPT ![w] = @ \ {d}]
    /\ Goto(w, "deregister")
    /\ UNCHANGED <<pools, queue, lock, running, timer, event, once, stale>>

\* Where a thread goes on when hid_deregister returns.
AfterDeregister(p) ==
    IF event[p] # None THEN "release" ELSE IF p \in Timers THEN "leave" ELSE "idle"

\* It looks at the type of the slot, and _hid_timer_deinit at its context.
Deregister(p) ==
    /\ pc[p] = "deregister"
    /\ LET d == device[p] IN
         /\ timer' = [timer EXCEPT ![p] = devices[d].timer]
         /\ Goto(p, IF ~devices[d].used THEN AfterDeregister(p)
                    ELSE IF devices[d].timer = None THEN "releaseDevice" ELSE "stop")
    /\ UNCHANGED <<pools, queue, lock, running, device, event, once, owned, stale>>

\* Mutant: the timer is forgotten.
StopNothing(p) ==
    /\ pc[p] = "stop"
    /\ Goto(p, "wait")
    /\ UNCHANGED <<pools, queue, lock, running, hand, owned, stale>>

\* sys_timer_deinit
Stop(p) ==
    /\ pc[p] = "stop"
    /\ running' = [running EXCEPT ![timer[p]] = "free"]
    /\ Goto(p, "wait")
    /\ UNCHANGED <<pools, queue, lock, hand, owned, stale>>

Wait(p) ==
    /\ pc[p] = "wait"
    /\ pc[timer[p]] = "idle"
    /\ Goto(p, "releaseDevice")
    /\ UNCHANGED <<pools, queue, lock, running, hand, owned, stale>>

\* The events that name device d, but for those that are being given back.
Pending(d) ==
    {e \in Events : events[e].device = d /\
                    \A p \in Threads : event[p] = e => pc[p] \notin {"release", "releaseDevice"}}

\* _hid_device_release.
ReleaseDevice(p) ==
    /\ pc[p] = "releaseDevice"
    /\ Unlocked
    /\ devices' = [devices EXCEPT ![device[p]] = FreeDevice]
    /\ stale' = stale \cup Pending(device[p])
    /\ Goto(p, AfterDeregister(p))
    /\ device' = [device EXCEPT ![p] = None]
    /\ timer' = [timer EXCEPT ![p] = IF p \in Timers THEN p ELSE None]
    /\ UNCHANGED <<events, queue, lock, running, event, once, owned>>

-----------------------------------------------------------------------------
(* _hid_timer_callback. *)

Expire(t) ==
    /\ running[t] = "armed" /\ pc[t] = "idle"
    /\ Goto(t, "scan")
    /\ UNCHANGED <<pools, queue, lock, running, hand, owned, stale>>

\* The scan for the device that has this timer, and the snapshot of its fields.
ScanFinds(t) ==
    /\ pc[t] = "scan"
    /\ Unlocked
    /\ \E d \in Devices :
         /\ Has(d, t)
         /\ device' = [device EXCEPT ![t] = d]
         /\ once' = [once EXCEPT ![t] = ~devices[d].repeating]
         /\ Goto(t, IF devices[d].repeating THEN "retain" ELSE "deinit")
    /\ UNCHANGED <<pools, queue, lock, running, timer, event, owned, stale>>

ScanFindsNone(t) ==
    /\ pc[t] = "scan"
    /\ Unlocked
    /\ \A d \in Devices : ~Has(d, t)
    /\ Goto(t, "leave")
    /\ UNCHANGED <<pools, queue, lock, running, hand, owned, stale>>

Scan(t) == IF \E d \in Devices : Has(d, t) THEN ScanFinds(t) ELSE ScanFindsNone(t)

\* A one-shot timer is given back at once, from within its callback.
DeinitOwn(t) ==
    /\ pc[t] = "deinit"
    /\ running' = [running EXCEPT ![t] = "free"]
    /\ Goto(t, "clear")
    /\ UNCHANGED <<pools, queue, lock, hand, owned, stale>>

\* Mutant: timer_remove_after_event is left for later.
ClearUnflagged(t) ==
    /\ pc[t] = "clear"
    /\ Unlocked
    /\ devices' = [devices EXCEPT ![device[t]].timer = None]
    /\ Goto(t, "retain")
    /\ UNCHANGED <<events, queue, lock, running, hand, owned, stale>>

\* Its device has no timer any more, and goes with the event.
Clear(t) ==
    /\ pc[t] = "clear"
    /\ Unlocked
    /\ devices' = [devices EXCEPT ![device[t]] = [@ EXCEPT !.timer = None, !.remove = TRUE]]
    /\ Goto(t, "retain")
    /\ UNCHANGED <<events, queue, lock, running, hand, owned, stale>>

\* _hid_event_retain, as for devices.
RetainEvent(t) ==
    /\ pc[t] = "retain"
    /\ devices[device[t]].used
    /\ Lock(t)
    /\ \E e \in Events : ~events[e].used /\ event' = [event EXCEPT ![t] = e]
    /\ Goto(t, "takeEvent")
    /\ UNCHANGED <<pools, queue, running, timer, device, once, owned, stale>>

TakeEvent(t) ==
    /\ pc[t] = "takeEvent"
    /\ events' = [events EXCEPT ![event[t]] = [FreeEvent EXCEPT !.used = TRUE]]
    /\ lock' = None
    /\ Goto(t, "fillEvent")
    /\ UNCHANGED <<devices, queue, running, hand, owned, stale>>

\* No event slot, or no instance any more: a one-shot device goes without event.
RetainNoEvent(t) ==
    /\ pc[t] = "retain"
    /\ Unlocked
    /\ devices[device[t]].used => \A e \in Events : events[e].used
    /\ Goto(t, IF once[t] THEN "deregister" ELSE "leave")
    /\ UNCHANGED <<pools, queue, lock, running, hand, owned, stale>>

FillEvent(t) ==
    /\ pc[t] = "fillEvent"
    /\ events' = [events EXCEPT ![event[t]].device = device[t]]
    /\ Goto(t, "push")
    /\ UNCHANGED <<devices, queue, lock, running, hand, owned, stale>>

\* The queue takes the event out of the callback's hands.
Enqueue(t) ==
    /\ Len(queue) < Capacity
    /\ queue' = Append(queue, event[t])
    /\ event' = [event EXCEPT ![t] = None]

\* Mutant: nobody looks at what sys_event_queue_try_push returns.
PushBlindly(t) ==
    /\ pc[t] = "push"
    /\ \/ Enqueue(t)
       \/ UNCHANGED queue /\ event' = [event EXCEPT ![t] = None]
    /\ Goto(t, "leave")
    /\ UNCHANGED <<pools, lock, running, timer, device, once, owned, stale>>

\* Mutant: a one-shot device is deregistered as soon as its event is on its way.
PushAndDeregister(t) ==
    /\ pc[t] = "push"
    /\ Enqueue(t)
    /\ Goto(t, IF once[t] THEN "deregister" ELSE "leave")
    /\ UNCHANGED <<pools, lock, running, timer, device, once, owned, stale>>

\* _hid_event_push.  A queue that is full, or shut down, refuses the event,
\* which is freed; when the device has gone, only its slot is released.
Pushed(t) ==
    /\ pc[t] = "push"
    /\ devices[device[t]].used
    /\ Enqueue(t)
    /\ Goto(t, "leave")
    /\ UNCHANGED <<pools, lock, running, timer, device, once, owned, stale>>

PushFails(t) ==
    /\ pc[t] = "push"
    /\ Goto(t, IF devices[device[t]].used THEN "free" ELSE "release")
    /\ UNCHANGED <<pools, queue, lock, running, hand, owned, stale>>

Push(t) == Pushed(t) \/ PushFails(t)

Leave(t) ==
    /\ pc[t] = "leave"
    /\ device' = [device EXCEPT ![t] = None]
    /\ timer' = [timer EXCEPT ![t] = t]
    /\ once' = [once EXCEPT ![t] = FALSE]
    /\ Goto(t, "idle")
    /\ UNCHANGED <<pools, queue, lock, running, event, owned, stale>>

-----------------------------------------------------------------------------
(* A worker's handler, and hid_event_free. *)

Pop(w) ==
    /\ pc[w] = "idle"
    /\ queue # <<>>
    /\ queue' = Tail(queue)
    /\ event' = [event EXCEPT ![w] = Head(queue)]
    /\ Goto(w, "free")
    /\ UNCHANGED <<pools, lock, running, timer, device, once, owned, stale>>

\* The last event of a one-shot device takes the device with it.
FreeLast(p) ==
    /\ pc[p] = "free"
    /\ LET d == events[event[p]].device IN
         /\ d # None /\ devices[d].remove
         /\ device' = [device EXCEPT ![p] = d]
    /\ Goto(p, "unflag")
    /\ UNCHANGED <<pools, queue, lock, running, timer, event, once, owned, stale>>

FreeOther(p) ==
    /\ pc[p] = "free"
    /\ LET d == events[event[p]].device IN d = None \/ ~devices[d].remove
    /\ Goto(p, "release")
    /\ UNCHANGED <<pools, queue, lock, running, hand, owned, stale>>

Free(p) == FreeLast(p) \/ FreeOther(p)

Unflag(p) ==
    /\ pc[p] = "unflag"
    /\ devices' = [devices EXCEPT ![device[p]] = [@ EXCEPT !.remove = FALSE]]
    /\ Goto(p, IF devices[device[p]].used THEN "deregister" ELSE "release")
    /\ UNCHANGED <<events, queue, lock, running, hand, owned, stale>>

\* _hid_event_release
Release(p) ==
    /\ pc[p] = "release"
    /\ Unlocked
    /\ events' = [events EXCEPT ![event[p]] = FreeEvent]
    /\ stale' = stale \ {event[p]}
    /\ event' = [event EXCEPT ![p] = None]
    /\ device' = [device EXCEPT ![p] = None]
    /\ Goto(p, IF p \in Timers THEN "leave" ELSE "idle")
    /\ UNCHANGED <<devices, queue, lock, running, timer, once, owned>>

-----------------------------------------------------------------------------

Registering(w) ==
    InitTimer(w) \/ RetainDevice(w) \/ TakeDevice(w) \/ RetainNoDevice(w) \/ Fill(w) \/ Start(w)

Deregistering(p) == Deregister(p) \/ Stop(p) \/ Wait(p) \/ ReleaseDevice(p)

CallingBack(t) ==
    \/ Expire(t) \/ Scan(t) \/ DeinitOwn(t) \/ Clear(t)
    \/ RetainEvent(t) \/ TakeEvent(t) \/ RetainNoEvent(t) \/ FillEvent(t) \/ Push(t) \/ Leave(t)

Freeing(p) == Free(p) \/ Unflag(p) \/ Release(p)

Next ==
    \/ \E w \in Workers : Registering(w) \/ BeginDeregister(w) \/ Pop(w)
    \/ \E t \in Timers : CallingBack(t)
    \/ \E p \in Threads : Deregistering(p) \/ Freeing(p)

Spec == Init /\ [][Next]_vars

-----------------------------------------------------------------------------
(* Properties. *)

DeviceType ==
    [used : BOOLEAN, timer : Timers \cup {None}, repeating : BOOLEAN, remove : BOOLEAN]
EventType == [used : BOOLEAN, device : Devices \cup {None}]

TypeOK ==
    /\ devices \in [Devices -> DeviceType] /\ events \in [Events -> EventType]
    /\ queue \in Seq(Events) /\ Len(queue) <= Capacity
    /\ lock \in Threads \cup {None}
    /\ running \in [Timers -> {"free", "made", "armed"}]
    /\ pc \in [Threads -> {"idle", "scan", "deinit", "clear", "retain", "takeEvent", "fillEvent",
                           "push", "leave", "free", "unflag", "release"}
                          \cup RegisterPcs \cup DeregisterPcs]
    /\ timer \in [Threads -> Timers \cup {None}]
    /\ device \in [Threads -> Devices \cup {None}]
    /\ event \in [Threads -> Events \cup {None}]
    /\ once \in [Threads -> BOOLEAN]
    /\ owned \in [Workers -> SUBSET Devices]
    /\ stale \subseteq Events

\* An event slot in use is in one place: once in the queue, or in the hands of
\* one thread; a free one is nowhere.  No event is lost, freed twice, or filled
\* by two callbacks.
OneOwner ==
    \A e \in Events :
        Cardinality({p \in Threads : event[p] = e /\ pc[p] # "takeEvent"})
          + Cardinality({i \in DOMAIN queue : queue[i] = e})
        = IF events[e].used THEN 1 ELSE 0

\* Timers and devices stay together: a timer that fires has one device, to which
\* it leads, and no device keeps a timer that was given back and may be handed
\* out again, but for the moment in which its handle is about to be cleared.
TimersOwned ==
    \A t \in Timers :
        /\ running[t] = "armed" => \E d \in Devices : Has(d, t)
        /\ \A d, o \in Devices : Has(d, t) /\ Has(o, t) => d = o
        /\ running[t] = "free" =>
             \A d \in Devices : Has(d, t) =>
               \E p \in Threads : device[p] = d /\ pc[p] \in {"wait", "releaseDevice", "clear"}

\* "This already-expired one-shot device would sit in the pool forever": a device
\* without timer has somebody who will give it back, the thread that has it in
\* hand or the event that takes it along.
OneShotsKept ==
    \A d \in Devices : devices[d].used /\ devices[d].timer = None =>
        \/ \E p \in Threads : device[p] = d /\ pc[p] \notin {"idle", "leave", "release"}
        \/ devices[d].remove /\ \E e \in Events \ stale : events[e].used /\ events[e].device = d

KeepsOneShots == \A e \in stale' \ stale : devices[events[e].device].repeating

\* "event's device field must stay valid until the consumer is done with the
\* event": a one-shot device is not given back while an event names it.
OneShotValid == [][KeepsOneShots]_vars
-----------------------------------------------------------------------------
(* What every step keeps, and the properties follow from.                  *)

\* A device that one thread alone has to see to.
InHand(p, d) ==
    /\ device[p] = d
    /\ \/ pc[p] \in {"fill", "start", "unflag"} \cup DeregisterPcs
       \/ pc[p] \in {"deinit", "clear", "retain", "takeEvent", "fillEvent", "push"} /\ once[p]

Queued(e) == \E i \in DOMAIN queue : queue[i] = e

\* An event that is in the queue, or that a thread is about to look at.
Live(e) ==
    \/ Queued(e)
    \/ \E p \in Threads : event[p] = e /\ pc[p] = "free"

\* A one-shot device that goes with an event.
Takes(e, d) == events[e].device = d /\ e \notin stale /\ Live(e) /\ ~devices[d].repeating

\* No event leads to device d any more, but one that is being given back.
Unnamed(d) ==
    \A e \in Events : events[e].device = d =>
        /\ ~Queued(e)
        /\ \A p \in Threads : event[p] = e => pc[p] \in {"release", "releaseDevice"}

Registers(w) == pc[w] \in RegisterPcs

\* A scan's find stays as it was found: the lock is held until it is taken.
LockInv == \A p \in Threads : lock = p <=> pc[p] \in {"takeDevice", "takeEvent"}

\* An event in use is in the queue or in a hand,
Placed ==
    \A e \in Events : events[e].used <=>
        Queued(e) \/ \E p \in Threads : event[p] = e /\ pc[p] # "takeEvent"
\* but not in two places;
QueuedOnce == \A i, j \in DOMAIN queue : queue[i] = queue[j] => i = j
QueuedOnly == \A e \in Events, p \in Threads : Queued(e) => event[p] # e
HeldOnce == \A p, q \in Threads : event[p] = event[q] /\ event[p] # None => p = q
\* a free one names nothing.
Blank ==
    /\ \A e \in Events : ~events[e].used => events[e].device = None
    /\ \A e \in stale : events[e].used

EventsInv == Placed /\ QueuedOnce /\ QueuedOnly /\ HeldOnce /\ Blank

EmptyHanded == {"idle", "scan", "deinit", "clear", "retain", "leave", "stop", "wait"} \cup RegisterPcs
HandsInv ==
    /\ \A w \in Workers :
         /\ pc[w] \in {"idle", "free", "unflag", "release"} \cup RegisterPcs \cup DeregisterPcs
         /\ Registers(w) => timer[w] \in Timers
    /\ \A t \in Timers : pc[t] \notin RegisterPcs \cup {"stop", "wait"}
    /\ \A p \in Threads :
         /\ pc[p] \in EmptyHanded => event[p] = None
         /\ pc[p] \in {"takeEvent", "fillEvent", "push", "free", "unflag", "release"} => event[p] # None
         /\ pc[p] = "fillEvent" => events[event[p]].device = None
         /\ pc[p] = "free" => events[event[p]].device # None
         /\ pc[p] \in {"push", "unflag"} => events[event[p]].device = device[p]
         /\ pc[p] \in {"deregister", "releaseDevice"} /\ event[p] # None => events[event[p]].device = device[p]
         /\ pc[p] \in {"deinit", "clear", "retain", "takeEvent", "fillEvent", "push", "unflag", "takeDevice", "fill", "start"}
                      \cup DeregisterPcs => device[p] # None

\* The fields of a device agree.
DevicesInv ==
    \A d \in Devices :
        /\ ~devices[d].used => devices[d].timer = None /\ ~devices[d].remove
        /\ devices[d].timer # None => ~devices[d].remove
        /\ devices[d].repeating => devices[d].timer # None

\* The thread that deregisters a device with its timer.
Ends(p) == p \in Workers /\ event[p] = None

\* No callback of d has begun, and none will.
Untold(d) ==
    /\ pc[devices[d].timer] = "idle" /\ running[devices[d].timer] # "armed"
    /\ Unnamed(d)

\* A slot as _hid_device_retain leaves it.
Bare(d) ==
    devices[d].used /\ devices[d].timer = None /\ ~devices[d].repeating /\ ~devices[d].remove

\* What a thread knows of the device it has in hand.  One that registers it:
KnowsNew(p) ==
    /\ pc[p] = "takeDevice" => ~devices[device[p]].used
    /\ pc[p] = "fill" => Bare(device[p]) /\ Unnamed(device[p])
    /\ pc[p] = "start" => /\ Has(device[p], timer[p]) /\ devices[device[p]].repeating = ~once[p]
                          /\ Unnamed(device[p])

\* One that deregisters it with its timer:
KnowsWhole(p) ==
    pc[p] \in DeregisterPcs /\ Ends(p) =>
        /\ devices[device[p]].used /\ devices[device[p]].timer # None
        /\ pc[p] # "deregister" => timer[p] = devices[device[p]].timer
        /\ pc[p] \in {"wait", "releaseDevice"} => running[timer[p]] = "free"
        /\ pc[p] = "releaseDevice" => pc[timer[p]] = "idle"
        /\ \/ Untold(device[p])
           \/ devices[device[p]].repeating /\ \A w \in Workers : ~Registers(w)

\* One that gives a one-shot device back with its event, or without one:
KnowsLast(p) ==
    /\ pc[p] \in DeregisterPcs /\ ~Ends(p) =>
        /\ devices[device[p]].used /\ devices[device[p]].timer = None /\ ~devices[device[p]].repeating
    /\ pc[p] = "unflag" => devices[device[p]].used /\ devices[device[p]].remove /\ ~devices[device[p]].repeating

\* A timer that calls back:
KnowsFired(p) ==
    /\ pc[p] \in {"deinit", "clear"} => Has(device[p], p) /\ ~devices[device[p]].repeating /\ once[p]
    /\ pc[p] = "clear" => running[p] = "free"
    /\ pc[p] \in {"retain", "takeEvent", "fillEvent", "push"} =>
        /\ devices[device[p]].used
        /\ once[p] => devices[device[p]].remove /\ ~devices[device[p]].repeating
        /\ ~once[p] => devices[device[p]].timer = p /\ devices[device[p]].repeating
    /\ pc[p] \in {"fillEvent", "push"} => event[p] \notin stale

\* A device is in one thread's hand,
OneHand == \A p, q \in Threads : \A d \in Devices : InHand(p, d) /\ InHand(q, d) => p = q
\* or goes with one event,
OneTaker ==
    \A d \in Devices, e \in Events : Takes(e, d) =>
        /\ \A p \in Threads : ~InHand(p, d)
        /\ \A f \in Events : Takes(f, d) => e = f
\* or may be deregistered by one worker,
OneKeeper ==
    \A w \in Workers : \A d \in owned[w] :
        /\ devices[d].used /\ devices[d].repeating
        /\ \A p \in Threads : ~InHand(p, d)
        /\ \A v \in Workers : d \in owned[v] => v = w
\* and is in a hand or goes with an event when it has no timer.
Kept ==
    \A d \in Devices : devices[d].used /\ devices[d].timer = None =>
        (\E p \in Threads : InHand(p, d)) \/ \E e \in Events : Takes(e, d)

\* A timer has one device, to which it leads while it may fire; one that was
\* given back has none but in the moment before its device is cleared or released.
TimerInv ==
    \A t \in Timers :
        /\ running[t] = "made" => pc[t] = "idle"
        /\ running[t] = "armed" => \E d \in Devices : Has(d, t)
        /\ \A d, o \in Devices : Has(d, t) /\ Has(o, t) => d = o
        /\ running[t] = "free" => \A d \in Devices : Has(d, t) =>
             \/ pc[t] = "clear" /\ device[t] = d
             \/ \E w \in Workers : device[w] = d /\ pc[w] \in {"wait", "releaseDevice"} /\ Ends(w)

\* A registration has a timer of its own, which no device has until it is filled.
RegisterInv ==
    \A w \in Workers : Registers(w) =>
        /\ running[timer[w]] = "made"
        /\ pc[w] # "start" => \A d \in Devices : ~Has(d, timer[w])
        /\ \A v \in Workers : Registers(v) /\ timer[v] = timer[w] => v = w

\* What an event that will be looked at says: its device is there, unless the
\* event is stale and no slot is taken before it is given back.
NamesInv ==
    /\ \A e \in Events : Live(e) =>
         LET d == events[e].device IN
         /\ d # None
         /\ IF e \in stale THEN ~devices[d].used
            ELSE devices[d].used /\ (~devices[d].repeating => devices[d].remove)
    /\ stale # {} => \A w \in Workers : ~Registers(w)

IInv ==
    /\ TypeOK /\ LockInv /\ EventsInv /\ HandsInv /\ DevicesInv
    /\ \A p \in Threads : KnowsNew(p) /\ KnowsWhole(p) /\ KnowsLast(p) /\ KnowsFired(p)
    /\ OneHand /\ OneTaker /\ OneKeeper /\ Kept
    /\ TimerInv /\ RegisterInv /\ NamesInv

-----------------------------------------------------------------------------
(* Proofs.  Values of slots and of the queue first. *)

\* What the two retains and the two releases put into a slot has the type of its fields.
LEMMA Slots ==
    /\ [FreeDevice EXCEPT !.used = TRUE] \in DeviceType /\ FreeDevice \in DeviceType
    /\ [FreeEvent EXCEPT !.used = TRUE] \in EventType /\ FreeEvent \in EventType
BY DEF FreeDevice, FreeEvent, DeviceType, EventType

\* So has what registrations, callbacks and hid_event_free change of a device.
LEMMA Fields ==
    ASSUME NEW r \in DeviceType, NEW t \in Timers \cup {None}, NEW b \in BOOLEAN
    PROVE  /\ [r EXCEPT !.timer = t, !.repeating = b, !.remove = FALSE] \in DeviceType
           /\ [r EXCEPT !.timer = None, !.remove = TRUE] \in DeviceType
           /\ [r EXCEPT !.remove = FALSE] \in DeviceType
BY DEF DeviceType

\* A pop takes the first event out of the queue and leaves the others in it.
LEMMA Popped ==
    ASSUME TypeOK, QueuedOnce, queue # <<>>, queue' = Tail(queue)
    PROVE  /\ Head(queue) \in Events /\ Queued(Head(queue))
           /\ \A e \in Events : Queued(e)' <=> Queued(e) /\ e # Head(queue)
<1> DEFINE n == Len(queue)
<1>1. queue \in Seq(Events) /\ n \in Nat /\ DOMAIN queue = 1..n /\ n > 0 /\ Head(queue) = queue[1]
  BY DEF TypeOK
<1>2. Head(queue) \in Events
  BY <1>1
<1>3. DOMAIN queue' = 1..(n - 1) /\ \A i \in 1..(n - 1) : queue'[i] = queue[i + 1]
  BY <1>1
<1>4. ASSUME NEW e \in Events, Queued(e)' PROVE Queued(e) /\ e # Head(queue)
  BY <1>1, <1>3, <1>4 DEF Queued, QueuedOnce
<1>5. ASSUME NEW e \in Events, Queued(e), e # Head(queue) PROVE Queued(e)'
  <2>1. PICK i \in 1..n : queue[i] = e /\ i # 1
    BY <1>1, <1>5 DEF Queued
  <2>2. i - 1 \in 1..(n - 1) /\ queue'[i - 1] = e
    BY <1>1, <1>3, <2>1
  <2> QED BY <1>3, <2>2 DEF Queued
<1>6. Queued(Head(queue))
  BY <1>1 DEF Queued
<1> QED BY <1>2, <1>4, <1>5, <1>6

\* A push adds its event to those in the queue and takes none out.
LEMMA Appended ==
    ASSUME TypeOK, NEW x \in Events, queue' = Append(queue, x)
    PROVE  \A e \in Events : Queued(e)' <=> Queued(e) \/ e = x
<1> DEFINE n == Len(queue)
<1>1. queue \in Seq(Events) /\ n \in Nat /\ DOMAIN queue = 1..n
  BY DEF TypeOK
<1>2. DOMAIN queue' = 1..(n + 1) /\ (\A i \in 1..n : queue'[i] = queue[i]) /\ queue'[n + 1] = x
  BY <1>1
<1>3. ASSUME NEW e \in Events, Queued(e)' PROVE Queued(e) \/ e = x
  <2>1. PICK i \in 1..(n + 1) : queue'[i] = e
    BY <1>2, <1>3 DEF Queued
  <2>2. i = n + 1 \/ i \in 1..n
    BY <1>1
  <2> QED BY <1>1, <1>2, <2>1, <2>2 DEF Queued
<1>4. ASSUME NEW e \in Events, Queued(e) PROVE Queued(e)'
  <2>1. PICK i \in 1..n : queue[i] = e
    BY <1>1, <1>4 DEF Queued
  <2> QED BY <1>1, <1>2, <2>1 DEF Queued
<1>5. Queued(x)'
  BY <1>1, <1>2 DEF Queued
<1> QED BY <1>3, <1>4, <1>5

\* An event that names a device which is given back is that of a repeating device, and nobody
\* registers meanwhile: the device of a one-shot event is in the hand of whoever has the event.
LEMMA ReleasedLast ==
    ASSUME Locked, Fresh, IInv, NEW p \in Threads, ReleaseDevice(p), NEW e \in Pending(device[p])
    PROVE  devices[device[p]].repeating /\ \A w \in Workers : ~Registers(w)
<1> USE HidAssumption DEF IInv
<1>a. /\ p \in Threads /\ pc[p] = "releaseDevice" /\ device[p] \in Devices /\ devices[device[p]].used
      /\ InHand(p, device[p])
  BY DEF ReleaseDevice, HandsInv, KnowsWhole, KnowsLast, InHand, TypeOK, DeregisterPcs
<1>1. /\ e \in Events /\ events[e].device = device[p] /\ events[e].used
      /\ \A r \in Threads : event[r] = e => pc[r] \notin {"release", "releaseDevice"}
  BY <1>a DEF Pending, EventsInv, Blank
<1>2. CASE Ends(p)
  <2>1. ~Unnamed(device[p])
    BY <1>1 DEF Unnamed, EventsInv, Placed
  <2> QED BY <1>a, <1>2, <2>1 DEF KnowsWhole, Untold, DeregisterPcs
<1>3. CASE ~Ends(p)
  <2>1. ~devices[device[p]].repeating /\ devices[device[p]].timer = None
    BY <1>a, <1>3 DEF KnowsLast, DeregisterPcs
  <2>2. CASE Live(e)
    BY <1>a, <1>1, <2>1, <2>2 DEF NamesInv, Takes, OneTaker
  <2>3. CASE ~Live(e)
    <3>1. PICK r \in Threads : event[r] = e /\ pc[r] # "takeEvent"
      BY <1>1, <2>3 DEF EventsInv, Placed, Live
    <3>2. pc[r] \in {"fillEvent", "push", "unflag", "deregister"}
      BY <1>1, <2>3, <3>1 DEF HandsInv, EmptyHanded, DeregisterPcs, Live, TypeOK
    <3>3. pc[r] # "fillEvent" /\ device[r] = device[p] /\ r # p
      BY <1>a, <1>1, <3>1, <3>2 DEF HandsInv
    <3>4. CASE pc[r] = "push" /\ ~once[r]
      BY <2>1, <3>3, <3>4 DEF KnowsFired
    <3>5. CASE pc[r] = "push" /\ once[r]
      BY <1>a, <3>3, <3>5 DEF InHand, OneHand
    <3>6. CASE pc[r] \in {"unflag", "deregister"}
      BY <1>a, <3>3, <3>6 DEF InHand, OneHand, DeregisterPcs
    <3> QED BY <3>2, <3>3, <3>4, <3>5, <3>6
  <2> QED BY <2>2, <2>3
<1> QED BY <1>2, <1>3

-----------------------------------------------------------------------------
(* Registrations keep the invariant. *)

\* hid_register_timer begins: the slot of the timer is free and no device has it.
LEMMA InitTimerStep == ASSUME Locked, Fresh, IInv, NEW w \in Workers, InitTimer(w) PROVE IInv'
<1> USE HidAssumption DEF IInv
<1>1. TypeOK'
  BY DEF InitTimer, Threads, pools, Goto, RegisterPcs, TypeOK
<1>2. LockInv'
  BY DEF InitTimer, Goto, LockInv
<1>3. Placed'
  BY DEF InitTimer, Queued, pools, Goto, EventsInv, Placed
<1>4. QueuedOnce'
  BY DEF InitTimer, EventsInv, QueuedOnce
<1>5. QueuedOnly'
  BY DEF InitTimer, Queued, EventsInv, QueuedOnly
<1>6. HeldOnce'
  BY DEF InitTimer, EventsInv, HeldOnce
<1>7. Blank'
  BY DEF InitTimer, pools, EventsInv, Blank
<1>8. HandsInv'
  BY DEF InitTimer, pools, Goto, RegisterPcs, DeregisterPcs, TypeOK, HandsInv, EmptyHanded,
      Registers
<1>9. DevicesInv'
  BY DEF InitTimer, pools, DevicesInv
<1>10. \A q \in Threads : KnowsNew(q)'
  <2> SUFFICES ASSUME NEW q \in Threads PROVE KnowsNew(q)'
    OBVIOUS
  <2>1. (pc[q] = "takeDevice" => ~devices[device[q]].used)'
    BY DEF InitTimer, pools, Goto, KnowsNew
  <2>2. (pc[q] = "fill" => Bare(device[q]))'
    BY DEF InitTimer, Bare, pools, Goto, KnowsNew
  <2>3. (pc[q] = "start" => Has(device[q], timer[q]) /\ devices[device[q]].repeating = ~once[q])'
    BY DEF InitTimer, pools, Goto, Has, KnowsNew
  <2>4. (pc[q] \in {"fill", "start"} => Unnamed(device[q]))'
    BY DEF InitTimer, Queued, pools, Goto, KnowsNew, Unnamed
  <2> QED BY <2>1, <2>2, <2>3, <2>4 DEF KnowsNew
<1>11. \A q \in Threads : KnowsWhole(q)'
  BY DEF InitTimer, Goto, DeregisterPcs, Ends, KnowsWhole
<1>12. \A q \in Threads : KnowsLast(q)'
  BY DEF InitTimer, pools, Goto, HandsInv, EmptyHanded, Ends, KnowsLast
<1>13. \A q \in Threads : KnowsFired(q)'
  BY DEF InitTimer, pools, Goto, Has, KnowsFired
<1>14. OneHand'
  BY DEF InitTimer, Goto, DeregisterPcs, OneHand, InHand
<1>15. OneTaker'
  BY DEF InitTimer, Queued, pools, Goto, DeregisterPcs, OneTaker, InHand, Takes, Live
<1>16. OneKeeper'
  BY DEF InitTimer, pools, Goto, DeregisterPcs, OneKeeper, InHand
<1>17. Kept'
  <2> SUFFICES ASSUME NEW d \in Devices, devices'[d].used, devices'[d].timer = None
                PROVE  (\E q \in Threads : InHand(q, d)') \/ \E e \in Events : Takes(e, d)'
    BY DEF Kept
  <2>1. devices[d].used /\ devices[d].timer = None
    BY DEF InitTimer, pools
  <2>2. CASE \E q \in Threads : InHand(q, d)
    <3>1. PICK q \in Threads : InHand(q, d)
      BY <2>2
    <3>2. InHand(q, d)'
      BY <2>1, <3>1 DEF InitTimer, Goto, DeregisterPcs, InHand
    <3> QED BY <3>2
  <2>3. CASE \E e \in Events : Takes(e, d)
    <3>1. PICK e \in Events : Takes(e, d)
      BY <2>3
    <3>2. Takes(e, d)'
      BY <2>1, <3>1 DEF InitTimer, Queued, pools, Goto, Takes, Live
    <3> QED BY <3>2
  <2> QED BY <2>1, <2>2, <2>3 DEF Kept
<1>18. TimerInv'
  BY DEF InitTimer, pools, Goto, Ends, Has, TimerInv
<1>19. RegisterInv'
  BY SMTT(30)
  DEF InitTimer, pools, Goto, DeregisterPcs, TypeOK, Registers, Ends, Has, TimerInv, RegisterInv
<1>20. NamesInv'
  BY DEF InitTimer, Queued, pools, Goto, NamesInv, Live
<1> QED BY <1>1, <1>2, <1>3, <1>4, <1>5, <1>6, <1>7, <1>8, <1>9, <1>10, <1>11, <1>12, <1>13,
   <1>14, <1>15, <1>16, <1>17, <1>18, <1>19, <1>20
DEF EventsInv

\* The scan of _hid_device_retain; the lock stays with its thread.
LEMMA RetainDeviceStep == ASSUME Locked, Fresh, IInv, NEW w \in Workers, RetainDevice(w) PROVE IInv'
<1> USE HidAssumption DEF IInv
<1>1. TypeOK'
  BY DEF RetainDevice, Threads, pools, Goto, Lock, RegisterPcs, TypeOK
<1>2. LockInv'
  BY DEF RetainDevice, Goto, Lock, TypeOK, LockInv
<1>3. Placed'
  BY DEF RetainDevice, Queued, pools, Goto, EventsInv, Placed
<1>4. QueuedOnce'
  BY DEF RetainDevice, EventsInv, QueuedOnce
<1>5. QueuedOnly'
  BY DEF RetainDevice, Queued, EventsInv, QueuedOnly
<1>6. HeldOnce'
  BY DEF RetainDevice, EventsInv, HeldOnce
<1>7. Blank'
  BY DEF RetainDevice, pools, EventsInv, Blank
<1>8. HandsInv'
  BY DEF RetainDevice, pools, Goto, RegisterPcs, DeregisterPcs, TypeOK, HandsInv, EmptyHanded,
      Registers
<1>9. DevicesInv'
  BY DEF RetainDevice, pools, DevicesInv
<1>10. \A q \in Threads : KnowsNew(q)'
  <2> SUFFICES ASSUME NEW q \in Threads PROVE KnowsNew(q)'
    OBVIOUS
  <2>1. (pc[q] = "takeDevice" => ~devices[device[q]].used)'
    BY DEF RetainDevice, pools, Goto, TypeOK, KnowsNew
  <2>2. (pc[q] = "fill" => Bare(device[q]))'
    BY DEF RetainDevice, Bare, pools, Goto, KnowsNew
  <2>3. (pc[q] = "start" => Has(device[q], timer[q]) /\ devices[device[q]].repeating = ~once[q])'
    BY DEF RetainDevice, pools, Goto, Has, KnowsNew
  <2>4. (pc[q] \in {"fill", "start"} => Unnamed(device[q]))'
    BY DEF RetainDevice, Queued, pools, Goto, KnowsNew, Unnamed
  <2> QED BY <2>1, <2>2, <2>3, <2>4 DEF KnowsNew
<1>11. \A q \in Threads : KnowsWhole(q)'
  BY SMTT(30)
  DEF RetainDevice, Queued, pools, Goto, RegisterPcs, DeregisterPcs, FreeEvent, TypeOK, HandsInv,
      Registers, Ends, KnowsWhole, Untold, Unnamed
<1>12. \A q \in Threads : KnowsLast(q)'
  BY DEF RetainDevice, pools, Goto, DeregisterPcs, Ends, KnowsLast
<1>13. \A q \in Threads : KnowsFired(q)'
  BY DEF RetainDevice, pools, Goto, Has, KnowsFired
<1>14. OneHand'
  BY DEF RetainDevice, Goto, DeregisterPcs, OneHand, InHand
<1>15. OneTaker'
  BY DEF RetainDevice, Queued, pools, Goto, DeregisterPcs, OneTaker, InHand, Takes, Live
<1>16. OneKeeper'
  BY DEF RetainDevice, pools, Goto, TypeOK, OneKeeper, InHand
<1>17. Kept'
  <2> SUFFICES ASSUME NEW d \in Devices, devices'[d].used, devices'[d].timer = None
                PROVE  (\E q \in Threads : InHand(q, d)') \/ \E e \in Events : Takes(e, d)'
    BY DEF Kept
  <2>1. devices[d].used /\ devices[d].timer = None
    BY DEF RetainDevice, pools
  <2>2. CASE \E q \in Threads : InHand(q, d)
    <3>1. PICK q \in Threads : InHand(q, d)
      BY <2>2
    <3>2. InHand(q, d)'
      BY <2>1, <3>1 DEF RetainDevice, Goto, DeregisterPcs, InHand
    <3> QED BY <3>2
  <2>3. CASE \E e \in Events : Takes(e, d)
    <3>1. PICK e \in Events : Takes(e, d)
      BY <2>3
    <3>2. Takes(e, d)'
      BY <2>1, <3>1 DEF RetainDevice, Queued, pools, Goto, Takes, Live
    <3> QED BY <3>2
  <2> QED BY <2>1, <2>2, <2>3 DEF Kept
<1>18. TimerInv'
  BY DEF RetainDevice, pools, Goto, Ends, Has, TimerInv
<1>19. RegisterInv'
  BY DEF RetainDevice, pools, Goto, RegisterPcs, Registers, Has, RegisterInv
<1>20. NamesInv'
  BY SMTT(30)
  DEF RetainDevice, Queued, pools, Goto, DeregisterPcs, HandsInv, Registers, NamesInv, Live
<1> QED BY <1>1, <1>2, <1>3, <1>4, <1>5, <1>6, <1>7, <1>8, <1>9, <1>10, <1>11, <1>12, <1>13,
   <1>14, <1>15, <1>16, <1>17, <1>18, <1>19, <1>20
DEF EventsInv

\* The slot that was found is still free, as the lock was held, and no event names it: one
\* that does is stale, and with Fresh there is none during a registration.
LEMMA TakeDeviceStep == ASSUME Locked, Fresh, IInv, NEW w \in Workers, TakeDevice(w) PROVE IInv'
<1> USE HidAssumption DEF IInv
<1>1. TypeOK'
  <2>1. device[w] \in Devices
    BY DEF TakeDevice, TypeOK, HandsInv, Threads
  <2> DEFINE new == [FreeDevice EXCEPT !.used = TRUE]
  <2>2. new \in DeviceType
    BY <2>1, Slots DEF TypeOK
  <2>3. devices' = [devices EXCEPT ![device[w]] = new]
    BY DEF TakeDevice
  <2> HIDE DEF new
  <2>4. devices \in [Devices -> DeviceType]
    BY DEF TypeOK
  <2>5. devices' \in [Devices -> DeviceType]
    BY <2>2, <2>3, <2>4
  <2> QED BY <2>5 DEF TakeDevice, TypeOK, Goto, Threads, hand, RegisterPcs
<1>2. LockInv'
  BY DEF TakeDevice, Threads, Goto, TypeOK, LockInv
<1>3. Placed'
  BY DEF TakeDevice, Queued, hand, Goto, EventsInv, Placed
<1>4. QueuedOnce'
  BY DEF TakeDevice, EventsInv, QueuedOnce
<1>5. QueuedOnly'
  BY DEF TakeDevice, Queued, hand, EventsInv, QueuedOnly
<1>6. HeldOnce'
  BY DEF TakeDevice, hand, EventsInv, HeldOnce
<1>7. Blank'
  BY DEF TakeDevice, EventsInv, Blank
<1>8. HandsInv'
  BY DEF TakeDevice, hand, Goto, RegisterPcs, DeregisterPcs, TypeOK, HandsInv, EmptyHanded,
      Registers
<1>9. DevicesInv'
  BY DEF TakeDevice, FreeDevice, DevicesInv
<1>10. \A q \in Threads : KnowsNew(q)'
  <2> SUFFICES ASSUME NEW q \in Threads PROVE KnowsNew(q)'
    OBVIOUS
  <2>1. (pc[q] = "takeDevice" => ~devices[device[q]].used)'
    BY DEF TakeDevice, Threads, Goto, TypeOK, LockInv
  <2>2. (pc[q] = "fill" => Bare(device[q]))'
    BY SMTT(30) DEF TakeDevice, Bare, hand, Goto, FreeDevice, TypeOK, HandsInv, KnowsNew
  <2>3. (pc[q] = "start" => Has(device[q], timer[q]) /\ devices[device[q]].repeating = ~once[q])'
    <3>1. ~devices[device[w]].used /\ device[w] \in Devices
      BY DEF TakeDevice, KnowsNew, HandsInv, TypeOK, Threads
    <3>2. \A d \in Devices : devices[d].used => devices'[d] = devices[d]
      BY <3>1 DEF TakeDevice, TypeOK
    <3>3. pc'[q] = "start" => pc[q] = "start" /\ device'[q] = device[q] /\ timer'[q] = timer[q] /\ once'[q] = once[q]
      BY DEF TakeDevice, hand, Goto, TypeOK
    <3> QED BY <3>2, <3>3 DEF KnowsNew, Has, HandsInv, TypeOK
  <2>4. (pc[q] \in {"fill", "start"} => Unnamed(device[q]))'
    <3> SUFFICES ASSUME pc'[q] \in {"fill", "start"}, NEW e \in Events, events'[e].device = device'[q]
                 PROVE  /\ \A i \in DOMAIN queue' : queue'[i] # e
                        /\ \A r \in Threads : event'[r] = e => pc'[r] \in {"release", "releaseDevice"}
      BY DEF Unnamed, Queued
    <3>1. CASE q = w
      <4>1. ~devices[device[w]].used /\ device[w] \in Devices /\ stale = {} /\ events[e].device = device[w]
        BY <3>1
        DEF TakeDevice, KnowsNew, HandsInv, TypeOK, Threads, NamesInv, Registers, RegisterPcs,
            hand
      <4>2. ~Live(e)
        BY <4>1 DEF NamesInv
      <4>3. \A r \in Threads : event[r] = e => pc[r] \in {"release", "releaseDevice"}
        <5> SUFFICES ASSUME NEW r \in Threads, event[r] = e PROVE pc[r] \in {"release", "releaseDevice"}
          OBVIOUS
        <5>1. events[e].device # None /\ events[e].used
          BY <4>1 DEF EventsInv, Blank
        <5>2. pc[r] # "free" /\ pc[r] # "takeEvent" /\ pc[r] # "fillEvent"
          BY <4>2, <5>1 DEF Live, HandsInv, EventsInv, Placed, HeldOnce
        <5>3. pc[r] # "push" /\ pc[r] # "deregister" /\ pc[r] # "unflag"
          BY <4>1 DEF HandsInv, KnowsFired, KnowsLast, DeregisterPcs, Ends
        <5> QED BY <5>2, <5>3 DEF HandsInv, EmptyHanded, DeregisterPcs, TypeOK
      <4> QED BY <4>2, <4>3 DEF TakeDevice, Live, Queued, hand, Goto
    <3>2. CASE q # w
      BY <3>2 DEF TakeDevice, KnowsNew, Unnamed, Queued, hand, Goto
    <3> QED BY <3>1, <3>2
  <2> QED BY <2>1, <2>2, <2>3, <2>4 DEF KnowsNew
<1>11. \A q \in Threads : KnowsWhole(q)'
  BY SMTT(30)
  DEF TakeDevice, Queued, Threads, hand, Goto, DeregisterPcs, HandsInv, Registers, Ends,
      KnowsWhole, Untold, Unnamed, KnowsNew
<1>12. \A q \in Threads : KnowsLast(q)'
  BY DEF TakeDevice, Threads, hand, Goto, HandsInv, EmptyHanded, Ends, KnowsLast, KnowsNew
<1>13. \A q \in Threads : KnowsFired(q)'
  BY DEF TakeDevice, Threads, hand, Goto, Has, KnowsFired, KnowsNew
<1>14. OneHand'
  BY SMTT(30)
  DEF TakeDevice, Bare, hand, Goto, Has, OneHand, InHand, KnowsNew, KnowsWhole, KnowsLast,
      KnowsFired
<1>15. OneTaker'
  BY DEF TakeDevice, Queued, Threads, hand, Goto, OneTaker, InHand, Takes, Live, KnowsNew,
      NamesInv
<1>16. OneKeeper'
  BY DEF TakeDevice, Threads, hand, Goto, OneKeeper, InHand, KnowsNew
<1>17. Kept'
  <2> SUFFICES ASSUME NEW d \in Devices, devices'[d].used, devices'[d].timer = None
                PROVE  (\E q \in Threads : InHand(q, d)') \/ \E e \in Events : Takes(e, d)'
    BY DEF Kept
  <2>1. CASE d = device[w]
    BY <2>1 DEF TakeDevice, Goto, Threads, hand, InHand, TypeOK
  <2>2. CASE d # device[w]
    <3>1. devices'[d] = devices[d]
      BY <2>2 DEF TakeDevice, TypeOK
    <3>2. CASE \E q \in Threads : InHand(q, d)
      <4>1. PICK q \in Threads : InHand(q, d)
        BY <3>2
      <4> QED BY <4>1 DEF TakeDevice, Goto, hand, InHand
    <3>3. CASE \E e \in Events : Takes(e, d)
      <4>1. PICK e \in Events : Takes(e, d)
        BY <3>3
      <4>2. Live(e)'
        BY <4>1 DEF TakeDevice, Goto, hand, Takes, Live, Queued
      <4> QED BY <3>1, <4>1, <4>2 DEF TakeDevice, Takes
    <3> QED BY <3>1, <3>2, <3>3 DEF Kept
  <2> QED BY <2>1, <2>2
<1>18. TimerInv'
  BY DEF TakeDevice, Threads, hand, Goto, FreeDevice, Ends, Has, TimerInv, KnowsNew
<1>19. RegisterInv'
  BY DEF TakeDevice, Threads, hand, Goto, RegisterPcs, FreeDevice, HandsInv, Registers, Has,
      RegisterInv
<1>20. NamesInv'
  BY DEF TakeDevice, Queued, Threads, hand, Goto, RegisterPcs, Registers, NamesInv, Live, KnowsNew
<1> QED BY <1>1, <1>2, <1>3, <1>4, <1>5, <1>6, <1>7, <1>8, <1>9, <1>10, <1>11, <1>12, <1>13,
   <1>14, <1>15, <1>16, <1>17, <1>18, <1>19, <1>20
DEF EventsInv

\* No slot: the timer of the registration, which no device has, is given back.
LEMMA RetainNoDeviceStep == ASSUME Locked, Fresh, IInv, NEW w \in Workers, RetainNoDevice(w) PROVE IInv'
<1> USE HidAssumption DEF IInv
<1>1. TypeOK'
  BY DEF RetainNoDevice, Threads, pools, Goto, DeregisterPcs, TypeOK, HandsInv, Registers
<1>2. LockInv'
  BY DEF RetainNoDevice, Goto, TypeOK, LockInv
<1>3. Placed'
  <2>1. \A q \in Threads : pc'[q] = "takeEvent" <=> pc[q] = "takeEvent"
    BY DEF RetainNoDevice, Goto, TypeOK, Threads
  <2> QED BY <2>1 DEF RetainNoDevice, pools, Placed, Queued, EventsInv
<1>4. QueuedOnce'
  BY DEF RetainNoDevice, Goto, EventsInv, QueuedOnce
<1>5. QueuedOnly'
  BY DEF RetainNoDevice, Queued, EventsInv, QueuedOnly
<1>6. HeldOnce'
  BY DEF RetainNoDevice, Goto, EventsInv, HeldOnce
<1>7. Blank'
  BY DEF RetainNoDevice, pools, EventsInv, Blank
<1>8. HandsInv'
  BY DEF RetainNoDevice, pools, Goto, RegisterPcs, DeregisterPcs, TypeOK, HandsInv, EmptyHanded,
      Registers
<1>9. DevicesInv'
  BY DEF RetainNoDevice, pools, FreeDevice, DevicesInv
<1>10. \A q \in Threads : KnowsNew(q)'
  <2> SUFFICES ASSUME NEW q \in Threads PROVE KnowsNew(q)'
    OBVIOUS
  <2>1. (pc[q] = "takeDevice" => ~devices[device[q]].used)'
    BY DEF RetainNoDevice, pools, Goto, KnowsNew
  <2>2. (pc[q] = "fill" => Bare(device[q]))'
    BY DEF RetainNoDevice, Bare, pools, Goto, KnowsNew
  <2>3. (pc[q] = "start" => Has(device[q], timer[q]) /\ devices[device[q]].repeating = ~once[q])'
    BY DEF RetainNoDevice, pools, Goto, Has, KnowsNew
  <2>4. (pc[q] \in {"fill", "start"} => Unnamed(device[q]))'
    BY DEF RetainNoDevice, Queued, pools, Goto, KnowsNew, Unnamed
  <2> QED BY <2>1, <2>2, <2>3, <2>4 DEF KnowsNew
<1>11. \A q \in Threads : KnowsWhole(q)'
  <2> SUFFICES ASSUME NEW q \in Threads PROVE KnowsWhole(q)'
    OBVIOUS
  <2> HIDE DEF IInv
  <2>1. \A v \in Workers : Registers(v)' => Registers(v)
    BY DEF RetainNoDevice, Goto, Registers, RegisterPcs
  <2>2. pc'[q] \in DeregisterPcs /\ Ends(q)' => pc[q] = pc'[q] /\ Ends(q)
    BY DEF RetainNoDevice, Goto, Ends, DeregisterPcs
  <2>3. pc[q] \in DeregisterPcs /\ Ends(q) => device[q] \in Devices /\ devices[device[q]].timer \in Timers
    BY DEF KnowsWhole, HandsInv, TypeOK, DeviceType, IInv
  <2>4. devices[device[q]].timer \in Timers /\ device[q] \in Devices /\ Untold(device[q]) => Untold(device[q])'
    <3>1. device[q] \in Devices /\ Unnamed(device[q]) => Unnamed(device[q])'
      BY DEF RetainNoDevice, Goto, Unnamed, Queued, pools
    <3> QED BY <3>1 DEF RetainNoDevice, Goto, Untold, pools
  <2> QED BY <2>1, <2>2, <2>3, <2>4 DEF IInv, RetainNoDevice, Goto, pools, KnowsWhole, TypeOK
<1>12. \A q \in Threads : KnowsLast(q)'
  BY DEF RetainNoDevice, pools, Goto, HandsInv, EmptyHanded, Ends, KnowsLast
<1>13. \A q \in Threads : KnowsFired(q)'
  BY DEF RetainNoDevice, pools, Goto, Has, KnowsFired
<1>14. OneHand'
  BY DEF RetainNoDevice, Goto, DeregisterPcs, OneHand, InHand
<1>15. OneTaker'
  BY DEF RetainNoDevice, Queued, pools, Goto, DeregisterPcs, OneTaker, InHand, Takes, Live
<1>16. OneKeeper'
  BY DEF RetainNoDevice, pools, Goto, DeregisterPcs, OneKeeper, InHand
<1>17. Kept'
  <2> SUFFICES ASSUME NEW d \in Devices, devices'[d].used, devices'[d].timer = None
                PROVE  (\E q \in Threads : InHand(q, d)') \/ \E e \in Events : Takes(e, d)'
    BY DEF Kept
  <2>1. devices[d].used /\ devices[d].timer = None
    BY DEF RetainNoDevice, pools, Goto, TypeOK
  <2>2. CASE \E q \in Threads : InHand(q, d)
    <3>1. PICK q \in Threads : InHand(q, d)
      BY <2>2
    <3>2. InHand(q, d)'
      BY <2>1, <3>1 DEF RetainNoDevice, Goto, DeregisterPcs, InHand
    <3> QED BY <3>2
  <2>3. CASE \E e \in Events : Takes(e, d)
    <3>1. PICK e \in Events : Takes(e, d)
      BY <2>3
    <3>2. Takes(e, d)'
      BY <2>1, <3>1 DEF RetainNoDevice, Queued, pools, Goto, Takes, Live
    <3> QED BY <3>2
  <2> QED BY <2>1, <2>2, <2>3 DEF Kept
<1>18. TimerInv'
  BY DEF RetainNoDevice, Threads, pools, Goto, DeregisterPcs, HandsInv, Registers, Ends, Has,
      TimerInv, RegisterInv
<1>19. RegisterInv'
  BY DEF RetainNoDevice, Threads, pools, Goto, DeregisterPcs, TypeOK, HandsInv, Registers, Has,
      TimerInv, RegisterInv
<1>20. NamesInv'
  BY DEF RetainNoDevice, Queued, pools, Goto, DeregisterPcs, HandsInv, Registers, NamesInv, Live
<1> QED BY <1>1, <1>2, <1>3, <1>4, <1>5, <1>6, <1>7, <1>8, <1>9, <1>10, <1>11, <1>12, <1>13,
   <1>14, <1>15, <1>16, <1>17, <1>18, <1>19, <1>20
DEF EventsInv

\* The device gets the timer of its registration, which no other device has.
LEMMA FillStep == ASSUME Locked, Fresh, IInv, NEW w \in Workers, Fill(w) PROVE IInv'
<1> USE HidAssumption DEF IInv
<1>1. TypeOK'
  <2>1. device[w] \in Devices /\ timer[w] \in Timers /\ (~once[w]) \in BOOLEAN
    BY DEF Fill, TypeOK, HandsInv, Registers, RegisterPcs, Threads
  <2> DEFINE new == [devices[device[w]] EXCEPT !.timer = timer[w], !.repeating = ~once[w], !.remove = FALSE]
  <2>2. new \in DeviceType
    BY <2>1, Fields DEF TypeOK
  <2>3. devices' = [devices EXCEPT ![device[w]] = new]
    BY DEF Fill
  <2> HIDE DEF new
  <2>4. devices \in [Devices -> DeviceType]
    BY DEF TypeOK
  <2>5. devices' \in [Devices -> DeviceType]
    BY <2>2, <2>3, <2>4
  <2> QED BY <2>5 DEF Fill, TypeOK, Goto, Threads, hand, RegisterPcs
<1>2. LockInv'
  BY DEF Fill, Goto, TypeOK, LockInv
<1>3. Placed'
  BY DEF Fill, Queued, hand, Goto, EventsInv, Placed
<1>4. QueuedOnce'
  BY DEF Fill, Goto, EventsInv, QueuedOnce
<1>5. QueuedOnly'
  BY DEF Fill, Queued, hand, EventsInv, QueuedOnly
<1>6. HeldOnce'
  BY DEF Fill, hand, EventsInv, HeldOnce
<1>7. Blank'
  BY DEF Fill, Goto, EventsInv, Blank
<1>8. HandsInv'
  BY DEF Fill, hand, Goto, RegisterPcs, HandsInv, EmptyHanded, Registers
<1>9. DevicesInv'
  BY DEF Fill, Bare, Threads, DeregisterPcs, HandsInv, Registers, DevicesInv, KnowsNew
<1>10. \A q \in Threads : KnowsNew(q)'
  <2> SUFFICES ASSUME NEW q \in Threads PROVE KnowsNew(q)'
    OBVIOUS
  <2>1. (pc[q] = "takeDevice" => ~devices[device[q]].used)'
    BY DEF Fill, hand, Goto, KnowsNew
  <2>2. (pc[q] = "fill" => Bare(device[q]))'
    BY DEF Fill, Bare, Threads, hand, Goto, TypeOK, KnowsNew, OneHand, InHand
  <2>3. (pc[q] = "start" => Has(device[q], timer[q]) /\ devices[device[q]].repeating = ~once[q])'
    BY DEF Fill, Bare, Threads, hand, Goto, TypeOK, HandsInv, Has, KnowsNew, OneHand, InHand
  <2>4. (pc[q] \in {"fill", "start"} => Unnamed(device[q]))'
    BY DEF Fill, Queued, hand, Goto, KnowsNew, Unnamed
  <2> QED BY <2>1, <2>2, <2>3, <2>4 DEF KnowsNew
<1>11. \A q \in Threads : KnowsWhole(q)'
  BY DEF Fill, Queued, Threads, hand, Goto, DeregisterPcs, TypeOK, HandsInv, EmptyHanded,
      Registers, Ends, KnowsWhole, Untold, Unnamed, OneHand, InHand
<1>12. \A q \in Threads : KnowsLast(q)'
  BY DEF Fill, Threads, hand, Goto, DeregisterPcs, TypeOK, Ends, KnowsLast, OneHand, InHand
<1>13. \A q \in Threads : KnowsFired(q)'
  BY DEF Fill, Bare, Threads, hand, Goto, Has, KnowsFired, KnowsNew
<1>14. OneHand'
  BY DEF Fill, hand, Goto, OneHand, InHand
<1>15. OneTaker'
  BY DEF Fill, Queued, Threads, hand, Goto, OneTaker, InHand, Takes, Live, KnowsNew, Unnamed
<1>16. OneKeeper'
  BY DEF Fill, Threads, hand, Goto, OneKeeper, InHand
<1>17. Kept'
  <2> SUFFICES ASSUME NEW d \in Devices, devices'[d].used, devices'[d].timer = None
                PROVE  (\E q \in Threads : InHand(q, d)') \/ \E e \in Events : Takes(e, d)'
    BY DEF Kept
  <2>1. devices[d].used /\ devices[d].timer = None
    BY DEF Fill, Threads, DeregisterPcs, HandsInv, Registers
  <2>2. CASE \E q \in Threads : InHand(q, d)
    <3>1. PICK q \in Threads : InHand(q, d)
      BY <2>2
    <3>2. InHand(q, d)'
      BY <2>1, <3>1 DEF Fill, hand, Goto, InHand
    <3> QED BY <3>2
  <2>3. CASE \E e \in Events : Takes(e, d)
    <3>1. PICK e \in Events : Takes(e, d)
      BY <2>3
    <3>2. Takes(e, d)'
      BY <2>1, <3>1
      DEF Fill, Queued, Threads, hand, Goto, RegisterPcs, HandsInv, Registers, Takes, Live
    <3> QED BY <3>2
  <2> QED BY <2>1, <2>2, <2>3 DEF Kept
<1>18. TimerInv'
  BY DEF Fill, Bare, Threads, hand, Goto, RegisterPcs, Registers, Ends, Has, TimerInv,
      RegisterInv, KnowsNew
<1>19. RegisterInv'
  BY DEF Fill, Threads, hand, Goto, DeregisterPcs, TypeOK, HandsInv, EmptyHanded, Registers, Ends,
      Has, RegisterInv
<1>20. NamesInv'
  BY DEF Fill, Queued, Threads, hand, Goto, RegisterPcs, Registers, NamesInv, Live, KnowsNew,
      Unnamed
<1> QED BY <1>1, <1>2, <1>3, <1>4, <1>5, <1>6, <1>7, <1>8, <1>9, <1>10, <1>11, <1>12, <1>13,
   <1>14, <1>15, <1>16, <1>17, <1>18, <1>19, <1>20
DEF EventsInv

\* The timer may fire from here on, and leads to its device; a repeating device is its worker's
\* to deregister.
LEMMA StartedStep == ASSUME Locked, Fresh, IInv, NEW w \in Workers, Started(w) PROVE IInv'
<1> USE HidAssumption DEF IInv
<1>1. TypeOK'
  BY DEF Started, Threads, pools, Goto, RegisterPcs, TypeOK, HandsInv, Registers
<1>2. LockInv'
  BY DEF Started, Goto, TypeOK, LockInv
<1>3. Placed'
  BY DEF Started, Queued, pools, Goto, EventsInv, Placed
<1>4. QueuedOnce'
  BY DEF Started, Goto, EventsInv, QueuedOnce
<1>5. QueuedOnly'
  BY DEF Started, Queued, EventsInv, QueuedOnly
<1>6. HeldOnce'
  BY DEF Started, Goto, EventsInv, HeldOnce
<1>7. Blank'
  BY DEF Started, pools, EventsInv, Blank
<1>8. HandsInv'
  BY DEF Started, pools, Goto, RegisterPcs, DeregisterPcs, TypeOK, HandsInv, EmptyHanded,
      Registers
<1>9. DevicesInv'
  BY DEF Started, pools, FreeDevice, DevicesInv
<1>10. \A q \in Threads : KnowsNew(q)'
  <2> SUFFICES ASSUME NEW q \in Threads PROVE KnowsNew(q)'
    OBVIOUS
  <2>1. (pc[q] = "takeDevice" => ~devices[device[q]].used)'
    BY DEF Started, pools, Goto, KnowsNew
  <2>2. (pc[q] = "fill" => Bare(device[q]))'
    BY DEF Started, Bare, pools, Goto, KnowsNew
  <2>3. (pc[q] = "start" => Has(device[q], timer[q]) /\ devices[device[q]].repeating = ~once[q])'
    BY DEF Started, pools, Goto, TypeOK, Has, KnowsNew
  <2>4. (pc[q] \in {"fill", "start"} => Unnamed(device[q]))'
    BY DEF Started, Queued, pools, Goto, TypeOK, KnowsNew, Unnamed
  <2> QED BY <2>1, <2>2, <2>3, <2>4 DEF KnowsNew
<1>11. \A q \in Threads : KnowsWhole(q)'
  BY DEF Started, Queued, Threads, pools, Goto, RegisterPcs, DeregisterPcs, TypeOK, HandsInv,
      EmptyHanded, Registers, Ends, Has, KnowsWhole, Untold, Unnamed, KnowsNew, KnowsFired,
      OneHand, InHand, TimerInv
<1>12. \A q \in Threads : KnowsLast(q)'
  BY DEF Started, pools, Goto, DeregisterPcs, Ends, KnowsLast
<1>13. \A q \in Threads : KnowsFired(q)'
  BY DEF Started, Threads, pools, Goto, TypeOK, DeviceType, HandsInv, Has, KnowsFired, KnowsNew,
      OneHand, InHand, TimerInv
<1>14. OneHand'
  BY DEF Started, Goto, OneHand, InHand
<1>15. OneTaker'
  BY DEF Started, Queued, pools, Goto, OneTaker, InHand, Takes, Live
<1>16. OneKeeper'
  BY DEF Started, Threads, pools, Goto, TypeOK, DeviceType, HandsInv, Has, OneKeeper, InHand,
      KnowsNew, OneHand
<1>17. Kept'
  <2> SUFFICES ASSUME NEW d \in Devices, devices'[d].used, devices'[d].timer = None
                PROVE  (\E q \in Threads : InHand(q, d)') \/ \E e \in Events : Takes(e, d)'
    BY DEF Kept
  <2>1. devices[d].used /\ devices[d].timer = None
    BY DEF Started, pools, Goto, TypeOK
  <2>2. CASE \E q \in Threads : InHand(q, d)
    <3>1. PICK q \in Threads : InHand(q, d)
      BY <2>2
    <3>2. InHand(q, d)'
      <4>1. q # w
        BY <2>1, <3>1
        DEF Started, KnowsNew, HandsInv, Registers, RegisterPcs, InHand, Has, Threads
      <4> QED BY <3>1, <4>1 DEF Started, Goto, InHand
    <3> QED BY <3>2
  <2>3. CASE \E e \in Events : Takes(e, d)
    <3>1. PICK e \in Events : Takes(e, d)
      BY <2>3
    <3>2. Takes(e, d)'
      BY <2>1, <3>1 DEF Started, Queued, pools, Goto, Takes, Live
    <3> QED BY <3>2
  <2> QED BY <2>1, <2>2, <2>3 DEF Kept
<1>18. TimerInv'
  BY DEF Started, Threads, pools, Goto, TypeOK, HandsInv, Ends, Has, TimerInv, KnowsNew, KnowsLast
<1>19. RegisterInv'
  BY DEF Started, Threads, pools, Goto, DeregisterPcs, TypeOK, HandsInv, Registers, Has, TimerInv,
      RegisterInv, KnowsNew, KnowsWhole
<1>20. NamesInv'
  BY DEF Started, Queued, pools, Goto, DeregisterPcs, HandsInv, Registers, NamesInv, Live
<1> QED BY <1>1, <1>2, <1>3, <1>4, <1>5, <1>6, <1>7, <1>8, <1>9, <1>10, <1>11, <1>12, <1>13,
   <1>14, <1>15, <1>16, <1>17, <1>18, <1>19, <1>20
DEF EventsInv

\* A registration that fails goes on as a deregistration of a device nobody knows of.
LEMMA StartFailsStep == ASSUME Locked, Fresh, IInv, NEW w \in Workers, StartFails(w) PROVE IInv'
<1> USE HidAssumption DEF IInv
<1>1. TypeOK'
  BY DEF StartFails, Threads, pools, hand, Goto, DeregisterPcs, TypeOK
<1>2. LockInv'
  BY DEF StartFails, Goto, TypeOK, LockInv
<1>3. Placed'
  BY DEF StartFails, Queued, pools, hand, Goto, EventsInv, Placed
<1>4. QueuedOnce'
  BY DEF StartFails, Goto, EventsInv, QueuedOnce
<1>5. QueuedOnly'
  BY DEF StartFails, Queued, hand, EventsInv, QueuedOnly
<1>6. HeldOnce'
  BY DEF StartFails, hand, EventsInv, HeldOnce
<1>7. Blank'
  BY DEF StartFails, pools, EventsInv, Blank
<1>8. HandsInv'
  BY DEF StartFails, pools, hand, Goto, DeregisterPcs, HandsInv, EmptyHanded, Registers
<1>9. DevicesInv'
  BY DEF StartFails, pools, FreeDevice, DevicesInv
<1>10. \A q \in Threads : KnowsNew(q)'
  <2> SUFFICES ASSUME NEW q \in Threads PROVE KnowsNew(q)'
    OBVIOUS
  <2>1. (pc[q] = "takeDevice" => ~devices[device[q]].used)'
    BY DEF StartFails, pools, hand, Goto, KnowsNew
  <2>2. (pc[q] = "fill" => Bare(device[q]))'
    BY DEF StartFails, Bare, pools, hand, Goto, KnowsNew
  <2>3. (pc[q] = "start" => Has(device[q], timer[q]) /\ devices[device[q]].repeating = ~once[q])'
    BY DEF StartFails, pools, hand, Goto, Has, KnowsNew
  <2>4. (pc[q] \in {"fill", "start"} => Unnamed(device[q]))'
    BY DEF StartFails, Queued, pools, hand, Goto, KnowsNew, Unnamed
  <2> QED BY <2>1, <2>2, <2>3, <2>4 DEF KnowsNew
<1>11. \A q \in Threads : KnowsWhole(q)'
  BY DEF StartFails, Queued, Threads, pools, hand, Goto, RegisterPcs, HandsInv, Registers, Ends,
      Has, KnowsWhole, Untold, Unnamed, KnowsNew, TimerInv, RegisterInv
<1>12. \A q \in Threads : KnowsLast(q)'
  BY DEF StartFails, pools, hand, Goto, HandsInv, EmptyHanded, Ends, KnowsLast
<1>13. \A q \in Threads : KnowsFired(q)'
  BY DEF StartFails, pools, hand, Goto, Has, KnowsFired
<1>14. OneHand'
  BY DEF StartFails, hand, Goto, OneHand, InHand
<1>15. OneTaker'
  BY DEF StartFails, Queued, pools, hand, Goto, OneTaker, InHand, Takes, Live
<1>16. OneKeeper'
  BY DEF StartFails, pools, hand, Goto, OneKeeper, InHand
<1>17. Kept'
  <2> SUFFICES ASSUME NEW d \in Devices, devices'[d].used, devices'[d].timer = None
                PROVE  (\E q \in Threads : InHand(q, d)') \/ \E e \in Events : Takes(e, d)'
    BY DEF Kept
  <2>1. devices[d].used /\ devices[d].timer = None
    BY DEF StartFails, pools, Goto, TypeOK
  <2>2. CASE \E q \in Threads : InHand(q, d)
    <3>1. PICK q \in Threads : InHand(q, d)
      BY <2>2
    <3>2. InHand(q, d)'
      BY <2>1, <3>1 DEF StartFails, hand, Goto, DeregisterPcs, InHand
    <3> QED BY <3>2
  <2>3. CASE \E e \in Events : Takes(e, d)
    <3>1. PICK e \in Events : Takes(e, d)
      BY <2>3
    <3>2. Takes(e, d)'
      BY <2>1, <3>1 DEF StartFails, Queued, pools, hand, Goto, Takes, Live
    <3> QED BY <3>2
  <2> QED BY <2>1, <2>2, <2>3 DEF Kept
<1>18. TimerInv'
  BY DEF StartFails, pools, hand, Goto, Ends, Has, TimerInv
<1>19. RegisterInv'
  BY DEF StartFails, pools, hand, Goto, RegisterPcs, Registers, Has, RegisterInv
<1>20. NamesInv'
  BY DEF StartFails, Queued, pools, hand, Goto, DeregisterPcs, HandsInv, Registers, NamesInv, Live
<1> QED BY <1>1, <1>2, <1>3, <1>4, <1>5, <1>6, <1>7, <1>8, <1>9, <1>10, <1>11, <1>12, <1>13,
   <1>14, <1>15, <1>16, <1>17, <1>18, <1>19, <1>20
DEF EventsInv

-----------------------------------------------------------------------------
(* So do the beginning of a deregistration and of a handler, *)

\* hid_deregister of a repeating device by the worker that has it.
LEMMA BeginDeregisterStep == ASSUME Locked, Fresh, IInv, NEW w \in Workers, BeginDeregister(w) PROVE IInv'
<1> USE HidAssumption DEF IInv
<1>1. TypeOK'
  BY DEF BeginDeregister, Threads, pools, Goto, DeregisterPcs, TypeOK
<1>2. LockInv'
  BY DEF BeginDeregister, Goto, TypeOK, LockInv
<1>3. Placed'
  BY DEF BeginDeregister, Queued, pools, Goto, EventsInv, Placed
<1>4. QueuedOnce'
  BY DEF BeginDeregister, Goto, EventsInv, QueuedOnce
<1>5. QueuedOnly'
  BY DEF BeginDeregister, Queued, EventsInv, QueuedOnly
<1>6. HeldOnce'
  BY DEF BeginDeregister, Goto, EventsInv, HeldOnce
<1>7. Blank'
  BY DEF BeginDeregister, pools, EventsInv, Blank
<1>8. HandsInv'
  BY DEF BeginDeregister, pools, Goto, RegisterPcs, DeregisterPcs, TypeOK, HandsInv, EmptyHanded,
      Registers
<1>9. DevicesInv'
  BY DEF BeginDeregister, pools, FreeDevice, DevicesInv
<1>10. \A q \in Threads : KnowsNew(q)'
  <2> SUFFICES ASSUME NEW q \in Threads PROVE KnowsNew(q)'
    OBVIOUS
  <2>1. (pc[q] = "takeDevice" => ~devices[device[q]].used)'
    BY DEF BeginDeregister, pools, Goto, KnowsNew
  <2>2. (pc[q] = "fill" => Bare(device[q]))'
    BY DEF BeginDeregister, Bare, pools, Goto, KnowsNew
  <2>3. (pc[q] = "start" => Has(device[q], timer[q]) /\ devices[device[q]].repeating = ~once[q])'
    BY DEF BeginDeregister, pools, Goto, Has, KnowsNew
  <2>4. (pc[q] \in {"fill", "start"} => Unnamed(device[q]))'
    BY DEF BeginDeregister, Queued, pools, Goto, KnowsNew, Unnamed
  <2> QED BY <2>1, <2>2, <2>3, <2>4 DEF KnowsNew
<1>11. \A q \in Threads : KnowsWhole(q)'
  <2> SUFFICES ASSUME NEW q \in Threads PROVE KnowsWhole(q)'
    OBVIOUS
  <2>1. CASE q = w
    <3>1. device'[w] \in owned[w] /\ pc'[w] = "deregister" /\ \A v \in Workers : ~Registers(v)
      BY DEF BeginDeregister, Goto, TypeOK, Threads, Registers
    <3>2. devices[device'[w]].used /\ devices[device'[w]].repeating /\ devices[device'[w]].timer # None
      BY <3>1 DEF OneKeeper, DevicesInv, TypeOK
    <3>3. \A v \in Workers : ~Registers(v)'
      BY <3>1 DEF BeginDeregister, Goto, Registers, RegisterPcs
    <3> QED BY <2>1, <3>1, <3>2, <3>3 DEF BeginDeregister, pools, KnowsWhole, TypeOK
  <2>2. CASE q # w
    <3>1. \A v \in Workers : Registers(v)' => Registers(v)
      BY DEF BeginDeregister, Goto, Registers, RegisterPcs
    <3>2. devices[device[q]].timer \in Timers /\ Untold(device[q]) => Untold(device[q])'
      <4>1. Unnamed(device[q]) => Unnamed(device[q])'
        BY <2>2 DEF BeginDeregister, Goto, Unnamed, Queued, pools
      <4> QED BY <4>1, <2>2 DEF BeginDeregister, Goto, Untold, pools
    <3> HIDE DEF IInv
    <3>3. pc'[q] \in DeregisterPcs /\ Ends(q) => devices[device[q]].timer \in Timers
      BY <2>2 DEF BeginDeregister, Goto, KnowsWhole, HandsInv, TypeOK, DeviceType, IInv
    <3> QED BY <2>2, <3>1, <3>2, <3>3 DEF IInv, BeginDeregister, Goto, pools, KnowsWhole, Ends
  <2> QED BY <2>1, <2>2
<1>12. \A q \in Threads : KnowsLast(q)'
  BY DEF BeginDeregister, pools, Goto, HandsInv, EmptyHanded, Ends, KnowsLast
<1>13. \A q \in Threads : KnowsFired(q)'
  BY DEF BeginDeregister, pools, Goto, Has, KnowsFired
<1>14. OneHand'
  BY DEF BeginDeregister, Goto, TypeOK, OneHand, InHand, OneKeeper
<1>15. OneTaker'
  <2> SUFFICES ASSUME NEW d \in Devices, NEW e \in Events, Takes(e, d)'
               PROVE  /\ \A q \in Threads : ~InHand(q, d)'
                      /\ \A f \in Events : Takes(f, d)' => e = f
    BY DEF OneTaker
  <2>1. \A f \in Events : Takes(f, d)' => Takes(f, d)
    BY DEF BeginDeregister, pools, Takes, Live, Queued, Goto
  <2>2. \A q \in Threads : InHand(q, d)' => InHand(q, d) \/ devices[d].repeating
    BY DEF BeginDeregister, InHand, Goto, OneKeeper, TypeOK
  <2> QED BY <2>1, <2>2 DEF OneTaker, Takes
<1>16. OneKeeper'
  BY DEF BeginDeregister, pools, Goto, TypeOK, OneKeeper, InHand
<1>17. Kept'
  <2> SUFFICES ASSUME NEW d \in Devices, devices'[d].used, devices'[d].timer = None
                PROVE  (\E q \in Threads : InHand(q, d)') \/ \E e \in Events : Takes(e, d)'
    BY DEF Kept
  <2>1. devices[d].used /\ devices[d].timer = None
    BY DEF BeginDeregister, pools, Goto, TypeOK
  <2>2. CASE \E q \in Threads : InHand(q, d)
    <3>1. PICK q \in Threads : InHand(q, d)
      BY <2>2
    <3>2. InHand(q, d)'
      BY <2>1, <3>1 DEF BeginDeregister, Goto, DeregisterPcs, InHand
    <3> QED BY <3>2
  <2>3. CASE \E e \in Events : Takes(e, d)
    <3>1. PICK e \in Events : Takes(e, d)
      BY <2>3
    <3>2. Takes(e, d)'
      BY <2>1, <3>1 DEF BeginDeregister, Queued, pools, Goto, Takes, Live
    <3> QED BY <3>2
  <2> QED BY <2>1, <2>2, <2>3 DEF Kept
<1>18. TimerInv'
  BY DEF BeginDeregister, pools, Goto, Ends, Has, TimerInv
<1>19. RegisterInv'
  BY DEF BeginDeregister, Goto, RegisterPcs, Registers, RegisterInv
<1>20. NamesInv'
  BY DEF BeginDeregister, Queued, pools, Goto, RegisterPcs, Registers, NamesInv, Live
<1> QED BY <1>1, <1>2, <1>3, <1>4, <1>5, <1>6, <1>7, <1>8, <1>9, <1>10, <1>11, <1>12, <1>13,
   <1>14, <1>15, <1>16, <1>17, <1>18, <1>19, <1>20
DEF EventsInv

\* The event goes from the queue into the hand of one worker.
LEMMA PopStep == ASSUME Locked, Fresh, IInv, NEW w \in Workers, Pop(w) PROVE IInv'
<1> USE HidAssumption DEF IInv
<1>q. /\ Head(queue) \in Events /\ Queued(Head(queue))
      /\ \A e \in Events : Queued(e)' <=> Queued(e) /\ e # Head(queue)
  BY Popped DEF Pop, EventsInv
<1>r. /\ pc[w] = "idle" /\ w \in Threads /\ event[w] = None /\ event'[w] = Head(queue) /\ pc'[w] = "free"
      /\ \A v \in Threads \ {w} : event'[v] = event[v] /\ pc'[v] = pc[v]
  BY DEF Pop, Goto, HandsInv, EmptyHanded, TypeOK, Threads
<1>1. TypeOK'
  BY DEF Pop, Threads, pools, Goto, TypeOK
<1>2. LockInv'
  BY DEF Pop, Goto, TypeOK, LockInv
<1>3. Placed'
  <2>1. event' = [event EXCEPT ![w] = Head(queue)] /\ pc' = [pc EXCEPT ![w] = "free"] /\ events' = events
    BY DEF Pop, Goto, pools
  <2>2. event[w] = None /\ pc[w] = "idle" /\ w \in Threads
    BY DEF Pop, HandsInv, EmptyHanded, Threads
  <2>3. event'[w] = Head(queue) /\ pc'[w] = "free" /\ \A q \in Threads \ {w} : event'[q] = event[q] /\ pc'[q] = pc[q]
    BY <2>1, <2>2 DEF TypeOK
  <2> QED BY <1>q, <2>1, <2>2, <2>3 DEF Placed, EventsInv
<1>4. QueuedOnce'
  BY DEF Pop, Goto, EventsInv, QueuedOnce
<1>5. QueuedOnly'
  <2>1. \A q \in Threads : event'[q] = event[q] \/ event'[q] = Head(queue)
    BY <1>r
  <2> QED
    BY <1>q, <2>1 DEF EventsInv, QueuedOnly
<1>6. HeldOnce'
  BY DEF Pop, Queued, TypeOK, EventsInv, HeldOnce, QueuedOnly
<1>7. Blank'
  BY DEF Pop, pools, EventsInv, Blank
<1>8. HandsInv'
  BY DEF Pop, Queued, pools, Goto, RegisterPcs, DeregisterPcs, TypeOK, HandsInv, EmptyHanded,
      Registers, NamesInv, Live
<1>9. DevicesInv'
  BY DEF Pop, pools, FreeDevice, DevicesInv
<1>10. \A q \in Threads : KnowsNew(q)'
  <2> SUFFICES ASSUME NEW q \in Threads PROVE KnowsNew(q)'
    OBVIOUS
  <2>1. (pc[q] = "takeDevice" => ~devices[device[q]].used)'
    BY DEF Pop, pools, Goto, KnowsNew
  <2>2. (pc[q] = "fill" => Bare(device[q]))'
    BY DEF Pop, Bare, pools, Goto, KnowsNew
  <2>3. (pc[q] = "start" => Has(device[q], timer[q]) /\ devices[device[q]].repeating = ~once[q])'
    BY DEF Pop, pools, Goto, Has, KnowsNew
  <2>4. (pc[q] \in {"fill", "start"} => Unnamed(device[q]))'
    BY <1>q, <1>r DEF Pop, pools, KnowsNew, Unnamed
  <2> QED BY <2>1, <2>2, <2>3, <2>4 DEF KnowsNew
<1>11. \A q \in Threads : KnowsWhole(q)'
  <2> SUFFICES ASSUME NEW q \in Threads PROVE KnowsWhole(q)'
    OBVIOUS
  <2> HIDE DEF IInv
  <2>1. \A v \in Workers : Registers(v)' => Registers(v)
    BY DEF Pop, Goto, Registers, RegisterPcs
  <2>2. pc'[q] \in DeregisterPcs /\ Ends(q)' => pc[q] = pc'[q] /\ Ends(q)
    BY <1>r DEF Threads, Ends, DeregisterPcs
  <2>3. pc[q] \in DeregisterPcs /\ Ends(q) => device[q] \in Devices /\ devices[device[q]].timer \in Timers
    BY DEF KnowsWhole, HandsInv, TypeOK, DeviceType, IInv
  <2>4. devices[device[q]].timer \in Timers /\ device[q] \in Devices /\ Untold(device[q]) => Untold(device[q])'
    <3>1. device[q] \in Devices /\ Unnamed(device[q]) => Unnamed(device[q])'
      BY <1>q, <1>r DEF Pop, Unnamed, pools, IInv
    <3> QED BY <3>1 DEF Pop, Goto, Untold, pools
  <2> QED BY <2>1, <2>2, <2>3, <2>4 DEF IInv, Pop, Goto, pools, KnowsWhole
<1>12. \A q \in Threads : KnowsLast(q)'
  BY DEF Pop, pools, Goto, DeregisterPcs, Ends, KnowsLast
<1>13. \A q \in Threads : KnowsFired(q)'
  BY DEF Pop, pools, Goto, Has, KnowsFired
<1>14. OneHand'
  BY DEF Pop, Goto, DeregisterPcs, OneHand, InHand
<1>15. OneTaker'
  BY DEF Pop, Queued, pools, Goto, RegisterPcs, DeregisterPcs, TypeOK, OneTaker, InHand, Takes,
      Live, DevicesInv
<1>16. OneKeeper'
  BY DEF Pop, pools, Goto, DeregisterPcs, OneKeeper, InHand
<1>17. Kept'
  <2> SUFFICES ASSUME NEW d \in Devices, devices'[d].used, devices'[d].timer = None
                PROVE  (\E q \in Threads : InHand(q, d)') \/ \E e \in Events : Takes(e, d)'
    BY DEF Kept
  <2>1. devices[d].used /\ devices[d].timer = None
    BY DEF Pop, pools
  <2>2. CASE \E q \in Threads : InHand(q, d)
    <3>1. PICK q \in Threads : InHand(q, d)
      BY <2>2
    <3> QED BY <3>1, <1>r DEF Pop, InHand, DeregisterPcs
  <2>3. CASE \E e \in Events : Takes(e, d)
    <3>1. PICK e \in Events : Takes(e, d)
      BY <2>3
    <3>2. Live(e)'
      BY <1>q, <1>r, <3>1 DEF Takes, Live
    <3> QED BY <3>1, <3>2 DEF Pop, pools, Takes
  <2> QED BY <2>1, <2>2, <2>3 DEF Kept
<1>18. TimerInv'
  BY DEF Pop, pools, Goto, Ends, Has, TimerInv
<1>19. RegisterInv'
  BY DEF Pop, pools, Goto, RegisterPcs, Registers, Has, RegisterInv
<1>20. NamesInv'
  BY DEF Pop, Queued, pools, Goto, RegisterPcs, TypeOK, Registers, NamesInv, Live
<1> QED BY <1>1, <1>2, <1>3, <1>4, <1>5, <1>6, <1>7, <1>8, <1>9, <1>10, <1>11, <1>12, <1>13,
   <1>14, <1>15, <1>16, <1>17, <1>18, <1>19, <1>20
DEF EventsInv

-----------------------------------------------------------------------------
(* callbacks, *)

\* A timer that is armed calls back.
LEMMA ExpireStep == ASSUME Locked, Fresh, IInv, NEW t \in Timers, Expire(t) PROVE IInv'
<1> USE HidAssumption DEF IInv
<1>r. /\ t \in Threads /\ pc'[t] = "scan" /\ event' = event
      /\ \A q \in Threads \ {t} : pc'[q] = pc[q]
  BY DEF Expire, Goto, Threads, TypeOK, hand
<1>1. TypeOK'
  BY DEF Expire, Threads, pools, hand, Goto, TypeOK
<1>2. LockInv'
  BY DEF Expire, Goto, TypeOK, LockInv
<1>3. Placed'
  BY DEF Expire, Queued, pools, hand, Goto, EventsInv, Placed
<1>4. QueuedOnce'
  BY DEF Expire, Goto, EventsInv, QueuedOnce
<1>5. QueuedOnly'
  BY DEF Expire, Queued, hand, EventsInv, QueuedOnly
<1>6. HeldOnce'
  BY DEF Expire, hand, EventsInv, HeldOnce
<1>7. Blank'
  BY DEF Expire, pools, EventsInv, Blank
<1>8. HandsInv'
  BY DEF Expire, pools, hand, Goto, RegisterPcs, DeregisterPcs, HandsInv, EmptyHanded, Registers
<1>9. DevicesInv'
  BY DEF Expire, pools, FreeDevice, DevicesInv
<1>10. \A q \in Threads : KnowsNew(q)'
  <2> SUFFICES ASSUME NEW q \in Threads PROVE KnowsNew(q)'
    OBVIOUS
  <2>1. (pc[q] = "takeDevice" => ~devices[device[q]].used)'
    BY DEF Expire, pools, hand, Goto, KnowsNew
  <2>2. (pc[q] = "fill" => Bare(device[q]))'
    BY DEF Expire, Bare, pools, hand, Goto, KnowsNew
  <2>3. (pc[q] = "start" => Has(device[q], timer[q]) /\ devices[device[q]].repeating = ~once[q])'
    BY DEF Expire, pools, hand, Goto, Has, KnowsNew
  <2>4. (pc[q] \in {"fill", "start"} => Unnamed(device[q]))'
    BY DEF Expire, Queued, pools, hand, Goto, KnowsNew, Unnamed
  <2> QED BY <2>1, <2>2, <2>3, <2>4 DEF KnowsNew
<1>11. \A q \in Threads : KnowsWhole(q)'
  <2> SUFFICES ASSUME NEW q \in Threads PROVE KnowsWhole(q)'
    OBVIOUS
  <2> HIDE DEF IInv
  <2>1. \A v \in Workers : Registers(v)' => Registers(v)
    BY DEF Expire, Goto, Registers, RegisterPcs
  <2>2. pc'[q] \in DeregisterPcs /\ Ends(q)' => pc[q] = pc'[q] /\ Ends(q)
    BY <1>r DEF Ends, DeregisterPcs
  <2>3. pc[q] \in DeregisterPcs /\ Ends(q) => device[q] \in Devices /\ devices[device[q]].timer \in Timers
    BY DEF KnowsWhole, HandsInv, TypeOK, DeviceType, IInv
  <2>4. devices[device[q]].timer \in Timers /\ device[q] \in Devices /\ Untold(device[q]) => Untold(device[q])'
    <3>1. device[q] \in Devices /\ Unnamed(device[q]) => Unnamed(device[q])'
      BY DEF Expire, Goto, Unnamed, Queued, pools, hand
    <3> QED BY <3>1 DEF Expire, Goto, Untold, pools, hand
  <2> QED BY <2>1, <2>2, <2>3, <2>4 DEF IInv, Expire, Goto, pools, hand, KnowsWhole
<1>12. \A q \in Threads : KnowsLast(q)'
  BY DEF Expire, pools, hand, Goto, DeregisterPcs, Ends, KnowsLast
<1>13. \A q \in Threads : KnowsFired(q)'
  BY DEF Expire, pools, hand, Goto, Has, KnowsFired
<1>14. OneHand'
  BY DEF Expire, hand, Goto, DeregisterPcs, OneHand, InHand
<1>15. OneTaker'
  BY DEF Expire, Queued, pools, hand, Goto, DeregisterPcs, OneTaker, InHand, Takes, Live
<1>16. OneKeeper'
  BY DEF Expire, pools, hand, Goto, DeregisterPcs, OneKeeper, InHand
<1>17. Kept'
  <2> SUFFICES ASSUME NEW d \in Devices, devices'[d].used, devices'[d].timer = None
                PROVE  (\E q \in Threads : InHand(q, d)') \/ \E e \in Events : Takes(e, d)'
    BY DEF Kept
  <2>1. devices[d].used /\ devices[d].timer = None
    BY DEF Expire, pools, Goto, TypeOK
  <2>2. CASE \E q \in Threads : InHand(q, d)
    <3>1. PICK q \in Threads : InHand(q, d)
      BY <2>2
    <3>2. InHand(q, d)'
      BY <2>1, <3>1 DEF Expire, hand, Goto, DeregisterPcs, InHand
    <3> QED BY <3>2
  <2>3. CASE \E e \in Events : Takes(e, d)
    <3>1. PICK e \in Events : Takes(e, d)
      BY <2>3
    <3>2. Takes(e, d)'
      BY <2>1, <3>1 DEF Expire, Queued, pools, hand, Goto, Takes, Live
    <3> QED BY <3>2
  <2> QED BY <2>1, <2>2, <2>3 DEF Kept
<1>18. TimerInv'
  BY DEF Expire, pools, hand, Goto, Ends, Has, TimerInv
<1>19. RegisterInv'
  BY DEF Expire, pools, hand, Goto, Registers, Has, RegisterInv
<1>20. NamesInv'
  BY DEF Expire, Queued, pools, hand, Goto, Registers, NamesInv, Live
<1> QED BY <1>1, <1>2, <1>3, <1>4, <1>5, <1>6, <1>7, <1>8, <1>9, <1>10, <1>11, <1>12, <1>13,
   <1>14, <1>15, <1>16, <1>17, <1>18, <1>19, <1>20
DEF EventsInv

\* The device that is found is the only one with this timer; a one-shot device is in the
\* hand of the callback from here on.
LEMMA ScanFindsStep == ASSUME Locked, Fresh, IInv, NEW t \in Timers, ScanFinds(t) PROVE IInv'
<1> USE HidAssumption DEF IInv
<1>q. PICK d \in Devices :
        /\ Has(d, t)
        /\ device' = [device EXCEPT ![t] = d]
        /\ once' = [once EXCEPT ![t] = ~devices[d].repeating]
        /\ Goto(t, IF devices[d].repeating THEN "retain" ELSE "deinit")
  BY DEF ScanFinds
<1>r. ASSUME NEW q \in Threads, InHand(q, d), ~devices[d].repeating PROVE FALSE
  <2>0. t \in Threads /\ pc[t] = "scan" /\ devices[d].timer = t /\ devices[d].used /\ device[q] = d
    BY <1>q, <1>r DEF ScanFinds, Has, Threads, InHand
  <2>1. CASE pc[q] \in {"fill", "start"}
    BY <2>0, <2>1
    DEF KnowsNew, Bare, Has, RegisterInv, Registers, RegisterPcs, TimerInv, HandsInv, Threads
  <2>2. CASE pc[q] \in DeregisterPcs
    BY <1>r, <2>0, <2>2 DEF KnowsWhole, KnowsLast, Untold
  <2>3. CASE pc[q] = "unflag"
    BY <2>0, <2>3 DEF KnowsLast, DevicesInv
  <2>4. CASE pc[q] \in {"deinit", "clear", "retain", "takeEvent", "fillEvent", "push"} /\ once[q]
    BY <2>0, <2>4 DEF KnowsFired, DevicesInv, Has, Threads
  <2> QED BY <1>r, <2>1, <2>2, <2>3, <2>4 DEF InHand
<1>s. /\ t \in Threads /\ device'[t] = d /\ once'[t] = ~devices[d].repeating
      /\ pc'[t] = (IF devices[d].repeating THEN "retain" ELSE "deinit")
      /\ \A v \in Threads \ {t} : device'[v] = device[v] /\ once'[v] = once[v] /\ pc'[v] = pc[v]
  BY <1>q DEF Goto, TypeOK, Threads
<1>h. ASSUME NEW q \in Threads, NEW c \in Devices, InHand(q, c)'
      PROVE  IF q = t THEN c = d /\ ~devices[d].repeating ELSE InHand(q, c)
  <2>1. CASE q = t
    <3>1. c = d
      BY <1>h, <1>s, <2>1 DEF InHand
    <3>2. CASE devices[d].repeating
      <4>1. pc'[t] = "retain" /\ ~once'[t]
        BY <1>s, <3>2
      <4> QED BY <1>h, <2>1, <4>1 DEF InHand, DeregisterPcs
    <3> QED BY <2>1, <3>1, <3>2
  <2>2. CASE q # t
    BY <1>h, <1>s, <2>2 DEF InHand
  <2> QED BY <2>1, <2>2
<1>1. TypeOK'
  BY DEF ScanFinds, Threads, pools, Goto, TypeOK
<1>2. LockInv'
  BY DEF ScanFinds, Goto, TypeOK, LockInv
<1>3. Placed'
  BY DEF ScanFinds, Queued, pools, Goto, EventsInv, Placed
<1>4. QueuedOnce'
  BY DEF ScanFinds, Goto, EventsInv, QueuedOnce
<1>5. QueuedOnly'
  BY DEF ScanFinds, Queued, EventsInv, QueuedOnly
<1>6. HeldOnce'
  BY DEF ScanFinds, Goto, EventsInv, HeldOnce
<1>7. Blank'
  BY DEF ScanFinds, pools, EventsInv, Blank
<1>8. HandsInv'
  BY DEF ScanFinds, pools, Goto, RegisterPcs, TypeOK, HandsInv, EmptyHanded, Registers
<1>9. DevicesInv'
  BY DEF ScanFinds, pools, FreeDevice, DevicesInv
<1>10. \A q \in Threads : KnowsNew(q)'
  <2> SUFFICES ASSUME NEW q \in Threads PROVE KnowsNew(q)'
    OBVIOUS
  <2>1. (pc[q] = "takeDevice" => ~devices[device[q]].used)'
    BY DEF ScanFinds, pools, Goto, KnowsNew
  <2>2. (pc[q] = "fill" => Bare(device[q]))'
    BY DEF ScanFinds, Bare, pools, Goto, KnowsNew
  <2>3. (pc[q] = "start" => Has(device[q], timer[q]) /\ devices[device[q]].repeating = ~once[q])'
    BY DEF ScanFinds, pools, Goto, Has, KnowsNew
  <2>4. (pc[q] \in {"fill", "start"} => Unnamed(device[q]))'
    BY DEF ScanFinds, Queued, pools, Goto, KnowsNew, Unnamed
  <2> QED BY <2>1, <2>2, <2>3, <2>4 DEF KnowsNew
<1>11. \A q \in Threads : KnowsWhole(q)'
  BY DEF ScanFinds, Queued, pools, Goto, Registers, Ends, KnowsWhole, Untold, Unnamed
<1>12. \A q \in Threads : KnowsLast(q)'
  BY DEF ScanFinds, pools, Goto, DeregisterPcs, Ends, KnowsLast
<1>13. \A q \in Threads : KnowsFired(q)'
  BY DEF ScanFinds, pools, Goto, TypeOK, DeviceType, Has, KnowsFired, DevicesInv
<1>14. OneHand'
  <2> SUFFICES ASSUME NEW q \in Threads, NEW v \in Threads, NEW c \in Devices, InHand(q, c)', InHand(v, c)'
               PROVE  q = v
    BY DEF OneHand
  <2> QED BY <1>r, <1>h DEF OneHand
<1>15. OneTaker'
  BY SMTT(30)
  DEF ScanFinds, Queued, pools, Goto, TypeOK, Has, OneTaker, InHand, Takes, Live, NamesInv,
      DevicesInv
<1>16. OneKeeper'
  <2>1. owned' = owned /\ devices' = devices /\ \A v \in Workers : owned[v] \subseteq Devices
    BY DEF ScanFinds, pools, TypeOK
  <2>2. ASSUME NEW c \in Devices, devices[c].repeating, \A q \in Threads : ~InHand(q, c), NEW q \in Threads
        PROVE  ~InHand(q, c)'
    BY <1>h, <2>2
  <2> QED BY <2>1, <2>2 DEF OneKeeper
<1>17. Kept'
  <2> SUFFICES ASSUME NEW c \in Devices, devices'[c].used, devices'[c].timer = None
                PROVE  (\E q \in Threads : InHand(q, c)') \/ \E e \in Events : Takes(e, c)'
    BY DEF Kept
  <2>1. devices[c].used /\ devices[c].timer = None
    BY DEF ScanFinds, pools, Goto, TypeOK
  <2>2. CASE \E q \in Threads : InHand(q, c)
    <3>1. PICK q \in Threads : InHand(q, c)
      BY <2>2
    <3>2. InHand(q, c)'
      BY <2>1, <3>1 DEF ScanFinds, Goto, DeregisterPcs, InHand
    <3> QED BY <3>2
  <2>3. CASE \E e \in Events : Takes(e, c)
    <3>1. PICK e \in Events : Takes(e, c)
      BY <2>3
    <3>2. Takes(e, c)'
      BY <2>1, <3>1 DEF ScanFinds, Queued, pools, Goto, Takes, Live
    <3> QED BY <3>2
  <2> QED BY <2>1, <2>2, <2>3 DEF Kept
<1>18. TimerInv'
  BY DEF ScanFinds, pools, Goto, Ends, Has, TimerInv
<1>19. RegisterInv'
  BY DEF ScanFinds, pools, Goto, Registers, Has, RegisterInv
<1>20. NamesInv'
  BY DEF ScanFinds, Queued, pools, Goto, Registers, NamesInv, Live
<1> QED BY <1>1, <1>2, <1>3, <1>4, <1>5, <1>6, <1>7, <1>8, <1>9, <1>10, <1>11, <1>12, <1>13,
   <1>14, <1>15, <1>16, <1>17, <1>18, <1>19, <1>20
DEF EventsInv

\* No device has the timer: it has been deinitialised meanwhile.
LEMMA ScanFindsNoneStep == ASSUME Locked, Fresh, IInv, NEW t \in Timers, ScanFindsNone(t) PROVE IInv'
<1> USE HidAssumption DEF IInv
<1>r. /\ t \in Threads /\ pc'[t] = "leave" /\ event' = event
      /\ \A q \in Threads \ {t} : pc'[q] = pc[q]
  BY DEF ScanFindsNone, Goto, Threads, TypeOK, hand
<1>1. TypeOK'
  BY DEF ScanFindsNone, Threads, pools, hand, Goto, TypeOK
<1>2. LockInv'
  BY DEF ScanFindsNone, Goto, TypeOK, LockInv
<1>3. Placed'
  BY DEF ScanFindsNone, Queued, pools, hand, Goto, EventsInv, Placed
<1>4. QueuedOnce'
  BY DEF ScanFindsNone, Goto, EventsInv, QueuedOnce
<1>5. QueuedOnly'
  BY DEF ScanFindsNone, Queued, hand, EventsInv, QueuedOnly
<1>6. HeldOnce'
  BY DEF ScanFindsNone, hand, EventsInv, HeldOnce
<1>7. Blank'
  BY DEF ScanFindsNone, pools, EventsInv, Blank
<1>8. HandsInv'
  BY DEF ScanFindsNone, pools, hand, Goto, RegisterPcs, DeregisterPcs, HandsInv, EmptyHanded,
      Registers
<1>9. DevicesInv'
  BY DEF ScanFindsNone, pools, FreeDevice, DevicesInv
<1>10. \A q \in Threads : KnowsNew(q)'
  <2> SUFFICES ASSUME NEW q \in Threads PROVE KnowsNew(q)'
    OBVIOUS
  <2>1. (pc[q] = "takeDevice" => ~devices[device[q]].used)'
    BY DEF ScanFindsNone, pools, hand, Goto, KnowsNew
  <2>2. (pc[q] = "fill" => Bare(device[q]))'
    BY DEF ScanFindsNone, Bare, pools, hand, Goto, KnowsNew
  <2>3. (pc[q] = "start" => Has(device[q], timer[q]) /\ devices[device[q]].repeating = ~once[q])'
    BY DEF ScanFindsNone, pools, hand, Goto, Has, KnowsNew
  <2>4. (pc[q] \in {"fill", "start"} => Unnamed(device[q]))'
    BY DEF ScanFindsNone, Queued, pools, hand, Goto, KnowsNew, Unnamed
  <2> QED BY <2>1, <2>2, <2>3, <2>4 DEF KnowsNew
<1>11. \A q \in Threads : KnowsWhole(q)'
  <2> SUFFICES ASSUME NEW q \in Threads PROVE KnowsWhole(q)'
    OBVIOUS
  <2> HIDE DEF IInv
  <2>1. \A v \in Workers : Registers(v)' => Registers(v)
    BY DEF ScanFindsNone, Goto, Registers, RegisterPcs
  <2>2. pc'[q] \in DeregisterPcs /\ Ends(q)' => pc[q] = pc'[q] /\ Ends(q)
    BY <1>r DEF Ends, DeregisterPcs
  <2>3. pc[q] \in DeregisterPcs /\ Ends(q) => device[q] \in Devices /\ devices[device[q]].timer \in Timers
    BY DEF KnowsWhole, HandsInv, TypeOK, DeviceType, IInv
  <2>4. devices[device[q]].timer \in Timers /\ device[q] \in Devices /\ Untold(device[q]) => Untold(device[q])'
    <3>1. device[q] \in Devices /\ Unnamed(device[q]) => Unnamed(device[q])'
      BY DEF ScanFindsNone, Goto, Unnamed, Queued, pools, hand
    <3> QED BY <3>1 DEF ScanFindsNone, Goto, Untold, pools, hand
  <2> QED BY <2>1, <2>2, <2>3, <2>4 DEF IInv, ScanFindsNone, Goto, pools, hand, KnowsWhole
<1>12. \A q \in Threads : KnowsLast(q)'
  BY DEF ScanFindsNone, pools, hand, Goto, DeregisterPcs, Ends, KnowsLast
<1>13. \A q \in Threads : KnowsFired(q)'
  BY DEF ScanFindsNone, pools, hand, Goto, Has, KnowsFired
<1>14. OneHand'
  BY DEF ScanFindsNone, hand, Goto, DeregisterPcs, OneHand, InHand
<1>15. OneTaker'
  BY DEF ScanFindsNone, Queued, pools, hand, Goto, DeregisterPcs, OneTaker, InHand, Takes, Live
<1>16. OneKeeper'
  BY DEF ScanFindsNone, pools, hand, Goto, DeregisterPcs, OneKeeper, InHand
<1>17. Kept'
  <2> SUFFICES ASSUME NEW d \in Devices, devices'[d].used, devices'[d].timer = None
                PROVE  (\E q \in Threads : InHand(q, d)') \/ \E e \in Events : Takes(e, d)'
    BY DEF Kept
  <2>1. devices[d].used /\ devices[d].timer = None
    BY DEF ScanFindsNone, pools, Goto, TypeOK
  <2>2. CASE \E q \in Threads : InHand(q, d)
    <3>1. PICK q \in Threads : InHand(q, d)
      BY <2>2
    <3>2. InHand(q, d)'
      BY <2>1, <3>1 DEF ScanFindsNone, hand, Goto, DeregisterPcs, InHand
    <3> QED BY <3>2
  <2>3. CASE \E e \in Events : Takes(e, d)
    <3>1. PICK e \in Events : Takes(e, d)
      BY <2>3
    <3>2. Takes(e, d)'
      BY <2>1, <3>1 DEF ScanFindsNone, Queued, pools, hand, Goto, Takes, Live
    <3> QED BY <3>2
  <2> QED BY <2>1, <2>2, <2>3 DEF Kept
<1>18. TimerInv'
  BY DEF ScanFindsNone, pools, hand, Goto, Ends, Has, TimerInv
<1>19. RegisterInv'
  BY DEF ScanFindsNone, pools, hand, Goto, Registers, Has, RegisterInv
<1>20. NamesInv'
  BY DEF ScanFindsNone, Queued, pools, hand, Goto, Registers, NamesInv, Live
<1> QED BY <1>1, <1>2, <1>3, <1>4, <1>5, <1>6, <1>7, <1>8, <1>9, <1>10, <1>11, <1>12, <1>13,
   <1>14, <1>15, <1>16, <1>17, <1>18, <1>19, <1>20
DEF EventsInv

\* The timer is given back while its device has it, until the next step clears it.
LEMMA DeinitOwnStep == ASSUME Locked, Fresh, IInv, NEW t \in Timers, DeinitOwn(t) PROVE IInv'
<1> USE HidAssumption DEF IInv
<1>1. TypeOK'
  BY DEF DeinitOwn, Threads, pools, hand, Goto, TypeOK
<1>2. LockInv'
  BY DEF DeinitOwn, Goto, TypeOK, LockInv
<1>3. Placed'
  BY DEF DeinitOwn, Queued, pools, hand, Goto, EventsInv, Placed
<1>4. QueuedOnce'
  BY DEF DeinitOwn, Goto, EventsInv, QueuedOnce
<1>5. QueuedOnly'
  BY DEF DeinitOwn, Queued, hand, EventsInv, QueuedOnly
<1>6. HeldOnce'
  BY DEF DeinitOwn, hand, EventsInv, HeldOnce
<1>7. Blank'
  BY DEF DeinitOwn, pools, EventsInv, Blank
<1>8. HandsInv'
  BY DEF DeinitOwn, pools, hand, Goto, RegisterPcs, HandsInv, EmptyHanded, Registers
<1>9. DevicesInv'
  BY DEF DeinitOwn, pools, FreeDevice, DevicesInv
<1>10. \A q \in Threads : KnowsNew(q)'
  <2> SUFFICES ASSUME NEW q \in Threads PROVE KnowsNew(q)'
    OBVIOUS
  <2>1. (pc[q] = "takeDevice" => ~devices[device[q]].used)'
    BY DEF DeinitOwn, pools, hand, Goto, KnowsNew
  <2>2. (pc[q] = "fill" => Bare(device[q]))'
    BY DEF DeinitOwn, Bare, pools, hand, Goto, KnowsNew
  <2>3. (pc[q] = "start" => Has(device[q], timer[q]) /\ devices[device[q]].repeating = ~once[q])'
    BY DEF DeinitOwn, pools, hand, Goto, Has, KnowsNew
  <2>4. (pc[q] \in {"fill", "start"} => Unnamed(device[q]))'
    BY DEF DeinitOwn, Queued, pools, hand, Goto, KnowsNew, Unnamed
  <2> QED BY <2>1, <2>2, <2>3, <2>4 DEF KnowsNew
<1>11. \A q \in Threads : KnowsWhole(q)'
  BY DEF DeinitOwn, Queued, pools, hand, Goto, Registers, Ends, KnowsWhole, Untold, Unnamed
<1>12. \A q \in Threads : KnowsLast(q)'
  BY DEF DeinitOwn, pools, hand, Goto, DeregisterPcs, Ends, KnowsLast
<1>13. \A q \in Threads : KnowsFired(q)'
  BY DEF DeinitOwn, pools, hand, Goto, TypeOK, Has, KnowsFired
<1>14. OneHand'
  BY DEF DeinitOwn, hand, Goto, DeregisterPcs, OneHand, InHand
<1>15. OneTaker'
  BY DEF DeinitOwn, Queued, pools, hand, Goto, DeregisterPcs, OneTaker, InHand, Takes, Live
<1>16. OneKeeper'
  BY DEF DeinitOwn, pools, hand, Goto, DeregisterPcs, OneKeeper, InHand
<1>17. Kept'
  <2> SUFFICES ASSUME NEW d \in Devices, devices'[d].used, devices'[d].timer = None
                PROVE  (\E q \in Threads : InHand(q, d)') \/ \E e \in Events : Takes(e, d)'
    BY DEF Kept
  <2>1. devices[d].used /\ devices[d].timer = None
    BY DEF DeinitOwn, pools, Goto, TypeOK
  <2>2. CASE \E q \in Threads : InHand(q, d)
    <3>1. PICK q \in Threads : InHand(q, d)
      BY <2>2
    <3>2. InHand(q, d)'
      BY <2>1, <3>1 DEF DeinitOwn, hand, Goto, DeregisterPcs, InHand
    <3> QED BY <3>2
  <2>3. CASE \E e \in Events : Takes(e, d)
    <3>1. PICK e \in Events : Takes(e, d)
      BY <2>3
    <3>2. Takes(e, d)'
      BY <2>1, <3>1 DEF DeinitOwn, Queued, pools, hand, Goto, Takes, Live
    <3> QED BY <3>2
  <2> QED BY <2>1, <2>2, <2>3 DEF Kept
<1>18. TimerInv'
  BY DEF DeinitOwn, Threads, pools, hand, Goto, TypeOK, HandsInv, Ends, Has, TimerInv, KnowsFired
<1>19. RegisterInv'
  BY DEF DeinitOwn, pools, hand, Goto, Registers, Has, TimerInv, RegisterInv
<1>20. NamesInv'
  BY DEF DeinitOwn, Queued, pools, hand, Goto, Registers, NamesInv, Live
<1> QED BY <1>1, <1>2, <1>3, <1>4, <1>5, <1>6, <1>7, <1>8, <1>9, <1>10, <1>11, <1>12, <1>13,
   <1>14, <1>15, <1>16, <1>17, <1>18, <1>19, <1>20
DEF EventsInv

\* The device has no timer any more, and is in the hand of the callback.
LEMMA ClearStep == ASSUME Locked, Fresh, IInv, NEW t \in Timers, Clear(t) PROVE IInv'
<1> USE HidAssumption DEF IInv
<1>1. TypeOK'
  <2>1. device[t] \in Devices
    BY DEF Clear, TypeOK, HandsInv, Threads
  <2> DEFINE new == [devices[device[t]] EXCEPT !.timer = None, !.remove = TRUE]
  <2>2. new \in DeviceType
    BY <2>1, Fields DEF TypeOK
  <2>3. devices' = [devices EXCEPT ![device[t]] = new]
    BY DEF Clear
  <2> HIDE DEF new
  <2>4. devices \in [Devices -> DeviceType]
    BY DEF TypeOK
  <2>5. devices' \in [Devices -> DeviceType]
    BY <2>2, <2>3, <2>4
  <2> QED BY <2>5 DEF Clear, TypeOK, Goto, Threads, hand
<1>2. LockInv'
  BY DEF Clear, Goto, TypeOK, LockInv
<1>3. Placed'
  BY DEF Clear, Queued, hand, Goto, EventsInv, Placed
<1>4. QueuedOnce'
  BY DEF Clear, Goto, EventsInv, QueuedOnce
<1>5. QueuedOnly'
  BY DEF Clear, Queued, hand, EventsInv, QueuedOnly
<1>6. HeldOnce'
  BY DEF Clear, hand, EventsInv, HeldOnce
<1>7. Blank'
  BY DEF Clear, Goto, EventsInv, Blank
<1>8. HandsInv'
  BY DEF Clear, hand, Goto, RegisterPcs, HandsInv, EmptyHanded, Registers
<1>9. DevicesInv'
  BY DEF Clear, Threads, Has, DevicesInv, KnowsFired
<1>10. \A q \in Threads : KnowsNew(q)'
  <2> SUFFICES ASSUME NEW q \in Threads PROVE KnowsNew(q)'
    OBVIOUS
  <2>1. (pc[q] = "takeDevice" => ~devices[device[q]].used)'
    BY DEF Clear, hand, Goto, KnowsNew
  <2>2. (pc[q] = "fill" => Bare(device[q]))'
    BY DEF Clear, Bare, Threads, hand, Goto, Has, KnowsNew, KnowsFired
  <2>3. (pc[q] = "start" => Has(device[q], timer[q]) /\ devices[device[q]].repeating = ~once[q])'
    BY DEF Clear, Threads, hand, Goto, TypeOK, Has, KnowsNew, OneHand, InHand, KnowsFired
  <2>4. (pc[q] \in {"fill", "start"} => Unnamed(device[q]))'
    BY DEF Clear, Queued, hand, Goto, KnowsNew, Unnamed
  <2> QED BY <2>1, <2>2, <2>3, <2>4 DEF KnowsNew
<1>11. \A q \in Threads : KnowsWhole(q)'
  BY DEF Clear, Queued, Threads, hand, Goto, Registers, Ends, Has, KnowsWhole, Untold, Unnamed,
      KnowsFired
<1>12. \A q \in Threads : KnowsLast(q)'
  BY DEF Clear, hand, Goto, DeregisterPcs, Ends, KnowsLast
<1>13. \A q \in Threads : KnowsFired(q)'
  BY DEF Clear, Threads, hand, Goto, TypeOK, HandsInv, Has, KnowsFired
<1>14. OneHand'
  BY DEF Clear, hand, Goto, DeregisterPcs, OneHand, InHand
<1>15. OneTaker'
  BY DEF Clear, Queued, hand, Goto, DeregisterPcs, OneTaker, InHand, Takes, Live
<1>16. OneKeeper'
  BY DEF Clear, hand, Goto, DeregisterPcs, OneKeeper, InHand
<1>17. Kept'
  <2> SUFFICES ASSUME NEW d \in Devices, devices'[d].used, devices'[d].timer = None
                PROVE  (\E q \in Threads : InHand(q, d)') \/ \E e \in Events : Takes(e, d)'
    BY DEF Kept
  <2>1. CASE d = device[t]
    <3>1. InHand(t, d)'
      BY <2>1 DEF Clear, Goto, Threads, hand, InHand, KnowsFired
    <3> QED BY <3>1 DEF Threads
  <2>2. CASE d # device[t]
    <3>1. devices'[d] = devices[d]
      BY <2>2 DEF Clear, TypeOK
    <3>2. CASE \E q \in Threads : InHand(q, d)
      <4>1. PICK q \in Threads : InHand(q, d)
        BY <3>2
      <4> QED BY <4>1 DEF Clear, Goto, hand, InHand, DeregisterPcs
    <3>3. CASE \E e \in Events : Takes(e, d)
      <4>1. PICK e \in Events : Takes(e, d)
        BY <3>3
      <4>2. Live(e)'
        BY <4>1 DEF Clear, Goto, hand, Takes, Live, Queued
      <4> QED BY <3>1, <4>1, <4>2 DEF Clear, Takes
    <3> QED BY <3>1, <3>2, <3>3 DEF Kept
  <2> QED BY <2>1, <2>2
<1>18. TimerInv'
  BY DEF Clear, Threads, hand, Goto, TypeOK, Ends, Has, TimerInv, KnowsFired
<1>19. RegisterInv'
  BY DEF Clear, Threads, hand, Goto, HandsInv, Registers, Has, RegisterInv
<1>20. NamesInv'
  BY DEF Clear, Queued, hand, Goto, Registers, NamesInv, Live
<1> QED BY <1>1, <1>2, <1>3, <1>4, <1>5, <1>6, <1>7, <1>8, <1>9, <1>10, <1>11, <1>12, <1>13,
   <1>14, <1>15, <1>16, <1>17, <1>18, <1>19, <1>20
DEF EventsInv

\* The scan of _hid_event_retain; the lock stays with its thread.
LEMMA RetainEventStep == ASSUME Locked, Fresh, IInv, NEW t \in Timers, RetainEvent(t) PROVE IInv'
<1> USE HidAssumption DEF IInv
<1>1. TypeOK'
  BY DEF RetainEvent, Threads, pools, Goto, Lock, TypeOK
<1>2. LockInv'
  BY DEF RetainEvent, Goto, Lock, TypeOK, LockInv
<1>3. Placed'
  BY DEF RetainEvent, Queued, pools, Goto, TypeOK, HandsInv, EmptyHanded, EventsInv, Placed
<1>4. QueuedOnce'
  BY DEF RetainEvent, Goto, EventsInv, QueuedOnce
<1>5. QueuedOnly'
  BY DEF RetainEvent, Queued, EventsInv, QueuedOnly, Placed
<1>6. HeldOnce'
  BY DEF RetainEvent, Lock, LockInv, EventsInv, HeldOnce, Placed
<1>7. Blank'
  BY DEF RetainEvent, pools, EventsInv, Blank
<1>8. HandsInv'
  BY DEF RetainEvent, pools, Goto, RegisterPcs, TypeOK, HandsInv, EmptyHanded, Registers
<1>9. DevicesInv'
  BY DEF RetainEvent, pools, FreeDevice, DevicesInv
<1>10. \A q \in Threads : KnowsNew(q)'
  <2> SUFFICES ASSUME NEW q \in Threads PROVE KnowsNew(q)'
    OBVIOUS
  <2>1. (pc[q] = "takeDevice" => ~devices[device[q]].used)'
    BY DEF RetainEvent, pools, Goto, KnowsNew
  <2>2. (pc[q] = "fill" => Bare(device[q]))'
    BY DEF RetainEvent, Bare, pools, Goto, KnowsNew
  <2>3. (pc[q] = "start" => Has(device[q], timer[q]) /\ devices[device[q]].repeating = ~once[q])'
    BY DEF RetainEvent, pools, Goto, Has, KnowsNew
  <2>4. (pc[q] \in {"fill", "start"} => Unnamed(device[q]))'
    BY DEF RetainEvent, Queued, pools, Goto, HandsInv, KnowsNew, Unnamed, EventsInv, Blank
  <2> QED BY <2>1, <2>2, <2>3, <2>4 DEF KnowsNew
<1>11. \A q \in Threads : KnowsWhole(q)'
  BY DEF RetainEvent, Queued, pools, Goto, HandsInv, Registers, Ends, KnowsWhole, Untold, Unnamed,
      EventsInv, Blank
<1>12. \A q \in Threads : KnowsLast(q)'
  BY DEF RetainEvent, pools, Goto, DeregisterPcs, Ends, KnowsLast
<1>13. \A q \in Threads : KnowsFired(q)'
  BY DEF RetainEvent, pools, Goto, Has, KnowsFired
<1>14. OneHand'
  BY DEF RetainEvent, Goto, DeregisterPcs, OneHand, InHand
<1>15. OneTaker'
  BY DEF RetainEvent, Queued, pools, Goto, DeregisterPcs, OneTaker, InHand, Takes, Live
<1>16. OneKeeper'
  BY DEF RetainEvent, pools, Goto, DeregisterPcs, OneKeeper, InHand
<1>17. Kept'
  <2> SUFFICES ASSUME NEW d \in Devices, devices'[d].used, devices'[d].timer = None
                PROVE  (\E q \in Threads : InHand(q, d)') \/ \E e \in Events : Takes(e, d)'
    BY DEF Kept
  <2>1. devices[d].used /\ devices[d].timer = None
    BY DEF RetainEvent, pools, Goto, TypeOK
  <2>2. CASE \E q \in Threads : InHand(q, d)
    <3>1. PICK q \in Threads : InHand(q, d)
      BY <2>2
    <3>2. InHand(q, d)'
      BY <2>1, <3>1 DEF RetainEvent, Goto, DeregisterPcs, InHand
    <3> QED BY <3>2
  <2>3. CASE \E e \in Events : Takes(e, d)
    <3>1. PICK e \in Events : Takes(e, d)
      BY <2>3
    <3>2. Takes(e, d)'
      BY <2>1, <3>1 DEF RetainEvent, Queued, pools, Goto, Takes, Live
    <3> QED BY <3>2
  <2> QED BY <2>1, <2>2, <2>3 DEF Kept
<1>18. TimerInv'
  BY DEF RetainEvent, pools, Goto, Ends, Has, TimerInv
<1>19. RegisterInv'
  BY DEF RetainEvent, pools, Goto, Registers, Has, RegisterInv
<1>20. NamesInv'
  BY DEF RetainEvent, Queued, pools, Goto, Registers, NamesInv, Live
<1> QED BY <1>1, <1>2, <1>3, <1>4, <1>5, <1>6, <1>7, <1>8, <1>9, <1>10, <1>11, <1>12, <1>13,
   <1>14, <1>15, <1>16, <1>17, <1>18, <1>19, <1>20
DEF EventsInv

\* The slot that was found is still free, and becomes this callback's.
LEMMA TakeEventStep == ASSUME Locked, Fresh, IInv, NEW t \in Timers, TakeEvent(t) PROVE IInv'
<1> USE HidAssumption DEF IInv
<1>q. /\ t \in Threads /\ pc[t] = "takeEvent" /\ event[t] \in Events /\ pc'[t] = "fillEvent"
      /\ (\A v \in Threads \ {t} : pc'[v] = pc[v])
      /\ event' = event /\ device' = device /\ once' = once /\ queue' = queue /\ devices' = devices /\ stale' = stale
      /\ \A e \in Events \ {event[t]} : events'[e] = events[e]
  BY DEF TakeEvent, HandsInv, Goto, TypeOK, Threads, hand
<1>r. events'[event[t]].device = None
  BY <1>q DEF TakeEvent, FreeEvent, TypeOK
<1>l. \A e \in Events : Live(e) => e # event[t]
  BY <1>q DEF Live, EventsInv, QueuedOnly, HeldOnce
<1>m. \A e \in Events : Live(e)' <=> Live(e)
  BY <1>q DEF Live, Queued
<1>1. TypeOK'
  <2>1. event[t] \in Events
    BY DEF TakeEvent, TypeOK, HandsInv, Threads
  <2> DEFINE new == [FreeEvent EXCEPT !.used = TRUE]
  <2>2. new \in EventType
    BY <2>1, Slots DEF TypeOK
  <2>3. events' = [events EXCEPT ![event[t]] = new]
    BY DEF TakeEvent
  <2> HIDE DEF new
  <2>4. events \in [Events -> EventType]
    BY DEF TypeOK
  <2>5. events' \in [Events -> EventType]
    BY <2>2, <2>3, <2>4
  <2> QED BY <2>5 DEF TakeEvent, TypeOK, Goto, Threads, hand
<1>2. LockInv'
  BY DEF TakeEvent, Threads, Goto, TypeOK, LockInv
<1>3. Placed'
  BY DEF TakeEvent, Queued, Threads, hand, Goto, TypeOK, EventsInv, Placed
<1>4. QueuedOnce'
  BY DEF TakeEvent, Goto, EventsInv, QueuedOnce
<1>5. QueuedOnly'
  BY DEF TakeEvent, Queued, hand, EventsInv, QueuedOnly
<1>6. HeldOnce'
  BY DEF TakeEvent, hand, EventsInv, HeldOnce
<1>7. Blank'
  BY DEF TakeEvent, Goto, EventsInv, Blank
<1>8. HandsInv'
  BY DEF TakeEvent, Threads, hand, Goto, RegisterPcs, FreeEvent, TypeOK, HandsInv, EmptyHanded,
      Registers, EventsInv, HeldOnce
<1>9. DevicesInv'
  BY DEF TakeEvent, Goto, FreeDevice, DevicesInv
<1>10. \A q \in Threads : KnowsNew(q)'
  <2> SUFFICES ASSUME NEW q \in Threads PROVE KnowsNew(q)'
    OBVIOUS
  <2>1. (pc[q] = "takeDevice" => ~devices[device[q]].used)'
    BY DEF TakeEvent, Threads, Goto, LockInv
  <2>2. (pc[q] = "fill" => Bare(device[q]))'
    BY DEF TakeEvent, Bare, hand, Goto, KnowsNew
  <2>3. (pc[q] = "start" => Has(device[q], timer[q]) /\ devices[device[q]].repeating = ~once[q])'
    BY DEF TakeEvent, hand, Goto, Has, KnowsNew
  <2>4. (pc[q] \in {"fill", "start"} => Unnamed(device[q]))'
    BY DEF TakeEvent, Queued, hand, Goto, FreeEvent, HandsInv, KnowsNew, Unnamed
  <2> QED BY <2>1, <2>2, <2>3, <2>4 DEF KnowsNew
<1>11. \A q \in Threads : KnowsWhole(q)'
  <2> SUFFICES ASSUME NEW q \in Threads PROVE KnowsWhole(q)'
    OBVIOUS
  <2> HIDE DEF IInv
  <2>1. \A v \in Workers : Registers(v)' => Registers(v)
    BY <1>q DEF Registers, RegisterPcs, Threads
  <2>2. pc'[q] \in DeregisterPcs /\ Ends(q)' => pc[q] = pc'[q] /\ Ends(q)
    BY <1>q DEF Ends, DeregisterPcs
  <2>3. pc[q] \in DeregisterPcs /\ Ends(q) => device[q] \in Devices /\ devices[device[q]].timer \in Timers
    BY DEF KnowsWhole, HandsInv, TypeOK, DeviceType, IInv
  <2>4. devices[device[q]].timer \in Timers /\ device[q] \in Devices /\ Untold(device[q]) => Untold(device[q])'
    <3>1. device[q] \in Devices /\ Unnamed(device[q]) => Unnamed(device[q])'
      BY <1>q, <1>r, HidAssumption DEF Unnamed, Queued
    <3> QED BY <3>1 DEF TakeEvent, Goto, Untold, hand
  <2> QED BY <2>1, <2>2, <2>3, <2>4 DEF IInv, TakeEvent, Goto, hand, KnowsWhole
<1>12. \A q \in Threads : KnowsLast(q)'
  BY DEF TakeEvent, hand, Goto, DeregisterPcs, Ends, KnowsLast
<1>13. \A q \in Threads : KnowsFired(q)'
  <2> SUFFICES ASSUME NEW q \in Threads PROVE KnowsFired(q)'
    OBVIOUS
  <2>1. (pc[q] \in {"deinit", "clear"} => Has(device[q], q) /\ ~devices[device[q]].repeating /\ once[q])'
    BY DEF TakeEvent, hand, Goto, Has, KnowsFired
  <2>2. (pc[q] = "clear" => running[q] = "free")'
    BY DEF TakeEvent, Goto, TypeOK, KnowsFired
  <2>3. (pc[q] \in {"retain", "takeEvent", "fillEvent", "push"} =>
             /\ devices[device[q]].used
             /\ once[q] => devices[device[q]].remove /\ ~devices[device[q]].repeating
             /\ ~once[q] => devices[device[q]].timer = q /\ devices[device[q]].repeating)'
    BY DEF TakeEvent, hand, Goto, KnowsFired
  <2>4. (pc[q] \in {"fillEvent", "push"} => event[q] \notin stale)'
    <3>1. event[t] \in Events /\ ~events[event[t]].used
      BY DEF TakeEvent, HandsInv, TypeOK, Threads, EventsInv, Placed, HeldOnce, QueuedOnly
    <3> QED BY <3>1 DEF TakeEvent, Goto, hand, KnowsFired, EventsInv, Blank
  <2> QED BY <2>1, <2>2, <2>3, <2>4 DEF KnowsFired
<1>14. OneHand'
  BY DEF TakeEvent, hand, Goto, DeregisterPcs, OneHand, InHand
<1>15. OneTaker'
  BY DEF TakeEvent, Queued, hand, Goto, DeregisterPcs, FreeEvent, OneTaker, InHand, Takes, Live
<1>16. OneKeeper'
  BY DEF TakeEvent, hand, Goto, DeregisterPcs, OneKeeper, InHand
<1>17. Kept'
  <2> SUFFICES ASSUME NEW d \in Devices, devices'[d].used, devices'[d].timer = None
                PROVE  (\E q \in Threads : InHand(q, d)') \/ \E e \in Events : Takes(e, d)'
    BY DEF Kept
  <2>1. CASE \E q \in Threads : InHand(q, d)
    <3>1. PICK q \in Threads : InHand(q, d)
      BY <2>1
    <3> QED BY <1>q, <3>1 DEF InHand, DeregisterPcs
  <2>2. CASE \E e \in Events : Takes(e, d)
    <3>1. PICK e \in Events : Takes(e, d)
      BY <2>2
    <3> QED BY <1>q, <1>l, <1>m, <3>1 DEF Takes
  <2> QED BY <1>q, <2>1, <2>2 DEF Kept
<1>18. TimerInv'
  BY DEF TakeEvent, hand, Goto, Ends, Has, TimerInv
<1>19. RegisterInv'
  BY DEF TakeEvent, hand, Goto, Registers, Has, RegisterInv
<1>20. NamesInv'
  <2>1. \A w \in Workers : Registers(w)' => Registers(w)
    BY <1>q DEF Registers, RegisterPcs, Threads
  <2> QED BY <1>q, <1>l, <1>m, <2>1 DEF NamesInv
<1> QED BY <1>1, <1>2, <1>3, <1>4, <1>5, <1>6, <1>7, <1>8, <1>9, <1>10, <1>11, <1>12, <1>13,
   <1>14, <1>15, <1>16, <1>17, <1>18, <1>19, <1>20
DEF EventsInv

\* No slot: a one-shot device is deregistered by the callback that has it in hand.
LEMMA RetainNoEventStep == ASSUME Locked, Fresh, IInv, NEW t \in Timers, RetainNoEvent(t) PROVE IInv'
<1> USE HidAssumption DEF IInv
<1>1. TypeOK'
  BY DEF RetainNoEvent, Threads, pools, hand, Goto, DeregisterPcs, TypeOK
<1>2. LockInv'
  BY DEF RetainNoEvent, Goto, TypeOK, LockInv
<1>3. Placed'
  BY DEF RetainNoEvent, Queued, pools, hand, Goto, EventsInv, Placed
<1>4. QueuedOnce'
  BY DEF RetainNoEvent, Goto, EventsInv, QueuedOnce
<1>5. QueuedOnly'
  BY DEF RetainNoEvent, Queued, hand, EventsInv, QueuedOnly
<1>6. HeldOnce'
  BY DEF RetainNoEvent, hand, EventsInv, HeldOnce
<1>7. Blank'
  BY DEF RetainNoEvent, pools, EventsInv, Blank
<1>8. HandsInv'
  BY DEF RetainNoEvent, pools, hand, Goto, RegisterPcs, HandsInv, EmptyHanded, Registers
<1>9. DevicesInv'
  BY DEF RetainNoEvent, pools, FreeDevice, DevicesInv
<1>10. \A q \in Threads : KnowsNew(q)'
  <2> SUFFICES ASSUME NEW q \in Threads PROVE KnowsNew(q)'
    OBVIOUS
  <2>1. (pc[q] = "takeDevice" => ~devices[device[q]].used)'
    BY DEF RetainNoEvent, pools, hand, Goto, KnowsNew
  <2>2. (pc[q] = "fill" => Bare(device[q]))'
    BY DEF RetainNoEvent, Bare, pools, hand, Goto, KnowsNew
  <2>3. (pc[q] = "start" => Has(device[q], timer[q]) /\ devices[device[q]].repeating = ~once[q])'
    BY DEF RetainNoEvent, pools, hand, Goto, Has, KnowsNew
  <2>4. (pc[q] \in {"fill", "start"} => Unnamed(device[q]))'
    BY DEF RetainNoEvent, Queued, pools, hand, Goto, KnowsNew, Unnamed
  <2> QED BY <2>1, <2>2, <2>3, <2>4 DEF KnowsNew
<1>11. \A q \in Threads : KnowsWhole(q)'
  BY DEF RetainNoEvent, Queued, pools, hand, Goto, Registers, Ends, KnowsWhole, Untold, Unnamed
<1>12. \A q \in Threads : KnowsLast(q)'
  BY DEF RetainNoEvent, pools, hand, Goto, DeregisterPcs, TypeOK, HandsInv, Ends, KnowsLast,
      KnowsFired, DevicesInv
<1>13. \A q \in Threads : KnowsFired(q)'
  BY DEF RetainNoEvent, pools, hand, Goto, Has, KnowsFired
<1>14. OneHand'
  BY DEF RetainNoEvent, hand, Goto, DeregisterPcs, OneHand, InHand
<1>15. OneTaker'
  BY DEF RetainNoEvent, Queued, pools, hand, Goto, DeregisterPcs, OneTaker, InHand, Takes, Live
<1>16. OneKeeper'
  BY DEF RetainNoEvent, pools, hand, Goto, DeregisterPcs, OneKeeper, InHand
<1>17. Kept'
  <2> SUFFICES ASSUME NEW d \in Devices, devices'[d].used, devices'[d].timer = None
                PROVE  (\E q \in Threads : InHand(q, d)') \/ \E e \in Events : Takes(e, d)'
    BY DEF Kept
  <2>1. devices[d].used /\ devices[d].timer = None
    BY DEF RetainNoEvent, pools, Goto, TypeOK
  <2>2. CASE \E q \in Threads : InHand(q, d)
    <3>1. PICK q \in Threads : InHand(q, d)
      BY <2>2
    <3>2. InHand(q, d)'
      BY <2>1, <3>1 DEF RetainNoEvent, hand, Goto, DeregisterPcs, InHand
    <3> QED BY <3>2
  <2>3. CASE \E e \in Events : Takes(e, d)
    <3>1. PICK e \in Events : Takes(e, d)
      BY <2>3
    <3>2. Takes(e, d)'
      BY <2>1, <3>1 DEF RetainNoEvent, Queued, pools, hand, Goto, Takes, Live
    <3> QED BY <3>2
  <2> QED BY <2>1, <2>2, <2>3 DEF Kept
<1>18. TimerInv'
  BY DEF RetainNoEvent, pools, hand, Goto, Ends, Has, TimerInv
<1>19. RegisterInv'
  BY DEF RetainNoEvent, pools, hand, Goto, Registers, Has, RegisterInv
<1>20. NamesInv'
  BY DEF RetainNoEvent, Queued, pools, hand, Goto, Registers, NamesInv, Live
<1> QED BY <1>1, <1>2, <1>3, <1>4, <1>5, <1>6, <1>7, <1>8, <1>9, <1>10, <1>11, <1>12, <1>13,
   <1>14, <1>15, <1>16, <1>17, <1>18, <1>19, <1>20
DEF EventsInv

\* The event names the device of the callback; a device that is being registered is another.
LEMMA FillEventStep == ASSUME Locked, Fresh, IInv, NEW t \in Timers, FillEvent(t) PROVE IInv'
<1> USE HidAssumption DEF IInv
<1>1. TypeOK'
  BY DEF FillEvent, Queued, Threads, hand, Goto, TypeOK, DeviceType, EventType, HandsInv,
      Registers
<1>2. LockInv'
  BY DEF FillEvent, Goto, TypeOK, LockInv
<1>3. Placed'
  BY DEF FillEvent, Queued, hand, Goto, EventsInv, Placed
<1>4. QueuedOnce'
  BY DEF FillEvent, Goto, EventsInv, QueuedOnce
<1>5. QueuedOnly'
  BY DEF FillEvent, Queued, hand, EventsInv, QueuedOnly
<1>6. HeldOnce'
  BY DEF FillEvent, hand, EventsInv, HeldOnce
<1>7. Blank'
  BY DEF FillEvent, Threads, EventsInv, Blank, Placed
<1>8. HandsInv'
  BY DEF FillEvent, Threads, hand, Goto, RegisterPcs, TypeOK, HandsInv, EmptyHanded, Registers,
      EventsInv, HeldOnce
<1>9. DevicesInv'
  BY DEF FillEvent, Goto, FreeDevice, DevicesInv
<1>10. \A q \in Threads : KnowsNew(q)'
  <2> SUFFICES ASSUME NEW q \in Threads PROVE KnowsNew(q)'
    OBVIOUS
  <2>1. (pc[q] = "takeDevice" => ~devices[device[q]].used)'
    BY DEF FillEvent, hand, Goto, KnowsNew
  <2>2. (pc[q] = "fill" => Bare(device[q]))'
    BY DEF FillEvent, Bare, hand, Goto, KnowsNew
  <2>3. (pc[q] = "start" => Has(device[q], timer[q]) /\ devices[device[q]].repeating = ~once[q])'
    BY DEF FillEvent, hand, Goto, Has, KnowsNew
  <2>4. (pc[q] \in {"fill", "start"} => Unnamed(device[q]))'
    <3>1. t \in Threads /\ pc[t] = "fillEvent" /\ device[t] \in Devices /\ event[t] \in Events
      BY DEF FillEvent, Threads, HandsInv, TypeOK
    <3>2. /\ events'[event[t]].device = device[t] /\ \A e \in Events \ {event[t]} : events'[e] = events[e]
      BY <3>1 DEF FillEvent, TypeOK, EventType
    <3>3. pc[q] \in {"fill", "start"} => device[q] # device[t] /\ q # t
      <4>1. CASE once[t]
        BY <3>1, <4>1 DEF OneHand, InHand
      <4>2. CASE ~once[t]
        <5>1. devices[device[t]].timer = t
          BY <3>1, <4>2 DEF KnowsFired
        <5>2. CASE pc[q] = "fill"
          BY <5>1, <5>2, <3>1 DEF KnowsNew, Bare, Threads
        <5>3. CASE pc[q] = "start"
          BY <5>1, <5>3, <3>1
          DEF KnowsNew, Has, RegisterInv, Registers, RegisterPcs, TimerInv, HandsInv, Threads
        <5> QED BY <5>2, <5>3
      <4> QED BY <4>1, <4>2
    <3>4. pc'[t] = "push" /\ device' = device /\ event' = event /\ queue' = queue /\ \A v \in Threads \ {t} : pc'[v] = pc[v]
      BY <3>1 DEF FillEvent, Goto, TypeOK, hand
    <3> QED BY <3>1, <3>2, <3>3, <3>4 DEF KnowsNew, Unnamed, Queued
  <2> QED BY <2>1, <2>2, <2>3, <2>4 DEF KnowsNew
<1>11. \A q \in Threads : KnowsWhole(q)'
  BY DEF FillEvent, Queued, Threads, hand, Goto, TypeOK, HandsInv, Registers, Ends, KnowsWhole,
      Untold, Unnamed, KnowsFired, OneHand, InHand
<1>12. \A q \in Threads : KnowsLast(q)'
  BY DEF FillEvent, hand, Goto, DeregisterPcs, Ends, KnowsLast
<1>13. \A q \in Threads : KnowsFired(q)'
  BY DEF FillEvent, hand, Goto, Has, KnowsFired
<1>14. OneHand'
  BY DEF FillEvent, hand, Goto, DeregisterPcs, OneHand, InHand
<1>15. OneTaker'
  BY DEF FillEvent, Queued, Threads, hand, Goto, HandsInv, OneTaker, InHand, Takes, Live,
      KnowsFired, NamesInv
<1>16. OneKeeper'
  BY DEF FillEvent, hand, Goto, DeregisterPcs, OneKeeper, InHand
<1>17. Kept'
  <2> SUFFICES ASSUME NEW d \in Devices, devices'[d].used, devices'[d].timer = None
                PROVE  (\E q \in Threads : InHand(q, d)') \/ \E e \in Events : Takes(e, d)'
    BY DEF Kept
  <2>1. devices[d].used /\ devices[d].timer = None
    BY DEF FillEvent, hand, Goto, TypeOK
  <2>2. CASE \E q \in Threads : InHand(q, d)
    <3>1. PICK q \in Threads : InHand(q, d)
      BY <2>2
    <3>2. InHand(q, d)'
      BY <2>1, <3>1 DEF FillEvent, hand, Goto, DeregisterPcs, InHand
    <3> QED BY <3>2
  <2>3. CASE \E e \in Events : Takes(e, d)
    <3>1. PICK e \in Events : Takes(e, d)
      BY <2>3
    <3>2. Takes(e, d)'
      BY <2>1, <3>1 DEF FillEvent, Queued, Threads, hand, Goto, HandsInv, Takes, Live
    <3> QED BY <3>2
  <2> QED BY <2>1, <2>2, <2>3 DEF Kept
<1>18. TimerInv'
  BY DEF FillEvent, hand, Goto, Ends, Has, TimerInv
<1>19. RegisterInv'
  BY DEF FillEvent, hand, Goto, Registers, Has, RegisterInv
<1>20. NamesInv'
  BY DEF FillEvent, Queued, Threads, hand, Goto, HandsInv, Registers, NamesInv, Live
<1> QED BY <1>1, <1>2, <1>3, <1>4, <1>5, <1>6, <1>7, <1>8, <1>9, <1>10, <1>11, <1>12, <1>13,
   <1>14, <1>15, <1>16, <1>17, <1>18, <1>19, <1>20
DEF EventsInv

\* The event goes into the queue, and a one-shot device from the callback's hand with it.
LEMMA PushedStep == ASSUME Locked, Fresh, IInv, NEW t \in Timers, Pushed(t) PROVE IInv'
<1> USE HidAssumption DEF IInv
<1>q. /\ event[t] \in Events
      /\ \A e \in Events : Queued(e)' <=> Queued(e) \/ e = event[t]
  <2>1. event[t] \in Events
    BY DEF Pushed, HandsInv, TypeOK, Threads
  <2> QED BY <2>1, Appended DEF Pushed, Enqueue
<1>r. /\ pc[t] = "push" /\ t \in Threads /\ event'[t] = None /\ pc'[t] = "leave"
      /\ \A v \in Threads \ {t} : event'[v] = event[v] /\ pc'[v] = pc[v]
  BY DEF Pushed, Enqueue, Goto, TypeOK, Threads
<1>1. TypeOK'
  BY DEF Pushed, Threads, pools, Goto, TypeOK, HandsInv, Enqueue
<1>2. LockInv'
  BY DEF Pushed, Goto, TypeOK, LockInv
<1>3. Placed'
  <2>1. event' = [event EXCEPT ![t] = None] /\ pc' = [pc EXCEPT ![t] = "leave"] /\ events' = events
    BY DEF Pushed, Enqueue, Goto, pools
  <2>2. pc[t] = "push" /\ t \in Threads
    BY DEF Pushed, Threads
  <2>3. event'[t] = None /\ pc'[t] = "leave" /\ \A q \in Threads \ {t} : event'[q] = event[q] /\ pc'[q] = pc[q]
    BY <2>1, <2>2 DEF TypeOK
  <2> QED BY <1>q, <2>1, <2>2, <2>3 DEF Placed, EventsInv
<1>4. QueuedOnce'
  BY DEF Pushed, Queued, Threads, TypeOK, EventsInv, QueuedOnce, QueuedOnly, Enqueue
<1>5. QueuedOnly'
  BY DEF Pushed, Queued, Threads, TypeOK, EventsInv, QueuedOnly, HeldOnce, Enqueue
<1>6. HeldOnce'
  BY DEF Pushed, EventsInv, HeldOnce, Enqueue
<1>7. Blank'
  BY DEF Pushed, pools, EventsInv, Blank
<1>8. HandsInv'
  BY DEF Pushed, pools, Goto, RegisterPcs, TypeOK, HandsInv, Registers, Enqueue
<1>9. DevicesInv'
  BY DEF Pushed, pools, FreeDevice, DevicesInv
<1>10. \A q \in Threads : KnowsNew(q)'
  <2> SUFFICES ASSUME NEW q \in Threads PROVE KnowsNew(q)'
    OBVIOUS
  <2>1. (pc[q] = "takeDevice" => ~devices[device[q]].used)'
    BY DEF Pushed, pools, Goto, KnowsNew
  <2>2. (pc[q] = "fill" => Bare(device[q]))'
    BY DEF Pushed, Bare, pools, Goto, KnowsNew
  <2>3. (pc[q] = "start" => Has(device[q], timer[q]) /\ devices[device[q]].repeating = ~once[q])'
    BY DEF Pushed, pools, Goto, Has, KnowsNew
  <2>4. (pc[q] \in {"fill", "start"} => Unnamed(device[q]))'
    BY DEF Pushed, Enqueue, Queued, Threads, pools, Goto, KnowsNew, Unnamed
  <2> QED BY <2>1, <2>2, <2>3, <2>4 DEF KnowsNew
<1>11. \A q \in Threads : KnowsWhole(q)'
  <2> SUFFICES ASSUME NEW q \in Threads PROVE KnowsWhole(q)'
    OBVIOUS
  <2> HIDE DEF IInv
  <2>1. \A v \in Workers : Registers(v)' => Registers(v)
    BY DEF Pushed, Goto, Threads, Registers
  <2>2. pc'[q] \in DeregisterPcs /\ Ends(q)' => pc[q] = pc'[q] /\ Ends(q)
    BY <1>r DEF TypeOK, Threads, Ends, DeregisterPcs
  <2>3. pc[q] \in DeregisterPcs /\ Ends(q) => device[q] \in Devices /\ devices[device[q]].timer \in Timers
    BY DEF KnowsWhole, HandsInv, TypeOK, DeviceType, IInv
  <2>4. devices[device[q]].timer \in Timers /\ device[q] \in Devices /\ Untold(device[q]) => Untold(device[q])'
    <3>1. device[q] \in Devices /\ Unnamed(device[q]) => Unnamed(device[q])'
      BY <1>q, <1>r DEF Pushed, Enqueue, Unnamed, pools
    <3> QED BY <3>1 DEF Pushed, Goto, Untold, pools
  <2> QED BY <2>1, <2>2, <2>3, <2>4 DEF IInv, Pushed, Goto, pools, KnowsWhole
<1>12. \A q \in Threads : KnowsLast(q)'
  BY DEF Pushed, pools, Goto, DeregisterPcs, Ends, KnowsLast, Enqueue
<1>13. \A q \in Threads : KnowsFired(q)'
  BY DEF Pushed, pools, Goto, TypeOK, Has, KnowsFired, Enqueue
<1>14. OneHand'
  BY DEF Pushed, Goto, DeregisterPcs, OneHand, InHand
<1>15. OneTaker'
  <2>1. ASSUME NEW q \in Threads, NEW d \in Devices, InHand(q, d)' PROVE q # t /\ InHand(q, d)
    BY <1>r, <2>1 DEF Pushed, InHand, DeregisterPcs
  <2>2. ASSUME NEW d \in Devices, NEW e \in Events, Takes(e, d)'
        PROVE  Takes(e, d) \/ (e = event[t] /\ d = device[t] /\ InHand(t, d))
    <3>1. events[e].device = d /\ e \notin stale /\ ~devices[d].repeating /\ Live(e)'
      BY <2>2 DEF Takes, Pushed, pools
    <3>2. CASE e = event[t]
      BY <1>r, <3>1, <3>2 DEF HandsInv, KnowsFired, InHand
    <3>3. CASE e # event[t]
      <4>1. Live(e)
        BY <1>q, <1>r, <3>1, <3>3 DEF Live
      <4> QED BY <3>1, <4>1 DEF Takes
    <3> QED BY <3>2, <3>3
  <2>3. ASSUME NEW d \in Devices, NEW e \in Events, Takes(e, d)', NEW q \in Threads, InHand(q, d)' PROVE FALSE
    BY <1>r, <2>1, <2>2, <2>3 DEF OneTaker, OneHand
  <2>4. ASSUME NEW d \in Devices, NEW e \in Events, Takes(e, d)', NEW f \in Events, Takes(f, d)' PROVE e = f
    BY <1>r, <2>2, <2>4 DEF OneTaker
  <2> QED BY <2>3, <2>4 DEF OneTaker
<1>16. OneKeeper'
  BY DEF Pushed, pools, Goto, DeregisterPcs, OneKeeper, InHand
<1>17. Kept'
  <2> SUFFICES ASSUME NEW d \in Devices, devices'[d].used, devices'[d].timer = None
                PROVE  (\E q \in Threads : InHand(q, d)') \/ \E e \in Events : Takes(e, d)'
    BY DEF Kept
  <2>1. devices[d].used /\ devices[d].timer = None
    BY DEF Pushed, pools
  <2>2. CASE InHand(t, d)
    <3>1. events[event[t]].device = d /\ ~devices[d].repeating /\ event[t] \notin stale
      BY <2>1, <2>2, <1>r DEF InHand, HandsInv, KnowsFired
    <3> QED BY <3>1, <1>q DEF Takes, Live, Pushed, pools
  <2>3. CASE \E q \in Threads \ {t} : InHand(q, d)
    <3>1. PICK q \in Threads \ {t} : InHand(q, d)
      BY <2>3
    <3> QED BY <3>1, <1>r DEF Pushed, InHand, DeregisterPcs
  <2>4. CASE \E e \in Events : Takes(e, d)
    <3>1. PICK e \in Events : Takes(e, d)
      BY <2>4
    <3>2. Live(e)'
      BY <1>q, <1>r, <3>1 DEF Takes, Live
    <3> QED BY <3>1, <3>2 DEF Pushed, pools, Takes
  <2> QED BY <2>1, <2>2, <2>3, <2>4 DEF Kept
<1>18. TimerInv'
  BY DEF Pushed, pools, Goto, Ends, Has, TimerInv, Enqueue
<1>19. RegisterInv'
  BY DEF Pushed, pools, Goto, Registers, Has, RegisterInv
<1>20. NamesInv'
  <2>1. ASSUME NEW e \in Events, Live(e)' PROVE Live(e) \/ e = event[t]
    BY <1>q, <1>r, <2>1 DEF Live
  <2>2. LET d == events[event[t]].device IN
          d # None /\ event[t] \notin stale /\ devices[d].used /\ (~devices[d].repeating => devices[d].remove)
    BY <1>r DEF HandsInv, KnowsFired
  <2>3. \A v \in Workers : Registers(v)' => Registers(v)
    BY <1>r DEF Registers, RegisterPcs, Threads
  <2> QED BY <2>1, <2>2, <2>3 DEF NamesInv, Pushed, pools
<1> QED BY <1>1, <1>2, <1>3, <1>4, <1>5, <1>6, <1>7, <1>8, <1>9, <1>10, <1>11, <1>12, <1>13,
   <1>14, <1>15, <1>16, <1>17, <1>18, <1>19, <1>20
DEF EventsInv

\* A refused event is freed by the callback that has it.
LEMMA PushFailsStep == ASSUME Locked, Fresh, IInv, NEW t \in Timers, PushFails(t) PROVE IInv'
<1> USE HidAssumption DEF IInv
<1>r. /\ pc[t] = "push" /\ t \in Threads /\ event[t] \in Events /\ devices[device[t]].used /\ pc'[t] = "free"
      /\ event' = event /\ queue' = queue /\ device' = device /\ once' = once
      /\ \A v \in Threads \ {t} : pc'[v] = pc[v]
  BY DEF PushFails, Goto, TypeOK, HandsInv, KnowsFired, Threads, hand
<1>1. TypeOK'
  BY DEF PushFails, Threads, pools, hand, Goto, TypeOK
<1>2. LockInv'
  BY DEF PushFails, Goto, TypeOK, LockInv
<1>3. Placed'
  BY DEF PushFails, Queued, pools, hand, Goto, EventsInv, Placed
<1>4. QueuedOnce'
  BY DEF PushFails, Goto, EventsInv, QueuedOnce
<1>5. QueuedOnly'
  BY DEF PushFails, Queued, hand, EventsInv, QueuedOnly
<1>6. HeldOnce'
  BY DEF PushFails, hand, EventsInv, HeldOnce
<1>7. Blank'
  BY DEF PushFails, pools, EventsInv, Blank
<1>8. HandsInv'
  BY DEF PushFails, pools, hand, Goto, RegisterPcs, HandsInv, EmptyHanded, Registers
<1>9. DevicesInv'
  BY DEF PushFails, pools, FreeDevice, DevicesInv
<1>10. \A q \in Threads : KnowsNew(q)'
  <2> SUFFICES ASSUME NEW q \in Threads PROVE KnowsNew(q)'
    OBVIOUS
  <2>1. (pc[q] = "takeDevice" => ~devices[device[q]].used)'
    BY DEF PushFails, pools, hand, Goto, KnowsNew
  <2>2. (pc[q] = "fill" => Bare(device[q]))'
    BY DEF PushFails, Bare, pools, hand, Goto, KnowsNew
  <2>3. (pc[q] = "start" => Has(device[q], timer[q]) /\ devices[device[q]].repeating = ~once[q])'
    BY DEF PushFails, pools, hand, Goto, Has, KnowsNew
  <2>4. (pc[q] \in {"fill", "start"} => Unnamed(device[q]))'
    BY DEF PushFails, Queued, pools, hand, Goto, KnowsNew, Unnamed
  <2> QED BY <2>1, <2>2, <2>3, <2>4 DEF KnowsNew
<1>11. \A q \in Threads : KnowsWhole(q)'
  BY DEF PushFails, Queued, pools, hand, Goto, Registers, Ends, KnowsWhole, Untold, Unnamed
<1>12. \A q \in Threads : KnowsLast(q)'
  BY DEF PushFails, pools, hand, Goto, DeregisterPcs, Ends, KnowsLast
<1>13. \A q \in Threads : KnowsFired(q)'
  BY DEF PushFails, pools, hand, Goto, Has, KnowsFired
<1>14. OneHand'
  BY DEF PushFails, hand, Goto, DeregisterPcs, OneHand, InHand
<1>15. OneTaker'
  <2>1. ASSUME NEW q \in Threads, NEW d \in Devices, InHand(q, d)' PROVE q # t /\ InHand(q, d)
    BY <1>r, <2>1 DEF InHand, DeregisterPcs
  <2>2. ASSUME NEW d \in Devices, NEW e \in Events, Takes(e, d)'
        PROVE  Takes(e, d) \/ (e = event[t] /\ d = device[t] /\ InHand(t, d))
    <3>1. events[e].device = d /\ e \notin stale /\ ~devices[d].repeating /\ Live(e)'
      BY <2>2 DEF Takes, PushFails, pools
    <3>2. CASE e = event[t]
      BY <1>r, <3>1, <3>2 DEF HandsInv, KnowsFired, InHand
    <3>3. CASE e # event[t]
      <4>1. Live(e)
        BY <1>r, <3>1, <3>3 DEF Live, Queued
      <4> QED BY <3>1, <4>1 DEF Takes
    <3> QED BY <3>2, <3>3
  <2>3. ASSUME NEW d \in Devices, NEW e \in Events, Takes(e, d)', NEW q \in Threads, InHand(q, d)' PROVE FALSE
    BY <1>r, <2>1, <2>2, <2>3 DEF OneTaker, OneHand
  <2>4. ASSUME NEW d \in Devices, NEW e \in Events, Takes(e, d)', NEW f \in Events, Takes(f, d)' PROVE e = f
    BY <1>r, <2>2, <2>4 DEF OneTaker
  <2> QED BY <2>3, <2>4 DEF OneTaker
<1>16. OneKeeper'
  BY DEF PushFails, pools, hand, Goto, DeregisterPcs, OneKeeper, InHand
<1>17. Kept'
  <2> SUFFICES ASSUME NEW d \in Devices, devices'[d].used, devices'[d].timer = None
                PROVE  (\E q \in Threads : InHand(q, d)') \/ \E e \in Events : Takes(e, d)'
    BY DEF Kept
  <2>1. devices[d].used /\ devices[d].timer = None
    BY DEF PushFails, pools
  <2>2. CASE InHand(t, d)
    <3>1. events[event[t]].device = d /\ ~devices[d].repeating /\ event[t] \notin stale
      BY <2>1, <2>2, <1>r DEF InHand, HandsInv, KnowsFired
    <3> QED BY <3>1, <1>r DEF Takes, Live, PushFails, pools
  <2>3. CASE \E q \in Threads \ {t} : InHand(q, d)
    <3>1. PICK q \in Threads \ {t} : InHand(q, d)
      BY <2>3
    <3> QED BY <3>1, <1>r DEF InHand
  <2>4. CASE \E e \in Events : Takes(e, d)
    <3>1. PICK e \in Events : Takes(e, d)
      BY <2>4
    <3>2. Live(e)'
      BY <1>r, <3>1 DEF Takes, Live, Queued
    <3> QED BY <3>1, <3>2 DEF PushFails, pools, Takes
  <2> QED BY <2>1, <2>2, <2>3, <2>4 DEF Kept
<1>18. TimerInv'
  BY DEF PushFails, pools, hand, Goto, Ends, Has, TimerInv
<1>19. RegisterInv'
  BY DEF PushFails, pools, hand, Goto, Registers, Has, RegisterInv
<1>20. NamesInv'
  <2>1. ASSUME NEW e \in Events, Live(e)' PROVE Live(e) \/ e = event[t]
    BY <1>r, <2>1 DEF Live, Queued
  <2>2. LET d == events[event[t]].device IN
          d # None /\ event[t] \notin stale /\ devices[d].used /\ (~devices[d].repeating => devices[d].remove)
    BY <1>r DEF HandsInv, KnowsFired
  <2>3. \A v \in Workers : Registers(v)' => Registers(v)
    BY <1>r DEF Registers, RegisterPcs, Threads
  <2> QED BY <2>1, <2>2, <2>3 DEF NamesInv, PushFails, pools
<1> QED BY <1>1, <1>2, <1>3, <1>4, <1>5, <1>6, <1>7, <1>8, <1>9, <1>10, <1>11, <1>12, <1>13,
   <1>14, <1>15, <1>16, <1>17, <1>18, <1>19, <1>20
DEF EventsInv

\* The callback returns and has nothing in hand.
LEMMA LeaveStep == ASSUME Locked, Fresh, IInv, NEW t \in Timers, Leave(t) PROVE IInv'
<1> USE HidAssumption DEF IInv
<1>1. TypeOK'
  BY DEF Leave, Threads, pools, Goto, TypeOK
<1>2. LockInv'
  BY DEF Leave, Goto, TypeOK, LockInv
<1>3. Placed'
  BY DEF Leave, Queued, pools, Goto, EventsInv, Placed
<1>4. QueuedOnce'
  BY DEF Leave, Goto, EventsInv, QueuedOnce
<1>5. QueuedOnly'
  BY DEF Leave, Queued, EventsInv, QueuedOnly
<1>6. HeldOnce'
  BY DEF Leave, Goto, EventsInv, HeldOnce
<1>7. Blank'
  BY DEF Leave, pools, EventsInv, Blank
<1>8. HandsInv'
  BY DEF Leave, pools, Goto, RegisterPcs, DeregisterPcs, HandsInv, EmptyHanded, Registers
<1>9. DevicesInv'
  BY DEF Leave, pools, FreeDevice, DevicesInv
<1>10. \A q \in Threads : KnowsNew(q)'
  <2> SUFFICES ASSUME NEW q \in Threads PROVE KnowsNew(q)'
    OBVIOUS
  <2>1. (pc[q] = "takeDevice" => ~devices[device[q]].used)'
    BY DEF Leave, pools, Goto, KnowsNew
  <2>2. (pc[q] = "fill" => Bare(device[q]))'
    BY DEF Leave, Bare, pools, Goto, KnowsNew
  <2>3. (pc[q] = "start" => Has(device[q], timer[q]) /\ devices[device[q]].repeating = ~once[q])'
    BY DEF Leave, pools, Goto, Has, KnowsNew
  <2>4. (pc[q] \in {"fill", "start"} => Unnamed(device[q]))'
    BY DEF Leave, Queued, pools, Goto, KnowsNew, Unnamed
  <2> QED BY <2>1, <2>2, <2>3, <2>4 DEF KnowsNew
<1>11. \A q \in Threads : KnowsWhole(q)'
  BY DEF Leave, Queued, pools, Goto, Registers, Ends, KnowsWhole, Untold, Unnamed
<1>12. \A q \in Threads : KnowsLast(q)'
  BY DEF Leave, pools, Goto, DeregisterPcs, Ends, KnowsLast
<1>13. \A q \in Threads : KnowsFired(q)'
  BY DEF Leave, pools, Goto, Has, KnowsFired
<1>14. OneHand'
  BY DEF Leave, Goto, DeregisterPcs, OneHand, InHand
<1>15. OneTaker'
  BY DEF Leave, Queued, pools, Goto, TypeOK, OneTaker, InHand, Takes, Live
<1>16. OneKeeper'
  BY DEF Leave, pools, Goto, TypeOK, OneKeeper, InHand
<1>17. Kept'
  <2> SUFFICES ASSUME NEW d \in Devices, devices'[d].used, devices'[d].timer = None
                PROVE  (\E q \in Threads : InHand(q, d)') \/ \E e \in Events : Takes(e, d)'
    BY DEF Kept
  <2>1. devices[d].used /\ devices[d].timer = None
    BY DEF Leave, pools, Goto, TypeOK
  <2>2. CASE \E q \in Threads : InHand(q, d)
    <3>1. PICK q \in Threads : InHand(q, d)
      BY <2>2
    <3>2. InHand(q, d)'
      BY <2>1, <3>1 DEF Leave, Goto, DeregisterPcs, InHand
    <3> QED BY <3>2
  <2>3. CASE \E e \in Events : Takes(e, d)
    <3>1. PICK e \in Events : Takes(e, d)
      BY <2>3
    <3>2. Takes(e, d)'
      BY <2>1, <3>1 DEF Leave, Queued, pools, Goto, Takes, Live
    <3> QED BY <3>2
  <2> QED BY <2>1, <2>2, <2>3 DEF Kept
<1>18. TimerInv'
  BY DEF Leave, pools, Goto, Ends, Has, TimerInv
<1>19. RegisterInv'
  BY DEF Leave, pools, Goto, Registers, Has, RegisterInv
<1>20. NamesInv'
  BY DEF Leave, Queued, pools, Goto, Registers, NamesInv, Live
<1> QED BY <1>1, <1>2, <1>3, <1>4, <1>5, <1>6, <1>7, <1>8, <1>9, <1>10, <1>11, <1>12, <1>13,
   <1>14, <1>15, <1>16, <1>17, <1>18, <1>19, <1>20
DEF EventsInv

-----------------------------------------------------------------------------
(* and the steps that workers and callbacks share: hid_deregister and hid_event_free. *)

\* hid_deregister looks for the timer of the device.
LEMMA DeregisterStep == ASSUME Locked, Fresh, IInv, NEW p \in Threads, Deregister(p) PROVE IInv'
<1> USE HidAssumption DEF IInv
<1>1. TypeOK'
  BY DEF Deregister, pools, Goto, DeregisterPcs, AfterDeregister, TypeOK, DeviceType, HandsInv
<1>2. LockInv'
  BY DEF Deregister, Goto, AfterDeregister, LockInv
<1>3. Placed'
  BY DEF Deregister, Queued, pools, Goto, AfterDeregister, EventsInv, Placed
<1>4. QueuedOnce'
  BY DEF Deregister, Goto, EventsInv, QueuedOnce
<1>5. QueuedOnly'
  BY DEF Deregister, Queued, EventsInv, QueuedOnly
<1>6. HeldOnce'
  BY DEF Deregister, Goto, EventsInv, HeldOnce
<1>7. Blank'
  BY DEF Deregister, pools, EventsInv, Blank
<1>8. HandsInv'
  BY DEF Deregister, pools, Goto, RegisterPcs, DeregisterPcs, HandsInv, EmptyHanded, Registers,
      Ends, KnowsWhole, KnowsLast
<1>9. DevicesInv'
  BY DEF Deregister, pools, FreeDevice, DevicesInv
<1>10. \A q \in Threads : KnowsNew(q)'
  <2> SUFFICES ASSUME NEW q \in Threads PROVE KnowsNew(q)'
    OBVIOUS
  <2>1. (pc[q] = "takeDevice" => ~devices[device[q]].used)'
    BY DEF Deregister, pools, Goto, KnowsNew
  <2>2. (pc[q] = "fill" => Bare(device[q]))'
    BY DEF Deregister, Bare, pools, Goto, AfterDeregister, KnowsNew
  <2>3. (pc[q] = "start" => Has(device[q], timer[q]) /\ devices[device[q]].repeating = ~once[q])'
    BY DEF Deregister, pools, Goto, AfterDeregister, Has, KnowsNew
  <2>4. (pc[q] \in {"fill", "start"} => Unnamed(device[q]))'
    BY DEF Deregister, Queued, pools, Goto, AfterDeregister, KnowsNew, Unnamed
  <2> QED BY <2>1, <2>2, <2>3, <2>4 DEF KnowsNew
<1>11. \A q \in Threads : KnowsWhole(q)'
  BY DEF Deregister, Queued, pools, Goto, RegisterPcs, AfterDeregister, TypeOK, Registers, Ends,
      KnowsWhole, Untold, Unnamed
<1>12. \A q \in Threads : KnowsLast(q)'
  BY DEF Deregister, pools, Goto, DeregisterPcs, AfterDeregister, Ends, KnowsLast
<1>13. \A q \in Threads : KnowsFired(q)'
  BY DEF Deregister, pools, Goto, DeregisterPcs, Has, KnowsFired, KnowsWhole, KnowsLast
<1>14. OneHand'
  BY DEF Deregister, Goto, DeregisterPcs, OneHand, InHand
<1>15. OneTaker'
  BY DEF Deregister, Queued, pools, Goto, DeregisterPcs, OneTaker, InHand, Takes, Live,
      KnowsWhole, KnowsLast
<1>16. OneKeeper'
  BY DEF Deregister, pools, Goto, DeregisterPcs, OneKeeper, InHand
<1>17. Kept'
  <2> SUFFICES ASSUME NEW d \in Devices, devices'[d].used, devices'[d].timer = None
                PROVE  (\E q \in Threads : InHand(q, d)') \/ \E e \in Events : Takes(e, d)'
    BY DEF Kept
  <2>1. devices[d].used /\ devices[d].timer = None
    BY DEF Deregister, pools, Goto, TypeOK
  <2>2. CASE \E q \in Threads : InHand(q, d)
    <3>1. PICK q \in Threads : InHand(q, d)
      BY <2>2
    <3>2. InHand(q, d)'
      BY <2>1, <3>1 DEF Deregister, Goto, DeregisterPcs, InHand
    <3> QED BY <3>2
  <2>3. CASE \E e \in Events : Takes(e, d)
    <3>1. PICK e \in Events : Takes(e, d)
      BY <2>3
    <3>2. Takes(e, d)'
      BY <2>1, <3>1 DEF Deregister, Queued, pools, Goto, Takes, Live
    <3> QED BY <3>2
  <2> QED BY <2>1, <2>2, <2>3 DEF Kept
<1>18. TimerInv'
  BY DEF Deregister, pools, Goto, Ends, Has, TimerInv
<1>19. RegisterInv'
  BY DEF Deregister, pools, Goto, RegisterPcs, HandsInv, Registers, Has, RegisterInv, KnowsWhole,
      KnowsLast
<1>20. NamesInv'
  BY DEF Deregister, Queued, pools, Goto, RegisterPcs, DeregisterPcs, Registers, NamesInv, Live,
      KnowsWhole, KnowsLast
<1> QED BY <1>1, <1>2, <1>3, <1>4, <1>5, <1>6, <1>7, <1>8, <1>9, <1>10, <1>11, <1>12, <1>13,
   <1>14, <1>15, <1>16, <1>17, <1>18, <1>19, <1>20
DEF EventsInv

\* The timer is given back while its device has it, until the slot is released.
LEMMA StopStep == ASSUME Locked, Fresh, IInv, NEW p \in Threads, Stop(p) PROVE IInv'
<1> USE HidAssumption DEF IInv
<1>1. TypeOK'
  <2>1. Ends(p) /\ device[p] \in Devices /\ Has(device[p], timer[p]) /\ timer[p] \in Timers /\ pc[p] = "stop"
    BY DEF Stop, HandsInv, EmptyHanded, Ends, KnowsWhole, DeregisterPcs, TypeOK, Has, Threads
  <2> QED BY <2>1 DEF Stop, TypeOK, Goto, pools, hand, DeregisterPcs
<1>2. LockInv'
  BY DEF Stop, Goto, TypeOK, LockInv
<1>3. Placed'
  BY DEF Stop, Queued, pools, hand, Goto, EventsInv, Placed
<1>4. QueuedOnce'
  BY DEF Stop, Goto, EventsInv, QueuedOnce
<1>5. QueuedOnly'
  BY DEF Stop, Queued, hand, EventsInv, QueuedOnly
<1>6. HeldOnce'
  BY DEF Stop, hand, EventsInv, HeldOnce
<1>7. Blank'
  BY DEF Stop, pools, EventsInv, Blank
<1>8. HandsInv'
  BY DEF Stop, pools, hand, Goto, RegisterPcs, DeregisterPcs, HandsInv, EmptyHanded, Registers
<1>9. DevicesInv'
  BY DEF Stop, pools, FreeDevice, DevicesInv
<1>10. \A q \in Threads : KnowsNew(q)'
  <2> SUFFICES ASSUME NEW q \in Threads PROVE KnowsNew(q)'
    OBVIOUS
  <2>1. (pc[q] = "takeDevice" => ~devices[device[q]].used)'
    BY DEF Stop, pools, hand, Goto, KnowsNew
  <2>2. (pc[q] = "fill" => Bare(device[q]))'
    BY DEF Stop, Bare, pools, hand, Goto, KnowsNew
  <2>3. (pc[q] = "start" => Has(device[q], timer[q]) /\ devices[device[q]].repeating = ~once[q])'
    BY DEF Stop, pools, hand, Goto, Has, KnowsNew
  <2>4. (pc[q] \in {"fill", "start"} => Unnamed(device[q]))'
    BY DEF Stop, Queued, pools, hand, Goto, KnowsNew, Unnamed
  <2> QED BY <2>1, <2>2, <2>3, <2>4 DEF KnowsNew
<1>11. \A q \in Threads : KnowsWhole(q)'
  BY DEF Stop, Queued, pools, hand, Goto, RegisterPcs, TypeOK, HandsInv, Registers, Ends,
      KnowsWhole, Untold, Unnamed
<1>12. \A q \in Threads : KnowsLast(q)'
  BY DEF Stop, pools, hand, Goto, DeregisterPcs, Ends, KnowsLast
<1>13. \A q \in Threads : KnowsFired(q)'
  BY DEF Stop, pools, hand, Goto, Has, KnowsFired
<1>14. OneHand'
  BY DEF Stop, hand, Goto, DeregisterPcs, OneHand, InHand
<1>15. OneTaker'
  BY DEF Stop, Queued, pools, hand, Goto, DeregisterPcs, OneTaker, InHand, Takes, Live
<1>16. OneKeeper'
  BY DEF Stop, pools, hand, Goto, DeregisterPcs, OneKeeper, InHand
<1>17. Kept'
  <2> SUFFICES ASSUME NEW d \in Devices, devices'[d].used, devices'[d].timer = None
                PROVE  (\E q \in Threads : InHand(q, d)') \/ \E e \in Events : Takes(e, d)'
    BY DEF Kept
  <2>1. devices[d].used /\ devices[d].timer = None
    BY DEF Stop, pools, Goto, TypeOK
  <2>2. CASE \E q \in Threads : InHand(q, d)
    <3>1. PICK q \in Threads : InHand(q, d)
      BY <2>2
    <3>2. InHand(q, d)'
      BY <2>1, <3>1 DEF Stop, hand, Goto, DeregisterPcs, InHand
    <3> QED BY <3>2
  <2>3. CASE \E e \in Events : Takes(e, d)
    <3>1. PICK e \in Events : Takes(e, d)
      BY <2>3
    <3>2. Takes(e, d)'
      BY <2>1, <3>1 DEF Stop, Queued, pools, hand, Goto, Takes, Live
    <3> QED BY <3>2
  <2> QED BY <2>1, <2>2, <2>3 DEF Kept
<1>18. TimerInv'
  <2>1. Ends(p) /\ device[p] \in Devices /\ Has(device[p], timer[p]) /\ timer[p] \in Timers /\ pc[p] = "stop"
    BY DEF Stop, HandsInv, EmptyHanded, Ends, KnowsWhole, DeregisterPcs, TypeOK, Has, Threads
  <2> QED BY <2>1 DEF Stop, Threads, pools, hand, Goto, TypeOK, Ends, Has, TimerInv
<1>19. RegisterInv'
  <2>1. Ends(p) /\ device[p] \in Devices /\ Has(device[p], timer[p]) /\ timer[p] \in Timers /\ pc[p] = "stop"
    BY DEF Stop, HandsInv, EmptyHanded, Ends, KnowsWhole, DeregisterPcs, TypeOK, Has, Threads
  <2>2. ASSUME NEW v \in Workers, Registers(v) PROVE timer[v] # timer[p]
    <3>1. CASE pc[v] = "start"
      BY <2>1, <3>1
      DEF KnowsNew, TimerInv, HandsInv, OneHand, InHand, TypeOK, Threads, DeregisterPcs
    <3>2. CASE pc[v] # "start"
      BY <2>1, <2>2, <3>2 DEF RegisterInv
    <3> QED BY <3>1, <3>2
  <2>3. \A v \in Workers : Registers(v)' => Registers(v) /\ pc'[v] = pc[v]
    BY DEF Stop, Goto, Registers, RegisterPcs
  <2>4. \A v \in Workers : Registers(v) => timer[v] \in Timers
    BY DEF HandsInv
  <2> HIDE DEF IInv
  <2>5. RegisterInv /\ TypeOK
    BY DEF IInv
  <2> QED BY <2>1, <2>2, <2>3, <2>4, <2>5 DEF RegisterInv, Stop, pools, hand, Has
<1>20. NamesInv'
  BY DEF Stop, Queued, pools, hand, Goto, RegisterPcs, Registers, NamesInv, Live
<1> QED BY <1>1, <1>2, <1>3, <1>4, <1>5, <1>6, <1>7, <1>8, <1>9, <1>10, <1>11, <1>12, <1>13,
   <1>14, <1>15, <1>16, <1>17, <1>18, <1>19, <1>20
DEF EventsInv

\* sys_timer_deinit returns once no callback of the timer is under way.
LEMMA WaitStep == ASSUME Locked, Fresh, IInv, NEW p \in Threads, Wait(p) PROVE IInv'
<1> USE HidAssumption DEF IInv
<1>1. TypeOK'
  BY DEF Wait, pools, hand, Goto, DeregisterPcs, TypeOK
<1>2. LockInv'
  BY DEF Wait, Goto, TypeOK, LockInv
<1>3. Placed'
  BY DEF Wait, Queued, pools, hand, Goto, EventsInv, Placed
<1>4. QueuedOnce'
  BY DEF Wait, Goto, EventsInv, QueuedOnce
<1>5. QueuedOnly'
  BY DEF Wait, Queued, hand, EventsInv, QueuedOnly
<1>6. HeldOnce'
  BY DEF Wait, hand, EventsInv, HeldOnce
<1>7. Blank'
  BY DEF Wait, pools, EventsInv, Blank
<1>8. HandsInv'
  BY DEF Wait, pools, hand, Goto, RegisterPcs, DeregisterPcs, HandsInv, EmptyHanded, Registers
<1>9. DevicesInv'
  BY DEF Wait, pools, FreeDevice, DevicesInv
<1>10. \A q \in Threads : KnowsNew(q)'
  <2> SUFFICES ASSUME NEW q \in Threads PROVE KnowsNew(q)'
    OBVIOUS
  <2>1. (pc[q] = "takeDevice" => ~devices[device[q]].used)'
    BY DEF Wait, pools, hand, Goto, KnowsNew
  <2>2. (pc[q] = "fill" => Bare(device[q]))'
    BY DEF Wait, Bare, pools, hand, Goto, KnowsNew
  <2>3. (pc[q] = "start" => Has(device[q], timer[q]) /\ devices[device[q]].repeating = ~once[q])'
    BY DEF Wait, pools, hand, Goto, Has, KnowsNew
  <2>4. (pc[q] \in {"fill", "start"} => Unnamed(device[q]))'
    BY DEF Wait, Queued, pools, hand, Goto, KnowsNew, Unnamed
  <2> QED BY <2>1, <2>2, <2>3, <2>4 DEF KnowsNew
<1>11. \A q \in Threads : KnowsWhole(q)'
  BY DEF Wait, Queued, pools, hand, Goto, RegisterPcs, HandsInv, Registers, Ends, KnowsWhole,
      Untold, Unnamed
<1>12. \A q \in Threads : KnowsLast(q)'
  BY DEF Wait, pools, hand, Goto, DeregisterPcs, Ends, KnowsLast
<1>13. \A q \in Threads : KnowsFired(q)'
  BY DEF Wait, pools, hand, Goto, Has, KnowsFired
<1>14. OneHand'
  BY DEF Wait, hand, Goto, DeregisterPcs, OneHand, InHand
<1>15. OneTaker'
  BY DEF Wait, Queued, pools, hand, Goto, DeregisterPcs, OneTaker, InHand, Takes, Live
<1>16. OneKeeper'
  BY DEF Wait, pools, hand, Goto, DeregisterPcs, OneKeeper, InHand
<1>17. Kept'
  <2> SUFFICES ASSUME NEW d \in Devices, devices'[d].used, devices'[d].timer = None
                PROVE  (\E q \in Threads : InHand(q, d)') \/ \E e \in Events : Takes(e, d)'
    BY DEF Kept
  <2>1. devices[d].used /\ devices[d].timer = None
    BY DEF Wait, pools, Goto, TypeOK
  <2>2. CASE \E q \in Threads : InHand(q, d)
    <3>1. PICK q \in Threads : InHand(q, d)
      BY <2>2
    <3>2. InHand(q, d)'
      BY <2>1, <3>1 DEF Wait, hand, Goto, DeregisterPcs, InHand
    <3> QED BY <3>2
  <2>3. CASE \E e \in Events : Takes(e, d)
    <3>1. PICK e \in Events : Takes(e, d)
      BY <2>3
    <3>2. Takes(e, d)'
      BY <2>1, <3>1 DEF Wait, Queued, pools, hand, Goto, Takes, Live
    <3> QED BY <3>2
  <2> QED BY <2>1, <2>2, <2>3 DEF Kept
<1>18. TimerInv'
  BY DEF Wait, pools, hand, Goto, Ends, Has, TimerInv
<1>19. RegisterInv'
  BY DEF Wait, pools, hand, Goto, RegisterPcs, Registers, Has, RegisterInv
<1>20. NamesInv'
  BY DEF Wait, Queued, pools, hand, Goto, RegisterPcs, Registers, NamesInv, Live
<1> QED BY <1>1, <1>2, <1>3, <1>4, <1>5, <1>6, <1>7, <1>8, <1>9, <1>10, <1>11, <1>12, <1>13,
   <1>14, <1>15, <1>16, <1>17, <1>18, <1>19, <1>20
DEF EventsInv

\* The slot of the device is given back.  The events that name it become stale, which only a
\* repeating device has (ReleasedLast).
LEMMA ReleaseDeviceStep == ASSUME Locked, Fresh, IInv, NEW p \in Threads, ReleaseDevice(p) PROVE IInv'
<1> USE HidAssumption DEF IInv
<1>q. /\ p \in Threads /\ pc[p] = "releaseDevice" /\ device[p] \in Devices /\ devices[device[p]].used
      /\ InHand(p, device[p])
  BY DEF ReleaseDevice, HandsInv, KnowsWhole, KnowsLast, InHand, TypeOK, DeregisterPcs
<1>r. /\ device'[p] = None /\ pc'[p] \in {"release", "leave", "idle"}
      /\ \A v \in Threads \ {p} : device'[v] = device[v] /\ pc'[v] = pc[v] /\ timer'[v] = timer[v]
      /\ devices'[device[p]] = FreeDevice
      /\ \A c \in Devices \ {device[p]} : devices'[c] = devices[c]
      /\ events' = events /\ queue' = queue /\ event' = event /\ once' = once
      /\ stale' = stale \cup Pending(device[p])
  BY <1>q DEF ReleaseDevice, AfterDeregister, Goto, TypeOK
<1>l. \A e \in Events : Live(e)' => Live(e)
  BY <1>q, <1>r DEF Live, Queued
<1>m. ASSUME NEW e \in Events, Live(e), events[e].device = device[p] PROVE e \in Pending(device[p])
  BY <1>m, <1>q DEF Pending, Live, EventsInv, QueuedOnly, HeldOnce
<1>z. Pending(device[p]) = {} \/ \A w \in Workers : ~Registers(w)
  BY ReleasedLast
<1>1. TypeOK'
  BY DEF ReleaseDevice, Goto, DeregisterPcs, AfterDeregister, FreeDevice, TypeOK, DeviceType,
      HandsInv, Pending
<1>2. LockInv'
  BY DEF ReleaseDevice, Goto, AfterDeregister, LockInv
<1>3. Placed'
  BY DEF ReleaseDevice, Queued, Goto, AfterDeregister, EventsInv, Placed
<1>4. QueuedOnce'
  BY DEF ReleaseDevice, Goto, EventsInv, QueuedOnce
<1>5. QueuedOnly'
  BY DEF ReleaseDevice, Queued, EventsInv, QueuedOnly
<1>6. HeldOnce'
  BY DEF ReleaseDevice, Goto, EventsInv, HeldOnce
<1>7. Blank'
  BY DEF ReleaseDevice, HandsInv, EventsInv, DeregisterPcs, Blank, Pending
<1>8. HandsInv'
  BY DEF ReleaseDevice, Goto, RegisterPcs, DeregisterPcs, AfterDeregister, TypeOK, HandsInv,
      EmptyHanded, Registers
<1>9. DevicesInv'
  BY DEF ReleaseDevice, Goto, FreeDevice, DevicesInv
<1>10. \A q \in Threads : KnowsNew(q)'
  <2> SUFFICES ASSUME NEW q \in Threads PROVE KnowsNew(q)'
    OBVIOUS
  <2>1. (pc[q] = "takeDevice" => ~devices[device[q]].used)'
    BY DEF ReleaseDevice, Goto, Unlocked, AfterDeregister, LockInv
  <2>2. (pc[q] = "fill" => Bare(device[q]))'
    BY DEF ReleaseDevice, Bare, Goto, DeregisterPcs, AfterDeregister, TypeOK, KnowsNew, OneHand,
        InHand
  <2>3. (pc[q] = "start" => Has(device[q], timer[q]) /\ devices[device[q]].repeating = ~once[q])'
    <3>1. pc[q] = "start" => device[q] # device[p] /\ device[q] \in Devices
      BY <1>q DEF OneHand, InHand, HandsInv, TypeOK
    <3> QED BY <1>q, <1>r, <3>1 DEF KnowsNew, Has
  <2>4. (pc[q] \in {"fill", "start"} => Unnamed(device[q]))'
    BY DEF ReleaseDevice, Queued, Goto, AfterDeregister, KnowsNew, Unnamed
  <2> QED BY <2>1, <2>2, <2>3, <2>4 DEF KnowsNew
<1>11. \A q \in Threads : KnowsWhole(q)'
  BY DEF ReleaseDevice, Queued, Goto, RegisterPcs, DeregisterPcs, AfterDeregister, TypeOK,
      Registers, Ends, KnowsWhole, Untold, Unnamed, OneHand, InHand
<1>12. \A q \in Threads : KnowsLast(q)'
  BY DEF ReleaseDevice, Goto, DeregisterPcs, AfterDeregister, TypeOK, Ends, KnowsLast, OneHand,
      InHand
<1>13. \A q \in Threads : KnowsFired(q)'
  <2> SUFFICES ASSUME NEW q \in Threads PROVE KnowsFired(q)'
    OBVIOUS
  <2>1. (pc[q] \in {"deinit", "clear"} => Has(device[q], q) /\ ~devices[device[q]].repeating /\ once[q])'
    BY DEF ReleaseDevice, Goto, DeregisterPcs, AfterDeregister, TypeOK, Has, KnowsFired, OneHand,
        InHand
  <2>2. (pc[q] = "clear" => running[q] = "free")'
    BY DEF ReleaseDevice, Goto, AfterDeregister, KnowsFired
  <2>3. (pc[q] \in {"retain", "takeEvent", "fillEvent", "push"} =>
             /\ devices[device[q]].used
             /\ once[q] => devices[device[q]].remove /\ ~devices[device[q]].repeating
             /\ ~once[q] => devices[device[q]].timer = q /\ devices[device[q]].repeating)'
    BY DEF ReleaseDevice, Goto, DeregisterPcs, AfterDeregister, TypeOK, KnowsFired, KnowsWhole,
        KnowsLast, OneHand, InHand
  <2>4. (pc[q] \in {"fillEvent", "push"} => event[q] \notin stale)'
    <3> SUFFICES ASSUME pc'[q] \in {"fillEvent", "push"} PROVE event'[q] \notin stale'
      OBVIOUS
    <3>1. pc[q] = pc'[q] /\ event'[q] = event[q] /\ event[q] \notin stale /\ q # p
      BY DEF ReleaseDevice, AfterDeregister, Goto, KnowsFired
    <3>2. events[event[q]].device # device[p]
      <4>1. CASE pc[q] = "fillEvent"
        BY <4>1 DEF HandsInv, ReleaseDevice, DeregisterPcs
      <4>2. CASE pc[q] = "push"
        <5>1. events[event[q]].device = device[q] /\ devices[device[q]].used /\ device[q] \in Devices
          BY <4>2 DEF HandsInv, KnowsFired, TypeOK
        <5>2. CASE once[q]
          BY <3>1, <4>2, <5>1, <5>2 DEF OneHand, InHand, ReleaseDevice, DeregisterPcs
        <5>3. CASE ~once[q]
          BY <3>1, <4>2, <5>1, <5>3
          DEF KnowsFired, KnowsWhole, KnowsLast, ReleaseDevice, DeregisterPcs
        <5> QED BY <5>2, <5>3
      <4> QED BY <3>1, <4>1, <4>2
    <3> QED BY <3>1, <3>2 DEF ReleaseDevice, Pending
  <2> QED BY <2>1, <2>2, <2>3, <2>4 DEF KnowsFired
<1>14. OneHand'
  BY DEF ReleaseDevice, Goto, DeregisterPcs, OneHand, InHand
<1>15. OneTaker'
  <2>1. ASSUME NEW c \in Devices, NEW e \in Events, Takes(e, c)' PROVE Takes(e, c) /\ c # device[p]
    <3>1. events[e].device = c /\ e \notin stale /\ Live(e) /\ c # device[p] /\ ~devices'[c].repeating
      BY <1>l, <1>m, <1>r, <2>1 DEF Takes
    <3> QED BY <1>r, <3>1 DEF Takes
  <2>2. ASSUME NEW c \in Devices, NEW q \in Threads, InHand(q, c)' PROVE InHand(q, c)
    BY <1>r, <2>2, <1>q DEF InHand, DeregisterPcs
  <2> QED BY <2>1, <2>2 DEF OneTaker
<1>16. OneKeeper'
  BY DEF ReleaseDevice, Goto, DeregisterPcs, TypeOK, OneKeeper, InHand
<1>17. Kept'
  <2> SUFFICES ASSUME NEW d \in Devices, devices'[d].used, devices'[d].timer = None
                PROVE  (\E q \in Threads : InHand(q, d)') \/ \E e \in Events : Takes(e, d)'
    BY DEF Kept
  <2>1. devices[d].used /\ devices[d].timer = None
    BY DEF ReleaseDevice, Pending, AfterDeregister, FreeDevice
  <2>2. CASE \E q \in Threads : InHand(q, d)
    <3>1. PICK q \in Threads : InHand(q, d)
      BY <2>2
    <3>2. InHand(q, d)'
      BY <2>1, <3>1 DEF ReleaseDevice, Goto, FreeDevice, TypeOK, InHand
    <3> QED BY <3>2
  <2>3. CASE \E e \in Events : Takes(e, d)
    <3>1. PICK e \in Events : Takes(e, d)
      BY <2>3
    <3>2. Takes(e, d)'
      BY <2>1, <3>1 DEF ReleaseDevice, Pending, Queued, Goto, FreeDevice, TypeOK, Takes, Live
    <3> QED BY <3>2
  <2> QED BY <2>1, <2>2, <2>3 DEF Kept
<1>18. TimerInv'
  BY DEF ReleaseDevice, Threads, Goto, Unlocked, RegisterPcs, DeregisterPcs, FreeDevice, TypeOK,
      Ends, Has, TimerInv, RegisterInv, KnowsNew, KnowsWhole, KnowsLast, DevicesInv
<1>19. RegisterInv'
  BY DEF ReleaseDevice, Goto, RegisterPcs, AfterDeregister, FreeDevice, Registers, Has,
      RegisterInv
<1>20. NamesInv'
  <2>1. ASSUME NEW e \in Events, Live(e)'
        PROVE  LET c == events[e].device IN
               /\ c # None
               /\ IF e \in stale' THEN ~devices'[c].used
                  ELSE devices'[c].used /\ (~devices'[c].repeating => devices'[c].remove)
    <3>1. Live(e) /\ events[e].device \in Devices
      BY <1>l, <2>1 DEF NamesInv, TypeOK, EventType
    <3>2. CASE events[e].device = device[p]
      BY <1>m, <1>q, <1>r, <3>1, <3>2, HidAssumption DEF FreeDevice
    <3>3. CASE events[e].device # device[p]
      <4>1. e \notin Pending(device[p])
        BY <3>3 DEF Pending
      <4> QED BY <1>r, <3>1, <3>3, <4>1 DEF NamesInv
    <3> QED BY <3>2, <3>3
  <2>2. \A w \in Workers : Registers(w)' => Registers(w)
    BY <1>q, <1>r DEF Registers, RegisterPcs, Threads
  <2> QED BY <1>r, <1>z, <2>1, <2>2 DEF NamesInv
<1> QED BY <1>1, <1>2, <1>3, <1>4, <1>5, <1>6, <1>7, <1>8, <1>9, <1>10, <1>11, <1>12, <1>13,
   <1>14, <1>15, <1>16, <1>17, <1>18, <1>19, <1>20
DEF EventsInv

\* The last event of a one-shot device: the device comes into the hand of who frees it.
LEMMA FreeLastStep == ASSUME Locked, Fresh, IInv, NEW p \in Threads, FreeLast(p) PROVE IInv'
<1> USE HidAssumption DEF IInv
<1> DEFINE d == events[event[p]].device
<1>q. /\ p \in Threads /\ pc[p] = "free" /\ event[p] \in Events /\ d \in Devices /\ devices[d].remove
      /\ device'[p] = d /\ pc'[p] = "unflag"
      /\ \A v \in Threads \ {p} : device'[v] = device[v] /\ pc'[v] = pc[v]
      /\ devices' = devices /\ events' = events /\ queue' = queue /\ event' = event /\ stale' = stale
      /\ once' = once /\ owned' = owned
  BY DEF FreeLast, Goto, TypeOK, EventType, HandsInv, pools
<1>t. Takes(event[p], d)
  BY <1>q DEF Takes, Live, NamesInv, DevicesInv
<1> HIDE DEF d
<1>h. ASSUME NEW q \in Threads, NEW c \in Devices, InHand(q, c)'
      PROVE  IF q = p THEN c = d ELSE InHand(q, c)
  BY <1>q, <1>h DEF InHand
<1>l. \A e \in Events : Live(e)' <=> Live(e) /\ e # event[p]
  <2>1. ~Queued(event[p])
    BY <1>q DEF QueuedOnly, EventsInv
  <2>2. \A q \in Threads : event[q] = event[p] => q = p
    BY <1>q DEF HeldOnce, EventsInv
  <2>3. \A e : Queued(e)' <=> Queued(e)
    BY <1>q DEF Queued
  <2> QED BY <1>q, <2>1, <2>2, <2>3 DEF Live
<1>1. TypeOK'
  BY DEF FreeLast, pools, Goto, TypeOK, EventType, HandsInv
<1>2. LockInv'
  BY DEF FreeLast, Goto, TypeOK, LockInv
<1>3. Placed'
  BY DEF FreeLast, Queued, pools, Goto, EventsInv, Placed
<1>4. QueuedOnce'
  BY DEF FreeLast, Goto, EventsInv, QueuedOnce
<1>5. QueuedOnly'
  BY DEF FreeLast, Queued, EventsInv, QueuedOnly
<1>6. HeldOnce'
  BY DEF FreeLast, Goto, EventsInv, HeldOnce
<1>7. Blank'
  BY DEF FreeLast, pools, EventsInv, Blank
<1>8. HandsInv'
  BY DEF FreeLast, pools, Goto, RegisterPcs, TypeOK, HandsInv, EmptyHanded, Registers
<1>9. DevicesInv'
  BY DEF FreeLast, pools, FreeDevice, DevicesInv
<1>10. \A q \in Threads : KnowsNew(q)'
  <2> SUFFICES ASSUME NEW q \in Threads PROVE KnowsNew(q)'
    OBVIOUS
  <2>1. (pc[q] = "takeDevice" => ~devices[device[q]].used)'
    BY DEF FreeLast, pools, Goto, KnowsNew
  <2>2. (pc[q] = "fill" => Bare(device[q]))'
    BY DEF FreeLast, Bare, pools, Goto, KnowsNew
  <2>3. (pc[q] = "start" => Has(device[q], timer[q]) /\ devices[device[q]].repeating = ~once[q])'
    BY DEF FreeLast, pools, Goto, Has, KnowsNew
  <2>4. (pc[q] \in {"fill", "start"} => Unnamed(device[q]))'
    BY DEF FreeLast, Queued, pools, Goto, KnowsNew, Unnamed
  <2> QED BY <2>1, <2>2, <2>3, <2>4 DEF KnowsNew
<1>11. \A q \in Threads : KnowsWhole(q)'
  BY DEF FreeLast, Queued, pools, Goto, RegisterPcs, HandsInv, Registers, Ends, KnowsWhole,
      Untold, Unnamed
<1>12. \A q \in Threads : KnowsLast(q)'
  BY DEF FreeLast, pools, Goto, TypeOK, EventType, HandsInv, Ends, KnowsLast, DevicesInv
<1>13. \A q \in Threads : KnowsFired(q)'
  BY DEF FreeLast, pools, Goto, Has, KnowsFired
<1>14. OneHand'
  <2> SUFFICES ASSUME NEW q \in Threads, NEW v \in Threads, NEW c \in Devices, InHand(q, c)', InHand(v, c)'
               PROVE  q = v
    BY DEF OneHand
  <2> QED BY <1>q, <1>t, <1>h DEF OneHand, OneTaker
<1>15. OneTaker'
  <2>1. ASSUME NEW c \in Devices, NEW e \in Events, Takes(e, c)' PROVE Takes(e, c) /\ c # d
    <3>1. Takes(e, c) /\ e # event[p]
      BY <1>q, <1>l, <2>1 DEF Takes
    <3> QED BY <1>q, <1>t, <3>1 DEF OneTaker
  <2> QED BY <1>h, <2>1 DEF OneTaker
<1>16. OneKeeper'
  <2>1. ~devices[d].repeating
    BY <1>t DEF Takes
  <2> QED BY <1>q, <1>h, <2>1 DEF OneKeeper, TypeOK
<1>17. Kept'
  <2> SUFFICES ASSUME NEW c \in Devices, devices'[c].used, devices'[c].timer = None
                PROVE  (\E q \in Threads : InHand(q, c)') \/ \E e \in Events : Takes(e, c)'
    BY DEF Kept
  <2>1. CASE c = d
    BY <1>q, <2>1 DEF InHand
  <2>2. CASE c # d
    <3>1. CASE \E q \in Threads : InHand(q, c)
      <4>1. PICK q \in Threads : InHand(q, c)
        BY <3>1
      <4>2. q # p
        BY <1>q, <4>1 DEF InHand, DeregisterPcs
      <4> QED BY <1>q, <4>1, <4>2 DEF InHand
    <3>2. CASE \E e \in Events : Takes(e, c)
      <4>1. PICK e \in Events : Takes(e, c)
        BY <3>2
      <4>2. e # event[p]
        BY <2>2, <4>1 DEF Takes, d
      <4> QED BY <1>q, <1>l, <4>1, <4>2 DEF Takes
    <3> QED BY <1>q, <3>1, <3>2 DEF Kept
  <2> QED BY <2>1, <2>2
<1>18. TimerInv'
  BY DEF FreeLast, pools, Goto, Ends, Has, TimerInv
<1>19. RegisterInv'
  BY DEF FreeLast, pools, Goto, RegisterPcs, Registers, Has, RegisterInv
<1>20. NamesInv'
  BY DEF FreeLast, Queued, pools, Goto, RegisterPcs, Registers, NamesInv, Live
<1> QED BY <1>1, <1>2, <1>3, <1>4, <1>5, <1>6, <1>7, <1>8, <1>9, <1>10, <1>11, <1>12, <1>13,
   <1>14, <1>15, <1>16, <1>17, <1>18, <1>19, <1>20
DEF EventsInv

\* The event of a repeating device, or one whose device has gone.
LEMMA FreeOtherStep == ASSUME Locked, Fresh, IInv, NEW p \in Threads, FreeOther(p) PROVE IInv'
<1> USE HidAssumption DEF IInv
<1>r. /\ p \in Threads /\ pc'[p] = "release" /\ event' = event
      /\ \A q \in Threads \ {p} : pc'[q] = pc[q]
  BY DEF FreeOther, Goto, Threads, TypeOK, hand
<1>1. TypeOK'
  BY DEF FreeOther, pools, hand, Goto, TypeOK
<1>2. LockInv'
  BY DEF FreeOther, Goto, TypeOK, LockInv
<1>3. Placed'
  BY DEF FreeOther, Queued, pools, hand, Goto, EventsInv, Placed
<1>4. QueuedOnce'
  BY DEF FreeOther, Goto, EventsInv, QueuedOnce
<1>5. QueuedOnly'
  BY DEF FreeOther, Queued, hand, EventsInv, QueuedOnly
<1>6. HeldOnce'
  BY DEF FreeOther, hand, EventsInv, HeldOnce
<1>7. Blank'
  BY DEF FreeOther, pools, EventsInv, Blank
<1>8. HandsInv'
  BY DEF FreeOther, pools, hand, Goto, RegisterPcs, DeregisterPcs, HandsInv, EmptyHanded,
      Registers
<1>9. DevicesInv'
  BY DEF FreeOther, pools, FreeDevice, DevicesInv
<1>10. \A q \in Threads : KnowsNew(q)'
  <2> SUFFICES ASSUME NEW q \in Threads PROVE KnowsNew(q)'
    OBVIOUS
  <2>1. (pc[q] = "takeDevice" => ~devices[device[q]].used)'
    BY DEF FreeOther, pools, hand, Goto, KnowsNew
  <2>2. (pc[q] = "fill" => Bare(device[q]))'
    BY DEF FreeOther, Bare, pools, hand, Goto, KnowsNew
  <2>3. (pc[q] = "start" => Has(device[q], timer[q]) /\ devices[device[q]].repeating = ~once[q])'
    BY DEF FreeOther, pools, hand, Goto, Has, KnowsNew
  <2>4. (pc[q] \in {"fill", "start"} => Unnamed(device[q]))'
    BY DEF FreeOther, Queued, pools, hand, Goto, KnowsNew, Unnamed
  <2> QED BY <2>1, <2>2, <2>3, <2>4 DEF KnowsNew
<1>11. \A q \in Threads : KnowsWhole(q)'
  <2> SUFFICES ASSUME NEW q \in Threads PROVE KnowsWhole(q)'
    OBVIOUS
  <2> HIDE DEF IInv
  <2>1. \A v \in Workers : Registers(v)' => Registers(v)
    BY DEF FreeOther, Goto, Registers, RegisterPcs
  <2>2. pc'[q] \in DeregisterPcs /\ Ends(q)' => pc[q] = pc'[q] /\ Ends(q)
    BY <1>r DEF Ends, DeregisterPcs
  <2>3. pc[q] \in DeregisterPcs /\ Ends(q) => device[q] \in Devices /\ devices[device[q]].timer \in Timers
    BY DEF KnowsWhole, HandsInv, TypeOK, DeviceType, IInv
  <2>4. devices[device[q]].timer \in Timers /\ device[q] \in Devices /\ Untold(device[q]) => Untold(device[q])'
    <3>1. device[q] \in Devices /\ Unnamed(device[q]) => Unnamed(device[q])'
      BY DEF FreeOther, Goto, Unnamed, Queued, pools, hand
    <3> QED BY <3>1 DEF FreeOther, Goto, Untold, pools, hand
  <2> QED BY <2>1, <2>2, <2>3, <2>4 DEF IInv, FreeOther, Goto, pools, hand, KnowsWhole
<1>12. \A q \in Threads : KnowsLast(q)'
  BY DEF FreeOther, pools, hand, Goto, DeregisterPcs, Ends, KnowsLast
<1>13. \A q \in Threads : KnowsFired(q)'
  BY DEF FreeOther, pools, hand, Goto, Has, KnowsFired
<1>14. OneHand'
  BY DEF FreeOther, hand, Goto, DeregisterPcs, OneHand, InHand
<1>15. OneTaker'
  BY DEF FreeOther, Queued, pools, hand, Goto, DeregisterPcs, OneTaker, InHand, Takes, Live
<1>16. OneKeeper'
  BY DEF FreeOther, pools, hand, Goto, DeregisterPcs, OneKeeper, InHand
<1>17. Kept'
  <2> SUFFICES ASSUME NEW d \in Devices, devices'[d].used, devices'[d].timer = None
                PROVE  (\E q \in Threads : InHand(q, d)') \/ \E e \in Events : Takes(e, d)'
    BY DEF Kept
  <2>1. devices[d].used /\ devices[d].timer = None
    BY DEF FreeOther, pools, Goto, TypeOK
  <2>2. CASE \E q \in Threads : InHand(q, d)
    <3>1. PICK q \in Threads : InHand(q, d)
      BY <2>2
    <3>2. InHand(q, d)'
      BY <2>1, <3>1 DEF FreeOther, hand, Goto, DeregisterPcs, InHand
    <3> QED BY <3>2
  <2>3. CASE \E e \in Events : Takes(e, d)
    <3>1. PICK e \in Events : Takes(e, d)
      BY <2>3
    <3>2. Takes(e, d)'
      BY <2>1, <3>1 DEF FreeOther, Queued, pools, hand, Goto, Takes, Live, NamesInv
    <3> QED BY <3>2
  <2> QED BY <2>1, <2>2, <2>3 DEF Kept
<1>18. TimerInv'
  BY DEF FreeOther, pools, hand, Goto, Ends, Has, TimerInv
<1>19. RegisterInv'
  BY DEF FreeOther, pools, hand, Goto, RegisterPcs, Registers, Has, RegisterInv
<1>20. NamesInv'
  BY SMTT(30)
  DEF FreeOther, Bare, Queued, Threads, pools, hand, Goto, Lock, Unlocked, RegisterPcs,
      DeregisterPcs, AfterDeregister, FreeDevice, FreeEvent, TypeOK, DeviceType, EventType,
      HandsInv, EmptyHanded, Registers, Ends, Has, NamesInv, Live, KnowsNew, KnowsWhole,
      KnowsLast, KnowsFired, DevicesInv, EventsInv, Placed, Blank, OneTaker, OneHand, InHand,
      Untold, Unnamed
<1> QED BY <1>1, <1>2, <1>3, <1>4, <1>5, <1>6, <1>7, <1>8, <1>9, <1>10, <1>11, <1>12, <1>13,
   <1>14, <1>15, <1>16, <1>17, <1>18, <1>19, <1>20
DEF EventsInv

\* timer_remove_after_event is taken back, and the device deregistered.
LEMMA UnflagStep == ASSUME Locked, Fresh, IInv, NEW p \in Threads, Unflag(p) PROVE IInv'
<1> USE HidAssumption DEF IInv
<1>1. TypeOK'
  <2>1. device[p] \in Devices
    BY DEF Unflag, TypeOK, HandsInv, Threads
  <2> DEFINE new == [devices[device[p]] EXCEPT !.remove = FALSE]
  <2>2. new \in DeviceType
    BY <2>1, Fields DEF TypeOK
  <2>3. devices' = [devices EXCEPT ![device[p]] = new]
    BY DEF Unflag
  <2> HIDE DEF new
  <2>4. devices \in [Devices -> DeviceType]
    BY DEF TypeOK
  <2>5. devices' \in [Devices -> DeviceType]
    BY <2>2, <2>3, <2>4
  <2> QED BY <2>5 DEF Unflag, TypeOK, Goto, hand, DeregisterPcs
<1>2. LockInv'
  BY DEF Unflag, Goto, TypeOK, LockInv
<1>3. Placed'
  BY DEF Unflag, Queued, hand, Goto, EventsInv, Placed
<1>4. QueuedOnce'
  BY DEF Unflag, Goto, EventsInv, QueuedOnce
<1>5. QueuedOnly'
  BY DEF Unflag, Queued, hand, EventsInv, QueuedOnly
<1>6. HeldOnce'
  BY DEF Unflag, hand, EventsInv, HeldOnce
<1>7. Blank'
  BY DEF Unflag, Goto, EventsInv, Blank
<1>8. HandsInv'
  BY DEF Unflag, hand, Goto, RegisterPcs, DeregisterPcs, HandsInv, EmptyHanded, Registers
<1>9. DevicesInv'
  BY DEF Unflag, Goto, FreeDevice, DevicesInv
<1>10. \A q \in Threads : KnowsNew(q)'
  <2> SUFFICES ASSUME NEW q \in Threads PROVE KnowsNew(q)'
    OBVIOUS
  <2>1. (pc[q] = "takeDevice" => ~devices[device[q]].used)'
    BY DEF Unflag, hand, Goto, KnowsNew
  <2>2. (pc[q] = "fill" => Bare(device[q]))'
    BY DEF Unflag, Bare, hand, Goto, KnowsNew
  <2>3. (pc[q] = "start" => Has(device[q], timer[q]) /\ devices[device[q]].repeating = ~once[q])'
    BY DEF Unflag, hand, Goto, Has, KnowsNew
  <2>4. (pc[q] \in {"fill", "start"} => Unnamed(device[q]))'
    BY DEF Unflag, Queued, hand, Goto, KnowsNew, Unnamed
  <2> QED BY <2>1, <2>2, <2>3, <2>4 DEF KnowsNew
<1>11. \A q \in Threads : KnowsWhole(q)'
  BY DEF Unflag, Queued, hand, Goto, RegisterPcs, HandsInv, Registers, Ends, KnowsWhole, Untold,
      Unnamed
<1>12. \A q \in Threads : KnowsLast(q)'
  BY DEF Unflag, hand, Goto, TypeOK, HandsInv, Ends, KnowsLast, OneHand, InHand, DevicesInv
<1>13. \A q \in Threads : KnowsFired(q)'
  BY DEF Unflag, hand, Goto, TypeOK, Has, KnowsFired, OneHand, InHand
<1>14. OneHand'
  BY DEF Unflag, hand, Goto, OneHand, InHand
<1>15. OneTaker'
  BY DEF Unflag, Queued, hand, Goto, OneTaker, InHand, Takes, Live
<1>16. OneKeeper'
  BY DEF Unflag, hand, Goto, OneKeeper, InHand
<1>17. Kept'
  <2> SUFFICES ASSUME NEW d \in Devices, devices'[d].used, devices'[d].timer = None
                PROVE  (\E q \in Threads : InHand(q, d)') \/ \E e \in Events : Takes(e, d)'
    BY DEF Kept
  <2>1. devices[d].used /\ devices[d].timer = None
    BY DEF Unflag, hand, Goto, TypeOK
  <2>2. CASE \E q \in Threads : InHand(q, d)
    <3>1. PICK q \in Threads : InHand(q, d)
      BY <2>2
    <3>2. InHand(q, d)'
      BY <2>1, <3>1 DEF Unflag, hand, Goto, DeregisterPcs, InHand
    <3> QED BY <3>2
  <2>3. CASE \E e \in Events : Takes(e, d)
    <3>1. PICK e \in Events : Takes(e, d)
      BY <2>3
    <3>2. Takes(e, d)'
      BY <2>1, <3>1 DEF Unflag, Queued, hand, Goto, Takes, Live
    <3> QED BY <3>2
  <2> QED BY <2>1, <2>2, <2>3 DEF Kept
<1>18. TimerInv'
  BY DEF Unflag, hand, Goto, Ends, Has, TimerInv
<1>19. RegisterInv'
  BY DEF Unflag, hand, Goto, RegisterPcs, Registers, Has, RegisterInv
<1>20. NamesInv'
  <2>1. /\ p \in Threads /\ pc[p] = "unflag" /\ device[p] \in Devices /\ InHand(p, device[p])
        /\ devices[device[p]].used /\ ~devices[device[p]].repeating
    BY DEF Unflag, HandsInv, InHand, TypeOK, KnowsLast
  <2>2. /\ pc'[p] = "deregister" /\ (\A v \in Threads \ {p} : pc'[v] = pc[v])
        /\ event' = event /\ queue' = queue /\ events' = events /\ stale' = stale
        /\ \A c \in Devices \ {device[p]} : devices'[c] = devices[c]
    BY <2>1 DEF Unflag, Goto, TypeOK, pools, hand
  <2>3. \A e \in Events : Live(e)' => Live(e)
    BY <2>1, <2>2 DEF Live, Queued
  <2>4. ASSUME NEW e \in Events, Live(e) PROVE events[e].device \in Devices \ {device[p]}
    BY <2>1, <2>4 DEF NamesInv, TypeOK, EventType, Takes, OneTaker
  <2>5. \A w \in Workers : Registers(w)' => Registers(w)
    BY <2>1, <2>2 DEF Registers, RegisterPcs, Threads
  <2> QED BY <2>2, <2>3, <2>4, <2>5 DEF NamesInv
<1> QED BY <1>1, <1>2, <1>3, <1>4, <1>5, <1>6, <1>7, <1>8, <1>9, <1>10, <1>11, <1>12, <1>13,
   <1>14, <1>15, <1>16, <1>17, <1>18, <1>19, <1>20
DEF EventsInv

\* The slot of the event is given back.
LEMMA ReleaseStep == ASSUME Locked, Fresh, IInv, NEW p \in Threads, Release(p) PROVE IInv'
<1> USE HidAssumption DEF IInv
<1>q. /\ p \in Threads /\ event[p] \in Events /\ pc[p] = "release"
      /\ event'[p] = None /\ pc'[p] \in {"leave", "idle"}
      /\ (\A v \in Threads \ {p} : pc'[v] = pc[v] /\ event'[v] = event[v])
      /\ queue' = queue /\ devices' = devices /\ stale' = stale \ {event[p]}
      /\ \A e \in Events \ {event[p]} : events'[e] = events[e]
  BY DEF Release, Goto, HandsInv, TypeOK
<1>l. \A e \in Events : Live(e)' <=> Live(e) /\ e # event[p]
  BY <1>q DEF Live, Queued, EventsInv, QueuedOnly, HeldOnce
<1>1. TypeOK'
  BY DEF Release, Goto, FreeEvent, TypeOK, EventType, HandsInv
<1>2. LockInv'
  BY DEF Release, Goto, TypeOK, LockInv
<1>3. Placed'
  <2>1. p \in Threads /\ event[p] \in Events /\ pc[p] = "release"
    BY DEF Release, HandsInv, TypeOK
  <2>2. event'[p] = None /\ pc'[p] # "takeEvent" /\ \A q \in Threads \ {p} : event'[q] = event[q] /\ pc'[q] = pc[q]
    BY <2>1 DEF Release, Goto, TypeOK
  <2>3. ~events'[event[p]].used /\ \A e \in Events \ {event[p]} : events'[e] = events[e]
    BY <2>1 DEF Release, TypeOK, FreeEvent
  <2>4. ~Queued(event[p])
    BY <2>1 DEF EventsInv, QueuedOnly
  <2>5. \A e \in Events : Queued(e)' <=> Queued(e)
    BY DEF Release, Queued
  <2> QED BY <2>1, <2>2, <2>3, <2>4, <2>5 DEF Placed, EventsInv, HeldOnce
<1>4. QueuedOnce'
  BY DEF Release, Goto, EventsInv, QueuedOnce
<1>5. QueuedOnly'
  BY DEF Release, Queued, EventsInv, QueuedOnly
<1>6. HeldOnce'
  BY DEF Release, Goto, EventsInv, HeldOnce
<1>7. Blank'
  BY DEF Release, FreeEvent, EventsInv, Blank
<1>8. HandsInv'
  BY DEF Release, Goto, RegisterPcs, DeregisterPcs, TypeOK, HandsInv, Registers, EventsInv,
      HeldOnce
<1>9. DevicesInv'
  BY DEF Release, Goto, FreeDevice, DevicesInv
<1>10. \A q \in Threads : KnowsNew(q)'
  <2> SUFFICES ASSUME NEW q \in Threads PROVE KnowsNew(q)'
    OBVIOUS
  <2>1. (pc[q] = "takeDevice" => ~devices[device[q]].used)'
    BY DEF Release, Goto, KnowsNew
  <2>2. (pc[q] = "fill" => Bare(device[q]))'
    BY DEF Release, Bare, Goto, KnowsNew
  <2>3. (pc[q] = "start" => Has(device[q], timer[q]) /\ devices[device[q]].repeating = ~once[q])'
    BY DEF Release, Goto, Has, KnowsNew
  <2>4. (pc[q] \in {"fill", "start"} => Unnamed(device[q]))'
    BY DEF Release, Queued, Goto, TypeOK, KnowsNew, Unnamed, QueuedOnly, HeldOnce, EventsInv
  <2> QED BY <2>1, <2>2, <2>3, <2>4 DEF KnowsNew
<1>11. \A q \in Threads : KnowsWhole(q)'
  BY DEF Release, Queued, Goto, RegisterPcs, DeregisterPcs, FreeEvent, TypeOK, HandsInv,
      Registers, Ends, KnowsWhole, Untold, Unnamed
<1>12. \A q \in Threads : KnowsLast(q)'
  BY DEF Release, Goto, DeregisterPcs, Ends, KnowsLast
<1>13. \A q \in Threads : KnowsFired(q)'
  BY DEF Release, Goto, Has, KnowsFired
<1>14. OneHand'
  BY DEF Release, Goto, TypeOK, OneHand, InHand
<1>15. OneTaker'
  BY SMTT(30) DEF Release, Queued, Goto, FreeEvent, TypeOK, OneTaker, InHand, Takes, Live
<1>16. OneKeeper'
  BY DEF Release, Goto, TypeOK, OneKeeper, InHand
<1>17. Kept'
  <2> SUFFICES ASSUME NEW d \in Devices, devices'[d].used, devices'[d].timer = None
                PROVE  (\E q \in Threads : InHand(q, d)') \/ \E e \in Events : Takes(e, d)'
    BY DEF Kept
  <2>1. CASE \E q \in Threads : InHand(q, d)
    <3>1. PICK q \in Threads : InHand(q, d)
      BY <2>1
    <3>2. q # p /\ once' = once /\ device'[q] = device[q]
      BY <1>q, <3>1 DEF InHand, DeregisterPcs, Release, TypeOK
    <3> QED BY <1>q, <3>1, <3>2 DEF InHand
  <2>2. CASE \E e \in Events : Takes(e, d)
    <3>1. PICK e \in Events : Takes(e, d)
      BY <2>2
    <3>2. e # event[p]
      BY <1>q, <3>1 DEF Takes, Live, EventsInv, QueuedOnly, HeldOnce
    <3> QED BY <1>q, <1>l, <3>1, <3>2 DEF Takes
  <2> QED BY <1>q, <2>1, <2>2 DEF Kept
<1>18. TimerInv'
  BY DEF Release, Goto, Ends, Has, TimerInv
<1>19. RegisterInv'
  BY DEF Release, Goto, RegisterPcs, Registers, Has, RegisterInv
<1>20. NamesInv'
  <2>1. \A w \in Workers : Registers(w)' => Registers(w)
    BY <1>q DEF Registers, RegisterPcs, Threads
  <2> QED BY <1>q, <1>l, <2>1 DEF NamesInv
<1> QED BY <1>1, <1>2, <1>3, <1>4, <1>5, <1>6, <1>7, <1>8, <1>9, <1>10, <1>11, <1>12, <1>13,
   <1>14, <1>15, <1>16, <1>17, <1>18, <1>19, <1>20
DEF EventsInv

-----------------------------------------------------------------------------
(* The invariant, and what follows from it. *)

\* Empty pools satisfy the invariant.
LEMMA InitInv == Init => IInv
<1> SUFFICES ASSUME Init PROVE IInv
  OBVIOUS
<1> USE HidAssumption DEF Init
<1>1. TypeOK
  BY Slots DEF TypeOK, FreeDevice, FreeEvent, DeviceType, EventType, Threads
<1>2. LockInv /\ EventsInv /\ HandsInv /\ DevicesInv
  BY DEF LockInv, EventsInv, Placed, QueuedOnce, QueuedOnly, HeldOnce, Blank, Queued, HandsInv,
      DevicesInv,
         FreeDevice, FreeEvent, EmptyHanded, Registers, RegisterPcs, DeregisterPcs, Threads
<1>3. \A p \in Threads : KnowsNew(p) /\ KnowsWhole(p) /\ KnowsLast(p) /\ KnowsFired(p)
  BY DEF KnowsNew, KnowsWhole, KnowsLast, KnowsFired, DeregisterPcs
<1>4. OneHand /\ OneTaker /\ OneKeeper /\ Kept
  BY DEF OneHand, OneTaker, OneKeeper, Kept, InHand, Takes, FreeDevice, FreeEvent, DeregisterPcs,
      Threads
<1>5. TimerInv /\ RegisterInv /\ NamesInv
  BY DEF TimerInv, RegisterInv, NamesInv, Has, Live, Queued, Registers, RegisterPcs, FreeDevice,
      Threads
<1> QED BY <1>1, <1>2, <1>3, <1>4, <1>5 DEF IInv

\* Every step keeps it.
LEMMA NextInv == ASSUME Locked, Fresh, IInv, [Next]_vars PROVE IInv'
<1>1. CASE UNCHANGED vars
  BY <1>1
  DEF vars, pools, hand, IInv, TypeOK, LockInv, EventsInv, Placed, QueuedOnce, QueuedOnly,
      HeldOnce, Blank, Queued,
     HandsInv, DevicesInv, KnowsNew, KnowsWhole, KnowsLast, KnowsFired, OneHand, OneTaker, OneKeeper, Kept, InHand, Takes,
     Live, TimerInv, RegisterInv, NamesInv, Has, Bare, Untold, Unnamed, Ends, Registers
<1>2. ASSUME NEW w \in Workers, Registering(w) \/ BeginDeregister(w) \/ Pop(w) PROVE IInv'
  BY <1>2, InitTimerStep, RetainDeviceStep, TakeDeviceStep, RetainNoDeviceStep, FillStep, StartedStep, StartFailsStep,
     BeginDeregisterStep, PopStep DEF Registering, Start
<1>3. ASSUME NEW t \in Timers, CallingBack(t) PROVE IInv'
  BY <1>3, ExpireStep, ScanFindsStep, ScanFindsNoneStep, DeinitOwnStep, ClearStep, RetainEventStep, TakeEventStep,
     RetainNoEventStep, FillEventStep, PushedStep, PushFailsStep, LeaveStep DEF CallingBack, Scan, Push
<1>4. ASSUME NEW p \in Threads, Deregistering(p) \/ Freeing(p) PROVE IInv'
  BY <1>4, DeregisterStep, StopStep, WaitStep, ReleaseDeviceStep, FreeLastStep, FreeOtherStep, UnflagStep, ReleaseStep
     DEF Deregistering, Freeing, Free
<1> QED BY <1>1, <1>2, <1>3, <1>4 DEF Next

\* Counting: the hands and the places in the queue are one altogether, if the event is in use.
LEMMA InvOneOwner == IInv => OneOwner
<1> SUFFICES ASSUME IInv, NEW e \in Events
             PROVE  Cardinality({p \in Threads : event[p] = e /\ pc[p] # "takeEvent"})
                      + Cardinality({i \in DOMAIN queue : queue[i] = e})
                    = IF events[e].used THEN 1 ELSE 0
  BY DEF OneOwner
<1> DEFINE H == {p \in Threads : event[p] = e /\ pc[p] # "takeEvent"}
           Q == {i \in DOMAIN queue : queue[i] = e}
<1>1. /\ events[e].used <=> Q # {} \/ H # {}
      /\ Q = {} \/ H = {}
      /\ \A p, q \in H : p = q
      /\ \A i, j \in Q : i = j
  BY HidAssumption DEF IInv, EventsInv, Placed, QueuedOnce, QueuedOnly, HeldOnce, Queued
<1> HIDE DEF H, Q
<1>2. ASSUME NEW S, \A x, y \in S : x = y PROVE Cardinality(S) = IF S = {} THEN 0 ELSE 1
  <2>1. CASE S = {}
    BY <2>1, FS_EmptySet
  <2>2. CASE S # {}
    <3>1. PICK x \in S : S = {x}
      BY <1>2, <2>2
    <3> QED BY <3>1, FS_Singleton
  <2> QED BY <2>1, <2>2
<1>3. Cardinality(H) = (IF H = {} THEN 0 ELSE 1) /\ Cardinality(Q) = IF Q = {} THEN 0 ELSE 1
  BY <1>1, <1>2
<1>4. Cardinality(H) + Cardinality(Q) = IF events[e].used THEN 1 ELSE 0
  BY <1>1, <1>3
<1> QED BY <1>4 DEF H, Q

\* TimerInv says which thread is about to clear a device whose timer has been given back.
LEMMA InvTimersOwned == IInv => TimersOwned
<1> SUFFICES ASSUME IInv, NEW t \in Timers
             PROVE  /\ running[t] = "armed" => \E d \in Devices : Has(d, t)
                    /\ \A d, o \in Devices : Has(d, t) /\ Has(o, t) => d = o
                    /\ running[t] = "free" =>
                         \A d \in Devices : Has(d, t) =>
                           \E p \in Threads : device[p] = d /\ pc[p] \in {"wait", "releaseDevice", "clear"}
  BY DEF TimersOwned
<1> QED BY DEF IInv, TimerInv, Threads

\* The hand or the event that Kept names is the one OneShotsKept asks for.
LEMMA InvOneShotsKept == IInv => OneShotsKept
<1> SUFFICES ASSUME IInv, NEW d \in Devices, devices[d].used, devices[d].timer = None
             PROVE  \/ \E p \in Threads : device[p] = d /\ pc[p] \notin {"idle", "leave", "release"}
                    \/ devices[d].remove /\ \E e \in Events \ stale : events[e].used /\ events[e].device = d
  BY DEF OneShotsKept
<1>1. CASE \E p \in Threads : InHand(p, d)
  BY <1>1 DEF InHand, DeregisterPcs
<1>2. CASE \E e \in Events : Takes(e, d)
  BY <1>2 DEF IInv, Takes, Live, NamesInv, EventsInv, Placed
<1> QED BY <1>1, <1>2 DEF IInv, Kept

\* Events become stale in one step only, and that one spares one-shot devices.
LEMMA NextKeepsOneShots == ASSUME Locked, Fresh, IInv, [Next]_vars PROVE KeepsOneShots
<1> SUFFICES ASSUME NEW e \in stale' \ stale PROVE devices[events[e].device].repeating
  BY DEF KeepsOneShots
<1>1. PICK p \in Threads : ReleaseDevice(p)
  BY DEF Next, vars, Registering, CallingBack, Deregistering, Freeing, Start, Scan, Push, Free,
     InitTimer, RetainDevice, TakeDevice, RetainNoDevice, Fill, Started, StartFails, BeginDeregister, Pop,
     Expire, ScanFinds, ScanFindsNone, DeinitOwn, Clear, RetainEvent, TakeEvent, RetainNoEvent, FillEvent, Pushed,
     PushFails, Leave, Deregister, Stop, Wait, FreeLast, FreeOther, Unflag, Release
<1>2. e \in Pending(device[p]) /\ events[e].device = device[p]
  BY <1>1 DEF ReleaseDevice, Pending
<1> QED BY <1>1, <1>2, ReleasedLast DEF Pending

\* For any number of workers, timers, devices and events and any queue: an event slot in use
\* is in one hand or once in the queue, a timer and its device lead to each other, and a one-shot
\* device without timer has somebody who gives it back (hid.c, event.c, timer.c).
THEOREM HidTimersSound == ASSUME Locked, Fresh PROVE Spec => [](OneOwner /\ TimersOwned /\ OneShotsKept)
<1>1. Spec => []IInv
  BY InitInv, NextInv, PTL DEF Spec
<1> QED BY <1>1, InvOneOwner, InvTimersOwned, InvOneShotsKept, PTL

\* Under the same conditions no step gives a one-shot device back while an event names it:
\* hid_event_free and the callback deregister it only with its last event.
THEOREM OneShotsStay == ASSUME Locked, Fresh PROVE Spec => OneShotValid
<1>1. Spec => []IInv
  BY InitInv, NextInv, PTL DEF Spec
<1> QED BY <1>1, NextKeepsOneShots, PTL DEF Spec, OneShotValid
=============================================================================
