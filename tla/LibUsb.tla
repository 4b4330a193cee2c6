------------------------------- MODULE LibUsb -------------------------------
(***************************************************************************)
(* The USB host over libusb (hw/libusb/usb.c): a singleton and the thread   *)
(* that lists the devices there are, then handles libusb's hotplug events.  *)
(* A callback attached where there was none makes it list them again.       *)
(* Attaching, closing and the thread are three parties under one lock; the  *)
(* thread calls the callback outside it.  libusb is external, and its       *)
(* descriptors of a listed device can always be read.                       *)
(***************************************************************************)
EXTENDS Integers, Sequences, FiniteSets

CONSTANTS
  Devices,     \* devices that can be plugged in
  MaxPlugs,    \* bound: pluggings and unpluggings
  Hotplugs,    \* BOOLEAN: whether libusb has hotplug events
  Slots,       \* capacity of the cache
  Quiet        \* TRUE: a callback is attached with the thread at rest, and nothing is plugged
               \* in or out while the thread lists the devices or is about to

VARIABLES
  usb,     \* the singleton
  cache,   \* the devices cached
  bus, events, plugs,  \* libusb: the devices there are, the events not yet handled, how many
  at,      \* the event thread
  app,     \* where a closing of the application stands
  told,    \* history: the devices the callback was told of, and not yet told are gone
  astray,  \* history: it was told twice, or that what it did not know is gone
  late     \* history: it was called though it was detached or libusb's context given back

vars == <<usb, cache, bus, events, plugs, at, app, told, astray, late>>

Cleared == [init |-> FALSE, context |-> FALSE, hotplug |-> FALSE, callback |-> FALSE, replay |-> FALSE,
            running |-> FALSE, thread |-> FALSE, cleanup |-> FALSE]
Gone == [pc |-> "gone", todo |-> {}, event |-> "none", callback |-> FALSE]
Init ==
  /\ usb = Cleared /\ cache = {} /\ bus = {} /\ events = <<>> /\ plugs = 0
  /\ at = Gone /\ app = "idle" /\ told = {} /\ astray = FALSE /\ late = FALSE

Valid == usb.init /\ usb.context

\* hw_usb_init with no host open: the thread may fail to start, and the rest
\* is taken back.
HwInit ==
  /\ app = "idle" /\ at = Gone /\ ~usb.thread
  /\ \E hotplug \in Hotplugs :
       \/ /\ usb' = [Cleared EXCEPT !.init = TRUE, !.context = TRUE, !.hotplug = hotplug, !.running = TRUE, !.thread = TRUE]
          /\ at' = [Gone EXCEPT !.pc = "list"]
       \/ usb' = Cleared /\ at' = at
  /\ cache' = {} /\ events' = <<>> /\ told' = {}
  /\ UNCHANGED <<bus, plugs, app, astray, late>>
SetCallback(on) ==
  /\ app = "idle" /\ (Quiet => at.pc = "wait" /\ events = <<>>) /\ Valid /\ (on # usb.callback)
  /\ usb' = [usb EXCEPT !.callback = on, !.replay = @ \/ on]
  /\ told' = {} /\ UNCHANGED <<cache, bus, events, plugs, at, app, astray, late>>

\* Closing from another thread than the event thread: it stops that, joins it
\* and cleans up; the flag goes first.
Deinit ==
  /\ app = "idle" /\ usb.thread
  /\ usb' = [usb EXCEPT !.running = FALSE] /\ app' = "joining"
  /\ UNCHANGED <<cache, bus, events, plugs, at, told, astray, late>>
Joined ==
  /\ app = "joining" /\ at = Gone
  /\ usb' = Cleared /\ cache' = {} /\ app' = "idle" /\ told' = {}
  /\ UNCHANGED <<bus, events, plugs, at, astray, late>>

----------------------------------------------------------------------------
\* libusb: devices come and go, and are told of while the handler is registered.
Plug(d) ==
  /\ plugs < MaxPlugs /\ plugs' = plugs + 1 /\ (Quiet => at.pc \in {"wait", "gone"} /\ ~usb.replay)
  /\ bus' = IF d \in bus THEN bus \ {d} ELSE bus \cup {d}
  /\ events' = IF usb.hotplug THEN Append(events, [event |-> IF d \in bus THEN "left" ELSE "arrived", device |-> d]) ELSE events
  /\ UNCHANGED <<usb, cache, at, app, told, astray, late>>

\* A round begins with the callback there is; the list ends with the marker.
Snapshot == Valid /\ usb.callback
List ==
  /\ at.pc = "list"
  /\ at' = [at EXCEPT !.pc = "emit", !.todo = bus, !.callback = Snapshot]
  /\ UNCHANGED <<usb, cache, bus, events, plugs, app, told, astray, late>>
\* One device: cached, and told of if there was a callback; each device
\* takes the callback anew.
Put(d)     == IF d \in cache \/ Cardinality(cache) < Slots THEN cache \cup {d} ELSE cache
Called(d, event) ==
  IF at.callback
  THEN /\ told' = IF event = "arrived" THEN told \cup {d} ELSE told \ {d}
       /\ astray' = (astray \/ ((d \in told) <=> (event = "arrived")))
       /\ late' = (late \/ ~usb.callback \/ ~usb.context)
  ELSE UNCHANGED <<told, astray, late>>
Emit ==
  /\ at.pc = "emit" /\ at.todo # {}
  /\ \E d \in at.todo :
       /\ cache' = Put(d) /\ Called(d, "arrived")
       /\ at' = [at EXCEPT !.todo = @ \ {d}, !.callback = Snapshot]
  /\ UNCHANGED <<usb, bus, events, plugs, app>>
Listed ==
  /\ at.pc = "emit" /\ at.todo = {}
  /\ at' = [Gone EXCEPT !.pc = "wait"] /\ UNCHANGED <<usb, cache, bus, events, plugs, app, told, astray, late>>

\* A bug the checks must see: a device that left stays cached.
KeptOn(d)  == cache
\* A hotplug event, handled by the thread.
Dropped(d) == cache \ {d}
Handle ==
  /\ at.pc = "wait" /\ usb.running /\ usb.hotplug /\ events # <<>>
  /\ at' = [at EXCEPT !.pc = "handle", !.callback = Snapshot, !.event = Head(events).event, !.todo = {Head(events).device}]
  /\ events' = Tail(events) /\ UNCHANGED <<usb, cache, bus, plugs, app, told, astray, late>>
Handled ==
  /\ at.pc = "handle"
  /\ \E d \in at.todo :
       IF at.event = "arrived" THEN cache' = Put(d) /\ Called(d, "arrived")
       ELSE /\ cache' = Dropped(d)
            /\ IF d \in cache THEN Called(d, "left") ELSE UNCHANGED <<told, astray, late>>
  /\ at' = [Gone EXCEPT !.pc = "wait"] /\ UNCHANGED <<usb, bus, events, plugs, app>>
\* The end of a turn of the loop: replay, go on, or stop.
Turn ==
  /\ at.pc = "wait" /\ usb.running /\ usb.replay
  /\ usb' = [usb EXCEPT !.replay = FALSE] /\ at' = [Gone EXCEPT !.pc = "list"]
  /\ UNCHANGED <<cache, bus, events, plugs, app, told, astray, late>>
Stop ==
  /\ at.pc = "wait" /\ ~usb.running /\ at' = Gone
  /\ IF usb.cleanup
     THEN usb' = [usb EXCEPT !.hotplug = FALSE, !.context = FALSE, !.thread = FALSE, !.init = FALSE, !.callback = FALSE]
          /\ cache' = {} /\ told' = {}
     ELSE UNCHANGED <<usb, cache, told>>
  /\ UNCHANGED <<bus, events, plugs, app, astray, late>>
\* The callback closes the host: the thread will clean up when it is done.
DeinitInCallback ==
  /\ at.pc \in {"emit", "handle"} /\ at.callback /\ Valid
  /\ usb' = [usb EXCEPT !.running = FALSE, !.cleanup = TRUE, !.init = FALSE]
  /\ UNCHANGED <<cache, bus, events, plugs, at, app, told, astray, late>>

Next ==
  \/ HwInit \/ Deinit \/ Joined \/ List \/ Emit \/ Listed \/ Handle \/ Handled \/ Turn \/ Stop \/ DeinitInCallback
  \/ \E on \in BOOLEAN : SetCallback(on)
  \/ \E d \in Devices : Plug(d)

Spec == Init /\ [][Next]_vars

------------------------------------------------------------------------------
(* The callback is told of a device once when it comes and once when it goes, *)
(* and when the thread rests with nothing to handle the cache holds nothing   *)
(* but devices there are; once a closing has returned the thread is gone and  *)
(* libusb's context given back, so that no callback follows it.               *)
LibUsbSound ==
  /\ ~astray /\ ~late
  /\ at.pc = "wait" /\ usb.hotplug /\ events = <<>> => cache \subseteq bus
  /\ app = "idle" /\ ~usb.thread => at = Gone /\ ~usb.context /\ cache = {}
=============================================================================
