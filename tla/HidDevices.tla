----------------------------- MODULE HidDevices -----------------------------
(***************************************************************************)
(* The devices of src/picofuse/hid but timers, which HidTimer has: GPIO     *)
(* inputs with their one callback and their debouncing, ADC channels and    *)
(* others that hid_poll reads, the observers of signals, Wi-Fi and streams, *)
(* keyboards, and the start and end of the instance.                        *)
(*                                                                         *)
(* One thread registers and deregisters.  A pin's interrupt, a driver's     *)
(* callback and hid_poll may find a device at any of its steps.             *)
(***************************************************************************)
EXTENDS Integers, Sequences, FiniteSets

CONSTANTS
  Devices,     \* HID_DEVICE_CAPACITY slots
  Pins,        \* GPIO pins, each with an ADC channel of the same name
  Capacity,    \* HID_EVENT_CAPACITY events, which are in the queue or nowhere
  Kinds,       \* the kinds of device that are registered
  EdgesApart,  \* TRUE: no edge is handled while a GPIO device is being registered
  PollApart,   \* TRUE: hid_poll runs between registrations, not beside them
  Settled,     \* TRUE: a slot is given to a new device only once no callback has the old one in hand
  SlowEdges    \* TRUE: two edges of a pin are never within HID_GPIO_DEBOUNCE_MS

VARIABLES
  inst,    \* hid_t.queue is set
  dev,     \* hid_t.devices
  held,    \* hardware the devices use: pins, ADC channels, callbacks installed
  count,   \* _hid_gpio_device_count
  sig,     \* _hid_signal_device
  reg,     \* the registration or deregistration in progress
  cb,      \* "edge", "observer", "poll" -> what that caller has in hand
  queue,   \* the events that are pending
  pin,     \* each pin's level, whether it was flipped lately, and what was last said of it
  keys     \* keyboard -> the keys that are held, the locks that are on

vars == <<inst, dev, held, count, sig, reg, cb, queue, pin, keys>>

NoDev == "none"
Free  == [kind |-> "none", pin |-> NoDev, full |-> FALSE, told |-> 0, state |-> {}]
Idle  == [at |-> "idle", kind |-> "none", pin |-> NoDev, dev |-> NoDev, all |-> FALSE]
Empty == [dev |-> NoDev, kind |-> "none", pin |-> NoDev, full |-> FALSE, on |-> FALSE]
Quiet == [on |-> FALSE, recent |-> FALSE, said |-> FALSE, spoilt |-> FALSE]
Observers == {"wifi", "iostream", "signal"}
Readers   == {"adc", "temperature", "generic"}

Init ==
  /\ inst = FALSE /\ dev = [d \in Devices |-> Free] /\ count = 0 /\ sig = NoDev /\ reg = Idle
  /\ held = [gpio |-> {}, adc |-> {}, edge |-> FALSE, signal |-> FALSE, wifi |-> NoDev, iostream |-> NoDev]
  /\ cb = [c \in {"edge", "observer", "poll"} |-> Empty]
  /\ queue = <<>> /\ keys = [d \in Devices |-> {}]
  /\ pin = [p \in Pins |-> Quiet]

InHand(d) == \E c \in DOMAIN cb : cb[c].dev = d

HidInit ==
  /\ ~inst /\ inst' = TRUE
  /\ UNCHANGED <<dev, held, count, sig, reg, cb, queue, pin, keys>>

------------------------------------------------------------------------------
(* Registration: the hardware, the slot, what hid_register leaves to fill.  *)

\* What a registration takes before it asks for a slot, and can do without.
MayTake(k, p) ==
  CASE k = "gpio" -> p \notin held.gpio
    [] k = "adc" -> p \notin held.gpio /\ p \notin held.adc
    [] k = "temperature" -> p = CHOOSE q \in Pins : TRUE
    [] k = "signal" -> sig = NoDev
    [] OTHER -> p = CHOOSE q \in Pins : TRUE
Taking(h, k, p) ==
  CASE k = "gpio" -> [h EXCEPT !.gpio = @ \cup {p}]
    [] k = "adc" -> [h EXCEPT !.gpio = @ \cup {p}, !.adc = @ \cup {p}]
    [] k = "temperature" -> [h EXCEPT !.adc = @ \cup {"temperature"}]
    [] k = "signal" -> [h EXCEPT !.signal = TRUE]
    [] OTHER -> h
\* A bug the checks must see: hid_register_adc forgets the pin.
ReturningChannel(h, k, p) ==
  CASE k = "gpio" -> [h EXCEPT !.gpio = @ \ {p}]
    [] k = "adc" -> [h EXCEPT !.adc = @ \ {p}]
    [] k = "temperature" -> [h EXCEPT !.adc = @ \ {"temperature"}]
    [] k = "signal" -> [h EXCEPT !.signal = FALSE]
    [] k \in {"wifi", "iostream"} -> [h EXCEPT ![k] = NoDev]
    [] OTHER -> h
Returning(h, k, p) ==
  CASE k = "gpio" -> [h EXCEPT !.gpio = @ \ {p}]
    [] k = "adc" -> [h EXCEPT !.gpio = @ \ {p}, !.adc = @ \ {p}]
    [] k = "temperature" -> [h EXCEPT !.adc = @ \ {"temperature"}]
    [] k = "signal" -> [h EXCEPT !.signal = FALSE]
    [] k \in {"wifi", "iostream"} -> [h EXCEPT ![k] = NoDev]
    [] OTHER -> h

Of(k) == {d \in Devices : dev[d].kind = k}
\* One observer per radio or stream, as the documentation asks; one keyboard.
Register(k, p) ==
  /\ inst /\ reg = Idle /\ k \in Kinds /\ MayTake(k, p)
  /\ k \in {"adc", "wifi", "iostream", "generic"} => Of(k) = {}
  /\ k = "temperature" => "temperature" \notin held.adc
  /\ PollApart => cb["poll"] = Empty
  /\ EdgesApart /\ k = "gpio" => cb["edge"] = Empty
  /\ held' = Taking(held, k, p)
  /\ reg' = [Idle EXCEPT !.at = "retain", !.kind = k, !.pin = p]
  /\ UNCHANGED <<inst, dev, count, sig, cb, queue, pin, keys>>
\* _hid_device_retain fills all that hid_register is given, the type last.
Retain(d) ==
  /\ reg.at = "retain" /\ dev[d].kind = "none" /\ (Settled => ~InHand(d))
  /\ dev' = [dev EXCEPT ![d] = [Free EXCEPT !.kind = reg.kind, !.pin = reg.pin]]
  /\ keys' = [keys EXCEPT ![d] = {}] /\ pin' = [pin EXCEPT ![reg.pin].recent = @ /\ reg.kind # "gpio"]
  /\ reg' = [reg EXCEPT !.at = IF reg.kind = "generic" THEN "init" ELSE "fill", !.dev = d]
  /\ UNCHANGED <<inst, held, count, sig, cb, queue>>
Exhausted ==
  /\ reg.at = "retain" /\ \A d \in Devices : dev[d].kind # "none"
  /\ held' = Returning(held, reg.kind, reg.pin) /\ reg' = Idle
  /\ UNCHANGED <<inst, dev, count, sig, cb, queue, pin, keys>>
InitDevice ==
  /\ reg.at = "init"
  /\ \/ reg' = Idle /\ dev' = [dev EXCEPT ![reg.dev].full = TRUE]
     \/ reg' = Idle /\ dev' = [dev EXCEPT ![reg.dev] = Free]
  /\ UNCHANGED <<inst, held, count, sig, cb, queue, pin, keys>>
\* A stream that has no callbacks refuses the observer, which is deregistered.
Fill ==
  /\ reg.at = "fill"
  /\ dev' = [dev EXCEPT ![reg.dev].full = TRUE]
  /\ \/ /\ reg' = IF reg.kind = "gpio" THEN [reg EXCEPT !.at = "count"] ELSE Idle
        /\ sig' = IF reg.kind = "signal" THEN reg.dev ELSE sig
        /\ held' = IF reg.kind \in {"wifi", "iostream"} THEN [held EXCEPT ![reg.kind] = reg.dev] ELSE held
     \/ reg.kind = "iostream" /\ reg' = [reg EXCEPT !.at = "deinit"] /\ UNCHANGED <<sig, held>>
  /\ UNCHANGED <<inst, count, cb, queue, pin, keys>>
CountUp ==
  /\ reg.at = "count" /\ count' = count + 1 /\ reg' = Idle
  /\ held' = [held EXCEPT !.edge = @ \/ count' = 1]
  /\ pin' = [pin EXCEPT ![reg.pin] = [@ EXCEPT !.said = pin[reg.pin].on, !.spoilt = FALSE]]
  /\ UNCHANGED <<inst, dev, sig, cb, queue, keys>>

------------------------------------------------------------------------------
(* Deregistration, one device or all of them.                               *)

Deregister(d) ==
  /\ inst /\ reg = Idle /\ dev[d].kind # "none" /\ (PollApart => cb["poll"] = Empty)
  /\ reg' = [Idle EXCEPT !.at = "deinit", !.dev = d, !.kind = dev[d].kind, !.pin = dev[d].pin]
  /\ UNCHANGED <<inst, dev, held, count, sig, cb, queue, pin, keys>>
DeinitDevice ==
  /\ reg.at = "deinit"
  /\ reg' = [reg EXCEPT !.at = "release"]
  /\ count' = IF reg.kind = "gpio" THEN count - 1 ELSE count
  /\ held' = [Returning(held, reg.kind, reg.pin) EXCEPT !.edge = @ /\ ~(reg.kind = "gpio" /\ count' = 0)]
  /\ sig' = IF reg.kind = "signal" THEN NoDev ELSE sig
  /\ UNCHANGED <<inst, dev, cb, queue, pin, keys>>
ReleaseDevice ==
  /\ reg.at = "release"
  /\ dev' = [dev EXCEPT ![reg.dev] = Free] /\ keys' = [keys EXCEPT ![reg.dev] = {}]
  /\ pin' = IF reg.kind = "gpio" THEN [pin EXCEPT ![reg.pin] = Quiet] ELSE pin
  /\ reg' = IF reg.all THEN [Idle EXCEPT !.at = "next", !.all = TRUE] ELSE Idle
  /\ UNCHANGED <<inst, held, count, sig, cb, queue>>

\* hid_deinit zeroes the pool of events too: its caller has handled them.
HidDeinit ==
  /\ inst /\ reg = Idle /\ queue = <<>> /\ (PollApart => cb["poll"] = Empty)
  /\ reg' = [Idle EXCEPT !.at = "next", !.all = TRUE]
  /\ UNCHANGED <<inst, dev, held, count, sig, cb, queue, pin, keys>>
DeinitNext ==
  /\ reg.at = "next"
  /\ \/ \E d \in Devices :
          /\ dev[d].kind # "none"
          /\ reg' = [reg EXCEPT !.at = "deinit", !.dev = d, !.kind = dev[d].kind, !.pin = dev[d].pin]
          /\ UNCHANGED <<inst, queue>>
     \/ /\ \A d \in Devices : dev[d].kind = "none"
        /\ reg' = Idle /\ inst' = FALSE /\ queue' = <<>>
  /\ UNCHANGED <<dev, held, count, sig, cb, pin, keys>>

------------------------------------------------------------------------------
(* Events.                                                                  *)

Handle ==
  /\ queue # <<>> /\ queue' = Tail(queue)
  /\ UNCHANGED <<inst, dev, held, count, sig, reg, cb, pin, keys>>

\* _hid_event_retain and _hid_event_push: no slot, no event; the queue may refuse too.
Room(d) == dev[d].kind # "none" /\ Len(queue) < Capacity
Queued(what) == queue' = Append(queue, what)

\* hid_event_queue_keycode: modifiers are held, locks toggle when pressed.
Locks     == {"caps"}
Modifiers == {"shift"}
\* A bug the checks must see: releasing a lock key turns the lock off.
FoldedLocks(state, key, on) ==
  ((IF on THEN IF key \in Locks THEN (state \cup {key}) \ (state \cap {key})
               ELSE state \cup ({key} \cap Modifiers)
    ELSE state \ {key}) \ {"on", "off"}) \cup {IF on THEN "on" ELSE "off"}
Folded(state, key, on) ==
  ((IF on THEN IF key \in Locks THEN (state \cup {key}) \ (state \cap {key})
               ELSE state \cup ({key} \cap Modifiers)
    ELSE state \ ({key} \cap Modifiers)) \ {"on", "off"}) \cup {IF on THEN "on" ELSE "off"}
\* Two threads may press keys: the state is folded under the pool's lock, and
\* only for a key whose event has found room.
Key(d, key, on) ==
  /\ dev[d].kind = "generic" /\ dev[d].full /\ reg = Idle /\ Room(d)
  /\ on # (key \in keys[d])
  /\ dev' = [dev EXCEPT ![d].state = Folded(@, key, on)]
  /\ keys' = [keys EXCEPT ![d] =
       LET down == IF on THEN @ \cup {key} ELSE @ \ {key}
       IN IF on /\ key = "caps" THEN IF "locked" \in @ THEN down \ {"locked"} ELSE down \cup {"locked"} ELSE down]
  /\ (Queued("event") \/ UNCHANGED queue)
  /\ UNCHANGED <<inst, held, count, sig, reg, cb, pin>>

\* A pin's edge, and its handler.
Edge(p) ==
  /\ p \in held.gpio \ held.adc /\ (reg.kind = "adc" => reg.pin # p)
  /\ SlowEdges => ~pin[p].recent
  /\ EdgesApart => reg.at \notin {"retain", "fill", "count"} \/ reg.kind # "gpio"
  /\ pin' = [pin EXCEPT ![p].on = ~@]
  /\ cb["edge"] = Empty
  /\ cb' = IF held.edge /\ inst
           THEN [cb EXCEPT !["edge"] = [Empty EXCEPT !.kind = "edge", !.pin = p, !.on = ~pin[p].on]] ELSE cb
  /\ UNCHANGED <<inst, dev, held, count, sig, reg, queue, keys>>
EdgeFinds ==
  LET e == cb["edge"]
      mine == {d \in Devices : dev[d].kind = "gpio" /\ dev[d].pin = e.pin} IN
  /\ e.kind = "edge" /\ e.dev = NoDev
  /\ IF mine = {} \/ pin[e.pin].recent
     THEN cb' = [cb EXCEPT !["edge"] = Empty] /\ UNCHANGED pin
     ELSE \E d \in mine : /\ cb' = [cb EXCEPT !["edge"].dev = d, !["edge"].full = dev[d].full]
                          /\ pin' = [pin EXCEPT ![e.pin].recent = TRUE]
  /\ UNCHANGED <<inst, dev, held, count, sig, reg, queue, keys>>
DebounceEnds(p) ==
  /\ pin[p].recent /\ cb["edge"] = Empty /\ pin' = [pin EXCEPT ![p].recent = FALSE]
  /\ UNCHANGED <<inst, dev, held, count, sig, reg, cb, queue, keys>>
EdgeTells ==
  LET e == cb["edge"] IN
  /\ e.dev # NoDev
  /\ \/ /\ Room(e.dev) /\ Queued(IF dev[e.dev].pin # e.pin THEN "other" ELSE IF e.full THEN "event" ELSE "blank")
        /\ pin' = [pin EXCEPT ![e.pin].said = e.on]
     \/ UNCHANGED queue /\ pin' = [pin EXCEPT ![e.pin].spoilt = TRUE]
  /\ cb' = [cb EXCEPT !["edge"] = Empty]
  /\ UNCHANGED <<inst, dev, held, count, sig, reg, keys>>

\* A signal, a radio or a stream calls back.
Observe(k) ==
  LET d == IF k = "signal" THEN sig ELSE held[k] IN
  /\ cb["observer"] = Empty /\ d # NoDev /\ (k = "signal" => held.signal)
  /\ cb' = [cb EXCEPT !["observer"] = [Empty EXCEPT !.kind = k, !.dev = d]]
  /\ UNCHANGED <<inst, dev, held, count, sig, reg, queue, pin, keys>>
ObserverTells ==
  LET o == cb["observer"] IN
  /\ o.dev # NoDev
  /\ \/ Room(o.dev) /\ Queued(IF dev[o.dev].kind # o.kind THEN "other" ELSE "event")
     \/ UNCHANGED queue
  /\ cb' = [cb EXCEPT !["observer"] = Empty]
  /\ UNCHANGED <<inst, dev, held, count, sig, reg, pin, keys>>

\* hid_poll: what is due is read with what was found under the lock.
PollFinds(d) ==
  /\ inst /\ cb["poll"] = Empty /\ (PollApart => reg = Idle)
  /\ dev[d].kind \in Readers
  /\ cb' = [cb EXCEPT !["poll"] = [Empty EXCEPT !.kind = dev[d].kind, !.dev = d]]
  /\ UNCHANGED <<inst, dev, held, count, sig, reg, queue, pin, keys>>
\* _hid_adc_read: the reading is the new baseline before its event is queued.
PollReads(v) ==
  LET d == cb["poll"].dev IN
  /\ d # NoDev
  /\ IF dev[d].told = v \/ dev[d].kind # cb["poll"].kind
     THEN UNCHANGED <<dev, queue>>
     ELSE /\ dev' = [dev EXCEPT ![d].told = v]
          /\ \/ Room(d) /\ Queued("event")
             \/ UNCHANGED queue
  /\ cb' = [cb EXCEPT !["poll"] = Empty]
  /\ UNCHANGED <<inst, held, count, sig, reg, pin, keys>>

Next ==
  \/ HidInit \/ Exhausted \/ InitDevice \/ Fill \/ CountUp \/ DeinitDevice \/ ReleaseDevice
  \/ HidDeinit \/ DeinitNext \/ Handle \/ EdgeFinds \/ EdgeTells \/ ObserverTells
  \/ \E k \in Kinds, p \in Pins : Register(k, p)
  \/ \E d \in Devices : Retain(d) \/ Deregister(d) \/ PollFinds(d)
  \/ \E d \in Devices, key \in Locks \cup Modifiers, on \in BOOLEAN : Key(d, key, on)
  \/ \E p \in Pins : Edge(p) \/ DebounceEnds(p)
  \/ \E k \in Observers : Observe(k)
  \/ \E v \in {0, 1} : PollReads(v)

Spec == Init /\ [][Next]_vars

------------------------------------------------------------------------------
PinsOf(k) == {dev[d].pin : d \in Of(k)}
(* With no registration in progress the hardware in use is that of the        *)
(* devices there are: each pin and channel belongs to one of them, the pins'  *)
(* callback is installed while there is a GPIO device, and signals are taken  *)
(* while there is one to report them to.                                      *)
HeldForDevices ==
  reg = Idle =>
    /\ held.gpio = PinsOf("gpio") \cup PinsOf("adc") /\ PinsOf("gpio") \cap PinsOf("adc") = {}
    /\ held.adc = PinsOf("adc") \cup (IF Of("temperature") = {} THEN {} ELSE {"temperature"})
    /\ count = Cardinality(Of("gpio")) /\ held.edge = (count > 0)
    /\ held.signal = (Of("signal") # {}) /\ (sig # NoDev => sig \in Of("signal"))
    /\ \A k \in {"wifi", "iostream"} : held[k] # NoDev => held[k] \in Of(k)
    /\ ~inst => \A d \in Devices : dev[d].kind = "none"
(* No event names a device that took the slot of the one the callback found.  *)
RightDevice == \A i \in DOMAIN queue : queue[i] # "other"
(* No event shows a GPIO device before its key code and polarity are there,   *)
(* and hid_poll reads no device whose ADC handle has not been filled in.      *)
NeverPartlyFilled ==
  /\ \A i \in DOMAIN queue : queue[i] # "blank"
  /\ LET d == cb["poll"].dev IN d # NoDev /\ dev[d].kind = cb["poll"].kind => dev[d].full
(* A pin whose edges have all been handled was reported as it is.             *)
LastEdgeTold ==
  \A d \in Of("gpio") : LET p == pin[dev[d].pin] IN
    cb["edge"] = Empty /\ reg = Idle /\ ~p.spoilt => p.on = p.said
(* A modifier is in a keyboard's state while its key is held, a lock after    *)
(* an odd number of presses.                                                  *)
StateIsKeys ==
  \A d \in Of("generic") :
    /\ "shift" \in dev[d].state <=> "shift" \in keys[d]
    /\ "caps" \in dev[d].state <=> "locked" \in keys[d]
HidSound == HeldForDevices /\ RightDevice /\ NeverPartlyFilled /\ LastEdgeTold /\ StateIsKeys
=============================================================================
