------------------------------ MODULE PicoUsb -------------------------------
(***************************************************************************)
(* The USB host on the Pico (hw/pico/usb.c), and the HID observer on it     *)
(* (hw/usb/hid.c).  hw_poll runs the host stack, which calls back when a    *)
(* device is mounted or unmounted; the devices are cached, so that a        *)
(* callback attached later is told of them too.  The callback is called     *)
(* once for each interface, and may itself close the host or change the     *)
(* callback in the middle of such a round.  TinyUSB is external.            *)
(***************************************************************************)
EXTENDS Integers, Sequences, FiniteSets

CONSTANTS
  Devices,      \* device addresses
  Interfaces,   \* how many interfaces a device has
  Slots,        \* capacity of the cache
  Settled       \* TRUE: a callback attaches no callback and opens no host

VARIABLES
  usb,     \* the singleton
  cache,   \* the devices cached
  bus,     \* the devices the host stack has mounted
  rounds,  \* the rounds of calls under way, the innermost first
  hid,     \* TRUE: the HID observer holds the host
  told,    \* history: the interfaces the callback was told of, and not yet told are gone
  marks,   \* history: the enumeration-complete markers it was given
  astray   \* history: it was told twice, or that what it did not know is gone

vars == <<usb, cache, bus, rounds, hid, told, marks, astray>>

NoCallback == "none"
Cleared == [init |-> FALSE, callback |-> NoCallback, complete |-> FALSE]
Init ==
  /\ usb = Cleared /\ cache = {} /\ bus = {} /\ rounds = <<>> /\ hid = FALSE
  /\ told = {} /\ marks = 0 /\ astray = FALSE

Of(d)   == {d} \X (1 .. Interfaces)
Forgets == told' = {} /\ marks' = 0
Apart   == rounds = <<>> \/ ~Settled
Room    == rounds = <<>> \/ Len(rounds) < 3      \* bound: rounds within rounds

\* Closes an open host first; the host stack forgets its devices.
HwInit ==
  /\ Apart
  /\ usb' \in {[Cleared EXCEPT !.init = TRUE], Cleared}
  /\ cache' = {} /\ bus' = {} /\ Forgets /\ UNCHANGED <<rounds, hid, astray>>
Deinit ==
  /\ usb.init /\ usb' = Cleared /\ cache' = {} /\ bus' = {} /\ Forgets
  /\ UNCHANGED <<rounds, hid, astray>>

\* A callback attached where there was none is told of every cached device.
SetCallback(cb) ==
  /\ usb.init /\ Room
  /\ usb' = [usb EXCEPT !.callback = cb]
  /\ IF usb.callback = NoCallback /\ cb # NoCallback
     THEN Forgets /\ rounds' = <<[event |-> "replay", todo |-> UNION {Of(d) : d \in cache}]>> \o rounds
     ELSE UNCHANGED <<told, marks, rounds>>
  /\ UNCHANGED <<cache, bus, astray>>
Attach == Apart /\ SetCallback("app") /\ UNCHANGED hid
Detach == SetCallback(NoCallback) /\ UNCHANGED hid
RegisterHid   == Apart /\ ~hid /\ SetCallback("hid") /\ hid' = TRUE
DeregisterHid ==
  /\ hid /\ hid' = FALSE
  /\ \/ SetCallback(NoCallback)
     \/ ~usb.init /\ UNCHANGED <<usb, cache, bus, rounds, told, marks, astray>>

----------------------------------------------------------------------------
\* hw_poll with no round under way: the host stack mounts or unmounts a device.
Polling == usb.init /\ rounds = <<>>
Round(event, ifs) == rounds' = IF usb.callback = NoCallback THEN rounds ELSE <<[event |-> event, todo |-> ifs]>> \o rounds

\* A device whose descriptors cannot be read is left out; one there is no
\* room for is told of but not cached.
Put(d)  == IF Cardinality(cache) < Slots THEN cache \cup {d} ELSE cache
Mount(d) ==
  /\ Polling /\ d \notin bus /\ bus' = bus \cup {d}
  /\ \/ UNCHANGED <<cache, rounds>>
     \/ cache' = Put(d) /\ Round("attached", Of(d))
  /\ UNCHANGED <<usb, hid, told, marks, astray>>
\* A bug the checks must see: the entry stays.
Remembered(d) == cache
\* The entry goes before the callback is told; a device that is not cached is
\* told of without its interfaces.
Removed(d) == cache \ {d}
Unmount(d) ==
  /\ Polling /\ d \in bus /\ bus' = bus \ {d} /\ cache' = Removed(d)
  /\ Round("detached", IF d \in cache THEN Of(d) ELSE {<<d, 0>>})
  /\ UNCHANGED <<usb, hid, told, marks, astray>>
\* The devices there were at the opening have had the time to answer.
Complete ==
  /\ Polling /\ ~usb.complete /\ usb' = [usb EXCEPT !.complete = TRUE]
  /\ marks' = IF usb.callback = NoCallback THEN marks ELSE marks + 1
  /\ UNCHANGED <<cache, bus, rounds, hid, told, astray>>

\* The next call of the innermost round.  A round of the host stack goes on
\* with the callback there is now; a replay with the one it began for.
Call ==
  /\ rounds # <<>>
  /\ LET r == Head(rounds)  outer == Tail(rounds)
         over == ~usb.init \/ (r.event # "replay" /\ usb.callback = NoCallback) IN
     \/ /\ (over \/ r.todo = {}) /\ rounds' = outer
        /\ marks' = IF ~over /\ r.event = "replay" /\ usb.complete THEN marks + 1 ELSE marks
        /\ UNCHANGED <<told, astray>>
     \/ /\ ~over
        /\ \E i \in r.todo :
             /\ rounds' = <<[r EXCEPT !.todo = @ \ {i}]>> \o outer
             /\ told' = IF r.event = "detached" THEN told \ {i} ELSE told \cup {i}
             /\ astray' = (astray \/ (i[2] # 0 /\ ((i \in told) <=> (r.event # "detached"))))
        /\ UNCHANGED marks
  /\ UNCHANGED <<usb, cache, bus, hid>>

Next ==
  \/ HwInit \/ Deinit \/ Attach \/ Detach \/ RegisterHid \/ DeregisterHid \/ Complete \/ Call
  \/ \E d \in Devices : Mount(d) \/ Unmount(d)

Spec == Init /\ [][Next]_vars

------------------------------------------------------------------------------
(* An attached callback knows exactly the interfaces of the devices there     *)
(* are: it is told of each once, of each that goes once, whenever it was      *)
(* attached and whatever it does in the middle of a round, and it is given    *)
(* the marker once.                                                           *)
UsbSound ==
  /\ ~astray /\ marks <= 1
  /\ rounds = <<>> /\ usb.callback # NoCallback =>
       /\ told = UNION {Of(d) : d \in cache} /\ cache \subseteq bus
       /\ usb.complete <=> marks = 1
=============================================================================
