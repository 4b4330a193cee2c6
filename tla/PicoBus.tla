------------------------------ MODULE PicoBus -------------------------------
(***************************************************************************)
(* The shared buses of the Pico (hw/pico/i2c.c, spi.c), with the GPIO      *)
(* claims (hw/pico/gpio.c) and the handle pool (hw/deviceio/deviceio.c)    *)
(* they are built from.  Two cores open, use and close devices.            *)
(*                                                                         *)
(* Each call is a sequence of steps: one per section under the pool lock,  *)
(* one per access outside it.  "op" is the step a core does next.          *)
(*                                                                         *)
(* An I2C adapter is shared: devices are counted, the first one starts it  *)
(* and the last one stops it.  An SPI adapter has one owner: a new device  *)
(* replaces the one before.                                                *)
(***************************************************************************)
EXTENDS Integers, Sequences, FiniteSets, SequencesExt

CONSTANTS
  Cores,      \* the cores that call
  Handles,    \* HW_DEVICEIO_CAPACITY slots
  AppPins,    \* pins the application claims and releases by itself
  FailsAlone, \* TRUE: the pool is full only for a call that finds its adapter unused
  SpiAlone    \* TRUE: SPI calls are made by one core at a time

VARIABLES pin,   \* claimed pins: pins[p].mask # 0
          held,  \* those among them that the application claimed itself
          bus,   \* the I2C adapter
          spi,   \* the SPI adapter: running, and its owner in _hw_spi_owner[]
          pool,  \* handle -> kind, pins, owns_pins
          given, \* handles the application was given and has not released
          call   \* core -> the call it is in

vars == <<pin, held, bus, spi, pool, given, call>>

NoHandle == 0
I2cPins == <<"sda", "scl">>             \* PICO_DEFAULT_I2C_SDA_PIN and SCL_PIN
SpiPins == <<"sck", "tx", "rx", "cs">>  \* PICO_DEFAULT_SPI_*_PIN
Stopped == [running |-> FALSE, refs |-> 0, pins |-> {}, owns |-> FALSE, lock |-> {}]
Free    == [kind |-> "free", pins |-> {}, owns |-> FALSE, lock |-> {}]
Idle    == [op |-> "idle", todo |-> <<>>, mine |-> {}, pins |-> {}, started |-> FALSE,
            handle |-> NoHandle, old |-> NoHandle, freed |-> {}, stop |-> FALSE, then |-> <<>>]

Init ==
  /\ pin = {} /\ held = {} /\ given = {}
  /\ bus = Stopped /\ spi = [running |-> FALSE, owner |-> NoHandle]
  /\ pool = [h \in Handles |-> Free]
  /\ call = [k \in Cores |-> Idle]

At(k, op)   == call[k].op = op
SpiOps      == {"spiInit", "spiAlloc", "spiSwap", "spiOwn", "spiDown", "spiUnpin", "spiXfr"}
SpiBusy(k)  == call[k].op \in SpiOps \/ (At(k, "claim") /\ call[k].then = <<"spiInit">>)
                 \/ (At(k, "unslot") /\ call[k].then # <<>>)
SpiMay(k)   == SpiAlone => \A c \in Cores \ {k} : ~SpiBusy(c)
FreeSlot    == {h \in Handles : pool[h].kind = "free"}
First(S)    == CHOOSE h \in S : \A i \in S : h <= i

------------------------------------------------------------------------------
(* GPIO: hw_gpio_init claims a pin under the pool lock, or refuses it.      *)

AppClaims(p) ==
  /\ p \in AppPins \ pin
  /\ pin' = pin \cup {p} /\ held' = held \cup {p}
  /\ UNCHANGED <<bus, spi, pool, given, call>>
\* It keeps the pins it gave to a device until that device is gone.
AppReleases(p) ==
  /\ p \in held \ (bus.pins \cup UNION {pool[h].pins : h \in Handles} \cup UNION {call[k].pins : k \in Cores})
  /\ pin' = pin \ {p} /\ held' = held \ {p}
  /\ UNCHANGED <<bus, spi, pool, given, call>>

\* A default init claims its pins in order; when one is refused it releases
\* those before it and fails.
Claim(k) ==
  /\ At(k, "claim")
  /\ LET p == Head(call[k].todo)
         rest == Tail(call[k].todo)
     IN IF p \in pin
        THEN pin' = pin \ call[k].mine /\ call' = [call EXCEPT ![k] = Idle]
        ELSE /\ pin' = pin \cup {p}
             /\ call' = [call EXCEPT ![k].todo = rest, ![k].mine = @ \cup {p}, ![k].pins = @ \cup {p},
                                     ![k].op = IF rest = <<>> THEN Head(call[k].then) ELSE @]
  /\ UNCHANGED <<held, bus, spi, pool, given>>

------------------------------------------------------------------------------
(* I2C.                                                                     *)

\* hw_i2c_init_default reads the count outside the lock: it joins a running
\* adapter without pins, and claims the default pins for a stopped one.
I2cDefault(k) ==
  /\ At(k, "idle")
  /\ call' = [call EXCEPT ![k] =
       IF bus.refs > 0 THEN [Idle EXCEPT !.op = "join"]
       ELSE [Idle EXCEPT !.op = "claim", !.todo = I2cPins, !.then = <<"join">>]]
  /\ UNCHANGED <<pin, held, bus, spi, pool, given>>
\* hw_i2c_init with pins of the application's own.
I2cWith(k) ==
  /\ At(k, "idle") /\ "alt" \in held
  /\ call' = [call EXCEPT ![k] = [Idle EXCEPT !.op = "join", !.pins = {"alt"}]]
  /\ UNCHANGED <<pin, held, bus, spi, pool, given>>

\* Under the lock: the first device starts the adapter, on its pins.
Join(k) ==
  /\ At(k, "join")
  /\ \/ /\ bus.refs = 0 /\ call[k].pins = {}
        /\ call' = [call EXCEPT ![k] = Idle] /\ bus' = bus
     \/ /\ bus.refs > 0 \/ call[k].pins # {}
        /\ bus' = IF bus.refs > 0 THEN [bus EXCEPT !.refs = @ + 1]
                  ELSE [running |-> TRUE, refs |-> 1, pins |-> call[k].pins, owns |-> FALSE, lock |-> {}]
        /\ call' = [call EXCEPT ![k].op = "alloc", ![k].started = bus.refs = 0]
  /\ UNCHANGED <<pin, held, spi, pool, given>>

\* _hw_deviceio_alloc_handle: the first free slot.
Alloc(k) ==
  /\ At(k, "alloc") /\ FreeSlot # {}
  /\ LET h == First(FreeSlot) IN
     /\ pool' = [pool EXCEPT ![h] = [Free EXCEPT !.kind = "i2c"]]
     /\ IF call[k].mine # {}
        THEN call' = [call EXCEPT ![k].op = "settle", ![k].handle = h] /\ given' = given
        ELSE call' = [call EXCEPT ![k] = Idle] /\ given' = given \cup {h}
  /\ UNCHANGED <<pin, held, bus, spi>>
AllocFails(k) ==
  /\ At(k, "alloc") /\ FreeSlot = {}
  /\ FailsAlone => bus.refs = 1 /\ call[k].started
  /\ call' = [call EXCEPT ![k].op = "undo"]
  /\ UNCHANGED <<pin, held, bus, spi, pool, given>>

\* The rollback: only a call that started the adapter stops it; the default
\* init then releases its pins.
Undo(k) ==
  /\ At(k, "undo")
  /\ FailsAlone => bus.refs = 1
  /\ bus' = IF bus.refs = 1 /\ call[k].started THEN Stopped ELSE [bus EXCEPT !.refs = @ - 1]
  /\ pin' = pin \ call[k].mine
  /\ call' = [call EXCEPT ![k] = Idle]
  /\ UNCHANGED <<held, spi, pool, given>>

\* A bug the checks must see: nobody owns the pins the default init claimed.
OwnsNoPins(k) == bus' = bus /\ pin' = pin
\* The default init: the adapter owns the pins if it runs on them.
OwnsPins(k) ==
  IF bus.pins = call[k].mine THEN bus' = [bus EXCEPT !.owns = TRUE] /\ pin' = pin
  ELSE bus' = bus /\ pin' = pin \ call[k].mine
Settle(k) ==
  /\ At(k, "settle")
  /\ OwnsPins(k)
  /\ given' = given \cup {call[k].handle}
  /\ call' = [call EXCEPT ![k] = Idle]
  /\ UNCHANGED <<held, spi, pool>>

\* _hw_i2c_ops_deinit: the last device stops the adapter and forgets it under
\* the lock, and releases its pins after.
I2cDown(k) ==
  /\ At(k, "i2cDown")
  /\ IF bus.refs > 1
     THEN bus' = [bus EXCEPT !.refs = @ - 1] /\ call' = [call EXCEPT ![k].op = "unslot"]
     ELSE /\ bus' = Stopped
          /\ call' = [call EXCEPT ![k].op = "i2cUnpin", ![k].freed = IF bus.owns THEN bus.pins ELSE {}]
  /\ UNCHANGED <<pin, held, spi, pool, given>>
I2cUnpin(k) ==
  /\ At(k, "i2cUnpin")
  /\ pin' = pin \ call[k].freed
  /\ call' = [call EXCEPT ![k].op = "unslot"]
  /\ UNCHANGED <<held, bus, spi, pool, given>>

------------------------------------------------------------------------------
(* SPI.                                                                     *)

\* hw_spi_init_default closes the owner before it, then claims the pins.
SpiDefault(k) ==
  /\ At(k, "idle") /\ SpiMay(k)
  /\ call' = [call EXCEPT ![k] =
       IF spi.owner = NoHandle THEN [Idle EXCEPT !.op = "claim", !.todo = SpiPins, !.then = <<"spiInit">>]
       ELSE [Idle EXCEPT !.op = "spiDown", !.old = spi.owner, !.todo = SpiPins, !.then = <<"claim", "spiInit">>]]
  /\ given' = given \ {spi.owner}
  /\ UNCHANGED <<pin, held, bus, spi, pool>>
SpiWith(k) ==
  /\ At(k, "idle") /\ SpiMay(k) /\ "altspi" \in held
  /\ call' = [call EXCEPT ![k] = [Idle EXCEPT !.op = "spiInit", !.pins = {"altspi"}]]
  /\ UNCHANGED <<pin, held, bus, spi, pool, given>>

\* hw_spi_init starts the adapter whoever owns it, then takes a handle; when
\* there is none it stops the adapter.
SpiStart(k) ==
  /\ At(k, "spiInit")
  /\ spi' = [spi EXCEPT !.running = TRUE]
  /\ call' = [call EXCEPT ![k].op = "spiAlloc"]
  /\ UNCHANGED <<pin, held, bus, pool, given>>
SpiAlloc(k) ==
  /\ At(k, "spiAlloc") /\ FreeSlot # {}
  /\ LET h == First(FreeSlot) IN
     /\ pool' = [pool EXCEPT ![h] = [Free EXCEPT !.kind = "spi", !.pins = call[k].pins]]
     /\ call' = [call EXCEPT ![k].op = "spiSwap", ![k].handle = h]
  /\ UNCHANGED <<pin, held, bus, spi, given>>
SpiAllocFails(k) ==
  /\ At(k, "spiAlloc") /\ FreeSlot = {}
  /\ FailsAlone => spi.owner = NoHandle
  /\ spi' = [spi EXCEPT !.running = FALSE]
  /\ pin' = pin \ call[k].mine
  /\ call' = [call EXCEPT ![k] = Idle]
  /\ UNCHANGED <<held, bus, pool, given>>

\* The new device owns the adapter before the old one is closed.
SpiSwap(k) ==
  /\ At(k, "spiSwap")
  /\ spi' = [spi EXCEPT !.owner = call[k].handle]
  /\ call' = [call EXCEPT ![k].op = IF spi.owner = NoHandle THEN "spiOwn" ELSE "spiDown",
                          ![k].old = spi.owner, ![k].then = <<"spiOwn">>]
  /\ given' = given \ {spi.owner}
  /\ UNCHANGED <<pin, held, bus, pool>>
SpiOwn(k) ==
  /\ At(k, "spiOwn")
  /\ pool' = [pool EXCEPT ![call[k].handle].owns = call[k].mine # {}]
  /\ given' = given \cup {call[k].handle}
  /\ call' = [call EXCEPT ![k] = Idle]
  /\ UNCHANGED <<pin, held, bus, spi>>

\* _hw_spi_ops_deinit: what is still in use is looked up under the lock,
\* after the device has given up the adapter, and the rest is released after.
SpiDown(k) ==
  /\ At(k, "spiDown")
  /\ LET old   == call[k].old
         owner == IF spi.owner = old THEN NoHandle ELSE spi.owner
         used  == IF owner = NoHandle THEN {} ELSE pool[owner].pins
     IN /\ spi' = [spi EXCEPT !.owner = owner]
        /\ call' = [call EXCEPT ![k].op = "spiUnpin", ![k].stop = owner = NoHandle,
                                ![k].freed = IF pool[old].owns THEN pool[old].pins \ used ELSE {}]
  /\ UNCHANGED <<pin, held, bus, pool, given>>
SpiUnpin(k) ==
  /\ At(k, "spiUnpin")
  /\ spi' = [spi EXCEPT !.running = @ /\ ~call[k].stop]
  /\ pin' = pin \ call[k].freed
  /\ call' = [call EXCEPT ![k].op = "unslot"]
  /\ UNCHANGED <<held, bus, pool, given>>

------------------------------------------------------------------------------
(* Handles: hw_deviceio_deinit and the transfers.                           *)

InUse(h) == \E k \in Cores : call[k].op \in {"i2cXfr", "spiXfr"} /\ call[k].handle = h
Deinit(k, h) ==
  /\ At(k, "idle") /\ h \in given /\ ~InUse(h)
  /\ pool[h].kind = "spi" => SpiMay(k)
  /\ given' = given \ {h}
  /\ call' = [call EXCEPT ![k] = [Idle EXCEPT !.op = IF pool[h].kind = "i2c" THEN "i2cDown" ELSE "spiDown",
                                              !.old = h]]
  /\ UNCHANGED <<pin, held, bus, spi, pool>>
\* The slot is free from the moment its ops are cleared.
Unslot(k) ==
  /\ At(k, "unslot")
  /\ pool' = [pool EXCEPT ![call[k].old] = Free]
  /\ call' = IF call[k].then = <<>> THEN [call EXCEPT ![k] = Idle]
             ELSE [call EXCEPT ![k].op = Head(call[k].then), ![k].then = Tail(call[k].then)]
  /\ UNCHANGED <<pin, held, bus, spi, given>>

\* A transfer holds the adapter's lock (I2C) or the device's (SPI) from its
\* first half to its last, and ends early when the bus refuses one.
Halves(op) ==
  CASE op = "xfr" -> {<<"write">>, <<"read">>, <<"write", "read">>}
    [] op = "read_reg" -> {<<"write", "read">>}
    [] op = "write_reg" -> {<<"write">>}
    [] op = "detect" -> {<<"read", "write">>}
XfrOf(op) == IF op = "i2c" THEN "i2cXfr" ELSE "spiXfr"
Xfr(k, h, op) ==
  /\ At(k, "idle") /\ h \in given
  /\ \E halves \in Halves(op) :
       call' = [call EXCEPT ![k] = [Idle EXCEPT !.op = XfrOf(pool[h].kind), !.handle = h, !.todo = halves]]
  /\ \/ pool[h].kind = "i2c" /\ bus.lock = {} /\ bus' = [bus EXCEPT !.lock = {k}] /\ pool' = pool
     \/ pool[h].kind = "spi" /\ op # "detect" /\ SpiMay(k) /\ pool[h].lock = {}
          /\ pool' = [pool EXCEPT ![h].lock = {k}] /\ bus' = bus
  /\ UNCHANGED <<pin, held, spi, given>>
XfrHalf(k) ==
  /\ call[k].op \in {"i2cXfr", "spiXfr"} /\ Len(call[k].todo) > 1
  /\ call' = [call EXCEPT ![k].todo = Tail(@)]
  /\ UNCHANGED <<pin, held, bus, spi, pool, given>>
XfrEnds(k) ==
  /\ \/ At(k, "i2cXfr") /\ bus' = [bus EXCEPT !.lock = {}] /\ pool' = pool
     \/ At(k, "spiXfr") /\ pool' = [pool EXCEPT ![call[k].handle].lock = {}] /\ bus' = bus
  /\ call' = [call EXCEPT ![k] = Idle]
  /\ UNCHANGED <<pin, held, spi, given>>

Next ==
  \/ \E p \in AppPins : AppClaims(p) \/ AppReleases(p)
  \/ \E k \in Cores :
       \/ Claim(k)
       \/ I2cDefault(k) \/ I2cWith(k) \/ Join(k) \/ Alloc(k) \/ AllocFails(k) \/ Undo(k) \/ Settle(k)
       \/ I2cDown(k) \/ I2cUnpin(k)
       \/ SpiDefault(k) \/ SpiWith(k) \/ SpiStart(k) \/ SpiAlloc(k) \/ SpiAllocFails(k)
       \/ SpiSwap(k) \/ SpiOwn(k) \/ SpiDown(k) \/ SpiUnpin(k)
       \/ Unslot(k) \/ XfrHalf(k) \/ XfrEnds(k)
       \/ \E h \in Handles : \/ Deinit(k, h)
                            \/ \E op \in {"xfr", "read_reg", "write_reg", "detect"} : Xfr(k, h, op)

Spec == Init /\ [][Next]_vars

------------------------------------------------------------------------------
Calls(ops) == Cardinality({k \in Cores : call[k].op \in ops})
I2cGiven   == {h \in given : pool[h].kind = "i2c"}

\* A device the application has is on a running adapter whose pins are claimed.
DevicesRun ==
  \A h \in given :
    /\ pool[h].kind # "free"
    /\ pool[h].kind = "i2c" => bus.running /\ bus.pins \subseteq pin
    /\ pool[h].kind = "spi" => spi.running /\ spi.owner = h /\ pool[h].pins \subseteq pin
\* The adapter counts the devices on it and those joining or leaving it.
RefsExact == bus.refs = Cardinality(I2cGiven) + Calls({"alloc", "undo", "settle", "i2cDown"})
\* When no call is under way, what is claimed has an owner: a failed or
\* finished call leaves no pin, handle or adapter behind.
NothingLeft ==
  (\A k \in Cores : At(k, "idle")) =>
    /\ pin = held \cup (IF bus.owns THEN bus.pins ELSE {})
                  \cup UNION {pool[h].pins : h \in {i \in given : pool[i].owns}}
    /\ Handles \ FreeSlot = given
    /\ bus.running <=> bus.refs > 0
    /\ spi.running <=> spi.owner # NoHandle
\* A transfer has its bus to itself: one core at a time, and its lock is not
\* reset under it.
TransferAlone ==
  /\ \A k \in Cores : At(k, "i2cXfr") => bus.lock = {k}
  /\ \A k \in Cores : At(k, "spiXfr") => pool[call[k].handle].lock = {k}

(* However opens and closes of two cores interleave, every device in use    *)
(* runs on claimed pins, the I2C count is exact, transfers exclude each     *)
(* other, and nothing is left claimed by a call that failed or ended.       *)
BusSound == DevicesRun /\ RefsExact /\ NothingLeft /\ TransferAlone
=============================================================================
