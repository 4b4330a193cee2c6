------------------------------ MODULE Ladders ------------------------------
(***************************************************************************)
(* How handles are opened and closed: Linux I2C and SPI devices and LEDs,   *)
(* the POSIX UART, the Pico's NeoPixels and its default LED.  An opening    *)
(* climbs a ladder of things to take, and when one cannot be had gives back *)
(* what the code names at that place; a closing gives them back in turn.    *)
(***************************************************************************)
EXTENDS Integers, Sequences, FiniteSets

CONSTANTS
  Objects,      \* calls to an init function and the handles they return
  Threads,      \* threads that transfer
  Kinds,        \* the kinds of handle opened
  Slots,        \* capacity of the pools of device and stream handles
  LedSlots,     \* capacity of the pool of LED handles
  CloseAlone    \* TRUE: no handle is closed while another thread transfers with it

VARIABLES
  obj,    \* a handle, and how far its opening or closing has come
  pool,   \* the slots in use: "deviceio", "led", "iostream"
  use     \* thread -> the handle it transfers with, and the file it does it on

vars == <<obj, pool, use>>

NoObj == "none"
None  == [kind |-> "none", at |-> "none", n |-> 0, has |-> {}, fd |-> 0]
Idle  == [obj |-> NoObj, fd |-> 0]
Init ==
  /\ obj = [o \in Objects |-> None] /\ use = [t \in Threads |-> Idle]
  /\ pool = [p \in {"deviceio", "led", "iostream"} |-> 0]

\* Each rung: what it takes, and what a failure there gives back.
Rung(take, undo) == [take |-> take, undo |-> undo]
\* A bug the checks must see: the file stays open when no handle is free.
I2cFileOpen == <<Rung("fd", {}), Rung("lock", {"fd"}), Rung("deviceio", {"lock"})>>
I2c      == <<Rung("fd", {}), Rung("lock", {"fd"}), Rung("deviceio", {"lock", "fd"})>>
Spi      == <<Rung("fd", {}), Rung("mode", {"fd"}), Rung("lock", {"fd"}), Rung("deviceio", {"lock", "fd"})>>
Sysfs    == <<Rung("saved", {}), Rung("trigger", {"saved"}), Rung("dir", {"trigger", "saved"}),
              Rung("led", {"trigger", "dir", "saved"})>>
Neopixel == <<Rung("pixels", {}), Rung("program", {"pixels"}), Rung("led", {"program", "pixels"})>>
LedPin   == <<Rung("pin", {}), Rung("inner", {"pin"}), Rung("led", {"inner", "pin"})>>
LedPwm   == <<Rung("pin", {}), Rung("pwm", {"pin"}), Rung("inner", {"pwm", "pin"}), Rung("led", {"inner", "pwm", "pin"})>>
LedWifi  == <<Rung("inner", {}), Rung("led", {"inner"})>>
Uart     == LET all == {"fd", "ctx", "lock", "group"} IN
            <<Rung("fd", {}), Rung("termios", {"fd"}), Rung("ctx", {"fd"}), Rung("lock", {"ctx", "fd"}),
              Rung("group", all), Rung("iostream", all), Rung("added", all \cup {"iostream"}),
              Rung("thread", all \cup {"iostream", "added"})>>
Ladder(k) == CASE k = "i2c" -> I2c [] k = "spi" -> Spi [] k = "sysfs" -> Sysfs [] k = "neopixel" -> Neopixel
               [] k = "pin" -> LedPin [] k = "pwm" -> LedPwm [] k = "wifi" -> LedWifi [] k = "uart" -> Uart

\* The order in which a closing gives back.
Closing(k) == CASE k \in {"i2c", "spi"} -> <<"fd", "lock", "deviceio">>
                [] k = "sysfs" -> <<"trigger", "saved", "dir", "led">>
                [] k = "neopixel" -> <<"program", "pixels", "led">>
                [] k \in {"pin", "pwm", "wifi"} -> <<"inner", "pwm", "pin", "led">>
                [] k = "uart" -> <<"added", "group", "lock", "fd", "ctx", "iostream">>

PoolOf(r) == IF r = "inner" THEN "led" ELSE r
Counted(p, r, n) == IF PoolOf(r) \in DOMAIN p THEN [p EXCEPT ![PoolOf(r)] = @ + n] ELSE p
CountedAll(p, has) ==
  [q \in DOMAIN p |-> p[q] - Cardinality({r \in has : PoolOf(r) = q})]
\* What is not a resource: settings made on the way, and a trigger that could not be read.
Settings == {"mode", "termios"}
Capacity(p) == IF p = "led" THEN LedSlots ELSE Slots
OpenFiles == {obj[o].fd : o \in Objects} \ {0}
\* open returns the lowest number that is free.
LowestFile == CHOOSE f \in 1..Cardinality(Objects) : f \notin OpenFiles /\ \A g \in 1..(f - 1) : g \in OpenFiles

Begin(o, k) ==
  /\ obj[o] = None /\ k \in Kinds
  /\ obj' = [obj EXCEPT ![o] = [None EXCEPT !.kind = k, !.at = "init", !.n = 1]]
  /\ UNCHANGED <<pool, use>>
Rungs(o) == Ladder(obj[o].kind)
Climb(o) ==
  LET r == Rungs(o)[obj[o].n].take IN
  /\ obj[o].at = "init"
  /\ PoolOf(r) \in DOMAIN pool => pool[PoolOf(r)] < Capacity(PoolOf(r))
  /\ obj' = [obj EXCEPT ![o].n = @ + 1, ![o].has = @ \cup ({r} \ Settings),
                        ![o].fd = IF r = "fd" THEN LowestFile ELSE @,
                        ![o].at = IF obj[o].n = Len(Rungs(o)) THEN "up" ELSE @]
  /\ pool' = Counted(pool, r, 1) /\ UNCHANGED use
\* The LED's trigger may be unreadable, and is then not given back either.
Unread(o) ==
  /\ obj[o].at = "init" /\ Rungs(o)[obj[o].n].take = "saved"
  /\ obj' = [obj EXCEPT ![o].n = @ + 1]
  /\ UNCHANGED <<pool, use>>
GivenBack(has, undo) == IF "saved" \in has THEN has \ undo ELSE has \ (undo \ {"trigger"})
Fail(o) ==
  LET rung == Rungs(o)[obj[o].n]
      left == GivenBack(obj[o].has, rung.undo) IN
  /\ obj[o].at = "init" /\ rung.take # "saved"
  /\ rung.take # "group"    \* sys_waitgroup_deinit(NULL) would stop the program
  /\ rung.take \in DOMAIN pool => pool[rung.take] = Capacity(rung.take)
  /\ obj' = [obj EXCEPT ![o] = [None EXCEPT !.has = left, !.kind = obj[o].kind]]
  /\ pool' = CountedAll(pool, obj[o].has \ left) /\ UNCHANGED use

Close(o) ==
  /\ obj[o].at = "up" /\ (CloseAlone => \A t \in Threads : use[t].obj # o)
  /\ obj' = [obj EXCEPT ![o].at = "close", ![o].n = 1]
  /\ UNCHANGED <<pool, use>>
\* The UART's thread has gone once its wait group is down.
GiveNext(o) ==
  LET r == Closing(obj[o].kind)[obj[o].n]
      gone == IF r = "added" THEN {"added", "thread"} ELSE IF r = "trigger" /\ "saved" \notin obj[o].has THEN {} ELSE {r}
      left == obj[o].has \ gone IN
  /\ obj[o].at = "close"
  /\ obj' = [obj EXCEPT ![o] = IF obj[o].n = Len(Closing(obj[o].kind)) THEN [None EXCEPT !.has = left, !.kind = obj[o].kind]
                               ELSE [@ EXCEPT !.n = @ + 1, !.has = left, !.fd = IF r = "fd" THEN 0 ELSE @]]
  /\ pool' = CountedAll(pool, obj[o].has \ left) /\ UNCHANGED use
\* What was left behind is out of sight: the object may be opened again.
Forget(o) ==
  /\ obj[o].at = "none" /\ obj[o].kind # "none" /\ obj' = [obj EXCEPT ![o] = None]
  /\ UNCHANGED <<pool, use>>

\* A transfer holds the handle's mutex, and reads and writes with the file it found.
Locked(o) == \E t \in Threads : use[t].obj = o
Transfer(t, o) ==
  /\ use[t] = Idle /\ obj[o].kind \in {"i2c", "spi"} /\ obj[o].at \in {"up", "close"} /\ "deviceio" \in obj[o].has
  /\ CloseAlone => obj[o].at = "up"
  /\ ~Locked(o)
  /\ use' = [use EXCEPT ![t] = [obj |-> o, fd |-> obj[o].fd]]
  /\ UNCHANGED <<obj, pool>>
Transferred(t) ==
  /\ use[t] # Idle /\ use' = [use EXCEPT ![t] = Idle]
  /\ UNCHANGED <<obj, pool>>

Next ==
  \/ \E o \in Objects : Climb(o) \/ Unread(o) \/ Fail(o) \/ Close(o) \/ GiveNext(o) \/ Forget(o)
  \/ \E o \in Objects, k \in Kinds : Begin(o, k)
  \/ \E t \in Threads : Transferred(t) \/ \E o \in Objects : Transfer(t, o)

Spec == Init /\ [][Next]_vars

------------------------------------------------------------------------------
(* An opening that fails, and a closing that ends, leave nothing taken but   *)
(* the trigger of an LED that could not be read; the pools count exactly the *)
(* handles there are; a handle that is up has all that its ladder takes; and *)
(* a transfer in progress has its own file, open.                            *)
LaddersSound ==
  /\ \A o \in Objects :
       /\ obj[o].at = "none" => obj[o].has \subseteq {"trigger"} /\ (obj[o].has # {} => obj[o].kind = "sysfs")
       /\ obj[o].at = "up" =>
            {Rungs(o)[i].take : i \in DOMAIN Rungs(o)} \ (Settings \cup {"saved"}) \subseteq obj[o].has
  /\ \A p \in DOMAIN pool : pool[p] <= Capacity(p) /\
       pool[p] = Cardinality({<<o, r>> \in Objects \X {"inner", "led", "deviceio", "iostream"} :
                                r \in obj[o].has /\ PoolOf(r) = p})
  /\ \A t \in Threads : use[t] # Idle =>
       use[t].fd # 0 /\ obj[use[t].obj].fd = use[t].fd /\ {"fd", "lock"} \subseteq obj[use[t].obj].has
=============================================================================
