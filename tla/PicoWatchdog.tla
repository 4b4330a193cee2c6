---------------------------- MODULE PicoWatchdog ----------------------------
(***************************************************************************)
(* The Pico's watchdog (hw/pico/watchdog.c): a singleton that hw_poll feeds *)
(* while feeding is on, and that resets the chip after a delay when asked   *)
(* to.  Poll decides under the pool lock and feeds after it, so that a call *)
(* on the other core falls between.                                         *)
(***************************************************************************)
EXTENDS Integers

CONSTANTS
  MaxTimeout, \* the longest timeout the counter holds
  PollGap,    \* the application calls hw_poll at least this often
  Horizon     \* bound: how far time runs

VARIABLES wd,     \* the singleton: timeout_ms (0 when not initialised), ping_interval_ms, last_feed_ms, disable
          active, \* _hw_watchdog_active
          timer,  \* the hardware: enabled, what it counts from, and what is left
          due,    \* hw_poll has decided to feed
          polled, \* when hw_poll was called last
          now, rebooted

vars == <<wd, active, timer, due, polled, now, rebooted>>

Cleared == [timeout |-> 0, ping |-> 0, last |-> 0, disable |-> FALSE]
Off     == [on |-> FALSE, load |-> 0, left |-> 0]
Init ==
  /\ wd = Cleared /\ active = FALSE /\ timer = Off
  /\ due = FALSE /\ polled = 1 /\ now = 1 /\ rebooted = FALSE

Valid         == wd.timeout # 0
Started(load) == [on |-> TRUE, load |-> load, left |-> load]
Least(m, n)   == IF m < n THEN m ELSE n
\* A bug the checks must see: fed when the timeout is over.
PingAtTimeout(t) == t
\* Fed at 64 parts in a hundred of the timeout.
PingInterval(t) == IF (t * 64) \div 100 = 0 THEN t ELSE (t * 64) \div 100

WatchdogInit ==
  /\ wd' = [timeout |-> MaxTimeout, ping |-> PingInterval(MaxTimeout), last |-> 0, disable |-> TRUE]
  /\ active' = FALSE
  /\ timer' = IF Valid THEN Off ELSE timer
  /\ UNCHANGED <<due, polled, now, rebooted>>
Deinit ==
  /\ Valid /\ wd' = Cleared /\ active' = FALSE /\ timer' = Off
  /\ UNCHANGED <<due, polled, now, rebooted>>
Enable(on) ==
  /\ Valid
  /\ wd' = [wd EXCEPT !.disable = ~on, !.last = IF on THEN 0 ELSE @]
  /\ active' = on
  /\ timer' = IF on THEN Started(wd.timeout) ELSE Off
  /\ UNCHANGED <<due, polled, now, rebooted>>
Reset(delay) ==
  /\ Valid /\ delay # 0
  /\ timer' = Started(Least(delay, MaxTimeout))
  /\ wd' = [wd EXCEPT !.disable = TRUE] /\ active' = FALSE
  /\ UNCHANGED <<due, polled, now, rebooted>>

\* The first poll after feeding was turned on feeds at once.
Poll ==
  /\ ~due
  /\ LET feed == active /\ Valid /\ ~wd.disable /\ (wd.last = 0 \/ now >= wd.last + wd.ping) IN
     due' = feed /\ wd' = IF feed THEN [wd EXCEPT !.last = now] ELSE wd
  /\ polled' = now
  /\ UNCHANGED <<active, timer, now, rebooted>>
Feed ==
  /\ due /\ due' = FALSE
  /\ timer' = [timer EXCEPT !.left = timer.load]
  /\ UNCHANGED <<wd, active, polled, now, rebooted>>

Tick ==
  /\ now < Horizon /\ ~due /\ now - polled < PollGap
  /\ now' = now + 1
  /\ timer' = IF timer.on THEN [timer EXCEPT !.left = @ - 1] ELSE timer
  /\ rebooted' = (timer.on /\ timer.left = 1)
  /\ UNCHANGED <<wd, active, due, polled>>

Next ==
  /\ ~rebooted
  /\ \/ WatchdogInit \/ Deinit \/ Poll \/ Feed \/ Tick
     \/ \E on \in BOOLEAN : Enable(on)
     \/ \E delay \in 1 .. MaxTimeout + 1 : Reset(delay)

Spec == Init /\ [][Next]_vars

------------------------------------------------------------------------------
ResetPending == timer.on /\ wd.disable
Feeding      == Valid /\ active
(* While the application polls as often as it must, the chip is reset only   *)
(* by a reset that was asked for and not called off; the watchdog runs only   *)
(* while it is fed or such a reset is pending, and a pending reset is not     *)
(* put off by polling.                                                        *)
WatchdogSound ==
  /\ rebooted => ResetPending
  /\ timer.on <=> Feeding \/ ResetPending
  /\ Feeding => ~wd.disable /\ timer.load = wd.timeout
  /\ ResetPending => ~active
=============================================================================
