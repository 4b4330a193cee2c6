------------------------------ MODULE LedBlink ------------------------------
(***************************************************************************)
(* LED handles and blinking (hw/led): a pool of handles, each with at most   *)
(* one blink, whose timer callback only marks what ought to be shown and     *)
(* leaves it to hw_poll to show it.                                          *)
(*                                                                         *)
(* The callback runs in an interrupt or a thread of its own, between any two *)
(* sections of the pool lock.  Deinitialising a timer waits for its callback  *)
(* to end, unless the callback itself does it.                               *)
(***************************************************************************)
EXTENDS Integers, FiniteSets

CONSTANTS
  Leds,     \* HW_LED_POOL_CAPACITY handles
  Polled    \* TRUE: LED functions are called from where hw_poll is called

VARIABLES led,    \* hw_led_t: in use, its blink, and what the LED shows
          count,  \* _hw_led_active_blinks
          timer,  \* led -> its timer: "none", "made", "armed"
          cb,     \* led -> the callback of its timer: "idle", "entered", "stops"
          app,    \* the application's call and what it does next
          poll,   \* hw_poll between reading a flip and showing it
          wanted  \* led -> what the last call that ended asked for, or "any"

vars == <<led, count, timer, cb, app, poll, wanted>>

NoBlink == [timer |-> FALSE, desired |-> FALSE, pending |-> FALSE, repeating |-> FALSE]
NoLed   == "none"
Resting == [op |-> "idle", led |-> NoLed, at |-> "none"]
Init ==
  /\ led = [l \in Leds |-> [valid |-> FALSE, blink |-> NoBlink, on |-> FALSE]]
  /\ count = 0 /\ timer = [l \in Leds |-> "none"] /\ cb = [l \in Leds |-> "idle"]
  /\ app = Resting /\ poll = [led |-> NoLed, desired |-> FALSE, finished |-> FALSE]
  /\ wanted = [l \in Leds |-> "any"]

Polling == poll.led # NoLed

------------------------------------------------------------------------------
(* Calls: all but an allocation first cancel the blink there is.            *)

Alloc(l) ==
  /\ app = Resting /\ ~led[l].valid
  /\ led' = [led EXCEPT ![l] = [valid |-> TRUE, blink |-> NoBlink, on |-> FALSE]]
  /\ wanted' = [wanted EXCEPT ![l] = "off"]
  /\ UNCHANGED <<count, timer, cb, app, poll>>
Call(l, op) ==
  /\ app = Resting /\ led[l].valid /\ (Polled => ~Polling)
  /\ app' = [Resting EXCEPT !.op = op, !.led = l, !.at = "cancel"]
  /\ wanted' = [wanted EXCEPT ![l] = "any"]
  /\ UNCHANGED <<led, count, timer, cb, poll>>

\* _hw_led_blink_cancel: the timer is taken under the lock, deinitialised
\* outside it, and what its callback marked meanwhile is dropped.
Cancel ==
  /\ app.at = "cancel"
  /\ LET b == led[app.led].blink IN
     app' = [app EXCEPT !.at = IF b.timer THEN "deinit" ELSE IF b.pending THEN "count" ELSE "apply"]
  /\ led' = [led EXCEPT ![app.led].blink.timer = FALSE, ![app.led].blink.pending = FALSE]
  /\ UNCHANGED <<count, timer, cb, poll, wanted>>
TimerDeinit ==
  /\ app.at = "deinit" /\ cb[app.led] = "idle"
  /\ timer' = [timer EXCEPT ![app.led] = "none"]
  /\ app' = [app EXCEPT !.at = "drop"]
  /\ UNCHANGED <<led, count, cb, poll, wanted>>
\* A bug the checks must see: what the callback marked meanwhile stays.
Kept(b) == b
Dropped(b) == [b EXCEPT !.pending = FALSE]
Drop ==
  /\ app.at = "drop"
  /\ led' = [led EXCEPT ![app.led].blink = Dropped(@)]
  /\ app' = [app EXCEPT !.at = "count"]
  /\ UNCHANGED <<count, timer, cb, poll, wanted>>
CountDown ==
  /\ app.at = "count" /\ count' = count - 1 /\ app' = [app EXCEPT !.at = "apply"]
  /\ UNCHANGED <<led, timer, cb, poll, wanted>>

\* hw_led_set, hw_led_clear, hw_led_deinit.
Apply ==
  /\ app.at = "apply" /\ app.op \in {"on", "off", "deinit"}
  /\ led' = [led EXCEPT ![app.led].on = (app.op = "on"), ![app.led].valid = (app.op # "deinit")]
  /\ wanted' = [wanted EXCEPT ![app.led] = IF app.op = "on" THEN "on" ELSE "off"]
  /\ app' = Resting
  /\ UNCHANGED <<count, timer, cb, poll>>
\* hw_led_blink: off first; no timer, no blink.
MakeTimer ==
  /\ app.at = "apply" /\ app.op \in {"blink", "flash"}
  /\ led' = [led EXCEPT ![app.led].on = FALSE]
  /\ \/ app' = [app EXCEPT !.at = "arm"] /\ timer' = [timer EXCEPT ![app.led] = "made"] /\ UNCHANGED wanted
     \/ app' = Resting /\ wanted' = [wanted EXCEPT ![app.led] = "off"] /\ UNCHANGED timer
  /\ UNCHANGED <<count, cb, poll>>
Arm ==
  /\ app.at = "arm"
  /\ led' = [led EXCEPT ![app.led].blink = [NoBlink EXCEPT !.timer = TRUE, !.repeating = (app.op = "blink")]]
  /\ app' = [app EXCEPT !.at = "start"]
  /\ UNCHANGED <<count, timer, cb, poll, wanted>>
\* Counted before the timer starts; undone when it does not.
Start ==
  /\ app.at = "start"
  /\ \/ timer' = [timer EXCEPT ![app.led] = "armed"] /\ count' = count + 1 /\ UNCHANGED <<led, wanted>>
     \/ /\ timer' = [timer EXCEPT ![app.led] = "none"] /\ count' = count
        /\ led' = [led EXCEPT ![app.led].blink.timer = FALSE]
        /\ wanted' = [wanted EXCEPT ![app.led] = "off"]
  /\ app' = Resting
  /\ UNCHANGED <<cb, poll>>

------------------------------------------------------------------------------
(* The timer's callback, and hw_poll.                                       *)

Expire(l) ==
  /\ timer[l] = "armed" /\ cb[l] = "idle"
  /\ cb' = [cb EXCEPT ![l] = "entered"]
  /\ UNCHANGED <<led, count, timer, app, poll, wanted>>
Flip(l) ==
  /\ cb[l] = "entered"
  /\ LET stops == led[l].valid /\ ~led[l].blink.repeating IN
     /\ cb' = [cb EXCEPT ![l] = IF stops THEN "stops" ELSE "idle"]
     /\ led' = IF led[l].valid
               THEN [led EXCEPT ![l].blink = [@ EXCEPT !.desired = ~@, !.pending = TRUE, !.timer = @ /\ ~stops]]
               ELSE led
  /\ UNCHANGED <<count, timer, app, poll, wanted>>
Stop(l) ==
  /\ cb[l] = "stops" /\ cb' = [cb EXCEPT ![l] = "idle"]
  /\ timer' = [timer EXCEPT ![l] = "none"]
  /\ UNCHANGED <<led, count, app, poll, wanted>>

\* A blink whose timer is gone is over with this flip.
PollRead(l) ==
  /\ ~Polling /\ count # 0 /\ (Polled => app = Resting)
  /\ led[l].valid /\ led[l].blink.pending
  /\ poll' = [led |-> l, desired |-> led[l].blink.desired, finished |-> ~led[l].blink.timer]
  /\ led' = [led EXCEPT ![l].blink.pending = FALSE]
  /\ UNCHANGED <<count, timer, cb, app, wanted>>
PollShow ==
  /\ Polling
  /\ led' = [led EXCEPT ![poll.led].on = poll.desired]
  /\ count' = IF poll.finished THEN count - 1 ELSE count
  /\ wanted' = [wanted EXCEPT ![poll.led] = IF poll.finished THEN "on" ELSE @]
  /\ poll' = [led |-> NoLed, desired |-> FALSE, finished |-> FALSE]
  /\ UNCHANGED <<timer, cb, app>>

Next ==
  \/ \E l \in Leds : \/ Alloc(l) \/ Expire(l) \/ Flip(l) \/ Stop(l) \/ PollRead(l)
                     \/ \E op \in {"on", "off", "deinit", "blink", "flash"} : Call(l, op)
  \/ Cancel \/ TimerDeinit \/ Drop \/ CountDown \/ Apply \/ MakeTimer \/ Arm \/ Start \/ PollShow

Spec == Init /\ [][Next]_vars

------------------------------------------------------------------------------
Blinking(l) == led[l].blink.timer \/ led[l].blink.pending
(* However the callback falls between the steps of a call, the count of       *)
(* blinks is exact, so that a poll never passes one over; a timer is armed    *)
(* only for a blink or for the call that is ending it; and an LED that does   *)
(* not blink shows what was asked last, a flash included.                     *)
BlinkSound ==
  /\ app = Resting /\ ~Polling => count = Cardinality({l \in Leds : Blinking(l)})
  /\ \A l \in Leds :
       /\ timer[l] = "armed" => led[l].blink.timer \/ cb[l] = "stops" \/ app.led = l
       /\ app = Resting /\ ~Polling /\ ~Blinking(l) /\ wanted[l] # "any" => led[l].on = (wanted[l] = "on")
       /\ ~led[l].valid => ~Blinking(l)
=============================================================================
