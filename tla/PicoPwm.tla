------------------------------ MODULE PicoPwm -------------------------------
(***************************************************************************)
(* PWM outputs of the Pico (hw/pico/pwm.c): a handle per channel of a       *)
(* slice.  The slice holds the period, the enable bit and the wrap          *)
(* interrupt of its two channels, each channel its level.                   *)
(*                                                                         *)
(* The wrap handler runs on the core of the foreground, between its steps.  *)
(***************************************************************************)
EXTENDS Integers

CONSTANTS
  Slices, Channels,
  Wraps,         \* wrap values a period may ask for
  ChannelsApart  \* TRUE: at most one channel of a slice is in use at a time

Handles == Slices \X Channels

VARIABLES pool,      \* handle -> initialised, callback?, and the level last asked for
          slice,     \* slice -> wrap, levels, running, wrap interrupt enabled and pending
          installed, \* _hw_pwm_irq_installed
          leaving,   \* the handle a deinit has not yet returned to the pool
          strays     \* callbacks for a wrap before they were attached, or without a handle

vars == <<pool, slice, installed, leaving, strays>>

NoHandle == <<"none", "none">>
FreeSlot == [valid |-> FALSE, callback |-> FALSE, asked |-> 0, wraps |-> 0]
Init ==
  /\ pool = [h \in Handles |-> FreeSlot]
  /\ slice = [s \in Slices |-> [wrap |-> 65535, level |-> [c \in Channels |-> 0], running |-> FALSE,
                                irq |-> FALSE, pending |-> FALSE]]
  /\ installed = FALSE /\ leaving = NoHandle /\ strays = 0

Sibling(h, i) == h[1] = i[1] /\ h # i
\* Duties are zero, half and full: the level of a full one is the wrap itself.
Duties == {"zero", "half", "full"}
DutyToLevel(duty, wrap) ==
  CASE duty = "zero" -> 0 [] duty = "half" -> (wrap + 1) \div 2 [] duty = "full" -> wrap

\* pwm_init: the wrap, and both compare registers back to zero.
Configured(r, wrap, running) == [r EXCEPT !.wrap = wrap, !.level = [c \in Channels |-> 0], !.running = running]
Leveled(r, c, duty) == [r EXCEPT !.level[c] = DutyToLevel(duty, r.wrap)]
\* A bug the checks must see: it is left pending.
AttachLatched(r, callback) == [r EXCEPT !.irq = callback]
\* A wrap latched earlier is cleared before the interrupt is enabled.
Attach(r, callback) == [r EXCEPT !.irq = callback, !.pending = IF callback THEN FALSE ELSE @]

PwmInit(h) ==
  /\ ~pool[h].valid
  /\ ChannelsApart => \A i \in Handles : Sibling(h, i) => ~pool[i].valid
  /\ \E wrap \in Wraps, duty \in Duties, run \in BOOLEAN, callback \in BOOLEAN :
       LET r == Leveled(Configured(slice[h[1]], wrap, run), h[2], duty) IN
       /\ slice' = [slice EXCEPT ![h[1]] = Attach(r, callback)]
       /\ pool' = [pool EXCEPT ![h] = [valid |-> TRUE, callback |-> callback,
                                       asked |-> DutyToLevel(duty, wrap), wraps |-> 0]]
       /\ installed' = (installed \/ callback)
  /\ UNCHANGED <<leaving, strays>>
\* The output and the interrupt stop before the handle is given back.
PwmStop(h) ==
  /\ leaving = NoHandle /\ pool[h].valid
  /\ slice' = [slice EXCEPT ![h[1]].running = FALSE, ![h[1]].irq = FALSE]
  /\ leaving' = h
  /\ UNCHANGED <<pool, installed, strays>>
PwmRelease ==
  /\ leaving # NoHandle
  /\ pool' = [pool EXCEPT ![leaving] = FreeSlot] /\ leaving' = NoHandle
  /\ UNCHANGED <<slice, installed, strays>>

Usable(h) == pool[h].valid /\ leaving # h
SetPeriod(h, wrap) ==
  /\ Usable(h)
  /\ slice' = [slice EXCEPT ![h[1]] = Configured(@, wrap, @.running)]
  /\ pool' = [pool EXCEPT ![h].asked = 0]
  /\ UNCHANGED <<installed, leaving, strays>>
SetDuty(h, duty) ==
  /\ Usable(h)
  /\ slice' = [slice EXCEPT ![h[1]] = Leveled(@, h[2], duty)]
  /\ pool' = [pool EXCEPT ![h].asked = DutyToLevel(duty, slice[h[1]].wrap)]
  /\ UNCHANGED <<installed, leaving, strays>>
SetConfig(h, wrap, duty, run) ==
  /\ Usable(h)
  /\ slice' = [slice EXCEPT ![h[1]] = [Leveled(Configured(@, wrap, @.running), h[2], duty) EXCEPT !.running = run]]
  /\ pool' = [pool EXCEPT ![h].asked = DutyToLevel(duty, wrap)]
  /\ UNCHANGED <<installed, leaving, strays>>
SetEnabled(h, run) ==
  /\ Usable(h) /\ slice' = [slice EXCEPT ![h[1]].running = run]
  /\ UNCHANGED <<pool, installed, leaving, strays>>

\* The counter of a running slice wraps.
Wrap(s) ==
  /\ slice[s].running
  /\ slice' = [slice EXCEPT ![s].pending = TRUE]
  /\ pool' = [h \in Handles |-> IF h[1] = s THEN [pool[h] EXCEPT !.wraps = IF pool[h].valid THEN 1 ELSE 0]
                                ELSE pool[h]]
  /\ UNCHANGED <<installed, leaving, strays>>
\* One slice's turn in _hw_pwm_callback_handler: both channels' callbacks.
Handler(s) ==
  /\ installed /\ slice[s].irq /\ slice[s].pending
  /\ slice' = [slice EXCEPT ![s].pending = FALSE]
  /\ strays' = IF \E h \in Handles : h[1] = s /\ pool[h].valid /\ pool[h].callback /\ pool[h].wraps = 0
               THEN 1 ELSE strays
  /\ UNCHANGED <<pool, installed, leaving>>

Next ==
  \/ \E h \in Handles :
       \/ PwmInit(h) \/ PwmStop(h) \/ \E run \in BOOLEAN : SetEnabled(h, run)
       \/ \E wrap \in Wraps : \/ SetPeriod(h, wrap)
                              \/ \E duty \in Duties, run \in BOOLEAN : SetConfig(h, wrap, duty, run)
       \/ \E duty \in Duties : SetDuty(h, duty)
  \/ PwmRelease
  \/ \E s \in Slices : Wrap(s) \/ Handler(s)

Spec == Init /\ [][Next]_vars

------------------------------------------------------------------------------
(* Every output has the level that was asked for and that its period can    *)
(* hold, a slice interrupts while a handle with a callback is open and not   *)
(* otherwise, an output nobody has open is still, and no callback is told of *)
(* a wrap from before it was attached.                                      *)
PwmSound ==
  /\ strays = 0
  /\ \A h \in Handles : LET r == slice[h[1]] IN
       /\ pool[h].valid => r.level[h[2]] = pool[h].asked /\ r.level[h[2]] <= r.wrap
       /\ Usable(h) => (pool[h].callback <=> r.irq)
  /\ \A s \in Slices : (\A c \in Channels : ~pool[<<s, c>>].valid) => ~slice[s].running /\ ~slice[s].irq
=============================================================================
