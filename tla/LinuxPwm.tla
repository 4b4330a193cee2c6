------------------------------ MODULE LinuxPwm ------------------------------
(***************************************************************************)
(* PWM on Linux (hw/linux/pwm.c): handles over the files of sysfs.  Every   *)
(* write is a system call of its own that may fail, and the kernel refuses  *)
(* a period below the duty cycle, a duty cycle above the period, enabling   *)
(* without a period, exporting twice and writing what is not exported.      *)
(* sysfs is external.                                                       *)
(***************************************************************************)
EXTENDS Integers, Sequences, FiniteSets

CONSTANTS
  Handles,
  Channels,
  Periods,      \* periods asked for, in units of the duty cycle
  ChannelsApart \* TRUE: a channel has one handle at a time, and no other process takes one in use

VARIABLES
  file,    \* channel -> what sysfs holds of it
  pwm,     \* handle -> its channel, and whether it exported it
  call,    \* handle -> the writes of its call that are left, and what was asked for
  refused  \* history: the kernel refused a write because of the order of the writes

vars == <<file, pwm, call, refused>>

NoChannel == "none"
Absent == [exported |-> FALSE, enabled |-> FALSE, period |-> 0, duty |-> 0]
Free   == [channel |-> NoChannel, ours |-> FALSE]
Idle   == [op |-> "none", todo |-> <<>>]
Init ==
  /\ file \in [Channels -> {Absent, [Absent EXCEPT !.exported = TRUE]}]
  /\ pwm = [h \in Handles |-> Free] /\ call = [h \in Handles |-> Idle] /\ refused = FALSE

\* A write: an attribute, its value, and what the kernel says of it.
W(attribute, value) == [attribute |-> attribute, value |-> value]
Allowed(c, w) ==
  /\ file[c].exported
  /\ CASE w.attribute = "period" -> w.value > 0 /\ w.value >= file[c].duty
       [] w.attribute = "duty"   -> w.value <= file[c].period
       [] w.attribute = "enable" -> w.value = 0 \/ file[c].period > 0
Written(c, w) ==
  [file EXCEPT ![c] = CASE w.attribute = "period" -> [@ EXCEPT !.period = w.value]
                        [] w.attribute = "duty"   -> [@ EXCEPT !.duty = w.value]
                        [] w.attribute = "enable" -> [@ EXCEPT !.enabled = w.value = 1]]

\* _hw_pwm_apply: off, no duty cycle, the period, the duty cycle, and on.
Apply(period, duty, on) ==
  <<W("enable", 0), W("duty", 0), W("period", period), W("duty", duty)>> \o (IF on THEN <<W("enable", 1)>> ELSE <<>>)
\* A bug the checks must see: it is cut down to what fits only afterwards.
NewPeriodFirst(c, period) == <<W("period", period), W("duty", IF file[c].duty > period THEN period ELSE file[c].duty)>>
\* hw_pwm_set_period_ns: a duty cycle that no longer fits goes first.
NewPeriod(c, period) ==
  LET duty == file[c].duty IN
  IF duty > period THEN <<W("duty", 0), W("period", period), W("duty", period)>>
  ELSE <<W("period", period), W("duty", duty)>>

Begins(h, op, todo) == call' = [call EXCEPT ![h] = [op |-> op, todo |-> todo]]
\* hw_pwm_init_device looks whether the channel is exported, exports it if
\* not and waits for it to appear.
InitDevice(h, c) ==
  /\ pwm[h] = Free /\ call[h] = Idle
  /\ ChannelsApart => \A g \in Handles : pwm[g].channel # c
  /\ \E period \in Periods, on \in BOOLEAN : \E duty \in 0 .. period :
       \/ /\ file[c].exported /\ pwm' = [pwm EXCEPT ![h] = [channel |-> c, ours |-> FALSE]]
          /\ file' = file /\ Begins(h, "init", Apply(period, duty, on))
       \/ /\ ~file[c].exported /\ pwm' = [pwm EXCEPT ![h] = [channel |-> c, ours |-> TRUE]]
          /\ file' = [file EXCEPT ![c] = [Absent EXCEPT !.exported = TRUE]]
          /\ Begins(h, "init", Apply(period, duty, on))
       \* it could not be exported, or no memory was left and it is given up again
       \/ UNCHANGED <<pwm, file, call>>
  /\ UNCHANGED refused
SetConfig(h) ==
  /\ pwm[h] # Free /\ call[h] = Idle
  /\ \E period \in Periods, on \in BOOLEAN : \E duty \in 0 .. period : Begins(h, "config", Apply(period, duty, on))
  /\ UNCHANGED <<file, pwm, refused>>
SetPeriod(h) ==
  /\ pwm[h] # Free /\ call[h] = Idle /\ file[pwm[h].channel].exported
  /\ \E period \in Periods : Begins(h, "period", NewPeriod(pwm[h].channel, period))
  /\ UNCHANGED <<file, pwm, refused>>
\* hw_pwm_set_duty_percent: a share of the period there is.
SetDuty(h) ==
  /\ pwm[h] # Free /\ call[h] = Idle /\ file[pwm[h].channel].exported
  /\ \E duty \in 0 .. file[pwm[h].channel].period : Begins(h, "duty", <<W("duty", duty)>>)
  /\ UNCHANGED <<file, pwm, refused>>
SetEnabled(h, on) ==
  /\ pwm[h] # Free /\ call[h] = Idle
  /\ Begins(h, "enable", <<W("enable", IF on THEN 1 ELSE 0)>>) /\ UNCHANGED <<file, pwm, refused>>
Deinit(h) ==
  /\ pwm[h] # Free /\ call[h] = Idle
  /\ Begins(h, "deinit", <<W("enable", 0)>>) /\ UNCHANGED <<file, pwm, refused>>

Unexported(h) ==
  IF pwm[h].ours THEN [file EXCEPT ![pwm[h].channel] = Absent] ELSE file
\* The next write.  A refusal ends the call, and one of an opening gives the
\* channel back; a closing goes on regardless.
Write(h) ==
  /\ call[h].todo # <<>>
  /\ LET c == pwm[h].channel  w == Head(call[h].todo) IN
     \/ /\ Allowed(c, w) /\ file' = Written(c, w)
        /\ call' = [call EXCEPT ![h].todo = Tail(@)] /\ UNCHANGED <<pwm, refused>>
     \/ /\ refused' = (refused \/ (~Allowed(c, w) /\ call[h].op # "enable"))
        /\ CASE call[h].op = "init" ->
                  file' = Unexported(h) /\ pwm' = [pwm EXCEPT ![h] = Free] /\ call' = [call EXCEPT ![h] = Idle]
             [] call[h].op = "deinit" ->
                  call' = [call EXCEPT ![h].todo = <<>>] /\ UNCHANGED <<file, pwm>>
             [] OTHER -> call' = [call EXCEPT ![h] = Idle] /\ UNCHANGED <<file, pwm>>
Returns(h) ==
  /\ call[h].op # "none" /\ call[h].todo = <<>> /\ call' = [call EXCEPT ![h] = Idle]
  /\ IF call[h].op = "deinit" THEN file' = Unexported(h) /\ pwm' = [pwm EXCEPT ![h] = Free]
     ELSE UNCHANGED <<file, pwm>>
  /\ UNCHANGED refused
\* Another process exports a channel, or gives one up.
Elsewhere(c) ==
  /\ ChannelsApart => \A h \in Handles : pwm[h].channel # c
  /\ file' = [file EXCEPT ![c] = IF @.exported THEN Absent ELSE [Absent EXCEPT !.exported = TRUE]]
  /\ UNCHANGED <<pwm, call, refused>>

Next ==
  \/ \E h \in Handles :
       \/ SetConfig(h) \/ SetPeriod(h) \/ SetDuty(h) \/ Deinit(h) \/ Write(h) \/ Returns(h)
       \/ \E c \in Channels : InitDevice(h, c)
       \/ \E on \in BOOLEAN : SetEnabled(h, on)
  \/ \E c \in Channels : Elsewhere(c)

Spec == Init /\ [][Next]_vars

------------------------------------------------------------------------------
(* No write is refused because of the order in which a call makes its writes, *)
(* whatever failed before; and a handle's channel stays exported as long as   *)
(* the handle lives, by the handle just when it found it not exported.        *)
LinuxPwmSound ==
  /\ ~refused
  /\ \A h \in Handles : pwm[h] # Free => file[pwm[h].channel].exported
=============================================================================
