--------------------------- MODULE LinuxWatchdog ----------------------------
(***************************************************************************)
(* The watchdog on Linux (hw/linux/watchdog.c): a singleton over a device   *)
(* file.  Opening the file starts the countdown, WDIOC_KEEPALIVE and        *)
(* WDIOC_SETTIMEOUT reload it, and only WDIOS_DISABLECARD or the character  *)
(* V before the close stop it: that much is taken of the kernel.            *)
(***************************************************************************)
EXTENDS Integers

CONSTANTS
  Devices,     \* device paths; each names a watchdog
  MaxTimeout,  \* the timeout sysfs reports
  PollGap,     \* the application calls hw_poll at least this often
  Horizon      \* bound: how far time runs

VARIABLES wd,     \* the singleton
          dog,    \* device -> the countdown
          held,   \* devices another process has open
          since,  \* ticks since hw_poll
          now, rebooted,
          refused \* WDIOC_SETTIMEOUT has failed on the open file, and not been made good since

vars == <<wd, dog, held, since, now, rebooted, refused>>

NoDevice == "none"
Cleared  == [device |-> NoDevice, timeout |-> 0, resetAfter |-> 0, fd |-> FALSE, init |-> FALSE, disable |-> FALSE,
             armed |-> FALSE]
Off      == [on |-> FALSE, timeout |-> MaxTimeout, left |-> 0]
Init ==
  /\ wd = Cleared /\ dog = [d \in Devices |-> Off] /\ held \in SUBSET Devices
  /\ since = 0 /\ now = 1 /\ rebooted = FALSE /\ refused = FALSE

\* A bug the checks must see: it only closes the file.
ClosedRunning == dog
\* _hw_watchdog_close_fd disables the card first.
Closed == IF wd.fd THEN [dog EXCEPT ![wd.device] = Off] ELSE dog
Loaded(d, timeout) == [dog EXCEPT ![d] = [on |-> TRUE, timeout |-> timeout, left |-> timeout]]
\* _hw_watchdog_open, which starts the countdown when the file was closed.
CanOpen == wd.fd \/ wd.device \notin held
Opened  == IF wd.fd THEN dog ELSE Loaded(wd.device, dog[wd.device].timeout)

InitDevice(d) ==
  /\ dog' = Closed
  /\ wd' \in {[Cleared EXCEPT !.device = d, !.timeout = MaxTimeout, !.disable = TRUE, !.init = TRUE],
              \* no such device: the singleton stays as deinit left it
              Cleared}
  /\ refused' = FALSE
  /\ UNCHANGED <<held, since, now, rebooted>>
Deinit ==
  /\ wd.init /\ dog' = Closed /\ wd' = Cleared /\ refused' = FALSE
  /\ UNCHANGED <<held, since, now, rebooted>>

\* Opens the file, sets the timeout and feeds: only then is it feeding.
Enable ==
  /\ wd.init
  /\ \/ ~CanOpen /\ UNCHANGED <<wd, dog, refused>>
     \/ /\ CanOpen /\ dog' = Loaded(wd.device, wd.timeout) /\ refused' = FALSE
        /\ wd' = [wd EXCEPT !.fd = TRUE, !.armed = FALSE, !.resetAfter = 0, !.disable = FALSE]
     \/ /\ CanOpen /\ dog' = Opened /\ wd' = [wd EXCEPT !.fd = TRUE] /\ refused' = TRUE
  /\ UNCHANGED <<held, since, now, rebooted>>
Disable ==
  /\ wd.init /\ dog' = Closed
  /\ wd' = [wd EXCEPT !.disable = TRUE, !.armed = FALSE, !.resetAfter = 0, !.fd = FALSE]
  /\ refused' = FALSE
  /\ UNCHANGED <<held, since, now, rebooted>>
Reset(delay) ==
  /\ wd.init /\ delay # 0
  /\ LET after == IF delay > wd.timeout THEN wd.timeout ELSE delay IN
     \/ ~CanOpen /\ wd' = [wd EXCEPT !.resetAfter = after] /\ UNCHANGED <<dog, refused>>
     \/ /\ CanOpen /\ dog' = Loaded(wd.device, after) /\ refused' = FALSE
        /\ wd' = [wd EXCEPT !.fd = TRUE, !.resetAfter = after, !.disable = TRUE, !.armed = TRUE]
     \/ /\ CanOpen /\ dog' = Opened /\ refused' = TRUE
        /\ wd' = [wd EXCEPT !.fd = TRUE, !.resetAfter = after]
  /\ UNCHANGED <<held, since, now, rebooted>>
Poll ==
  /\ since' = 0
  /\ IF wd.init /\ ~wd.disable /\ ~wd.armed /\ CanOpen
     THEN dog' = Loaded(wd.device, Opened[wd.device].timeout) /\ wd' = [wd EXCEPT !.fd = TRUE]
     ELSE UNCHANGED <<wd, dog>>
  /\ UNCHANGED <<held, now, rebooted, refused>>
Tick ==
  /\ now < Horizon /\ since < PollGap
  /\ now' = now + 1 /\ since' = since + 1
  /\ dog' = [d \in Devices |-> IF dog[d].on THEN [dog[d] EXCEPT !.left = @ - 1] ELSE dog[d]]
  /\ rebooted' = (\E d \in Devices : dog[d].on /\ dog[d].left = 1)
  /\ UNCHANGED <<wd, held, refused>>
\* Another process takes or leaves a device this one does not hold.
Elsewhere(d) ==
  /\ ~(wd.fd /\ wd.device = d)
  /\ held' = IF d \in held THEN held \ {d} ELSE held \cup {d}
  /\ UNCHANGED <<wd, dog, since, now, rebooted, refused>>

Next ==
  /\ ~rebooted
  /\ \/ \E d \in Devices : InitDevice(d) \/ Elsewhere(d)
     \/ Deinit \/ Enable \/ Disable \/ Poll \/ Tick
     \/ \E delay \in 1 .. MaxTimeout + 1 : Reset(delay)

Spec == Init /\ [][Next]_vars

------------------------------------------------------------------------------
Feeding == wd.init /\ ~wd.disable /\ ~wd.armed
(* A countdown runs only on the device of the singleton and only while it is  *)
(* fed by polling or a reset is pending, so that the machine is reset only by *)
(* a reset that was asked for and not called off, however devices change and  *)
(* other processes hold them.  (A refused timeout leaves the file open, with  *)
(* nothing to feed it until the next operation.)                              *)
LinuxWatchdogSound == refused \/
  /\ rebooted => wd.armed
  /\ \A d \in Devices : dog[d].on <=> wd.fd /\ wd.device = d /\ (Feeding \/ wd.armed)
  /\ wd.armed => wd.fd /\ wd.disable /\ dog[wd.device].timeout = wd.resetAfter
=============================================================================
