-------------------------------- MODULE Ntp --------------------------------
(***************************************************************************)
(* The NTP client (src/picofuse/net/ntp) and the HID device that polls it. *)
(* Worker 0 polls the device (app.c); another worker's handler sets up and *)
(* takes down the client and the registration, at any time.  Nothing locks *)
(* the globals the two share, and the compiler may order stores that have  *)
(* no call between them as it likes.                                       *)
(*                                                                         *)
(* The device is always due for hid_poll(): the callback itself decides.   *)
(* Time is counted in ticks of NET_NTP_HID_RETRY_INTERVAL_MS.  The stream  *)
(* of a reading is its own, and closed before it ends: a late answer has   *)
(* nobody left to reach.                                                   *)
(***************************************************************************)
EXTENDS Integers

CONSTANTS
  Intervals,  \* the polling intervals an application asks for, in ticks
  Seconds,    \* bound: the server's seconds are 1 .. Seconds
  Longest     \* bound: the ticks counted of one reading

VARIABLES
  active,     \* _net_ntp_singleton.active
  client,     \* _net_ntp_hid_ntp is set
  device,     \* the device is in the pool of the hid instance
  interval,   \* _net_ntp_hid_interval_ms
  wait,       \* ticks until _net_ntp_hid_next_attempt_ms
  last,       \* _net_ntp_hid_last_seconds
  call,       \* the call the application is in: "none", or its next step
  filling,    \* the globals net_ntp_register_hid has still to store
  reading,    \* the poll of worker 0
  since,      \* ticks since its callback took the time
  date,       \* the second its answer gave
  second,     \* the server's
  own,        \* ghost: the reading began after the registration it ends in
  told,       \* ghost: the device's queue was offered a time
  overlapped  \* ghost: a reading the registration overlapped ended in it
vars == <<active, client, device, interval, wait, last, call, filling,
          reading, since, date, second, own, told, overlapped>>

registration == <<client, device, interval, wait, last, own, told, overlapped>>
poll == <<reading, since, date>>

Init ==
  /\ active = FALSE /\ client = FALSE /\ device = FALSE
  /\ interval = 0 /\ wait = 0 /\ last = 0
  /\ call = "none" /\ filling = {}
  /\ reading = "none" /\ since = 0 /\ date = 0 /\ second = 1
  /\ own = FALSE /\ told = FALSE /\ overlapped = FALSE

-----------------------------------------------------------------------------
(* The application.                                                         *)

\* net_ntp_init and net_ntp_deinit: a second server is refused, and nobody
\* asks whether a reading is under way.
NtpInit ==
  /\ call = "none" /\ ~active /\ active' = TRUE
  /\ UNCHANGED <<registration, call, filling, poll, second>>
NtpDeinit ==
  /\ call = "none" /\ active /\ active' = FALSE
  /\ UNCHANGED <<registration, call, filling, poll, second>>

\* net_ntp_register_hid: refused while a client is set.
Register ==
  /\ call = "none" /\ ~client /\ call' = "register"
  /\ UNCHANGED <<active, registration, filling, poll, second>>
\* hid_register has no slot left, or has the device from here on: a poll may
\* come before the globals are stored.
Refused ==
  /\ call = "register" /\ call' = "none"
  /\ UNCHANGED <<active, registration, filling, poll, second>>
Registered ==
  /\ call = "register" /\ call' = "fill" /\ device' = TRUE
  /\ filling' = {"client", "last", "interval", "due"}
  /\ told' = FALSE /\ overlapped' = FALSE
  /\ UNCHANGED <<active, client, interval, wait, last, own, poll, second>>

Filled(field) ==
  /\ call = "fill" /\ field \in filling /\ filling' = filling \ {field}
  /\ call' = IF filling = {field} THEN "none" ELSE call
  /\ UNCHANGED <<active, device, own, told, overlapped, poll, second>>

\* A bug the checks must see: the second of an earlier registration is kept.
FillKeepsLast(field) ==
  /\ Filled(field)
  /\ client' = (client \/ field = "client")
  /\ last' = last
  /\ interval' \in IF field = "interval" THEN Intervals ELSE {interval}
  /\ wait' = IF field = "due" THEN 0 ELSE wait

Fill(field) ==
  /\ Filled(field)
  /\ client' = (client \/ field = "client")
  /\ last' = IF field = "last" THEN 0 ELSE last
  /\ interval' \in IF field = "interval" THEN Intervals ELSE {interval}
  /\ wait' = IF field = "due" THEN 0 ELSE wait

\* hid_deregister: _net_ntp_hid_deinit lets the client go, then the slot of
\* the device is given back; neither looks for a reading.
Deregister ==
  /\ call = "none" /\ device /\ call' = "release" /\ client' = FALSE
  /\ UNCHANGED <<active, device, interval, wait, last, own, told, overlapped, filling, poll, second>>
Released ==
  /\ call = "release" /\ call' = "none" /\ device' = FALSE /\ own' = FALSE
  /\ UNCHANGED <<active, client, interval, wait, last, told, overlapped, filling, poll, second>>

-----------------------------------------------------------------------------
(* Worker 0.                                                                *)

\* hid_poll takes the callback of the device's slot and runs it afterwards.
Poll ==
  /\ reading = "none" /\ device /\ reading' = "called"
  /\ own' = (call = "none")
  /\ UNCHANGED <<active, client, device, interval, wait, last, told, overlapped,
                 call, filling, since, date, second>>

\* _net_ntp_hid_read, when it is not due.
NotDue ==
  /\ reading = "called" /\ wait > 0 /\ reading' = "none" /\ own' = FALSE
  /\ UNCHANGED <<active, client, device, interval, wait, last, told, overlapped,
                 call, filling, since, date, second>>
\* net_ntp_read asks the server over a stream of its own, if it has a client.
Ask ==
  /\ reading = "called" /\ wait = 0 /\ since' = 0
  /\ reading' = IF client /\ active THEN "asked" ELSE "refused"
  /\ UNCHANGED <<active, registration, call, filling, date, second>>

\* What is left of an interval that began with the callback.
Left(n) == IF since < n THEN n - since ELSE 0
\* A reading stores its result, into whichever registration there is.
Ends == /\ overlapped' = (overlapped \/ (device /\ ~own))
        /\ UNCHANGED <<active, client, device, interval, call, filling, since, second>>

\* A bug the checks must see: one interval for both, as before the split.
FailWaitsLong ==
  /\ reading \in {"asked", "refused"} /\ reading' = "none"
  /\ wait' = Left(interval)
  /\ own' = FALSE /\ Ends /\ UNCHANGED <<last, told, date>>

\* No client, no stream, a short write, no answer in time or one from before 1970.
Fail ==
  /\ reading \in {"asked", "refused"} /\ reading' = "none"
  /\ wait' = Left(1)
  /\ own' = FALSE /\ Ends /\ UNCHANGED <<last, told, date>>

\* A reply of 48 bytes: the next attempt is stored first.
Answer ==
  /\ reading = "asked" /\ reading' = "answered"
  /\ wait' = Left(interval) /\ date' = second
  /\ Ends /\ UNCHANGED <<last, own, told>>
\* The event, unless the second is the one told last: it may find no room in
\* the queue, and is not told again.
Tell ==
  /\ reading = "answered" /\ reading' = "none"
  /\ last' = date /\ told' = (told \/ (own /\ date # last))
  /\ own' = FALSE /\ Ends /\ UNCHANGED <<wait, date>>

\* Time passes, here and at the server, whatever is under way.
Tick ==
  /\ wait' = IF wait > 0 THEN wait - 1 ELSE 0
  /\ since' = IF since < Longest THEN since + 1 ELSE since
  /\ second' \in {second, second + 1} \cap (1 .. Seconds)
  /\ UNCHANGED <<active, client, device, interval, last, call, filling, reading,
                 date, own, told, overlapped>>

Application == \/ NtpInit \/ NtpDeinit \/ Register \/ Refused \/ Registered
               \/ (\E field \in filling : Fill(field)) \/ Deregister \/ Released
Worker0 == Poll \/ NotDue \/ Ask \/ Fail \/ Answer \/ Tell
Next == Application \/ Worker0 \/ Tick
Spec == Init /\ [][Next]_vars

-----------------------------------------------------------------------------
(* Between the application's calls a client is set exactly while its device *)
(* is in the pool, so that a registration is refused only while there is    *)
(* one, and no device is left that can only fail; and within them a client  *)
(* has a device (net_ntp_register_hid, hid_deregister).                     *)
Agreed == (client => device) /\ (call = "none" => client = device)

(* A registered device that has not been told the time tries again within a *)
(* retry interval, and one that has within the interval asked for, however  *)
(* long its readings took, whatever failed and whatever an earlier          *)
(* registration left behind (the comment on _net_ntp_hid_read): a first     *)
(* failure does not cost an hour.  Only a reading that was under way while  *)
(* the device was being registered can put it off.                          *)
Punctual ==
  (device /\ call = "none" /\ ~overlapped /\ reading # "answered") =>
    wait <= IF told /\ interval > 1 THEN interval ELSE 1

NtpSound == Agreed /\ Punctual

-----------------------------------------------------------------------------
(* What keeps the two so.                                                   *)

NtpTypes ==
  /\ {active, client, device, own, told, overlapped} \subseteq BOOLEAN
  /\ {interval, wait, last, since, date} \subseteq Nat /\ second \in Nat \ {0}
  /\ call \in {"none", "register", "fill", "release"}
  /\ reading \in {"none", "called", "asked", "refused", "answered"}
  /\ filling \subseteq {"client", "last", "interval", "due"}

\* How far the application's call has come.
CallKnows ==
  /\ client => device
  /\ call = "none" => client = device
  /\ call = "register" => ~device
  /\ call = "fill" => device /\ filling # {} /\ (client \/ "client" \in filling)
  /\ call # "fill" => filling = {}
  /\ call = "release" => device /\ ~client

\* A reading of this registration's own, and what its answer says.
ReadingKnows ==
  /\ own => reading # "none" /\ device /\ call \in {"none", "release"}
  /\ reading = "answered" => date > 0

\* What no overlapped reading has touched.
Undisturbed == (device /\ ~overlapped) =>
  /\ told => call # "fill"
  /\ ("last" \notin filling /\ ~told) => last = 0
  /\ "due" \notin filling =>
       wait <= IF (told \/ (own /\ reading = "answered")) /\ interval > 1 THEN interval ELSE 1

NtpInv == NtpTypes /\ CallKnows /\ ReadingKnows /\ Undisturbed
=============================================================================
