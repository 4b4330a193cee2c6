--------------------------------- MODULE Stmpe610 ---------------------------------
(***************************************************************************)
(* The STMPE610 resistive touch controller of src/picofuse/dev/stmpe610:   *)
(* a FIFO of four-byte samples read a byte at a time, a level-triggered    *)
(* interrupt line the driver clears once the FIFO is drained, and a poll   *)
(* that tells one sample, or the release.  The controller goes on sampling *)
(* between any two transfers of a poll.                                    *)
(***************************************************************************)
EXTENDS Integers, Sequences

CONSTANTS
    HasPin,     \* the values int_pin takes: configured or not
    Depth,      \* bytes of the FIFO that are modelled
    Bytes,      \* STMPE610_TSC_DATA_LEN
    Whole       \* TRUE: a sample whose first byte was read is read to its end

VARIABLES
    open,       \* the driver: "none", "open", "hid" (registered with HID)
    pin,        \* int_pin is configured
    touching,   \* the stylus is down
    fifo,       \* byte numbers, 1 to Bytes for each sample
    irq,        \* INT_STA holds the line
    pc,         \* of dev_stmpe610_poll
    data,       \* what the poll has read of a sample
    hadTouch,
    told        \* the last event: "on", "repeat", "off"; or "torn"

vars == <<open, pin, touching, fifo, irq, pc, data, hadTouch, told>>
chip == <<touching, fifo, irq>>

Init ==
    /\ open = "none" /\ pin \in HasPin
    /\ touching = FALSE /\ fifo = <<>> /\ irq = FALSE
    /\ pc = "idle" /\ data = <<>>
    /\ hadTouch = FALSE
    /\ told = "off"

----------------------------------------------------------------------------
\* dev_stmpe610_init resets the controller, finds its chip ID and sets it
\* up; if any of it fails there is no driver.  The set-up ends by clearing
\* what is pending, so the stylus is taken to be up meanwhile.
Open ==
    /\ open = "none" /\ ~touching
    /\ \/ open' = "open" /\ fifo' = <<>> /\ irq' = FALSE
       \/ UNCHANGED <<open, fifo, irq>>
    /\ hadTouch' = FALSE /\ told' = "off"
    /\ UNCHANGED <<pin, touching, pc, data>>

\* dev_stmpe610_register_hid and the device's deinit: the HID instance calls
\* neither beside a poll of its own.
Register == open = "open" /\ open' = "hid" /\ UNCHANGED <<pin, chip, pc, data, hadTouch, told>>

Deregister ==
    /\ open = "hid" /\ pc = "idle" /\ open' = "open"
    /\ UNCHANGED <<pin, chip, pc, data, hadTouch, told>>

\* dev_stmpe610_deinit only frees the driver.
Close ==
    /\ open = "open" /\ open' = "none"
    /\ UNCHANGED <<pin, chip, pc, data, hadTouch, told>>

\* The stylus, and the samples the controller takes while it is down.
Touch ==
    /\ open # "none" \/ touching
    /\ touching' = ~touching /\ irq' = TRUE
    /\ UNCHANGED <<open, pin, fifo, pc, data, hadTouch, told>>

Sample ==
    /\ open # "none" /\ touching /\ Len(fifo) + Bytes <= Depth
    /\ fifo' = fifo \o [b \in 1 .. Bytes |-> b]
    /\ UNCHANGED <<open, pin, touching, irq, pc, data, hadTouch, told>>

----------------------------------------------------------------------------
Goto(place) == pc' = place

\* A bug the checks must see: a quiet line is believed during contact too.
SkipsAlways == pin /\ ~irq
\* Without contact and with a quiet line there is nothing to ask.
Skips == pin /\ ~irq /\ ~hadTouch


BeginPoll ==
    /\ open = "hid" /\ pc = "idle" /\ ~Skips
    /\ Goto("status") /\ data' = <<>>
    /\ UNCHANGED <<open, pin, chip, hadTouch, told>>

\* A transfer fails: the poll ends here.
Fails ==
    /\ pc \in {"status", "ctrl", "data"}
    /\ Whole => data = <<>>
    /\ Goto("idle")
    /\ UNCHANGED <<open, pin, chip, data, hadTouch, told>>

ReadStatus ==
    /\ pc = "status" /\ Goto(IF fifo = <<>> THEN "ctrl" ELSE "data")
    /\ UNCHANGED <<open, pin, chip, data, hadTouch, told>>

ReadByte ==
    /\ pc = "data"
    /\ fifo' = IF fifo = <<>> THEN fifo ELSE Tail(fifo)
    /\ data' = Append(data, IF fifo = <<>> THEN 0 ELSE Head(fifo))
    /\ Goto(IF Len(data) + 1 = Bytes THEN "drained" ELSE "data")
    /\ UNCHANGED <<open, pin, touching, irq, hadTouch, told>>

\* The line is let go only once the FIFO is seen empty, if that read works.
Drained ==
    /\ pc = "drained"
    /\ Goto(IF fifo = <<>> THEN "clear" ELSE "tell")
    /\ UNCHANGED <<open, pin, chip, data, hadTouch, told>>

ClearIrq ==
    /\ pc = "clear" /\ Goto("tell")
    /\ irq' \in {FALSE, irq}
    /\ UNCHANGED <<open, pin, touching, fifo, data, hadTouch, told>>

Tell ==
    /\ pc = "tell" /\ Goto("idle")
    /\ told' = IF data # [b \in 1 .. Bytes |-> b] THEN "torn"
               ELSE IF hadTouch THEN "repeat" ELSE "on"
    /\ hadTouch' = TRUE
    /\ data' = <<>>
    /\ UNCHANGED <<open, pin, chip>>

\* With nothing in the FIFO, the release is told once.
ReadCtrl ==
    /\ pc = "ctrl" /\ Goto("idle")
    /\ IF hadTouch /\ ~touching
       THEN hadTouch' = FALSE /\ told' = "off"
       ELSE UNCHANGED <<hadTouch, told>>
    /\ UNCHANGED <<open, pin, chip, data>>

Poll == BeginPoll \/ ReadStatus \/ ReadByte \/ Drained \/ ClearIrq \/ Tell \/ ReadCtrl

Next == Open \/ Register \/ Deregister \/ Close \/ Touch \/ Sample \/ Fails \/ Poll

Spec == Init /\ [][Next]_vars

----------------------------------------------------------------------------
\* An event is made of one whole sample; contact is on record exactly from
\* the first event to the release; and no touch waits behind a quiet line.
StylusSound ==
    /\ told # "torn"
    /\ hadTouch <=> told # "off"
    /\ open = "hid" /\ pc = "idle" /\ Skips => ~touching /\ fifo = <<>>
=============================================================================
