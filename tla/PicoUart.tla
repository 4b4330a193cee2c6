------------------------------ MODULE PicoUart ------------------------------
(***************************************************************************)
(* The Pico's UART (hw/pico/uart.c): two rings of HW_UART_BUFFER_SIZE bytes *)
(* and a device in character mode, whose holding registers take one byte    *)
(* each.                                                                    *)
(*                                                                         *)
(* The device raises "received" when a byte fills its register and          *)
(* "transmitted" when the register empties; reading, writing and the clear  *)
(* register drop the two again.  The handler interrupts the foreground      *)
(* between two of its critical sections and never inside one: the owner    *)
(* runs on the core that takes the interrupt.                               *)
(***************************************************************************)
EXTENDS Integers, Sequences

CONSTANTS
  Threads,    \* that open, use and close the UART
  BufferSize, \* HW_UART_BUFFER_SIZE
  MaxBytes,   \* bound: bytes written, and bytes arriving, per opening
  ReadsInTime \* TRUE: the application reads before its ring is full

VARIABLES ctx,   \* _hw_uart_ctx_t
          dev,   \* the device's registers and its enabled interrupts
          call,  \* thread -> what its call does next
          count  \* bytes written, sent, arrived and read since it was opened

vars == <<ctx, dev, call, count>>

Range(m, n) == [k \in 1 .. n - m |-> m + k]   \* the bytes numbered m + 1 .. n
NoByte   == 0
FreeCtx  == [active |-> FALSE, owner |-> "none", ready |-> FALSE, unbuffered |-> FALSE, installed |-> FALSE,
             callback |-> FALSE, tx |-> <<>>, rx |-> <<>>, last |-> NoByte, pushback |-> NoByte]
OffDev   == [tx |-> NoByte, shift |-> NoByte, rx |-> NoByte, txRis |-> FALSE, rxRis |-> FALSE,
             txIm |-> FALSE, rxIm |-> FALSE]
NoBytes  == [wrote |-> 0, sent |-> 0, arrived |-> 0, read |-> 0]

Init == ctx = FreeCtx /\ dev = OffDev /\ call = [t \in Threads |-> "idle"] /\ count = NoBytes

------------------------------------------------------------------------------
(* Shared steps.                                                            *)

\* _hw_uart_tx_drain: the register takes the byte that is first in the ring,
\* and hands it to the shifter when that is idle.
Drain(c, d) ==
  IF c.tx = <<>> \/ d.tx # NoByte THEN [ctx |-> c, dev |-> d]
  ELSE [ctx |-> [c EXCEPT !.tx = Tail(@)], dev |-> [d EXCEPT !.tx = Head(c.tx), !.txRis = FALSE]]
\* A bug the checks must see: "transmitted" is enabled for the callback alone.
UpdateIrqsForCallback(c, d) ==
  LET rxOn == ~c.unbuffered \/ c.callback
  IN [ctx |-> [c EXCEPT !.installed = @ \/ rxOn], dev |-> [d EXCEPT !.rxIm = rxOn, !.txIm = c.callback]]
\* _hw_uart_update_irqs: the ring wants "transmitted" only while it holds
\* bytes, a callback wants both.
UpdateIrqs(c, d) ==
  LET rxOn == ~c.unbuffered \/ c.callback
      txOn == (~c.unbuffered /\ c.tx # <<>>) \/ c.callback
  IN [ctx |-> [c EXCEPT !.installed = @ \/ rxOn \/ txOn], dev |-> [d EXCEPT !.rxIm = rxOn, !.txIm = txOn]]

Owns(t) == ctx.ready /\ ctx.owner = t
Update(t) ==
  /\ call[t] \in {"update", "start"}
  /\ LET u == UpdateIrqs(ctx, dev) IN ctx' = [u.ctx EXCEPT !.ready = TRUE] /\ dev' = u.dev
  /\ call' = [call EXCEPT ![t] = "idle"]
  /\ UNCHANGED count

------------------------------------------------------------------------------
(* Opening and closing.                                                     *)

\* The instance has one owner: a second open is refused.
Claim(t) ==
  /\ call[t] = "idle"
  /\ IF ctx.active THEN UNCHANGED <<ctx, call>>
     ELSE ctx' = [ctx EXCEPT !.active = TRUE, !.owner = t] /\ call' = [call EXCEPT ![t] = "open"]
  /\ UNCHANGED <<dev, count>>
NoStream(t) ==
  /\ call[t] = "open"
  /\ ctx' = [ctx EXCEPT !.active = FALSE, !.owner = "none"]
  /\ call' = [call EXCEPT ![t] = "idle"]
  /\ UNCHANGED <<dev, count>>
Configure(t) ==
  /\ call[t] = "open"
  /\ \E unbuffered \in BOOLEAN :
       ctx' = [FreeCtx EXCEPT !.active = TRUE, !.owner = t, !.unbuffered = unbuffered]
  /\ dev' = OffDev /\ count' = NoBytes
  /\ call' = [call EXCEPT ![t] = "start"]
Close(t) ==
  /\ call[t] = "idle" /\ Owns(t)
  /\ ctx' = FreeCtx /\ dev' = OffDev /\ count' = NoBytes
  /\ UNCHANGED call

------------------------------------------------------------------------------
(* The stream's operations, each one section with interrupts off; unbuffered *)
(* ones go to the registers.                                                *)

Write(t) ==
  /\ call[t] = "idle" /\ Owns(t) /\ count.wrote < MaxBytes
  /\ LET b == count.wrote + 1 IN
     IF ctx.unbuffered
     THEN /\ dev.tx = NoByte
          /\ dev' = [dev EXCEPT !.tx = b, !.txRis = FALSE] /\ UNCHANGED <<ctx, call>>
     ELSE /\ Len(ctx.tx) < BufferSize
          /\ LET d == Drain([ctx EXCEPT !.tx = Append(@, b)], dev) IN ctx' = d.ctx /\ dev' = d.dev
          /\ call' = [call EXCEPT ![t] = "update"]
  /\ count' = [count EXCEPT !.wrote = @ + 1]
Pop(c) == IF c.pushback # NoByte THEN [byte |-> c.pushback, ctx |-> [c EXCEPT !.pushback = NoByte]]
          ELSE [byte |-> Head(c.rx), ctx |-> [c EXCEPT !.rx = Tail(@)]]
Read(t) ==
  /\ call[t] = "idle" /\ Owns(t)
  /\ \/ /\ ctx.pushback # NoByte \/ (~ctx.unbuffered /\ ctx.rx # <<>>)
        /\ LET p == Pop(ctx) IN ctx' = [p.ctx EXCEPT !.last = p.byte]
        /\ UNCHANGED dev
     \/ /\ ctx.unbuffered /\ ctx.pushback = NoByte /\ dev.rx # NoByte
        /\ ctx' = [ctx EXCEPT !.last = dev.rx]
        /\ dev' = [dev EXCEPT !.rx = NoByte, !.rxRis = FALSE]
  /\ count' = [count EXCEPT !.read = @ + 1]
  /\ UNCHANGED call
\* seek(-1), the undo of a peek: once per byte read.
SeekBack(t) ==
  /\ call[t] = "idle" /\ Owns(t) /\ ctx.last # NoByte
  /\ ctx' = [ctx EXCEPT !.pushback = ctx.last, !.last = NoByte]
  /\ count' = [count EXCEPT !.read = @ - 1]
  /\ UNCHANGED <<dev, call>>
SetCallback(t) ==
  /\ call[t] = "idle" /\ Owns(t)
  /\ \E c \in BOOLEAN : ctx' = [ctx EXCEPT !.callback = c]
  /\ call' = [call EXCEPT ![t] = "update"]
  /\ UNCHANGED <<dev, count>>
\* hw_uart_flush has seen the ring and the device empty.
TxIdle == ctx.tx = <<>> /\ dev.tx = NoByte /\ dev.shift = NoByte

------------------------------------------------------------------------------
(* The device, and the interrupt handler with the callback it ends in.      *)

Shift ==
  /\ dev.tx # NoByte /\ dev.shift = NoByte
  /\ dev' = [dev EXCEPT !.shift = dev.tx, !.tx = NoByte, !.txRis = TRUE]
  /\ UNCHANGED <<ctx, call, count>>
Sent ==
  /\ dev.shift # NoByte
  /\ dev' = [dev EXCEPT !.shift = NoByte]
  /\ count' = [count EXCEPT !.sent = @ + 1]
  /\ UNCHANGED <<ctx, call>>
\* A byte the register has no room for is overrun, and lost.
Arrives ==
  /\ ctx.ready /\ count.arrived < MaxBytes /\ dev.rx = NoByte
  /\ ReadsInTime => Len(ctx.rx) < BufferSize
  /\ dev' = [dev EXCEPT !.rx = count.arrived + 1, !.rxRis = TRUE]
  /\ count' = [count EXCEPT !.arrived = @ + 1]
  /\ UNCHANGED <<ctx, call>>
\* What is received goes to the ring as far as it has room, what is queued
\* goes out, and only then the interrupts seen on entry are cleared.
Handler ==
  /\ ctx.installed
  /\ LET rxMis == dev.rxRis /\ dev.rxIm
         txMis == dev.txRis /\ dev.txIm
         take  == rxMis /\ ~ctx.unbuffered /\ dev.rx # NoByte /\ Len(ctx.rx) < BufferSize
         c == IF take THEN [ctx EXCEPT !.rx = Append(@, dev.rx)] ELSE ctx
         d == [dev EXCEPT !.rx = IF take THEN NoByte ELSE @, !.rxRis = @ /\ ~rxMis]
         e == IF txMis /\ ~ctx.unbuffered THEN Drain(c, d) ELSE [ctx |-> c, dev |-> d]
         u == UpdateIrqs(e.ctx, [e.dev EXCEPT !.txRis = @ /\ ~txMis])
     IN (rxMis \/ txMis) /\ ctx' = u.ctx /\ dev' = u.dev
  /\ UNCHANGED <<call, count>>

Next ==
  \/ \E t \in Threads : \/ Claim(t) \/ NoStream(t) \/ Configure(t) \/ Close(t) \/ Update(t)
                        \/ Write(t) \/ Read(t) \/ SeekBack(t) \/ SetCallback(t)
  \/ Shift \/ Sent \/ Arrives \/ Handler

Spec == Init /\ [][Next]_vars

------------------------------------------------------------------------------
Byte(b) == IF b = NoByte THEN <<>> ELSE <<b>>
\* Every byte is in one place, in order.
BytesInOrder ==
  /\ Byte(dev.shift) \o Byte(dev.tx) \o ctx.tx = Range(count.sent, count.wrote)
  /\ Byte(ctx.pushback) \o ctx.rx \o Byte(dev.rx) = Range(count.read, count.arrived)
\* A byte in the ring has an interrupt coming that will send it, and a byte in
\* the register one that will take it (or, unbuffered, the reader will).
Settled == \A t \in Threads : call[t] = "idle"
NoneStranded ==
  ctx.ready /\ Settled =>
    /\ ctx.tx # <<>> => ctx.installed /\ dev.txIm /\ (dev.tx # NoByte \/ dev.txRis)
    /\ ~ctx.unbuffered /\ dev.rx # NoByte => ctx.installed /\ dev.rxIm /\ dev.rxRis
FlushMeansSent == TxIdle => count.sent = count.wrote

(* However reads, writes, seeks and changes of callback interleave with the *)
(* interrupt handler and the line, no byte is lost, doubled or overtaken,    *)
(* none waits for an interrupt that has been cleared or masked, and a flush  *)
(* that succeeds means that all was sent; one opener has the UART.           *)
UartSound ==
  /\ BytesInOrder /\ NoneStranded /\ FlushMeansSent
  /\ \A t \in Threads : call[t] # "idle" => ctx.active /\ ctx.owner = t
=============================================================================
