------------------------------ MODULE PicoAdc -------------------------------
(***************************************************************************)
(* The Pico's analogue converter and the DMA capture that drains its FIFO  *)
(* (hw/pico/adc.c, dma.c): one converter, several handles.                 *)
(*                                                                         *)
(* The DMA fills the partitions of a buffer in turn: a completed partition *)
(* starts the one staged before and raises an interrupt, whose handler     *)
(* reports the partition and stages the one after.  The handler interrupts *)
(* the foreground between any two of its steps.                            *)
(***************************************************************************)
EXTENDS Integers, FiniteSets

CONSTANTS
  Adcs,         \* handles: the channels of the converter
  Slots,        \* HW_DMA_FIFO_CAPACITY captures
  Partitions,   \* partitions of a capture, at least 2
  Starved,      \* TRUE: the DMA channels can run out
  ReadsApart,   \* TRUE: no handle is read while another one captures
  EndsApart,    \* TRUE: a callback does not end a capture the foreground is ending
  HandlerInTime \* TRUE: the handler runs before the next partition completes

VARIABLES adc,     \* handle -> initialised?, and its capture's slot or NoSlot
          claims,  \* _hw_adc_dma_active
          conv,    \* the converter: free-running, the channel selected, divider at its default
          pool,    \* slot -> capture, or FreeSlot
          fore,    \* the foreground call: what it does next, and on which handle
          reports  \* partitions reported out of order, or while being filled

vars == <<adc, claims, conv, pool, fore, reports>>

NoSlot   == 0
NoAdc    == "none"
FreeSlot == [adc |-> NoAdc, started |-> FALSE, filling |-> 0, staged |-> 0, armed |-> FALSE,
             pending |-> FALSE, next |-> 0]
Resting  == [op |-> "idle", adc |-> NoAdc, slot |-> NoSlot]

Init ==
  /\ adc = [a \in Adcs |-> [valid |-> FALSE, dma |-> NoSlot]]
  /\ claims = 0
  /\ conv = [running |-> FALSE, channel |-> NoAdc, full |-> TRUE]
  /\ pool = [s \in Slots |-> FreeSlot]
  /\ fore = Resting /\ reports = 0

Idle       == fore.op = "idle"
Used       == {s \in Slots : pool[s].adc # NoAdc}
Capturing  == {a \in Adcs : adc[a].dma # NoSlot}
Stopped(c) == [c EXCEPT !.running = FALSE, !.full = TRUE]   \* _hw_adc_dma_stop: then it gives up the claim

AdcInit(a) ==
  /\ Idle /\ ~adc[a].valid
  /\ adc' = [adc EXCEPT ![a].valid = TRUE]
  /\ UNCHANGED <<claims, conv, pool, fore, reports>>

------------------------------------------------------------------------------
(* hw_adc_read_dma.                                                         *)

\* The claim is taken before any register is written, and given back when the
\* rate cannot be had.
ReadDma(a) ==
  /\ Idle /\ adc[a].valid /\ adc[a].dma = NoSlot
  /\ \/ claims # 0 /\ UNCHANGED <<claims, conv, fore>>   \* taken: counted up and down again
     \/ claims = 0 /\ UNCHANGED <<claims, conv, fore>>   \* the rate is out of range
     \/ /\ claims = 0 /\ claims' = 1
        /\ conv' = [conv EXCEPT !.channel = a, !.full = FALSE]
        /\ fore' = [Resting EXCEPT !.op = "dmaInit", !.adc = a]
  /\ UNCHANGED <<adc, pool, reports>>

\* hw_dma_fifo_init: a slot and two channels, or nothing.
DmaInit ==
  /\ fore.op = "dmaInit"
  /\ \E got \in IF Used = Slots THEN {FALSE} ELSE IF Starved THEN BOOLEAN ELSE {TRUE} :
       IF got
       THEN \E s \in Slots \ Used :
              /\ \A t \in Slots \ Used : s <= t
              /\ pool' = [pool EXCEPT ![s] = [FreeSlot EXCEPT !.adc = fore.adc, !.staged = 1, !.armed = TRUE]]
              /\ adc' = [adc EXCEPT ![fore.adc].dma = s]
              /\ fore' = [fore EXCEPT !.op = "dmaStart"] /\ claims' = claims
       ELSE claims' = claims - 1 /\ fore' = Resting /\ UNCHANGED <<adc, pool>>
  /\ UNCHANGED <<conv, reports>>
DmaStart ==
  /\ fore.op = "dmaStart"
  /\ pool' = [pool EXCEPT ![adc[fore.adc].dma].started = TRUE]
  /\ conv' = [conv EXCEPT !.running = TRUE]
  /\ fore' = Resting
  /\ UNCHANGED <<adc, claims, reports>>

------------------------------------------------------------------------------
(* The hardware, and the interrupt handler.                                 *)

\* A partition is full: the control channel starts the staged one, if it was
\* set up again since it fired last; else nothing starts the data channel.
PartitionFull(s) ==
  /\ pool[s].started /\ conv.running
  /\ HandlerInTime => ~pool[s].pending
  /\ pool' = [pool EXCEPT ![s].filling = IF pool[s].armed THEN pool[s].staged ELSE @,
                          ![s].started = pool[s].armed, ![s].armed = FALSE, ![s].pending = TRUE]
  /\ UNCHANGED <<adc, claims, conv, fore, reports>>

\* A bug the checks must see: it stages the one being filled.
NextStagedAgain(filled) == (filled + 1) % Partitions
\* The handler sets up the partition after the one now being filled.
NextStaged(filled) == (filled + 2) % Partitions
Handler(s) ==
  /\ pool[s].pending
  /\ LET filled == pool[s].next
         a == pool[s].adc
     IN \/ /\ pool' = [pool EXCEPT ![s].pending = FALSE, ![s].next = (filled + 1) % Partitions,
                                   ![s].staged = NextStaged(filled), ![s].armed = TRUE]
           /\ UNCHANGED <<adc, claims, conv>>
        \* The callback returned false.
        \/ /\ EndsApart => fore.op \notin {"end", "endStop"}
           /\ pool' = [pool EXCEPT ![s] = FreeSlot]
           /\ adc' = [adc EXCEPT ![a].dma = NoSlot]
           /\ conv' = Stopped(conv) /\ claims' = claims - 1
  /\ reports' = reports + (IF pool[s].filling = pool[s].next THEN 1 ELSE 0)
  /\ UNCHANGED fore

------------------------------------------------------------------------------
(* Reads and deinit: each ends the handle's own capture first.              *)

Read(a) ==
  /\ Idle /\ adc[a].valid
  /\ ReadsApart => Capturing \subseteq {a}
  /\ fore' = [op |-> IF adc[a].dma # NoSlot THEN "end" ELSE "select", adc |-> a, slot |-> NoSlot]
  /\ UNCHANGED <<adc, claims, conv, pool, reports>>
Deinit(a) ==
  /\ Idle /\ adc[a].valid
  /\ IF adc[a].dma # NoSlot THEN fore' = [op |-> "end", adc |-> a, slot |-> a] /\ adc' = adc
     ELSE fore' = fore /\ adc' = [adc EXCEPT ![a].valid = FALSE]
  /\ UNCHANGED <<claims, conv, pool, reports>>
\* hw_dma_fifo_deinit with interrupts off; a capture that is gone is no
\* capture to it.
End ==
  /\ fore.op = "end"
  /\ LET s == adc[fore.adc].dma IN
     pool' = IF s = NoSlot THEN pool ELSE [pool EXCEPT ![s] = FreeSlot]
  /\ adc' = [adc EXCEPT ![fore.adc].dma = NoSlot]
  /\ fore' = [fore EXCEPT !.op = "endStop"]
  /\ UNCHANGED <<claims, conv, reports>>
EndStop ==
  /\ fore.op = "endStop"
  /\ conv' = Stopped(conv) /\ claims' = claims - 1
  /\ IF fore.slot = fore.adc
     THEN adc' = [adc EXCEPT ![fore.adc].valid = FALSE] /\ fore' = Resting
     ELSE adc' = adc /\ fore' = [fore EXCEPT !.op = "select"]
  /\ UNCHANGED <<pool, reports>>
\* _hw_adc_read_raw: selects its channel, samples, and stops the converter.
Select ==
  /\ fore.op = "select"
  /\ conv' = [conv EXCEPT !.channel = fore.adc, !.running = FALSE]
  /\ fore' = Resting
  /\ UNCHANGED <<adc, claims, pool, reports>>

Next ==
  \/ \E a \in Adcs : AdcInit(a) \/ ReadDma(a) \/ Read(a) \/ Deinit(a)
  \/ DmaInit \/ DmaStart \/ End \/ EndStop \/ Select
  \/ \E s \in Slots : PartitionFull(s) \/ Handler(s)

Spec == Init /\ [][Next]_vars

------------------------------------------------------------------------------
\* The claim is held by the one capture there is, and by the calls that are
\* starting or ending one.
ClaimExact ==
  claims = Cardinality(Capturing) + (IF fore.op \in {"dmaInit", "endStop"} THEN 1 ELSE 0)
\* A handle and its slot point at each other.
SlotsOwned == \A s \in Slots : pool[s].adc # NoAdc <=> \E a \in Adcs : adc[a].dma = s /\ pool[s].adc = a
\* A capture runs on its own channel until it is ended, and the converter is
\* at rest when there is none.
CaptureRuns ==
  Idle => \/ Capturing = {} /\ ~conv.running
          \/ conv.running /\ conv.channel \in Capturing /\ pool[adc[conv.channel].dma].started
\* A capture that has ended leaves the divider as single reads expect it.
DividerRestored == Idle /\ Capturing = {} => conv.full

(* However captures, reads, releases and the handler interleave, the shared *)
(* converter has at most one user, its claim and DMA slots are given back,  *)
(* and each partition is reported once, in order, when it is complete and   *)
(* is not being refilled.                                                   *)
CaptureSound == ClaimExact /\ SlotsOwned /\ CaptureRuns /\ DividerRestored /\ reports = 0
=============================================================================
