------------------------------- MODULE Blocks -------------------------------
(***************************************************************************)
(* Block devices over the on-chip flash: the pool of handles                *)
(* (hw/block/block.c), the regions reserved behind the program's image and  *)
(* what is erased and written there (hw/pico/flash.c).  Addresses are in    *)
(* half sectors, so that sizes that are no whole number of sectors occur.   *)
(* FlashPause has the handshake an erase or a write makes with core 1; here *)
(* it succeeds or fails.                                                    *)
(***************************************************************************)
EXTENDS Integers, FiniteSetsExt

CONSTANTS
  Slots,      \* handles and reservations, BLOCK_MAX_CAPACITY
  Flash,      \* PICO_FLASH_SIZE_BYTES
  Image,      \* where the program's image ends
  Cores,      \* callers: {0} or {0, 1}
  EndsAlone   \* a block is released while no other call uses it

VARIABLES
  pool,         \* handles: the state in the context, or Free
  reservations, \* _hw_flash_reservations: by handle, where and how much
  written,      \* history: the sectors each handle wrote
  spoilt,       \* history: the sectors of the image, or of another's data, that were erased or written
  calls         \* a call in progress on each core

vars == <<pool, reservations, written, spoilt, calls>>

Sector == 2
Free == [callbacks |-> FALSE, userdata |-> FALSE, offset |-> 0, size |-> 0]
NoReservation == [block |-> 0, offset |-> 0, size |-> 0]
NoCall == [op |-> "none", block |-> 0]
Index == 1 .. Slots
Sectors == 0 .. Flash \div Sector - 1

Init ==
  /\ pool = [s \in Index |-> Free]
  /\ reservations = [i \in Index |-> NoReservation]
  /\ written = [s \in Index |-> {}] /\ spoilt = {} /\ calls = [c \in Cores |-> NoCall]

------------------------------------------------------------------------------
\* Where free flash begins: the first sector behind the image.
FreeStart == ((Image + Sector - 1) \div Sector) * Sector
Taken == {reservations[i] : i \in {i \in Index : reservations[i].block # 0}}
End(r) == r.offset + r.size

\* The longest gap: below each reservation and below the end of flash, down to
\* the reservation before.
Gap(upper) == upper - Max({FreeStart} \cup {End(r) : r \in {r \in Taken : End(r) <= upper}})
MaxFree == Max({Gap(r.offset) : r \in Taken} \cup {Gap(Flash)})
Capacity == IF FreeStart >= Flash THEN 0 ELSE MaxFree - (MaxFree % Sector)

\* The highest place for a region: below the lowest of what is in the way at
\* each end tried, starting at the end of flash.
None == Flash
\* A bug the checks must see: a reservation that begins below the region is missed.
HitInside(start, end) == {r \in Taken : start <= r.offset /\ r.offset < end}
Hit(start, end) == {r \in Taken : start < End(r) /\ r.offset < end}
Region(size) ==
  LET find[end \in 0 .. Flash] ==
        IF end < FreeStart \/ size > end - FreeStart THEN None
        ELSE IF Hit(end - size, end) = {} THEN end - size
        ELSE find[Max({r.offset : r \in Hit(end - size, end)})] IN
  IF FreeStart >= Flash THEN None ELSE find[Flash]

Usage == LET reserved == MapThenSumSet(LAMBDA i : reservations[i].size, Index) IN
  [used |-> Image, reserved |-> reserved,
   free |-> IF FreeStart <= Flash /\ reserved <= Flash - FreeStart THEN Flash - FreeStart - reserved ELSE 0]

------------------------------------------------------------------------------
\* Whole sectors; under the flash lock a region, a reservation and a handle,
\* or nothing.
Idle(c) == calls[c] = NoCall
FirstFree(full) == Min({j \in Index : ~full[j]} \cup {Slots + 1})
FlashInit(c, bytes) ==
  LET size == bytes - (bytes % Sector)  offset == Region(size)
      i == FirstFree([j \in Index |-> reservations[j].block # 0])
      slot == FirstFree([j \in Index |-> pool[j].callbacks]) IN
  /\ Idle(c) /\ size > 0 /\ offset # None /\ i \in Index /\ slot \in Index
  /\ pool' = [pool EXCEPT ![slot] = [callbacks |-> TRUE, userdata |-> TRUE, offset |-> offset, size |-> size]]
  /\ reservations' = [reservations EXCEPT ![i] = [block |-> slot, offset |-> offset, size |-> size]]
  /\ UNCHANGED <<written, spoilt, calls>>

\* A call first looks whether the handle is allocated, without a lock.
InUse(slot) == \E c \in Cores : calls[c].block = slot
Ending(slot) == \E c \in Cores : calls[c] \in {[op |-> "end", block |-> slot], [op |-> "free", block |-> slot]}
Begin(c, slot, op) ==
  /\ Idle(c) /\ pool[slot].callbacks
  /\ EndsAlone => (IF op = "end" THEN ~InUse(slot) ELSE ~Ending(slot))
  /\ calls' = [calls EXCEPT ![c] = [op |-> op, block |-> slot]]
  /\ UNCHANGED <<pool, reservations, written, spoilt>>
Done(c) == calls' = [calls EXCEPT ![c] = NoCall]
IndexValid(slot, index) == pool[slot].userdata /\ pool[slot].size > 0 /\ index < pool[slot].size \div Sector
At(slot, index) == pool[slot].offset \div Sector + index

Read(c) ==
  /\ calls[c].op = "read" /\ Done(c)
  /\ UNCHANGED <<pool, reservations, written, spoilt>>
\* Core 1 may not erase or write, and core 0 may not without the pause.
Fails(c) ==
  /\ calls[c].op \in {"erase", "write"} /\ Done(c)
  /\ UNCHANGED <<pool, reservations, written, spoilt>>
\* An erase or a write of a sector; a write expects it erased.
Foreign(slot, s) == s * Sector < Image \/ \E other \in Index \ {slot} : s \in written[other]
Change(c, index) ==
  LET slot == calls[c].block IN
  /\ c = 0 /\ IndexValid(slot, index) /\ Done(c)
  /\ spoilt' = spoilt \cup {s \in {At(slot, index)} : Foreign(slot, s)}
  /\ UNCHANGED <<pool, reservations>>
Erase(c, index) ==
  /\ calls[c].op = "erase" /\ Change(c, index)
  /\ written' = [written EXCEPT ![calls[c].block] = @ \ {At(calls[c].block, index)}]
Write(c, index) ==
  /\ calls[c].op = "write" /\ Change(c, index)
  /\ written' = [written EXCEPT ![calls[c].block] = @ \cup {At(calls[c].block, index)}]

\* Releasing: the backend gives the region back and clears its state under the
\* flash lock, then the handle goes back to the pool under the pool's.
Cleared(slot) == [pool[slot] EXCEPT !.offset = 0, !.size = 0]
DeinitCb(c) ==
  LET slot == calls[c].block IN
  /\ calls[c].op = "end" /\ calls' = [calls EXCEPT ![c].op = "free"]
  /\ reservations' = [i \in Index |-> IF pool[slot].size > 0 /\ reservations[i].block = slot THEN NoReservation ELSE reservations[i]]
  /\ pool' = [pool EXCEPT ![slot] = Cleared(slot)]
  /\ written' = [written EXCEPT ![slot] = {}]
  /\ UNCHANGED spoilt
Deinit(c) ==
  /\ calls[c].op = "free" /\ Done(c)
  /\ pool' = [pool EXCEPT ![calls[c].block] = Free]
  /\ UNCHANGED <<reservations, written, spoilt>>

Next ==
  \E c \in Cores :
    \/ \E bytes \in 1 .. Flash : FlashInit(c, bytes)
    \/ \E slot \in Index, op \in {"read", "erase", "write", "end"} : Begin(c, slot, op)
    \/ \E index \in Sectors : Erase(c, index) \/ Write(c, index)
    \/ Read(c) \/ Fails(c) \/ DeinitCb(c) \/ Deinit(c)

Spec == Init /\ [][Next]_vars

------------------------------------------------------------------------------
(* Regions are whole sectors behind the image and apart from each other, one  *)
(* per handle that is not being released; what a block wrote only that block  *)
(* erases or writes again, and nobody the image; what is used, reserved and   *)
(* free adds up; and the capacity reported is what the next reservation can   *)
(* get: a region is found for every size up to it and for none beyond.        *)
FlashSound ==
  /\ \A i, j \in Index : LET r == reservations[i]  s == reservations[j] IN
       r.block # 0 =>
         /\ FreeStart <= r.offset /\ End(r) <= Flash /\ r.offset % Sector = 0 /\ r.size % Sector = 0
         /\ (i # j /\ s.block # 0) => r.block # s.block /\ (End(r) <= s.offset \/ End(s) <= r.offset)
         /\ pool[r.block].callbacks /\ pool[r.block].offset = r.offset /\ pool[r.block].size = r.size
  /\ \A slot \in Index : pool[slot].size > 0 =>
       \E i \in Index : reservations[i].block = slot
  /\ spoilt = {}
  /\ FreeStart + Usage.reserved + Usage.free = Flash
  /\ \A size \in {k \in 1 .. Flash : k % Sector = 0} : Region(size) # None <=> size <= Capacity
  /\ \A c \in Cores : calls[c].op \in {"read", "erase", "write"} => pool[calls[c].block].callbacks
=============================================================================
