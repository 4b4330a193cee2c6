-------------------------------- MODULE FlashPause --------------------------------
(***************************************************************************)
(* The handshake of src/picofuse/sys/pico/flash_pause.c: before core 0     *)
(* erases or programs the flash (src/picofuse/hw/pico/flash.c) it asks     *)
(* core 1, which runs a worker of the run loop from that very flash, to    *)
(* park itself in RAM.                                                     *)
(*                                                                         *)
(* The three flags are shared words; SEV sets core 1's event latch, which  *)
(* its next WFE clears instead of sleeping.                                *)
(***************************************************************************)
CONSTANT
    Discipline  \* what keeps the cores apart beyond the handshake:
                \* "launched": core 1 enters its worker when no operation is under way,
                \* "settled": core 0 lets core 1 leave the pause point between operations

VARIABLES
    requested, acknowledged, worker_active, \* the flags
    latch,      \* core 1's event latch
    lock,       \* who owns _hw_flash_lock: 0, 1, or 2 for nobody
    pc0, pc1    \* where the cores are

flags == <<requested, acknowledged, worker_active>>
vars == <<flags, latch, lock, pc0, pc1>>

Init ==
    /\ requested = 0 /\ acknowledged = 0 /\ worker_active = 0
    /\ latch = 0
    /\ lock = 2
    /\ pc0 = "idle" /\ pc1 = "off"

\* Inside _sys_pico_flash_pause_point, past its first test.
Pausing == {"ack", "sev", "check", "wfe", "asleep", "unack"}

-----------------------------------------------------------------------------
(* Core 0: _hw_flash_block_erase_cb, _hw_flash_block_write_cb. *)

Begin ==
    /\ pc0 = "idle"
    /\ "settled" \in Discipline => pc1 \notin Pausing
    /\ lock = 2 /\ lock' = 0
    /\ pc0' = "test"
    /\ UNCHANGED <<flags, latch, pc1>>

\* _sys_pico_flash_pause_request: without an active worker there is nobody to pause.
TestActive ==
    /\ pc0 = "test"
    /\ pc0' = IF worker_active = 1 THEN "request" ELSE "flash"
    /\ UNCHANGED <<flags, latch, lock, pc1>>

Request ==
    /\ pc0 = "request"
    /\ requested' = 1
    /\ pc0' = "signal"
    /\ UNCHANGED <<acknowledged, worker_active, latch, lock, pc1>>

SevRequest ==
    /\ pc0 = "signal"
    /\ latch' = 1
    /\ pc0' = "await"
    /\ UNCHANGED <<flags, lock, pc1>>

Acknowledged ==
    /\ pc0 = "await"
    /\ acknowledged = 1
    /\ pc0' = "flash"
    /\ UNCHANGED <<flags, latch, lock, pc1>>

\* Mutants: a request that timed out is taken for granted; no request times out.
TimeOutGranted ==
    /\ pc0 = "await"
    /\ acknowledged = 0
    /\ pc0' = "flash"
    /\ UNCHANGED <<flags, latch, lock, pc1>>
TimeOutNever ==
    /\ pc0 = "await"
    /\ acknowledged = 0
    /\ UNCHANGED vars

\* The deadline passes before the acknowledgement.
TimeOut ==
    /\ pc0 = "await"
    /\ acknowledged = 0
    /\ requested' = 0
    /\ pc0' = "sev"
    /\ UNCHANGED <<acknowledged, worker_active, latch, lock, pc1>>

\* flash_range_erase or flash_range_program is over: _sys_pico_flash_pause_release.
Release ==
    /\ pc0 = "flash"
    /\ requested' = 0
    /\ pc0' = "sev"
    /\ UNCHANGED <<acknowledged, worker_active, latch, lock, pc1>>

\* Mutant: core 1 is not signalled.
SevNot ==
    /\ pc0 = "sev"
    /\ pc0' = "end"
    /\ UNCHANGED <<flags, latch, lock, pc1>>

Sev ==
    /\ pc0 = "sev"
    /\ latch' = 1
    /\ pc0' = "end"
    /\ UNCHANGED <<flags, lock, pc1>>

End ==
    /\ pc0 = "end"
    /\ lock' = 2
    /\ pc0' = "idle"
    /\ UNCHANGED <<flags, latch, pc1>>

\* _hw_flash_block_read_cb: copy under the lock.
ReadOwn ==
    /\ pc0 = "idle"
    /\ lock = 2 /\ lock' = 0
    /\ pc0' = "read"
    /\ UNCHANGED <<flags, latch, pc1>>

ReadOwnDone ==
    /\ pc0 = "read"
    /\ lock' = 2
    /\ pc0' = "idle"
    /\ UNCHANGED <<flags, latch, pc1>>

-----------------------------------------------------------------------------
(* Core 1: a worker of the run loop. *)

WorkerEnter ==
    /\ pc1 = "off"
    /\ "launched" \in Discipline => pc0 = "idle"
    /\ worker_active' = 1
    /\ pc1' = "run"
    /\ UNCHANGED <<requested, acknowledged, latch, lock, pc0>>

WorkerExit ==
    /\ pc1 = "run"
    /\ worker_active' = 0
    /\ pc1' = "off"
    /\ UNCHANGED <<requested, acknowledged, latch, lock, pc0>>

\* _hw_flash_block_read_cb, interrupts off from the first attempt on the lock.
WantRead ==
    /\ pc1 = "run"
    /\ pc1' = "want"
    /\ UNCHANGED <<flags, latch, lock, pc0>>

Read ==
    /\ pc1 = "want"
    /\ lock = 2 /\ lock' = 1
    /\ pc1' = "read"
    /\ UNCHANGED <<flags, latch, pc0>>

ReadDone ==
    /\ pc1 = "read"
    /\ lock' = 2
    /\ pc1' = "run"
    /\ UNCHANGED <<flags, latch, pc0>>

\* _sys_pico_flash_pause_point
PausePoint ==
    /\ pc1 = "run"
    /\ requested = 1
    /\ pc1' = "ack"
    /\ UNCHANGED <<flags, latch, lock, pc0>>

Acknowledge ==
    /\ pc1 = "ack"
    /\ acknowledged' = 1
    /\ pc1' = "sev"
    /\ UNCHANGED <<requested, worker_active, latch, lock, pc0>>

\* SEV reaches the core that executes it, too.
SevOwn ==
    /\ pc1 = "sev"
    /\ latch' = 1
    /\ pc1' = "check"
    /\ UNCHANGED <<flags, lock, pc0>>

CheckRequested ==
    /\ pc1 = "check"
    /\ pc1' = IF requested = 1 THEN "wfe" ELSE "unack"
    /\ UNCHANGED <<flags, latch, lock, pc0>>

Wfe ==
    /\ pc1 = "wfe"
    /\ latch' = 0
    /\ pc1' = IF latch = 1 THEN "check" ELSE "asleep"
    /\ UNCHANGED <<flags, lock, pc0>>

Wake ==
    /\ pc1 = "asleep"
    /\ latch = 1
    /\ latch' = 0
    /\ pc1' = "check"
    /\ UNCHANGED <<flags, lock, pc0>>

Unacknowledge ==
    /\ pc1 = "unack"
    /\ acknowledged' = 0
    /\ pc1' = "run"
    /\ UNCHANGED <<requested, worker_active, latch, lock, pc0>>

-----------------------------------------------------------------------------

Core0 ==
    \/ TestActive \/ Request \/ SevRequest \/ Acknowledged \/ TimeOut
    \/ Release \/ Sev \/ End \/ ReadOwnDone
Core1 ==
    \/ Read \/ ReadDone
    \/ Acknowledge \/ SevOwn \/ CheckRequested \/ Wfe \/ Wake \/ Unacknowledge

Next ==
    \/ Begin \/ ReadOwn \/ Core0
    \/ WorkerEnter \/ WorkerExit \/ WantRead \/ PausePoint \/ Core1

Spec == Init /\ [][Next]_vars

\* Each core runs on, and the spin lock does not starve core 1; nobody has to
\* begin an operation, a worker or a read, or to come to a pause point.
FairSpec == Spec /\ WF_vars(Core0) /\ WF_vars(Core1) /\ SF_vars(Read)

-----------------------------------------------------------------------------
(* Properties. *)

TypeOK ==
    /\ requested \in {0, 1} /\ acknowledged \in {0, 1} /\ worker_active \in {0, 1}
    /\ latch \in {0, 1}
    /\ lock \in {0, 1, 2}
    /\ pc0 \in {"idle", "test", "request", "signal", "await", "flash", "sev", "end", "read"}
    /\ pc1 \in {"off", "run", "want", "read"} \cup Pausing

\* "Park core 1 in RAM while a core-0 flash operation is active": core 1 runs
\* no worker from the flash, and reads nothing in it, while core 0 erases or
\* programs it.
ParkedWhileFlashing == pc0 = "flash" => pc1 \in Pausing \cup {"off"}

\* No wake-up is lost between core 1's test of the request and its WFE: it
\* leaves the pause point in the end.
Resumes == pc1 \in Pausing ~> pc1 = "run"

\* An operation ends, in failure if need be, although core 1 may be waiting for
\* the very lock that core 0 holds while it waits for core 1.
OperationEnds == pc0 # "idle" ~> pc0 = "idle"

-----------------------------------------------------------------------------
(* The invariant: core 1 stays parked while core 0 works on the flash, if  *)
(* core 1 enters its worker between operations and core 0 waits for core 1 *)
(* to leave the pause point before the next operation (MCPlatform).        *)

\* Core 1 has acknowledged and not taken it back.
Parked == {"sev", "check", "wfe", "asleep", "unack"}

\* What core 0 has asked for and what core 1 has answered, by where they are.
Handshake ==
    /\ pc0 \in {"signal", "await"} => requested = 1
    /\ pc0 \in {"idle", "test", "request", "sev", "end", "read"} => requested = 0
    /\ acknowledged = 1 <=> pc1 \in Parked
    /\ pc1 # "off" => worker_active = 1
    /\ requested = 1 => pc1 # "unack"

\* Until it has asked, core 0 is alone; it works on the flash because core 1
\* has answered, or because there is no worker.
Alone ==
    /\ pc0 \in {"test", "request"} => pc1 \notin Pausing
    /\ pc0 = "flash" => \/ requested = 1 /\ pc1 \in Parked
                        \/ pc1 = "off"

IInv == TypeOK /\ Handshake /\ Alone
=============================================================================
