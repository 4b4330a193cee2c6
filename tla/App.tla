----------------------------------- MODULE App -----------------------------------
(***************************************************************************)
(* The life of an application: app_main of src/picofuse/app/app.c and      *)
(* everything it brings up and takes down - sys_init and sys_exit          *)
(* (sys/posix/init.c, sys/pico/init.c), hw_init and hw_exit                *)
(* (hw/pico/init.c, hw/linux/init.c), the event queue, the run loop's      *)
(* workers, and the HID, LED, watchdog and USB parts the flags ask for.    *)
(*                                                                         *)
(* Worker 0 is the thread in app_main.  It takes one step for each part    *)
(* it brings up or takes down.  The run loop starts the further worker     *)
(* before worker 0 runs _app_on_init, so that worker pops events while     *)
(* worker 0 is still on its way.                                           *)
(***************************************************************************)
EXTENDS Integers, Sequences

CONSTANTS
    Platforms,  \* of {"posix", "pico"}
    Flags,      \* the flags the runs choose from
    Backends,   \* the optional parts a board may lack
    MaxEvents,  \* events that wait at most
    Handlers    \* the workers whose handlers rely on on_start and the parts

VARIABLES
    platform,
    flags,      \* _app->flags
    board,      \* the optional parts this board has
    up,         \* the parts that are up
    pc,         \* worker 0: a phase
    place,      \* the part of the phase that comes next
    worker,     \* the further worker: "none", "waiting", "handling", "left"
    events,     \* events that wait in the queue
    stopping,   \* shutdown_requested
    started,    \* on_start has returned
    unserved    \* a handler has missed on_start, or a part it was promised

vars == <<platform, flags, board, up, pc, place, worker, events, stopping, started, unserved>>
fixed == <<platform, flags, board>>

\* What the parts of the program use: the mutexes of a Pico and its stream
\* pool live in the critical section of sys/pico/sync.c, the queue holds a
\* mutex, the HID instance feeds the queue and its devices use the HID
\* instance and the hardware they are made of.
Needs(part) ==
    CASE part \in {"mem", "stdio", "runloop", "printf", "queue"} ->
            IF platform = "pico" THEN {"sync"} ELSE {}
      [] part = "loop" -> {"runloop", "queue", "printf"}
      [] part = "hid" -> {"queue", "hw"}
      [] part \in {"led", "watchdog", "usb"} -> {"hw"}
      [] part = "usbhid" -> {"hid", "usb"}
      [] part \in {"signal", "button", "temperature"} -> {"hid"}
      [] OTHER -> {}

\* A bug the checks must see: the USB host goes while the HID instance still
\* has its callback.
UsbFirst == <<"usb", "hid", "led", "watchdog", "hw">>
\* _app_on_exit takes the HID instance down before the parts its devices use.
Exits == <<"hid", "led", "watchdog", "usb", "hw">>


\* The order in which each phase goes through its parts.
Order(phase) ==
    CASE phase = "sysinit" ->
            IF platform = "posix"
            THEN <<"printf", "stdio", "mem", "runloop">>
            ELSE <<"sync", "mem", "stdio", "runloop", "timers", "printf">>
      [] phase = "oninit" ->
            <<"hw", "hid", "led", "watchdog", "usb", "usbhid", "signal", "button", "temperature">>
      [] phase = "onexit" -> Exits
      [] phase = "sysexit" ->
            IF platform = "posix"
            THEN <<"runloop", "mem", "timers", "stdio", "printf">>
            ELSE <<"mem", "timers", "stdio", "printf", "runloop", "sync">>
      [] OTHER -> <<>>

\* hid_deinit deregisters every device with the instance, and each device
\* gives back its callback: hw_usb_register_hid's lets go of the USB host.
TakenWith(part) ==
    {part} \cup IF part = "hid" THEN {"usbhid", "signal", "button", "temperature"} ELSE {}

Init ==
    /\ platform \in Platforms
    /\ flags \in SUBSET Flags
    /\ board \in SUBSET Backends
    /\ up = {}
    /\ pc = "sysinit" /\ place = 1
    /\ worker = "none"
    /\ events = 0
    /\ stopping = FALSE /\ started = FALSE
    /\ unserved = FALSE

\* Optional parts come up when the application asked for them and the board
\* has them; what hangs on the HID instance is left out without it.
Wanted(part) ==
    CASE part = "hid" -> TRUE
      [] part \in {"led", "watchdog", "usb"} -> part \in flags /\ part \in board
      [] part = "usbhid" -> "usb" \in flags /\ {"hid", "usb"} \subseteq up
      [] part \in {"signal", "button", "temperature"} -> part \in flags /\ "hid" \in up
      [] OTHER -> TRUE

Goto(phase) == pc' = phase /\ place' = 1

BringUp ==
    /\ pc \in {"sysinit", "oninit"} /\ place <= Len(Order(pc))
    /\ place' = place + 1
    /\ LET part == Order(pc)[place] IN
       up' = IF Wanted(part) THEN up \cup {part} ELSE up
    /\ UNCHANGED <<fixed, pc, worker, events, stopping, started, unserved>>

\* _deinit of a part that is not up returns at its NULL.
TakeDown ==
    /\ pc \in {"onexit", "sysexit"} /\ place <= Len(Order(pc))
    /\ place' = place + 1
    /\ up' = up \ TakenWith(Order(pc)[place])
    /\ UNCHANGED <<fixed, pc, worker, events, stopping, started, unserved>>

\* _app_single_core_required: a Pico whose CYW43 driver is polled keeps to
\* one core whatever the application asks for.
SingleCore == platform = "pico" /\ "cyw43poll" \in board

\* sys_event_queue_init, then the run loop's claim; the further worker is
\* running before worker 0 reaches its init_fn.
RunLoop ==
    /\ pc = "sysinit" /\ place > Len(Order(pc))
    /\ Goto("oninit")
    /\ up' = up \cup {"queue", "loop"}
    /\ worker' = IF "multicore" \in flags /\ ~SingleCore THEN "waiting" ELSE "none"
    /\ UNCHANGED <<fixed, events, stopping, started, unserved>>

\* on_start: it may post events and ask for the shutdown.
OnStart ==
    /\ pc = "oninit" /\ place > Len(Order(pc))
    /\ Goto("loop")
    /\ started' = TRUE
    /\ \/ UNCHANGED <<events, stopping>>
       \/ events < MaxEvents /\ events' = events + 1 /\ UNCHANGED stopping
       \/ stopping' = TRUE /\ UNCHANGED events
    /\ UNCHANGED <<fixed, up, worker, unserved>>

\* What an event handler of the application relies on: the parts app_hid,
\* app_led, app_watchdog and app_usb give it stand.
Promised == {"hid", "hw"} \cup (flags \cap board \cap {"led", "watchdog", "usb"})
Served(t) ==
    unserved' = (unserved \/ (t \in Handlers /\ ~(started /\ Promised \subseteq up)))

\* Worker 0 pops and polls: hw_poll, hid_poll and pix_poll, then the event's
\* handler, which may ask for the shutdown.
Handle ==
    /\ pc = "loop" /\ events > 0
    /\ events' = events - 1
    /\ \/ UNCHANGED stopping
       \/ stopping' = TRUE
    /\ Served("worker 0")
    /\ UNCHANGED <<fixed, up, pc, place, worker, started>>

\* The further worker takes an event, and comes back from its handler.
WorkerTakes ==
    /\ worker = "waiting" /\ events > 0
    /\ worker' = "handling" /\ events' = events - 1
    /\ Served("worker 1")
    /\ UNCHANGED <<fixed, up, pc, place, stopping, started>>

WorkerReturns ==
    /\ worker = "handling"
    /\ worker' = "waiting"
    /\ stopping' \in {stopping, TRUE}
    /\ Served("worker 1")
    /\ UNCHANGED <<fixed, up, pc, place, events, started>>

WorkerLeaves ==
    /\ worker = "waiting" /\ stopping /\ events = 0
    /\ worker' = "left"
    /\ UNCHANGED <<fixed, up, pc, place, events, stopping, started, unserved>>

\* A device posts an event from the moment it is registered: a signal, a
\* USB report, a reading.
Post ==
    /\ up \cap {"usbhid", "signal", "button", "temperature"} # {}
    /\ "queue" \in up /\ ~stopping /\ events < MaxEvents
    /\ events' = events + 1
    /\ UNCHANGED <<fixed, up, pc, place, worker, stopping, started, unserved>>

\* Somebody asks for the shutdown from outside the loop.
Stop ==
    /\ pc = "loop" /\ ~stopping
    /\ stopping' = TRUE
    /\ UNCHANGED <<fixed, up, pc, place, worker, events, started, unserved>>

LoopEnds ==
    /\ pc = "loop" /\ stopping /\ events = 0
    /\ Goto("onexit")
    /\ UNCHANGED <<fixed, up, worker, events, stopping, started, unserved>>

\* _sys_runloop_deinit joins the further worker, then the queue goes.
LoopReturns ==
    /\ pc = "onexit" /\ place > Len(Order(pc)) /\ worker \in {"none", "left"}
    /\ Goto("sysexit")
    /\ up' = up \ {"queue", "loop"}
    /\ worker' = "none"
    /\ UNCHANGED <<fixed, events, stopping, started, unserved>>

\* app_main returns; a Pico halts instead.
Return ==
    /\ pc = "sysexit" /\ place > Len(Order(pc))
    /\ Goto("done")
    /\ UNCHANGED <<fixed, up, worker, events, stopping, started, unserved>>

Next ==
    \/ BringUp \/ TakeDown \/ RunLoop \/ OnStart \/ Handle \/ Post \/ Stop \/ LoopEnds
    \/ WorkerTakes \/ WorkerReturns \/ WorkerLeaves \/ LoopReturns \/ Return
    \/ pc = "done" /\ UNCHANGED vars

Spec == Init /\ [][Next]_vars

----------------------------------------------------------------------------
\* What a part needs is up for as long as the part is, on the way up, in the
\* loop and on the way down; no handler runs before on_start has returned or
\* after a part it was promised has gone; and app_main leaves nothing behind.
Stands ==
    /\ \A part \in up : Needs(part) \subseteq up
    /\ ~unserved
    /\ pc = "done" => up = {}

----------------------------------------------------------------------------
\* The inductive invariant: what is up at each place of each phase.
Phases == {"sysinit", "oninit", "loop", "onexit", "sysexit", "done"}
Passed == {Order(pc)[k] : k \in 1 .. place - 1}
System == {"printf", "stdio", "mem", "runloop"} \cup IF platform = "pico" THEN {"sync", "timers"} ELSE {}
Always == System \cup {"queue", "loop"}
Hardware == {"hw", "hid", "led", "watchdog", "usb", "usbhid", "signal", "button", "temperature"}
UpInv ==
    CASE pc = "sysinit" -> up = Passed
      [] pc = "oninit" -> Always \cup (Promised \cap Passed) \subseteq up /\ up \subseteq Always \cup Passed
      [] pc = "loop" -> Always \cup Promised \subseteq up /\ up \subseteq Always \cup Hardware
      [] pc = "onexit" ->
            Always \subseteq up /\ up \subseteq Always \cup (Hardware \ UNION {TakenWith(part) : part \in Passed})
      [] pc = "sysexit" -> up = System \ Passed
      [] OTHER -> up = {}
IInv ==
    /\ platform \in {"posix", "pico"} /\ pc \in Phases /\ place \in 1 .. Len(Order(pc)) + 1
    /\ UpInv
    /\ \A part \in up : Needs(part) \subseteq up
    /\ pc = "loop" => started
    /\ ~unserved
=============================================================================
