------------------------------- MODULE Stdio --------------------------------
(***************************************************************************)
(* Standard input and output.  On a POSIX host (sys/posix/stdio.c) they are *)
(* descriptors, the terminal is put into raw mode and given back, and a     *)
(* thread over epoll (sys/linux/stdio.c) tells of input.  On a Pico         *)
(* (sys/pico/stdio.c, stdio_uart.c) they are one stream over a UART, whose  *)
(* interrupt calls the one callback both directions share and empties the   *)
(* ring that writes fill; SEGGER's RTT needs neither.  platform says which. *)
(***************************************************************************)
EXTENDS Integers, Sequences

CONSTANTS
  Platforms,    \* those a run starts on, of {"host", "uart", "rtt"}
  Size, Fifo,   \* SYS_STDIO_UART_BUFFER_SIZE, the depth of the UART's queues
  Most,         \* bound: bytes written, and bytes received
  Inits,        \* bound: times the module is initialised
  DetachesFirst,\* the program detaches its callback before it ends
  ReadsApart    \* outside the callback the program reads only while none is attached

VARIABLES
  platform, app,  \* the program: where its main thread is
  inits,    \* how often it initialised the module
  since,    \* history: the callbacks attached since it last did
  tty,      \* the terminal: "cooked" or "raw"
  saved,    \* _sys_stdio_termios_saved
  host,     \* the host's thread and what it shares
  uart      \* the UART, its queues, the ring and the streams' callback

vars == <<platform, app, inits, since, tty, saved, host, uart>>
Callbacks == {"one", "two"}

NoHost == [pc |-> "none", events |-> {}, taken |-> "none", running |-> FALSE, started |-> FALSE,
           open |-> FALSE, watched |-> FALSE, wakeup |-> FALSE,    \* the descriptors, what epoll watches, the event
           callback |-> "none", registered |-> FALSE]
NoUart == [ring |-> <<>>, blocked |-> FALSE, callback |-> "none", rxIrq |-> FALSE, txIrq |-> FALSE,
           tx |-> <<>>, rx |-> <<>>, sent |-> 0, put |-> 0,        \* the queues, bytes on the wire, bytes accepted
           came |-> 0, got |-> <<>>, gone |-> {}]                  \* bytes received, read, and lost

Init ==
  /\ platform \in Platforms /\ app = "off" /\ inits = 0 /\ since = {}
  /\ tty = "cooked" /\ saved = FALSE /\ host = NoHost /\ uart = NoUart

------------------------------------------------------------------------------
\* Initialisation.  A terminal that cannot be read or set stays as it is, and
\* without a thread (a descriptor or the thread failing) input has no events.
MadeRaw ==
  \/ tty' = "raw" /\ saved' = TRUE
  \/ UNCHANGED <<tty, saved>>
HostInit ==
  /\ app = "off" /\ platform = "host" /\ inits < Inits /\ app' = "on" /\ inits' = inits + 1 /\ since' = {}
  /\ MadeRaw
  /\ \/ host' = host
     \/ host' = [host EXCEPT !.pc = "test", !.running = TRUE, !.started = TRUE,
                             !.open = TRUE, !.watched = FALSE, !.wakeup = FALSE]
  /\ UNCHANGED <<platform, uart>>
\* The stream takes a slot of the pool with the callback its last user left.
PicoInit ==
  /\ app = "off" /\ platform \in {"uart", "rtt"} /\ inits < Inits /\ app' = "on" /\ inits' = inits + 1
  /\ since' = {}
  /\ uart' = [NoUart EXCEPT !.callback = uart.callback, !.put = uart.put, !.sent = uart.sent,
                            !.came = uart.came, !.got = uart.got, !.gone = uart.gone]
  /\ UNCHANGED <<platform, tty, saved, host>>

------------------------------------------------------------------------------
\* The host's thread.
AtHost(pc) == [host EXCEPT !.pc = pc]
Test ==
  /\ host.pc = "test" /\ host' = AtHost(IF host.running THEN "wait" ELSE "out")
  /\ UNCHANGED <<platform, app, inits, since, tty, saved, uart>>
\* epoll_wait: the wakeup event, and input while stdin is watched.
Wait ==
  /\ host.pc = "wait"
  /\ \E input \in BOOLEAN :
       LET ready == (IF host.wakeup THEN {"wakeup"} ELSE {})
                    \cup (IF host.watched /\ input THEN {"stdin"} ELSE {}) IN
       ready # {} /\ host' = [AtHost("handle") EXCEPT !.events = ready]
  /\ UNCHANGED <<platform, app, inits, since, tty, saved, uart>>
Woken ==
  /\ host.pc = "handle" /\ "wakeup" \in host.events
  /\ host' = [host EXCEPT !.events = @ \ {"wakeup"}, !.wakeup = FALSE]
  /\ UNCHANGED <<platform, app, inits, since, tty, saved, uart>>
\* The callback is read under the lock and called outside it.
Dispatch ==
  /\ host.pc = "handle" /\ "stdin" \in host.events
  /\ host' = [AtHost(IF host.callback = "none" THEN "handle" ELSE "call")
              EXCEPT !.events = @ \ {"stdin"}, !.taken = host.callback]
  /\ UNCHANGED <<platform, app, inits, since, tty, saved, uart>>
Called ==
  /\ host.pc = "call" /\ app # "exit in callback" /\ host' = [AtHost("handle") EXCEPT !.taken = "none"]
  /\ UNCHANGED <<platform, app, inits, since, tty, saved, uart>>
Handled ==
  /\ host.pc = "handle" /\ host.events = {} /\ host' = AtHost("test")
  /\ UNCHANGED <<platform, app, inits, since, tty, saved, uart>>
\* Attaching and detaching, from the main thread or the callback: what epoll is
\* asked follows from registered, and what the kernel refuses (a registration it
\* has or lacks, a stdin that cannot be polled) changes nothing.
Attached(callback) ==
  IF callback = "none" /\ ~host.registered THEN [host EXCEPT !.callback = "none"]
  ELSE IF host.registered # host.watched THEN host
  ELSE [host EXCEPT !.callback = callback, !.registered = callback # "none", !.watched = callback # "none"]
HostCallback(callback) ==
  /\ platform = "host" /\ app = "on" /\ host.started
  /\ host' = Attached(callback) /\ since' = since \cup {callback}
  /\ UNCHANGED <<platform, app, inits, tty, saved, uart>>

\* The end: stop the thread and wait for it, then close; from the callback
\* the thread waits for itself.
HostExit(from) ==
  /\ platform = "host" /\ app = "on" /\ host.started /\ (from = "exit in callback" => host.pc = "call")
  /\ app' = from /\ host' = [host EXCEPT !.running = FALSE, !.wakeup = TRUE]
  /\ UNCHANGED <<platform, inits, since, tty, saved, uart>>
\* A bug the checks must see: the next initialisation still holds stdin registered.
StillRegistered == host.registered
Unregistered == FALSE
Closed == [host EXCEPT !.open = FALSE, !.watched = FALSE, !.wakeup = FALSE, !.started = FALSE,
                       !.pc = "none", !.registered = Unregistered]
\* What was captured is put back, once.
Restored == tty' = (IF saved THEN "cooked" ELSE tty) /\ saved' = FALSE
HostExited ==
  /\ platform = "host"
  /\ \/ app \in {"exit", "exit in callback"} /\ host.pc = "out" /\ host' = Closed
     \/ app = "on" /\ ~host.started /\ host' = host
  /\ app' = "off" /\ Restored
  /\ UNCHANGED <<platform, inits, since, uart>>
\* sys_halt, on any thread at any time, also while the module is ending.
Halt ==
  /\ platform = "host" /\ app \in {"on", "exit"} /\ app' = "halted" /\ Restored
  /\ host' = [NoHost EXCEPT !.pc = "none"]
  /\ UNCHANGED <<platform, inits, since, uart>>

------------------------------------------------------------------------------
\* The UART.  Interrupts are enabled for input while a callback is attached,
\* for output while the ring holds bytes.
Updated(u) == [u EXCEPT !.rxIrq = u.callback # "none", !.txIrq = u.ring # <<>>]
Least(a, b) == IF a < b THEN a ELSE b
Drained(u) ==
  LET n == Least(Len(u.ring), Fifo - Len(u.tx)) IN
  [u EXCEPT !.tx = @ \o SubSeq(u.ring, 1, n), !.ring = SubSeq(@, n + 1, Len(@))]
\* A write under the interrupt lock: what the ring has room for, blocked when
\* that is not all of it.
Accepted(u, n) == Least(n, Size - Len(u.ring))
Filled(u, n) ==
  LET k == Accepted(u, n) IN
  [u EXCEPT !.ring = @ \o [i \in 1 .. k |-> u.put + i], !.put = @ + k, !.blocked = @ \/ k < n]
\* A bug the checks must see: the interrupts follow the ring before it is drained.
WroteEarly(u, n) == Drained(Updated(Filled(u, n)))
Wrote(u, n) == Updated(Drained(Filled(u, n)))
Taken(u, n) == LET k == Least(n, Len(u.rx)) IN [u EXCEPT !.rx = SubSeq(@, k + 1, Len(@)), !.got = @ \o SubSeq(u.rx, 1, k)]
\* Reading one byte to look at it: no Pico stream can step back, it is gone.
Peeked(u) == IF u.rx = <<>> THEN u ELSE [u EXCEPT !.rx = Tail(@), !.gone = @ \cup {Head(u.rx)}]
\* What the callback may do with its stream.
Callback(u) ==
  IF u.callback = "none" THEN {u}
  ELSE {u, Taken(u, 2), Peeked(u), Updated([u EXCEPT !.callback = "none"])}
       \cup (IF u.put + 2 <= Most THEN {Wrote(u, 2)} ELSE {})
\* The interrupt: input, then the ring, then the writer that was refused.
Interrupted ==
  {Updated(u) : u \in UNION {IF d.blocked /\ Len(d.ring) < Size THEN Callback([d EXCEPT !.blocked = FALSE]) ELSE {d} :
     d \in {Drained(c) : c \in IF uart.rx # <<>> THEN Callback(uart) ELSE {uart}}}}
Irq ==
  /\ platform = "uart" /\ app \in {"on", "getc"}
  /\ \/ uart.rxIrq /\ uart.rx # <<>>
     \/ uart.txIrq /\ Len(uart.tx) < Fifo
  /\ uart' \in Interrupted
  /\ UNCHANGED <<platform, app, inits, since, tty, saved, host>>
Write(n) ==
  /\ platform = "uart" /\ app = "on" /\ uart.put + n <= Most /\ uart' = Wrote(uart, n)
  /\ UNCHANGED <<platform, app, inits, since, tty, saved, host>>
UartCallback(callback) ==
  /\ platform = "uart" /\ app = "on"
  /\ uart' = Updated([uart EXCEPT !.callback = callback]) /\ since' = since \cup {callback}
  /\ UNCHANGED <<platform, app, inits, tty, saved, host>>
\* Reading outside the callback: ask whether there is a byte, then wait for it.
Readable ==
  /\ platform = "uart" /\ app = "on" /\ uart.rx # <<>> /\ (ReadsApart => uart.callback = "none") /\ app' = "getc"
  /\ UNCHANGED <<platform, inits, since, tty, saved, host, uart>>
Getc ==
  /\ app = "getc" /\ uart.rx # <<>> /\ app' = "on"
  /\ uart' \in {Taken(uart, 1), Peeked(uart)}
  /\ UNCHANGED <<platform, inits, since, tty, saved, host>>
\* The end: no interrupts, all of the ring and the queue sent.
PicoExit ==
  /\ platform \in {"uart", "rtt"} /\ app = "on" /\ (DetachesFirst => uart.callback = "none")
  /\ app' = "exit" /\ uart' = [uart EXCEPT !.rxIrq = FALSE, !.txIrq = FALSE]
  /\ UNCHANGED <<platform, inits, since, tty, saved, host>>
Drain ==
  /\ platform = "uart" /\ app = "exit" /\ uart' = Drained(uart) /\ uart' # uart
  /\ UNCHANGED <<platform, app, inits, since, tty, saved, host>>
PicoExited ==
  /\ platform \in {"uart", "rtt"} /\ app = "exit" /\ uart.ring = <<>> /\ uart.tx = <<>> /\ app' = "off"
  /\ uart' = [uart EXCEPT !.rx = <<>>, !.gone = @ \cup {uart.rx[i] : i \in DOMAIN uart.rx}]
  /\ UNCHANGED <<platform, inits, since, tty, saved, host>>
Shift ==
  /\ uart.tx # <<>> /\ uart' = [uart EXCEPT !.tx = Tail(@), !.sent = Head(uart.tx)]
  /\ UNCHANGED <<platform, app, inits, since, tty, saved, host>>
Receive ==
  /\ platform = "uart" /\ app # "off" /\ uart.came < Most
  /\ uart' = IF Len(uart.rx) < Fifo
             THEN [uart EXCEPT !.came = @ + 1, !.rx = Append(@, uart.came + 1)]
             ELSE [uart EXCEPT !.came = @ + 1, !.gone = @ \cup {uart.came + 1}]
  /\ UNCHANGED <<platform, app, inits, since, tty, saved, host>>

Next ==
  \/ HostInit \/ PicoInit
  \/ Test \/ Wait \/ Woken \/ Dispatch \/ Called \/ Handled
  \/ \E callback \in Callbacks \cup {"none"} : HostCallback(callback) \/ UartCallback(callback)
  \/ \E from \in {"exit", "exit in callback"} : HostExit(from)
  \/ HostExited \/ Halt
  \/ Irq \/ \E n \in 1 .. 3 : Write(n)
  \/ Readable \/ Getc \/ PicoExit \/ Drain \/ PicoExited \/ Shift \/ Receive

Spec == Init /\ [][Next]_vars

------------------------------------------------------------------------------
(* The terminal is the shell's again whenever the program has ended or been   *)
(* halted; the host's thread is joined before its descriptors are closed, and *)
(* what the module takes stdin to be, watched or not, is what epoll does, so  *)
(* that the next registration is not refused, over initialisations.  On the   *)
(* UART the bytes accepted go out once and in order, all of them before the   *)
(* module ends; a refused writer has an interrupt to come, and none comes for *)
(* an empty ring; every byte received is read in order or lost to an overrun, *)
(* a look ahead or the end; a reader that saw a byte finds it.  A callback    *)
(* called is one attached since the module was initialised.                   *)
TerminalKept == app \in {"off", "halted"} => tty = "cooked"
ThreadSound ==
  /\ host.pc \notin {"none", "out"} => host.open
  /\ host.registered = host.watched
  /\ host.taken \in since \cup {"none"}
Increasing(s) == \A i, j \in DOMAIN s : i < j => s[i] < s[j]
LineSound ==
  LET out == uart.tx \o uart.ring  in == uart.got \o uart.rx IN
  /\ out = [i \in 1 .. uart.put - uart.sent |-> uart.sent + i]
  /\ app = "off" => out = <<>>
  /\ Increasing(in) /\ {in[i] : i \in DOMAIN in} \cup uart.gone = 1 .. uart.came
  /\ app \in {"on", "getc"} =>
       /\ uart.txIrq = (uart.ring # <<>>) /\ uart.rxIrq = (uart.callback # "none")
       /\ uart.blocked => uart.ring # <<>>
       /\ uart.callback \in since \cup {"none"}
  /\ app = "getc" => uart.rx # <<>>
StdioSound == TerminalKept /\ ThreadSound /\ LineSound
=============================================================================
