# A verification of picofuse

picofuse is a C library for programs that run on a Raspberry Pi Pico as well as on Linux and
macOS: threads, queues and timers (`sys`), hardware (`hw`), input devices (`hid`), displays
(`pix`, `dev`), networking (`net`) and an application frame (`app`).  This directory holds TLA+
models of its stateful parts, TLC configurations that check them on small instances, and theorems
about its core that TLAPS checks for every value of the constants.

To check the run `X` of module `M`: `tlc -config X.cfg M.tla`.  To check the proofs of module `M`:
`tlapm M.tla`.  `PROJECT.json` says which module belongs to which run, maps every definition to
the lines of the source it models, and lists for every property mutants: definitions with a plausible
bug in them, placed before the one they replace and introduced by a comment `Mutant: ...` or `A bug
the checks must see: ...`, under which TLC finds the property violated.

## The system

State is shared everywhere in the same way: a module keeps a static pool or a singleton, hands
out pointers into it, and guards it with one lock.  On a host the lock is a pthread mutex of the
object; on Pico it is a critical section all pools share (`sys/pico/sync.h`), so that interrupt
handlers may take it.  Application code runs in event handlers, which the run loop calls on one
or more workers; timers, edges and sockets call back from interrupts or threads of their own and
turn what they saw into events.  What has no thread of its own is polled: `hw_poll`, `hid_poll`,
`net_poll` and `pix_poll` run between events.

| Component | State | Operations | Interacts with | What is hard | What makes it correct |
| --- | --- | --- | --- | --- | --- |
| Event queue (`sys/event/{pushpop,lock,size,init}.c`) | ring of pointers, head, tail, count, shutdown; a mutex and a condition variable | push (overwriting), try_push, pop, try_pop, timed_pop, lock/peek/unlock, empty, shutdown | pushed by interrupts, popped by workers | two locks on Pico; the ring is released between a test and a wait; wake-ups of others | it is a bounded FIFO whose calls take effect at once; nobody sleeps beside an event |
| Run loop (`sys/event/runloop.c`) | a singleton: queue, wait group, exit value, shutdown flag | run, post, shutdown, the workers | event queue, wait group, threads, application | claim, reset, shutdown and drain in any order; workers that fail to start | one run at a time, workers joined, events drained, the value asked for returned |
| Condition variable on Pico (`sys/pico/cond.c`) | a semaphore, waiters, pending signals | wait, timedwait, signal, broadcast, deinit | the caller's mutex | permits taken outside the lock, timeouts that leave permits | permits and waiters balance; deinit ends and is clean |
| Wait group (`sys/pthread/waitgroup.c`, `sys/pico/waitgroup.c`) | a counter, waiters; a condition or a semaphore | add, done, wait, deinit | run loop, sockets | reuse from round to round, reuse of the slot, overflow | a wait returns at zero, everybody is released |
| Mutexes, threads, hashes (`sys/{pthread,pico}/{mutex,thread}.c`, `sys/{openssl,pico}/hash.c`) | pools of handles, core 1's one job, a hash's context and digest | init, lock, trylock, unlock, deinit; create; update, finalize | every other part | a handle tested outside the lock that gave it out; core 1 already taken; updates by several threads, half-way failures | a handle is its owner's until it is given back; a digest is of whole updates, one after the other |
| Timers (`sys/{linux,darwin,pico}/timer.c`) | a pool of slots, which callback runs where | init, start, deinit, expiry | kernel timers, alarms | overlapping notifications, deinit from and against a callback, reuse | no overlap, quiet after deinit, no stray kernel timer |
| Standard streams (`sys/posix/stdio.c`, `sys/linux/stdio.c`, `sys/pico/stdio*.c`) | the terminal's settings, a ring, a callback | init, read, write, set_callback, exit | a thread over epoll, the UART's interrupt | both ends share a ring; a callback that outlives its owner | characters once, in order; the terminal is given back |
| Formatted output (`sys/printf`) | the parser's place, the output's place | printf, fprintf, sprintf | standard streams, I/O streams | widths, precisions, rounding, truncation | the text printf.h promises, the count of it |
| Flash (`sys/pico/flash_pause.c`, `hw/pico/flash.c`, `hw/block`) | three flags, the event latch, the flash lock; handles, reservations | request, release, pause point; reserve, erase, write, read, release | the two cores | a handshake with a timeout, a lock the other core may hold; sizes that are no whole sectors | core 1 parked while core 0 writes; no region holds another's bytes |
| Input devices (`hid/*.c`) | a pool of devices, a pool of events, a queue of capacity 16 | register, deregister, retain, push, pop, handle, free, poll | timers, GPIO edges, ADC, signals, streams, Wi-Fi, USB, run loop | one-shot devices removed from a callback, edges against deregistration, exhausted pools | every event slot has one owner, devices outlive their events, state follows the pin |
| Memory (`sys/mem/{arena,mem}.c`) | arenas of address-sorted blocks, chained | alloc, free, realloc, growth | every other part | headers between the blocks, a realloc into the gap before its own block, growth by several threads at once | blocks follow each other and never overlap; nothing is lost from the list; a call fails only without memory |
| Application (`app/app.c`, `sys/*/init.c`, `hw/*/init.c`) | the singleton configuration | bringing up, event dispatch, taking down | run loop, hid, LED, watchdog, USB | init on worker 0 against events on worker 1; a part that fails to come up | what a handler uses is up; taken down in reverse |
| MQTT (`net/mqtt/*.c`) | a connection, an outstanding publish, subscribe, unsubscribe, the topic table | connect, publish, subscribe, unsubscribe, poll, disconnect, deinit | streams, application threads | acks late, missing, for an earlier id; a send that fails half-way; callers that wait against a poll | what is pending belongs to the connection; each request is reported once, and ends |
| Sockets and listeners (`net/{posix,pico}`) | contexts, rings, datagram queues, a pool of streams | open, listen, read, peek, write, close | receiving threads; lwIP callbacks | a close while a thread calls back, reset against claim, datagrams in one ring | no byte lost or mixed; nothing freed is used; a close ends |
| NTP (`net/ntp`) | the client, its registration: pointer, interval, next attempt, last second | init, deinit, register, deregister, read | sockets, hid; worker 0 against a handler on another | a device polled before its globals are stored; readings that outlast their registration | client and device agree; a device that has told no time is due again soon |
| Buses, converters, PWM (`hw/pico/{i2c,spi,gpio,adc,dma,pwm}.c`, `hw/linux/{pwm,i2c,spi}.c`) | handle pools, claimed pins, adapters, captures, slices | init, read, write, capture, deinit | interrupts, the other core, sysfs | reference counts of shared adapters; partitions ended under the interrupt; failures half-way | a peripheral serves just the handles that own it and is given back once |
| Serial lines (`hw/{pico,posix}/uart.c`) | rings, a thread or an interrupt | init, read, write, callback, close | interrupts, threads | the transmit interrupt against the write that primes it; push-back against receiving | bytes once, in order; nothing after the close |
| Watchdogs (`hw/{pico,linux}/watchdog.c`) | timeout, last feed, feeding | init, enable, poll, reset, deinit | hw_poll, the kernel | an enable or reset that fails half-way; a feed decided before and made after a disable | fed while it should be, and reboots only when asked or starved |
| GPIO on Linux (`hw/linux/gpio.c`) | handles, chip, line files, the epoll thread | init, set, callback, deinit, exit | the kernel, the edge thread | file numbers reused while an event waits | an edge calls back its own line only; nothing leaks |
| LEDs (`hw/led`, `hw/*/led_*.c`) | a pool of handles, a blink and its timer each | init, set, blink, stop, deinit | timers, hw_poll, GPIO, PWM, Wi-Fi chip, NeoPixels | the timer's callback against stop and the next blink | it blinks as often as asked and ends as it should |
| Wi-Fi (`hw/pico/wifi.c`) | busy flags, the saved network | scan, connect, disconnect, poll, deinit | the CYW43 chip, its callback | calls from the callback in the middle of a poll; links that go up without an address | each operation is told once how it ended |
| USB hosts (`hw/{pico,libusb}/usb.c`, `hw/usb`) | a cache of devices, the callback | open, set_callback, close | TinyUSB, libusb's thread, hid | replay against hotplug; close from the callback | attached and detached told once, in turn |
| Touch and gas sensors (`dev/{ft6236,stmpe610,bme680}`) | tracks, FIFO, configuration | init, poll, read | I2C, SPI, interrupt pins | contacts that lift unseen; samples read in pieces; a measurement not ready | the last thing told is how it is; a reading is of the measurement asked for |
| Displays (`pix/{display,poll}.c`, `dev/sdl`) | a pool of operations, polling flags, due times | init, poll, deinit | any thread that polls | two polls at once, a deinit while one draws | one draws at a time; none starves; nothing is drawn after deinit |
| Scanner and tokenizer (`sys/string/{scanner,tokenize,quoted,escape,rune,iostream}.c`) | the position in a stream | next, text, parse | I/O streams | looks ahead that are undone by a seek, malformed runes, quotes that do not end | tokens cover the text without a gap; each is what its flags ask for; what is parsed is what was quoted |
| Pixels, dates, addresses | none, or a cursor | conversions | | edge cases of arithmetic | the results |

## The modules

Every variable carries the name of the field it stands for where there is one, and `pc[t]`, `at` or
`op` says where a thread is between two steps of a call.  A step is what the code does under one
lock, or one access to shared state outside locks.

| Module | Models | Notes |
| --- | --- | --- |
| `EventQueueSpec` | what an event queue promises | a sequence, a shutdown flag and the last reply of every caller; each call is one action |
| `EventQueue` | `sys/event/pushpop.c`, `lock.c`, `size.c`, `init.c` | each call as a path of steps `enter`, `test`, `act`, `leave`, `broadcast` and, for consumers, the two-lock wait; `PoolLock` selects the build; the condition variable is the host's (pthread), which wakes whoever waits; implements `EventQueueSpec` under `INSTANCE ... WITH` |
| `EventQueueProofs` | | the theorems about it, with the refinement |
| `RunLoop` | `sys/event/runloop.c` | queues as `EventQueueSpec` describes them, one step per call; worker 0 is the calling thread; `held` is the queue pointer a call read before it unlocked the singleton; `stores` holds what a shutdown has still to store, so that relaxed stores can become visible in either order |
| `RunLoopProofs` | | exclusion of runs, joining of workers, queues that outlive calls, exit values, draining |
| `PicoCond` | `sys/pico/cond.c` | the semaphore is outside the critical section, as in the code; `owed` is a history variable for broadcasts; the theorems about waiters and permits are at its end |
| `WaitGroup` | `sys/pthread/waitgroup.c`, `sys/pico/waitgroup.c` | `permits` says which; `group` and `mine` number the uses of the pool slot |
| `SysHandles` | `sys/{pthread,pico}/{mutex,thread}.c`, the pool of `cond.c`, `sys/{openssl,pico}/hash.c` | a claim or a release is one step; a handle is tested outside the lock that guards the pool; a byte of a hash is the number of the update it came with, and an update is a step for every chunk it reads |
| `FlashPause` | `sys/pico/flash_pause.c`, the callbacks of `hw/pico/flash.c` | two program counters, the flags, the event latch SEV sets and WFE clears, the lock |
| `Blocks` | `hw/block/block.c`, `hw/pico/flash.c` | handles, reservations and the sectors an erase or a write touches; addresses in half sectors |
| `Timer` | `sys/linux/timer.c`, `sys/pico/timer.c` | `build` says which; `<<s, g>>` is the g-th timer of slot s, so that a notification that comes late can be told from one of the slot's next timer |
| `HidTimer` | `hid/{hid,event,timer}.c` | the pools of devices and events, and the timer devices with their callbacks; the scan of a pool and the assignment to what it found are two steps under `lock`, or under none with `Locked = FALSE`; timers are taken as `Timer` shows them to be, the queue as `EventQueueSpec` describes it; `stale` is a history variable; the theorems about it are at its end |
| `HidDevices` | `hid/{gpio,adc,signal,generic,iostream,wifi,keyboard,hid}.c` and others | every other kind of device, one thread that registers, interrupts, callbacks and the poll at any step; a pin has a level and the state its device last told |
| `Heap` | `sys/mem/{arena,mem}.c` | an arena as a value, each call of it as a function (it runs under one lock); addresses count from the payload's first byte; the chain of arenas, a step for every arena that is looked at; the walk to the tail is one step, since the tail it ends at is the last arena when it looks there; so is the search for an owner, since nobody else may move or free the block and looks at other arenas find nothing; an address is a pair of an arena and an offset |
| `HeapProofs` | | the arithmetic of one arena, that no allocations overlap, who owns what is in an arena, why a call fails |
| `App` | `app/app.c`, `sys/{posix,pico}/init.c`, `hw/{pico,linux}/init.c` | a step for each part brought up or taken down; events popped by worker 1 meanwhile |
| `Stdio` | `sys/posix/stdio.c`, `sys/linux/stdio.c`, `sys/pico/stdio*.c` | the terminal and its thread, or the one stream over a UART with its interrupt |
| `Printf` | `sys/printf` | the format is chosen character by character as it is read; floating point is `m * 10^e`, exactly; a reference definition of each conversion is what `PrintfSound` compares with |
| `Scanner` | `sys/string/{scanner,tokenize,quoted,escape,rune,isa,iostream}.c`, `rune.h` | a text is a sequence of bytes, a call one step that returns where it leaves the stream; a rune is decoded where the code decodes it; `ScannerSound` says anew what a token of each class is |
| `Mqtt` | `net/mqtt` | a handler is one step, as it holds the lock for all it does; what happens outside the lock is a step of its own; the broker answers late, unprompted, never; requests are numbered beside their ids, which wrap |
| `MqttProofs` | | the theorems about it |
| `SocketPosix` | `net/posix`, `sys/iostream` | contexts on the heap, slots of the stream pool, a receiving thread each; bytes carry the datagram they were sent in |
| `SocketPico` | `net/pico` | lwIP calls back between any two steps of a core that does not hold its lock |
| `Ntp` | `net/ntp`, `hid/hid.c` | worker 0's poll, its question and its two stores are steps; so are the calls of another worker and each global a registration stores, in any order; time in retry intervals |
| `PicoBus` | `hw/pico/{i2c,spi,gpio}.c`, `hw/deviceio` | two cores open, use and close devices of a counted I2C adapter and an SPI adapter with one owner |
| `PicoAdc` | `hw/pico/{adc,dma}.c` | the partitions of a capture, the interrupt that stages the next, and foreground calls |
| `PicoPwm`, `LinuxPwm` | `hw/pico/pwm.c`, `hw/linux/pwm.c` | a slice shared by two channels; sysfs files whose writes may each fail |
| `PicoUart`, `UartPosix` | `hw/pico/uart.c`, `hw/posix/uart.c` | two rings and an interrupt; a ring and a thread |
| `PicoWatchdog`, `LinuxWatchdog` | `hw/{pico,linux}/watchdog.c` | against time and a countdown that reboots |
| `LinuxGpio` | `hw/linux/gpio.c`, `hw/gpio/gpio.c` | file numbers are free for anyone once closed |
| `LedBlink` | `hw/led` | a pool of handles; the callback marks, the poll shows |
| `Ladders` | the init and deinit functions of `hw/linux/{i2c,spi}.c`, `hw/*/led_*.c`, `hw/posix/uart.c` | what each takes in turn, and gives back when a step fails |
| `PicoWifi` | `hw/pico/wifi.c` | the callback runs in the middle of the poll |
| `PicoUsb`, `LibUsb` | `hw/{pico,libusb}/usb.c`, `hw/usb/hid.c` | the cache of devices and the rounds of callbacks |
| `Ft6236`, `Stmpe610`, `Bme680` | `dev/*` | touch panel, resistive touch, gas sensor |
| `Displays` | `pix/{display,poll}.c`, `dev/sdl/sdl.c` | the pool, the choice of the display that is due, the claim of its polling flag |
| `MCRunLoop`, `MCSockets`, `MCPeripherals`, `MCPlatform` | | see below |

How they compose: `RunLoop` uses the interface `EventQueueSpec`, and `EventQueueProofs!Refines`
shows the ring buffer to implement it; `EventQueue` uses a condition variable as pthreads define it,
and `PicoCond` says under which discipline Pico's is one (see `Late` below).  `HidTimer` starts from
what `Timer` shows of a timer: callbacks that do not overlap, a slot that is not handed out under
one, a deinitialisation that waits; so does `LedBlink`.  `SocketPosix` includes the pool of
`sys/iostream` its streams live in, `Ntp` opens and closes a stream for each reading, which a late answer cannot outlive,
`Blocks` takes an erase to succeed or fail as `FlashPause` makes it, and `App` takes each part as up
or down.

`MCPeripherals`, `MCPlatform` and `MCSockets` put modules that do not interact beside each other: in
a behaviour, `which` names the one part that moves, and the invariant of the others says nothing.
The state space is the sum of those of the parts, not their product.  In the first two all parts
share the variables `v1`, `v2`, ..., instantiated for the variables of whichever part it is.
`MCRunLoop` does the same with two values of the constants of `RunLoop`.  To check a part
alone, write a configuration for its module with its constants from `Peripherals.cfg`, where names
that several modules use have a part's name in them (`UartReadsInTime`, `UsbQuiet`, `HidSettled`); the
`INSTANCE` in the `MC` module says which is which.
`Peripherals.cfg` declares the devices to be alike and the threads to be alike (`Alike`): no module
orders them or chooses one of them, and the properties name none; pins, kinds and the like are told
apart and are not among them.  `SocketPosix` takes a free context or thread with `CHOOSE`, and so
runs without symmetry.

## The runs

| Run | What it asks | Instance |
| --- | --- | --- |
| `EventQueueHost` | ring and lock invariants, refinement, no stranded consumer, shutdown releases | 2 threads making all eight calls for ever, 2 events, capacity 2, host build |
| `RunLoop` | one run, joins, drain, exit value, live queues; a shutdown ends the run | 2 callers of run, 1 further worker, 1 client, 1 event; as a host build with 2 exit values, program order and no failures, or as a Pico build with polling workers that may fail to start and relaxed stores |
| `RunLoopLostEvent` | (violated) accepted events are dispatched | worker 0 alone, 2 clients |
| `PicoCond` | no surplus of permits, clean deinitialisation that ends, broadcast wakes all | 3 threads, timed and untimed waits, notifications with and without the mutex |
| `FlashPauseBackToBack` | (violated) core 1 parked | without pauses between operations |
| `Heap` | no overlap, lists and counters agree with what the application has, only the system's own pointers go to it, no failure while there is memory, calls return | 2 threads, 3 allocations at a time of 1 or 5 bytes, 2 arenas of 12 |
| `HeapGrowth` | (violated) a new arena holds the request it was made for | 1 thread, allocations of 5 and 11 bytes |
| `Mqtt` | what is pending belongs to the connection, a topic slot to one request, each request is reported once, success means the broker served it, nobody sleeps without cause, a request ends | 1 caller, 1 poller, 2 topic slots, 2 requests, 2 connections, 1 unprompted packet, 4 message and 5 packet ids |
| `Sockets` | bytes kept, own and live contexts only, the Pico's pool, the NTP device; a close ends and an end is noticed | 2 contexts, 2 threads or cores, rings and queues of 2, 2 openings, one talking peer with 3 or 2 bytes; NTP intervals of 1 and 3 retry intervals, readings of up to 3, server seconds 1 and 2 |
| `HidTimer` | an event slot, a timer, a device in one hand; a one-shot device neither forgotten nor given back before its event | 2 workers, 2 timers, 2 devices, 2 events, a queue of 1 |
| `Peripherals` | `BusesSound`, `OutputsSound`, `ChangesTold`, `TextSound` | 23 parts, each on the smallest instance in which its hazards happen |
| `Platform` | `PlatformSound`, `CallsReturn` | timers (both builds, 2 users, 2 callback contexts, 1 slot, 2 timers one after another), wait groups (both builds, 3 threads, 2 groups in the slot, INT_MAX 3), mutexes and threads (2 threads, 2 slots), hashes (either library, 2 threads, 1 slot, 2 updates of 0 to 3 bytes read 2 at a time), the application (both platforms, all flags, 1 event), the flash pause (both disciplines) |

What the combined properties are made of, each a conjunction of named parts in its module:

- `BusesSound`: `BusSound`, `CaptureSound`, `UartSound`, `UartPosixSound`, `PwmSound`,
  `LinuxPwmSound`.
- `OutputsSound`: `WatchdogSound`, `LinuxWatchdogSound`, `GpioSound`, `ReadNeverBlocks`,
  `BlinkSound`, `LaddersSound`, `DisplaysSound`, `FlashSound`.
- `ChangesTold`: `WifiSound`, `UsbSound`, `LibUsbSound`, `TouchSound`, `StylusSound`,
  `SensorSound`, `HidSound`.
- `TextSound`: `StdioSound`, `PrintfSound`, `ScannerSound`.
- `PlatformSound`: `Serialised`, `QuietAfterDeinit`, `NoStrayAlarm` of `Timer`, `ReturnsAtZero`,
  `StragglersLeave` of `WaitGroup`, `HandlesSound`, `Stands`, `ParkedWhileFlashing` of `FlashPause`.
  `CallsReturn`: deinitialisations of timers and waits for groups return; core 1 leaves the pause
  point (`Resumes`) and an operation on the flash ends (`OperationEnds`).

Every part of each has a mutant of its own in `PROJECT.json`, so that none of them is there for
show.

Why the bounds are enough for the cases that matter: a capacity of 2 is the smallest at which an
overwriting push moves the tail to a slot other than the one it filled, and at which head, tail and
count can disagree in two ways; two threads are a consumer and whoever steals its event, three the
least at which a broadcast, a late waiter and a woken one meet.  Two callers of run include a run
after a run as well as two at once.  One timer slot makes every new timer a reuse, two of them the
least for a late notification.  INT_MAX is 3 so that the overflow is in reach.  Pools of two devices
and two events, with two callbacks and two workers, are the least at which a slot changes hands
while another is in use, and a queue of one is full in every second push.  An arena with room for
three blocks of one byte, or one of five and one of one, is the least in which a realloc moves into
the gap before its own block; headers of 1 and alignments of 2 make every rounding matter.  Two
requests and two connections of the MQTT client are the least at which an answer to a request of the
last connection can reach this one; ids of 4 and 5 values wrap within a behaviour.  Rings of 2 with 3
bytes wrap, are full and are read across their end.  Three partitions of a capture are the least with
one filling, one staged and one reported.  A FIFO of 8 bytes holds two samples.  The scanner's texts
are all short ones of the characters it tells apart, kind by kind, and longer ones that reach what
those cannot.  Clocks run far enough for two timeouts and a boundary in between (`DogHorizon`,
`LinuxDogHorizon`, `TouchHorizon`, `DisplayHorizon`).

What grows without bound otherwise is bounded by `MaxTimers`, `Groups`, `IntMax`, `Capacity`,
`MaxLive`, `MaxArenas` (which is when the system runs out of memory), `MaxRequests`, `MaxLinks`,
`MaxPushed`, `PosixSent`, `PosixOpens`, `PicoSent`, `PicoOpens`, `Seconds`, `Longest`, `UartBytes`, `TtyBytes`,
`MaxPlugs`, `MaxRuns`, `Most`, `Inits`, `MaxText`, `MaxLost`, `MaxDigits`, `MaxBytes`, `MaxUpdates`,
`MaxEvents` and the horizons; a client's calls are otherwise unlimited.  Deadlock is checked in the
runs of `EventQueue`, `RunLoop`, `PicoCond` and `Heap`, which never come to an end.  In
`HidTimer`, `Mqtt`, `Sockets`, `Peripherals` and `Platform` the system really may stop: the application need not
call again, a clock reaches its horizon, a device is not plugged in again, `app_main` returns.

Every action of every part is taken in its run.  Seven branches inside actions are not, which the
code has against what the disciplines below exclude (a capture without DMA channels, a notification
that finds no device) or what does not happen while the properties hold (a host's waiter woken above
zero).

### What is asked of the application

Constants that are disciplines of the application or assumptions about its surroundings, not of the
code, are named for what they require.  What happens without them is listed under "Disagreements"
where a comment or document promises otherwise.

- `RunLoop`, `FlashPause` `Discipline` ("started", "stopped": clients call only between init_fn
  and exit_fn of worker 0; "launched", "settled"); `PicoCond` `Late`; `WaitGroup` `Settled`; `Timer`
  `Prompt`; `HidTimer` `Fresh` (no device is registered while another is deregistered, or while an
  event of one that was is pending), `Locked` (a Pico build).
- `SysHandles` `Disciplined`: a mutex is given back once nobody is about to take it, and is given up
  by whoever took it; on the Pico, whose hashes have no lock, a hash is used by one thread at a time.
- `SocketPosix` `KeepsDatagrams`, `ClosesObserved` (both FALSE: an accept callback closes its datagram
  streams itself; a stream with a callback is closed by that callback).  `SocketPico` `ReadsAlone`,
  `AnswersFirst`.
- `PicoBus` `FailsAlone`, `SpiAlone`; `PicoAdc` `Starved` (FALSE: there are DMA channels),
  `ReadsApart`, `EndsApart`, `HandlerInTime`; `PicoUart` `ReadsInTime`; `PicoPwm`
  `ChannelsApart`, which `LinuxPwm` asks for too.
- `LinuxGpio` `ReopensLater`, `ExitsClean`; `LedBlink` `Polled`; `Ladders` `CloseAlone`; `Blocks`
  `EndsAlone`; `Displays` `InitsAlone`.
- `PicoWifi` `Patient`; `PicoUsb` `Settled`; `LibUsb` `Quiet`; `Ft6236` `Settled`; `Stmpe610` `Whole`;
  `HidDevices` `EdgesApart`, `PollApart`, `Settled`, `SlowEdges`.
- `Stdio` `DetachesFirst`, `ReadsApart`; `Printf` `Fits`; `App` `Handlers` (whose handlers rely on
  what worker 0 brings up).

## Fairness

- `EventQueue`: a thread inside a call goes on, and gets a lock it keeps asking for (strong
  fairness of the steps that lock: neither pthread mutexes nor the SDK's spin locks starve a
  waiting thread for ever under a preemptive scheduler); a deadline passes.  No thread must make a call.
- `MCRunLoop`: every runner, worker and call goes on (weak fairness: the kernel schedules
  threads, and on Pico each worker has a core).  A runner need not begin, a client need not call.
- `PicoCond`: strong fairness of a thread inside a call: it is scheduled, gets the mutex and the
  critical section in the end, and its timeout expires.
- `Heap`: weak fairness of a thread inside a call.  A pthread mutex is handed over under it, as a
  call holds the chain's lock for one step only.
- `Mqtt`: weak fairness of the polling thread (the application calls `net_poll` again and again, as
  net.h asks) and of what it has begun; strong fairness of each timeout, as a request that stays
  outstanding is older than `timeout_ms` at some poll and remains so.  Nothing of callers, nothing of
  the broker, which need not answer or keep the connection.
- `MCSockets`: weak fairness of receiving threads, of a close that waits for one, and of a
  listener's thread and its callback: they are threads of the kernel's.  Nothing of the peer or the
  application.  The end of a connection, or of a datagram stream whose socket fails, is looked for on
  the contexts whose peer talks; the others are like them.
- `MCPlatform`: for timers, strong fairness of the steps of a call or callback under way.  It is
  needed only by `sys_timer_deinit`, which looks every millisecond whether a callback is running;
  the slot's next timer may be calling back whenever it looks, but not for ever.  For wait groups,
  weak fairness of each waiter's steps, of the `done`s the protocol owes the owner, and of the end
  of a deinitialisation.  For the flash pause, weak fairness of each core, and strong fairness of core
  1's attempt to take the flash lock, as core 0 gives it up between operations.
- `MCPeripherals`, `HidTimer`: none; their properties are safety properties.

Nothing assumes that an expiry is prompt, that somebody shuts the loop down, or that events come.

## What is proved

Every theorem is about `Spec` without fairness, for arbitrary constants that satisfy the `ASSUME`s
of the module (sets are disjoint, the capacity is positive, `NoEvent` is no event).

- `EventQueueProofs`: `TypeCorrect`, `RingCorrect`, `ActCorrect`, and `Refines`, for every
  capacity, number of threads and both builds.  `RingInv` says that the head is `count` places
  after the tail and exactly those slots hold events; it is not inductive by itself, since an
  action relies on what an earlier step tested: `ActInv` keeps what a thread found (room for
  try_push, an event for pop, not shut down), `LockInv` keeps everybody else out in between,
  `CallInv` says which program counters still owe an answer.  The conjunction `IInv` is
  inductive (`TypeStep`, `LockStep`, `RingStep`, `ActStep`, `CallStep`).  The refinement maps the
  ring to the sequence of its slots from the tail on (`ContentsAppend`, `ContentsOverwrite`,
  `ContentsPop`); the arithmetic of positions is in the `Place` lemmas.
- `RunLoopProofs`: `RunsExclude` and `WorkersAreJoined`, for every number of callers, workers and
  clients, with failing threads, relaxed stores and no discipline assumed.  `IInv` adds to `OneRun`
  that the wait group counts exactly the workers that exist, all of them launched by the run that
  holds the singleton (`Counted`).  `TypesKept` needs no discipline either.  The other three assume
  the discipline the run has too, calls between init_fn and exit_fn of worker 0 (`Disciplined`):
  - `QueuesOutliveCalls` (`UsesLive`): `Confined` says that a call uses the queue of the run that is
    on, and that no call is under way when worker 0 has gone to the join;
  - `RunsReturnWhatWasAsked` (`ReturnsRequested`): `Asked` says what a shutdown has still to store
    when its flag is seen, in either order of relaxed stores;
  - `RunsDrain` (`Drained`), under `Lossless`: there is a further worker, the workers block and all
    start, or at most one client calls; without it the code loses events, as `RunLoopLostEvent` shows.
    `Staffed` keeps every worker at work until the queue is closed and empty, `Emptied` says that once
    worker 0 has left its loop whatever is queued has a worker.
- `PicoCond`: `TypeCorrect`, `CountersCorrect`, `PermitsBounded`, `DeinitIsClean`, for every
  finite set of threads.  `IInv` adds who owns the critical section (`PoolInv`), who closes
  (`ClosingInv`), and bounds on the permits (`Bounded`), so that counters that are decremented
  before they are tested cannot go below zero.
- `HeapProofs`: `HeapInvariant` and `NoOverlapAlways`, for every number of threads and arenas, every
  request, header size, alignment and granule.  The lemmas on one arena (`AllocGood`, `UnlinkGood`,
  `ResizeGood`, `ReallocGood`) say that each call keeps the blocks apart (`Tiled`); `Inserted` and
  `Removed` say where a block is in the list afterwards.  `HeapInv` adds the types, without which the
  arithmetic says nothing, and for every place of a call what its thread knows there (`Fits`): that
  the arena it is about to look at exists, and that its request is positive.  It is stable under the
  steps of others because arenas are only appended while a call is under way. `AccountedAlways` and
  `SystemGetsItsOwnAlways` rest on `OwnInvariant`: what is in an arena has one owner, the
  application or the call of one thread (`Owned`), and a thread knows at each place which of its
  pointers is in which arena, and which arenas cannot have it (`Knows`).  That a list's sizes add up
  to what is used is a fact about a recursive function, `Total`: that a function with its equations
  exists and is the only one is shown by the least place where that would fail (`AddsExists`,
  `TotalIs`), and what an insertion or a removal does to it from the equations.
  `FailsOnlyWithoutMemoryAlways` is an action property: who comes to look why it has no arena was
  refused one, or somebody appended one meanwhile, to which it goes on (`Overtaken`).
- `MqttProofs`: for every number of threads, topic slots, requests and connections, and whatever the
  broker answers or does not.  `TypeCorrect`; `NothingOutlivesTheConnection`
  (`OutstandingOnlyWhileConnected`); `TopicsKept` (`TopicsOwned`), with a slot reserved for every
  subscription under way under an id nobody else has (`Owned`); `ReportsAreOnce` (`ReportedOnce`),
  as a request is not staged yet, or in one slot, or on its way to one callback, or reported (`Once`);
  `SleepersAreWoken`
  (`SleepersHaveCause`) if one thread makes the calls that sleep (`OneCaller`: `net_mqtt_init` takes
  no lock and wakes nobody); `ReportsAreTrue` (`DoneMeansServed`) if there are fewer requests than
  packet ids (`NoWrap`), by `Faithful`: a packet under way has its request's id and no other request
  has it, and an answer under way is to what the broker did.
- `MCPlatform`: `PlatformAlwaysSound`, which is `PlatformSound` for any number of users, callback
  contexts, timers, waiters, groups, slots, jobs, bytes and events, under the disciplines of the run
  (`Prompt`, `Settled`, `Disciplined`, both of `Discipline`, and no handler of the further worker
  that relies on `on_start`).  Its inductive invariant is that of the part the behaviour is of, each at the end of
  its module:
  - `Timer`: one thread has a slot's timer in hand, the latest of the slot (`HeldByOne`); what its
    user and a callback know of it at each place (`UsersInv`, `ContextsInv`); what has been stopped
    stays so, on Linux because the slot's next timer is another one (`StoppedInv`);
  - `WaitGroup`: `CounterInv`, what a waiter that has looked knows of the counter (`WaitsInv`), and
    that the Pico's semaphore has a permit for each waiter that is blocked as soon as the counter is
    0, and none before (`PermitsInv`);
  - `SysHandles`: a job made is in a slot, in the FIFO or with core 1 (`JobsInv`); an update that is
    under way is the last that began on its hash and has added the bytes it no longer has to read
    (`UpdatesInv`), from which the order of the bytes and their number follow; a digest is kept
    (`DigestInv`);
  - `App`: how far each of the two sequences has come says what is up (`UpInv`);
  - `FlashPause`: what each flag says about the other core's place (`Handshake`, `Alone`).
- `HidTimer`: `HidTimersSound` (`OneOwner`, `TimersOwned`, `OneShotsKept`) and `OneShotsStay`
  (`OneShotValid`, an action property), for any number of workers, timers, devices and events and any
  queue, where pools are scanned under the lock and no device is registered while another is
  deregistered or while a stale event is pending (`Locked`, `Fresh`).  None of the four is inductive.
  `EventsInv` says where an event in use is: in the queue once or in one hand, and a free one names
  nothing.  `LockInv` keeps what a scan has found free until it is taken.  What a thread knows of the
  device it has in hand, place by place, is `KnowsNew` (it registers it), `KnowsWhole` (it deregisters
  it with its timer), `KnowsLast` (it gives a one-shot device back) and `KnowsFired` (a timer calls
  back).  A device is in one hand (`OneHand`), or goes with one event (`OneTaker`), or is a worker's to
  deregister (`OneKeeper`), and has one of these when it has lost its timer (`Kept`).  `TimerInv` and
  `RegisterInv` tie timers to devices; `NamesInv` says that the device an event in the queue names is
  there, unless the event is stale, in which case no registration is under way that could take the
  slot.  Each action has its lemma (`PushedStep`, ...), with a step for each conjunct.
- `MCSockets`, about three of its parts, for any number of contexts, slots, threads, cores and bytes:
  - `UsesOwnAlways` (`UsesOwn`), where the application keeps no datagram's stream past the accept
    callback and leaves a stream with a callback to that callback (`~KeepsDatagrams`,
    `~ClosesObserved`).  By `OwnInv` of `SocketPosix`: the shape of the listener and the application's
    stream at each place (`Shapes`), a stream in a slot has its live context and no other stream has
    it (`ContextsOwned`), a receiving thread has its own (`ThreadsOwn`), the application and the
    listener theirs (`AppOwns`, `ListenerOwns`).
  - `PoolAlwaysSound` (`PoolSound`), where no datagram comes between the two halves of a read and a
    listener outlives its streams (`ReadsAlone`, `AnswersFirst`).  Error callbacks and connections
    that lwIP closes itself come at any step, those of `net_open` on another core included: whichever
    it is, the stream that results knows that its block is gone, and no slot is lost or owned twice.
    By `PoolInv` of `SocketPico`: what each core knows of the slot it is at
    (`CoreOwns`), that a slot nobody owns has nothing and a core is at work on a stream without
    its callbacks (`SlotOwned`), that a listener that has gone leaves no datagram's stream
    (`ListenerKept`), and `Kept`: the bytes read, the byte pushed back and the chain are what was
    sent, and the ring of lengths cuts the chain where the datagrams end (`QueueKept`).  A datagram
    that arrives adds a cut behind the last (`QueuePush`), one that has been read takes the first
    (`QueuePop`).  The types (`PoolTypes`) are the one part TLC cannot evaluate: they hold infinite
    sets of bytes and lengths.
  - `NtpAlwaysSound` (`NtpSound`), for all intervals, seconds and lengths of readings, with nothing
    asked of the application.  `NtpInv` knows how far the application's call has come (`CallKnows`:
    within a registration the client may be missing, but never the device), that a reading begun in a
    registration counts as its own only while the device is there (`ReadingKnows`), and what no
    reading that overlapped a registration has touched (`Undisturbed`): its last second is none until
    it has told one, so that its first answer is told, and it waits for an interval only with an
    answer in hand or told.

The hypotheses of the theorems are disciplines of "What is asked of the application", or, like
`Lossless`, `OneCaller` and `NoWrap`, say of the sizes of constants what the property needs; they
hold in the runs that check the same property.  Every inductive invariant was checked by TLC, on the
instance of its run, before it was proved.

Only model-checked:

- liveness, which rests on fairness and is not reached by TLAPS here: `ShutdownEndsRun`,
  `DeinitReturns`, `BroadcastWakesAll`, `CallsReturn`, the end of requests and closes;
- what is said by recursive functions or folds over data, for which there is no induction:
  `BytesKept` of `MCSockets`, `FlashSound` in `OutputsSound`, and `TextSound`, whose `Printf` and
  `Scanner` are about the digits of numbers and the characters of texts;
- `BusesSound`, `OutputsSound` and `ChangesTold` of `MCPeripherals` but for that: conjunctions of two
  dozen parts, most of them one device and one interrupt, of which none has been proved.

## Disagreements with the documentation

Three runs are expected to find a violation.

- `RunLoopLostEvent`: `sys_runloop_shutdown` stores the request before it closes the queue
  (`runloop.c:326-327`).  Worker 0 leaves when it sees the request and an empty queue; an event
  that `sys_runloop_post` accepts after that, and before the queue is closed, is never dispatched
  unless another worker is there.  `runloop.h:24`: "Shutdown stops new intake, drains queued work,
  and returns the supplied exit value once workers exit."
- `FlashPauseBackToBack`: a request does not clear the acknowledgement of the last one
  (`flash_pause.c:47-51`), so a second operation begun right after the first takes it for its own.
  `flash_pause.h:30`: "Park core 1 in RAM while a core-0 flash operation is active."
- `HeapGrowth`: a new arena has the payload of the last one whenever the request is no larger than
  that (`mem.c:56-57`), but a request needs room for its header and alignment too.  One that is
  within a header of an arena's payload fits no arena of that size: `sys_malloc` appends arenas
  until `malloc_fn` refuses, and then returns NULL.  (Compiled on Linux with `sys_init`'s arena of
  4000 bytes and a request of 4000, the code does that.)  `mem.c:43-45`: "Compute the size of a
  newly appended arena. ... required_size Allocation size that triggered growth."

The following were found the same way.  The constant to change is given: in the configuration of the
run that has the module, it makes TLC show the behaviour as a violation of the property named, or of
the part of a combined property that is; constants have the names of their modules here.

Threads, queues, timers, memory:

- `RunLoop`, `Discipline <- ` {"stopped"}, `ShutdownEndsRun`: a run resets its flags after it has
  published its queue (`runloop.c:278-283`), and forgets a shutdown asked for in between.
  `runloop.h:144`: "Safe to call from any thread or event handler."
- `RunLoop`, `Discipline` {"started"}, `UsesLive`: post and shutdown use a queue pointer they read
  under the lock after giving the lock up (`runloop.c:323-327`, `335-341`), and the run may return
  and its caller free the queue in between.  `runloop.h:155`: "Safe to call from any thread while
  the run loop is running."
- `RunLoop`, `Relaxed = TRUE` without further workers and with two exit values, `ReturnsRequested`:
  exit value and request are two relaxed stores, so worker 0 may see the request first and return 0.
  `runloop.c:48-51` calls the flag "self-contained - nothing else needs to be ordered relative to it".
- `PicoCond`, `Late = TRUE`, `BroadcastWakesAll`: a wait that begins after a broadcast may take the
  permit of a wait the broadcast woke, which sleeps on.  `cond.h:121`: "Wakes up all threads
  waiting on the condition variable."
- `WaitGroup`, `Settled = FALSE`, `Builds = {"pico"}`, `ReturnsAtZero`: a wait of the next round
  takes a permit of the last and returns above zero.  `waitgroup.h:105`: "Blocks until the wait group
  counter reaches 0, then returns."
- `WaitGroup`, `Settled = FALSE`, `Builds = {"pthread"}`, `StragglersLeave`: a waiter that
  deinitialisation has woken looks at the counter of the group that took over the slot.
  `pthread/waitgroup.c:114-116`: "there's nothing for a woken waiter to race against afterward".
- `SysHandles`, `Disciplined = FALSE`, `HandlesSound`: on the Pico a mutex is given back to the pool
  while it is held; in either build a thread that has tested its handle takes whatever has the slot
  then.
- `sys_hash_finalize` returns NULL when the library fails, but a digest of zeros if it is called
  once more (`openssl/hash.c:269-274`); `HandlesSound` admits it (`Cleared`).  `hash.h:131-132`:
  "Pointer to the computed digest ... or `NULL` on failure."
- `Scanner`: a token that is a lone quote, or ends in an escaped one, ends in its quote though the
  string was never closed.  `scanner.c:115-116`: "the caller can tell the two apart by checking
  whether the token's last byte is quote".
- `Timer`: on Linux a notification of a deleted timer may call back the slot's next timer before
  its interval has passed (`linux/timer.c:46` looks at the slot only); the model admits it, and no
  property forbids it.  With `Prompt = FALSE`, on Pico, the same of an alarm interrupt slower than
  a deinit, an init and half a start on the other core: it may call back a one-shot timer whose
  alarm has not been added yet, and which is therefore not cancelled (`NoStrayAlarm`).
- `App`, `Handlers` with "worker 1" added, on any platform, `Stands`: a second worker dispatches
  events while worker 0 is still in `on_start`, or before.  `app.h:94` and `app.h:130` call on_start
  "once, on the main worker, before the run loop starts dispatching events", and `app.h:173` calls
  the HID instance "Never NULL once app_main() has called on_start".
- `Stdio`, `DetachesFirst = FALSE`, `LineSound`: the callback of the UART stream survives `sys_exit`
  and is called after the next `sys_init` (`stdio_uart.c:137` allocates the stream anew, the
  callback is the module's).  `ReadsApart = FALSE`: with the callback reading too, what the program
  reads is out of order.
- `Printf`, `Fits = FALSE` admits what the model then leaves undefined: a zero-padded width of 64 or
  more writes past a buffer of 64 characters for 32-bit numbers, and the bound for 64-bit ones
  counts the zeros but not sign and prefix; `%.7g` to `%.9g` of a number with the exponent -4 reads
  past the ten powers of ten (`putf.c:408-411`).  `printf.h:45` documents `%80d`.  Zero padding of a
  floating-point number goes before its sign; the model has that as it is.

Networks:

- `SocketPosix`, `ClosesObserved = TRUE`, `UsesOwn`: a receiving thread leaves the wait group before
  its last callback (`posix/socket.c:250`), so a close on another thread frees the context under it.
  A callback that closes its own stream while data still comes joins itself, as `TODO.md:273`
  says; the model lets it close at the end of file only.
- `SocketPosix`, `KeepsDatagrams = TRUE`, `UsesOwn`, and `SocketPico`, `AnswersFirst = FALSE`,
  `NoFreedPcb`: a datagram stream handed to an accept callback answers through its listener's socket or
  control block, which the listener's end has closed.  `net.h:161-162`: streams "already handed to
  callback are unaffected".
- `SocketPico`, the error callback between `connect_done` and the end of `net_open`
  (`pico/socket.c:577-593`): `_net_conn_tcp_err_cb` says "never touch it again" (204-205) of the block,
  yet `net_open` aborts it or hands it to `tcp_recv()` without looking at `gone`.  The model lets it
  happen and records it (`fault` contains "opening", which TLC shows as an invariant's violation); what
  such a use does to lwIP's own state is not followed.  In the same window, before `tcp_recv()`,
  lwIP has no callback to give what arrives to: bytes are dropped, and a connection that the peer
  finishes is closed by lwIP (`ClosedUnseen`), so that its reader sees neither its end nor anything
  else, and a later use may be of a freed block (`fault` contains "closed").  `NoFreedPcb` promises
  neither of the two.  `ReadsAlone = FALSE`: lwIP runs from an interrupt (`CMakeLists.txt:67`
  selects threadsafe_background), and a datagram that arrives between two halves of a read is lost
  or torn.
- `iostream.c:110`: "Every backend must be able to undo the single-byte read it just did": the streams
  of UARTs, RTT and terminals cannot seek, so that a peek takes the byte.
- `Mqtt` remembers one identifier given up of each kind.  In the run ids do not wrap so soon that an
  answer is still under way; with `PidWidth = 2` a late answer to an earlier request completes
  another (`DoneMeansServed`).  A malformed answer gives neither event nor end until the timeout; a
  deinit beside a connect leaves the connection open.
- `Ntp`: a reading that was under way while the device was being registered may put its first time off
  by an interval, and its event goes to whichever device has the slot by then (`overlapped`; the
  comment at `ntp/hid.c:43-55` promises a retry soon after a failure).  Two registrations at once, which
  nothing excludes either, are not modelled.
- `net_ntp_read`: two short datagrams are read as one; `timeout_ms` of 0 always times out; seconds after 2036 are
  rejected, as the era is not considered.

Peripherals:

- `PicoBus`, `FailsAlone = FALSE`, `DevicesRun`/`RefsExact`: `i2c.c:334-337` rolls a failed opening back
  with the adapter started by it and another device open on it since.  `SpiAlone = FALSE`: of two cores
  opening an SPI adapter, the one that fails stops the other's.
- `PicoAdc`, `ReadsApart`, `EndsApart`, `HandlerInTime` FALSE, `Starved` TRUE, `CaptureSound`: a
  reading on another channel moves the multiplexer of a capture and stops the converter; a callback
  that ends the capture the foreground is ending gives the claim back twice; with a slow handler no
  partition is staged when one is full, and the capture stands still; a capture that gets no DMA
  channels leaves the divider of the captures for single reads.
- `PicoUart`, `ReadsInTime = FALSE`, `UartSound`: with the ring full the handler clears the interrupt
  and leaves the byte in the device, where nothing tells of it until another comes.
- `PicoPwm`, `LinuxPwm`, `ChannelsApart = FALSE`: two handles of a slice set each other's period
  and callback; a handle that fails to open unexports the channel of another.
- `LinuxWatchdog` keeps a history variable `refused`: an enable or reset that opens the file and is then
  refused its timeout leaves it open, counting and unfed until the next operation, and
  `LinuxWatchdogSound` speaks of behaviours without that.
- `LinuxGpio`, `ReopensLater = FALSE`, `ReadNeverBlocks`: an event of a line closed and reopened
  between epoll and the read makes the thread wait inside the read, with the lock
  held.  `gpio.c:571-572`: "the read is never going to block waiting for data".  `ExitsClean = FALSE`:
  lines of handles that are not given back stay claimed after `hw_exit`.
- `LedBlink`, `Polled = FALSE`, `BlinkSound`: a call on another thread and `hw_poll` both write the
  LED, and the later write need not be the later state.
- `Ladders`, `CloseAlone = FALSE`, `LaddersSound`: a transfer under way has its file closed under
  it; the mutex it holds is taken apart only afterwards.
- `PicoWifi`, `Patient = FALSE`, `WifiSound`: while nothing is busy the link is not polled, so that
  a link that drops by itself is never noticed; calls from the callback overwrite the busy flags of
  the poll they are in. `wifi.c:702-703`: "the one place that reacts to a link actually going down
  regardless of why".
- `PicoUsb`, `Settled = FALSE`; `LibUsb`, `Quiet = FALSE`: a callback attached from a callback, or while
  devices come and go, is told of a device twice, not at all, or
  once it is detached.  The cache drops what exceeds 16.
- `Ft6236`, `Settled = FALSE`, `TouchSound`: a contact first seen in the frame in which another is
  lifted gets its slot while that is not yet free.  `ft6236.c:64-66`: "so a lifted contact's slot
  becomes available again for whatever claims it next".  `Stmpe610`, `Whole = FALSE`: a transfer that
  fails within a sample leaves all later samples torn.
- `HidTimer`, `Locked = FALSE`, `OneOwner`: on a host the pools are scanned without a lock, but a
  thread starts for every expiry (`linux/timer.c:183-187`), and two may find the same event slot
  free (`event.c:39-41`): one event is pushed twice and the other lost.  `hid.c:8-11`: "Pico is the
  only platform in this build where the device pool below can genuinely be raced from two physical
  cores at once ... Host platforms keep the plain unlocked scan."
- `HidTimer`, `Fresh = FALSE`, `OneShotValid` or `TimersOwned`: an event still in the queue when its
  repeating device is deregistered names a slot that may then hold a one-shot device; freeing the
  event deregisters that one too if it has fired (`event.c:307-314`).
- `HidDevices`, `EdgesApart = FALSE`, `NeverPartlyFilled`: an edge finds a device whose registration
  has set its pin but not all of it.  `hid/gpio.c:70-72`: "this either sees the device fully
  registered or not found at all, never partially filled".  `PollApart` and `Settled` FALSE,
  `RightDevice`: a poll or callback that holds a device uses the one that took over its
  slot.  `SlowEdges = FALSE`, `LastEdgeTold`: the second of two edges within the debouncing time is
  dropped, and with it the level the pin stays at.
- `Displays`, `InitsAlone = FALSE`, `DrawsLive`: the users of SDL are counted without a lock, so
  that of two initialisations at once the second makes its window before SDL runs.  A deinit from the
  display's own drawing callback spins for ever, as it waits for the flag its own poll holds; the
  model has no such call.
- `Blocks`, `EndsAlone = FALSE`, `FlashSound`: a call that has tested its handle goes on with the
  slot after its release, and with whatever region is there next.

## What is not modelled

- Within the modelled parts: which of several free slots a pool hands out, where it makes no
  difference; `sys_event_queue_deinit` against calls of the queue in progress; the Darwin variants
  of timers and of the standard streams' thread; USB console and the buffers of RTT; the interrupt
  dispatch of `hw/pico/gpio.c`; the backends of `sys/iostream` over buffers and files; the bytes of
  an allocation (that a realloc copies them); the compensation formulas of the BME680; descriptors
  and names of USB devices; the text of topics and payloads; the colours of LEDs; baud rates and the
  other settings of lines.  The Pico SDK, lwIP, TinyUSB, libusb, SDL, the CYW43 chip, pthreads and
  the kernel appear as what their documentation says of the calls used.
- The peek of an event queue on Pico, for which `event.h` promises nothing.
- The predicates and comparisons of `sys/string` (`has.c`, `compare.c`, `trim.c`, `int.c`, `float.c`
  and the like), dates, the djb2 hash, random numbers, environment (`sys`), addresses (`net`), key
  codes (`hid/keycode.c`), pixels, colours, bitmaps (`pix`), the register tables of the ILI9341
  (`dev/ili9341`): conversions of one value to another, sequential and without state that outlives a
  call; unit tests reach them.
- Examples, tests, build files, vendored code.

## Plan

1. Done: models of the queue, the run loop, the primitives under them, the flash handshake, timers;
   memory; input devices; the application; standard streams and formatted output; scanners and
   hashes; networking; hardware; displays and sensors.
2. Done: theorems about the queue, the run loop, condition variables, the flash handshake, memory,
   the MQTT client, sockets and the NTP client, timers, wait groups, handles, the application and the
   timer devices.
3. Theorems about the parts of `MCPeripherals` that several actors can break: `RefsExact` of
   `PicoBus`, `CaptureSound`, `BlinkSound`.
4. Pure algorithms against reference definitions: dates, key codes, frame-buffer addressing of `pix`.
