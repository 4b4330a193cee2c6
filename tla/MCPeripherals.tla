---------------------------- MODULE MCPeripherals ----------------------------
(***************************************************************************)
(* The parts of the hw, hid, dev and pix layers, and what reads and prints  *)
(* characters, for TLC: a behaviour is one of the parts instantiated here,  *)
(* as Init chooses.  Only one part is there at a time, so they all have the *)
(* same variables.                                                          *)
(***************************************************************************)
EXTENDS Integers, TLC

CONSTANTS
  Cores, BusHandles, AppPins, FailsAlone, SpiAlone, Adcs, AdcSlots, Partitions,
  Starved, ReadsApart, CapturesEndApart, HandlerInTime, Callers, BufferSize,
  UartBytes, UartReadsInTime, RingSize, Chunk, TtyBytes, Slices, PwmChannels,
  Wraps, ChannelsApart, PwmHandles, LinuxChannels, Periods, DogTimeout,
  PollGap, DogHorizon, Devices, LinuxDogTimeout, LinuxDogHorizon, Lines, Files,
  Modes, ReopensLater, ExitsClean, Leds, Polled, Objects, Openers, Backends,
  LadderSlots, LedSlots, CloseAlone, Networks, Secured, Patient, Interfaces,
  UsbSlots, UsbSettled, MaxPlugs, Hotplugs, UsbQuiet, Ids, HasPin, Reconcile,
  TouchHorizon, TouchSettled, FifoDepth, SampleBytes, WholeSamples, Oversamplings,
  Heaters, Retries, MaxRuns, Pins, QueueCapacity, Kinds, EdgesApart, PollApart,
  HidSettled, SlowEdges, DisplaySlots, Interval, DisplayHorizon, InitsAlone, BlockSlots, Flash,
  Image, FlashCores, EndsAlone, Terminals, LineSize, UartFifo, Most, Inits,
  DetachesFirst, LineReadsApart, FlagChars, WidthDigits, PrecisionDigits, MaxDigits, Ints, Naturals,
  Floats, Outputs, DefaultPrecision, MaxPrecision, LowestFixed, PointerDigits,
  MaxText, MaxLost, Texts, FlagSets, Caps

VARIABLES
  which, \* the part whose behaviour this is
  v1, v2, v3, v4, v5, v6, v7, v8, v9, v10, v11, v12, v13 \* its variables, in the order in which it declares them

Bus == INSTANCE PicoBus WITH Handles <- BusHandles, pin <- v1, held <- v2,
    bus <- v3, spi <- v4, pool <- v5, given <- v6, call <- v7
Adc == INSTANCE PicoAdc WITH Slots <- AdcSlots, EndsApart <- CapturesEndApart,
    adc <- v1, claims <- v2, conv <- v3, pool <- v4, fore <- v5, reports <- v6
Uart == INSTANCE PicoUart WITH Threads <- Callers, MaxBytes <- UartBytes,
    ReadsInTime <- UartReadsInTime, ctx <- v1, dev <- v2, call <- v3,
    count <- v4
Tty == INSTANCE UartPosix WITH Capacity <- RingSize, MaxBytes <- TtyBytes,
    line <- v1, sent <- v2, ring <- v3, pushback <- v4, last <- v5,
    running <- v6, callback <- v7, rx <- v8, app <- v9, given <- v10,
    lost <- v11, freed <- v12
Pwm == INSTANCE PicoPwm WITH Channels <- PwmChannels, pool <- v1, slice <- v2,
    installed <- v3, leaving <- v4, strays <- v5
LinuxPwms == INSTANCE LinuxPwm WITH Handles <- PwmHandles,
    Channels <- LinuxChannels, file <- v1, pwm <- v2, call <- v3, refused <- v4
Dog == INSTANCE PicoWatchdog WITH MaxTimeout <- DogTimeout,
    Horizon <- DogHorizon, wd <- v1, active <- v2, timer <- v3, due <- v4,
    polled <- v5, now <- v6, rebooted <- v7
LinuxDog == INSTANCE LinuxWatchdog WITH MaxTimeout <- LinuxDogTimeout,
    Horizon <- LinuxDogHorizon, wd <- v1, dog <- v2, held <- v3, since <- v4,
    now <- v5, rebooted <- v6, refused <- v7
Gpio == INSTANCE LinuxGpio WITH Threads <- Callers, Pins <- Lines, started <- v1, epoll <- v2,
    chip <- v3, line <- v4, file <- v5, watched <- v6, call <- v7, event <- v8,
    strays <- v9
Led == INSTANCE LedBlink WITH led <- v1, count <- v2, timer <- v3, cb <- v4,
    app <- v5, poll <- v6, wanted <- v7
Ladder == INSTANCE Ladders WITH Threads <- Openers, Kinds <- Backends,
    Slots <- LadderSlots, obj <- v1, pool <- v2, use <- v3
Wifi == INSTANCE PicoWifi WITH wifi <- v1, chip <- v2, addr <- v3, told <- v4,
    at <- v5
Usb == INSTANCE PicoUsb WITH Slots <- UsbSlots, Settled <- UsbSettled,
    usb <- v1, cache <- v2, bus <- v3, rounds <- v4, hid <- v5, told <- v6,
    marks <- v7, astray <- v8
Libusb == INSTANCE LibUsb WITH Quiet <- UsbQuiet, Slots <- UsbSlots, usb <- v1, cache <- v2,
    bus <- v3, events <- v4, plugs <- v5, at <- v6, app <- v7, told <- v8,
    astray <- v9, late <- v10
Touch == INSTANCE Ft6236 WITH Horizon <- TouchHorizon, Settled <- TouchSettled,
    pin <- v1, down <- v2, fresh <- v3, track <- v4, last <- v5,
    hadTouch <- v6, lastRead <- v7, attached <- v8, now <- v9, lastPoll <- v10,
    since <- v11, told <- v12, odd <- v13
Stylus == INSTANCE Stmpe610 WITH Whole <- WholeSamples, Depth <- FifoDepth, Bytes <- SampleBytes,
    open <- v1, pin <- v2, touching <- v3, fifo <- v4, irq <- v5, pc <- v6,
    data <- v7, hadTouch <- v8, told <- v9
Sensor == INSTANCE Bme680 WITH config <- v1, variant <- v2, known <- v3,
    written <- v4, pc <- v5, tries <- v6, reads <- v7, run <- v8, field <- v9,
    gasOf <- v10, result <- v11
Hid == INSTANCE HidDevices WITH Capacity <- QueueCapacity,
    Settled <- HidSettled, inst <- v1, dev <- v2, held <- v3, count <- v4,
    sig <- v5, reg <- v6, cb <- v7, queue <- v8, pin <- v9, keys <- v10
Display == INSTANCE Displays WITH Threads <- Callers, Slots <- DisplaySlots,
    Horizon <- DisplayHorizon, ops <- v1, polling <- v2, ts <- v3, drawn <- v4,
    windows <- v5, retain <- v6, sdl <- v7, now <- v8, pc <- v9, at <- v10,
    candidate <- v11, handles <- v12, passed <- v13
Storage == INSTANCE Blocks WITH Slots <- BlockSlots, Cores <- FlashCores,
    pool <- v1, reservations <- v2, written <- v3, spoilt <- v4, calls <- v5
Streams == INSTANCE Stdio WITH Platforms <- Terminals, Size <- LineSize,
    Fifo <- UartFifo, ReadsApart <- LineReadsApart, platform <- v1, app <- v2,
    inits <- v3, since <- v4, tty <- v5, saved <- v6, host <- v7, uart <- v8
Output == INSTANCE Printf WITH output <- v1, pc <- v2, read <- v3, asked <- v4,
    flags <- v5, width <- v6, precision <- v7, long <- v8, last <- v9,
    pos <- v10, all <- v11, shown <- v12, ended <- v13

Tokens == INSTANCE Scanner WITH text <- v1, flags <- v2, pos <- v3, tokens <- v4,
    ended <- v5, copy <- v6, parsed <- v7

\* What the parts need of their constants.
ASSUME Bounds ==
  /\ {Partitions, BufferSize, RingSize, Chunk, DogTimeout, LinuxDogTimeout, PollGap, QueueCapacity, Reconcile,
      FifoDepth, SampleBytes, Retries, Interfaces, UsbSlots, LadderSlots, LedSlots} \subseteq Nat \ {0}
  /\ {UartBytes, TtyBytes, DogHorizon, LinuxDogHorizon, TouchHorizon, DisplayHorizon, MaxPlugs, MaxRuns,
      MaxDigits, MaxText, MaxLost, DefaultPrecision, MaxPrecision, PointerDigits} \subseteq Nat
  /\ {FailsAlone, SpiAlone, Starved, ReadsApart, CapturesEndApart, HandlerInTime, UartReadsInTime, ChannelsApart,
      ReopensLater, ExitsClean, Polled, CloseAlone, Patient, UsbSettled, UsbQuiet, TouchSettled, WholeSamples, EdgesApart,
      PollApart, HidSettled, SlowEdges, InitsAlone, DetachesFirst, LineReadsApart,
      EndsAlone} \subseteq BOOLEAN
  /\ Secured \subseteq Networks
  /\ \A t \in Texts : \A i \in DOMAIN t : t[i] \in 1..255
  /\ \A f \in FlagSets \ {Tokens!Runes} :
       /\ f \subseteq Tokens!Flags
       /\ f \cap {"octal", "binary", "hex", "float"} # {} => "numbers" \in f
       /\ f \cap {"underscores", "dashes"} # {} => "keywords" \in f

\* Arguments of the conversions: what rounds, what does not fit, and what is no number.
F(neg, num, two, ten) == [neg |-> neg, num |-> num, two |-> two, ten |-> ten, kind |-> "finite"]
SomeInts    == {-128}
SomeFloats  == {F(TRUE, 0, 0, 0), F(TRUE, 5, 1, 0), F(FALSE, 199, 1, 0), F(FALSE, 1, 10, 0), F(FALSE, 1, 14, 0),
                F(FALSE, 18, 0, 18), F(FALSE, 2, 0, 19),
                [F(TRUE, 0, 0, 0) EXCEPT !.kind = "nan"]}
SomeOutputs == {[to |-> "console", size |-> 0, custom |-> TRUE], [to |-> "stream", size |-> 0, custom |-> FALSE],
                [to |-> "buffer", size |-> 4, custom |-> FALSE], [to |-> "buffer", size |-> 0, custom |-> TRUE],
                [to |-> "none", size |-> 0, custom |-> FALSE]}

\* Texts to take apart: quotes, escapes and comments; numbers; words and runes,
\* some malformed; and what is too long for all texts of its characters.
UpTo(n, bytes) == UNION {[1..k -> bytes] : k \in 0..n}
SomeTexts == UpTo(4, {34, 92, 97}) \cup {<<34, a, b, c, d>> : a, b, c, d \in {34, 92, 97}}
               \cup UpTo(3, {34, 39, 92, 110, 10, 35, 47}) \cup UpTo(4, {43, 46, 48, 49, 101})
               \cup UpTo(3, {45, 48, 57, 97, 98, 120, 111}) \cup UpTo(3, {95, 45, 66, 55, 32, 9, 10, 133})
               \cup UpTo(3, {195, 169, 226, 130})
               \cup {<<49, 46, 48, 69, 45, 49, 46>>, <<45, 49, 101, 43, 49, 50, 46, 53>>, <<48, 55, 56, 46, 53>>,
                     <<48, 88, 65, 103>>, <<34, 92, 117, 50, 48, 97, 99, 34>>, <<92, 117, 48, 48, 101, 57, 92>>,
                     <<39, 92, 117, 100, 56, 48, 48, 39>>, <<34, 92, 39, 92, 117, 70, 70, 70, 68, 34>>,
                     <<92, 117, 68, 102, 70, 102, 34>>, <<92, 117, 49, 50, 34, 49, 34>>,
                     <<240, 159, 146, 169>>, <<240, 144, 128>>, <<244, 144, 128, 128>>, <<237, 160, 128, 65>>,
                     <<224, 159, 191>>, <<239, 191, 189>>, <<192, 128>>, <<47, 47, 195, 10, 169>>}
SomeFlags == {{"runes"}, {"numbers", "float"}, {"keywords", "dashes", "newlines", "double", "slash"},
              {"escapes", "newlines", "keywords", "underscores", "single", "double", "hash", "slash", "numbers",
               "octal", "binary", "hex", "float"}}

\* The variables a part of so many has no use for.
After12 == v13
After11 == <<v12, After12>>
After10 == <<v11, After11>>
After9 == <<v10, After10>>
After8 == <<v9, After9>>
After7 == <<v8, After8>>
After6 == <<v7, After7>>
After5 == <<v6, After6>>
After4 == <<v5, After5>>
After3 == <<v4, After4>>
Unused12 == v13 = 0
Unused11 == v12 = 0 /\ Unused12
Unused10 == v11 = 0 /\ Unused11
Unused9 == v10 = 0 /\ Unused10
Unused8 == v9 = 0 /\ Unused9
Unused7 == v8 = 0 /\ Unused8
Unused6 == v7 = 0 /\ Unused7
Unused5 == v6 = 0 /\ Unused6
Unused4 == v5 = 0 /\ Unused5
Unused3 == v4 = 0 /\ Unused4

Init ==
  \/ which = "bus" /\ Bus!Init /\ Unused7
  \/ which = "adc" /\ Adc!Init /\ Unused6
  \/ which = "uart" /\ Uart!Init /\ Unused4
  \/ which = "tty" /\ Tty!Init /\ Unused12
  \/ which = "pwm" /\ Pwm!Init /\ Unused5
  \/ which = "linuxpwm" /\ LinuxPwms!Init /\ Unused4
  \/ which = "dog" /\ Dog!Init /\ Unused7
  \/ which = "linuxdog" /\ LinuxDog!Init /\ Unused7
  \/ which = "gpio" /\ Gpio!Init /\ Unused9
  \/ which = "led" /\ Led!Init /\ Unused7
  \/ which = "ladder" /\ Ladder!Init /\ Unused3
  \/ which = "wifi" /\ Wifi!Init /\ Unused5
  \/ which = "usb" /\ Usb!Init /\ Unused8
  \/ which = "libusb" /\ Libusb!Init /\ Unused10
  \/ which = "touch" /\ Touch!Init
  \/ which = "stylus" /\ Stylus!Init /\ Unused9
  \/ which = "sensor" /\ Sensor!Init /\ Unused11
  \/ which = "hid" /\ Hid!Init /\ Unused10
  \/ which = "display" /\ Display!Init
  \/ which = "blocks" /\ Storage!Init /\ Unused5
  \/ which = "stdio" /\ Streams!Init /\ Unused8
  \/ which = "printf" /\ Output!Init
  \/ which = "scanner" /\ Tokens!Init /\ Unused7

Next ==
  /\ which' = which
  /\ \/ which = "bus" /\ Bus!Next /\ UNCHANGED After7
     \/ which = "adc" /\ Adc!Next /\ UNCHANGED After6
     \/ which = "uart" /\ Uart!Next /\ UNCHANGED After4
     \/ which = "tty" /\ Tty!Next /\ UNCHANGED After12
     \/ which = "pwm" /\ Pwm!Next /\ UNCHANGED After5
     \/ which = "linuxpwm" /\ LinuxPwms!Next /\ UNCHANGED After4
     \/ which = "dog" /\ Dog!Next /\ UNCHANGED After7
     \/ which = "linuxdog" /\ LinuxDog!Next /\ UNCHANGED After7
     \/ which = "gpio" /\ Gpio!Next /\ UNCHANGED After9
     \/ which = "led" /\ Led!Next /\ UNCHANGED After7
     \/ which = "ladder" /\ Ladder!Next /\ UNCHANGED After3
     \/ which = "wifi" /\ Wifi!Next /\ UNCHANGED After5
     \/ which = "usb" /\ Usb!Next /\ UNCHANGED After8
     \/ which = "libusb" /\ Libusb!Next /\ UNCHANGED After10
     \/ which = "touch" /\ Touch!Next
     \/ which = "stylus" /\ Stylus!Next /\ UNCHANGED After9
     \/ which = "sensor" /\ Sensor!Next /\ UNCHANGED After11
     \/ which = "hid" /\ Hid!Next /\ UNCHANGED After10
     \/ which = "display" /\ Display!Next
     \/ which = "blocks" /\ Storage!Next /\ UNCHANGED After5
     \/ which = "stdio" /\ Streams!Next /\ UNCHANGED After8
     \/ which = "printf" /\ Output!Next
     \/ which = "scanner" /\ Tokens!Next /\ UNCHANGED After7

vars == <<which, v1, v2, v3, v4, v5, v6, v7, v8, v9, v10, v11, v12, v13>>
Spec == Init /\ [][Next]_vars

\* Devices and lines, and threads, are all alike.
Alike == Permutations(Devices) \cup Permutations(Callers)

(* The buses: PicoBus, PicoAdc, PicoUart, UartPosix, PicoPwm and LinuxPwm.  A   *)
(* pin, an adapter, a converter or a channel serves just the handles that own   *)
(* it and is given back once; a byte is not lost or repeated.                   *)
BusesSound ==
  /\ which = "bus" => Bus!BusSound
  /\ which = "adc" => Adc!CaptureSound
  /\ which = "uart" => Uart!UartSound
  /\ which = "tty" => Tty!UartPosixSound
  /\ which = "pwm" => Pwm!PwmSound
  /\ which = "linuxpwm" => LinuxPwms!LinuxPwmSound

(* The watchdogs, lines, LEDs, ladders of set-up, displays and flash blocks:    *)
(* PicoWatchdog, LinuxWatchdog, LinuxGpio, LedBlink, Ladders, Displays, Blocks. *)
(* What was opened is fed, watched, counted down or drawn while it is open,     *)
(* nothing is left of what fails, and no flash region holds another's bytes.    *)
OutputsSound ==
  /\ which = "dog" => Dog!WatchdogSound
  /\ which = "linuxdog" => LinuxDog!LinuxWatchdogSound
  /\ which = "gpio" => Gpio!GpioSound
  /\ which = "led" => Led!BlinkSound
  /\ which = "ladder" => Ladder!LaddersSound
  /\ which = "display" => Display!DisplaysSound
  /\ which = "blocks" => Storage!FlashSound

(* What the application is told of the world: PicoWifi, PicoUsb, LibUsb,        *)
(* Ft6236, Stmpe610, Bme680, HidDevices.  A change is told once, in order, of   *)
(* the device it is of, and the last thing told is how it is.                   *)
ChangesTold ==
  /\ which = "wifi" => Wifi!WifiSound
  /\ which = "usb" => Usb!UsbSound
  /\ which = "libusb" => Libusb!LibUsbSound
  /\ which = "touch" => Touch!TouchSound
  /\ which = "stylus" => Stylus!StylusSound
  /\ which = "sensor" => Sensor!SensorSound
  /\ which = "hid" => Hid!HidSound

(* Stdio, Printf and Scanner: characters are read and written once, in order,   *)
(* by the stream that is there, a conversion prints what it is asked to, and    *)
(* the tokens of a text are what its characters say.                            *)
TextSound ==
  /\ which = "stdio" => Streams!StdioSound
  /\ which = "printf" => Output!PrintfSound
  /\ which = "scanner" => Tokens!ScannerSound

==============================================================================
