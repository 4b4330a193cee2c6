\* One part at a time, each on the smallest instance in which its hazards happen.
CONSTANTS
  Cores = {t1, t2}
  BusHandles = {1, 2}
  AppPins = {"alt", "altspi", "scl", "cs"}
  FailsAlone = TRUE
  SpiAlone = TRUE
  Adcs = {a1, a2}
  AdcSlots = {1, 2}
  Partitions = 3
  Starved = FALSE
  ReadsApart = TRUE
  CapturesEndApart = TRUE
  HandlerInTime = TRUE
  Callers = {t1, t2}
  BufferSize = 2
  UartBytes = 3
  UartReadsInTime = TRUE
  RingSize = 2
  Chunk = 2
  TtyBytes = 4
  Slices = {s1}
  PwmChannels = {0, 1}
  Wraps = {1, 3}
  ChannelsApart = TRUE
  PwmHandles = {"h1", "h2"}
  LinuxChannels = {"c1"}
  Periods = {1, 2}
  DogTimeout = 6
  PollGap = 2
  DogHorizon = 16
  Devices = {u1, u2}
  LinuxDogTimeout = 3
  LinuxDogHorizon = 8
  Pins = {p1, p2}
  Files = {1, 2, 3}
  Modes = {"none", "input", "output", "unsupported"}
  ReopensLater = TRUE
  ExitsClean = TRUE
  Leds = {u1, u2}
  Lines = {u1, u2}
  Polled = TRUE
  Objects = {o1, o2}
  Openers = {t1}
  Backends = {"i2c", "spi", "sysfs", "neopixel", "pin", "pwm", "wifi", "uart"}
  LadderSlots = 1
  LedSlots = 2
  CloseAlone = TRUE
  Networks = {"n1", "n2"}
  Secured = {"n2"}
  Patient = TRUE
  Interfaces = 2
  UsbSlots = 2
  UsbSettled = TRUE
  MaxPlugs = 4
  Hotplugs = {TRUE, FALSE}
  UsbQuiet = TRUE
  Ids = {"a", "b", "c"}
  HasPin = {TRUE, FALSE}
  Reconcile = 2
  TouchHorizon = 5
  TouchSettled = TRUE
  FifoDepth = 8
  SampleBytes = 4
  WholeSamples = TRUE
  Oversamplings = {0, 5}
  Heaters = {100, 4032}
  Retries = 2
  MaxRuns = 3
  QueueCapacity = 1
  Kinds = {"gpio", "adc", "signal", "iostream", "temperature", "generic"}
  EdgesApart = TRUE
  PollApart = TRUE
  HidSettled = TRUE
  SlowEdges = TRUE
  DisplaySlots = 2
  Interval = 1
  DisplayHorizon = 3
  InitsAlone = TRUE
  Terminals = {"host", "uart", "rtt"}
  LineSize = 3
  UartFifo = 2
  Most = 4
  Inits = 2
  DetachesFirst = TRUE
  LineReadsApart = TRUE
  FlagChars = {"-", "0", "#"}
  WidthDigits = {1}
  PrecisionDigits = {1}
  MaxDigits = 2
  Ints <- SomeInts
  Naturals = {0, 11}
  Floats <- SomeFloats
  Outputs <- SomeOutputs
  PointerDigits = 4
  DefaultPrecision = 6
  MaxPrecision = 8
  LowestFixed = 4
  MaxText = 1
  MaxLost = 1
  Texts <- SomeTexts
  FlagSets <- SomeFlags
  Caps = {2, 9}
  BlockSlots = 3
  Flash = 10
  Image = 3
  FlashCores = {0, 1}
  EndsAlone = TRUE
SPECIFICATION Spec
SYMMETRY Alike
INVARIANTS BusesSound OutputsSound ChangesTold TextSound
CHECK_DEADLOCK FALSE
