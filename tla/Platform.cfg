\* One part at a time, each on the smallest instance in which its hazards happen.
CONSTANTS
  Users = {u1, u2}
  Contexts = {n1, n2}
  TimerSlots = {s1}
  MaxTimers = 2
  Prompt = TRUE
  TimerBuilds = {"linux", "pico"}
  Waiters = {main, t1, t2}
  Owner = main
  GroupBuilds = {"pthread", "pico"}
  Settled = TRUE
  IntMax = 3
  Deltas = {1, 2}
  Groups = 2
  Lockers = {"t1", "t2"}
  Builds = {"host", "pico", "openssl", "mbedtls"}
  Slots = 2
  Jobs = {"j1", "j2"}
  ThreadSlots = 1
  HashSlots = 1
  Chunk = 2
  MaxBytes = 3
  Sizes = {0, 3}
  MaxUpdates = 2
  Disciplined = TRUE
  Platforms = {"posix", "pico"}
  Flags = {"led", "watchdog", "usb", "signal", "multicore"}
  Backends = {"led", "watchdog", "usb", "cyw43poll"}
  MaxEvents = 1
  Handlers = {"worker 0"}
  Discipline = {"launched", "settled"}
SPECIFICATION Spec
INVARIANT PlatformSound
PROPERTY CallsReturn
CHECK_DEADLOCK FALSE
