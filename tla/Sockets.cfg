SPECIFICATION Spec
CONSTANTS
  Ctxs = {a, b}
  StreamSlots = {1, 2}
  Threads = {t1, t2}
  RingSize = 2
  QueueCapacity = 2
  PosixTalking = {a}
  PosixSent = 3
  PosixOpens = 2
  KeepsDatagrams = FALSE
  ClosesObserved = FALSE
  Capacity = 2
  Cores = {k1, k2}
  PicoTalking = {1}
  PicoSent = 2
  PicoOpens = 2
  ReadsAlone = TRUE
  Dgrams = {1}
  AnswersFirst = TRUE
  Intervals = {1, 3}
  Seconds = 2
  Longest = 3
INVARIANTS BytesKept UsesOwn PoolSound NtpSound
PROPERTIES StreamsEnd
CHECK_DEADLOCK FALSE
