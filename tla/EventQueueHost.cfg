\* A host build: two threads, every call, a ring of two.
CONSTANTS
    NoEvent = NoEvent
    NoThread = NoThread
    Threads = {t1, t2}
    Events = {e1, e2}
    Capacity = 2
    PoolLock = FALSE
    Calls = {"push", "try_push", "pop", "try_pop", "timed_pop", "peek", "empty", "shutdown"}
SPECIFICATION FairSpec
INVARIANT RingInv
PROPERTIES Implements NotStranded ShutdownReleases
