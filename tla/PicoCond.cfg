\* Three threads wait, signal, broadcast and deinitialise; no wait begins before
\* earlier wake-ups are used up.
CONSTANTS
    NoThread = NoThread
    Threads = {t1, t2, t3}
    Notifying = {"idle", "locked"}
    Late = FALSE
SPECIFICATION FairSpec
INVARIANTS NoSurplus DeinitClean
PROPERTIES DeinitReturns BroadcastWakesAll
