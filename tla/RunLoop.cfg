\* A host build or a Pico build: two calls of sys_runloop_run, at once or one after the other.
CONSTANTS
    NoRunner = NoRunner
    NoEvent = NoEvent
    Runners = {r1, r2}
    Workers = {w1}
    Clients = {c1}
    Stoppers = {r1, r2, w1, c1}
    Events = {e1}
    Capacity = 1
    ExitValues = {1, 2}
    Polling = FALSE
    Relaxed = FALSE
    MayFail = FALSE
    Discipline = {"started", "stopped"}
SPECIFICATION EitherSpec
INVARIANTS OneRun WorkersJoined Drained ReturnsRequested UsesLive
PROPERTY ShutdownEndsRun
