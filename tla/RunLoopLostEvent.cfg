\* Only worker 0, and a client that shuts down while another posts.
CONSTANTS
    NoRunner = NoRunner
    NoEvent = NoEvent
    Runners = {r1}
    Workers = {}
    Clients = {c1, c2}
    Stoppers = {r1, c1, c2}
    Events = {e1}
    Capacity = 1
    ExitValues = {1}
    Polling = FALSE
    Relaxed = FALSE
    MayFail = FALSE
    Discipline = {"started", "stopped"}
SPECIFICATION Spec
INVARIANT Drained
