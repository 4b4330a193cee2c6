\* Two of everything, and one place in the queue: a callback meets a worker, and a refusal.
CONSTANTS
  Workers = {t1, t2}
  Timers = {x1, x2}
  Devices = {u1, u2}
  Events = {e1, e2}
  None = None
  Capacity = 1
  Locked = TRUE
  Fresh = TRUE
SPECIFICATION Spec
INVARIANTS OneOwner TimersOwned OneShotsKept
PROPERTY OneShotValid
CHECK_DEADLOCK FALSE
