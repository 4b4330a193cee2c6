SPECIFICATION Spec
CONSTANTS
  Callers = {c1}
  Pollers = {p1}
  Capacity = 2
  MidWidth = 4
  PidWidth = 5
  MaxRequests = 2
  MaxLinks = 2
  MaxPushed = 1
  Watched = {2}
  c1 = c1
  p1 = p1
INVARIANTS OutstandingOnlyWhileConnected TopicsOwned ReportedOnce DoneMeansServed SleepersHaveCause
CHECK_DEADLOCK FALSE
PROPERTIES RequestsEnd
