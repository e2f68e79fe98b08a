SPECIFICATION Spec
CONSTANTS
  Threads = {t1}
  NoThread = NoThread
  Policies = {p0, p1}
  InitialPolicy = p0
  Domains = {d}
  Subscribers = {s1}
  Reactions = {"query", "set_policy"}
  EventsEach = 1
  MaxRefreshes = 2
  MaxPolicies = 1
CHECK_DEADLOCK FALSE
INVARIANTS NoSelfDeadlock
