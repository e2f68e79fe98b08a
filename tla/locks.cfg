SPECIFICATION FairSpec
CONSTANTS
  Threads = {t1, t2}
  NoThread = NoThread
  Policies = {p0}
  InitialPolicy = p0
  Domains = {d}
  Subscribers = {s1, s2}
  Reactions = {"query"}
  EventsEach = 2
  MaxRefreshes = 2
  MaxPolicies = 1
CHECK_DEADLOCK FALSE
INVARIANTS EventsInOrder NothingMissed
PROPERTIES ImplementsFeed RefreshReturns
