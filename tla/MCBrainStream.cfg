SPECIFICATION FairSpec
CONSTANTS
  s1 = s1
  s2 = s2
  Sockets = {s1, s2}
  Capacity = 2
  QueueMax = 1
  Bad = {2}
  MaxEvents = 3
  MaxRestarts = 1
  NotFetched = NotFetched
INVARIANTS
  QueuesAreExact
PROPERTIES
  QueuedEventsArrive
