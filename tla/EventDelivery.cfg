\* Two monitors, queues of one event, a thread beside the loop.
SPECIFICATION FairSpec
CONSTANTS
  Pool = {p1}
  Loop = loop
  Clients = {c1, c2}
  QueueSize = 1
  MaxSubscribers = 2
  MaxEvents = 2
  RuntimeLinked = TRUE
INVARIANTS
  LossExplained
PROPERTIES
  MonitorCatchesUp
