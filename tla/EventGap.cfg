\* A monitor whose resume point passes an event it never got.
SPECIFICATION Spec
CONSTANTS
  Pool = {}
  Loop = loop
  Clients = {c1}
  QueueSize = 2
  MaxSubscribers = 1
  MaxEvents = 3
  RuntimeLinked = TRUE
INVARIANTS
  MonitorComplete
