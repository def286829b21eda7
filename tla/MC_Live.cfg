SPECIFICATION Spec
CONSTANTS
  c1 = c1 h1 = h1 h2 = h2 r1 = r1 r2 = r2 l1 = l1
  Idle = Idle Nothing = Nothing
  Clients = {c1}
  Records = {r1, r2}
  Handlers = {h1, h2}
  Loads = {l1}
  HISTORY_SIZE = 2
  QUEUE_SIZE = 2
  LOADED = 1
  KEPT = 1
  TRANSIT = 1
  MaxVersion = 2
  MaxPublished = 4
INVARIANTS TypeOK QueueIsNewest FreshUnlessMissed
PROPERTIES ImplementsFeed NewestArrives
