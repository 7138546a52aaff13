\* Under the fairness of handlers, locks and resends every write is answered.
CONSTANTS
  NULL = NULL
  NoLine = NoLine
  NoEntry = NoEntry
  Nobody = Nobody
  Supervisor = Supervisor
  c1 = c1
  c2 = c2
  p1 = p1
  l1 = l1
  l2 = l2
  Counts = {c1}
  Products = {p1}
  Locations = {l1}
  Writes = {w1, w2}
  Requests = {r1, r2}
  Intents <- ScanAndSet
  Prices <- OnePrice
  MaxTries = 2
  MaxFaults = 1
  MaxDbErrors = 1
  SnapshotIsolation = TRUE
SPECIFICATION FairSpec
PROPERTIES
  EveryWriteAnswered
