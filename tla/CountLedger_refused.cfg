\* Can a client be told that a write failed which did take effect?
CONSTANTS
  NULL = NULL
  NoLine = NoLine
  NoEntry = NoEntry
  Nobody = Nobody
  Supervisor = Supervisor
  c1 = c1
  c2 = c2
  p1 = p1
  l1 = l1
  l2 = l2
  Counts = {c1}
  Products = {p1}
  Locations = {l1}
  Writes = {w1}
  Requests = {r1, r2}
  Intents <- ScanOnly
  Prices <- OnePrice
  MaxTries = 3
  MaxFaults = 1
  MaxDbErrors = 0
  SnapshotIsolation = TRUE
SPECIFICATION Spec
INVARIANTS
  RefusedIsNotApplied
