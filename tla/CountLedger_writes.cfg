\* Writes of any kind, retried and overlapping, over one count through its
\* whole life: two writes, three concurrent requests, one fault.
CONSTANTS
  NULL = NULL
  NoLine = NoLine
  NoEntry = NoEntry
  Nobody = Nobody
  Supervisor = Supervisor
  c1 = c1
  c2 = c2
  p1 = p1
  l1 = l1
  l2 = l2
  Counts = {c1}
  Products = {p1}
  Locations = {l1}
  Writes = {w1, w2}
  Requests = {r1, r2, r3}
  Intents <- AllOps
  Prices <- OnePrice
  MaxTries = 2
  MaxFaults = 1
  MaxDbErrors = 1
  SnapshotIsolation = FALSE
SPECIFICATION Spec
INVARIANTS
  TypeOK
  LockDiscipline
  NoLostUpdate
  LedgerReconstructsLines
  AcknowledgedIsRecorded
PROPERTIES
  LinesFrozenUnlessCounting
  ImplementsCountBook
