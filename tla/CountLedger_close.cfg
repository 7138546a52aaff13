\* Two counts, prices that change, locations that retire: what is stored at
\* close and kept after it.
CONSTANTS
  NULL = NULL
  NoLine = NoLine
  NoEntry = NoEntry
  Nobody = Nobody
  Supervisor = Supervisor
  c1 = c1
  c2 = c2
  p1 = p1
  l1 = l1
  l2 = l2
  Counts = {c1, c2}
  Products = {p1}
  Locations = {l1, l2}
  Writes = {w1, w2}
  Requests = {r1, r2}
  Intents <- TwoCounts
  Prices <- TwoPrices
  MaxTries = 2
  MaxFaults = 0
  MaxDbErrors = 0
  SnapshotIsolation = FALSE
SPECIFICATION Spec
INVARIANTS
  ClosedTotalMatches
PROPERTIES
  ClosedIsForever
  SnapshotsAndLedgerAreKept
