\* Do the writes to one line take effect in the order they were made?
CONSTANTS
  NULL = NULL
  NoLine = NoLine
  NoEntry = NoEntry
  NoWrite = NoWrite
  c1 = c1
  p1 = p1
  rail = rail
  cellar = cellar
  Counts = {c1}
  Products = {p1}
  Locations = {rail, cellar}
  Sealed = {cellar}
  MaxWrites = 3
  Flushes = {f1}
  Intents <- AddAndSet
  Prices <- OnePrice
  MaxFaults = 1
SPECIFICATION SetThenAdd
PROPERTIES
  LineOrderKept
CHECK_DEADLOCK FALSE
