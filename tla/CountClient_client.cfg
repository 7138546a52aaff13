\* Does every entry of the counter end up counted or refused?
CONSTANTS
  NULL = NULL
  NoLine = NoLine
  NoEntry = NoEntry
  NoWrite = NoWrite
  c1 = c1
  p1 = p1
  rail = rail
  cellar = cellar
  Counts = {c1}
  Products = {p1}
  Locations = {rail, cellar}
  Sealed = {cellar}
  MaxWrites = 2
  Flushes = {f1, f2}
  Intents <- ScanSetFills
  Prices <- OnePrice
  MaxFaults = 1
SPECIFICATION ClientSpec
INVARIANTS
  TypeOK
PROPERTIES
  
  FlushReplaysInOrder
SYMMETRY AnyFlush
CHECK_DEADLOCK FALSE
CONSTRAINT OneFlushForOtherPairs
