SPECIFICATION Spec
CONSTANTS
  bar = bar  cellar = cellar  rum = rum  known = known  unknown = unknown
  Legs = {bar, cellar}
  Sealed = {cellar}
  Codes = {known, unknown}
  Products = {rum}
  FirstHolder <- AtFirst
  Calls = {k1, k2}
  Cooldown = 1
  Nobody = Nobody  NoLeg = NoLeg  NoCall = NoCall  Nothing = Nothing
SYMMETRY AnyCall
INVARIANTS
  TypeOK
  CountedTwiceOnlyAfterBlink
  CountedWhereMeant
  EnrolledOnce
  BusyIsSomebodys
PROPERTIES
  EachGateHolds
CHECK_DEADLOCK FALSE
