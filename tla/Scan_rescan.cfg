SPECIFICATION Spec
CONSTANTS
  bar = bar  cellar = cellar  rum = rum  known = known  unknown = unknown
  Legs = {bar, cellar}
  Sealed = {cellar}
  Codes = {known, unknown}
  Products = {rum}
  FirstHolder <- AtFirst
  Calls = {k1}
  Cooldown = 3
  Nobody = Nobody  NoLeg = NoLeg  NoCall = NoCall  Nothing = Nothing
INVARIANTS
  FlickerCountsOnce
CHECK_DEADLOCK FALSE
