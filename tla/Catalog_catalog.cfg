SPECIFICATION Spec
CONSTANTS
  bar = bar  inn = inn  r1 = r1  r2 = r2
  Orgs = {bar, inn}
  Ids = {1, 2, 3, 4, 5}
  Names = {"rum", "gin", "tea", "rail", "cellar", "yard"}
  Readings <- SomeReadings
  Requests = {r1, r2}
  NewId <- NewIds
  Counted = {1}
  InitialRows <- NewOrUsed
  Keep = Keep  NoRow = NoRow  NoRequest = NoRequest
CHECK_DEADLOCK FALSE
CONSTANT Asked <- AskedOfBoth
INVARIANTS
  TypeOK
  NothingMerged
  OneArticleOneProduct
  CreatedWithItsBarcode
  TenantsApart
  RefusalNamesHolder
PROPERTIES
  
  PlacesUnlessOverlap
