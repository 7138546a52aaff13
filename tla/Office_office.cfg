SPECIFICATION Spec
CONSTANTS
  c1 = c1  c2 = c2  c3 = c3
  beer = beer  rum = rum  bar = bar  cellar = cellar  v1 = v1
  Counts = {c1, c2, c3}
  Products = {beer, rum}
  Categories = {"Beer", "Spirits"}
  Vendors = {v1}
  Searches <- SomeSearches
  BulkLimit = 500
  MaxTime = 4
  Articles <- SomeArticles
  TypedSizes = {75, 250}  CaseSizes = {24}  MaxStrokes = 3
  NoSheet = NoSheet  NoSent = NoSent
  r1 = r1  r2 = r2  r3 = r3  n1 = n1  n2 = n2  n3 = n3  d1 = d1
  Ids = {r1, r2, r3}  Names = {n1, n2, n3}  Details = {d1}  MaxDeeds = 4
  StartRows <- TwoRows
  Absent = Absent  NewRow = NewRow  NoForm = NoForm  NoSave = NoSave  Nobody = Nobody
  NULL = NULL  NoLine = NoLine  Unread = Unread  NoPage = NoPage  NoCall = NoCall
SYMMETRY Interchangeable
CHECK_DEADLOCK FALSE
INVARIANTS
  TypeOK
  FiguresAreNewest
  PreviousBeforeStart
  FormsAreHonest
PROPERTIES
  BulkReachesOnlyShown
  SavesOnlyWhatWasTyped
