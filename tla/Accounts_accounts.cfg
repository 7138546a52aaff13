SPECIFICATION Spec
CONSTANTS
  ann = ann  bob = bob  xia = xia
  bar = bar  inn = inn
  s1 = s1  s2 = s2  r1 = r1  r2 = r2
  Users = {ann, bob, xia}
  Orgs = {bar, inn}
  Sessions = {s1, s2}
  Requests = {r1, r2}
  MaxRequests = 2
  SessionLife = 0
  MaxTime = 1
  Suspendable = {bar}
  Asked = {"activate", "deactivate", "owner", "staff"}
  BatchSize = 1
  OrgOf <- TwoOrgs
  InitialAccounts <- OneOrTwoOwners
  NoAccount = NoAccount  NoSession = NoSession  Spent = Spent  NoRequest = NoRequest
  NoUser = NoUser  NoSweep = NoSweep
SYMMETRY Symmetric
INVARIANTS
  TypeOK
  InactiveHasOnlySlipped
PROPERTIES
  LastOwnerLostOnlyByRace
  TenantIsolation
  SweepIsComplete
CHECK_DEADLOCK FALSE
