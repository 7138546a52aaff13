--------------------------- MODULE AccountsProofs ---------------------------
(***************************************************************************)
(* What Accounts keeps, for any number of users, organizations, sessions,  *)
(* requests and batches.  The inductive invariant adds to what the runs    *)
(* check what a request has already established when it comes to write,    *)
(* and what a sign-in has when its session is inserted.                    *)
(***************************************************************************)
EXTENDS Accounts, TLAPS

Under(r, steps) == req[r] # NoRequest /\ req[r].step \in steps

(* Past its lookup a request acts on an account of its own organization.   *)
TargetsAreOwn ==
  \A r \in Requests :
    Under(r, {"count", "write"}) =>
      Exists(req[r].target) /\ OrgOf[req[r].target] = OrgOf[req[r].actor]

(* What takes the role from an owner has seen another active owner.        *)
OthersWereSeen ==
  \A r \in Requests :
    Under(r, {"write"}) /\ RemovesOwner(req[r].op, req[r].role) =>
      req[r].others # {} /\ req[r].target \notin req[r].others

(* Sessions, sign-ins and half-created accounts are of users that exist.   *)
UsersExist ==
  /\ \A s \in Sessions : HasRow(s) => Exists(session[s].user)
  /\ \A u \in creating : Exists(u)

(* A session about to be inserted is of an active user, or has slipped.    *)
SigningIsActive ==
  \A s \in Sessions :
    signing[s] # NoUser =>
      /\ session[s] = NoSession /\ Exists(signing[s])
      /\ account[signing[s]].active \/ s \in slipped

IInv ==
  /\ TypeOK
  /\ TargetsAreOwn /\ OthersWereSeen /\ UsersExist /\ SigningIsActive
  /\ InactiveHasOnlySlipped

-----------------------------------------------------------------------------
(* What the update of one field of one account does to all of them.        *)
LEMMA RoleChanges ==
  ASSUME NEW f \in [Users -> AccountType \cup {NoAccount}], NEW t \in Users,
         f[t] # NoAccount, NEW x \in Roles, NEW g, g = [f EXCEPT ![t].role = x]
  PROVE  /\ g \in [Users -> AccountType \cup {NoAccount}]
         /\ \A u \in Users : u # t => g[u] = f[u]
         /\ g[t] # NoAccount
         /\ g[t].role = x
         /\ g[t].active = f[t].active
  <1> DEFINE a == f[t]
             b == [a EXCEPT !.role = x]
  <1>1. a \in AccountType
    OBVIOUS
  <1> HIDE DEF a
  <1>2. b \in AccountType /\ b.role = x /\ b.active = a.active
    BY <1>1 DEF AccountType
  <1> HIDE DEF b
  <1>3. g = [f EXCEPT ![t] = b]
    BY DEF a, b
  <1> QED  BY <1>2, <1>3, AccountsAssumption DEF a

(* The same for the flag that a deactivation clears.                       *)
LEMMA ActiveChanges ==
  ASSUME NEW f \in [Users -> AccountType \cup {NoAccount}], NEW t \in Users,
         f[t] # NoAccount, NEW x \in BOOLEAN, NEW g, g = [f EXCEPT ![t].active = x]
  PROVE  /\ g \in [Users -> AccountType \cup {NoAccount}]
         /\ \A u \in Users : u # t => g[u] = f[u]
         /\ g[t] # NoAccount
         /\ g[t].active = x
         /\ g[t].role = f[t].role
  <1> DEFINE a == f[t]
             b == [a EXCEPT !.active = x]
  <1>1. a \in AccountType
    OBVIOUS
  <1> HIDE DEF a
  <1>2. b \in AccountType /\ b.active = x /\ b.role = a.role
    BY <1>1 DEF AccountType
  <1> HIDE DEF b
  <1>3. g = [f EXCEPT ![t] = b]
    BY DEF a, b
  <1> QED  BY <1>2, <1>3, AccountsAssumption DEF a

(* The same for the credential that create-user links.                     *)
LEMMA PasswordChanges ==
  ASSUME NEW f \in [Users -> AccountType \cup {NoAccount}], NEW t \in Users,
         f[t] # NoAccount, NEW x \in BOOLEAN, NEW g, g = [f EXCEPT ![t].password = x]
  PROVE  /\ g \in [Users -> AccountType \cup {NoAccount}]
         /\ \A u \in Users : u # t => g[u] = f[u]
         /\ g[t] # NoAccount
         /\ g[t].role = f[t].role
         /\ g[t].active = f[t].active
  <1> DEFINE a == f[t]
             b == [a EXCEPT !.password = x]
  <1>1. a \in AccountType
    OBVIOUS
  <1> HIDE DEF a
  <1>2. b \in AccountType /\ b.password = x /\ b.role = a.role /\ b.active = a.active
    BY <1>1 DEF AccountType
  <1> HIDE DEF b
  <1>3. g = [f EXCEPT ![t] = b]
    BY DEF a, b
  <1> QED  BY <1>2, <1>3, AccountsAssumption DEF a

-----------------------------------------------------------------------------
(* What one step does to the accounts, the requests and the sessions.      *)

(* A request that comes to its write acts on an account that exists, of    *)
(* its own organization.                                                   *)
LEMMA WriteHasTarget ==
  ASSUME TypeOK, TargetsAreOwn, NEW r \in Requests, Under(r, {"write"})
  PROVE  /\ req[r] \in RequestType
         /\ req[r].target \in Users /\ Exists(req[r].target)
         /\ OrgOf[req[r].target] = OrgOf[req[r].actor]
  <1>1. req[r] \in RequestType /\ Under(r, {"count", "write"})
    BY DEF TypeOK, Under
  <1> QED  BY <1>1 DEF TargetsAreOwn, RequestType

(* setUserRole gives its target the role and changes nothing else.         *)
LEMMA SetRoleStep ==
  ASSUME TypeOK, TargetsAreOwn, NEW r \in Requests, SetRole(r)
  PROVE  /\ account' \in [Users -> AccountType \cup {NoAccount}]
         /\ \A u \in Users : u # req[r].target => account'[u] = account[u]
         /\ account'[req[r].target] # NoAccount
         /\ account'[req[r].target].role = req[r].op
         /\ account'[req[r].target].active = account[req[r].target].active
  <1>1. req[r].target \in Users /\ Exists(req[r].target) /\ req[r].op \in Roles
         /\ OrgOf[req[r].target] = OrgOf[req[r].actor]
    BY WriteHasTarget DEF SetRole, Under
  <1>2. account' = [account EXCEPT ![req[r].target].role = req[r].op]
    BY <1>1 DEF SetRole
  <1> QED  BY <1>1, <1>2, RoleChanges DEF TypeOK, Exists

(* setUserActive sets the flag of its target and changes no role.          *)
LEMMA SetActiveStep ==
  ASSUME TypeOK, TargetsAreOwn, NEW r \in Requests, SetActive(r)
  PROVE  /\ account' \in [Users -> AccountType \cup {NoAccount}]
         /\ \A u \in Users : u # req[r].target => account'[u] = account[u]
         /\ account'[req[r].target] # NoAccount
         /\ account'[req[r].target].active = (req[r].op = "activate")
         /\ account'[req[r].target].role = account[req[r].target].role
         /\ req[r].op \in {"activate", "deactivate"}
  <1>1. req[r].target \in Users /\ Exists(req[r].target) /\ req[r].op \in {"activate", "deactivate"}
         /\ OrgOf[req[r].target] = OrgOf[req[r].actor]
    BY WriteHasTarget DEF SetActive, Under, RequestType, Ops
  <1> DEFINE flag == req[r].op = "activate"
  <1>2. account' = [account EXCEPT ![req[r].target].active = flag] /\ flag \in BOOLEAN
    BY <1>1 DEF SetActive
  <1> HIDE DEF flag
  <1>3. /\ account' \in [Users -> AccountType \cup {NoAccount}]
        /\ \A u \in Users : u # req[r].target => account'[u] = account[u]
        /\ account'[req[r].target] # NoAccount
        /\ account'[req[r].target].active = flag
        /\ account'[req[r].target].role = account[req[r].target].role
    BY <1>1, <1>2, ActiveChanges DEF TypeOK, Exists
  <1> QED  BY <1>1, <1>3, Zenon DEF flag

(* Linking the credential changes neither role nor flag.                   *)
LEMMA LinkAccountStep ==
  ASSUME TypeOK, UsersExist, NEW v \in Users, LinkAccount(v)
  PROVE  /\ account' \in [Users -> AccountType \cup {NoAccount}]
         /\ \A u \in Users : u # v => account'[u] = account[u]
         /\ account'[v] # NoAccount
         /\ account'[v].active = account[v].active
         /\ account'[v].role = account[v].role
  <1> DEFINE flag == TRUE
  <1>1. account[v] # NoAccount
    BY DEF LinkAccount, UsersExist, Exists
  <1>2. account' = [account EXCEPT ![v].password = flag] /\ flag \in BOOLEAN
    BY DEF LinkAccount
  <1> HIDE DEF flag
  <1> QED  BY <1>1, <1>2, PasswordChanges DEF TypeOK

(* Accounts are never deleted, and only a deactivation makes one inactive. *)
AccountsKept ==
  /\ account' \in [Users -> AccountType \cup {NoAccount}]
  /\ \A u \in Users :
       Exists(u) =>
         /\ account'[u] # NoAccount
         /\ account[u].active /\ ~account'[u].active =>
              \E r \in Requests :
                SetActive(r) /\ req[r].target = u /\ req[r].op = "deactivate"

(* Every step keeps what AccountsKept says ...                             *)
LEMMA AccountStep ==
  ASSUME TypeOK, TargetsAreOwn, UsersExist, [Next]_vars
  PROVE  AccountsKept
  <1>1. ASSUME NEW r \in Requests, SetRole(r) PROVE AccountsKept
    <2>1. req[r].target \in Users
      BY <1>1, WriteHasTarget DEF SetRole, Under
    <2> QED  BY <1>1, <2>1, SetRoleStep DEF AccountsKept, Exists
  <1>2. ASSUME NEW r \in Requests, SetActive(r) PROVE AccountsKept
    <2>1. req[r].target \in Users
      BY <1>2, WriteHasTarget DEF SetActive, Under
    <2>2. ASSUME NEW u \in Users, account[u].active, ~account'[u].active
          PROVE  req[r].target = u /\ req[r].op = "deactivate"
      BY <1>2, <2>1, <2>2, SetActiveStep
    <2> QED  BY <1>2, <2>1, <2>2, SetActiveStep DEF AccountsKept, Exists
  <1>3. ASSUME NEW v \in Users, NEW role \in Roles, CreateUser(v, role) PROVE AccountsKept
    BY <1>3, AccountsAssumption DEF CreateUser, AccountsKept, TypeOK, Exists, AccountType
  <1>4. ASSUME NEW v \in Users, LinkAccount(v) PROVE AccountsKept
    BY <1>4, LinkAccountStep DEF AccountsKept, Exists
  <1>5. CASE UNCHANGED account
    BY <1>5 DEF AccountsKept, TypeOK, Exists
  <1> QED
    BY <1>1, <1>2, <1>3, <1>4, <1>5
    DEF Next, Handler, vars, rows, SignIn, InsertSession, SignOut, Request, RequireOwnUser,
        CountActiveOwners, EndRequest, StopCreating, SuspendOrg, StartSweep, SweepBatch, Tick

(* A session row is inserted by a sign-in; otherwise it only goes.  A      *)
(* deactivation takes all rows of its user, and marks the sign-ins.        *)
SessionsKept ==
  /\ session' \in [Sessions -> SessionType \cup {NoSession, Spent}]
  /\ \A s \in Sessions :
       \/ /\ session'[s] = session[s] /\ signing'[s] = signing[s]
          /\ HasRow(s) \/ signing[s] # NoUser => (s \in slipped => s \in slipped')
       \/ session'[s] = Spent /\ HasRow(s) /\ signing'[s] = signing[s]
       \/ InsertSession(s) /\ UNCHANGED <<account, slipped>>
       \/ \E u \in Users : SignIn(s, u)

(* ... and what SessionsKept says,                                         *)
LEMMA SessionStep ==
  ASSUME TypeOK, SigningIsActive, [Next]_vars
  PROVE  SessionsKept
  <1>1. ASSUME NEW t \in Sessions, InsertSession(t) PROVE SessionsKept
    <2>1. [user |-> signing[t], expires |-> now + SessionLife] \in SessionType
      BY <1>1, AccountsAssumption DEF InsertSession, TypeOK, SessionType
    <2> QED  BY <1>1, <2>1 DEF InsertSession, SessionsKept, TypeOK
  <1>2. ASSUME NEW t \in Sessions, SignOut(t) PROVE SessionsKept
    BY <1>2 DEF SignOut, SessionsKept, TypeOK, HasRow
  <1>3. ASSUME NEW r \in Requests, SetActive(r) PROVE SessionsKept
    BY <1>3 DEF SetActive, SessionsKept, TypeOK
  <1>4. ASSUME SweepBatch PROVE SessionsKept
    <2>1. PICK batch \in SUBSET Expired(sweep) :
            /\ session' = [s \in Sessions |-> IF s \in batch THEN Spent ELSE session[s]]
            /\ slipped' = slipped \ batch
      BY <1>4 DEF SweepBatch
    <2>2. \A s \in batch : HasRow(s)
      BY DEF Expired
    <2> QED  BY <1>4, <2>1, <2>2 DEF SweepBatch, SessionsKept, TypeOK
  <1>5. ASSUME NEW t \in Sessions, NEW u \in Users, SignIn(t, u) PROVE SessionsKept
    BY <1>5 DEF SignIn, rows, SessionsKept, TypeOK
  <1>6. CASE UNCHANGED <<session, signing, slipped>>
    BY <1>6 DEF SessionsKept, TypeOK
  <1> QED
    BY <1>1, <1>2, <1>3, <1>4, <1>5, <1>6
    DEF Next, Handler, vars, rows, Request, RequireOwnUser, CountActiveOwners, EndRequest,
        SetRole, CreateUser, LinkAccount, StopCreating, SuspendOrg, StartSweep, Tick

(* A request past its lookup got there by it, and to its write perhaps by  *)
(* the count of the other owners.                                          *)
RequestsKept ==
  /\ req' \in [Requests -> RequestType \cup {NoRequest}]
  /\ \A r \in Requests :
       req'[r] # NoRequest =>
         /\ req'[r].actor # req'[r].target
         /\ \/ req'[r] = req[r]
            \/ req'[r].step = "target"
            \/ /\ RequireOwnUser(r)
               /\ req'[r].target = req[r].target /\ req'[r].actor = req[r].actor
               /\ req'[r].step = "write" => ~RemovesOwner(req'[r].op, req'[r].role)
            \/ /\ CountActiveOwners(r)
               /\ req'[r].target = req[r].target /\ req'[r].actor = req[r].actor
               /\ req'[r].others # {} /\ req'[r].target \notin req'[r].others

(* what RequestsKept says,                                                 *)
LEMMA RequestStep ==
  ASSUME TypeOK, [Next]_vars
  PROVE  RequestsKept
  <1>1. ASSUME NEW r \in Requests, NEW s \in Sessions, NEW u \in Users, NEW op \in Asked,
               Request(r, s, u, op)
        PROVE  RequestsKept
    <2> DEFINE new == [step |-> "target", actor |-> session[s].user, target |-> u,
                       op |-> op, role |-> "staff", others |-> {}]
    <2>1. session[s].user \in Users
      BY <1>1 DEF Request, RequireRole, CurrentUser, GetSession, HasRow, TypeOK, SessionType
    <2>2. new \in RequestType /\ new.step = "target" /\ new.actor # new.target
      BY <1>1, <2>1, AccountsAssumption DEF Request, RequestType, Roles
    <2>3. req' = [req EXCEPT ![r] = new]
      BY <1>1 DEF Request
    <2> HIDE DEF new
    <2> QED  BY <2>2, <2>3 DEF RequestsKept, TypeOK
  <1>2. ASSUME NEW r \in Requests, RequireOwnUser(r) PROVE RequestsKept
    <2> DEFINE role == account[req[r].target].role
               step == IF RemovesOwner(req[r].op, role) THEN "count" ELSE "write"
    <2>1. req \in [Requests -> RequestType \cup {NoRequest}]
      BY DEF TypeOK
    <2>2. req[r] \in RequestType /\ req[r] # NoRequest
      BY <1>2 DEF RequireOwnUser, TypeOK
    <2>3. role \in Roles /\ step \in {"count", "write"}
      BY <1>2, <2>2 DEF RequireOwnUser, TypeOK, RequestType, Exists, AccountType
    <2>4. req' = [req EXCEPT ![r].role = role, ![r].step = step]
      BY <1>2 DEF RequireOwnUser
    <2>5. step = "write" => ~RemovesOwner(req[r].op, role)
      OBVIOUS
    <2> HIDE DEF role, step
    <2> DEFINE old == req[r]
               new == [old EXCEPT !.role = role, !.step = step]
    <2>6. req' = [req EXCEPT ![r] = new]
      BY <2>4
    <2>7. old \in RequestType
      BY <2>2
    <2> HIDE DEF old
    <2>8. /\ new \in RequestType /\ new.role = role /\ new.step = step
           /\ new.actor = old.actor /\ new.target = old.target /\ new.op = old.op
      BY <2>3, <2>7 DEF RequestType
    <2> HIDE DEF new
    <2>9. /\ req' \in [Requests -> RequestType \cup {NoRequest}]
          /\ \A q \in Requests : q # r => req'[q] = req[q]
          /\ req'[r].step = step /\ req'[r].role = role
          /\ req'[r].actor = req[r].actor /\ req'[r].target = req[r].target
          /\ req'[r].op = req[r].op
      BY <2>1, <2>6, <2>8 DEF old
    <2>10. req'[r].actor # req'[r].target
      BY <2>2, <2>9 DEF TypeOK
    <2>11. req'[r].step = "write" => ~RemovesOwner(req'[r].op, req'[r].role)
      BY <2>5, <2>9
    <2>12. ASSUME NEW q \in Requests, q # r, req'[q] # NoRequest
          PROVE  req'[q] = req[q] /\ req'[q].actor # req'[q].target
      BY <2>9, <2>12 DEF TypeOK
    <2> QED  BY <1>2, <2>9, <2>10, <2>11, <2>12 DEF RequestsKept
  <1>3. ASSUME NEW r \in Requests, CountActiveOwners(r) PROVE RequestsKept
    <2> DEFINE others == ActiveOwners(OrgOf[req[r].actor]) \ {req[r].target}
               step == "write"
    <2>1. req \in [Requests -> RequestType \cup {NoRequest}]
      BY DEF TypeOK
    <2>2. req[r] \in RequestType /\ req[r] # NoRequest
      BY <1>3 DEF CountActiveOwners, TypeOK
    <2>3. /\ others \in SUBSET Users /\ others # {} /\ req[r].target \notin others
          /\ step \in {"count", "write"}
      BY <1>3 DEF CountActiveOwners, ActiveOwners
    <2>4. req' = [req EXCEPT ![r].others = others, ![r].step = step]
      BY <1>3 DEF CountActiveOwners
    <2> HIDE DEF others, step
    <2> DEFINE old == req[r]
               new == [old EXCEPT !.others = others, !.step = step]
    <2>5. req' = [req EXCEPT ![r] = new]
      BY <2>4
    <2>6. old \in RequestType
      BY <2>2
    <2> HIDE DEF old
    <2>7. /\ new \in RequestType /\ new.others = others
           /\ new.actor = old.actor /\ new.target = old.target
      BY <2>3, <2>6 DEF RequestType
    <2> HIDE DEF new
    <2>8. /\ req' \in [Requests -> RequestType \cup {NoRequest}]
          /\ \A q \in Requests : q # r => req'[q] = req[q]
          /\ req'[r].others = others
          /\ req'[r].actor = req[r].actor /\ req'[r].target = req[r].target
      BY <2>1, <2>5, <2>7 DEF old
    <2>9. /\ req'[r].actor # req'[r].target
          /\ req'[r].others # {} /\ req'[r].target \notin req'[r].others
      BY <2>2, <2>3, <2>8 DEF TypeOK
    <2>10. ASSUME NEW q \in Requests, q # r, req'[q] # NoRequest
          PROVE  req'[q] = req[q] /\ req'[q].actor # req'[q].target
      BY <2>8, <2>10 DEF TypeOK
    <2> QED  BY <1>3, <2>8, <2>9, <2>10 DEF RequestsKept
  <1>4. ASSUME NEW r \in Requests, req' = [req EXCEPT ![r] = NoRequest] PROVE RequestsKept
    BY <1>4 DEF RequestsKept, TypeOK
  <1>5. CASE UNCHANGED req
    BY <1>5 DEF RequestsKept, TypeOK
  <1>6. ASSUME NEW r \in Requests, EndRequest(r) \/ SetRole(r) \/ SetActive(r)
        PROVE  RequestsKept
    BY <1>4, <1>6 DEF EndRequest, SetRole, SetActive
  <1> QED
    BY <1>1, <1>2, <1>3, <1>5, <1>6
    DEF Next, Handler, vars, rows, SignIn, InsertSession, SignOut, CreateUser, LinkAccount,
        StopCreating, SuspendOrg, StartSweep, SweepBatch, Tick

-----------------------------------------------------------------------------
(* The invariant is inductive.                                             *)

LEMMA InitInvariant == Init => IInv
  <1> SUFFICES ASSUME Init PROVE IInv
    OBVIOUS
  <1>1. TypeOK
    BY AccountsAssumption DEF Init, TypeOK
  <1>2. TargetsAreOwn /\ OthersWereSeen /\ UsersExist /\ SigningIsActive
         /\ InactiveHasOnlySlipped
    BY DEF Init, TargetsAreOwn, OthersWereSeen, UsersExist, SigningIsActive,
           InactiveHasOnlySlipped, Under, HasRow
  <1> QED  BY <1>1, <1>2 DEF IInv

(* The parts of the type invariant no other lemma is about.                *)
RestKept ==
  /\ orgActive' \in [Orgs -> BOOLEAN]
  /\ now' \in 0..MaxTime
  /\ signing' \in [Sessions -> Users \cup {NoUser}]
  /\ asked' \in 0..MaxRequests
  /\ sweep' \in 0..MaxTime \cup {NoSweep}
  /\ creating' \subseteq Users
  /\ slipped' \subseteq Sessions

(* and what RestKept says.                                                 *)
LEMMA RestStep ==
  ASSUME TypeOK, [Next]_vars
  PROVE  RestKept
  <1>1. ASSUME NEW o \in Suspendable, SuspendOrg(o) PROVE RestKept
    <2>1. orgActive' = [orgActive EXCEPT ![o] = ~orgActive[o]]
      BY <1>1 DEF SuspendOrg
    <2>2. orgActive' \in [Orgs -> BOOLEAN]
      BY <2>1, Zenon DEF TypeOK
    <2> QED  BY <1>1, <2>2 DEF SuspendOrg, RestKept, TypeOK
  <1>2. CASE UNCHANGED <<now, signing, asked, sweep, orgActive>>
             /\ creating' \subseteq Users /\ slipped' \subseteq Sessions
    BY <1>2 DEF RestKept, TypeOK
  <1>3. ASSUME NEW s \in Sessions, NEW u \in Users, SignIn(s, u) PROVE RestKept
    BY <1>3 DEF SignIn, rows, RestKept, TypeOK
  <1>4. ASSUME NEW s \in Sessions, InsertSession(s) \/ SignOut(s) PROVE RestKept
    BY <1>4 DEF InsertSession, SignOut, RestKept, TypeOK
  <1>5. ASSUME NEW r \in Requests, NEW s \in Sessions, NEW u \in Users, NEW op \in Asked,
               Request(r, s, u, op)
        PROVE  RestKept
    BY <1>5, AccountsAssumption DEF Request, rows, RestKept, TypeOK
  <1>6. ASSUME NEW r \in Requests, Handler(r) \/ EndRequest(r) PROVE RestKept
    BY <1>2, <1>6 DEF Handler, RequireOwnUser, CountActiveOwners, SetRole, SetActive,
                      EndRequest, rows, RestKept, TypeOK
  <1>7. ASSUME NEW u \in Users, LinkAccount(u) \/ StopCreating(u) PROVE RestKept
    BY <1>2, <1>7 DEF LinkAccount, StopCreating, rows, RestKept, TypeOK
  <1>8. ASSUME NEW u \in Users, NEW role \in Roles, CreateUser(u, role) PROVE RestKept
    BY <1>2, <1>8 DEF CreateUser, RestKept, TypeOK
  <1>9. ASSUME StartSweep \/ SweepBatch \/ Tick PROVE RestKept
    BY <1>9, AccountsAssumption DEF StartSweep, SweepBatch, Tick, rows, RestKept, TypeOK
  <1>10. CASE UNCHANGED vars
    BY <1>2, <1>10 DEF vars, rows, TypeOK
  <1> QED
    BY <1>1, <1>3, <1>4, <1>5, <1>6, <1>7, <1>8, <1>9, <1>10 DEF Next

(* Every step keeps the invariant.                                         *)
LEMMA NextInvariant ==
  ASSUME IInv, [Next]_vars
  PROVE  IInv'
  <1>1. /\ TypeOK /\ TargetsAreOwn /\ OthersWereSeen /\ UsersExist /\ SigningIsActive
        /\ InactiveHasOnlySlipped
    BY DEF IInv
  <1>2. AccountsKept /\ SessionsKept /\ RequestsKept /\ RestKept
    BY <1>1, AccountStep, SessionStep, RequestStep, RestStep
  <1>3. TypeOK'
    BY <1>2 DEF AccountsKept, SessionsKept, RequestsKept, RestKept, TypeOK
  <1>4. ASSUME NEW r \in Requests, req'[r] # NoRequest
        PROVE  /\ req'[r] \in RequestType /\ req'[r].target \in Users
               /\ \/ req'[r] = req[r]
                  \/ req'[r].step = "target"
                  \/ /\ RequireOwnUser(r)
                     /\ req'[r].target = req[r].target /\ req'[r].actor = req[r].actor
                     /\ req'[r].step = "write" => ~RemovesOwner(req'[r].op, req'[r].role)
                  \/ /\ CountActiveOwners(r)
                     /\ req'[r].target = req[r].target /\ req'[r].actor = req[r].actor
                     /\ req'[r].others # {} /\ req'[r].target \notin req'[r].others
    BY <1>2, <1>4 DEF RequestsKept, RequestType
  <1>5. TargetsAreOwn'
    <2> SUFFICES ASSUME NEW r \in Requests, req'[r] # NoRequest,
                        req'[r].step \in {"count", "write"}
                 PROVE  /\ account'[req'[r].target] # NoAccount
                        /\ OrgOf[req'[r].target] = OrgOf[req'[r].actor]
      BY DEF TargetsAreOwn, Under, Exists
    <2>1. CASE req'[r] = req[r]
      BY <1>1, <1>2, <1>4, <2>1 DEF TargetsAreOwn, Under, AccountsKept, Exists
    <2>2. CASE RequireOwnUser(r) /\ req'[r].target = req[r].target
                 /\ req'[r].actor = req[r].actor
      BY <2>2 DEF RequireOwnUser, rows, Exists
    <2>3. CASE CountActiveOwners(r) /\ req'[r].target = req[r].target
                 /\ req'[r].actor = req[r].actor
      BY <1>1, <2>3 DEF CountActiveOwners, rows, TargetsAreOwn, Under, Exists
    <2> QED  BY <1>4, <2>1, <2>2, <2>3
  <1>6. OthersWereSeen'
    <2> SUFFICES ASSUME NEW r \in Requests, req'[r] # NoRequest, req'[r].step = "write",
                        RemovesOwner(req'[r].op, req'[r].role)
                 PROVE  req'[r].others # {} /\ req'[r].target \notin req'[r].others
      BY DEF OthersWereSeen, Under, RemovesOwner
    <2> QED  BY <1>1, <1>4 DEF OthersWereSeen, Under
  <1>7. ASSUME NEW s \in Sessions
        PROVE  \/ /\ session'[s] = session[s] /\ signing'[s] = signing[s]
                  /\ HasRow(s) \/ signing[s] # NoUser => (s \in slipped => s \in slipped')
               \/ session'[s] = Spent /\ signing'[s] = NoUser
               \/ /\ signing[s] \in Users /\ signing'[s] = NoUser
                  /\ session'[s] = [user |-> signing[s], expires |-> now + SessionLife]
                  /\ UNCHANGED <<account, slipped>>
               \/ /\ signing'[s] \in Users /\ session[s] = NoSession
                  /\ account[signing'[s]] # NoAccount /\ account[signing'[s]].active
                  /\ UNCHANGED <<account, session>>
    <2>1. CASE session'[s] = Spent /\ HasRow(s) /\ signing'[s] = signing[s]
      BY <1>1, <2>1 DEF SigningIsActive, HasRow
    <2>2. CASE InsertSession(s) /\ UNCHANGED <<account, slipped>>
      BY <1>1, <2>2 DEF InsertSession, TypeOK
    <2>3. CASE \E u \in Users : SignIn(s, u)
      BY <1>1, <2>3 DEF SignIn, rows, TypeOK, Exists
    <2> QED  BY <1>2, <2>1, <2>2, <2>3 DEF SessionsKept
  (* The accounts of rows and sign-ins: a deactivation reaches them all.   *)
  <1>8. ASSUME NEW u \in Users, Exists(u), account[u].active, ~account'[u].active
        PROVE  \A s \in Sessions : /\ HasRow(s) /\ session[s].user = u => session'[s] = Spent
                                   /\ signing[s] = u => s \in slipped'
    <2>1. PICK r \in Requests : SetActive(r) /\ req[r].target = u /\ req[r].op = "deactivate"
      BY <1>2, <1>8 DEF AccountsKept
    <2> QED  BY <2>1 DEF SetActive
  <1>9. UsersExist'
    <2>1. ASSUME NEW s \in Sessions, session'[s] \notin {NoSession, Spent}
          PROVE  account'[session'[s].user] # NoAccount
      <3>1. CASE session'[s] = session[s]
        BY <1>1, <1>2, <2>1, <3>1 DEF UsersExist, HasRow, Exists, AccountsKept, TypeOK,
                                      SessionType
      <3>2. CASE /\ signing[s] \in Users /\ UNCHANGED account
                 /\ session'[s] = [user |-> signing[s], expires |-> now + SessionLife]
        BY <1>1, <3>2, AccountsAssumption DEF SigningIsActive, Exists
      <3> QED  BY <1>7, <2>1, <3>1, <3>2
    <2>2. ASSUME NEW u \in creating' PROVE account'[u] # NoAccount
      <3>1. CASE u \in creating
        BY <1>1, <1>2, <3>1 DEF UsersExist, TypeOK, AccountsKept
      <3>2. CASE u \notin creating
        <4>1. PICK v \in Users, role \in Roles : CreateUser(v, role)
          BY <2>2, <3>2
          DEF Next, Handler, vars, rows, SignIn, InsertSession, SignOut, Request,
              RequireOwnUser, CountActiveOwners, SetRole, SetActive, EndRequest,
              LinkAccount, StopCreating, SuspendOrg, StartSweep, SweepBatch, Tick
        <4> DEFINE new == [role |-> role, active |-> TRUE, password |-> FALSE]
        <4>2. new \in AccountType
          BY DEF AccountType
        <4>3. u = v
          BY <2>2, <3>2, <4>1 DEF CreateUser
        <4>4. account' = [account EXCEPT ![v] = new]
          BY <4>1 DEF CreateUser
        <4> HIDE DEF new
        <4> QED  BY <1>1, <4>2, <4>3, <4>4, AccountsAssumption DEF TypeOK
      <3> QED  BY <3>1, <3>2
    <2> QED  BY <2>1, <2>2 DEF UsersExist, HasRow, Exists
  <1>10. SigningIsActive'
    <2> SUFFICES ASSUME NEW s \in Sessions, signing'[s] # NoUser
                 PROVE  /\ session'[s] = NoSession /\ account'[signing'[s]] # NoAccount
                        /\ account'[signing'[s]].active \/ s \in slipped'
      BY DEF SigningIsActive, Exists
    <2>1. CASE /\ session'[s] = session[s] /\ signing'[s] = signing[s]
               /\ HasRow(s) \/ signing[s] # NoUser => (s \in slipped => s \in slipped')
      <3>1. /\ signing[s] \in Users /\ Exists(signing[s]) /\ session[s] = NoSession
            /\ account[signing[s]].active \/ s \in slipped
        BY <1>1, <2>1 DEF SigningIsActive, TypeOK
      <3> QED  BY <1>2, <1>8, <2>1, <3>1 DEF AccountsKept
    <2>2. CASE /\ signing'[s] \in Users /\ session[s] = NoSession
               /\ account[signing'[s]] # NoAccount /\ account[signing'[s]].active
               /\ UNCHANGED <<account, session>>
      BY <2>2
    <2> QED  BY <1>7, <2>1, <2>2
  <1>11. InactiveHasOnlySlipped'
    <2> SUFFICES ASSUME NEW s \in Sessions, session'[s] \notin {NoSession, Spent},
                        ~account'[session'[s].user].active
                 PROVE  s \in slipped'
      BY DEF InactiveHasOnlySlipped, HasRow
    <2>1. CASE /\ session'[s] = session[s]
               /\ HasRow(s) \/ signing[s] # NoUser => (s \in slipped => s \in slipped')
      <3>1. HasRow(s) /\ session[s].user \in Users /\ Exists(session[s].user)
        BY <1>1, <2>1 DEF HasRow, UsersExist, TypeOK, SessionType
      <3>2. account[session[s].user].active => session'[s] = Spent
        BY <1>8, <2>1, <3>1
      <3> QED  BY <1>1, <2>1, <3>1, <3>2 DEF InactiveHasOnlySlipped
    <2>2. CASE /\ signing[s] \in Users /\ UNCHANGED <<account, slipped>>
               /\ session'[s] = [user |-> signing[s], expires |-> now + SessionLife]
      BY <1>1, <2>2, AccountsAssumption DEF SigningIsActive
    <2> QED  BY <1>7, <2>1, <2>2 DEF HasRow
  <1> QED  BY <1>3, <1>5, <1>6, <1>9, <1>10, <1>11 DEF IInv

(* The inductive invariant holds in every state.                           *)
LEMMA Invariant == Spec => []IInv
  <1>1. IInv /\ UNCHANGED vars => IInv'
    BY NextInvariant
  <1> QED  BY InitInvariant, NextInvariant, PTL DEF Spec

-----------------------------------------------------------------------------
(* Types: every state of Accounts is one its declarations describe, and    *)
(* setUserActive and setUserRole never run on the caller's own account.    *)
THEOREM TypesHold == Spec => []TypeOK
  BY Invariant, PTL DEF IInv

(* Deactivation is complete: however sign-ins, deactivations and sweeps    *)
(* interleave, the only session an inactive user has is one that was being *)
(* created by auth.ts when setUserActive deleted the others.               *)
THEOREM OnlySlippedSessions == Spec => []InactiveHasOnlySlipped
  BY Invariant, PTL DEF IInv

(* The pages that authz.ts and the sign-in page guard never send a visitor *)
(* in circles, in whatever state session, user and organization are.       *)
THEOREM NoRedirectLoop == Spec => []RedirectsEnd
  <1>1. ASSUME NEW s \in Sessions PROVE Start(s) \in {"count", "office"}
    BY DEF Start
  <1>2. ASSUME NEW s \in Sessions, CurrentUser(s)
        PROVE  /\ Redirect("login", s) = Start(s) /\ Redirect("root", s) = Start(s)
               /\ Redirect("count", s) = "count" /\ Redirect("office", s) = Start(s)
    BY <1>2 DEF Redirect
  <1>3. ASSUME NEW s \in Sessions, ~CurrentUser(s)
        PROVE  \A page \in {"root", "login", "count", "office"} : Redirect(page, s) = "login"
    BY <1>3 DEF Redirect
  <1>4. RedirectsEnd
    <2> SUFFICES ASSUME NEW s \in Sessions, NEW page \in {"root", "login", "count", "office"}
                 PROVE  Redirect(Redirect(Redirect(page, s), s), s)
                          = Redirect(Redirect(page, s), s)
      BY DEF RedirectsEnd
    <2>1. CASE CurrentUser(s)
      BY <1>1, <1>2, <2>1
    <2>2. CASE ~CurrentUser(s)
      BY <1>3, <2>2
    <2> QED  BY <2>1, <2>2
  <1> QED  BY <1>4, PTL

(* What an owner asks for changes accounts and sessions of the owner's own *)
(* organization only, although the statement that deletes sessions names   *)
(* no organization: requireOwnUser has looked the user up before.          *)
THEOREM TenantsAreIsolated == Spec => TenantIsolation
  <1> DEFINE Isolated ==
        \A r \in Requests :
          req[r] # NoRequest /\ req'[r] = NoRequest =>
            /\ \A u \in Users :
                 account'[u] # account[u] => OrgOf[u] = OrgOf[req[r].actor]
            /\ \A s \in Sessions :
                 session'[s] # session[s] => OrgOf[session[s].user] = OrgOf[req[r].actor]
  <1>1. IInv /\ [Next]_vars => [Isolated]_vars
    <2> SUFFICES ASSUME IInv, [Next]_vars, NEW r \in Requests,
                        req[r] # NoRequest, req'[r] = NoRequest
                 PROVE  /\ \A u \in Users :
                             account'[u] # account[u] => OrgOf[u] = OrgOf[req[r].actor]
                        /\ \A s \in Sessions :
                             session'[s] # session[s] =>
                               OrgOf[session[s].user] = OrgOf[req[r].actor]
      OBVIOUS
    <2>1. TypeOK /\ TargetsAreOwn
      BY DEF IInv
    <2>2. CASE UNCHANGED <<account, session>>
      BY <2>2
    <2>3. ASSUME NEW q \in Requests, SetRole(q) \/ SetActive(q) PROVE q = r
      BY <2>1, <2>3 DEF SetRole, SetActive, TypeOK
    <2>4. CASE SetRole(r)
      <3>1. req[r].target \in Users /\ OrgOf[req[r].target] = OrgOf[req[r].actor]
        BY <2>1, <2>4, WriteHasTarget DEF SetRole, Under
      <3> QED  BY <2>1, <2>4, <3>1, SetRoleStep DEF SetRole
    <2>5. CASE SetActive(r)
      <3>1. req[r].target \in Users /\ OrgOf[req[r].target] = OrgOf[req[r].actor]
        BY <2>1, <2>5, WriteHasTarget DEF SetActive, Under
      <3>2. \A s \in Sessions : session'[s] # session[s] => session[s].user = req[r].target
        BY <2>1, <2>5 DEF SetActive, TypeOK
      <3> QED  BY <2>1, <2>5, <3>1, <3>2, SetActiveStep
    <2>6. \/ UNCHANGED req
          \/ UNCHANGED <<account, session>>
          \/ \E q \in Requests : SetRole(q) \/ SetActive(q)
      BY DEF Next, Handler, vars, rows, SignIn, InsertSession, SignOut, Request,
             RequireOwnUser, CountActiveOwners, EndRequest, CreateUser, LinkAccount,
             StopCreating, SuspendOrg, StartSweep, SweepBatch, Tick
    <2> QED  BY <2>2, <2>3, <2>4, <2>5, <2>6
  <1> QED  BY <1>1, Invariant, PTL DEF Spec, TenantIsolation

(* An organization loses its last active owner only to a write whose guard *)
(* in users.ts had gone out of date: it never fails while nothing overlaps.*)
THEOREM OwnersAreLostOnlyByRace == Spec => LastOwnerLostOnlyByRace
  <1> DEFINE OnlyByRace ==
        \A o \in Orgs :
          ActiveOwners(o) # {} /\ ActiveOwners(o)' = {} =>
            \E r \in Requests :
              /\ req[r] # NoRequest /\ req[r].step = "write" /\ req[r].target \in ActiveOwners(o)
              /\ IF RemovesOwner(req[r].op, req[r].role)
                 THEN req[r].others # {} /\ req[r].others \cap ActiveOwners(o) = {}
                 ELSE req[r].role # "owner"
  <1>1. IInv /\ [Next]_vars => [OnlyByRace]_vars
    <2> SUFFICES ASSUME IInv, [Next]_vars, NEW o \in Orgs, NEW w \in ActiveOwners(o),
                        ActiveOwners(o)' = {}
                 PROVE  \E r \in Requests :
                          /\ req[r] # NoRequest /\ req[r].step = "write"
                          /\ req[r].target \in ActiveOwners(o)
                          /\ IF RemovesOwner(req[r].op, req[r].role)
                             THEN req[r].others # {} /\ req[r].others \cap ActiveOwners(o) = {}
                             ELSE req[r].role # "owner"
      OBVIOUS
    <2>1. TypeOK /\ TargetsAreOwn /\ OthersWereSeen /\ UsersExist
      BY DEF IInv
    <2>2. \A v \in ActiveOwners(o) :
            /\ v \in Users /\ OrgOf[v] = o /\ account[v] # NoAccount
            /\ account[v].role = "owner" /\ account[v].active
      BY DEF ActiveOwners, Exists
    <2>3. \A v \in ActiveOwners(o) :
            ~(/\ account'[v] # NoAccount /\ account'[v].role = "owner" /\ account'[v].active)
      BY <2>2 DEF ActiveOwners, Exists
    <2>4. ~UNCHANGED account
      BY <2>2, <2>3
    <2>5. ASSUME NEW u \in Users, NEW role \in Roles, CreateUser(u, role) PROVE FALSE
      BY <2>1, <2>2, <2>3, <2>5 DEF CreateUser, Exists, TypeOK
    <2>6. ASSUME NEW u \in Users, LinkAccount(u) PROVE FALSE
      BY <2>1, <2>2, <2>3, <2>6, LinkAccountStep
    <2>7. PICK r \in Requests : SetRole(r) \/ SetActive(r)
      BY <2>4, <2>5, <2>6
      DEF Next, Handler, vars, rows, SignIn, InsertSession, SignOut, Request,
          RequireOwnUser, CountActiveOwners, EndRequest, StopCreating, SuspendOrg,
          StartSweep, SweepBatch, Tick
    <2>8. Under(r, {"write"})
      BY <2>7 DEF SetRole, SetActive, Under
    <2>9. \A v \in ActiveOwners(o) : v = req[r].target
      BY <2>1, <2>2, <2>3, <2>7, SetRoleStep, SetActiveStep
    <2>10. req[r].op \notin {"activate", "owner"}
      <3>1. CASE SetRole(r)
        <4>1. w = req[r].target /\ req[r].op \in Roles
          BY <2>9, <3>1 DEF SetRole
        <4>2. account'[w] # NoAccount /\ account'[w].role = req[r].op
              /\ account'[w].active = account[w].active
          BY <2>1, <3>1, <4>1, SetRoleStep
        <4>3. req[r].op # "owner"
          BY <2>2, <2>3, <4>2
        <4> QED  BY <4>1, <4>3 DEF Roles
      <3>2. CASE SetActive(r)
        <4>1. account'[req[r].target].active = (req[r].op = "activate")
               /\ req[r].op \in {"activate", "deactivate"}
          BY <2>1, <3>2, SetActiveStep
        <4>2. ~account'[req[r].target].active
          BY <2>1, <2>2, <2>3, <2>9, <3>2, SetActiveStep
        <4> QED  BY <4>1, <4>2
      <3> QED  BY <2>7, <3>1, <3>2
    <2>11. RemovesOwner(req[r].op, req[r].role) <=> req[r].role = "owner"
      BY <2>10 DEF RemovesOwner
    <2>12. RemovesOwner(req[r].op, req[r].role) =>
             req[r].others # {} /\ req[r].others \cap ActiveOwners(o) = {}
      BY <2>1, <2>8, <2>9 DEF OthersWereSeen
    <2>13. req[r].target \in ActiveOwners(o)
      BY <2>9
    <2> QED  BY <2>8, <2>11, <2>12, <2>13 DEF Under
  <1> QED  BY <1>1, Invariant, PTL DEF Spec, LastOwnerLostOnlyByRace

(* sweepExpiredSessions ends only when no session is left that had expired *)
(* when it began, for every batch size and whatever happens in between.    *)
THEOREM SweepLeavesNothing == Spec => SweepIsComplete
  <1> DEFINE Complete ==
        sweep # NoSweep /\ sweep' = NoSweep =>
          \A s \in Sessions : HasRow(s)' => session'[s].expires >= sweep
  <1>1. IInv /\ [Next]_vars => [Complete]_vars
    <2> SUFFICES ASSUME IInv, [Next]_vars, sweep # NoSweep, sweep' = NoSweep,
                        NEW s \in Sessions, session'[s] \notin {NoSession, Spent}
                 PROVE  session'[s].expires >= sweep
      BY DEF HasRow
    <2>1. TypeOK
      BY DEF IInv
    <2>2. SweepBatch
      BY DEF Next, Handler, vars, rows, SignIn, InsertSession, SignOut, Request,
             RequireOwnUser, CountActiveOwners, SetRole, SetActive, EndRequest, CreateUser,
             LinkAccount, StopCreating, SuspendOrg, StartSweep, Tick
    <2>3. session' = [t \in Sessions |-> IF t \in Expired(sweep) THEN Spent ELSE session[t]]
      BY <2>2 DEF SweepBatch
    <2>4. session'[s] = session[s] /\ s \notin Expired(sweep)
      BY <2>3
    <2>5. ~(session[s].expires < sweep)
      BY <2>4 DEF Expired, HasRow
    <2>6. session[s].expires \in Int /\ sweep \in Int
      BY <2>1, <2>4, AccountsAssumption DEF TypeOK, SessionType
    <2> QED  BY <2>4, <2>5, <2>6
  <1> QED  BY <1>1, Invariant, PTL DEF Spec, SweepIsComplete

=============================================================================
