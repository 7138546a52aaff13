------------------------------ MODULE Accounts ------------------------------
(***************************************************************************)
(* Users, sessions and who may act: lib/domain/users.ts, lib/auth.ts,      *)
(* lib/authz.ts, lib/current-user.ts, lib/domain/sessions.ts and the two   *)
(* operator scripts.                                                       *)
(*                                                                         *)
(* An owner's request to change another user runs as the code does: the    *)
(* caller is authorized, the target is read, the other active owners are   *)
(* counted, each by a statement of its own and outside the transaction     *)
(* that writes.  Sign-in checks that the user is active and inserts the    *)
(* session afterwards.  Sessions expire by the clock and are swept in      *)
(* bounded batches.                                                        *)
(***************************************************************************)
EXTENDS Integers, FiniteSets

CONSTANTS
  Users,          \* email addresses: one account each
  Orgs, OrgOf,    \* the organization of each account
  Sessions,       \* session tokens
  Requests,       \* concurrent requests of owners
  InitialAccounts,\* the accounts there are at first
  SessionLife,    \* expiresIn, in ticks of the clock
  MaxTime,        \* bound: the clock
  BatchSize,      \* rows one DELETE of the sweep may remove
  MaxRequests,    \* bound: requests in all
  Asked,          \* bound: what owners ask for
  Suspendable,    \* bound: the organizations the operator suspends
  NoAccount, NoSession, Spent, NoRequest, NoUser, NoSweep

Roles == {"owner", "manager", "staff"}
Ops == {"activate", "deactivate"} \cup Roles

AccountType == [role : Roles, active : BOOLEAN, password : BOOLEAN]
SessionType == [user : Users, expires : 0..(MaxTime + SessionLife)]
RequestType ==
  [step : {"target", "count", "write"}, actor : Users, target : Users, op : Ops,
   role : Roles, others : SUBSET Users]

ASSUME AccountsAssumption ==
  /\ OrgOf \in [Users -> Orgs]
  /\ InitialAccounts \subseteq [Users -> AccountType \cup {NoAccount}]
  /\ SessionLife \in Nat /\ MaxTime \in Nat /\ MaxRequests \in Nat /\ BatchSize \in Nat \ {0}
  /\ Asked \subseteq Ops /\ Suspendable \subseteq Orgs
  /\ NoAccount \notin AccountType
  /\ NoUser \notin Users

VARIABLES
  account,     \* user and its credential row, by email
  orgActive,   \* organization.active
  session,     \* session rows, by token; a spent token is never issued again
  now,         \* the clock
  signing,     \* sign-ins past the hook: the user of a session not yet inserted
  req,         \* owners' requests under way
  asked,       \* how many there have been
  sweep,       \* the cut-off of a running sweep
  creating,    \* accounts whose create-user script has inserted the user only
  slipped      \* sessions being created while their user was deactivated

rows == <<account, orgActive, session>>
vars == <<rows, now, signing, req, asked, sweep, creating, slipped>>

Exists(u) == account[u] # NoAccount

ActiveOwners(o) ==
  {u \in Users : /\ OrgOf[u] = o /\ Exists(u)
                 /\ account[u].role = "owner" /\ account[u].active}

Init ==
  /\ account \in InitialAccounts
  /\ orgActive = [o \in Orgs |-> TRUE]
  /\ session = [s \in Sessions |-> NoSession]
  /\ now = 0
  /\ signing = [s \in Sessions |-> NoUser]
  /\ req = [r \in Requests |-> NoRequest]
  /\ asked = 0
  /\ sweep = NoSweep
  /\ creating = {}
  /\ slipped = {}

-----------------------------------------------------------------------------
(* Who is calling.                                                         *)

(* Better Auth's getSession: a row that has not expired.                   *)
HasRow(s) == session[s] \notin {NoSession, Spent}
GetSession(s) == HasRow(s) /\ session[s].expires >= now

(* getCurrentUser, and requireSession with it: user and organization are   *)
(* read again on every request, and both must be active.                   *)
CurrentUser(s) ==
  /\ GetSession(s)
  /\ Exists(session[s].user)
  /\ account[session[s].user].active
  /\ orgActive[OrgOf[session[s].user]]

RequireRole(s, allowed) ==
  CurrentUser(s) /\ account[session[s].user].role \in allowed

(* Where a page sends its visitor: requireUser, requireOfficeUser and the  *)
(* root, or the page itself.                                               *)
Start(s) == IF account[session[s].user].role = "staff" THEN "count" ELSE "office"

Redirect(page, s) ==
  CASE page = "login"  -> IF CurrentUser(s) THEN Start(s) ELSE page
    [] page = "root"   -> IF CurrentUser(s) THEN Start(s) ELSE "login"
    [] page = "count"  -> IF CurrentUser(s) THEN page ELSE "login"
    [] page = "office" -> IF CurrentUser(s) THEN Start(s) ELSE "login"

-----------------------------------------------------------------------------
(* Sign-in and sign-out.                                                   *)

(* The password is right, and the hook before session creation has read    *)
(* that the user is active ...                                             *)
SignIn(s, u) ==
  /\ session[s] = NoSession /\ signing[s] = NoUser
  /\ Exists(u) /\ account[u].password /\ account[u].active
  /\ signing' = [signing EXCEPT ![s] = u]
  /\ UNCHANGED <<rows, now, req, asked, sweep, creating, slipped>>

(* ... and then Better Auth inserts the row, to expire SessionLife later:  *)
(* disableSessionRefresh, so it is never moved.                            *)
InsertSession(s) ==
  /\ signing[s] # NoUser
  /\ session' = [session EXCEPT ![s] = [user |-> signing[s], expires |-> now + SessionLife]]
  /\ signing' = [signing EXCEPT ![s] = NoUser]
  /\ UNCHANGED <<account, orgActive, now, req, asked, sweep, creating, slipped>>

SignOut(s) ==
  /\ HasRow(s)
  /\ session' = [session EXCEPT ![s] = Spent]
  /\ slipped' = slipped \ {s}
  /\ UNCHANGED <<account, orgActive, now, signing, req, asked, sweep, creating>>

-----------------------------------------------------------------------------
(* setUserActive and setUserRole.                                          *)
(* The guard against the last owner is needed only by these.               *)
RemovesOwner(op, role) == role = "owner" /\ op \notin {"activate", "owner"}

(* Mistake: an owner may also act on the owner's own account.              *)
RequestOnSelf(r, s, target, op) ==
  /\ req[r] = NoRequest /\ asked < MaxRequests
  /\ RequireRole(s, {"owner"})
  /\ req' = [req EXCEPT ![r] = [step |-> "target", actor |-> session[s].user,
                                target |-> target, op |-> op,
                                role |-> "staff", others |-> {}]]
  /\ asked' = asked + 1
  /\ UNCHANGED <<rows, now, signing, sweep, creating, slipped>>

(* The action: requireRole("owner"), and never on oneself.                 *)
Request(r, s, target, op) ==
  /\ req[r] = NoRequest /\ asked < MaxRequests
  /\ RequireRole(s, {"owner"})
  /\ target # session[s].user
  /\ req' = [req EXCEPT ![r] = [step |-> "target", actor |-> session[s].user,
                                target |-> target, op |-> op,
                                role |-> "staff", others |-> {}]]
  /\ asked' = asked + 1
  /\ UNCHANGED <<rows, now, signing, sweep, creating, slipped>>

(* Mistake: the target is looked up by id alone.                           *)
RequireAnyUser(r) ==
  /\ req[r] # NoRequest /\ req[r].step = "target"
  /\ LET q == req[r] IN
     /\ Exists(q.target)
     /\ req' = [req EXCEPT ![r].role = account[q.target].role,
                           ![r].step = IF RemovesOwner(q.op, account[q.target].role)
                                       THEN "count" ELSE "write"]
  /\ UNCHANGED <<rows, now, signing, asked, sweep, creating, slipped>>

(* requireOwnUser.                                                         *)
RequireOwnUser(r) ==
  /\ req[r] # NoRequest /\ req[r].step = "target"
  /\ LET q == req[r] IN
     /\ Exists(q.target) /\ OrgOf[q.target] = OrgOf[q.actor]
     /\ req' = [req EXCEPT ![r].role = account[q.target].role,
                           ![r].step = IF RemovesOwner(q.op, account[q.target].role)
                                       THEN "count" ELSE "write"]
  /\ UNCHANGED <<rows, now, signing, asked, sweep, creating, slipped>>

(* Mistake: the target counts as one of the remaining owners.              *)
CountAllActiveOwners(r) ==
  /\ req[r] # NoRequest /\ req[r].step = "count"
  /\ LET others == ActiveOwners(OrgOf[req[r].actor]) IN
     /\ others # {}
     /\ req' = [req EXCEPT ![r].others = others, ![r].step = "write"]
  /\ UNCHANGED <<rows, now, signing, asked, sweep, creating, slipped>>

(* countActiveOwners, the target excluded.                                 *)
CountActiveOwners(r) ==
  /\ req[r] # NoRequest /\ req[r].step = "count"
  /\ LET others == ActiveOwners(OrgOf[req[r].actor]) \ {req[r].target} IN
     /\ others # {}
     /\ req' = [req EXCEPT ![r].others = others, ![r].step = "write"]
  /\ UNCHANGED <<rows, now, signing, asked, sweep, creating, slipped>>

(* A guard refuses, or the database fails: nothing has been written.       *)
EndRequest(r) ==
  /\ req[r] # NoRequest
  /\ req' = [req EXCEPT ![r] = NoRequest]
  /\ UNCHANGED <<rows, now, signing, asked, sweep, creating, slipped>>

SetRole(r) ==
  /\ req[r] # NoRequest /\ req[r].step = "write" /\ req[r].op \in Roles
  /\ IF OrgOf[req[r].target] = OrgOf[req[r].actor]
     THEN account' = [account EXCEPT ![req[r].target].role = req[r].op]
     ELSE UNCHANGED account
  /\ req' = [req EXCEPT ![r] = NoRequest]
  /\ UNCHANGED <<orgActive, session, now, signing, asked, sweep, creating, slipped>>

(* Mistake: the sessions of a deactivated user are left to expire.         *)
SetActiveKeepingSessions(r) ==
  /\ req[r] # NoRequest /\ req[r].step = "write" /\ req[r].op \notin Roles
  /\ account' = [account EXCEPT ![req[r].target].active = (req[r].op = "activate")]
  /\ req' = [req EXCEPT ![r] = NoRequest]
  /\ UNCHANGED <<orgActive, session, now, signing, asked, sweep, creating, slipped>>

(* The update names the organization, the delete of the sessions only the  *)
(* user; both commit together.                                             *)
SetActive(r) ==
  /\ req[r] # NoRequest /\ req[r].step = "write" /\ req[r].op \notin Roles
  /\ LET u == req[r].target IN
     /\ IF OrgOf[u] = OrgOf[req[r].actor]
        THEN account' = [account EXCEPT ![u].active = (req[r].op = "activate")]
        ELSE UNCHANGED account
     /\ IF req[r].op = "deactivate"
        THEN /\ session' = [s \in Sessions |->
                              IF HasRow(s) /\ session[s].user = u
                              THEN Spent ELSE session[s]]
             /\ slipped' = slipped \cup {s \in Sessions : signing[s] = u}
        ELSE UNCHANGED <<session, slipped>>
  /\ req' = [req EXCEPT ![r] = NoRequest]
  /\ UNCHANGED <<orgActive, now, signing, asked, sweep, creating>>

-----------------------------------------------------------------------------
(* The operator: scripts/create-user.ts, scripts/sweep-sessions.ts, and a  *)
(* tenant suspended in the database.                                       *)

(* main of create-user: the email is free, the user row goes in ...        *)
CreateUser(u, role) ==
  /\ ~Exists(u)
  /\ account' = [account EXCEPT ![u] = [role |-> role, active |-> TRUE, password |-> FALSE]]
  /\ creating' = creating \cup {u}
  /\ UNCHANGED <<orgActive, session, now, signing, req, asked, sweep, slipped>>

(* ... then its credential, by another statement.                          *)
LinkAccount(u) ==
  /\ u \in creating
  /\ account' = [account EXCEPT ![u].password = TRUE]
  /\ creating' = creating \ {u}
  /\ UNCHANGED <<orgActive, session, now, signing, req, asked, sweep, slipped>>

(* The script stops in between; run again it finds the email taken.        *)
StopCreating(u) ==
  /\ u \in creating
  /\ creating' = creating \ {u}
  /\ UNCHANGED <<rows, now, signing, req, asked, sweep, slipped>>

SuspendOrg(o) ==
  /\ orgActive' = [orgActive EXCEPT ![o] = ~@]
  /\ UNCHANGED <<account, session, now, signing, req, asked, sweep, creating, slipped>>

Expired(cutoff) ==
  {s \in Sessions : HasRow(s) /\ session[s].expires < cutoff}

StartSweep ==
  /\ sweep = NoSweep
  /\ sweep' = now
  /\ UNCHANGED <<rows, now, signing, req, asked, creating, slipped>>

(* Mistake: the loop ends after a full batch.                              *)
SweepOneBatch ==
  /\ sweep # NoSweep
  /\ \E batch \in SUBSET Expired(sweep) :
       /\ Cardinality(batch) <= BatchSize
       /\ Cardinality(batch) < BatchSize => batch = Expired(sweep)
       /\ session' = [s \in Sessions |-> IF s \in batch THEN Spent ELSE session[s]]
       /\ slipped' = slipped \ batch
  /\ sweep' = NoSweep
  /\ UNCHANGED <<account, orgActive, now, signing, req, asked, creating>>

(* sweepExpiredSessions: one DELETE of at most BatchSize rows, whichever   *)
(* the database picks; a batch that is not full ends the script.           *)
SweepBatch ==
  /\ sweep # NoSweep
  /\ \E batch \in SUBSET Expired(sweep) :
       /\ Cardinality(batch) <= BatchSize
       /\ Cardinality(batch) < BatchSize => batch = Expired(sweep)
       /\ session' = [s \in Sessions |-> IF s \in batch THEN Spent ELSE session[s]]
       /\ slipped' = slipped \ batch
       /\ sweep' = IF Cardinality(batch) < BatchSize THEN NoSweep ELSE sweep
  /\ UNCHANGED <<account, orgActive, now, signing, req, asked, creating>>

Tick ==
  /\ now < MaxTime
  /\ now' = now + 1
  /\ UNCHANGED <<rows, signing, req, asked, sweep, creating, slipped>>

-----------------------------------------------------------------------------
Handler(r) == RequireOwnUser(r) \/ CountActiveOwners(r) \/ SetRole(r) \/ SetActive(r)

Next ==
  \/ \E s \in Sessions, u \in Users : SignIn(s, u)
  \/ \E s \in Sessions : InsertSession(s) \/ SignOut(s)
  \/ \E r \in Requests, s \in Sessions, u \in Users, op \in Asked : Request(r, s, u, op)
  \/ \E r \in Requests : Handler(r) \/ EndRequest(r)
  \/ \E u \in Users, role \in Roles : CreateUser(u, role)
  \/ \E u \in Users : LinkAccount(u) \/ StopCreating(u)
  \/ \E o \in Suspendable : SuspendOrg(o)
  \/ StartSweep
  \/ SweepBatch
  \/ Tick

Spec == Init /\ [][Next]_vars

-----------------------------------------------------------------------------
TypeOK ==
  /\ account \in [Users -> AccountType \cup {NoAccount}]
  /\ orgActive \in [Orgs -> BOOLEAN]
  /\ session \in [Sessions -> SessionType \cup {NoSession, Spent}]
  /\ now \in 0..MaxTime
  /\ signing \in [Sessions -> Users \cup {NoUser}]
  /\ req \in [Requests -> RequestType \cup {NoRequest}]
  /\ \A r \in Requests : req[r] # NoRequest => req[r].actor # req[r].target
  /\ asked \in 0..MaxRequests
  /\ sweep \in 0..MaxTime \cup {NoSweep}
  /\ creating \subseteq Users
  /\ slipped \subseteq Sessions

(* An organization that has an active owner keeps one, unless requests     *)
(* overlap: the write that takes the last one away relies on a guard that  *)
(* is out of date - on other owners who have lost the role since, or on a  *)
(* target that was no owner when it was read.                              *)
LastOwnerLostOnlyByRace ==
  [][\A o \in Orgs :
       ActiveOwners(o) # {} /\ ActiveOwners(o)' = {} =>
         \E r \in Requests :
           /\ req[r] # NoRequest /\ req[r].step = "write" /\ req[r].target \in ActiveOwners(o)
           /\ IF RemovesOwner(req[r].op, req[r].role)
              THEN req[r].others # {} /\ req[r].others \cap ActiveOwners(o) = {}
              ELSE req[r].role # "owner"]_vars

(* Deactivation deletes a user's sessions: one that an inactive user has   *)
(* was just being created when that happened, and no later one is made.    *)
InactiveHasOnlySlipped ==
  \A s \in Sessions :
    HasRow(s) /\ ~account[session[s].user].active => s \in slipped

(* Nothing an owner of one organization does touches the accounts or       *)
(* sessions of another.                                                    *)
TenantIsolation ==
  [][\A r \in Requests :
       req[r] # NoRequest /\ req'[r] = NoRequest =>
         /\ \A u \in Users :
              account'[u] # account[u] => OrgOf[u] = OrgOf[req[r].actor]
         /\ \A s \in Sessions :
              session'[s] # session[s] => OrgOf[session[s].user] = OrgOf[req[r].actor]]_vars

(* When the sweep ends no session is left that had expired when it began,  *)
(* in however many batches, and with sign-ins, sign-outs and deactivations *)
(* in between.                                                             *)
SweepIsComplete ==
  [][sweep # NoSweep /\ sweep' = NoSweep =>
       \A s \in Sessions :
         HasRow(s)' => session'[s].expires >= sweep]_vars

(* A visitor of any page, in whatever state session, user and organization *)
(* are, is led to a page that shows itself: the sign-in page and the pages *)
(* behind it never send each other's visitors back.                        *)
RedirectsEnd ==
  \A s \in Sessions, page \in {"root", "login", "count", "office"} :
    LET second == Redirect(Redirect(page, s), s)
    IN  Redirect(second, s) = second

=============================================================================
