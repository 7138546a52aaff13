----------------------------- MODULE MCAccounts -----------------------------
(* Accounts on a small instance: a bar with one owner and an account for   *)
(* the operator to create, or with two owners, and an inn with one.        *)
EXTENDS Accounts, TLC

CONSTANTS ann, bob, xia, bar, inn, s1, s2, r1, r2

TwoOrgs == [u \in Users |-> IF u = xia THEN inn ELSE bar]

Owner == [role |-> "owner", active |-> TRUE, password |-> TRUE]

OneOrTwoOwners ==
  {[u \in Users |-> IF u = bob THEN second ELSE Owner] : second \in {NoAccount, Owner}}

(* Tokens and requests are interchangeable; no liveness is checked here.   *)
Symmetric == Permutations(Sessions) \cup Permutations(Requests)

=============================================================================
