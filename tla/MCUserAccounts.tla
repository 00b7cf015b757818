------------------------- MODULE MCUserAccounts -------------------------
(* Small instances of UserAccounts for TLC. *)
EXTENDS UserAccounts, TLC

Admin == [role |-> "admin", active |-> TRUE, grants |-> {}]
Sub == [role |-> "subaccount", active |-> TRUE, grants |-> Domains]

Body(newRole, newActive) ==
  [role |-> newRole, active |-> newActive, regrant |-> FALSE, grants |-> {}]
BodyWithGrants(newRole, newActive, g) ==
  [role |-> newRole, active |-> newActive, regrant |-> TRUE, grants |-> g]

Demote == BodyWithGrants("subaccount", "keep", {})
Deactivate == Body("keep", "no")
Promote == Body("admin", "yes")

\* Bodies that demote, deactivate, promote, reactivate and grant, and one that
\* is refused for an administrator.
Bodies == {BodyWithGrants("subaccount", "keep", Domains), Deactivate, Promote,
           Body("subaccount", "no"), BodyWithGrants("keep", "yes", Domains)}

OnlyDemote == {Demote}
NewAccounts == {Admin, Sub}
NoNewRows == {}

Table(f) == [u \in Users |-> IF u \in DOMAIN f THEN f[u] ELSE NoRow]

TwoAdmins == {Table(<<Admin, Admin>>), Table(<<Admin, Admin, Admin>>)}
AdminAndTwoSubs == {Table(<<Admin, Sub, Sub>>)}
AnyRequest == Permutations(Requests)

===========================================================================
