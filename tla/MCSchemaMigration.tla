-------------------------- MODULE MCSchemaMigration --------------------------
(* Small instances of SchemaMigration for TLC. *)
EXTENDS SchemaMigration

CONSTANTS h1, h2, h3, ip1, ip2, u1, u2, k1, b1, b2, g1

N(host, casing, dots) == [host |-> host, casing |-> casing, dots |-> dots]
T(ip, padded) == [ip |-> ip, padded |-> padded]

\* Three domains, so that a name may be held by one to be renamed later.
LegacyNames ==
  {f \in [Domains -> {N(h1, "lower", 0), N(h1, "mixed", 1), N(h2, "lower", 0),
                      N(h2, "upper", 0), N(h2, "lower", 2), N(h3, "upper", 1), N(Odd, "lower", 0)}] : Distinct(f)}

LegacyBlacklists ==
  {f \in [Entries -> {T(ip1, FALSE), T(ip1, TRUE), T(ip2, FALSE), T(Odd, FALSE)}] : Distinct(f)}

D(names, roles, granted, blacklist, result, policies) ==
  [names |-> names, roles |-> roles, granted |-> granted,
   access |-> [pair \in Users \X Domains |-> "none"], blacklist |-> blacklist,
   logs |-> [log \in Logs |-> [result |-> result, name |-> Unset, reason |-> "none"]],
   policies_convert |-> policies]

SomeRoles == [user \in Users |-> IF user = u1 THEN "client" ELSE "operator"]
SomeGrants == {<<user, d>> \in Users \X Domains : user = u1 \/ d = 1}
Fine == [entry \in Entries |-> T(IF entry = b1 THEN ip1 ELSE ip2, TRUE)]
Convertible == [d \in Domains |-> IF d = 1 THEN N(h1, "mixed", 1)
                                  ELSE IF d = 2 THEN N(h2, "upper", 0) ELSE N(h3, "lower", 0)]

\* What can be wrong is tried in the names alone, then in all the rest.
Names == {D(names, SomeRoles, SomeGrants, Fine, "denied", TRUE) : names \in LegacyNames}
Rest == {D(Convertible, roles, SomeGrants, blacklist, result, policies) :
           roles \in [Users -> LegacyRoles], blacklist \in LegacyBlacklists,
           result \in LegacyResults, policies \in BOOLEAN}
MCLegacyData == Names \cup Rest

MCDomainOf == [link \in Links |-> 1]
MCLinkOf == [log \in Logs |-> k1]

===========================================================================
