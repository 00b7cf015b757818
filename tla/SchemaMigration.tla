--------------------------- MODULE SchemaMigration ---------------------------
(*************************************************************************)
(* The upgrade of a database of the previous version                     *)
(* (alembic/versions/20260912_refactor_schema.py): one transaction that  *)
(* checks and renames domains row by row, checks the blacklist, copies   *)
(* grants, converts roles and policies, fills in the access log and only *)
(* then changes the blacklist's type.  Any statement may refuse, and the *)
(* whole is rolled back; an upgrade of repaired data is one from another *)
(* initial state.  The previous version is stopped meanwhile.  Policies  *)
(* are the subject of PolicyMigration: here they convert or not.         *)
(*************************************************************************)
EXTENDS Naturals, FiniteSets

CONSTANTS
  Domains,     \* identifiers, numbers
  Users, Links, Entries, Logs,
  Hosts,       \* valid DNS names, normalised
  Ips,
  Odd,         \* what is not a valid name or address
  Unset,       \* a column that is not filled in
  DomainOf,    \* link -> domain
  LinkOf,      \* log row -> link
  LegacyData   \* the databases that may be upgraded

\* A domain's name as an administrator has spelled it.
Name == [host : Hosts \cup {Odd}, casing : {"lower", "upper", "mixed"}, dots : 0..2]
IpText == [ip : Ips \cup {Odd}, padded : BOOLEAN]

LegacyRoles == {"admin", "operator", "client", "other"}
LegacyResults == {"allowed", "denied", "blocked", "error", "other"}
LogRow == [result : LegacyResults, name : Name \cup {Unset}, reason : {"none", "other"}]

\* "granted" is user_domains, "access" user_domain_access; the tables' unique
\* constraints hold.
Database ==
  [names : [Domains -> Name], roles : [Users -> LegacyRoles \cup {"subaccount"}],
   granted : SUBSET (Users \X Domains), access : [Users \X Domains -> {"none", "read", "manage"}],
   blacklist : [Entries -> IpText], logs : [Logs -> LogRow], policies_convert : BOOLEAN]

Distinct(f) == \A x, y \in DOMAIN f : f[x] = f[y] => x = y

Legacy(db) ==
  /\ db \in Database
  /\ Distinct(db.names) /\ Distinct(db.blacklist)
  /\ \A user \in Users : db.roles[user] # "subaccount"
  /\ \A pair \in Users \X Domains : db.access[pair] = "none"
  /\ \A log \in Logs : db.logs[log].name = Unset /\ db.logs[log].reason = "none"

ASSUME SchemaAssumption ==
  /\ Domains \subseteq Nat /\ IsFiniteSet(Domains)
  /\ DomainOf \in [Links -> Domains] /\ LinkOf \in [Logs -> Links]
  /\ \A db \in LegacyData : Legacy(db)

---------------------------------------------------------------------------
\* Faulty variant: a name that ends in a dot is refused.
ValidNoDot(name) == name.host # Odd /\ name.dots < 1

Valid(name) == name.host # Odd /\ name.dots <= 1

\* Faulty variant: the name is not lowered.
NormalizedDotOnly(name) == [host |-> name.host, casing |-> name.casing, dots |-> 0]

Normalized(name) == [host |-> name.host, casing |-> "lower", dots |-> 0]

\* Faulty variant: only names that are spelled alike conflict.
ConflictIgnored(names) == \E d, e \in Domains : d # e /\ names[d] = names[e]

Conflict(names) == \E d, e \in Domains : d # e /\ Normalized(names[d]) = Normalized(names[e])

\* pg_temp.safe_inet: blanks are trimmed, what is not an address is NULL.
SafeInet(text) == [ip |-> text.ip, padded |-> FALSE]

BlacklistConverts(blacklist) ==
  /\ \A entry \in Entries : blacklist[entry].ip # Odd
  /\ Distinct([entry \in Entries |-> SafeInet(blacklist[entry])])

---------------------------------------------------------------------------
VARIABLES
  db,       \* the database as the transaction sees it
  before,   \* as it was when the transaction began
  pc, todo  \* the next statement; domains still to be renamed

vars == <<db, before, pc, todo>>

Steps == {"ready", "rename", "checkBlacklist", "copyGrants", "convertRoles", "convertPolicies",
          "fillLogs", "alterBlacklist", "commit", "upgraded", "refused"}

TypeOK ==
  /\ db \in Database /\ before \in LegacyData
  /\ pc \in Steps /\ todo \in SUBSET Domains

Init ==
  /\ db \in LegacyData /\ before = db
  /\ pc = "ready" /\ todo = {}

\* Any error rolls the transaction back.
Refuse == /\ pc' = "refused" /\ db' = before /\ UNCHANGED <<before, todo>>

Proceed(next, new) == pc' = next /\ db' = new /\ UNCHANGED <<before, todo>>

\* _preflight_and_normalize_domains, up to its refusals.
CheckDomains ==
  /\ pc = "ready"
  /\ IF (\A d \in Domains : Valid(db.names[d])) /\ ~Conflict(db.names)
       THEN pc' = "rename" /\ todo' = Domains /\ UNCHANGED <<db, before>>
       ELSE Refuse

\* UPDATE domains SET name, one row after another; the unique constraint is
\* checked by each statement.
Rename(d) ==
  /\ pc = "rename" /\ d \in todo /\ \A e \in todo : d <= e
  /\ LET name == Normalized(db.names[d]) IN
       IF \E e \in Domains \ {d} : db.names[e] = name
         THEN Refuse
         ELSE /\ db' = [db EXCEPT !.names[d] = name]
              /\ todo' = todo \ {d}
              /\ UNCHANGED <<before, pc>>

RenamesDone == pc = "rename" /\ todo = {} /\ Proceed("checkBlacklist", db)

CheckBlacklist ==
  /\ pc = "checkBlacklist"
  /\ IF BlacklistConverts(db.blacklist) THEN Proceed("copyGrants", db) ELSE Refuse

LevelOf(role) ==
  IF role = "admin" THEN "none" ELSE IF role = "client" THEN "read" ELSE "manage"

CopyGrants ==
  /\ pc = "copyGrants"
  /\ Proceed("convertRoles", [db EXCEPT !.access =
       [pair \in Users \X Domains |->
          IF pair \in db.granted THEN LevelOf(db.roles[pair[1]]) ELSE "none"]])

\* UPDATE users SET role, and the constraint that refuses any other role.
ConvertRoles ==
  /\ pc = "convertRoles"
  /\ IF \E user \in Users : db.roles[user] = "other"
       THEN Refuse
       ELSE Proceed("convertPolicies", [db EXCEPT !.roles =
              [user \in Users |-> IF db.roles[user] = "admin" THEN "admin" ELSE "subaccount"]])

ConvertPolicies ==
  /\ pc = "convertPolicies"
  /\ IF db.policies_convert THEN Proceed("fillLogs", db) ELSE Refuse

Blocked(result) == result \in {"denied", "blocked"}

\* Faulty variant: the log takes the name the domain had before.
NameForLog(log) == before.names[DomainOf[LinkOf[log]]]

LoggedName(log) == db.names[DomainOf[LinkOf[log]]]

\* UPDATE access_logs, and the constraint that refuses any other result.
FillLogs ==
  /\ pc = "fillLogs"
  /\ IF \E log \in Logs : db.logs[log].result = "other"
       THEN Refuse
       ELSE Proceed("alterBlacklist", [db EXCEPT !.logs =
              [log \in Logs |->
                 LET blocked == Blocked(db.logs[log].result) IN
                   [result |-> IF blocked THEN "blocked" ELSE db.logs[log].result,
                    name |-> LoggedName(log),
                    reason |-> IF blocked THEN "other" ELSE "none"]]])

\* ALTER COLUMN ip TYPE inet: a NULL or a duplicate would be refused.
AlterBlacklist ==
  /\ pc = "alterBlacklist"
  /\ IF BlacklistConverts(db.blacklist)
       THEN Proceed("commit", [db EXCEPT !.blacklist =
              [entry \in Entries |-> SafeInet(db.blacklist[entry])]])
       ELSE Refuse

Commit == pc = "commit" /\ Proceed("upgraded", db)

\* The process dies, the transaction is rolled back, and it is started again.
Die ==
  /\ pc \notin {"ready", "upgraded", "refused"}
  /\ pc' = "ready" /\ db' = before /\ todo' = {} /\ UNCHANGED before

Next ==
  \/ CheckDomains \/ RenamesDone \/ CheckBlacklist \/ CopyGrants \/ ConvertRoles
  \/ ConvertPolicies \/ FillLogs \/ AlterBlacklist \/ Commit \/ Die
  \/ \E d \in Domains : Rename(d)

Spec == Init /\ [][Next]_vars

---------------------------------------------------------------------------
(* Properties.                                                              *)

\* A name that a domain is given is never held by one whose turn has not come:
\* the renaming does not meet the unique constraint (domains.name).
RenamesDoNotCollide ==
  pc = "rename" => \A d \in todo, e \in Domains :
    Normalized(db.names[d]) = db.names[e] => d = e

\* After the upgrade a request for the host of a domain, however that had been
\* spelled, finds this domain and no other.
DomainsResolve ==
  pc = "upgraded" => \A d \in Domains :
    {e \in Domains : db.names[e] = [host |-> before.names[d].host, casing |-> "lower", dots |-> 0]}
      = {d}

\* Only operators come to manage domains, clients read those they had, and
\* administrators hold no grants, as UserAccounts takes for given.
AccessCarriedOver ==
  pc = "upgraded" => \A user \in Users :
    /\ db.roles[user] = (IF before.roles[user] = "admin" THEN "admin" ELSE "subaccount")
    /\ \A d \in Domains :
         db.access[<<user, d>>] =
           IF <<user, d>> \notin before.granted THEN "none"
           ELSE CASE before.roles[user] = "operator" -> "manage"
                  [] before.roles[user] = "client" -> "read"
                  [] OTHER -> "none"

\* A log row shows the name that the domain of its link has now, although names
\* are changed by an earlier statement.
LogsNameTheirDomain ==
  pc = "upgraded" => \A log \in Logs : db.logs[log].name = db.names[DomainOf[LinkOf[log]]]

\* A visit that was denied is one that was blocked, for a reason nobody stored, and
\* no other is; what was allowed or failed is that still.
ResultsCarriedOver ==
  pc = "upgraded" => \A log \in Logs :
    IF before.logs[log].result \in {"denied", "blocked"}
      THEN db.logs[log].result = "blocked" /\ db.logs[log].reason = "other"
      ELSE /\ db.logs[log].result = before.logs[log].result
           /\ db.logs[log].result \in {"allowed", "error"}
           /\ db.logs[log].reason = "none"

\* Every entry of the blacklist is the address it was written for, and no two are
\* the same: none was lost or became NULL in the change of the type.
BlacklistCarriedOver ==
  pc = "upgraded" =>
    /\ Distinct(db.blacklist)
    /\ \A entry \in Entries :
         /\ db.blacklist[entry].ip = before.blacklist[entry].ip
         /\ db.blacklist[entry].ip # Odd /\ ~db.blacklist[entry].padded

\* Before the upgrade and after one that was refused or died, nothing has changed.
AllOrNothing == pc \in {"ready", "refused"} => db = before

\* What is committed carries over what the tables said of users, domains, visits
\* and addresses, although these are changed by statements of the same
\* transaction, and what is not committed leaves all as it was.
DataCarriedOver ==
  /\ TypeOK
  /\ AccessCarriedOver
  /\ LogsNameTheirDomain
  /\ ResultsCarriedOver
  /\ BlacklistCarriedOver
  /\ AllOrNothing

\* An upgrade is refused for something that the operator finds in the data, and
\* never for what its own earlier statements did.
RefusedForCause ==
  pc = "refused" =>
    \/ \E d \in Domains : before.names[d].host = Odd \/ before.names[d].dots > 1
    \/ \E d, e \in Domains : d # e /\ before.names[d].host = before.names[e].host
    \/ ~BlacklistConverts(before.blacklist)
    \/ \E user \in Users : before.roles[user] = "other"
    \/ \E log \in Logs : before.logs[log].result = "other"
    \/ ~before.policies_convert

===========================================================================
