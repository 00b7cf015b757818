-------------------------- MODULE MaintenanceProofs --------------------------
(*************************************************************************)
(* Theorems about the programs an operator runs around an upgrade, for   *)
(* any data. SchemaMigration: renaming domains row by row never meets    *)
(* the unique constraint, and every domain is found under its name       *)
(* afterwards. UserAgentBackfill: runs of the script share the rows out  *)
(* and the last one leaves none.                                         *)
(*************************************************************************)
EXTENDS SchemaMigration, UserAgentBackfill, FiniteSetTheorems, TLAPS

\* What the check of the names establishes, and how far the renaming has come.
NamesInv ==
  /\ TypeOK
  /\ pc \in {"ready", "refused"} => db = before
  /\ pc \notin {"ready", "refused"} =>
       /\ ~Conflict(before.names)
       /\ pc # "rename" => todo = {}
       /\ \A d \in Domains :
            db.names[d] = IF d \in todo THEN before.names[d] ELSE Normalized(before.names[d])

---------------------------------------------------------------------------
LEMMA BeforeIsLegacy ==
  ASSUME TypeOK
  PROVE  before \in Database /\ Legacy(before)
BY SchemaAssumption DEF TypeOK, Legacy

\* Normalising twice is normalising once.
LEMMA NormalizedTwice ==
  ASSUME NEW name
  PROVE  Normalized(Normalized(name)) = Normalized(name)
BY DEF Normalized

LEMMA NormalizedIsName ==
  ASSUME NEW name \in Name
  PROVE  Normalized(name) \in Name
BY DEF Normalized, Name

\* The heart of it: a name still to be given is held by no other row, since
\* whoever holds it, renamed or not, has it as normal form.
LEMMA NoCollision ==
  ASSUME NamesInv, pc = "rename", NEW d \in todo, NEW e \in Domains,
         Normalized(db.names[d]) = db.names[e]
  PROVE  d = e
<1>1. d \in Domains  BY DEF NamesInv, TypeOK
<1>2. db.names[d] = before.names[d]  BY <1>1 DEF NamesInv
<1>3. Normalized(db.names[e]) = Normalized(before.names[e])
  BY NormalizedTwice DEF NamesInv
<1>4. Normalized(before.names[d]) = Normalized(before.names[e])
  BY <1>2, <1>3, NormalizedTwice
<1>5. ~Conflict(before.names)  BY DEF NamesInv
<1> QED  BY <1>1, <1>4, <1>5 DEF Conflict

LEMMA InitNamesInv == Init => NamesInv
BY SchemaAssumption DEF Init, NamesInv, TypeOK, Legacy, Steps

\* A statement that leaves the names alone leaves the invariant alone.
LEMMA ProceedNamesInv ==
  ASSUME NamesInv, NEW next \in Steps \ {"ready", "refused", "rename"}, NEW new \in Database,
         pc \notin {"ready", "refused"}, todo = {},
         new.names = db.names, Proceed(next, new)
  PROVE  NamesInv'
BY DEF NamesInv, TypeOK, Proceed, Steps

LEMMA RefuseNamesInv ==
  ASSUME NamesInv, Refuse  PROVE NamesInv'
BY BeforeIsLegacy DEF NamesInv, TypeOK, Refuse, Steps

LEMMA NextNamesInv == NamesInv /\ [Next]_vars => NamesInv'
<1> SUFFICES ASSUME NamesInv, [Next]_vars  PROVE NamesInv'  OBVIOUS
<1>0. /\ db \in Database /\ before \in Database
      /\ pc # "rename" /\ pc \notin {"ready", "refused"} => todo = {}
  BY BeforeIsLegacy DEF NamesInv, TypeOK
<1>1. CASE CheckDomains
  <2>1. CASE (\A d \in Domains : Valid(db.names[d])) /\ ~Conflict(db.names)
    BY <1>1, <2>1 DEF CheckDomains, NamesInv, TypeOK, Steps
  <2>2. CASE ~((\A d \in Domains : Valid(db.names[d])) /\ ~Conflict(db.names))
    BY <1>1, <2>2, RefuseNamesInv DEF CheckDomains
  <2> QED  BY <2>1, <2>2
<1>2. ASSUME NEW d \in Domains, Rename(d)  PROVE NamesInv'
  <2> DEFINE name == Normalized(db.names[d])
  <2>1. CASE \E e \in Domains \ {d} : db.names[e] = name
    BY <1>2, <2>1, RefuseNamesInv DEF Rename
  <2>2. CASE ~\E e \in Domains \ {d} : db.names[e] = name
    <3>1. /\ db' = [db EXCEPT !.names[d] = name] /\ todo' = todo \ {d}
          /\ before' = before /\ pc' = pc /\ pc = "rename" /\ d \in todo
      BY <1>2, <2>2 DEF Rename
    <3>2. name \in Name  BY <1>0, NormalizedIsName DEF Database
    <3>3. db'.names = [db.names EXCEPT ![d] = name]  BY <1>0, <3>1 DEF Database
    <3>4. db'.names \in [Domains -> Name]  BY <1>0, <3>2, <3>3 DEF Database
    <3>5. db' = [db EXCEPT !.names = db'.names]  BY <3>1, <3>3
    <3>6. db' \in Database  BY <1>0, <3>4, <3>5 DEF Database
    <3>7. TypeOK'  BY <3>1, <3>6 DEF NamesInv, TypeOK
    <3>8. name = Normalized(before.names[d])  BY <3>1 DEF NamesInv
    <3>9. \A e \in Domains : db'.names[e] =
            IF e \in todo' THEN before.names[e] ELSE Normalized(before.names[e])
      BY <1>0, <3>1, <3>3, <3>8 DEF NamesInv, Database
    <3> QED  BY <3>1, <3>7, <3>9 DEF NamesInv
  <2> QED  BY <2>1, <2>2
<1>3. CASE RenamesDone
  BY <1>0, <1>3, ProceedNamesInv DEF RenamesDone, Steps
<1>4. CASE CheckBlacklist
  BY <1>0, <1>4, ProceedNamesInv, RefuseNamesInv DEF CheckBlacklist, Steps
<1>5. CASE CopyGrants
  <2> DEFINE levels == [pair \in Users \X Domains |->
                          IF pair \in db.granted THEN LevelOf(db.roles[pair[1]]) ELSE "none"]
             new == [db EXCEPT !.access = levels]
  <2>1. levels \in [Users \X Domains -> {"none", "read", "manage"}]  BY DEF LevelOf
  <2>2. new \in Database /\ new.names = db.names  BY <1>0, <2>1 DEF Database
  <2>3. pc = "copyGrants" /\ Proceed("convertRoles", new)  BY <1>5 DEF CopyGrants
  <2> HIDE DEF new
  <2> QED  BY <1>0, <2>2, <2>3, ProceedNamesInv DEF Steps
<1>6. CASE ConvertRoles
  <2> DEFINE roles == [user \in Users |-> IF db.roles[user] = "admin" THEN "admin" ELSE "subaccount"]
             new == [db EXCEPT !.roles = roles]
  <2>1. roles \in [Users -> LegacyRoles \cup {"subaccount"}]  BY DEF LegacyRoles
  <2>2. new \in Database /\ new.names = db.names  BY <1>0, <2>1 DEF Database
  <2>3. pc = "convertRoles" /\ (Refuse \/ Proceed("convertPolicies", new))
    BY <1>6 DEF ConvertRoles
  <2> HIDE DEF new
  <2> QED  BY <1>0, <2>2, <2>3, ProceedNamesInv, RefuseNamesInv DEF Steps
<1>7. CASE ConvertPolicies
  BY <1>0, <1>7, ProceedNamesInv, RefuseNamesInv DEF ConvertPolicies, Steps
<1>8. CASE FillLogs
  <2> DEFINE logs == [log \in Logs |->
                        LET blocked == Blocked(db.logs[log].result) IN
                          [result |-> IF blocked THEN "blocked" ELSE db.logs[log].result,
                           name |-> LoggedName(log),
                           reason |-> IF blocked THEN "other" ELSE "none"]]
             new == [db EXCEPT !.logs = logs]
  <2>1. \A log \in Logs : LoggedName(log) \in Name
    BY <1>0, SchemaAssumption DEF LoggedName, Database
  <2>2. \A log \in Logs : db.logs[log].result \in LegacyResults
    BY <1>0 DEF Database, LogRow
  <2>3. logs \in [Logs -> LogRow]  BY <2>1, <2>2 DEF LogRow, LegacyResults
  <2>4. new \in Database /\ new.names = db.names  BY <1>0, <2>3 DEF Database
  <2>5. pc = "fillLogs" /\ (Refuse \/ Proceed("alterBlacklist", new))
    BY <1>8 DEF FillLogs
  <2> HIDE DEF new
  <2> QED  BY <1>0, <2>4, <2>5, ProceedNamesInv, RefuseNamesInv DEF Steps
<1>9. CASE AlterBlacklist
  <2> DEFINE texts == [entry \in Entries |-> SafeInet(db.blacklist[entry])]
             new == [db EXCEPT !.blacklist = texts]
  <2>1. texts \in [Entries -> IpText]  BY <1>0 DEF Database, IpText, SafeInet
  <2>2. new \in Database /\ new.names = db.names  BY <1>0, <2>1 DEF Database
  <2>3. pc = "alterBlacklist" /\ (Refuse \/ Proceed("commit", new))
    BY <1>9 DEF AlterBlacklist
  <2> HIDE DEF new
  <2> QED  BY <1>0, <2>2, <2>3, ProceedNamesInv, RefuseNamesInv DEF Steps
<1>10. CASE Commit
  BY <1>0, <1>10, ProceedNamesInv DEF Commit, Steps
<1>11. CASE Die
  BY <1>0, <1>11 DEF Die, NamesInv, TypeOK, Steps
<1>12. CASE UNCHANGED vars
  BY <1>12 DEF vars, NamesInv, TypeOK
<1> QED
  BY <1>1, <1>2, <1>3, <1>4, <1>5, <1>6, <1>7, <1>8, <1>9, <1>10, <1>11, <1>12 DEF Next

---------------------------------------------------------------------------
LEMMA InvResolves == NamesInv => DomainsResolve
<1> SUFFICES ASSUME NamesInv, pc = "upgraded", NEW d \in Domains, NEW e \in Domains
             PROVE (db.names[e] = Normalized(before.names[d])) <=> e = d
  BY DEF DomainsResolve, Normalized
<1>1. todo = {} /\ db.names[e] = Normalized(before.names[e])  BY DEF NamesInv
<1>2. ~Conflict(before.names)  BY DEF NamesInv
<1> QED  BY <1>1, <1>2 DEF Conflict

\* Type correctness of the database under every statement of the upgrade.
THEOREM TypeCorrectness == Spec => []TypeOK
<1>1. NamesInv => TypeOK  BY DEF NamesInv
<1> QED  BY <1>1, InitNamesInv, NextNamesInv, PTL DEF Spec

\* The UPDATE statements never meet the unique constraint of domains.name,
\* in whatever order the rows come.
THEOREM RenamingNeverCollides == Spec => []RenamesDoNotCollide
<1>1. NamesInv => RenamesDoNotCollide  BY NoCollision DEF RenamesDoNotCollide
<1> QED  BY <1>1, InitNamesInv, NextNamesInv, PTL DEF Spec

\* After an upgrade each domain is the one that is found under its name.
THEOREM EveryDomainResolves == Spec => []DomainsResolve
<1> QED  BY InvResolves, InitNamesInv, NextNamesInv, PTL DEF Spec

---------------------------------------------------------------------------
(* What else is carried over, and why an upgrade is refused.               *)

\* The statements still to come when a transaction runs, from the last on.
BeforeCommit == {"commit", "upgraded"}
AfterLogs == {"alterBlacklist"} \cup BeforeCommit
AfterRoles == {"convertPolicies", "fillLogs"} \cup AfterLogs
AfterGrants == {"convertRoles"} \cup AfterRoles
Running == {"rename", "checkBlacklist", "copyGrants"} \cup AfterGrants

\* Every log row names the domain of its link.
LoggedNames == \A log \in Logs : db.logs[log].name = db.names[DomainOf[LinkOf[log]]]

\* Every log row has the result it had, in today's words.
ConvertedResults == \A log \in Logs :
  LET old == before.logs[log].result IN
    /\ old # "other"
    /\ db.logs[log].result = IF Blocked(old) THEN "blocked" ELSE old
    /\ db.logs[log].reason = IF Blocked(old) THEN "other" ELSE "none"

\* Every entry of the blacklist is the address it was.
ConvertedBlacklist ==
  /\ BlacklistConverts(before.blacklist)
  /\ db.blacklist = [entry \in Entries |-> SafeInet(before.blacklist[entry])]

\* What a statement reads is as it was before the upgrade, unless it is to be
\* changed by an earlier one, and what has been written stays.
CarriedInv ==
  /\ NamesInv
  /\ pc \in Running =>
       /\ db.granted = before.granted
       /\ db.policies_convert = before.policies_convert
  /\ pc \in Running \ BeforeCommit => db.blacklist = before.blacklist
  /\ pc \in Running \ AfterLogs => db.logs = before.logs
  /\ pc \in Running \ AfterRoles => db.roles = before.roles
  /\ pc \in AfterGrants => \A user \in Users, d \in Domains :
       db.access[<<user, d>>] =
         IF <<user, d>> \in before.granted THEN LevelOf(before.roles[user]) ELSE "none"
  /\ pc \in AfterRoles => \A user \in Users :
       /\ before.roles[user] # "other"
       /\ db.roles[user] = IF before.roles[user] = "admin" THEN "admin" ELSE "subaccount"
  /\ pc \in AfterLogs => LoggedNames /\ ConvertedResults
  /\ pc \in BeforeCommit => ConvertedBlacklist
  /\ RefusedForCause

LEMMA InitCarriedInv == Init => CarriedInv
BY InitNamesInv DEF Init, CarriedInv, Running, AfterGrants, AfterRoles, AfterLogs,
                    BeforeCommit, RefusedForCause

LEMMA RefuseCarriedInv ==
  ASSUME CarriedInv, Refuse, RefusedForCause'  PROVE CarriedInv'
<1>1. NamesInv'  BY RefuseNamesInv DEF CarriedInv
<1>2. pc' = "refused"  BY DEF Refuse
<1> QED
  BY <1>1, <1>2 DEF CarriedInv, Running, AfterGrants, AfterRoles, AfterLogs, BeforeCommit

\* The check of the names refuses what the operator finds in the data.
LEMMA NamesRefusedForCause ==
  ASSUME TypeOK, db = before, before' = before,
         ~((\A d \in Domains : Valid(db.names[d])) /\ ~Conflict(db.names))
  PROVE  RefusedForCause'
<1>1. CASE \E d \in Domains : ~Valid(db.names[d])
  <2>1. PICK d \in Domains : ~Valid(before.names[d])  BY <1>1
  <2>2. before.names[d] \in Name  BY BeforeIsLegacy DEF Database
  <2>3. before.names[d].host = Odd \/ before.names[d].dots > 1
    BY <2>1, <2>2 DEF Valid, Name
  <2> QED  BY <2>3 DEF RefusedForCause
<1>2. CASE Conflict(db.names)
  <2>1. PICK d \in Domains, e \in Domains :
          d # e /\ Normalized(before.names[d]) = Normalized(before.names[e])
    BY <1>2 DEF Conflict
  <2>2. before.names[d].host = before.names[e].host  BY <2>1 DEF Normalized
  <2> QED  BY <2>1, <2>2 DEF RefusedForCause
<1> QED  BY <1>1, <1>2

LEMMA NextCarriedInv == CarriedInv /\ [Next]_vars => CarriedInv'
<1> SUFFICES ASSUME CarriedInv, [Next]_vars  PROVE CarriedInv'  OBVIOUS
<1> USE DEF Running, AfterGrants, AfterRoles, AfterLogs, BeforeCommit
<1>0. /\ NamesInv' /\ NamesInv
      /\ db \in Database /\ before \in Database
  BY NextNamesInv, BeforeIsLegacy DEF CarriedInv, NamesInv, TypeOK
<1>1. CASE CheckDomains
  <2>1. CASE (\A d \in Domains : Valid(db.names[d])) /\ ~Conflict(db.names)
    BY <1>0, <1>1, <2>1 DEF CheckDomains, CarriedInv, NamesInv, RefusedForCause
  <2>2. CASE ~((\A d \in Domains : Valid(db.names[d])) /\ ~Conflict(db.names))
    BY <1>0, <1>1, <2>2, NamesRefusedForCause, RefuseCarriedInv
      DEF CheckDomains, Refuse, NamesInv
  <2> QED  BY <2>1, <2>2
<1>2. ASSUME NEW d \in Domains, Rename(d)  PROVE CarriedInv'
  <2>1. ~\E e \in Domains \ {d} : db.names[e] = Normalized(db.names[d])
    BY <1>0, <1>2, NoCollision DEF Rename
  <2>2. db' = [db EXCEPT !.names[d] = Normalized(db.names[d])] /\ before' = before /\ pc' = pc
    BY <1>2, <2>1 DEF Rename
  <2>3. /\ db'.granted = db.granted /\ db'.policies_convert = db.policies_convert
        /\ db'.blacklist = db.blacklist /\ db'.logs = db.logs /\ db'.roles = db.roles
    BY <1>0, <2>2 DEF Database
  <2>4. pc = "rename"  BY <1>2 DEF Rename
  <2> QED  BY <1>0, <2>2, <2>3, <2>4 DEF CarriedInv, RefusedForCause
<1>3. CASE RenamesDone
  BY <1>0, <1>3 DEF RenamesDone, Proceed, CarriedInv, RefusedForCause
<1>4. CASE CheckBlacklist
  <2>1. CASE BlacklistConverts(db.blacklist)
    BY <1>0, <1>4, <2>1 DEF CheckBlacklist, Proceed, CarriedInv, RefusedForCause
  <2>2. CASE ~BlacklistConverts(db.blacklist)
    BY <1>4, <2>2, RefuseCarriedInv DEF CheckBlacklist, Refuse, CarriedInv, RefusedForCause
  <2> QED  BY <2>1, <2>2
<1>5. CASE CopyGrants
  <2> DEFINE levels == [pair \in Users \X Domains |->
                          IF pair \in db.granted THEN LevelOf(db.roles[pair[1]]) ELSE "none"]
  <2>1. db' = [db EXCEPT !.access = levels] /\ before' = before
        /\ pc = "copyGrants" /\ pc' = "convertRoles"
    BY <1>5 DEF CopyGrants, Proceed
  <2>2. /\ db'.access = levels
        /\ db'.granted = db.granted /\ db'.policies_convert = db.policies_convert
        /\ db'.blacklist = db.blacklist /\ db'.logs = db.logs /\ db'.roles = db.roles
    BY <1>0, <2>1 DEF Database
  <2>3. \A user \in Users, d \in Domains : levels[<<user, d>>] =
          IF <<user, d>> \in db.granted THEN LevelOf(db.roles[user]) ELSE "none"
    OBVIOUS
  <2> HIDE DEF levels
  <2> QED  BY <1>0, <2>1, <2>2, <2>3 DEF CarriedInv, RefusedForCause
<1>6. CASE ConvertRoles
  <2>0. pc = "convertRoles" /\ before' = before  BY <1>6 DEF ConvertRoles, Proceed, Refuse
  <2>1. CASE \E user \in Users : db.roles[user] = "other"
    BY <1>6, <2>0, <2>1, RefuseCarriedInv DEF ConvertRoles, CarriedInv, RefusedForCause
  <2>2. CASE ~\E user \in Users : db.roles[user] = "other"
    <3> DEFINE roles == [user \in Users |-> IF db.roles[user] = "admin" THEN "admin" ELSE "subaccount"]
    <3>1. db' = [db EXCEPT !.roles = roles] /\ pc' = "convertPolicies"
      BY <1>6, <2>2 DEF ConvertRoles, Proceed
    <3>2. /\ db'.roles = roles /\ db'.access = db.access
          /\ db'.granted = db.granted /\ db'.policies_convert = db.policies_convert
          /\ db'.blacklist = db.blacklist /\ db'.logs = db.logs
      BY <1>0, <3>1 DEF Database
    <3>3. \A user \in Users :
            roles[user] = IF db.roles[user] = "admin" THEN "admin" ELSE "subaccount"
      OBVIOUS
    <3> HIDE DEF roles
    <3>4. \A user \in Users :
            /\ before'.roles[user] # "other"
            /\ db'.roles[user] = IF before'.roles[user] = "admin" THEN "admin" ELSE "subaccount"
      <4>1. db.roles = before.roles
        BY <2>0 DEF CarriedInv
      <4> QED  BY <2>0, <2>2, <3>2, <3>3, <4>1
    <3> QED  BY <1>0, <2>0, <3>1, <3>2, <3>4 DEF CarriedInv, RefusedForCause
  <2> QED  BY <2>1, <2>2
<1>7. CASE ConvertPolicies
  <2>1. CASE db.policies_convert
    BY <1>0, <1>7, <2>1 DEF ConvertPolicies, Proceed, CarriedInv, RefusedForCause
  <2>2. CASE ~db.policies_convert
    BY <1>7, <2>2, RefuseCarriedInv DEF ConvertPolicies, Refuse, CarriedInv, RefusedForCause
  <2> QED  BY <2>1, <2>2
<1>8. CASE FillLogs
  <2>0. pc = "fillLogs" /\ before' = before  BY <1>8 DEF FillLogs, Proceed, Refuse
  <2>1. CASE \E log \in Logs : db.logs[log].result = "other"
    BY <1>8, <2>0, <2>1, RefuseCarriedInv DEF FillLogs, CarriedInv, RefusedForCause
  <2>2. CASE ~\E log \in Logs : db.logs[log].result = "other"
    <3> DEFINE logs == [log \in Logs |->
                          LET blocked == Blocked(db.logs[log].result) IN
                            [result |-> IF blocked THEN "blocked" ELSE db.logs[log].result,
                             name |-> LoggedName(log),
                             reason |-> IF blocked THEN "other" ELSE "none"]]
    <3>1. db' = [db EXCEPT !.logs = logs] /\ pc' = "alterBlacklist"
      BY <1>8, <2>2 DEF FillLogs, Proceed
    <3>2. /\ db'.logs = logs /\ db'.roles = db.roles /\ db'.access = db.access
          /\ db'.granted = db.granted /\ db'.policies_convert = db.policies_convert
          /\ db'.blacklist = db.blacklist /\ db'.names = db.names
      BY <1>0, <3>1 DEF Database
    <3>3. \A log \in Logs : logs[log].name = db.names[DomainOf[LinkOf[log]]]
      BY DEF LoggedName
    <3>4. \A log \in Logs :
            LET old == db.logs[log].result IN
              /\ logs[log].result = IF Blocked(old) THEN "blocked" ELSE old
              /\ logs[log].reason = IF Blocked(old) THEN "other" ELSE "none"
      OBVIOUS
    <3> HIDE DEF logs
    <3>5. ConvertedResults'
      <4>1. db.logs = before.logs  BY <2>0 DEF CarriedInv
      <4> QED  BY <2>0, <2>2, <3>2, <3>4, <4>1 DEF ConvertedResults
    <3> QED
      BY <1>0, <2>0, <3>1, <3>2, <3>3, <3>5 DEF CarriedInv, RefusedForCause, LoggedNames
  <2> QED  BY <2>1, <2>2
<1>9. CASE AlterBlacklist
  <2>0. pc = "alterBlacklist" /\ before' = before  BY <1>9 DEF AlterBlacklist, Proceed, Refuse
  <2>1. CASE BlacklistConverts(db.blacklist)
    <3> DEFINE texts == [entry \in Entries |-> SafeInet(db.blacklist[entry])]
    <3>1. db' = [db EXCEPT !.blacklist = texts] /\ pc' = "commit"
      BY <1>9, <2>1 DEF AlterBlacklist, Proceed
    <3>2. /\ db'.logs = db.logs /\ db'.roles = db.roles /\ db'.access = db.access
          /\ db'.granted = db.granted /\ db'.policies_convert = db.policies_convert
          /\ db'.names = db.names /\ db'.blacklist = texts
      BY <1>0, <3>1 DEF Database
    <3>3. ConvertedBlacklist'
      <4>1. db.blacklist = before.blacklist  BY <2>0 DEF CarriedInv
      <4> QED  BY <2>0, <2>1, <3>2, <4>1 DEF ConvertedBlacklist
    <3> HIDE DEF texts
    <3> QED
      BY <1>0, <2>0, <3>1, <3>2, <3>3
        DEF CarriedInv, RefusedForCause, LoggedNames, ConvertedResults
  <2>2. CASE ~BlacklistConverts(db.blacklist)
    BY <1>9, <2>0, <2>2, RefuseCarriedInv DEF AlterBlacklist, CarriedInv, RefusedForCause
  <2> QED  BY <2>1, <2>2
<1>10. CASE Commit
  BY <1>0, <1>10 DEF Commit, Proceed, CarriedInv, RefusedForCause, LoggedNames,
                     ConvertedResults, ConvertedBlacklist
<1>11. CASE Die
  BY <1>0, <1>11 DEF Die, CarriedInv, RefusedForCause
<1>12. CASE UNCHANGED vars
  BY <1>12, <1>0 DEF vars, CarriedInv, RefusedForCause, LoggedNames,
                     ConvertedResults, ConvertedBlacklist
<1> QED
  BY <1>1, <1>2, <1>3, <1>4, <1>5, <1>6, <1>7, <1>8, <1>9, <1>10, <1>11, <1>12 DEF Next

LEMMA InvCarriesOver == CarriedInv => DataCarriedOver
<1> SUFFICES ASSUME CarriedInv  PROVE DataCarriedOver  OBVIOUS
<1>1. TypeOK  BY DEF CarriedInv, NamesInv
<1>2. LogsNameTheirDomain
  BY DEF CarriedInv, LogsNameTheirDomain, LoggedNames, AfterLogs, BeforeCommit
<1>3. ASSUME pc = "upgraded", NEW user \in Users, NEW d \in Domains
      PROVE db.access[<<user, d>>] =
              IF <<user, d>> \notin before.granted THEN "none"
              ELSE CASE before.roles[user] = "operator" -> "manage"
                     [] before.roles[user] = "client" -> "read"
                     [] OTHER -> "none"
  <2>1. before.roles[user] \in {"admin", "operator", "client"}
    BY <1>1, <1>3, BeforeIsLegacy
      DEF CarriedInv, Legacy, Database, LegacyRoles, AfterRoles, AfterLogs, BeforeCommit
  <2>2. db.access[<<user, d>>] =
          IF <<user, d>> \in before.granted THEN LevelOf(before.roles[user]) ELSE "none"
    BY <1>3 DEF CarriedInv, AfterGrants, AfterRoles, AfterLogs, BeforeCommit
  <2> QED  BY <2>1, <2>2 DEF LevelOf
<1>4. AccessCarriedOver
  BY <1>3 DEF CarriedInv, AccessCarriedOver, AfterRoles, AfterLogs, BeforeCommit
<1>5. ResultsCarriedOver
  <2> SUFFICES ASSUME pc = "upgraded", NEW log \in Logs
               PROVE IF before.logs[log].result \in {"denied", "blocked"}
                       THEN db.logs[log].result = "blocked" /\ db.logs[log].reason = "other"
                       ELSE /\ db.logs[log].result = before.logs[log].result
                            /\ db.logs[log].result \in {"allowed", "error"}
                            /\ db.logs[log].reason = "none"
    BY DEF ResultsCarriedOver
  <2>1. before.logs[log].result \in LegacyResults
    BY <1>1, BeforeIsLegacy DEF Database, LogRow
  <2>2. ConvertedResults  BY DEF CarriedInv, AfterLogs, BeforeCommit
  <2> QED  BY <2>1, <2>2 DEF ConvertedResults, Blocked, LegacyResults
<1>6. BlacklistCarriedOver
  <2> SUFFICES ASSUME pc = "upgraded"
               PROVE /\ Distinct(db.blacklist)
                     /\ \A entry \in Entries :
                          /\ db.blacklist[entry].ip = before.blacklist[entry].ip
                          /\ db.blacklist[entry].ip # Odd /\ ~db.blacklist[entry].padded
    BY DEF BlacklistCarriedOver
  <2>1. ConvertedBlacklist  BY DEF CarriedInv, BeforeCommit
  <2> QED  BY <2>1 DEF ConvertedBlacklist, BlacklistConverts, SafeInet
<1>7. AllOrNothing  BY DEF CarriedInv, NamesInv, AllOrNothing
<1> QED  BY <1>1, <1>2, <1>4, <1>5, <1>6, <1>7 DEF DataCarriedOver

\* For any users, grants, logs and entries, and wherever the process died before:
\* an upgrade that is committed has given every account the access its old role
\* and grants stood for, although the roles are overwritten by a later
\* statement, every log row the name its link's domain has now and its own
\* result, and every entry of the blacklist the address it was written for; and
\* one that is not committed has changed nothing.
THEOREM EverythingIsCarriedOver == Spec => []DataCarriedOver
<1> QED  BY InvCarriesOver, InitCarriedInv, NextCarriedInv, PTL DEF Spec

\* No statement of the upgrade is refused because of what an earlier one did:
\* each refusal has its cause in the data as they were.
THEOREM RefusalsHaveACause == Spec => []RefusedForCause
<1>1. CarriedInv => RefusedForCause  BY DEF CarriedInv
<1> QED  BY <1>1, InitCarriedInv, NextCarriedInv, PTL DEF Spec

---------------------------------------------------------------------------
(* UserAgentBackfill: the script that fills in user agents. Neither        *)
(* specification says anything of the variables of the other.              *)

\* A run works on rows that it has locked and that nobody has parsed, and holds
\* a lock only while it works on a batch.
BatchInv(w) ==
  /\ updated[w] \subseteq batch[w]
  /\ stage[w] # "updating" => batch[w] = {}
  /\ \A row \in batch[w] : browser[row] = "null" /\ lock[row] = w

\* A row that nobody has parsed is nobody's, and a run that holds a lock is at work.
RowInv(row) ==
  /\ browser[row] \in {"absent", "null"} => parsedBy[row] = Free
  /\ browser[row] = "absent" => lock[row] = Free
  /\ lock[row] \in Runs => stage[lock[row]] = "updating"

BackfillInv ==
  /\ BackfillTypeOK
  /\ \A w \in Runs : BatchInv(w)
  /\ \A row \in Rows : RowInv(row)
  /\ CountsAreTrue
  /\ LastOneOut

\* What a run has parsed, by what it has committed.
ParsedBy(w) == {row \in Rows : parsedBy[row] = w}

LEMMA InitBackfillInv == ASSUME BackfillInit  PROVE BackfillInv
<1>1. Cardinality(Rows) \in Nat  BY FS_CardinalityType, BackfillAssumption
<1>2. BackfillTypeOK
  BY <1>1, BackfillAssumption DEF BackfillInit, BackfillTypeOK, Values, MaxCount
<1>3. \A w \in Runs : BatchInv(w)  BY DEF BackfillInit, BatchInv
<1>4. \A row \in Rows : RowInv(row)  BY BackfillAssumption DEF BackfillInit, RowInv
<1>5. CountsAreTrue
  <2> SUFFICES ASSUME NEW w \in Runs
               PROVE  processed[w] = Cardinality({row \in Rows : parsedBy[row] = w})
    BY DEF CountsAreTrue
  <2>1. {row \in Rows : parsedBy[row] = w} = {}  BY BackfillAssumption DEF BackfillInit
  <2> QED  BY <2>1, FS_EmptySet DEF BackfillInit
<1>6. LastOneOut  BY DEF BackfillInit, LastOneOut
<1> QED  BY <1>2, <1>3, <1>4, <1>5, <1>6 DEF BackfillInv

\* A step that parses nothing and counts nothing.
LEMMA CountsRest ==
  ASSUME CountsAreTrue, UNCHANGED <<processed, parsedBy>>  PROVE CountsAreTrue'
BY DEF CountsAreTrue

LEMMA InsertKeeps ==
  ASSUME BackfillInv, NEW row \in Rows, Insert(row)  PROVE BackfillInv'
<1> USE DEF BackfillInv, Insert
<1>1. BackfillTypeOK'  BY DEF BackfillTypeOK, Values
<1>2. \A w \in Runs : BatchInv(w)'  BY DEF BackfillTypeOK, BatchInv
<1>3. \A other \in Rows : RowInv(other)'  BY DEF BackfillTypeOK, RowInv
<1>4. CountsAreTrue'  BY CountsRest
<1>5. LastOneOut'
  <2>1. Unparsed' = Unparsed \cup {row}
    BY DEF BackfillTypeOK, Unparsed
  <2> QED  BY <2>1 DEF LastOneOut, Active
<1> QED  BY <1>1, <1>2, <1>3, <1>4, <1>5

LEMMA StartKeeps ==
  ASSUME BackfillInv, NEW w \in Runs, Start(w)  PROVE BackfillInv'
<1> USE DEF BackfillInv, Start
<1>1. BackfillTypeOK'  BY DEF BackfillTypeOK
<1>2. \A v \in Runs : BatchInv(v)'  BY DEF BackfillTypeOK, BatchInv
<1>3. \A row \in Rows : RowInv(row)'  BY BackfillAssumption DEF BackfillTypeOK, RowInv
<1>4. CountsAreTrue'  BY CountsRest
<1>5. LastOneOut'  BY DEF BackfillTypeOK, LastOneOut, Active
<1> QED  BY <1>1, <1>2, <1>3, <1>4, <1>5

LEMMA SelectKeeps ==
  ASSUME BackfillInv, NEW w \in Runs, Select(w)  PROVE BackfillInv'
<1> DEFINE rows == FirstOf(Selectable)
<1> USE DEF BackfillInv
<1>1. rows \subseteq {row \in Rows : browser[row] = "null" /\ lock[row] = Free}
  BY DEF FirstOf, Selectable, Unparsed
<1>2. /\ stage[w] = "selecting" /\ stage' = [stage EXCEPT ![w] = "updating"]
      /\ batch' = [batch EXCEPT ![w] = rows]
      /\ lock' = [row \in Rows |-> IF row \in rows THEN w ELSE lock[row]]
      /\ UNCHANGED <<browser, updated, processed, parsedBy, excused>>
  BY DEF Select
<1> HIDE DEF rows
<1>3. BackfillTypeOK'  BY <1>1, <1>2 DEF BackfillTypeOK
<1>4. \A v \in Runs : BatchInv(v)'
  <2> SUFFICES ASSUME NEW v \in Runs  PROVE BatchInv(v)'
    OBVIOUS
  <2>1. CASE v = w  BY <1>1, <1>2, <2>1 DEF BackfillTypeOK, BatchInv
  <2>2. CASE v # w
    <3>1. stage'[v] = stage[v] /\ batch'[v] = batch[v] /\ updated'[v] = updated[v]
      BY <1>2, <2>2 DEF BackfillTypeOK
    <3>2. \A row \in batch[v] : row \in Rows /\ lock[row] = v /\ v # Free
      BY BackfillAssumption DEF BackfillTypeOK, BatchInv
    <3>3. \A row \in batch[v] : lock'[row] = v
      BY <1>1, <1>2, <3>2
    <3> QED  BY <1>2, <3>1, <3>3 DEF BatchInv
  <2> QED  BY <2>1, <2>2
<1>5. \A row \in Rows : RowInv(row)'
  BY <1>1, <1>2, BackfillAssumption DEF BackfillTypeOK, RowInv
<1>6. CountsAreTrue'  BY <1>2, CountsRest
<1>7. LastOneOut'  BY <1>2 DEF BackfillTypeOK, LastOneOut, Active
<1> QED  BY <1>3, <1>4, <1>5, <1>6, <1>7

\* Who finds nothing to lock leaves everything to runs that are still at work, and
\* what a removal has locked to the next run.
LEMMA ReturnKeeps ==
  ASSUME BackfillInv, NEW w \in Runs, Return(w)  PROVE BackfillInv'
<1> USE DEF BackfillInv, Return
<1>1. BackfillTypeOK'  BY DEF BackfillTypeOK, Unparsed
<1>2. \A v \in Runs : BatchInv(v)'  BY DEF BackfillTypeOK, BatchInv
<1>3. \A row \in Rows : RowInv(row)'  BY BackfillAssumption DEF BackfillTypeOK, RowInv
<1>4. CountsAreTrue'  BY CountsRest
<1>5. LastOneOut'
  <2> SUFFICES ASSUME \A v \in Runs : ~Active(v)', NEW row \in Unparsed
               PROVE  row \in excused'
    BY DEF LastOneOut, Unparsed
  <2>1. \A v \in Runs \ {w} : ~Active(v)
    BY DEF BackfillTypeOK, Active
  <2>2. lock[row] \notin Runs
    <3> SUFFICES ASSUME lock[row] \in Runs  PROVE FALSE
      OBVIOUS
    <3>1. stage[lock[row]] = "updating"  BY DEF RowInv, Unparsed
    <3> QED  BY <2>1, <3>1 DEF Active
  <2>3. lock[row] # Free  BY DEF Selectable
  <2>4. lock[row] \in Removals  BY <2>2, <2>3 DEF BackfillTypeOK, Unparsed
  <2> QED  BY <2>1, <2>4
<1> QED  BY <1>1, <1>2, <1>3, <1>4, <1>5

LEMMA UpdateKeeps ==
  ASSUME BackfillInv, NEW w \in Runs, Update(w)  PROVE BackfillInv'
<1> USE DEF BackfillInv, Update
<1>1. BackfillTypeOK'  BY DEF BackfillTypeOK
<1>2. \A v \in Runs : BatchInv(v)'  BY DEF BackfillTypeOK, BatchInv
<1>3. \A row \in Rows : RowInv(row)'  BY DEF BackfillTypeOK, RowInv
<1>4. CountsAreTrue'  BY CountsRest
<1>5. LastOneOut'  BY DEF LastOneOut, Active, Unparsed
<1> QED  BY <1>1, <1>2, <1>3, <1>4, <1>5

\* No row of a batch has been counted before.
LEMMA CommitCounts ==
  ASSUME BackfillInv, NEW w \in Runs, CommitBatch(w)
  PROVE  CountsAreTrue' /\ processed'[w] \in 0..MaxCount
<1>1. /\ batch[w] \subseteq Rows /\ \A row \in batch[w] : parsedBy[row] = Free
      /\ batch[w] \cap Unparsed = batch[w]
  BY DEF BackfillInv, BackfillTypeOK, BatchInv, RowInv, Unparsed
<1>2. /\ parsedBy' = [row \in Rows |-> IF row \in batch[w] THEN w ELSE parsedBy[row]]
      /\ processed' = [processed EXCEPT ![w] = Counted(@ + Cardinality(batch[w]))]
  BY <1>1 DEF CommitBatch
<1>3. ASSUME NEW v \in Runs, v # w  PROVE processed'[v] = Cardinality(ParsedBy(v)')
  <2>1. ParsedBy(v)' = ParsedBy(v)
    BY <1>1, <1>2, <1>3, BackfillAssumption DEF ParsedBy
  <2>2. processed'[v] = processed[v]  BY <1>2, <1>3 DEF BackfillInv, BackfillTypeOK
  <2> QED  BY <2>1, <2>2 DEF BackfillInv, CountsAreTrue, ParsedBy
<1>4. processed'[w] = Cardinality(ParsedBy(w)') /\ processed'[w] \in 0..MaxCount
  <2>1. ParsedBy(w)' = ParsedBy(w) \cup batch[w]
    BY <1>1, <1>2 DEF ParsedBy
  <2>2. ParsedBy(w) \cap batch[w] = {}
    BY <1>1, BackfillAssumption DEF ParsedBy
  <2>3. IsFiniteSet(ParsedBy(w)) /\ IsFiniteSet(batch[w]) /\ IsFiniteSet(Rows)
    BY <1>1, FS_Subset, BackfillAssumption DEF ParsedBy
  <2>4. Cardinality(ParsedBy(w)') = Cardinality(ParsedBy(w)) + Cardinality(batch[w])
    <3> DEFINE old == ParsedBy(w)
               new == batch[w]
    <3>1. Cardinality(old \cup new) = Cardinality(old) + Cardinality(new) - Cardinality(old \cap new)
      <4> HIDE DEF old, new
      <4> QED  BY <2>3, FS_Union DEF old, new
    <3>2. Cardinality(old \cap new) = 0  BY <2>2, FS_EmptySet
    <3>3. Cardinality(old) \in Nat /\ Cardinality(new) \in Nat
      BY <2>3, FS_CardinalityType
    <3> HIDE DEF old
    <3>4. Cardinality(old \cup new) = Cardinality(old) + Cardinality(new)
      BY <3>1, <3>2, <3>3
    <3> QED  BY <2>1, <3>4 DEF old
  <2>5. Cardinality(ParsedBy(w)') <= Cardinality(Rows)
    BY <2>3, FS_Subset DEF ParsedBy
  <2>6. /\ Cardinality(Rows) \in Nat /\ Cardinality(ParsedBy(w)) \in Nat
        /\ Cardinality(batch[w]) \in Nat
    BY <2>3, FS_CardinalityType
  <2>7. processed[w] = Cardinality(ParsedBy(w))
    BY DEF BackfillInv, CountsAreTrue, ParsedBy
  <2>8. processed'[w] = Counted(processed[w] + Cardinality(batch[w]))
    BY <1>2 DEF BackfillInv, BackfillTypeOK
  <2> QED  BY <2>4, <2>5, <2>6, <2>7, <2>8 DEF Counted, MaxCount
<1> QED  BY <1>3, <1>4 DEF CountsAreTrue, ParsedBy

LEMMA CommitKeeps ==
  ASSUME BackfillInv, NEW w \in Runs, CommitBatch(w)  PROVE BackfillInv'
<1> USE DEF BackfillInv
<1>1. /\ batch[w] \subseteq Rows /\ batch[w] \cap Unparsed = batch[w]
      /\ \A row \in batch[w] : lock[row] = w
  BY DEF BackfillTypeOK, BatchInv, Unparsed
<1>2. /\ stage[w] = "updating" /\ stage' = [stage EXCEPT ![w] = "selecting"]
      /\ browser' = [row \in Rows |-> IF row \in batch[w] THEN Parsed(row) ELSE browser[row]]
      /\ parsedBy' = [row \in Rows |-> IF row \in batch[w] THEN w ELSE parsedBy[row]]
      /\ lock' = [row \in Rows |-> IF lock[row] = w THEN Free ELSE lock[row]]
      /\ batch' = [batch EXCEPT ![w] = {}] /\ updated' = [updated EXCEPT ![w] = {}]
      /\ excused' = excused
  BY <1>1 DEF CommitBatch, AfterBatch, Unlocked
<1>3. \A row \in Rows : Parsed(row) \in {"Unknown", "name"}  BY DEF Parsed
<1>4. CountsAreTrue' /\ processed'[w] \in 0..MaxCount  BY CommitCounts
<1>5. BackfillTypeOK'
  <2>1. processed' \in [Runs -> 0..MaxCount]
    BY <1>4 DEF BackfillTypeOK, CommitBatch
  <2> QED  BY <1>2, <1>3, <2>1 DEF BackfillTypeOK, Values
<1>6. \A v \in Runs : BatchInv(v)'
  <2> SUFFICES ASSUME NEW v \in Runs  PROVE BatchInv(v)'
    OBVIOUS
  <2>1. CASE v = w  BY <1>2, <2>1 DEF BackfillTypeOK, BatchInv
  <2>2. CASE v # w
    <3>1. stage'[v] = stage[v] /\ batch'[v] = batch[v] /\ updated'[v] = updated[v]
      BY <1>2, <2>2 DEF BackfillTypeOK
    <3>2. \A row \in batch[v] : row \in Rows /\ lock[row] = v /\ row \notin batch[w]
      BY <1>1, <2>2 DEF BackfillTypeOK, BatchInv
    <3>3. \A row \in batch[v] : lock'[row] = v /\ browser'[row] = "null"
      BY <1>2, <2>2, <3>2 DEF BatchInv
    <3> QED  BY <3>1, <3>3 DEF BatchInv
  <2> QED  BY <2>1, <2>2
<1>7. \A row \in Rows : RowInv(row)'
  BY <1>2, <1>3, BackfillAssumption DEF BackfillTypeOK, RowInv
<1>8. LastOneOut'  BY <1>2 DEF BackfillTypeOK, LastOneOut, Active
<1> QED  BY <1>4, <1>5, <1>6, <1>7, <1>8

LEMMA KillKeeps ==
  ASSUME BackfillInv, NEW w \in Runs, KillRun(w)  PROVE BackfillInv'
<1> USE DEF BackfillInv
<1>1. /\ stage' = [stage EXCEPT ![w] = "dead"]
      /\ lock' = [row \in Rows |-> IF lock[row] = w THEN Free ELSE lock[row]]
      /\ batch' = [batch EXCEPT ![w] = {}] /\ updated' = [updated EXCEPT ![w] = {}]
      /\ excused' = IF \E v \in Runs \ {w} : Active(v) THEN excused ELSE excused \cup Unparsed
      /\ UNCHANGED <<browser, processed, parsedBy>>
  BY DEF KillRun, Unlocked
<1>2. BackfillTypeOK'  BY <1>1 DEF BackfillTypeOK, Unparsed
<1>3. \A v \in Runs : BatchInv(v)'
  <2> SUFFICES ASSUME NEW v \in Runs  PROVE BatchInv(v)'
    OBVIOUS
  <2>1. CASE v = w  BY <1>1, <2>1 DEF BackfillTypeOK, BatchInv
  <2>2. CASE v # w  BY <1>1, <2>2 DEF BackfillTypeOK, BatchInv
  <2> QED  BY <2>1, <2>2
<1>4. \A row \in Rows : RowInv(row)'  BY <1>1, BackfillAssumption DEF BackfillTypeOK, RowInv
<1>5. CountsAreTrue'  BY <1>1, CountsRest
<1>6. LastOneOut'
  <2>1. Unparsed' = Unparsed  BY <1>1 DEF Unparsed
  <2>2. \A v \in Runs \ {w} : Active(v)' <=> Active(v)
    BY <1>1 DEF BackfillTypeOK, Active
  <2> QED  BY <1>1, <2>1, <2>2 DEF LastOneOut
<1> QED  BY <1>2, <1>3, <1>4, <1>5, <1>6

\* Removals take no lock from a run and parse nothing.
LEMMA RemovalKeeps ==
  ASSUME BackfillInv, NEW d \in Removals,
         EndRemoval(d) \/ \E row \in Rows : ClearReference(d, row)
  PROVE  BackfillInv'
<1> USE BackfillAssumption DEF BackfillInv
<1>1. /\ UNCHANGED <<browser, stage, batch, updated, processed, parsedBy, excused>>
      /\ lock' \in [Rows -> Runs \cup Removals \cup {Free}]
      /\ \A row \in Rows : lock'[row] # lock[row] =>
           /\ lock[row] \notin Runs /\ lock'[row] \notin Runs
           /\ browser[row] = "absent" => lock'[row] = Free
  BY DEF ClearReference, EndRemoval, Unlocked, BackfillTypeOK
<1>2. BackfillTypeOK'  BY <1>1 DEF BackfillTypeOK
<1>3. \A w \in Runs : BatchInv(w)'  BY <1>1 DEF BackfillTypeOK, BatchInv
<1>4. \A row \in Rows : RowInv(row)'  BY <1>1 DEF BackfillTypeOK, RowInv
<1>5. CountsAreTrue'  BY <1>1, CountsRest
<1>6. LastOneOut'  BY <1>1 DEF LastOneOut, Active, Unparsed
<1> QED  BY <1>2, <1>3, <1>4, <1>5, <1>6

LEMMA NextBackfillInv ==
  ASSUME BackfillInv, [BackfillNext]_backfillVars  PROVE BackfillInv'
<1>1. CASE UNCHANGED backfillVars
  BY <1>1 DEF backfillVars, BackfillInv, BackfillTypeOK, BatchInv, RowInv,
       CountsAreTrue, LastOneOut, Active, Unparsed
<1>2. CASE \E row \in Rows : Insert(row)  BY <1>2, InsertKeeps
<1>3. CASE \E w \in Runs : Start(w) \/ Step(w) \/ KillRun(w)
  BY <1>3, StartKeeps, SelectKeeps, ReturnKeeps, UpdateKeeps, CommitKeeps, KillKeeps
       DEF Step
<1>4. CASE \E d \in Removals : EndRemoval(d) \/ \E row \in Rows : ClearReference(d, row)
  BY <1>4, RemovalKeeps
<1> QED  BY <1>1, <1>2, <1>3, <1>4 DEF BackfillNext

LEMMA BackfillInvariant == BackfillSpec => []BackfillInv
<1>1. BackfillInit => BackfillInv  BY InitBackfillInv
<1>2. BackfillInv /\ [BackfillNext]_backfillVars => BackfillInv'  BY NextBackfillInv
<1> QED  BY <1>1, <1>2, PTL DEF BackfillSpec

\* However runs overlap, die and begin again, what a run counts is what it parsed, and
\* no row is counted by two (SharedOut; backfill_user_agents.py:35-73).
THEOREM RowsAreSharedOut == BackfillSpec => []SharedOut
<1>1. BackfillInv => SharedOut  BY DEF BackfillInv, SharedOut
<1> QED  BY <1>1, BackfillInvariant, PTL

\* The last run leaves nothing unparsed but what came, or was given back by a killed
\* run, when no run was left to see it, and what the removal of a link or of a
\* destination had locked when it looked (LastOneOut; backfill_user_agents.py:45-52).
THEOREM LastOneLeavesNothing == BackfillSpec => []LastOneOut
<1>1. BackfillInv => LastOneOut  BY DEF BackfillInv
<1> QED  BY <1>1, BackfillInvariant, PTL

===========================================================================
