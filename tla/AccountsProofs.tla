-------------------------- MODULE AccountsProofs --------------------------
(*************************************************************************)
(* Theorems about accounts and their sessions. UserAccounts, for any set *)
(* of accounts and requests: what the removal of an administrator rests  *)
(* on stays true, and locking one set of rows makes no deadlock.         *)
(* Sessions, for any accounts, passwords and times: who is served has    *)
(* given the password of an active account.                              *)
(*************************************************************************)
EXTENDS UserAccounts, Sessions, FiniteSetTheorems, TLAPS

\* The values of a request's fields when there is nothing in them.
LEMMA EmptyValues ==
  /\ NoPayload \in Payload
  /\ NoView \in View
  /\ AuthView \in View
BY DEF NoPayload, Payload, NoView, AuthView, View, Roles

LEMMA RowTypes ==
  ASSUME NEW w \in ValidRow \cup {NoRow}
  PROVE /\ w.role \in Roles \cup {"none"}
        /\ w.active \in BOOLEAN
        /\ w.grants \in SUBSET Domains
<1>1. CASE w \in ValidRow
  <2>1. w \in [role : Roles, active : BOOLEAN, grants : SUBSET Domains]
    BY <1>1 DEF ValidRow, Row
  <2> QED
    BY <2>1
<1>2. CASE w = NoRow
  BY <1>2 DEF NoRow
<1> QED
  BY <1>1, <1>2

\* Ending a transaction keeps the types of everything but the tables.
LEMMA AnswerTypes ==
  ASSUME TypeOK, NEW r \in Requests, NEW a \in Answers, Answer(r, a)
  PROVE /\ lock' \in [Users -> Requests \cup {Free}]
        /\ pc' \in [Requests -> Steps]
        /\ target' \in [Requests -> Users \cup {NoUser}]
        /\ payload' \in [Requests -> Payload]
        /\ newrow' \in [Requests -> ValidRow \cup {NoRow}]
        /\ own' \in [Requests -> BOOLEAN]
        /\ view' \in [Requests -> View]
        /\ sees' \in [Requests -> SUBSET Users]
        /\ snap' \in [Requests -> SUBSET Users]
        /\ todo' \in [Requests -> SUBSET Users]
BY EmptyValues DEF TypeOK, Answer, Released, Steps

LEMMA RollbackTypes ==
  ASSUME TypeOK, NEW r \in Requests, NEW a \in Answers, Rollback(r, a),
         promoting' \in BOOLEAN
  PROVE TypeOK'
BY AnswerTypes DEF TypeOK, Rollback, db

\* Every value a request writes to a row is one the table admits.
LEMMA WrittenTypes ==
  ASSUME TypeOK, NEW r \in Requests, target[r] \in Users
  PROVE /\ WrittenRole(r) \in Roles \cup {"none"}
        /\ WrittenActive(r) \in BOOLEAN
        /\ WrittenGrants(r) \in SUBSET Domains
<1>1. /\ payload[r] \in Payload
      /\ view[r] \in View
      /\ role[target[r]] \in Roles \cup {"none"}
      /\ active[target[r]] \in BOOLEAN
      /\ grants[target[r]] \in SUBSET Domains
  BY DEF TypeOK
<1>2. NextRole(r) \in Roles \cup {"none"}
  BY <1>1 DEF NextRole, Payload, View
<1>3. NextActive(r) \in BOOLEAN
  BY <1>1 DEF NextActive, Payload, View
<1> QED
  BY <1>1, <1>2, <1>3 DEF WrittenRole, WrittenActive, WrittenGrants, Payload

---------------------------------------------------------------------------
LEMMA InitTypes == Init => TypeOK
<1> SUFFICES ASSUME Init PROVE TypeOK
  OBVIOUS
<1>1. PICK b \in Boots : /\ role = [u \in Users |-> b[u].role]
                         /\ active = [u \in Users |-> b[u].active]
                         /\ grants = [u \in Users |-> b[u].grants]
  BY DEF Init
<1>2. b \in [Users -> ValidRow \cup {NoRow}]
  BY InputsAssumption
<1>3. \A u \in Users : /\ b[u].role \in Roles \cup {"none"}
                       /\ b[u].active \in BOOLEAN
                       /\ b[u].grants \in SUBSET Domains
  BY <1>2, RowTypes
<1> QED
  BY <1>1, <1>3, EmptyValues DEF Init, TypeOK, Steps

LEMMA StepTypes == TypeOK /\ [Next]_vars => TypeOK'
<1> SUFFICES ASSUME TypeOK, [Next]_vars PROVE TypeOK'
  OBVIOUS
<1>0. promoting' \in BOOLEAN
  BY DEF TypeOK, Next, vars
<1>1. CASE UNCHANGED vars
  BY <1>1 DEF TypeOK, vars
<1>2. ASSUME NEW r \in Requests, ArriveUpdate(r) PROVE TypeOK'
  BY <1>0, <1>2, EmptyValues, InputsAssumption
    DEF TypeOK, ArriveUpdate, ActiveAdmins, Existing, Steps
<1>3. ASSUME NEW r \in Requests, SnapshotAdmins(r) PROVE TypeOK'
  BY <1>0, <1>3 DEF TypeOK, SnapshotAdmins, ActiveAdmins, Existing, Steps
<1>4. ASSUME NEW r \in Requests, LockAdmin(r) PROVE TypeOK'
  BY <1>0, <1>4 DEF TypeOK, LockAdmin
<1>5. ASSUME NEW r \in Requests, LockTarget(r) PROVE TypeOK'
  <2>1. RowView(target[r]) \in View
    BY <1>5 DEF TypeOK, LockTarget, Existing, RowView, View
  <2> QED
    BY <1>0, <1>5, <2>1 DEF TypeOK, LockTarget, Existing, Steps
<1>6. ASSUME NEW r \in Requests,
             \/ TargetMissing(r) \/ RefuseLastAdmin(r) \/ RefuseBody(r)
             \/ UpdateFails(r) \/ CreateFails(r) \/ ScriptFails(r)
             \/ DeadlockVictim(r)
      PROVE TypeOK'
  <2>1. \E a \in Answers : Rollback(r, a)
    BY <1>6 DEF TargetMissing, RefuseLastAdmin, RefuseBody, UpdateFails,
                CreateFails, ScriptFails, DeadlockVictim, Answers
  <2> QED
    BY <1>0, <2>1, RollbackTypes
<1>7. ASSUME NEW r \in Requests, AcceptBody(r) PROVE TypeOK'
  BY <1>0, <1>7 DEF TypeOK, AcceptBody, Steps
<1>8. ASSUME NEW r \in Requests, CommitUpdate(r) PROVE TypeOK'
  <2>1. Answer(r, "ok")
    BY <1>8 DEF CommitUpdate
  <2>2. target[r] \in Users =>
          /\ WrittenRole(r) \in Roles \cup {"none"}
          /\ WrittenActive(r) \in BOOLEAN
          /\ WrittenGrants(r) \in SUBSET Domains
    BY WrittenTypes
  <2> QED
    BY <1>0, <1>8, <2>1, <2>2, AnswerTypes DEF TypeOK, CommitUpdate, Answers
<1>9. ASSUME NEW r \in Requests, ArriveCreate(r) PROVE TypeOK'
  BY <1>0, <1>9, InputsAssumption DEF TypeOK, ArriveCreate, Steps
<1>10. ASSUME NEW r \in Requests, CommitCreate(r) PROVE TypeOK'
  <2>1. Answer(r, "ok")
    BY <1>10 DEF CommitCreate
  <2>2. /\ newrow[r].role \in Roles \cup {"none"}
        /\ newrow[r].active \in BOOLEAN
        /\ newrow[r].grants \in SUBSET Domains
    BY RowTypes DEF TypeOK
  <2> QED
    BY <1>0, <1>10, <2>1, <2>2, AnswerTypes DEF TypeOK, CommitCreate, Answers
<1>11. ASSUME NEW r \in Requests, ScriptReads(r) PROVE TypeOK'
  <2>1. \A u \in Users : RowView(u) \in View
    BY DEF TypeOK, RowView, View
  <2> QED
    BY <1>0, <1>11, <2>1 DEF TypeOK, ScriptReads, Steps
<1>12. ASSUME NEW r \in Requests, ScriptPromotes(r) PROVE TypeOK'
  <2>1. Answer(r, "ok")
    BY <1>12 DEF ScriptPromotes
  <2> QED
    BY <1>0, <1>12, <2>1, AnswerTypes DEF TypeOK, ScriptPromotes, Answers, Roles
<1>13. ASSUME NEW r \in Requests, ScriptCreates(r) PROVE TypeOK'
  <2>1. Answer(r, "ok")
    BY <1>13 DEF ScriptCreates
  <2> QED
    BY <1>0, <1>13, <2>1, AnswerTypes DEF TypeOK, ScriptCreates, Answers, Roles
<1> QED
  BY <1>1, <1>2, <1>3, <1>4, <1>5, <1>6, <1>7, <1>8, <1>9, <1>10, <1>11, <1>12,
     <1>13 DEF Next, Arrive, Step

\* The variables of the model keep their types in every behaviour.
THEOREM TypeCorrectness == Spec => []TypeOK
BY InitTypes, StepTypes, PTL DEF Spec

---------------------------------------------------------------------------
(* The last administrator.  The proof follows the two facts the handler    *)
(* relies on: the target of a removal is in the set every later snapshot   *)
(* locks, so two removals that have counted would hold the same lock; and  *)
(* only such a removal takes anybody out of the set it counted.            *)

\* What the end of a request leaves of the bookkeeping of the others, when
\* no row disappears and no account that was there becomes an active admin.
Bookkeeping ==
  /\ NobodyPromotes
  /\ TargetSeen
  /\ SnapshotCovers
  /\ SnapshotsOrdered
  /\ LocksHeld
  /\ ViewCurrent

LEMMA AnswerKeepsBookkeeping ==
  ASSUME TypeOK, Bookkeeping, NEW r \in Requests, NEW a \in Answers,
         Answer(r, a),
         Existing \subseteq Existing',
         ActiveAdmins' \cap Existing \subseteq ActiveAdmins
  PROVE Bookkeeping'
<1>1. /\ pc'[r] \in Answers /\ payload'[r] = NoPayload
      /\ \A q \in Requests : q # r =>
           /\ pc'[q] = pc[q] /\ target'[q] = target[q]
           /\ payload'[q] = payload[q] /\ own'[q] = own[q]
           /\ view'[q] = view[q] /\ sees'[q] = sees[q]
           /\ snap'[q] = snap[q] /\ todo'[q] = todo[q]
           /\ \A u \in Users : lock[u] = q => lock'[u] = q
  BY DEF TypeOK, Answer, Released
<1>2. /\ ~InUpdate(r)'
      /\ pc'[r] \notin {"begin", "scripting"}
  BY <1>1 DEF InUpdate, Answers
<1>3. \A q \in Requests : q # r => (InUpdate(q)' <=> InUpdate(q))
  BY <1>1 DEF InUpdate
<1>4. NobodyPromotes'
  BY <1>1, <1>2 DEF Bookkeeping, NobodyPromotes, Promotes, NoPayload
<1>5. TargetSeen'
  BY <1>1, <1>2, <1>3 DEF Bookkeeping, TargetSeen, InUpdate
<1>6. SnapshotCovers'
  BY <1>1, <1>2, <1>3 DEF Bookkeeping, SnapshotCovers
<1>7. SnapshotsOrdered'
  BY <1>1, <1>2, <1>3 DEF Bookkeeping, SnapshotsOrdered
<1>8. LocksHeld'
  <2> SUFFICES ASSUME NEW q \in Requests
               PROVE /\ InUpdate(q)' => \A u \in snap'[q] \ todo'[q] : lock'[u] = q
                     /\ pc'[q] \in {"checking", "writing"} =>
                          todo'[q] = {} /\ lock'[target'[q]] = q
    BY DEF LocksHeld
  <2>1. CASE q = r
    BY <2>1, <1>2 DEF InUpdate
  <2>2. CASE q # r
    <3>1. snap[q] \subseteq Users
      BY DEF TypeOK
    <3>2. pc[q] \in {"checking", "writing"} => target[q] \in Users
      BY DEF Bookkeeping, TargetSeen, Existing
    <3> QED
      BY <2>2, <1>1, <1>3, <3>1, <3>2 DEF Bookkeeping, LocksHeld
  <2> QED
    BY <2>1, <2>2
<1>9. ViewCurrent'
  <2> SUFFICES ASSUME NEW q \in Requests, q # r
               PROVE /\ (pc'[q] = "begin" \/ InUpdate(q)') /\ own'[q] =>
                          view'[q] = AuthView
                     /\ pc'[q] \in {"checking", "writing"}
                          /\ target'[q] \in ActiveAdmins' => view'[q] = AuthView
    BY <1>2 DEF ViewCurrent, InUpdate
  <2>1. pc[q] \in {"checking", "writing"} => target[q] \in Existing
    BY DEF Bookkeeping, TargetSeen
  <2> QED
    BY <1>1, <1>3, <2>1 DEF Bookkeeping, ViewCurrent
<1> QED
  BY <1>4, <1>5, <1>6, <1>7, <1>8, <1>9 DEF Bookkeeping

\* A transaction that ends without taking an active administrator away
\* leaves every count of the others valid.
LEMMA HarmlessAnswer ==
  ASSUME TypeOK, Bookkeeping, CountStillValid, AtLeastOneActiveAdmin,
         NEW r \in Requests, NEW a \in Answers, Answer(r, a),
         Existing \subseteq Existing',
         ActiveAdmins' \cap Existing \subseteq ActiveAdmins,
         ActiveAdmins \subseteq ActiveAdmins'
  PROVE Bookkeeping' /\ CountStillValid' /\ AtLeastOneActiveAdmin'
<1>1. Bookkeeping'
  BY AnswerKeepsBookkeeping
<1>2. CountStillValid'
  <2> SUFFICES ASSUME NEW q \in Requests, Removing(q)'
               PROVE \E u \in ActiveAdmins' : u # target'[q]
    BY DEF CountStillValid
  <2>1. q # r /\ pc'[q] = pc[q] /\ target'[q] = target[q]
        /\ view'[q] = view[q] /\ payload'[q] = payload[q]
    BY DEF TypeOK, Answer, Removing, Answers
  <2>2. target[q] \in Existing
    BY <2>1 DEF Removing, Bookkeeping, TargetSeen
  <2>3. Removing(q)
    BY <2>1, <2>2 DEF Removing, Removes
  <2> QED
    BY <2>1, <2>3 DEF CountStillValid
<1>3. AtLeastOneActiveAdmin'
  BY DEF AtLeastOneActiveAdmin
<1> QED
  BY <1>1, <1>2, <1>3

LEMMA RollbackKeeps ==
  ASSUME LastAdminInv, NEW r \in Requests, NEW a \in Answers, Rollback(r, a),
         promoting' \in BOOLEAN
  PROVE LastAdminInv'
<1>1. Answer(r, a) /\ Existing' = Existing /\ ActiveAdmins' = ActiveAdmins
  BY DEF Rollback, db, Existing, ActiveAdmins
<1>2. Bookkeeping' /\ CountStillValid' /\ AtLeastOneActiveAdmin'
  BY <1>1, HarmlessAnswer DEF LastAdminInv, Bookkeeping
<1>3. TypeOK'
  BY RollbackTypes DEF LastAdminInv
<1> QED
  BY <1>2, <1>3 DEF LastAdminInv, Bookkeeping

\* Two removals that have both counted would hold the same row lock.
LEMMA InvSerialises ==
  LastAdminInv => \A r, q \in Requests : Removing(r) /\ Removing(q) => r = q
<1> SUFFICES ASSUME LastAdminInv, NEW r \in Requests, NEW q \in Requests,
                    Removing(r), Removing(q), sees[r] \subseteq sees[q]
             PROVE r = q
  BY DEF LastAdminInv, SnapshotsOrdered, Removing, InUpdate
<1>1. target[r] \in sees[r] /\ lock[target[r]] = r
  BY UsersAssumption
    DEF LastAdminInv, TargetSeen, LocksHeld, Removing, InUpdate, Existing
<1>2. target[r] \in snap[q]
  BY <1>1 DEF LastAdminInv, SnapshotCovers, Removing, InUpdate
<1>3. lock[target[r]] = q
  BY <1>2 DEF LastAdminInv, LocksHeld, Removing, InUpdate
<1> QED
  BY <1>1, <1>3

LEMMA InitLastAdmin == Init => LastAdminInv
<1> SUFFICES ASSUME Init PROVE LastAdminInv
  OBVIOUS
<1>1. \A r \in Requests : pc[r] = "idle"
  BY DEF Init
<1>2. AtLeastOneActiveAdmin
  BY InputsAssumption DEF Init, AtLeastOneActiveAdmin, ActiveAdmins
<1> QED
  BY <1>1, <1>2, InitTypes
    DEF Init, NoPayload, LastAdminInv, NobodyPromotes, Promotes, TargetSeen, SnapshotCovers,
        SnapshotsOrdered, LocksHeld, ViewCurrent, CountStillValid, InUpdate,
        Removing

\* A commit can only take its target out of the active administrators, and
\* then it is a removal that has counted.
LEMMA CommitEffect ==
  ASSUME LastAdminInv, NEW r \in Requests, CommitUpdate(r)
  PROVE /\ Existing' = Existing
        /\ ActiveAdmins' \subseteq ActiveAdmins
        /\ \A u \in ActiveAdmins : u # target[r] => u \in ActiveAdmins'
        /\ target[r] \in ActiveAdmins \ ActiveAdmins' => Removing(r)
<1> DEFINE t == target[r]
<1>1. /\ t \in Existing
      /\ payload[r].role \in {"keep", "subaccount"}
      /\ payload[r].active \in {"keep", "no"}
  <2>1. ~Promotes(r) /\ t \in Existing
    BY DEF CommitUpdate, LastAdminInv, NobodyPromotes, TargetSeen
  <2>2. payload[r] \in Payload
    BY DEF LastAdminInv, TypeOK
  <2> QED
    BY <2>1, <2>2 DEF Promotes, Payload, Roles
<1>2. /\ role' = [role EXCEPT ![t] = WrittenRole(r)]
      /\ active' = [active EXCEPT ![t] = WrittenActive(r)]
      /\ role \in [Users -> Roles \cup {"none"}]
      /\ active \in [Users -> BOOLEAN]
      /\ t \in Users
  BY <1>1 DEF CommitUpdate, LastAdminInv, TypeOK, Existing
<1>3. WrittenRole(r) = role[t] \/ WrittenRole(r) = "subaccount"
  BY <1>1 DEF WrittenRole, NextRole
<1>4. view[r].active \in BOOLEAN
  BY DEF LastAdminInv, TypeOK, View
<1>5. WrittenActive(r) = active[t] \/ WrittenActive(r) = FALSE
  <2>1. NextActive(r) = view[r].active \/ NextActive(r) = FALSE
    BY <1>1 DEF NextActive
  <2> QED
    BY <2>1 DEF WrittenActive
<1>6. Existing' = Existing
  BY <1>1, <1>2, <1>3 DEF Existing
<1>7. ActiveAdmins' \subseteq ActiveAdmins
  <2> SUFFICES ASSUME NEW u \in ActiveAdmins' PROVE u \in ActiveAdmins
    OBVIOUS
  <2>1. u \in Users /\ role'[u] = "admin" /\ active'[u]
    BY DEF ActiveAdmins
  <2>2. role[u] = "admin"
    BY <1>2, <1>3, <2>1
  <2>3. active[u]
    BY <1>2, <1>5, <2>1
  <2> QED
    BY <2>1, <2>2, <2>3 DEF ActiveAdmins
<1>8. \A u \in ActiveAdmins : u # t => u \in ActiveAdmins'
  BY <1>2 DEF ActiveAdmins
<1>9. ASSUME t \in ActiveAdmins, t \notin ActiveAdmins' PROVE Removing(r)
  <2>1. pc[r] = "writing"
    BY DEF CommitUpdate
  <2>2. view[r] = AuthView
    BY <1>9, <2>1 DEF LastAdminInv, ViewCurrent
  <2>3. role[t] = "admin" /\ active[t]
    BY <1>9 DEF ActiveAdmins
  <2>4. WrittenRole(r) # role[t] \/ WrittenActive(r) # active[t]
    BY <1>2, <1>9, <2>3 DEF ActiveAdmins
  <2>5. payload[r].role = "subaccount" \/ payload[r].active = "no"
    <3>1. CASE WrittenRole(r) # role[t]
      BY <1>1, <3>1 DEF WrittenRole, NextRole
    <3>2. CASE WrittenActive(r) # active[t]
      <4>1. NextActive(r) # view[r].active
        BY <3>2 DEF WrittenActive
      <4> QED
        BY <1>1, <4>1 DEF NextActive
    <3> QED
      BY <2>4, <3>1, <3>2
  <2> QED
    BY <1>9, <2>1, <2>2, <2>5 DEF Removing, Removes
<1> QED
  BY <1>6, <1>7, <1>8, <1>9

LEMMA CommitUpdateKeeps ==
  ASSUME LastAdminInv, NEW r \in Requests, CommitUpdate(r)
  PROVE Bookkeeping' /\ CountStillValid' /\ AtLeastOneActiveAdmin'
<1>1. Answer(r, "ok") /\ "ok" \in Answers
  BY DEF CommitUpdate, Answers
<1>2. TypeOK /\ Bookkeeping
  BY DEF LastAdminInv, Bookkeeping
<1>3. CASE target[r] \in ActiveAdmins \ ActiveAdmins'
  <2>1. Removing(r)
    BY <1>3, CommitEffect
  <2>2. PICK v \in ActiveAdmins : v # target[r]
    BY <2>1 DEF LastAdminInv, CountStillValid
  <2>3. \A q \in Requests : ~Removing(q)'
    <3> SUFFICES ASSUME NEW q \in Requests, Removing(q)' PROVE FALSE
      OBVIOUS
    <3>1. q # r /\ pc'[q] = pc[q] /\ target'[q] = target[q]
          /\ view'[q] = view[q] /\ payload'[q] = payload[q]
      BY <1>1, <1>2 DEF TypeOK, Answer, Removing, Answers
    <3>2. Removing(q)
      BY <3>1, CommitEffect DEF Removing, Removes
    <3> QED
      BY <2>1, <3>1, <3>2, InvSerialises
  <2>4. Bookkeeping'
    BY <1>1, <1>2, CommitEffect, AnswerKeepsBookkeeping
  <2>5. v \in ActiveAdmins'
    BY <2>2, CommitEffect
  <2> QED
    BY <2>3, <2>4, <2>5 DEF CountStillValid, AtLeastOneActiveAdmin
<1>4. CASE target[r] \notin ActiveAdmins \ ActiveAdmins'
  <2>1. ActiveAdmins' = ActiveAdmins
    BY <1>4, CommitEffect
  <2> QED
    BY <1>1, <1>2, <2>1, CommitEffect, HarmlessAnswer DEF LastAdminInv
<1> QED
  BY <1>3, <1>4

LEMMA CommitCreateKeeps ==
  ASSUME LastAdminInv, NEW r \in Requests, CommitCreate(r)
  PROVE Bookkeeping' /\ CountStillValid' /\ AtLeastOneActiveAdmin'
<1>1. Answer(r, "ok") /\ "ok" \in Answers
  BY DEF CommitCreate, Answers
<1>2. \A u \in Existing : role'[u] = role[u] /\ active'[u] = active[u]
  BY DEF CommitCreate, LastAdminInv, TypeOK, Existing
<1>3. /\ Existing \subseteq Existing'
      /\ ActiveAdmins' \cap Existing \subseteq ActiveAdmins
      /\ ActiveAdmins \subseteq ActiveAdmins'
  BY <1>2 DEF Existing, ActiveAdmins
<1> QED
  BY <1>1, <1>3, HarmlessAnswer DEF LastAdminInv, Bookkeeping

\* Steps that write no row: who exists and who administers stays the same.
LEMMA TablesKept ==
  ASSUME UNCHANGED db
  PROVE Existing' = Existing /\ ActiveAdmins' = ActiveAdmins
BY DEF db, Existing, ActiveAdmins

LEMMA ArriveUpdateKeeps ==
  ASSUME LastAdminInv, NEW r \in Requests, ArriveUpdate(r), ~Promotes(r)'
  PROVE Bookkeeping' /\ CountStillValid' /\ AtLeastOneActiveAdmin'
<1> USE DEF LastAdminInv
<1>1. Existing' = Existing /\ ActiveAdmins' = ActiveAdmins
  BY TablesKept DEF ArriveUpdate, db
<1>2. \A q \in Requests :
        /\ InUpdate(q)' <=> InUpdate(q)
        /\ pc[q] # pc'[q] => q = r
        /\ q # r => /\ target'[q] = target[q] /\ payload'[q] = payload[q]
                    /\ own'[q] = own[q] /\ view'[q] = view[q]
        /\ InUpdate(q) => q # r
  BY DEF ArriveUpdate, TypeOK, InUpdate
<1>3. /\ pc'[r] = "begin"
      /\ target'[r] \in Existing \cup {NoUser}
      /\ own'[r] => view'[r] = AuthView
  BY DEF ArriveUpdate, TypeOK
<1>4. NobodyPromotes' /\ TargetSeen'
  BY <1>1, <1>2, <1>3
    DEF NobodyPromotes, Promotes, TargetSeen, ArriveUpdate, InUpdate
<1>5. SnapshotCovers' /\ SnapshotsOrdered'
  BY <1>1, <1>2 DEF SnapshotCovers, SnapshotsOrdered, ArriveUpdate
<1>6. LocksHeld'
  BY <1>1, <1>2, <1>3 DEF LocksHeld, ArriveUpdate, InUpdate
<1>7. ViewCurrent'
  BY <1>1, <1>2, <1>3 DEF ViewCurrent, InUpdate
<1>8. CountStillValid'
  BY <1>1, <1>2, <1>3 DEF CountStillValid, Removing, Removes
<1> QED
  BY <1>1, <1>4, <1>5, <1>6, <1>7, <1>8 DEF Bookkeeping, AtLeastOneActiveAdmin

\* The new snapshot sees every account, so it comes last in the order.
LEMMA SnapshotAdminsKeeps ==
  ASSUME LastAdminInv, NEW r \in Requests, SnapshotAdmins(r)
  PROVE Bookkeeping' /\ CountStillValid' /\ AtLeastOneActiveAdmin'
<1> USE DEF LastAdminInv
<1>1. Existing' = Existing /\ ActiveAdmins' = ActiveAdmins
  BY TablesKept DEF SnapshotAdmins, db
<1>2. /\ pc[r] = "begin" /\ pc'[r] = "locking"
      /\ sees'[r] = Existing /\ snap'[r] = ActiveAdmins /\ todo'[r] = ActiveAdmins
      /\ \A q \in Requests : q # r =>
           /\ pc'[q] = pc[q] /\ sees'[q] = sees[q]
           /\ snap'[q] = snap[q] /\ todo'[q] = todo[q]
  BY DEF SnapshotAdmins, TypeOK
<1>3. UNCHANGED <<target, payload, own, view, lock>>
  BY DEF SnapshotAdmins
<1>4. NobodyPromotes' /\ TargetSeen'
  BY <1>1, <1>2, <1>3 DEF NobodyPromotes, Promotes, TargetSeen, InUpdate
<1>5. SnapshotCovers' /\ SnapshotsOrdered'
  BY <1>1, <1>2 DEF SnapshotCovers, SnapshotsOrdered, InUpdate
<1>6. LocksHeld'
  BY <1>2, <1>3 DEF LocksHeld, InUpdate
<1>7. ViewCurrent'
  BY <1>1, <1>2, <1>3 DEF ViewCurrent, InUpdate
<1>8. CountStillValid'
  BY <1>1, <1>2, <1>3 DEF CountStillValid, Removing, Removes
<1> QED
  BY <1>1, <1>4, <1>5, <1>6, <1>7, <1>8 DEF Bookkeeping, AtLeastOneActiveAdmin

\* A lock is granted only when nobody else holds it.
LEMMA LockAdminKeeps ==
  ASSUME LastAdminInv, NEW r \in Requests, LockAdmin(r)
  PROVE Bookkeeping' /\ CountStillValid' /\ AtLeastOneActiveAdmin'
<1> USE DEF LastAdminInv
<1>1. Existing' = Existing /\ ActiveAdmins' = ActiveAdmins
  BY TablesKept DEF LockAdmin, db
<1>2. PICK u \in todo[r] : /\ lock[u] \in {Free, r}
                           /\ lock' = [lock EXCEPT ![u] = r]
                           /\ todo' = [todo EXCEPT ![r] = @ \ {u}]
  BY DEF LockAdmin, Grantable
<1>3. pc[r] = "locking" /\ UNCHANGED <<pc, target, payload, own, view, sees, snap>>
  BY DEF LockAdmin
<1>4. \A q \in Requests : InUpdate(q)' <=> InUpdate(q)
  BY <1>3 DEF InUpdate
<1>5. NobodyPromotes' /\ TargetSeen' /\ SnapshotCovers' /\ SnapshotsOrdered'
  BY <1>1, <1>3, <1>4
    DEF NobodyPromotes, Promotes, TargetSeen, SnapshotCovers, SnapshotsOrdered
<1>6. LocksHeld'
  <2>1. \A q \in Requests, w \in Users : lock[w] = q => lock'[w] = q
    BY <1>2, UsersAssumption DEF TypeOK
  <2>2. u \in Users /\ lock'[u] = r /\ todo'[r] = todo[r] \ {u}
    BY <1>2 DEF TypeOK
  <2>3. \A q \in Requests : q # r => todo'[q] = todo[q]
    BY <1>2 DEF TypeOK
  <2>4. \A q \in Requests : snap[q] \subseteq Users
    BY DEF TypeOK
  <2>5. \A q \in Requests : pc[q] \in {"checking", "writing"} => target[q] \in Users
    BY DEF TargetSeen, Existing
  <2> QED
    BY <1>3, <1>4, <2>1, <2>2, <2>3, <2>4, <2>5 DEF LocksHeld
<1>7. ViewCurrent'
  BY <1>1, <1>3, <1>4 DEF ViewCurrent
<1>8. CountStillValid'
  BY <1>1, <1>3 DEF CountStillValid, Removing, Removes
<1> QED
  BY <1>1, <1>5, <1>6, <1>7, <1>8 DEF Bookkeeping, AtLeastOneActiveAdmin

LEMMA LockTargetKeeps ==
  ASSUME LastAdminInv, NEW r \in Requests, LockTarget(r)
  PROVE Bookkeeping' /\ CountStillValid' /\ AtLeastOneActiveAdmin'
<1> USE DEF LastAdminInv
<1>1. Existing' = Existing /\ ActiveAdmins' = ActiveAdmins
  BY TablesKept DEF LockTarget, db
<1>2. /\ pc[r] = "locking" /\ pc'[r] = "checking" /\ todo[r] = {}
      /\ target[r] \in Existing /\ target[r] \in Users
      /\ lock[target[r]] \in {Free, r} /\ lock'[target[r]] = r
      /\ \A q \in Requests : q # r => pc'[q] = pc[q] /\ view'[q] = view[q]
      /\ \A w \in Users : w # target[r] => lock'[w] = lock[w]
      /\ view'[r] = IF own[r] THEN view[r] ELSE RowView(target[r])
  BY DEF LockTarget, Grantable, TypeOK, Existing
<1>3. UNCHANGED <<target, payload, own, sees, snap, todo>>
  BY DEF LockTarget
<1>4. \A q \in Requests : InUpdate(q)' <=> InUpdate(q)
  BY <1>2 DEF InUpdate
<1>5. NobodyPromotes' /\ TargetSeen' /\ SnapshotCovers' /\ SnapshotsOrdered'
  BY <1>1, <1>2, <1>3, <1>4
    DEF NobodyPromotes, Promotes, TargetSeen, SnapshotCovers, SnapshotsOrdered, InUpdate
<1>6. LocksHeld'
  <2>1. \A q \in Requests, w \in Users : lock[w] = q => lock'[w] = q
    BY <1>2, UsersAssumption
  <2>2. \A q \in Requests : snap[q] \subseteq Users
    BY DEF TypeOK
  <2>3. \A q \in Requests : pc[q] \in {"checking", "writing"} => target[q] \in Users
    BY DEF TargetSeen, Existing
  <2> QED
    BY <1>2, <1>3, <1>4, <2>1, <2>2, <2>3 DEF LocksHeld
<1>7. ViewCurrent'
  <2>1. target[r] \in ActiveAdmins => RowView(target[r]) = AuthView
    BY DEF RowView, AuthView, ActiveAdmins, TypeOK
  <2>2. own[r] => view[r] = AuthView
    BY <1>2 DEF ViewCurrent, InUpdate
  <2> QED
    BY <1>1, <1>2, <1>3, <1>4, <2>1, <2>2 DEF ViewCurrent
<1>8. CountStillValid'
  BY <1>1, <1>2, <1>3 DEF CountStillValid, Removing, Removes
<1> QED
  BY <1>1, <1>5, <1>6, <1>7, <1>8 DEF Bookkeeping, AtLeastOneActiveAdmin

\* The count: a removal goes on only if somebody else is an active admin.
LEMMA AcceptBodyKeeps ==
  ASSUME LastAdminInv, NEW r \in Requests, AcceptBody(r)
  PROVE Bookkeeping' /\ CountStillValid' /\ AtLeastOneActiveAdmin'
<1> USE DEF LastAdminInv
<1>1. Existing' = Existing /\ ActiveAdmins' = ActiveAdmins
  BY TablesKept DEF AcceptBody, db
<1>2. /\ pc[r] = "checking" /\ pc'[r] = "writing"
      /\ \A q \in Requests : q # r => pc'[q] = pc[q]
      /\ UNCHANGED <<target, payload, own, view, lock, sees, snap, todo>>
  BY DEF AcceptBody, TypeOK
<1>3. \A q \in Requests : InUpdate(q)' <=> InUpdate(q)
  BY <1>2 DEF InUpdate
<1>4. Bookkeeping'
  BY <1>1, <1>2, <1>3
    DEF Bookkeeping, NobodyPromotes, Promotes, TargetSeen, SnapshotCovers,
        SnapshotsOrdered, LocksHeld, ViewCurrent, InUpdate
<1>5. CountStillValid'
  <2> SUFFICES ASSUME NEW q \in Requests, Removing(q)'
               PROVE \E u \in ActiveAdmins : u # target[q]
    BY <1>1, <1>2 DEF CountStillValid
  <2>1. CASE q = r
    <3>1. Removes(r) /\ target[r] \in ActiveAdmins
      BY <1>1, <1>2, <2>1 DEF Removing, Removes
    <3>2. Cardinality(ActiveAdmins) # 1
      BY <3>1 DEF AcceptBody, LastAdmin
    <3>3. ActiveAdmins # {target[r]}
      BY <3>2, FS_Singleton
    <3> QED
      BY <2>1, <3>1, <3>3
  <2>2. CASE q # r
    BY <1>1, <1>2, <2>2 DEF CountStillValid, Removing, Removes
  <2> QED
    BY <2>1, <2>2
<1> QED
  BY <1>1, <1>4, <1>5 DEF AtLeastOneActiveAdmin

LEMMA ArriveCreateKeeps ==
  ASSUME LastAdminInv, NEW r \in Requests, ArriveCreate(r)
  PROVE Bookkeeping' /\ CountStillValid' /\ AtLeastOneActiveAdmin'
<1> USE DEF LastAdminInv
<1>1. Existing' = Existing /\ ActiveAdmins' = ActiveAdmins
  BY TablesKept DEF ArriveCreate, db
<1>2. /\ pc[r] = "idle" /\ pc'[r] = "creating"
      /\ \A q \in Requests : q # r => pc'[q] = pc[q] /\ target'[q] = target[q]
      /\ UNCHANGED <<payload, own, view, lock, sees, snap, todo>>
  BY DEF ArriveCreate, TypeOK
<1>3. \A q \in Requests : (InUpdate(q)' <=> InUpdate(q)) /\ (InUpdate(q) => q # r)
  BY <1>2 DEF InUpdate
<1>4. Bookkeeping'
  BY <1>1, <1>2, <1>3
    DEF Bookkeeping, NobodyPromotes, Promotes, TargetSeen, SnapshotCovers,
        SnapshotsOrdered, LocksHeld, ViewCurrent
<1>5. CountStillValid'
  BY <1>1, <1>2 DEF CountStillValid, Removing, Removes
<1> QED
  BY <1>1, <1>4, <1>5 DEF AtLeastOneActiveAdmin

---------------------------------------------------------------------------
LEMMA StepKeepsLastAdmin ==
  ASSUME LastAdminInv, [Next]_vars, ~promoting'
  PROVE LastAdminInv'
<1>0. Next => \A r \in Requests : ~Promotes(r)'
  BY DEF Next
<1>1. TypeOK'
  BY StepTypes DEF LastAdminInv
<1>2. CASE UNCHANGED vars
  BY <1>1, <1>2
    DEF vars, LastAdminInv, NobodyPromotes, Promotes, TargetSeen, SnapshotCovers,
        SnapshotsOrdered, LocksHeld, ViewCurrent, CountStillValid,
        AtLeastOneActiveAdmin, InUpdate, Removing, Removes, Existing,
        ActiveAdmins
<1>3. ASSUME NEW r \in Requests,
             \/ ArriveUpdate(r) \/ SnapshotAdmins(r) \/ LockAdmin(r)
             \/ LockTarget(r) \/ AcceptBody(r) \/ CommitUpdate(r)
             \/ ArriveCreate(r) \/ CommitCreate(r),
             ~Promotes(r)'
      PROVE Bookkeeping' /\ CountStillValid' /\ AtLeastOneActiveAdmin'
  BY <1>3, ArriveUpdateKeeps, SnapshotAdminsKeeps, LockAdminKeeps,
     LockTargetKeeps, AcceptBodyKeeps, CommitUpdateKeeps, ArriveCreateKeeps,
     CommitCreateKeeps
<1>4. ASSUME NEW r \in Requests,
             \/ TargetMissing(r) \/ RefuseLastAdmin(r) \/ RefuseBody(r)
             \/ UpdateFails(r) \/ CreateFails(r) \/ ScriptFails(r)
             \/ DeadlockVictim(r)
      PROVE LastAdminInv'
  <2>1. \E a \in Answers : Rollback(r, a)
    BY <1>4 DEF TargetMissing, RefuseLastAdmin, RefuseBody, UpdateFails,
                CreateFails, ScriptFails, DeadlockVictim, Answers
  <2> QED
    BY <1>1, <2>1, RollbackKeeps DEF TypeOK
<1>5. ASSUME NEW r \in Requests,
             ScriptReads(r) \/ ScriptPromotes(r) \/ ScriptCreates(r),
             ~Promotes(r)'
      PROVE FALSE
  <2>1. pc[r] = "scripting" \/ pc'[r] = "scripting"
    BY <1>5 DEF LastAdminInv, TypeOK, ScriptReads, ScriptPromotes, ScriptCreates
  <2> QED
    BY <2>1, <1>5 DEF LastAdminInv, NobodyPromotes, Promotes
<1> QED
  BY <1>0, <1>1, <1>2, <1>3, <1>4, <1>5
    DEF Next, Arrive, Step, LastAdminInv, Bookkeeping

\* The covering of removals is inductive: it may be given up only by a step
\* that asks for a promotion.
LEMMA StepKeepsCovered == RemovalsCovered /\ [Next]_vars => RemovalsCovered'
<1> SUFFICES ASSUME RemovalsCovered, [Next]_vars PROVE RemovalsCovered'
  OBVIOUS
<1>1. TypeOK'
  BY StepTypes DEF RemovalsCovered
<1>2. promoting => promoting'
  BY DEF Next, vars
<1>3. ASSUME ~promoting' PROVE LastAdminInv'
  BY <1>2, <1>3, StepKeepsLastAdmin DEF RemovalsCovered
<1> QED
  BY <1>1, <1>3 DEF RemovalsCovered

LEMMA InitCovered == Init => RemovalsCovered
BY InitLastAdmin DEF RemovalsCovered, LastAdminInv

\* However many requests there are, the locks and snapshots of those in
\* progress cover every removal until somebody asks for a promotion: what
\* update_user has counted under its locks still holds when it commits.
THEOREM RemovalsStayCovered == Spec => []RemovalsCovered
<1> QED
  BY InitCovered, StepKeepsCovered, PTL DEF Spec

\* Removals are serialised (the comment in update_user), however many
\* accounts and requests there are, until somebody asks for a promotion.
THEOREM RemovalsAreSerialised == Spec => []RemovalsSerialised
<1>1. RemovalsCovered => RemovalsSerialised
  BY InvSerialises DEF RemovalsCovered, RemovalsSerialised
<1> QED
  BY <1>1, InitCovered, StepKeepsCovered, PTL DEF Spec

\* Until then the service never loses its last administrator.
THEOREM LastAdminSurvives == Spec => []LastAdminKept
<1>1. RemovalsCovered => LastAdminKept
  BY DEF RemovalsCovered, LastAdminInv, LastAdminKept
<1> QED
  BY <1>1, InitCovered, StepKeepsCovered, PTL DEF Spec

---------------------------------------------------------------------------
(* Grants and answers.  Nothing is assumed of the bodies or the script     *)
(* here: the lock of the target row is enough.                             *)

\* The end of one request keeps the hold of the others, when the rows others
\* have locked keep their role and is_active.
LEMMA AnswerKeepsHold ==
  ASSUME TypeOK, TargetHeld, NEW r \in Requests, NEW a \in Answers, Answer(r, a),
         \A u \in Existing : lock[u] \notin {Free, r} =>
           role'[u] = role[u] /\ active'[u] = active[u]
  PROVE TargetHeld'
<1> SUFFICES ASSUME NEW q \in Requests
             PROVE /\ pc'[q] \in {"begin", "locking"} /\ own'[q] => view'[q] = AuthView
                   /\ pc'[q] \in {"checking", "writing"} =>
                        /\ target'[q] \in Existing'
                        /\ lock'[target'[q]] = q
                        /\ view'[q] = IF own'[q] THEN AuthView
                                      ELSE RowView(target[q])'
  BY DEF TargetHeld
<1>1. CASE q = r
  BY <1>1 DEF Answer, Answers, TypeOK
<1>2. CASE q # r
  <2>1. /\ pc'[q] = pc[q] /\ target'[q] = target[q]
        /\ own'[q] = own[q] /\ view'[q] = view[q]
        /\ \A u \in Users : lock[u] = q => lock'[u] = q
    BY <1>2 DEF TypeOK, Answer, Released
  <2>2. ASSUME pc[q] \in {"checking", "writing"}
        PROVE /\ target[q] \in Existing'
              /\ RowView(target[q])' = RowView(target[q])
    <3>1. target[q] \in Existing /\ lock[target[q]] = q
      BY <2>2 DEF TargetHeld
    <3>2. /\ role'[target[q]] = role[target[q]]
          /\ active'[target[q]] = active[target[q]]
      BY <1>2, <3>1, UsersAssumption
    <3> QED
      BY <2>1, <3>1, <3>2 DEF RowView, Existing
  <2>3. pc[q] \in {"checking", "writing"} => target[q] \in Users
    BY DEF TargetHeld, Existing
  <2> QED
    BY <2>1, <2>2, <2>3 DEF TargetHeld
<1> QED
  BY <1>1, <1>2

LEMMA RollbackKeepsGrants ==
  ASSUME GrantsInv, NEW r \in Requests, NEW a \in Answers, Rollback(r, a),
         promoting' \in BOOLEAN
  PROVE GrantsInv'
<1>1. UNCHANGED <<role, active, grants>> /\ Answer(r, a)
  BY DEF Rollback, db
<1>2. TypeOK' /\ TargetHeld'
  BY <1>1, RollbackTypes, AnswerKeepsHold DEF GrantsInv
<1> QED
  BY <1>1, <1>2 DEF GrantsInv, AdminsHoldNoGrants

\* What an update writes: its copy is right about the role unless the caller
\* updates itself, and then the copy says admin.
LEMMA CommitUpdateKeepsGrants ==
  ASSUME GrantsInv, NEW r \in Requests, CommitUpdate(r)
  PROVE /\ TargetHeld' /\ AdminsHoldNoGrants'
        /\ \A u \in Users : role'[u] = "none" => grants'[u] = {}
<1> DEFINE t == target[r]
<1>1. /\ t \in Existing /\ t \in Users /\ lock[t] = r
      /\ view[r] = IF own[r] THEN AuthView ELSE RowView(t)
  BY DEF CommitUpdate, GrantsInv, TargetHeld, Existing
<1>2. Answer(r, "ok") /\ "ok" \in Answers
  BY DEF CommitUpdate, Answers
<1>3. /\ role' = [role EXCEPT ![t] = WrittenRole(r)]
      /\ active' = [active EXCEPT ![t] = WrittenActive(r)]
      /\ grants' = [grants EXCEPT ![t] = WrittenGrants(r)]
      /\ role \in [Users -> Roles \cup {"none"}]
      /\ active \in [Users -> BOOLEAN]
      /\ grants \in [Users -> SUBSET Domains]
  BY DEF CommitUpdate, GrantsInv, TypeOK
<1>4. TargetHeld'
  <2>1. \A u \in Existing : lock[u] \notin {Free, r} =>
          role'[u] = role[u] /\ active'[u] = active[u]
    BY <1>1, <1>3 DEF Existing
  <2> QED
    BY <1>2, <2>1, AnswerKeepsHold DEF GrantsInv
<1>5. WrittenRole(r) = "admin" => WrittenGrants(r) = {}
  <2>1. view[r].role = "admin" \/ view[r].role = role[t]
    BY <1>1 DEF AuthView, RowView
  <2>2. WrittenRole(r) = "admin" =>
          NextRole(r) = "admin" \/ (view[r].role = NextRole(r) /\ role[t] = "admin")
    BY DEF WrittenRole
  <2> QED
    BY <2>1, <2>2 DEF WrittenGrants
<1>6. WrittenRole(r) # "none"
  <2>1. role[t] \in Roles
    BY <1>1, <1>3 DEF Existing
  <2>2. view[r].role \in Roles
    BY <1>1, <2>1 DEF AuthView, RowView, Roles
  <2>3. payload[r].role \in Roles \cup {"keep"}
    BY DEF GrantsInv, TypeOK, Payload
  <2> QED
    BY <2>1, <2>2, <2>3 DEF WrittenRole, NextRole, Roles
<1>7. AdminsHoldNoGrants'
  BY <1>1, <1>3, <1>5 DEF AdminsHoldNoGrants, GrantsInv
<1>8. \A u \in Users : role'[u] = "none" => grants'[u] = {}
  BY <1>1, <1>3, <1>6 DEF GrantsInv
<1> QED
  BY <1>4, <1>7, <1>8

LEMMA CommitCreateKeepsGrants ==
  ASSUME GrantsInv, NEW r \in Requests,
         CommitCreate(r) \/ ScriptCreates(r)
  PROVE /\ TargetHeld' /\ AdminsHoldNoGrants'
        /\ \A u \in Users : role'[u] = "none" => grants'[u] = {}
<1> DEFINE t == target[r]
<1>1. Answer(r, "ok") /\ "ok" \in Answers /\ t \notin Existing
  BY DEF CommitCreate, ScriptCreates, Answers
<1>2. \A u \in Existing : role'[u] = role[u] /\ active'[u] = active[u]
                          /\ grants'[u] = grants[u]
  BY <1>1 DEF CommitCreate, ScriptCreates, GrantsInv, TypeOK, Existing
<1>3. TargetHeld'
  BY <1>1, <1>2, AnswerKeepsHold DEF GrantsInv
<1>4. \A u \in Users \ Existing : u # t =>
        role'[u] = "none" /\ grants'[u] = {}
  BY DEF CommitCreate, ScriptCreates, GrantsInv, TypeOK, Existing
<1>5. t \in Users => /\ role'[t] = "admin" => grants'[t] = {}
                     /\ role'[t] = "none" => grants'[t] = {}
  <2>1. CASE ScriptCreates(r)
    BY <1>1, <2>1 DEF ScriptCreates, GrantsInv, TypeOK, Existing
  <2>2. CASE CommitCreate(r)
    <3>1. newrow[r] \in ValidRow \cup {NoRow}
      BY DEF GrantsInv, TypeOK
    <3>2. newrow[r].role = "admin" => newrow[r].grants = {}
      BY <3>1 DEF ValidRow, NoRow
    <3>3. newrow[r].role = "none" => newrow[r].grants = {}
      <4>1. \A w \in ValidRow : w.role \in Roles
        <5>1. ValidRow \subseteq [role : Roles, active : BOOLEAN, grants : SUBSET Domains]
          BY DEF ValidRow, Row
        <5> QED
          BY <5>1
      <4> QED
        BY <3>1, <4>1 DEF NoRow, Roles
    <3> QED
      BY <2>2, <3>2, <3>3 DEF CommitCreate, GrantsInv, TypeOK
  <2> QED
    BY <2>1, <2>2
<1>6. AdminsHoldNoGrants'
  BY <1>2, <1>4, <1>5 DEF AdminsHoldNoGrants, GrantsInv, Existing
<1>7. \A u \in Users : role'[u] = "none" => grants'[u] = {}
  BY <1>2, <1>4, <1>5 DEF GrantsInv, Existing
<1> QED
  BY <1>3, <1>6, <1>7

LEMMA ScriptPromotesKeepsGrants ==
  ASSUME GrantsInv, NEW r \in Requests, ScriptPromotes(r)
  PROVE /\ TargetHeld' /\ AdminsHoldNoGrants'
        /\ \A u \in Users : role'[u] = "none" => grants'[u] = {}
<1> DEFINE t == target[r]
<1>1. Answer(r, "ok") /\ "ok" \in Answers /\ lock[t] \in {Free, r}
  BY DEF ScriptPromotes, Grantable, Answers
<1>2. /\ \A u \in Users : u # t => /\ role'[u] = role[u]
                                  /\ active'[u] = active[u]
                                  /\ grants'[u] = grants[u]
      /\ t \in Users => grants'[t] = {}
  BY DEF ScriptPromotes, GrantsInv, TypeOK
<1>3. TargetHeld'
  BY <1>1, <1>2, AnswerKeepsHold DEF GrantsInv, Existing
<1> QED
  BY <1>2, <1>3 DEF GrantsInv, AdminsHoldNoGrants

LEMMA StepKeepsGrants == GrantsInv /\ [Next]_vars => GrantsInv'
<1> SUFFICES ASSUME GrantsInv, [Next]_vars PROVE GrantsInv'
  OBVIOUS
<1> USE DEF GrantsInv
<1>1. TypeOK'
  BY StepTypes
<1>2. CASE UNCHANGED vars
  BY <1>1, <1>2 DEF vars, TargetHeld, AdminsHoldNoGrants, Existing, RowView
<1>3. ASSUME UNCHANGED db, TargetHeld' PROVE GrantsInv'
  BY <1>1, <1>3 DEF db, AdminsHoldNoGrants
<1>4. ASSUME NEW r \in Requests, ArriveUpdate(r) PROVE TargetHeld'
  <2>1. /\ \A q \in Requests : q # r =>
             pc'[q] = pc[q] /\ view'[q] = view[q] /\ own'[q] = own[q]
             /\ target'[q] = target[q]
        /\ pc'[r] = "begin"
        /\ own'[r] => view'[r] = AuthView
        /\ UNCHANGED <<role, active, lock>>
    BY <1>4 DEF ArriveUpdate, TypeOK
  <2> QED
    BY <2>1 DEF TargetHeld, Existing, RowView
<1>5. ASSUME NEW r \in Requests, SnapshotAdmins(r) PROVE TargetHeld'
  BY <1>5 DEF TargetHeld, TypeOK, SnapshotAdmins, Existing, RowView
<1>6. ASSUME NEW r \in Requests, LockAdmin(r) PROVE TargetHeld'
  BY <1>6, UsersAssumption
    DEF TargetHeld, TypeOK, LockAdmin, Grantable, Existing, RowView
<1>7. ASSUME NEW r \in Requests, LockTarget(r) PROVE TargetHeld'
  <2>1. \A q \in Requests, w \in Users : q # r /\ lock[w] = q => lock'[w] = q
    BY <1>7, UsersAssumption DEF LockTarget, Grantable, TypeOK, Existing
  <2>2. /\ \A q \in Requests : q # r => pc'[q] = pc[q] /\ view'[q] = view[q]
        /\ pc[r] = "locking" /\ pc'[r] = "checking"
        /\ target[r] \in Existing /\ lock'[target[r]] = r
        /\ view'[r] = IF own[r] THEN view[r] ELSE RowView(target[r])
        /\ UNCHANGED <<role, active, target, own>>
    BY <1>7 DEF LockTarget, TypeOK, Existing
  <2> QED
    BY <2>1, <2>2 DEF TargetHeld, Existing, RowView
<1>8. ASSUME NEW r \in Requests, AcceptBody(r) PROVE TargetHeld'
  BY <1>8 DEF TargetHeld, TypeOK, AcceptBody, Existing, RowView
<1>9. ASSUME NEW r \in Requests, ArriveCreate(r) PROVE TargetHeld'
  BY <1>9 DEF TargetHeld, TypeOK, ArriveCreate, Existing, RowView
<1>10. ASSUME NEW r \in Requests, ScriptReads(r) PROVE TargetHeld'
  BY <1>10 DEF TargetHeld, TypeOK, ScriptReads, Existing, RowView
<1>11. ASSUME NEW r \in Requests,
              \/ CommitUpdate(r) \/ CommitCreate(r)
              \/ ScriptPromotes(r) \/ ScriptCreates(r)
       PROVE GrantsInv'
  BY <1>1, <1>11, CommitUpdateKeepsGrants, CommitCreateKeepsGrants,
     ScriptPromotesKeepsGrants
<1>12. ASSUME NEW r \in Requests,
              \/ TargetMissing(r) \/ RefuseLastAdmin(r) \/ RefuseBody(r)
              \/ UpdateFails(r) \/ CreateFails(r) \/ ScriptFails(r)
              \/ DeadlockVictim(r)
       PROVE GrantsInv'
  <2>1. \E a \in Answers : Rollback(r, a)
    BY <1>12 DEF TargetMissing, RefuseLastAdmin, RefuseBody, UpdateFails,
                 CreateFails, ScriptFails, DeadlockVictim, Answers
  <2> QED
    BY <1>1, <2>1, RollbackKeepsGrants DEF TypeOK
<1>13. ASSUME NEW r \in Requests,
              \/ ArriveUpdate(r) \/ SnapshotAdmins(r) \/ LockAdmin(r)
              \/ LockTarget(r) \/ AcceptBody(r) \/ ArriveCreate(r)
              \/ ScriptReads(r)
       PROVE UNCHANGED db
  BY <1>13 DEF db, ArriveUpdate, SnapshotAdmins, LockAdmin, LockTarget,
               AcceptBody, ArriveCreate, ScriptReads
<1> QED
  BY <1>2, <1>3, <1>4, <1>5, <1>6, <1>7, <1>8, <1>9, <1>10, <1>11, <1>12, <1>13
    DEF Next, Arrive, Step

LEMMA InitGrants == Init => GrantsInv
<1> SUFFICES ASSUME Init PROVE GrantsInv
  OBVIOUS
<1>1. PICK b \in Boots : /\ role = [u \in Users |-> b[u].role]
                         /\ grants = [u \in Users |-> b[u].grants]
  BY DEF Init
<1>2. b \in [Users -> ValidRow \cup {NoRow}]
  BY InputsAssumption
<1>3. \A w \in ValidRow : w.role \in Roles
  <2>1. ValidRow \subseteq [role : Roles, active : BOOLEAN, grants : SUBSET Domains]
    BY DEF ValidRow, Row
  <2> QED
    BY <2>1
<1>4. \A u \in Users : b[u].role \in {"admin", "none"} => b[u].grants = {}
  BY <1>2, <1>3 DEF ValidRow, NoRow, Roles
<1>5. AdminsHoldNoGrants /\ \A u \in Users : role[u] = "none" => grants[u] = {}
  BY <1>1, <1>4 DEF AdminsHoldNoGrants
<1>6. TargetHeld
  BY DEF Init, TargetHeld
<1> QED
  BY <1>5, <1>6, InitTypes DEF GrantsInv

\* No administrator ever holds grants, however promotions, demotions, grants
\* and runs of create_admin.py interleave.
THEOREM AdminsNeverHoldGrants == Spec => []AdminsHoldNoGrants
<1>1. GrantsInv => AdminsHoldNoGrants
  BY DEF GrantsInv
<1> QED
  BY <1>1, InitGrants, StepKeepsGrants, PTL DEF Spec

\* What an update of another account answers is what it committed.
THEOREM AnswersAreTrue == Spec => AnswerIsCommittedRow
<1>1. ASSUME GrantsInv, [Next]_vars
      PROVE [\A r \in Requests :
               pc[r] = "writing" /\ pc'[r] = "ok" /\ ~own[r] =>
                 /\ role'[target[r]] = SaidRole(r)
                 /\ active'[target[r]] = SaidActive(r)]_vars
  <2> SUFFICES ASSUME NEW r \in Requests,
                      pc[r] = "writing", pc'[r] = "ok", ~own[r], Next
               PROVE /\ role'[target[r]] = SaidRole(r)
                     /\ active'[target[r]] = SaidActive(r)
    BY <1>1
  <2> USE DEF GrantsInv
  <2>1. CommitUpdate(r)
    <3>1. PICK q \in Requests : Arrive(q) \/ Step(q) \/ DeadlockVictim(q)
      BY DEF Next
    <3>2. \A p \in Requests : p # q => pc'[p] = pc[p]
      BY <1>1, <3>1 DEF Arrive, Step, ArriveUpdate, SnapshotAdmins, LockAdmin,
           LockTarget, TargetMissing, RefuseLastAdmin, RefuseBody, AcceptBody,
           CommitUpdate, UpdateFails, CommitCreate, CreateFails, ScriptReads,
           ScriptPromotes, ScriptCreates, ScriptFails, DeadlockVictim,
           ArriveCreate, Rollback, Answer, TypeOK
    <3>3. q = r
      BY <3>2
    <3>4. CommitUpdate(r) \/ UpdateFails(r)
      BY <3>1, <3>3 DEF Arrive, Step, ArriveUpdate, SnapshotAdmins, LockAdmin,
           LockTarget, TargetMissing, RefuseLastAdmin, RefuseBody, AcceptBody,
           CommitCreate, CreateFails, ScriptReads, ScriptPromotes,
           ScriptCreates, ScriptFails, DeadlockVictim, ArriveCreate
    <3>5. ~UpdateFails(r)
      BY <1>1 DEF UpdateFails, Rollback, Answer, TypeOK
    <3> QED
      BY <3>4, <3>5
  <2>2. /\ target[r] \in Users
        /\ view[r] = RowView(target[r])
    BY <1>1 DEF TargetHeld, Existing
  <2> QED
    BY <1>1, <2>1, <2>2
      DEF CommitUpdate, TypeOK, WrittenRole, WrittenActive, SaidRole, SaidActive,
          RowView
<1> QED
  BY <1>1, InitGrants, StepKeepsGrants, PTL DEF Spec, AnswerIsCommittedRow

---------------------------------------------------------------------------
(* Deadlocks.                                                              *)

\* While a request locks the administrators of its snapshot it holds exactly
\* those it has come to, in their order; before and after its update, nothing.
HoldInv(r) ==
  /\ pc[r] = "locking" =>
       /\ todo[r] \subseteq snap[r]
       /\ \A u \in Users : lock[u] = r <=> u \in snap[r] \ todo[r]
       /\ \A u \in snap[r] \ todo[r], w \in todo[r] : u < w
  /\ pc[r] \notin {"locking", "checking", "writing"} => \A u \in Users : lock[u] # r

LocksInv == TypeOK /\ \A r \in Requests : HoldInv(r)

LEMMA InitLocks == Init => LocksInv
<1> SUFFICES ASSUME Init PROVE LocksInv
  OBVIOUS
<1>1. \A r \in Requests : HoldInv(r)
  BY UsersAssumption DEF Init, HoldInv
<1> QED
  BY <1>1, InitTypes DEF LocksInv

\* A step of r takes no lock from anybody else.
LEMMA OthersHold ==
  ASSUME LocksInv, NEW r \in Requests, NEW q \in Requests, q # r,
         pc'[q] = pc[q], snap'[q] = snap[q], todo'[q] = todo[q],
         \A u \in Users : lock'[u] = q <=> lock[u] = q
  PROVE HoldInv(q)'
BY DEF LocksInv, HoldInv

LEMMA AnswerKeepsLocks ==
  ASSUME LocksInv, NEW r \in Requests, NEW a \in Answers, Answer(r, a)
  PROVE \A q \in Requests : HoldInv(q)'
<1>1. HoldInv(r)'
  <2>1. pc'[r] = a /\ \A u \in Users : lock'[u] # r
    BY UsersAssumption DEF LocksInv, TypeOK, Answer, Released
  <2> QED
    BY <2>1 DEF HoldInv, Answers
<1>2. ASSUME NEW q \in Requests, q # r PROVE HoldInv(q)'
  <2>1. /\ pc'[q] = pc[q] /\ snap'[q] = snap[q] /\ todo'[q] = todo[q]
        /\ \A u \in Users : lock'[u] = q <=> lock[u] = q
    BY <1>2, UsersAssumption DEF LocksInv, TypeOK, Answer, Released
  <2> QED
    BY <1>2, <2>1, OthersHold
<1> QED
  BY <1>1, <1>2

LEMMA StepKeepsLocks == LocksInv /\ [Next]_vars => LocksInv'
<1> SUFFICES ASSUME LocksInv, [Next]_vars PROVE \A q \in Requests : HoldInv(q)'
  BY StepTypes DEF LocksInv
<1> USE DEF LocksInv
<1>1. CASE UNCHANGED vars
  BY <1>1 DEF vars, HoldInv
<1>2. ASSUME NEW r \in Requests, Arrive(r) PROVE \A q \in Requests : HoldInv(q)'
  <2>1. /\ pc[r] = "idle" /\ pc'[r] \in {"begin", "creating", "scripting"}
        /\ UNCHANGED <<lock, snap, todo>>
        /\ \A q \in Requests : q # r => pc'[q] = pc[q]
    BY <1>2 DEF Arrive, ArriveUpdate, ArriveCreate, ScriptReads, TypeOK
  <2> QED
    BY <2>1 DEF HoldInv
<1>3. ASSUME NEW r \in Requests, SnapshotAdmins(r) PROVE \A q \in Requests : HoldInv(q)'
  <2>1. /\ pc[r] = "begin" /\ pc'[r] = "locking" /\ snap'[r] = todo'[r] /\ lock' = lock
        /\ \A q \in Requests : q # r =>
             pc'[q] = pc[q] /\ snap'[q] = snap[q] /\ todo'[q] = todo[q]
    BY <1>3 DEF SnapshotAdmins, TypeOK
  <2> QED
    BY <2>1 DEF HoldInv
<1>4. ASSUME NEW r \in Requests, LockAdmin(r) PROVE \A q \in Requests : HoldInv(q)'
  <2>1. PICK u \in todo[r] :
          /\ \A w \in todo[r] : u <= w
          /\ Grantable(r, u)
          /\ lock' = [lock EXCEPT ![u] = r]
          /\ todo' = [todo EXCEPT ![r] = @ \ {u}]
    BY <1>4 DEF LockAdmin
  <2>2. pc[r] = "locking" /\ UNCHANGED <<pc, snap>>
    BY <1>4 DEF LockAdmin
  <2>3. u \in Users /\ todo'[r] = todo[r] \ {u} /\ lock'[u] = r
    BY <2>1 DEF TypeOK
  <2>4. HoldInv(r)'
    <3>1. \A w \in todo'[r] : u < w
      <4>1. todo[r] \subseteq Nat
        BY UsersAssumption DEF TypeOK
      <4> QED
        BY <2>1, <2>3, <4>1
    <3>2. \A w \in Users : lock'[w] = r <=> w \in snap[r] \ todo'[r]
      <4>1. \A w \in Users : lock'[w] = r <=> lock[w] = r \/ w = u
        BY <2>1, <2>3 DEF TypeOK
      <4>2. \A w \in Users : lock[w] = r <=> w \in snap[r] \ todo[r]
        BY <2>2 DEF HoldInv
      <4>3. u \in snap[r]
        BY <2>1, <2>2 DEF HoldInv
      <4> QED
        BY <2>3, <4>1, <4>2, <4>3
    <3>3. \A v \in snap[r] \ todo'[r], w \in todo'[r] : v < w
      BY <2>2, <2>3, <3>1 DEF HoldInv
    <3>4. todo'[r] \subseteq snap[r]
      BY <2>2, <2>3 DEF HoldInv
    <3> QED
      BY <2>2, <3>2, <3>3, <3>4 DEF HoldInv
  <2>5. ASSUME NEW q \in Requests, q # r PROVE HoldInv(q)'
    <3>1. /\ todo'[q] = todo[q]
          /\ \A w \in Users : lock'[w] = q <=> lock[w] = q
      BY <2>1, <2>3, <2>5, UsersAssumption DEF TypeOK, Grantable
    <3> QED
      BY <2>2, <2>5, <3>1, OthersHold
  <2> QED
    BY <2>4, <2>5
<1>5. ASSUME NEW r \in Requests, LockTarget(r) PROVE \A q \in Requests : HoldInv(q)'
  <2>1. /\ target[r] \in Users /\ Grantable(r, target[r])
        /\ lock' = [lock EXCEPT ![target[r]] = r]
        /\ pc' = [pc EXCEPT ![r] = "checking"] /\ UNCHANGED <<snap, todo>>
    BY <1>5 DEF LockTarget, Existing
  <2>2. HoldInv(r)'
    BY <2>1 DEF HoldInv, TypeOK
  <2>3. ASSUME NEW q \in Requests, q # r PROVE HoldInv(q)'
    <3>1. /\ pc'[q] = pc[q]
          /\ \A w \in Users : lock'[w] = q <=> lock[w] = q
      BY <2>1, <2>3, UsersAssumption DEF TypeOK, Grantable
    <3> QED
      BY <2>1, <2>3, <3>1, OthersHold
  <2> QED
    BY <2>2, <2>3
<1>6. ASSUME NEW r \in Requests, AcceptBody(r) PROVE \A q \in Requests : HoldInv(q)'
  <2>1. /\ pc[r] = "checking" /\ pc' = [pc EXCEPT ![r] = "writing"]
        /\ UNCHANGED <<lock, snap, todo>>
    BY <1>6 DEF AcceptBody
  <2> QED
    BY <2>1 DEF HoldInv, TypeOK
<1>7. ASSUME NEW r \in Requests,
             \/ TargetMissing(r) \/ RefuseLastAdmin(r) \/ RefuseBody(r)
             \/ CommitUpdate(r) \/ UpdateFails(r) \/ CommitCreate(r) \/ CreateFails(r)
             \/ ScriptPromotes(r) \/ ScriptCreates(r) \/ ScriptFails(r)
             \/ DeadlockVictim(r)
      PROVE \A q \in Requests : HoldInv(q)'
  <2>1. \E a \in Answers : Answer(r, a)
    BY <1>7 DEF TargetMissing, RefuseLastAdmin, RefuseBody, CommitUpdate, UpdateFails,
                CommitCreate, CreateFails, ScriptPromotes, ScriptCreates, ScriptFails,
                DeadlockVictim, Rollback, Answers
  <2> QED
    BY <2>1, AnswerKeepsLocks
<1> QED
  BY <1>1, <1>2, <1>3, <1>4, <1>5, <1>6, <1>7 DEF Next, Step

\* Of two requests that lock the same set, only one can hold anything of it:
\* who holds a row holds every row before it.
LEMMA SameSetOneHolder ==
  ASSUME LocksInv, NEW r \in Requests, NEW q \in Requests,
         pc[r] = "locking", pc[q] = "locking", snap[r] = snap[q],
         NEW u \in Users, lock[u] = r, NEW w \in Users, lock[w] = q, u <= w
  PROVE r = q
<1>1. u \in snap[r] \ todo[r] /\ w \in snap[q] \ todo[q]
  BY DEF LocksInv, HoldInv
<1>2. u \notin todo[q]
  <2>1. u \in todo[q] => w < u
    BY <1>1 DEF LocksInv, HoldInv
  <2>2. u \in Nat /\ w \in Nat
    BY UsersAssumption
  <2> QED
    BY <2>1, <2>2
<1>3. lock[u] = q
  BY <1>1, <1>2 DEF LocksInv, HoldInv
<1> QED
  BY <1>3

LEMMA InvCycles == LocksInv => CyclesNeedNewSets
<1> SUFFICES ASSUME LocksInv, NEW S \in SUBSET Requests, S # {}, WaitCycle(S),
                    \A r, q \in S : snap[r] = snap[q]
             PROVE FALSE
  BY DEF CyclesNeedNewSets
<1>1. ASSUME NEW r \in S
      PROVE pc[r] = "locking" /\ \E u \in Users : lock[u] = r
  <2>1. PICK q \in S : Blocks(q, r)
    BY DEF WaitCycle
  <2>2. pc[r] = "locking"
    BY <2>1 DEF Blocks, Wanted
  <2>3. PICK p \in S : Blocks(r, p)
    BY DEF WaitCycle
  <2>4. PICK u \in Wanted(p) : lock[u] = r
    BY <2>3 DEF Blocks
  <2>5. Wanted(p) \subseteq Users
    BY DEF Wanted, Existing, LocksInv, TypeOK
  <2> QED
    BY <2>2, <2>4, <2>5
<1>2. ASSUME NEW r \in S, NEW q \in S PROVE r = q
  <2>1. PICK u \in Users : lock[u] = r
    BY <1>1
  <2>2. PICK w \in Users : lock[w] = q
    BY <1>1
  <2>3. u <= w \/ w <= u
    BY UsersAssumption
  <2>4. /\ r \in Requests /\ q \in Requests /\ pc[r] = "locking" /\ pc[q] = "locking"
        /\ snap[r] = snap[q]
    BY <1>1
  <2>5. CASE u <= w
    BY <2>1, <2>2, <2>4, <2>5, SameSetOneHolder
  <2>6. CASE w <= u
    BY <2>1, <2>2, <2>4, <2>6, SameSetOneHolder
  <2> QED
    BY <2>3, <2>5, <2>6
<1>3. PICK r \in S : TRUE
  OBVIOUS
<1>4. PICK q \in S : Blocks(q, r)
  BY DEF WaitCycle
<1>5. q # r
  BY <1>4 DEF Blocks
<1> QED
  BY <1>2, <1>5

\* A deadlock takes locking queries of different snapshots: requests that have
\* found the same administrators lock them in one order, and what comes after is
\* not locked until all of them are.
THEOREM OneSetCannotDeadlock == Spec => []CyclesNeedNewSets
BY InitLocks, StepKeepsLocks, InvCycles, PTL DEF Spec

---------------------------------------------------------------------------
(* Sessions: who is let in. Neither specification says anything of the     *)
(* variables of the other.                                                 *)

\* A token lasts Lifetime from when its holder showed the password, which is past.
Shown(token) ==
  token # NoToken => /\ token.proved \in Nat /\ token.proved <= now
                     /\ token.exp = token.proved + Lifetime

TokensShown == Shown(bearer) /\ Shown(cookie) /\ Shown(call.token)

\* What a call knows of its token: before it is decoded, the limiter has counted
\* its owner if it was good then; a good token stays one only backwards in time.
CallInv ==
  /\ stage.call = "counted" =>
       /\ call.at <= now
       /\ call.token # NoToken /\ call.token.exp > call.at
            => call.counted = call.token.sub
  /\ stage.call \in {"decoded", "served"} =>
       /\ call.token # NoToken
       /\ call.token.exp > call.at
       /\ call.counted = call.token.sub
  /\ stage.call \in {"counted", "decoded"} /\ call.token # NoToken
       => (account[call.token.sub].active => call.alive)
  /\ stage.call = "served" => call.served = call.token.sub /\ call.alive

LoginInv ==
  stage.login = "verifying" => login \in [sub : Accounts, password : Passwords, row : AccountRow]

SessionsInv == SessionsTypeOK /\ TokensShown /\ LoginInv /\ CallInv

---------------------------------------------------------------------------
LEMMA InitSessionsInv == ASSUME SessionsInit  PROVE SessionsInv
  BY SessionAssumption DEF SessionsInit, SessionsInv, SessionsTypeOK, TokensShown, Shown,
       LoginInv, CallInv, NoLogin, NoCall, Times, AccountRow, Token

LEMMA ClockKeeps == ASSUME SessionsInv, Tick  PROVE SessionsInv'
  BY SessionAssumption DEF Tick, SessionsInv, SessionsTypeOK, TokensShown, Shown,
       LoginInv, CallInv, NoLogin, NoCall, Times, AccountRow, Token

LEMMA AccountsKeep ==
  ASSUME SessionsInv, NEW user \in Accounts, ChangeAccount(user)
  PROVE  SessionsInv'
<1> USE SessionAssumption DEF SessionsInv
<1>1. PICK row \in AccountRow : account' = [account EXCEPT ![user] = row]
  BY DEF ChangeAccount
<1>2. account' \in [Accounts -> AccountRow]
  BY <1>1 DEF SessionsTypeOK
<1>3. /\ call'.token = call.token /\ call'.at = call.at
      /\ call'.counted = call.counted /\ call'.served = call.served
      /\ call'.alive = (call.alive \/ (call.token # NoToken /\ account'[call.token.sub].active))
  BY DEF ChangeAccount, SessionsTypeOK
<1>4. SessionsTypeOK'
  BY <1>2, <1>3 DEF ChangeAccount, SessionsTypeOK, AccountRow, Token
<1>5. TokensShown'
  BY <1>3 DEF ChangeAccount, TokensShown, Shown
<1>6. LoginInv' /\ CallInv'
  BY <1>3 DEF ChangeAccount, LoginInv, CallInv, SessionsTypeOK
<1> QED
  BY <1>4, <1>5, <1>6

\* Only who gave the password of an active account gets a token.
LEMMA LoginsKeep ==
  ASSUME SessionsInv,
         \/ \E user \in Accounts, password \in Passwords : LogIn(user, password)
         \/ EndLogin \/ LogOut \/ Forget
  PROVE  SessionsInv'
<1> USE SessionAssumption DEF SessionsInv
<1>1. ASSUME NEW user \in Accounts, NEW password \in Passwords, LogIn(user, password)
      PROVE  SessionsInv'
  BY <1>1 DEF LogIn, Goto, SessionsTypeOK, TokensShown, Shown, LoginInv,
       CallInv, NoLogin
<1>2. CASE EndLogin
  <2>1. CASE Accepts
    <3>1. login.row \in AccountRow /\ login.sub \in Accounts
      BY <1>2 DEF EndLogin, LoginInv
    <3>2. Issued \in Token /\ Shown(Issued)
      BY <1>2, <2>1, <3>1 DEF EndLogin, LoginInv, Issued, Accepts,
           Shown, Token, SessionsTypeOK, Times, AccountRow
    <3>3. SessionsTypeOK'
      BY <1>2, <2>1, <3>2 DEF EndLogin, Goto, SessionsTypeOK, NoLogin
    <3>4. TokensShown' /\ LoginInv' /\ CallInv'
      BY <1>2, <2>1, <3>2 DEF EndLogin, Goto, SessionsTypeOK, TokensShown,
           Shown, LoginInv, CallInv
    <3> QED
      BY <3>3, <3>4
  <2>2. CASE ~Accepts
    BY <1>2, <2>2 DEF EndLogin, Goto, SessionsTypeOK, TokensShown, Shown,
         LoginInv, CallInv, NoLogin
  <2> QED
    BY <2>1, <2>2
<1>3. CASE LogOut \/ Forget
  BY <1>3 DEF LogOut, Forget, SessionsTypeOK, TokensShown, Shown, LoginInv,
       CallInv
<1> QED
  BY <1>1, <1>2, <1>3

\* A call that is refused, or answered, leaves nothing.
LEMMA EndOfCall ==
  ASSUME SessionsInv, call' = NoCall, stage' = [stage EXCEPT !.call = "idle"],
         UNCHANGED <<now, account, bearer, cookie, login>>
  PROVE  SessionsInv'
<1>1. SessionsTypeOK'
  BY SessionAssumption DEF SessionsInv, SessionsTypeOK, NoCall, Times
<1>2. TokensShown' /\ LoginInv' /\ CallInv'
  BY DEF SessionsInv, SessionsTypeOK, TokensShown, Shown, LoginInv, CallInv, NoCall
<1> QED
  BY <1>1, <1>2 DEF SessionsInv

LEMMA CallsKeep ==
  ASSUME SessionsInv, Call \/ Decode \/ ReadUser \/ Answered
  PROVE  SessionsInv'
<1> USE SessionAssumption DEF SessionsInv, Goto
<1>1. CASE Call
  <2>1. Extracted \in Token \cup {NoToken} /\ Shown(Extracted)
    BY DEF Extracted, SessionsTypeOK, TokensShown
  <2>2. Extracted # NoToken => Extracted.sub \in Accounts /\ account[Extracted.sub].active \in BOOLEAN
    BY <2>1 DEF Token, SessionsTypeOK, AccountRow
  <2>3. SessionsTypeOK'
    BY <1>1, <2>1, <2>2 DEF Call, SessionsTypeOK, Identified, Decodes,
         Times
  <2>4. TokensShown'
    BY <1>1, <2>1 DEF Call, TokensShown, Shown
  <2>5. LoginInv' /\ CallInv'
    BY <1>1, <2>1, <2>2 DEF Call, LoginInv, CallInv, Identified,
         Decodes, SessionsTypeOK, Times, Token
  <2> QED
    BY <2>3, <2>4, <2>5
<1>2. CASE Decode
  <2>1. CASE Decodes(call.token)
    <3>1. /\ call' = [call EXCEPT !.at = now]
          /\ call.token \in Token /\ call.token # NoToken /\ call.token.exp > now
      BY <1>2, <2>1 DEF Decode, Decodes, SessionsTypeOK
    <3>2. call.at <= now /\ call.at \in Nat /\ now \in Nat /\ call.token.exp \in Nat
      BY <1>2, <3>1 DEF Decode, CallInv, SessionsTypeOK, Times, Token
    <3>3. call.counted = call.token.sub
      BY <1>2, <3>1, <3>2 DEF Decode, CallInv
    <3> QED
      BY <1>2, <2>1, <3>1, <3>3 DEF Decode, Decodes, SessionsTypeOK,
           TokensShown, Shown, LoginInv, CallInv
  <2>2. CASE ~Decodes(call.token)
    BY <1>2, <2>2, EndOfCall DEF Decode
  <2> QED
    BY <2>1, <2>2
<1>3. CASE ReadUser
  <2>1. CASE Admits
    <3>1. call.token \in Token /\ call.alive
      BY <1>3, <2>1 DEF ReadUser, Admits, CallInv, SessionsTypeOK
    <3> QED
      BY <1>3, <2>1, <3>1 DEF ReadUser, SessionsTypeOK, TokensShown, Shown, LoginInv,
           CallInv, Token
  <2>2. CASE ~Admits
    BY <1>3, <2>2, EndOfCall DEF ReadUser
  <2> QED
    BY <2>1, <2>2
<1>4. CASE Answered
  BY <1>4, EndOfCall DEF Answered
<1> QED
  BY <1>1, <1>2, <1>3, <1>4

LEMMA SessionsInvariant == SessionsSpec => []SessionsInv
<1>1. SessionsInv /\ [SessionsNext]_sessionsVars => SessionsInv'
  <2> SUFFICES ASSUME SessionsInv, [SessionsNext]_sessionsVars PROVE SessionsInv'
    OBVIOUS
  <2>1. CASE UNCHANGED sessionsVars
    BY <2>1 DEF sessionsVars, SessionsInv, SessionsTypeOK, TokensShown, Shown, LoginInv, CallInv
  <2>2. CASE SessionsNext
    BY <2>2, ClockKeeps, AccountsKeep, LoginsKeep, CallsKeep DEF SessionsNext
  <2> QED
    BY <2>1, <2>2
<1> QED
  BY <1>1, InitSessionsInv, PTL DEF SessionsSpec

---------------------------------------------------------------------------
\* The fields keep their types, and no token, however many logins and calls come
\* before, has more than Lifetime left (security.py:21-34).
THEOREM SessionTypes == SessionsSpec => [](SessionsTypeOK /\ TokensEnd)
<1>1. SessionsInv => SessionsTypeOK /\ TokensEnd
  BY SessionAssumption DEF SessionsInv, SessionsTypeOK, Times, TokensShown, Shown, TokensEnd
<1> QED
  BY <1>1, SessionsInvariant, PTL

\* The rate limit counts the account that is served, although it decodes the token
\* earlier, for any clock (dependencies.py:33-70).
THEOREM TheRightOneIsCounted == SessionsSpec => []CountedAsServed
<1>1. SessionsInv => CountedAsServed
  BY DEF SessionsInv, CallInv, CountedAsServed
<1> QED
  BY <1>1, SessionsInvariant, PTL

\* A client is served less than Lifetime after it gave the password of an active
\* account, whatever became of the account, and what it holds ends (auth.py:51-88).
THEOREM NobodyWithoutPassword == SessionsSpec => []LetInByPassword
<1>1. SessionsInv => ServedByPassword
  BY SessionAssumption DEF SessionsInv, SessionsTypeOK, Times, TokensShown, Shown,
       CallInv, ServedByPassword
<1>2. SessionsTypeOK /\ TokensEnd /\ ServedByPassword => LetInByPassword
  BY DEF LetInByPassword
<1> QED
  BY <1>1, <1>2, SessionTypes, SessionsInvariant, PTL

\* No call of an account is served that was inactive all through it
\* (dependencies.py:67-70).
THEOREM InactiveStaysOut == SessionsSpec => []InactiveIsOut
<1>1. SessionsInv => InactiveIsOut
  BY DEF SessionsInv, CallInv, InactiveIsOut
<1> QED
  BY <1>1, SessionsInvariant, PTL

===========================================================================
