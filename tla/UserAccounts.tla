--------------------------- MODULE UserAccounts ---------------------------
(*************************************************************************)
(* Account administration: POST and PUT /api/users (app/api/users.py)    *)
(* and scripts/create_admin.py, run concurrently against one PostgreSQL  *)
(* database in READ COMMITTED.                                           *)
(*                                                                       *)
(* An account is identified with its username, which the table keeps     *)
(* unique; renaming is left out.  A request is one HTTP call (or one run *)
(* of the script) and moves through the SQL statements of its handler.   *)
(* SELECT ... FOR UPDATE is modelled as PostgreSQL runs it: the rows are *)
(* those that match in the statement's snapshot, they are locked one by  *)
(* one in ORDER BY order, and a row that no longer matches when its lock *)
(* is granted stays locked all the same.                                 *)
(*************************************************************************)
EXTENDS Integers, FiniteSets

CONSTANTS
  Users,        \* account identifiers, ordered as the UUIDs of ORDER BY User.id
  Requests,     \* the HTTP calls and script runs of one behaviour
  Domains,      \* domains a subaccount can be granted
  Payloads,     \* bodies PUT /api/users/{id} may carry
  NewRows,      \* accounts POST /api/users may be asked to create
  Boots,        \* databases the service may start from
  ScriptRuns,   \* whether scripts/create_admin.py is run meanwhile
  NoUser,       \* a UUID that belongs to no account
  Free          \* a row lock nobody holds

Roles == {"admin", "subaccount"}
Row == [role : Roles, active : BOOLEAN, grants : SUBSET Domains]
NoRow == [role |-> "none", active |-> FALSE, grants |-> {}]

\* UserUpdate: "keep" stands for a field that is absent from the body.
Payload ==
  {p \in [role : Roles \cup {"keep"}, active : {"keep", "yes", "no"},
          regrant : BOOLEAN, grants : SUBSET Domains] :
     /\ ~p.regrant => p.grants = {}
     /\ p.role = "admin" => p.grants = {}}

\* ck_users_role, and no writer leaves an administrator with grants.
ValidRow == {w \in Row : w.role = "admin" => w.grants = {}}

ASSUME UsersAssumption ==
  /\ Users \subseteq Nat
  /\ NoUser \notin Users
  /\ Free \notin Requests

ASSUME InputsAssumption ==
  /\ Payloads \subseteq Payload
  /\ NewRows \subseteq ValidRow
  /\ Boots \subseteq [Users -> ValidRow \cup {NoRow}]
  /\ \A b \in Boots : \E u \in Users : b[u].role = "admin" /\ b[u].active
  /\ ScriptRuns \in BOOLEAN

VARIABLES
  role,     \* users.role of every committed row; "none": there is no row
  active,   \* users.is_active
  grants,   \* user_domain_access, as the domains granted
  lock,     \* holder of the row lock of a user row
  pc,       \* where a request is, or how it was answered
  target,   \* the account a request is about
  payload,  \* the body of an update
  newrow,   \* the body of a create
  own,      \* the account updates itself: its row was loaded to authenticate
  view,     \* role and is_active of the session's copy of the target row
  sees,     \* rows visible in the snapshot of the locking query
  snap,     \* the active administrators among them
  todo,     \* those whose lock is still to be taken
  promoting \* history: a promotion or activation has been asked for

db == <<role, active, grants>>
vars == <<role, active, grants, lock, pc, target, payload, newrow, own, view,
          sees, snap, todo, promoting>>

Answers == {"ok", "not_found", "conflict", "invalid", "error"}
Steps == {"idle", "begin", "locking", "checking", "writing", "creating",
          "scripting"} \cup Answers
View == [role : Roles \cup {"none"}, active : BOOLEAN]

NoPayload == [role |-> "keep", active |-> "keep", regrant |-> FALSE,
              grants |-> {}]

Existing == {u \in Users : role[u] # "none"}
ActiveAdmins == {u \in Users : role[u] = "admin" /\ active[u]}
RowView(u) == [role |-> role[u], active |-> active[u]]
\* What get_current_user and require_admin saw of the account that calls.
AuthView == [role |-> "admin", active |-> TRUE]
NoView == [role |-> "none", active |-> FALSE]

Grantable(r, u) == lock[u] \in {Free, r}
\* Faulty variant: a rolled back or committed transaction keeps its locks.
ReleasedNothing(r) == lock

Released(r) == [u \in Users |-> IF lock[u] = r THEN Free ELSE lock[u]]

TypeOK ==
  /\ role \in [Users -> Roles \cup {"none"}]
  /\ active \in [Users -> BOOLEAN]
  /\ grants \in [Users -> SUBSET Domains]
  /\ lock \in [Users -> Requests \cup {Free}]
  /\ pc \in [Requests -> Steps]
  /\ target \in [Requests -> Users \cup {NoUser}]
  /\ payload \in [Requests -> Payload]
  /\ newrow \in [Requests -> ValidRow \cup {NoRow}]
  /\ own \in [Requests -> BOOLEAN]
  /\ view \in [Requests -> View]
  /\ sees \in [Requests -> SUBSET Users]
  /\ snap \in [Requests -> SUBSET Users]
  /\ todo \in [Requests -> SUBSET Users]
  /\ promoting \in BOOLEAN

Init ==
  /\ \E b \in Boots :
       /\ role = [u \in Users |-> b[u].role]
       /\ active = [u \in Users |-> b[u].active]
       /\ grants = [u \in Users |-> b[u].grants]
  /\ lock = [u \in Users |-> Free]
  /\ pc = [r \in Requests |-> "idle"]
  /\ target = [r \in Requests |-> NoUser]
  /\ payload = [r \in Requests |-> NoPayload]
  /\ newrow = [r \in Requests |-> NoRow]
  /\ own = [r \in Requests |-> FALSE]
  /\ view = [r \in Requests |-> NoView]
  /\ sees = [r \in Requests |-> {}]
  /\ snap = [r \in Requests |-> {}]
  /\ todo = [r \in Requests |-> {}]
  /\ promoting = FALSE

---------------------------------------------------------------------------
(* The end of a transaction: every lock of the request is released and its *)
(* answer recorded, and its session, with what it loaded, is gone.         *)
(* Rollback is the end that writes nothing.                                *)

Answer(r, a) ==
  /\ pc' = [pc EXCEPT ![r] = a]
  /\ lock' = Released(r)
  /\ target' = [target EXCEPT ![r] = NoUser]
  /\ payload' = [payload EXCEPT ![r] = NoPayload]
  /\ newrow' = [newrow EXCEPT ![r] = NoRow]
  /\ own' = [own EXCEPT ![r] = FALSE]
  /\ view' = [view EXCEPT ![r] = NoView]
  /\ sees' = [sees EXCEPT ![r] = {}]
  /\ snap' = [snap EXCEPT ![r] = {}]
  /\ todo' = [todo EXCEPT ![r] = {}]

Rollback(r, a) == Answer(r, a) /\ UNCHANGED db

---------------------------------------------------------------------------
(* PUT /api/users/{user_id}.                                              *)

\* The caller a is authenticated in a transaction of its own, which ends
\* before the handler's begins: what it saw of a is never looked at again.
\* A caller knows the identifiers of accounts that exist, or makes one up.
ArriveUpdate(r) ==
  /\ pc[r] = "idle"
  /\ \E a \in ActiveAdmins, t \in Existing \cup {NoUser}, p \in Payloads :
       /\ target' = [target EXCEPT ![r] = t]
       /\ payload' = [payload EXCEPT ![r] = p]
       /\ own' = [own EXCEPT ![r] = (a = t)]
       /\ view' = [view EXCEPT ![r] = IF a = t THEN AuthView ELSE NoView]
  /\ pc' = [pc EXCEPT ![r] = "begin"]
  /\ UNCHANGED <<role, active, grants, lock, newrow, sees, snap, todo>>

\* Faulty variant: only the target is locked, not the administrators.
SnapshotWithoutLocks(r) ==
  /\ pc[r] = "begin"
  /\ sees' = [sees EXCEPT ![r] = Existing]
  /\ snap' = [snap EXCEPT ![r] = {}]
  /\ todo' = [todo EXCEPT ![r] = {}]
  /\ pc' = [pc EXCEPT ![r] = "locking"]
  /\ UNCHANGED <<role, active, grants, lock, target, payload, newrow, own, view>>

\* The statement that locks the active administrators takes its snapshot.
SnapshotAdmins(r) ==
  /\ pc[r] = "begin"
  /\ sees' = [sees EXCEPT ![r] = Existing]
  /\ snap' = [snap EXCEPT ![r] = ActiveAdmins]
  /\ todo' = [todo EXCEPT ![r] = ActiveAdmins]
  /\ pc' = [pc EXCEPT ![r] = "locking"]
  /\ UNCHANGED <<role, active, grants, lock, target, payload, newrow, own, view>>

\* Faulty variant: the query has no FOR UPDATE, so it waits for nobody.
LockAdminAnyway(r) ==
  /\ pc[r] = "locking"
  /\ \E u \in todo[r] : todo' = [todo EXCEPT ![r] = @ \ {u}]
  /\ UNCHANGED <<role, active, grants, lock, pc, target, payload, newrow, own,
                 view, sees, snap>>

\* Faulty variant: the locking query has no ORDER BY.
LockAdminUnordered(r) ==
  /\ pc[r] = "locking"
  /\ \E u \in todo[r] :
       /\ Grantable(r, u)
       /\ lock' = [lock EXCEPT ![u] = r]
       /\ todo' = [todo EXCEPT ![r] = @ \ {u}]
  /\ UNCHANGED <<role, active, grants, pc, target, payload, newrow, own, view,
                 sees, snap>>

LockAdmin(r) ==
  /\ pc[r] = "locking"
  /\ \E u \in todo[r] :
       /\ \A w \in todo[r] : u <= w
       /\ Grantable(r, u)
       /\ lock' = [lock EXCEPT ![u] = r]
       /\ todo' = [todo EXCEPT ![r] = @ \ {u}]
  /\ UNCHANGED <<role, active, grants, pc, target, payload, newrow, own, view,
                 sees, snap>>

\* Faulty variant: the target is read without FOR UPDATE.
ReadTarget(r) ==
  /\ pc[r] = "locking"
  /\ todo[r] = {}
  /\ target[r] \in Existing
  /\ view' = [view EXCEPT ![r] = IF own[r] THEN @ ELSE RowView(target[r])]
  /\ pc' = [pc EXCEPT ![r] = "checking"]
  /\ UNCHANGED <<role, active, grants, lock, target, payload, newrow, own, sees,
                 snap, todo>>

\* The row of the target is locked and read, except that the session hands
\* back the copy it already has of the caller's own row, unrefreshed.
LockTarget(r) ==
  /\ pc[r] = "locking"
  /\ todo[r] = {}
  /\ target[r] \in Existing
  /\ Grantable(r, target[r])
  /\ lock' = [lock EXCEPT ![target[r]] = r]
  /\ view' = [view EXCEPT ![r] = IF own[r] THEN @ ELSE RowView(target[r])]
  /\ pc' = [pc EXCEPT ![r] = "checking"]
  /\ UNCHANGED <<role, active, grants, target, payload, newrow, own, sees, snap,
                 todo>>

TargetMissing(r) ==
  /\ pc[r] = "locking"
  /\ todo[r] = {}
  /\ target[r] \notin Existing
  /\ Rollback(r, "not_found")

\* _assert_not_last_active_admin: does the body take an active admin away?
Removes(r) ==
  /\ view[r] = AuthView
  /\ payload[r].role = "subaccount" \/ payload[r].active = "no"

\* Faulty variant: only a demotion is seen as a removal.
LastAdminDemoted(r) ==
  /\ view[r] = AuthView
  /\ payload[r].role = "subaccount"
  /\ Cardinality(ActiveAdmins) = 1

LastAdmin(r) == Removes(r) /\ Cardinality(ActiveAdmins) = 1

NextRole(r) == IF payload[r].role = "keep" THEN view[r].role ELSE payload[r].role

InvalidBody(r) ==
  \/ NextRole(r) = "admin" /\ payload[r].grants # {}
  \/ view[r].role = "admin" /\ NextRole(r) = "subaccount" /\ ~payload[r].regrant

RefuseLastAdmin(r) ==
  /\ pc[r] = "checking"
  /\ LastAdmin(r)
  /\ Rollback(r, "conflict")

RefuseBody(r) ==
  /\ pc[r] = "checking"
  /\ ~LastAdmin(r)
  /\ InvalidBody(r)
  /\ Rollback(r, "invalid")

AcceptBody(r) ==
  /\ pc[r] = "checking"
  /\ ~LastAdmin(r)
  /\ ~InvalidBody(r)
  /\ pc' = [pc EXCEPT ![r] = "writing"]
  /\ UNCHANGED <<role, active, grants, lock, target, payload, newrow, own, view,
                 sees, snap, todo>>

\* A column is written only when the body differs from the session's copy.
WrittenRole(r) ==
  IF NextRole(r) # view[r].role THEN NextRole(r) ELSE role[target[r]]

NextActive(r) ==
  CASE payload[r].active = "keep" -> view[r].active
    [] payload[r].active = "yes" -> TRUE
    [] payload[r].active = "no" -> FALSE

WrittenActive(r) ==
  IF NextActive(r) # view[r].active THEN NextActive(r) ELSE active[target[r]]

\* Faulty variant: a promotion leaves the grants in place.
WrittenGrantsOnRequest(r) ==
  IF payload[r].regrant THEN payload[r].grants ELSE grants[target[r]]

WrittenGrants(r) ==
  IF NextRole(r) = "admin" THEN {}
  ELSE IF payload[r].regrant THEN payload[r].grants
  ELSE grants[target[r]]

CommitUpdate(r) ==
  /\ pc[r] = "writing"
  /\ role' = [role EXCEPT ![target[r]] = WrittenRole(r)]
  /\ active' = [active EXCEPT ![target[r]] = WrittenActive(r)]
  /\ grants' = [grants EXCEPT ![target[r]] = WrittenGrants(r)]
  /\ Answer(r, "ok")

\* An unknown domain among the grants, or a username another account has.
UpdateFails(r) ==
  /\ pc[r] = "writing"
  /\ \E a \in {"not_found", "conflict"} : Rollback(r, a)

---------------------------------------------------------------------------
(* PostgreSQL breaks a cycle of lock waits by failing one of its           *)
(* transactions; the error is answered with status 500.                    *)

Wanted(r) ==
  IF pc[r] # "locking" THEN {}
  ELSE IF todo[r] # {} THEN {u \in todo[r] : \A w \in todo[r] : u <= w}
  ELSE {target[r]} \cap Existing

Blocks(q, r) == \E u \in Wanted(r) : lock[u] = q /\ q # r

WaitCycle(S) == \A r \in S : (\E q \in S : Blocks(q, r)) /\ (\E q \in S : Blocks(r, q))

DeadlockVictim(r) ==
  /\ pc[r] = "locking"
  /\ \E S \in SUBSET Requests : r \in S /\ WaitCycle(S)
  /\ Rollback(r, "error")

---------------------------------------------------------------------------
(* POST /api/users.                                                        *)

ArriveCreate(r) ==
  /\ pc[r] = "idle"
  /\ ActiveAdmins # {}
  /\ \E u \in Users, w \in NewRows :
       /\ target' = [target EXCEPT ![r] = u]
       /\ newrow' = [newrow EXCEPT ![r] = w]
  /\ pc' = [pc EXCEPT ![r] = "creating"]
  /\ UNCHANGED <<role, active, grants, lock, payload, own, view, sees, snap, todo>>

\* One transaction inserts the user and its grants; nobody sees half of it.
CommitCreate(r) ==
  /\ pc[r] = "creating"
  /\ target[r] \notin Existing
  /\ role' = [role EXCEPT ![target[r]] = newrow[r].role]
  /\ active' = [active EXCEPT ![target[r]] = newrow[r].active]
  /\ grants' = [grants EXCEPT ![target[r]] = newrow[r].grants]
  /\ Answer(r, "ok")

\* The username is taken, or a granted domain does not exist.
CreateFails(r) ==
  /\ pc[r] = "creating"
  /\ \/ target[r] \in Existing /\ Rollback(r, "conflict")
     \/ newrow[r].grants # {} /\ Rollback(r, "not_found")

---------------------------------------------------------------------------
(* scripts/create_admin.py <username> <password>.                          *)

\* The script reads the account, if there is one, without locking it.
ScriptReads(r) ==
  /\ ScriptRuns
  /\ pc[r] = "idle"
  /\ \E u \in Users :
       /\ target' = [target EXCEPT ![r] = u]
       /\ view' = [view EXCEPT ![r] = RowView(u)]
  /\ pc' = [pc EXCEPT ![r] = "scripting"]
  /\ UNCHANGED <<role, active, grants, lock, payload, newrow, own, sees, snap, todo>>

\* The new password makes the UPDATE happen, so the script waits for the row
\* lock; role and is_active are part of it only if they change what was read.
ScriptPromotes(r) ==
  /\ pc[r] = "scripting"
  /\ view[r].role # "none"
  /\ Grantable(r, target[r])
  /\ role' = [role EXCEPT ![target[r]] = IF view[r].role = "admin" THEN @ ELSE "admin"]
  /\ active' = [active EXCEPT ![target[r]] = view[r].active => @]
  /\ grants' = [grants EXCEPT ![target[r]] = {}]
  /\ Answer(r, "ok")

ScriptCreates(r) ==
  /\ pc[r] = "scripting"
  /\ view[r].role = "none"
  /\ target[r] \notin Existing
  /\ role' = [role EXCEPT ![target[r]] = "admin"]
  /\ active' = [active EXCEPT ![target[r]] = TRUE]
  /\ Answer(r, "ok")
  /\ UNCHANGED grants

ScriptFails(r) ==
  /\ pc[r] = "scripting"
  /\ view[r].role = "none"
  /\ target[r] \in Existing
  /\ Rollback(r, "error")

---------------------------------------------------------------------------
Step(r) ==
  \/ SnapshotAdmins(r) \/ LockAdmin(r) \/ LockTarget(r) \/ TargetMissing(r)
  \/ RefuseLastAdmin(r) \/ RefuseBody(r) \/ AcceptBody(r)
  \/ CommitUpdate(r) \/ UpdateFails(r)
  \/ CommitCreate(r) \/ CreateFails(r)
  \/ ScriptPromotes(r) \/ ScriptCreates(r) \/ ScriptFails(r)

Arrive(r) == ArriveUpdate(r) \/ ArriveCreate(r) \/ ScriptReads(r)

\* A request in progress that may make an existing account an active
\* administrator: a body that promotes or activates, or the script.
Promotes(r) ==
  pc[r] = "scripting" \/ payload[r].role = "admin" \/ payload[r].active = "yes"

Next ==
  /\ \E r \in Requests : Arrive(r) \/ Step(r) \/ DeadlockVictim(r)
  /\ promoting' = (promoting \/ \E r \in Requests : Promotes(r)')

Spec == Init /\ [][Next]_vars

---------------------------------------------------------------------------
(* What the service promises about its administrators.                     *)

\* There is always somebody left who can administer: what LAST_ADMIN_REQUIRED
\* is for (update_user, _assert_not_last_active_admin).  (Not so: see the README.)
AtLeastOneActiveAdmin == ActiveAdmins # {}

\* It is so until somebody asks for a promotion or an activation: removals and
\* creations alone, in any order, leave an active administrator.
LastAdminKept == promoting \/ AtLeastOneActiveAdmin

\* A request that has counted the administrators and is about to take one of
\* them away.
Removing(r) == pc[r] = "writing" /\ Removes(r) /\ target[r] \in ActiveAdmins

\* The locks serialise removals, also of different administrators: from its
\* count to its commit a removal is alone (the comment in update_user), until
\* somebody asks for a promotion.
RemovalsSerialised ==
  promoting \/ \A r, q \in Requests : Removing(r) /\ Removing(q) => r = q

\* Domain grants are a subaccount's: whatever the interleaving of promotions,
\* demotions, grants and the script, no administrator is left with any.
AdminsHoldNoGrants ==
  \A u \in Users : role[u] = "admin" => grants[u] = {}

\* The body of a 200 answer, built from the session's copy of the row.
SaidRole(r) == NextRole(r)
SaidActive(r) == NextActive(r)

\* What PUT /api/users answers is what it committed, unless the account
\* updates itself: no other request changed the row since it was read.
AnswerIsCommittedRow ==
  [][\A r \in Requests :
       pc[r] = "writing" /\ pc'[r] = "ok" /\ ~own[r] =>
         /\ role'[target[r]] = SaidRole(r)
         /\ active'[target[r]] = SaidActive(r)]_vars

\* Requests that wait for each other in a cycle have found different sets of
\* administrators: the same set is locked in the same order (the comment in
\* update_user), so only sets of different snapshots can end in a deadlock.
CyclesNeedNewSets ==
  \A S \in SUBSET Requests : S # {} /\ WaitCycle(S) =>
    \E r, q \in S : snap[r] # snap[q]

\* No request waits for ever: while one is in progress, some request can go on
\* or is failed by the deadlock detector, and each of these steps brings its
\* request nearer to its answer.
NobodyStuck ==
  (\E r \in Requests : pc[r] \notin {"idle"} \cup Answers) =>
    \E q \in Requests : ENABLED (Step(q) \/ DeadlockVictim(q))

---------------------------------------------------------------------------
(* Why the row lock is enough for grants and answers, promotions included. *)

\* From the moment a request has the lock of its target to its commit, its
\* copy is the row, or the row its caller had when it authenticated.
TargetHeld ==
  \A r \in Requests :
    /\ pc[r] \in {"begin", "locking"} /\ own[r] => view[r] = AuthView
    /\ pc[r] \in {"checking", "writing"} =>
         /\ target[r] \in Existing
         /\ lock[target[r]] = r
         /\ view[r] = IF own[r] THEN AuthView ELSE RowView(target[r])

GrantsInv ==
  /\ TypeOK
  /\ TargetHeld
  /\ AdminsHoldNoGrants
  /\ \A u \in Users : role[u] = "none" => grants[u] = {}

---------------------------------------------------------------------------
(* Why removals are serialised when nothing promotes: what a request knows *)
(* after its locking query, and what it holds.                             *)

InUpdate(r) == pc[r] \in {"locking", "checking", "writing"}

NobodyPromotes == \A r \in Requests : ~Promotes(r)

\* An update is about an account that was there before its snapshot.
TargetSeen ==
  \A r \in Requests :
    /\ pc[r] = "begin" => target[r] \in Existing \cup {NoUser}
    /\ InUpdate(r) => target[r] \in sees[r] \cup {NoUser}
    /\ pc[r] \in {"checking", "writing"} => target[r] \in Existing

\* Of the rows a snapshot saw, the active administrators are still in the
\* set it locks: rows leave that set, none enters it.
SnapshotCovers ==
  \A r \in Requests : InUpdate(r) =>
    sees[r] \subseteq Existing /\ ActiveAdmins \cap sees[r] \subseteq snap[r]

SnapshotsOrdered ==
  \A r, q \in Requests : InUpdate(r) /\ InUpdate(q) =>
    sees[r] \subseteq sees[q] \/ sees[q] \subseteq sees[r]

LocksHeld ==
  \A r \in Requests :
    /\ InUpdate(r) => \A u \in snap[r] \ todo[r] : lock[u] = r
    /\ pc[r] \in {"checking", "writing"} => todo[r] = {} /\ lock[target[r]] = r

\* The copy a request decides on is not mistaken about an active admin.
ViewCurrent ==
  \A r \in Requests :
    /\ (pc[r] = "begin" \/ InUpdate(r)) /\ own[r] => view[r] = AuthView
    /\ pc[r] \in {"checking", "writing"} /\ target[r] \in ActiveAdmins =>
         view[r] = AuthView

\* The count still holds: a removal that passed it leaves somebody behind.
CountStillValid ==
  \A r \in Requests : Removing(r) => \E u \in ActiveAdmins : u # target[r]

LastAdminInv ==
  /\ TypeOK
  /\ NobodyPromotes
  /\ TargetSeen
  /\ SnapshotCovers
  /\ SnapshotsOrdered
  /\ LocksHeld
  /\ ViewCurrent
  /\ CountStillValid
  /\ AtLeastOneActiveAdmin

\* What makes LastAdminKept and RemovalsSerialised inductive: the locks and
\* snapshots of the requests in progress cover every removal until somebody
\* asks for a promotion.
RemovalsCovered == TypeOK /\ (promoting \/ LastAdminInv)

===========================================================================
