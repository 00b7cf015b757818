---------------------------- MODULE ShortLinks ----------------------------
(*************************************************************************)
(* The handlers POST, PUT and DELETE of /api/short-links                 *)
(* (app/api/short_links.py) with the code assignment of                  *)
(* app/services/short_code.py and the access checks of                   *)
(* app/services/authorization.py, statement by statement, while accounts *)
(* and domains change.                                                   *)
(*                                                                       *)
(* A request is one call.  What it writes is seen by others when it      *)
(* commits, except that a code it has written to the unique index        *)
(* (uq_domain_short_code) makes others that write the same code wait.    *)
(* A body's note, destination values and policy are one mark: the models *)
(* tell apart only which body a row was written from.                    *)
(*************************************************************************)
EXTENDS FiniteSets, Integers

CONSTANTS
  Links, Domains, Codes, Targets, Marks, NoLink,
  Requests,   \* the calls of one behaviour
  Callers,    \* accounts that make them
  Bodies,     \* bodies of create and update
  Changing,   \* bound: domains that are granted, closed and opened meanwhile
  Starts,     \* tables the service may start from
  NoCode,     \* custom_alias is absent, or no code yet
  NoMark,     \* a row that does not exist
  Free        \* nobody

Levels == {"none", "read", "manage"}

\* ShortLinkWrite: keep are the destinations given with an id, fresh the
\* number of those without.  require_active_allowed_destination asks for one.
Body == {b \in [domain : Domains, alias : Codes \cup {NoCode}, mark : Marks,
                keep : SUBSET Targets, fresh : 0..1] :
           b.keep # {} \/ b.fresh = 1}

Row == [domain : Domains, code : Codes, mark : Marks]
TargetRow == [link : Links, mark : Marks]
NoTarget == [link |-> NoLink, mark |-> NoMark]

ASSUME ConstantsAssumption ==
  /\ Bodies \subseteq Body
  /\ NoCode \notin Codes
  /\ NoMark \notin Marks
  \* a value of its own, neither a row nor an object of LinkCatalog
  /\ NoLink \notin Links \cup Row
  /\ NoLink \notin [domain : Domains, code : Codes, mark : Marks,
                  targets : SUBSET Targets, policy : BOOLEAN]
  /\ Free \notin Requests
  /\ Changing \subseteq Domains

\* The tables as an earlier run or the migration leaves them: the unique index
\* and the foreign keys hold, and every link was written from one body.
Sound(s) ==
  LET there == {l \in Links : s.links[l] # NoLink} IN
    /\ s.links \in [Links -> Row \cup {NoLink}]
    /\ s.targets \in [Targets -> TargetRow \cup {NoTarget}]
    /\ s.policies \in [Links -> Marks \cup {NoMark}]
    /\ \A l, m \in there :
         s.links[l].domain = s.links[m].domain /\ s.links[l].code = s.links[m].code => l = m
    /\ \A t \in Targets : s.targets[t] # NoTarget =>
         /\ s.targets[t].link \in there
         /\ s.targets[t].mark = s.links[s.targets[t].link].mark
    /\ \A l \in there :
         /\ \E t \in Targets : s.targets[t] # NoTarget /\ s.targets[t].link = l
         /\ s.policies[l] \in {NoMark, s.links[l].mark}
    /\ \A l \in Links \ there : s.policies[l] = NoMark

ASSUME StartsAssumption == \A s \in Starts : Sound(s)

VARIABLES
  links,     \* short_links
  targets,   \* target_urls
  policies,  \* link_policies: the mark of the policy of a link
  used,      \* identifiers of rows that exist or existed
  role,      \* users.role of the callers
  level,     \* user_domain_access of the callers
  open,      \* domains.is_active
  lock,      \* holder of the FOR UPDATE lock of a short_links row
  pc,        \* where a request is, or how it was answered
  call       \* what a request was asked, and what it has found out

tables == <<links, targets, policies, used>>
accounts == <<role, level, open>>
vars == <<links, targets, policies, used, role, level, open, lock, pc, call>>

Answers == {"ok", "not_found", "forbidden", "conflict", "error", "lost"}
Steps == {"idle", "begin", "locking", "checking", "coding", "claiming",
          "reading", "writing", "reloading"} \cup Answers

NoBody == [domain |-> NoLink, alias |-> NoCode, mark |-> NoMark,
           keep |-> {}, fresh |-> 0]
NoCall == [op |-> "none", caller |-> Free, admin |-> FALSE, link |-> NoLink,
           body |-> NoBody, code |-> NoCode, existing |-> {}]
Call == [op : {"create", "update", "delete"}, caller : Callers, admin : BOOLEAN,
         link : Links \cup {NoLink}, body : Bodies \cup {NoBody},
         code : Codes \cup {NoCode}, existing : SUBSET Targets]

Roles == {"admin", "subaccount"}

TypeOK ==
  /\ links \in [Links -> Row \cup {NoLink}]
  /\ targets \in [Targets -> TargetRow \cup {NoTarget}]
  /\ policies \in [Links -> Marks \cup {NoMark}]
  /\ used \subseteq Links \cup Targets
  /\ role \in [Callers -> Roles]
  /\ level \in [Callers -> [Domains -> Levels]]
  /\ open \in [Domains -> BOOLEAN]
  /\ lock \in [Links -> Requests \cup {Free}]
  /\ pc \in [Requests -> Steps]
  /\ call \in [Requests -> Call \cup {NoCall}]

Init ==
  /\ \E s \in Starts :
       links = s.links /\ targets = s.targets /\ policies = s.policies
  /\ used = {l \in Links : links[l] # NoLink} \cup
            {t \in Targets : targets[t] # NoTarget}
  /\ role \in [Callers -> Roles]
  /\ level \in [Callers -> [Domains -> Levels]]
  /\ \A c \in Callers, d \in Domains :
       role[c] = "admin" \/ d \notin Changing => level[c][d] = "none"
  /\ open = [d \in Domains |-> TRUE]
  /\ lock = [l \in Links |-> Free]
  /\ pc = [r \in Requests |-> "idle"]
  /\ call = [r \in Requests |-> NoCall]

---------------------------------------------------------------------------
(* Accounts and domains change by requests of other handlers, which lock   *)
(* the row FOR UPDATE and so wait for a create that has inserted a link    *)
(* referring to it (domain_id, owner_id).                                  *)

Inserted(r) == call[r].op = "create" /\ pc[r] \in {"reading", "writing"}

\* PUT /api/users/{id}: an administrator has no grants.
ChangeAccount(c) ==
  /\ Changing # {}
  /\ \A r \in Requests : Inserted(r) => call[r].caller # c
  /\ \E newRole \in Roles, newLevel \in [Domains -> Levels] :
       /\ newRole = "admin" => \A d \in Domains : newLevel[d] = "none"
       /\ \A d \in Domains \ Changing : newLevel[d] = level[c][d]
       /\ role' = [role EXCEPT ![c] = newRole]
       /\ level' = [level EXCEPT ![c] = newLevel]
  /\ UNCHANGED <<tables, open, lock, pc, call>>

\* PUT or DELETE /api/domains/{id}.
ToggleDomain(d) ==
  /\ d \in Changing
  /\ \A r \in Requests : Inserted(r) => call[r].body.domain # d
  /\ open' = [open EXCEPT ![d] = ~@]
  /\ UNCHANGED <<tables, role, level, lock, pc, call>>

---------------------------------------------------------------------------
(* authorization.py.  The role is the one the caller had when it was       *)
(* authenticated; grants and domains are read by the statement.            *)

\* authorized_domain_ids_query
Visible(r) ==
  {d \in Domains : open[d] /\ (call[r].admin \/ level[call[r].caller][d] # "none")}

\* ensure_domain_access with AccessLevel.MANAGE
MayManage(r, d) ==
  open[d] /\ (call[r].admin \/ level[call[r].caller][d] = "manage")

Refusal(r) == IF call[r].admin THEN "not_found" ELSE "forbidden"

\* _load_link without a lock, or the rows it would lock
Loads(r) ==
  links[call[r].link] # NoLink /\ links[call[r].link].domain \in Visible(r)

---------------------------------------------------------------------------
Goto(r, step) == pc' = [pc EXCEPT ![r] = step]

\* Faulty variant: the end of a transaction keeps its row lock.
UnlockedNothing(r) == lock

Unlocked(r) == [l \in Links |-> IF lock[l] = r THEN Free ELSE lock[l]]

\* The transaction is rolled back and the call answered.
Refuse(r, answer) ==
  /\ Goto(r, answer)
  /\ lock' = Unlocked(r)
  /\ call' = [call EXCEPT ![r] = NoCall]
  /\ UNCHANGED <<tables, accounts>>

\* A caller knows the identifiers of rows that exist when it calls.
Arrive(r) ==
  /\ pc[r] = "idle"
  /\ \E c \in Callers, newCall \in
       [op : {"create"}, link : {NoLink}, body : Bodies] \cup
       [op : {"update"}, link : Links \cap used, body : Bodies] \cup
       [op : {"delete"}, link : Links \cap used, body : {NoBody}] :
       /\ newCall.body.keep \subseteq used
       /\ call' = [call EXCEPT ![r] =
            [op |-> newCall.op, caller |-> c, admin |-> role[c] = "admin",
             link |-> newCall.link, body |-> newCall.body,
             code |-> NoCode, existing |-> {}]]
       /\ Goto(r, IF newCall.op = "create" THEN "checking" ELSE "begin")
  /\ UNCHANGED <<tables, accounts, lock>>

---------------------------------------------------------------------------
(* _load_link(lock=True): the row and the caller's domains are those of    *)
(* the statement's snapshot; then the statement waits for the lock, and    *)
(* finds no row if it was deleted meanwhile.                               *)

StartLoad(r) ==
  /\ pc[r] = "begin"
  /\ Loads(r)
  /\ Goto(r, "locking")
  /\ UNCHANGED <<tables, accounts, lock, call>>

NothingToLoad(r) ==
  /\ pc[r] = "begin"
  /\ ~Loads(r)
  /\ Refuse(r, "not_found")

LockLink(r) ==
  /\ pc[r] = "locking"
  /\ links[call[r].link] # NoLink
  /\ lock[call[r].link] = Free
  /\ lock' = [lock EXCEPT ![call[r].link] = r]
  /\ Goto(r, "checking")
  /\ UNCHANGED <<tables, accounts, call>>

DeletedMeanwhile(r) ==
  /\ pc[r] = "locking"
  /\ links[call[r].link] = NoLink
  /\ Refuse(r, "not_found")

---------------------------------------------------------------------------
DomainOf(r) ==
  IF call[r].op = "create" THEN call[r].body.domain ELSE links[call[r].link].domain

NotManager(r) ==
  /\ pc[r] = "checking"
  /\ ~MayManage(r, DomainOf(r))
  /\ Refuse(r, Refusal(r))

OtherDomain(r) ==
  /\ pc[r] = "checking"
  /\ call[r].op = "update"
  /\ MayManage(r, DomainOf(r))
  /\ call[r].body.domain # DomainOf(r)
  /\ Refuse(r, "conflict")

Manager(r) ==
  /\ pc[r] = "checking"
  /\ MayManage(r, DomainOf(r))
  /\ call[r].op = "update" => call[r].body.domain = DomainOf(r)
  /\ Goto(r, IF call[r].op = "delete" THEN "writing" ELSE "coding")
  /\ UNCHANGED <<tables, accounts, lock, call>>

---------------------------------------------------------------------------
(* _assign_code and create_unique_short_code: a look at the committed rows *)
(* that another transaction can overtake.                                  *)

\* Another link of the domain has the code.
Taken(r, c) ==
  \E l \in Links \ {call[r].link} :
    links[l] # NoLink /\ links[l].domain = DomainOf(r) /\ links[l].code = c

AliasTaken(r) ==
  /\ pc[r] = "coding"
  /\ call[r].body.alias # NoCode
  /\ Taken(r, call[r].body.alias)
  /\ Refuse(r, "conflict")

ChooseCode(r, c) ==
  /\ call' = [call EXCEPT ![r].code = c]
  /\ Goto(r, "claiming")
  /\ UNCHANGED <<tables, accounts, lock>>

AliasFree(r) ==
  /\ pc[r] = "coding"
  /\ call[r].body.alias # NoCode
  /\ ~Taken(r, call[r].body.alias)
  /\ ChooseCode(r, call[r].body.alias)

GenerateCode(r) ==
  /\ pc[r] = "coding"
  /\ call[r].body.alias = NoCode
  /\ call[r].op = "create"
  /\ \E c \in Codes : ~Taken(r, c) /\ ChooseCode(r, c)

\* MAX_RETRIES draws that are all taken.
GenerationFails(r) ==
  /\ pc[r] = "coding"
  /\ call[r].body.alias = NoCode
  /\ call[r].op = "create"
  /\ \E c \in Codes : Taken(r, c)
  /\ Refuse(r, "error")

\* An update without an alias leaves the code as it is.
KeepCode(r) ==
  /\ pc[r] = "coding"
  /\ call[r].body.alias = NoCode
  /\ call[r].op = "update"
  /\ ChooseCode(r, links[call[r].link].code)

---------------------------------------------------------------------------
(* The flush that writes the code: the unique index decides.               *)

Unchanged(r) == call[r].op = "update" /\ links[call[r].link].code = call[r].code

\* The uncommitted row of q has the code, or gives it up.
Pending(q, r) ==
  /\ q # r
  /\ pc[q] \in {"reading", "writing"}
  /\ call[q].op # "delete"
  /\ ~Unchanged(q)
  /\ DomainOf(q) = DomainOf(r)
  /\ \/ call[q].code = call[r].code
     \/ call[q].op = "update" /\ links[call[q].link].code = call[r].code

\* Faulty variant: there is no unique constraint, only the look-up.
CodeWritten(r) ==
  /\ pc[r] = "claiming"
  /\ Goto(r, "reading")
  /\ UNCHANGED <<tables, accounts, lock, call>>

CodeClaimed(r) ==
  /\ pc[r] = "claiming"
  /\ Unchanged(r) \/ ((\A q \in Requests : ~Pending(q, r)) /\ ~Taken(r, call[r].code))
  /\ Goto(r, "reading")
  /\ UNCHANGED <<tables, accounts, lock, call>>

CodeConflict(r) ==
  /\ pc[r] = "claiming"
  /\ ~Unchanged(r)
  /\ \A q \in Requests : ~Pending(q, r)
  /\ Taken(r, call[r].code)
  /\ Refuse(r, "conflict")

---------------------------------------------------------------------------
(* _replace_destinations and _upsert_policy.                               *)

DestinationsOf(l) == {t \in Targets : targets[t] # NoTarget /\ targets[t].link = l}

\* Faulty variant: destinations are updated by id, of whatever link they are.
ReadDestinationsAnywhere(r) ==
  /\ pc[r] = "reading"
  /\ call' = [call EXCEPT ![r].existing = DestinationsOf(call[r].link)]
  /\ Goto(r, "writing")
  /\ UNCHANGED <<tables, accounts, lock>>

ReadDestinations(r) ==
  /\ pc[r] = "reading"
  /\ LET present == DestinationsOf(call[r].link) IN
       /\ call[r].body.keep \subseteq present
       /\ call' = [call EXCEPT ![r].existing = present]
  /\ Goto(r, "writing")
  /\ UNCHANGED <<tables, accounts, lock>>

UnknownDestination(r) ==
  /\ pc[r] = "reading"
  /\ ~(call[r].body.keep \subseteq DestinationsOf(call[r].link))
  /\ Refuse(r, "not_found")

\* The destinations of l once those read and not given again are deleted and
\* the given ones written, new ones included.
Replaced(r, l, new) ==
  [t \in Targets |->
     IF t \in call[r].body.keep \cup new
       THEN [link |-> l, mark |-> call[r].body.mark]
     ELSE IF t \in call[r].existing THEN NoTarget
     ELSE targets[t]]

Commit(r) ==
  /\ pc[r] = "writing"
  /\ call[r].op # "delete"
  /\ \E l \in Links, new \in SUBSET (Targets \ used) :
       /\ IF call[r].op = "create" THEN l \notin used ELSE l = call[r].link
       /\ Cardinality(new) = call[r].body.fresh
       /\ links' = [links EXCEPT ![l] = [domain |-> DomainOf(r), code |-> call[r].code,
                                         mark |-> call[r].body.mark]]
       /\ targets' = Replaced(r, l, new)
       /\ policies' = [policies EXCEPT ![l] = call[r].body.mark]
       /\ used' = used \cup {l} \cup new
       /\ call' = [call EXCEPT ![r].link = l, ![r].body = NoBody,
                               ![r].code = NoCode, ![r].existing = {}]
  /\ lock' = Unlocked(r)
  /\ Goto(r, "reloading")
  /\ UNCHANGED accounts

CommitDelete(r) ==
  /\ pc[r] = "writing"
  /\ call[r].op = "delete"
  /\ LET l == call[r].link IN
       /\ links' = [links EXCEPT ![l] = NoLink]
       /\ targets' = [t \in Targets |-> IF t \in DestinationsOf(l) THEN NoTarget ELSE targets[t]]
       /\ policies' = [policies EXCEPT ![l] = NoMark]
  /\ Goto(r, "ok")
  /\ lock' = Unlocked(r)
  /\ call' = [call EXCEPT ![r] = NoCall]
  /\ UNCHANGED <<used, accounts>>

\* The answer is read again after the commit; if the link or the right to
\* see it is gone by then, what was committed is answered with 404.
Reload(r) ==
  /\ pc[r] = "reloading"
  /\ Refuse(r, IF Loads(r) THEN "ok" ELSE "lost")

---------------------------------------------------------------------------
Step(r) ==
  \/ StartLoad(r) \/ NothingToLoad(r) \/ LockLink(r) \/ DeletedMeanwhile(r)
  \/ NotManager(r) \/ OtherDomain(r) \/ Manager(r)
  \/ AliasTaken(r) \/ AliasFree(r) \/ GenerateCode(r) \/ GenerationFails(r)
  \/ KeepCode(r) \/ CodeClaimed(r) \/ CodeConflict(r)
  \/ ReadDestinations(r) \/ UnknownDestination(r)
  \/ Commit(r) \/ CommitDelete(r) \/ Reload(r)

Next ==
  \/ \E r \in Requests : Arrive(r) \/ Step(r)
  \/ \E c \in Callers : ChangeAccount(c)
  \/ \E d \in Domains : ToggleDomain(d)

Spec == Init /\ [][Next]_vars

FairSpec == Spec /\ \A r \in Requests : WF_vars(Step(r))

---------------------------------------------------------------------------
Present == {l \in Links : links[l] # NoLink}

\* Within a domain a code leads to one link, although the look-up for a free
\* code and the write of it are separate statements.
CodesUnique ==
  \A l, m \in Present :
    links[l].domain = links[m].domain /\ links[l].code = links[m].code => l = m

\* A link, its destinations and its policy all come from one body, however
\* updates of the same link overlap; it has a destination, and no row is left
\* of a link that is gone.
WrittenAsOne ==
  /\ \A l \in Present :
       /\ DestinationsOf(l) # {}
       /\ \A t \in DestinationsOf(l) : targets[t].mark = links[l].mark
       /\ policies[l] \in {NoMark, links[l].mark}
  /\ \A t \in Targets : targets[t] # NoTarget => targets[t].link \in Present
  /\ \A l \in Links \ Present : policies[l] = NoMark

\* What the three tables of links say together, between any two statements.
RowsAgree ==
  /\ TypeOK
  /\ CodesUnique
  /\ WrittenAsOne

\* The tables implement the catalogue of LinkCatalog: each link with its rows
\* is one object of it.
catalogue ==
  [l \in Links |->
    IF links[l] = NoLink THEN NoLink
    ELSE [domain |-> links[l].domain, code |-> links[l].code,
          mark |-> links[l].mark, targets |-> DestinationsOf(l),
          policy |-> policies[l] # NoMark]]

Catalog == INSTANCE LinkCatalog WITH catalog <- catalogue

LinksAreCatalog == Catalog!Spec

\* Whoever a call waits for, for a row lock or for a code, it is answered.
EveryCallAnswered == \A r \in Requests : pc[r] # "idle" ~> pc[r] \in Answers

===========================================================================
