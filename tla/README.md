# TLA+ models of short-url-backend

The program is a FastAPI service over PostgreSQL (SQLAlchemy async, READ
COMMITTED, one session per request, `expire_on_commit=False`). It serves short
links to visitors and lets administrators and subaccounts manage users,
domains, links, blacklist entries, access logs and a dashboard. Paths are
relative to the root of the repository.

## 1. Inventory

### 1.1 Parts

| Part | Code | State | Operations | Module |
|---|---|---|---|---|
| User administration | `app/api/users.py`, `scripts/create_admin.py`, `app/dependencies.py` | `users`, `user_domain_access`, row locks | create, update, list; promote by script | `UserAccounts` |
| Short links | `app/api/short_links.py`, `app/services/short_code.py`, `app/services/authorization.py` | `short_links`, `target_urls`, `link_policies` | create, update, delete, list, get | `ShortLinks`, `LinkCatalog` |
| Redirect | `app/api/redirect.py`, `app/services/redirect.py`, `app/services/access_log.py` | reads the above; appends `access_logs` | GET and HEAD `/{code}` | `Redirect` |
| Access policy | `app/services/access.py` | none (pure) | `evaluate_access`, `decide_access` | `AccessPolicy` |
| Proxy reputation | `app/services/proxy.py` | `ip_reputation`, provider client | `get_proxy_result`, client life cycle | `ProxyReputation` |
| Access-log listing | `app/api/logs.py`, `app/services/cursor.py` | the cursor the client holds | a page of the log | `LogPaging` |
| User-agent backfill | `scripts/backfill_user_agents.py` | `access_logs.ua_*`, row locks | batches with `SKIP LOCKED` | `UserAgentBackfill` |
| Dashboard | `app/api/dashboard.py` | none | `dashboard` | `Dashboard` |
| Lists paged by number | the list handlers of `app/api/short_links.py`, `users.py`, `domains.py`, `security.py` | none | a page and a total | `OffsetPaging` |
| Policy migration | `app/services/policy_migration.py`, `scripts/check_policy_migration.py` | legacy rules | `convert_legacy_policy`, `find_unconvertible_links` | `PolicyMigration` |
| Schema migration | `alembic/versions/20260912_refactor_schema.py` | the schema and its data | `upgrade` | `SchemaMigration` |
| Domains, blacklist | `app/api/domains.py`, `app/api/security.py`, `app/core/domain_name.py` | `domains`, `ip_blacklist` | CRUD | environment steps of other modules |
| Authentication | `app/api/auth.py`, `app/core/security.py`, `app/dependencies.py` | tokens held by the client | login, logout, `get_current_user`, the limiter's key | `Sessions` |
| Request metadata | `app/services/request_metadata.py`, `geoip.py`, `user_agent.py` | none | string parsing | inputs of `AccessPolicy` |
| Rate limiting | `app/dependencies.py`, `app/main.py` | Redis (external) | `rate_limit` | not modelled |
| Errors, settings, schemas | `app/core/errors.py`, `app/core/config.py`, `app/schemas` | none | formatting | not modelled |

### 1.2 How they interact, and what makes each correct

There is no shared memory between requests: everything meets in PostgreSQL.
Three facts about it carry most of the models: a statement sees what is
committed when it starts (so two statements of one call may see different
versions); `FOR UPDATE` takes its rows from the statement's snapshot and only
then waits for their locks; and unique indexes and foreign keys make writers
wait for each other.

* **User administration** writes what every other part reads to authorise.
  Correct: somebody can always administer; removals of administrators are
  serialised; administrators hold no grants; answers about the accounts of others
  describe what was committed; nobody waits for ever.
* **Short links** are one object in three tables. Correct: rows of a link come
  from one body; a code leads to one link of a domain; every commit is a step
  of an abstract catalogue of links; every call is answered.
* **Redirect** reads that object without locks and logs what it did by
  reference *and* by copy. Correct: the reason given is the first in the
  documented order; a lookup is paid for only if it matters; the log is
  history; no visit disappears from it without a reason.
* **Proxy reputation** caches what an external provider says. Correct: only
  answers are cached, none is used for longer than its time to live, and the
  provider cannot keep a visitor waiting.
* **Access-log listing** hands its state to the client. Correct: a walk over
  the pages gives each row once, in order, and misses none that it could have
  seen; access is checked on every page.
* **User-agent backfill** runs beside the redirects that append rows, beside
  removals of links and destinations, which lock rows of the log because of
  `ON DELETE SET NULL`, and beside itself. Correct: rows are shared out, the last
  run leaves none that it could have had, runs end.
* **Dashboard** counts one window of the log by four statements. Correct: each
  row is in one day and under one link, later statements count no less than
  earlier ones, and the same rows give the same lists.
* **Lists paged by number** count, then skip. Correct: what a walk over the
  pages misses or repeats has been moved by a change before it, and by nothing
  else.
* **Authentication** leaves no state in the database. Correct: who is served is
  an account that is active, whose password the client gave less than a token's
  lifetime ago, and whom the rate limit counted.
* **Policy migration** turns ordered rules into one policy. Correct: whoever was
  let in still is, and nobody else; a report names every link that stops an
  upgrade, and no other.
* **Schema migration** is one transaction. Correct: it is complete or nothing
  changes; a refusal has a cause in the data; no two domain names become one.

The list of hazards, each at the line where it bites and with the properties
that watch it, is in `PROJECT.json`.

## 2. Plan

In order of importance; all of it exists. A module of proofs may be about two
components (section 5).

1. `UserAccounts`, with `AccountsProofs`
2. `LinkCatalog` (abstract) and `ShortLinks` (implements it), with
   `ShortLinksProofs`
3. `AccessPolicy` (pure) and `Redirect` (extends it), with `RedirectProofs`
4. `ProxyReputation`, with `ProxyReputationProofs`
5. `UserAgentBackfill`, with `MaintenanceProofs`
6. `LogPaging`, with `PagingProofs`
7. `PolicyMigration` (extends `AccessPolicy`), with `PolicyMigrationProofs`
8. `SchemaMigration`, with `MaintenanceProofs`
9. `Dashboard`, with `DashboardProofs`
10. `OffsetPaging`, with `PagingProofs`
11. `Sessions`, with `AccountsProofs`

`Redirect` composes with `ShortLinks` and `ProxyReputation` by abstraction, not
by a common state: its step `WriteLink` is one `Commit` of `ShortLinks`, whose
atomicity is what `LinksAreCatalog` shows, and its step `Lookup` is one
`get_proxy_result` with any of the answers that `ProxyReputation` can give.
`SchemaMigration` takes from `PolicyMigration` only whether the policies
convert. Its `AccessCarriedOver` (a part of `DataCarriedOver`) establishes what
`UserAccounts` starts from: administrators hold no grants.

## 3. The modules

Common to them: a *request* (a call, a run of a script) has a program counter
`pc` (or `stage`, section 5) and moves statement by statement; what it has read
is a record (`call`, `visit`, `view` ...); committed tables are functions of the
row's identifier. A write becomes visible when its transaction commits, so a
handler's writes are one `Commit` step. Definitions headed "Faulty variant" are
not part of any specification: each is a plausible bug of a definition after it,
used to see that a property notices it. A property that collects what one table,
log or walk must satisfy begins with `TypeOK`, so that a run checks it as one.

### 3.1 UserAccounts

Variables `role`, `active`, `grants` are the tables, `lock` the row locks;
`sees`, `snap`, `todo` the snapshot of the locking query, the active
administrators in it, and those whose lock is still to come; `view` is the
session's copy of the target and `own` says that the copy was loaded to
authenticate (the session's identity map hands it back unrefreshed).
`PUT /api/users/{id}` is `ArriveUpdate`, `SnapshotAdmins`, `LockAdmin` (one row
each, in id order), `LockTarget` or `TargetMissing`, `RefuseLastAdmin`,
`RefuseBody` or `AcceptBody`, `CommitUpdate` or `UpdateFails`. `POST` is
`ArriveCreate`, `CommitCreate` or `CreateFails`. `create_admin.py` is
`ScriptReads`, `ScriptPromotes`, `ScriptCreates` or `ScriptFails`.
`DeadlockVictim` is PostgreSQL's detector. `promoting` is history: somebody has
asked for a promotion or an activation of an existing account.

| Run | Instance | What it shows |
|---|---|---|
| `MCUserAccounts_calls` | 3 accounts, 3 requests: removals, promotions, grants, creations, the script | `LastAdminKept`, `RemovalsSerialised`: until somebody asks for a promotion, removals are serialised and leave an active administrator; `RemovalsCovered`, the inductive invariant of the proof; administrators keep no grants (`AdminsHoldNoGrants`); an update of another account answers what it committed; `CyclesNeedNewSets` and `NobodyStuck`: a deadlock needs two different snapshots, and some step is always left to a call that has begun |
| `MCUserAccounts_lastadmin` | violation | see 6.1 |

Three accounts and three requests are the least at which two removals with
different lock sets can meet a third that changes those sets; `lastadmin` needs
five (three demotions and two promotions). Renaming an account is left out:
accounts are identified with their unique names.

### 3.2 LinkCatalog, ShortLinks

`LinkCatalog` is the promise: a function from links to whole aggregates, with
`Create`, `Replace` (same domain) and `Delete`. `ShortLinks` is the code:
`_load_link` with its lock (`StartLoad`, `LockLink`, `DeletedMeanwhile`), the
access checks with the role of authentication time and the grant of statement
time (`Manager`, `NotManager`, `OtherDomain`), code assignment (`AliasFree`,
`GenerateCode`, ...), the flush that meets the unique index (`CodeClaimed`,
`CodeConflict`, waiting while another transaction's uncommitted row has the
code), destinations (`ReadDestinations`, `UnknownDestination`), `Commit`,
`CommitDelete`, and the re-read of the answer after the commit (`Reload`, whose
404 for a link that was written is the answer "lost"). Accounts and domains
change by `ChangeAccount` and `ToggleDomain`, which wait for the foreign-key
locks of an uncommitted insert. A body's note, destinations and policy are one
*mark*, so that a row tells which body wrote it. A generated code is any code
the look-up finds free; giving up after `MAX_RETRIES` is possible whenever some
code is taken.

| Run | Instance | What it shows |
|---|---|---|
| `MCShortLinks` | 2 requests, 2 domains, 2 codes, 3 bodies; accounts and one of the domains change | `RowsAgree` (rows of a link come from one body, no domain has a code twice), the refinement `LinksAreCatalog`, `EveryCallAnswered` |

Two updates of one link show torn aggregates if there are any, and two calls that
write one code meet at the index in both orders. `Changing` bounds which domains
are granted, closed and opened meanwhile; the other domain is there for bodies
that name another domain than the link's. Identifiers and codes suffice for both
calls to create, and for one to find all codes taken.

### 3.3 AccessPolicy, Redirect

`AccessPolicy` translates `evaluate_access`, `decide_access`, `_referer_matches`
and `choose_target` as operators; host names are sequences of labels, weights
are zero or not. `Redirect` runs `GET /{code}`: `ResolveHost`, `ReadLink`,
`ReadTargets` and `ReadPolicy` (the `selectinload` statements), `ReadBlacklist`,
`Decide` or `Lookup`, `ChooseTarget` or `NoTarget`, then `WriteLog`,
`LogRefused` (a foreign key of the log row no longer holds) or `LogFails`.
Other handlers commit between any two of them. `gone` remembers identifiers
that were deleted; `LogFollows` is `ON DELETE SET NULL`.

| Run | Instance | What it shows |
|---|---|---|
| `MCRedirect` | 1 visit; 216 policies and 18 kinds of visitor on a link that stays, and all these visitors on links that are rewritten, renamed and deleted, while the domain and the blacklist change | `PrimaryReason`, `AskedWhenItMatters`, `RightDestination`, `LogIsTrue` (what is logged is and stays what happened, what is not logged has a reason), `LogsSurvive`, `EveryVisitAnswered` |

Visits only read what administrators write and their log rows do not interact,
so one visit among any writers is the general case. Each rule list has one value
that the visitor has or has not; longer lists add nothing to membership.
`Changing` bounds around which contents anything changes: the four that are
written, so that all combinations of rules need be visited only at rest.

### 3.4 ProxyReputation

`Ask` reads the clock, `CacheHit` or `CacheMiss` the table, `ProviderAnswers` or
`ProviderFails` is the call with its timeout (and `_normalize_provider_response`,
which fails on a response without the fact), `WriteCache` the upsert,
`WriteFails` its failure. `Tick` and `ChangeOpinion` move the clock and the
provider; `opinions` is the history the properties are stated in. The run
(2 calls at a time, any number after one another, 1 address, time to live 2,
clock up to 3) shows that nothing older than the time to live is told or kept
although a slow call may overwrite a newer row with an older one. Two calls and
one expiry fit into these bounds: an entry of time 0 expires at 2, one tick
before the clock ends. A request that is cancelled (`CancelledError`) just
stops: the caller is gone.

### 3.5 UserAgentBackfill

`Select` takes the first `BatchSize` unlocked unparsed rows and locks them,
`Return` finds none, `Update` parses row by row, `CommitBatch` ends the batch,
`KillRun` kills a run anywhere (its transaction is rolled back). `Insert` is a
redirect's log row.

Runs are not the only ones that lock rows of the log. Deleting a link or removing a
destination of one clears the references to it (`ON DELETE SET NULL`,
`src/app/db/models/access_log.py:26`), and what it has updated stays locked until
its transaction ends: `ClearReference`, one row after another in any order, and
`EndRemoval`. `SKIP LOCKED` passes over these rows too, so a run that is alone may
return while they are unparsed. Nothing in the code comes back to them: they wait
until the script is started again, as the rows of a killed run do. What must not
happen is that anything *else* is left. `excused` is history and says what may be:
rows that came, or were given back by a killed run, when no run was left to see
them, and those that a removal had locked when the last run looked. `Start` takes
all excuses back.

The run has three rows (one in which the parser finds no browser), three runs of
the script, one removal at a time, any number after one another, batches of two
and one kill: a batch that is full, one that is not, a run that finds only
locked rows, of runs, of a removal and of both. Two removals at
once add nothing: one of them ending is one removal ending and locking the rest
again. `processed` is capped at `MaxCount`, one more than
a correct run can reach.

### 3.6 LogPaging

One client walks from cursor to cursor: `Ask` (`get_current_user`), `Authorize`
(`ensure_authorized_read_domain` with the role just read), `Read` (the query for
`page_size + 1` rows). Filters on columns that never change are one set of
rows; the link filter is apart, because deleting a link clears it in its rows.
`Insert` commits rows in any order of their times, `ChangeAccess` is a change of
the account, its grants or the domain. History: `walked`, `orderly`, `passed`
(rows committed when the walk was past their place), `overrun`. Four rows, two
of them of one instant, and pages of one or two rows, chosen anew for each
page, give full pages, exact pages and pages that end within an instant. The
run shows that rows can be missed only if they were committed late
(`WalkMissesNothing`), and that at most the page being read is given after an
access is lost (`AccessEnds`). The signature of the cursor is left out: a
cursor that was not issued is answered 422 and changes nothing.

### 3.7 PolicyMigration

`convert_legacy_policy` is `Convertible` and the operator of that name;
`legacy_decision` is the evaluator of the previous version as
`tests/test_policy_migration.py:41` keeps it, `new_decision` is `evaluate_access`
of `AccessPolicy`, with the platforms of the two related by
`LEGACY_PLATFORM_MAP`. A listed value is a value and whether it is *padded* with
blanks; capital letters are left out, since both sides fold them, and so is the
blacklist, which neither comparison has. The two programs, the script that
checks and the upgrade that writes, are `ReadLinks`, one `Convert` per link,
`Report` or `CommitUpgrade`, and `Die`. `Edit` changes rules until `Freeze`: the
upgrade runs only while the previous version is stopped, which is what
`docs/superpowers/specs/2026-09-12-production-migration-design.md:196` demands. So
an edit that the upgrade would lose is excluded by assumption: the code does not
guard against it. Nor does anything bound what the script reports of rules that
changed while it read them.

| Run | Instance | What it shows |
|---|---|---|
| `MCPolicyMigration` | one link with every single rule over two countries, two platforms and an odd value of each, or one of 25 pairs of rules; and 2 links of five kinds, one of them padded, that are changed twice; both programs | `DecidesAsBefore` for every visitor, and `ReportIsComplete` if the rules rested |

`Starts` says which rules the links have and how often they change. Conditions
of a rule are conjunctions of memberships, so two values tell a list that names
the visitor from one that does not; of two active rules none is ever converted,
so pairs suffice for the choice of the active one. Two changes let a rule change
after it was read and the default before.

### 3.8 SchemaMigration

One transaction, statement by statement: `CheckDomains`, `Rename` one row after
another under the unique constraint, `CheckBlacklist`, `CopyGrants`,
`ConvertRoles`, `ConvertPolicies`, `FillLogs`, `AlterBlacklist`, `Commit`. A
statement that refuses, and `Die`, give back `before`. A name is a host, its
letters and its trailing dots. The run (`MCSchemaMigration`) upgrades every
choice of names for three domains out of seven (alike after normalising, held
by a row whose turn comes later, not valid), and with fixed names every
combination of roles, blacklist, log results and policies that convert or not.
Three rows are what a chain of names, each held by the next row, needs.
`DataCarriedOver` says what a committed upgrade has made of each row, and that a
refused or dead one has changed nothing.
Left out: the renaming of destination types, the constraint on weights, the other
columns of the log (an address there that is none becomes NULL), tables,
columns, indexes and foreign keys that move no data, and the earlier revisions.

### 3.9 Dashboard

`Ask` computes the window once, `Totals`, `Daily`, `TopLinks` and `TopReferers`
are the statements; `Insert`, `DeleteLink` and `Tick` happen between them. Links,
codes and rows are numbers in the order of the strings the code groups by.
`Leaders` gives every set that `ORDER BY` and `LIMIT` allow, so that a list whose
order is not total would be a choice. `Reload` asks again when nothing has
changed; `previous` is the answer before. The run has six rows of two links, the
second of which took over a code of the first, one row without a link, days of
two instants in a zone half a day ahead, windows of one and two days (7 and 30 in
the code) and lists of three (5 in the code): lists are cut and not cut, windows
begin and end among the rows, and midnight passes during a report. All days of
the zone have one length, so the day of 23 or 25 hours on which a zone changes to
or from daylight-saving time is not covered. The access
check is a free choice (`LogPaging` has it); the number of distinct addresses
and the texts shown are left out.

### 3.10 OffsetPaging

One client walks one of the four lists: `CountItems`, `ReadItems`, `NextPage`,
as long as the last total says that there is a next page. `Create`, `Delete` (no
user and no domain is ever deleted), `Hide` and `Show` (a domain is deactivated,
a grant changes) move items across the offset. `Pages` gives every page that the
`ORDER BY` allows: `list_short_links` orders by time and id, the three others by
time alone. History: `come`, `gone`, and `late`, what came after the last total.
Four items, two of one instant, and pages of one and two rows are enough for a
page that begins or ends within the instant, and for a walk of four pages.

What the run shows: in the three lists without a second key, items of one
instant may come twice or never although nothing changes (`QuietWalkIsExact`
excepts them); elsewhere an item is missed only if something before it went, or
came between the total and the items of the last page. Nothing in the
repository promises more.

### 3.11 Sessions

A client with two tokens, one it sends itself and one in the cookie. `LogIn` reads
the account, `EndLogin` verifies and issues, since other processes may write in
between; `Call` is the limiter's look at the token, `Decode` and `ReadUser` are
`get_current_user`. `ChangeAccount` sets passwords and activity. In a token,
`proved` is history: when a token was issued to a client that had given the right
password of an active account, as the login had read it. A deactivated account that
comes back finds its tokens good, as after a change of password, also of one that
commits between the reading and the issue: `LetInByPassword` says what does hold,
that a password, once good, serves for no longer than a token lasts. Two accounts and two
passwords, a lifetime of two ticks and a clock of three let a token expire before
and after each step, and let the two tokens be of different accounts.

## 4. Fairness

* `WF(Step(r))` for each request, run or visit: the event loop runs a handler
  that can go on, PostgreSQL grants a free lock (waiters queue), and the
  provider call has a timeout. Arrivals are not fair.
* `LogPaging`: `WF(Walk)`, a client that goes on asking. Its property is about
  such a client only.
* `UserAgentBackfill`: a killed run is not fair, a living one is.

`UserAccounts` states none: each call has finitely many steps, so that it ends is
that it is never stuck, and `NobodyStuck` says that as an invariant (whatever waits
for a lock waits for a call that can go on, or is in a cycle, of which PostgreSQL
fails one). `PolicyMigration`, `SchemaMigration`, `Dashboard`, `OffsetPaging` and
`Sessions` state no liveness either: what goes on comes to its end by its shape.

Every `cfg` disables the deadlock check: each behaviour has a bounded number of
requests and ends. That no request hangs is what the liveness properties and
`NobodyStuck` say.

## 5. What is proved

Each theorem below is about every value of the constants that satisfies the
assumptions named. The shape is the same everywhere: an inductive invariant
that contains the types, the fact that is wanted and what it depends on; that
the initial states have it; that each action keeps it; and that it implies the
fact.

Three modules of proofs extend two components each: `AccountsProofs`
(`UserAccounts` and `Sessions`), `MaintenanceProofs` (`SchemaMigration` and
`UserAgentBackfill`) and `PagingProofs` (`LogPaging` and `OffsetPaging`). So that
this is possible, the second of each pair has names of its own where the other
modules say `Init`, `Next`, `Spec` and `pc`: `SessionsInit`, `BackfillSpec`,
`ListNext`, `stage`. The two share the facts about finite sets and nothing else: no
theorem mentions the variables of both.

### 5.1 UserAccounts (`AccountsProofs`)

For any sets of accounts, requests, domains and bodies that satisfy
`UsersAssumption` (identifiers are numbers, so that `ORDER BY id` is an order)
and `InputsAssumption` (bodies are well formed and the service boots with an
active administrator):

| Theorem | Says |
|---|---|
| `TypeCorrectness` | `Spec => []TypeOK` |
| `RemovalsAreSerialised` | until somebody asks for a promotion, one removal at a time is between its count and its commit |
| `LastAdminSurvives` | until then, an active administrator is always left |
| `RemovalsStayCovered` | until then, what a removal has seen, locked and counted stays true |
| `AdminsNeverHoldGrants` | no administrator has grants, with promotions and the script |
| `AnswersAreTrue` | an update of another account answers what it committed |
| `OneSetCannotDeadlock` | a cycle of waits has two requests whose snapshots differ, promotions and the script included |

The last-administrator argument. "Somebody is left" is not inductive: a request
that has counted two administrators commits later. `LastAdminInv` adds what it
knows and holds meanwhile. `SnapshotCovers`: of the rows its snapshot saw, the
active administrators are still among those it locks; rows leave that set and,
before any promotion, none enters it. `SnapshotsOrdered`: of two snapshots one
saw all the rows of the other, since rows are never deleted. `LocksHeld` and
`TargetSeen`: it holds the locks it has asked for so far, and its target, if
there is one, was in its snapshot. So of two requests that are both past their
count, one's locks include the other's target, and both cannot hold it
(`InvSerialises`). `ViewCurrent`: its copy is not mistaken about an active
administrator. Hence its count still holds when it commits
(`CountStillValid`). `RemovalsCovered` says that this holds until somebody asks
for a promotion; it is inductive for the whole specification, which is
`RemovalsStayCovered`.

Why only until then: with promotions the covering fails, and so does the claim
(6.1). Grants and answers need less: `GrantsInv` with `TargetHeld`, that from the
lock of its target on a request's copy is the row; promotions do not hurt, since
the script clears grants under the same lock.

Deadlocks. `HoldInv`: while a request locks its set, it holds exactly the rows
it has come to, and these precede all that are to come. So of requests with one
set only one can hold anything (`SameSetOneHolder`: the later of two rows is
held by somebody who must have the earlier one). A cycle needs two different
holders, hence two sets (6.2).

### 5.2 ShortLinks (`ShortLinksProofs`)

For any links, domains, codes, bodies and number of calls (`ConstantsAssumption`)
and any tables to start with in which the constraints of the database hold and
every link was written from one body (`StartsAssumption`):

| Theorem | Says |
|---|---|
| `RowsAlwaysAgree` | no domain has a code twice and the rows of a link come from one body |
| `TablesImplementCatalogue` | `Spec => Catalog!Spec`: the tables implement `LinkCatalog` |

`LinksInv` adds what each request carries from statement to statement.
`Holds`: an update or deletion has the lock of a link that is there, so nobody
deletes or rewrites it meanwhile. `ClaimStands` and `Apart`: a code that was
written to the index is of no other link of the domain and no other open
transaction writes it; this is what carries the uniqueness from the look-up
over the flush to the commit, since neither the look-up nor the lock of the link
does. `ReadStands`: the destinations a replacement is about to overwrite are
those it has read. `UsedInv`: no identifier is given twice, so that a commit
cannot take over a row of another link.

The refinement goes step by step (`StepRefines`): `Commit` of a creation is
`Create`, of an update `Replace`, `CommitDelete` is `Delete`, and everything else
leaves every object of `catalogue` as it was. A link's object is built from
three tables; that a commit of one link changes no other object
(`OthersKeepObjects`) rests on the agreement of the rows.

### 5.3 Redirect (`RedirectProofs`)

For any contents of links, visitors and number of visits (`RedirectAssumption`:
contents are told apart by their notes, identifiers within a content are
different, a replacement has a policy and an active allowed destination, as the
handlers demand; `NoLogRow`: no row is the value for none):

| Theorem | Says |
|---|---|
| `VisitorsGetThePrimaryReason` | the reason is the first, in the documented order, of all there are |
| `LookupsAreMadeWhenTheyMatter` | the provider is asked exactly if its answer can change the decision |
| `VisitorsReachTheRightDestination` | destinations are active and of the class of the decision; an error has a cause |
| `TheLogIsTrue` | a row of the log tells what the visitor got, for ever; a missing one has a cause |
| `TheLogSurvives` | no step takes a row out of the log (an action property) |

`FirstReason` and `LookupMatters` are about the pure functions alone, for any
policy, by cases in the order of the code. `RedirectInv` carries their results
along the visit: `Carries` and `Judged` (the decision is that of the facts in
hand), `Chosen` (the destination is of those to choose from). The link is read by
three statements without a lock, so `Knows` says what may be relied on: what was
read is still there or is among `gone`, and a link of the present handlers has an
active allowed destination unless it was deleted. `RowsInv`, that identifiers do
not come back and a destination is of one link, makes `gone` mean what it says:
a foreign key of the log row fails, or is cleared later, only for what is in it.

### 5.4 LogPaging (`PagingProofs`)

For any finite set of rows with any times and links, and any page sizes, chosen
anew for each page (`LogAssumption`):

| Theorem | Says |
|---|---|
| `PagesLeadOn` | each page lies after the one before, and a cursor leads to a row unless the listed link was deleted |
| `NoRowIsMissed` | a walk that has ended gave every matching row but those committed behind it |
| `AccessEndsWithinAPage` | after the access is lost, at most the page being read is given |

`LogInv` relates the cursor to what was given: nothing given is after it
(`BehindInv`), and whatever matches and is not after it was given or came too
late (`CoveredInv`). The walk ends when the extra row is not to be had, so the
argument needs that the page is then all the rest (`FirstOfIsAll`): the first
row that is not on the page has all rows before it on the page, hence would be
the extra row. "The first row" exists because of the sets of rows before each
row one is least (`LeastOf`, by the well-foundedness of strict inclusion on
finite sets), which avoids an induction.

### 5.5 ProxyReputation (`ProxyReputationProofs`)

For any addresses, calls and bound of the clock and any time to live of at least
one tick (`ReputationAssumption`):

| Theorem | Says |
|---|---|
| `TypeCorrectness` | `Spec => []TypeOK` |
| `EntriesAreTrue` | a cached entry was held by the provider no earlier than a time to live before it expires |
| `AnswersStayFresh` | no call answers what the provider ceased to hold a time to live before it |

`FreshInv` adds `AnswersHeld` to the two properties: what a call is about to
write was held at some time after it read the clock. The two properties depend
on each other: a hit is fresh because of the entry, an entry is true because of
the call that writes it, and reading the clock *before* the lookup is what
makes a late write harmless.

### 5.6 PolicyMigration (`PolicyMigrationProofs`)

For any links, countries, rules, visitors and interleaving of the two programs
(`MigrationAssumption`):

| Theorem | Says |
|---|---|
| `UpgradeChangesNobodysAccess` | an upgrade lets in whom the rules let in, of links without padded values |
| `ReportsAreComplete` | a program that ends, the rules unchanged since it began, has found every link that cannot be converted and no other |
| `TypeCorrectness` | among the types: what is written is a policy the service accepts |

`ConversionIsExact` is the argument about one link: two active rules or an
unexpressible one are refused, one rule decides as its own exception
(`OneRuleDecides`), and the policy says the same (`ExceptionIsExact`, by the
kinds of rule). `UpgradeInv` carries it to the commit: what has been converted
is the conversion of what is there now, because nothing changes while the
previous version is stopped. `ReportInv` says link by link how far a program is,
as long as the rules are those it has begun with. Padded values are excepted
because of 6.4.

### 5.7 SchemaMigration (`MaintenanceProofs`)

For any number of domains, accounts, log rows and entries and any names, results
and addresses (`SchemaAssumption`):

| Theorem | Says |
|---|---|
| `TypeCorrectness` | every statement leaves a well-formed database |
| `RenamingNeverCollides` | the renaming never meets the unique constraint |
| `EveryDomainResolves` | after it each domain, and no other, is found under its normalised name |
| `EverythingIsCarriedOver` | a committed upgrade has carried over grants, roles, names and results of the log and the blacklist; one that was refused or died has changed nothing |
| `RefusalsHaveACause` | an upgrade refuses only for a cause in the data before it began |

`NamesInv` says how far the renaming is. A name still to be given cannot be held:
whoever holds it, renamed or not, has it as its own normal form, since
normalising twice is normalising once, and the check has excluded two domains
of one normal form (`NoCollision`). `CarriedInv` says for each statement which
data are still those of `before` and which are converted, and how
(`ConvertedResults`, `ConvertedBlacklist`). The order matters:
grants are copied while the old roles are there to tell their level, and log rows
get their names after the renaming.

### 5.8 Sessions (`AccountsProofs`)

For any accounts, passwords and times (`SessionAssumption`):

| Theorem | Says |
|---|---|
| `SessionTypes` | besides the types: no token that is held or called with has more than a lifetime left |
| `TheRightOneIsCounted` | who is served is who the rate limit counted |
| `NobodyWithoutPassword` | nobody is served a lifetime after the login, or without one, and tokens end |
| `InactiveStaysOut` | no call of an account that was inactive all through it is served |

`SessionsInv` adds what a call knows at each step (`CallInv`): that a token is
good at the second look implies that it was at the first, because the clock
does not go back; and `TokensShown`, that a token's time is that of its login, which is past.

### 5.9 UserAgentBackfill (`MaintenanceProofs`)

For any finite set of rows, any sets of runs and of removals, any batch size and
any number of killed runs (`BackfillAssumption`):

| Theorem | Says |
|---|---|
| `RowsAreSharedOut` | no row is parsed by two runs, and each run counts what it parsed |
| `LastOneLeavesNothing` | the last run out leaves only rows that came, or were given back by a killed run, when no run was left, and those a removal had locked when it looked |

`BackfillInv` adds what the row locks are for: a run works on rows that it has
locked and nobody has parsed (`BatchInv`), an unparsed row is nobody's, and a
run that holds a lock is at work (`RowInv`). The count of a commit is then right
because the batch is disjoint from what any run has parsed (`CommitCounts`). That a
run that finds nothing may go, follows from the second: a row that it did not
see was locked by a run, which is then at work, or by a removal, and that is the
excuse.

### 5.10 OffsetPaging (`PagingProofs`)

For any finite set of items with any times and domains and any page size
(`OffsetAssumption`):

| Theorem | Says |
|---|---|
| `OnlyShiftsDisturbLists` | an item is missed or given twice only if one before it moved, or if it is tied |
| `QuietListsAreExact` | a walk during which nothing changes gives each item that is not tied once, and the totals are right |

The argument is about ranks, the number of items before one. An item whose place
is fixed is in the first `n` exactly if its rank is below `n` (`HeadByRank`),
and on a page exactly if its rank is within it (`PageByRank`), whichever page
the database chooses. `OffsetInv` says that what has not been given has at least
the rank that the walk has reached (`StillAhead`), and that what was given has
less (`StillBehind`), unless something before it went or came. What others do
between the statements is one relation, `Shift`, and it changes the ranks of
excused items only (`ShiftKeeps`). At the end, an item not given has as many
before it as the last total counted, itself not included: one before it came
after that total (`InvMissed`). The product `page * size` is the reason for
`OnePageMore` and `SkippedIsCounted`, which are left to Z3 alone.

### 5.11 Dashboard (`DashboardProofs`)

For any finite set of rows with any times, results, links, codes and referers, and
any zone, windows and length of the lists (`DashboardAssumption`; that only
finitely many rows ever exist is said because the sizes of infinite sets are not
defined):

| Theorem | Says |
|---|---|
| `ReportsAddUp` | counts of later statements are not below those of earlier ones, and none is above what is there in the end |
| `LinksAreListedTruly` | a link has one entry, with all its rows, under its last name |
| `SameRowsGiveOneReport` | the same rows give the same report |

`CountInv` and `TopInv` say what is known of each statement's result once it is
there: a committed row stays, so what a statement has counted stays in the window
and only the window grows (`GrowKeeps`). `QuietInv` says that as long as nothing
changed, each result is what its statement would give now, and so was the
previous answer.

A report adds up by two facts. The days of the window are a partition of it
(`WindowHasItsDays`, `DaysAddUp`, from a bound on quotients, `QuotientBound`), and
the sum of the sizes of disjoint sets is the size of their union
(`SumIsSizeOfUnion`). The sum of the community modules is a choice of a recursive
function on sets. That such a function exists, and equals the size, is an
induction on finite sets that the provers cannot instantiate; here it is a least
counterexample among the subsets of a finite set (`LeastSet`, by well-foundedness of
strict inclusion): the sizes themselves satisfy the equation, hence the chosen
function does, and where the two first differed, they would differ on one part
less. The same report follows from the uniqueness of what `ORDER BY` and `LIMIT` give
when the order is total (`LeadersAreOne`, `ListsAreOne`).

### 5.12 Only model-checked

Every safety invariant of the runs is a theorem above, except `NobodyStuck`, whose
statement is that a step is enabled. It and liveness under fairness
(`EveryCallAnswered` and its like) are out of the prover's reach and stay with
TLC. The assumptions above are evaluated by TLC for each instance.

## 6. Where documents and code differ

### 6.1 The last administrator (`MCUserAccounts_lastadmin`)

The comment in `update_user` (`src/app/api/users.py:154`) says that every removal
locks the same set. The set is that of each statement's snapshot. A is the only
administrator; demotions of A and of C wait with the snapshot {A}.
`create_admin.py` promotes B; A is demoted; a demotion of B takes the snapshot
{B}; C is promoted. The demotion of C locks A and C, that of B locks B; both
count two administrators, both commit, none is left.

### 6.2 Lock order

The sets differ, and the target is locked after the set. A demotion of account
1 whose snapshot {1, 2} is older waits for 1; a later one with snapshot {2}
holds 2 and asks for 1; the older gets 1 and asks for 2. PostgreSQL fails one,
which is answered 500. Nothing is corrupted and the others go on
(`NobodyStuck`), and it takes sets of different snapshots (`CyclesNeedNewSets`,
which `OneSetCannotDeadlock` proves for any number of requests): as far as one set
goes, the comment at `src/app/api/users.py:154` is right.

### 6.3 Half of a replacement

The plan of the refactoring calls creation and replacement of links atomic and
links aggregates. They are written so (`LinksAreCatalog`) but not read so: a
replacement committed after the destinations are read and before the policy is
read makes the visitor be judged by the new policy and sent to an old
destination; after a deletion it may find none. What holds nevertheless is
`RightDestination` and `LogIsTrue`: the destination is of the class of the
decision, and the log says what happened.

### 6.4 Padded values

`policy_migration.py:4` says that it rejects any rule set it cannot prove
equivalent. It strips countries and platforms before it looks at them, while
the legacy evaluator compares them as they are: a rule that allows `" CN"` let
nobody in and becomes a policy that lets CN in. Without such values the
conversion is exact (`DecidesAsBefore` excepts links that are `Padded`).

## 7. Not modelled

Rate limiting (its counters are in Redis and a library; whom it counts is in
`Sessions`), password hashing and the signing of tokens, parsing of addresses,
hosts and user agents, GeoIP, formatting of answers and errors, the writes of
domains and blacklist entries apart from their effects elsewhere (one row each,
under a unique constraint), `get_short_link` (three reads, as the redirect does
them), the provider client's start-up and shutdown (the server has answered its
requests by then), days that are longer or shorter than others (3.9), edits of
rules during an upgrade (3.7), the parts of the migrations named in 3.8, and hazards listed
in `PROJECT.json` with a note instead of a property.
