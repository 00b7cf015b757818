----------------------------- MODULE LogPaging -----------------------------
(*************************************************************************)
(* GET /api/access-logs of app/api/logs.py: a client walks the pages of  *)
(* one domain's log from cursor to cursor, newest rows first, while rows *)
(* are committed, in another order than that of their times, links are   *)
(* deleted and the client's access changes.                              *)
(*************************************************************************)
EXTENDS Integers, FiniteSets

CONSTANTS
  Rows,       \* ids of the rows of one domain that are ever written
  At,         \* accessed_at
  Links,
  LinkOf,     \* short_link_id a row is written with
  PageSizes,
  AnyLink,    \* no short_link_id filter
  NoCursor    \* what the first page is asked with

ASSUME LogAssumption ==
  /\ Rows \subseteq Nat
  /\ IsFiniteSet(Rows)
  /\ At \in [Rows -> Nat]
  /\ LinkOf \in [Rows -> Links]
  /\ PageSizes \subseteq Nat \ {0}
  /\ AnyLink \notin Links
  /\ NoCursor \notin [at : Nat, id : Rows]

VARIABLES
  present,  \* rows that are committed
  links,    \* links that are not deleted
  account,  \* role of the client's account, or "gone"
  granted,  \* its grant for the domain
  open,     \* domains.is_active
  pc,
  role,     \* the account's role as get_current_user read it
  filter,   \* the client's: a link, and the rows its other filters let through
  cursor,
  size,     \* page_size of a request
  walked,   \* rows the client has been given
  orderly,  \* each row of the walk came after the one before
  passed,   \* rows committed when the walk was past their place
  empty,    \* the last page had no row
  overrun   \* pages given without access since it last changed

env == <<present, links, account, granted, open>>
vars == <<env, pc, role, filter, cursor, size, walked, orderly, passed, empty, overrun>>

Accounts == {"admin", "subaccount", "gone"}

TypeOK ==
  /\ present \subseteq Rows
  /\ links \subseteq Links
  /\ account \in Accounts
  /\ granted \in BOOLEAN
  /\ open \in BOOLEAN
  /\ pc \in {"idle", "asked", "reading", "refused", "finished"}
  /\ role \in Accounts
  /\ filter \in [link : Links \cup {AnyLink}, rows : SUBSET Rows]
  /\ cursor \in {NoCursor} \cup {[at |-> At[row], id |-> row] : row \in Rows}
  /\ size \in PageSizes
  /\ walked \subseteq Rows
  /\ orderly \in BOOLEAN
  /\ passed \subseteq Rows
  /\ empty \in BOOLEAN
  /\ overrun \in Nat

Init ==
  /\ present = {}
  /\ links = Links
  /\ account \in {"admin", "subaccount"}
  /\ granted = (account = "subaccount")
  /\ open = TRUE
  /\ pc = "idle"
  /\ role = account
  /\ filter \in [link : Links \cup {AnyLink}, rows : {Rows \ {row} : row \in Rows} \cup {Rows}]
  /\ cursor = NoCursor
  /\ size \in PageSizes
  /\ walked = {}
  /\ orderly = TRUE
  /\ passed = {}
  /\ empty = FALSE
  /\ overrun = 0

---------------------------------------------------------------------------
\* ORDER BY accessed_at DESC, id DESC
Precedes(p, q) == p.at > q.at \/ (p.at = q.at /\ p.id > q.id)

\* encode_cursor
Encode(row) == [at |-> At[row], id |-> row]

\* Faulty variant: rows of the cursor's instant are taken to be behind.
AfterByTime(p, row) == p = NoCursor \/ At[row] < p.at

\* Faulty variant: <= instead of <.
AfterOrAt(p, row) == p = NoCursor \/ p = Encode(row) \/ Precedes(p, Encode(row))

\* The condition on the decoded cursor.
After(p, row) == p = NoCursor \/ Precedes(p, Encode(row))

\* The row of a deleted link has lost its short_link_id.
Matches(row) ==
  /\ row \in filter.rows
  /\ filter.link # AnyLink => LinkOf[row] = filter.link /\ filter.link \in links

FirstOf(rows, n) ==
  {row \in rows :
     Cardinality({other \in rows : Precedes(Encode(other), Encode(row))}) < n}

LastOf(rows) ==
  CHOOSE row \in rows : \A other \in rows \ {row} : Precedes(Encode(other), Encode(row))

CanRead == account = "admin" \/ (account = "subaccount" /\ granted /\ open)

---------------------------------------------------------------------------
\* write_access_log commits a row, which may be older than others.
Insert(row) ==
  /\ row \notin present
  /\ LinkOf[row] \in links
  /\ present' = present \cup {row}
  /\ passed' = IF After(cursor, row) /\ pc # "finished" THEN passed ELSE passed \cup {row}
  /\ UNCHANGED <<links, account, granted, open, pc, role, filter, cursor, size,
                 walked, orderly, empty, overrun>>

DeleteLink(link) ==
  /\ links' = links \ {link}
  /\ links' # links
  /\ UNCHANGED <<present, account, granted, open, pc, role, filter, cursor, size,
                 walked, orderly, passed, empty, overrun>>

\* An administrator changes the client's account and its grants, or the domain.
\* Administrators hold no grants.
ChangeAccess ==
  /\ \/ /\ account' \in Accounts
        /\ granted' \in BOOLEAN
        /\ account' = "admin" => ~granted'
        /\ <<account', granted'>> # <<account, granted>>
        /\ UNCHANGED open
     \/ open' = ~open /\ UNCHANGED <<account, granted>>
  /\ overrun' = 0
  /\ UNCHANGED <<present, links, pc, role, filter, cursor, size, walked, orderly,
                 passed, empty>>

---------------------------------------------------------------------------
\* get_current_user
Ask ==
  /\ pc = "idle"
  /\ role' = account
  /\ pc' = IF account = "gone" THEN "refused" ELSE "asked"
  /\ size' \in PageSizes
  /\ UNCHANGED <<env, filter, cursor, walked, orderly, passed, empty, overrun>>

\* Faulty variant: a cursor is as good as a check.
AuthorizedByCursor == role = "admin" \/ (granted /\ open) \/ cursor # NoCursor

\* ensure_authorized_read_domain, of the role get_current_user read.
Authorized == role = "admin" \/ (granted /\ open)

Authorize ==
  /\ pc = "asked"
  /\ pc' = IF Authorized THEN "reading" ELSE "refused"
  /\ UNCHANGED <<env, role, filter, cursor, size, walked, orderly, passed, empty, overrun>>

\* Faulty variant: a full page is taken to have a next one.
HasNextIfFull(rows) == Cardinality(FirstOf(rows, size + 1)) >= size

\* One row more than the page is fetched.
HasNext(rows) == Cardinality(FirstOf(rows, size + 1)) > size

NextCursor(rows) == Encode(LastOf(FirstOf(rows, size)))

Read ==
  /\ pc = "reading"
  /\ LET rows == {row \in present : Matches(row) /\ After(cursor, row)}
         page == FirstOf(rows, size)
     IN /\ walked' = walked \cup page
        /\ orderly' = (orderly /\ \A row \in page, old \in walked :
                                    Precedes(Encode(old), Encode(row)))
        /\ empty' = (page = {})
        /\ IF HasNext(rows)
             THEN cursor' = NextCursor(rows) /\ pc' = "idle"
             ELSE cursor' = cursor /\ pc' = "finished"
        /\ passed' = passed
  /\ overrun' = IF CanRead THEN 0 ELSE overrun + 1
  /\ UNCHANGED <<env, role, filter, size>>

---------------------------------------------------------------------------
Walk == Ask \/ Authorize \/ Read

Next ==
  \/ \E row \in Rows : Insert(row)
  \/ \E link \in Links : DeleteLink(link)
  \/ ChangeAccess
  \/ Walk

Spec == Init /\ [][Next]_vars

FairSpec == Spec /\ WF_vars(Walk)

---------------------------------------------------------------------------
\* No row comes twice, none before a newer one, over all pages of a walk.
WalkDescends == orderly

\* A row the walk does not give was committed when the walk was past its place,
\* or does not match (any more).
WalkMissesNothing ==
  pc = "finished" => \A row \in present : Matches(row) => row \in walked \cup passed

\* A cursor leads to a row, unless the link whose rows are listed is deleted
\* between two pages.
CursorsLeadOn ==
  empty /\ cursor # NoCursor => filter.link # AnyLink /\ filter.link \notin links

\* Each page leads to the next and never back.
WalkAdvances ==
  /\ TypeOK
  /\ WalkDescends
  /\ CursorsLeadOn

\* Who loses the access, for whatever reason, gets no page but the one being read.
AccessEnds == overrun <= 1

\* A client that goes on asking comes to the end, or is refused.
WalkEnds == pc = "idle" ~> pc \in {"refused", "finished"}

===========================================================================
