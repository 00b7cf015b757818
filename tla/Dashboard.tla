----------------------------- MODULE Dashboard -----------------------------
(*************************************************************************)
(* GET /api/dashboard of app/api/dashboard.py: one window of days of a   *)
(* domain's log, counted by four statements that each see what was       *)
(* committed when they ran. Between them rows are committed, links are   *)
(* deleted and midnight passes. Links, codes and rows are numbered in    *)
(* the order of the strings they are grouped by.                         *)
(*************************************************************************)
EXTENDS Integers, FiniteSets, FiniteSetsExt

CONSTANTS
  Rows,        \* ids of the rows of one domain that are ever written
  At,          \* accessed_at, in UTC
  Result,
  LinkOf,      \* short_link_id a row is written with
  CodeOf,      \* the code the link had then
  RefererOf,
  Links, Codes,
  NoLink, NoCode, NoReferer,  \* null; a blank referer counts as none
  DayLength, Offset,  \* of the zone settings.app_timezone, ahead of UTC
  Windows,     \* numbers of days that may be asked for
  Limit,       \* length of the lists
  MaxNow,      \* bound: the clock stops
  NoReport

ASSUME DashboardAssumption ==
  /\ Rows \cup Links \cup Codes \subseteq Nat
  /\ IsFiniteSet(Rows)
  /\ Rows \cap Links = {} /\ Rows \cap Codes = {} /\ Links \cap Codes = {}
  /\ At \in [Rows -> Nat]
  /\ Result \in [Rows -> {"allowed", "blocked", "error"}]
  /\ LinkOf \in [Rows -> Links \cup {NoLink}]
  /\ CodeOf \in [Rows -> Codes \cup {NoCode}]
  /\ RefererOf \in [Rows -> Nat \cup {NoReferer}]
  /\ DayLength \in Nat \ {0} /\ Offset \in 0..DayLength
  /\ Windows \subseteq Nat \ {0} /\ Limit \in Nat /\ MaxNow \in Nat

VARIABLES
  present,   \* rows that are committed
  links,     \* links that are not deleted
  now,
  pc,        \* the statement that runs next
  first,     \* first day of the window
  days,      \* length of the window
  counted,   \* the rows that totals counts
  totals, daily, top, referers,  \* the answer
  quiet,     \* nothing the statements read changed since the request
  previous   \* the answer to the request before, when nothing changed since

env == <<present, links, now>>
answer == <<totals, daily, top, referers>>
vars == <<env, pc, first, days, counted, answer, quiet, previous>>

NoCounts == [total |-> 0, allowed |-> 0, blocked |-> 0]

Init ==
  /\ present = {row \in Rows : LinkOf[row] = NoLink}
  /\ links = Links
  /\ now \in 0..MaxNow
  /\ pc = "idle"
  /\ first = 0
  /\ days \in Windows
  /\ counted = {}
  /\ totals = NoCounts
  /\ daily = <<>>
  /\ top = {}
  /\ referers = {}
  /\ quiet = TRUE
  /\ previous = NoReport

---------------------------------------------------------------------------
\* Faulty variant: days are those of UTC.
UtcDay(instant) == instant \div DayLength

\* func.date(func.timezone(app_timezone, accessed_at)), and today's date
LocalDay(instant) == (instant + Offset) \div DayLength

\* The instant of a local midnight.
Midnight(day) == day * DayLength - Offset

\* filters
Window ==
  {row \in present : At[row] >= Midnight(first) /\ At[row] < Midnight(first + days)}

Counts(rows) ==
  [total   |-> Cardinality(rows),
   allowed |-> Cardinality({row \in rows : Result[row] = "allowed"}),
   blocked |-> Cardinality({row \in rows : Result[row] = "blocked"})]

\* Faulty variant: the code comes first.
IdentityByCode(row) ==
  IF CodeOf[row] # NoCode THEN CodeOf[row]
  ELSE IF LinkOf[row] \in links THEN LinkOf[row] ELSE row

\* coalesce(short_link_id, short_code, id); ON DELETE SET NULL takes the link away.
Identity(row) ==
  IF LinkOf[row] \in links THEN LinkOf[row]
  ELSE IF CodeOf[row] # NoCode THEN CodeOf[row] ELSE row

\* The row of rank 1 by accessed_at and id, both descending.
Newest(rows) ==
  CHOOSE row \in rows : \A other \in rows :
    At[row] > At[other] \/ (At[row] = At[other] /\ row >= other)

Size(groups) == [key \in DOMAIN groups |-> Cardinality(groups[key])]

\* Faulty variant: groups of one size come in any order.
BeforeBySize(size, key, other) == size[key] > size[other]

\* ORDER BY count DESC, key ASC
Before(size, key, other) ==
  size[key] > size[other] \/ (size[key] = size[other] /\ key < other)

\* What ORDER BY and LIMIT may leave of the groups.
Leaders(size) ==
  {keys \in SUBSET DOMAIN size :
     /\ Cardinality(keys) = Min({Limit, Cardinality(DOMAIN size)})
     /\ \A key \in keys, other \in DOMAIN size \ keys : ~Before(size, other, key)}

---------------------------------------------------------------------------
\* write_access_log commits a row, which may be older than others.
Insert(row) ==
  /\ row \notin present
  /\ LinkOf[row] \in links
  /\ At[row] <= now
  /\ present' = present \cup {row}
  /\ quiet' = FALSE
  /\ previous' = NoReport
  /\ UNCHANGED <<links, now, pc, first, days, counted, answer>>

DeleteLink(link) ==
  /\ link \in links
  /\ links' = links \ {link}
  /\ quiet' = FALSE
  /\ previous' = NoReport
  /\ UNCHANGED <<present, now, pc, first, days, counted, answer>>

Tick ==
  /\ now < MaxNow
  /\ now' = now + 1
  /\ LET sameDay == LocalDay(now + 1) = LocalDay(now)
     IN /\ quiet' = (quiet /\ sameDay)
        /\ previous' = IF sameDay THEN previous ELSE NoReport
  /\ UNCHANGED <<present, links, pc, first, days, counted, answer>>

---------------------------------------------------------------------------
\* The request: a window that is not offered, or a domain that
\* ensure_authorized_read_domain withholds, is refused before anything is
\* counted. The window is computed once.
Ask ==
  /\ pc = "idle"
  /\ \/ pc' = "refused" /\ UNCHANGED first
     \/ pc' = "totals" /\ first' = LocalDay(now) - (days - 1)
  /\ quiet' = TRUE
  /\ UNCHANGED <<env, days, counted, answer, previous>>

Totals ==
  /\ pc = "totals"
  /\ pc' = "daily"
  /\ counted' = Window
  /\ totals' = Counts(Window)
  /\ UNCHANGED <<env, first, days, daily, top, referers, quiet, previous>>

Daily ==
  /\ pc = "daily"
  /\ pc' = "top"
  /\ daily' = [day \in first..(first + days - 1) |->
                 Counts({row \in Window : LocalDay(At[row]) = day})]
  /\ UNCHANGED <<env, first, days, counted, totals, top, referers, quiet, previous>>

TopLinks ==
  /\ pc = "top"
  /\ pc' = "referers"
  /\ LET groups == [key \in {Identity(row) : row \in Window} |->
                      {row \in Window : Identity(row) = key}]
     IN \E keys \in Leaders(Size(groups)) :
          top' = {[identity |-> key, row |-> Newest(groups[key]),
                   total |-> Size(groups)[key]] : key \in keys}
  /\ UNCHANGED <<env, first, days, counted, totals, daily, referers, quiet, previous>>

TopReferers ==
  /\ pc = "referers"
  /\ pc' = "done"
  /\ LET named  == {row \in Window : RefererOf[row] # NoReferer}
         groups == [key \in {RefererOf[row] : row \in named} |->
                      {row \in named : RefererOf[row] = key}]
     IN \E keys \in Leaders(Size(groups)) :
          referers' = {[referer |-> key, total |-> Size(groups)[key]] : key \in keys}
  /\ UNCHANGED <<env, first, days, counted, totals, daily, top, quiet, previous>>

\* The page is loaded again before anything changed.
Reload ==
  /\ pc = "done"
  /\ quiet
  /\ previous = NoReport
  /\ previous' = answer
  /\ pc' = "idle"
  /\ UNCHANGED <<env, first, days, counted, answer, quiet>>

---------------------------------------------------------------------------
Request == Ask \/ Totals \/ Daily \/ TopLinks \/ TopReferers \/ Reload

Next ==
  \/ \E row \in Rows : Insert(row)
  \/ \E link \in Links : DeleteLink(link)
  \/ Tick
  \/ Request

Spec == Init /\ [][Next]_vars

---------------------------------------------------------------------------
CountsOf(rows) == [total : 0..Cardinality(rows), allowed : Nat, blocked : Nat]

\* Every field keeps its type, and the lists their length.
TypeOK ==
  /\ present \subseteq Rows
  /\ links \subseteq Links
  /\ now \in 0..MaxNow
  /\ pc \in {"idle", "totals", "daily", "top", "referers", "done", "refused"}
  /\ first \in Int
  /\ days \in Windows
  /\ counted \subseteq present
  /\ totals \in CountsOf(Rows)
  /\ \A day \in DOMAIN daily : daily[day] \in CountsOf(Rows)
  /\ top \subseteq [identity : Rows \cup Links \cup Codes, row : Rows, total : 1..Cardinality(Rows)]
  /\ referers \subseteq [referer : Nat, total : 1..Cardinality(Rows)]
  /\ Cardinality(top) <= Limit /\ Cardinality(referers) <= Limit
  /\ quiet \in BOOLEAN

Total(entries) == MapThenSumSet(LAMBDA entry : entry.total, entries)

OverDays(count) == MapThenSumSet(LAMBDA day : daily[day][count], DOMAIN daily)

\* Counts of later statements are never below those of earlier ones, and none is
\* above what is there in the end: no row of the window is outside the days of
\* the report or in two of them, whatever is committed and deleted and whichever
\* midnight passes between the statements (dashboard.py:49-141). A list that was
\* not cut off counts every row.
ReportAddsUp ==
  pc = "done" =>
    /\ \A count \in {"total", "allowed", "blocked"} :
         totals[count] <= OverDays(count) /\ OverDays(count) <= Counts(Window)[count]
    /\ Total(top) <= Cardinality(Window)
    /\ Cardinality(top) < Limit => OverDays("total") <= Total(top)
    /\ Total(referers) <= Cardinality({row \in Window : RefererOf[row] # NoReferer})

\* A link that is there has one entry, with all its rows whatever codes they were
\* written with, and none of another link that had one of its codes; under a code
\* are rows of deleted links only (dashboard.py:90-94).
LinksCountedOnce ==
  pc = "done" =>
    /\ \A link \in links :
         LET own == {entry \in top : LinkOf[entry.row] = link}
         IN /\ \A entry \in own :
                 /\ entry.total <= Cardinality({row \in Window : LinkOf[row] = link})
                 /\ entry.total >= Cardinality({row \in counted : LinkOf[row] = link})
            /\ Cardinality(own) <= 1
            /\ Cardinality(top) < Limit /\ (\E row \in counted : LinkOf[row] = link)
                 => own # {}
    /\ \A entry \in top : entry.identity \in Codes =>
         entry.total <= Cardinality({row \in Window :
                          CodeOf[row] = entry.identity /\ LinkOf[row] \notin links})

\* A link is shown under the code and note it had at its last visit that was
\* counted, or at a later one (dashboard.py:104-117).
ShownAsLastSeen ==
  pc = "done" =>
    \A entry \in top : LinkOf[entry.row] \in links =>
      \A row \in counted : LinkOf[row] = LinkOf[entry.row] => At[row] <= At[entry.row]

\* Each entry of the list of links is of one link, and is shown as that link.
LinksListed ==
  /\ TypeOK
  /\ LinksCountedOnce
  /\ ShownAsLastSeen

\* The same rows give the same report: what a list leaves out does not depend on
\* the order in which the database finds the groups (dashboard.py:100, 139).
SameRowsSameReport ==
  pc = "done" /\ previous # NoReport => answer = previous

===========================================================================
