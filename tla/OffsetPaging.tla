--------------------------- MODULE OffsetPaging ---------------------------
(*************************************************************************)
(* The lists that are paged by number: short links, domains, users and   *)
(* the IP blacklist of app/api. A client walks the pages of one of them, *)
(* newest items first, while items are created and deleted and domains   *)
(* are hidden from it. Each page is two statements: how many items the   *)
(* client sees, and those of the page.                                   *)
(*************************************************************************)
EXTENDS Integers, FiniteSets, FiniteSetsExt

CONSTANTS
  Items,     \* ids of the items of a list that ever exist
  Created,   \* created_at
  DomainOf,  \* the domain of a short link
  Sizes      \* values of page_size

ASSUME OffsetAssumption ==
  /\ Items \subseteq Nat /\ IsFiniteSet(Items)
  /\ Created \in [Items -> Nat]
  /\ DOMAIN DomainOf = Items
  /\ Sizes \subseteq Nat \ {0}

VARIABLES
  list,      \* the list that is walked
  existing,  \* its items that are committed
  hidden,    \* items of domains that are inactive, or not granted to the client
  page, pageSize,
  stage,     \* the statement that runs next
  total,     \* of the last answer
  items,     \* of the last answer
  shown,     \* items the client was given
  twice,     \* those it was given again
  come,      \* items that came into view during the walk
  gone,      \* items that went out of view, or were deleted
  late       \* items that came into view after the last total

db == <<existing, hidden, come, gone, late>>
listVars == <<list, db, page, pageSize, stage, total, items, shown, twice>>

Lists == {"links", "domains", "users", "blacklist"}

\* _visible_links, and the join of list_domains; users and the blacklist are
\* seen by administrators, as a whole.
Visible == existing \ hidden

\* What a change of a grant or of is_active hides at once. That of an
\* administrator who lists domains never changes.
Groups ==
  CASE list = "links"   -> {{item \in Items : DomainOf[item] = domain} :
                              domain \in {DomainOf[item] : item \in Items}}
    [] list = "domains" -> {{item} : item \in Items}
    [] OTHER            -> {}

ListInit ==
  /\ list \in Lists
  /\ existing \in SUBSET Items
  /\ hidden \in Groups \cup {{}}
  /\ page = 1
  /\ pageSize \in Sizes
  /\ stage = "total"
  /\ total = 0
  /\ items = {} /\ shown = {} /\ twice = {}
  /\ come = {} /\ gone = {} /\ late = {}

---------------------------------------------------------------------------
\* ORDER BY created_at DESC, in list_short_links also id DESC
Before(item, other) ==
  \/ Created[item] > Created[other]
  \/ list = "links" /\ Created[item] = Created[other] /\ item > other

\* The first n of the items come before all others.
Heads(from, n) ==
  {head \in SUBSET from :
     /\ Cardinality(head) = Min({n, Cardinality(from)})
     /\ \A item \in head, other \in from \ head : ~Before(other, item)}

\* Faulty variant: pages are counted from 0.
PagesFromZero(from) ==
  UNION {Heads(from \ skipped, pageSize) : skipped \in Heads(from, page * pageSize)}

\* OFFSET (page - 1) * page_size LIMIT page_size, of items that PostgreSQL may
\* have in any order that the ORDER BY allows.
Pages(from) ==
  UNION {Heads(from \ skipped, pageSize) : skipped \in Heads(from, (page - 1) * pageSize)}

---------------------------------------------------------------------------
\* created_at is set before the commit, so items come in another order.
Create(item) ==
  /\ item \notin existing \cup gone
  /\ existing' = existing \cup {item}
  /\ come' = come \cup ({item} \ hidden)
  /\ late' = late \cup ({item} \ hidden)
  /\ UNCHANGED <<list, hidden, gone, page, pageSize, stage, total, items, shown, twice>>

\* Domains and users are never deleted.
Delete(item) ==
  /\ list \in {"links", "blacklist"}
  /\ item \in existing
  /\ existing' = existing \ {item}
  /\ gone' = gone \cup {item}
  /\ UNCHANGED <<list, hidden, come, late, page, pageSize, stage, total, items, shown, twice>>

Hide(group) ==
  /\ hidden' = hidden \cup group
  /\ gone' = gone \cup (group \cap Visible)
  /\ UNCHANGED <<list, existing, come, late, page, pageSize, stage, total, items, shown, twice>>

Show(group) ==
  /\ hidden' = hidden \ group
  /\ come' = come \cup (group \cap existing \cap hidden)
  /\ late' = late \cup (group \cap existing \cap hidden)
  /\ UNCHANGED <<list, existing, gone, page, pageSize, stage, total, items, shown, twice>>

---------------------------------------------------------------------------
\* Faulty variant: the total of the first page is kept.
CountOnce ==
  /\ stage = "total"
  /\ stage' = "items"
  /\ total' = IF page = 1 THEN Cardinality(Visible) ELSE total
  /\ late' = {}
  /\ UNCHANGED <<list, existing, hidden, come, gone, page, pageSize, items, shown, twice>>

CountItems ==
  /\ stage = "total"
  /\ stage' = "items"
  /\ total' = Cardinality(Visible)
  /\ late' = {}
  /\ UNCHANGED <<list, existing, hidden, come, gone, page, pageSize, items, shown, twice>>

ReadItems ==
  /\ stage = "items"
  /\ stage' = "answered"
  /\ items' \in Pages(Visible)
  /\ shown' = shown \cup items'
  /\ twice' = twice \cup (shown \cap items')
  /\ UNCHANGED <<list, db, page, pageSize, total>>

\* A client asks for the next page as long as the total says there is one.
NextPage ==
  /\ stage = "answered"
  /\ page * pageSize < total
  /\ page' = page + 1
  /\ stage' = "total"
  /\ UNCHANGED <<list, db, pageSize, total, items, shown, twice>>

---------------------------------------------------------------------------
ListNext ==
  \/ \E item \in Items : Create(item) \/ Delete(item)
  \/ \E group \in Groups : Hide(group) \/ Show(group)
  \/ CountItems \/ ReadItems \/ NextPage

ListSpec == ListInit /\ [][ListNext]_listVars

---------------------------------------------------------------------------
\* Every field keeps its type, and no page is longer than asked for.
ListTypeOK ==
  /\ list \in Lists
  /\ existing \subseteq Items /\ hidden \subseteq Items
  /\ page \in 1..Max({1, Cardinality(Items)})
  /\ pageSize \in Sizes
  /\ stage \in {"total", "items", "answered"}
  /\ total \in 0..Cardinality(Items)
  /\ items \subseteq shown /\ shown \subseteq Items /\ Cardinality(items) <= pageSize
  /\ twice \subseteq shown
  /\ come \subseteq Items /\ gone \subseteq Items /\ late \subseteq come

Walked == stage = "answered" /\ page * pageSize >= total

\* Two items that the ORDER BY of the list leaves in any order.
Tied(item) == list # "links" /\ \E other \in Items \ {item} : Created[other] = Created[item]

\* A walk during which nothing changes gives every item the client may see once,
\* and as many as each total said; of items created at one instant that is sure in
\* the list of short links only (short_links.py:254-299).
QuietWalkIsExact ==
  Walked /\ come = {} /\ gone = {} =>
    /\ total = Cardinality(Visible)
    /\ shown \subseteq Visible
    /\ \A item \in Visible : item \in shown \/ Tied(item)
    /\ \A item \in twice : Tied(item)

\* An item in view throughout is missed only if one before it went out of view, or
\* if one before it came into view between the total and the items of the last
\* page (short_links.py:254, 290).
MissedWhenShifted ==
  Walked => \A item \in Visible \ (come \cup gone \cup shown) :
    \/ Tied(item)
    \/ \E other \in gone \cup late : Before(other, item)

\* An item is given again only if one before it came into view.
RepeatedWhenShifted ==
  \A item \in twice :
    \/ Tied(item)
    \/ \E other \in come : Before(other, item)

\* Nothing but a change before an item disturbs what a walk gives of it.
OnlyShiftsDisturb ==
  /\ ListTypeOK
  /\ MissedWhenShifted
  /\ RepeatedWhenShifted

===========================================================================
