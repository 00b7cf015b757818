--------------------------- MODULE PagingProofs ---------------------------
(*************************************************************************)
(* Theorems about the lists that clients walk page by page, for any      *)
(* items, times and page sizes. LogPaging: a walk over the access log    *)
(* goes one way, misses nothing, and gives no page to a client whose     *)
(* access has ended. OffsetPaging: nothing but a change before an item   *)
(* disturbs what a walk by page number gives of it.                      *)
(*************************************************************************)
EXTENDS LogPaging, OffsetPaging, FiniteSetTheorems, TLAPS

\* The order of the pages.
Ahead(r, s) == Precedes(Encode(r), Encode(s))
Earlier(rows, row) == {other \in rows : Ahead(other, row)}
Later(rows, row) == {other \in rows : Ahead(row, other)}

\* The condition on a row that the client's filters make, but for the deletion
\* of a link.
Listed(row) ==
  /\ row \in filter.rows
  /\ filter.link # AnyLink => LinkOf[row] = filter.link

\* What the walk has given is not after its cursor.
BehindInv ==
  pc # "finished" =>
    /\ cursor = NoCursor => walked = {}
    /\ \A row \in walked : ~After(cursor, row)

\* What is not after the cursor and is listed has been given, or came too late.
CoveredInv ==
  \A row \in present :
    Matches(row) /\ (pc = "finished" \/ ~After(cursor, row)) => row \in walked \cup passed

\* A cursor was given because a row is after it; only a deleted link can take
\* that row from the list.
AheadInv ==
  /\ pc # "finished" => ~empty
  /\ pc # "finished" /\ cursor # NoCursor =>
       \E row \in present : Listed(row) /\ After(cursor, row)

\* Once a page has been given without access, the next request is refused.
AccessInv ==
  /\ pc = "asked" => role # "gone"
  /\ overrun \in {0, 1}
  /\ overrun = 1 => ~CanRead /\ pc # "reading" /\ (pc = "asked" => role = account)

LogInv == TypeOK /\ WalkDescends /\ CursorsLeadOn /\ BehindInv /\ CoveredInv /\ AheadInv /\ AccessInv

---------------------------------------------------------------------------
(* The order of the rows, and the first and the last of some of them.      *)

\* Newest first, and by id where the times are equal: a total order.
LEMMA RowsAreOrdered ==
  ASSUME NEW q \in Rows, NEW r \in Rows, NEW s \in Rows
  PROVE  /\ ~Ahead(q, q)
         /\ Ahead(q, r) /\ Ahead(r, s) => Ahead(q, s)
         /\ q # r => Ahead(q, r) \/ Ahead(r, q)
         /\ ~(Ahead(q, r) /\ Ahead(r, q))
<1>1. At[q] \in Nat /\ At[r] \in Nat /\ At[s] \in Nat /\ q \in Nat /\ r \in Nat /\ s \in Nat
  BY LogAssumption
<1> QED  BY <1>1 DEF Ahead, Precedes, Encode

\* Among the sets of rows that come before one of them, there is a least.
LEMMA LeastOf ==
  ASSUME NEW sets \in SUBSET (SUBSET Rows), sets # {}
  PROVE  \E least \in sets : \A other \in sets : ~(other \subseteq least /\ other # least)
<1> DEFINE smaller == StrictSubsetOrdering(Rows)
<1>1. FiniteSubsetsOf(Rows) = SUBSET Rows  BY FS_FiniteSubsetsOfFinite, LogAssumption
<1>2. IsWellFoundedOn(smaller, FiniteSubsetsOf(Rows))
  BY FS_StrictSubsetOrderingWellFounded
<1>3. PICK least \in sets : \A other \in sets : ~(<<other, least>> \in smaller)
  BY <1>1, <1>2, WFMin
<1>4. \A other \in sets : other \subseteq least /\ other # least => <<other, least>> \in smaller
  BY DEF StrictSubsetOrdering
<1>5. \A other \in sets : ~(other \subseteq least /\ other # least)
  BY <1>3, <1>4, Zenon
<1> QED  BY <1>5, Zenon

LEMMA HasFirst ==
  ASSUME NEW rows \in SUBSET Rows, rows # {}
  PROVE  \E row \in rows : \A other \in rows \ {row} : Ahead(row, other)
<1> DEFINE sets == {Earlier(rows, row) : row \in rows}
<1>1. sets \in SUBSET (SUBSET Rows) /\ sets # {}  BY DEF Earlier
<1>2. PICK least \in sets : \A other \in sets : ~(other \subseteq least /\ other # least)
  BY <1>1, LeastOf
<1>3. PICK row \in rows : least = Earlier(rows, row)  OBVIOUS
<1>4. ASSUME NEW other \in rows, Ahead(other, row)  PROVE FALSE
  <2>1. Earlier(rows, other) \in sets  OBVIOUS
  <2>2. other \in Earlier(rows, row) /\ other \notin Earlier(rows, other)
    BY <1>4, RowsAreOrdered DEF Earlier
  <2>3. ASSUME NEW third \in Earlier(rows, other)  PROVE third \in Earlier(rows, row)
    BY <1>4, RowsAreOrdered DEF Earlier
  <2> QED  BY <1>2, <1>3, <2>1, <2>2, <2>3
<1>5. \A other \in rows \ {row} : Ahead(row, other)
  BY <1>4, RowsAreOrdered
<1> QED  BY <1>5

LEMMA HasLast ==
  ASSUME NEW rows \in SUBSET Rows, rows # {}
  PROVE  /\ LastOf(rows) \in rows
         /\ \A other \in rows \ {LastOf(rows)} : Ahead(other, LastOf(rows))
<1> DEFINE sets == {Later(rows, row) : row \in rows}
<1>1. sets \in SUBSET (SUBSET Rows) /\ sets # {}  BY DEF Later
<1>2. PICK least \in sets : \A other \in sets : ~(other \subseteq least /\ other # least)
  BY <1>1, LeastOf
<1>3. PICK row \in rows : least = Later(rows, row)  OBVIOUS
<1>4. ASSUME NEW other \in rows, Ahead(row, other)  PROVE FALSE
  <2>1. Later(rows, other) \in sets  OBVIOUS
  <2>2. other \in Later(rows, row) /\ other \notin Later(rows, other)
    BY <1>4, RowsAreOrdered DEF Later
  <2>3. ASSUME NEW third \in Later(rows, other)  PROVE third \in Later(rows, row)
    BY <1>4, RowsAreOrdered DEF Later
  <2> QED  BY <1>2, <1>3, <2>1, <2>2, <2>3
<1>5. \A other \in rows \ {row} : Ahead(other, row)
  BY <1>4, RowsAreOrdered
<1>6. \E last \in rows : \A other \in rows \ {last} : Precedes(Encode(other), Encode(last))
  BY <1>5 DEF Ahead
<1> QED  BY <1>6 DEF LastOf, Ahead

---------------------------------------------------------------------------
(* Pages.                                                                  *)

\* The rows before one of them are finitely many.
LEMMA EarlierIsFinite ==
  ASSUME NEW rows \in SUBSET Rows, NEW row \in Rows
  PROVE  /\ IsFiniteSet(rows) /\ IsFiniteSet(Earlier(rows, row))
         /\ Cardinality(Earlier(rows, row)) \in Nat
         /\ Earlier(rows, row) = {other \in rows : Precedes(Encode(other), Encode(row))}
<1>1. IsFiniteSet(rows)  BY LogAssumption, FS_Subset
<1>2. Earlier(rows, row) \in SUBSET rows  BY DEF Earlier
<1>3. IsFiniteSet(Earlier(rows, row))  BY <1>1, <1>2, FS_Subset
<1> QED  BY <1>1, <1>3, FS_CardinalityType DEF Earlier, Ahead

\* Whoever comes before a row of the page is on the page.
LEMMA FirstOfIsPrefix ==
  ASSUME NEW rows \in SUBSET Rows, NEW n \in Nat, NEW row \in FirstOf(rows, n),
         NEW other \in rows, Ahead(other, row)
  PROVE  other \in FirstOf(rows, n)
<1>1. row \in rows /\ Cardinality(Earlier(rows, row)) < n
  BY EarlierIsFinite DEF FirstOf
<1>2. Earlier(rows, other) \in SUBSET Earlier(rows, row)
  BY <1>1, RowsAreOrdered DEF Earlier
<1>3. Cardinality(Earlier(rows, other)) <= Cardinality(Earlier(rows, row))
  BY <1>1, <1>2, EarlierIsFinite, FS_Subset
<1>4. /\ Cardinality(Earlier(rows, other)) \in Nat /\ Cardinality(Earlier(rows, row)) \in Nat
      /\ Earlier(rows, other) = {third \in rows : Precedes(Encode(third), Encode(other))}
  BY <1>1, EarlierIsFinite
<1> QED  BY <1>1, <1>3, <1>4 DEF FirstOf

\* A page has at most the size that was asked for.
LEMMA FirstOfIsShort ==
  ASSUME NEW rows \in SUBSET Rows, NEW n \in Nat
  PROVE  /\ FirstOf(rows, n) \subseteq rows /\ IsFiniteSet(FirstOf(rows, n))
         /\ Cardinality(FirstOf(rows, n)) \in Nat
         /\ Cardinality(FirstOf(rows, n)) <= n
<1> DEFINE given == FirstOf(rows, n)
<1>1. given \in SUBSET rows  BY DEF FirstOf
<1>2. IsFiniteSet(given) /\ Cardinality(given) \in Nat
  BY <1>1, LogAssumption, FS_Subset, FS_CardinalityType
<1>3. CASE given = {}  BY <1>1, <1>2, <1>3, FS_EmptySet
<1>4. CASE given # {}
  <2> DEFINE last == LastOf(given)
  <2>1. last \in given /\ \A other \in given \ {last} : Ahead(other, last)
    BY <1>1, <1>4, HasLast
  <2> HIDE DEF last
  <2>2. last \in rows /\ Cardinality(Earlier(rows, last)) < n
    BY <1>1, <2>1, EarlierIsFinite DEF FirstOf
  <2>3. given \ {last} \in SUBSET Earlier(rows, last)  BY <1>1, <2>1 DEF Earlier
  <2> HIDE DEF given
  <2>4. Cardinality(given \ {last}) <= Cardinality(Earlier(rows, last))
    BY <2>2, <2>3, EarlierIsFinite, FS_Subset
  <2>5. Cardinality(given \ {last}) = Cardinality(given) - 1  BY <1>2, <2>1, FS_RemoveElement
  <2>6. Cardinality(Earlier(rows, last)) \in Nat  BY <2>2, EarlierIsFinite
  <2>7. Cardinality(given) <= n  BY <1>2, <2>2, <2>4, <2>5, <2>6
  <2> QED  BY <1>1, <1>2, <2>7 DEF given
<1> QED  BY <1>3, <1>4

\* If one more row than the page is not to be had, the page has every row.
LEMMA FirstOfIsAll ==
  ASSUME NEW rows \in SUBSET Rows, NEW n \in Nat, Cardinality(FirstOf(rows, n + 1)) <= n
  PROVE  FirstOf(rows, n) = rows
<1> DEFINE rest == rows \ FirstOf(rows, n)
<1> SUFFICES ASSUME rest # {}  PROVE FALSE  BY DEF FirstOf
<1>1. PICK next \in rest : \A other \in rest \ {next} : Ahead(next, other)
  <2>1. rest \in SUBSET Rows  OBVIOUS
  <2> HIDE DEF rest
  <2> QED  BY <2>1, HasFirst
<1> DEFINE before == Earlier(rows, next)
<1>2. IsFiniteSet(before) /\ Cardinality(before) \in Nat /\ before \subseteq FirstOf(rows, n)
  <2>1. \A other \in before : other \notin rest
    BY <1>1, RowsAreOrdered DEF Earlier
  <2> QED  BY <2>1, EarlierIsFinite DEF Earlier
<1>3. Cardinality(before) <= n
  BY <1>2, FirstOfIsShort, FS_Subset
<1>4. next \in FirstOf(rows, n + 1)
  <2>1. before = {other \in rows : Precedes(Encode(other), Encode(next))}
    BY EarlierIsFinite
  <2>2. Cardinality(before) < n + 1  BY <1>2, <1>3
  <2> HIDE DEF before
  <2> QED  BY <2>1, <2>2 DEF FirstOf
<1>5. before \subseteq FirstOf(rows, n + 1)
  BY <1>4, FirstOfIsPrefix DEF Earlier
<1>6. ~(Cardinality(before) < n)
  BY EarlierIsFinite DEF FirstOf
<1>7. next \notin before  BY RowsAreOrdered DEF Earlier
<1> HIDE DEF before, rest
<1>8. Cardinality(before \cup {next}) = Cardinality(before) + 1
  BY <1>2, <1>7, FS_AddElement
<1>9. Cardinality(before \cup {next}) <= Cardinality(FirstOf(rows, n + 1))
  BY <1>4, <1>5, FirstOfIsShort, FS_Subset
<1>10. Cardinality(FirstOf(rows, n + 1)) \in Nat
  <2>1. n + 1 \in Nat  OBVIOUS
  <2> QED  BY <2>1, FirstOfIsShort
<1> QED  BY <1>2, <1>6, <1>8, <1>9, <1>10

\* A page of some rows has some.
LEMMA FirstOfHasSome ==
  ASSUME NEW rows \in SUBSET Rows, rows # {}, NEW n \in Nat \ {0}
  PROVE  FirstOf(rows, n) # {}
<1>1. PICK row \in rows : \A other \in rows \ {row} : Ahead(row, other)  BY HasFirst
<1>2. Earlier(rows, row) = {}  BY <1>1, RowsAreOrdered DEF Earlier
<1>3. Cardinality(Earlier(rows, row)) = 0  BY <1>2, FS_EmptySet
<1>4. Cardinality({other \in rows : Precedes(Encode(other), Encode(row))}) = 0
  BY <1>3, EarlierIsFinite
<1>5. row \in FirstOf(rows, n)  BY <1>4 DEF FirstOf
<1> QED  BY <1>5

---------------------------------------------------------------------------
(* The walk.                                                               *)

\* A cursor stands for a row.
LEMMA CursorIsARow ==
  ASSUME NEW c \in Rows
  PROVE  /\ Encode(c) # NoCursor
         /\ Encode(c) \in {NoCursor} \cup {[at |-> At[row], id |-> row] : row \in Rows}
         /\ \A row : After(Encode(c), row) <=> Ahead(c, row)
<1>1. Encode(c) \in [at : Nat, id : Rows]  BY LogAssumption DEF Encode
<1>2. Encode(c) # NoCursor  BY <1>1, LogAssumption
<1> QED  BY <1>2 DEF Encode, After, Ahead

LEMMA InitLogInv == Init => LogInv
<1> SUFFICES ASSUME Init  PROVE LogInv  OBVIOUS
<1>1. TypeOK  BY DEF Init, TypeOK, Accounts
<1> QED
  BY <1>1 DEF LogInv, Init, WalkDescends, CursorsLeadOn, BehindInv, CoveredInv, AheadInv,
              AccessInv

LEMMA ReadStep ==
  ASSUME LogInv, Read
  PROVE  LogInv'
<1> DEFINE rows == {row \in present : Matches(row) /\ After(cursor, row)}
           given == FirstOf(rows, size)
           last == LastOf(given)
<1>1. /\ pc = "reading"
      /\ walked' = walked \cup given
      /\ orderly' = (orderly /\ \A row \in given, old \in walked : Ahead(old, row))
      /\ empty' = (given = {})
      /\ IF HasNext(rows) THEN cursor' = Encode(last) /\ pc' = "idle"
                          ELSE cursor' = cursor /\ pc' = "finished"
      /\ passed' = passed
      /\ overrun' = IF CanRead THEN 0 ELSE overrun + 1
  BY DEF Read, NextCursor, Ahead
<1>2. UNCHANGED <<present, links, account, granted, open, role, filter, size>>
  BY DEF Read, env
<1>3. /\ rows \in SUBSET Rows /\ size \in Nat \ {0}
      /\ walked \subseteq Rows /\ present \subseteq Rows
  BY LogAssumption DEF LogInv, TypeOK
<1>4. given \subseteq rows  BY <1>3, FirstOfIsShort
<1>5. rows # {} => given # {}  BY <1>3, FirstOfHasSome
<1>6. given # {} => /\ last \in given
                   /\ \A other \in given \ {last} : Ahead(other, last)
  BY <1>3, <1>4, HasLast
<1>7. \A row \in given, other \in rows : Ahead(other, row) => other \in given
  BY <1>3, FirstOfIsPrefix
\* What is given lies after what was given.
<1>8. \A row \in rows, old \in walked : Ahead(old, row)
  <2>1. CASE cursor = NoCursor  BY <1>1, <2>1 DEF LogInv, BehindInv
  <2>2. CASE cursor # NoCursor
    <3>1. PICK c \in Rows : cursor = Encode(c)  BY <2>2 DEF LogInv, TypeOK, Encode
    <3>2. \A old \in walked : ~Ahead(c, old)
      BY <1>1, <3>1, CursorIsARow DEF LogInv, BehindInv
    <3>3. \A row \in rows : Ahead(c, row)  BY <3>1, CursorIsARow
    <3> QED  BY <1>3, <3>2, <3>3, RowsAreOrdered
  <2> QED  BY <2>1, <2>2
<1>9. Cardinality(FirstOf(rows, size + 1)) \in Nat
  <2>1. size + 1 \in Nat  BY <1>3
  <2> QED  BY <1>3, <2>1, FirstOfIsShort
<1>10. ~HasNext(rows) => given = rows
  BY <1>3, <1>9, FirstOfIsAll DEF HasNext
<1>11. HasNext(rows) => \E row \in rows : row \notin given
  <2> SUFFICES ASSUME rows \subseteq given  PROVE ~HasNext(rows)  OBVIOUS
  <2>1. FirstOf(rows, size + 1) \in SUBSET given  BY DEF FirstOf
  <2>2. IsFiniteSet(given) /\ Cardinality(given) \in Nat /\ Cardinality(given) <= size
    BY <1>3, FirstOfIsShort
  <2> HIDE DEF given, rows
  <2>3. Cardinality(FirstOf(rows, size + 1)) <= Cardinality(given)  BY <2>1, <2>2, FS_Subset
  <2> QED  BY <1>3, <1>9, <2>2, <2>3 DEF HasNext
<1> HIDE DEF given, last
<1>12. TypeOK'
  <2>1. cursor' \in {NoCursor} \cup {[at |-> At[row], id |-> row] : row \in Rows}
    <3>1. CASE HasNext(rows)
      <4>1. last \in Rows  BY <1>3, <1>4, <1>5, <1>6, <1>11, <3>1
      <4> QED  BY <1>1, <3>1, <4>1, CursorIsARow
    <3>2. CASE ~HasNext(rows)  BY <1>1, <3>2 DEF LogInv, TypeOK
    <3> QED  BY <3>1, <3>2
  <2>2. orderly' \in BOOLEAN /\ empty' \in BOOLEAN
    BY <1>1, Zenon DEF LogInv, TypeOK
  <2>3. walked' \subseteq Rows /\ overrun' \in Nat /\ pc' \in {"idle", "finished"}
    BY <1>1, <1>3, <1>4 DEF LogInv, TypeOK
  <2> QED  BY <1>1, <1>2, <2>1, <2>2, <2>3 DEF LogInv, TypeOK
<1>13. WalkDescends'
  BY <1>1, <1>4, <1>8 DEF LogInv, WalkDescends
<1>14. AccessInv'
  <2>1. overrun = 0  BY <1>1 DEF LogInv, AccessInv
  <2>2. CanRead' = CanRead  BY <1>2 DEF CanRead
  <2> QED  BY <1>1, <2>1, <2>2 DEF AccessInv
<1>15. \A row : Matches(row)' = Matches(row)  BY <1>2 DEF Matches
<1>16. CASE ~HasNext(rows)
  <2>1. CoveredInv'
    <3> SUFFICES ASSUME NEW row \in present, Matches(row)
                 PROVE  row \in walked' \cup passed'
      BY <1>2, <1>15 DEF CoveredInv
    <3> QED  BY <1>1, <1>10, <1>16 DEF LogInv, CoveredInv
  <2>2. CursorsLeadOn'
    <3> SUFFICES ASSUME given = {}, cursor # NoCursor
                 PROVE  filter.link # AnyLink /\ filter.link \notin links
      BY <1>1, <1>2, <1>16 DEF CursorsLeadOn
    <3>1. PICK row \in present : Listed(row) /\ After(cursor, row)
      BY <1>1 DEF LogInv, AheadInv
    <3>2. ~Matches(row)  BY <1>5, <3>1
    <3> QED  BY <3>1, <3>2 DEF Matches, Listed
  <2>3. BehindInv' /\ AheadInv'  BY <1>1, <1>16 DEF BehindInv, AheadInv
  <2> QED  BY <1>12, <1>13, <1>14, <2>1, <2>2, <2>3 DEF LogInv
<1>17. CASE HasNext(rows)
  <2>1. PICK next \in rows : next \notin given  BY <1>11, <1>17
  <2>2. last \in given /\ last \in Rows /\ cursor' = Encode(last) /\ given # {}
    BY <1>1, <1>3, <1>4, <1>5, <1>6, <1>17, <2>1
  <2>3. \A row : After(cursor', row) <=> Ahead(last, row)  BY <2>2, CursorIsARow
  <2>4. BehindInv'
    <3>1. \A row \in given : ~Ahead(last, row)
      BY <1>3, <1>4, <1>6, <2>2, RowsAreOrdered
    <3>2. \A old \in walked : ~Ahead(last, old)
      BY <1>3, <1>4, <1>8, <2>2, RowsAreOrdered
    <3> QED  BY <1>1, <2>2, <2>3, <3>1, <3>2, CursorIsARow DEF BehindInv
  <2>5. CoveredInv'
    <3> SUFFICES ASSUME NEW row \in present, Matches(row), ~Ahead(last, row)
                 PROVE  row \in walked' \cup passed'
      BY <1>1, <1>2, <1>15, <1>17, <2>3 DEF CoveredInv
    <3>1. CASE ~After(cursor, row)  BY <1>1, <3>1 DEF LogInv, CoveredInv
    <3>2. CASE After(cursor, row)
      <4>1. row \in rows  BY <3>2
      <4>2. row = last \/ Ahead(row, last)  BY <1>3, <2>2, RowsAreOrdered
      <4> QED  BY <1>1, <1>7, <2>2, <4>1, <4>2
    <3> QED  BY <3>1, <3>2
  <2>6. AheadInv'
    <3>1. Ahead(last, next)
      BY <1>3, <1>7, <2>1, <2>2, RowsAreOrdered
    <3>2. Listed(next)' /\ next \in present  BY <1>2 DEF Listed, Matches
    <3> QED  BY <1>1, <1>2, <2>2, <2>3, <3>1, <3>2 DEF AheadInv
  <2>7. CursorsLeadOn'  BY <1>1, <2>2 DEF CursorsLeadOn
  <2> QED  BY <1>12, <1>13, <1>14, <2>4, <2>5, <2>6, <2>7 DEF LogInv
<1> QED  BY <1>16, <1>17

\* A row that is committed while the walk goes on either is still ahead of it,
\* or came too late.
LEMMA InsertStep ==
  ASSUME LogInv, NEW new \in Rows, Insert(new)
  PROVE  LogInv'
<1>1. /\ present' = present \cup {new}
      /\ passed' = IF After(cursor, new) /\ pc # "finished" THEN passed ELSE passed \cup {new}
      /\ UNCHANGED <<links, account, granted, open, pc, role, filter, cursor, size,
                     walked, orderly, empty, overrun>>
  BY DEF Insert
<1>2. TypeOK'  BY <1>1 DEF LogInv, TypeOK
<1>3. \A row : Matches(row)' = Matches(row) /\ Listed(row)' = Listed(row)
  BY <1>1 DEF Matches, Listed
<1>4. CoveredInv'  BY <1>1, <1>3 DEF LogInv, CoveredInv, After
<1>5. BehindInv' /\ AheadInv'  BY <1>1, <1>3 DEF LogInv, BehindInv, AheadInv, After
<1>6. WalkDescends' /\ CursorsLeadOn' /\ AccessInv'
  BY <1>1 DEF LogInv, WalkDescends, CursorsLeadOn, AccessInv, CanRead
<1> QED  BY <1>2, <1>4, <1>5, <1>6 DEF LogInv

LEMMA DeleteLinkStep ==
  ASSUME LogInv, NEW old \in Links, DeleteLink(old)
  PROVE  LogInv'
<1>1. /\ links' = links \ {old}
      /\ UNCHANGED <<present, account, granted, open, pc, role, filter, cursor, size,
                     walked, orderly, passed, empty, overrun>>
  BY DEF DeleteLink
<1>2. TypeOK'  BY <1>1 DEF LogInv, TypeOK
<1>3. \A row : (Matches(row)' => Matches(row)) /\ Listed(row)' = Listed(row)
  BY <1>1 DEF Matches, Listed
<1>4. CoveredInv'  BY <1>1, <1>3 DEF LogInv, CoveredInv, After
<1>5. BehindInv' /\ AheadInv'  BY <1>1, <1>3 DEF LogInv, BehindInv, AheadInv, After
<1>6. WalkDescends' /\ CursorsLeadOn' /\ AccessInv'
  BY <1>1 DEF LogInv, WalkDescends, CursorsLeadOn, AccessInv, CanRead
<1> QED  BY <1>2, <1>4, <1>5, <1>6 DEF LogInv

\* Steps that read or change no row: what the walk has given stays as it is.
LEMMA WalkRests ==
  ASSUME LogInv, UNCHANGED <<present, links, filter, cursor, walked, orderly, passed, empty>>,
         pc' = pc \/ (pc # "finished" /\ pc' # "finished"), TypeOK', AccessInv'
  PROVE  LogInv'
<1>1. \A row : Matches(row)' = Matches(row) /\ Listed(row)' = Listed(row)
  BY DEF Matches, Listed
<1>2. CoveredInv'  BY <1>1 DEF LogInv, CoveredInv, After
<1>3. BehindInv' /\ AheadInv'  BY <1>1 DEF LogInv, BehindInv, AheadInv, After
<1>4. WalkDescends' /\ CursorsLeadOn'  BY DEF LogInv, WalkDescends, CursorsLeadOn
<1> QED  BY <1>2, <1>3, <1>4 DEF LogInv

LEMMA NextLogInv == LogInv /\ [Next]_vars => LogInv'
<1> SUFFICES ASSUME LogInv, [Next]_vars  PROVE LogInv'  OBVIOUS
<1>1. TypeOK /\ AccessInv  BY DEF LogInv
<1>2. CASE ChangeAccess
  <2>1. /\ UNCHANGED <<present, links, pc, role, filter, cursor, size, walked, orderly,
                       passed, empty>>
        /\ overrun' = 0
        /\ account' \in Accounts /\ granted' \in BOOLEAN /\ open' \in BOOLEAN
    BY <1>1, <1>2 DEF ChangeAccess, TypeOK
  <2>2. TypeOK'  BY <1>1, <2>1 DEF TypeOK
  <2>3. AccessInv'  BY <1>1, <2>1 DEF AccessInv
  <2> QED  BY <2>1, <2>2, <2>3, WalkRests
<1>3. CASE Ask
  <2>1. /\ UNCHANGED <<present, links, account, granted, open, filter, cursor, walked,
                       orderly, passed, empty, overrun>>
        /\ pc = "idle" /\ role' = account /\ size' \in PageSizes
        /\ pc' = IF account = "gone" THEN "refused" ELSE "asked"
    BY <1>3 DEF Ask, env
  <2>2. TypeOK'  BY <1>1, <2>1 DEF TypeOK
  <2>3. AccessInv'  BY <1>1, <2>1 DEF AccessInv, CanRead
  <2> QED  BY <2>1, <2>2, <2>3, WalkRests
<1>4. CASE Authorize
  <2>1. /\ UNCHANGED <<present, links, account, granted, open, role, filter, cursor, size,
                       walked, orderly, passed, empty, overrun>>
        /\ pc = "asked" /\ pc' = IF Authorized THEN "reading" ELSE "refused"
    BY <1>4 DEF Authorize, env
  <2>2. TypeOK'  BY <1>1, <2>1 DEF TypeOK
  <2>3. overrun = 1 => ~Authorized
    BY <1>1, <2>1 DEF AccessInv, TypeOK, Accounts, Authorized, CanRead
  <2>4. AccessInv'  BY <1>1, <2>1, <2>3 DEF AccessInv, CanRead
  <2> QED  BY <2>1, <2>2, <2>4, WalkRests
<1>5. CASE UNCHANGED vars
  <2>1. TypeOK' /\ AccessInv'  BY <1>1, <1>5 DEF vars, env, TypeOK, AccessInv, CanRead
  <2> QED  BY <1>5, <2>1, WalkRests DEF vars, env
<1> QED
  BY <1>2, <1>3, <1>4, <1>5, InsertStep, DeleteLinkStep, ReadStep DEF Next, Walk

LEMMA LogInvariant == Spec => []LogInv
BY InitLogInv, NextLogInv, PTL DEF Spec

\* Each page of GET /api/access-logs leads to the next and never back: newer
\* rows first over all pages, whatever is committed in between, and a cursor
\* leads to a row.
THEOREM PagesLeadOn == Spec => []WalkAdvances
<1>1. LogInv => WalkAdvances  BY DEF LogInv, WalkAdvances
<1> QED  BY <1>1, LogInvariant, PTL

\* The walk to the last page gives each matching row, but those that were
\* committed when it was past their place.
THEOREM NoRowIsMissed == Spec => []WalkMissesNothing
<1>1. LogInv => WalkMissesNothing  BY DEF LogInv, CoveredInv, WalkMissesNothing
<1> QED  BY <1>1, LogInvariant, PTL

\* After the access of a client ends, at most the page that was authorized
\* before is given.
THEOREM AccessEndsWithinAPage == Spec => []AccessEnds
<1>1. LogInv => AccessEnds  BY DEF LogInv, AccessInv, AccessEnds
<1> QED  BY <1>1, LogInvariant, PTL

---------------------------------------------------------------------------
(* OffsetPaging: the lists that are paged by number. Neither specification *)
(* says anything of the variables of the other.                            *)

\* The items before one of them, and how many of them the client sees.
EarlierItems(from, item) == {other \in from : Before(other, item)}
Rank(item) == Cardinality(EarlierItems(Visible, item))

\* How many items the pages that were given reach over.
Reached == IF stage = "answered" THEN page * pageSize ELSE (page - 1) * pageSize

\* What is ahead of the walk, is ahead of it still.
StillAhead ==
  \A item \in Visible \ (come \cup gone \cup shown) :
    \/ Tied(item)
    \/ \E other \in gone : Before(other, item)
    \/ Rank(item) >= Reached

\* What was given is behind the walk still.
StillBehind ==
  \A item \in shown :
    \/ Tied(item)
    \/ \E other \in come : Before(other, item)
    \/ Rank(item) < Reached

\* The last total counts all that was in view then, and a walk during which
\* nothing changed has counted and given what is in view.
TotalsInv ==
  /\ stage # "total" => Cardinality(Visible \ late) <= total
  /\ come = {} /\ gone = {} =>
       /\ shown \subseteq Visible
       /\ stage # "total" => total = Cardinality(Visible)

OffsetInv == ListTypeOK /\ StillAhead /\ StillBehind /\ RepeatedWhenShifted /\ TotalsInv

---------------------------------------------------------------------------
\* Some of the items, and a part of them.
LEMMA PartsAreFinite ==
  ASSUME NEW from \in SUBSET Items
  PROVE  /\ IsFiniteSet(from) /\ Cardinality(from) \in Nat
         /\ Cardinality(from) <= Cardinality(Items) /\ Cardinality(Items) \in Nat
BY FS_Subset, FS_CardinalityType, OffsetAssumption

LEMMA PartIsSmaller ==
  ASSUME NEW from \in SUBSET Items, NEW part \in SUBSET from
  PROVE  /\ Cardinality(part) <= Cardinality(from)
         /\ Cardinality(part) \in Nat /\ Cardinality(from) \in Nat
BY PartsAreFinite, FS_Subset

LEMMA LeastOfTwo ==
  ASSUME NEW a \in Int, NEW b \in Int  PROVE Min({a, b}) = IF a <= b THEN a ELSE b
BY DEF Min

LEMMA GreatestOfTwo ==
  ASSUME NEW a \in Int, NEW b \in Int  PROVE Max({a, b}) = IF a <= b THEN b ELSE a
BY DEF Max

\* An item that is not tied has its place among all others.
LEMMA PlaceIsFixed ==
  ASSUME NEW item \in Items, NEW other \in Items
  PROVE  /\ ~(Before(item, other) /\ Before(other, item))
         /\ ~Tied(item) /\ other # item => Before(item, other) \/ Before(other, item)
<1>1. Created[item] \in Nat /\ Created[other] \in Nat /\ item \in Nat /\ other \in Nat
  BY OffsetAssumption
<1> QED  BY <1>1 DEF Before, Tied

\* A head is as long as it can be.
LEMMA HeadIsLong ==
  ASSUME NEW from \in SUBSET Items, NEW n \in Nat, NEW head \in Heads(from, n)
  PROVE  /\ head \subseteq from
         /\ Cardinality(head) = IF n <= Cardinality(from) THEN n ELSE Cardinality(from)
         /\ \A item \in head, other \in from \ head : ~Before(other, item)
BY PartsAreFinite, LeastOfTwo DEF Heads

\* An item with a place of its own is in the head if few enough are before it.
LEMMA HeadByRank ==
  ASSUME NEW from \in SUBSET Items, NEW n \in Nat, NEW head \in Heads(from, n),
         NEW item \in from, ~Tied(item)
  PROVE  item \in head <=> Cardinality(EarlierItems(from, item)) < n
<1> DEFINE before == EarlierItems(from, item)
<1>1. before \subseteq from /\ item \notin before
  BY PlaceIsFixed DEF EarlierItems
<1>2. /\ head \subseteq from
      /\ Cardinality(head) = IF n <= Cardinality(from) THEN n ELSE Cardinality(from)
      /\ \A q \in head, other \in from \ head : ~Before(other, q)
  BY HeadIsLong
<1>3. Cardinality(before \cup {item}) = Cardinality(before) + 1
  BY <1>1, PartsAreFinite, FS_AddElement
<1>4. /\ Cardinality(before) \in Nat /\ Cardinality(from) \in Nat
      /\ Cardinality(before \cup {item}) <= Cardinality(from)
  <2>1. before \in SUBSET from /\ before \cup {item} \in SUBSET from  BY <1>1
  <2> QED  BY <2>1, PartIsSmaller
<1>5. ASSUME item \in head  PROVE Cardinality(before) < n
  <2>1. before \cup {item} \in SUBSET head /\ head \in SUBSET Items
    BY <1>1, <1>2, <1>5 DEF EarlierItems
  <2>2. Cardinality(before \cup {item}) <= Cardinality(head)
    BY <2>1, PartIsSmaller
  <2> HIDE DEF before
  <2> QED  BY <1>2, <1>3, <1>4, <2>2
<1>6. ASSUME item \notin head  PROVE ~(Cardinality(before) < n)
  <2>1. head \in SUBSET before
    BY <1>2, <1>6, PlaceIsFixed DEF EarlierItems
  <2>2. Cardinality(head) <= Cardinality(before)
    BY <1>1, <2>1, PartIsSmaller
  <2> HIDE DEF before
  <2> QED  BY <1>2, <1>3, <1>4, <2>2
<1> QED  BY <1>5, <1>6

\* The arithmetic of OFFSET and LIMIT.
LEMMA OnePageMore ==
  ASSUME NEW p \in Int, NEW s \in Int  PROVE (p - 1) * s \in Int /\ p * s = (p - 1) * s + s
BY SMT

LEMMA SkippedIsCounted ==
  ASSUME NEW p \in Nat \ {0}, NEW s \in Nat  PROVE (p - 1) * s \in Nat
BY SMT

\* A page has exactly the items whose rank is within it.
LEMMA PageByRank ==
  ASSUME NEW from \in SUBSET Items, page \in Nat \ {0}, pageSize \in Nat,
         NEW answer \in Pages(from), NEW item \in from, ~Tied(item)
  PROVE  LET rank == Cardinality(EarlierItems(from, item))
         IN item \in answer <=> (page - 1) * pageSize <= rank /\ rank < page * pageSize
<1> DEFINE skip == (page - 1) * pageSize
           before == EarlierItems(from, item)
<1>1. skip \in Nat /\ page * pageSize = skip + pageSize
  BY OnePageMore, SkippedIsCounted
<1>2. PICK skipped \in Heads(from, skip) : answer \in Heads(from \ skipped, pageSize)
  BY DEF Pages
<1> HIDE DEF skip
<1>3. item \in skipped <=> Cardinality(before) < skip
  BY <1>1, HeadByRank
<1>4. before \in SUBSET from /\ Cardinality(before) \in Nat /\ Cardinality(from) \in Nat
      /\ Cardinality(before) <= Cardinality(from)
  BY PartIsSmaller DEF EarlierItems
<1>5. CASE item \in skipped
  <2>1. answer \subseteq from \ skipped  BY <1>2, HeadIsLong
  <2>2. ~(skip <= Cardinality(before))
    <3> HIDE DEF before
    <3> QED  BY <1>1, <1>3, <1>4, <1>5
  <2> QED  BY <1>5, <2>1, <2>2 DEF skip
<1>6. CASE item \notin skipped
  <2>1. skipped \in SUBSET before
    <3>1. /\ skipped \subseteq from
          /\ \A q \in skipped, other \in from \ skipped : ~Before(other, q)
      BY <1>1, HeadIsLong
    <3>2. \A q \in skipped : q \in Items /\ q # item /\ ~Before(item, q)
      BY <1>6, <3>1
    <3>3. \A q \in skipped : Before(q, item)
      BY <3>2, PlaceIsFixed
    <3> QED  BY <3>1, <3>3 DEF EarlierItems
  <2>2. Cardinality(skipped) = skip
    <3> HIDE DEF before
    <3>1. Cardinality(skipped) = IF skip <= Cardinality(from) THEN skip ELSE Cardinality(from)
      BY <1>1, HeadIsLong
    <3> QED  BY <1>1, <1>3, <1>4, <1>6, <3>1
  <2>3. Cardinality(before \ skipped) = Cardinality(before) - skip
    <3>1. IsFiniteSet(before) /\ IsFiniteSet(skipped)
      BY <1>4, <2>1, PartsAreFinite
    <3>2. before \cap skipped = skipped  BY <2>1
    <3> HIDE DEF before
    <3> QED  BY <2>2, <3>1, <3>2, FS_Difference
  <2>4. EarlierItems(from \ skipped, item) = before \ skipped  BY DEF EarlierItems
  <2>5. item \in answer <=> Cardinality(before \ skipped) < pageSize
    <3>1. from \ skipped \in SUBSET Items /\ item \in from \ skipped  BY <1>6
    <3>2. item \in answer <=> Cardinality(EarlierItems(from \ skipped, item)) < pageSize
      BY <1>2, <3>1, HeadByRank
    <3> QED  BY <2>4, <3>2
  <2> HIDE DEF before
  <2>6. item \in answer <=> skip <= Cardinality(before) /\ Cardinality(before) < skip + pageSize
    BY <1>1, <1>3, <1>4, <1>6, <2>3, <2>5
  <2> QED  BY <1>1, <2>6 DEF before, skip
<1> QED  BY <1>5, <1>6

LEMMA PageIsShort ==
  ASSUME NEW from \in SUBSET Items, page \in Nat \ {0}, pageSize \in Nat,
         NEW answer \in Pages(from)
  PROVE  answer \subseteq from /\ Cardinality(answer) <= pageSize
<1>1. PICK skipped \in SUBSET from : answer \in Heads(from \ skipped, pageSize)
  BY DEF Pages, Heads
<1>2. Cardinality(from \ skipped) \in Nat  BY PartsAreFinite
<1> QED  BY <1>1, <1>2, HeadIsLong

---------------------------------------------------------------------------
LEMMA InitOffsetInv == ASSUME ListInit  PROVE OffsetInv
<1>1. Cardinality({}) = 0 /\ Cardinality(Items) \in Nat
  BY FS_EmptySet, FS_CardinalityType, OffsetAssumption
<1>2. ListTypeOK
  <2>1. 1 \in 1..Max({1, Cardinality(Items)})  BY <1>1, GreatestOfTwo
  <2>2. hidden \subseteq Items  BY DEF ListInit, Groups, Lists
  <2>3. pageSize \in Nat  BY OffsetAssumption DEF ListInit
  <2> QED  BY <1>1, <2>1, <2>2, <2>3 DEF ListInit, ListTypeOK
<1>3. StillAhead
  <2>1. Reached = 0  BY OffsetAssumption DEF ListInit, Reached
  <2>2. \A item \in Items : Rank(item) \in Nat
    BY <1>2, PartsAreFinite DEF Rank, EarlierItems, Visible, ListTypeOK
  <2> QED  BY <1>2, <2>1, <2>2 DEF StillAhead, Visible, ListTypeOK
<1> QED  BY <1>2, <1>3 DEF ListInit, OffsetInv, StillBehind, RepeatedWhenShifted, TotalsInv

\* What every change of the tables has in common.
Shift ==
  /\ Visible \ Visible' \subseteq gone'
  /\ Visible' \ Visible \subseteq late'
  /\ gone \subseteq gone' /\ come \subseteq come' /\ late \subseteq late'
  /\ UNCHANGED <<list, page, pageSize, stage, total, items, shown, twice>>

LEMMA ChangesShift ==
  ASSUME ListTypeOK,
         \/ \E item \in Items : Create(item) \/ Delete(item)
         \/ \E group \in Groups : Hide(group) \/ Show(group)
  PROVE  Shift /\ ListTypeOK'
<1>1. CASE \E item \in Items : Create(item)
  BY <1>1 DEF Create, Shift, Visible, ListTypeOK
<1>2. CASE \E item \in Items : Delete(item)
  BY <1>2 DEF Delete, Shift, Visible, ListTypeOK
<1>3. \A group \in Groups : group \subseteq Items  BY DEF Groups
<1>4. CASE \E group \in Groups : Hide(group)
  BY <1>3, <1>4 DEF Hide, Shift, Visible, ListTypeOK
<1>5. CASE \E group \in Groups : Show(group)
  BY <1>3, <1>5 DEF Show, Shift, Visible, ListTypeOK
<1> QED  BY <1>1, <1>2, <1>4, <1>5

\* What leaves the view is gone, and can only bring others forward; what comes
\* into it can only put others back.
LEMMA ShiftKeeps == ASSUME OffsetInv, Shift, ListTypeOK'  PROVE OffsetInv'
<1> USE DEF OffsetInv
<1>1. Visible \in SUBSET Items /\ Visible' \in SUBSET Items
  BY DEF ListTypeOK, Visible
<1>2. late' \subseteq come'  BY DEF ListTypeOK
<1>3. \A item, other : /\ Before(item, other)' <=> Before(item, other)
                       /\ Tied(item)' <=> Tied(item)
  BY DEF Shift, Before, Tied
<1>4. Reached' = Reached  BY DEF Shift, Reached
<1>5. \A item \in Items : Rank(item) \in Nat /\ Rank(item)' \in Nat
  BY <1>1, PartsAreFinite DEF Rank, EarlierItems
<1>6. Reached \in Int  BY OffsetAssumption DEF Reached, ListTypeOK
<1>7. StillAhead'
  <2> SUFFICES ASSUME NEW item \in (Visible \ (come \cup gone \cup shown))',
                      ~Tied(item), \A other \in gone' : ~Before(other, item)
               PROVE  Rank(item)' >= Reached
    BY <1>3, <1>4 DEF StillAhead
  <2>1. item \in Visible \ (come \cup gone \cup shown)  BY <1>2 DEF Shift
  <2>2. Rank(item) >= Reached  BY <2>1 DEF StillAhead, Shift
  <2>3. EarlierItems(Visible, item) \in SUBSET EarlierItems(Visible', item)
    BY DEF EarlierItems, Shift
  <2>4. EarlierItems(Visible, item)' = EarlierItems(Visible', item)
    BY <1>3 DEF EarlierItems
  <2>5. Rank(item) <= Rank(item)'
    BY <1>1, <2>3, <2>4, PartIsSmaller DEF Rank, EarlierItems
  <2> QED  BY <1>1, <1>5, <1>6, <2>1, <2>2, <2>5
<1>8. StillBehind'
  <2> SUFFICES ASSUME NEW item \in shown, ~Tied(item), \A other \in come' : ~Before(other, item)
               PROVE  Rank(item)' < Reached
    BY <1>3, <1>4 DEF StillBehind, Shift
  <2>1. Rank(item) < Reached  BY DEF StillBehind, Shift
  <2>2. EarlierItems(Visible', item) \in SUBSET EarlierItems(Visible, item)
    BY <1>2 DEF EarlierItems, Shift
  <2>3. EarlierItems(Visible, item)' = EarlierItems(Visible', item)
    BY <1>3 DEF EarlierItems
  <2>4. Rank(item)' <= Rank(item)
    BY <1>1, <2>2, <2>3, PartIsSmaller DEF Rank, EarlierItems
  <2>5. item \in Items  BY DEF ListTypeOK
  <2> QED  BY <1>5, <1>6, <2>1, <2>4, <2>5
<1>9. RepeatedWhenShifted'  BY <1>3 DEF RepeatedWhenShifted, Shift
<1>10. TotalsInv'
  <2>1. (Visible \ late)' \in SUBSET (Visible \ late)  BY DEF Shift
  <2>2. Cardinality((Visible \ late)') <= Cardinality(Visible \ late)
        /\ Cardinality((Visible \ late)') \in Nat /\ Cardinality(Visible \ late) \in Nat
    BY <1>1, <2>1, PartIsSmaller
  <2>3. stage' # "total" => Cardinality((Visible \ late)') <= total'
    BY <2>2 DEF TotalsInv, Shift, ListTypeOK
  <2>4. come' = {} /\ gone' = {} => Visible' = Visible /\ come = {} /\ gone = {}
    BY <1>2 DEF Shift
  <2> QED  BY <2>3, <2>4 DEF TotalsInv, Shift
<1> QED  BY <1>7, <1>8, <1>9, <1>10

LEMMA CountKeeps == ASSUME OffsetInv, CountItems  PROVE OffsetInv'
<1> USE DEF OffsetInv, CountItems
<1>1. Visible \in SUBSET Items /\ Visible' = Visible
  BY DEF ListTypeOK, Visible
<1>2. ListTypeOK'  BY <1>1, PartsAreFinite DEF ListTypeOK
<1>3. \A item : (Tied(item)' <=> Tied(item)) /\ Rank(item)' = Rank(item)
  BY <1>1 DEF Tied, Rank, EarlierItems, Before
<1>4. Reached' = Reached  BY DEF Reached
<1>5. \A item, other : Before(item, other)' <=> Before(item, other)
  BY DEF Before
<1>6. StillAhead' /\ StillBehind' /\ RepeatedWhenShifted'
  BY <1>1, <1>3, <1>4, <1>5 DEF StillAhead, StillBehind, RepeatedWhenShifted
<1>7. TotalsInv'
  <2>1. Visible \ {} = Visible  OBVIOUS
  <2> QED  BY <1>1, <2>1, PartsAreFinite DEF TotalsInv
<1> QED  BY <1>2, <1>6, <1>7

\* A page has what is next by rank, so what is ahead or behind stays so.
LEMMA ReadKeeps == ASSUME OffsetInv, ReadItems  PROVE OffsetInv'
<1> USE DEF OffsetInv
<1>1. /\ Visible \in SUBSET Items /\ Visible' = Visible
      /\ stage = "items" /\ stage' = "answered" /\ items' \in Pages(Visible)
      /\ shown' = shown \cup items' /\ twice' = twice \cup (shown \cap items')
      /\ UNCHANGED <<list, come, gone, late, page, pageSize, total>>
  BY DEF ReadItems, db, ListTypeOK, Visible
<1>2. page \in Nat \ {0} /\ pageSize \in Nat  BY OffsetAssumption DEF ListTypeOK
<1>3. items' \subseteq Visible /\ Cardinality(items') <= pageSize
  BY <1>1, <1>2, PageIsShort
<1>4. ListTypeOK'  BY <1>1, <1>3, ReadItems DEF ReadItems, db, ListTypeOK
<1>5. \A item : (Tied(item)' <=> Tied(item)) /\ Rank(item)' = Rank(item)
  BY <1>1 DEF Tied, Rank, EarlierItems, Before
<1>6. Reached = (page - 1) * pageSize /\ Reached' = page * pageSize  BY <1>1 DEF Reached
<1>7. \A item, other : Before(item, other)' <=> Before(item, other)
  BY <1>1 DEF Before
<1>8. \A item \in Visible : ~Tied(item) =>
        (item \in items' <=> Reached <= Rank(item) /\ Rank(item) < Reached')
  BY <1>1, <1>2, <1>6, PageByRank DEF Rank
<1>9. Reached \in Int /\ Reached' \in Int /\ Reached <= Reached'
  BY <1>2, <1>6, OnePageMore
<1>10. \A item \in Items : Rank(item) \in Nat
  BY <1>1, PartsAreFinite DEF Rank, EarlierItems
<1>11. StillAhead'
  BY <1>1, <1>5, <1>7, <1>8, <1>9, <1>10 DEF StillAhead
<1>12. StillBehind'
  <2> SUFFICES ASSUME NEW item \in shown \cup items', ~Tied(item),
                      \A other \in come : ~Before(other, item)
               PROVE  Rank(item) < Reached'
    BY <1>1, <1>5, <1>7 DEF StillBehind
  <2>1. CASE item \in items'  BY <1>3, <1>8, <2>1
  <2>2. CASE item \in shown
    <3>1. item \in Items  BY <2>2 DEF ListTypeOK
    <3>2. Rank(item) < Reached  BY <2>2 DEF StillBehind
    <3> QED  BY <1>9, <1>10, <3>1, <3>2
  <2> QED  BY <2>1, <2>2
<1>13. RepeatedWhenShifted'
  <2> SUFFICES ASSUME NEW item \in shown \cap items', ~Tied(item),
                      \A other \in come : ~Before(other, item)
               PROVE  FALSE
    BY <1>1, <1>5, <1>7 DEF RepeatedWhenShifted
  <2>1. item \in Visible /\ Reached <= Rank(item)  BY <1>3, <1>8
  <2>2. Rank(item) < Reached  BY DEF StillBehind
  <2> QED  BY <1>1, <1>9, <1>10, <2>1, <2>2
<1>14. TotalsInv'  BY <1>1, <1>3 DEF TotalsInv
<1> QED  BY <1>4, <1>11, <1>12, <1>13, <1>14

LEMMA NextPageKeeps == ASSUME OffsetInv, NextPage  PROVE OffsetInv'
<1> USE DEF OffsetInv
<1>1. /\ Visible' = Visible /\ stage = "answered" /\ stage' = "total"
      /\ page * pageSize < total /\ page' = page + 1
      /\ UNCHANGED <<list, existing, hidden, come, gone, late, pageSize, total, items, shown, twice>>
  BY DEF NextPage, db, Visible
<1>2. ListTypeOK'
  <2>1. Cardinality(Items) \in Nat  BY FS_CardinalityType, OffsetAssumption
  <2>2. page \in Nat \ {0} /\ pageSize \in Nat \ {0} /\ total \in Nat /\ total <= Cardinality(Items)
    BY <2>1, GreatestOfTwo, OffsetAssumption DEF ListTypeOK
  <2>3. page <= page * pageSize  BY <2>2, SMT
  <2>4. page + 1 \in 1..Max({1, Cardinality(Items)})
    BY <1>1, <2>1, <2>2, <2>3, GreatestOfTwo
  <2> QED  BY <1>1, <2>4 DEF ListTypeOK
<1>3. \A item : (Tied(item)' <=> Tied(item)) /\ Rank(item)' = Rank(item)
  BY <1>1 DEF Tied, Rank, EarlierItems, Before
<1>4. Reached' = Reached
  <2>1. page \in Int  BY DEF ListTypeOK
  <2>2. page' - 1 = page  BY <1>1, <2>1
  <2>3. Reached = page * pageSize  BY <1>1 DEF Reached
  <2>4. Reached' = (page' - 1) * pageSize'  BY <1>1 DEF Reached
  <2> QED  BY <1>1, <2>2, <2>3, <2>4, Zenon
<1>5. \A item, other : Before(item, other)' <=> Before(item, other)
  BY <1>1 DEF Before
<1>6. StillAhead' /\ StillBehind' /\ RepeatedWhenShifted'
  BY <1>1, <1>3, <1>4, <1>5 DEF StillAhead, StillBehind, RepeatedWhenShifted
<1>7. TotalsInv'  BY <1>1 DEF TotalsInv
<1> QED  BY <1>2, <1>6, <1>7

LEMMA NextOffsetInv ==
  ASSUME OffsetInv, [ListNext]_listVars
  PROVE  OffsetInv'
<1>1. CASE UNCHANGED listVars
  <2>1. Visible' = Visible /\ Reached' = Reached /\ UNCHANGED <<list, shown, twice, come, gone, late, stage, total>>
    BY <1>1 DEF listVars, db, Visible, Reached
  <2>2. \A item : (Tied(item)' <=> Tied(item)) /\ Rank(item)' = Rank(item)
    BY <2>1 DEF Tied, Rank, EarlierItems, Before
  <2>3. \A item, other : Before(item, other)' <=> Before(item, other)
    BY <2>1 DEF Before
  <2>4. ListTypeOK'  BY <1>1 DEF OffsetInv, ListTypeOK, listVars, db
  <2> QED  BY <2>1, <2>2, <2>3, <2>4 DEF OffsetInv, StillAhead, StillBehind,
                RepeatedWhenShifted, TotalsInv
<1>2. CASE \/ \E item \in Items : Create(item) \/ Delete(item)
           \/ \E group \in Groups : Hide(group) \/ Show(group)
  <2>1. Shift /\ ListTypeOK'  BY <1>2, ChangesShift DEF OffsetInv
  <2> QED  BY <2>1, ShiftKeeps
<1>3. CASE CountItems \/ ReadItems \/ NextPage
  BY <1>3, CountKeeps, ReadKeeps, NextPageKeeps
<1> QED  BY <1>1, <1>2, <1>3 DEF ListNext

LEMMA OffsetInvariant == ListSpec => []OffsetInv
<1>1. ListInit => OffsetInv  BY InitOffsetInv
<1>2. OffsetInv /\ [ListNext]_listVars => OffsetInv'  BY NextOffsetInv
<1> QED  BY <1>1, <1>2, PTL DEF ListSpec

\* Whoever was passed over has as many items before it as the last total says
\* there are, so one of them is not among those it counted.
LEMMA InvMissed == ASSUME OffsetInv  PROVE MissedWhenShifted
<1> SUFFICES ASSUME Walked, NEW item \in Visible \ (come \cup gone \cup shown), ~Tied(item),
                    \A other \in gone \cup late : ~Before(other, item)
             PROVE  FALSE
  BY DEF MissedWhenShifted
<1> USE DEF OffsetInv
<1> DEFINE before == EarlierItems(Visible, item)
<1>1. Visible \in SUBSET Items /\ late \subseteq come  BY DEF ListTypeOK, Visible
<1>2. before \cup {item} \in SUBSET (Visible \ late) /\ item \notin before
  BY <1>1, PlaceIsFixed DEF EarlierItems
<1>3. Cardinality(before) >= page * pageSize
  BY DEF StillAhead, Reached, Rank, Walked
<1>4. page * pageSize >= total /\ total >= Cardinality(Visible \ late) /\ page * pageSize \in Int /\ total \in Int
  BY OffsetAssumption DEF Walked, TotalsInv, ListTypeOK
<1>5. Cardinality(before \cup {item}) = Cardinality(before) + 1
  BY <1>1, <1>2, PartsAreFinite, FS_AddElement
<1>6. /\ Cardinality(before \cup {item}) <= Cardinality(Visible \ late)
      /\ Cardinality(Visible \ late) \in Nat
  BY <1>1, <1>2, PartIsSmaller
<1>7. Cardinality(before) \in Nat  BY <1>1, <1>2, PartsAreFinite
<1> HIDE DEF before
<1> QED  BY <1>3, <1>4, <1>5, <1>6, <1>7

LEMMA InvQuiet == ASSUME OffsetInv  PROVE QuietWalkIsExact
<1> SUFFICES ASSUME Walked, come = {}, gone = {}
             PROVE  /\ total = Cardinality(Visible) /\ shown \subseteq Visible
                    /\ \A item \in Visible : item \in shown \/ Tied(item)
                    /\ \A item \in twice : Tied(item)
  BY DEF QuietWalkIsExact
<1>1. late = {}  BY DEF OffsetInv, ListTypeOK
<1>2. MissedWhenShifted  BY InvMissed
<1>3. \A item \in Visible : item \in shown \/ Tied(item)
  BY <1>1, <1>2 DEF MissedWhenShifted
<1>4. \A item \in twice : Tied(item)  BY DEF OffsetInv, RepeatedWhenShifted
<1> QED  BY <1>3, <1>4 DEF OffsetInv, TotalsInv, Walked

\* An item is missed only if one before it went out of view, or came into view
\* between the total and the items of the last page, and is given again only if
\* one before it came into view (OnlyShiftsDisturb; short_links.py:254-299).
THEOREM OnlyShiftsDisturbLists == ListSpec => []OnlyShiftsDisturb
<1>1. OffsetInv => OnlyShiftsDisturb  BY InvMissed DEF OffsetInv, OnlyShiftsDisturb
<1> QED  BY <1>1, OffsetInvariant, PTL

\* A walk during which nothing changes gives every item once, and as many as each
\* total said (QuietWalkIsExact).
THEOREM QuietListsAreExact == ListSpec => []QuietWalkIsExact
<1>1. OffsetInv => QuietWalkIsExact  BY InvQuiet
<1> QED  BY <1>1, OffsetInvariant, PTL

===========================================================================
