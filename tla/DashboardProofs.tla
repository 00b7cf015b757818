-------------------------- MODULE DashboardProofs --------------------------
(*************************************************************************)
(* Theorems about Dashboard, for any rows, links, zone and lengths of    *)
(* window and list: the four counts of a report fit together whatever    *)
(* happens between their statements, the list of links is of links, and  *)
(* the same rows give the same report.                                   *)
(*************************************************************************)
EXTENDS Dashboard, FiniteSetTheorems, WellFoundedInduction, TLAPS

---------------------------------------------------------------------------
(* Sums.                                                                   *)

\* Among some sets of a finite set's elements there is a least.
LEMMA LeastSet ==
  ASSUME NEW S, IsFiniteSet(S), NEW sets \in SUBSET (SUBSET S), sets # {}
  PROVE  \E least \in sets : \A other \in sets : ~(other \subseteq least /\ other # least)
<1> DEFINE smaller == StrictSubsetOrdering(S)
<1>1. FiniteSubsetsOf(S) = SUBSET S  BY FS_FiniteSubsetsOfFinite
<1>2. IsWellFoundedOn(smaller, FiniteSubsetsOf(S))
  BY FS_StrictSubsetOrderingWellFounded
<1>3. PICK least \in sets : \A other \in sets : ~(<<other, least>> \in smaller)
  BY <1>1, <1>2, WFMin
<1>4. \A other \in sets : other \subseteq least /\ other # least => <<other, least>> \in smaller
  BY DEF StrictSubsetOrdering
<1>5. \A other \in sets : ~(other \subseteq least /\ other # least)
  BY <1>3, <1>4, Zenon
<1> QED  BY <1>5, Zenon

\* How MapThenSumSet adds up weights.
IsSum(iter, weight, S) ==
  iter = [s \in SUBSET S |->
            IF s = {} THEN 0
            ELSE weight[CHOOSE x \in s : TRUE] + iter[s \ {CHOOSE x \in s : TRUE}]]

SumOf(weight, S) == (CHOOSE iter : IsSum(iter, weight, S))[S]

Joined(parts, S) == UNION {parts[x] : x \in S}

Disjoint(parts, S) == \A x, y \in S : x # y => parts[x] \cap parts[y] = {}

\* The size of some of the rows.
LEMMA SomeRowsAreFinite ==
  ASSUME NEW rows \in SUBSET Rows
  PROVE  /\ IsFiniteSet(rows) /\ Cardinality(rows) \in Nat /\ Cardinality(rows) <= Cardinality(Rows)
         /\ Cardinality(Rows) \in Nat /\ (rows # {} => Cardinality(rows) >= 1)
<1>1. IsFiniteSet(rows) /\ IsFiniteSet(Rows)  BY FS_Subset, DashboardAssumption
<1>2. Cardinality(rows) \in Nat /\ Cardinality(Rows) \in Nat  BY <1>1, FS_CardinalityType
<1>3. rows # {} => Cardinality(rows) # 0  BY <1>1, FS_EmptySet
<1>4. Cardinality(rows) <= Cardinality(Rows)  BY <1>1, FS_Subset
<1> QED  BY <1>1, <1>2, <1>3, <1>4

LEMMA FewerRows ==
  ASSUME NEW rows \in SUBSET Rows, NEW some \in SUBSET rows
  PROVE  /\ Cardinality(some) <= Cardinality(rows)
         /\ Cardinality(some) \in Nat /\ Cardinality(rows) \in Nat
BY SomeRowsAreFinite, FS_Subset

\* One part after another.
LEMMA PartAdds ==
  ASSUME NEW S, NEW parts \in [S -> SUBSET Rows], Disjoint(parts, S),
         NEW s \in SUBSET S, NEW x \in s
  PROVE  /\ Cardinality(Joined(parts, s)) = Cardinality(parts[x]) + Cardinality(Joined(parts, s \ {x}))
         /\ Cardinality(parts[x]) \in Nat /\ Cardinality(Joined(parts, s)) \in Nat
<1> DEFINE part == parts[x]
           rest == Joined(parts, s \ {x})
<1>1. /\ part \in SUBSET Rows /\ rest \in SUBSET Rows
      /\ part \cap rest = {} /\ Joined(parts, s) = part \cup rest
  BY DEF Joined, Disjoint
<1> HIDE DEF part, rest
<1>2. IsFiniteSet(part) /\ IsFiniteSet(rest) /\ Cardinality(part) \in Nat /\ Cardinality(rest) \in Nat
  BY <1>1, SomeRowsAreFinite
<1>3. Cardinality(part \cup rest) = Cardinality(part) + Cardinality(rest) - Cardinality(part \cap rest)
  BY <1>2, FS_Union
<1>4. Cardinality(part \cap rest) = 0  BY <1>1, FS_EmptySet
<1>5. Cardinality(part \cup rest) = Cardinality(part) + Cardinality(rest)
  BY <1>2, <1>3, <1>4
<1> QED  BY <1>1, <1>2, <1>5 DEF part, rest

\* The sum of the sizes of disjoint parts is the size of them all: for the
\* least set of parts of which it were not, it would be of one part less.
LEMMA SumIsSizeOfUnion ==
  ASSUME NEW S, IsFiniteSet(S), NEW parts \in [S -> SUBSET Rows],
         Disjoint(parts, S), NEW weight, \A x \in S : weight[x] = Cardinality(parts[x])
  PROVE  SumOf(weight, S) = Cardinality(Joined(parts, S))
<1> DEFINE size == [s \in SUBSET S |-> Cardinality(Joined(parts, s))]
           iter == CHOOSE f : IsSum(f, weight, S)
           Pick(s) == CHOOSE x \in s : TRUE
<1>1. \A s \in SUBSET S : s # {} =>
        Pick(s) \in s /\ size[s] = weight[Pick(s)] + size[s \ {Pick(s)}]
  <2> SUFFICES ASSUME NEW s \in SUBSET S, s # {}
               PROVE  Pick(s) \in s /\ size[s] = weight[Pick(s)] + size[s \ {Pick(s)}]
    OBVIOUS
  <2>1. Pick(s) \in s  OBVIOUS
  <2> HIDE DEF Pick
  <2>2. Cardinality(Joined(parts, s))
          = Cardinality(parts[Pick(s)]) + Cardinality(Joined(parts, s \ {Pick(s)}))
    BY <2>1, PartAdds
  <2>3. s \ {Pick(s)} \in SUBSET S /\ Pick(s) \in S  BY <2>1
  <2> QED  BY <2>1, <2>2, <2>3
<1>2. size[{}] = 0
  BY FS_EmptySet DEF Joined
<1>3. IsSum(size, weight, S)
  BY <1>1, <1>2 DEF IsSum
<1>4. IsSum(iter, weight, S)  BY <1>3
<1> HIDE DEF size, iter
<1>5. \A s \in SUBSET S : iter[s] = IF s = {} THEN 0 ELSE weight[Pick(s)] + iter[s \ {Pick(s)}]
  BY <1>4 DEF IsSum
<1> HIDE DEF Pick
<1>6. \A s \in SUBSET S : iter[s] = size[s]
  <2> DEFINE wrong == {s \in SUBSET S : iter[s] # size[s]}
  <2> SUFFICES ASSUME wrong # {}  PROVE FALSE  OBVIOUS
  <2>1. PICK s \in wrong : \A other \in wrong : ~(other \subseteq s /\ other # s)
    <3>1. wrong \in SUBSET (SUBSET S)  OBVIOUS
    <3> HIDE DEF wrong
    <3> QED  BY <3>1, LeastSet
  <2>2. CASE s = {}  BY <1>2, <1>5, <2>2
  <2>3. CASE s # {}
    <3>1. Pick(s) \in s /\ s \ {Pick(s)} \subseteq s /\ s \ {Pick(s)} # s
      BY <1>1, <2>3
    <3>2. iter[s \ {Pick(s)}] = size[s \ {Pick(s)}]  BY <2>1, <3>1
    <3> QED  BY <1>1, <1>5, <2>3, <3>2
  <2> QED  BY <2>2, <2>3
<1> QED  BY <1>6 DEF SumOf, size, iter

\* Total and OverDays are such sums.
LEMMA TotalIsSum ==
  ASSUME NEW entries, NEW weight, \A entry \in entries : weight[entry] = entry.total
  PROVE  Total(entries) = SumOf(weight, entries)
<1>1. Total(entries) =
        (CHOOSE iter : iter = [s \in SUBSET entries |->
            IF s = {} THEN 0
            ELSE (CHOOSE x \in s : TRUE).total + iter[s \ {CHOOSE x \in s : TRUE}]])[entries]
  BY Zenon DEF Total, MapThenSumSet, MapThenFoldSet
<1>2. \A s \in SUBSET entries : s # {} => weight[CHOOSE x \in s : TRUE] = (CHOOSE x \in s : TRUE).total
  OBVIOUS
<1>3. ASSUME NEW iter
      PROVE  [s \in SUBSET entries |->
                IF s = {} THEN 0
                ELSE (CHOOSE x \in s : TRUE).total + iter[s \ {CHOOSE x \in s : TRUE}]]
           = [s \in SUBSET entries |->
                IF s = {} THEN 0
                ELSE weight[CHOOSE x \in s : TRUE] + iter[s \ {CHOOSE x \in s : TRUE}]]
  BY <1>2
<1>4. \A iter : IsSum(iter, weight, entries) <=> iter = [s \in SUBSET entries |->
            IF s = {} THEN 0
            ELSE (CHOOSE x \in s : TRUE).total + iter[s \ {CHOOSE x \in s : TRUE}]]
  <2> TAKE iter
  <2> QED  BY <1>3 DEF IsSum
<1>5. (CHOOSE iter : IsSum(iter, weight, entries)) = (CHOOSE iter : iter = [s \in SUBSET entries |->
            IF s = {} THEN 0
            ELSE (CHOOSE x \in s : TRUE).total + iter[s \ {CHOOSE x \in s : TRUE}]])
  BY <1>4, Zenon
<1> QED  BY <1>1, <1>5, Zenon DEF SumOf

\* The sum over days of one of their counts.
Over(d, count) == MapThenSumSet(LAMBDA day : d[day][count], DOMAIN d)

LEMMA OverDaysIsSum ==
  ASSUME NEW d, NEW count, NEW weight, \A day \in DOMAIN d : weight[day] = d[day][count]
  PROVE  Over(d, count) = SumOf(weight, DOMAIN d)
<1> DEFINE S == DOMAIN d
<1>1. Over(d, count) =
        (CHOOSE iter : iter = [s \in SUBSET S |->
            IF s = {} THEN 0
            ELSE d[CHOOSE x \in s : TRUE][count] + iter[s \ {CHOOSE x \in s : TRUE}]])[S]
  BY Zenon DEF Over, MapThenSumSet, MapThenFoldSet
<1>2. \A s \in SUBSET S : s # {} => weight[CHOOSE x \in s : TRUE] = d[CHOOSE x \in s : TRUE][count]
  OBVIOUS
<1> HIDE DEF S
<1>3. ASSUME NEW iter
      PROVE  [s \in SUBSET S |->
                IF s = {} THEN 0
                ELSE d[CHOOSE x \in s : TRUE][count] + iter[s \ {CHOOSE x \in s : TRUE}]]
           = [s \in SUBSET S |->
                IF s = {} THEN 0
                ELSE weight[CHOOSE x \in s : TRUE] + iter[s \ {CHOOSE x \in s : TRUE}]]
  BY <1>2
<1>4. \A iter : IsSum(iter, weight, S) <=> iter = [s \in SUBSET S |->
            IF s = {} THEN 0
            ELSE d[CHOOSE x \in s : TRUE][count] + iter[s \ {CHOOSE x \in s : TRUE}]]
  <2> TAKE iter
  <2> QED  BY <1>3 DEF IsSum
<1>5. (CHOOSE iter : IsSum(iter, weight, S)) = (CHOOSE iter : iter = [s \in SUBSET S |->
            IF s = {} THEN 0
            ELSE d[CHOOSE x \in s : TRUE][count] + iter[s \ {CHOOSE x \in s : TRUE}]])
  BY <1>4, Zenon
<1> QED  BY <1>1, <1>5, Zenon DEF SumOf, S
---------------------------------------------------------------------------
(* Groups, and the lists made of them.                                     *)

\* A list has an entry for each group, and no more.
LEMMA ImageIsFinite ==
  ASSUME NEW S, IsFiniteSet(S), NEW f, f = [x \in S |-> f[x]],
         NEW T, T = {f[x] : x \in S}
  PROVE  /\ IsFiniteSet(T)
         /\ (\A x, y \in S : f[x] = f[y] => x = y) => Cardinality(T) = Cardinality(S)
<1>1. f \in Surjection(S, T)  BY DEF Surjection
<1>2. IsFiniteSet(T) /\ (Cardinality(T) = Cardinality(S) <=> f \in Injection(S, T))
  BY <1>1, FS_Surjection
<1>3. (\A x, y \in S : f[x] = f[y] => x = y) => f \in Injection(S, T)
  BY <1>1 DEF Injection, Surjection, IsInjective
<1> QED  BY <1>2, <1>3

\* The row of rank 1 exists.
LEMMA NewestOf ==
  ASSUME NEW rows \in SUBSET Rows, rows # {}
  PROVE  /\ Newest(rows) \in rows
         /\ \A other \in rows : At[other] <= At[Newest(rows)]
<1> DEFINE Newer(q, r) == At[q] > At[r] \/ (At[q] = At[r] /\ q > r)
           Above(row) == {other \in rows : Newer(other, row)}
           sets == {Above(row) : row \in rows}
<1>1. \A row \in rows : row \in Nat /\ At[row] \in Nat  BY DashboardAssumption
<1>2. PICK least \in sets : \A other \in sets : ~(other \subseteq least /\ other # least)
  <2>1. sets \in SUBSET (SUBSET rows) /\ sets # {}  OBVIOUS
  <2>2. IsFiniteSet(rows)  BY SomeRowsAreFinite
  <2> HIDE DEF sets
  <2> QED  BY <2>1, <2>2, LeastSet
<1>3. PICK row \in rows : least = Above(row)  OBVIOUS
<1>4. ASSUME NEW other \in rows, Newer(other, row)  PROVE FALSE
  <2>1. Above(other) \in sets  OBVIOUS
  <2>2. other \in Above(row) /\ other \notin Above(other)
    BY <1>1, <1>4
  <2>3. Above(other) \subseteq Above(row)
    BY <1>1, <1>4
  <2> QED  BY <1>2, <1>3, <2>1, <2>2, <2>3
<1>5. \A other \in rows : At[row] > At[other] \/ (At[row] = At[other] /\ row >= other)
  BY <1>1, <1>4
<1>6. /\ Newest(rows) \in rows
      /\ \A other \in rows : At[Newest(rows)] > At[other] \/ (At[Newest(rows)] = At[other] /\ Newest(rows) >= other)
  BY <1>5, Zenon DEF Newest
<1> QED  BY <1>1, <1>6

\* The groups that a list is made of.
Groups(groups) ==
  /\ DOMAIN groups \subseteq Nat
  /\ IsFiniteSet(DOMAIN groups)
  /\ \A key \in DOMAIN groups : groups[key] \in SUBSET Rows /\ groups[key] # {}
  /\ Disjoint(groups, DOMAIN groups)

\* A list that is not full has every group.
LEMMA LeadersAreMost ==
  ASSUME NEW groups, Groups(groups), NEW keys \in Leaders(Size(groups))
  PROVE  /\ keys \subseteq DOMAIN groups /\ IsFiniteSet(keys)
         /\ Cardinality(keys) \in Nat /\ Cardinality(keys) <= Limit
         /\ Cardinality(keys) < Limit => keys = DOMAIN groups
<1>1. /\ keys \in SUBSET DOMAIN groups
      /\ Cardinality(keys) = Min({Limit, Cardinality(DOMAIN groups)})
  BY DEF Leaders, Size
<1>2. IsFiniteSet(keys) /\ Cardinality(keys) \in Nat /\ Cardinality(DOMAIN groups) \in Nat
  BY <1>1, FS_Subset, FS_CardinalityType DEF Groups
<1>3. Limit \in Nat  BY DashboardAssumption
<1>4. Cardinality(keys) = IF Limit <= Cardinality(DOMAIN groups) THEN Limit ELSE Cardinality(DOMAIN groups)
  BY <1>1, <1>2, <1>3 DEF Min
<1>5. Cardinality(keys) = Cardinality(DOMAIN groups) => keys = DOMAIN groups
  BY <1>1, FS_Subset DEF Groups
<1> QED  BY <1>1, <1>2, <1>3, <1>4, <1>5

\* ORDER BY leaves no choice: of two groups one comes before the other.
LEMMA LeadersAreOne ==
  ASSUME NEW groups, Groups(groups),
         NEW keys \in Leaders(Size(groups)), NEW others \in Leaders(Size(groups))
  PROVE  keys = others
<1>1. ASSUME NEW some \in Leaders(Size(groups)), NEW more \in Leaders(Size(groups)),
             NEW key \in some \ more
      PROVE  FALSE
  <2>1. Cardinality(some) = Cardinality(more) /\ some \in SUBSET DOMAIN groups /\ more \in SUBSET DOMAIN groups
    BY DEF Leaders, Size
  <2>2. IsFiniteSet(some)  BY LeadersAreMost
  <2>3. PICK other \in more \ some : TRUE
    BY <2>1, <2>2, FS_Subset
  <2>4. ~Before(Size(groups), key, other) /\ ~Before(Size(groups), other, key)
    BY <2>1, <2>3 DEF Leaders, Size
  <2>5. /\ key \in Nat /\ other \in Nat /\ key # other
        /\ Size(groups)[key] \in Nat /\ Size(groups)[other] \in Nat
    BY <2>1, <2>3, SomeRowsAreFinite DEF Groups, Size
  <2> QED  BY <2>4, <2>5 DEF Before
<1> QED  BY <1>1

\* Rows grouped by a key that is a number.
LEMMA GroupedRows ==
  ASSUME NEW rows \in SUBSET Rows, NEW key, key = [row \in rows |-> key[row]],
         \A row \in rows : key[row] \in Nat,
         NEW groups, groups = [k \in {key[row] : row \in rows} |-> {row \in rows : key[row] = k}]
  PROVE  Groups(groups) /\ Joined(groups, DOMAIN groups) = rows
<1>1. IsFiniteSet(DOMAIN groups)
  <2>1. IsFiniteSet(rows)  BY SomeRowsAreFinite
  <2> QED  BY <2>1, ImageIsFinite
<1> QED  BY <1>1 DEF Groups, Disjoint, Joined

\* The entries of a list: one of each key, and their totals count its rows.
LEMMA ListOfLeaders ==
  ASSUME NEW groups, Groups(groups), NEW keys \in Leaders(Size(groups)),
         NEW entry, entry = [k \in keys |-> entry[k]], NEW KeyOf,
         \A k \in keys : KeyOf[entry[k]] = k /\ entry[k].total = Cardinality(groups[k]),
         NEW list, list = {entry[k] : k \in keys}
  PROVE  /\ IsFiniteSet(list) /\ Cardinality(list) = Cardinality(keys)
         /\ Total(list) = Cardinality(Joined(groups, keys))
<1>1. IsFiniteSet(keys) /\ keys \subseteq DOMAIN groups  BY LeadersAreMost
<1>2. \A k, l \in keys : entry[k] = entry[l] => k = l  OBVIOUS
<1>3. IsFiniteSet(list) /\ Cardinality(list) = Cardinality(keys)
  BY <1>1, <1>2, ImageIsFinite
<1> DEFINE parts == [e \in list |-> groups[KeyOf[e]]]
           weight == [e \in list |-> e.total]
<1>4. /\ parts \in [list -> SUBSET Rows] /\ Disjoint(parts, list)
      /\ \A e \in list : weight[e] = Cardinality(parts[e])
  BY <1>1 DEF Groups, Disjoint
<1>5. Joined(parts, list) = Joined(groups, keys)
  <2>1. \A k \in keys : entry[k] \in list /\ parts[entry[k]] = groups[k]  OBVIOUS
  <2>2. \A e \in list : \E k \in keys : e = entry[k]  OBVIOUS
  <2> HIDE DEF parts
  <2>3. {parts[e] : e \in list} = {groups[k] : k \in keys}  BY <2>1, <2>2
  <2> QED  BY <2>3 DEF Joined
<1>6. \A e \in list : weight[e] = e.total  OBVIOUS
<1> HIDE DEF parts, weight
<1>7. SumOf(weight, list) = Cardinality(Joined(parts, list))
  BY <1>3, <1>4, SumIsSizeOfUnion
<1>8. Total(list) = SumOf(weight, list)  BY <1>6, TotalIsSum
<1> QED  BY <1>3, <1>5, <1>7, <1>8

---------------------------------------------------------------------------
(* The window.                                                             *)

\* Whole days: the last midnight that is not after an instant.
LEMMA QuotientBound ==
  ASSUME NEW x \in Nat, NEW d \in Nat \ {0}, NEW q \in Int
  PROVE  x \div d \in Int /\ (q * d <= x <=> q <= x \div d)
<1> DEFINE p == x \div d
           r == x % d
<1>1. p \in Int /\ r \in Int /\ x = d * p + r /\ 0 <= r /\ r < d  OBVIOUS
<1> HIDE DEF p, r
<1>2. q <= p => q * d <= d * p  BY <1>1
<1>3. ~(q <= p) => d * p + d <= q * d
  <2>1. ~(q <= p) => p + 1 <= q  BY <1>1
  <2>2. p + 1 <= q => d * (p + 1) <= d * q  BY <1>1
  <2>3. d * (p + 1) = d * p + d  BY <1>1
  <2> QED  BY <2>1, <2>2, <2>3, <1>1
<1> QED  BY <1>1, <1>2, <1>3 DEF p

\* Each row of the window is of one of its days.
LEMMA WindowHasItsDays ==
  ASSUME present \subseteq Rows, first \in Int, days \in Windows, NEW row \in Window
  PROVE  LocalDay(At[row]) \in first..(first + days - 1)
<1>1. /\ At[row] \in Nat /\ days \in Nat /\ DayLength \in Nat \ {0} /\ Offset \in Nat
      /\ At[row] + Offset \in Nat
  <2>1. row \in Rows /\ DayLength \in Nat \ {0} /\ Offset \in 0..DayLength
    BY DashboardAssumption DEF Window
  <2>2. At[row] \in Nat /\ days \in Nat  BY <2>1, DashboardAssumption
  <2> QED  BY <2>1, <2>2
<1>2. At[row] >= Midnight(first) /\ At[row] < Midnight(first + days)  BY DEF Window
<1>3. /\ first * DayLength \in Int /\ (first + days) * DayLength \in Int
      /\ first * DayLength <= At[row] + Offset
      /\ ~((first + days) * DayLength <= At[row] + Offset)
  BY <1>1, <1>2 DEF Midnight
<1>4. /\ LocalDay(At[row]) \in Int
      /\ first * DayLength <= At[row] + Offset <=> first <= LocalDay(At[row])
      /\ (first + days) * DayLength <= At[row] + Offset <=> first + days <= LocalDay(At[row])
  BY <1>1, QuotientBound DEF LocalDay
<1> QED  BY <1>1, <1>3, <1>4
---------------------------------------------------------------------------
(* The invariant.                                                          *)

AfterTop == {"referers", "done"}
AfterDaily == {"top"} \cup AfterTop
AfterTotals == {"daily"} \cup AfterDaily

DaysCounted == [day \in first..(first + days - 1) |-> Counts({row \in Window : LocalDay(At[row]) = day})]

TopGroups == [key \in {Identity(row) : row \in Window} |-> {row \in Window : Identity(row) = key}]

Named == {row \in Window : RefererOf[row] # NoReferer}
RefererGroups == [key \in {RefererOf[row] : row \in Named} |-> {row \in Named : RefererOf[row] = key}]

\* What the statements for the lists may answer.
IsTop(groups, list) == \E keys \in Leaders(Size(groups)) :
  list = {[identity |-> key, row |-> Newest(groups[key]), total |-> Size(groups)[key]] : key \in keys}

IsReferers(groups, list) == \E keys \in Leaders(Size(groups)) :
  list = {[referer |-> key, total |-> Size(groups)[key]] : key \in keys}

OfLink(rows, link) == {row \in rows : LinkOf[row] = link}

\* What each statement counted, against what was there before and what is now.
CountInv ==
  /\ pc \in AfterTotals => totals = Counts(counted) /\ counted \subseteq Window
  /\ pc \in AfterDaily => \A count \in {"total", "allowed", "blocked"} :
       /\ Over(daily, count) \in Nat
       /\ totals[count] <= Over(daily, count) /\ Over(daily, count) <= Counts(Window)[count]
  /\ pc \in AfterTop =>
       /\ Total(top) \in Nat /\ Total(top) <= Cardinality(Window)
       /\ Cardinality(top) < Limit => Over(daily, "total") <= Total(top)
  /\ pc = "done" => Total(referers) \in Nat /\ Total(referers) <= Cardinality(Named)

\* What the list of links says of the links that are there still.
TopInv ==
  pc \in AfterTop =>
    /\ \A entry \in top : LinkOf[entry.row] \in links =>
         /\ entry.identity = LinkOf[entry.row]
         /\ entry.total <= Cardinality(OfLink(Window, LinkOf[entry.row]))
         /\ entry.total >= Cardinality(OfLink(counted, LinkOf[entry.row]))
         /\ \A row \in OfLink(counted, LinkOf[entry.row]) : At[row] <= At[entry.row]
    /\ \A entry, other \in top : entry.identity = other.identity => entry = other
    /\ Cardinality(top) < Limit =>
         \A row \in counted : LinkOf[row] \in links =>
           \E entry \in top : LinkOf[entry.row] = LinkOf[row]
    /\ \A entry \in top : entry.identity \in Codes =>
         entry.total <= Cardinality({row \in Window : CodeOf[row] = entry.identity /\ LinkOf[row] \notin links})

\* While nothing changes, the answer is what the statements would give now, and
\* so was the answer before.
QuietInv ==
  /\ previous # NoReport =>
       /\ quiet
       /\ first = LocalDay(now) - (days - 1)
       /\ previous = <<Counts(Window), DaysCounted, previous[3], previous[4]>>
       /\ IsTop(TopGroups, previous[3])
       /\ IsReferers(RefererGroups, previous[4])
  /\ quiet =>
       /\ pc \notin {"idle", "refused"} => first = LocalDay(now) - (days - 1)
       /\ pc \in AfterTotals => totals = Counts(Window)
       /\ pc \in AfterDaily => daily = DaysCounted
       /\ pc \in AfterTop => IsTop(TopGroups, top)
       /\ pc = "done" => IsReferers(RefererGroups, referers)

DashboardInv == TypeOK /\ CountInv /\ TopInv /\ QuietInv

---------------------------------------------------------------------------
(* What the statements give.                                               *)

LEMMA WindowIsOfRows == ASSUME TypeOK  PROVE Window \in SUBSET Rows /\ Named \in SUBSET Window
BY DEF TypeOK, Window, Named

LEMMA CountsAreCounts ==
  ASSUME NEW rows \in SUBSET Rows
  PROVE  /\ Counts(rows) \in CountsOf(Rows)
         /\ \A count \in {"total", "allowed", "blocked"} : Counts(rows)[count] \in Nat
<1>1. /\ {row \in rows : Result[row] = "allowed"} \in SUBSET Rows
      /\ {row \in rows : Result[row] = "blocked"} \in SUBSET Rows
  OBVIOUS
<1>2. /\ Cardinality(rows) \in 0..Cardinality(Rows)
      /\ Cardinality({row \in rows : Result[row] = "allowed"}) \in Nat
      /\ Cardinality({row \in rows : Result[row] = "blocked"}) \in Nat
  BY <1>1, SomeRowsAreFinite
<1> QED  BY <1>2 DEF Counts, CountsOf

\* Rows that are committed meanwhile only add to the counts.
LEMMA MoreRowsCountMore ==
  ASSUME NEW rows \in SUBSET Rows, NEW some \in SUBSET rows
  PROVE  \A count \in {"total", "allowed", "blocked"} :
           Counts(some)[count] <= Counts(rows)[count]
<1>1. \A result : {row \in some : Result[row] = result} \in SUBSET {row \in rows : Result[row] = result}
  OBVIOUS
<1>2. \A result : {row \in rows : Result[row] = result} \in SUBSET Rows
  OBVIOUS
<1>3. \A result : Cardinality({row \in some : Result[row] = result})
                    <= Cardinality({row \in rows : Result[row] = result})
  BY <1>1, <1>2, FewerRows
<1>4. Cardinality(some) <= Cardinality(rows)  BY FewerRows
<1>5. /\ Counts(some)["total"] <= Counts(rows)["total"]
      /\ Counts(some)["allowed"] <= Counts(rows)["allowed"]
      /\ Counts(some)["blocked"] <= Counts(rows)["blocked"]
  BY <1>3, <1>4, Zenon DEF Counts
<1> QED  BY <1>5

\* The counts of the days add up to those of the window.
LEMMA DaysAddUp ==
  ASSUME TypeOK, NEW count \in {"total", "allowed", "blocked"}
  PROVE  Over(DaysCounted, count) = Counts(Window)[count]
<1> DEFINE S == first..(first + days - 1)
           Judged(rows) == CASE count = "total" -> rows
                             [] count = "allowed" -> {row \in rows : Result[row] = "allowed"}
                             [] count = "blocked" -> {row \in rows : Result[row] = "blocked"}
           OfDay(day) == {row \in Window : LocalDay(At[row]) = day}
           parts == [day \in S |-> Judged(OfDay(day))]
           weight == [day \in S |-> DaysCounted[day][count]]
<1>1. Window \in SUBSET Rows  BY WindowIsOfRows
<1>2. \A rows : Judged(rows) \subseteq rows /\ Counts(rows)[count] = Cardinality(Judged(rows))
  BY DEF Counts
<1>3. IsFiniteSet(S)
  <2>1. first \in Int /\ days \in Int  BY DashboardAssumption DEF TypeOK
  <2> QED  BY <2>1, FS_Interval
<1>4. parts \in [S -> SUBSET Rows] /\ Disjoint(parts, S)
  BY <1>1, <1>2 DEF Disjoint
<1>5. \A day \in S : weight[day] = Cardinality(parts[day])
  BY <1>2 DEF DaysCounted
<1>6. Joined(parts, S) = Judged(Window)
  <2>1. \A row \in Window : LocalDay(At[row]) \in S
    BY WindowHasItsDays DEF TypeOK
  <2>2. \A row : row \in Judged(Window) <=> row \in Window /\ row \in Judged(OfDay(LocalDay(At[row])))
    OBVIOUS
  <2>3. \A day \in S : \A row \in parts[day] : row \in Window /\ day = LocalDay(At[row])
    BY <1>2
  <2> HIDE DEF Judged, S, OfDay
  <2> QED  BY <1>2, <2>1, <2>2, <2>3 DEF Joined
<1>7. DOMAIN DaysCounted = S  BY DEF DaysCounted
<1> HIDE DEF S, parts, Judged
<1>8. SumOf(weight, S) = Cardinality(Joined(parts, S))
  BY <1>3, <1>4, <1>5, SumIsSizeOfUnion
<1>9. Over(DaysCounted, count) = SumOf(weight, S)
  <2>1. \A day \in DOMAIN DaysCounted : weight[day] = DaysCounted[day][count]  BY <1>7
  <2> HIDE DEF weight
  <2> QED  BY <1>7, <2>1, OverDaysIsSum
<1> QED  BY <1>2, <1>6, <1>8, <1>9

LEMMA IdentityIsANumber ==
  ASSUME TypeOK, NEW row \in Rows
  PROVE  Identity(row) \in Rows \cup Links \cup Codes /\ Identity(row) \in Nat
BY DashboardAssumption DEF TypeOK, Identity

\* A link that is there stands for all its rows and no others, and a code for
\* rows of deleted links.
LEMMA IdentityTellsLinks ==
  ASSUME TypeOK, NEW row \in Rows
  PROVE  /\ LinkOf[row] \in links => Identity(row) = LinkOf[row]
         /\ Identity(row) \in Links => LinkOf[row] \in links /\ Identity(row) = LinkOf[row]
         /\ Identity(row) \in Codes => LinkOf[row] \notin links /\ CodeOf[row] = Identity(row)
BY DashboardAssumption DEF TypeOK, Identity

\* The groups of either list are disjoint, and make up what is listed.
LEMMA TopIsOfGroups ==
  ASSUME TypeOK
  PROVE  Groups(TopGroups) /\ Joined(TopGroups, DOMAIN TopGroups) = Window
<1> DEFINE key == [row \in Window |-> Identity(row)]
<1>1. Window \in SUBSET Rows  BY WindowIsOfRows
<1>2. \A row \in Window : key[row] \in Nat  BY <1>1, IdentityIsANumber
<1>3. TopGroups = [k \in {key[row] : row \in Window} |-> {row \in Window : key[row] = k}]
  BY DEF TopGroups
<1>4. key = [row \in Window |-> key[row]]  OBVIOUS
<1> HIDE DEF key
<1> QED  BY <1>1, <1>2, <1>3, <1>4, GroupedRows

LEMMA RefererIsOfGroups ==
  ASSUME TypeOK
  PROVE  Groups(RefererGroups) /\ Joined(RefererGroups, DOMAIN RefererGroups) = Named
<1> DEFINE key == [row \in Named |-> RefererOf[row]]
<1>1. Named \in SUBSET Rows  BY WindowIsOfRows
<1>2. \A row \in Named : key[row] \in Nat  BY <1>1, DashboardAssumption DEF Named
<1>3. RefererGroups = [k \in {key[row] : row \in Named} |-> {row \in Named : key[row] = k}]
  BY DEF RefererGroups
<1>4. key = [row \in Named |-> key[row]]  OBVIOUS
<1> HIDE DEF key
<1> QED  BY <1>1, <1>2, <1>3, <1>4, GroupedRows

\* An answer of the statement for the links, against the window it read.
LEMMA TopHolds ==
  ASSUME TypeOK, NEW list, IsTop(TopGroups, list)
  PROVE  /\ list \subseteq [identity : Rows \cup Links \cup Codes, row : Rows, total : 1..Cardinality(Rows)]
         /\ Cardinality(list) <= Limit
         /\ Total(list) \in Nat /\ Total(list) <= Cardinality(Window)
         /\ Cardinality(list) < Limit =>
              /\ Total(list) = Cardinality(Window)
              /\ \A row \in Window : \E entry \in list : entry.identity = Identity(row)
         /\ \A entry, other \in list : entry.identity = other.identity => entry = other
         /\ \A entry \in list :
              /\ entry.row \in Window /\ entry.identity = Identity(entry.row)
              /\ entry.total = Cardinality({row \in Window : Identity(row) = entry.identity})
              /\ \A row \in Window : Identity(row) = entry.identity => At[row] <= At[entry.row]
<1>1. PICK keys \in Leaders(Size(TopGroups)) :
        list = {[identity |-> key, row |-> Newest(TopGroups[key]), total |-> Size(TopGroups)[key]] : key \in keys}
  BY DEF IsTop
<1> DEFINE entry == [k \in keys |-> [identity |-> k, row |-> Newest(TopGroups[k]), total |-> Size(TopGroups)[k]]]
           KeyOf == [e \in list |-> e.identity]
<1>2. Groups(TopGroups) /\ Joined(TopGroups, DOMAIN TopGroups) = Window /\ Window \in SUBSET Rows
  BY TopIsOfGroups, WindowIsOfRows
<1>3. /\ keys \subseteq DOMAIN TopGroups /\ Cardinality(keys) \in Nat /\ Cardinality(keys) <= Limit
      /\ Cardinality(keys) < Limit => keys = DOMAIN TopGroups
  BY <1>2, LeadersAreMost
<1>4. /\ list = {entry[k] : k \in keys} /\ entry = [k \in keys |-> entry[k]]
      /\ \A k \in keys : KeyOf[entry[k]] = k /\ entry[k].total = Cardinality(TopGroups[k])
  BY <1>1, <1>3 DEF Size
<1>5. \A k \in keys : /\ k \in Rows \cup Links \cup Codes
                      /\ TopGroups[k] = {row \in Window : Identity(row) = k}
                      /\ TopGroups[k] \in SUBSET Rows /\ TopGroups[k] # {}
  BY <1>2, <1>3, IdentityIsANumber DEF TopGroups, Groups
<1>6. \A k \in keys : /\ entry[k].identity = k /\ entry[k].total = Cardinality(TopGroups[k])
                      /\ entry[k].row \in TopGroups[k]
                      /\ \A row \in TopGroups[k] : At[row] <= At[entry[k].row]
                      /\ entry[k].total \in 1..Cardinality(Rows)
                      /\ entry[k] = [identity |-> k, row |-> entry[k].row, total |-> entry[k].total]
  <2> SUFFICES ASSUME NEW k \in keys
               PROVE  /\ entry[k].identity = k /\ entry[k].total = Cardinality(TopGroups[k])
                      /\ entry[k].row \in TopGroups[k]
                      /\ \A row \in TopGroups[k] : At[row] <= At[entry[k].row]
                      /\ entry[k].total \in 1..Cardinality(Rows)
                      /\ entry[k] = [identity |-> k, row |-> entry[k].row, total |-> entry[k].total]
    OBVIOUS
  <2>1. /\ Newest(TopGroups[k]) \in TopGroups[k]
        /\ \A row \in TopGroups[k] : At[row] <= At[Newest(TopGroups[k])]
    BY <1>5, NewestOf
  <2>2. Cardinality(TopGroups[k]) \in 1..Cardinality(Rows)  BY <1>5, SomeRowsAreFinite
  <2> QED  BY <1>4, <2>1, <2>2
<1> HIDE DEF entry, KeyOf
<1>7. /\ Cardinality(list) = Cardinality(keys)
      /\ Total(list) = Cardinality(Joined(TopGroups, keys))
  BY <1>2, <1>4, ListOfLeaders
<1>8. Joined(TopGroups, keys) \in SUBSET Window
  BY <1>2, <1>3 DEF Joined
<1>9. Total(list) \in Nat /\ Total(list) <= Cardinality(Window)
  BY <1>2, <1>7, <1>8, FewerRows
<1>10. \A e \in list : \E k \in keys : e = entry[k]  BY <1>4
<1>11. list \subseteq [identity : Rows \cup Links \cup Codes, row : Rows, total : 1..Cardinality(Rows)]
  <2>1. \A k \in keys : entry[k] \in [identity : Rows \cup Links \cup Codes, row : Rows, total : 1..Cardinality(Rows)]
    <3> TAKE k \in keys
    <3>1. entry[k].row \in Rows /\ k \in Rows \cup Links \cup Codes /\ entry[k].total \in 1..Cardinality(Rows)
      BY <1>5, <1>6
    <3>2. \A row, total : row \in Rows /\ total \in 1..Cardinality(Rows) =>
            [identity |-> k, row |-> row, total |-> total]
              \in [identity : Rows \cup Links \cup Codes, row : Rows, total : 1..Cardinality(Rows)]
      BY <3>1
    <3>3. entry[k] = [identity |-> k, row |-> entry[k].row, total |-> entry[k].total]
      BY <1>6, Zenon
    <3> QED  BY <3>1, <3>2, <3>3, Zenon
  <2> QED  BY <1>10, <2>1
<1>12. Cardinality(list) < Limit =>
         /\ Total(list) = Cardinality(Window)
         /\ \A row \in Window : \E e \in list : e.identity = Identity(row)
  <2> SUFFICES ASSUME Cardinality(list) < Limit
               PROVE  /\ Total(list) = Cardinality(Window)
                      /\ \A row \in Window : \E e \in list : e.identity = Identity(row)
    OBVIOUS
  <2>1. keys = DOMAIN TopGroups  BY <1>3, <1>7
  <2>2. \A row \in Window : Identity(row) \in keys  BY <2>1 DEF TopGroups
  <2> QED  BY <1>2, <1>4, <1>6, <1>7, <2>1, <2>2
<1>13. \A e, other \in list : e.identity = other.identity => e = other
  <2>1. \A k \in keys : entry[k].identity = k  BY <1>6, Zenon
  <2> QED  BY <1>10, <2>1
<1>14. \A e \in list :
         /\ e.row \in Window /\ e.identity = Identity(e.row)
         /\ e.total = Cardinality({row \in Window : Identity(row) = e.identity})
         /\ \A row \in Window : Identity(row) = e.identity => At[row] <= At[e.row]
  <2> SUFFICES ASSUME NEW e \in list
               PROVE  /\ e.row \in Window /\ e.identity = Identity(e.row)
                      /\ e.total = Cardinality({row \in Window : Identity(row) = e.identity})
                      /\ \A row \in Window : Identity(row) = e.identity => At[row] <= At[e.row]
    OBVIOUS
  <2> PICK k \in keys : e = entry[k]  BY <1>10
  <2>1. TopGroups[k] = {row \in Window : Identity(row) = k}  BY <1>5, Zenon
  <2>2. /\ e.identity = k /\ e.total = Cardinality(TopGroups[k])
        /\ e.row \in TopGroups[k]
        /\ \A row \in TopGroups[k] : At[row] <= At[e.row]
    BY <1>6, Zenon
  <2> QED  BY <2>1, <2>2
<1> QED  BY <1>3, <1>7, <1>9, <1>11, <1>12, <1>13, <1>14

\* The same for the referers.
LEMMA ReferersHold ==
  ASSUME TypeOK, NEW list, IsReferers(RefererGroups, list)
  PROVE  /\ list \subseteq [referer : Nat, total : 1..Cardinality(Rows)]
         /\ Cardinality(list) <= Limit
         /\ Total(list) \in Nat /\ Total(list) <= Cardinality(Named)
<1>1. PICK keys \in Leaders(Size(RefererGroups)) :
        list = {[referer |-> key, total |-> Size(RefererGroups)[key]] : key \in keys}
  BY DEF IsReferers
<1> DEFINE entry == [k \in keys |-> [referer |-> k, total |-> Size(RefererGroups)[k]]]
           KeyOf == [e \in list |-> e.referer]
<1>2. /\ Groups(RefererGroups) /\ Joined(RefererGroups, DOMAIN RefererGroups) = Named
      /\ Named \in SUBSET Rows
  BY RefererIsOfGroups, WindowIsOfRows
<1>3. keys \subseteq DOMAIN RefererGroups /\ Cardinality(keys) \in Nat /\ Cardinality(keys) <= Limit
  BY <1>2, LeadersAreMost
<1>4. /\ list = {entry[k] : k \in keys} /\ entry = [k \in keys |-> entry[k]]
      /\ \A k \in keys : KeyOf[entry[k]] = k /\ entry[k].total = Cardinality(RefererGroups[k])
  BY <1>1, <1>3 DEF Size
<1>5. \A k \in keys : k \in Nat /\ Cardinality(RefererGroups[k]) \in 1..Cardinality(Rows)
  BY <1>2, <1>3, SomeRowsAreFinite DEF Groups
<1>6. list \subseteq [referer : Nat, total : 1..Cardinality(Rows)]
  <2>1. \A k \in keys : Size(RefererGroups)[k] = Cardinality(RefererGroups[k])
    BY <1>3 DEF Size
  <2> QED  BY <1>1, <1>5, <2>1
<1> HIDE DEF entry, KeyOf
<1>7. /\ Cardinality(list) = Cardinality(keys)
      /\ Total(list) = Cardinality(Joined(RefererGroups, keys))
  BY <1>2, <1>4, ListOfLeaders
<1>8. Joined(RefererGroups, keys) \in SUBSET Named
  BY <1>2, <1>3 DEF Joined
<1> QED  BY <1>2, <1>3, <1>6, <1>7, <1>8, FewerRows

\* There is one answer.
LEMMA ListsAreOne ==
  ASSUME TypeOK
  PROVE  /\ \A list, other : IsTop(TopGroups, list) /\ IsTop(TopGroups, other) => list = other
         /\ \A list, other : IsReferers(RefererGroups, list) /\ IsReferers(RefererGroups, other) => list = other
<1>1. Groups(TopGroups) /\ Groups(RefererGroups)  BY TopIsOfGroups, RefererIsOfGroups
<1>2. /\ \A keys, others \in Leaders(Size(TopGroups)) : keys = others
      /\ \A keys, others \in Leaders(Size(RefererGroups)) : keys = others
  BY <1>1, LeadersAreOne
<1> QED  BY <1>2, Zenon DEF IsTop, IsReferers

---------------------------------------------------------------------------
(* Every step keeps the invariant.                                         *)

LEMMA InitDashboardInv == ASSUME Init  PROVE DashboardInv
<1>1. /\ present \subseteq Rows /\ links = Links /\ now \in 0..MaxNow /\ pc = "idle" /\ first = 0
      /\ days \in Windows /\ counted = {} /\ totals = NoCounts /\ daily = <<>>
      /\ top = {} /\ referers = {} /\ quiet = TRUE /\ previous = NoReport
  BY DEF Init
<1>2. Cardinality({}) = 0 /\ Cardinality(Rows) \in Nat /\ Limit \in Nat
  BY FS_EmptySet, SomeRowsAreFinite, DashboardAssumption
<1>3. TypeOK
  BY <1>1, <1>2 DEF TypeOK, CountsOf, NoCounts
<1>4. pc \notin AfterTotals /\ pc \notin AfterDaily /\ pc \notin AfterTop
  BY <1>1 DEF AfterTotals, AfterDaily, AfterTop
<1>5. CountInv /\ TopInv /\ QuietInv
  BY <1>1, <1>4 DEF CountInv, TopInv, QuietInv
<1> QED  BY <1>3, <1>5 DEF DashboardInv

\* Rows come, links go and the clock goes on, while a request is between two
\* statements.
LEMMA GrowKeeps ==
  ASSUME DashboardInv,
         present \subseteq present', present' \subseteq Rows, links' \subseteq links,
         now' \in 0..MaxNow, quiet' \in BOOLEAN,
         UNCHANGED <<pc, first, days, counted, answer>>
  PROVE  TypeOK' /\ CountInv' /\ TopInv'
<1>1. TypeOK /\ CountInv /\ TopInv  BY DEF DashboardInv
<1>2. UNCHANGED <<totals, daily, top, referers>>  BY DEF answer
<1>3. TypeOK'
  BY <1>1, <1>2 DEF TypeOK
<1>4. /\ Window \in SUBSET Window' /\ Window' \in SUBSET Rows /\ Named \in SUBSET Named'
      /\ Named' \in SUBSET Rows
  BY DEF Window, Named
<1>5. /\ \A count \in {"total", "allowed", "blocked"} : Counts(Window)[count] <= Counts(Window')[count]
      /\ \A count \in {"total", "allowed", "blocked"} :
           Counts(Window)[count] \in Nat /\ Counts(Window')[count] \in Nat
      /\ Cardinality(Window) <= Cardinality(Window') /\ Cardinality(Named) <= Cardinality(Named')
      /\ Cardinality(Window) \in Nat /\ Cardinality(Window') \in Nat
      /\ Cardinality(Named) \in Nat /\ Cardinality(Named') \in Nat
  <2>1. Window \in SUBSET Rows  BY <1>4
  <2> QED  BY <1>4, <2>1, MoreRowsCountMore, FewerRows, CountsAreCounts
<1>6. Counts(Window)' = Counts(Window') /\ Cardinality(Window)' = Cardinality(Window')
      /\ Cardinality(Named)' = Cardinality(Named')
  BY DEF Counts
<1>7. CountInv'
  <2>1. pc' \in AfterTotals => totals' = Counts(counted') /\ counted' \subseteq Window'
    BY <1>1, <1>2, <1>4, Zenon DEF CountInv
  <2>2. pc' \in AfterDaily => \A count \in {"total", "allowed", "blocked"} :
          /\ Over(daily', count) \in Nat
          /\ totals'[count] <= Over(daily', count) /\ Over(daily', count) <= Counts(Window')[count]
    BY <1>1, <1>2, <1>5 DEF CountInv
  <2>3. pc' \in AfterTop =>
          /\ Total(top') \in Nat /\ Total(top') <= Cardinality(Window')
          /\ Cardinality(top') < Limit => Over(daily', "total") <= Total(top')
    BY <1>1, <1>2, <1>5 DEF CountInv
  <2>4. pc' = "done" => Total(referers') \in Nat /\ Total(referers') <= Cardinality(Named')
    BY <1>1, <1>2, <1>5 DEF CountInv
  <2> QED  BY <2>1, <2>2, <2>3, <2>4, Zenon DEF CountInv, Counts
<1>8. ASSUME pc' \in AfterTop  PROVE TopInv'
  <2>1. \A entry \in top : entry.total \in Nat  BY <1>1 DEF TypeOK
  <2>2. \A link : /\ OfLink(Window, link) \in SUBSET OfLink(Window', link)
                  /\ OfLink(Window', link) \in SUBSET Rows
    BY <1>4 DEF OfLink
  <2>3. \A link : /\ Cardinality(OfLink(Window, link)) <= Cardinality(OfLink(Window', link))
                  /\ Cardinality(OfLink(Window, link)) \in Nat /\ Cardinality(OfLink(Window', link)) \in Nat
    BY <2>2, FewerRows
  <2> DEFINE OfCode(code) == {row \in Window : CodeOf[row] = code /\ LinkOf[row] \notin links}
             OfCodeNow(code) == {row \in Window' : CodeOf[row] = code /\ LinkOf[row] \notin links'}
  <2>4. \A code : OfCode(code) \in SUBSET OfCodeNow(code) /\ OfCodeNow(code) \in SUBSET Rows
    BY <1>4
  <2> HIDE DEF OfCode, OfCodeNow
  <2>5. \A code : /\ Cardinality(OfCode(code)) <= Cardinality(OfCodeNow(code))
                  /\ Cardinality(OfCode(code)) \in Nat /\ Cardinality(OfCodeNow(code)) \in Nat
    BY <2>4, FewerRows
  <2>6. \A entry \in top' : LinkOf[entry.row] \in links' =>
         /\ entry.identity = LinkOf[entry.row]
         /\ entry.total <= Cardinality(OfLink(Window', LinkOf[entry.row]))
         /\ entry.total >= Cardinality(OfLink(counted', LinkOf[entry.row]))
         /\ \A row \in OfLink(counted', LinkOf[entry.row]) : At[row] <= At[entry.row]
    <3> SUFFICES ASSUME NEW entry \in top, LinkOf[entry.row] \in links
                 PROVE  /\ entry.identity = LinkOf[entry.row]
                        /\ entry.total <= Cardinality(OfLink(Window', LinkOf[entry.row]))
                        /\ entry.total >= Cardinality(OfLink(counted, LinkOf[entry.row]))
                        /\ \A row \in OfLink(counted, LinkOf[entry.row]) : At[row] <= At[entry.row]
      BY <1>2
    <3>1. /\ entry.identity = LinkOf[entry.row]
          /\ entry.total <= Cardinality(OfLink(Window, LinkOf[entry.row]))
          /\ entry.total >= Cardinality(OfLink(counted, LinkOf[entry.row]))
          /\ \A row \in OfLink(counted, LinkOf[entry.row]) : At[row] <= At[entry.row]
      BY <1>1, <1>8, Zenon DEF TopInv
    <3> QED  BY <2>1, <2>3, <3>1
  <2>7. \A entry, other \in top' : entry.identity = other.identity => entry = other
    BY <1>1, <1>2, <1>8, Zenon DEF TopInv
  <2>8. Cardinality(top') < Limit =>
         \A row \in counted' : LinkOf[row] \in links' =>
           \E entry \in top' : LinkOf[entry.row] = LinkOf[row]
    BY <1>1, <1>2, <1>8 DEF TopInv
  <2>9. \A entry \in top' : entry.identity \in Codes =>
          entry.total <= Cardinality(OfCodeNow(entry.identity))
    <3> SUFFICES ASSUME NEW entry \in top, entry.identity \in Codes
                 PROVE  entry.total <= Cardinality(OfCodeNow(entry.identity))
      BY <1>2
    <3>1. entry.total <= Cardinality(OfCode(entry.identity))
      BY <1>1, <1>8, Zenon DEF TopInv, OfCode
    <3> QED  BY <2>1, <2>5, <3>1
  <2> QED  BY <2>6, <2>7, <2>8, <2>9, Zenon DEF TopInv, OfCodeNow, OfLink
<1>9. TopInv'
  BY <1>8, Zenon DEF TopInv
<1> QED  BY <1>3, <1>7, <1>9

\* What the statements would answer, while what they read does not change.
LEMMA SameReport ==
  ASSUME UNCHANGED <<present, links, first, days>>
  PROVE  /\ Window' = Window /\ Named' = Named /\ DaysCounted' = DaysCounted
         /\ TopGroups' = TopGroups /\ RefererGroups' = RefererGroups
BY DEF Window, Named, DaysCounted, Counts, LocalDay, TopGroups, Identity, RefererGroups,
     Midnight

LEMMA EnvironmentKeeps ==
  ASSUME DashboardInv,
         Tick \/ (\E row \in Rows : Insert(row)) \/ (\E link \in Links : DeleteLink(link))
  PROVE  DashboardInv'
<1>1. TypeOK /\ QuietInv  BY DEF DashboardInv
<1>2. CASE \E row \in Rows : Insert(row)
  <2>1. PICK row \in Rows : Insert(row)  BY <1>2
  <2>2. /\ present \subseteq present' /\ present' \subseteq Rows /\ links' \subseteq links
        /\ now' \in 0..MaxNow /\ quiet' = FALSE /\ previous' = NoReport
        /\ UNCHANGED <<pc, first, days, counted, answer>>
    BY <1>1, <2>1 DEF Insert, TypeOK
  <2>3. QuietInv'  BY <2>2 DEF QuietInv
  <2> QED  BY <2>2, <2>3, GrowKeeps DEF DashboardInv
<1>3. CASE \E link \in Links : DeleteLink(link)
  <2>1. PICK link \in Links : DeleteLink(link)  BY <1>3
  <2>2. /\ present \subseteq present' /\ present' \subseteq Rows /\ links' \subseteq links
        /\ now' \in 0..MaxNow /\ quiet' = FALSE /\ previous' = NoReport
        /\ UNCHANGED <<pc, first, days, counted, answer>>
    BY <1>1, <2>1 DEF DeleteLink, TypeOK
  <2>3. QuietInv'  BY <2>2 DEF QuietInv
  <2> QED  BY <2>2, <2>3, GrowKeeps DEF DashboardInv
<1>4. CASE Tick
  <2>1. /\ present' = present /\ links' = links /\ now' = now + 1 /\ now < MaxNow
        /\ quiet' = (quiet /\ LocalDay(now + 1) = LocalDay(now))
        /\ previous' = IF LocalDay(now + 1) = LocalDay(now) THEN previous ELSE NoReport
        /\ UNCHANGED <<pc, first, days, counted, answer>>
    BY <1>4 DEF Tick
  <2>2. /\ present \subseteq present' /\ present' \subseteq Rows /\ links' \subseteq links
        /\ now' \in 0..MaxNow /\ quiet' \in BOOLEAN
    BY <1>1, <2>1, DashboardAssumption DEF TypeOK
  <2>3. TypeOK' /\ CountInv' /\ TopInv'  BY <2>1, <2>2, GrowKeeps
  <2>4. QuietInv'
    <3>1. CASE LocalDay(now + 1) = LocalDay(now)
      <4>1. /\ Window' = Window /\ DaysCounted' = DaysCounted
            /\ TopGroups' = TopGroups /\ RefererGroups' = RefererGroups
        BY <2>1, SameReport
      <4>2. LocalDay(now') = LocalDay(now) /\ quiet' = quiet /\ previous' = previous
        BY <1>1, <2>1, <3>1 DEF TypeOK
      <4>3. UNCHANGED <<totals, daily, top, referers>>  BY <2>1 DEF answer
      <4>4. QuietInv' <=>
              /\ previous' # NoReport =>
                   /\ quiet'
                   /\ first' = LocalDay(now') - (days' - 1)
                   /\ previous' = <<Counts(Window'), DaysCounted', previous'[3], previous'[4]>>
                   /\ IsTop(TopGroups', previous'[3])
                   /\ IsReferers(RefererGroups', previous'[4])
              /\ quiet' =>
                   /\ pc' \notin {"idle", "refused"} => first' = LocalDay(now') - (days' - 1)
                   /\ pc' \in AfterTotals => totals' = Counts(Window')
                   /\ pc' \in AfterDaily => daily' = DaysCounted'
                   /\ pc' \in AfterTop => IsTop(TopGroups', top')
                   /\ pc' = "done" => IsReferers(RefererGroups', referers')
        BY DEF QuietInv
      <4> QED  BY <1>1, <2>1, <4>1, <4>2, <4>3, <4>4, Zenon DEF QuietInv
    <3>2. CASE LocalDay(now + 1) # LocalDay(now)
      <4>1. quiet' = FALSE /\ previous' = NoReport  BY <2>1, <3>2
      <4> QED  BY <4>1 DEF QuietInv
    <3> QED  BY <3>1, <3>2
  <2> QED  BY <2>3, <2>4 DEF DashboardInv
<1> QED  BY <1>2, <1>3, <1>4

LEMMA AskKeeps == ASSUME DashboardInv, Ask  PROVE DashboardInv'
<1>1. TypeOK /\ QuietInv  BY DEF DashboardInv
<1>2. /\ pc = "idle" /\ pc' \in {"refused", "totals"}
      /\ first' = first \/ first' = LocalDay(now) - (days - 1)
      /\ pc' = "totals" => first' = LocalDay(now) - (days - 1)
      /\ quiet' = TRUE
      /\ UNCHANGED <<present, links, now, days, counted, totals, daily, top, referers, previous>>
  BY DEF Ask, env, answer
<1>3. pc' \notin AfterTotals /\ pc' \notin AfterDaily /\ pc' \notin AfterTop
  BY <1>2 DEF AfterTotals, AfterDaily, AfterTop
<1>4. LocalDay(now) \in Int /\ days \in Int
  <2>1. now + Offset \in Nat /\ DayLength \in Nat \ {0}  BY <1>1, DashboardAssumption DEF TypeOK
  <2>2. LocalDay(now) \in Int  BY <2>1, QuotientBound DEF LocalDay
  <2> QED  BY <1>1, <2>2, DashboardAssumption DEF TypeOK
<1>5. TypeOK'
  BY <1>1, <1>2, <1>4 DEF TypeOK
<1>6. CountInv' /\ TopInv'
  BY <1>2, <1>3 DEF CountInv, TopInv
<1>7. ASSUME previous' # NoReport
      PROVE  /\ first' = LocalDay(now)' - (days' - 1)
             /\ previous' = <<Counts(Window)', DaysCounted', previous'[3], previous'[4]>>
             /\ IsTop(TopGroups', previous'[3])
             /\ IsReferers(RefererGroups', previous'[4])
  <2>1. first' = first  BY <1>1, <1>2, <1>7 DEF QuietInv
  <2>2. /\ Window' = Window /\ DaysCounted' = DaysCounted
        /\ TopGroups' = TopGroups /\ RefererGroups' = RefererGroups
    BY <1>2, <2>1, SameReport
  <2>3. Counts(Window)' = Counts(Window) /\ LocalDay(now)' = LocalDay(now)
    BY <1>2, <2>2 DEF Counts, LocalDay
  <2> QED  BY <1>1, <1>2, <1>7, <2>1, <2>2, <2>3, Zenon DEF QuietInv
<1>8. LocalDay(now)' = LocalDay(now)  BY <1>2 DEF LocalDay
<1>9. QuietInv'
  BY <1>2, <1>3, <1>7, <1>8 DEF QuietInv
<1> QED  BY <1>5, <1>6, <1>9 DEF DashboardInv

LEMMA TotalsKeeps == ASSUME DashboardInv, Totals  PROVE DashboardInv'
<1>1. TypeOK /\ QuietInv  BY DEF DashboardInv
<1>2. /\ pc = "totals" /\ pc' = "daily" /\ counted' = Window /\ totals' = Counts(Window)
      /\ UNCHANGED <<present, links, now, first, days, daily, top, referers, quiet, previous>>
  BY DEF Totals, env
<1>3. pc' \notin AfterDaily /\ pc' \notin AfterTop /\ pc' # "done"
  BY <1>2 DEF AfterDaily, AfterTop
<1>4. /\ Window' = Window /\ DaysCounted' = DaysCounted
      /\ TopGroups' = TopGroups /\ RefererGroups' = RefererGroups
  BY <1>2, SameReport
<1>5. TypeOK'
  <2>1. Counts(Window) \in CountsOf(Rows) /\ Window \subseteq present
    <3>1. Window \in SUBSET Rows  BY <1>1, WindowIsOfRows
    <3> QED  BY <3>1, CountsAreCounts DEF Window
  <2> QED  BY <1>1, <1>2, <2>1 DEF TypeOK
<1>6. CountInv'
  <2>1. totals' = Counts(counted') /\ counted' \subseteq Window'  BY <1>2, <1>4
  <2> QED  BY <1>3, <2>1, Zenon DEF CountInv, Counts
<1>7. TopInv'  BY <1>3 DEF TopInv
<1>8. Counts(Window)' = Counts(Window) /\ LocalDay(now)' = LocalDay(now)
  BY <1>2, <1>4 DEF Counts, LocalDay
<1>9. QuietInv'
  <2>1. pc \notin {"idle", "refused"}  BY <1>2
  <2> QED  BY <1>1, <1>2, <1>3, <1>4, <1>8, <2>1, Zenon DEF QuietInv
<1> QED  BY <1>5, <1>6, <1>7, <1>9 DEF DashboardInv

LEMMA DailyKeeps == ASSUME DashboardInv, Daily  PROVE DashboardInv'
<1>1. TypeOK /\ CountInv /\ QuietInv  BY DEF DashboardInv
<1>2. /\ pc = "daily" /\ pc' = "top" /\ daily' = DaysCounted
      /\ UNCHANGED <<present, links, now, first, days, counted, totals, top, referers, quiet, previous>>
  BY DEF Daily, DaysCounted, env
<1>3. pc \in AfterTotals /\ pc' \notin AfterTop /\ pc' # "done" /\ pc \notin {"idle", "refused"}
  BY <1>2 DEF AfterTotals, AfterTop
<1>4. /\ Window' = Window /\ DaysCounted' = DaysCounted
      /\ TopGroups' = TopGroups /\ RefererGroups' = RefererGroups
  BY <1>2, SameReport
<1>5. Window \in SUBSET Rows /\ totals = Counts(counted) /\ counted \subseteq Window
  BY <1>1, <1>3, WindowIsOfRows DEF CountInv
<1>6. TypeOK'
  <2>1. \A day \in DOMAIN DaysCounted : DaysCounted[day] \in CountsOf(Rows)
    <3>1. \A day : {row \in Window : LocalDay(At[row]) = day} \in SUBSET Rows  BY <1>5
    <3>2. \A day : Counts({row \in Window : LocalDay(At[row]) = day}) \in CountsOf(Rows)
      BY <3>1, CountsAreCounts
    <3> QED  BY <3>2 DEF DaysCounted
  <2> QED  BY <1>1, <1>2, <2>1 DEF TypeOK
<1>7. \A count \in {"total", "allowed", "blocked"} :
        /\ Over(DaysCounted, count) = Counts(Window)[count]
        /\ Counts(counted)[count] <= Counts(Window)[count]
        /\ Counts(Window)[count] \in Nat
  BY <1>1, <1>5, DaysAddUp, MoreRowsCountMore, CountsAreCounts
<1>8. Counts(Window)' = Counts(Window) /\ LocalDay(now)' = LocalDay(now)
  BY <1>2, <1>4 DEF Counts, LocalDay
<1>9. CountInv'
  <2>1. totals' = Counts(counted') /\ counted' \subseteq Window'  BY <1>2, <1>4, <1>5
  <2>2. \A count \in {"total", "allowed", "blocked"} :
          /\ Over(daily', count) \in Nat
          /\ totals'[count] <= Over(daily', count) /\ Over(daily', count) <= Counts(Window')[count]
    <3> SUFFICES ASSUME NEW count \in {"total", "allowed", "blocked"}
                 PROVE  /\ Over(daily', count) \in Nat
                        /\ totals'[count] <= Over(daily', count) /\ Over(daily', count) <= Counts(Window')[count]
      OBVIOUS
    <3>1. /\ Over(daily', count) = Counts(Window)[count] /\ Counts(Window') = Counts(Window)
          /\ totals' = Counts(counted)
      BY <1>2, <1>4, <1>5, <1>7, Zenon
    <3> QED  BY <1>7, <3>1
  <2> QED  BY <1>3, <2>1, <2>2, Zenon DEF CountInv, Counts
<1>10. TopInv'  BY <1>3 DEF TopInv
<1>11. QuietInv'
  BY <1>1, <1>2, <1>3, <1>4, <1>8, Zenon DEF QuietInv
<1> QED  BY <1>6, <1>9, <1>10, <1>11 DEF DashboardInv

LEMMA TopLinksKeeps == ASSUME DashboardInv, TopLinks  PROVE DashboardInv'
<1>1. TypeOK /\ CountInv /\ QuietInv  BY DEF DashboardInv
<1>2. /\ pc = "top" /\ pc' = "referers" /\ IsTop(TopGroups, top')
      /\ UNCHANGED <<present, links, now, first, days, counted, totals, daily, referers, quiet, previous>>
  BY DEF TopLinks, IsTop, TopGroups, env
<1>3. /\ pc \in AfterTotals /\ pc \in AfterDaily /\ pc' # "done" /\ pc \notin {"idle", "refused"}
  BY <1>2 DEF AfterTotals, AfterDaily
<1>4. /\ Window' = Window /\ DaysCounted' = DaysCounted
      /\ TopGroups' = TopGroups /\ RefererGroups' = RefererGroups
  BY <1>2, SameReport
<1>5. /\ Window \in SUBSET Rows /\ totals = Counts(counted) /\ counted \subseteq Window
      /\ Cardinality(Window) \in Nat
  <2>1. Window \in SUBSET Rows  BY <1>1, WindowIsOfRows
  <2> QED  BY <1>1, <1>3, <2>1, SomeRowsAreFinite DEF CountInv
<1> DEFINE Rest == /\ top' \subseteq [identity : Rows \cup Links \cup Codes, row : Rows, total : 1..Cardinality(Rows)]
                   /\ Cardinality(top') <= Limit
                   /\ Total(top') \in Nat /\ Total(top') <= Cardinality(Window)
                   /\ Cardinality(top') < Limit =>
                        /\ Total(top') = Cardinality(Window)
                        /\ \A row \in Window : \E entry \in top' : entry.identity = Identity(row)
                   /\ \A entry, other \in top' : entry.identity = other.identity => entry = other
           Told(entry) == /\ entry.row \in Window /\ entry.identity = Identity(entry.row)
                          /\ entry.total = Cardinality({row \in Window : Identity(row) = entry.identity})
                          /\ \A row \in Window : Identity(row) = entry.identity => At[row] <= At[entry.row]
<1>6. Rest /\ \A entry \in top' : Told(entry)
  BY <1>1, <1>2, TopHolds
<1>7. TypeOK'
  BY <1>1, <1>2, <1>6 DEF TypeOK
<1>8. Counts(Window)' = Counts(Window) /\ LocalDay(now)' = LocalDay(now)
  BY <1>2, <1>4 DEF Counts, LocalDay
<1>9. CountInv'
  <2>1. totals' = Counts(counted') /\ counted' \subseteq Window'  BY <1>2, <1>4, <1>5
  <2>2. \A count \in {"total", "allowed", "blocked"} :
          /\ Over(daily', count) \in Nat
          /\ totals'[count] <= Over(daily', count) /\ Over(daily', count) <= Counts(Window')[count]
    BY <1>1, <1>2, <1>3, <1>4, Zenon DEF CountInv
  <2>3. Cardinality(top') < Limit => Over(daily', "total") <= Total(top')
    <3>1. Over(daily, "total") <= Counts(Window)["total"]  BY <1>1, <1>3 DEF CountInv
    <3>2. Counts(Window)["total"] = Cardinality(Window)  BY DEF Counts
    <3> QED  BY <1>2, <1>6, <3>1, <3>2
  <2>4. Total(top') \in Nat /\ Total(top') <= Cardinality(Window')
    BY <1>4, <1>6
  <2> QED  BY <1>3, <2>1, <2>2, <2>3, <2>4, Zenon DEF CountInv, Counts
<1>10. QuietInv'
  BY <1>1, <1>2, <1>3, <1>4, <1>8, Zenon DEF QuietInv
<1> DEFINE Same(key) == {row \in Window : Identity(row) = key}
<1>11. \A link \in links : Same(link) = OfLink(Window, link)
  BY <1>1, <1>5, IdentityTellsLinks DEF OfLink, TypeOK
<1>12. ASSUME NEW entry \in top', LinkOf[entry.row] \in links
       PROVE  /\ entry.identity = LinkOf[entry.row]
              /\ entry.total <= Cardinality(OfLink(Window, LinkOf[entry.row]))
              /\ entry.total >= Cardinality(OfLink(counted, LinkOf[entry.row]))
              /\ \A row \in OfLink(counted, LinkOf[entry.row]) : At[row] <= At[entry.row]
  <2> DEFINE link == LinkOf[entry.row]
  <2>1. Told(entry)  BY <1>6
  <2>2. entry.identity = link
    BY <1>1, <1>5, <1>12, <2>1, IdentityTellsLinks
  <2>3. entry.total = Cardinality(OfLink(Window, link))
    BY <1>11, <1>12, <2>1, <2>2
  <2>4. /\ OfLink(counted, link) \in SUBSET OfLink(Window, link)
        /\ OfLink(Window, link) \in SUBSET Rows
    BY <1>5 DEF OfLink
  <2>5. /\ Cardinality(OfLink(counted, link)) <= Cardinality(OfLink(Window, link))
        /\ Cardinality(OfLink(Window, link)) \in Nat /\ Cardinality(OfLink(counted, link)) \in Nat
    BY <2>4, FewerRows
  <2>6. \A row \in OfLink(counted, link) : row \in Window /\ Identity(row) = link
    BY <1>1, <1>5, <1>12, IdentityTellsLinks DEF OfLink
  <2> HIDE DEF link
  <2> QED  BY <2>1, <2>2, <2>3, <2>5, <2>6 DEF link
<1>13. ASSUME Cardinality(top') < Limit, NEW row \in counted, LinkOf[row] \in links
       PROVE  \E entry \in top' : LinkOf[entry.row] = LinkOf[row]
  <2>1. PICK entry \in top' : entry.identity = Identity(row)
    BY <1>5, <1>6, <1>13
  <2>2. Told(entry)  BY <1>6
  <2>3. Identity(row) = LinkOf[row] /\ LinkOf[row] \in Links
    BY <1>1, <1>5, <1>13, IdentityTellsLinks DEF TypeOK
  <2>4. Identity(entry.row) = LinkOf[entry.row]
    BY <1>1, <1>5, <2>1, <2>2, <2>3, IdentityTellsLinks
  <2> QED  BY <2>1, <2>2, <2>3, <2>4
<1>14. ASSUME NEW entry \in top', entry.identity \in Codes
       PROVE  entry.total <=
                Cardinality({row \in Window : CodeOf[row] = entry.identity /\ LinkOf[row] \notin links})
  <2> DEFINE gone == {row \in Window : CodeOf[row] = entry.identity /\ LinkOf[row] \notin links}
  <2>1. Told(entry)  BY <1>6
  <2>2. Same(entry.identity) \in SUBSET gone
    BY <1>1, <1>5, <1>14, IdentityTellsLinks
  <2>3. gone \in SUBSET Rows  BY <1>5
  <2> HIDE DEF gone
  <2>4. Cardinality(Same(entry.identity)) <= Cardinality(gone)
    BY <2>2, <2>3, FewerRows
  <2> QED  BY <2>1, <2>4 DEF gone
<1>15. TopInv'
  <2>1. \A entry \in top' : LinkOf[entry.row] \in links' =>
         /\ entry.identity = LinkOf[entry.row]
         /\ entry.total <= Cardinality(OfLink(Window', LinkOf[entry.row]))
         /\ entry.total >= Cardinality(OfLink(counted', LinkOf[entry.row]))
         /\ \A row \in OfLink(counted', LinkOf[entry.row]) : At[row] <= At[entry.row]
    BY <1>2, <1>4, <1>12, Zenon
  <2>2. \A entry, other \in top' : entry.identity = other.identity => entry = other
    BY <1>6
  <2>3. Cardinality(top') < Limit =>
         \A row \in counted' : LinkOf[row] \in links' =>
           \E entry \in top' : LinkOf[entry.row] = LinkOf[row]
    BY <1>2, <1>13, Zenon
  <2>4. \A entry \in top' : entry.identity \in Codes =>
         entry.total <= Cardinality({row \in Window' : CodeOf[row] = entry.identity /\ LinkOf[row] \notin links'})
    BY <1>2, <1>4, <1>14, Zenon
  <2> QED  BY <2>1, <2>2, <2>3, <2>4, Zenon DEF TopInv, OfLink
<1> QED  BY <1>7, <1>9, <1>10, <1>15 DEF DashboardInv

\* A statement that leaves the list of links and all that it was made of.
LEMMA SameTop ==
  ASSUME TopInv, UNCHANGED <<links, counted, top>>, Window' = Window, pc \in AfterTop
  PROVE  TopInv'
<1>1. \A link : OfLink(Window', link) = OfLink(Window, link)  BY DEF OfLink
<1> QED  BY <1>1 DEF TopInv, OfLink

LEMMA TopReferersKeeps == ASSUME DashboardInv, TopReferers  PROVE DashboardInv'
<1>1. TypeOK /\ CountInv /\ TopInv /\ QuietInv  BY DEF DashboardInv
<1>2. /\ pc = "referers" /\ pc' = "done" /\ IsReferers(RefererGroups, referers')
      /\ UNCHANGED <<present, links, now, first, days, counted, totals, daily, top, quiet, previous>>
  BY DEF TopReferers, IsReferers, RefererGroups, Named, env
<1>3. pc \in AfterTotals /\ pc \in AfterDaily /\ pc \in AfterTop /\ pc \notin {"idle", "refused"}
  BY <1>2 DEF AfterTotals, AfterDaily, AfterTop
<1>4. /\ Window' = Window /\ DaysCounted' = DaysCounted /\ Named' = Named
      /\ TopGroups' = TopGroups /\ RefererGroups' = RefererGroups
  BY <1>2, SameReport
<1>5. /\ referers' \subseteq [referer : Nat, total : 1..Cardinality(Rows)]
      /\ Cardinality(referers') <= Limit
      /\ Total(referers') \in Nat /\ Total(referers') <= Cardinality(Named)
  BY <1>1, <1>2, ReferersHold
<1>6. TypeOK'
  BY <1>1, <1>2, <1>5 DEF TypeOK
<1>7. CountInv'
  BY <1>1, <1>2, <1>3, <1>4, <1>5, Zenon DEF CountInv, Counts
<1>8. TopInv'
  BY <1>1, <1>2, <1>3, <1>4, SameTop
<1>9. Counts(Window)' = Counts(Window) /\ LocalDay(now)' = LocalDay(now)
  BY <1>2, <1>4 DEF Counts, LocalDay
<1>10. QuietInv'
  BY <1>1, <1>2, <1>3, <1>4, <1>9, Zenon DEF QuietInv
<1> QED  BY <1>6, <1>7, <1>8, <1>10 DEF DashboardInv

LEMMA ReloadKeeps == ASSUME DashboardInv, Reload  PROVE DashboardInv'
<1>1. TypeOK /\ QuietInv  BY DEF DashboardInv
<1>2. /\ pc = "done" /\ pc' = "idle" /\ quiet /\ previous' = <<totals, daily, top, referers>>
      /\ UNCHANGED <<present, links, now, first, days, counted, totals, daily, top, referers, quiet>>
  BY DEF Reload, env, answer
<1>3. /\ pc' \notin AfterTotals /\ pc' \notin AfterDaily /\ pc' \notin AfterTop
      /\ pc \in AfterTotals /\ pc \in AfterDaily /\ pc \in AfterTop /\ pc \notin {"idle", "refused"}
  BY <1>2 DEF AfterTotals, AfterDaily, AfterTop
<1>4. /\ Window' = Window /\ DaysCounted' = DaysCounted
      /\ TopGroups' = TopGroups /\ RefererGroups' = RefererGroups
  BY <1>2, SameReport
<1>5. TypeOK'  BY <1>1, <1>2 DEF TypeOK
<1>6. CountInv' /\ TopInv'  BY <1>2, <1>3 DEF CountInv, TopInv
<1>7. Counts(Window)' = Counts(Window) /\ LocalDay(now)' = LocalDay(now)
  BY <1>2, <1>4 DEF Counts, LocalDay
<1>8. previous'[3] = top /\ previous'[4] = referers
      /\ previous' = <<totals, daily, previous'[3], previous'[4]>>
  BY <1>2
<1>9. /\ first = LocalDay(now) - (days - 1) /\ totals = Counts(Window) /\ daily = DaysCounted
      /\ IsTop(TopGroups, top) /\ IsReferers(RefererGroups, referers)
  BY <1>1, <1>2, <1>3, Zenon DEF QuietInv
<1>10. previous' = <<Counts(Window)', DaysCounted', previous'[3], previous'[4]>>
  BY <1>4, <1>7, <1>8, <1>9, Zenon
<1>11. /\ first' = LocalDay(now)' - (days' - 1)
       /\ IsTop(TopGroups', previous'[3]) /\ IsReferers(RefererGroups', previous'[4])
  BY <1>2, <1>4, <1>7, <1>8, <1>9, Zenon
<1>12. QuietInv'
  BY <1>2, <1>3, <1>10, <1>11, Zenon DEF QuietInv
<1> QED  BY <1>5, <1>6, <1>12 DEF DashboardInv

LEMMA StutterKeeps == ASSUME DashboardInv, UNCHANGED vars  PROVE DashboardInv'
<1>1. UNCHANGED <<present, links, now, pc, first, days, counted, totals, daily, top, referers, quiet, previous>>
  BY DEF vars, env, answer
<1>2. /\ Window' = Window /\ DaysCounted' = DaysCounted /\ Named' = Named
      /\ TopGroups' = TopGroups /\ RefererGroups' = RefererGroups
  BY <1>1, SameReport
<1>3. LocalDay(now)' = LocalDay(now)  BY <1>1 DEF LocalDay
<1>4. TypeOK' /\ CountInv'
  BY <1>1, <1>2 DEF TypeOK, CountInv, Counts, DashboardInv
<1>5. TopInv'
  <2>1. CASE pc \in AfterTop  BY <1>1, <1>2, <2>1, SameTop DEF DashboardInv
  <2>2. CASE pc \notin AfterTop  BY <1>1, <2>2 DEF TopInv
  <2> QED  BY <2>1, <2>2
<1>6. Counts(Window)' = Counts(Window)  BY <1>2 DEF Counts
<1>7. QuietInv'
  BY <1>1, <1>2, <1>3, <1>6, Zenon DEF QuietInv, DashboardInv
<1> QED  BY <1>4, <1>5, <1>7 DEF DashboardInv

LEMMA NextKeeps == ASSUME DashboardInv, [Next]_vars  PROVE DashboardInv'
<1>1. CASE Request
  BY <1>1, AskKeeps, TotalsKeeps, DailyKeeps, TopLinksKeeps, TopReferersKeeps, ReloadKeeps
       DEF Request
<1>2. CASE UNCHANGED vars  BY <1>2, StutterKeeps
<1> QED  BY <1>1, <1>2, EnvironmentKeeps DEF Next

---------------------------------------------------------------------------
(* What it says of the answer.                                             *)

LEMMA OverIsOverDays == ASSUME NEW count  PROVE OverDays(count) = Over(daily, count)
BY Zenon DEF OverDays, Over

LEMMA InvReportAddsUp == DashboardInv => ReportAddsUp
<1>1. \A count : OverDays(count) = Over(daily, count)  BY OverIsOverDays
<1>2. pc = "done" => pc \in AfterTotals /\ pc \in AfterDaily /\ pc \in AfterTop
  BY DEF AfterTotals, AfterDaily, AfterTop
<1> QED  BY <1>1, <1>2 DEF DashboardInv, CountInv, ReportAddsUp, Named

LEMMA InvLinksListed == DashboardInv => LinksListed
<1> SUFFICES ASSUME DashboardInv, pc = "done"  PROVE LinksCountedOnce /\ ShownAsLastSeen
  BY DEF LinksListed, LinksCountedOnce, ShownAsLastSeen, DashboardInv
<1>1. pc \in AfterTop  BY DEF AfterTop
<1>2. /\ \A entry \in top : LinkOf[entry.row] \in links =>
         /\ entry.identity = LinkOf[entry.row]
         /\ entry.total <= Cardinality(OfLink(Window, LinkOf[entry.row]))
         /\ entry.total >= Cardinality(OfLink(counted, LinkOf[entry.row]))
         /\ \A row \in OfLink(counted, LinkOf[entry.row]) : At[row] <= At[entry.row]
      /\ \A entry, other \in top : entry.identity = other.identity => entry = other
      /\ Cardinality(top) < Limit =>
         \A row \in counted : LinkOf[row] \in links =>
           \E entry \in top : LinkOf[entry.row] = LinkOf[row]
      /\ \A entry \in top : entry.identity \in Codes =>
         entry.total <= Cardinality({row \in Window : CodeOf[row] = entry.identity /\ LinkOf[row] \notin links})
  BY <1>1, Zenon DEF DashboardInv, TopInv
<1>3. ShownAsLastSeen
  BY <1>2 DEF ShownAsLastSeen, OfLink
<1>4. ASSUME NEW link \in links, NEW own, own = {entry \in top : LinkOf[entry.row] = link}
      PROVE  /\ \A entry \in own :
                 /\ entry.total <= Cardinality(OfLink(Window, link))
                 /\ entry.total >= Cardinality(OfLink(counted, link))
             /\ Cardinality(own) <= 1
             /\ Cardinality(top) < Limit /\ (\E row \in counted : LinkOf[row] = link) => own # {}
  <2>1. \A entry, other \in own : entry = other
    <3>1. \A entry \in own : entry \in top /\ LinkOf[entry.row] = link /\ entry.identity = link
      BY <1>2, <1>4
    <3> QED  BY <1>2, <3>1
  <2>2. Cardinality(own) <= 1
    <3>1. CASE own = {}  BY <3>1, FS_EmptySet
    <3>2. CASE own # {}
      <4>1. PICK entry : own = {entry}  BY <2>1, <3>2
      <4> QED  BY <4>1, FS_Singleton
    <3> QED  BY <3>1, <3>2
  <2>3. \A entry \in own :
          /\ entry.total <= Cardinality(OfLink(Window, link))
          /\ entry.total >= Cardinality(OfLink(counted, link))
    BY <1>2, <1>4
  <2>4. Cardinality(top) < Limit /\ (\E row \in counted : LinkOf[row] = link) => own # {}
    BY <1>2, <1>4
  <2> QED  BY <2>2, <2>3, <2>4
<1>5. LinksCountedOnce
  BY <1>2, <1>4, Zenon DEF LinksCountedOnce, OfLink
<1> QED  BY <1>3, <1>5

LEMMA InvSameReport == ASSUME DashboardInv  PROVE SameRowsSameReport
<1> SUFFICES ASSUME pc = "done", previous # NoReport  PROVE answer = previous
  BY DEF SameRowsSameReport
<1>1. pc \in AfterTotals /\ pc \in AfterDaily /\ pc \in AfterTop
  BY DEF AfterTotals, AfterDaily, AfterTop
<1>2. /\ previous = <<Counts(Window), DaysCounted, previous[3], previous[4]>>
      /\ IsTop(TopGroups, previous[3]) /\ IsReferers(RefererGroups, previous[4])
      /\ totals = Counts(Window) /\ daily = DaysCounted
      /\ IsTop(TopGroups, top) /\ IsReferers(RefererGroups, referers)
  BY <1>1, Zenon DEF DashboardInv, QuietInv
<1>3. top = previous[3] /\ referers = previous[4]
  BY <1>2, ListsAreOne DEF DashboardInv
<1> QED  BY <1>2, <1>3, Zenon DEF answer

\* The counts of a report add up (ReportAddsUp), whatever is committed and
\* deleted and whichever midnight passes between its statements.
THEOREM ReportsAddUp == Spec => []ReportAddsUp
<1>1. Init => DashboardInv  BY InitDashboardInv
<1>2. DashboardInv /\ [Next]_vars => DashboardInv'  BY NextKeeps
<1>3. DashboardInv => ReportAddsUp  BY InvReportAddsUp
<1> QED  BY <1>1, <1>2, <1>3, PTL DEF Spec

\* The list of links has one entry of a link that is there, with all its rows
\* and the name it was last seen under (LinksListed).
THEOREM LinksAreListedTruly == Spec => []LinksListed
<1>1. Init => DashboardInv  BY InitDashboardInv
<1>2. DashboardInv /\ [Next]_vars => DashboardInv'  BY NextKeeps
<1>3. DashboardInv => LinksListed  BY InvLinksListed
<1> QED  BY <1>1, <1>2, <1>3, PTL DEF Spec

\* The same rows give the same report (SameRowsSameReport).
THEOREM SameRowsGiveOneReport == Spec => []SameRowsSameReport
<1>1. Init => DashboardInv  BY InitDashboardInv
<1>2. DashboardInv /\ [Next]_vars => DashboardInv'  BY NextKeeps
<1>3. DashboardInv => SameRowsSameReport  BY InvSameReport
<1> QED  BY <1>1, <1>2, <1>3, PTL DEF Spec
=====================================================================
