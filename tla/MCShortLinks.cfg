SPECIFICATION FairSpec
CONSTANTS
  d1 = d1
  d2 = d2
  c1 = c1
  c2 = c2
  l1 = l1
  t1 = t1
  m0 = m0
  m1 = m1
  m2 = m2
  Links = {l1, l2, l3}
  Domains = {d1, d2}
  Codes = {c1, c2}
  Targets = {t1, t2, t3}
  Marks = {m0, m1, m2}
  NoLink = NoLink
  Requests = {r1, r2}
  Callers = {u}
  Changing = {d1}
  Bodies <- WriteBodies
  Starts <- OneLink
  NoCode = NoCode
  NoMark = NoMark
  Free = Free
INVARIANTS
  RowsAgree
PROPERTIES
  LinksAreCatalog
  EveryCallAnswered
CHECK_DEADLOCK FALSE
