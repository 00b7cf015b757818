SPECIFICATION FairSpec
CONSTANTS
  l1 = l1
  d1 = d1
  k1 = k1
  k2 = k2
  t1 = t1
  t2 = t2
  t3 = t3
  u1 = u1
  u2 = u2
  ip1 = ip1
  n0 = n0
  n1 = n1
  n2 = n2
  n3 = n3
  Ips = {ip1}
  Countries = {"CN"}
  Platforms = {"desktop", "bot"}
  Hosts <- MCHosts
  Targets = {t1, t2, t3}
  Urls = {u1, u2}
  Unknown = Unknown
  Links = {l1, l2}
  Domains = {d1}
  Codes = {k1, k2}
  Contents <- Rewrites
  Old <- AnyContents
  Visitors <- EveryVisitor
  Requests = {r1}
  Changing = {n0, n1, n2, n3}
  Provider = TRUE
  Notes <- MCNotes
INVARIANTS
  PrimaryReason
  AskedWhenItMatters
  RightDestination
  LogIsTrue
PROPERTIES
  LogsSurvive
  EveryVisitAnswered
CHECK_DEADLOCK FALSE
