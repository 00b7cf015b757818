SPECIFICATION Spec
CONSTANTS
  h1 = h1
  h2 = h2
  h3 = h3
  ip1 = ip1
  ip2 = ip2
  u1 = u1
  u2 = u2
  k1 = k1
  b1 = b1
  b2 = b2
  g1 = g1
  Domains = {1, 2, 3}
  Users = {u1, u2}
  Links = {k1}
  Entries = {b1, b2}
  Logs = {g1}
  Hosts = {h1, h2, h3}
  Ips = {ip1, ip2}
  Odd = Odd
  Unset = Unset
  DomainOf <- MCDomainOf
  LinkOf <- MCLinkOf
  LegacyData <- MCLegacyData
INVARIANTS
  RenamesDoNotCollide
  DomainsResolve
  DataCarriedOver
  RefusedForCause
CHECK_DEADLOCK FALSE
