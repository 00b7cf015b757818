SPECIFICATION Spec
CONSTANTS
  ip1 = ip1
  l1 = l1
  l2 = l2
  Ips = {ip1}
  Countries = {"CN", "US"}
  Platforms <- AllPlatforms
  Hosts = {}
  Targets = {}
  Urls = {}
  Unknown = Unknown
  Odd = Odd
  Links = {l1, l2}
  Programs = {"check", "upgrade"}
  LegacyLinks <- EveryOrFewLinks
  Edited <- FewLinks
  Starts <- MCStarts
INVARIANTS
  DecidesAsBefore
  ReportIsComplete
CHECK_DEADLOCK FALSE
