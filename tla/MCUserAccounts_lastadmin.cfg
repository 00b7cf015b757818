SPECIFICATION Spec
CONSTANTS
  Users = {1, 2, 3}
  Requests = {r1, r2, r3, r4, r5}
  Payloads <- OnlyDemote
  NewRows <- NoNewRows
  Boots <- AdminAndTwoSubs
  Domains = {}
  NoUser = 0
  Free = Free
  ScriptRuns = TRUE
INVARIANTS
  AtLeastOneActiveAdmin
CHECK_DEADLOCK FALSE
SYMMETRY AnyRequest
