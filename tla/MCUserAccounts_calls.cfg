SPECIFICATION Spec
CONSTANTS
  Users = {1, 2, 3}
  Requests = {r1, r2, r3}
  Payloads <- Bodies
  NewRows <- NewAccounts
  Boots <- TwoAdmins
  Domains = {d1}
  NoUser = 0
  Free = Free
  ScriptRuns = TRUE
INVARIANTS
  LastAdminKept
  RemovalsSerialised
  RemovalsCovered
  AdminsHoldNoGrants
  CyclesNeedNewSets
  NobodyStuck
PROPERTIES
  AnswerIsCommittedRow
CHECK_DEADLOCK FALSE
SYMMETRY AnyRequest
