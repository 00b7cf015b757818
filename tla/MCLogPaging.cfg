SPECIFICATION FairSpec
CONSTANTS
  l1 = l1
  l2 = l2
  Rows <- MCRows
  At <- MCAt
  Links <- MCLinks
  LinkOf <- MCLinkOf
  PageSizes = {1, 2}
  AnyLink = AnyLink
  NoCursor = NoCursor
INVARIANTS
  WalkAdvances
  WalkMissesNothing
  AccessEnds
PROPERTIES
  WalkEnds
CHECK_DEADLOCK FALSE
