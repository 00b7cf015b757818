SPECIFICATION Spec
CONSTANTS
  Rows <- MCRows
  At <- MCAt
  Result <- MCResult
  LinkOf <- MCLinkOf
  CodeOf <- MCCodeOf
  RefererOf <- MCRefererOf
  Links <- MCLinks
  Codes <- MCCodes
  NoLink = NoLink
  NoCode = NoCode
  NoReferer = NoReferer
  NoReport = NoReport
  DayLength = 2
  Offset = 1
  Windows = {1, 2}
  Limit = 3
  MaxNow = 5
INVARIANTS
  ReportAddsUp
  LinksListed
  SameRowsSameReport
CHECK_DEADLOCK FALSE
