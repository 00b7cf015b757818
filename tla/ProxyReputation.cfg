SPECIFICATION FairSpec
CONSTANTS
  Ips = {ip1}
  Requests = {r1, r2}
  Ttl = 2
  MaxTime = 3
  NoRow = NoRow
INVARIANTS
  EntriesAreAnswers
  AnswersAreFresh
PROPERTIES
  EveryLookupAnswered
CHECK_DEADLOCK FALSE
