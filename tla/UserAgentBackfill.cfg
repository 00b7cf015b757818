SPECIFICATION FairSpec
CONSTANTS
  Rows = {1, 2, 3}
  Nameless = {2}
  Runs = {w1, w2, w3}
  Removals = {d1}
  BatchSize = 2
  MaxCrashes = 1
INVARIANTS
  SharedOut
  LastOneOut
PROPERTIES
  EveryRunEnds
CHECK_DEADLOCK FALSE
