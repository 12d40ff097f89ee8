CONSTANTS
  Upkeeps = {u1, u2}
  Limit = 2
  Retries = 2
  PerBucket = 2
  Width = 3
  MaxTotal = 6
  Counts <- MCCounts
SPECIFICATION Spec
INVARIANTS TypeOK RowsAtBlock FooterComplete
PROPERTY StatsEnd
CHECK_DEADLOCK FALSE
