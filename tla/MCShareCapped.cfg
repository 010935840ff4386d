\* A share of one download, spent before or not, stale reads, skewed clocks, a crash, fairness.
SPECIFICATION FairSpec
CONSTANTS
  Requests = {h1, h2}
  NoRecord = NoRecord
  NoCount = NoCount
  NoTime = NoTime
  MaxDownloads = 1
  Seed = 1
  Ttl = 1
  Retention = 1
  Skew = 1
  Modes = {FALSE}
  StaleReads = TRUE
  MaxTime = 3
  MaxCount = 0
  MaxCrashes = 1
CHECK_DEADLOCK FALSE
INVARIANTS
  TypeOK
  FastPathSound
  CounterIsSpent
  WipeArmed
PROPERTIES
  QuotaSpec
  CounterReclaimed
