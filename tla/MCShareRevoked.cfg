\* A revoke concurrent with a download, every reader up to date.
SPECIFICATION Spec
CONSTANTS
  Requests = {h1, h2}
  NoRecord = NoRecord
  NoCount = NoCount
  NoTime = NoTime
  MaxDownloads = 2
  Seed = 0
  Ttl = 2
  Retention = 0
  Skew = 0
  Modes = {FALSE}
  StaleReads = FALSE
  MaxTime = 2
  MaxCount = 0
  MaxCrashes = 0
CHECK_DEADLOCK FALSE
INVARIANTS
  RevokedIsRejected
