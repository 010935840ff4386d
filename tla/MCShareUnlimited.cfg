\* An unlimited share and its revocation.
SPECIFICATION Spec
CONSTANTS
  Requests = {h1, h2}
  NoRecord = NoRecord
  NoCount = NoCount
  NoTime = NoTime
  MaxDownloads = 0
  Seed = 1
  Ttl = 2
  Retention = 1
  Skew = 1
  Modes = {FALSE, TRUE}
  StaleReads = TRUE
  MaxTime = 4
  MaxCount = 1
  MaxCrashes = 0
SYMMETRY RequestSymmetry
CHECK_DEADLOCK FALSE
INVARIANTS
  CreatedIsListed
PROPERTIES
  RevocationSticks
