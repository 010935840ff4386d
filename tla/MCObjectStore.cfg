\* Two files, an upload promoted over one of them, three requests, two of them at a
\* time, and one time stamp: deletions of one key go to the same place in the trash.
SPECIFICATION Spec
CONSTANTS
  ka = ka
  kb = kb
  x = x
  y = y
  z = z
  s1 = s1
  r1 = r1
  r2 = r2
  t1 = t1
  Keys = {ka, kb}
  Blobs = {x, y, z}
  Contents <- TwoFiles
  Sessions = {s1}
  Staged <- StagedOf
  Target <- TargetOf
  Requests = {r1, r2}
  NoBlob = NoBlob
  Mixed = Mixed
  Chunks = 2
  Times = {t1}
  MaxNest = 2
  MaxBegun = 3
SYMMETRY RequestSymmetry
CHECK_DEADLOCK FALSE
INVARIANTS
  NothingLost
  StagedIsPromoted
