\* Two uploads to one key, no limit.
SPECIFICATION Spec
CONSTANTS
  k1 = k1
  k2 = k2
  Sessions = {s1, s2}
  Keys = {k1, k2}
  ObjectKey <- OneKey
  Requests = {h1, h2}
  Alarm = Alarm
  NoAlarm = NoAlarm
  NoSession = NoSession
  MaxConcurrent = 0
  SessionTtl = 1
  Retention = 2
  Slack = 1
  MaxTime = 5
  FaultSites = {}
  MaxFaults = 0
  MaxResets = 0
SYMMETRY AllSymmetry
INVARIANTS
  OneWriterPerKey
  PromotionsDoNotRace
PROPERTIES
  ReplacedStaysReplaced
