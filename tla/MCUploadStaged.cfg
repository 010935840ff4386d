\* An upload that ended and whose staged object could not be deleted.
SPECIFICATION Spec
CONSTANTS
  k1 = k1
  k2 = k2
  Sessions = {s1}
  Keys = {k1, k2}
  ObjectKey <- OneKey
  Requests = {h1}
  Alarm = Alarm
  NoAlarm = NoAlarm
  NoSession = NoSession
  MaxConcurrent = 0
  SessionTtl = 1
  Retention = 2
  Slack = 1
  MaxTime = 5
  FaultSites = {"reject.delete", "promote.delete"}
  MaxFaults = 1
  MaxResets = 0
INVARIANTS
  StagedReclaimed
