\* One upload, two concurrent requests, any R2 failure, one restart, under fairness.
SPECIFICATION FairSpec
CONSTANTS
  k1 = k1
  k2 = k2
  Sessions = {s1}
  Keys = {k1, k2}
  ObjectKey <- OneKey
  Requests = {h1, h2}
  Alarm = Alarm
  NoAlarm = NoAlarm
  NoSession = NoSession
  MaxConcurrent = 0
  SessionTtl = 1
  Retention = 2
  Slack = 1
  MaxTime = 5
  FaultSites = {"release.abort", "release.delete", "init.abort", "reject.delete", "promote.delete"}
  MaxFaults = 1
  MaxResets = 1
INVARIANTS
  TypeOK
  OnlyValidStored
  ExpiredReleased
PROPERTIES
  LifecycleSpec
  RecordsReclaimed
  ResourcesReleased
