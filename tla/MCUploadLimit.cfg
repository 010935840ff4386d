\* Two uploads to two keys under a limit of one.
SPECIFICATION Spec
CONSTANTS
  k1 = k1
  k2 = k2
  Sessions = {s1, s2}
  Keys = {k1, k2}
  ObjectKey <- TwoKeys
  Requests = {h1, h2}
  Alarm = Alarm
  NoAlarm = NoAlarm
  NoSession = NoSession
  MaxConcurrent = 1
  SessionTtl = 1
  Retention = 2
  Slack = 1
  MaxTime = 5
  FaultSites = {}
  MaxFaults = 0
  MaxResets = 0
SYMMETRY RequestSymmetry
INVARIANTS
  CapRespected
  AlarmCovers
