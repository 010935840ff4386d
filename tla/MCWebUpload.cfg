\* A file of up to three parts with two workers and every failure and cancel, or
\* three files for two slots.
SPECIFICATION FairSpec
CONSTANTS
  u1 = u1
  u2 = u2
  u3 = u3
  Text = Text
  Html = Html
  Png = Png
  Docx = Docx
  Uploads = {u1, u2, u3}
  Workers = {1, 2}
  Drops <- MCDrops
  NoFile = NoFile
  MaxActive = 2
  MaxRetries = 1
  R2MaxParts = 4
  R2MaxPartSize = 2
  PartSize = 2
  ConfiguredMaxParts = 3
  MaxFileBytes = 8
  PrefixAllowlist <- Allowlist
  AllowedExtensions = {}
  BlockedExtensions = {"exe"}
  AllowedMime <- Allowed
  BlockedMime = {Html}
  Staging = "staging"
  NoExtension = "none"
  ZipType = ZipType
  ZipContainers = {Docx}
  Unknown = Unknown
CHECK_DEADLOCK FALSE
INVARIANTS
  TypeOK
  SlotsBounded
  EveryPartOnce
  PartsAgree
  StoredIsAllowed
  OutcomeHonest
  NoSessionLeft
PROPERTIES
  LifecycleSpec
  FinishedStays
  QueueDrains
