\* Two requests of one isolate across a rotation of the signing keys, and single
\* requests that meet every guard in deployments of every kind.
SPECIFICATION Spec
CONSTANTS
  k1 = k1
  k2 = k2
  k3 = k3
  k4 = k4
  team = team
  files = files
  web = web
  other = other
  Requests = {h1, h2}
  Keys = {k1, k2, k3, k4}
  Kids = {"a", "b"}
  Kid <- KidOf
  Alg <- AlgOf
  Usable = {k1, k2, k3}
  KeySets <- Documents
  Algorithms = {"RS256"}
  Calls <- AllCalls
  Deployments = {"plain", "rotating", "readonly", "no issuer", "no number", "bad origin", "generic", "specific", "share"}
  Variables <- VariablesOf
  NoKid = NoKid
  NoKey = NoKey
  Absent = Absent
  Blank = Blank
  Malformed = Malformed
  NoOrigin = NoOrigin
  NoIssuer = NoIssuer
  Nothing = Nothing
  Never = Never
  Ttl = 1
  ClockSkew = 1
  MaxDelay = 1
  MaxTime = 3
SYMMETRY RequestSymmetry
INVARIANTS
  TypeOK
  WithdrawnKeyExpires
  ServedKeyNotRefused
  MutationsGuarded
PROPERTIES
  HandledInTime
