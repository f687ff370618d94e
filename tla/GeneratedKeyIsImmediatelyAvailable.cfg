SPECIFICATION CSpec
CONSTANTS
  Keys = {a1}
  Pairs = {a1}
  Secrets = {}
  MaxVersions = 1
  Kind <- MCKind
  Handles = {h1, h2}
  Certified <- NoCertificates
  Refreshers = {r}
  Apps = {p}
  Experimental = FALSE
  NoThread = NoThread
  NoVersion = NoVersion
INVARIANT GeneratedKeyIsImmediatelyAvailable
