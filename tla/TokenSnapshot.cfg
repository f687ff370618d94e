SPECIFICATION HSpec
CONSTANTS
  Keys = {s1, s2}
  Pairs = {}
  Secrets = {s1, s2}
  MaxVersions = 1
  Kind <- MCKind
  Handles = {h1, h2}
  Certified <- NoCertificates
  Refreshers = {r}
  Apps = {p}
  Experimental = FALSE
  NoThread = NoThread
  NoVersion = NoVersion
SYMMETRY Symmetry
INVARIANT RegularSnapshot
PROPERTY RefinesTokenView
