SPECIFICATION Spec
CONSTANTS
  Keys = {s1, u1}
  Pairs = {}
  Secrets = {s1}
  MaxVersions = 2
  Kind <- MCKind
  Handles = {h1, h2}
  Certified <- NoCertificates
  Refreshers = {r}
  Apps = {p}
  Experimental = TRUE
  NoThread = NoThread
  NoVersion = NoVersion
SYMMETRY Symmetry
INVARIANTS HandleAccounting NoDuplicateHandle
PROPERTIES StableHandles EvictionExact
