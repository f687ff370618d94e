SPECIFICATION Spec
CONSTANTS
  Keys = {a1}
  Pairs = {a1}
  Secrets = {}
  MaxVersions = 1
  Kind <- MCKind
  Handles = {h1, h2, h3}
  Certified <- MCCertified
  Refreshers = {r}
  Apps = {p1, p2}
  Experimental = FALSE
  NoThread = NoThread
  NoVersion = NoVersion
SYMMETRY Symmetry
INVARIANTS TypeOK HandleAccounting StoreWellFormed NoDuplicateHandle BuildInMutex
PROPERTY EvictionExact
