SPECIFICATION FairSpec
CONSTANTS
  Keys = {k1}
  Pairs = {k1}
  Secrets = {}
  MaxVersions = 1
  Kind <- MCKind
  Handles = {h1, h2}
  Certified <- NoCertificates
  Refreshers = {r}
  Apps = {p1, p2}
  Experimental = FALSE
  NoThread = NoThread
  NoVersion = NoVersion
PROPERTIES CallsReturn EventuallyUpToDate
