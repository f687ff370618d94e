CONSTANTS
  t1 = t1  t2 = t2  v1 = v1  v2 = v2  v3 = v3
  Threads = {t1, t2}
  ProvHandles = {p1}
  KeyHandles = {k1}
  Versions = {v1, v2, v3}
  ProtectionLevel <- MCProtectionLevel
  Algorithm <- MCAlgorithm
  Config <- MCConfig
  Settable = {}
  Does <- MCDoes
  MaxChanges = 1
SPECIFICATION Spec
INVARIANT MissingVersionIsSkipped
CHECK_DEADLOCK FALSE
