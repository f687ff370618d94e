CONSTANTS
  Algs <- MCAlgs
  Sizes = {0, 1, 16, 190, 191, 245, 246, 65520, 65521, 65536, 65537}
  RandomSizes = {7, 8, 1024, 1025}
  MaxFaults = 2
  Items <- MCItems
  MaxPage = 2
  Timeout = 30000
  RpcTimes = {5, 700}
SPECIFICATION Spec
INVARIANTS Integrity OneFaultIsHarmless OnlyAdvertised UsageIsExact NoLateRefusal RoundTrip ListIsComplete WaitIsTimely
PROPERTY LoopsEnd
