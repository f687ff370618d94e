SPECIFICATION Spec
CONSTANTS
  Threads = {p, q}
  Slots = {s1, s2}
  Handles = {h1}
  MaxProviders = 2
  MaxForks = 1
  NoSession = NoSession
CHECK_DEADLOCK FALSE
INVARIANTS LoggingFollowsProvider SetNeverRefused RefresherUsesLiveMembers SessionsAreBacked
PROPERTY CallsReturn
