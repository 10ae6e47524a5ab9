SPECIFICATION FairSpec
CONSTANTS
  Ids = {"a", "b"}
  Calls = {1, 2}
  NoCall = 0
  MaxEntries = 1
  Ttl = 2
INVARIANTS
  OncePerWindow
  RemembersSuccesses
  AbortReachesHandlers
PROPERTIES
  TimedIsAnswered
