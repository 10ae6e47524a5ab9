SPECIFICATION MCSpec
CONSTANTS
  Ids = {"a", "b"}
  Calls = {1, 2}
  NoCall = 0
  MaxEntries = 1
  Ttl = 1
  Workers = {"w"}
  Resident <- TwoHandlers
  Visitors = {"v"}
  MaxFaults = 3
INVARIANTS NeitherLostNorRepeated
PROPERTIES CommittedIsHandled ImplementsChannel
CHECK_DEADLOCK FALSE
