SPECIFICATION FairSpec
CONSTANTS
  Jobs = {a, b}
  Keys = {"k"}
  NoKey = NoKey
  NoJob = NoJob
  Options <- LiveOptions
  Backoffs <- MCBackoffs
  Concurrency = 2
  Waiters = {"w"}
  Stubborn = {b}
  MaxDispatches = 3
  MaxOrphans = 1
PROPERTIES
  EveryJobSettles
  ClosesReturn
  ImplementsLifecycle
