SPECIFICATION Spec
CONSTANTS
  Jobs = {a, b}
  Keys = {"k"}
  NoKey = NoKey
  NoJob = NoJob
  Options <- LiveOptions
  Backoffs <- MCBackoffs
  Concurrency = 1
  Waiters = {"w"}
  Stubborn = {}
  MaxDispatches = 2
  MaxOrphans = 1
INVARIANT CloseWaitsForHandlers
