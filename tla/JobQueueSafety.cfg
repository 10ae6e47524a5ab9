SPECIFICATION Spec
CONSTANTS
  Jobs = {a, b, c}
  Keys = {"k"}
  NoKey = NoKey
  NoJob = NoJob
  Options <- MCOptions
  Backoffs <- MCBackoffs
  Concurrency = 2
  Waiters = {"w"}
  Stubborn = {}
  MaxDispatches = 3
  MaxOrphans = 1
SYMMETRY Ids
INVARIANTS
  DedupTracksActiveJobs
  NoLostWakeup
  NoStrandedWaiter
  ClosedIsQuiet
