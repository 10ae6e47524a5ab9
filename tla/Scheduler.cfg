SPECIFICATION FairSpec
CONSTANTS
  Tasks = {"keyed", "plain"}
  TaskKey <- MCTaskKey
  Jobs = {1}
  Keys = {"k"}
  NoKey = NoKey
  Budgets = {2}
  Limit = 2
INVARIANTS
  LoopUnbroken
  DisposedIsQuiet
PROPERTIES
  TaskKeepsRunning
  DisposeResolves
