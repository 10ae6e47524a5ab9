SPECIFICATION Spec
CONSTANTS
  Tasks = {"keyed", "plain"}
  TaskKey <- MCTaskKey
  Jobs = {1, 2}
  Keys = {"k"}
  NoKey = NoKey
  Budgets = {2}
  Limit = 2
INVARIANT NonOverlapping
