CONSTANTS
  Feature = feature
  Scopes = {"r1", "r2"}
  Tokens = {"S", "R", "X"}
  Lifetime <- MCLifetime
  Needs <- MCNeeds
  Failing = {"S", "X"}
  Wants <- MCWants
SPECIFICATION FairSpec
INVARIANTS
  ResolvedIsInitialized
  NothingLeaks
  DependentsFirst
PROPERTIES
  ScopesSettle
CHECK_DEADLOCK FALSE
