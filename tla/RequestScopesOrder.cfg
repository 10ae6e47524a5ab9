CONSTANTS
  Feature = feature
  Scopes = {"r1"}
  Tokens = {"S", "R", "X"}
  Lifetime <- MCLifetime
  Needs <- MCNeeds
  Failing = {"S", "X"}
  Wants <- MCWantsOne
SPECIFICATION Spec
INVARIANT InitializesInOrder
CHECK_DEADLOCK FALSE
