SPECIFICATION Spec
CONSTANTS
  o1 = o1
  o2 = o2
  o3 = o3
  h1 = h1
  h2 = h2
  h3 = h3
  r1 = r1
  r2 = r2
  r3 = r3
  t1 = t1
  k1 = k1
  k2 = k2
  k3 = k3
  Ops = {o1, o2, o3}
  NoOp = NoOp
  Holders = {h1, h2, h3}
  LockKeys = {l1, l2}
  NoHolder = NoHolder
  MaxKeys = 1
  LeaseTtl = 2
  Migrations = {1, 2, 3}
  Runners = {r1, r2, r3}
  Registered <- Releases
  Irreversible = {2}
  NoRunner = NoRunner
  MaxFaults = 2
  Keys = {k1, k2, k3}
  Tags = {t1}
  Options <- Lives
  Forever = 2
  MaxEntries = 2
  MaxVersion <- Writes
  Inner = {k3}
  Names = {n1, n2}
  Attempts = {a1, a2}
  NoName = NoName
  MaxFailures = 2
  Window = 2
  Lockout = 2
  MaxNames = 1
  Clients = {d1, d2}
  Limit = 2
  RateWindow = 2
  MaxBuckets = 1
  MaxAttempts = 3
  MaxBytes = 2
  Pods = 2
  Checks = {u1, u2}
  Timed = {u1, u2}
  Size = 3
  Tokens = {x1, x2, x3}
  Controller = Controller
  Context = Context
  MaxProviders = 1
INVARIANTS ClientIsOwned LeaseHeld JournalTellsTruth CacheConsistent InvalidationHolds
  GuessesBounded SpanBounded AbortIsFinal OrderIsRight SealIsSound LeftClean ToldOnce StreamKeepsScope
PROPERTIES DisposeReturns ChangesAtTheEnd LockoutStands RequestSettles LifeSettles
CHECK_DEADLOCK FALSE
