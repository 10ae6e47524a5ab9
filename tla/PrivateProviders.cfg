SPECIFICATION MCGraphSpec
CONSTANTS
  Size = 2
  Tokens = {x1, x2}
  Controller = Controller
  Context = Context
  MaxProviders = 1
INVARIANT PrivateStaysPrivate
CHECK_DEADLOCK FALSE
