SPECIFICATION Spec
CONSTANTS
  Sessions = {s1}
  Handlers = {h1, h2}
  Total = 4
  MaxChunk = 2
  MayStoreNothing = FALSE
  NoState = NoState
INVARIANT Retention
