SPECIFICATION PipelineSpec
CONSTANTS
  Sessions = {s1, s2}
  Handlers = {h1, h2}
  Total = 3
  MaxChunk = 2
  MayStoreNothing = FALSE
  NoState = NoState
  Chunk = 2
  NetworkRetries = 1
  MaxAttempts = 1
  MaxFaults = 1
  NoSession = NoSession
  NoCall = NoCall
INVARIANT InterruptedUploadsResume
CHECK_DEADLOCK FALSE
