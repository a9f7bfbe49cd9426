SPECIFICATION PathSpec
CONSTANTS
  Sizes = {1, 2}
  MaxFaults = 2
  Latency = 1
INVARIANT ReplayWhole ReplayOneSize
PROPERTY StoppedHolds SaveSettles
