SPECIFICATION RecSpec
CONSTANTS
  Requests = {r1, r2}
  Sizes = {1, 2}
  Latency = 1
  MaxFailures = 2
  MaxFaults = 3
  None = None
INVARIANT ReportedIsClosed OwnRequest SteadyFiles
PROPERTY RecordingReported WaitingEnds
CHECK_DEADLOCK FALSE
