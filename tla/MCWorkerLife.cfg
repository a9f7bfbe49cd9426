SPECIFICATION WorkerSpec
CONSTANTS
  QueueFrames = 2
  MaxFaults = 2
  Sources = {process, microphone}
  NoSource = off
INVARIANT InterruptionNoted FramesOfDevice
PROPERTY WorkerEnds ClientReturns WorkerListens CaptureRecovers AudioFollows
CHECK_DEADLOCK FALSE
