CONSTANTS
  MaxJump = 5
  AudioGap = 5
  TelemetryGap = 5
  ErrorLoss = 1
  MonotonicLimit = 1
  MinValid = 4
  Second = 4
  Heard = 2
  SearchWindow = 4
  GridStep = 2
  JoinTolerance = 1
  SegmentMin = 4
  Metre = 1
  TextBytes = 5
  NaN = NaN
  MaxRuns = 2
  MaxFaults = 2
  MaxRetries = 1
  Commands <- MCCommands
  Sessions <- Drives
SPECIFICATION PipelineSpec
INVARIANT EventsInEgoClock
