\* Chunks of three frames, a flush every two: both limits are met
\* in four calls, and chunks are also rotated and flushed by time. Two faults
\* reach every error path; the properties speak of none or one.
CONSTANTS
  ChunkMaxFrames = 3
  FlushPackets = 2
  MaxCalls = 4
  MaxFaults = 2
SPECIFICATION SessionSpec
INVARIANTS
  TypeOK
  BoundedLoss
  ClosedIsDurable
  ManifestRecoverable
  CleanSessionIsOk
  LossIsNoticed
\* A session ends closed, killed or without power.
CHECK_DEADLOCK FALSE
