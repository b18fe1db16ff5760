\* Sessions may be started and finalised while the daemon shuts down: by the
\* peer, the operator or an alert. Small enough for liveness properties.
CONSTANTS
  Kinds <- DataAndEnd
  AutoStart = FALSE
  Commands <- StartAndStop
  MaxFrames = 1
  Capacity = 1
  MaxCommands = 1
  MaxAlerts = 1
  MaxFaults = 1
SPECIFICATION FairSpec
PROPERTIES
  StopReturns
  BufferDrains
  GracefulExit
