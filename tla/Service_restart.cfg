\* The operator stops and starts sessions; one file operation fails.
CONSTANTS
  Kinds <- DataOnly
  AutoStart = FALSE
  Commands <- StartAndStop
  MaxFrames = 2
  Capacity = 1
  MaxCommands = 3
  MaxAlerts = 0
  MaxFaults = 1
SPECIFICATION Spec
INVARIANTS
  NoSilentLoss
  WriterAlive
PROPERTIES
  KeepsPromise
