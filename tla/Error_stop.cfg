\* A write fails, then a signal stops the daemon.
CONSTANTS
  Kinds <- DataOnly
  AutoStart = FALSE
  Commands <- NoCommands
  MaxFrames = 1
  Capacity = 2
  MaxCommands = 0
  MaxAlerts = 0
  MaxFaults = 1
SPECIFICATION Spec
PROPERTIES
  StopFinalises
