\* The peer starts and ends a session while the daemon starts.
CONSTANTS
  Kinds <- StartAndEnd
  AutoStart = TRUE
  Commands <- NoCommands
  MaxFrames = 2
  Capacity = 2
  MaxCommands = 0
  MaxAlerts = 0
  MaxFaults = 0
SPECIFICATION FairSpec
PROPERTIES
  ShutdownEnds
