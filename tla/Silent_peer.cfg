\* The peer stays connected and sends nothing.
CONSTANTS
  Kinds <- DataOnly
  AutoStart = FALSE
  Commands <- NoCommands
  MaxFrames = 1
  Capacity = 2
  MaxCommands = 0
  MaxAlerts = 0
  MaxFaults = 0
SPECIFICATION FairSpec
PROPERTIES
  SignalEndsProcess
