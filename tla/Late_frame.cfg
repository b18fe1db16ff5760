\* A frame accepted before the stop is pushed after the drain.
CONSTANTS
  Kinds <- DataOnly
  AutoStart = FALSE
  Commands <- NoCommands
  MaxFrames = 1
  Capacity = 2
  MaxCommands = 0
  MaxAlerts = 0
  MaxFaults = 0
SPECIFICATION Spec
INVARIANTS
  NothingLeftAtReset
