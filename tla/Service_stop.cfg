\* STOP, SESSION_ENDED, a storage alert and a signal race to finalise.
CONSTANTS
  Kinds <- DataAndEnd
  AutoStart = FALSE
  Commands <- StopOnly
  MaxFrames = 3
  Capacity = 2
  MaxCommands = 1
  MaxAlerts = 1
  MaxFaults = 1
SPECIFICATION Spec
INVARIANTS
  FinalizeAlone
  PublishedComplete
  NoSilentLoss
PROPERTIES
  ClosedStaysClosed
