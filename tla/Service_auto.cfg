\* The peer starts and ends sessions while the daemon starts its own.
CONSTANTS
  Kinds <- AllKinds
  AutoStart = TRUE
  Commands <- NoCommands
  MaxFrames = 4
  Capacity = 2
  MaxCommands = 0
  MaxAlerts = 1
  MaxFaults = 0
SPECIFICATION Spec
INVARIANTS
  TypeOK
  FinalizeAlone
  PublishedComplete
PROPERTIES
  KeepsPromise
