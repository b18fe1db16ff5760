-------------------------- MODULE MCRuntimeService --------------------------
(* RuntimeService with the sets of frames and commands its runs use.       *)
EXTENDS RuntimeServiceProperties

DataOnly      == {"data"}
DataAndEnd    == {"data", "ended"}
StartAndEnd   == {"started", "ended"}
AllKinds      == {"data", "started", "ended"}

NoCommands    == {}
StopOnly      == {"STOP"}
StartAndStop  == {"START", "STOP"}
=============================================================================
