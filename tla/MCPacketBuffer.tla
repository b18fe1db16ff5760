--------------------------- MODULE MCPacketBuffer ---------------------------
(* PacketBufferSpec on packets of one, two and five bytes, the last larger *)
(* than the byte limit of the configurations.                              *)
EXTENDS PacketBufferSpec

MCPacket == {"small", "medium", "large"}
MCSizeOf ==
  [p \in MCPacket |-> CASE p = "small" -> 1 [] p = "medium" -> 2 [] p = "large" -> 5]
=============================================================================
