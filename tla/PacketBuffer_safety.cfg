\* Both limits bind: three packets, four bytes.
CONSTANTS
  Packet <- MCPacket
  SizeOf <- MCSizeOf
  Capacity = 3
  MaxBytes = 4
  MaxPushes = 5
SPECIFICATION Spec
INVARIANTS
  TypeOK
  QueueIsNewest
  Conservation
  PacketBound
  BytesExact
  ByteBound
  LeavesOnce
PROPERTY DropsOnlyIfFull
\* The behaviour ends when the bound MaxPushes is used up and the queue is empty.
CHECK_DEADLOCK FALSE
