SPECIFICATION Spec
CONSTANTS
  Sizes = {1, 3}
  Mtu = 3
  HeaderSize = 1
  MaxSize = 2
  DeviceMaxPackets = {0, 1}
  DeviceMaxBytes = {3, 5}
  TxCounts = {1, 2}
  Quota = 4
  Limits = {0, 4}
  MaxPackets = 4
INVARIANT NoStall
PROPERTIES ImplementsPacketFifo AllSent
CHECK_DEADLOCK FALSE
