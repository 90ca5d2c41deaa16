SPECIFICATION FairSpec
CONSTANTS
  MaxPacketNo = 4
  signalFrequency = 1
  MinFrequency = 2
  PacketOctets = 3
  BlockOctets = 2
  StopAt = 7
  UserSamples = 7
  UIntOctets = 16
  MAX_PACKET_LOSS = 1
  LastPacket = 6
  MaxStrays = 1
  FaultSets <- MCFaultSets
INVARIANTS TypeOK StoredInOrder NoLostWakeup NothingLeft
PROPERTIES MeasurementEnds StopReturns
CHECK_DEADLOCK FALSE
