SPECIFICATION FairSpec
CONSTANTS
  NumBuf = 3
  IpOfs = 14
  TwoStores = FALSE
  MaxBatch = 2
  MaxSeq = 7
INVARIANTS
  TypeOK
  EveryPacketAccounted
  HeldPacketStable
PROPERTIES
  RingIsFifo
  EveryPacketLeaves
CHECK_DEADLOCK FALSE
