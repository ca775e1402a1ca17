SPECIFICATION FairSpec
CONSTANTS
  StreamLen = 6
  MaxRx = 4
  SeqMod = 32
  Isn = 9
INVARIANTS
  TypeOK
  PointersAgree
  InOrderDataIsStream
  NoOverrun
  EofAfterAllData
PROPERTIES
  NeverTakenBack
  StreamDelivered
CHECK_DEADLOCK FALSE
