SPECIFICATION FairSpec
CONSTANTS
  Linger <- LingerAll
  MaxWrite = 1
  MaxOpen <- OpenOnce
  MaxNet = 2
  Window = 4
  Duplicates = TRUE
INVARIANTS
  TypeOK
  AckedIsReceived
  GotFinWasSent
  EofIsComplete
PROPERTY TransientEnds
CHECK_DEADLOCK FALSE
