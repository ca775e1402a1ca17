SPECIFICATION FairSpec
CONSTANTS
  Buckets = {0, 1}
  Keys = {p, q}
  Nil = Nil
  Pieces = 4
  Unit = 4
  MaxSize = 40
  KeyPadding = FALSE
INVARIANTS
  TypeOK
  OneChainPerKey
  
  HolesIntact
  
PROPERTIES
  ChainEnds
