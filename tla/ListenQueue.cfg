CONSTANTS
  Tcbs = {t1, t2}
  Clients = {c1, c2}
  Nil = Nil
  Backlog = 2
  MaxSockets = 1
  NonBlocking = TRUE
SPECIFICATION FairSpec
INVARIANTS
  TypeOK
  OwnedOnce
  PointerIsFresh
  OnePerPeer
PROPERTIES
  AcceptedKeepsPeer
  
