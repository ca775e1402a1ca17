CONSTANTS
  Servers = {s1, s2}
  Addrs = {a1, a2}
  Nil = Nil
  MaxRetries = 2
  MaxXid = 3
  MaxReplies = 5
SYMMETRY Symmetry
SPECIFICATION Spec
INVARIANTS
  TypeOK
  HeldWasGranted
  RequestNamesOfferer
  NeverWaitsForEver
