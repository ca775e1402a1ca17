CONSTANTS
  Servers = {s1, s2}
  Addrs = {a1, a2}
  Nil = Nil
  MaxRetries = 2
  MaxXid = 3
  MaxReplies = 4
SYMMETRY Symmetry
SPECIFICATION Spec
INVARIANT SelectingAwaitsOffer
