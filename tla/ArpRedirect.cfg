SPECIFICATION Spec
CONSTANTS
  g1 = g1
  g2 = g2
  h = h
  x = x
  y = y
  None = None
  Hosts <- LanHosts
  Remote <- RemoteHosts
  Gates <- TwoGates
  Size = 2
  RouteSize = 2
INVARIANT
  RouteHostsOffLan
