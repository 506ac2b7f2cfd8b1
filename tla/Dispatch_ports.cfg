SPECIFICATION Spec
CONSTANTS
  NumProc = 3
  PortBase = 1024
  Radix = 256
  Ports <- BoundaryPorts
  Clients = {c1, c2}
  FullNat = {v1}
  Transparent = {}
  Server = s
  SelfIp = self
SYMMETRY ClientSymmetry
INVARIANTS SelfPortsDiffer
