SPECIFICATION Spec
CONSTANTS
  None = None
  Nics = {na, nb}
  Addrs = {x, y}
  Queues = 2
  NumProcs = 2
  RegsPages = 128
  MaxFaults = 1
SYMMETRY Symmetric
INVARIANTS RightRings Agree
CHECK_DEADLOCK FALSE
