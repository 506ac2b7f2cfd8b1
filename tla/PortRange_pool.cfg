SPECIFICATION RangeSpec
CONSTANTS
  p1 = p1
  p2 = p2
  p3 = p3
  p4 = p4
  Ports = {p1, p2, p3, p4}
  Reserved = {p1, p2}
  NoPort = NoPort
PROPERTY ImplementsPool
