SPECIFICATION FairSpec
CONSTANTS
  c1 = c1
  c2 = c2
  t1 = t1
  t2 = t2
  u1 = u1
  p1 = p1
  p2 = p2
  i1 = i1
  i2 = i2
  None = None
  Clients = {c1, c2}
  TcpVs = {t1, t2}
  UdpVs = {u1}
  FullNat = {t1, u1}
  Ports = {p1, p2}
  Bucket <- OwnBucket
  Conns = {i1, i2}
  Timeout = 2
  WheelSize = 3
INVARIANTS  OneConnection TimersArmed
PROPERTIES  ConnectionsEnd
