SPECIFICATION FairSpec
CONSTANTS
  v1 = v1  s1 = s1  s2 = s2  a = a  b = b
  web = web  tls = tls  plain = plain  both = both
  None = None
  Procs = {p1, p2}
  NumNic = 2
  LocalIps = {v1, s1, s2}
  Hosts = {a, b}
  Lan <- TwoNets
  Pools = {plain, both}
  VsPorts = {web, tls}
  VsIpMax = 1
  Config <- TwoServers
INVARIANTS OneMacPerIp LocalIpsAnswered ForwardedReachesServer
PROPERTIES PoolServes
