SPECIFICATION VfSpec
CONSTANTS
  NumVfs = 1
  Vids = {0, 1, 2}
  VlvfSize = 1
  RarCount = 3
  Hashes = {h}
  Macs = {m1, m2}
  MaxUc = 2
  Subjects = {{"mac"}, {"multicast"}, {"vlan"}}
INVARIANTS   HearsOwnMac
 
