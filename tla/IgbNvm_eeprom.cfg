SPECIFICATION NvmSpec
CONSTANTS
  Ports = {a, b}
  WordSize = 6
  PageWords = 2
  AddressWords = 4
  ChecksumReg = 2
  NvmSum = 2
  Radix = 2
  Garbage = {0, 3}
  Requests <- Places
SYMMETRY PortSymmetry
INVARIANTS  GivenBack
PROPERTIES OneWriter
