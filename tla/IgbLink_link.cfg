SPECIFICATION Spec
CONSTANTS
  PhyType = "igp_3"
  NvmPause <- TxPause
  Requests <- UserModes
  Partners <- Switches
INVARIANTS
  Exclusive
  Returned
  
  LinkLooked
