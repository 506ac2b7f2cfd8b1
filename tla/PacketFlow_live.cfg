SPECIFICATION FairSpec
CONSTANTS
  a = a  b = b
  a1 = a1  b1 = b1
  Procs = {a, b}
  Packets = {a1, b1}
  Owner <- TwoOwner
  RxSize = 2
  TxSize = 3
  QueueSize = 2
INVARIANTS Conservation OwnBuffersOnly QueuedStates
PROPERTIES DispatchedArrives ReclaimedIsFreed TransmittedIsReclaimed
