SPECIFICATION Spec
INVARIANTS
  NapiPaired
  UpWorks
  
  NoLateWork
CHECK_DEADLOCK FALSE
