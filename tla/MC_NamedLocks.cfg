CONSTANTS
  r1 = r1
  r2 = r2
  r3 = r3
  la = la
  lb = lb
  Requests <- MC_Requests
  Locks <- MC_Locks
  Needs <- MC_Needs
SPECIFICATION Spec
INVARIANT LockOwnership
PROPERTY EveryRequestCompletes
PROPERTY ImplementsLockSet
