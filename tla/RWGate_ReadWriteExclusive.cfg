\* Expected violation: see PROJECT.json findings.
CONSTANTS
  t1 = t1
  t2 = t2
  t3 = t3
  NoThread = NoThread
  Threads <- MCThreads
  Mons <- MCMons
  MaxRequests = 2
SPECIFICATION Spec
SYMMETRY ThreadSymmetry
INVARIANT ReadWriteExclusive
CHECK_DEADLOCK FALSE
