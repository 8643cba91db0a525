\* Expected violation: a request waits forever (lost wake-up).
CONSTANTS
  t1 = t1
  t2 = t2
  t3 = t3
  NoThread = NoThread
  Threads <- MCThreads
  Mons <- MCMons
  MaxRequests = 1
SPECIFICATION Spec
PROPERTY RequestsServed
CHECK_DEADLOCK FALSE
