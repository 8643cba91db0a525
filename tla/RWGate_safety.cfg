\* The gate's own bookkeeping and writer exclusion hold in every
\* interleaving of three request threads.  Threads that end up blocked for
\* good are a real outcome of this gate (see RWGate_liveness), so deadlock
\* is not checked here.
CONSTANTS
  t1 = t1
  t2 = t2
  t3 = t3
  NoThread = NoThread
  Threads <- MCThreads
  Mons <- MCMons
  MaxRequests = 2
SPECIFICATION Spec
SYMMETRY ThreadSymmetry
INVARIANT TypeOK
INVARIANT WritersExclusive
INVARIANT LockCoherent
CHECK_DEADLOCK FALSE
