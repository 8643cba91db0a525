\* The ring's FIFO bookkeeping in every interleaving of the producer and
\* three consumers.
CONSTANTS
  p = p
  c1 = c1
  c2 = c2
  c3 = c3
  NoThread = NoThread
  NoReq = NoReq
  Producer = p
  Consumers <- MCConsumers
  Threads <- MCThreads
  Mons <- MCMons
  RING_SIZE = 3
  MaxDatagrams = 7
  Empty = {2}
SPECIFICATION Spec
INVARIANT TypeOK
INVARIANT RingFIFO
