SPECIFICATION FairSpec
CHECK_DEADLOCK FALSE
CONSTANTS
  w1 = w1
  w2 = w2
  a1 = a1
  a2 = a2
  a3 = a3
  NULL = NULL
  Main = main
  Workers <- MCWorkers
  Addrs = {a1, a2, a3}
  Upper = {0, 256}
  MaxCalls = 2
  Requests <- MCRequests
  WorkerRequests <- MCWorkerRequests
INVARIANTS
  TypeOK
  BlocksKept
  TryingIsSafe
PROPERTIES
  KeepsPromise
  EveryCallEnds
