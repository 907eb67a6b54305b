SPECIFICATION Spec
CHECK_DEADLOCK FALSE
CONSTANTS
  w1 = w1
  w2 = w2
  a1 = a1
  a2 = a2
  a3 = a3
  NULL = NULL
  Main = main
  Workers = {w1}
  Addrs = {a1}
  Upper = {0, 256}
  MaxCalls = 1
  Requests <- DocumentedCalls
  WorkerRequests <- NoWorkerRequests
INVARIANT LengthsSuffice
