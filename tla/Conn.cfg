SPECIFICATION FairSpec
CONSTANTS
  Sockets = {s1, s2, s3, s4}
  NULL = NULL
  NumEndpoints = 3
  Up = {2}
  Down = {0}
  AutoConnect = TRUE
  AssertsEnabled = TRUE
  MaxConnects = 2
  MaxDisconnects = 2
CHECK_DEADLOCK FALSE
INVARIANTS
  TypeOK
  RetryPending
  CloseHandlerSafe
  OneChainPerCall
  FlagWhileAlone
PROPERTY Reconnects
