SPECIFICATION Spec
CONSTANTS
  Sockets = {s1, s2}
  NULL = NULL
  NumEndpoints = 2
  Up = {0}
  Down = {1}
  AutoConnect = TRUE
  AssertsEnabled = TRUE
  MaxConnects = 0
  MaxDisconnects = 1
CHECK_DEADLOCK FALSE
PROPERTY ManualMode
