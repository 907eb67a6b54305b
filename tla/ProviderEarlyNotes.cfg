SPECIFICATION ProviderSpec
CHECK_DEADLOCK FALSE
CONSTANTS
  u1 = u1
  u2 = u2
  NULL = NULL
  Sockets = {s1}
  NumEndpoints = 1
  Up = {0}
  Down = {}
  AutoConnect = TRUE
  AssertsEnabled = TRUE
  MaxConnects = 0
  MaxDisconnects = 0
  Subs = {u1}
  TypeOf <- OneSub
  AuthorTypes = {}
  UniqueIds = TRUE
  Refusable = {}
  MaxSends = 0
  MaxId = 1
  MaxNotes = 2
  MaxDrops = 0
PROPERTY NoneSkipped
