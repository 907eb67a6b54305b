SPECIFICATION ProviderSpec
CHECK_DEADLOCK FALSE
CONSTANTS
  u1 = u1
  u2 = u2
  NULL = NULL
  Sockets = {s1, s2, s3}
  NumEndpoints = 1
  Up = {0}
  Down = {}
  AutoConnect = TRUE
  AssertsEnabled = FALSE
  MaxConnects = 1
  MaxDisconnects = 1
  Subs = {u1}
  TypeOf <- OneSub
  AuthorTypes = {}
  UniqueIds = TRUE
  Refusable = {}
  MaxSends = 1
  MaxId = 5
  MaxNotes = 1
  MaxDrops = 1
INVARIANTS
  TablesAgree
PROPERTIES
  KeepsPromise
