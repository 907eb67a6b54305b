SPECIFICATION ProviderSpec
CHECK_DEADLOCK FALSE
CONSTANTS
  u1 = u1
  u2 = u2
  NULL = NULL
  Sockets = {s1, s2}
  NumEndpoints = 1
  Up = {0}
  Down = {}
  AutoConnect = TRUE
  AssertsEnabled = TRUE
  MaxConnects = 0
  MaxDisconnects = 0
  Subs <- MCSubs
  TypeOf <- SameType
  AuthorTypes = {}
  UniqueIds = TRUE
  Refusable = {"call", "subscribe", "unsubscribe"}
  MaxSends = 0
  MaxId = 6
  MaxNotes = 2
  MaxDrops = 2
INVARIANTS
  ProviderTypeOK
  TablesAgree
  ActiveIsServed
PROPERTIES
  KeepsPromise
