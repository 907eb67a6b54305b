SPECIFICATION FairProviderSpec
CHECK_DEADLOCK FALSE
CONSTANTS
  u1 = u1
  u2 = u2
  NULL = NULL
  Sockets = {s1, s2}
  NumEndpoints = 2
  Up = {1}
  Down = {0}
  AutoConnect = TRUE
  AssertsEnabled = TRUE
  MaxConnects = 0
  MaxDisconnects = 0
  Subs <- MCSubs
  TypeOf <- WithAuthor
  AuthorTypes = {"author_extrinsicUpdate"}
  UniqueIds = FALSE
  Refusable = {"call", "unsubscribe"}
  MaxSends = 1
  MaxId = 5
  MaxNotes = 0
  MaxDrops = 1
PROPERTIES
  Settles
  Restored
