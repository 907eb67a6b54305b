SPECIFICATION Spec
CONSTANTS
  Heights <- MCHeights
  Periods <- MCPeriods
  Others <- MCOthers
  Asserts = TRUE
CHECK_DEADLOCK FALSE
INVARIANTS
  TypeOK
  MortalStaysMortal
  SameStart
  LivesAsAsked
  NextEra
  Canonical
