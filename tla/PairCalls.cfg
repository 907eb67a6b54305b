SPECIFICATION Spec
CHECK_DEADLOCK FALSE
CONSTANTS
  own = own
  other = other
  p1 = p1
  p2 = p2
  c1 = c1
  c2 = c2
  c3 = c3
  NULL = NULL
  Keys = {own, other}
  OwnKey = own
  Calls = {c1, c2, c3}
  Passphrases = {p1, p2, NULL}
  Given <- OthersEncoded
  OfSeeds = FALSE
  EncodeLocked = FALSE
INVARIANTS
  TypeOK
  Recoverable
  RightPassphraseOpens
  HalvesMatch
PROPERTY KeyKept
