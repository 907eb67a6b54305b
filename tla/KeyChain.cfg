SPECIFICATION Spec
CHECK_DEADLOCK FALSE
CONSTANTS
  Order = 251
  Points <- MCPoints
  Base <- MCBase
  Plus <- MCPlus
  Times <- MCTimes
  Bytes32 <- MCBytes
  ChainCodes <- MCChainCodes
  Messages <- MCMessages
  ExpandHash <- MCExpandHash
  HardHash <- MCHardHash
  SoftHash <- MCSoftHash
  EdHash <- MCEdHash
  EdHardHash <- MCEdHardHash
  MasterMac <- MCMasterMac
  ChildMac <- MCChildMac
  SignHash <- MCSignHash
  Seeds = {2}
  Schemes = {"sr25519", "ed25519", "bip32"}
  Junctions <- MCJunctions
  Nonces = {10, 20}
  Witnesses = {33}
  EdWitness <- MCEdWitness
  Texts <- MCTexts
  Asserts = FALSE
  MaxAccounts = 3
  MaxPath = 2
  MaxWatched = 3
  MaxSigs = 1
  MaxLoad = 7
INVARIANTS
  TypeOK
  HalvesMatch
  OneKeyPerPath
  WatchersAgree
  SignedVerifies
  NothingElseVerifies
