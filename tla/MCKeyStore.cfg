CONSTANTS
  P = P
  S1 = S1
  S2 = S2
  G = G
  GS = GS
  None = None
  Grips = {P, S1, S2}
  PrimaryOf <- MCPrimaryOf
  StoreOrder <- MCStoreOrder
  InitPub <- MCInitPub
  Files <- MCFiles
  SecretInFile = {}
  GenPrimary = G
  GenSubkey = GS
  Ops = {"import", "generate"}
  AllocCanFail = TRUE
SPECIFICATION FairSpec
INVARIANTS
  TypeOK
  GripsUnique
PROPERTIES
  KeyStoreImplementsAbstract
CHECK_DEADLOCK FALSE
