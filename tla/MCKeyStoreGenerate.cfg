CONSTANTS
  P = P
  S1 = S1
  S2 = S2
  G = G
  GS = GS
  None = None
  Grips = {P, S1, S2}
  PrimaryOf <- MCPrimaryOf
  StoreOrder <- MCStoreOrder
  InitPub <- MCInitPub
  Files <- MCFiles
  SecretInFile = {}
  GenPrimary = G
  GenSubkey = GS
  Ops = {"generate"}
  AllocCanFail = FALSE
SPECIFICATION Spec
INVARIANTS
  SubkeyRefsInOwnStore
CHECK_DEADLOCK FALSE
