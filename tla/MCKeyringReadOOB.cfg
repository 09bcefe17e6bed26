CONSTANTS
  k1 = k1
  t1 = t1
  c1 = c1
  f1 = f1
  tr1 = tr1
  None = None
  KeyTags <- MCKeyTags
  Times <- MCTimes
  KeyIds <- MCKeyIds
  FlagVals <- MCFlagVals
  TrustVals <- MCTrustVals
  RevCodes <- MCRevCodes
  MaxPackets = 4
  MaxSubpackets = 2
SPECIFICATION Spec
INVARIANTS
  NoKeyAccessBeforeFirstKey
CHECK_DEADLOCK FALSE
