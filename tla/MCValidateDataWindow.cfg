CONSTANTS
  k1 = k1
  k2 = k2
  a = a
  b = b
  None = None
  Keyring = {k1}
  Sigs <- MCSigs
  Chunks <- MCChunks
  DetachedData <- MCDetachedData
  Detached = TRUE
  AllocCanFail = FALSE
  Now = 3
  MaxEvents = 4
  Apis = {"file"}
  Outputs = {"none"}
  IOCanFail = FALSE
  Calls = {"rnp_verify_file"}
  OutSizes = {0}
SPECIFICATION VerifySpec
INVARIANTS
  SuccessMeansEverySignatureInWindow
CHECK_DEADLOCK FALSE
