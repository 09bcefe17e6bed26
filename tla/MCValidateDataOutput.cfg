CONSTANTS
  k1 = k1
  k2 = k2
  a = a
  b = b
  None = None
  Keyring = {k1}
  Sigs <- MCSigs
  Chunks <- MCChunks
  DetachedData <- MCDetachedData
  Detached = FALSE
  AllocCanFail = FALSE
  Now = 3
  MaxEvents = 4
  Apis = {"file", "mem"}
  Outputs = {"stdout", "path", "cat"}
  IOCanFail = FALSE
  Calls = {"rnp_verify_file", "rnp_verify_memory"}
  OutSizes = {1}
SPECIFICATION VerifySpec
INVARIANTS
  VerifiedOutputIsSigned
CHECK_DEADLOCK FALSE
