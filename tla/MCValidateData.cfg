CONSTANTS
  k1 = k1
  k2 = k2
  a = a
  b = b
  None = None
  Keyring = {k1}
  Sigs <- MCSigs
  Chunks <- MCChunks
  DetachedData <- MCDetachedData
  Detached = TRUE
  AllocCanFail = TRUE
  Now = 3
  MaxEvents = 4
  Apis = {"file", "mem"}
  Outputs = {"none", "stdout", "path", "cat"}
  IOCanFail = TRUE
  Calls = {"rnp_verify_file", "rnp_verify_memory"}
  OutSizes = {0, 1}
SPECIFICATION VerifySpec
INVARIANTS
  TypeOK
  SuccessNeedsVerifiedSignature
  OutputFollowsVerdict
CHECK_DEADLOCK FALSE
