CONSTANTS
  INFINITE_ATTEMPTS <- MCInfinite
  AttemptSettings <- MCAttemptSettings
  MaxPrompts = 4
  MaxPasswords = 2
  p1 = p1
  p2 = p2
  Paths <- MCPaths
  Existing <- MCExisting
  StreamCalls = {"rnp_encrypt_stream", "rnp_armor_stream", "rnp_process_stream"}
  MaxAsks = 1
SPECIFICATION SessionSpec
INVARIANTS
  TypeOK
  BadPasswordAfterAllAttempts
  PassInfoAddedWhole
  StreamsTypeOK
  StreamReturnsClean
  FilesChangedOnlyAsAgreed
PROPERTIES
  DecryptedKeyFreed
  Terminates
CHECK_DEADLOCK FALSE
