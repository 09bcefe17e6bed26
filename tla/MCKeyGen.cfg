CONSTANTS
  PrimaryRequests <- MCPrimaryRequests
  SubkeyRequests <- MCSubkeyRequests
  AllocCanFail = TRUE
  GenCanFail = TRUE
SPECIFICATION FairSpec
INVARIANTS
  TypeOK
  SelfCertHashMeetsCurve
PROPERTIES
  KeyGenImplementsAbstract
CHECK_DEADLOCK FALSE
