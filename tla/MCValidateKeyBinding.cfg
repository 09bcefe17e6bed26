CONSTANTS
  p1 = p1
  k2 = k2
  k3 = k3
  s1 = s1
  s2 = s2
  u1 = u1
  u2 = u2
  a1 = a1
  None = None
  Keyring = {p1, k2}
  PrimaryKeys = {p1}
  Subkeys = {s1, s2}
  UserIds = {u1, u2}
  UserAttrs = {a1}
  Sigs <- MCSigs
  AllocCanFail = FALSE
  MaxPackets = 3
SPECIFICATION Spec
INVARIANTS
  SubkeyBindingByPrimaryOnly
CHECK_DEADLOCK FALSE
