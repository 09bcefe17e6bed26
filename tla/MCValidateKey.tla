---------------------------- MODULE MCValidateKey ----------------------------
(* Model of pgp_validate_key_sigs over one primary key p1 with two          *)
(* subkeys, two user ids and one attribute; k2 is another key of the        *)
(* keyring and k3 a signer the keyring does not hold.                      *)
EXTENDS ValidateKey

CONSTANTS p1, k2, k3, s1, s2, u1, u2, a1

Sig(issuer, type, over) == [issuer |-> issuer, type |-> type, over |-> over]

MCSigs == {
  Sig(p1, "CERT_POSITIVE", CheckUseridcertPayload(p1, u1)),
  Sig(p1, "CERT_GENERIC", CheckUserattrcertPayload(p1, a1)),
  Sig(p1, "SUBKEY", CheckSubkeyPayload(p1, s1)),
  Sig(p1, "SUBKEY", CheckSubkeyPayload(p1, s2)),
  Sig(k2, "SUBKEY", CheckSubkeyPayload(p1, s2)),   \* binding made by another key
  Sig(p1, "DIRECT", CheckDirectPayload(p1)),
  Sig(p1, "REV_KEY", CheckDirectPayload(p1)),      \* key revocation
  Sig(k3, "CERT_POSITIVE", CheckUseridcertPayload(p1, u1))
}
=============================================================================
