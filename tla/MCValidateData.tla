-------------------------- MODULE MCValidateData ---------------------------
(* Bounds for ValidateData under its callers (Verify): a keyring holding   *)
(* k1 but not k2, two chunk values, the clock at 3, four packets, one      *)
(* signature of each kind the callback and validate_result_status tell     *)
(* apart, and out buffers of 0 and 1 chunks.                               *)
EXTENDS Verify

CONSTANTS k1, k2, a, b

MCChunks == {a, b}
MCDetachedData == <<a>>

Sig(issuer, type, version, over, birthtime, duration) ==
  [issuer |-> issuer, type |-> type, version |-> version, over |-> over,
   birthtime |-> birthtime, duration |-> duration]

(* good: over <<a>>, made at 1, no expiration; expired: made at 1, valid   *)
(* for 1; future: made at 4; other: over <<b>> (bad for any other data);  *)
(* unknown: issuer not in the keyring; v5: a version check_binary_sig      *)
(* rejects; cert: a type validate_data_cb does not verify.                 *)
MCSigs ==
  { Sig(k1, "BINARY", "V4", <<a>>, 1, None),
    Sig(k1, "BINARY", "V3", <<a>>, 1, 1),
    Sig(k1, "TEXT", "V4", <<a>>, 4, None),
    Sig(k1, "BINARY", "V4", <<b>>, 1, None),
    Sig(k2, "BINARY", "V4", <<a>>, 1, None),
    Sig(k1, "BINARY", "V5", <<a>>, 1, None),
    Sig(k1, "OTHER", "V4", <<a>>, 1, None) }
=============================================================================
