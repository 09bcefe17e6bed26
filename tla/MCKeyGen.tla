----------------------------- MODULE MCKeyGen ------------------------------
(* Bounds for KeyGen: every combination of unset and set fields a caller  *)
(* can pass for the algorithm, hash, curve, usage flags, user id and       *)
(* preferences, with values chosen so that each default, each curve        *)
(* adjustment and each validation failure happens.                         *)
EXTENDS KeyGen

(* The primary: an algorithm that cannot certify (ECDH), hashes below and  *)
(* above the P-256 and P-384 minimums, the three NIST curves, flags the    *)
(* algorithm may or may not have, with and without user id and prefs.     *)
MCPrimaryRequests ==
  [key_alg : {"NONE", "RSA", "ECDSA", "ECDH", "EDDSA"},
   hash_alg : {"NONE", "SHA1", "SHA384"},
   curve : {"NONE", "P256", "P384", "P521"},
   key_flags : {{}, {"SIGN", "CERTIFY"}, {"ENCRYPT"}},
   userid : {"", "given"},
   prefs : {[l \in {"symm", "hash", "compress"} |-> v] : v \in {"empty", "user"}}]

(* The subkey: an encryption-only and a signing-only algorithm beside RSA *)
(* and the default, and flags each of them may or may not have.           *)
MCSubkeyRequests ==
  [key_alg : {"NONE", "RSA", "ECDH", "ECDSA"},
   hash_alg : {"NONE", "SHA1"},
   curve : {"NONE", "P256"},
   key_flags : {{}, {"ENCRYPT"}, {"SIGN"}}]
=============================================================================
