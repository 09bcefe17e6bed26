--------------------------- MODULE MCKeyringRead ---------------------------
(* Bounds for KeyringRead: four packets (enough for key, user id and two   *)
(* signatures, or two keys and a signature), two subpackets per signature, *)
(* one value per subpacket kind (a wrong target still shows as None).      *)
EXTENDS KeyringRead

CONSTANTS k1, t1, c1, f1, tr1

MCKeyTags == {"PUBLIC_KEY", "SECRET_SUBKEY"}
MCTimes == {1}
MCKeyIds == {k1}
MCFlagVals == {f1}
MCTrustVals == {tr1}
MCRevCodes == {c1}
=============================================================================
