----------------------------- MODULE ValidateKey -----------------------------
(***************************************************************************)
(* Validation of the signatures of one key (src/src/librepgp/validate.c):  *)
(* pgp_validate_key_sigs replays the key's raw packets through the parser  *)
(* with pgp_validate_key_cb as callback. The callback remembers the        *)
(* primary public key, the last subkey, the last user id and user          *)
(* attribute and which of the two came last (last_seen); each signature is *)
(* looked up by issuer key id and verified, by its type, over the payload  *)
(* built from those: user id or attribute certification, subkey binding,  *)
(* direct-key signature; other types are not verified. The signature then *)
(* goes to the valid, invalid or unknown list, and the key is valid when   *)
(* there is at least one valid and no invalid or unknown signature.        *)
(*                                                                         *)
(* Key material, user ids and attributes are model values; a signature     *)
(* records the payload its signer hashed ("over") and the payload checks   *)
(* (pgp_check_*_sig, declared in signature.h) succeed when it is the       *)
(* payload they build.                                                     *)
(***************************************************************************)
EXTENDS Integers, Sequences, SequencesExt

CONSTANTS
  Keyring,       \* key ids for which the keyring holds a key
  PrimaryKeys,   \* primary key packets the stream may carry (key ids)
  Subkeys,       \* subkey packets
  UserIds,       \* user id packets
  UserAttrs,     \* non-empty user attribute packets
  Sigs,          \* signature packets: [issuer, type, over]
  AllocCanFail,  \* TRUE: add_sig_to_list may fail
  MaxPackets,    \* packets replayed
  None           \* model value: nothing seen yet

CertTypes == {"CERT_GENERIC", "CERT_PERSONA", "CERT_CASUAL", "CERT_POSITIVE",
              "REV_CERT"}
NotDoneTypes == {"STANDALONE", "PRIMARY", "REV_KEY", "REV_SUBKEY", "TIMESTAMP",
                 "3RD_PARTY"}

VARIABLES
  pubkey,     \* key->pubkey
  subkey,     \* key->subkey
  userid,     \* key->userid
  userattr,   \* key->userattr
  last_seen,  \* key->last_seen: "ID", "ATTRIBUTE" or None
  result,     \* valid / invalid / unknown lists of the pgp_validation_t
  errors,     \* error codes pushed with PGP_ERROR_1
  status,     \* "parsing", "finished" (PGP_FINISHED returned), "done"
  ret,        \* the return value of pgp_validate_key_sigs
  stream,     \* history: the packets replayed so far
  checks      \* history: each verified signature, the payload it was checked
              \* over and its position in the stream

vars == <<pubkey, subkey, userid, userattr, last_seen, result, errors, status,
          ret, stream, checks>>

Init ==
  /\ pubkey = None
  /\ subkey = None
  /\ userid = None
  /\ userattr = None
  /\ last_seen = None
  /\ result = [valid |-> <<>>, invalid |-> <<>>, unknown |-> <<>>]
  /\ errors = {}
  /\ status = "parsing"
  /\ ret = FALSE
  /\ stream = <<>>
  /\ checks = <<>>

(* The parser hands the next replayed packet p to the callback.            *)
Replay(p) ==
  /\ status = "parsing"
  /\ Len(stream) < MaxPackets
  /\ stream' = Append(stream, p)

(* PGP_PTAG_CT_PUBLIC_KEY: a second primary key finishes the parse.        *)
PublicKey(k) ==
  /\ Replay([tag |-> "PUBLIC_KEY", val |-> k])
  /\ IF pubkey # None
       THEN status' = "finished" /\ UNCHANGED pubkey
       ELSE pubkey' = k /\ UNCHANGED status
  /\ UNCHANGED <<subkey, userid, userattr, last_seen, result, errors, ret, checks>>

(* PGP_PTAG_CT_PUBLIC_SUBKEY: the previous subkey is replaced.             *)
PublicSubkey(k) ==
  /\ Replay([tag |-> "PUBLIC_SUBKEY", val |-> k])
  /\ subkey' = k
  /\ UNCHANGED <<pubkey, userid, userattr, last_seen, result, errors, status,
                 ret, checks>>

(* PGP_PTAG_CT_SECRET_KEY: the public part becomes the primary, unchecked. *)
SecretKey(k) ==
  /\ Replay([tag |-> "SECRET_KEY", val |-> k])
  /\ pubkey' = k
  /\ UNCHANGED <<subkey, userid, userattr, last_seen, result, errors, status,
                 ret, checks>>

(* Mutant: last_seen not updated on a user id.                             *)
UserIdKeepLastSeen(u) ==
  /\ Replay([tag |-> "USER_ID", val |-> u])
  /\ userid' = u
  /\ UNCHANGED <<pubkey, subkey, userattr, last_seen, result, errors, status, ret, checks>>

(* PGP_PTAG_CT_USER_ID                                                     *)
UserId(u) ==
  /\ Replay([tag |-> "USER_ID", val |-> u])
  /\ userid' = u
  /\ last_seen' = "ID"
  /\ UNCHANGED <<pubkey, subkey, userattr, result, errors, status, ret, checks>>

(* Mutant: the zero-length test dropped.                                   *)
UserAttrNoLengthCheck(a) ==
  /\ Replay([tag |-> "USER_ATTR", val |-> a])
  /\ userattr' = a
  /\ last_seen' = "ATTRIBUTE"
  /\ UNCHANGED <<pubkey, subkey, userid, result, errors, status, ret, checks>>

(* PGP_PTAG_CT_USER_ATTR: an empty attribute finishes the parse.           *)
UserAttr(a) ==
  /\ Replay([tag |-> "USER_ATTR", val |-> a])
  /\ \/ /\ a = "EMPTY"
        /\ status' = "finished"
        /\ UNCHANGED <<userattr, last_seen>>
     \/ /\ a # "EMPTY"
        /\ userattr' = a
        /\ last_seen' = "ATTRIBUTE"
        /\ UNCHANGED status
  /\ UNCHANGED <<pubkey, subkey, userid, result, errors, ret, checks>>

(* The payload each check function hashes (spec 4.3): user id and          *)
(* attribute certifications cover the primary key and the identity,       *)
(* a subkey binding the primary key and the subkey, a direct-key           *)
(* signature the primary key alone.                                        *)
CheckUseridcertPayload(pk, uid) == <<"uid", pk, uid>>
CheckUserattrcertPayload(pk, attr) == <<"attr", pk, attr>>
CheckSubkeyPayload(pk, sk) == <<"sub", pk, sk>>
CheckDirectPayload(pk) == <<"key", pk>>

(* The payload pgp_validate_key_cb verifies a signature of type t over, or *)
(* None for the types it does not verify.                                  *)
CbPayload(t) ==
  CASE t \in CertTypes /\ last_seen = "ID" -> CheckUseridcertPayload(pubkey, userid)
    [] t \in CertTypes -> CheckUserattrcertPayload(pubkey, userattr)
    [] t = "SUBKEY" -> CheckSubkeyPayload(pubkey, subkey)
    [] t = "DIRECT" -> CheckDirectPayload(pubkey)
    [] OTHER -> None

(* add_sig_to_list: appended, or left as it was on an allocation failure.  *)
AddSigToList(list, s) ==
  IF AllocCanFail THEN {list, Append(list, s)} ELSE {Append(list, s)}

(* PGP_PTAG_CT_SIGNATURE / PGP_PTAG_CT_SIGNATURE_FOOTER. An unknown signer *)
(* goes to the unknown list (a failure to add it finishes the parse); a    *)
(* known one is verified by type and goes to the valid or invalid list    *)
(* (a failure to add it is only an error).                                 *)
Signature(s) ==
  /\ Replay([tag |-> "SIGNATURE", val |-> s])
  /\ IF s.issuer \notin Keyring
       THEN /\ \E l \in AddSigToList(result.unknown, s) :
                 /\ result' = [result EXCEPT !.unknown = l]
                 /\ status' = IF l = result.unknown THEN "finished" ELSE status
            /\ UNCHANGED <<errors, checks>>
       ELSE LET payload == CbPayload(s.type)
                valid == payload # None /\ s.over = payload
                list == IF valid THEN "valid" ELSE "invalid"
            IN /\ \E l \in AddSigToList(result[list], s) :
                    /\ result' = [result EXCEPT ![list] = l]
                    /\ errors' = errors
                         \cup (IF payload = None THEN {"UNIMPLEMENTED"} ELSE {})
                         \cup (IF valid THEN {} ELSE {"V_BAD_SIGNATURE"})
                         \cup (IF l = result[list] THEN {"UNIMPLEMENTED"} ELSE {})
               /\ checks' = IF payload = None THEN checks
                            ELSE Append(checks, [sig |-> s, payload |-> payload,
                                                 pos |-> Len(stream) + 1])
               /\ UNCHANGED status
  /\ UNCHANGED <<pubkey, subkey, userid, userattr, last_seen, ret>>

(* PGP_GET_PASSWORD: the answer of the caller's password callback, which  *)
(* may finish the parse; without a callback nothing happens.                *)
GetPassword ==
  /\ Replay([tag |-> "GET_PASSWORD", val |-> None])
  /\ status' \in {"parsing", "finished"}
  /\ UNCHANGED <<pubkey, subkey, userid, userattr, last_seen, result, errors,
                 ret, checks>>

(* Any tag the callback does not expect finishes the parse.                *)
UnexpectedPacket ==
  /\ Replay([tag |-> "OTHER", val |-> None])
  /\ status' = "finished"
  /\ UNCHANGED <<pubkey, subkey, userid, userattr, last_seen, result, errors,
                 ret, checks>>

(* The replay ends; pgp_validate_key_sigs returns its verdict.             *)
Finish ==
  /\ status \in {"parsing", "finished"}
  /\ status' = "done"
  /\ ret' = (result.invalid = <<>> /\ result.unknown = <<>> /\ result.valid # <<>>)
  /\ UNCHANGED <<pubkey, subkey, userid, userattr, last_seen, result, errors,
                 stream, checks>>

Next ==
  \/ \E k \in PrimaryKeys : PublicKey(k) \/ SecretKey(k)
  \/ \E k \in Subkeys : PublicSubkey(k)
  \/ \E u \in UserIds : UserId(u)
  \/ \E a \in UserAttrs \cup {"EMPTY"} : UserAttr(a)
  \/ \E s \in Sigs : Signature(s)
  \/ GetPassword
  \/ UnexpectedPacket
  \/ Finish

Spec == Init /\ [][Next]_vars

-----------------------------------------------------------------------------
(* Every variable has its type.                                            *)
TypeOK ==
  /\ pubkey \in PrimaryKeys \cup {None}
  /\ subkey \in Subkeys \cup {None}
  /\ userid \in UserIds \cup {None}
  /\ userattr \in UserAttrs \cup {None}
  /\ last_seen \in {"ID", "ATTRIBUTE", None}
  /\ \A l \in {"valid", "invalid", "unknown"} : result[l] \in Seq(Sigs)
  /\ status \in {"parsing", "finished", "done"}
  /\ ret \in BOOLEAN

(* Reference: the value of the last packet of the given tags in a replayed *)
(* prefix, or None.                                                        *)
LastOf(prefix, tags) ==
  LET i == SelectLastInSeq(prefix, LAMBDA p : p.tag \in tags)
  IN IF i = 0 THEN None ELSE prefix[i].val

(* Reference (spec 4.3): the payload a signature of type t binds, read     *)
(* directly off the key's packets that precede it: the primary key, the   *)
(* nearest subkey, the nearest user id or attribute.                       *)
StreamPayload(prefix, t) ==
  LET pk == LastOf(prefix, {"PUBLIC_KEY", "SECRET_KEY"})
      i == SelectLastInSeq(prefix, LAMBDA p : p.tag \in {"USER_ID", "USER_ATTR"})
  IN CASE t \in CertTypes /\ i > 0 /\ prefix[i].tag = "USER_ID" ->
            CheckUseridcertPayload(pk, prefix[i].val)
       [] t \in CertTypes -> CheckUserattrcertPayload(pk, LastOf(prefix, {"USER_ATTR"}))
       [] t = "SUBKEY" -> CheckSubkeyPayload(pk, LastOf(prefix, {"PUBLIC_SUBKEY"}))
       [] t \in {"DIRECT", "REV_KEY"} -> CheckDirectPayload(pk)
       [] t = "REV_SUBKEY" -> CheckSubkeyPayload(pk, LastOf(prefix, {"PUBLIC_SUBKEY"}))
       [] OTHER -> None

(* Every signature the callback verifies is verified over the payload its  *)
(* type binds, built from the packets that precede it in the key: the      *)
(* callback's remembered subkey, identity and last_seen are never stale.   *)
CheckedOverPrecedingPackets ==
  \A i \in 1..Len(checks) :
    checks[i].payload =
      StreamPayload(SubSeq(stream, 1, checks[i].pos - 1), checks[i].sig.type)

(* Spec 4.3: a subkey binding is verified against the primary key. A       *)
(* binding counted valid must have been made by the primary key itself;   *)
(* the callback verifies it with whatever key its issuer id names (the     *)
(* "XXX: we should also check that the signer is the key we are            *)
(* validating" comment in pgp_validate_key_cb).                            *)
SubkeyBindingByPrimaryOnly ==
  \A i \in 1..Len(result.valid) :
    result.valid[i].type = "SUBKEY" => result.valid[i].issuer = pubkey

(* Spec 4.3: revocations are validated like the other signature types: a  *)
(* genuine signature by a known key over the payload its type binds is    *)
(* never counted invalid.                                                  *)
GenuineSignatureNeverInvalid ==
  \A i \in 1..Len(stream) :
    LET p == stream[i] IN
      (/\ p.tag = "SIGNATURE"
       /\ p.val.issuer \in Keyring
       /\ p.val.over = StreamPayload(SubSeq(stream, 1, i - 1), p.val.type)
       /\ p.val.over # None)
        => ~\E j \in 1..Len(result.invalid) : result.invalid[j] = p.val
=============================================================================
