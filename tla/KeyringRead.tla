---------------------------- MODULE KeyringRead ----------------------------
(***************************************************************************)
(* The key store reader of src/src/librekey/key_store_pgp.c: the packet   *)
(* parser emits one event per packet (key, user id, signature, other), one *)
(* event per signature subpacket and a PACKET_END event carrying the raw   *)
(* bytes of the packet just read; cb_keyring_read folds these events into  *)
(* the keyring's array of keys, always working on the last key            *)
(* (keys[keyc - 1]) and, for subpackets, on that key's last signature     *)
(* (subsigs[subsigc - 1]).                                                 *)
(*                                                                         *)
(* The parser itself is not part of the repository's sources: the model   *)
(* lets it emit any sequence of packets, with subpacket events only inside *)
(* a signature packet and a PACKET_END after each packet, which is the     *)
(* framing the callback relies on.                                         *)
(***************************************************************************)
EXTENDS Integers, Sequences, FiniteSets

CONSTANTS
  KeyTags,        \* tags of key packets (public/secret, primary/subkey)
  Times,          \* values carried by time subpackets
  KeyIds,         \* values carried by issuer-key-id subpackets
  FlagVals,       \* values of the first octet of a key-flags subpacket
  TrustVals,      \* (level, amount) values of a trust subpacket
  RevCodes,       \* revocation codes of a revocation-reason subpacket
  MaxPackets,     \* packets in the stream
  MaxSubpackets,  \* subpackets per signature packet
  None            \* model value: a field no subpacket has set

ASSUME MaxPackets \in Nat /\ MaxSubpackets \in Nat

VARIABLES
  keys,    \* keyring->keys[0 .. keyc-1]
  errors,  \* error codes pushed with PGP_ERROR_1
  status,  \* "parsing", "finished" (callback returned PGP_FINISHED),
           \* "crashed" (undefined behaviour took the process down), "ended"
  open,    \* kind of the packet the parser is inside, or "none"
  nsub,    \* subpackets emitted so far in the open signature packet
  npkt,    \* packets begun so far: the index of the open packet
  said,    \* history: what the subpackets of signature packet i said
  oob      \* history: keys[keyc - 1] was dereferenced with keyc = 0

vars == <<keys, errors, status, open, nsub, npkt, said, oob>>

NoSaid == [signer_id |-> None, birthtime |-> None, duration |-> None,
           trust |-> None]

(* A key record as rnp_key_store_add_keydata leaves it: zeroed fields, the *)
(* packet tag; "at" is a history field, the index of its key packet.       *)
NewKey(tag, at) ==
  [tag |-> tag, at |-> at, uidc |-> 0, subsigs |-> <<>>, uid0 |-> 0,
   revoked |-> FALSE, revocation |-> None, revokes |-> <<>>,
   flags |-> None, duration |-> None, packets |-> <<>>]

(* keyring->keys[keyring->keyc - 1] *)
Last == Len(keys)

Init ==
  /\ keys = <<>>
  /\ errors = {}
  /\ status = "parsing"
  /\ open = "none"
  /\ nsub = 0
  /\ npkt = 0
  /\ said = [i \in 1..MaxPackets |-> NoSaid]
  /\ oob = FALSE

(* The parser starts the next packet of the stream. *)
BeginPacket(kind) ==
  /\ status = "parsing"
  /\ open = "none"
  /\ npkt < MaxPackets
  /\ open' = kind
  /\ npkt' = npkt + 1

(* PGP_PTAG_CT_{PUBLIC,SECRET,ENCRYPTED_SECRET}_{KEY,SUBKEY}: the key is   *)
(* appended by rnp_key_store_add_keydata; its failure finishes the parse.  *)
KeyPacket(tag) ==
  /\ BeginPacket("key")
  /\ \/ /\ keys' = Append(keys, NewKey(tag, npkt + 1))
        /\ UNCHANGED status
     \/ /\ status' = "finished"
        /\ UNCHANGED keys
  /\ UNCHANGED <<errors, nsub, said, oob>>

(* PGP_PTAG_CT_USER_ID: pgp_add_userid on the last key, or an error.       *)
UserIdPacket ==
  /\ BeginPacket("uid")
  /\ IF Last = 0
       THEN /\ errors' = errors \cup {"P_NO_USERID"}
            /\ UNCHANGED keys
       ELSE /\ keys' = [keys EXCEPT ![Last].uidc = @ + 1]
            /\ UNCHANGED errors
  /\ UNCHANGED <<status, nsub, said, oob>>

(* PGP_PTAG_CT_SIGNATURE_HEADER (v4) / PGP_PTAG_CT_SIGNATURE (v3): a new   *)
(* subsig on the last key, bound to its last user id (uidc - 1, which is   *)
(* UINT_MAX as an unsigned when there is none; -1 here, equally outside   *)
(* every index range). "sid" is a history field: the signature packet.     *)
SignaturePacket ==
  /\ BeginPacket("sig")
  /\ nsub' = 0
  /\ IF Last = 0
       THEN UNCHANGED keys
       ELSE keys' = [keys EXCEPT ![Last].subsigs =
                       Append(@, [uid |-> keys[Last].uidc - 1, sid |-> npkt + 1,
                                  trust |-> None, signer_id |-> None,
                                  birthtime |-> None, duration |-> None])]
  /\ UNCHANGED <<errors, status, said, oob>>

(* Any other packet (trust, literal data, ...): the default case.          *)
OtherPacket ==
  /\ BeginPacket("other")
  /\ UNCHANGED <<keys, errors, status, nsub, said, oob>>

(* The parser emits one more subpacket of the open signature; "field" and  *)
(* "val" record it in the history.                                         *)
Subpacket(field, val) ==
  /\ status = "parsing"
  /\ open = "sig"
  /\ nsub < MaxSubpackets
  /\ nsub' = nsub + 1
  /\ said' = IF field = "none" THEN said
             ELSE [said EXCEPT ![npkt][field] = val]

(* Mutant: subpacket data stored into the first signature of the key      *)
(* (subsigs[0]) instead of the last one.                                   *)
SetFirstSubsig(field, val) ==
  IF Last = 0 \/ keys[Last].subsigs = <<>>
    THEN keys
    ELSE [keys EXCEPT ![Last].subsigs[1][field] = val]

(* The guarded update of keys[keyc - 1].subsigs[subsigc - 1]: dropped when *)
(* there is no key or the key has no signature yet.                        *)
SetLastSubsig(field, val) ==
  IF Last = 0 \/ keys[Last].subsigs = <<>>
    THEN keys
    ELSE [keys EXCEPT ![Last].subsigs[Len(keys[Last].subsigs)][field] = val]

(* PGP_PTAG_SS_TRUST, PGP_PTAG_SS_ISSUER_KEY_ID, PGP_PTAG_SS_CREATION_TIME *)
(* and PGP_PTAG_SS_EXPIRATION_TIME: the same guarded store into the last   *)
(* signature of the last key.                                              *)
SubsigSubpacket(field, val) ==
  /\ Subpacket(field, val)
  /\ keys' = SetLastSubsig(field, val)
  /\ UNCHANGED <<errors, status, open, npkt, oob>>

(* PGP_PTAG_SS_KEY_EXPIRY: guarded by keyc > 0, stored on the last key.    *)
KeyExpiry(t) ==
  /\ Subpacket("none", t)
  /\ keys' = IF Last = 0 THEN keys ELSE [keys EXCEPT ![Last].duration = t]
  /\ UNCHANGED <<errors, status, open, npkt, oob>>

(* keys[keyc - 1] with keyc = 0 is keys[-1]: a NULL-based pointer when no  *)
(* array was ever allocated (the process crashes), or the heap word before *)
(* the array (it is overwritten and parsing goes on).                      *)
OutOfBoundsKey ==
  /\ Last = 0
  /\ oob' = TRUE
  /\ status' \in {"crashed", "parsing"}
  /\ UNCHANGED keys

(* PGP_PTAG_SS_PRIMARY_USER_ID: uid0 = uidc - 1 on the last key, unguarded.*)
PrimaryUserId ==
  /\ Subpacket("none", None)
  /\ \/ OutOfBoundsKey
     \/ /\ Last > 0
        /\ keys' = [keys EXCEPT ![Last].uid0 = keys[Last].uidc - 1]
        /\ UNCHANGED <<status, oob>>
  /\ UNCHANGED <<errors, open, npkt>>

(* PGP_PTAG_SS_REVOCATION_REASON, unguarded: with no user id yet the whole *)
(* key is revoked, otherwise its last user id is.                          *)
RevocationReason(code) ==
  /\ Subpacket("none", code)
  /\ \/ OutOfBoundsKey
     \/ /\ Last > 0
        /\ keys' = IF keys[Last].uidc = 0
                     THEN [keys EXCEPT ![Last].revoked = TRUE,
                                       ![Last].revocation = code]
                     ELSE [keys EXCEPT ![Last].revokes =
                             Append(@, [uid |-> keys[Last].uidc - 1,
                                        code |-> code])]
        /\ UNCHANGED <<status, oob>>
  /\ UNCHANGED <<errors, open, npkt>>

(* PGP_PTAG_SS_KEY_FLAGS, unguarded: flags of the last key.                *)
KeyFlags(f) ==
  /\ Subpacket("none", f)
  /\ \/ OutOfBoundsKey
     \/ /\ Last > 0
        /\ keys' = [keys EXCEPT ![Last].flags = f]
        /\ UNCHANGED <<status, oob>>
  /\ UNCHANGED <<errors, open, npkt>>

(* Mutant: the raw packet recorded is the next one (off by one).           *)
PacketEndOffByOne ==
  /\ status = "parsing"
  /\ open # "none"
  /\ open' = "none"
  /\ keys' = IF Last = 0 THEN keys
             ELSE [keys EXCEPT ![Last].packets = Append(@, npkt + 1)]
  /\ UNCHANGED <<errors, status, nsub, npkt, said, oob>>

(* Mutant: the raw packet is added to the first key instead of the last.  *)
PacketEndToFirstKey ==
  /\ status = "parsing"
  /\ open # "none"
  /\ open' = "none"
  /\ keys' = IF Last = 0 THEN keys
             ELSE [keys EXCEPT ![1].packets = Append(@, npkt)]
  /\ UNCHANGED <<errors, status, nsub, npkt, said, oob>>

(* PGP_PARSER_PACKET_END: the raw packet is added to the last key.         *)
PacketEnd ==
  /\ status = "parsing"
  /\ open # "none"
  /\ open' = "none"
  /\ keys' = IF Last = 0 THEN keys
             ELSE [keys EXCEPT ![Last].packets = Append(@, npkt)]
  /\ UNCHANGED <<errors, status, nsub, npkt, said, oob>>

(* PGP_PARSER_ERROR (a structural error anywhere in the stream): the       *)
(* callback returns PGP_FINISHED.                                          *)
ParserError ==
  /\ status = "parsing"
  /\ status' = "finished"
  /\ UNCHANGED <<keys, errors, open, nsub, npkt, said, oob>>

(* The stream is exhausted between two packets; pgp_parse returns.         *)
EndOfStream ==
  /\ status = "parsing"
  /\ open = "none"
  /\ status' = "ended"
  /\ UNCHANGED <<keys, errors, open, nsub, npkt, said, oob>>

Next ==
  \/ \E tag \in KeyTags : KeyPacket(tag)
  \/ UserIdPacket
  \/ SignaturePacket
  \/ OtherPacket
  \/ \E t \in TrustVals : SubsigSubpacket("trust", t)
  \/ \E i \in KeyIds : SubsigSubpacket("signer_id", i)
  \/ \E t \in Times : SubsigSubpacket("birthtime", t)
  \/ \E t \in Times : SubsigSubpacket("duration", t)
  \/ \E t \in Times : KeyExpiry(t)
  \/ PrimaryUserId
  \/ \E c \in RevCodes : RevocationReason(c)
  \/ \E f \in FlagVals : KeyFlags(f)
  \/ PacketEnd
  \/ ParserError
  \/ EndOfStream

Spec == Init /\ [][Next]_vars

-----------------------------------------------------------------------------
(* Every variable has its type.                                            *)
TypeOK ==
  /\ \A k \in 1..Len(keys) :
       /\ keys[k].tag \in KeyTags
       /\ keys[k].uidc \in Nat
       /\ keys[k].uid0 \in -1..keys[k].uidc
       /\ keys[k].packets \in Seq(1..MaxPackets)
  /\ errors \subseteq {"P_NO_USERID"}
  /\ status \in {"parsing", "finished", "crashed", "ended"}
  /\ open \in {"none", "key", "uid", "sig", "other"}
  /\ nsub \in 0..MaxSubpackets
  /\ npkt \in 0..MaxPackets
  /\ oob \in BOOLEAN

(* Every signature recorded on a key carries exactly the issuer, creation  *)
(* time, expiration and trust that the subpackets of its own signature     *)
(* packet gave: cb_keyring_read writes subpacket data into                 *)
(* subsigs[subsigc - 1] of the last key, and nothing may land on an        *)
(* earlier signature, a signature of another key, or be lost.              *)
SubsigRecordsOwnSignature ==
  \A k \in 1..Len(keys) : \A i \in 1..Len(keys[k].subsigs) :
    LET s == keys[k].subsigs[i] IN
      /\ s.signer_id = said[s.sid].signer_id
      /\ s.birthtime = said[s.sid].birthtime
      /\ s.duration = said[s.sid].duration
      /\ s.trust = said[s.sid].trust

(* The raw packets kept by each key (what rnp_key_store_pgp_write_to_mem   *)
(* writes back and what key_reader replays to validate the key) are its    *)
(* own key packet followed by every packet up to the next key packet, in  *)
(* stream order, with nothing skipped.                                     *)
RawPacketsFollowStream ==
  \A k \in 1..Len(keys) :
    /\ \A i \in 1..Len(keys[k].packets) : keys[k].packets[i] = keys[k].at + i - 1
    /\ k < Len(keys) => Len(keys[k].packets) = keys[k + 1].at - keys[k].at

(* Spec 4.2: a signature subpacket received before any key is dropped     *)
(* with a warning, never fatal. The primary-user-id, revocation-reason and *)
(* key-flags cases of cb_keyring_read read keys[keyc - 1] without checking *)
(* keyc, unlike the other subpacket cases.                                 *)
NoKeyAccessBeforeFirstKey == ~oob
=============================================================================
