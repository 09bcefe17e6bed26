------------------------------- MODULE KeyGen -------------------------------
(***************************************************************************)
(* Key pair generation (src/src/lib/generate-key.c): pgp_generate_keypair  *)
(* merges the pair's default usage flags, then pgp_generate_primary_key    *)
(* and pgp_generate_subkey each merge their own defaults (algorithm, hash  *)
(* adjusted to the curve, usage flags, user id, preferences), validate the *)
(* request, generate the raw key, write it with its self-certification or  *)
(* binding and load it back. The subkey is linked into the public primary  *)
(* once its public half is loaded and into the secret primary once the     *)
(* secret half is.                                                         *)
(*                                                                         *)
(* The request descriptors (rnp_keygen_primary_desc_t / _subkey_desc_t)    *)
(* are records; an unset field is "NONE" or {} as the C zero. Key          *)
(* material, the RSA size and the text of the default user id are left   *)
(* out: what matters is which algorithm, curve, hash and flags each key    *)
(* and each signature ends up with.                                        *)
(***************************************************************************)
EXTENDS Integers, Sequences, FiniteSets

CONSTANTS
  PrimaryRequests,  \* primary descriptors the caller may pass
  SubkeyRequests,   \* subkey descriptors the caller may pass
  AllocCanFail,     \* TRUE: EXPAND_ARRAY may fail
  GenCanFail        \* TRUE: pgp_generate_seckey, the writes and the reloads may fail

Flags == {"SIGN", "CERTIFY", "ENCRYPT", "AUTH"}

(* pgp_pk_alg_capabilities (not in src/): what each algorithm can do.      *)
Capabilities(alg) ==
  CASE alg \in {"RSA", "SM2"}   -> Flags
    [] alg \in {"ECDSA", "EDDSA"} -> {"SIGN", "CERTIFY", "AUTH"}
    [] alg = "ECDH"              -> {"ENCRYPT"}
    [] OTHER                     -> {}

(* pgp_digest_length (not in src/): digest sizes in bytes.                 *)
DigestLength == [SHA1 |-> 20, SHA256 |-> 32, SHA384 |-> 48, SHA512 |-> 64, SM3 |-> 32]

(* The preference lists set_default_user_prefs fills, in its order.        *)
PrefLists == <<"symm", "hash", "compress">>

Keys == {"primary_pub", "primary_sec", "subkey_pub", "subkey_sec"}

VARIABLES
  primary_desc,  \* the caller's primary descriptor, as the code leaves it
  subkey_desc,   \* the caller's subkey descriptor, as the code leaves it
  keys,          \* each of the four pgp_key_t: "zeroed", "loaded" or "freed"
  subkeys,       \* primary_pub->subkeys and primary_sec->subkeys
  pc,            \* where pgp_generate_keypair is
  sigs,          \* history: the signatures written (self-certification, binding)
  requested      \* history: the two descriptors as the caller passed them

vars == <<primary_desc, subkey_desc, keys, subkeys, pc, sigs, requested>>

Init ==
  /\ primary_desc \in PrimaryRequests
  /\ subkey_desc \in SubkeyRequests
  /\ keys = [k \in Keys |-> "zeroed"]
  /\ subkeys = [pub |-> <<>>, sec |-> <<>>]
  /\ pc = "start"
  /\ sigs = {}
  /\ requested = [primary |-> primary_desc, subkey |-> subkey_desc]

-----------------------------------------------------------------------------
(* Mutant: the P-384 case compares against the P-256 minimum.              *)
AdjustHashToCurveP384Short(c) ==
  IF c.hash_alg \notin DOMAIN DigestLength THEN c
  ELSE CASE c.curve = "P256" /\ DigestLength[c.hash_alg] < 32 -> [c EXCEPT !.hash_alg = "SHA256"]
         [] c.curve = "P384" /\ DigestLength[c.hash_alg] < 32 -> [c EXCEPT !.hash_alg = "SHA384"]
         [] c.curve = "P521" /\ DigestLength[c.hash_alg] < 64 -> [c EXCEPT !.hash_alg = "SHA512"]
         [] OTHER -> c

(* adjust_hash_to_curve: a digest shorter than the NIST curve's minimum is *)
(* replaced by the matching SHA-2; any other curve, or a hash whose length *)
(* is unknown, is left alone.                                              *)
AdjustHashToCurve(c) ==
  IF c.hash_alg \notin DOMAIN DigestLength THEN c
  ELSE CASE c.curve = "P256" /\ DigestLength[c.hash_alg] < 32 -> [c EXCEPT !.hash_alg = "SHA256"]
         [] c.curve = "P384" /\ DigestLength[c.hash_alg] < 48 -> [c EXCEPT !.hash_alg = "SHA384"]
         [] c.curve = "P521" /\ DigestLength[c.hash_alg] < 64 -> [c EXCEPT !.hash_alg = "SHA512"]
         [] OTHER -> c

(* Mutant: the trailing hash default left out.                             *)
KeygenMergeCryptoDefaultsNoHashDefault(c) ==
  LET a == IF c.key_alg = "NONE" THEN [c EXCEPT !.key_alg = "RSA"] ELSE c
  IN CASE a.key_alg = "SM2" ->
            [a EXCEPT !.hash_alg = IF @ = "NONE" THEN "SM3" ELSE @,
                      !.curve = IF @ = "NONE" THEN "SM2P256" ELSE @]
       [] a.key_alg \in {"ECDH", "ECDSA"} ->
            AdjustHashToCurve([a EXCEPT !.hash_alg = IF @ = "NONE" THEN "SHA256" ELSE @])
       [] a.key_alg = "EDDSA" ->
            [a EXCEPT !.curve = IF @ = "NONE" THEN "ED25519" ELSE @]
       [] OTHER -> a

(* keygen_merge_crypto_defaults: RSA when no algorithm is set; SM2 gets    *)
(* SM3 and its curve; ECDH/ECDSA get SHA256 and then the curve adjustment; *)
(* EdDSA gets Ed25519; the hash finally defaults to SHA256.                *)
KeygenMergeCryptoDefaults(c) ==
  LET a == IF c.key_alg = "NONE" THEN [c EXCEPT !.key_alg = "RSA"] ELSE c
      b == CASE a.key_alg = "SM2" ->
                  [a EXCEPT !.hash_alg = IF @ = "NONE" THEN "SM3" ELSE @,
                            !.curve = IF @ = "NONE" THEN "SM2P256" ELSE @]
             [] a.key_alg \in {"ECDH", "ECDSA"} ->
                  AdjustHashToCurve([a EXCEPT !.hash_alg = IF @ = "NONE" THEN "SHA256" ELSE @])
             [] a.key_alg = "EDDSA" ->
                  [a EXCEPT !.curve = IF @ = "NONE" THEN "ED25519" ELSE @]
             [] OTHER -> a
  IN [b EXCEPT !.hash_alg = IF @ = "NONE" THEN "SHA256" ELSE @]

(* set_default_user_prefs: each empty list is filled with the defaults,    *)
(* one EXPAND_ARRAY per element. EXPAND_ARRAY grows an empty array to ten  *)
(* slots at once, more than any default list needs, so only the first     *)
(* expansion of a list can fail; the function then returns at once,        *)
(* leaving that list and the later ones empty (its result is ignored).     *)
SetDefaultUserPrefs(p) ==
  LET Index(l) == CHOOSE x \in 1..3 : PrefLists[x] = l
      FailAt(n) == [l \in DOMAIN p |->
                     CASE p[l] # "empty"   -> p[l]
                       [] Index(l) < n     -> "default"
                       [] OTHER            -> "empty"]
  IN {FailAt(4)} \cup
     (IF AllocCanFail THEN {FailAt(n) : n \in {x \in 1..3 : p[PrefLists[x]] = "empty"}}
      ELSE {})

(* keygen_primary_merge_defaults: crypto defaults, preferences, the full   *)
(* capabilities as flags when none are set, and a generated user id.       *)
KeygenPrimaryMergeDefaults(d) ==
  LET c == KeygenMergeCryptoDefaults(d)
  IN {[c EXCEPT !.prefs = p,
                !.key_flags = IF @ = {} THEN Capabilities(c.key_alg) ELSE @,
                !.userid = IF @ = "" THEN "generated" ELSE @] :
        p \in SetDefaultUserPrefs(d.prefs)}

(* keygen_subkey_merge_defaults.                                           *)
KeygenSubkeyMergeDefaults(d) ==
  LET c == KeygenMergeCryptoDefaults(d)
  IN [c EXCEPT !.key_flags = IF @ = {} THEN Capabilities(c.key_alg) ELSE @]

(* keygen_merge_defaults: when neither key has usage flags, the primary    *)
(* gets sign+certify and the subkey encrypt.                               *)
KeygenMergeDefaults(p, s) ==
  IF p.key_flags = {} /\ s.key_flags = {}
  THEN [p |-> [p EXCEPT !.key_flags = {"SIGN", "CERTIFY"}],
        s |-> [s EXCEPT !.key_flags = {"ENCRYPT"}]]
  ELSE [p |-> p, s |-> s]

(* validate_keygen_primary: the algorithm can certify, flags are set and   *)
(* within its capabilities, and there is a user id.                        *)
ValidateKeygenPrimary(d) ==
  /\ "CERTIFY" \in Capabilities(d.key_alg)
  /\ d.key_flags # {}
  /\ d.key_flags \subseteq Capabilities(d.key_alg)
  /\ d.userid # ""

(* Mutant: the capability check of the subkey's flags left out.            *)
ValidateKeygenSubkeyNoCapCheck(d) ==
  d.key_flags # {}

(* validate_keygen_subkey: flags are set and within the capabilities.      *)
ValidateKeygenSubkey(d) ==
  /\ d.key_flags # {}
  /\ d.key_flags \subseteq Capabilities(d.key_alg)

(* The outcome of the steps after validation that may fail: generation,    *)
(* the writes and the reloads (load_generated_key), and EXPAND_ARRAY.      *)
Steps(canfail) == IF canfail THEN BOOLEAN ELSE {TRUE}

NoPrefs == [l \in {"symm", "hash", "compress"} |-> "empty"]

Signature(kind, signer, hash, prefs) ==
  [kind |-> kind, alg |-> signer.key_alg, curve |-> signer.curve, hash |-> hash,
   prefs |-> prefs]

-----------------------------------------------------------------------------
(* pgp_generate_keypair up to the primary: keygen_merge_defaults.          *)
Start ==
  /\ pc = "start"
  /\ LET m == KeygenMergeDefaults(primary_desc, subkey_desc)
     IN /\ primary_desc' = m.p
        /\ subkey_desc' = m.s
  /\ pc' = "primary"
  /\ UNCHANGED <<keys, subkeys, sigs, requested>>

(* pgp_generate_primary_key: merge the defaults, validate, generate, write *)
(* the public key with user id and self-certification and load it, then   *)
(* the secret one. The preferences are freed on every path; on failure    *)
(* both primary structs are freed and pgp_generate_keypair returns false. *)
PgpGeneratePrimaryKey ==
  /\ pc = "primary"
  /\ \E d \in KeygenPrimaryMergeDefaults(primary_desc), ok \in Steps(GenCanFail) :
       /\ primary_desc' = [d EXCEPT !.prefs = NoPrefs]
       /\ IF ValidateKeygenPrimary(d) /\ ok
          THEN /\ keys' = [keys EXCEPT !.primary_pub = "loaded", !.primary_sec = "loaded"]
               /\ sigs' = sigs \cup {Signature("selfcert", d, d.hash_alg, d.prefs)}
               /\ pc' = "subkey"
          ELSE /\ keys' = [keys EXCEPT !.primary_pub = "freed", !.primary_sec = "freed"]
               /\ pc' = "failed"
               /\ UNCHANGED sigs
  /\ UNCHANGED <<subkey_desc, subkeys, requested>>

(* The end of pgp_generate_subkey on a failure: both subkey structs freed. *)
SubkeyFailed ==
  /\ keys' = [keys EXCEPT !.subkey_pub = "freed", !.subkey_sec = "freed"]
  /\ pc' = "failed"
  /\ UNCHANGED <<subkeys, sigs>>

(* pgp_generate_subkey up to the public half: merge, validate, expand both *)
(* primaries' subkey arrays, generate, write the public subkey with the    *)
(* binding signed by the primary with the subkey's hash, load it and link  *)
(* it into primary_pub.                                                    *)
PgpGenerateSubkeyPublic ==
  /\ pc = "subkey"
  /\ LET d == KeygenSubkeyMergeDefaults(subkey_desc)
     IN /\ subkey_desc' = d
        /\ \E expanded \in Steps(AllocCanFail), ok \in Steps(GenCanFail) :
             IF ValidateKeygenSubkey(d) /\ expanded /\ ok
             THEN /\ keys' = [keys EXCEPT !.subkey_pub = "loaded"]
                  /\ subkeys' = [subkeys EXCEPT !.pub = Append(@, "subkey_pub")]
                  /\ sigs' = sigs \cup {Signature("binding", primary_desc, d.hash_alg, NoPrefs)}
                  /\ pc' = "subkey_sec"
             ELSE SubkeyFailed
  /\ UNCHANGED <<primary_desc, requested>>

(* pgp_generate_subkey, the secret half: write the secret subkey and its   *)
(* binding, load it back and link it into primary_sec.                     *)
PgpGenerateSubkeySecret ==
  /\ pc = "subkey_sec"
  /\ \E ok \in Steps(GenCanFail) :
       IF ok
       THEN /\ keys' = [keys EXCEPT !.subkey_sec = "loaded"]
            /\ subkeys' = [subkeys EXCEPT !.sec = Append(@, "subkey_sec")]
            /\ pc' = "done"
            /\ UNCHANGED sigs
       ELSE SubkeyFailed
  /\ UNCHANGED <<primary_desc, subkey_desc, requested>>

Next ==
  \/ Start
  \/ PgpGeneratePrimaryKey
  \/ PgpGenerateSubkeyPublic
  \/ PgpGenerateSubkeySecret

Spec == Init /\ [][Next]_vars

(* pgp_generate_keypair is one call on one thread that runs to its return: *)
(* every step it can take it takes. Failures stay free choices.           *)
FairSpec == Spec /\ WF_vars(Next)

-----------------------------------------------------------------------------
Algs == {"NONE", "RSA", "ECDSA", "ECDH", "EDDSA", "SM2"}
Curves == {"NONE", "P256", "P384", "P521", "ED25519", "SM2P256"}
Prefs == [{"symm", "hash", "compress"} -> {"empty", "user", "default"}]

(* Every variable has its type; once a key's defaults are merged its      *)
(* descriptor names an algorithm and a hash of known length.              *)
TypeOK ==
  /\ \A d \in {primary_desc, subkey_desc} :
       /\ d.key_alg \in Algs /\ d.curve \in Curves
       /\ d.hash_alg \in DOMAIN DigestLength \cup {"NONE"}
       /\ d.key_flags \subseteq Flags
  /\ pc \notin {"start", "primary"} =>
       /\ primary_desc.key_alg # "NONE" /\ primary_desc.hash_alg \in DOMAIN DigestLength
  /\ pc \in {"subkey_sec", "done"} =>
       /\ subkey_desc.key_alg # "NONE" /\ subkey_desc.hash_alg \in DOMAIN DigestLength
  /\ primary_desc.prefs \in Prefs /\ primary_desc.userid \in {"", "given", "generated"}
  /\ keys \in [Keys -> {"zeroed", "loaded", "freed"}]
  /\ subkeys \in [{"pub", "sec"} -> Seq({"subkey_pub", "subkey_sec"})]
  /\ pc \in {"start", "primary", "subkey", "subkey_sec", "done", "failed"}
  /\ \A s \in sigs : s.kind \in {"selfcert", "binding"} /\ s.prefs \in Prefs

(* The minimum digest of each NIST curve, in the comment of                *)
(* adjust_hash_to_curve and spec 4.5.                                      *)
NistMinimum == [P256 |-> 32, P384 |-> 48, P521 |-> 64]

SignerMeetsCurve(s) ==
  s.alg = "ECDSA" /\ s.curve \in DOMAIN NistMinimum =>
    DigestLength[s.hash] >= NistMinimum[s.curve]

(* Spec 4.5: an elliptic-curve primary key's self-certification is made   *)
(* with a digest at least as long as its curve requires, whatever hash the *)
(* caller asked for: keygen_merge_crypto_defaults substitutes, it never    *)
(* rejects.                                                                *)
SelfCertHashMeetsCurve ==
  \A s \in sigs : s.kind = "selfcert" => SignerMeetsCurve(s)

(* The same for the subkey binding, which the primary key signs with the  *)
(* hash of the subkey's request (generate-key.c:510, 540).                 *)
BindingHashMeetsCurve ==
  \A s \in sigs : s.kind = "binding" => SignerMeetsCurve(s)

(* The abstract view of a run of pgp_generate_keypair: the requests as     *)
(* passed, whether the call has returned and how, and the pair it made.   *)
AbstractKeyGen ==
  INSTANCE AbstractKeyGen WITH
    request <- requested,
    outcome <- IF pc \in {"done", "failed"} THEN pc ELSE "pending",
    pair <- IF pc = "done"
            THEN {[primary |-> [alg |-> primary_desc.key_alg, flags |-> primary_desc.key_flags],
                   subkey |-> [alg |-> subkey_desc.key_alg, flags |-> subkey_desc.key_flags]]}
            ELSE {}

(* Spec 4.5: pgp_generate_keypair implements the abstract promise. Every  *)
(* call returns; a call that succeeds produced a pair the requests allow:  *)
(* the algorithms asked for, a certify-capable primary, flags within each *)
(* algorithm's capabilities, the flags asked for kept exactly, and         *)
(* sign+certify / encrypt when none were asked for.                        *)
KeyGenImplementsAbstract == AbstractKeyGen!Spec
=============================================================================
