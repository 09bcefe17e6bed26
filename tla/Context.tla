------------------------------- MODULE Context -------------------------------
(***************************************************************************)
(* The operation context of src/src/lib/rnp.c and the passwords it keeps  *)
(* for symmetric encryption: rnp_ctx_init clears it; each                  *)
(* rnp_encrypt_add_password asks the password provider for a password,     *)
(* fills a pass info on the stack (rnp_encrypt_set_pass_info: random salt, *)
(* encoded iteration count, then the key derived by S2K), appends a copy   *)
(* of it to ctx->passwords, and wipes (pgp_forget) the password and the    *)
(* stack copy at its done: label; rnp_ctx_free or rnp_ctx_reset ends it.   *)
(*                                                                         *)
(* The provider, rng_generate, pgp_s2k_derive_key and list_append are not  *)
(* in src/: each may fail. A buffer is abstracted to what it holds.       *)
(***************************************************************************)
EXTENDS Integers, Sequences, S2K

CONSTANTS
  MaxPasswords   \* rnp_encrypt_add_password calls on one context

VARIABLES
  cstate,     \* "none", "ready", "adding" (inside rnp_encrypt_add_password), "ended"
  cpc,        \* inside rnp_encrypt_add_password: "request", "set_info", "append", "done"
  cret,       \* ret of the running rnp_encrypt_add_password
  password,   \* the stack password[]: "empty", "secret", "wiped"
  info,       \* the stack info: "empty", "salted" (salt and count set), "derived", "wiped"
  passwords,  \* ctx->passwords: the pass infos appended
  adds,       \* history: the codes rnp_encrypt_add_password returned
  dropped,    \* pass infos whose only pointer rnp_ctx_reset zeroed
  s2kiter     \* info.s2k.iterations, the encoded iteration byte

cvars == <<cstate, cpc, cret, password, info, passwords, adds, dropped, s2kiter>>

CInit ==
  /\ cstate = "none"
  /\ cpc = "request"
  /\ cret = "none"
  /\ password = "empty"
  /\ info = "empty"
  /\ passwords = <<>>
  /\ adds = <<>>
  /\ dropped = <<>>
  /\ s2kiter = 0

(* rnp_ctx_init: the context is zeroed and bound to the rnp_t.            *)
CtxInit ==
  /\ cstate = "none"
  /\ cstate' = "ready"
  /\ UNCHANGED <<cpc, cret, password, info, passwords, adds, dropped, s2kiter>>

(* rnp_encrypt_add_password is entered with ret = RNP_ERROR_GENERIC and    *)
(* password[] and info zeroed.                                             *)
AddPasswordStart ==
  /\ cstate = "ready"
  /\ Len(adds) < MaxPasswords
  /\ cstate' = "adding"
  /\ cpc' = "request"
  /\ cret' = "RNP_ERROR_GENERIC"
  /\ password' = "empty"
  /\ info' = "empty"
  /\ s2kiter' = 0
  /\ UNCHANGED <<passwords, adds, dropped>>

(* pgp_request_password: on failure RNP_ERROR_BAD_PASSWORD is returned at *)
(* once, before the done: label.                                           *)
RequestPassword ==
  /\ cstate = "adding" /\ cpc = "request"
  /\ \/ /\ password' = "secret"
        /\ cpc' = "set_info"
        /\ UNCHANGED <<cstate, adds>>
     \/ /\ cstate' = "ready"
        /\ adds' = Append(adds, "RNP_ERROR_BAD_PASSWORD")
        /\ UNCHANGED <<cpc, password>>
  /\ UNCHANGED <<cret, info, passwords, dropped, s2kiter>>

(* Mutant: a failed derivation falls through to list_append.               *)
SetPassInfoNoGoto ==
  /\ cstate = "adding" /\ cpc = "set_info"
  /\ \/ /\ info' = "derived"
        /\ cret' = "RNP_SUCCESS"
     \/ /\ info' \in {"empty", "salted"}
        /\ cret' = "RNP_ERROR_GENERIC"
  /\ cpc' = "append"
  /\ s2kiter' = IF info' = "empty" THEN 0
                 ELSE pgp_s2k_encode_iterations(PGP_S2K_DEFAULT_ITERATIONS)
  /\ UNCHANGED <<cstate, password, passwords, adds, dropped>>

(* rnp_encrypt_set_pass_info: s2k parameters, rng_generate of the salt     *)
(* (may fail), the iteration count PGP_S2K_DEFAULT_ITERATIONS encoded by   *)
(* pgp_s2k_encode_iterations, then pgp_s2k_derive_key (may                 *)
(* fail); its result becomes ret, and a failure goes to done:.             *)
SetPassInfo ==
  /\ cstate = "adding" /\ cpc = "set_info"
  /\ \/ /\ info' = "derived"
        /\ cret' = "RNP_SUCCESS"
        /\ cpc' = "append"
     \/ /\ info' \in {"empty", "salted"}
        /\ cret' = "RNP_ERROR_GENERIC"
        /\ cpc' = "done"
  /\ s2kiter' = IF info' = "empty" THEN 0
                 ELSE pgp_s2k_encode_iterations(PGP_S2K_DEFAULT_ITERATIONS)
  /\ UNCHANGED <<cstate, password, passwords, adds, dropped>>

(* list_append copies info into a new element of ctx->passwords, or fails *)
(* with RNP_ERROR_OUT_OF_MEMORY; then ret = RNP_SUCCESS.                   *)
AppendInfo ==
  /\ cstate = "adding" /\ cpc = "append"
  /\ \/ /\ passwords' = Append(passwords, info)
        /\ cret' = "RNP_SUCCESS"
     \/ /\ cret' = "RNP_ERROR_OUT_OF_MEMORY"
        /\ UNCHANGED passwords
  /\ cpc' = "done"
  /\ UNCHANGED <<cstate, password, info, adds, dropped, s2kiter>>

(* done: pgp_forget of password[] and of info, then ret is returned.       *)
Done ==
  /\ cstate = "adding" /\ cpc = "done"
  /\ password' = "wiped"
  /\ info' = "wiped"
  /\ s2kiter' = 0
  /\ cstate' = "ready"
  /\ adds' = Append(adds, cret)
  /\ UNCHANGED <<cpc, cret, passwords, dropped>>

(* rnp_ctx_free frees the file name and the recipients list only;          *)
(* rnp_ctx_reset also zeroes the context, dropping the pointer to          *)
(* ctx->passwords. Neither wipes or frees the stored pass infos.           *)
CtxFree ==
  /\ cstate = "ready"
  /\ \/ UNCHANGED <<passwords, dropped>>
     \/ /\ passwords' = <<>>
        /\ dropped' = dropped \o passwords
  /\ cstate' = "ended"
  /\ UNCHANGED <<cpc, cret, password, info, adds, s2kiter>>

CNext ==
  \/ CtxInit
  \/ AddPasswordStart
  \/ RequestPassword
  \/ SetPassInfo
  \/ AppendInfo
  \/ Done
  \/ CtxFree

-----------------------------------------------------------------------------
(* The number of calls among cs that returned success.                    *)
Successes(cs) == Len(SelectSeq(cs, LAMBDA c : c = "RNP_SUCCESS"))

(* Spec 5 and 9: rnp_encrypt_add_password adds to ctx->passwords exactly   *)
(* one pass info, holding a derived key, per call that reports success,    *)
(* and nothing for a call that fails at any of its steps; and every call   *)
(* that got a password has wiped its stack copies of the password and of  *)
(* the derived key by the time it returns (secret scratch buffers are      *)
(* destroyed on every exit path).                                          *)
PassInfoAddedWhole ==
  /\ \A k \in 1..Len(passwords) : passwords[k] = "derived"
  /\ cstate = "ready" =>
       /\ Len(passwords) = Successes(adds)
       /\ (adds # <<>> /\ adds[Len(adds)] # "RNP_ERROR_BAD_PASSWORD") =>
            password = "wiped" /\ info = "wiped"

(* Spec 5: when the context ends no derived key of ctx->passwords is left *)
(* in memory: the pass infos are wiped and freed, none merely forgotten.   *)
DerivedKeysGoneAtEnd ==
  cstate = "ended" => passwords = <<>> /\ dropped = <<>>

=============================================================================
