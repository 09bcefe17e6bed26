-------------------------------- MODULE Sign --------------------------------
(***************************************************************************)
(* Signing a file or a buffer (src/src/lib/rnp.c): rnp_sign_file and       *)
(* rnp_sign_memory resolve the user id to a key, fall back to a signing    *)
(* subkey, look the key up in the secret keyring, then loop asking the     *)
(* password provider to unlock it until a secret key is obtained or the    *)
(* attempts (rnp->pswdtries, INFINITE_ATTEMPTS for no limit) run out, sign *)
(* with it and free the decrypted copy.                                    *)
(*                                                                         *)
(* The key store lookups, the password provider and the signing itself    *)
(* are not in src/: each is a nondeterministic outcome. The two functions  *)
(* share their control flow; they differ in how they report the result.    *)
(***************************************************************************)
EXTENDS Integers

CONSTANTS
  AttemptSettings,    \* values rnp->pswdtries may hold
  INFINITE_ATTEMPTS,  \* rnp_def.h: -1
  MaxPrompts          \* bound on the counted provider calls, above every finite setting

VARIABLES
  api,               \* "file" (rnp_sign_file) or "memory" (rnp_sign_memory)
  attempts,          \* attempts = ctx->rnp->pswdtries
  ssh,               \* use_ssh_keys(ctx->rnp)
  locked,            \* pgp_key_is_locked(keypair)
  pc,                \* "start", "loop", "sign", "done"
  i,                 \* the loop counter
  seckey,            \* "NULL", "decrypted", "stored" (keypair's own), "ssh0" (secring keys[0])
  decrypted_seckey,  \* "NULL", "live" (allocated), "freed"
  result,            \* "none", "success", "error", "bad_password"
  prompts            \* history: calls to the password provider

vars == <<api, attempts, ssh, locked, pc, i, seckey, decrypted_seckey, result, prompts>>

Init ==
  /\ api \in {"file", "memory"}
  /\ attempts \in AttemptSettings
  /\ ssh \in BOOLEAN
  /\ locked \in BOOLEAN
  /\ pc = "start"
  /\ i = 0
  /\ seckey = "NULL"
  /\ decrypted_seckey = "NULL"
  /\ result = "none"
  /\ prompts = 0

Return(r) ==
  /\ result' = r
  /\ pc' = "done"

(* Before the loop: no file name or buffer, resolve_userid fails, neither  *)
(* the key nor a subkey can sign, or the key is not in the secret keyring: *)
(* each returns an error. Otherwise the loop starts with i = 0.            *)
LookupKey ==
  /\ pc = "start"
  /\ \/ Return("error")
     \/ /\ pc' = "loop"
        /\ UNCHANGED result
  /\ UNCHANGED <<api, attempts, ssh, locked, i, seckey, decrypted_seckey, prompts>>

(* Mutant: one attempt too many.                                           *)
LoopConditionOffByOne(n) ==
  /\ seckey = "NULL"
  /\ n <= attempts \/ attempts = INFINITE_ATTEMPTS

(* The loop condition: no secret key yet and attempts left.                *)
LoopCondition(n) ==
  /\ seckey = "NULL"
  /\ n < attempts \/ attempts = INFINITE_ATTEMPTS

(* Mutant: the attempt counter never advances.                             *)
IncrementNoCount ==
  i

(* i++ of the for loop; with INFINITE_ATTEMPTS i plays no part in the     *)
(* condition and is not counted.                                           *)
Increment ==
  IF attempts = INFINITE_ATTEMPTS THEN i ELSE i + 1

(* One iteration: rnp_key_store_get_key_by_name on the public keyring may  *)
(* fail and return; with ssh keys the secret is the secret keyring's       *)
(* keys[0]; an unlocked key is used as it is; a locked one goes to the     *)
(* password provider, whose answer (the decrypted key or NULL) becomes     *)
(* both decrypted_seckey and seckey.                                       *)
Attempt ==
  /\ pc = "loop"
  /\ LoopCondition(i)
  /\ prompts < MaxPrompts
  /\ \/ /\ Return("error")
        /\ UNCHANGED <<seckey, decrypted_seckey, prompts>>
     \/ /\ ssh
        /\ seckey' = "ssh0"
        /\ UNCHANGED <<decrypted_seckey, prompts, pc, result>>
     \/ /\ ~ssh /\ ~locked
        /\ seckey' = "stored"
        /\ UNCHANGED <<decrypted_seckey, prompts, pc, result>>
     \/ /\ ~ssh /\ locked
        /\ \E ok \in BOOLEAN :
             /\ decrypted_seckey' = IF ok THEN "live" ELSE "NULL"
             /\ seckey' = IF ok THEN "decrypted" ELSE "NULL"
        /\ prompts' = IF attempts = INFINITE_ATTEMPTS THEN prompts ELSE prompts + 1
        /\ UNCHANGED <<pc, result>>
  /\ i' = Increment
  /\ UNCHANGED <<api, attempts, ssh, locked>>

(* Mutant: the missing-key check after the loop left out.                  *)
LoopExitNoSeckeyCheck ==
  /\ pc = "loop"
  /\ ~LoopCondition(i)
  /\ pc' = "sign"
  /\ UNCHANGED <<api, attempts, ssh, locked, i, seckey, decrypted_seckey, prompts, result>>

(* The loop ends: without a secret key "Bad password" is returned,         *)
(* otherwise signing follows.                                              *)
LoopExit ==
  /\ pc = "loop"
  /\ ~LoopCondition(i)
  /\ IF seckey = "NULL"
     THEN Return("bad_password")
     ELSE /\ pc' = "sign"
          /\ UNCHANGED result
  /\ UNCHANGED <<api, attempts, ssh, locked, i, seckey, decrypted_seckey, prompts>>

(* Mutant: the decrypted key is not freed.                                  *)
SignAndFreeNoFree ==
  /\ pc = "sign"
  /\ \E ok \in BOOLEAN : Return(IF ok THEN "success" ELSE "error")
  /\ UNCHANGED <<api, attempts, ssh, locked, i, seckey, decrypted_seckey, prompts>>

(* pgp_sign_detached / pgp_sign_file / pgp_sign_buf may fail; either way   *)
(* the decrypted key, if any, is freed before returning.                   *)
SignAndFree ==
  /\ pc = "sign"
  /\ \E ok \in BOOLEAN : Return(IF ok THEN "success" ELSE "error")
  /\ decrypted_seckey' = IF decrypted_seckey = "live" THEN "freed" ELSE decrypted_seckey
  /\ UNCHANGED <<api, attempts, ssh, locked, i, seckey, prompts>>

Next ==
  \/ LookupKey
  \/ Attempt
  \/ LoopExit
  \/ SignAndFree

(* The call runs on one thread to its return: every step it can take it   *)
(* takes. The password provider's answers stay free.                       *)
Spec == Init /\ [][Next]_vars /\ WF_vars(Next)

-----------------------------------------------------------------------------
(* Every variable has its type; the loop counter never passes the limit.   *)
TypeOK ==
  /\ api \in {"file", "memory"}
  /\ attempts \in AttemptSettings
  /\ ssh \in BOOLEAN /\ locked \in BOOLEAN
  /\ pc \in {"start", "loop", "sign", "done"}
  /\ i \in 0..(IF attempts = INFINITE_ATTEMPTS THEN 0 ELSE attempts)
  /\ prompts \in 0..MaxPrompts
  /\ seckey \in {"NULL", "decrypted", "stored", "ssh0"}
  /\ decrypted_seckey \in {"NULL", "live", "freed"}
  /\ result \in {"none", "success", "error", "bad_password"}

(* A "Bad password" failure comes only after the password provider was     *)
(* asked exactly pswdtries times, and signing only ever uses a secret key  *)
(* obtained by the loop: the decrypted one for a locked key.               *)
BadPasswordAfterAllAttempts ==
  /\ result = "bad_password" =>
       /\ attempts # INFINITE_ATTEMPTS
       /\ prompts = (IF ~ssh /\ locked THEN attempts ELSE 0)
  /\ pc = "sign" => seckey # "NULL" /\ (~ssh /\ locked => seckey = "decrypted")

(* The decrypted secret key is freed on every path that leaves the call,   *)
(* and a live decrypted key is never dropped by being overwritten (a step  *)
(* may keep it or free it, nothing else).                                  *)
DecryptedKeyFreed ==
  /\ [][decrypted_seckey = "live" => decrypted_seckey' \in {"live", "freed"}]_vars
  /\ [](pc = "done" => decrypted_seckey # "live")

(* With a finite number of attempts the call always returns, whatever the  *)
(* password provider answers.                                              *)
Terminates ==
  (attempts # INFINITE_ATTEMPTS) ~> (pc = "done")
=============================================================================
