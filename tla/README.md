# TLA+ models of rnp's key store, signature validation, key import/generation and signing

These modules model the C sources under `src/src/` of this repository. That is
the key-store reader, data and key signature validation, and the
import/generate and signing front ends of the library. The TLC runs check what they
promise against the behaviour of the sources and against `spec.md`.

## The system

| Source | Lines | What it does |
|---|---|---|
| `librekey/key_store_pgp.c` | 313 | `cb_keyring_read` turns the parser's packet events into the keyring's array of keys: subsignatures, user-id counts, revocations, flags and raw packets. `rnp_key_store_pgp_read_from_mem` and `_write_to_mem` drive it. |
| `librepgp/validate.c` | 936 | `validate_data_cb` verifies signed messages and detached signatures: data accumulation, signer lookup, the check, the valid/invalid/unknown lists. `pgp_validate_key_cb` validates a key's own certifications and bindings while its raw packets are replayed through `key_reader`. `validate_result_status` gives the verdict. |
| `lib/generate-key.c` | 660 | Key generation: parameter defaults and validation, the curve-driven hash upgrade, writing and re-reading the generated primary key and subkey, and linking the subkey into both primaries. |
| `lib/rnp.c` | 2013 | The library front end: `rnp_import_key`, `rnp_generate_key`, sign/verify/encrypt/decrypt of files and memory, listing and JSON formatting, initialisation. |
| `lib/*.h`, `librepgp/stream-parse.h` | | Declarations only: S2K (one constant, the default iteration count), the signature checks, the stream parser, utility macros. |

How the parts interact. The packet parser (not in `src/`) calls back into
`cb_keyring_read` once per packet and once per signature subpacket. The
resulting keys keep their raw packets. `pgp_validate_key_sigs` later replays
those packets through the parser into `pgp_validate_key_cb`. Message
verification runs the parser over the message with `validate_data_cb`, looking
signers up in a keyring. `rnp_import_key` loads a file into a temporary store
(through the reader) and copies keys and subkeys into the public or secret
keyring. `rnp_generate_key` calls `pgp_generate_keypair` and copies the four
generated structs into the keyrings. Both then write the two keyring files.

Everything is single-threaded. The hard cases come from the order of events a
parser may produce, allocation failures partway through a step, and raw
pointers into arrays that `realloc` may move.

## Modules

Each module has an `MC*.tla` that gives its constants model values and small
sets, and one or more `.cfg` files. Definitions keep the C names where TLA+
allows it. `PROJECT.json` maps every definition to the lines it models.

Two MC modules compose components:
- MCValidateData EXTENDS Verify, which EXTENDS ValidateData, so the callback
  and the entry points run under their real callers;
- MCSign EXTENDS Sign, Context, Streams and S2K: a signing call, password
  additions and a stream call made by one thread on one context.

### KeyringRead: `cb_keyring_read`

- State: `keys` (the keyring array), `errors`, `status`
  (parsing / finished / crashed / ended), and the packet the parser is inside.
- History: what each signature packet's subpackets said (`said`), and whether
  `keys[keyc-1]` was read with `keyc = 0` (`oob`).
- Each `case` of the callback is one action: key packets, user id, signature
  header, each subpacket kind, PACKET_END, parser error, the default case.
- The parser is the environment. It may emit any packet sequence, with
  subpackets only inside a signature packet and a PACKET_END after every
  packet.
- Reading `keys[-1]` is undefined behaviour, modelled as either a crash or
  parsing going on.
- `uidc - 1` on an unsigned with no user id is kept as -1 (UINT_MAX is equally
  outside every index range).
- `rnp_key_store_add_keydata` is not in `src/`. It is modelled from the spec:
  it appends a zeroed key and may fail.

### ValidateData: `validate_data_cb` and the verdict

- State: `mem` (accumulated data), the result lists, `birthtime`/`duration`,
  `errors`, and the return value.
- History: `seen` records each signature with the list it went to and the data
  it was checked over.
- Signatures are records. `over` is the data their signer hashed, and
  `check_binary_sig` holds when the version is V3/V4 and `over` equals the
  data checked.
- The detached branch reads the signed file when no data has arrived. The
  read may fail and give no data.
- `AllocCanFail` lets `add_sig_to_list` and `pgp_memory_add` fail the way the
  code handles it: the item is dropped with an error.
- Both entry points are modelled around the callback (`api`):
  - `SetupFile` and `SetupMem` cover stat, the reader setup and
    `pgp_memory_new`, each of which may fail;
  - `FinishFile` and `FinishMem` tear the reader down and compute the verdict.
    `pgp_validate_mem` hands `data->mem` out through `*cat` whatever the
    verdict.
- `pgp_validate_file`'s `--cat` output (`out`: none, `-` or a path) has
  three actions:
  - `OpenOutput`: opening a path may fail, which makes the result false;
  - `WriteChunk`: one `write` of the loop, which writes part of what is left
    or fails;
  - `CloseOutput`: the tidy-up, which closes outfd only when it is standard
    output.
- `held` records the reader and any opened descriptor still held, and
  `stdout` whether the call closed standard output. `ReleasedOnReturn`
  states that both are clean at return. It is violated (see the hazards).

### Verify: `rnp_verify_file` and `rnp_verify_memory` (`rnp.c`)

Verify EXTENDS ValidateData with the only two callers of its entry points. The
caller's variables are:
- `vcall` and `vstate`;
- the result: `code` for the file call, `count` for the memory call;
- `outsize` and `outbuf`, the caller's buffer.

- `VerifyFileStart` and `VerifyMemoryStart` are the front ends'
  allocations, each of which may fail.
- `Validating` is one ValidateData step taken while the front end waits.
- `VerifyFileReturn` maps the verdict to `RNP_SUCCESS` or
  `RNP_ERROR_SIGNATURE_INVALID`.
- `VerifyMemoryReturn` copies `MIN(len(cat), outsize)` chunks and returns
  their count.
- `ApiOf` ties the caller to the entry point. Buffer ownership is not
  modelled; two hazards note leaks in it.

### ValidateKey: `pgp_validate_key_cb` and `pgp_validate_key_sigs`

- State: the remembered primary, subkey, user id, user attribute and
  `last_seen`, the result lists, and the status.
- History: the replayed packets (`stream`), and every verified signature with
  the payload it was checked over (`checks`).
- The payload check functions are declared in `signature.h` but not defined in
  `src/`. They are modelled from spec 4.3 as "the signer hashed this payload":
  - user id certification: primary ∥ user id;
  - attribute certification: primary ∥ attribute;
  - subkey binding: primary ∥ subkey;
  - direct-key signature: primary alone.
- Each case of the callback is an action, the password callback and the
  unexpected-tag exit included.

### KeyStore: `rnp_import_key` and `rnp_generate_key`

- The keyrings and the temporary store are arrays of key structs with a
  generation number.
- A pointer is `[store, generation, index]`, and index 0 is NULL. When
  `rnp_key_store_add_key` grows an array it may move it: the generation goes
  up, and every pointer taken into the old array dangles. The exception is the
  pointers the store's own keys hold, which add_key fixes up. The fix-up is
  what spec 9 describes the code as needing.
- `rnp_generate_key`'s local structs form the store `stack`.
- `pc` steps through the two functions: load, the key loop, the subkey loop
  with its pointer fix-up, the four adds, and the two ring writes. Every
  `goto done` / `return false` is a `Fail`.
- The write through a stale `importedkey` is undefined behaviour. Both
  outcomes are modelled: it reaches the key, or it is lost.
- `add_key`, `get_key_by_grip` and `write_to_file` are not in `src/`; they are
  modelled from spec 3 and 4.2.
- `pgp_generate_keypair` is modelled by its effect on the keyrings: success or
  failure, and the primaries' `subkeys[]` holding the addresses of the local
  subkey structs. Its inside is `KeyGen`.
- `op` records which of the two functions is running. The two share the
  ring-writing steps, so `pc` alone does not tell them apart.
- `FairSpec` adds weak fairness on `Next`: one call on one thread, with
  every failure chosen inside an action.

### AbstractKeyring: what import and generate promise for keyring contents

- This module models the spec (3, 4.2, 4.5), not code. The keyrings are sets
  of grips, in memory (`ring`) and on disk (`disk`).
- A call adds its keys one at a time, each to a keyring it belongs in:
  - for import, the file's keys, to the secret or public keyring;
  - for generate, the new primary and subkey, to both keyrings.
- It saves either keyring as it is in memory, and it may fail at any point.
  It returns success only when every key is in place and both keyrings are
  saved as they are. Every call returns.
- KeyStore implements it. `KeyStore!AbstractKeyring` maps each keyring to
  the grips of its array, `file` to the grips of `tmp_keystore`, and
  `outcome` to `pc` once the call is done or failed.
- Pointers and subkey links are below this level. `GripsUnique` and
  `SubkeyRefsInOwnStore` state them.

### KeyGen: `pgp_generate_keypair` (`generate-key.c`)

- State:
  - the caller's two request descriptors, as the code leaves them after
    merging defaults;
  - the four `pgp_key_t` (zeroed, loaded or freed);
  - the primaries' `subkeys[]` lists;
  - `pc`.
- History: every signature written (self-certification or binding), with
  the signer's algorithm and curve, the hash and the preference lists. Also
  the requests as passed in.
- Actions:
  - `Start` is `keygen_merge_defaults`.
  - `PgpGeneratePrimaryKey` is the whole of `pgp_generate_primary_key`:
    merge, validate, generate, write and reload both halves, free the prefs.
  - `PgpGenerateSubkeyPublic` and `PgpGenerateSubkeySecret` are
    `pgp_generate_subkey` split at line 519. That is where the public subkey
    is already linked into `primary_pub` and a later failure frees it.
- The default merges (`keygen_merge_crypto_defaults`, `adjust_hash_to_curve`,
  `set_default_user_prefs`, `keygen_*_merge_defaults`) and the validations
  are operators on the descriptor records. An unset field is `"NONE"` or `{}`,
  as the C zero.
- `set_default_user_prefs` can fail in any list it fills. `EXPAND_ARRAY`
  grows an empty array to ten slots at once, so only a list's first
  expansion can fail. The failure leaves that list and the later ones
  empty, and the caller ignores it.
- Generation, the writes and the reloads are one nondeterministic success or
  failure each (`GenCanFail`). `EXPAND_ARRAY` is a separate one
  (`AllocCanFail`).
- Not in `src/`, and modelled from the spec and the OpenPGP algorithm
  definitions: `pgp_pk_alg_capabilities` and `pgp_digest_length`.

- `FairSpec` adds weak fairness on `Next`. The call runs on one thread to its
  return, so whatever step it can take it takes. The failure outcomes stay
  nondeterministic inside the actions, so fairness never forces a failure or
  a success.

### AbstractKeyGen: what key generation promises (spec 4.5)

- This module models the spec, not code. One step answers a request: it
  fails, or it yields a pair. The pair's algorithms are those asked for
  (any, when unset). The flags are non-empty and within the algorithm's
  capabilities, and they are the flags asked for when some were given. When
  neither key asked for flags, they are sign+certify and encrypt. The
  primary can certify.
- KeyGen implements it. `KeyGen!AbstractKeyGen` is an `INSTANCE ... WITH`
  mapping:
  - `request` is the requests as passed in;
  - `outcome` is `pc` once it is `done` or `failed`, and pending before;
  - `pair` is the descriptors' algorithms and flags once `pc = "done"`.
- `KeyGenImplementsAbstract` is the abstract `Spec`, including its fairness,
  checked as a property of `FairSpec`. It replaces the earlier invariant
  `UsageFlagsFollowRequest`. It says the same of the flags, and it also says
  that every call is answered and that an answer never changes.

### Sign: `rnp_sign_file` and `rnp_sign_memory` (`rnp.c`)

- State:
  - which function was called;
  - `attempts` (`rnp->pswdtries`, with -1 for `INFINITE_ATTEMPTS`);
  - whether ssh keys are used, and whether the key is locked;
  - the loop counter `i`;
  - `seckey`: NULL, the decrypted copy, the key's own, or the secring's
    `keys[0]`;
  - `decrypted_seckey`: NULL, live or freed;
  - the result.
- History: `prompts`, the number of password-provider calls counted
  against the limit. It is capped by `MaxPrompts`.
- Actions:
  - `LookupKey` is everything before the loop. Each lookup failure is an
    error return.
  - `Attempt` is one loop iteration, with `LoopCondition` and `Increment`
    from the `for` header.
  - `LoopExit` is the "Bad password" check after the loop.
  - `SignAndFree` signs, then frees the decrypted key.
- The two functions share this control flow. They differ only in how they
  report the result: an `rnp_result_t`, or a byte count that is 0 on error.
- The key store, the password provider and the signing are not in `src/`.
  Each is a nondeterministic outcome.
- `Spec` has weak fairness on `Next`: the call runs on one thread to its
  return. The provider's answer is chosen inside `Attempt`, so fairness
  never makes it succeed.

### Context: the operation context and `rnp_encrypt_add_password` (`rnp.c`)

- State:
  - `cstate`: none, ready, adding, ended;
  - the phase inside `rnp_encrypt_add_password` (`cpc`) and its `ret`;
  - the stack `password[]` and pass `info`, each abstracted to what it holds;
  - `ctx->passwords`;
  - `dropped`: the infos `rnp_ctx_reset` loses the pointer to.
- History: `adds`, the codes the calls returned.
- Actions:
  - `CtxInit`;
  - `AddPasswordStart`;
  - `RequestPassword`, whose failure returns before `done:`;
  - `SetPassInfo`, which covers `rnp_encrypt_set_pass_info` (salt and
    derivation may fail);
  - `AppendInfo` (`list_append` may fail);
  - `Done`, which wipes both buffers at the `done:` label;
  - `CtxFree`, for `rnp_ctx_free` or `rnp_ctx_reset`.
- MCSign composes Context with Sign as calls made on one context by one
  thread. The two share no variable, so their interleavings are exactly the
  call orders.
- `DerivedKeysGoneAtEnd` states that the derived keys are gone when the
  context ends. It is violated: neither function frees or wipes
  `ctx->passwords`.
- `s2kiter` is the pass info's encoded iteration byte. `SetPassInfo` sets it
  with S2K's `pgp_s2k_encode_iterations(PGP_S2K_DEFAULT_ITERATIONS)` once
  the salt is drawn, and `Done` wipes it.

### Streams: `rnp_encrypt_stream`, `rnp_armor_stream`, `rnp_process_stream` (`rnp.c`)

- State:
  - the call and its arguments: `scall`, `sout` (stdout or a path),
    `ctx->overwrite`, and for `rnp_process_stream` a path too long for
    `param->in` or `param->out`;
  - `spc`, the step the call is at, and `sres`, its result;
  - the handles `src` and `dst`;
  - `target`, the `newpath` of `rnp_get_output_filename`;
  - `fs`, what each file holds: absent, old, partial (created and being
    written), new;
  - `asks`, the new names the user typed.
- History: `agreed`, the files the user said yes to.
- Actions:
  - `InitializeInput`: the call starts and `rnp_initialize_input` runs; its
    failure returns `RNP_ERROR_READ` with nothing open;
  - `InitializeStdout`: `init_stdout_dest`;
  - `CheckName`: one turn of the `rnp_get_output_filename` loop. A name that
    does not exist is taken. An existing one is unlinked under
    `ctx->overwrite`. Otherwise the user's reply decides: end of input
    fails, yes unlinks, anything else asks for a new name;
  - `NewName`: the new name, or failure on end of input or an empty name;
  - `OpenFile`: `init_file_dest`;
  - `OutputFailed`: every failure of `rnp_initialize_output`. The source is
    closed and `RNP_ERROR_WRITE` returned;
  - `Transform`: the handler `calloc` of `rnp_encrypt_stream`, the
    transformation, then `finish:`. `Finish` closes the source, and closes
    the destination with discard unless the result is a success;
  - `ProcessStream`: the rest of `rnp_process_stream`, from the two callocs
    and the two length checks to `process_pgp_source`.
- The sources, destinations, the user's replies and the transformations are
  not in `src/`. Each outcome is a nondeterministic choice. `dst_close`
  with discard is taken to remove the file it created.
- In MCSign, a stream call needs an initialised context. It is made after
  the signing call has returned: Sign and Streams share no variable, so the
  other order gives the same behaviours of each.

### S2K: the iteration-count encoding (modelled from spec 3 and 4.4)

- Only `s2k.h` is in `src/`: the prototypes and `PGP_S2K_DEFAULT_ITERATIONS`.
- `pgp_s2k_decode_iterations(c)` is `(16 + c mod 16) * 2^(c div 16 + 6)`.
- `pgp_s2k_encode_iterations(n)`:
  - it finds the first code whose count reaches `n`, in closed form by
    exponent and then mantissa;
  - it then takes the nearer of that code and the one below it, the larger
    on a tie;
  - a request above the largest count gives 255.
- `pgp_s2k_round_iterations` decodes the encoding.
- No property is checked of these operators: they are the spec's
  algorithm, not code of `src/`. Context uses the encoding to fill the
  pass info's iteration byte.

## Runs

| Run | Checks | Result |
|---|---|---|
| `keyring_read` | `TypeOK`, `SubsigRecordsOwnSignature`, `RawPacketsFollowStream` | pass, ~1.06M states. Every stream of up to 4 packets with up to 2 subpackets each, 2 key tags: subpacket data lands on the signature being parsed, and each key keeps exactly its own packets. |
| `keyring_read_oob` | `NoKeyAccessBeforeFirstKey` | violation: a signature packet before any key, then a primary-user-id subpacket, reads `keys[-1]` (`key_store_pgp.c:197`). |
| `validate_data` | `TypeOK`, `SuccessNeedsVerifiedSignature`, `OutputFollowsVerdict` | pass, ~5.5M states, under `VerifySpec`. Calls through `rnp_verify_file` (no output, `-`, a path) and `rnp_verify_memory` (with or without out, outsize 0 or 1), with allocation, setup, open and write failures:<br>- success still needs one keyring signature over exactly the data checked;<br>- `--cat` output is written only for a verified message, and success means all of `data->mem` was written. |
| `validate_data_window` | `SuccessMeansEverySignatureInWindow` | violation: a valid signature dated in the future, followed by a current one without an expiration, verifies. Only the window of the last signature with a known signer is checked. |
| `validate_data_output` | `VerifiedOutputIsSigned` | violation: through `rnp_verify_memory` (or `--cat`), a body, a valid signature over it, then a second body. The verdict is success and both bodies are handed out through `*cat`. `VerifiedOutputIsSigned` is about `written`, the data the caller receives. |
| `validate_key` | `TypeOK`, `CheckedOverPrecedingPackets` | pass, ~630k states. Every replay of up to 4 packets: each signature is verified over the payload built from the packets that precede it. This is checked against a reference that reads the payload off the packet history. |
| `validate_key_binding` | `SubkeyBindingByPrimaryOnly` | violation: a binding of the primary to a subkey, signed by another keyring key, counts as valid (the XXX at `validate.c:361`). |
| `keygen` | `TypeOK`, `SelfCertHashMeetsCurve`, `KeyGenImplementsAbstract` | pass, ~357k states. Every request over the bounds below, with every allocation and generation failure. `pgp_generate_keypair` refines AbstractKeyGen: every call ends, either failed or with a pair of the asked algorithms. The flags are exactly those asked for (or the spec's defaults), within the algorithms' capabilities, on a certify-capable primary. An ECDSA primary on a NIST curve certifies itself with a long enough digest. |
| `sign` | `TypeOK`, `BadPasswordAfterAllAttempts`, `PassInfoAddedWhole`, `StreamsTypeOK`, `StreamReturnsClean`, `FilesChangedOnlyAsAgreed`, `DecryptedKeyFreed`, `Terminates` | pass, ~1.5M states, under `SessionSpec`, about 1 minute. After the signing call, one stream call runs on the context: encrypt, armour or process, to stdout or either path, with or without `ctx->overwrite`, with any user replies and any failure. It closes what it opened on every exit and leaves no half-written file. A successful file transformation leaves its output in the file the user settled on. A file that existed is removed only with the flag or the user's yes for that very file. Up to two `rnp_encrypt_add_password` calls, failing at any step, run on the same context: each adds one pass info with a derived key exactly when it reports success, and wipes its stack password and info on return. For limits of none, 0, 1 and 3 attempts, with or without ssh keys, locked or not, and every sequence of provider answers:<br>- "Bad password" comes only after exactly `pswdtries` prompts (none for an unlocked key or `pswdtries = 0`);<br>- a locked key is signed with only in its decrypted form;<br>- that copy is freed on every exit and never overwritten while live;<br>- with a finite limit the call always returns. |
| `keystore` | `TypeOK`, `GripsUnique`, `KeyStoreImplementsAbstract` | pass, 880 states. Import of either file into each of 4 keyrings, and generation, with allocation failures, write failures and array moves. No keyring ever holds two keys with one grip. As sets of keys, the calls implement AbstractKeyring: only the call's keys are added, and a true return has all of them in place (including a new subkey of a present primary) with both keyrings saved. Every call returns. |
| `keystore_stale` | `SubkeyRefsInOwnStore` | violation: the subkey add moves the array, the fix-up through `importedkey` is lost, and the imported primary points into the freed temporary store. |
| `keystore_generate` | `SubkeyRefsInOwnStore` | violation: after a successful generation, both stored primaries point at `rnp_generate_key`'s stack. |

Five properties are stated but have no run in the list:
- `SuccessMeansEverySignatureValid` (ValidateData) fails when an allocation
  failure in `add_sig_to_list` drops a bad signature.
- `BindingHashMeetsCurve` (KeyGen) fails at once. The binding is signed by
  the primary with the subkey's hash, so an ECDSA P-256 primary with an RSA
  subkey asked for SHA-1 signs the binding with SHA-1 (`generate-key.c:510`).
- `NewSubkeysLinked` (KeyStore) fails when `P, S2` is imported into a
  keyring that holds `P, S1`: `S2` is added unlinked (`rnp.c:990`). Its cfg
  was retired to make room for the `sign` run.

- `ReleasedOnReturn` (ValidateData) fails when `pgp_memory_new` fails after
  the reader is set up. It also fails on every `--cat -` (standard output
  closed) and `--cat file` (descriptor never closed).
- `DerivedKeysGoneAtEnd` (Context) fails after one successful
  `rnp_encrypt_add_password`: the pass infos outlive the context.

All five are listed among the hazards.

`PROJECT.json` lists each violation as a finding, a mutant for every property
of every passing run, and the hazards with the properties that cover them.

Bounds:
- Packet streams of 4 are enough to reach every ordering the properties
  distinguish: two signatures on one key, a key after a signature, a subkey
  replacing a subkey, an attribute then a user id then a certification.
- ValidateData has 7 signature shapes: good, expired, future, over other data,
  unknown signer, bad version, non-binary type. `outsize` is 0 or 1 chunk.
  With 0, any verified output is longer than the buffer; with 1, a message
  of one chunk fits and a longer one does not. The write loop sees every
  split of up to 4 chunks into partial writes.
- Context allows two `rnp_encrypt_add_password` calls. That is enough for a
  success followed by a failure at each step, and for the reverse.
- KeyStore has one primary with two subkeys. That is enough for a multi-add
  import that can move the array, and for a merge of a new subkey.
- KeyGen's requests:
  - primary: 5 algorithms (unset, RSA, ECDSA, ECDH which cannot certify,
    EdDSA), 3 hashes (unset, SHA-1 below every minimum, SHA-384 between the
    P-384 and P-521 minimums), the 3 NIST curves and unset, 3 flag sets,
    user id and preferences each set or unset;
  - subkey: 4 algorithms, 2 hashes, 2 curves, 3 flag sets.

  Every default branch, every curve adjustment and every validation failure
  is reached. This is 34,560 initial states.
- Allocation failure is always enabled in the pass runs. It is disabled in the
  violation runs, so their traces show the failure that is not about
  allocation.

- Streams: two paths, one existing, and stdout. The user may type one new
  name. That reaches a second prompt for the existing file, a switch to the
  free one, and every failure at each step.

- Sign: the limits are none, 0 (the loop never runs), 1 and the library
  default of 3. `MaxPrompts = 4` lies above every finite limit, so it cuts
  only the endless loop of the unlimited setting.

Fairness and deadlock: every model is of one call that runs to completion
(one parse, one import, one generate, one sign, one verify), or of a short
series of calls on one context (in MCSign: password additions, one signing
call, one stream call). Each cfg says
`CHECK_DEADLOCK FALSE`, because the final states (`ended`, `done`, `failed`)
really are the end of the call.

Weak fairness is assumed only where a liveness property is checked: the
KeyGen and KeyStore refinements and Sign. There it stands for one thread running its call
to the end. Every failure or success of code outside `src/` is chosen inside
an action, never by fairness. So `Terminates` holds however often the
password provider fails. It is stated only for a finite limit: with
`INFINITE_ATTEMPTS` the code loops until the provider succeeds, and the model
keeps that loop. `MaxPrompts` does not cut it, because prompts are not
counted under that setting.

## Not modelled

- Key listing, JSON formatting, export and ssh key output (`rnp.c`): text and
  I/O only.
- Library setup (`rnp_init`, `init_io`, `rnp_end`): one-shot configuration
  of handles no modelled operation reads. A model of it could state only
  leaks: the io struct on a `set_pass_fd` failure, and `passfp`,
  `user_input_fp` and the results file never closed.
- Encrypt/decrypt of files and memory (`rnp_encrypt_file`,
  `rnp_decrypt_file`, `rnp_encrypt_memory`, `rnp_decrypt_memory`): they
  check arguments and hand over to `pgp_*` functions that are not in
  `src/`.
- The parse handler's providers (`rnp_parse_handler_dest`,
  `rnp_parse_handler_src`): `process_pgp_source` calls them, and it is not
  in `src/`. Streams treats the outputs of `rnp_process_stream` as the
  parser's own.
- File name lengths, apart from the too-long checks of
  `rnp_process_stream`. The cut-off at exactly `PATH_MAX` and the suffix
  that `rnp_encrypt_file` truncates are listed as hazards.
- Buffer ownership in the verify front ends (which of `signedmem`, `cat` and
  `data->mem` is freed): it depends on `pgp_teardown_memory_read`, which is
  not in `src/`.
- S2K key derivation (simple, salted, iterated hashing): a crypto
  primitive whose code is not in `src/`.
- The packet parser, armour and cryptographic primitives: not in `src/`. They
  appear as the environment and as payload equality.

## Plan for further work

1. `KeyReader`: the byte-level replay of `key_reader`, composed with
   `KeyringRead`. A key left without raw packets by a parser error makes it
   read `packets[0]`. This needs the parser's read sizes, which are not in
   `src/`; it would be modelled as a nondeterministic request length.
2. Give `BindingHashMeetsCurve` a run in place of a weaker violation run.
   Compose `KeyGen` with `KeyStore`, so that the generated structs
   `KeyStore` adds are the ones `KeyGen` produces.
3. Extend AbstractKeyring with the subkey relation, once the keyring's
   links can be mapped (they cannot be in the states `SubkeyRefsInOwnStore`
   rejects).
4. Model the old file's fate in `Streams`. An agreed overwrite unlinks the
   file before anything is written, so a failed transformation leaves
   neither file. This would be a property for a run slot, if the project
   decides that this behaviour is a defect.
