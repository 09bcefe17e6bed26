---------------------------- MODULE ValidateData ----------------------------
(***************************************************************************)
(* Verification of a signed message or detached signature                  *)
(* (src/src/librepgp/validate.c): pgp_validate_file / pgp_validate_mem run *)
(* the parser over the input with validate_data_cb as callback. Literal    *)
(* and cleartext bodies are accumulated in data->mem; each signature packet *)
(* is looked up by issuer key id in the keyring, checked with              *)
(* check_binary_sig over the data accumulated so far, and appended to the  *)
(* valid, invalid or unknown list of the result. After the parse           *)
(* validate_result_status decides the overall verdict from the three       *)
(* counts and the birthtime/duration kept in the result.                   *)
(*                                                                         *)
(* Data is abstracted to a sequence of chunk values; a signature records   *)
(* the data its signer hashed ("over"), and check_binary_sig succeeds when *)
(* the version is one it can hash and the data it hashes is that data.    *)
(***************************************************************************)
EXTENDS Integers, Sequences, FiniteSets

CONSTANTS
  Keyring,       \* key ids for which the keyring holds a key
  Sigs,          \* signature packets the stream may carry (records)
  Chunks,        \* values of literal / cleartext body chunks
  DetachedData,  \* contents of the signed file next to a .sig/.asc file
  Detached,      \* TRUE: data->detachname is set (pgp_validate_file on x.sig)
  AllocCanFail,  \* TRUE: add_sig_to_list / pgp_memory_add may fail
  Now,           \* time(NULL) in validate_result_status
  MaxEvents,     \* packets in the stream
  Apis,          \* "file": pgp_validate_file, "mem": pgp_validate_mem
  Outputs,       \* outfile NULL ("none"), "-" ("stdout"), a path; *cat ("cat")
  IOCanFail,     \* TRUE: stat, the reader setup, open and write may fail
  None           \* model value: subpacket absent

(* A signature: issuer key id, signature type, version, the data its      *)
(* signer hashed, creation time and expiration (None when the subpacket    *)
(* is absent: birthtime_set / duration_set false).                         *)
ASSUME \A s \in Sigs :
  DOMAIN s = {"issuer", "type", "version", "over", "birthtime", "duration"}

VARIABLES
  mem,     \* data->mem: the data accumulated so far
  dtype,   \* data->type
  result,  \* the pgp_validation_t: valid/invalid/unknown lists, birthtime, duration
  errors,  \* error codes pushed with PGP_ERROR_1
  phase,   \* "parsing", then "done" once validate_result_status has run
  ret,     \* the verdict returned by pgp_validate_file / pgp_validate_mem
  nev,     \* packets emitted so far
  seen,    \* history: each signature with its list and the data it was checked over
  api,     \* the entry point called
  out,     \* where the verified data goes
  written, \* the data written to outfd, or handed out through *cat
  held,    \* resources the call holds: "stream" (reader set up), "outfd" (opened file)
  stdout   \* "open", or "closed" by the call

vars == <<mem, dtype, result, errors, phase, ret, nev, seen, api, out, written, held, stdout>>

(* The outputs each entry point takes: an outfile name, or a cat pointer.  *)
OutputsOf(a) == IF a = "file" THEN {"none", "stdout", "path"} ELSE {"none", "cat"}

(* data->detachname is set only by pgp_validate_file on a .sig/.asc name.  *)
Detachname == Detached /\ api = "file"

Init ==
  /\ api \in Apis
  /\ out \in Outputs \cap OutputsOf(api)
  /\ written = <<>>
  /\ held = {}
  /\ stdout = "open"
  /\ mem = <<>>
  /\ dtype = "none"
  /\ result = [valid |-> <<>>, invalid |-> <<>>, unknown |-> <<>>,
               birthtime |-> 0, duration |-> 0]
  /\ errors = {}
  /\ phase = "setup"
  /\ ret = FALSE
  /\ nev = 0
  /\ seen = <<>>

(* pgp_validate_file up to repgp_parse: stat of the input and              *)
(* pgp_setup_file_read may fail (return 0, nothing held); then             *)
(* pgp_memory_new may fail, and that return leaves the reader and the      *)
(* input descriptor set up.                                                *)
SetupFile ==
  /\ phase = "setup" /\ api = "file"
  /\ \/ /\ IOCanFail
        /\ phase' = "done"
        /\ UNCHANGED held
     \/ /\ AllocCanFail
        /\ phase' = "done"
        /\ held' = {"stream"}
     \/ /\ phase' = "parsing"
        /\ held' = {"stream"}
  /\ UNCHANGED <<mem, dtype, result, errors, ret, nev, seen, api, out, written, stdout>>

(* pgp_validate_mem up to repgp_parse: pgp_setup_memory_read may fail;     *)
(* then pgp_memory_new may fail, again leaving the reader set up.          *)
SetupMem ==
  /\ phase = "setup" /\ api = "mem"
  /\ \/ /\ IOCanFail
        /\ phase' = "done"
        /\ UNCHANGED held
     \/ /\ AllocCanFail
        /\ phase' = "done"
        /\ held' = {"stream"}
     \/ /\ phase' = "parsing"
        /\ held' = {"stream"}
  /\ UNCHANGED <<mem, dtype, result, errors, ret, nev, seen, api, out, written, stdout>>

Parsing ==
  /\ phase = "parsing"
  /\ nev < MaxEvents
  /\ nev' = nev + 1

(* PGP_PTAG_CT_LITDATA_BODY / PGP_PTAG_CT_SIGNED_CLEARTEXT_BODY: the body  *)
(* is appended to data->mem; an allocation failure drops it with an error. *)
Body(kind, c) ==
  /\ Parsing
  /\ dtype' = kind
  /\ \/ /\ mem' = Append(mem, c)
        /\ UNCHANGED errors
     \/ /\ AllocCanFail
        /\ errors' = errors \cup {"V_BAD_SIGNATURE"}
        /\ UNCHANGED mem
  /\ UNCHANGED <<result, phase, ret, seen, api, out, written, held, stdout>>

(* check_binary_sig: the hash covers the data and the version trailer      *)
(* (v3: type and creation time; v4: hashed subpackets and their length);   *)
(* any other version is rejected before hashing.                           *)
CheckBinarySig(data, s) ==
  /\ s.version \in {"V3", "V4"}
  /\ s.over = data

(* add_sig_to_list: the signature is appended to the list, or an           *)
(* allocation failure leaves the list as it was.                           *)
AddSigToList(list, s) ==
  IF AllocCanFail THEN {list, Append(list, s)} ELSE {Append(list, s)}

(* Mutant: birthtime and duration copied whether or not the subpacket was  *)
(* present (birthtime_set / duration_set not tested).                      *)
KnownSignatureCopyAlways(s) ==
  /\ s.issuer \in Keyring
  /\ \E data \in IF s.type \in {"BINARY", "TEXT"} /\ mem = <<>> /\ Detachname
                   THEN {DetachedData, <<>>}
                   ELSE {mem} :
       LET valid == s.type \in {"BINARY", "TEXT"} /\ CheckBinarySig(data, s)
           list == IF valid THEN "valid" ELSE "invalid"
       IN /\ mem' = data
          /\ \E l \in AddSigToList(result[list], s) :
               /\ result' = [result EXCEPT ![list] = l, !.birthtime = s.birthtime,
                                           !.duration = s.duration]
               /\ errors' = errors \cup
                    (IF valid /\ l # result[list] THEN {} ELSE {"V_BAD_SIGNATURE"}) \cup
                    (IF s.type \in {"BINARY", "TEXT"} THEN {} ELSE {"UNIMPLEMENTED"})
          /\ seen' = Append(seen, [sig |-> s, list |-> list, data |-> data])

(* A signature whose signer is in the keyring: birthtime and duration are  *)
(* copied into the result when set, binary/text signatures are checked     *)
(* over data->mem (read from the detached file first when nothing was      *)
(* accumulated), and the signature goes to the valid or the invalid list. *)
KnownSignature(s) ==
  /\ s.issuer \in Keyring
  /\ \E data \in IF s.type \in {"BINARY", "TEXT"} /\ mem = <<>> /\ Detachname
                   THEN {DetachedData, <<>>}
                   ELSE {mem} :
       LET valid == s.type \in {"BINARY", "TEXT"} /\ CheckBinarySig(data, s)
           list == IF valid THEN "valid" ELSE "invalid"
       IN /\ mem' = data
          /\ \E l \in AddSigToList(result[list], s) :
               /\ result' = [result EXCEPT
                               ![list] = l,
                               !.birthtime = IF s.birthtime = None THEN @ ELSE s.birthtime,
                               !.duration = IF s.duration = None THEN @ ELSE s.duration]
               /\ errors' = errors \cup
                    (IF valid /\ l # result[list] THEN {} ELSE {"V_BAD_SIGNATURE"}) \cup
                    (IF s.type \in {"BINARY", "TEXT"} THEN {} ELSE {"UNIMPLEMENTED"})
          /\ seen' = Append(seen, [sig |-> s, list |-> list, data |-> data])

(* A signature whose issuer key id is not in the keyring: appended to the  *)
(* unknown list with an error, nothing else.                               *)
UnknownSignature(s) ==
  /\ s.issuer \notin Keyring
  /\ \E l \in AddSigToList(result.unknown, s) : result' = [result EXCEPT !.unknown = l]
  /\ errors' = errors \cup {"V_UNKNOWN_SIGNER"}
  /\ seen' = Append(seen, [sig |-> s, list |-> "unknown", data |-> mem])
  /\ UNCHANGED mem

(* PGP_PTAG_CT_SIGNATURE (v3) / PGP_PTAG_CT_SIGNATURE_FOOTER (v4).         *)
Signature(s) ==
  /\ Parsing
  /\ KnownSignature(s) \/ UnknownSignature(s)
  /\ UNCHANGED <<dtype, phase, ret, api, out, written, held, stdout>>

(* Any packet the callback does not know: "No signature" error.            *)
OtherPacket ==
  /\ Parsing
  /\ errors' = errors \cup {"V_NO_SIGNATURE"}
  /\ UNCHANGED <<mem, dtype, result, phase, ret, seen, api, out, written, held, stdout>>

(* Mutant: the verdict without the requirement of a valid signature.      *)
ValidateResultStatusNoValidNeeded(r) ==
  /\ ~(Now < r.birthtime)
  /\ ~(r.duration # 0 /\ Now > r.birthtime + r.duration)
  /\ Len(r.invalid) = 0 /\ Len(r.unknown) = 0

(* validate_result_status: not yet valid, expired, else at least one valid *)
(* and no invalid or unknown signature.                                    *)
ValidateResultStatus(r) ==
  /\ ~(Now < r.birthtime)
  /\ ~(r.duration # 0 /\ Now > r.birthtime + r.duration)
  /\ Len(r.valid) > 0 /\ Len(r.invalid) = 0 /\ Len(r.unknown) = 0

(* pgp_validate_file after repgp_parse: the reader is torn down and the   *)
(* verdict computed; with an outfile (--cat) the output stage follows.     *)
FinishFile ==
  /\ phase = "parsing" /\ api = "file"
  /\ phase' = IF out = "none" THEN "done" ELSE "output"
  /\ ret' = ValidateResultStatus(result)
  /\ held' = held \ {"stream"}
  /\ UNCHANGED <<mem, dtype, result, errors, nev, seen, api, out, written, stdout>>

(* pgp_validate_mem after repgp_parse: the reader is torn down, data->mem  *)
(* is handed out through *cat whatever the verdict (or freed), and the     *)
(* verdict is returned.                                                    *)
FinishMem ==
  /\ phase = "parsing" /\ api = "mem"
  /\ phase' = "done"
  /\ ret' = ValidateResultStatus(result)
  /\ held' = held \ {"stream"}
  /\ written' = IF out = "cat" THEN mem ELSE <<>>
  /\ UNCHANGED <<mem, dtype, result, errors, nev, seen, api, out, stdout>>

(* The --cat output: outfd is STDOUT_FILENO for "-", else open(outfile),   *)
(* which may fail and turns the verdict into false. When the verdict is    *)
(* success data->mem is written; otherwise nothing is.                     *)
OpenOutput ==
  /\ phase = "output"
  /\ \/ /\ out = "path" /\ IOCanFail
        /\ ret' = FALSE
        /\ phase' = "closing"
        /\ UNCHANGED held
     \/ /\ held' = IF out = "path" THEN held \cup {"outfd"} ELSE held
        /\ phase' = IF ValidateResultStatus(result) /\ Len(mem) > 0
                    THEN "writing" ELSE "closing"
        /\ UNCHANGED ret
  /\ UNCHANGED <<mem, dtype, result, errors, nev, seen, api, out, written, stdout>>

(* Mutant: a short write ends the loop but leaves the verdict as it was.  *)
WriteChunkKeepRet ==
  /\ phase = "writing"
  /\ \/ \E k \in 1..(Len(mem) - Len(written)) :
          /\ written' = SubSeq(mem, 1, Len(written) + k)
          /\ phase' = IF Len(written') = Len(mem) THEN "closing" ELSE "writing"
     \/ /\ IOCanFail
        /\ phase' = "closing"
        /\ UNCHANGED written
  /\ UNCHANGED <<mem, dtype, result, errors, ret, nev, seen, api, out, held, stdout>>

(* One write(outfd, &cp[i], len - i): it writes some of what is left, or   *)
(* fails (short write), which makes the result false and ends the loop.    *)
WriteChunk ==
  /\ phase = "writing"
  /\ \/ \E k \in 1..(Len(mem) - Len(written)) :
          /\ written' = SubSeq(mem, 1, Len(written) + k)
          /\ phase' = IF Len(written') = Len(mem) THEN "closing" ELSE "writing"
          /\ UNCHANGED ret
     \/ /\ IOCanFail
        /\ ret' = FALSE
        /\ phase' = "closing"
        /\ UNCHANGED written
  /\ UNCHANGED <<mem, dtype, result, errors, nev, seen, api, out, held, stdout>>

(* The tidy-up closes outfd only when outfd > 0 and outfile is "-", that   *)
(* is it closes the caller's standard output, and leaves an opened         *)
(* outfile open.                                                           *)
CloseOutput ==
  /\ phase = "closing"
  /\ phase' = "done"
  /\ stdout' = IF out = "stdout" THEN "closed" ELSE stdout
  /\ UNCHANGED <<mem, dtype, result, errors, ret, nev, seen, api, out, written, held>>

Next ==
  \/ SetupFile
  \/ SetupMem
  \/ \E kind \in {"LITDATA", "SIGNED_CLEARTEXT"}, c \in Chunks : Body(kind, c)
  \/ \E s \in Sigs : Signature(s)
  \/ OtherPacket
  \/ FinishFile
  \/ FinishMem
  \/ OpenOutput
  \/ WriteChunk
  \/ CloseOutput

Spec == Init /\ [][Next]_vars

-----------------------------------------------------------------------------
(* Every variable has its type.                                            *)
TypeOK ==
  /\ mem \in Seq(Chunks)
  /\ dtype \in {"none", "LITDATA", "SIGNED_CLEARTEXT"}
  /\ \A l \in {"valid", "invalid", "unknown"} : result[l] \in Seq(Sigs)
  /\ result.birthtime \in Nat /\ result.duration \in Nat
  /\ errors \subseteq {"V_BAD_SIGNATURE", "V_UNKNOWN_SIGNER", "V_NO_SIGNATURE",
                       "UNIMPLEMENTED"}
  /\ phase \in {"setup", "parsing", "output", "writing", "closing", "done"}
  /\ ret \in BOOLEAN
  /\ nev \in 0..MaxEvents
  /\ api \in Apis /\ out \in OutputsOf(api)
  /\ written \in Seq(Chunks)
  /\ held \subseteq {"stream", "outfd"}
  /\ stdout \in {"open", "closed"}

(* A signature's own validity window (spec 7): not dated in the future,    *)
(* not past its expiration.                                                *)
InWindow(s) ==
  LET b == IF s.birthtime = None THEN 0 ELSE s.birthtime
      d == IF s.duration = None THEN 0 ELSE s.duration
  IN ~(Now < b) /\ ~(d # 0 /\ Now > b + d)

(* Spec 7 and 8: the overall verdict is success only when every signature *)
(* of the message was found valid (at least one, no invalid and no         *)
(* unknown-signer signature), whatever the order they came in.             *)
SuccessMeansEverySignatureValid ==
  (phase = "done" /\ ret) =>
    /\ seen # <<>>
    /\ \A i \in 1..Len(seen) : seen[i].list = "valid"

(* Spec 8: a successful verdict needs at least one signature made by a   *)
(* keyring key over exactly the data it was checked against; allocation   *)
(* failures in add_sig_to_list or pgp_memory_add never turn a message     *)
(* without one into a success.                                             *)
SuccessNeedsVerifiedSignature ==
  (phase = "done" /\ ret) =>
    \E i \in 1..Len(seen) :
      /\ seen[i].list = "valid"
      /\ seen[i].sig.issuer \in Keyring
      /\ seen[i].sig.over = seen[i].data

(* Spec 7: a signature dated in the future or past its expiration is       *)
(* reported as such: a successful verdict means every valid signature is   *)
(* inside its own validity window. validate_result_status only looks at   *)
(* the birthtime/duration the last signature with a known signer left in   *)
(* the result.                                                             *)
SuccessMeansEverySignatureInWindow ==
  (phase = "done" /\ ret) => \A i \in 1..Len(seen) : InWindow(seen[i].sig)

(* The data handed out as verified (written to outfd by --cat in          *)
(* pgp_validate_file, returned through *cat by pgp_validate_mem) when the  *)
(* verdict is success is exactly the data every valid signature covers:   *)
(* no body accumulated after a signature was checked reaches the caller.  *)
VerifiedOutputIsSigned ==
  (phase = "done" /\ ret /\ written # <<>>) =>
    \A i \in 1..Len(seen) : seen[i].list = "valid" => written = seen[i].data

(* pgp_validate_file's --cat output follows the verdict: data reaches      *)
(* outfd only for a message that verified, and the call returns success    *)
(* only when all of data->mem was written ("even if the signature was      *)
(* good, we can't write the file, so send back a bad return code"), over   *)
(* open failures, partial writes and failing writes.                       *)
OutputFollowsVerdict ==
  (phase = "done" /\ api = "file" /\ out # "none") =>
    /\ written # <<>> => ValidateResultStatus(result)
    /\ ret => written = mem

(* Every descriptor and reader the call set up is released when it         *)
(* returns, and the caller's standard output is left open.                 *)
ReleasedOnReturn ==
  phase = "done" => held = {} /\ stdout = "open"

=============================================================================
