-------------------------------- MODULE Verify --------------------------------
(***************************************************************************)
(* The verify front ends of src/src/lib/rnp.c, the only callers of the    *)
(* two entry points of ValidateData: rnp_verify_file hands a file name and *)
(* an optional --cat outfile to pgp_validate_file and turns its verdict    *)
(* into an rnp result code; rnp_verify_memory copies the caller's buffer   *)
(* into signedmem, lets pgp_validate_mem hand the accumulated data out     *)
(* through cat, and on success copies MIN(pgp_mem_len(cat), outsize) of it *)
(* into out and returns that count (1 without out), else 0.                *)
(*                                                                         *)
(* A call starts with the allocations of the front end, then runs          *)
(* ValidateData's steps until the entry point returns, then returns.      *)
(***************************************************************************)
EXTENDS ValidateData

CONSTANTS
  Calls,     \* "rnp_verify_file", "rnp_verify_memory"
  OutSizes   \* values of outsize, counted in data chunks

VARIABLES
  vcall,     \* the front end called
  vstate,    \* "start", "validating" (inside pgp_validate_*), "returned"
  code,      \* the rnp_result_t rnp_verify_file returns
  count,     \* the int rnp_verify_memory returns
  outsize,   \* the size of the caller's out buffer (0: rnp_verify_file has none)
  outbuf     \* what rnp_verify_memory copied into out

fvars == <<vcall, vstate, code, count, outsize, outbuf>>

(* The entry point and output each front end asks for: rnp_verify_file     *)
(* passes its out name on (NULL, "-" or a path), rnp_verify_memory passes  *)
(* &cat exactly when out is not NULL.                                      *)
ApiOf(c) == IF c = "rnp_verify_file" THEN "file" ELSE "mem"

VerifyInit ==
  /\ Init
  /\ vcall \in Calls
  /\ api = ApiOf(vcall)
  /\ vstate = "start"
  /\ code = "none"
  /\ count = 0
  /\ outsize \in IF vcall = "rnp_verify_memory" THEN OutSizes ELSE {0}
  /\ outbuf = <<>>

(* rnp_verify_file up to pgp_validate_file: isarmored returns -1 only when *)
(* regcomp fails (an allocation failure), which is reported as an invalid  *)
(* signature.                                                              *)
VerifyFileStart ==
  /\ vstate = "start" /\ vcall = "rnp_verify_file"
  /\ \/ /\ AllocCanFail
        /\ vstate' = "returned"
        /\ code' = "RNP_ERROR_SIGNATURE_INVALID"
     \/ /\ vstate' = "validating"
        /\ UNCHANGED code
  /\ UNCHANGED <<vars, vcall, count, outsize, outbuf>>

(* rnp_verify_file after pgp_validate_file: success or invalid signature. *)
VerifyFileReturn ==
  /\ vstate = "validating" /\ vcall = "rnp_verify_file" /\ phase = "done"
  /\ vstate' = "returned"
  /\ code' = IF ret THEN "RNP_SUCCESS" ELSE "RNP_ERROR_SIGNATURE_INVALID"
  /\ UNCHANGED <<vars, vcall, count, outsize, outbuf>>

(* rnp_verify_memory up to pgp_validate_mem: pgp_memory_new for signedmem, *)
(* pgp_memory_add of the input and, with out, pgp_memory_new for cat may   *)
(* each fail, returning 0.                                                 *)
VerifyMemoryStart ==
  /\ vstate = "start" /\ vcall = "rnp_verify_memory"
  /\ \/ /\ AllocCanFail
        /\ vstate' = "returned"
     \/ vstate' = "validating"
  /\ UNCHANGED <<vars, vcall, code, count, outsize, outbuf>>

(* rnp_verify_memory after pgp_validate_mem: on success the first          *)
(* MIN(pgp_mem_len(cat), outsize) chunks of cat are copied to out and      *)
(* their number returned (1 when there is no out); on failure 0.           *)
VerifyMemoryReturn ==
  /\ vstate = "validating" /\ vcall = "rnp_verify_memory" /\ phase = "done"
  /\ vstate' = "returned"
  /\ IF ret /\ out = "cat"
       THEN LET m == IF Len(written) < outsize THEN Len(written) ELSE outsize
            IN /\ outbuf' = SubSeq(written, 1, m)
               /\ count' = m
       ELSE /\ count' = IF ret THEN 1 ELSE 0
            /\ UNCHANGED outbuf
  /\ UNCHANGED <<vars, vcall, code, outsize>>

(* A step of pgp_validate_file / pgp_validate_mem while the front end      *)
(* waits for it.                                                           *)
Validating ==
  /\ vstate = "validating"
  /\ Next
  /\ UNCHANGED fvars

VerifyNext ==
  \/ VerifyFileStart
  \/ VerifyFileReturn
  \/ VerifyMemoryStart
  \/ VerifyMemoryReturn
  \/ Validating

VerifySpec == VerifyInit /\ [][VerifyNext]_<<vars, fvars>>

=============================================================================
