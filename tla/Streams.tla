------------------------------- MODULE Streams -------------------------------
(***************************************************************************)
(* The stream front ends of src/src/lib/rnp.c: rnp_encrypt_stream and     *)
(* rnp_armor_stream open the input (rnp_initialize_input), then the output *)
(* (rnp_initialize_output: stdout, or a file whose name                    *)
(* rnp_get_output_filename settles with the user when it exists already), *)
(* transform one into the other and close both, discarding the output     *)
(* when the transformation failed; rnp_process_stream opens the input,     *)
(* allocates the parse handler and its parameters, copies the paths into   *)
(* them and runs the parser, which opens outputs itself.                   *)
(*                                                                         *)
(* Sources, destinations, the user's replies, rnp_encrypt_src,             *)
(* rnp_armor_source / rnp_dearmor_source and process_pgp_source are not in *)
(* src/: each outcome is a nondeterministic choice. A file is abstracted   *)
(* to what it holds: "absent", "old" (there before the call), "partial"   *)
(* (created, being written) or "new" (the finished output). dst_close with *)
(* discard removes the file it created.                                    *)
(***************************************************************************)
EXTENDS Integers

CONSTANTS
  Paths,        \* file names the output argument and the user may give
  Existing,     \* the files that exist before the call
  StreamCalls,  \* "rnp_encrypt_stream", "rnp_armor_stream", "rnp_process_stream"
  MaxAsks       \* new names the user may type before the bound stops the model

VARIABLES
  scall,      \* the call made
  sout,       \* its out argument: "stdout" (NULL, "" or "-") or a path
  overwrite,  \* ctx->overwrite
  longpath,   \* rnp_process_stream: "none", or the argument longer than its param field: "in", "out"
  spc,        \* "idle", "input", "alloc", "name", "newname", "open", "stdout", "transform", "returned"
  sres,       \* the rnp_result_t returned
  src,        \* the source: "none", "open", "closed"
  dst,        \* the destination: "none", "file", "stdout", "closed"
  target,     \* newpath of rnp_get_output_filename
  fs,         \* the files: Paths -> what each holds
  agreed,     \* history: files the user agreed to overwrite
  asks        \* new names typed so far

svars == <<scall, sout, overwrite, longpath, spc, sres, src, dst, target, fs, agreed, asks>>

SInit ==
  /\ scall = "none"
  /\ sout = "stdout"
  /\ overwrite = FALSE
  /\ longpath = "none"
  /\ spc = "idle"
  /\ sres = "none"
  /\ src = "none"
  /\ dst = "none"
  /\ target = "stdout"
  /\ fs = [p \in Paths |-> IF p \in Existing THEN "old" ELSE "absent"]
  /\ agreed = {}
  /\ asks = 0

StreamReturn(r) == sres' = r /\ spc' = "returned"

(* The call, its arguments and ctx->overwrite, then rnp_initialize_input: *)
(* init_stdin_src or init_file_src; a failure returns RNP_ERROR_READ with  *)
(* nothing opened.                                                         *)
InitializeInput ==
  /\ spc = "idle"
  /\ \E c \in StreamCalls, o \in {"stdout"} \cup Paths, ow \in BOOLEAN,
        lp \in {"none", "in", "out"} :
       /\ scall' = c
       /\ sout' = o
       /\ target' = o
       /\ overwrite' = ow
       /\ longpath' = IF c = "rnp_process_stream" THEN lp ELSE "none"
       /\ \/ /\ StreamReturn("RNP_ERROR_READ")
             /\ UNCHANGED src
          \/ /\ src' = "open"
             /\ spc' = CASE c = "rnp_process_stream" -> "alloc"
                         [] o = "stdout"              -> "stdout"
                         [] OTHER                     -> "name"
             /\ UNCHANGED sres
  /\ UNCHANGED <<dst, fs, agreed, asks>>

(* Mutant: the output failure returns without src_close.                   *)
OutputFailedNoClose ==
  /\ UNCHANGED src
  /\ StreamReturn("RNP_ERROR_WRITE")

(* rnp_initialize_output returned false: the caller closes the source and *)
(* returns RNP_ERROR_WRITE.                                                *)
OutputFailed ==
  /\ src' = "closed"
  /\ StreamReturn("RNP_ERROR_WRITE")

(* init_stdout_dest.                                                       *)
InitializeStdout ==
  /\ spc = "stdout"
  /\ \/ OutputFailed /\ UNCHANGED dst
     \/ /\ dst' = "stdout"
        /\ spc' = "transform"
        /\ UNCHANGED <<src, sres>>
  /\ UNCHANGED <<scall, sout, overwrite, longpath, target, fs, agreed, asks>>

(* Mutant: the file is unlinked before the reply is looked at, so asking  *)
(* for a new name leaves the old one removed.                              *)
CheckNameUnlinkFirst ==
  /\ spc = "name"
  /\ \/ /\ fs[target] = "absent"
        /\ spc' = "open"
        /\ UNCHANGED <<src, sres, fs, agreed>>
     \/ /\ fs[target] # "absent" /\ overwrite
        /\ fs' = [fs EXCEPT ![target] = "absent"]
        /\ spc' = "open"
        /\ UNCHANGED <<src, sres, agreed>>
     \/ /\ fs[target] # "absent" /\ ~overwrite
        /\ \/ /\ OutputFailed
              /\ UNCHANGED <<fs, agreed>>
           \/ /\ fs' = [fs EXCEPT ![target] = "absent"]
              /\ agreed' = agreed \cup {target}
              /\ spc' = "open"
              /\ UNCHANGED <<src, sres>>
           \/ /\ fs' = [fs EXCEPT ![target] = "absent"]
              /\ spc' = "newname"
              /\ UNCHANGED <<src, sres, agreed>>
  /\ UNCHANGED <<scall, sout, overwrite, longpath, dst, target, asks>>

(* One turn of the loop of rnp_get_output_filename for newpath: a name   *)
(* that does not exist is taken; an existing one is unlinked with         *)
(* ctx->overwrite; otherwise the user is asked: end of input fails, a     *)
(* reply starting with y or Y unlinks it, any other reply asks for a new  *)
(* name.                                                                   *)
CheckName ==
  /\ spc = "name"
  /\ \/ /\ fs[target] = "absent"
        /\ spc' = "open"
        /\ UNCHANGED <<src, sres, fs, agreed>>
     \/ /\ fs[target] # "absent" /\ overwrite
        /\ fs' = [fs EXCEPT ![target] = "absent"]
        /\ spc' = "open"
        /\ UNCHANGED <<src, sres, agreed>>
     \/ /\ fs[target] # "absent" /\ ~overwrite
        /\ \/ /\ OutputFailed
              /\ UNCHANGED <<fs, agreed>>
           \/ /\ fs' = [fs EXCEPT ![target] = "absent"]
              /\ agreed' = agreed \cup {target}
              /\ spc' = "open"
              /\ UNCHANGED <<src, sres>>
           \/ /\ spc' = "newname"
              /\ UNCHANGED <<src, sres, fs, agreed>>
  /\ UNCHANGED <<scall, sout, overwrite, longpath, dst, target, asks>>

(* Mutant: an empty new name is not refused and goes round the loop.      *)
NewNameNoEmptyCheck ==
  /\ spc = "newname"
  /\ \/ OutputFailed /\ UNCHANGED <<target, asks>>
     \/ /\ asks < MaxAsks
        /\ \E p \in Paths \cup {""} : target' = p
        /\ asks' = asks + 1
        /\ spc' = "name"
        /\ UNCHANGED <<src, sres>>
  /\ UNCHANGED <<scall, sout, overwrite, longpath, dst, fs, agreed>>

(* "Please enter the new filename": end of input or an empty name fails;  *)
(* otherwise the loop checks the new name.                                 *)
NewName ==
  /\ spc = "newname"
  /\ \/ OutputFailed /\ UNCHANGED <<target, asks>>
     \/ /\ asks < MaxAsks
        /\ \E p \in Paths : target' = p
        /\ asks' = asks + 1
        /\ spc' = "name"
        /\ UNCHANGED <<src, sres>>
  /\ UNCHANGED <<scall, sout, overwrite, longpath, dst, fs, agreed>>

(* init_file_dest(dst, newname, false) creates the file or fails.          *)
OpenFile ==
  /\ spc = "open"
  /\ \/ OutputFailed /\ UNCHANGED <<dst, fs>>
     \/ /\ dst' = "file"
        /\ fs' = [fs EXCEPT ![target] = "partial"]
        /\ spc' = "transform"
        /\ UNCHANGED <<src, sres>>
  /\ UNCHANGED <<scall, sout, overwrite, longpath, target, agreed, asks>>

(* finish: src_close, then dst_close(&dst, result != RNP_SUCCESS), which   *)
(* removes a file it created unless the result is a success.               *)
Finish(r) ==
  /\ StreamReturn(r)
  /\ src' = "closed"
  /\ dst' = "closed"
  /\ fs' = IF dst = "file"
             THEN [fs EXCEPT ![target] = IF r = "RNP_SUCCESS" THEN "new" ELSE "absent"]
             ELSE fs

(* rnp_encrypt_stream after its output is open: the handler is allocated  *)
(* (RNP_ERROR_OUT_OF_MEMORY when calloc fails) and rnp_encrypt_src run;    *)
(* rnp_armor_stream runs rnp_armor_source or rnp_dearmor_source.           *)
Transform ==
  /\ spc = "transform"
  /\ \E r \in IF scall = "rnp_encrypt_stream"
                THEN {"RNP_SUCCESS", "RNP_ERROR_GENERIC", "RNP_ERROR_OUT_OF_MEMORY"}
                ELSE {"RNP_SUCCESS", "RNP_ERROR_GENERIC"} :
       Finish(r)
  /\ UNCHANGED <<scall, sout, overwrite, longpath, target, agreed, asks>>

(* rnp_process_stream after its input is open: calloc of the handler and   *)
(* of param (RNP_ERROR_OUT_OF_MEMORY), the length checks of in             *)
(* (RNP_ERROR_BAD_PARAMETERS) and out (RNP_ERROR_GENERIC), then            *)
(* process_pgp_source; every exit goes through finish: src_close and the   *)
(* two frees. The outputs the parser opens are its own.                    *)
ProcessStream ==
  /\ spc = "alloc"
  /\ \E r \in CASE longpath = "in"  -> {"RNP_ERROR_OUT_OF_MEMORY", "RNP_ERROR_BAD_PARAMETERS"}
               [] longpath = "out" -> {"RNP_ERROR_OUT_OF_MEMORY", "RNP_ERROR_GENERIC"}
               [] OTHER            -> {"RNP_ERROR_OUT_OF_MEMORY", "RNP_SUCCESS", "RNP_ERROR_GENERIC"} :
       /\ StreamReturn(r)
       /\ src' = "closed"
  /\ UNCHANGED <<scall, sout, overwrite, longpath, dst, target, fs, agreed, asks>>

SNext ==
  \/ InitializeInput
  \/ InitializeStdout
  \/ CheckName
  \/ NewName
  \/ OpenFile
  \/ Transform
  \/ ProcessStream

-----------------------------------------------------------------------------
StreamsTypeOK ==
  /\ scall \in {"none"} \cup StreamCalls
  /\ sout \in {"stdout"} \cup Paths
  /\ overwrite \in BOOLEAN
  /\ longpath \in {"none", "in", "out"}
  /\ spc \in {"idle", "alloc", "name", "newname", "open", "stdout", "transform", "returned"}
  /\ src \in {"none", "open", "closed"}
  /\ dst \in {"none", "file", "stdout", "closed"}
  /\ target \in {"stdout"} \cup Paths
  /\ fs \in [Paths -> {"absent", "old", "partial", "new"}]
  /\ agreed \subseteq Paths
  /\ asks \in 0..MaxAsks

(* Every return path of rnp_encrypt_stream, rnp_armor_stream and          *)
(* rnp_process_stream (the early returns on an input or output failure,    *)
(* the goto finish after a failed calloc, the parser's or the             *)
(* transformation's failure) closes the source and the destination it     *)
(* opened, leaves no half-written file behind, and a file transformation  *)
(* that reports success has its output in the file the user settled on.   *)
StreamReturnsClean ==
  spc = "returned" =>
    /\ src # "open"
    /\ dst \in {"none", "closed"}
    /\ \A p \in Paths : fs[p] # "partial"
    /\ (sres = "RNP_SUCCESS" /\ scall # "rnp_process_stream" /\ sout # "stdout") =>
         fs[target] = "new"

(* rnp_get_output_filename removes a file that was there before only when  *)
(* ctx->overwrite is set or the user answered yes for that very file,      *)
(* however many new names they typed; and the call writes to no file but   *)
(* the one finally settled on.                                             *)
FilesChangedOnlyAsAgreed ==
  \A p \in Paths :
    /\ (p \in Existing /\ fs[p] # "old") => (overwrite \/ p \in agreed)
    /\ fs[p] \in {"partial", "new"} => p = target
=============================================================================
