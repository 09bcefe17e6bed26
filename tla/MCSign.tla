------------------------------- MODULE MCSign -------------------------------
(* Bounds for Sign: no limit, no attempt at all, one, and the library     *)
(* default (MAX_PASSWORD_ATTEMPTS, 3) for rnp->pswdtries. The signing call *)
(* runs on an operation context (Context) that also takes up to two        *)
(* rnp_encrypt_add_password calls and one stream call (Streams) before it  *)
(* is freed or reset. One thread makes these calls: a call runs from its   *)
(* entry to its return before another starts, and a stream call needs a   *)
(* context that is initialised and not yet freed. Sign and Streams share  *)
(* no variable, so the stream call is made after the signing call: the    *)
(* other order yields the same behaviours of each of them. S2K brings the *)
(* iteration-count encoding that rnp_encrypt_set_pass_info applies.        *)
EXTENDS Sign, Context, Streams, S2K

MCInfinite == -1
MCAttemptSettings == {MCInfinite, 0, 1, 3}

(* Two output names, one of them an existing file.                         *)
CONSTANTS p1, p2
MCPaths == {p1, p2}
MCExisting == {p1}

SignBusy == pc \in {"loop", "sign"}
CtxBusy == cstate = "adding"
StreamBusy == spc \notin {"idle", "returned"}

SessionInit == Init /\ CInit /\ SInit

SessionNext ==
  \/ Next /\ ~CtxBusy /\ ~StreamBusy /\ UNCHANGED <<cvars, svars>>
  \/ CNext /\ ~SignBusy /\ ~StreamBusy /\ UNCHANGED <<vars, svars>>
  \/ SNext /\ pc = "done" /\ cstate = "ready" /\ UNCHANGED <<vars, cvars>>

(* One thread makes every call it has started return.                     *)
SessionSpec ==
  SessionInit /\ [][SessionNext]_<<vars, cvars, svars>> /\ WF_<<vars, cvars, svars>>(SessionNext)
=============================================================================
