--------------------------- MODULE AbstractKeyring ---------------------------
(***************************************************************************)
(* What importing a key file and generating a key pair promise for the     *)
(* keyrings, seen as sets of keys (spec 3, 4.2 and 4.5), with the pointer  *)
(* structure left out: the call adds the keys it is about (the file's keys *)
(* to the keyring each belongs in, the generated primary and subkey to    *)
(* both keyrings) one at a time and nothing else; keys already present    *)
(* stay; each keyring is saved as it is in memory; it succeeds only when   *)
(* every key is in place and both keyrings are saved, and it may fail at  *)
(* any point, leaving what was done so far. Every call returns.           *)
(***************************************************************************)
CONSTANTS
  Ops,           \* "import", "generate"
  FileGrips,     \* possible sets of grips of an imported file
  SecretInFile,  \* grips of the file whose key is secret
  GenKeys,       \* grips of the generated primary and subkey
  InitPub        \* possible sets of grips of the public keyring at start

Rings == {"pub", "sec"}

VARIABLES
  op,       \* the call: "import" or "generate"
  file,     \* the grips of the imported file
  ring,     \* ring[s]: the grips of keyring s in memory
  disk,     \* disk[s]: the grips of keyring s as saved
  outcome   \* "pending", "done" or "failed"

avars == <<op, file, ring, disk, outcome>>

(* The keyrings key g of the call belongs in.                              *)
Targets(g) ==
  IF op = "generate" THEN Rings
  ELSE IF g \in SecretInFile THEN {"sec"} ELSE {"pub"}

Wanted == IF op = "import" THEN file ELSE GenKeys

(* Every key of the call is in each keyring it belongs in.                 *)
Complete == \A g \in Wanted : \A s \in Targets(g) : g \in ring[s]

Init ==
  /\ op \in Ops
  /\ file \in FileGrips
  /\ \E pub \in InitPub : ring = [s \in Rings |-> IF s = "pub" THEN pub ELSE {}]
  /\ disk = ring
  /\ outcome = "pending"

(* One key of the call is added to a keyring it belongs in.                *)
Add ==
  /\ outcome = "pending"
  /\ \E g \in Wanted, s \in Rings :
       /\ s \in Targets(g)
       /\ g \notin ring[s]
       /\ ring' = [ring EXCEPT ![s] = @ \cup {g}]
  /\ UNCHANGED <<op, file, disk, outcome>>

(* A keyring is saved.                                                     *)
Save ==
  /\ outcome = "pending"
  /\ \E s \in Rings : disk' = [disk EXCEPT ![s] = ring[s]]
  /\ UNCHANGED <<op, file, ring, outcome>>

(* The last save, of a complete call whose other keyring is saved as it   *)
(* is, returns success.                                                    *)
SaveAndReturn ==
  /\ outcome = "pending"
  /\ Complete
  /\ \E s \in Rings :
       /\ \A t \in Rings \ {s} : disk[t] = ring[t]
       /\ disk' = [disk EXCEPT ![s] = ring[s]]
  /\ outcome' = "done"
  /\ UNCHANGED <<op, file, ring>>

(* The call fails, leaving the keyrings as they are.                       *)
Fail ==
  /\ outcome = "pending"
  /\ outcome' = "failed"
  /\ UNCHANGED <<op, file, ring, disk>>

ANext == Add \/ Save \/ SaveAndReturn \/ Fail

Spec == Init /\ [][ANext]_avars /\ WF_avars(ANext)
=============================================================================
