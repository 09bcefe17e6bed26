--------------------------- MODULE AbstractKeyGen ---------------------------
(***************************************************************************)
(* What key pair generation promises (spec 4.5 and the Policy errors of    *)
(* spec 8), with no steps in between: a request either fails, or yields a  *)
(* primary key and a subkey whose algorithms are those asked for, whose    *)
(* usage flags are non-empty and within the algorithm's capabilities, are  *)
(* exactly the flags asked for when some were given, and are sign+certify  *)
(* and encrypt when none were given for either key; the primary can       *)
(* certify. Every request is eventually answered.                          *)
(*                                                                         *)
(* The spec leaves open which flags a key gets when flags were given for   *)
(* the other key only: any allowed set is accepted.                        *)
(***************************************************************************)
CONSTANTS
  PrimaryRequests,   \* primary key requests
  SubkeyRequests,    \* subkey requests
  Algs,              \* public key algorithms, "NONE" for unset
  Capabilities(_)    \* usage flags each algorithm supports

VARIABLES
  request,   \* [primary, subkey]: the two requests
  outcome,   \* "pending", "done" or "failed"
  pair       \* {} until done, then the one generated pair

avars == <<request, outcome, pair>>

(* The flags a key may end up with: mine asked for, other asked for the    *)
(* other key, dflt the spec's default, alg the key's algorithm.            *)
AllowedFlags(mine, other, dflt, alg) ==
  {f \in SUBSET Capabilities(alg) :
     /\ f # {}
     /\ mine # {} => f = mine
     /\ mine = {} /\ other = {} => f = dflt}

(* An algorithm asked for is kept; an unset one may become any.            *)
AllowedAlgs(asked) == IF asked = "NONE" THEN Algs \ {"NONE"} ELSE {asked}

(* A key that may be generated for request mine when the other key's      *)
(* request is other, with the spec's default flags dflt.                   *)
GeneratedKeys(mine, other, dflt) ==
  UNION {{[alg |-> a, flags |-> f] : f \in AllowedFlags(mine.key_flags, other.key_flags, dflt, a)} :
           a \in AllowedAlgs(mine.key_alg)}

(* The pairs a request may produce: the primary must be able to certify.   *)
Pairs(r) ==
  {p \in [primary : GeneratedKeys(r.primary, r.subkey, {"SIGN", "CERTIFY"}),
          subkey : GeneratedKeys(r.subkey, r.primary, {"ENCRYPT"})] :
     "CERTIFY" \in Capabilities(p.primary.alg)}

Init ==
  /\ request \in [primary : PrimaryRequests, subkey : SubkeyRequests]
  /\ outcome = "pending"
  /\ pair = {}

(* The request is refused, or generation fails.                            *)
Fail ==
  /\ outcome = "pending"
  /\ outcome' = "failed"
  /\ UNCHANGED <<request, pair>>

(* A pair is generated.                                                    *)
Generate ==
  /\ outcome = "pending"
  /\ \E p \in Pairs(request) : pair' = {p}
  /\ outcome' = "done"
  /\ UNCHANGED request

ANext == Fail \/ Generate

Spec == Init /\ [][ANext]_avars /\ WF_avars(ANext)
=============================================================================
