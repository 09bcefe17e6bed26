----------------------------- MODULE MCKeyStore -----------------------------
(* A primary P with subkeys S1 and S2. The public keyring starts with none *)
(* of them, P alone, P and S1, or all three; the imported file holds the   *)
(* whole key or P with S2 only. Generation makes G with subkey GS.         *)
EXTENDS KeyStore

CONSTANTS P, S1, S2, G, GS

MCPrimaryOf == [g \in {P, S1, S2} |-> IF g = P THEN None ELSE P]
MCStoreOrder == <<P, S1, S2>>
MCInitPub == {{}, {P}, {P, S1}, {P, S1, S2}}
MCFiles == {<<P, S1, S2>>, <<P, S2>>}
=============================================================================
