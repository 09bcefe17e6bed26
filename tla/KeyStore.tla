------------------------------ MODULE KeyStore ------------------------------
(***************************************************************************)
(* One run of rnp_import_key or rnp_generate_key (src/src/lib/rnp.c) on    *)
(* the public and secret keyrings loaded in memory.                        *)
(*                                                                         *)
(* A key store is an array of key structs (keyring->keys) that            *)
(* rnp_key_store_add_key grows by copying the key in; a primary key's      *)
(* subkeys[] holds pointers to key structs. A pointer is modelled as       *)
(* [s: store, g: generation of the store's array, i: index], with i = 0    *)
(* for NULL: when add_key has to move the array (realloc), the generation  *)
(* changes and every pointer taken before into the old array dangles,      *)
(* except those add_key fixes up inside the store itself. The stack        *)
(* variables of rnp_generate_key are the store "stack".                    *)
(*                                                                         *)
(* rnp_key_store_add_key, _get_key_by_grip and _write_to_file are not in   *)
(* the repository's sources; they are modelled from spec 3 and 4.2.        *)
(***************************************************************************)
EXTENDS Integers, Sequences, SequencesExt

CONSTANTS
  Grips,         \* grips of keys in the keyrings or in the imported file
  PrimaryOf,     \* PrimaryOf[g]: the grip of the primary of subkey g, or None
  StoreOrder,    \* the order of Grips in a keyring loaded from disk
  InitPub,       \* possible sets of grips in the public keyring at start
  Files,         \* possible imported files: their keys' grips in file order
  SecretInFile,  \* grips of the file whose key is secret
  GenPrimary,    \* grip of the generated primary key
  GenSubkey,     \* grip of the generated subkey
  Ops,           \* operations a run may perform: "import", "generate"
  AllocCanFail,  \* TRUE: rnp_key_store_add_key may fail
  None

Stores == {"pub", "sec", "tmp"}

Ptr(s, g, i) == [s |-> s, g |-> g, i |-> i]

(* A keyring as loaded from the grips seq: each primary's subkeys[] points *)
(* at the subkeys that follow it.                                          *)
BuildStore(name, seq) ==
  [gen |-> 0,
   arr |-> [k \in 1..Len(seq) |->
              [grip |-> seq[k],
               subkeys |-> SelectSeq([m \in 1..Len(seq) |-> Ptr(name, 0, m)],
                                     LAMBDA p : PrimaryOf[seq[p.i]] = seq[k])]]]

(* What pgp_generate_subkey stores in the primaries' subkeys[]: the        *)
(* addresses &subkey_pub and &subkey_sec of rnp_generate_key's locals.     *)
SubkeyPubRef == Ptr("stack", 0, 4)

SubkeySecRef == Ptr("stack", 0, 2)

(* rnp_generate_key's four locals, in the order they are added.           *)
StackKeys ==
  <<[grip |-> GenPrimary, subkeys |-> <<SubkeySecRef>>],   \* primary_sec
    [grip |-> GenSubkey, subkeys |-> <<>>],                 \* subkey_sec
    [grip |-> GenPrimary, subkeys |-> <<SubkeyPubRef>>],   \* primary_pub
    [grip |-> GenSubkey, subkeys |-> <<>>]>>                \* subkey_pub

(* The order rnp_generate_key adds them: secring, secring, pubring, pubring.*)
GenAddStore == <<"sec", "sec", "pub", "pub">>

VARIABLES
  stores,       \* stores[s]: [arr, gen] of the pubring, secring, tmp_keystore
  disk,         \* grips of each keyring file on disk
  op,           \* the function running: "import" or "generate"
  pc,           \* the step of the running operation
  i,            \* loop index over tmp_keystore->keys / the key being added
  j,            \* loop index over key->subkeys
  importedkey,  \* the pointer importedkey of rnp_import_key
  ret           \* the return value

vars == <<stores, disk, op, pc, i, j, importedkey, ret>>

Grips0(st) == {st.arr[k].grip : k \in DOMAIN st.arr}

(* rnp_key_store_get_key_by_grip: index of the first key with that grip, 0 *)
(* (NULL) when none.                                                       *)
GetKeyByGrip(st, g) == SelectInSeq(st.arr, LAMBDA key : key.grip = g)

(* pgp_is_key_secret(key) ? rnp->secring : rnp->pubring                    *)
Dest(g) == IF g \in SecretInFile THEN "sec" ELSE "pub"

Init ==
  /\ \E pub \in InitPub, file \in Files :
       stores = [s \in Stores |->
                   CASE s = "pub" -> BuildStore("pub", SelectSeq(StoreOrder, LAMBDA g : g \in pub))
                     [] s = "sec" -> BuildStore("sec", <<>>)
                     [] s = "tmp" -> BuildStore("tmp", file)]
  /\ disk = [s \in {"pub", "sec"} |-> Grips0(stores[s])]
  /\ op \in Ops
  /\ pc = IF op = "import" THEN "import_load" ELSE "gen_keypair"
  /\ i = 1
  /\ j = 1
  /\ importedkey = Ptr("pub", 0, 0)
  /\ ret = FALSE

(* A pointer into the store's array taken at generation g0, after the     *)
(* array has moved to generation g1 and the store fixed it up.             *)
Rebase(p, name, g0, g1) ==
  IF p.s = name /\ p.g = g0 THEN [p EXCEPT !.g = g1] ELSE p

(* rnp_key_store_add_key: a copy of the key struct (its subkeys[] pointers *)
(* included) is appended; the array stays or moves, and when it moves the  *)
(* pointers the store's own keys hold into it are fixed up. It may fail on *)
(* allocation.                                                             *)
AddKey(st, name, key) ==
  {[ok |-> TRUE,
    st |-> [arr |-> [k \in 1..Len(st.arr) + 1 |->
                       LET kk == IF k <= Len(st.arr) THEN st.arr[k] ELSE key
                       IN [kk EXCEPT !.subkeys =
                             [m \in DOMAIN @ |-> Rebase(@[m], name, st.gen, g)]]],
            gen |-> g]] : g \in {st.gen, st.gen + 1}}
    \cup (IF AllocCanFail THEN {[ok |-> FALSE, st |-> st]} ELSE {})

Fail ==
  /\ pc' = "failed"
  /\ ret' = FALSE

-----------------------------------------------------------------------------
(* Mutant: the key is added without looking for it in the keyring.        *)
ImportKeyNoLookup ==
  /\ pc = "import_key"
  /\ i <= Len(stores.tmp.arr)
  /\ LET key == stores.tmp.arr[i]
         dest == Dest(key.grip)
     IN \E r \in AddKey(stores[dest], dest, key) :
          IF ~r.ok THEN Fail /\ UNCHANGED <<stores, i, j, importedkey>>
          ELSE /\ stores' = [stores EXCEPT ![dest] = r.st]
               /\ importedkey' = Ptr(dest, r.st.gen, GetKeyByGrip(r.st, key.grip))
               /\ j' = 1
               /\ pc' = "import_sub"
               /\ UNCHANGED <<i, ret>>
  /\ UNCHANGED <<disk>>

(* rnp_import_key, one iteration of the loop over tmp_keystore->keys: a key *)
(* already in its destination keyring is skipped; otherwise it is added,   *)
(* importedkey is looked up again, and the loop over its subkeys starts.   *)
ImportKey ==
  /\ pc = "import_key"
  /\ i <= Len(stores.tmp.arr)
  /\ LET key == stores.tmp.arr[i]
         dest == Dest(key.grip)
     IN IF GetKeyByGrip(stores[dest], key.grip) # 0
          THEN /\ i' = i + 1
               /\ UNCHANGED <<stores, pc, j, importedkey, ret>>
          ELSE \E r \in AddKey(stores[dest], dest, key) :
                 IF ~r.ok THEN Fail /\ UNCHANGED <<stores, i, j, importedkey>>
                 ELSE /\ stores' = [stores EXCEPT ![dest] = r.st]
                      /\ importedkey' = Ptr(dest, r.st.gen, GetKeyByGrip(r.st, key.grip))
                      /\ j' = 1
                      /\ pc' = "import_sub"
                      /\ UNCHANGED <<i, ret>>
  /\ UNCHANGED <<disk>>

(* Mutant: the subkey pointer is looked up before the subkey is added.     *)
ImportSubkeyLookupFirst ==
  /\ pc = "import_sub"
  /\ j <= Len(stores.tmp.arr[i].subkeys)
  /\ LET key == stores.tmp.arr[i]
         dest == Dest(key.grip)
         subkey == stores.tmp.arr[key.subkeys[j].i]
         target == Ptr(dest, stores[dest].gen, GetKeyByGrip(stores[dest], subkey.grip))
     IN \E r \in AddKey(stores[dest], dest, subkey) :
          IF ~r.ok THEN Fail /\ UNCHANGED <<stores, j>>
          ELSE /\ stores' = [stores EXCEPT ![dest] =
                   [r.st EXCEPT !.arr[importedkey.i].subkeys[j] = target]]
               /\ j' = j + 1
               /\ UNCHANGED <<pc, ret>>
  /\ UNCHANGED <<disk, i, importedkey>>

(* One iteration of the subkey loop: the subkey is added to the same       *)
(* keyring, and importedkey->subkeys[j] is pointed at the copy. importedkey*)
(* was looked up before this add; if the add moved the array the write    *)
(* goes through a dangling pointer into freed memory, where it may or may  *)
(* not reach the key (undefined behaviour: both outcomes).                 *)
ImportSubkey ==
  /\ pc = "import_sub"
  /\ j <= Len(stores.tmp.arr[i].subkeys)
  /\ LET key == stores.tmp.arr[i]
         dest == Dest(key.grip)
         subkey == stores.tmp.arr[key.subkeys[j].i]
     IN \E r \in AddKey(stores[dest], dest, subkey) :
          IF ~r.ok THEN Fail /\ UNCHANGED <<stores, j>>
          ELSE LET target == Ptr(dest, r.st.gen, GetKeyByGrip(r.st, subkey.grip))
                   fixed == [r.st EXCEPT !.arr[importedkey.i].subkeys[j] = target]
               IN /\ stores' \in {[stores EXCEPT ![dest] = fixed]} \cup
                       (IF importedkey.g = r.st.gen THEN {}
                        ELSE {[stores EXCEPT ![dest] = r.st]})
                  /\ j' = j + 1
                  /\ UNCHANGED <<pc, ret>>
  /\ UNCHANGED <<disk, i, importedkey>>

(* The subkey loop is over: next key.                                      *)
ImportSubkeysDone ==
  /\ pc = "import_sub"
  /\ j > Len(stores.tmp.arr[i].subkeys)
  /\ pc' = "import_key"
  /\ i' = i + 1
  /\ UNCHANGED <<stores, disk, j, importedkey, ret>>

(* The start of rnp_import_key: armour detection, the file name suffix     *)
(* and rnp_key_store_load_from_file may fail, and a file without keys     *)
(* is refused.                                                             *)
ImportLoad ==
  /\ pc = "import_load"
  /\ \/ /\ Len(stores.tmp.arr) > 0
        /\ pc' = "import_key"
        /\ UNCHANGED ret
     \/ Fail
  /\ UNCHANGED <<stores, disk, i, j, importedkey>>

(* Mutant: the loop over the keys stops one key early.                    *)
ImportKeysDoneEarly ==
  /\ pc = "import_key"
  /\ i >= Len(stores.tmp.arr)
  /\ pc' = "write_sec"
  /\ UNCHANGED <<stores, disk, i, j, importedkey, ret>>

(* The loop over tmp_keystore->keys is over: the keyrings are written.     *)
ImportKeysDone ==
  /\ pc = "import_key"
  /\ i > Len(stores.tmp.arr)
  /\ pc' = "write_sec"
  /\ UNCHANGED <<stores, disk, i, j, importedkey, ret>>

-----------------------------------------------------------------------------
(* rnp_generate_key: pgp_generate_keypair, then pgp_key_protect of the     *)
(* primary and of the subkey; each may fail and the run returns false.     *)
GenerateKeypair ==
  /\ pc = "gen_keypair"
  /\ \/ pc' = "gen_protect" /\ UNCHANGED ret
     \/ Fail
  /\ UNCHANGED <<stores, disk, i, j, importedkey>>

ProtectKeys ==
  /\ pc = "gen_protect"
  /\ \/ pc' = "gen_add" /\ UNCHANGED ret
     \/ Fail
  /\ UNCHANGED <<stores, disk, i, j, importedkey>>

(* The four rnp_key_store_add_key calls, in order, stopping at the first   *)
(* failure.                                                                *)
GenerateAddKey ==
  /\ pc = "gen_add"
  /\ \E r \in AddKey(stores[GenAddStore[i]], GenAddStore[i], StackKeys[i]) :
       IF ~r.ok THEN Fail /\ UNCHANGED <<stores, i>>
       ELSE /\ stores' = [stores EXCEPT ![GenAddStore[i]] = r.st]
            /\ i' = i + 1
            /\ pc' = IF i = Len(GenAddStore) THEN "write_sec" ELSE "gen_add"
            /\ UNCHANGED ret
  /\ UNCHANGED <<disk, j, importedkey>>

-----------------------------------------------------------------------------
(* rnp_key_store_write_to_file of the secring, then of the pubring; the    *)
(* first failure returns false with the other ring not written.            *)
WriteRing ==
  /\ pc \in {"write_sec", "write_pub"}
  /\ LET s == IF pc = "write_sec" THEN "sec" ELSE "pub"
     IN \/ /\ disk' = [disk EXCEPT ![s] = Grips0(stores[s])]
           /\ pc' = IF s = "sec" THEN "write_pub" ELSE "done"
           /\ ret' = (s = "pub")
        \/ Fail /\ UNCHANGED disk
  /\ UNCHANGED <<stores, i, j, importedkey>>

Next ==
  /\ \/ ImportLoad \/ ImportKey \/ ImportSubkey \/ ImportSubkeysDone \/ ImportKeysDone
     \/ GenerateKeypair \/ ProtectKeys \/ GenerateAddKey
     \/ WriteRing
  /\ UNCHANGED op

Spec == Init /\ [][Next]_vars

(* Each call runs on one thread to its return: every step it can take it   *)
(* takes. Allocation and write failures stay free choices of the actions.  *)
FairSpec == Spec /\ WF_vars(Next)

-----------------------------------------------------------------------------
Ptrs == [s : Stores \cup {"stack"}, g : Nat, i : Nat \ {0}]

(* Every variable has its type; in particular no subkeys[] entry is NULL.  *)
TypeOK ==
  /\ \A s \in Stores :
       /\ stores[s].gen \in Nat
       /\ \A k \in DOMAIN stores[s].arr :
            /\ stores[s].arr[k].grip \in Grips \cup {GenPrimary, GenSubkey}
            /\ \A m \in DOMAIN stores[s].arr[k].subkeys : stores[s].arr[k].subkeys[m] \in Ptrs
  /\ \A s \in {"pub", "sec"} : disk[s] \subseteq Grips \cup {GenPrimary, GenSubkey}
  /\ op \in Ops
  /\ pc \in {"import_load", "import_key", "import_sub", "gen_keypair", "gen_protect",
            "gen_add", "write_sec", "write_pub", "done", "failed"}
  /\ ret \in BOOLEAN

(* The key a pointer designates, when it designates one.                   *)
Live(p) ==
  /\ p.s \in Stores
  /\ p.g = stores[p.s].gen
  /\ p.i \in DOMAIN stores[p.s].arr

(* Spec 3: keys are uniquely identified by grip within a store: no run of *)
(* import or generate leaves two copies of a key in a keyring.             *)
GripsUnique ==
  \A s \in {"pub", "sec"} : \A k, m \in DOMAIN stores[s].arr :
    k # m => stores[s].arr[k].grip # stores[s].arr[m].grip

(* The grips of the subkeys a key of a keyring designates.                 *)
SubkeyGrips(key) ==
  {IF Live(p) THEN stores[p.s].arr[p.i].grip ELSE None : p \in ToSet(key.subkeys)}

(* Spec 3: a primary's subkeys are references to keys owned by the same    *)
(* store. When an operation has returned true, every subkeys[] entry of    *)
(* every key in a keyring points at a key of that keyring (not at the     *)
(* freed tmp_keystore, the caller's stack, or a moved array).              *)
SubkeyRefsInOwnStore ==
  pc = "done" =>
    \A s \in {"pub", "sec"} : \A k \in DOMAIN stores[s].arr :
      \A m \in DOMAIN stores[s].arr[k].subkeys :
        LET p == stores[s].arr[k].subkeys[m] IN p.s = s /\ Live(p)

(* Spec 4.2: importing a key that already exists must still import its    *)
(* new subkeys, and spec 3: a subkey never exists without its primary:     *)
(* after a successful import every subkey in a keyring that holds its      *)
(* primary is among that primary's subkeys.                                *)
NewSubkeysLinked ==
  pc = "done" =>
    \A s \in {"pub", "sec"} : \A k, m \in DOMAIN stores[s].arr :
      stores[s].arr[m].grip = PrimaryOf[stores[s].arr[k].grip] =>
        stores[s].arr[k].grip \in SubkeyGrips(stores[s].arr[m])

(* The keyrings as sets of grips, and the call's outcome.                  *)
AbstractKeyring ==
  INSTANCE AbstractKeyring WITH
    FileGrips <- {ToSet(f) : f \in Files},
    GenKeys <- {GenPrimary, GenSubkey},
    file <- Grips0(stores.tmp),
    ring <- [s \in {"pub", "sec"} |-> Grips0(stores[s])],
    outcome <- CASE pc = "done" -> "done"
                 [] pc = "failed" -> "failed"
                 [] OTHER -> "pending"

(* Spec 4.2 and 4.5 at the level of keyring contents: rnp_import_key and   *)
(* rnp_generate_key only ever add the keys of the call, to the keyring     *)
(* each belongs in; a call that returns true has every one of them in      *)
(* place (a key of the file already present counts, its new subkeys must  *)
(* still come in) and both keyrings saved as they are in memory; and       *)
(* every call returns.                                                     *)
KeyStoreImplementsAbstract == AbstractKeyring!Spec
=============================================================================
