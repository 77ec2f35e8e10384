------------------------------- MODULE IsMine -------------------------------
(***************************************************************************)
(* Ownership of outputs, src/src/ismine.cpp: HaveKeys, the destination     *)
(* visitor and the recursive IsMine over a scriptPubKey, evaluated against *)
(* a keystore that only grows (the wallet adds keys and redeem scripts).  *)
(*                                                                         *)
(* Solver (script/standard.cpp) is outside the source tree: a script's     *)
(* template kind and vSolutions are the constants Kind and Sol.  A public  *)
(* key stands for its CKeyID, and a CScriptID for the script it hashes     *)
(* (both hashes are taken as injective), so a pay-to-script-hash script    *)
(* names its redeem script directly and no chain of them can be cyclic.    *)
(***************************************************************************)
EXTENDS Integers, Sequences, SequencesExt

CONSTANTS
    Key,      \* key ids
    Script,   \* scripts
    Kind,     \* Script -> txnouttype
    Sol       \* Script -> vSolutions

Kinds == {"nonstandard", "nulldata", "pubkey", "pubkeyhash", "scripthash", "multisig"}

VARIABLES
    keys,     \* CBasicKeyStore::mapKeys (their ids)
    scripts   \* CBasicKeyStore::mapScripts (the redeem scripts)

vars == <<keys, scripts>>

-----------------------------------------------------------------------------

\* the member keys of a multisig: vSolutions without the leading m and the
\* trailing n
MultisigKeys(s) == SubSeq(Sol[s], 2, Len(Sol[s]) - 1)

\* HaveKeys: how many entries of the list the keystore holds (each
\* occurrence counted)
HaveKeys(ks, pubkeys) == Len(SelectSeq(pubkeys, LAMBDA k : k \in ks.keys))

\* mutant: a multisig counts as mine once m of its keys are held
RECURSIVE IsMineMofN(_, _)
IsMineMofN(ks, s) ==
    CASE Kind[s] \in {"pubkey", "pubkeyhash"} -> Sol[s][1] \in ks.keys
      [] Kind[s] = "scripthash" -> Sol[s][1] \in ks.scripts /\ IsMineMofN(ks, Sol[s][1])
      [] Kind[s] = "multisig"   -> HaveKeys(ks, MultisigKeys(s)) >= Sol[s][1]
      [] OTHER                  -> FALSE

\* IsMine(keystore, scriptPubKey): a key script is mine when its key is
\* held; a script hash when the redeem script is held and is itself mine; a
\* multisig only when every member key is held
RECURSIVE IsMineScript(_, _)
IsMineScript(ks, s) ==
    CASE Kind[s] \in {"pubkey", "pubkeyhash"} -> Sol[s][1] \in ks.keys
      [] Kind[s] = "scripthash" -> Sol[s][1] \in ks.scripts /\ IsMineScript(ks, Sol[s][1])
      [] Kind[s] = "multisig"   -> HaveKeys(ks, MultisigKeys(s)) = Len(MultisigKeys(s))
      [] OTHER                  -> FALSE

\* the destination ExtractDestination gives for a script (NoDestination
\* for the templates without one)
Destination(s) ==
    CASE Kind[s] \in {"pubkey", "pubkeyhash"} -> [type |-> "keyID", id |-> Sol[s][1]]
      [] Kind[s] = "scripthash"               -> [type |-> "scriptID", id |-> Sol[s][1]]
      [] OTHER                                -> [type |-> "none", id |-> s]

\* IsMine(keystore, dest): CKeyStoreIsMineVisitor
IsMineDest(ks, d) ==
    CASE d.type = "keyID"    -> d.id \in ks.keys
      [] d.type = "scriptID" -> d.id \in ks.scripts
      [] OTHER               -> FALSE

KeyStore == [keys |-> keys, scripts |-> scripts]

-----------------------------------------------------------------------------

Init == keys = {} /\ scripts = {}

\* CBasicKeyStore::AddKeyPubKey
AddKey(k) == k \notin keys /\ keys' = keys \cup {k} /\ UNCHANGED scripts

\* CBasicKeyStore::AddCScript
AddCScript(r) == r \notin scripts /\ scripts' = scripts \cup {r} /\ UNCHANGED keys

Next == (\E k \in Key : AddKey(k)) \/ (\E r \in Script : AddCScript(r))

Spec == Init /\ [][Next]_vars

-----------------------------------------------------------------------------
(* Reference: spec section 4 ("IsMine is true iff the keystore holds the  *)
(* key(s) needed to spend; multisig requires all member keys") and P2SH    *)
(* redemption ("nested P2SH is forbidden").                                *)

\* spendable with held keys without going through a script hash
SpendableDirect(s) ==
    \/ Kind[s] \in {"pubkey", "pubkeyhash"} /\ Sol[s][1] \in keys
    \/ Kind[s] = "multisig" /\ ToSet(MultisigKeys(s)) \subseteq keys

RefIsMine(s) ==
    \/ SpendableDirect(s)
    \/ /\ Kind[s] = "scripthash"
       /\ Sol[s][1] \in scripts
       /\ Kind[Sol[s][1]] # "scripthash"
       /\ SpendableDirect(Sol[s][1])

\* a script hash whose redeem script is itself a script hash
NestedP2SH(s) == Kind[s] = "scripthash" /\ Kind[Sol[s][1]] = "scripthash"

\* For every script that is not a nested script hash, the recursive IsMine
\* agrees with the reference, whatever keys and redeem scripts the wallet
\* holds: a multisig needs all of its keys, with duplicates and the
\* leading m / trailing n of vSolutions handled.
IsMineMatchesReference ==
    \A s \in Script : ~NestedP2SH(s) => (IsMineScript(KeyStore, s) <=> RefIsMine(s))

=============================================================================
